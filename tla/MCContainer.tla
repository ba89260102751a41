---------------------------- MODULE MCContainer ----------------------------
(***************************************************************************)
(* Instance of Container: images of 1 to 15 cells with and without a       *)
(* trailer (so 1 to 7 blocks of 2, and 8, one too many), deltas with       *)
(* matching and other hardware, signed and unsigned, and good and bad      *)
(* bootloader images.                                                      *)
(***************************************************************************)
EXTENDS Container

CONSTANTS t1, t2, h1, h2, k1, k2, board, other

Cells(tag, n) == [i \in 1..n |-> <<tag, i>>]
IdentOf(t, h) == [target |-> t, hw |-> h, fw_version |-> 1]
Stamped(body, h) == Append(body, EndF(body, IdentOf(t1, h)))

MCNoIdent == [target |-> None, hw |-> None, fw_version |-> 0]
MCKeys == {k1, k2}
MCStorage == board :> {"qspi"} @@ other :> {"internal"}
MCPlatform == board :> "v7" @@ other :> "v6"
MCPatch(base, image) == <<<<"p", Len(base)>>, <<"p", 0>>, <<"p", 1>>, <<"p", 2>>, <<"p", Len(image)>>>>

\* four bytes that do not tell a forged cell from the one it replaces
MCShort(x) == [i \in DOMAIN x |-> IF x[i][1] = "forged" THEN x[i][2] ELSE x[i]]

App(fw, base, target, hw, key, size, force) ==
    [fw |-> fw, base |-> base, target |-> target, hw |-> hw, fw_version |-> None,
     key |-> key, block_size |-> size, force |-> force]

MCAppOptions ==
    {App(fw, None, None, None, key, size, FALSE) :
        fw \in {Cells("b", 1), Stamped(Cells("b", 3), h1)}, key \in {None, k1}, size \in {1, 2, 4}}
    \cup {App(Cells("b", n), None, t1, h1, None, 2, FALSE) : n \in 4..14}
    \cup {App(Stamped(Cells("b", 2), h1), base, t2, None, key, 2, force) :
             base \in {Stamped(Cells("a", 2), h1), Stamped(Cells("a", 2), h2), Cells("a", 3)},
             key \in {None, k1}, force \in BOOLEAN}

Embedded(body, b, platform) == Append(body, <<"BLM", Hash(body), b, 1, platform>>)
BootBody(storage) == <<<<"vector">>, <<"CAPS", storage>>, <<"b", 1>>>>
Boot(image, b, storage) == [image |-> image, board |-> b, storage |-> storage, key |-> k1]

MCBootOptions ==
    {Boot(Embedded(BootBody("qspi"), board, "v7"), board, "qspi"),
     Boot(Embedded(BootBody("qspi"), board, "v7"), other, "internal"),
     Boot(Embedded(BootBody("internal"), board, "v7"), board, "qspi"),
     Boot(Embedded(BootBody("qspi"), board, "v6"), board, "qspi"),
     Boot(Embedded(<<<<"vector">>, <<"CAPS", "qspi">>, <<"CAPS", "qspi">>>>, board, "v7"), board, "qspi")}

=============================================================================
