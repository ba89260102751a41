----------------------------- MODULE MCCapture -----------------------------
(* One container of three chunks, the last two alike, and a folder that     *)
(* may already hold it whole, broken, or half captured.  The seed was built *)
(* with fewer blocks, so that BEGIN lays its payload one chunk too early.   *)
EXTENDS Capture

MCMid == {1}
MCCell == {"FF", "00", "head", "a"}
MCImage == <<"head", "a", "a">>
MCDeclared(c) == IF c = "head" THEN 3 ELSE -1
MCValid(f) == f = MCImage
MCSeed == <<"a">>
MCLeftBehind == {NoFile, MCImage, <<"head", "00", "a">>, <<"head">>}

\* a container whose leaves differ from any payload, captured into a new folder
OverlayCell == {"FF", "00", "head", "leaf", "a"}
OverlayImage == <<"head", "leaf", "a">>
OverlayValid(f) == f = OverlayImage
OverlayLeftBehind == {NoFile}

=============================================================================
