------------------------- MODULE MCDeflateTransport -------------------------
(* Blocks of four bytes, a short last block, packets and slices of two, and *)
(* encoders that tie, fail, shrink a block or do not.                       *)
EXTENDS DeflateTransport

Coding(a, b, c, d) ==
    [zopfli1000 |-> a, zopfli15 |-> b, zopfli100 |-> c, zlib |-> d]

MCCodings ==
    {Coding(3, 3, 3, 3), Coding(3, 2, 2, 5), Coding(5, Fail, 4, 3), Coding(4, 4, 6, 4),
     Coding(Fail, 1, 2, 3), Coding(1, 1, Fail, 1), Coding(0, 3, 3, 3)}
MCPayloadSizes == {4, 6, 9}
=============================================================================
