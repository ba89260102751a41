----------------------------- MODULE MCHexInput -----------------------------
(* Sixteen addresses in four banks, a region across a bank boundary, and    *)
(* records that are empty, overlap, conflict and run off the top.           *)
EXTENDS HexInput

MCValues == {<<>>, <<1>>, <<2>>, <<1, 2>>, <<2, 1, 1>>}
=============================================================================
