--------------------------- MODULE MCSeederStore ---------------------------
(* Two file names, files of up to two cells, every request a client may    *)
(* send, and a folder that may already hold sound, torn or broken files.   *)
EXTENDS SeederStore

MCMid == {1, 2}
MCCell == {"FF", "00", "head2", "body"}
MCDeclared(c) == IF c = "head2" THEN 2 ELSE -1
MCValid(f) == f = <<"head2", "body">>
MCSeed == <<"body", "body">>
MCLeftBehind == {NoFile, <<"head2", "body">>, <<"body", "body">>}

=============================================================================
