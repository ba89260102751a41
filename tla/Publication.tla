---------------------------- MODULE Publication ----------------------------
(***************************************************************************)
(* What pull-to-folder promises about one `<mid>.mota`: whatever stood     *)
(* there at first, the file changes only by becoming the captured          *)
(* container, whole and exact, and it eventually does.                     *)
(***************************************************************************)
CONSTANTS Image, Before

VARIABLE published

Init == published \in Before

Publish == published' = Image

Safety == Init /\ [][Publish]_published

Spec == Safety /\ <>[](published = Image)
=============================================================================
