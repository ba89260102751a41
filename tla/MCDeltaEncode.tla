--------------------------- MODULE MCDeltaEncode ---------------------------
(* Sizes in digits of two and four, runs from three bytes on.  Sequential:  *)
(* all bases and targets over two bytes up to the bounds, and some longer   *)
(* ones; in place: every pair over two bytes for one window.                *)
EXTENDS DeltaEncode

CONSTANTS MaxFrom, MaxTo

Upto(n, S) == UNION {[1..i -> S] : i \in 0..n}

Sequential(f, t) == [type |-> "sequential", from |-> f, to |-> t]
Within(f, t, m, g) == [type |-> "in-place", from |-> f, to |-> t, mem |-> m, seg |-> g]

Longer ==
    {<<1, 2, 3, 4, 5, 6, 7, 0>>, <<5, 6, 7, 0, 1, 2, 3, 4>>, <<1, 2, 3, 1, 2, 3, 1, 2>>,
     <<1, 2, 3, 4, 0, 0, 0, 0, 5, 6, 7>>, <<7, 7, 7, 7, 7, 7, 7, 7, 7>>, <<0, 0, 0, 0, 1, 2, 3, 5, 6, 7>>}

\* The forward and the backward region overlap and the overlap is divided
Shared ==
    {Sequential(<<0, 0, 0, 0, 1, 0>>, <<1, 0, 0, 1, 0, 1, 0>>),
     Sequential(<<2, 0, 2, 0, 1>>, <<1, 2, 0, 1, 0, 1>>)}

MCRequests ==
    {Sequential(f, t) : f \in Upto(MaxFrom, {0, 1}), t \in Upto(MaxTo, {0, 1})}
      \cup {Sequential(f, t) : f \in Longer, t \in Longer}
      \cup Shared
      \cup {Within(f, t, 8, 2) : f \in Upto(4, {0, 1}), t \in Upto(4, {0, 1})}
      \cup {Within(f, t, 12, 3) : f \in Longer, t \in Longer}
=============================================================================
