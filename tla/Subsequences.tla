---------------------------- MODULE Subsequences ----------------------------
(***************************************************************************)
(* What a filter, a pass that drops repeats and a slice leave of a list:   *)
(* the elements at some positions, in their order.                         *)
(***************************************************************************)
EXTENDS Integers, Sequences, FiniteSets

\* The position that has k of the positions up to it.
Place(positions, k) ==
  CHOOSE i \in positions : Cardinality({j \in positions : j <= i}) = k

Selected(s, positions) == [k \in 1..Cardinality(positions) |-> s[Place(positions, k)]]

\* The positions at which an element occurs for the first time.
Firsts(s) == {i \in DOMAIN s : \A j \in 1..(i - 1) : s[j] # s[i]}

\* The positions at which an element occurs for the last time.
Lasts(s) == {i \in DOMAIN s : \A j \in (i + 1)..Len(s) : s[j] # s[i]}

\* Those of the first whose element is not known already.
NewFirsts(s, known) == {i \in Firsts(s) : s[i] \notin known}

\* s[:count]
First(s, count) == SubSeq(s, 1, IF Len(s) < count THEN Len(s) ELSE count)
=============================================================================
