----------------------------- MODULE Positions -----------------------------
(***************************************************************************)
(* Picking the elements of a sequence that stand at certain positions, in  *)
(* order: what is left of a path when its empty components are ignored,    *)
(* and the tokens of a string from the places where they start.            *)
(***************************************************************************)
EXTENDS Integers, Sequences, FiniteSets

(* How many elements of a set of numbers are not above n, and its k-th     *)
(* smallest element.                                                       *)
Rank(S, n) == Cardinality({m \in S : m <= n})

Nth(S, k) == CHOOSE n \in S : Rank(S, n) = k

KeptPositions(s, drop) == {n \in 1..Len(s) : s[n] \notin drop}

(* The elements of s that are not in drop.                                 *)
Keep(s, drop) ==
  LET kept == KeptPositions(s, drop)
  IN  [k \in 1..Cardinality(kept) |-> s[Nth(kept, k)]]
=============================================================================
