----------------------------- MODULE Selection ------------------------------
(***************************************************************************)
(* What Python's comprehensions and its sort make of a sequence, as the    *)
(* places 1, 2, ... of the elements they take, in the order they take them *)
(* in.  The functions are of how many places have been looked at.          *)
(***************************************************************************)
EXTENDS Integers, Sequences, FiniteSets

Taken(s, places) == [k \in DOMAIN places |-> s[places[k]]]

(* A comprehension with a condition: the places in a set, in order.        *)
ChosenUpTo(n, S) ==
  LET chosen[k \in 0..n] ==
        IF k = 0 THEN << >>
        ELSE IF k \in S THEN Append(chosen[k - 1], k) ELSE chosen[k - 1]
  IN  chosen
Chosen(n, S) == ChosenUpTo(n, S)[n]
Kept(s, Test(_)) == Taken(s, Chosen(Len(s), {i \in DOMAIN s : Test(s[i])}))

(* The sort, which is stable: each place goes before the first it is over. *)
Inserted(sorted, place, over) ==
  LET before == Cardinality({i \in DOMAIN sorted : <<place, sorted[i]>> \notin over})
  IN  SubSeq(sorted, 1, before) \o <<place>> \o SubSeq(sorted, before + 1, Len(sorted))
SortedUpTo(n, over) ==
  LET sorted[k \in 0..n] ==
        IF k = 0 THEN << >> ELSE Inserted(sorted[k - 1], k, over)
  IN  sorted
InOrder(n, over) == SortedUpTo(n, over)[n]

(* The pairs of places of which the first is over the second.              *)
Pairs(n, Over(_, _)) == {p \in (1..n) \X (1..n) : Over(p[1], p[2])}
Sorted(s, Over(_, _)) ==
  Taken(s, InOrder(Len(s), Pairs(Len(s), LAMBDA i, j : Over(s[i], s[j]))))
=============================================================================
