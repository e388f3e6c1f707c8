----------------------------- MODULE MCApprovals -----------------------------
(* Model checking of Approvals: requests and actions are interchangeable.  *)
EXTENDS Approvals, TLC

RequestSymmetry == Permutations(Requests)
Symmetry == Permutations(Requests) \cup Permutations(Actions)
=============================================================================
