------------------------- MODULE MCCallLifecycle -------------------------
(* Instances of CallLifecycle for TLC. *)
EXTENDS CallLifecycle, TLC

RequestSymmetry == Permutations(Reqs)
CreateSymmetry ==
    Permutations(Reqs) \cup Permutations(Calls) \cup Permutations(Users)
=============================================================================
