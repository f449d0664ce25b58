--------------------------- MODULE MCUsageAccount ---------------------------
(* An instance of UsageAccount: audio minutes, of which one is free, and   *)
(* screen sharing, which never is.                                         *)
EXTENDS UsageAccount, TLC

TheFree == [audio |-> 1, screen |-> 0]
TheRate == [audio |-> 1, screen |-> 1]
TheUses == {[audio |-> 2, screen |-> 1]}
Alike == Permutations(Calls) \cup Permutations(Deliveries)
=============================================================================
