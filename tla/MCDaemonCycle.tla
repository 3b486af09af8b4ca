--------------------------- MODULE MCDaemonCycle ----------------------------
(* Instances of DaemonCycle; pages are interchangeable.                     *)
EXTENDS DaemonCycle, TLC

PageNames == Permutations(Pages)
=============================================================================
