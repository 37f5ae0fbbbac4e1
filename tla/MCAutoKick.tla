------------------------------ MODULE MCAutoKick ------------------------------
(***************************************************************************)
(* Small instances of AutoKick: one unit of time is the window of 24 hours. *)
(***************************************************************************)
EXTENDS AutoKick, TLC

MemberSymmetry == Permutations(Member)
ReplicaSymmetry == Permutations(Replica)
================================================================================
