------------------------------ MODULE MCRoleSync ------------------------------
(***************************************************************************)
(* Small instances of RoleSync: the two attack days of the seed (roles/    *)
(* seed.py), both with a role, and three deliveries.                       *)
(***************************************************************************)
EXTENDS RoleSync, TLC

\* Deliveries of one replica are interchangeable; so are the days.
CallSymmetry == Permutations(Call)
DaySymmetry == Permutations(Day)
CallAndDaySymmetry == CallSymmetry \cup DaySymmetry
================================================================================
