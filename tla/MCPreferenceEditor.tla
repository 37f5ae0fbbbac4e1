--------------------------- MODULE MCPreferenceEditor ---------------------------
(***************************************************************************)
(* Small instances of PreferenceEditor: one unit of time is ten minutes.   *)
(***************************************************************************)
EXTENDS PreferenceEditor, TLC

\* Editors, Saves and conditions are interchangeable.
AllSymmetry == Permutations(Editor) \cup Permutations(SaveClick) \cup Permutations(Condition)
================================================================================
