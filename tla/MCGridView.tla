------------------------------- MODULE MCGridView -------------------------------
(***************************************************************************)
(* A small catalog for GridView: a meta-group of two types and two pages,  *)
(* one of a single condition, which has no label, and a condition of a     *)
(* type the bot does not know.                                             *)
(***************************************************************************)
EXTENDS GridView

MCCondition == 1 .. 5
MCKind == <<2, 1, 2, 3, 4>>
MCGroup == <<1, 1, 1, 2, 0>>
MCLabelled == {1, 2, 3}
================================================================================
