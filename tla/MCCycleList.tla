----------------------------- MODULE MCCycleList -----------------------------
(***************************************************************************)
(* One list and four elements.                                             *)
(***************************************************************************)
EXTENDS CycleList

CONSTANTS e1, e2, e3, e4

MCElems == {e1, e2, e3, e4}

=============================================================================
