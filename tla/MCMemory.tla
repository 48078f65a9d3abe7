------------------------------ MODULE MCMemory ------------------------------
(***************************************************************************)
(* Six pages, two classes with three blocks and one block to the page, and *)
(* requests for a block of each class, for one page, two and three.  As in *)
(* the code, five times the blocks of a page is less than WrongBlockCount. *)
(***************************************************************************)
EXTENDS Memory

=============================================================================
