------------------------------ MODULE MCSystem ------------------------------
(***************************************************************************)
(* An instance of System: one page without paging, instructions of one     *)
(* address, a timer period longer than the kernel's interrupt handler.     *)
(***************************************************************************)
EXTENDS System

MCReads == {[sector |-> 1, sectors |-> 2], [sector |-> 2, sectors |-> 3]}
=============================================================================
