------------------------------ MODULE MCVMFault ------------------------------
(***************************************************************************)
(* Instances of VMFault for TLC.                                           *)
(***************************************************************************)
EXTENDS VMFault

CONSTANTS b1, b2
MCTwoBlocks == {b1, b2}
MCTwoSlots == 1..2
MCNoPoll == {}
MCPolls == {"SUSPENDED", "BROKE"}
MCBreak == {"BROKE"}
=============================================================================
