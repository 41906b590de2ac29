-------------------------- MODULE MCCsimInclusion --------------------------
(* Csim with two and with three lines in each of two sets, on a trace over four blocks of each
   set; one of the blocks is used at both its addresses. *)
EXTENDS CsimInclusion

FourBlocks == {0, 1, 2, 4, 6, 8, 10, 12, 14}
=============================================================================
