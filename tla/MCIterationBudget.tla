-------------------------- MODULE MCIterationBudget --------------------------
(***************************************************************************)
(* The smallest user override in the mode that leaves it as it is and in   *)
(* the one that triples it, next to both modes' own numbers, so that the   *)
(* base, progress extensions and the ceiling are reached; three calls can  *)
(* repeat, oscillate and be diverse enough to count as progress.           *)
(***************************************************************************)
EXTENDS IterationBudget

MCModes     == {"ask", "workflow"}
MCUserMaxes == {1}
MCCalls     == {"a", "b", "c"}
MCRequests  == {0, 1, 100}
=============================================================================
