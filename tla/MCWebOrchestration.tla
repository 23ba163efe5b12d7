-------------------------- MODULE MCWebOrchestration --------------------------
(***************************************************************************)
(* Two runs of a plan with one gated and one plain subtask, and two        *)
(* answers of the user.  Runs and answers are interchangeable.             *)
(***************************************************************************)
EXTENDS WebOrchestration, TLC

CONSTANTS r1, r2, d1, d2

MCRuns     == {r1, r2}
MCIds      == {"gate", "work"}
MCGated    == {"gate"}
MCWaiters  == MCRuns \X MCGated
MCIdOf     == [w \in MCWaiters |-> w[2]]
MCDeciders == {d1, d2}

Symmetry == Permutations(MCRuns) \cup Permutations(MCDeciders)
=============================================================================
