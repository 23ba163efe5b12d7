----------------------- MODULE MCOrchestrationExecutor -----------------------
(***************************************************************************)
(* Three subtasks, every combination of the subtask profiles below over a  *)
(* few dependency graphs, under a few configurations.                      *)
(***************************************************************************)
EXTENDS OrchestrationExecutor

MCSubtasks == 1 .. 3

Profile(par, risk, waits, words, timeout, max, backoff) ==
  [DependsOn |-> {}, CanParallel |-> par, RiskLevel |-> risk,
   WaitingApproval |-> waits, Mentions |-> words,
   HasTimeout |-> timeout, MaxAttempts |-> max, HasBackoff |-> backoff]

Reader   == Profile(TRUE,  "low",    FALSE, {},         FALSE, 0, FALSE)
Flaky    == Profile(TRUE,  "medium", FALSE, {},         TRUE,  2, TRUE)
Writer   == Profile(FALSE, "low",    FALSE, {},         FALSE, 2, FALSE)
Remote   == Profile(TRUE,  "low",    FALSE, {"remote"}, FALSE, 1, FALSE)
Gate     == Profile(FALSE, "low",    TRUE,  {},         FALSE, 1, FALSE)

Shaped(profiles, graphs) ==
  {[s \in MCSubtasks |-> [shape[s] EXCEPT !.DependsOn = graph[s]]] :
     shape \in [MCSubtasks -> profiles], graph \in graphs}

Free    == <<{}, {}, {}>>
Chain   == <<{}, {1}, {2}>>
Fork    == <<{3}, {3}, {}>>
Join    == <<{}, {}, {1, 2}>>
Pair    == <<{}, {1}, {}>>
Cycle   == <<{2}, {1}, {}>>

MCDrafts == Shaped({Reader, Flaky, Remote}, {Free, Fork, Join, Chain, Pair})
              \cup Shaped({Reader, Writer, Gate}, {Free, Fork, Join, Chain, Pair})
              \cup Shaped({Reader}, {Cycle})

Defaults ==
  [MaxConcurrency |-> 2, ParallelEnabled |-> TRUE, ContinueOnLowRiskFailure |-> FALSE,
   DryRun |-> FALSE, HasApprovalFunc |-> TRUE, ApprovedSubtaskIDs |-> {}]

MCConfigs ==
  {Defaults,
   [Defaults EXCEPT !.MaxConcurrency = 0, !.ContinueOnLowRiskFailure = TRUE,
                    !.ApprovedSubtaskIDs = {1}],
   [Defaults EXCEPT !.ParallelEnabled = FALSE, !.HasApprovalFunc = FALSE,
                    !.ContinueOnLowRiskFailure = TRUE]}

MCDry == {[Defaults EXCEPT !.DryRun = TRUE]}

MCConfigsAndDry == MCConfigs \cup MCDry
=============================================================================
