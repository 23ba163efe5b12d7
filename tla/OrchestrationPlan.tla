-------------------------- MODULE OrchestrationPlan --------------------------
(***************************************************************************)
(* The data an orchestration run is built from, and the three passes that  *)
(* turn a drafted plan into batches: the validation of the dependency      *)
(* graph, the safety guardrail that classifies and gates subtasks, and the *)
(* grouping of one dependency wave into a batch with an execution mode.    *)
(*                                                                         *)
(* A plan is a function from subtask IDs to Subtask records.  IDs are      *)
(* naturals, so that sort.Strings on IDs is the order < .  Titles and      *)
(* descriptions are reduced to the two families of words the guardrail     *)
(* looks for ("Mentions"), durations to whether they are set.              *)
(***************************************************************************)
EXTENDS Integers, FiniteSets

CONSTANT Subtasks   \* the IDs of the subtasks of the plan

ASSUME SubtasksAssumption == Subtasks \subseteq Nat /\ IsFiniteSet(Subtasks)

RiskLevel == {"low", "medium", "high", "critical"}

SevereRisk == {"high", "critical"}

Subtask ==
  [DependsOn       : SUBSET Subtasks,
   CanParallel     : BOOLEAN,
   RiskLevel       : RiskLevel,
   WaitingApproval : BOOLEAN,              \* Status = StatusWaitingApproval
   Mentions        : SUBSET {"destructive", "remote"},
   HasTimeout      : BOOLEAN,              \* Timeout > 0
   MaxAttempts     : Nat,                  \* RetryPolicy.MaxAttempts
   HasBackoff      : BOOLEAN]              \* RetryPolicy.Backoff > 0

Plan == [Subtasks -> Subtask]

(***************************************************************************)
(* ValidateExecutionPlan.  A duplicate or unknown ID cannot be written in  *)
(* the type of a plan; what is left to refuse is a self-dependency and a   *)
(* cycle.  validateAcyclic's depth-first search succeeds exactly when the  *)
(* subtasks can be ranked so that every dependency has a lower rank.       *)
(***************************************************************************)
Ranks(p, rank) ==
  \A s \in Subtasks : \A d \in p[s].DependsOn : rank[d] < rank[s]

\* Mutant: only a self-dependency is refused.
NoSelfDependency(p) == \A s \in Subtasks : s \notin p[s].DependsOn

ValidPlan(p) ==
  \E rank \in [Subtasks -> 0 .. Cardinality(Subtasks)] : Ranks(p, rank)

(***************************************************************************)
(* ApplySafetyPolicy: destructive words make a subtask critical and        *)
(* serial, remote words make it high unless it is critical already, and    *)
(* every severe or already waiting subtask that was not approved up front  *)
(* is put behind the approval gate.                                        *)
(***************************************************************************)
ClassifyDestructiveOrRemote(st) ==
  IF "destructive" \in st.Mentions
    THEN [st EXCEPT !.RiskLevel = "critical", !.CanParallel = FALSE]
  ELSE IF "remote" \in st.Mentions /\ st.RiskLevel # "critical"
    THEN [st EXCEPT !.RiskLevel = "high", !.CanParallel = FALSE]
  ELSE st

ApplyApprovalPolicy(st, preApproved) ==
  IF (st.RiskLevel \in SevereRisk \/ st.WaitingApproval) /\ ~preApproved
    THEN [st EXCEPT !.WaitingApproval = TRUE, !.CanParallel = FALSE]
    ELSE st

\* Mutant: approval is decided on the risk the planner gave, then raised.
ApprovalBeforeClassification(p, approvedIDs) ==
  [s \in Subtasks |->
     ClassifyDestructiveOrRemote(ApplyApprovalPolicy(p[s], s \in approvedIDs))]

ApplySafetyPolicy(p, approvedIDs) ==
  [s \in Subtasks |->
     ApplyApprovalPolicy(ClassifyDestructiveOrRemote(p[s]), s \in approvedIDs)]

(***************************************************************************)
(* BuildExecutionWaves and batchFromWave.  scheduled is the set of IDs in  *)
(* earlier waves; a wave is every other subtask whose dependencies are all *)
(* in it.                                                                  *)
(***************************************************************************)
NextWave(p, scheduled) ==
  {s \in Subtasks \ scheduled : p[s].DependsOn \subseteq scheduled}

Mode == {"parallel", "serial", "gated"}

Batch == [Mode : Mode, SubtaskIDs : SUBSET Subtasks, MaxConcurrency : Nat]

\* Mutant: only approval gates decide the mode.
GatesDecideMode(p, wave) ==
  IF \E s \in wave : p[s].WaitingApproval THEN "gated" ELSE "parallel"

\* The loop of batchFromWave goes through the wave in ID order and each
\* subtask overwrites the mode: the last one with an opinion wins.
BatchMode(p, wave) ==
  LET gates(s)  == p[s].WaitingApproval \/ p[s].RiskLevel \in SevereRisk
      serial(s) == ~p[s].CanParallel
      decides   == {s \in wave : gates(s) \/ serial(s)}
  IN  IF decides = {} THEN "parallel"
      ELSE LET last == CHOOSE s \in decides : \A t \in decides : t <= s
           IN  IF gates(last) THEN "gated" ELSE "serial"

AtMost(n, cap) == IF cap > 0 /\ n > cap THEN cap ELSE n

BatchFromWave(p, wave, maxConcurrency) ==
  LET mode == BatchMode(p, wave)
      n    == IF mode = "parallel" THEN Cardinality(wave) ELSE 1
  IN  [Mode           |-> mode,
       SubtaskIDs     |-> wave,
       MaxConcurrency |-> AtMost(n, maxConcurrency)]
=============================================================================
