------------------------ MODULE OrchestrationExecutor ------------------------
(***************************************************************************)
(* One orchestration run: RunOrchestration prepares a drafted plan (safety *)
(* guardrail, scheduler) and Executor.Execute runs its batches.            *)
(*                                                                         *)
(* Processes: the goroutine that calls RunOrchestration, whose position is *)
(* phase; in a parallel batch one goroutine per ready subtask, whose       *)
(* position is pc[s] (in a serial or gated batch the main goroutine goes   *)
(* through the same positions, one subtask at a time); the user, who may   *)
(* cancel the context at any moment and who answers the approval gate; and *)
(* the subtask handler, which returns whatever it likes whenever it likes. *)
(***************************************************************************)
EXTENDS OrchestrationPlan, Sequences

CONSTANTS
  Drafts,    \* the plans the planner may hand over
  Configs    \* the executor configurations

Config ==
  [MaxConcurrency           : Nat,               \* 0 means "not set"
   ParallelEnabled          : BOOLEAN,
   ContinueOnLowRiskFailure : BOOLEAN,
   DryRun                   : BOOLEAN,
   HasApprovalFunc          : BOOLEAN,
   ApprovedSubtaskIDs       : SUBSET Subtasks]

ASSUME DraftsAssumption  == Drafts \subseteq Plan
ASSUME ConfigsAssumption == Configs \subseteq Config

Final  == {"success", "failed", "skipped", "cancelled"}
Result == Final \cup {"none"}            \* "none": no entry in the result map

VARIABLES
  config,     \* the configuration of the run, never changed
  plan,       \* the plan: the draft, then the draft after the guardrail
  batches,    \* the batches scheduled so far
  phase,      \* where the main goroutine is
  next,       \* index of the batch the main loop takes next
  ready,      \* the subtasks of the batch being executed
  pc,         \* where the execution of each subtask is
  attempt,    \* how many times the handler of each subtask was called
  last,       \* the status each subtask's execution returned with
  results,    \* PlanExecutionResult.Results
  status,     \* PlanExecutionResult.Status
  cancelled,  \* ctx.Err() # nil
  granted     \* the subtasks for which "approval_granted" was logged

planVars == <<config, plan, batches>>
taskVars == <<pc, attempt, last, granted>>
vars == <<planVars, phase, next, ready, taskVars, results, status, cancelled>>

Active(s) == pc[s] \in {"approval", "handler", "backoff"}

Scheduled == UNION {batches[i].SubtaskIDs : i \in DOMAIN batches}

CurrentBatch == batches[next]

(***************************************************************************)
(* Helpers of Execute, on a result map r.                                  *)
(***************************************************************************)
\* Mutant: a dependency that was skipped or cancelled does not count.
OnlyFailedDependency(s, r) == \E d \in plan[s].DependsOn : r[d] = "failed"

HasFailedDependency(s, r) == \E d \in plan[s].DependsOn : r[d] # "success"

\* Mutant: ContinueOnLowRiskFailure forgives severe failures too.
StopUnlessContinue(r) ==
  \E s \in ready : r[s] = "failed" /\ ~config.ContinueOnLowRiskFailure

ShouldStopAfterBatch(r) ==
  \E s \in ready : /\ r[s] = "failed"
                   /\ \/ plan[s].RiskLevel \in SevereRisk
                      \/ ~config.ContinueOnLowRiskFailure

\* Mutants: the dependents are left for cancelPending; everything left is skipped.
SkipNothing(r) == r

SkipEverything(r) == [s \in Subtasks |-> IF r[s] = "none" THEN "skipped" ELSE r[s]]

\* skipUnresolvedDependents reads the map it fills, but an entry it adds is
\* never "success", so one pass over the unresolved subtasks is the fixpoint.
SkipUnresolvedDependents(r) ==
  [s \in Subtasks |->
     IF r[s] = "none" /\ HasFailedDependency(s, r) THEN "skipped" ELSE r[s]]

\* Mutant: what did not succeed is marked cancelled, also when it has a result.
CancelUnlessSuccess(r) ==
  [s \in Subtasks |-> IF r[s] \in {"none", "failed"} THEN "cancelled" ELSE r[s]]

CancelPending(r) ==
  [s \in Subtasks |-> IF r[s] = "none" THEN "cancelled" ELSE r[s]]

SummarizePlanStatus(r) ==
  IF \E s \in Subtasks : r[s] = "failed" THEN "failed"
  ELSE IF \E s \in Subtasks : r[s] = "cancelled" THEN "cancelled"
  ELSE "success"

-----------------------------------------------------------------------------
Init ==
  /\ config \in Configs
  /\ plan \in Drafts
  /\ batches = <<>>
  /\ phase = "safety"
  /\ next = 1
  /\ ready = {}
  /\ pc = [s \in Subtasks |-> "idle"]
  /\ attempt = [s \in Subtasks |-> 0]
  /\ last = [s \in Subtasks |-> "none"]
  /\ results = [s \in Subtasks |-> "none"]
  /\ status = "running"
  /\ cancelled = FALSE
  /\ granted = {}

(***************************************************************************)
(* Preparation, by the main goroutine.                                     *)
(***************************************************************************)
\* ApplySafetyPolicy refuses an invalid plan and RunOrchestration returns.
RejectPlan ==
  /\ phase = "safety"
  /\ ~ValidPlan(plan)
  /\ phase' = "rejected"
  /\ UNCHANGED <<planVars, next, ready, taskVars, results, status, cancelled>>

ApplySafety ==
  /\ phase = "safety"
  /\ ValidPlan(plan)
  /\ plan' = ApplySafetyPolicy(plan, config.ApprovedSubtaskIDs)
  /\ phase' = "schedule"
  /\ UNCHANGED <<config, batches, next, ready, taskVars, results, status, cancelled>>

\* One turn of the loop of BuildExecutionWaves, with the batch its wave becomes.
\* forceSerialExecution is applied here: the executor would apply it to the
\* whole list before it looks at the first batch.
BuildBatch ==
  /\ phase = "schedule"
  /\ Scheduled # Subtasks
  /\ LET b == BatchFromWave(plan, NextWave(plan, Scheduled), config.MaxConcurrency)
     IN  batches' = Append(batches,
                      IF config.ParallelEnabled THEN b
                      ELSE [b EXCEPT !.Mode = "serial", !.MaxConcurrency = 1])
  /\ UNCHANGED <<config, plan, phase, next, ready, taskVars, results, status, cancelled>>

\* "circular dependency detected among subtasks"
RejectCycle ==
  /\ phase = "schedule"
  /\ Scheduled # Subtasks
  /\ phase' = "rejected"
  /\ UNCHANGED <<planVars, next, ready, taskVars, results, status, cancelled>>

\* One turn of the loop: the scheduler's own test for a cycle comes first.
ScheduleWave == IF NextWave(plan, Scheduled) = {} THEN RejectCycle ELSE BuildBatch

StartExecution ==
  /\ phase = "schedule"
  /\ Scheduled = Subtasks
  /\ IF config.DryRun
       THEN /\ phase' = "done"
            /\ results' = [s \in Subtasks |-> "skipped"]
            /\ status' = "skipped"
       ELSE /\ phase' = "loop"
            /\ UNCHANGED <<results, status>>
  /\ UNCHANGED <<planVars, next, ready, taskVars, cancelled>>

(***************************************************************************)
(* The loop of Execute over the batches, by the main goroutine.            *)
(***************************************************************************)
\* Mutant: Execute forgets the subtasks it never reached.
FinishWithoutPending(r) ==
  /\ results' = r
  /\ status' = SummarizePlanStatus(results')
  /\ phase' = "done"

\* What Execute does once it leaves the loop, with r the results so far.
Finish(r) ==
  /\ results' = CancelPending(r)
  /\ status' = SummarizePlanStatus(results')
  /\ phase' = "done"

\* The loop ends, or its first test finds the context cancelled.
LeaveLoop ==
  /\ phase = "loop"
  /\ next > Len(batches) \/ cancelled
  /\ Finish(results)
  /\ UNCHANGED <<planVars, next, ready, taskVars, cancelled>>

\* Subtasks with a dependency that did not succeed are skipped, the others
\* are handed to executeBatch; with none left the loop goes on.
TakeBatch ==
  /\ phase = "loop"
  /\ next <= Len(batches)
  /\ ~cancelled
  /\ LET ids == CurrentBatch.SubtaskIDs
         run == {s \in ids : ~HasFailedDependency(s, results)}
     IN  /\ results' = [s \in Subtasks |-> IF s \in ids \ run THEN "skipped" ELSE results[s]]
         /\ ready' = run
         /\ pc' = [s \in Subtasks |-> IF s \in run THEN "queued" ELSE pc[s]]
         /\ IF run = {} THEN next' = next + 1 /\ UNCHANGED phase
                        ELSE phase' = "batch" /\ UNCHANGED next
  /\ UNCHANGED <<planVars, attempt, last, granted, status, cancelled>>

\* wg.Wait returns, or the serial loop is over: the results are stored and a
\* failure may stop the plan.
EndBatch ==
  /\ phase = "batch"
  /\ \A s \in ready : pc[s] = "returned"
  /\ ready' = {}
  /\ LET stored == [s \in Subtasks |-> IF s \in ready THEN last[s] ELSE results[s]]
     IN  IF ShouldStopAfterBatch(stored)
           THEN /\ Finish(SkipUnresolvedDependents(stored))
                /\ UNCHANGED next
           ELSE /\ results' = stored
                /\ next' = next + 1
                /\ phase' = "loop"
                /\ UNCHANGED status
  /\ UNCHANGED <<planVars, taskVars, cancelled>>

(***************************************************************************)
(* executeBatch and executeOne, for one ready subtask.                     *)
(***************************************************************************)
RunsSerially(b) == b.Mode \in {"serial", "gated"} \/ b.MaxConcurrency <= 1

\* Mutants: one goroutine too many; an unset MaxConcurrency taken for zero slots.
HasOneSlotMore(s) ==
  LET active == {t \in ready : Active(t)}
  IN  IF RunsSerially(CurrentBatch)
        THEN active = {} /\ \A t \in ready : pc[t] = "queued" => s <= t
        ELSE Cardinality(active) <= AtMost(CurrentBatch.MaxConcurrency, config.MaxConcurrency)

HasConfiguredSlot(s) ==
  Cardinality({t \in ready : Active(t)}) < config.MaxConcurrency

\* The turn of s has come in the serial loop, or its goroutine gets a slot of
\* the semaphore.
HasSlot(s) ==
  LET active == {t \in ready : Active(t)}
  IN  IF RunsSerially(CurrentBatch)
        THEN active = {} /\ \A t \in ready : pc[t] = "queued" => s <= t
        ELSE Cardinality(active) < AtMost(CurrentBatch.MaxConcurrency, config.MaxConcurrency)

CallHandler(s) ==
  /\ pc' = [pc EXCEPT ![s] = "handler"]
  /\ attempt' = [attempt EXCEPT ![s] = @ + 1]

Return(s, st) ==
  /\ pc' = [pc EXCEPT ![s] = "returned"]
  /\ last' = [last EXCEPT ![s] = st]

loopVars == <<planVars, phase, next, ready, results, status>>

BeginSubtask(s) ==
  /\ phase = "batch"
  /\ s \in ready
  /\ pc[s] = "queued"
  /\ HasSlot(s)
  /\ IF plan[s].WaitingApproval
       THEN pc' = [pc EXCEPT ![s] = "approval"] /\ UNCHANGED attempt
       ELSE CallHandler(s)
  /\ UNCHANGED <<loopVars, last, granted, cancelled>>

\* ApprovalFunc answers yes.
GrantApproval(s) ==
  /\ pc[s] = "approval"
  /\ config.HasApprovalFunc
  /\ granted' = granted \cup {s}
  /\ CallHandler(s)
  /\ UNCHANGED <<loopVars, last, cancelled>>

\* ApprovalFunc answers no, times out, or is not configured.
DenyApproval(s) ==
  /\ pc[s] = "approval"
  /\ Return(s, "skipped")
  /\ UNCHANGED <<loopVars, attempt, granted, cancelled>>

\* Mutant: a handler that set no status is recorded as it is.
OutcomeAsAnswered(answer, done) ==
  IF done /\ answer # "success" THEN "failed" ELSE answer

\* A success counts even if the context is done; anything else then counts as
\* failed, and no status otherwise means success.
Outcome(answer, done) ==
  IF done /\ answer # "success" THEN "failed"
  ELSE IF answer = "" THEN "success"
  ELSE answer

\* The handler of s returns the status answer ("" when it set none); what is
\* not a success is tried again as long as attempts are left.  With a timeout
\* runCtx is always done when executeOne looks at it, since cancel() was called
\* just before; without one it is the request's own context.
HandlerReturns(s, answer) ==
  /\ pc[s] = "handler"
  /\ LET st == Outcome(answer, cancelled \/ plan[s].HasTimeout)
     IN  IF st = "success" \/ attempt[s] >= plan[s].MaxAttempts
           THEN Return(s, st) /\ UNCHANGED attempt
         ELSE IF plan[s].HasBackoff
           THEN pc' = [pc EXCEPT ![s] = "backoff"] /\ UNCHANGED <<attempt, last>>
           ELSE CallHandler(s) /\ UNCHANGED last
  /\ UNCHANGED <<loopVars, granted, cancelled>>

BackoffElapses(s) ==
  /\ pc[s] = "backoff"
  /\ CallHandler(s)
  /\ UNCHANGED <<loopVars, last, granted, cancelled>>

BackoffCancelled(s) ==
  /\ pc[s] = "backoff"
  /\ cancelled
  /\ Return(s, "failed")
  /\ UNCHANGED <<loopVars, attempt, granted, cancelled>>

(***************************************************************************)
(* The user cancels the request's context.                                 *)
(***************************************************************************)
Cancel ==
  /\ phase \notin {"done", "rejected"}
  /\ ~cancelled
  /\ cancelled' = TRUE
  /\ UNCHANGED <<loopVars, taskVars>>

-----------------------------------------------------------------------------
Main == RejectPlan \/ ApplySafety \/ ScheduleWave \/ StartExecution
          \/ LeaveLoop \/ TakeBatch \/ EndBatch

HandlerAnswers == {"success", "failed", ""}

HandlerStep(s) ==
  \E answer \in HandlerAnswers : HandlerReturns(s, answer)

SubtaskStep(s) ==
  \/ BeginSubtask(s)
  \/ GrantApproval(s) \/ DenyApproval(s)
  \/ HandlerStep(s)
  \/ BackoffElapses(s) \/ BackoffCancelled(s)

\* Execute has returned.
Terminated == phase \in {"done", "rejected"} /\ UNCHANGED vars

Next == Main \/ Cancel \/ Terminated \/ \E s \in Subtasks : SubtaskStep(s)

Spec == Init /\ [][Next]_vars

(***************************************************************************)
(* The goroutines are scheduled, a handler that was called returns, and    *)
(* the approval function answers (WaitApproval has a timeout).  The user   *)
(* may never cancel.                                                       *)
(***************************************************************************)
Fairness == WF_vars(Main) /\ \A s \in Subtasks : WF_vars(SubtaskStep(s))

FairSpec == Spec /\ Fairness

-----------------------------------------------------------------------------
Phase == {"safety", "schedule", "loop", "batch", "done", "rejected"}
PC    == {"idle", "queued", "approval", "handler", "backoff", "returned"}

\* The types of the variables.
TypeOK ==
  /\ config \in Configs
  /\ plan \in Plan
  /\ batches \in Seq(Batch)
  /\ phase \in Phase
  /\ next \in Nat \ {0}
  /\ ready \in SUBSET Subtasks
  /\ pc \in [Subtasks -> PC]
  /\ attempt \in [Subtasks -> Nat]
  /\ last \in [Subtasks -> Result]
  /\ results \in [Subtasks -> Result]
  /\ status \in Final \cup {"running"}
  /\ cancelled \in BOOLEAN
  /\ granted \in SUBSET Subtasks

\* A handler is called, and a subtask succeeds, only when every dependency has
\* succeeded before, whatever the mode of the batch, the order of the
\* goroutines, retries and cancellation.
DependenciesFirst ==
  \A s \in Subtasks :
    attempt[s] > 0 \/ results[s] = "success" =>
      \A d \in plan[s].DependsOn : results[d] = "success"

\* No handler is called for a subtask that is high or critical risk after the
\* guardrail, or that the planner left waiting, unless it was approved up front
\* or the user granted it during this run.
SevereOnlyWithConsent ==
  \A s \in Subtasks :
    /\ attempt[s] > 0
    /\ plan[s].RiskLevel \in SevereRisk \/ plan[s].WaitingApproval
    => s \in granted \cup config.ApprovedSubtaskIDs

\* A subtask that must not run in parallel, and every gated one, is never
\* executed while another subtask of the plan is; and the number of subtasks
\* executed at once is never above the configured concurrency.
SerialRunsAlone ==
  LET active == {s \in Subtasks : Active(s)}
  IN  /\ \A s, t \in active : s # t => plan[s].CanParallel
      /\ config.MaxConcurrency > 0 => Cardinality(active) <= config.MaxConcurrency

\* When Execute returns, every subtask has exactly one final result and the
\* result is the right one: it failed or succeeded iff its handler was called
\* (a failed one used up its attempts unless the context was cancelled), it
\* was skipped only because its approval was denied or a dependency did not
\* succeed, and it was cancelled only after a cancellation or a failure.
ResultsAccountForPlan ==
  phase = "done" /\ ~config.DryRun =>
    /\ \A s \in Subtasks :
         /\ results[s] \in Final
         /\ results[s] \in {"success", "failed"} <=> attempt[s] > 0
         /\ results[s] = "failed" =>
              cancelled \/ attempt[s] >= plan[s].MaxAttempts
         /\ results[s] = "skipped" =>
              \/ plan[s].WaitingApproval /\ s \notin granted
              \/ \E d \in plan[s].DependsOn : results[d] # "success"
         /\ results[s] = "cancelled" =>
              cancelled \/ \E t \in Subtasks : results[t] = "failed"
    /\ status = "success" => \A s \in Subtasks : results[s] \in {"success", "skipped"}

\* Without a cancellation, the dependents of a failed subtask are reported as
\* skipped, also when the failure stops the plan before their batch is reached.
FailureSkipsDependents ==
  phase = "done" /\ ~cancelled /\ ~config.DryRun =>
    \A s \in Subtasks :
      (\E d \in plan[s].DependsOn : results[d] \in {"failed", "skipped"})
        => results[s] = "skipped"

\* A plan that passed validation is always schedulable: the scheduler's own
\* test for a cycle never fires.
ValidatedPlanSchedules ==
  phase = "schedule" /\ Scheduled # Subtasks => NextWave(plan, Scheduled) # {}

\* A result that was stored is never replaced, and no handler is called for a
\* subtask that has one.
ResultsAreFinal ==
  [][\A s \in Subtasks :
       results[s] # "none" => results'[s] = results[s] /\ attempt'[s] = attempt[s]]_vars

\* After a high or critical failure was stored, no further handler is called:
\* the plan is stopped, also with ContinueOnLowRiskFailure.
SevereFailureStopsPlan ==
  [][(\E s \in Subtasks : results[s] = "failed" /\ plan[s].RiskLevel \in SevereRisk)
       => attempt' = attempt]_vars

\* Every run ends, cancelled or not.
RunEnds == <>(phase \in {"done", "rejected"})

\* What the roadmap says of a user's cancel: the batch stops.  Once the context
\* is cancelled no subtask that has not been started is started.
CancelStopsBatch ==
  [][cancelled => \A s \in Subtasks : attempt[s] = 0 => attempt'[s] = 0]_vars

-----------------------------------------------------------------------------
(***************************************************************************)
(* The inductive invariant behind the safety properties.                   *)
(***************************************************************************)
\* The batches are disjoint waves in dependency order, and the guardrail's
\* decisions are visible in them.
ScheduleInv ==
  /\ phase = "safety" => batches = <<>>
  /\ phase \notin {"safety", "rejected"} =>
       \A s \in Subtasks \ config.ApprovedSubtaskIDs :
         plan[s].RiskLevel \in SevereRisk => plan[s].WaitingApproval
  /\ phase \in {"loop", "batch"} =>
       \A s \in Subtasks : \E i \in 1 .. Len(batches) : s \in batches[i].SubtaskIDs
  /\ \A i, j \in 1 .. Len(batches) :
       i # j => batches[i].SubtaskIDs \cap batches[j].SubtaskIDs = {}
  /\ \A i \in 1 .. Len(batches) : \A s \in batches[i].SubtaskIDs :
       /\ \A d \in plan[s].DependsOn : \E j \in 1 .. i - 1 : d \in batches[j].SubtaskIDs
       /\ batches[i].Mode = "parallel" => plan[s].CanParallel

\* Where the subtasks of each batch are while the main goroutine is in the
\* loop: earlier batches have results, later ones are untouched, and in the
\* current one the ready subtasks are being executed and the others skipped.
LoopInv ==
  /\ phase \in {"safety", "schedule", "rejected"} =>
       /\ next = 1
       /\ \A s \in Subtasks : results[s] = "none" /\ pc[s] = "idle"
  /\ phase = "loop"  => next <= Len(batches) + 1
  /\ phase = "batch" => next <= Len(batches) /\ ready \subseteq batches[next].SubtaskIDs
  /\ phase # "batch" => ready = {}
  /\ phase \in {"loop", "batch"} =>
       \A i \in 1 .. Len(batches) : \A s \in batches[i].SubtaskIDs :
         /\ i < next => results[s] # "none"
         /\ i > next => results[s] = "none" /\ pc[s] = "idle"
         /\ i = next =>
              IF phase = "batch" /\ s \notin ready
                THEN results[s] = "skipped" /\ pc[s] = "idle"
                ELSE results[s] = "none" /\ (pc[s] = "idle" <=> phase = "loop")

\* What the position of one subtask's execution says about it.
TaskOK(s) ==
  /\ pc[s] # "idle" => \A d \in plan[s].DependsOn : results[d] = "success"
  /\ pc[s] \in {"idle", "queued", "approval"} => attempt[s] = 0 /\ s \notin granted
  /\ pc[s] \in {"handler", "backoff"} => attempt[s] > 0
  /\ pc[s] \notin {"idle", "returned"} => phase = "batch" /\ s \in ready
  /\ attempt[s] > 0 /\ plan[s].WaitingApproval => s \in granted
  /\ pc[s] = "approval" => plan[s].WaitingApproval
  /\ pc[s] = "returned" =>
       /\ last[s] \in {"success", "failed"} <=> attempt[s] > 0
       /\ last[s] = "failed" => cancelled \/ attempt[s] >= plan[s].MaxAttempts
       /\ last[s] = "skipped" <=> attempt[s] = 0
       /\ attempt[s] = 0 => plan[s].WaitingApproval /\ s \notin granted
  /\ phase # "done" /\ results[s] # "none" =>
       \/ pc[s] = "returned" /\ results[s] = last[s]
       \/ /\ pc[s] = "idle" /\ results[s] = "skipped"
          /\ \E d \in plan[s].DependsOn : results[d] \in {"failed", "skipped"}
  /\ results[s] = "success" => pc[s] = "returned" /\ last[s] = "success"

TaskInv == \A s \in Subtasks : TaskOK(s)

\* How many subtasks of the current batch are being executed at once.
SlotInv ==
  phase = "batch" =>
    LET active == {t \in ready : Active(t)}
    IN  /\ RunsSerially(CurrentBatch) => \A s, t \in active : s = t
        /\ config.MaxConcurrency > 0 => Cardinality(active) <= config.MaxConcurrency

\* The inductive invariant: the types and the four parts above.
IInv == TypeOK /\ ScheduleInv /\ LoopInv /\ TaskInv /\ SlotInv

-----------------------------------------------------------------------------
(***************************************************************************)
(* The run implements PlanRun.  A task is running from the first call of   *)
(* its handler to its last return, and has its result as soon as its own   *)
(* execution returned, although Execute stores it at the end of the batch. *)
(***************************************************************************)
StateOf(s) ==
  IF results[s] # "none" THEN results[s]
  ELSE IF pc[s] = "returned" THEN last[s]
  ELSE IF pc[s] \in {"handler", "backoff"} THEN "running"
  ELSE "pending"

Abstract ==
  INSTANCE PlanRun
    WITH Tasks   <- Subtasks,
         deps    <- [s \in Subtasks |-> plan[s].DependsOn],
         consent <- {s \in Subtasks : plan[s].WaitingApproval},
         agreed  <- granted,
         state   <- [s \in Subtasks |-> StateOf(s)],
         over    <- phase = "done"

\* Every run of the executor is a run PlanRun allows.
ImplementsPlanRun == Abstract!Spec
=============================================================================
