--------------------- MODULE OrchestrationExecutorProofs ---------------------
(***************************************************************************)
(* Theorems about OrchestrationExecutor for every set of subtasks, every   *)
(* set of drafted plans and every configuration.                           *)
(***************************************************************************)
EXTENDS OrchestrationExecutor, FiniteSetTheorems, SequenceTheorems, WellFoundedInduction, TLAPS

-----------------------------------------------------------------------------
(***************************************************************************)
(* The guardrail and the scheduler.                                        *)
(***************************************************************************)

\* The guardrail turns a plan into a plan and never touches the dependencies
\* the plan was validated on.
LEMMA SafetyPolicyType ==
  ASSUME NEW p \in Plan, NEW ids
  PROVE  /\ ApplySafetyPolicy(p, ids) \in Plan
         /\ \A s \in Subtasks :
              ApplySafetyPolicy(p, ids)[s].DependsOn = p[s].DependsOn
<1>1. ASSUME NEW s \in Subtasks
      PROVE  LET st == ApplyApprovalPolicy(ClassifyDestructiveOrRemote(p[s]), s \in ids)
             IN  st \in Subtask /\ st.DependsOn = p[s].DependsOn
  <2>1. p[s] \in Subtask
    BY DEF Plan
  <2>2. /\ ClassifyDestructiveOrRemote(p[s]) \in Subtask
        /\ ClassifyDestructiveOrRemote(p[s]).DependsOn = p[s].DependsOn
    BY <2>1 DEF ClassifyDestructiveOrRemote, Subtask, RiskLevel
  <2>3. QED
    BY <2>2 DEF ApplyApprovalPolicy, Subtask
<1>2. QED
  BY <1>1 DEF ApplySafetyPolicy, Plan

\* After the guardrail a severe subtask waits for approval unless it was
\* approved up front, and a waiting one that was not is serial.
LEMMA SafetyPolicyGates ==
  ASSUME NEW p \in Plan, NEW ids, NEW s \in Subtasks,
         s \notin ids,
         LET st == ApplySafetyPolicy(p, ids)[s]
         IN  st.RiskLevel \in SevereRisk \/ st.WaitingApproval
  PROVE  ApplySafetyPolicy(p, ids)[s].WaitingApproval
<1> DEFINE c == ClassifyDestructiveOrRemote(p[s])
<1>1. c \in Subtask
  BY DEF Plan, ClassifyDestructiveOrRemote, Subtask, RiskLevel
<1>2. ApplySafetyPolicy(p, ids)[s] = ApplyApprovalPolicy(c, s \in ids)
  BY Zenon DEF ApplySafetyPolicy
<1> HIDE DEF c
<1>3. QED
  BY <1>1, <1>2 DEF ApplyApprovalPolicy, Subtask

\* A parallel batch holds only subtasks that may run in parallel, none of them
\* gated.
LEMMA ParallelBatch ==
  ASSUME NEW p \in Plan, NEW wave \in SUBSET Subtasks,
         BatchMode(p, wave) = "parallel", NEW s \in wave
  PROVE  p[s].CanParallel /\ ~p[s].WaitingApproval /\ p[s].RiskLevel \notin SevereRisk
<1> DEFINE gates(t)  == p[t].WaitingApproval \/ p[t].RiskLevel \in SevereRisk
           decides   == {t \in wave : gates(t) \/ ~p[t].CanParallel}
<1>1. decides = {}
  BY DEF BatchMode
<1>2. QED
  BY <1>1

LEMMA BatchType ==
  ASSUME NEW p \in Plan, NEW wave \in SUBSET Subtasks, NEW n \in Nat
  PROVE  /\ BatchFromWave(p, wave, n) \in Batch
         /\ BatchFromWave(p, wave, n).Mode = BatchMode(p, wave)
         /\ BatchFromWave(p, wave, n).SubtaskIDs = wave
<1>1. BatchMode(p, wave) \in Mode
  BY DEF BatchMode, Mode
<1>2. Cardinality(wave) \in Nat
  BY SubtasksAssumption, FS_Subset, FS_CardinalityType
<1>3. QED
  BY <1>1, <1>2 DEF BatchFromWave, AtMost, Batch

-----------------------------------------------------------------------------
(***************************************************************************)
(* Type correctness.                                                       *)
(***************************************************************************)
LEMMA InitType == Init => TypeOK
<1> SUFFICES ASSUME Init PROVE TypeOK
  OBVIOUS
<1>1. plan \in Plan
  BY DraftsAssumption DEF Init
<1>2. batches \in Seq(Batch)
  BY DEF Init
<1>3. /\ pc \in [Subtasks -> PC]
      /\ attempt \in [Subtasks -> Nat]
      /\ last \in [Subtasks -> Result]
      /\ results \in [Subtasks -> Result]
  BY DEF Init, PC, Result
<1>4. next \in Nat \ {0} /\ status \in Final \cup {"running"} /\ phase \in Phase
  BY DEF Init, Phase
<1>5. QED
  BY <1>1, <1>2, <1>3, <1>4, Zenon DEF Init, TypeOK

\* What the end of the loop stores has the types of the result map and status.
LEMMA FinishType ==
  ASSUME NEW r \in [Subtasks -> Result], Finish(r)
  PROVE  /\ results' \in [Subtasks -> Result]
         /\ status' \in Final \cup {"running"}
         /\ phase' = "done"
BY DEF Finish, CancelPending, SummarizePlanStatus, Result, Final

LEMMA MainType == TypeOK /\ Main => TypeOK'
<1> SUFFICES ASSUME TypeOK, Main PROVE TypeOK'
  OBVIOUS
<1> USE DEF planVars, taskVars
<1>1. config \in Config
  BY ConfigsAssumption DEF TypeOK
<1>2. CASE RejectPlan \/ RejectCycle
  BY <1>2 DEF RejectPlan, RejectCycle, TypeOK, Phase
<1>3. CASE ApplySafety
  BY <1>3, SafetyPolicyType DEF ApplySafety, TypeOK, Phase
<1>4. CASE BuildBatch
  <2> DEFINE wave == NextWave(plan, Scheduled)
             b    == BatchFromWave(plan, wave, config.MaxConcurrency)
  <2>1. b \in Batch
    BY <1>1, BatchType DEF TypeOK, NextWave, Config
  <2>2. [b EXCEPT !.Mode = "serial", !.MaxConcurrency = 1] \in Batch
    BY <2>1 DEF Batch, Mode
  <2>3. batches' \in Seq(Batch)
    <3> HIDE DEF b
    <3>1. batches' = Append(batches, IF config.ParallelEnabled THEN b
                      ELSE [b EXCEPT !.Mode = "serial", !.MaxConcurrency = 1])
      BY <1>4 DEF BuildBatch, b, wave
    <3>2. QED
      BY <2>1, <2>2, <3>1 DEF TypeOK
  <2>4. QED
    BY <1>4, <2>3 DEF BuildBatch, TypeOK
<1>5. CASE StartExecution
  BY <1>5 DEF StartExecution, TypeOK, Phase, Result, Final
<1>6. CASE LeaveLoop
  BY <1>6, FinishType DEF LeaveLoop, TypeOK, Phase
<1>7. CASE TakeBatch
  <2> DEFINE ids == CurrentBatch.SubtaskIDs
             run == {s \in ids : ~HasFailedDependency(s, results)}
  <2>1. ids \in SUBSET Subtasks
    <3>1. next \in 1 .. Len(batches)
      BY <1>7 DEF TakeBatch, TypeOK
    <3>2. CurrentBatch \in Batch
      BY <3>1, ElementOfSeq DEF TypeOK, CurrentBatch
    <3>3. QED
      BY <3>2 DEF Batch
  <2> HIDE DEF ids
  <2>2. /\ results' = [s \in Subtasks |-> IF s \in ids \ run THEN "skipped" ELSE results[s]]
        /\ ready' = run
        /\ pc' = [s \in Subtasks |-> IF s \in run THEN "queued" ELSE pc[s]]
        /\ next' \in {next, next + 1}
        /\ phase' \in {phase, "batch"}
        /\ UNCHANGED <<planVars, attempt, last, granted, status, cancelled>>
    BY <1>7 DEF TakeBatch, ids
  <2>3. results' \in [Subtasks -> Result] /\ pc' \in [Subtasks -> PC] /\ ready' \in SUBSET Subtasks
    BY <2>1, <2>2 DEF TypeOK, Result, Final, PC
  <2>4. QED
    BY <2>2, <2>3 DEF TypeOK, Phase
<1>8. CASE EndBatch
  <2> DEFINE stored == [s \in Subtasks |-> IF s \in ready THEN last[s] ELSE results[s]]
  <2>1. stored \in [Subtasks -> Result]
    BY DEF TypeOK
  <2>2. SkipUnresolvedDependents(stored) \in [Subtasks -> Result]
    BY <2>1 DEF SkipUnresolvedDependents, Result, Final
  <2> HIDE DEF stored
  <2>3. CASE ShouldStopAfterBatch(stored)
    BY <1>8, <2>2, <2>3, FinishType DEF EndBatch, TypeOK, Phase, stored
  <2>4. CASE ~ShouldStopAfterBatch(stored)
    BY <1>8, <2>1, <2>4 DEF EndBatch, TypeOK, Phase, stored
  <2>5. QED
    BY <2>3, <2>4
<1>9. QED
  BY <1>2, <1>3, <1>4, <1>5, <1>6, <1>7, <1>8 DEF Main, ScheduleWave

\* A step of one subtask's execution moves that subtask alone and leaves the
\* main goroutine's variables as they are.
LEMMA SubtaskFrame ==
  ASSUME NEW s \in Subtasks, TypeOK, SubtaskStep(s)
  PROVE  /\ config' = config /\ plan' = plan /\ batches' = batches
         /\ phase' = phase /\ next' = next /\ ready' = ready
         /\ results' = results /\ status' = status /\ cancelled' = cancelled
         /\ \E q \in PC \ {"idle", "queued"} : pc' = [pc EXCEPT ![s] = q]
         /\ attempt' \in {attempt, [attempt EXCEPT ![s] = @ + 1]}
         /\ \E r \in Result : last' = [last EXCEPT ![s] = r]
         /\ granted' \in {granted, granted \cup {s}}
<1> USE DEF planVars, loopVars, CallHandler, Return, PC, Result, Final
<1>0. last = [last EXCEPT ![s] = last[s]] /\ last[s] \in Result
  BY DEF TypeOK
<1>1. CASE BeginSubtask(s)
  <2>1. CASE plan[s].WaitingApproval
    BY <1>0, <1>1, <2>1 DEF BeginSubtask
  <2>2. CASE ~plan[s].WaitingApproval
    BY <1>0, <1>1, <2>2 DEF BeginSubtask
  <2>3. QED
    BY <2>1, <2>2
<1>2. CASE GrantApproval(s)
  BY <1>0, <1>2 DEF GrantApproval
<1>3. CASE DenyApproval(s)
  BY <1>3 DEF DenyApproval
<1>4. CASE HandlerStep(s)
  BY <1>0, <1>4 DEF HandlerStep, HandlerReturns, Outcome, HandlerAnswers
<1>5. CASE BackoffElapses(s)
  BY <1>0, <1>5 DEF BackoffElapses
<1>6. CASE BackoffCancelled(s)
  BY <1>6 DEF BackoffCancelled
<1>7. QED
  BY <1>1, <1>2, <1>3, <1>4, <1>5, <1>6 DEF SubtaskStep

LEMMA SubtaskType == ASSUME NEW s \in Subtasks, TypeOK, SubtaskStep(s) PROVE TypeOK'
<1>1. PICK q \in PC : pc' = [pc EXCEPT ![s] = q]
  BY SubtaskFrame
<1>2. PICK r \in Result : last' = [last EXCEPT ![s] = r]
  BY SubtaskFrame
<1>3. attempt' \in {attempt, [attempt EXCEPT ![s] = @ + 1]}
  BY SubtaskFrame
<1>4. /\ pc' \in [Subtasks -> PC]
      /\ last' \in [Subtasks -> Result]
      /\ attempt' \in [Subtasks -> Nat]
  <2> /\ pc \in [Subtasks -> PC]
      /\ last \in [Subtasks -> Result]
      /\ attempt \in [Subtasks -> Nat]
    BY DEF TypeOK
  <2>1. pc' \in [Subtasks -> PC]
    BY <1>1
  <2>2. last' \in [Subtasks -> Result]
    BY <1>2
  <2>3. attempt' \in [Subtasks -> Nat]
    BY <1>3
  <2>4. QED
    BY <2>1, <2>2, <2>3
<1>5. granted' \in SUBSET Subtasks
  BY SubtaskFrame DEF TypeOK
<1>6. QED
  BY <1>4, <1>5, SubtaskFrame, Zenon DEF TypeOK

LEMMA StepType == TypeOK /\ [Next]_vars => TypeOK'
<1> SUFFICES ASSUME TypeOK, [Next]_vars PROVE TypeOK'
  OBVIOUS
<1>1. CASE Cancel
  BY <1>1 DEF Cancel, loopVars, planVars, taskVars, TypeOK
<1>2. CASE Terminated \/ UNCHANGED vars
  BY <1>2 DEF Terminated, vars, planVars, taskVars, TypeOK
<1>3. QED
  BY <1>1, <1>2, MainType, SubtaskType DEF Next

\* The variables always have their types.
THEOREM TypeCorrect == Spec => []TypeOK
<1>1. QED
  BY InitType, StepType, PTL DEF Spec

-----------------------------------------------------------------------------
(***************************************************************************)
(* The schedule.                                                           *)
(***************************************************************************)
\* Whatever is not preparation leaves the plan, the configuration and the
\* batches alone.
LEMMA ScheduleFrame ==
  ASSUME TypeOK, [Next]_vars, ~ApplySafety, ~BuildBatch
  PROVE  UNCHANGED <<config, plan, batches>>
<1>1. CASE Main
  BY <1>1 DEF Main, ScheduleWave, RejectPlan, RejectCycle, StartExecution, LeaveLoop, TakeBatch, EndBatch,
              planVars
<1>2. CASE \E s \in Subtasks : SubtaskStep(s)
  BY <1>2, SubtaskFrame
<1>3. CASE Cancel \/ Terminated \/ UNCHANGED vars
  BY <1>3 DEF Cancel, Terminated, vars, loopVars, planVars
<1>4. QED
  BY <1>1, <1>2, <1>3 DEF Next

\* The phases a step can lead to.
LEMMA PhaseFrame ==
  ASSUME TypeOK, [Next]_vars, ~ApplySafety, ~BuildBatch, ~StartExecution
  PROVE  \/ phase' = phase
         \/ phase' = "rejected"
         \/ phase \in {"loop", "batch"} /\ phase' \in {"loop", "batch", "done"}
<1>1. CASE Main
  BY <1>1 DEF Main, ScheduleWave, RejectPlan, RejectCycle, LeaveLoop, TakeBatch, EndBatch, Finish
<1>2. CASE \E s \in Subtasks : SubtaskStep(s)
  BY <1>2, SubtaskFrame
<1>3. CASE Cancel \/ Terminated \/ UNCHANGED vars
  BY <1>3 DEF Cancel, Terminated, vars, loopVars, planVars
<1>4. QED
  BY <1>1, <1>2, <1>3 DEF Next

LEMMA BuildBatchSchedule ==
  ASSUME TypeOK, ScheduleInv, BuildBatch
  PROVE  ScheduleInv'
<1> DEFINE wave == NextWave(plan, Scheduled)
           b    == BatchFromWave(plan, wave, config.MaxConcurrency)
           c    == IF config.ParallelEnabled THEN b
                   ELSE [b EXCEPT !.Mode = "serial", !.MaxConcurrency = 1]
           n    == Len(batches)
<1>1. wave \in SUBSET Subtasks /\ config \in Config
  BY ConfigsAssumption DEF NextWave, TypeOK
<1>2. b \in Batch /\ b.Mode = BatchMode(plan, wave) /\ b.SubtaskIDs = wave
  BY <1>1, BatchType DEF TypeOK, Config
<1>3. \A s \in wave : s \in Subtasks /\ s \notin Scheduled /\ plan[s].DependsOn \subseteq Scheduled
  BY DEF NextWave
<1>4. ASSUME BatchMode(plan, wave) = "parallel", NEW s \in wave PROVE plan[s].CanParallel
  BY <1>1, <1>4, ParallelBatch DEF TypeOK
<1>5. batches' = Append(batches, c) /\ UNCHANGED <<config, plan, phase>> /\ phase = "schedule"
  BY DEF BuildBatch
<1> HIDE DEF wave, b
<1>6. /\ c \in Batch
      /\ c.SubtaskIDs = wave
      /\ c.Mode = "parallel" => \A s \in wave : plan[s].CanParallel
  BY <1>2, <1>4 DEF Batch, Mode
<1> HIDE DEF c
<1>7. /\ n \in Nat
      /\ Len(batches') = n + 1
      /\ \A i \in 1 .. n : batches'[i] = batches[i]
      /\ batches'[n + 1] = c
  BY <1>5, <1>6, AppendProperties, LenProperties DEF TypeOK
<1>8. \A s : s \in Scheduled <=> \E i \in 1 .. n : s \in batches[i].SubtaskIDs
  BY LenProperties DEF Scheduled, TypeOK
<1> HIDE DEF n
<1>9. ASSUME NEW i \in 1 .. n + 1, NEW j \in 1 .. n + 1, i # j
      PROVE  batches'[i].SubtaskIDs \cap batches'[j].SubtaskIDs = {}
  <2>1. CASE i \in 1 .. n /\ j \in 1 .. n
    BY <1>7, <1>9, <2>1 DEF ScheduleInv, n
  <2>2. CASE i = n + 1 \/ j = n + 1
    BY <1>3, <1>6, <1>7, <1>8, <1>9, <2>2
  <2>3. QED
    BY <1>7, <2>1, <2>2
<1>10. ASSUME NEW i \in 1 .. n + 1, NEW s \in batches'[i].SubtaskIDs
       PROVE  /\ \A d \in plan[s].DependsOn : \E j \in 1 .. i - 1 : d \in batches'[j].SubtaskIDs
              /\ batches'[i].Mode = "parallel" => plan[s].CanParallel
  <2>1. CASE i \in 1 .. n
    <3>1. \A j \in 1 .. i - 1 : batches'[j] = batches[j]
      BY <1>7, <2>1
    <3>2. /\ \A d \in plan[s].DependsOn : \E j \in 1 .. i - 1 : d \in batches[j].SubtaskIDs
          /\ batches[i].Mode = "parallel" => plan[s].CanParallel
      BY <1>7, <1>10, <2>1 DEF ScheduleInv, n
    <3>3. QED
      BY <1>7, <2>1, <3>1, <3>2
  <2>2. CASE i = n + 1
    <3>1. s \in wave /\ batches'[i] = c
      BY <1>6, <1>7, <1>10, <2>2
    <3>2. \A d \in plan[s].DependsOn : \E j \in 1 .. n : d \in batches'[j].SubtaskIDs
      BY <1>3, <1>7, <1>8, <3>1
    <3>3. QED
      BY <1>6, <1>7, <2>2, <3>1, <3>2
  <2>3. QED
    BY <1>7, <2>1, <2>2
<1>11. QED
  BY <1>5, <1>7, <1>9, <1>10 DEF ScheduleInv

LEMMA ScheduleStep ==
  ASSUME TypeOK, ScheduleInv, [Next]_vars
  PROVE  ScheduleInv'
<1>1. CASE ApplySafety
  <2> DEFINE ids == config.ApprovedSubtaskIDs
  <2>1. plan' = ApplySafetyPolicy(plan, ids) /\ config' = config /\ phase' = "schedule" /\ batches' = <<>>
    BY <1>1 DEF ApplySafety, ScheduleInv
  <2>2. \A s \in Subtasks \ ids : plan'[s].RiskLevel \in SevereRisk => plan'[s].WaitingApproval
    BY <2>1, SafetyPolicyGates DEF TypeOK
  <2>3. Len(batches') = 0
    BY <2>1
  <2>4. QED
    BY <2>1, <2>2, <2>3 DEF ScheduleInv
<1>2. CASE BuildBatch
  BY <1>2, BuildBatchSchedule
<1>3. CASE StartExecution
  <2>1. UNCHANGED <<config, plan, batches>> /\ phase = "schedule" /\ phase' \in {"done", "loop"}
    BY <1>3 DEF StartExecution, planVars
  <2>2. \A s \in Subtasks : \E i \in 1 .. Len(batches) : s \in batches[i].SubtaskIDs
    BY <1>3, LenProperties DEF StartExecution, Scheduled, TypeOK
  <2>3. QED
    BY <2>1, <2>2 DEF ScheduleInv
<1>4. CASE ~ApplySafety /\ ~BuildBatch /\ ~StartExecution
  <2>1. UNCHANGED <<config, plan, batches>>
    BY <1>4, ScheduleFrame
  <2>2. \/ phase' = phase
        \/ phase' = "rejected"
        \/ phase \in {"loop", "batch"} /\ phase' \in {"loop", "batch", "done"}
    BY <1>4, PhaseFrame
  <2>3. QED
    BY <2>1, <2>2 DEF ScheduleInv
<1>5. QED
  BY <1>1, <1>2, <1>3, <1>4

-----------------------------------------------------------------------------
(***************************************************************************)
(* The loop over the batches.                                              *)
(***************************************************************************)
LEMMA BatchSubtasks ==
  ASSUME TypeOK
  PROVE  \A i \in 1 .. Len(batches) : batches[i].SubtaskIDs \subseteq Subtasks
<1> SUFFICES ASSUME NEW i \in 1 .. Len(batches)
             PROVE  batches[i].SubtaskIDs \subseteq Subtasks
  OBVIOUS
<1>1. batches[i] \in Batch
  BY ElementOfSeq DEF TypeOK
<1>2. QED
  BY <1>1 DEF Batch

LEMMA SubtaskSource ==
  ASSUME NEW s \in Subtasks, SubtaskStep(s)
  PROVE  pc[s] \in {"queued", "approval", "handler", "backoff"}
BY DEF SubtaskStep, BeginSubtask, GrantApproval, DenyApproval, HandlerStep, HandlerReturns,
       BackoffElapses, BackoffCancelled

\* What TakeBatch does, with the batch's subtasks split into those that run and
\* those with a dependency that did not succeed.
LEMMA TakeBatchEffect ==
  ASSUME TypeOK, TakeBatch
  PROVE  /\ next \in 1 .. Len(batches)
         /\ batches[next].SubtaskIDs \subseteq Subtasks
         /\ ready' \subseteq batches[next].SubtaskIDs
         /\ \A s \in batches[next].SubtaskIDs :
              s \in ready' <=> \A d \in plan[s].DependsOn : results[d] = "success"
         /\ \A s \in Subtasks :
              /\ results'[s] = IF s \in batches[next].SubtaskIDs \ ready' THEN "skipped" ELSE results[s]
              /\ pc'[s] = IF s \in ready' THEN "queued" ELSE pc[s]
         /\ phase = "loop"
         /\ \/ ready' = {} /\ next' = next + 1 /\ phase' = "loop"
            \/ ready' # {} /\ next' = next /\ phase' = "batch"
         /\ UNCHANGED <<config, plan, batches, attempt, last, granted, status, cancelled>>
<1>1. next \in 1 .. Len(batches)
  BY DEF TakeBatch, TypeOK
<1>2. batches[next] \in Batch
  BY <1>1, ElementOfSeq DEF TypeOK
<1>3. batches[next].SubtaskIDs \subseteq Subtasks
  BY <1>2 DEF Batch
<1>4. QED
  BY <1>1, <1>3 DEF TakeBatch, CurrentBatch, HasFailedDependency, planVars

\* What EndBatch does.
LEMMA EndBatchEffect ==
  ASSUME TypeOK, EndBatch
  PROVE  /\ phase = "batch"
         /\ \A s \in ready : pc[s] = "returned"
         /\ ready' = {}
         /\ UNCHANGED <<config, plan, batches, pc, attempt, last, granted, cancelled>>
         /\ \/ /\ phase' = "loop" /\ next' = next + 1
               /\ \A s \in Subtasks : results'[s] = IF s \in ready THEN last[s] ELSE results[s]
            \/ /\ phase' = "done" /\ next' = next
               /\ \A s \in Subtasks :
                    LET r == IF s \in ready THEN last[s] ELSE results[s]
                    IN  IF r = "none" THEN results'[s] \in {"skipped", "cancelled"}
                        ELSE results'[s] = r
<1> DEFINE stored == [s \in Subtasks |-> IF s \in ready THEN last[s] ELSE results[s]]
<1>1. CASE ShouldStopAfterBatch(stored)
  <2>1. Finish(SkipUnresolvedDependents(stored)) /\ next' = next
    BY <1>1 DEF EndBatch
  <2>2. QED
    BY <2>1 DEF EndBatch, Finish, SkipUnresolvedDependents, CancelPending, planVars, taskVars
<1>2. CASE ~ShouldStopAfterBatch(stored)
  <2>1. results' = stored /\ next' = next + 1 /\ phase' = "loop"
    BY <1>2 DEF EndBatch
  <2>2. QED
    BY <2>1 DEF EndBatch, planVars, taskVars
<1>3. QED
  BY <1>1, <1>2

LEMMA LoopTakeBatch ==
  ASSUME TypeOK, ScheduleInv, LoopInv, TakeBatch
  PROVE  LoopInv'
<1>1. /\ next \in 1 .. Len(batches)
      /\ batches[next].SubtaskIDs \subseteq Subtasks
      /\ ready' \subseteq batches[next].SubtaskIDs
      /\ \A s \in Subtasks :
           /\ results'[s] = IF s \in batches[next].SubtaskIDs \ ready' THEN "skipped" ELSE results[s]
           /\ pc'[s] = IF s \in ready' THEN "queued" ELSE pc[s]
      /\ phase = "loop"
      /\ \/ ready' = {} /\ next' = next + 1 /\ phase' = "loop"
         \/ ready' # {} /\ next' = next /\ phase' = "batch"
      /\ batches' = batches
  BY TakeBatchEffect
<1>2. Len(batches) \in Nat
  BY LenProperties DEF TypeOK
<1>3. ASSUME NEW i \in 1 .. Len(batches), NEW s \in batches[i].SubtaskIDs
      PROVE  /\ i < next' => results'[s] # "none"
             /\ i > next' => results'[s] = "none" /\ pc'[s] = "idle"
             /\ i = next' =>
                  IF phase' = "batch" /\ s \notin ready'
                    THEN results'[s] = "skipped" /\ pc'[s] = "idle"
                    ELSE results'[s] = "none" /\ (pc'[s] = "idle" <=> phase' = "loop")
  <2>0. s \in Subtasks
    BY BatchSubtasks
  <2>1. /\ i < next => results[s] # "none"
        /\ i >= next => results[s] = "none" /\ pc[s] = "idle"
    BY <1>1, <1>2 DEF LoopInv
  <2>2. CASE i = next
    BY <1>1, <1>2, <2>0, <2>1, <2>2
  <2>3. CASE i # next
    <3>1. s \notin batches[next].SubtaskIDs
      BY <1>1, <2>3 DEF ScheduleInv
    <3>2. results'[s] = results[s] /\ pc'[s] = pc[s]
      BY <1>1, <2>0, <3>1
    <3>3. QED
      BY <1>1, <1>2, <2>1, <2>3, <3>1, <3>2
  <2>4. QED
    BY <2>2, <2>3
<1>4. QED
  BY <1>1, <1>2, <1>3 DEF LoopInv

LEMMA LoopEndBatch ==
  ASSUME TypeOK, ScheduleInv, LoopInv, TaskInv, EndBatch
  PROVE  LoopInv'
<1>1. CASE phase' = "done"
  BY <1>1, EndBatchEffect DEF LoopInv
<1>2. CASE phase' = "loop"
  <2>1. /\ phase = "batch" /\ next' = next + 1 /\ ready' = {}
        /\ UNCHANGED <<batches, pc>>
        /\ \A s \in Subtasks : results'[s] = IF s \in ready THEN last[s] ELSE results[s]
        /\ \A s \in ready : pc[s] = "returned"
    BY <1>2, EndBatchEffect
  <2>2. next \in 1 .. Len(batches) /\ Len(batches) \in Nat
    BY <2>1, LenProperties DEF LoopInv, TypeOK
  <2>3. \A s \in ready : last[s] # "none"
    BY <2>1 DEF TaskInv, TaskOK, TypeOK
  <2>4. ASSUME NEW i \in 1 .. Len(batches), NEW s \in batches[i].SubtaskIDs
        PROVE  /\ i < next' => results'[s] # "none"
               /\ i >= next' => results'[s] = "none" /\ pc'[s] = "idle"
    <3>0. s \in Subtasks
      BY BatchSubtasks
    <3>1. CASE s \in ready
      <4>1. i = next
        BY <2>1, <2>2, <3>1 DEF LoopInv, ScheduleInv
      <4>2. QED
        BY <2>1, <2>2, <2>3, <3>0, <3>1, <4>1
    <3>2. CASE s \notin ready
      <4>1. /\ i < next => results[s] # "none"
            /\ i = next => results[s] # "none"
            /\ i > next => results[s] = "none" /\ pc[s] = "idle"
        BY <2>1, <2>2, <3>2 DEF LoopInv
      <4>2. QED
        BY <2>1, <2>2, <3>0, <3>2, <4>1
    <3>3. QED
      BY <3>1, <3>2
  <2>5. QED
    BY <1>2, <2>1, <2>2, <2>4 DEF LoopInv
<1>3. QED
  BY <1>1, <1>2, EndBatchEffect

LEMMA LoopSubtask ==
  ASSUME TypeOK, ScheduleInv, LoopInv, TaskInv, NEW s \in Subtasks, SubtaskStep(s)
  PROVE  LoopInv'
<1>1. UNCHANGED <<batches, phase, next, ready, results>>
  BY SubtaskFrame
<1>2. PICK q \in PC \ {"idle", "queued"} : pc' = [pc EXCEPT ![s] = q]
  BY SubtaskFrame
<1>3. phase = "batch" /\ s \in ready /\ pc[s] # "idle"
  BY SubtaskSource DEF TaskInv, TaskOK
<1>4. pc'[s] # "idle" /\ \A t \in Subtasks \ {s} : pc'[t] = pc[t]
  BY <1>2 DEF TypeOK, PC
<1>5. \A i \in 1 .. Len(batches) : \A t \in batches[i].SubtaskIDs :
        /\ t \in Subtasks
        /\ t = s => i = next
  <2>1. \A i \in 1 .. Len(batches) : batches[i].SubtaskIDs \subseteq Subtasks
    BY BatchSubtasks
  <2>2. next \in 1 .. Len(batches) /\ s \in batches[next].SubtaskIDs
    BY <1>3 DEF LoopInv, TypeOK
  <2>3. QED
    BY <2>1, <2>2 DEF ScheduleInv
<1>6. next \in Nat /\ Len(batches) \in Nat
  BY LenProperties DEF TypeOK
<1>7. QED
  BY <1>1, <1>3, <1>4, <1>5, <1>6 DEF LoopInv

LEMMA LoopStep ==
  ASSUME TypeOK, ScheduleInv, LoopInv, TaskInv, [Next]_vars
  PROVE  LoopInv'
<1>1. CASE RejectPlan \/ ApplySafety \/ BuildBatch \/ RejectCycle
  <2>1. /\ {phase, phase'} \subseteq {"safety", "schedule", "rejected"}
        /\ UNCHANGED <<next, ready, pc, results>>
    BY <1>1 DEF RejectPlan, ApplySafety, BuildBatch, RejectCycle, taskVars
  <2>2. QED
    BY <2>1 DEF LoopInv
<1>2. CASE StartExecution
  <2>1. /\ phase = "schedule" /\ phase' \in {"loop", "done"}
        /\ phase' = "loop" => results' = results
        /\ UNCHANGED <<batches, next, ready, pc>>
    BY <1>2 DEF StartExecution, taskVars, planVars
  <2>2. \A i \in 1 .. Len(batches) : batches[i].SubtaskIDs \subseteq Subtasks
    BY BatchSubtasks
  <2>3. Len(batches) \in Nat
    BY LenProperties DEF TypeOK
  <2>4. QED
    BY <2>1, <2>2, <2>3 DEF LoopInv
<1>3. CASE LeaveLoop
  BY <1>3 DEF LeaveLoop, Finish, LoopInv
<1>4. CASE TakeBatch
  BY <1>4, LoopTakeBatch
<1>5. CASE EndBatch
  BY <1>5, LoopEndBatch
<1>6. CASE \E s \in Subtasks : SubtaskStep(s)
  BY <1>6, LoopSubtask
<1>7. CASE Cancel \/ Terminated \/ UNCHANGED vars
  BY <1>7 DEF Cancel, Terminated, vars, loopVars, planVars, taskVars, LoopInv
<1>8. QED
  BY <1>1, <1>2, <1>3, <1>4, <1>5, <1>6, <1>7 DEF Next, Main, ScheduleWave

-----------------------------------------------------------------------------
(***************************************************************************)
(* One subtask's execution.                                                *)
(***************************************************************************)
\* A step that stores results keeps those that are there.
LEMMA ResultsKept ==
  ASSUME TypeOK, ScheduleInv, LoopInv, TaskInv, [Next]_vars,
         NEW s \in Subtasks, results[s] # "none"
  PROVE  results'[s] = results[s]
<1>1. CASE StartExecution
  BY <1>1 DEF StartExecution, LoopInv
<1>2. CASE LeaveLoop
  BY <1>2 DEF LeaveLoop, Finish, CancelPending
<1>3. CASE TakeBatch
  <2>1. s \in batches[next].SubtaskIDs => results[s] = "none"
    BY <1>3, TakeBatchEffect DEF LoopInv
  <2>2. QED
    BY <1>3, <2>1, TakeBatchEffect
<1>4. CASE EndBatch
  <2>1. s \notin ready
    <3>1. phase = "batch" /\ next \in 1 .. Len(batches) /\ ready \subseteq batches[next].SubtaskIDs
      BY <1>4, EndBatchEffect DEF LoopInv, TypeOK
    <3>2. QED
      BY <3>1 DEF LoopInv
  <2>2. QED
    BY <1>4, <2>1, EndBatchEffect
<1>5. CASE RejectPlan \/ ApplySafety \/ BuildBatch \/ RejectCycle
  BY <1>5 DEF RejectPlan, ApplySafety, BuildBatch, RejectCycle
<1>6. CASE \E t \in Subtasks : SubtaskStep(t)
  BY <1>6, SubtaskFrame
<1>7. CASE Cancel \/ Terminated \/ UNCHANGED vars
  BY <1>7 DEF Cancel, Terminated, vars, loopVars
<1>8. QED
  BY <1>1, <1>2, <1>3, <1>4, <1>5, <1>6, <1>7 DEF Next, Main, ScheduleWave

\* A dependency of a subtask of the current batch has a stored result, and one
\* that did not succeed failed or was skipped.
LEMMA DependencySettled ==
  ASSUME TypeOK, ScheduleInv, LoopInv, TaskInv, phase = "loop",
         next \in 1 .. Len(batches), NEW s \in batches[next].SubtaskIDs,
         NEW d \in plan[s].DependsOn
  PROVE  d \in Subtasks /\ results[d] \in {"success", "failed", "skipped"}
<1>1. PICK j \in 1 .. next - 1 : d \in batches[j].SubtaskIDs
  BY DEF ScheduleInv
<1>2. j \in 1 .. Len(batches) /\ j < next /\ Len(batches) \in Nat
  BY LenProperties DEF TypeOK
<1>3. results[d] # "none"
  BY <1>1, <1>2 DEF LoopInv
<1>4. d \in Subtasks
  BY <1>1, <1>2, BatchSubtasks
<1>5. QED
  BY <1>3, <1>4 DEF TaskInv, TaskOK, TypeOK, Result, Final

LEMMA TaskTakeBatch ==
  ASSUME TypeOK, ScheduleInv, LoopInv, TaskInv, TakeBatch, NEW t \in Subtasks
  PROVE  TaskOK(t)'
<1> DEFINE ids == batches[next].SubtaskIDs
<1>1. /\ next \in 1 .. Len(batches)
      /\ ready' \subseteq ids
      /\ \A s \in ids : s \in ready' <=> \A d \in plan[s].DependsOn : results[d] = "success"
      /\ results'[t] = IF t \in ids \ ready' THEN "skipped" ELSE results[t]
      /\ pc'[t] = IF t \in ready' THEN "queued" ELSE pc[t]
      /\ phase = "loop"
      /\ t \in ready' => phase' = "batch"
      /\ UNCHANGED <<plan, attempt, last, granted, cancelled>>
  BY TakeBatchEffect
<1>2. \A d \in plan[t].DependsOn : results[d] # "none" => results'[d] = results[d]
  <2>1. plan[t].DependsOn \subseteq Subtasks
    BY DEF TypeOK, Plan, Subtask
  <2>2. [Next]_vars
    BY DEF Next, Main, ScheduleWave
  <2>3. QED
    BY <2>1, <2>2, ResultsKept
<1>3. t \in ids => results[t] = "none" /\ pc[t] = "idle"
  BY <1>1 DEF LoopInv
<1>4. CASE t \in ready'
  <2>1. results'[t] = "none" /\ pc'[t] = "queued" /\ attempt'[t] = 0 /\ t \notin granted'
    BY <1>1, <1>3, <1>4 DEF TaskInv, TaskOK
  <2>2. \A d \in plan[t].DependsOn : results'[d] = "success"
    BY <1>1, <1>2, <1>4
  <2>3. QED
    BY <1>1, <1>4, <2>1, <2>2 DEF TaskOK
<1>5. CASE t \in ids \ ready'
  <2>1. results'[t] = "skipped" /\ pc'[t] = "idle" /\ attempt'[t] = 0 /\ t \notin granted'
    BY <1>1, <1>3, <1>5 DEF TaskInv, TaskOK
  <2>2. PICK d \in plan[t].DependsOn : results[d] # "success"
    BY <1>1, <1>5
  <2>3. results[d] \in {"failed", "skipped"}
    BY <1>1, <1>5, <2>2, DependencySettled
  <2>4. results'[d] \in {"failed", "skipped"}
    BY <1>2, <2>3
  <2>5. QED
    BY <1>1, <2>1, <2>2, <2>4 DEF TaskOK
<1>6. CASE t \notin ids
  <2>1. results'[t] = results[t] /\ pc'[t] = pc[t] /\ pc[t] \in {"idle", "returned"}
    BY <1>1, <1>6 DEF TaskInv, TaskOK, TypeOK
  <2>2. QED
    BY <1>1, <1>2, <2>1 DEF TaskInv, TaskOK
<1>7. QED
  BY <1>4, <1>5, <1>6

LEMMA TaskEndBatch ==
  ASSUME TypeOK, ScheduleInv, LoopInv, TaskInv, EndBatch, NEW t \in Subtasks
  PROVE  TaskOK(t)'
<1> DEFINE r == IF t \in ready THEN last[t] ELSE results[t]
<1>1. /\ phase = "batch" /\ phase' \in {"loop", "done"}
      /\ t \in ready => pc[t] = "returned"
      /\ UNCHANGED <<plan, pc, attempt, last, granted, cancelled>>
      /\ results'[t] = r \/ (phase' = "done" /\ results'[t] \in {"skipped", "cancelled"})
  BY EndBatchEffect
<1>2. \A d \in plan[t].DependsOn : results[d] # "none" => results'[d] = results[d]
  <2>1. plan[t].DependsOn \subseteq Subtasks
    BY DEF TypeOK, Plan, Subtask
  <2>2. [Next]_vars
    BY DEF Next, Main, ScheduleWave
  <2>3. QED
    BY <2>1, <2>2, ResultsKept
<1>3. TaskOK(t) /\ pc[t] \in {"idle", "returned"}
  BY <1>1 DEF TaskInv, TaskOK, TypeOK
<1>4. CASE t \in ready
  BY <1>1, <1>2, <1>3, <1>4 DEF TaskOK
<1>5. CASE t \notin ready
  BY <1>1, <1>2, <1>3, <1>5 DEF TaskOK
<1>6. QED
  BY <1>4, <1>5

\* The step of another subtask.
LEMMA TaskOther ==
  ASSUME TypeOK, TaskInv, NEW s \in Subtasks, SubtaskStep(s), NEW t \in Subtasks, t # s
  PROVE  TaskOK(t)'
<1>1. PICK q \in PC : pc' = [pc EXCEPT ![s] = q]
  BY SubtaskFrame
<1>2. PICK x \in Result : last' = [last EXCEPT ![s] = x]
  BY SubtaskFrame
<1>3. attempt' \in {attempt, [attempt EXCEPT ![s] = @ + 1]} /\ granted' \in {granted, granted \cup {s}}
  BY SubtaskFrame
<1>4. pc'[t] = pc[t]
  BY <1>1 DEF TypeOK
<1>5. last'[t] = last[t]
  BY <1>2 DEF TypeOK
<1>6. attempt'[t] = attempt[t]
  BY <1>3 DEF TypeOK
<1>7. t \in granted' <=> t \in granted
  BY <1>3
<1>8. UNCHANGED <<plan, phase, ready, results, cancelled>>
  BY SubtaskFrame
<1>9. QED
  BY <1>4, <1>5, <1>6, <1>7, <1>8 DEF TaskInv, TaskOK

LEMMA TaskSelf ==
  ASSUME TypeOK, LoopInv, TaskInv, NEW s \in Subtasks, SubtaskStep(s)
  PROVE  TaskOK(s)'
<1>1. TaskOK(s)
  BY DEF TaskInv
<1>2. UNCHANGED <<plan, phase, ready, results, cancelled>>
  BY SubtaskFrame
<1>3. phase = "batch" /\ s \in ready /\ results[s] = "none"
  <2>1. phase = "batch" /\ s \in ready
    BY <1>1, SubtaskSource DEF TaskOK
  <2>2. next \in 1 .. Len(batches) /\ s \in batches[next].SubtaskIDs
    BY <2>1 DEF LoopInv, TypeOK
  <2>3. QED
    BY <2>1, <2>2 DEF LoopInv
<1>4. attempt[s] \in Nat /\ pc \in [Subtasks -> PC] /\ attempt \in [Subtasks -> Nat] /\ last \in [Subtasks -> Result]
  BY DEF TypeOK
<1>5. plan[s].MaxAttempts \in Nat
  BY DEF TypeOK, Plan, Subtask
<1> USE DEF CallHandler, Return
<1>6. CASE BeginSubtask(s)
  <2>1. CASE plan[s].WaitingApproval
    BY <1>1, <1>2, <1>3, <1>4, <1>6, <2>1 DEF BeginSubtask, TaskOK
  <2>2. CASE ~plan[s].WaitingApproval
    BY <1>1, <1>2, <1>3, <1>4, <1>6, <2>2 DEF BeginSubtask, TaskOK
  <2>3. QED
    BY <2>1, <2>2
<1>7. CASE GrantApproval(s)
  BY <1>1, <1>2, <1>3, <1>4, <1>7 DEF GrantApproval, TaskOK
<1>8. CASE DenyApproval(s)
  BY <1>1, <1>2, <1>3, <1>4, <1>8 DEF DenyApproval, TaskOK
<1>9. CASE HandlerStep(s)
  <2>1. PICK answer \in HandlerAnswers : HandlerReturns(s, answer)
    BY <1>9 DEF HandlerStep
  <2> DEFINE st == Outcome(answer, cancelled \/ plan[s].HasTimeout)
  <2>2. st \in {"success", "failed"}
    BY DEF HandlerAnswers, Outcome
  <2>3. pc[s] = "handler" /\ granted' = granted
    BY <2>1 DEF HandlerReturns
  <2>4. \/ /\ st = "success" \/ attempt[s] >= plan[s].MaxAttempts
           /\ Return(s, st) /\ attempt' = attempt
        \/ pc' = [pc EXCEPT ![s] = "backoff"] /\ attempt' = attempt /\ last' = last
        \/ CallHandler(s) /\ last' = last
    BY <2>1 DEF HandlerReturns
  <2> HIDE DEF st
  <2>5. QED
    BY <1>1, <1>2, <1>3, <1>4, <1>5, <2>2, <2>3, <2>4 DEF TaskOK
<1>10. CASE BackoffElapses(s)
  BY <1>1, <1>2, <1>3, <1>4, <1>10 DEF BackoffElapses, TaskOK
<1>11. CASE BackoffCancelled(s)
  BY <1>1, <1>2, <1>3, <1>4, <1>11 DEF BackoffCancelled, TaskOK
<1>12. QED
  BY <1>6, <1>7, <1>8, <1>9, <1>10, <1>11 DEF SubtaskStep

LEMMA TaskStep ==
  ASSUME TypeOK, ScheduleInv, LoopInv, TaskInv, [Next]_vars, NEW t \in Subtasks
  PROVE  TaskOK(t)'
<1>1. TaskOK(t)
  BY DEF TaskInv
<1>2. \A d \in plan[t].DependsOn : results[d] # "none" => results'[d] = results[d]
  <2>1. plan[t].DependsOn \subseteq Subtasks
    BY DEF TypeOK, Plan, Subtask
  <2>2. QED
    BY <2>1, ResultsKept
<1>3. CASE ApplySafety
  <2>1. pc[t] = "idle" /\ results[t] = "none" /\ UNCHANGED <<pc, attempt, last, granted, results>>
    BY <1>3 DEF ApplySafety, LoopInv, taskVars
  <2>2. QED
    BY <1>1, <2>1 DEF TaskOK
<1>4. CASE RejectPlan \/ BuildBatch \/ RejectCycle
  <2>1. /\ pc[t] = "idle" /\ results[t] = "none" /\ plan' = plan
        /\ UNCHANGED <<pc, attempt, last, granted, results>>
    BY <1>4 DEF RejectPlan, BuildBatch, RejectCycle, LoopInv, taskVars, planVars
  <2>2. QED
    BY <1>1, <2>1 DEF TaskOK
<1>5. CASE StartExecution
  <2>1. /\ pc[t] = "idle" /\ results[t] = "none" /\ plan' = plan
        /\ UNCHANGED <<pc, attempt, last, granted>>
        /\ results'[t] = "none" \/ (phase' = "done" /\ results'[t] = "skipped")
    BY <1>5 DEF StartExecution, LoopInv, taskVars, planVars
  <2>2. QED
    BY <1>1, <2>1 DEF TaskOK
<1>6. CASE LeaveLoop
  <2>1. /\ phase = "loop" /\ phase' = "done" /\ plan' = plan
        /\ UNCHANGED <<pc, attempt, last, granted, cancelled>>
        /\ results'[t] = results[t] \/ results'[t] = "cancelled"
    BY <1>6 DEF LeaveLoop, Finish, CancelPending, planVars, taskVars
  <2>2. QED
    BY <1>1, <1>2, <2>1 DEF TaskOK
<1>7. CASE TakeBatch
  BY <1>7, TaskTakeBatch
<1>8. CASE EndBatch
  BY <1>8, TaskEndBatch
<1>9. CASE \E s \in Subtasks : SubtaskStep(s)
  BY <1>9, TaskSelf, TaskOther
<1>10. CASE Cancel \/ Terminated \/ UNCHANGED vars
  <2>1. UNCHANGED <<plan, pc, attempt, last, granted, results, phase, ready>> /\ (cancelled => cancelled')
    BY <1>10 DEF Cancel, Terminated, vars, loopVars, planVars, taskVars
  <2>2. QED
    BY <1>1, <2>1 DEF TaskOK
<1>11. QED
  BY <1>3, <1>4, <1>5, <1>6, <1>7, <1>8, <1>9, <1>10 DEF Next, Main, ScheduleWave

-----------------------------------------------------------------------------
(***************************************************************************)
(* How many subtasks run at once.                                          *)
(***************************************************************************)
LEMMA CurrentBatchType ==
  ASSUME TypeOK, LoopInv, phase = "batch"
  PROVE  CurrentBatch \in Batch /\ next \in 1 .. Len(batches)
<1>1. next \in 1 .. Len(batches)
  BY DEF LoopInv, TypeOK
<1>2. QED
  BY <1>1, ElementOfSeq DEF TypeOK, CurrentBatch

LEMMA SlotSubtask ==
  ASSUME TypeOK, LoopInv, TaskInv, SlotInv, NEW s \in Subtasks, SubtaskStep(s)
  PROVE  SlotInv'
<1> DEFINE active == {t \in ready : Active(t)}
           B      == CurrentBatch
<1>1. /\ phase = "batch" /\ s \in ready
      /\ UNCHANGED <<config, batches, phase, next, ready>>
  BY SubtaskFrame, SubtaskSource DEF TaskInv, TaskOK
<1>2. CurrentBatch' = B
  BY <1>1 DEF CurrentBatch
<1>3. PICK q \in PC : pc' = [pc EXCEPT ![s] = q]
  BY SubtaskFrame
<1>4. \A t \in ready : t # s => pc'[t] = pc[t]
  BY <1>3 DEF TypeOK
<1>5. IsFiniteSet(active) /\ active \subseteq Subtasks
  BY SubtasksAssumption, FS_Subset DEF TypeOK
<1>6. /\ RunsSerially(B) => \A t, u \in active : t = u
      /\ config.MaxConcurrency > 0 => Cardinality(active) <= config.MaxConcurrency
  BY <1>1 DEF SlotInv
<1>7. config.MaxConcurrency \in Nat
  BY ConfigsAssumption DEF TypeOK, Config
<1>8. CASE BeginSubtask(s)
  <2>1. active' \subseteq active \cup {s}
    BY <1>1, <1>4 DEF Active
  <2>2. HasSlot(s)
    BY <1>8 DEF BeginSubtask
  <2>3. CASE RunsSerially(B)
    <3>1. active = {}
      BY <2>2, <2>3 DEF HasSlot
    <3>2. active' \subseteq {s}
      BY <2>1, <3>1
    <3>3. IsFiniteSet({s}) /\ Cardinality({s}) = 1
      BY FS_Singleton
    <3>4. Cardinality(active') <= 1
      BY <3>2, <3>3, FS_Subset
    <3>5. Cardinality(active') \in Nat
      BY <3>2, <3>3, FS_Subset, FS_CardinalityType
    <3>6. config'.MaxConcurrency > 0 => Cardinality(active') <= config'.MaxConcurrency
      BY <1>1, <1>7, <3>4, <3>5
    <3>7. QED
      BY <3>2, <3>6 DEF SlotInv
  <2>4. CASE ~RunsSerially(B)
    <3>1. Cardinality(active) < AtMost(B.MaxConcurrency, config.MaxConcurrency)
      BY <2>2, <2>4 DEF HasSlot
    <3>2. IsFiniteSet(active \cup {s}) /\ Cardinality(active \cup {s}) <= Cardinality(active) + 1
      <4>1. IsFiniteSet(active) /\ Cardinality(active) \in Nat
        BY <1>5, FS_CardinalityType
      <4> HIDE DEF active
      <4>2. /\ IsFiniteSet(active \cup {s})
            /\ \/ Cardinality(active \cup {s}) = Cardinality(active)
               \/ Cardinality(active \cup {s}) = Cardinality(active) + 1
        BY <4>1, FS_AddElement
      <4>3. QED
        BY <4>1, <4>2
    <3>3. Cardinality(active) \in Nat /\ Cardinality(active \cup {s}) \in Nat
      BY <1>5, <3>2, FS_CardinalityType
    <3>4. Cardinality(active') <= Cardinality(active \cup {s}) /\ Cardinality(active') \in Nat
      BY <2>1, <3>2, FS_Subset, FS_CardinalityType
    <3>5. B.MaxConcurrency \in Nat
      BY <1>1, CurrentBatchType DEF Batch
    <3> HIDE DEF active, B
    <3>6. config.MaxConcurrency > 0 => Cardinality(active') <= config.MaxConcurrency
      BY <1>7, <3>1, <3>2, <3>3, <3>4, <3>5 DEF AtMost
    <3>7. QED
      BY <1>1, <1>2, <2>4, <3>6 DEF SlotInv, active, B, RunsSerially
  <2>5. QED
    BY <2>3, <2>4
<1>9. CASE ~BeginSubtask(s)
  <2>1. pc[s] \in {"approval", "handler", "backoff"}
    BY <1>9 DEF SubtaskStep, GrantApproval, DenyApproval, HandlerStep, HandlerReturns,
                BackoffElapses, BackoffCancelled
  <2>2. active' \subseteq active
    BY <1>1, <1>4, <2>1 DEF Active
  <2>3. /\ Cardinality(active') <= Cardinality(active)
        /\ Cardinality(active') \in Nat /\ Cardinality(active) \in Nat
    BY <1>5, <2>2, FS_Subset, FS_CardinalityType
  <2>4. config'.MaxConcurrency > 0 => Cardinality(active') <= config'.MaxConcurrency
    BY <1>1, <1>6, <1>7, <2>3
  <2>5. RunsSerially(B)' => \A t, u \in active' : t = u
    BY <1>2, <1>6, <2>2 DEF RunsSerially
  <2>6. QED
    BY <2>4, <2>5 DEF SlotInv
<1>10. QED
  BY <1>8, <1>9

LEMMA SlotStep ==
  ASSUME TypeOK, LoopInv, TaskInv, SlotInv, [Next]_vars
  PROVE  SlotInv'
<1>1. CASE phase' # "batch"
  BY <1>1 DEF SlotInv
<1>2. CASE TakeBatch /\ phase' = "batch"
  <2>1. \A t \in ready' : pc'[t] = "queued"
    BY <1>2, TakeBatchEffect
  <2>2. {t \in ready' : Active(t)'} = {}
    BY <2>1 DEF Active
  <2>3. Cardinality({}) = 0
    BY FS_EmptySet
  <2>4. config'.MaxConcurrency \in Nat
    BY <1>2, TakeBatchEffect, ConfigsAssumption DEF TypeOK, Config
  <2>5. QED
    BY <2>2, <2>3, <2>4 DEF SlotInv
<1>3. CASE \E s \in Subtasks : SubtaskStep(s)
  BY <1>3, SlotSubtask
<1>4. CASE Cancel \/ Terminated \/ UNCHANGED vars
  <2>1. UNCHANGED <<config, batches, phase, next, ready, pc>>
    BY <1>4 DEF Cancel, Terminated, vars, loopVars, planVars, taskVars
  <2>2. QED
    BY <2>1 DEF SlotInv, Active, RunsSerially, CurrentBatch
<1>5. ASSUME Main, ~TakeBatch PROVE phase' # "batch"
  BY <1>5 DEF Main, ScheduleWave, RejectPlan, ApplySafety, BuildBatch, RejectCycle, StartExecution, LeaveLoop,
              EndBatch, Finish
<1>6. QED
  BY <1>1, <1>2, <1>3, <1>4, <1>5 DEF Next

-----------------------------------------------------------------------------
(***************************************************************************)
(* The inductive invariant and what follows from it.                       *)
(***************************************************************************)
LEMMA InitInv == Init => IInv
<1> SUFFICES ASSUME Init PROVE IInv
  OBVIOUS
<1>1. TypeOK
  BY InitType
<1>2. Len(batches) = 0 /\ ScheduleInv
  BY DEF Init, ScheduleInv
<1>3. LoopInv /\ SlotInv
  BY DEF Init, LoopInv, SlotInv
<1>4. TaskInv
  BY DEF Init, TaskInv, TaskOK
<1>5. QED
  BY <1>1, <1>2, <1>3, <1>4 DEF IInv

\* The invariant is kept by every step.
LEMMA StepInv == IInv /\ [Next]_vars => IInv'
<1> SUFFICES ASSUME IInv, [Next]_vars PROVE IInv'
  OBVIOUS
<1> USE DEF IInv
<1>1. TypeOK'
  BY StepType
<1>2. ScheduleInv'
  BY ScheduleStep
<1>3. LoopInv'
  BY LoopStep
<1>4. TaskInv'
  BY TaskStep DEF TaskInv
<1>5. SlotInv'
  BY SlotStep
<1>6. QED
  BY <1>1, <1>2, <1>3, <1>4, <1>5

\* The inductive invariant holds in every reachable state.
THEOREM InvariantHolds == Spec => []IInv
BY InitInv, StepInv, PTL DEF Spec

\* Whatever the plan, the configuration and the interleaving, a subtask's
\* handler is called only after every dependency succeeded.
THEOREM DependenciesAlwaysFirst == Spec => []DependenciesFirst
<1>1. IInv => DependenciesFirst
  BY DEF IInv, TaskInv, TaskOK, DependenciesFirst
<1>2. QED
  BY <1>1, InvariantHolds, PTL

\* No severe subtask runs without the consent of the user, given up front or
\* during the run.
THEOREM SevereAlwaysWithConsent == Spec => []SevereOnlyWithConsent
<1>1. IInv => SevereOnlyWithConsent
  <2> SUFFICES ASSUME IInv, NEW s \in Subtasks, attempt[s] > 0,
                      plan[s].RiskLevel \in SevereRisk \/ plan[s].WaitingApproval
               PROVE  s \in granted \cup config.ApprovedSubtaskIDs
    BY DEF SevereOnlyWithConsent
  <2>1. phase \notin {"safety", "rejected"}
    BY DEF IInv, LoopInv, TaskInv, TaskOK
  <2>2. s \notin config.ApprovedSubtaskIDs => plan[s].WaitingApproval
    BY <2>1 DEF IInv, ScheduleInv
  <2>3. QED
    BY <2>2 DEF IInv, TaskInv, TaskOK
<1>2. QED
  BY <1>1, InvariantHolds, PTL

\* A serial or gated subtask is never executed next to another one, and the
\* concurrency limit is never exceeded.
THEOREM SerialAlwaysRunsAlone == Spec => []SerialRunsAlone
<1> DEFINE active == {s \in Subtasks : Active(s)}
<1>1. IInv => SerialRunsAlone
  <2> SUFFICES ASSUME IInv PROVE SerialRunsAlone
    OBVIOUS
  <2> USE DEF IInv
  <2>1. CASE phase = "batch"
    <3>1. active = {s \in ready : Active(s)}
      BY DEF TypeOK, TaskInv, TaskOK, Active
    <3>2. ASSUME NEW s \in active, NEW t \in active, s # t PROVE plan[s].CanParallel
      <4>1. ~RunsSerially(CurrentBatch)
        BY <2>1, <3>1, <3>2 DEF SlotInv
      <4>2. CurrentBatch.Mode = "parallel"
        BY <2>1, <4>1, CurrentBatchType DEF RunsSerially, Batch, Mode
      <4>3. s \in CurrentBatch.SubtaskIDs
        BY <2>1, <3>1 DEF LoopInv, CurrentBatch
      <4>4. QED
        BY <2>1, <4>2, <4>3, CurrentBatchType DEF ScheduleInv, CurrentBatch
    <3>3. QED
      BY <2>1, <3>1, <3>2 DEF SlotInv, SerialRunsAlone
  <2>2. CASE phase # "batch"
    <3>1. active = {}
      BY <2>2 DEF TaskInv, TaskOK, Active
    <3>2. Cardinality({}) = 0 /\ config.MaxConcurrency \in Nat
      BY FS_EmptySet, ConfigsAssumption DEF TypeOK, Config
    <3>3. QED
      BY <3>1, <3>2 DEF SerialRunsAlone
  <2>3. QED
    BY <2>1, <2>2
<1>2. QED
  BY <1>1, InvariantHolds, PTL

\* A stored result is never replaced and a subtask that has one is not run again.
THEOREM ResultsAlwaysFinal == Spec => ResultsAreFinal
<1>1. IInv /\ [Next]_vars =>
        [\A s \in Subtasks :
           results[s] # "none" => results'[s] = results[s] /\ attempt'[s] = attempt[s]]_vars
  <2> SUFFICES ASSUME IInv, [Next]_vars, NEW s \in Subtasks, results[s] # "none"
               PROVE  results'[s] = results[s] /\ attempt'[s] = attempt[s]
    OBVIOUS
  <2>1. results'[s] = results[s]
    BY ResultsKept DEF IInv
  <2>2. attempt'[s] = attempt[s]
    <3>1. CASE \E t \in Subtasks : SubtaskStep(t)
      <4>1. PICK t \in Subtasks : SubtaskStep(t)
        BY <3>1
      <4>2. phase = "batch" /\ t \in ready
        BY <4>1, SubtaskSource DEF IInv, TaskInv, TaskOK
      <4>3. results[t] = "none"
        BY <4>2, CurrentBatchType DEF IInv, LoopInv
      <4>4. attempt' \in {attempt, [attempt EXCEPT ![t] = @ + 1]}
        BY <4>1, SubtaskFrame DEF IInv
      <4>5. QED
        BY <4>3, <4>4 DEF IInv, TypeOK
    <3>2. CASE ~\E t \in Subtasks : SubtaskStep(t)
      BY <3>2 DEF Next, Main, ScheduleWave, RejectPlan, ApplySafety, BuildBatch, RejectCycle, StartExecution,
                  LeaveLoop, TakeBatch, EndBatch, Cancel, Terminated, vars, taskVars
    <3>3. QED
      BY <3>1, <3>2
  <2>3. QED
    BY <2>1, <2>2
<1>2. QED
  BY <1>1, InvariantHolds, PTL DEF Spec, ResultsAreFinal

-----------------------------------------------------------------------------
(***************************************************************************)
(* A plan that passed validation can be scheduled.                         *)
(***************************************************************************)
LEMMA LeastNatural ==
  ASSUME NEW T \in SUBSET Nat, T # {}
  PROVE  \E x \in T : \A y \in T : x <= y
<1> DEFINE R == {ss \in Nat \X Nat : ss[1] < ss[2]}
<1>1. IsWellFoundedOn(R, Nat)
  BY NatLessThanWellFounded DEF OpToRel
<1> HIDE DEF R
<1>2. PICK x \in T : \A y \in T : <<y, x>> \notin R
  BY <1>1, WFMin
<1>3. ASSUME NEW y \in T PROVE x <= y
  <2>1. y \in Nat /\ x \in Nat /\ <<y, x>> \in Nat \X Nat
    OBVIOUS
  <2>2. ~(y < x)
    BY <1>2, <2>1 DEF R
  <2>3. QED
    BY <2>1, <2>2
<1>4. QED
  BY <1>3

\* In a plan without a cycle the unscheduled subtask of the lowest rank has
\* all its dependencies scheduled.
LEMMA WaveExists ==
  ASSUME NEW p \in Plan, ValidPlan(p), NEW done \in SUBSET Subtasks, done # Subtasks
  PROVE  NextWave(p, done) # {}
<1> DEFINE left == Subtasks \ done
<1>1. PICK rank \in [Subtasks -> 0 .. Cardinality(Subtasks)] : Ranks(p, rank)
  BY DEF ValidPlan
<1>2. Cardinality(Subtasks) \in Nat
  BY SubtasksAssumption, FS_CardinalityType
<1>3. \A s \in Subtasks : rank[s] \in Nat
  BY <1>1, <1>2
<1> DEFINE T == {rank[s] : s \in left}
<1>4. T \in SUBSET Nat /\ T # {}
  BY <1>3
<1>5. PICK x \in T : \A y \in T : x <= y
  BY <1>4, LeastNatural
<1>6. PICK s \in left : \A t \in left : rank[s] <= rank[t]
  BY <1>5
<1>7. ASSUME NEW d \in p[s].DependsOn PROVE d \in done
  <2>1. d \in Subtasks
    BY DEF Plan, Subtask
  <2>2. rank[d] < rank[s]
    BY <1>1 DEF Ranks
  <2>3. QED
    BY <1>3, <1>6, <2>1, <2>2
<1>8. QED
  BY <1>6, <1>7 DEF NextWave

\* The guardrail leaves the dependencies alone, so a plan that was valid stays
\* schedulable.
LEMMA SafetyPolicyKeepsRanks ==
  ASSUME NEW p \in Plan, ValidPlan(p), NEW ids
  PROVE  ValidPlan(ApplySafetyPolicy(p, ids))
<1>1. PICK rank \in [Subtasks -> 0 .. Cardinality(Subtasks)] : Ranks(p, rank)
  BY DEF ValidPlan
<1>2. Ranks(ApplySafetyPolicy(p, ids), rank)
  BY <1>1, SafetyPolicyType DEF Ranks
<1>3. QED
  BY <1>2 DEF ValidPlan

\* While waves are built the plan can still be ranked.
ValidInv == phase = "schedule" => ValidPlan(plan)

LEMMA ValidStep == ASSUME TypeOK, ValidInv, [Next]_vars PROVE ValidInv'
<1>1. CASE ApplySafety
  BY <1>1, SafetyPolicyKeepsRanks DEF ApplySafety, ValidInv, TypeOK
<1>2. CASE ~ApplySafety /\ phase' = "schedule"
  <2>1. phase = "schedule"
    <3>1. ~StartExecution
      BY <1>2 DEF StartExecution
    <3>2. CASE BuildBatch
      BY <3>2 DEF BuildBatch
    <3>3. CASE ~BuildBatch
      BY <1>2, <3>1, <3>3, PhaseFrame
    <3>4. QED
      BY <3>2, <3>3
  <2>2. plan' = plan
    <3>1. CASE BuildBatch \/ StartExecution
      BY <3>1 DEF BuildBatch, StartExecution, planVars
    <3>2. CASE ~BuildBatch /\ ~StartExecution
      BY <1>2, <3>2, ScheduleFrame
    <3>3. QED
      BY <3>1, <3>2
  <2>3. QED
    BY <2>1, <2>2 DEF ValidInv, ValidPlan
<1>3. QED
  BY <1>1, <1>2 DEF ValidInv

\* A plan that passed validation is always schedulable, after the guardrail
\* too: the scheduler's own test for a cycle never fires.
THEOREM ValidPlansSchedule == Spec => []ValidatedPlanSchedules
<1>1. Init => ValidInv
  BY DEF Init, ValidInv
<1>2. TypeOK /\ ValidInv /\ [Next]_vars => ValidInv'
  BY ValidStep
<1>3. TypeOK /\ ValidInv => ValidatedPlanSchedules
  <2> SUFFICES ASSUME TypeOK, ValidInv, phase = "schedule", Scheduled # Subtasks
               PROVE  NextWave(plan, Scheduled) # {}
    BY DEF ValidatedPlanSchedules
  <2>1. Scheduled \in SUBSET Subtasks
    BY BatchSubtasks, LenProperties DEF TypeOK, Scheduled
  <2>2. QED
    BY <2>1, WaveExists DEF TypeOK, ValidInv
<1>4. QED
  BY <1>1, <1>2, <1>3, TypeCorrect, PTL DEF Spec

-----------------------------------------------------------------------------
(***************************************************************************)
(* A severe failure stops the plan.                                        *)
(***************************************************************************)
\* While batches are still taken, no failure stored so far was severe.
MildInv ==
  phase \in {"loop", "batch"} =>
    \A s \in Subtasks : results[s] = "failed" => plan[s].RiskLevel \notin SevereRisk

LEMMA MildStep == ASSUME IInv, MildInv, [Next]_vars PROVE MildInv'
<1> USE DEF IInv
<1>1. CASE StartExecution
  BY <1>1 DEF StartExecution, LoopInv, MildInv
<1>2. CASE TakeBatch
  <2>1. phase = "loop" /\ plan' = plan
    BY <1>2, TakeBatchEffect
  <2>2. \A s \in Subtasks : results'[s] = "failed" => results[s] = "failed"
    BY <1>2, TakeBatchEffect
  <2>3. QED
    BY <2>1, <2>2 DEF MildInv
<1>3. CASE EndBatch
  <2> DEFINE stored == [s \in Subtasks |-> IF s \in ready THEN last[s] ELSE results[s]]
  <2>1. phase = "batch" /\ plan' = plan
    BY <1>3, EndBatchEffect
  <2>2. CASE ShouldStopAfterBatch(stored)
    BY <1>3, <2>2 DEF EndBatch, Finish, MildInv
  <2>3. CASE ~ShouldStopAfterBatch(stored)
    <3>1. results' = stored
      BY <1>3, <2>3 DEF EndBatch
    <3>2. \A s \in ready : stored[s] = "failed" => plan[s].RiskLevel \notin SevereRisk
      BY <2>3 DEF ShouldStopAfterBatch
    <3>3. \A s \in Subtasks \ ready : stored[s] = results[s]
      OBVIOUS
    <3>4. QED
      BY <2>1, <3>1, <3>2, <3>3 DEF MildInv
  <2>4. QED
    BY <2>2, <2>3
<1>4. CASE \E s \in Subtasks : SubtaskStep(s)
  BY <1>4, SubtaskFrame DEF MildInv
<1>5. CASE Cancel \/ Terminated \/ UNCHANGED vars
  BY <1>5 DEF Cancel, Terminated, vars, loopVars, planVars, MildInv
<1>6. CASE RejectPlan \/ ApplySafety \/ ScheduleWave \/ LeaveLoop
  BY <1>6 DEF RejectPlan, ApplySafety, ScheduleWave, BuildBatch, RejectCycle, LeaveLoop, Finish, MildInv
<1>7. QED
  BY <1>1, <1>2, <1>3, <1>4, <1>5, <1>6 DEF Next, Main

\* Once a high or critical failure is stored no handler is called any more,
\* whatever ContinueOnLowRiskFailure says.
THEOREM SevereFailureAlwaysStops == Spec => SevereFailureStopsPlan
<1>1. Init => MildInv
  BY DEF Init, MildInv
<1>2. IInv /\ MildInv /\ [Next]_vars => MildInv'
  BY MildStep
<1>3. IInv /\ MildInv /\ [Next]_vars =>
        [(\E s \in Subtasks : results[s] = "failed" /\ plan[s].RiskLevel \in SevereRisk)
           => attempt' = attempt]_vars
  <2> SUFFICES ASSUME IInv, MildInv, [Next]_vars, NEW s \in Subtasks,
                      results[s] = "failed", plan[s].RiskLevel \in SevereRisk
               PROVE  attempt' = attempt
    OBVIOUS
  <2>1. phase \notin {"loop", "batch"}
    BY DEF MildInv
  <2>2. ~\E t \in Subtasks : SubtaskStep(t)
    BY <2>1, SubtaskSource DEF IInv, TaskInv, TaskOK
  <2>3. QED
    BY <2>2 DEF Next, Main, ScheduleWave, RejectPlan, ApplySafety, BuildBatch, RejectCycle, StartExecution,
                LeaveLoop, TakeBatch, EndBatch, Cancel, Terminated, vars, taskVars
<1>4. QED
  BY <1>1, <1>2, <1>3, InvariantHolds, PTL DEF Spec, SevereFailureStopsPlan

-----------------------------------------------------------------------------
(***************************************************************************)
(* The results when Execute returns.  Accounted(r) says of a result map,   *)
(* before cancelPending, that what it holds is what the executions came to *)
(* and that what it does not hold was never started.                       *)
(***************************************************************************)
Accounted(r) ==
  /\ r \in [Subtasks -> Result]
  /\ \A s \in Subtasks :
       /\ r[s] = "none" => attempt[s] = 0 /\ pc[s] = "idle"
       /\ r[s] # "none" =>
            \/ pc[s] = "returned" /\ r[s] = last[s]
            \/ /\ pc[s] = "idle" /\ r[s] = "skipped"
               /\ \E d \in plan[s].DependsOn : r[d] \in {"failed", "skipped"}
       /\ pc[s] # "idle" => \A d \in plan[s].DependsOn : r[d] = "success"

LEMMA LoopAccounted == ASSUME IInv, phase = "loop" PROVE Accounted(results)
<1> USE DEF IInv
<1>1. results \in [Subtasks -> Result]
  BY DEF TypeOK
<1>2. ASSUME NEW s \in Subtasks, results[s] = "none" PROVE attempt[s] = 0 /\ pc[s] = "idle"
  <2>1. PICK i \in 1 .. Len(batches) : s \in batches[i].SubtaskIDs
    BY DEF ScheduleInv
  <2>2. Len(batches) \in Nat /\ next \in Nat
    BY LenProperties DEF TypeOK
  <2>3. i = next \/ i > next
    BY <1>2, <2>1, <2>2 DEF LoopInv
  <2>4. pc[s] = "idle"
    BY <2>1, <2>3 DEF LoopInv
  <2>5. QED
    BY <2>4 DEF TaskInv, TaskOK
<1>3. QED
  BY <1>1, <1>2 DEF Accounted, TaskInv, TaskOK

LEMMA BatchAccounted ==
  ASSUME IInv, EndBatch
  PROVE  Accounted([s \in Subtasks |-> IF s \in ready THEN last[s] ELSE results[s]])
<1> USE DEF IInv
<1> DEFINE r == [s \in Subtasks |-> IF s \in ready THEN last[s] ELSE results[s]]
<1>1. r \in [Subtasks -> Result]
  BY DEF TypeOK
<1>2. phase = "batch" /\ \A s \in ready : pc[s] = "returned"
  BY EndBatchEffect
<1>3. /\ next \in 1 .. Len(batches) /\ ready \subseteq batches[next].SubtaskIDs
      /\ Len(batches) \in Nat
  BY <1>2, LenProperties DEF LoopInv, TypeOK
<1>4. \A s \in ready : results[s] = "none"
  BY <1>2, <1>3 DEF LoopInv
<1>5. ASSUME NEW s \in Subtasks, results[s] # "none" PROVE r[s] = results[s]
  BY <1>4, <1>5
<1>6. ASSUME NEW s \in Subtasks, r[s] = "none" PROVE attempt[s] = 0 /\ pc[s] = "idle"
  <2>1. PICK i \in 1 .. Len(batches) : s \in batches[i].SubtaskIDs
    BY <1>2 DEF ScheduleInv
  <2>2. s \notin ready
    <3>1. ASSUME s \in ready PROVE FALSE
      <4>1. pc[s] = "returned" /\ last[s] = "none"
        BY <1>2, <1>6, <3>1
      <4>2. attempt[s] \in Nat
        BY DEF TypeOK
      <4>3. QED
        BY <4>1, <4>2 DEF TaskInv, TaskOK
    <3>2. QED
      BY <3>1
  <2>3. results[s] = "none"
    BY <1>6, <2>2
  <2>4. i > next
    BY <1>2, <1>3, <2>1, <2>2, <2>3 DEF LoopInv
  <2>5. pc[s] = "idle"
    BY <1>2, <2>1, <2>4 DEF LoopInv
  <2>6. QED
    BY <2>5 DEF TaskInv, TaskOK
<1>7. ASSUME NEW s \in Subtasks, r[s] # "none"
      PROVE  \/ pc[s] = "returned" /\ r[s] = last[s]
             \/ /\ pc[s] = "idle" /\ r[s] = "skipped"
                /\ \E d \in plan[s].DependsOn : r[d] \in {"failed", "skipped"}
  <2>1. CASE s \in ready
    BY <1>2, <2>1
  <2>2. CASE s \notin ready
    <3>1. r[s] = results[s] /\ results[s] # "none"
      BY <1>7, <2>2
    <3>2. CASE pc[s] = "returned" /\ results[s] = last[s]
      BY <3>1, <3>2
    <3>3. CASE pc[s] # "returned"
      <4>1. /\ pc[s] = "idle" /\ results[s] = "skipped"
            /\ \E d \in plan[s].DependsOn : results[d] \in {"failed", "skipped"}
        BY <1>2, <3>1, <3>3 DEF TaskInv, TaskOK
      <4>2. plan[s].DependsOn \subseteq Subtasks
        BY DEF TypeOK, Plan, Subtask
      <4>3. QED
        BY <1>5, <3>1, <4>1, <4>2
    <3>4. CASE pc[s] = "returned" /\ results[s] # last[s]
      BY <1>2, <3>1, <3>4 DEF TaskInv, TaskOK
    <3>5. QED
      BY <3>2, <3>3, <3>4
  <2>3. QED
    BY <2>1, <2>2
<1>8. ASSUME NEW s \in Subtasks, pc[s] # "idle", NEW d \in plan[s].DependsOn PROVE r[d] = "success"
  <2>1. results[d] = "success" /\ d \in Subtasks
    BY <1>8 DEF TaskInv, TaskOK, TypeOK, Plan, Subtask
  <2>2. QED
    BY <1>5, <2>1
<1> HIDE DEF r
<1>9. Accounted(r)
  BY <1>1, <1>6, <1>7, <1>8 DEF Accounted
<1>10. QED
  BY <1>9 DEF r

\* What the two passes after the loop do to an accounted map: they fill what is
\* missing and keep the rest.
LEMMA FinishAccounted ==
  ASSUME IInv, NEW r, Accounted(r), NEW f \in [Subtasks -> Result],
         \A s \in Subtasks : IF r[s] # "none" THEN f[s] = r[s]
                             ELSE \/ f[s] = "cancelled"
                                  \/ f[s] = "skipped" /\ HasFailedDependency(s, r),
         NEW s \in Subtasks
  PROVE  /\ f[s] \in Final
         /\ f[s] \in {"success", "failed"} <=> attempt[s] > 0
         /\ f[s] = "failed" => cancelled \/ attempt[s] >= plan[s].MaxAttempts
         /\ f[s] = "skipped" =>
              \/ plan[s].WaitingApproval /\ s \notin granted
              \/ \E d \in plan[s].DependsOn : f[d] # "success"
         /\ f[s] = "cancelled" => r[s] = "none"
<1>1. TaskOK(s) /\ attempt[s] \in Nat /\ plan[s].DependsOn \subseteq Subtasks
  BY DEF IInv, TaskInv, TypeOK, Plan, Subtask
<1>2. \A d \in Subtasks : r[d] # "success" => f[d] # "success"
  OBVIOUS
<1>3. r[s] \in Result
  BY DEF Accounted
<1>4. CASE r[s] = "none"
  <2>1. attempt[s] = 0
    BY <1>4 DEF Accounted
  <2>2. f[s] = "cancelled" \/ (f[s] = "skipped" /\ HasFailedDependency(s, r))
    BY <1>4
  <2>3. HasFailedDependency(s, r) => \E d \in plan[s].DependsOn : f[d] # "success"
    BY <1>1, <1>2 DEF HasFailedDependency
  <2>4. QED
    BY <1>4, <2>1, <2>2, <2>3 DEF Final
<1>5. CASE r[s] # "none" /\ pc[s] = "returned"
  <2>1. f[s] = last[s]
    <3>1. r[s] = last[s]
      BY <1>5 DEF Accounted
    <3>2. QED
      BY <1>5, <3>1
  <2>2. /\ last[s] \in {"success", "failed"} <=> attempt[s] > 0
        /\ last[s] = "failed" => cancelled \/ attempt[s] >= plan[s].MaxAttempts
        /\ last[s] = "skipped" <=> attempt[s] = 0
        /\ attempt[s] = 0 => plan[s].WaitingApproval /\ s \notin granted
    BY <1>1, <1>5 DEF TaskOK
  <2>3. last[s] \in {"success", "failed", "skipped"}
    BY <1>1, <2>2
  <2>4. QED
    BY <1>5, <2>1, <2>2, <2>3 DEF Final
<1>6. CASE r[s] # "none" /\ pc[s] # "returned"
  <2>1. /\ pc[s] = "idle" /\ r[s] = "skipped"
        /\ \E d \in plan[s].DependsOn : r[d] \in {"failed", "skipped"}
    BY <1>6 DEF Accounted
  <2>2. f[s] = "skipped" /\ attempt[s] = 0
    BY <1>1, <1>6, <2>1 DEF TaskOK
  <2>3. \E d \in plan[s].DependsOn : f[d] # "success"
    BY <1>1, <1>2, <2>1
  <2>4. QED
    BY <1>1, <2>2, <2>3 DEF Final
<1>7. QED
  BY <1>4, <1>5, <1>6

\* The step that closes a run after its loop was entered: it takes an accounted map,
\* skips dependents of failures and cancels what remains.
LEMMA ClosingStep ==
  ASSUME IInv, Next, phase # "done", phase' = "done", ~StartExecution
  PROVE  /\ UNCHANGED <<planVars, taskVars, cancelled>>
         /\ results' \in [Subtasks -> Result]
         /\ status' = SummarizePlanStatus(results')
         /\ \E r :
              /\ Accounted(r)
              /\ \A s \in Subtasks :
                   IF r[s] # "none" THEN results'[s] = r[s]
                   ELSE \/ results'[s] = "cancelled"
                        \/ results'[s] = "skipped" /\ HasFailedDependency(s, r)
              /\ cancelled \/ \A s \in Subtasks :
                   r[s] = "none" /\ HasFailedDependency(s, r) => results'[s] = "skipped"
              /\ \/ cancelled
                 \/ \E t \in Subtasks : r[t] = "failed"
                 \/ \A s \in Subtasks : r[s] # "none"
<1> USE DEF IInv
<1>1. LeaveLoop \/ EndBatch
  <2>1. ~\E s \in Subtasks : SubtaskStep(s)
    BY SubtaskFrame
  <2>2. ~Cancel /\ ~Terminated
    BY DEF Cancel, Terminated, loopVars, vars
  <2>3. ~TakeBatch
    BY TakeBatchEffect
  <2>4. QED
    BY <2>1, <2>2, <2>3
       DEF Next, Main, ScheduleWave, RejectPlan, ApplySafety, BuildBatch, RejectCycle
<1>2. CASE LeaveLoop
  <2>1. phase = "loop" /\ UNCHANGED <<planVars, taskVars, cancelled>>
    BY <1>2 DEF LeaveLoop
  <2>2. /\ results' = CancelPending(results)
        /\ status' = SummarizePlanStatus(results')
    BY <1>2 DEF LeaveLoop, Finish
  <2>3. results' \in [Subtasks -> Result]
    BY <2>2 DEF CancelPending, TypeOK, Result, Final
  <2>4. Accounted(results)
    BY <2>1, LoopAccounted
  <2>5. cancelled \/ \A s \in Subtasks : results[s] # "none"
    <3>1. SUFFICES ASSUME ~cancelled, NEW s \in Subtasks PROVE results[s] # "none"
      OBVIOUS
    <3>2. PICK i \in 1 .. Len(batches) : s \in batches[i].SubtaskIDs
      BY <2>1 DEF ScheduleInv
    <3>3. Len(batches) \in Nat /\ next \in Nat /\ next > Len(batches)
      BY <1>2, <3>1, LenProperties DEF LeaveLoop, TypeOK
    <3>4. i < next
      BY <3>2, <3>3
    <3>5. QED
      BY <2>1, <3>2, <3>4 DEF LoopInv
  <2>6. \A s \in Subtasks : results'[s] = IF results[s] = "none" THEN "cancelled" ELSE results[s]
    BY <2>2 DEF CancelPending
  <2>7. QED
    BY <2>1, <2>2, <2>3, <2>4, <2>5, <2>6
<1>3. CASE EndBatch
  <2> DEFINE stored == [s \in Subtasks |-> IF s \in ready THEN last[s] ELSE results[s]]
  <2>1. ShouldStopAfterBatch(stored)
    BY <1>3 DEF EndBatch
  <2>2. /\ results' = CancelPending(SkipUnresolvedDependents(stored))
        /\ status' = SummarizePlanStatus(results')
        /\ UNCHANGED <<planVars, taskVars, cancelled>>
    BY <1>3, <2>1 DEF EndBatch, Finish
  <2>3. \E t \in Subtasks : stored[t] = "failed"
    BY <2>1 DEF ShouldStopAfterBatch, TypeOK
  <2>4. Accounted(stored)
    BY <1>3, BatchAccounted
  <2> HIDE DEF stored
  <2>5. stored \in [Subtasks -> Result]
    BY <2>4 DEF Accounted
  <2>6. \A s \in Subtasks :
          results'[s] = IF stored[s] # "none" THEN stored[s]
                        ELSE IF HasFailedDependency(s, stored) THEN "skipped" ELSE "cancelled"
    BY <2>2, <2>5 DEF CancelPending, SkipUnresolvedDependents
  <2>7. results' \in [Subtasks -> Result]
    BY <2>2, <2>5 DEF CancelPending, SkipUnresolvedDependents, Result, Final
  <2>8. QED
    BY <2>2, <2>3, <2>4, <2>6, <2>7
<1>4. QED
  BY <1>1, <1>2, <1>3

\* Nothing moves once Execute has returned.
LEMMA DoneIsFinal == ASSUME IInv, [Next]_vars, phase = "done" PROVE UNCHANGED vars
<1>1. ~\E s \in Subtasks : SubtaskStep(s)
  BY SubtaskSource DEF IInv, TaskInv, TaskOK
<1>2. QED
  BY <1>1 DEF Next, Main, ScheduleWave, RejectPlan, ApplySafety, BuildBatch, RejectCycle, StartExecution,
              LeaveLoop, TakeBatch, EndBatch, Cancel, Terminated

\* What holds once Execute has returned; inductive relative to IInv.
ClosedInv == ResultsAccountForPlan /\ FailureSkipsDependents

LEMMA ClosedStep == ASSUME IInv, ClosedInv, [Next]_vars PROVE ClosedInv'
<1>1. CASE phase = "done"
  <2>1. UNCHANGED vars
    BY <1>1, DoneIsFinal
  <2>2. UNCHANGED <<config, plan, phase, attempt, granted, results, status, cancelled>>
    BY <2>1 DEF vars, planVars, taskVars
  <2>3. QED
    BY <2>2 DEF ClosedInv, ResultsAccountForPlan, FailureSkipsDependents
<1>2. CASE phase' # "done" \/ config'.DryRun
  BY <1>2 DEF ClosedInv, ResultsAccountForPlan, FailureSkipsDependents
<1>3. CASE phase # "done" /\ phase' = "done" /\ ~config'.DryRun
  <2>1. Next
    BY <1>3 DEF vars
  <2>2. config' = config
    <3>1. CASE \E s \in Subtasks : SubtaskStep(s)
      BY <3>1, SubtaskFrame DEF IInv
    <3>2. CASE ~\E s \in Subtasks : SubtaskStep(s)
      BY <2>1, <3>2 DEF Next, Main, ScheduleWave, RejectPlan, ApplySafety, BuildBatch, RejectCycle,
                        StartExecution, LeaveLoop, TakeBatch, EndBatch, Cancel, Terminated, vars, loopVars,
                        planVars
    <3>3. QED
      BY <3>1, <3>2
  <2>0. ~StartExecution
    BY <1>3, <2>2 DEF StartExecution
  <2>3. /\ UNCHANGED <<plan, pc, attempt, granted, cancelled>>
        /\ results' \in [Subtasks -> Result]
        /\ status' = SummarizePlanStatus(results')
    BY <1>3, <2>0, <2>1, ClosingStep DEF planVars, taskVars
  <2>4. PICK r :
          /\ Accounted(r)
          /\ \A s \in Subtasks :
               IF r[s] # "none" THEN results'[s] = r[s]
               ELSE \/ results'[s] = "cancelled"
                    \/ results'[s] = "skipped" /\ HasFailedDependency(s, r)
          /\ cancelled \/ \A s \in Subtasks :
               r[s] = "none" /\ HasFailedDependency(s, r) => results'[s] = "skipped"
          /\ \/ cancelled
             \/ \E t \in Subtasks : r[t] = "failed"
             \/ \A s \in Subtasks : r[s] # "none"
    BY <1>3, <2>0, <2>1, ClosingStep
  <2>5. ASSUME NEW s \in Subtasks
        PROVE  /\ results'[s] \in Final
               /\ results'[s] \in {"success", "failed"} <=> attempt[s] > 0
               /\ results'[s] = "failed" => cancelled \/ attempt[s] >= plan[s].MaxAttempts
               /\ results'[s] = "skipped" =>
                    \/ plan[s].WaitingApproval /\ s \notin granted
                    \/ \E d \in plan[s].DependsOn : results'[d] # "success"
               /\ results'[s] = "cancelled" => r[s] = "none"
    BY <2>3, <2>4, FinishAccounted
  <2>6. ASSUME NEW s \in Subtasks, results'[s] = "cancelled"
        PROVE  cancelled \/ \E t \in Subtasks : results'[t] = "failed"
    <3>1. r[s] = "none"
      BY <2>5, <2>6
    <3>2. cancelled \/ \E t \in Subtasks : r[t] = "failed"
      BY <2>4, <3>1
    <3>3. QED
      BY <2>4, <3>2
  <2>7. status' = "success" => \A s \in Subtasks : results'[s] \in {"success", "skipped"}
    BY <2>3, <2>5 DEF SummarizePlanStatus, Final
  <2>8. ResultsAccountForPlan'
    BY <2>3, <2>5, <2>6, <2>7 DEF ResultsAccountForPlan
  <2>9. ASSUME ~cancelled, NEW s \in Subtasks,
               NEW d \in plan[s].DependsOn, results'[d] \in {"failed", "skipped"}
        PROVE  results'[s] = "skipped"
    <3>1. d \in Subtasks
      BY DEF IInv, TypeOK, Plan, Subtask
    <3>2. r[d] # "success"
      BY <2>4, <2>9, <3>1
    <3>3. CASE r[s] = "none"
      BY <2>4, <2>9, <3>2, <3>3 DEF HasFailedDependency
    <3>4. CASE r[s] # "none"
      <4>1. pc[s] = "idle" /\ r[s] = "skipped"
        BY <2>4, <3>2, <3>4 DEF Accounted
      <4>2. QED
        BY <2>4, <3>4, <4>1
    <3>5. QED
      BY <3>3, <3>4
  <2>10. FailureSkipsDependents'
    BY <2>3, <2>9 DEF FailureSkipsDependents
  <2>11. QED
    BY <2>8, <2>10 DEF ClosedInv
<1>4. QED
  BY <1>1, <1>2, <1>3

LEMMA ClosedAlways == Spec => []ClosedInv
<1>1. Init => ClosedInv
  BY DEF Init, ClosedInv, ResultsAccountForPlan, FailureSkipsDependents
<1>2. QED
  BY <1>1, ClosedStep, InvariantHolds, PTL DEF Spec

\* When Execute returns every subtask has the final result its execution, its
\* approval, its dependencies or the cancellation call for.
THEOREM EveryResultAccounted == Spec => []ResultsAccountForPlan
<1>1. ClosedInv => ResultsAccountForPlan
  BY DEF ClosedInv
<1>2. QED
  BY <1>1, ClosedAlways, PTL

\* Unless the run was cancelled, what depends on a failed or skipped subtask is
\* reported as skipped, in batches that were never reached too.
THEOREM DependentsAlwaysSkipped == Spec => []FailureSkipsDependents
<1>1. ClosedInv => FailureSkipsDependents
  BY DEF ClosedInv
<1>2. QED
  BY <1>1, ClosedAlways, PTL

-----------------------------------------------------------------------------
(***************************************************************************)
(* The run implements PlanRun: the abstract variables are the following.   *)
(***************************************************************************)
PlanDeps    == [s \in Subtasks |-> plan[s].DependsOn]
PlanConsent == {s \in Subtasks : plan[s].WaitingApproval}
PlanState   == [s \in Subtasks |-> StateOf(s)]
PlanOver    == phase = "done"

LEMMA PlanInit == Init => Abstract!Init
<1> SUFFICES ASSUME Init PROVE Abstract!Init
  OBVIOUS
<1>1. plan \in Plan
  BY DraftsAssumption DEF Init
<1>2. PlanDeps \in [Subtasks -> SUBSET Subtasks] /\ PlanConsent \in SUBSET Subtasks
  BY <1>1 DEF PlanDeps, PlanConsent, Plan, Subtask
<1>3. PlanState = [s \in Subtasks |-> "pending"]
  BY DEF Init, PlanState, StateOf
<1>4. granted = {} /\ PlanOver = FALSE
  BY DEF Init, PlanOver
<1>5. QED
  BY <1>2, <1>3, <1>4 DEF Abstract!Init, PlanDeps, PlanConsent, PlanState, PlanOver

\* A step that changes none of the abstract variables is a stutter.
LEMMA PlanStutter ==
  ASSUME UNCHANGED <<PlanDeps, PlanConsent, PlanState, granted>>, PlanOver' <=> PlanOver
  PROVE  UNCHANGED Abstract!vars
BY DEF Abstract!vars, PlanDeps, PlanConsent, PlanState, PlanOver

\* The steps of PlanRun that move one task.
LEMMA PlanMove ==
  ASSUME NEW s \in Subtasks, ~PlanOver, ~PlanOver', UNCHANGED <<PlanDeps, PlanConsent>>
  PROVE  /\ /\ PlanState[s] = "pending"
            /\ \A d \in PlanDeps[s] : PlanState[d] = "success"
            /\ PlanState' = [PlanState EXCEPT ![s] = "running"]
            /\ \/ s \notin PlanConsent /\ granted' = granted
               \/ s \in PlanConsent /\ granted' = granted \cup {s}
            => Abstract!Next
         /\ /\ PlanState[s] = "running"
            /\ \E st \in {"success", "failed"} : PlanState' = [PlanState EXCEPT ![s] = st]
            /\ granted' = granted
            => Abstract!Next
         /\ /\ PlanState[s] = "pending" /\ s \in PlanConsent
            /\ PlanState' = [PlanState EXCEPT ![s] = "skipped"]
            /\ granted' = granted
            => Abstract!Next
<1> USE DEF PlanDeps, PlanConsent, PlanState, PlanOver
<1>1. ASSUME PlanState[s] = "pending", \A d \in PlanDeps[s] : PlanState[d] = "success",
             PlanState' = [PlanState EXCEPT ![s] = "running"],
             s \notin PlanConsent, granted' = granted
      PROVE  Abstract!Next
  <2>1. Abstract!Start(s)
    BY <1>1 DEF Abstract!Start, Abstract!Ready
  <2>2. QED
    BY <2>1 DEF Abstract!Next
<1>2. ASSUME PlanState[s] = "pending", \A d \in PlanDeps[s] : PlanState[d] = "success",
             PlanState' = [PlanState EXCEPT ![s] = "running"],
             s \in PlanConsent, granted' = granted \cup {s}
      PROVE  Abstract!Next
  <2>1. Abstract!Agree(s)
    BY <1>2 DEF Abstract!Agree, Abstract!Ready
  <2>2. QED
    BY <2>1 DEF Abstract!Next
<1>3. ASSUME PlanState[s] = "running", granted' = granted,
             \E st \in {"success", "failed"} : PlanState' = [PlanState EXCEPT ![s] = st]
      PROVE  Abstract!Next
  <2>1. Abstract!End(s)
    BY <1>3 DEF Abstract!End
  <2>2. QED
    BY <2>1 DEF Abstract!Next
<1>4. ASSUME PlanState[s] = "pending", s \in PlanConsent, granted' = granted,
             PlanState' = [PlanState EXCEPT ![s] = "skipped"]
      PROVE  Abstract!Next
  <2>1. Abstract!Refuse(s)
    BY <1>4 DEF Abstract!Refuse
  <2>2. QED
    BY <2>1 DEF Abstract!Next
<1> HIDE DEF PlanDeps, PlanConsent, PlanState, PlanOver
<1>5. QED
  BY <1>1, <1>2, <1>3, <1>4

\* Each step of a subtask's execution starts it, ends it, refuses it, or shows
\* nothing to PlanRun.
LEMMA PlanSubtask ==
  ASSUME IInv, NEW s \in Subtasks, SubtaskStep(s)
  PROVE  Abstract!Next \/ UNCHANGED Abstract!vars
<1> USE DEF IInv
<1>1. TaskOK(s) /\ phase = "batch" /\ s \in ready
  BY SubtaskSource DEF TaskInv, TaskOK
<1>2. results[s] = "none"
  BY <1>1, CurrentBatchType DEF LoopInv
<1>3. /\ plan' = plan /\ phase' = phase /\ results' = results
      /\ granted' \in {granted, granted \cup {s}}
  BY SubtaskFrame
<1>4. PICK q \in PC, x \in Result : pc' = [pc EXCEPT ![s] = q] /\ last' = [last EXCEPT ![s] = x]
  BY SubtaskFrame
<1>5. PlanState' = [PlanState EXCEPT ![s] = StateOf(s)']
  <2>1. \A t \in Subtasks : t # s => StateOf(t)' = StateOf(t)
    BY <1>3, <1>4 DEF StateOf, TypeOK
  <2>2. QED
    BY <2>1 DEF PlanState
<1>6. ~PlanOver /\ ~PlanOver' /\ UNCHANGED <<PlanDeps, PlanConsent>>
  BY <1>1, <1>3 DEF PlanOver, PlanDeps, PlanConsent
<1>7. PlanState[s] = StateOf(s) /\ PlanState \in [Subtasks -> {StateOf(t) : t \in Subtasks}]
  BY DEF PlanState
<1>8. pc[s] # "idle" /\ \A d \in PlanDeps[s] : PlanState[d] = "success"
  <2>1. pc[s] # "idle"
    BY SubtaskSource
  <2>2. \A d \in plan[s].DependsOn : d \in Subtasks /\ results[d] = "success"
    BY <1>1, <2>1 DEF TaskOK, TypeOK, Plan, Subtask
  <2>3. QED
    BY <2>1, <2>2 DEF PlanDeps, PlanState, StateOf
<1>9. s \in PlanConsent <=> plan[s].WaitingApproval
  BY DEF PlanConsent
<1>10. ASSUME StateOf(s)' = StateOf(s), granted' = granted PROVE UNCHANGED Abstract!vars
  <2>1. PlanState' = PlanState
    BY <1>5, <1>7, <1>10
  <2>2. QED
    BY <1>6, <1>10, <2>1, PlanStutter
<1>11. pc' \in [Subtasks -> PC] /\ s \in DOMAIN pc /\ s \in DOMAIN last
  BY <1>4 DEF TypeOK
<1> USE DEF CallHandler, Return
<1>12. CASE BeginSubtask(s)
  <2>1. StateOf(s) = "pending" /\ granted' = granted
    BY <1>2, <1>12 DEF BeginSubtask, StateOf
  <2>2. CASE plan[s].WaitingApproval
    <3>1. StateOf(s)' = "pending"
      BY <1>2, <1>3, <1>11, <1>12, <2>2 DEF BeginSubtask, StateOf
    <3>2. QED
      BY <1>10, <2>1, <3>1
  <2>3. CASE ~plan[s].WaitingApproval
    <3>1. StateOf(s)' = "running"
      BY <1>2, <1>3, <1>11, <1>12, <2>3 DEF BeginSubtask, StateOf
    <3>2. QED
      BY <1>5, <1>6, <1>7, <1>8, <1>9, <2>1, <2>3, <3>1, PlanMove
  <2>4. QED
    BY <2>2, <2>3
<1>13. CASE GrantApproval(s)
  <2>1. StateOf(s) = "pending" /\ granted' = granted \cup {s} /\ plan[s].WaitingApproval
    BY <1>1, <1>2, <1>13 DEF GrantApproval, StateOf, TaskOK
  <2>2. StateOf(s)' = "running"
    BY <1>2, <1>3, <1>11, <1>13 DEF GrantApproval, StateOf
  <2>3. QED
    BY <1>5, <1>6, <1>7, <1>8, <1>9, <2>1, <2>2, PlanMove
<1>14. CASE DenyApproval(s)
  <2>1. StateOf(s) = "pending" /\ granted' = granted /\ plan[s].WaitingApproval
    BY <1>1, <1>2, <1>14 DEF DenyApproval, StateOf, TaskOK
  <2>2. StateOf(s)' = "skipped"
    BY <1>2, <1>3, <1>11, <1>14 DEF DenyApproval, StateOf
  <2>3. QED
    BY <1>5, <1>6, <1>7, <1>9, <2>1, <2>2, PlanMove
<1>15. CASE HandlerStep(s)
  <2>1. PICK answer \in HandlerAnswers : HandlerReturns(s, answer)
    BY <1>15 DEF HandlerStep
  <2> DEFINE st == Outcome(answer, cancelled \/ plan[s].HasTimeout)
  <2>2. st \in {"success", "failed"}
    BY DEF HandlerAnswers, Outcome
  <2>3. StateOf(s) = "running" /\ granted' = granted
    BY <1>2, <2>1 DEF HandlerReturns, StateOf
  <2>4. \/ Return(s, st)
        \/ pc' = [pc EXCEPT ![s] = "backoff"]
        \/ CallHandler(s)
    BY <2>1 DEF HandlerReturns
  <2> HIDE DEF st
  <2>5. StateOf(s)' \in {st, "running"}
    BY <1>2, <1>3, <1>11, <2>4 DEF StateOf
  <2>6. CASE StateOf(s)' = "running"
    BY <1>10, <2>3, <2>6
  <2>7. CASE StateOf(s)' = st
    <3>1. PlanState[s] = "running" /\ PlanState' = [PlanState EXCEPT ![s] = st]
      BY <1>5, <1>7, <2>3, <2>7
    <3>2. QED
      BY <1>6, <2>2, <2>3, <3>1, PlanMove
  <2>8. QED
    BY <2>5, <2>6, <2>7
<1>16. CASE BackoffElapses(s)
  <2>1. StateOf(s) = "running" /\ granted' = granted
    BY <1>2, <1>16 DEF BackoffElapses, StateOf
  <2>2. StateOf(s)' = "running"
    BY <1>2, <1>3, <1>11, <1>16 DEF BackoffElapses, StateOf
  <2>3. QED
    BY <1>10, <2>1, <2>2
<1>17. CASE BackoffCancelled(s)
  <2>1. StateOf(s) = "running" /\ granted' = granted
    BY <1>2, <1>17 DEF BackoffCancelled, StateOf
  <2>2. StateOf(s)' = "failed"
    BY <1>2, <1>3, <1>11, <1>17 DEF BackoffCancelled, StateOf
  <2>3. QED
    BY <1>5, <1>6, <1>7, <2>1, <2>2, PlanMove
<1>18. QED
  BY <1>12, <1>13, <1>14, <1>15, <1>16, <1>17 DEF SubtaskStep

\* Closing the run.
LEMMA PlanClose ==
  ASSUME IInv, Next, phase # "done", phase' = "done", ~StartExecution, phase \in {"loop", "batch"},
         \A s \in Subtasks : pc[s] \notin {"handler", "backoff"}
  PROVE  Abstract!Next
<1> USE DEF IInv
<1>1. /\ UNCHANGED <<plan, pc, last, granted, cancelled>>
      /\ results' \in [Subtasks -> Result]
  BY ClosingStep DEF planVars, taskVars
<1>2. PICK r :
        /\ Accounted(r)
        /\ \A s \in Subtasks :
             IF r[s] # "none" THEN results'[s] = r[s]
             ELSE \/ results'[s] = "cancelled"
                  \/ results'[s] = "skipped" /\ HasFailedDependency(s, r)
  BY ClosingStep
<1>3. ~PlanOver /\ PlanOver' /\ UNCHANGED <<PlanDeps, PlanConsent, granted>>
  BY <1>1 DEF PlanOver, PlanDeps, PlanConsent
<1>4. ASSUME NEW s \in Subtasks PROVE results'[s] \in Final /\ PlanState'[s] = results'[s]
  <2>1. r[s] \in Result
    BY <1>2 DEF Accounted
  <2>2. results'[s] \in Final
    BY <1>2, <2>1 DEF Result, Final
  <2>3. StateOf(s)' = results'[s]
    BY <2>2 DEF StateOf, Final
  <2>4. QED
    BY <2>2, <2>3 DEF PlanState
<1>5. ASSUME NEW s \in Subtasks
      PROVE  /\ PlanState[s] # "running"
             /\ IF PlanState[s] # "pending" THEN PlanState'[s] = PlanState[s]
                ELSE /\ PlanState'[s] \in {"skipped", "cancelled"}
                     /\ PlanState'[s] = "skipped" => \E d \in PlanDeps[s] : PlanState'[d] # "success"
  <2>1. PlanState[s] = StateOf(s) /\ PlanDeps[s] = plan[s].DependsOn
    BY DEF PlanState, PlanDeps
  <2>2. plan[s].DependsOn \subseteq Subtasks
    BY DEF TypeOK, Plan, Subtask
  <2>3. CASE results[s] # "none"
    <3>1. results'[s] = results[s]
      BY <2>3, ResultsKept
    <3>2. PlanState[s] = results[s] /\ results[s] \in Final
      BY <2>1, <2>3 DEF StateOf, TypeOK, Result
    <3>3. QED
      BY <1>4, <3>1, <3>2 DEF Final
  <2>4. CASE results[s] = "none" /\ pc[s] = "returned"
    <3>1. r[s] # "none" /\ r[s] = last[s]
      BY <1>2, <2>4 DEF Accounted
    <3>2. results'[s] = last[s] /\ PlanState[s] = last[s]
      BY <1>2, <2>1, <2>4, <3>1 DEF StateOf
    <3>3. QED
      BY <1>4, <3>2 DEF Final
  <2>5. CASE results[s] = "none" /\ pc[s] # "returned"
    <3>1. PlanState[s] = "pending"
      BY <2>1, <2>5 DEF StateOf
    <3>2. CASE r[s] # "none"
      <4>1. r[s] = "skipped" /\ \E d \in plan[s].DependsOn : r[d] \in {"failed", "skipped"}
        BY <1>2, <2>5, <3>2 DEF Accounted
      <4>2. results'[s] = "skipped"
        BY <1>2, <3>2, <4>1
      <4>3. \E d \in plan[s].DependsOn : d \in Subtasks /\ results'[d] # "success"
        BY <1>2, <2>2, <4>1
      <4>4. QED
        BY <1>4, <2>1, <3>1, <4>2, <4>3
    <3>3. CASE r[s] = "none"
      <4>1. \/ results'[s] = "cancelled"
            \/ results'[s] = "skipped" /\ HasFailedDependency(s, r)
        BY <1>2, <3>3
      <4>2. HasFailedDependency(s, r) => \E d \in plan[s].DependsOn : d \in Subtasks /\ results'[d] # "success"
        BY <1>2, <2>2 DEF HasFailedDependency
      <4>3. QED
        BY <1>4, <2>1, <3>1, <4>1, <4>2
    <3>4. QED
      BY <3>2, <3>3
  <2>6. QED
    BY <2>3, <2>4, <2>5
<1>6. PlanState' \in [Subtasks -> Abstract!State \ {"pending", "running"}]
  <2>1. \A s \in Subtasks : StateOf(s)' \in Final
    BY <1>4 DEF PlanState
  <2>2. Final \subseteq Abstract!State \ {"pending", "running"}
    BY DEF Final, Abstract!State
  <2>3. QED
    BY <2>1, <2>2 DEF PlanState
<1>7. Abstract!Close
  BY <1>3, <1>5, <1>6, Zenon DEF Abstract!Close, PlanDeps, PlanConsent, PlanState, PlanOver
<1>8. QED
  BY <1>7 DEF Abstract!Next

\* Each step of the main goroutine opens a gate, drops what can no longer run,
\* closes the run, or shows nothing to PlanRun.
LEMMA PlanMain ==
  ASSUME IInv, Next, Main
  PROVE  Abstract!Next \/ UNCHANGED Abstract!vars
<1> USE DEF IInv
<1>1. phase \in {"safety", "schedule"} => \A s \in Subtasks : PlanState[s] = "pending"
  BY DEF LoopInv, PlanState, StateOf
<1>2. CASE ApplySafety
  <2>1. /\ plan' = ApplySafetyPolicy(plan, config.ApprovedSubtaskIDs)
        /\ phase = "safety" /\ phase' = "schedule"
        /\ UNCHANGED <<pc, last, granted, results>>
    BY <1>2 DEF ApplySafety, taskVars
  <2>2. plan' \in Plan /\ \A s \in Subtasks : plan'[s].DependsOn = plan[s].DependsOn
    BY <2>1, SafetyPolicyType DEF TypeOK
  <2>3. PlanDeps' = PlanDeps
    BY <2>2 DEF PlanDeps
  <2>4. PlanConsent' \in SUBSET Subtasks
    BY DEF PlanConsent
  <2>5. PlanState' = PlanState
    BY <2>1 DEF PlanState, StateOf
  <2>6. ~PlanOver /\ ~PlanOver'
    BY <2>1 DEF PlanOver
  <2>7. \A s \in Subtasks : PlanState[s] = "pending"
    BY <1>1, <2>1
  <2>8. Abstract!Gate
    BY <2>1, <2>3, <2>4, <2>5, <2>6, <2>7
       DEF Abstract!Gate, Abstract!Untouched, PlanDeps, PlanConsent, PlanState, PlanOver
  <2>9. QED
    BY <2>8 DEF Abstract!Next
<1>3. CASE RejectPlan \/ BuildBatch \/ RejectCycle \/ (StartExecution /\ ~config.DryRun)
  <2>1. UNCHANGED <<plan, pc, last, granted, results>> /\ phase # "done" /\ phase' # "done"
    BY <1>3 DEF RejectPlan, BuildBatch, RejectCycle, StartExecution, planVars, taskVars
  <2>2. QED
    BY <2>1, PlanStutter DEF PlanDeps, PlanConsent, PlanState, StateOf, PlanOver
<1>4. CASE StartExecution /\ config.DryRun
  <2>1. /\ phase = "schedule" /\ phase' = "done"
        /\ results' = [s \in Subtasks |-> "skipped"]
        /\ UNCHANGED <<plan, granted>>
    BY <1>4 DEF StartExecution, planVars, taskVars
  <2>2. PlanState' = [s \in Subtasks |-> "skipped"]
    BY <2>1 DEF PlanState, StateOf
  <2>3. ~PlanOver /\ PlanOver' /\ UNCHANGED <<PlanDeps, PlanConsent>>
    BY <2>1 DEF PlanOver, PlanDeps, PlanConsent
  <2>4. \A s \in Subtasks : PlanState[s] = "pending"
    BY <1>1, <2>1
  <2>5. Abstract!CloseDry
    BY <2>1, <2>2, <2>3, <2>4
       DEF Abstract!CloseDry, Abstract!Untouched, PlanDeps, PlanConsent, PlanState, PlanOver
  <2>6. QED
    BY <2>5 DEF Abstract!Next
<1>5. CASE LeaveLoop
  <2>1. phase = "loop" /\ phase' = "done"
    BY <1>5 DEF LeaveLoop, Finish
  <2>2. \A s \in Subtasks : pc[s] \notin {"handler", "backoff"}
    BY <2>1 DEF TaskInv, TaskOK
  <2>3. QED
    BY <2>1, <2>2, PlanClose DEF StartExecution
<1>6. CASE TakeBatch
  <2> DEFINE T == batches[next].SubtaskIDs \ ready'
  <2>1. /\ next \in 1 .. Len(batches)
        /\ batches[next].SubtaskIDs \subseteq Subtasks
        /\ \A s \in batches[next].SubtaskIDs :
             s \in ready' <=> \A d \in plan[s].DependsOn : results[d] = "success"
        /\ \A s \in Subtasks :
             /\ results'[s] = IF s \in T THEN "skipped" ELSE results[s]
             /\ pc'[s] = IF s \in ready' THEN "queued" ELSE pc[s]
        /\ ready' \subseteq batches[next].SubtaskIDs
        /\ phase = "loop" /\ phase' # "done"
        /\ UNCHANGED <<plan, last, granted>>
    BY <1>6, TakeBatchEffect
  <2>2. \A s \in batches[next].SubtaskIDs : results[s] = "none" /\ pc[s] = "idle"
    BY <2>1 DEF LoopInv
  <2>3. ~PlanOver /\ ~PlanOver' /\ UNCHANGED <<PlanDeps, PlanConsent>>
    BY <2>1 DEF PlanOver, PlanDeps, PlanConsent
  <2>4. \A s \in Subtasks : StateOf(s)' = IF s \in T THEN "skipped" ELSE StateOf(s)
    <3> HIDE DEF T
    <3>1. SUFFICES ASSUME NEW s \in Subtasks
                   PROVE  StateOf(s)' = IF s \in T THEN "skipped" ELSE StateOf(s)
      OBVIOUS
    <3>2. s \in ready' => StateOf(s) = "pending" /\ results[s] = "none" /\ s \notin T
      BY <2>1, <2>2 DEF StateOf, T
    <3>3. CASE s \in T
      BY <2>1, <3>3 DEF StateOf
    <3>4. CASE s \in ready'
      BY <2>1, <3>2, <3>4 DEF StateOf
    <3>5. CASE s \notin T /\ s \notin ready'
      BY <2>1, <3>5 DEF StateOf
    <3>6. QED
      BY <3>3, <3>4, <3>5
  <2>5. PlanState' = [s \in Subtasks |-> IF s \in T THEN "skipped" ELSE PlanState[s]]
    BY <2>4 DEF PlanState
  <2>6. ASSUME NEW s \in T
        PROVE  PlanState[s] = "pending" /\ \E d \in PlanDeps[s] : PlanState[d] \in {"failed", "skipped"}
    <3>1. s \in Subtasks /\ results[s] = "none" /\ pc[s] = "idle"
      BY <2>1, <2>2
    <3>2. PICK d \in plan[s].DependsOn : results[d] # "success"
      BY <2>1
    <3>3. d \in Subtasks
      BY <3>1 DEF TypeOK, Plan, Subtask
    <3>4. results[d] # "none"
      <4>1. PICK j \in 1 .. next - 1 : d \in batches[j].SubtaskIDs
        BY <2>1, <3>2 DEF ScheduleInv
      <4>2. Len(batches) \in Nat /\ j \in 1 .. Len(batches) /\ j < next
        BY <2>1, <4>1, LenProperties DEF TypeOK
      <4>3. QED
        BY <2>1, <4>1, <4>2 DEF LoopInv
    <3>5. results[d] \in {"failed", "skipped"}
      <4>1. \/ pc[d] = "returned" /\ results[d] = last[d]
            \/ results[d] = "skipped"
        BY <2>1, <3>3, <3>4 DEF TaskInv, TaskOK
      <4>2. CASE pc[d] = "returned" /\ results[d] = last[d]
        <5>1. last[d] \in {"success", "failed", "skipped"}
          BY <3>3, <4>2 DEF TaskInv, TaskOK, TypeOK
        <5>2. QED
          BY <3>2, <4>2, <5>1
      <4>3. QED
        BY <4>1, <4>2
    <3>6. StateOf(s) = "pending" /\ StateOf(d) = results[d]
      BY <3>1, <3>4 DEF StateOf
    <3>7. QED
      BY <3>1, <3>2, <3>3, <3>5, <3>6 DEF PlanState, PlanDeps
  <2>7. T \in SUBSET Subtasks
    BY <2>1
  <2>8. granted' = granted
    BY <2>1
  <2> HIDE DEF T
  <2>9. Abstract!Drop(T)
    BY <2>3, <2>5, <2>6, <2>8 DEF Abstract!Drop, PlanDeps, PlanConsent, PlanState, PlanOver
  <2>10. QED
    BY <2>7, <2>9 DEF Abstract!Next
<1>7. CASE EndBatch
  <2>1. /\ phase = "batch" /\ \A s \in ready : pc[s] = "returned"
        /\ UNCHANGED <<plan, pc, last, granted>>
        /\ \/ /\ phase' = "loop"
              /\ \A s \in Subtasks : results'[s] = IF s \in ready THEN last[s] ELSE results[s]
           \/ phase' = "done"
    BY <1>7, EndBatchEffect
  <2>2. CASE phase' = "done"
    <3>1. \A s \in Subtasks : pc[s] \notin {"handler", "backoff"}
      BY <2>1 DEF TaskInv, TaskOK
    <3>2. QED
      BY <2>1, <2>2, <3>1, PlanClose DEF StartExecution
  <2>3. CASE phase' # "done"
    <3>1. \A s \in ready : results[s] = "none"
      BY <2>1, CurrentBatchType DEF LoopInv
    <3>2. \A s \in Subtasks : StateOf(s)' = StateOf(s)
      BY <2>1, <2>3, <3>1 DEF StateOf
    <3>3. QED
      BY <2>1, <2>3, <3>2, PlanStutter DEF PlanState, PlanDeps, PlanConsent, PlanOver
  <2>4. QED
    BY <2>2, <2>3
<1>8. QED
  BY <1>2, <1>3, <1>4, <1>5, <1>6, <1>7 DEF Main, ScheduleWave

LEMMA PlanStep == ASSUME IInv, [Next]_vars PROVE [Abstract!Next]_(Abstract!vars)
<1>1. CASE Main
  <2>1. Next
    BY <1>1 DEF Next
  <2>2. QED
    BY <1>1, <2>1, PlanMain
<1>2. CASE \E s \in Subtasks : SubtaskStep(s)
  BY <1>2, PlanSubtask
<1>3. CASE Cancel \/ Terminated \/ UNCHANGED vars
  <2>1. UNCHANGED <<plan, phase, pc, last, granted, results>>
    BY <1>3 DEF Cancel, Terminated, vars, loopVars, planVars, taskVars
  <2>2. QED
    BY <2>1, PlanStutter DEF PlanState, StateOf, PlanDeps, PlanConsent, PlanOver
<1>4. QED
  BY <1>1, <1>2, <1>3 DEF Next

\* Every run of the executor, with its batches, goroutines, retries and modes, is
\* a run PlanRun allows.
THEOREM RunsImplementPlanRun == Spec => ImplementsPlanRun
<1>1. Init => Abstract!Init
  BY PlanInit
<1>2. IInv /\ [Next]_vars => [Abstract!Next]_(Abstract!vars)
  BY PlanStep
<1>3. QED
  BY <1>1, <1>2, InvariantHolds, PTL DEF Spec, Abstract!Spec, ImplementsPlanRun

-----------------------------------------------------------------------------
(***************************************************************************)
(* What RunEnds rests on, apart from fairness: while Execute has not       *)
(* returned something other than a cancellation can be done, no execution  *)
(* is repeated without bound, and every step leads on.                     *)
(***************************************************************************)
\* The guards of the main goroutine's actions, and of those of one subtask's.
MainCanStep ==
  \/ phase \in {"safety", "schedule", "loop"}
  \/ phase = "batch" /\ \A s \in ready : pc[s] = "returned"

SubtaskCanStep(s) ==
  \/ phase = "batch" /\ s \in ready /\ pc[s] = "queued" /\ HasSlot(s)
  \/ pc[s] \in {"approval", "handler", "backoff"}

SomeoneCanStep == MainCanStep \/ \E s \in Subtasks : SubtaskCanStep(s)

\* A retry is counted: the handler is called once, or as often as the policy says.
AttemptsInv ==
  \A s \in Subtasks :
    /\ attempt[s] <= 1 \/ attempt[s] <= plan[s].MaxAttempts
    /\ pc[s] = "backoff" => attempt[s] < plan[s].MaxAttempts

\* How far the main goroutine is, and the execution of one subtask.
PhaseRank ==
  [p \in Phase |-> IF p = "safety" THEN 0 ELSE IF p = "schedule" THEN 1
                   ELSE IF p \in {"loop", "batch"} THEN 2 ELSE 3]

PositionRank ==
  [q \in PC |-> IF q \in {"idle", "handler"} THEN 0 ELSE IF q \in {"queued", "backoff"} THEN 1
                ELSE IF q = "approval" THEN 2 ELSE 3]

TaskRank(s) == 4 * attempt[s] + PositionRank[pc[s]]

MainAdvances ==
  \/ PhaseRank[phase'] > PhaseRank[phase]
  \/ phase = "schedule" /\ phase' = "schedule" /\ Scheduled \subseteq Scheduled' /\ Scheduled # Scheduled'
  \/ phase \in {"loop", "batch"} /\ phase' = "loop" /\ next' = next + 1
  \/ phase = "loop" /\ phase' = "batch" /\ next' = next

TaskAdvances ==
  /\ UNCHANGED <<phase, next, batches, cancelled>>
  /\ \E s \in Subtasks : /\ TaskRank(s) < TaskRank(s)'
                         /\ \A t \in Subtasks \ {s} : TaskRank(t) = TaskRank(t)'

EveryStepAdvances == [][MainAdvances \/ TaskAdvances \/ Cancel]_vars

\* A run is never stuck: as long as Execute has not returned, some goroutine can go
\* on, whatever the semaphore, the order of the serial loop and the failures.
THEOREM NeverStuck == Spec => [](phase \notin {"done", "rejected"} => SomeoneCanStep)
<1>1. ASSUME IInv, phase \notin {"done", "rejected"}, ~MainCanStep
      PROVE  \E s \in Subtasks : SubtaskCanStep(s)
  <2>1. phase = "batch"
    BY <1>1 DEF IInv, TypeOK, Phase, MainCanStep
  <2>2. PICK s \in ready : pc[s] # "returned"
    BY <1>1, <2>1 DEF MainCanStep
  <2>3. CurrentBatch \in Batch /\ next \in 1 .. Len(batches) /\ ready \subseteq CurrentBatch.SubtaskIDs
    BY <1>1, <2>1, CurrentBatchType DEF IInv, LoopInv, CurrentBatch
  <2>4. ready \subseteq Subtasks
    BY <1>1 DEF IInv, TypeOK
  <2>5. \A t \in ready : pc[t] \in PC /\ pc[t] # "idle"
    BY <1>1, <2>1, <2>3, <2>4 DEF IInv, LoopInv, TypeOK, CurrentBatch
  <2>6. CASE \E t \in ready : Active(t)
    BY <2>4, <2>6 DEF Active, SubtaskCanStep
  <2>7. CASE ~\E t \in ready : Active(t)
    <3> DEFINE waiting == {t \in ready : pc[t] = "queued"}
               active == {t \in ready : Active(t)}
    <3>1. s \in waiting
      BY <2>2, <2>5, <2>7 DEF Active, PC
    <3>2. waiting \in SUBSET Nat /\ waiting # {}
      BY <2>4, <3>1, SubtasksAssumption
    <3>3. PICK t \in waiting : \A u \in waiting : t <= u
      BY <3>2, LeastNatural
    <3>4. active = {}
      BY <2>7
    <3>5. HasSlot(t)
      <4>1. CASE RunsSerially(CurrentBatch)
        BY <3>3, <3>4, <4>1 DEF HasSlot
      <4>2. CASE ~RunsSerially(CurrentBatch)
        <5>1. CurrentBatch.MaxConcurrency \in Nat /\ config.MaxConcurrency \in Nat
          BY <1>1, <2>3, ConfigsAssumption DEF Batch, IInv, TypeOK, Config
        <5>2. AtMost(CurrentBatch.MaxConcurrency, config.MaxConcurrency) > 0
          BY <4>2, <5>1 DEF RunsSerially, AtMost
        <5>3. Cardinality(active) = 0
          BY <3>4, FS_EmptySet
        <5>4. QED
          BY <4>2, <5>2, <5>3 DEF HasSlot
      <4>3. QED
        BY <4>1, <4>2
    <3>6. QED
      BY <2>1, <2>4, <3>3, <3>5 DEF SubtaskCanStep
  <2>8. QED
    BY <2>6, <2>7
<1>2. IInv => (phase \notin {"done", "rejected"} => SomeoneCanStep)
  BY <1>1 DEF SomeoneCanStep
<1>3. QED
  BY InvariantHolds, <1>2, PTL

\* How the step of a subtask moves its own execution.
LEMMA SubtaskAdvance ==
  ASSUME IInv, AttemptsInv, NEW s \in Subtasks, SubtaskStep(s)
  PROVE  /\ UNCHANGED <<plan, batches, phase, next, cancelled>>
         /\ \A t \in Subtasks \ {s} : pc'[t] = pc[t] /\ attempt'[t] = attempt[t]
         /\ \/ pc[s] = "queued" /\ pc'[s] = "approval" /\ attempt'[s] = attempt[s]
            \/ pc[s] \in {"queued", "approval"} /\ pc'[s] = "handler" /\ attempt'[s] = 1 /\ attempt[s] = 0
            \/ /\ pc[s] \in {"handler", "backoff"} /\ pc'[s] = "handler"
               /\ attempt'[s] = attempt[s] + 1 /\ attempt[s] < plan[s].MaxAttempts
            \/ /\ pc[s] = "handler" /\ pc'[s] = "backoff"
               /\ attempt'[s] = attempt[s] /\ attempt[s] < plan[s].MaxAttempts
            \/ pc[s] # "returned" /\ pc'[s] = "returned" /\ attempt'[s] = attempt[s]
<1>0. TypeOK /\ TaskOK(s) /\ pc \in [Subtasks -> PC] /\ attempt \in [Subtasks -> Nat]
      /\ plan[s].MaxAttempts \in Nat
  BY DEF IInv, TaskInv, TypeOK, Plan, Subtask
<1>1. UNCHANGED <<plan, batches, phase, next, cancelled>>
  BY <1>0, SubtaskFrame
<1>2. \A t \in Subtasks \ {s} : pc'[t] = pc[t] /\ attempt'[t] = attempt[t]
  <2>1. \E q \in PC : pc' = [pc EXCEPT ![s] = q]
    BY <1>0, SubtaskFrame
  <2>2. attempt' \in {attempt, [attempt EXCEPT ![s] = @ + 1]}
    BY <1>0, SubtaskFrame
  <2>3. QED
    BY <1>0, <2>1, <2>2
<1> USE DEF CallHandler, Return
<1>3. CASE BeginSubtask(s)
  BY <1>0, <1>1, <1>2, <1>3 DEF BeginSubtask, TaskOK
<1>4. CASE GrantApproval(s)
  BY <1>0, <1>1, <1>2, <1>4 DEF GrantApproval, TaskOK
<1>5. CASE DenyApproval(s)
  BY <1>0, <1>1, <1>2, <1>5 DEF DenyApproval
<1>6. CASE HandlerStep(s)
  <2>1. PICK answer \in HandlerAnswers : HandlerReturns(s, answer)
    BY <1>6 DEF HandlerStep
  <2> DEFINE st == Outcome(answer, cancelled \/ plan[s].HasTimeout)
  <2>2. /\ pc[s] = "handler"
        /\ \/ Return(s, st) /\ attempt' = attempt
           \/ /\ ~(attempt[s] >= plan[s].MaxAttempts)
              /\ \/ pc' = [pc EXCEPT ![s] = "backoff"] /\ attempt' = attempt
                 \/ CallHandler(s)
    BY <2>1 DEF HandlerReturns
  <2> HIDE DEF st
  <2>3. QED
    BY <1>0, <1>1, <1>2, <2>2
<1>7. CASE BackoffElapses(s)
  BY <1>0, <1>1, <1>2, <1>7 DEF BackoffElapses, AttemptsInv
<1>8. CASE BackoffCancelled(s)
  BY <1>0, <1>1, <1>2, <1>8 DEF BackoffCancelled
<1>9. QED
  BY <1>3, <1>4, <1>5, <1>6, <1>7, <1>8 DEF SubtaskStep

LEMMA AttemptsStep == ASSUME IInv, AttemptsInv, [Next]_vars PROVE AttemptsInv'
<1>0. /\ attempt \in [Subtasks -> Nat] /\ pc \in [Subtasks -> PC]
      /\ \A s \in Subtasks : plan[s].MaxAttempts \in Nat
  BY DEF IInv, TypeOK, Plan, Subtask
<1>1. ASSUME NEW s \in Subtasks, SubtaskStep(s)
      PROVE  AttemptsInv'
  <2> SUFFICES ASSUME NEW t \in Subtasks
               PROVE  /\ attempt'[t] <= 1 \/ attempt'[t] <= plan'[t].MaxAttempts
                      /\ pc'[t] = "backoff" => attempt'[t] < plan'[t].MaxAttempts
    BY DEF AttemptsInv
  <2>1. CASE t = s
    BY <1>0, <1>1, <2>1, SubtaskAdvance DEF AttemptsInv
  <2>2. CASE t # s
    BY <1>0, <1>1, <2>2, SubtaskAdvance DEF AttemptsInv
  <2>3. QED
    BY <2>1, <2>2
<1>2. CASE ApplySafety
  <2>1. \A s \in Subtasks : attempt[s] = 0 /\ pc[s] = "idle"
    BY <1>2 DEF ApplySafety, IInv, LoopInv, TaskInv, TaskOK
  <2>2. QED
    BY <1>2, <2>1 DEF ApplySafety, AttemptsInv, taskVars
<1>3. CASE TakeBatch
  <2>1. /\ UNCHANGED <<plan, attempt>>
        /\ \A s \in Subtasks : pc'[s] = IF s \in ready' THEN "queued" ELSE pc[s]
    BY <1>3, TakeBatchEffect DEF IInv
  <2>2. QED
    BY <2>1 DEF AttemptsInv
<1>4. CASE \/ RejectPlan \/ ScheduleWave \/ StartExecution \/ LeaveLoop \/ EndBatch
           \/ Cancel \/ Terminated \/ UNCHANGED vars
  <2>1. UNCHANGED <<plan, pc, attempt>>
    BY <1>4 DEF RejectPlan, ScheduleWave, RejectCycle, BuildBatch, StartExecution, LeaveLoop, EndBatch,
                Cancel, Terminated, vars, planVars, taskVars, loopVars
  <2>2. QED
    BY <2>1 DEF AttemptsInv
<1>5. QED
  BY <1>1, <1>2, <1>3, <1>4 DEF Next, Main

\* A handler is called once, or as often as its retry policy says.
THEOREM AttemptsBounded == Spec => []AttemptsInv
<1>1. Init => AttemptsInv
  BY DEF Init, AttemptsInv
<1>2. QED
  BY <1>1, AttemptsStep, InvariantHolds, PTL DEF Spec

LEMMA MainStepAdvances == ASSUME IInv, Main PROVE MainAdvances
<1>0. /\ next \in Nat /\ phase \in Phase
      /\ \A p \in {"safety", "schedule", "loop", "batch", "done", "rejected"} : p \in Phase
  BY DEF IInv, TypeOK, Phase
<1>1. CASE RejectPlan \/ ApplySafety
  BY <1>0, <1>1 DEF RejectPlan, ApplySafety, MainAdvances, PhaseRank
<1>2. CASE RejectCycle
  BY <1>0, <1>2 DEF RejectCycle, MainAdvances, PhaseRank
<1>3. CASE BuildBatch /\ NextWave(plan, Scheduled) # {}
  <2> DEFINE wave == NextWave(plan, Scheduled)
             b == BatchFromWave(plan, wave, config.MaxConcurrency)
             added == IF config.ParallelEnabled THEN b
                      ELSE [b EXCEPT !.Mode = "serial", !.MaxConcurrency = 1]
  <2>1. phase = "schedule" /\ phase' = "schedule" /\ batches' = Append(batches, added)
    BY <1>3 DEF BuildBatch
  <2>2. added.SubtaskIDs = wave
    BY DEF BatchFromWave
  <2>3. wave \subseteq Subtasks \ Scheduled /\ wave # {}
    BY <1>3 DEF NextWave
  <2>4. Scheduled' = Scheduled \cup wave
    <3>1. batches \in Seq(Batch) /\ Len(batches) \in Nat /\ DOMAIN batches = 1 .. Len(batches)
      BY LenProperties DEF IInv, TypeOK
    <3>2. added \in Batch
      <4>1. wave \in SUBSET Subtasks /\ config.MaxConcurrency \in Nat
        BY ConfigsAssumption DEF NextWave, IInv, TypeOK, Config
      <4>2. b \in Batch
        BY <4>1, BatchType DEF IInv, TypeOK
      <4> HIDE DEF b
      <4>3. QED
        BY <4>2 DEF Batch, Mode
    <3> HIDE DEF added, wave
    <3>3. /\ DOMAIN batches' = 1 .. Len(batches) + 1 /\ batches'[Len(batches) + 1] = added
          /\ \A i \in 1 .. Len(batches) : batches'[i] = batches[i]
      BY <2>1, <3>1, <3>2, AppendProperties, LenProperties
    <3>4. QED
      BY <2>2, <3>1, <3>3 DEF Scheduled
  <2>5. QED
    BY <2>1, <2>3, <2>4 DEF MainAdvances
<1>4. CASE StartExecution
  BY <1>0, <1>4 DEF StartExecution, MainAdvances, PhaseRank
<1>5. CASE LeaveLoop
  BY <1>0, <1>5 DEF LeaveLoop, Finish, MainAdvances, PhaseRank
<1>6. CASE TakeBatch
  BY <1>6, TakeBatchEffect DEF IInv, MainAdvances
<1>7. CASE EndBatch
  <2>1. phase = "batch" /\ ((phase' = "loop" /\ next' = next + 1) \/ phase' = "done")
    BY <1>7, EndBatchEffect DEF IInv
  <2>2. QED
    BY <1>0, <2>1 DEF MainAdvances, PhaseRank
<1>8. QED
  BY <1>1, <1>2, <1>3, <1>4, <1>5, <1>6, <1>7 DEF Main, ScheduleWave

\* Every step but a cancellation leads on: the main goroutine to a later phase,
\* wave or batch, or one execution to its next position or attempt.  Phases, waves,
\* batches and attempts are bounded, so that only finitely many steps are left.
THEOREM RunAdvances == Spec => EveryStepAdvances
<1>1. ASSUME IInv, AttemptsInv, NEW s \in Subtasks, SubtaskStep(s)
      PROVE  TaskAdvances
  <2>0. /\ attempt \in [Subtasks -> Nat] /\ pc \in [Subtasks -> PC]
        /\ attempt' \in [Subtasks -> Nat] /\ pc' \in [Subtasks -> PC]
    BY <1>1, SubtaskType DEF IInv, TypeOK
  <2>1. /\ UNCHANGED <<phase, next, batches, cancelled>>
        /\ \A t \in Subtasks \ {s} : pc'[t] = pc[t] /\ attempt'[t] = attempt[t]
    BY <1>1, SubtaskAdvance
  <2>2. TaskRank(s) < TaskRank(s)'
    <3>1. \/ pc[s] = "queued" /\ pc'[s] = "approval" /\ attempt'[s] = attempt[s]
          \/ pc[s] \in {"queued", "approval"} /\ pc'[s] = "handler" /\ attempt'[s] = attempt[s] + 1
          \/ pc[s] \in {"handler", "backoff"} /\ pc'[s] = "handler" /\ attempt'[s] = attempt[s] + 1
          \/ pc[s] = "handler" /\ pc'[s] = "backoff" /\ attempt'[s] = attempt[s]
          \/ pc[s] # "returned" /\ pc'[s] = "returned" /\ attempt'[s] = attempt[s]
      BY <1>1, <2>0, SubtaskAdvance
    <3>2. attempt[s] \in Nat /\ attempt'[s] \in Nat /\ pc[s] \in PC /\ pc'[s] \in PC
      BY <2>0
    <3>3. /\ PositionRank["handler"] = 0 /\ PositionRank["queued"] = 1 /\ PositionRank["backoff"] = 1
          /\ PositionRank["approval"] = 2 /\ PositionRank["returned"] = 3
          /\ \A q \in PC : q # "returned" => PositionRank[q] \in 0 .. 2
      BY DEF PositionRank, PC
    <3>4. QED
      BY <3>1, <3>2, <3>3 DEF TaskRank
  <2>3. \A t \in Subtasks \ {s} : TaskRank(t) = TaskRank(t)'
    BY <2>1 DEF TaskRank
  <2>4. QED
    BY <2>1, <2>2, <2>3 DEF TaskAdvances
<1>2. IInv /\ AttemptsInv /\ [Next]_vars => [MainAdvances \/ TaskAdvances \/ Cancel]_vars
  BY <1>1, MainStepAdvances DEF Next, Terminated
<1>3. QED
  BY <1>2, InvariantHolds, AttemptsBounded, PTL DEF Spec, EveryStepAdvances
=============================================================================
