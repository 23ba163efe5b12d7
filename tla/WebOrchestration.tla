--------------------------- MODULE WebOrchestration ---------------------------
(***************************************************************************)
(* Orchestration runs started from the web UI, and the one store they all  *)
(* report to: runWorkflowWithLiveStatus drives a run through the subtask   *)
(* engine, or through the blueprint engine when the first one cannot plan, *)
(* and every callback rewrites a part of the store's snapshot, which is    *)
(* all that the UI shows.  The approval gate is ApprovalBroker's, with one *)
(* waiter per gated subtask of a run.                                      *)
(*                                                                         *)
(* What happens inside an engine is reduced to the order of its callbacks: *)
(* OrchestrationExecutor models the subtask engine, which calls them.      *)
(***************************************************************************)
EXTENDS ApprovalBroker

CONSTANTS
  Runs,      \* the requests that start a run
  Gated,     \* the IDs behind the approval gate
  NoRun

ASSUME WebAssumption ==
  /\ Gated \subseteq Ids
  /\ Waiters = Runs \X Gated
  /\ \A w \in Waiters : IdOf[w] = w[2]

VARIABLES
  overlap,   \* whether a second request arrives while a run is in progress
  rpc,       \* where each run is
  did,       \* what has become of each subtask, or role, of each run
  snapshot   \* OrchestrationStatusStore.snapshot

webVars == <<overlap, rpc, did, snapshot>>
vars == <<brokerVars, webVars>>

Settled == {"success", "failed", "skipped", "cancelled"}
Shown   == {"none", "pending", "waiting_approval", "running", "success", "failed"}

Idle(r) == rpc[r] \in {"idle", "done"}

\* The subtask engine and the blueprint engine name different things.
Kind(r) == IF rpc[r] = "blueprint" THEN "roles" ELSE "subtasks"

Init ==
  /\ BrokerInit
  /\ overlap \in BOOLEAN
  /\ rpc = [r \in Runs |-> "idle"]
  /\ did = [r \in Runs |-> [i \in Ids |-> "pending"]]
  /\ snapshot = [run |-> NoRun, kind |-> "none", status |-> "pending",
                 tasks |-> [i \in Ids |-> "none"]]

-----------------------------------------------------------------------------
(***************************************************************************)
(* The operations of the store.                                            *)
(***************************************************************************)
StartPlanningSnapshot(r) ==
  snapshot' = [run |-> r, kind |-> "planning", status |-> "running",
               tasks |-> [i \in Ids |-> "none"]]

StartSnapshot(r, kind, tasks) ==
  snapshot' = [run |-> r, kind |-> kind, status |-> "running", tasks |-> tasks]

\* Mutant: a success is not shown over a status the UI already has.
UpdateFirst(kind, i, st) ==
  snapshot' = IF snapshot.kind = kind /\ snapshot.tasks[i] \in {"none", "pending"}
                THEN [snapshot EXCEPT !.tasks[i] = st]
                ELSE snapshot

\* UpdateResult does not know which run a result belongs to; a result for an
\* ID that is not shown changes nothing that is.
UpdateResult(kind, i, st) ==
  snapshot' = IF snapshot.kind = kind THEN [snapshot EXCEPT !.tasks[i] = st] ELSE snapshot

MarkAll(st) ==
  snapshot' = [snapshot EXCEPT !.tasks = [i \in Ids |->
                 IF @[i] \in {"none", "success", "failed"} THEN @[i] ELSE st]]

Complete(st) == snapshot' = [snapshot EXCEPT !.status = st]

GoTo(r, where) == rpc' = [rpc EXCEPT ![r] = where]

Becomes(r, i, st) == did' = [did EXCEPT ![r][i] = st]

-----------------------------------------------------------------------------
(***************************************************************************)
(* One run.                                                                *)
(***************************************************************************)
StartPlanning(r) ==
  /\ rpc[r] = "idle"
  /\ overlap \/ \A q \in Runs : Idle(q)
  /\ GoTo(r, "planning")
  /\ StartPlanningSnapshot(r)
  /\ UNCHANGED <<brokerVars, overlap, did>>

\* OnPlanReady.
PlanReady(r) ==
  /\ rpc[r] = "planning"
  /\ GoTo(r, "engine")
  /\ StartSnapshot(r, "subtasks",
       [i \in Ids |-> IF i \in Gated THEN "waiting_approval" ELSE "pending"])
  /\ UNCHANGED <<brokerVars, overlap, did>>

\* RunOrchestration fails before the plan is ready: the blueprint engine is next.
FallBack(r) ==
  /\ rpc[r] = "planning"
  /\ GoTo(r, "fallback")
  /\ UNCHANGED <<brokerVars, overlap, did, snapshot>>

\* ApprovalFunc shows the gated subtask, then calls WaitApproval.
AskApproval(r, i) ==
  /\ rpc[r] = "engine"
  /\ i \in Gated /\ did[r][i] = "pending"
  /\ Becomes(r, i, "asking")
  /\ UpdateResult("subtasks", i, "waiting_approval")
  /\ UNCHANGED <<brokerVars, overlap, rpc>>

WaitApproval(r, i) ==
  /\ did[r][i] = "asking"
  /\ Register(<<r, i>>)
  /\ UNCHANGED webVars

\* Mutant: the gate opens whenever WaitApproval has returned.
StartsWhenAnswered(r, i) ==
  /\ IF i \in Gated THEN did[r][i] = "asking" /\ wpc[<<r, i>>] = "returned"
                    ELSE did[r][i] = "pending"

\* The gate of executeOne lets a subtask pass.
GateOpen(r, i) ==
  /\ IF i \in Gated
       THEN did[r][i] = "asking" /\ wpc[<<r, i>>] = "returned" /\ answer[<<r, i>>] = "yes"
       ELSE did[r][i] = "pending"

\* OnSubtaskStart.
SubtaskStarts(r, i) ==
  /\ rpc[r] = "engine"
  /\ GateOpen(r, i)
  /\ Becomes(r, i, "running")
  /\ UpdateResult("subtasks", i, "running")
  /\ UNCHANGED <<brokerVars, overlap, rpc>>

\* OnRepairAttempt.
RepairAttempt(r, i) ==
  /\ rpc[r] \in {"engine", "blueprint"}
  /\ did[r][i] = "running"
  /\ UpdateResult(Kind(r), i, "running")
  /\ UNCHANGED <<brokerVars, overlap, rpc, did>>

\* OnSubtaskResult; the wrapped handler calls it after every call of the handler.
SubtaskResult(r, i, st) ==
  /\ rpc[r] = "engine"
  /\ did[r][i] = "running"
  /\ Becomes(r, i, st)
  /\ UpdateResult("subtasks", i, st)
  /\ UNCHANGED <<brokerVars, overlap, rpc>>

\* A subtask is denied, skipped for its dependency, or never reached: the
\* executor has no callback for that.
NotExecuted(r, i) ==
  /\ rpc[r] = "engine"
  /\ \/ did[r][i] = "pending" /\ (Becomes(r, i, "skipped") \/ Becomes(r, i, "cancelled"))
     \/ did[r][i] = "asking" /\ wpc[<<r, i>>] = "returned" /\ answer[<<r, i>>] = "no"
          /\ Becomes(r, i, "skipped")
  /\ UNCHANGED <<brokerVars, overlap, rpc, snapshot>>

\* Execute has returned.  A failed subtask fails the run, which is recorded
\* before runOrchestrationEngine returns.
EngineReturns(r) ==
  /\ rpc[r] = "engine"
  /\ \A i \in Ids : did[r][i] \in Settled
  /\ GoTo(r, "closing")
  /\ IF \E i \in Ids : did[r][i] = "failed" THEN Complete("failed") ELSE UNCHANGED snapshot
  /\ UNCHANGED <<brokerVars, overlap, did>>

\* OnBlueprintReady.
BlueprintReady(r) ==
  /\ rpc[r] = "fallback"
  /\ GoTo(r, "blueprint")
  /\ StartSnapshot(r, "roles", [i \in Ids |-> "pending"])
  /\ UNCHANGED <<brokerVars, overlap, did>>

\* OnRoleStart.
RoleStarts(r, i) ==
  /\ rpc[r] = "blueprint"
  /\ did[r][i] = "pending"
  /\ Becomes(r, i, "running")
  /\ UpdateResult("roles", i, "running")
  /\ UNCHANGED <<brokerVars, overlap, rpc>>

\* OnTaskComplete, for one of the role's tasks; after a failed one there is no other.
RoleTaskCompletes(r, i, st) ==
  /\ rpc[r] = "blueprint"
  /\ did[r][i] \in {"running", "success"}
  /\ Becomes(r, i, st)
  /\ UpdateResult("roles", i, st)
  /\ UNCHANGED <<brokerVars, overlap, rpc>>

\* The blueprint engine returns an error, before or after the roles were known.
BlueprintFails(r) ==
  /\ \/ rpc[r] = "fallback"
     \/ rpc[r] = "blueprint" /\ \E i \in Ids : did[r][i] = "failed"
  /\ GoTo(r, "done")
  /\ Complete("failed")
  /\ UNCHANGED <<brokerVars, overlap, did>>

\* Every role ran and none failed; one without tasks is still shown as running.
BlueprintReturns(r) ==
  /\ rpc[r] = "blueprint"
  /\ \A i \in Ids : did[r][i] \in {"running", "success"}
  /\ did' = [did EXCEPT ![r] = [i \in Ids |-> "success"]]
  /\ GoTo(r, "closing")
  /\ MarkAll("success")
  /\ UNCHANGED <<brokerVars, overlap>>

\* The last Complete of the run, whichever engine ran it.
Close(r) ==
  /\ rpc[r] = "closing"
  /\ GoTo(r, "done")
  /\ Complete("success")
  /\ UNCHANGED <<brokerVars, overlap, did>>

-----------------------------------------------------------------------------
EngineStep(r) ==
  \/ StartPlanning(r) \/ PlanReady(r) \/ FallBack(r)
  \/ EngineReturns(r) \/ BlueprintReady(r) \/ BlueprintFails(r) \/ BlueprintReturns(r)
  \/ Close(r)
  \/ \E i \in Ids :
       \/ AskApproval(r, i) \/ SubtaskStarts(r, i) \/ NotExecuted(r, i)
       \/ RoleStarts(r, i)
       \/ \E st \in {"success", "failed"} : SubtaskResult(r, i, st) \/ RoleTaskCompletes(r, i, st)

GateStep(r, i) ==
  \/ WaitApproval(r, i)
  \/ /\ ReceiveDecision(<<r, i>>) \/ GiveUp(<<r, i>>) \/ Unregister(<<r, i>>)
     /\ UNCHANGED webVars

Decide(d) == DeciderStep(d) /\ UNCHANGED webVars

Terminated == (\A r \in Runs : rpc[r] = "done") /\ UNCHANGED vars

Next ==
  \/ \E r \in Runs : EngineStep(r)
  \/ \E r \in Runs, i \in Ids : RepairAttempt(r, i)
  \/ \E r \in Runs, i \in Gated : GateStep(r, i)
  \/ \E d \in Deciders : Decide(d)
  \/ Terminated

Spec == Init /\ [][Next]_vars

-----------------------------------------------------------------------------
\* The types of the web server's variables; the broker's are BrokerTypeOK.
TypeOK ==
  /\ BrokerTypeOK
  /\ overlap \in BOOLEAN
  /\ rpc \in [Runs -> {"idle", "planning", "engine", "fallback", "blueprint", "closing", "done"}]
  /\ did \in [Runs -> [Ids -> Settled \cup {"pending", "asking", "running"}]]
  /\ snapshot \in [run : Runs \cup {NoRun}, kind : {"none", "planning", "subtasks", "roles"},
                   status : {"pending", "running", "success", "failed"}, tasks : [Ids -> Shown]]

\* A gated subtask of the subtask engine is executed only if the user said yes to the call
\* of WaitApproval made for it, also when runs with the same subtask IDs share
\* the store.
GatedRunsWithConsent ==
  \A r \in Runs, i \in Gated :
    rpc[r] = "engine" /\ did[r][i] \in {"running", "success", "failed"} =>
      \E d \in accepted : found[d] = <<r, i>> /\ said[d] = "yes"

\* Whatever runs overlap and answers cross, consent is given by the user, to the
\* very call that asked for it, before the subtask is executed.
ConsentInv == TypeOK /\ ApprovedOnlyByUser /\ GatedRunsWithConsent

\* As long as runs do not overlap, what the UI shows as succeeded or failed is
\* what became of it in the run that is shown.
ShownIsTrue ==
  ~overlap /\ snapshot.run # NoRun =>
    \A i \in Ids : snapshot.tasks[i] \in {"success", "failed", "running"} =>
      snapshot.tasks[i] = did[snapshot.run][i]

\* As long as runs do not overlap, a call of WaitApproval that still waits for
\* an answer can be answered: its subtask is shown as waiting, and its channel
\* is in the map or in the hands of a call of Decide.
WaitingIsAnswerable ==
  ~overlap =>
    \A r \in Runs, i \in Gated :
      wpc[<<r, i>>] = "blocked" =>
        /\ snapshot.run = r /\ snapshot.tasks[i] = "waiting_approval"
        /\ chan[<<r, i>>] = "empty" =>
             \/ pending[i] = <<r, i>>
             \/ \E d \in Deciders : dpc[d] = "sending" /\ found[d] = <<r, i>>

\* As long as runs do not overlap, the user's answer reaches the run the UI
\* shows, never another one.
AnswersShownRun ==
  [][~overlap =>
       \A d \in Deciders : dpc[d] = "idle" /\ dpc'[d] = "sending" =>
         found'[d][1] = snapshot.run]_vars

\* What the comment on Execution's soft failure says: a run in which a subtask
\* failed is surfaced as failed when it is over.
FailureIsSurfaced ==
  \A r \in Runs :
    rpc[r] = "done" /\ snapshot.run = r /\ (\E i \in Ids : did[r][i] = "failed")
      => snapshot.status = "failed"
=============================================================================
