------------------------ MODULE WebOrchestrationProofs ------------------------
(***************************************************************************)
(* Proofs about the approval gate, for any number of runs, subtask IDs and *)
(* calls of Decide: the web server's runs use the broker as its own        *)
(* specification says, the broker's invariant is inductive, and from both  *)
(* follows that no gated subtask is executed without the user's consent.   *)
(* The last part is about the event stream that shows the store's snapshot *)
(* to a page, for any number of connections, requests and changes.         *)
(***************************************************************************)
EXTENDS WebOrchestration, EventStream, TLAPS

(***************************************************************************)
(* The broker on its own.                                                  *)
(***************************************************************************)
LEMMA BrokerInitInv == BrokerInit => BrokerInv
BY BrokerAssumption DEF BrokerInit, BrokerInv, BrokerTypeOK, DecisionNeverDropped, MapInv,
                        DeciderInv, ChannelInv

LEMMA BrokerStepInv == BrokerInv /\ [BrokerNext]_brokerVars => BrokerInv'
<1> SUFFICES ASSUME BrokerInv, [BrokerNext]_brokerVars
             PROVE  BrokerInv'
  OBVIOUS
<1> USE BrokerAssumption DEF BrokerInv, BrokerTypeOK, DecisionNeverDropped, MapInv, DeciderInv,
             ChannelInv, Decision
<1>1. ASSUME NEW w \in Waiters, Register(w)
      PROVE  BrokerInv'
  BY <1>1 DEF Register
<1>2. ASSUME NEW w \in Waiters, ReceiveDecision(w)
      PROVE  BrokerInv'
  BY <1>2 DEF ReceiveDecision
<1>3. ASSUME NEW w \in Waiters, GiveUp(w)
      PROVE  BrokerInv'
  BY <1>3 DEF GiveUp
<1>4. ASSUME NEW w \in Waiters, Unregister(w)
      PROVE  BrokerInv'
  BY <1>4 DEF Unregister
<1>5. ASSUME NEW d \in Deciders, NEW id \in Ids, NEW say \in Decision, LookUp(d, id, say)
      PROVE  BrokerInv'
  <2> DEFINE w == pending[id]
  <2>1. /\ said' = [said EXCEPT ![d] = say]
        /\ found' = [found EXCEPT ![d] = w]
        /\ dpc' = [dpc EXCEPT ![d] = IF w = NoWaiter THEN "done" ELSE "sending"]
        /\ pending' = [pending EXCEPT ![id] = NoWaiter]
        /\ UNCHANGED <<chan, wpc, answer, accepted>>
        /\ dpc[d] = "idle" /\ found[d] = NoWaiter /\ w \in Waiters \cup {NoWaiter}
    BY <1>5 DEF LookUp
  <2>2. w # NoWaiter => chan[w] = "empty"
    BY <2>1
  <2>3. BrokerTypeOK'
    BY <2>1
  <2>4. MapInv'
    BY <2>1
  <2>5. DeciderInv'
    BY <2>1
  <2>6. ChannelInv'
    <3>1. \A e \in Deciders, x \in Waiters : found[e] = x => found'[e] = x /\ said'[e] = said[e]
      BY <2>1
    <3>2. QED
      BY <2>1, <3>1
  <2>7. DecisionNeverDropped'
    BY <2>1, <2>2
  <2>8. QED
    BY <2>3, <2>4, <2>5, <2>6, <2>7
<1>6. ASSUME NEW d \in Deciders, Send(d)
      PROVE  BrokerInv'
  BY <1>6 DEF Send
<1>7. CASE UNCHANGED brokerVars
  BY <1>7 DEF brokerVars
<1>8. QED
  BY <1>1, <1>2, <1>3, <1>4, <1>5, <1>6, <1>7 DEF BrokerNext, WaiterStep, DeciderStep

\* The broker's invariant holds of every behaviour of the broker.
THEOREM BrokerSafe == BrokerSpec => []BrokerInv
<1>1. QED
  BY BrokerInitInv, BrokerStepInv, PTL DEF BrokerSpec

LEMMA InvGivesConsent == BrokerInv => ApprovedOnlyByUser
BY BrokerAssumption
   DEF BrokerInv, BrokerTypeOK, DecisionNeverDropped, DeciderInv, ChannelInv, ApprovedOnlyByUser

(***************************************************************************)
(* The web server.                                                         *)
(***************************************************************************)
\* A step of the server is a step of the broker or leaves the broker alone.
LEMMA WebStep == ASSUME [Next]_vars PROVE [BrokerNext]_brokerVars
<1>1. ASSUME NEW r \in Runs, EngineStep(r)
      PROVE  UNCHANGED brokerVars
  BY <1>1 DEF EngineStep, StartPlanning, PlanReady, FallBack, EngineReturns, BlueprintReady,
              BlueprintFails, BlueprintReturns, Close, AskApproval, SubtaskStarts,
              NotExecuted, RoleStarts, SubtaskResult, RoleTaskCompletes
<1>2. ASSUME NEW r \in Runs, NEW i \in Ids, RepairAttempt(r, i)
      PROVE  UNCHANGED brokerVars
  BY <1>2 DEF RepairAttempt
<1>3. ASSUME NEW r \in Runs, NEW i \in Gated, GateStep(r, i)
      PROVE  BrokerNext
  BY <1>3, WebAssumption DEF GateStep, WaitApproval, BrokerNext, WaiterStep
<1>4. ASSUME NEW d \in Deciders, Decide(d)
      PROVE  BrokerNext
  BY <1>4 DEF Decide, BrokerNext
<1>5. CASE UNCHANGED vars
  BY <1>5 DEF vars
<1>6. QED
  BY <1>1, <1>2, <1>3, <1>4, <1>5 DEF Next, Terminated

\* The server uses the broker as the broker's specification allows.
THEOREM WebUsesBroker == Spec => BrokerSpec
<1>1. Init => BrokerInit
  BY DEF Init
<1>2. QED
  BY <1>1, WebStep, PTL DEF Spec, BrokerSpec

\* WaitApproval returns true only if the user said yes to that very call.
THEOREM ApprovalComesFromUser == Spec => []ApprovedOnlyByUser
BY WebUsesBroker, BrokerSafe, InvGivesConsent, PTL

\* No decision of the user is ever dropped because the channel is full.
THEOREM NoDecisionDropped == Spec => []DecisionNeverDropped
<1>1. BrokerInv => DecisionNeverDropped
  BY DEF BrokerInv
<1>2. QED
  BY WebUsesBroker, BrokerSafe, <1>1, PTL

(***************************************************************************)
(* Consent of gated subtasks.  GateInv is inductive relative to BrokerInv. *)
(***************************************************************************)
GateInv ==
  /\ rpc \in [Runs -> {"idle", "planning", "engine", "fallback", "blueprint", "closing", "done"}]
  /\ did \in [Runs -> [Ids -> Settled \cup {"pending", "asking", "running"}]]
  /\ \A r \in Runs, i \in Ids :
       rpc[r] \in {"idle", "planning", "fallback"} => did[r][i] = "pending"
  /\ \A r \in Runs, i \in Gated :
       rpc[r] = "engine" /\ did[r][i] \in {"running", "success", "failed"} =>
         wpc[<<r, i>>] = "returned" /\ answer[<<r, i>>] = "yes"

LEMMA GateInitInv == Init => GateInv
BY DEF Init, GateInv, Settled

\* A call of WaitApproval that returned keeps its answer.
LEMMA AnswerIsFinal ==
  ASSUME BrokerTypeOK, [BrokerNext]_brokerVars, NEW w \in Waiters, wpc[w] = "returned"
  PROVE  wpc'[w] = "returned" /\ answer'[w] = answer[w]
BY DEF BrokerTypeOK, BrokerNext, brokerVars, WaiterStep, DeciderStep, Register,
       ReceiveDecision, GiveUp, Unregister, LookUp, Send

LEMMA GateStepInv == BrokerInv /\ GateInv /\ [Next]_vars => GateInv'
<1> SUFFICES ASSUME BrokerInv, GateInv, [Next]_vars
             PROVE  GateInv'
  OBVIOUS
<1>1. \A r \in Runs, i \in Gated :
        wpc[<<r, i>>] = "returned" /\ answer[<<r, i>>] = "yes"
          => wpc'[<<r, i>>] = "returned" /\ answer'[<<r, i>>] = "yes"
  BY WebStep, AnswerIsFinal, WebAssumption DEF BrokerInv
<1> USE WebAssumption DEF GateInv, Settled, GoTo, Becomes
<1>2. ASSUME NEW r \in Runs, StartPlanning(r) \/ PlanReady(r) \/ FallBack(r)
      PROVE  GateInv'
  <2>1. /\ rpc[r] \in {"idle", "planning"} /\ did' = did
        /\ \E x \in {"planning", "engine", "fallback"} : rpc' = [rpc EXCEPT ![r] = x]
    BY <1>2 DEF StartPlanning, PlanReady, FallBack
  <2>2. PICK x \in {"planning", "engine", "fallback"} : rpc' = [rpc EXCEPT ![r] = x]
    BY <2>1
  <2>3. QED
    BY <1>1, <2>1, <2>2
<1>3. ASSUME NEW r \in Runs, EngineReturns(r) \/ BlueprintReady(r) \/ BlueprintFails(r) \/ Close(r)
      PROVE  GateInv'
  BY <1>1, <1>3 DEF EngineReturns, BlueprintReady, BlueprintFails, Close
<1>4. ASSUME NEW r \in Runs, BlueprintReturns(r)
      PROVE  GateInv'
  BY <1>1, <1>4 DEF BlueprintReturns
<1>5. ASSUME NEW r \in Runs, NEW i \in Ids,
             AskApproval(r, i) \/ NotExecuted(r, i) \/ RoleStarts(r, i)
      PROVE  GateInv'
  <2>1. CASE AskApproval(r, i)
    BY <1>1, <2>1 DEF AskApproval
  <2>2. CASE NotExecuted(r, i)
    <3>1. PICK st \in {"skipped", "cancelled"} : did' = [did EXCEPT ![r][i] = st]
      BY <2>2 DEF NotExecuted
    <3>2. rpc' = rpc /\ rpc[r] = "engine"
      BY <2>2 DEF NotExecuted
    <3>3. QED
      BY <1>1, <3>1, <3>2
  <2>3. CASE RoleStarts(r, i)
    BY <1>1, <2>3 DEF RoleStarts
  <2>4. QED
    BY <1>5, <2>1, <2>2, <2>3
<1>6. ASSUME NEW r \in Runs, NEW i \in Ids, SubtaskStarts(r, i)
      PROVE  GateInv'
  <2>1. /\ rpc' = rpc /\ rpc[r] = "engine"
        /\ did' = [did EXCEPT ![r][i] = "running"]
        /\ i \in Gated => wpc[<<r, i>>] = "returned" /\ answer[<<r, i>>] = "yes"
    BY <1>6 DEF SubtaskStarts, GateOpen
  <2>2. /\ did' \in [Runs -> [Ids -> Settled \cup {"pending", "asking", "running"}]]
        /\ \A q \in Runs, j \in Ids : q # r \/ j # i => did'[q][j] = did[q][j]
    BY <2>1
  <2>3. i \in Gated /\ rpc[r] = "engine" => wpc[<<r, i>>] = "returned" /\ answer[<<r, i>>] = "yes"
    BY <2>1
  <2>4. ASSUME NEW q \in Runs, NEW j \in Gated, rpc'[q] = "engine",
               did'[q][j] \in {"running", "success", "failed"}
        PROVE  wpc'[<<q, j>>] = "returned" /\ answer'[<<q, j>>] = "yes"
    <3>1. CASE q = r /\ j = i
      BY <1>1, <2>1, <2>3, <2>4, <3>1
    <3>2. CASE q # r \/ j # i
      BY <1>1, <2>1, <2>2, <2>4, <3>2
    <3>3. QED
      BY <3>1, <3>2
  <2>5. QED
    BY <2>1, <2>2, <2>4
<1>7. ASSUME NEW r \in Runs, NEW i \in Ids, NEW st \in {"success", "failed"},
             SubtaskResult(r, i, st) \/ RoleTaskCompletes(r, i, st)
      PROVE  GateInv'
  <2>1. /\ rpc' = rpc /\ did' = [did EXCEPT ![r][i] = st]
        /\ \/ rpc[r] = "blueprint"
           \/ rpc[r] = "engine" /\ did[r][i] = "running"
    BY <1>7 DEF SubtaskResult, RoleTaskCompletes
  <2>2. /\ did' \in [Runs -> [Ids -> Settled \cup {"pending", "asking", "running"}]]
        /\ \A q \in Runs, j \in Ids : q # r \/ j # i => did'[q][j] = did[q][j]
    BY <2>1
  <2>3. i \in Gated /\ rpc[r] = "engine" => wpc[<<r, i>>] = "returned" /\ answer[<<r, i>>] = "yes"
    BY <2>1
  <2>4. ASSUME NEW q \in Runs, NEW j \in Gated, rpc'[q] = "engine",
               did'[q][j] \in {"running", "success", "failed"}
        PROVE  wpc'[<<q, j>>] = "returned" /\ answer'[<<q, j>>] = "yes"
    <3>1. CASE q = r /\ j = i
      BY <1>1, <2>1, <2>3, <2>4, <3>1
    <3>2. CASE q # r \/ j # i
      BY <1>1, <2>1, <2>2, <2>4, <3>2
    <3>3. QED
      BY <3>1, <3>2
  <2>5. QED
    BY <2>1, <2>2, <2>4
<1>8. CASE UNCHANGED <<rpc, did>>
  BY <1>1, <1>8
<1>9. ASSUME NEW r \in Runs, NEW i \in Ids, RepairAttempt(r, i)
      PROVE  UNCHANGED <<rpc, did>>
  BY <1>9 DEF RepairAttempt
<1>10. ASSUME NEW r \in Runs, NEW i \in Gated, GateStep(r, i)
       PROVE  UNCHANGED <<rpc, did>>
  BY <1>10 DEF GateStep, WaitApproval, webVars
<1>11. ASSUME NEW d \in Deciders, Decide(d)
       PROVE  UNCHANGED <<rpc, did>>
  BY <1>11 DEF Decide, webVars
<1>12. CASE UNCHANGED vars
  BY <1>8, <1>12 DEF vars, webVars
<1>13. QED
  BY <1>2, <1>3, <1>4, <1>5, <1>6, <1>7, <1>8, <1>9, <1>10, <1>11, <1>12
     DEF Next, EngineStep, Terminated

\* A gated subtask of the subtask engine is executed only with the consent of
\* the user to its own call of WaitApproval, whatever runs share the store.
THEOREM GatedSubtasksHaveConsent == Spec => []GatedRunsWithConsent
<1>1. Spec => []BrokerInv
  BY WebUsesBroker, BrokerSafe, PTL
<1>2. Spec => []GateInv
  BY <1>1, GateInitInv, GateStepInv, PTL DEF Spec
<1>3. BrokerInv /\ GateInv => GatedRunsWithConsent
  BY WebAssumption DEF BrokerInv, ChannelInv, GateInv, GatedRunsWithConsent
<1>4. QED
  BY <1>1, <1>2, <1>3, PTL

(***************************************************************************)
(* Types.                                                                  *)
(***************************************************************************)
LEMMA WebStepTypes == TypeOK /\ BrokerTypeOK' /\ [Next]_vars => TypeOK'
<1> SUFFICES ASSUME TypeOK, BrokerTypeOK', [Next]_vars
             PROVE  TypeOK'
  OBVIOUS
<1> USE WebAssumption DEF TypeOK, Settled, Shown, GoTo, Becomes
<1>1. ASSUME NEW r \in Runs, StartPlanning(r) \/ PlanReady(r) \/ FallBack(r) \/ BlueprintReady(r)
      PROVE  TypeOK'
  <2>1. /\ UNCHANGED <<brokerVars, overlap, did>>
        /\ \E x \in {"planning", "engine", "fallback", "blueprint"} : rpc' = [rpc EXCEPT ![r] = x]
    BY <1>1 DEF StartPlanning, PlanReady, FallBack, BlueprintReady
  <2>2. /\ [i \in Ids |-> "none"] \in [Ids -> Shown]
        /\ [i \in Ids |-> "pending"] \in [Ids -> Shown]
        /\ [i \in Ids |-> IF i \in Gated THEN "waiting_approval" ELSE "pending"] \in [Ids -> Shown]
    OBVIOUS
  <2>3. \/ UNCHANGED snapshot
        \/ StartPlanningSnapshot(r)
        \/ \E kind \in {"subtasks", "roles"}, tasks \in [Ids -> Shown] : StartSnapshot(r, kind, tasks)
    BY <1>1, <2>2 DEF StartPlanning, PlanReady, FallBack, BlueprintReady
  <2>4. snapshot' \in [run : Runs \cup {NoRun}, kind : {"none", "planning", "subtasks", "roles"},
                       status : {"pending", "running", "success", "failed"},
                       tasks : [Ids -> Shown]]
    BY <2>2, <2>3 DEF StartPlanningSnapshot, StartSnapshot
  <2>5. QED
    BY <2>1, <2>4
<1>2. ASSUME NEW r \in Runs, EngineReturns(r) \/ BlueprintFails(r) \/ Close(r)
      PROVE  TypeOK'
  BY <1>2 DEF EngineReturns, BlueprintFails, Close, Complete
<1>3. ASSUME NEW r \in Runs, BlueprintReturns(r)
      PROVE  TypeOK'
  <2>1. /\ UNCHANGED <<brokerVars, overlap>> /\ MarkAll("success")
        /\ did' \in [Runs -> [Ids -> Settled \cup {"pending", "asking", "running"}]]
        /\ rpc' = [rpc EXCEPT ![r] = "closing"]
    BY <1>3 DEF BlueprintReturns
  <2>2. [i \in Ids |-> IF snapshot.tasks[i] \in {"none", "success", "failed"}
                         THEN snapshot.tasks[i] ELSE "success"] \in [Ids -> Shown]
    OBVIOUS
  <2>3. snapshot' = [snapshot EXCEPT !.tasks =
                       [i \in Ids |-> IF snapshot.tasks[i] \in {"none", "success", "failed"}
                                        THEN snapshot.tasks[i] ELSE "success"]]
    BY <2>1 DEF MarkAll
  <2>4. QED
    BY <2>1, <2>2, <2>3
<1>4. ASSUME NEW r \in Runs, NEW i \in Ids, NotExecuted(r, i)
      PROVE  TypeOK'
  <2>1. PICK st \in {"skipped", "cancelled"} : did' = [did EXCEPT ![r][i] = st]
    BY <1>4 DEF NotExecuted
  <2>2. UNCHANGED <<brokerVars, overlap, rpc, snapshot>>
    BY <1>4 DEF NotExecuted
  <2>3. QED
    BY <2>1, <2>2
<1>5. ASSUME NEW r \in Runs, NEW i \in Ids,
             AskApproval(r, i) \/ SubtaskStarts(r, i) \/ RoleStarts(r, i) \/ RepairAttempt(r, i)
      PROVE  TypeOK'
  <2>1. did' \in [Runs -> [Ids -> Settled \cup {"pending", "asking", "running"}]]
    BY <1>5 DEF AskApproval, SubtaskStarts, RoleStarts, RepairAttempt
  <2>2. PICK kind \in {"subtasks", "roles"}, st \in {"waiting_approval", "running"} :
          UpdateResult(kind, i, st)
    BY <1>5 DEF AskApproval, SubtaskStarts, RoleStarts, RepairAttempt, Kind
  <2>3. UNCHANGED <<overlap, rpc>>
    BY <1>5 DEF AskApproval, SubtaskStarts, RoleStarts, RepairAttempt
  <2>4. QED
    BY <2>1, <2>2, <2>3 DEF UpdateResult
<1>6. ASSUME NEW r \in Runs, NEW i \in Ids, NEW st \in {"success", "failed"},
             SubtaskResult(r, i, st) \/ RoleTaskCompletes(r, i, st)
      PROVE  TypeOK'
  <2>0. did' = [did EXCEPT ![r][i] = st] /\ UNCHANGED <<overlap, rpc>>
    BY <1>6 DEF SubtaskResult, RoleTaskCompletes
  <2>1. /\ did' \in [Runs -> [Ids -> Settled \cup {"pending", "asking", "running"}]]
        /\ UNCHANGED <<overlap, rpc>>
    BY <2>0
  <2>2. PICK kind \in {"subtasks", "roles"} : UpdateResult(kind, i, st)
    BY <1>6 DEF SubtaskResult, RoleTaskCompletes
  <2>3. QED
    BY <2>1, <2>2 DEF UpdateResult
<1>7. CASE UNCHANGED webVars
  BY <1>7 DEF webVars
<1>8. ASSUME NEW r \in Runs, NEW i \in Gated, GateStep(r, i)
      PROVE  UNCHANGED webVars
  BY <1>8 DEF GateStep, WaitApproval
<1>9. ASSUME NEW d \in Deciders, Decide(d)
      PROVE  UNCHANGED webVars
  BY <1>9 DEF Decide
<1>10. CASE UNCHANGED vars
  BY <1>7, <1>10 DEF vars
<1>11. QED
  BY <1>1, <1>2, <1>3, <1>4, <1>5, <1>6, <1>7, <1>8, <1>9, <1>10 DEF Next, EngineStep, Terminated

\* The types of the web server's variables are kept, for any number of runs.
THEOREM WebTypeCorrect == Spec => []TypeOK
<1>1. Init => TypeOK
  BY BrokerInitInv DEF Init, TypeOK, BrokerInv, Settled, Shown
<1>2. Spec => []BrokerTypeOK
  <2>1. BrokerInv => BrokerTypeOK
    BY DEF BrokerInv
  <2>2. QED
    BY WebUsesBroker, BrokerSafe, <2>1, PTL
<1>3. QED
  BY <1>1, <1>2, WebStepTypes, PTL DEF Spec

\* Consent comes from the user, to the call that asked, before the subtask is
\* executed: the types, WaitApproval and the gate together.
THEOREM ConsentHolds == Spec => []ConsentInv
BY WebTypeCorrect, ApprovalComesFromUser, GatedSubtasksHaveConsent, PTL DEF ConsentInv

(***************************************************************************)
(* What the UI shows, as long as runs do not overlap.                      *)
(***************************************************************************)
Busy(r) == ~Idle(r)

\* The run in progress is the only one, the one that is shown, and shown as what
\* its engine reports.
ScreenInv ==
  ~overlap => \A r \in Runs : Busy(r) =>
    /\ snapshot.run = r
    /\ \A q \in Runs : Busy(q) => q = r
    /\ rpc[r] = "engine" => snapshot.kind = "subtasks"
    /\ rpc[r] = "blueprint" => snapshot.kind = "roles"

\* A call of WaitApproval that has not returned belongs to a subtask that asks, in
\* the subtask engine, and is shown as asking.
AskInv ==
  /\ \A r \in Runs, i \in Ids : did[r][i] = "asking" =>
       /\ rpc[r] = "engine" /\ i \in Gated
       /\ ~overlap => snapshot.tasks[i] = "waiting_approval"
  /\ \A r \in Runs, i \in Gated :
       wpc[<<r, i>>] \in {"blocked", "leaving"} => did[r][i] = "asking"
  /\ \A r \in Runs, i \in Ids : rpc[r] \in {"idle", "planning", "fallback"} => did[r][i] = "pending"

\* What is in the map has not returned, and what waits is in the map or in hand.
ReachInv ==
  /\ \A i \in Ids : pending[i] # NoWaiter => wpc[pending[i]] \in {"blocked", "leaving"}
  /\ ~overlap => \A w \in Waiters : wpc[w] = "blocked" /\ chan[w] = "empty" =>
       \/ pending[IdOf[w]] = w
       \/ \E d \in Deciders : dpc[d] = "sending" /\ found[d] = w

DisplayInv == TypeOK /\ BrokerInv /\ ScreenInv /\ AskInv /\ ReachInv /\ ShownIsTrue

LEMMA DisplayInit == Init => DisplayInv
<1> SUFFICES ASSUME Init PROVE DisplayInv
  OBVIOUS
<1>1. BrokerInv
  BY BrokerInitInv DEF Init
<1>2. TypeOK
  BY <1>1 DEF Init, TypeOK, BrokerInv, Settled, Shown
<1>3. ScreenInv /\ ShownIsTrue
  BY DEF Init, ScreenInv, Busy, Idle, ShownIsTrue
<1>4. AskInv /\ ReachInv
  BY WebAssumption DEF Init, BrokerInit, AskInv, ReachInv
<1>5. QED
  BY <1>1, <1>2, <1>3, <1>4 DEF DisplayInv

\* A callback that reports on one subtask of the run in progress.
LEMMA ReportDisplay ==
  ASSUME DisplayInv, TypeOK', BrokerInv', NEW r \in Runs, NEW i \in Ids,
         NEW st \in {"waiting_approval", "running", "success", "failed"},
         rpc[r] \in {"engine", "blueprint"}, UpdateResult(Kind(r), i, st),
         \/ st = "waiting_approval" /\ i \in Gated /\ rpc[r] = "engine" /\ Becomes(r, i, "asking")
         \/ st # "waiting_approval" /\ Becomes(r, i, st)
         \/ st # "waiting_approval" /\ did[r][i] = st /\ UNCHANGED did,
         st # "waiting_approval" /\ i \in Gated => wpc[<<r, i>>] \notin {"blocked", "leaving"},
         UNCHANGED <<brokerVars, overlap, rpc>>
  PROVE  DisplayInv'
<1> DEFINE x == IF st = "waiting_approval" THEN "asking" ELSE st
<1>1. /\ did'[r][i] = x
      /\ \A q \in Runs, j \in Ids : q # r \/ j # i => did'[q][j] = did[q][j]
  BY DEF DisplayInv, TypeOK, Becomes
<1>2. /\ snapshot'.run = snapshot.run /\ snapshot'.kind = snapshot.kind
      /\ \A j \in Ids \ {i} : snapshot'.tasks[j] = snapshot.tasks[j]
      /\ snapshot.kind = Kind(r) => snapshot'.tasks[i] = st
  BY DEF DisplayInv, TypeOK, UpdateResult
<1>3. ~overlap => snapshot.run = r /\ snapshot.kind = Kind(r) /\ \A q \in Runs : Busy(q) => q = r
  BY DEF DisplayInv, ScreenInv, Busy, Idle, Kind
<1>4. ScreenInv'
  BY <1>2 DEF DisplayInv, ScreenInv, Busy, Idle
<1>5. AskInv'
  <2>1. ASSUME NEW q \in Runs, NEW j \in Ids, did'[q][j] = "asking"
        PROVE  /\ rpc'[q] = "engine" /\ j \in Gated
               /\ ~overlap' => snapshot'.tasks[j] = "waiting_approval"
    <3>1. CASE q = r /\ j = i
      BY <1>1, <1>2, <1>3, <2>1, <3>1
    <3>2. CASE q # r \/ j # i
      <4>1. did[q][j] = "asking" /\ rpc[q] = "engine" /\ j \in Gated
        BY <1>1, <2>1, <3>2 DEF DisplayInv, AskInv
      <4>2. ~overlap => j # i
        BY <1>3, <3>2, <4>1 DEF Busy, Idle
      <4>3. QED
        BY <1>2, <2>1, <4>1, <4>2 DEF DisplayInv, AskInv
    <3>3. QED
      BY <3>1, <3>2
  <2>2. ASSUME NEW q \in Runs, NEW j \in Gated, wpc'[<<q, j>>] \in {"blocked", "leaving"}
        PROVE  did'[q][j] = "asking"
    <3>1. wpc[<<q, j>>] \in {"blocked", "leaving"} /\ j \in Ids
      BY <2>2, WebAssumption DEF brokerVars
    <3>2. CASE q = r /\ j = i
      BY <1>1, <3>1, <3>2
    <3>3. CASE q # r \/ j # i
      BY <1>1, <3>1, <3>3 DEF DisplayInv, AskInv
    <3>4. QED
      BY <3>2, <3>3
  <2>3. ASSUME NEW q \in Runs, NEW j \in Ids, rpc'[q] \in {"idle", "planning", "fallback"}
        PROVE  did'[q][j] = "pending"
    BY <1>1, <2>3 DEF DisplayInv, AskInv
  <2>4. QED
    BY <2>1, <2>2, <2>3 DEF AskInv
<1>6. ReachInv'
  BY DEF DisplayInv, ReachInv, brokerVars
<1>7. ShownIsTrue'
  BY <1>1, <1>2, <1>3 DEF DisplayInv, ShownIsTrue
<1>8. QED
  BY <1>4, <1>5, <1>6, <1>7 DEF DisplayInv
\* The start and the end of a run's phases.
LEMMA PhaseDisplay ==
  ASSUME DisplayInv, TypeOK', BrokerInv', NEW r \in Runs,
         \/ StartPlanning(r) \/ PlanReady(r) \/ FallBack(r) \/ EngineReturns(r)
         \/ BlueprintReady(r) \/ BlueprintFails(r) \/ BlueprintReturns(r) \/ Close(r)
  PROVE  DisplayInv'
<1> USE DEF Busy, Idle, GoTo
<1>1. UNCHANGED <<brokerVars, overlap>>
  BY DEF StartPlanning, PlanReady, FallBack, EngineReturns, BlueprintReady, BlueprintFails,
         BlueprintReturns, Close
<1>2. ReachInv'
  BY <1>1 DEF DisplayInv, ReachInv, brokerVars
<1>3. rpc \in [Runs -> {"idle", "planning", "engine", "fallback", "blueprint", "closing", "done"}]
  BY DEF DisplayInv, TypeOK
<1>4. CASE StartPlanning(r)
  <2>1. /\ rpc[r] = "idle" /\ rpc' = [rpc EXCEPT ![r] = "planning"] /\ UNCHANGED did
        /\ ~overlap => \A q \in Runs : ~Busy(q)
        /\ snapshot'.run = r /\ \A i \in Ids : snapshot'.tasks[i] = "none"
    BY <1>4 DEF StartPlanning, StartPlanningSnapshot
  <2>2. ScreenInv'
    BY <1>1, <1>3, <2>1 DEF ScreenInv
  <2>3. ShownIsTrue'
    BY <2>1 DEF ShownIsTrue
  <2>4. AskInv'
    <3>1. ~overlap => \A q \in Runs, i \in Ids : did[q][i] # "asking"
      BY <2>1 DEF DisplayInv, AskInv
    <3>2. QED
      BY <1>1, <1>3, <2>1, <3>1 DEF DisplayInv, AskInv, brokerVars
  <2>5. QED
    BY <1>2, <2>2, <2>3, <2>4 DEF DisplayInv
<1>5. CASE PlanReady(r) \/ BlueprintReady(r)
  <2>1. /\ rpc[r] \in {"planning", "fallback"} /\ UNCHANGED did
        /\ snapshot'.run = r
        /\ \A i \in Ids : snapshot'.tasks[i] \in {"waiting_approval", "pending"}
    BY <1>5 DEF PlanReady, BlueprintReady, StartSnapshot
  <2>2. \/ rpc' = [rpc EXCEPT ![r] = "engine"] /\ snapshot'.kind = "subtasks"
        \/ rpc' = [rpc EXCEPT ![r] = "blueprint"] /\ snapshot'.kind = "roles"
    BY <1>5 DEF PlanReady, BlueprintReady, StartSnapshot
  <2>3. Busy(r)
    BY <2>1
  <2>4. ScreenInv'
    BY <1>1, <1>3, <2>1, <2>2, <2>3 DEF DisplayInv, ScreenInv
  <2>5. ShownIsTrue'
    BY <2>1 DEF ShownIsTrue
  <2>6. AskInv'
    <3>1. \A i \in Ids : did[r][i] = "pending"
      BY <2>1 DEF DisplayInv, AskInv
    <3>2. ~overlap => \A q \in Runs, i \in Ids : did[q][i] # "asking"
      BY <2>3, <3>1 DEF DisplayInv, AskInv, ScreenInv
    <3>3. \A q \in Runs : q # r => rpc'[q] = rpc[q]
      BY <1>3, <2>2
    <3>4. QED
      BY <1>1, <1>3, <2>1, <2>2, <3>1, <3>2, <3>3 DEF DisplayInv, AskInv, brokerVars
  <2>7. QED
    BY <1>2, <2>4, <2>5, <2>6 DEF DisplayInv
<1>6. CASE FallBack(r) \/ EngineReturns(r) \/ BlueprintFails(r) \/ Close(r)
  <2>1. PICK x \in {"fallback", "closing", "done"} : rpc' = [rpc EXCEPT ![r] = x]
    BY <1>6 DEF FallBack, EngineReturns, BlueprintFails, Close
  <2>2. /\ UNCHANGED did /\ Busy(r)
        /\ \A i \in Ids : did[r][i] # "asking"
        /\ rpc'[r] = "fallback" => rpc[r] = "planning"
    <3>1. CASE FallBack(r)
      BY <1>3, <3>1 DEF FallBack, DisplayInv, AskInv
    <3>2. CASE EngineReturns(r)
      BY <1>3, <3>2 DEF EngineReturns, Settled
    <3>3. CASE BlueprintFails(r) \/ Close(r)
      BY <1>3, <3>3 DEF BlueprintFails, Close, DisplayInv, AskInv
    <3>4. QED
      BY <1>6, <3>1, <3>2, <3>3
  <2>3. snapshot'.run = snapshot.run /\ snapshot'.kind = snapshot.kind
        /\ snapshot'.tasks = snapshot.tasks
    BY <1>6 DEF FallBack, EngineReturns, BlueprintFails, Close, Complete, DisplayInv, TypeOK
  <2>4. ScreenInv'
    BY <1>1, <1>3, <2>1, <2>2, <2>3 DEF DisplayInv, ScreenInv
  <2>5. ShownIsTrue'
    BY <1>1, <2>2, <2>3 DEF DisplayInv, ShownIsTrue
  <2>6. AskInv'
    BY <1>1, <1>3, <2>1, <2>2, <2>3 DEF DisplayInv, AskInv, brokerVars
  <2>7. QED
    BY <1>2, <2>4, <2>5, <2>6 DEF DisplayInv
<1>7. CASE BlueprintReturns(r)
  <2>1. /\ rpc[r] = "blueprint" /\ rpc' = [rpc EXCEPT ![r] = "closing"]
        /\ did' = [did EXCEPT ![r] = [i \in Ids |-> "success"]]
        /\ \A i \in Ids : did[r][i] \in {"running", "success"}
        /\ MarkAll("success")
    BY <1>7 DEF BlueprintReturns
  <2>2. /\ snapshot'.run = snapshot.run /\ snapshot'.kind = snapshot.kind
        /\ \A i \in Ids : snapshot'.tasks[i] =
             IF snapshot.tasks[i] \in {"none", "success", "failed"}
               THEN snapshot.tasks[i] ELSE "success"
    BY <2>1 DEF MarkAll, DisplayInv, TypeOK
  <2>3. /\ \A i \in Ids : did'[r][i] = "success"
        /\ \A q \in Runs \ {r} : did'[q] = did[q] /\ rpc'[q] = rpc[q]
    BY <1>3, <2>1 DEF DisplayInv, TypeOK
  <2>4. ~overlap => snapshot.run = r /\ \A q \in Runs \ {r} : ~Busy(q)
    BY <2>1 DEF DisplayInv, ScreenInv
  <2>5. ScreenInv'
    BY <1>1, <1>3, <2>1, <2>2, <2>4 DEF DisplayInv, ScreenInv
  <2>6. ShownIsTrue'
    BY <1>1, <2>1, <2>2, <2>3, <2>4 DEF DisplayInv, ShownIsTrue
  <2>7. AskInv'
    <3>1. ASSUME NEW q \in Runs, NEW i \in Ids, did'[q][i] = "asking"
          PROVE  /\ rpc'[q] = "engine" /\ i \in Gated
                 /\ ~overlap' => snapshot'.tasks[i] = "waiting_approval"
      <4>1. q # r /\ did[q][i] = "asking"
        BY <2>3, <3>1
      <4>2. rpc[q] = "engine" /\ i \in Gated
        BY <4>1 DEF DisplayInv, AskInv
      <4>3. QED
        BY <1>1, <2>3, <2>4, <4>1, <4>2
    <3>2. ASSUME NEW q \in Runs, NEW i \in Gated, wpc'[<<q, i>>] \in {"blocked", "leaving"}
          PROVE  did'[q][i] = "asking"
      <4>1. did[q][i] = "asking" /\ i \in Ids
        BY <1>1, <3>2, WebAssumption DEF DisplayInv, AskInv, brokerVars
      <4>2. q # r
        BY <2>1, <4>1
      <4>3. QED
        BY <2>3, <4>1, <4>2
    <3>3. \A q \in Runs, i \in Ids :
            rpc'[q] \in {"idle", "planning", "fallback"} => did'[q][i] = "pending"
      BY <1>3, <2>1, <2>3 DEF DisplayInv, AskInv
    <3>4. QED
      BY <3>1, <3>2, <3>3 DEF AskInv
  <2>8. QED
    BY <1>2, <2>5, <2>6, <2>7 DEF DisplayInv
<1>8. QED
  BY <1>4, <1>5, <1>6, <1>7
\* What is not executed was not shown as executed.
LEMMA NotExecutedDisplay ==
  ASSUME DisplayInv, TypeOK', BrokerInv', NEW r \in Runs, NEW i \in Ids, NotExecuted(r, i)
  PROVE  DisplayInv'
<1>1. /\ rpc[r] = "engine" /\ did[r][i] \in {"pending", "asking"}
      /\ i \in Gated => wpc[<<r, i>>] \notin {"blocked", "leaving"}
      /\ \E st \in {"skipped", "cancelled"} : did' = [did EXCEPT ![r][i] = st]
      /\ UNCHANGED <<brokerVars, overlap, rpc, snapshot>>
  BY DEF NotExecuted, Becomes, DisplayInv, AskInv
<1>2. /\ did'[r][i] \in {"skipped", "cancelled"}
      /\ \A q \in Runs, j \in Ids : q # r \/ j # i => did'[q][j] = did[q][j]
  BY <1>1 DEF DisplayInv, TypeOK
<1>3. ScreenInv' /\ ReachInv'
  BY <1>1 DEF DisplayInv, ScreenInv, Busy, Idle, ReachInv, brokerVars
<1>4. AskInv'
  <2>1. \A q \in Runs, j \in Ids : did'[q][j] = "asking" => did[q][j] = "asking"
    BY <1>2
  <2>2. ASSUME NEW q \in Runs, NEW j \in Gated, wpc'[<<q, j>>] \in {"blocked", "leaving"}
        PROVE  did'[q][j] = "asking"
    <3>1. did[q][j] = "asking" /\ j \in Ids /\ (q # r \/ j # i)
      BY <1>1, <2>2, WebAssumption DEF DisplayInv, AskInv, brokerVars
    <3>2. QED
      BY <1>2, <3>1
  <2>3. ASSUME NEW q \in Runs, NEW j \in Ids, rpc'[q] \in {"idle", "planning", "fallback"}
        PROVE  did'[q][j] = "pending"
    BY <1>1, <1>2, <2>3 DEF DisplayInv, AskInv
  <2>4. QED
    BY <1>1, <2>1, <2>2, <2>3 DEF DisplayInv, AskInv
<1>5. ShownIsTrue'
  <2>1. ~overlap => snapshot.run = r
    BY <1>1 DEF DisplayInv, ScreenInv, Busy, Idle
  <2>2. ~overlap /\ snapshot.run # NoRun => snapshot.tasks[i] \notin {"success", "failed", "running"}
    BY <1>1, <2>1 DEF DisplayInv, ShownIsTrue
  <2>3. QED
    BY <1>1, <1>2, <2>1, <2>2 DEF DisplayInv, ShownIsTrue
<1>6. QED
  BY <1>3, <1>4, <1>5 DEF DisplayInv

LEMMA EngineDisplay ==
  ASSUME DisplayInv, TypeOK', BrokerInv', NEW r \in Runs,
         EngineStep(r) \/ \E i \in Ids : RepairAttempt(r, i)
  PROVE  DisplayInv'
<1>1. ASSUME NEW i \in Ids, AskApproval(r, i) PROVE DisplayInv'
  <2>1. Kind(r) = "subtasks"
    BY <1>1 DEF AskApproval, Kind
  <2>2. QED
    BY <1>1, <2>1, ReportDisplay DEF AskApproval
<1>2. ASSUME NEW i \in Ids, i \in Gated, did[r][i] # "asking"
      PROVE  wpc[<<r, i>>] \notin {"blocked", "leaving"}
  BY <1>2 DEF DisplayInv, AskInv
<1>3. ASSUME NEW i \in Ids, SubtaskStarts(r, i) PROVE DisplayInv'
  <2>1. Kind(r) = "subtasks" /\ (i \in Gated => wpc[<<r, i>>] \notin {"blocked", "leaving"})
    BY <1>3 DEF SubtaskStarts, GateOpen, Kind
  <2>2. QED
    BY <1>3, <2>1, ReportDisplay DEF SubtaskStarts
<1>4. ASSUME NEW i \in Ids, RoleStarts(r, i) PROVE DisplayInv'
  <2>1. Kind(r) = "roles" /\ did[r][i] # "asking"
    BY <1>4 DEF RoleStarts, Kind
  <2>2. QED
    BY <1>2, <1>4, <2>1, ReportDisplay DEF RoleStarts
<1>5. ASSUME NEW i \in Ids, RepairAttempt(r, i) PROVE DisplayInv'
  BY <1>2, <1>5, ReportDisplay DEF RepairAttempt
<1>6. ASSUME NEW i \in Ids, NEW st \in {"success", "failed"}, SubtaskResult(r, i, st)
      PROVE  DisplayInv'
  <2>1. Kind(r) = "subtasks" /\ did[r][i] # "asking"
    BY <1>6 DEF SubtaskResult, Kind
  <2>2. QED
    BY <1>2, <1>6, <2>1, ReportDisplay DEF SubtaskResult
<1>7. ASSUME NEW i \in Ids, NEW st \in {"success", "failed"}, RoleTaskCompletes(r, i, st)
      PROVE  DisplayInv'
  <2>1. Kind(r) = "roles" /\ did[r][i] # "asking"
    BY <1>7 DEF RoleTaskCompletes, Kind
  <2>2. QED
    BY <1>2, <1>7, <2>1, ReportDisplay DEF RoleTaskCompletes
<1>8. QED
  BY <1>1, <1>3, <1>4, <1>5, <1>6, <1>7, PhaseDisplay, NotExecutedDisplay DEF EngineStep

\* The gate's own steps change nothing that is shown.
LEMMA GateDisplay ==
  ASSUME DisplayInv, TypeOK', BrokerInv', NEW r \in Runs, NEW i \in Gated, GateStep(r, i)
  PROVE  DisplayInv'
<1> DEFINE w == <<r, i>>
<1>1. w \in Waiters /\ IdOf[w] = i /\ i \in Ids /\ NoWaiter \notin Waiters
  BY WebAssumption, BrokerAssumption
<1>2. UNCHANGED webVars
  BY DEF GateStep, WaitApproval
<1>3. /\ did[r][i] = "asking"
      /\ Register(w) \/ ReceiveDecision(w) \/ GiveUp(w) \/ Unregister(w)
  BY DEF GateStep, WaitApproval, ReceiveDecision, GiveUp, Unregister, DisplayInv, AskInv
<1>4. ScreenInv' /\ ShownIsTrue'
  BY <1>2 DEF DisplayInv, ScreenInv, Busy, Idle, ShownIsTrue, webVars
<1>5. \A v \in Waiters \ {w} : wpc'[v] = wpc[v] /\ chan'[v] = chan[v]
  BY <1>1, <1>3 DEF Register, ReceiveDecision, GiveUp, Unregister, DisplayInv, TypeOK, BrokerTypeOK
<1>6. AskInv'
  <2>1. ASSUME NEW q \in Runs, NEW j \in Gated, wpc'[<<q, j>>] \in {"blocked", "leaving"}
        PROVE  did'[q][j] = "asking"
    <3>1. <<q, j>> \in Waiters
      BY WebAssumption
    <3>2. CASE <<q, j>> = w
      BY <1>2, <1>3, <3>2 DEF webVars
    <3>3. CASE <<q, j>> # w
      BY <1>2, <1>5, <2>1, <3>1, <3>3 DEF DisplayInv, AskInv, webVars
    <3>4. QED
      BY <3>2, <3>3
  <2>2. QED
    BY <1>2, <2>1 DEF DisplayInv, AskInv, webVars
\* Of the waiters of one ID only one waits at a time.
<1>7. ASSUME ~overlap, NEW v \in Waiters, v # w, IdOf[v] = i
      PROVE  wpc[v] \notin {"blocked", "leaving"}
  <2>1. PICK q \in Runs, j \in Gated : v = <<q, j>>
    BY WebAssumption
  <2>2. j = i /\ q # r /\ j \in Ids
    BY <1>7, <2>1, WebAssumption
  <2>3. did[q][j] # "asking"
    <3>1. did[q][j] = "asking" => rpc[q] = "engine" /\ rpc[r] = "engine"
      BY <1>1, <1>3, <2>2 DEF DisplayInv, AskInv
    <3>2. QED
      BY <1>7, <2>2, <3>1 DEF DisplayInv, ScreenInv, Busy, Idle
  <2>4. QED
    BY <2>1, <2>3 DEF DisplayInv, AskInv
<1>8. ReachInv'
  <2>1. /\ pending' \in {pending, [pending EXCEPT ![i] = w], [pending EXCEPT ![i] = NoWaiter]}
        /\ UNCHANGED <<dpc, found>>
    BY <1>1, <1>3 DEF Register, ReceiveDecision, GiveUp, Unregister
  <2>2. pending \in [Ids -> Waiters \cup {NoWaiter}] /\ IdOf \in [Waiters -> Ids]
    BY BrokerAssumption DEF DisplayInv, TypeOK, BrokerTypeOK
  <2>3. ASSUME NEW k \in Ids, pending'[k] # NoWaiter
        PROVE  wpc'[pending'[k]] \in {"blocked", "leaving"}
    <3>1. CASE pending'[k] = w
      <4>1. CASE Register(w)
        BY <1>1, <3>1, <4>1 DEF Register, DisplayInv, TypeOK, BrokerTypeOK
      <4>2. CASE ReceiveDecision(w) \/ GiveUp(w)
        BY <1>1, <3>1, <4>2 DEF ReceiveDecision, GiveUp, DisplayInv, TypeOK, BrokerTypeOK
      <4>3. CASE Unregister(w)
        <5>1. pending' = [pending EXCEPT ![i] = NoWaiter]
          BY <1>1, <4>3 DEF Unregister
        <5>2. pending[k] = w /\ k # i
          BY <1>1, <2>2, <3>1, <5>1
        <5>3. FALSE
          BY <1>1, <5>2 DEF DisplayInv, BrokerInv, MapInv
        <5>4. QED
          BY <5>3
      <4>4. QED
        BY <1>3, <4>1, <4>2, <4>3
    <3>2. CASE pending'[k] # w
      <4>1. pending'[k] = pending[k] /\ pending[k] \in Waiters
        BY <2>1, <2>2, <2>3, <3>2
      <4>2. QED
        BY <1>5, <2>3, <3>2, <4>1 DEF DisplayInv, ReachInv
    <3>3. QED
      BY <3>1, <3>2
  <2>4. ASSUME ~overlap, NEW v \in Waiters, wpc'[v] = "blocked", chan'[v] = "empty"
        PROVE  pending'[IdOf[v]] = v \/ \E d \in Deciders : dpc'[d] = "sending" /\ found'[d] = v
    <3>1. CASE v = w
      <4>1. Register(w)
        BY <1>1, <1>3, <2>4, <3>1
           DEF ReceiveDecision, GiveUp, Unregister, DisplayInv, TypeOK, BrokerTypeOK
      <4>2. QED
        BY <1>1, <2>2, <3>1, <4>1 DEF Register
    <3>2. CASE v # w
      <4>1. wpc[v] = "blocked" /\ chan[v] = "empty"
        BY <1>5, <2>4, <3>2
      <4>2. IdOf[v] # i /\ IdOf[v] \in Ids
        BY <1>7, <2>2, <2>4, <3>2, <4>1
      <4>3. pending'[IdOf[v]] = pending[IdOf[v]]
        BY <2>1, <2>2, <4>2
      <4>4. QED
        BY <2>1, <2>4, <4>1, <4>3 DEF DisplayInv, ReachInv
    <3>3. QED
      BY <3>1, <3>2
  <2>5. QED
    BY <1>2, <2>3, <2>4 DEF ReachInv, webVars
<1>9. QED
  BY <1>4, <1>6, <1>8 DEF DisplayInv

LEMMA DecideDisplay ==
  ASSUME DisplayInv, TypeOK', BrokerInv', NEW d \in Deciders, Decide(d)
  PROVE  DisplayInv'
<1>1. UNCHANGED webVars /\ UNCHANGED wpc
  BY DEF Decide, DeciderStep, LookUp, Send
<1>2. ScreenInv' /\ ShownIsTrue' /\ AskInv'
  BY <1>1 DEF DisplayInv, ScreenInv, Busy, Idle, ShownIsTrue, AskInv, webVars
<1>3. ReachInv'
  <2> USE BrokerAssumption DEF DisplayInv, TypeOK, BrokerTypeOK
  <2>1. ASSUME NEW id \in Ids, NEW say \in Decision, LookUp(d, id, say) PROVE ReachInv'
    <3>1. /\ pending' = [pending EXCEPT ![id] = NoWaiter]
          /\ found' = [found EXCEPT ![d] = pending[id]]
          /\ dpc' = [dpc EXCEPT ![d] = IF pending[id] = NoWaiter THEN "done" ELSE "sending"]
          /\ dpc[d] = "idle" /\ UNCHANGED chan
      BY <2>1 DEF LookUp
    <3>2. \A k \in Ids : pending'[k] # NoWaiter => pending'[k] = pending[k]
      BY <3>1
    <3>3. ASSUME ~overlap, NEW v \in Waiters, wpc[v] = "blocked", chan[v] = "empty"
          PROVE  pending'[IdOf[v]] = v \/ \E e \in Deciders : dpc'[e] = "sending" /\ found'[e] = v
      <4>1. CASE pending[IdOf[v]] = v /\ IdOf[v] = id
        <5>1. v # NoWaiter
          OBVIOUS
        <5>2. dpc'[d] = "sending" /\ found'[d] = v
          BY <3>1, <4>1, <5>1
        <5>3. QED
          BY <5>2
      <4>2. CASE pending[IdOf[v]] = v /\ IdOf[v] # id
        BY <3>1, <4>2
      <4>3. ASSUME NEW e \in Deciders, dpc[e] = "sending", found[e] = v
            PROVE  dpc'[e] = "sending" /\ found'[e] = v
        BY <3>1, <4>3
      <4>4. QED
        BY <3>3, <4>1, <4>2, <4>3 DEF ReachInv
    <3>4. QED
      BY <1>1, <3>1, <3>2, <3>3 DEF ReachInv, webVars
  <2>2. CASE Send(d)
    <3>1. /\ found[d] \in Waiters /\ said[d] # "empty"
          /\ chan' = [chan EXCEPT ![found[d]] = IF chan[found[d]] = "empty" THEN said[d] ELSE chan[found[d]]]
          /\ dpc' = [dpc EXCEPT ![d] = "done"]
          /\ UNCHANGED <<pending, found>>
      BY <2>2 DEF Send, BrokerInv, DeciderInv, Decision
    <3>2. chan'[found[d]] # "empty" /\ \A v \in Waiters \ {found[d]} : chan'[v] = chan[v]
      BY <3>1
    <3>3. ASSUME NEW v \in Waiters, chan'[v] = "empty"
          PROVE  /\ chan[v] = "empty"
                 /\ \A e \in Deciders : dpc[e] = "sending" /\ found[e] = v => dpc'[e] = "sending"
      BY <3>1, <3>2, <3>3
    <3>4. QED
      BY <1>1, <3>1, <3>3 DEF ReachInv, webVars
  <2>3. QED
    BY <2>1, <2>2 DEF Decide, DeciderStep
<1>4. QED
  BY <1>2, <1>3 DEF DisplayInv

LEMMA DisplayStep == DisplayInv /\ [Next]_vars => DisplayInv'
<1> SUFFICES ASSUME DisplayInv, [Next]_vars PROVE DisplayInv'
  OBVIOUS
<1>1. BrokerInv' /\ TypeOK'
  <2>1. BrokerInv'
    BY WebStep, BrokerStepInv DEF DisplayInv
  <2>2. QED
    BY <2>1, WebStepTypes DEF DisplayInv, BrokerInv
<1>2. CASE UNCHANGED vars
  <2>1. ScreenInv' /\ AskInv' /\ ReachInv' /\ ShownIsTrue'
    BY <1>2 DEF DisplayInv, ScreenInv, Busy, Idle, AskInv, ReachInv, ShownIsTrue,
                vars, brokerVars, webVars
  <2>2. QED
    BY <1>1, <2>1 DEF DisplayInv
<1>3. QED
  BY <1>1, <1>2, EngineDisplay, GateDisplay, DecideDisplay DEF Next, Terminated

LEMMA DisplayAlways == Spec => []DisplayInv
BY DisplayInit, DisplayStep, PTL DEF Spec

\* What the UI shows as running, succeeded or failed is what became of the subtask.
THEOREM ShownStaysTrue == Spec => []ShownIsTrue
<1>1. DisplayInv => ShownIsTrue
  BY DEF DisplayInv
<1>2. QED
  BY <1>1, DisplayAlways, PTL

\* A call of WaitApproval that still waits is shown, and an answer reaches it.
THEOREM WaitersAreAnswerable == Spec => []WaitingIsAnswerable
<1>1. DisplayInv => WaitingIsAnswerable
  <2> SUFFICES ASSUME DisplayInv, ~overlap, NEW r \in Runs, NEW i \in Gated,
                      wpc[<<r, i>>] = "blocked"
               PROVE  /\ snapshot.run = r /\ snapshot.tasks[i] = "waiting_approval"
                      /\ chan[<<r, i>>] = "empty" =>
                           \/ pending[i] = <<r, i>>
                           \/ \E d \in Deciders : dpc[d] = "sending" /\ found[d] = <<r, i>>
    BY DEF WaitingIsAnswerable
  <2>1. <<r, i>> \in Waiters /\ IdOf[<<r, i>>] = i /\ i \in Ids
    BY WebAssumption
  <2>2. did[r][i] = "asking"
    BY DEF DisplayInv, AskInv
  <2>3. rpc[r] = "engine" /\ snapshot.tasks[i] = "waiting_approval"
    BY <2>1, <2>2 DEF DisplayInv, AskInv
  <2>4. snapshot.run = r
    BY <2>3 DEF DisplayInv, ScreenInv, Busy, Idle
  <2>5. QED
    BY <2>1, <2>3, <2>4 DEF DisplayInv, ReachInv
<1>2. QED
  BY <1>1, DisplayAlways, PTL

\* An answer is taken to the run that the UI shows.
THEOREM AnswersReachShownRun == Spec => AnswersShownRun
<1> DEFINE Step == ~overlap =>
                     \A d \in Deciders : dpc[d] = "idle" /\ dpc'[d] = "sending" =>
                       found'[d][1] = snapshot.run
<1>1. DisplayInv /\ [Next]_vars => Step
  <2> SUFFICES ASSUME DisplayInv, [Next]_vars, ~overlap, NEW d \in Deciders,
                      dpc[d] = "idle", dpc'[d] = "sending"
               PROVE  found'[d][1] = snapshot.run
    OBVIOUS
  <2>1. BrokerNext
    BY WebStep DEF brokerVars
  <2>2. PICK id \in Ids, say \in Decision : LookUp(d, id, say)
    <3>1. ASSUME NEW w \in Waiters, WaiterStep(w) PROVE FALSE
      BY <3>1 DEF WaiterStep, Register, ReceiveDecision, GiveUp, Unregister
    <3>2. PICK e \in Deciders : DeciderStep(e)
      BY <2>1, <3>1 DEF BrokerNext
    <3>3. ASSUME Send(e) PROVE FALSE
      BY <3>3 DEF Send, DisplayInv, TypeOK, BrokerTypeOK
    <3>4. PICK id \in Ids, say \in Decision : LookUp(e, id, say)
      BY <3>2, <3>3 DEF DeciderStep
    <3>5. e = d
      BY <3>4 DEF LookUp, DisplayInv, TypeOK, BrokerTypeOK
    <3>6. QED
      BY <3>4, <3>5
  <2>3. found'[d] = pending[id] /\ pending[id] # NoWaiter /\ pending[id] \in Waiters
    BY <2>2 DEF LookUp, DisplayInv, TypeOK, BrokerTypeOK
  <2>4. PICK r \in Runs, i \in Gated : pending[id] = <<r, i>>
    BY <2>3, WebAssumption
  <2>5. did[r][i] = "asking" /\ i \in Ids
    BY <2>3, <2>4, WebAssumption DEF DisplayInv, ReachInv, AskInv
  <2>6. snapshot.run = r
    BY <2>5 DEF DisplayInv, AskInv, ScreenInv, Busy, Idle
  <2>7. QED
    BY <2>3, <2>4, <2>6
<1>2. QED
  BY <1>1, DisplayAlways, PTL DEF Spec, AnswersShownRun

-----------------------------------------------------------------------------
(***************************************************************************)
(* The event stream, for any connections, requests, capacity and number of *)
(* changes and faults.                                                     *)
(***************************************************************************)
\* A page with nothing to wait for has what its stream carried last, and
\* SendInitial finds a place, as soon as the parts about connections hold.
LEMMA QuietAndRoom ==
  ASSUME StreamTypeOK, ConnInv, PageInv, StreamIsCurrent
  PROVE  QuietPageIsCurrent /\ SubscribeFindsRoom
<1>1. ASSUME NEW c \in Conns, c = current, cpc[c] = "streaming", queue[c] = <<>>,
             ~full[c], ~early[c], ~crossed, ~failed
      PROVE  shown = version
  <2>1. got[c] = version
    BY <1>1 DEF StreamIsCurrent, LastOnWay
  <2>2. got[c] <= shown /\ shown <= version
    BY <1>1 DEF PageInv
  <2>3. shown \in Int /\ version \in Int
    BY StreamAssumption DEF StreamTypeOK, Fallback
  <2>4. QED
    BY <2>1, <2>2, <2>3
<1>2. ASSUME NEW c \in Conns, cpc[c] = "subscribing", version < initial[c] + Capacity
      PROVE  Len(queue[c]) < Capacity
  <2>1. initial[c] + Len(queue[c]) <= version
    BY <1>2 DEF ConnInv
  <2>2. initial[c] \in Int /\ version \in Int /\ Len(queue[c]) \in Int /\ Capacity \in Int
    BY StreamAssumption DEF StreamTypeOK, Fallback
  <2>3. QED
    BY <1>2, <2>1, <2>2
<1>3. QED
  BY <1>1, <1>2 DEF QuietPageIsCurrent, SubscribeFindsRoom

\* The inductive part of the invariant; QuietAndRoom says the rest.
StreamCore == StreamTypeOK /\ ConnInv /\ PageInv /\ StreamIsCurrent /\ StreamInOrder

LEMMA StreamInitCore == StreamInit => StreamCore
<1> SUFFICES ASSUME StreamInit PROVE StreamCore
  OBVIOUS
<1>1. poll \in [Polls -> [at : {"idle", "asked", "answered"}, answer : {Fallback}]]
  BY DEF StreamInit, NoRequests, NoRequest
<1>2. /\ version = 1 /\ current = NoConn /\ shown = Fallback /\ polling = FALSE
      /\ faults = 0 /\ crossed = FALSE /\ failed = FALSE
      /\ cpc = [c \in Conns |-> "unused"]
      /\ initial = [c \in Conns |-> Fallback] /\ got = [c \in Conns |-> Fallback]
      /\ full = [c \in Conns |-> FALSE] /\ early = [c \in Conns |-> FALSE]
  BY DEF StreamInit
<1>3. \A c \in Conns : queue[c] = <<>>
  BY DEF StreamInit
<1>4. Fallback = 0 /\ 1 \in 1 .. MaxVersion /\ 0 \in 0 .. MaxVersion /\ 0 \in 0 .. MaxFaults
      /\ NoConn \notin Conns
  BY StreamAssumption DEF Fallback
<1>5. <<>> \in Seq(1 .. MaxVersion) /\ Len(<<>>) = 0 /\ 0 <= Capacity
  BY StreamAssumption
<1>6. StreamTypeOK
  <2>1. queue \in [Conns -> Seq(1 .. MaxVersion)] /\ \A c \in Conns : Len(queue[c]) <= Capacity
    <3>1. queue = [c \in Conns |-> <<>>]
      BY DEF StreamInit
    <3>2. QED
      BY <1>3, <1>5, <3>1
  <2>2. poll \in [Polls -> [at : {"idle", "asked", "answered"}, answer : Fallback .. MaxVersion]]
    BY <1>1, <1>4
  <2>3. QED
    BY <1>2, <1>4, <2>1, <2>2 DEF StreamTypeOK
<1>7. ConnInv
  <2> SUFFICES ASSUME NEW c \in Conns PROVE ConnInv!(c)
    BY DEF ConnInv
  <2>1. queue[c] = <<>> /\ Len(queue[c]) = 0
    BY <1>3, <1>5
  <2>2. cpc[c] = "unused" /\ got[c] = 0 /\ ~full[c] /\ ~early[c] /\ c # current
    BY <1>2, <1>4
  <2>3. QED
    BY <1>2, <1>4, <2>1, <2>2 DEF Subscribed
<1>8. PageInv
  BY <1>1, <1>2, <1>4 DEF PageInv
<1>9. StreamIsCurrent /\ StreamInOrder
  BY <1>2 DEF StreamIsCurrent, StreamInOrder
<1>10. QED
  BY <1>6, <1>7, <1>8, <1>9 DEF StreamCore

\* What is added to a channel is its new last element.
LEMMA Appended ==
  ASSUME NEW q \in Seq(Int), NEW v \in Int
  PROVE  /\ Append(q, v) \in Seq(Int) /\ Append(q, v) # <<>>
         /\ Len(Append(q, v)) = Len(q) + 1 /\ Append(q, v)[Len(q) + 1] = v
         /\ \A i \in 1 .. Len(q) : Append(q, v)[i] = q[i]
OBVIOUS

\* A snapshot that is offered is the last one, unless the channel is full.
LEMMA Offered ==
  ASSUME NEW q \in Seq(1 .. MaxVersion), NEW v \in 1 .. MaxVersion, Len(q) <= Capacity
  PROVE  /\ Offer(q, v) \in Seq(1 .. MaxVersion) /\ Len(Offer(q, v)) <= Capacity
         /\ Offer(q, v) # <<>>
         /\ Len(Offer(q, v)) <= Len(q) + 1
         /\ Len(q) # Capacity => Offer(q, v)[Len(Offer(q, v))] = v
         /\ \A i \in 1 .. Len(Offer(q, v)) :
              \/ i <= Len(q) /\ Offer(q, v)[i] = q[i]
              \/ i = Len(q) + 1 /\ Offer(q, v)[i] = v
<1>1. Capacity \in Nat \ {0} /\ MaxVersion \in Nat
  BY StreamAssumption
<1>2. CASE Len(q) < Capacity
  <2>1. Offer(q, v) = Append(q, v)
    BY <1>2 DEF Offer
  <2>2. v \in Int /\ q \in Seq(Int) /\ Len(q) \in Nat
    BY <1>1
  <2>3. /\ Len(Append(q, v)) = Len(q) + 1 /\ Append(q, v)[Len(q) + 1] = v
        /\ \A i \in 1 .. Len(q) : Append(q, v)[i] = q[i]
        /\ Append(q, v) # <<>>
    BY <2>2, Appended
  <2>4. Append(q, v) \in Seq(1 .. MaxVersion)
    OBVIOUS
  <2>5. QED
    BY <1>1, <1>2, <2>1, <2>2, <2>3, <2>4
<1>3. CASE ~(Len(q) < Capacity)
  <2>1. Offer(q, v) = q /\ Len(q) = Capacity
    BY <1>1, <1>3 DEF Offer
  <2>2. q # <<>>
    BY <1>1, <2>1
  <2>3. QED
    BY <1>1, <2>1, <2>2
<1>4. QED
  BY <1>2, <1>3

LEMMA BroadcastStream == StreamCore /\ Broadcast => StreamCore'
<1> SUFFICES ASSUME StreamCore, Broadcast PROVE StreamCore'
  OBVIOUS
<1> USE StreamAssumption
<1>1. /\ StreamTypeOK /\ ConnInv /\ PageInv /\ StreamIsCurrent /\ StreamInOrder
      /\ version \in 1 .. MaxVersion /\ version' \in 1 .. MaxVersion /\ version' = version + 1
      /\ UNCHANGED <<cpc, initial, got, pageVars, crossed, failed>>
  BY DEF StreamCore, StreamTypeOK, Broadcast
<1> DEFINE offered(c) == Offer(queue[c], version')
<1>2. ASSUME NEW c \in Conns
      PROVE  /\ queue[c] \in Seq(1 .. MaxVersion) /\ Len(queue[c]) <= Capacity
             /\ queue'[c] = IF Subscribed(c) THEN offered(c) ELSE queue[c]
             /\ full'[c] = (full[c] \/ (Subscribed(c) /\ Len(queue[c]) = Capacity))
             /\ early'[c] = (early[c] \/ cpc[c] = "subscribing")
             /\ Subscribed(c)' <=> Subscribed(c)
  BY <1>1 DEF Broadcast, StreamTypeOK, Subscribed
<1>3. ASSUME NEW c \in Conns
      PROVE  /\ offered(c) \in Seq(1 .. MaxVersion) /\ Len(offered(c)) <= Capacity
             /\ offered(c) # <<>>
             /\ Len(offered(c)) <= Len(queue[c]) + 1
             /\ Len(queue[c]) # Capacity => offered(c)[Len(offered(c))] = version'
             /\ \A i \in 1 .. Len(offered(c)) :
                  \/ i <= Len(queue[c]) /\ offered(c)[i] = queue[c][i]
                  \/ i = Len(queue[c]) + 1 /\ offered(c)[i] = version'
  BY <1>1, <1>2, Offered
<1> HIDE DEF offered
<1>4. ASSUME NEW c \in Conns
      PROVE  /\ Len(queue[c]) \in Nat /\ Len(offered(c)) \in Nat
             /\ \A i \in 1 .. Len(queue[c]) : queue[c][i] \in Int
             /\ got[c] \in Int /\ initial[c] \in Int /\ version \in Int /\ version' \in Int
             /\ \A i \in 1 .. Len(queue[c]) : queue[c][i] <= version
             /\ queue[c] = <<>> <=> Len(queue[c]) = 0
  <2>1. queue[c] \in Seq(Int) /\ offered(c) \in Seq(Int)
    BY <1>2, <1>3
  <2>2. got[c] \in Int /\ initial[c] \in Int /\ version \in Int /\ version' \in Int
    BY <1>1 DEF StreamTypeOK, Fallback
  <2>3. \A i \in 1 .. Len(queue[c]) : queue[c][i] <= version
    BY <1>1 DEF ConnInv
  <2>4. QED
    BY <2>1, <2>2, <2>3
<1>10. StreamTypeOK'
  <2>1. /\ queue' \in [Conns -> Seq(1 .. MaxVersion)]
        /\ \A c \in Conns : Len(queue'[c]) <= Capacity
    <3>1. queue' = [c \in Conns |-> IF Subscribed(c) THEN offered(c) ELSE queue[c]]
      BY DEF Broadcast, offered
    <3>2. QED
      BY <1>2, <1>3, <3>1
  <2>2. full' \in [Conns -> BOOLEAN] /\ early' \in [Conns -> BOOLEAN]
    BY <1>1 DEF Broadcast, StreamTypeOK, Subscribed
  <2>3. QED
    BY <1>1, <2>1, <2>2 DEF StreamTypeOK, pageVars
<1>5. ConnInv'
  <2> SUFFICES ASSUME NEW c \in Conns
               PROVE  ConnInv!(c)'
    BY DEF ConnInv
  <2>1. got'[c] <= version' /\ \A i \in 1 .. Len(queue'[c]) : queue'[c][i] <= version'
    <3>1. got[c] <= version
      BY <1>1 DEF ConnInv
    <3>2. ASSUME NEW i \in 1 .. Len(offered(c)) PROVE offered(c)[i] <= version'
      <4>1. CASE i <= Len(queue[c]) /\ offered(c)[i] = queue[c][i]
        BY <1>1, <1>4, <4>1
      <4>2. CASE offered(c)[i] = version'
        BY <1>4, <4>2
      <4>3. QED
        BY <1>3, <4>1, <4>2
    <3>3. ASSUME NEW i \in 1 .. Len(queue[c]) PROVE queue[c][i] <= version'
      BY <1>1, <1>4
    <3>4. got'[c] <= version'
      BY <1>1, <1>4, <3>1
    <3>5. QED
      BY <1>2, <3>2, <3>3, <3>4
  <2>2. CASE Subscribed(c)
    <3>1. cpc'[c] = cpc[c] /\ queue'[c] = offered(c) /\ initial'[c] = initial[c] /\ got'[c] = got[c]
      BY <1>1, <1>2, <2>2
    <3>2. 1 <= initial'[c] /\ initial'[c] <= version'
      BY <1>1, <1>4, <2>2, <3>1 DEF ConnInv
    <3>3. ASSUME cpc[c] = "subscribing"
          PROVE  /\ got'[c] = Fallback /\ early'[c] /\ queue'[c] # <<>>
                 /\ ~full'[c] => LastOnWay(c)' = version'
                 /\ initial'[c] + Len(queue'[c]) <= version'
      <4>1. /\ got[c] = Fallback /\ initial[c] + Len(queue[c]) <= version
        BY <1>1, <3>3 DEF ConnInv
      <4>2. initial[c] + Len(offered(c)) <= version'
        BY <1>1, <1>3, <1>4, <4>1
      <4>3. ~full'[c] => LastOnWay(c)' = version'
        BY <1>2, <1>3, <2>2, <3>1 DEF LastOnWay
      <4>4. QED
        BY <1>2, <1>3, <3>1, <3>3, <4>1, <4>2, <4>3
    <3>4. QED
      BY <1>1, <1>2, <2>1, <2>2, <3>1, <3>2, <3>3 DEF Subscribed
  <2>3. CASE ~Subscribed(c)
    BY <1>1, <1>2, <2>1, <2>3 DEF ConnInv, Subscribed, pageVars
  <2>4. QED
    BY <2>2, <2>3
<1>6. PageInv'
  BY <1>1 DEF PageInv, pageVars, StreamTypeOK, Fallback
<1>7. StreamIsCurrent'
  BY <1>1, <1>2, <1>3 DEF StreamIsCurrent, LastOnWay, Subscribed
<1>8. StreamInOrder'
  <2> SUFFICES ASSUME NEW c \in Conns, cpc'[c] = "streaming", ~early'[c]
               PROVE  StreamInOrder!(c)!2'
    BY DEF StreamInOrder
  <2>1. queue'[c] = offered(c) /\ got'[c] = got[c] /\ cpc[c] = "streaming" /\ ~early[c]
    BY <1>1, <1>2 DEF Subscribed
  <2>2. got[c] <= version
    BY <1>1 DEF ConnInv
  <2>3. /\ \A i \in 1 .. Len(queue[c]) : got[c] < queue[c][i]
        /\ \A i, j \in 1 .. Len(queue[c]) : i < j => queue[c][i] < queue[c][j]
    BY <1>1, <2>1 DEF StreamInOrder
  <2>4. ASSUME NEW i \in 1 .. Len(offered(c)) PROVE got[c] < offered(c)[i]
    <3>1. CASE i <= Len(queue[c]) /\ offered(c)[i] = queue[c][i]
      BY <1>4, <2>3, <3>1
    <3>2. CASE offered(c)[i] = version'
      BY <1>1, <1>4, <2>2, <3>2
    <3>3. QED
      BY <1>3, <3>1, <3>2
  <2>5. ASSUME NEW i \in 1 .. Len(offered(c)), NEW j \in 1 .. Len(offered(c)), i < j
        PROVE  offered(c)[i] < offered(c)[j]
    <3>1. i <= Len(queue[c]) /\ offered(c)[i] = queue[c][i]
      BY <1>3, <1>4, <2>5
    <3>2. CASE j <= Len(queue[c]) /\ offered(c)[j] = queue[c][j]
      BY <1>4, <2>3, <2>5, <3>1, <3>2
    <3>3. CASE offered(c)[j] = version'
      BY <1>1, <1>4, <2>5, <3>1, <3>3
    <3>4. QED
      BY <1>3, <3>2, <3>3
  <2>6. QED
    BY <2>1, <2>4, <2>5
<1>9. QED
  BY <1>5, <1>6, <1>7, <1>8, <1>10 DEF StreamCore

\* What the core says of one connection, in types the provers add up.
LEMMA ConnTypes ==
  ASSUME StreamCore, NEW c \in Conns
  PROVE  /\ queue[c] \in Seq(1 .. MaxVersion) /\ queue[c] \in Seq(Int)
         /\ Len(queue[c]) \in Nat /\ Len(queue[c]) <= Capacity
         /\ queue[c] = <<>> <=> Len(queue[c]) = 0
         /\ \A i \in 1 .. Len(queue[c]) : queue[c][i] \in Int
         /\ got[c] \in Int /\ initial[c] \in Int /\ version \in Int /\ shown \in Int
         /\ \A k \in Polls : poll[k].answer \in Int
<1>1. queue[c] \in Seq(1 .. MaxVersion) /\ Len(queue[c]) <= Capacity
  BY DEF StreamCore, StreamTypeOK
<1>2. queue[c] \in Seq(Int)
  BY <1>1, StreamAssumption
<1>3. got[c] \in Int /\ initial[c] \in Int /\ version \in Int /\ shown \in Int
  BY StreamAssumption DEF StreamCore, StreamTypeOK, Fallback
<1>4. \A k \in Polls : poll[k].answer \in Int
  BY StreamAssumption DEF StreamCore, StreamTypeOK, Fallback
<1>5. QED
  BY <1>1, <1>2, <1>3, <1>4

LEMMA SendInitialStream == ASSUME StreamCore, NEW c \in Conns, SendInitial(c) PROVE StreamCore'
<1> USE StreamAssumption
<1> DEFINE more == Append(queue[c], initial[c])
<1>1. /\ StreamTypeOK /\ ConnInv /\ PageInv /\ StreamIsCurrent /\ StreamInOrder
      /\ cpc[c] = "subscribing" /\ Len(queue[c]) < Capacity
      /\ UNCHANGED <<version, initial, got, pageVars, history>>
  BY DEF StreamCore, SendInitial
<1>2. cpc'[c] = "streaming" /\ \A d \in Conns : d # c => cpc'[d] = cpc[d]
  BY <1>1 DEF SendInitial, StreamTypeOK
<1>3. queue'[c] = more /\ \A d \in Conns : d # c => queue'[d] = queue[d]
  BY <1>1 DEF SendInitial, StreamTypeOK
<1>4. /\ got[c] = Fallback /\ 1 <= initial[c] /\ initial[c] <= version
      /\ early[c] <=> queue[c] # <<>>
      /\ queue[c] = <<>> => version = initial[c]
  BY <1>1 DEF ConnInv, Subscribed
<1>5. /\ queue[c] \in Seq(Int) /\ initial[c] \in Int /\ Len(queue[c]) \in Nat
      /\ queue[c] \in Seq(1 .. MaxVersion)
      /\ queue[c] = <<>> <=> Len(queue[c]) = 0
  BY ConnTypes
<1>6. initial[c] \in 1 .. MaxVersion
  BY <1>1, <1>4, <1>5 DEF StreamTypeOK, Fallback
<1>7. /\ more # <<>> /\ Len(more) = Len(queue[c]) + 1 /\ more[Len(more)] = initial[c]
      /\ \A i \in 1 .. Len(queue[c]) : more[i] = queue[c][i]
      /\ more \in Seq(1 .. MaxVersion)
  <2>1. more \in Seq(1 .. MaxVersion)
    BY <1>5, <1>6
  <2>2. QED
    BY <1>5, <2>1, Appended
<1> HIDE DEF more
<1>8. StreamTypeOK'
  <2>1. /\ queue' \in [Conns -> Seq(1 .. MaxVersion)]
        /\ \A d \in Conns : Len(queue'[d]) <= Capacity
    <3>1. queue' = [queue EXCEPT ![c] = more]
      BY DEF SendInitial, more
    <3>2. Len(more) <= Capacity
      BY <1>1, <1>5, <1>7
    <3>3. QED
      BY <1>1, <1>3, <1>7, <3>1, <3>2 DEF StreamTypeOK
  <2>2. cpc' \in [Conns -> {"unused", "subscribing", "streaming", "closed"}]
    BY <1>1 DEF StreamTypeOK, SendInitial
  <2>3. QED
    BY <1>1, <2>1, <2>2 DEF StreamTypeOK, pageVars, history
<1>9. ConnInv'
  <2> SUFFICES ASSUME NEW d \in Conns PROVE ConnInv!(d)'
    BY DEF ConnInv
  <2>1. CASE d # c
    BY <1>1, <1>2, <1>3, <2>1 DEF ConnInv, Subscribed, LastOnWay, pageVars, history
  <2>2. CASE d = c
    <3>1. ASSUME NEW i \in 1 .. Len(more) PROVE more[i] <= version
      <4>1. CASE i \in 1 .. Len(queue[c])
        BY <1>1, <1>7, <4>1 DEF ConnInv
      <4>2. CASE i = Len(more)
        BY <1>4, <1>7, <4>2
      <4>3. QED
        BY <1>5, <1>7, <4>1, <4>2
    <3>2. got[c] <= version
      BY <1>1 DEF ConnInv
    <3>3. QED
      BY <1>1, <1>2, <1>3, <1>4, <2>2, <3>1, <3>2 DEF Subscribed
  <2>3. QED
    BY <2>1, <2>2
<1>10. PageInv'
  BY <1>1 DEF PageInv, pageVars, history
<1>11. StreamIsCurrent'
  <2> SUFFICES ASSUME NEW d \in Conns, cpc'[d] = "streaming", ~full'[d]
               PROVE  LastOnWay(d)' = version' \/ (early'[d] /\ LastOnWay(d)' = initial'[d])
    BY DEF StreamIsCurrent
  <2>1. CASE d # c
    BY <1>1, <1>2, <1>3, <2>1 DEF StreamIsCurrent, LastOnWay, history
  <2>2. CASE d = c
    BY <1>1, <1>3, <1>4, <1>7, <2>2 DEF LastOnWay, history
  <2>3. QED
    BY <2>1, <2>2
<1>12. StreamInOrder'
  <2> SUFFICES ASSUME NEW d \in Conns, cpc'[d] = "streaming", ~early'[d]
               PROVE  StreamInOrder!(d)!2'
    BY DEF StreamInOrder
  <2>1. CASE d # c
    BY <1>1, <1>2, <1>3, <2>1 DEF StreamInOrder, history
  <2>2. CASE d = c
    <3>1. Len(more) = 1 /\ more[1] = initial[c]
      BY <1>1, <1>4, <1>5, <1>7, <2>2 DEF history
    <3>2. got'[c] = 0 /\ 0 < initial[c]
      BY <1>1, <1>4, <1>5 DEF Fallback
    <3>3. QED
      BY <1>3, <2>2, <3>1, <3>2
  <2>3. QED
    BY <2>1, <2>2
<1>13. QED
  BY <1>8, <1>9, <1>10, <1>11, <1>12 DEF StreamCore

\* What is left of a channel when its first snapshot is received.
LEMMA Received ==
  ASSUME NEW S, NEW q \in Seq(S), q # <<>>
  PROVE  /\ Tail(q) \in Seq(S) /\ Len(Tail(q)) = Len(q) - 1 /\ Len(q) \in Nat /\ Len(q) > 0
         /\ Head(q) = q[1] /\ q[1] \in S
         /\ \A i \in 1 .. Len(q) - 1 : Tail(q)[i] = q[i + 1]
OBVIOUS

LEMMA DeliverStream == ASSUME StreamCore, NEW c \in Conns, Deliver(c) PROVE StreamCore'
<1> USE StreamAssumption
<1> DEFINE rest == Tail(queue[c])
           next == Head(queue[c])
<1>1. /\ StreamTypeOK /\ ConnInv /\ PageInv /\ StreamIsCurrent /\ StreamInOrder
      /\ cpc[c] = "streaming" /\ queue[c] # <<>>
      /\ UNCHANGED <<version, cpc, initial, current, polling, poll, faults, full, early, failed>>
  BY DEF StreamCore, Deliver
<1>2. /\ got'[c] = next /\ queue'[c] = rest
      /\ \A d \in Conns : d # c => got'[d] = got[d] /\ queue'[d] = queue[d]
  BY <1>1 DEF StreamTypeOK, Deliver
<1>3. IF c = current
        THEN /\ shown' = next
             /\ crossed' = (crossed \/ \E k \in Polls : poll[k].at = "answered")
        ELSE UNCHANGED <<shown, crossed>>
  BY DEF Deliver, ShowEvent
<1>4. /\ queue[c] \in Seq(Int) /\ queue[c] \in Seq(1 .. MaxVersion) /\ Len(queue[c]) <= Capacity
      /\ version \in Int /\ got[c] \in Int
  BY ConnTypes
<1>5. /\ rest \in Seq(1 .. MaxVersion) /\ Len(rest) = Len(queue[c]) - 1 /\ Len(queue[c]) > 0
      /\ Len(queue[c]) \in Nat /\ next = queue[c][1] /\ next \in 1 .. MaxVersion
      /\ \A i \in 1 .. Len(queue[c]) - 1 : rest[i] = queue[c][i + 1]
  BY <1>1, <1>4, Received
<1> HIDE DEF rest, next
<1>6. rest = <<>> <=> Len(rest) = 0
  <2>1. rest \in Seq(1 .. MaxVersion)
    BY <1>5
  <2>2. QED
    BY <2>1
<1>7. next <= version
  BY <1>1, <1>5 DEF ConnInv
<1>8. StreamTypeOK'
  <2>1. /\ queue' \in [Conns -> Seq(1 .. MaxVersion)]
        /\ \A d \in Conns : Len(queue'[d]) <= Capacity
    <3>1. queue' = [queue EXCEPT ![c] = rest]
      BY DEF Deliver, rest
    <3>2. Len(rest) <= Capacity
      BY <1>4, <1>5
    <3>3. QED
      BY <1>1, <1>2, <1>5, <3>1, <3>2 DEF StreamTypeOK
  <2>2. next \in Fallback .. MaxVersion
    BY <1>5 DEF Fallback
  <2>3. got' \in [Conns -> Fallback .. MaxVersion]
    <3>1. got' = [got EXCEPT ![c] = next]
      BY DEF Deliver, next
    <3>2. QED
      BY <1>1, <2>2, <3>1 DEF StreamTypeOK
  <2>4. shown' \in Fallback .. MaxVersion /\ crossed' \in BOOLEAN
    BY <1>1, <1>3, <2>2 DEF StreamTypeOK
  <2>5. QED
    BY <1>1, <2>1, <2>3, <2>4 DEF StreamTypeOK
<1>9. ConnInv'
  <2> SUFFICES ASSUME NEW d \in Conns PROVE ConnInv!(d)'
    BY DEF ConnInv
  <2>1. CASE d # c
    BY <1>1, <1>2, <2>1 DEF ConnInv, Subscribed, LastOnWay
  <2>2. CASE d = c
    <3>1. ASSUME NEW i \in 1 .. Len(rest) PROVE rest[i] <= version
      <4>1. rest[i] = queue[c][i + 1] /\ i + 1 \in 1 .. Len(queue[c])
        BY <1>5
      <4>2. QED
        BY <1>1, <4>1 DEF ConnInv
    <3>2. 1 <= initial[c] /\ initial[c] <= version
      BY <1>1 DEF ConnInv, Subscribed
    <3>3. QED
      BY <1>1, <1>2, <1>7, <2>2, <3>1, <3>2 DEF Subscribed
  <2>3. QED
    BY <2>1, <2>2
<1>10. PageInv'
  <2>1. CASE c = current
    <3>1. shown' = next /\ crossed' = (crossed \/ \E k \in Polls : poll[k].at = "answered")
      BY <1>3, <2>1
    <3>2. next <= next
      BY <1>5
    <3>3. QED
      BY <1>1, <1>2, <1>7, <2>1, <3>1, <3>2 DEF PageInv
  <2>2. CASE c # current
    BY <1>1, <1>2, <1>3, <2>2 DEF PageInv
  <2>3. QED
    BY <2>1, <2>2
<1>11. StreamIsCurrent'
  <2> SUFFICES ASSUME NEW d \in Conns, cpc'[d] = "streaming", ~full'[d]
               PROVE  LastOnWay(d)' = version' \/ (early'[d] /\ LastOnWay(d)' = initial'[d])
    BY DEF StreamIsCurrent
  <2>1. CASE d # c
    BY <1>1, <1>2, <2>1 DEF StreamIsCurrent, LastOnWay
  <2>2. CASE d = c
    <3>1. LastOnWay(c)' = LastOnWay(c)
      <4>1. CASE rest = <<>>
        BY <1>1, <1>2, <1>5, <1>6, <4>1 DEF LastOnWay
      <4>2. CASE rest # <<>>
        <5>1. Len(rest) \in 1 .. Len(queue[c]) - 1 /\ rest[Len(rest)] = queue[c][Len(queue[c])]
          BY <1>5, <1>6, <4>2
        <5>2. QED
          BY <1>1, <1>2, <4>2, <5>1 DEF LastOnWay
      <4>3. QED
        BY <4>1, <4>2
    <3>2. QED
      BY <1>1, <2>2, <3>1 DEF StreamIsCurrent
  <2>3. QED
    BY <2>1, <2>2
<1>12. StreamInOrder'
  <2> SUFFICES ASSUME NEW d \in Conns, cpc'[d] = "streaming", ~early'[d]
               PROVE  StreamInOrder!(d)!2'
    BY DEF StreamInOrder
  <2>1. CASE d # c
    BY <1>1, <1>2, <2>1 DEF StreamInOrder
  <2>2. CASE d = c
    <3>1. \A i, j \in 1 .. Len(queue[c]) : i < j => queue[c][i] < queue[c][j]
      BY <1>1, <2>2 DEF StreamInOrder
    <3>2. ASSUME NEW i \in 1 .. Len(rest)
          PROVE  rest[i] = queue[c][i + 1] /\ i + 1 \in 1 .. Len(queue[c]) /\ 1 < i + 1
      BY <1>5
    <3>3. ASSUME NEW i \in 1 .. Len(rest) PROVE next < rest[i]
      <4>1. 1 \in 1 .. Len(queue[c])
        BY <1>5
      <4>2. QED
        BY <1>5, <3>1, <3>2, <4>1
    <3>4. ASSUME NEW i \in 1 .. Len(rest), NEW j \in 1 .. Len(rest), i < j
          PROVE  rest[i] < rest[j]
      <4>1. i + 1 < j + 1
        BY <1>5, <3>4
      <4>2. QED
        BY <3>1, <3>2, <4>1
    <3>5. QED
      BY <1>2, <2>2, <3>3, <3>4
  <2>3. QED
    BY <2>1, <2>2
<1>13. QED
  BY <1>8, <1>9, <1>10, <1>11, <1>12 DEF StreamCore

LEMMA UnsubscribeStream == ASSUME StreamCore, NEW c \in Conns, Unsubscribe(c) PROVE StreamCore'
<1> USE StreamAssumption
<1>1. /\ StreamTypeOK /\ ConnInv /\ PageInv /\ StreamIsCurrent /\ StreamInOrder
      /\ c # current /\ UNCHANGED <<version, pageVars, crossed, failed>>
  BY DEF StreamCore, Unsubscribe
<1>2. /\ cpc'[c] = "closed" /\ queue'[c] = <<>> /\ got'[c] = 0
      /\ \A d \in Conns : d # c =>
           /\ cpc'[d] = cpc[d] /\ queue'[d] = queue[d] /\ initial'[d] = initial[d]
           /\ got'[d] = got[d] /\ full'[d] = full[d] /\ early'[d] = early[d]
  BY <1>1 DEF Unsubscribe, StreamTypeOK, Fallback
<1>3. StreamTypeOK'
  <2>1. <<>> \in Seq(1 .. MaxVersion) /\ Len(<<>>) <= Capacity /\ Fallback \in Fallback .. MaxVersion
    BY DEF Fallback
  <2>2. /\ queue' \in [Conns -> Seq(1 .. MaxVersion)]
        /\ \A d \in Conns : Len(queue'[d]) <= Capacity
    BY <1>1, <1>2, <2>1 DEF StreamTypeOK, Unsubscribe
  <2>3. QED
    BY <1>1, <2>1, <2>2 DEF StreamTypeOK, Unsubscribe, pageVars
<1>4. ConnInv'
  <2> SUFFICES ASSUME NEW d \in Conns PROVE ConnInv!(d)'
    BY DEF ConnInv
  <2>1. CASE d # c
    BY <1>1, <1>2, <2>1 DEF ConnInv, Subscribed, LastOnWay, pageVars
  <2>2. CASE d = c
    <3>1. 0 <= version /\ Len(<<>>) = 0
      BY <1>1 DEF StreamTypeOK
    <3>2. QED
      BY <1>1, <1>2, <2>2, <3>1 DEF Subscribed, pageVars
  <2>3. QED
    BY <2>1, <2>2
<1>5. PageInv'
  BY <1>1, <1>2 DEF PageInv, pageVars
<1>6. StreamIsCurrent' /\ StreamInOrder'
  BY <1>1, <1>2 DEF StreamIsCurrent, StreamInOrder, LastOnWay
<1>7. QED
  BY <1>3, <1>4, <1>5, <1>6 DEF StreamCore

LEMMA ConnectStream == ASSUME StreamCore, NEW c \in Conns, Connect(c) PROVE StreamCore'
<1> USE StreamAssumption
<1>1. /\ StreamTypeOK /\ ConnInv /\ PageInv /\ StreamIsCurrent /\ StreamInOrder
      /\ current = NoConn /\ cpc[c] = "unused" /\ current' = c
      /\ UNCHANGED <<version, queue, got, shown, polling, poll, faults, history>>
  BY DEF StreamCore, Connect
<1>2. /\ cpc'[c] = "subscribing" /\ initial'[c] = version
      /\ \A d \in Conns : d # c => cpc'[d] = cpc[d] /\ initial'[d] = initial[d]
  BY <1>1 DEF Connect, StreamTypeOK
<1>3. /\ queue[c] = <<>> /\ got[c] = 0 /\ ~full[c] /\ ~early[c]
  BY <1>1 DEF ConnInv, Fallback
<1>4. version \in Fallback .. MaxVersion /\ 1 <= version /\ version \in Int /\ Len(<<>>) = 0
  BY <1>1 DEF StreamTypeOK, Fallback
<1>5. StreamTypeOK'
  BY <1>1, <1>4 DEF StreamTypeOK, Connect, history
<1>6. ConnInv'
  <2> SUFFICES ASSUME NEW d \in Conns PROVE ConnInv!(d)'
    BY DEF ConnInv
  <2>1. CASE d # c
    BY <1>1, <1>2, <2>1 DEF ConnInv, Subscribed, LastOnWay, history
  <2>2. CASE d = c
    <3>1. version + 0 <= version /\ 0 <= version /\ Len(queue[c]) = 0
      BY <1>3, <1>4
    <3>2. QED
      BY <1>1, <1>2, <1>3, <1>4, <2>2, <3>1 DEF Subscribed, history, Fallback
  <2>3. QED
    BY <2>1, <2>2
<1>7. PageInv'
  <2>1. /\ shown <= version /\ \A k \in Polls : poll[k].answer <= version /\ 0 <= poll[k].answer
        /\ 0 <= shown
    BY <1>1 DEF PageInv, StreamTypeOK, Fallback
  <2>2. QED
    BY <1>1, <1>3, <2>1 DEF PageInv, history
<1>8. StreamIsCurrent' /\ StreamInOrder'
  BY <1>1, <1>2 DEF StreamIsCurrent, StreamInOrder, LastOnWay, history
<1>9. QED
  BY <1>5, <1>6, <1>7, <1>8 DEF StreamCore

\* The steps that touch nothing of a connection but which one is the page's.
LEMMA PageStepStream ==
  ASSUME StreamCore, UNCHANGED <<version, connVars, full, early>>,
         current' \in {current, NoConn}, StreamTypeOK', PageInv'
  PROVE  StreamCore'
<1>1. ConnInv /\ StreamIsCurrent /\ StreamInOrder /\ NoConn \notin Conns
  BY StreamAssumption DEF StreamCore
<1>2. ConnInv'
  <2> SUFFICES ASSUME NEW d \in Conns PROVE ConnInv!(d)'
    BY DEF ConnInv
  <2>1. d = current' => d = current
    BY <1>1
  <2>2. QED
    BY <1>1, <2>1 DEF ConnInv, connVars, Subscribed, LastOnWay
<1>3. StreamIsCurrent' /\ StreamInOrder'
  BY <1>1 DEF StreamIsCurrent, StreamInOrder, LastOnWay, connVars
<1>4. QED
  BY <1>2, <1>3 DEF StreamCore

LEMMA BreakStream == StreamCore /\ Break => StreamCore'
<1> SUFFICES ASSUME StreamCore, Break PROVE StreamCore'
  OBVIOUS
<1>1. StreamTypeOK /\ PageInv /\ NoConn \notin Conns
  BY StreamAssumption DEF StreamCore
<1>2. /\ UNCHANGED <<version, connVars, shown, poll, history>> /\ current' = NoConn
      /\ faults < MaxFaults /\ faults' = faults + 1 /\ polling' = TRUE
  BY DEF Break
<1>3. StreamTypeOK'
  BY <1>1, <1>2, StreamAssumption DEF StreamTypeOK, connVars, history
<1>4. PageInv'
  BY <1>1, <1>2 DEF PageInv, connVars, history
<1>5. QED
  BY <1>2, <1>3, <1>4, PageStepStream DEF history

LEMMA AskStream == ASSUME StreamCore, NEW k \in Polls, Ask(k) PROVE StreamCore'
<1>1. StreamTypeOK /\ PageInv
  BY DEF StreamCore
<1>2. /\ poll' = [poll EXCEPT ![k].at = "asked"]
      /\ UNCHANGED <<version, connVars, current, shown, polling, faults, history>>
  BY DEF Ask
<1>3. StreamTypeOK'
  BY <1>1, <1>2 DEF StreamTypeOK, connVars, history
<1>4. \A j \in Polls : /\ poll'[j].answer = poll[j].answer
                       /\ poll'[j].at = "answered" => poll[j].at = "answered"
  BY <1>1, <1>2 DEF StreamTypeOK
<1>5. PageInv'
  BY <1>1, <1>2, <1>4 DEF PageInv, connVars, history
<1>6. QED
  BY <1>2, <1>3, <1>5, PageStepStream DEF history

LEMMA AnswerStream == ASSUME StreamCore, NEW k \in Polls, Answer(k) PROVE StreamCore'
<1>1. StreamTypeOK /\ PageInv /\ ConnInv
  BY DEF StreamCore
<1>2. /\ poll' = [poll EXCEPT ![k] = [at |-> "answered", answer |-> version]]
      /\ UNCHANGED <<version, connVars, current, shown, polling, faults, history>>
  BY DEF Answer
<1>3. StreamTypeOK'
  <2>1. version \in Fallback .. MaxVersion
    BY <1>1, StreamAssumption DEF StreamTypeOK, Fallback
  <2>2. QED
    BY <1>1, <1>2, <2>1 DEF StreamTypeOK, connVars, history
<1>4. \A j \in Polls : j # k => poll'[j] = poll[j]
  BY <1>1, <1>2 DEF StreamTypeOK
<1>5. poll'[k].answer = version
  BY <1>1, <1>2 DEF StreamTypeOK
<1>6. version <= version /\ \A c \in Conns : got[c] <= version
  BY <1>1 DEF ConnInv, StreamTypeOK
<1>7. PageInv'
  BY <1>1, <1>2, <1>4, <1>5, <1>6 DEF PageInv, connVars, history
<1>8. QED
  BY <1>2, <1>3, <1>7, PageStepStream DEF history

LEMMA ArriveStream == ASSUME StreamCore, NEW k \in Polls, Arrive(k) PROVE StreamCore'
<1>1. StreamTypeOK /\ PageInv
  BY DEF StreamCore
<1>2. /\ poll[k].at = "answered" /\ shown' = poll[k].answer
      /\ poll' = [poll EXCEPT ![k] = NoRequest]
      /\ UNCHANGED <<version, connVars, current, polling, faults, history>>
  BY DEF Arrive, ShowAnswer
<1>3. /\ \A j \in Polls : j # k => poll'[j] = poll[j]
      /\ poll'[k].at = "idle" /\ poll'[k].answer = 0
      /\ 0 <= version /\ poll[k].answer \in Fallback .. MaxVersion
      /\ NoRequest \in [at : {"idle", "asked", "answered"}, answer : Fallback .. MaxVersion]
  BY <1>1, <1>2, StreamAssumption DEF StreamTypeOK, NoRequest, Fallback
<1>4. StreamTypeOK'
  BY <1>1, <1>2, <1>3 DEF StreamTypeOK, connVars, history
<1>5. PageInv'
  BY <1>1, <1>2, <1>3 DEF PageInv, connVars, history
<1>6. QED
  BY <1>2, <1>4, <1>5, PageStepStream DEF history

LEMMA RefreshFailsStream == ASSUME StreamCore, NEW k \in Polls, RefreshFails(k) PROVE StreamCore'
<1>1. StreamTypeOK /\ PageInv
  BY DEF StreamCore
<1>2. /\ faults < MaxFaults /\ faults' = faults + 1 /\ shown' = Fallback
      /\ poll' = [poll EXCEPT ![k] = NoRequest] /\ failed' = TRUE
      /\ UNCHANGED <<version, connVars, current, polling, full, early, crossed>>
  BY DEF RefreshFails
<1>3. /\ \A j \in Polls : j # k => poll'[j] = poll[j]
      /\ poll'[k].answer = 0 /\ 0 <= version /\ Fallback \in Fallback .. MaxVersion
      /\ NoRequest \in [at : {"idle", "asked", "answered"}, answer : Fallback .. MaxVersion]
  BY <1>1, <1>2, StreamAssumption DEF StreamTypeOK, NoRequest, Fallback
<1>4. StreamTypeOK'
  BY <1>1, <1>2, <1>3, StreamAssumption DEF StreamTypeOK, connVars
<1>5. PageInv'
  BY <1>1, <1>2, <1>3 DEF PageInv, connVars, Fallback
<1>6. QED
  BY <1>2, <1>4, <1>5, PageStepStream

LEMMA StreamStep == StreamCore /\ [StreamNext]_streamVars => StreamCore'
<1> SUFFICES ASSUME StreamCore, [StreamNext]_streamVars PROVE StreamCore'
  OBVIOUS
<1>1. CASE Broadcast
  BY <1>1, BroadcastStream
<1>2. CASE Break
  BY <1>2, BreakStream
<1>3. ASSUME NEW c \in Conns, Connect(c) \/ HandlerStep(c) PROVE StreamCore'
  BY <1>3, ConnectStream, SendInitialStream, DeliverStream, UnsubscribeStream DEF HandlerStep
<1>4. ASSUME NEW k \in Polls, PollStep(k) \/ RefreshFails(k) PROVE StreamCore'
  BY <1>4, AskStream, AnswerStream, ArriveStream, RefreshFailsStream DEF PollStep
<1>5. CASE UNCHANGED streamVars
  <2>1. StreamTypeOK' /\ PageInv'
    BY <1>5 DEF StreamCore, StreamTypeOK, PageInv, streamVars, connVars, pageVars, history
  <2>2. UNCHANGED <<version, connVars, full, early>> /\ current' = current
    BY <1>5 DEF streamVars, pageVars, history
  <2>3. QED
    BY <2>1, <2>2, PageStepStream
<1>6. QED
  BY <1>1, <1>2, <1>3, <1>4, <1>5 DEF StreamNext

\* StreamInv: a stream that lost nothing carries the store's snapshot last, and
\* carries them in order; a page that waits for nothing shows it; Subscribe finds
\* a place for the first one.  For any number of connections, requests and changes.
THEOREM StreamSafe == StreamSpec => []StreamInv
<1>1. StreamCore => StreamInv
  BY QuietAndRoom DEF StreamCore, StreamInv
<1>2. QED
  BY StreamInitCore, StreamStep, <1>1, PTL DEF StreamSpec

\* The safety half of SubscribeReturns: a handler that is still in Subscribe can
\* send its first snapshot, or as many changes as the channel holds came meanwhile.
THEOREM SubscribeCanSend ==
  StreamSpec => [](\A c \in Conns :
                     cpc[c] = "subscribing" /\ Len(queue[c]) = Capacity =>
                       version >= initial[c] + Capacity)
<1>1. ASSUME StreamInv, NEW c \in Conns, cpc[c] = "subscribing", Len(queue[c]) = Capacity
      PROVE  version >= initial[c] + Capacity
  <2>1. initial[c] + Len(queue[c]) <= version
    BY <1>1 DEF StreamInv, ConnInv
  <2>2. initial[c] \in Int /\ version \in Int /\ Capacity \in Int
    BY <1>1, StreamAssumption DEF StreamInv, StreamTypeOK, Fallback
  <2>3. QED
    BY <1>1, <2>1, <2>2
<1>2. StreamInv => \A c \in Conns :
                     cpc[c] = "subscribing" /\ Len(queue[c]) = Capacity =>
                       version >= initial[c] + Capacity
  BY <1>1
<1>3. QED
  BY StreamSafe, <1>2, PTL
=============================================================================
