--------------------------- MODULE WebSessionsProofs ---------------------------
(***************************************************************************)
(* Proofs about the sessions of the web server, for any number of          *)
(* sessions, runs, clients, requests, restarts and failed Saves:           *)
(* SessionsInv is inductive, the properties of the runs follow from it,    *)
(* and a run that was begun can go on and only goes forward.               *)
(***************************************************************************)
EXTENDS WebSessions, TLAPS

USE WebSessionsAssumption

Objects == [status : Status \cup {"none"}, archived : BOOLEAN,
            history : SUBSET Messages, sup : Runs \cup {None},
            cancel : Runs \cup {None}, active : Runs \cup {None}]

\* The variables as functions.
LEMMA Typed ==
  ASSUME TypeOK
  PROVE  /\ session \in [Sessions -> Objects] /\ pc \in [Calls -> Places]
         /\ target \in [Calls -> Sessions \cup {None}] /\ supervisor \in [Runs -> Runs \cup {None}]
         /\ callback \in [Runs -> Runs \cup {None}] /\ copy \in [Calls -> [Sessions -> Entries]]
         /\ stage \in [Calls -> {"none", "due", "copied", "raced"}]
         /\ live \subseteq Sessions /\ cancelled \subseteq Runs /\ overtaken \subseteq Sessions
         /\ file \in [is : {"whole", "garbled"}, holds : [Sessions -> Entries]]
         /\ Runs \subseteq Calls /\ Clients \subseteq Calls
BY DEF TypeOK, Objects, Calls

(***************************************************************************)
(* What the actions do to a session, field by field.                       *)
(***************************************************************************)
\* The call goes to a place, the others stay where they are.
OnlyMoves(a, place) ==
  pc'[a] = place /\ \A b \in Calls : b # a => pc'[b] = pc[b]

\* The call has to save; nobody else's Save is disturbed.
OnlySaves(a, place) ==
  /\ OnlyMoves(a, place)
  /\ stage'[a] = "due" /\ \A b \in Calls : b # a => stage'[b] = stage[b]
  /\ UNCHANGED <<file, copy, overlapped, failed>>

\* The other sessions stay as they are.
OnlyChanges(s) == \A t \in Sessions : t # s => session'[t] = session[t]

LEMMA SaveAtFacts ==
  ASSUME TypeOK, NEW a \in Calls, NEW place, SaveAt(a, place)
  PROVE  OnlySaves(a, place)
BY Typed DEF SaveAt, saveVars, OnlySaves, OnlyMoves

LEMMA CreateFacts ==
  ASSUME TypeOK, NEW a \in Calls, NEW n \in Sessions, NEW place, CreateFor(a, n, place)
  PROVE  /\ n \notin live /\ session[n].status = "none" /\ live' = live \cup {n}
         /\ session'[n] = Fresh(Idle) /\ OnlyChanges(n)
         /\ target'[a] = n /\ \A b \in Calls : b # a => target'[b] = target[b]
         /\ OnlySaves(a, place) /\ UNCHANGED <<supervisor, cancelled, callback, overtaken>>
BY Typed, SaveAtFacts DEF CreateFor, OnlyChanges, runVars

LEMMA StartFacts ==
  ASSUME TypeOK, NEW r \in Runs, Start(r), target[r] \in Sessions
  PROVE  LET s == target[r] old == session[s].active IN
         /\ pc[r] = "checked" /\ session[s].status # "running"
         /\ session'[s].status = "running" /\ session'[s].active = r /\ session'[s].cancel = r
         /\ session'[s].sup = IF old # None THEN None ELSE session[s].sup
         /\ session'[s].history = session[s].history \cup {<<"ask", r>>}
         /\ session'[s].archived = session[s].archived
         /\ OnlyChanges(s) /\ OnlySaves(r, "started")
         /\ overtaken' = IF old # None /\ pc[old] \in {"started", "ensuring"}
                         THEN overtaken \cup {s} ELSE overtaken
         /\ UNCHANGED <<live, target, supervisor, cancelled, callback>>
<1>1. OnlySaves(r, "started")
  BY Typed, SaveAtFacts DEF Start
<1> DEFINE s == target[r]
           old == session[s].active
<1>2. session' = [session EXCEPT
                    ![s].status = "running", ![s].active = r, ![s].cancel = r,
                    ![s].sup = IF old # None THEN None ELSE @,
                    ![s].history = @ \cup {<<"ask", r>>}]
  BY DEF Start
<1>3. session \in [Sessions -> Objects] /\ s \in Sessions
  BY Typed
<1> HIDE DEF s, old
<1>4. /\ session'[s].status = "running" /\ session'[s].active = r /\ session'[s].cancel = r
      /\ session'[s].sup = IF old # None THEN None ELSE session[s].sup
      /\ session'[s].history = session[s].history \cup {<<"ask", r>>}
      /\ session'[s].archived = session[s].archived
      /\ OnlyChanges(s)
  BY <1>2, <1>3 DEF OnlyChanges, Objects
<1> QED
  BY <1>1, <1>4 DEF Start, s, old

LEMMA EnsureFacts ==
  ASSUME TypeOK, NEW r \in Runs, EnsureSupervisor(r), target[r] \in Sessions
  PROVE  LET s == target[r] v == IF session[s].sup # None THEN session[s].sup ELSE r IN
         /\ pc[r] = "ensuring" /\ OnlyMoves(r, "prompting")
         /\ v \in Runs
         /\ supervisor'[r] = v /\ \A q \in Runs : q # r => supervisor'[q] = supervisor[q]
         /\ callback'[v] = r /\ \A w \in Runs : w # v => callback'[w] = callback[w]
         /\ session'[s] = [session[s] EXCEPT !.sup = v] /\ OnlyChanges(s)
         /\ UNCHANGED <<live, target, stage, file, copy, overlapped, failed, cancelled, overtaken>>
<1> DEFINE s == target[r]
           v == IF session[s].sup # None THEN session[s].sup ELSE r
<1>1. session[s] \in Objects /\ session[s].sup \in Runs \cup {None}
  BY Typed DEF Objects
<1>2. v \in Runs
  BY <1>1
<1>3. supervisor' = [supervisor EXCEPT ![r] = v]
  BY DEF EnsureSupervisor
<1>4. supervisor'[r] = v /\ \A q \in Runs : q # r => supervisor'[q] = supervisor[q]
  BY <1>3, Typed
<1>5. callback' = [callback EXCEPT ![v] = r] /\ session' = [session EXCEPT ![s].sup = v]
  BY <1>4 DEF EnsureSupervisor
<1>6. /\ callback'[v] = r /\ \A w \in Runs : w # v => callback'[w] = callback[w]
      /\ session'[s] = [session[s] EXCEPT !.sup = v] /\ OnlyChanges(s)
  BY <1>2, <1>5, Typed DEF OnlyChanges
<1>7. OnlyMoves(r, "prompting")
  BY Typed DEF EnsureSupervisor, OnlyMoves
<1> QED
  BY <1>2, <1>4, <1>6, <1>7 DEF EnsureSupervisor, saveVars

LEMMA EndFacts ==
  ASSUME TypeOK, NEW r \in Runs, NEW outcome, End(r, outcome), target[r] \in Sessions
  PROVE  LET s == target[r] IN
         /\ pc[r] = "prompting" /\ session[s].active = r
         /\ session'[s].cancel = None /\ session'[s].active = None
         /\ session'[s].status = EndStatus(r, outcome)
         /\ session'[s].sup = session[s].sup /\ session'[s].archived = session[s].archived
         /\ session'[s].history \in {session[s].history, session[s].history \cup {<<"answer", r>>}}
         /\ OnlyChanges(s) /\ OnlySaves(r, "saving")
         /\ callback' = [callback EXCEPT ![supervisor[r]] = None]
         /\ target'[r] = None /\ \A b \in Calls : b # r => target'[b] = target[b]
         /\ supervisor'[r] = None /\ \A q \in Runs : q # r => supervisor'[q] = supervisor[q]
         /\ cancelled' = cancelled \ {r} /\ UNCHANGED <<live, overtaken>>
<1> DEFINE s == target[r]
<1>1. OnlySaves(r, "saving")
  BY Typed, SaveAtFacts DEF End
<1>2. session' = [session EXCEPT
                    ![s].cancel = None, ![s].active = None, ![s].status = EndStatus(r, outcome),
                    ![s].history = IF outcome = "answer" THEN @ \cup {<<"answer", r>>} ELSE @]
  BY DEF End
<1>3. session \in [Sessions -> Objects] /\ s \in Sessions
  BY Typed
<1>4. /\ target'[r] = None /\ \A b \in Calls : b # r => target'[b] = target[b]
      /\ supervisor'[r] = None /\ \A q \in Runs : q # r => supervisor'[q] = supervisor[q]
      /\ cancelled' = cancelled \ {r}
  BY Typed DEF End, Forget
<1> HIDE DEF s
<1>5. /\ session'[s].cancel = None /\ session'[s].active = None
      /\ session'[s].status = EndStatus(r, outcome)
      /\ session'[s].sup = session[s].sup /\ session'[s].archived = session[s].archived
      /\ session'[s].history = IF outcome = "answer" THEN session[s].history \cup {<<"answer", r>>}
                               ELSE session[s].history
      /\ OnlyChanges(s)
  BY <1>2, <1>3 DEF OnlyChanges, Objects
<1> QED
  BY <1>1, <1>4, <1>5 DEF End, s

\* Archive, Cancel and Delete all cancel the session's run and forget it.
CancelsRun(c, s) ==
  /\ s \in live /\ session'[s].cancel = None
  /\ session'[s].active = session[s].active /\ session'[s].sup = session[s].sup
  /\ session'[s].history = session[s].history
  /\ OnlyChanges(s) /\ OnlySaves(c, "saving")
  /\ cancelled' = CancelledBy(s)
  /\ UNCHANGED <<target, supervisor, callback, overtaken>>

LEMMA CancelFacts ==
  ASSUME TypeOK, NEW c \in Clients, NEW s \in Sessions
  PROVE  /\ \A archived \in BOOLEAN : Archive(c, s, archived) =>
              /\ CancelsRun(c, s) /\ live' = live /\ session'[s].archived = archived
              /\ session'[s].status = IF archived THEN "archived" ELSE "idle"
         /\ Cancel(c, s) =>
              /\ CancelsRun(c, s) /\ live' = live /\ session'[s].archived = session[s].archived
              /\ session'[s].status = IF session[s].cancel # None THEN "cancelled" ELSE session[s].status
         /\ Delete(c, s) =>
              /\ CancelsRun(c, s) /\ live' = live \ {s} /\ session'[s].archived = session[s].archived
              /\ session'[s].status = session[s].status
<1>0. session \in [Sessions -> Objects] /\ c \in Calls
  BY Typed
<1>1. ASSUME NEW archived \in BOOLEAN, Archive(c, s, archived)
      PROVE  /\ CancelsRun(c, s) /\ live' = live /\ session'[s].archived = archived
             /\ session'[s].status = IF archived THEN "archived" ELSE "idle"
  <2>1. OnlySaves(c, "saving")
    BY <1>0, <1>1, SaveAtFacts DEF Archive
  <2> QED
    BY <1>0, <1>1, <2>1 DEF Archive, CancelsRun, OnlyChanges, Objects
<1>2. ASSUME Cancel(c, s)
      PROVE  /\ CancelsRun(c, s) /\ live' = live /\ session'[s].archived = session[s].archived
             /\ session'[s].status = IF session[s].cancel # None THEN "cancelled" ELSE session[s].status
  <2>1. OnlySaves(c, "saving")
    BY <1>0, <1>2, SaveAtFacts DEF Cancel
  <2> QED
    BY <1>0, <1>2, <2>1 DEF Cancel, CancelsRun, OnlyChanges, Objects
<1>3. ASSUME Delete(c, s)
      PROVE  /\ CancelsRun(c, s) /\ live' = live \ {s} /\ session'[s].archived = session[s].archived
             /\ session'[s].status = session[s].status
  <2>1. OnlySaves(c, "saving")
    BY <1>0, <1>3, SaveAtFacts DEF Delete
  <2> QED
    BY <1>0, <1>3, <2>1 DEF Delete, CancelsRun, OnlyChanges, Objects
<1> QED
  BY <1>1, <1>2, <1>3

LEMMA RecordFacts ==
  ASSUME TypeOK, NEW c \in Clients, NEW s \in Sessions, NEW status \in DirectStatus, Record(c, s, status)
  PROVE  /\ session'[s].status = status /\ status \in {"completed", "error"}
         /\ session'[s].cancel = session[s].cancel /\ session'[s].active = session[s].active
         /\ session'[s].sup = session[s].sup /\ session'[s].archived = session[s].archived
         /\ session'[s].history \in SUBSET Messages
         /\ session[s].history \subseteq session'[s].history /\ <<"ask", c>> \in session'[s].history
         /\ OnlyChanges(s) /\ OnlySaves(c, "saving")
         /\ target'[c] = None /\ \A b \in Calls : b # c => target'[b] = target[b]
         /\ UNCHANGED <<live, supervisor, cancelled, callback, overtaken>>
<1>0. session \in [Sessions -> Objects] /\ c \in Calls /\ target \in [Calls -> Sessions \cup {None}]
  BY Typed
<1>1. OnlySaves(c, "saving")
  BY <1>0, SaveAtFacts DEF Record
<1>2. <<"ask", c>> \in Messages /\ <<"answer", c>> \in Messages
  BY <1>0 DEF Messages
<1>3. session' = [session EXCEPT
       ![s].status = status,
       ![s].history = @ \cup {<<"ask", c>>} \cup (IF status = "completed" THEN {<<"answer", c>>} ELSE {})]
  BY DEF Record
<1>4. /\ session'[s].status = status
      /\ session'[s].cancel = session[s].cancel /\ session'[s].active = session[s].active
      /\ session'[s].sup = session[s].sup /\ session'[s].archived = session[s].archived
      /\ session'[s].history = session[s].history \cup {<<"ask", c>>}
                                 \cup (IF status = "completed" THEN {<<"answer", c>>} ELSE {})
      /\ session[s].history \in SUBSET Messages
      /\ OnlyChanges(s)
  BY <1>0, <1>3 DEF OnlyChanges, Objects
<1>5. session'[s].history \in SUBSET Messages
  BY <1>2, <1>4
<1> QED
  BY <1>0, <1>1, <1>4, <1>5 DEF Record, runVars

(***************************************************************************)
(* Types.                                                                  *)
(***************************************************************************)
LEMMA SnapshotType ==
  ASSUME TypeOK
  PROVE  /\ Snapshot \in [Sessions -> Entries] /\ Nothing \in [Sessions -> Entries]
         /\ Load(file) \in [Sessions -> Entries] /\ Idle \in Entries /\ Absent \in Entries
<1>1. Absent \in Entries /\ Idle \in Entries
  BY DEF Absent, Idle, Entries, Status
<1>2. Snapshot \in [Sessions -> Entries]
  <2>1. ASSUME NEW s \in Sessions
        PROVE  [status |-> session[s].status, archived |-> session[s].archived,
                history |-> session[s].history] \in Entries
    BY Typed DEF Objects, Entries
  <2> QED
    BY <1>1, <2>1 DEF Snapshot
<1>3. ASSUME NEW s \in Sessions, NEW e \in Entries
      PROVE  [e EXCEPT !.status = IF @ = "running" THEN "idle" ELSE @] \in Entries
  BY DEF Entries, Status
<1>4. Load(file) \in [Sessions -> Entries]
  BY <1>1, <1>3, Typed DEF Load
<1> QED
  BY <1>1, <1>2, <1>4 DEF Nothing

LEMMA FreshType ==
  ASSUME NEW e \in Entries
  PROVE  Fresh(e) \in Objects
BY DEF Fresh, Entries, Objects

\* A session with some of its fields changed is a session.
LEMMA EditedType ==
  ASSUME NEW f \in [Sessions -> Objects], NEW s \in Sessions
  PROVE  /\ \A x \in Status \cup {"none"} : [f EXCEPT ![s].status = x] \in [Sessions -> Objects]
         /\ \A x \in BOOLEAN : [f EXCEPT ![s].archived = x] \in [Sessions -> Objects]
         /\ \A x \in SUBSET Messages : [f EXCEPT ![s].history = x] \in [Sessions -> Objects]
         /\ \A x \in Runs \cup {None} :
              /\ [f EXCEPT ![s].sup = x] \in [Sessions -> Objects]
              /\ [f EXCEPT ![s].cancel = x] \in [Sessions -> Objects]
              /\ [f EXCEPT ![s].active = x] \in [Sessions -> Objects]
BY DEF Objects

LEMMA SaveAtType ==
  ASSUME TypeOK, NEW a \in Calls, NEW place \in Places, SaveAt(a, place)
  PROVE  /\ pc' \in [Calls -> Places] /\ stage' \in [Calls -> {"none", "due", "copied", "raced"}]
         /\ UNCHANGED <<file, copy, overlapped, failed>>
BY Typed DEF SaveAt, saveVars

\* The variables other than the ones an action is about keep their types.
TypeRest ==
  /\ live' \in SUBSET Sessions /\ session' \in [Sessions -> Objects]
  /\ pc' \in [Calls -> Places] /\ target' \in [Calls -> Sessions \cup {None}]
  /\ supervisor' \in [Runs -> Runs \cup {None}] /\ cancelled' \in SUBSET Runs
  /\ callback' \in [Runs -> Runs \cup {None}]
  /\ stage' \in [Calls -> {"none", "due", "copied", "raced"}]
  /\ copy' \in [Calls -> [Sessions -> Entries]]
  /\ file' \in [is : {"whole", "garbled"}, holds : [Sessions -> Entries]]
  /\ overlapped' \in BOOLEAN /\ failed' \in BOOLEAN /\ overtaken' \in SUBSET Sessions

LEMMA Retyped ==
  ASSUME TypeRest, requests' \in [Clients -> Nat], restarts' \in Nat, faults' \in Nat
  PROVE  TypeOK'
BY DEF TypeRest, TypeOK, Objects

LEMMA SaveStepType ==
  ASSUME TypeOK, NEW a \in Calls, SaveStep(a)
  PROVE  TypeOK'
<1>0. /\ requests \in [Clients -> Nat] /\ restarts \in Nat /\ faults \in Nat
      /\ overlapped \in BOOLEAN /\ failed \in BOOLEAN
  BY DEF TypeOK
<1>1. CASE Copy(a)
  <2>1. TypeRest
    BY <1>0, <1>1, Typed, SnapshotType DEF Copy, TypeRest, runVars
  <2> QED
    BY <1>0, <1>1, <2>1, Retyped DEF Copy, bounds
<1>2. CASE Write(a) \/ FailWrite(a)
  <2>1. Resumes(pc[a]) \in Places /\ SaveEnds(a)
    BY <1>2 DEF Resumes, Places, Write, FailWrite
  <2>2. Garbled \in [is : {"whole", "garbled"}, holds : [Sessions -> Entries]]
    BY SnapshotType DEF Garbled
  <2>3. file' \in [is : {"whole", "garbled"}, holds : [Sessions -> Entries]] /\ failed' \in BOOLEAN
    <3>1. CASE Write(a)
      <4>1. file' \in {[is |-> "whole", holds |-> copy[a]], Garbled} /\ failed' = FALSE
        BY <3>1 DEF Write
      <4>2. [is |-> "whole", holds |-> copy[a]] \in [is : {"whole", "garbled"}, holds : [Sessions -> Entries]]
        BY Typed
      <4> QED
        BY <2>2, <4>1, <4>2
    <3>2. CASE FailWrite(a)
      BY <2>2, <3>2, Typed DEF FailWrite
    <3> QED
      BY <1>2, <3>1, <3>2
  <2>4. stage' \in [Calls -> {"none", "due", "copied", "raced"}]
    BY <1>2, Typed DEF Write, FailWrite, Touched
  <2>5. TypeRest
    BY <1>0, <2>1, <2>3, <2>4, Typed, SnapshotType DEF SaveEnds, TypeRest, runVars
  <2>6. requests' = requests /\ restarts' = restarts /\ faults' \in Nat
    BY <1>0, <1>2 DEF Write, FailWrite, bounds
  <2> QED
    BY <1>0, <2>5, <2>6, Retyped
<1> QED
  BY <1>1, <1>2 DEF SaveStep

LEMMA RunType ==
  ASSUME TypeOK, NEW r \in Runs, CallsInv, RunArrives(r) \/ RunStep(r)
  PROVE  TypeOK'
<1>0. /\ requests \in [Clients -> Nat] /\ restarts \in Nat /\ faults \in Nat
      /\ overlapped \in BOOLEAN /\ failed \in BOOLEAN /\ r \in Calls
  BY DEF TypeOK, Calls
<1>1. CASE SaveStep(r)
  BY <1>0, <1>1, SaveStepType
<1>2. ASSUME NEW s \in Sessions, Get(r, s)
      PROVE  TypeOK'
  <2>1. TypeRest
    BY <1>0, <1>2, Typed DEF Get, TypeRest, Places, saveVars, runVars
  <2> QED
    BY <1>0, <1>2, <2>1, Retyped DEF Get, bounds
<1>3. ASSUME NEW n \in Sessions, CreateFor(r, n, "creating")
      PROVE  TypeOK'
  <2>1. SaveAt(r, "creating") /\ Fresh(Idle) \in Objects
    BY <1>3, SnapshotType, FreshType DEF CreateFor
  <2>2. TypeRest
    BY <1>0, <1>3, <2>1, SaveAtType, Typed DEF CreateFor, TypeRest, Places, runVars
  <2> QED
    BY <1>0, <1>3, <2>2, Retyped DEF CreateFor, bounds
<1>4. CASE CheckArchived(r)
  <2>1. TypeRest
    BY <1>0, <1>4, Typed DEF CheckArchived, TypeRest, Places, saveVars, runVars
  <2> QED
    BY <1>0, <1>4, <2>1, Retyped DEF CheckArchived, bounds
<1>5. CASE Refuse(r)
  <2>1. TypeRest
    BY <1>0, <1>5, Typed DEF Refuse, Leave, Forget, TypeRest, Places, saveVars
  <2> QED
    BY <1>0, <1>5, <2>1, Retyped DEF Refuse, bounds
<1>6. CASE Start(r)
  <2>1. SaveAt(r, "started") /\ target[r] \in Sessions
    BY <1>0, <1>6 DEF Start, CallsInv
  <2>2. <<"ask", r>> \in Messages
    BY <1>0 DEF Messages
  <2>3. session' \in [Sessions -> Objects]
    <3> DEFINE old == session[target[r]].active
               s == target[r]
    <3>1. session' = [session EXCEPT
                    ![s].status = "running", ![s].active = r, ![s].cancel = r,
                    ![s].sup = IF old # None THEN None ELSE @,
                    ![s].history = @ \cup {<<"ask", r>>}]
      BY <1>6 DEF Start
    <3>2. session \in [Sessions -> Objects] /\ s \in Sessions
      BY <2>1, Typed
    <3> DEFINE sup == IF old # None THEN None ELSE session[s].sup
               history == session[s].history \cup {<<"ask", r>>}
    <3>3. sup \in Runs \cup {None} /\ history \in SUBSET Messages /\ "running" \in Status
      BY <2>2, <3>2 DEF Objects, Status
    <3>4. session' = [session EXCEPT ![s].status = "running", ![s].active = r, ![s].cancel = r,
                                     ![s].sup = sup, ![s].history = history]
      BY <3>1, <3>2 DEF Objects
    <3> HIDE DEF old, s, sup, history
    <3> QED
      BY <3>2, <3>3, <3>4, EditedType
  <2>4. TypeRest
    BY <1>0, <1>6, <2>1, <2>3, SaveAtType, Typed DEF Start, TypeRest, Places
  <2> QED
    BY <1>0, <1>6, <2>4, Retyped DEF Start, bounds
<1>7. CASE EnsureSupervisor(r)
  <2>1. target[r] \in Sessions
    BY <1>0, <1>7 DEF EnsureSupervisor, CallsInv, InFlight
  <2> DEFINE s == target[r]
             v == IF session[s].sup # None THEN session[s].sup ELSE r
  <2>2. session[s] \in Objects /\ v \in Runs
    BY <2>1, Typed DEF Objects
  <2>3. supervisor' = [supervisor EXCEPT ![r] = v]
    BY <1>7 DEF EnsureSupervisor
  <2>4. supervisor'[r] = v
    BY <2>3, Typed
  <2>5. session' = [session EXCEPT ![s].sup = v] /\ callback' = [callback EXCEPT ![v] = r]
    BY <1>7, <2>4 DEF EnsureSupervisor
  <2>6. session' \in [Sessions -> Objects] /\ supervisor' \in [Runs -> Runs \cup {None}]
    <3> HIDE DEF v, s
    <3> QED
      BY <2>2, <2>3, <2>5, Typed DEF Objects
  <2>7. callback' \in [Runs -> Runs \cup {None}] /\ pc' \in [Calls -> Places]
    BY <1>7, <2>2, <2>5, Typed DEF EnsureSupervisor, Places
  <2>8. TypeRest
    BY <1>0, <1>7, <2>6, <2>7, Typed DEF EnsureSupervisor, TypeRest, saveVars
  <2> QED
    BY <1>0, <1>7, <2>8, Retyped DEF EnsureSupervisor, bounds
<1>8. CASE EndReplaced(r)
  <2>1. TypeRest
    BY <1>0, <1>8, Typed DEF EndReplaced, Leave, Forget, TypeRest, Places, saveVars
  <2> QED
    BY <1>0, <1>8, <2>1, Retyped DEF EndReplaced, bounds
<1>9. ASSUME NEW outcome \in {"answer", "failure", "timeout"}, End(r, outcome)
      PROVE  TypeOK'
  <2>1. SaveAt(r, "saving") /\ target[r] \in Sessions /\ Forget(r)
    BY <1>0, <1>9 DEF End, CallsInv, InFlight
  <2>2. <<"answer", r>> \in Messages /\ EndStatus(r, outcome) \in Status
    BY <1>0 DEF Messages, EndStatus, Status
  <2>3. session' \in [Sessions -> Objects]
    <3> DEFINE s == target[r]
    <3>1. session' = [session EXCEPT
                    ![s].cancel = None, ![s].active = None, ![s].status = EndStatus(r, outcome),
                    ![s].history = IF outcome = "answer" THEN @ \cup {<<"answer", r>>} ELSE @]
      BY <1>9 DEF End
    <3>2. session \in [Sessions -> Objects] /\ s \in Sessions
      BY <2>1, Typed
    <3> DEFINE history == IF outcome = "answer" THEN session[s].history \cup {<<"answer", r>>}
                          ELSE session[s].history
               status == EndStatus(r, outcome)
    <3>3. history \in SUBSET Messages
      BY <2>2, <3>2 DEF Objects
    <3>4. session' = [session EXCEPT ![s].cancel = None, ![s].active = None, ![s].status = status,
                                     ![s].history = history]
      BY <3>1, <3>2 DEF Objects
    <3>5. status \in Status
      BY <2>2
    <3> HIDE DEF s, history, status
    <3> QED
      BY <3>2, <3>3, <3>4, <3>5, EditedType
  <2>4. TypeRest
    BY <1>0, <1>9, <2>1, <2>3, SaveAtType, Typed DEF End, Forget, TypeRest, Places
  <2> QED
    BY <1>0, <1>9, <2>4, Retyped DEF End, bounds
<1> QED
  BY <1>1, <1>2, <1>3, <1>4, <1>5, <1>6, <1>7, <1>8, <1>9 DEF RunArrives, RunStep, GetMissing

LEMMA ClientType ==
  ASSUME TypeOK, NEW c \in Clients, CallsInv, ClientArrives(c) \/ ClientStep(c)
  PROVE  TypeOK'
<1>0. /\ requests \in [Clients -> Nat] /\ restarts \in Nat /\ faults \in Nat
      /\ overlapped \in BOOLEAN /\ failed \in BOOLEAN /\ c \in Calls /\ session \in [Sessions -> Objects]
      /\ "saving" \in Places /\ "storing" \in Places /\ {"archived", "idle", "cancelled"} \subseteq Status
  BY Typed DEF TypeOK, Calls, Places, Status
<1>1. CASE SaveStep(c)
  BY <1>0, <1>1, SaveStepType
<1>2. CASE NextRequest(c)
  <2>1. TypeRest
    BY <1>0, <1>2, Typed DEF NextRequest, TypeRest, Places, saveVars, runVars
  <2>2. requests' \in [Clients -> Nat] /\ UNCHANGED <<restarts, faults>>
    BY <1>0, <1>2 DEF NextRequest
  <2> QED
    BY <1>0, <2>1, <2>2, Retyped
<1>3. ASSUME NEW n \in Sessions, NEW place \in {"saving", "storing"}, CreateFor(c, n, place)
      PROVE  TypeOK'
  <2>1. SaveAt(c, place) /\ Fresh(Idle) \in Objects /\ place \in Places
    BY <1>0, <1>3, SnapshotType, FreshType DEF CreateFor
  <2>2. TypeRest
    BY <1>0, <1>3, <2>1, SaveAtType, Typed DEF CreateFor, TypeRest, runVars
  <2> QED
    BY <1>0, <1>3, <2>2, Retyped DEF CreateFor, bounds
<1>4. ASSUME NEW s \in Sessions
      PROVE  CancelledBy(s) \in SUBSET Runs
  BY <1>0, Typed DEF CancelledBy, Objects
<1>5. ASSUME NEW s \in Sessions, NEW archived \in BOOLEAN, Archive(c, s, archived)
      PROVE  TypeOK'
  <2>1. SaveAt(c, "saving")
    BY <1>5 DEF Archive
  <2> DEFINE status == IF archived THEN "archived" ELSE "idle"
  <2>2. session' = [session EXCEPT ![s].cancel = None, ![s].archived = archived, ![s].status = status]
        /\ status \in Status
    BY <1>0, <1>5 DEF Archive
  <2>3. session' \in [Sessions -> Objects]
    <3> HIDE DEF status
    <3> QED
      BY <1>0, <2>2, EditedType
  <2>4. TypeRest
    BY <1>0, <1>4, <1>5, <2>1, <2>3, SaveAtType, Typed DEF Archive, TypeRest
  <2> QED
    BY <1>0, <1>5, <2>4, Retyped DEF Archive, bounds
<1>6. ASSUME NEW s \in Sessions, Cancel(c, s)
      PROVE  TypeOK'
  <2>1. SaveAt(c, "saving")
    BY <1>6 DEF Cancel
  <2> DEFINE status == IF session[s].cancel # None THEN "cancelled" ELSE session[s].status
  <2>2. session' = [session EXCEPT ![s].cancel = None, ![s].status = status]
        /\ status \in Status \cup {"none"}
    BY <1>0, <1>6 DEF Cancel, Objects
  <2>3. session' \in [Sessions -> Objects]
    <3> HIDE DEF status
    <3> QED
      BY <1>0, <2>2, EditedType
  <2>4. TypeRest
    BY <1>0, <1>4, <1>6, <2>1, <2>3, SaveAtType, Typed DEF Cancel, TypeRest
  <2> QED
    BY <1>0, <1>6, <2>4, Retyped DEF Cancel, bounds
<1>7. ASSUME NEW s \in Sessions, Delete(c, s)
      PROVE  TypeOK'
  <2>1. SaveAt(c, "saving") /\ session' = [session EXCEPT ![s].cancel = None]
    BY <1>7 DEF Delete
  <2>2. session' \in [Sessions -> Objects]
    BY <1>0, <2>1, EditedType
  <2>3. TypeRest
    BY <1>0, <1>4, <1>7, <2>1, <2>2, SaveAtType, Typed DEF Delete, TypeRest
  <2> QED
    BY <1>0, <1>7, <2>3, Retyped DEF Delete, bounds
<1>8. ASSUME NEW s \in Sessions, Rename(c, s)
      PROVE  TypeOK'
  <2>1. SaveAt(c, "saving")
    BY <1>8 DEF Rename
  <2>2. TypeRest
    BY <1>0, <1>8, <2>1, SaveAtType, Typed DEF Rename, TypeRest, runVars
  <2> QED
    BY <1>0, <1>8, <2>2, Retyped DEF Rename, bounds
<1>9. ASSUME NEW s \in Sessions, NEW status \in DirectStatus, Record(c, s, status)
      PROVE  TypeOK'
  <2>1. SaveAt(c, "saving") /\ status \in Status
    BY <1>9 DEF Record, Status
  <2> DEFINE history == session[s].history \cup {<<"ask", c>>}
                          \cup (IF status = "completed" THEN {<<"answer", c>>} ELSE {})
  <2>2. session' = [session EXCEPT ![s].status = status, ![s].history = history]
    BY <1>0, <1>9 DEF Record
  <2>3. history \in SUBSET Messages
    <3>1. <<"ask", c>> \in Messages /\ <<"answer", c>> \in Messages
      BY <1>0 DEF Messages
    <3> QED
      BY <1>0, <3>1 DEF Objects
  <2>4. session' \in [Sessions -> Objects]
    <3> HIDE DEF history
    <3> QED
      BY <1>0, <2>1, <2>2, <2>3, EditedType
  <2>5. TypeRest
    BY <1>0, <1>9, <2>1, <2>4, SaveAtType, Typed DEF Record, TypeRest, runVars
  <2> QED
    BY <1>0, <1>9, <2>5, Retyped DEF Record, bounds
<1>10. target[c] \in Sessions \/ pc[c] # "recording"
  BY <1>0 DEF CallsInv
<1> QED
  BY <1>1, <1>2, <1>3, <1>5, <1>6, <1>7, <1>8, <1>9, <1>10
     DEF ClientArrives, ClientStep, Create, RecordDirectResult, RecordMissing, RecordCreated

LEMMA RestartType ==
  ASSUME TypeOK, Restart
  PROVE  TypeOK'
<1>1. file' \in [is : {"whole", "garbled"}, holds : [Sessions -> Entries]]
  BY Typed, SnapshotType DEF Restart, Garbled
<1>2. Load(file') \in [Sessions -> Entries]
  <2>1. ASSUME NEW e \in Entries
        PROVE  [e EXCEPT !.status = IF @ = "running" THEN "idle" ELSE @] \in Entries
    BY DEF Entries, Status
  <2> QED
    BY <1>1, <2>1, SnapshotType DEF Load
<1>3. session' \in [Sessions -> Objects]
  BY <1>2, FreshType DEF Restart
<1>4. requests' \in [Clients -> Nat] /\ restarts' \in Nat /\ faults' \in Nat
  BY DEF Restart, TypeOK
<1>5. TypeRest
  BY <1>1, <1>3, SnapshotType DEF Restart, TypeRest, Places
<1> QED
  BY <1>4, <1>5, Retyped

LEMMA InitType ==
  ASSUME Init
  PROVE  TypeOK
<1>1. file \in [is : {"whole", "garbled"}, holds : [Sessions -> Entries]] /\ Nothing \in [Sessions -> Entries]
  <2>1. Idle \in Entries /\ Absent \in Entries
    BY DEF Idle, Absent, Entries, Status
  <2> QED
    BY <2>1 DEF Init, Nothing
<1>2. Load(file) \in [Sessions -> Entries]
  <2>1. ASSUME NEW e \in Entries
        PROVE  [e EXCEPT !.status = IF @ = "running" THEN "idle" ELSE @] \in Entries
    BY DEF Entries, Status
  <2>2. Absent \in Entries
    BY DEF Absent, Entries
  <2> QED
    BY <1>1, <2>1, <2>2 DEF Load
<1>3. session \in [Sessions -> Objects]
  BY <1>2, FreshType DEF Init
<1>4. requests \in [Clients -> Nat] /\ restarts \in Nat /\ faults \in Nat
  <2>1. PICK b \in Budgets : /\ requests = [c \in Clients |-> b.requests - 1]
                            /\ restarts = b.restarts /\ faults = b.faults
    BY DEF Init
  <2>2. b.requests - 1 \in Nat /\ b.restarts \in Nat /\ b.faults \in Nat
    OBVIOUS
  <2> QED
    BY <2>1, <2>2
<1> QED
  BY <1>1, <1>3, <1>4 DEF Init, TypeOK, Objects, Places

LEMMA TypeStep ==
  ASSUME TypeOK, CallsInv, [Next]_vars
  PROVE  TypeOK'
<1>1. CASE UNCHANGED vars
  BY <1>1 DEF vars, bounds, TypeOK
<1> QED
  BY <1>1, RunType, ClientType, RestartType DEF Next, AllDone

(***************************************************************************)
(* The steps that leave the sessions alone.                                *)
(***************************************************************************)
Stays(a) ==
  /\ pc'[a] = pc[a] /\ target'[a] = target[a]
  /\ UNCHANGED <<supervisor, cancelled>>

\* The Save of Start has ended.
Proceeds(a) ==
  /\ pc[a] = "started" /\ pc'[a] = "ensuring" /\ target'[a] = target[a]
  /\ UNCHANGED <<supervisor, cancelled>>

\* A call that is not in flight goes on, with a session if it needs one.
Wanders(a) ==
  /\ pc[a] \notin InFlight /\ pc'[a] \notin InFlight
  /\ pc'[a] \in {"creating", "found", "checked", "storing", "recording"} =>
       target'[a] \in Sessions /\ session[target'[a]].status # "none"
  /\ a \in Runs /\ pc[a] \in {"saving", "done"} => pc'[a] \in {"saving", "done"}
  /\ UNCHANGED <<supervisor, cancelled>>

\* A run returns that its session does not know of.
Leaves(a) ==
  /\ a \in Runs
  /\ pc[a] = "checked" \/ (pc[a] = "prompting" /\ session[target[a]].active # a)
  /\ pc'[a] = "done" /\ target'[a] = None /\ supervisor'[a] = None
  /\ \A q \in Runs : q # a => supervisor'[q] = supervisor[q]
  /\ cancelled' = cancelled \ {a}

Calm(a) ==
  /\ UNCHANGED <<live, session, callback, overtaken>>
  /\ \A b \in Calls : b # a => pc'[b] = pc[b] /\ target'[b] = target[b]
  /\ Stays(a) \/ Proceeds(a) \/ Wanders(a) \/ Leaves(a)
  /\ stage'[a] # "none" => pc'[a] \in {"creating", "storing", "started", "saving"}
  /\ \A b \in Calls : b # a /\ stage'[b] # "none" => stage[b] # "none"

\* The end of a Save, whether it was written or not.
LEMMA SaveEndsFacts ==
  ASSUME TypeOK, NEW a \in Calls, Write(a) \/ FailWrite(a)
  PROVE  /\ SaveEnds(a) /\ UnderWay(a) /\ pc'[a] = Resumes(pc[a])
         /\ \A b \in Calls : b # a => pc'[b] = pc[b]
         /\ stage'[a] = "none"
         /\ \A b \in Calls : b # a =>
              \/ stage'[b] = stage[b]
              \/ stage[b] \in {"copied", "raced"} /\ stage'[b] = "raced"
<1>1. SaveEnds(a) /\ (Touched(a) \/ stage' = [stage EXCEPT ![a] = "none"])
  BY DEF Write, FailWrite
<1>2. UnderWay(a) /\ pc'[a] = Resumes(pc[a]) /\ \A b \in Calls : b # a => pc'[b] = pc[b]
  BY <1>1, Typed DEF SaveEnds
<1>3. /\ stage'[a] = "none"
      /\ \A b \in Calls : b # a =>
           \/ stage'[b] = stage[b]
           \/ stage[b] \in {"copied", "raced"} /\ stage'[b] = "raced"
  BY <1>1, Typed DEF Touched, UnderWay
<1> QED
  BY <1>1, <1>2, <1>3

LEMMA SaveStepCalm ==
  ASSUME TypeOK, CallsInv, NEW a \in Calls, SaveStep(a)
  PROVE  Calm(a)
<1>1. CASE Copy(a)
  BY <1>1, Typed DEF Copy, Calm, Stays, CallsInv, runVars
<1>2. CASE Write(a) \/ FailWrite(a)
  <2>0. SaveEnds(a)
    BY <1>2 DEF Write, FailWrite
  <2>1. pc[a] \in {"creating", "storing", "started", "saving"} /\ (pc[a] # "saving" => target[a] \in Sessions)
    BY <2>0, Typed DEF SaveEnds, UnderWay, CallsInv, InFlight
  <2>2. UNCHANGED <<live, session, callback, overtaken, supervisor, cancelled, target>>
    BY <2>0 DEF SaveEnds, runVars
  <2>3. /\ pc'[a] = Resumes(pc[a]) /\ \A b \in Calls : b # a => pc'[b] = pc[b]
        /\ stage'[a] = "none" /\ \A b \in Calls : b # a /\ stage'[b] # "none" => stage[b] # "none"
    BY <1>2, <2>0, SaveEndsFacts
  <2>4. CASE pc[a] = "started"
    BY <2>2, <2>3, <2>4 DEF Calm, Proceeds, Resumes
  <2>5. CASE pc[a] \in {"creating", "storing", "saving"}
    <3>1. pc[a] \notin InFlight /\ pc'[a] \in {"found", "recording", "done"}
      BY <2>3, <2>5 DEF Resumes, InFlight
    <3>2. pc'[a] \in {"found", "recording"} => target'[a] \in Sessions /\ session[target'[a]].status # "none"
      BY <2>2, <2>3, <2>5 DEF Resumes, CallsInv
    <3>3. pc[a] \in {"saving", "done"} => pc'[a] \in {"saving", "done"}
      BY <2>3, <2>5 DEF Resumes
    <3> QED
      BY <2>2, <2>3, <3>1, <3>2, <3>3 DEF Calm, Wanders, InFlight
  <2> QED
    BY <2>1, <2>4, <2>5
<1> QED
  BY <1>1, <1>2 DEF SaveStep

LEMMA RunCalm ==
  ASSUME TypeOK, HeldInv, CallsInv, NEW r \in Runs,
         (\E s \in Sessions : Get(r, s)) \/ CheckArchived(r) \/ Refuse(r) \/ EndReplaced(r)
  PROVE  Calm(r)
<1>0. r \in Calls
  BY Typed
<1>1. ASSUME NEW s \in Sessions, Get(r, s)
      PROVE  Calm(r)
  <2>1. /\ session[s].status # "none" /\ target'[r] = s /\ pc[r] = "idle"
        /\ pc'[r] \in {"done", "checked"} /\ stage'[r] = "none"
        /\ \A b \in Calls : b # r => pc'[b] = pc[b] /\ target'[b] = target[b]
    BY <1>0, <1>1, Typed DEF Get, HeldInv, CallsInv
  <2> QED
    BY <1>1, <2>1 DEF Get, Calm, Wanders, InFlight, saveVars, runVars
<1>2. CASE CheckArchived(r)
  <2>1. /\ target[r] \in Sessions /\ session[target[r]].status # "none" /\ pc[r] = "found"
        /\ pc'[r] \in {"done", "checked"} /\ stage'[r] = "none"
        /\ \A b \in Calls : b # r => pc'[b] = pc[b]
    BY <1>0, <1>2, Typed DEF CheckArchived, CallsInv
  <2> QED
    BY <1>2, <2>1 DEF CheckArchived, Calm, Wanders, InFlight, saveVars, runVars
<1>3. CASE Refuse(r) \/ EndReplaced(r)
  <2>1. /\ Leave(r) /\ pc[r] \in {"checked", "prompting"} /\ stage'[r] = "none"
        /\ UNCHANGED <<live, session, stage, callback, overtaken>>
        /\ pc[r] = "prompting" => session[target[r]].active # r
    BY <1>0, <1>3, Typed DEF Refuse, EndReplaced, CallsInv
  <2>2. Leaves(r) /\ \A b \in Calls : b # r => pc'[b] = pc[b] /\ target'[b] = target[b]
    BY <1>0, <2>1, Typed DEF Leave, Forget, Leaves
  <2> QED
    BY <2>1, <2>2 DEF Calm
<1> QED
  BY <1>1, <1>2, <1>3

LEMMA ClientCalm ==
  ASSUME TypeOK, CallsInv, NEW c \in Clients, NextRequest(c) \/ \E s \in Sessions : Rename(c, s)
  PROVE  Calm(c)
<1>0. c \in Calls
  BY Typed
<1>1. CASE NextRequest(c)
  BY <1>0, <1>1, Typed DEF NextRequest, Calm, Wanders, InFlight, CallsInv, saveVars, runVars
<1>2. ASSUME NEW s \in Sessions, Rename(c, s)
      PROVE  Calm(c)
  <2>1. OnlySaves(c, "saving") /\ pc[c] = "idle"
    BY <1>0, <1>2, SaveAtFacts DEF Rename
  <2> QED
    BY <1>0, <1>2, <2>1, Typed DEF Rename, OnlySaves, OnlyMoves, Calm, Wanders, InFlight, runVars
<1> QED
  BY <1>1, <1>2

(***************************************************************************)
(* The kinds of steps.                                                     *)
(***************************************************************************)
Creates(a, n, place) == pc[a] = "idle" /\ CreateFor(a, n, place)

\* Archive, Cancel or Delete.
Cancels(c, s) ==
  /\ pc[c] = "idle" /\ CancelsRun(c, s)
  /\ \A t \in Sessions : t # s => (t \in live' <=> t \in live)
  /\ live' \subseteq live /\ session'[s].status # "none"
  /\ session'[s].status = "running" => s \notin live' /\ session[s].status = "running"

\* A direct result is recorded.
Records(c, s) ==
  /\ pc[c] \in {"idle", "recording"}
  /\ session[s].status # "none" /\ \E status \in DirectStatus : Record(c, s, status)

StepKinds ==
  \/ UNCHANGED vars
  \/ \E a \in Calls : Calm(a)
  \/ \E a \in Calls, n \in Sessions, place \in {"saving", "creating", "storing"} : Creates(a, n, place)
  \/ \E r \in Runs : target[r] \in Sessions /\ Start(r)
  \/ \E r \in Runs : target[r] \in Sessions /\ EnsureSupervisor(r)
  \/ \E r \in Runs, outcome \in {"answer", "failure", "timeout"} : target[r] \in Sessions /\ End(r, outcome)
  \/ \E c \in Clients, s \in Sessions : Cancels(c, s)
  \/ \E c \in Clients, s \in Sessions : Records(c, s)
  \/ Restart

LEMMA StepCases ==
  ASSUME TypeOK, HeldInv, CallsInv, [Next]_vars
  PROVE  StepKinds
<1>1. ASSUME NEW r \in Runs, RunArrives(r) \/ RunStep(r)
      PROVE  StepKinds
  <2>0. r \in Calls
    BY Typed
  <2>1. CASE SaveStep(r)
    BY <2>0, <2>1, SaveStepCalm DEF StepKinds
  <2>2. CASE (\E s \in Sessions : Get(r, s)) \/ CheckArchived(r) \/ Refuse(r) \/ EndReplaced(r)
    BY <2>0, <2>2, RunCalm DEF StepKinds
  <2>3. CASE \E s \in Sessions : \E n \in Sessions : GetMissing(r, s, n)
    BY <2>0, <2>3 DEF GetMissing, Creates, StepKinds
  <2>4. CASE Start(r)
    BY <2>0, <2>4 DEF Start, CallsInv, StepKinds
  <2>5. CASE EnsureSupervisor(r)
    BY <2>0, <2>5 DEF EnsureSupervisor, CallsInv, InFlight, StepKinds
  <2>6. CASE \E outcome \in {"answer", "failure", "timeout"} : End(r, outcome)
    BY <2>0, <2>6 DEF End, CallsInv, InFlight, StepKinds
  <2> QED
    BY <1>1, <2>1, <2>2, <2>3, <2>4, <2>5, <2>6 DEF RunArrives, RunStep
<1>2. ASSUME NEW c \in Clients, ClientArrives(c) \/ ClientStep(c)
      PROVE  StepKinds
  <2>0. c \in Calls
    BY Typed
  <2>1. CASE SaveStep(c)
    BY <2>0, <2>1, SaveStepCalm DEF StepKinds
  <2>2. CASE NextRequest(c) \/ \E s \in Sessions : Rename(c, s)
    BY <2>0, <2>2, ClientCalm DEF StepKinds
  <2>3. CASE \E n \in Sessions : Create(c, n) \/ \E s \in Sessions : RecordMissing(c, s, n)
    BY <2>0, <2>3 DEF Create, RecordMissing, Creates, StepKinds
  <2>4. ASSUME NEW s \in Sessions, (\E archived \in BOOLEAN : Archive(c, s, archived)) \/ Cancel(c, s) \/ Delete(c, s)
        PROVE  Cancels(c, s)
    <3>1. pc[c] = "idle" /\ s \in live /\ session[s].status # "none"
          /\ (session[s].status = "running" => session[s].cancel # None)
      BY <2>4 DEF Archive, Cancel, Delete, HeldInv
    <3>2. CASE \E archived \in BOOLEAN : Archive(c, s, archived)
      <4>1. PICK archived \in BOOLEAN : Archive(c, s, archived)
        BY <3>2 DEF StepKinds
      <4>2. /\ CancelsRun(c, s) /\ live' = live
            /\ session'[s].status = IF archived THEN "archived" ELSE "idle"
        BY <4>1, CancelFacts
      <4> QED
        BY <3>1, <4>2 DEF Cancels
    <3>3. CASE Cancel(c, s)
      BY <3>1, <3>3, CancelFacts DEF Cancels
    <3>4. CASE Delete(c, s)
      <4>1. CancelsRun(c, s) /\ live' = live \ {s} /\ session'[s].status = session[s].status
        BY <3>4, CancelFacts
      <4> QED
        BY <3>1, <4>1, Typed DEF Cancels
    <3> QED
      BY <2>4, <3>2, <3>3, <3>4
  <2>5. CASE \E s \in Sessions : \E status \in DirectStatus : RecordDirectResult(c, s, status)
    <3>1. PICK s \in Sessions, status \in DirectStatus : RecordDirectResult(c, s, status)
      BY <2>5
    <3>2. Records(c, s)
      BY <3>1 DEF RecordDirectResult, HeldInv, Records
    <3> QED
      BY <3>2 DEF StepKinds
  <2>6. CASE \E status \in DirectStatus : RecordCreated(c, status)
    <3>1. target[c] \in Sessions /\ Records(c, target[c])
      BY <2>0, <2>6 DEF RecordCreated, CallsInv, Records
    <3> QED
      BY <3>1 DEF StepKinds
  <2> QED
    BY <1>2, <2>1, <2>2, <2>3, <2>4, <2>5, <2>6 DEF ClientArrives, ClientStep, StepKinds
<1> QED
  BY <1>1, <1>2 DEF Next, AllDone, StepKinds

(***************************************************************************)
(* The runs and their sessions.                                            *)
(***************************************************************************)
LEMMA RestartFacts ==
  ASSUME TypeOK, FilesInv, Restart
  PROVE  /\ \A s \in Sessions : /\ session'[s].active = None /\ session'[s].cancel = None
                                /\ session'[s].sup = None /\ session'[s].status # "running"
                                /\ s \in live' => session'[s].status # "none"
         /\ \A a \in Calls : pc'[a] = "done" /\ stage'[a] = "none"
         /\ cancelled' = {} /\ overtaken' = {} /\ FilesInv'
<1>1. Proper(file'.holds)
  <2>1. Proper(Garbled.holds) /\ Proper(file.holds)
    BY DEF FilesInv, Garbled, Proper, Nothing
  <2>2. file' = file \/ file' = Garbled
    BY DEF Restart
  <2> QED
    BY <2>1, <2>2
<1>2. file' \in [is : {"whole", "garbled"}, holds : [Sessions -> Entries]]
  BY RestartType DEF TypeOK
<1>3. ASSUME NEW s \in Sessions
      PROVE  /\ Load(file')[s].status # "running"
             /\ Load(file')[s].status = "none" => Load(file')[s] = Absent
  <2>1. file'.holds[s] \in Entries /\ (file'.holds[s].status = "none" => file'.holds[s] = Absent)
    BY <1>1, <1>2 DEF Proper
  <2> DEFINE e == file'.holds[s]
  <2>2. Load(file')[s] = IF file'.is # "whole" THEN Absent
                         ELSE [e EXCEPT !.status = IF e.status = "running" THEN "idle" ELSE e.status]
    BY DEF Load
  <2>3. e \in Entries /\ (e.status = "none" => e = Absent)
    BY <2>1
  <2> HIDE DEF e
  <2>4. [e EXCEPT !.status = IF e.status = "running" THEN "idle" ELSE e.status].status
          = IF e.status = "running" THEN "idle" ELSE e.status
    BY <2>3 DEF Entries
  <2>5. CASE e.status = "none" \/ file'.is # "whole"
    <3>1. [Absent EXCEPT !.status = IF Absent.status = "running" THEN "idle" ELSE Absent.status] = Absent
      BY DEF Absent
    <3> QED
      BY <2>2, <2>3, <2>5, <3>1 DEF Absent
  <2>6. CASE e.status # "none" /\ file'.is = "whole"
    BY <2>2, <2>4, <2>6
  <2> QED
    BY <2>5, <2>6
<1>4. \A s \in Sessions : /\ session'[s].active = None /\ session'[s].cancel = None
                          /\ session'[s].sup = None /\ session'[s].status # "running"
                          /\ s \in live' => session'[s].status # "none"
  BY <1>3 DEF Restart, Fresh
<1>5. FilesInv'
  BY <1>1 DEF Restart, FilesInv, Proper, Nothing
<1> QED
  BY <1>4, <1>5 DEF Restart

LEMMA HeldStep ==
  ASSUME TypeOK, HeldInv, CallsInv, FilesInv, StepKinds
  PROVE  HeldInv'
<1>0. /\ \A s \in Sessions : session[s].active \in Runs \cup {None} /\ session[s].cancel \in Runs \cup {None}
      /\ Runs \subseteq Calls /\ \A c \in Clients : c \notin Runs
  BY Typed DEF Objects
<1>1. ASSUME NEW a \in Calls, Calm(a)
      PROVE  HeldInv'
  <2>1. cancelled' \subseteq cancelled /\ (Leaves(a) => a \notin cancelled')
    BY <1>1 DEF Calm, Stays, Proceeds, Wanders, Leaves
  <2>2. ASSUME NEW s \in Sessions, session[s].active # None
        PROVE  LET r == session[s].active IN target'[r] = s /\ pc'[r] \in InFlight
    <3> DEFINE r == session[s].active
    <3>1. r \in Runs /\ target[r] = s /\ pc[r] \in InFlight
      BY <1>0, <2>2 DEF HeldInv
    <3>2. CASE r = a
      BY <1>1, <3>1, <3>2 DEF Calm, Stays, Proceeds, Wanders, Leaves, InFlight
    <3>3. CASE r # a
      BY <1>0, <1>1, <3>1, <3>3 DEF Calm
    <3> QED
      BY <3>2, <3>3
  <2>3. ASSUME NEW r \in cancelled'
        PROVE  pc'[r] \in InFlight
    <3>1. r \in Runs /\ pc[r] \in InFlight
      BY <2>1, Typed DEF HeldInv
    <3> QED
      BY <1>0, <1>1, <2>1, <3>1 DEF Calm, Stays, Proceeds, Wanders, Leaves, InFlight
  <2> QED
    BY <1>1, <2>1, <2>2, <2>3 DEF HeldInv, Calm
<1>2. ASSUME NEW a \in Calls, NEW n \in Sessions, NEW place, Creates(a, n, place)
      PROVE  HeldInv'
  <2>1. /\ pc[a] = "idle" /\ live' = live \cup {n} /\ session'[n] = Fresh(Idle) /\ OnlyChanges(n)
        /\ \A b \in Calls : b # a => target'[b] = target[b] /\ pc'[b] = pc[b]
        /\ cancelled' = cancelled
    BY <1>2, CreateFacts DEF Creates, OnlySaves, OnlyMoves
  <2>2. /\ session'[n].active = None /\ session'[n].cancel = None
        /\ session'[n].status = "idle"
    BY <2>1 DEF Fresh, Idle, Absent
  <2>3. a \notin cancelled /\ \A s \in Sessions : session[s].active # a \/ a = None
    BY <1>0, <2>1, Typed DEF HeldInv, InFlight
  <2> QED
    BY <1>0, <2>1, <2>2, <2>3, Typed DEF HeldInv, OnlyChanges
<1>3. ASSUME NEW r \in Runs, target[r] \in Sessions, Start(r)
      PROVE  HeldInv'
  <2> DEFINE s == target[r]
  <2>1. /\ pc[r] = "checked" /\ session'[s].active = r /\ session'[s].cancel = r
        /\ session'[s].status = "running" /\ OnlyChanges(s)
        /\ pc'[r] = "started" /\ \A b \in Calls : b # r => pc'[b] = pc[b]
        /\ UNCHANGED <<live, target, cancelled>>
    BY <1>3, StartFacts DEF OnlySaves, OnlyMoves
  <2>2. r \notin cancelled /\ \A t \in Sessions : session[t].active # r
    BY <1>0, <2>1 DEF HeldInv, InFlight
  <2>3. s \in Sessions /\ target[r] = s
    BY <1>3
  <2> HIDE DEF s
  <2>4. ASSUME NEW t \in Sessions, t # s
        PROVE  session'[t] = session[t] /\ (session[t].active # None =>
                 target'[session[t].active] = t /\ pc'[session[t].active] \in InFlight)
    BY <1>0, <2>1, <2>2, <2>4 DEF HeldInv, OnlyChanges
  <2>5. "started" \in InFlight /\ r # None
    BY DEF InFlight
  <2>6. \A q \in cancelled' : pc'[q] \in InFlight
    BY <1>0, <2>1, <2>2, Typed DEF HeldInv
  <2>7. target'[r] = s /\ pc'[r] \in InFlight /\ r \notin cancelled'
    BY <2>1, <2>2, <2>3, <2>5
  <2> QED
    BY <2>1, <2>4, <2>5, <2>6, <2>7 DEF HeldInv
<1>4. ASSUME NEW r \in Runs, target[r] \in Sessions, EnsureSupervisor(r)
      PROVE  HeldInv'
  <2> DEFINE s == target[r]
             v == IF session[s].sup # None THEN session[s].sup ELSE r
  <2>1. /\ pc[r] = "ensuring" /\ pc'[r] = "prompting" /\ \A b \in Calls : b # r => pc'[b] = pc[b]
        /\ session'[s] = [session[s] EXCEPT !.sup = v] /\ OnlyChanges(s)
        /\ UNCHANGED <<live, target, cancelled>>
    BY <1>4, EnsureFacts DEF OnlyMoves
  <2>2. /\ session'[s].active = session[s].active /\ session'[s].cancel = session[s].cancel
        /\ session'[s].status = session[s].status
    BY <1>4, <2>1, Typed DEF Objects
  <2>3. \A b \in Runs : pc[b] \in InFlight => pc'[b] \in InFlight
    BY <1>0, <2>1 DEF InFlight
  <2> HIDE DEF s, v
  <2>4. \A t \in Sessions : /\ session'[t].active = session[t].active
                            /\ session'[t].cancel = session[t].cancel
                            /\ session'[t].status = session[t].status
    BY <2>1, <2>2 DEF OnlyChanges
  <2>5. \A q \in cancelled' : pc'[q] \in InFlight
    BY <2>1, <2>3, Typed DEF HeldInv
  <2> QED
    BY <1>0, <2>1, <2>3, <2>4, <2>5 DEF HeldInv
<1>5. ASSUME NEW r \in Runs, NEW outcome, target[r] \in Sessions, End(r, outcome)
      PROVE  HeldInv'
  <2> DEFINE s == target[r]
  <2>1. /\ session[s].active = r /\ session'[s].active = None /\ session'[s].cancel = None
        /\ session'[s].status = EndStatus(r, outcome) /\ OnlyChanges(s)
        /\ \A b \in Calls : b # r => target'[b] = target[b] /\ pc'[b] = pc[b]
        /\ cancelled' = cancelled \ {r} /\ live' = live
    BY <1>5, EndFacts DEF OnlySaves, OnlyMoves
  <2>2. EndStatus(r, outcome) \notin {"none", "running"}
    BY DEF EndStatus
  <2>3. \A t \in Sessions : t # s => session[t].active # r
    BY <1>0 DEF HeldInv
  <2> HIDE DEF s
  <2> QED
    BY <1>0, <2>1, <2>2, <2>3, Typed DEF HeldInv, OnlyChanges
<1>6. ASSUME NEW c \in Clients, NEW s \in Sessions, Cancels(c, s)
      PROVE  HeldInv'
  <2>1. /\ session'[s].cancel = None /\ session'[s].active = session[s].active /\ OnlyChanges(s)
        /\ \A b \in Calls : b # c => pc'[b] = pc[b]
        /\ target' = target /\ cancelled' = CancelledBy(s)
        /\ \A t \in Sessions : t # s => (t \in live' <=> t \in live)
        /\ session'[s].status # "none" /\ (s \in live' => session'[s].status # "running")
    BY <1>6 DEF Cancels, CancelsRun, OnlySaves, OnlyMoves
  <2>2. \A r \in cancelled' : r \in cancelled \/ (r = session[s].cancel /\ r # None)
    BY <2>1 DEF CancelledBy
  <2>3. \A r \in cancelled' : r \in Runs /\ pc[r] \in InFlight /\ (r \notin cancelled => target[r] = s)
    BY <1>0, <2>2, Typed DEF HeldInv
  <2>4. \A t \in Sessions : t # s /\ session[t].cancel # None => session[t].cancel \notin cancelled'
    BY <1>0, <2>3 DEF HeldInv
  <2>5. c \notin Runs
    BY <1>0
  <2> QED
    BY <1>0, <2>1, <2>3, <2>4, <2>5 DEF HeldInv, OnlyChanges
<1>7. ASSUME NEW c \in Clients, NEW s \in Sessions, Records(c, s)
      PROVE  HeldInv'
  <2>1. PICK status \in DirectStatus : Record(c, s, status)
    BY <1>7 DEF Records
  <2>2. /\ session'[s].status = status /\ status \in {"completed", "error"} /\ OnlyChanges(s)
        /\ session'[s].cancel = session[s].cancel /\ session'[s].active = session[s].active
        /\ OnlySaves(c, "saving") /\ \A b \in Calls : b # c => target'[b] = target[b]
        /\ live' = live /\ cancelled' = cancelled
    BY <2>1, RecordFacts
  <2>3. \A b \in Runs : target'[b] = target[b] /\ pc'[b] = pc[b]
    BY <1>0, <2>2 DEF OnlySaves, OnlyMoves
  <2>4. \A t \in Sessions : /\ session'[t].active = session[t].active
                            /\ session'[t].cancel = session[t].cancel
                            /\ session'[t].status \in {session[t].status, "completed", "error"}
    BY <2>2 DEF OnlyChanges
  <2>5. \A q \in cancelled' : pc'[q] \in InFlight
    BY <2>2, <2>3, Typed DEF HeldInv
  <2> QED
    BY <1>0, <2>2, <2>3, <2>4, <2>5 DEF HeldInv
<1>8. CASE Restart
  BY <1>8, RestartFacts DEF HeldInv
<1>9. CASE UNCHANGED vars
  BY <1>9 DEF vars, HeldInv, InFlight
<1> QED
  BY <1>1, <1>2, <1>3, <1>4, <1>5, <1>6, <1>7, <1>8, <1>9 DEF StepKinds

\* A session that is there does not go, but for a restart.
StatusKept == \A t \in Sessions : session[t].status # "none" => session'[t].status # "none"

LEMMA StatusStep ==
  ASSUME TypeOK, HeldInv, CallsInv, StepKinds, ~Restart
  PROVE  StatusKept
<1>1. ASSUME NEW a \in Calls, Calm(a)
      PROVE  StatusKept
  BY <1>1 DEF Calm, StatusKept
<1>2. ASSUME NEW a \in Calls, NEW n \in Sessions, NEW place, Creates(a, n, place)
      PROVE  StatusKept
  BY <1>2, CreateFacts DEF Creates, OnlyChanges, StatusKept
<1>3. ASSUME NEW r \in Runs, target[r] \in Sessions, Start(r)
      PROVE  StatusKept
  BY <1>3, StartFacts DEF OnlyChanges, StatusKept
<1>4. ASSUME NEW r \in Runs, target[r] \in Sessions, EnsureSupervisor(r)
      PROVE  StatusKept
  <2> DEFINE s == target[r]
             v == IF session[s].sup # None THEN session[s].sup ELSE r
  <2>1. session'[s] = [session[s] EXCEPT !.sup = v] /\ OnlyChanges(s)
    BY <1>4, EnsureFacts
  <2>2. session'[s].status = session[s].status
    BY <1>4, <2>1, Typed DEF Objects
  <2> QED
    BY <2>1, <2>2 DEF OnlyChanges, StatusKept
<1>5. ASSUME NEW r \in Runs, NEW outcome, target[r] \in Sessions, End(r, outcome)
      PROVE  StatusKept
  BY <1>5, EndFacts DEF OnlyChanges, StatusKept, EndStatus
<1>6. ASSUME NEW c \in Clients, NEW s \in Sessions, Cancels(c, s)
      PROVE  StatusKept
  BY <1>6 DEF Cancels, CancelsRun, OnlyChanges, StatusKept
<1>7. ASSUME NEW c \in Clients, NEW s \in Sessions, Records(c, s)
      PROVE  StatusKept
  <2>1. PICK status \in DirectStatus : Record(c, s, status)
    BY <1>7 DEF Records
  <2>2. session'[s].status = status /\ status \in {"completed", "error"} /\ OnlyChanges(s)
    BY <2>1, RecordFacts
  <2> QED
    BY <2>2 DEF OnlyChanges, StatusKept
<1>9. CASE UNCHANGED vars
  BY <1>9 DEF vars, StatusKept
<1> QED
  BY <1>1, <1>2, <1>3, <1>4, <1>5, <1>6, <1>7, <1>9 DEF StepKinds

\* A call that has nothing to do with the others moves to a place.
LEMMA CallsMoved ==
  ASSUME CallsInv, StatusKept, NEW a \in Calls, NEW place \in Places, OnlySaves(a, place),
         place \in {"creating", "storing", "started", "saving"},
         \A b \in Calls : b # a => target'[b] = target[b],
         place # "saving" => target'[a] \in Sessions /\ session'[target'[a]].status # "none"
  PROVE  CallsInv'
<1>1. ASSUME NEW b \in Calls, b # a
      PROVE  /\ pc'[b] \in InFlight \cup {"creating", "found", "checked", "storing", "recording"} =>
                  target'[b] \in Sessions /\ session'[target'[b]].status # "none"
             /\ stage'[b] # "none" => pc'[b] \in {"creating", "storing", "started", "saving"}
  BY <1>1 DEF CallsInv, OnlySaves, OnlyMoves, StatusKept
<1>2. pc'[a] = place
  BY DEF OnlySaves, OnlyMoves
<1> QED
  BY <1>1, <1>2 DEF CallsInv, InFlight

LEMMA CallsStep ==
  ASSUME TypeOK, HeldInv, CallsInv, FilesInv, StepKinds
  PROVE  CallsInv'
<1>1. ASSUME NEW a \in Calls, Calm(a)
      PROVE  CallsInv'
  <2>1. session' = session
    BY <1>1 DEF Calm
  <2>2. ASSUME NEW b \in Calls, b # a
        PROVE  /\ pc'[b] \in InFlight \cup {"creating", "found", "checked", "storing", "recording"} =>
                    target'[b] \in Sessions /\ session'[target'[b]].status # "none"
               /\ stage'[b] # "none" => pc'[b] \in {"creating", "storing", "started", "saving"}
    BY <1>1, <2>1, <2>2 DEF Calm, CallsInv
  <2>3. /\ pc'[a] \in InFlight \cup {"creating", "found", "checked", "storing", "recording"} =>
                    target'[a] \in Sessions /\ session'[target'[a]].status # "none"
        /\ stage'[a] # "none" => pc'[a] \in {"creating", "storing", "started", "saving"}
    BY <1>1, <2>1 DEF Calm, Stays, Proceeds, Wanders, Leaves, CallsInv, InFlight
  <2> QED
    BY <2>2, <2>3 DEF CallsInv
<1>2. ASSUME NEW a \in Calls, NEW n \in Sessions, NEW place \in {"saving", "creating", "storing"}, Creates(a, n, place)
      PROVE  CallsInv'
  <2>1. StatusKept
    BY <1>2, CreateFacts DEF Creates, OnlyChanges, StatusKept
  <2>2. target'[a] = n /\ session'[n].status = "idle" /\ OnlySaves(a, place)
        /\ \A b \in Calls : b # a => target'[b] = target[b]
    BY <1>2, CreateFacts DEF Creates, Fresh, Idle, Absent
  <2> QED
    BY <2>1, <2>2, CallsMoved DEF Places
<1>3. ASSUME NEW r \in Runs, target[r] \in Sessions, Start(r)
      PROVE  CallsInv'
  <2>1. StatusKept
    BY <1>3, StartFacts DEF OnlyChanges, StatusKept
  <2>2. OnlySaves(r, "started") /\ target' = target /\ session'[target[r]].status = "running" /\ r \in Calls
    BY <1>3, StartFacts, Typed
  <2> QED
    BY <1>3, <2>1, <2>2, CallsMoved DEF Places
<1>4. ASSUME NEW r \in Runs, target[r] \in Sessions, EnsureSupervisor(r)
      PROVE  CallsInv'
  <2>1. StatusKept
    BY <1>4, StatusStep DEF StepKinds, EnsureSupervisor, Restart
  <2>2. OnlyMoves(r, "prompting") /\ target' = target /\ stage' = stage /\ pc[r] = "ensuring" /\ r \in Calls
    BY <1>4, EnsureFacts, Typed
  <2>3. stage[r] = "none" /\ session[target[r]].status # "none"
    BY <2>2 DEF CallsInv, InFlight
  <2> QED
    BY <1>4, <2>1, <2>2, <2>3 DEF CallsInv, OnlyMoves, StatusKept
<1>5. ASSUME NEW r \in Runs, NEW outcome, target[r] \in Sessions, End(r, outcome)
      PROVE  CallsInv'
  <2>1. StatusKept
    BY <1>5, EndFacts DEF OnlyChanges, StatusKept, EndStatus
  <2>2. OnlySaves(r, "saving") /\ r \in Calls /\ \A b \in Calls : b # r => target'[b] = target[b]
    BY <1>5, EndFacts, Typed
  <2> QED
    BY <2>1, <2>2, CallsMoved DEF Places
<1>6. ASSUME NEW c \in Clients, NEW s \in Sessions, Cancels(c, s)
      PROVE  CallsInv'
  <2>1. StatusKept /\ OnlySaves(c, "saving") /\ target' = target /\ c \in Calls
    BY <1>6, Typed DEF Cancels, CancelsRun, OnlyChanges, StatusKept
  <2> QED
    BY <2>1, CallsMoved DEF Places
<1>7. ASSUME NEW c \in Clients, NEW s \in Sessions, Records(c, s)
      PROVE  CallsInv'
  <2>1. PICK status \in DirectStatus : Record(c, s, status)
    BY <1>7 DEF Records
  <2>2. /\ session'[s].status = status /\ status \in {"completed", "error"} /\ OnlyChanges(s)
        /\ OnlySaves(c, "saving") /\ \A b \in Calls : b # c => target'[b] = target[b]
    BY <2>1, RecordFacts
  <2>3. StatusKept /\ c \in Calls
    BY <2>2, Typed DEF OnlyChanges, StatusKept
  <2> QED
    BY <2>2, <2>3, CallsMoved DEF Places
<1>8. CASE Restart
  BY <1>8, RestartFacts DEF CallsInv, InFlight
<1>9. CASE UNCHANGED vars
  BY <1>9 DEF vars, CallsInv
<1> QED
  BY <1>1, <1>2, <1>3, <1>4, <1>5, <1>6, <1>7, <1>8, <1>9 DEF StepKinds

\* A direct result remains in the history of its session.
LEMMA DirectKept ==
  ASSUME NEW s \in Sessions, session[s].history \subseteq session'[s].history, Direct(s)
  PROVE  Direct(s)'
BY DEF Direct

LEMMA FlightStep ==
  ASSUME TypeOK, HeldInv, CallsInv, FlightInv, FilesInv, StepKinds
  PROVE  FlightInv'
<1> DEFINE Known(q) == \/ q \in cancelled
                       \/ Direct(target[q])
                       \/ session[target[q]].status = "running" /\ session[target[q]].active = q
<1>0. /\ Runs \subseteq Calls /\ \A c \in Clients : c \notin Runs
      /\ \A q \in Runs : pc[q] \in InFlight => /\ Known(q) /\ target[q] \in Sessions
                                               /\ session[target[q]].status # "none"
  BY Typed DEF FlightInv, CallsInv
<1>1. ASSUME NEW a \in Calls, Calm(a)
      PROVE  FlightInv'
  <2>1. /\ session' = session
        /\ \A q \in Runs : pc'[q] \in InFlight =>
             /\ pc[q] \in InFlight /\ target'[q] = target[q]
             /\ q \in cancelled => q \in cancelled'
    BY <1>0, <1>1 DEF Calm, Stays, Proceeds, Wanders, Leaves, InFlight
  <2> QED
    BY <1>0, <2>1 DEF FlightInv, Direct
<1>2. ASSUME NEW a \in Calls, NEW n \in Sessions, NEW place \in {"saving", "creating", "storing"}, Creates(a, n, place)
      PROVE  FlightInv'
  <2>1. /\ session[n].status = "none" /\ OnlyChanges(n) /\ OnlySaves(a, place)
        /\ cancelled' = cancelled /\ \A b \in Calls : b # a => target'[b] = target[b]
    BY <1>2, CreateFacts DEF Creates
  <2>2. \A q \in Runs : pc'[q] \in InFlight =>
          pc[q] \in InFlight /\ target'[q] = target[q] /\ session'[target[q]] = session[target[q]]
    BY <1>0, <2>1 DEF OnlySaves, OnlyMoves, OnlyChanges, InFlight
  <2> QED
    BY <1>0, <2>1, <2>2 DEF FlightInv, Direct
<1>3. ASSUME NEW r \in Runs, target[r] \in Sessions, Start(r)
      PROVE  FlightInv'
  <2> DEFINE s == target[r]
  <2>1. /\ session[s].status # "running"
        /\ session'[s].status = "running" /\ session'[s].active = r
        /\ session'[s].history = session[s].history \cup {<<"ask", r>>}
        /\ OnlyChanges(s) /\ OnlySaves(r, "started") /\ UNCHANGED <<target, cancelled>>
    BY <1>3, StartFacts
  <2>2. ASSUME NEW q \in Runs, pc'[q] \in InFlight
        PROVE  Known(q)'
    <3>1. CASE q = r
      BY <2>1, <3>1
    <3>2. CASE q # r /\ target[q] = s
      <4>1. Known(q) /\ pc[q] \in InFlight
        BY <1>0, <2>1, <2>2, <3>2 DEF OnlySaves, OnlyMoves
      <4>2. Direct(s) => Direct(s)'
        BY <1>3, <2>1, DirectKept
      <4> QED
        BY <2>1, <3>2, <4>1, <4>2
    <3>3. CASE q # r /\ target[q] # s
      <4>1. Known(q) /\ pc[q] \in InFlight /\ target[q] \in Sessions
        BY <1>0, <2>1, <2>2, <3>3 DEF OnlySaves, OnlyMoves
      <4>2. session'[target[q]] = session[target[q]]
        BY <2>1, <3>3, <4>1 DEF OnlyChanges
      <4>3. Direct(target[q]) => Direct(target[q])'
        BY <2>1, <4>2 DEF Direct
      <4> QED
        BY <2>1, <4>1, <4>2, <4>3
    <3> QED
      BY <3>1, <3>2, <3>3
  <2> QED
    BY <2>2 DEF FlightInv
<1>4. ASSUME NEW r \in Runs, target[r] \in Sessions, EnsureSupervisor(r)
      PROVE  FlightInv'
  <2> DEFINE s == target[r]
             v == IF session[s].sup # None THEN session[s].sup ELSE r
  <2>1. /\ pc[r] = "ensuring" /\ OnlyMoves(r, "prompting")
        /\ session'[s] = [session[s] EXCEPT !.sup = v] /\ OnlyChanges(s)
        /\ UNCHANGED <<target, cancelled>>
    BY <1>4, EnsureFacts
  <2>2. /\ session'[s].active = session[s].active /\ session'[s].history = session[s].history
        /\ session'[s].status = session[s].status
    BY <1>4, <2>1, Typed DEF Objects
  <2> HIDE DEF s, v
  <2>3. \A t \in Sessions : /\ session'[t].active = session[t].active
                            /\ session'[t].history = session[t].history
                            /\ session'[t].status = session[t].status
    BY <2>1, <2>2 DEF OnlyChanges
  <2>4. \A t \in Sessions : Direct(t) => Direct(t)'
    BY <2>3 DEF Direct
  <2>5. \A q \in Runs : pc'[q] \in InFlight => pc[q] \in InFlight
    BY <1>0, <2>1 DEF OnlyMoves, InFlight
  <2> QED
    BY <1>0, <2>1, <2>3, <2>4, <2>5 DEF FlightInv
<1>5. ASSUME NEW r \in Runs, NEW outcome, target[r] \in Sessions, End(r, outcome)
      PROVE  FlightInv'
  <2> DEFINE s == target[r]
  <2>1. /\ session[s].active = r /\ session[s].history \subseteq session'[s].history
        /\ OnlyChanges(s) /\ OnlySaves(r, "saving")
        /\ \A b \in Calls : b # r => target'[b] = target[b]
        /\ cancelled' = cancelled \ {r}
    BY <1>5, EndFacts
  <2>2. ASSUME NEW q \in Runs, pc'[q] \in InFlight
        PROVE  Known(q)'
    <3>1. q # r /\ pc[q] \in InFlight /\ target'[q] = target[q] /\ Known(q) /\ target[q] \in Sessions
      BY <1>0, <2>1, <2>2 DEF OnlySaves, OnlyMoves, InFlight
    <3>2. session[target[q]].history \subseteq session'[target[q]].history
      BY <2>1, <3>1 DEF OnlyChanges
    <3>3. Direct(target[q]) => Direct(target[q])'
      BY <3>1, <3>2 DEF Direct
    <3>4. session[target[q]].active = q => session'[target[q]] = session[target[q]]
      BY <2>1, <3>1 DEF OnlyChanges
    <3>5. q \in cancelled => q \in cancelled'
      BY <2>1, <3>1
    <3> QED
      BY <3>1, <3>3, <3>4, <3>5
  <2> QED
    BY <2>2 DEF FlightInv
<1>6. ASSUME NEW c \in Clients, NEW s \in Sessions, Cancels(c, s)
      PROVE  FlightInv'
  <2>1. /\ s \in live /\ session'[s].history = session[s].history /\ OnlyChanges(s) /\ OnlySaves(c, "saving")
        /\ target' = target /\ cancelled' = CancelledBy(s)
    BY <1>6 DEF Cancels, CancelsRun
  <2>2. cancelled \subseteq cancelled' /\ (session[s].cancel # None => session[s].cancel \in cancelled')
    BY <2>1 DEF CancelledBy
  <2>3. \A t \in Sessions : Direct(t) => Direct(t)'
    BY <2>1 DEF Direct, OnlyChanges
  <2>4. session[s].status = "running" => session[s].active \in cancelled'
    BY <2>1, <2>2 DEF HeldInv
  <2>5. \A q \in Runs : pc'[q] = pc[q]
    BY <1>0, <2>1 DEF OnlySaves, OnlyMoves
  <2> QED
    BY <1>0, <2>1, <2>2, <2>3, <2>4, <2>5 DEF FlightInv, OnlyChanges
<1>7. ASSUME NEW c \in Clients, NEW s \in Sessions, Records(c, s)
      PROVE  FlightInv'
  <2>1. PICK status \in DirectStatus : Record(c, s, status)
    BY <1>7 DEF Records
  <2>2. /\ session[s].history \subseteq session'[s].history /\ <<"ask", c>> \in session'[s].history
        /\ OnlyChanges(s) /\ OnlySaves(c, "saving") /\ cancelled' = cancelled
        /\ \A b \in Calls : b # c => target'[b] = target[b]
    BY <2>1, RecordFacts
  <2>3. Direct(s)' /\ \A t \in Sessions : Direct(t) => Direct(t)'
    BY <2>2 DEF Direct, OnlyChanges
  <2>4. \A q \in Runs : pc'[q] = pc[q] /\ target'[q] = target[q]
    BY <1>0, <2>2 DEF OnlySaves, OnlyMoves
  <2> QED
    BY <1>0, <2>2, <2>3, <2>4 DEF FlightInv, OnlyChanges
<1>8. CASE Restart
  BY <1>0, <1>8, RestartFacts DEF FlightInv, InFlight
<1>9. CASE UNCHANGED vars
  BY <1>9 DEF vars, FlightInv, Direct
<1> QED
  BY <1>1, <1>2, <1>3, <1>4, <1>5, <1>6, <1>7, <1>8, <1>9 DEF StepKinds

(***************************************************************************)
(* The file and the copies made for it.                                    *)
(***************************************************************************)
LEMMA SavesOnly ==
  ASSUME [Next]_vars
  PROVE  (\E a \in Calls : Copy(a) \/ Write(a) \/ FailWrite(a)) \/ Restart \/ UNCHANGED saveVars
<1>1. ASSUME NEW r \in Runs, RunArrives(r) \/ RunStep(r)
      PROVE  SaveStep(r) \/ UNCHANGED saveVars
  <2>1. RunArrives(r) => UNCHANGED saveVars
    BY DEF RunArrives, Get, GetMissing, CreateFor, SaveAt
  <2>2. RunStep(r) => SaveStep(r) \/ UNCHANGED saveVars
    BY DEF RunStep, CheckArchived, Refuse, Start, SaveAt, EnsureSupervisor, EndReplaced, End
  <2> QED
    BY <1>1, <2>1, <2>2
<1>2. ASSUME NEW c \in Clients, ClientArrives(c) \/ ClientStep(c)
      PROVE  SaveStep(c) \/ UNCHANGED saveVars
  BY <1>2 DEF ClientArrives, ClientStep, NextRequest, Create, CreateFor, Archive, Cancel, Delete,
              Rename, RecordDirectResult, RecordMissing, RecordCreated, Record, SaveAt
<1> QED
  BY <1>1, <1>2 DEF Next, AllDone, SaveStep, Calls, vars, saveVars

LEMMA FilesStep ==
  ASSUME TypeOK, HeldInv, FilesInv, [Next]_vars
  PROVE  FilesInv'
<1>1. Proper(Nothing) /\ Proper(Garbled.holds)
  BY DEF Proper, Nothing, Garbled
<1>2. Proper(Snapshot)
  BY DEF Proper, Snapshot, HeldInv
<1>3. ASSUME NEW a \in Calls, Copy(a)
      PROVE  FilesInv'
  <2>1. file' = file /\ \A b \in Calls : copy'[b] \in {copy[b], Snapshot}
    BY <1>3, Typed DEF Copy
  <2> QED
    BY <1>2, <2>1 DEF FilesInv
<1>4. ASSUME NEW a \in Calls, Write(a) \/ FailWrite(a)
      PROVE  FilesInv'
  <2>1. \A b \in Calls : copy'[b] \in {copy[b], Nothing}
    BY <1>4, Typed DEF Write, FailWrite, SaveEnds
  <2>2. file'.holds \in {copy[a], file.holds, Garbled.holds}
    BY <1>4 DEF Write, FailWrite
  <2> QED
    BY <1>1, <2>1, <2>2 DEF FilesInv
<1>5. CASE Restart
  BY <1>5, RestartFacts
<1>6. CASE UNCHANGED saveVars
  BY <1>6 DEF saveVars, FilesInv
<1> QED
  BY <1>3, <1>4, <1>5, <1>6, SavesOnly

(***************************************************************************)
(* What follows of the runs.                                               *)
(***************************************************************************)
LEMMA RunsFollow ==
  ASSUME TypeOK, HeldInv, CallsInv, FlightInv
  PROVE  RunningIsLive /\ OneRunAtATime
<1>1. RunningIsLive
  BY DEF HeldInv, RunningIsLive
<1>2. ASSUME NEW q \in Runs, NEW r \in Runs,
             q # r, {pc[q], pc[r]} \subseteq InFlight, target[q] = target[r],
             q \notin cancelled, r \notin cancelled
      PROVE  Direct(target[r])
  <2>1. pc[q] \in InFlight /\ pc[r] \in InFlight
    BY <1>2
  <2>2. Direct(target[r]) \/ session[target[r]].active = r
    BY <1>2, <2>1 DEF FlightInv
  <2>3. Direct(target[q]) \/ session[target[q]].active = q
    BY <1>2, <2>1 DEF FlightInv
  <2>4. Direct(target[q]) => Direct(target[r])
    BY <1>2 DEF Direct
  <2> QED
    BY <1>2, <2>2, <2>3, <2>4
<1> QED
  BY <1>1, <1>2 DEF OneRunAtATime

\* What is loaded is loaded again as it is.
LEMMA LoadedTwice ==
  ASSUME NEW f \in [is : {"whole", "garbled"}, holds : [Sessions -> Entries]]
  PROVE  /\ Load(f) \in [Sessions -> Entries]
         /\ \A s \in Sessions : Load(f)[s].status # "running"
         /\ Load([is |-> "whole", holds |-> Load(f)]) = Load(f)
<1>1. ASSUME NEW e \in Entries
      PROVE  LET l == [e EXCEPT !.status = IF @ = "running" THEN "idle" ELSE @] IN
             l \in Entries /\ l.status # "running"
  BY DEF Entries, Status
<1>2. ASSUME NEW e \in Entries, e.status # "running"
      PROVE  [e EXCEPT !.status = IF @ = "running" THEN "idle" ELSE @] = e
  <2>1. [e EXCEPT !.status = e.status] = e
    BY DEF Entries
  <2> QED
    BY <1>2, <2>1
<1>3. Absent \in Entries /\ Absent.status # "running"
  BY DEF Absent, Entries
<1>4. Load(f) \in [Sessions -> Entries] /\ \A s \in Sessions : Load(f)[s].status # "running"
  BY <1>1, <1>3 DEF Load
<1> DEFINE L == Load(f)
           g == [is |-> "whole", holds |-> L]
<1>5. g.is = "whole" /\ g.holds = L
  OBVIOUS
<1> HIDE DEF L, g
<1>6. Load(g) = [s \in Sessions |-> [L[s] EXCEPT !.status = IF @ = "running" THEN "idle" ELSE @]]
  BY <1>5 DEF Load
<1>7. L \in [Sessions -> Entries] /\ \A s \in Sessions : L[s].status # "running"
  BY <1>4 DEF L
<1>8. Load(g) = L
  <2>1. \A s \in Sessions : Load(g)[s] = L[s]
    BY <1>2, <1>6, <1>7
  <2>2. Load(g) = [s \in Sessions |-> Load(g)[s]] /\ L = [s \in Sessions |-> L[s]]
    BY <1>6, <1>7
  <2> QED
    BY <2>1, <2>2
<1> QED
  BY <1>4, <1>8 DEF L, g

\* The sessions that were loaded are the ones in memory.
LEMMA SnapshotLoaded ==
  ASSUME NEW L \in [Sessions -> Entries], session = [s \in Sessions |-> Fresh(L[s])],
         \A s \in Sessions : s \notin live => L[s] = Absent
  PROVE  Snapshot = L
<1>1. ASSUME NEW s \in Sessions
      PROVE  Snapshot[s] = L[s]
  <2>1. L[s] = [status |-> L[s].status, archived |-> L[s].archived, history |-> L[s].history]
    BY DEF Entries
  <2>2. session[s].status = L[s].status /\ session[s].archived = L[s].archived
        /\ session[s].history = L[s].history
    BY DEF Fresh
  <2> QED
    BY <2>1, <2>2 DEF Snapshot
<1>2. Snapshot = [s \in Sessions |-> Snapshot[s]] /\ L = [s \in Sessions |-> L[s]]
  BY DEF Snapshot
<1> QED
  BY <1>1, <1>2

LEMMA InitCurrent ==
  ASSUME Init
  PROVE  CopiesInv /\ FileIsCurrent
<1>1. file \in [is : {"whole", "garbled"}, holds : [Sessions -> Entries]]
  BY InitType DEF TypeOK
<1>2. ASSUME NEW s \in Sessions, s \notin live
      PROVE  Load(file)[s] = Absent
  <2>1. file.is = "whole" /\ file.holds[s] = Absent
    BY <1>2 DEF Init
  <2>2. [Absent EXCEPT !.status = IF Absent.status = "running" THEN "idle" ELSE Absent.status] = Absent
    BY DEF Absent
  <2> QED
    BY <2>1, <2>2 DEF Load
<1>3. session = [s \in Sessions |-> Fresh(Load(file)[s])]
  BY DEF Init
<1>4. Snapshot = Load(file)
  BY <1>1, <1>2, <1>3, LoadedTwice, SnapshotLoaded
<1>5. FileIsCurrent
  BY <1>1, <1>4, LoadedTwice DEF FileIsCurrent
<1>6. CopiesInv
  BY DEF Init, CopiesInv, UnderWay
<1> QED
  BY <1>5, <1>6

\* A step that neither saves nor restarts either leaves something to save, or
\* changes nothing that is saved.
Unsaved ==
  \/ \E a \in Calls : stage'[a] = "due" /\ \A b \in Calls : b # a => stage'[b] = stage[b]
  \/ stage' = stage /\ Snapshot' = Snapshot

LEMMA SaveLeft ==
  ASSUME TypeOK, CallsInv, [Next]_vars
  PROVE  (\E a \in Calls : Copy(a) \/ Write(a) \/ FailWrite(a)) \/ Restart \/ (UNCHANGED saveVars /\ Unsaved)
<1>0. Runs \subseteq Calls /\ Clients \subseteq Calls
  BY Typed
<1>1. UNCHANGED <<stage, live, session>> => Unsaved
  BY DEF Unsaved, Snapshot
<1>2. ASSUME NEW a \in Calls, NEW place, SaveAt(a, place)
      PROVE  Unsaved
  BY <1>2, SaveAtFacts DEF OnlySaves, Unsaved
<1>3. ASSUME NEW r \in Runs, RunArrives(r) \/ RunStep(r)
      PROVE  SaveStep(r) \/ Unsaved
  <2>0. r \in Calls
    BY <1>0
  <2>1. ASSUME NEW s \in Sessions, Get(r, s)
        PROVE  Unsaved
    BY <1>1, <2>1 DEF Get
  <2>2. ASSUME NEW n \in Sessions, CreateFor(r, n, "creating")
        PROVE  Unsaved
    BY <1>2, <2>0, <2>2 DEF CreateFor
  <2>3. CASE CheckArchived(r) \/ Refuse(r) \/ EndReplaced(r)
    BY <1>1, <2>3 DEF CheckArchived, Refuse, EndReplaced
  <2>4. CASE Start(r) \/ \E outcome \in {"answer", "failure", "timeout"} : End(r, outcome)
    <3>1. SaveAt(r, "started") \/ SaveAt(r, "saving")
      BY <2>4 DEF Start, End
    <3> QED
      BY <1>2, <2>0, <3>1
  <2>5. CASE EnsureSupervisor(r)
    <3> DEFINE s == target[r]
               v == IF session[s].sup # None THEN session[s].sup ELSE r
    <3>1. target[r] \in Sessions
      BY <2>0, <2>5 DEF EnsureSupervisor, CallsInv, InFlight
    <3>2. session'[s] = [session[s] EXCEPT !.sup = v] /\ OnlyChanges(s) /\ UNCHANGED <<live, stage>>
      BY <2>5, <3>1, EnsureFacts
    <3>3. /\ session'[s].status = session[s].status /\ session'[s].archived = session[s].archived
          /\ session'[s].history = session[s].history
      BY <3>1, <3>2, Typed DEF Objects
    <3>4. \A t \in Sessions : /\ session'[t].status = session[t].status
                              /\ session'[t].archived = session[t].archived
                              /\ session'[t].history = session[t].history
      BY <3>2, <3>3 DEF OnlyChanges
    <3>5. Snapshot' = Snapshot
      BY <3>2, <3>4 DEF Snapshot
    <3> QED
      BY <3>2, <3>5 DEF Unsaved
  <2> QED
    BY <1>3, <2>1, <2>2, <2>3, <2>4, <2>5 DEF RunArrives, RunStep, GetMissing
<1>4. ASSUME NEW c \in Clients, ClientArrives(c) \/ ClientStep(c)
      PROVE  SaveStep(c) \/ Unsaved
  <2>1. SaveStep(c) \/ NextRequest(c) \/ \E place \in Places : SaveAt(c, place)
    BY <1>4 DEF ClientArrives, ClientStep, Create, CreateFor, Archive, Cancel, Delete,
                Rename, RecordDirectResult, RecordMissing, RecordCreated, Record, Places
  <2>2. CASE NextRequest(c)
    BY <1>1, <2>2 DEF NextRequest
  <2> QED
    BY <1>0, <1>2, <2>1, <2>2
<1>5. CASE UNCHANGED vars
  BY <1>1, <1>5 DEF vars, saveVars
<1> QED
  BY <1>0, <1>3, <1>4, <1>5, SavesOnly DEF Next, AllDone, SaveStep

LEMMA CurrentStep ==
  ASSUME TypeOK, HeldInv, CallsInv, FilesInv, CopiesInv, FileIsCurrent, [Next]_vars
  PROVE  CopiesInv' /\ FileIsCurrent'
<1>1. ASSUME NEW a \in Calls, Copy(a)
      PROVE  CopiesInv' /\ FileIsCurrent'
  <2>1. /\ stage'[a] = "copied" /\ copy'[a] = Snapshot /\ Snapshot' = Snapshot
        /\ overlapped' = \E b \in Calls \ {a} : UnderWay(b)
        /\ \A b \in Calls : b # a => stage'[b] = stage[b]
    BY <1>1, Typed DEF Copy, Snapshot
  <2>2. ~overlapped' => \A b \in Calls : UnderWay(b)' => b = a
    BY <2>1 DEF UnderWay
  <2> QED
    BY <2>1, <2>2 DEF CopiesInv, FileIsCurrent
<1>2. ASSUME NEW a \in Calls, Write(a)
      PROVE  CopiesInv' /\ FileIsCurrent'
  <2>1. CASE overlapped
    BY <1>2, <2>1 DEF Write, SaveEnds, CopiesInv, FileIsCurrent
  <2>2. CASE ~overlapped
    <3>1. stage[a] = "copied" /\ \A b \in Calls : UnderWay(b) => b = a
      BY <1>2, <2>2 DEF CopiesInv, Write, SaveEnds
    <3>2. /\ stage'[a] = "none" /\ \A b \in Calls : b # a => stage'[b] = stage[b] /\ ~UnderWay(b)
          /\ Snapshot' = Snapshot /\ file' = [is |-> "whole", holds |-> copy[a]]
      <4>1. stage'[a] = "none" /\ \A b \in Calls : b # a => stage'[b] = stage[b] /\ ~UnderWay(b)
        BY <1>2, <3>1, SaveEndsFacts DEF UnderWay
      <4>2. Snapshot' = Snapshot /\ file' = [is |-> "whole", holds |-> copy[a]]
        BY <1>2, <3>1 DEF Write, SaveEnds, Snapshot
      <4> QED
        BY <4>1, <4>2
    <3>3. \A b \in Calls : ~UnderWay(b)'
      BY <3>2 DEF UnderWay
    <3>4. CopiesInv'
      BY <3>3 DEF CopiesInv
    <3>5. (\A b \in Calls : stage'[b] = "none") => copy[a] = Snapshot
      BY <1>2, <2>2, <3>1, <3>2 DEF CopiesInv, Write, SaveEnds
    <3> QED
      BY <3>2, <3>4, <3>5 DEF FileIsCurrent
  <2> QED
    BY <2>1, <2>2
<1>3. CASE Restart
  <2>1. file' \in [is : {"whole", "garbled"}, holds : [Sessions -> Entries]]
    BY <1>3, RestartType DEF TypeOK
  <2>2. \A s \in Sessions : s \notin live' => Load(file')[s] = Absent
    BY <1>3 DEF Restart
  <2>3. session' = [s \in Sessions |-> Fresh(Load(file')[s])]
    BY <1>3 DEF Restart
  <2>4. Load(file') \in [Sessions -> Entries] /\ Load([is |-> "whole", holds |-> Load(file')]) = Load(file')
    BY <2>1, LoadedTwice
  <2>5. Snapshot' = Load(file')
    <3> DEFINE L == Load(file')
    <3>1. ASSUME NEW s \in Sessions
          PROVE  Snapshot'[s] = L[s]
      <4>1. L[s] \in Entries /\ session'[s] = Fresh(L[s]) /\ (s \notin live' => L[s] = Absent)
        BY <2>2, <2>3, <2>4
      <4> HIDE DEF L
      <4>2. L[s] = [status |-> L[s].status, archived |-> L[s].archived, history |-> L[s].history]
        BY <4>1 DEF Entries
      <4>3. session'[s].status = L[s].status /\ session'[s].archived = L[s].archived
            /\ session'[s].history = L[s].history
        BY <4>1 DEF Fresh
      <4> QED
        BY <4>1, <4>2, <4>3 DEF Snapshot
    <3>2. Snapshot' = [s \in Sessions |-> Snapshot'[s]] /\ L = [s \in Sessions |-> L[s]]
      BY <2>4 DEF Snapshot
    <3> QED
      BY <3>1, <3>2
  <2>6. FileIsCurrent'
    BY <2>4, <2>5 DEF FileIsCurrent
  <2>7. CopiesInv'
    BY <1>3 DEF Restart, CopiesInv, UnderWay
  <2> QED
    BY <2>6, <2>7
<1>4. CASE UNCHANGED saveVars /\ Unsaved
  <2>1. UNCHANGED <<file, copy, overlapped, failed>>
    BY <1>4 DEF saveVars
  <2>2. ASSUME NEW a \in Calls, stage'[a] = "due", \A b \in Calls : b # a => stage'[b] = stage[b]
        PROVE  CopiesInv' /\ FileIsCurrent'
    <3>1. \A b \in Calls : UnderWay(b)' => UnderWay(b) /\ stage'[b] = stage[b]
      BY <2>2 DEF UnderWay
    <3> QED
      BY <2>1, <2>2, <3>1 DEF CopiesInv, FileIsCurrent
  <2>3. CASE stage' = stage /\ Snapshot' = Snapshot
    BY <2>1, <2>3 DEF CopiesInv, FileIsCurrent, UnderWay
  <2> QED
    BY <1>4, <2>2, <2>3 DEF Unsaved
<1>5. ASSUME NEW a \in Calls, FailWrite(a)
      PROVE  CopiesInv' /\ FileIsCurrent'
  <2>1. failed' = TRUE /\ overlapped' = overlapped /\ Snapshot' = Snapshot
    BY <1>5 DEF FailWrite, SaveEnds, Snapshot
  <2>2. CASE ~overlapped
    <3>1. \A b \in Calls : UnderWay(b) => b = a
      BY <1>5, <2>2 DEF CopiesInv, FailWrite, SaveEnds
    <3>2. \A b \in Calls : ~UnderWay(b)'
      BY <1>5, <3>1, SaveEndsFacts DEF UnderWay
    <3> QED
      BY <2>1, <3>2 DEF CopiesInv, FileIsCurrent
  <2> QED
    BY <2>1, <2>2 DEF CopiesInv, FileIsCurrent
<1> QED
  BY <1>1, <1>2, <1>3, <1>4, <1>5, SaveLeft

(***************************************************************************)
(* The supervisors.                                                        *)
(***************************************************************************)
\* A run that has had a supervisor.
Past == {"prompting", "saving", "done"}

SupInv == SupervisorsInv /\ CallbacksKeptApart

LEMMA SupTyped ==
  ASSUME TypeOK
  PROVE  /\ \A s \in Sessions : session[s].sup \in Runs \cup {None} /\ session[s].active \in Runs \cup {None}
         /\ \A r \in Runs : supervisor[r] \in Runs \cup {None}
         /\ Runs \subseteq Calls /\ \A c \in Clients : c \notin Runs
BY Typed DEF Objects

\* No session and no run gets a supervisor, and the runs in flight keep theirs.
LEMMA SupKept ==
  ASSUME TypeOK, SupInv, UNCHANGED <<callback, overtaken>>,
         \A s \in Sessions : session'[s].sup \in {session[s].sup, None},
         \A r \in Runs : pc'[r] \in InFlight =>
           /\ pc[r] \in InFlight /\ (pc[r] = "prompting" <=> pc'[r] = "prompting")
           /\ target'[r] = target[r] /\ supervisor'[r] = supervisor[r]
           /\ target[r] \in Sessions /\ session'[target[r]].active = session[target[r]].active
           /\ session'[target[r]].sup = session[target[r]].sup,
         \A r \in Runs : pc[r] \in Past => pc'[r] \in Past
  PROVE  SupInv'
<1>0. "prompting" \in InFlight /\ InFlight = {"started", "ensuring", "prompting"}
  BY DEF InFlight
<1>1. \A r \in Runs : pc'[r] = "prompting" =>
        pc[r] = "prompting" /\ target'[r] = target[r] /\ supervisor'[r] = supervisor[r]
  BY <1>0
<1>2. ASSUME NEW s \in Sessions, session'[s].sup # None
      PROVE  /\ pc'[session'[s].sup] \in Past
             /\ \A t \in Sessions : session'[t].sup = session'[s].sup => t = s
             /\ \A r \in Runs : pc'[r] = "prompting" /\ supervisor'[r] = session'[s].sup => target'[r] = s
  BY <1>1, <1>2, SupTyped DEF SupInv, SupervisorsInv, Past
<1>3. ASSUME NEW r \in Runs, pc'[r] = "prompting"
      PROVE  /\ supervisor'[r] # None /\ pc'[supervisor'[r]] \in Past
             /\ \A q \in Runs : pc'[q] = "prompting" /\ supervisor'[q] = supervisor'[r] =>
                  target'[q] = target'[r] /\ (q = r \/ target'[r] \in overtaken')
  BY <1>1, <1>3, SupTyped DEF SupInv, SupervisorsInv, Past
<1>4. ASSUME NEW r \in Runs, pc'[r] \in InFlight, target'[r] \notin overtaken'
      PROVE  LET s == target'[r] IN
             /\ pc'[r] \in {"started", "ensuring"} => session'[s].active = r
             /\ pc'[r] = "prompting" => (session'[s].active = r <=> supervisor'[r] = session'[s].sup)
  <2>1. /\ pc[r] \in InFlight /\ target'[r] = target[r] /\ target[r] \notin overtaken
        /\ target[r] \in Sessions /\ supervisor'[r] = supervisor[r]
    BY <1>4
  <2>2. pc'[r] \in {"started", "ensuring"} => pc[r] \in {"started", "ensuring"}
    BY <1>0, <1>4
  <2> QED
    BY <1>1, <2>1, <2>2, <1>4 DEF SupInv, SupervisorsInv
<1>5. CallbacksKeptApart'
  BY <1>1 DEF SupInv, CallbacksKeptApart
<1> QED
  BY <1>2, <1>3, <1>4, <1>5 DEF SupInv, SupervisorsInv, Past

LEMMA SupCalm ==
  ASSUME TypeOK, CallsInv, SupInv, NEW a \in Calls, Calm(a)
  PROVE  SupInv'
<1>0. session' = session /\ callback' = callback /\ overtaken' = overtaken
  BY DEF Calm
<1>1. ASSUME NEW r \in Runs, pc'[r] \in InFlight
      PROVE  /\ pc[r] \in InFlight /\ (pc[r] = "prompting" <=> pc'[r] = "prompting")
             /\ target'[r] = target[r] /\ supervisor'[r] = supervisor[r]
             /\ target[r] \in Sessions
  <2>1. r # a => pc'[r] = pc[r] /\ target'[r] = target[r] /\ supervisor'[r] = supervisor[r]
    BY SupTyped DEF Calm, Stays, Proceeds, Wanders, Leaves
  <2>2. r = a => /\ pc[r] \in InFlight /\ (pc[r] = "prompting" <=> pc'[r] = "prompting")
                 /\ target'[r] = target[r] /\ supervisor'[r] = supervisor[r]
    BY <1>1 DEF Calm, Stays, Proceeds, Wanders, Leaves, InFlight
  <2>3. pc[r] \in InFlight
    BY <1>1, <2>1, <2>2
  <2> QED
    BY <2>1, <2>2, <2>3, SupTyped DEF CallsInv
<1>2. ASSUME NEW r \in Runs, pc[r] \in Past
      PROVE  pc'[r] \in Past
  BY <1>2, SupTyped DEF Calm, Stays, Proceeds, Wanders, Leaves, InFlight, Past
<1> QED
  BY <1>0, <1>1, <1>2, SupKept

LEMMA SupStart ==
  ASSUME TypeOK, CallsInv, SupInv, NEW r \in Runs, target[r] \in Sessions, Start(r)
  PROVE  SupInv'
<1> DEFINE s == target[r]
           old == session[s].active
<1>1. /\ pc[r] = "checked" /\ session'[s].active = r
      /\ session'[s].sup = IF old # None THEN None ELSE session[s].sup
      /\ OnlyChanges(s) /\ OnlySaves(r, "started")
      /\ overtaken' = IF old # None /\ pc[old] \in {"started", "ensuring"}
                      THEN overtaken \cup {s} ELSE overtaken
      /\ target' = target /\ supervisor' = supervisor /\ callback' = callback
  BY StartFacts
<1>2. s \in Sessions /\ target[r] = s
  OBVIOUS
<1> HIDE DEF s
<1>3. /\ pc'[r] = "started" /\ \A q \in Runs : q # r => pc'[q] = pc[q]
      /\ \A q \in Runs : pc'[q] = "prompting" <=> pc[q] = "prompting"
      /\ \A q \in Runs : pc'[q] \in Past <=> pc[q] \in Past
  BY <1>1, SupTyped DEF OnlySaves, OnlyMoves, Past
<1>4. overtaken \subseteq overtaken' /\ overtaken' \subseteq overtaken \cup {s}
  BY <1>1
<1>5. \A t \in Sessions : session'[t].sup \in {session[t].sup, None}
  BY <1>1 DEF OnlyChanges
<1>6. ASSUME NEW t \in Sessions, session'[t].sup # None
      PROVE  /\ pc'[session'[t].sup] \in Past
             /\ \A u \in Sessions : session'[u].sup = session'[t].sup => u = t
             /\ \A q \in Runs : pc'[q] = "prompting" /\ supervisor'[q] = session'[t].sup => target'[q] = t
  BY <1>1, <1>3, <1>5, <1>6, SupTyped DEF SupInv, SupervisorsInv, Past
<1>7. ASSUME NEW q \in Runs, pc'[q] = "prompting"
      PROVE  /\ supervisor'[q] # None /\ pc'[supervisor'[q]] \in Past
             /\ \A p \in Runs : pc'[p] = "prompting" /\ supervisor'[p] = supervisor'[q] =>
                  target'[p] = target'[q] /\ (p = q \/ target'[q] \in overtaken')
  BY <1>1, <1>3, <1>4, <1>7, SupTyped DEF SupInv, SupervisorsInv, Past
<1>8. ASSUME NEW q \in Runs, pc'[q] \in InFlight, target'[q] \notin overtaken'
      PROVE  LET t == target'[q] IN
             /\ pc'[q] \in {"started", "ensuring"} => session'[t].active = q
             /\ pc'[q] = "prompting" => (session'[t].active = q <=> supervisor'[q] = session'[t].sup)
  <2>1. CASE q = r
    BY <1>1, <1>2, <1>3, <2>1
  <2>2. CASE q # r /\ target[q] = s
    <3>1. pc[q] \in InFlight /\ s \notin overtaken /\ pc'[q] = pc[q]
      BY <1>1, <1>3, <1>4, <1>8, <2>2
    <3>2. pc[q] \notin {"started", "ensuring"}
      <4>1. SUFFICES ASSUME pc[q] \in {"started", "ensuring"} PROVE FALSE
        OBVIOUS
      <4>2. old = q
        BY <2>2, <3>1, <4>1 DEF SupInv, SupervisorsInv
      <4>3. s \in overtaken'
        BY <1>1, <4>1, <4>2
      <4> QED
        BY <1>1, <1>8, <2>2, <4>3
    <3>3. pc[q] = "prompting"
      BY <3>1, <3>2 DEF InFlight
    <3>4. supervisor[q] # None /\ (old = q <=> supervisor[q] = session[s].sup)
      BY <2>2, <3>1, <3>3 DEF SupInv, SupervisorsInv
    <3>5. supervisor[q] # session'[s].sup
      BY <1>1, <3>4
    <3> QED
      BY <1>1, <2>2, <3>1, <3>2, <3>5
  <2>3. CASE q # r /\ target[q] # s
    <3>1. pc[q] \in InFlight /\ target[q] \notin overtaken /\ pc'[q] = pc[q] /\ target'[q] = target[q]
      BY <1>1, <1>3, <1>4, <1>8, <2>3
    <3>2. target[q] \in Sessions => session'[target[q]] = session[target[q]]
      BY <1>1, <2>3 DEF OnlyChanges
    <3>3. target[q] \in Sessions
      BY <3>1, SupTyped DEF CallsInv
    <3> QED
      BY <1>1, <3>1, <3>2, <3>3 DEF SupInv, SupervisorsInv
  <2> QED
    BY <2>1, <2>2, <2>3
<1>9. CallbacksKeptApart'
  BY <1>1, <1>3, <1>4 DEF SupInv, CallbacksKeptApart
<1> QED
  BY <1>6, <1>7, <1>8, <1>9 DEF SupInv, SupervisorsInv, Past

LEMMA SupEnsure ==
  ASSUME TypeOK, CallsInv, SupInv, NEW r \in Runs, target[r] \in Sessions, EnsureSupervisor(r)
  PROVE  SupInv'
<1> DEFINE s == target[r]
           v == IF session[s].sup # None THEN session[s].sup ELSE r
<1>1. /\ pc[r] = "ensuring" /\ OnlyMoves(r, "prompting") /\ v \in Runs
      /\ supervisor'[r] = v /\ \A q \in Runs : q # r => supervisor'[q] = supervisor[q]
      /\ callback'[v] = r /\ \A w \in Runs : w # v => callback'[w] = callback[w]
      /\ session'[s] = [session[s] EXCEPT !.sup = v] /\ OnlyChanges(s)
      /\ target' = target /\ overtaken' = overtaken
  BY EnsureFacts
<1>2. session'[s].sup = v /\ session'[s].active = session[s].active
  BY <1>1, Typed DEF Objects
<1>3. s \in Sessions /\ target[r] = s /\ (session[s].sup # None => v = session[s].sup)
      /\ (session[s].sup = None => v = r)
  OBVIOUS
<1> HIDE DEF s, v
<1>4. /\ pc'[r] = "prompting" /\ \A q \in Runs : q # r => pc'[q] = pc[q]
      /\ \A q \in Runs : pc[q] \in Past => pc'[q] \in Past
  BY <1>1, SupTyped DEF OnlyMoves, Past
<1>5. pc[r] \notin Past /\ r # None
  BY <1>1 DEF Past
<1>6. \* The name of the new supervisor is new.
      /\ \A t \in Sessions : session[t].sup # r
      /\ \A q \in Runs : pc[q] = "prompting" => supervisor[q] # r
  BY <1>5 DEF SupInv, SupervisorsInv, Past
<1>7. \A t \in Sessions : t # s => session[t].sup # v
  BY <1>3, <1>6 DEF SupInv, SupervisorsInv
<1>8. pc'[v] \in Past
  <2>1. CASE v = r
    BY <1>4, <2>1 DEF Past
  <2>2. CASE v # r
    BY <1>3, <1>4, <2>2, SupTyped DEF SupInv, SupervisorsInv, Past
  <2> QED
    BY <2>1, <2>2
<1>9. ASSUME NEW q \in Runs, q # r, pc[q] = "prompting", supervisor[q] = v
      PROVE  target[q] = s /\ s \in overtaken
  <2>1. session[s].sup = v /\ v # None
    BY <1>3, <1>6, <1>9
  <2>2. target[q] = s
    BY <1>3, <1>9, <2>1 DEF SupInv, SupervisorsInv
  <2>3. s \notin overtaken => session[s].active = q
    BY <1>9, <2>1, <2>2 DEF SupInv, SupervisorsInv, InFlight
  <2>4. s \notin overtaken => session[s].active = r
    BY <1>1, <1>3 DEF SupInv, SupervisorsInv, InFlight
  <2> QED
    BY <1>9, <2>2, <2>3, <2>4
<1>10. ASSUME NEW t \in Sessions, session'[t].sup # None
       PROVE  /\ pc'[session'[t].sup] \in Past
              /\ \A u \in Sessions : session'[u].sup = session'[t].sup => u = t
              /\ \A q \in Runs : pc'[q] = "prompting" /\ supervisor'[q] = session'[t].sup => target'[q] = t
  <2>1. CASE t = s
    <3>1. \A q \in Runs : q # r /\ pc'[q] = "prompting" /\ supervisor'[q] = v => target'[q] = s
      BY <1>1, <1>4, <1>9
    <3>2. \A u \in Sessions : u # s => session'[u].sup # v
      BY <1>1, <1>7 DEF OnlyChanges
    <3> QED
      BY <1>1, <1>2, <1>3, <1>8, <2>1, <3>1, <3>2
  <2>2. CASE t # s
    <3>1. session'[t] = session[t] /\ session[t].sup # v /\ session[t].sup # None
      BY <1>1, <1>7, <1>10, <2>2 DEF OnlyChanges
    <3>2. pc[session[t].sup] \in Past /\ session[t].sup \in Runs
      BY <3>1, SupTyped DEF SupInv, SupervisorsInv, Past
    <3>3. \A u \in Sessions : session'[u].sup = session[t].sup => u = t
      <4>1. \A u \in Sessions : session[u].sup = session[t].sup => u = t
        BY <3>1 DEF SupInv, SupervisorsInv
      <4>2. \A u \in Sessions : u # s => session'[u] = session[u]
        BY <1>1 DEF OnlyChanges
      <4>3. session'[s].sup # session[t].sup
        BY <1>2, <3>1
      <4> QED
        BY <4>1, <4>2, <4>3
    <3>4. \A q \in Runs : pc'[q] = "prompting" /\ supervisor'[q] = session[t].sup => target[q] = t
      BY <1>1, <1>4, <3>1 DEF SupInv, SupervisorsInv
    <3> QED
      BY <1>1, <1>4, <3>1, <3>2, <3>3, <3>4
  <2> QED
    BY <2>1, <2>2
<1>11. ASSUME NEW q \in Runs, pc'[q] = "prompting"
       PROVE  /\ supervisor'[q] # None /\ pc'[supervisor'[q]] \in Past
              /\ \A p \in Runs : pc'[p] = "prompting" /\ supervisor'[p] = supervisor'[q] =>
                   target'[p] = target'[q] /\ (p = q \/ target'[q] \in overtaken')
  <2>1. CASE q = r
    BY <1>1, <1>3, <1>4, <1>8, <1>9, <2>1
  <2>2. CASE q # r
    <3>1. /\ pc[q] = "prompting" /\ supervisor'[q] = supervisor[q]
          /\ supervisor[q] # None /\ pc[supervisor[q]] \in Past /\ supervisor[q] \in Runs
      BY <1>1, <1>4, <1>11, <2>2, SupTyped DEF SupInv, SupervisorsInv, Past
    <3>2. ASSUME NEW p \in Runs, pc'[p] = "prompting", supervisor'[p] = supervisor'[q]
          PROVE  target'[p] = target'[q] /\ (p = q \/ target'[q] \in overtaken')
      <4>1. CASE p = r
        <5>1. supervisor[q] = v
          BY <1>1, <3>1, <3>2, <4>1
        <5>2. target[q] = s /\ s \in overtaken
          BY <1>9, <2>2, <3>1, <5>1
        <5> QED
          BY <1>1, <1>3, <4>1, <5>2
      <4>2. CASE p # r
        BY <1>1, <1>4, <3>1, <3>2, <4>2 DEF SupInv, SupervisorsInv
      <4> QED
        BY <4>1, <4>2
    <3> QED
      BY <1>4, <3>1, <3>2
  <2> QED
    BY <2>1, <2>2
<1>12. ASSUME NEW q \in Runs, pc'[q] \in InFlight, target'[q] \notin overtaken'
       PROVE  LET t == target'[q] IN
              /\ pc'[q] \in {"started", "ensuring"} => session'[t].active = q
              /\ pc'[q] = "prompting" => (session'[t].active = q <=> supervisor'[q] = session'[t].sup)
  <2>1. CASE q = r
    <3>1. session[s].active = r
      BY <1>1, <1>3, <1>12, <2>1 DEF SupInv, SupervisorsInv, InFlight
    <3> QED
      BY <1>1, <1>2, <1>3, <1>4, <2>1, <3>1
  <2>2. CASE q # r
    <3>1. /\ pc[q] \in InFlight /\ pc'[q] = pc[q] /\ target[q] \in Sessions /\ target'[q] = target[q]
          /\ target[q] \notin overtaken /\ supervisor'[q] = supervisor[q]
      BY <1>1, <1>4, <1>12, <2>2, SupTyped DEF CallsInv
    <3>2. /\ pc[q] \in {"started", "ensuring"} => session[target[q]].active = q
          /\ pc[q] = "prompting" => (session[target[q]].active = q <=> supervisor[q] = session[target[q]].sup)
      BY <3>1 DEF SupInv, SupervisorsInv
    <3>3. CASE target[q] # s
      BY <1>1, <3>1, <3>2, <3>3 DEF OnlyChanges
    <3>4. CASE target[q] = s
      <4>1. session[s].active = r
        BY <1>1, <1>3, <3>1, <3>4 DEF SupInv, SupervisorsInv, InFlight
      <4>2. pc[q] = "prompting" => supervisor[q] # v
        BY <1>9, <2>2, <3>1, <3>4
      <4> QED
        BY <1>2, <2>2, <3>1, <3>2, <3>4, <4>1, <4>2
    <3> QED
      BY <3>3, <3>4
  <2> QED
    BY <2>1, <2>2
<1>13. ASSUME NEW q \in Runs, pc'[q] = "prompting", callback'[supervisor'[q]] # q
       PROVE  target'[q] \in overtaken'
  <2>1. q # r
    BY <1>1, <1>13
  <2>2. /\ pc[q] = "prompting" /\ supervisor'[q] = supervisor[q] /\ supervisor[q] \in Runs
    BY <1>1, <1>4, <1>13, <2>1, SupTyped DEF SupInv, SupervisorsInv
  <2>3. CASE supervisor[q] = v
    BY <1>1, <1>9, <2>1, <2>2, <2>3
  <2>4. CASE supervisor[q] # v
    BY <1>1, <1>13, <2>2, <2>4 DEF SupInv, CallbacksKeptApart
  <2> QED
    BY <2>3, <2>4
<1> QED
  BY <1>10, <1>11, <1>12, <1>13 DEF SupInv, SupervisorsInv, CallbacksKeptApart, Past

LEMMA SupEnd ==
  ASSUME TypeOK, CallsInv, SupInv, NEW r \in Runs, NEW outcome, target[r] \in Sessions, End(r, outcome)
  PROVE  SupInv'
<1> DEFINE s == target[r]
<1>1. /\ pc[r] = "prompting" /\ session[s].active = r
      /\ session'[s].active = None /\ session'[s].sup = session[s].sup
      /\ OnlyChanges(s) /\ OnlySaves(r, "saving")
      /\ callback' = [callback EXCEPT ![supervisor[r]] = None]
      /\ \A b \in Calls : b # r => target'[b] = target[b]
      /\ \A q \in Runs : q # r => supervisor'[q] = supervisor[q]
      /\ overtaken' = overtaken
  BY EndFacts
<1>2. s \in Sessions /\ target[r] = s /\ r # None
  OBVIOUS
<1> HIDE DEF s
<1>3. /\ pc'[r] = "saving" /\ \A q \in Runs : q # r => pc'[q] = pc[q]
      /\ \A q \in Runs : pc[q] \in Past => pc'[q] \in Past
  BY <1>1, SupTyped DEF OnlySaves, OnlyMoves, Past
<1>4. \A t \in Sessions : session'[t].sup = session[t].sup
  BY <1>1 DEF OnlyChanges
<1>5. ASSUME NEW q \in Runs, pc'[q] \in InFlight
      PROVE  q # r /\ pc[q] = pc'[q] /\ target'[q] = target[q] /\ supervisor'[q] = supervisor[q]
  <2>1. q # r
    BY <1>3, <1>5 DEF InFlight
  <2> QED
    BY <1>1, <1>3, <2>1, SupTyped
<1>6. ASSUME NEW t \in Sessions, session'[t].sup # None
      PROVE  /\ pc'[session'[t].sup] \in Past
             /\ \A u \in Sessions : session'[u].sup = session'[t].sup => u = t
             /\ \A q \in Runs : pc'[q] = "prompting" /\ supervisor'[q] = session'[t].sup => target'[q] = t
  BY <1>3, <1>4, <1>5, <1>6, SupTyped DEF SupInv, SupervisorsInv, Past, InFlight
<1>7. ASSUME NEW q \in Runs, pc'[q] = "prompting"
      PROVE  /\ supervisor'[q] # None /\ pc'[supervisor'[q]] \in Past
             /\ \A p \in Runs : pc'[p] = "prompting" /\ supervisor'[p] = supervisor'[q] =>
                  target'[p] = target'[q] /\ (p = q \/ target'[q] \in overtaken')
  BY <1>1, <1>3, <1>5, <1>7, SupTyped DEF SupInv, SupervisorsInv, Past, InFlight
<1>8. ASSUME NEW q \in Runs, pc'[q] \in InFlight, target'[q] \notin overtaken'
      PROVE  LET t == target'[q] IN
             /\ pc'[q] \in {"started", "ensuring"} => session'[t].active = q
             /\ pc'[q] = "prompting" => (session'[t].active = q <=> supervisor'[q] = session'[t].sup)
  <2>1. /\ q # r /\ pc'[q] = pc[q] /\ target'[q] = target[q] /\ supervisor'[q] = supervisor[q]
        /\ target[q] \in Sessions /\ target[q] \notin overtaken /\ q # None
    BY <1>1, <1>5, <1>8, SupTyped DEF CallsInv
  <2>2. /\ pc[q] \in {"started", "ensuring"} => session[target[q]].active = q
        /\ pc[q] = "prompting" => (session[target[q]].active = q <=> supervisor[q] = session[target[q]].sup)
    BY <1>8, <2>1 DEF SupInv, SupervisorsInv
  <2>3. CASE target[q] = s
    BY <1>1, <2>1, <2>2, <2>3
  <2>4. CASE target[q] # s
    BY <1>1, <2>1, <2>2, <2>4 DEF OnlyChanges
  <2> QED
    BY <2>3, <2>4
<1>9. ASSUME NEW q \in Runs, pc'[q] = "prompting", callback'[supervisor'[q]] # q
      PROVE  target'[q] \in overtaken'
  <2>1. /\ q # r /\ pc[q] = "prompting" /\ target'[q] = target[q] /\ supervisor'[q] = supervisor[q]
        /\ supervisor[q] \in Runs
    BY <1>5, <1>9, SupTyped DEF SupInv, SupervisorsInv, InFlight
  <2>2. CASE supervisor[q] = supervisor[r]
    BY <1>1, <2>1, <2>2 DEF SupInv, SupervisorsInv
  <2>3. CASE supervisor[q] # supervisor[r]
    <3>1. callback'[supervisor[q]] = callback[supervisor[q]]
      BY <1>1, <2>1, <2>3, Typed
    <3> QED
      BY <1>1, <1>9, <2>1, <3>1 DEF SupInv, CallbacksKeptApart
  <2> QED
    BY <2>2, <2>3
<1> QED
  BY <1>6, <1>7, <1>8, <1>9 DEF SupInv, SupervisorsInv, CallbacksKeptApart, Past

LEMMA SupStep ==
  ASSUME TypeOK, CallsInv, FilesInv, SupInv, StepKinds
  PROVE  SupInv'
<1>1. ASSUME NEW a \in Calls, Calm(a)
      PROVE  SupInv'
  BY <1>1, SupCalm
<1>2. ASSUME NEW a \in Calls, NEW n \in Sessions, NEW place \in {"saving", "creating", "storing"}, Creates(a, n, place)
      PROVE  SupInv'
  <2>1. /\ pc[a] = "idle" /\ session[n].status = "none" /\ session'[n] = Fresh(Idle) /\ OnlyChanges(n)
        /\ \A b \in Calls : b # a => target'[b] = target[b]
        /\ OnlySaves(a, place) /\ supervisor' = supervisor /\ callback' = callback /\ overtaken' = overtaken
    BY <1>2, CreateFacts DEF Creates
  <2>2. \A s \in Sessions : session'[s].sup \in {session[s].sup, None}
    BY <2>1 DEF OnlyChanges, Fresh
  <2>3. ASSUME NEW r \in Runs, pc'[r] \in InFlight
        PROVE  /\ pc[r] \in InFlight /\ pc'[r] = pc[r] /\ target'[r] = target[r]
               /\ target[r] \in Sessions /\ session'[target[r]] = session[target[r]]
    <3>1. pc[r] \in InFlight /\ pc'[r] = pc[r] /\ target'[r] = target[r]
      BY <2>1, <2>3, SupTyped DEF OnlySaves, OnlyMoves, InFlight
    <3>2. target[r] \in Sessions /\ session[target[r]].status # "none"
      BY <3>1, SupTyped DEF CallsInv
    <3> QED
      BY <2>1, <3>1, <3>2 DEF OnlyChanges
  <2>4. \A r \in Runs : pc[r] \in Past => pc'[r] \in Past
    BY <2>1, SupTyped DEF OnlySaves, OnlyMoves, Past
  <2> QED
    BY <2>1, <2>2, <2>3, <2>4, SupKept
<1>3. ASSUME NEW c \in Clients, NEW s \in Sessions, Cancels(c, s) \/ Records(c, s)
      PROVE  SupInv'
  <2>1. /\ session'[s].active = session[s].active /\ session'[s].sup = session[s].sup /\ OnlyChanges(s)
        /\ OnlySaves(c, "saving") /\ \A b \in Calls : b # c => target'[b] = target[b]
        /\ supervisor' = supervisor /\ callback' = callback /\ overtaken' = overtaken
    <3>1. CASE Cancels(c, s)
      BY <3>1 DEF Cancels, CancelsRun
    <3>2. CASE Records(c, s)
      <4>1. PICK status \in DirectStatus : Record(c, s, status)
        BY <3>2 DEF Records
      <4> QED
        BY <4>1, RecordFacts
    <3> QED
      BY <1>3, <3>1, <3>2
  <2>2. \A r \in Runs : pc'[r] = pc[r] /\ target'[r] = target[r]
    BY <2>1, SupTyped DEF OnlySaves, OnlyMoves
  <2>3. \A t \in Sessions : session'[t].active = session[t].active /\ session'[t].sup = session[t].sup
    BY <2>1 DEF OnlyChanges
  <2>4. \A r \in Runs : pc[r] \in InFlight => target[r] \in Sessions
    BY SupTyped DEF CallsInv
  <2> QED
    BY <2>1, <2>2, <2>3, <2>4, SupKept
<1>4. CASE Restart
  <2>1. /\ \A s \in Sessions : session'[s].sup = None
        /\ \A a \in Calls : pc'[a] = "done"
    BY <1>4, RestartFacts
  <2> QED
    BY <2>1, SupTyped DEF SupInv, SupervisorsInv, CallbacksKeptApart, InFlight
<1>5. CASE UNCHANGED vars
  BY <1>5 DEF vars, SupInv, SupervisorsInv, CallbacksKeptApart
<1> QED
  BY <1>1, <1>2, <1>3, <1>4, <1>5, SupStart, SupEnsure, SupEnd DEF StepKinds

(***************************************************************************)
(* The theorems.                                                           *)
(***************************************************************************)
\* SessionsInv with the two properties that are inductive together with it.
Sound == SessionsInv /\ FileIsCurrent /\ CallbacksKeptApart

LEMMA InitSound ==
  ASSUME Init
  PROVE  Sound
<1>1. TypeOK
  BY InitType
<1>2. /\ \A s \in Sessions : /\ session[s].active = None /\ session[s].cancel = None
                             /\ session[s].sup = None
      /\ \A a \in Calls : pc[a] = "idle" /\ stage[a] = "none" /\ copy[a] = Nothing
      /\ cancelled = {} /\ Runs \subseteq Calls
  BY DEF Init, Fresh, Calls
<1>3. ASSUME NEW s \in Sessions
      PROVE  session[s].status \in {"idle", "none"} /\ (s \in live => session[s].status = "idle")
  <2>1. file.is = "whole" /\ file.holds[s] = IF s \in live THEN Idle ELSE Absent
    BY DEF Init
  <2>2. /\ [Idle EXCEPT !.status = IF Idle.status = "running" THEN "idle" ELSE Idle.status].status = "idle"
        /\ [Absent EXCEPT !.status = IF Absent.status = "running" THEN "idle" ELSE Absent.status].status = "none"
    BY DEF Idle, Absent
  <2>3. Load(file)[s] = [file.holds[s] EXCEPT !.status = IF file.holds[s].status = "running"
                                                         THEN "idle" ELSE file.holds[s].status]
    BY <2>1 DEF Load
  <2>4. session[s].status = Load(file)[s].status
    BY DEF Init, Fresh
  <2> QED
    BY <2>1, <2>2, <2>3, <2>4
<1>4. HeldInv /\ CallsInv /\ FlightInv
  BY <1>2, <1>3 DEF HeldInv, CallsInv, FlightInv, InFlight
<1>5. FilesInv
  <2>1. Idle.status = "idle" /\ file.holds = [s \in Sessions |-> IF s \in live THEN Idle ELSE Absent]
    BY DEF Init, Idle, Absent
  <2> QED
    BY <1>2, <2>1 DEF FilesInv, Proper, Nothing
<1>6. SupervisorsInv /\ CallbacksKeptApart
  BY <1>2 DEF SupervisorsInv, CallbacksKeptApart, InFlight
<1> QED
  BY <1>1, <1>4, <1>5, <1>6, RunsFollow, InitCurrent DEF Sound, SessionsInv

LEMMA SoundStep ==
  ASSUME Sound, [Next]_vars
  PROVE  Sound'
<1>1. /\ TypeOK /\ HeldInv /\ CallsInv /\ FlightInv /\ FilesInv /\ CopiesInv /\ FileIsCurrent
      /\ SupInv
  BY DEF Sound, SessionsInv, SupInv
<1>2. StepKinds
  BY <1>1, StepCases
<1>3. TypeOK' /\ HeldInv' /\ CallsInv' /\ FlightInv' /\ FilesInv'
  BY <1>1, <1>2, TypeStep, HeldStep, CallsStep, FlightStep, FilesStep
<1>4. CopiesInv' /\ FileIsCurrent' /\ SupInv'
  BY <1>1, <1>2, CurrentStep, SupStep
<1>5. RunningIsLive' /\ OneRunAtATime'
  <2>1. (TypeOK /\ HeldInv /\ CallsInv /\ FlightInv => RunningIsLive /\ OneRunAtATime)'
    BY RunsFollow, PTL
  <2> QED
    BY <1>3, <2>1
<1> QED
  BY <1>3, <1>4, <1>5 DEF Sound, SessionsInv, SupInv

LEMMA AlwaysSound == Spec => []Sound
BY InitSound, SoundStep, PTL DEF Spec

\* Whatever tabs, requests, cancellations and restarts do: a session shown as
\* running has a run that will end it, and two prompts work on a session at a
\* time only if one was cancelled or a direct result was recorded in between
\* (Run, Cancel, Archive, Delete and RecordDirectResult of multisession.go).
THEOREM SessionsSafe == Spec => []SessionsInv
<1>1. Sound => SessionsInv
  BY DEF Sound
<1> QED
  BY <1>1, AlwaysSound, PTL

\* When nothing is left to save, and the last Save neither failed nor overlapped
\* another, a restart would load what is in memory, whatever earlier Saves failed to
\* write, wrote in part or garbled (Save, which its callers do not wait for or ask
\* about, and Load of multisession.go).
THEOREM FileCurrent == Spec => []FileIsCurrent
<1>1. Sound => FileIsCurrent
  BY DEF Sound
<1> QED
  BY <1>1, AlwaysSound, PTL

\* A prompt reports to its own client, unless a run of its session was replaced
\* before it had got its supervisor (Run and ensureSupervisor).
THEOREM CallbacksApart == Spec => []CallbacksKeptApart
<1>1. Sound => CallbacksKeptApart
  BY DEF Sound
<1> QED
  BY <1>1, AlwaysSound, PTL

(***************************************************************************)
(* Every run that was begun can go on, and only goes forward.              *)
(***************************************************************************)
SavePlaces == {"creating", "storing", "started", "saving"}

\* How far a call is: the places of Run in their order, each Save in two steps.
Order ==
  [p \in Places |->
     CASE p = "idle" -> 0
       [] p \in {"creating", "storing"} -> 1
       [] p \in {"found", "recording"} -> 2
       [] p = "checked" -> 3
       [] p = "started" -> 4
       [] p = "ensuring" -> 5
       [] p = "prompting" -> 6
       [] p = "saving" -> 7
       [] OTHER -> 8]

Progress(a) == 2 * Order[pc[a]] + IF UnderWay(a) THEN 1 ELSE 0

\* The guards of a run's steps: of Copy, Write and FailWrite; CheckArchived, Refuse or
\* Start, EnsureSupervisor, EndReplaced or End.
RunCanGoOn(r) == stage[r] # "none" \/ pc[r] \in {"found", "checked", "ensuring", "prompting"}

\* A call that has to save has begun to, and a session shown as running, also a
\* deleted one, has an active run.
GoingInv ==
  /\ \A a \in Calls : pc[a] \in SavePlaces => stage[a] # "none"
  /\ \A r \in Runs : pc[r] \notin {"storing", "recording"}
  /\ \A s \in Sessions : session[s].status = "running" => session[s].active # None

\* One call moves; the others are where they were, though their Save may be raced.
OthersStay(a) ==
  \A b \in Calls \ {a} :
    /\ pc'[b] = pc[b]
    /\ stage'[b] = "none" <=> stage[b] = "none"
    /\ stage'[b] \in {"copied", "raced"} <=> stage[b] \in {"copied", "raced"}

Moves(a) ==
  /\ OthersStay(a)
  /\ pc'[a] \in SavePlaces => stage'[a] # "none"
  /\ a \in Runs /\ pc'[a] \in {"storing", "recording"} => pc[a] = "storing"

LEMMA OrderIs ==
  /\ Order["idle"] = 0 /\ Order["creating"] = 1 /\ Order["storing"] = 1 /\ Order["found"] = 2
  /\ Order["recording"] = 2 /\ Order["checked"] = 3 /\ Order["started"] = 4
  /\ Order["ensuring"] = 5 /\ Order["prompting"] = 6 /\ Order["saving"] = 7 /\ Order["done"] = 8
BY DEF Order, Places

\* A Save's two steps.
LEMMA SaveMoves ==
  ASSUME TypeOK, CallsInv, NEW a \in Calls, SaveStep(a)
  PROVE  Moves(a) /\ Progress(a) < Progress(a)'
<1>1. CASE Copy(a)
  <2>1. /\ stage[a] = "due" /\ stage'[a] = "copied" /\ pc' = pc
        /\ \A b \in Calls \ {a} : stage'[b] = stage[b]
    BY <1>1, Typed DEF Copy
  <2>2. pc[a] \in SavePlaces
    BY <2>1 DEF CallsInv, SavePlaces
  <2>3. Moves(a)
    BY <2>1, <2>2 DEF Moves, OthersStay, SavePlaces
  <2>4. Progress(a) < Progress(a)'
    BY <2>1, <2>2, OrderIs DEF Progress, UnderWay, SavePlaces
  <2> QED
    BY <2>3, <2>4
<1>2. CASE Write(a) \/ FailWrite(a)
  <2>1. /\ stage[a] \in {"copied", "raced"} /\ stage'[a] = "none" /\ pc'[a] = Resumes(pc[a])
        /\ \A b \in Calls \ {a} :
             /\ pc'[b] = pc[b]
             /\ \/ stage'[b] = stage[b]
                \/ stage[b] \in {"copied", "raced"} /\ stage'[b] = "raced"
    BY <1>2, SaveEndsFacts DEF UnderWay
  <2>2. pc[a] \in SavePlaces
    BY <2>1 DEF CallsInv, SavePlaces
  <2>3. \/ pc[a] = "creating" /\ pc'[a] = "found"
        \/ pc[a] = "storing" /\ pc'[a] = "recording"
        \/ pc[a] = "started" /\ pc'[a] = "ensuring"
        \/ pc[a] = "saving" /\ pc'[a] = "done"
    BY <2>1, <2>2 DEF SavePlaces, Resumes
  <2>4. OthersStay(a)
    BY <2>1 DEF OthersStay
  <2>5. Moves(a)
    BY <2>3, <2>4 DEF Moves, SavePlaces
  <2>6. Progress(a) < Progress(a)'
    BY <2>1, <2>3, OrderIs DEF Progress, UnderWay
  <2> QED
    BY <2>5, <2>6
<1> QED
  BY <1>1, <1>2 DEF SaveStep

\* A call goes on to save, or to a place where it has not to.
LEMMA PlaceMoves ==
  ASSUME TypeOK, CallsInv, NEW a \in Calls, pc[a] \notin SavePlaces, NEW place \in Places
  PROVE  /\ OnlySaves(a, place) /\ (a \in Runs => place \notin {"storing", "recording"}) =>
              /\ Moves(a) /\ pc'[a] = place
              /\ Order[pc[a]] < Order[place] => Progress(a) < Progress(a)'
         /\ /\ OnlyMoves(a, place) /\ stage' = stage /\ place \notin SavePlaces
            /\ a \in Runs => place \notin {"storing", "recording"}
            => /\ Moves(a) /\ pc'[a] = place
               /\ Order[pc[a]] < Order[place] => Progress(a) < Progress(a)'
<1>1. stage[a] = "none" /\ Order[pc[a]] \in Nat /\ Order[place] \in Nat
  <2>1. \A p \in Places : Order[p] \in Nat
    BY DEF Order
  <2> QED
    BY <2>1, Typed DEF CallsInv, SavePlaces
<1>2. ASSUME OnlySaves(a, place), a \in Runs => place \notin {"storing", "recording"}
      PROVE  /\ Moves(a) /\ pc'[a] = place
             /\ Order[pc[a]] < Order[place] => Progress(a) < Progress(a)'
  BY <1>1, <1>2 DEF OnlySaves, OnlyMoves, Moves, OthersStay, Progress, UnderWay
<1>3. ASSUME OnlyMoves(a, place), stage' = stage, place \notin SavePlaces,
             a \in Runs => place \notin {"storing", "recording"}
      PROVE  /\ Moves(a) /\ pc'[a] = place
             /\ Order[pc[a]] < Order[place] => Progress(a) < Progress(a)'
  BY <1>1, <1>3 DEF OnlyMoves, Moves, OthersStay, Progress, UnderWay
<1> QED
  BY <1>2, <1>3

\* Each step of a run takes it further.
LEMMA RunMoves ==
  ASSUME TypeOK, CallsInv, NEW r \in Runs, RunArrives(r) \/ RunStep(r)
  PROVE  Moves(r) /\ Progress(r) < Progress(r)'
<1>0. r \in Calls /\ pc \in [Calls -> Places]
  BY Typed
<1>1. CASE SaveStep(r)
  BY <1>0, <1>1, SaveMoves
<1>2. ASSUME NEW s \in Sessions, Get(r, s)
      PROVE  Moves(r) /\ Progress(r) < Progress(r)'
  <2>1. PICK place \in {"done", "checked"} : OnlyMoves(r, place)
    BY <1>0, <1>2 DEF Get, OnlyMoves
  <2> QED
    BY <1>0, <1>2, <2>1, PlaceMoves, OrderIs DEF Get, SavePlaces, Places
<1>3. ASSUME NEW s \in Sessions, NEW n \in Sessions, GetMissing(r, s, n)
      PROVE  Moves(r) /\ Progress(r) < Progress(r)'
  <2>1. OnlySaves(r, "creating") /\ pc[r] = "idle"
    BY <1>0, <1>3, CreateFacts DEF GetMissing
  <2> QED
    BY <1>0, <2>1, PlaceMoves, OrderIs DEF SavePlaces, Places
<1>4. CASE CheckArchived(r)
  <2>1. PICK place \in {"done", "checked"} : OnlyMoves(r, place)
    BY <1>0, <1>4 DEF CheckArchived, OnlyMoves
  <2> QED
    BY <1>0, <1>4, <2>1, PlaceMoves, OrderIs DEF CheckArchived, SavePlaces, Places
<1>5. CASE Refuse(r) \/ EndReplaced(r)
  <2>1. OnlyMoves(r, "done") /\ stage' = stage /\ pc[r] \in {"checked", "prompting"}
    BY <1>0, <1>5 DEF Refuse, EndReplaced, Leave, OnlyMoves
  <2> QED
    BY <1>0, <2>1, PlaceMoves, OrderIs DEF SavePlaces, Places
<1>6. CASE Start(r)
  <2>1. pc[r] = "checked" /\ SaveAt(r, "started")
    BY <1>6 DEF Start
  <2>2. OnlySaves(r, "started")
    BY <1>0, <2>1, SaveAtFacts
  <2> QED
    BY <1>0, <2>1, <2>2, PlaceMoves, OrderIs DEF SavePlaces, Places
<1>7. CASE EnsureSupervisor(r)
  <2>1. OnlyMoves(r, "prompting") /\ stage' = stage /\ pc[r] = "ensuring"
    BY <1>0, <1>7 DEF EnsureSupervisor, OnlyMoves
  <2> QED
    BY <1>0, <2>1, PlaceMoves, OrderIs DEF SavePlaces, Places
<1>8. ASSUME NEW outcome, End(r, outcome)
      PROVE  Moves(r) /\ Progress(r) < Progress(r)'
  <2>1. pc[r] = "prompting" /\ SaveAt(r, "saving")
    BY <1>8 DEF End
  <2>2. OnlySaves(r, "saving")
    BY <1>0, <2>1, SaveAtFacts
  <2> QED
    BY <1>0, <2>1, <2>2, PlaceMoves, OrderIs DEF SavePlaces, Places
<1> QED
  BY <1>1, <1>2, <1>3, <1>4, <1>5, <1>6, <1>7, <1>8 DEF RunArrives, RunStep

LEMMA ClientMoves ==
  ASSUME TypeOK, CallsInv, NEW c \in Clients, ClientArrives(c) \/ ClientStep(c)
  PROVE  Moves(c) /\ c \notin Runs
<1>0. c \in Calls /\ c \notin Runs
  BY Typed
<1>1. CASE SaveStep(c)
  BY <1>0, <1>1, SaveMoves
<1>2. CASE NextRequest(c)
  <2>1. OnlyMoves(c, "idle") /\ stage' = stage /\ pc[c] = "done"
    BY <1>0, <1>2, Typed DEF NextRequest, OnlyMoves
  <2> QED
    BY <1>0, <2>1, PlaceMoves DEF SavePlaces, Places
<1>3. ASSUME NEW place \in SavePlaces, OnlySaves(c, place), pc[c] \in {"idle", "recording"}
      PROVE  Moves(c)
  BY <1>0, <1>3, PlaceMoves DEF SavePlaces, Places
<1>4. ASSUME NEW n \in Sessions, NEW place \in SavePlaces, pc[c] = "idle", CreateFor(c, n, place)
      PROVE  Moves(c)
  BY <1>0, <1>3, <1>4, CreateFacts
<1>5. ASSUME NEW s \in Sessions, NEW status \in DirectStatus, Record(c, s, status),
             pc[c] \in {"idle", "recording"}
      PROVE  Moves(c)
  BY <1>3, <1>5, RecordFacts DEF SavePlaces
<1>6. ASSUME NEW status \in DirectStatus, RecordCreated(c, status)
      PROVE  Moves(c)
  <2>1. target[c] \in Sessions
    BY <1>0, <1>6 DEF RecordCreated, CallsInv
  <2> QED
    BY <1>5, <1>6, <2>1 DEF RecordCreated
<1>7. ASSUME NEW s \in Sessions,
             \/ \E archived \in BOOLEAN : Archive(c, s, archived)
             \/ Cancel(c, s) \/ Delete(c, s) \/ Rename(c, s)
      PROVE  Moves(c)
  <2>1. pc[c] = "idle" /\ SaveAt(c, "saving")
    BY <1>7 DEF Archive, Cancel, Delete, Rename
  <2> QED
    BY <1>0, <1>3, <2>1, SaveAtFacts DEF SavePlaces
<1> QED
  BY <1>0, <1>1, <1>2, <1>4, <1>5, <1>6, <1>7
  DEF ClientArrives, ClientStep, Create, RecordDirectResult, RecordMissing, SavePlaces

LEMMA GoingStep ==
  ASSUME TypeOK, HeldInv, CallsInv, FilesInv, GoingInv, [Next]_vars
  PROVE  GoingInv'
<1>1. /\ \A a \in Calls : pc'[a] \in SavePlaces => stage'[a] # "none"
      /\ \A r \in Runs : pc'[r] \notin {"storing", "recording"}
  <2>1. ASSUME NEW a \in Calls, Moves(a)
        PROVE  /\ \A b \in Calls : pc'[b] \in SavePlaces => stage'[b] # "none"
               /\ \A r \in Runs : pc'[r] \notin {"storing", "recording"}
    BY <2>1, Typed DEF Moves, OthersStay, GoingInv
  <2>2. CASE Restart
    BY <2>2, RestartFacts, Typed DEF SavePlaces
  <2>3. CASE UNCHANGED vars
    BY <2>3 DEF vars, GoingInv
  <2> QED
    BY <2>1, <2>2, <2>3, RunMoves, ClientMoves, Typed DEF Next, AllDone
<1>2. ASSUME NEW t \in Sessions, session'[t].status = "running"
      PROVE  session'[t].active # None
  <2>0. StepKinds /\ (session[t].status = "running" => session[t].active # None)
    BY StepCases DEF GoingInv
  <2>1. ASSUME NEW a \in Calls, Calm(a)
        PROVE  session'[t].active # None
    BY <1>2, <2>0, <2>1 DEF Calm
  <2>2. ASSUME NEW a \in Calls, NEW n \in Sessions, NEW place, Creates(a, n, place)
        PROVE  session'[t].active # None
    <3>1. session'[n].status = "idle" /\ OnlyChanges(n)
      BY <2>2, CreateFacts DEF Creates, Fresh, Idle, Absent
    <3> QED
      BY <1>2, <2>0, <3>1 DEF OnlyChanges
  <2>3. ASSUME NEW r \in Runs, target[r] \in Sessions, Start(r)
        PROVE  session'[t].active # None
    BY <1>2, <2>0, <2>3, StartFacts DEF OnlyChanges
  <2>4. ASSUME NEW r \in Runs, target[r] \in Sessions, EnsureSupervisor(r)
        PROVE  session'[t].active # None
    <3> DEFINE s == target[r]
               v == IF session[s].sup # None THEN session[s].sup ELSE r
    <3>1. session'[s] = [session[s] EXCEPT !.sup = v] /\ OnlyChanges(s)
      BY <2>4, EnsureFacts
    <3>2. session'[s].status = session[s].status /\ session'[s].active = session[s].active
      BY <2>4, <3>1, Typed DEF Objects
    <3> QED
      BY <1>2, <2>0, <3>1, <3>2 DEF OnlyChanges
  <2>5. ASSUME NEW r \in Runs, NEW outcome, target[r] \in Sessions, End(r, outcome)
        PROVE  session'[t].active # None
    BY <1>2, <2>0, <2>5, EndFacts DEF OnlyChanges, EndStatus
  <2>6. ASSUME NEW c \in Clients, NEW s \in Sessions, Cancels(c, s)
        PROVE  session'[t].active # None
    <3>1. session'[s].active = session[s].active /\ OnlyChanges(s)
      BY <2>6 DEF Cancels, CancelsRun
    <3>2. session'[s].status = "running" => session[s].status = "running"
      BY <2>6 DEF Cancels
    <3> QED
      BY <1>2, <2>0, <3>1, <3>2 DEF OnlyChanges
  <2>7. ASSUME NEW c \in Clients, NEW s \in Sessions, Records(c, s)
        PROVE  session'[t].active # None
    <3>1. PICK status \in DirectStatus : Record(c, s, status)
      BY <2>7 DEF Records
    <3>2. session'[s].status \in {"completed", "error"} /\ OnlyChanges(s)
      BY <3>1, RecordFacts
    <3> QED
      BY <1>2, <2>0, <3>2 DEF OnlyChanges
  <2>8. CASE Restart
    BY <1>2, <2>8, RestartFacts
  <2>9. CASE UNCHANGED vars
    BY <1>2, <2>0, <2>9 DEF vars
  <2> QED
    BY <2>0, <2>1, <2>2, <2>3, <2>4, <2>5, <2>6, <2>7, <2>8, <2>9 DEF StepKinds
<1> QED
  BY <1>1, <1>2 DEF GoingInv

\* Runs that have begun, and sessions shown as running: who waits for whom.
NobodyWaits ==
  /\ \A r \in Runs : pc[r] \notin {"idle", "done"} => RunCanGoOn(r)
  /\ \A s \in Sessions : session[s].status = "running" =>
       LET r == session[s].active IN
       /\ r \in Runs /\ target[r] = s /\ pc[r] \in InFlight /\ RunCanGoOn(r)

\* A run that was begun is never stuck, and a session is shown as running, also a
\* deleted one, only as long as its active run is on its way to End.
THEOREM RunsNeverStuck == Spec => []NobodyWaits
<1> DEFINE Inv == SessionsInv /\ GoingInv
<1>1. Init => GoingInv
  BY Typed DEF Init, GoingInv, SavePlaces, Fresh, Load, Idle, Absent, Calls
<1>2. SessionsInv /\ GoingInv /\ [Next]_vars => GoingInv'
  BY GoingStep DEF SessionsInv
<1>3. ASSUME SessionsInv, GoingInv
      PROVE  NobodyWaits
  <2>0. TypeOK /\ HeldInv
    BY <1>3 DEF SessionsInv
  <2>1. ASSUME NEW r \in Runs, pc[r] \notin {"idle", "done"}
        PROVE  RunCanGoOn(r)
    BY <1>3, <2>0, <2>1, Typed DEF GoingInv, SavePlaces, RunCanGoOn, Places
  <2>2. ASSUME NEW s \in Sessions, session[s].status = "running"
        PROVE  LET r == session[s].active IN
               /\ r \in Runs /\ target[r] = s /\ pc[r] \in InFlight /\ RunCanGoOn(r)
    <3>1. session[s].active \in Runs
      BY <1>3, <2>0, <2>2, Typed DEF Objects, GoingInv
    <3>2. target[session[s].active] = s /\ pc[session[s].active] \in InFlight
      BY <2>0, <3>1 DEF HeldInv
    <3> QED
      BY <2>1, <3>1, <3>2 DEF InFlight
  <2> QED
    BY <2>1, <2>2 DEF NobodyWaits
<1>4. Spec => []GoingInv
  BY <1>1, <1>2, SessionsSafe, PTL DEF Spec
<1> QED
  BY <1>3, <1>4, SessionsSafe, PTL

\* Whoever takes the step, a run stays where it is or goes forward.
OnlyForward ==
  \A r \in Runs :
    /\ Progress(r) <= Progress(r)' /\ Progress(r)' <= 16
    /\ RunStep(r) => Progress(r) < Progress(r)'

\* No step sets a run back, and each of its own leads on, to one of seventeen
\* places: a run has returned after finitely many steps, whatever is cancelled,
\* archived, deleted or recorded meanwhile.
THEOREM RunsLeadOn == Spec => [][OnlyForward]_vars
<1>1. ASSUME SessionsInv, SessionsInv', Next
      PROVE  OnlyForward
  <2>0. TypeOK /\ CallsInv /\ TypeOK' /\ CallsInv' /\ HeldInv /\ FilesInv
    BY <1>1 DEF SessionsInv
  <2>1. ASSUME NEW r \in Runs
        PROVE  /\ Progress(r) \in Nat /\ Progress(r) <= 16
               /\ Progress(r)' \in Nat /\ Progress(r)' <= 16
    <3>1. pc[r] \in Places /\ pc'[r] \in Places
      BY <2>0, Typed DEF TypeOK, Calls
    <3>2. \A p \in Places : Order[p] \in 0 .. 8 /\ (p \in SavePlaces => Order[p] < 8)
      BY DEF Order, SavePlaces
    <3>3. (UnderWay(r) => pc[r] \in SavePlaces) /\ (UnderWay(r)' => pc'[r] \in SavePlaces)
      BY <2>0 DEF UnderWay, CallsInv, Calls, SavePlaces
    <3>4. Order[pc[r]] \in 0 .. 8 /\ Order[pc'[r]] \in 0 .. 8
      BY <3>1, <3>2
    <3>5. (UnderWay(r) => Order[pc[r]] < 8) /\ (UnderWay(r)' => Order[pc'[r]] < 8)
      BY <3>1, <3>2, <3>3
    <3>6. Progress(r) \in Nat /\ Progress(r) <= 16
      BY <3>4, <3>5 DEF Progress
    <3>7. Progress(r)' \in Nat /\ Progress(r)' <= 16
      BY <3>4, <3>5 DEF Progress
    <3> QED
      BY <3>6, <3>7
  <2>2. ASSUME NEW r \in Runs, RunStep(r)
        PROVE  Progress(r) < Progress(r)'
    BY <2>0, <2>2, RunMoves
  <2>3. ASSUME NEW r \in Runs, NEW a \in Calls, a # r, Moves(a)
        PROVE  Progress(r) = Progress(r)'
    <3>1. pc'[r] = pc[r] /\ (UnderWay(r)' <=> UnderWay(r))
      BY <2>3 DEF Moves, OthersStay, UnderWay, Calls
    <3> QED
      BY <3>1 DEF Progress
  <2>4. ASSUME NEW r \in Runs
        PROVE  Progress(r) <= Progress(r)'
    <3>1. ASSUME NEW q \in Runs, RunArrives(q) \/ RunStep(q)
          PROVE  Progress(r) <= Progress(r)'
      <4>1. Moves(q) /\ Progress(q) < Progress(q)' /\ q \in Calls
        BY <2>0, <3>1, RunMoves DEF Calls
      <4> QED
        BY <2>1, <2>3, <4>1
    <3>2. ASSUME NEW c \in Clients, ClientArrives(c) \/ ClientStep(c)
          PROVE  Progress(r) <= Progress(r)'
      <4>1. Moves(c) /\ c \notin Runs /\ c \in Calls
        BY <2>0, <3>2, ClientMoves DEF Calls
      <4> QED
        BY <2>1, <2>3, <4>1
    <3>3. CASE Restart
      <4>1. pc'[r] = "done" /\ stage'[r] = "none"
        BY <2>0, <3>3, RestartFacts DEF Calls
      <4>2. Progress(r)' = 16
        BY <4>1, OrderIs DEF Progress, UnderWay
      <4> QED
        BY <2>1, <4>2
    <3>4. CASE UNCHANGED vars
      <4>1. Progress(r)' = Progress(r)
        BY <3>4 DEF vars, Progress, UnderWay
      <4> QED
        BY <2>1, <4>1
    <3> QED
      BY <1>1, <3>1, <3>2, <3>3, <3>4 DEF Next, AllDone
  <2> QED
    BY <2>1, <2>2, <2>4 DEF OnlyForward
<1> QED
  BY <1>1, SessionsSafe, PTL DEF Spec
=============================================================================
