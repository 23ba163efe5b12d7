------------------------------ MODULE WebSessions ------------------------------
(***************************************************************************)
(* WebSessionManager (internal/web/multisession.go): agent sessions shared *)
(* by several browser tabs.  Every request runs on a goroutine of its own. *)
(* A run is one call of Run, which executes a prompt; a client is one call *)
(* of another method.  Both change a session under its mutex and save all  *)
(* sessions afterwards, outside it.                                        *)
(*                                                                         *)
(* A run is also the name of its runID (runSeq), of its cancel function,   *)
(* of the client's callback, and of the supervisor it creates.             *)
(***************************************************************************)
EXTENDS Naturals

CONSTANTS
  Sessions,    \* session IDs
  Preserved,   \* what sets of sessions the file may hold when the server starts
  Runs, Clients,
  None,        \* no run, supervisor or callback
  DirectStatus,\* bound: the statuses a direct result is recorded with
  Budgets      \* bound: how often each client calls, one call after the other, the
               \* server is killed, and a Save fails

ASSUME WebSessionsAssumption ==
  /\ Preserved \subseteq SUBSET Sessions
  /\ Runs \cap Clients = {} /\ None \notin Runs
  /\ DirectStatus \subseteq {"completed", "error"}
  /\ Budgets \subseteq [requests : Nat \ {0}, restarts : Nat, faults : Nat]

VARIABLES
  live,       \* the keys of the map sessions
  session,    \* the session objects, also those taken out of the map
  file,       \* web-sessions.json
  pc,         \* where each call is
  target,     \* the session each call has found or created
  supervisor, \* the supervisor each run uses
  cancelled,  \* the runs whose context was cancelled
  callback,   \* the run whose callback each supervisor holds
  stage,      \* how far each call's Save is
  copy,       \* the sessions each call's Save has copied
  overlapped, \* the last Save was begun while another one was under way
  failed,     \* the last Save to end had failed
  overtaken,  \* sessions with a run replaced before it had a supervisor
  requests, restarts, faults  \* what is left of the budget

bounds   == <<requests, restarts, faults>>

vars == <<live, session, file, pc, target, supervisor, cancelled, callback,
          stage, copy, overlapped, failed, overtaken, bounds>>

runVars  == <<supervisor, cancelled, callback, overtaken>>
saveVars == <<file, copy, overlapped, failed>>

Calls  == Runs \cup Clients
Status == {"idle", "running", "cancelled", "error", "completed", "archived"}

Messages == {"ask", "answer"} \X Calls

\* What the file says of a session, and of one it does not hold.
Entries == [status : Status \cup {"none"}, archived : BOOLEAN, history : SUBSET Messages]
Absent  == [status |-> "none", archived |-> FALSE, history |-> {}]

\* WebAgentSession as Load and Create make it.
Fresh(entry) ==
  [status |-> entry.status, archived |-> entry.archived, history |-> entry.history,
   sup |-> None, cancel |-> None, active |-> None]

Idle == [Absent EXCEPT !.status = "idle"]

Snapshot ==
  [s \in Sessions |->
     IF s \in live
     THEN [status |-> session[s].status, archived |-> session[s].archived,
           history |-> session[s].history]
     ELSE Absent]

\* Mutant: a session that was running still is.
LoadAsIs(f) == [s \in Sessions |-> IF f.is # "whole" THEN Absent ELSE f.holds[s]]

\* Load: an unreadable file is taken for an empty one, and a session that was
\* running is idle.
Load(f) ==
  [s \in Sessions |->
     IF f.is # "whole" THEN Absent
     ELSE [f.holds[s] EXCEPT !.status = IF @ = "running" THEN "idle" ELSE @]]

Nothing == [s \in Sessions |-> Absent]

Init ==
  /\ live \in Preserved
  /\ file = [is |-> "whole", holds |-> [s \in Sessions |-> IF s \in live THEN Idle ELSE Absent]]
  /\ session = [s \in Sessions |-> Fresh(Load(file)[s])]
  /\ pc = [a \in Calls |-> "idle"]
  /\ target = [a \in Calls |-> None]
  /\ supervisor = [r \in Runs |-> None]
  /\ cancelled = {}
  /\ callback = [r \in Runs |-> None]
  /\ stage = [a \in Calls |-> "none"]
  /\ copy = [a \in Calls |-> Nothing]
  /\ overlapped = FALSE /\ failed = FALSE
  /\ overtaken = {}
  /\ \E b \in Budgets :
       requests = [c \in Clients |-> b.requests - 1] /\ restarts = b.restarts /\ faults = b.faults

(***************************************************************************)
(* Save, at the end of every call that changed something.                  *)
(***************************************************************************)
\* The call goes on to save, and is then at the given place.
SaveAt(a, place) ==
  /\ stage' = [stage EXCEPT ![a] = "due"]
  /\ pc' = [pc EXCEPT ![a] = place]
  /\ UNCHANGED saveVars

UnderWay(a) == stage[a] \in {"copied", "raced"}

\* The sessions are copied under the manager's lock.
Copy(a) ==
  /\ stage[a] = "due"
  /\ stage' = [stage EXCEPT ![a] = "copied"]
  /\ copy' = [copy EXCEPT ![a] = Snapshot]
  /\ overlapped' = \E b \in Calls \ {a} : UnderWay(b)
  /\ UNCHANGED <<live, session, file, failed, pc, target, bounds, runVars>>

Garbled == [is |-> "garbled", holds |-> Nothing]

\* Where a call goes on when it has saved.
Resumes(place) ==
  CASE place = "creating" -> "found"
    [] place = "storing"  -> "recording"
    [] place = "started"  -> "ensuring"
    [] OTHER -> "done"

\* The Save is over.  The call goes on the same way when it failed: it drops the
\* error, or returns it with the sessions changed.
SaveEnds(a) ==
  /\ UnderWay(a)
  /\ pc' = [pc EXCEPT ![a] = Resumes(pc[a])]
  /\ copy' = [copy EXCEPT ![a] = Nothing]
  /\ UNCHANGED <<live, session, target, overlapped, runVars>>

\* The file was truncated and written to, also under other calls' hands.
Touched(a) ==
  stage' = [b \in Calls |-> IF b = a THEN "none" ELSE IF UnderWay(b) THEN "raced" ELSE stage[b]]

\* os.WriteFile truncates the file and writes it from its start: when another
\* call has written in between, the end of a longer text remains.
Write(a) ==
  /\ SaveEnds(a)
  /\ \/ file' = [is |-> "whole", holds |-> copy[a]]
     \/ stage[a] = "raced" /\ file' = Garbled
  /\ Touched(a)
  /\ failed' = FALSE
  /\ UNCHANGED bounds

\* MkdirAll, or the opening of the file, fails and nothing is written, or only a
\* part of the text is.
FailWrite(a) ==
  /\ faults > 0 /\ faults' = faults - 1
  /\ SaveEnds(a)
  /\ \/ file' = file /\ stage' = [stage EXCEPT ![a] = "none"]
     \/ file' = Garbled /\ Touched(a)
  /\ failed' = TRUE
  /\ UNCHANGED <<requests, restarts>>

SaveStep(a) == Copy(a) \/ Write(a) \/ FailWrite(a)

(***************************************************************************)
(* Create, also on behalf of a call whose session does not exist.          *)
(***************************************************************************)
CreateFor(a, n, place) ==
  /\ n \notin live /\ session[n].status = "none"
  /\ live' = live \cup {n}
  /\ session' = [session EXCEPT ![n] = Fresh(Idle)]
  /\ target' = [target EXCEPT ![a] = n]
  /\ SaveAt(a, place)
  /\ UNCHANGED <<bounds, runVars>>

Create(c, n) == pc[c] = "idle" /\ CreateFor(c, n, "saving")

(***************************************************************************)
(* Run.                                                                    *)
(***************************************************************************)
Get(r, s) ==
  /\ pc[r] = "idle"
  /\ s \in live
  /\ target' = [target EXCEPT ![r] = s]
  /\ pc' = [pc EXCEPT ![r] = IF session[s].archived THEN "done" ELSE "checked"]
  /\ UNCHANGED <<live, session, stage, bounds, saveVars, runVars>>

GetMissing(r, s, n) ==
  /\ pc[r] = "idle"
  /\ s \notin live
  /\ CreateFor(r, n, "creating")

CheckArchived(r) ==
  /\ pc[r] = "found"
  /\ pc' = [pc EXCEPT ![r] = IF session[target[r]].archived THEN "done" ELSE "checked"]
  /\ UNCHANGED <<live, session, target, stage, bounds, saveVars, runVars>>

\* The run returns, and its local variables are gone.
Forget(r) ==
  /\ target' = [target EXCEPT ![r] = None]
  /\ supervisor' = [supervisor EXCEPT ![r] = None]
  /\ cancelled' = cancelled \ {r}

Leave(r) == pc' = [pc EXCEPT ![r] = "done"] /\ Forget(r)

Refuse(r) ==
  /\ pc[r] = "checked"
  /\ session[target[r]].status = "running"
  /\ Leave(r)
  /\ UNCHANGED <<live, session, stage, bounds, saveVars, callback, overtaken>>

\* Mutant: the supervisor is kept.
StartSharing(r) ==
  LET s == target[r] IN
  /\ pc[r] = "checked"
  /\ session[s].status # "running"
  /\ session' = [session EXCEPT
       ![s].status = "running",
       ![s].active = r,
       ![s].cancel = r,
       ![s].history = @ \cup {<<"ask", r>>}]
  /\ SaveAt(r, "started")
  /\ UNCHANGED <<live, target, bounds, supervisor, cancelled, callback, overtaken>>

\* A run that is still unwinding keeps its supervisor to itself.
Start(r) ==
  LET s == target[r] old == session[s].active IN
  /\ pc[r] = "checked"
  /\ session[s].status # "running"
  /\ session' = [session EXCEPT
       ![s].status = "running",
       ![s].active = r,
       ![s].cancel = r,
       ![s].sup = IF old # None THEN None ELSE @,
       ![s].history = @ \cup {<<"ask", r>>}]
  /\ overtaken' = IF old # None /\ pc[old] \in {"started", "ensuring"}
                  THEN overtaken \cup {s} ELSE overtaken
  /\ SaveAt(r, "started")
  /\ UNCHANGED <<live, target, bounds, supervisor, cancelled, callback>>

\* ensureSupervisor gives the session's supervisor, or makes one, which then
\* gets the callback of this run's client.
EnsureSupervisor(r) ==
  LET s == target[r] IN
  /\ pc[r] = "ensuring"
  /\ supervisor' = [supervisor EXCEPT ![r] = IF session[s].sup # None THEN session[s].sup ELSE r]
  /\ session' = [session EXCEPT ![s].sup = supervisor'[r]]
  /\ callback' = [callback EXCEPT ![supervisor'[r]] = r]
  /\ pc' = [pc EXCEPT ![r] = "prompting"]
  /\ UNCHANGED <<live, target, stage, bounds, saveVars, cancelled, overtaken>>

\* ProcessPrompt returns after the session got another run: nothing is changed.
EndReplaced(r) ==
  /\ pc[r] = "prompting"
  /\ session[target[r]].active # r
  /\ Leave(r)
  /\ UNCHANGED <<live, session, stage, bounds, saveVars, callback, overtaken>>

\* The status a run leaves: an answer counts also after a cancellation, and a
\* timeout of the request is recorded as a cancellation.
EndStatus(r, outcome) ==
  CASE outcome = "answer" -> "completed"
    [] outcome = "failure" /\ r \notin cancelled -> "error"
    [] OTHER -> "cancelled"

End(r, outcome) ==
  LET s == target[r] IN
  /\ pc[r] = "prompting"
  /\ session[s].active = r
  /\ callback' = [callback EXCEPT ![supervisor[r]] = None]
  /\ session' = [session EXCEPT
       ![s].cancel = None,
       ![s].active = None,
       ![s].status = EndStatus(r, outcome),
       ![s].history = IF outcome = "answer" THEN @ \cup {<<"answer", r>>} ELSE @]
  /\ SaveAt(r, "saving")
  /\ Forget(r)
  /\ UNCHANGED <<live, bounds, overtaken>>

(***************************************************************************)
(* The other methods.                                                      *)
(***************************************************************************)
\* s.cancel(), if there is one, and s.cancel = nil.
CancelledBy(s) == IF session[s].cancel = None THEN cancelled ELSE cancelled \cup {session[s].cancel}

\* Mutant: a session is archived, or taken back, with its run going on.
ArchiveRunning(c, s, archived) ==
  /\ pc[c] = "idle" /\ s \in live
  /\ session' = [session EXCEPT
       ![s].archived = archived,
       ![s].status = IF archived THEN "archived" ELSE "idle"]
  /\ SaveAt(c, "saving")
  /\ UNCHANGED <<live, target, bounds, runVars>>

Archive(c, s, archived) ==
  /\ pc[c] = "idle" /\ s \in live
  /\ cancelled' = CancelledBy(s)
  /\ session' = [session EXCEPT
       ![s].cancel = None,
       ![s].archived = archived,
       ![s].status = IF archived THEN "archived" ELSE "idle"]
  /\ SaveAt(c, "saving")
  /\ UNCHANGED <<live, target, bounds, supervisor, callback, overtaken>>

Cancel(c, s) ==
  /\ pc[c] = "idle" /\ s \in live
  /\ cancelled' = CancelledBy(s)
  /\ session' = [session EXCEPT
       ![s].cancel = None,
       ![s].status = IF session[s].cancel # None THEN "cancelled" ELSE @]
  /\ SaveAt(c, "saving")
  /\ UNCHANGED <<live, target, bounds, supervisor, callback, overtaken>>

\* Mutant: the file is left as it is.
DeleteUnsaved(c, s) ==
  /\ pc[c] = "idle" /\ s \in live
  /\ cancelled' = CancelledBy(s)
  /\ session' = [session EXCEPT ![s].cancel = None]
  /\ live' = live \ {s}
  /\ pc' = [pc EXCEPT ![c] = "done"]
  /\ UNCHANGED <<target, stage, bounds, saveVars, supervisor, callback, overtaken>>

\* The run keeps the object of a deleted session.
Delete(c, s) ==
  /\ pc[c] = "idle" /\ s \in live
  /\ cancelled' = CancelledBy(s)
  /\ session' = [session EXCEPT ![s].cancel = None]
  /\ live' = live \ {s}
  /\ SaveAt(c, "saving")
  /\ UNCHANGED <<target, bounds, supervisor, callback, overtaken>>

\* The name is left out: what remains of Rename is its Save.
Rename(c, s) ==
  /\ pc[c] = "idle" /\ s \in live
  /\ SaveAt(c, "saving")
  /\ UNCHANGED <<live, session, target, bounds, runVars>>

\* RecordDirectResult: a workflow, browser test or orchestration ended, which
\* did not go through Run; whatever the session does is overwritten.
Record(c, s, status) ==
  /\ target' = [target EXCEPT ![c] = None]
  /\ session' = [session EXCEPT
       ![s].status = status,
       ![s].history = @ \cup {<<"ask", c>>} \cup (IF status = "completed" THEN {<<"answer", c>>} ELSE {})]
  /\ SaveAt(c, "saving")
  /\ UNCHANGED <<live, bounds, runVars>>

RecordDirectResult(c, s, status) == pc[c] = "idle" /\ s \in live /\ Record(c, s, status)

RecordMissing(c, s, n) == pc[c] = "idle" /\ s \notin live /\ CreateFor(c, n, "storing")

RecordCreated(c, status) == pc[c] = "recording" /\ Record(c, target[c], status)

\* A client calls again when it has its answer.
NextRequest(c) ==
  /\ pc[c] = "done" /\ requests[c] > 0
  /\ pc' = [pc EXCEPT ![c] = "idle"]
  /\ requests' = [requests EXCEPT ![c] = @ - 1]
  /\ UNCHANGED <<live, session, target, stage, restarts, faults, saveVars, runVars>>

(***************************************************************************)
(* The server is killed, and NewWebSessionManager loads the file.          *)
(***************************************************************************)
Restart ==
  /\ restarts > 0 /\ restarts' = restarts - 1
  /\ \/ file' = file
     \/ (\E a \in Calls : UnderWay(a)) /\ file' = Garbled
  /\ live' = {s \in Sessions : Load(file')[s] # Absent}
  /\ session' = [s \in Sessions |-> Fresh(Load(file')[s])]
  /\ pc' = [a \in Calls |-> "done"]
  /\ stage' = [a \in Calls |-> "none"]
  /\ copy' = [a \in Calls |-> Nothing]
  /\ overlapped' = FALSE /\ failed' = FALSE
  /\ target' = [a \in Calls |-> None]
  /\ supervisor' = [r \in Runs |-> None]
  /\ callback' = [r \in Runs |-> None]
  /\ cancelled' = {}
  /\ overtaken' = {}
  /\ requests' = [c \in Clients |-> 0]
  /\ UNCHANGED faults

-----------------------------------------------------------------------------
RunStep(r) ==
  \/ SaveStep(r)
  \/ CheckArchived(r) \/ Refuse(r) \/ Start(r)
  \/ EnsureSupervisor(r)
  \/ EndReplaced(r)
  \/ \E outcome \in {"answer", "failure", "timeout"} : End(r, outcome)

RunArrives(r) == \E s \in Sessions : Get(r, s) \/ \E n \in Sessions : GetMissing(r, s, n)

ClientStep(c) ==
  \/ SaveStep(c)
  \/ \E status \in DirectStatus : RecordCreated(c, status)

ClientArrives(c) ==
  \/ NextRequest(c)
  \/ \E n \in Sessions : Create(c, n)
  \/ \E s \in Sessions :
       \/ \E archived \in BOOLEAN : Archive(c, s, archived)
       \/ Cancel(c, s) \/ Delete(c, s) \/ Rename(c, s)
       \/ \E status \in DirectStatus : RecordDirectResult(c, s, status)
       \/ \E n \in Sessions : RecordMissing(c, s, n)

AllDone == (\A a \in Calls : pc[a] \in {"idle", "done"}) /\ UNCHANGED vars

Next ==
  \/ \E r \in Runs : RunArrives(r) \/ RunStep(r)
  \/ \E c \in Clients : ClientArrives(c) \/ ClientStep(c)
  \/ Restart
  \/ AllDone

\* A run that was begun goes on: its locks are held for a moment only, and the
\* request's context ends a prompt in the end.  Nobody has to call anything.
Fairness == \A r \in Runs : WF_vars(RunStep(r))

Spec == Init /\ [][Next]_vars /\ Fairness

-----------------------------------------------------------------------------
Places == {"idle", "found", "checked", "creating", "storing", "recording", "started",
           "ensuring", "prompting", "saving", "done"}

TypeOK ==
  /\ live \in SUBSET Sessions
  /\ session \in [Sessions -> [status : Status \cup {"none"}, archived : BOOLEAN,
                               history : SUBSET Messages, sup : Runs \cup {None},
                               cancel : Runs \cup {None}, active : Runs \cup {None}]]
  /\ file \in [is : {"whole", "garbled"}, holds : [Sessions -> Entries]]
  /\ pc \in [Calls -> Places]
  /\ target \in [Calls -> Sessions \cup {None}]
  /\ supervisor \in [Runs -> Runs \cup {None}]
  /\ cancelled \in SUBSET Runs
  /\ callback \in [Runs -> Runs \cup {None}]
  /\ stage \in [Calls -> {"none", "due", "copied", "raced"}]
  /\ copy \in [Calls -> [Sessions -> Entries]]
  /\ overlapped \in BOOLEAN /\ failed \in BOOLEAN
  /\ overtaken \in SUBSET Sessions
  /\ requests \in [Clients -> Nat] /\ restarts \in Nat /\ faults \in Nat

\* The places of a run that holds a session.
InFlight == {"started", "ensuring", "prompting"}

\* A session shown as running has a run that will end it: in flight, not
\* cancelled, and the one that the cancel button reaches.  So no late ending,
\* cancellation, deletion or restart leaves a session that runs for ever.
RunningIsLive ==
  \A s \in Sessions : session[s].status = "running" /\ s \in live =>
    LET r == session[s].active IN
    /\ r # None /\ session[s].cancel = r /\ r \notin cancelled
    /\ target[r] = s /\ pc[r] \in InFlight

\* A direct result was recorded in the session.
Direct(s) == \E c \in Clients : <<"ask", c>> \in session[s].history

\* Two prompts work on one session at a time only if a result that did not go
\* through Run was recorded in it: a run that is still there was cancelled
\* before another one was let in.
OneRunAtATime ==
  \A q, r \in Runs :
    q # r /\ {pc[q], pc[r]} \subseteq InFlight /\ target[q] = target[r]
      => \/ q \in cancelled \/ r \in cancelled
         \/ Direct(target[r])

\* The runs a session knows of are in flight on it, and a run that was cancelled
\* is no longer known to its session as one to cancel.
HeldInv ==
  /\ \A s \in Sessions :
       /\ session[s].active # None =>
            LET r == session[s].active IN target[r] = s /\ pc[r] \in InFlight
       /\ session[s].cancel # None =>
            session[s].cancel = session[s].active /\ session[s].cancel \notin cancelled
       /\ s \in live => session[s].status # "none"
       /\ s \in live /\ session[s].status = "running" => session[s].cancel # None
  /\ \A r \in cancelled : pc[r] \in InFlight

\* What a call knows of its session, and when it saves.
CallsInv ==
  \A a \in Calls :
    /\ pc[a] \in InFlight \cup {"creating", "found", "checked", "storing", "recording"} =>
         target[a] \in Sessions /\ session[target[a]].status # "none"
    /\ stage[a] # "none" => pc[a] \in {"creating", "storing", "started", "saving"}

\* A run in flight is the one its session knows, unless it was cancelled or a
\* direct result was recorded.
FlightInv ==
  \A r \in Runs : pc[r] \in InFlight =>
    LET s == target[r] IN
    r \in cancelled \/ Direct(s) \/ (session[s].status = "running" /\ session[s].active = r)

\* A session is in a file, or in a copy of the sessions, as a whole or not at all.
Proper(holds) == \A s \in Sessions : holds[s].status = "none" => holds[s] = Absent

FilesInv == Proper(file.holds) /\ \A a \in Calls : Proper(copy[a])

\* When nobody has something left to save, and the last Save did not fail or
\* overlap another one, a restart would bring back what is in memory: every change
\* is followed by a Save that sees it, no call changes a session afterwards, and
\* what a Save failed to write, or wrote in part, the next one makes good.
FileIsCurrent ==
  (\A a \in Calls : stage[a] = "none") /\ ~overlapped /\ ~failed
    => Load(file) = Load([is |-> "whole", holds |-> Snapshot])

\* What a prompt reports goes to its own client: the replacement of a cancelled
\* run has a supervisor of its own (the comment in Run), unless a run of the
\* session was replaced before it had got its supervisor.
CallbacksKeptApart ==
  \A r \in Runs :
    pc[r] = "prompting" /\ callback[supervisor[r]] # r => target[r] \in overtaken

\* What a Save that did not overlap another one will write is what is in memory,
\* unless a call has still to save.
CopiesInv ==
  ~overlapped =>
    /\ \A a, b \in Calls : UnderWay(a) /\ UnderWay(b) => a = b /\ stage[a] = "copied"
    /\ (\A a \in Calls : stage[a] # "due") => \A a \in Calls : UnderWay(a) => copy[a] = Snapshot

\* Who has a supervisor: sessions do not share any, and neither do the runs of a
\* session, unless it is overtaken.
SupervisorsInv ==
  /\ \A s \in Sessions : session[s].sup # None =>
       /\ pc[session[s].sup] \in {"prompting", "saving", "done"}
       /\ \A t \in Sessions : session[t].sup = session[s].sup => t = s
       /\ \A r \in Runs : pc[r] = "prompting" /\ supervisor[r] = session[s].sup => target[r] = s
  /\ \A r \in Runs : pc[r] = "prompting" =>
       /\ supervisor[r] # None /\ pc[supervisor[r]] \in {"prompting", "saving", "done"}
       /\ \A q \in Runs : pc[q] = "prompting" /\ supervisor[q] = supervisor[r] =>
            target[q] = target[r] /\ (q = r \/ target[r] \in overtaken)
  /\ \A r \in Runs : pc[r] \in InFlight /\ target[r] \notin overtaken =>
       LET s == target[r] IN
       /\ pc[r] \in {"started", "ensuring"} => session[s].active = r
       /\ pc[r] = "prompting" => (session[s].active = r <=> supervisor[r] = session[s].sup)

\* The inductive invariant of the sessions.
SessionsInv ==
  /\ TypeOK /\ RunningIsLive /\ OneRunAtATime
  /\ HeldInv /\ CallsInv /\ FlightInv /\ FilesInv /\ CopiesInv /\ SupervisorsInv

\* Every session that runs comes to an end.
RunsEnd == \A s \in Sessions : session[s].status = "running" ~> session[s].status # "running"
=============================================================================
