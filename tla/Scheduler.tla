-------------------------------- MODULE Scheduler --------------------------------
(***************************************************************************)
(* The workflow scheduler (internal/scheduler/store.go and the commands of *)
(* cmd/smara/schedule.go).  The schedules are one JSON file, which every   *)
(* process reads and replaces as a whole, without a lock: the daemon and   *)
(* `run-due` run what is due and mark it, `add` and `remove` edit the      *)
(* list.  The file is replaced by a rename, so that it is never garbled.   *)
(*                                                                         *)
(* Time is kept by schedule: the n-th slot is the time NextRunAt names     *)
(* once the run of slot n-1, or its retry, has been marked.                *)
(***************************************************************************)
EXTENDS Naturals, Functions

CONSTANTS
  Jobs,
  Scheduled,   \* the jobs the file holds at first
  Parent,      \* DependsOn of every job
  MaxRetries,  \* --retries
  Passes,      \* the daemon and run-due: what calls runDueSchedules
  Daemons,     \* those of them that do so again and again
  Adders,      \* the processes of `add`, each with the job it adds
  Adds,
  Removers,    \* the processes of `remove`, each with the ID it is given
  Removes,
  None,
  Scenarios    \* bound: which processes are started, and how many kills, failed
               \* reads and failed writes there are then, and how often the jobs
               \* fall due altogether

Editors   == Adders \cup Removers
Processes == Passes \cup Editors

ASSUME SchedulerAssumption ==
  /\ Scheduled \subseteq Jobs /\ None \notin Jobs
  /\ Parent \in [Jobs -> Jobs \cup {None}]
  /\ MaxRetries \in [Jobs -> Nat]
  /\ Adds \in [Adders -> Jobs \ Scheduled] /\ Removes \in [Removers -> Jobs]
  /\ Daemons \subseteq Passes /\ Passes \cap Editors = {} /\ Adders \cap Removers = {}
  /\ \A a, b \in Adders : Adds[a] = Adds[b] => a = b
  /\ \A a \in Adders : MaxRetries[Adds[a]] > 0 \/ Parent[Adds[a]] # None
  /\ Scenarios \subseteq [started : SUBSET Processes, faults : Nat, due : Nat]
  /\ \A s \in Scenarios : Daemons \subseteq s.started

VARIABLES
  file,     \* workflows.json
  reached,  \* the last slot of each job whose time has come
  at,       \* where each process is
  copy,     \* the list each process holds in memory
  todo,     \* what is left of the due jobs of a pass, each with its DependsOn
  parents,  \* LastStatus of every job, as the pass has read it
  current,  \* the job a pass runs
  outcome,  \* what its workflow came to
  faults,   \* kills, failed reads and failed writes that are left
  \* what the properties are about
  stale,    \* processes that hold a list which has been replaced since, or none
  lost,     \* a process has replaced a list it had not read
  told      \* what has been reported, until an update is lost:
            \* moved, the jobs whose entry has changed since each pass began,
            \* blind, the passes that could not read the list a second time,
            \* removed, the jobs reported as removed, last, the last outcome
            \* marked of each job, and streak, its failures in a row

passVars == <<todo, parents, current, outcome>>
ghosts   == <<stale, lost, told>>
vars     == <<file, reached, at, copy, passVars, faults, ghosts>>

Missing == [next |-> 0, status |-> "missing", retries |-> 0, set |-> FALSE]

\* What Add makes, with no status yet; its retries and its parent come with a second
\* write.
New(slot) == [next |-> slot, status |-> "never", retries |-> 0, set |-> FALSE]

Retries(j, e)  == IF e.set THEN MaxRetries[j] ELSE 0
ParentOf(j, e) == IF e.set THEN Parent[j] ELSE None

Held(list) == {j \in Jobs : list[j] # Missing}

NoList   == [j \in Jobs |-> Missing]
NoStatus == [j \in Jobs |-> "missing"]

Untold ==
  [moved |-> [p \in Passes |-> {}], blind |-> {}, removed |-> {},
   last |-> [j \in Jobs |-> "none"], streak |-> [j \in Jobs |-> 0]]

Init ==
  /\ file = [j \in Jobs |-> IF j \in Scheduled THEN [New(1) EXCEPT !.set = TRUE] ELSE Missing]
  /\ reached = [j \in Jobs |-> 0]
  /\ \E s \in Scenarios :
       /\ at = [p \in Processes |-> IF p \in s.started THEN "idle" ELSE "absent"]
       /\ faults = s.faults
  /\ copy = [p \in Processes |-> NoList]
  /\ todo = [p \in Passes |-> {}]
  /\ parents = [p \in Passes |-> NoStatus]
  /\ current = [p \in Passes |-> None]
  /\ outcome = [p \in Passes |-> "none"]
  /\ stale = {} /\ lost = FALSE
  /\ told = Untold

Go(p, place) == at' = [at EXCEPT ![p] = place]
Fault == faults > 0 /\ faults' = faults - 1

\* The time of the next slot comes.
FallsDue(j) ==
  /\ \E s \in Scenarios :
       /\ s.started = {p \in Processes : at[p] # "absent"}
       /\ FoldFunction(LAMBDA m, n : m + n, 0, reached) < s.due
  /\ reached' = [reached EXCEPT ![j] = @ + 1]
  /\ UNCHANGED <<file, at, copy, passVars, faults, ghosts>>

(***************************************************************************)
(* List and SaveAll.                                                       *)
(***************************************************************************)
Writing(p) == at[p] \in {"adding", "configuring", "removing", "saving"}

\* The process has the list as it is, and will write it changed.
Take(p, list) ==
  /\ copy' = [copy EXCEPT ![p] = list]
  /\ stale' = stale \ {p}

SaveAll(p, reported) ==
  LET changed == {j \in Jobs : copy[p][j] # file[j]} IN
  /\ file' = copy[p]
  /\ lost' = (lost \/ p \in stale)
  /\ stale' = IF lost' THEN {} ELSE stale \cup {q \in Processes \ {p} : Writing(q)}
  /\ told' = IF lost' THEN Untold
             ELSE [reported EXCEPT !.moved = [q \in Passes |-> @[q] \cup changed]]

(***************************************************************************)
(* runDueSchedules.                                                        *)
(***************************************************************************)
Due(list) == {j \in Held(list) : list[j].next <= reached[j]}

BeginPass(p) ==
  /\ at[p] = "idle" /\ Due(file) # {}
  /\ todo' = [todo EXCEPT ![p] = {<<j, ParentOf(j, file[j])>> : j \in Due(file)}]
  /\ told' = IF lost THEN told ELSE [told EXCEPT !.moved[p] = {}, !.blind = @ \ {p}]
  /\ Go(p, "mapping")
  /\ UNCHANGED <<file, reached, copy, parents, current, outcome, faults, stale, lost>>

\* jobMap: the list is read a second time, and once for the whole pass.
MapJobs(p) ==
  /\ at[p] = "mapping"
  /\ parents' = [parents EXCEPT ![p] = [j \in Jobs |-> file[j].status]]
  /\ Go(p, "choosing")
  /\ UNCHANGED <<file, reached, copy, todo, current, outcome, faults, ghosts>>

\* The error of this read is dropped: the pass knows of no job.
MapNothing(p) ==
  /\ at[p] = "mapping" /\ Fault
  /\ parents' = [parents EXCEPT ![p] = NoStatus]
  /\ told' = IF lost THEN told ELSE [told EXCEPT !.blind = @ \cup {p}]
  /\ Go(p, "choosing")
  /\ UNCHANGED <<file, reached, copy, todo, current, outcome, stale, lost>>

\* A parent that is not in the list holds nothing up.
Waits(p, q) == q # None /\ parents[p][q] \notin {"missing", "success"}

Skip(p, j, q) ==
  /\ at[p] = "choosing" /\ <<j, q>> \in todo[p]
  /\ Waits(p, q)
  /\ todo' = [todo EXCEPT ![p] = @ \ {<<j, q>>}]
  /\ UNCHANGED <<file, reached, at, copy, parents, current, outcome, faults, ghosts>>

\* Mutant: the parent is not looked at.
RunAny(p, j, q) ==
  /\ at[p] = "choosing" /\ <<j, q>> \in todo[p]
  /\ todo' = [todo EXCEPT ![p] = @ \ {<<j, q>>}]
  /\ current' = [current EXCEPT ![p] = j]
  /\ Go(p, "running")
  /\ UNCHANGED <<file, reached, copy, parents, outcome, faults, ghosts>>

Run(p, j, q) ==
  /\ at[p] = "choosing" /\ <<j, q>> \in todo[p]
  /\ ~Waits(p, q)
  /\ todo' = [todo EXCEPT ![p] = @ \ {<<j, q>>}]
  /\ current' = [current EXCEPT ![p] = j]
  /\ Go(p, "running")
  /\ UNCHANGED <<file, reached, copy, parents, outcome, faults, ghosts>>

\* Where a process is after a pass: the daemon waits for its ticker.
After(p) == IF p \in Daemons THEN "idle" ELSE "done"

EndPass(p) ==
  /\ at[p] = "choosing" /\ todo[p] = {}
  /\ parents' = [parents EXCEPT ![p] = NoStatus]
  /\ Go(p, After(p))
  /\ UNCHANGED <<file, reached, copy, todo, current, outcome, faults, ghosts>>

\* runWorkflowCommand returns; a run whose log could not be started or finished
\* has failed, whatever its workflow did.
EndWorkflow(p, result) ==
  /\ at[p] = "running"
  /\ outcome' = [outcome EXCEPT ![p] = result]
  /\ Go(p, "marking")
  /\ UNCHANGED <<file, reached, copy, todo, parents, current, faults, ghosts>>

(***************************************************************************)
(* MarkRun.                                                                *)
(***************************************************************************)
\* Mutant: the retries are counted from the run after.
MarkedLate(j, e, result) ==
  IF result = "failed" /\ Retries(j, e) > 0 /\ e.retries <= Retries(j, e)
  THEN [e EXCEPT !.retries = @ + 1, !.status = "retrying", !.next = reached[j] + 1]
  ELSE [e EXCEPT !.retries = 0, !.status = result, !.next = reached[j] + 1]

\* Mutant: a run that has succeeded keeps its time.
MarkedInPlace(j, e, result) ==
  IF result = "failed" /\ Retries(j, e) > 0 /\ e.retries < Retries(j, e)
  THEN [e EXCEPT !.retries = @ + 1, !.status = "retrying", !.next = reached[j] + 1]
  ELSE [e EXCEPT !.retries = 0, !.status = result]

\* A failed run is tried again MaxRetries times before it counts as failed.
Marked(j, e, result) ==
  IF result = "failed" /\ Retries(j, e) > 0 /\ e.retries < Retries(j, e)
  THEN [e EXCEPT !.retries = @ + 1, !.status = "retrying", !.next = reached[j] + 1]
  ELSE [e EXCEPT !.retries = 0, !.status = result, !.next = reached[j] + 1]

Rest(p) ==
  /\ todo' = [todo EXCEPT ![p] = {}]
  /\ parents' = [parents EXCEPT ![p] = NoStatus]
  /\ current' = [current EXCEPT ![p] = None]
  /\ outcome' = [outcome EXCEPT ![p] = "none"]

\* A pass that cannot mark its run is given up, with what it has left.
GiveUp(p) == Rest(p) /\ copy' = [copy EXCEPT ![p] = NoList] /\ stale' = stale \ {p} /\ Go(p, After(p))

MarkUnknown(p) ==
  /\ at[p] = "marking" /\ file[current[p]] = Missing
  /\ GiveUp(p)
  /\ UNCHANGED <<file, reached, faults, lost, told>>

\* The pass goes on with the list it has begun with.
MarkRead(p) ==
  LET j == current[p] IN
  /\ at[p] = "marking" /\ file[j] # Missing
  /\ Take(p, [file EXCEPT ![j] = Marked(j, @, outcome[p])])
  /\ Go(p, "saving")
  /\ UNCHANGED <<file, reached, passVars, faults, lost, told>>

MarkWrite(p) ==
  LET j == current[p] IN
  /\ at[p] = "saving"
  /\ SaveAll(p, [told EXCEPT
       !.last[j] = outcome[p],
       !.streak[j] = IF outcome[p] = "failed" THEN @ + 1 ELSE 0])
  /\ current' = [current EXCEPT ![p] = None]
  /\ outcome' = [outcome EXCEPT ![p] = "none"]
  /\ copy' = [copy EXCEPT ![p] = NoList]
  /\ Go(p, "choosing")
  /\ UNCHANGED <<reached, todo, parents, faults>>

\* The file could not be read, or not be replaced.
FailMark(p) ==
  /\ at[p] \in {"marking", "saving"} /\ Fault
  /\ GiveUp(p)
  /\ UNCHANGED <<file, reached, lost, told>>

(***************************************************************************)
(* The commands `schedule add` and `schedule remove`.                      *)
(***************************************************************************)
AddRead(a) ==
  /\ at[a] = "idle"
  /\ Take(a, [file EXCEPT ![Adds[a]] = New(reached[Adds[a]] + 1)])
  /\ Go(a, "adding")
  /\ UNCHANGED <<file, reached, passVars, faults, lost, told>>

AddWrite(a) ==
  /\ at[a] = "adding"
  /\ SaveAll(a, told)
  /\ Go(a, "added")
  /\ UNCHANGED <<reached, copy, passVars, faults>>

\* The entry Add has returned takes the place of the one in the list; a job that
\* is gone stays gone.
ConfigureRead(a) ==
  LET j == Adds[a] own == copy[a][j] IN
  /\ at[a] = "added"
  /\ copy' = [copy EXCEPT ![a] =
       IF file[j] = Missing THEN file ELSE [file EXCEPT ![j] = [own EXCEPT !.set = TRUE]]]
  /\ stale' = IF lost \/ file[j] \in {own, Missing} THEN stale \ {a} ELSE stale \cup {a}
  /\ Go(a, "configuring")
  /\ UNCHANGED <<file, reached, passVars, faults, lost, told>>

\* The error of this read is dropped too: an empty list will be written.
ConfigureNothing(a) ==
  /\ at[a] = "added" /\ Fault
  /\ copy' = [copy EXCEPT ![a] = NoList]
  /\ stale' = IF lost THEN stale \ {a} ELSE stale \cup {a}
  /\ Go(a, "configuring")
  /\ UNCHANGED <<file, reached, passVars, lost, told>>

Finish(a, place) ==
  /\ copy' = [copy EXCEPT ![a] = NoList]
  /\ Go(a, place)

ConfigureWrite(a) ==
  /\ at[a] = "configuring"
  /\ SaveAll(a, told)
  /\ Finish(a, "done")
  /\ UNCHANGED <<reached, passVars, faults>>

RemoveRead(r) ==
  /\ at[r] = "idle" /\ file[Removes[r]] # Missing
  /\ Take(r, [file EXCEPT ![Removes[r]] = Missing])
  /\ Go(r, "removing")
  /\ UNCHANGED <<file, reached, passVars, faults, lost, told>>

RemoveWrite(r) ==
  /\ at[r] = "removing"
  /\ SaveAll(r, [told EXCEPT !.removed = @ \cup {Removes[r]}])
  /\ Finish(r, "done")
  /\ UNCHANGED <<reached, passVars, faults>>

(***************************************************************************)
(* Kills, and what else fails.                                             *)
(***************************************************************************)
\* An editor that could not write: `add` says nothing of its second write.
FailEdit(e) ==
  /\ Writing(e) /\ Fault
  /\ stale' = stale \ {e}
  /\ Finish(e, "failed")
  /\ UNCHANGED <<file, reached, passVars, lost, told>>

\* The daemon is started again by systemd.
Kill(p) ==
  /\ at[p] \notin {"idle", "done", "absent"} /\ Fault
  /\ GiveUp(p)
  /\ UNCHANGED <<file, reached, lost, told>>

-----------------------------------------------------------------------------
PassStep(p) ==
  \/ BeginPass(p) \/ MapJobs(p) \/ EndPass(p)
  \/ \E j \in Jobs : \E q \in Jobs \cup {None} : Skip(p, j, q) \/ Run(p, j, q)
  \/ \E result \in {"success", "failed"} : EndWorkflow(p, result)
  \/ MarkUnknown(p) \/ MarkRead(p) \/ MarkWrite(p)

AddStep(a)    == AddRead(a) \/ AddWrite(a) \/ ConfigureRead(a) \/ ConfigureWrite(a)
RemoveStep(r) == RemoveRead(r) \/ RemoveWrite(r)

FaultStep ==
  \/ \E p \in Passes : MapNothing(p) \/ FailMark(p) \/ Kill(p)
  \/ \E a \in Adders : ConfigureNothing(a)
  \/ \E e \in Editors : FailEdit(e)

Next ==
  \/ \E p \in Passes : PassStep(p)
  \/ \E a \in Adders : AddStep(a)
  \/ \E r \in Removers : RemoveStep(r)
  \/ \E j \in Jobs : FallsDue(j)
  \/ FaultStep

\* The daemon passes again and again, and a workflow that was started ends.
Fairness == \A p \in Passes : WF_vars(PassStep(p))

Spec == Init /\ [][Next]_vars /\ Fairness

-----------------------------------------------------------------------------
Places ==
  {"idle", "mapping", "choosing", "running", "marking", "saving",
   "adding", "added", "configuring", "removing", "done", "failed", "absent"}

Entry ==
  [next : Nat, status : {"missing", "never", "success", "failed", "retrying"},
   retries : Nat, set : BOOLEAN]

TypeOK ==
  /\ file \in [Jobs -> Entry]
  /\ reached \in [Jobs -> Nat]
  /\ at \in [Processes -> Places]
  /\ copy \in [Processes -> [Jobs -> Entry]]
  /\ todo \in [Passes -> SUBSET (Jobs \X (Jobs \cup {None}))]
  /\ parents \in [Passes -> [Jobs -> {"missing", "never", "success", "failed", "retrying"}]]
  /\ current \in [Passes -> Jobs \cup {None}]
  /\ outcome \in [Passes -> {"none", "success", "failed"}]
  /\ faults \in Nat
  /\ stale \subseteq Processes /\ lost \in BOOLEAN
  /\ told \in [moved : [Passes -> SUBSET Jobs], blind : SUBSET Passes, removed : SUBSET Jobs,
              last : [Jobs -> {"none", "success", "failed"}], streak : [Jobs -> Nat]]

\* A list that was saved or will be saved counts the retries of a job only while
\* it is retried, and never more than it has.
RetriesCounted ==
  \A list \in {file} \cup {copy[p] : p \in Processes} : \A j \in Jobs :
    /\ list[j].retries <= Retries(j, list[j])
    /\ list[j].retries > 0 <=> list[j].status = "retrying"

\* Unless a process has replaced a list that it had not read, a removed job stays
\* removed, and a job is in the list once it was added, with its retries and its
\* parent.
EditsHold ==
  ~lost =>
    /\ \A j \in told.removed : file[j] = Missing
    /\ \A a \in Adders : at[a] \in {"added", "done"} =>
         Adds[a] \in told.removed \/ (file[Adds[a]] # Missing /\ (at[a] = "done" => file[Adds[a]].set))

\* Unless an update was overwritten so, what the list says of a job is what its runs
\* came to: it failed for good only when all its retries have failed.
HistoryTold ==
  ~lost => \A j \in Held(file) :
    /\ told.last[j] = "none" <=> file[j].status = "never"
    /\ told.last[j] = "success" <=> file[j].status = "success"
    /\ told.last[j] = "failed" => file[j].retries = told.streak[j] % (Retries(j, file[j]) + 1)

SchedulerInv == TypeOK /\ RetriesCounted /\ EditsHold /\ HistoryTold

Starts(p, j) == at[p] = "choosing" /\ at'[p] = "running" /\ current'[p] = j

\* A job starts only when the last run of its parent has succeeded (the help of
\* --after), unless one of the two has changed since the pass began, the pass could
\* not read the list a second time, or an update was overwritten.
ParentSucceeded ==
  [][\A p \in Passes : \A j \in Held(file) :
       LET q == ParentOf(j, file[j]) IN
       Starts(p, j) /\ q \in Held(file) =>
         \/ told.last[q] = "success"
         \/ {j, q} \cap told.moved[p] # {} \/ p \in told.blind \/ lost]_vars

\* A job that is due is run and marked, or removed, or lost with the list, however
\* processes overwrite each other, unless its parent holds it up.
DueJobsRun ==
  \A j \in Jobs :
    j \in Due(file) ~>
      (j \notin Due(file)
       \/ \E q \in Held(file) : q = ParentOf(j, file[j]) /\ file[q].status # "success")
=============================================================================
