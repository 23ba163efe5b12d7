---------------------------- MODULE SchedulerProofs ----------------------------
(***************************************************************************)
(* Theorems about Scheduler for every set of schedules, every number of    *)
(* daemons, editors and retries, and any number of faults.                 *)
(***************************************************************************)
EXTENDS Scheduler, Integers, TLAPS

-----------------------------------------------------------------------------
(***************************************************************************)
(* Types.                                                                  *)
(***************************************************************************)
Status == {"missing", "never", "success", "failed", "retrying"}

List == [Jobs -> Entry]

Told ==
  [moved : [Passes -> SUBSET Jobs], blind : SUBSET Passes, removed : SUBSET Jobs,
   last : [Jobs -> {"none", "success", "failed"}], streak : [Jobs -> Nat]]

\* Each process is where its command can be.
PassAt   == {"idle", "mapping", "choosing", "running", "marking", "saving", "done", "absent"}
AdderAt  == {"idle", "adding", "added", "configuring", "done", "failed", "absent"}
RemoverAt == {"idle", "removing", "done", "failed", "absent"}

PlacesInv ==
  /\ \A p \in Passes : /\ at[p] \in PassAt
                       /\ at[p] \in {"running", "marking", "saving"} => current[p] \in Jobs
                       /\ at[p] \in {"marking", "saving"} => outcome[p] \in {"success", "failed"}
  /\ \A a \in Adders : at[a] \in AdderAt
  /\ \A r \in Removers : at[r] \in RemoverAt

TypeInv == TypeOK /\ PlacesInv

LEMMA Entries ==
  /\ Missing \in Entry
  /\ \A n \in Nat : New(n) \in Entry /\ [New(n) EXCEPT !.set = TRUE] \in Entry
  /\ \A e \in Entry : [e EXCEPT !.set = TRUE] \in Entry
  /\ NoList \in List
  /\ NoStatus \in [Jobs -> Status]
  /\ Untold \in Told
<1>1. /\ Missing \in Entry
      /\ \A n \in Nat : New(n) \in Entry /\ [New(n) EXCEPT !.set = TRUE] \in Entry
      /\ \A e \in Entry : [e EXCEPT !.set = TRUE] \in Entry
  BY DEF Missing, New, Entry
<1>2. Untold \in Told
  BY DEF Untold, Told
<1>3. QED
  BY <1>1, <1>2 DEF NoList, NoStatus, List, Status

\* Whether a failed run is one to be tried again.
Again(j, e, result) ==
  result = "failed" /\ Retries(j, e) > 0 /\ e.retries < Retries(j, e)

LEMMA RetriesType ==
  ASSUME NEW j \in Jobs, NEW e
  PROVE  Retries(j, e) \in Nat
BY SchedulerAssumption DEF Retries

LEMMA MarkedIs ==
  ASSUME NEW j \in Jobs, NEW e \in Entry, NEW result \in {"success", "failed"},
         reached[j] \in Nat
  PROVE  /\ Marked(j, e, result) \in Entry
         /\ Marked(j, e, result).status  = IF Again(j, e, result) THEN "retrying" ELSE result
         /\ Marked(j, e, result).retries = IF Again(j, e, result) THEN e.retries + 1 ELSE 0
         /\ Marked(j, e, result).set = e.set
<1> DEFINE n == reached[j] + 1
           k == e.retries + 1
           f(s, i) == [e EXCEPT !.retries = i, !.status = s, !.next = n]
<1>1. n \in Nat /\ k \in Nat
  BY DEF Entry
<1>2. Marked(j, e, result) =
        IF Again(j, e, result) THEN f("retrying", k) ELSE f(result, 0)
  BY DEF Marked, Again
<1>3. ASSUME NEW s \in Status, NEW i \in Nat
      PROVE  f(s, i) \in Entry /\ f(s, i).status = s /\ f(s, i).retries = i /\ f(s, i).set = e.set
  BY <1>1 DEF Entry, Status
<1>4. "retrying" \in Status /\ result \in Status
  BY DEF Status
<1> HIDE DEF f
<1>5. CASE Again(j, e, result)
  BY <1>1, <1>2, <1>3, <1>4, <1>5
<1>6. CASE ~Again(j, e, result)
  BY <1>2, <1>3, <1>4, <1>6
<1>7. QED
  BY <1>5, <1>6

LEMMA InitType == Init => TypeInv
<1> SUFFICES ASSUME Init PROVE TypeInv
  OBVIOUS
<1>1. file \in List
  BY Entries DEF Init, List
<1>2. PICK s \in Scenarios :
        /\ at = [p \in Processes |-> IF p \in s.started THEN "idle" ELSE "absent"]
        /\ faults = s.faults
  BY DEF Init
<1>3. faults \in Nat
  BY <1>2, SchedulerAssumption
<1>4. /\ at \in [Processes -> Places]
      /\ \A p \in Processes : at[p] \in {"idle", "absent"}
  BY <1>2 DEF Places
<1>5. PlacesInv
  BY <1>4 DEF PlacesInv, PassAt, AdderAt, RemoverAt, Processes, Editors
<1>6. QED
  BY <1>1, <1>3, <1>4, <1>5, Entries DEF Init, TypeInv, TypeOK, List, Status, Told

\* What a process can do when it saves keeps the types.
LEMMA SaveType ==
  ASSUME TypeOK, NEW p \in Processes, NEW reported \in Told, SaveAll(p, reported)
  PROVE  file' \in List /\ lost' \in BOOLEAN /\ stale' \subseteq Processes /\ told' \in Told
<1>1. file' \in List /\ lost' \in BOOLEAN /\ stale' \subseteq Processes
  BY DEF SaveAll, TypeOK, List
<1> DEFINE changed == {j \in Jobs : copy[p][j] # file[j]}
           m == [q \in Passes |-> reported.moved[q] \cup changed]
<1>2. m \in [Passes -> SUBSET Jobs]
  BY DEF Told
<1>3. told' \in {Untold, [reported EXCEPT !.moved = m]}
  BY DEF SaveAll
<1> HIDE DEF m
<1>4. [reported EXCEPT !.moved = m] \in Told
  BY <1>2 DEF Told
<1>5. QED
  BY <1>1, <1>3, <1>4, Entries

\* And so does what it does when it reads.
LEMMA ReadType ==
  ASSUME TypeOK, NEW p \in Processes, NEW l \in List, NEW place \in Places,
         copy' = [copy EXCEPT ![p] = l], Go(p, place), stale' \subseteq Processes,
         UNCHANGED <<file, reached, passVars, faults, lost, told>>
  PROVE  TypeOK'
<1>1. copy' \in [Processes -> List]
  BY DEF TypeOK, List
<1>2. at' \in [Processes -> Places]
  BY DEF TypeOK, Go
<1>3. QED
  BY <1>1, <1>2 DEF TypeOK, List, passVars

LEMMA PassStepType ==
  ASSUME TypeInv, NEW p \in Passes, PassStep(p) \/ MapNothing(p) \/ FailMark(p) \/ Kill(p)
  PROVE  TypeInv'
<1> USE DEF TypeInv, passVars, ghosts
<1>0. p \in Processes /\ p \notin Adders /\ p \notin Removers /\ None \notin Jobs
  BY SchedulerAssumption DEF Processes, Editors
<1>1. CASE BeginPass(p)
  <2> DEFINE t == {<<j, ParentOf(j, file[j])>> : j \in Due(file)}
  <2>1. t \in SUBSET (Jobs \X (Jobs \cup {None}))
    BY SchedulerAssumption DEF Due, Held, ParentOf
  <2>2. todo' = [todo EXCEPT ![p] = t]
    BY <1>1 DEF BeginPass
  <2> HIDE DEF t
  <2>3. todo' \in [Passes -> SUBSET (Jobs \X (Jobs \cup {None}))]
    BY <2>1, <2>2 DEF TypeOK
  <2>4. told' \in Told
    BY <1>1 DEF BeginPass, TypeOK, Told
  <2>5. TypeOK'
    BY <1>0, <1>1, <2>3, <2>4 DEF BeginPass, Go, TypeOK, Places, Told
  <2>6. PlacesInv'
    BY <1>0, <1>1 DEF BeginPass, Go, TypeOK, PlacesInv, PassAt, Processes, Editors
  <2>7. QED
    BY <2>5, <2>6
<1>2. CASE MapJobs(p)
  <2>1. [j \in Jobs |-> file[j].status] \in [Jobs -> Status]
    BY DEF TypeOK, Entry, Status
  <2>2. TypeOK'
    BY <1>0, <1>2, <2>1 DEF MapJobs, Go, TypeOK, Places, Status
  <2>3. PlacesInv'
    BY <1>0, <1>2 DEF MapJobs, Go, TypeOK, PlacesInv, PassAt, Processes, Editors
  <2>4. QED
    BY <2>2, <2>3
<1>3. ASSUME NEW j \in Jobs, NEW q \in Jobs \cup {None}, Skip(p, j, q) PROVE TypeInv'
  <2>1. TypeOK'
    BY <1>3 DEF Skip, TypeOK
  <2>2. PlacesInv'
    BY <1>3 DEF Skip, PlacesInv
  <2>3. QED
    BY <2>1, <2>2
<1>4. ASSUME NEW j \in Jobs, NEW q \in Jobs \cup {None}, Run(p, j, q) PROVE TypeInv'
  <2>1. TypeOK'
    BY <1>0, <1>4 DEF Run, Go, TypeOK, Places
  <2>2. PlacesInv'
    BY <1>0, <1>4 DEF Run, Go, TypeOK, PlacesInv, PassAt, Processes, Editors
  <2>3. QED
    BY <2>1, <2>2
<1>5. CASE EndPass(p)
  <2>1. TypeOK'
    BY <1>0, <1>5, Entries DEF EndPass, Go, After, TypeOK, Places, Status
  <2>2. PlacesInv'
    BY <1>0, <1>5 DEF EndPass, Go, After, TypeOK, PlacesInv, PassAt, Processes, Editors
  <2>3. QED
    BY <2>1, <2>2
<1>6. ASSUME NEW result \in {"success", "failed"}, EndWorkflow(p, result) PROVE TypeInv'
  <2>1. TypeOK'
    BY <1>0, <1>6 DEF EndWorkflow, Go, TypeOK, Places
  <2>2. PlacesInv'
    BY <1>0, <1>6 DEF EndWorkflow, Go, TypeOK, PlacesInv, PassAt, Processes, Editors
  <2>3. QED
    BY <2>1, <2>2
<1>7. CASE MarkRead(p)
  <2> DEFINE j == current[p]
             m == Marked(j, file[j], outcome[p])
  <2>1. j \in Jobs /\ outcome[p] \in {"success", "failed"}
    BY <1>7 DEF MarkRead, PlacesInv
  <2>2. m \in Entry
    BY <2>1, MarkedIs DEF TypeOK
  <2> HIDE DEF m
  <2>3. [file EXCEPT ![j] = m] \in List
    BY <2>1, <2>2 DEF TypeOK, List
  <2>4. copy' = [copy EXCEPT ![p] = [file EXCEPT ![j] = m]]
    BY <1>7 DEF MarkRead, Take, m
  <2>5. TypeOK'
    BY <1>0, <1>7, <2>3, <2>4, ReadType DEF MarkRead, Take, TypeOK, Places
  <2>6. PlacesInv'
    BY <1>0, <1>7 DEF MarkRead, Go, TypeOK, PlacesInv, PassAt, Processes, Editors
  <2>7. QED
    BY <2>5, <2>6
<1>8. CASE MarkWrite(p)
  <2> DEFINE j == current[p]
             n == IF outcome[p] = "failed" THEN told.streak[j] + 1 ELSE 0
             r == [told EXCEPT !.last[j] = outcome[p], !.streak[j] = n]
  <2>1. j \in Jobs /\ outcome[p] \in {"success", "failed"}
    BY <1>8 DEF MarkWrite, PlacesInv
  <2>2. n \in Nat
    <3>1. told.streak[j] \in Nat
      BY <2>1 DEF TypeOK
    <3>2. QED
      BY <3>1
  <2> HIDE DEF n
  <2>3. r \in Told
    BY <2>1, <2>2 DEF TypeOK, Told
  <2>4. SaveAll(p, r)
    BY <1>8 DEF MarkWrite, n
  <2> HIDE DEF r
  <2>5. file' \in List /\ lost' \in BOOLEAN /\ stale' \subseteq Processes /\ told' \in Told
    BY <1>0, <2>3, <2>4, SaveType
  <2>6. TypeOK'
    BY <1>0, <1>8, <2>5, Entries DEF MarkWrite, Go, TypeOK, Places, List, Told
  <2>7. PlacesInv'
    BY <1>0, <1>8 DEF MarkWrite, Go, TypeOK, PlacesInv, PassAt, Processes, Editors
  <2>8. QED
    BY <2>6, <2>7
<1>9. CASE MarkUnknown(p) \/ FailMark(p) \/ Kill(p)
  <2>0. faults' = faults \/ (faults > 0 /\ faults' = faults - 1)
    BY <1>9, Zenon DEF MarkUnknown, FailMark, Kill, Fault
  <2>1. faults' \in Nat
    BY <2>0 DEF TypeOK
  <2>2. GiveUp(p) /\ UNCHANGED <<file, reached, lost, told>>
    BY <1>9, Zenon DEF MarkUnknown, FailMark, Kill
  <2>3. TypeOK'
    BY <1>0, <2>1, <2>2, Entries DEF GiveUp, Rest, Go, After, TypeOK, Places, List, Status
  <2>4. PlacesInv'
    BY <1>0, <2>2 DEF GiveUp, Rest, Go, After, TypeOK, PlacesInv, PassAt, Processes, Editors
  <2>5. QED
    BY <2>3, <2>4
<1>10. CASE MapNothing(p)
  <2>0. faults > 0 /\ faults' = faults - 1
    BY <1>10, Zenon DEF MapNothing, Fault
  <2>1. told' \in Told
    BY <1>10 DEF MapNothing, TypeOK, Told
  <2>2. parents' \in [Passes -> [Jobs -> Status]]
    <3>1. parents' = [parents EXCEPT ![p] = NoStatus]
      BY <1>10 DEF MapNothing
    <3>2. parents \in [Passes -> [Jobs -> Status]] /\ NoStatus \in [Jobs -> Status]
      BY Entries DEF TypeOK, Status
    <3>3. QED
      BY <3>1, <3>2
  <2>3. faults' \in Nat /\ at' \in [Processes -> Places]
    <3>1. faults' \in Nat
      BY <2>0 DEF TypeOK
    <3>2. at' = [at EXCEPT ![p] = "choosing"]
      BY <1>10, Zenon DEF MapNothing, Go
    <3>3. at' \in [Processes -> Places]
      BY <3>2 DEF TypeOK, Places
    <3>4. QED
      BY <3>1, <3>3
  <2>4. TypeOK'
    BY <1>10, <2>1, <2>2, <2>3 DEF MapNothing, TypeOK, Told, Status
  <2>5. PlacesInv'
    BY <1>0, <1>10 DEF MapNothing, Go, TypeOK, PlacesInv, PassAt, Processes, Editors
  <2>6. QED
    BY <2>4, <2>5
<1>11. QED
  BY <1>1, <1>2, <1>3, <1>4, <1>5, <1>6, <1>7, <1>8, <1>9, <1>10 DEF PassStep

LEMMA EditStepType ==
  ASSUME TypeInv, NEW e \in Editors,
         \/ e \in Adders /\ AddStep(e)
         \/ e \in Removers /\ RemoveStep(e)
         \/ e \in Adders /\ ConfigureNothing(e)
         \/ FailEdit(e)
  PROVE  TypeInv'
<1> USE DEF TypeInv, passVars, ghosts
<1>0. e \in Processes /\ e \notin Passes /\ ~(e \in Adders /\ e \in Removers)
  BY SchedulerAssumption DEF Processes, Editors
<1>1. ASSUME at' = [at EXCEPT ![e] = "adding"] \/ at' = [at EXCEPT ![e] = "added"]
               \/ at' = [at EXCEPT ![e] = "configuring"] \/ at' = [at EXCEPT ![e] = "done"],
             e \in Adders, UNCHANGED <<current, outcome>>
      PROVE  PlacesInv'
  BY <1>0, <1>1 DEF TypeOK, PlacesInv, AdderAt, Processes, Editors
<1>2. ASSUME at' = [at EXCEPT ![e] = "removing"] \/ at' = [at EXCEPT ![e] = "done"],
             e \in Removers, UNCHANGED <<current, outcome>>
      PROVE  PlacesInv'
  BY <1>0, <1>2 DEF TypeOK, PlacesInv, RemoverAt, Processes, Editors
<1>3. ASSUME e \in Adders, AddRead(e) PROVE TypeInv'
  <2> DEFINE l == [file EXCEPT ![Adds[e]] = New(reached[Adds[e]] + 1)]
  <2>1. l \in List
    <3>1. reached[Adds[e]] \in Nat
      BY <1>3, SchedulerAssumption DEF TypeOK
    <3> DEFINE n == reached[Adds[e]] + 1
    <3>2. n \in Nat
      BY <3>1
    <3> HIDE DEF n
    <3>3. New(n) \in Entry
      BY <3>2, Entries
    <3>4. QED
      BY <3>3 DEF List, TypeOK, n
  <2>2. copy' = [copy EXCEPT ![e] = l]
    BY <1>3 DEF AddRead, Take
  <2> HIDE DEF l
  <2>3. TypeOK'
    BY <1>0, <1>3, <2>1, <2>2, ReadType DEF AddRead, Take, TypeOK, Places
  <2>4. QED
    BY <1>1, <1>3, <2>3 DEF AddRead, Go
<1>4. ASSUME e \in Adders, AddWrite(e) PROVE TypeInv'
  <2>1. file' \in List /\ lost' \in BOOLEAN /\ stale' \subseteq Processes /\ told' \in Told
    BY <1>0, <1>4, SaveType DEF AddWrite, TypeOK, Told
  <2>2. TypeOK'
    BY <1>0, <1>4, <2>1 DEF AddWrite, Go, TypeOK, Places, List, Told
  <2>3. QED
    BY <1>1, <1>4, <2>2 DEF AddWrite, Go
<1>5. ASSUME e \in Adders, ConfigureRead(e) PROVE TypeInv'
  <2> DEFINE own == [copy[e][Adds[e]] EXCEPT !.set = TRUE]
             l == IF file[Adds[e]] = Missing THEN file ELSE [file EXCEPT ![Adds[e]] = own]
  <2>1. own \in Entry
    BY <1>0, <1>5, SchedulerAssumption, Entries DEF TypeOK
  <2>2. copy' = [copy EXCEPT ![e] = l]
    BY <1>5 DEF ConfigureRead
  <2> HIDE DEF own
  <2>3. l \in List
    BY <2>1 DEF List, TypeOK
  <2> HIDE DEF l
  <2>4. stale' \subseteq Processes
    BY <1>0, <1>5 DEF ConfigureRead, TypeOK
  <2>5. TypeOK'
    BY <1>0, <1>5, <2>2, <2>3, <2>4, ReadType DEF ConfigureRead, Places
  <2>6. QED
    BY <1>1, <1>5, <2>5 DEF ConfigureRead, Go
<1>6. ASSUME e \in Adders, ConfigureWrite(e) PROVE TypeInv'
  <2>1. file' \in List /\ lost' \in BOOLEAN /\ stale' \subseteq Processes /\ told' \in Told
    BY <1>0, <1>6, SaveType DEF ConfigureWrite, TypeOK, Told
  <2>2. TypeOK'
    BY <1>0, <1>6, <2>1, Entries DEF ConfigureWrite, Finish, Go, TypeOK, Places, List, Told
  <2>3. QED
    BY <1>1, <1>6, <2>2 DEF ConfigureWrite, Finish, Go
<1>7. ASSUME e \in Removers, RemoveRead(e) PROVE TypeInv'
  <2> DEFINE l == [file EXCEPT ![Removes[e]] = Missing]
  <2>1. l \in List
    BY Entries DEF List, TypeOK
  <2>2. copy' = [copy EXCEPT ![e] = l]
    BY <1>7 DEF RemoveRead, Take
  <2> HIDE DEF l
  <2>3. TypeOK'
    BY <1>0, <1>7, <2>1, <2>2, ReadType DEF RemoveRead, Take, TypeOK, Places
  <2>4. QED
    BY <1>2, <1>7, <2>3 DEF RemoveRead, Go
<1>8. ASSUME e \in Removers, RemoveWrite(e) PROVE TypeInv'
  <2> DEFINE r == [told EXCEPT !.removed = told.removed \cup {Removes[e]}]
  <2>1. r \in Told
    BY <1>8, SchedulerAssumption DEF TypeOK, Told
  <2>2. SaveAll(e, r)
    BY <1>8 DEF RemoveWrite
  <2> HIDE DEF r
  <2>3. file' \in List /\ lost' \in BOOLEAN /\ stale' \subseteq Processes /\ told' \in Told
    BY <1>0, <2>1, <2>2, SaveType
  <2>4. TypeOK'
    BY <1>0, <1>8, <2>3, Entries DEF RemoveWrite, Finish, Go, TypeOK, Places, List, Told
  <2>5. QED
    BY <1>2, <1>8, <2>4 DEF RemoveWrite, Finish, Go
<1>9. CASE FailEdit(e)
  <2>1. faults > 0 /\ faults' = faults - 1
    BY <1>9, Zenon DEF FailEdit, Fault
  <2>2. faults' \in Nat
    BY <2>1 DEF TypeOK
  <2>3. TypeOK'
    BY <1>0, <1>9, <2>2, Entries DEF FailEdit, Finish, Go, TypeOK, Places, List
  <2>4. PlacesInv'
    BY <1>0, <1>9
       DEF FailEdit, Finish, Go, TypeOK, PlacesInv, AdderAt, RemoverAt, Processes, Editors
  <2>5. QED
    BY <2>3, <2>4
<1>10. ASSUME e \in Adders, ConfigureNothing(e) PROVE TypeInv'
  <2>1. faults > 0 /\ faults' = faults - 1
    BY <1>10, Zenon DEF ConfigureNothing, Fault
  <2>2. faults' \in Nat /\ stale' \subseteq Processes
    BY <1>0, <1>10, <2>1 DEF ConfigureNothing, TypeOK
  <2>3. TypeOK'
    BY <1>0, <1>10, <2>2, Entries DEF ConfigureNothing, Go, TypeOK, Places, List
  <2>4. QED
    BY <1>1, <1>10, <2>3 DEF ConfigureNothing, Go
<1>11. QED
  BY <1>3, <1>4, <1>5, <1>6, <1>7, <1>8, <1>9, <1>10 DEF AddStep, RemoveStep

LEMMA FallsDueType ==
  ASSUME TypeInv, NEW j \in Jobs, FallsDue(j)
  PROVE  TypeInv'
<1>1. reached' = [reached EXCEPT ![j] = reached[j] + 1]
      /\ UNCHANGED <<file, at, copy, passVars, faults, ghosts>>
  BY DEF FallsDue
<1>2. reached' \in [Jobs -> Nat]
  BY <1>1 DEF TypeInv, TypeOK
<1>3. QED
  BY <1>1, <1>2 DEF TypeInv, TypeOK, PlacesInv, passVars, ghosts

LEMMA NextType == TypeInv /\ [Next]_vars => TypeInv'
<1> SUFFICES ASSUME TypeInv, [Next]_vars PROVE TypeInv'
  OBVIOUS
<1>1. ASSUME NEW p \in Passes, PassStep(p) \/ MapNothing(p) \/ FailMark(p) \/ Kill(p) PROVE TypeInv'
  BY <1>1, PassStepType
<1>2. ASSUME NEW a \in Adders, AddStep(a) PROVE TypeInv'
  BY <1>2, EditStepType DEF Editors
<1>3. ASSUME NEW r \in Removers, RemoveStep(r) PROVE TypeInv'
  BY <1>3, EditStepType DEF Editors
<1>4. ASSUME NEW e \in Editors, FailEdit(e) PROVE TypeInv'
  BY <1>4, EditStepType
<1>5. ASSUME NEW j \in Jobs, FallsDue(j) PROVE TypeInv'
  BY <1>5, FallsDueType
<1>6. CASE UNCHANGED vars
  BY <1>6 DEF vars, passVars, ghosts, TypeInv, TypeOK, PlacesInv
<1>7. ASSUME NEW a \in Adders, ConfigureNothing(a) PROVE TypeInv'
  BY <1>7, EditStepType DEF Editors
<1>8. QED
  BY <1>1, <1>2, <1>3, <1>4, <1>5, <1>6, <1>7 DEF Next, FaultStep

\* TypeOK is an invariant.
THEOREM TypeCorrect == Spec => []TypeOK
<1>1. TypeInv => TypeOK
  BY DEF TypeInv
<1>2. QED
  BY <1>1, InitType, NextType, PTL DEF Spec
-----------------------------------------------------------------------------
(***************************************************************************)
(* The inductive invariant.                                                *)
(***************************************************************************)
\* An entry counts its retries while it is retried, and is not half missing.
GoodEntry(j, e) ==
  /\ e.retries <= Retries(j, e)
  /\ e.retries > 0 <=> e.status = "retrying"
  /\ e.status = "missing" <=> e = Missing

GoodList(list) == \A j \in Jobs : GoodEntry(j, list[j])

ListsInv == GoodList(file) /\ \A p \in Processes : GoodList(copy[p])

\* The job of `add` has no status until it is in the list.
OwnInv ==
  \A a \in Adders :
    at[a] \in {"adding", "added"} =>
      copy[a][Adds[a]].status = "never" /\ ~copy[a][Adds[a]].set

\* Nobody knows of a job before it is added.
Unborn(a) == at[a] \in {"idle", "adding", "absent"}

UnbornInv ==
  \A a \in Adders : Unborn(a) =>
    /\ file[Adds[a]] = Missing
    /\ \A p \in Processes \ {a} : copy[p][Adds[a]] = Missing
    /\ Adds[a] \notin told.removed
    /\ told.last[Adds[a]] = "none" /\ told.streak[Adds[a]] = 0
    /\ \A p \in Passes : at[p] = "saving" => current[p] # Adds[a]
    /\ \A r \in Removers : at[r] = "removing" => Removes[r] # Adds[a]

\* The job a process edits, and that it edits no other.
Target(p) ==
  IF p \in Passes THEN current[p] ELSE IF p \in Adders THEN Adds[p] ELSE Removes[p]

OthersSame(p) == \A k \in Jobs \ {Target(p)} : copy[p][k] = file[k]

\* The entry f is e marked with a result, but for its time.
IsMarked(j, e, f, result) ==
  /\ f.status  = IF Again(j, e, result) THEN "retrying" ELSE result
  /\ f.retries = IF Again(j, e, result) THEN e.retries + 1 ELSE 0
  /\ f.set = e.set

\* The list a process is about to write is the file with its edit.
Edits(p) ==
  LET j == Target(p) e == file[j] f == copy[p][j] IN
  /\ at[p] = "saving" => e # Missing /\ IsMarked(j, e, f, outcome[p])
  /\ at[p] = "configuring" =>
       IF e = Missing THEN f = Missing ELSE e.status = "never" /\ f = [e EXCEPT !.set = TRUE]
  /\ at[p] = "removing" => f = Missing

Fresh(p) == Writing(p) /\ p \notin stale

CopyInv == ~lost => \A p \in Processes : Fresh(p) => OthersSame(p) /\ Edits(p)

\* As EditsHold, from the moment the job was added.
EditsInv ==
  ~lost =>
    /\ \A j \in told.removed : file[j] = Missing
    /\ \A a \in Adders : at[a] \in {"added", "configuring", "done"} =>
         \/ Adds[a] \in told.removed
         \/ file[Adds[a]] # Missing /\ (at[a] = "done" => file[Adds[a]].set)

\* What has been told of a job agrees with its entry.
Agrees(j, e) ==
  /\ told.last[j] = "none" <=> e.status = "never"
  /\ told.last[j] = "success" <=> e.status = "success"
  /\ told.last[j] # "failed" => told.streak[j] = 0
  /\ e.retries = told.streak[j] % (Retries(j, e) + 1)

HistoryInv == ~lost => \A j \in Held(file) : Agrees(j, file[j])

\* What a pass holds of a job is so unless the job has changed since.
Mapped(p) == at[p] \in {"choosing", "running", "marking", "saving"}

PassInv ==
  ~lost => \A p \in Passes :
    /\ \A t \in todo[p] :
         t[1] \in told.moved[p] \/ (t[1] \in Held(file) /\ t[2] = ParentOf(t[1], file[t[1]]))
    /\ Mapped(p) /\ p \notin told.blind =>
         \A q \in Jobs : q \in told.moved[p] \/ parents[p][q] = file[q].status

ScheduleInv ==
  /\ TypeInv
  /\ ListsInv
  /\ OwnInv
  /\ UnbornInv
  /\ CopyInv
  /\ EditsInv
  /\ HistoryInv
  /\ PassInv
LEMMA GoodLists ==
  /\ GoodList(NoList)
  /\ \A j \in Jobs : GoodEntry(j, Missing)
  /\ \A j \in Jobs, n \in Nat : GoodEntry(j, New(n)) /\ New(n) # Missing
                                /\ GoodEntry(j, [New(n) EXCEPT !.set = TRUE])
                                /\ [New(n) EXCEPT !.set = TRUE] # Missing
<1>1. \A j \in Jobs : \A e : Retries(j, e) \in Nat
  BY RetriesType
<1>2. \A j \in Jobs : GoodEntry(j, Missing)
  BY <1>1 DEF GoodEntry, Missing
<1>3. ASSUME NEW j \in Jobs, NEW n \in Nat
      PROVE  /\ GoodEntry(j, New(n)) /\ New(n) # Missing
             /\ GoodEntry(j, [New(n) EXCEPT !.set = TRUE])
             /\ [New(n) EXCEPT !.set = TRUE] # Missing
  <2>1. New(n).status = "never" /\ New(n).retries = 0
        /\ [New(n) EXCEPT !.set = TRUE].status = "never"
        /\ [New(n) EXCEPT !.set = TRUE].retries = 0
        /\ Missing.status = "missing"
    BY DEF New, Missing
  <2>2. New(n) # Missing /\ [New(n) EXCEPT !.set = TRUE] # Missing
    BY <2>1
  <2>3. \A e : e.status = "never" /\ e.retries = 0 /\ e # Missing => GoodEntry(j, e)
    BY <1>1 DEF GoodEntry
  <2>4. QED
    BY <2>1, <2>2, <2>3
<1>4. QED
  BY <1>2, <1>3 DEF GoodList, NoList

LEMMA InitInv == Init => ScheduleInv
<1> SUFFICES ASSUME Init PROVE ScheduleInv
  OBVIOUS
<1>1. TypeInv
  BY InitType
<1>2. /\ lost = FALSE /\ told = Untold
      /\ \A p \in Processes : at[p] \in {"idle", "absent"} /\ copy[p] = NoList
      /\ \A p \in Passes : todo[p] = {}
      /\ \A j \in Jobs : file[j] = IF j \in Scheduled THEN [New(1) EXCEPT !.set = TRUE] ELSE Missing
  BY DEF Init
<1>3. Passes \subseteq Processes /\ Adders \subseteq Processes /\ Removers \subseteq Processes
  BY DEF Processes, Editors
<1>4. ListsInv
  BY <1>2, GoodLists DEF ListsInv, GoodList
<1>5. OwnInv
  BY <1>2, <1>3 DEF OwnInv
<1>6. UnbornInv
  BY <1>2, <1>3, SchedulerAssumption DEF UnbornInv, NoList, Untold
<1>7. CopyInv
  BY <1>2 DEF CopyInv, Fresh, Writing
<1>8. EditsInv
  BY <1>2, <1>3 DEF EditsInv, Untold
<1>9. HistoryInv
  <2>1. ASSUME NEW j \in Held(file) PROVE Agrees(j, file[j])
    <3>1. j \in Jobs /\ file[j] = [New(1) EXCEPT !.set = TRUE]
      BY <1>2 DEF Held
    <3>2. file[j].status = "never" /\ file[j].retries = 0
      BY <3>1 DEF New
    <3>3. told.last[j] = "none" /\ told.streak[j] = 0
      BY <1>2, <3>1 DEF Untold
    <3>4. Retries(j, file[j]) \in Nat
      BY <3>1, RetriesType
    <3>5. 0 % (Retries(j, file[j]) + 1) = 0
      BY <3>4
    <3>6. QED
      BY <3>2, <3>3, <3>5 DEF Agrees
  <2>2. QED
    BY <2>1 DEF HistoryInv
<1>10. PassInv
  BY <1>2, <1>3 DEF PassInv, Mapped
<1>11. QED
  BY <1>1, <1>4, <1>5, <1>6, <1>7, <1>8, <1>9, <1>10 DEF ScheduleInv

-----------------------------------------------------------------------------
(***************************************************************************)
(* Steps that read no list to write it and write none.                     *)
(***************************************************************************)
ListInvs == ListsInv /\ OwnInv /\ UnbornInv /\ CopyInv /\ EditsInv /\ HistoryInv

LEMMA Kinds ==
  /\ Processes = Passes \cup Adders \cup Removers
  /\ \A p \in Passes : p \notin Adders /\ p \notin Removers
  /\ \A a \in Adders : a \notin Removers
BY SchedulerAssumption DEF Processes, Editors

\* Whether a process that goes on unchanged still edits the list as it did.
LEMMA EditsKept ==
  ASSUME TypeInv, NEW q \in Processes, UNCHANGED file,
         at'[q] = at[q], copy'[q] = copy[q],
         q \in Passes => current'[q] = current[q] /\ outcome'[q] = outcome[q],
         Fresh(q) => OthersSame(q) /\ Edits(q),
         Fresh(q)' => Fresh(q)
  PROVE  Fresh(q)' => OthersSame(q)' /\ Edits(q)'
<1> SUFFICES ASSUME Fresh(q)' PROVE OthersSame(q)' /\ Edits(q)'
  OBVIOUS
<1>1. Target(q)' = Target(q)
  BY DEF Target
<1>2. OthersSame(q) /\ Edits(q)
  OBVIOUS
<1>3. OthersSame(q)'
  BY <1>1, <1>2 DEF OthersSame
<1>4. at[q] = "saving" => outcome'[q] = outcome[q]
  BY Kinds DEF TypeInv, PlacesInv, AdderAt, RemoverAt
<1>5. Edits(q)'
  BY <1>1, <1>2, <1>4 DEF Edits, IsMarked, Again, Retries
<1>6. QED
  BY <1>3, <1>5

LEMMA QuietInv ==
  ASSUME ScheduleInv, NEW p \in Passes, NEW place \in PassAt \ {"saving"},
         at[p] # "saving", Go(p, place),
         \A q \in Passes \ {p} : current'[q] = current[q] /\ outcome'[q] = outcome[q],
         UNCHANGED <<file, copy, stale, lost>>,
         told'.removed = told.removed, told'.last = told.last, told'.streak = told.streak
  PROVE  ListInvs'
<1>1. p \in Processes /\ at \in [Processes -> Places]
  BY Kinds DEF ScheduleInv, TypeInv, TypeOK
<1>2. /\ at'[p] = place /\ \A q \in Processes \ {p} : at'[q] = at[q]
      /\ ~Writing(p) /\ ~Writing(p)'
  BY <1>1, Kinds DEF Go, Writing, PassAt, ScheduleInv, TypeInv, PlacesInv
<1>3. \A a \in Adders : a # p /\ a \in Processes /\ at'[a] = at[a]
  BY <1>2, Kinds
<1>4. \A r \in Removers : r # p /\ r \in Processes /\ at'[r] = at[r]
  BY <1>2, Kinds
<1>5. ListsInv'
  BY DEF ScheduleInv, ListsInv, GoodList, GoodEntry, Retries
<1>6. OwnInv'
  BY <1>3 DEF ScheduleInv, OwnInv
<1>7. UnbornInv'
  <2>1. ASSUME NEW q \in Passes, at'[q] = "saving" PROVE at[q] = "saving" /\ current'[q] = current[q]
    BY <1>2, <2>1, Kinds
  <2>2. QED
    BY <1>3, <1>4, <2>1 DEF ScheduleInv, UnbornInv, Unborn
<1>8. CopyInv'
  <2>1. ASSUME ~lost, NEW q \in Processes, Fresh(q)' PROVE OthersSame(q)' /\ Edits(q)'
    <3>1. q # p
      BY <1>2, <2>1 DEF Fresh
    <3>2. at'[q] = at[q] /\ Fresh(q)
      BY <1>2, <2>1, <3>1 DEF Fresh, Writing
    <3>3. Fresh(q) => OthersSame(q) /\ Edits(q)
      BY <2>1 DEF ScheduleInv, CopyInv
    <3>4. QED
      BY <2>1, <3>1, <3>2, <3>3, EditsKept DEF ScheduleInv
  <2>2. QED
    BY <2>1 DEF CopyInv
<1>9. EditsInv'
  BY <1>3 DEF ScheduleInv, EditsInv
<1>10. HistoryInv'
  BY DEF ScheduleInv, HistoryInv, Agrees, Held, Retries
<1>11. QED
  BY <1>5, <1>6, <1>7, <1>8, <1>9, <1>10 DEF ListInvs

\* A process that gives up leaves the file, and its list, behind.
LEMMA LeaveInv ==
  ASSUME ScheduleInv, NEW p \in Processes, NEW place \in {"idle", "done", "failed"},
         place = "idle" => p \in Passes,
         place = "done" => p \in Passes,
         Go(p, place), copy' = [copy EXCEPT ![p] = NoList], stale' = stale \ {p},
         \A q \in Passes \ {p} : current'[q] = current[q] /\ outcome'[q] = outcome[q],
         UNCHANGED <<file, lost, told>>
  PROVE  ListInvs'
<1>1. at \in [Processes -> Places] /\ copy \in [Processes -> List]
  BY DEF ScheduleInv, TypeInv, TypeOK, List
<1>2. /\ at'[p] = place /\ \A q \in Processes \ {p} : at'[q] = at[q]
      /\ copy'[p] = NoList /\ \A q \in Processes \ {p} : copy'[q] = copy[q]
      /\ ~Writing(p)'
  BY <1>1 DEF Go, Writing
<1>3. ListsInv'
  BY <1>2, GoodLists DEF ScheduleInv, ListsInv, GoodList, GoodEntry, Retries
<1>4. \A a \in Adders : a \in Processes /\ (a = p => place = "failed" /\ at'[a] = "failed")
  BY <1>2, Kinds
<1>5. OwnInv'
  BY <1>2, <1>4 DEF ScheduleInv, OwnInv
<1>6. UnbornInv'
  <2>1. ASSUME NEW a \in Adders, Unborn(a)' PROVE a # p /\ Unborn(a)
    BY <1>2, <1>4, <2>1 DEF Unborn
  <2>2. ASSUME NEW q \in Passes, at'[q] = "saving" PROVE at[q] = "saving" /\ current'[q] = current[q]
    BY <1>2, <2>2, Kinds
  <2>3. ASSUME NEW r \in Removers, at'[r] = "removing" PROVE at[r] = "removing"
    BY <1>2, <2>3, Kinds
  <2>4. ASSUME NEW a \in Adders, Unborn(a)', NEW q \in Processes \ {a}
        PROVE  copy'[q][Adds[a]] = Missing
    <3>1. Adds[a] \in Jobs
      BY SchedulerAssumption
    <3>2. QED
      BY <1>2, <2>1, <2>4, <3>1 DEF NoList, ScheduleInv, UnbornInv
  <2>5. QED
    BY <2>1, <2>2, <2>3, <2>4 DEF ScheduleInv, UnbornInv
<1>7. CopyInv'
  <2>1. ASSUME ~lost, NEW q \in Processes, Fresh(q)' PROVE OthersSame(q)' /\ Edits(q)'
    <3>1. q # p
      BY <1>2, <2>1 DEF Fresh
    <3>2. at'[q] = at[q] /\ copy'[q] = copy[q] /\ Fresh(q)
      BY <1>2, <2>1, <3>1 DEF Fresh, Writing
    <3>3. Fresh(q) => OthersSame(q) /\ Edits(q)
      BY <2>1 DEF ScheduleInv, CopyInv
    <3>4. QED
      BY <2>1, <3>1, <3>2, <3>3, EditsKept DEF ScheduleInv
  <2>2. QED
    BY <2>1 DEF CopyInv
<1>8. EditsInv'
  BY <1>2, <1>4 DEF ScheduleInv, EditsInv
<1>9. HistoryInv'
  BY DEF ScheduleInv, HistoryInv, Agrees, Held, Retries
<1>10. QED
  BY <1>3, <1>5, <1>6, <1>7, <1>8, <1>9 DEF ListInvs
-----------------------------------------------------------------------------
(***************************************************************************)
(* Reading the list.                                                       *)
(***************************************************************************)
LEMMA ReadInv ==
  ASSUME ScheduleInv, NEW p \in Processes, NEW l \in List, GoodList(l), NEW place,
         \/ p \in Passes /\ place = "saving"
         \/ p \in Adders /\ at[p] = "idle" /\ place = "adding"
         \/ p \in Adders /\ at[p] = "added" /\ place = "configuring"
         \/ p \in Removers /\ place = "removing",
         Go(p, place), copy' = [copy EXCEPT ![p] = l],
         stale' \in {stale \ {p}, stale \cup {p}},
         UNCHANGED <<file, passVars, lost, told>>,
         \A a \in Adders \ {p} : Unborn(a) => l[Adds[a]] = Missing /\ Target(p) # Adds[a],
         place = "adding" => l[Adds[p]].status = "never" /\ ~l[Adds[p]].set,
         ~lost /\ p \notin stale' => OthersSame(p)' /\ Edits(p)'
  PROVE  ListInvs'
<1> USE DEF passVars
<1>1. at \in [Processes -> Places] /\ copy \in [Processes -> List]
  BY DEF ScheduleInv, TypeInv, TypeOK, List
<1>2. /\ at'[p] = place /\ \A q \in Processes \ {p} : at'[q] = at[q]
      /\ copy'[p] = l /\ \A q \in Processes \ {p} : copy'[q] = copy[q]
  BY <1>1 DEF Go
<1>3. ListsInv'
  BY <1>2 DEF ScheduleInv, ListsInv, GoodList, GoodEntry, Retries
<1>4. \A a \in Adders : a \in Processes /\ a \notin Passes /\ a \notin Removers
  BY Kinds
<1>5. \A r \in Removers : r \in Processes /\ r \notin Passes /\ r \notin Adders
  BY Kinds
<1>6. OwnInv'
  BY <1>2, <1>4 DEF ScheduleInv, OwnInv
<1>7. UnbornInv'
  <2> SUFFICES ASSUME NEW a \in Adders, Unborn(a)'
               PROVE  /\ file'[Adds[a]] = Missing
                      /\ \A q \in Processes \ {a} : copy'[q][Adds[a]] = Missing
                      /\ Adds[a] \notin told'.removed
                      /\ told'.last[Adds[a]] = "none" /\ told'.streak[Adds[a]] = 0
                      /\ \A q \in Passes : at'[q] = "saving" => current'[q] # Adds[a]
                      /\ \A r \in Removers : at'[r] = "removing" => Removes[r] # Adds[a]
    BY DEF UnbornInv
  <2>1. Unborn(a)
    BY <1>2, <1>4 DEF Unborn
  <2>2. \A q \in Processes \ {a} : copy'[q][Adds[a]] = Missing
    BY <1>2, <2>1 DEF ScheduleInv, UnbornInv
  <2>3. ASSUME NEW q \in Passes, at'[q] = "saving" PROVE current'[q] # Adds[a]
    <3>1. q \in Processes /\ q # a
      BY Kinds
    <3>2. CASE q = p
      BY <1>2, <2>1, <3>1, <3>2 DEF Target
    <3>3. CASE q # p
      BY <1>2, <2>1, <2>3, <3>1, <3>3 DEF ScheduleInv, UnbornInv
    <3>4. QED
      BY <3>2, <3>3
  <2>4. ASSUME NEW r \in Removers, at'[r] = "removing" PROVE Removes[r] # Adds[a]
    <3>1. r \in Processes /\ r # a
      BY Kinds
    <3>2. CASE r = p
      BY <1>5, <2>1, <3>1, <3>2 DEF Target
    <3>3. CASE r # p
      BY <1>2, <2>1, <2>4, <3>1, <3>3 DEF ScheduleInv, UnbornInv
    <3>4. QED
      BY <3>2, <3>3
  <2>5. QED
    BY <2>1, <2>2, <2>3, <2>4 DEF ScheduleInv, UnbornInv
<1>8. CopyInv'
  <2>1. ASSUME ~lost, NEW q \in Processes, Fresh(q)' PROVE OthersSame(q)' /\ Edits(q)'
    <3>1. CASE q = p
      BY <2>1, <3>1 DEF Fresh
    <3>2. CASE q # p
      <4>1. at'[q] = at[q] /\ copy'[q] = copy[q] /\ Fresh(q)
        BY <1>2, <2>1, <3>2 DEF Fresh, Writing
      <4>2. Fresh(q) => OthersSame(q) /\ Edits(q)
        BY <2>1 DEF ScheduleInv, CopyInv
      <4>3. QED
        BY <2>1, <4>1, <4>2, EditsKept DEF ScheduleInv
    <3>3. QED
      BY <3>1, <3>2
  <2>2. QED
    BY <2>1 DEF CopyInv
<1>9. EditsInv'
  BY <1>2, <1>4 DEF ScheduleInv, EditsInv
<1>10. HistoryInv'
  BY DEF ScheduleInv, HistoryInv, Agrees, Held, Retries
<1>11. QED
  BY <1>3, <1>6, <1>7, <1>8, <1>9, <1>10 DEF ListInvs

LEMMA MarkReadInv ==
  ASSUME ScheduleInv, NEW p \in Passes, MarkRead(p)
  PROVE  ListInvs'
<1> DEFINE j == current[p]
           e == file[j]
           m == Marked(j, e, outcome[p])
           l == [file EXCEPT ![j] = m]
<1>0. p \in Processes /\ p \notin Adders /\ p \notin Removers
  BY Kinds
<1>1. /\ at[p] = "marking" /\ e # Missing
      /\ copy' = [copy EXCEPT ![p] = l] /\ stale' = stale \ {p}
      /\ Go(p, "saving")
      /\ UNCHANGED <<file, passVars, lost, told>>
  BY DEF MarkRead, Take
<1>2. /\ file \in List /\ j \in Jobs /\ e \in Entry /\ outcome[p] \in {"success", "failed"}
      /\ reached[j] \in Nat /\ copy \in [Processes -> List] /\ at \in [Processes -> Places]
  BY <1>1 DEF ScheduleInv, TypeInv, TypeOK, PlacesInv, List
<1>3. /\ m \in Entry /\ IsMarked(j, e, m, outcome[p])
  BY <1>2, MarkedIs DEF IsMarked
<1> HIDE DEF m
<1>4. l \in List /\ l[j] = m /\ \A k \in Jobs \ {j} : l[k] = file[k]
  BY <1>2, <1>3 DEF List
<1>5. GoodEntry(j, m)
  <2>1. GoodEntry(j, e)
    BY <1>2 DEF ScheduleInv, ListsInv, GoodList
  <2>2. Retries(j, m) = Retries(j, e) /\ Retries(j, e) \in Nat /\ e.retries \in Nat
    BY <1>2, <1>3, RetriesType DEF IsMarked, Retries, Entry
  <2>3. m.status # "missing" /\ m # Missing
    <3>1. Missing.status = "missing"
      BY DEF Missing
    <3>2. m.status # "missing"
      BY <1>2, <1>3 DEF IsMarked, Again
    <3>3. QED
      BY <3>1, <3>2
  <2>4. CASE Again(j, e, outcome[p])
    <3>1. m.status = "retrying" /\ m.retries = e.retries + 1 /\ e.retries < Retries(j, e)
      BY <1>3, <2>4 DEF IsMarked, Again
    <3>2. QED
      BY <2>2, <2>3, <3>1 DEF GoodEntry
  <2>5. CASE ~Again(j, e, outcome[p])
    <3>1. m.status # "retrying" /\ m.retries = 0
      BY <1>2, <1>3, <2>5 DEF IsMarked
    <3>2. QED
      BY <2>2, <2>3, <3>1 DEF GoodEntry
  <2>6. QED
    BY <2>4, <2>5
<1>6. GoodList(l)
  BY <1>4, <1>5 DEF ScheduleInv, ListsInv, GoodList
<1>7. Target(p) = j /\ Target(p)' = j
  BY <1>1 DEF Target, passVars
<1>8. \A a \in Adders : Unborn(a) => l[Adds[a]] = Missing /\ j # Adds[a]
  BY <1>1, <1>4, SchedulerAssumption DEF ScheduleInv, UnbornInv
<1>9. copy'[p] = l /\ at'[p] = "saving" /\ outcome'[p] = outcome[p] /\ UNCHANGED file
  BY <1>0, <1>1, <1>2 DEF Go, passVars
<1> HIDE DEF l
<1>10. OthersSame(p)' /\ Edits(p)'
  <2>1. OthersSame(p)'
    BY <1>4, <1>7, <1>9 DEF OthersSame
  <2>2. IsMarked(j, e, l[j], outcome[p])
    BY <1>3, <1>4
  <2>3. Edits(p)'
    BY <1>1, <1>7, <1>9, <2>2 DEF Edits, IsMarked, Again, Retries
  <2>4. QED
    BY <2>1, <2>3
<1>11. QED
  BY <1>0, <1>1, <1>4, <1>6, <1>7, <1>8, <1>10, ReadInv

LEMMA AddReadInv ==
  ASSUME ScheduleInv, NEW a \in Adders, AddRead(a)
  PROVE  ListInvs'
<1> DEFINE j == Adds[a]
           n == reached[j] + 1
           l == [file EXCEPT ![j] = New(n)]
<1>0. a \in Processes /\ a \notin Passes /\ a \notin Removers /\ j \in Jobs
  BY Kinds, SchedulerAssumption
<1>1. /\ at[a] = "idle" /\ copy' = [copy EXCEPT ![a] = l] /\ stale' = stale \ {a}
      /\ Go(a, "adding")
      /\ UNCHANGED <<file, passVars, lost, told>>
  BY DEF AddRead, Take
<1>2. file \in List /\ n \in Nat /\ copy \in [Processes -> List] /\ at \in [Processes -> Places]
  <2>1. reached[j] \in Nat
    BY <1>0 DEF ScheduleInv, TypeInv, TypeOK
  <2>2. QED
    BY <2>1 DEF ScheduleInv, TypeInv, TypeOK, List
<1> HIDE DEF n
<1>3. New(n) \in Entry /\ New(n).status = "never" /\ ~New(n).set
  BY <1>2, Entries DEF New
<1>4. l \in List /\ l[j] = New(n) /\ \A k \in Jobs \ {j} : l[k] = file[k]
  BY <1>0, <1>2, <1>3 DEF List
<1>5. GoodList(l)
  <2>1. GoodEntry(j, New(n))
    BY <1>0, <1>2, GoodLists
  <2> HIDE DEF l
  <2>2. QED
    BY <1>4, <2>1 DEF ScheduleInv, ListsInv, GoodList
<1>6. \A b \in Adders \ {a} : Unborn(b) => l[Adds[b]] = Missing /\ Target(a) # Adds[b]
  <2>1. \A b \in Adders \ {a} : Adds[b] \in Jobs \ {j}
    BY SchedulerAssumption
  <2>2. Target(a) = j
    BY <1>0 DEF Target
  <2>3. QED
    BY <1>4, <2>1, <2>2 DEF ScheduleInv, UnbornInv
<1>7. copy'[a] = l /\ at'[a] = "adding" /\ UNCHANGED file
  BY <1>0, <1>1, <1>2 DEF Go
<1> HIDE DEF l
<1>8. OthersSame(a)' /\ Edits(a)'
  BY <1>0, <1>4, <1>7 DEF OthersSame, Edits, Target
<1>9. QED
  BY <1>0, <1>1, <1>3, <1>4, <1>5, <1>6, <1>8, ReadInv

LEMMA RemoveReadInv ==
  ASSUME ScheduleInv, NEW r \in Removers, RemoveRead(r)
  PROVE  ListInvs'
<1> DEFINE j == Removes[r]
           l == [file EXCEPT ![j] = Missing]
<1>0. r \in Processes /\ r \notin Passes /\ r \notin Adders /\ j \in Jobs
  BY Kinds, SchedulerAssumption
<1>1. /\ file[j] # Missing /\ copy' = [copy EXCEPT ![r] = l] /\ stale' = stale \ {r}
      /\ Go(r, "removing")
      /\ UNCHANGED <<file, passVars, lost, told>>
  BY DEF RemoveRead, Take
<1>2. file \in List /\ copy \in [Processes -> List] /\ at \in [Processes -> Places]
  BY DEF ScheduleInv, TypeInv, TypeOK, List
<1>3. l \in List /\ l[j] = Missing /\ \A k \in Jobs \ {j} : l[k] = file[k]
  BY <1>0, <1>2, Entries DEF List
<1>4. GoodList(l)
  BY <1>0, <1>3, GoodLists DEF ScheduleInv, ListsInv, GoodList
<1>5. \A a \in Adders : Unborn(a) => l[Adds[a]] = Missing /\ Target(r) # Adds[a]
  <2>1. Target(r) = j
    BY <1>0 DEF Target
  <2>2. QED
    BY <1>1, <1>3, <2>1, SchedulerAssumption DEF ScheduleInv, UnbornInv
<1>6. copy'[r] = l /\ at'[r] = "removing" /\ UNCHANGED file
  BY <1>0, <1>1, <1>2 DEF Go
<1> HIDE DEF l
<1>7. OthersSame(r)' /\ Edits(r)'
  BY <1>0, <1>3, <1>6 DEF OthersSame, Edits, Target
<1>8. QED
  BY <1>0, <1>1, <1>3, <1>4, <1>5, <1>7, ReadInv

LEMMA ConfigureReadInv ==
  ASSUME ScheduleInv, NEW a \in Adders, ConfigureRead(a)
  PROVE  ListInvs'
<1> DEFINE j == Adds[a]
           own == copy[a][j]
           e == file[j]
           f == [own EXCEPT !.set = TRUE]
           l == IF e = Missing THEN file ELSE [file EXCEPT ![j] = f]
<1>0. a \in Processes /\ a \notin Passes /\ a \notin Removers /\ j \in Jobs
  BY Kinds, SchedulerAssumption
<1>1. /\ at[a] = "added" /\ copy' = [copy EXCEPT ![a] = l]
      /\ stale' = IF lost \/ e \in {own, Missing} THEN stale \ {a} ELSE stale \cup {a}
      /\ Go(a, "configuring")
      /\ UNCHANGED <<file, passVars, lost, told>>
  BY DEF ConfigureRead
<1>2. /\ file \in List /\ copy \in [Processes -> List] /\ at \in [Processes -> Places]
      /\ own \in Entry /\ e \in Entry
  BY <1>0 DEF ScheduleInv, TypeInv, TypeOK, List
<1>3. own.status = "never" /\ ~own.set
  BY <1>1 DEF ScheduleInv, OwnInv
<1>4. f \in Entry /\ f.status = "never" /\ f.retries = own.retries
  BY <1>2, <1>3, Entries DEF Entry
<1>5. GoodEntry(j, f)
  <2>1. GoodEntry(j, own)
    BY <1>0 DEF ScheduleInv, ListsInv, GoodList
  <2>2. own.retries = 0
    BY <1>2, <1>3, <2>1 DEF GoodEntry, Entry
  <2>3. Retries(j, f) \in Nat /\ Missing.status = "missing"
    BY <1>0, RetriesType DEF Missing
  <2>4. f # Missing
    BY <1>4, <2>3
  <2>5. QED
    BY <1>4, <2>2, <2>3, <2>4 DEF GoodEntry
<1> HIDE DEF f
<1>6. l \in List /\ l[j] = (IF e = Missing THEN Missing ELSE f)
                 /\ \A k \in Jobs \ {j} : l[k] = file[k]
  BY <1>0, <1>2, <1>4 DEF List
<1>7. GoodList(l)
  BY <1>0, <1>5, <1>6, GoodLists DEF ScheduleInv, ListsInv, GoodList
<1>8. \A b \in Adders \ {a} : Unborn(b) => l[Adds[b]] = Missing /\ Target(a) # Adds[b]
  <2>1. \A b \in Adders \ {a} : Adds[b] \in Jobs \ {j}
    BY SchedulerAssumption
  <2>2. Target(a) = j
    BY <1>0 DEF Target
  <2>3. QED
    BY <1>6, <2>1, <2>2 DEF ScheduleInv, UnbornInv
<1>9. copy'[a] = l /\ at'[a] = "configuring" /\ UNCHANGED file
  BY <1>0, <1>1, <1>2 DEF Go
<1> HIDE DEF l
<1>10. ASSUME ~lost, a \notin stale' PROVE OthersSame(a)' /\ Edits(a)'
  <2>1. e \in {own, Missing}
    BY <1>1, <1>10
  <2>2. Target(a)' = j
    BY <1>0 DEF Target
  <2>3. IF e = Missing THEN l[j] = Missing
        ELSE e.status = "never" /\ l[j] = [e EXCEPT !.set = TRUE]
    BY <1>3, <1>6, <2>1 DEF f
  <2>4. QED
    BY <1>6, <1>9, <2>2, <2>3 DEF OthersSame, Edits
<1>11. QED
  BY <1>0, <1>1, <1>6, <1>7, <1>8, <1>10, ReadInv

\* A list that could not be read counts as one that has been replaced.
LEMMA ConfigureNothingInv ==
  ASSUME ScheduleInv, NEW a \in Adders, ConfigureNothing(a)
  PROVE  ListInvs'
<1>0. a \in Processes /\ a \notin Passes /\ a \notin Removers
  BY Kinds
<1>1. /\ at[a] = "added" /\ copy' = [copy EXCEPT ![a] = NoList]
      /\ stale' = IF lost THEN stale \ {a} ELSE stale \cup {a}
      /\ Go(a, "configuring")
      /\ UNCHANGED <<file, passVars, lost, told>>
  BY Zenon DEF ConfigureNothing
<1>2. NoList \in List /\ GoodList(NoList) /\ \A j \in Jobs : NoList[j] = Missing
  BY Entries, GoodLists DEF NoList
<1>3. Target(a) = Adds[a]
  BY <1>0 DEF Target
<1>4. \A b \in Adders \ {a} : Unborn(b) => NoList[Adds[b]] = Missing /\ Target(a) # Adds[b]
  BY <1>2, <1>3, SchedulerAssumption
<1>5. ~lost => a \in stale'
  BY <1>1
<1>6. QED
  BY <1>0, <1>1, <1>2, <1>4, <1>5, ReadInv
-----------------------------------------------------------------------------
(***************************************************************************)
(* Writing the list.                                                       *)
(***************************************************************************)
\* What SaveAll does: it overwrites nobody only if the list is the file with
\* the edit, and everybody else who holds a list holds an old one then.
LEMMA SaveFacts ==
  ASSUME ScheduleInv, NEW p \in Processes, Writing(p), NEW reported \in Told,
         SaveAll(p, reported)
  PROVE  /\ file' = copy[p]
         /\ lost' => told' = Untold
         /\ ~lost' =>
              /\ ~lost /\ OthersSame(p) /\ Edits(p)
              /\ \A q \in Processes \ {p} : Writing(q) => q \in stale'
              /\ told'.removed = reported.removed
              /\ told'.last = reported.last /\ told'.streak = reported.streak
              /\ told'.blind = reported.blind
              /\ \A q \in Passes, j \in Jobs :
                   j \in told'.moved[q] <=> j \in reported.moved[q] \/ file'[j] # file[j]
<1>1. file' = copy[p] /\ (lost' => told' = Untold)
  BY DEF SaveAll
<1>2. ASSUME ~lost'
      PROVE  /\ ~lost /\ OthersSame(p) /\ Edits(p)
             /\ \A q \in Processes \ {p} : Writing(q) => q \in stale'
  <2>1. ~lost /\ p \notin stale
    BY <1>2 DEF SaveAll
  <2>2. Fresh(p)
    BY <2>1 DEF Fresh
  <2>3. OthersSame(p) /\ Edits(p)
    BY <2>1, <2>2 DEF ScheduleInv, CopyInv
  <2>4. stale' = stale \cup {q \in Processes \ {p} : Writing(q)}
    BY <1>2 DEF SaveAll
  <2>5. QED
    BY <2>1, <2>3, <2>4
<1>3. ASSUME ~lost'
      PROVE  /\ told'.removed = reported.removed
             /\ told'.last = reported.last /\ told'.streak = reported.streak
             /\ told'.blind = reported.blind
             /\ \A q \in Passes, j \in Jobs :
                  j \in told'.moved[q] <=> j \in reported.moved[q] \/ file'[j] # file[j]
  <2> DEFINE changed == {j \in Jobs : copy[p][j] # file[j]}
             m == [q \in Passes |-> reported.moved[q] \cup changed]
  <2>1. told' = [reported EXCEPT !.moved = m]
    BY <1>3 DEF SaveAll
  <2>2. \A q \in Passes, j \in Jobs :
          j \in m[q] <=> j \in reported.moved[q] \/ file'[j] # file[j]
    BY <1>1
  <2> HIDE DEF m
  <2>3. told'.moved = m /\ told'.removed = reported.removed
        /\ told'.last = reported.last /\ told'.streak = reported.streak
        /\ told'.blind = reported.blind
    BY <2>1 DEF Told
  <2>4. QED
    BY <2>2, <2>3
<1>4. QED
  BY <1>1, <1>2, <1>3

\* What holds after a write, whatever was written.
LEMMA SaveInv ==
  ASSUME ScheduleInv, NEW p \in Processes, Writing(p), NEW reported \in Told,
         SaveAll(p, reported), NEW place,
         \/ p \in Passes /\ place = "choosing"
         \/ p \in Adders /\ place \in {"added", "done"}
         \/ p \in Removers /\ place = "done",
         place = "added" => at[p] = "adding" /\ UNCHANGED copy,
         place # "added" => copy' = [copy EXCEPT ![p] = NoList],
         Go(p, place),
         \A q \in Passes \ {p} : current'[q] = current[q],
         UNCHANGED <<todo, parents>>,
         reported.moved = told.moved, reported.blind = told.blind,
         \A a \in Adders \ {p} : Unborn(a) =>
           /\ Adds[a] \notin reported.removed
           /\ reported.last[Adds[a]] = "none" /\ reported.streak[Adds[a]] = 0
  PROVE  ListsInv' /\ OwnInv' /\ UnbornInv' /\ CopyInv' /\ PassInv'
<1>1. at \in [Processes -> Places] /\ copy \in [Processes -> List] /\ file \in List
  BY DEF ScheduleInv, TypeInv, TypeOK, List
<1>2. /\ at'[p] = place /\ \A q \in Processes \ {p} : at'[q] = at[q]
      /\ copy'[p] \in {copy[p], NoList} /\ \A q \in Processes \ {p} : copy'[q] = copy[q]
      /\ ~Writing(p)'
  BY <1>1 DEF Go, Writing
<1>3. file' = copy[p]
  BY SaveFacts
<1>4. ListsInv'
  <2>1. GoodList(copy[p]) /\ GoodList(copy'[p]) /\ \A q \in Processes \ {p} : GoodList(copy'[q])
    BY <1>2, GoodLists DEF ScheduleInv, ListsInv
  <2>2. QED
    BY <1>3, <2>1 DEF ListsInv, GoodList, GoodEntry, Retries
<1>5. \A a \in Adders : a \in Processes /\ a \notin Passes /\ a \notin Removers
  BY Kinds
<1>6. OwnInv'
  BY <1>2, <1>5 DEF ScheduleInv, OwnInv
<1>7. UnbornInv'
  <2> SUFFICES ASSUME NEW a \in Adders, Unborn(a)'
               PROVE  /\ file'[Adds[a]] = Missing
                      /\ \A q \in Processes \ {a} : copy'[q][Adds[a]] = Missing
                      /\ Adds[a] \notin told'.removed
                      /\ told'.last[Adds[a]] = "none" /\ told'.streak[Adds[a]] = 0
                      /\ \A q \in Passes : at'[q] = "saving" => current'[q] # Adds[a]
                      /\ \A r \in Removers : at'[r] = "removing" => Removes[r] # Adds[a]
    BY DEF UnbornInv
  <2>1. Unborn(a) /\ a # p
    BY <1>2, <1>5 DEF Unborn
  <2>2. Adds[a] \in Jobs
    BY SchedulerAssumption
  <2>3. /\ file'[Adds[a]] = Missing
        /\ \A q \in Processes \ {a} : copy'[q][Adds[a]] = Missing
    BY <1>2, <1>3, <2>1, <2>2 DEF ScheduleInv, UnbornInv, NoList
  <2>4. Adds[a] \notin told'.removed
        /\ told'.last[Adds[a]] = "none" /\ told'.streak[Adds[a]] = 0
    <3>1. CASE lost'
      BY <2>2, <3>1, SaveFacts DEF Untold
    <3>2. CASE ~lost'
      BY <2>1, <3>2, SaveFacts
    <3>3. QED
      BY <3>1, <3>2
  <2>5. ASSUME NEW q \in Passes, at'[q] = "saving" PROVE current'[q] # Adds[a]
    <3>1. q \in Processes /\ q # p
      BY <1>2, <2>5, Kinds
    <3>2. QED
      BY <1>2, <2>1, <2>5, <3>1 DEF ScheduleInv, UnbornInv
  <2>6. ASSUME NEW r \in Removers, at'[r] = "removing" PROVE Removes[r] # Adds[a]
    <3>1. r \in Processes /\ r # p
      BY <1>2, <2>6, Kinds
    <3>2. QED
      BY <1>2, <2>1, <2>6, <3>1 DEF ScheduleInv, UnbornInv
  <2>7. QED
    BY <2>3, <2>4, <2>5, <2>6
<1>8. CopyInv'
  <2>1. ASSUME ~lost', NEW q \in Processes, Fresh(q)' PROVE FALSE
    <3>1. q # p
      BY <1>2, <2>1 DEF Fresh
    <3>2. Writing(q) /\ q \notin stale'
      BY <1>2, <2>1, <3>1 DEF Fresh, Writing
    <3>3. QED
      BY <2>1, <3>1, <3>2, SaveFacts
  <2>2. QED
    BY <2>1 DEF CopyInv
<1>9. PassInv'
  <2> SUFFICES ASSUME ~lost', NEW q \in Passes
               PROVE  /\ \A t \in todo'[q] :
                           \/ t[1] \in told'.moved[q]
                           \/ t[1] \in Held(file)' /\ t[2] = ParentOf(t[1], file'[t[1]])
                      /\ Mapped(q)' /\ q \notin told'.blind => \A k \in Jobs :
                           k \in told'.moved[q] \/ parents'[q][k] = file'[k].status
    BY DEF PassInv, ParentOf
  <2>1. /\ ~lost /\ told'.blind = told.blind
        /\ \A j \in Jobs : j \in told'.moved[q] <=> j \in told.moved[q] \/ file'[j] # file[j]
    BY SaveFacts
  <2>2. q \in Processes
    BY Kinds
  <2>3. ASSUME NEW t \in todo'[q]
        PROVE  \/ t[1] \in told'.moved[q]
               \/ t[1] \in Held(file)' /\ t[2] = ParentOf(t[1], file'[t[1]])
    <3>1. t \in todo[q] /\ t[1] \in Jobs
      BY DEF ScheduleInv, TypeInv, TypeOK
    <3>2. t[1] \in told.moved[q] \/ (t[1] \in Held(file) /\ t[2] = ParentOf(t[1], file[t[1]]))
      BY <2>1, <3>1 DEF ScheduleInv, PassInv
    <3>3. CASE t[1] \in told'.moved[q]
      BY <3>3
    <3>4. CASE t[1] \notin told'.moved[q]
      BY <2>1, <3>1, <3>2, <3>4 DEF Held
    <3>5. QED
      BY <3>3, <3>4
  <2>4. ASSUME Mapped(q)', q \notin told'.blind, NEW k \in Jobs
        PROVE  k \in told'.moved[q] \/ parents'[q][k] = file'[k].status
    <3>1. Mapped(q)
      <4>1. CASE q = p
        BY <2>2, <4>1, Kinds
           DEF Mapped, Writing, ScheduleInv, TypeInv, PlacesInv, PassAt
      <4>2. CASE q # p
        BY <1>2, <2>2, <2>4, <4>2 DEF Mapped
      <4>3. QED
        BY <4>1, <4>2
    <3>2. k \in told.moved[q] \/ parents[q][k] = file[k].status
      BY <2>1, <2>4, <3>1 DEF ScheduleInv, PassInv
    <3>3. QED
      BY <2>1, <3>2
  <2>5. QED
    BY <2>3, <2>4
<1>10. QED
  BY <1>4, <1>6, <1>7, <1>8, <1>9
-----------------------------------------------------------------------------
(***************************************************************************)
(* The failures in a row are counted modulo the runs that make up one try. *)
(***************************************************************************)
LEMMA Division ==
  ASSUME NEW s \in Int, NEW n \in Int, n > 0
  PROVE  /\ s = n * (s \div n) + (s % n)
         /\ s \div n \in Int /\ s % n \in 0 .. n - 1
OBVIOUS

LEMMA Remainder ==
  ASSUME NEW n \in Int, n > 0, NEW q \in Int, NEW r \in 0 .. n - 1
  PROVE  (n * q + r) % n = r
OBVIOUS

LEMMA NextRemainder ==
  ASSUME NEW s \in Nat, NEW n \in Nat \ {0}
  PROVE  /\ s % n < n - 1 => (s + 1) % n = (s % n) + 1
         /\ s % n = n - 1 => (s + 1) % n = 0
         /\ 0 % n = 0
<1> DEFINE q == s \div n
           r == s % n
<1>1. s \in Int /\ n \in Int /\ n > 0
  OBVIOUS
<1>2. s = n * q + r /\ q \in Int /\ r \in 0 .. n - 1
  BY <1>1, Division
<1> HIDE DEF q, r
<1>3. CASE r < n - 1
  <2>1. r + 1 \in 0 .. n - 1 /\ s + 1 = n * q + (r + 1)
    BY <1>1, <1>2, <1>3
  <2>2. (s + 1) % n = r + 1
    BY <1>1, <1>2, <2>1, Remainder
  <2>3. QED
    BY <1>1, <1>3, <2>2 DEF r
<1>4. CASE r = n - 1
  <2>1. 0 \in 0 .. n - 1 /\ s + 1 = n * (q + 1) + 0 /\ q + 1 \in Int
    BY <1>1, <1>2, <1>4
  <2>2. (s + 1) % n = 0
    BY <1>1, <2>1, Remainder
  <2>3. QED
    BY <1>1, <1>4, <2>2 DEF r
<1>5. QED
  BY <1>1, <1>2, <1>3, <1>4 DEF r

\* A marked job is told of as its entry says.
LEMMA MarkedAgrees ==
  ASSUME NEW j \in Jobs, NEW e \in Entry, NEW f \in Entry, NEW result \in {"success", "failed"},
         NEW s \in Nat, NEW last,
         GoodEntry(j, e), IsMarked(j, e, f, result),
         e.retries = s % (Retries(j, e) + 1)
  PROVE  LET t == IF result = "failed" THEN s + 1 ELSE 0 IN
         /\ f.status # "never" /\ (result = "success" <=> f.status = "success")
         /\ result # "failed" => t = 0
         /\ f.retries = t % (Retries(j, f) + 1)
<1> DEFINE n == Retries(j, e) + 1
<1>1. n \in Nat \ {0} /\ Retries(j, f) + 1 = n /\ e.retries \in Nat /\ e.retries <= n - 1
      /\ Retries(j, e) \in Nat
  BY RetriesType DEF IsMarked, Retries, GoodEntry, Entry
<1>2. /\ s % n < n - 1 => (s + 1) % n = (s % n) + 1
      /\ s % n = n - 1 => (s + 1) % n = 0
      /\ 0 % n = 0
  BY <1>1, NextRemainder
<1>3. e.retries = s % n /\ n - 1 = Retries(j, e)
  BY <1>1
<1> HIDE DEF n
<1>4. CASE result = "success"
  BY <1>1, <1>2, <1>4 DEF IsMarked, Again
<1>5. CASE result = "failed" /\ e.retries < n - 1
  <2>1. Again(j, e, result)
    BY <1>1, <1>3, <1>5 DEF Again
  <2>2. f.status = "retrying" /\ f.retries = e.retries + 1
    BY <2>1 DEF IsMarked
  <2>3. QED
    BY <1>1, <1>2, <1>3, <1>5, <2>2
<1>6. CASE result = "failed" /\ ~(e.retries < n - 1)
  <2>1. ~Again(j, e, result)
    BY <1>3, <1>6 DEF Again
  <2>2. f.status = "failed" /\ f.retries = 0
    BY <1>6, <2>1 DEF IsMarked
  <2>3. s % n = n - 1
    BY <1>1, <1>3, <1>6
  <2>4. QED
    BY <1>1, <1>2, <1>6, <2>2, <2>3
<1>7. QED
  BY <1>4, <1>5, <1>6
-----------------------------------------------------------------------------
(***************************************************************************)
(* The actions that write.                                                 *)
(***************************************************************************)
LEMMA MarkWriteInv ==
  ASSUME ScheduleInv, TypeInv', NEW p \in Passes, MarkWrite(p)
  PROVE  ScheduleInv'
<1> DEFINE j == current[p]
           t == IF outcome[p] = "failed" THEN told.streak[j] + 1 ELSE 0
           r == [told EXCEPT !.last[j] = outcome[p], !.streak[j] = t]
           e == file[j]
           f == copy[p][j]
<1>0. p \in Processes /\ p \notin Adders /\ p \notin Removers
  BY Kinds
<1>1. /\ at[p] = "saving" /\ Writing(p) /\ SaveAll(p, r)
      /\ current' = [current EXCEPT ![p] = None]
      /\ copy' = [copy EXCEPT ![p] = NoList]
      /\ Go(p, "choosing")
      /\ UNCHANGED <<todo, parents>>
  BY DEF MarkWrite, Writing
<1>2. /\ file \in List /\ j \in Jobs /\ e \in Entry /\ f \in Entry
      /\ outcome[p] \in {"success", "failed"} /\ told \in Told
      /\ current \in [Passes -> Jobs \cup {None}] /\ at \in [Processes -> Places]
      /\ told.streak[j] \in Nat
  BY <1>0, <1>1 DEF ScheduleInv, TypeInv, TypeOK, PlacesInv, List, Told
<1>3. t \in Nat
  BY <1>2
<1> HIDE DEF t
<1>4. /\ r \in Told /\ r.moved = told.moved /\ r.blind = told.blind /\ r.removed = told.removed
      /\ r.last[j] = outcome[p] /\ r.streak[j] = t
      /\ \A k \in Jobs \ {j} : r.last[k] = told.last[k] /\ r.streak[k] = told.streak[k]
  BY <1>2, <1>3 DEF Told
<1> HIDE DEF r
<1>5. \A a \in Adders : Unborn(a) =>
        /\ Adds[a] \notin r.removed
        /\ r.last[Adds[a]] = "none" /\ r.streak[Adds[a]] = 0
  BY <1>1, <1>4, SchedulerAssumption DEF ScheduleInv, UnbornInv
<1>6. \A q \in Passes \ {p} : current'[q] = current[q]
  BY <1>1, <1>2
<1>7. ListsInv' /\ OwnInv' /\ UnbornInv' /\ CopyInv' /\ PassInv'
  BY <1>0, <1>1, <1>4, <1>5, <1>6, SaveInv
<1>8. ASSUME ~lost'
      PROVE  /\ ~lost /\ e # Missing /\ IsMarked(j, e, f, outcome[p])
             /\ file'[j] = f /\ \A k \in Jobs \ {j} : file'[k] = file[k]
             /\ told'.removed = told.removed
             /\ told'.last = r.last /\ told'.streak = r.streak
  <2>1. Target(p) = j
    BY DEF Target
  <2>2. /\ ~lost /\ OthersSame(p) /\ Edits(p) /\ file' = copy[p]
        /\ told'.removed = told.removed
        /\ told'.last = r.last /\ told'.streak = r.streak
    BY <1>0, <1>1, <1>4, <1>8, SaveFacts
  <2>3. QED
    BY <1>1, <2>1, <2>2 DEF OthersSame, Edits
<1>9. HistoryInv'
  <2> SUFFICES ASSUME ~lost', NEW k \in Jobs, file'[k] # Missing
               PROVE  Agrees(k, file[k])'
    BY DEF HistoryInv, Held
  <2>1. CASE k = j
    <3>1. GoodEntry(j, e) /\ Agrees(j, e)
      BY <1>2, <1>8 DEF ScheduleInv, ListsInv, GoodList, HistoryInv, Held
    <3>2. e.retries = told.streak[j] % (Retries(j, e) + 1)
      BY <3>1 DEF Agrees
    <3>3. /\ f.status # "never" /\ (outcome[p] = "success" <=> f.status = "success")
          /\ outcome[p] # "failed" => t = 0
          /\ f.retries = t % (Retries(j, f) + 1)
      BY <1>2, <1>8, <3>1, <3>2, MarkedAgrees DEF t
    <3>4. told'.last[j] = outcome[p] /\ told'.streak[j] = t /\ file'[j] = f
      BY <1>4, <1>8
    <3>5. QED
      BY <1>2, <2>1, <3>3, <3>4 DEF Agrees, Retries
  <2>2. CASE k # j
    <3>1. file'[k] = file[k] /\ told'.last[k] = told.last[k] /\ told'.streak[k] = told.streak[k]
      BY <1>4, <1>8, <2>2
    <3>2. Agrees(k, file[k])
      BY <1>8, <3>1 DEF ScheduleInv, HistoryInv, Held
    <3>3. QED
      BY <3>1, <3>2 DEF Agrees, Retries
  <2>3. QED
    BY <2>1, <2>2
<1>10. EditsInv'
  <2> SUFFICES ASSUME ~lost' PROVE EditsInv'
    BY DEF EditsInv
  <2>1. f # Missing /\ f.set = e.set
    <3>1. f.set = e.set /\ f.status # "missing"
      BY <1>2, <1>8 DEF IsMarked
    <3>2. Missing.status = "missing"
      BY DEF Missing
    <3>3. QED
      BY <3>1, <3>2
  <2>2. \A a \in Adders : at'[a] = at[a] /\ Adds[a] \in Jobs
    BY <1>0, <1>1, <1>2, Kinds, SchedulerAssumption DEF Go
  <2>3. told'.removed \subseteq Jobs
    BY <1>2, <1>8 DEF Told
  <2>4. QED
    BY <1>8, <2>1, <2>2, <2>3 DEF ScheduleInv, EditsInv
<1>11. QED
  BY <1>7, <1>9, <1>10 DEF ScheduleInv

LEMMA AddWriteInv ==
  ASSUME ScheduleInv, TypeInv', NEW a \in Adders, AddWrite(a)
  PROVE  ScheduleInv'
<1> DEFINE j == Adds[a]
<1>0. a \in Processes /\ a \notin Passes /\ a \notin Removers /\ j \in Jobs
  BY Kinds, SchedulerAssumption
<1>1. /\ at[a] = "adding" /\ Writing(a) /\ Unborn(a) /\ SaveAll(a, told)
      /\ Go(a, "added")
      /\ UNCHANGED <<copy, todo, parents, current>>
  BY DEF AddWrite, Writing, Unborn, passVars
<1>2. told \in Told /\ at \in [Processes -> Places] /\ copy[a][j] \in Entry
  BY <1>0 DEF ScheduleInv, TypeInv, TypeOK, Told, List
<1>3. \A b \in Adders : Unborn(b) =>
        /\ Adds[b] \notin told.removed
        /\ told.last[Adds[b]] = "none" /\ told.streak[Adds[b]] = 0
  BY DEF ScheduleInv, UnbornInv
<1>4. ListsInv' /\ OwnInv' /\ UnbornInv' /\ CopyInv' /\ PassInv'
  BY <1>0, <1>1, <1>2, <1>3, SaveInv
<1>5. ASSUME ~lost'
      PROVE  /\ ~lost /\ file'[j] = copy[a][j] /\ \A k \in Jobs \ {j} : file'[k] = file[k]
             /\ told'.removed = told.removed
             /\ told'.last = told.last /\ told'.streak = told.streak
  <2>1. Target(a) = j
    BY <1>0 DEF Target
  <2>2. /\ ~lost /\ OthersSame(a) /\ file' = copy[a]
        /\ told'.removed = told.removed
        /\ told'.last = told.last /\ told'.streak = told.streak
    BY <1>0, <1>1, <1>2, <1>5, SaveFacts
  <2>3. QED
    BY <2>1, <2>2 DEF OthersSame
<1>6. copy[a][j].status = "never" /\ copy[a][j].retries = 0 /\ copy[a][j] # Missing
  <2>1. copy[a][j].status = "never" /\ Missing.status = "missing"
    BY <1>1 DEF ScheduleInv, OwnInv, Missing
  <2>2. GoodEntry(j, copy[a][j])
    BY <1>0 DEF ScheduleInv, ListsInv, GoodList
  <2>3. QED
    BY <1>2, <2>1, <2>2 DEF GoodEntry, Entry
<1>7. HistoryInv'
  <2> SUFFICES ASSUME ~lost', NEW k \in Jobs, file'[k] # Missing
               PROVE  Agrees(k, file[k])'
    BY DEF HistoryInv, Held
  <2>1. CASE k = j
    <3>1. told'.last[j] = "none" /\ told'.streak[j] = 0
      BY <1>1, <1>3, <1>5
    <3>2. Retries(j, copy[a][j]) + 1 \in Nat \ {0}
      BY <1>0, RetriesType
    <3>3. 0 % (Retries(j, copy[a][j]) + 1) = 0
      BY <3>2, NextRemainder
    <3>4. QED
      BY <1>5, <1>6, <2>1, <3>1, <3>3 DEF Agrees, Retries
  <2>2. CASE k # j
    <3>1. file'[k] = file[k] /\ Agrees(k, file[k])
      BY <1>5, <2>2 DEF ScheduleInv, HistoryInv, Held
    <3>2. QED
      BY <1>5, <3>1 DEF Agrees, Retries
  <2>3. QED
    BY <2>1, <2>2
<1>8. EditsInv'
  <2> SUFFICES ASSUME ~lost' PROVE EditsInv'
    BY DEF EditsInv
  <2>1. \A b \in Adders \ {a} : at'[b] = at[b] /\ Adds[b] \in Jobs \ {j}
    BY <1>1, <1>2, Kinds, SchedulerAssumption DEF Go
  <2>2. at'[a] = "added"
    BY <1>0, <1>1, <1>2 DEF Go
  <2>3. told'.removed \subseteq Jobs \ {j}
    BY <1>1, <1>2, <1>3, <1>5 DEF Told
  <2>4. \A k \in told'.removed : file'[k] = Missing
    BY <1>5, <2>3 DEF ScheduleInv, EditsInv
  <2>5. \A b \in Adders \ {a} : at'[b] \in {"added", "configuring", "done"} =>
          \/ Adds[b] \in told'.removed
          \/ file'[Adds[b]] # Missing /\ (at'[b] = "done" => file'[Adds[b]].set)
    BY <1>5, <2>1 DEF ScheduleInv, EditsInv
  <2>6. file'[j] # Missing
    BY <1>5, <1>6
  <2>7. QED
    BY <2>2, <2>4, <2>5, <2>6 DEF EditsInv
<1>9. QED
  BY <1>4, <1>7, <1>8 DEF ScheduleInv

LEMMA ConfigureWriteInv ==
  ASSUME ScheduleInv, TypeInv', NEW a \in Adders, ConfigureWrite(a)
  PROVE  ScheduleInv'
<1> DEFINE j == Adds[a]
           e == file[j]
           f == copy[a][j]
<1>0. a \in Processes /\ a \notin Passes /\ a \notin Removers /\ j \in Jobs
  BY Kinds, SchedulerAssumption
<1>1. /\ at[a] = "configuring" /\ Writing(a) /\ SaveAll(a, told)
      /\ Go(a, "done") /\ copy' = [copy EXCEPT ![a] = NoList]
      /\ UNCHANGED <<todo, parents, current>>
  BY DEF ConfigureWrite, Finish, Writing, passVars
<1>2. /\ told \in Told /\ at \in [Processes -> Places]
      /\ e \in Entry /\ f \in Entry
  BY <1>0 DEF ScheduleInv, TypeInv, TypeOK, Told, List
<1>3. \A b \in Adders : Unborn(b) =>
        /\ Adds[b] \notin told.removed
        /\ told.last[Adds[b]] = "none" /\ told.streak[Adds[b]] = 0
  BY DEF ScheduleInv, UnbornInv
<1>4. ListsInv' /\ OwnInv' /\ UnbornInv' /\ CopyInv' /\ PassInv'
  BY <1>0, <1>1, <1>2, <1>3, SaveInv
<1>5. ASSUME ~lost'
      PROVE  /\ ~lost /\ file'[j] = f /\ \A k \in Jobs \ {j} : file'[k] = file[k]
             /\ IF e = Missing THEN f = Missing
                ELSE e.status = "never" /\ f = [e EXCEPT !.set = TRUE]
             /\ told'.removed = told.removed
             /\ told'.last = told.last /\ told'.streak = told.streak
  <2>1. Target(a) = j
    BY <1>0 DEF Target
  <2>2. /\ ~lost /\ OthersSame(a) /\ Edits(a) /\ file' = copy[a]
        /\ told'.removed = told.removed
        /\ told'.last = told.last /\ told'.streak = told.streak
    BY <1>0, <1>1, <1>2, <1>5, SaveFacts
  <2>3. QED
    BY <1>1, <2>1, <2>2 DEF OthersSame, Edits
<1>6. ASSUME ~lost', e # Missing
      PROVE  /\ e.status = "never" /\ f.status = "never" /\ f.retries = 0 /\ f.set /\ f # Missing
  <2>1. e.status = "never" /\ f = [e EXCEPT !.set = TRUE] /\ Missing.status = "missing"
    BY <1>5, <1>6 DEF Missing
  <2>2. f.status = "never" /\ f.retries = e.retries /\ f.set
    BY <1>2, <2>1 DEF Entry
  <2>3. GoodEntry(j, e)
    BY <1>0 DEF ScheduleInv, ListsInv, GoodList
  <2>4. e.retries = 0
    BY <1>2, <2>1, <2>3 DEF GoodEntry, Entry
  <2>5. f # Missing
    BY <2>1, <2>2
  <2>6. QED
    BY <2>1, <2>2, <2>4, <2>5
<1>7. HistoryInv'
  <2> SUFFICES ASSUME ~lost', NEW k \in Jobs, file'[k] # Missing
               PROVE  Agrees(k, file[k])'
    BY DEF HistoryInv, Held
  <2>1. CASE k = j
    <3>1. e # Missing /\ Agrees(j, e)
      BY <1>5, <2>1 DEF ScheduleInv, HistoryInv, Held
    <3>2. told.last[j] = "none" /\ told.streak[j] = 0
      BY <1>6, <3>1 DEF Agrees
    <3>3. Retries(j, f) + 1 \in Nat \ {0}
      BY <1>0, RetriesType
    <3>4. 0 % (Retries(j, f) + 1) = 0
      BY <3>3, NextRemainder
    <3>5. f.status = "never" /\ f.retries = 0
      BY <1>6, <3>1
    <3>6. QED
      BY <1>5, <2>1, <3>2, <3>4, <3>5 DEF Agrees, Retries
  <2>2. CASE k # j
    <3>1. file'[k] = file[k] /\ Agrees(k, file[k])
      BY <1>5, <2>2 DEF ScheduleInv, HistoryInv, Held
    <3>2. QED
      BY <1>5, <3>1 DEF Agrees, Retries
  <2>3. QED
    BY <2>1, <2>2
<1>8. EditsInv'
  <2> SUFFICES ASSUME ~lost' PROVE EditsInv'
    BY DEF EditsInv
  <2>1. \A b \in Adders \ {a} : at'[b] = at[b] /\ Adds[b] \in Jobs \ {j}
    BY <1>1, <1>2, Kinds, SchedulerAssumption DEF Go
  <2>2. told'.removed \subseteq Jobs
    BY <1>2, <1>5 DEF Told
  <2>3. \A k \in told'.removed : file'[k] = Missing
    BY <1>5, <2>2 DEF ScheduleInv, EditsInv
  <2>4. \A b \in Adders \ {a} : at'[b] \in {"added", "configuring", "done"} =>
          \/ Adds[b] \in told'.removed
          \/ file'[Adds[b]] # Missing /\ (at'[b] = "done" => file'[Adds[b]].set)
    BY <1>5, <2>1 DEF ScheduleInv, EditsInv
  <2>5. j \in told'.removed \/ (file'[j] # Missing /\ file'[j].set)
    <3>1. j \in told.removed \/ e # Missing
      BY <1>1, <1>5 DEF ScheduleInv, EditsInv
    <3>2. QED
      BY <1>5, <1>6, <3>1
  <2>6. QED
    BY <2>3, <2>4, <2>5 DEF EditsInv
<1>9. QED
  BY <1>4, <1>7, <1>8 DEF ScheduleInv

LEMMA RemoveWriteInv ==
  ASSUME ScheduleInv, TypeInv', NEW r \in Removers, RemoveWrite(r)
  PROVE  ScheduleInv'
<1> DEFINE j == Removes[r]
           rep == [told EXCEPT !.removed = told.removed \cup {j}]
<1>0. r \in Processes /\ r \notin Passes /\ r \notin Adders /\ j \in Jobs
  BY Kinds, SchedulerAssumption
<1>1. /\ at[r] = "removing" /\ Writing(r) /\ SaveAll(r, rep)
      /\ Go(r, "done") /\ copy' = [copy EXCEPT ![r] = NoList]
      /\ UNCHANGED <<todo, parents, current>>
  BY DEF RemoveWrite, Finish, Writing, passVars
<1>2. told \in Told /\ at \in [Processes -> Places]
  BY <1>0 DEF ScheduleInv, TypeInv, TypeOK, Told, List
<1>3. /\ rep \in Told /\ rep.moved = told.moved /\ rep.blind = told.blind /\ rep.removed = told.removed \cup {j}
      /\ rep.last = told.last /\ rep.streak = told.streak
  BY <1>0, <1>2 DEF Told
<1> HIDE DEF rep
<1>4. \A b \in Adders : Unborn(b) =>
        /\ Adds[b] \notin rep.removed
        /\ rep.last[Adds[b]] = "none" /\ rep.streak[Adds[b]] = 0
  BY <1>1, <1>3 DEF ScheduleInv, UnbornInv
<1>5. ListsInv' /\ OwnInv' /\ UnbornInv' /\ CopyInv' /\ PassInv'
  BY <1>0, <1>1, <1>3, <1>4, SaveInv
<1>6. ASSUME ~lost'
      PROVE  /\ ~lost /\ file'[j] = Missing /\ \A k \in Jobs \ {j} : file'[k] = file[k]
             /\ told'.removed = told.removed \cup {j}
             /\ told'.last = told.last /\ told'.streak = told.streak
  <2>1. Target(r) = j
    BY <1>0 DEF Target
  <2>2. /\ ~lost /\ OthersSame(r) /\ Edits(r) /\ file' = copy[r]
        /\ told'.removed = told.removed \cup {j}
        /\ told'.last = told.last /\ told'.streak = told.streak
    BY <1>0, <1>1, <1>3, <1>6, SaveFacts
  <2>3. QED
    BY <1>1, <2>1, <2>2 DEF OthersSame, Edits
<1>7. HistoryInv'
  <2> SUFFICES ASSUME ~lost', NEW k \in Jobs, file'[k] # Missing
               PROVE  Agrees(k, file[k])'
    BY DEF HistoryInv, Held
  <2>1. k # j /\ file'[k] = file[k]
    BY <1>6
  <2>2. Agrees(k, file[k])
    BY <1>6, <2>1 DEF ScheduleInv, HistoryInv, Held
  <2>3. QED
    BY <1>6, <2>1, <2>2 DEF Agrees, Retries
<1>8. EditsInv'
  <2> SUFFICES ASSUME ~lost' PROVE EditsInv'
    BY DEF EditsInv
  <2>1. \A b \in Adders : at'[b] = at[b] /\ Adds[b] \in Jobs
    BY <1>0, <1>1, <1>2, Kinds, SchedulerAssumption DEF Go
  <2>2. told.removed \subseteq Jobs
    BY <1>2 DEF Told
  <2>3. \A k \in told'.removed : file'[k] = Missing
    BY <1>6, <2>2 DEF ScheduleInv, EditsInv
  <2>4. \A b \in Adders : at'[b] \in {"added", "configuring", "done"} =>
          \/ Adds[b] \in told'.removed
          \/ file'[Adds[b]] # Missing /\ (at'[b] = "done" => file'[Adds[b]].set)
    BY <1>6, <2>1 DEF ScheduleInv, EditsInv
  <2>5. QED
    BY <2>3, <2>4 DEF EditsInv
<1>9. QED
  BY <1>5, <1>7, <1>8 DEF ScheduleInv
-----------------------------------------------------------------------------
(***************************************************************************)
(* The steps of a pass that do not write.                                  *)
(***************************************************************************)
\* What a pass holds is as it was, when only one of them has moved.
LEMMA PassKept ==
  ASSUME ScheduleInv, NEW p \in Passes, UNCHANGED <<file, lost>>,
         \A q \in Passes \ {p} :
           /\ todo'[q] = todo[q] /\ parents'[q] = parents[q]
           /\ told'.moved[q] = told.moved[q] /\ at'[q] = at[q]
           /\ q \in told'.blind <=> q \in told.blind,
         ~lost => \A t \in todo'[p] :
           \/ t[1] \in told'.moved[p]
           \/ t[1] \in Held(file) /\ t[2] = ParentOf(t[1], file[t[1]]),
         ~lost /\ Mapped(p)' /\ p \notin told'.blind =>
           \A q \in Jobs : q \in told'.moved[p] \/ parents'[p][q] = file[q].status
  PROVE  PassInv'
<1> SUFFICES ASSUME ~lost, NEW q \in Passes
             PROVE  /\ \A t \in todo'[q] :
                         \/ t[1] \in told'.moved[q]
                         \/ t[1] \in Held(file) /\ t[2] = ParentOf(t[1], file[t[1]])
                    /\ Mapped(q)' /\ q \notin told'.blind =>
                         \A k \in Jobs : k \in told'.moved[q] \/ parents'[q][k] = file[k].status
  BY DEF PassInv, Held, ParentOf
<1>1. CASE q = p
  BY <1>1
<1>2. CASE q # p
  BY <1>2 DEF ScheduleInv, PassInv, Mapped
<1>3. QED
  BY <1>1, <1>2

LEMMA PlanInv ==
  ASSUME ScheduleInv, TypeInv', NEW p \in Passes,
         \/ BeginPass(p) \/ MapJobs(p) \/ MapNothing(p) \/ EndPass(p)
         \/ \E j \in Jobs : \E q \in Jobs \cup {None} : Skip(p, j, q) \/ Run(p, j, q)
         \/ \E result \in {"success", "failed"} : EndWorkflow(p, result)
  PROVE  ScheduleInv'
<1> USE DEF passVars, ghosts
<1>0. /\ at \in [Processes -> Places] /\ p \in Processes /\ Passes \subseteq Processes
      /\ todo \in [Passes -> SUBSET (Jobs \X (Jobs \cup {None}))]
      /\ parents \in [Passes -> [Jobs -> Status]]
      /\ told \in Told
      /\ current \in [Passes -> Jobs \cup {None}]
      /\ outcome \in [Passes -> {"none", "success", "failed"}]
      /\ at[p] \in PassAt
  BY Kinds DEF ScheduleInv, TypeInv, TypeOK, PlacesInv, Status, Told
<1>1. CASE BeginPass(p)
  <2> DEFINE t == {<<j, ParentOf(j, file[j])>> : j \in Due(file)}
             m == [told.moved EXCEPT ![p] = {}]
  <2>1. /\ at[p] = "idle" /\ Go(p, "mapping") /\ todo' = [todo EXCEPT ![p] = t]
        /\ told' = IF lost THEN told ELSE [told EXCEPT !.moved = m, !.blind = told.blind \ {p}]
        /\ UNCHANGED <<file, reached, copy, parents, current, outcome, faults, stale, lost>>
    BY <1>1 DEF BeginPass
  <2>2. /\ told'.removed = told.removed /\ told'.last = told.last /\ told'.streak = told.streak
        /\ \A q \in Passes \ {p} :
             told'.moved[q] = told.moved[q] /\ (q \in told'.blind <=> q \in told.blind)
    BY <1>0, <2>1 DEF Told
  <2>3. ListInvs'
    BY <2>1, <2>2, QuietInv DEF PassAt
  <2>4. \A s \in t : s[1] \in Held(file) /\ s[2] = ParentOf(s[1], file[s[1]])
    BY DEF Due
  <2> HIDE DEF t, m
  <2>5. todo'[p] = t /\ \A q \in Passes \ {p} : todo'[q] = todo[q]
    BY <1>0, <2>1
  <2>6. at'[p] = "mapping" /\ \A q \in Passes \ {p} : at'[q] = at[q]
    BY <1>0, <2>1 DEF Go
  <2>7. PassInv'
    BY <2>1, <2>2, <2>4, <2>5, <2>6, PassKept DEF Mapped
  <2>8. QED
    BY <2>3, <2>7 DEF ScheduleInv, ListInvs
<1>2. CASE MapJobs(p)
  <2>1. /\ at[p] = "mapping" /\ Go(p, "choosing")
        /\ parents' = [parents EXCEPT ![p] = [j \in Jobs |-> file[j].status]]
        /\ UNCHANGED <<file, reached, copy, todo, current, outcome, faults, ghosts>>
    BY <1>2 DEF MapJobs
  <2>2. ListInvs'
    BY <2>1, QuietInv DEF PassAt
  <2>3. /\ \A j \in Jobs : parents'[p][j] = file[j].status
        /\ \A q \in Passes \ {p} : parents'[q] = parents[q] /\ at'[q] = at[q]
    BY <1>0, <2>1 DEF Go
  <2>4. PassInv'
    <3>1. ~lost => \A t \in todo'[p] :
            \/ t[1] \in told'.moved[p]
            \/ t[1] \in Held(file) /\ t[2] = ParentOf(t[1], file[t[1]])
      BY <2>1 DEF ScheduleInv, PassInv
    <3>2. QED
      BY <2>1, <2>3, <3>1, PassKept
  <2>5. QED
    BY <2>2, <2>4 DEF ScheduleInv, ListInvs
<1>3. ASSUME NEW j \in Jobs, NEW q \in Jobs \cup {None}, Skip(p, j, q) \/ Run(p, j, q)
      PROVE  ScheduleInv'
  <2>1. /\ at[p] = "choosing" /\ (at' = at \/ Go(p, "running"))
        /\ todo' = [todo EXCEPT ![p] = todo[p] \ {<<j, q>>}]
        /\ \A r \in Passes \ {p} : current'[r] = current[r] /\ outcome'[r] = outcome[r]
        /\ UNCHANGED <<file, copy, parents, stale, lost, told>>
    BY <1>0, <1>3 DEF Skip, Run
  <2>2. Go(p, "choosing") \/ Go(p, "running")
    BY <1>0, <2>1 DEF Go
  <2>3. ListInvs'
    BY <2>1, <2>2, QuietInv DEF PassAt
  <2>4. /\ todo'[p] \subseteq todo[p]
        /\ \A r \in Passes \ {p} : todo'[r] = todo[r] /\ at'[r] = at[r]
    BY <1>0, <2>1, <2>2 DEF Go
  <2>5. PassInv'
    <3>1. Mapped(p)
      BY <2>1 DEF Mapped
    <3>2. /\ ~lost => \A t \in todo'[p] :
               \/ t[1] \in told'.moved[p]
               \/ t[1] \in Held(file) /\ t[2] = ParentOf(t[1], file[t[1]])
          /\ ~lost /\ p \notin told'.blind =>
               \A k \in Jobs : k \in told'.moved[p] \/ parents'[p][k] = file[k].status
      BY <2>1, <2>4, <3>1 DEF ScheduleInv, PassInv
    <3>3. QED
      BY <2>1, <2>4, <3>2, PassKept
  <2>6. QED
    BY <2>3, <2>5 DEF ScheduleInv, ListInvs
<1>4. CASE EndPass(p)
  <2>1. /\ at[p] = "choosing" /\ todo[p] = {} /\ Go(p, After(p))
        /\ parents' = [parents EXCEPT ![p] = NoStatus]
        /\ UNCHANGED <<file, reached, copy, todo, current, outcome, faults, ghosts>>
    BY <1>4 DEF EndPass
  <2>2. ListInvs'
    BY <2>1, QuietInv DEF PassAt, After
  <2>3. /\ todo'[p] = {} /\ ~Mapped(p)'
        /\ \A q \in Passes \ {p} : parents'[q] = parents[q] /\ at'[q] = at[q]
    BY <1>0, <2>1 DEF Go, Mapped, After
  <2>4. PassInv'
    BY <2>1, <2>3, PassKept
  <2>5. QED
    BY <2>2, <2>4 DEF ScheduleInv, ListInvs
<1>5. ASSUME NEW result \in {"success", "failed"}, EndWorkflow(p, result)
      PROVE  ScheduleInv'
  <2>1. /\ at[p] = "running" /\ Go(p, "marking")
        /\ outcome' = [outcome EXCEPT ![p] = result]
        /\ UNCHANGED <<file, reached, copy, todo, parents, current, faults, ghosts>>
    BY <1>5 DEF EndWorkflow
  <2>2. \A q \in Passes \ {p} : outcome'[q] = outcome[q] /\ at'[q] = at[q]
    BY <1>0, <2>1 DEF Go
  <2>3. ListInvs'
    BY <2>1, <2>2, QuietInv DEF PassAt
  <2>4. PassInv'
    <3>1. Mapped(p)
      BY <2>1 DEF Mapped
    <3>2. /\ ~lost => \A t \in todo'[p] :
               \/ t[1] \in told'.moved[p]
               \/ t[1] \in Held(file) /\ t[2] = ParentOf(t[1], file[t[1]])
          /\ ~lost /\ p \notin told'.blind =>
               \A k \in Jobs : k \in told'.moved[p] \/ parents'[p][k] = file[k].status
      BY <2>1, <3>1 DEF ScheduleInv, PassInv
    <3>3. QED
      BY <2>1, <2>2, <3>2, PassKept
  <2>5. QED
    BY <2>3, <2>4 DEF ScheduleInv, ListInvs
<1>6. CASE MapNothing(p)
  <2>1. /\ at[p] = "mapping" /\ Go(p, "choosing")
        /\ parents' = [parents EXCEPT ![p] = NoStatus]
        /\ told' = IF lost THEN told ELSE [told EXCEPT !.blind = told.blind \cup {p}]
        /\ UNCHANGED <<file, copy, todo, current, outcome, stale, lost>>
    BY <1>6, Zenon DEF MapNothing
  <2>2. /\ told'.removed = told.removed /\ told'.last = told.last /\ told'.streak = told.streak
        /\ told'.moved = told.moved
        /\ \A q \in Passes \ {p} : q \in told'.blind <=> q \in told.blind
        /\ ~lost => p \in told'.blind
    BY <1>0, <2>1 DEF Told
  <2>3. ListInvs'
    BY <2>1, <2>2, QuietInv DEF PassAt
  <2>4. \A q \in Passes \ {p} : parents'[q] = parents[q] /\ at'[q] = at[q]
    BY <1>0, <2>1 DEF Go
  <2>5. PassInv'
    <3>1. ~lost => \A t \in todo'[p] :
            \/ t[1] \in told'.moved[p]
            \/ t[1] \in Held(file) /\ t[2] = ParentOf(t[1], file[t[1]])
      BY <2>1, <2>2 DEF ScheduleInv, PassInv
    <3>2. QED
      BY <2>1, <2>2, <2>4, <3>1, PassKept
  <2>6. QED
    BY <2>3, <2>5 DEF ScheduleInv, ListInvs
<1>7. QED
  BY <1>1, <1>2, <1>3, <1>4, <1>5, <1>6
-----------------------------------------------------------------------------
(***************************************************************************)
(* Giving up, reading, and time.                                           *)
(***************************************************************************)
LEMMA GiveUpInv ==
  ASSUME ScheduleInv, TypeInv', NEW p \in Passes, MarkUnknown(p) \/ FailMark(p) \/ Kill(p)
  PROVE  ScheduleInv'
<1>1. /\ Rest(p) /\ copy' = [copy EXCEPT ![p] = NoList] /\ stale' = stale \ {p}
      /\ Go(p, After(p)) /\ UNCHANGED <<file, lost, told>>
  BY Zenon DEF MarkUnknown, FailMark, Kill, GiveUp
<1>2. /\ at \in [Processes -> Places] /\ p \in Processes /\ Passes \subseteq Processes
      /\ DOMAIN todo = Passes /\ DOMAIN parents = Passes
      /\ DOMAIN current = Passes /\ DOMAIN outcome = Passes
  BY Kinds DEF ScheduleInv, TypeInv, TypeOK
<1>3. /\ todo'[p] = {} /\ at'[p] \in {"idle", "done"}
      /\ \A q \in Passes \ {p} :
           /\ current'[q] = current[q] /\ outcome'[q] = outcome[q]
           /\ todo'[q] = todo[q] /\ parents'[q] = parents[q] /\ at'[q] = at[q]
  BY <1>1, <1>2 DEF Rest, Go, After
<1>4. ListInvs'
  BY <1>1, <1>2, <1>3, LeaveInv DEF After
<1>5. PassInv'
  BY <1>1, <1>3, PassKept DEF Mapped
<1>6. QED
  BY <1>4, <1>5 DEF ScheduleInv, ListInvs

\* A step that leaves what the passes hold.
LEMMA PassSame ==
  ASSUME ScheduleInv, UNCHANGED <<file, todo, parents, lost, told>>,
         \A p \in Passes : Mapped(p)' => Mapped(p)
  PROVE  PassInv'
BY DEF ScheduleInv, PassInv, Held, ParentOf

LEMMA ReadStepInv ==
  ASSUME ScheduleInv, TypeInv',
         \/ \E p \in Passes : MarkRead(p)
         \/ \E a \in Adders : AddRead(a) \/ ConfigureRead(a) \/ ConfigureNothing(a)
         \/ \E r \in Removers : RemoveRead(r)
  PROVE  ScheduleInv'
<1>1. ListInvs'
  BY MarkReadInv, AddReadInv, ConfigureReadInv, ConfigureNothingInv, RemoveReadInv
<1>2. at \in [Processes -> Places]
  BY DEF ScheduleInv, TypeInv, TypeOK
<1>3. UNCHANGED <<file, todo, parents, lost, told>>
  BY DEF MarkRead, AddRead, ConfigureRead, ConfigureNothing, RemoveRead, passVars
<1>4. \A p \in Passes : Mapped(p)' => Mapped(p)
  <2>1. ASSUME NEW p \in Passes, MarkRead(p) PROVE \A q \in Passes : Mapped(q)' => Mapped(q)
    BY <1>2, <2>1, Kinds DEF MarkRead, Go, Mapped
  <2>2. ASSUME NEW e \in Adders \cup Removers, NEW place, Go(e, place)
        PROVE  \A q \in Passes : Mapped(q)' => Mapped(q)
    BY <1>2, <2>2, Kinds DEF Go, Mapped
  <2>3. QED
    BY <2>1, <2>2 DEF AddRead, ConfigureRead, ConfigureNothing, RemoveRead
<1>5. PassInv'
  BY <1>3, <1>4, PassSame
<1>6. QED
  BY <1>1, <1>5 DEF ScheduleInv, ListInvs

LEMMA FailEditInv ==
  ASSUME ScheduleInv, TypeInv', NEW e \in Editors, FailEdit(e)
  PROVE  ScheduleInv'
<1>1. /\ stale' = stale \ {e} /\ copy' = [copy EXCEPT ![e] = NoList] /\ Go(e, "failed")
      /\ UNCHANGED <<file, passVars, lost, told>>
  BY Zenon DEF FailEdit, Finish
<1>2. at \in [Processes -> Places] /\ e \in Processes /\ e \notin Passes
  BY Kinds DEF ScheduleInv, TypeInv, TypeOK, Editors
<1>3. ListInvs'
  BY <1>1, <1>2, LeaveInv DEF passVars
<1>4. \A p \in Passes : Mapped(p)' => Mapped(p)
  BY <1>1, <1>2, Kinds DEF Go, Mapped
<1>5. PassInv'
  BY <1>1, <1>4, PassSame DEF passVars
<1>6. QED
  BY <1>3, <1>5 DEF ScheduleInv, ListInvs

LEMMA StillInv ==
  ASSUME ScheduleInv, TypeInv', UNCHANGED <<file, at, copy, passVars, ghosts>>
  PROVE  ScheduleInv'
<1> USE DEF passVars, ghosts
<1>1. ListsInv' /\ OwnInv' /\ UnbornInv'
  BY DEF ScheduleInv, ListsInv, GoodList, GoodEntry, Retries, OwnInv, UnbornInv, Unborn
<1>2. CopyInv'
  <2>1. ASSUME ~lost, NEW q \in Processes, Fresh(q)' PROVE OthersSame(q)' /\ Edits(q)'
    <3>1. Fresh(q) => OthersSame(q) /\ Edits(q)
      BY <2>1 DEF ScheduleInv, CopyInv
    <3>2. Fresh(q)' => Fresh(q)
      BY DEF Fresh, Writing
    <3>3. QED
      BY <2>1, <3>1, <3>2, EditsKept DEF ScheduleInv
  <2>2. QED
    BY <2>1 DEF CopyInv
<1>3. EditsInv'
  BY DEF ScheduleInv, EditsInv
<1>4. HistoryInv'
  BY DEF ScheduleInv, HistoryInv, Agrees, Held, Retries
<1>5. PassInv'
  BY PassSame DEF Mapped
<1>6. QED
  BY <1>1, <1>2, <1>3, <1>4, <1>5 DEF ScheduleInv

-----------------------------------------------------------------------------
(***************************************************************************)
(* The invariant is inductive.                                             *)
(***************************************************************************)
LEMMA NextInv == ScheduleInv /\ [Next]_vars => ScheduleInv'
<1> SUFFICES ASSUME ScheduleInv, [Next]_vars PROVE ScheduleInv'
  OBVIOUS
<1>0. TypeInv'
  BY NextType DEF ScheduleInv
<1>1. ASSUME NEW p \in Passes, PassStep(p) PROVE ScheduleInv'
  BY <1>0, <1>1, PlanInv, GiveUpInv, ReadStepInv, MarkWriteInv DEF PassStep
<1>2. ASSUME NEW a \in Adders, AddStep(a) PROVE ScheduleInv'
  BY <1>0, <1>2, ReadStepInv, AddWriteInv, ConfigureWriteInv DEF AddStep
<1>3. ASSUME NEW r \in Removers, RemoveStep(r) PROVE ScheduleInv'
  BY <1>0, <1>3, ReadStepInv, RemoveWriteInv DEF RemoveStep
<1>4. ASSUME NEW j \in Jobs, FallsDue(j) PROVE ScheduleInv'
  BY <1>0, <1>4, StillInv DEF FallsDue
<1>5. CASE FaultStep
  BY <1>0, <1>5, PlanInv, GiveUpInv, ReadStepInv, FailEditInv DEF FaultStep
<1>6. CASE UNCHANGED vars
  BY <1>0, <1>6, StillInv DEF vars
<1>7. QED
  BY <1>1, <1>2, <1>3, <1>4, <1>5, <1>6 DEF Next

\* The inductive invariant holds of every behaviour.
THEOREM ScheduleInvariant == Spec => []ScheduleInv
BY InitInv, NextInv, PTL DEF Spec

\* The list is true: retries are counted, edits hold, and what it says of a job is
\* what its runs came to, unless a process has overwritten what another had written.
THEOREM ListIsTrue == Spec => []SchedulerInv
<1>1. ScheduleInv => SchedulerInv
  <2> SUFFICES ASSUME ScheduleInv PROVE SchedulerInv
    OBVIOUS
  <2>1. TypeOK
    BY DEF ScheduleInv, TypeInv
  <2>2. RetriesCounted
    BY DEF ScheduleInv, ListsInv, GoodList, GoodEntry, RetriesCounted
  <2>3. EditsHold
    BY DEF ScheduleInv, EditsInv, EditsHold
  <2>4. HistoryTold
    BY DEF ScheduleInv, HistoryInv, Agrees, HistoryTold
  <2>5. QED
    BY <2>1, <2>2, <2>3, <2>4 DEF SchedulerInv
<1>2. QED
  BY <1>1, ScheduleInvariant, PTL

\* A pass that starts a job has chosen it from what it has to do.
LEMMA StartIsRun ==
  ASSUME ScheduleInv, [Next]_vars, NEW p \in Passes, NEW j \in Jobs, Starts(p, j)
  PROVE  \E q \in Jobs \cup {None} : Run(p, j, q)
<1>0. /\ at \in [Processes -> Places] /\ p \in Processes /\ Passes \subseteq Processes
      /\ DOMAIN current = Passes
      /\ at[p] = "choosing" /\ at'[p] = "running" /\ current'[p] = j
  BY Kinds DEF ScheduleInv, TypeInv, TypeOK, Starts
<1>1. ASSUME NEW e \in Processes, NEW place, Go(e, place) PROVE e = p /\ place = "running"
  BY <1>0, <1>1 DEF Go
<1>2. at' # at
  BY <1>0
<1>3. ASSUME NEW x \in Passes, PassStep(x)
      PROVE  \E k \in Jobs, q \in Jobs \cup {None} : x = p /\ Run(p, k, q)
  <2>1. ~BeginPass(x) /\ ~MapJobs(x) /\ ~EndPass(x)
    BY <1>0, <1>1 DEF BeginPass, MapJobs, EndPass, After
  <2>2. \A result \in {"success", "failed"} : ~EndWorkflow(x, result)
    BY <1>0, <1>1 DEF EndWorkflow
  <2>3. ~MarkUnknown(x) /\ ~MarkRead(x) /\ ~MarkWrite(x)
    BY <1>0, <1>1 DEF MarkUnknown, GiveUp, After, MarkRead, MarkWrite
  <2>4. \A k \in Jobs, q \in Jobs \cup {None} : ~Skip(x, k, q)
    BY <1>2 DEF Skip
  <2>5. PICK k \in Jobs, q \in Jobs \cup {None} : Run(x, k, q)
    BY <1>3, <2>1, <2>2, <2>3, <2>4 DEF PassStep
  <2>6. x = p
    BY <1>0, <1>1, <2>5 DEF Run
  <2>7. QED
    BY <2>5, <2>6
<1>4. ASSUME NEW a \in Adders PROVE ~AddStep(a)
  BY <1>0, <1>1, Kinds DEF AddStep, AddRead, AddWrite, ConfigureRead, ConfigureWrite, Finish
<1>5. ASSUME NEW r \in Removers PROVE ~RemoveStep(r)
  BY <1>0, <1>1, Kinds DEF RemoveStep, RemoveRead, RemoveWrite, Finish
<1>6. ASSUME NEW k \in Jobs PROVE ~FallsDue(k)
  BY <1>2 DEF FallsDue
<1>7. ~FaultStep
  <2>0. (\A x \in Passes : ~MapNothing(x)) /\ \A a \in Adders : ~ConfigureNothing(a)
    BY <1>1, Kinds DEF MapNothing, ConfigureNothing
  <2>1. ASSUME NEW x \in Passes PROVE ~FailMark(x) /\ ~Kill(x)
    <3>1. ASSUME GiveUp(x) PROVE FALSE
      BY <1>0, <1>1, <3>1 DEF GiveUp, After
    <3>2. QED
      BY <3>1, Zenon DEF FailMark, Kill
  <2>2. ASSUME NEW e \in Editors, FailEdit(e) PROVE FALSE
    <3>1. Go(e, "failed")
      BY <2>2, Zenon DEF FailEdit, Finish
    <3>2. QED
      BY <1>1, <3>1, Kinds DEF Editors
  <2>3. QED
    BY <2>0, <2>1, <2>2 DEF FaultStep
<1>8. ~UNCHANGED vars
  BY <1>2 DEF vars
<1>9. PICK k \in Jobs, q \in Jobs \cup {None} : Run(p, k, q)
  BY <1>3, <1>4, <1>5, <1>6, <1>7, <1>8 DEF Next
<1>10. k = j
  BY <1>0, <1>9 DEF Run
<1>11. QED
  BY <1>9, <1>10

\* A job starts only when the last run of its parent has succeeded, unless one of
\* the two has changed since the pass began, the pass could not read the list a
\* second time, or an update was overwritten (runDueSchedules and MarkRun).
THEOREM ChildrenAfterParents == Spec => ParentSucceeded
<1> DEFINE Step == \A p \in Passes : \A j \in Held(file) :
                     LET q == ParentOf(j, file[j]) IN
                     Starts(p, j) /\ q \in Held(file) =>
                       \/ told.last[q] = "success"
                       \/ {j, q} \cap told.moved[p] # {} \/ p \in told.blind \/ lost
<1>1. ScheduleInv /\ [Next]_vars => Step
  <2> SUFFICES ASSUME ScheduleInv, [Next]_vars, NEW p \in Passes, NEW j \in Held(file),
                      NEW q, q = ParentOf(j, file[j]), Starts(p, j), q \in Held(file),
                      ~lost, j \notin told.moved[p], q \notin told.moved[p],
                      p \notin told.blind
               PROVE  told.last[q] = "success"
    OBVIOUS
  <2>1. j \in Jobs /\ q \in Jobs /\ q # None /\ file[q] # Missing
    BY SchedulerAssumption DEF Held
  <2>2. PICK r \in Jobs \cup {None} : Run(p, j, r)
    BY <2>1, StartIsRun
  <2>3. /\ at[p] = "choosing" /\ <<j, r>> \in todo[p] /\ ~Waits(p, r)
    BY <2>2 DEF Run
  <2>4. r = q
    BY <2>3 DEF ScheduleInv, PassInv
  <2>5. parents[p][q] = file[q].status
    BY <2>1, <2>3 DEF ScheduleInv, PassInv, Mapped
  <2>6. file[q].status \in {"missing", "success"}
    BY <2>1, <2>3, <2>4, <2>5 DEF Waits
  <2>7. file[q].status # "missing"
    BY <2>1 DEF ScheduleInv, ListsInv, GoodList, GoodEntry
  <2>8. Agrees(q, file[q])
    BY DEF ScheduleInv, HistoryInv
  <2>9. QED
    BY <2>6, <2>7, <2>8 DEF Agrees
<1>2. QED
  BY <1>1, ScheduleInvariant, PTL DEF Spec, ParentSucceeded

-----------------------------------------------------------------------------
(***************************************************************************)
(* What is due is not skipped: the safety half of DueJobsRun.              *)
(***************************************************************************)
\* A pass marks its run of the job, or the job is removed.
HandledNow(j) ==
  \/ \E p \in Passes : at[p] = "saving" /\ current[p] = j /\ at'[p] = "choosing"
  \/ \E r \in Removers : at[r] = "removing" /\ Removes[r] = j /\ at'[r] = "done"

\* A job that is due stays due until it is handled.
DueUntilHandled ==
  [][~lost' => \A j \in Due(file) : j \in Due(file)' \/ HandledNow(j)]_vars

\* A process that overwrites nothing writes the file with its own edit.
LEMMA SavedIs ==
  ASSUME ScheduleInv, NEW p \in Processes, Writing(p), NEW reported, SaveAll(p, reported), ~lost'
  PROVE  /\ file' = copy[p] /\ ~lost
         /\ \A k \in Jobs \ {Target(p)} : file'[k] = file[k]
         /\ Edits(p)
<1>1. file' = copy[p] /\ ~lost /\ p \notin stale
  BY DEF SaveAll
<1>2. OthersSame(p) /\ Edits(p)
  BY <1>1 DEF ScheduleInv, CopyInv, Fresh
<1>3. QED
  BY <1>1, <1>2 DEF OthersSame

\* A job is due as long as its entry and the time say so.
LEMMA StaysDue ==
  ASSUME NEW j \in Due(file), TypeOK, reached'[j] \in Nat, reached'[j] >= reached[j],
         file'[j] = file[j] \/ (file'[j] # Missing /\ file'[j].next = file[j].next)
  PROVE  j \in Due(file)'
<1>1. j \in Jobs /\ file[j] # Missing /\ file[j].next <= reached[j]
  BY DEF Due, Held
<1>2. file[j].next \in Nat /\ reached[j] \in Nat
  BY <1>1 DEF TypeOK, Entry
<1>3. file'[j] # Missing /\ file'[j].next = file[j].next
  BY <1>1
<1>4. file'[j].next <= reached'[j]
  BY <1>1, <1>2, <1>3
<1>5. QED
  BY <1>1, <1>3, <1>4 DEF Due, Held

\* A job that is due stays so until a run of it is marked or it is removed, unless
\* an update is overwritten: no pass, edit or fault skips it.
THEOREM DueJobsStayDue == Spec => DueUntilHandled
<1>1. ASSUME ScheduleInv, [Next]_vars, ~lost', NEW j \in Due(file), ~HandledNow(j)
      PROVE  j \in Due(file)'
  <2> DEFINE Goal == j \in Due(file)'
  <2>0. /\ j \in Jobs /\ file[j] # Missing /\ reached[j] \in Nat /\ TypeOK
        /\ file \in [Jobs -> Entry] /\ copy \in [Processes -> [Jobs -> Entry]]
        /\ reached \in [Jobs -> Nat] /\ at \in [Processes -> Places]
        /\ Passes \subseteq Processes /\ Adders \subseteq Processes /\ Removers \subseteq Processes
    BY <1>1, Kinds DEF ScheduleInv, TypeInv, TypeOK, Due, Held
  <2>1. ASSUME UNCHANGED <<file, reached>> PROVE Goal
    BY <1>1, <2>0, <2>1, StaysDue
  <2>2. ASSUME NEW p \in Passes, PassStep(p) PROVE Goal
    <3>1. CASE MarkWrite(p)
      <4>1. Writing(p) /\ p \in Processes /\ UNCHANGED reached /\ Target(p) = current[p]
        BY <2>0, <3>1 DEF MarkWrite, Writing, Target
      <4>2. PICK reported : SaveAll(p, reported)
        BY <3>1, Zenon DEF MarkWrite
      <4>3. current[p] # j
        <5>1. at[p] = "saving" /\ at'[p] = "choosing"
          BY <2>0, <3>1 DEF MarkWrite, Go
        <5>2. QED
          BY <1>1, <5>1 DEF HandledNow
      <4>4. file'[j] = file[j]
        BY <1>1, <2>0, <4>1, <4>2, <4>3, SavedIs
      <4>5. QED
        BY <1>1, <2>0, <4>1, <4>4, StaysDue
    <3>2. CASE UNCHANGED <<file, reached>>
      BY <2>1, <3>2
    <3>3. QED
      BY <2>2, <3>1, <3>2
         DEF PassStep, BeginPass, MapJobs, EndPass, Skip, Run, EndWorkflow, MarkUnknown, MarkRead
  <2>3. ASSUME NEW a \in Adders, AddStep(a) PROVE Goal
    <3>1. CASE AddWrite(a)
      <4>1. Writing(a) /\ a \in Processes /\ UNCHANGED reached /\ Target(a) = Adds[a]
        BY <2>0, <3>1, Kinds DEF AddWrite, Writing, Target
      <4>2. SaveAll(a, told)
        BY <3>1 DEF AddWrite
      <4>3. Adds[a] # j
        BY <1>1, <2>0, <3>1 DEF AddWrite, ScheduleInv, UnbornInv, Unborn
      <4>4. file'[j] = file[j]
        BY <1>1, <2>0, <4>1, <4>2, <4>3, SavedIs
      <4>5. QED
        BY <1>1, <2>0, <4>1, <4>4, StaysDue
    <3>2. CASE ConfigureWrite(a)
      <4>1. /\ Writing(a) /\ a \in Processes /\ UNCHANGED reached /\ Target(a) = Adds[a]
            /\ at[a] = "configuring"
        BY <2>0, <3>2, Kinds DEF ConfigureWrite, Writing, Target
      <4>2. SaveAll(a, told)
        BY <3>2 DEF ConfigureWrite
      <4>3. /\ file' = copy[a] /\ Edits(a)
            /\ \A k \in Jobs \ {Target(a)} : file'[k] = file[k]
        BY <1>1, <4>1, <4>2, SavedIs
      <4>4. CASE j = Adds[a]
        <5>1. copy[a][j] = [file[j] EXCEPT !.set = TRUE]
          BY <2>0, <4>1, <4>3, <4>4 DEF Edits
        <5>2. file[j] \in Entry
          BY <2>0
        <5>3. copy[a][j].set = TRUE /\ copy[a][j].next = file[j].next
          BY <5>1, <5>2 DEF Entry
        <5>4. copy[a][j] # Missing
          BY <5>3 DEF Missing
        <5>5. QED
          BY <1>1, <2>0, <4>1, <4>3, <5>3, <5>4, StaysDue
      <4>5. CASE j # Adds[a]
        BY <1>1, <2>0, <4>1, <4>3, <4>5, StaysDue
      <4>6. QED
        BY <4>4, <4>5
    <3>3. CASE UNCHANGED <<file, reached>>
      BY <2>1, <3>3
    <3>4. QED
      BY <2>3, <3>1, <3>2, <3>3 DEF AddStep, AddRead, ConfigureRead
  <2>4. ASSUME NEW r \in Removers, RemoveStep(r) PROVE Goal
    <3>1. CASE RemoveWrite(r)
      <4>1. Writing(r) /\ r \in Processes /\ UNCHANGED reached /\ Target(r) = Removes[r]
        BY <2>0, <3>1, Kinds DEF RemoveWrite, Writing, Target
      <4>2. PICK reported : SaveAll(r, reported)
        BY <3>1, Zenon DEF RemoveWrite
      <4>3. Removes[r] # j
        <5>1. at[r] = "removing" /\ at'[r] = "done"
          BY <2>0, <3>1 DEF RemoveWrite, Finish, Go
        <5>2. QED
          BY <1>1, <5>1 DEF HandledNow
      <4>4. file'[j] = file[j]
        BY <1>1, <2>0, <4>1, <4>2, <4>3, SavedIs
      <4>5. QED
        BY <1>1, <2>0, <4>1, <4>4, StaysDue
    <3>2. CASE UNCHANGED <<file, reached>>
      BY <2>1, <3>2
    <3>3. QED
      BY <2>4, <3>1, <3>2 DEF RemoveStep, RemoveRead
  <2>5. ASSUME NEW k \in Jobs, FallsDue(k) PROVE Goal
    <3>1. file' = file /\ reached' = [reached EXCEPT ![k] = @ + 1]
      BY <2>5 DEF FallsDue
    <3>2. reached'[j] \in Nat /\ reached'[j] >= reached[j]
      BY <2>0, <3>1
    <3>3. QED
      BY <1>1, <2>0, <3>1, <3>2, StaysDue
  <2>6. CASE FaultStep
    BY <2>1, <2>6 DEF FaultStep, MapNothing, ConfigureNothing, FailMark, Kill, FailEdit
  <2>7. CASE UNCHANGED vars
    BY <2>1, <2>7 DEF vars
  <2>8. QED
    BY <1>1, <2>2, <2>3, <2>4, <2>5, <2>6, <2>7 DEF Next
<1>2. ScheduleInv /\ [Next]_vars =>
        [~lost' => \A j \in Due(file) : j \in Due(file)' \/ HandledNow(j)]_vars
  BY <1>1
<1>3. QED
  BY <1>2, ScheduleInvariant, PTL DEF Spec, DueUntilHandled
=============================================================================
