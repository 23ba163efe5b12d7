--------------------------- MODULE BlueprintRunner ---------------------------
(***************************************************************************)
(* The runner of blueprints: its roles are executed in dependency waves,   *)
(* or one by one, the progress is saved in state.json after every wave,    *)
(* and an interrupted workflow is resumed from what the file says.         *)
(*                                                                         *)
(* One process works on a project directory at a time.  It may be killed   *)
(* at any moment, also while it writes the file.  The tasks of a role and  *)
(* their repairs are one step with one outcome; a role has some task.  A   *)
(* role is a number, in the order of the names.                            *)
(***************************************************************************)
EXTENDS Integers, FiniteSets, FiniteSetsExt

CONSTANTS
  Roles,           \* the roles of the blueprint
  Blueprints,      \* what they may depend on: functions from Roles to sets of roles
  MaxConcurrency,  \* of NewRunner
  MaxSessions,     \* bound: processes that work on the project, one after the other
  Absent, Torn     \* state.json does not exist, or is not valid JSON

ASSUME RunnerAssumption ==
  /\ Roles \subseteq Nat /\ IsFiniteSet(Roles) /\ Roles # {}
  /\ Blueprints \subseteq [Roles -> SUBSET Roles]
  /\ MaxConcurrency \in Nat \ {0}
  /\ MaxSessions \in Nat

Indexes == 0 .. Cardinality(Roles) - 1

\* What SharedState says of the progress.  An index without an entry in
\* CompletedWaves has the empty set.
State == [waves : [Indexes -> SUBSET Roles], artifacts : SUBSET Roles]
NewSharedState == [waves |-> [i \in Indexes |-> {}], artifacts |-> {}]

ASSUME FileAssumption == Absent \notin State /\ Torn \notin State /\ Absent # Torn

VARIABLES
  deps,       \* DependsOn of the blueprint
  level,      \* the dependency wave of every role
  serial,     \* whether the supervisor's mode was other than ModeParallel
  session,    \* "run", by the orchestrator, or "resume"
  sessions,   \* processes started so far
  phase,      \* where the process is; "down" when there is none
  index,      \* the index of the present wave
  todo,       \* roles of the present wave not started yet
  active,     \* roles being executed
  failed,     \* roles of the present wave that failed
  outputs,    \* roles whose results are in the process's map of results
  mem,        \* SharedState
  disk,       \* state.json
  doneEver,   \* roles that have succeeded in some process (history)
  durable     \* dependency waves that state.json once recorded as complete (history)

blueprintVars == <<deps, level, serial>>
waveVars      == <<index, todo, active, failed>>
vars == <<blueprintVars, session, sessions, phase, waveVars, outputs, mem, disk, doneEver, durable>>

-----------------------------------------------------------------------------
(***************************************************************************)
(* Waves.                                                                  *)
(***************************************************************************)
\* Mutant: only a first dependency is waited for.
SomeDependencyFirst(d, l) ==
  \A r \in Roles :
    /\ d[r] # {} => \E e \in d[r] : l[e] < l[r]
    /\ l[r] > 0 => \E e \in d[r] : l[e] = l[r] - 1

\* A role is in the first wave after those of its dependencies.  There is one such
\* l, and none when the dependencies are circular, which BuildWaves rejects.
BuildWaves(d, l) ==
  \A r \in Roles :
    /\ \A e \in d[r] : l[e] < l[r]
    /\ l[r] > 0 => \E e \in d[r] : l[e] = l[r] - 1

DependencyWave(i) == {r \in Roles : level[r] = i}

\* The i-th step when the waves are flattened: waves in order, names in order.
SerialStep(i) ==
  {r \in Roles :
     Cardinality({s \in Roles : level[s] < level[r] \/ (level[s] = level[r] /\ s < r)}) = i}

\* Only the orchestrator sets Serial of its runner.
Wave(s, i) == IF s = "run" /\ serial THEN SerialStep(i) ELSE DependencyWave(i)

-----------------------------------------------------------------------------
(***************************************************************************)
(* SharedState.                                                            *)
(***************************************************************************)
\* The entry with the index is replaced if there is one.
MarkWaveCompleted(s, i, roles) == [s EXCEPT !.waves[i] = roles]

WriteArtifacts(s, roles) == [s EXCEPT !.artifacts = @ \cup roles]

GetCompletedWaveRoles(s) == UNION {s.waves[i] : i \in Indexes}

\* Mutant: the first wave that is not complete.
FirstIncomplete(s) ==
  LET open == {i \in Indexes : ~(DependencyWave(i) \subseteq GetCompletedWaveRoles(s))}
  IN  IF open = {} THEN Cardinality(Roles) ELSE Min(open)

\* Where Resume begins: after the last wave all roles of which are complete.
ResumeFrom(s) ==
  LET done == {i \in Indexes : /\ DependencyWave(i) # {}
                               /\ DependencyWave(i) \subseteq GetCompletedWaveRoles(s)}
  IN  IF done = {} THEN 0 ELSE Max(done) + 1

\* Mutant: only the results of the wave before the one resumed are loaded.
ResultsOfLastWave(s) == DependencyWave(ResumeFrom(s) - 1) \cap s.artifacts

\* The roles whose results Resume finds in the artifacts.
ResultsOf(s) == GetCompletedWaveRoles(s) \cap s.artifacts

-----------------------------------------------------------------------------
(***************************************************************************)
(* The orchestrator's run and the resumption.                              *)
(***************************************************************************)
\* The loop over the waves at its i-th turn, or after it.
EnterWave(s, i) ==
  /\ index' = i
  /\ todo' = IF i \in Indexes THEN Wave(s, i) ELSE {}
  /\ active' = {}
  /\ failed' = {}
  /\ phase' = IF todo' = {} THEN "qa" ELSE "wave"

Init ==
  /\ deps \in Blueprints
  /\ level \in {l \in [Roles -> Indexes] : BuildWaves(deps, l)}
  /\ serial \in BOOLEAN
  /\ session = "run"
  /\ sessions = 1
  /\ phase = "wave"
  /\ index = 0
  /\ todo = Wave(session, 0)
  /\ active = {}
  /\ failed = {}
  /\ outputs = {}
  /\ mem = NewSharedState
  /\ disk = Absent
  /\ doneEver = {}
  /\ durable = {}

\* Mutant: a torn file is taken for a missing one, that is, for a new record.
ResumeAnew ==
  LET record == IF disk = Torn THEN NewSharedState ELSE disk IN
  /\ phase \in {"down", "failed", "done"}
  /\ sessions < MaxSessions
  /\ record \in State
  /\ sessions' = sessions + 1
  /\ session' = "resume"
  /\ mem' = record
  /\ outputs' = ResultsOf(record)
  /\ EnterWave("resume", ResumeFrom(record))
  /\ UNCHANGED <<blueprintVars, disk, doneEver, durable>>

Resume ==
  /\ phase \in {"down", "failed", "done"}
  /\ sessions < MaxSessions
  /\ disk \in State
  /\ sessions' = sessions + 1
  /\ session' = "resume"
  /\ mem' = disk
  /\ outputs' = ResultsOf(disk)
  /\ EnterWave("resume", ResumeFrom(disk))
  /\ UNCHANGED <<blueprintVars, disk, doneEver, durable>>

\* Mutant: there is no semaphore.
StartRoleAtOnce(r) ==
  /\ phase = "wave"
  /\ r \in todo
  /\ todo' = todo \ {r}
  /\ active' = active \cup {r}
  /\ UNCHANGED <<blueprintVars, session, sessions, phase, index, failed, outputs, mem, disk,
                 doneEver, durable>>

\* A role gets the semaphore, and the results its tasks are to build upon.
StartRole(r) ==
  /\ phase = "wave"
  /\ r \in todo
  /\ Cardinality(active) < MaxConcurrency
  /\ todo' = todo \ {r}
  /\ active' = active \cup {r}
  /\ UNCHANGED <<blueprintVars, session, sessions, phase, index, failed, outputs, mem, disk,
                 doneEver, durable>>

\* Mutant: a role that fails keeps the semaphore.
EndRoleKeepingSlot(r, ok) ==
  /\ phase = "wave"
  /\ r \in active \ failed
  /\ active' = IF ok THEN active \ {r} ELSE active
  /\ failed' = IF ok THEN failed ELSE failed \cup {r}
  /\ doneEver' = IF ok THEN doneEver \cup {r} ELSE doneEver
  /\ UNCHANGED <<blueprintVars, session, sessions, phase, index, todo, outputs, mem, disk, durable>>

\* Its tasks succeeded, after repairs where needed, or one of them failed for good.
EndRole(r, ok) ==
  /\ phase = "wave"
  /\ r \in active
  /\ active' = active \ {r}
  /\ failed' = IF ok THEN failed ELSE failed \cup {r}
  /\ doneEver' = IF ok THEN doneEver \cup {r} ELSE doneEver
  /\ UNCHANGED <<blueprintVars, session, sessions, phase, index, todo, outputs, mem, disk, durable>>

\* Mutant: failures are not looked at.
EndWaveRegardless ==
  /\ phase = "wave" /\ todo = {} /\ active = {}
  /\ outputs' = outputs \cup Wave(session, index)
  /\ mem' = MarkWaveCompleted(WriteArtifacts(mem, Wave(session, index)), index, Wave(session, index))
  /\ phase' = "save-next"
  /\ UNCHANGED <<blueprintVars, session, sessions, waveVars, disk, doneEver, durable>>

\* All roles of the wave have ended.  Only the orchestrator saves when it gives up.
EndWave ==
  /\ phase = "wave" /\ todo = {} /\ active = {}
  /\ outputs' = outputs \cup Wave(session, index)
  /\ \/ /\ failed = {}
        /\ mem' = MarkWaveCompleted(WriteArtifacts(mem, Wave(session, index)), index, Wave(session, index))
        /\ phase' = "save-next"
     \/ /\ failed # {}
        /\ phase' = IF session = "run" THEN "save-failed" ELSE "failed"
        /\ UNCHANGED mem
  /\ UNCHANGED <<blueprintVars, session, sessions, waveVars, disk, doneEver, durable>>

\* The QA agent has reviewed the results; its verdict changes no state.
ReviewQA ==
  /\ phase = "qa"
  /\ phase' = "save-done"
  /\ UNCHANGED <<blueprintVars, session, sessions, waveVars, outputs, mem, disk, doneEver, durable>>

Saving == {"save-next", "save-failed", "save-done"}

\* Save, the error of which is ignored: the file is truncated, if it can be
\* opened, and written.
Truncate ==
  /\ phase \in Saving
  /\ disk' = Torn
  /\ phase' = CASE phase = "save-next"   -> "write-next"
                [] phase = "save-failed" -> "write-failed"
                [] phase = "save-done"   -> "write-done"
  /\ UNCHANGED <<blueprintVars, session, sessions, waveVars, outputs, mem, doneEver, durable>>

\* Save has returned.
AfterSave ==
  \/ phase \in {"save-next", "write-next"} /\ EnterWave(session, index + 1)
  \/ phase \in {"save-failed", "write-failed"} /\ phase' = "failed" /\ UNCHANGED waveVars
  \/ phase \in {"save-done", "write-done"} /\ phase' = "done" /\ UNCHANGED waveVars

OpenFails ==
  /\ phase \in Saving
  /\ AfterSave
  /\ UNCHANGED <<blueprintVars, session, sessions, outputs, mem, disk, doneEver, durable>>

Writing == {"write-next", "write-failed", "write-done"}

Write ==
  /\ phase \in Writing
  /\ disk' = mem
  /\ durable' = durable \cup
       {i \in Indexes : /\ DependencyWave(i) # {}
                        /\ DependencyWave(i) \subseteq GetCompletedWaveRoles(mem)}
  /\ AfterSave
  /\ UNCHANGED <<blueprintVars, session, sessions, outputs, mem, doneEver>>

WriteFails ==
  /\ phase \in Writing
  /\ AfterSave
  /\ UNCHANGED <<blueprintVars, session, sessions, outputs, mem, disk, doneEver, durable>>

\* The process is killed.
Crash ==
  /\ phase \notin {"down", "failed", "done"}
  /\ phase' = "down"
  /\ todo' = {} /\ active' = {} /\ failed' = {}
  /\ outputs' = {}
  /\ mem' = NewSharedState
  /\ UNCHANGED <<blueprintVars, session, sessions, index, disk, doneEver, durable>>

-----------------------------------------------------------------------------
Process ==
  \/ \E r \in Roles : StartRole(r) \/ (\E ok \in BOOLEAN : EndRole(r, ok))
  \/ EndWave \/ ReviewQA
  \/ Truncate \/ OpenFails \/ Write \/ WriteFails

\* Nobody resumes the workflow, or nobody may.
Rest == phase \in {"down", "failed", "done"} /\ UNCHANGED vars

Next == Process \/ Crash \/ Resume \/ Rest

Spec == Init /\ [][Next]_vars

\* The process goes on while it is alive; that the tasks of a role end, which have
\* no timeout of their own here, is assumed.
FairSpec == Spec /\ WF_vars(Process)

-----------------------------------------------------------------------------
\* The types of the variables.
TypeOK ==
  /\ deps \in [Roles -> SUBSET Roles]
  /\ level \in [Roles -> Indexes]
  /\ serial \in BOOLEAN
  /\ session \in {"run", "resume"}
  /\ sessions \in 1 .. MaxSessions + 1
  /\ phase \in {"wave", "qa", "down", "failed", "done"} \cup Saving \cup Writing
  /\ index \in Nat
  /\ todo \subseteq Roles /\ active \subseteq Roles /\ failed \subseteq Roles
  /\ Cardinality(active) <= MaxConcurrency
  /\ outputs \subseteq Roles
  /\ mem \in State
  /\ disk \in State \cup {Absent, Torn}
  /\ doneEver \subseteq Roles
  /\ durable \subseteq Indexes

\* In whichever process, and after however many interruptions, a role is executed
\* only when all roles it depends on have once been executed with success.
DependenciesFirst == \A r \in active : deps[r] \subseteq doneEver

\* A workflow reaches the QA review, and is reported as completed, only when every
\* role has been executed with success, some of them possibly in a process before.
CompletionIsTrue == phase \in {"qa", "save-done", "write-done", "done"} => doneEver = Roles

\* No process executes more roles at a time than the semaphore has places (which
\* TypeOK says), each of them after its dependencies, and none is left out.
WaveInv == TypeOK /\ DependenciesFirst /\ CompletionIsTrue

\* The tasks of a role are built upon the results of its dependencies, in the first
\* process always and in a resumed one when the waves were parallel: the results
\* are found again in what the file says.
DependencyOutputsInjected ==
  session = "run" \/ ~serial => \A r \in active : deps[r] \subseteq outputs

\* Once state.json has recorded all roles of a dependency wave none of them is
\* executed again, though later records may overwrite that one and crashes follow.
NoRecordedWaveRunsAgain == [][\A r \in active' \ active : level[r] \notin durable]_vars

\* A process ends one way or the other: no role waits for the semaphore forever.
ProcessEnds == []<>(phase \in {"down", "failed", "done"})

-----------------------------------------------------------------------------
(***************************************************************************)
(* The runner and its resumptions implement ResumableRun.  The run stops   *)
(* with its process, and what is on record are the waves that state.json   *)
(* once showed to be complete.                                             *)
(***************************************************************************)
StateOfRun ==
  IF phase = "done" THEN "completed"
  ELSE IF phase \in {"down", "failed"} THEN "stopped"
  ELSE "working"

Abstract ==
  INSTANCE ResumableRun
    WITH Tasks   <- Roles,
         done    <- doneEver,
         running <- active,
         settled <- {r \in Roles : level[r] \in durable},
         state   <- StateOfRun

\* Every run of a blueprint, through all its processes, is one ResumableRun allows.
ImplementsResumableRun == Abstract!Spec

-----------------------------------------------------------------------------
\* Marking a wave as completed makes no other role incomplete: GetCompletedWaveRoles
\* returns all roles from completed waves.
CompletedRolesRemembered ==
  [][EndWave => GetCompletedWaveRoles(mem) \subseteq GetCompletedWaveRoles(mem')]_vars
=============================================================================
