----------------------------- MODULE ResumableRun -----------------------------
(***************************************************************************)
(* What a run promises that may be interrupted and resumed, without waves, *)
(* files or processes: a task is executed once the tasks it depends on     *)
(* have succeeded, before or after an interruption; what is on record has  *)
(* succeeded and is not executed again; and the run completes only when    *)
(* every task has succeeded.  What is not on record may be repeated.       *)
(***************************************************************************)
CONSTANT Tasks

VARIABLES
  deps,     \* [Tasks -> SUBSET Tasks], fixed
  done,     \* the tasks that have succeeded
  running,  \* the tasks being executed
  settled,  \* the tasks on record
  state     \* "working", "stopped" or "completed"

vars == <<deps, done, running, settled, state>>

Init ==
  /\ deps \in [Tasks -> SUBSET Tasks]
  /\ done = {}
  /\ running = {}
  /\ settled = {}
  /\ state = "working"

Start(t) ==
  /\ state = "working"
  /\ t \notin running \cup settled
  /\ deps[t] \subseteq done
  /\ running' = running \cup {t}
  /\ UNCHANGED <<deps, done, settled, state>>

\* A task that is executed succeeds or fails; if it failed it may be repeated.
End(t) ==
  /\ t \in running
  /\ running' = running \ {t}
  /\ done' \in {done, done \cup {t}}
  /\ UNCHANGED <<deps, settled, state>>

\* Some of the tasks that have succeeded are put on record.
Settle == \E S \in SUBSET done : settled' = settled \cup S

Save ==
  /\ state = "working"
  /\ Settle
  /\ UNCHANGED <<deps, done, running, state>>

\* The run is interrupted, or gives up.
Stop ==
  /\ state = "working"
  /\ state' = "stopped"
  /\ running' = {}
  /\ Settle
  /\ UNCHANGED <<deps, done>>

Complete ==
  /\ state = "working"
  /\ running = {}
  /\ done = Tasks
  /\ state' = "completed"
  /\ Settle
  /\ UNCHANGED <<deps, done, running>>

Resume ==
  /\ state # "working"
  /\ state' = "working"
  /\ UNCHANGED <<deps, done, running, settled>>

Next ==
  \/ Save \/ Stop \/ Complete \/ Resume
  \/ \E t \in Tasks : Start(t) \/ End(t)

Spec == Init /\ [][Next]_vars
=============================================================================
