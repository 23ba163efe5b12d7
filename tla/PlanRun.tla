------------------------------- MODULE PlanRun -------------------------------
(***************************************************************************)
(* What an orchestration run promises, without batches, goroutines,        *)
(* retries or modes: a subtask is started once its dependencies succeeded  *)
(* and, if it needs consent, after the user gave it; whatever was started  *)
(* is finished; and the run is closed only when nothing is running, with   *)
(* every remaining subtask accounted for.                                  *)
(***************************************************************************)
CONSTANT Tasks

VARIABLES
  deps,     \* [Tasks -> SUBSET Tasks], fixed when the run opens
  consent,  \* the tasks that may start only with the user's consent, likewise
  agreed,   \* the tasks the user consented to
  state,    \* what has become of each task
  over      \* the run is closed

State == {"pending", "running", "success", "failed", "skipped", "cancelled"}

vars == <<deps, consent, agreed, state, over>>

\* A run that has not opened yet has nothing but pending tasks.
Init ==
  /\ deps \in [Tasks -> SUBSET Tasks]
  /\ consent \in SUBSET Tasks
  /\ agreed = {}
  /\ state = [t \in Tasks |-> "pending"]
  /\ over = FALSE

Untouched == \A t \in Tasks : state[t] = "pending"

\* The guardrail may still put tasks behind a gate while nothing has started.
Gate ==
  /\ ~over /\ Untouched
  /\ consent' \in SUBSET Tasks
  /\ UNCHANGED <<deps, agreed, state, over>>

Ready(t) == state[t] = "pending" /\ \A d \in deps[t] : state[d] = "success"

Start(t) ==
  /\ ~over
  /\ Ready(t)
  /\ t \notin consent
  /\ state' = [state EXCEPT ![t] = "running"]
  /\ UNCHANGED <<deps, consent, agreed, over>>

\* The user consents to t, which starts it.
Agree(t) ==
  /\ ~over
  /\ Ready(t)
  /\ t \in consent
  /\ agreed' = agreed \cup {t}
  /\ state' = [state EXCEPT ![t] = "running"]
  /\ UNCHANGED <<deps, consent, over>>

End(t) ==
  /\ state[t] = "running"
  /\ state' \in {[state EXCEPT ![t] = "success"], [state EXCEPT ![t] = "failed"]}
  /\ UNCHANGED <<deps, consent, agreed, over>>

Refuse(t) ==
  /\ ~over
  /\ state[t] = "pending"
  /\ t \in consent
  /\ state' = [state EXCEPT ![t] = "skipped"]
  /\ UNCHANGED <<deps, consent, agreed, over>>

\* Tasks that can no longer run, because a dependency ended badly, are dropped.
Drop(T) ==
  /\ ~over
  /\ \A t \in T : state[t] = "pending" /\ \E d \in deps[t] : state[d] \in {"failed", "skipped"}
  /\ state' = [t \in Tasks |-> IF t \in T THEN "skipped" ELSE state[t]]
  /\ UNCHANGED <<deps, consent, agreed, over>>

\* The run closes: nothing runs any more, finished tasks keep their result,
\* and a pending task is skipped only if a dependency did not succeed.
Close ==
  /\ ~over
  /\ over' = TRUE
  /\ \A t \in Tasks : state[t] # "running"
  /\ state' \in [Tasks -> State \ {"pending", "running"}]
  /\ \A t \in Tasks :
       IF state[t] # "pending" THEN state'[t] = state[t]
       ELSE /\ state'[t] \in {"skipped", "cancelled"}
            /\ state'[t] = "skipped" => \E d \in deps[t] : state'[d] # "success"
  /\ UNCHANGED <<deps, consent, agreed>>

\* A dry run closes with every task skipped and nothing started.
CloseDry ==
  /\ ~over /\ Untouched
  /\ over' = TRUE
  /\ state' = [t \in Tasks |-> "skipped"]
  /\ UNCHANGED <<deps, consent, agreed>>

Next ==
  \/ Gate \/ Close \/ CloseDry
  \/ \E t \in Tasks : Agree(t) \/ Start(t) \/ End(t) \/ Refuse(t)
  \/ \E T \in SUBSET Tasks : Drop(T)

Spec == Init /\ [][Next]_vars
=============================================================================
