---------------------------- MODULE ApprovalBroker ----------------------------
(***************************************************************************)
(* The approval gate of the web server: OrchestrationStatusStore.          *)
(* WaitApproval, called by the executor's goroutine of a gated subtask,    *)
(* and Decide, called by the HTTP handler of the user's answer.  They meet *)
(* in the map pendingApprovals, under the store's mutex; the decision goes *)
(* through a channel with room for one value, outside the mutex.           *)
(*                                                                         *)
(* A waiter is one call of WaitApproval, with its channel; a decider one   *)
(* call of Decide.  IdOf gives the subtask ID a waiter waits for: waiters  *)
(* of different runs may share it, since a plan's IDs are not unique to    *)
(* the run.                                                                *)
(***************************************************************************)
CONSTANTS Waiters, Deciders, Ids, IdOf, NoWaiter

ASSUME BrokerAssumption == IdOf \in [Waiters -> Ids] /\ NoWaiter \notin Waiters

Decision == {"yes", "no"}

VARIABLES
  pending,   \* pendingApprovals: the waiter whose channel is stored under an ID
  chan,      \* the buffer of each waiter's channel
  wpc,       \* where each call of WaitApproval is
  answer,    \* what each call of WaitApproval returns
  dpc,       \* where each call of Decide is
  said,      \* the decision each call of Decide carries
  found,     \* the waiter whose channel each call of Decide found
  accepted   \* the calls of Decide that returned true

brokerVars == <<pending, chan, wpc, answer, dpc, said, found, accepted>>

BrokerInit ==
  /\ pending = [id \in Ids |-> NoWaiter]
  /\ chan = [w \in Waiters |-> "empty"]
  /\ wpc = [w \in Waiters |-> "idle"]
  /\ answer = [w \in Waiters |-> "none"]
  /\ dpc = [d \in Deciders |-> "idle"]
  /\ said = [d \in Deciders |-> "none"]
  /\ found = [d \in Deciders |-> NoWaiter]
  /\ accepted = {}

(***************************************************************************)
(* WaitApproval.                                                           *)
(***************************************************************************)
\* Mutant: a channel is used again by a later call.
RegisterAgain(w) ==
  /\ wpc[w] \in {"idle", "returned"}
  /\ pending' = [pending EXCEPT ![IdOf[w]] = w]
  /\ wpc' = [wpc EXCEPT ![w] = "blocked"]
  /\ UNCHANGED <<chan, answer, dpc, said, found, accepted>>

\* The channel is stored under the ID, over an entry of another waiter.
Register(w) ==
  /\ wpc[w] = "idle"
  /\ pending' = [pending EXCEPT ![IdOf[w]] = w]
  /\ wpc' = [wpc EXCEPT ![w] = "blocked"]
  /\ UNCHANGED <<chan, answer, dpc, said, found, accepted>>

\* select takes the decision.
ReceiveDecision(w) ==
  /\ wpc[w] = "blocked"
  /\ chan[w] # "empty"
  /\ answer' = [answer EXCEPT ![w] = chan[w]]
  /\ chan' = [chan EXCEPT ![w] = "empty"]
  /\ wpc' = [wpc EXCEPT ![w] = "leaving"]
  /\ UNCHANGED <<pending, dpc, said, found, accepted>>

\* Mutant: a timeout counts as consent.
GiveUpGranting(w) ==
  /\ wpc[w] = "blocked"
  /\ answer' = [answer EXCEPT ![w] = "yes"]
  /\ wpc' = [wpc EXCEPT ![w] = "leaving"]
  /\ UNCHANGED <<pending, chan, dpc, said, found, accepted>>

\* select takes the timer or ctx.Done(), also when a decision has arrived.
GiveUp(w) ==
  /\ wpc[w] = "blocked"
  /\ answer' = [answer EXCEPT ![w] = "no"]
  /\ wpc' = [wpc EXCEPT ![w] = "leaving"]
  /\ UNCHANGED <<pending, chan, dpc, said, found, accepted>>

\* Mutant: the entry of a call that returned stays in the map.
UnregisterNothing(w) ==
  /\ wpc[w] = "leaving"
  /\ wpc' = [wpc EXCEPT ![w] = "returned"]
  /\ UNCHANGED <<pending, chan, answer, dpc, said, found, accepted>>

\* The deferred function deletes whatever is stored under the ID.
Unregister(w) ==
  /\ wpc[w] = "leaving"
  /\ pending' = [pending EXCEPT ![IdOf[w]] = NoWaiter]
  /\ wpc' = [wpc EXCEPT ![w] = "returned"]
  /\ UNCHANGED <<chan, answer, dpc, said, found, accepted>>

(***************************************************************************)
(* Decide.                                                                 *)
(***************************************************************************)
\* Mutants: the entry stays in the map; a denial is taken out but never sent.
LookUpKeeping(d, id, say) ==
  /\ dpc[d] = "idle"
  /\ said' = [said EXCEPT ![d] = say]
  /\ found' = [found EXCEPT ![d] = pending[id]]
  /\ dpc' = [dpc EXCEPT ![d] = IF pending[id] = NoWaiter THEN "done" ELSE "sending"]
  /\ UNCHANGED <<pending, chan, wpc, answer, accepted>>

LookUpLosingNo(d, id, say) ==
  /\ dpc[d] = "idle"
  /\ said' = [said EXCEPT ![d] = say]
  /\ found' = [found EXCEPT ![d] = pending[id]]
  /\ dpc' = [dpc EXCEPT ![d] =
               IF pending[id] = NoWaiter \/ say = "no" THEN "done" ELSE "sending"]
  /\ pending' = [pending EXCEPT ![id] = NoWaiter]
  /\ UNCHANGED <<chan, wpc, answer, accepted>>

\* Under the mutex the channel is taken out of the map; with none Decide
\* returns false.
LookUp(d, id, say) ==
  /\ dpc[d] = "idle"
  /\ said' = [said EXCEPT ![d] = say]
  /\ found' = [found EXCEPT ![d] = pending[id]]
  /\ dpc' = [dpc EXCEPT ![d] = IF pending[id] = NoWaiter THEN "done" ELSE "sending"]
  /\ pending' = [pending EXCEPT ![id] = NoWaiter]
  /\ UNCHANGED <<chan, wpc, answer, accepted>>

\* Outside the mutex the decision is sent, or dropped if the buffer is full;
\* Decide returns true.
Send(d) ==
  /\ dpc[d] = "sending"
  /\ chan' = [chan EXCEPT ![found[d]] = IF @ = "empty" THEN said[d] ELSE @]
  /\ dpc' = [dpc EXCEPT ![d] = "done"]
  /\ accepted' = accepted \cup {d}
  /\ UNCHANGED <<pending, wpc, answer, said, found>>

-----------------------------------------------------------------------------
WaiterStep(w) == Register(w) \/ ReceiveDecision(w) \/ GiveUp(w) \/ Unregister(w)

DeciderStep(d) == Send(d) \/ \E id \in Ids, say \in Decision : LookUp(d, id, say)

BrokerNext == (\E w \in Waiters : WaiterStep(w)) \/ (\E d \in Deciders : DeciderStep(d))

BrokerSpec == BrokerInit /\ [][BrokerNext]_brokerVars

-----------------------------------------------------------------------------
\* The types of the broker's variables.
BrokerTypeOK ==
  /\ pending \in [Ids -> Waiters \cup {NoWaiter}]
  /\ chan \in [Waiters -> Decision \cup {"empty"}]
  /\ wpc \in [Waiters -> {"idle", "blocked", "leaving", "returned"}]
  /\ answer \in [Waiters -> Decision \cup {"none"}]
  /\ dpc \in [Deciders -> {"idle", "sending", "done"}]
  /\ said \in [Deciders -> Decision \cup {"none"}]
  /\ found \in [Deciders -> Waiters \cup {NoWaiter}]
  /\ accepted \in SUBSET Deciders

\* WaitApproval returns true only if the user said yes to that very call, and
\* nobody said anything else to it: no timeout, cancellation, stale channel or
\* answer meant for another waiter of the same ID grants a subtask.
ApprovedOnlyByUser ==
  \A w \in Waiters :
    answer[w] = "yes" =>
      /\ \E d \in Deciders : found[d] = w
      /\ \A d \in Deciders : found[d] = w => said[d] = "yes" /\ d \in accepted

\* A waiter's channel is handed to one decider at most, so that a decision that
\* is about to be sent finds the buffer empty: the default branch of the send
\* is never taken.
DecisionNeverDropped ==
  /\ \A d, e \in Deciders : found[d] = found[e] /\ found[d] # NoWaiter => d = e
  /\ \A d \in Deciders : dpc[d] = "sending" => chan[found[d]] = "empty"

\* A channel that is still in the map was handed to nobody.
MapInv ==
  \A id \in Ids : pending[id] # NoWaiter =>
    /\ IdOf[pending[id]] = id
    /\ wpc[pending[id]] # "idle"
    /\ \A d \in Deciders : found[d] # pending[id]

\* A call of Decide that found a channel sends its decision, and is accepted.
DeciderInv ==
  \A d \in Deciders :
    /\ found[d] # NoWaiter => wpc[found[d]] # "idle"
    /\ dpc[d] = "idle" => found[d] = NoWaiter /\ d \notin accepted
    /\ dpc[d] = "sending" => found[d] # NoWaiter /\ said[d] \in Decision /\ d \notin accepted
    /\ found[d] # NoWaiter /\ dpc[d] # "sending" => d \in accepted

\* What is in a channel, and a consent received from it, was sent by a call of
\* Decide that found it.
ChannelInv ==
  \A w \in Waiters :
    /\ chan[w] # "empty" => \E d \in accepted : found[d] = w /\ said[d] = chan[w]
    /\ answer[w] = "yes" => \E d \in accepted : found[d] = w /\ said[d] = "yes"

\* The inductive invariant of the broker.
BrokerInv == BrokerTypeOK /\ DecisionNeverDropped /\ MapInv /\ DeciderInv /\ ChannelInv
=============================================================================
