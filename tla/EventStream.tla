----------------------------- MODULE EventStream -----------------------------
(***************************************************************************)
(* How a change of the orchestration snapshot reaches the page that shows  *)
(* it: the store broadcasts each snapshot to the channels of its           *)
(* subscribers, handleOrchestrationEvents subscribes and writes what it    *)
(* receives as server-sent events, and the page shows every event, and the *)
(* answers to its own requests for the status: one when it is opened and,  *)
(* after the first error of the stream, one every four seconds.            *)
(*                                                                         *)
(* A snapshot is its number.  There is one page: pages share nothing but   *)
(* the store.  It opens a new connection when the last one broke, and the  *)
(* server may learn of that late.  WebOrchestration says what is in a      *)
(* snapshot.                                                               *)
(***************************************************************************)
EXTENDS Integers, Sequences

CONSTANTS
  Conns,      \* the connections the page may open, one after another
  NoConn,
  Polls,      \* the requests for the status that may be on their way at once
  Capacity,   \* of a subscriber's channel
  MaxVersion, \* bound: how many snapshots there will be
  MaxFaults   \* bound: broken connections and requests that fail

ASSUME StreamAssumption ==
  /\ NoConn \notin Conns
  /\ Capacity \in Nat \ {0} /\ MaxVersion \in Nat \ {0} /\ MaxFaults \in Nat

Fallback == 0   \* the page's fallbackSnapshot

VARIABLES
  version,   \* the store's snapshot
  cpc,       \* where the handler of each connection is
  queue,     \* the channel of each connection
  initial,   \* the snapshot Subscribe took for it
  got,       \* the last snapshot its handler wrote
  current,   \* the page's open connection
  shown,     \* what the page shows
  polling,   \* the page's fallbackTimer runs
  poll,      \* each request for the status: where it is, and its answer
  faults,
  full,      \* history: a broadcast found the channel full
  early,     \* history: a broadcast came between registering and the first snapshot
  crossed,   \* history: an event arrived while an answer was on its way
  failed     \* history: a request for the status failed

history == <<full, early, crossed, failed>>
pageVars == <<current, shown, polling, poll, faults>>
connVars == <<cpc, queue, initial, got>>
streamVars == <<version, connVars, pageVars, history>>

NoRequest == [at |-> "idle", answer |-> Fallback]

NoRequests == [k \in Polls |-> NoRequest]

Subscribed(c) == cpc[c] \in {"subscribing", "streaming"}

StreamInit ==
  /\ version = 1
  /\ cpc = [c \in Conns |-> "unused"]
  /\ queue = [c \in Conns |-> <<>>]
  /\ initial = [c \in Conns |-> Fallback]
  /\ got = [c \in Conns |-> Fallback]
  /\ current = NoConn
  /\ shown = Fallback
  /\ polling = FALSE
  /\ poll = [NoRequests EXCEPT ![CHOOSE k \in Polls : TRUE].at = "asked"]
  /\ faults = 0
  /\ full = [c \in Conns |-> FALSE]
  /\ early = [c \in Conns |-> FALSE]
  /\ crossed = FALSE
  /\ failed = FALSE

-----------------------------------------------------------------------------
(***************************************************************************)
(* The store and the handlers.                                             *)
(***************************************************************************)
\* Mutant: a place is kept free.
OfferWithReserve(q, v) == IF Len(q) + 1 < Capacity THEN Append(q, v) ELSE q

\* The select with a default: a full channel loses the newest snapshot.
Offer(q, v) == IF Len(q) < Capacity THEN Append(q, v) ELSE q

\* Start, StartPlanning, UpdateResult, MarkAll and Complete change the snapshot
\* and broadcast it, under one lock.
Broadcast ==
  /\ version < MaxVersion
  /\ version' = version + 1
  /\ queue' = [c \in Conns |-> IF Subscribed(c) THEN Offer(queue[c], version') ELSE queue[c]]
  /\ full' = [c \in Conns |-> full[c] \/ (Subscribed(c) /\ Len(queue[c]) = Capacity)]
  /\ early' = [c \in Conns |-> early[c] \/ cpc[c] = "subscribing"]
  /\ UNCHANGED <<cpc, initial, got, pageVars, crossed, failed>>

\* Mutant: the first snapshot needs two free places.
SendInitialWithReserve(c) ==
  /\ cpc[c] = "subscribing"
  /\ Len(queue[c]) + 1 < Capacity
  /\ queue' = [queue EXCEPT ![c] = Append(@, initial[c])]
  /\ cpc' = [cpc EXCEPT ![c] = "streaming"]
  /\ UNCHANGED <<version, initial, got, pageVars, history>>

\* The second half of Subscribe, after the lock is released: the first snapshot
\* is sent, which waits for a free place in a channel nobody receives from yet.
SendInitial(c) ==
  /\ cpc[c] = "subscribing"
  /\ Len(queue[c]) < Capacity
  /\ queue' = [queue EXCEPT ![c] = Append(@, initial[c])]
  /\ cpc' = [cpc EXCEPT ![c] = "streaming"]
  /\ UNCHANGED <<version, initial, got, pageVars, history>>

\* The page's listener for "snapshot" events.
ShowEvent(v) == v

\* The handler receives a snapshot and writes it.  On a connection that broke
\* the event is lost.
Deliver(c) ==
  /\ cpc[c] = "streaming"
  /\ queue[c] # <<>>
  /\ got' = [got EXCEPT ![c] = Head(queue[c])]
  /\ queue' = [queue EXCEPT ![c] = Tail(@)]
  /\ IF c = current
       THEN /\ shown' = ShowEvent(Head(queue[c]))
            /\ crossed' = (crossed \/ \E k \in Polls : poll[k].at = "answered")
       ELSE UNCHANGED <<shown, crossed>>
  /\ UNCHANGED <<version, cpc, initial, current, polling, poll, faults, full, early, failed>>

\* The handler finds its request's context done, or cannot write, and
\* unsubscribes; the channel is gone.  One that still waits in Subscribe does
\* not look.
Unsubscribe(c) ==
  /\ cpc[c] = "streaming"
  /\ c # current
  /\ cpc' = [cpc EXCEPT ![c] = "closed"]
  /\ queue' = [queue EXCEPT ![c] = <<>>]
  /\ initial' = [initial EXCEPT ![c] = Fallback]
  /\ got' = [got EXCEPT ![c] = Fallback]
  /\ full' = [full EXCEPT ![c] = FALSE]
  /\ early' = [early EXCEPT ![c] = FALSE]
  /\ UNCHANGED <<version, pageVars, crossed, failed>>

-----------------------------------------------------------------------------
(***************************************************************************)
(* The page.                                                               *)
(***************************************************************************)
\* The EventSource connects, at first and again after an error; the handler
\* enters Subscribe, which registers the channel and takes the snapshot.
Connect(c) ==
  /\ current = NoConn
  /\ cpc[c] = "unused"
  /\ current' = c
  /\ cpc' = [cpc EXCEPT ![c] = "subscribing"]
  /\ initial' = [initial EXCEPT ![c] = version]
  /\ UNCHANGED <<version, queue, got, shown, polling, poll, faults, history>>

\* The connection breaks: onerror starts the timer, for good.
Break ==
  /\ current # NoConn
  /\ faults < MaxFaults
  /\ faults' = faults + 1
  /\ current' = NoConn
  /\ polling' = TRUE
  /\ UNCHANGED <<version, connVars, shown, poll, history>>

\* The timer fires, whether or not earlier requests have been answered.
Ask(k) ==
  /\ polling
  /\ poll[k].at = "idle"
  /\ poll' = [poll EXCEPT ![k].at = "asked"]
  /\ UNCHANGED <<version, connVars, current, shown, polling, faults, history>>

\* handleOrchestrationStatus reads the snapshot.
Answer(k) ==
  /\ poll[k].at = "asked"
  /\ poll' = [poll EXCEPT ![k] = [at |-> "answered", answer |-> version]]
  /\ UNCHANGED <<version, connVars, current, shown, polling, faults, history>>

\* Mutant: the page keeps the first snapshot it has.
KeepFirst(v) == IF shown = Fallback THEN v ELSE shown

\* refresh shows whatever answer arrives.
ShowAnswer(v) == v

Arrive(k) ==
  /\ poll[k].at = "answered"
  /\ shown' = ShowAnswer(poll[k].answer)
  /\ poll' = [poll EXCEPT ![k] = NoRequest]
  /\ UNCHANGED <<version, connVars, current, polling, faults, history>>

\* A request fails: refresh shows fallbackSnapshot.
RefreshFails(k) ==
  /\ poll[k] # NoRequest
  /\ faults < MaxFaults
  /\ faults' = faults + 1
  /\ shown' = Fallback
  /\ poll' = [poll EXCEPT ![k] = NoRequest]
  /\ failed' = TRUE
  /\ UNCHANGED <<version, connVars, current, polling, full, early, crossed>>

-----------------------------------------------------------------------------
HandlerStep(c) == SendInitial(c) \/ Deliver(c) \/ Unsubscribe(c)

PollStep(k) == Ask(k) \/ Answer(k) \/ Arrive(k)

StreamNext ==
  \/ Broadcast \/ Break
  \/ \E c \in Conns : Connect(c) \/ HandlerStep(c)
  \/ \E k \in Polls : PollStep(k) \/ RefreshFails(k)

\* Handlers are scheduled, the timer fires and requests end.  Runs, faults and
\* reconnections are not fair.
StreamFairness ==
  /\ \A c \in Conns : WF_streamVars(HandlerStep(c))
  /\ \A k \in Polls : WF_streamVars(PollStep(k))

StreamSpec == StreamInit /\ [][StreamNext]_streamVars /\ StreamFairness

-----------------------------------------------------------------------------
\* The types of the variables, and a channel holds no more than its capacity.
StreamTypeOK ==
  /\ version \in 1 .. MaxVersion
  /\ cpc \in [Conns -> {"unused", "subscribing", "streaming", "closed"}]
  /\ queue \in [Conns -> Seq(1 .. MaxVersion)] /\ \A c \in Conns : Len(queue[c]) <= Capacity
  /\ initial \in [Conns -> Fallback .. MaxVersion]
  /\ got \in [Conns -> Fallback .. MaxVersion]
  /\ current \in Conns \cup {NoConn}
  /\ shown \in Fallback .. MaxVersion
  /\ poll \in [Polls -> [at : {"idle", "asked", "answered"}, answer : Fallback .. MaxVersion]]
  /\ faults \in 0 .. MaxFaults
  /\ full \in [Conns -> BOOLEAN] /\ early \in [Conns -> BOOLEAN]
  /\ polling \in BOOLEAN /\ crossed \in BOOLEAN /\ failed \in BOOLEAN

LastOnWay(c) == IF queue[c] = <<>> THEN got[c] ELSE queue[c][Len(queue[c])]

\* As long as no broadcast has found the channel full, the last snapshot a
\* stream carries is the store's; but the first one may come behind newer ones,
\* and is then the last until the next change.
StreamIsCurrent ==
  \A c \in Conns :
    cpc[c] = "streaming" /\ ~full[c] =>
      \/ LastOnWay(c) = version
      \/ early[c] /\ LastOnWay(c) = initial[c]

\* Whatever was lost, a stream shows snapshots in the order of the changes, each
\* one once, if nothing changed while it was being set up.
StreamInOrder ==
  \A c \in Conns :
    cpc[c] = "streaming" /\ ~early[c] =>
      /\ \A i \in 1 .. Len(queue[c]) : got[c] < queue[c][i]
      /\ \A i, j \in 1 .. Len(queue[c]) : i < j => queue[c][i] < queue[c][j]

\* A page whose stream has nothing more to say, and that has no request on its
\* way, shows the store's snapshot, unless a broadcast was lost or came too early,
\* an answer was overtaken by an event, or a request failed.
QuietPageIsCurrent ==
  \A c \in Conns :
    /\ c = current /\ cpc[c] = "streaming" /\ queue[c] = <<>>
    /\ poll = NoRequests
    /\ ~full[c] /\ ~early[c] /\ ~crossed /\ ~failed
    => shown = version

\* Subscribe finds a free place for the first snapshot, unless as many changes as
\* the channel holds came between its two halves.
SubscribeFindsRoom ==
  \A c \in Conns :
    cpc[c] = "subscribing" /\ version < initial[c] + Capacity => Len(queue[c]) < Capacity

\* Where the snapshots of a connection are: nothing is newer than the store's,
\* and what came before the first one is what was broadcast since it was taken.
ConnInv ==
  \A c \in Conns :
    /\ got[c] <= version /\ \A i \in 1 .. Len(queue[c]) : queue[c][i] <= version
    /\ c = current => Subscribed(c)
    /\ cpc[c] = "unused" => queue[c] = <<>> /\ got[c] = Fallback /\ ~full[c] /\ ~early[c]
    /\ Subscribed(c) => 1 <= initial[c] /\ initial[c] <= version
    /\ cpc[c] = "subscribing" =>
         /\ got[c] = Fallback
         /\ early[c] <=> queue[c] # <<>>
         /\ queue[c] = <<>> => version = initial[c]
         /\ queue[c] # <<>> /\ ~full[c] => LastOnWay(c) = version
         /\ initial[c] + Len(queue[c]) <= version

\* What the page has is not older than the last event of its stream, and no newer
\* than the store's, unless an answer was overtaken or a request failed.
PageInv ==
  /\ shown <= version /\ \A k \in Polls : poll[k].answer <= version
  /\ ~crossed /\ ~failed =>
       \A c \in Conns : c = current =>
         /\ got[c] <= shown
         /\ \A k \in Polls : poll[k].at = "answered" => got[c] <= poll[k].answer

\* A stream is current and in order, and so is the page that has nothing else to
\* wait for, but for the races the history variables tell of.
StreamInv ==
  /\ StreamTypeOK /\ ConnInv /\ PageInv
  /\ StreamIsCurrent /\ StreamInOrder /\ QuietPageIsCurrent /\ SubscribeFindsRoom

\* Subscribe returns, unless as many snapshots as the channel holds are broadcast
\* between its two halves: then nobody will ever receive from the channel.
SubscribeReturns ==
  \A c \in Conns :
    cpc[c] = "subscribing" ~> cpc[c] = "streaming" \/ version >= initial[c] + Capacity

\* Once the timer runs, a page shows the last snapshot in the end, and goes on
\* showing it, whatever the streams lost.
PageCatchesUp == <>[](polling => shown = version)
=============================================================================
