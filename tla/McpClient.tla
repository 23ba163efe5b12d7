------------------------------- MODULE McpClient -------------------------------
(***************************************************************************)
(* The client of an MCP server (internal/mcp): JSON-RPC calls to a         *)
(* subprocess over its stdin and stdout, or to a remote server over HTTP.  *)
(* The client is shared: the sessions of the web server use one client per *)
(* MCP server, each on its own goroutine, and a task that has timed out    *)
(* leaves its call going on.                                               *)
(*                                                                         *)
(* A call sends its request and then receives whatever response is next:   *)
(* IDs are given, and never compared.  A response is named by the call it  *)
(* answers; a message that answers none is a stray.                        *)
(***************************************************************************)
EXTENDS Naturals, Sequences, FiniteSets

CONSTANTS
  Calls,      \* ListTools and CallTool, and the call of initialize
  Hello,      \* the call of initialize
  Stray,      \* a notification, or the reply to one
  None,       \* no answer; the mutex is free
  Capacity,   \* of the channel respCh: 10
  MaxStrays   \* bound: messages of the server that answer no call

ASSUME McpClientAssumption ==
  /\ IsFiniteSet(Calls) /\ Hello \in Calls
  /\ {Stray, None} \cap Calls = {} /\ Stray # None
  /\ Capacity \in Nat \ {0} /\ MaxStrays \in Nat

VARIABLES
  kind,       \* the transport: "stdio" or "http"
  at,         \* where each call is
  mu,         \* the call that holds the transport's mutex (HTTP)
  server,     \* the requests a subprocess has not answered
  buffer,     \* the pipe from the subprocess, or respCh
  stream,     \* the event stream each call's POST has got (HTTP)
  ended,      \* the subprocess has ended, or was closed
  got,        \* the answer each call has returned
  \* what the properties are about
  strays,     \* how many messages came that answer no call
  abandoned,  \* the calls that gave up waiting
  overlapped, \* two calls were under way at once
  torn        \* reads at the same time have damaged the pipe's buffer

ghosts == <<strays, abandoned, overlapped, torn>>
vars   == <<kind, at, mu, server, buffer, stream, ended, got, ghosts>>

Init ==
  /\ kind \in {"stdio", "http"}
  /\ at = [c \in Calls |-> "idle"]
  /\ mu = None
  /\ server = {}
  /\ buffer = <<>>
  /\ stream = [c \in Calls |-> "none"]
  /\ ended = FALSE
  /\ got = [c \in Calls |-> None]
  /\ strays = 0 /\ abandoned = {} /\ overlapped = FALSE /\ torn = FALSE

Over == {"done", "failed"}
Active == {c \in Calls : at[c] \notin {"idle"} \cup Over}

Go(c, place) == at' = [at EXCEPT ![c] = place]

\* NewClient and NewRemoteClient do the handshake; nobody has the client before.
Begin(c) ==
  /\ at[c] = "idle"
  /\ c = Hello \/ at[Hello] = "done"
  /\ Go(c, "sending")
  /\ overlapped' = (overlapped \/ Active # {})
  /\ UNCHANGED <<kind, mu, server, buffer, stream, ended, got, strays, abandoned, torn>>

\* What a call does with the response it has received: one without a result
\* cannot be parsed.
Return(c, m) ==
  /\ got' = [got EXCEPT ![c] = IF m = Stray THEN None ELSE m]
  /\ Go(c, IF m = Stray THEN "failed" ELSE IF c = Hello THEN "greeted" ELSE "done")

(***************************************************************************)
(* StdioTransport.                                                         *)
(***************************************************************************)
\* The mutex is held for the write only.
Write(c) ==
  /\ kind = "stdio" /\ at[c] = "sending"
  /\ IF ended THEN Go(c, "failed") /\ server' = server
     ELSE Go(c, "receiving") /\ server' = server \cup {c}
  /\ UNCHANGED <<kind, mu, buffer, stream, ended, got, ghosts>>

\* External: the server answers in any order.
Answer(c) ==
  /\ c \in server /\ ~ended
  /\ server' = server \ {c}
  /\ buffer' = Append(buffer, c)
  /\ UNCHANGED <<kind, at, mu, stream, ended, got, ghosts>>

\* External: a notification, or a line of a log.
Notify ==
  /\ kind = "stdio" /\ ~ended /\ strays < MaxStrays
  /\ buffer' = Append(buffer, Stray)
  /\ strays' = strays + 1
  /\ UNCHANGED <<kind, at, mu, server, stream, ended, got, abandoned, overlapped, torn>>

Receiving == {c \in Calls : at[c] = "receiving"}

ReadLine(c) ==
  /\ kind = "stdio" /\ at[c] = "receiving" /\ buffer # <<>>
  /\ Return(c, Head(buffer))
  /\ buffer' = Tail(buffer)
  /\ UNCHANGED <<kind, mu, server, stream, ended, ghosts>>

\* Receive takes no lock: calls that read at the same time may both see a line,
\* or neither of them, and what they see may be cut.
ReadTorn(c) ==
  /\ kind = "stdio" /\ at[c] = "receiving" /\ buffer # <<>> /\ Receiving # {c}
  /\ \/ Return(c, Head(buffer)) /\ buffer' = buffer
     \/ Return(c, Stray) /\ buffer' = Tail(buffer)
     \/ UNCHANGED <<at, got>> /\ buffer' = Tail(buffer)
  /\ torn' = TRUE
  /\ UNCHANGED <<kind, mu, server, stream, ended, strays, abandoned, overlapped>>

ReadEnd(c) ==
  /\ kind = "stdio" /\ at[c] = "receiving" /\ ended /\ buffer = <<>>
  /\ Go(c, "failed")
  /\ UNCHANGED <<kind, mu, server, buffer, stream, ended, got, ghosts>>

\* Close, when the client is replaced or unregistered, or the process ends: what
\* it has written is lost if Wait closes the pipe first.
End ==
  /\ kind = "stdio" /\ ~ended
  /\ ended' = TRUE
  /\ buffer' \in {buffer, <<>>}
  /\ UNCHANGED <<kind, at, mu, server, stream, got, ghosts>>

(***************************************************************************)
(* HTTPTransport.  Send holds the mutex until it returns.                  *)
(***************************************************************************)
Post(c) ==
  /\ kind = "http" /\ at[c] = "sending" /\ mu = None
  /\ mu' = c
  /\ Go(c, "posting")
  /\ UNCHANGED <<kind, server, buffer, stream, ended, got, ghosts>>

\* The response is JSON, and has to be queued before Send returns.
PostReplies(c) ==
  /\ at[c] = "posting"
  /\ Go(c, "queueing")
  /\ UNCHANGED <<kind, mu, server, buffer, stream, ended, got, ghosts>>

Full == Len(buffer) = Capacity

Queue(c) ==
  /\ at[c] = "queueing" /\ ~Full
  /\ buffer' = Append(buffer, c)
  /\ mu' = None
  /\ Go(c, "receiving")
  /\ UNCHANGED <<kind, server, stream, ended, got, ghosts>>

\* The response is a stream of events, which a goroutine reads.
PostStreams(c) ==
  /\ at[c] = "posting"
  /\ stream' = [stream EXCEPT ![c] = "open"]
  /\ mu' = None
  /\ Go(c, "receiving")
  /\ UNCHANGED <<kind, server, buffer, ended, got, ghosts>>

\* Mutant: an error leaves Send with the mutex locked.
PostFailsLocked(c) ==
  /\ at[c] = "posting"
  /\ Go(c, "failed")
  /\ UNCHANGED <<kind, mu, server, buffer, stream, ended, got, ghosts>>

\* No response within the client's timeout, another status, or no JSON.
PostFails(c) ==
  /\ at[c] = "posting"
  /\ mu' = None
  /\ Go(c, "failed")
  /\ UNCHANGED <<kind, server, buffer, stream, ended, got, ghosts>>

\* Mutant: the text of an event that was queued is not forgotten.
EventTwice(c) ==
  /\ stream[c] = "open" /\ ~Full
  /\ buffer' = Append(buffer, c)
  /\ UNCHANGED <<kind, at, mu, server, stream, ended, got, ghosts>>

\* handleSSE: the goroutine waits while the channel is full.
Event(c) ==
  /\ stream[c] = "open" /\ ~Full
  /\ buffer' = Append(buffer, c)
  /\ stream' = [stream EXCEPT ![c] = "answered"]
  /\ UNCHANGED <<kind, at, mu, server, ended, got, ghosts>>

StrayEvent(c) ==
  /\ stream[c] \in {"open", "answered"} /\ ~Full /\ strays < MaxStrays
  /\ buffer' = Append(buffer, Stray)
  /\ strays' = strays + 1
  /\ UNCHANGED <<kind, at, mu, server, stream, ended, got, abandoned, overlapped, torn>>

\* By the server, or by the client's timeout.
StreamEnds(c) ==
  /\ stream[c] \in {"open", "answered"}
  /\ stream' = [stream EXCEPT ![c] = "ended"]
  /\ UNCHANGED <<kind, at, mu, server, buffer, ended, got, ghosts>>

Take(c) ==
  /\ kind = "http" /\ at[c] = "receiving" /\ buffer # <<>>
  /\ Return(c, Head(buffer))
  /\ buffer' = Tail(buffer)
  /\ UNCHANGED <<kind, mu, server, stream, ended, ghosts>>

\* After 30 seconds; nothing is done about the answer.
Timeout(c) ==
  /\ kind = "http" /\ at[c] = "receiving"
  /\ abandoned' = abandoned \cup {c}
  /\ Go(c, "failed")
  /\ UNCHANGED <<kind, mu, server, buffer, stream, ended, got, strays, overlapped, torn>>

(***************************************************************************)
(* The notification at the end of the handshake.  Over HTTP its reply is   *)
(* read like any other: an event stream is left to itself, a JSON text is  *)
(* queued, and an empty reply or another status is an error.               *)
(***************************************************************************)
Acknowledge ==
  /\ at[Hello] = "greeted"
  /\ \/ Go(Hello, "done")
     \/ (kind = "http" \/ ended) /\ Go(Hello, "failed")
  /\ UNCHANGED <<kind, mu, server, buffer, stream, ended, got, ghosts>>

ReplyComes ==
  /\ at[Hello] = "greeted" /\ kind = "http" /\ strays < MaxStrays
  /\ strays' = strays + 1
  /\ Go(Hello, "replied")
  /\ UNCHANGED <<kind, mu, server, buffer, stream, ended, got, abandoned, overlapped, torn>>

QueueReply ==
  /\ at[Hello] = "replied" /\ ~Full
  /\ buffer' = Append(buffer, Stray)
  /\ Go(Hello, "done")
  /\ UNCHANGED <<kind, mu, server, stream, ended, got, ghosts>>

-----------------------------------------------------------------------------
StdioStep(c) == Write(c) \/ ReadLine(c) \/ ReadTorn(c) \/ ReadEnd(c)

HttpStep(c) ==
  \/ Post(c) \/ PostReplies(c) \/ PostStreams(c) \/ PostFails(c) \/ Queue(c)
  \/ Take(c) \/ Timeout(c)

HandshakeStep == Acknowledge \/ ReplyComes \/ QueueReply

ServerStep ==
  \/ Notify \/ End
  \/ \E c \in Calls : Answer(c) \/ Event(c) \/ StrayEvent(c) \/ StreamEnds(c)

Next ==
  \/ \E c \in Calls : Begin(c) \/ StdioStep(c) \/ HttpStep(c)
  \/ HandshakeStep
  \/ ServerStep

\* The steps of a call: the mutex is fair, and http.Client and Receive have
\* timeouts.  External: a subprocess that goes on answers in the end.
Fairness ==
  /\ \A c \in Calls : WF_vars(StdioStep(c)) /\ WF_vars(HttpStep(c)) /\ WF_vars(Answer(c))
  /\ WF_vars(HandshakeStep)

Spec == Init /\ [][Next]_vars /\ Fairness

-----------------------------------------------------------------------------
Places ==
  {"idle", "sending", "posting", "queueing", "receiving", "greeted", "replied"} \cup Over

TypeOK ==
  /\ kind \in {"stdio", "http"}
  /\ at \in [Calls -> Places]
  /\ mu \in Calls \cup {None}
  /\ server \in SUBSET Calls
  /\ buffer \in Seq(Calls \cup {Stray})
  /\ stream \in [Calls -> {"none", "open", "answered", "ended"}]
  /\ ended \in BOOLEAN
  /\ got \in [Calls -> Calls \cup {None}]
  /\ strays \in Nat /\ abandoned \in SUBSET Calls
  /\ overlapped \in BOOLEAN /\ torn \in BOOLEAN

\* A call returns the answer to its own request as long as calls are made one at
\* a time, every message of the server answers a call, and no call has given up
\* waiting for its answer.
AnswersMatch ==
  strays = 0 /\ abandoned = {} /\ ~overlapped => \A c \in Calls : got[c] \in {None, c}

\* Whoever gets it, no answer is delivered twice, unless two calls have read
\* from the pipe at once.
AnsweredOnce ==
  ~torn => \A c, d \in Calls : c # d /\ got[c] # None => got[c] # got[d]

\* What is to be queued yet: the answers of open streams, a reply to a notification.
Open == {c \in Calls : stream[c] = "open"}
Owed == Cardinality(Open) + (IF at[Hello] = "replied" THEN 1 ELSE 0)

\* The channel never holds more than the calls that wait, or have given up, and
\* the strays account for: so Send can be blocked for good only when that many
\* calls have given up or messages were strays as the channel has places.
BufferAccounted ==
  kind = "http" =>
    Len(buffer) + Owed <= strays + Cardinality(abandoned) + Cardinality(Receiving)

\* What the two transports use, and what a call has before its request is sent.
Unsent(c) == at[c] \in {"idle", "sending", "posting", "queueing"}

TransportInv ==
  /\ kind = "http" => server = {}
  /\ kind = "stdio" => \A c \in Calls : stream[c] = "none" /\ at[c] \notin {"posting", "queueing"}
  /\ \A c \in Calls : Unsent(c) => stream[c] = "none" /\ c \notin server
  /\ \A c \in abandoned : at[c] = "failed"
  /\ at[Hello] = "replied" => strays > 0

\* An answer is in one place: still to come, in the buffer, or returned.
ToCome(c)   == Unsent(c) \/ c \in server \/ stream[c] = "open"
Buffered(c) == \E i \in DOMAIN buffer : buffer[i] = c

PlaceInv ==
  ~torn => \A c \in Calls :
    /\ ToCome(c) => ~Buffered(c)
    /\ ToCome(c) \/ Buffered(c) => \A d \in Calls : got[d] # c
    /\ \A i, j \in DOMAIN buffer : buffer[i] = c /\ buffer[j] = c => i = j

\* While calls are made one at a time, what is on its way is for the one that
\* waits.
OrderInv ==
  ~overlapped =>
    /\ \A c, d \in Active : c = d
    /\ ~torn
    /\ strays = 0 /\ abandoned = {} =>
         /\ \A i \in DOMAIN buffer : buffer[i] \in Receiving
         /\ \A c \in Calls : (c \in server /\ ~ended) \/ stream[c] = "open" => c \in Receiving

\* Only the handshake waits for a reply to its notification, over HTTP only; and
\* the mutex is held by the one Send that is on its way.
MutexInv ==
  /\ \A c \in Calls : at[c] \in {"greeted", "replied"} => c = Hello
  /\ at[Hello] = "replied" => kind = "http"
  /\ mu = None \/ at[mu] \in {"posting", "queueing"}
  /\ \A c \in Calls : at[c] \in {"posting", "queueing"} => mu = c

\* Each call that reads from the pipe has a line in it, or one to come.
LinesInv ==
  kind = "stdio" /\ ~ended /\ ~torn =>
    Cardinality(Receiving) <= Len(buffer) + Cardinality(server)

\* The inductive invariant of the client.
McpInv ==
  /\ TypeOK /\ AnswersMatch /\ AnsweredOnce /\ BufferAccounted
  /\ TransportInv /\ PlaceInv /\ OrderInv /\ MutexInv /\ LinesInv

\* Send waits for a place in a channel that nobody receives from, with the mutex
\* locked.
Clogged == Full /\ Receiving = {} /\ \E c \in Calls : at[c] \in {"queueing", "replied"}

\* Every call returns, unless the channel is clogged by what nobody has received,
\* or calls that read at the same time have lost a line.
CallsEnd ==
  \A c \in Calls : c \in Active ~> (at[c] \in Over \/ Clogged \/ torn)
=============================================================================
