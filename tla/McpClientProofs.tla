---------------------------- MODULE McpClientProofs ----------------------------
(***************************************************************************)
(* Proofs about the MCP client, for any number of calls and strays and any *)
(* capacity of the channel: McpInv is inductive, and as long as a call is  *)
(* on its way somebody can go on, but for the two ways to clog.            *)
(***************************************************************************)
EXTENDS McpClient, FiniteSetTheorems, SequenceTheorems, TLAPS

USE McpClientAssumption

Messages == Calls \cup {Stray}

\* A message at the end of the buffer.
LEMMA AppendMessage ==
  ASSUME NEW b \in Seq(Messages), NEW m \in Messages
  PROVE  /\ Append(b, m) \in Seq(Messages) /\ Len(Append(b, m)) = Len(b) + 1
         /\ DOMAIN Append(b, m) = 1 .. Len(b) + 1 /\ DOMAIN b = 1 .. Len(b) /\ Len(b) \in Nat
         /\ \A i \in 1 .. Len(b) : Append(b, m)[i] = b[i]
         /\ Append(b, m)[Len(b) + 1] = m
BY AppendProperties, LenProperties

\* A message taken from the front of it.
LEMMA TakeMessage ==
  ASSUME NEW b \in Seq(Messages), b # <<>>
  PROVE  /\ Head(b) \in Messages /\ Tail(b) \in Seq(Messages)
         /\ Len(b) \in Nat /\ Len(b) > 0 /\ Len(Tail(b)) = Len(b) - 1
         /\ DOMAIN b = 1 .. Len(b) /\ DOMAIN Tail(b) = 1 .. Len(b) - 1
         /\ Head(b) = b[1]
         /\ \A i \in 1 .. Len(b) - 1 : i + 1 \in 1 .. Len(b) /\ Tail(b)[i] = b[i + 1]
<1>1. Head(b) \in Messages /\ Tail(b) \in Seq(Messages) /\ Len(Tail(b)) = Len(b) - 1
      /\ \A i \in 1 .. Len(Tail(b)) : Tail(b)[i] = b[i + 1]
  BY HeadTailProperties
<1>2. Len(b) \in Nat /\ Len(b) > 0 /\ DOMAIN b = 1 .. Len(b) /\ DOMAIN Tail(b) = 1 .. Len(b) - 1
  BY <1>1, LenProperties, EmptySeq
<1> QED
  BY <1>1, <1>2

(***************************************************************************)
(* Types.                                                                  *)
(***************************************************************************)
LEMMA McpInitInv == Init => McpInv
<1> SUFFICES ASSUME Init
             PROVE  McpInv
  OBVIOUS
<1>1. TypeOK
  <2>1. ended \in BOOLEAN /\ overlapped \in BOOLEAN /\ torn \in BOOLEAN
    BY Zenon DEF Init
  <2>2. /\ kind \in {"stdio", "http"} /\ mu \in Calls \cup {None} /\ server \in SUBSET Calls
        /\ buffer \in Seq(Calls \cup {Stray}) /\ strays \in Nat /\ abandoned \in SUBSET Calls
    BY DEF Init
  <2>3. /\ at \in [Calls -> Places] /\ got \in [Calls -> Calls \cup {None}]
        /\ stream \in [Calls -> {"none", "open", "answered", "ended"}]
    BY DEF Init, Places, Over
  <2> QED
    BY <2>1, <2>2, <2>3 DEF TypeOK
<1>2. Open = {} /\ Receiving = {} /\ Active = {} /\ DOMAIN buffer = {} /\ Len(buffer) = 0
  BY DEF Init, Open, Receiving, Active, Over
<1>3. AnswersMatch /\ AnsweredOnce /\ TransportInv /\ PlaceInv /\ OrderInv /\ MutexInv
  BY <1>2 DEF Init, AnswersMatch, AnsweredOnce, TransportInv, PlaceInv, OrderInv, MutexInv, Buffered
<1>4. BufferAccounted
  <2>1. Owed = 0 /\ strays = 0 /\ abandoned = {}
    BY <1>2, FS_EmptySet DEF Init, Owed
  <2> QED
    BY <1>2, <2>1, FS_EmptySet DEF BufferAccounted
<1>5. LinesInv
  BY <1>2, FS_EmptySet DEF Init, LinesInv
<1> QED
  BY <1>1, <1>3, <1>4, <1>5 DEF McpInv

LEMMA TypeStep == TypeOK /\ [Next]_vars => TypeOK'
<1> SUFFICES ASSUME TypeOK, [Next]_vars
             PROVE  TypeOK'
  OBVIOUS
<1> USE DEF TypeOK, Places, Over, Go, ghosts
<1>0. buffer \in Seq(Messages) /\ \A s : s \in Seq(Messages) => s \in Seq(Calls \cup {Stray})
  BY DEF Messages
<1>1. ASSUME NEW m \in Messages
      PROVE  Append(buffer, m) \in Seq(Calls \cup {Stray})
  BY <1>0, AppendMessage
<1>2. buffer # <<>> => Head(buffer) \in Calls \cup {Stray} /\ Tail(buffer) \in Seq(Calls \cup {Stray})
  BY <1>0, TakeMessage DEF Messages
<1>3. ASSUME NEW c \in Calls, NEW m \in Calls \cup {Stray}, Return(c, m)
      PROVE  at' \in [Calls -> Places] /\ got' \in [Calls -> Calls \cup {None}]
  BY <1>3 DEF Return
<1>4. Stray \in Messages /\ \A c \in Calls : c \in Messages
  BY DEF Messages
<1> HIDE DEF Places
<1>5. \A place \in {"done", "failed", "sending", "posting", "queueing", "receiving", "greeted", "replied"} :
        place \in Places
  BY DEF Places
<1>a. ASSUME NEW c \in Calls, Begin(c)
      PROVE  TypeOK'
  BY <1>a, <1>5 DEF Begin
<1>b. ASSUME NEW c \in Calls, StdioStep(c)
      PROVE  TypeOK'
  <2>1. CASE Write(c)
    BY <2>1, <1>5 DEF Write
  <2>2. CASE ReadLine(c)
    BY <2>2, <1>2, <1>3 DEF ReadLine
  <2>3. CASE ReadTorn(c)
    BY <2>3, <1>2, <1>3 DEF ReadTorn
  <2>4. CASE ReadEnd(c)
    BY <2>4, <1>5 DEF ReadEnd
  <2> QED
    BY <1>b, <2>1, <2>2, <2>3, <2>4 DEF StdioStep
<1>c. ASSUME NEW c \in Calls, HttpStep(c)
      PROVE  TypeOK'
  <2>1. CASE Post(c) \/ PostReplies(c) \/ PostStreams(c) \/ PostFails(c)
    BY <2>1, <1>5 DEF Post, PostReplies, PostStreams, PostFails
  <2>2. CASE Queue(c)
    BY <2>2, <1>1, <1>4, <1>5 DEF Queue
  <2>3. CASE Take(c)
    BY <2>3, <1>2, <1>3 DEF Take
  <2>4. CASE Timeout(c)
    BY <2>4, <1>5 DEF Timeout
  <2> QED
    BY <1>c, <2>1, <2>2, <2>3, <2>4 DEF HttpStep
<1>d. CASE HandshakeStep
  <2>1. CASE Acknowledge
    BY <2>1, <1>5 DEF Acknowledge
  <2>2. CASE ReplyComes
    BY <2>2, <1>5 DEF ReplyComes
  <2>3. CASE QueueReply
    BY <2>3, <1>1, <1>4, <1>5 DEF QueueReply
  <2> QED
    BY <1>d, <2>1, <2>2, <2>3 DEF HandshakeStep
<1>e. CASE Notify \/ End
  <2>1. CASE Notify
    BY <2>1, <1>1, <1>4 DEF Notify
  <2>2. CASE End
    <3>1. ended' \in BOOLEAN
      BY <2>2, Zenon DEF End
    <3>2. buffer' \in Seq(Calls \cup {Stray})
      <4>1. <<>> \in Seq(Calls \cup {Stray})
        BY EmptySeq
      <4>2. buffer' = buffer \/ buffer' = <<>>
        BY <2>2, Zenon DEF End
      <4> QED
        BY <4>1, <4>2, Zenon
    <3>3. UNCHANGED <<kind, at, mu, server, stream, got, strays, abandoned, overlapped, torn>>
      BY <2>2 DEF End
    <3> QED
      BY <3>1, <3>2, <3>3
  <2> QED
    BY <1>e, <2>1, <2>2
<1>f. ASSUME NEW c \in Calls, Answer(c) \/ Event(c) \/ StrayEvent(c) \/ StreamEnds(c)
      PROVE  TypeOK'
  <2>1. CASE Answer(c)
    BY <2>1, <1>1, <1>4 DEF Answer
  <2>2. CASE Event(c)
    BY <2>2, <1>1, <1>4 DEF Event
  <2>3. CASE StrayEvent(c)
    BY <2>3, <1>1, <1>4 DEF StrayEvent
  <2>4. CASE StreamEnds(c)
    BY <2>4 DEF StreamEnds
  <2> QED
    BY <1>f, <2>1, <2>2, <2>3, <2>4
<1>g. CASE UNCHANGED vars
  BY <1>g DEF vars
<1> QED
  BY <1>a, <1>b, <1>c, <1>d, <1>e, <1>f, <1>g DEF Next, ServerStep

(***************************************************************************)
(* What the transports use.                                                *)
(***************************************************************************)
LEMMA TransportStep == TypeOK /\ TransportInv /\ [Next]_vars => TransportInv'
<1> SUFFICES ASSUME TypeOK, TransportInv, [Next]_vars
             PROVE  TransportInv'
  OBVIOUS
<1> USE DEF TransportInv, Unsent, Go, ghosts
<1>0. at \in [Calls -> Places] /\ stream \in [Calls -> {"none", "open", "answered", "ended"}]
      /\ kind \in {"stdio", "http"} /\ abandoned \subseteq Calls /\ strays \in Nat
  BY DEF TypeOK
<1>1. ASSUME NEW c \in Calls, NEW m, Return(c, m)
      PROVE  \E place \in {"done", "failed", "greeted"} : at' = [at EXCEPT ![c] = place]
  BY <1>1 DEF Return
<1>a. ASSUME NEW c \in Calls, Begin(c)
      PROVE  TransportInv'
  BY <1>a, <1>0 DEF Begin
<1>b. ASSUME NEW c \in Calls, StdioStep(c)
      PROVE  TransportInv'
  <2>1. CASE Write(c)
    BY <2>1, <1>0 DEF Write
  <2>2. CASE ReadLine(c)
    BY <2>2, <1>0, <1>1 DEF ReadLine
  <2>3. CASE ReadTorn(c)
    <3>1. UNCHANGED at \/ \E place \in {"done", "failed", "greeted"} : at' = [at EXCEPT ![c] = place]
      BY <2>3, <1>1 DEF ReadTorn
    <3> QED
      BY <2>3, <3>1, <1>0 DEF ReadTorn
  <2>4. CASE ReadEnd(c)
    BY <2>4, <1>0 DEF ReadEnd
  <2> QED
    BY <1>b, <2>1, <2>2, <2>3, <2>4 DEF StdioStep
<1>c. ASSUME NEW c \in Calls, HttpStep(c)
      PROVE  TransportInv'
  <2>1. CASE Post(c) \/ PostReplies(c)
    BY <2>1, <1>0 DEF Post, PostReplies
  <2>2. CASE PostStreams(c) \/ PostFails(c)
    BY <2>2, <1>0 DEF PostStreams, PostFails
  <2>3. CASE Queue(c)
    BY <2>3, <1>0 DEF Queue
  <2>4. CASE Take(c)
    BY <2>4, <1>0, <1>1 DEF Take
  <2>5. CASE Timeout(c)
    BY <2>5, <1>0 DEF Timeout
  <2> QED
    BY <1>c, <2>1, <2>2, <2>3, <2>4, <2>5 DEF HttpStep
<1>d. CASE HandshakeStep
  <2>1. Hello \in Calls /\ at[Hello] \in {"greeted", "replied"}
    BY <1>d DEF HandshakeStep, Acknowledge, ReplyComes, QueueReply
  <2>2. CASE Acknowledge
    BY <2>1, <2>2, <1>0 DEF Acknowledge
  <2>3. CASE ReplyComes
    BY <2>1, <2>3, <1>0 DEF ReplyComes
  <2>4. CASE QueueReply
    BY <2>1, <2>4, <1>0 DEF QueueReply
  <2> QED
    BY <1>d, <2>2, <2>3, <2>4 DEF HandshakeStep
<1>e. CASE Notify \/ End
  BY <1>e, <1>0 DEF Notify, End
<1>f. ASSUME NEW c \in Calls, Answer(c) \/ Event(c) \/ StrayEvent(c) \/ StreamEnds(c)
      PROVE  TransportInv'
  <2>1. CASE Answer(c)
    BY <2>1, <1>0 DEF Answer
  <2>2. CASE Event(c)
    BY <2>2, <1>0 DEF Event
  <2>3. CASE StrayEvent(c)
    BY <2>3, <1>0 DEF StrayEvent
  <2>4. CASE StreamEnds(c)
    BY <2>4, <1>0 DEF StreamEnds
  <2> QED
    BY <1>f, <2>1, <2>2, <2>3, <2>4
<1>g. CASE UNCHANGED vars
  BY <1>g DEF vars
<1> QED
  BY <1>a, <1>b, <1>c, <1>d, <1>e, <1>f, <1>g DEF Next, ServerStep

(***************************************************************************)
(* The channel is accounted for.                                           *)
(***************************************************************************)
LEMMA Counting ==
  ASSUME NEW S \in SUBSET Calls, NEW c \in Calls
  PROVE  /\ Cardinality(S) \in Nat
         /\ Cardinality(S \cup {c}) = IF c \in S THEN Cardinality(S) ELSE Cardinality(S) + 1
         /\ Cardinality(S \ {c}) = IF c \in S THEN Cardinality(S) - 1 ELSE Cardinality(S)
<1>1. IsFiniteSet(S)
  BY FS_Subset
<1> QED
  BY <1>1, FS_CardinalityType, FS_AddElement, FS_RemoveElement

\* A step of a call changes the set of those that wait by that call at most.
LEMMA ReceivingChanges ==
  ASSUME TypeOK, NEW c \in Calls, NEW place, Go(c, place)
  PROVE  /\ place = "receiving" => Receiving' = Receiving \cup {c}
         /\ place # "receiving" => Receiving' = Receiving \ {c}
BY DEF TypeOK, Go, Receiving

LEMMA BufferStep == TypeOK /\ TransportInv /\ BufferAccounted /\ [Next]_vars => BufferAccounted'
<1> SUFFICES ASSUME TypeOK, TransportInv, BufferAccounted, [Next]_vars, kind' = "http"
             PROVE  (Len(buffer) + Owed <= strays + Cardinality(abandoned) + Cardinality(Receiving))'
  BY DEF BufferAccounted
<1> DEFINE Spare == IF at[Hello] = "replied" THEN 1 ELSE 0
<1>0. /\ buffer \in Seq(Messages) /\ Len(buffer) \in Nat /\ strays \in Nat
      /\ abandoned \in SUBSET Calls /\ Receiving \in SUBSET Calls /\ Open \in SUBSET Calls
      /\ Owed = Cardinality(Open) + Spare /\ Spare \in {0, 1}
      /\ at \in [Calls -> Places] /\ stream \in [Calls -> {"none", "open", "answered", "ended"}]
  BY LenProperties DEF TypeOK, Messages, Receiving, Open, Owed
<1>1. /\ Cardinality(abandoned) \in Nat /\ Cardinality(Receiving) \in Nat /\ Cardinality(Open) \in Nat
  BY <1>0, Counting
<1>2. Hello \in Calls /\ Stray \in Messages /\ \A c \in Calls : c \in Messages
  BY DEF Messages
<1>3. kind = "http"
  BY DEF Next, ServerStep, HandshakeStep, StdioStep, HttpStep, Begin, Write, ReadLine, ReadTorn,
         ReadEnd, Post, PostReplies, PostStreams, PostFails, Queue, Take, Timeout, Acknowledge,
         ReplyComes, QueueReply, Notify, End, Answer, Event, StrayEvent, StreamEnds, vars
<1>4. Len(buffer) + Cardinality(Open) + Spare <= strays + Cardinality(abandoned) + Cardinality(Receiving)
  BY <1>0, <1>1, <1>3 DEF BufferAccounted
<1>5. ASSUME NEW m \in Messages
      PROVE  Len(Append(buffer, m)) = Len(buffer) + 1
  BY <1>0, AppendMessage
<1> DEFINE Goal == (Len(buffer) + Owed <= strays + Cardinality(abandoned) + Cardinality(Receiving))'
<1>6. ASSUME NEW c \in Calls, at' = [at EXCEPT ![c] = "failed"] \/ at' = [at EXCEPT ![c] = "sending"]
                              \/ at' = [at EXCEPT ![c] = "posting"] \/ at' = [at EXCEPT ![c] = "queueing"],
             at[c] # "receiving", UNCHANGED <<buffer, stream, strays, abandoned>>
      PROVE  Goal
  <2>1. Receiving' = Receiving /\ Open' = Open
    BY <1>0, <1>6 DEF Receiving, Open
  <2>2. Spare' \in {0, 1} /\ Spare' <= Spare /\ Owed' = Cardinality(Open') + Spare'
    BY <1>0, <1>2, <1>6 DEF Owed
  <2> QED
    BY <1>0, <1>1, <1>4, <1>6, <2>1, <2>2
<1>a. ASSUME NEW c \in Calls, Begin(c)
      PROVE  Goal
  BY <1>a, <1>6 DEF Begin, Go
<1>b. ASSUME NEW c \in Calls, StdioStep(c)
      PROVE  Goal
  BY <1>b, <1>3 DEF StdioStep, Write, ReadLine, ReadTorn, ReadEnd
<1>c. ASSUME NEW c \in Calls, HttpStep(c)
      PROVE  Goal
  <2>1. CASE Post(c) \/ PostReplies(c) \/ PostFails(c)
    BY <2>1, <1>6 DEF Post, PostReplies, PostFails, Go, ghosts
  <2>2. CASE Queue(c)
    <3>1. Receiving' = Receiving \cup {c} /\ c \notin Receiving /\ Open' = Open
      BY <2>2, ReceivingChanges DEF Queue, Receiving, Open
    <3>2. Spare' = Spare /\ Owed' = Cardinality(Open') + Spare' /\ UNCHANGED <<strays, abandoned>>
      BY <2>2, <1>0, <1>2 DEF Queue, Go, Owed, ghosts
    <3>3. Len(buffer') = Len(buffer) + 1
      BY <2>2, <1>2, <1>5 DEF Queue
    <3>4. Cardinality(Receiving') = Cardinality(Receiving) + 1
      BY <3>1, <1>0, Counting
    <3> QED
      BY <3>1, <3>2, <3>3, <3>4, <1>0, <1>1, <1>4
  <2>3. CASE PostStreams(c)
    <3>1. Receiving' = Receiving \cup {c} /\ c \notin Receiving /\ Open' = Open \cup {c} /\ c \notin Open
      BY <2>3, <1>0, ReceivingChanges DEF PostStreams, Receiving, Open, TransportInv, Unsent
    <3>2. Spare' = Spare /\ Owed' = Cardinality(Open') + Spare' /\ UNCHANGED <<buffer, strays, abandoned>>
      BY <2>3, <1>0, <1>2 DEF PostStreams, Go, Owed, ghosts
    <3>3. Cardinality(Receiving') = Cardinality(Receiving) + 1 /\ Cardinality(Open') = Cardinality(Open) + 1
      BY <3>1, <1>0, Counting
    <3> QED
      BY <3>1, <3>2, <3>3, <1>0, <1>1, <1>4
  <2>4. CASE Take(c)
    <3>1. Go(c, "failed") \/ Go(c, "greeted") \/ Go(c, "done")
      BY <2>4 DEF Take, Return
    <3>2. Receiving' = Receiving \ {c} /\ c \in Receiving /\ Open' = Open
      BY <2>4, <3>1, ReceivingChanges DEF Take, Receiving, Open
    <3>3. Spare' = Spare /\ Owed' = Cardinality(Open') + Spare' /\ UNCHANGED <<strays, abandoned>>
      BY <2>4, <3>1, <1>0, <1>2 DEF Take, Go, Owed, ghosts
    <3>4. Len(buffer') = Len(buffer) - 1
      BY <2>4, <1>0, TakeMessage DEF Take
    <3>5. Cardinality(Receiving') = Cardinality(Receiving) - 1
      BY <3>2, <1>0, Counting
    <3> QED
      BY <3>2, <3>3, <3>4, <3>5, <1>0, <1>1, <1>4
  <2>5. CASE Timeout(c)
    <3>1. /\ Receiving' = Receiving \ {c} /\ c \in Receiving /\ Open' = Open
          /\ abandoned' = abandoned \cup {c} /\ c \notin abandoned
      BY <2>5, ReceivingChanges DEF Timeout, Receiving, Open, TransportInv
    <3>2. Spare' = Spare /\ Owed' = Cardinality(Open') + Spare' /\ UNCHANGED <<buffer, strays>>
      BY <2>5, <1>0, <1>2 DEF Timeout, Go, Owed
    <3>3. /\ Cardinality(Receiving') = Cardinality(Receiving) - 1
          /\ Cardinality(abandoned') = Cardinality(abandoned) + 1
      BY <3>1, <1>0, Counting
    <3> QED
      BY <3>1, <3>2, <3>3, <1>0, <1>1, <1>4
  <2> QED
    BY <1>c, <2>1, <2>2, <2>3, <2>4, <2>5 DEF HttpStep
<1>d. CASE HandshakeStep
  <2>1. at[Hello] \in {"greeted", "replied"}
    BY <1>d DEF HandshakeStep, Acknowledge, ReplyComes, QueueReply
  <2>2. Go(Hello, "done") \/ Go(Hello, "failed") \/ Go(Hello, "replied")
    BY <1>d DEF HandshakeStep, Acknowledge, ReplyComes, QueueReply
  <2>3. Receiving' = Receiving /\ Open' = Open /\ abandoned' = abandoned
    BY <1>d, <1>2, <2>1, <2>2, ReceivingChanges
       DEF HandshakeStep, Acknowledge, ReplyComes, QueueReply, Receiving, Open, ghosts
  <2>4. Owed' = Cardinality(Open) + Spare'
    BY <2>3 DEF Owed
  <2>5. CASE Acknowledge
    <3>1. Spare' = 0 /\ UNCHANGED <<buffer, strays>>
      BY <2>5, <1>0, <1>2 DEF Acknowledge, Go, ghosts
    <3> QED
      BY <2>3, <2>4, <3>1, <1>0, <1>1, <1>4
  <2>6. CASE ReplyComes
    <3>1. Spare = 0 /\ Spare' = 1 /\ buffer' = buffer /\ strays' = strays + 1
      BY <2>6, <1>0, <1>2 DEF ReplyComes, Go
    <3> QED
      BY <2>3, <2>4, <3>1, <1>0, <1>1, <1>4
  <2>7. CASE QueueReply
    <3>1. Spare = 1 /\ Spare' = 0 /\ Len(buffer') = Len(buffer) + 1 /\ strays' = strays
      BY <2>7, <1>0, <1>2, <1>5 DEF QueueReply, Go, ghosts
    <3> QED
      BY <2>3, <2>4, <3>1, <1>0, <1>1, <1>4
  <2> QED
    BY <1>d, <2>5, <2>6, <2>7 DEF HandshakeStep
<1>e. CASE Notify \/ End
  BY <1>e, <1>3 DEF Notify, End
<1>f. ASSUME NEW c \in Calls, Answer(c) \/ Event(c) \/ StrayEvent(c) \/ StreamEnds(c)
      PROVE  Goal
  <2>1. Receiving' = Receiving /\ abandoned' = abandoned /\ Spare' = Spare
        /\ Owed' = Cardinality(Open') + Spare'
    BY <1>f DEF Answer, Event, StrayEvent, StreamEnds, Receiving, Owed, ghosts
  <2>2. CASE Answer(c)
    BY <2>2, <1>3 DEF Answer, TransportInv
  <2>3. CASE Event(c)
    <3>1. Open' = Open \ {c} /\ c \in Open /\ strays' = strays /\ Len(buffer') = Len(buffer) + 1
      BY <2>3, <1>0, <1>2, <1>5 DEF Event, Open, ghosts
    <3>2. Cardinality(Open') = Cardinality(Open) - 1
      BY <3>1, <1>0, Counting
    <3> QED
      BY <2>1, <3>1, <3>2, <1>0, <1>1, <1>4
  <2>4. CASE StrayEvent(c)
    <3>1. Open' = Open /\ strays' = strays + 1 /\ Len(buffer') = Len(buffer) + 1
      BY <2>4, <1>2, <1>5 DEF StrayEvent, Open
    <3> QED
      BY <2>1, <3>1, <1>0, <1>1, <1>4
  <2>5. CASE StreamEnds(c)
    <3>1. Open' = Open \ {c} /\ strays' = strays /\ buffer' = buffer
      BY <2>5, <1>0 DEF StreamEnds, Open, ghosts
    <3>2. Cardinality(Open \ {c}) = Cardinality(Open) - 1 \/ Cardinality(Open \ {c}) = Cardinality(Open)
      BY <1>0, Counting
    <3> QED
      BY <2>1, <3>1, <3>2, <1>0, <1>1, <1>4
  <2> QED
    BY <1>f, <2>2, <2>3, <2>4, <2>5
<1>g. CASE UNCHANGED vars
  <2>1. Owed' = Owed /\ Receiving' = Receiving /\ UNCHANGED <<buffer, strays, abandoned>>
    BY <1>g DEF vars, ghosts, Owed, Open, Receiving
  <2> QED
    BY <2>1, <1>3 DEF BufferAccounted
<1> QED
  BY <1>a, <1>b, <1>c, <1>d, <1>e, <1>f, <1>g DEF Next, ServerStep

(***************************************************************************)
(* An answer is in one place, and is returned once.                        *)
(***************************************************************************)
\* Nothing happens to the answers in the buffer and to those returned, and no
\* answer is to come that was not before.
LEMMA PlacesKept ==
  ASSUME PlaceInv, AnsweredOnce, torn' = torn, got' = got,
         \/ buffer' = buffer
         \/ buffer' = <<>>,
         \A c \in Calls : ToCome(c)' => ToCome(c)
  PROVE  PlaceInv' /\ AnsweredOnce'
<1>1. CASE buffer' = buffer
  <2>1. \A c \in Calls : Buffered(c)' = Buffered(c)
    BY <1>1 DEF Buffered
  <2> HIDE DEF Buffered, ToCome
  <2> QED
    BY <1>1, <2>1 DEF PlaceInv, AnsweredOnce
<1>2. CASE buffer' = <<>>
  <2>1. DOMAIN buffer' = {}
    BY <1>2
  <2>2. \A c \in Calls : ~Buffered(c)'
    BY <2>1 DEF Buffered
  <2> QED
    BY <2>1, <2>2 DEF PlaceInv, AnsweredOnce
<1> QED
  BY <1>1, <1>2

\* The answer to a call is put into the buffer, and was to come.
LEMMA PlaceFilled ==
  ASSUME TypeOK, PlaceInv, AnsweredOnce, torn' = torn, got' = got, NEW m \in Messages,
         buffer' = Append(buffer, m),
         m \in Calls => ToCome(m) /\ ~ToCome(m)',
         \A c \in Calls : ToCome(c)' => ToCome(c)
  PROVE  PlaceInv' /\ AnsweredOnce'
<1>0. buffer \in Seq(Messages)
  BY DEF TypeOK, Messages
<1>1. /\ DOMAIN buffer' = 1 .. Len(buffer) + 1 /\ DOMAIN buffer = 1 .. Len(buffer) /\ Len(buffer) \in Nat
      /\ \A i \in 1 .. Len(buffer) : buffer'[i] = buffer[i]
      /\ buffer'[Len(buffer) + 1] = m
  BY <1>0, AppendMessage
<1>2. \A c \in Calls : Buffered(c)' <=> Buffered(c) \/ c = m
  BY <1>1 DEF Buffered
<1>3. ASSUME ~torn, NEW c \in Calls
      PROVE  \A i, j \in DOMAIN buffer' : buffer'[i] = c /\ buffer'[j] = c => i = j
  <2>1. c = m => \A i \in 1 .. Len(buffer) : buffer[i] # c
    BY <1>1, <1>3 DEF PlaceInv, Buffered
  <2>2. \A i, j \in 1 .. Len(buffer) : buffer[i] = c /\ buffer[j] = c => i = j
    BY <1>1, <1>3 DEF PlaceInv
  <2> QED
    BY <1>1, <2>1, <2>2
<1>4. ASSUME ~torn, NEW c \in Calls
      PROVE  /\ ToCome(c)' => ~Buffered(c)'
             /\ ToCome(c)' \/ Buffered(c)' => \A d \in Calls : got'[d] # c
  <2> HIDE DEF ToCome, Buffered
  <2> QED
    BY <1>2, <1>4 DEF PlaceInv
<1> QED
  BY <1>3, <1>4 DEF PlaceInv, AnsweredOnce

\* A call takes the message at the front of the buffer.
LEMMA PlaceTaken ==
  ASSUME TypeOK, PlaceInv, AnsweredOnce, torn' = torn, NEW d \in Calls, buffer # <<>>,
         buffer' = Tail(buffer),
         got' = [got EXCEPT ![d] = IF Head(buffer) = Stray THEN None ELSE Head(buffer)],
         \A c \in Calls : ToCome(c)' => ToCome(c)
  PROVE  PlaceInv' /\ AnsweredOnce'
<1>0. buffer \in Seq(Messages) /\ got \in [Calls -> Calls \cup {None}] /\ None \notin Calls /\ Stray \notin Calls
  BY DEF TypeOK, Messages
<1>1. /\ Head(buffer) \in Messages /\ Len(buffer) \in Nat /\ Len(buffer) > 0
      /\ DOMAIN buffer = 1 .. Len(buffer) /\ DOMAIN buffer' = 1 .. Len(buffer) - 1
      /\ Head(buffer) = buffer[1] /\ 1 \in DOMAIN buffer
      /\ \A i \in 1 .. Len(buffer) - 1 : i + 1 \in 1 .. Len(buffer) /\ buffer'[i] = buffer[i + 1]
  BY <1>0, TakeMessage
<1>2. \A c \in Calls : Buffered(c)' => Buffered(c)
  BY <1>1 DEF Buffered
<1>3. ASSUME ~torn, NEW c \in Calls, Head(buffer) = c
      PROVE  ~Buffered(c)' /\ ~ToCome(c) /\ \A e \in Calls : got[e] # c
  <2>1. Buffered(c)
    BY <1>1, <1>3 DEF Buffered
  <2>2. ASSUME NEW i \in 1 .. Len(buffer) - 1
        PROVE  buffer'[i] # c
    <3>1. i + 1 \in DOMAIN buffer /\ i + 1 # 1 /\ buffer'[i] = buffer[i + 1]
      BY <1>1, <2>2
    <3> QED
      BY <3>1, <1>1, <1>3 DEF PlaceInv
  <2>3. ~Buffered(c)'
    BY <1>1, <2>2 DEF Buffered
  <2>4. ~ToCome(c) /\ \A e \in Calls : got[e] # c
    <3> HIDE DEF ToCome, Buffered
    <3> QED
      BY <1>3, <2>1 DEF PlaceInv
  <2> QED
    BY <2>3, <2>4
<1>4. ASSUME ~torn, NEW c \in Calls
      PROVE  \A i, j \in DOMAIN buffer' : buffer'[i] = c /\ buffer'[j] = c => i = j
  <2>1. \A i, j \in DOMAIN buffer : buffer[i] = c /\ buffer[j] = c => i = j
    BY <1>4 DEF PlaceInv
  <2> SUFFICES ASSUME NEW i \in DOMAIN buffer', NEW j \in DOMAIN buffer',
                      buffer'[i] = c, buffer'[j] = c
               PROVE  i = j
    OBVIOUS
  <2>2. i + 1 = j + 1
    BY <1>1, <2>1
  <2> QED
    BY <1>1, <2>2
<1>5. \A e \in Calls : got'[e] = IF e = d THEN (IF Head(buffer) = Stray THEN None ELSE Head(buffer)) ELSE got[e]
  BY <1>0
<1>6. ASSUME ~torn, NEW c \in Calls
      PROVE  /\ ToCome(c)' => ~Buffered(c)'
             /\ ToCome(c)' \/ Buffered(c)' => \A e \in Calls : got'[e] # c
  <2>1. ToCome(c)' => ToCome(c)
    OBVIOUS
  <2>2. /\ ToCome(c) => ~Buffered(c)
        /\ ToCome(c) \/ Buffered(c) => \A e \in Calls : got[e] # c
    BY <1>6 DEF PlaceInv
  <2>3. Head(buffer) = c => ~Buffered(c)' /\ ~ToCome(c)
    BY <1>3, <1>6
  <2> HIDE DEF ToCome, Buffered
  <2>4. ToCome(c)' \/ Buffered(c)' => Head(buffer) # c /\ \A e \in Calls : got[e] # c
    BY <1>2, <2>1, <2>2, <2>3
  <2>5. ToCome(c)' \/ Buffered(c)' => \A e \in Calls : got'[e] # c
    BY <1>0, <1>5, <2>4
  <2> QED
    BY <1>2, <2>1, <2>2, <2>5
<1>7. PlaceInv'
  BY <1>4, <1>6 DEF PlaceInv
<1>8. AnsweredOnce'
  <2> SUFFICES ASSUME ~torn, NEW c \in Calls, NEW e \in Calls, c # e, got'[c] # None
               PROVE  got'[c] # got'[e]
    BY DEF AnsweredOnce
  <2>1. \A x \in Calls : Head(buffer) = x => \A y \in Calls : got[y] # x
    BY <1>3
  <2>2. got[c] # None /\ c # e => got[c] # got[e]
    BY DEF AnsweredOnce
  <2>3. CASE c = d
    <3>1. Head(buffer) # Stray /\ got'[c] = Head(buffer) /\ got'[e] = got[e]
      BY <1>5, <2>3
    <3>2. Head(buffer) \in Calls
      BY <1>1, <3>1 DEF Messages
    <3> QED
      BY <2>1, <3>1, <3>2
  <2>4. CASE c # d
    <3>1. got'[c] = got[c] /\ got[c] \in Calls
      BY <1>0, <1>5, <2>4
    <3>2. e # d => got'[e] = got[e]
      BY <1>5
    <3>3. e = d => got'[e] = None \/ got'[e] = Head(buffer)
      BY <1>5
    <3>4. Head(buffer) = got[c] => FALSE
      BY <2>1, <3>1
    <3> QED
      BY <1>0, <2>2, <3>1, <3>2, <3>3, <3>4
  <2> QED
    BY <2>3, <2>4
<1> QED
  BY <1>7, <1>8

LEMMA PlaceStep ==
  TypeOK /\ TransportInv /\ PlaceInv /\ AnsweredOnce /\ [Next]_vars => PlaceInv' /\ AnsweredOnce'
<1> SUFFICES ASSUME TypeOK, TransportInv, PlaceInv, AnsweredOnce, [Next]_vars
             PROVE  PlaceInv' /\ AnsweredOnce'
  OBVIOUS
<1> USE DEF Go, ghosts
<1>0. /\ at \in [Calls -> Places] /\ stream \in [Calls -> {"none", "open", "answered", "ended"}]
      /\ Stray \in Messages /\ Stray \notin Calls /\ \A c \in Calls : c \in Messages
  BY DEF TypeOK, Messages
<1>1. ASSUME NEW c \in Calls, NEW m, Return(c, m)
      PROVE  /\ \A d \in Calls : Unsent(d)' => Unsent(d)
             /\ got' = [got EXCEPT ![c] = IF m = Stray THEN None ELSE m]
  BY <1>1, <1>0 DEF Return, Unsent
<1>2. CASE torn'
  BY <1>2 DEF PlaceInv, AnsweredOnce
<1>a. ASSUME NEW c \in Calls, Begin(c)
      PROVE  PlaceInv' /\ AnsweredOnce'
  <2>1. \A d \in Calls : ToCome(d)' => ToCome(d)
    BY <1>a, <1>0 DEF Begin, ToCome, Unsent
  <2> QED
    BY <1>a, <2>1, PlacesKept DEF Begin
<1>b. ASSUME NEW c \in Calls, StdioStep(c)
      PROVE  PlaceInv' /\ AnsweredOnce'
  <2>1. CASE Write(c)
    <3>1. \A d \in Calls : ToCome(d)' => ToCome(d)
      BY <2>1, <1>0 DEF Write, ToCome, Unsent
    <3> QED
      BY <2>1, <3>1, PlacesKept DEF Write
  <2>2. CASE ReadLine(c)
    <3>1. \A d \in Calls : ToCome(d)' => ToCome(d)
      BY <2>2, <1>1 DEF ReadLine, ToCome
    <3> QED
      BY <2>2, <3>1, <1>1, PlaceTaken DEF ReadLine
  <2>3. CASE ReadTorn(c)
    BY <2>3, <1>2 DEF ReadTorn
  <2>4. CASE ReadEnd(c)
    <3>1. \A d \in Calls : ToCome(d)' => ToCome(d)
      BY <2>4, <1>0 DEF ReadEnd, ToCome, Unsent
    <3> QED
      BY <2>4, <3>1, PlacesKept DEF ReadEnd
  <2> QED
    BY <1>b, <2>1, <2>2, <2>3, <2>4 DEF StdioStep
<1>c. ASSUME NEW c \in Calls, HttpStep(c)
      PROVE  PlaceInv' /\ AnsweredOnce'
  <2>1. CASE Post(c) \/ PostReplies(c) \/ PostStreams(c) \/ PostFails(c) \/ Timeout(c)
    <3>1. \A d \in Calls : ToCome(d)' => ToCome(d)
      BY <2>1, <1>0 DEF Post, PostReplies, PostStreams, PostFails, Timeout, ToCome, Unsent
    <3>2. UNCHANGED <<torn, got, buffer>>
      BY <2>1 DEF Post, PostReplies, PostStreams, PostFails, Timeout
    <3> QED
      BY <3>1, <3>2, PlacesKept
  <2>2. CASE Queue(c)
    <3>1. \A d \in Calls : ToCome(d)' => ToCome(d)
      BY <2>2, <1>0 DEF Queue, ToCome, Unsent
    <3>2. ToCome(c) /\ ~ToCome(c)'
      BY <2>2, <1>0 DEF Queue, ToCome, Unsent, TransportInv
    <3> QED
      BY <2>2, <3>1, <3>2, <1>0, PlaceFilled DEF Queue
  <2>3. CASE Take(c)
    <3>1. \A d \in Calls : ToCome(d)' => ToCome(d)
      BY <2>3, <1>1 DEF Take, ToCome
    <3> QED
      BY <2>3, <3>1, <1>1, PlaceTaken DEF Take
  <2> QED
    BY <1>c, <2>1, <2>2, <2>3 DEF HttpStep
<1>d. CASE HandshakeStep
  <2>1. Hello \in Calls /\ at[Hello] \in {"greeted", "replied"}
    BY <1>d DEF HandshakeStep, Acknowledge, ReplyComes, QueueReply
  <2>2. \A d \in Calls : ToCome(d)' => ToCome(d)
    BY <1>d, <2>1, <1>0 DEF HandshakeStep, Acknowledge, ReplyComes, QueueReply, ToCome, Unsent
  <2>3. CASE Acknowledge \/ ReplyComes
    BY <2>2, <2>3, PlacesKept DEF Acknowledge, ReplyComes
  <2>4. CASE QueueReply
    BY <2>2, <2>4, <1>0, PlaceFilled DEF QueueReply
  <2> QED
    BY <1>d, <2>3, <2>4 DEF HandshakeStep
<1>e. CASE Notify \/ End
  <2>1. \A d \in Calls : ToCome(d)' => ToCome(d)
    BY <1>e DEF Notify, End, ToCome, Unsent
  <2>2. CASE Notify
    BY <2>1, <2>2, <1>0, PlaceFilled DEF Notify
  <2>3. CASE End
    <3>1. buffer' = buffer \/ buffer' = <<>>
      BY <2>3, Zenon DEF End
    <3> QED
      BY <2>1, <2>3, <3>1, PlacesKept DEF End
  <2> QED
    BY <1>e, <2>2, <2>3
<1>f. ASSUME NEW c \in Calls, Answer(c) \/ Event(c) \/ StrayEvent(c) \/ StreamEnds(c)
      PROVE  PlaceInv' /\ AnsweredOnce'
  <2>1. \A d \in Calls : ToCome(d)' => ToCome(d)
    BY <1>f, <1>0 DEF Answer, Event, StrayEvent, StreamEnds, ToCome, Unsent
  <2>2. CASE Answer(c)
    <3>1. ToCome(c) /\ ~ToCome(c)'
      BY <2>2, <1>0 DEF Answer, ToCome, Unsent, TransportInv, TypeOK
    <3> QED
      BY <2>1, <2>2, <3>1, <1>0, PlaceFilled DEF Answer
  <2>3. CASE Event(c)
    <3>1. ToCome(c) /\ ~ToCome(c)'
      BY <2>3, <1>0 DEF Event, ToCome, Unsent, TransportInv, TypeOK
    <3> QED
      BY <2>1, <2>3, <3>1, <1>0, PlaceFilled DEF Event
  <2>4. CASE StrayEvent(c)
    BY <2>1, <2>4, <1>0, PlaceFilled DEF StrayEvent
  <2>5. CASE StreamEnds(c)
    BY <2>1, <2>5, PlacesKept DEF StreamEnds
  <2> QED
    BY <1>f, <2>2, <2>3, <2>4, <2>5
<1>g. CASE UNCHANGED vars
  <2>1. \A d \in Calls : ToCome(d)' => ToCome(d)
    BY <1>g DEF vars, ToCome, Unsent
  <2> QED
    BY <1>g, <2>1, PlacesKept DEF vars
<1> QED
  BY <1>a, <1>b, <1>c, <1>d, <1>e, <1>f, <1>g DEF Next, ServerStep

(***************************************************************************)
(* One call at a time.                                                     *)
(***************************************************************************)
\* The call under way, when there is one, and what is in the buffer for it.
LEMMA Alone ==
  ASSUME TypeOK, OrderInv, ~overlapped, NEW c \in Active
  PROVE  /\ Active = {c} /\ Receiving \subseteq {c} /\ ~torn
         /\ strays = 0 /\ abandoned = {} =>
              /\ \A i \in DOMAIN buffer : buffer[i] = c /\ c \in Receiving
              /\ \A d \in Calls : (d \in server /\ ~ended) \/ stream[d] = "open" => d = c
BY DEF OrderInv, Active, Receiving, Over

LEMMA EmptyBuffer == TypeOK /\ DOMAIN buffer = {} => buffer = <<>>
<1> SUFFICES ASSUME TypeOK, DOMAIN buffer = {}
             PROVE  buffer = <<>>
  OBVIOUS
<1>1. buffer \in Seq(Messages)
  BY DEF TypeOK, Messages
<1>2. Len(buffer) \in Nat /\ DOMAIN buffer = 1 .. Len(buffer)
  BY <1>1, LenProperties
<1>3. Len(buffer) = 0
  <2>1. Len(buffer) > 0 => 1 \in 1 .. Len(buffer)
    BY <1>2
  <2> QED
    BY <1>2, <2>1
<1> QED
  BY <1>1, <1>3, EmptySeq

\* The call under way takes the one message there can be: its own answer.
LEMMA TakeOwn ==
  ASSUME TypeOK, TransportInv, PlaceInv, OrderInv, AnswersMatch, NEW c \in Receiving,
         buffer # <<>>, Return(c, Head(buffer)), buffer' = Tail(buffer),
         UNCHANGED <<server, stream, ended, strays, abandoned, overlapped, torn>>
  PROVE  OrderInv' /\ AnswersMatch'
<1> SUFFICES ASSUME ~overlapped
             PROVE  OrderInv' /\ AnswersMatch'
  BY DEF OrderInv, AnswersMatch
<1>0. /\ buffer \in Seq(Messages) /\ at \in [Calls -> Places] /\ got \in [Calls -> Calls \cup {None}]
      /\ c \in Active /\ c \in Calls /\ Stray \notin Calls
  BY DEF TypeOK, Messages, Receiving, Active, Over
<1>1. /\ Active = {c} /\ Receiving = {c} /\ ~torn
      /\ strays = 0 /\ abandoned = {} =>
           /\ \A i \in DOMAIN buffer : buffer[i] = c
           /\ \A d \in Calls : (d \in server /\ ~ended) \/ stream[d] = "open" => d = c
  BY <1>0, Alone
<1>2. /\ DOMAIN buffer = 1 .. Len(buffer) /\ Len(buffer) \in Nat /\ 1 \in DOMAIN buffer
      /\ Head(buffer) = buffer[1] /\ DOMAIN buffer' = 1 .. Len(buffer) - 1
      /\ \A i \in 1 .. Len(buffer) - 1 : i + 1 \in DOMAIN buffer
  BY <1>0, TakeMessage
<1>3. Active' \subseteq {c} /\ ~torn'
  BY <1>0, <1>1 DEF Return, Go, Active, Over
<1>4. ASSUME strays = 0, abandoned = {}
      PROVE  /\ DOMAIN buffer' = {}
             /\ \A d \in Calls : ~((d \in server /\ ~ended) \/ stream[d] = "open")
             /\ \A d \in Calls : got'[d] \in {None, d}
  <2>1. \A i \in DOMAIN buffer : i = 1
    BY <1>1, <1>2, <1>4, <1>0 DEF PlaceInv
  <2>2. DOMAIN buffer' = {}
    <3> SUFFICES ASSUME NEW i \in DOMAIN buffer'
                 PROVE  FALSE
      OBVIOUS
    <3>1. i + 1 = 1 /\ i >= 1
      BY <1>2, <2>1
    <3> QED
      BY <1>2, <3>1
  <2>3. ~ToCome(c)
    BY <1>0, <1>1, <1>2, <1>4 DEF PlaceInv, Buffered
  <2>4. \A d \in Calls : ~((d \in server /\ ~ended) \/ stream[d] = "open")
    BY <1>1, <1>4, <2>3 DEF ToCome
  <2>5. Head(buffer) = c /\ \A d \in Calls : got[d] \in {None, d}
    BY <1>1, <1>2, <1>4 DEF AnswersMatch
  <2>6. \A d \in Calls : got'[d] \in {None, d}
    BY <1>0, <2>5 DEF Return
  <2> QED
    BY <2>2, <2>4, <2>6
<1>5. OrderInv'
  BY <1>3, <1>4 DEF OrderInv
<1>6. AnswersMatch'
  BY <1>4 DEF AnswersMatch
<1> QED
  BY <1>5, <1>6

\* A call that does not wait goes on: nothing is on its way, and nothing is after
\* this step either, or it waits now.
LEMMA GoesOn ==
  ASSUME TypeOK, OrderInv, AnswersMatch, NEW c \in Active, c \notin Receiving,
         NEW place, Go(c, place), got' = got, UNCHANGED <<ended, overlapped, torn>>,
         strays' = strays \/ strays' # 0, abandoned' = abandoned,
         buffer' = buffer \/ (place = "receiving" /\ buffer' = Append(buffer, c)) \/ strays' # 0,
         server' = server \/ (place = "receiving" /\ server' = server \cup {c}),
         stream' = stream \/ (place = "receiving" /\ stream' = [stream EXCEPT ![c] = "open"])
  PROVE  OrderInv' /\ AnswersMatch'
<1> SUFFICES ASSUME ~overlapped
             PROVE  OrderInv' /\ AnswersMatch'
  BY DEF OrderInv, AnswersMatch
<1>0. /\ at \in [Calls -> Places] /\ c \in Calls /\ <<>> \in Seq(Messages) /\ c \in Messages
      /\ stream \in [Calls -> {"none", "open", "answered", "ended"}]
  BY EmptySeq DEF TypeOK, Active, Messages
<1>1. /\ Active = {c} /\ Receiving = {} /\ ~torn
      /\ strays = 0 /\ abandoned = {} =>
           /\ DOMAIN buffer = {}
           /\ \A d \in Calls : ~((d \in server /\ ~ended) \/ stream[d] = "open")
  <2>1. /\ Active = {c} /\ Receiving = {} /\ ~torn
    BY Alone
  <2> QED
    BY <2>1 DEF OrderInv
<1>2. Active' \subseteq {c} /\ ~torn' /\ (place = "receiving" => c \in Receiving')
  BY <1>0, <1>1 DEF Go, Active, Receiving
<1>3. ASSUME strays' = 0, abandoned' = {}
      PROVE  /\ \A i \in DOMAIN buffer' : buffer'[i] \in Receiving'
             /\ \A d \in Calls : (d \in server' /\ ~ended') \/ stream'[d] = "open" => d \in Receiving'
  <2>1. strays = 0 /\ abandoned = {} /\ (buffer' = buffer \/ (place = "receiving" /\ buffer' = Append(buffer, c)))
    BY <1>3
  <2>2. buffer = <<>> /\ DOMAIN buffer = {}
    BY <1>1, <2>1, EmptyBuffer
  <2>3. \A i \in DOMAIN buffer' : buffer'[i] \in Receiving'
    <3>1. CASE buffer' = buffer
      BY <2>2, <3>1
    <3>2. CASE place = "receiving" /\ buffer' = Append(<<>>, c)
      <4>1. DOMAIN buffer' = 1 .. 1 /\ buffer'[1] = c
        BY <3>2, <1>0, AppendMessage, EmptySeq
      <4> QED
        BY <4>1, <3>2, <1>2
    <3> QED
      BY <2>1, <2>2, <3>1, <3>2
  <2>4. \A d \in Calls : (d \in server' /\ ~ended') \/ stream'[d] = "open" => d \in Receiving'
    BY <1>0, <1>1, <1>2, <2>1
  <2> QED
    BY <2>3, <2>4
<1>4. OrderInv'
  BY <1>2, <1>3 DEF OrderInv
<1>5. AnswersMatch'
  BY DEF AnswersMatch
<1> QED
  BY <1>4, <1>5

\* The server answers, or its messages get lost.
LEMMA ServerMoves ==
  ASSUME TypeOK, OrderInv, AnswersMatch, UNCHANGED <<at, got, abandoned, overlapped, torn>>,
         strays' = strays \/ strays' # 0,
         \/ strays' # 0
         \/ buffer' \in {buffer, <<>>}
         \/ \E c \in Calls : buffer' = Append(buffer, c) /\ ((c \in server /\ ~ended) \/ stream[c] = "open"),
         \A c \in Calls : (c \in server' /\ ~ended') \/ stream'[c] = "open"
                            => (c \in server /\ ~ended) \/ stream[c] = "open"
  PROVE  OrderInv' /\ AnswersMatch'
<1>0. Receiving' = Receiving /\ Active' = Active /\ buffer \in Seq(Messages)
  BY DEF Receiving, Active, TypeOK, Messages
<1>1. ASSUME ~overlapped, strays' = 0, abandoned = {}
      PROVE  \A i \in DOMAIN buffer' : buffer'[i] \in Receiving
  <2>1. strays = 0 /\ (\A i \in DOMAIN buffer : buffer[i] \in Receiving)
    BY <1>1 DEF OrderInv
  <2>2. CASE buffer' = buffer
    BY <2>1, <2>2
  <2>3. CASE buffer' = <<>>
    BY <2>3
  <2>4. ASSUME NEW c \in Calls, buffer' = Append(buffer, c), (c \in server /\ ~ended) \/ stream[c] = "open"
        PROVE  \A i \in DOMAIN buffer' : buffer'[i] \in Receiving
    <3>1. c \in Receiving
      BY <1>1, <2>1, <2>4 DEF OrderInv
    <3>2. c \in Messages
      BY DEF Messages
    <3>3. /\ DOMAIN buffer' = 1 .. Len(buffer) + 1 /\ DOMAIN buffer = 1 .. Len(buffer) /\ Len(buffer) \in Nat
          /\ \A i \in 1 .. Len(buffer) : buffer'[i] = buffer[i]
          /\ buffer'[Len(buffer) + 1] = c
      BY <1>0, <2>4, <3>2, AppendMessage
    <3> QED
      BY <2>1, <3>1, <3>3
  <2> QED
    BY <1>1, <2>2, <2>3, <2>4
<1>2. OrderInv'
  BY <1>0, <1>1 DEF OrderInv
<1>3. AnswersMatch'
  BY DEF AnswersMatch
<1> QED
  BY <1>2, <1>3

LEMMA OrderStep ==
  TypeOK /\ TransportInv /\ PlaceInv /\ OrderInv /\ AnswersMatch /\ [Next]_vars
    => OrderInv' /\ AnswersMatch'
<1> SUFFICES ASSUME TypeOK, TransportInv, PlaceInv, OrderInv, AnswersMatch, [Next]_vars
             PROVE  OrderInv' /\ AnswersMatch'
  OBVIOUS
<1> USE DEF ghosts
<1>0. /\ at \in [Calls -> Places] /\ stream \in [Calls -> {"none", "open", "answered", "ended"}]
      /\ strays \in Nat /\ got \in [Calls -> Calls \cup {None}]
  BY DEF TypeOK
<1>a. ASSUME NEW c \in Calls, Begin(c)
      PROVE  OrderInv' /\ AnswersMatch'
  <2>1. AnswersMatch'
    BY <1>a DEF Begin, AnswersMatch
  <2>2. ASSUME ~overlapped'
        PROVE  Active = {} /\ Active' \subseteq {c} /\ Receiving = {} /\ ~overlapped
    BY <1>a, <1>0, <2>2 DEF Begin, Go, Active, Receiving, Over
  <2>3. OrderInv'
    BY <1>a, <2>2 DEF Begin, OrderInv
  <2> QED
    BY <2>1, <2>3
<1>b. ASSUME NEW c \in Calls, StdioStep(c)
      PROVE  OrderInv' /\ AnswersMatch'
  <2>1. CASE Write(c)
    <3>1. c \in Active /\ c \notin Receiving
      BY <2>1 DEF Write, Active, Receiving, Over
    <3>2. (Go(c, "failed") /\ server' = server) \/ (Go(c, "receiving") /\ server' = server \cup {c})
      BY <2>1 DEF Write
    <3> QED
      BY <2>1, <3>1, <3>2, GoesOn DEF Write
  <2>2. CASE ReadLine(c)
    BY <2>2, TakeOwn DEF ReadLine, Receiving
  <2>3. CASE ReadTorn(c)
    <3>1. c \in Active /\ Receiving # {c} /\ c \in Receiving
      BY <2>3 DEF ReadTorn, Active, Receiving, Over
    <3>2. overlapped
      BY <3>1, Alone
    <3> QED
      BY <2>3, <3>2 DEF ReadTorn, OrderInv, AnswersMatch
  <2>4. CASE ReadEnd(c)
    <3>1. Active' \subseteq Active
      BY <2>4, <1>0 DEF ReadEnd, Go, Active, Over
    <3>2. DOMAIN buffer' = {} /\ \A d \in Calls : stream'[d] # "open"
      BY <2>4 DEF ReadEnd, TransportInv
    <3>3. OrderInv'
      BY <2>4, <3>1, <3>2 DEF ReadEnd, OrderInv
    <3> QED
      BY <2>4, <3>3 DEF ReadEnd, AnswersMatch
  <2> QED
    BY <1>b, <2>1, <2>2, <2>3, <2>4 DEF StdioStep
<1>c. ASSUME NEW c \in Calls, HttpStep(c)
      PROVE  OrderInv' /\ AnswersMatch'
  <2>1. CASE Take(c)
    BY <2>1, TakeOwn DEF Take, Receiving
  <2>2. CASE Timeout(c)
    <3>1. Active' \subseteq Active /\ abandoned' # {}
      BY <2>2, <1>0 DEF Timeout, Go, Active, Over
    <3> QED
      BY <2>2, <3>1 DEF Timeout, OrderInv, AnswersMatch
  <2>3. CASE ~Take(c) /\ ~Timeout(c)
    <3>1. c \in Active /\ c \notin Receiving
      BY <1>c, <2>3 DEF HttpStep, Post, PostReplies, PostStreams, PostFails, Queue, Active, Receiving, Over
    <3>2. CASE Post(c)
      BY <3>1, <3>2, GoesOn DEF Post
    <3>3. CASE PostReplies(c)
      BY <3>1, <3>3, GoesOn DEF PostReplies
    <3>4. CASE PostStreams(c)
      BY <3>1, <3>4, GoesOn DEF PostStreams
    <3>5. CASE PostFails(c)
      BY <3>1, <3>5, GoesOn DEF PostFails
    <3>6. CASE Queue(c)
      BY <3>1, <3>6, GoesOn DEF Queue
    <3> QED
      BY <1>c, <2>3, <3>2, <3>3, <3>4, <3>5, <3>6 DEF HttpStep
  <2> QED
    BY <2>1, <2>2, <2>3
<1>d. CASE HandshakeStep
  <2>1. Hello \in Active /\ Hello \notin Receiving
    BY <1>d DEF HandshakeStep, Acknowledge, ReplyComes, QueueReply, Active, Receiving, Over
  <2>2. CASE Acknowledge
    <3>1. Go(Hello, "done") \/ Go(Hello, "failed")
      BY <2>2 DEF Acknowledge
    <3> QED
      BY <2>1, <2>2, <3>1, GoesOn DEF Acknowledge
  <2>3. CASE ReplyComes
    <3>1. strays' # 0
      BY <2>3, <1>0 DEF ReplyComes
    <3> QED
      BY <2>1, <2>3, <3>1, GoesOn DEF ReplyComes
  <2>4. CASE QueueReply
    <3>1. strays' # 0
      BY <2>4, <1>0 DEF QueueReply, TransportInv
    <3> QED
      BY <2>1, <2>4, <3>1, GoesOn DEF QueueReply
  <2> QED
    BY <1>d, <2>2, <2>3, <2>4 DEF HandshakeStep
<1>e. CASE Notify \/ End
  <2>1. CASE Notify
    <3>1. strays' # 0
      BY <2>1, <1>0 DEF Notify
    <3> QED
      BY <2>1, <3>1, ServerMoves DEF Notify
  <2>2. CASE End
    BY <2>2, ServerMoves DEF End
  <2> QED
    BY <1>e, <2>1, <2>2
<1>f. ASSUME NEW c \in Calls, Answer(c) \/ Event(c) \/ StrayEvent(c) \/ StreamEnds(c)
      PROVE  OrderInv' /\ AnswersMatch'
  <2>1. \A d \in Calls : (d \in server' /\ ~ended') \/ stream'[d] = "open"
                            => (d \in server /\ ~ended) \/ stream[d] = "open"
    BY <1>f, <1>0 DEF Answer, Event, StrayEvent, StreamEnds
  <2>2. CASE Answer(c)
    BY <2>1, <2>2, ServerMoves DEF Answer
  <2>3. CASE Event(c)
    BY <2>1, <2>3, ServerMoves DEF Event
  <2>4. CASE StrayEvent(c)
    <3>1. strays' # 0
      BY <2>4, <1>0 DEF StrayEvent
    <3> QED
      BY <2>1, <2>4, <3>1, ServerMoves DEF StrayEvent
  <2>5. CASE StreamEnds(c)
    BY <2>1, <2>5, ServerMoves DEF StreamEnds
  <2> QED
    BY <1>f, <2>2, <2>3, <2>4, <2>5
<1>g. CASE UNCHANGED vars
  BY <1>g DEF vars, OrderInv, AnswersMatch, Active, Receiving
<1> QED
  BY <1>a, <1>b, <1>c, <1>d, <1>e, <1>f, <1>g DEF Next, ServerStep

(***************************************************************************)
(* The mutex, and the lines of the pipe.                                   *)
(***************************************************************************)
\* Every step leaves the mutex with the one Send that is under way, or with nobody.
LEMMA MutexStep == TypeOK /\ TransportInv /\ MutexInv /\ [Next]_vars => MutexInv'
<1> SUFFICES ASSUME TypeOK, TransportInv, MutexInv, [Next]_vars
             PROVE  MutexInv'
  OBVIOUS
<1>1. /\ at \in [Calls -> Places] /\ mu \in Calls \cup {None} /\ kind \in {"stdio", "http"}
      /\ None \notin Calls /\ Hello \in Calls
  BY DEF TypeOK
<1> USE DEF MutexInv, Go
<1>2. ASSUME NEW c \in Calls, NEW p \in {"sending", "failed", "done", "receiving"},
             Go(c, p), at[c] \notin {"posting", "queueing"}, UNCHANGED <<mu, kind>>
      PROVE  MutexInv'
  BY <1>1, <1>2
<1>3. ASSUME NEW c \in Calls, NEW p \in {"failed", "receiving"},
             Go(c, p), at[c] \in {"posting", "queueing"}, mu' = None, UNCHANGED kind
      PROVE  MutexInv'
  BY <1>1, <1>3
<1>4. ASSUME NEW c \in Calls, NEW m, Return(c, m), at[c] = "receiving", UNCHANGED <<mu, kind>>
      PROVE  MutexInv'
  BY <1>1, <1>4 DEF Return
<1>5. ASSUME UNCHANGED <<at, mu, kind>> PROVE MutexInv'
  BY <1>5
<1>a. ASSUME NEW c \in Calls, Begin(c) PROVE MutexInv'
  BY <1>a, <1>2 DEF Begin
<1>b. ASSUME NEW c \in Calls, StdioStep(c) PROVE MutexInv'
  <2>1. CASE Write(c) \/ ReadEnd(c)
    BY <2>1, <1>2 DEF Write, ReadEnd
  <2>2. CASE ReadLine(c)
    BY <2>2, <1>4 DEF ReadLine
  <2>3. CASE ReadTorn(c)
    BY <2>3, <1>4, <1>5 DEF ReadTorn
  <2> QED
    BY <1>b, <2>1, <2>2, <2>3 DEF StdioStep
<1>c. ASSUME NEW c \in Calls, HttpStep(c) PROVE MutexInv'
  <2>1. CASE Post(c)
    BY <2>1, <1>1 DEF Post
  <2>2. CASE PostReplies(c)
    BY <2>2, <1>1 DEF PostReplies
  <2>3. CASE PostStreams(c) \/ PostFails(c) \/ Queue(c)
    BY <2>3, <1>3 DEF PostStreams, PostFails, Queue
  <2>4. CASE Take(c)
    BY <2>4, <1>4 DEF Take
  <2>5. CASE Timeout(c)
    BY <2>5, <1>2 DEF Timeout
  <2> QED
    BY <1>c, <2>1, <2>2, <2>3, <2>4, <2>5 DEF HttpStep
<1>d. CASE HandshakeStep
  <2>1. CASE Acknowledge \/ QueueReply
    BY <2>1, <1>1, <1>2 DEF Acknowledge, QueueReply
  <2>2. CASE ReplyComes
    BY <2>2, <1>1 DEF ReplyComes
  <2> QED
    BY <1>d, <2>1, <2>2 DEF HandshakeStep
<1>e. CASE ServerStep
  BY <1>e, <1>5 DEF ServerStep, Notify, End, Answer, Event, StrayEvent, StreamEnds
<1>f. CASE UNCHANGED vars
  BY <1>f, <1>5 DEF vars
<1> QED
  BY <1>a, <1>b, <1>c, <1>d, <1>e, <1>f DEF Next

\* Every step leaves as many lines, in the pipe or to come, as calls read.
LEMMA LinesStep == TypeOK /\ TransportInv /\ LinesInv /\ [Next]_vars => LinesInv'
<1> SUFFICES ASSUME TypeOK, TransportInv, LinesInv, [Next]_vars, kind' = "stdio", ~ended', ~torn'
             PROVE  Cardinality(Receiving') <= Len(buffer') + Cardinality(server')
  BY DEF LinesInv, Receiving
<1> DEFINE Goal == Cardinality(Receiving') <= Len(buffer') + Cardinality(server')
<1>1. /\ buffer \in Seq(Messages) /\ Len(buffer) \in Nat /\ server \in SUBSET Calls
      /\ Receiving \in SUBSET Calls /\ at \in [Calls -> Places]
      /\ Stray \in Messages /\ Hello \in Calls /\ \A c \in Calls : c \in Messages
  BY LenProperties DEF TypeOK, Messages, Receiving
<1>2. Cardinality(Receiving) \in Nat /\ Cardinality(server) \in Nat
  BY <1>1, Counting
<1>3. kind = "stdio"
  BY DEF Next, ServerStep, HandshakeStep, StdioStep, HttpStep, Begin, Write, ReadLine, ReadTorn,
         ReadEnd, Post, PostReplies, PostStreams, PostFails, Queue, Take, Timeout, Acknowledge,
         ReplyComes, QueueReply, Notify, End, Answer, Event, StrayEvent, StreamEnds, vars
<1>4. ~ended /\ ~torn
  BY DEF Next, ServerStep, HandshakeStep, StdioStep, HttpStep, Begin, Write, ReadLine, ReadTorn,
         ReadEnd, Post, PostReplies, PostStreams, PostFails, Queue, Take, Timeout, Acknowledge,
         ReplyComes, QueueReply, Notify, End, Answer, Event, StrayEvent, StreamEnds, vars, ghosts
<1>5. Cardinality(Receiving) <= Len(buffer) + Cardinality(server)
  BY <1>3, <1>4 DEF LinesInv
<1>6. ASSUME NEW c \in Calls, NEW p \in Places \ {"receiving"}, Go(c, p), at[c] # "receiving",
             UNCHANGED <<buffer, server>>
      PROVE  Goal
  <2>1. Receiving' = Receiving
    BY <1>1, <1>6, ReceivingChanges DEF Receiving
  <2> QED
    BY <1>5, <1>6, <2>1
<1>7. ASSUME NEW m \in Messages PROVE Len(Append(buffer, m)) = Len(buffer) + 1
  BY <1>1, AppendMessage
<1>a. ASSUME NEW c \in Calls, Begin(c) PROVE Goal
  BY <1>a, <1>6 DEF Begin, Places
<1>b. ASSUME NEW c \in Calls, Write(c) PROVE Goal
  <2>1. Go(c, "receiving") /\ server' = server \cup {c} /\ c \notin server /\ buffer' = buffer
    BY <1>b, <1>4 DEF Write, TransportInv, Unsent
  <2>2. Receiving' = Receiving \cup {c} /\ c \notin Receiving
    BY <1>b, <2>1, ReceivingChanges DEF Write, Receiving
  <2>3. /\ Cardinality(Receiving') = Cardinality(Receiving) + 1
        /\ Cardinality(server') = Cardinality(server) + 1
    BY <1>1, <2>1, <2>2, Counting
  <2> QED
    BY <1>1, <1>2, <1>5, <2>1, <2>3
<1>c. ASSUME NEW c \in Calls, ReadLine(c) PROVE Goal
  <2>1. PICK p \in Places \ {"receiving"} : Go(c, p)
    BY <1>c DEF ReadLine, Return, Places, Over
  <2>2. Receiving' = Receiving \ {c} /\ c \in Receiving /\ server' = server
    BY <1>c, <2>1, ReceivingChanges DEF ReadLine, Receiving
  <2>3. Cardinality(Receiving') = Cardinality(Receiving) - 1
    BY <1>1, <2>2, Counting
  <2>4. Len(buffer') = Len(buffer) - 1
    BY <1>c, <1>1, TakeMessage DEF ReadLine
  <2> QED
    BY <1>1, <1>2, <1>5, <2>2, <2>3, <2>4
<1>d. ASSUME NEW c \in Calls, ReadTorn(c) \/ ReadEnd(c) PROVE FALSE
  BY <1>d, <1>4 DEF ReadTorn, ReadEnd
<1>e. ASSUME NEW c \in Calls, HttpStep(c) PROVE FALSE
  BY <1>e, <1>3 DEF HttpStep, Post, PostReplies, PostStreams, PostFails, Queue, Take, Timeout,
                    TransportInv
<1>f. CASE Acknowledge
  BY <1>f, <1>1, <1>6 DEF Acknowledge, Places, Over
<1>g. CASE ReplyComes
  BY <1>g, <1>3 DEF ReplyComes
<1>h. CASE QueueReply
  <2>1. Receiving' = Receiving /\ server' = server
    BY <1>h, <1>1, ReceivingChanges DEF QueueReply, Receiving
  <2>2. Len(buffer') = Len(buffer) + 1
    BY <1>h, <1>1, <1>7 DEF QueueReply
  <2> QED
    BY <1>1, <1>2, <1>5, <2>1, <2>2
<1>i. CASE Notify
  <2>1. Receiving' = Receiving /\ server' = server /\ Len(buffer') = Len(buffer) + 1
    BY <1>i, <1>1, <1>7 DEF Notify, Receiving
  <2> QED
    BY <1>1, <1>2, <1>5, <2>1
<1>j. ASSUME NEW c \in Calls, Answer(c) PROVE Goal
  <2>1. Receiving' = Receiving /\ server' = server \ {c} /\ c \in server /\ Len(buffer') = Len(buffer) + 1
    BY <1>j, <1>1, <1>7 DEF Answer, Receiving
  <2>2. Cardinality(server') = Cardinality(server) - 1
    BY <1>1, <2>1, Counting
  <2> QED
    BY <1>1, <1>2, <1>5, <2>1, <2>2
<1>k. ASSUME NEW c \in Calls, Event(c) \/ StrayEvent(c) \/ StreamEnds(c) PROVE FALSE
  BY <1>k, <1>3 DEF Event, StrayEvent, StreamEnds, TransportInv
<1>l. CASE End
  BY <1>l DEF End
<1>m. CASE UNCHANGED vars
  BY <1>5, <1>m DEF vars, Receiving
<1> QED
  BY <1>a, <1>b, <1>c, <1>d, <1>e, <1>f, <1>g, <1>h, <1>i, <1>j, <1>k, <1>l, <1>m
     DEF Next, StdioStep, HandshakeStep, ServerStep

(***************************************************************************)
(* The theorems.                                                           *)
(***************************************************************************)
\* The invariant of the client holds in every behaviour of it, over either
\* transport: client.go, transport.go and transport_http.go.
THEOREM McpSafe == Spec => []McpInv
<1>1. McpInv /\ [Next]_vars => McpInv'
  <2> SUFFICES ASSUME McpInv, [Next]_vars
               PROVE  McpInv'
    OBVIOUS
  <2>1. /\ TypeOK /\ AnswersMatch /\ AnsweredOnce /\ BufferAccounted
        /\ TransportInv /\ PlaceInv /\ OrderInv /\ MutexInv /\ LinesInv
    BY DEF McpInv
  <2>2. TypeOK' /\ TransportInv'
    BY <2>1, TypeStep, TransportStep
  <2>3. BufferAccounted'
    BY <2>1, BufferStep
  <2>4. PlaceInv' /\ AnsweredOnce'
    BY <2>1, PlaceStep
  <2>5. OrderInv' /\ AnswersMatch'
    BY <2>1, OrderStep
  <2>6. MutexInv' /\ LinesInv'
    BY <2>1, MutexStep, LinesStep
  <2> QED
    BY <2>2, <2>3, <2>4, <2>5, <2>6 DEF McpInv
<1> QED
  BY McpInitInv, <1>1, PTL DEF Spec

\* While calls are made one at a time, nothing but answers comes and nobody gives
\* up, no call returns what another has asked for, though IDs are not compared.
THEOREM OwnAnswers == Spec => []AnswersMatch
<1>1. McpInv => AnswersMatch
  BY DEF McpInv
<1> QED
  BY McpSafe, <1>1, PTL

\* A channel that blocks a Send while nobody receives is full of strays and of
\* answers to calls that have given up: there are more of these than places.
THEOREM ClogIsPaidFor ==
  Spec => [](kind = "http" /\ Clogged => strays + Cardinality(abandoned) >= Capacity)
<1>1. McpInv => (kind = "http" /\ Clogged => strays + Cardinality(abandoned) >= Capacity)
  <2> SUFFICES ASSUME McpInv, kind = "http", Clogged
               PROVE  strays + Cardinality(abandoned) >= Capacity
    OBVIOUS
  <2>1. /\ Len(buffer) = Capacity /\ Receiving = {} /\ strays \in Nat
        /\ abandoned \in SUBSET Calls /\ Open \in SUBSET Calls
        /\ Len(buffer) + Owed <= strays + Cardinality(abandoned) + Cardinality(Receiving)
    BY DEF McpInv, TypeOK, Clogged, Full, BufferAccounted, Open
  <2>2. Cardinality(Receiving) = 0 /\ Cardinality(abandoned) \in Nat /\ Cardinality(Open) \in Nat
    BY <2>1, Counting, FS_EmptySet
  <2>3. Owed \in Nat
    BY <2>2 DEF Owed
  <2> QED
    BY <2>1, <2>2, <2>3
<1> QED
  BY McpSafe, <1>1, PTL

(***************************************************************************)
(* No call waits for ever.                                                 *)
(***************************************************************************)
\* What the guards of a call's steps ask for: of a subprocess's, that it reads a
\* line or finds the end; of Send and Receive over HTTP; and of the handshake.
CanGoOn ==
  \/ kind = "stdio" /\ \E c \in Calls :
       at[c] = "sending" \/ (at[c] = "receiving" /\ (buffer # <<>> \/ ended))
  \/ kind = "stdio" /\ ~ended /\ server # {}
  \/ kind = "http" /\ \E c \in Calls :
       \/ at[c] = "sending" /\ mu = None
       \/ at[c] \in {"posting", "receiving"}
       \/ at[c] = "queueing" /\ ~Full
  \/ at[Hello] = "greeted"
  \/ at[Hello] = "replied" /\ ~Full

\* As long as a call is on its way somebody can go on: a Send that waits for the
\* mutex waits for one that can, and a call that reads has a line in the pipe or one
\* to come; unless the channel is clogged, or the pipe's buffer was damaged.
THEOREM ClientNeverStuck == Spec => [](Active # {} => CanGoOn \/ Clogged \/ torn)
<1>1. ASSUME McpInv, NEW c \in Active, ~Clogged, ~torn
      PROVE  CanGoOn
  <2>1. /\ c \in Calls /\ at[c] \in {"sending", "posting", "queueing", "receiving", "greeted", "replied"}
        /\ kind \in {"stdio", "http"} /\ Hello \in Calls
    BY <1>1 DEF McpInv, TypeOK, Active, Places, Over
  <2>2. Full => Receiving # {} \/ \A d \in Calls : at[d] \notin {"queueing", "replied"}
    BY <1>1 DEF Clogged
  <2>3. ASSUME NEW d \in Calls, at[d] = "queueing" PROVE CanGoOn
    <3>1. kind = "http"
      BY <1>1, <2>1, <2>3 DEF McpInv, TransportInv
    <3>2. CASE ~Full
      BY <2>3, <3>1, <3>2 DEF CanGoOn
    <3>3. CASE Full
      BY <2>2, <2>3, <3>1, <3>3 DEF CanGoOn, Receiving
    <3> QED
      BY <3>2, <3>3
  <2>4. ASSUME NEW d \in Calls, at[d] = "posting" PROVE CanGoOn
    <3>1. kind = "http"
      BY <1>1, <2>1, <2>4 DEF McpInv, TransportInv
    <3> QED
      BY <2>4, <3>1 DEF CanGoOn
  <2>5. CASE at[c] = "sending"
    <3>1. CASE kind = "stdio" \/ mu = None
      BY <2>1, <2>5, <3>1 DEF CanGoOn
    <3>2. CASE mu # None
      BY <1>1, <2>3, <2>4, <3>2 DEF McpInv, TypeOK, MutexInv
    <3> QED
      BY <3>1, <3>2
  <2>6. CASE at[c] = "receiving" /\ kind = "stdio" /\ ~ended
    <3>1. Cardinality(Receiving) <= Len(buffer) + Cardinality(server)
      BY <1>1, <2>6 DEF McpInv, LinesInv
    <3>2. Receiving \in SUBSET Calls /\ Receiving # {} /\ IsFiniteSet(Receiving)
      BY <2>1, <2>6, FS_Subset DEF Receiving
    <3>3. Cardinality(Receiving) \in Nat /\ Cardinality(Receiving) # 0
      BY <3>2, FS_CardinalityType, FS_EmptySet
    <3>4. buffer # <<>> \/ server # {}
      BY <3>1, <3>3, FS_EmptySet
    <3> QED
      BY <2>1, <2>6, <3>4 DEF CanGoOn
  <2>7. CASE at[c] = "receiving" /\ (kind = "http" \/ ended)
    BY <2>1, <2>7 DEF CanGoOn
  <2>8. CASE at[c] = "greeted"
    BY <1>1, <2>1, <2>8 DEF CanGoOn, McpInv, MutexInv
  <2>9. CASE at[c] = "replied"
    <3>1. c = Hello /\ kind = "http"
      BY <1>1, <2>1, <2>9 DEF McpInv, MutexInv
    <3>2. CASE ~Full
      BY <2>9, <3>1, <3>2 DEF CanGoOn
    <3>3. CASE Full
      BY <2>1, <2>2, <2>9, <3>1, <3>3 DEF CanGoOn, Receiving
    <3> QED
      BY <3>2, <3>3
  <2> QED
    BY <2>1, <2>3, <2>4, <2>5, <2>6, <2>7, <2>8, <2>9
<1>2. McpInv => (Active # {} => CanGoOn \/ Clogged \/ torn)
  BY <1>1
<1> QED
  BY McpSafe, <1>2, PTL
=============================================================================
