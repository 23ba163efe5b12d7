--------------------------- MODULE SyncDaemonProofs ---------------------------
(***************************************************************************)
(* Proofs about the memory sync daemon, for any number of devices,         *)
(* memories, delta files and faults: SyncInv is inductive.                 *)
(***************************************************************************)
EXTENDS SyncDaemon, SequenceTheorems, TLAPS

USE SyncDaemonAssumption

LEMMA NameFacts ==
  /\ \A n \in Names : Owner(n) \in Devices /\ n[2] \in 1 .. MaxDeltas[Owner(n)] /\ n = <<Owner(n), n[2]>>
  /\ \A d \in Devices : \A k \in 1 .. MaxDeltas[d] :
       <<d, k>> \in Names /\ Owner(<<d, k>>) = d /\ <<d, k>>[2] = k
BY DEF Names, Owner

\* A memory is saved after the others.
LEMMA RowAppended ==
  ASSUME NEW s \in Seq(Contents), NEW c \in Contents
  PROVE  /\ Append(s, c) \in Seq(Contents) /\ Len(Append(s, c)) = Len(s) + 1 /\ Len(s) \in Nat
         /\ DOMAIN s = 1 .. Len(s) /\ DOMAIN s \subseteq DOMAIN Append(s, c)
         /\ \A i \in DOMAIN s : Append(s, c)[i] = s[i]
         /\ ContentOf(s) \subseteq ContentOf(Append(s, c)) /\ c \in ContentOf(Append(s, c))
<1>1. /\ Append(s, c) \in Seq(Contents) /\ Len(Append(s, c)) = Len(s) + 1 /\ Len(s) \in Nat
      /\ \A i \in 1 .. Len(s) : Append(s, c)[i] = s[i]
      /\ Append(s, c)[Len(s) + 1] = c
  BY AppendProperties, LenProperties
<1>2. DOMAIN s = 1 .. Len(s) /\ DOMAIN Append(s, c) = 1 .. Len(s) + 1
  BY <1>1, LenProperties
<1>3. Len(s) + 1 \in DOMAIN Append(s, c) /\ DOMAIN s \subseteq DOMAIN Append(s, c)
  BY <1>1, <1>2
<1>4. ContentOf(s) \subseteq ContentOf(Append(s, c)) /\ c \in ContentOf(Append(s, c))
  BY <1>1, <1>2, <1>3 DEF ContentOf
<1> QED
  BY <1>1, <1>2, <1>3, <1>4

\* What an import saves is a memory of the file it has read.
LEMMA SavedIsMemory ==
  ASSUME TypeOK, CyclesInv, NEW d \in Devices, NEW id, SaveNext(d, id)
  PROVE  /\ import[d].name \in Names /\ id \in DOMAIN delta[import[d].name] /\ id \in Ids
         /\ delta[import[d].name][id] \in Contents
BY DEF TypeOK, CyclesInv, SaveNext, Deltas

\* Every list of memories grows at its end only.
LEMMA RowsGrow ==
  ASSUME TypeOK, CyclesInv, [Next]_vars
  PROVE  \A d \in Devices :
           /\ DOMAIN rows[d] \subseteq DOMAIN rows'[d]
           /\ \A i \in DOMAIN rows[d] : rows'[d][i] = rows[d][i]
           /\ ContentOf(rows[d]) \subseteq ContentOf(rows'[d])
<1> DEFINE Grown == \/ rows' = rows
                    \/ \E e \in Devices, c \in Contents : rows' = [rows EXCEPT ![e] = Append(@, c)]
<1>0. rows \in [Devices -> Seq(Contents)]
  BY DEF TypeOK
<1>1. Grown
  <2>1. ASSUME NEW c \in Contents, UserSaves(c)
        PROVE  Grown
    <3>1. Author[c] \in Devices /\ rows' = [rows EXCEPT ![Author[c]] = Append(@, c)]
      BY <2>1 DEF UserSaves
    <3> QED
      BY <3>1
  <2>2. ASSUME NEW e \in Devices, NEW id \in 1 .. MaxRows, SaveNext(e, id)
        PROVE  Grown
    <3>1. rows' = [rows EXCEPT ![e] = Append(@, delta[import[e].name][id])]
      BY <2>2 DEF SaveNext
    <3>2. delta[import[e].name][id] \in Contents
      BY <2>2, SavedIsMemory
    <3> QED
      BY <3>1, <3>2
  <2>3. ASSUME NEW e \in Devices, ExportStep(e) \/ PushStep(e) \/ PullStep(e) \/ FaultStep(e)
        PROVE  rows' = rows
    BY <2>3 DEF ExportStep, PushStep, PullStep, FaultStep, BeginExport, FinishWrite, Mark, MovePushed,
       Upload, BeginDownload, FinishDownload, FailWrite, FailDownload, Crash
  <2>4. ASSUME NEW e \in Devices, MoveImported(e) \/ \E n \in Names : Read(e, n)
        PROVE  rows' = rows
    BY <2>4 DEF MoveImported, Read
  <2>5. UNCHANGED vars => rows' = rows
    BY DEF vars
  <2> QED
    BY <2>1, <2>2, <2>3, <2>4, <2>5 DEF Next, ImportStep
<1>2. CASE rows' = rows
  BY <1>2
<1>3. ASSUME NEW e \in Devices, NEW c \in Contents, rows' = [rows EXCEPT ![e] = Append(@, c)]
      PROVE  \A d \in Devices :
               /\ DOMAIN rows[d] \subseteq DOMAIN rows'[d]
               /\ \A i \in DOMAIN rows[d] : rows'[d][i] = rows[d][i]
               /\ ContentOf(rows[d]) \subseteq ContentOf(rows'[d])
  <2> SUFFICES ASSUME NEW d \in Devices
               PROVE  /\ DOMAIN rows[d] \subseteq DOMAIN rows'[d]
                      /\ \A i \in DOMAIN rows[d] : rows'[d][i] = rows[d][i]
                      /\ ContentOf(rows[d]) \subseteq ContentOf(rows'[d])
    OBVIOUS
  <2>1. rows'[d] = IF d = e THEN Append(rows[d], c) ELSE rows[d]
    BY <1>0, <1>3
  <2>2. rows[d] \in Seq(Contents)
    BY <1>0
  <2> QED
    BY <2>1, <2>2, RowAppended
<1> QED
  BY <1>1, <1>2, <1>3

(***************************************************************************)
(* Types.                                                                  *)
(***************************************************************************)
Exports == [at : {"idle", "writing", "marking"}, name : AnyName, ids : SUBSET Ids]
Imports == [at : {"idle", "saving"}, name : AnyName, todo : SUBSET Ids]

LEMMA ExportChanges ==
  ASSUME NEW x \in Exports, NEW id
  PROVE  [x EXCEPT !.at = "marking"] \in Exports /\ [x EXCEPT !.ids = x.ids \ {id}] \in Exports
BY DEF Exports

LEMMA ImportChanges ==
  ASSUME NEW x \in Imports, NEW id
  PROVE  [x EXCEPT !.todo = x.todo \ {id}] \in Imports
BY DEF Imports

LEMMA TypeStep == TypeOK /\ CyclesInv /\ [Next]_vars => TypeOK'
<1> SUFFICES ASSUME TypeOK, CyclesInv, [Next]_vars
             PROVE  TypeOK'
  OBVIOUS
<1> USE DEF TypeOK, files, cycles
<1>0. Ids = 1 .. MaxRows /\ NoFile \in AnyName /\ \A n \in Names : n \in AnyName
  BY DEF Ids, AnyName
<1>1. ASSUME NEW d \in Devices
      PROVE  DOMAIN rows[d] \subseteq Ids
  <2>1. rows[d] \in Seq(Contents) /\ Len(rows[d]) <= MaxRows
    OBVIOUS
  <2>2. DOMAIN rows[d] = 1 .. Len(rows[d]) /\ Len(rows[d]) \in Nat
    BY <2>1, LenProperties
  <2> QED
    BY <2>1, <2>2, <1>0
<1>2. ASSUME NEW d \in Devices, NEW c \in Contents, Len(rows[d]) < MaxRows,
             rows' = [rows EXCEPT ![d] = Append(@, c)]
      PROVE  rows' \in [Devices -> Seq(Contents)] /\ \A e \in Devices : Len(rows'[e]) <= MaxRows
  <2>1. rows[d] \in Seq(Contents)
    OBVIOUS
  <2>2. Append(rows[d], c) \in Seq(Contents) /\ Len(Append(rows[d], c)) = Len(rows[d]) + 1 /\ Len(rows[d]) \in Nat
    BY <2>1, RowAppended
  <2>3. \A e \in Devices : rows'[e] = IF e = d THEN Append(rows[d], c) ELSE rows[e]
    BY <1>2
  <2> QED
    BY <1>2, <2>2, <2>3
<1>3. export \in [Devices -> Exports] /\ import \in [Devices -> Imports]
  BY DEF Exports, Imports
<1> HIDE DEF Ids, AnyName, Names
<1>a. ASSUME NEW c \in Contents, UserSaves(c)
      PROVE  TypeOK'
  <2>1. Author[c] \in Devices /\ Len(rows[Author[c]]) < MaxRows
        /\ rows' = [rows EXCEPT ![Author[c]] = Append(@, c)]
    BY <1>a DEF UserSaves
  <2>2. rows' \in [Devices -> Seq(Contents)] /\ \A e \in Devices : Len(rows'[e]) <= MaxRows
    BY <2>1, <1>2
  <2> QED
    BY <1>a, <2>2 DEF UserSaves
<1>b. ASSUME NEW d \in Devices, ExportStep(d)
      PROVE  TypeOK'
  <2>1. CASE BeginExport(d)
    <3> DEFINE n == <<d, written[d] + 1>>
    <3>1. /\ written[d] < MaxDeltas[d] /\ written' = [written EXCEPT ![d] = @ + 1]
          /\ delta' = [delta EXCEPT ![n] = [id \in Unsynced(d) |-> rows[d][id]]]
          /\ place' = [place EXCEPT ![d][n] = "outbox"]
          /\ export' = [export EXCEPT ![d] = [at |-> "writing", name |-> n, ids |-> Unsynced(d)]]
          /\ UNCHANGED <<rows, synced, whole, drive, spoiled, push, pull, import, faults>>
      BY <2>1 DEF BeginExport
    <3>2. written[d] \in Nat /\ MaxDeltas[d] \in Nat
      OBVIOUS
    <3>3. n \in Names
      BY <3>1, <3>2, NameFacts
    <3>4. Unsynced(d) \in SUBSET Ids /\ Unsynced(d) \subseteq DOMAIN rows[d]
      BY <1>1 DEF Unsynced
    <3>5. [id \in Unsynced(d) |-> rows[d][id]] \in Deltas
      <4>1. \A id \in Unsynced(d) : rows[d][id] \in Contents
        BY <3>4, LenProperties, ElementOfSeq
      <4> QED
        BY <3>4, <4>1 DEF Deltas
    <3>6. delta' \in [Names -> Deltas]
      BY <3>1, <3>5
    <3>7. place' \in [Devices -> [Names -> Places]]
      BY <3>1, <3>3 DEF Places
    <3>8. export' \in [Devices -> [at : {"idle", "writing", "marking"}, name : AnyName, ids : SUBSET Ids]]
      <4>1. n \in AnyName
        BY <3>3, <1>0
      <4> HIDE DEF n
      <4> QED
        BY <3>1, <3>4, <4>1
    <3>9. written' \in [Devices -> Nat] /\ \A e \in Devices : written'[e] <= MaxDeltas[e]
      BY <3>1, <3>2
    <3> QED
      BY <3>1, <3>6, <3>7, <3>8, <3>9
  <2>2. CASE FinishWrite(d)
    <3>1. export[d].name \in Names
      BY <2>2 DEF FinishWrite, CyclesInv
    <3>2. export' = [export EXCEPT ![d] = [export[d] EXCEPT !.at = "marking"]]
      BY <2>2 DEF FinishWrite
    <3>3. export' \in [Devices -> Exports]
      BY <3>2, <1>3, ExportChanges
    <3>4. whole' \in [Devices -> SUBSET Names]
      BY <2>2, <3>1 DEF FinishWrite
    <3> QED
      BY <2>2, <3>3, <3>4 DEF FinishWrite, Exports
  <2>3. ASSUME NEW id \in Ids, Mark(d, id)
        PROVE  TypeOK'
    <3>1. \/ export' = [export EXCEPT ![d] = NoExport]
          \/ export' = [export EXCEPT ![d] = [export[d] EXCEPT !.ids = export[d].ids \ {id}]]
      BY <2>3 DEF Mark
    <3>2. export' \in [Devices -> Exports]
      <4>1. NoExport \in Exports
        BY <1>0 DEF NoExport, Exports
      <4>2. [export[d] EXCEPT !.ids = export[d].ids \ {id}] \in Exports
        BY <1>3, ExportChanges
      <4> QED
        BY <3>1, <4>1, <4>2, <1>3
    <3>3. synced' \in [Devices -> SUBSET Ids]
      BY <2>3 DEF Mark
    <3> QED
      BY <2>3, <3>2, <3>3 DEF Mark, Exports
  <2> QED
    BY <1>b, <1>0, <2>1, <2>2, <2>3 DEF ExportStep
<1>c. ASSUME NEW d \in Devices, PushStep(d)
      PROVE  TypeOK'
  <2>1. CASE MovePushed(d)
    BY <2>1, <1>0 DEF MovePushed, NoCycle, Places
  <2>2. ASSUME NEW n \in Names, Upload(d, n)
        PROVE  TypeOK'
    BY <2>2, <1>0 DEF Upload
  <2> QED
    BY <1>c, <2>1, <2>2 DEF PushStep
<1>d. ASSUME NEW d \in Devices, PullStep(d)
      PROVE  TypeOK'
  <2>1. ASSUME NEW n \in Names, BeginDownload(d, n)
        PROVE  TypeOK'
    BY <2>1, <1>0 DEF BeginDownload, Places
  <2>2. ASSUME NEW version, FinishDownload(d, version)
        PROVE  TypeOK'
    <3>1. pull[d].name \in Names
      BY <2>2 DEF FinishDownload, CyclesInv
    <3> QED
      BY <2>2, <1>0, <3>1 DEF FinishDownload, NoCycle
  <2> QED
    BY <1>d, <2>1, <2>2 DEF PullStep
<1>e. ASSUME NEW d \in Devices, ImportStep(d)
      PROVE  TypeOK'
  <2>1. CASE MoveImported(d)
    BY <2>1, <1>0 DEF MoveImported, NoImport, Places
  <2>2. ASSUME NEW n \in Names, Read(d, n)
        PROVE  TypeOK'
    <3>1. DOMAIN delta[n] \in SUBSET Ids
      BY DEF Deltas
    <3> QED
      BY <2>2, <1>0, <3>1 DEF Read
  <2>3. ASSUME NEW id, SaveNext(d, id)
        PROVE  TypeOK'
    <3>1. delta[import[d].name][id] \in Contents
      BY <2>3, SavedIsMemory
    <3>2. Len(rows[d]) < MaxRows /\ rows' = [rows EXCEPT ![d] = Append(@, delta[import[d].name][id])]
      BY <2>3 DEF SaveNext
    <3>3. rows' \in [Devices -> Seq(Contents)] /\ \A f \in Devices : Len(rows'[f]) <= MaxRows
      BY <3>1, <3>2, <1>2
    <3>4. import' = [import EXCEPT ![d] = [import[d] EXCEPT !.todo = import[d].todo \ {id}]]
      BY <2>3 DEF SaveNext
    <3>5. import' \in [Devices -> Imports]
      BY <3>4, <1>3, ImportChanges
    <3> QED
      BY <2>3, <3>3, <3>5 DEF SaveNext, Imports
  <2> QED
    BY <1>e, <2>1, <2>2, <2>3 DEF ImportStep
<1>f. ASSUME NEW d \in Devices, FaultStep(d)
      PROVE  TypeOK'
  <2>1. CASE FailWrite(d)
    BY <2>1, <1>0 DEF FailWrite, Fault, NoExport
  <2>2. CASE FailDownload(d)
    <3>1. pull[d].name \in Names
      BY <2>2 DEF FailDownload, CyclesInv
    <3> QED
      BY <2>2, <1>0, <3>1 DEF FailDownload, Fault, NoCycle
  <2>3. CASE Crash(d)
    <3>1. pull[d].at = "loading" => pull[d].name \in Names
      BY DEF CyclesInv
    <3> QED
      BY <2>3, <1>0, <3>1 DEF Crash, Fault, NoExport, NoCycle, NoImport
  <2> QED
    BY <1>f, <2>1, <2>2, <2>3 DEF FaultStep
<1>g. CASE UNCHANGED vars
  BY <1>g DEF vars
<1> QED
  BY <1>a, <1>b, <1>c, <1>d, <1>e, <1>f, <1>g DEF Next

(***************************************************************************)
(* Names and directories.                                                  *)
(***************************************************************************)
LEMMA NamesKept ==
  ASSUME TypeOK, CyclesInv, NamesInv, [Next]_vars, UNCHANGED <<delta, written, place, drive>>
  PROVE  NamesInv'
BY RowsGrow, NameFacts DEF NamesInv

\* The name an export takes is used nowhere yet.
LEMMA FreshName ==
  ASSUME TypeOK, NamesInv, NEW d \in Devices, BeginExport(d)
  PROVE  LET n == <<d, written[d] + 1>> IN
         /\ n \in Names /\ Owner(n) = d /\ n[2] = written[d] + 1 /\ written[d] \in Nat
         /\ drive[n] = {} /\ \A e \in Devices : place[e][n] = "none"
         /\ delta' = [delta EXCEPT ![n] = [id \in Unsynced(d) |-> rows[d][id]]]
         /\ place' = [place EXCEPT ![d][n] = "outbox"]
         /\ export' = [export EXCEPT ![d] = [at |-> "writing", name |-> n, ids |-> Unsynced(d)]]
         /\ written' = [written EXCEPT ![d] = @ + 1]
         /\ UNCHANGED <<rows, synced, whole, drive, push, pull, import>>
<1> DEFINE n == <<d, written[d] + 1>>
<1>1. written[d] \in Nat /\ MaxDeltas[d] \in Nat /\ written[d] < MaxDeltas[d]
  BY DEF BeginExport, TypeOK
<1>2. n \in Names /\ Owner(n) = d /\ n[2] = written[d] + 1
  BY <1>1, NameFacts
<1>3. drive[n] = {} /\ \A e \in Devices : place[e][n] = "none"
  BY <1>1, <1>2 DEF NamesInv
<1> QED
  BY <1>1, <1>2, <1>3 DEF BeginExport

\* A file changes its directory in one of four ways.
LEMMA NamesStep == TypeOK /\ CyclesInv /\ NamesInv /\ [Next]_vars => NamesInv'
<1> SUFFICES ASSUME TypeOK, CyclesInv, NamesInv, [Next]_vars
             PROVE  NamesInv'
  OBVIOUS
<1>0. /\ place \in [Devices -> [Names -> Places]] /\ drive \in [Names -> SUBSET {"part", "whole"}]
      /\ delta \in [Names -> Deltas] /\ written \in [Devices -> Nat]
  BY DEF TypeOK
<1>1. ASSUME NEW d \in Devices, BeginExport(d)
      PROVE  NamesInv'
  <2> DEFINE n == <<d, written[d] + 1>>
  <2>1. /\ n \in Names /\ Owner(n) = d /\ n[2] = written[d] + 1 /\ written[d] \in Nat
        /\ drive[n] = {} /\ \A e \in Devices : place[e][n] = "none"
        /\ delta' = [delta EXCEPT ![n] = [id \in Unsynced(d) |-> rows[d][id]]]
        /\ place' = [place EXCEPT ![d][n] = "outbox"]
        /\ written' = [written EXCEPT ![d] = @ + 1] /\ UNCHANGED <<rows, drive>>
    BY <1>1, FreshName
  <2> HIDE DEF n
  <2>2. \A m \in Names : \A id \in DOMAIN delta'[m] :
          id \in DOMAIN rows'[Owner(m)] /\ delta'[m][id] = rows'[Owner(m)][id]
    <3> SUFFICES ASSUME NEW m \in Names, NEW id \in DOMAIN delta'[m]
                 PROVE  id \in DOMAIN rows'[Owner(m)] /\ delta'[m][id] = rows'[Owner(m)][id]
      OBVIOUS
    <3>0. rows' = rows
      BY <2>1
    <3>1. CASE m = n
      <4>1. delta'[m] = [i \in Unsynced(d) |-> rows[d][i]]
        BY <2>1, <3>1, <1>0
      <4> QED
        BY <2>1, <3>0, <3>1, <4>1 DEF Unsynced
    <3>2. CASE m # n
      BY <2>1, <3>0, <3>2, <1>0 DEF NamesInv
    <3> QED
      BY <3>1, <3>2
  <2>3. \A m \in Names : m[2] > written'[Owner(m)] => m # n /\ m[2] > written[Owner(m)]
    <3> SUFFICES ASSUME NEW m \in Names, m[2] > written'[Owner(m)]
                 PROVE  m # n /\ m[2] > written[Owner(m)]
      OBVIOUS
    <3>1. Owner(m) \in Devices /\ m[2] \in Nat
      BY NameFacts
    <3> QED
      BY <2>1, <3>1, <1>0
  <2>4. \A m \in Names : \A e \in Devices : place'[e][m] = IF m = n /\ e = d THEN "outbox" ELSE place[e][m]
    BY <2>1, <1>0
  <2>5. \A m \in Names : m # n => \A e \in Devices : place'[e][m] = place[e][m]
    BY <2>4
  <2>6. \A m \in Names : m[2] > written'[Owner(m)] =>
          drive'[m] = {} /\ \A e \in Devices : place'[e][m] = "none"
    BY <2>1, <2>3, <2>5 DEF NamesInv
  <2>7. \A m \in Names : drive'[m] # {} => place'[Owner(m)][m] # "none"
    BY <2>1, <2>5, NameFacts DEF NamesInv
  <2>8. \A m \in Names : \A e \in Devices :
          /\ place'[e][m] = "outbox" => Owner(m) = e
          /\ place'[e][m] = "inbox" => Owner(m) # e
    BY <2>1, <2>4 DEF NamesInv
  <2> QED
    BY <2>2, <2>6, <2>7, <2>8 DEF NamesInv
<1>2. ASSUME NEW d \in Devices, NEW n \in Names, Upload(d, n)
      PROVE  NamesInv'
  <2>1. place[d][n] = "outbox" /\ Owner(n) = d /\ ~(n[2] > written[Owner(n)])
    BY <1>2 DEF Upload, NamesInv
  <2>2. /\ drive' = [drive EXCEPT ![n] = @ \cup {IF n \in whole[d] THEN "whole" ELSE "part"}]
        /\ UNCHANGED <<rows, delta, written, place>>
    BY <1>2 DEF Upload
  <2> QED
    BY <2>1, <2>2, <1>0 DEF NamesInv
<1>3. ASSUME NEW d \in Devices, MovePushed(d)
      PROVE  NamesInv'
  <2> DEFINE n == push[d].name
  <2>1. n \in Names /\ place[d][n] = "outbox" /\ Owner(n) = d /\ ~(n[2] > written[Owner(n)])
    BY <1>3 DEF MovePushed, CyclesInv, NamesInv
  <2>2. place' = [place EXCEPT ![d][n] = "done"] /\ UNCHANGED <<rows, delta, written, drive>>
    BY <1>3 DEF MovePushed
  <2> HIDE DEF n
  <2>3. \A m \in Names : \A e \in Devices : place'[e][m] = IF m = n /\ e = d THEN "done" ELSE place[e][m]
    BY <2>1, <2>2, <1>0
  <2> QED
    BY <2>1, <2>2, <2>3, NameFacts DEF NamesInv
<1>4. ASSUME NEW d \in Devices, NEW n \in Names, BeginDownload(d, n)
      PROVE  NamesInv'
  <2>1. drive[n] # {} /\ place[d][n] = "none" /\ Owner(n) # d /\ ~(n[2] > written[Owner(n)])
    BY <1>4 DEF BeginDownload, NamesInv
  <2>2. place' = [place EXCEPT ![d][n] = "inbox"] /\ UNCHANGED <<rows, delta, written, drive>>
    BY <1>4 DEF BeginDownload
  <2>3. \A m \in Names : \A e \in Devices : place'[e][m] = IF m = n /\ e = d THEN "inbox" ELSE place[e][m]
    BY <2>2, <1>0
  <2> QED
    BY <2>1, <2>2, <2>3, NameFacts DEF NamesInv
<1>5. ASSUME NEW d \in Devices, MoveImported(d)
      PROVE  NamesInv'
  <2> DEFINE n == import[d].name
  <2>1. n \in Names /\ place[d][n] = "inbox" /\ Owner(n) # d /\ ~(n[2] > written[Owner(n)])
    BY <1>5 DEF MoveImported, CyclesInv, NamesInv
  <2>2. place' = [place EXCEPT ![d][n] = "done"] /\ UNCHANGED <<rows, delta, written, drive>>
    BY <1>5 DEF MoveImported
  <2> HIDE DEF n
  <2>3. \A m \in Names : \A e \in Devices : place'[e][m] = IF m = n /\ e = d THEN "done" ELSE place[e][m]
    BY <2>1, <2>2, <1>0
  <2> QED
    BY <2>1, <2>2, <2>3, NameFacts DEF NamesInv
<1>6. ASSUME NEW d \in Devices,
             \/ FinishWrite(d) \/ \E id \in 1 .. MaxRows : Mark(d, id) \/ SaveNext(d, id)
             \/ \E version \in {"part", "whole"} : FinishDownload(d, version)
             \/ \E n \in Names : Read(d, n)
             \/ FaultStep(d)
      PROVE  NamesInv'
  <2>1. UNCHANGED <<delta, written, place, drive>>
    BY <1>6 DEF FinishWrite, Mark, SaveNext, FinishDownload, Read, FaultStep, FailWrite, FailDownload,
                Crash, files
  <2> QED
    BY <2>1, NamesKept
<1>7. CASE UNCHANGED vars \/ \E c \in Contents : UserSaves(c)
  <2>1. UNCHANGED <<delta, written, place, drive>>
    BY <1>7 DEF UserSaves, vars, files
  <2> QED
    BY <2>1, NamesKept
<1> QED
  BY <1>1, <1>2, <1>3, <1>4, <1>5, <1>6, <1>7 DEF Next, ExportStep, PushStep, PullStep, ImportStep

(***************************************************************************)
(* What a step may do to a file.                                           *)
(***************************************************************************)
Pushed(d, n)   == MovePushed(d) /\ push[d].name = n
Imported(d, n) == MoveImported(d) /\ import[d].name = n

Moves ==
  \A d \in Devices, n \in Names :
    /\ place[d][n] # "none" => delta'[n] = delta[n] /\ place'[d][n] # "none"
    /\ place[d][n] # "none" /\ place'[d][n] # place[d][n] =>
         place'[d][n] = "done" /\ (Pushed(d, n) \/ Imported(d, n))
    /\ place[d][n] = "none" => place'[d][n] # "done"
    /\ drive[n] \subseteq drive'[n]
    /\ whole[d] \subseteq whole'[d]

LEMMA FilesMove == TypeOK /\ CyclesInv /\ NamesInv /\ [Next]_vars => Moves
<1> SUFFICES ASSUME TypeOK, CyclesInv, NamesInv, [Next]_vars
             PROVE  Moves
  OBVIOUS
<1>0. /\ place \in [Devices -> [Names -> Places]] /\ drive \in [Names -> SUBSET {"part", "whole"}]
      /\ delta \in [Names -> Deltas] /\ whole \in [Devices -> SUBSET Names]
  BY DEF TypeOK
<1>1. ASSUME NEW e \in Devices, BeginExport(e)
      PROVE  Moves
  <2> DEFINE m == <<e, written[e] + 1>>
  <2>1. /\ m \in Names /\ \A d \in Devices : place[d][m] = "none"
        /\ delta' = [delta EXCEPT ![m] = [id \in Unsynced(e) |-> rows[e][id]]]
        /\ place' = [place EXCEPT ![e][m] = "outbox"] /\ UNCHANGED <<whole, drive>>
    BY <1>1, FreshName
  <2> HIDE DEF m
  <2> QED
    BY <2>1, <1>0 DEF Moves
<1>2. ASSUME NEW e \in Devices, NEW m \in Names, Upload(e, m)
      PROVE  Moves
  BY <1>2, <1>0 DEF Upload, Moves
<1>3. ASSUME NEW e \in Devices, MovePushed(e)
      PROVE  Moves
  <2>1. push[e].name \in Names /\ place[e][push[e].name] = "outbox"
    BY <1>3 DEF MovePushed, CyclesInv
  <2>2. \A d \in Devices, n \in Names :
          place'[d][n] = IF d = e /\ n = push[e].name THEN "done" ELSE place[d][n]
    BY <1>3, <1>0, <2>1 DEF MovePushed
  <2>3. UNCHANGED <<delta, whole, drive>>
    BY <1>3 DEF MovePushed
  <2>4. \A d \in Devices, n \in Names : d = e /\ n = push[e].name => Pushed(d, n)
    BY <1>3 DEF Pushed
  <2> QED
    BY <2>1, <2>2, <2>3, <2>4 DEF Moves
<1>4. ASSUME NEW e \in Devices, NEW m \in Names, BeginDownload(e, m)
      PROVE  Moves
  BY <1>4, <1>0 DEF BeginDownload, Moves
<1>5. ASSUME NEW e \in Devices, MoveImported(e)
      PROVE  Moves
  <2>1. import[e].name \in Names /\ place[e][import[e].name] = "inbox"
    BY <1>5 DEF MoveImported, CyclesInv
  <2>2. \A d \in Devices, n \in Names :
          place'[d][n] = IF d = e /\ n = import[e].name THEN "done" ELSE place[d][n]
    BY <1>5, <1>0, <2>1 DEF MoveImported
  <2>3. UNCHANGED <<delta, whole, drive>>
    BY <1>5 DEF MoveImported
  <2>4. \A d \in Devices, n \in Names : d = e /\ n = import[e].name => Imported(d, n)
    BY <1>5 DEF Imported
  <2> QED
    BY <2>1, <2>2, <2>3, <2>4 DEF Moves
<1>6. ASSUME NEW d \in Devices,
             \/ FinishWrite(d) \/ \E id \in 1 .. MaxRows : Mark(d, id) \/ SaveNext(d, id)
             \/ \E version \in {"part", "whole"} : FinishDownload(d, version)
             \/ \E n \in Names : Read(d, n)
             \/ FaultStep(d)
      PROVE  Moves
  <2>1. UNCHANGED <<delta, place, drive>>
    BY <1>6 DEF FinishWrite, Mark, SaveNext, FinishDownload, Read, FaultStep, FailWrite, FailDownload,
                Crash, files
  <2>2. \A e \in Devices : whole[e] \subseteq whole'[e]
    <3>1. CASE FinishWrite(d)
      BY <3>1, <1>0 DEF FinishWrite
    <3>2. ASSUME NEW version, FinishDownload(d, version)
          PROVE  \A e \in Devices : whole[e] \subseteq whole'[e]
      BY <3>2, <1>0 DEF FinishDownload
    <3>3. CASE whole' = whole
      BY <3>3
    <3> QED
      BY <1>6, <3>1, <3>2, <3>3 DEF Mark, SaveNext, Read, FaultStep, FailWrite, FailDownload, Crash, files
  <2> QED
    BY <2>1, <2>2 DEF Moves
<1>7. CASE UNCHANGED vars \/ \E c \in Contents : UserSaves(c)
  BY <1>7 DEF UserSaves, vars, files, Moves
<1> QED
  BY <1>1, <1>2, <1>3, <1>4, <1>5, <1>6, <1>7 DEF Next, ExportStep, PushStep, PullStep, ImportStep

(***************************************************************************)
(* The files of the cycles under way.                                      *)
(***************************************************************************)
\* CyclesInv, cycle by cycle.
ExportInv(d) ==
  export[d].at # "idle" =>
    LET n == export[d].name IN
    /\ n \in Names /\ Owner(n) = d /\ place[d][n] \in {"outbox", "done"}
    /\ export[d].ids \subseteq DOMAIN delta[n]
    /\ export[d].at = "marking" => n \in whole[d]

PushInv(d) ==
  push[d].at = "moving" =>
    LET n == push[d].name IN n \in Names /\ place[d][n] = "outbox" /\ drive[n] # {}

PullInv(d) == pull[d].at = "loading" => pull[d].name \in Names

ImportInv(d) ==
  import[d].at = "saving" =>
    LET n == import[d].name IN
    /\ n \in Names /\ place[d][n] = "inbox" /\ import[d].todo \subseteq DOMAIN delta[n]
    /\ \A id \in DOMAIN delta[n] \ import[d].todo : delta[n][id] \in ContentOf(rows[d])

LEMMA CycleByCycle ==
  /\ CyclesInv <=> \A d \in Devices : ExportInv(d) /\ PushInv(d) /\ PullInv(d) /\ ImportInv(d)
  /\ CyclesInv' <=> \A d \in Devices : ExportInv(d)' /\ PushInv(d)' /\ PullInv(d)' /\ ImportInv(d)'
BY DEF CyclesInv, ExportInv, PushInv, PullInv, ImportInv

\* Who works on a file is not disturbed by a step of another cycle or device.
LEMMA CyclesKept ==
  ASSUME TypeOK, CyclesInv, NamesInv, [Next]_vars, NEW d \in Devices
  PROVE  /\ export'[d] = export[d] => ExportInv(d)'
         /\ push'[d] = push[d] => PushInv(d)'
         /\ pull'[d] = pull[d] => PullInv(d)'
         /\ import'[d] = import[d] => ImportInv(d)'
<1>0. ExportInv(d) /\ PushInv(d) /\ PullInv(d) /\ ImportInv(d)
  BY CycleByCycle
<1>1. Moves
  BY FilesMove
<1>2. ContentOf(rows[d]) \subseteq ContentOf(rows'[d])
  BY RowsGrow
<1>3. ASSUME NEW n \in Names
      PROVE  /\ Pushed(d, n) => push'[d].at = "idle" /\ push[d].at = "moving"
             /\ Imported(d, n) => import'[d].at = "idle" /\ import[d].at = "saving"
  BY DEF Pushed, Imported, MovePushed, MoveImported, NoCycle, NoImport, TypeOK
<1>4. ASSUME export'[d] = export[d]
      PROVE  ExportInv(d)'
  BY <1>0, <1>1, <1>4 DEF ExportInv, Moves
<1>5. ASSUME push'[d] = push[d]
      PROVE  PushInv(d)'
  <2> SUFFICES ASSUME push[d].at = "moving"
               PROVE  place'[d][push[d].name] = "outbox" /\ drive'[push[d].name] # {} /\ push[d].name \in Names
    BY <1>5 DEF PushInv
  <2> DEFINE n == push[d].name
  <2>1. n \in Names /\ place[d][n] = "outbox" /\ drive[n] # {}
    BY <1>0 DEF PushInv
  <2>2. ~Pushed(d, n)
    BY <1>3, <1>5, <2>1
  <2>3. ~Imported(d, n)
    BY <2>1 DEF Imported, MoveImported, CyclesInv
  <2>4. place'[d][n] = place[d][n] /\ drive[n] \subseteq drive'[n]
    BY <1>1, <2>1, <2>2, <2>3 DEF Moves
  <2> QED
    BY <2>1, <2>4
<1>6. ASSUME import'[d] = import[d]
      PROVE  ImportInv(d)'
  <2> SUFFICES ASSUME import[d].at = "saving"
               PROVE  ImportInv(d)'
    BY <1>6 DEF ImportInv
  <2> DEFINE n == import[d].name
  <2>1. n \in Names /\ place[d][n] = "inbox"
    BY <1>0 DEF ImportInv
  <2>2. ~Imported(d, n)
    BY <1>3, <1>6, <2>1
  <2>3. ~Pushed(d, n)
    BY <1>0, <2>1 DEF Pushed, MovePushed, PushInv
  <2>4. place'[d][n] = place[d][n] /\ delta'[n] = delta[n]
    BY <1>1, <2>1, <2>2, <2>3 DEF Moves
  <2> QED
    BY <1>0, <1>2, <1>6, <2>1, <2>4 DEF ImportInv
<1>7. ASSUME pull'[d] = pull[d]
      PROVE  PullInv(d)'
  BY <1>0, <1>7 DEF PullInv
<1> QED
  BY <1>4, <1>5, <1>6, <1>7

LEMMA CyclesStep == TypeOK /\ CyclesInv /\ NamesInv /\ [Next]_vars => CyclesInv'
<1> SUFFICES ASSUME TypeOK, CyclesInv, NamesInv, [Next]_vars
             PROVE  CyclesInv'
  OBVIOUS
<1> DEFINE Goal == \A d \in Devices : ExportInv(d)' /\ PushInv(d)' /\ PullInv(d)' /\ ImportInv(d)'
<1> USE DEF NoExport, NoCycle, NoImport, files
<1>0. /\ export \in [Devices -> Exports] /\ push \in [Devices -> [at : {"idle", "moving"}, name : AnyName]]
      /\ pull \in [Devices -> [at : {"idle", "loading"}, name : AnyName]]
      /\ import \in [Devices -> Imports]
      /\ place \in [Devices -> [Names -> Places]] /\ drive \in [Names -> SUBSET {"part", "whole"}]
      /\ delta \in [Names -> Deltas] /\ whole \in [Devices -> SUBSET Names]
  BY DEF TypeOK, Exports, Imports
<1>1. ASSUME NEW e \in Devices, ExportStep(e)
      PROVE  Goal
  <2>1. /\ UNCHANGED <<push, pull, import>>
        /\ \A d \in Devices : d # e => export'[d] = export[d]
    BY <1>1, <1>0 DEF ExportStep, BeginExport, FinishWrite, Mark
  <2>2. ExportInv(e)'
    <3>1. CASE BeginExport(e)
      <4> DEFINE n == <<e, written[e] + 1>>
      <4>1. /\ n \in Names /\ Owner(n) = e
            /\ delta' = [delta EXCEPT ![n] = [id \in Unsynced(e) |-> rows[e][id]]]
            /\ place' = [place EXCEPT ![e][n] = "outbox"]
            /\ export' = [export EXCEPT ![e] = [at |-> "writing", name |-> n, ids |-> Unsynced(e)]]
        BY <3>1, FreshName
      <4> HIDE DEF n
      <4>2. /\ export'[e] = [at |-> "writing", name |-> n, ids |-> Unsynced(e)]
            /\ delta'[n] = [id \in Unsynced(e) |-> rows[e][id]] /\ place'[e][n] = "outbox"
        BY <4>1, <1>0
      <4> QED
        BY <4>1, <4>2 DEF ExportInv
    <3>2. CASE FinishWrite(e)
      <4>1. /\ export'[e].name = export[e].name /\ export'[e].ids = export[e].ids
            /\ export[e].name \in whole'[e] /\ export[e].at = "writing"
            /\ UNCHANGED <<place, delta>>
        BY <3>2, <1>0 DEF FinishWrite, Exports
      <4> QED
        BY <4>1 DEF ExportInv, CyclesInv
    <3>3. ASSUME NEW id, Mark(e, id)
          PROVE  ExportInv(e)'
      <4>1. CASE export[e].ids = {id}
        <5>1. export'[e].at = "idle"
          BY <3>3, <4>1, <1>0 DEF Mark
        <5> QED
          BY <5>1 DEF ExportInv
      <4>2. CASE export[e].ids # {id}
        <5>1. /\ export'[e].name = export[e].name /\ export'[e].ids \subseteq export[e].ids
              /\ export'[e].at = export[e].at /\ export[e].at = "marking"
              /\ UNCHANGED <<place, delta, whole>>
          BY <3>3, <4>2, <1>0 DEF Mark, Exports
        <5> QED
          BY <5>1 DEF ExportInv, CyclesInv
      <4> QED
        BY <4>1, <4>2
    <3> QED
      BY <1>1, <3>1, <3>2, <3>3 DEF ExportStep
  <2> QED
    BY <2>1, <2>2, CyclesKept
<1>2. ASSUME NEW e \in Devices, PushStep(e)
      PROVE  Goal
  <2>1. /\ UNCHANGED <<export, pull, import>>
        /\ \A d \in Devices : d # e => push'[d] = push[d]
    BY <1>2, <1>0 DEF PushStep, MovePushed, Upload
  <2>2. PushInv(e)'
    <3>1. CASE MovePushed(e)
      BY <3>1, <1>0 DEF MovePushed, PushInv
    <3>2. ASSUME NEW n \in Names, Upload(e, n)
          PROVE  PushInv(e)'
      <4>1. push'[e] = [at |-> "moving", name |-> n] /\ place'[e][n] = "outbox" /\ drive'[n] # {}
        BY <3>2, <1>0 DEF Upload
      <4> QED
        BY <4>1 DEF PushInv
    <3> QED
      BY <1>2, <3>1, <3>2 DEF PushStep
  <2> QED
    BY <2>1, <2>2, CyclesKept
<1>3. ASSUME NEW e \in Devices, PullStep(e)
      PROVE  Goal
  <2>1. /\ UNCHANGED <<export, push, import>>
        /\ \A d \in Devices : d # e => pull'[d] = pull[d]
    BY <1>3, <1>0 DEF PullStep, BeginDownload, FinishDownload
  <2>2. PullInv(e)'
    BY <1>3, <1>0 DEF PullStep, BeginDownload, FinishDownload, PullInv
  <2> QED
    BY <2>1, <2>2, CyclesKept
<1>4. ASSUME NEW e \in Devices, ImportStep(e)
      PROVE  Goal
  <2>1. /\ UNCHANGED <<export, push, pull>>
        /\ \A d \in Devices : d # e => import'[d] = import[d]
    BY <1>4, <1>0 DEF ImportStep, MoveImported, Read, SaveNext
  <2>2. ImportInv(e)'
    <3>1. CASE MoveImported(e)
      BY <3>1, <1>0 DEF MoveImported, ImportInv
    <3>2. ASSUME NEW n \in Names, Read(e, n)
          PROVE  ImportInv(e)'
      <4>1. import'[e] = [at |-> "saving", name |-> n, todo |-> DOMAIN delta[n]]
            /\ place[e][n] = "inbox" /\ UNCHANGED <<place, delta>>
        BY <3>2, <1>0 DEF Read
      <4> QED
        BY <4>1 DEF ImportInv
    <3>3. ASSUME NEW id, SaveNext(e, id)
          PROVE  ImportInv(e)'
      <4> DEFINE n == import[e].name
      <4>1. n \in Names /\ id \in DOMAIN delta[n] /\ delta[n][id] \in Contents
        BY <3>3, SavedIsMemory
      <4>2. /\ import[e].at = "saving" /\ import'[e].name = n /\ import'[e].at = "saving"
            /\ import'[e].todo = import[e].todo \ {id} /\ UNCHANGED <<place, delta>>
        BY <3>3, <1>0 DEF SaveNext, Imports
      <4>3. rows'[e] = Append(rows[e], delta[n][id]) /\ rows[e] \in Seq(Contents)
        BY <3>3 DEF SaveNext, TypeOK
      <4>4. ContentOf(rows[e]) \subseteq ContentOf(rows'[e]) /\ delta[n][id] \in ContentOf(rows'[e])
        BY <4>1, <4>3, RowAppended
      <4>5. ImportInv(e)
        BY CycleByCycle
      <4>6. \A i \in DOMAIN delta[n] \ import'[e].todo : delta[n][i] \in ContentOf(rows'[e])
        BY <4>2, <4>4, <4>5 DEF ImportInv
      <4> QED
        BY <4>2, <4>5, <4>6 DEF ImportInv
    <3> QED
      BY <1>4, <3>1, <3>2, <3>3 DEF ImportStep
  <2> QED
    BY <2>1, <2>2, CyclesKept
<1>5. ASSUME NEW e \in Devices, FaultStep(e)
      PROVE  Goal
  <2>1. \A d \in Devices :
          /\ export'[d] = export[d] \/ export'[d].at = "idle"
          /\ push'[d] = push[d] \/ push'[d].at = "idle"
          /\ pull'[d] = pull[d] \/ pull'[d].at = "idle"
          /\ import'[d] = import[d] \/ import'[d].at = "idle"
    BY <1>5, <1>0 DEF FaultStep, FailWrite, FailDownload, Crash
  <2> QED
    BY <2>1, CyclesKept DEF ExportInv, PushInv, PullInv, ImportInv
<1>6. ASSUME UNCHANGED vars \/ \E c \in Contents : UserSaves(c)
      PROVE  Goal
  <2>1. UNCHANGED <<export, push, pull, import>>
    BY <1>6 DEF vars, cycles, UserSaves
  <2>2. \A d \in Devices : /\ export'[d] = export[d] /\ push'[d] = push[d]
                          /\ pull'[d] = pull[d] /\ import'[d] = import[d]
    BY <2>1
  <2> QED
    BY <2>2, CyclesKept
<1> HIDE DEF Goal
<1>7. Goal
  BY <1>1, <1>2, <1>3, <1>4, <1>5, <1>6 DEF Next
<1> QED
  BY <1>7, CycleByCycle DEF Goal

(***************************************************************************)
(* The two safety properties.                                              *)
(***************************************************************************)
LEMMA MarkedStep ==
  TypeOK /\ CyclesInv /\ NamesInv /\ MarkedIsExported /\ [Next]_vars => MarkedIsExported'
<1> SUFFICES ASSUME TypeOK, CyclesInv, NamesInv, MarkedIsExported, [Next]_vars, NEW d \in Devices
             PROVE  /\ \A id \in synced'[d] : \E n \in whole'[d] :
                         /\ Owner(n) = d /\ place'[d][n] \in {"outbox", "done"}
                         /\ id \in DOMAIN rows'[d] \cap DOMAIN delta'[n] /\ delta'[n][id] = rows'[d][id]
                    /\ \A n \in Names : Owner(n) = d /\ place'[d][n] = "done" => drive'[n] # {}
  BY DEF MarkedIsExported
<1>0. Moves /\ whole[d] \subseteq Names /\ synced[d] \subseteq Ids
  BY FilesMove DEF TypeOK
<1>1. ASSUME NEW id \in synced[d] \cup IF export[d].at = "marking" THEN export[d].ids ELSE {}
      PROVE  \E n \in whole[d] :
               /\ Owner(n) = d /\ place[d][n] \in {"outbox", "done"}
               /\ id \in DOMAIN rows[d] \cap DOMAIN delta[n] /\ delta[n][id] = rows[d][id]
  <2>1. CASE id \in synced[d]
    BY <2>1 DEF MarkedIsExported
  <2>2. CASE export[d].at = "marking" /\ id \in export[d].ids
    <3> DEFINE n == export[d].name
    <3>1. n \in Names /\ Owner(n) = d /\ place[d][n] \in {"outbox", "done"} /\ n \in whole[d]
          /\ id \in DOMAIN delta[n]
      BY <2>2 DEF CyclesInv
    <3> QED
      BY <3>1 DEF NamesInv
  <2> QED
    BY <1>1, <2>1, <2>2
<1>2. synced'[d] \subseteq synced[d] \cup IF export[d].at = "marking" THEN export[d].ids ELSE {}
  <2>1. ASSUME NEW e \in Devices, NEW id, Mark(e, id)
        PROVE  synced'[d] \subseteq synced[d] \cup IF export[d].at = "marking" THEN export[d].ids ELSE {}
    BY <2>1 DEF Mark, TypeOK
  <2>2. \/ \E e \in Devices : \E id \in 1 .. MaxRows : Mark(e, id)
        \/ synced' = synced
    BY DEF Next, ExportStep, PushStep, PullStep, ImportStep, FaultStep, BeginExport, FinishWrite,
           MovePushed, Upload, BeginDownload, FinishDownload, MoveImported, Read, SaveNext, FailWrite,
           FailDownload, Crash, UserSaves, vars
  <2> QED
    BY <2>1, <2>2
<1>3. ASSUME NEW id \in synced'[d]
      PROVE  \E n \in whole'[d] :
               /\ Owner(n) = d /\ place'[d][n] \in {"outbox", "done"}
               /\ id \in DOMAIN rows'[d] \cap DOMAIN delta'[n] /\ delta'[n][id] = rows'[d][id]
  <2>1. PICK n \in whole[d] :
          /\ Owner(n) = d /\ place[d][n] \in {"outbox", "done"}
          /\ id \in DOMAIN rows[d] \cap DOMAIN delta[n] /\ delta[n][id] = rows[d][id]
    BY <1>1, <1>2, <1>3
  <2>2. n \in whole'[d] /\ place'[d][n] \in {"outbox", "done"} /\ delta'[n] = delta[n]
    BY <1>0, <2>1 DEF Moves
  <2>3. id \in DOMAIN rows'[d] /\ rows'[d][id] = rows[d][id]
    BY <2>1, RowsGrow
  <2> QED
    BY <2>1, <2>2, <2>3
<1>4. ASSUME NEW n \in Names, Owner(n) = d, place'[d][n] = "done"
      PROVE  drive'[n] # {}
  <2>1. drive[n] \subseteq drive'[n]
    BY <1>0 DEF Moves
  <2>2. drive[n] # {}
    <3>1. CASE place[d][n] = "done"
      BY <3>1, <1>4 DEF MarkedIsExported
    <3>2. CASE place[d][n] # "done"
      <4>1. Pushed(d, n) \/ Imported(d, n)
        BY <1>0, <1>4, <3>2 DEF Moves
      <4>2. CASE Pushed(d, n)
        BY <4>2 DEF Pushed, MovePushed, CyclesInv
      <4>3. CASE Imported(d, n)
        BY <4>3, <1>4 DEF Imported, MoveImported, CyclesInv, NamesInv
      <4> QED
        BY <4>1, <4>2, <4>3
    <3> QED
      BY <3>1, <3>2
  <2> QED
    BY <2>1, <2>2
<1> QED
  BY <1>3, <1>4

LEMMA DoneStep ==
  TypeOK /\ CyclesInv /\ NamesInv /\ DoneIsImported /\ [Next]_vars => DoneIsImported'
<1> SUFFICES ASSUME TypeOK, CyclesInv, NamesInv, DoneIsImported, [Next]_vars,
                    NEW d \in Devices, NEW n \in Names, Owner(n) # d, place'[d][n] = "done"
             PROVE  ContentOf(delta'[n]) \subseteq ContentOf(rows'[d])
  BY DEF DoneIsImported
<1>1. Moves /\ ContentOf(rows[d]) \subseteq ContentOf(rows'[d])
  BY FilesMove, RowsGrow
<1>2. place[d][n] # "none" /\ delta'[n] = delta[n]
  BY <1>1 DEF Moves
<1>3. ContentOf(delta[n]) \subseteq ContentOf(rows[d])
  <2>1. CASE place[d][n] = "done"
    BY <2>1 DEF DoneIsImported
  <2>2. CASE place[d][n] # "done"
    <3>1. Pushed(d, n) \/ Imported(d, n)
      BY <1>1, <1>2, <2>2 DEF Moves
    <3>2. CASE Pushed(d, n)
      BY <3>2 DEF Pushed, MovePushed, CyclesInv, NamesInv
    <3>3. CASE Imported(d, n)
      <4>1. import[d].at = "saving" /\ import[d].todo = {} /\ import[d].name = n
        BY <3>3 DEF Imported, MoveImported
      <4>2. \A id \in DOMAIN delta[n] : delta[n][id] \in ContentOf(rows[d])
        BY <4>1 DEF CyclesInv
      <4> QED
        BY <4>2 DEF ContentOf
    <3> QED
      BY <3>1, <3>2, <3>3
  <2> QED
    BY <2>1, <2>2
<1> QED
  BY <1>1, <1>2, <1>3

(***************************************************************************)
(* Nothing is lost.                                                        *)
(***************************************************************************)
\* The steps in which no file comes to inbox/ and no download ends.
LEMMA PartsKept ==
  ASSUME TypeOK, PartsInv, Moves, UNCHANGED <<drive, pull>>, spoiled \subseteq spoiled',
         \A d \in Devices, n \in Names : place'[d][n] = "inbox" => place[d][n] = "inbox"
  PROVE  PartsInv'
<1>1. ASSUME NEW d \in Devices PROVE whole[d] \subseteq whole'[d]
  <2>1. <<d, 1>> \in Names
    BY NameFacts
  <2> QED
    BY <2>1 DEF Moves
<1> QED
  BY <1>1 DEF PartsInv

LEMMA PartsStep ==
  TypeOK /\ CyclesInv /\ NamesInv /\ PartsInv /\ [Next]_vars => PartsInv'
<1> SUFFICES ASSUME TypeOK, CyclesInv, NamesInv, PartsInv, [Next]_vars
             PROVE  PartsInv'
  OBVIOUS
<1>0. /\ Moves
      /\ place \in [Devices -> [Names -> Places]] /\ drive \in [Names -> SUBSET {"part", "whole"}]
      /\ whole \in [Devices -> SUBSET Names] /\ DOMAIN pull = Devices
  BY FilesMove DEF TypeOK
<1>1. ASSUME NEW d \in Devices, BeginExport(d)
      PROVE  PartsInv'
  <2>1. /\ UNCHANGED <<drive, pull, spoiled>>
        /\ place' = [place EXCEPT ![d][<<d, written[d] + 1>>] = "outbox"]
    BY <1>1 DEF BeginExport
  <2>2. \A e \in Devices, n \in Names : place'[e][n] = "inbox" => place[e][n] = "inbox"
    BY <2>1, <1>0
  <2> QED
    BY <2>1, <2>2, <1>0, PartsKept
<1>2. ASSUME NEW d \in Devices, NEW n \in Names, Upload(d, n)
      PROVE  PartsInv'
  <2>1. /\ UNCHANGED <<place, whole, pull>> /\ spoiled \subseteq spoiled'
        /\ drive' = [drive EXCEPT ![n] = @ \cup {IF n \in whole[d] THEN "whole" ELSE "part"}]
        /\ n \notin whole[d] => n \in spoiled'
    BY <1>2 DEF Upload
  <2>2. \A m \in Names : "part" \in drive'[m] => m \in spoiled'
    BY <2>1, <1>0 DEF PartsInv
  <2> QED
    BY <2>1, <2>2 DEF PartsInv
<1>3. ASSUME NEW d \in Devices, MovePushed(d) \/ MoveImported(d)
      PROVE  PartsInv'
  <2>1. /\ UNCHANGED <<drive, pull, spoiled>>
        /\ \E n : place' = [place EXCEPT ![d][n] = "done"]
    BY <1>3 DEF MovePushed, MoveImported
  <2>2. \A e \in Devices, n \in Names : place'[e][n] = "inbox" => place[e][n] = "inbox"
    BY <2>1, <1>0
  <2> QED
    BY <2>1, <2>2, <1>0, PartsKept
<1>4. ASSUME NEW d \in Devices, NEW n \in Names, BeginDownload(d, n)
      PROVE  PartsInv'
  <2>1. /\ UNCHANGED <<drive, whole, spoiled>> /\ pull[d].at = "idle"
        /\ place' = [place EXCEPT ![d][n] = "inbox"]
        /\ pull'[d].at = "loading" /\ pull'[d].name = n
        /\ \A e \in Devices : e # d => pull'[e] = pull[e]
    BY <1>4, <1>0 DEF BeginDownload
  <2>2. \A e \in Devices, m \in Names :
          place'[e][m] = "inbox" => place[e][m] = "inbox" \/ (e = d /\ m = n)
    BY <2>1, <1>0
  <2> QED
    BY <2>1, <2>2 DEF PartsInv
<1>5. ASSUME NEW d \in Devices, NEW version \in {"part", "whole"}, FinishDownload(d, version)
      PROVE  PartsInv'
  <2> DEFINE n == pull[d].name
  <2>1. /\ UNCHANGED <<drive, place, spoiled>> /\ pull[d].at = "loading" /\ version \in drive[n]
        /\ \A e \in Devices : e # d => pull'[e] = pull[e] /\ whole'[e] = whole[e]
        /\ whole[d] \subseteq whole'[d]
        /\ version = "whole" => n \in whole'[d]
    BY <1>5, <1>0 DEF FinishDownload
  <2>2. n \in Names
    BY <2>1 DEF CyclesInv
  <2>3. n \in whole'[d] \/ n \in spoiled
    BY <2>1, <2>2 DEF PartsInv
  <2> HIDE DEF n
  <2>4. ASSUME NEW e \in Devices, NEW m \in Names, place'[e][m] = "inbox", m \notin whole'[e],
               m \notin spoiled'
        PROVE  pull'[e].at = "loading" /\ pull'[e].name = m
    <3>1. pull[e].at = "loading" /\ pull[e].name = m
      BY <2>1, <2>4 DEF PartsInv
    <3>2. e # d
      BY <2>1, <2>3, <2>4, <3>1 DEF n
    <3> QED
      BY <2>1, <3>1, <3>2
  <2> QED
    BY <2>1, <2>4 DEF PartsInv
<1>6. ASSUME NEW d \in Devices, FailDownload(d) \/ Crash(d)
      PROVE  PartsInv'
  <2>1. /\ UNCHANGED <<drive, place, whole>> /\ spoiled \subseteq spoiled'
        /\ pull[d].at = "loading" => pull[d].name \in spoiled'
        /\ \A e \in Devices : e # d => pull'[e] = pull[e]
    BY <1>6, <1>0 DEF FailDownload, Crash
  <2> QED
    BY <2>1 DEF PartsInv
<1>7. ASSUME \/ \E d \in Devices :
                  \/ FinishWrite(d) \/ FailWrite(d) \/ \E n \in Names : Read(d, n)
                  \/ \E id \in 1 .. MaxRows : Mark(d, id) \/ SaveNext(d, id)
             \/ UNCHANGED vars \/ \E c \in Contents : UserSaves(c)
      PROVE  PartsInv'
  <2>1. UNCHANGED <<drive, place, pull, spoiled>>
    BY <1>7 DEF FinishWrite, FailWrite, Read, Mark, SaveNext, UserSaves, vars, files, cycles
  <2> QED
    BY <2>1, <1>0, PartsKept
<1> QED
  BY <1>1, <1>2, <1>3, <1>4, <1>5, <1>6, <1>7
  DEF Next, ExportStep, PushStep, PullStep, ImportStep, FaultStep

\* The file a synced memory was exported in is on its way to each other device, or
\* there, by what is known of it in each directory.
LEMMA NothingLost ==
  ASSUME TypeOK, NamesInv, MarkedIsExported, DoneIsImported, PartsInv
  PROVE  NothingIsLost
<1> SUFFICES ASSUME NEW d \in Devices, NEW e \in Devices \ {d}, NEW id \in synced[d]
             PROVE  \E n \in whole[d] :
                      /\ Owner(n) = d /\ id \in DOMAIN rows[d] \cap DOMAIN delta[n]
                      /\ delta[n][id] = rows[d][id]
                      /\ rows[d][id] \in ContentOf(rows[e]) \/ Underway(n, e) \/ n \in spoiled
  BY DEF NothingIsLost
<1>1. PICK n \in whole[d] :
        /\ Owner(n) = d /\ place[d][n] \in {"outbox", "done"}
        /\ id \in DOMAIN rows[d] \cap DOMAIN delta[n] /\ delta[n][id] = rows[d][id]
  BY DEF MarkedIsExported
<1>2. n \in Names /\ place[e][n] \in Places /\ drive[n] \subseteq {"part", "whole"}
  BY DEF TypeOK
<1>3. CASE place[d][n] = "outbox"
  BY <1>1, <1>3 DEF Underway
<1>4. CASE place[d][n] = "done" /\ n \notin spoiled
  <2>1. drive[n] = {"whole"}
    BY <1>1, <1>2, <1>4 DEF MarkedIsExported, PartsInv
  <2>2. CASE place[e][n] = "none"
    BY <1>1, <2>1, <2>2 DEF Underway
  <2>3. CASE place[e][n] = "inbox"
    BY <1>1, <1>2, <1>4, <2>3 DEF Underway, PartsInv
  <2>4. CASE place[e][n] = "done"
    <3>1. ContentOf(delta[n]) \subseteq ContentOf(rows[e])
      BY <1>1, <1>2, <2>4 DEF DoneIsImported
    <3>2. rows[d][id] \in ContentOf(delta[n])
      BY <1>1 DEF ContentOf
    <3> QED
      BY <1>1, <3>1, <3>2
  <2>5. place[e][n] # "outbox"
    BY <1>1, <1>2 DEF NamesInv
  <2> QED
    BY <1>2, <2>2, <2>3, <2>4, <2>5 DEF Places
<1> QED
  BY <1>1, <1>3, <1>4

(***************************************************************************)
(* The theorem.                                                            *)
(***************************************************************************)
LEMMA SyncInitInv == Init => SyncInv
<1> SUFFICES ASSUME Init
             PROVE  SyncInv
  OBVIOUS
<1> USE DEF Init, NoExport, NoCycle, NoImport
<1>1. TypeOK
  <2>1. rows \in [Devices -> Seq(Contents)] /\ \A d \in Devices : Len(rows[d]) <= MaxRows
    OBVIOUS
  <2>2. delta \in [Names -> Deltas]
    <3>1. [id \in {} |-> id] \in [{} -> Contents]
      OBVIOUS
    <3> QED
      BY <3>1 DEF Deltas
  <2>3. /\ written \in [Devices -> Nat] /\ \A d \in Devices : written[d] <= MaxDeltas[d]
        /\ place \in [Devices -> [Names -> Places]] /\ drive \in [Names -> SUBSET {"part", "whole"}]
        /\ synced \in [Devices -> SUBSET Ids] /\ whole \in [Devices -> SUBSET Names]
        /\ spoiled \in SUBSET Names /\ faults \in 0 .. MaxFaults
    BY DEF Places
  <2>4. /\ export \in [Devices -> [at : {"idle", "writing", "marking"}, name : AnyName, ids : SUBSET Ids]]
        /\ push \in [Devices -> [at : {"idle", "moving"}, name : AnyName]]
        /\ pull \in [Devices -> [at : {"idle", "loading"}, name : AnyName]]
        /\ import \in [Devices -> [at : {"idle", "saving"}, name : AnyName, todo : SUBSET Ids]]
    BY DEF AnyName
  <2> QED
    BY <2>1, <2>2, <2>3, <2>4 DEF TypeOK
<1>2. NamesInv
  BY NameFacts DEF NamesInv
<1>3. CyclesInv
  BY DEF CyclesInv
<1>4. MarkedIsExported /\ DoneIsImported /\ PartsInv /\ NothingIsLost
  BY DEF MarkedIsExported, DoneIsImported, PartsInv, NothingIsLost
<1> QED
  BY <1>1, <1>2, <1>3, <1>4 DEF SyncInv

\* The daemon's invariant: what is marked as synced was exported as a whole, and
\* what was put aside as imported was saved as a whole, whenever a device is
\* killed (exportDeltas and importDeltas of daemon.go).
THEOREM SyncSafe == Spec => []SyncInv
<1> DEFINE Inv == TypeOK /\ MarkedIsExported /\ DoneIsImported /\ NamesInv /\ CyclesInv /\ PartsInv
<1>1. Init => Inv
  BY SyncInitInv DEF SyncInv
<1>2. Inv /\ [Next]_vars => Inv'
  BY TypeStep, NamesStep, CyclesStep, MarkedStep, DoneStep, PartsStep
<1>3. Inv => SyncInv
  BY NothingLost DEF SyncInv
<1> QED
  BY <1>1, <1>2, <1>3, PTL DEF Spec

\* Device e has caught up with device d: d has exported and pushed all it has, and
\* e has put aside every file of d that is on 9Drive.
CaughtUp(d, e) ==
  /\ Unsynced(d) = {}
  /\ \A n \in Names : Owner(n) = d =>
       place[d][n] # "outbox" /\ (drive[n] # {} => place[e][n] = "done")

\* A device that has caught up has all memories of the other one, whatever was
\* interrupted on the way; the safety half of Arrives.
THEOREM CaughtUpHasAll ==
  Spec => [](\A d, e \in Devices :
               CaughtUp(d, e) => ContentOf(rows[d]) \subseteq ContentOf(rows[e]))
<1>1. ASSUME SyncInv, NEW d \in Devices, NEW e \in Devices, CaughtUp(d, e)
      PROVE  ContentOf(rows[d]) \subseteq ContentOf(rows[e])
  <2> SUFFICES ASSUME d # e, NEW id \in DOMAIN rows[d] PROVE rows[d][id] \in ContentOf(rows[e])
    BY DEF ContentOf
  <2>1. id \in synced[d]
    BY <1>1 DEF CaughtUp, Unsynced
  <2>2. PICK n \in whole[d] :
          /\ Owner(n) = d /\ place[d][n] \in {"outbox", "done"}
          /\ id \in DOMAIN delta[n] /\ delta[n][id] = rows[d][id]
    BY <1>1, <2>1 DEF SyncInv, MarkedIsExported
  <2>3. n \in Names
    BY <1>1 DEF SyncInv, TypeOK
  <2>4. place[e][n] = "done"
    BY <1>1, <2>2, <2>3 DEF CaughtUp, SyncInv, MarkedIsExported
  <2>5. ContentOf(delta[n]) \subseteq ContentOf(rows[e])
    BY <1>1, <2>2, <2>3, <2>4 DEF SyncInv, DoneIsImported
  <2> QED
    BY <2>2, <2>5 DEF ContentOf
<1>2. SyncInv => \A d, e \in Devices :
                   CaughtUp(d, e) => ContentOf(rows[d]) \subseteq ContentOf(rows[e])
  BY <1>1
<1> QED
  BY SyncSafe, <1>2, PTL
=============================================================================
