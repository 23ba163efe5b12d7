------------------------------- MODULE SyncDaemon -------------------------------
(***************************************************************************)
(* The memory sync daemon (internal/sync/daemon.go) on several devices     *)
(* that share one 9Drive account.  The autonomy engine runs the daemon's   *)
(* four timeframes, each on a goroutine of its own: memory_export writes   *)
(* the unsynced memories to a delta file in outbox/ and marks them,        *)
(* ninedrive_push uploads what is in outbox/ and moves it to done/,        *)
(* ninedrive_pull downloads what the device has nowhere to inbox/, and     *)
(* memory_import saves the memories of what is in inbox/ and moves it to   *)
(* done/.  A device may be killed at any moment.                           *)
(*                                                                         *)
(* A cycle works on the list of files it has read when it began.  The list *)
(* is left out: only the cycle itself takes files from the directory it    *)
(* lists, so that a cycle over several files is the same as several cycles *)
(* over one, and a cycle that finds nothing to do is no step.              *)
(***************************************************************************)
EXTENDS Naturals, Sequences

CONSTANTS
  Devices,
  Contents,    \* what users save
  Author,      \* the device on which each of them is saved
  MaxRows,     \* bound: memories of a device
  MaxDeltas,   \* bound: delta files each device writes
  MaxFaults    \* bound: kills, failed writes and failed downloads

ASSUME SyncDaemonAssumption ==
  /\ Author \in [Contents -> Devices]
  /\ MaxRows \in Nat \ {0} /\ MaxDeltas \in [Devices -> Nat \ {0}] /\ MaxFaults \in Nat

VARIABLES
  rows,     \* the memories of each device, by ID
  synced,   \* the IDs with a complete entry in sync_log
  delta,    \* the memories each delta file was made from, by their IDs
  written,  \* how many delta files each device has begun
  place,    \* the directory a device has a file in
  whole,    \* the files of a device that are complete
  drive,    \* what 9Drive holds under a file's name
  export, push, pull, import, \* the cycles under way
  spoiled,  \* files that were uploaded or downloaded in part
  faults

files  == <<delta, written, place, whole, drive, spoiled>>
cycles == <<export, push, pull, import>>
vars   == <<rows, synced, files, cycles, faults>>

Names  == UNION {{d} \X (1..MaxDeltas[d]) : d \in Devices}
Owner(n) == n[1]
NoFile == <<"none", 0>>

Holding(d, where) == {n \in Names : place[d][n] = where}
ContentOf(list) == {list[i] : i \in DOMAIN list}

NoExport == [at |-> "idle", name |-> NoFile, ids |-> {}]
NoCycle  == [at |-> "idle", name |-> NoFile]
NoImport == [at |-> "idle", name |-> NoFile, todo |-> {}]

Init ==
  /\ rows = [d \in Devices |-> <<>>]
  /\ synced = [d \in Devices |-> {}]
  /\ delta = [n \in Names |-> [id \in {} |-> id]]
  /\ written = [d \in Devices |-> 0]
  /\ place = [d \in Devices |-> [n \in Names |-> "none"]]
  /\ whole = [d \in Devices |-> {}]
  /\ drive = [n \in Names |-> {}]
  /\ export = [d \in Devices |-> NoExport]
  /\ push = [d \in Devices |-> NoCycle]
  /\ pull = [d \in Devices |-> NoCycle]
  /\ import = [d \in Devices |-> NoImport]
  /\ spoiled = {}
  /\ faults = 0

Fault == faults < MaxFaults /\ faults' = faults + 1

\* A memory of the user; Save gives it the next ID.
UserSaves(c) ==
  LET d == Author[c] IN
  /\ c \notin ContentOf(rows[d])
  /\ Len(rows[d]) < MaxRows
  /\ rows' = [rows EXCEPT ![d] = Append(@, c)]
  /\ UNCHANGED <<synced, files, cycles, faults>>

(***************************************************************************)
(* memory_export: exportDeltas.                                            *)
(***************************************************************************)
\* GetUnsyncedMemories: also what was imported from another device.
Unsynced(d) == DOMAIN rows[d] \ synced[d]

\* The file is made, and still empty.
BeginExport(d) ==
  LET n == <<d, written[d] + 1>> IN
  /\ export[d].at = "idle"
  /\ Unsynced(d) # {} /\ written[d] < MaxDeltas[d]
  /\ written' = [written EXCEPT ![d] = @ + 1]
  /\ delta' = [delta EXCEPT ![n] = [id \in Unsynced(d) |-> rows[d][id]]]
  /\ place' = [place EXCEPT ![d][n] = "outbox"]
  /\ export' = [export EXCEPT ![d] = [at |-> "writing", name |-> n, ids |-> Unsynced(d)]]
  /\ UNCHANGED <<rows, synced, whole, drive, spoiled, push, pull, import, faults>>

FinishWrite(d) ==
  /\ export[d].at = "writing"
  /\ whole' = [whole EXCEPT ![d] = @ \cup {export[d].name}]
  /\ export' = [export EXCEPT ![d].at = "marking"]
  /\ UNCHANGED <<rows, synced, delta, written, place, drive, spoiled, push, pull, import, faults>>

\* Mutant: the memories of a file that could not be written are marked.
FailWriteMarking(d) ==
  /\ export[d].at = "writing"
  /\ Fault
  /\ export' = [export EXCEPT ![d].at = "marking"]
  /\ UNCHANGED <<rows, synced, files, push, pull, import>>

\* WriteFile returns an error; nothing is marked, the file stays as it is.
FailWrite(d) ==
  /\ export[d].at = "writing"
  /\ Fault
  /\ export' = [export EXCEPT ![d] = NoExport]
  /\ UNCHANGED <<rows, synced, files, push, pull, import>>

\* MarkSynced, memory by memory.
Mark(d, id) ==
  /\ export[d].at = "marking"
  /\ id \in export[d].ids /\ \A other \in export[d].ids : id <= other
  /\ synced' = [synced EXCEPT ![d] = @ \cup {id}]
  /\ export' = IF export[d].ids = {id} THEN [export EXCEPT ![d] = NoExport]
               ELSE [export EXCEPT ![d].ids = @ \ {id}]
  /\ UNCHANGED <<rows, files, push, pull, import, faults>>

(***************************************************************************)
(* ninedrive_push: ninedrivePushDeltas.                                    *)
(***************************************************************************)
\* Mutant: a file is moved though its upload has failed.
UploadUnchecked(d, n) ==
  /\ push[d].at = "idle" /\ place[d][n] = "outbox"
  /\ push' = [push EXCEPT ![d] = [at |-> "moving", name |-> n]]
  /\ UNCHANGED <<rows, synced, files, export, pull, import, faults>>

\* The file is uploaded as it is at that moment, also while it is written.
Upload(d, n) ==
  /\ push[d].at = "idle" /\ place[d][n] = "outbox"
  /\ drive' = [drive EXCEPT ![n] = @ \cup {IF n \in whole[d] THEN "whole" ELSE "part"}]
  /\ spoiled' = IF n \in whole[d] THEN spoiled ELSE spoiled \cup {n}
  /\ push' = [push EXCEPT ![d] = [at |-> "moving", name |-> n]]
  /\ UNCHANGED <<rows, synced, delta, written, place, whole, export, pull, import, faults>>

\* The upload succeeded; one that fails leaves the file for the next cycle.
MovePushed(d) ==
  /\ push[d].at = "moving"
  /\ place' = [place EXCEPT ![d][push[d].name] = "done"]
  /\ push' = [push EXCEPT ![d] = NoCycle]
  /\ UNCHANGED <<rows, synced, delta, written, whole, drive, spoiled, export, pull, import, faults>>

(***************************************************************************)
(* ninedrive_pull: ninedrivePullDeltas.                                    *)
(***************************************************************************)
\* Only a file whose name is in none of the three directories is downloaded.
BeginDownload(d, n) ==
  /\ pull[d].at = "idle"
  /\ drive[n] # {} /\ place[d][n] = "none"
  /\ place' = [place EXCEPT ![d][n] = "inbox"]
  /\ pull' = [pull EXCEPT ![d] = [at |-> "loading", name |-> n]]
  /\ UNCHANGED <<rows, synced, delta, written, whole, drive, spoiled, export, push, import, faults>>

FinishDownload(d, version) ==
  LET n == pull[d].name IN
  /\ pull[d].at = "loading" /\ version \in drive[n]
  /\ whole' = [whole EXCEPT ![d] = IF version = "whole" THEN @ \cup {n} ELSE @]
  /\ pull' = [pull EXCEPT ![d] = NoCycle]
  /\ UNCHANGED <<rows, synced, delta, written, place, drive, spoiled, export, push, import, faults>>

\* What has arrived stays in inbox/, and is not downloaded again.
FailDownload(d) ==
  /\ pull[d].at = "loading"
  /\ Fault
  /\ spoiled' = spoiled \cup {pull[d].name}
  /\ pull' = [pull EXCEPT ![d] = NoCycle]
  /\ UNCHANGED <<rows, synced, delta, written, place, whole, drive, export, push, import>>

(***************************************************************************)
(* memory_import: importDeltas.                                            *)
(***************************************************************************)
\* What cannot be parsed is left in inbox/.
Read(d, n) ==
  /\ import[d].at = "idle"
  /\ place[d][n] = "inbox" /\ n \in whole[d]
  /\ import' = [import EXCEPT ![d] = [at |-> "saving", name |-> n, todo |-> DOMAIN delta[n]]]
  /\ UNCHANGED <<rows, synced, files, export, push, pull, faults>>

\* Save does not look for a memory of the same content.
SaveNext(d, id) ==
  /\ import[d].at = "saving"
  /\ id \in import[d].todo /\ \A other \in import[d].todo : id <= other
  /\ Len(rows[d]) < MaxRows
  /\ rows' = [rows EXCEPT ![d] = Append(@, delta[import[d].name][id])]
  /\ import' = [import EXCEPT ![d].todo = @ \ {id}]
  /\ UNCHANGED <<synced, files, export, push, pull, faults>>

MoveImported(d) ==
  /\ import[d].at = "saving" /\ import[d].todo = {}
  /\ place' = [place EXCEPT ![d][import[d].name] = "done"]
  /\ import' = [import EXCEPT ![d] = NoImport]
  /\ UNCHANGED <<rows, synced, delta, written, whole, drive, spoiled, export, push, pull, faults>>

(***************************************************************************)
(* The device is killed and started again.                                 *)
(***************************************************************************)
Crash(d) ==
  /\ Fault
  /\ spoiled' = IF pull[d].at = "loading" THEN spoiled \cup {pull[d].name} ELSE spoiled
  /\ export' = [export EXCEPT ![d] = NoExport]
  /\ push' = [push EXCEPT ![d] = NoCycle]
  /\ pull' = [pull EXCEPT ![d] = NoCycle]
  /\ import' = [import EXCEPT ![d] = NoImport]
  /\ UNCHANGED <<rows, synced, delta, written, place, whole, drive>>

-----------------------------------------------------------------------------
ExportStep(d) == BeginExport(d) \/ FinishWrite(d) \/ \E id \in 1..MaxRows : Mark(d, id)
PushStep(d)   == MovePushed(d) \/ \E n \in Names : Upload(d, n)
PullStep(d)   ==
  \/ \E n \in Names : BeginDownload(d, n)
  \/ \E version \in {"part", "whole"} : FinishDownload(d, version)
ImportStep(d) ==
  \/ MoveImported(d)
  \/ \E n \in Names : Read(d, n)
  \/ \E id \in 1..MaxRows : SaveNext(d, id)

FaultStep(d) == FailWrite(d) \/ FailDownload(d) \/ Crash(d)

Next ==
  \/ \E d \in Devices :
       ExportStep(d) \/ PushStep(d) \/ PullStep(d) \/ ImportStep(d) \/ FaultStep(d)
  \/ \E c \in Contents : UserSaves(c)

\* The tickers of the engine begin every cycle again and again, and a cycle
\* goes through its list.
Fairness ==
  \A d \in Devices :
    WF_vars(ExportStep(d)) /\ WF_vars(PushStep(d)) /\ WF_vars(PullStep(d)) /\ WF_vars(ImportStep(d))

Spec == Init /\ [][Next]_vars /\ Fairness

-----------------------------------------------------------------------------
Places  == {"none", "outbox", "inbox", "done"}
AnyName == Names \cup {NoFile}
Ids     == 1..MaxRows
Deltas  == UNION {[ids -> Contents] : ids \in SUBSET Ids}

TypeOK ==
  /\ rows \in [Devices -> Seq(Contents)] /\ \A d \in Devices : Len(rows[d]) <= MaxRows
  /\ synced \in [Devices -> SUBSET Ids]
  /\ delta \in [Names -> Deltas]
  /\ written \in [Devices -> Nat] /\ \A d \in Devices : written[d] <= MaxDeltas[d]
  /\ place \in [Devices -> [Names -> Places]]
  /\ whole \in [Devices -> SUBSET Names]
  /\ drive \in [Names -> SUBSET {"part", "whole"}]
  /\ export \in [Devices -> [at : {"idle", "writing", "marking"}, name : AnyName, ids : SUBSET Ids]]
  /\ push \in [Devices -> [at : {"idle", "moving"}, name : AnyName]]
  /\ pull \in [Devices -> [at : {"idle", "loading"}, name : AnyName]]
  /\ import \in [Devices -> [at : {"idle", "saving"}, name : AnyName, todo : SUBSET Ids]]
  /\ spoiled \in SUBSET Names
  /\ faults \in 0..MaxFaults

\* A memory counts as synced only when a complete delta file of its device has
\* its content, whenever the device is killed; and a file leaves outbox/ only
\* when 9Drive has it.
MarkedIsExported ==
  \A d \in Devices :
    /\ \A id \in synced[d] : \E n \in whole[d] :
         /\ Owner(n) = d /\ place[d][n] \in {"outbox", "done"}
         /\ id \in DOMAIN rows[d] \cap DOMAIN delta[n] /\ delta[n][id] = rows[d][id]
    /\ \A n \in Names : Owner(n) = d /\ place[d][n] = "done" => drive[n] # {}

\* A file of another device leaves inbox/ only when all its memories were saved,
\* however the four cycles and the crashes fall.
DoneIsImported ==
  \A d \in Devices, n \in Names :
    Owner(n) # d /\ place[d][n] = "done" => ContentOf(delta[n]) \subseteq ContentOf(rows[d])

\* Names are used up in their order, and a file comes to 9Drive from outbox/ and
\* to inbox/ from 9Drive.
NamesInv ==
  \A n \in Names :
    /\ \A id \in DOMAIN delta[n] :
         id \in DOMAIN rows[Owner(n)] /\ delta[n][id] = rows[Owner(n)][id]
    /\ n[2] > written[Owner(n)] => drive[n] = {} /\ \A d \in Devices : place[d][n] = "none"
    /\ drive[n] # {} => place[Owner(n)][n] # "none"
    /\ \A d \in Devices :
         /\ place[d][n] = "outbox" => Owner(n) = d
         /\ place[d][n] = "inbox" => Owner(n) # d

\* What a cycle knows of the file it works on.
CyclesInv ==
  \A d \in Devices :
    /\ export[d].at # "idle" =>
         LET n == export[d].name IN
         /\ n \in Names /\ Owner(n) = d /\ place[d][n] \in {"outbox", "done"}
         /\ export[d].ids \subseteq DOMAIN delta[n]
         /\ export[d].at = "marking" => n \in whole[d]
    /\ push[d].at = "moving" =>
         LET n == push[d].name IN n \in Names /\ place[d][n] = "outbox" /\ drive[n] # {}
    /\ pull[d].at = "loading" => pull[d].name \in Names
    /\ import[d].at = "saving" =>
         LET n == import[d].name IN
         /\ n \in Names /\ place[d][n] = "inbox" /\ import[d].todo \subseteq DOMAIN delta[n]
         /\ \A id \in DOMAIN delta[n] \ import[d].todo : delta[n][id] \in ContentOf(rows[d])

\* What arrives in part is known as spoiled, and what lies in inbox/ and cannot be
\* read is spoiled or still being loaded.
PartsInv ==
  /\ \A n \in Names : "part" \in drive[n] => n \in spoiled
  /\ \A d \in Devices, n \in Names :
       place[d][n] = "inbox" /\ n \notin whole[d] /\ n \notin spoiled =>
         pull[d].at = "loading" /\ pull[d].name = n

\* Some cycle of the owner or of device e has still to work on file n, and can.
Underway(n, e) ==
  \/ place[Owner(n)][n] = "outbox" /\ n \in whole[Owner(n)]
  \/ drive[n] = {"whole"} /\ place[e][n] = "none"
  \/ place[e][n] = "inbox" /\ (n \in whole[e] \/ (pull[e].at = "loading" /\ pull[e].name = n))

\* A memory that counts as synced has reached each other device, or is in a file
\* on its way there, unless that file was uploaded or downloaded in part.
NothingIsLost ==
  \A d \in Devices : \A e \in Devices \ {d} : \A id \in synced[d] :
    \E n \in whole[d] :
      /\ Owner(n) = d /\ id \in DOMAIN rows[d] \cap DOMAIN delta[n] /\ delta[n][id] = rows[d][id]
      /\ rows[d][id] \in ContentOf(rows[e]) \/ Underway(n, e) \/ n \in spoiled

\* The inductive invariant of the daemons; NothingIsLost follows from the rest.
SyncInv ==
  TypeOK /\ MarkedIsExported /\ DoneIsImported /\ NamesInv /\ CyclesInv /\ PartsInv /\ NothingIsLost

\* What is saved on one device arrives on every other one, unless a file was
\* uploaded or downloaded in part.
Arrives ==
  \A c \in Contents : \A e \in Devices \ {Author[c]} :
    c \in ContentOf(rows[Author[c]]) ~> (c \in ContentOf(rows[e]) \/ spoiled # {})
=============================================================================
