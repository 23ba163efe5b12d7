------------------------ MODULE BlueprintRunnerProofs ------------------------
(***************************************************************************)
(* Theorems about BlueprintRunner for every set of roles, every blueprint, *)
(* every limit of concurrency and any number of interrupted processes.     *)
(***************************************************************************)
EXTENDS BlueprintRunner, FiniteSetTheorems, WellFoundedInduction, TLAPS

-----------------------------------------------------------------------------
(***************************************************************************)
(* The order of the roles.  A role has a position in the loop: its wave,   *)
(* or its place when the waves are flattened.                              *)
(***************************************************************************)
Before(l, r)  == {s \in Roles : l[s] < l[r] \/ (l[s] = l[r] /\ s < r)}
Rank(l, r)    == Cardinality(Before(l, r))
LevelSet(l, i) == {r \in Roles : l[r] = i}
Position(l, flat, s, r) == IF s = "run" /\ flat THEN Rank(l, r) ELSE l[r]

\* A nonempty set of natural numbers has a least element.
LEMMA LeastNumber ==
  ASSUME NEW T \in SUBSET Nat, T # {}
  PROVE  \E x \in T : \A y \in T : x <= y
<1> DEFINE down(x) == 0 .. x
           D == {down(x) : x \in T}
<1>1. D \subseteq FiniteSubsetsOf(Nat) /\ D # {}
  <2>1. \A x \in T : x \in Nat /\ down(x) \in SUBSET Nat
    OBVIOUS
  <2>2. \A x \in T : IsFiniteSet(down(x))
    BY <2>1, FS_Interval
  <2>3. \A x \in T : down(x) \in FiniteSubsetsOf(Nat)
    BY <2>1, <2>2 DEF FiniteSubsetsOf
  <2>4. QED
    BY <2>3
<1>2. PICK m \in D : \A e \in D : ~(<<e, m>> \in StrictSubsetOrdering(Nat))
  BY <1>1, FS_StrictSubsetOrderingWellFounded, WFMin, Zenon
<1>3. PICK x \in T : m = down(x)
  OBVIOUS
<1>4. ASSUME NEW y \in T, y < x PROVE FALSE
  <2>1. down(y) \in D /\ down(y) \in SUBSET Nat /\ down(x) \in SUBSET Nat
    OBVIOUS
  <2>2. down(y) \subseteq down(x) /\ down(y) # down(x)
    BY <1>4
  <2>3. <<down(y), down(x)>> \in StrictSubsetOrdering(Nat)
    BY <2>1, <2>2 DEF StrictSubsetOrdering
  <2>4. QED
    BY <1>2, <1>3, <2>1, <2>3
<1>5. QED
  BY <1>4

\* A nonempty set of natural numbers with a bound has a greatest element.
LEMMA GreatestNumber ==
  ASSUME NEW n \in Nat, NEW T \in SUBSET (0 .. n), T # {}
  PROVE  \E x \in T : \A y \in T : x >= y
<1> DEFINE U == {n - x : x \in T}
<1>1. U \in SUBSET Nat /\ U # {}
  <2>1. \A x \in T : n - x \in Nat
    OBVIOUS
  <2>2. \E x \in T : n - x \in U
    OBVIOUS
  <2>3. QED
    BY <2>1, <2>2
<1>2. PICK u \in U : \A v \in U : u <= v
  BY <1>1, LeastNumber
<1>3. PICK x \in T : u = n - x
  BY <1>2
<1>4. ASSUME NEW y \in T PROVE x >= y
  <2>1. n - y \in U
    OBVIOUS
  <2>2. n - x <= n - y
    BY <1>2, <1>3, <2>1
  <2>3. QED
    BY <2>2
<1>5. QED
  BY <1>4

LEMMA IndexesAre ==
  /\ Cardinality(Roles) \in Nat \ {0}
  /\ Indexes \subseteq Nat
  /\ \A i : i \in Indexes <=> i \in Nat /\ i < Cardinality(Roles)
<1>1. Cardinality(Roles) \in Nat /\ Cardinality(Roles) # 0
  BY RunnerAssumption, FS_CardinalityType, FS_EmptySet
<1>2. QED
  BY <1>1 DEF Indexes

LEMMA BeforeFinite ==
  ASSUME NEW l, NEW r \in Roles
  PROVE  /\ Before(l, r) \in SUBSET Roles
         /\ IsFiniteSet(Before(l, r))
         /\ Rank(l, r) \in Nat
<1>1. Before(l, r) \in SUBSET Roles
  BY DEF Before
<1>2. QED
  BY <1>1, RunnerAssumption, FS_Subset, FS_CardinalityType DEF Rank

\* A role comes after those with fewer roles before them, whatever the tie.
LEMMA RankOrder ==
  ASSUME NEW l \in [Roles -> Indexes], NEW e \in Roles, NEW r \in Roles,
         l[e] < l[r] \/ (l[e] = l[r] /\ e < r)
  PROVE  Rank(l, e) < Rank(l, r)
<1>1. \A x \in Roles : l[x] \in Nat /\ x \in Nat
  BY IndexesAre, RunnerAssumption
<1>2. Before(l, e) \in SUBSET Before(l, r) /\ e \in Before(l, r) /\ e \notin Before(l, e)
  BY <1>1 DEF Before
<1>3. Cardinality(Before(l, e)) <= Cardinality(Before(l, r))
  BY <1>2, BeforeFinite, FS_Subset
<1>4. Cardinality(Before(l, e)) # Cardinality(Before(l, r))
  BY <1>2, BeforeFinite, FS_Subset
<1>5. QED
  BY <1>3, <1>4, BeforeFinite DEF Rank

LEMMA RankType ==
  ASSUME NEW l \in [Roles -> Indexes], NEW r \in Roles
  PROVE  Rank(l, r) \in Indexes
<1>1. l[r] \in Nat /\ r \in Nat
  BY IndexesAre, RunnerAssumption
<1>2. Before(l, r) \in SUBSET Roles /\ r \notin Before(l, r)
  BY <1>1 DEF Before
<1>3. /\ Cardinality(Before(l, r)) <= Cardinality(Roles)
      /\ Cardinality(Before(l, r)) # Cardinality(Roles)
  BY <1>2, RunnerAssumption, FS_Subset
<1>4. QED
  BY <1>3, BeforeFinite, IndexesAre DEF Rank

\* Every step of the flattened waves has its role.
LEMMA NoEmptyStep ==
  ASSUME NEW l \in [Roles -> Indexes], NEW i \in Indexes
  PROVE  \E r \in Roles : Rank(l, r) = i
<1> SUFFICES ASSUME \A r \in Roles : Rank(l, r) # i PROVE FALSE
  OBVIOUS
<1> DEFINE T == Indexes \ {i}
           f == [r \in Roles |-> Rank(l, r)]
<1>1. f \in [Roles -> T]
  BY RankType
<1>2. IsFiniteSet(Indexes) /\ Cardinality(Indexes) = Cardinality(Roles)
  BY IndexesAre, FS_Interval DEF Indexes
<1>3. IsFiniteSet(T) /\ Cardinality(T) < Cardinality(Roles)
  BY <1>2, IndexesAre, FS_RemoveElement
<1>4. PICK x \in Roles, y \in Roles : x # y /\ f[x] = f[y]
  <2> HIDE DEF T, f
  <2>1. IsFiniteSet(Roles)
    BY RunnerAssumption
  <2>2. \E x, y \in Roles : x # y /\ f[x] = f[y]
    BY <1>1, <1>3, <2>1, FS_PigeonHole, Zenon
  <2>3. QED
    BY <2>2, Zenon
<1>5. Rank(l, x) = Rank(l, y)
  BY <1>4 DEF f
<1>6. \A z \in Roles : l[z] \in Nat /\ z \in Nat /\ Rank(l, z) \in Nat
  BY IndexesAre, RunnerAssumption, BeforeFinite
<1>7. CASE l[x] < l[y] \/ (l[x] = l[y] /\ x < y)
  BY <1>5, <1>6, <1>7, RankOrder
<1>8. CASE l[y] < l[x] \/ (l[x] = l[y] /\ y < x)
  BY <1>5, <1>6, <1>8, RankOrder
<1>9. QED
  BY <1>4, <1>6, <1>7, <1>8

\* No wave is empty before the last one: a role beyond it would have a
\* dependency in the wave before its own, and so on down.
LEMMA NoEmptyLevel ==
  ASSUME NEW d \in [Roles -> SUBSET Roles], NEW l \in [Roles -> Indexes],
         BuildWaves(d, l), NEW i \in Nat, LevelSet(l, i) = {}, NEW r \in Roles
  PROVE  l[r] < i
<1>1. \A x \in Roles : l[x] \in Nat
  BY IndexesAre
<1> DEFINE T == {l[x] : x \in {y \in Roles : l[y] >= i}}
<1>2. SUFFICES ASSUME l[r] >= i PROVE FALSE
  BY <1>1
<1>3. T \in SUBSET Nat /\ T # {}
  <2>1. r \in {y \in Roles : l[y] >= i}
    BY <1>2
  <2>2. QED
    BY <1>1, <2>1
<1>4. PICK m \in T : \A y \in T : m <= y
  BY <1>3, LeastNumber
<1>5. PICK x \in Roles : m = l[x] /\ l[x] >= i
  OBVIOUS
<1>6. l[x] > i
  BY <1>1, <1>5 DEF LevelSet
<1>7. PICK e \in d[x] : l[e] = l[x] - 1
  BY <1>1, <1>6 DEF BuildWaves
<1>8. e \in Roles /\ l[e] >= i
  BY <1>1, <1>6, <1>7
<1>9. l[e] \in T
  BY <1>8
<1>10. m <= l[e]
  BY <1>4, <1>9
<1>11. QED
  BY <1>1, <1>5, <1>7, <1>8, <1>10
-----------------------------------------------------------------------------
(***************************************************************************)
(* The type invariant.                                                     *)
(***************************************************************************)
LEMMA WaveType ==
  ASSUME NEW s, NEW i
  PROVE  Wave(s, i) \in SUBSET Roles
BY DEF Wave, SerialStep, DependencyWave

\* The roles of a turn of the loop are those with its index as their position.
LEMMA WaveIs ==
  ASSUME NEW s, NEW i
  PROVE  Wave(s, i) = {r \in Roles : Position(level, serial, s, r) = i}
BY DEF Wave, SerialStep, DependencyWave, Position, Rank, Before

LEMMA PositionType ==
  ASSUME level \in [Roles -> Indexes], NEW s, NEW r \in Roles
  PROVE  Position(level, serial, s, r) \in Indexes
BY RankType DEF Position

\* A role is behind its dependencies, whichever way the waves are executed.
LEMMA PositionOrder ==
  ASSUME level \in [Roles -> Indexes], NEW s, NEW e \in Roles, NEW r \in Roles,
         level[e] < level[r]
  PROVE  Position(level, serial, s, e) < Position(level, serial, s, r)
BY RankOrder DEF Position

\* Where the loop has no roles left it has passed them all.
LEMMA NothingLeft ==
  ASSUME TypeOK, BuildWaves(deps, level), NEW s, NEW i \in Nat,
         i \notin Indexes \/ Wave(s, i) = {},
         NEW r \in Roles
  PROVE  Position(level, serial, s, r) < i
<1>1. Position(level, serial, s, r) \in Indexes
  BY PositionType DEF TypeOK
<1>2. CASE i \notin Indexes
  BY <1>1, <1>2, IndexesAre
<1>3. CASE i \in Indexes /\ s = "run" /\ serial
  <2>1. PICK x \in Roles : Rank(level, x) = i
    BY <1>3, NoEmptyStep DEF TypeOK
  <2>2. x \in Wave(s, i)
    BY <1>3, <2>1, WaveIs DEF Position
  <2>3. QED
    BY <1>3, <2>2
<1>4. CASE i \in Indexes /\ ~(s = "run" /\ serial)
  <2>1. LevelSet(level, i) = {}
    BY <1>4 DEF Wave, DependencyWave, LevelSet
  <2>2. QED
    BY <1>4, <2>1, NoEmptyLevel DEF Position, TypeOK
<1>5. QED
  BY <1>2, <1>3, <1>4

\* A wave is complete when it has roles and all of them are recorded.
Complete(s, l, i) ==
  /\ i \in Indexes
  /\ LevelSet(l, i) # {}
  /\ LevelSet(l, i) \subseteq GetCompletedWaveRoles(s)

\* The resumption begins behind every complete wave, next to one of them.
LEMMA ResumeFromIs ==
  ASSUME NEW s
  PROVE  /\ ResumeFrom(s) \in Nat
         /\ \A i : Complete(s, level, i) => i < ResumeFrom(s)
         /\ ResumeFrom(s) = 0 \/ Complete(s, level, ResumeFrom(s) - 1)
<1> DEFINE done == {i \in Indexes : /\ DependencyWave(i) # {}
                                    /\ DependencyWave(i) \subseteq GetCompletedWaveRoles(s)}
<1>1. \A i : Complete(s, level, i) <=> i \in done
  BY DEF Complete, LevelSet, DependencyWave
<1>2. ResumeFrom(s) = IF done = {} THEN 0 ELSE Max(done) + 1
  BY DEF ResumeFrom
<1>3. done \in SUBSET (0 .. Cardinality(Roles) - 1)
  BY DEF Indexes
<1>4. done \in SUBSET Nat
  BY IndexesAre
<1> HIDE DEF done
<1>5. CASE done = {}
  BY <1>1, <1>2, <1>5
<1>6. CASE done # {}
  <2>1. \E x \in done : \A y \in done : x >= y
    <3>1. Cardinality(Roles) - 1 \in Nat
      BY IndexesAre
    <3>2. QED
      BY <1>3, <1>6, <3>1, GreatestNumber
  <2>2. Max(done) \in done /\ \A y \in done : Max(done) >= y
    BY <2>1 DEF Max
  <2> DEFINE m == Max(done)
  <2>3. m \in Nat /\ ResumeFrom(s) = m + 1
    BY <1>2, <1>4, <1>6, <2>2
  <2>4. ResumeFrom(s) - 1 = m
    BY <2>3
  <2>5. Complete(s, level, m) /\ \A i : Complete(s, level, i) => i \in Nat /\ i <= m
    BY <1>1, <1>4, <2>2
  <2> HIDE DEF m
  <2>6. QED
    BY <2>3, <2>4, <2>5
<1>7. QED
  BY <1>5, <1>6

LEMMA EnterWaveType ==
  ASSUME NEW s, NEW i \in Nat, EnterWave(s, i)
  PROVE  /\ phase' \in {"wave", "qa"}
         /\ index' \in Nat
         /\ todo' \subseteq Roles /\ active' = {} /\ failed' = {}
BY WaveType DEF EnterWave

LEMMA AfterSaveType ==
  ASSUME TypeOK, AfterSave, active = {}
  PROVE  /\ phase' \in {"wave", "qa", "failed", "done"}
         /\ index' \in Nat
         /\ todo' \subseteq Roles /\ active' = {} /\ failed' \subseteq Roles
<1>1. CASE EnterWave(session, index + 1)
  BY <1>1, EnterWaveType DEF TypeOK
<1>2. CASE phase' \in {"failed", "done"} /\ UNCHANGED waveVars
  BY <1>2 DEF TypeOK, waveVars
<1>3. QED
  BY <1>1, <1>2 DEF AfterSave

\* Roles are executed during a wave only.
Idle == phase # "wave" => active = {}

TypeInv == TypeOK /\ Idle

LEMMA NoneActive == IsFiniteSet({}) /\ Cardinality({}) = 0 /\ 0 <= MaxConcurrency
BY FS_EmptySet, RunnerAssumption

LEMMA InitType == Init => TypeInv
<1> SUFFICES ASSUME Init PROVE TypeInv
  OBVIOUS
<1>1. deps \in [Roles -> SUBSET Roles] /\ level \in [Roles -> Indexes]
  BY RunnerAssumption DEF Init
<1>2. todo \subseteq Roles /\ mem \in State
  BY WaveType DEF Init, State, NewSharedState
<1>3. sessions \in 1 .. MaxSessions + 1
  BY RunnerAssumption DEF Init
<1>4. Cardinality(active) <= MaxConcurrency
  BY NoneActive DEF Init
<1>5. QED
  BY <1>1, <1>2, <1>3, <1>4 DEF Init, TypeInv, TypeOK, Idle

\* A further role gets the semaphore only while it has a slot.
LEMMA ActiveBound ==
  ASSUME TypeOK, NEW r \in Roles
  PROVE  /\ Cardinality(active) < MaxConcurrency =>
              Cardinality(active \cup {r}) <= MaxConcurrency
         /\ Cardinality(active \ {r}) <= MaxConcurrency
<1>1. IsFiniteSet(active) /\ Cardinality(active) \in Nat
  BY RunnerAssumption, FS_Subset, FS_CardinalityType DEF TypeOK
<1>2. /\ Cardinality(active \cup {r}) \in {Cardinality(active), Cardinality(active) + 1}
      /\ Cardinality(active \ {r}) \in {Cardinality(active), Cardinality(active) - 1}
  BY <1>1, FS_AddElement, FS_RemoveElement
<1>3. QED
  BY <1>1, <1>2, RunnerAssumption DEF TypeOK

LEMMA NextType == TypeInv /\ [Next]_vars => TypeInv'
<1> SUFFICES ASSUME TypeInv, [Next]_vars PROVE TypeInv'
  OBVIOUS
<1> USE DEF TypeInv, Idle, blueprintVars, waveVars
<1>1. ASSUME NEW r \in Roles, StartRole(r) PROVE TypeInv'
  BY <1>1, ActiveBound DEF StartRole, TypeOK
<1>2. ASSUME NEW r \in Roles, NEW ok \in BOOLEAN, EndRole(r, ok) PROVE TypeInv'
  BY <1>2, ActiveBound DEF EndRole, TypeOK
<1>3. CASE EndWave
  <2> DEFINE w == Wave(session, index)
             s == MarkWaveCompleted(WriteArtifacts(mem, w), index, w)
  <2>1. w \in SUBSET Roles
    BY WaveType
  <2> HIDE DEF w
  <2>2. s \in State
    BY <2>1 DEF TypeOK, State, MarkWaveCompleted, WriteArtifacts
  <2> HIDE DEF s
  <2>3. /\ outputs' = outputs \cup w
        /\ mem' \in {s, mem}
        /\ phase' \in {"save-next", "save-failed", "failed"}
        /\ active = {}
    BY <1>3 DEF EndWave, w, s
  <2>4. QED
    BY <1>3, <2>1, <2>2, <2>3 DEF EndWave, TypeOK, Saving
<1>4. CASE ReviewQA
  BY <1>4 DEF ReviewQA, TypeOK, Saving
<1>5. CASE Truncate
  BY <1>5 DEF Truncate, TypeOK, Saving, Writing
<1>6. CASE OpenFails
  <2>1. active = {}
    BY <1>6 DEF OpenFails, Saving
  <2>2. QED
    BY <1>6, <2>1, AfterSaveType, NoneActive DEF OpenFails, TypeOK
<1>7. CASE Write
  <2>1. active = {}
    BY <1>7 DEF Write, Writing
  <2>2. durable' \subseteq Indexes
    BY <1>7 DEF Write, TypeOK
  <2>3. QED
    BY <1>7, <2>1, <2>2, AfterSaveType, NoneActive DEF Write, TypeOK
<1>8. CASE WriteFails
  <2>1. active = {}
    BY <1>8 DEF WriteFails, Writing
  <2>2. QED
    BY <1>8, <2>1, AfterSaveType, NoneActive DEF WriteFails, TypeOK
<1>9. CASE Crash
  <2>1. NewSharedState \in State
    BY DEF NewSharedState, State
  <2>2. QED
    BY <1>9, <2>1, NoneActive DEF Crash, TypeOK
<1>10. CASE Resume
  <2>1. ResumeFrom(disk) \in Nat /\ ResultsOf(disk) \subseteq Roles
    BY <1>10, ResumeFromIs DEF Resume, ResultsOf, State
  <2>2. /\ phase' \in {"wave", "qa"}
        /\ index' \in Nat
        /\ todo' \subseteq Roles /\ active' = {} /\ failed' = {}
    BY <1>10, <2>1, EnterWaveType DEF Resume
  <2>3. sessions' \in 1 .. MaxSessions + 1
    BY <1>10, RunnerAssumption DEF Resume, TypeOK
  <2>4. QED
    BY <1>10, <2>1, <2>2, <2>3, NoneActive DEF Resume, TypeOK
<1>11. CASE UNCHANGED vars
  BY <1>11 DEF vars, TypeOK
<1>12. QED
  BY <1>1, <1>2, <1>3, <1>4, <1>5, <1>6, <1>7, <1>8, <1>9, <1>10, <1>11
     DEF Next, Process, Rest

\* TypeOK is an invariant: also the bound of the semaphore, that not more than
\* MaxConcurrency roles are executed at a time, in any process.
THEOREM TypeCorrect == Spec => []TypeOK
<1>1. TypeInv => TypeOK
  BY DEF TypeInv
<1>2. QED
  BY <1>1, InitType, NextType, PTL DEF Spec
-----------------------------------------------------------------------------
(***************************************************************************)
(* The inductive invariant.                                                *)
(***************************************************************************)
\* Where a role is in the present process.
Place(r) == Position(level, serial, session, r)

Alive == phase # "down"

\* The wave at the index is over once the loop is about to turn.
Covered == IF phase \in {"save-next", "write-next"} THEN index + 1 ELSE index

Behind == {r \in Roles : Place(r) < Covered}

\* Waves that are executed one after the other leave a record without gaps.
NoGaps(s) ==
  \A i \in Indexes : s.waves[i] # {} => \A j \in 0 .. i : s.waves[j] = LevelSet(level, j)

\* What is recorded has been executed with success and left its results.
Recorded(s) ==
  /\ \A i \in Indexes : s.waves[i] \subseteq doneEver \cap s.artifacts
  /\ ~serial => NoGaps(s)

\* For every wave once recorded as complete that one or a later one still is.
Endures(s) == \A i \in durable : \E k \in Indexes : i <= k /\ Complete(s, level, k)

BlueprintInv == BuildWaves(deps, level)

\* No role has succeeded before one of an earlier wave.
DownwardClosed ==
  \A r \in doneEver : \A e \in Roles : level[e] < level[r] => e \in doneEver

FileInv == disk \in State => Recorded(disk) /\ Endures(disk)

MemInv == Recorded(mem)

\* What the loop has passed is done, and known to the process.
PassedInv ==
  Alive => /\ Behind \subseteq doneEver
           /\ session = "run" \/ ~serial => Behind \subseteq outputs
           /\ ~serial => \A j \in Indexes : j < Covered => mem.waves[j] = LevelSet(level, j)

\* The record of the first process grows; a resumed one is behind every
\* complete wave.
RecordInv ==
  Alive => /\ Endures(mem)
           /\ session = "run" =>
                /\ \A i \in durable : Complete(mem, level, i)
                /\ \A j \in Indexes : /\ \A r \in mem.waves[j] : Place(r) = j
                                      /\ j >= Covered => mem.waves[j] = {}
           /\ session = "resume" => \A i \in Indexes : Complete(mem, level, i) => i < Covered

\* The present wave has roles, and each waits, is executed, or has ended.
TurnInv ==
  phase = "wave" =>
    /\ \E r \in Roles : Place(r) = index
    /\ \A r \in todo \cup active : Place(r) = index
    /\ \A r \in Roles : Place(r) = index => r \in todo \cup active \cup failed \cup doneEver

RunnerInv ==
  /\ TypeInv
  /\ BlueprintInv
  /\ DownwardClosed
  /\ FileInv
  /\ MemInv
  /\ PassedInv
  /\ RecordInv
  /\ TurnInv
  /\ CompletionIsTrue

\* An empty record has no complete wave, and nothing to be true of.
LEMMA NewRecord ==
  /\ NewSharedState \in State
  /\ Recorded(NewSharedState)
  /\ \A i : ~Complete(NewSharedState, level, i)
<1>1. /\ NewSharedState \in State
      /\ \A i \in Indexes : NewSharedState.waves[i] = {}
  BY DEF NewSharedState, State
<1>2. GetCompletedWaveRoles(NewSharedState) = {}
  BY <1>1 DEF GetCompletedWaveRoles
<1>3. Recorded(NewSharedState)
  BY <1>1 DEF Recorded, NoGaps
<1>4. \A i : ~Complete(NewSharedState, level, i)
  BY <1>2 DEF Complete
<1>5. QED
  BY <1>1, <1>3, <1>4

LEMMA InitInv == Init => RunnerInv
<1> SUFFICES ASSUME Init PROVE RunnerInv
  OBVIOUS
<1>1. TypeInv
  BY InitType
<1>2. BlueprintInv /\ DownwardClosed /\ CompletionIsTrue /\ FileInv
  BY FileAssumption DEF Init, BlueprintInv, DownwardClosed, CompletionIsTrue, FileInv
<1>3. MemInv
  BY NewRecord DEF Init, MemInv
<1>4. Covered = 0 /\ Behind = {}
  <2>1. Covered = 0
    BY DEF Init, Covered
  <2>2. \A r \in Roles : Place(r) \in Nat
    BY <1>1, PositionType, IndexesAre DEF Place, TypeInv, TypeOK
  <2>3. QED
    BY <2>1, <2>2 DEF Behind
<1>5. PassedInv
  BY <1>4, IndexesAre DEF PassedInv
<1>6. RecordInv
  <2>1. \A j \in Indexes : mem.waves[j] = {}
    BY DEF Init, NewSharedState
  <2>2. QED
    BY <2>1 DEF Init, RecordInv, Endures
<1>7. TurnInv
  <2>1. Wave(session, 0) # {}
    <3>1. PICK r \in Roles : TRUE
      BY RunnerAssumption
    <3>2. Position(level, serial, session, r) \in Nat
      BY <1>1, PositionType, IndexesAre DEF TypeInv, TypeOK
    <3>3. Wave(session, 0) = {} => Position(level, serial, session, r) < 0
      BY <1>1, NothingLeft DEF Init, TypeInv
    <3>4. QED
      BY <3>2, <3>3
  <2>2. QED
    BY <2>1, WaveIs DEF Init, TurnInv, Place
<1>8. QED
  BY <1>1, <1>2, <1>3, <1>5, <1>6, <1>7 DEF RunnerInv

\* The turn of the loop is the one its index says, and no role is left over
\* when there is none.
LEMMA EnterWaveTurn ==
  ASSUME TypeOK, BlueprintInv, NEW s, NEW i \in Nat, EnterWave(s, i), session' = s,
         UNCHANGED blueprintVars,
         \A r \in Roles : Position(level, serial, s, r) < i => r \in doneEver',
         doneEver' \subseteq Roles
  PROVE  TurnInv' /\ CompletionIsTrue' /\ Covered' = i
                  /\ \A r \in Roles : Place(r)' = Position(level, serial, s, r)
<1>1. \A r : Place(r)' = Position(level, serial, s, r)
  BY DEF Place, blueprintVars
<1>2. index' = i /\ active' = {} /\ failed' = {}
  BY DEF EnterWave
<1>3. CASE i \in Indexes /\ Wave(s, i) # {}
  <2>1. todo' = Wave(s, i) /\ phase' = "wave"
    BY <1>3 DEF EnterWave
  <2>2. TurnInv'
    BY <1>1, <1>2, <1>3, <2>1, WaveIs DEF TurnInv
  <2>3. QED
    BY <1>1, <1>2, <2>1, <2>2 DEF CompletionIsTrue, Covered
<1>4. CASE i \notin Indexes \/ Wave(s, i) = {}
  <2>1. phase' = "qa"
    BY <1>4 DEF EnterWave
  <2>2. \A r \in Roles : Position(level, serial, s, r) < i
    BY <1>4, NothingLeft DEF BlueprintInv
  <2>3. QED
    BY <1>1, <1>2, <2>1, <2>2 DEF CompletionIsTrue, TurnInv, Covered
<1>5. QED
  BY <1>3, <1>4
\* The invariants of the memory, the file and the passed waves, where a step
\* leaves alone what they speak of.
LEMMA Frame ==
  ASSUME RunnerInv, UNCHANGED <<blueprintVars, doneEver>>
  PROVE  /\ BlueprintInv' /\ DownwardClosed'
         /\ UNCHANGED mem => MemInv'
         /\ UNCHANGED <<disk, durable>> => FileInv'
         /\ UNCHANGED session => \A r : Place(r)' = Place(r)
         /\ UNCHANGED <<session, mem, durable, Covered>> /\ outputs \subseteq outputs' /\ Alive
              => PassedInv' /\ RecordInv'
<1> USE DEF blueprintVars
<1>1. BlueprintInv' /\ DownwardClosed'
  BY DEF RunnerInv, BlueprintInv, DownwardClosed, BuildWaves
<1>2. ASSUME UNCHANGED mem PROVE MemInv'
  BY <1>2 DEF RunnerInv, MemInv, Recorded, NoGaps
<1>3. ASSUME UNCHANGED <<disk, durable>> PROVE FileInv'
  BY <1>3 DEF RunnerInv, FileInv, Recorded, NoGaps, Endures
<1>4. ASSUME UNCHANGED session PROVE \A r : Place(r)' = Place(r)
  BY <1>4 DEF Place
<1>5. ASSUME UNCHANGED <<session, mem, durable, Covered>>, outputs \subseteq outputs', Alive
      PROVE  PassedInv' /\ RecordInv'
  <2>1. \A r : Place(r)' = Place(r)
    BY <1>4, <1>5
  <2>2. Behind' = Behind
    BY <1>5, <2>1 DEF Behind
  <2>3. PassedInv'
    BY <1>5, <2>2 DEF RunnerInv, PassedInv
  <2>4. RecordInv'
    BY <1>5, <2>1 DEF RunnerInv, RecordInv, Endures
  <2>5. QED
    BY <2>3, <2>4
<1>6. QED
  BY <1>1, <1>2, <1>3, <1>4, <1>5

LEMMA StartRoleInv ==
  ASSUME RunnerInv, TypeInv', NEW r \in Roles, StartRole(r)
  PROVE  RunnerInv'
<1>1. /\ phase = "wave" /\ UNCHANGED <<blueprintVars, doneEver, session, mem, disk, durable,
                                       outputs, phase, index, failed>>
      /\ todo' = todo \ {r} /\ active' = active \cup {r} /\ r \in todo
  BY DEF StartRole
<1>2. UNCHANGED Covered /\ Alive
  BY <1>1 DEF Covered, Alive
<1>3. /\ BlueprintInv' /\ DownwardClosed' /\ MemInv' /\ FileInv' /\ PassedInv' /\ RecordInv'
      /\ \A x : Place(x)' = Place(x)
  BY <1>1, <1>2, Frame
<1>4. TurnInv'
  BY <1>1, <1>3 DEF RunnerInv, TurnInv
<1>5. CompletionIsTrue'
  BY <1>1 DEF CompletionIsTrue
<1>6. QED
  BY <1>3, <1>4, <1>5 DEF RunnerInv

\* The dependencies of a role that is executed are behind it.
LEMMA EarlierIsBehind ==
  ASSUME RunnerInv, NEW r \in active, NEW e \in Roles, level[e] < level[r]
  PROVE  e \in Behind /\ Alive
<1>1. phase = "wave" /\ r \in Roles
  BY DEF RunnerInv, TypeInv, Idle, TypeOK
<1>2. Place(r) = index
  BY <1>1 DEF RunnerInv, TurnInv
<1>3. Place(e) < Place(r)
  BY <1>1, PositionOrder DEF RunnerInv, TypeInv, TypeOK, Place
<1>4. QED
  BY <1>1, <1>2, <1>3 DEF Behind, Covered, Alive

LEMMA EndRoleInv ==
  ASSUME RunnerInv, TypeInv', NEW r \in Roles, NEW ok \in BOOLEAN, EndRole(r, ok)
  PROVE  RunnerInv'
<1>1. /\ phase = "wave" /\ UNCHANGED <<level, deps, serial, session, mem, disk, durable,
                                       outputs, phase, index, todo>>
      /\ r \in active /\ active' = active \ {r}
      /\ failed' = IF ok THEN failed ELSE failed \cup {r}
      /\ doneEver' = IF ok THEN doneEver \cup {r} ELSE doneEver
  BY DEF EndRole, blueprintVars
<1>2. UNCHANGED Covered /\ Alive
  BY <1>1 DEF Covered, Alive
<1>3. \A x : Place(x)' = Place(x)
  BY <1>1 DEF Place
<1>4. doneEver \subseteq doneEver'
  BY <1>1
<1>5. BlueprintInv'
  BY <1>1 DEF RunnerInv, BlueprintInv, BuildWaves
<1>6. DownwardClosed'
  <2>1. \A e \in Roles : level[e] < level[r] => e \in doneEver
    BY <1>1, EarlierIsBehind DEF RunnerInv, PassedInv
  <2>2. QED
    BY <1>1, <2>1 DEF RunnerInv, DownwardClosed
<1>7. FileInv'
  BY <1>1, <1>4 DEF RunnerInv, FileInv, Recorded, NoGaps, Endures
<1>8. MemInv'
  BY <1>1, <1>4 DEF RunnerInv, MemInv, Recorded, NoGaps
<1>9. PassedInv'
  <2>1. Behind' = Behind
    BY <1>2, <1>3 DEF Behind
  <2>2. QED
    BY <1>1, <1>2, <1>4, <2>1 DEF RunnerInv, PassedInv
<1>10. RecordInv'
  BY <1>1, <1>2, <1>3 DEF RunnerInv, RecordInv, Endures
<1>11. TurnInv'
  BY <1>1, <1>3 DEF RunnerInv, TurnInv
<1>12. CompletionIsTrue'
  BY <1>1 DEF CompletionIsTrue
<1>13. QED
  BY <1>5, <1>6, <1>7, <1>8, <1>9, <1>10, <1>11, <1>12 DEF RunnerInv

\* Between two waves nothing is executed, and the loop goes on where it was to.
LEMMA AfterSaveInv ==
  ASSUME RunnerInv, AfterSave, UNCHANGED <<blueprintVars, session, outputs, mem, doneEver>>
  PROVE  /\ TurnInv' /\ CompletionIsTrue' /\ UNCHANGED Covered /\ Alive /\ Alive'
         /\ \A r : Place(r)' = Place(r)
<1>1. \A r : Place(r)' = Place(r)
  BY Frame
<1>2. Alive
  BY DEF AfterSave, Alive
<1>3. CASE phase \in {"save-next", "write-next"} /\ EnterWave(session, index + 1)
  <2>1. Covered = index + 1 /\ index + 1 \in Nat
    BY <1>3 DEF Covered, RunnerInv, TypeInv, TypeOK
  <2>2. \A r \in Roles : Position(level, serial, session, r) < index + 1 => r \in doneEver'
    BY <1>2, <2>1 DEF RunnerInv, PassedInv, Behind, Place
  <2>3. doneEver' \subseteq Roles
    BY DEF RunnerInv, TypeInv, TypeOK
  <2>4. TurnInv' /\ CompletionIsTrue' /\ Covered' = index + 1
    BY <1>3, <2>1, <2>2, <2>3, EnterWaveTurn DEF RunnerInv, TypeInv
  <2>5. Alive'
    BY <1>3 DEF EnterWave, Alive
  <2>6. QED
    BY <1>1, <1>2, <2>1, <2>4, <2>5
<1>4. CASE /\ phase \in {"save-failed", "write-failed", "save-done", "write-done"}
           /\ phase' = IF phase \in {"save-failed", "write-failed"} THEN "failed" ELSE "done"
           /\ UNCHANGED waveVars
  BY <1>1, <1>2, <1>4
     DEF RunnerInv, TurnInv, CompletionIsTrue, Covered, Alive, waveVars
<1>5. QED
  BY <1>3, <1>4 DEF AfterSave

LEMMA NotSavedInv ==
  ASSUME RunnerInv, TypeInv', OpenFails \/ WriteFails
  PROVE  RunnerInv'
<1>1. AfterSave /\ UNCHANGED <<blueprintVars, session, outputs, mem, disk, doneEver, durable>>
  BY DEF OpenFails, WriteFails
<1>2. TurnInv' /\ CompletionIsTrue' /\ UNCHANGED Covered /\ Alive
  BY <1>1, AfterSaveInv
<1>3. BlueprintInv' /\ DownwardClosed' /\ MemInv' /\ FileInv' /\ PassedInv' /\ RecordInv'
  BY <1>1, <1>2, Frame
<1>4. QED
  BY <1>2, <1>3 DEF RunnerInv

LEMMA WriteInv ==
  ASSUME RunnerInv, TypeInv', Write
  PROVE  RunnerInv'
<1>1. AfterSave /\ UNCHANGED <<blueprintVars, session, outputs, mem, doneEver>> /\ disk' = mem
  BY DEF Write
<1>2. /\ TurnInv' /\ CompletionIsTrue' /\ UNCHANGED Covered /\ Alive /\ Alive'
      /\ \A r : Place(r)' = Place(r)
  BY <1>1, AfterSaveInv
<1>3. BlueprintInv' /\ DownwardClosed' /\ MemInv'
  BY <1>1, Frame
<1>4. \A i : i \in durable' <=> i \in durable \/ Complete(mem, level, i)
  BY DEF Write, Complete, LevelSet, DependencyWave
<1>5. \A i \in durable' : \E k \in Indexes : i <= k /\ Complete(mem, level, k)
  <2>1. \A i : Complete(mem, level, i) => i \in Indexes /\ i \in Nat
    BY IndexesAre DEF Complete
  <2>2. \A i \in durable : \E k \in Indexes : i <= k /\ Complete(mem, level, k)
    BY <1>2 DEF RunnerInv, RecordInv, Endures
  <2>3. QED
    BY <1>4, <2>1, <2>2
<1>6. UNCHANGED <<mem, level, serial, session>>
  BY <1>1 DEF blueprintVars
<1>7. FileInv'
  BY <1>1, <1>3, <1>5, <1>6 DEF FileInv, MemInv, Endures
<1>8. PassedInv'
  <2>1. Behind' = Behind
    BY <1>2 DEF Behind
  <2>2. QED
    BY <1>1, <1>2, <1>6, <2>1 DEF RunnerInv, PassedInv
<1>9. RecordInv'
  <2>1. Endures(mem)'
    BY <1>5, <1>6 DEF Endures
  <2>2. QED
    BY <1>2, <1>4, <1>6, <2>1 DEF RunnerInv, RecordInv
<1>10. QED
  BY <1>2, <1>3, <1>7, <1>8, <1>9 DEF RunnerInv

LEMMA PhaseInv ==
  ASSUME RunnerInv, TypeInv', ReviewQA \/ Truncate
  PROVE  RunnerInv'
<1>1. /\ UNCHANGED <<blueprintVars, session, outputs, mem, doneEver, durable, index>>
      /\ disk' \in {disk, Torn} /\ phase' # "wave"
      /\ Alive /\ UNCHANGED Covered
      /\ phase' \in {"save-done", "write-done"} => phase \in {"qa", "save-done"}
      /\ phase' \notin {"qa", "done"}
  <2>1. CASE ReviewQA
    BY <2>1 DEF ReviewQA, Alive, Covered, waveVars
  <2>2. CASE Truncate
    <3>1. \/ phase = "save-next" /\ phase' = "write-next"
          \/ phase = "save-failed" /\ phase' = "write-failed"
          \/ phase = "save-done" /\ phase' = "write-done"
      BY <2>2 DEF Truncate, Saving
    <3>2. QED
      BY <2>2, <3>1 DEF Truncate, Alive, Covered, waveVars
  <2>3. QED
    BY <2>1, <2>2
<1>2. BlueprintInv' /\ DownwardClosed' /\ MemInv' /\ PassedInv' /\ RecordInv'
  BY <1>1, Frame
<1>3. FileInv'
  BY <1>1, Frame, FileAssumption DEF FileInv
<1>4. TurnInv' /\ CompletionIsTrue'
  BY <1>1 DEF RunnerInv, TurnInv, CompletionIsTrue
<1>5. QED
  BY <1>2, <1>3, <1>4 DEF RunnerInv

LEMMA CrashInv ==
  ASSUME RunnerInv, TypeInv', Crash
  PROVE  RunnerInv'
<1>1. /\ UNCHANGED <<blueprintVars, doneEver, disk, durable>>
      /\ mem' = NewSharedState /\ phase' = "down"
  BY DEF Crash
<1>2. BlueprintInv' /\ DownwardClosed' /\ FileInv'
  BY <1>1, Frame
<1>3. MemInv'
  <2>1. \A i \in Indexes : NewSharedState.waves[i] = {}
    BY DEF NewSharedState
  <2>2. QED
    BY <1>1, <2>1 DEF MemInv, Recorded, NoGaps
<1>4. PassedInv' /\ RecordInv' /\ TurnInv' /\ CompletionIsTrue'
  BY <1>1 DEF PassedInv, RecordInv, TurnInv, CompletionIsTrue, Alive
<1>5. QED
  BY <1>2, <1>3, <1>4 DEF RunnerInv

\* A record without gaps has all roles of a complete wave, and of those before.
LEMMA CompleteWithoutGaps ==
  ASSUME TypeOK, NEW s, Recorded(s), ~serial, NEW m, Complete(s, level, m),
         NEW j \in Indexes, j <= m
  PROVE  s.waves[j] = LevelSet(level, j)
<1>1. PICK w \in Roles : level[w] = m /\ w \in GetCompletedWaveRoles(s)
  BY DEF Complete, LevelSet
<1>2. PICK k \in Indexes : w \in s.waves[k]
  BY <1>1 DEF GetCompletedWaveRoles
<1>3. k \in 0 .. k /\ j \in Nat /\ m \in Nat
  BY IndexesAre DEF Complete
<1>4. s.waves[k] = LevelSet(level, k)
  BY <1>2, <1>3 DEF Recorded, NoGaps
<1>5. k = m
  BY <1>1, <1>2, <1>4 DEF LevelSet
<1>6. j \in 0 .. k
  BY <1>3, <1>5
<1>7. QED
  BY <1>2, <1>6 DEF Recorded, NoGaps
LEMMA ResumeInv ==
  ASSUME RunnerInv, TypeInv', Resume
  PROVE  RunnerInv'
<1> DEFINE i0 == ResumeFrom(disk)
<1>1. /\ UNCHANGED <<blueprintVars, disk, doneEver, durable>>
      /\ disk \in State /\ mem' = disk /\ outputs' = ResultsOf(disk)
      /\ session' = "resume" /\ EnterWave("resume", i0)
  BY DEF Resume
<1>2. /\ i0 \in Nat
      /\ \A i : Complete(disk, level, i) => i < i0
      /\ i0 = 0 \/ Complete(disk, level, i0 - 1)
  BY ResumeFromIs
<1> HIDE DEF i0
<1>3. Recorded(disk) /\ Endures(disk)
  BY <1>1 DEF RunnerInv, FileInv
<1>4. GetCompletedWaveRoles(disk) \subseteq doneEver
  BY <1>3 DEF Recorded, GetCompletedWaveRoles
<1>5. \A r : Position(level, serial, "resume", r) = level[r]
  BY DEF Position
<1>6. \A r \in Roles : level[r] < i0 => r \in doneEver
  <2> SUFFICES ASSUME NEW r \in Roles, level[r] < i0 PROVE r \in doneEver
    OBVIOUS
  <2>1. level[r] \in Nat
    BY IndexesAre DEF RunnerInv, TypeInv, TypeOK
  <2>2. Complete(disk, level, i0 - 1)
    BY <1>2, <2>1
  <2>3. PICK w \in Roles : level[w] = i0 - 1 /\ w \in doneEver
    BY <1>4, <2>2 DEF Complete, LevelSet
  <2>4. CASE level[r] = i0 - 1
    BY <1>4, <2>2, <2>4 DEF Complete, LevelSet
  <2>5. CASE level[r] < i0 - 1
    BY <2>3, <2>5 DEF RunnerInv, DownwardClosed
  <2>6. QED
    BY <1>2, <2>1, <2>4, <2>5
<1>7. /\ TurnInv' /\ CompletionIsTrue' /\ Covered' = i0
      /\ \A r \in Roles : Place(r)' = level[r]
  <2>1. doneEver' \subseteq Roles
    BY DEF TypeInv, TypeOK
  <2>2. \A r \in Roles : Position(level, serial, "resume", r) < i0 => r \in doneEver'
    BY <1>1, <1>5, <1>6
  <2>3. /\ TurnInv' /\ CompletionIsTrue' /\ Covered' = i0
        /\ \A r \in Roles : Place(r)' = Position(level, serial, "resume", r)
    BY <1>1, <1>2, <2>1, <2>2, EnterWaveTurn DEF RunnerInv, TypeInv
  <2>4. QED
    BY <1>5, <2>3
<1>8. BlueprintInv' /\ DownwardClosed' /\ FileInv'
  BY <1>1, Frame
<1>9. MemInv'
  BY <1>1, <1>8 DEF FileInv, MemInv
<1>10. \A r : r \in Behind' <=> r \in Roles /\ level[r] < i0
  BY <1>7 DEF Behind
<1>11. ASSUME ~serial, NEW j \in Indexes, j < i0
       PROVE  disk.waves[j] = LevelSet(level, j)
  <2>1. j \in Nat
    BY IndexesAre
  <2>2. Complete(disk, level, i0 - 1) /\ j <= i0 - 1
    BY <1>2, <1>11, <2>1
  <2>3. QED
    BY <1>3, <1>11, <2>2, CompleteWithoutGaps DEF RunnerInv, TypeInv
<1>12. PassedInv'
  <2>1. UNCHANGED <<serial, level>>
    BY <1>1 DEF blueprintVars
  <2>2. Behind' \subseteq doneEver'
    BY <1>1, <1>6, <1>10
  <2>3. ASSUME ~serial, NEW r \in Roles, level[r] < i0 PROVE r \in ResultsOf(disk)
    <3>1. level[r] \in Indexes
      BY DEF RunnerInv, TypeInv, TypeOK
    <3>2. r \in disk.waves[level[r]]
      BY <1>11, <2>3, <3>1 DEF LevelSet
    <3>3. r \in disk.artifacts /\ r \in GetCompletedWaveRoles(disk)
      BY <1>3, <3>1, <3>2 DEF Recorded, GetCompletedWaveRoles
    <3>4. QED
      BY <3>3 DEF ResultsOf
  <2>4. ~serial => Behind' \subseteq outputs'
    BY <1>1, <1>10, <2>3
  <2>5. ~serial => \A j \in Indexes : j < i0 => mem'.waves[j] = LevelSet(level, j)
    BY <1>1, <1>11
  <2>6. QED
    BY <1>1, <1>7, <2>1, <2>2, <2>4, <2>5 DEF PassedInv
<1>13. RecordInv'
  <2>1. UNCHANGED level
    BY <1>1 DEF blueprintVars
  <2>2. Endures(mem)'
    BY <1>1, <1>3, <2>1 DEF Endures
  <2>3. QED
    BY <1>1, <1>2, <1>7, <2>1, <2>2 DEF RecordInv
<1>14. QED
  BY <1>7, <1>8, <1>9, <1>12, <1>13 DEF RunnerInv

\* A wave that ended is no wave that any role failed in: it is recorded, and with
\* it everything that has to be true of the record.
LEMMA RecordWaveInv ==
  ASSUME RunnerInv, TypeInv', EndWave, failed = {}
  PROVE  RunnerInv'
<1> DEFINE w == Wave(session, index)
<1>1. /\ phase = "wave" /\ phase' = "save-next" /\ todo = {} /\ active = {} /\ failed = {}
      /\ UNCHANGED <<blueprintVars, session, index, disk, doneEver, durable>>
      /\ outputs' = outputs \cup w
      /\ mem' = MarkWaveCompleted(WriteArtifacts(mem, w), index, w)
  BY DEF EndWave, waveVars
<1>2. w = {r \in Roles : Place(r) = index}
  BY WaveIs DEF Place
<1> HIDE DEF w
<1>3. w # {} /\ w \subseteq doneEver /\ w \subseteq Roles
  BY <1>1, <1>2 DEF RunnerInv, TurnInv
<1>4. /\ Covered = index /\ Covered' = index + 1 /\ index \in Nat
      /\ Alive /\ Alive'
  BY <1>1 DEF Covered, Alive, RunnerInv, TypeInv, TypeOK
<1>5. index \in Indexes
  BY <1>2, <1>3, PositionType DEF Place, RunnerInv, TypeInv, TypeOK
<1>6. /\ mem'.artifacts = mem.artifacts \cup w
      /\ \A j \in Indexes : mem'.waves[j] = IF j = index THEN w ELSE mem.waves[j]
  <2> DEFINE a == WriteArtifacts(mem, w)
  <2>1. mem \in State
    BY DEF RunnerInv, TypeInv, TypeOK
  <2>2. a \in State /\ a.waves = mem.waves /\ a.artifacts = mem.artifacts \cup w
    BY <1>3, <2>1 DEF WriteArtifacts, State
  <2>3. mem' = MarkWaveCompleted(a, index, w)
    BY <1>1
  <2> HIDE DEF a
  <2>4. mem'.artifacts = a.artifacts /\ mem'.waves = [a.waves EXCEPT ![index] = w]
    BY <2>2, <2>3 DEF MarkWaveCompleted, State
  <2>5. QED
    BY <1>5, <2>1, <2>2, <2>4 DEF State
<1>7. (\A r : Place(r)' = Place(r)) /\ BlueprintInv' /\ DownwardClosed' /\ FileInv'
  BY <1>1, Frame
<1>8. \A r \in Roles : Place(r) \in Nat
  BY PositionType, IndexesAre DEF Place, RunnerInv, TypeInv, TypeOK
<1>9. Behind' = Behind \cup w
  BY <1>2, <1>4, <1>7, <1>8 DEF Behind
<1>10. UNCHANGED <<level, serial>>
  BY <1>1 DEF blueprintVars
<1>11. ~(session = "run" /\ serial) => w = LevelSet(level, index)
  BY <1>2 DEF Place, Position, LevelSet
<1>12. MemInv'
  <2>1. \A i \in Indexes : mem'.waves[i] \subseteq doneEver' \cap mem'.artifacts
    BY <1>1, <1>3, <1>6 DEF RunnerInv, MemInv, Recorded
  <2>2. ASSUME ~serial, NEW i \in Indexes, mem'.waves[i] # {}, NEW j \in 0 .. i
        PROVE  mem'.waves[j] = LevelSet(level, j)
    <3>1. j \in Indexes /\ j \in Nat /\ i \in Nat
      BY IndexesAre
    <3>2. CASE j = index
      BY <1>6, <1>11, <2>2, <3>1, <3>2
    <3>3. CASE j # index /\ i = index
      BY <1>4, <1>6, <2>2, <3>1, <3>3 DEF RunnerInv, PassedInv
    <3>4. CASE j # index /\ i # index
      BY <1>6, <2>2, <3>1, <3>4 DEF RunnerInv, MemInv, Recorded, NoGaps
    <3>5. QED
      BY <3>2, <3>3, <3>4
  <2>3. QED
    BY <1>10, <2>1, <2>2 DEF MemInv, Recorded, NoGaps
<1>13. PassedInv'
  <2>1. Behind' \subseteq doneEver'
    BY <1>1, <1>3, <1>4, <1>9 DEF RunnerInv, PassedInv
  <2>2. session = "run" \/ ~serial => Behind' \subseteq outputs'
    BY <1>1, <1>4, <1>9 DEF RunnerInv, PassedInv
  <2>3. ASSUME ~serial, NEW j \in Indexes, j < index + 1
        PROVE  mem'.waves[j] = LevelSet(level, j)
    <3>1. j \in Nat
      BY IndexesAre
    <3>2. CASE j = index
      BY <1>6, <1>11, <2>3, <3>2
    <3>3. CASE j < index
      BY <1>4, <1>6, <2>3, <3>3 DEF RunnerInv, PassedInv
    <3>4. QED
      BY <1>4, <2>3, <3>1, <3>2, <3>3
  <2>4. QED
    BY <1>1, <1>4, <1>10, <2>1, <2>2, <2>3 DEF PassedInv
<1>14. RecordInv'
  <2> DEFINE old == GetCompletedWaveRoles(mem)
             new == GetCompletedWaveRoles(mem')
  <2>1. new \subseteq old \cup w /\ w \subseteq new
    BY <1>5, <1>6 DEF GetCompletedWaveRoles
  <2>2. CASE session = "run"
    <3>1. mem.waves[index] = {}
      BY <1>4, <1>5, <2>2 DEF RunnerInv, RecordInv
    <3>2. old \subseteq new
      BY <1>6, <3>1 DEF GetCompletedWaveRoles
    <3>3. \A i \in durable : Complete(mem', level, i) /\ i \in Indexes /\ i <= i
      BY <1>4, <2>2, <3>2, IndexesAre DEF RunnerInv, RecordInv, Complete
    <3>4. Endures(mem)'
      BY <1>1, <1>10, <3>3 DEF Endures
    <3>5. ASSUME NEW j \in Indexes
          PROVE  /\ \A r \in mem'.waves[j] : Place(r) = j
                 /\ j >= index + 1 => mem'.waves[j] = {}
      <4>1. j \in Nat
        BY IndexesAre
      <4>2. CASE j = index
        BY <1>2, <1>6, <1>4, <4>2
      <4>3. CASE j # index
        BY <1>4, <1>6, <2>2, <4>1, <4>3 DEF RunnerInv, RecordInv
      <4>4. QED
        BY <4>2, <4>3
    <3>6. QED
      BY <1>1, <1>4, <1>7, <1>10, <2>2, <3>3, <3>4, <3>5 DEF RecordInv
  <2>3. CASE session = "resume"
    <3>1. w = LevelSet(level, index)
      BY <1>11, <2>3
    <3>2. Complete(mem', level, index)
      BY <1>3, <1>5, <2>1, <3>1 DEF Complete
    <3>3. \A i \in durable : index >= i
      <4> SUFFICES ASSUME NEW i \in durable PROVE index >= i
        OBVIOUS
      <4>1. PICK k \in Indexes : i <= k /\ Complete(mem, level, k)
        BY <1>4 DEF RunnerInv, RecordInv, Endures
      <4>2. k < index
        BY <1>4, <2>3, <4>1 DEF RunnerInv, RecordInv
      <4>3. i \in Nat /\ k \in Nat
        BY IndexesAre DEF RunnerInv, TypeInv, TypeOK
      <4>4. QED
        BY <1>4, <4>1, <4>2, <4>3
    <3>4. Endures(mem)'
      <4>1. \A i \in durable : \E k \in Indexes : i <= k /\ Complete(mem', level, k)
        <5>1. durable \subseteq Nat
          BY IndexesAre DEF RunnerInv, TypeInv, TypeOK
        <5>2. QED
          BY <1>4, <1>5, <3>2, <3>3, <5>1
      <4>2. QED
        BY <1>1, <1>10, <4>1 DEF Endures
    <3>5. ASSUME NEW i \in Indexes, Complete(mem', level, i) PROVE i < index + 1
      <4>1. i \in Nat
        BY IndexesAre
      <4>2. SUFFICES ASSUME i > index PROVE FALSE
        BY <1>4, <4>1
      <4>3. LevelSet(level, i) \cap w = {}
        BY <1>4, <3>1, <4>1, <4>2 DEF LevelSet
      <4>4. Complete(mem, level, i)
        BY <2>1, <3>5, <4>3 DEF Complete
      <4>5. i < index
        BY <1>4, <2>3, <4>4 DEF RunnerInv, RecordInv
      <4>6. QED
        BY <1>4, <4>1, <4>2, <4>5
    <3>6. QED
      BY <1>1, <1>4, <1>10, <2>3, <3>4, <3>5 DEF RecordInv
  <2>4. QED
    BY <2>2, <2>3 DEF RunnerInv, TypeInv, TypeOK
<1>15. TurnInv' /\ CompletionIsTrue'
  BY <1>1 DEF TurnInv, CompletionIsTrue
<1>16. QED
  BY <1>7, <1>12, <1>13, <1>14, <1>15 DEF RunnerInv

LEMMA GiveUpInv ==
  ASSUME RunnerInv, TypeInv', EndWave, failed # {}
  PROVE  RunnerInv'
<1>1. /\ phase = "wave" /\ phase' \in {"save-failed", "failed"}
      /\ UNCHANGED <<blueprintVars, session, index, disk, doneEver, durable, mem>>
      /\ outputs \subseteq outputs'
  BY DEF EndWave, waveVars
<1>2. UNCHANGED Covered /\ Alive
  BY <1>1 DEF Covered, Alive
<1>3. BlueprintInv' /\ DownwardClosed' /\ MemInv' /\ FileInv' /\ PassedInv' /\ RecordInv'
  BY <1>1, <1>2, Frame
<1>4. TurnInv' /\ CompletionIsTrue'
  BY <1>1 DEF TurnInv, CompletionIsTrue
<1>5. QED
  BY <1>3, <1>4 DEF RunnerInv
LEMMA NextInv == RunnerInv /\ [Next]_vars => RunnerInv'
<1> SUFFICES ASSUME RunnerInv, [Next]_vars PROVE RunnerInv'
  OBVIOUS
<1>1. TypeInv'
  BY NextType DEF RunnerInv
<1>2. ASSUME NEW r \in Roles, StartRole(r) PROVE RunnerInv'
  BY <1>1, <1>2, StartRoleInv
<1>3. ASSUME NEW r \in Roles, NEW ok \in BOOLEAN, EndRole(r, ok) PROVE RunnerInv'
  BY <1>1, <1>3, EndRoleInv
<1>4. CASE EndWave
  BY <1>1, <1>4, RecordWaveInv, GiveUpInv
<1>5. CASE ReviewQA \/ Truncate
  BY <1>1, <1>5, PhaseInv
<1>6. CASE OpenFails \/ WriteFails
  BY <1>1, <1>6, NotSavedInv
<1>7. CASE Write
  BY <1>1, <1>7, WriteInv
<1>8. CASE Crash
  BY <1>1, <1>8, CrashInv
<1>9. CASE Resume
  BY <1>1, <1>9, ResumeInv
<1>10. CASE UNCHANGED vars
  <2>1. /\ UNCHANGED <<blueprintVars, doneEver, mem, disk, durable, session, phase, index,
                       todo, active, failed, outputs>>
    BY <1>10 DEF vars, waveVars
  <2>2. UNCHANGED Covered /\ UNCHANGED Alive
    BY <2>1 DEF Covered, Alive
  <2>3. /\ BlueprintInv' /\ DownwardClosed' /\ MemInv' /\ FileInv'
        /\ \A r : Place(r)' = Place(r)
        /\ Alive => PassedInv' /\ RecordInv'
    BY <2>1, <2>2, Frame
  <2>4. ~Alive => PassedInv' /\ RecordInv'
    BY <2>2 DEF PassedInv, RecordInv
  <2>5. TurnInv' /\ CompletionIsTrue'
    BY <2>1, <2>3 DEF RunnerInv, TurnInv, CompletionIsTrue
  <2>6. QED
    BY <1>1, <2>3, <2>4, <2>5 DEF RunnerInv
<1>11. QED
  BY <1>2, <1>3, <1>4, <1>5, <1>6, <1>7, <1>8, <1>9, <1>10 DEF Next, Process, Rest

\* The inductive invariant holds of every behaviour, across kills within a write and
\* any number of resumptions.
THEOREM RunnerInvariant == Spec => []RunnerInv
BY InitInv, NextInv, PTL DEF Spec

-----------------------------------------------------------------------------
(***************************************************************************)
(* What the runner promises.                                               *)
(***************************************************************************)

LEMMA DependenciesAreBehind ==
  ASSUME RunnerInv, NEW r \in active
  PROVE  deps[r] \subseteq Behind /\ Alive
<1>1. r \in Roles
  BY DEF RunnerInv, TypeInv, TypeOK
<1>2. deps[r] \subseteq Roles /\ \A e \in deps[r] : level[e] < level[r]
  BY <1>1 DEF RunnerInv, TypeInv, TypeOK, BlueprintInv, BuildWaves
<1>3. Alive
  BY DEF RunnerInv, TypeInv, Idle, Alive
<1>4. QED
  BY <1>2, <1>3, EarlierIsBehind

LEMMA InOrder == RunnerInv => DependenciesFirst
BY DependenciesAreBehind DEF DependenciesFirst, RunnerInv, PassedInv

\* A role is executed only when all roles it depends on have once succeeded:
\* BuildWaves and the resumption keep the order through every interruption.
THEOREM RolesInOrder == Spec => []DependenciesFirst
BY InOrder, RunnerInvariant, PTL

\* A workflow that is reported as completed has had every role succeed: Resume
\* skips no wave that state.json does not show to be complete.
THEOREM CompletedMeansAllRoles == Spec => []CompletionIsTrue
<1>1. RunnerInv => CompletionIsTrue
  BY DEF RunnerInv
<1>2. QED
  BY <1>1, RunnerInvariant, PTL

\* Within one wave the semaphore, between waves the dependencies, and at the end
\* all roles.
THEOREM WavesInOrder == Spec => []WaveInv
BY TypeCorrect, RolesInOrder, CompletedMeansAllRoles, PTL DEF WaveInv

\* The results a role builds upon are there, in the first process and in one that
\* resumed waves: loadCompletedOutputs finds what the waves before it left.
THEOREM OutputsInjected == Spec => []DependencyOutputsInjected
<1>1. RunnerInv => DependencyOutputsInjected
  BY DependenciesAreBehind DEF DependencyOutputsInjected, RunnerInv, PassedInv
<1>2. QED
  BY <1>1, RunnerInvariant, PTL

\* A step that starts a role starts one of no wave that was once recorded.
LEMMA StartsUnrecorded ==
  ASSUME RunnerInv, RunnerInv', [Next]_vars, NEW r \in active' \ active
  PROVE  level[r] \notin durable
<1>1. StartRole(r)
  <2>1. ASSUME NEW x \in Roles, StartRole(x) PROVE StartRole(r)
    BY <2>1 DEF StartRole
  <2>2. ASSUME NEW x \in Roles, NEW ok \in BOOLEAN, EndRole(x, ok) PROVE FALSE
    BY <2>2 DEF EndRole
  <2>3. active' # {}
    OBVIOUS
  <2>4. phase' = "wave"
    BY <2>3 DEF RunnerInv, TypeInv, Idle
  <2>5. CASE EndWave \/ ReviewQA \/ Truncate
    BY <2>5 DEF EndWave, ReviewQA, Truncate, waveVars
  <2>6. CASE AfterSave
    BY <2>3, <2>4, <2>6 DEF AfterSave, EnterWave
  <2>7. CASE Crash \/ Resume
    BY <2>3, <2>7 DEF Crash, Resume, EnterWave
  <2>8. CASE UNCHANGED vars
    BY <2>8 DEF vars, waveVars
  <2>9. QED
    BY <2>1, <2>2, <2>5, <2>6, <2>7, <2>8
       DEF Next, Process, Rest, OpenFails, Write, WriteFails
<1>2. phase = "wave" /\ r \in todo /\ r \in Roles
  BY <1>1 DEF StartRole, RunnerInv, TypeInv, TypeOK
<1>3. Place(r) = index /\ Covered = index /\ Alive
  BY <1>2 DEF RunnerInv, TurnInv, Covered, Alive
<1>4. SUFFICES ASSUME level[r] \in durable PROVE FALSE
  OBVIOUS
<1>5. index \in Nat /\ level[r] \in Nat
  BY <1>2, IndexesAre DEF RunnerInv, TypeInv, TypeOK
<1>6. CASE session = "run"
  <2>1. r \in GetCompletedWaveRoles(mem)
    BY <1>2, <1>3, <1>4, <1>6 DEF RunnerInv, RecordInv, Complete, LevelSet
  <2>2. PICK j \in Indexes : r \in mem.waves[j]
    BY <2>1 DEF GetCompletedWaveRoles
  <2>3. Place(r) = j /\ j >= Covered => mem.waves[j] = {}
    BY <1>3, <1>6, <2>2 DEF RunnerInv, RecordInv
  <2>4. QED
    BY <1>3, <1>5, <1>6, <2>2, <2>3 DEF RunnerInv, RecordInv
<1>7. CASE session = "resume"
  <2>1. level[r] = index
    BY <1>3, <1>7 DEF Place, Position
  <2>2. PICK k \in Indexes : level[r] <= k /\ Complete(mem, level, k)
    BY <1>3, <1>4 DEF RunnerInv, RecordInv, Endures
  <2>3. k < index /\ k \in Nat
    BY <1>3, <1>7, <2>2, IndexesAre DEF RunnerInv, RecordInv
  <2>4. QED
    BY <1>5, <2>1, <2>2, <2>3
<1>8. QED
  BY <1>6, <1>7 DEF RunnerInv, TypeInv, TypeOK

\* A step that starts a role starts one of no wave that was once recorded as
\* complete, whatever was written over the record and lost since.
THEOREM RecordedWavesRest == Spec => NoRecordedWaveRunsAgain
<1>1. RunnerInv /\ RunnerInv' /\ [Next]_vars => [\A r \in active' \ active : level[r] \notin durable]_vars
  BY StartsUnrecorded
<1>2. QED
  BY <1>1, RunnerInvariant, PTL DEF Spec, NoRecordedWaveRunsAgain

-----------------------------------------------------------------------------
(***************************************************************************)
(* The runner implements ResumableRun.                                     *)
(***************************************************************************)
OnRecord == {r \in Roles : level[r] \in durable}

\* What the record shows to be complete has succeeded.
LEMMA RecordedHaveSucceeded ==
  ASSUME RunnerInv, NEW i, Complete(mem, level, i)
  PROVE  LevelSet(level, i) \subseteq doneEver
BY DEF RunnerInv, MemInv, Recorded, Complete, GetCompletedWaveRoles

LEMMA RunInit == Init => Abstract!Init
<1> SUFFICES ASSUME Init PROVE Abstract!Init
  OBVIOUS
<1>1. deps \in [Roles -> SUBSET Roles]
  BY RunnerAssumption DEF Init
<1>2. OnRecord = {} /\ doneEver = {} /\ active = {}
  BY DEF Init, OnRecord
<1>3. StateOfRun = "working"
  BY DEF Init, StateOfRun
<1>4. QED
  BY <1>1, <1>2, <1>3 DEF Abstract!Init, OnRecord

\* A step that changes none of the abstract variables is a stutter.
LEMMA RunStutter ==
  ASSUME UNCHANGED <<deps, doneEver, active, OnRecord, StateOfRun>>
  PROVE  UNCHANGED Abstract!vars
BY DEF Abstract!vars, OnRecord

\* A role that starts was not being executed and has its dependencies behind it.
LEMMA RunStart ==
  ASSUME RunnerInv, RunnerInv', [Next]_vars, NEW r \in Roles, StartRole(r)
  PROVE  Abstract!Next \/ UNCHANGED Abstract!vars
<1>1. /\ UNCHANGED <<deps, level, doneEver, durable, phase>>
      /\ phase = "wave" /\ active' = active \cup {r}
  BY DEF StartRole, blueprintVars
<1>2. UNCHANGED <<OnRecord, StateOfRun>> /\ StateOfRun = "working"
  BY <1>1 DEF OnRecord, StateOfRun
<1>3. CASE r \in active
  <2>1. active' = active
    BY <1>1, <1>3
  <2>2. QED
    BY <1>1, <1>2, <2>1, RunStutter
<1>4. CASE r \notin active
  <2>1. r \notin OnRecord
    BY <1>1, <1>4, StartsUnrecorded DEF OnRecord
  <2>2. (RunnerInv => DependenciesFirst)'
    BY InOrder, PTL
  <2>3. deps[r] \subseteq doneEver
    BY <1>1, <2>2 DEF DependenciesFirst
  <2>4. Abstract!Start(r)
    BY <1>1, <1>2, <1>4, <2>1, <2>3 DEF Abstract!Start, OnRecord
  <2>5. QED
    BY <2>4 DEF Abstract!Next
<1>5. QED
  BY <1>3, <1>4

LEMMA RunEnd ==
  ASSUME NEW r \in Roles, NEW ok \in BOOLEAN, EndRole(r, ok)
  PROVE  Abstract!Next
<1>1. /\ UNCHANGED <<deps, level, durable, phase>>
      /\ r \in active /\ active' = active \ {r}
      /\ doneEver' \in {doneEver, doneEver \cup {r}}
  BY DEF EndRole, blueprintVars
<1>2. UNCHANGED <<OnRecord, StateOfRun>>
  BY <1>1 DEF OnRecord, StateOfRun
<1>3. Abstract!End(r)
  BY <1>1, <1>2 DEF Abstract!End, OnRecord
<1>4. QED
  BY <1>3 DEF Abstract!Next

\* Nothing is put on record.
LEMMA NothingSettled ==
  ASSUME UNCHANGED OnRecord
  PROVE  Abstract!Settle
<1>1. {} \in SUBSET doneEver /\ OnRecord' = OnRecord \cup {}
  OBVIOUS
<1>2. QED
  BY <1>1 DEF Abstract!Settle, OnRecord

\* After a save, successful or not, the run goes on, gives up or has completed.
LEMMA RunAfterSave ==
  ASSUME RunnerInv, AfterSave, UNCHANGED <<deps, doneEver>>, Abstract!Settle
  PROVE  Abstract!Next
<1>1. phase \in {"save-next", "write-next", "save-failed", "write-failed", "save-done", "write-done"}
  BY DEF AfterSave
<1>2. active = {} /\ StateOfRun = "working"
  BY <1>1 DEF RunnerInv, TypeInv, Idle, StateOfRun
<1>3. CASE EnterWave(session, index + 1)
  <2>1. active' = {} /\ StateOfRun' = "working"
    BY <1>3 DEF EnterWave, StateOfRun
  <2>2. Abstract!Save
    BY <1>2, <2>1 DEF Abstract!Save
  <2>3. QED
    BY <2>2 DEF Abstract!Next
<1>4. CASE phase' = "failed" /\ UNCHANGED waveVars
  <2>1. active' = {} /\ StateOfRun' = "stopped"
    BY <1>2, <1>4 DEF waveVars, StateOfRun
  <2>2. Abstract!Stop
    BY <1>2, <2>1 DEF Abstract!Stop
  <2>3. QED
    BY <2>2 DEF Abstract!Next
<1>5. CASE phase \in {"save-done", "write-done"} /\ phase' = "done" /\ UNCHANGED waveVars
  <2>1. active' = active /\ StateOfRun' = "completed"
    BY <1>5 DEF waveVars, StateOfRun
  <2>2. doneEver = Roles
    BY <1>5 DEF RunnerInv, CompletionIsTrue
  <2>3. Abstract!Complete
    BY <1>2, <2>1, <2>2 DEF Abstract!Complete
  <2>4. QED
    BY <2>3 DEF Abstract!Next
<1>6. QED
  BY <1>3, <1>4, <1>5 DEF AfterSave

\* Write puts on record the waves that the process knows to be complete.
LEMMA RunWrite ==
  ASSUME RunnerInv, Write
  PROVE  Abstract!Next
<1>1. /\ AfterSave /\ UNCHANGED <<deps, level, doneEver>>
      /\ \A i : i \in durable' <=> i \in durable \/ Complete(mem, level, i)
  BY DEF Write, Complete, LevelSet, DependencyWave, blueprintVars
<1> DEFINE S == {r \in Roles : Complete(mem, level, level[r])}
<1>2. S \in SUBSET doneEver
  BY RecordedHaveSucceeded DEF LevelSet
<1>3. OnRecord' = OnRecord \cup S
  BY <1>1 DEF OnRecord
<1> HIDE DEF S
<1>4. Abstract!Settle
  BY <1>2, <1>3 DEF Abstract!Settle, OnRecord
<1>5. QED
  BY <1>1, <1>4, RunAfterSave

LEMMA RunStep == RunnerInv /\ RunnerInv' /\ [Next]_vars => [Abstract!Next]_(Abstract!vars)
<1> SUFFICES ASSUME RunnerInv, RunnerInv', [Next]_vars
             PROVE  Abstract!Next \/ UNCHANGED Abstract!vars
  OBVIOUS
<1>1. ASSUME NEW r \in Roles, StartRole(r) PROVE Abstract!Next \/ UNCHANGED Abstract!vars
  BY <1>1, RunStart
<1>2. ASSUME NEW r \in Roles, NEW ok \in BOOLEAN, EndRole(r, ok) PROVE Abstract!Next
  BY <1>2, RunEnd
<1>3. CASE EndWave
  <2>1. /\ UNCHANGED <<deps, level, doneEver, durable, active>>
        /\ phase = "wave" /\ active = {} /\ phase' \in {"save-next", "save-failed", "failed"}
    BY <1>3 DEF EndWave, blueprintVars, waveVars
  <2>2. UNCHANGED OnRecord /\ StateOfRun = "working"
    BY <2>1 DEF OnRecord, StateOfRun
  <2>3. CASE phase' = "failed"
    <3>1. Abstract!Stop
      BY <2>1, <2>2, <2>3, NothingSettled DEF Abstract!Stop, StateOfRun
    <3>2. QED
      BY <3>1 DEF Abstract!Next
  <2>4. CASE phase' \in {"save-next", "save-failed"}
    BY <2>1, <2>2, <2>4, RunStutter DEF StateOfRun
  <2>5. QED
    BY <2>1, <2>3, <2>4
<1>4. CASE ReviewQA \/ Truncate
  <2>1. /\ UNCHANGED <<deps, level, doneEver, durable, active>>
        /\ phase \in {"qa"} \cup Saving
        /\ phase' \in {"save-done"} \cup Writing
    BY <1>4 DEF ReviewQA, Truncate, Saving, Writing, blueprintVars, waveVars
  <2>2. UNCHANGED <<OnRecord, StateOfRun>>
    BY <2>1 DEF OnRecord, StateOfRun, Saving, Writing
  <2>3. QED
    BY <2>1, <2>2, RunStutter
<1>5. CASE OpenFails \/ WriteFails
  <2>1. AfterSave /\ UNCHANGED <<deps, level, doneEver, durable>>
    BY <1>5 DEF OpenFails, WriteFails, blueprintVars
  <2>2. UNCHANGED OnRecord
    BY <2>1 DEF OnRecord
  <2>3. QED
    BY <2>1, <2>2, NothingSettled, RunAfterSave
<1>6. CASE Write
  BY <1>6, RunWrite
<1>7. CASE Crash
  <2>1. /\ UNCHANGED <<deps, level, doneEver, durable>> /\ active' = {}
        /\ phase \notin {"down", "failed", "done"} /\ phase' = "down"
    BY <1>7 DEF Crash, blueprintVars
  <2>2. UNCHANGED OnRecord
    BY <2>1 DEF OnRecord
  <2>3. Abstract!Stop
    BY <2>1, <2>2, NothingSettled DEF Abstract!Stop, StateOfRun
  <2>4. QED
    BY <2>3 DEF Abstract!Next
<1>8. CASE Resume
  <2>1. /\ UNCHANGED <<deps, level, doneEver, durable>> /\ active' = {}
        /\ phase \in {"down", "failed", "done"} /\ phase' \in {"wave", "qa"}
    BY <1>8 DEF Resume, EnterWave, blueprintVars
  <2>2. UNCHANGED <<OnRecord, active>>
    BY <2>1 DEF OnRecord, RunnerInv, TypeInv, Idle
  <2>3. Abstract!Resume
    BY <2>1, <2>2 DEF Abstract!Resume, StateOfRun, OnRecord
  <2>4. QED
    BY <2>3 DEF Abstract!Next
<1>9. CASE UNCHANGED vars
  BY <1>9, RunStutter DEF vars, blueprintVars, waveVars, OnRecord, StateOfRun
<1>10. QED
  BY <1>1, <1>2, <1>3, <1>4, <1>5, <1>6, <1>7, <1>8, <1>9 DEF Next, Process, Rest

\* Through all its processes the runner does what a run that is interrupted and
\* resumed promises: dependencies first, no recorded role again, and completion
\* only when every role has succeeded.
THEOREM RunsImplementResumableRun == Spec => ImplementsResumableRun
<1>1. Init => Abstract!Init
  BY RunInit
<1>2. RunnerInv /\ RunnerInv' /\ [Next]_vars => [Abstract!Next]_(Abstract!vars)
  BY RunStep
<1>3. QED
  BY <1>1, <1>2, RunnerInvariant, PTL DEF Spec, Abstract!Spec, ImplementsResumableRun

-----------------------------------------------------------------------------
(***************************************************************************)
(* A process ends: it can always go on, and every step of it leads on.     *)
(***************************************************************************)
\* What the guards of the process's actions ask for.
CanGoOn ==
  \/ phase = "wave" /\ \E r \in todo : Cardinality(active) < MaxConcurrency
  \/ phase = "wave" /\ active # {}
  \/ phase = "wave" /\ todo = {} /\ active = {}
  \/ phase \in {"qa"} \cup Saving \cup Writing

\* How far the process is within one turn of the loop, and after the last one.
PhaseRank ==
  [p \in {"wave", "qa", "failed", "done"} \cup Saving \cup Writing |->
     CASE p = "wave" -> 0
       [] p \in {"save-next", "save-failed"} -> 1
       [] p \in {"write-next", "write-failed"} -> 2
       [] p = "qa" -> 3
       [] p = "save-done" -> 4
       [] p = "write-done" -> 5
       [] OTHER -> 6]

\* A role starts, or one ends, or the process is in a later phase of its turn, or in
\* a later turn.
LeadsOn ==
  \/ /\ UNCHANGED <<index, phase>>
     /\ todo' \subseteq todo /\ todo' # todo
  \/ /\ UNCHANGED <<index, phase, todo>>
     /\ active' \subseteq active /\ active' # active
  \/ index' = index /\ PhaseRank[phase'] > PhaseRank[phase]
  \/ index' = index + 1

LEMMA RunnerCanGoOn ==
  ASSUME RunnerInv, phase \notin {"down", "failed", "done"}
  PROVE  CanGoOn
<1>1. CASE phase = "wave" /\ active = {} /\ todo # {}
  <2>1. Cardinality(active) < MaxConcurrency
    BY <1>1, NoneActive, RunnerAssumption
  <2>2. QED
    BY <1>1, <2>1 DEF CanGoOn
<1>2. QED
  BY <1>1 DEF CanGoOn, RunnerInv, TypeInv, TypeOK

\* A process is never stuck while it is alive: no role waits for a place that
\* nobody will give back, and the loop has at most as many turns as there are roles.
THEOREM RunnerNeverStuck ==
  Spec => [](/\ phase \notin {"down", "failed", "done"} => CanGoOn
             /\ phase = "wave" => index < Cardinality(Roles))
<1>1. RunnerInv => /\ phase \notin {"down", "failed", "done"} => CanGoOn
                   /\ phase = "wave" => index < Cardinality(Roles)
  <2>1. ASSUME RunnerInv, phase = "wave" PROVE index < Cardinality(Roles)
    <3>1. PICK r \in Roles : Place(r) = index
      BY <2>1 DEF RunnerInv, TurnInv
    <3>2. Place(r) \in Indexes
      BY <2>1, PositionType DEF Place, RunnerInv, TypeInv, TypeOK
    <3>3. QED
      BY <3>1, <3>2, IndexesAre
  <2>2. QED
    BY <2>1, RunnerCanGoOn
<1>2. QED
  BY <1>1, RunnerInvariant, PTL

LEMMA AfterSaveLeadsOn ==
  ASSUME TypeOK, AfterSave
  PROVE  LeadsOn
<1>1. CASE phase \in {"save-next", "write-next"} /\ EnterWave(session, index + 1)
  BY <1>1 DEF EnterWave, LeadsOn
<1>2. CASE /\ phase \in {"save-failed", "write-failed", "save-done", "write-done"}
           /\ phase' \in {"failed", "done"} /\ UNCHANGED waveVars
  BY <1>2 DEF LeadsOn, PhaseRank, Saving, Writing, waveVars
<1>3. QED
  BY <1>1, <1>2 DEF AfterSave

\* Every step of a process leads on: to fewer roles that wait, or that are executed,
\* to a later phase, or to the next of finitely many turns.  So it ends.
THEOREM ProcessLeadsOn == Spec => [][Process => LeadsOn]_vars
<1>1. ASSUME RunnerInv, Process PROVE LeadsOn
  <2>1. ASSUME NEW r \in Roles, StartRole(r) PROVE LeadsOn
    BY <2>1 DEF StartRole, LeadsOn
  <2>2. ASSUME NEW r \in Roles, NEW ok \in BOOLEAN, EndRole(r, ok) PROVE LeadsOn
    BY <2>2 DEF EndRole, LeadsOn
  <2>3. CASE EndWave
    <3>1. phase = "wave" /\ phase' \in {"save-next", "save-failed", "failed"} /\ index' = index
      BY <2>3 DEF EndWave, waveVars
    <3>2. QED
      BY <3>1 DEF LeadsOn, PhaseRank, Saving, Writing
  <2>4. CASE ReviewQA
    BY <2>4 DEF ReviewQA, LeadsOn, PhaseRank, Saving, Writing, waveVars
  <2>5. CASE Truncate
    <3>1. /\ index' = index
          /\ \/ phase = "save-next" /\ phase' = "write-next"
             \/ phase = "save-failed" /\ phase' = "write-failed"
             \/ phase = "save-done" /\ phase' = "write-done"
      BY <2>5 DEF Truncate, Saving, waveVars
    <3>2. QED
      BY <3>1 DEF LeadsOn, PhaseRank, Saving, Writing
  <2>6. CASE OpenFails \/ Write \/ WriteFails
    BY <1>1, <2>6, AfterSaveLeadsOn DEF OpenFails, Write, WriteFails, RunnerInv, TypeInv
  <2>7. QED
    BY <1>1, <2>1, <2>2, <2>3, <2>4, <2>5, <2>6 DEF Process
<1>2. QED
  BY <1>1, RunnerInvariant, PTL DEF Spec

-----------------------------------------------------------------------------
(***************************************************************************)
(* What a resumption may forget.                                           *)
(***************************************************************************)
\* No completed role is forgotten when a wave is recorded, in the first process
\* always and in a resumed one when the waves were parallel: only a resumed serial
\* run overwrites an entry that was in use (CompletedRolesRemembered is false of it).
THEOREM OnlySerialResumeForgets ==
  Spec => [][EndWave /\ (session = "run" \/ ~serial)
               => GetCompletedWaveRoles(mem) \subseteq GetCompletedWaveRoles(mem')]_vars
<1>1. ASSUME RunnerInv, EndWave, session = "run" \/ ~serial
      PROVE  GetCompletedWaveRoles(mem) \subseteq GetCompletedWaveRoles(mem')
  <2>1. phase = "wave" /\ Covered = index /\ Alive
    BY <1>1 DEF EndWave, Covered, Alive
  <2>2. PICK x \in Roles : Place(x) = index
    BY <1>1, <2>1 DEF RunnerInv, TurnInv
  <2>3. index \in Indexes /\ index \in Nat
    BY <1>1, <2>2, PositionType, IndexesAre DEF Place, RunnerInv, TypeInv, TypeOK
  <2>4. mem.waves[index] = {}
    <3>1. CASE session = "run"
      BY <1>1, <2>1, <2>3, <3>1 DEF RunnerInv, RecordInv
    <3>2. CASE session = "resume" /\ ~serial
      <4>1. SUFFICES ASSUME mem.waves[index] # {} PROVE FALSE
        OBVIOUS
      <4>2. mem.waves[index] = LevelSet(level, index)
        BY <1>1, <2>3, <3>2, <4>1 DEF RunnerInv, MemInv, Recorded, NoGaps
      <4>3. Complete(mem, level, index)
        BY <2>3, <4>1, <4>2 DEF Complete, GetCompletedWaveRoles
      <4>4. index < index
        BY <1>1, <2>1, <2>3, <3>2, <4>3 DEF RunnerInv, RecordInv
      <4>5. QED
        BY <2>3, <4>4
    <3>3. QED
      BY <1>1, <3>1, <3>2 DEF RunnerInv, TypeInv, TypeOK
  <2>5. \A i \in Indexes : i # index => mem'.waves[i] = mem.waves[i]
    <3> DEFINE w == Wave(session, index)
               a == WriteArtifacts(mem, w)
    <3>1. mem \in State
      BY <1>1 DEF RunnerInv, TypeInv, TypeOK
    <3>2. a.waves = mem.waves /\ DOMAIN a = {"waves", "artifacts"}
      BY <3>1 DEF WriteArtifacts, State
    <3>3. mem' \in {mem, MarkWaveCompleted(a, index, w)}
      BY <1>1 DEF EndWave
    <3> HIDE DEF w, a
    <3>4. mem' = mem \/ mem'.waves = [a.waves EXCEPT ![index] = w]
      BY <3>2, <3>3 DEF MarkWaveCompleted
    <3>5. DOMAIN mem.waves = Indexes
      BY <3>1 DEF State
    <3>6. QED
      BY <3>2, <3>4, <3>5
  <2>6. QED
    BY <2>4, <2>5 DEF GetCompletedWaveRoles
<1>2. QED
  BY <1>1, RunnerInvariant, PTL DEF Spec
=============================================================================
