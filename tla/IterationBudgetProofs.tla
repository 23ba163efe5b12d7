------------------------ MODULE IterationBudgetProofs ------------------------
(***************************************************************************)
(* Proofs about the iteration budget, for every mode, user override, set   *)
(* of tool calls and amount requested: BudgetInv is inductive, and the     *)
(* ceiling, the repetition guard and the limit on nudges follow from it.   *)
(***************************************************************************)
EXTENDS IterationBudget, FiniteSetTheorems, SequenceTheorems, TLAPS

(***************************************************************************)
(* The arithmetic of the limits.                                           *)
(***************************************************************************)
\* NewIterationBudget: the base fits in the hard cap.
LEMMA NewBudgetFits ==
  ASSUME NEW mode \in Modes, NEW userMax \in UserMaxes
  PROVE  /\ NewBudget(mode, userMax).base \in Nat
         /\ NewBudget(mode, userMax).hardCap \in Nat
         /\ NewBudget(mode, userMax).base <= NewBudget(mode, userMax).hardCap
<1>1. userMax \in Nat
  BY BudgetAssumption
<1>2. CASE userMax > 0
  <2> DEFINE multiplier == CASE mode = "ask" -> 1 [] mode = "workflow" -> 3 [] OTHER -> 2
             product    == userMax * multiplier
  <2>1. multiplier \in Nat
    OBVIOUS
  <2>2. product \in Nat
    BY <1>1, <2>1
  <2>3. AdaptiveHardCapForUserMax(mode, userMax)
          = AtLeast(AtMost(product, AbsoluteIterationHardCap), userMax)
    BY DEF AdaptiveHardCapForUserMax
  <2> HIDE DEF product
  <2>4. /\ AdaptiveHardCapForUserMax(mode, userMax) \in Nat
        /\ userMax <= AdaptiveHardCapForUserMax(mode, userMax)
    BY <1>1, <2>2, <2>3 DEF AtLeast, AtMost, AbsoluteIterationHardCap
  <2> QED
    BY <1>1, <1>2, <2>4 DEF NewBudget
<1>3. CASE ~(userMax > 0)
  <2>1. NewBudget(mode, userMax) = ModeDefaults(mode)
    BY <1>3 DEF NewBudget
  <2> QED
    BY <2>1 DEF ModeDefaults
<1> QED
  BY <1>2, <1>3

\* ShouldContinue only raises the limit, only up to the hard cap, and not at all
\* when no tool was called.
LEMMA LimitOnlyGrows ==
  ASSUME BudgetInv, NEW i \in Nat
  PROVE  /\ CurrentAfterAsking(i) \in Nat
         /\ current <= CurrentAfterAsking(i)
         /\ CurrentAfterAsking(i) <= hardCap
         /\ recent = <<>> => CurrentAfterAsking(i) = current
BY DEF BudgetInv, TypeOK, LimitsInv, CurrentAfterAsking, AtMost, AtLeast, MakingProgress

(***************************************************************************)
(* The window of recent calls.                                             *)
(***************************************************************************)
LEMMA WindowIsShort ==
  ASSUME NEW fps \in Seq(Calls), Len(fps) <= RepeatN, NEW fp \in Calls
  PROVE  /\ Window(Append(fps, fp)) \in Seq(Calls)
         /\ Window(Append(fps, fp)) # <<>>
         /\ Len(Window(Append(fps, fp))) <= RepeatN
<1> DEFINE longer == Append(fps, fp)
<1>1. longer \in Seq(Calls) /\ longer # <<>> /\ Len(longer) = Len(fps) + 1 /\ Len(fps) \in Nat
  BY AppendProperties, LenProperties
<1>2. Tail(longer) \in Seq(Calls) /\ Len(Tail(longer)) = Len(longer) - 1
  BY <1>1, HeadTailProperties
<1> HIDE DEF longer
<1>3. Len(longer) > RepeatN => Tail(longer) # <<>>
  BY <1>1, <1>2 DEF RepeatN
<1>4. Window(longer) \in Seq(Calls) /\ Window(longer) # <<>> /\ Len(Window(longer)) <= RepeatN
  BY <1>1, <1>2, <1>3 DEF Window, RepeatN
<1> QED
  BY <1>4 DEF longer

\* Recording a call makes no other call more frequent in the window.
LEMMA OthersNotMoreFrequent ==
  ASSUME NEW fps \in Seq(Calls), NEW fp \in Calls, NEW other \in Calls, other # fp
  PROVE  Occurrences(Window(Append(fps, fp)), other) <= Occurrences(fps, other)
<1> DEFINE longer == Append(fps, fp)
           new    == Window(longer)
           shift  == IF Len(longer) > RepeatN THEN 1 ELSE 0
           S      == {k \in DOMAIN new : new[k] = other}
           T      == {k \in DOMAIN fps : fps[k] = other}
           f      == [k \in S |-> k + shift]
<1>1. /\ longer \in Seq(Calls) /\ longer # <<>> /\ Len(longer) = Len(fps) + 1
      /\ \A k \in 1 .. Len(fps) : longer[k] = fps[k]
      /\ longer[Len(fps) + 1] = fp
  BY AppendProperties
<1>2. Len(fps) \in Nat /\ DOMAIN fps = 1 .. Len(fps)
  BY LenProperties
<1>3. /\ Tail(longer) \in Seq(Calls) /\ Len(Tail(longer)) = Len(longer) - 1
      /\ \A k \in 1 .. Len(Tail(longer)) : Tail(longer)[k] = longer[k + 1]
  BY <1>1, HeadTailProperties
<1>4. /\ new \in Seq(Calls) /\ shift \in {0, 1} /\ Len(new) = Len(fps) + 1 - shift
      /\ \A k \in 1 .. Len(new) : new[k] = longer[k + shift]
  <2>1. CASE Len(longer) > RepeatN
    <3>1. new = Tail(longer) /\ shift = 1
      BY <2>1 DEF Window
    <3> HIDE DEF longer, new, shift
    <3> QED
      BY <1>1, <1>2, <1>3, <3>1
  <2>2. CASE ~(Len(longer) > RepeatN)
    <3>1. new = longer /\ shift = 0
      BY <2>2 DEF Window
    <3>2. \A k \in 1 .. Len(longer) : k + 0 = k
      BY <1>1, <1>2
    <3> HIDE DEF longer, new, shift
    <3> QED
      BY <1>1, <1>2, <3>1, <3>2
  <2> QED
    BY <2>1, <2>2
<1>5. DOMAIN new = 1 .. Len(new)
  BY <1>4, LenProperties
<1> HIDE DEF longer, new, shift
<1>6. \A k \in S : k \in Nat /\ k + shift \in T
  <2> SUFFICES ASSUME NEW k \in S
               PROVE  k \in Nat /\ k + shift \in T
    OBVIOUS
  <2>1. k \in 1 .. Len(new) /\ longer[k + shift] = other
    BY <1>4, <1>5
  <2>2. k + shift \in 1 .. Len(fps) + 1 /\ k \in Nat
    BY <1>2, <1>4, <2>1
  <2>3. k + shift # Len(fps) + 1
    BY <1>1, <2>1
  <2>4. k + shift \in 1 .. Len(fps)
    BY <1>2, <2>2, <2>3
  <2> QED
    BY <1>1, <1>2, <2>1, <2>2, <2>4
<1>7. f \in Injection(S, T)
  <2>1. f \in [S -> T]
    BY <1>6
  <2>2. \A a, b \in S : f[a] = f[b] => a = b
    BY <1>4, <1>6
  <2> QED
    BY <2>1, <2>2 DEF Injection, IsInjective
<1>8. IsFiniteSet(T)
  <2>1. IsFiniteSet(1 .. Len(fps))
    BY <1>2, FS_Interval
  <2> QED
    BY <1>2, <2>1, FS_Subset
<1>9. Cardinality(S) <= Cardinality(T)
  BY <1>7, <1>8, FS_Injection
<1> QED
  BY <1>9 DEF Occurrences, new, longer

LEMMA OccurrencesIsNat ==
  ASSUME NEW fps \in Seq(Calls), NEW fp \in Calls
  PROVE  Occurrences(fps, fp) \in Nat
<1> DEFINE T == {k \in DOMAIN fps : fps[k] = fp}
<1>1. Len(fps) \in Nat /\ DOMAIN fps = 1 .. Len(fps)
  BY LenProperties
<1>2. IsFiniteSet(1 .. Len(fps))
  BY <1>1, FS_Interval
<1>3. IsFiniteSet(T)
  BY <1>1, <1>2, FS_Subset
<1> QED
  BY <1>3, FS_CardinalityType DEF Occurrences

\* What RecordToolCalls does not report does not repeat, if nothing did before.
LEMMA RepetitionIsNoticed ==
  ASSUME TypeOK, NEW fp \in Calls, RecordToolCall(fp), ~stuckLoop => ~Repeating, ~stuckLoop'
  PROVE  ~Repeating'
<1>1. ~Repeating
  BY DEF RecordToolCall, Detects
<1>2. /\ repeats' \in Nat
      /\ ~(repeats' >= 3)
      /\ ~(Occurrences(recent', fp) >= 4)
  <2>1. ~Detects(recent', repeats', fp)
    BY DEF RecordToolCall
  <2>2. repeats' \in Nat
    BY DEF RecordToolCall, TypeOK
  <2> QED
    BY <2>1, <2>2 DEF Detects
<1>3. recent' = Window(Append(recent, fp)) /\ recent \in Seq(Calls) /\ recent' \in Seq(Calls)
  BY WindowIsShort DEF RecordToolCall, TypeOK
<1>4. \A other \in Calls : ~(Occurrences(recent', other) >= 4)
  <2> SUFFICES ASSUME NEW other \in Calls
               PROVE  ~(Occurrences(recent', other) >= 4)
    OBVIOUS
  <2>1. CASE other = fp
    BY <1>2, <2>1
  <2>2. CASE other # fp
    <3>1. Occurrences(recent', other) <= Occurrences(recent, other)
      BY <1>3, <2>2, OthersNotMoreFrequent
    <3>2. ~(Occurrences(recent, other) >= 4)
      BY <1>1 DEF Repeating
    <3>3. Occurrences(recent', other) \in Nat /\ Occurrences(recent, other) \in Nat
      BY <1>3, OccurrencesIsNat
    <3> QED
      BY <3>1, <3>2, <3>3
  <2> QED
    BY <2>1, <2>2
<1> QED
  BY <1>2, <1>4 DEF Repeating

(***************************************************************************)
(* BudgetInv is inductive.                                                 *)
(***************************************************************************)
LEMMA InitBudgetInv == Init => BudgetInv
<1> SUFFICES ASSUME Init
             PROVE  BudgetInv
  OBVIOUS
<1>1. base \in Nat /\ initial \in Nat /\ base <= initial
  BY NewBudgetFits DEF Init
<1>2. TypeOK
  <2>1. recent \in Seq(Calls) /\ Len(recent) <= RepeatN
    BY DEF Init, RepeatN
  <2>2. stuckLoop \in BOOLEAN
    BY DEF Init
  <2> QED
    BY <1>1, <2>1, <2>2 DEF Init, TypeOK
<1>3. LimitsInv /\ TurnInv
  BY <1>1 DEF Init, LimitsInv, TurnInv, MaxManualExtMultiplier, MaxManualExtRequests
<1>4. ~Repeating
  <2>1. ASSUME NEW fp \in Calls
        PROVE  Occurrences(recent, fp) = 0
    <3>1. {k \in DOMAIN recent : recent[k] = fp} = {}
      BY DEF Init
    <3> QED
      BY <3>1, FS_EmptySet DEF Occurrences
  <2> QED
    BY <2>1 DEF Init, Repeating
<1> QED
  BY <1>2, <1>3, <1>4 DEF BudgetInv, RepetitionInv

LEMMA StepBudgetInv == BudgetInv /\ [Next]_vars => BudgetInv'
<1> SUFFICES ASSUME BudgetInv, [Next]_vars
             PROVE  BudgetInv'
  OBVIOUS
<1> USE DEF BudgetInv, TypeOK, LimitsInv, TurnInv, RepetitionInv
<1>1. CASE NextTurn
  <2>1. /\ current' \in Nat /\ current <= current' /\ current' <= hardCap
        /\ recent = <<>> => current' = current
        /\ phase' = IF iteration < current' THEN "turn" ELSE "final"
    BY <1>1, LimitOnlyGrows DEF NextTurn, AskToContinue
  <2>2. Repeating' <=> Repeating
    BY <1>1 DEF NextTurn, Repeating, trackVars
  <2> QED
    BY <1>1, <2>1, <2>2 DEF NextTurn, trackVars
<1>2. CASE FinishTurn
  <2>1. Repeating' <=> Repeating
    BY <1>2 DEF FinishTurn, Repeating
  <2>2. stuckLoop' \in BOOLEAN
    BY <1>2 DEF FinishTurn
  <2>3. /\ iteration' \in Nat /\ iteration' <= current
        /\ phase' = "answered" \/ phase' = "final" \/ (phase' = "check" /\ ~stuckLoop)
    BY <1>2 DEF FinishTurn
  <2>4. TypeOK'
    BY <1>2, <2>2, <2>3 DEF FinishTurn, budgetVars
  <2>5. LimitsInv' /\ TurnInv'
    BY <1>2, <2>3 DEF FinishTurn, budgetVars
  <2>6. RepetitionInv'
    BY <1>2, <2>1, <2>3 DEF FinishTurn
  <2> QED
    BY <2>4, <2>5, <2>6
<1>3. CASE Answer
  <2>1. Repeating' <=> Repeating
    BY <1>3 DEF Answer, Repeating, trackVars
  <2> QED
    BY <1>3, <2>1 DEF Answer, budgetVars, trackVars
<1>4. CASE NudgeAnswer
  <2>1. /\ current' \in Nat /\ current <= current' /\ current' <= hardCap
        /\ recent = <<>> => current' = current
        /\ phase' = IF iteration + 1 < current' THEN "check" ELSE "answered"
    BY <1>4, LimitOnlyGrows DEF NudgeAnswer, AskToContinue
  <2>2. Repeating' <=> Repeating
    BY <1>4 DEF NudgeAnswer, Repeating, trackVars
  <2> QED
    BY <1>4, <2>1, <2>2 DEF NudgeAnswer, trackVars
<1>5. CASE FinalAnswer
  <2>1. Repeating' <=> Repeating
    BY <1>5 DEF FinalAnswer, Repeating, trackVars
  <2> QED
    BY <1>5, <2>1 DEF FinalAnswer, budgetVars, trackVars
<1>6. ASSUME NEW fp \in Calls, RecordToolCall(fp)
      PROVE  BudgetInv'
  <2>1. recent' \in Seq(Calls) /\ recent' # <<>> /\ Len(recent') <= RepeatN
    BY <1>6, WindowIsShort DEF RecordToolCall
  <2>2. TypeOK'
    BY <1>6, <2>1 DEF RecordToolCall, Detects, budgetVars
  <2>3. LimitsInv' /\ TurnInv'
    BY <1>6, <2>1 DEF RecordToolCall, budgetVars
  <2>4. ~stuckLoop => ~Repeating
    BY <1>6 DEF RecordToolCall
  <2>5. ~stuckLoop' => ~Repeating'
    BY <1>6, <2>4, RepetitionIsNoticed
  <2>6. RepetitionInv'
    BY <1>6, <2>5 DEF RecordToolCall
  <2> QED
    BY <2>2, <2>3, <2>6
<1>7. ASSUME NEW requested \in Requests, RequestExtension(requested)
      PROVE  BudgetInv'
  <2> DEFINE grant == AtMost(requested, MaxAllowedHardCap - hardCap)
  <2>1. requested \in Int /\ requested > 0
    BY <1>7, BudgetAssumption DEF RequestExtension
  <2>2. MaxAllowedHardCap = 3 * initial
    BY DEF MaxAllowedHardCap, MaxManualExtMultiplier
  <2>3. grant \in Nat /\ hardCap + grant <= 3 * initial
    BY <1>7, <2>1, <2>2 DEF RequestExtension, AtMost
  <2>4. hardCap' = hardCap + grant /\ current' = current + grant /\ granted' = granted + grant
    BY <1>7 DEF RequestExtension
  <2>5. Repeating' <=> Repeating
    BY <1>7 DEF RequestExtension, Repeating, trackVars
  <2> HIDE DEF grant
  <2> QED
    BY <1>7, <2>3, <2>4, <2>5 DEF RequestExtension, trackVars, MaxManualExtMultiplier,
                                  MaxManualExtRequests
<1>8. CASE UNCHANGED vars
  <2>1. Repeating' <=> Repeating
    BY <1>8 DEF vars, Repeating, trackVars
  <2> QED
    BY <1>8, <2>1 DEF vars, budgetVars, trackVars
<1> QED
  BY <1>1, <1>2, <1>3, <1>4, <1>5, <1>6, <1>7, <1>8 DEF Next, Loop, Terminated

\* BudgetInv holds throughout.
THEOREM BudgetInvariant == Spec => []BudgetInv
<1>1. Init => BudgetInv
  BY InitBudgetInv
<1>2. BudgetInv /\ [Next]_vars => BudgetInv'
  BY StepBudgetInv
<1> QED
  BY <1>1, <1>2, PTL DEF Spec

\* The variables keep their types.
THEOREM BudgetTypeCorrect == Spec => []TypeOK
<1>1. BudgetInv => TypeOK
  BY DEF BudgetInv
<1> QED
  BY <1>1, BudgetInvariant, PTL

\* The agentic loop never takes a turn beyond the hard cap, and no sequence of
\* extensions raises the hard cap beyond three times its first value.
THEOREM CeilingHolds == Spec => []TurnsWithinCeiling
<1>1. BudgetInv => TurnsWithinCeiling
  BY DEF BudgetInv, TypeOK, LimitsInv, TurnInv, TurnsWithinCeiling, MaxManualExtMultiplier
<1> QED
  BY <1>1, BudgetInvariant, PTL

\* The model is never given another turn while the window of its recent calls
\* holds a repetition.
THEOREM StuckModelIsStopped == Spec => []NoTurnWhenStuck
<1>1. BudgetInv => NoTurnWhenStuck
  BY DEF BudgetInv, RepetitionInv, NoTurnWhenStuck
<1> QED
  BY <1>1, BudgetInvariant, PTL

\* Nudges alone never extend the budget.
THEOREM NudgesAreBounded == Spec => []NudgesWithinBase
<1>1. BudgetInv => NudgesWithinBase
  BY DEF BudgetInv, TurnInv, NudgesWithinBase
<1> QED
  BY <1>1, BudgetInvariant, PTL
-----------------------------------------------------------------------------
(***************************************************************************)
(* The loop ends: every step of it leads on, and its turns are bounded     *)
(* whatever is granted.                                                    *)
(***************************************************************************)
\* How far the loop is within one turn, and after the last one.
TurnRank ==
  [p \in {"check", "turn", "calls", "final", "answered"} |->
     CASE p = "check" -> 0 [] p = "turn" -> 1 [] p = "calls" -> 2 [] p = "final" -> 3 [] OTHER -> 4]

\* The next turn, a later phase of this one, or another of its tool calls.
LoopLeadsOn ==
  \/ iteration' = iteration + 1
  \/ iteration' = iteration /\ TurnRank[phase'] > TurnRank[phase]
  \/ UNCHANGED <<iteration, phase>> /\ phase = "calls" /\ calls' = calls + 1

Bounded == iteration <= MaxManualExtMultiplier * initial /\ calls <= MaxCalls

\* Turns are never more than three times the hard cap the budget was created with,
\* also those that only nudge, and however often the model asks for more.
THEOREM TurnsAreBounded == Spec => []Bounded
<1> DEFINE Inv == BudgetInv /\ calls <= MaxCalls
<1>1. Init => Inv
  BY InitBudgetInv, BudgetAssumption DEF Init
<1>2. Inv /\ [Next]_vars => Inv'
  <2> SUFFICES ASSUME Inv, [Next]_vars PROVE calls' <= MaxCalls
    BY StepBudgetInv
  <2>1. calls \in Nat /\ MaxCalls \in Nat
    BY BudgetAssumption DEF BudgetInv, TypeOK
  <2>2. ASSUME NEW fp \in Calls, RecordToolCall(fp) PROVE calls' <= MaxCalls
    BY <2>1, <2>2 DEF RecordToolCall
  <2>3. ASSUME NEW requested \in Requests, RequestExtension(requested) PROVE calls' = calls
    BY <2>3 DEF RequestExtension, trackVars
  <2>4. CASE NextTurn \/ FinishTurn \/ Answer \/ NudgeAnswer \/ FinalAnswer
    BY <2>1, <2>4 DEF NextTurn, FinishTurn, Answer, NudgeAnswer, FinalAnswer, trackVars
  <2>5. CASE UNCHANGED vars
    BY <2>5 DEF vars, trackVars
  <2> QED
    BY <2>2, <2>3, <2>4, <2>5 DEF Next, Loop, Terminated
<1>3. Inv => Bounded
  BY DEF BudgetInv, TypeOK, LimitsInv, TurnInv, Bounded, MaxManualExtMultiplier
<1> QED
  BY <1>1, <1>2, <1>3, PTL DEF Spec

\* No step of the loop leaves it where it was: not a nudge, an empty answer or a
\* question for more, which all use up a turn or end the loop.
THEOREM LoopAlwaysLeadsOn == Spec => [][Loop => LoopLeadsOn]_vars
<1>1. ASSUME BudgetInv, Loop PROVE LoopLeadsOn
  <2>1. /\ TurnRank["check"] = 0 /\ TurnRank["turn"] = 1 /\ TurnRank["calls"] = 2
        /\ TurnRank["final"] = 3 /\ TurnRank["answered"] = 4
    BY DEF TurnRank
  <2>2. CASE NextTurn
    BY <2>1, <2>2 DEF NextTurn, AskToContinue, LoopLeadsOn
  <2>3. CASE FinishTurn
    BY <2>1, <2>3 DEF FinishTurn, LoopLeadsOn
  <2>4. CASE Answer \/ FinalAnswer
    BY <2>1, <2>4 DEF Answer, FinalAnswer, LoopLeadsOn
  <2>5. CASE NudgeAnswer
    BY <2>1, <2>5 DEF NudgeAnswer, AskToContinue, LoopLeadsOn
  <2>6. ASSUME NEW fp \in Calls, RecordToolCall(fp) PROVE LoopLeadsOn
    BY <2>1, <2>6 DEF RecordToolCall, LoopLeadsOn
  <2> QED
    BY <1>1, <2>2, <2>3, <2>4, <2>5, <2>6 DEF Loop
<1> QED
  BY <1>1, BudgetInvariant, PTL DEF Spec
=============================================================================
