--------------------------- MODULE IterationBudget ---------------------------
(***************************************************************************)
(* The iteration budget of one prompt and the agentic loop it controls:    *)
(* the loop of Supervisor asks ShouldContinue before every turn, records   *)
(* the tool calls of the turn, and leaves when the calls repeat; the model *)
(* may ask for more iterations with the tool request_iteration_budget.     *)
(*                                                                         *)
(* A tool call is its fingerprint.  What the model answers, and when it    *)
(* asks for an extension, is up to it; an extension may even come from the *)
(* tool of another prompt, since the active controller is a global of the  *)
(* process.                                                                *)
(***************************************************************************)
EXTENDS Integers, Sequences, FiniteSets

CONSTANTS
  Modes,       \* the modes prompts are run in
  UserMaxes,   \* the values of SetMaxIterations; 0 means the mode's default
  Calls,       \* fingerprints of tool calls
  Requests,    \* amounts the model asks for, also absurd ones
  MaxCalls     \* bound: tool calls of one turn

ASSUME BudgetAssumption ==
  /\ Modes \subseteq {"ask", "rush", "plan", "test", "workflow", "other"}
  /\ UserMaxes \subseteq Nat
  /\ Requests \subseteq Int
  /\ MaxCalls \in Nat

MaxManualExtRequests     == 5
MaxManualExtMultiplier   == 3
AbsoluteIterationHardCap == 240
RepeatN                  == 8

AtMost(n, cap)   == IF n > cap THEN cap ELSE n
AtLeast(n, least) == IF n < least THEN least ELSE n

ModeDefaults(mode) ==
  CASE mode = "ask"      -> [base |->  5, hardCap |-> 15]
    [] mode = "rush"     -> [base |-> 15, hardCap |-> 40]
    [] mode = "plan"     -> [base |-> 12, hardCap |-> 30]
    [] mode = "test"     -> [base |-> 10, hardCap |-> 25]
    [] mode = "workflow" -> [base |-> 30, hardCap |-> 80]
    [] OTHER             -> [base |-> 20, hardCap |-> 50]

AdaptiveHardCapForUserMax(mode, base) ==
  LET multiplier == CASE mode = "ask" -> 1 [] mode = "workflow" -> 3 [] OTHER -> 2
  IN  AtLeast(AtMost(base * multiplier, AbsoluteIterationHardCap), base)

\* The base and the first hard cap of NewIterationBudget.
NewBudget(mode, userMax) ==
  IF userMax > 0
    THEN [base |-> userMax, hardCap |-> AdaptiveHardCapForUserMax(mode, userMax)]
    ELSE ModeDefaults(mode)

VARIABLES
  base,       \* the first budget
  initial,    \* the hard cap the budget was created with (history)
  hardCap,
  current,
  recent,     \* the fingerprints of the last RepeatN calls
  lastFp,
  repeats,    \* consecutive repeats of lastFp
  grants,     \* manualExtCount
  granted,    \* manualExtTotal
  iteration,  \* turns completed
  calls,      \* tool calls recorded in this turn
  stuckLoop,  \* one of them was found to repeat
  phase       \* where the agentic loop is

budgetVars == <<base, initial, hardCap, current, grants, granted>>
trackVars  == <<recent, lastFp, repeats, stuckLoop, calls>>
vars == <<budgetVars, trackVars, iteration, phase>>

Init ==
  /\ \E mode \in Modes, userMax \in UserMaxes :
       LET b == NewBudget(mode, userMax)
       IN  /\ base = b.base
           /\ initial = b.hardCap
  /\ hardCap = initial
  /\ current = base
  /\ recent = <<>>
  /\ lastFp = "none"
  /\ repeats = 0
  /\ grants = 0
  /\ granted = 0
  /\ iteration = 0
  /\ calls = 0
  /\ stuckLoop = FALSE
  /\ phase = "check"

-----------------------------------------------------------------------------
(***************************************************************************)
(* ShouldContinue(i): the value it leaves in current; it returns whether i *)
(* is below that.                                                          *)
(***************************************************************************)
MakingProgress ==
  /\ recent # <<>>
  /\ Cardinality({recent[k] : k \in DOMAIN recent}) * 2 >= Len(recent)

\* Mutants: the extension is not clamped; it is granted without progress.
CurrentUnclamped(i) ==
  IF i < current \/ current >= hardCap \/ ~MakingProgress THEN current
  ELSE current + AtLeast(base \div 4, 3)

CurrentRegardless(i) ==
  IF i < current \/ current >= hardCap THEN current
  ELSE AtMost(current + AtLeast(base \div 4, 3), hardCap)

CurrentAfterAsking(i) ==
  IF i < current \/ current >= hardCap \/ ~MakingProgress THEN current
  ELSE AtMost(current + AtLeast(base \div 4, 3), hardCap)

AskToContinue(i, onYes, onNo) ==
  /\ current' = CurrentAfterAsking(i)
  /\ phase' = IF i < current' THEN onYes ELSE onNo

-----------------------------------------------------------------------------
(***************************************************************************)
(* The agentic loop.                                                       *)
(***************************************************************************)
\* The condition of the for loop.
NextTurn ==
  /\ phase = "check"
  /\ AskToContinue(iteration, "turn", "final")
  /\ UNCHANGED <<base, initial, hardCap, grants, granted, trackVars, iteration>>

Occurrences(fps, fp) == Cardinality({k \in DOMAIN fps : fps[k] = fp})

\* Mutant: only the last call of the turn counts.
DetectsLast(r, reps, fp) == reps >= 3 \/ Occurrences(r, fp) >= 4

\* RecordToolCalls finds three in a row, or four in the window.
Detects(r, reps, fp) ==
  stuckLoop \/ reps >= 3 \/ Occurrences(r, fp) >= 4

\* Mutant: the window grows.
WindowUntrimmed(fps) == fps

\* The last RepeatN of the fingerprints.
Window(fps) == IF Len(fps) > RepeatN THEN Tail(fps) ELSE fps

\* The model calls a tool, which is recorded.
RecordToolCall(fp) ==
  /\ phase \in {"turn", "calls"}
  /\ calls < MaxCalls
  /\ calls' = calls + 1
  /\ lastFp' = fp
  /\ repeats' = IF fp = lastFp THEN repeats + 1 ELSE 1
  /\ recent' = Window(Append(recent, fp))
  /\ stuckLoop' = Detects(recent', repeats', fp)
  /\ phase' = "calls"
  /\ UNCHANGED <<budgetVars, iteration>>

\* The tool calls of the turn were executed.  The loop is left with the steering
\* message if they repeat, and with the result if it can finish quickly.
FinishTurn ==
  /\ phase = "calls"
  /\ \/ phase' = "answered" /\ UNCHANGED iteration
     \/ /\ stuckLoop
        /\ phase' = "final" /\ UNCHANGED iteration
     \/ /\ ~stuckLoop
        /\ phase' = "check" /\ iteration' = iteration + 1
  /\ calls' = 0
  /\ stuckLoop' = FALSE
  /\ UNCHANGED <<budgetVars, recent, lastFp, repeats>>

\* The model gives a final answer, or the turn fails.
Answer ==
  /\ phase = "turn"
  /\ phase' = "answered"
  /\ UNCHANGED <<budgetVars, trackVars, iteration>>

\* Mutant: a nudge does not use up the turn.
NudgeAnswerForFree ==
  /\ phase = "turn"
  /\ AskToContinue(iteration + 1, "check", "answered")
  /\ UNCHANGED <<base, initial, hardCap, grants, granted, trackVars, iteration>>

\* The answer is empty or rejected: the model is nudged if a turn is left.
NudgeAnswer ==
  /\ phase = "turn"
  /\ AskToContinue(iteration + 1, "check", "answered")
  /\ iteration' = IF phase' = "check" THEN iteration + 1 ELSE iteration
  /\ UNCHANGED <<base, initial, hardCap, grants, granted, trackVars>>

\* After the loop, one call without tools; it is answered in any case.
FinalAnswer ==
  /\ phase = "final"
  /\ phase' = "answered"
  /\ UNCHANGED <<budgetVars, trackVars, iteration>>

\* Mutant: the ceiling is three times the present hard cap.
MaxAllowedOfPresent == hardCap * MaxManualExtMultiplier

\* The hard cap a request may reach, from the one the budget was created with.
MaxAllowedHardCap ==
  (IF granted > 0 THEN hardCap - granted ELSE hardCap) * MaxManualExtMultiplier

\* RequestExtension, with a reason; it changes nothing when it denies.
RequestExtension(requested) ==
  /\ phase # "answered"
  /\ requested > 0
  /\ grants < MaxManualExtRequests
  /\ hardCap < MaxAllowedHardCap
  /\ LET grant == AtMost(requested, MaxAllowedHardCap - hardCap)
     IN  /\ hardCap' = hardCap + grant
         /\ current' = current + grant
         /\ granted' = granted + grant
  /\ grants' = grants + 1
  /\ UNCHANGED <<base, initial, trackVars, iteration, phase>>

-----------------------------------------------------------------------------
Loop ==
  \/ NextTurn \/ FinishTurn \/ Answer \/ NudgeAnswer \/ FinalAnswer
  \/ \E fp \in Calls : RecordToolCall(fp)

Terminated == phase = "answered" /\ UNCHANGED vars

Next == Loop \/ (\E requested \in Requests : RequestExtension(requested)) \/ Terminated

Spec == Init /\ [][Next]_vars

\* The goroutine of the prompt runs on: a turn of the provider ends, it has a
\* timeout; that a tool call and the last answer, which has none, end is assumed.
FairSpec == Spec /\ WF_vars(Loop)

-----------------------------------------------------------------------------
\* The types of the variables.
TypeOK ==
  /\ base \in Nat /\ initial \in Nat /\ hardCap \in Nat /\ current \in Nat
  /\ recent \in Seq(Calls) /\ Len(recent) <= RepeatN
  /\ lastFp \in Calls \cup {"none"}
  /\ repeats \in Nat
  /\ grants \in Nat /\ granted \in Nat
  /\ iteration \in Nat /\ calls \in Nat
  /\ stuckLoop \in BOOLEAN
  /\ phase \in {"check", "turn", "calls", "final", "answered"}

\* No turn is started beyond the hard cap, and with however many extensions, by
\* progress or by request, the hard cap stays within the multiple of what the
\* budget was created with; no more requests are granted than allowed.
TurnsWithinCeiling ==
  /\ phase \in {"turn", "calls"} => iteration < hardCap
  /\ current <= hardCap
  /\ hardCap <= MaxManualExtMultiplier * initial
  /\ grants <= MaxManualExtRequests

Repeating == repeats >= 3 \/ \E fp \in Calls : Occurrences(recent, fp) >= 4

\* The model is never given another turn while its recent calls repeat, however
\* the calls were spread over turns and wherever in the turn the repetition was:
\* RecordToolCalls only looks at the call it records.
NoTurnWhenStuck == phase \in {"check", "turn"} => ~Repeating

\* A model that calls no tool but gives empty or rejected answers is nudged only
\* within the base budget and what was granted on request.
NudgesWithinBase == recent = <<>> => iteration <= base + granted

\* The agentic loop ends, whatever the model answers and asks for.
LoopEnds == <>(phase = "answered")

\* The inductive invariant behind the three safety properties: how the limits
\* relate, that ShouldContinue guards every turn, and that a repetition in the
\* window, or in a row, has been noticed in this turn.
LimitsInv ==
  /\ hardCap = initial + granted
  /\ granted <= (MaxManualExtMultiplier - 1) * initial
  /\ base + granted <= current
  /\ current <= hardCap
  /\ grants <= MaxManualExtRequests

TurnInv ==
  /\ recent = <<>> => current = base + granted
  /\ phase \in {"turn", "calls"} => iteration < current
  /\ iteration <= current

RepetitionInv ==
  \/ ~Repeating
  \/ phase = "calls" /\ stuckLoop
  \/ phase \in {"final", "answered"}

BudgetInv == TypeOK /\ LimitsInv /\ TurnInv /\ RepetitionInv
=============================================================================
