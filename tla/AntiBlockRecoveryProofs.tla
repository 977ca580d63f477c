---------------------- MODULE AntiBlockRecoveryProofs -----------------------
(***************************************************************************)
(* Theorems about AntiBlockRecovery, for any executions, platforms, sites, *)
(* limits, thresholds and custom strategies.                               *)
(***************************************************************************)
EXTENDS AntiBlockRecovery, TLAPS

\* An inspection of the page is asked for an answer that the signals accept.
JudgingIsUnblocked ==
  \A e \in Execution : pc[e] = "judging" => Signals(e) = "none"

\* The browser is relaunched because a rotation was decided.
RelaunchIsForRotation ==
  \A e \in Execution : pc[e] = "relaunching" => ctx[e].action \in Rotations

\* The attempts of an execution that has begun are within its limit.
AttemptsBounded ==
  \A e \in Execution : IF pc[e] = "idle" THEN attempt[e] = 0
                                         ELSE attempt[e] \in 1..MaxRetries[e]

RecoveryInv ==
  RecoveryInvariant /\ JudgingIsUnblocked /\ RelaunchIsForRotation /\ AttemptsBounded

Place == {"idle"} \cup Ended \cup Holding \cup Waiting

(***************************************************************************)
(* What a step of the execution e does, by the pieces of state.            *)
(***************************************************************************)

\* Only e moves, from a place where it waits or holds the turn.
Moves(e) ==
  /\ pc' \in [Execution -> Place] /\ turn' \in Execution \cup {Nobody}
  /\ \A f \in Execution \ {e} : pc'[f] = pc[f]
  /\ pc[e] \notin {"idle"} \cup Ended /\ pc'[e] # "idle"
  /\ pc'[e] = "calling" => pc[e] = "attempt" /\ PlatformOf[e] \notin open
  /\ pc'[e] = "refused" => pc[e] = "attempt"
  /\ pc[e] = "attempt" => pc'[e] \in {"calling", "refused"}

\* Only the attempts of e are counted, one more for each return to the start.
Counts(e) ==
  \/ attempt' = attempt /\ pc'[e] # "attempt"
  \/ /\ pc[e] = "next" /\ pc'[e] = "attempt" /\ attempt[e] < MaxRetries[e]
     /\ attempt' = [attempt EXCEPT ![e] = @ + 1]

\* Only e's context changes, and never to a rotation in safe mode; what is
\* returned or inspected is acceptable.
Judges(e) ==
  /\ ctx' \in [Execution -> Context]
  /\ \A f \in Execution \ {e} : ctx'[f] = ctx[f]
  /\ safe => pc'[e] # "relaunching" /\ ctx'[e].action \notin Rotations
  /\ pc'[e] \in {"judging", "returned"} => Signals(e)' = "none"
  /\ pc'[e] = "relaunching" => ctx'[e].action \in Rotations

\* The breaker keeps its types.
Breaks ==
  failures' \in [Platform -> 0..Threshold - 1] /\ open' \subseteq Platform

\* The history is left alone, or one action succeeds or fails; a failure is
\* the end of the execution.
Learns(e) ==
  \/ UNCHANGED history
  \/ \E a \in Action : Learn(SiteOf[e], a, TRUE)
  \/ /\ \E a \in Action : Learn(SiteOf[e], a, FALSE)
     /\ pc'[e] \in {"raised", "exhausted"}

Effect(e) ==
  /\ Moves(e) /\ Counts(e) /\ Judges(e) /\ Breaks /\ Learns(e)
  /\ UNCHANGED mode /\ session' \in {"intact", "wiped"}

-----------------------------------------------------------------------------
(***************************************************************************)
(* The operators.                                                          *)
(***************************************************************************)

\* The cheap signals name a kind of block, or none.
LEMMA SignalsAreBlocks ==
  ASSUME NEW e \in Execution  PROVE Signals(e) \in Block
<1>1. \A s, w : ByStatus(s, w) \in Block
  BY DEF ByStatus, Block
<1>2. \A k, r : ByError(k, r) \in Block
  BY DEF ByError, Block
<1> QED BY <1>1, <1>2 DEF Signals, CheapBlock, Block

\* The signals of an execution depend on its context alone.
LEMMA SignalsKept ==
  ASSUME NEW e \in Execution, ctx'[e] = ctx[e]  PROVE Signals(e)' = Signals(e)
BY DEF Signals

\* A move is to the place it names and leaves the others alone.
LEMMA GoMoves ==
  ASSUME RecoveryInv, NEW e \in Execution, NEW there \in Place \ {"idle"}, Go(e, there)
  PROVE  /\ pc' \in [Execution -> Place] /\ turn' \in Execution \cup {Nobody}
         /\ pc'[e] = there
         /\ \A f \in Execution \ {e} : pc'[f] = pc[f]
BY DEF RecoveryInv, RecoveryInvariant, TypeOK, Go, Place

\* Giving up ends the execution.
LEMMA GiveUpEnds ==
  ASSUME NEW e, GiveUp(e)
  PROVE  Go(e, "raised") \/ Go(e, "exhausted")
BY DEF GiveUp

\* A failure or a reset keeps the types of the breaker.
LEMMA BreakerTypes ==
  ASSUME RecoveryInv, NEW p \in Platform,
         RecordFailure(p) \/ ResetCircuit(p) \/ UNCHANGED breaker
  PROVE  Breaks
<1>1. failures \in [Platform -> 0..Threshold - 1] /\ open \subseteq Platform
  BY DEF RecoveryInv, RecoveryInvariant, TypeOK
<1>2. Threshold \in Nat \ {0}
  BY ConstantsAssumption
<1>3. CASE RecordFailure(p)
  BY <1>1, <1>2, <1>3 DEF RecordFailure, Breaks
<1>4. CASE ResetCircuit(p)
  BY <1>1, <1>2, <1>4 DEF ResetCircuit, Breaks
<1>5. CASE UNCHANGED breaker
  BY <1>1, <1>5 DEF breaker, Breaks
<1> QED BY <1>3, <1>4, <1>5

\* What the invariant says of one execution and its context.
LEMMA ContextFacts ==
  ASSUME RecoveryInv, NEW e \in Execution
  PROVE  /\ ctx \in [Execution -> Context] /\ ctx[e] \in Context
         /\ safe => ctx[e].action \notin Rotations
         /\ pc[e] \in {"judging", "returned"} => Signals(e) = "none"
         /\ pc[e] = "relaunching" => ctx[e].action \in Rotations
         /\ PlatformOf[e] \in Platform /\ SiteOf[e] \in Site
BY ConstantsAssumption
   DEF RecoveryInv, RecoveryInvariant, TypeOK, SafeModeNeverRotates,
       ReturnedIsUnblocked, JudgingIsUnblocked, RelaunchIsForRotation

\* A step that leaves the context alone and goes neither to an inspection of
\* an answer, nor to a relaunch, nor returns.
LEMMA ContextKept ==
  ASSUME RecoveryInv, NEW e \in Execution, ctx' = ctx,
         pc'[e] \notin {"judging", "returned", "relaunching"}
  PROVE  Judges(e)
BY ContextFacts DEF Judges

\* A step that changes the context of e to another one.
LEMMA ContextChanged ==
  ASSUME RecoveryInv, NEW e \in Execution, NEW c \in Context,
         ctx' = [ctx EXCEPT ![e] = c], safe => c.action \notin Rotations,
         pc'[e] \notin {"judging", "returned", "relaunching"}
  PROVE  Judges(e)
BY ContextFacts DEF Judges

\* The session is one of the two if it is left alone.
LEMMA SessionKept ==
  ASSUME RecoveryInv, session' = session  PROVE session' \in {"intact", "wiped"}
BY DEF RecoveryInv, RecoveryInvariant, TypeOK

\* An answer against which nothing speaks ends the execution.
LEMMA AcceptEffect ==
  ASSUME RecoveryInv, NEW e \in Execution, Accept(e),
         pc[e] \in {"judge", "judging"}, Signals(e) = "none"
  PROVE  Effect(e)
<1>1. Go(e, "returned") /\ attempt' = attempt /\ ctx' = ctx
  BY DEF Accept
<1>2. Moves(e) /\ pc'[e] = "returned"
  BY <1>1, GoMoves DEF Moves, Place, Ended
<1>3. Judges(e)
  BY <1>1, <1>2, ContextFacts, SignalsKept DEF Judges
<1>4. Breaks
  BY BreakerTypes, ContextFacts DEF Accept
<1>5. Learns(e)
  <2>1. ctx[e].action \in Action \cup {"none"}
    BY ContextFacts DEF Context
  <2>2. (IF ctx[e].action = "none" THEN "noop" ELSE ctx[e].action) \in Action
    BY <2>1 DEF Action
  <2> QED BY <2>2 DEF Accept, Learns
<1> QED BY <1>1, <1>2, <1>3, <1>4, <1>5, SessionKept DEF Effect, Counts, Accept

\* A rejected answer is a failure like a raised one.
LEMMA RejectEffect ==
  ASSUME RecoveryInv, NEW e \in Execution, NEW block, Reject(e, block),
         pc[e] \in {"judge", "judging"}
  PROVE  Effect(e)
<1>1. Go(e, "recover") /\ attempt' = attempt /\ UNCHANGED <<breaker, history, session>>
  BY DEF Reject
<1>2. Moves(e) /\ pc'[e] = "recover"
  BY <1>1, GoMoves DEF Moves, Place, Ended, Holding
<1>3. Judges(e)
  <2> DEFINE c == [ctx[e] EXCEPT !.err = Detected(block), !.raised = FALSE]
  <2>1. c \in Context /\ c.action = ctx[e].action
    BY ContextFacts DEF Context, Detected, ErrorClass
  <2>2. ctx' = [ctx EXCEPT ![e] = c]
    BY ContextFacts DEF Reject
  <2> QED BY <2>1, <2>2, <1>2, ContextFacts, ContextChanged
<1> QED
  BY <1>1, <1>2, <1>3, BreakerTypes, ContextFacts, SessionKept
     DEF Effect, Counts, Learns, Reject

\* No block is found: the next attempt follows.
LEMMA NoBlockEffect ==
  ASSUME RecoveryInv, NEW e \in Execution, NoBlock(e),
         pc[e] \in {"recover", "detecting"}
  PROVE  Effect(e)
<1>1. Go(e, "next") /\ attempt' = attempt /\ UNCHANGED <<history, session>>
  BY DEF NoBlock
<1>2. Moves(e) /\ pc'[e] = "next"
  BY <1>1, GoMoves DEF Moves, Place, Ended, Holding
<1>3. Judges(e)
  <2> DEFINE c == [ctx[e] EXCEPT !.block = "none"]
  <2>1. c \in Context /\ c.action = ctx[e].action
    BY ContextFacts DEF Context, Block
  <2>2. ctx' = [ctx EXCEPT ![e] = c]
    BY ContextFacts DEF NoBlock
  <2> QED BY <2>1, <2>2, <1>2, ContextFacts, ContextChanged
<1>4. Breaks
  BY BreakerTypes, ContextFacts DEF NoBlock
<1> QED
  BY <1>1, <1>2, <1>3, <1>4, SessionKept DEF Effect, Counts, Learns, NoBlock

\* A block is found, and an action is to be decided.
LEMMA FoundEffect ==
  ASSUME RecoveryInv, NEW e \in Execution, NEW block \in Block, Found(e, block),
         pc[e] \in {"recover", "detecting"}
  PROVE  Effect(e)
<1>1. Go(e, "decide") /\ attempt' = attempt /\ UNCHANGED <<breaker, history, session>>
  BY DEF Found
<1>2. Moves(e) /\ pc'[e] = "decide"
  BY <1>1, GoMoves DEF Moves, Place, Ended, Holding
<1>3. Judges(e)
  <2> DEFINE c == [ctx[e] EXCEPT !.block = block]
  <2>1. c \in Context /\ c.action = ctx[e].action
    BY ContextFacts DEF Context
  <2>2. ctx' = [ctx EXCEPT ![e] = c]
    BY ContextFacts DEF Found
  <2> QED BY <2>1, <2>2, <1>2, ContextFacts, ContextChanged
<1> QED
  BY <1>1, <1>2, <1>3, BreakerTypes, ContextFacts, SessionKept
     DEF Effect, Counts, Learns, Found

\* A step that only moves, and not to an inspection of an answer or a relaunch.
LEMMA MoveEffect ==
  ASSUME RecoveryInv, NEW e \in Execution,
         NEW there \in Place \ {"idle", "attempt", "judging", "returned", "relaunching"},
         Go(e, there), pc[e] \notin {"idle"} \cup Ended,
         pc[e] = "attempt" <=> there \in {"calling", "refused"},
         there = "calling" => PlatformOf[e] \notin open,
         UNCHANGED <<mode, attempt, ctx, breaker, session>>,
         \/ UNCHANGED history
         \/ there \in {"raised", "exhausted"} /\ \E a \in Action : Learn(SiteOf[e], a, FALSE)
  PROVE  Effect(e)
<1>1. Moves(e) /\ pc'[e] = there
  BY GoMoves DEF Moves
<1>2. Judges(e)
  BY <1>1, ContextKept
<1>3. Breaks
  BY BreakerTypes, ContextFacts
<1> QED BY <1>1, <1>2, <1>3, SessionKept DEF Effect, Counts, Learns

-----------------------------------------------------------------------------
(***************************************************************************)
(* The actions of execute_with_recovery.                                   *)
(***************************************************************************)

\* The end that recover() answered False leads to.
LEMMA GiveUpEffect ==
  ASSUME RecoveryInv, NEW e \in Execution, GiveUp(e),
         pc[e] \notin {"idle", "attempt"} \cup Ended,
         UNCHANGED <<mode, attempt, ctx, breaker, session>>,
         UNCHANGED history \/ \E a \in Action : Learn(SiteOf[e], a, FALSE)
  PROVE  Effect(e)
<1>1. PICK there \in {"raised", "exhausted"} : Go(e, there)
  BY GiveUpEnds
<1> QED BY <1>1, MoveEffect DEF Place, Ended

LEMMA ReturnsEffect ==
  ASSUME RecoveryInv, NEW e \in Execution, NEW status \in Statuses,
         NEW slow \in BOOLEAN, FuncReturns(e, status, slow)
  PROVE  Effect(e)
<1>1. /\ pc[e] = "calling" /\ Go(e, "judge") /\ attempt' = attempt
      /\ UNCHANGED <<breaker, history, session>>
  BY DEF FuncReturns, At
<1>2. Moves(e) /\ pc'[e] = "judge"
  BY <1>1, GoMoves DEF Moves, Place, Ended, Holding
<1>3. Judges(e)
  <2> DEFINE c == [ctx[e] EXCEPT !.status = IF status = "none" THEN @ ELSE status,
                                 !.slow = slow]
  <2>1. c \in Context /\ c.action = ctx[e].action
    BY ContextFacts, ConstantsAssumption DEF Context
  <2>2. ctx' = [ctx EXCEPT ![e] = c]
    BY ContextFacts DEF FuncReturns
  <2> QED BY <2>1, <2>2, <1>2, ContextFacts, ContextChanged
<1> QED
  BY <1>1, <1>2, <1>3, BreakerTypes, ContextFacts, SessionKept
     DEF Effect, Counts, Learns, FuncReturns

LEMMA RaisesEffect ==
  ASSUME RecoveryInv, NEW e \in Execution, NEW err \in Errors,
         NEW slow \in BOOLEAN, FuncRaises(e, err, slow)
  PROVE  Effect(e)
<1>1. /\ pc[e] = "calling" /\ Go(e, "recover") /\ attempt' = attempt
      /\ UNCHANGED <<breaker, history, session>>
  BY DEF FuncRaises, At
<1>2. Moves(e) /\ pc'[e] = "recover"
  BY <1>1, GoMoves DEF Moves, Place, Ended, Holding
<1>3. Judges(e)
  <2> DEFINE c == [ctx[e] EXCEPT !.err = err, !.slow = slow, !.raised = TRUE]
  <2>1. c \in Context /\ c.action = ctx[e].action
    BY ContextFacts, ConstantsAssumption DEF Context
  <2>2. ctx' = [ctx EXCEPT ![e] = c]
    BY ContextFacts DEF FuncRaises
  <2> QED BY <2>1, <2>2, <1>2, ContextFacts, ContextChanged
<1> QED
  BY <1>1, <1>2, <1>3, BreakerTypes, ContextFacts, SessionKept
     DEF Effect, Counts, Learns, FuncRaises

LEMMA JudgeEffect ==
  ASSUME RecoveryInv, NEW e \in Execution, Judge(e)  PROVE Effect(e)
<1>1. pc[e] = "judge"
  BY DEF Judge, At
<1>2. CASE Signals(e) # "none"
  BY <1>1, <1>2, RejectEffect DEF Judge
<1>3. CASE Signals(e) = "none" /\ light
  BY <1>1, <1>3, AcceptEffect DEF Judge
<1>4. CASE Signals(e) = "none" /\ ~ light
  <2>1. /\ Go(e, "judging")
        /\ UNCHANGED <<mode, attempt, ctx, breaker, history, session>>
    BY <1>4 DEF Judge
  <2>2. Moves(e) /\ pc'[e] = "judging"
    BY <2>1, <1>1, GoMoves DEF Moves, Place, Ended, Waiting
  <2>3. Judges(e)
    BY <2>1, <2>2, <1>4, ContextFacts, SignalsKept DEF Judges
  <2> QED
    BY <2>1, <2>2, <2>3, BreakerTypes, ContextFacts, SessionKept
       DEF Effect, Counts, Learns
<1> QED BY <1>2, <1>3, <1>4

LEMMA JudgePageEffect ==
  ASSUME RecoveryInv, NEW e \in Execution, NEW verdict, JudgePage(e, verdict)
  PROVE  Effect(e)
<1>1. pc[e] = "judging"
  BY DEF JudgePage, At
<1>2. Signals(e) = "none"
  BY <1>1, ContextFacts
<1> QED BY <1>1, <1>2, AcceptEffect, RejectEffect DEF JudgePage

LEMMA AgainEffect ==
  ASSUME RecoveryInv, NEW e \in Execution, Again(e)  PROVE Effect(e)
<1>1. pc[e] = "next"
  BY DEF Again, At
<1>2. CASE attempt[e] < MaxRetries[e]
  <2>1. /\ Go(e, "attempt") /\ attempt' = [attempt EXCEPT ![e] = @ + 1]
        /\ UNCHANGED <<mode, ctx, breaker, history, session>>
    BY <1>2 DEF Again
  <2>2. Moves(e) /\ pc'[e] = "attempt"
    BY <2>1, <1>1, GoMoves DEF Moves, Place, Ended, Holding
  <2>3. Judges(e)
    BY <2>1, <2>2, ContextKept
  <2> QED
    BY <2>1, <2>2, <2>3, <1>1, <1>2, BreakerTypes, ContextFacts, SessionKept
       DEF Effect, Counts, Learns
<1>3. CASE ~ (attempt[e] < MaxRetries[e])
  BY <1>1, <1>3, MoveEffect DEF Again, Place, Ended
<1> QED BY <1>2, <1>3

-----------------------------------------------------------------------------
(***************************************************************************)
(* The actions of recover.                                                 *)
(***************************************************************************)

LEMMA DetectEffect ==
  ASSUME RecoveryInv, NEW e \in Execution, Detect(e)  PROVE Effect(e)
<1>1. pc[e] = "recover"
  BY DEF Detect, At
<1>2. CASE Signals(e) # "none"
  BY <1>1, <1>2, FoundEffect, SignalsAreBlocks DEF Detect
<1>3. CASE Signals(e) = "none" /\ light
  BY <1>1, <1>3, NoBlockEffect DEF Detect
<1>4. CASE Signals(e) = "none" /\ ~ light
  BY <1>1, <1>4, MoveEffect DEF Detect, Place, Ended, Waiting
<1> QED BY <1>2, <1>3, <1>4

LEMMA DetectPageEffect ==
  ASSUME RecoveryInv, NEW e \in Execution,
         NEW verdict \in PageVerdicts(KindOf(e)), DetectPage(e, verdict)
  PROVE  Effect(e)
<1>1. pc[e] = "detecting"
  BY DEF DetectPage, At
<1>2. verdict \in Block
  BY DEF PageVerdicts, Block
<1> QED BY <1>1, <1>2, FoundEffect, NoBlockEffect DEF DetectPage

\* In safe mode nothing is decided that rotates.
LEMMA SafeDecisions ==
  ASSUME NEW e, NEW action \in Decisions(e), safe
  PROVE  action \notin Rotations
<1>1. action \in {"backoff", "fail_fast"}
  BY DEF Decisions
<1> QED BY <1>1 DEF Rotations

LEMMA DecideEffect ==
  ASSUME RecoveryInv, NEW e \in Execution, NEW action \in Action, Decide(e, action)
  PROVE  Effect(e)
<1>1. /\ pc[e] = "decide" /\ action \in Decisions(e)
      /\ UNCHANGED <<mode, attempt>>
      /\ RecordFailure(PlatformOf[e]) \/ UNCHANGED breaker
  BY DEF Decide, At
<1>2. Moves(e) /\ pc'[e] \in {"rotate", "raised", "exhausted"}
  <2>1. PICK there \in {"rotate", "raised", "exhausted"} : Go(e, there)
    BY GiveUpEnds DEF Decide
  <2> QED BY <2>1, <1>1, GoMoves DEF Moves, Place, Ended, Holding
<1>3. Judges(e)
  <2> DEFINE c == [ctx[e] EXCEPT !.action = action]
  <2>1. c \in Context /\ c.action = action
    BY ContextFacts DEF Context
  <2>2. ctx' = [ctx EXCEPT ![e] = c]
    BY ContextFacts DEF Decide
  <2>3. safe => action \notin Rotations
    BY <1>1, SafeDecisions
  <2> QED BY <2>1, <2>2, <2>3, <1>2, ContextChanged
<1>4. Breaks
  BY <1>1, BreakerTypes, ContextFacts
<1>5. Learns(e)
  <2>1. CASE action = "fail_fast"
    <3>1. GiveUp(e) /\ Learn(SiteOf[e], action, FALSE)
      BY <2>1 DEF Decide
    <3>2. pc'[e] \in {"raised", "exhausted"}
      BY <3>1, GiveUpEnds, GoMoves DEF Place, Ended
    <3> QED BY <3>1, <3>2 DEF Learns
  <2>2. CASE action # "fail_fast"
    BY <2>2 DEF Decide, Learns
  <2> QED BY <2>1, <2>2
<1>6. session' \in {"intact", "wiped"}
  BY DEF Decide, RecoveryInv, RecoveryInvariant, TypeOK
<1> QED BY <1>1, <1>2, <1>3, <1>4, <1>5, <1>6 DEF Effect, Counts

\* Only outside safe mode is a relaunch awaited.
LEMMA RotateEffect ==
  ASSUME RecoveryInv, NEW e \in Execution, NEW ok \in BOOLEAN, Rotate(e, ok)
  PROVE  Effect(e)
<1>1. /\ pc[e] = "rotate" /\ ~ safe /\ ctx[e].action \in Rotations
      /\ ctx[e].action \in Action
      /\ UNCHANGED <<mode, attempt, ctx, breaker, session>>
  BY DEF Rotate, RotatesSession, RotatesProxy, At, Rotations, Action
<1>2. CASE ok /\ "relaunch hook" \in wired
  <2>1. Go(e, "relaunching") /\ UNCHANGED history
    BY <1>2 DEF Rotate
  <2>2. Moves(e) /\ pc'[e] = "relaunching"
    BY <2>1, <1>1, GoMoves DEF Moves, Place, Ended, Waiting
  <2>3. Judges(e)
    BY <1>1, <2>2, ContextFacts DEF Judges
  <2> QED
    BY <1>1, <2>1, <2>2, <2>3, BreakerTypes, ContextFacts, SessionKept
       DEF Effect, Counts, Learns
<1>3. CASE ok /\ "relaunch hook" \notin wired
  <2>1. Go(e, "backoff") /\ UNCHANGED history
    BY <1>3 DEF Rotate
  <2> QED BY <2>1, <1>1, MoveEffect DEF Place, Ended, Waiting
<1>4. CASE ~ ok
  BY <1>1, <1>4, GiveUpEffect DEF Rotate, Ended
<1> QED BY <1>2, <1>3, <1>4

LEMMA RotateSessionEffect ==
  ASSUME RecoveryInv, NEW e \in Execution, RotateSession(e)  PROVE Effect(e)
<1>1. pc[e] = "rotate" /\ ctx[e].action \in Action
  BY DEF RotateSession, RotatesSession, At, Action
<1> QED BY <1>1, GiveUpEffect DEF RotateSession, Ended

LEMMA RelaunchEffect ==
  ASSUME RecoveryInv, NEW e \in Execution, NEW ok \in BOOLEAN, Relaunch(e, ok)
  PROVE  Effect(e)
<1>1. pc[e] = "relaunching" /\ UNCHANGED <<mode, attempt, ctx, breaker, session>>
  BY DEF Relaunch, At
<1>2. CASE ok
  BY <1>1, <1>2, MoveEffect DEF Relaunch, Place, Ended, Waiting
<1>3. CASE ~ ok
  <2>1. ctx[e].action \in Action
    BY <1>1, ContextFacts DEF Rotations, Action
  <2> QED BY <1>1, <1>3, <2>1, GiveUpEffect DEF Relaunch, Ended
<1> QED BY <1>2, <1>3

\* Every step of an execution has its effect.
LEMMA StepEffect ==
  ASSUME RecoveryInv, NEW e \in Execution, Step(e)  PROVE Effect(e)
<1>1. CASE Refuse(e)
  BY <1>1, MoveEffect DEF Refuse, At, Place, Ended
<1>2. CASE Call(e)
  BY <1>2, MoveEffect DEF Call, At, Place, Ended, Waiting
<1>3. CASE RecoverRefused(e)
  BY <1>3, GiveUpEffect DEF RecoverRefused, At, Ended
<1>4. CASE Sleep(e)
  BY <1>4, MoveEffect DEF Sleep, At, Place, Ended, Waiting
<1>5. CASE Wake(e)
  <2>1. pc[e] = "backoff" /\ UNCHANGED <<mode, attempt, ctx, breaker, history, session>>
    BY <1>5 DEF Wake, At
  <2>2. Go(e, "next") \/ GiveUp(e)
    BY <1>5 DEF Wake
  <2> QED BY <2>1, <2>2, MoveEffect, GiveUpEffect DEF Place, Ended, Holding
<1> QED
  BY <1>1, <1>2, <1>3, <1>4, <1>5, ReturnsEffect, RaisesEffect, JudgeEffect,
     JudgePageEffect, AgainEffect, DetectEffect, DetectPageEffect, DecideEffect,
     RotateEffect, RotateSessionEffect, RelaunchEffect
     DEF Step

-----------------------------------------------------------------------------
(***************************************************************************)
(* The invariant.                                                          *)
(***************************************************************************)

LEMMA InvInitially == Init => RecoveryInv
<1> SUFFICES ASSUME Init PROVE RecoveryInv
  OBVIOUS
<1>1. NoContext \in Context /\ NoContext.action = "none"
  BY DEF NoContext, Context, ErrorClass, StatusClass, Block
<1>2. TypeOK
  <2>1. /\ safe \in BOOLEAN /\ light \in BOOLEAN /\ wired \subseteq Part /\ turn \in Execution \cup {Nobody}
        /\ pc \in [Execution -> {"idle"} \cup Ended \cup Holding \cup Waiting]
        /\ attempt \in [Execution -> Nat] /\ open \subseteq Platform
        /\ lastGood \in [Site -> Action \cup {"none"}] /\ session \in {"intact", "wiped"}
    BY ConstantsAssumption DEF Init
  <2>2. ctx \in [Execution -> Context]
    BY <1>1 DEF Init
  <2>3. failures \in [Platform -> 0..Threshold - 1]
    <3>1. Threshold \in Nat \ {0}
      BY ConstantsAssumption
    <3>2. 0 \in 0..Threshold - 1
      BY <3>1
    <3> QED BY <3>2 DEF Init
  <2>4. stats \in [Site -> [Action -> [ok : Nat, bad : Nat]]]
    <3>1. [a \in Action |-> [ok |-> 0, bad |-> 0]] \in [Action -> [ok : Nat, bad : Nat]]
      OBVIOUS
    <3> QED BY <3>1 DEF Init
  <2> QED BY <2>1, <2>2, <2>3, <2>4 DEF TypeOK
<1>3. SafeModeNeverRotates /\ RelaunchIsForRotation
  BY <1>1 DEF Init, SafeModeNeverRotates, RelaunchIsForRotation, Rotations
<1>4. ReturnedIsUnblocked /\ JudgingIsUnblocked /\ LearnedFromSuccess /\ AttemptsBounded
  BY DEF Init, ReturnedIsUnblocked, JudgingIsUnblocked, LearnedFromSuccess, AttemptsBounded
<1> QED BY <1>2, <1>3, <1>4 DEF RecoveryInv, RecoveryInvariant

\* What one recorded action does to the history.
LEMMA LearnFacts ==
  ASSUME RecoveryInv, NEW s \in Site, NEW a \in Action, NEW success \in BOOLEAN,
         Learn(s, a, success)
  PROVE  /\ stats' \in [Site -> [Action -> [ok : Nat, bad : Nat]]]
         /\ lastGood' \in [Site -> Action \cup {"none"}]
         /\ \A t \in Site, b \in Action :
              /\ stats'[t][b].ok >= stats[t][b].ok
              /\ t = s /\ b = a /\ success => stats'[t][b].ok > stats[t][b].ok
              /\ success \/ t # s => stats'[t][b].bad = stats[t][b].bad
         /\ lastGood' = IF success THEN [lastGood EXCEPT ![s] = a] ELSE lastGood
<1> DEFINE New == IF success THEN [stats[s][a] EXCEPT !.ok = @ + 1]
                             ELSE [stats[s][a] EXCEPT !.bad = @ + 1]
<1>1. /\ stats \in [Site -> [Action -> [ok : Nat, bad : Nat]]]
      /\ lastGood \in [Site -> Action \cup {"none"}]
  BY DEF RecoveryInv, RecoveryInvariant, TypeOK
<1>2. stats' = [stats EXCEPT ![s] = [stats[s] EXCEPT ![a] = New]]
  <2>1. CASE success
    BY <2>1, <1>1 DEF Learn
  <2>2. CASE ~ success
    BY <2>2, <1>1 DEF Learn
  <2> QED BY <2>1, <2>2
<1>3. /\ New \in [ok : Nat, bad : Nat]
      /\ New.ok >= stats[s][a].ok
      /\ success => New.ok > stats[s][a].ok /\ New.bad = stats[s][a].bad
  BY <1>1
<1> HIDE DEF New
<1>4. \A t \in Site, b \in Action :
        stats'[t][b] = IF t = s /\ b = a THEN New ELSE stats[t][b]
  BY <1>1, <1>2
<1>5. stats' \in [Site -> [Action -> [ok : Nat, bad : Nat]]]
  BY <1>1, <1>2, <1>3
<1>6. \A t \in Site, b \in Action : stats[t][b].ok \in Nat
  BY <1>1
<1>7. \A t \in Site, b \in Action :
        /\ stats'[t][b].ok >= stats[t][b].ok
        /\ t = s /\ b = a /\ success => stats'[t][b].ok > stats[t][b].ok
        /\ success \/ t # s => stats'[t][b].bad = stats[t][b].bad
  BY <1>3, <1>4, <1>6
<1>8. lastGood' = IF success THEN [lastGood EXCEPT ![s] = a] ELSE lastGood
  BY DEF Learn
<1> QED BY <1>1, <1>5, <1>7, <1>8

\* The history keeps its types and what it has learned.
LEMMA HistoryKept ==
  ASSUME RecoveryInv, NEW e \in Execution, Learns(e)
  PROVE  /\ stats' \in [Site -> [Action -> [ok : Nat, bad : Nat]]]
         /\ lastGood' \in [Site -> Action \cup {"none"}]
         /\ LearnedFromSuccess'
<1>1. /\ stats \in [Site -> [Action -> [ok : Nat, bad : Nat]]]
      /\ lastGood \in [Site -> Action \cup {"none"}]
      /\ LearnedFromSuccess /\ SiteOf[e] \in Site
  BY ContextFacts DEF RecoveryInv, RecoveryInvariant, TypeOK
<1>2. CASE UNCHANGED history
  BY <1>1, <1>2 DEF history, LearnedFromSuccess
<1>3. ASSUME NEW a \in Action, NEW success \in BOOLEAN, Learn(SiteOf[e], a, success)
      PROVE  /\ stats' \in [Site -> [Action -> [ok : Nat, bad : Nat]]]
             /\ lastGood' \in [Site -> Action \cup {"none"}]
             /\ LearnedFromSuccess'
  <2>1. /\ stats' \in [Site -> [Action -> [ok : Nat, bad : Nat]]]
        /\ lastGood' \in [Site -> Action \cup {"none"}]
        /\ \A t \in Site, b \in Action :
             /\ stats'[t][b].ok >= stats[t][b].ok
             /\ t = SiteOf[e] /\ b = a /\ success => stats'[t][b].ok > stats[t][b].ok
        /\ lastGood' = IF success THEN [lastGood EXCEPT ![SiteOf[e]] = a] ELSE lastGood
    BY <1>1, <1>3, LearnFacts
  <2>2. ASSUME NEW t \in Site, lastGood'[t] # "none"
        PROVE  stats'[t][lastGood'[t]].ok > 0
    <3>1. lastGood'[t] \in Action
      BY <2>1, <2>2
    <3>2. stats[t][lastGood'[t]].ok \in Nat /\ stats'[t][lastGood'[t]].ok \in Nat
      BY <1>1, <2>1, <3>1
    <3>3. CASE success /\ t = SiteOf[e]
      <4>1. lastGood'[t] = a
        BY <1>1, <2>1, <3>3
      <4> QED BY <2>1, <3>1, <3>2, <3>3, <4>1
    <3>4. CASE ~ (success /\ t = SiteOf[e])
      <4>1. lastGood'[t] = lastGood[t]
        BY <1>1, <2>1, <3>4
      <4>2. stats[t][lastGood'[t]].ok > 0
        BY <1>1, <2>2, <4>1 DEF LearnedFromSuccess
      <4>3. stats'[t][lastGood'[t]].ok >= stats[t][lastGood'[t]].ok
        BY <2>1, <3>1
      <4> QED BY <3>2, <4>2, <4>3
    <3> QED BY <3>3, <3>4
  <2> QED BY <2>1, <2>2 DEF LearnedFromSuccess
<1> QED BY <1>2, <1>3 DEF Learns

\* The effect of a step keeps the invariant.
LEMMA EffectKeepsInv ==
  ASSUME RecoveryInv, NEW e \in Execution, Effect(e)  PROVE RecoveryInv'
<1>1. /\ Moves(e) /\ Counts(e) /\ Judges(e) /\ Breaks /\ Learns(e)
      /\ UNCHANGED <<safe, light, wired>>
  BY DEF Effect, mode
<1>2. AttemptsBounded'
  <2>1. attempt \in [Execution -> Nat] /\ MaxRetries \in [Execution -> Nat \ {0}]
    BY ConstantsAssumption DEF RecoveryInv, RecoveryInvariant, TypeOK
  <2>2. ASSUME NEW f \in Execution
        PROVE  IF pc'[f] = "idle" THEN attempt'[f] = 0 ELSE attempt'[f] \in 1..MaxRetries[f]
    <3>1. IF pc[f] = "idle" THEN attempt[f] = 0 ELSE attempt[f] \in 1..MaxRetries[f]
      BY DEF RecoveryInv, AttemptsBounded
    <3>2. CASE f # e
      BY <1>1, <2>1, <3>1, <3>2 DEF Moves, Counts
    <3>3. CASE f = e
      BY <1>1, <2>1, <3>1, <3>3 DEF Moves, Counts
    <3> QED BY <3>2, <3>3
  <2> QED BY <2>2 DEF AttemptsBounded
<1>3. attempt' \in [Execution -> Nat]
  BY <1>1 DEF Counts, RecoveryInv, RecoveryInvariant, TypeOK
<1>4. TypeOK'
  BY <1>1, <1>3, HistoryKept DEF Effect, Moves, Judges, Breaks, Place, TypeOK,
     RecoveryInv, RecoveryInvariant
<1>5. \A f \in Execution \ {e} : pc'[f] = pc[f] /\ ctx'[f] = ctx[f] /\ Signals(f)' = Signals(f)
  BY <1>1, SignalsKept DEF Moves, Judges
<1>6. SafeModeNeverRotates' /\ RelaunchIsForRotation'
  BY <1>1, <1>5 DEF Judges, RecoveryInv, RecoveryInvariant, SafeModeNeverRotates,
     RelaunchIsForRotation
<1>7. ReturnedIsUnblocked' /\ JudgingIsUnblocked'
  BY <1>1, <1>5 DEF Judges, RecoveryInv, RecoveryInvariant, ReturnedIsUnblocked,
     JudgingIsUnblocked
<1>8. LearnedFromSuccess'
  BY <1>1, HistoryKept
<1> QED BY <1>2, <1>4, <1>6, <1>7, <1>8 DEF RecoveryInv, RecoveryInvariant

\* A beginning is the first attempt.
LEMMA BeginKeepsInv ==
  ASSUME RecoveryInv, NEW e \in Execution, Begin(e)  PROVE RecoveryInv'
<1>1. /\ pc' = [pc EXCEPT ![e] = "attempt"] /\ turn' = e
      /\ attempt' = [attempt EXCEPT ![e] = 1]
      /\ UNCHANGED <<safe, light, wired, ctx, failures, open, stats, lastGood, session>>
  BY DEF Begin, Go, Holding, mode, breaker, history
<1>2. TypeOK'
  BY <1>1 DEF RecoveryInv, RecoveryInvariant, TypeOK, Holding
<1>3. pc \in [Execution -> Place] /\ attempt \in [Execution -> Nat]
  BY DEF RecoveryInv, RecoveryInvariant, TypeOK, Place
<1>4. AttemptsBounded'
  <2>1. 1 \in 1..MaxRetries[e]
    <3>1. MaxRetries[e] \in Nat \ {0}
      BY ConstantsAssumption
    <3> QED BY <3>1
  <2>2. ASSUME NEW f \in Execution
        PROVE  IF pc'[f] = "idle" THEN attempt'[f] = 0 ELSE attempt'[f] \in 1..MaxRetries[f]
    <3>1. CASE f = e
      BY <1>1, <1>3, <2>1, <3>1
    <3>2. CASE f # e
      BY <1>1, <1>3, <3>2 DEF RecoveryInv, AttemptsBounded
    <3> QED BY <3>1, <3>2
  <2> QED BY <2>2 DEF AttemptsBounded
<1>5. \A f \in Execution : Signals(f)' = Signals(f) /\ ctx'[f] = ctx[f]
  BY <1>1, SignalsKept
<1>6. \A f \in Execution : pc'[f] \in {"relaunching", "judging", "returned"} => pc'[f] = pc[f]
  BY <1>1, <1>3
<1>7. SafeModeNeverRotates' /\ RelaunchIsForRotation'
  BY <1>1, <1>5, <1>6 DEF RecoveryInv, RecoveryInvariant, SafeModeNeverRotates,
     RelaunchIsForRotation
<1>8. ReturnedIsUnblocked' /\ JudgingIsUnblocked'
  BY <1>5, <1>6 DEF RecoveryInv, RecoveryInvariant, ReturnedIsUnblocked,
     JudgingIsUnblocked
<1>9. LearnedFromSuccess'
  BY <1>1 DEF RecoveryInv, RecoveryInvariant, LearnedFromSuccess
<1> QED BY <1>2, <1>4, <1>7, <1>8, <1>9 DEF RecoveryInv, RecoveryInvariant

\* Nothing but the breaker changes when a circuit has cooled down.
LEMMA FrameKeepsInv ==
  ASSUME RecoveryInv, open' \subseteq Platform,
         UNCHANGED <<mode, turn, pc, attempt, ctx, failures, history, session>>
  PROVE  RecoveryInv'
<1>1. TypeOK'
  BY DEF RecoveryInv, RecoveryInvariant, TypeOK, mode, history
<1>2. \A f \in Execution : Signals(f)' = Signals(f)
  BY SignalsKept
<1> QED
  BY <1>1, <1>2 DEF RecoveryInv, RecoveryInvariant, SafeModeNeverRotates,
     RelaunchIsForRotation, ReturnedIsUnblocked, JudgingIsUnblocked,
     LearnedFromSuccess, AttemptsBounded, mode, history

LEMMA InvKept == RecoveryInv /\ [Next]_vars => RecoveryInv'
<1> SUFFICES ASSUME RecoveryInv, [Next]_vars PROVE RecoveryInv'
  OBVIOUS
<1>1. open \subseteq Platform
  BY DEF RecoveryInv, RecoveryInvariant, TypeOK
<1>2. ASSUME NEW e \in Execution, Begin(e) PROVE RecoveryInv'
  BY <1>2, BeginKeepsInv
<1>3. ASSUME NEW e \in Execution, Step(e) PROVE RecoveryInv'
  BY <1>3, StepEffect, EffectKeepsInv
<1>4. ASSUME NEW p \in Platform, CoolDown(p) PROVE RecoveryInv'
  BY <1>1, <1>4, FrameKeepsInv DEF CoolDown
<1>5. CASE UNCHANGED vars
  BY <1>1, <1>5, FrameKeepsInv DEF vars, breaker
<1> QED BY <1>2, <1>3, <1>4, <1>5 DEF Next

\* Recovery rests on answers it judged: types, no rotation in safe mode, no
\* blocked answer is returned, and the preferred action did succeed.
THEOREM RecoveryIsAlwaysSound == Spec => []RecoveryInvariant
<1>1. Init => RecoveryInv
  BY InvInitially
<1>2. RecoveryInv /\ [Next]_vars => RecoveryInv'
  BY InvKept
<1>3. RecoveryInv => RecoveryInvariant
  BY DEF RecoveryInv
<1> QED BY <1>1, <1>2, <1>3, PTL DEF Spec

LEMMA InvAlways == Spec => []RecoveryInv
<1> QED BY InvInitially, InvKept, PTL DEF Spec

-----------------------------------------------------------------------------
(***************************************************************************)
(* Neither an open circuit nor a failed recovery is followed by a try.     *)
(***************************************************************************)

LEMMA EffectTriesNoMore ==
  ASSUME RecoveryInv, NEW e \in Execution, Effect(e)
  PROVE  OpenCircuitDrains /\ FailedRecoveryEnds
<1>1. Moves(e) /\ Learns(e)
  BY DEF Effect
<1>2. OpenCircuitDrains
  BY <1>1 DEF Moves, OpenCircuitDrains, InFlight
<1>3. ASSUME NEW s \in Site, NEW a \in Action, stats'[s][a].bad > stats[s][a].bad
      PROVE  s = SiteOf[e] /\ pc'[e] \in {"raised", "exhausted"}
  <2>1. stats[s][a].bad \in Nat /\ SiteOf[e] \in Site
    BY ContextFacts DEF RecoveryInv, RecoveryInvariant, TypeOK
  <2>2. ~ (stats'[s][a].bad = stats[s][a].bad)
    BY <1>3, <2>1
  <2>3. ~ UNCHANGED history
    BY <2>2 DEF history
  <2>4. ~ \E b \in Action : Learn(SiteOf[e], b, TRUE)
    BY <2>1, <2>2, LearnFacts
  <2>5. PICK b \in Action : Learn(SiteOf[e], b, FALSE) /\ pc'[e] \in {"raised", "exhausted"}
    BY <1>1, <2>3, <2>4 DEF Learns
  <2> QED BY <2>1, <2>2, <2>5, LearnFacts
<1>4. pc[e] \notin Ended
  BY <1>1 DEF Moves
<1> QED BY <1>2, <1>3, <1>4 DEF FailedRecoveryEnds

LEMMA NextTriesNoMore ==
  ASSUME RecoveryInv, Next  PROVE OpenCircuitDrains /\ FailedRecoveryEnds
<1>1. /\ pc \in [Execution -> Place]
      /\ \A s \in Site, a \in Action : stats[s][a].bad \in Nat
  BY DEF RecoveryInv, RecoveryInvariant, TypeOK, Place
<1>2. ASSUME NEW e \in Execution, Begin(e)
      PROVE  OpenCircuitDrains /\ FailedRecoveryEnds
  BY <1>1, <1>2 DEF Begin, Go, OpenCircuitDrains, InFlight, FailedRecoveryEnds, history
<1>3. ASSUME NEW p \in Platform, CoolDown(p)
      PROVE  OpenCircuitDrains /\ FailedRecoveryEnds
  BY <1>1, <1>3 DEF CoolDown, OpenCircuitDrains, InFlight, FailedRecoveryEnds, history
<1> QED BY <1>2, <1>3, StepEffect, EffectTriesNoMore DEF Next

\* While a circuit stays open no function starts on its platform, and an
\* action that is recorded as failed ends its execution.
THEOREM NothingMoreIsEverTried == Spec => NothingMoreIsTried
<1>1. RecoveryInv /\ [Next]_vars => [OpenCircuitDrains /\ FailedRecoveryEnds]_vars
  BY NextTriesNoMore
<1> QED BY <1>1, InvAlways, PTL DEF Spec, NothingMoreIsTried

-----------------------------------------------------------------------------
(***************************************************************************)
(* The contract of the callers.                                            *)
(***************************************************************************)

\* A step of an execution is a step of its contract, or none.
LEMMA EffectKeepsContract ==
  ASSUME RecoveryInv, NEW e \in Execution, Effect(e)
  PROVE  [Contract!Next]_<<Phase, Calls>>
<1>1. Moves(e) /\ Counts(e)
  BY DEF Effect
<1>2. /\ attempt \in [Execution -> Nat] /\ MaxRetries[e] \in Nat
      /\ attempt[e] \in 1..MaxRetries[e]
  BY <1>1, ConstantsAssumption
     DEF Moves, RecoveryInv, RecoveryInvariant, TypeOK, AttemptsBounded
<1>3. /\ \A f \in Execution \ {e} : attempt'[f] = attempt[f] /\ pc'[f] = pc[f]
      /\ attempt'[e] = IF pc'[e] = "attempt" THEN attempt[e] + 1 ELSE attempt[e]
      /\ pc'[e] = "attempt" => pc[e] = "next"
  BY <1>1, <1>2 DEF Moves, Counts
<1>4. /\ Phase' = [Phase EXCEPT ![e] = Phase'[e]]
      /\ Calls' = [Calls EXCEPT ![e] = Calls'[e]]
  BY <1>3 DEF Phase, Calls
<1>5. CASE pc[e] = "attempt"
  <2>1. Phase[e] = "waiting" /\ Calls[e] = attempt[e] - 1
    BY <1>5 DEF Phase, Calls, Ended
  <2>2. CASE pc'[e] = "calling"
    <3>1. Phase'[e] = "calling" /\ Calls'[e] = attempt[e]
      BY <1>3, <2>2 DEF Phase, Calls
    <3>2. Contract!Call(e)
      BY <1>2, <1>4, <2>1, <3>1 DEF Contract!Call
    <3> QED BY <3>2 DEF Contract!Next
  <2>3. CASE pc'[e] = "refused"
    <3>1. Phase'[e] = "ended" /\ Calls'[e] = Calls[e]
      BY <1>3, <2>1, <2>3 DEF Phase, Calls, Ended
    <3>2. Contract!End(e)
      BY <1>4, <2>1, <3>1 DEF Contract!End, Calls
    <3> QED BY <3>2 DEF Contract!Next
  <2> QED BY <1>1, <1>5, <2>2, <2>3 DEF Moves
<1>6. CASE pc[e] # "attempt"
  <2>1. /\ Phase[e] = IF pc[e] = "calling" THEN "calling" ELSE "waiting"
        /\ Calls[e] = attempt[e] /\ Calls'[e] = attempt[e]
        /\ Phase'[e] \in {"waiting", "ended"}
    BY <1>1, <1>2, <1>3, <1>6 DEF Moves, Phase, Calls, Ended
  <2>2. UNCHANGED Calls
    BY <1>4, <2>1 DEF Calls
  <2>3. CASE pc[e] = "calling"
    <3>1. Contract!Answer(e)
      BY <1>4, <2>1, <2>2, <2>3 DEF Contract!Answer
    <3> QED BY <3>1 DEF Contract!Next
  <2>4. CASE pc[e] # "calling" /\ Phase'[e] = "ended"
    <3>1. Contract!End(e)
      BY <1>4, <2>1, <2>2, <2>4 DEF Contract!End
    <3> QED BY <3>1 DEF Contract!Next
  <2>5. CASE pc[e] # "calling" /\ Phase'[e] = "waiting"
    <3>1. UNCHANGED Phase
      BY <1>4, <2>1, <2>5 DEF Phase
    <3> QED BY <2>2, <3>1
  <2> QED BY <2>1, <2>3, <2>4, <2>5
<1> QED BY <1>5, <1>6

LEMMA StepKeepsContract ==
  ASSUME RecoveryInv, [Next]_vars  PROVE [Contract!Next]_<<Phase, Calls>>
<1>1. ASSUME NEW e \in Execution, Begin(e) PROVE UNCHANGED <<Phase, Calls>>
  <2>1. attempt[e] = 0 /\ pc[e] = "idle"
    BY <1>1 DEF Begin, RecoveryInv, AttemptsBounded
  <2>2. pc \in [Execution -> Place] /\ attempt \in [Execution -> Nat]
    BY DEF RecoveryInv, RecoveryInvariant, TypeOK, Place
  <2>3. pc' = [pc EXCEPT ![e] = "attempt"] /\ attempt' = [attempt EXCEPT ![e] = 1]
    BY <1>1 DEF Begin, Go
  <2> QED BY <2>1, <2>2, <2>3 DEF Phase, Calls, Ended
<1>2. ASSUME NEW p \in Platform, CoolDown(p) PROVE UNCHANGED <<Phase, Calls>>
  BY <1>2 DEF CoolDown, Phase, Calls
<1>3. CASE UNCHANGED vars
  BY <1>3 DEF vars, Phase, Calls
<1> QED BY <1>1, <1>2, <1>3, StepEffect, EffectKeepsContract DEF Next

\* The recovery implements the safety part of its contract: at most
\* max_retries calls, one at a time, and none after the end.
THEOREM RecoveryImplementsContract == Spec => Contract!Bounded
<1>1. Init => Contract!Init
  BY DEF Init, Contract!Init, Phase, Calls, Ended
<1>2. RecoveryInv /\ [Next]_vars => [Contract!Next]_<<Phase, Calls>>
  BY StepKeepsContract
<1> QED BY <1>1, <1>2, InvAlways, PTL DEF Spec, Contract!Bounded
=============================================================================
