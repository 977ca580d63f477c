------------------------- MODULE AntiBlockRecovery --------------------------
(***************************************************************************)
(* recovery/anti_block_orchestrator.py: functions of a browser run under   *)
(* execute_with_recovery, which judges every answer, decides a recovery    *)
(* action (backoff, rotation, giving up) and retries, behind a circuit     *)
(* breaker per platform and with a history of what worked per site.        *)
(*                                                                         *)
(* Executions are coroutines of one event loop.  turn is the one that runs *)
(* now; it keeps the turn until it really suspends: in the function, in an *)
(* inspection of the page, in the relaunch of the browser or in a backoff. *)
(***************************************************************************)
EXTENDS Integers, FiniteSets

CONSTANTS
  Execution,    \* calls of execute_with_recovery
  Platform,     \* lower-cased platform names, the keys of the breaker
  Site,         \* keys of recovery_history
  Nobody,       \* no coroutine has the turn
  PlatformOf,   \* the platform an execution is for
  SiteOf,       \* its history key
  Kind,         \* the entry of PLATFORM_STRATEGIES a platform uses
  MaxRetries,   \* max_retries of the execution, the default already applied
  StrategyRetries, \* max_retries of the platform's strategy
  Threshold,    \* circuit_breaker_threshold
  Custom,       \* what a platform's registered strategy returns; {}: none
  Wirings,      \* the parts that an orchestrator may be given
  Errors,       \* classes of the exceptions that the function raises
  Statuses      \* statuses of the answers that it returns

\* "blocked via": the message that says so also names a proxy.
ErrorClass == {"", "transient", "captcha", "rate", "blocked", "blocked via",
               "unusual", "other"}
\* Each may be missing.
Part == {"session manager", "proxy manager", "relaunch hook"}
StatusClass == {"none", "200", "403", "429", "502", "503"}
Kinds == {"linkedin", "amazon", "google", "default"}
Action == {"retry", "backoff", "rotate_session", "rotate_proxy", "rotate_both",
           "fail_fast", "noop", "custom"}
Block == {"none", "soft_rate_limit", "hard_rate_limit", "captcha",
          "account_restriction", "proxy_block", "transient_error"}

ASSUME ConstantsAssumption ==
  /\ Nobody \notin Execution
  /\ PlatformOf \in [Execution -> Platform]
  /\ SiteOf \in [Execution -> Site]
  /\ Kind \in [Platform -> Kinds]
  /\ MaxRetries \in [Execution -> Nat \ {0}]
  /\ StrategyRetries \in [Platform -> Nat \ {0}]
  /\ Threshold \in Nat \ {0}
  /\ Custom \in [Platform -> SUBSET Action]
  /\ Wirings \subseteq SUBSET Part
  /\ Errors \subseteq ErrorClass \ {""}
  /\ Statuses \subseteq StatusClass

VARIABLES
  safe,         \* safe_mode, or recovery_mode "safe" or "fail_fast"
  light,        \* light_detection: the page is not inspected
  wired,        \* the parts that the orchestrator has
  turn,         \* the coroutine that runs now
  pc,           \* where each execution is
  attempt,      \* context.attempt
  ctx,          \* the rest of the context, shared by all attempts
  failures,     \* failure_counts
  open,         \* platforms with now < circuit_open_until
  stats,        \* recovery_history: action_success
  lastGood,     \* recovery_history: last_successful_action
  session       \* the current session: "intact" or "wiped"

mode == <<safe, light, wired>>
breaker == <<failures, open>>
history == <<stats, lastGood>>
vars == <<mode, turn, pc, attempt, ctx, breaker, history, session>>

Ended == {"returned", "refused", "raised", "exhausted"}
Holding == {"attempt", "judge", "recover", "decide", "rotate", "next"}
Waiting == {"calling", "judging", "detecting", "relaunching", "backoff"}

NoContext == [err |-> "", status |-> "none", slow |-> FALSE, block |-> "none",
              action |-> "none", raised |-> FALSE]

-----------------------------------------------------------------------------
(***************************************************************************)
(* detect_block: what the cheap signals say, in the order of the code.     *)
(***************************************************************************)

ByStatus(status, slow) ==
  CASE status = "429" -> "hard_rate_limit"
    [] status = "403" -> "soft_rate_limit"
    [] status \in {"502", "503"} -> "proxy_block"
    [] status = "200" /\ slow -> "soft_rate_limit"
    [] OTHER -> "none"

ByError(kind, err) ==
  CASE err = "captcha" -> "captcha"
    [] err = "rate" -> "hard_rate_limit"
    [] err = "blocked via" -> "proxy_block"
    [] err = "blocked" -> IF kind = "amazon" THEN "proxy_block" ELSE "soft_rate_limit"
    [] err = "unusual" /\ kind = "linkedin" -> "account_restriction"
    [] err = "unusual" /\ kind = "amazon" -> "captcha"
    [] OTHER -> "none"

CheapBlock(kind, c) ==
  IF c.err = "transient" /\ c.status \notin {"403", "429", "503"} THEN "transient_error"
  ELSE IF ByStatus(c.status, c.slow) # "none" THEN ByStatus(c.status, c.slow)
  ELSE ByError(kind, c.err)

KindOf(e) == Kind[PlatformOf[e]]
Signals(e) == CheapBlock(KindOf(e), ctx[e])

\* What an inspection of the page's title and text may add.
PageVerdicts(kind) ==
  {"none", "captcha"} \cup (IF kind = "linkedin" THEN {"account_restriction"} ELSE {})

\* The class of the message "Detected <block type>": only one of the names
\* contains a pattern that detect_block knows.
Detected(block) == IF block = "captcha" THEN "captcha" ELSE "other"

-----------------------------------------------------------------------------
(***************************************************************************)
(* The breaker and the history.                                            *)
(***************************************************************************)

RecordFailure(p) ==
  IF failures[p] + 1 >= Threshold
  THEN failures' = [failures EXCEPT ![p] = 0] /\ open' = open \cup {p}
  ELSE failures' = [failures EXCEPT ![p] = @ + 1] /\ UNCHANGED open

ResetCircuit(p) ==
  /\ failures' = [failures EXCEPT ![p] = 0]
  /\ open' = open \ {p}

Learn(s, a, success) ==
  /\ stats' = IF success THEN [stats EXCEPT ![s][a].ok = @ + 1]
                         ELSE [stats EXCEPT ![s][a].bad = @ + 1]
  /\ lastGood' = IF success THEN [lastGood EXCEPT ![s] = a] ELSE lastGood

Preferred(kind) ==
  CASE kind = "linkedin" -> "rotate_session"
    [] kind = "amazon" -> "rotate_proxy"
    [] OTHER -> "backoff"

Tries(s, a) == stats[s][a].ok + stats[s][a].bad
Trusted(s) == {a \in Action : Tries(s, a) >= 2}

\* The trusted actions of the best success rate, if that is at least one
\* half.  The code takes the first recorded of them.
Best(s) ==
  {a \in Trusted(s) :
     /\ 2 * stats[s][a].ok >= Tries(s, a)
     /\ \A b \in Trusted(s) : stats[s][a].ok * Tries(s, b) >= stats[s][b].ok * Tries(s, a)}

\* Every strategy has a preferred_first_action, so nothing is decided after it.
Learned(e) ==
  IF Best(SiteOf[e]) # {} THEN Best(SiteOf[e])
  ELSE IF lastGood[SiteOf[e]] # "none" THEN {lastGood[SiteOf[e]]}
  ELSE {Preferred(KindOf(e))}

Severe == {"account_restriction", "captcha", "hard_rate_limit"}

\* _decide_recovery_action; a custom strategy that raises falls through.
Decisions(e) ==
  IF ctx[e].block = "transient_error" THEN {"backoff"}
  ELSE IF safe THEN IF attempt[e] >= 2 \/ ctx[e].block \in Severe THEN {"fail_fast"}
                                                                  ELSE {"backoff"}
  ELSE Custom[PlatformOf[e]] \cup Learned(e)

-----------------------------------------------------------------------------
Init ==
  /\ safe \in BOOLEAN /\ light \in BOOLEAN /\ wired \in Wirings
  /\ turn = Nobody
  /\ pc = [e \in Execution |-> "idle"]
  /\ attempt = [e \in Execution |-> 0]
  /\ ctx = [e \in Execution |-> NoContext]
  /\ failures = [p \in Platform |-> 0]
  /\ open = {}
  /\ stats = [s \in Site |-> [a \in Action |-> [ok |-> 0, bad |-> 0]]]
  /\ lastGood = [s \in Site |-> "none"]
  /\ session = "intact"

\* Moves of the coroutine e: from one place to another, with the turn.
At(e, here) == pc[e] = here /\ turn = (IF here \in Holding THEN e ELSE Nobody)
Go(e, there) ==
  /\ pc' = [pc EXCEPT ![e] = there]
  /\ turn' = IF there \in Holding THEN e ELSE Nobody

\* recover() returned False: re-raise the exception, or leave the loop.
GiveUp(e) == Go(e, IF ctx[e].raised THEN "raised" ELSE "exhausted")

-----------------------------------------------------------------------------
(***************************************************************************)
(* execute_with_recovery.                                                  *)
(***************************************************************************)

Begin(e) ==
  /\ pc[e] = "idle" /\ turn = Nobody
  /\ attempt' = [attempt EXCEPT ![e] = 1]
  /\ Go(e, "attempt")
  /\ UNCHANGED <<mode, ctx, breaker, history, session>>

Refuse(e) ==
  /\ At(e, "attempt")
  /\ PlatformOf[e] \in open
  /\ Go(e, "refused")
  /\ UNCHANGED <<mode, attempt, ctx, breaker, history, session>>

\* Mutation: the breaker is not asked before the call.
CallUnguarded(e) ==
  /\ At(e, "attempt")
  /\ Go(e, "calling")
  /\ UNCHANGED <<mode, attempt, ctx, breaker, history, session>>

Call(e) ==
  /\ At(e, "attempt")
  /\ PlatformOf[e] \notin open
  /\ Go(e, "calling")
  /\ UNCHANGED <<mode, attempt, ctx, breaker, history, session>>

\* A result without a status leaves the one of an earlier attempt in place.
FuncReturns(e, status, slow) ==
  /\ At(e, "calling")
  /\ ctx' = [ctx EXCEPT ![e].status = IF status = "none" THEN @ ELSE status,
                        ![e].slow = slow]
  /\ Go(e, "judge")
  /\ UNCHANGED <<mode, attempt, breaker, history, session>>

FuncRaises(e, err, slow) ==
  /\ At(e, "calling")
  /\ ctx' = [ctx EXCEPT ![e].err = err, ![e].slow = slow, ![e].raised = TRUE]
  /\ Go(e, "recover")
  /\ UNCHANGED <<mode, attempt, breaker, history, session>>

\* Nothing speaks against the answer: it is returned to the caller.
Accept(e) ==
  /\ ResetCircuit(PlatformOf[e])
  /\ Learn(SiteOf[e], IF ctx[e].action = "none" THEN "noop" ELSE ctx[e].action, TRUE)
  /\ Go(e, "returned")
  /\ UNCHANGED <<mode, attempt, ctx, session>>

Reject(e, block) ==
  /\ ctx' = [ctx EXCEPT ![e].err = Detected(block), ![e].raised = FALSE]
  /\ Go(e, "recover")
  /\ UNCHANGED <<mode, attempt, breaker, history, session>>

\* Mutation: the answer is accepted without a look at the signals.
JudgeAccept(e) ==
  /\ At(e, "judge")
  /\ Accept(e)

Judge(e) ==
  /\ At(e, "judge")
  /\ IF Signals(e) # "none" THEN Reject(e, Signals(e))
     ELSE IF light THEN Accept(e)
     ELSE /\ Go(e, "judging")
          /\ UNCHANGED <<mode, attempt, ctx, breaker, history, session>>

JudgePage(e, verdict) ==
  /\ At(e, "judging")
  /\ IF verdict = "none" THEN Accept(e) ELSE Reject(e, verdict)

\* Mutation: one attempt too many.
AgainOffByOne(e) ==
  /\ At(e, "next")
  /\ IF attempt[e] <= MaxRetries[e]
     THEN attempt' = [attempt EXCEPT ![e] = @ + 1] /\ Go(e, "attempt")
     ELSE UNCHANGED attempt /\ Go(e, "exhausted")
  /\ UNCHANGED <<mode, ctx, breaker, history, session>>

Again(e) ==
  /\ At(e, "next")
  /\ IF attempt[e] < MaxRetries[e]
     THEN attempt' = [attempt EXCEPT ![e] = @ + 1] /\ Go(e, "attempt")
     ELSE UNCHANGED attempt /\ Go(e, "exhausted")
  /\ UNCHANGED <<mode, ctx, breaker, history, session>>

-----------------------------------------------------------------------------
(***************************************************************************)
(* recover.                                                                *)
(***************************************************************************)

RecoverRefused(e) ==
  /\ At(e, "recover")
  /\ PlatformOf[e] \in open
  /\ GiveUp(e)
  /\ UNCHANGED <<mode, attempt, ctx, breaker, history, session>>

\* An exception that no pattern knows counts as no block: the breaker is reset
\* and the next attempt follows without a backoff.
NoBlock(e) ==
  /\ ctx' = [ctx EXCEPT ![e].block = "none"]
  /\ ResetCircuit(PlatformOf[e])
  /\ Go(e, "next")
  /\ UNCHANGED <<mode, attempt, history, session>>

Found(e, block) ==
  /\ ctx' = [ctx EXCEPT ![e].block = block]
  /\ Go(e, "decide")
  /\ UNCHANGED <<mode, attempt, breaker, history, session>>

Detect(e) ==
  /\ At(e, "recover")
  /\ PlatformOf[e] \notin open
  /\ IF Signals(e) # "none" THEN Found(e, Signals(e))
     ELSE IF light THEN NoBlock(e)
     ELSE /\ Go(e, "detecting")
          /\ UNCHANGED <<mode, attempt, ctx, breaker, history, session>>

DetectPage(e, verdict) ==
  /\ At(e, "detecting")
  /\ IF verdict = "none" THEN NoBlock(e) ELSE Found(e, verdict)

\* cleanup_session may fail, which is logged and forgotten.
Decide(e, action) ==
  /\ At(e, "decide")
  /\ action \in Decisions(e)
  /\ ctx' = [ctx EXCEPT ![e].action = action]
  /\ IF ctx[e].block = "transient_error" THEN UNCHANGED breaker
                                         ELSE RecordFailure(PlatformOf[e])
  /\ session' \in IF ctx[e].block = "account_restriction" /\ "session manager" \in wired
                  THEN {session, "wiped"} ELSE {session}
  /\ IF action = "fail_fast" THEN /\ Learn(SiteOf[e], action, FALSE)
                                  /\ GiveUp(e)
                             ELSE /\ UNCHANGED history
                                  /\ Go(e, "rotate")
  /\ UNCHANGED <<mode, attempt>>

\* What is to be rotated; without its manager it is not, and nobody is told.
RotatesSession(e) == ~safe /\ ctx[e].action \in {"rotate_session", "rotate_both"}
RotatesProxy(e) == ~safe /\ ctx[e].action \in {"rotate_proxy", "rotate_both"}

\* SessionManager.create_session has no parameter session_name: the call
\* raises TypeError, whatever the session manager's state is.
RotateSession(e) ==
  /\ At(e, "rotate")
  /\ RotatesSession(e) /\ "session manager" \in wired
  /\ Learn(SiteOf[e], ctx[e].action, FALSE)
  /\ GiveUp(e)
  /\ UNCHANGED <<mode, attempt, ctx, breaker, session>>

\* rotate_proxy may raise; without a current proxy there is nothing to rotate.
\* The browser is relaunched also when nothing was.
Rotate(e, ok) ==
  /\ At(e, "rotate")
  /\ RotatesSession(e) \/ RotatesProxy(e)
  /\ RotatesSession(e) => "session manager" \notin wired
  /\ ok \/ (RotatesProxy(e) /\ "proxy manager" \in wired)
  /\ IF ok THEN /\ Go(e, IF "relaunch hook" \in wired THEN "relaunching" ELSE "backoff")
                /\ UNCHANGED history
           ELSE Learn(SiteOf[e], ctx[e].action, FALSE) /\ GiveUp(e)
  /\ UNCHANGED <<mode, attempt, ctx, breaker, session>>

Relaunch(e, ok) ==
  /\ At(e, "relaunching")
  /\ IF ok THEN Go(e, "backoff") /\ UNCHANGED history
           ELSE Learn(SiteOf[e], ctx[e].action, FALSE) /\ GiveUp(e)
  /\ UNCHANGED <<mode, attempt, ctx, breaker, session>>

Sleep(e) ==
  /\ At(e, "rotate")
  /\ ~RotatesSession(e) /\ ~RotatesProxy(e)
  /\ Go(e, "backoff")
  /\ UNCHANGED <<mode, attempt, ctx, breaker, history, session>>

\* The limit is the strategy's, not the one the caller asked for.
Wake(e) ==
  /\ At(e, "backoff")
  /\ IF attempt[e] < StrategyRetries[PlatformOf[e]] THEN Go(e, "next") ELSE GiveUp(e)
  /\ UNCHANGED <<mode, attempt, ctx, breaker, history, session>>

\* circuit_cooldown has passed.
CoolDown(p) ==
  /\ p \in open
  /\ open' = open \ {p}
  /\ UNCHANGED <<mode, turn, pc, attempt, ctx, failures, history, session>>

-----------------------------------------------------------------------------
Step(e) ==
  \/ Refuse(e) \/ Call(e)
  \/ \E slow \in BOOLEAN : \/ \E status \in Statuses : FuncReturns(e, status, slow)
                           \/ \E err \in Errors : FuncRaises(e, err, slow)
  \/ Judge(e)
  \/ \E verdict \in PageVerdicts(KindOf(e)) : JudgePage(e, verdict) \/ DetectPage(e, verdict)
  \/ Again(e)
  \/ RecoverRefused(e) \/ Detect(e)
  \/ \E action \in Action : Decide(e, action)
  \/ RotateSession(e)
  \/ \E ok \in BOOLEAN : Rotate(e, ok) \/ Relaunch(e, ok)
  \/ Sleep(e) \/ Wake(e)

Next ==
  \/ \E e \in Execution : Begin(e) \/ Step(e)
  \/ \E p \in Platform : CoolDown(p)

Spec == Init /\ [][Next]_vars

(***************************************************************************)
(* A coroutine that is ready gets its turn (the ready queue is first in,   *)
(* first out), the page answers or raises (its calls have timeouts), and   *)
(* sleeps end.  Nobody has to begin an execution or to let a circuit cool. *)
(***************************************************************************)
Fairness == \A e \in Execution : SF_vars(Step(e))

FairSpec == Spec /\ Fairness

-----------------------------------------------------------------------------
(***************************************************************************)
(* Properties.                                                             *)
(***************************************************************************)

Context == [err : ErrorClass, status : StatusClass, slow : BOOLEAN, block : Block,
            action : Action \cup {"none"}, raised : BOOLEAN]

\* Every variable has its type; a failure count stays below the threshold,
\* and the turn is with the one execution that holds it.
TypeOK ==
  /\ safe \in BOOLEAN /\ light \in BOOLEAN /\ wired \subseteq Part
  /\ turn \in Execution \cup {Nobody}
  /\ pc \in [Execution -> {"idle"} \cup Ended \cup Holding \cup Waiting]
  /\ attempt \in [Execution -> Nat]
  /\ ctx \in [Execution -> Context]
  /\ failures \in [Platform -> 0..Threshold - 1]
  /\ open \subseteq Platform
  /\ stats \in [Site -> [Action -> [ok : Nat, bad : Nat]]]
  /\ lastGood \in [Site -> Action \cup {"none"}]
  /\ session \in {"intact", "wiped"}

\* In safe mode no proxy, session or browser is rotated, whatever the history
\* has learned and the custom strategies return (docs/RUNBOOK.md:9).
Rotations == {"rotate_session", "rotate_proxy", "rotate_both"}
SafeModeNeverRotates ==
  safe => \A e \in Execution : pc[e] # "relaunching" /\ ctx[e].action \notin Rotations

\* What execute_with_recovery returns was judged with every signal the shared
\* context holds, also the ones that earlier attempts left there.
ReturnedIsUnblocked ==
  \A e \in Execution : pc[e] = "returned" => Signals(e) = "none"

\* The action that the history prefers did succeed on that site once.
LearnedFromSuccess ==
  \A s \in Site : lastGood[s] # "none" => stats[s][lastGood[s]].ok > 0

\* What a recovery decides and learns rests on answers it really judged.
RecoveryInvariant ==
  TypeOK /\ SafeModeNeverRotates /\ ReturnedIsUnblocked /\ LearnedFromSuccess

\* While the circuit of a platform stays open no function starts there: the
\* calls in flight only finish, whichever execution opened it and when.
InFlight(p) == {e \in Execution : PlatformOf[e] = p /\ pc[e] = "calling"}
OpenCircuitDrains ==
  \A p \in open \cap open' : InFlight(p)' \subseteq InFlight(p)

\* A recovery action that is recorded as failed ends its execution: there is
\* no retry on a browser whose relaunch failed.
FailedRecoveryEnds ==
  \A s \in Site, a \in Action :
    stats'[s][a].bad > stats[s][a].bad =>
      \E e \in Execution : /\ SiteOf[e] = s
                            /\ pc[e] \notin Ended
                            /\ pc'[e] \in {"raised", "exhausted"}

\* Neither an open circuit nor a failed recovery is followed by another try.
NothingMoreIsTried == [][OpenCircuitDrains /\ FailedRecoveryEnds]_vars

\* Executions keep the contract their callers rely on (module RetryContract):
\* at most max_retries calls, one at a time, none after the end, and an end.
Phase == [e \in Execution |-> IF pc[e] = "calling" THEN "calling"
                              ELSE IF pc[e] \in Ended THEN "ended" ELSE "waiting"]
Calls == [e \in Execution |-> IF pc[e] \in {"attempt", "refused"} THEN attempt[e] - 1
                                                                 ELSE attempt[e]]
Contract == INSTANCE RetryContract WITH phase <- Phase, calls <- Calls
KeepsContract == Contract!Spec

=============================================================================
