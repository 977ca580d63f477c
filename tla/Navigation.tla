------------------------------ MODULE Navigation ------------------------------
(***************************************************************************)
(* safe_goto() and safe_click() of one AgentBrowser, with everything that  *)
(* may hold a call back: the request budget, the ToolRateLimiter, robots,  *)
(* the warming schedule of the account (AccountWarmer), its cooling off    *)
(* (AccountHealth) and the limiter of the account and site                 *)
(* (DomainRateLimiter).  Several tasks use the instance.                   *)
(*                                                                         *)
(* An action goes from one suspension to the next: a sleep of a limiter,   *)
(* the request for robots.txt, the navigation under the recovery (see      *)
(* AntiBlockRecovery).  Time is discrete and enters as the age of what is  *)
(* remembered; the clock is taken to be monotone.                          *)
(***************************************************************************)
EXTENDS Integers, Sequences, FiniteSets

CONSTANTS
  Task,           \* concurrent callers
  Site, Visits,   \* domains, and those that each caller visits
  Account,        \* keys of the AccountRateLimiter
  Own,            \* the account that the instance's navigations use
  Default, Other, \* limits: the default ones, and those that a user sets
  PerHour,        \* requests_per_hour
  Minute, Hour,   \* the two windows
  ToolPerMinute, ToolCap,            \* of the ToolRateLimiter
  MaxRequests,                       \* AGENTIC_MAX_REQUESTS_PER_SESSION
  MaxActions, MaxPages, MaxMinutes, SiteVariety,  \* of the warming phase
  Duration,       \* of the n-th cooling off, non-decreasing, then constant
  MaxCalls, MaxUses  \* bounds: calls of each caller, what else the user does

Config == {Default, Other}

ASSUME LimitsAssumption ==
  /\ IsFiniteSet(Task) /\ Visits \in [Task -> SUBSET Site] /\ Own \in Account
  /\ Minute \in Nat /\ Hour \in Nat /\ 0 < Minute /\ Minute <= Hour
  /\ PerHour \in Nat \ {0} /\ ToolPerMinute \in Nat /\ ToolCap \in Nat
  /\ \A c \in Config : c \in [perMinute : Nat, cooldown : 0..Hour]
ASSUME WarmingAssumption ==
  /\ {MaxActions, MaxPages, MaxMinutes, SiteVariety} \subseteq Nat \ {0}
  /\ MaxRequests \in Nat /\ MaxCalls \in [Task -> Nat] /\ MaxUses \in Nat
ASSUME HealthAssumption ==
  Duration \in Seq(Nat) \ {<<>>}

Tool == {"safe_goto", "safe_click"}
ToolKey == Tool \cup {"total"}

VARIABLES
  age,      \* per site: the ages of the requests in hour_request_times, oldest first
  toolAge,  \* the same for the lists of the ToolRateLimiter: per tool and in total
  limits,   \* per account and site: the configured limits
  task,     \* where each caller suspends, with its local variables
  warming,  \* the AccountWarmer
  health,   \* the AccountHealth
  open,     \* the instance has a browser
  requests, \* _request_count
  calls, uses  \* what is left of the bounds is MaxCalls[t] - calls[t], MaxUses - uses

vars == <<age, toolAge, limits, task, warming, health, open, requests, calls, uses>>

Idle == [pc |-> "idle", op |-> "none", site |-> "none", sleep |-> 0,
         conf |-> Default, limited |-> FALSE]

NoSession == [active |-> FALSE, minutes |-> 0, actions |-> 0, pages |-> 0, sites |-> {}]
NewSession == [NoSession EXCEPT !.active = TRUE]

Init ==
  /\ age = [s \in Site |-> <<>>]
  /\ toolAge = [k \in ToolKey |-> <<>>]
  /\ limits = [a \in Account |-> [s \in Site |-> Default]]
  /\ task = [t \in Task |-> Idle]
  /\ \E started \in BOOLEAN :
       warming = [started |-> started, session |-> IF started THEN NewSession ELSE NoSession]
  /\ health = [cooling |-> FALSE, left |-> 0, count |-> 0, events |-> FALSE]
  /\ open = TRUE
  /\ requests = 0 /\ uses = 0 /\ calls = [t \in Task |-> 0]

-----------------------------------------------------------------------------
\* Sliding windows: lists that are oldest first.  The minute's list of a site is
\* the young end of the hour's.

\* What a list keeps when it is pruned to a span.
Pruned(ages, span) ==
  LET gone == Cardinality({i \in DOMAIN ages : ages[i] >= span})
  IN  [i \in 1..(Len(ages) - gone) |-> ages[i + gone]]

Full(ages, span, limit) == Len(Pruned(ages, span)) >= limit

\* Mutation: the wait is computed from the newest request of the window.
WaitForNewest(ages, span, limit) ==
  IF Full(ages, span, limit)
  THEN span - Pruned(ages, span)[Len(Pruned(ages, span))] ELSE 0

\* How long until the oldest request leaves a full window.
WindowWait(ages, span, limit) ==
  IF Full(ages, span, limit) THEN span - Pruned(ages, span)[1] ELSE 0

\* last_request is written together with the windows: the youngest age.
SinceLast(s) == IF age[s] = <<>> THEN Hour ELSE age[s][Len(age[s])]

LargestOf(m, n, k) ==
  IF m >= n /\ m >= k THEN m ELSE IF n >= k THEN n ELSE k

RateWait(s, conf) ==
  LargestOf(WindowWait(age[s], Hour, PerHour),
            IF conf.perMinute = 0 THEN 0 ELSE WindowWait(age[s], Minute, conf.perMinute),
            conf.cooldown - SinceLast(s))

ToolWait(tool) ==
  IF ToolPerMinute = 0 THEN 0 ELSE WindowWait(toolAge[tool], Minute, ToolPerMinute)

Record(ages) == Append(ages, 0)

-----------------------------------------------------------------------------
\* The warming schedule.

\* Mutation: the page limit is compared with "greater than".
StopsLate(session, s) ==
  \/ session.minutes >= MaxMinutes
  \/ session.actions >= MaxActions
  \/ session.pages > MaxPages
  \/ s \notin session.sites /\ Cardinality(session.sites) >= SiteVariety

\* should_stop_session(url)
ShouldStop(session, s) ==
  \/ session.minutes >= MaxMinutes
  \/ session.actions >= MaxActions
  \/ session.pages >= MaxPages
  \/ s \notin session.sites /\ Cardinality(session.sites) >= SiteVariety

\* The session that safe_goto() starts lazily, once per browser lifecycle.
Session == IF warming.session.active THEN warming.session ELSE NewSession

Recorded(session, s) ==
  [session EXCEPT !.actions = @ + 1, !.pages = @ + 1, !.sites = @ \cup {s}]

-----------------------------------------------------------------------------
\* Health.  Scores are numbers that decay exponentially: what is kept is whether
\* there is any event, without which a score is not low.

\* Reading is_cooling_off ends a period that is over.
Seen(h) == IF h.cooling /\ h.left = 0 THEN [h EXCEPT !.cooling = FALSE] ELSE h

WithEvent(h) == [h EXCEPT !.events = TRUE]

\* start_cooling_off(); counts beyond the longest duration are not told apart.
StartCooling(h) ==
  [h EXCEPT !.cooling = TRUE, !.left = Duration[h.count + 1],
            !.count = IF @ + 1 < Len(Duration) THEN @ + 1 ELSE @]

\* _recalculate(): a low score starts a period unless one is on.
Recalculated(h, low) == IF low /\ ~Seen(h).cooling THEN StartCooling(Seen(h)) ELSE Seen(h)

-----------------------------------------------------------------------------
\* safe_goto()

Become(t, local) == task' = [task EXCEPT ![t] = local]
Return(t) == Become(t, Idle)

\* After the limiters: without a browser the call raises.
Navigate(t, local) ==
  IF open THEN Become(t, [Idle EXCEPT !.pc = "navigating", !.op = local.op, !.site = local.site])
  ELSE Return(t)

\* Mutation: a caller that has slept is granted its request.
RateGranted(t, local) ==
  IF RateWait(local.site, local.conf) > 0 /\ local.pc # "rateSleep"
  THEN /\ Become(t, [local EXCEPT !.pc = "rateSleep",
                                  !.sleep = RateWait(local.site, local.conf)])
       /\ UNCHANGED age
  ELSE /\ age' = [age EXCEPT ![local.site] = Record(@)]
       /\ Navigate(t, local)

\* One round of wait_if_needed(): sleep, or record the request and go on.
RateRound(t, local) ==
  IF RateWait(local.site, local.conf) > 0
  THEN /\ Become(t, [local EXCEPT !.pc = "rateSleep",
                                  !.sleep = RateWait(local.site, local.conf)])
       /\ UNCHANGED age
  ELSE /\ age' = [age EXCEPT ![local.site] = Record(@)]
       /\ Navigate(t, local)

\* What follows the tool limiter and robots.txt, up to the sleep of the limiter
\* or the navigation: warming, then health, then the limits, which are read once.
Gates(t, local) ==
  LET session == Session
      stops == warming.started /\ ShouldStop(session, local.site)
  IN  /\ warming' = IF warming.started THEN [warming EXCEPT !.session = session] ELSE warming
      /\ health' = IF stops THEN WithEvent(health) ELSE Seen(health)
      /\ IF stops \/ Seen(health).cooling
         THEN Return(t) /\ UNCHANGED age
         ELSE IF local.limited
              THEN RateRound(t, [local EXCEPT !.conf = limits[Own][local.site]])
              ELSE Navigate(t, local) /\ UNCHANGED age

\* What follows the tool limiter: robots.txt is requested if the caller wants
\* it respected; a click is tried under the recovery.
PastToolLimiter(t, local) ==
  IF local.op = "safe_click"
  THEN /\ IF open THEN Become(t, [local EXCEPT !.pc = "clicking", !.sleep = 0]) ELSE Return(t)
       /\ UNCHANGED <<age, warming, health>>
  ELSE \/ /\ Become(t, [local EXCEPT !.pc = "robots", !.sleep = 0])
          /\ UNCHANGED <<age, warming, health>>
       \/ Gates(t, local)

\* One round of check_and_wait(): the total cap raises, a full window sleeps.
ToolRound(t, local) ==
  IF Full(toolAge["total"], Hour, ToolCap)
  THEN Return(t) /\ UNCHANGED <<toolAge, age, warming, health>>
  ELSE IF ToolWait(local.op) > 0
       THEN /\ Become(t, [local EXCEPT !.pc = "toolSleep", !.sleep = ToolWait(local.op)])
            /\ UNCHANGED <<toolAge, age, warming, health>>
       ELSE /\ toolAge' = [toolAge EXCEPT !["total"] = Record(@), ![local.op] = Record(@)]
            /\ PastToolLimiter(t, local)

Called(t) ==
  /\ task[t].pc = "idle" /\ calls[t] < MaxCalls[t]
  /\ calls' = [calls EXCEPT ![t] = @ + 1]
Rest == UNCHANGED <<limits, open, uses>>

Goto(t, s, limited) ==
  /\ Called(t)
  /\ requests' = requests + 1
  /\ IF requests' > MaxRequests
     THEN UNCHANGED <<task, toolAge, age, warming, health>>
     ELSE ToolRound(t, [Idle EXCEPT !.op = "safe_goto", !.site = s, !.limited = limited])
  /\ Rest

Click(t) ==
  /\ Called(t)
  /\ ToolRound(t, [Idle EXCEPT !.op = "safe_click"])
  /\ UNCHANGED requests
  /\ Rest

Same == UNCHANGED <<requests, calls>> /\ Rest

ToolWake(t) ==
  /\ task[t].pc = "toolSleep" /\ task[t].sleep = 0
  /\ ToolRound(t, task[t])
  /\ Same

\* An answer that forbids the page ends the call; without an answer it goes on.
Robots(t) ==
  /\ task[t].pc = "robots"
  /\ \/ Return(t) /\ UNCHANGED <<age, warming, health>>
     \/ Gates(t, task[t])
  /\ UNCHANGED toolAge
  /\ Same

RateWake(t) ==
  /\ task[t].pc = "rateSleep" /\ task[t].sleep = 0
  /\ RateRound(t, task[t])
  /\ UNCHANGED <<toolAge, warming, health>>
  /\ Same

\* The recovery returns or raises.  Only what succeeds is counted for warming,
\* in the session that is current by now.
Navigated(t) ==
  /\ task[t].pc = "navigating"
  /\ \/ /\ warming' = IF warming.started
                      THEN [warming EXCEPT !.session = Recorded(@, task[t].site)]
                      ELSE warming
        /\ UNCHANGED health
     \/ health' = WithEvent(health) /\ UNCHANGED warming
  /\ Return(t)
  /\ UNCHANGED <<age, toolAge>>
  /\ Same

Clicked(t) ==
  /\ task[t].pc = "clicking"
  /\ Return(t)
  /\ UNCHANGED <<age, toolAge, warming, health>>
  /\ Same

-----------------------------------------------------------------------------
\* The user of the instance, and time.

Uses == uses < MaxUses /\ uses' = uses + 1

\* account_warming.start(), a no-op when it was started before.
StartWarming ==
  /\ Uses
  /\ ~warming.started
  /\ warming' = [warming EXCEPT !.started = TRUE]
  /\ UNCHANGED <<age, toolAge, limits, task, health, open, requests, calls>>

\* set_rate_limit(): for an account, or for the one named "default".
SetRateLimit(a, s) ==
  /\ Uses
  /\ limits' = [limits EXCEPT ![a][s] = Other]
  /\ UNCHANGED <<age, toolAge, task, warming, health, open, requests, calls>>

\* The score, the risk level or should_cool_off() is read.
ReadHealth ==
  /\ Uses
  /\ \E low \in {FALSE, health.events} : health' = Recalculated(health, low)
  /\ UNCHANGED <<age, toolAge, limits, task, warming, open, requests, calls>>

\* close() ends the session of the schedule; its counters stay until the next
\* session begins.
CloseBrowser ==
  /\ Uses
  /\ open /\ open' = FALSE
  /\ warming' = [warming EXCEPT !.session.active = FALSE]
  /\ UNCHANGED <<age, toolAge, limits, task, health, requests, calls>>

LaunchBrowser ==
  /\ Uses
  /\ ~open /\ open' = TRUE
  /\ warming' = IF warming.started THEN [warming EXCEPT !.session = Session] ELSE warming
  /\ UNCHANGED <<age, toolAge, limits, task, health, requests, calls>>

\* Everything is a unit older.  The code prunes a list whenever it looks at it:
\* here it is pruned at once.
Older(ages, span) == Pruned([i \in DOMAIN ages |-> ages[i] + 1], span)
Span(k) == IF k = "total" THEN Hour ELSE Minute

Less(n) == IF n > 0 THEN n - 1 ELSE 0

\* A session's time counts up to its limit.
Tick ==
  /\ age' = [s \in Site |-> Older(age[s], Hour)]
  /\ toolAge' = [k \in ToolKey |-> Older(toolAge[k], Span(k))]
  /\ task' = [t \in Task |-> [task[t] EXCEPT !.sleep = Less(@)]]
  /\ warming' = [warming EXCEPT !.session.minutes =
                   IF warming.session.active /\ @ < MaxMinutes THEN @ + 1 ELSE @]
  /\ health' = [health EXCEPT !.left = Less(@)]
  /\ Same

-----------------------------------------------------------------------------
TaskStep(t) ==
  ToolWake(t) \/ Robots(t) \/ RateWake(t) \/ Navigated(t) \/ Clicked(t)

Next ==
  \/ \E t \in Task :
       \/ \E s \in Visits[t], limited \in BOOLEAN : Goto(t, s, limited)
       \/ Click(t)
       \/ TaskStep(t)
  \/ StartWarming \/ ReadHealth \/ CloseBrowser \/ LaunchBrowser \/ Tick
  \/ \E a \in Account, s \in Site : SetRateLimit(a, s)

Spec == Init /\ [][Next]_vars

-----------------------------------------------------------------------------
\* Properties.

Ages == Seq(0..(Hour - 1))

\* The types of the variables.
TypeOK ==
  /\ age \in [Site -> Ages]
  /\ toolAge \in [ToolKey -> Ages]
  /\ limits \in [Account -> [Site -> Config]]
  /\ task \in [Task -> [pc : {"idle", "toolSleep", "robots", "rateSleep", "navigating", "clicking"},
                        op : Tool \cup {"none"}, site : Site \cup {"none"}, sleep : 0..Hour,
                        conf : Config, limited : BOOLEAN]]
  /\ warming \in [started : BOOLEAN,
                  session : [active : BOOLEAN, minutes : 0..MaxMinutes, actions : Nat,
                             pages : Nat, sites : SUBSET Site]]
  /\ health \in [cooling : BOOLEAN, left : Nat, count : 0..(Len(Duration) - 1),
                 events : BOOLEAN]
  /\ open \in BOOLEAN /\ requests \in Nat /\ uses \in Nat /\ calls \in [Task -> Nat]

\* However many callers wait and wake at the same time: no window ever holds
\* more requests than its limit, for a site the larger one if it was changed.
WindowsHold ==
  /\ \A s \in Site :
       /\ Len(age[s]) <= PerHour
       /\ \E c \in {Default, limits[Own][s]} :
            c.perMinute = 0 \/ Len(Pruned(age[s], Minute)) <= c.perMinute
  /\ \A tool \in Tool :
       ToolPerMinute > 0 => Len(toolAge[tool]) <= ToolPerMinute
  /\ Len(toolAge["total"]) <= ToolCap

\* Nobody sleeps longer than the limits require: what a sleeping caller has left
\* is at most what a new caller with its limits would be told to wait.
SleepIsNeeded ==
  \A t \in Task :
    /\ task[t].pc = "rateSleep" => task[t].sleep <= RateWait(task[t].site, task[t].conf)
    /\ task[t].pc = "toolSleep" => task[t].sleep <= ToolWait(task[t].op)

\* Navigations that have passed the check of the warming schedule.
InFlight == {t \in Task : task[t].pc = "navigating" \/ task[t].pc = "rateSleep"}

\* A navigation is counted when it has succeeded, long after the check that lets
\* it start.  Even so a session exceeds its page, action and site limits by less
\* than the number of concurrent callers, restarts of the session included.
WarmingOverrunIsBounded ==
  LET slack == Cardinality(Task) - 1
  IN  /\ warming.session.pages + Cardinality(InFlight) <= MaxPages + slack
      /\ warming.session.actions + Cardinality(InFlight) <= MaxActions + slack
      /\ Cardinality(warming.session.sites \cup {task[t].site : t \in InFlight})
           <= SiteVariety + slack

=============================================================================
