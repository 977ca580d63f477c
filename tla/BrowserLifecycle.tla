-------------------------- MODULE BrowserLifecycle --------------------------
(***************************************************************************)
(* AgentBrowser (core/agent_browser.py): launch, attach to a running       *)
(* browser, relaunch for a rotation, tabs and close, and the _BrowserPool  *)
(* that instances share.  What is at stake is ownership: close() decides   *)
(* from what earlier calls left behind which context, page and Playwright  *)
(* driver it must close and which belong to the user or to the pool.       *)
(*                                                                         *)
(* Everything runs on one event loop: a step goes from one await to the    *)
(* next.  The calls of one caller ("main") follow one another; a           *)
(* navigation that runs in a task of its own ("hook") holds the relaunch   *)
(* hook of the instance and may call it at any later time.                 *)
(*                                                                         *)
(* Playwright is external: an awaited call of it succeeds or raises.       *)
(***************************************************************************)
EXTENDS Naturals, FiniteSets

CONSTANTS
  Browser,      \* the AgentBrowser instances
  Context,      \* browser contexts
  UserContext,  \* those that are open in the user's own browser
  Driver,       \* Playwright drivers
  Ways,         \* how an instance is started: "classic", "pooled", "adopt", "own"
  Ask,          \* the headless preference of a pooled launch: "any", "on", "off"
  MaxOps,       \* how many calls an instance gets
  MaxFaults,    \* how many awaited calls raise
  None

ASSUME ConstantsAssumption ==
  /\ UserContext \subseteq Context
  /\ Ways \in [Browser -> SUBSET {"classic", "pooled", "adopt", "own"}]
  /\ Ask \in [Browser -> {"any", "on", "off"}]
  /\ MaxOps \in [Browser -> Nat]
  /\ MaxFaults \in Nat
  /\ None \notin Context \cup Driver \cup Browser

Task == {"main", "hook"}
\* Pages by role: the user's tab, the page of a launch or attach, a further one.
PageName == {"tab", "main", "extra"}
Page == Context \X PageName
Mode == {"none", "launched", "pooled", "attached_owned", "attached_adopted"}

VARIABLES
  obj,         \* the attributes of each instance that decide the teardown
  task,        \* where each task of an instance awaits, with its local variables
  kind,        \* what each context is: "none" (closed), "user", "persistent", "pool", "cdp"
  maker,       \* the instance that created it
  tabs,        \* its open pages
  running,     \* the instance that started each driver that runs
  pool,        \* the shared pool: browser up or not, its mode, its lock, its contexts
  ops, faults, \* what is left of the bounds is MaxOps - ops, MaxFaults - faults
  overlapped   \* a relaunch overlapped another call of the instance

world == <<kind, maker, tabs, running>>
vars == <<obj, task, world, pool, ops, faults, overlapped>>

Clean ==
  [browser |-> None, page |-> None, owns |-> FALSE, owned |-> {},
   mode |-> "none", usingPool |-> FALSE, hasPool |-> FALSE, attached |-> FALSE,
   ours |-> FALSE, pw |-> None, remote |-> FALSE, atexit |-> TRUE,
   recovery |-> "none"]

Idle ==
  [at |-> "idle", call |-> "none", ctx |-> None, pw |-> None, mode |-> "none",
   new |-> FALSE, onBrowser |-> FALSE, failed |-> FALSE]

Init ==
  /\ obj = [a \in Browser |-> Clean]
  /\ task = [a \in Browser |-> [t \in Task |-> Idle]]
  /\ kind = [c \in Context |-> IF c \in UserContext THEN "user" ELSE "none"]
  /\ maker = [c \in Context |-> None]
  /\ tabs \in {f \in [Context -> SUBSET {"tab"}] :
                 \A c \in Context \ UserContext : f[c] = {}}
  /\ running = [d \in Driver |-> None]
  /\ pool = [up |-> FALSE, headless |-> "on", lock |-> <<>>, active |-> {}]
  /\ ops = [a \in Browser |-> 0]
  /\ faults = 0
  /\ overlapped = [a \in Browser |-> FALSE]

-----------------------------------------------------------------------------
\* Helpers.

At(a, t, place) == task[a][t].at = place
Busy(a, t) == task[a][t].at \notin {"idle", "exec"}
Rest(t) == IF t = "main" THEN Idle ELSE [Idle EXCEPT !.at = "exec"]

\* A task goes on with these local variables, or ends.
Continue(a, t, local) == task' = [task EXCEPT ![a][t] = local]
Goto(a, t, place) == Continue(a, t, [task[a][t] EXCEPT !.at = place])
Return(a, t) == Continue(a, t, Rest(t))

Become(a, attributes) == obj' = [obj EXCEPT ![a] = attributes]

Raises == faults < MaxFaults /\ faults' = faults + 1
Succeeds == UNCHANGED faults

\* An identity that nothing refers to stands for a new object.
NewContext(c) ==
  /\ c \notin UserContext /\ kind[c] = "none"
  /\ \A a \in Browser : obj[a].browser # c /\ \A t \in Task : task[a][t].ctx # c
  /\ \A a \in Browser : obj[a].page \notin {c} \X PageName
NewDriver(d) ==
  /\ running[d] = None
  /\ \A a \in Browser : obj[a].pw # d /\ \A t \in Task : task[a][t].pw # d

Open(c, as, a) ==
  /\ kind' = [kind EXCEPT ![c] = as]
  /\ maker' = [maker EXCEPT ![c] = a]

\* Closing a context closes its pages.
ClosedKind(closed) == [c \in Context |-> IF c \in closed THEN "none" ELSE kind[c]]
ClosedTabs(closed) == [c \in Context |-> IF c \in closed THEN {} ELSE tabs[c]]
CloseContexts(closed) ==
  kind' = ClosedKind(closed) /\ tabs' = ClosedTabs(closed) /\ UNCHANGED maker
\* _owned_pages matters in the user's contexts only: elsewhere every page is ours.
Tracked(c, name) == IF c \in UserContext THEN {<<c, name>>} ELSE {}

ClosePage(page) == tabs' = [tabs EXCEPT ![page[1]] = @ \ {page[2]}]

Stop(d) == running' = [e \in Driver |-> IF e = d THEN None ELSE running[e]]

Pooled(a) == obj[a].usingPool /\ obj[a].hasPool

\* release_context(): the pool forgets the context and closes it.
Released(c) == [pool EXCEPT !.active = @ \ {c}]

\* A call of the caller begins when the previous one has returned.
Begins(a) ==
  /\ At(a, "main", "idle")
  /\ ops[a] < MaxOps[a]
  /\ ops' = [ops EXCEPT ![a] = @ + 1]
  /\ overlapped' = [overlapped EXCEPT ![a] = @ \/ Busy(a, "hook")]
NoCall == UNCHANGED <<ops, overlapped>>

-----------------------------------------------------------------------------
\* The shared pool.

\* Mutation: the preference of the caller is not compared.
EnsureUnasked(a, t) ==
  /\ At(a, t, "ensure")
  /\ pool.lock = <<>> /\ pool.up
  /\ LET asked == "any"
     IN  IF asked \in {"any", pool.headless}
         THEN Continue(a, t, [task[a][t] EXCEPT !.at = "newContext", !.onBrowser = TRUE])
         ELSE Return(a, t)
  /\ NoCall
  /\ UNCHANGED <<obj, world, pool, faults>>

\* ensure_browser() with the pool's browser up: an explicit preference that
\* differs from its mode raises, before or after the caller has changed nothing.
EnsureRunning(a, t) ==
  /\ At(a, t, "ensure")
  /\ pool.lock = <<>> /\ pool.up
  /\ LET asked == IF task[a][t].call = "launch" THEN Ask[a] ELSE "any"
     IN  IF asked \in {"any", pool.headless}
         THEN Continue(a, t, [task[a][t] EXCEPT !.at = "newContext", !.onBrowser = TRUE])
         ELSE Return(a, t)
  /\ NoCall
  /\ UNCHANGED <<obj, world, pool, faults>>

\* ensure_browser() holds the lock while it starts the driver and the browser.
EnsureStarts(a, t) ==
  /\ At(a, t, "ensure")
  /\ pool.lock = <<>> /\ ~pool.up
  /\ pool' = [pool EXCEPT !.lock = <<a, t>>]
  /\ Goto(a, t, "poolStart")
  /\ NoCall
  /\ UNCHANGED <<obj, world, faults>>

\* What a failed step of a launch or relaunch does: launch() raises as it is,
\* the relaunch rolls back.
Fails(a, t) ==
  IF task[a][t].call = "relaunch"
  THEN Continue(a, t, [task[a][t] EXCEPT !.at = "rollback", !.failed = TRUE])
  ELSE Return(a, t)

PoolStarted(a, t) ==
  /\ At(a, t, "poolStart")
  /\ \/ /\ Succeeds
        /\ pool' = [pool EXCEPT !.up = TRUE, !.lock = <<>>,
                      !.headless = IF task[a][t].call = "launch" /\ Ask[a] = "off"
                                   THEN "off" ELSE "on"]
        /\ Continue(a, t, [task[a][t] EXCEPT !.at = "newContext", !.onBrowser = TRUE])
     \/ /\ Raises
        /\ pool' = [pool EXCEPT !.lock = <<>>]
        /\ Fails(a, t)
  /\ NoCall
  /\ UNCHANGED <<obj, world>>

\* create_context() awaits new_context() on the browser it was given, without
\* the lock: a shutdown in between closes that browser.
PoolContext(a, t) ==
  /\ At(a, t, "newContext")
  /\ \/ \E c \in Context :
          /\ task[a][t].onBrowser
          /\ NewContext(c)
          /\ Open(c, "pool", a)
          /\ pool' = [pool EXCEPT !.active = @ \cup {c}]
          /\ Succeeds
          /\ IF task[a][t].call = "relaunch"
             THEN /\ Continue(a, t, [task[a][t] EXCEPT !.at = "stage", !.ctx = c])
                  /\ UNCHANGED obj
             ELSE /\ Goto(a, t, "page")
                  /\ Become(a, [obj[a] EXCEPT !.browser = c])
     \/ /\ IF task[a][t].onBrowser THEN Raises ELSE Succeeds
        /\ Fails(a, t)
        /\ UNCHANGED <<obj, kind, maker, pool>>
  /\ NoCall
  /\ UNCHANGED <<tabs, running>>

\* shutdown() closes the contexts it knows, then the browser with all others.
ShutdownBegins ==
  /\ pool.lock = <<>> /\ pool.up
  /\ pool' = [pool EXCEPT !.lock = <<None, "shutdown">>, !.active = {}]
  /\ CloseContexts(pool.active)
  /\ NoCall
  /\ UNCHANGED <<obj, task, running, faults>>
ShutdownEnds ==
  /\ pool.lock = <<None, "shutdown">>
  /\ pool' = [pool EXCEPT !.up = FALSE, !.headless = "on", !.lock = <<>>]
  /\ CloseContexts({c \in Context : kind[c] = "pool"})
  /\ task' = [a \in Browser |-> [t \in Task |-> [task[a][t] EXCEPT !.onBrowser = FALSE]]]
  /\ NoCall
  /\ UNCHANGED <<obj, running, faults>>

-----------------------------------------------------------------------------
\* launch()

LaunchGuard(a) ==
  /\ obj[a].browser = None /\ obj[a].page = None /\ obj[a].pw = None
  /\ ~obj[a].remote /\ ~obj[a].attached

Launch(a, way) ==
  /\ way \in Ways[a] \cap {"classic", "pooled"}
  /\ Begins(a)
  /\ LaunchGuard(a)
  /\ IF way = "pooled"
     THEN /\ Become(a, [obj[a] EXCEPT !.atexit = TRUE, !.usingPool = TRUE,
                                      !.hasPool = TRUE, !.mode = "pooled"])
          /\ Continue(a, "main", [Idle EXCEPT !.at = "ensure", !.call = "launch"])
     ELSE /\ Become(a, [obj[a] EXCEPT !.atexit = TRUE, !.usingPool = FALSE])
          /\ Continue(a, "main", [Idle EXCEPT !.at = "driver", !.call = "launch"])
  /\ UNCHANGED <<world, pool, faults>>

\* async_playwright().start(), for launch() and for attach_over_cdp().
StartDriver(a) ==
  /\ At(a, "main", "driver")
  /\ \/ \E d \in Driver :
          /\ NewDriver(d)
          /\ running' = [running EXCEPT ![d] = a]
          /\ Succeeds
          /\ IF task[a]["main"].call = "launch"
             THEN /\ Become(a, [obj[a] EXCEPT !.pw = d, !.mode = "launched"])
                  /\ Continue(a, "main", [task[a]["main"] EXCEPT !.at = "context", !.pw = d])
             ELSE /\ Become(a, [obj[a] EXCEPT !.pw = d])
                  /\ Goto(a, "main", "connect")
     \/ Raises /\ Return(a, "main") /\ UNCHANGED <<obj, running>>
  /\ NoCall
  /\ UNCHANGED <<kind, maker, tabs, pool>>

\* launch_persistent_context(): launch() uses the driver it has just started,
\* the relaunch the one the instance holds by now.
PersistentContext(a, t) ==
  /\ At(a, t, "context")
  /\ LET pw == IF task[a][t].call = "relaunch" THEN obj[a].pw ELSE task[a][t].pw
         usable == pw # None /\ running[pw] # None
     IN  \/ \E c \in Context :
              /\ usable
              /\ NewContext(c)
              /\ Open(c, "persistent", a)
              /\ Succeeds
              /\ IF task[a][t].call = "relaunch"
                 THEN /\ Continue(a, t, [task[a][t] EXCEPT !.at = "stage", !.ctx = c])
                      /\ UNCHANGED obj
                 ELSE /\ Goto(a, t, "page")
                      /\ Become(a, [obj[a] EXCEPT !.browser = c])
         \/ /\ IF usable THEN Raises ELSE Succeeds
            /\ Fails(a, t)
            /\ UNCHANGED <<obj, kind, maker>>
  /\ NoCall
  /\ UNCHANGED <<tabs, running, pool>>

\* add_init_script() and new_page() on self.browser, whatever that is by now.
LaunchPage(a) ==
  /\ At(a, "main", "page")
  /\ LET c == obj[a].browser
         usable == c # None /\ kind[c] # "none"
     IN  \/ /\ usable
            /\ Succeeds
            /\ tabs' = [tabs EXCEPT ![c] = @ \cup {"main"}]
            /\ Become(a, [obj[a] EXCEPT !.page = <<c, "main">>, !.owns = TRUE])
            /\ Goto(a, "main", "wire")
         \/ /\ IF usable THEN Raises ELSE Succeeds
            /\ Return(a, "main")
            /\ UNCHANGED <<obj, tabs>>
  /\ NoCall
  /\ UNCHANGED <<kind, maker, running, pool>>

\* After the mouse tracker: logger, scraper and a recovery that can relaunch, so
\* from now on a navigation in its own task may; a logger that cannot be opened
\* raises.  launch() stores its driver again.
LaunchReturns(a) ==
  /\ At(a, "main", "wire") /\ task[a]["main"].call = "launch"
  /\ \/ /\ Succeeds
        /\ Become(a, [obj[a] EXCEPT !.recovery = "relaunches",
                        !.pw = IF obj[a].usingPool \/ task[a]["main"].pw = None
                               THEN @ ELSE task[a]["main"].pw])
        /\ task' = [task EXCEPT ![a]["main"] = Idle,
                      ![a]["hook"].at = IF @ = "idle" THEN "exec" ELSE @]
     \/ Raises /\ Return(a, "main") /\ UNCHANGED obj
  /\ NoCall
  /\ UNCHANGED <<world, pool>>

-----------------------------------------------------------------------------
\* attach_over_cdp()

\* It refuses only while self.browser is set, and takes over a driver that an
\* earlier call left behind.
Attach(a, way) ==
  /\ way \in Ways[a] \cap {"adopt", "own"}
  /\ Begins(a)
  /\ obj[a].browser = None
  /\ Become(a, [obj[a] EXCEPT !.atexit = TRUE, !.usingPool = FALSE])
  /\ Continue(a, "main",
       [Idle EXCEPT !.at = IF obj[a].pw = None THEN "driver" ELSE "connect",
                    !.call = "attach", !.new = (way = "own")])
  /\ UNCHANGED <<world, pool, faults>>

UserOpen == {u \in UserContext : kind[u] = "user"}

\* connect_over_cdp(), then without an await the choice of the context: a new
\* one, an adopted one, or an index that is out of range.
Connected(a) ==
  /\ At(a, "main", "connect")
  /\ obj[a].pw # None /\ running[obj[a].pw] # None
  /\ Succeeds
  /\ LET connected == [obj[a] EXCEPT !.remote = TRUE, !.attached = TRUE]
     IN  \/ /\ task[a]["main"].new \/ UserOpen = {}
            /\ Become(a, connected)
            /\ Goto(a, "main", "cdpContext")
         \/ /\ ~task[a]["main"].new
            /\ \E u \in UserOpen :
                 /\ Become(a, [connected EXCEPT !.ours = FALSE, !.browser = u,
                                                !.mode = "attached_adopted"])
                 /\ Continue(a, "main", [task[a]["main"] EXCEPT !.at = "tab", !.ctx = u])
         \/ /\ ~task[a]["main"].new /\ UserOpen # {}
            /\ Become(a, connected)
            /\ Goto(a, "main", "undo")
  /\ NoCall
  /\ UNCHANGED <<world, pool>>

\* The connection fails: the driver is stopped, also one that was there before.
ConnectFails(a) ==
  /\ At(a, "main", "connect")
  /\ IF obj[a].pw # None /\ running[obj[a].pw] # None THEN Raises ELSE Succeeds
  /\ Stop(obj[a].pw)
  /\ Become(a, [obj[a] EXCEPT !.pw = None])
  /\ Return(a, "main")
  /\ NoCall
  /\ UNCHANGED <<kind, maker, tabs, pool>>

CdpContext(a) ==
  /\ At(a, "main", "cdpContext")
  /\ \/ \E c \in Context :
          /\ NewContext(c)
          /\ Open(c, "cdp", a)
          /\ Succeeds
          /\ Become(a, [obj[a] EXCEPT !.ours = TRUE, !.browser = c,
                                      !.mode = "attached_owned"])
          /\ Continue(a, "main", [task[a]["main"] EXCEPT !.at = "tab", !.ctx = c])
     \/ Raises /\ Goto(a, "main", "undo") /\ UNCHANGED <<obj, kind, maker>>
  /\ NoCall
  /\ UNCHANGED <<tabs, running, pool>>

\* The first page of an adopted context is the user's: it becomes the current
\* page and is not owned.  Otherwise a page is opened, at the second attempt if
\* the first one raises.
AttachPage(a) ==
  /\ At(a, "main", "tab") \/ At(a, "main", "tabAgain")
  /\ LET c == task[a]["main"].ctx
         first == IF "tab" \in tabs[c] THEN "tab"
                  ELSE IF "main" \in tabs[c] THEN "main" ELSE "extra"
     IN  IF At(a, "main", "tab") /\ tabs[c] # {} /\ ~task[a]["main"].new
         THEN /\ Become(a, [obj[a] EXCEPT !.page = <<c, first>>, !.owns = FALSE])
              /\ Goto(a, "main", "wire")
              /\ Succeeds /\ UNCHANGED tabs
         ELSE \/ /\ kind[c] # "none"
                 /\ Succeeds
                 /\ tabs' = [tabs EXCEPT ![c] = @ \cup {"main"}]
                 /\ Become(a, [obj[a] EXCEPT !.page = <<c, "main">>, !.owns = TRUE,
                                             !.owned = @ \cup Tracked(c, "main")])
                 /\ Goto(a, "main", "wire")
              \/ /\ IF kind[c] # "none" THEN Raises ELSE Succeeds
                 /\ Goto(a, "main", IF At(a, "main", "tab") THEN "tabAgain" ELSE "undo")
                 /\ UNCHANGED <<obj, tabs>>
  /\ NoCall
  /\ UNCHANGED <<kind, maker, running, pool>>

\* The recovery of an attached instance gets no relaunch hook.
AttachReturns(a) ==
  /\ At(a, "main", "wire") /\ task[a]["main"].call = "attach"
  /\ \/ /\ Succeeds
        /\ Become(a, [obj[a] EXCEPT !.recovery = "plain"])
        /\ Return(a, "main")
     \/ Raises /\ Goto(a, "main", "undo") /\ UNCHANGED obj
  /\ NoCall
  /\ UNCHANGED <<world, pool>>

\* The rollback of a failed attach: first the context, if it is ours,
AttachUndo(a) ==
  /\ At(a, "main", "undo")
  /\ CloseContexts(IF obj[a].ours THEN {obj[a].browser} \ {None} ELSE {})
  /\ Goto(a, "main", "undone")
  /\ NoCall
  /\ UNCHANGED <<obj, running, pool, faults>>
\* then the connection and the driver.
AttachUndone(a) ==
  /\ At(a, "main", "undone")
  /\ Stop(obj[a].pw)
  /\ Become(a, [obj[a] EXCEPT !.browser = None, !.remote = FALSE, !.pw = None,
                  !.attached = FALSE, !.ours = FALSE, !.mode = "none", !.page = None,
                  !.owns = FALSE])
  /\ Return(a, "main")
  /\ NoCall
  /\ UNCHANGED <<kind, maker, tabs, pool, faults>>

-----------------------------------------------------------------------------
\* _perform_rotation_relaunch()

\* A recovery calls the hook: the caller's own (the caller awaits it) or that
\* of a navigation in its own task; or the caller asks for switch_region() with
\* relaunch=True, on whatever the instance holds.
RelaunchBegins(a, t) ==
  \/ t = "main" /\ Begins(a)
  \/ /\ t = "hook" /\ At(a, t, "exec")
     /\ ops[a] < MaxOps[a]
     /\ ops' = [ops EXCEPT ![a] = @ + 1]
     /\ overlapped' = [overlapped EXCEPT ![a] = @ \/ Busy(a, "main")]
HasLauncher(a) ==
  obj[a].browser # None /\ (obj[a].pw # None \/ obj[a].hasPool \/ obj[a].usingPool)

Relaunch(a, t) ==
  /\ RelaunchBegins(a, t)
  /\ HasLauncher(a)
  /\ Continue(a, t,
       [Idle EXCEPT !.at = "release", !.call = "relaunch",
                    !.mode = IF obj[a].usingPool THEN "pooled" ELSE "launched"])
  /\ IF obj[a].page # None THEN ClosePage(obj[a].page) ELSE UNCHANGED tabs
  /\ UNCHANGED <<obj, kind, maker, running, pool, faults>>

\* After the page, the context that the instance holds by now is closed.
RelaunchCloses(a, t) ==
  /\ At(a, t, "release")
  /\ LET c == obj[a].browser
     IN  /\ CloseContexts({c} \ {None})
         /\ pool' = IF c # None /\ Pooled(a) THEN Released(c) ELSE pool
  /\ Goto(a, t, "forget")
  /\ NoCall
  /\ UNCHANGED <<obj, running, faults>>

Forgotten(a) ==
  [obj[a] EXCEPT !.page = None, !.owns = FALSE, !.browser = None, !.mode = "none"]

\* The instance is marked dead before the replacement is staged.
RelaunchForgets(a, t) ==
  /\ At(a, t, "forget")
  /\ Become(a, Forgotten(a))
  /\ \/ Succeeds /\ Goto(a, t, IF Pooled(a) THEN "ensure" ELSE "context")
     \/ Raises /\ Goto(a, t, "rollback")
  /\ NoCall
  /\ UNCHANGED <<world, pool>>

\* Mutation: the swap does not store the teardown mode.
SwapWithoutMode(a, t) ==
  /\ At(a, t, "stage")
  /\ LET c == task[a][t].ctx
         usable == kind[c] # "none"
     IN  \/ /\ usable
            /\ Succeeds
            /\ tabs' = [tabs EXCEPT ![c] = @ \cup {"main"}]
            /\ Become(a, [obj[a] EXCEPT !.browser = c, !.page = <<c, "main">>, !.owns = TRUE])
            /\ Return(a, t)
         \/ /\ IF usable THEN Raises ELSE Succeeds
            /\ Goto(a, t, "rollback")
            /\ UNCHANGED <<obj, tabs>>
  /\ NoCall
  /\ UNCHANGED <<kind, maker, running, pool>>

\* new_page() on the staged context, init script and mouse tracker; then every
\* reference is swapped without an await.
RelaunchSwaps(a, t) ==
  /\ At(a, t, "stage")
  /\ LET c == task[a][t].ctx
         usable == kind[c] # "none"
     IN  \/ /\ usable
            /\ Succeeds
            /\ tabs' = [tabs EXCEPT ![c] = @ \cup {"main"}]
            /\ Become(a, [obj[a] EXCEPT !.browser = c, !.page = <<c, "main">>,
                            !.owns = TRUE, !.mode = task[a][t].mode])
            /\ Return(a, t)
         \/ /\ IF usable THEN Raises ELSE Succeeds
            /\ Goto(a, t, "rollback")
            /\ UNCHANGED <<obj, tabs>>
  /\ NoCall
  /\ UNCHANGED <<kind, maker, running, pool>>

\* Mutation: the rollback leaves the staged context open.
RollBackKeepsStaged(a, t) ==
  /\ At(a, t, "rollback")
  /\ LET c == task[a][t].ctx
     IN  /\ CloseContexts({})
         /\ pool' = IF c # None /\ Pooled(a) THEN Released(c) ELSE pool
  /\ Goto(a, t, "dead")
  /\ NoCall
  /\ UNCHANGED <<obj, running, faults>>

\* Only the staged context is closed, and the instance is marked dead again.
RelaunchRollsBack(a, t) ==
  /\ At(a, t, "rollback")
  /\ LET c == task[a][t].ctx
     IN  /\ CloseContexts({c} \ {None})
         /\ pool' = IF c # None /\ Pooled(a) THEN Released(c) ELSE pool
  /\ Goto(a, t, "dead")
  /\ NoCall
  /\ UNCHANGED <<obj, running, faults>>
RelaunchRaises(a, t) ==
  /\ At(a, t, "dead")
  /\ Become(a, Forgotten(a))
  /\ Return(a, t)
  /\ NoCall
  /\ UNCHANGED <<world, pool, faults>>

-----------------------------------------------------------------------------
\* Tabs: new_page() and switch_to_page().

\* The context is read before the await; a context has one further page here.
NewPage(a, makeCurrent) ==
  /\ Begins(a)
  /\ obj[a].browser # None /\ "extra" \notin tabs[obj[a].browser]
  /\ Continue(a, "main", [Idle EXCEPT !.at = "newPage", !.call = "newPage",
                                      !.ctx = obj[a].browser, !.new = makeCurrent])
  /\ UNCHANGED <<obj, world, pool, faults>>

\* The page is open: it becomes the current one of the instance, whatever
\* context that holds by now.  On a context that has been closed it raises.
NewPageReturns(a) ==
  /\ At(a, "main", "newPage")
  /\ LET c == task[a]["main"].ctx
     IN  \/ /\ kind[c] # "none"
            /\ Succeeds
            /\ tabs' = [tabs EXCEPT ![c] = @ \cup {"extra"}]
            /\ Become(a, IF task[a]["main"].new
                         THEN [obj[a] EXCEPT !.owned = @ \cup Tracked(c, "extra"),
                                             !.page = <<c, "extra">>, !.owns = TRUE]
                         ELSE [obj[a] EXCEPT !.owned = @ \cup Tracked(c, "extra")])
         \/ /\ IF kind[c] # "none" THEN Raises ELSE Succeeds
            /\ UNCHANGED <<obj, tabs>>
  /\ Return(a, "main")
  /\ NoCall
  /\ UNCHANGED <<kind, maker, running, pool>>

SwitchToPage(a, name) ==
  /\ Begins(a)
  /\ LET c == obj[a].browser
     IN  /\ c # None /\ name \in tabs[c]
         /\ Become(a, [obj[a] EXCEPT !.page = <<c, name>>,
                                     !.owns = c \notin UserContext
                                              \/ <<c, name>> \in obj[a].owned])
  /\ UNCHANGED <<task, world, pool, faults>>

-----------------------------------------------------------------------------
\* close()

\* What close() does with the context: "close", "release" to the pool, "leave".
Disposition(b) ==
  CASE b.mode = "attached_owned" -> "close"
    [] b.mode = "attached_adopted" -> "leave"
    [] b.mode = "pooled" -> IF b.hasPool THEN "release" ELSE "close"
    [] b.mode = "launched" -> "close"
    [] b.mode = "none" -> IF b.usingPool /\ b.hasPool THEN "release"
                          ELSE IF ~b.usingPool /\ ~b.attached THEN "close" ELSE "leave"

Close(a) ==
  /\ Begins(a)
  /\ Become(a, [obj[a] EXCEPT !.atexit = FALSE])
  /\ IF obj[a].page # None /\ obj[a].owns THEN ClosePage(obj[a].page) ELSE UNCHANGED tabs
  /\ Continue(a, "main", [Idle EXCEPT !.at = "closeContext", !.call = "close"])
  /\ UNCHANGED <<kind, maker, running, pool, faults>>

CloseContext(a) ==
  /\ At(a, "main", "closeContext")
  /\ LET b == obj[a]
         does == IF b.browser = None THEN "leave" ELSE Disposition(b)
     IN  /\ CloseContexts(IF does = "leave" THEN {} ELSE {b.browser})
         /\ pool' = IF does = "release" THEN Released(b.browser) ELSE pool
  /\ Become(a, [obj[a] EXCEPT !.page = None])
  /\ Goto(a, "main", "closeRemote")
  /\ NoCall
  /\ UNCHANGED <<running, faults>>

CloseRemote(a) ==
  /\ At(a, "main", "closeRemote")
  /\ Become(a, [obj[a] EXCEPT !.browser = None])
  /\ Goto(a, "main", "closeDriver")
  /\ NoCall
  /\ UNCHANGED <<world, pool, faults>>

\* The driver is stopped and, in the finally block, everything is reset; only
\* the reference to the pool stays.
CloseReturns(a) ==
  /\ At(a, "main", "closeDriver")
  /\ Stop(obj[a].pw)
  /\ Become(a, [Clean EXCEPT !.atexit = obj[a].atexit, !.hasPool = obj[a].hasPool])
  /\ Return(a, "main")
  /\ NoCall
  /\ UNCHANGED <<kind, maker, tabs, pool, faults>>

-----------------------------------------------------------------------------
CallBegins(a) ==
  \/ \E way \in Ways[a] : Launch(a, way) \/ Attach(a, way)
  \/ Relaunch(a, "main") \/ Close(a)
  \/ NewPage(a, TRUE) \/ NewPage(a, FALSE)
  \/ \E name \in PageName : SwitchToPage(a, name)

RelaunchStep(a, t) ==
  \/ RelaunchCloses(a, t) \/ RelaunchForgets(a, t) \/ RelaunchSwaps(a, t)
  \/ RelaunchRollsBack(a, t) \/ RelaunchRaises(a, t)

\* A step of a call that has begun.
TaskStep(a, t) ==
  \/ EnsureRunning(a, t) \/ EnsureStarts(a, t) \/ PoolStarted(a, t)
  \/ PoolContext(a, t) \/ PersistentContext(a, t)
  \/ RelaunchStep(a, t)
  \/ /\ t = "main"
     /\ \/ StartDriver(a) \/ LaunchPage(a) \/ LaunchReturns(a)
        \/ Connected(a) \/ ConnectFails(a) \/ CdpContext(a) \/ AttachPage(a)
        \/ AttachReturns(a) \/ AttachUndo(a) \/ AttachUndone(a) \/ NewPageReturns(a)
        \/ CloseContext(a) \/ CloseRemote(a) \/ CloseReturns(a)

Next ==
  \/ \E a \in Browser :
       \/ CallBegins(a)
       \/ Relaunch(a, "hook")
       \/ \E t \in Task : TaskStep(a, t)
  \/ ShutdownBegins \/ ShutdownEnds

Spec == Init /\ [][Next]_vars

-----------------------------------------------------------------------------
\* Properties.

Resting(a) == ~Busy(a, "main") /\ ~Busy(a, "hook")
Alone(a) == Resting(a) /\ ~overlapped[a]

TypeOK ==
  /\ \A a \in Browser :
       /\ obj[a].browser \in Context \cup {None}
       /\ obj[a].page \in Page \cup {None}
       /\ obj[a].owned \subseteq Page
       /\ obj[a].mode \in Mode
       /\ obj[a].pw \in Driver \cup {None}
       /\ obj[a].recovery \in {"none", "plain", "relaunches"}
       /\ \A x \in {"owns", "usingPool", "hasPool", "attached", "ours", "remote", "atexit"} :
            obj[a][x] \in BOOLEAN
       /\ \A t \in Task : task[a][t].ctx \in Context \cup {None}
  /\ kind \in [Context -> {"none", "user", "persistent", "pool", "cdp"}]
  /\ maker \in [Context -> Browser \cup {None}]
  /\ tabs \in [Context -> SUBSET PageName]
  /\ running \in [Driver -> Browser \cup {None}]
  /\ pool.active \subseteq Context

\* Between calls everything an instance created and that is still alive is in
\* its hands: a context it holds, a driver it will stop.  Nothing is lost on any
\* failure path of launch, attach and relaunch, and what close() leaves behind
\* is nothing, since then it holds nothing.
NothingIsLost ==
  \A a \in Browser : Alone(a) =>
    /\ \A c \in Context : maker[c] = a /\ kind[c] # "none" => obj[a].browser = c
    /\ \A d \in Driver : running[d] = a => obj[a].pw = d

\* Whatever calls came before, close() would do the right thing with the context
\* of the instance: leave the user's, release the pool's, close its own.
CloseKnowsItsContext ==
  \A a \in Browser : Resting(a) /\ obj[a].browser # None =>
    (Disposition(obj[a]) = "leave") <=> (obj[a].browser \in UserContext)

\* An instance that holds anything is closed at exit of the process: its atexit
\* callback is registered.
HeldIsClosedAtExit ==
  \A a \in Browser : Alone(a) /\ (obj[a].browser # None \/ obj[a].pw # None \/ obj[a].remote)
    => obj[a].atexit

\* The driver an instance holds is one that runs.
DriverRuns ==
  \A a \in Browser : Alone(a) /\ obj[a].pw # None => running[obj[a].pw] = a

\* Between calls an instance holds what it opened and what is open, and whatever
\* it holds will be closed.
LifecycleInvariant == TypeOK /\ NothingIsLost /\ DriverRuns /\ HeldIsClosedAtExit

\* The context of an instance is closed by its own calls or by a shutdown of the
\* pool, never by a call of another instance that shares the pool.
OthersKeepTheirContexts ==
  \A a \in Browser :
    LET c == obj[a].browser
    IN  c \notin UserContext \cup {None} /\ kind[c] # "none" /\ kind'[c] = "none"
          => task'[a] # task[a] \/ pool'.lock = <<None, "shutdown">> \/ pool.up # pool'.up

\* A pooled launch that asked for a mode gets its context on a browser of that
\* mode, whatever shutdowns and other launches came between its two awaits.
PooledLaunchGetsItsMode ==
  \A a \in Browser :
    /\ task[a]["main"].call = "launch" /\ task'[a]["main"] # task[a]["main"]
    /\ obj[a].browser # obj'[a].browser
    /\ kind'[obj'[a].browser] = "pool"
    => Ask[a] \in {"any", pool.headless}

\* The instances that share the pool do not disturb one another.
PoolIsShared == [][OthersKeepTheirContexts /\ PooledLaunchGetsItsMode]_vars

=============================================================================
