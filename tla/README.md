# Verification of the agentic stealth browser

TLA+ models of the parts of this repository that keep state and have to keep it
right: what they do, what must hold of them, and what of it is model-checked
(TLC) and proved for every value of the constants (TLAPS).

Paths are relative to the repository's root. Every definition that stands for
code is listed with its lines in `PROJECT.json` ("map"); definitions whose
comment starts with *For comparison* (or *Mutation*) are wrong variants that the properties must
reject, and nothing else uses them.

## The system and its parts

The library drives a Chromium browser through Playwright. One asyncio event
loop runs nearly everything, so code between two suspensions is atomic; the
audit logger adds real threads.

| part | state it keeps | operations | what is hard about it | what makes it correct |
|---|---|---|---|---|
| **workflow orchestrator** `production/workflow_orchestrator.py` | queue, active jobs, slots per domain, recurring jobs, JSON file | enqueue, dequeue, recurring jobs, run loop (tick), execution with retries, save, load, checkpoint | tasks that sleep in a backoff and wake up late, crashes between steps, torn files | limits hold, no job twice in the queue, outcomes are final, waiting jobs proceed, and survive a crash between saves |
| **anti-block recovery** `recovery/anti_block_orchestrator.py` | circuit breaker per platform, history per site, a context per execution | execute_with_recovery, recover, detect_block | executions interleave at every await, the context outlives its attempt | retries are bounded and end, an open circuit starts nothing, safe mode never rotates, learning follows success |
| **audit logger** `audit/logger.py` | bounded queue, drop counters, hash chain, rotated files | log_action, writer thread, close, rotation, verify | threads, several loggers on one file, failing writes, shutdown | no entry vanishes uncounted, the chain verifies, close ends and flushes |
| **browser lifecycle and pool** `core/agent_browser.py` | teardown mode, page, context, driver; the shared pool's contexts | launch, attach, rotate, close; create and release contexts, shutdown | awaits inside launch, new_page and close, pool lock released before the await | nothing of the user is closed, everything of ours is |
| **rate limiters** `core/rate_limiter.py` | request times per domain, cooldown, tool totals | wait_if_needed, check_and_wait, set_limit | re-check after a sleep while others record | windows never exceed their limit, nobody sleeps for nothing |
| **session directories** `sessions/session_manager.py` | a directory per session with `meta.json` and data, the flags ephemeral, anonymous, compromised | create, clone, prune, clean up | the process dies in a write, a removal leaves a part, sessions are created again under their name | quarantine of a restricted account's data ends by damage or deletion only |
| **cookies** `sessions/cookie_manager.py` | the lists of several managers, the context's cookies, files and bundles under keys | load, save, clear, export, import, rotate keys | copies bound to contexts that are closed by now | what was cleaned out does not come back from a copy, a key rotation loses nothing |
| **proxy manager** `proxy/proxy_manager.py` | configurations, registry, current configuration, health buckets | create, register, select a tier, rotate, record results | configurations are shared objects, registered under names that change | rotating one session leaves the others alone |
| **workflow player and fallback** `workflows/player.py`, `workflows/recovery.py` | completed steps per workflow, the checkpoint and its file, nested executions | execute, load, save, nested workflows, heal, fall back | a death between effect, entry and save; lists that belong to other workflows; answers that are ignored | what resuming skips was done, what is done is not repeated, what is completed is saved |
| **MCP server** `production/mcp_server.py`, `mcp_handlers.py` | sessions by name, the active one, tab ids, the workflow library | the tools: launch, attach, close, navigate, tabs, teach, replay | names beside tables, page addresses that are used again, launches that fail | a call without a name arrives, two open tabs never share an id |
| **policy and approval gate** `production/policy_engine.py`, `approval_gate.py`, `mcp_handlers.py` | the policy, the approval callback | check a step, check a replay in advance | the server checks what it read, the player reads again | nothing reaches the browser that was not permitted |
| **session enforcer** `production/mcp_session_isolation.py` | two tables: owner of a session, session of a context | bind, unbind, take over with a token | takeovers and moves change both tables | the tables agree |
| **dashboard** `production/hermes_dashboard.py` | one shared browser, its profile, recording, execution state | start, stop, restart, operator actions, replay | an await between closing the old browser and making the new one | no browser runs that nobody knows |
| **backend adapters** `production/adapters/` | a server process, its client with lock and ids | launch, call a tool, close | answers after the timeout, servers that die, a launch during a call | each call gets its own answer, once, and ends |
| **workflow recorder** `workflows/recorder.py` | events in groups, the focused element | browser events, `to_steps` | the field of a key is known from an earlier event, or wrongly | what is typed into a field that is named as secret is hidden and nothing else |
| **account health and warming** `core/account_*.py` | events, cooling off; counters of the session | record events, read the score; start and end sessions | checked long before it is counted | the schedule is overrun by a bounded amount |
| **session checkpoints** `core/session_checkpoint.py` | stamped files and a latest file per account | create, save, list, delete, thin out | two writes, names by the second | a reported checkpoint can be read |

Interactions: the player and the MCP handlers call the browser; the browser
runs its operations under the recovery, which calls back into the browser
(relaunch), the proxy manager (rotate) and the session manager (clean up,
create); the workflow orchestrator runs players as its executors; all of them
log through audit loggers. Each browser's recovery opens a logger of the same
name, `recovery`, so several writer threads share a file.

The dashboard drives a browser through an adapter, directly or over a line to an
MCP server process; the MCP server checks a workflow with policy engine and gate
and then has the player execute it; the recorder makes the workflows.

Everything else (behaviour, stealth, detectors, AI hooks, canary, scraping,
metrics, the connection pool, scripts, CLI) is a pure function, I/O, or
randomised data; `PROJECT.json` gives a reason for each.

## The modules

| module | what it is |
|---|---|
| `WorkflowOrchestrator` | the queue, the run loop, the tasks, the file, crashes |
| `WorkflowOrchestratorProofs` | theorems about it |
| `MCWorkflowOrchestrator` | its instances for TLC |
| `AntiBlockRecovery` | executions under the recovery, breaker, history |
| `RetryContract` | what a caller of execute_with_recovery relies on: the abstract specification that `AntiBlockRecovery` implements |
| `AntiBlockRecoveryProofs` | theorems about it |
| `MCAntiBlockRecovery` | its instance for TLC |
| `AuditLogger` | callers, writer threads and the chained file |
| `AuditLoggerProofs` | theorems about it |
| `MCAuditLogger` | its instances for TLC |
| `BrowserLifecycle` | launch, attach, tabs, rotation, close, and the shared pool |
| `BrowserLifecycleProofs` | theorems about it |
| `MCBrowserLifecycle` | its instances for TLC |
| `Navigation` | what holds back `safe_goto` and `safe_click`: limiters, schedule, health |
| `NavigationProofs` | theorems about it |
| `MCNavigation` | its instance for TLC |
| `WorkflowPlayer` | executions of workflows, recovery of their steps, the checkpoint file |
| `WorkflowPlayerProofs` | theorems about it |
| `MCWorkflowPlayer` | its instances for TLC |
| `SessionDirs` | session directories and their flags, deaths in a write |
| `CookieStore` | cookies between context, managers, files and bundles |
| `CheckpointStore` | the checkpoint files of the accounts |
| `ProxyRegistry` | configurations, registry, rotation, health |
| `MCStores` | the four above as the parts of one run |
| `StoresProofs` | theorems about the four and about that run |
| `ReplayGate` | policy, gate, the check of a replay, the player's walk |
| `McpServer` | the server's sessions, tabs and tools, on top of `ReplayGate` |
| `SessionEnforcer` | the two tables |
| `Dashboard` | the shared browser under several handlers |
| `Recorder` | events, groups, focus, redaction, steps |
| `MCServices` | the five above as the parts of one run |
| `ServicesProofs` | theorems about the five, about that run, and about `BackendLink` |
| `BackendLink` | adapter, line and server process |
| `RpcContract` | what a caller of an adapter relies on: the abstract specification that `BackendLink` implements |

### WorkflowOrchestrator

`queue`, `active`, `slots` and `recurring` are `_queue`, the keys of `_active`,
`_domain_active` and `_recurring`. `status` and `retries` are fields of the job
objects; the values `new`, `withdrawn` and `gone` say that an object is not yet
created, was dequeued, or was lost in a crash. `sleepers[j]` counts the
`_execute_job` tasks of `j` in their backoff sleep: a retried object goes back
to the queue first and its task sleeps afterwards, so one object may have
several. `pc`, `pos` and `toFire` are the run loop's place; a tick is a chain of
actions with nothing in between (`Idle` is false). `disk` is the file.

One action is one stretch of code without suspension: `Enqueue`, `Dequeue`,
the calls on recurring jobs, `ClearCompleted`, `SaveCheckpoint`, `Stop`; the
tick `TickBegin`, `Fire`, `ScanBegin`, `Skip`, `Dispatch`, `ScanEnd`; and the
ends of an execution `Succeed`, `Fail`, `Retry`, `BackoffWake`. `Persist` is the
last conjunct of each action whose code ends in `_persist`. `CrashRestart`
kills the process, possibly inside a save (the file is then torn and loads as
empty), and builds a new orchestrator on the same path.

Abstracted: times, which recurring job is due (any subset), names and results,
the lists of finished jobs (an outcome is kept in `status`), and the order of
status fields nothing reads back.

### AntiBlockRecovery

An execution is at one place (`pc`) of `execute_with_recovery` or `recover`.
`turn` is the execution that the event loop runs now; it keeps the turn until a
place where the code really suspends (`calling`, `judging`, `detecting`,
`relaunching`, `backoff`). `ctx` is the one `RecoveryContext` that all attempts
share; `failures` and `open` are the breaker, `stats` and `lastGood` the
history. The mode, light or heavy detection, and which of session manager, proxy
manager and relaunch hook there are (`wired`) are chosen at the start; the parts
that are missing are passed over, as in `recover`.
Exceptions are classes by the patterns that `detect_block` knows, answers are
status classes; what an inspection of the page finds is any verdict the
platform's patterns can give. `Decisions` is a set because the first recorded
of equally good actions wins and a custom strategy may raise.

With a session manager a rotation of the session always fails, because
`create_session` has no parameter `session_name`: `RotateSession` models what the
call does. `Rotate` is the rest: the rotation of the proxy, which may raise, and
the way to relaunch or backoff.

`RetryContract` is the view of the caller: calls in progress, number of calls,
and an end. `KeepsContract` maps `pc` and `attempt` to it.

### AuditLogger

`queue`, `dropped`, `unreported`, `failed`, `shutdown`, `prevHash` and
`signature` are the fields of a logger; `live` and `backup` are the files. An
entry is only "early" or "late", put before or after `close()` began, since no
property needs more. A hash is the number of the line that was hashed; HMAC is
taken to be injective. A signature is the hash of the last line: size and
modification time are taken to tell contents apart. `calls`, `written`,
`marked` and `badMarkers` are history variables.

`Put`, `Refuse`, `RecordDrop` and `Close` belong to callers of any thread: a
caller counts its drop some time after the queue refused it. The writer thread
takes an entry (`Take`, `Empty`), looks for unreported drops (`ReadDrops`),
writes their marker (`WriteMarker`), subtracts them (`Subtract`) and writes the
entry (`WriteEntry`). `WriteLine` is `_write_audit_line` under the lock of the
file: rotation, which may fail between two renames, the choice of the previous
hash, and a write that may fail before the file is opened, leave it empty, or
tear the line. A run starts with no file, a full set of files, or a torn file.

Left out: the human-readable log, redaction, and the deletion of backups older
than the retention period.

### BrowserLifecycle

`obj[a]` holds the attributes of an instance that `close()` and the relaunch
decide from:

| field | attribute | field | attribute |
|---|---|---|---|
| `browser` | `browser` (a context) | `page`, `owns` | `page`, `_owns_page` |
| `owned` | `_owned_pages` | `mode` | `_teardown_mode` |
| `usingPool`, `hasPool` | `_using_pool`, `_pool` | `attached`, `ours` | `_attached`, `_attached_context_is_ours` |
| `pw` | `_pw` | `remote` | `_remote_browser` |
| `atexit` | not unregistered since the last launch or attach | `recovery` | `recovery` and its relaunch hook |

`kind`, `maker`, `tabs` and `running` are the world outside: which contexts are
open, who created them, their pages by role, which drivers run. `pool` is
`_BrowserPool`. A task stops at each await that matters (`task[a][t].at`), with
the locals it uses later: the staged context, the driver that launch has just
started, the mode to swap in. The calls of a caller are sequential (`"main"`);
`"hook"` is a navigation in a task of its own, whose recovery may relaunch the
browser at any later time, so a rotation meets `close()`, a launch or another
rotation half-way. `overlapped` marks an instance to which that happened.

`new_page()` suspends with the context it has read (`NewPage`, `NewPageReturns`);
by the time the page is there the instance may have been rotated or closed. An
attach that cannot open a page tries once more (`tabAgain`).

An awaited Playwright call succeeds or raises (`MaxFaults` of them); one on a
context or driver that is closed by then always raises. A call that the code
wraps in `except: pass` only loses its effect when the thing is gone already.
`RelaunchForgets` stands for the recomputation of region, proxy and persona,
which may raise.

Left out: what pages do, fingerprints, cookies, the session objects, the
loggers, the pool's own driver, and that a context may be closed by the user.

### Navigation

| variable | state |
|---|---|
| `age` | `hour_request_times` of the account's limiter, per site; the minute's list is its young end, `last_request` its last element |
| `toolAge` | `_tool_calls` and `_total_calls` of the `ToolRateLimiter` |
| `limits` | `configs` of the account's limiters |
| `warming`, `health` | the `AccountWarmer`'s session, the `AccountHealth`'s period |
| `task` | where each caller suspends: a limiter's sleep, robots.txt, the navigation or click |
| `requests`, `open` | `_request_count`, whether there is a browser |

A list of times is a list of ages, oldest first; `Tick` makes everything a unit
older. `RateRound` and `ToolRound` are one turn of the limiters' loops: prune,
compute the wait, then sleep or record. They are entered by the call and again
by each wake-up (`RateWake`, `ToolWake`), with no slot reserved in between.
`Gates` is what lies between: the schedule, whose session it starts, the cooling
off, and the limits, which are read once. `Navigated` counts what succeeded.

The score decays exponentially; the model keeps whether there is any event, and
lets a reading find a low score whenever there is one (`ReadHealth`).
Navigations and clicks under the recovery are one step here;
`AntiBlockRecovery` has their insides.

Left out: namespaces, scrolling, the phases (one phase's limits are constants),
the connection pool, whose `should_reuse` is always false because nothing
creates its contexts, and clocks that are set back.

### WorkflowPlayer

| variable | state |
|---|---|
| `frames` | `_checkpoint_frames`: the completed steps of every workflow begun, by name and steps |
| `checkpoint`, `attached` | the frame that `self.checkpoint` is, with the workflow it names; whether `_checkpoint_path` is set |
| `stack` | the activations of `_execute`: the workflow, the step, the set `completed` as it was read (`skip`), the stage of the step (`pc`), the attempts left |
| `file` | the checkpoint file: none, of an earlier version without identity, or what was saved |
| `controller` | no FallbackController, one, or one with an orchestrator |
| `performed`, `claims` | history: effects on the page, steps that count on another's word |
| `synced`, `reentered` | history: the last automatic save succeeded and no root has progressed within another since; the outermost workflow was run once more within itself |

An action goes from one call that leaves the player to the next. `Dispatch`
and `RunWorkflow` begin a step; `Effect` is the page's reaction, which may
come whatever the player hears; `Returns` and `Raises` are the answer.
`Heal`, `ElementNotFound`, `TimedOut`, `Blocked` and `Unblocked` are the two
stages of recovery, whose repetitions are asked of the browser like a first
attempt, and `Complete` is what every way to success shares: the entry in the
list, then `Persist`, which may fail and says nothing. A `NewPlayer` follows a
player that ended or died anywhere, even between effect and entry; only the file
is left, and `LoadCheckpoint` may read it. `Fail` ends an execution and makes the
`run_workflow` step that waits for it raise.

Assumed: a checkpoint is loaded before the first execution. A step may run any
workflow, also one that callers execute themselves (`Root`), and so the outermost
once more (finding 20). `recover()` of the orchestrator is seen from outside here.

Left out: variables and branches; a `conditional` is one step, also where it
contains a `run_workflow`; why a step's text is judged blocked or timed out (any
of the outcomes is possible).

### SessionDirs, CookieStore, CheckpointStore, ProxyRegistry

`dir` is the directory of each session: whether it exists, `meta.json` as the
set of its true flags, missing or torn, and whether the data is that of a
restricted account. A file is emptied when it is opened for writing, so a write
that an error or a death breaks off (`Breaks` in `WriteMeta`; a death in `Write` of
`CookieStore` or `DieSaving` of `CheckpointStore`) leaves it torn: `create_session`
and `clone_session` pass the error on, `cleanup_session` swallows it and goes on to
remove. A removal may leave any part of a directory.

`ctx` is the browser's context with its cookies, `manager` the
`CookieManager` of the `AgentBrowser`, `orch.cms` those of the
`SessionOrchestrator`. A manager has a list and a context that may be closed by
now; `Refreshed` and `Added` say when the context answers. A file is a set of
cookies and the key it was written under. `tainted` is a history variable: what
the clean-up took out and no page, file or bundle has brought back.

A checkpoint in a file is the number of the save that wrote it. A save writes
the stamped file and then the latest one; `reported` is the last save that
returned. The assumption in `CreateCheckpoint` is that a caller saves an
account's checkpoints in the order in which it made them. `crashes[a]` counts
the deaths in saves of `a` since one returned: `ReportedIsRecoverable` is about
none or one. Two in a row can tear both files, the latest one by the first death
and, within the same second, the stamped one by the second.

`proxies` is a heap of `ProxyConfig` objects, `registry` and `current` point
into it, so a change in place (`SelectTier`) is seen by all that share it.

### ReplayGate, McpServer

`Expand` is `_expand_replay_steps`: every step the player could dispatch, with
the variable as the server knows it. It is a recursive function of the depth up
to `MaxNesting`, and `ReplayAssumption` says that the files and arms around a
step are no more than that: the code descends without a limit of its own, and
stops at a file that is already on its path. `Dispatch` is the player's walk over the
same files, which it loads when it comes to them. `SomebodyEdits` changes the
library at any time; `edited` records it. A tool call is one step, because
`run_stdio` answers one request after the other; a replay is many.

A session is the number of its browser, so `_sessions` needs no order of its
own; a tab is known by the address of its page, which `PageOpens` and
`PageCloses` hand out and take back. `ToolCall` is the gate before each tool.
`Approved` is the gate itself: it lets pass the tools of its table that are classed
harmless (`Harmless`), known domains, and otherwise what the callback allows; a step
type outside the table, such as `click`, is never harmless.

### SessionEnforcer, Dashboard, Recorder

`SessionEnforcer` keeps the two tables and who knows a binding's token.

In `Dashboard` a handler stops where it awaits a close, a launch, an action or a
replay (`task`); a close may raise (`CloseRaises`), which ends the call and leaves
the browser where it is. `state` and `runs` are the real browsers, `together` is a
history variable that says two managing calls have overlapped.

In `Recorder` text is represented by the field it was typed into, which is all
that the properties tell apart. `focus` and `named` are the page's side: where
the focus really is, and the field that events have named on this page. The focus
moves without an event at any time, so a key may go to another field than the one
named; `told` in an event keeps what was named by then, for the properties. `Steps`
is `to_steps`, a recursive function over the events that groups anew.

### BackendLink

`proc`, `client`, `ending` and `rejected` are the adapter, `asks`, `kind`, `lock`, `sent`
and `lastId` the callers inside `request` of a client, `input` and `output` the
pipes. Servers are numbered as they are spawned, each with its client and ids.
`Request` takes the id before the lock; `Send`, `Read` and `GivesUp` are the
holder's steps; what is read may be the answer, also an error (`Fails`), or come
from a server of another name, whose process the launch first terminates
(`Rejects`, `RejectionEnds`). `Serve` is a turn of `run_stdio`; `ServeBadly`, `Chatter` and
`Die` are what a server does wrong. `RpcContract` sees the calls only: `Issued`
are the ids that were taken.

## What is checked

| run | instance | what it shows |
|---|---|---|
| `orchestrator` | three jobs (one of them recurring), two domains, one retry, one crash | `TypeOK`, `QueueMatchesStatus`, `SlotsAreCounted` (`TotalLimit`, `NoLeakedSlot`), `RestartIsFaithful`, `OutcomeIsFinal`, `OnlyStaleWakeDrifts` |
| `orchestrator_liveness` | two jobs, one slot, two retries | `WaitingJobsProceed`: a waiting job is finished, withdrawn or lost unless the loop is stopped |
| `orchestrator_domain_limit` | three jobs of one domain with limit one | *violated*: `DomainLimit` |
| `recovery` | two executions of one platform, two attempts, threshold two, all managers or none | `RecoveryInvariant` (`SafeModeNeverRotates`, `ReturnedIsUnblocked`, `LearnedFromSuccess`), `NothingMoreIsTried` (`OpenCircuitDrains`, `FailedRecoveryEnds`), and the refinement `KeepsContract` |
| `audit` | two loggers, three calls and one, queue of one, files of two lines, two backups, two failures | `LossesAreCounted` (`CallsAreAccounted`, `DropsAreReported`), `ChainHolds`, `CloseSettles`, `CloseReturns` |
| `browser` | one instance with three calls of every kind, another with one pooled launch or rotation, two failing calls, shutdowns of the pool | `LifecycleInvariant` (`NothingIsLost`, `DriverRuns`, `HeldIsClosedAtExit`), `CloseKnowsItsContext`, `PoolIsShared` (`OthersKeepTheirContexts`, `PooledLaunchGetsItsMode`) |
| `navigation` | two tasks with three calls and one, two sites, two uses of the rest of the interface | `WindowsHold`, `SleepIsNeeded`, `WarmingOverrunIsBounded` |
| `player` | two players, two executions, two roots, two nested workflows that run each other and of which the lower runs the first root once more, one candidate of healing, two attempts | `DoneWasDone`, `NothingRepeats`, `TopStepsAreSaved` |
| `stores` | two sessions, two cookies, two accounts, two proxy sessions, a broken-off write or a death in each part | `StoresTypeOK`, `OnlyDamageLiftsQuarantine`, `CleanedStaysOut`, `RotationKeepsCookies`, `ReportedIsRecoverable`, `OthersKeepTheirProxy` |
| `services` | two files and three policies; two sessions, three browsers, three addresses; two handlers; three contexts; two fields | `ServicesTypeOK`, `ReplayIsChecked`, `TabsAreDistinct`, `TabKeepsItsId`, `UnnamedCallsArrive`, `TablesAgree`, `AloneNothingIsLost`, `NamedSecretsAreHidden` |
| `link` | two callers, two servers, three requests, one line that is no answer | `LinkInvariant` (`LockIsOrderly`), the refinement `LinkKeepsContract`, `EveryCallEnds` |
| `dashboard_one_browser` | two handlers | *violated*: `OneSharedBrowser` |

The type invariants of the other modules are parts of the invariants above
(`RecoveryInvariant`, `LifecycleInvariant`, `LinkInvariant`) or theorems only
(`NavigationTypeCorrect`, `PlayerTypeCorrect`, `AuditTypesHold`).

`MCStores` and `MCServices` check components that share no state. A behaviour
picks one of them at the start (`part`) and leaves the rest at its initial
state, so the run explores the union of their states and not the product;
nothing is lost, as no property relates two parts. The MCP server has three
parts with bounds of their own: a replay under any library and policy, several
sessions and their tabs without workflows, and one session that teaches, replays
and deletes. The dashboard has two: browsers that come and go under two
handlers, and one browser that is operated, recorded and replayed on.

### Bounds

- Orchestrator: an object can be dispatched, retried, re-dispatched and finished
  while its first task still sleeps; with a second job in the same domain the
  late finally block takes the other's slot. That needs one retry and two jobs;
  the third job and domain exercise the total limit and the priority order. One
  crash reaches every reload, because a restart depends on the file only.
  `RestartIsFaithful` is about jobs that a save has seen (`Settled`): those that an
  enqueue call accepted and retried ones whose backoff is over.
- Recovery: two executions are enough to open the circuit under each other; two
  failures open it, and two attempts retry. With all managers every branch of
  `recover` is taken, with none every test for one fails. Statuses and error classes are the
  representatives of the branches of `detect_block`.
- Audit: a queue of one is full at once, and three calls allow two drops around
  one marker. Files of two lines have a link between lines and rotate; the full
  set of files lets the oldest backup fall out. Two failures meet in every order.

- Browser: three calls are a launch or attach that fails, a second one that
  finds what it left, and a rotation or close; the first instance asks the pool
  for a headed browser and the second for a headless one, so a shutdown between
  two awaits of a launch may hand it the wrong one. A rotation holds two
  contexts at a time; four, and the user's, leave a free identity at every step.
  Contexts and drivers are interchangeable, hence the symmetry.
- Navigation: an hour is two units and a minute one, so a request leaves the
  minute while it fills the hour. Three calls of one task and one of another make
  both sleep for the same slot and wake together; two requests fill the hour.
  The schedule allows one page, so two tasks overrun it. Two uses close and
  launch the browser, or change a limit and read the health, in between.

- Player: the second player resumes what the first left at any point, or begins
  anew; the second execution meets the lists of the first, of the same workflow
  or another. The outermost workflow has steps of each kind around a nested one,
  so the nested list, the save after it and a resume before, within and behind
  it occur; the nested workflows close a cycle, and one through the outermost, which
  is entered once more and meets a list that has grown. Two attempts are a failed and a
  successful repetition; any step may fail at any of them.

- Stores: two sessions clone each other; an error or a death at any one write is
  followed by a restart and every call again. Two keys and a short one are every
  case of `Reads`; one named session beside the cookie file gives three managers.
  Three saves and three seconds make two files of one second and a surplus for
  each `keep`; two accounts whose names do not overlap. (With overlapping names
  one account's clean-up deletes the other's, see finding 29; `GlobMatches` is
  the constant that says so.) Three configurations are one, its rotation and a
  rotation of that, or of another's.
- Services: a nested file, a cycle, both arms of a conditional, a variable with a
  default, and one change of the library during the replay. Three browsers are
  two sessions, one of which is launched again; three addresses are used again
  after one of four pages is gone. Four browsers of the dashboard are two starts
  and two restarts of two handlers. Three contexts are an owner, one that takes
  over and one that got the token passed on. Three events in three ticks of time
  join and split groups in every way.
- Link: a second server is launched while callers wait for the first, or after
  it died; three requests are a late answer, the call it must not reach, and one
  behind them in the lock.

`CHECK_DEADLOCK FALSE` is set where the system may really stop: all jobs are
finished, all executions over, all loggers closed, all calls of the instances
made, the callers of a player have stopped. In `Navigation` time always passes.

### Fairness

- Orchestrator: the event loop resumes what is ready, first in, first out. A
  tick makes ready tasks wait, so the tasks need strong fairness. That an
  executor answers is an assumption: `_execute_job` sets no timeout.
- Link: the event loop resumes a caller that can go on and fires a timer that is
  due (weak fairness on each caller's steps); nothing is asked of the server.
  The lines that are no answers are bounded (`MaxNoise`), and that matters: the
  30 seconds are for one line, so a server that never stops writing log lines
  would hold a caller for ever.
- Recovery: each execution's steps are strongly fair for the same reason. Pages
  answer or raise (their calls have timeouts) and sleeps end; nobody has to
  begin an execution or wait out a cooldown.
- The player has none either: nobody has to start it again after its death.
- Navigation has no liveness property: a limiter promises no turn to a sleeper,
  and with enough callers one may find the slot taken at every wake-up.
- Audit: threads that can run do run (weak fairness). Nobody has to log or to
  close. Calls are bounded: callers that never stop logging would keep the
  final flush, and so `close()`, busy for ever.

## What is proved

`WorkflowOrchestratorProofs`, for any jobs, domains, limits, retries and crashes:

- `TypeCorrect`: `TypeOK`.
- `QueueAgrees`: `QueueMatchesStatus`. It is inductive only with the same fact
  about the file (`SavedOnce`: no job is saved twice), which a reload needs.
- `SlotsAlwaysCounted`: `SlotsAreCounted`, assuming `IdsDistinct`. Its first
  half, `TotalLimitHolds`, rests on `ActiveMatches`: every running job has its
  entry in `_active`, the only thing `_can_run` counts. Without distinct ids two
  jobs share one entry; ids repeat when two recurring jobs fire in one second, or
  a restart resets the counter within one (lines 339 and 369). The second half,
  `NoSlotLeaks`, counts the running jobs of a domain.
- `OnlyStaleWakeEverDrifts`: `OnlyStaleWakeDrifts`. Every step is of one of five
  kinds in what concurrency is counted with (`StepKinds`), and of these only the
  late release takes from a counter and not from the jobs that run.
- `RestartIsAlwaysFaithful` and `OutcomesAreFinal`: `RestartIsFaithful` and
  `OutcomeIsFinal`, from an invariant about the file, `SavedInv`: no job that was
  reported is in it (`NoResurrection`), and unless the path is a directory every
  settled job is (`WaitingJobsAreDurable`). Every step saves, restarts, or leaves
  the file and then neither reports a job nor makes one settled (`SaveKinds`); a
  save lists exactly the queue, which agrees with the statuses. A death inside the
  save empties the file: that is the case the property excepts (`DiedSaving`), and
  it loses every job that waits (finding 5). That a restart resurrects nothing is
  what makes outcomes final.

`AntiBlockRecoveryProofs`, for any executions, platforms, limits, thresholds,
histories and custom strategies, from one inductive invariant `RecoveryInv`:

- `RecoveryIsAlwaysSound`: `RecoveryInvariant`. The strengthening says that the
  page is inspected only for an answer that the signals accept, that a relaunch
  is for a rotated proxy, and that attempts are within their limit.
- `NothingMoreIsEverTried`: `NothingMoreIsTried`, for every interleaving.
- `RecoveryImplementsContract`: every step is one of `RetryContract` or a
  stutter. That executions end is left to TLC (`KeepsContract`).

Each action is summarised once by `Effect`, what it does to places, attempts,
contexts, breaker and history, and the three theorems follow from that.

`AuditLoggerProofs`, for any loggers, capacity, file sizes and failures:

- `LossesAlwaysCounted` (`EveryCallIsAccounted` and `EveryDropIsReported`) and
  `CloseSettlesAll`, from one inductive invariant `EntryInv`: the two sums, where the writer holds an entry
  (`HandMatchesPlace`), that a marker reports no more than is unreported
  (`PendingIsUnreported`), and that after the flush has found the queue empty
  only late entries are in it (`OnlyLateRemain`).
- `TheChainHolds`: `ChainHolds`, from `ChainInv`. `CacheIsFresh` is the heart of it: a
  logger that still recognises the file knows the hash of its last line. A hash
  that was cached without a signature comes from a write that failed, and only a
  second failure can have removed the file since (`StaleHashesAreFaults`); this is
  why one failure is harmless and two are not (finding 6).
- `AuditTypesHold`: `TypeOK`, the types that both invariants keep.

`NavigationProofs`, for any callers, sites, limits, windows and warming phases,
from one inductive invariant `NavigationInv`, the conjunction of three:

- `LimiterInv` gives `WindowsAlwaysHold` and `SleepIsAlwaysNeeded`. It adds that
  the lists are sorted and young, which is why the head of a pruned list is the
  next request to leave its window, and that a sleeper goes by the default
  limits or by those of the moment (`Asked`), one of which admits every recorded
  request; that rests on the model's single alternative to the default. The
  argument is a handful of lemmas on lists: recording a request never shortens a
  wait, and a tick shortens it by one unit at most (`RecordKeeps`, `OlderKeeps`,
  `SiteWaitWhenOlder`).
- `SessionInv` gives `WarmingOverrunAlwaysBounded`. What is counted and what is
  in flight is bounded together: a navigation adds to the second when it passes
  the check, which leaves room for every other caller, and only moves from the
  second to the first when it is counted.
- `RestInv` has the remaining types; `NavigationTypeCorrect` is `TypeOK`.

`WorkflowPlayerProofs`, for any workflows, steps, healings, attempts, players and
executions, from one inductive invariant `PlayerInv`:

- `NestingInv` (below the outermost the activations are distinct, each but the
  innermost waits at the step that runs the next) gives `NestingAlwaysBounded`,
  through an injection from the nested activations to workflows.
- `ProgressInv` gives `NothingEverRepeats`. The list of a workflow is what its
  activation found there and what it has passed; it needs the first part, because
  another activation of the same workflow could add to it. The outermost workflow
  is excepted from the moment it was entered once more (`reentered`, finding 20).
- `CheckpointInv` and `SavedInv` give `TopStepsAlwaysSaved`. While a save is in
  force, the file makes every root begin with no less than the memory does; that
  only roots are compared is what lets nested progress stay unsaved; a root that
  progresses within another ends it until the next save.
- `EveryDoneWasDone` needs all of it: a nested workflow that ends has listed all
  its steps (`ProgressInv`), in a list that the step above does not share.

`CompleteKeeps` is the lemma about a completed step, wherever it stands;
`EnterKeeps` the one about a workflow that begins.

`BrowserLifecycleProofs`, for any instances, contexts, drivers, pools, failures
and shutdowns, from one inductive invariant `LifeInv`:

- `NothingIsEverLost`: `LifecycleInvariant`. `CallOK` says what a call has in its
  hands at each await, and `Hand` that of an instance with at most one task in a
  call everything that is alive is either in its attributes or in the locals of
  that call, and will be closed at exit. With two tasks in calls that is false
  (finding 10), so `Hand` ends when a relaunch overlaps another call.
- `CloseAlwaysKnows`: `CloseKnowsItsContext`, overlapping calls included. `Knows`
  says what the attributes tell of the context; it rests on every call setting
  the mode no later than the context.
- `SharingIsSafe`: `PoolIsShared`. `Apart` says that no two instances hold the
  same context or driver, `PoolOK` that who starts the pool has its lock and that
  a launch which has chosen a pooled browser has one in the mode it asked for.

Each kind of effect (a context opens, contexts close, a driver starts or stops,
the lock changes) has one lemma about what it leaves intact, `Assemble` puts an
instance's parts together, and every action is a short proof from these.

`StoresProofs`, one invariant per store, and `StoresImplementParts`: a behaviour
of the run `stores` is one of each store, so the theorems hold of that run too.

- `QuarantineOfData`: `OnlyDamageLiftsQuarantine` for any sessions and any writes
  that errors or deaths break off. The types are enough: `MadeIsDir` and `WriteMetaEffect` say what each write leaves.
- `CleanedStaysClean` (`CleanedStaysOut`) and `RotationKeepsAll`
  (`RotationKeepsCookies`) for any cookies, keys, files and sessions. With the
  types the first is inductive as it stands: a list that is read again comes from
  the context, which is as clean (`RefreshedEffect`), and what a page, file or
  bundle brings in on purpose is no longer counted as cleared (`BroughtIn`).
- `ReportedStaysRecoverable`: `ReportedIsRecoverable` for any accounts of which
  none's file pattern matches another's files. This hypothesis
  (`NoAccountMatchesAnother`) is needed, see finding 29. `Kept` says where
  the reported checkpoint is: in the latest file or, after one death, in the
  account's newest stamped file, which no clean-up takes; that this is the newest
  by its name needs `CapturedInOrder` and `NoFutureFile`.
- `OthersKeepTheirs`: `OthersKeepTheirProxy` for any proxies, tiers and failures. The
  strengthening is that made-up names number configurations that exist, so a
  rotation's new name is in use nowhere.
- `StoresTypesHold`: `StoresTypeOK`.

`ServicesProofs`. `ServicesAreSafe`, `ServicesKeepTabs` and `ServicesTypesHold` put
the following together for the behaviours of the run `services`.

- `ReplaysAreChecked`: `ReplayIsChecked` for any steps, files, policies and nesting, and
  `ServedReplaysAreChecked`, the same within the server. `StepsAreCovered` says that
  some set of occurrences passes the check, contains all that is inside of
  its members, and covers every step the player still has in its frames. That the
  recursive function behind `Expand` and the one behind `Steps` exist is proved
  from the least number that would contradict it (`Least`).
- `TabsStayDistinct`, `TabsKeepTheirIds`, `CallsWithoutNameArrive`: `TabsAreDistinct`,
  `TabKeepsItsId`, `UnnamedCallsArrive` for any sessions, browsers and addresses.
  `ServerInv` adds that a browser belongs to one session, a page to one browser, and
  that no id is handed out twice, in whatever session.
- `SecretsStayHidden`: `NamedSecretsAreHidden` for any fields, events and moves of the
  focus. What makes it inductive is `ElementIsNamed`: the recorder's focus is the
  field that events have named last, and the element of a group of keys is none or
  that one. Where the page's focus really is, the recorder cannot know (finding 40).
- `TablesAlwaysAgree`: `TablesAgree` for any contexts and sessions. With the types it
  is inductive as it stands: a takeover changes both tables in one step, and an
  unbinding removes only what still points back.
- `AloneNothingIsEverLost`: `AloneNothingIsLost` for any handlers and number of
  browsers. The invariant says, as long as no two managing calls have overlapped,
  that at most one handler is inside one, that it works on the browser of the
  attribute, that a browser which runs or starts is that one, and that one which
  starts is awaited.
- `LinkIsAlwaysOrderly`: `LinkInvariant`, no call is carried out twice, an answer
  is that of the call, and the lock is a queue. `LinkInv` adds what makes it so,
  the order of the ids on their way: those carried out are smaller than those in
  the pipe, which grow from head to tail and are smaller than those of callers
  that have not written yet; nobody but the head of the lock has written.
- `LinkImplementsContract`: every step is one of `RpcContract` or a stutter. Per
  step `Effect` gives the ids issued, carried out and answered; that the server
  carries out only what was asked and is not yet done needs `LinkInv`.

Model-checked only is liveness, which is out of the prover's reach:
`WaitingJobsProceed`, `CloseReturns`, `EveryCallEnds`, and that an execution ends
(`KeepsContract` has it from `RetryContract`). Every other property of the runs
that pass is a theorem.

## What the checks found

Line numbers are in `PROJECT.json` under `findings`, in the same order. Two of
them are refuted by a run of their own; the others were met while modelling, and
the models do what the code does.

Orchestrator and recovery:

1. A task that slept in its backoff runs its finally block on the object's
   current status: if the object was re-dispatched and finished meanwhile, it
   releases a slot that another job holds, and a domain exceeds its limit
   (run `orchestrator_domain_limit`; `tests/test_workflow_orchestrator.py:174`).
2. `last_error` survives its attempt, and a later good answer is judged blocked
   (`tests/test_e2e_anti_block_recovery.py:177`).
3. Session rotation calls `create_session` with a keyword it does not have, so
   it never succeeds.
4. An exception that no pattern knows resets the breaker's count, in a branch
   whose comment says it is the success path.
5. A save opens the only file for writing in place: a death in it leaves a torn
   file, which is taken for none, and every waiting job is lost. Jobs that run,
   that a recurring entry spawned or that were just retried are in no file until
   another call saves (`workflow_orchestrator.py:295`; `CHANGELOG.md:351`).
   `RestartIsFaithful` names the torn file as its exception.

Audit log:

6. The cached hash is stored before a write can fail and the signature after
   it. If a logger's first write fails, another logger rotates the file and its
   write fails too, both signatures are "no file" and the next line points into
   the rotated file: the new file does not verify. `ChainHolds` excepts runs in
   which two failures have happened from the clause on a file's first line.
7. An audit entry put after the writer's last look is neither written nor
   counted (the comment at `audit/logger.py:107`).

Browser and navigation:

8. `switch_region(relaunch=True)` on an attached instance closes the user's page
   and context (`docs/ATTACH_OVER_CDP.md:131`).
9. Pages that `new_page()` opened in an adopted context stay open after
   `close()`, except the current one; so does the page of an attach that fails
   after it (`docs/ATTACH_OVER_CDP.md:129`).
10. A rotation in another task that overlaps `close()` swaps its browser in after
   `close()` has returned, and nothing closes it. `NothingIsLost`,
   `HeldIsClosedAtExit` and `DriverRuns` speak of instances without overlap.
11. A pooled rotation asks the pool for no mode and may get another one than
    the launch did; `PooledLaunchGetsItsMode` speaks of `launch()`.
12. `set_rate_limit` without an account configures a limiter that the navigations
    of a named instance do not use.
13. Nothing starts a cooling off: reading the score would, and nothing reads it.
14. The saved schedule is never loaded, so a new process has none.
15. The schedule and the cooling off are checked before the limiter's sleep and
    not after it (`WarmingOverrunIsBounded` says by how much it is overrun).
16. The bonus after a cooling off lasts for one reading of the score.

Player:

17. The answer of `recover()` is dropped, and the step that failed counts as
    recovered (`workflows/recovery.py:298` and `:333`).
18. A player that was not resumed saves nothing by itself, so a first run that
    dies leaves nothing to resume (`workflows/player.py:219`).
19. A list belongs to a workflow's name and steps: running the same nested
    workflow twice, or executing a workflow again, skips every step and reports
    success (`workflows/player.py:273`).
20. The search for cycles does not know the outermost workflow, which may be
    entered once more from within; the outer execution has read its list by then.
    `NothingRepeats` and `NestingIsBounded` except this case.
21. `safe_goto`, `safe_click` and `safe_type` report failure by returning
    `False`; the step counts as completed all the same.

Dashboard, proxies, sessions, cookies, checkpoints:

22. `start()` awaits the close of the old browser before it makes the new one:
    of two starts that overlap, the browser of one is lost while it runs
    (run `dashboard_one_browser`).
23. A rotated proxy is registered under its generated name only; the session it
    was made for has none afterwards. `OthersKeepTheirProxy` is about the others.
24. `prune_ephemeral` deletes directories that are in use, and nothing prunes
    when a browser closes.
25. A torn `meta.json` ends a quarantine (the "damage" of
    `OnlyDamageLiftsQuarantine`), and a clone of a quarantined session has none.
26. `export_session_bundle` leaves out the cookies of the session's manager and
    takes those of a context that nothing binds.
27. A death in `rotate_encryption_key` leaves the only copy torn.
    `RotationKeepsCookies` speaks of rotations that are not interrupted.
28. `cleanup_compromised_session` reports "cleaned" also when the context could
    not be cleared.
29. The pattern `<account>_*.json` matches checkpoints of other accounts, and the
    clean-up of one deletes those of another.

MCP server and gate:

30. An approval that was given is not looked up: a repeated request is pending
    again.
31. A launch that fails after it closed the old session of that name leaves the
    active name without a session. `UnnamedCallsArrive` says that nothing else
    keeps a call without a name from reaching an open session.
32. A tab of a page that took a closed page's address gets the old tab's id.
    `TabsAreDistinct` is about tabs that are open together.
33. A line with a JSON value that is no object ends the server's loop.
34. `stealth_load_cookies` advertises a parameter that its validator refuses.

Adapters, enforcer, recorder:

35. The adapter starts the server with options that its parser does not know
    and never calls `stealth_launch`.
36. A line of more than 64 KB fails in the stream reader, before the limit of
    16 MB that the adapter checks.
37. A takeover removes the previous owner's mapping also when it points to
    another session by now. `TablesAgree` is about contexts that never gave
    their place up with `unbind_context`.
38. Keys that a navigation follows directly have no step.
39. Keys are grouped by time: text typed into two fields at once becomes one
    step, and is wholly hidden if one of them is a password.
40. A key without element information goes to the element named last: after a
    click on the user name, a Tab into the password field and bare
    `Input.insertText` events, the password is recorded in clear
    (`workflows/recorder.py:374`). `NamedSecretsAreHidden` is about the field
    that events have named.

## Not modelled, and what comes next

Not modelled, because they keep no state that several steps could break, or only
random data and I/O: behaviour, stealth scripts and fingerprints, the detectors,
the AI hooks, schema validation and selectors, the canary, scraping, LinkedIn,
plugins, the CLI and the web routes of the dashboard (its state is modelled),
metrics and profiler, the connection pool (nothing puts a context into it).

Modelled only in part, with what is missing: `BrowserLifecycle` (what pages do),
`Navigation` (scrolling, typing, warming phases), `WorkflowPlayer` (variables and
branches, which `ReplayGate` has), `McpServer` (tools that only pass on a call).

No safety property of a run is left without a theorem. Next are the parts that
are modelled in part:

1. Variables and branches in `WorkflowPlayer`, so that one module has the player
   of both `ReplayGate` and the checkpoint.
2. The warming phases of `Navigation`: one phase's limits are constants.
3. Two contexts of one `BrowserLifecycle` instance after an overlap: which of them
   is lost (finding 10) is said by no property.
