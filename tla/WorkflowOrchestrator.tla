------------------------ MODULE WorkflowOrchestrator ------------------------
(***************************************************************************)
(* The workflow queue of production/workflow_orchestrator.py: a priority   *)
(* queue of jobs, per-domain and total concurrency limits, retries with a  *)
(* backoff sleep, recurring jobs, and a JSON file that survives restarts.  *)
(*                                                                         *)
(* One asyncio event loop runs everything.  A coroutine gives up control   *)
(* only where it really suspends: in the executor, in a backoff sleep and  *)
(* in the run loop's sleep.  The asyncio.Lock is never contended, because  *)
(* nothing suspends while it is held, so each stretch of code between two  *)
(* suspensions is one action; the run loop's tick, which iterates, is a    *)
(* sequence of actions that nothing interleaves with (Idle is false).      *)
(***************************************************************************)
EXTENDS Integers, Sequences, FiniteSets, SequencesExt

CONSTANTS
  Job,          \* the QueueJob objects that may be created
  Recurring,    \* the RecurringJob objects that may be scheduled
  Domain,       \* site domains
  Caller,       \* who creates a job that no recurring job spawns
  DomainOf,     \* the job's domain
  PriorityOf,   \* the job's priority
  IdOf,         \* the job's job_id; two objects may carry the same one
  SpawnedBy,    \* the recurring job that spawns it, or Caller
  MaxTotal,     \* max_concurrent_total
  Limit,        \* domain_concurrency, "default" already applied
  MaxRetries,   \* max_retries
  MaxCrashes    \* bound: how often the process is killed

ASSUME ConstantsAssumption ==
  /\ IsFiniteSet(Job)
  /\ Caller \notin Recurring
  /\ DomainOf \in [Job -> Domain]
  /\ PriorityOf \in [Job -> Int]
  /\ SpawnedBy \in [Job -> Recurring \cup {Caller}]
  /\ MaxTotal \in Nat \ {0}
  /\ Limit \in [Domain -> Nat \ {0}]
  /\ MaxRetries \in Nat
  /\ MaxCrashes \in Nat

VARIABLES
  queue,         \* _queue, a sequence of jobs
  active,        \* keys of _active, a dictionary from job_id
  slots,         \* _domain_active
  status,        \* the job's status; "new", "withdrawn", "gone" are not in the code
  retries,       \* the job's retries
  sleepers,      \* how many _execute_job tasks of the job are in backoff sleep
  recurring,     \* _recurring and each entry's enabled flag
  loopOn,        \* _running
  pc,            \* where the run loop is
  pos,           \* position of the dispatch scan in the queue
  toFire,        \* recurring jobs found due by this tick and not yet fired
  disk,          \* what is at persistence_path
  crashes        \* bound: process kills so far

memory == <<queue, active, slots, status, retries, sleepers, recurring>>
loop == <<loopOn, pc, pos, toFire>>
vars == <<memory, loop, disk, crashes>>

Terminal == {"completed", "failed"}
Running == {j \in Job : status[j] = "active"}
RunningIn(d) == {j \in Running : DomainOf[j] = d}

(***************************************************************************)
(* job_id values are unique (see the README for when they are not).        *)
(***************************************************************************)
IdsDistinct == \A i, j \in Job : IdOf[i] = IdOf[j] => i = j

(***************************************************************************)
(* Every coroutine is suspended: the event loop may resume any of them.    *)
(***************************************************************************)
Idle == pc \in {"stopped", "asleep"}

-----------------------------------------------------------------------------
(***************************************************************************)
(* Helpers.                                                                *)
(***************************************************************************)

\* Where append followed by the stable sort on decreasing priority puts j in
\* a queue that is sorted already: after every job of its priority or more.
Place(q, j) ==
  1 + Cardinality({i \in DOMAIN q : PriorityOf[q[i]] >= PriorityOf[j]})

Insert(q, j) == InsertAt(q, Place(q, j), j)

CanRun(d) == Cardinality(active) < MaxTotal /\ slots[d] < Limit[d]

\* Mutation: the counter is decremented without looking at it.
ReleaseUnchecked(s, d) == [s EXCEPT ![d] = @ - 1]

Release(s, d) == IF s[d] > 0 THEN [s EXCEPT ![d] = @ - 1] ELSE s

NoFile == [kind |-> "absent", queue |-> <<>>,
           recurring |-> [r \in Recurring |-> "absent"]]

\* The JSON document _persist writes: the waiting jobs and the recurring ones.
Snapshot(q, n, rec) ==
  [kind |-> "file",
   queue |-> [i \in DOMAIN q |-> [job |-> q[i], retries |-> n[q[i]]]],
   recurring |-> rec]

\* _persist after the assignments of the same action.  open(path, "w") raises
\* when path is a directory, and the caller's other effects stay.
Persist ==
  disk' = IF disk.kind = "dir" THEN disk
                               ELSE Snapshot(queue', retries', recurring')

-----------------------------------------------------------------------------
Init ==
  /\ queue = <<>>
  /\ active = {}
  /\ slots = [d \in Domain |-> 0]
  /\ status = [j \in Job |-> "new"]
  /\ retries = [j \in Job |-> 0]
  /\ sleepers = [j \in Job |-> 0]
  /\ recurring = [r \in Recurring |-> "new"]
  /\ loopOn = FALSE /\ pc = "stopped" /\ pos = 1 /\ toFire = {}
  /\ disk = NoFile
  /\ crashes = 0

-----------------------------------------------------------------------------
(***************************************************************************)
(* Calls of the user of the class.                                         *)
(***************************************************************************)

Enqueue(j) ==
  /\ Idle
  /\ status[j] = "new" /\ SpawnedBy[j] = Caller
  /\ queue' = Insert(queue, j)
  /\ status' = [status EXCEPT ![j] = "queued"]
  /\ UNCHANGED <<active, slots, retries, sleepers, recurring, loop, crashes>>
  /\ Persist

\* dequeue(job_id) takes the first job with that id; dequeue() takes the
\* head, which is the first with its id.  Nothing is saved.
Dequeue(i) ==
  /\ Idle
  /\ \A k \in 1..i-1 : IdOf[queue[k]] # IdOf[queue[i]]
  /\ queue' = RemoveAt(queue, i)
  /\ status' = [status EXCEPT ![queue[i]] = "withdrawn"]
  /\ UNCHANGED <<active, slots, retries, sleepers, recurring, loop, disk, crashes>>

ScheduleRecurring(r) ==
  /\ Idle
  /\ recurring[r] = "new"
  /\ recurring' = [recurring EXCEPT ![r] = "enabled"]
  /\ UNCHANGED <<queue, active, slots, status, retries, sleepers, loop, crashes>>
  /\ Persist

EnableRecurring(r, enabled) ==
  /\ Idle
  /\ recurring[r] \in {"enabled", "disabled"}
  /\ recurring' = [recurring EXCEPT ![r] = IF enabled THEN "enabled" ELSE "disabled"]
  /\ UNCHANGED <<queue, active, slots, status, retries, sleepers, loop, crashes>>
  /\ Persist

RemoveRecurring(r) ==
  /\ Idle
  /\ recurring[r] \in {"enabled", "disabled"}
  /\ recurring' = [recurring EXCEPT ![r] = "absent"]
  /\ UNCHANGED <<queue, active, slots, status, retries, sleepers, loop, crashes>>
  /\ Persist

\* The lists of finished jobs are read only by status() and get_job(); a job's
\* outcome is kept in status, and trimming the lists leaves the save.
ClearCompleted ==
  /\ Idle
  /\ UNCHANGED <<memory, loop, crashes>>
  /\ Persist

\* save_checkpoint creates persistence_path as a directory when nothing is
\* there yet; when the queue's file is there, mkdir raises and nothing changes.
SaveCheckpoint ==
  /\ Idle
  /\ disk.kind = "absent"
  /\ disk' = [disk EXCEPT !.kind = "dir"]
  /\ UNCHANGED <<memory, loop, crashes>>

Stop ==
  /\ Idle
  /\ loopOn' = FALSE
  /\ UNCHANGED <<memory, pc, pos, toFire, crashes>>
  /\ Persist

-----------------------------------------------------------------------------
(***************************************************************************)
(* The run loop: _tick_recurring, then _tick_queue, then sleep.            *)
(***************************************************************************)

\* Bound: a recurring job fires only while it has a job object left to spawn.
Spawnable(r) == {j \in Job : SpawnedBy[j] = r /\ status[j] = "new"}

\* Which enabled jobs are due is up to the clock.
Due == {r \in Recurring : recurring[r] = "enabled" /\ Spawnable(r) # {}}

\* run() reaches its first tick before anything else gets a turn.
StartLoop ==
  /\ pc = "stopped"
  /\ loopOn' = TRUE
  /\ toFire' \in SUBSET Due
  /\ pc' = "recurring"
  /\ UNCHANGED <<memory, pos, disk, crashes>>

TickBegin ==
  /\ pc = "asleep" /\ loopOn
  /\ toFire' \in SUBSET Due
  /\ pc' = "recurring"
  /\ UNCHANGED <<memory, loopOn, pos, disk, crashes>>

Fire(r, j) ==
  /\ pc = "recurring"
  /\ r \in toFire
  /\ j \in Spawnable(r)
  /\ queue' = Insert(queue, j)
  /\ status' = [status EXCEPT ![j] = "queued"]
  /\ toFire' = toFire \ {r}
  /\ UNCHANGED <<active, slots, retries, sleepers, recurring, loopOn, pc, pos, disk, crashes>>

ScanBegin ==
  /\ pc = "recurring"
  /\ toFire = {}
  /\ pc' = "queue"
  /\ pos' = 1
  /\ UNCHANGED <<memory, loopOn, toFire, disk, crashes>>

\* Mutation: a job that cannot run now is dropped instead of skipped over.
SkipDrops ==
  /\ pc = "queue" /\ pos <= Len(queue)
  /\ ~CanRun(DomainOf[queue[pos]])
  /\ queue' = RemoveAt(queue, pos)
  /\ UNCHANGED <<active, slots, status, retries, sleepers, recurring, loop, disk, crashes>>

Skip ==
  /\ pc = "queue" /\ pos <= Len(queue)
  /\ ~CanRun(DomainOf[queue[pos]])
  /\ pos' = pos + 1
  /\ UNCHANGED <<memory, loopOn, pc, toFire, disk, crashes>>

\* The job leaves the queue, so the next one of the snapshot is now at pos.
Dispatch ==
  /\ pc = "queue" /\ pos <= Len(queue)
  /\ LET j == queue[pos]
     IN  /\ CanRun(DomainOf[j])
         /\ slots' = [slots EXCEPT ![DomainOf[j]] = @ + 1]
         /\ status' = [status EXCEPT ![j] = "active"]
         /\ active' = active \cup {IdOf[j]}
  /\ queue' = RemoveAt(queue, pos)
  /\ UNCHANGED <<retries, sleepers, recurring, loop, disk, crashes>>

ScanEnd ==
  /\ pc = "queue" /\ pos > Len(queue)
  /\ pc' = "asleep"
  /\ pos' = 1
  /\ UNCHANGED <<memory, loopOn, toFire, disk, crashes>>

LoopExit ==
  /\ pc = "asleep" /\ ~loopOn
  /\ pc' = "stopped"
  /\ UNCHANGED <<memory, loopOn, pos, toFire, disk, crashes>>

-----------------------------------------------------------------------------
(***************************************************************************)
(* _execute_job: what follows the executor's answer.                       *)
(***************************************************************************)

\* Mutation: the slot comes back, the entry of _active stays.
EndRunKeepsActive(j) ==
  /\ active' = active
  /\ slots' = Release(slots, DomainOf[j])

\* The finally block of a job that is over.
EndRun(j) ==
  /\ active' = active \ {IdOf[j]}
  /\ slots' = Release(slots, DomainOf[j])

\* Mutation: the outcome is not saved.
SucceedUnsaved(j) ==
  /\ Idle
  /\ status[j] = "active"
  /\ status' = [status EXCEPT ![j] = "completed"]
  /\ EndRun(j)
  /\ UNCHANGED <<queue, retries, sleepers, recurring, loop, disk, crashes>>

Succeed(j) ==
  /\ Idle
  /\ status[j] = "active"
  /\ status' = [status EXCEPT ![j] = "completed"]
  /\ EndRun(j)
  /\ UNCHANGED <<queue, retries, sleepers, recurring, loop, crashes>>
  /\ Persist

\* The executor reports a failure with no retry left, or raises at any time.
Fail(j) ==
  /\ Idle
  /\ status[j] = "active"
  /\ status' = [status EXCEPT ![j] = "failed"]
  /\ EndRun(j)
  /\ UNCHANGED <<queue, retries, sleepers, recurring, loop, crashes>>
  /\ Persist

\* Mutation: the retry keeps its slot.
RetryKeepsSlot(j) ==
  /\ Idle
  /\ status[j] = "active" /\ retries[j] < MaxRetries
  /\ retries' = [retries EXCEPT ![j] = @ + 1]
  /\ status' = [status EXCEPT ![j] = "queued"]
  /\ queue' = Insert(queue, j)
  /\ active' = active \ {IdOf[j]}
  /\ sleepers' = [sleepers EXCEPT ![j] = @ + 1]
  /\ UNCHANGED <<slots, recurring, loop, disk, crashes>>

\* Mutation: the slot is given back here and again by the finally block.
RetryReleasesTwice(j) ==
  /\ Idle
  /\ status[j] = "active" /\ retries[j] < MaxRetries
  /\ retries' = [retries EXCEPT ![j] = @ + 1]
  /\ status' = [status EXCEPT ![j] = "queued"]
  /\ queue' = Insert(queue, j)
  /\ active' = active \ {IdOf[j]}
  /\ slots' = Release(Release(slots, DomainOf[j]), DomainOf[j])
  /\ sleepers' = [sleepers EXCEPT ![j] = @ + 1]
  /\ UNCHANGED <<recurring, loop, disk, crashes>>

\* The executor reports a failure and a retry is left: the same object goes
\* back to the queue at once, and only then does this task sleep.
Retry(j) ==
  /\ Idle
  /\ status[j] = "active" /\ retries[j] < MaxRetries
  /\ retries' = [retries EXCEPT ![j] = @ + 1]
  /\ status' = [status EXCEPT ![j] = "queued"]
  /\ queue' = Insert(queue, j)
  /\ EndRun(j)
  /\ sleepers' = [sleepers EXCEPT ![j] = @ + 1]
  /\ UNCHANGED <<recurring, loop, disk, crashes>>

\* Mutation: the task requeues the job after the sleep, whatever became of it.
BackoffWakeRequeues(j) ==
  /\ Idle
  /\ sleepers[j] > 0
  /\ sleepers' = [sleepers EXCEPT ![j] = @ - 1]
  /\ queue' = IF status[j] = "queued" THEN queue ELSE Insert(queue, j)
  /\ status' = [status EXCEPT ![j] = "queued"]
  /\ UNCHANGED <<active, slots, retries, recurring, loop, crashes>>
  /\ Persist

\* The task that slept runs its finally block, which looks at the status the
\* object has now, not at the one this task left it with.
BackoffWake(j) ==
  /\ Idle
  /\ sleepers[j] > 0
  /\ sleepers' = [sleepers EXCEPT ![j] = @ - 1]
  /\ IF status[j] \in Terminal THEN EndRun(j) ELSE UNCHANGED <<active, slots>>
  /\ UNCHANGED <<queue, status, retries, recurring, loop, crashes>>
  /\ Persist

-----------------------------------------------------------------------------
(***************************************************************************)
(* The process is killed at any moment and a new one is built on the same  *)
(* path.  Killed inside _persist (stop() may be called, hence _persist run,*)
(* whenever Idle) it leaves a torn file, which _load_state reads as empty. *)
(* On a directory _load_state raises, and there is no orchestrator.        *)
(***************************************************************************)

LoadedRetries(saved) ==
  [j \in Job |-> IF \E i \in DOMAIN saved : saved[i].job = j
                 THEN saved[CHOOSE i \in DOMAIN saved : saved[i].job = j].retries
                 ELSE 0]

LoadedStatus(saved) ==
  [j \in Job |-> IF \E i \in DOMAIN saved : saved[i].job = j THEN "queued"
                 ELSE IF status[j] \in Terminal \cup {"new"} THEN status[j]
                 ELSE "gone"]

LoadedRecurring(saved) ==
  [r \in Recurring |-> IF saved[r] \in {"enabled", "disabled"} THEN saved[r]
                       ELSE IF recurring[r] = "new" THEN "new" ELSE "absent"]

CrashRestart(torn) ==
  /\ crashes < MaxCrashes /\ pc # "down"
  /\ crashes' = crashes + 1
  /\ disk' = IF torn /\ disk.kind # "dir" THEN [NoFile EXCEPT !.kind = "file"] ELSE disk
  /\ queue' = [i \in DOMAIN disk'.queue |-> disk'.queue[i].job]
  /\ status' = LoadedStatus(disk'.queue)
  /\ retries' = LoadedRetries(disk'.queue)
  /\ recurring' = LoadedRecurring(disk'.recurring)
  /\ active' = {}
  /\ slots' = [d \in Domain |-> 0]
  /\ sleepers' = [j \in Job |-> 0]
  /\ loopOn' = FALSE /\ pos' = 1 /\ toFire' = {}
  /\ pc' = IF disk.kind = "dir" THEN "down" ELSE "stopped"

-----------------------------------------------------------------------------
Next ==
  \/ \E j \in Job :
       \/ Enqueue(j)
       \/ \E r \in Recurring : Fire(r, j)
       \/ Succeed(j)
       \/ Fail(j)
       \/ Retry(j)
       \/ BackoffWake(j)
  \/ \E i \in 1..Len(queue) : Dequeue(i)
  \/ \E r \in Recurring :
       \/ ScheduleRecurring(r)
       \/ RemoveRecurring(r)
       \/ \E enabled \in BOOLEAN : EnableRecurring(r, enabled)
  \/ ClearCompleted \/ SaveCheckpoint
  \/ StartLoop \/ Stop
  \/ TickBegin \/ ScanBegin \/ Skip \/ Dispatch \/ ScanEnd \/ LoopExit
  \/ \E torn \in BOOLEAN : CrashRestart(torn)

Spec == Init /\ [][Next]_vars

(***************************************************************************)
(* The event loop resumes what is ready: the run loop after its sleep, a   *)
(* task after its backoff.  Its ready queue is first in, first out, so a   *)
(* task that is ready whenever the loop is between two ticks gets its turn *)
(* although a tick makes it wait: strong fairness.  That the executor      *)
(* answers is an assumption on the caller's code: _execute_job puts no     *)
(* timeout on it.                                                          *)
(***************************************************************************)
Fairness ==
  /\ WF_vars(TickBegin \/ ScanBegin \/ Skip \/ Dispatch \/ ScanEnd
             \/ \E r \in Recurring, j \in Job : Fire(r, j))
  /\ \A j \in Job :
       /\ SF_vars(Succeed(j) \/ Fail(j) \/ Retry(j))
       /\ SF_vars(BackoffWake(j))

FairSpec == Spec /\ Fairness

-----------------------------------------------------------------------------
(***************************************************************************)
(* Properties.                                                             *)
(***************************************************************************)

Status == {"new", "queued", "active", "completed", "failed", "withdrawn", "gone"}
RecurringState == {"new", "enabled", "disabled", "absent"}
SavedJob == [job : Job, retries : 0..MaxRetries]
SavedState == [kind : {"absent", "file", "dir"}, queue : Seq(SavedJob),
               recurring : [Recurring -> RecurringState]]

\* Every variable has its type.
TypeOK ==
  /\ queue \in Seq(Job)
  /\ active \subseteq {IdOf[j] : j \in Job}
  /\ slots \in [Domain -> Nat]
  /\ status \in [Job -> Status]
  /\ retries \in [Job -> 0..MaxRetries]
  /\ sleepers \in [Job -> Nat]
  /\ recurring \in [Recurring -> RecurringState]
  /\ loopOn \in BOOLEAN
  /\ pc \in {"stopped", "asleep", "recurring", "queue", "down"}
  /\ pos \in Nat \ {0}
  /\ toFire \subseteq Recurring
  /\ disk \in SavedState
  /\ crashes \in 0..MaxCrashes

\* A job waits in exactly one place of the queue, and only while its status
\* says so: a retried object is never queued and executing at once, although
\* an older task of the same object may still be asleep.
QueueMatchesStatus ==
  /\ \A i, k \in 1..Len(queue) : queue[i] = queue[k] => i = k
  /\ \A j \in Job : status[j] = "queued" <=> j \in ToSet(queue)

\* No more than max_concurrent_total executors run at once, although stale
\* finally blocks remove entries of _active late (_can_run counts _active).
TotalLimit == Cardinality(Running) <= MaxTotal

\* A domain's counter never exceeds the jobs that really run in it: no path
\* through retries and late wake-ups leaks a slot for good.
NoLeakedSlot == \A d \in Domain : slots[d] <= Cardinality(RunningIn(d))

\* Whatever retries, late wake-ups and crashes do, the slots taken are those of
\* jobs that run, and no more of them than allowed.
SlotsAreCounted == TotalLimit /\ NoLeakedSlot

\* Jobs that wait and that a save has seen: those that an enqueue call accepted,
\* and retried ones whose task is through its backoff, which ends in a save.
\* A job that a recurring entry has spawned is not saved, nor is one that has
\* just been retried, until something else saves.
Settled(j) == /\ status[j] = "queued" /\ sleepers[j] = 0
              /\ SpawnedBy[j] = Caller \/ retries[j] # 0

\* A death inside a save leaves a torn file in the place of the one before.
DiedSaving == crashes' # crashes /\ disk' # disk

\* A restart never brings back a job whose outcome was reported. It brings back
\* every settled job, with the retries it had used up, in two cases not: a death
\* inside the save itself empties the file and loses every job that waits, and
\* save_checkpoint may have turned the path into a directory.
RestartIsFaithful ==
  [][crashes' # crashes =>
       \A j \in Job :
         /\ status'[j] = "queued" => status[j] \notin Terminal
         /\ Settled(j) => \/ status'[j] = "queued" /\ retries'[j] = retries[j]
                          \/ DiedSaving \/ disk.kind = "dir"]_vars

\* An outcome is final: nothing runs, requeues or reloads a finished job.
OutcomeIsFinal ==
  [][\A j \in Job : status[j] \in Terminal => status'[j] = status[j]]_vars

\* Outside a late wake-up no step makes a domain's counter fall below the
\* number of jobs running there by more than it already did.
Drift(d) == Cardinality(RunningIn(d)) - slots[d]
OnlyStaleWakeDrifts ==
  [][(\E d \in Domain : Drift(d)' > Drift(d)) => \E j \in Job : BackoffWake(j)]_vars

\* A waiting job is eventually finished, withdrawn or lost to a crash, unless
\* the loop is stopped: no slot and no entry of _active stays taken for ever.
WaitingJobsProceed ==
  \A j \in Job : status[j] = "queued" ~>
                   (status[j] \in Terminal \cup {"withdrawn", "gone"} \/ ~loopOn)

\* What tests/test_workflow_orchestrator.py:174 asserts of domain_concurrency:
\* never more executors running for a domain than its limit.
DomainLimit == \A d \in Domain : Cardinality(RunningIn(d)) <= Limit[d]

=============================================================================
