----------------------------- MODULE AuditLogger -----------------------------
(***************************************************************************)
(* audit/logger.py: callers put audit entries into a bounded queue and     *)
(* never wait; one writer thread per logger appends them to a JSONL file   *)
(* in which every line holds the hash of the line before it.  Entries that *)
(* do not fit are counted, and a marker line reports them later.           *)
(*                                                                         *)
(* The loggers of one session name (every AntiBlockOrchestrator opens the  *)
(* session "recovery") share one file, guarded by one lock per path.  What *)
(* is done under a lock is one step.  A line is its place in the chain:    *)
(* the n-th line that is hashed has hash n, and 0 is the genesis hash.     *)
(***************************************************************************)
EXTENDS Integers, Sequences, SequencesExt

CONSTANTS
  Logger,     \* AuditLogger instances on the file
  Capacity,   \* maxsize of _audit_queue
  MaxLines,   \* AGENTIC_AUDIT_MAX_BYTES, in lines
  Backups,    \* AGENTIC_AUDIT_BACKUP_COUNT; 0 behaves like 1
  MaxCalls,   \* bound: calls of log_action, for each logger
  MaxFaults,  \* bound: file operations that fail
  Unknown     \* no hash is cached; no file

ASSUME ConstantsAssumption ==
  /\ Capacity \in Nat \ {0}
  /\ MaxLines \in Nat \ {0}
  /\ Backups \in Nat \ {0}
  /\ MaxCalls \in [Logger -> Nat]
  /\ MaxFaults \in Nat
  /\ Unknown \notin Nat
  /\ Unknown \notin Seq([prev : Nat, hash : Nat, whole : BOOLEAN, ended : BOOLEAN])

VARIABLES
  calls,      \* history: how often log_action was called
  queue,      \* _audit_queue; an entry is "early" if it was put before close()
  refused,    \* callers that met a full queue and have not counted it yet
  dropped,    \* dropped_audit_entries
  unreported, \* _unreported_drops
  failed,     \* failed_audit_writes
  shutdown,   \* _shutdown is set
  pc,         \* where the writer thread is
  hand,       \* the entry that it holds, or "none"
  pending,    \* the drops that its marker reports
  prevHash,   \* _prev_hash
  signature,  \* _audit_tail_signature
  live,       \* the lines of audit_file, or Unknown
  backup,     \* the lines of audit_file.1 to audit_file.<Backups>
  hashes,     \* how many lines were hashed: the next one's hash is new
  written,    \* history: entries that were written
  marked,     \* history: drops that the written markers report
  badMarkers, \* history: markers that could not be written
  faults      \* bound: failures so far

callers == <<calls, refused, dropped>>
thread == <<shutdown, pc, hand, pending>>
chain == <<prevHash, signature, live, backup, hashes, faults>>
tally == <<written, marked, badMarkers>>
vars == <<callers, queue, unreported, failed, thread, chain, tally>>

-----------------------------------------------------------------------------
(***************************************************************************)
(* The file.                                                               *)
(***************************************************************************)

Line(prev, hash, whole, ended) ==
  [prev |-> prev, hash |-> hash, whole |-> whole, ended |-> ended]

\* size and mtime_ns tell any two contents of the file apart.
Signature(file) ==
  IF file = Unknown THEN Unknown ELSE IF file = <<>> THEN 0 ELSE Last(file).hash

\* _read_last_hash: the genesis hash when the last line cannot be parsed.
LastHash(file) ==
  IF file = Unknown \/ file = <<>> \/ ~Last(file).whole THEN 0 ELSE Last(file).hash

Lines(file) == IF file = Unknown THEN <<>> ELSE file

\* Appending behind a fragment that has no newline makes one garbled line.
AppendLine(file, line) ==
  IF file # <<>> /\ ~Last(file).ended
  THEN Append(Front(file), [line EXCEPT !.whole = FALSE])
  ELSE Append(file, line)

\* _rotate_jsonl renames from the oldest backup down to audit_file.  A rename
\* that fails ends it: the places above stop are filled, the place stop is
\* free, the files below stay.  At 0 it is complete.
Shift(stop) ==
  [i \in 1..Backups |->
     IF i > stop THEN IF i = 1 THEN live
                      ELSE IF backup[i-1] = Unknown /\ i = Backups THEN backup[i]
                      ELSE backup[i-1]
     ELSE IF i = stop /\ i < Backups THEN Unknown
     ELSE backup[i]]

\* verify_audit_chain: a file holds whole lines, each with the hash of the one
\* before, the first one with the genesis hash.
Damaged(file) == \E i \in DOMAIN file : ~file[i].whole
Linked(file) == \A i \in DOMAIN file : i > 1 => file[i].prev = file[i-1].hash
AtGenesis(file) == file # <<>> => file[1].prev = 0

\* Mutation: the cached hash is used although another logger wrote.
PrevHashCached(l, file) ==
  IF prevHash[l] = Unknown THEN LastHash(file) ELSE prevHash[l]

\* The hash the next line points to: re-read when the file has changed.
PrevHash(l, file) ==
  IF prevHash[l] = Unknown \/ Signature(file) # signature[l]
  THEN LastHash(file) ELSE prevHash[l]

\* How a write may end: "early" before the file is opened (the entry is no
\* JSON, or open fails), "empty" and "torn" with none or a part of the line.
Outcome == {"ok", "early", "empty", "torn"}

\* _write_audit_line under the file's lock.  stop is where the rotation ends,
\* if one is due.
WriteLine(l, stop, outcome) ==
  LET due  == live # Unknown /\ Len(Lines(live)) >= MaxLines
      done == due /\ stop = 0
      file == IF done THEN Unknown ELSE live
      prev == IF done THEN 0 ELSE PrevHash(l, file)
      line == Line(prev, hashes + 1, outcome = "ok", outcome = "ok")
  IN  /\ stop # 0 => due
      /\ faults' = faults + (IF stop = 0 THEN 0 ELSE 1) + (IF outcome = "ok" THEN 0 ELSE 1)
      /\ faults' <= MaxFaults
      /\ backup' = IF due THEN Shift(stop) ELSE backup
      /\ live' = CASE outcome = "early" -> file
                   [] outcome = "empty" -> Lines(file)
                   [] OTHER             -> AppendLine(Lines(file), line)
      /\ hashes' = IF outcome \in {"ok", "torn"} THEN hashes + 1 ELSE hashes
      /\ prevHash' = [prevHash EXCEPT ![l] = IF outcome = "ok" THEN hashes + 1 ELSE prev]
      /\ signature' = IF outcome = "ok" THEN [signature EXCEPT ![l] = Signature(live')]
                                        ELSE signature

-----------------------------------------------------------------------------
(***************************************************************************)
(* What an earlier process has left: nothing, a full set of files, or a    *)
(* file whose last write was torn.                                         *)
(***************************************************************************)

NoFiles == [live |-> Unknown, backup |-> [i \in 1..Backups |-> Unknown], hashes |-> 0]

FullSet ==
  [live |-> [i \in 1..MaxLines |-> Line(i - 1, i, TRUE, TRUE)],
   backup |-> [i \in 1..Backups |-> <<Line(0, MaxLines + i, TRUE, TRUE)>>],
   hashes |-> MaxLines + Backups]

TornFile == [NoFiles EXCEPT !.live = <<Line(0, 1, FALSE, FALSE)>>, !.hashes = 1]

Init ==
  /\ calls = [l \in Logger |-> 0]
  /\ queue = [l \in Logger |-> <<>>]
  /\ refused = [l \in Logger |-> 0]
  /\ dropped = [l \in Logger |-> 0]
  /\ unreported = [l \in Logger |-> 0]
  /\ failed = [l \in Logger |-> 0]
  /\ shutdown = [l \in Logger |-> FALSE]
  /\ pc = [l \in Logger |-> "get"]
  /\ hand = [l \in Logger |-> "none"]
  /\ pending = [l \in Logger |-> 0]
  /\ prevHash = [l \in Logger |-> Unknown]
  /\ signature = [l \in Logger |-> Unknown]
  /\ \E left \in {NoFiles, FullSet, TornFile} :
       live = left.live /\ backup = left.backup /\ hashes = left.hashes
  /\ written = [l \in Logger |-> 0]
  /\ marked = [l \in Logger |-> 0]
  /\ badMarkers = [l \in Logger |-> 0]
  /\ faults = 0

Plus1(counter, l) == [counter EXCEPT ![l] = @ + 1]
Goto(l, place) == pc' = [pc EXCEPT ![l] = place]

-----------------------------------------------------------------------------
(***************************************************************************)
(* Callers: log_action and close.                                          *)
(***************************************************************************)

Put(l) ==
  /\ calls[l] < MaxCalls[l]
  /\ Len(queue[l]) < Capacity
  /\ calls' = Plus1(calls, l)
  /\ queue' = [queue EXCEPT ![l] = Append(@, IF shutdown[l] THEN "late" ELSE "early")]
  /\ UNCHANGED <<refused, dropped, unreported, failed, thread, chain, tally>>

Refuse(l) ==
  /\ calls[l] < MaxCalls[l]
  /\ Len(queue[l]) >= Capacity
  /\ calls' = Plus1(calls, l)
  /\ refused' = Plus1(refused, l)
  /\ UNCHANGED <<queue, dropped, unreported, failed, thread, chain, tally>>

RecordDrop(l) ==
  /\ refused[l] > 0
  /\ refused' = [refused EXCEPT ![l] = @ - 1]
  /\ dropped' = Plus1(dropped, l)
  /\ unreported' = Plus1(unreported, l)
  /\ UNCHANGED <<calls, queue, failed, thread, chain, tally>>

\* close() sets the event and joins the thread: it returns when pc is "done".
Close(l) ==
  /\ ~shutdown[l]
  /\ shutdown' = [shutdown EXCEPT ![l] = TRUE]
  /\ UNCHANGED <<callers, queue, unreported, failed, pc, hand, pending, chain, tally>>

-----------------------------------------------------------------------------
(***************************************************************************)
(* The writer thread, _drain_audit_queue.                                  *)
(***************************************************************************)

\* Mutation: the loop does not look at the event.
LoopCheckNever(l) == "get"

\* while not _shutdown.is_set(): where the writer goes for its next entry.
LoopCheck(l) == IF shutdown[l] THEN "flush" ELSE "get"

\* get(timeout=0.25) in the loop and get_nowait() in the flush.
Take(l) ==
  /\ pc[l] \in {"get", "flush"}
  /\ queue[l] # <<>>
  /\ hand' = [hand EXCEPT ![l] = Head(queue[l])]
  /\ queue' = [queue EXCEPT ![l] = Tail(@)]
  /\ Goto(l, "drops")
  /\ UNCHANGED <<callers, unreported, failed, shutdown, pending, chain, tally>>

\* Mutation: the flush is left out.
EmptyAtOnce(l) ==
  /\ pc[l] \in {"get", "flush"}
  /\ queue[l] = <<>> \/ pc[l] = "flush"
  /\ Goto(l, IF pc[l] = "get" THEN LoopCheck(l) ELSE "drops")
  /\ UNCHANGED <<callers, queue, unreported, failed, shutdown, hand, pending, chain, tally>>

\* queue.Empty: after the timeout the loop checks the event, and the
\* flush is followed by a last marker.
Empty(l) ==
  /\ pc[l] \in {"get", "flush"}
  /\ queue[l] = <<>>
  /\ Goto(l, IF pc[l] = "get" THEN LoopCheck(l) ELSE "drops")
  /\ UNCHANGED <<callers, queue, unreported, failed, shutdown, hand, pending, chain, tally>>

AfterMarker(l) == IF hand[l] = "none" THEN "done" ELSE "entry"

\* The first half of _write_drop_marker_if_needed.
ReadDrops(l) ==
  /\ pc[l] = "drops"
  /\ pending' = [pending EXCEPT ![l] = unreported[l]]
  /\ Goto(l, IF unreported[l] > 0 THEN "marker" ELSE AfterMarker(l))
  /\ UNCHANGED <<callers, queue, unreported, failed, shutdown, hand, chain, tally>>

\* The marker is a line of the chain.  If it fails the drops stay pending.
WriteMarker(l, stop, outcome) ==
  /\ pc[l] = "marker"
  /\ WriteLine(l, stop, outcome)
  /\ IF outcome = "ok"
     THEN /\ marked' = [marked EXCEPT ![l] = @ + pending[l]]
          /\ Goto(l, "subtract")
          /\ UNCHANGED <<failed, badMarkers>>
     ELSE /\ failed' = Plus1(failed, l)
          /\ badMarkers' = Plus1(badMarkers, l)
          /\ Goto(l, AfterMarker(l))
          /\ UNCHANGED marked
  /\ UNCHANGED <<callers, queue, unreported, shutdown, hand, pending, written>>

\* Mutation: the counter is cleared, with what was dropped meanwhile.
SubtractAll(l) ==
  /\ pc[l] = "subtract"
  /\ unreported' = [unreported EXCEPT ![l] = 0]
  /\ Goto(l, AfterMarker(l))
  /\ UNCHANGED <<callers, queue, failed, shutdown, hand, pending, chain, tally>>

Subtract(l) ==
  /\ pc[l] = "subtract"
  /\ unreported' = [unreported EXCEPT ![l] = IF @ > pending[l] THEN @ - pending[l] ELSE 0]
  /\ Goto(l, AfterMarker(l))
  /\ UNCHANGED <<callers, queue, failed, shutdown, hand, pending, chain, tally>>

WriteEntry(l, stop, outcome) ==
  /\ pc[l] = "entry"
  /\ WriteLine(l, stop, outcome)
  /\ IF outcome = "ok" THEN written' = Plus1(written, l) /\ UNCHANGED failed
                       ELSE failed' = Plus1(failed, l) /\ UNCHANGED written
  /\ hand' = [hand EXCEPT ![l] = "none"]
  /\ Goto(l, LoopCheck(l))
  /\ UNCHANGED <<callers, queue, unreported, shutdown, pending, marked, badMarkers>>

-----------------------------------------------------------------------------
Writer(l) ==
  \/ Take(l) \/ Empty(l) \/ ReadDrops(l) \/ Subtract(l)
  \/ \E stop \in 0..Backups, outcome \in Outcome :
       WriteMarker(l, stop, outcome) \/ WriteEntry(l, stop, outcome)

Next == \E l \in Logger : Put(l) \/ Refuse(l) \/ RecordDrop(l) \/ Close(l) \/ Writer(l)

Spec == Init /\ [][Next]_vars

(***************************************************************************)
(* Threads that can run do run: a writer, and a caller on its way to count *)
(* a drop.  Nobody has to call log_action or close.                        *)
(***************************************************************************)
Fairness == \A l \in Logger : WF_vars(Writer(l)) /\ WF_vars(RecordDrop(l))

FairSpec == Spec /\ Fairness

-----------------------------------------------------------------------------
(***************************************************************************)
(* Properties.                                                             *)
(***************************************************************************)

Stamp == {"early", "late"}
FileLine == [prev : Nat, hash : Nat, whole : BOOLEAN, ended : BOOLEAN]
File == Seq(FileLine) \cup {Unknown}

\* Every variable has its type; the queue keeps to its capacity.
TypeOK ==
  /\ calls \in [Logger -> Nat]
  /\ queue \in [Logger -> Seq(Stamp)]
  /\ \A l \in Logger : Len(queue[l]) <= Capacity
  /\ refused \in [Logger -> Nat]
  /\ dropped \in [Logger -> Nat]
  /\ unreported \in [Logger -> Nat]
  /\ failed \in [Logger -> Nat]
  /\ shutdown \in [Logger -> BOOLEAN]
  /\ pc \in [Logger -> {"get", "flush", "drops", "marker", "subtract", "entry", "done"}]
  /\ hand \in [Logger -> Stamp \cup {"none"}]
  /\ pending \in [Logger -> Nat]
  /\ prevHash \in [Logger -> Nat \cup {Unknown}]
  /\ signature \in [Logger -> Nat \cup {Unknown}]
  /\ live \in File
  /\ backup \in [1..Backups -> File]
  /\ hashes \in Nat
  /\ written \in [Logger -> Nat]
  /\ marked \in [Logger -> Nat]
  /\ badMarkers \in [Logger -> Nat]
  /\ faults \in 0..MaxFaults

\* Every call of log_action is in exactly one place: waiting, in the writer's
\* hand, written, or counted as dropped or failed (audit/logger.py:107).
Held(l) == IF hand[l] = "none" THEN 0 ELSE 1
CallsAreAccounted ==
  \A l \in Logger :
    calls[l] = Len(queue[l]) + refused[l] + Held(l)
               + written[l] + dropped[l] + (failed[l] - badMarkers[l])

\* A drop is reported by exactly one marker or still to be reported, whatever
\* is dropped between the reading, the writing and the subtraction.
Reporting(l) == IF pc[l] = "subtract" THEN pending[l] ELSE 0
DropsAreReported ==
  \A l \in Logger : dropped[l] = marked[l] + unreported[l] - Reporting(l)

\* Nothing that callers logged is lost without being counted.
LossesAreCounted == CallsAreAccounted /\ DropsAreReported

\* verify_audit_chain accepts audit_file and every backup, unless a write was
\* torn in it: neither loggers that share the file, nor rotations, failed
\* writes or a restart break the chain between two lines.  Only where two
\* failures have met may a file start at another hash (see the README).
Files == ({live} \cup {backup[i] : i \in 1..Backups}) \ {Unknown}
ChainHolds ==
  \A file \in Files : ~Damaged(file) => /\ Linked(file)
                                        /\ AtGenesis(file) \/ faults > 1

\* When close() has returned nothing that was logged before it still waits.
CloseSettles ==
  \A l \in Logger : pc[l] = "done" =>
    hand[l] = "none" /\ \A i \in 1..Len(queue[l]) : queue[l][i] = "late"

\* close() returns, although it joins the writer thread without a time limit.
CloseReturns == \A l \in Logger : shutdown[l] ~> pc[l] = "done"

=============================================================================
