--------------------- MODULE WorkflowOrchestratorProofs ---------------------
(***************************************************************************)
(* Theorems about WorkflowOrchestrator for every value of its constants.   *)
(***************************************************************************)
EXTENDS WorkflowOrchestrator, FiniteSetTheorems, SequenceTheorems, TLAPS

-----------------------------------------------------------------------------
(***************************************************************************)
(* Lemmas about the sequence operators.                                    *)
(***************************************************************************)

\* No job appears twice in the sequence.
Unique(q) == \A i, k \in 1..Len(q) : q[i] = q[k] => i = k

\* Inserting into a sequence lengthens it by one and shifts what follows.
LEMMA InsertAtFacts ==
  ASSUME NEW q \in Seq(Job), NEW j \in Job, NEW p \in 1..Len(q)+1
  PROVE  /\ InsertAt(q, p, j) \in Seq(Job)
         /\ Len(InsertAt(q, p, j)) = Len(q) + 1
         /\ \A i \in 1..Len(q)+1 :
              InsertAt(q, p, j)[i] =
                IF i < p THEN q[i] ELSE IF i = p THEN j ELSE q[i-1]
<1> DEFINE a == SubSeq(q, 1, p-1)
           b == SubSeq(q, p, Len(q))
<1>1. /\ a \in Seq(Job) /\ Len(a) = p - 1
      /\ \A i \in 1..p-1 : a[i] = q[i]
  OBVIOUS
<1>2. /\ b \in Seq(Job) /\ Len(b) = Len(q) - p + 1
      /\ \A i \in 1..Len(q)-p+1 : b[i] = q[p + i - 1]
  OBVIOUS
<1>3. InsertAt(q, p, j) = (a \o <<j>>) \o b
  BY DEF InsertAt
<1> HIDE DEF a, b
<1> DEFINE c == a \o <<j>>
<1>4. /\ c \in Seq(Job) /\ Len(c) = p
      /\ \A i \in 1..p : c[i] = IF i < p THEN q[i] ELSE j
  BY <1>1
<1>c. InsertAt(q, p, j) = c \o b
  BY <1>3
<1> HIDE DEF c
<1>5. /\ c \o b \in Seq(Job)
      /\ Len(c \o b) = Len(c) + Len(b)
      /\ \A i \in 1..Len(c) + Len(b) :
           (c \o b)[i] = IF i <= Len(c) THEN c[i] ELSE b[i - Len(c)]
  BY <1>2, <1>4, ConcatProperties
<1>6. ASSUME NEW i \in 1..Len(q)+1
      PROVE  (c \o b)[i] = IF i < p THEN q[i] ELSE IF i = p THEN j ELSE q[i-1]
  <2>0. /\ (c \o b)[i] = IF i <= p THEN c[i] ELSE b[i - p]
        /\ i > p => i - p \in 1..Len(q)-p+1
    BY <1>2, <1>4, <1>5
  <2>1. CASE i <= p
    BY <1>4, <2>0, <2>1
  <2>2. CASE i > p
    <3>1. b[i - p] = q[p + (i - p) - 1]
      BY <1>2, <2>0, <2>2
    <3>2. p + (i - p) - 1 = i - 1
      OBVIOUS
    <3> QED BY <2>0, <2>2, <3>1, <3>2
  <2>3. i <= p \/ i > p
    OBVIOUS
  <2> QED BY <2>1, <2>2, <2>3, Zenon
<1>7. Len(c \o b) = Len(q) + 1
  BY <1>2, <1>4, <1>5
<1> QED BY <1>c, <1>5, <1>6, <1>7, Zenon

\* Removing a position shortens a sequence by one and shifts what follows.
LEMMA RemoveAtFacts ==
  ASSUME NEW q \in Seq(Job), NEW p \in 1..Len(q)
  PROVE  /\ RemoveAt(q, p) \in Seq(Job)
         /\ Len(RemoveAt(q, p)) = Len(q) - 1
         /\ \A i \in 1..Len(q)-1 :
              RemoveAt(q, p)[i] = IF i < p THEN q[i] ELSE q[i+1]
<1> DEFINE a == SubSeq(q, 1, p-1)
           b == SubSeq(q, p+1, Len(q))
<1>1. /\ a \in Seq(Job) /\ Len(a) = p - 1
      /\ \A i \in 1..p-1 : a[i] = q[i]
  OBVIOUS
<1>2. /\ b \in Seq(Job) /\ Len(b) = Len(q) - p
      /\ \A i \in 1..Len(q)-p : b[i] = q[p + i]
  OBVIOUS
<1>3. RemoveAt(q, p) = a \o b
  BY DEF RemoveAt
<1> HIDE DEF a, b
<1>4. /\ a \o b \in Seq(Job)
      /\ Len(a \o b) = Len(a) + Len(b)
      /\ \A i \in 1..Len(a) + Len(b) :
           (a \o b)[i] = IF i <= Len(a) THEN a[i] ELSE b[i - Len(a)]
  BY <1>1, <1>2, ConcatProperties
<1>5. ASSUME NEW i \in 1..Len(q)-1
      PROVE  (a \o b)[i] = IF i < p THEN q[i] ELSE q[i+1]
  <2>0. /\ (a \o b)[i] = IF i < p THEN a[i] ELSE b[i - (p - 1)]
        /\ i >= p => i - (p - 1) \in 1..Len(q)-p
    BY <1>1, <1>2, <1>4
  <2>1. CASE i < p
    BY <1>1, <2>0, <2>1
  <2>2. CASE i >= p
    <3>1. b[i - (p - 1)] = q[p + (i - (p - 1))]
      BY <1>2, <2>0, <2>2
    <3>2. p + (i - (p - 1)) = i + 1
      OBVIOUS
    <3> QED BY <2>0, <2>2, <3>1, <3>2
  <2>3. i < p \/ i >= p
    OBVIOUS
  <2> QED BY <2>1, <2>2, <2>3, Zenon
<1>6. Len(a \o b) = Len(q) - 1
  BY <1>1, <1>2, <1>4
<1> QED BY <1>3, <1>4, <1>5, <1>6, Zenon

\* An interval that starts at one has as many members as its end says.
LEMMA CountUpTo ==
  ASSUME NEW n \in Nat
  PROVE  IsFiniteSet(1..n) /\ Cardinality(1..n) = n
<1>1. IsFiniteSet(1..n)
      /\ Cardinality(1..n) = IF 1 > n THEN 0 ELSE n - 1 + 1
  BY FS_Interval, SMTT(60)
<1> QED BY <1>1

\* The place that the stable sort gives a job is a position of the new queue.
LEMMA PlaceType ==
  ASSUME NEW q \in Seq(Job), NEW j \in Job
  PROVE  Place(q, j) \in 1..Len(q)+1
<1> DEFINE S == {i \in DOMAIN q : PriorityOf[q[i]] >= PriorityOf[j]}
<1>1. S \in SUBSET (1..Len(q)) /\ Len(q) \in Nat
  OBVIOUS
<1> HIDE DEF S
<1>2. IsFiniteSet(1..Len(q)) /\ Cardinality(1..Len(q)) = Len(q)
  BY <1>1, CountUpTo
<1>3. IsFiniteSet(S) /\ Cardinality(S) <= Len(q)
  BY <1>1, <1>2, FS_Subset
<1>4. Cardinality(S) \in Nat
  BY <1>3, FS_CardinalityType
<1>5. Place(q, j) = 1 + Cardinality(S)
  BY DEF Place, S
<1> QED BY <1>1, <1>3, <1>4, <1>5

\* A job that is new to the queue joins it once, and nothing else changes.
LEMMA InsertUnique ==
  ASSUME NEW q \in Seq(Job), NEW j \in Job, Unique(q), j \notin ToSet(q)
  PROVE  /\ Insert(q, j) \in Seq(Job)
         /\ Unique(Insert(q, j))
         /\ ToSet(Insert(q, j)) = ToSet(q) \cup {j}
<1> DEFINE p == Place(q, j)
           r == InsertAt(q, p, j)
<1>1. p \in 1..Len(q)+1
  BY PlaceType
<1>2. Insert(q, j) = r
  BY DEF Insert
<1> HIDE DEF p
<1>3. /\ r \in Seq(Job) /\ Len(r) = Len(q) + 1
      /\ \A i \in 1..Len(q)+1 :
           r[i] = IF i < p THEN q[i] ELSE IF i = p THEN j ELSE q[i-1]
  BY <1>1, InsertAtFacts
<1> HIDE DEF r
<1>4. \A i \in 1..Len(q) : q[i] # j
  BY DEF ToSet
<1>5. \A i \in 1..Len(r) :
        LET x == IF i < p THEN i ELSE i - 1
        IN  i # p => x \in 1..Len(q) /\ r[i] = q[x]
  BY <1>1, <1>3
<1>p. r[p] = j /\ p \in 1..Len(r)
  BY <1>1, <1>3
<1>6. ToSet(r) \subseteq ToSet(q) \cup {j}
  <2> SUFFICES ASSUME NEW i \in 1..Len(r) PROVE r[i] \in ToSet(q) \cup {j}
    BY <1>3 DEF ToSet
  <2>1. CASE i = p
    BY <1>p, <2>1
  <2>2. CASE i # p
    BY <1>5, <2>2 DEF ToSet
  <2> QED BY <2>1, <2>2
<1>u. Unique(r)
  <2> SUFFICES ASSUME NEW i \in 1..Len(r), NEW k \in 1..Len(r), r[i] = r[k]
               PROVE  i = k
    BY DEF Unique
  <2>1. i # p => r[i] # j
    BY <1>4, <1>5
  <2>2. k # p => r[k] # j
    BY <1>4, <1>5
  <2>3. CASE i # p /\ k # p
    <3> DEFINE x == IF i < p THEN i ELSE i - 1
               y == IF k < p THEN k ELSE k - 1
    <3>1. x \in 1..Len(q) /\ y \in 1..Len(q) /\ q[x] = q[y]
      BY <1>5, <2>3
    <3>2. x = y
      BY <3>1 DEF Unique
    <3> QED BY <1>1, <1>3, <2>3, <3>2
  <2> QED BY <1>p, <2>1, <2>2, <2>3
<1>7. j \in ToSet(r)
  BY <1>3, <1>p DEF ToSet
<1>8. ToSet(q) \subseteq ToSet(r)
  <2> SUFFICES ASSUME NEW i \in 1..Len(q) PROVE q[i] \in ToSet(r)
    BY DEF ToSet
  <2> DEFINE x == IF i < p THEN i ELSE i + 1
  <2>1. x \in 1..Len(r) /\ r[x] = q[i]
    BY <1>1, <1>3
  <2> QED BY <1>3, <2>1 DEF ToSet
<1> QED BY <1>2, <1>3, <1>u, <1>6, <1>7, <1>8

\* Removing a position takes exactly its job out of the queue.
LEMMA RemoveUnique ==
  ASSUME NEW q \in Seq(Job), NEW p \in 1..Len(q), Unique(q)
  PROVE  /\ RemoveAt(q, p) \in Seq(Job)
         /\ Unique(RemoveAt(q, p))
         /\ ToSet(RemoveAt(q, p)) = ToSet(q) \ {q[p]}
<1> DEFINE r == RemoveAt(q, p)
<1>1. /\ r \in Seq(Job) /\ Len(r) = Len(q) - 1
      /\ \A i \in 1..Len(q)-1 : r[i] = IF i < p THEN q[i] ELSE q[i+1]
  BY RemoveAtFacts
<1> HIDE DEF r
<1>2. Unique(r)
  <2> SUFFICES ASSUME NEW i \in 1..Len(r), NEW k \in 1..Len(r), r[i] = r[k]
               PROVE  i = k
    BY DEF Unique
  <2> DEFINE x == IF i < p THEN i ELSE i + 1
             y == IF k < p THEN k ELSE k + 1
  <2>1. x \in 1..Len(q) /\ y \in 1..Len(q) /\ q[x] = q[y]
    BY <1>1
  <2>2. x = y
    BY <2>1 DEF Unique
  <2> QED BY <1>1, <2>2
<1>3. ToSet(r) \subseteq ToSet(q) \ {q[p]}
  <2> SUFFICES ASSUME NEW i \in 1..Len(q)-1 PROVE r[i] \in ToSet(q) \ {q[p]}
    BY <1>1 DEF ToSet
  <2> DEFINE x == IF i < p THEN i ELSE i + 1
  <2>1. x \in 1..Len(q) /\ x # p /\ r[i] = q[x]
    BY <1>1
  <2>2. q[x] # q[p]
    BY <2>1 DEF Unique
  <2> QED BY <2>1, <2>2 DEF ToSet
<1>4. ToSet(q) \ {q[p]} \subseteq ToSet(r)
  <2> SUFFICES ASSUME NEW i \in 1..Len(q), q[i] # q[p] PROVE q[i] \in ToSet(r)
    BY DEF ToSet
  <2> DEFINE x == IF i < p THEN i ELSE i - 1
  <2>1. x \in 1..Len(q)-1 /\ r[x] = q[i]
    BY <1>1
  <2> QED BY <1>1, <2>1 DEF ToSet
<1> QED BY <1>1, <1>2, <1>3, <1>4 DEF r

-----------------------------------------------------------------------------
(***************************************************************************)
(* Type correctness.                                                       *)
(***************************************************************************)

\* The document _persist writes is a saved state.
LEMMA SnapshotType ==
  ASSUME NEW q \in Seq(Job), NEW n \in [Job -> 0..MaxRetries],
         NEW rec \in [Recurring -> RecurringState]
  PROVE  Snapshot(q, n, rec) \in SavedState
<1> DEFINE s == [i \in DOMAIN q |-> [job |-> q[i], retries |-> n[q[i]]]]
<1>1. DOMAIN q = 1..Len(q) /\ Len(q) \in Nat /\ \A i \in 1..Len(q) : q[i] \in Job
  OBVIOUS
<1>2. s \in [1..Len(q) -> SavedJob]
  BY <1>1 DEF SavedJob
<1>3. s \in Seq(SavedJob)
  BY <1>1, <1>2, SeqDef
<1> HIDE DEF s
<1>4. Snapshot(q, n, rec) = [kind |-> "file", queue |-> s, recurring |-> rec]
  BY DEF Snapshot, s
<1> QED BY <1>3, <1>4 DEF SavedState

\* A save of well-typed variables leaves a well-typed file.
LEMMA PersistType ==
  ASSUME TypeOK, queue' \in Seq(Job), retries' \in [Job -> 0..MaxRetries],
         recurring' \in [Recurring -> RecurringState], Persist
  PROVE  disk' \in SavedState
<1>1. Snapshot(queue', retries', recurring') \in SavedState
  BY SnapshotType
<1> QED BY <1>1 DEF Persist, TypeOK

\* A queue stays a sequence of jobs.
LEMMA InsertType ==
  ASSUME NEW q \in Seq(Job), NEW j \in Job
  PROVE  Insert(q, j) \in Seq(Job)
BY PlaceType, InsertAtFacts DEF Insert

\* Releasing a slot keeps counters natural: the floor at zero matters.
LEMMA ReleaseType ==
  ASSUME NEW s \in [Domain -> Nat], NEW d \in Domain
  PROVE  Release(s, d) \in [Domain -> Nat]
BY DEF Release

\* What a restart reads from a well-typed file is well-typed.
LEMMA LoadedType ==
  ASSUME NEW d \in SavedState, TypeOK
  PROVE  /\ [i \in DOMAIN d.queue |-> d.queue[i].job] \in Seq(Job)
         /\ LoadedStatus(d.queue) \in [Job -> Status]
         /\ LoadedRetries(d.queue) \in [Job -> 0..MaxRetries]
         /\ LoadedRecurring(d.recurring) \in [Recurring -> RecurringState]
<1> DEFINE f == [i \in DOMAIN d.queue |-> d.queue[i].job]
<1>1. d.queue \in Seq(SavedJob) /\ d.recurring \in [Recurring -> RecurringState]
  BY DEF SavedState
<1>2. /\ DOMAIN d.queue = 1..Len(d.queue) /\ Len(d.queue) \in Nat
      /\ \A i \in DOMAIN d.queue : d.queue[i] \in SavedJob
  BY <1>1
<1>3. f \in [1..Len(d.queue) -> Job]
  BY <1>2 DEF SavedJob
<1>4. f \in Seq(Job)
  BY <1>2, <1>3, SeqDef
<1>5. LoadedStatus(d.queue) \in [Job -> Status]
  BY DEF LoadedStatus, Status, TypeOK, Terminal
<1>6. LoadedRetries(d.queue) \in [Job -> 0..MaxRetries]
  <2> SUFFICES ASSUME NEW j \in Job
               PROVE  LoadedRetries(d.queue)[j] \in 0..MaxRetries
    BY DEF LoadedRetries
  <2>1. CASE \E i \in DOMAIN d.queue : d.queue[i].job = j
    <3> DEFINE c == CHOOSE i \in DOMAIN d.queue : d.queue[i].job = j
    <3>1. c \in DOMAIN d.queue
      BY <2>1
    <3>2. LoadedRetries(d.queue)[j] = d.queue[c].retries
      BY <2>1 DEF LoadedRetries
    <3> HIDE DEF c
    <3> QED BY <1>2, <3>1, <3>2 DEF SavedJob
  <2>2. CASE ~\E i \in DOMAIN d.queue : d.queue[i].job = j
    BY <2>2, ConstantsAssumption DEF LoadedRetries
  <2> QED BY <2>1, <2>2
<1>7. LoadedRecurring(d.recurring) \in [Recurring -> RecurringState]
  BY <1>1 DEF LoadedRecurring, RecurringState
<1> QED BY <1>4, <1>5, <1>6, <1>7

\* Every step keeps the types.
LEMMA TypeStep == TypeOK /\ [Next]_vars => TypeOK'
<1> SUFFICES ASSUME TypeOK, [Next]_vars PROVE TypeOK'
  OBVIOUS
<1> USE ConstantsAssumption
<1>1. ASSUME NEW j \in Job, Enqueue(j) PROVE TypeOK'
  <2>1. queue' \in Seq(Job)
    BY <1>1, InsertType DEF Enqueue, TypeOK
  <2>2. disk' \in SavedState
    BY <1>1, <2>1, PersistType DEF Enqueue, TypeOK
  <2> QED BY <1>1, <2>1, <2>2 DEF Enqueue, TypeOK, Status, loop
<1>2. ASSUME NEW j \in Job, NEW r \in Recurring, Fire(r, j) PROVE TypeOK'
  <2>1. queue' \in Seq(Job)
    BY <1>2, InsertType DEF Fire, TypeOK
  <2> QED BY <1>2, <2>1 DEF Fire, TypeOK, Status
<1>3. ASSUME NEW j \in Job, EndRun(j)
      PROVE  /\ active' \subseteq {IdOf[k] : k \in Job}
             /\ slots' \in [Domain -> Nat]
  BY <1>3, ReleaseType DEF EndRun, TypeOK
<1>4. ASSUME NEW j \in Job, Succeed(j) PROVE TypeOK'
  <2>1. disk' \in SavedState
    BY <1>4, PersistType DEF Succeed, TypeOK
  <2> QED BY <1>3, <1>4, <2>1 DEF Succeed, TypeOK, Status, loop
<1>5. ASSUME NEW j \in Job, Fail(j) PROVE TypeOK'
  <2>1. disk' \in SavedState
    BY <1>5, PersistType DEF Fail, TypeOK
  <2> QED BY <1>3, <1>5, <2>1 DEF Fail, TypeOK, Status, loop
<1>6. ASSUME NEW j \in Job, Retry(j) PROVE TypeOK'
  <2>1. queue' \in Seq(Job)
    BY <1>6, InsertType DEF Retry, TypeOK
  <2>2. retries' \in [Job -> 0..MaxRetries]
    BY <1>6 DEF Retry, TypeOK
  <2>3. status' \in [Job -> Status]
    BY <1>6 DEF Retry, TypeOK, Status
  <2>4. sleepers' \in [Job -> Nat]
    BY <1>6 DEF Retry, TypeOK
  <2> QED BY <1>3, <1>6, <2>1, <2>2, <2>3, <2>4 DEF Retry, TypeOK, loop
<1>7. ASSUME NEW j \in Job, BackoffWake(j) PROVE TypeOK'
  <2>1. disk' \in SavedState
    BY <1>7, PersistType DEF BackoffWake, TypeOK
  <2>2. sleepers' \in [Job -> Nat]
    BY <1>7 DEF BackoffWake, TypeOK
  <2>3. active' \subseteq {IdOf[k] : k \in Job} /\ slots' \in [Domain -> Nat]
    BY <1>3, <1>7 DEF BackoffWake, TypeOK
  <2> QED BY <1>7, <2>1, <2>2, <2>3 DEF BackoffWake, TypeOK, loop
<1>8. ASSUME NEW i \in 1..Len(queue), Dequeue(i) PROVE TypeOK'
  <2>1. queue' \in Seq(Job)
    BY <1>8, RemoveAtFacts DEF Dequeue, TypeOK
  <2> QED BY <1>8, <2>1 DEF Dequeue, TypeOK, Status, loop
<1>9. ASSUME NEW r \in Recurring,
             \/ ScheduleRecurring(r)
             \/ RemoveRecurring(r)
             \/ \E enabled \in BOOLEAN : EnableRecurring(r, enabled)
      PROVE  TypeOK'
  <2>1. recurring' \in [Recurring -> RecurringState]
    BY <1>9 DEF ScheduleRecurring, RemoveRecurring, EnableRecurring, TypeOK, RecurringState
  <2>2. /\ UNCHANGED <<queue, active, slots, status, retries, sleepers, loop, crashes>>
        /\ Persist
    BY <1>9 DEF ScheduleRecurring, RemoveRecurring, EnableRecurring
  <2>3. disk' \in SavedState
    BY <2>1, <2>2, PersistType DEF TypeOK
  <2> QED BY <2>1, <2>2, <2>3 DEF TypeOK, loop
<1>10. ASSUME ClearCompleted \/ Stop PROVE TypeOK'
  <2>1. UNCHANGED <<memory, pc, pos, toFire, crashes>> /\ loopOn' \in BOOLEAN /\ Persist
    BY <1>10 DEF ClearCompleted, Stop, TypeOK, loop
  <2>2. disk' \in SavedState
    BY <2>1, PersistType DEF TypeOK, memory
  <2> QED BY <2>1, <2>2 DEF TypeOK, memory
<1>11. CASE SaveCheckpoint
  BY <1>11 DEF SaveCheckpoint, TypeOK, SavedState, memory, loop
<1>12. ASSUME StartLoop \/ TickBegin \/ ScanBegin \/ Skip \/ ScanEnd \/ LoopExit
       PROVE  TypeOK'
  <2>1. UNCHANGED <<memory, disk, crashes>> /\ loopOn' \in BOOLEAN
    BY <1>12 DEF StartLoop, TickBegin, ScanBegin, Skip, ScanEnd, LoopExit, TypeOK
  <2>2. Due \subseteq Recurring
    BY DEF Due
  <2>3. toFire' \subseteq Recurring
    BY <1>12, <2>2 DEF StartLoop, TickBegin, ScanBegin, Skip, ScanEnd, LoopExit, TypeOK
  <2>4. pc' \in {"stopped", "asleep", "recurring", "queue", "down"}
    BY <1>12 DEF StartLoop, TickBegin, ScanBegin, Skip, ScanEnd, LoopExit, TypeOK
  <2>5. pos' \in {pos, pos + 1, 1}
    BY <1>12 DEF StartLoop, TickBegin, ScanBegin, Skip, ScanEnd, LoopExit
  <2>6. pos' \in Nat \ {0}
    BY <2>5 DEF TypeOK
  <2> QED BY <2>1, <2>3, <2>4, <2>6 DEF TypeOK, memory
<1>13. CASE Dispatch
  <2>1. queue' \in Seq(Job) /\ queue[pos] \in Job
    BY <1>13, RemoveAtFacts DEF Dispatch, TypeOK
  <2>2. slots' \in [Domain -> Nat]
    <3>1. /\ slots' = [slots EXCEPT ![DomainOf[queue[pos]]] = @ + 1]
          /\ slots \in [Domain -> Nat]
      BY <1>13 DEF Dispatch, TypeOK
    <3>2. DomainOf[queue[pos]] \in Domain
      BY <2>1
    <3> QED BY <3>1, <3>2
  <2>3. status' \in [Job -> Status]
    BY <1>13, <2>1 DEF Dispatch, TypeOK, Status
  <2>4. active' \subseteq {IdOf[k] : k \in Job}
    BY <1>13, <2>1 DEF Dispatch, TypeOK
  <2> QED BY <1>13, <2>1, <2>2, <2>3, <2>4 DEF Dispatch, TypeOK, loop
<1>14. ASSUME NEW torn \in BOOLEAN, CrashRestart(torn) PROVE TypeOK'
  <2>1. NoFile \in SavedState
    <3>1. NoFile.queue \in Seq(SavedJob)
      BY DEF NoFile
    <3> QED BY <3>1 DEF NoFile, SavedState, RecurringState
  <2>2. disk' \in SavedState
    BY <1>14, <2>1 DEF CrashRestart, SavedState, TypeOK
  <2>3. /\ queue' \in Seq(Job) /\ status' \in [Job -> Status]
        /\ retries' \in [Job -> 0..MaxRetries]
        /\ recurring' \in [Recurring -> RecurringState]
    BY <1>14, <2>2, LoadedType DEF CrashRestart
  <2>4. slots' \in [Domain -> Nat] /\ sleepers' \in [Job -> Nat]
    BY <1>14 DEF CrashRestart
  <2>6. /\ active' = {} /\ loopOn' = FALSE /\ pos' = 1 /\ toFire' = {}
    BY <1>14 DEF CrashRestart
  <2>5. crashes' \in 0..MaxCrashes /\ pc' \in {"stopped", "down"}
    BY <1>14 DEF CrashRestart, TypeOK
  <2>7. active' \subseteq {IdOf[k] : k \in Job} /\ toFire' \subseteq Recurring
    BY <2>6
  <2>8. loopOn' \in BOOLEAN
    BY <2>6, Zenon
  <2>9. pos' \in Nat \ {0}
    BY <2>6
  <2> QED BY <2>2, <2>3, <2>4, <2>5, <2>7, <2>8, <2>9 DEF TypeOK
<1>15. CASE UNCHANGED vars
  BY <1>15 DEF TypeOK, vars, memory, loop
<1> QED BY <1>1, <1>2, <1>4, <1>5, <1>6, <1>7, <1>8, <1>9, <1>10, <1>11, <1>12,
           <1>13, <1>14, <1>15 DEF Next

\* The initial state has the types.
LEMMA TypeInit == Init => TypeOK
<1>1. <<>> \in Seq(Job) /\ NoFile.queue \in Seq(SavedJob)
  BY DEF NoFile
<1>2. NoFile \in SavedState
  BY <1>1 DEF NoFile, SavedState, RecurringState
<1>3. ASSUME Init
      PROVE  /\ slots \in [Domain -> Nat] /\ sleepers \in [Job -> Nat]
             /\ status \in [Job -> Status] /\ retries \in [Job -> 0..MaxRetries]
             /\ recurring \in [Recurring -> RecurringState]
  BY <1>3, ConstantsAssumption DEF Init, Status, RecurringState
<1>4. Init => crashes \in 0..MaxCrashes
  BY ConstantsAssumption DEF Init
<1>5. Init => queue \in Seq(Job) /\ active \subseteq {IdOf[k] : k \in Job}
              /\ toFire \subseteq Recurring /\ pos \in Nat \ {0}
  BY <1>1 DEF Init
<1>6. Init => disk \in SavedState
  BY <1>2 DEF Init
<1>7. Init => loopOn \in BOOLEAN /\ pc = "stopped"
  BY Zenon DEF Init
<1> QED BY <1>3, <1>4, <1>5, <1>6, <1>7 DEF TypeOK

\* Every variable of the orchestrator always has its type.
THEOREM TypeCorrect == Spec => []TypeOK
<1> QED BY TypeInit, TypeStep, PTL DEF Spec

-----------------------------------------------------------------------------
(***************************************************************************)
(* The queue, the statuses and the file agree.                             *)
(*                                                                         *)
(* QueueMatchesStatus alone is not inductive: a restart rebuilds the queue *)
(* from the file, so the file must list each job once as well.             *)
(***************************************************************************)

SavedOnce ==
  \A i, k \in 1..Len(disk.queue) : disk.queue[i].job = disk.queue[k].job => i = k

QueueInv == QueueMatchesStatus /\ SavedOnce

\* What a save writes lists each waiting job once.
LEMMA PersistOnce ==
  ASSUME TypeOK, SavedOnce, Persist, queue' \in Seq(Job), Unique(queue')
  PROVE  SavedOnce'
<1>1. CASE disk.kind = "dir"
  BY <1>1 DEF Persist, SavedOnce
<1>2. CASE disk.kind # "dir"
  <2> DEFINE s == [i \in DOMAIN queue' |-> [job |-> queue'[i], retries |-> retries'[queue'[i]]]]
  <2>1. disk'.queue = s
    BY <1>2 DEF Persist, Snapshot
  <2>2. DOMAIN queue' = 1..Len(queue') /\ Len(queue') \in Nat
    OBVIOUS
  <2>3. Len(s) = Len(queue') /\ \A i \in 1..Len(queue') : s[i].job = queue'[i]
    BY <2>2
  <2> HIDE DEF s
  <2> QED BY <2>1, <2>3 DEF SavedOnce, Unique
<1> QED BY <1>1, <1>2

\* A job that was not queued joins the queue and takes the status "queued".
LEMMA JoinQueue ==
  ASSUME TypeOK, QueueMatchesStatus, NEW j \in Job, status[j] # "queued",
         queue' = Insert(queue, j), status' = [status EXCEPT ![j] = "queued"]
  PROVE  QueueMatchesStatus' /\ Unique(queue') /\ queue' \in Seq(Job)
<1>1. queue \in Seq(Job) /\ Unique(queue) /\ j \notin ToSet(queue)
  BY DEF TypeOK, QueueMatchesStatus, Unique
<1>2. queue' \in Seq(Job) /\ Unique(queue') /\ ToSet(queue') = ToSet(queue) \cup {j}
  BY <1>1, InsertUnique
<1>3. \A k \in Job : status'[k] = "queued" <=> k \in ToSet(queue')
  BY <1>2 DEF TypeOK, QueueMatchesStatus
<1> QED BY <1>2, <1>3 DEF QueueMatchesStatus, Unique

\* A job leaves the queue and takes another status.
LEMMA LeaveQueue ==
  ASSUME TypeOK, QueueMatchesStatus, NEW p \in 1..Len(queue), NEW st, st # "queued",
         queue' = RemoveAt(queue, p), status' = [status EXCEPT ![queue[p]] = st]
  PROVE  QueueMatchesStatus'
<1>1. queue \in Seq(Job) /\ Unique(queue) /\ queue[p] \in Job
  BY DEF TypeOK, QueueMatchesStatus, Unique
<1>2. queue' \in Seq(Job) /\ Unique(queue') /\ ToSet(queue') = ToSet(queue) \ {queue[p]}
  BY <1>1, RemoveUnique
<1>3. \A k \in Job : status'[k] = "queued" <=> k \in ToSet(queue')
  BY <1>1, <1>2 DEF TypeOK, QueueMatchesStatus
<1> QED BY <1>2, <1>3 DEF QueueMatchesStatus, Unique

\* A job that is not queued may change its status while the queue stays.
LEMMA KeepQueue ==
  ASSUME TypeOK, QueueMatchesStatus, NEW j \in Job, NEW st, st # "queued",
         status[j] # "queued", queue' = queue, status' = [status EXCEPT ![j] = st]
  PROVE  QueueMatchesStatus'
<1>1. \A k \in Job : status'[k] = "queued" <=> status[k] = "queued"
  BY DEF TypeOK
<1> QED BY <1>1 DEF QueueMatchesStatus

\* Every step keeps the queue, the statuses and the file in agreement.
LEMMA QueueStep == TypeOK /\ QueueInv /\ [Next]_vars => QueueInv'
<1> SUFFICES ASSUME TypeOK, QueueInv, [Next]_vars PROVE QueueInv'
  OBVIOUS
<1>0. queue \in Seq(Job) /\ Unique(queue) /\ QueueMatchesStatus /\ SavedOnce
  BY DEF TypeOK, QueueInv, QueueMatchesStatus, Unique
<1>1. ASSUME NEW j \in Job, Enqueue(j) PROVE QueueInv'
  <2>1. QueueMatchesStatus' /\ Unique(queue') /\ queue' \in Seq(Job) /\ Persist
    BY <1>0, <1>1, JoinQueue DEF Enqueue
  <2> QED BY <1>0, <2>1, PersistOnce DEF QueueInv
<1>2. ASSUME NEW j \in Job, NEW r \in Recurring, Fire(r, j) PROVE QueueInv'
  <2>1. QueueMatchesStatus' /\ disk' = disk
    BY <1>0, <1>2, JoinQueue DEF Fire, Spawnable
  <2> QED BY <1>0, <2>1 DEF QueueInv, SavedOnce
<1>3. ASSUME NEW j \in Job, Succeed(j) \/ Fail(j) PROVE QueueInv'
  <2>1. /\ queue' = queue /\ Persist /\ status[j] = "active"
        /\ \E st \in Terminal : status' = [status EXCEPT ![j] = st]
    BY <1>3 DEF Succeed, Fail, Terminal
  <2>2. QueueMatchesStatus'
    BY <1>0, <2>1, KeepQueue DEF Terminal
  <2>3. SavedOnce'
    BY <1>0, <2>1, PersistOnce
  <2> QED BY <2>2, <2>3 DEF QueueInv
<1>4. ASSUME NEW j \in Job, Retry(j) PROVE QueueInv'
  <2>1. QueueMatchesStatus' /\ disk' = disk
    BY <1>0, <1>4, JoinQueue DEF Retry
  <2> QED BY <1>0, <2>1 DEF QueueInv, SavedOnce
<1>5. ASSUME UNCHANGED <<queue, status>>, Persist \/ UNCHANGED disk \/ disk'.queue = disk.queue
      PROVE  QueueInv'
  <2>1. QueueMatchesStatus'
    BY <1>0, <1>5 DEF QueueMatchesStatus
  <2>2. SavedOnce'
    BY <1>0, <1>5, PersistOnce DEF SavedOnce
  <2> QED BY <2>1, <2>2 DEF QueueInv
<1>6. ASSUME NEW j \in Job, BackoffWake(j) PROVE QueueInv'
  BY <1>5, <1>6 DEF BackoffWake
<1>7. ASSUME NEW i \in 1..Len(queue), Dequeue(i) PROVE QueueInv'
  <2>1. QueueMatchesStatus' /\ disk' = disk
    BY <1>0, <1>7, LeaveQueue DEF Dequeue
  <2> QED BY <1>0, <2>1 DEF QueueInv, SavedOnce
<1>8. ASSUME NEW r \in Recurring,
             \/ ScheduleRecurring(r)
             \/ RemoveRecurring(r)
             \/ \E enabled \in BOOLEAN : EnableRecurring(r, enabled)
      PROVE  QueueInv'
  BY <1>5, <1>8 DEF ScheduleRecurring, RemoveRecurring, EnableRecurring
<1>9. ASSUME ClearCompleted \/ Stop PROVE QueueInv'
  BY <1>5, <1>9 DEF ClearCompleted, Stop, memory
<1>10. CASE SaveCheckpoint
  <2>1. disk'.queue = disk.queue /\ UNCHANGED <<queue, status>>
    BY <1>10 DEF SaveCheckpoint, memory, TypeOK, SavedState
  <2> QED BY <1>5, <2>1
<1>11. ASSUME StartLoop \/ TickBegin \/ ScanBegin \/ Skip \/ ScanEnd \/ LoopExit
       PROVE  QueueInv'
  BY <1>5, <1>11 DEF StartLoop, TickBegin, ScanBegin, Skip, ScanEnd, LoopExit, memory
<1>12. CASE Dispatch
  <2>1. pos \in 1..Len(queue) /\ disk' = disk
    BY <1>0, <1>12 DEF Dispatch, TypeOK
  <2>2. QueueMatchesStatus'
    BY <1>0, <1>12, <2>1, LeaveQueue DEF Dispatch
  <2> QED BY <1>0, <2>1, <2>2 DEF QueueInv, SavedOnce
<1>13. ASSUME NEW torn \in BOOLEAN, CrashRestart(torn) PROVE QueueInv'
  <2> DEFINE sq == disk'.queue
  <2>1. disk'.queue = disk.queue \/ disk'.queue = <<>>
    BY <1>13 DEF CrashRestart, NoFile
  <2>2. SavedOnce'
    BY <1>0, <2>1 DEF SavedOnce
  <2>3. sq \in Seq(SavedJob)
    <3>1. disk.queue \in Seq(SavedJob)
      BY DEF TypeOK, SavedState
    <3>2. <<>> \in Seq(SavedJob)
      OBVIOUS
    <3> QED BY <2>1, <3>1, <3>2
  <2>4. /\ queue' = [i \in DOMAIN sq |-> sq[i].job]
        /\ status' = LoadedStatus(sq)
    BY <1>13 DEF CrashRestart
  <2>5. \A i, k \in 1..Len(sq) : sq[i].job = sq[k].job => i = k
    BY <2>2 DEF SavedOnce
  <2> HIDE DEF sq
  <2>6. /\ DOMAIN sq = 1..Len(sq) /\ Len(sq) \in Nat
        /\ Len(queue') = Len(sq) /\ DOMAIN queue' = 1..Len(sq)
        /\ \A i \in 1..Len(sq) : queue'[i] = sq[i].job
    BY <2>3, <2>4
  <2>7. \A i, k \in 1..Len(queue') : queue'[i] = queue'[k] => i = k
    BY <2>5, <2>6
  <2>8. ASSUME NEW j \in Job PROVE status'[j] = "queued" <=> j \in ToSet(queue')
    <3>1. j \in ToSet(queue') <=> \E i \in DOMAIN sq : sq[i].job = j
      BY <2>6 DEF ToSet
    <3>2. status'[j] = "queued" <=> \E i \in DOMAIN sq : sq[i].job = j
      BY <2>4 DEF LoadedStatus, Terminal
    <3> QED BY <3>1, <3>2
  <2> QED BY <2>2, <2>7, <2>8 DEF QueueInv, QueueMatchesStatus
<1>14. CASE UNCHANGED vars
  BY <1>5, <1>14 DEF vars, memory
<1> QED BY <1>1, <1>2, <1>3, <1>4, <1>6, <1>7, <1>8, <1>9, <1>10, <1>11, <1>12,
           <1>13, <1>14 DEF Next

\* Initially nothing waits and nothing is saved.
LEMMA QueueInit == Init => QueueInv
<1> SUFFICES ASSUME Init PROVE QueueInv
  OBVIOUS
<1>1. queue = <<>> /\ disk.queue = <<>> /\ \A j \in Job : status[j] = "new"
  BY DEF Init, NoFile
<1>2. ToSet(queue) = {} /\ Len(queue) = 0 /\ Len(disk.queue) = 0
  BY <1>1 DEF ToSet
<1> QED BY <1>1, <1>2 DEF QueueInv, QueueMatchesStatus, SavedOnce

\* A job waits in at most one place of the queue, exactly while its status is
\* "queued": retries, late wake-ups and restarts never duplicate it.
THEOREM QueueAgrees == Spec => []QueueMatchesStatus
<1>1. QueueInv => QueueMatchesStatus
  BY DEF QueueInv
<1> QED BY <1>1, QueueInit, QueueStep, TypeCorrect, PTL DEF Spec

-----------------------------------------------------------------------------
(***************************************************************************)
(* Concurrency accounting.                                                 *)
(***************************************************************************)

\* Sets of running jobs are finite, so their cardinalities are numbers.
LEMMA RunningFinite ==
  /\ IsFiniteSet(Running) /\ Cardinality(Running) \in Nat
  /\ \A d : IsFiniteSet(RunningIn(d)) /\ Cardinality(RunningIn(d)) \in Nat
<1>1. Running \in SUBSET Job /\ \A d : RunningIn(d) \in SUBSET Job
  BY DEF Running, RunningIn
<1> HIDE DEF Running, RunningIn
<1>2. IsFiniteSet(Running) /\ \A d : IsFiniteSet(RunningIn(d))
  BY <1>1, ConstantsAssumption, FS_Subset
<1> QED BY <1>2, FS_CardinalityType

\* A dispatched job joins the running ones, of its own domain only.
LEMMA RunningAdd ==
  ASSUME TypeOK, NEW j \in Job, status[j] # "active",
         status' = [status EXCEPT ![j] = "active"]
  PROVE  /\ j \notin Running /\ Running' = Running \cup {j}
         /\ \A d \in Domain : j \notin RunningIn(d)
         /\ \A d \in Domain :
              RunningIn(d)' = IF d = DomainOf[j] THEN RunningIn(d) \cup {j} ELSE RunningIn(d)
BY DEF TypeOK, Running, RunningIn

\* A job whose run is over leaves the running ones.
LEMMA RunningDrop ==
  ASSUME TypeOK, NEW j \in Job, NEW st, st # "active",
         status' = [status EXCEPT ![j] = st]
  PROVE  /\ Running' = Running \ {j}
         /\ \A d \in Domain : RunningIn(d)' = RunningIn(d) \ {j}
BY DEF TypeOK, Running, RunningIn

\* While job_id values are unique, _active lists exactly the running jobs.
ActiveMatches == active = {IdOf[j] : j \in Running}

\* Then the size of _active, which _can_run looks at, is the number of them.
LEMMA ActiveCounts ==
  ASSUME IdsDistinct, ActiveMatches
  PROVE  Cardinality(active) = Cardinality(Running)
<1> DEFINE f == [j \in Running |-> IdOf[j]]
<1>1. f \in Bijection(Running, active)
  BY DEF ActiveMatches, IdsDistinct, Bijection, Injection, Surjection, IsInjective, Running
<1>2. ExistsBijection(Running, active)
  BY <1>1 DEF ExistsBijection
<1> QED BY <1>2, RunningFinite, FS_Bijection

\* The five ways a step can touch what concurrency is counted with.
CountsStay ==
  /\ UNCHANGED <<active, slots>>
  /\ Running' = Running
  /\ \A d \in Domain : RunningIn(d)' = RunningIn(d)
LateRelease(j) ==
  BackoffWake(j) /\ EndRun(j) /\ UNCHANGED status /\ status[j] # "active"
Starts(j) ==
  /\ status[j] # "active" /\ CanRun(DomainOf[j])
  /\ status' = [status EXCEPT ![j] = "active"]
  /\ active' = active \cup {IdOf[j]}
  /\ slots' = [slots EXCEPT ![DomainOf[j]] = @ + 1]
Ends(j, st) ==
  /\ status[j] = "active" /\ st # "active"
  /\ status' = [status EXCEPT ![j] = st]
  /\ EndRun(j)
Wiped ==
  /\ active' = {} /\ slots' = [d \in Domain |-> 0]
  /\ Running' = {}
StepEffect ==
  \/ CountsStay
  \/ \E j \in Job : LateRelease(j)
  \/ \E j \in Job : Starts(j)
  \/ \E j \in Job, st \in Status : Ends(j, st)
  \/ Wiped

\* A job that neither ran nor will run changes its status: no count changes.
LEMMA StatusOnly ==
  ASSUME TypeOK, NEW j \in Job, NEW st, st # "active", status[j] # "active",
         status' = [status EXCEPT ![j] = st], UNCHANGED <<active, slots>>
  PROVE  CountsStay
<1>1. /\ Running' = Running \ {j}
      /\ \A d \in Domain : RunningIn(d)' = RunningIn(d) \ {j}
  BY RunningDrop
<1>2. j \notin Running /\ \A d \in Domain : j \notin RunningIn(d)
  BY DEF Running, RunningIn
<1> QED BY <1>1, <1>2 DEF CountsStay

\* Every step is of one of these kinds.
LEMMA StepKinds == TypeOK /\ QueueInv /\ [Next]_vars => StepEffect
<1> SUFFICES ASSUME TypeOK, QueueInv, [Next]_vars PROVE StepEffect
  OBVIOUS
<1>1. ASSUME NEW j \in Job, Enqueue(j) PROVE StepEffect
  BY <1>1, StatusOnly DEF Enqueue, StepEffect
<1>2. ASSUME NEW j \in Job, NEW r \in Recurring, Fire(r, j) PROVE StepEffect
  BY <1>2, StatusOnly DEF Fire, Spawnable, StepEffect
<1>3. ASSUME NEW j \in Job, Succeed(j) PROVE StepEffect
  <2>1. Ends(j, "completed") /\ "completed" \in Status
    BY <1>3 DEF Succeed, Ends, Status
  <2> QED BY <2>1 DEF StepEffect
<1>4. ASSUME NEW j \in Job, Fail(j) PROVE StepEffect
  <2>1. Ends(j, "failed") /\ "failed" \in Status
    BY <1>4 DEF Fail, Ends, Status
  <2> QED BY <2>1 DEF StepEffect
<1>5. ASSUME NEW j \in Job, Retry(j) PROVE StepEffect
  <2>1. Ends(j, "queued") /\ "queued" \in Status
    BY <1>5 DEF Retry, Ends, Status
  <2> QED BY <2>1 DEF StepEffect
<1>6. ASSUME UNCHANGED <<active, slots, status>> PROVE StepEffect
  BY <1>6 DEF StepEffect, CountsStay, Running, RunningIn
<1>7. ASSUME NEW j \in Job, BackoffWake(j) PROVE StepEffect
  <2>1. CASE status[j] \in Terminal
    BY <1>7, <2>1 DEF BackoffWake, StepEffect, LateRelease, Terminal
  <2>2. CASE status[j] \notin Terminal
    BY <1>6, <1>7, <2>2 DEF BackoffWake
  <2> QED BY <2>1, <2>2
<1>8. ASSUME NEW i \in 1..Len(queue), Dequeue(i) PROVE StepEffect
  <2>1. queue[i] \in Job /\ queue[i] \in ToSet(queue)
    BY DEF TypeOK, ToSet
  <2>2. status[queue[i]] = "queued"
    BY <2>1 DEF QueueInv, QueueMatchesStatus
  <2> QED BY <1>8, <2>1, <2>2, StatusOnly DEF Dequeue, StepEffect
<1>9. ASSUME NEW r \in Recurring,
             \/ ScheduleRecurring(r)
             \/ RemoveRecurring(r)
             \/ \E enabled \in BOOLEAN : EnableRecurring(r, enabled)
      PROVE  StepEffect
  BY <1>6, <1>9 DEF ScheduleRecurring, RemoveRecurring, EnableRecurring
<1>10. ASSUME ClearCompleted \/ Stop \/ SaveCheckpoint PROVE StepEffect
  BY <1>6, <1>10 DEF ClearCompleted, Stop, SaveCheckpoint, memory
<1>11. ASSUME StartLoop \/ TickBegin \/ ScanBegin \/ Skip \/ ScanEnd \/ LoopExit
       PROVE  StepEffect
  BY <1>6, <1>11 DEF StartLoop, TickBegin, ScanBegin, Skip, ScanEnd, LoopExit, memory
<1>12. CASE Dispatch
  <2>1. pos \in 1..Len(queue) /\ queue \in Seq(Job)
    BY <1>12 DEF Dispatch, TypeOK
  <2>2. queue[pos] \in Job /\ queue[pos] \in ToSet(queue)
    BY <2>1 DEF ToSet
  <2>3. status[queue[pos]] = "queued"
    BY <2>2 DEF QueueInv, QueueMatchesStatus
  <2>4. Starts(queue[pos])
    BY <1>12, <2>3 DEF Dispatch, Starts
  <2> QED BY <2>2, <2>4 DEF StepEffect
<1>13. ASSUME NEW torn \in BOOLEAN, CrashRestart(torn) PROVE StepEffect
  <2>1. \A j \in Job : status'[j] # "active"
    BY <1>13 DEF CrashRestart, LoadedStatus, Terminal
  <2>2. Running' = {}
    BY <2>1 DEF Running
  <2> QED BY <1>13, <2>2 DEF CrashRestart, StepEffect, Wiped
<1>14. CASE UNCHANGED vars
  BY <1>6, <1>14 DEF vars, memory
<1> QED BY <1>1, <1>2, <1>3, <1>4, <1>5, <1>7, <1>8, <1>9, <1>10, <1>11, <1>12,
           <1>13, <1>14 DEF Next

LimitInv == ActiveMatches /\ TotalLimit

\* No step starts a job above the total, nor forgets one that runs.
LEMMA LimitStep ==
  ASSUME IdsDistinct
  PROVE  TypeOK /\ QueueInv /\ LimitInv /\ [Next]_vars => LimitInv'
<1> SUFFICES ASSUME TypeOK, LimitInv, StepEffect PROVE LimitInv'
  BY StepKinds
<1>0. ActiveMatches /\ TotalLimit /\ Running \subseteq Job
  BY DEF LimitInv, Running
<1>1. CASE CountsStay
  BY <1>0, <1>1 DEF CountsStay, LimitInv, ActiveMatches, TotalLimit
<1>2. ASSUME NEW j \in Job, LateRelease(j) PROVE LimitInv'
  <2>1. Running' = Running /\ j \notin Running
    BY <1>2 DEF LateRelease, Running
  <2>2. active' = active
    BY <1>0, <1>2, <2>1 DEF LateRelease, EndRun, ActiveMatches, IdsDistinct
  <2> QED BY <1>0, <2>1, <2>2 DEF LimitInv, ActiveMatches, TotalLimit
<1>3. ASSUME NEW j \in Job, Starts(j) PROVE LimitInv'
  <2>1. j \notin Running /\ Running' = Running \cup {j}
    BY <1>3, RunningAdd DEF Starts
  <2>2. ActiveMatches'
    BY <1>0, <1>3, <2>1 DEF Starts, ActiveMatches
  <2>3. Cardinality(Running) < MaxTotal
    BY <1>0, <1>3, ActiveCounts DEF Starts, CanRun
  <2>4. Cardinality(Running') = Cardinality(Running) + 1
    BY <2>1, RunningFinite, FS_AddElement
  <2>5. TotalLimit'
    BY <2>3, <2>4, RunningFinite, ConstantsAssumption DEF TotalLimit
  <2> QED BY <2>2, <2>5 DEF LimitInv
<1>4. ASSUME NEW j \in Job, NEW st \in Status, Ends(j, st) PROVE LimitInv'
  <2>1. j \in Running /\ Running' = Running \ {j}
    BY <1>4, RunningDrop DEF Ends, Running
  <2>2. ActiveMatches'
    BY <1>0, <1>4, <2>1 DEF Ends, EndRun, ActiveMatches, IdsDistinct
  <2>3. Cardinality(Running') = Cardinality(Running) - 1
    BY <2>1, RunningFinite, FS_RemoveElement
  <2>4. TotalLimit'
    BY <1>0, <2>3, RunningFinite, ConstantsAssumption DEF TotalLimit
  <2> QED BY <2>2, <2>4 DEF LimitInv
<1>5. CASE Wiped
  <2>1. ActiveMatches'
    BY <1>5 DEF Wiped, ActiveMatches
  <2>2. TotalLimit'
    BY <1>5, FS_EmptySet, ConstantsAssumption DEF Wiped, TotalLimit
  <2> QED BY <2>1, <2>2 DEF LimitInv
<1> QED BY <1>1, <1>2, <1>3, <1>4, <1>5 DEF StepEffect

\* A domain's counter never exceeds what runs there, step by step.
LEMMA SlotStep == TypeOK /\ QueueInv /\ NoLeakedSlot /\ [Next]_vars => NoLeakedSlot'
<1> SUFFICES ASSUME TypeOK, NoLeakedSlot, StepEffect, NEW d \in Domain
             PROVE  slots'[d] <= Cardinality(RunningIn(d)')
  BY StepKinds DEF NoLeakedSlot
<1>0. /\ slots \in [Domain -> Nat] /\ slots[d] <= Cardinality(RunningIn(d))
      /\ IsFiniteSet(RunningIn(d)) /\ Cardinality(RunningIn(d)) \in Nat
  BY RunningFinite DEF TypeOK, NoLeakedSlot
<1>1. CASE CountsStay
  BY <1>0, <1>1 DEF CountsStay
<1>2. ASSUME NEW j \in Job, EndRun(j)
      PROVE  slots'[d] = IF d = DomainOf[j] /\ slots[d] > 0 THEN slots[d] - 1 ELSE slots[d]
  BY <1>0, <1>2 DEF EndRun, Release
<1>3. ASSUME NEW j \in Job, LateRelease(j)
      PROVE  slots'[d] <= Cardinality(RunningIn(d)')
  <2>1. RunningIn(d)' = RunningIn(d)
    BY <1>3 DEF LateRelease, RunningIn, Running
  <2> QED BY <1>0, <1>2, <1>3, <2>1 DEF LateRelease
<1>4. ASSUME NEW j \in Job, Starts(j)
      PROVE  slots'[d] <= Cardinality(RunningIn(d)')
  <2>1. /\ j \notin RunningIn(d)
        /\ RunningIn(d)' = IF d = DomainOf[j] THEN RunningIn(d) \cup {j} ELSE RunningIn(d)
    BY <1>4, RunningAdd DEF Starts
  <2>2. slots'[d] = IF d = DomainOf[j] THEN slots[d] + 1 ELSE slots[d]
    BY <1>0, <1>4 DEF Starts
  <2>3. Cardinality(RunningIn(d) \cup {j}) = Cardinality(RunningIn(d)) + 1
    BY <1>0, <2>1, FS_AddElement
  <2> QED BY <1>0, <2>1, <2>2, <2>3
<1>5. ASSUME NEW j \in Job, NEW st \in Status, Ends(j, st)
      PROVE  slots'[d] <= Cardinality(RunningIn(d)')
  <2>1. RunningIn(d)' = RunningIn(d) \ {j}
    BY <1>5, RunningDrop DEF Ends
  <2>2. j \in RunningIn(d) <=> d = DomainOf[j]
    BY <1>5 DEF Ends, RunningIn, Running
  <2>3. /\ Cardinality(RunningIn(d) \ {j}) =
             IF j \in RunningIn(d) THEN Cardinality(RunningIn(d)) - 1
                                   ELSE Cardinality(RunningIn(d))
        /\ IsFiniteSet(RunningIn(d) \ {j})
    BY <1>0, FS_RemoveElement
  <2>4. Cardinality(RunningIn(d) \ {j}) \in Nat
    BY <2>3, FS_CardinalityType
  <2>5. slots'[d] = IF d = DomainOf[j] /\ slots[d] > 0 THEN slots[d] - 1 ELSE slots[d]
    BY <1>2, <1>5 DEF Ends
  <2> QED BY <1>0, <2>1, <2>2, <2>3, <2>4, <2>5
<1>6. CASE Wiped
  <2>1. slots'[d] = 0 /\ RunningIn(d)' = {}
    BY <1>6 DEF Wiped, RunningIn
  <2> QED BY <2>1, FS_EmptySet
<1> QED BY <1>1, <1>3, <1>4, <1>5, <1>6 DEF StepEffect

\* A counter falls behind what runs there only by a late release: the others
\* change both alike, or take the counter to a floor that it has anyway.
LEMMA DriftStep ==
  ASSUME TypeOK, NoLeakedSlot, StepEffect, NEW d \in Domain, Drift(d)' > Drift(d)
  PROVE  \E j \in Job : BackoffWake(j)
<1>0. /\ slots \in [Domain -> Nat] /\ slots[d] \in Nat
      /\ slots[d] <= Cardinality(RunningIn(d))
      /\ IsFiniteSet(RunningIn(d)) /\ Cardinality(RunningIn(d)) \in Nat
  BY RunningFinite DEF TypeOK, NoLeakedSlot
<1>1. CASE CountsStay
  BY <1>0, <1>1 DEF CountsStay, Drift
<1>2. CASE \E j \in Job : LateRelease(j)
  BY <1>2 DEF LateRelease
<1>3. ASSUME NEW j \in Job, Starts(j) PROVE FALSE
  <2>1. /\ j \notin RunningIn(d)
        /\ RunningIn(d)' = IF d = DomainOf[j] THEN RunningIn(d) \cup {j} ELSE RunningIn(d)
    BY <1>3, RunningAdd DEF Starts
  <2>2. slots'[d] = IF d = DomainOf[j] THEN slots[d] + 1 ELSE slots[d]
    BY <1>0, <1>3 DEF Starts
  <2>3. Cardinality(RunningIn(d) \cup {j}) = Cardinality(RunningIn(d)) + 1
    BY <1>0, <2>1, FS_AddElement
  <2> QED BY <1>0, <2>1, <2>2, <2>3 DEF Drift
<1>4. ASSUME NEW j \in Job, NEW st \in Status, Ends(j, st) PROVE FALSE
  <2>1. /\ RunningIn(d)' = RunningIn(d) \ {j}
        /\ j \in RunningIn(d) <=> d = DomainOf[j]
    BY <1>4, RunningDrop DEF Ends, RunningIn, Running
  <2>2. Cardinality(RunningIn(d) \ {j}) =
             IF j \in RunningIn(d) THEN Cardinality(RunningIn(d)) - 1
                                   ELSE Cardinality(RunningIn(d))
    BY <1>0, FS_RemoveElement
  <2>3. slots'[d] = IF d = DomainOf[j] /\ slots[d] > 0 THEN slots[d] - 1 ELSE slots[d]
    BY <1>0, <1>4 DEF Ends, EndRun, Release
  <2> QED BY <1>0, <2>1, <2>2, <2>3 DEF Drift
<1>5. CASE Wiped
  <2>1. slots'[d] = 0 /\ Cardinality(RunningIn(d)') = 0
    BY <1>5, FS_EmptySet DEF Wiped, RunningIn
  <2> QED BY <1>0, <2>1 DEF Drift
<1> QED BY <1>1, <1>2, <1>3, <1>4, <1>5 DEF StepEffect

\* Initially nothing runs.
LEMMA CountsInit == Init => LimitInv /\ NoLeakedSlot
<1> SUFFICES ASSUME Init PROVE LimitInv /\ NoLeakedSlot
  OBVIOUS
<1>1. Running = {} /\ \A d \in Domain : RunningIn(d) = {}
  BY DEF Init, Running, RunningIn
<1>2. active = {} /\ \A d \in Domain : slots[d] = 0
  BY DEF Init
<1>3. LimitInv
  BY <1>1, <1>2, FS_EmptySet, ConstantsAssumption DEF LimitInv, ActiveMatches, TotalLimit
<1>4. NoLeakedSlot
  BY <1>1, <1>2, FS_EmptySet DEF NoLeakedSlot
<1> QED BY <1>3, <1>4

\* While job_id values are unique, never more than max_concurrent_total
\* executors run at once, late wake-ups of retried jobs included.
THEOREM TotalLimitHolds == IdsDistinct => (Spec => []TotalLimit)
<1> SUFFICES ASSUME IdsDistinct PROVE Spec => []TotalLimit
  OBVIOUS
<1>1. TypeOK /\ QueueInv /\ LimitInv /\ [Next]_vars => LimitInv'
  BY LimitStep
<1>2. LimitInv => TotalLimit
  BY DEF LimitInv
<1> QED BY <1>1, <1>2, CountsInit, QueueInit, QueueStep, TypeCorrect, PTL DEF Spec

\* A domain's counter never exceeds the jobs that run there: no slot leaks.
THEOREM NoSlotLeaks == Spec => []NoLeakedSlot
<1> QED BY CountsInit, SlotStep, QueueInit, QueueStep, TypeCorrect, PTL DEF Spec

\* Nothing but a late wake-up lets a counter fall behind what runs.
THEOREM OnlyStaleWakeEverDrifts == Spec => OnlyStaleWakeDrifts
<1>1. TypeOK /\ QueueInv /\ NoLeakedSlot /\ [Next]_vars
        => [(\E d \in Domain : Drift(d)' > Drift(d)) => \E j \in Job : BackoffWake(j)]_vars
  BY StepKinds, DriftStep
<1> QED
  BY <1>1, CountsInit, SlotStep, QueueInit, QueueStep, TypeCorrect, PTL
     DEF Spec, OnlyStaleWakeDrifts

\* Both at once: the slots taken are those of jobs that run, and no more of
\* them than max_concurrent_total.
THEOREM SlotsAlwaysCounted == IdsDistinct => (Spec => []SlotsAreCounted)
<1> SUFFICES ASSUME IdsDistinct PROVE Spec => []SlotsAreCounted
  OBVIOUS
<1>1. Spec => []TotalLimit
  BY TotalLimitHolds
<1>2. TotalLimit /\ NoLeakedSlot => SlotsAreCounted
  BY DEF SlotsAreCounted
<1> QED BY <1>1, <1>2, NoSlotLeaks, PTL

-----------------------------------------------------------------------------
(***************************************************************************)
(* Outcomes and the file.                                                  *)
(*                                                                         *)
(* A step saves, restarts from what is saved, or does neither; one that    *)
(* does neither must give no outcome and leave no fresh job unsaved.       *)
(***************************************************************************)

\* The saved queue never lists a job whose outcome was reported.
NoResurrection ==
  \A i \in 1..Len(disk.queue) : status[disk.queue[i].job] \notin Terminal

\* The place in the saved queue where a job is listed as it is now.
Saved(j, i) == disk.queue[i].job = j /\ disk.queue[i].retries = retries[j]

WaitingJobsAreDurable ==
  disk.kind = "dir" \/ \A j \in Job : Settled(j) => \E i \in 1..Len(disk.queue) : Saved(j, i)

\* Only a file that was written lists any job.
OnlyFilesList == disk.kind # "file" => Len(disk.queue) = 0

\* A job that is not created yet has not been retried.
FreshJobs == \A j \in Job : status[j] = "new" => retries[j] = 0

SavedInv == NoResurrection /\ WaitingJobsAreDurable /\ OnlyFilesList /\ FreshJobs

\* Nothing that was reported changes.
OutcomesStay == \A j \in Job : status[j] \in Terminal => status'[j] = status[j]

Saves == Persist /\ OutcomesStay

Leaves ==
  /\ disk' \in {disk, [disk EXCEPT !.kind = "dir"]} /\ OutcomesStay
  /\ disk'.kind = disk.kind \/ disk.kind = "absent"
  /\ \A j \in Job : status'[j] \in Terminal => status[j] \in Terminal
  /\ \A j \in Job : Settled(j)' => Settled(j) /\ retries'[j] = retries[j]

SaveEffect == Saves \/ Leaves \/ \E torn \in BOOLEAN : CrashRestart(torn)

\* A change of one status, of a job that was not reported, to one that is no
\* outcome, so that the job waits only if it is not settled.
LEMMA OneLeaves ==
  ASSUME TypeOK, NEW j \in Job, NEW st \in Status \ Terminal, disk' = disk,
         status[j] \notin Terminal, status' = [status EXCEPT ![j] = st],
         \A k \in Job \ {j} : retries'[k] = retries[k] /\ sleepers'[k] = sleepers[k],
         st = "queued" => ~ Settled(j)'
  PROVE  Leaves
<1>1. status \in [Job -> Status]
  BY DEF TypeOK
<1>2. OutcomesStay /\ \A k \in Job : status'[k] \in Terminal => status[k] \in Terminal
  BY <1>1 DEF OutcomesStay
<1>3. ASSUME NEW k \in Job, Settled(k)' PROVE Settled(k) /\ retries'[k] = retries[k]
  <2>1. k # j
    BY <1>1, <1>3 DEF Settled
  <2> QED BY <1>1, <1>3, <2>1 DEF Settled
<1> QED BY <1>2, <1>3 DEF Leaves

\* A step that touches neither the jobs nor the file.
LEMMA NoneLeaves ==
  ASSUME UNCHANGED <<status, retries, sleepers, disk>>  PROVE Leaves
BY DEF Leaves, OutcomesStay, Settled

\* A reported outcome of a job that ran, or no new outcome at all, and a save.
LEMMA OneSaves ==
  ASSUME TypeOK, Persist, NEW j \in Job, status[j] \notin Terminal, NEW st,
         status' = [status EXCEPT ![j] = st]
  PROVE  SaveEffect
<1>1. OutcomesStay
  BY DEF TypeOK, OutcomesStay
<1> QED BY <1>1 DEF Saves, SaveEffect

LEMMA NoneSaves ==
  ASSUME Persist, UNCHANGED status  PROVE SaveEffect
BY DEF SaveEffect, Saves, OutcomesStay

\* Every step is of one of the three kinds.
LEMMA SaveKinds == TypeOK /\ QueueInv /\ FreshJobs /\ [Next]_vars => SaveEffect
<1> SUFFICES ASSUME TypeOK, QueueInv, FreshJobs, [Next]_vars PROVE SaveEffect
  OBVIOUS
<1>1. ASSUME NEW j \in Job,
             Enqueue(j) \/ Succeed(j) \/ Fail(j)
      PROVE  SaveEffect
  BY <1>1, OneSaves DEF Enqueue, Succeed, Fail, Terminal
<1>2. ASSUME NEW j \in Job, BackoffWake(j) PROVE SaveEffect
  BY <1>2, NoneSaves DEF BackoffWake
<1>3. ASSUME NEW r \in Recurring,
             \/ ScheduleRecurring(r) \/ RemoveRecurring(r)
             \/ \E enabled \in BOOLEAN : EnableRecurring(r, enabled)
      PROVE  SaveEffect
  BY <1>3, NoneSaves DEF ScheduleRecurring, RemoveRecurring, EnableRecurring
<1>4. CASE ClearCompleted \/ Stop
  BY <1>4, NoneSaves DEF ClearCompleted, Stop, memory
<1>5. ASSUME NEW j \in Job, NEW r \in Recurring, Fire(r, j) PROVE SaveEffect
  <2>1. /\ status[j] = "new" /\ SpawnedBy[j] # Caller
        /\ status' = [status EXCEPT ![j] = "queued"] /\ UNCHANGED <<retries, sleepers, disk>>
    BY <1>5, ConstantsAssumption DEF Fire, Spawnable
  <2>2. ~ Settled(j)'
    BY <2>1 DEF FreshJobs, Settled
  <2>3. Leaves
    BY <2>1, <2>2, OneLeaves DEF Status, Terminal
  <2> QED BY <2>3 DEF SaveEffect
<1>6. ASSUME NEW j \in Job, Retry(j) PROVE SaveEffect
  <2>1. /\ status[j] = "active" /\ status' = [status EXCEPT ![j] = "queued"]
        /\ retries' = [retries EXCEPT ![j] = @ + 1]
        /\ sleepers' = [sleepers EXCEPT ![j] = @ + 1] /\ disk' = disk
    BY <1>6 DEF Retry
  <2>2. /\ sleepers'[j] # 0
        /\ \A k \in Job \ {j} : retries'[k] = retries[k] /\ sleepers'[k] = sleepers[k]
    <3>1. retries \in [Job -> 0..MaxRetries] /\ sleepers \in [Job -> Nat] /\ sleepers[j] \in Nat
      BY DEF TypeOK
    <3>2. sleepers'[j] = sleepers[j] + 1
      BY <2>1, <3>1
    <3>3. sleepers'[j] # 0
      BY <3>1, <3>2
    <3> QED BY <2>1, <3>1, <3>3
  <2>3. Leaves
    BY <2>1, <2>2, OneLeaves DEF Status, Terminal, Settled
  <2> QED BY <2>3 DEF SaveEffect
<1>7. ASSUME NEW i \in 1..Len(queue), Dequeue(i) PROVE SaveEffect
  <2>1. queue[i] \in Job /\ status[queue[i]] = "queued"
    BY DEF TypeOK, QueueInv, QueueMatchesStatus, ToSet
  <2>2. Leaves
    BY <1>7, <2>1, OneLeaves DEF Dequeue, Status, Terminal
  <2> QED BY <2>2 DEF SaveEffect
<1>8. CASE Dispatch
  <2>1. pos \in 1..Len(queue)
    BY <1>8 DEF Dispatch, TypeOK
  <2>2. queue[pos] \in Job /\ status[queue[pos]] = "queued"
    BY <2>1 DEF TypeOK, QueueInv, QueueMatchesStatus, ToSet
  <2>3. Leaves
    BY <1>8, <2>2, OneLeaves DEF Dispatch, Status, Terminal
  <2> QED BY <2>3 DEF SaveEffect
<1>9. CASE SaveCheckpoint
  BY <1>9 DEF SaveCheckpoint, SaveEffect, Leaves, OutcomesStay, Settled, memory
<1>10. CASE \/ StartLoop \/ TickBegin \/ ScanBegin \/ Skip \/ ScanEnd \/ LoopExit
            \/ UNCHANGED vars
  BY <1>10, NoneLeaves
     DEF StartLoop, TickBegin, ScanBegin, Skip, ScanEnd, LoopExit, vars, memory, SaveEffect
<1>11. ASSUME NEW torn \in BOOLEAN, CrashRestart(torn) PROVE SaveEffect
  BY <1>11 DEF SaveEffect
<1> QED
  BY <1>1, <1>2, <1>3, <1>4, <1>5, <1>6, <1>7, <1>8, <1>9, <1>10, <1>11 DEF Next

\* A file lists jobs.
LEMMA SavedJobs ==
  ASSUME NEW d \in SavedState
  PROVE  /\ DOMAIN d.queue = 1..Len(d.queue)
         /\ \A i \in 1..Len(d.queue) : d.queue[i].job \in Job
<1>1. d.queue \in Seq(SavedJob)
  BY DEF SavedState
<1>2. \A i \in 1..Len(d.queue) : d.queue[i] \in SavedJob
  BY <1>1
<1> QED BY <1>1, <1>2 DEF SavedJob

\* A save lists exactly the jobs that wait.
LEMMA SaveKeepsFaith ==
  ASSUME TypeOK, SavedInv, Persist, TypeOK', QueueMatchesStatus'
  PROVE  (NoResurrection /\ WaitingJobsAreDurable /\ OnlyFilesList)'
<1>1. CASE disk.kind = "dir"
  <2>1. disk' = disk /\ Len(disk'.queue) = 0
    BY <1>1 DEF Persist, SavedInv, OnlyFilesList
  <2> QED BY <1>1, <2>1 DEF SavedInv, NoResurrection, WaitingJobsAreDurable, OnlyFilesList
<1>2. CASE disk.kind # "dir"
  <2> DEFINE s == [i \in DOMAIN queue' |-> [job |-> queue'[i], retries |-> retries'[queue'[i]]]]
  <2>1. disk'.queue = s /\ disk'.kind = "file"
    BY <1>2 DEF Persist, Snapshot
  <2>2. /\ DOMAIN queue' = 1..Len(queue') /\ Len(queue') \in Nat
        /\ \A i \in 1..Len(queue') : queue'[i] \in Job
    BY DEF TypeOK
  <2>3. /\ Len(s) = Len(queue')
        /\ \A i \in 1..Len(queue') : s[i].job = queue'[i] /\ s[i].retries = retries'[queue'[i]]
    BY <2>2
  <2> HIDE DEF s
  <2>4. \A i \in 1..Len(disk'.queue) : status'[disk'.queue[i].job] = "queued"
    BY <2>1, <2>2, <2>3 DEF QueueMatchesStatus, ToSet
  <2>5. \A j \in ToSet(queue') : \E i \in 1..Len(disk'.queue) : Saved(j, i)'
    BY <2>1, <2>2, <2>3 DEF ToSet, Saved
  <2>6. \A j \in Job : Settled(j)' => j \in ToSet(queue')
    BY DEF QueueMatchesStatus, Settled
  <2>7. NoResurrection' /\ WaitingJobsAreDurable'
    BY <2>4, <2>5, <2>6 DEF NoResurrection, WaitingJobsAreDurable, Terminal
  <2> QED BY <2>1, <2>7 DEF OnlyFilesList
<1> QED BY <1>1, <1>2

\* A step that saves nothing reports nothing either.
LEMMA LeaveKeepsFaith ==
  ASSUME TypeOK, SavedInv, Leaves
  PROVE  (NoResurrection /\ WaitingJobsAreDurable /\ OnlyFilesList)'
<1>1. /\ disk \in SavedState /\ disk'.queue = disk.queue
      /\ disk'.kind \in {disk.kind, "dir"}
      /\ disk'.kind = disk.kind \/ Len(disk.queue) = 0
  BY DEF Leaves, TypeOK, SavedState, SavedInv, OnlyFilesList
<1>2. \A i \in 1..Len(disk.queue) : disk.queue[i].job \in Job
  BY <1>1, SavedJobs
<1>3. NoResurrection'
  BY <1>1, <1>2 DEF Leaves, SavedInv, NoResurrection
<1>4. WaitingJobsAreDurable'
  BY <1>1 DEF Leaves, SavedInv, WaitingJobsAreDurable, Saved
<1>5. OnlyFilesList'
  BY <1>1 DEF SavedInv, OnlyFilesList
<1> QED BY <1>3, <1>4, <1>5

\* What a restart makes of the jobs that the file lists, and of the others.
LEMMA Reloaded ==
  ASSUME TypeOK, NEW torn \in BOOLEAN, CrashRestart(torn), TypeOK', SavedOnce'
  PROVE  /\ disk' = disk \/ (disk'.kind = "file" /\ disk'.queue = <<>>)
         /\ \A i \in 1..Len(disk'.queue) :
              /\ disk'.queue[i].job \in Job
              /\ status'[disk'.queue[i].job] = "queued"
              /\ retries'[disk'.queue[i].job] = disk'.queue[i].retries
         /\ \A j \in Job : (\A i \in 1..Len(disk'.queue) : disk'.queue[i].job # j) =>
              /\ status'[j] \in {status[j], "gone"} /\ status'[j] # "queued" /\ retries'[j] = 0
              /\ status[j] \in Terminal => status'[j] = status[j]
<1>1. /\ disk' = disk \/ (disk'.kind = "file" /\ disk'.queue = <<>>)
      /\ status' = LoadedStatus(disk'.queue) /\ retries' = LoadedRetries(disk'.queue)
  BY DEF CrashRestart, NoFile
<1>2. DOMAIN disk'.queue = 1..Len(disk'.queue)
      /\ \A i \in 1..Len(disk'.queue) : disk'.queue[i].job \in Job
  BY SavedJobs DEF TypeOK
<1>3. ASSUME NEW i \in 1..Len(disk'.queue)
      PROVE  /\ status'[disk'.queue[i].job] = "queued"
             /\ retries'[disk'.queue[i].job] = disk'.queue[i].retries
  <2> DEFINE j == disk'.queue[i].job
             k == CHOOSE k \in DOMAIN disk'.queue : disk'.queue[k].job = j
  <2>1. j \in Job /\ i \in DOMAIN disk'.queue
    BY <1>2
  <2>2. k \in DOMAIN disk'.queue /\ disk'.queue[k].job = j
    BY <2>1
  <2>3. k = i
    BY <1>2, <2>2 DEF SavedOnce
  <2>4. retries'[j] = disk'.queue[k].retries
    BY <1>1, <2>1 DEF LoadedRetries
  <2>5. status'[j] = "queued"
    BY <1>1, <2>1 DEF LoadedStatus
  <2> QED BY <2>3, <2>4, <2>5
<1>4. ASSUME NEW j \in Job, \A i \in 1..Len(disk'.queue) : disk'.queue[i].job # j
      PROVE  /\ status'[j] \in {status[j], "gone"} /\ status'[j] # "queued" /\ retries'[j] = 0
             /\ status[j] \in Terminal => status'[j] = status[j]
  BY <1>1, <1>2, <1>4 DEF LoadedStatus, LoadedRetries, Terminal
<1> QED BY <1>1, <1>2, <1>3, <1>4

\* A restart finds what is on disk, whole or torn.
LEMMA RestartKeepsFaith ==
  ASSUME TypeOK, SavedInv, NEW torn \in BOOLEAN, CrashRestart(torn), TypeOK', SavedOnce'
  PROVE  (NoResurrection /\ WaitingJobsAreDurable /\ OnlyFilesList)' /\ OutcomesStay
<1>1. NoResurrection'
  BY Reloaded DEF NoResurrection, Terminal
<1>2. WaitingJobsAreDurable'
  BY Reloaded DEF WaitingJobsAreDurable, Settled, Saved
<1>3. OnlyFilesList'
  BY Reloaded DEF SavedInv, OnlyFilesList
<1>4. ASSUME NEW j \in Job, status[j] \in Terminal PROVE status'[j] = status[j]
  <2>1. \A i \in 1..Len(disk'.queue) : disk'.queue[i].job # j
    BY <1>4, Reloaded DEF SavedInv, NoResurrection
  <2> QED BY <1>4, <2>1, Reloaded
<1> QED BY <1>1, <1>2, <1>3, <1>4 DEF OutcomesStay

\* Without a tear, what a restart finds is what had been saved.
LEMMA RestartIsTrue ==
  ASSUME TypeOK, SavedInv, NEW torn \in BOOLEAN, CrashRestart(torn), TypeOK', SavedOnce',
         NEW j \in Job
  PROVE  /\ status'[j] = "queued" => status[j] \notin Terminal
         /\ Settled(j) => \/ status'[j] = "queued" /\ retries'[j] = retries[j]
                          \/ disk' # disk \/ disk.kind = "dir"
<1>1. status'[j] = "queued" => status[j] \notin Terminal
  BY RestartKeepsFaith DEF OutcomesStay, Terminal
<1>2. ASSUME Settled(j), disk' = disk, disk.kind # "dir"
      PROVE  status'[j] = "queued" /\ retries'[j] = retries[j]
  <2>1. PICK i \in 1..Len(disk.queue) : Saved(j, i)
    BY <1>2 DEF SavedInv, WaitingJobsAreDurable
  <2> QED BY <1>2, <2>1, Reloaded DEF Saved
<1> QED BY <1>1, <1>2

\* Only retries and restarts change how often a job was retried.
LEMMA FreshStep ==
  ASSUME TypeOK, FreshJobs, [Next]_vars, TypeOK', SavedOnce'
  PROVE  FreshJobs'
<1>1. ASSUME NEW j \in Job, Enqueue(j) \/ Succeed(j) \/ Fail(j) \/ Retry(j) \/ BackoffWake(j)
      PROVE  FreshJobs'
  BY <1>1 DEF Enqueue, Succeed, Fail, Retry, BackoffWake, FreshJobs, TypeOK
<1>2. ASSUME NEW j \in Job, NEW r \in Recurring, Fire(r, j) PROVE FreshJobs'
  BY <1>2 DEF Fire, FreshJobs, TypeOK
<1>3. ASSUME NEW i \in 1..Len(queue), Dequeue(i) PROVE FreshJobs'
  BY <1>3 DEF Dequeue, FreshJobs, TypeOK
<1>4. CASE Dispatch
  BY <1>4 DEF Dispatch, FreshJobs, TypeOK
<1>5. ASSUME NEW torn \in BOOLEAN, CrashRestart(torn) PROVE FreshJobs'
  BY <1>5, Reloaded DEF FreshJobs
<1>6. ASSUME UNCHANGED <<status, retries>> PROVE FreshJobs'
  BY <1>6 DEF FreshJobs
<1> QED
  BY <1>1, <1>2, <1>3, <1>4, <1>5, <1>6
     DEF Next, ScheduleRecurring, RemoveRecurring, EnableRecurring, ClearCompleted,
         SaveCheckpoint, StartLoop, Stop, TickBegin, ScanBegin, Skip, ScanEnd, LoopExit,
         memory, vars

FileInv == TypeOK /\ QueueInv /\ SavedInv

LEMMA FileStep == FileInv /\ [Next]_vars => FileInv' /\ OutcomesStay
<1> SUFFICES ASSUME FileInv, [Next]_vars PROVE FileInv' /\ OutcomesStay
  OBVIOUS
<1>1. TypeOK' /\ QueueInv' /\ SaveEffect
  BY TypeStep, QueueStep, SaveKinds DEF FileInv, SavedInv
<1>2. FreshJobs'
  BY <1>1, FreshStep DEF FileInv, QueueInv, SavedInv
<1>3. (NoResurrection /\ WaitingJobsAreDurable /\ OnlyFilesList)' /\ OutcomesStay
  BY <1>1, SaveKeepsFaith, LeaveKeepsFaith, RestartKeepsFaith
     DEF FileInv, QueueInv, SaveEffect, Saves, Leaves
<1> QED BY <1>1, <1>2, <1>3 DEF FileInv, SavedInv

LEMMA FileInit == Init => FileInv
<1>1. Init => SavedInv
  BY DEF Init, NoFile, SavedInv, NoResurrection, WaitingJobsAreDurable, Settled,
     OnlyFilesList, FreshJobs
<1> QED BY <1>1, TypeInit, QueueInit DEF FileInv

\* Only a restart counts as a death.
LEMMA OnlyRestarts ==
  ASSUME [Next]_vars, crashes' # crashes  PROVE \E torn \in BOOLEAN : CrashRestart(torn)
BY DEF Next, Enqueue, Succeed, Fail, Retry, BackoffWake, Fire, Dequeue, Dispatch,
       ScheduleRecurring, RemoveRecurring, EnableRecurring, ClearCompleted, SaveCheckpoint,
       StartLoop, Stop, TickBegin, ScanBegin, Skip, ScanEnd, LoopExit, vars

\* For any jobs, retries and number of crashes, a restart brings back every
\* settled job, with the retries it had used up, and none whose outcome was
\* reported. A death inside the save is the exception the formula names: it
\* empties the file (workflow_orchestrator.py:295), and what waited is lost.
THEOREM RestartIsAlwaysFaithful == Spec => RestartIsFaithful
<1>1. FileInv /\ [Next]_vars => FileInv'
  BY FileStep
<1>2. FileInv /\ FileInv' /\ [Next]_vars =>
        [crashes' # crashes =>
           \A j \in Job :
             /\ status'[j] = "queued" => status[j] \notin Terminal
             /\ Settled(j) => \/ status'[j] = "queued" /\ retries'[j] = retries[j]
                              \/ DiedSaving \/ disk.kind = "dir"]_vars
  BY OnlyRestarts, RestartIsTrue DEF FileInv, QueueInv, DiedSaving
<1> QED BY <1>1, <1>2, FileInit, PTL DEF Spec, RestartIsFaithful

\* No retry, late wake-up or restart changes an outcome that was reported.
THEOREM OutcomesAreFinal == Spec => OutcomeIsFinal
<1>1. FileInv /\ [Next]_vars => FileInv'
  BY FileStep
<1>2. FileInv /\ [Next]_vars
        => [\A j \in Job : status[j] \in Terminal => status'[j] = status[j]]_vars
  BY FileStep DEF OutcomesStay
<1> QED BY <1>1, <1>2, FileInit, PTL DEF Spec, OutcomeIsFinal
=============================================================================
