-------------------------- MODULE AuditLoggerProofs --------------------------
(***************************************************************************)
(* Theorems about AuditLogger for every value of its constants: any number *)
(* of loggers, any capacity, file size, number of backups and of faults.   *)
(***************************************************************************)
EXTENDS AuditLogger, SequenceTheorems, TLAPS

-----------------------------------------------------------------------------
(***************************************************************************)
(* The entries.  The part of TypeOK that counts them:                      *)
(***************************************************************************)

PC == {"get", "flush", "drops", "marker", "subtract", "entry", "done"}

CountsOK ==
  /\ calls \in [Logger -> Nat]
  /\ queue \in [Logger -> Seq(Stamp)]
  /\ refused \in [Logger -> Nat]
  /\ dropped \in [Logger -> Nat]
  /\ unreported \in [Logger -> Nat]
  /\ failed \in [Logger -> Nat]
  /\ shutdown \in [Logger -> BOOLEAN]
  /\ pc \in [Logger -> PC]
  /\ hand \in [Logger -> Stamp \cup {"none"}]
  /\ pending \in [Logger -> Nat]
  /\ written \in [Logger -> Nat]
  /\ marked \in [Logger -> Nat]
  /\ badMarkers \in [Logger -> Nat]
  /\ \A l \in Logger : Len(queue[l]) <= Capacity

\* The writer holds an entry exactly where it has one to write.
HandMatchesPlace ==
  \A l \in Logger : /\ pc[l] = "entry" => hand[l] # "none"
                    /\ pc[l] \in {"get", "flush", "done"} => hand[l] = "none"

\* A marker reports drops that are still to be subtracted.
PendingIsUnreported ==
  \A l \in Logger : pc[l] \in {"marker", "subtract"} => pending[l] <= unreported[l]

\* After the flush has found the queue empty only late entries arrive.
OnlyLateRemain ==
  \A l \in Logger :
    /\ pc[l] = "flush" => shutdown[l]
    /\ pc[l] \in {"drops", "marker", "subtract", "done"} /\ hand[l] = "none" =>
         shutdown[l] /\ \A i \in 1..Len(queue[l]) : queue[l][i] = "late"

EntryInv ==
  /\ CountsOK /\ HandMatchesPlace /\ PendingIsUnreported /\ OnlyLateRemain
  /\ CallsAreAccounted /\ DropsAreReported

(***************************************************************************)
(* The two sums of one logger, over natural numbers.                       *)
(***************************************************************************)

Waiting(m) == Len(queue[m])

Balanced(m) ==
  /\ calls[m] = Waiting(m) + refused[m] + Held(m)
                + written[m] + dropped[m] + (failed[m] - badMarkers[m])
  /\ dropped[m] = marked[m] + unreported[m] - Reporting(m)

Terms(m) ==
  <<calls[m], Waiting(m), refused[m], Held(m), written[m], dropped[m],
    failed[m], badMarkers[m], marked[m], unreported[m], Reporting(m)>>

\* Every term of the two balances is a natural number.
LEMMA TermsAreNat ==
  ASSUME CountsOK, NEW m \in Logger
  PROVE  /\ calls[m] \in Nat /\ Waiting(m) \in Nat /\ refused[m] \in Nat
         /\ Held(m) \in Nat /\ written[m] \in Nat /\ dropped[m] \in Nat
         /\ failed[m] \in Nat /\ badMarkers[m] \in Nat /\ marked[m] \in Nat
         /\ unreported[m] \in Nat /\ Reporting(m) \in Nat /\ pending[m] \in Nat
<1>1. Waiting(m) \in Nat
  BY DEF CountsOK, Waiting
<1>2. Held(m) \in Nat /\ Reporting(m) \in Nat
  BY DEF CountsOK, Held, Reporting
<1> QED BY <1>1, <1>2 DEF CountsOK

\* The two sums over all loggers say the same as the balance of each of them.
LEMMA BothSums ==
  (\A m \in Logger : Balanced(m)) <=> (CallsAreAccounted /\ DropsAreReported)
  BY DEF Balanced, Waiting, CallsAreAccounted, DropsAreReported

\* The same after a step.
LEMMA BothSumsNext ==
  ASSUME \A m \in Logger : Balanced(m)'
  PROVE  CallsAreAccounted' /\ DropsAreReported'
  BY DEF Balanced, Waiting, CallsAreAccounted, DropsAreReported

\* A logger none of whose terms changes stays balanced.
LEMMA SameTerms ==
  ASSUME NEW m \in Logger, Balanced(m), UNCHANGED Terms(m)
  PROVE  Balanced(m)'
  BY DEF Balanced, Terms

\* A new logger has nothing to account for.
LEMMA EntryInvInit == Init => EntryInv
<1> SUFFICES ASSUME Init PROVE EntryInv
  OBVIOUS
<1>1. CountsOK
  BY ConstantsAssumption DEF Init, CountsOK, PC, Stamp
<1>2. HandMatchesPlace /\ PendingIsUnreported /\ OnlyLateRemain
  BY DEF Init, HandMatchesPlace, PendingIsUnreported, OnlyLateRemain
<1>3. CallsAreAccounted /\ DropsAreReported
  BY DEF Init, CallsAreAccounted, DropsAreReported, Held, Reporting
<1> QED BY <1>1, <1>2, <1>3 DEF EntryInv

-----------------------------------------------------------------------------
(***************************************************************************)
(* Every action keeps the invariant.                                       *)
(***************************************************************************)

\* An accepted entry is one more call and one more waiting entry.
LEMMA PutKeeps == ASSUME EntryInv, NEW l \in Logger, Put(l) PROVE EntryInv'
<1> DEFINE e == IF shutdown[l] THEN "late" ELSE "early"
           q == Append(queue[l], e)
<1>1. /\ q \in Seq(Stamp)
      /\ Len(q) = Len(queue[l]) + 1
      /\ \A i \in 1..Len(queue[l]) + 1 :
           q[i] = IF i = Len(queue[l]) + 1 THEN e ELSE queue[l][i]
  <2>1. queue[l] \in Seq(Stamp) /\ e \in Stamp
    BY DEF EntryInv, CountsOK, Stamp
  <2> HIDE DEF e
  <2> QED BY <2>1
<1>2. queue' = [queue EXCEPT ![l] = q] /\ calls' = [calls EXCEPT ![l] = @ + 1]
  BY DEF Put, Plus1
<1>3. shutdown[l] => e = "late"
  OBVIOUS
<1> HIDE DEF q, e
<1>4. CountsOK'
  <2>1. queue' \in [Logger -> Seq(Stamp)] /\ calls' \in [Logger -> Nat]
    BY <1>1, <1>2 DEF EntryInv, CountsOK
  <2>2. \A m \in Logger : Len(queue'[m]) <= Capacity
    BY <1>1, <1>2, ConstantsAssumption DEF EntryInv, CountsOK, Put
  <2> QED BY <2>1, <2>2 DEF EntryInv, CountsOK, Put, thread, tally
<1>5. HandMatchesPlace' /\ PendingIsUnreported'
  BY DEF EntryInv, HandMatchesPlace, PendingIsUnreported, Put, thread
<1>6. OnlyLateRemain'
  <2> SUFFICES ASSUME NEW m \in Logger,
                      pc[m] \in {"drops", "marker", "subtract", "done"}, hand[m] = "none",
                      NEW i \in 1..Len(queue'[m])
               PROVE  queue'[m][i] = "late"
    BY DEF EntryInv, OnlyLateRemain, Put, thread
  <2>1. shutdown[m] /\ \A k \in 1..Len(queue[m]) : queue[m][k] = "late"
    BY DEF EntryInv, OnlyLateRemain
  <2>2. CASE m = l
    <3>1. queue'[m] = q
      BY <1>2, <2>2 DEF EntryInv, CountsOK
    <3>2. Len(queue[m]) \in Nat
      BY DEF EntryInv, CountsOK
    <3> QED BY <1>1, <1>3, <2>1, <2>2, <3>1, <3>2
  <2>3. CASE m # l
    BY <1>2, <2>1, <2>3 DEF EntryInv, CountsOK
  <2> QED BY <2>2, <2>3
<1>7. ASSUME NEW m \in Logger PROVE Balanced(m)'
  <2>0. Balanced(m)
    BY BothSums DEF EntryInv
  <2>1. UNCHANGED <<refused[m], Held(m), written[m], dropped[m], failed[m], badMarkers[m],
                    marked[m], unreported[m], Reporting(m)>>
    BY DEF Put, thread, tally, Held, Reporting
  <2>2. CASE m = l
    <3>1. calls'[m] = calls[m] + 1 /\ Waiting(m)' = Waiting(m) + 1
      BY <1>1, <1>2, <2>2 DEF EntryInv, CountsOK, Waiting
    <3> QED BY <2>0, <2>1, <3>1, TermsAreNat DEF EntryInv, Balanced
  <2>3. CASE m # l
    <3>1. UNCHANGED <<calls[m], Waiting(m)>>
      BY <1>2, <2>3 DEF EntryInv, CountsOK, Waiting
    <3> QED BY <2>0, <2>1, <3>1, SameTerms DEF Terms
  <2> QED BY <2>2, <2>3
<1>8. CallsAreAccounted' /\ DropsAreReported'
  BY <1>7, BothSumsNext
<1> QED BY <1>4, <1>5, <1>6, <1>8 DEF EntryInv

\* A refused entry is one more call, whose drop is still to be counted.
LEMMA RefuseKeeps ==
  ASSUME EntryInv, NEW l \in Logger, Refuse(l)
  PROVE  EntryInv'
<1>1. CountsOK'
  <2>1. calls' \in [Logger -> Nat] /\ refused' \in [Logger -> Nat]
    BY DEF EntryInv, CountsOK, Refuse, Plus1
  <2> QED BY <2>1 DEF EntryInv, CountsOK, Refuse, thread, tally
<1>2. HandMatchesPlace' /\ PendingIsUnreported' /\ OnlyLateRemain'
  BY DEF EntryInv, CountsOK, HandMatchesPlace, PendingIsUnreported, OnlyLateRemain,
         Refuse, thread
<1>3. ASSUME NEW m \in Logger PROVE Balanced(m)'
  <2>0. Balanced(m)
    BY BothSums DEF EntryInv
  <2>1. UNCHANGED <<Waiting(m), Held(m), written[m], dropped[m], failed[m], badMarkers[m],
                    marked[m], unreported[m], Reporting(m)>>
    BY DEF Refuse, thread, tally, Waiting, Held, Reporting
  <2>2. CASE m = l
    <3>1. calls'[m] = calls[m] + 1 /\ refused'[m] = refused[m] + 1
      BY <2>2 DEF EntryInv, CountsOK, Refuse, Plus1
    <3> QED BY <2>0, <2>1, <3>1, TermsAreNat DEF EntryInv, Balanced
  <2>3. CASE m # l
    <3>1. UNCHANGED Terms(m)
      BY <2>1, <2>3 DEF EntryInv, CountsOK, Terms, Refuse, Plus1
    <3> QED BY <2>0, <3>1, SameTerms
  <2> QED BY <2>2, <2>3
<1>4. CallsAreAccounted' /\ DropsAreReported'
  BY <1>3, BothSumsNext
<1> QED BY <1>1, <1>2, <1>4 DEF EntryInv

\* Counting one more for a logger leaves a counter of naturals.
LEMMA Plus1Type ==
  ASSUME NEW f \in [Logger -> Nat], NEW l \in Logger
  PROVE  Plus1(f, l) \in [Logger -> Nat]
BY DEF Plus1

\* The caller of a refused entry counts the drop, for close() and for the marker.
LEMMA RecordDropKeeps ==
  ASSUME EntryInv, NEW l \in Logger, RecordDrop(l)
  PROVE  EntryInv'
<1>1. CountsOK'
  <2>1. CountsOK
    BY DEF EntryInv
  <2>2. refused' \in [Logger -> Nat]
    <3>1. refused \in [Logger -> Nat] /\ refused[l] > 0
          /\ refused' = [refused EXCEPT ![l] = @ - 1]
      BY <2>1 DEF CountsOK, RecordDrop
    <3>2. refused[l] - 1 \in Nat
      BY <3>1
    <3> QED BY <3>1, <3>2
  <2>3. dropped' \in [Logger -> Nat] /\ unreported' \in [Logger -> Nat]
    <3>1. dropped \in [Logger -> Nat] /\ unreported \in [Logger -> Nat]
      BY <2>1 DEF CountsOK
    <3>2. dropped' = Plus1(dropped, l) /\ unreported' = Plus1(unreported, l)
      BY DEF RecordDrop
    <3> QED BY <3>1, <3>2, Plus1Type
  <2>4. UNCHANGED <<calls, queue, failed, shutdown, pc, hand, pending, written, marked,
                    badMarkers>>
    BY DEF RecordDrop, thread, tally
  <2> QED BY <2>1, <2>2, <2>3, <2>4 DEF CountsOK
<1>2. HandMatchesPlace' /\ PendingIsUnreported' /\ OnlyLateRemain'
  BY DEF EntryInv, CountsOK, HandMatchesPlace, PendingIsUnreported, OnlyLateRemain,
         RecordDrop, Plus1, thread
<1>3. ASSUME NEW m \in Logger PROVE Balanced(m)'
  <2>0. Balanced(m)
    BY BothSums DEF EntryInv
  <2>1. UNCHANGED <<calls[m], Waiting(m), Held(m), written[m], failed[m], badMarkers[m],
                    marked[m], Reporting(m)>>
    BY DEF RecordDrop, thread, tally, Waiting, Held, Reporting
  <2>2. CASE m = l
    <3>1. /\ refused'[m] = refused[m] - 1 /\ dropped'[m] = dropped[m] + 1
          /\ unreported'[m] = unreported[m] + 1
      BY <2>2 DEF EntryInv, CountsOK, RecordDrop, Plus1
    <3> QED BY <2>0, <2>1, <3>1, TermsAreNat DEF EntryInv, Balanced
  <2>3. CASE m # l
    <3>1. UNCHANGED Terms(m)
      BY <2>1, <2>3 DEF EntryInv, CountsOK, Terms, RecordDrop, Plus1
    <3> QED BY <2>0, <3>1, SameTerms
  <2> QED BY <2>2, <2>3
<1>4. CallsAreAccounted' /\ DropsAreReported'
  BY <1>3, BothSumsNext
<1> QED BY <1>1, <1>2, <1>4 DEF EntryInv

\* close() only sets the event.
LEMMA CloseKeeps ==
  ASSUME EntryInv, NEW l \in Logger, Close(l)
  PROVE  EntryInv'
<1>1. CountsOK'
  BY DEF EntryInv, CountsOK, Close, callers, tally
<1>2. HandMatchesPlace' /\ PendingIsUnreported' /\ OnlyLateRemain'
  BY DEF EntryInv, CountsOK, HandMatchesPlace, PendingIsUnreported, OnlyLateRemain,
         Close
<1>3. ASSUME NEW m \in Logger PROVE Balanced(m)'
  <2>1. UNCHANGED Terms(m)
    BY DEF EntryInv, CountsOK, Terms, Waiting, Held, Reporting,
           Close, callers, tally
  <2> QED BY <2>1, SameTerms, BothSums DEF EntryInv
<1>4. CallsAreAccounted' /\ DropsAreReported'
  BY <1>3, BothSumsNext
<1> QED BY <1>1, <1>2, <1>4 DEF EntryInv

\* The writer's get moves an entry from the queue into its hand.
LEMMA TakeKeeps ==
  ASSUME EntryInv, NEW l \in Logger, Take(l)
  PROVE  EntryInv'
<1>0. /\ Head(queue[l]) \in Stamp
      /\ Tail(queue[l]) \in Seq(Stamp)
      /\ Len(Tail(queue[l])) = Len(queue[l]) - 1
  <2>1. queue[l] \in Seq(Stamp) /\ queue[l] # <<>>
    BY DEF EntryInv, CountsOK, Take
  <2> QED BY <2>1
<1> DEFINE q == Tail(queue[l])
           e == Head(queue[l])
<1>a. /\ queue' = [queue EXCEPT ![l] = q] /\ hand' = [hand EXCEPT ![l] = e]
      /\ hand[l] = "none" /\ e # "none"
  BY <1>0 DEF Take, EntryInv, HandMatchesPlace, Stamp
<1> HIDE DEF q, e
<1>1. CountsOK'
  <2>1. queue' \in [Logger -> Seq(Stamp)] /\ hand' \in [Logger -> Stamp \cup {"none"}]
    BY <1>0, <1>a DEF EntryInv, CountsOK, q, e
  <2>2. pc' \in [Logger -> PC]
    BY DEF EntryInv, CountsOK, Take, Goto, PC
  <2>3. \A m \in Logger : Len(queue'[m]) <= Capacity
    BY <1>0, <1>a, ConstantsAssumption DEF EntryInv, CountsOK, q
  <2> QED BY <2>1, <2>2, <2>3 DEF EntryInv, CountsOK, Take, callers, tally
<1>2. HandMatchesPlace' /\ PendingIsUnreported' /\ OnlyLateRemain'
  <2>1. ASSUME NEW m \in Logger, m # l
        PROVE  UNCHANGED <<pc[m], hand[m], queue[m]>>
    BY <1>a, <2>1 DEF EntryInv, CountsOK, Take, Goto
  <2>2. pc'[l] = "drops" /\ hand'[l] # "none"
    BY <1>a DEF EntryInv, CountsOK, Take, Goto
  <2> QED BY <2>1, <2>2 DEF EntryInv, HandMatchesPlace, PendingIsUnreported, OnlyLateRemain, Take
<1>3. ASSUME NEW m \in Logger PROVE Balanced(m)'
  <2>0. Balanced(m)
    BY BothSums DEF EntryInv
  <2>1. UNCHANGED <<calls[m], refused[m], written[m], dropped[m], failed[m], badMarkers[m],
                    marked[m], unreported[m], Reporting(m)>>
    BY DEF EntryInv, CountsOK, Take, Goto, callers, tally, Reporting
  <2>2. CASE m = l
    <3>1. Waiting(m)' = Waiting(m) - 1 /\ Held(m) = 0 /\ Held(m)' = 1
      BY <2>2, <1>0, <1>a DEF EntryInv, CountsOK, Waiting, Held, q, Take, Goto
    <3> QED BY <2>0, <2>1, <3>1, TermsAreNat DEF EntryInv, Balanced
  <2>3. CASE m # l
    <3>1. UNCHANGED Terms(m)
      BY <1>a, <2>1, <2>3 DEF EntryInv, CountsOK, Terms, Waiting, Held, q, Take, Goto
    <3> QED BY <2>0, <3>1, SameTerms
  <2> QED BY <2>2, <2>3
<1>4. CallsAreAccounted' /\ DropsAreReported'
  BY <1>3, BothSumsNext
<1> QED BY <1>1, <1>2, <1>4 DEF EntryInv

\* An empty queue sends the writer to its drops or ends it.
LEMMA EmptyKeeps ==
  ASSUME EntryInv, NEW l \in Logger, Empty(l)
  PROVE  EntryInv'
<1>1. CountsOK'
  <2>1. pc' \in [Logger -> PC]
    BY DEF EntryInv, CountsOK, Empty, Goto, LoopCheck, PC
  <2> QED BY <2>1 DEF EntryInv, CountsOK, Empty, callers, tally
<1>2. HandMatchesPlace' /\ PendingIsUnreported' /\ OnlyLateRemain'
  <2>1. /\ \A m \in Logger : m # l => pc'[m] = pc[m]
        /\ pc'[l] = (IF pc[l] = "get" THEN LoopCheck(l) ELSE "drops")
    BY DEF EntryInv, CountsOK, Empty, Goto
  <2>2. queue[l] = <<>> /\ hand[l] = "none" /\ (pc[l] = "flush" => shutdown[l])
    BY DEF EntryInv, Empty, HandMatchesPlace, OnlyLateRemain
  <2> QED BY <2>1, <2>2 DEF EntryInv, HandMatchesPlace, PendingIsUnreported, OnlyLateRemain,
                            Empty, LoopCheck
<1>3. ASSUME NEW m \in Logger PROVE Balanced(m)'
  <2>1. UNCHANGED Terms(m)
    BY DEF EntryInv, CountsOK, Terms, Waiting, Held, Reporting,
           Empty, Goto, LoopCheck, callers, tally
  <2> QED BY <2>1, SameTerms, BothSums DEF EntryInv
<1>4. CallsAreAccounted' /\ DropsAreReported'
  BY <1>3, BothSumsNext
<1> QED BY <1>1, <1>2, <1>4 DEF EntryInv

\* Reading the counter under the lock changes no balance.
LEMMA ReadDropsKeeps ==
  ASSUME EntryInv, NEW l \in Logger, ReadDrops(l)
  PROVE  EntryInv'
<1>1. CountsOK'
  <2>1. pc' \in [Logger -> PC] /\ pending' \in [Logger -> Nat]
    BY DEF EntryInv, CountsOK, ReadDrops, Goto, AfterMarker, PC
  <2> QED BY <2>1 DEF EntryInv, CountsOK, ReadDrops, callers, tally
<1>2. HandMatchesPlace' /\ PendingIsUnreported' /\ OnlyLateRemain'
  <2>1. /\ \A m \in Logger : m # l => UNCHANGED <<pc[m], pending[m]>>
        /\ pc'[l] = (IF unreported[l] > 0 THEN "marker" ELSE AfterMarker(l))
        /\ pending'[l] = unreported[l]
        /\ unreported[l] \in Nat
    BY DEF EntryInv, CountsOK, ReadDrops, Goto
  <2>2. HandMatchesPlace' /\ PendingIsUnreported'
    BY <2>1 DEF EntryInv, HandMatchesPlace, PendingIsUnreported, ReadDrops, AfterMarker
  <2>3. OnlyLateRemain'
    BY <2>1 DEF EntryInv, OnlyLateRemain, ReadDrops, AfterMarker
  <2> QED BY <2>2, <2>3
<1>3. ASSUME NEW m \in Logger PROVE Balanced(m)'
  <2>1. UNCHANGED Terms(m)
    BY DEF EntryInv, CountsOK, Terms, Waiting, Held, Reporting,
           ReadDrops, Goto, AfterMarker, callers, tally
  <2> QED BY <2>1, SameTerms, BothSums DEF EntryInv
<1>4. CallsAreAccounted' /\ DropsAreReported'
  BY <1>3, BothSumsNext
<1> QED BY <1>1, <1>2, <1>4 DEF EntryInv

\* A marker reports the drops it was given, or fails and reports none.
LEMMA WriteMarkerKeeps ==
  ASSUME EntryInv, NEW l \in Logger, NEW stop, NEW outcome,
         WriteMarker(l, stop, outcome)
  PROVE  EntryInv'
<1>0. /\ pc[l] = "marker"
      /\ pc'[l] = (IF outcome = "ok" THEN "subtract" ELSE AfterMarker(l))
      /\ \A m \in Logger : m # l => pc'[m] = pc[m]
      /\ UNCHANGED <<calls, refused, dropped, queue, unreported, shutdown, hand, pending, written>>
  BY DEF EntryInv, CountsOK, WriteMarker, Goto, callers
<1>a. /\ marked' = [marked EXCEPT ![l] = IF outcome = "ok" THEN @ + pending[l] ELSE @]
      /\ failed' = [failed EXCEPT ![l] = IF outcome = "ok" THEN @ ELSE @ + 1]
      /\ badMarkers' = [badMarkers EXCEPT ![l] = IF outcome = "ok" THEN @ ELSE @ + 1]
  BY DEF EntryInv, CountsOK, WriteMarker, Plus1
<1>1. CountsOK'
  <2>1. pc' \in [Logger -> PC]
    BY DEF EntryInv, CountsOK, WriteMarker, Goto, AfterMarker, PC
  <2>2. /\ marked' \in [Logger -> Nat] /\ failed' \in [Logger -> Nat]
        /\ badMarkers' \in [Logger -> Nat]
    <3>1. marked' \in [Logger -> Nat]
      BY <1>a DEF EntryInv, CountsOK
    <3>2. failed' \in [Logger -> Nat]
      BY <1>a DEF EntryInv, CountsOK
    <3>3. badMarkers' \in [Logger -> Nat]
      BY <1>a DEF EntryInv, CountsOK
    <3> QED BY <3>1, <3>2, <3>3
  <2> QED BY <1>0, <2>1, <2>2 DEF EntryInv, CountsOK
<1>2. HandMatchesPlace' /\ PendingIsUnreported' /\ OnlyLateRemain'
  <2>1. HandMatchesPlace' /\ PendingIsUnreported'
    BY <1>0 DEF EntryInv, HandMatchesPlace, PendingIsUnreported, AfterMarker
  <2>2. OnlyLateRemain'
    BY <1>0 DEF EntryInv, OnlyLateRemain, AfterMarker
  <2> QED BY <2>1, <2>2
<1>3. ASSUME NEW m \in Logger PROVE Balanced(m)'
  <2>0. Balanced(m)
    BY BothSums DEF EntryInv
  <2>1. UNCHANGED <<calls[m], Waiting(m), refused[m], Held(m), written[m], dropped[m],
                    unreported[m]>>
    BY <1>0 DEF Waiting, Held
  <2>2. CASE m = l /\ outcome = "ok"
    <3>1. /\ marked'[m] = marked[m] + pending[m]
          /\ Reporting(m) = 0 /\ Reporting(m)' = pending[m]
          /\ UNCHANGED <<failed[m], badMarkers[m]>>
      BY <1>0, <1>a, <2>2 DEF EntryInv, CountsOK, Reporting
    <3> QED BY <2>0, <2>1, <3>1, TermsAreNat DEF EntryInv, Balanced
  <2>3. CASE m = l /\ outcome # "ok"
    <3>1. failed'[m] = failed[m] + 1 /\ badMarkers'[m] = badMarkers[m] + 1
      BY <1>a, <2>3 DEF EntryInv, CountsOK
    <3>2. UNCHANGED <<marked[m], Reporting(m)>>
      BY <1>0, <1>a, <2>3 DEF EntryInv, CountsOK, Reporting, AfterMarker
    <3> QED BY <2>0, <2>1, <3>1, <3>2, TermsAreNat DEF EntryInv, Balanced
  <2>4. CASE m # l
    <3>1. UNCHANGED Terms(m)
      BY <1>0, <1>a, <2>1, <2>4 DEF EntryInv, CountsOK, Terms, Reporting
    <3> QED BY <2>0, <3>1, SameTerms
  <2> QED BY <2>2, <2>3, <2>4
<1>4. CallsAreAccounted' /\ DropsAreReported'
  BY <1>3, BothSumsNext
<1> QED BY <1>1, <1>2, <1>4 DEF EntryInv

\* The writer subtracts exactly the drops its marker reported.
LEMMA SubtractKeeps ==
  ASSUME EntryInv, NEW l \in Logger, Subtract(l)
  PROVE  EntryInv'
<1>0. /\ pc[l] = "subtract" /\ pc'[l] = AfterMarker(l)
      /\ \A m \in Logger : m # l => UNCHANGED <<pc[m], unreported[m]>>
      /\ unreported'[l] = unreported[l] - pending[l]
      /\ UNCHANGED <<calls, refused, dropped, queue, failed, shutdown, hand, pending,
                     written, marked, badMarkers>>
  BY DEF EntryInv, CountsOK, PendingIsUnreported, Subtract, Goto, callers, tally
<1>1. CountsOK'
  <2>1. pc' \in [Logger -> PC] /\ unreported' \in [Logger -> Nat]
    BY DEF EntryInv, CountsOK, Subtract, Goto, AfterMarker, PC
  <2> QED BY <2>1, <1>0 DEF EntryInv, CountsOK
<1>2. HandMatchesPlace' /\ PendingIsUnreported' /\ OnlyLateRemain'
  <2>1. HandMatchesPlace' /\ PendingIsUnreported'
    BY <1>0 DEF EntryInv, HandMatchesPlace, PendingIsUnreported, AfterMarker
  <2>2. OnlyLateRemain'
    BY <1>0 DEF EntryInv, OnlyLateRemain, AfterMarker
  <2> QED BY <2>1, <2>2
<1>3. ASSUME NEW m \in Logger PROVE Balanced(m)'
  <2>0. Balanced(m)
    BY BothSums DEF EntryInv
  <2>1. UNCHANGED <<calls[m], Waiting(m), refused[m], Held(m), written[m], dropped[m],
                    failed[m], badMarkers[m], marked[m]>>
    BY <1>0 DEF Waiting, Held
  <2>2. CASE m = l
    <3>1. Reporting(m) = pending[m] /\ Reporting(m)' = 0
      BY <1>0, <2>2 DEF Reporting, AfterMarker
    <3>2. unreported'[m] = unreported[m] - pending[m]
      BY <1>0, <2>2
    <3> QED BY <2>0, <2>1, <3>1, <3>2, TermsAreNat DEF EntryInv, Balanced
  <2>3. CASE m # l
    <3>1. UNCHANGED Terms(m)
      BY <1>0, <2>1, <2>3 DEF Terms, Reporting
    <3> QED BY <2>0, <3>1, SameTerms
  <2> QED BY <2>2, <2>3
<1>4. CallsAreAccounted' /\ DropsAreReported'
  BY <1>3, BothSumsNext
<1> QED BY <1>1, <1>2, <1>4 DEF EntryInv

\* The entry in hand ends up in the file or among the failed ones.
LEMMA WriteEntryKeeps ==
  ASSUME EntryInv, NEW l \in Logger, NEW stop, NEW outcome,
         WriteEntry(l, stop, outcome)
  PROVE  EntryInv'
<1>0. /\ pc[l] = "entry" /\ pc'[l] = LoopCheck(l)
      /\ hand[l] # "none" /\ hand'[l] = "none"
      /\ \A m \in Logger : m # l => UNCHANGED <<pc[m], hand[m]>>
      /\ UNCHANGED <<calls, refused, dropped, queue, unreported, shutdown, pending,
                     marked, badMarkers>>
  BY DEF EntryInv, CountsOK, HandMatchesPlace, WriteEntry, Goto, callers
<1>a. /\ written' = [written EXCEPT ![l] = IF outcome = "ok" THEN @ + 1 ELSE @]
      /\ failed' = [failed EXCEPT ![l] = IF outcome = "ok" THEN @ ELSE @ + 1]
  BY DEF EntryInv, CountsOK, WriteEntry, Plus1
<1>1. CountsOK'
  <2>1. pc' \in [Logger -> PC] /\ hand' \in [Logger -> Stamp \cup {"none"}]
    BY DEF EntryInv, CountsOK, WriteEntry, Goto, LoopCheck, PC
  <2>2. written \in [Logger -> Nat] /\ failed \in [Logger -> Nat]
    BY DEF EntryInv, CountsOK
  <2>3. written' \in [Logger -> Nat] /\ failed' \in [Logger -> Nat]
    BY <1>a, <2>2
  <2> QED BY <1>0, <2>1, <2>3 DEF EntryInv, CountsOK
<1>2. HandMatchesPlace' /\ PendingIsUnreported' /\ OnlyLateRemain'
  <2>1. HandMatchesPlace' /\ PendingIsUnreported'
    BY <1>0 DEF EntryInv, HandMatchesPlace, PendingIsUnreported, LoopCheck
  <2>2. OnlyLateRemain'
    BY <1>0 DEF EntryInv, OnlyLateRemain, LoopCheck
  <2> QED BY <2>1, <2>2
<1>3. ASSUME NEW m \in Logger PROVE Balanced(m)'
  <2>0. Balanced(m)
    BY BothSums DEF EntryInv
  <2>1. UNCHANGED <<calls[m], Waiting(m), refused[m], dropped[m], badMarkers[m],
                    marked[m], unreported[m], Reporting(m)>>
    <3>1. UNCHANGED Reporting(m)
      BY <1>0 DEF Reporting, LoopCheck
    <3> QED BY <1>0, <3>1 DEF Waiting
  <2>2. CASE m = l
    <3>1. Held(m) = 1 /\ Held(m)' = 0
      BY <1>0, <2>2 DEF Held
    <3>2. \/ written'[m] = written[m] + 1 /\ failed'[m] = failed[m]
          \/ written'[m] = written[m] /\ failed'[m] = failed[m] + 1
      BY <1>a, <2>2 DEF EntryInv, CountsOK
    <3> QED BY <2>0, <2>1, <3>1, <3>2, TermsAreNat DEF EntryInv, Balanced
  <2>3. CASE m # l
    <3>1. UNCHANGED <<Held(m), written[m], failed[m]>>
      BY <1>0, <1>a, <2>3 DEF EntryInv, CountsOK, Held
    <3> QED BY <2>0, <2>1, <3>1, SameTerms DEF Terms
  <2> QED BY <2>2, <2>3
<1>4. CallsAreAccounted' /\ DropsAreReported'
  BY <1>3, BothSumsNext
<1> QED BY <1>1, <1>2, <1>4 DEF EntryInv

\* Every step keeps the accounts.
LEMMA EntryInvNext == EntryInv /\ [Next]_vars => EntryInv'
<1> SUFFICES ASSUME EntryInv, [Next]_vars PROVE EntryInv'
  OBVIOUS
<1>1. CASE UNCHANGED vars
  <2> USE <1>1 DEF EntryInv, vars, callers, thread, tally
  <2>1. CountsOK'
    BY DEF CountsOK
  <2>2. HandMatchesPlace' /\ PendingIsUnreported' /\ OnlyLateRemain'
    BY DEF HandMatchesPlace, PendingIsUnreported, OnlyLateRemain
  <2>3. CallsAreAccounted' /\ DropsAreReported'
    BY DEF CallsAreAccounted, DropsAreReported, Held, Reporting
  <2> QED BY <2>1, <2>2, <2>3
<1>2. ASSUME NEW l \in Logger, Put(l) \/ Refuse(l) \/ RecordDrop(l) \/ Close(l)
      PROVE EntryInv'
  BY <1>2, PutKeeps, RefuseKeeps, RecordDropKeeps, CloseKeeps
<1>3. ASSUME NEW l \in Logger, Writer(l) PROVE EntryInv'
  BY <1>3, TakeKeeps, EmptyKeeps, ReadDropsKeeps, SubtractKeeps, WriteMarkerKeeps, WriteEntryKeeps
     DEF Writer
<1> QED BY <1>1, <1>2, <1>3 DEF Next

\* In every state the accounts of callers, queue, writer and file balance.
THEOREM EntriesHold == Spec => []EntryInv
<1> QED BY EntryInvInit, EntryInvNext, PTL DEF Spec

\* Every call of log_action is written, waiting, in hand, or counted, for any
\* number of loggers and faults (audit/logger.py:107).
THEOREM EveryCallIsAccounted == Spec => []CallsAreAccounted
<1>1. EntryInv => CallsAreAccounted
  BY DEF EntryInv
<1> QED BY <1>1, EntriesHold, PTL

\* No drop is lost between the markers, and none is reported twice.
THEOREM EveryDropIsReported == Spec => []DropsAreReported
<1>1. EntryInv => DropsAreReported
  BY DEF EntryInv
<1> QED BY <1>1, EntriesHold, PTL

\* Whatever was logged before close() is settled when close() returns.
THEOREM CloseSettlesAll == Spec => []CloseSettles
<1>1. EntryInv => CloseSettles
  BY DEF EntryInv, CloseSettles, OnlyLateRemain, HandMatchesPlace
<1> QED BY <1>1, EntriesHold, PTL

\* Every call and every drop: nothing is lost without being counted.
THEOREM LossesAlwaysCounted == Spec => []LossesAreCounted
<1>1. CallsAreAccounted /\ DropsAreReported => LossesAreCounted
  BY DEF LossesAreCounted
<1> QED BY <1>1, EveryCallIsAccounted, EveryDropIsReported, PTL

-----------------------------------------------------------------------------
(***************************************************************************)
(* The chain.  A file is good when verify_audit_chain accepts it, when a   *)
(* write was torn in it, or when two failures met before it was started.   *)
(***************************************************************************)

ChainTypesOK ==
  /\ prevHash \in [Logger -> Nat \cup {Unknown}]
  /\ signature \in [Logger -> Nat \cup {Unknown}]
  /\ live \in File
  /\ backup \in [1..Backups -> File]
  /\ hashes \in Nat
  /\ faults \in 0..MaxFaults

Good(file, n) ==
  file # Unknown => \/ Damaged(file)
                    \/ Linked(file) /\ (AtGenesis(file) \/ n > 1)

FilesAreGood ==
  /\ Good(live, faults)
  /\ \A i \in 1..Backups : Good(backup[i], faults)

\* The signature a logger keeps is that of a line that was written, and the
\* logger then also keeps a hash.
SignaturesAreOld ==
  \A m \in Logger : signature[m] # Unknown =>
    signature[m] \in 1..hashes /\ prevHash[m] # Unknown

\* A logger that still recognises the file knows the hash of its last line.
CacheIsFresh ==
  \A m \in Logger :
    live \notin {Unknown, <<>>} /\ signature[m] = Last(live).hash =>
      prevHash[m] = Last(live).hash

\* A hash without a signature was cached by a write that failed, and only a
\* second failure can have removed the file since.
StaleHashesAreFaults ==
  \A m \in Logger : signature[m] = Unknown /\ prevHash[m] \notin {Unknown, 0} =>
    faults > IF live = Unknown THEN 1 ELSE 0

ChainInv ==
  /\ ChainTypesOK /\ FilesAreGood /\ SignaturesAreOld /\ CacheIsFresh
  /\ StaleHashesAreFaults

(***************************************************************************)
(* Appending a line.                                                       *)
(***************************************************************************)

\* The last line of a file that has lines, and the file without it.
LEMMA LastAndFront ==
  ASSUME NEW file \in Seq(FileLine), file # <<>>
  PROVE  /\ Len(file) \in Nat \ {0}
         /\ Last(file) \in FileLine
         /\ Last(file) = file[Len(file)]
         /\ Front(file) \in Seq(FileLine)
         /\ Len(Front(file)) = Len(file) - 1
<1>1. Len(file) \in Nat \ {0}
  BY EmptySeq
<1>2. Last(file) = file[Len(file)] /\ Front(file) = SubSeq(file, 1, Len(file) - 1)
  BY DEF Last, Front
<1>3. file[Len(file)] \in FileLine
  BY <1>1, ElementOfSeq
<1>4. SubSeq(file, 1, Len(file) - 1) \in Seq(FileLine)
      /\ Len(SubSeq(file, 1, Len(file) - 1)) = Len(file) - 1
  <2> DEFINE n == Len(file) - 1
  <2>1. n \in Nat /\ n = Len(file) - 1
    BY <1>1
  <2>2. \A i \in 1..n : file[i] \in FileLine
    BY <1>1, ElementOfSeq
  <2> HIDE DEF n
  <2>3. SubSeq(file, 1, n) \in Seq(FileLine)
        /\ Len(SubSeq(file, 1, n)) = IF 1 <= n THEN n - 1 + 1 ELSE 0
    BY <2>1, <2>2, SubSeqProperties
  <2>4. (IF 1 <= n THEN n - 1 + 1 ELSE 0) = n
    BY <2>1
  <2> QED BY <2>1, <2>3, <2>4 DEF n
<1> QED BY <1>1, <1>2, <1>3, <1>4

\* The new line is the last one of the file, garbled when it stands behind a
\* fragment without a newline.
LEMMA Appended ==
  ASSUME NEW file \in Seq(FileLine), NEW line \in FileLine
  PROVE  /\ AppendLine(file, line) \in Seq(FileLine) \ {<<>>}
         /\ Last(AppendLine(file, line)).hash = line.hash
         /\ \/ Damaged(AppendLine(file, line))
            \/ /\ AppendLine(file, line) = Append(file, line)
               /\ line.whole
               /\ file # <<>> => Last(file).ended
<1>1. CASE file # <<>> /\ ~Last(file).ended
  <2> DEFINE bad == [line EXCEPT !.whole = FALSE]
             new == Append(Front(file), bad)
  <2>1. AppendLine(file, line) = new
    BY <1>1 DEF AppendLine
  <2>2. bad \in FileLine /\ bad.hash = line.hash /\ bad.whole = FALSE
    BY DEF FileLine
  <2>3. Front(file) \in Seq(FileLine)
    BY <1>1, LastAndFront
  <2> HIDE DEF bad
  <2>4. /\ new \in Seq(FileLine)
        /\ Len(new) = Len(Front(file)) + 1
        /\ new[Len(new)] = bad
    BY <2>2, <2>3
  <2>5. new # <<>> /\ Len(new) \in DOMAIN new
    BY <2>3, <2>4
  <2>6. Last(new) = bad
    BY <2>4 DEF Last
  <2>7. Damaged(new)
    BY <2>2, <2>4, <2>5 DEF Damaged
  <2> HIDE DEF new
  <2> QED BY <2>1, <2>2, <2>4, <2>5, <2>6, <2>7
<1>2. CASE ~(file # <<>> /\ ~Last(file).ended)
  <2> DEFINE new == Append(file, line)
  <2>1. AppendLine(file, line) = new
    BY <1>2 DEF AppendLine
  <2>2. /\ new \in Seq(FileLine)
        /\ Len(new) = Len(file) + 1
        /\ new[Len(new)] = line
    OBVIOUS
  <2>3. new # <<>> /\ Len(new) \in DOMAIN new
    BY <2>2
  <2>4. Last(new) = line
    BY <2>2 DEF Last
  <2>5. Damaged(new) \/ line.whole
    BY <2>2, <2>3 DEF Damaged
  <2> HIDE DEF new
  <2> QED BY <1>2, <2>1, <2>2, <2>3, <2>4, <2>5 DEF new
<1> QED BY <1>1, <1>2

\* A line that points to the last line of a good file keeps the file good.
LEMMA AppendedIsGood ==
  ASSUME NEW file \in Seq(FileLine), NEW line \in FileLine, NEW n \in Nat,
         Good(file, n), file # Unknown,
         file # <<>> /\ Last(file).whole => line.prev = Last(file).hash,
         file = <<>> => line.prev = 0 \/ n > 1
  PROVE  Good(AppendLine(file, line), n)
<1>1. CASE Damaged(AppendLine(file, line))
  BY <1>1 DEF Good
<1>2. CASE /\ AppendLine(file, line) = Append(file, line)
           /\ line.whole
           /\ file # <<>> => Last(file).ended
  <2> DEFINE new == Append(file, line)
  <2>1. /\ Len(new) = Len(file) + 1 /\ Len(file) \in Nat
        /\ DOMAIN new = 1..Len(file) + 1 /\ DOMAIN file = 1..Len(file)
        /\ \A i \in 1..Len(file) : new[i] = file[i]
        /\ new[Len(file) + 1] = line
    OBVIOUS
  <2> HIDE DEF new
  <2>2. CASE Damaged(file)
    <3>1. Damaged(new)
      BY <2>1, <2>2 DEF Damaged
    <3> QED BY <1>2, <3>1 DEF Good, new
  <2>3. CASE ~Damaged(file) /\ file # <<>>
    <3>1. Linked(file) /\ (AtGenesis(file) \/ n > 1)
      BY <2>3 DEF Good
    <3>2. Len(file) \in 1..Len(file) /\ Last(file) = file[Len(file)]
      BY <2>1, <2>3, LastAndFront
    <3>3. line.prev = file[Len(file)].hash
      BY <2>1, <2>3, <3>2 DEF Damaged
    <3>4. Linked(new)
      <4> SUFFICES ASSUME NEW i \in 1..Len(file) + 1, i > 1
                   PROVE  new[i].prev = new[i-1].hash
        BY <2>1 DEF Linked
      <4>1. CASE i = Len(file) + 1
        BY <2>1, <3>2, <3>3, <4>1
      <4>2. CASE i # Len(file) + 1
        <5>1. i \in 1..Len(file) /\ i - 1 \in 1..Len(file)
          BY <2>1, <4>2
        <5>2. file[i].prev = file[i-1].hash
          BY <2>1, <3>1, <5>1 DEF Linked
        <5> QED BY <2>1, <5>1, <5>2
      <4> QED BY <4>1, <4>2
    <3>5. AtGenesis(new) \/ n > 1
      <4>1. 1 \in 1..Len(file)
        BY <3>2, <2>1
      <4>2. new[1] = file[1]
        BY <2>1, <4>1
      <4> QED BY <2>3, <3>1, <4>2 DEF AtGenesis
    <3> QED BY <1>2, <3>4, <3>5 DEF Good, new
  <2>4. CASE file = <<>>
    <3>1. Len(file) = 0
      BY <2>4
    <3>2. Linked(new)
      BY <2>1, <3>1 DEF Linked
    <3>3. AtGenesis(new) \/ n > 1
      BY <2>1, <2>4, <3>1 DEF AtGenesis
    <3> QED BY <1>2, <3>2, <3>3 DEF Good, new
  <2> QED BY <2>2, <2>3, <2>4
<1> QED BY <1>1, <1>2, Appended

\* A file stays good when more failures have happened.
LEMMA GoodStays ==
  ASSUME NEW file, NEW m \in Nat, NEW n \in Nat, m <= n, Good(file, m)
  PROVE  Good(file, n)
BY DEF Good

(***************************************************************************)
(* Writing a line.                                                         *)
(***************************************************************************)

\* The hash that the next line points to is a hash, and that of the last line
\* when there is one.
LEMMA NextPrevHash ==
  ASSUME ChainTypesOK, SignaturesAreOld, CacheIsFresh, NEW l \in Logger
  PROVE  /\ PrevHash(l, live) \in Nat
         /\ live \notin {Unknown, <<>>} /\ Last(live).whole =>
              PrevHash(l, live) = Last(live).hash
         /\ live = <<>> => PrevHash(l, live) = 0
         /\ live = Unknown /\ PrevHash(l, live) # 0 =>
              prevHash[l] = PrevHash(l, live) /\ signature[l] = Unknown
         /\ live \notin {Unknown, <<>>} /\ signature[l] = Last(live).hash =>
              PrevHash(l, live) = Last(live).hash
         /\ prevHash[l] # Unknown /\ PrevHash(l, live) # prevHash[l] =>
              Signature(live) # signature[l]
<1>1. prevHash[l] \in Nat \cup {Unknown} /\ signature[l] \in Nat \cup {Unknown}
  BY DEF ChainTypesOK
<1>2. CASE live = Unknown
  <2>1. Signature(live) = Unknown /\ LastHash(live) = 0
    BY <1>2 DEF Signature, LastHash
  <2>2. Unknown # <<>>
    BY ConstantsAssumption, EmptySeq
  <2> QED BY <1>1, <1>2, <2>1, <2>2, ConstantsAssumption DEF PrevHash
<1>3. CASE live = <<>>
  <2>1. Unknown # <<>>
    BY ConstantsAssumption, EmptySeq
  <2>2. Signature(live) = 0 /\ LastHash(live) = 0
    BY <1>3, <2>1 DEF Signature, LastHash
  <2>3. signature[l] # 0
    BY <1>1, ConstantsAssumption DEF SignaturesAreOld, ChainTypesOK
  <2>4. PrevHash(l, live) = 0
    BY <2>2, <2>3 DEF PrevHash
  <2> QED BY <1>3, <2>1, <2>2, <2>3, <2>4
<1>4. CASE live \notin {Unknown, <<>>}
  <2>1. live \in Seq(FileLine)
    BY <1>4 DEF ChainTypesOK, File
  <2>2. Last(live) \in FileLine
    BY <1>4, <2>1, LastAndFront
  <2>3. Last(live).hash \in Nat
    BY <2>2 DEF FileLine
  <2>4. Signature(live) = Last(live).hash
    BY <1>4 DEF Signature
  <2>5. LastHash(live) = IF Last(live).whole THEN Last(live).hash ELSE 0
    BY <1>4 DEF LastHash
  <2>6. signature[l] = Last(live).hash => prevHash[l] = Last(live).hash
    BY <1>4 DEF CacheIsFresh
  <2>7. Last(live).hash # Unknown
    BY <2>3, ConstantsAssumption
  <2> DEFINE p == prevHash[l]
             g == signature[l]
             h == Last(live).hash
             w == Last(live).whole
  <2>8. PrevHash(l, live) = IF p = Unknown \/ h # g THEN (IF w THEN h ELSE 0) ELSE p
    BY <2>4, <2>5 DEF PrevHash
  <2>9. h \in Nat /\ (g = h => p = h) /\ h # Unknown /\ p \in Nat \cup {Unknown}
    BY <1>1, <2>3, <2>6, <2>7
  <2> HIDE DEF p, g, h, w
  <2>10. /\ PrevHash(l, live) \in Nat
         /\ w => PrevHash(l, live) = h
         /\ g = h => PrevHash(l, live) = h
         /\ p # Unknown /\ PrevHash(l, live) # p => h # g
    BY <2>8, <2>9
  <2> QED BY <1>4, <2>4, <2>10 DEF p, g, h, w
<1> QED BY <1>2, <1>3, <1>4

\* A rotation moves whole files, whether it completes or stops.
LEMMA ShiftMoves ==
  ASSUME ChainTypesOK, NEW stop \in 0..Backups, NEW i \in 1..Backups
  PROVE  Shift(stop)[i] \in {live, Unknown} \cup {backup[k] : k \in 1..Backups}
<1>1. Backups \in Nat
  BY ConstantsAssumption
<1>2. i # 1 => i - 1 \in 1..Backups
  BY <1>1
<1>3. \/ Shift(stop)[i] = live \/ Shift(stop)[i] = Unknown
      \/ Shift(stop)[i] = backup[i]
      \/ i # 1 /\ Shift(stop)[i] = backup[i-1]
  BY DEF Shift
<1> QED BY <1>2, <1>3

\* What a logger writes leaves the chain in order, with whatever it knew of
\* the file, and for whatever the other loggers know of it.
LEMMA WriteLineKeeps ==
  ASSUME ChainInv, NEW l \in Logger, NEW stop \in 0..Backups, NEW outcome \in Outcome,
         WriteLine(l, stop, outcome)
  PROVE  ChainInv'
<1> DEFINE due  == live # Unknown /\ Len(Lines(live)) >= MaxLines
           done == due /\ stop = 0
           file == IF done THEN Unknown ELSE live
           prev == IF done THEN 0 ELSE PrevHash(l, file)
           line == Line(prev, hashes + 1, outcome = "ok", outcome = "ok")
           fault == outcome # "ok"
<1>1. /\ stop # 0 => due
      /\ faults' = faults + (IF stop = 0 THEN 0 ELSE 1) + (IF outcome = "ok" THEN 0 ELSE 1)
      /\ faults' <= MaxFaults
      /\ backup' = IF due THEN Shift(stop) ELSE backup
      /\ live' = CASE outcome = "early" -> file
                   [] outcome = "empty" -> Lines(file)
                   [] OTHER             -> AppendLine(Lines(file), line)
      /\ hashes' = IF outcome \in {"ok", "torn"} THEN hashes + 1 ELSE hashes
      /\ prevHash' = [prevHash EXCEPT ![l] = IF outcome = "ok" THEN hashes + 1 ELSE prev]
      /\ signature' = IF outcome = "ok" THEN [signature EXCEPT ![l] = Signature(live')]
                                        ELSE signature
  BY DEF WriteLine
<1>2. /\ ChainTypesOK /\ FilesAreGood /\ SignaturesAreOld /\ CacheIsFresh
      /\ StaleHashesAreFaults
  BY DEF ChainInv
<1>3. hashes \in Nat /\ faults \in Nat /\ MaxFaults \in Nat
  BY <1>2, ConstantsAssumption DEF ChainTypesOK
<1>4. faults' \in 0..MaxFaults /\ faults <= faults' /\ (fault => faults < faults')
  BY <1>1, <1>3
<1>5. Unknown # <<>> /\ <<>> \in Seq(FileLine) /\ live \in Seq(FileLine) \cup {Unknown}
  BY <1>2, ConstantsAssumption, EmptySeq DEF ChainTypesOK, File
<1>6. file \in {live, Unknown} /\ (file # live => done)
  OBVIOUS
<1>7. Lines(file) \in Seq(FileLine) /\ (file # Unknown => Lines(file) = file)
      /\ (file = Unknown => Lines(file) = <<>>)
  BY <1>5 DEF Lines
<1>8. /\ prev \in Nat
      /\ file \notin {Unknown, <<>>} /\ Last(file).whole => prev = Last(file).hash
      /\ file = <<>> => prev = 0
      /\ file = Unknown /\ prev # 0 =>
           live = Unknown /\ prevHash[l] = prev /\ signature[l] = Unknown
      /\ file \notin {Unknown, <<>>} /\ signature[l] = Last(file).hash =>
           prev = Last(file).hash
  <2>1. CASE done
    BY <1>5, <2>1
  <2>2. CASE ~done
    <3>1. file = live /\ prev = PrevHash(l, live)
      BY <2>2
    <3> HIDE DEF file, prev
    <3> QED BY <1>2, <3>1, NextPrevHash
  <2> QED BY <2>1, <2>2
<1>9. line \in FileLine /\ line.prev = prev /\ line.hash = hashes + 1
      /\ line.whole = (outcome = "ok")
  BY <1>3, <1>8 DEF Line, FileLine
<1>10. due => live # Unknown
  OBVIOUS
<1>11. ~fault <=> outcome = "ok"
  OBVIOUS
<1>12. prevHash[l] \in Nat \cup {Unknown} /\ signature[l] \in Nat \cup {Unknown}
  BY <1>2 DEF ChainTypesOK
<1> DEFINE new == AppendLine(Lines(file), line)
<1>13. /\ outcome = "early" => live' = file
       /\ outcome = "empty" => live' = Lines(file)
       /\ outcome \in {"ok", "torn"} => live' = new
       /\ outcome \in {"early", "empty", "ok", "torn"}
  BY <1>1 DEF Outcome
<1> HIDE DEF file, prev, line, new
<1>14. /\ new \in Seq(FileLine) \ {<<>>}
       /\ Last(new).hash = hashes + 1
       /\ new # Unknown
  BY <1>5, <1>7, <1>9, Appended, ConstantsAssumption DEF new, FileLine
<1>15. outcome = "ok" => Signature(live') = hashes + 1
  BY <1>13, <1>14 DEF Signature
<1>a. ChainTypesOK'
  <2>1. prevHash' \in [Logger -> Nat \cup {Unknown}]
    <3>1. (IF outcome = "ok" THEN hashes + 1 ELSE prev) \in Nat \cup {Unknown}
      BY <1>3, <1>8
    <3> QED BY <1>1, <1>2, <3>1 DEF ChainTypesOK
  <2>2. signature' \in [Logger -> Nat \cup {Unknown}]
    <3>1. outcome = "ok" => Signature(live') \in Nat \cup {Unknown}
      BY <1>3, <1>15
    <3> QED BY <1>1, <1>2, <3>1 DEF ChainTypesOK
  <2>3. live' \in File
    BY <1>5, <1>6, <1>7, <1>13, <1>14 DEF File
  <2>4. backup' \in [1..Backups -> File]
    <3>1. backup \in [1..Backups -> File] /\ live \in File /\ Unknown \in File
      BY <1>2 DEF ChainTypesOK, File
    <3>2. \A i \in 1..Backups : Shift(stop)[i] \in File
      BY <1>2, <3>1, ShiftMoves
    <3>3. Shift(stop) \in [1..Backups -> File]
      <4>1. Shift(stop) = [i \in 1..Backups |-> Shift(stop)[i]]
        BY DEF Shift
      <4> QED BY <3>2, <4>1
    <3> QED BY <1>1, <3>1, <3>3
  <2>5. hashes' \in Nat
    BY <1>1, <1>3
  <2> QED BY <1>4, <2>1, <2>2, <2>3, <2>4, <2>5 DEF ChainTypesOK
<1>b. FilesAreGood'
  <2>1. Good(live, faults') /\ \A i \in 1..Backups : Good(backup[i], faults')
    BY <1>2, <1>3, <1>4, GoodStays DEF FilesAreGood
  <2>2. Good(Unknown, faults') /\ Good(<<>>, faults')
    BY DEF Good, Damaged, Linked, AtGenesis
  <2>3. Good(file, faults') /\ Good(Lines(file), faults')
    BY <1>6, <1>7, <2>1, <2>2
  <2>4. outcome \in {"ok", "torn"} => Good(new, faults')
    <3> SUFFICES ASSUME outcome \in {"ok", "torn"} PROVE Good(new, faults')
      OBVIOUS
    <3>1. Lines(file) # Unknown
      BY <1>5, <1>7
    <3>2. Lines(file) # <<>> => file = Lines(file)
      BY <1>7
    <3>3. Lines(file) # <<>> /\ Last(Lines(file)).whole =>
            line.prev = Last(Lines(file)).hash
      BY <1>8, <1>9, <3>1, <3>2
    <3>4. Lines(file) = <<>> => line.prev = 0 \/ faults' > 1
      <4> SUFFICES ASSUME Lines(file) = <<>>, prev # 0 PROVE faults' > 1
        BY <1>9
      <4>1. file = Unknown
        BY <1>7, <1>8
      <4>2. live = Unknown /\ prevHash[l] = prev /\ signature[l] = Unknown
        BY <1>8, <4>1
      <4>3. prev # Unknown
        BY <1>8, ConstantsAssumption
      <4>4. faults > 1
        BY <1>2, <4>2, <4>3 DEF StaleHashesAreFaults
      <4> QED BY <1>3, <1>4, <4>4
    <3>5. faults' \in Nat
      BY <1>4
    <3> QED BY <1>7, <1>9, <2>3, <3>1, <3>3, <3>4, <3>5, AppendedIsGood DEF new
  <2>5. Good(live', faults')
    BY <1>13, <2>3, <2>4
  <2>6. ASSUME NEW i \in 1..Backups PROVE Good(backup'[i], faults')
    BY <1>1, <1>2, <2>1, <2>2, ShiftMoves
  <2> QED BY <2>5, <2>6 DEF FilesAreGood
<1>c. SignaturesAreOld'
  <2> SUFFICES ASSUME NEW m \in Logger, signature'[m] # Unknown
               PROVE  signature'[m] \in 1..hashes' /\ prevHash'[m] # Unknown
    BY DEF SignaturesAreOld
  <2>1. CASE m = l /\ outcome = "ok"
    <3>1. signature'[m] = hashes + 1 /\ prevHash'[m] = hashes + 1 /\ hashes' = hashes + 1
      BY <1>1, <1>2, <1>15, <2>1 DEF ChainTypesOK
    <3> QED BY <1>3, <3>1, ConstantsAssumption
  <2>2. CASE ~(m = l /\ outcome = "ok")
    <3>1. signature'[m] = signature[m] /\ hashes' \in {hashes, hashes + 1}
      BY <1>1, <1>2, <2>2 DEF ChainTypesOK
    <3>2. signature[m] \in 1..hashes /\ prevHash[m] # Unknown
      BY <1>2, <3>1 DEF SignaturesAreOld
    <3>3. prevHash'[m] \in {prevHash[m], prev}
      BY <1>1, <1>2, <2>2 DEF ChainTypesOK
    <3>4. prev # Unknown
      BY <1>8, ConstantsAssumption
    <3>5. signature[m] \in 1..hashes'
      BY <1>3, <3>1, <3>2
    <3> QED BY <3>1, <3>2, <3>3, <3>4, <3>5
  <2> QED BY <2>1, <2>2
<1>d. CacheIsFresh'
  <2> SUFFICES ASSUME NEW m \in Logger, live' \notin {Unknown, <<>>},
                      signature'[m] = Last(live').hash
               PROVE  prevHash'[m] = Last(live').hash
    BY DEF CacheIsFresh
  <2>1. CASE m = l /\ outcome = "ok"
    <3>1. prevHash'[m] = hashes + 1
      BY <1>1, <1>2, <2>1 DEF ChainTypesOK
    <3> QED BY <1>13, <1>14, <2>1, <3>1
  <2>2. CASE outcome \in {"ok", "torn"} /\ ~(m = l /\ outcome = "ok")
    <3>1. signature'[m] = signature[m]
      BY <1>1, <1>2, <2>2 DEF ChainTypesOK
    <3>2. signature[m] = hashes + 1
      BY <1>13, <1>14, <2>2, <3>1
    <3>3. signature[m] # Unknown
      BY <1>3, <3>2, ConstantsAssumption
    <3>4. signature[m] \in 1..hashes
      BY <1>2, <3>3 DEF SignaturesAreOld
    <3> QED BY <1>3, <3>2, <3>4
  <2>3. CASE outcome \in {"early", "empty"}
    <3>1. file \notin {Unknown, <<>>} /\ live' = file
      BY <1>7, <1>13, <2>3
    <3>2. file = live
      BY <1>6, <3>1
    <3>3. signature'[m] = signature[m]
      BY <1>1, <2>3
    <3>4. prevHash[m] = Last(live).hash
      BY <1>2, <3>1, <3>2, <3>3 DEF CacheIsFresh
    <3>5. prevHash'[m] = IF m = l THEN prev ELSE prevHash[m]
      BY <1>1, <1>2, <2>3 DEF ChainTypesOK
    <3>6. m = l => prev = Last(live).hash
      BY <1>8, <3>1, <3>2, <3>3
    <3> QED BY <3>1, <3>2, <3>4, <3>5, <3>6
  <2> QED BY <1>13, <2>1, <2>2, <2>3
<1>e. StaleHashesAreFaults'
  <2> SUFFICES ASSUME NEW m \in Logger, signature'[m] = Unknown,
                      prevHash'[m] \notin {Unknown, 0}
               PROVE  faults' > IF live' = Unknown THEN 1 ELSE 0
    BY DEF StaleHashesAreFaults
  <2>1. ~(m = l /\ outcome = "ok")
    <3> SUFFICES ASSUME m = l, outcome = "ok" PROVE FALSE
      OBVIOUS
    <3>1. signature'[m] = hashes + 1
      BY <1>1, <1>2, <1>15 DEF ChainTypesOK
    <3> QED BY <1>3, <3>1, ConstantsAssumption
  <2>2. signature[m] = Unknown
    BY <1>1, <1>2, <2>1 DEF ChainTypesOK
  <2>3. prevHash'[m] = IF m = l THEN prev ELSE prevHash[m]
    BY <1>1, <1>2, <2>1 DEF ChainTypesOK
  <2>4. CASE prevHash[m] \notin {Unknown, 0}
    <3>1. faults > IF live = Unknown THEN 1 ELSE 0
      BY <1>2, <2>2, <2>4 DEF StaleHashesAreFaults
    <3>2. live' = Unknown => outcome = "early"
      <4>1. Lines(file) # Unknown
        BY <1>5, <1>7
      <4> QED BY <1>13, <1>14, <4>1
    <3>3. live' = Unknown => fault
      BY <3>2
    <3> HIDE DEF fault
    <3> QED BY <1>3, <1>4, <3>1, <3>3
  <2>5. CASE prevHash[m] \in {Unknown, 0}
    <3>1. m = l /\ prev # 0
      BY <2>3, <2>5
    <3>2. outcome # "ok"
      BY <2>1, <3>1
    <3>3. faults' > 0
      BY <1>3, <1>4, <3>2
    <3>4. prevHash[l] # prev
      BY <1>8, <2>5, <3>1, ConstantsAssumption
    <3>5. file # Unknown
      BY <1>8, <3>1, <3>4
    <3>6. live' # Unknown
      BY <1>5, <1>7, <1>13, <1>14, <3>5
    <3> QED BY <3>3, <3>6
  <2> QED BY <2>4, <2>5
<1> QED BY <1>a, <1>b, <1>c, <1>d, <1>e DEF ChainInv

(***************************************************************************)
(* The loggers and what earlier processes left.                            *)
(***************************************************************************)

\* An earlier process leaves no file, a full set of good ones or a torn one.
LEMMA ChainInvInit == Init => ChainInv
<1> SUFFICES ASSUME Init PROVE ChainInv
  OBVIOUS
<1>1. MaxLines \in Nat \ {0} /\ Backups \in Nat \ {0} /\ MaxFaults \in Nat /\ Unknown \notin Nat
  BY ConstantsAssumption
<1>2. /\ prevHash = [l \in Logger |-> Unknown]
      /\ signature = [l \in Logger |-> Unknown]
      /\ faults = 0
  BY DEF Init
<1>3. /\ live \in File /\ backup \in [1..Backups -> File] /\ hashes \in Nat
      /\ FilesAreGood
  <2>1. Good(Unknown, 0)
    BY DEF Good
  <2>2. PICK left \in {NoFiles, FullSet, TornFile} :
          live = left.live /\ backup = left.backup /\ hashes = left.hashes
    BY DEF Init
  <2>4. CASE left = NoFiles
    <3>1. live = Unknown /\ backup = [i \in 1..Backups |-> Unknown] /\ hashes = 0
      BY <2>2, <2>4 DEF NoFiles
    <3> QED BY <1>2, <2>1, <3>1 DEF File, FilesAreGood
  <2>5. CASE left = TornFile
    <3>1. live = <<Line(0, 1, FALSE, FALSE)>> /\ backup = [i \in 1..Backups |-> Unknown]
          /\ hashes = 1
      BY <2>2, <2>5 DEF NoFiles, TornFile
    <3>2. live \in File
      BY <3>1 DEF File, FileLine, Line
    <3>3. Damaged(live)
      BY <3>1 DEF Damaged, Line
    <3> QED BY <1>2, <2>1, <3>1, <3>2, <3>3 DEF File, FilesAreGood, Good
  <2>6. CASE left = FullSet
    <3>1. /\ live = [i \in 1..MaxLines |-> Line(i - 1, i, TRUE, TRUE)]
          /\ backup = [i \in 1..Backups |-> <<Line(0, MaxLines + i, TRUE, TRUE)>>]
          /\ hashes = MaxLines + Backups
      BY <2>2, <2>6 DEF FullSet
    <3>2. ASSUME NEW i \in 1..MaxLines
          PROVE  live[i] \in FileLine /\ live[i].prev = i - 1 /\ live[i].hash = i
      <4>1. live[i] = Line(i - 1, i, TRUE, TRUE)
        BY <3>1
      <4>2. i - 1 \in Nat /\ i \in Nat
        BY <1>1
      <4> QED BY <4>1, <4>2 DEF Line, FileLine
    <3>3. live \in Seq(FileLine) /\ DOMAIN live = 1..MaxLines
      <4>1. live = [i \in 1..MaxLines |-> live[i]]
        BY <3>1
      <4>2. live \in [1..MaxLines -> FileLine]
        BY <3>2, <4>1
      <4> QED BY <1>1, <4>2, SeqDef
    <3>4. Linked(live) /\ AtGenesis(live)
      <4>1. Linked(live)
        <5> SUFFICES ASSUME NEW i \in 1..MaxLines, i > 1
                     PROVE  live[i].prev = live[i-1].hash
          BY <3>3 DEF Linked
        <5>1. i - 1 \in 1..MaxLines
          BY <1>1
        <5> QED BY <3>2, <5>1
      <4>2. live[1].prev = 0
        BY <1>1, <3>2
      <4> QED BY <4>1, <4>2 DEF AtGenesis
    <3>5. ASSUME NEW i \in 1..Backups
          PROVE  backup[i] \in Seq(FileLine) /\ Linked(backup[i]) /\ AtGenesis(backup[i])
      <4> DEFINE first == Line(0, MaxLines + i, TRUE, TRUE)
      <4>1. first \in FileLine /\ first.prev = 0
        BY <1>1 DEF Line, FileLine
      <4>2. backup[i] = <<first>>
        BY <3>1
      <4> HIDE DEF first
      <4> QED BY <4>1, <4>2 DEF Linked, AtGenesis
    <3>6. backup \in [1..Backups -> File]
      <4>1. backup = [i \in 1..Backups |-> backup[i]]
        BY <3>1
      <4> QED BY <3>5, <4>1 DEF File
    <3>7. hashes \in Nat
      BY <1>1, <3>1
    <3>8. FilesAreGood
      BY <3>4, <3>5 DEF FilesAreGood, Good
    <3> QED BY <3>3, <3>6, <3>7, <3>8 DEF File
  <2> QED BY <2>2, <2>4, <2>5, <2>6
<1>4. ChainTypesOK
  BY <1>1, <1>2, <1>3 DEF ChainTypesOK
<1>5. SignaturesAreOld /\ CacheIsFresh /\ StaleHashesAreFaults
  <2>1. ASSUME NEW m \in Logger, live \notin {Unknown, <<>>} PROVE signature[m] # Last(live).hash
    <3>1. live \in Seq(FileLine)
      BY <1>3, <2>1 DEF File
    <3>2. Last(live).hash \in Nat
      BY <2>1, <3>1, LastAndFront DEF FileLine
    <3> QED BY <1>1, <1>2, <3>2
  <2> QED BY <1>2, <2>1 DEF SignaturesAreOld, CacheIsFresh, StaleHashesAreFaults
<1> QED BY <1>3, <1>4, <1>5 DEF ChainInv

\* Only writing a line changes the files.
LEMMA ChainInvNext == ChainInv /\ [Next]_vars => ChainInv'
<1> SUFFICES ASSUME ChainInv, [Next]_vars PROVE ChainInv'
  OBVIOUS
<1>1. UNCHANGED chain => ChainInv'
  BY DEF chain, ChainInv, ChainTypesOK, FilesAreGood, SignaturesAreOld, CacheIsFresh,
         StaleHashesAreFaults
<1>2. CASE UNCHANGED vars
  BY <1>1, <1>2 DEF vars
<1>3. ASSUME NEW l \in Logger, Put(l) \/ Refuse(l) \/ RecordDrop(l) \/ Close(l)
      PROVE  UNCHANGED chain
  BY <1>3 DEF Put, Refuse, RecordDrop, Close
<1>4. ASSUME NEW l \in Logger, Take(l) \/ Empty(l) \/ ReadDrops(l) \/ Subtract(l)
      PROVE  UNCHANGED chain
  BY <1>4 DEF Take, Empty, ReadDrops, Subtract
<1>5. ASSUME NEW l \in Logger, NEW stop \in 0..Backups, NEW outcome \in Outcome,
             WriteMarker(l, stop, outcome) \/ WriteEntry(l, stop, outcome)
      PROVE  ChainInv'
  <2>1. WriteLine(l, stop, outcome)
    BY <1>5 DEF WriteMarker, WriteEntry
  <2> QED BY <2>1, WriteLineKeeps
<1> QED BY <1>1, <1>2, <1>3, <1>4, <1>5 DEF Next, Writer

\* The files, and what every logger has cached of them, are always in order.
THEOREM ChainInvariant == Spec => []ChainInv
<1> QED BY ChainInvInit, ChainInvNext, PTL DEF Spec

\* verify_audit_chain accepts audit_file and every backup that no torn write
\* has damaged, for any number of loggers that share them, rotations, failed
\* writes and restarts; two failures must meet for a file to start elsewhere
\* than at the genesis hash (audit/logger.py:399).
THEOREM TheChainHolds == Spec => []ChainHolds
<1>1. ChainInv => ChainHolds
  BY DEF ChainInv, FilesAreGood, Good, ChainHolds, Files
<1> QED BY <1>1, ChainInvariant, PTL

\* Every variable of every logger keeps its type.
THEOREM AuditTypesHold == Spec => []TypeOK
<1>1. EntryInv /\ ChainInv => TypeOK
  BY DEF EntryInv, CountsOK, PC, ChainInv, ChainTypesOK, TypeOK
<1> QED BY <1>1, EntriesHold, ChainInvariant, PTL

=============================================================================
