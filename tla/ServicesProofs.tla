--------------------------- MODULE ServicesProofs ---------------------------
(***************************************************************************)
(* Theorems about the services around the browser, for any constants: the  *)
(* session enforcer, the player of workflows under a policy, the MCP       *)
(* server around it, the recorder and the dashboard, each under its own    *)
(* specification, and the behaviours of them that TLC checks; last the     *)
(* line to a backend server.                                               *)
(***************************************************************************)
EXTENDS MCServices, BackendLink, SequenceTheorems, FiniteSetTheorems, WellFoundedInduction, TLAPS

\* The least element of a set of naturals, on which what is proved about
\* recursive definitions rests: there is no least counterexample.
LEMMA Least ==
  ASSUME NEW T \in SUBSET Nat, T # {}
  PROVE  \E x \in T : \A y \in T : x <= y
<1> DEFINE R == OpToRel(<, Nat)
<1>1. IsWellFoundedOn(R, Nat)
  BY NatLessThanWellFounded
<1>2. R = {ss \in Nat \X Nat : ss[1] < ss[2]}
  BY DEF OpToRel
<1> HIDE DEF R
<1>3. PICK x \in T : \A y \in T : ~ (<<y, x>> \in R)
  BY <1>1, WFMin
<1>4. ASSUME NEW y \in T
      PROVE  x <= y
  <2>1. x \in Nat /\ y \in Nat
    OBVIOUS
  <2>2. <<y, x>> \in Nat \X Nat /\ ~ (<<y, x>> \in R)
    BY <2>1, <1>3
  <2>3. ~ (y < x)
    BY <1>2, <2>2
  <2> QED BY <2>1, <2>3
<1> QED BY <1>4

---------------------------------------------------------------------------
\* What Range makes of the sequences of the player.
LEMMA RangeOfTail ==
  ASSUME NEW S, NEW s \in Seq(S), s # <<>>
  PROVE  /\ Tail(s) \in Seq(S) /\ Head(s) \in S /\ s[1] = Head(s)
         /\ Range(Tail(s)) \subseteq Range(s) /\ Head(s) \in Range(s)
<1>1. Tail(s) \in Seq(S) /\ Head(s) \in S /\ s[1] = Head(s) /\ 1 \in DOMAIN s
  OBVIOUS
<1>2. ASSUME NEW i \in DOMAIN Tail(s)
      PROVE  i + 1 \in DOMAIN s /\ Tail(s)[i] = s[i + 1]
  OBVIOUS
<1> QED BY <1>1, <1>2 DEF Range

\* What two sequences hold together.
LEMMA RangeOfConcat ==
  ASSUME NEW S, NEW s \in Seq(S), NEW t \in Seq(S)
  PROVE  /\ s \o t \in Seq(S) /\ Range(s \o t) \subseteq Range(s) \union Range(t)
         /\ Range(s) \subseteq Range(s \o t)
<1>1. s \o t \in Seq(S) /\ DOMAIN s = 1 .. Len(s) /\ DOMAIN t = 1 .. Len(t)
  OBVIOUS
<1>2. ASSUME NEW i \in DOMAIN (s \o t)
      PROVE  (s \o t)[i] \in Range(s) \union Range(t)
  <2>1. i \in 1 .. Len(s) + Len(t)
    OBVIOUS
  <2>2. CASE i \in 1 .. Len(s)
    <3>1. (s \o t)[i] = s[i]
      BY <2>2
    <3> QED BY <1>1, <2>2, <3>1 DEF Range
  <2>3. CASE i \notin 1 .. Len(s)
    <3>1. (s \o t)[i] = t[i - Len(s)] /\ i - Len(s) \in 1 .. Len(t)
      BY <2>1, <2>3
    <3> QED BY <1>1, <3>1 DEF Range
  <2> QED BY <2>2, <2>3
<1>3. Range(s \o t) = {(s \o t)[i] : i \in DOMAIN (s \o t)}
  BY DEF Range
<1>4. \A i \in DOMAIN s : i \in DOMAIN (s \o t) /\ (s \o t)[i] = s[i]
  BY <1>1
<1>5. Range(s) \subseteq Range(s \o t)
  BY <1>3, <1>4 DEF Range
<1> QED BY <1>1, <1>2, <1>3, <1>5

---------------------------------------------------------------------------
(***************************************************************************)
(* The session enforcer. TablesAgree is inductive together with the types: *)
(* the only steps that make a context an owner are its own, and they take  *)
(* from it what it owned before.                                           *)
(***************************************************************************)

EnforcerInv == EnforcerTypeOK /\ TablesAgree

\* Nobody is bound at first.
LEMMA EnforcerInitially == EnforcerInit => EnforcerInv
  BY EnforcerAssumption DEF EnforcerInit, EnforcerInv, EnforcerTypeOK, TablesAgree

\* A bind keeps the types of the tables.
LEMMA BindKeepsTypes ==
  ASSUME EnforcerInv, NEW c \in Context, NEW s \in Bound, Bind(c, s)
  PROVE  EnforcerTypeOK'
<1> USE DEF EnforcerInv, EnforcerTypeOK, Bind
<1>1. owner' \in [Bound -> Context \union {Nobody}]
  OBVIOUS
<1>2. uses' \in [Context -> Bound \union {Nothing}]
  OBVIOUS
<1>3. token' \in [Bound -> SUBSET Context]
  OBVIOUS
<1> QED BY <1>1, <1>2, <1>3

\* A bind, a move and a takeover keep the tables in agreement: the context has
\* the new session and nothing else, the previous owner has nothing, and nobody
\* else is touched.
LEMMA BindKeepsAgreement ==
  ASSUME EnforcerInv, NEW c \in Context, NEW s \in Bound, Bind(c, s)
  PROVE  TablesAgree'
<1> USE EnforcerAssumption DEF EnforcerInv, EnforcerTypeOK, TablesAgree
<1> SUFFICES ASSUME NEW d \in Context \ released, NEW r \in Bound
             PROVE  owner'[r] = d <=> uses'[d] = r
  BY DEF Bind
<1>1. owner[r] = d <=> uses[d] = r
  OBVIOUS
<1>2. owner'[r] = IF r = s THEN c ELSE IF r \in Left(c, s) THEN Nobody ELSE owner[r]
  BY DEF Bind
<1>3. uses'[d] = IF d = c THEN s ELSE IF d = owner[s] THEN Nothing ELSE uses[d]
  BY DEF Bind
<1>4. CASE d = c
  BY <1>1, <1>2, <1>3, <1>4 DEF Left
<1>5. CASE d # c /\ r = s
  BY <1>1, <1>2, <1>3, <1>5
<1>6. CASE d # c /\ r # s
  <2>1. owner[r] = d => r \notin Left(c, s)
    BY <1>6 DEF Left
  <2>2. owner[s] = d => uses[d] = s
    OBVIOUS
  <2> QED BY <1>1, <1>2, <1>3, <1>6, <2>1, <2>2
<1> QED BY <1>4, <1>5, <1>6

\* Every call keeps the tables in agreement.
LEMMA EnforcerStep == EnforcerInv /\ [EnforcerNext]_enforcerVars => EnforcerInv'
<1> SUFFICES ASSUME EnforcerInv, [EnforcerNext]_enforcerVars
             PROVE  EnforcerInv'
  OBVIOUS
<1> USE EnforcerAssumption
<1>1. ASSUME NEW c \in Context, NEW s \in Bound, Bind(c, s)
      PROVE  EnforcerInv'
  BY <1>1, BindKeepsTypes, BindKeepsAgreement DEF EnforcerInv
<1>2. ASSUME NEW c \in Context, NEW d \in Context, NEW s \in Bound, PassOn(c, d, s)
      PROVE  EnforcerInv'
  BY <1>2 DEF PassOn, EnforcerInv, EnforcerTypeOK, TablesAgree
<1>3. ASSUME NEW s \in Bound, UnbindSession(s)
      PROVE  EnforcerInv'
  BY <1>3 DEF UnbindSession, EnforcerInv, EnforcerTypeOK, TablesAgree
<1>4. ASSUME NEW c \in Context, UnbindContext(c)
      PROVE  EnforcerInv'
  BY <1>4 DEF UnbindContext, EnforcerInv, EnforcerTypeOK, TablesAgree
<1>5. CASE UNCHANGED enforcerVars
  BY <1>5 DEF enforcerVars, EnforcerInv, EnforcerTypeOK, TablesAgree
<1> QED BY <1>1, <1>2, <1>3, <1>4, <1>5 DEF EnforcerNext

\* A context that never gave its place up owns exactly the session it may use,
\* whatever it and the others bind, pass on, take over and release
\* (mcp_session_isolation.py, bind_session and check_access).
THEOREM TablesAlwaysAgree == EnforcerSpec => []TablesAgree
<1>1. EnforcerInit => EnforcerInv
  BY EnforcerInitially
<1>2. EnforcerInv /\ [EnforcerNext]_enforcerVars => EnforcerInv'
  BY EnforcerStep
<1>3. EnforcerInv => TablesAgree
  BY DEF EnforcerInv
<1> QED BY <1>1, <1>2, <1>3, PTL DEF EnforcerSpec

---------------------------------------------------------------------------
(***************************************************************************)
(* A replay under a policy. What the player still has to do is covered by  *)
(* the steps that _expand_replay_steps found and checked: a set that is    *)
(* closed under what is inside a step, all of whose steps pass.            *)
(***************************************************************************)

\* The walk of _expand_replay_steps to a depth, and that there is one.
Deeper(start, walk, depth) ==
    IF depth = 0 THEN start ELSE walk[depth - 1] \union InsideAll(walk[depth - 1])

WalkExists(start, n) == \E walk : walk = [depth \in 0 .. n |-> Deeper(start, walk, depth)]

\* The recursive function of Expand exists, to any depth: by the least depth
\* to which it would not.
LEMMA WalksExist ==
  ASSUME NEW start, NEW n \in Nat
  PROVE  WalkExists(start, n)
<1> DEFINE T == {m \in Nat : ~ WalkExists(start, m)}
<1> SUFFICES ASSUME T # {} PROVE FALSE
  OBVIOUS
<1>1. PICK x \in T : \A y \in T : x <= y
  <2>1. T \in SUBSET Nat
    OBVIOUS
  <2> HIDE DEF T
  <2> QED BY <2>1, Least
<1>2. CASE x = 0
  <2> DEFINE walk == [depth \in 0 .. 0 |-> start]
  <2>1. walk = [depth \in 0 .. 0 |-> Deeper(start, walk, depth)]
    BY DEF Deeper
  <2> QED BY <1>1, <1>2, <2>1 DEF WalkExists
<1>3. CASE x # 0
  <2>1. x \in Nat /\ x - 1 \in Nat /\ ~ WalkExists(start, x) /\ WalkExists(start, x - 1)
    BY <1>1, <1>3
  <2>2. PICK walk : walk = [depth \in 0 .. x - 1 |-> Deeper(start, walk, depth)]
    BY <2>1 DEF WalkExists
  <2> DEFINE more == [depth \in 0 .. x |->
                        IF depth = x THEN walk[x - 1] \union InsideAll(walk[x - 1])
                        ELSE walk[depth]]
  <2>3. ASSUME NEW depth \in 0 .. x
        PROVE  more[depth] = Deeper(start, more, depth)
    <3>1. CASE depth = x
      BY <1>3, <2>1, <3>1 DEF Deeper
    <3>2. CASE depth # x
      <4>1. depth \in 0 .. x - 1
        BY <2>1, <3>2
      <4>2. walk[depth] = Deeper(start, walk, depth)
        BY <2>2, <4>1
      <4>3. depth # 0 => depth - 1 \in 0 .. x /\ depth - 1 # x /\ more[depth - 1] = walk[depth - 1]
        BY <2>1, <4>1
      <4> QED BY <3>2, <4>2, <4>3 DEF Deeper
    <3> QED BY <3>1, <3>2
  <2>4. more = [depth \in 0 .. x |-> Deeper(start, more, depth)]
    BY <2>3
  <2> QED BY <2>1, <2>4 DEF WalkExists
<1> QED BY <1>2, <1>3

\* The steps of the workflow itself are among those that are expanded.
LEMMA ExpandStarts ==
  ASSUME NEW f, NEW v
  PROVE  Occurrences(library[f].steps, v, {f}) \subseteq Expand(f, v)
<1> DEFINE start == Occurrences(library[f].steps, v, {f})
           walk[depth \in 0 .. MaxNesting] ==
             IF depth = 0 THEN start ELSE walk[depth - 1] \union InsideAll(walk[depth - 1])
<1>1. Expand(f, v) = walk[MaxNesting]
  BY DEF Expand
<1> HIDE DEF start
<1>2. walk = [depth \in 0 .. MaxNesting |-> Deeper(start, walk, depth)]
  <2>1. \E w : w = [depth \in 0 .. MaxNesting |-> Deeper(start, w, depth)]
    <3>1. WalkExists(start, MaxNesting)
      BY ReplayAssumption, WalksExist
    <3> QED BY <3>1 DEF WalkExists
  <2> QED BY <2>1 DEF Deeper
<1> HIDE DEF walk
<1>3. \A depth \in 0 .. MaxNesting : walk[depth] = Deeper(start, walk, depth)
  BY <1>2
<1> DEFINE T == {n \in Nat : n \in 0 .. MaxNesting /\ ~ (start \subseteq walk[n])}
<1>4. T = {}
  <2> SUFFICES ASSUME T # {} PROVE FALSE
    OBVIOUS
  <2>1. PICK x \in T : \A y \in T : x <= y
    <3>1. T \in SUBSET Nat
      OBVIOUS
    <3> HIDE DEF T
    <3> QED BY <3>1, Least
  <2>2. x \in 0 .. MaxNesting /\ ~ (start \subseteq walk[x])
    BY <2>1
  <2>3. walk[x] = Deeper(start, walk, x)
    BY <1>3, <2>2
  <2>4. x # 0
    BY <2>2, <2>3 DEF Deeper
  <2>5. x - 1 \in 0 .. MaxNesting /\ x - 1 \in Nat /\ ~ (x <= x - 1)
    BY <2>2, <2>4, ReplayAssumption
  <2>6. start \subseteq walk[x - 1]
    BY <2>1, <2>5
  <2> QED BY <2>2, <2>3, <2>4, <2>6 DEF Deeper
<1>5. start \subseteq walk[MaxNesting]
  BY <1>4, ReplayAssumption
<1> QED BY <1>1, <1>5 DEF start

---------------------------------------------------------------------------
FrameType == [steps : StepList, v : Site \union {Unset}, file : File]

\* A set of occurrences that the server would find good: all of them pass, and
\* it holds what is inside of them.
Passing(os) == InsideAll(os) \subseteq os /\ \A o \in os : StepPasses(o)

\* A frame's steps occur in the set, with the frame's variable or without a
\* value, in the place of which the player takes the file's default.
FrameCovered(frame, os) ==
    \A s \in Range(frame.steps) : \E o \in os : o.step = s /\ o.v \in {frame.v, Unset}

StepsAreCovered ==
    player # Idle /\ ~ edited /\ policy # Unset =>
        \E os : Passing(os) /\ \A frame \in Range(player) : FrameCovered(frame, os)

IdleAsksNothing == player = Idle => dispatched = NoStep

ReplayInv == ReplayTypeOK /\ IdleAsksNothing /\ StepsAreCovered /\ ReplayIsChecked

\* A frame on top of the player's.
LEMMA RangeOfPush ==
  ASSUME NEW S, NEW s \in Seq(S), NEW e \in S
  PROVE  <<e>> \o s \in Seq(S) /\ Range(<<e>> \o s) \subseteq {e} \union Range(s)
<1>1. <<e>> \in Seq(S) /\ Range(<<e>>) = {e}
  BY DEF Range
<1> QED BY <1>1, RangeOfConcat

---------------------------------------------------------------------------
\* The verdict about a step depends on the policy, the callback and the library.
LEMMA PassingStays ==
  ASSUME UNCHANGED <<policy, permissive, library>>, NEW os, Passing(os)
  PROVE  Passing(os)'
<1>1. \A o : Inside(o)' = Inside(o)
  BY DEF Inside, Occurrences, Loads, Given
<1>2. \A o : StepPasses(o)' = StepPasses(o)
  <2>1. \A o : Permitted(o)' = Permitted(o)
    BY DEF Permitted, StepAllowed, TypeAllowed, DomainAllowed, NeedsApproval, Approved
  <2>2. \A o : Permitted(Leaf(o))' = Permitted(Leaf(o)) /\ Permitted(Condition)' = Permitted(Condition)
    BY <2>1 DEF Leaf, Condition, Url
  <2> QED BY <2>2 DEF StepPasses, Loads
<1> QED BY <1>1, <1>2 DEF Passing, InsideAll

\* Policy and mode do not change, so what is permitted stays permitted.
LEMMA PermittedStays ==
  ASSUME UNCHANGED <<policy, permissive, dispatched>>
  PROVE  Permitted(dispatched)' = Permitted(dispatched)
BY DEF Permitted, StepAllowed, TypeAllowed, DomainAllowed, NeedsApproval, Approved

\* Without a policy everything is permitted.
LEMMA NoPolicyPermits == policy = Unset => \A step : Permitted(step)
BY ReplayAssumption DEF Permitted, StepAllowed, NeedsApproval

\* What is inside an occurrence of a passing set belongs to it.
LEMMA PassingInside ==
  ASSUME NEW os, Passing(os), NEW o \in os
  PROVE  Inside(o) \subseteq os /\ StepPasses(o)
BY DEF Passing, InsideAll

\* A file as a frame.
LEMMA FrameTyped ==
  ASSUME ReplayTypeOK, NEW f \in File, library[f] # Unset, NEW v \in Site \union {Unset}
  PROVE  /\ Frame(f, v) \in FrameType
         /\ Frame(f, v).steps = library[f].steps
         /\ v # Unset => Frame(f, v).v = v
BY DEF ReplayTypeOK, Frame, Effective, FrameType

---------------------------------------------------------------------------
\* Nothing is replayed at first.
LEMMA ReplayInitially == ReplayInit => ReplayInv
<1> SUFFICES ASSUME ReplayInit PROVE ReplayInv
  OBVIOUS
<1>1. ReplayTypeOK
  <2>1. \A f \in File : library[f] # Unset => /\ library[f].steps \in StepList
                                            /\ library[f].default \in Site \union {Unset}
    BY StepAssumption DEF ReplayInit
  <2>2. /\ DOMAIN library = File /\ policy \in Policy \union {Missing, Unset}
        /\ permissive \in BOOLEAN /\ edited \in BOOLEAN /\ player = <<>>
    BY DEF ReplayInit, Idle
  <2>3. edits \in 0 .. MaxEdits
    BY ReplayAssumption DEF ReplayInit
  <2> QED BY <2>1, <2>2, <2>3 DEF ReplayTypeOK
<1> QED BY <1>1 DEF ReplayInit, ReplayInv, IdleAsksNothing, StepsAreCovered, ReplayIsChecked

\* A file may change to anything a file may be.
FileOK(body) == body # Unset => body.steps \in StepList /\ body.default \in Site \union {Unset}

\* A file that is written during a replay sets edited.
LEMMA WriteFileStep ==
  ASSUME ReplayInv, NEW f \in File, NEW body, FileOK(body), WriteFile(f, body),
         UNCHANGED <<policy, permissive, player, dispatched>>
  PROVE  ReplayInv'
<1>1. ReplayTypeOK'
  <2>1. DOMAIN library' = File
    BY DEF ReplayInv, ReplayTypeOK, WriteFile
  <2>2. \A g \in File : library'[g] = IF g = f THEN body ELSE library[g]
    BY DEF ReplayInv, ReplayTypeOK, WriteFile
  <2>3. edits' \in 0 .. MaxEdits /\ edited' \in BOOLEAN
    BY ReplayAssumption DEF ReplayInv, ReplayTypeOK, WriteFile
  <2> QED BY <2>1, <2>2, <2>3 DEF ReplayInv, ReplayTypeOK, FileOK
<1>2. CASE player = Idle
  BY <1>1, <1>2 DEF ReplayInv, IdleAsksNothing, StepsAreCovered, ReplayIsChecked
<1>3. CASE player # Idle
  BY <1>1, <1>3 DEF ReplayInv, IdleAsksNothing, StepsAreCovered, ReplayIsChecked, WriteFile
<1> QED BY <1>2, <1>3

\* A replay starts when the steps that were found pass and nothing more is
\* inside them: they cover the first frame.
LEMMA StartReplayStep ==
  ASSUME ReplayInv, NEW f \in File, NEW v \in Site \union {Unset}, StartReplay(f, v)
  PROVE  ReplayInv'
<1>1. /\ library[f] # Unset /\ player' = <<Frame(f, v)>> /\ dispatched' = NoStep /\ ~ edited'
      /\ UNCHANGED <<policy, permissive, library, edits>>
  BY DEF StartReplay
<1>2. /\ Frame(f, v) \in FrameType /\ Frame(f, v).steps = library[f].steps
      /\ v # Unset => Frame(f, v).v = v
  BY <1>1, FrameTyped DEF ReplayInv
<1>3. ReplayTypeOK'
  <2>1. player' \in Seq(FrameType) /\ edited' = FALSE
    BY <1>1, <1>2 DEF StartReplay
  <2> QED BY <1>1, <2>1 DEF ReplayInv, ReplayTypeOK, FrameType
<1>4. IdleAsksNothing' /\ ReplayIsChecked'
  BY <1>1 DEF IdleAsksNothing, ReplayIsChecked
<1>5. \E os : Passing(os) /\ FrameCovered(Frame(f, v), os)
  <2> DEFINE os == Expand(f, v)
  <2>1. /\ Occurrences(library[f].steps, v, {f}) \subseteq os
        /\ InsideAll(os) \subseteq os /\ \A o \in os : StepPasses(o)
    BY ExpandStarts DEF StartReplay, ReplayPasses
  <2> HIDE DEF os
  <2>2. ASSUME NEW s \in Range(library[f].steps)
        PROVE  \E o \in os : o.step = s /\ o.v = v
    <3>1. [step |-> s, v |-> v, stack |-> {f}] \in os
      BY <2>1 DEF Occurrences
    <3> QED BY <3>1
  <2> QED BY <1>2, <2>1, <2>2 DEF Passing, FrameCovered
<1>6. StepsAreCovered'
  <2>1. PICK os : Passing(os) /\ FrameCovered(Frame(f, v), os)
    BY <1>5
  <2>2. Passing(os)'
    BY <1>1, <2>1, PassingStays
  <2>3. \A frame \in Range(player') : FrameCovered(frame, os)
    BY <1>1, <2>1 DEF Range
  <2> QED BY <2>2, <2>3 DEF StepsAreCovered, FrameCovered
<1> QED BY <1>3, <1>4, <1>6 DEF ReplayInv

\* A step of the player leaves the files as they are: what remains is that its
\* frames and what it asks for come from a covered frame.
LEMMA PlayerStep ==
  ASSUME ReplayInv, player # Idle, UNCHANGED <<policy, permissive, library, edited, edits>>,
         player' \in Seq(FrameType), player' # Idle,
         ASSUME NEW os, Passing(os), ~ edited, policy # Unset,
                \A frame \in Range(player) : FrameCovered(frame, os)
         PROVE  /\ \A frame \in Range(player') : FrameCovered(frame, os)
                /\ dispatched' # NoStep => Permitted(dispatched')
  PROVE  ReplayInv'
<1>1. ReplayTypeOK'
  BY DEF ReplayInv, ReplayTypeOK, FrameType
<1>2. IdleAsksNothing'
  BY DEF IdleAsksNothing, Idle
<1>3. CASE edited \/ policy = Unset
  <2>1. StepsAreCovered'
    BY <1>3 DEF StepsAreCovered
  <2>2. policy = Unset => Permitted(dispatched)'
    BY ReplayAssumption DEF Permitted, StepAllowed, NeedsApproval
  <2> QED BY <1>1, <1>2, <1>3, <2>1, <2>2 DEF ReplayInv, ReplayIsChecked
<1>4. CASE ~ edited /\ policy # Unset
  <2>1. PICK os : Passing(os) /\ \A frame \in Range(player) : FrameCovered(frame, os)
    BY <1>4 DEF ReplayInv, StepsAreCovered
  <2>2. /\ \A frame \in Range(player') : FrameCovered(frame, os)
        /\ dispatched' # NoStep => Permitted(dispatched')
    BY <1>4, <2>1
  <2>3. Passing(os)'
    BY <2>1, PassingStays
  <2>4. StepsAreCovered'
    BY <2>2, <2>3 DEF StepsAreCovered, FrameCovered
  <2>5. Permitted(dispatched') => Permitted(dispatched)'
    BY DEF Permitted, StepAllowed, TypeAllowed, DomainAllowed, NeedsApproval, Approved
  <2> QED BY <1>1, <1>2, <2>2, <2>4, <2>5 DEF ReplayInv, ReplayIsChecked
<1> QED BY <1>3, <1>4

\* A nested file is over.
LEMMA EndNestedStep ==
  ASSUME ReplayInv, EndNested
  PROVE  ReplayInv'
<1>1. player \in Seq(FrameType) /\ Len(player) > 1 /\ player # Idle
  BY DEF ReplayInv, ReplayTypeOK, EndNested, FrameType, Idle
<1>2. /\ player' = Tail(player)
      /\ UNCHANGED <<policy, permissive, library, dispatched, edited, edits>>
  BY DEF EndNested
<1>3. player' \in Seq(FrameType) /\ Range(player') \subseteq Range(player)
  BY <1>1, <1>2, RangeOfTail DEF Idle
<1>4. player' # Idle
  <2>1. 1 \in DOMAIN Tail(player)
    BY <1>1
  <2>2. 1 \notin DOMAIN Idle
    BY DEF Idle
  <2> QED BY <1>2, <2>1, <2>2
<1>5. ~ edited /\ dispatched # NoStep => Permitted(dispatched)
  BY DEF ReplayInv, ReplayIsChecked
<1> QED BY <1>1, <1>2, <1>3, <1>4, <1>5, PlayerStep

\* A replay is over.
LEMMA EndReplayStep ==
  ASSUME ReplayInv, EndReplay
  PROVE  ReplayInv'
BY DEF ReplayInv, EndReplay, ReplayTypeOK, IdleAsksNothing, StepsAreCovered, ReplayIsChecked, Idle

---------------------------------------------------------------------------
\* The player's next step, with what is left once it is done.
LEMMA NextStep ==
  ASSUME ReplayTypeOK, player # Idle, player[1].steps # <<>>
  PROVE  /\ player \in Seq(FrameType) /\ player[1] \in Range(player)
         /\ player[1].steps \in Seq(Step) /\ player[1].v \in Site \union {Unset}
         /\ player[1].file \in File
         /\ Head(player[1].steps) \in Step
         /\ Head(player[1].steps) \in Range(player[1].steps)
         /\ Range(Tail(player[1].steps)) \subseteq Range(player[1].steps)
         /\ Tail(player[1].steps) \in Seq(Step)
         /\ Tail(player) \in Seq(FrameType) /\ Range(Tail(player)) \subseteq Range(player)
<1>1. player \in Seq(FrameType)
  BY DEF ReplayTypeOK, FrameType
<1>2. /\ Tail(player) \in Seq(FrameType) /\ Range(Tail(player)) \subseteq Range(player)
      /\ player[1] \in FrameType /\ player[1] \in Range(player)
  BY <1>1, RangeOfTail DEF Idle
<1>3. /\ player[1].steps \in Seq(Step) /\ player[1].v \in Site \union {Unset}
      /\ player[1].file \in File
  BY <1>2 DEF FrameType, StepList
<1> QED BY <1>1, <1>2, <1>3, RangeOfTail

\* The innermost frame after its step, with more steps before the rest.
Onward(more) == [steps |-> more \o Tail(player[1].steps),
                 v |-> player[1].v, file |-> player[1].file]

\* The first frame after a step.
LEMMA OnwardFrame ==
  ASSUME ReplayTypeOK, player # Idle, player[1].steps # <<>>, NEW more \in Seq(Step)
  PROVE  /\ Onward(more) \in FrameType /\ Onward(more).v = player[1].v
         /\ Range(Onward(more).steps) \subseteq Range(more) \union Range(player[1].steps)
<1> DEFINE left == Tail(player[1].steps)
<1>1. /\ left \in Seq(Step) /\ Range(left) \subseteq Range(player[1].steps)
      /\ player[1].v \in Site \union {Unset} /\ player[1].file \in File
  BY NextStep
<1> HIDE DEF left
<1>2. /\ more \o left \in Seq(Step)
      /\ Range(more \o left) \subseteq Range(more) \union Range(left)
  BY <1>1, RangeOfConcat
<1>3. Onward(more) = [steps |-> more \o left, v |-> player[1].v, file |-> player[1].file]
  BY DEF Onward, left
<1> QED BY <1>1, <1>2, <1>3 DEF FrameType, StepList

\* A step that has nothing inside puts no steps in front of those left.
LEMMA NoMore ==
  /\ <<>> \in Seq(Step) /\ Range(<<>>) = {}
BY DEF Range

\* A frame with other steps.
LEMMA WithSteps ==
  ASSUME NEW frame \in FrameType, NEW list
  PROVE  [frame EXCEPT !.steps = list]
            = [steps |-> list, v |-> frame.v, file |-> frame.file]
BY DEF FrameType

\* What the player's next frames are, by the kind of the step.
LEMMA OnwardPlayer ==
  ASSUME ReplayTypeOK, player # Idle, player[1].steps # <<>>
  PROVE  /\ Rest = <<Onward(<<>>)>> \o Tail(player)
         /\ \A arm \in Seq(Step) :
               [Rest EXCEPT ![1].steps = arm \o @] = <<Onward(arm)>> \o Tail(player)
<1>1. player \in Seq(FrameType) /\ player[1] \in FrameType
  BY RangeOfTail DEF ReplayTypeOK, FrameType, Idle
<1>2. [player[1] EXCEPT !.steps = Tail(@)]
         = [steps |-> Tail(player[1].steps), v |-> player[1].v, file |-> player[1].file]
  BY <1>1, WithSteps
<1>3. Tail(player[1].steps) \in Seq(Step) /\ Tail(player) \in Seq(FrameType)
  BY NextStep
<1>4. <<>> \o Tail(player[1].steps) = Tail(player[1].steps)
  BY <1>3
<1>5. Rest = <<Onward(<<>>)>> \o Tail(player)
  BY <1>2, <1>4 DEF Rest, Onward
<1>6. ASSUME NEW arm \in Seq(Step)
      PROVE  [Rest EXCEPT ![1].steps = arm \o @] = <<Onward(arm)>> \o Tail(player)
  <2> DEFINE front == [steps |-> Tail(player[1].steps), v |-> player[1].v,
                       file |-> player[1].file]
             after == Tail(player)
             list == <<front>> \o after
  <2>1. Rest = list
    BY <1>2 DEF Rest
  <2>2. front \in FrameType /\ after \in Seq(FrameType)
    BY <1>1, <1>3 DEF FrameType, StepList
  <2>3. [front EXCEPT !.steps = arm \o @] = Onward(arm)
    <3>1. front.steps = Tail(player[1].steps) /\ front.v = player[1].v /\ front.file = player[1].file
      OBVIOUS
    <3> HIDE DEF front
    <3>2. [front EXCEPT !.steps = arm \o @]
             = [steps |-> arm \o front.steps, v |-> front.v, file |-> front.file]
      BY <2>2, WithSteps
    <3> QED BY <3>1, <3>2 DEF Onward
  <2> HIDE DEF front, after
  <2>4. /\ DOMAIN list = 1 .. Len(after) + 1 /\ list[1] = front
        /\ \A i \in 2 .. Len(after) + 1 : list[i] = after[i - 1]
    BY <2>2
  <2> DEFINE new == <<Onward(arm)>> \o after
  <2>5. Onward(arm) \in FrameType
    BY OnwardFrame
  <2>6. /\ DOMAIN new = 1 .. Len(after) + 1 /\ new[1] = Onward(arm)
        /\ \A i \in 2 .. Len(after) + 1 : new[i] = after[i - 1]
    BY <2>2, <2>5
  <2> HIDE DEF list, new
  <2>7. [list EXCEPT ![1].steps = arm \o @] = [list EXCEPT ![1] = Onward(arm)]
    BY <2>3, <2>4
  <2>8. new \in Seq(FrameType) /\ list \in Seq(FrameType)
    BY <2>2, <2>5 DEF new, list
  <2>9. [list EXCEPT ![1] = Onward(arm)] = new
    <3>1. /\ DOMAIN [list EXCEPT ![1] = Onward(arm)] = DOMAIN new
          /\ \A i \in DOMAIN new : [list EXCEPT ![1] = Onward(arm)][i] = new[i]
      BY <2>4, <2>6
    <3> QED BY <2>8, <3>1
  <2> QED BY <2>1, <2>7, <2>9 DEF new, after
<1> QED BY <1>5, <1>6

\* A covered step passes, with the variable of the frame or without one.
LEMMA CoveredStep ==
  ASSUME ReplayTypeOK, player # Idle, player[1].steps # <<>>,
         NEW os, Passing(os), \A frame \in Range(player) : FrameCovered(frame, os)
  PROVE  \E o \in os : /\ o.step = Head(player[1].steps) /\ o.v \in {player[1].v, Unset}
                       /\ StepPasses(o) /\ Inside(o) \subseteq os
<1>1. player[1] \in Range(player) /\ Head(player[1].steps) \in Range(player[1].steps)
  BY NextStep
<1>2. FrameCovered(player[1], os)
  BY <1>1
<1>3. PICK o \in os : o.step = Head(player[1].steps) /\ o.v \in {player[1].v, Unset}
  BY <1>1, <1>2 DEF FrameCovered
<1> QED BY <1>3, PassingInside

\* A template that the server could not resolve is refused under a policy.
LEMMA SameUrl ==
  ASSUME policy # Unset, NEW o, NEW v, o.v \in {v, Unset}, o.step.type = "navigate",
         Permitted(Leaf(o))
  PROVE  Url(o.step.url, o.v) = Url(o.step.url, v)
<1>1. Leaf(o).url # Variable
  BY DEF Permitted, StepAllowed
<1>2. Leaf(o).url = Url(o.step.url, o.v)
  BY DEF Leaf
<1> QED BY <1>1, <1>2 DEF Url

\* A step is dispatched or replaced by what is inside it, and all of that is
\* in the set that was checked.
LEMMA DispatchStep ==
  ASSUME ReplayInv, Dispatch
  PROVE  ReplayInv'
<1> DEFINE top == player[1]
           step == Head(top.steps)
<1>1. /\ ReplayTypeOK /\ player # Idle /\ top.steps # <<>>
      /\ UNCHANGED <<policy, permissive, library, edited, edits>>
  BY DEF Dispatch, ReplayInv
<1>2. /\ player \in Seq(FrameType) /\ top \in Range(player) /\ step \in Step
      /\ Tail(player) \in Seq(FrameType) /\ Range(Tail(player)) \subseteq Range(player)
      /\ top.v \in Site \union {Unset}
  BY <1>1, NextStep
<1>3. ASSUME NEW more \in Seq(Step), player' = <<Onward(more)>> \o Tail(player),
             ASSUME NEW os, NEW o \in os, o.step = step, o.v \in {top.v, Unset},
                    policy # Unset, StepPasses(o), Inside(o) \subseteq os
             PROVE  /\ \A s \in Range(more) : \E p \in os : p.step = s /\ p.v = o.v
                    /\ Permitted(dispatched')
      PROVE  ReplayInv'
  <2> DEFINE front == Onward(more)
  <2>1. /\ front \in FrameType /\ front.v = top.v
        /\ Range(front.steps) \subseteq Range(more) \union Range(top.steps)
    BY <1>1, OnwardFrame
  <2> HIDE DEF front
  <2>2. player' \in Seq(FrameType) /\ Range(player') \subseteq {front} \union Range(player)
    BY <1>2, <1>3, <2>1, RangeOfPush DEF front
  <2>3. player' # Idle
    <3>1. player' = <<front>> \o Tail(player)
      BY <1>3 DEF front
    <3> QED BY <1>2, <2>1, <3>1 DEF Idle
  <2>4. ASSUME NEW os, Passing(os), ~ edited, policy # Unset,
               \A frame \in Range(player) : FrameCovered(frame, os)
        PROVE  /\ \A frame \in Range(player') : FrameCovered(frame, os)
               /\ dispatched' # NoStep => Permitted(dispatched')
    <3>1. PICK o \in os : /\ o.step = step /\ o.v \in {top.v, Unset}
                          /\ StepPasses(o) /\ Inside(o) \subseteq os
      BY <1>1, <2>4, CoveredStep
    <3>2. /\ \A s \in Range(more) : \E p \in os : p.step = s /\ p.v = o.v
          /\ Permitted(dispatched')
      BY <1>3, <2>4, <3>1
    <3>3. FrameCovered(front, os)
      <4>1. FrameCovered(top, os)
        BY <1>2, <2>4
      <4> QED BY <2>1, <3>1, <3>2, <4>1 DEF FrameCovered
    <3> QED BY <2>2, <2>4, <3>2, <3>3
  <2> QED BY <1>1, <2>2, <2>3, <2>4, PlayerStep
<1>5. CASE /\ step.type \notin {"conditional", "run_workflow"}
           /\ dispatched' = [type |-> step.type,
                             url |-> IF step.type = "navigate" THEN Url(step.url, top.v)
                                     ELSE Unset]
           /\ player' = Rest
  <2>3. player' = <<Onward(<<>>)>> \o Tail(player)
    BY <1>1, <1>5, OnwardPlayer
  <2>4. ASSUME NEW os, NEW o \in os, o.step = step, o.v \in {top.v, Unset},
               policy # Unset, StepPasses(o), Inside(o) \subseteq os
        PROVE  /\ \A s \in Range(<<>>) : \E p \in os : p.step = s /\ p.v = o.v
               /\ Permitted(dispatched')
    <3>1. Permitted(Leaf(o))
      BY <2>4 DEF StepPasses
    <3>2. dispatched' = Leaf(o)
      <4>1. step.type = "navigate" => Url(step.url, o.v) = Url(step.url, top.v)
        BY <2>4, <3>1, SameUrl
      <4> QED BY <1>5, <2>4, <4>1 DEF Leaf
    <3> QED BY <3>1, <3>2, NoMore
  <2> QED BY <1>3, <2>3, <2>4, NoMore
<1>6. CASE /\ step.type = "conditional" /\ dispatched' = Condition
           /\ \E arm \in {step.steps, step.else} : player' = [Rest EXCEPT ![1].steps = arm \o @]
  <2>1. PICK arm \in {step.steps, step.else} : player' = [Rest EXCEPT ![1].steps = arm \o @]
    BY <1>6
  <2>2. arm \in Seq(Step)
    BY <1>2, <1>6, StepAssumption DEF StepList
  <2>4. player' = <<Onward(arm)>> \o Tail(player)
    BY <1>1, <2>1, <2>2, OnwardPlayer
  <2>5. ASSUME NEW os, NEW o \in os, o.step = step, o.v \in {top.v, Unset},
               policy # Unset, StepPasses(o), Inside(o) \subseteq os
        PROVE  /\ \A s \in Range(arm) : \E p \in os : p.step = s /\ p.v = o.v
               /\ Permitted(dispatched')
    <3>1. Permitted(Condition)
      BY <1>6, <2>5 DEF StepPasses
    <3>2. Occurrences(arm, o.v, o.stack) \subseteq os
      BY <1>6, <2>1, <2>5 DEF Inside
    <3>3. ASSUME NEW s \in Range(arm)
          PROVE  \E p \in os : p.step = s /\ p.v = o.v
      <4>1. [step |-> s, v |-> o.v, stack |-> o.stack] \in os
        BY <3>2, <3>3 DEF Occurrences
      <4> QED BY <4>1
    <3> QED BY <1>6, <3>1, <3>3
  <2> QED BY <1>3, <2>2, <2>4, <2>5
<1>7. CASE /\ step.type = "run_workflow" /\ library[step.path] # Unset
           /\ dispatched' = [type |-> "run_workflow", url |-> Unset]
           /\ player' = <<Frame(step.path, Given(step, top.v))>> \o Rest
  <2> DEFINE back == Onward(<<>>)
             front == Frame(step.path, Given(step, top.v))
  <2>1. /\ back \in FrameType /\ back.v = top.v
        /\ Range(back.steps) \subseteq Range(top.steps)
    BY <1>1, NoMore, OnwardFrame
  <2>2. Rest = <<back>> \o Tail(player)
    BY <1>1, OnwardPlayer
  <2>3. /\ step.path \in File /\ Given(step, top.v) \in Site \union {Unset}
    BY <1>2, <1>7, StepAssumption DEF Given
  <2>4. /\ front \in FrameType /\ front.steps = library[step.path].steps
        /\ Given(step, top.v) # Unset => front.v = Given(step, top.v)
    BY <1>1, <1>7, <2>3, FrameTyped
  <2> HIDE DEF back, front
  <2>5. /\ Rest \in Seq(FrameType) /\ Range(Rest) \subseteq {back} \union Range(player)
    BY <1>2, <2>1, <2>2, RangeOfPush
  <2>6. player' \in Seq(FrameType) /\ Range(player') \subseteq {front} \union Range(Rest)
    BY <1>7, <2>4, <2>5, RangeOfPush DEF front
  <2>7. player' # Idle
    BY <1>7, <2>5 DEF Idle
  <2>8. ASSUME NEW os, Passing(os), ~ edited, policy # Unset,
               \A frame \in Range(player) : FrameCovered(frame, os)
        PROVE  /\ \A frame \in Range(player') : FrameCovered(frame, os)
               /\ dispatched' # NoStep => Permitted(dispatched')
    <3>1. PICK o \in os : /\ o.step = step /\ o.v \in {top.v, Unset}
                          /\ StepPasses(o) /\ Inside(o) \subseteq os
      BY <1>1, <2>8, CoveredStep
    <3>2. Permitted(dispatched')
      <4>1. Leaf(o) = dispatched'
        BY <1>7, <3>1 DEF Leaf
      <4> QED BY <3>1, <4>1 DEF StepPasses
    <3>3. FrameCovered(back, os)
      BY <1>2, <2>1, <2>8 DEF FrameCovered
    <3>4. FrameCovered(front, os)
      <4>1. Loads(o.step, o.stack)
        BY <1>7, <2>8, <3>1 DEF StepPasses
      <4>2. Occurrences(library[step.path].steps, Given(step, o.v), o.stack \union {step.path})
               \subseteq os
        BY <1>7, <3>1, <4>1 DEF Inside
      <4>3. Given(step, o.v) \in {front.v, Unset}
        BY <2>4, <3>1 DEF Given
      <4>4. ASSUME NEW s \in Range(front.steps)
            PROVE  \E p \in os : p.step = s /\ p.v \in {front.v, Unset}
        <5>1. [step |-> s, v |-> Given(step, o.v), stack |-> o.stack \union {step.path}] \in os
          BY <2>4, <4>2, <4>4 DEF Occurrences
        <5> QED BY <4>3, <5>1
      <4> QED BY <4>4 DEF FrameCovered
    <3> QED BY <2>5, <2>6, <2>8, <3>2, <3>3, <3>4
  <2> QED BY <1>1, <2>6, <2>7, <2>8, PlayerStep
<1> QED BY <1>1, <1>5, <1>6, <1>7 DEF Dispatch

---------------------------------------------------------------------------
\* Nothing changes when nothing happens.
LEMMA SameReplay ==
  ASSUME ReplayInv, UNCHANGED replayVars
  PROVE  ReplayInv'
<1>1. UNCHANGED <<policy, permissive, library, player, dispatched, edited, edits>>
  BY DEF replayVars
<1>2. ReplayTypeOK' /\ IdleAsksNothing'
  BY <1>1 DEF ReplayInv, ReplayTypeOK, IdleAsksNothing
<1>3. StepsAreCovered'
  <2>1. \A os : Passing(os) => Passing(os)'
    BY <1>1, PassingStays
  <2> QED BY <1>1, <2>1 DEF ReplayInv, StepsAreCovered, FrameCovered
<1>4. ReplayIsChecked'
  BY <1>1, PermittedStays DEF ReplayInv, ReplayIsChecked
<1> QED BY <1>2, <1>3, <1>4 DEF ReplayInv

\* A file is edited while a replay runs.
LEMMA SomebodyEditsStep ==
  ASSUME ReplayInv, NEW f \in File, NEW body \in Body \union {Unset}, SomebodyEdits(f, body)
  PROVE  ReplayInv'
<1>1. FileOK(body)
  BY StepAssumption DEF FileOK
<1> QED BY <1>1, WriteFileStep DEF SomebodyEdits

\* Every step of a replay keeps the invariant.
LEMMA ReplayNextStep == ReplayInv /\ [ReplayNext]_replayVars => ReplayInv'
<1> SUFFICES ASSUME ReplayInv, [ReplayNext]_replayVars PROVE ReplayInv'
  OBVIOUS
<1>1. CASE \E f \in File, v \in Site \union {Unset} : StartReplay(f, v)
  BY <1>1, StartReplayStep
<1>2. CASE Dispatch
  BY <1>2, DispatchStep
<1>3. CASE EndNested
  BY <1>3, EndNestedStep
<1>4. CASE EndReplay
  BY <1>4, EndReplayStep
<1>5. CASE \E f \in File, body \in Body \union {Unset} : SomebodyEdits(f, body)
  BY <1>5, SomebodyEditsStep
<1>6. CASE UNCHANGED replayVars
  BY <1>6, SameReplay
<1> QED BY <1>1, <1>2, <1>3, <1>4, <1>5, <1>6 DEF ReplayNext

\* Whatever is in the files, however deep they nest, and whatever the policy: a replay asks the browser
\* for nothing that _tool_stealth_replay did not check, as long as nobody
\* edits a file meanwhile (mcp_handlers.py:785).
THEOREM ReplaysAreChecked == ReplaySpec => []ReplayIsChecked
<1>1. ReplayInv => ReplayIsChecked
  BY DEF ReplayInv
<1> QED BY <1>1, ReplayInitially, ReplayNextStep, PTL DEF ReplaySpec

---------------------------------------------------------------------------
(***************************************************************************)
(* The MCP server. A browser belongs to one session, a page to one         *)
(* browser, and the tab ids of all sessions come from one counter.         *)
(***************************************************************************)

\* A browser belongs to one session and a page to one browser; browsers that
\* are not made yet have none.
OneSessionEach ==
    \A n, m \in Name : session[n] # 0 /\ session[n] = session[m] => n = m

OneBrowserEach ==
    /\ \A b, c \in Browser : pages[b] \intersect pages[c] # {} => b = c
    /\ \A b \in Browser : b > made => pages[b] = {}

ServedPages ==
    \A b \in Browser : pages[b] # {} /\ serving => \E n \in Name : session[n] = b

\* No id is handed out twice, in whatever session.
OneIdEach ==
    \A n, m \in Name : \A a \in DOMAIN tabIds[n], c \in DOMAIN tabIds[m] :
        tabIds[n][a] = tabIds[m][c] => n = m /\ a = c

\* Without an active session none is open.
NobodyActive == active = NoName => Open = {}

ServerInv == /\ ServerTypeOK /\ OneSessionEach /\ OneBrowserEach /\ ServedPages
             /\ OneIdEach /\ NobodyActive

---------------------------------------------------------------------------
\* The browsers of sessions are browsers that were made.
LEMMA BrowserBounds ==
  ASSUME ServerTypeOK
  PROVE  /\ made \in Nat /\ made <= MaxBrowsers /\ MaxBrowsers \in Nat
         /\ \A n \in Name : session[n] \in Nat /\ session[n] <= made
         /\ \A n \in Name : session[n] # 0 => session[n] \in Browser
         /\ 0 \notin Browser
<1>1. made \in Nat /\ made <= MaxBrowsers /\ MaxBrowsers \in Nat
  BY McpAssumption DEF ServerTypeOK
<1>2. \A n \in Name : session[n] \in 0 .. made
  BY DEF ServerTypeOK
<1>3. \A i \in 0 .. made : i \in Nat /\ i <= made /\ (i # 0 => i \in 1 .. MaxBrowsers)
  BY <1>1
<1> QED BY <1>1, <1>2, <1>3 DEF Browser

\* The session that a call reaches is open and becomes the active one.
LEMMA ResolvedIsOpen ==
  ASSUME ServerTypeOK, NEW n, NEW c, Resolved(n, c)
  PROVE  /\ c \in Name /\ session[c] # 0 /\ session[c] \in Browser /\ c # NoName
         /\ active' = c /\ c \in Open
<1>1. c \in Name /\ session[c] # 0 /\ active' = c /\ c \in Open
  BY DEF Resolved, Open
<1> QED BY <1>1, BrowserBounds, McpAssumption

\* Steps that leave the sessions, their pages and their ids alone.
LEMMA QuietStep ==
  ASSUME ServerInv, UNCHANGED <<session, made, pages, tabIds, lastTab>>,
         serving' \in BOOLEAN, serving' => serving,
         active' \in Name \union {NoName}, active' = NoName => Open = {},
         at' \in [Browser -> Site \union {Unset}]
  PROVE  ServerInv'
<1>1. ServerTypeOK'
  BY DEF ServerInv, ServerTypeOK
<1>2. OneSessionEach' /\ OneBrowserEach' /\ OneIdEach'
  BY DEF ServerInv, OneSessionEach, OneBrowserEach, OneIdEach
<1>3. ServedPages'
  BY DEF ServerInv, ServedPages
<1>4. NobodyActive'
  BY DEF NobodyActive, Open
<1> QED BY <1>1, <1>2, <1>3, <1>4 DEF ServerInv

\* A session that a call resolved to becomes the active one.
LEMMA ResolvedQuiet ==
  ASSUME ServerInv, UNCHANGED <<session, made, pages, tabIds, lastTab, serving>>,
         NEW n, NEW c, Resolved(n, c), at' \in [Browser -> Site \union {Unset}]
  PROVE  ServerInv'
<1>1. active' \in Name /\ active' # NoName
  BY ResolvedIsOpen DEF ServerInv
<1>2. serving' \in BOOLEAN
  BY DEF ServerInv, ServerTypeOK
<1> QED BY <1>1, <1>2, QuietStep

---------------------------------------------------------------------------
\* The server starts without sessions.
LEMMA ServerInitially == McpInit => ServerInv
<1> SUFFICES ASSUME McpInit PROVE ServerInv
  OBVIOUS
<1>1. /\ session = [n \in Name |-> 0] /\ active = NoName /\ made = 0
      /\ pages = [b \in Browser |-> {}] /\ at = [b \in Browser |-> Unset]
      /\ tabIds = [n \in Name |-> Empty] /\ lastTab = 0 /\ serving = TRUE
  BY DEF McpInit
<1>2. MaxBrowsers \in Nat /\ MaxTabId \in Nat
  BY McpAssumption
<1>3. ServerTypeOK
  <2>1. made \in 0 .. MaxBrowsers /\ lastTab \in 0 .. MaxTabId
    BY <1>1, <1>2
  <2>2. session \in [Name -> 0 .. made]
    BY <1>1
  <2>3. \A n \in Name : /\ DOMAIN tabIds[n] \subseteq Address
                        /\ tabIds[n] \in [DOMAIN tabIds[n] -> 1 .. lastTab]
    BY <1>1 DEF Empty
  <2>4. DOMAIN tabIds = Name
    BY <1>1
  <2> QED BY <1>1, <2>1, <2>2, <2>3, <2>4 DEF ServerTypeOK
<1>4. OneSessionEach /\ OneBrowserEach /\ ServedPages /\ NobodyActive
  BY <1>1 DEF OneSessionEach, OneBrowserEach, ServedPages, NobodyActive, Open
<1>5. OneIdEach
  BY <1>1 DEF OneIdEach, Empty
<1> QED BY <1>3, <1>4, <1>5 DEF ServerInv

\* A launch or attach makes a browser, in the place of one of that name.
LEMMA OpenSessionStep ==
  ASSUME ServerInv, NEW n \in Name, NEW opened \in SUBSET Address, OpenSession(n, opened)
  PROVE  ServerInv'
<1> DEFINE before == [b \in Browser |-> IF b = session[n] THEN {} ELSE pages[b]]
<1>1. /\ made < MaxBrowsers /\ made' = made + 1
      /\ at' = [b \in Browser |-> IF b = session[n] THEN Unset ELSE at[b]]
      /\ UNCHANGED <<tabIds, lastTab, serving>>
  BY DEF OpenSession
<1>2. /\ made \in Nat /\ MaxBrowsers \in Nat /\ made + 1 \in Browser
      /\ \A m \in Name : session[m] \in Nat /\ session[m] <= made
      /\ \A m \in Name : session[m] # 0 => session[m] \in Browser
      /\ 0 \notin Browser
  <2>1. made \in Nat /\ MaxBrowsers \in Nat
    BY BrowserBounds DEF ServerInv
  <2>2. made + 1 \in Browser
    BY <1>1, <2>1 DEF Browser
  <2> QED BY <2>1, <2>2, BrowserBounds DEF ServerInv
<1>3. /\ pages \in [Browser -> SUBSET Address] /\ before \in [Browser -> SUBSET Address]
      /\ session \in [Name -> 0 .. made] /\ at \in [Browser -> Site \union {Unset}]
      /\ active \in Name \union {NoName}
  BY DEF ServerInv, ServerTypeOK
<1>4. /\ \A b \in Browser : before[b] \subseteq pages[b]
      /\ \A b \in Browser : b = session[n] => before[b] = {}
  OBVIOUS
<1>5. \/ /\ opened # {} /\ opened \intersect UNION Range(before) = {}
         /\ session' = [session EXCEPT ![n] = made + 1]
         /\ active' = n
         /\ pages' = [before EXCEPT ![made + 1] = opened]
      \/ /\ opened = {}
         /\ session' = [session EXCEPT ![n] = 0]
         /\ pages' = before
         /\ UNCHANGED active
  BY DEF OpenSession
<1> HIDE DEF before
<1>6. made' \in 0 .. MaxBrowsers /\ at' \in [Browser -> Site \union {Unset}]
  <2>1. made' \in 0 .. MaxBrowsers
    BY <1>1, <1>2
  <2> QED BY <1>1, <1>3, <2>1
<1>7. session' \in [Name -> 0 .. made'] /\ \A m \in Name \ {n} : session'[m] = session[m]
  <2>1. \A i \in 0 .. made : i \in 0 .. made + 1
    BY <1>2
  <2>2. 0 \in 0 .. made + 1 /\ made + 1 \in 0 .. made + 1
    BY <1>2
  <2> QED BY <1>1, <1>3, <1>5, <2>1, <2>2
<1>8. pages' \in [Browser -> SUBSET Address] /\ active' \in Name \union {NoName}
  BY <1>2, <1>3, <1>5
<1>9. ServerTypeOK'
  <2>1. /\ DOMAIN tabIds = Name /\ lastTab \in 0 .. MaxTabId /\ serving \in BOOLEAN
        /\ \A m \in Name : /\ DOMAIN tabIds[m] \subseteq Address
                           /\ tabIds[m] \in [DOMAIN tabIds[m] -> 1 .. lastTab]
    BY DEF ServerInv, ServerTypeOK
  <2> QED BY <1>1, <1>6, <1>7, <1>8, <2>1 DEF ServerTypeOK
<1>10. OneIdEach'
  BY <1>1 DEF ServerInv, OneIdEach
<1>11. \A m \in Name : session[m] # made + 1
  BY <1>2
<1>12. CASE opened # {}
  <2>1. /\ session' = [session EXCEPT ![n] = made + 1] /\ active' = n
        /\ pages' = [before EXCEPT ![made + 1] = opened]
        /\ \A b \in Browser : opened \intersect before[b] = {}
    BY <1>3, <1>5, <1>12 DEF Range
  <2>2. OneSessionEach'
    BY <1>3, <1>11, <2>1 DEF ServerInv, OneSessionEach
  <2>3. NobodyActive'
    BY <2>1, McpAssumption DEF NobodyActive
  <2>4. OneBrowserEach'
    <3>1. ASSUME NEW b \in Browser, NEW c \in Browser, pages'[b] \intersect pages'[c] # {}
          PROVE  b = c
      <4>1. pages'[b] = IF b = made + 1 THEN opened ELSE before[b]
        BY <1>3, <2>1
      <4>2. pages'[c] = IF c = made + 1 THEN opened ELSE before[c]
        BY <1>3, <2>1
      <4>3. before[b] \intersect before[c] # {} => b = c
        BY <1>4 DEF ServerInv, OneBrowserEach
      <4> QED BY <2>1, <3>1, <4>1, <4>2, <4>3
    <3>2. ASSUME NEW b \in Browser, b > made + 1
          PROVE  pages'[b] = {}
      <4>1. b # made + 1 /\ b > made
        BY <1>2, <3>2 DEF Browser
      <4>2. pages[b] = {}
        BY <4>1 DEF ServerInv, OneBrowserEach
      <4> QED BY <1>3, <1>4, <2>1, <4>1, <4>2
    <3> QED BY <1>1, <3>1, <3>2 DEF OneBrowserEach
  <2>5. ServedPages'
    <3>1. ASSUME NEW b \in Browser, pages'[b] # {}, serving
          PROVE  \E m \in Name : session'[m] = b
      <4>1. CASE b = made + 1
        BY <1>3, <2>1, <4>1
      <4>2. CASE b # made + 1
        <5>1. before[b] # {}
          BY <1>3, <2>1, <3>1, <4>2
        <5>2. PICK m \in Name : session[m] = b
          BY <1>4, <3>1, <5>1 DEF ServerInv, ServedPages
        <5>3. m # n
          BY <1>4, <5>1, <5>2
        <5> QED BY <1>7, <5>2, <5>3
      <4> QED BY <4>1, <4>2
    <3> QED BY <1>1, <3>1 DEF ServedPages
  <2> QED BY <1>9, <1>10, <2>2, <2>3, <2>4, <2>5 DEF ServerInv
<1>13. CASE opened = {}
  <2>1. /\ session' = [session EXCEPT ![n] = 0] /\ pages' = before /\ UNCHANGED active
    BY <1>5, <1>13
  <2>2. OneSessionEach'
    BY <1>3, <2>1 DEF ServerInv, OneSessionEach
  <2>3. NobodyActive'
    <3>1. \A m \in Name : session'[m] # 0 => session[m] # 0
      BY <1>3, <2>1
    <3> QED BY <2>1, <3>1 DEF ServerInv, NobodyActive, Open
  <2>4. OneBrowserEach'
    <3>1. \A b, c \in Browser : before[b] \intersect before[c] # {} => b = c
      BY <1>4 DEF ServerInv, OneBrowserEach
    <3>2. ASSUME NEW b \in Browser, b > made + 1
          PROVE  before[b] = {}
      <4>1. b > made
        BY <1>2, <3>2 DEF Browser
      <4> QED BY <1>4, <4>1 DEF ServerInv, OneBrowserEach
    <3> QED BY <1>1, <2>1, <3>1, <3>2 DEF OneBrowserEach
  <2>5. ServedPages'
    <3>1. ASSUME NEW b \in Browser, before[b] # {}, serving
          PROVE  \E m \in Name : session'[m] = b
      <4>1. PICK m \in Name : session[m] = b
        BY <1>4, <3>1 DEF ServerInv, ServedPages
      <4>2. m # n
        BY <1>4, <3>1, <4>1
      <4> QED BY <1>7, <4>1, <4>2
    <3> QED BY <1>1, <2>1, <3>1 DEF ServedPages
  <2> QED BY <1>9, <1>10, <2>2, <2>3, <2>4, <2>5 DEF ServerInv
<1> QED BY <1>12, <1>13

---------------------------------------------------------------------------
\* Pages come and go in one browser that has a session.
LEMMA PagesStep ==
  ASSUME ServerInv, UNCHANGED <<session, made, tabIds, lastTab, serving>>,
         active' \in Name \union {NoName}, active' = NoName => Open = {},
         at' \in [Browser -> Site \union {Unset}],
         NEW b \in Browser, NEW p \in SUBSET Address,
         p \subseteq pages[b] \union Free, p # {} => b <= made,
         p # {} /\ serving => \E n \in Name : session[n] = b,
         pages' = [pages EXCEPT ![b] = p]
  PROVE  ServerInv'
<1>1. pages \in [Browser -> SUBSET Address]
  BY DEF ServerInv, ServerTypeOK
<1>2. \A c \in Browser : pages'[c] = IF c = b THEN p ELSE pages[c]
  BY <1>1
<1>3. ServerTypeOK'
  BY <1>1 DEF ServerInv, ServerTypeOK
<1>4. OneSessionEach' /\ OneIdEach' /\ NobodyActive'
  BY DEF ServerInv, OneSessionEach, OneIdEach, NobodyActive, Open
<1>5. ServedPages'
  BY <1>2 DEF ServerInv, ServedPages
<1>6. OneBrowserEach'
  <2>1. \A c \in Browser \ {b} : pages[c] \intersect p = {}
    <3>1. \A c \in Browser : pages[c] \intersect Free = {}
      BY <1>1 DEF Free, Range
    <3>2. \A c \in Browser \ {b} : pages[c] \intersect pages[b] = {}
      BY DEF ServerInv, OneBrowserEach
    <3> QED BY <3>1, <3>2
  <2>2. ASSUME NEW c \in Browser, NEW d \in Browser, pages'[c] \intersect pages'[d] # {}
        PROVE  c = d
    BY <1>2, <2>1, <2>2 DEF ServerInv, OneBrowserEach
  <2>3. ASSUME NEW c \in Browser, c > made
        PROVE  pages'[c] = {}
    <3>1. c = b => ~ (b <= made)
      BY <2>3, BrowserBounds DEF ServerInv, Browser
    <3> QED BY <1>2, <2>3, <3>1 DEF ServerInv, OneBrowserEach
  <2> QED BY <2>2, <2>3 DEF OneBrowserEach
<1> QED BY <1>3, <1>4, <1>5, <1>6 DEF ServerInv

\* A region change relaunches the browser of a session.
LEMMA SetRegionStep ==
  ASSUME ServerInv, NEW n \in Name \union {NoName}, SetRegion(n)
  PROVE  ServerInv'
<1>1. PICK c \in Name :
         /\ Resolved(n, c)
         /\ \E p \in SUBSET (Free \union pages[session[c]]) :
              pages' = [pages EXCEPT ![session[c]] = p]
         /\ at' = [at EXCEPT ![session[c]] = Unset]
         /\ UNCHANGED <<session, made, tabIds, lastTab, serving>>
  BY DEF SetRegion
<1>2. /\ session[c] \in Browser /\ session[c] <= made /\ active' \in Name /\ active' # NoName
  BY <1>1, ResolvedIsOpen, BrowserBounds DEF ServerInv
<1>3. PICK p \in SUBSET (Free \union pages[session[c]]) :
         pages' = [pages EXCEPT ![session[c]] = p]
  BY <1>1
<1>4. p \subseteq Address
  BY <1>2 DEF Free, ServerInv, ServerTypeOK
<1>5. at' \in [Browser -> Site \union {Unset}]
  BY <1>1, <1>2 DEF ServerInv, ServerTypeOK
<1> QED BY <1>1, <1>2, <1>3, <1>4, <1>5, PagesStep

\* A page opens at an address that no other page has.
LEMMA PageOpensStep ==
  ASSUME ServerInv, NEW b \in Browser, NEW a \in Address, PageOpens(b, a)
  PROVE  ServerInv'
<1>1. /\ serving /\ pages[b] # {} /\ a \in Free
      /\ pages' = [pages EXCEPT ![b] = pages[b] \union {a}]
      /\ UNCHANGED <<session, active, made, at, tabIds, lastTab, serving>>
  BY DEF PageOpens
<1>2. PICK n \in Name : session[n] = b
  BY <1>1 DEF ServerInv, ServedPages
<1>3. /\ b <= made /\ pages[b] \union {a} \in SUBSET Address
      /\ pages[b] \union {a} \subseteq pages[b] \union Free
  BY <1>1, <1>2, BrowserBounds DEF ServerInv, ServerTypeOK
<1>4. /\ active \in Name \union {NoName} /\ at \in [Browser -> Site \union {Unset}]
      /\ active = NoName => Open = {}
  BY DEF ServerInv, ServerTypeOK, NobodyActive
<1> QED BY <1>1, <1>2, <1>3, <1>4, PagesStep

\* A page closes, and its address is free again.
LEMMA PageClosesStep ==
  ASSUME ServerInv, NEW b \in Browser, NEW a \in Address, PageCloses(b, a)
  PROVE  ServerInv'
<1>1. /\ serving /\ a \in pages[b]
      /\ pages' = [pages EXCEPT ![b] = pages[b] \ {a}]
      /\ UNCHANGED <<session, active, made, at, tabIds, lastTab, serving>>
  BY DEF PageCloses
<1>2. PICK n \in Name : session[n] = b
  BY <1>1 DEF ServerInv, ServedPages
<1>3. /\ b <= made /\ pages[b] \ {a} \in SUBSET Address
      /\ pages[b] \ {a} \subseteq pages[b] \union Free
  BY <1>1, <1>2, BrowserBounds DEF ServerInv, ServerTypeOK
<1>4. /\ active \in Name \union {NoName} /\ at \in [Browser -> Site \union {Unset}]
      /\ active = NoName => Open = {}
  BY DEF ServerInv, ServerTypeOK, NobodyActive
<1> QED BY <1>1, <1>2, <1>3, <1>4, PagesStep

---------------------------------------------------------------------------
\* The ids that are handed out are new; those that were told stay.
LEMMA HandOutStep ==
  ASSUME ServerInv, NEW n \in Name \union {NoName}, NEW c \in Name, Resolved(n, c),
         NEW seen \in SUBSET pages[session[c]], HandOut(c, seen),
         UNCHANGED <<session, made, pages, at, serving>>
  PROVE  /\ ServerInv'
         /\ \A m \in Name : \A a \in DOMAIN tabIds[m] :
               a \in DOMAIN tabIds'[m] /\ tabIds'[m][a] = tabIds[m][a]
<1> DEFINE new == seen \ DOMAIN tabIds[c]
           last == lastTab + Cardinality(new)
<1>1. /\ session[c] \in Browser /\ active' \in Name /\ active' # NoName
  BY ResolvedIsOpen DEF ServerInv
<1>2. /\ lastTab \in Nat /\ lastTab \in 0 .. MaxTabId /\ MaxTabId \in Nat /\ DOMAIN tabIds = Name
      /\ \A m \in Name : /\ DOMAIN tabIds[m] \subseteq Address
                         /\ tabIds[m] \in [DOMAIN tabIds[m] -> 1 .. lastTab]
  BY McpAssumption DEF ServerInv, ServerTypeOK
<1>3. Cardinality(new) \in Nat /\ new \subseteq Address
  <2>1. new \subseteq Address
    BY <1>1 DEF ServerInv, ServerTypeOK
  <2> HIDE DEF new
  <2> QED BY <2>1, McpAssumption, FS_Subset, FS_CardinalityType
<1>4. /\ last <= MaxTabId /\ lastTab' = last
      /\ \E f \in Bijection(new, lastTab + 1 .. last) :
             tabIds' = [tabIds EXCEPT ![c] = [a \in DOMAIN tabIds[c] \union new |->
                          IF a \in new THEN f[a] ELSE tabIds[c][a]]]
  BY DEF HandOut
<1>5. new \intersect DOMAIN tabIds[c] = {}
  OBVIOUS
<1> HIDE DEF new
<1>6. last \in Nat /\ lastTab <= last
  BY <1>2, <1>3
<1> HIDE DEF last
<1>7. PICK f \in Bijection(new, lastTab + 1 .. last) :
             tabIds' = [tabIds EXCEPT ![c] = [a \in DOMAIN tabIds[c] \union new |->
                          IF a \in new THEN f[a] ELSE tabIds[c][a]]]
  BY <1>4
<1>8. f \in [new -> lastTab + 1 .. last] /\ \A a, b \in new : f[a] = f[b] => a = b
  <2>1. f \in Injection(new, lastTab + 1 .. last)
    BY <1>7 DEF Bijection
  <2>2. f \in [new -> lastTab + 1 .. last] /\ IsInjective(f)
    BY <2>1 DEF Injection
  <2> QED BY <2>2 DEF IsInjective
<1>9. /\ DOMAIN tabIds' = Name
      /\ \A m \in Name \ {c} : tabIds'[m] = tabIds[m]
      /\ tabIds'[c] = [a \in DOMAIN tabIds[c] \union new |->
                          IF a \in new THEN f[a] ELSE tabIds[c][a]]
  BY <1>2, <1>7
<1>10. /\ DOMAIN tabIds'[c] = DOMAIN tabIds[c] \union new
       /\ \A a \in new : tabIds'[c][a] = f[a]
       /\ \A a \in DOMAIN tabIds[c] : tabIds'[c][a] = tabIds[c][a]
  BY <1>5, <1>9
<1>11. /\ \A i \in 1 .. lastTab : i \in 1 .. last /\ i \notin lastTab + 1 .. last
       /\ \A i \in lastTab + 1 .. last : i \in 1 .. last
  BY <1>2, <1>6
<1>12. ServerTypeOK'
  <2>1. lastTab' \in 0 .. MaxTabId
    BY <1>2, <1>4, <1>6
  <2>2. ASSUME NEW m \in Name
        PROVE  /\ DOMAIN tabIds'[m] \subseteq Address
               /\ tabIds'[m] \in [DOMAIN tabIds'[m] -> 1 .. lastTab']
    <3>1. CASE m = c
      <4>1. \A a \in DOMAIN tabIds'[c] : tabIds'[c][a] \in 1 .. last
        <5>1. \A a \in DOMAIN tabIds[c] : tabIds[c][a] \in 1 .. lastTab
          BY <1>2
        <5>2. \A a \in new : f[a] \in lastTab + 1 .. last
          BY <1>8
        <5> QED BY <1>10, <1>11, <5>1, <5>2
      <4>2. tabIds'[c] = [a \in DOMAIN tabIds'[c] |-> tabIds'[c][a]]
        BY <1>9
      <4> QED BY <1>2, <1>3, <1>4, <1>10, <3>1, <4>1, <4>2
    <3>2. CASE m # c
      <4>1. \A a \in DOMAIN tabIds[m] : tabIds[m][a] \in 1 .. last
        BY <1>2, <1>11
      <4> QED BY <1>2, <1>4, <1>9, <3>2, <4>1
    <3> QED BY <3>1, <3>2
  <2>3. /\ session' \in [Name -> 0 .. made'] /\ made' \in 0 .. MaxBrowsers
        /\ pages' \in [Browser -> SUBSET Address] /\ at' \in [Browser -> Site \union {Unset}]
        /\ serving' \in BOOLEAN
    BY DEF ServerInv, ServerTypeOK
  <2> QED BY <1>1, <1>9, <2>1, <2>2, <2>3 DEF ServerTypeOK
<1>13. OneIdEach'
  <2>1. ASSUME NEW m \in Name, NEW k \in Name, NEW a \in DOMAIN tabIds'[m],
               NEW b \in DOMAIN tabIds'[k], tabIds'[m][a] = tabIds'[k][b]
        PROVE  m = k /\ a = b
    <3> DEFINE Old(h, d) == d \in DOMAIN tabIds[h] /\ tabIds'[h][d] = tabIds[h][d]
               New(h, d) == h = c /\ d \in new /\ tabIds'[h][d] = f[d]
    <3>1. Old(m, a) \/ New(m, a)
      BY <1>9, <1>10, <2>1
    <3>2. Old(k, b) \/ New(k, b)
      BY <1>9, <1>10, <2>1
    <3>3. \A h \in Name : \A d \in DOMAIN tabIds[h] : tabIds[h][d] \in 1 .. lastTab
      BY <1>2
    <3>4. \A d \in new : f[d] \in lastTab + 1 .. last
      BY <1>8
    <3>5. \A h \in Name : \A d \in DOMAIN tabIds[h], e \in new : tabIds[h][d] # f[e]
      BY <1>11, <3>3, <3>4
    <3>6. Old(m, a) /\ Old(k, b) => m = k /\ a = b
      <4> SUFFICES ASSUME Old(m, a), Old(k, b) PROVE m = k /\ a = b
        OBVIOUS
      <4>1. /\ a \in DOMAIN tabIds[m] /\ b \in DOMAIN tabIds[k]
            /\ tabIds[m][a] = tabIds[k][b]
        BY <2>1
      <4>2. OneIdEach
        BY DEF ServerInv
      <4> QED BY <4>1, <4>2 DEF OneIdEach
    <3>7. New(m, a) /\ New(k, b) => m = k /\ a = b
      BY <1>8, <2>1
    <3>8. ~ (Old(m, a) /\ New(k, b)) /\ ~ (New(m, a) /\ Old(k, b))
      BY <2>1, <3>5
    <3> HIDE DEF Old, New
    <3> QED BY <3>1, <3>2, <3>6, <3>7, <3>8
  <2> QED BY <2>1 DEF OneIdEach
<1>14. OneSessionEach' /\ OneBrowserEach' /\ ServedPages' /\ NobodyActive'
  BY <1>1 DEF ServerInv, OneSessionEach, OneBrowserEach, ServedPages, NobodyActive, Open
<1>15. ServerInv'
  BY <1>12, <1>13, <1>14 DEF ServerInv
<1> QED BY <1>9, <1>10, <1>15

---------------------------------------------------------------------------
\* The oldest of the other sessions is one of them.
LEMMA OldestIsOpen ==
  ASSUME ServerTypeOK, NEW n \in Name
  PROVE  /\ Open \ {n} = {} => Oldest(n) = NoName
         /\ Open \ {n} # {} => Oldest(n) \in Open \ {n}
<1> DEFINE rest == Open \ {n}
<1>1. Oldest(n) = IF rest = {} THEN NoName
                  ELSE CHOOSE m \in rest : \A k \in rest : session[m] <= session[k]
  BY DEF Oldest
<1>2. ASSUME rest # {}
      PROVE  \E m \in rest : \A k \in rest : session[m] <= session[k]
  <2> DEFINE T == {session[m] : m \in rest}
  <2>1. T \in SUBSET Nat /\ T # {}
    BY <1>2, BrowserBounds DEF Open
  <2>2. \E x \in T : \A y \in T : x <= y
    <3> HIDE DEF T
    <3> QED BY <2>1, Least
  <2> QED BY <2>2
<1> HIDE DEF rest
<1>3. rest # {} => Oldest(n) \in rest
  BY <1>1, <1>2
<1> QED BY <1>1, <1>3 DEF rest

\* A session is closed, with its pages and ids.
LEMMA CloseSessionStep ==
  ASSUME ServerInv, NEW n \in Name \union {NoName}, CloseSession(n)
  PROVE  ServerInv'
<1> DEFINE c == Chosen(n)
<1>1. /\ c \in Open
      /\ session' = [session EXCEPT ![c] = 0]
      /\ pages' = [pages EXCEPT ![session[c]] = {}]
      /\ at' = [at EXCEPT ![session[c]] = Unset]
      /\ tabIds' = [tabIds EXCEPT ![c] = Empty]
      /\ active' = Oldest(c)
      /\ UNCHANGED <<made, lastTab, serving>>
  BY DEF CloseSession
<1> HIDE DEF c
<1>2. c \in Name /\ session[c] \in Browser
  BY <1>1, BrowserBounds DEF ServerInv, Open
<1>3. /\ Open \ {c} = {} => active' = NoName
      /\ Open \ {c} # {} => active' \in Open \ {c}
  BY <1>1, <1>2, OldestIsOpen DEF ServerInv
<1>4. /\ session \in [Name -> 0 .. made] /\ pages \in [Browser -> SUBSET Address]
      /\ at \in [Browser -> Site \union {Unset}] /\ DOMAIN tabIds = Name
      /\ made \in 0 .. MaxBrowsers /\ lastTab \in 0 .. MaxTabId /\ serving \in BOOLEAN
      /\ \A m \in Name : /\ DOMAIN tabIds[m] \subseteq Address
                         /\ tabIds[m] \in [DOMAIN tabIds[m] -> 1 .. lastTab]
  BY DEF ServerInv, ServerTypeOK
<1>5. /\ \A m \in Name \ {c} : session'[m] = session[m] /\ tabIds'[m] = tabIds[m]
      /\ session'[c] = 0 /\ tabIds'[c] = Empty /\ DOMAIN tabIds' = Name
      /\ \A b \in Browser : pages'[b] = IF b = session[c] THEN {} ELSE pages[b]
  BY <1>1, <1>2, <1>4
<1>6. Open' = Open \ {c}
  BY <1>2, <1>5 DEF Open
<1>7. ServerTypeOK'
  <2>1. session' \in [Name -> 0 .. made']
    <3>1. 0 \in 0 .. made
      BY BrowserBounds DEF ServerInv
    <3> QED BY <1>1, <1>4, <3>1
  <2>2. pages' \in [Browser -> SUBSET Address] /\ at' \in [Browser -> Site \union {Unset}]
    BY <1>1, <1>4
  <2>3. active' \in Name \union {NoName}
    BY <1>3 DEF Open
  <2>4. \A m \in Name : /\ DOMAIN tabIds'[m] \subseteq Address
                        /\ tabIds'[m] \in [DOMAIN tabIds'[m] -> 1 .. lastTab']
    <3>1. DOMAIN Empty \subseteq Address /\ Empty \in [DOMAIN Empty -> 1 .. lastTab]
      BY DEF Empty
    <3> QED BY <1>1, <1>4, <1>5, <3>1
  <2> QED BY <1>1, <1>4, <1>5, <2>1, <2>2, <2>3, <2>4 DEF ServerTypeOK
<1>8. OneSessionEach'
  BY <1>5 DEF ServerInv, OneSessionEach
<1>9. OneBrowserEach'
  BY <1>1, <1>5 DEF ServerInv, OneBrowserEach
<1>10. ServedPages'
  <2>1. ASSUME NEW b \in Browser, pages'[b] # {}, serving
        PROVE  \E m \in Name : session'[m] = b
    <3>1. b # session[c] /\ pages[b] # {}
      BY <1>5, <2>1
    <3>2. PICK m \in Name : session[m] = b
      BY <2>1, <3>1 DEF ServerInv, ServedPages
    <3> QED BY <1>5, <3>1, <3>2
  <2> QED BY <1>1, <2>1 DEF ServedPages
<1>11. OneIdEach'
  <2>1. DOMAIN tabIds'[c] = {}
    BY <1>5 DEF Empty
  <2> QED BY <1>5, <2>1 DEF ServerInv, OneIdEach
<1>12. NobodyActive'
  <2>1. NoName \notin Open
    BY McpAssumption DEF Open
  <2> QED BY <1>3, <1>6, <2>1 DEF NobodyActive
<1> QED BY <1>7, <1>8, <1>9, <1>10, <1>11, <1>12 DEF ServerInv

\* All sessions are closed.
LEMMA AllClosedStep ==
  ASSUME ServerInv, AllClosed, UNCHANGED <<made, lastTab>>, serving' \in BOOLEAN
  PROVE  ServerInv'
<1>1. /\ session' = [n \in Name |-> 0] /\ pages' = [b \in Browser |-> {}]
      /\ at' = [b \in Browser |-> Unset] /\ active' = NoName
      /\ tabIds' = [n \in Name |-> IF n \in Open THEN Empty ELSE tabIds[n]]
  BY DEF AllClosed
<1>2. /\ made \in 0 .. MaxBrowsers /\ lastTab \in 0 .. MaxTabId
      /\ \A m \in Name : /\ DOMAIN tabIds[m] \subseteq Address
                         /\ tabIds[m] \in [DOMAIN tabIds[m] -> 1 .. lastTab]
  BY DEF ServerInv, ServerTypeOK
<1>3. DOMAIN Empty = {} /\ Empty \in [DOMAIN Empty -> 1 .. lastTab]
  BY DEF Empty
<1>4. ServerTypeOK'
  <2>1. session' \in [Name -> 0 .. made']
    <3>1. 0 \in 0 .. made
      BY BrowserBounds DEF ServerInv
    <3> QED BY <1>1, <3>1
  <2>2. \A m \in Name : /\ DOMAIN tabIds'[m] \subseteq Address
                        /\ tabIds'[m] \in [DOMAIN tabIds'[m] -> 1 .. lastTab']
    BY <1>1, <1>2, <1>3
  <2>3. /\ DOMAIN tabIds' = Name /\ pages' \in [Browser -> SUBSET Address]
        /\ at' \in [Browser -> Site \union {Unset}]
    BY <1>1
  <2> QED BY <1>1, <1>2, <2>1, <2>2, <2>3 DEF ServerTypeOK
<1>5. OneSessionEach' /\ OneBrowserEach' /\ ServedPages' /\ NobodyActive'
  BY <1>1 DEF OneSessionEach, OneBrowserEach, ServedPages, NobodyActive, Open
<1>6. OneIdEach'
  BY <1>1, <1>3 DEF ServerInv, OneIdEach
<1> QED BY <1>4, <1>5, <1>6 DEF ServerInv

---------------------------------------------------------------------------
\* Calls that only choose the session, and move its page or not.
LEMMA VisitStep ==
  ASSUME ServerInv, NEW n, NEW url \in Site, Visit(n, url)
  PROVE  ServerInv'
<1>1. PICK c \in Name :
         /\ Resolved(n, c)
         /\ \/ pages[session[c]] # {} /\ at' = [at EXCEPT ![session[c]] = url]
            \/ UNCHANGED at
  BY DEF Visit
<1>2. at' \in [Browser -> Site \union {Unset}]
  BY <1>1 DEF ServerInv, ServerTypeOK
<1>3. UNCHANGED <<session, made, pages, tabIds, lastTab, serving>>
  BY DEF Visit
<1> QED BY <1>1, <1>2, <1>3, ResolvedQuiet

\* A call that only chooses a session.
LEMMA ChoosingStep ==
  ASSUME ServerInv, NEW n, \E c \in Name : Resolved(n, c),
         UNCHANGED <<session, made, pages, at, tabIds, lastTab, serving>>
  PROVE  ServerInv'
<1>1. PICK c \in Name : Resolved(n, c)
  OBVIOUS
<1>2. at' \in [Browser -> Site \union {Unset}]
  BY DEF ServerInv, ServerTypeOK
<1> QED BY <1>1, <1>2, ResolvedQuiet

\* Nothing changes when nothing happens.
LEMMA SameServer ==
  ASSUME ServerInv, UNCHANGED sessionVars
  PROVE  ServerInv'
<1>1. UNCHANGED <<session, active, made, pages, at, tabIds, lastTab, serving>>
  BY DEF sessionVars
<1>2. /\ active \in Name \union {NoName}
      /\ active = NoName => Open = {}
      /\ at \in [Browser -> Site \union {Unset}] /\ serving \in BOOLEAN
  BY DEF ServerInv, ServerTypeOK, NobodyActive
<1> QED BY <1>1, <1>2, QuietStep

\* The player goes on in the browser of the active session.
LEMMA PlayStepStep ==
  ASSUME ServerInv, PlayStep
  PROVE  ServerInv'
<1>1. /\ at' = IF dispatched'.type = "navigate" /\ dispatched'.url \in Site
               THEN [at EXCEPT ![session[active]] = dispatched'.url] ELSE at
      /\ UNCHANGED <<session, active, made, pages, tabIds, lastTab, serving>>
  BY DEF PlayStep
<1>2. /\ active \in Name \union {NoName}
      /\ active = NoName => Open = {}
      /\ at \in [Browser -> Site \union {Unset}] /\ serving \in BOOLEAN
  BY DEF ServerInv, ServerTypeOK, NobodyActive
<1>3. at' \in [Browser -> Site \union {Unset}]
  BY <1>1, <1>2
<1> QED BY <1>1, <1>2, <1>3, QuietStep

\* The input ends, and with it the server.
LEMMA EndOfInputStep ==
  ASSUME ServerInv, EndOfInput
  PROVE  ServerInv'
<1>1. /\ UNCHANGED <<session, active, made, pages, at, tabIds, lastTab>> /\ serving' = FALSE
  BY DEF EndOfInput
<1>2. /\ active \in Name \union {NoName}
      /\ active = NoName => Open = {}
      /\ at \in [Browser -> Site \union {Unset}]
  BY DEF ServerInv, ServerTypeOK, NobodyActive
<1> QED BY <1>1, <1>2, QuietStep

\* Every step of the server keeps its invariant; what the step does to a
\* replay is of no account here.
LEMMA ServerStep == ServerInv /\ [McpNext]_mcpVars => ServerInv'
<1> SUFFICES ASSUME ServerInv, [McpNext]_mcpVars PROVE ServerInv'
  OBVIOUS
<1>1. CASE \E n \in Name : Launch(n) \/ Attach(n)
  <2>1. PICK n \in Name : \E p \in SUBSET Address : OpenSession(n, p)
    BY <1>1 DEF Launch, Attach
  <2> QED BY <2>1, OpenSessionStep
<1>2. ASSUME NEW n \in Name \union {NoName}, NEW url \in Site, Navigate(n, url) \/ Scrape(n, url)
      PROVE  ServerInv'
  BY <1>2, VisitStep DEF Navigate, Scrape
<1>3. ASSUME NEW n \in Name \union {NoName}, Ask(n) \/ Inspect(n)
      PROVE  ServerInv'
  BY <1>3, ChoosingStep DEF Ask, Inspect
<1>4. ASSUME NEW n \in Name \union {NoName}, SetRegion(n)
      PROVE  ServerInv'
  BY <1>4, SetRegionStep
<1>5. ASSUME NEW n \in Name \union {NoName}, TabsList(n) \/ TabSnapshot(n)
      PROVE  ServerInv'
  <2>1. PICK c \in Name : Resolved(n, c) /\ \E seen \in SUBSET pages[session[c]] : HandOut(c, seen)
    BY <1>5 DEF TabsList, TabSnapshot
  <2>2. UNCHANGED <<session, made, pages, at, serving>>
    BY <1>5 DEF TabsList, TabSnapshot
  <2> QED BY <2>1, <2>2, HandOutStep
<1>6. ASSUME NEW n \in Name \union {NoName}, NEW f \in File, NEW v \in Site \union {Unset},
             Replay(n, f, v)
      PROVE  ServerInv'
  BY <1>6, ChoosingStep DEF Replay
<1>7. ASSUME NEW n \in Name \union {NoName}, CloseSession(n)
      PROVE  ServerInv'
  BY <1>7, CloseSessionStep
<1>8. ASSUME NEW n \in Name, NEW f \in File, Teach(n, f)
      PROVE  ServerInv'
  BY <1>8, ChoosingStep DEF Teach
<1>9. CASE \/ \E f \in File : DeleteWorkflow(f)
           \/ \E f \in File, body \in Body \union {Unset} : SomebodyWrites(f, body)
           \/ PlayOn \/ UNCHANGED mcpVars
  <2>1. UNCHANGED sessionVars
    BY <1>9 DEF DeleteWorkflow, SomebodyWrites, PlayOn, mcpVars, sessionVars
  <2> QED BY <2>1, SameServer
<1>10. CASE PlayStep
  BY <1>10, PlayStepStep
<1>11. ASSUME NEW b \in Browser, NEW a \in Address, PageOpens(b, a) \/ PageCloses(b, a)
       PROVE  ServerInv'
  BY <1>11, PageOpensStep, PageClosesStep
<1>12. CASE CloseAll \/ Shutdown
  <2>1. serving' \in BOOLEAN
    BY <1>12 DEF CloseAll, Shutdown, ServerInv, ServerTypeOK
  <2> QED BY <1>12, <2>1, AllClosedStep DEF CloseAll, Shutdown
<1>13. CASE EndOfInput
  BY <1>13, EndOfInputStep
<1> QED BY <1>1, <1>2, <1>3, <1>4, <1>5, <1>6, <1>7, <1>8, <1>9, <1>10, <1>11, <1>12, <1>13
        DEF McpNext

\* And every step of the server keeps what holds of a replay.
LEMMA ReplayUnderServer == ReplayInv /\ ServerInv /\ [McpNext]_mcpVars => ReplayInv'
<1> SUFFICES ASSUME ReplayInv, ServerInv, [McpNext]_mcpVars PROVE ReplayInv'
  OBVIOUS
<1>1. ASSUME NEW n \in Name \union {NoName}, NEW f \in File, NEW v \in Site \union {Unset},
             Replay(n, f, v)
      PROVE  ReplayInv'
  BY <1>1, StartReplayStep DEF Replay
<1>2. ASSUME NEW n \in Name, NEW f \in File, Teach(n, f)
      PROVE  ReplayInv'
  <2> DEFINE body == Taught(at[session[n]])
  <2>1. at[session[n]] \in Site \union {Unset}
    <3>1. session[n] \in Browser
      BY <1>2, ResolvedIsOpen DEF ServerInv, Teach
    <3> QED BY <3>1 DEF ServerInv, ServerTypeOK
  <2>2. FileOK(body)
    <3>1. /\ <<>> \in StepList
          /\ \A url \in Site :
               <<[type |-> "navigate", url |-> url], [type |-> "wait", url |-> Unset]>> \in StepList
      BY McpAssumption DEF StepList
    <3> QED BY <2>1, <3>1 DEF FileOK, Taught
  <2>3. WriteFile(f, body) /\ UNCHANGED <<policy, permissive, player, dispatched>>
    BY <1>2 DEF Teach
  <2> HIDE DEF body
  <2> QED BY <2>2, <2>3, WriteFileStep
<1>3. ASSUME NEW f \in File, DeleteWorkflow(f)
      PROVE  ReplayInv'
  BY <1>3, WriteFileStep DEF DeleteWorkflow, FileOK
<1>4. ASSUME NEW f \in File, NEW body \in Body \union {Unset}, SomebodyWrites(f, body)
      PROVE  ReplayInv'
  BY <1>4, SomebodyEditsStep DEF SomebodyWrites
<1>5. CASE PlayStep
  BY <1>5, DispatchStep DEF PlayStep
<1>6. CASE PlayOn
  BY <1>6, EndNestedStep, EndReplayStep DEF PlayOn
<1>7. CASE \/ \E n \in Name : Launch(n) \/ Attach(n)
           \/ \E n \in Name \union {NoName} :
                \/ \E url \in Site : Navigate(n, url) \/ Scrape(n, url)
                \/ Ask(n) \/ Inspect(n) \/ SetRegion(n) \/ TabsList(n) \/ TabSnapshot(n)
                \/ CloseSession(n)
           \/ \E b \in Browser, a \in Address : PageOpens(b, a) \/ PageCloses(b, a)
           \/ CloseAll \/ Shutdown \/ EndOfInput \/ UNCHANGED mcpVars
  <2>1. UNCHANGED replayVars
    BY <1>7 DEF Launch, Attach, OpenSession, Navigate, Scrape, Visit, Ask, Inspect, SetRegion,
                TabsList, TabSnapshot, CloseSession, PageOpens, PageCloses, CloseAll, Shutdown,
                EndOfInput, mcpVars
  <2> QED BY <2>1, SameReplay
<1> QED BY <1>1, <1>2, <1>3, <1>4, <1>5, <1>6, <1>7 DEF McpNext

---------------------------------------------------------------------------
McpInv == ReplayInv /\ ServerInv

\* What the server holds of sessions, pages and replays, in every state.
THEOREM ServerInvariant == McpSpec => []McpInv
<1>1. McpInit => McpInv
  BY ReplayInitially, ServerInitially DEF McpInit, McpInv
<1>2. McpInv /\ [McpNext]_mcpVars => McpInv'
  BY ServerStep, ReplayUnderServer DEF McpInv
<1> QED BY <1>1, <1>2, PTL DEF McpSpec

\* Every variable of the server and its player keeps its type.
THEOREM McpTypesHold == McpSpec => []McpTypeOK
<1>1. McpInv => McpTypeOK
  BY DEF McpInv, ReplayInv, ServerInv, McpTypeOK
<1> QED BY <1>1, ServerInvariant, PTL

\* The same of the replays that stealth_replay runs, while workflows are
\* taught, deleted and edited between the calls (mcp_handlers.py:785).
THEOREM ServedReplaysAreChecked == McpSpec => []ReplayIsChecked
<1>1. McpInv => ReplayIsChecked
  BY DEF McpInv, ReplayInv
<1> QED BY <1>1, ServerInvariant, PTL

\* The invariant says it of every two sessions that are open.
LEMMA DistinctTabs == McpInv => TabsAreDistinct
<1> SUFFICES ASSUME McpInv PROVE TabsAreDistinct
  OBVIOUS
<1>1. \A n, m \in Open : session[n] = session[m] => n = m
  BY DEF McpInv, ServerInv, OneSessionEach, Open
<1>2. ASSUME serving, NEW b \in Browser, pages[b] # {}
      PROVE  \E n \in Open : session[n] = b
  <2>1. PICK n \in Name : session[n] = b
    BY <1>2 DEF McpInv, ServerInv, ServedPages
  <2>2. b # 0
    BY BrowserBounds DEF McpInv, ServerInv
  <2> QED BY <2>1, <2>2 DEF Open
<1> QED BY <1>1, <1>2 DEF McpInv, ServerInv, OneIdEach, TabsAreDistinct, Open

\* No two pages that are open in sessions ever have the same tab id, no browser
\* belongs to two sessions, and while the server serves none has pages without a
\* session, whatever is launched, attached and closed, for any number of sessions
\* (mcp_server.py, _sessions, _tab_ids and _next_tab_id).
THEOREM TabsStayDistinct == McpSpec => []TabsAreDistinct
BY DistinctTabs, ServerInvariant, PTL

\* Only a listing or a snapshot changes the ids of a session that stays.
LEMMA IdsStay ==
  ASSUME ServerInv, [McpNext]_mcpVars, NEW n \in Name, session[n] # 0, session'[n] = session[n]
  PROVE  \A a \in DOMAIN tabIds[n] : a \in DOMAIN tabIds'[n] /\ tabIds'[n][a] = tabIds[n][a]
<1>1. ASSUME NEW m \in Name \union {NoName}, TabsList(m) \/ TabSnapshot(m)
      PROVE  \A a \in DOMAIN tabIds[n] : a \in DOMAIN tabIds'[n] /\ tabIds'[n][a] = tabIds[n][a]
  <2>1. PICK c \in Name : Resolved(m, c) /\ \E seen \in SUBSET pages[session[c]] : HandOut(c, seen)
    BY <1>1 DEF TabsList, TabSnapshot
  <2>2. UNCHANGED <<session, made, pages, at, serving>>
    BY <1>1 DEF TabsList, TabSnapshot
  <2> QED BY <2>1, <2>2, HandOutStep
<1>2. ASSUME NEW m \in Name \union {NoName}, CloseSession(m)
      PROVE  tabIds'[n] = tabIds[n]
  <2>1. /\ Chosen(m) \in Open /\ session' = [session EXCEPT ![Chosen(m)] = 0]
        /\ tabIds' = [tabIds EXCEPT ![Chosen(m)] = Empty]
    BY <1>2 DEF CloseSession
  <2>2. session \in [Name -> 0 .. made] /\ DOMAIN tabIds = Name
    BY DEF ServerInv, ServerTypeOK
  <2>3. n # Chosen(m)
    BY <2>1, <2>2
  <2> QED BY <2>1, <2>2, <2>3
<1>3. ~ (CloseAll \/ Shutdown)
  BY DEF CloseAll, Shutdown, AllClosed
<1>4. CASE \/ \E m \in Name : Launch(m) \/ Attach(m)
           \/ \E m \in Name \union {NoName} :
                \/ \E url \in Site : Navigate(m, url) \/ Scrape(m, url)
                \/ Ask(m) \/ Inspect(m) \/ SetRegion(m)
                \/ \E f \in File, v \in Site \union {Unset} : Replay(m, f, v)
           \/ \E m \in Name, f \in File : Teach(m, f)
           \/ \E f \in File : DeleteWorkflow(f)
           \/ \E f \in File, body \in Body \union {Unset} : SomebodyWrites(f, body)
           \/ PlayStep \/ PlayOn
           \/ \E b \in Browser, a \in Address : PageOpens(b, a) \/ PageCloses(b, a)
           \/ EndOfInput \/ UNCHANGED mcpVars
  <2>1. tabIds' = tabIds
    BY <1>4 DEF Launch, Attach, OpenSession, Navigate, Scrape, Visit, Ask, Inspect, SetRegion,
                Replay, Teach, DeleteWorkflow, SomebodyWrites, PlayStep, PlayOn, PageOpens,
                PageCloses, EndOfInput, mcpVars, sessionVars
  <2> QED BY <2>1
<1> QED BY <1>1, <1>2, <1>3, <1>4 DEF McpNext

\* A page keeps its tab id as long as its session has it (stealth_tabs_list
\* and stealth_tab_snapshot).
THEOREM TabsKeepTheirIds == McpSpec => TabKeepsItsId
<1>1. McpInv /\ [McpNext]_mcpVars =>
        [\A n \in Name :
           session[n] # 0 /\ session'[n] = session[n] =>
              \A a \in pages[session[n]] \intersect pages'[session[n]]
                                         \intersect DOMAIN tabIds[n] :
                 a \in DOMAIN tabIds'[n] /\ tabIds'[n][a] = tabIds[n][a]]_mcpVars
  BY IdsStay DEF McpInv
<1> QED BY <1>1, ServerInvariant, PTL DEF McpSpec, TabKeepsItsId

---------------------------------------------------------------------------
\* Where a call that names nobody goes.
LEMMA ArrivesInActive ==
  ASSUME NobodyActive
  PROVE  Arrives <=> Open = {} \/ active \in Open
<1>1. CASE active # NoName
  BY <1>1 DEF Arrives, Chosen
<1>2. CASE active = NoName
  BY <1>2 DEF NobodyActive, Arrives
<1> QED BY <1>1, <1>2

\* Where calls without a name go changes only with a launch that fails.
LEMMA ArrivalStep ==
  ASSUME ServerInv, ServerInv', [McpNext]_mcpVars, Arrives, ~ Arrives'
  PROVE  made' > made /\ session'[active] = 0
<1>1. /\ Open = {} \/ active \in Open
      /\ Open' # {} /\ active' \notin Open'
  <2>1. Open = {} \/ active \in Open
    BY ArrivesInActive DEF ServerInv
  <2>2. Arrives' <=> Open' = {} \/ active' \in Open'
    <3>1. CASE active' # NoName
      BY <3>1 DEF Arrives, Chosen
    <3>2. CASE active' = NoName
      BY <3>2 DEF ServerInv, NobodyActive, Arrives
    <3> QED BY <3>1, <3>2
  <2> QED BY <2>1, <2>2
<1>2. /\ session \in [Name -> 0 .. made] /\ active \in Name \union {NoName}
      /\ \A n \in Name : session[n] \in Nat
  BY BrowserBounds DEF ServerInv, ServerTypeOK
<1>3. ASSUME NEW n \in Name, NEW opened, OpenSession(n, opened)
      PROVE  made' > made /\ session'[active] = 0
  <2>1. made' = made + 1 /\ made \in Nat
    BY <1>3, BrowserBounds DEF OpenSession, ServerInv
  <2>2. CASE session' = [session EXCEPT ![n] = made + 1] /\ active' = n
    <3>1. session'[n] # 0
      BY <1>2, <2>1, <2>2
    <3> QED BY <1>1, <2>2, <3>1 DEF Open
  <2>3. CASE session' = [session EXCEPT ![n] = 0] /\ UNCHANGED active
    <3>1. \A m \in Name : session'[m] # 0 => session[m] # 0 /\ m # n
      BY <1>2, <2>3
    <3>2. Open # {}
      BY <1>1, <3>1 DEF Open
    <3>3. active \in Open
      BY <1>1, <3>2
    <3>4. active = n
      BY <1>1, <1>2, <2>3, <3>3 DEF Open
    <3> QED BY <1>2, <2>1, <2>3, <3>4
  <2> QED BY <1>3, <2>2, <2>3 DEF OpenSession
<1>4. ASSUME NEW n, \E c \in Name : Resolved(n, c), UNCHANGED session
      PROVE  FALSE
  <2>1. active' \in Open
    BY <1>4, ResolvedIsOpen DEF ServerInv
  <2>2. Open' = Open
    BY <1>4 DEF Open
  <2> QED BY <1>1, <2>1, <2>2
<1>5. ASSUME UNCHANGED <<session, active>>
      PROVE  FALSE
  BY <1>1, <1>5 DEF Open
<1>6. ASSUME NEW n \in Name \union {NoName}, CloseSession(n)
      PROVE  FALSE
  <2>1. /\ Chosen(n) \in Open /\ session' = [session EXCEPT ![Chosen(n)] = 0]
        /\ active' = Oldest(Chosen(n))
    BY <1>6 DEF CloseSession
  <2>2. Open' = Open \ {Chosen(n)} /\ Chosen(n) \in Name
    BY <1>2, <2>1 DEF Open
  <2> QED BY <1>1, <2>1, <2>2, OldestIsOpen DEF ServerInv
<1>7. ~ AllClosed
  BY <1>1 DEF AllClosed, Open
<1>8. CASE \E n \in Name : Launch(n) \/ Attach(n)
  BY <1>3, <1>8 DEF Launch, Attach
<1>9. CASE \/ \E n \in Name \union {NoName} :
                \/ \E url \in Site : Navigate(n, url) \/ Scrape(n, url)
                \/ Ask(n) \/ Inspect(n) \/ SetRegion(n) \/ TabsList(n) \/ TabSnapshot(n)
                \/ \E f \in File, v \in Site \union {Unset} : Replay(n, f, v)
           \/ \E n \in Name, f \in File : Teach(n, f)
  BY <1>4, <1>9 DEF Navigate, Scrape, Visit, Ask, Inspect, SetRegion, TabsList, TabSnapshot,
                    Replay, Teach
<1>10. CASE \/ \E f \in File : DeleteWorkflow(f)
            \/ \E f \in File, body \in Body \union {Unset} : SomebodyWrites(f, body)
            \/ PlayStep \/ PlayOn
            \/ \E b \in Browser, a \in Address : PageOpens(b, a) \/ PageCloses(b, a)
            \/ EndOfInput \/ UNCHANGED mcpVars
  BY <1>5, <1>10 DEF DeleteWorkflow, SomebodyWrites, PlayStep, PlayOn, PageOpens, PageCloses,
                     EndOfInput, mcpVars, sessionVars
<1>11. CASE CloseAll \/ Shutdown
  BY <1>7, <1>11 DEF CloseAll, Shutdown
<1> QED BY <1>6, <1>8, <1>9, <1>10, <1>11 DEF McpNext

\* Only a launch or attach that fails under the name of the active session
\* leaves calls without a name without a session (_resolve_browser).
THEOREM CallsWithoutNameArrive == McpSpec => UnnamedCallsArrive
<1>1. McpInv /\ McpInv' /\ [McpNext]_mcpVars =>
        [Arrives /\ ~ Arrives' => made' > made /\ session'[active] = 0]_mcpVars
  BY ArrivalStep DEF McpInv
<1> QED BY <1>1, ServerInvariant, PTL DEF McpSpec, UnnamedCallsArrive

---------------------------------------------------------------------------
(***************************************************************************)
(* The recorder. Every event that was heard or is still in a group is      *)
(* safe: what was typed is the placeholder exactly if a secret field had   *)
(* been named; and the steps are made of the values of such events.        *)
(***************************************************************************)

EventType == [type : {"click", "scroll", "input", "navigation"}, at : 0 .. clock,
              on : Field \union {NoField},
              value : Field \union {NoField, Enter, Placeholder},
              told : Field \union {NoField}]

EventsTyped ==
    /\ clock \in 0 .. MaxClock /\ lastAt \in 0 .. clock
    /\ heard \in Seq(EventType) /\ group \in Seq(EventType)
    /\ {current, focused, focus, named} \subseteq Field \union {NoField}

\* The recorder knows as the focused element the one that was named last, and
\* so is the group's element, if it has one.
ElementIsNamed ==
    /\ focused = named /\ current \in {NoField, named}
    /\ group # <<>> /\ Head(group).type = "click" => current = Head(group).on

Safe(e) ==
    /\ e.type = "input" /\ e.value \notin {Enter, NoField} =>
           (e.value = Placeholder <=> e.told \in Secret)
    /\ e.value \in Secret => e.type = "input"

EventsAreSafe == \A e \in Range(heard) \union Range(group) : Safe(e)

\* A secret that was typed while events named another field or none.
Leaked(f, events) == \E e \in events : e.value = f /\ e.told \notin Secret

Shown(value, events) == /\ value \subseteq Field \union {Placeholder}
                        /\ \A f \in value \cap Secret : Leaked(f, events)

StepsAreSafe == \A s \in Range(taught) : Shown(s.value, Range(heard))

RecorderInv == EventsTyped /\ ElementIsNamed /\ EventsAreSafe /\ StepsAreSafe

---------------------------------------------------------------------------
\* What a field and a value may be.
LEMMA Fields ==
  /\ Secret \subseteq Field /\ NoField \notin Field /\ NoField \notin Secret
  /\ Enter \notin Field /\ Placeholder \notin Field
  /\ Enter # NoField /\ Placeholder # NoField
  /\ Enter \notin Secret /\ Placeholder \notin Secret
BY RecorderAssumption

\* Time goes on: what was taken down stays an event.
LEMMA EventsLater ==
  ASSUME EventsTyped, clock' \in 0 .. MaxClock, clock <= clock'
  PROVE  /\ EventType \subseteq EventType'
         /\ Seq(EventType) \subseteq Seq(EventType')
<1>1. \A t \in 0 .. clock : t \in 0 .. clock'
  BY RecorderAssumption DEF EventsTyped
<1>2. EventType \subseteq EventType'
  BY <1>1 DEF EventType
<1> HIDE DEF EventType
<1> QED BY <1>2

\* What was heard is not forgotten, so the steps of before remain safe.
LEMMA StepsRemainSafe ==
  ASSUME StepsAreSafe, taught' = taught, Range(heard) \subseteq Range(heard')
  PROVE  StepsAreSafe'
BY DEF StepsAreSafe, Shown, Leaked

\* What is taken down: the new event, and the ones before in heard and group.
LEMMA TakeDownStep ==
  ASSUME RecorderInv, NEW e \in EventType, Safe(e), TakeDown(e)
  PROVE  /\ clock' = clock /\ lastAt' \in 0 .. clock
         /\ heard' \in Seq(EventType) /\ group' \in Seq(EventType)
         /\ EventsAreSafe' /\ StepsAreSafe'
         /\ group' # <<>>
         /\ Head(group').type = e.type
         /\ Fits(e) => Head(group') = Head(group)
         /\ ~ Fits(e) => Head(group') = e
<1>1. /\ heard \in Seq(EventType) /\ group \in Seq(EventType) /\ clock \in Nat
  BY RecorderAssumption DEF RecorderInv, EventsTyped
<1>2. clock' = clock /\ lastAt' \in 0 .. clock /\ taught' = taught
  BY <1>1 DEF TakeDown
<1>3. CASE Fits(e)
  <2>1. heard' = heard /\ group' = Append(group, e) /\ group # <<>> /\ Head(group).type = e.type
    BY <1>3 DEF TakeDown, Fits
  <2>2. /\ group' \in Seq(EventType) /\ group' # <<>> /\ Head(group') = Head(group)
    BY <1>1, <2>1
  <2>3. Range(group') \subseteq Range(group) \union {e}
    <3>1. group' = group \o <<e>> /\ <<e>> \in Seq(EventType) /\ Range(<<e>>) = {e}
      BY <1>1, <2>1 DEF Range
    <3> QED BY <1>1, <3>1, RangeOfConcat
  <2>4. EventsAreSafe'
    BY <2>1, <2>3 DEF RecorderInv, EventsAreSafe, Safe
  <2>5. StepsAreSafe'
    BY <1>2, <2>1, StepsRemainSafe DEF RecorderInv
  <2> QED BY <1>1, <1>2, <1>3, <2>1, <2>2, <2>4, <2>5
<1>4. CASE ~ Fits(e)
  <2>1. heard' = heard \o group /\ group' = <<e>>
    BY <1>4 DEF TakeDown
  <2>2. /\ group' \in Seq(EventType) /\ group' # <<>> /\ Head(group') = e
        /\ Range(group') = {e}
    BY <2>1 DEF Range
  <2>3. /\ heard' \in Seq(EventType) /\ Range(heard') \subseteq Range(heard) \union Range(group)
        /\ Range(heard) \subseteq Range(heard')
    BY <1>1, <2>1, RangeOfConcat
  <2>4. EventsAreSafe'
    BY <2>2, <2>3 DEF RecorderInv, EventsAreSafe, Safe
  <2>5. StepsAreSafe'
    BY <1>2, <2>3, StepsRemainSafe DEF RecorderInv
  <2> QED BY <1>2, <1>4, <2>2, <2>3, <2>4, <2>5
<1> QED BY <1>3, <1>4

\* Events and the page after a step that takes one down.
LEMMA TakenTyped ==
  ASSUME clock' = clock, clock \in 0 .. MaxClock, lastAt' \in 0 .. clock,
         heard' \in Seq(EventType), group' \in Seq(EventType),
         {current', focused', focus', named'} \subseteq Field \union {NoField}
  PROVE  EventsTyped'
<1>1. EventType' = EventType
  BY DEF EventType
<1> QED BY <1>1 DEF EventsTyped

\* A click joins its group or starts one.
LEMMA ClickStep ==
  ASSUME RecorderInv, NEW f \in Field, ClickEvent(f)
  PROVE  RecorderInv'
<1> DEFINE e == Untyped("click", f)
<1>1. /\ TakeDown(e) /\ focused' = f /\ focus' = f /\ named' = f
      /\ current' = IF Fits(e) THEN current ELSE f
  BY DEF ClickEvent, FocusedBy
<1>2. e \in EventType /\ e.type = "click" /\ e.on = f /\ e.value = NoField
  BY RecorderAssumption DEF RecorderInv, EventsTyped, EventType, Event, Untyped
<1>3. Safe(e)
  BY <1>2, Fields DEF Safe
<1>4. Fits(e) => group # <<>> /\ Head(group).type = "click" /\ Head(group).on = f
  BY <1>2 DEF Fits
<1> HIDE DEF e
<1>5. current' = f
  BY <1>1, <1>4 DEF RecorderInv, ElementIsNamed
<1>6. EventsTyped'
  BY <1>1, <1>2, <1>3, <1>5, TakeDownStep, TakenTyped DEF RecorderInv, EventsTyped
<1>7. ElementIsNamed'
  <2>1. Head(group').on = f
    BY <1>1, <1>2, <1>3, <1>4, TakeDownStep
  <2> QED BY <1>1, <1>5, <2>1 DEF ElementIsNamed
<1> QED BY <1>1, <1>2, <1>3, <1>6, <1>7, TakeDownStep DEF RecorderInv

\* A key joins its group or starts one, and shows a secret as the placeholder.
LEMMA KeyStep ==
  ASSUME RecorderInv, NEW own \in Field \union {NoField}, NEW text \in Field \union {Enter, NoField},
         KeyEvent(own, text)
  PROVE  RecorderInv'
<1> DEFINE f == ElementOf(own)
           e == Event("input", f, Redacted(f, text), f)
<1>1. /\ focus # NoField /\ own \in {focus, NoField} /\ text \in {focus, Enter, NoField}
      /\ TakeDown(Event("input", f, Redacted(f, text), IF own = NoField THEN named ELSE own))
      /\ focused' = f /\ current' = f /\ focus' = focus
      /\ named' = IF own = NoField THEN named ELSE own
  BY DEF KeyEvent
<1>2. /\ focused = named /\ current \in {NoField, named}
      /\ focus \in Field /\ named \in Field \union {NoField}
  BY <1>1 DEF RecorderInv, ElementIsNamed, EventsTyped
<1>3. f = IF own = NoField THEN named ELSE own
  BY <1>2 DEF ElementOf
<1>4. f \in Field \union {NoField} /\ named' = f
  BY <1>1, <1>2, <1>3
<1> HIDE DEF f
<1>5. TakeDown(e)
  BY <1>1, <1>3
<1>6. Redacted(f, text) \in {Placeholder, focus, Enter, NoField}
  BY <1>1 DEF Redacted
<1>7. e \in EventType /\ e.type = "input" /\ e.value = Redacted(f, text) /\ e.told = f
  BY <1>2, <1>4, <1>6, RecorderAssumption DEF RecorderInv, EventsTyped, EventType, Event, Untyped
<1> HIDE DEF e
<1>8. Safe(e)
  <2>1. CASE f \in Secret /\ text \notin {Enter, NoField}
    <3>1. e.value = Placeholder
      BY <1>7, <2>1 DEF Redacted
    <3> QED BY <1>7, <2>1, <3>1, Fields DEF Safe
  <2>2. CASE ~ (f \in Secret /\ text \notin {Enter, NoField})
    <3>1. Redacted(f, text) = text
      BY <2>2 DEF Redacted
    <3> QED BY <1>1, <1>2, <1>4, <1>7, <2>2, <3>1, Fields DEF Safe
  <2> QED BY <2>1, <2>2
<1>9. EventsTyped'
  BY <1>1, <1>2, <1>4, <1>7, <1>8, <1>5, TakeDownStep, TakenTyped DEF RecorderInv, EventsTyped
<1>10. ElementIsNamed'
  <2>1. Head(group').type = "input"
    BY <1>7, <1>8, <1>5, TakeDownStep
  <2> QED BY <1>1, <1>4, <2>1 DEF ElementIsNamed
<1> QED BY <1>7, <1>8, <1>9, <1>10, <1>5, TakeDownStep DEF RecorderInv

\* A scroll joins its group or starts one.
LEMMA ScrollStep ==
  ASSUME RecorderInv, ScrollEvent
  PROVE  RecorderInv'
<1> DEFINE e == Untyped("scroll", NoField)
<1>1. /\ TakeDown(e) /\ current' = IF Fits(e) THEN current ELSE NoField
      /\ UNCHANGED <<focused, focus, named>>
  BY DEF ScrollEvent
<1>2. e \in EventType /\ e.type = "scroll" /\ e.value = NoField
  BY RecorderAssumption DEF RecorderInv, EventsTyped, EventType, Event, Untyped
<1>3. Safe(e)
  BY <1>2, Fields DEF Safe
<1> HIDE DEF e
<1>4. EventsTyped'
  BY <1>1, <1>2, <1>3, TakeDownStep, TakenTyped DEF RecorderInv, EventsTyped
<1>5. ElementIsNamed'
  <2>1. Head(group').type = "scroll"
    BY <1>1, <1>2, <1>3, TakeDownStep
  <2> QED BY <1>1, <2>1 DEF RecorderInv, ElementIsNamed
<1> QED BY <1>1, <1>2, <1>3, <1>4, <1>5, TakeDownStep DEF RecorderInv

---------------------------------------------------------------------------
\* What was heard when the group is committed.
LEMMA CommitStep ==
  ASSUME RecorderInv
  PROVE  /\ heard \o group \in Seq(EventType)
         /\ \A e \in Range(heard \o group) : Safe(e)
         /\ Range(heard) \subseteq Range(heard \o group)
<1>1. heard \in Seq(EventType) /\ group \in Seq(EventType)
  BY DEF RecorderInv, EventsTyped
<1> QED BY <1>1, RangeOfConcat DEF RecorderInv, EventsAreSafe

\* Steps that leave no group.
LEMMA NoGroup ==
  ASSUME group' = <<>>
  PROVE  /\ group' \in Seq(EventType) /\ Range(group') = {}
         /\ focused' = named' /\ current' \in {NoField, named'} => ElementIsNamed'
BY DEF ElementIsNamed, Range

\* A navigation ends the group and loses the focus.
LEMMA NavigatedStep ==
  ASSUME RecorderInv, Navigated
  PROVE  RecorderInv'
<1> DEFINE e == Untyped("navigation", NoField)
           before == heard \o group
<1>1. /\ heard' = before \o <<e>> /\ group' = <<>> /\ lastAt' = 0
      /\ current' = NoField /\ focused' = NoField /\ focus' = NoField /\ named' = NoField
      /\ UNCHANGED <<clock, taught>>
  BY DEF Navigated
<1>2. e \in EventType /\ e.type = "navigation" /\ e.value = NoField /\ clock \in 0 .. MaxClock
  BY RecorderAssumption DEF RecorderInv, EventsTyped, EventType, Event, Untyped
<1>3. Safe(e)
  BY <1>2, Fields DEF Safe
<1>4. /\ before \in Seq(EventType) /\ \A d \in Range(before) : Safe(d)
      /\ Range(heard) \subseteq Range(before)
  BY CommitStep
<1> HIDE DEF e, before
<1>5. <<e>> \in Seq(EventType) /\ Range(<<e>>) = {e}
  BY <1>2 DEF Range
<1>6. /\ heard' \in Seq(EventType) /\ Range(heard') \subseteq Range(before) \union {e}
      /\ Range(before) \subseteq Range(heard')
  BY <1>1, <1>4, <1>5, RangeOfConcat
<1>7. EventsTyped'
  <2>1. lastAt' \in 0 .. clock
    BY <1>1, <1>2, RecorderAssumption
  <2> QED BY <1>1, <1>2, <1>6, <2>1, NoGroup, TakenTyped
<1>8. EventsAreSafe' /\ StepsAreSafe' /\ ElementIsNamed'
  BY <1>1, <1>3, <1>4, <1>6, NoGroup, StepsRemainSafe DEF RecorderInv, EventsAreSafe, Safe
<1> QED BY <1>7, <1>8 DEF RecorderInv

\* Any other event ends the group.
LEMMA OtherEventStep ==
  ASSUME RecorderInv, OtherEvent
  PROVE  RecorderInv'
<1> DEFINE before == heard \o group
<1>1. /\ heard' = before /\ group' = <<>> /\ lastAt' = 0 /\ current' = NoField
      /\ UNCHANGED <<clock, focused, taught, focus, named>>
  BY DEF OtherEvent
<1>2. /\ before \in Seq(EventType) /\ \A d \in Range(before) : Safe(d)
      /\ Range(heard) \subseteq Range(before)
  BY CommitStep
<1> HIDE DEF before
<1>3. clock \in 0 .. MaxClock /\ 0 \in 0 .. clock
  BY RecorderAssumption DEF RecorderInv, EventsTyped
<1>4. EventsTyped'
  BY <1>1, <1>2, <1>3, NoGroup, TakenTyped DEF RecorderInv, EventsTyped
<1>5. EventsAreSafe' /\ StepsAreSafe' /\ ElementIsNamed'
  BY <1>1, <1>2, NoGroup, StepsRemainSafe DEF RecorderInv, EventsAreSafe, Safe, ElementIsNamed
<1> QED BY <1>4, <1>5 DEF RecorderInv

\* The focus moves without an event.
LEMMA FocusMovesStep ==
  ASSUME RecorderInv, NEW f \in Field, FocusMoves(f)
  PROVE  RecorderInv'
<1>1. /\ focus' = f
      /\ UNCHANGED <<clock, heard, group, lastAt, current, focused, taught, named>>
  BY DEF FocusMoves
<1>2. EventsTyped'
  BY <1>1, TakenTyped DEF RecorderInv, EventsTyped
<1>3. EventsAreSafe' /\ StepsAreSafe' /\ ElementIsNamed'
  BY <1>1 DEF RecorderInv, EventsAreSafe, StepsAreSafe, Safe, ElementIsNamed
<1> QED BY <1>2, <1>3 DEF RecorderInv

\* Time passes.
LEMMA PassesStep ==
  ASSUME RecorderInv, Passes
  PROVE  RecorderInv'
<1>1. /\ clock < MaxClock /\ clock' = clock + 1
      /\ UNCHANGED <<heard, group, lastAt, current, focused, taught, focus, named>>
  BY DEF Passes
<1>2. /\ clock \in Nat /\ lastAt \in 0 .. clock /\ heard \in Seq(EventType) /\ group \in Seq(EventType)
      /\ {current, focused, focus, named} \subseteq Field \union {NoField}
  BY RecorderAssumption DEF RecorderInv, EventsTyped
<1>3. clock' \in 0 .. MaxClock /\ lastAt' \in 0 .. clock' /\ clock <= clock'
  BY <1>1, <1>2, RecorderAssumption
<1>4. heard' \in Seq(EventType') /\ group' \in Seq(EventType')
  BY <1>1, <1>2, <1>3, EventsLater DEF RecorderInv
<1>5. EventsTyped'
  BY <1>1, <1>2, <1>3, <1>4 DEF EventsTyped
<1>6. EventsAreSafe' /\ StepsAreSafe' /\ ElementIsNamed'
  BY <1>1 DEF RecorderInv, EventsAreSafe, StepsAreSafe, Safe, ElementIsNamed
<1> QED BY <1>5, <1>6 DEF RecorderInv

---------------------------------------------------------------------------
\* A group of to_steps does not end before it begins, nor after the last event.
LEMMA LastOfWithin ==
  ASSUME NEW S, NEW E \in Seq(S), NEW i \in 1 .. Len(E)
  PROVE  LastOf(E, i) \in i .. Len(E)
<1> DEFINE J == {j \in i .. Len(E) : \A k \in i + 1 .. j :
                   /\ E[k].type = E[i].type /\ E[i].type # "navigation"
                   /\ E[k].at - E[i].at < Windows[E[i].type]
                   /\ E[i].type = "click" => E[k].on = E[i].on}
<1>1. LastOf(E, i) = Max(J)
  BY DEF LastOf
<1>2. J \subseteq i .. Len(E) /\ i \in J /\ Len(E) \in Nat
  OBVIOUS
<1> HIDE DEF J
<1>3. \E m \in J : \A j \in J : m >= j
  <2> DEFINE T == {Len(E) - j : j \in J}
  <2>1. T \in SUBSET Nat /\ T # {}
    BY <1>2
  <2>2. PICK x \in T : \A y \in T : x <= y
    <3> HIDE DEF T
    <3> QED BY <2>1, Least
  <2>3. PICK m \in J : x = Len(E) - m
    OBVIOUS
  <2>4. ASSUME NEW j \in J
        PROVE  m >= j
    <3>1. Len(E) - m <= Len(E) - j
      BY <2>2, <2>3
    <3> QED BY <1>2, <3>1
  <2> QED BY <2>4
<1>4. Max(J) \in J
  BY <1>3 DEF Max
<1> QED BY <1>1, <1>2, <1>4

\* The steps that to_steps can make of events.
StepSet(E) == {Noted(E[i]) : i \in 1 .. Len(E)}
                 \union {Typed(SubSeq(E, i, j)) : i \in 1 .. Len(E), j \in 1 .. Len(E)}

\* A step is made of the events of one group.
LEMMA StepOfMakes ==
  ASSUME NEW S, NEW E \in Seq(S), NEW i \in 1 .. Len(E), NEW j \in i .. Len(E)
  PROVE  StepOf(E, i, j) \in Seq(StepSet(E))
<1>1. i \in 1 .. Len(E) /\ j \in 1 .. Len(E)
  OBVIOUS
<1>2. Noted(E[i]) \in StepSet(E) /\ Typed(SubSeq(E, i, j)) \in StepSet(E)
  BY <1>1 DEF StepSet
<1>3. StepOf(E, i, j) \in {<<>>, <<Noted(E[i])>>, <<Typed(SubSeq(E, i, j))>>}
  BY DEF StepOf
<1> DEFINE a == Noted(E[i])
           b == Typed(SubSeq(E, i, j))
<1> HIDE DEF StepSet, a, b
<1>4. <<>> \in Seq(StepSet(E)) /\ <<a>> \in Seq(StepSet(E)) /\ <<b>> \in Seq(StepSet(E))
  BY <1>2 DEF a, b
<1> QED BY <1>3, <1>4 DEF a, b

\* The recursion of to_steps over what is left from the i-th event on.
From(E, from, i) == IF i > Len(E) THEN <<>>
                    ELSE StepOf(E, i, LastOf(E, i)) \o from[LastOf(E, i) + 1]

FromExists(E, n) ==
    \E from : from = [i \in Len(E) + 1 - n .. Len(E) + 1 |-> From(E, from, i)]

\* The recursive function of the steps exists.
LEMMA FromsExist ==
  ASSUME NEW S, NEW E \in Seq(S), NEW n \in 0 .. Len(E)
  PROVE  FromExists(E, n)
<1> DEFINE L == Len(E)
           T == {m \in Nat : m \in 0 .. L /\ ~ FromExists(E, m)}
<1>0. L \in Nat
  OBVIOUS
<1> SUFFICES ASSUME T # {} PROVE FALSE
  OBVIOUS
<1>1. PICK x \in T : \A y \in T : x <= y
  <2>1. T \in SUBSET Nat
    OBVIOUS
  <2> HIDE DEF T
  <2> QED BY <2>1, Least
<1>2. CASE x = 0
  <2> DEFINE from == [i \in L + 1 .. L + 1 |-> <<>>]
  <2>1. \A i \in L + 1 .. L + 1 : From(E, from, i) = <<>>
    BY <1>0 DEF From
  <2>2. from = [i \in L + 1 - 0 .. L + 1 |-> From(E, from, i)]
    BY <1>0, <2>1
  <2> QED BY <1>1, <1>2, <2>2 DEF FromExists
<1>3. CASE x # 0
  <2>1. x \in 0 .. L /\ x - 1 \in Nat /\ x - 1 \in 0 .. L /\ ~ FromExists(E, x) /\ ~ (x <= x - 1)
    BY <1>0, <1>1, <1>3
  <2>2. FromExists(E, x - 1)
    BY <1>1, <2>1
  <2>3. PICK from : from = [i \in L + 1 - (x - 1) .. L + 1 |-> From(E, from, i)]
    BY <2>2 DEF FromExists
  <2> DEFINE b == L + 1 - x
             more == [i \in b .. L + 1 |-> IF i = b THEN From(E, from, b) ELSE from[i]]
  <2>4. b \in 1 .. L /\ L + 1 - (x - 1) = b + 1 /\ b \in Nat
    BY <1>0, <2>1
  <2> HIDE DEF b
  <2>5. ASSUME NEW i \in b .. L + 1
        PROVE  more[i] = From(E, more, i)
    <3>1. i \in Nat /\ i > 0 /\ (i <= L => LastOf(E, i) \in i .. L)
      <4>1. i \in Nat /\ i > 0 /\ (i <= L => i \in 1 .. L)
        BY <1>0, <2>4
      <4> QED BY <4>1, LastOfWithin
    <3>2. i <= L => /\ LastOf(E, i) + 1 \in b + 1 .. L + 1 /\ LastOf(E, i) + 1 # b
                    /\ LastOf(E, i) + 1 \in b .. L + 1
      BY <1>0, <2>4, <3>1
    <3>3. i <= L => more[LastOf(E, i) + 1] = from[LastOf(E, i) + 1]
      BY <3>2
    <3>4. From(E, more, i) = From(E, from, i)
      BY <1>0, <3>1, <3>3 DEF From
    <3>5. CASE i = b
      BY <3>4, <3>5
    <3>6. CASE i # b
      <4>1. i \in b + 1 .. L + 1
        BY <1>0, <2>4, <3>6
      <4>2. from[i] = From(E, from, i)
        BY <2>3, <2>4, <4>1
      <4> QED BY <3>4, <3>6, <4>2
    <3> QED BY <3>5, <3>6
  <2>6. more = [i \in b .. L + 1 |-> From(E, more, i)]
    BY <2>5
  <2> QED BY <2>1, <2>6 DEF FromExists, b
<1> QED BY <1>2, <1>3

\* What to_steps returns is a list of those steps.
LEMMA StepsMade ==
  ASSUME NEW S, NEW E \in Seq(S)
  PROVE  Steps(E) \in Seq(StepSet(E))
<1> DEFINE L == Len(E)
           from[i \in 1 .. Len(E) + 1] ==
              IF i > Len(E) THEN <<>>
              ELSE StepOf(E, i, LastOf(E, i)) \o from[LastOf(E, i) + 1]
<1>0. L \in Nat
  OBVIOUS
<1>1. Steps(E) = from[1]
  BY DEF Steps
<1>2. from = [i \in 1 .. L + 1 |-> From(E, from, i)]
  <2>1. \E g : g = [i \in 1 .. L + 1 |-> From(E, g, i)]
    <3>1. FromExists(E, L) /\ L + 1 - L = 1
      BY <1>0, FromsExist
    <3> QED BY <3>1 DEF FromExists
  <2> QED BY <2>1 DEF From
<1> HIDE DEF from
<1>3. \A i \in 1 .. L + 1 : from[i] = From(E, from, i)
  BY <1>2
<1> DEFINE T == {n \in Nat : n \in 0 .. L /\ from[L + 1 - n] \notin Seq(StepSet(E))}
<1>4. T = {}
  <2> SUFFICES ASSUME T # {} PROVE FALSE
    OBVIOUS
  <2>1. PICK x \in T : \A y \in T : x <= y
    <3>1. T \in SUBSET Nat
      OBVIOUS
    <3> HIDE DEF T
    <3> QED BY <3>1, Least
  <2> DEFINE i == L + 1 - x
  <2>2. x \in 0 .. L /\ from[i] \notin Seq(StepSet(E)) /\ i \in 1 .. L + 1 /\ x = L + 1 - i
    BY <1>0, <2>1
  <2> HIDE DEF i
  <2>3. from[i] = From(E, from, i)
    BY <1>3, <2>2
  <2>4. i <= L
    BY <1>0, <2>2, <2>3 DEF From
  <2>5. i \in 1 .. L /\ LastOf(E, i) \in i .. L
    <3>1. i \in 1 .. L
      BY <1>0, <2>2, <2>4
    <3> QED BY <3>1, LastOfWithin
  <2> DEFINE k == LastOf(E, i) + 1
             y == L + 1 - k
  <2>6. y \in Nat /\ y \in 0 .. L /\ ~ (x <= y) /\ L + 1 - y = k
    BY <1>0, <2>2, <2>5
  <2>7. from[k] \in Seq(StepSet(E))
    <3>1. from[L + 1 - y] \in Seq(StepSet(E))
      BY <2>1, <2>6
    <3> QED BY <2>6, <3>1
  <2>8. from[i] = StepOf(E, i, LastOf(E, i)) \o from[k]
    BY <1>0, <2>2, <2>3, <2>4, <2>5 DEF From
  <2>9. StepOf(E, i, LastOf(E, i)) \in Seq(StepSet(E))
    BY <2>5, StepOfMakes
  <2> QED BY <2>2, <2>7, <2>8, <2>9, RangeOfConcat
<1>5. from[L + 1 - L] \in Seq(StepSet(E)) /\ L + 1 - L = 1
  BY <1>0, <1>4
<1> QED BY <1>1, <1>5

\* A group is among the events, and what a step shows is what they hold.
LEMMA StepSetSafe ==
  ASSUME NEW E \in Seq(EventType), \A e \in Range(E) : Safe(e), NEW s \in StepSet(E)
  PROVE  Shown(s.value, Range(E))
<1>1. CASE \E i \in 1 .. Len(E) : s = Noted(E[i])
  BY <1>1 DEF Noted, Shown
<1>2. CASE \E i, j \in 1 .. Len(E) : s = Typed(SubSeq(E, i, j))
  <2>1. PICK i \in 1 .. Len(E), j \in 1 .. Len(E) : s = Typed(SubSeq(E, i, j))
    BY <1>2
  <2> DEFINE events == SubSeq(E, i, j)
  <2>2. Range(events) \subseteq Range(E)
    <3>1. /\ DOMAIN events = 1 .. Len(events) /\ Len(events) = IF i <= j THEN j - i + 1 ELSE 0
          /\ \A k \in 1 .. Len(events) : events[k] = E[i + k - 1] /\ i + k - 1 \in DOMAIN E
      OBVIOUS
    <3> QED BY <3>1 DEF Range
  <2> HIDE DEF events
  <2>3. s.value = IF Hides(events) THEN {Placeholder} ELSE Texts(events)
    BY <2>1 DEF Typed, events
  <2>4. ASSUME NEW e \in Range(E), e.value \notin {Enter, NoField}
        PROVE  /\ e.value \in Field \union {Placeholder}
               /\ e.value \in Secret => Leaked(e.value, Range(E))
    <3>1. e \in EventType
      BY DEF Range
    <3>2. e.value \in Secret => e.type = "input" /\ e.value # Placeholder
      BY <2>4, Fields DEF Safe
    <3> QED BY <2>4, <3>1, <3>2 DEF EventType, Safe, Leaked
  <2>5. Shown(Texts(events), Range(E))
    BY <2>2, <2>4 DEF Texts, Shown
  <2>6. Shown({Placeholder}, Range(E))
    BY Fields DEF Shown
  <2> QED BY <2>3, <2>5, <2>6
<1> QED BY <1>1, <1>2 DEF StepSet

\* The steps of a workflow are made of safe events.
LEMMA ToStepsStep ==
  ASSUME RecorderInv, ToSteps
  PROVE  RecorderInv'
<1> DEFINE before == heard \o group
<1>1. /\ heard' = before /\ group' = <<>> /\ lastAt' = 0 /\ current' = NoField
      /\ taught' = Steps(before)
      /\ UNCHANGED <<clock, focused, focus, named>>
  BY DEF ToSteps
<1>2. /\ before \in Seq(EventType) /\ \A d \in Range(before) : Safe(d)
      /\ Range(heard) \subseteq Range(before)
  BY CommitStep
<1> HIDE DEF before
<1>3. clock \in 0 .. MaxClock /\ 0 \in 0 .. clock
  BY RecorderAssumption DEF RecorderInv, EventsTyped
<1>4. EventsTyped'
  BY <1>1, <1>2, <1>3, NoGroup, TakenTyped DEF RecorderInv, EventsTyped
<1>5. EventsAreSafe' /\ ElementIsNamed'
  BY <1>1, <1>2, NoGroup DEF RecorderInv, EventsAreSafe, Safe, ElementIsNamed
<1>6. StepsAreSafe'
  <2>1. taught' \in Seq(StepSet(before))
    BY <1>1, <1>2, StepsMade
  <2>2. \A s \in Range(taught') : s \in StepSet(before)
    BY <2>1 DEF Range
  <2> QED BY <1>2, <2>2, <1>1, StepSetSafe DEF StepsAreSafe
<1> QED BY <1>4, <1>5, <1>6 DEF RecorderInv

---------------------------------------------------------------------------
\* A recorder starts with nothing heard.
LEMMA RecorderInitially == RecorderInit => RecorderInv
<1> SUFFICES ASSUME RecorderInit PROVE RecorderInv
  OBVIOUS
<1>1. /\ clock = 0 /\ heard = <<>> /\ group = <<>> /\ lastAt = 0 /\ taught = <<>>
      /\ current = NoField /\ focused = NoField /\ focus = NoField /\ named = NoField
  BY DEF RecorderInit
<1>2. 0 \in 0 .. MaxClock /\ 0 \in 0 .. 0
  BY RecorderAssumption
<1>3. EventsTyped
  BY <1>1, <1>2 DEF EventsTyped
<1>4. ElementIsNamed
  BY <1>1 DEF ElementIsNamed
<1>5. EventsAreSafe /\ StepsAreSafe
  BY <1>1 DEF EventsAreSafe, StepsAreSafe, Range
<1> QED BY <1>3, <1>4, <1>5 DEF RecorderInv

\* Nothing changes when nothing happens.
LEMMA SameRecorder ==
  ASSUME RecorderInv, UNCHANGED recorderVars
  PROVE  RecorderInv'
<1>1. UNCHANGED <<clock, heard, group, lastAt, current, focused, taught, focus, named>>
  BY DEF recorderVars
<1>2. EventsTyped'
  BY <1>1, TakenTyped DEF RecorderInv, EventsTyped
<1>3. EventsAreSafe' /\ StepsAreSafe' /\ ElementIsNamed'
  BY <1>1 DEF RecorderInv, EventsAreSafe, StepsAreSafe, Safe, ElementIsNamed
<1> QED BY <1>2, <1>3 DEF RecorderInv

\* Every event keeps the invariant.
LEMMA RecorderStep == RecorderInv /\ [RecorderNext]_recorderVars => RecorderInv'
BY ClickStep, FocusMovesStep, KeyStep, ScrollStep, NavigatedStep, OtherEventStep, PassesStep,
   ToStepsStep, SameRecorder DEF RecorderNext

\* What the recorder holds of events, focus and steps, in every state.
THEOREM RecorderInvariant == RecorderSpec => []RecorderInv
BY RecorderInitially, RecorderStep, PTL DEF RecorderSpec

\* The invariant gives the types.
LEMMA RecorderTyped == RecorderInv => RecorderTypeOK
BY DEF RecorderInv, EventsTyped, EventType, StepsAreSafe, Shown, RecorderTypeOK

\* Every variable of the recorder keeps its type.
THEOREM RecorderTypesHold == RecorderSpec => []RecorderTypeOK
BY RecorderTyped, RecorderInvariant, PTL

\* Safe events show no secret, and neither do the steps made of them.
LEMMA SecretsHidden == RecorderInv => NamedSecretsAreHidden
<1> SUFFICES ASSUME RecorderInv PROVE NamedSecretsAreHidden
  OBVIOUS
<1>1. \A e \in Range(heard \o group) : Safe(e)
  BY CommitStep
<1> QED BY <1>1 DEF Safe, RecorderInv, StepsAreSafe, Shown, Leaked, NamedSecretsAreHidden

\* What is typed while a secret field is the one that was named last is taken
\* down as the placeholder, and nothing else is, in whatever order events, pauses
\* and pages come, and however long the recording; the steps that are made of it
\* show a secret only if it was typed while another field or none was named, which
\* happens when the focus moves without an event that tells of it (recorder.py).
THEOREM SecretsStayHidden == RecorderSpec => []NamedSecretsAreHidden
BY SecretsHidden, RecorderInvariant, PTL

---------------------------------------------------------------------------
(***************************************************************************)
(* The dashboard's manager. AloneNothingIsLost is inductive together with  *)
(* what the task that manages the browser knows (Knows): it is the only    *)
(* one, what it closes or launches is what the manager points to, and a    *)
(* browser is only being launched as long as a task awaits that.           *)
(***************************************************************************)

DashTask == [at : {"rest", "close", "launch", "act", "replay"}, b : 0 .. MaxMade,
             profile : Profile, launches : BOOLEAN]

Lively == {"launching", "open", "broken"}

DashTypes == /\ browser \in 0 .. MaxMade /\ profile \in Profile
             /\ state \in [DashBrowser -> Lively \union {"unmade", "closed"}]
             /\ runs \in [DashBrowser -> Profile]
             /\ task \in [Task -> DashTask]
             /\ together \in BOOLEAN

OneManages == \A t, u \in Task : Managing(t) /\ Managing(u) => t = u

Knows(t) ==
    /\ Managing(t) => task[t].b = browser /\ browser # 0
    /\ task[t].at = "launch" => /\ state[task[t].b] = "launching"
                                /\ runs[task[t].b] = task[t].profile

Awaited == \A b \in DashBrowser :
    state[b] = "launching" => \E t \in Task : task[t].at = "launch" /\ task[t].b = b

Orderly == /\ OneManages /\ Awaited
           /\ \A t \in Task : Knows(t)
           /\ \A b \in DashBrowser : state[b] \in Lively => browser = b
           /\ browser # 0 /\ state[browser] = "open" => runs[browser] = profile

DashboardInv == DashTypes /\ (~ together => Orderly)

USE DashboardAssumption

\* The browsers that were made can be counted.
LEMMA MadeIsNat == Made \in Nat
<1>1. IsFiniteSet(DashBrowser)
  BY FS_Interval DEF DashBrowser
<1>2. IsFiniteSet({b \in DashBrowser : state[b] # "unmade"})
  BY <1>1, FS_Subset
<1> QED BY <1>2, FS_CardinalityType DEF Made

\* No task manages anything at first.
LEMMA DashboardInitially == DashboardInit => DashboardInv
<1> SUFFICES ASSUME DashboardInit PROVE DashboardInv
  OBVIOUS
<1>1. DashTypes
  <2>1. AtRest \in DashTask /\ 0 \in 0 .. MaxMade
    BY DEF AtRest, DashTask
  <2>2. task \in [Task -> DashTask]
    BY <2>1 DEF DashboardInit
  <2> QED BY <2>1, <2>2 DEF DashboardInit, DashTypes, Lively
<1>2. Orderly
  BY DEF DashboardInit, Orderly, OneManages, Awaited, Knows, Managing, AtRest, Lively
<1> QED BY <1>1, <1>2 DEF DashboardInv

---------------------------------------------------------------------------
\* A browser that is made by the only manager, once every other is closed,
\* is the one that the manager points to.
LEMMA MakeKeeps ==
  ASSUME DashTypes, NEW t \in Task, NEW p \in Profile,
         NEW before \in [DashBrowser -> Lively \union {"unmade", "closed"}],
         Make(t, p, before), profile' = profile, together' \in BOOLEAN,
         ~ together' => \A b \in DashBrowser : before[b] \notin Lively,
         ~ together' => \A u \in Task : Managing(u) => u = t
  PROVE  DashboardInv'
<1> DEFINE new == Made + 1
<1>1. new \in DashBrowser /\ new # 0
  BY MadeIsNat DEF Make, DashBrowser
<1>2. /\ browser' = new
      /\ state' = [before EXCEPT ![new] = "launching"]
      /\ runs' = [runs EXCEPT ![new] = p]
      /\ task' = [task EXCEPT ![t] = [at |-> "launch", b |-> new, profile |-> p,
                                      launches |-> TRUE]]
  BY DEF Make
<1> HIDE DEF new
<1>3. DashTypes'
  <2>1. new \in 0 .. MaxMade
    BY <1>1 DEF DashBrowser
  <2>2. [at |-> "launch", b |-> new, profile |-> p, launches |-> TRUE] \in DashTask
    BY <2>1 DEF DashTask
  <2>3. task' \in [Task -> DashTask]
    BY <1>2, <2>2 DEF DashTypes
  <2>4. state' \in [DashBrowser -> Lively \union {"unmade", "closed"}]
    BY <1>2 DEF Lively
  <2>5. runs' \in [DashBrowser -> Profile]
    BY <1>2 DEF DashTypes
  <2> QED BY <1>2, <2>1, <2>3, <2>4, <2>5 DEF DashTypes
<1>4. ASSUME ~ together' PROVE Orderly'
  <2>1. task'[t].at = "launch" /\ task'[t].b = new /\ task'[t].profile = p
    BY <1>2 DEF DashTypes
  <2>2. \A u \in Task \ {t} : task'[u] = task[u] /\ ~ Managing(u)
    BY <1>2, <1>4 DEF DashTypes
  <2>3. \A b \in DashBrowser : state'[b] \in Lively => b = new
    BY <1>2, <1>4
  <2>4. state'[new] = "launching" /\ runs'[new] = p
    BY <1>1, <1>2 DEF DashTypes
  <2>5. OneManages'
    BY <2>2 DEF OneManages, Managing
  <2>6. Awaited'
    BY <2>1, <2>3 DEF Awaited, Lively
  <2>7. ASSUME NEW u \in Task PROVE Knows(u)'
    BY <1>1, <1>2, <2>1, <2>2, <2>4 DEF Knows, Managing
  <2>8. browser' # 0 /\ state'[browser'] = "open" => runs'[browser'] = profile'
    BY <1>2, <2>4
  <2> QED BY <1>2, <2>3, <2>5, <2>6, <2>7, <2>8 DEF Orderly
<1> QED BY <1>3, <1>4 DEF DashboardInv

\* A task that begins to close the browser is the only manager.
LEMMA AwaitCloseKeeps ==
  ASSUME DashboardInv, NEW t \in Task, NEW p \in Profile, NEW launches \in BOOLEAN,
         task[t] = AtRest, browser # 0, Overlap(t), AwaitClose(t, p, launches),
         profile' = profile
  PROVE  DashboardInv'
<1> USE DEF DashboardInv
<1>1. task' = [task EXCEPT ![t] = [at |-> "close", b |-> browser, profile |-> p,
                                   launches |-> launches]]
      /\ browser' = browser /\ state' = state /\ runs' = runs
  BY DEF AwaitClose
<1>2. together' \in BOOLEAN
  BY DEF Overlap, DashTypes
<1>3. DashTypes'
  BY <1>1, <1>2 DEF DashTypes, DashTask
<1>4. ASSUME ~ together' PROVE Orderly'
  <2>1. Orderly /\ \A u \in Task \ {t} : ~ Managing(u)
    BY <1>4 DEF Overlap, DashTypes
  <2>2. task'[t].at = "close" /\ task'[t].b = browser
    BY <1>1 DEF DashTypes
  <2>3. \A u \in Task \ {t} : task'[u] = task[u]
    BY <1>1 DEF DashTypes
  <2>4. OneManages'
    BY <2>1, <2>3 DEF OneManages, Managing
  <2>5. Awaited'
    <3>1. \A u \in Task : task[u].at = "launch" => u # t
      BY DEF AtRest
    <3> QED BY <1>1, <2>1, <2>3, <3>1 DEF Orderly, Awaited
  <2>6. ASSUME NEW u \in Task PROVE Knows(u)'
    BY <1>1, <2>1, <2>2, <2>3 DEF Orderly, Knows, Managing
  <2> QED BY <1>1, <2>1, <2>4, <2>5, <2>6 DEF Orderly
<1> QED BY <1>3, <1>4

\* start and restart.
LEMMA StartKeeps ==
  ASSUME DashboardInv, NEW t \in Task, NEW p \in Profile, Start(t, p)
  PROVE  DashboardInv'
<1> USE DEF Start
<1>1. together' \in BOOLEAN /\ (~ together' => ~ together /\ \A u \in Task \ {t} : ~ Managing(u))
  BY DEF Overlap, DashboardInv, DashTypes
<1>2. CASE browser = 0
  <2>1. ~ together' => \A b \in DashBrowser : state[b] \notin Lively
    BY <1>1, <1>2 DEF DashboardInv, Orderly, DashBrowser
  <2> QED BY <1>1, <1>2, <2>1, MakeKeeps DEF DashboardInv, DashTypes
<1>3. CASE browser # 0
  BY <1>3, AwaitCloseKeeps
<1> QED BY <1>2, <1>3

\* The close of a browser is over, for a stop or for the launch of the next.
LEMMA ClosedKeeps ==
  ASSUME DashboardInv, NEW t \in Task, Closed(t)
  PROVE  DashboardInv'
<1> DEFINE b == task[t].b
           after == IF state[b] = "launching" THEN state
                    ELSE [state EXCEPT ![b] = "closed"]
<1>1. /\ task[t].at = "close" /\ profile' = profile /\ together' = together
      /\ IF task[t].launches THEN Make(t, task[t].profile, after)
         ELSE /\ browser' = 0 /\ state' = after
              /\ task' = [task EXCEPT ![t] = AtRest] /\ runs' = runs
  BY DEF Closed
<1>2. DashTypes /\ task[t].profile \in Profile /\ task[t].launches \in BOOLEAN
  BY DEF DashboardInv, DashTypes, DashTask
<1>3. after \in [DashBrowser -> Lively \union {"unmade", "closed"}]
  BY <1>2 DEF DashTypes, Lively
<1>4. ASSUME ~ together
      PROVE  /\ \A u \in Task : Managing(u) => u = t
             /\ \A c \in DashBrowser : after[c] \notin Lively
  <2>1. Orderly
    BY <1>4 DEF DashboardInv
  <2>2. Managing(t) /\ b = browser /\ browser # 0
    BY <1>1, <2>1 DEF Orderly, Knows, Managing
  <2>3. \A u \in Task : Managing(u) => u = t
    BY <2>1, <2>2 DEF Orderly, OneManages
  <2>4. b \in DashBrowser
    BY <1>2, <2>2 DEF DashTypes, DashBrowser
  <2>5. state[b] # "launching"
    BY <1>1, <2>1, <2>3, <2>4 DEF Orderly, Awaited, Managing
  <2> QED BY <1>2, <2>1, <2>2, <2>3, <2>4, <2>5 DEF Orderly, DashTypes, Lively
<1> HIDE DEF after
<1>5. CASE task[t].launches
  BY <1>1, <1>2, <1>3, <1>4, <1>5, MakeKeeps DEF DashTypes
<1>6. CASE ~ task[t].launches
  <2>1. browser' = 0 /\ state' = after /\ runs' = runs
        /\ task' = [task EXCEPT ![t] = AtRest]
    BY <1>1, <1>6
  <2>2. AtRest \in DashTask /\ 0 \in 0 .. MaxMade
    BY DEF AtRest, DashTask
  <2>3. DashTypes'
    BY <1>1, <1>2, <1>3, <2>1, <2>2 DEF DashTypes
  <2>4. ASSUME ~ together' PROVE Orderly'
    <3>1. \A u \in Task : ~ Managing(u)'
      BY <1>1, <1>2, <1>4, <2>1, <2>4 DEF DashTypes, Managing, AtRest
    <3>2. \A c \in DashBrowser : state'[c] \notin Lively
      BY <1>1, <1>4, <2>1, <2>4
    <3> QED BY <2>1, <3>1, <3>2
            DEF Orderly, OneManages, Awaited, Knows, Managing, Lively
  <2> QED BY <2>3, <2>4 DEF DashboardInv
<1> QED BY <1>2, <1>5, <1>6

\* The close of a browser raises: it is closed, or as before.
LEMMA CloseRaisesKeeps ==
  ASSUME DashboardInv, NEW t \in Task, CloseRaises(t)
  PROVE  DashboardInv'
<1> DEFINE b == task[t].b
<1>1. /\ task[t].at = "close" /\ task' = [task EXCEPT ![t] = AtRest]
      /\ browser' = browser /\ profile' = profile /\ runs' = runs
      /\ together' = together
  BY DEF CloseRaises
<1>2. state' = state \/ state' = [state EXCEPT ![b] = "closed"]
  BY DEF CloseRaises
<1>3. DashTypes /\ AtRest \in DashTask
  BY DEF DashboardInv, DashTypes, DashTask, AtRest
<1>4. DashTypes'
  BY <1>1, <1>2, <1>3 DEF DashTypes, Lively
<1>5. ASSUME ~ together' PROVE Orderly'
  <2>1. Orderly
    BY <1>1, <1>5 DEF DashboardInv
  <2>2. \A u \in Task : Managing(u) => u = t
    BY <1>1, <2>1 DEF Orderly, OneManages, Managing
  <2>3. \A u \in Task : ~ Managing(u)'
    BY <1>1, <1>3, <2>2 DEF DashTypes, Managing, AtRest
  <2>4. \A c \in DashBrowser : state'[c] = state[c] \/ state'[c] = "closed"
    BY <1>2, <1>3 DEF DashTypes
  <2>5. \A c \in DashBrowser : state[c] # "launching"
    BY <1>1, <2>1, <2>2 DEF Orderly, Awaited, Managing
  <2>6. Awaited' /\ OneManages' /\ \A u \in Task : Knows(u)'
    BY <2>3, <2>4, <2>5 DEF Awaited, OneManages, Knows, Managing
  <2>7. \A c \in DashBrowser : state'[c] \in Lively => browser' = c
    BY <1>1, <2>1, <2>4 DEF Orderly, Lively
  <2>8. browser' # 0 /\ state'[browser'] = "open" => runs'[browser'] = profile'
    <3>1. browser # 0 => browser \in DashBrowser
      BY <1>3 DEF DashTypes, DashBrowser
    <3> QED BY <1>1, <2>1, <2>4, <3>1 DEF Orderly
  <2> QED BY <2>6, <2>7, <2>8 DEF Orderly
<1> QED BY <1>4, <1>5 DEF DashboardInv

\* The launch of a browser is over, well or not.
LEMMA LaunchedKeeps ==
  ASSUME DashboardInv, NEW t \in Task, Launched(t)
  PROVE  DashboardInv'
<1> DEFINE b == task[t].b
<1>1. PICK how \in {"open", "broken"} :
        /\ state' = [state EXCEPT ![b] = how]
        /\ profile' = IF how = "open" THEN task[t].profile ELSE profile
  BY DEF Launched
<1>2. /\ task[t].at = "launch" /\ task' = [task EXCEPT ![t] = AtRest]
      /\ browser' = browser /\ runs' = runs /\ together' = together
  BY DEF Launched
<1>3. DashTypes /\ task[t].profile \in Profile /\ AtRest \in DashTask
  BY DEF DashboardInv, DashTypes, DashTask, AtRest
<1>4. DashTypes'
  BY <1>1, <1>2, <1>3 DEF DashTypes, Lively
<1>5. ASSUME ~ together' PROVE Orderly'
  <2>1. Orderly
    BY <1>2, <1>5 DEF DashboardInv
  <2>2. Managing(t) /\ b = browser /\ browser # 0 /\ runs[b] = task[t].profile
    BY <1>2, <2>1 DEF Orderly, Knows, Managing
  <2>3. b \in DashBrowser /\ state'[b] = how
    BY <1>1, <1>3, <2>2 DEF DashTypes, DashBrowser
  <2>4. \A u \in Task : ~ Managing(u)'
    <3>1. \A u \in Task : Managing(u) => u = t
      BY <2>1, <2>2 DEF Orderly, OneManages
    <3> QED BY <1>2, <1>3, <3>1 DEF DashTypes, Managing, AtRest
  <2>5. \A c \in DashBrowser \ {b} : state'[c] = state[c] /\ state[c] \notin Lively
    BY <1>1, <1>3, <2>1, <2>2 DEF Orderly, DashTypes
  <2>6. Awaited' /\ OneManages' /\ \A u \in Task : Knows(u)'
    BY <2>3, <2>4, <2>5 DEF Awaited, OneManages, Knows, Managing, Lively
  <2>7. \A c \in DashBrowser : state'[c] \in Lively => browser' = c
    BY <1>2, <2>2, <2>5
  <2>8. browser' # 0 /\ state'[browser'] = "open" => runs'[browser'] = profile'
    BY <1>1, <1>2, <2>2, <2>3
  <2> QED BY <2>6, <2>7, <2>8 DEF Orderly
<1> QED BY <1>4, <1>5 DEF DashboardInv

\* A step of a task that leaves the manager alone.
LEMMA OtherStepKeeps ==
  ASSUME DashboardInv, Unmanaged,
         \/ UNCHANGED task
         \/ \E t \in Task, to \in DashTask :
               /\ ~ Managing(t) /\ to.at \notin {"close", "launch"}
               /\ task' = [task EXCEPT ![t] = to]
  PROVE  DashboardInv'
<1>1. /\ browser' = browser /\ profile' = profile /\ state' = state
      /\ runs' = runs /\ together' = together
  BY DEF Unmanaged
<1>2. DashTypes'
  BY <1>1 DEF DashboardInv, DashTypes
<1>3. \A u \in Task : task'[u] = task[u] \/ (~ Managing(u) /\ ~ Managing(u)')
  BY DEF DashboardInv, DashTypes, Managing
<1>4. ASSUME Orderly PROVE Orderly'
  <2>1. OneManages'
    BY <1>3, <1>4 DEF Orderly, OneManages, Managing
  <2>2. Awaited'
    BY <1>1, <1>3, <1>4 DEF Orderly, Awaited, Managing
  <2>3. \A u \in Task : Knows(u)'
    BY <1>1, <1>3, <1>4 DEF Orderly, Knows, Managing
  <2> QED BY <1>1, <1>4, <2>1, <2>2, <2>3 DEF Orderly
<1> QED BY <1>1, <1>2, <1>4 DEF DashboardInv

\* Every step of a handler or the operator keeps the invariant.
LEMMA DashboardStep ==
  DashboardInv /\ [DashboardNext]_dashboardVars => DashboardInv'
<1> SUFFICES ASSUME DashboardInv, [DashboardNext]_dashboardVars
             PROVE  DashboardInv'
  OBVIOUS
<1>1. profile \in Profile /\ browser \in 0 .. MaxMade /\ task \in [Task -> DashTask]
  BY DEF DashboardInv, DashTypes
<1>2. AtRest \in DashTask /\ AtRest.at = "rest"
  BY DEF AtRest, DashTask
<1>3. ASSUME NEW t \in Task, NEW p \in Profile, Start(t, p) PROVE DashboardInv'
  BY <1>3, StartKeeps
<1>4. ASSUME NEW t \in Task, Restart(t) PROVE DashboardInv'
  BY <1>1, <1>4, StartKeeps DEF Restart
<1>5. ASSUME NEW t \in Task, Stop(t) PROVE DashboardInv'
  BY <1>1, <1>5, AwaitCloseKeeps DEF Stop
<1>6. ASSUME NEW t \in Task, Closed(t) PROVE DashboardInv'
  BY <1>6, ClosedKeeps
<1>13. ASSUME NEW t \in Task, CloseRaises(t) PROVE DashboardInv'
  BY <1>13, CloseRaisesKeeps
<1>7. ASSUME NEW t \in Task, Launched(t) PROVE DashboardInv'
  BY <1>7, LaunchedKeeps
<1>8. ASSUME NEW t \in Task, NEW place \in {"act", "replay"}, task[t] = AtRest, Unmanaged,
             task' = [task EXCEPT ![t] = [AtRest EXCEPT !.at = place, !.b = browser]]
      PROVE  DashboardInv'
  <2> DEFINE to == [AtRest EXCEPT !.at = place, !.b = browser]
  <2>1. to \in DashTask /\ to.at \notin {"close", "launch"}
    BY <1>1 DEF AtRest, DashTask
  <2>2. ~ Managing(t)
    BY <1>2, <1>8 DEF Managing
  <2> QED BY <1>8, <2>1, <2>2, OtherStepKeeps
<1>9. ASSUME NEW t \in Task, task[t].at \in {"act", "replay"}, Unmanaged,
             task' = [task EXCEPT ![t] = AtRest]
      PROVE  DashboardInv'
  <2>1. ~ Managing(t)
    BY <1>9 DEF Managing
  <2> QED BY <1>2, <1>9, <2>1, OtherStepKeeps
<1>10. ASSUME NEW t \in Task, Act(t) \/ Acted(t) \/ ReplayWorkflow(t) \/ Replayed(t)
       PROVE  DashboardInv'
  <2>1. CASE Act(t)
    BY <1>8, <2>1 DEF Act
  <2>2. CASE Acted(t)
    BY <1>9, <2>2 DEF Acted
  <2>3. CASE ReplayWorkflow(t)
    BY <1>8, <2>3, OtherStepKeeps DEF ReplayWorkflow
  <2>4. CASE Replayed(t)
    BY <1>9, <2>4 DEF Replayed
  <2> QED BY <1>10, <2>1, <2>2, <2>3, <2>4
<1>11. ASSUME \/ StartRecording \/ SaveRecording
              \/ Pause \/ Resume \/ RequestIntervention \/ ResolveIntervention
       PROVE  DashboardInv'
  BY <1>11, OtherStepKeeps
     DEF StartRecording, SaveRecording, Pause, Resume, RequestIntervention,
         ResolveIntervention, Steer
<1>12. CASE UNCHANGED dashboardVars
  BY <1>12, OtherStepKeeps DEF dashboardVars, Unmanaged
<1> QED BY <1>3, <1>4, <1>5, <1>6, <1>7, <1>10, <1>11, <1>12, <1>13
    DEF DashboardNext

\* What Orderly says of the manager and the browsers that live.
LEMMA NothingLost == DashboardInv => AloneNothingIsLost
BY DEF DashboardInv, Orderly, AloneNothingIsLost, Lively

\* While starts, stops and restarts come one at a time, the manager knows every
\* browser that runs and by the right profile, through failed launches, replays
\* and operator actions (hermes_dashboard.py, start, stop and restart).
THEOREM AloneNothingIsEverLost == DashboardSpec => []AloneNothingIsLost
BY NothingLost, DashboardInitially, DashboardStep, PTL DEF DashboardSpec

\* What the operator sees, and the types of everything.
OperatorTypes ==
    /\ execution \in {"idle", "running", "paused", "waiting_for_human", "resuming",
                      "completed", "failed"}
    /\ intervention \in BOOLEAN /\ recording \in BOOLEAN
    /\ steps \in Seq(0 .. MaxMade) /\ Len(steps) <= MaxSteps

\* The operator starts at rest.
LEMMA OperatorInitially == DashboardInit => OperatorTypes
<1>1. <<>> \in Seq(0 .. MaxMade) /\ Len(<<>>) = 0 /\ 0 <= MaxSteps
  OBVIOUS
<1> QED BY <1>1 DEF DashboardInit, OperatorTypes

\* Every step keeps what the operator sees in its type.
LEMMA OperatorStep ==
  DashTypes /\ OperatorTypes /\ [DashboardNext]_dashboardVars => OperatorTypes'
<1> SUFFICES ASSUME DashTypes, OperatorTypes, [DashboardNext]_dashboardVars
             PROVE  OperatorTypes'
  OBVIOUS
<1>1. UNCHANGED <<execution, intervention, recording, steps>> => OperatorTypes'
  BY DEF OperatorTypes
<1>2. ASSUME NEW t \in Task, Acted(t) PROVE OperatorTypes'
  <2>1. task[t].b \in 0 .. MaxMade
    BY DEF DashTypes, DashTask
  <2>2. steps' \in Seq(0 .. MaxMade) /\ Len(steps') <= MaxSteps
    BY <1>2, <2>1 DEF Acted, OperatorTypes
  <2> QED BY <1>2, <2>2 DEF Acted, OperatorTypes
<1>3. ASSUME NEW t \in Task, ReplayWorkflow(t) \/ Replayed(t) PROVE OperatorTypes'
  BY <1>3 DEF ReplayWorkflow, Replayed, OperatorTypes
<1>4. ASSUME \/ StartRecording \/ SaveRecording
             \/ Pause \/ Resume \/ RequestIntervention \/ ResolveIntervention
      PROVE  OperatorTypes'
  <2>1. CASE StartRecording
    <3>1. <<>> \in Seq(0 .. MaxMade) /\ Len(<<>>) = 0 /\ 0 <= MaxSteps
      OBVIOUS
    <3> QED BY <2>1, <3>1 DEF StartRecording, OperatorTypes
  <2>2. CASE SaveRecording
    BY <2>2 DEF SaveRecording, OperatorTypes
  <2>3. CASE Pause \/ Resume \/ RequestIntervention \/ ResolveIntervention
    BY <2>3 DEF Pause, Resume, RequestIntervention, ResolveIntervention, Steer, OperatorTypes
  <2> QED BY <1>4, <2>1, <2>2, <2>3
<1>5. CASE \/ \E t \in Task : \/ \E p \in Profile : Start(t, p)
                              \/ Restart(t) \/ Stop(t) \/ Closed(t) \/ CloseRaises(t)
                              \/ Launched(t) \/ Act(t)
           \/ UNCHANGED dashboardVars
  BY <1>1, <1>5 DEF Start, Restart, Stop, Closed, CloseRaises, Launched, Act, dashboardVars
<1> QED BY <1>2, <1>3, <1>4, <1>5 DEF DashboardNext

\* Both give the types of the dashboard.
LEMMA DashboardTyped == DashboardInv /\ OperatorTypes => DashboardTypeOK
<1> SUFFICES ASSUME DashboardInv, OperatorTypes PROVE DashboardTypeOK
  OBVIOUS
<1>1. \A t \in Task : task[t] \in DashTask
  BY DEF DashboardInv, DashTypes
<1>2. \A t \in Task : /\ task[t].at \in {"rest", "close", "launch", "act", "replay"}
                      /\ task[t].b \in 0 .. MaxMade /\ task[t].profile \in Profile
  BY <1>1 DEF DashTask
<1>3. Lively \union {"unmade", "closed"} = {"unmade", "launching", "open", "broken", "closed"}
  BY DEF Lively
<1> QED BY <1>2, <1>3 DEF DashboardInv, DashTypes, OperatorTypes, DashboardTypeOK

HIDE DashboardAssumption

---------------------------------------------------------------------------
(***************************************************************************)
(* The services together, as TLC runs them.                                *)
(***************************************************************************)

ServicesInv == McpInv /\ EnforcerInv /\ RecorderInv /\ DashboardInv /\ OperatorTypes

\* Every step of a behaviour that TLC explores is a step of the services, in
\* which those that do not take it stay as they are.
LEMMA ServicesSteps ==
  ASSUME [ServicesNext]_<<part, mcpVars, enforcerVars, dashboardVars, recorderVars>>
  PROVE  /\ [McpNext]_mcpVars \/ (ReplayNext /\ UNCHANGED sessionVars)
         /\ [EnforcerNext]_enforcerVars
         /\ [DashboardNext]_dashboardVars
         /\ [RecorderNext]_recorderVars
BY DEF ServicesNext, ReplayPart, SessionsPart, TaughtPart, ManagedPart, OperatedPart

\* A replay outside the server leaves the server's sessions alone.
LEMMA ReplayBesideServer ==
  ASSUME McpInv, ReplayNext, UNCHANGED sessionVars
  PROVE  McpInv'
<1>1. ReplayInv'
  BY ReplayNextStep DEF McpInv
<1>2. ServerInv'
  BY SameServer DEF McpInv
<1> QED BY <1>1, <1>2 DEF McpInv

\* Every invariant of a service holds in the behaviours that TLC explores.
THEOREM ServicesInvariant == ServicesSpec => []ServicesInv
<1>1. ServicesInit => ServicesInv
  BY ReplayInitially, ServerInitially, EnforcerInitially, RecorderInitially, DashboardInitially,
     OperatorInitially DEF ServicesInit, ServicesInv, McpInit, McpInv
<1>2. ASSUME ServicesInv,
             [ServicesNext]_<<part, mcpVars, enforcerVars, dashboardVars, recorderVars>>
      PROVE  ServicesInv'
  <2>1. McpInv'
    BY <1>2, ServicesSteps, ServerStep, ReplayUnderServer, ReplayBesideServer
       DEF ServicesInv, McpInv
  <2>2. EnforcerInv' /\ RecorderInv' /\ DashboardInv'
    BY <1>2, ServicesSteps, EnforcerStep, RecorderStep, DashboardStep DEF ServicesInv
  <2>3. OperatorTypes'
    <3>1. DashTypes /\ OperatorTypes
      BY <1>2 DEF ServicesInv, DashboardInv
    <3> QED BY <1>2, <3>1, ServicesSteps, OperatorStep
  <2> QED BY <2>1, <2>2, <2>3 DEF ServicesInv
<1> QED BY <1>1, <1>2, PTL DEF ServicesSpec

\* Every variable of every service keeps its type.
THEOREM ServicesTypesHold == ServicesSpec => []ServicesTypeOK
<1>1. ServicesInv => ServicesTypeOK
  <2> SUFFICES ASSUME ServicesInv PROVE ServicesTypeOK
    OBVIOUS
  <2>1. McpTypeOK
    BY DEF ServicesInv, McpInv, ReplayInv, ServerInv, McpTypeOK
  <2>2. EnforcerTypeOK
    BY DEF ServicesInv, EnforcerInv
  <2>3. RecorderTypeOK
    BY RecorderTyped DEF ServicesInv
  <2>4. DashboardTypeOK
    BY DashboardTyped DEF ServicesInv
  <2> QED BY <2>1, <2>2, <2>3, <2>4 DEF ServicesTypeOK
<1> QED BY <1>1, ServicesInvariant, PTL

\* In the behaviours that TLC explores too, replays stay checked, tabs stay
\* distinct, the enforcer's tables agree, secrets stay hidden and the
\* dashboard loses no browser, for any constants.
THEOREM ServicesAreSafe ==
  ServicesSpec => [](/\ ReplayIsChecked /\ TabsAreDistinct /\ TablesAgree
                     /\ NamedSecretsAreHidden /\ AloneNothingIsLost)
<1>1. ServicesInv => /\ ReplayIsChecked /\ TabsAreDistinct /\ TablesAgree
                     /\ NamedSecretsAreHidden /\ AloneNothingIsLost
  <2> SUFFICES ASSUME ServicesInv
               PROVE  /\ ReplayIsChecked /\ TabsAreDistinct /\ TablesAgree
                      /\ NamedSecretsAreHidden /\ AloneNothingIsLost
    OBVIOUS
  <2>1. ReplayIsChecked
    BY DEF ServicesInv, McpInv, ReplayInv
  <2>2. TabsAreDistinct
    BY DistinctTabs DEF ServicesInv
  <2>3. TablesAgree
    BY DEF ServicesInv, EnforcerInv
  <2>4. NamedSecretsAreHidden
    BY SecretsHidden DEF ServicesInv
  <2>5. AloneNothingIsLost
    BY NothingLost DEF ServicesInv
  <2> QED BY <2>1, <2>2, <2>3, <2>4, <2>5
<1> QED BY <1>1, ServicesInvariant, PTL

\* In those behaviours too a page keeps its tab id, and only a launch that
\* fails leaves calls without a name without a session.
THEOREM ServicesKeepTabs == ServicesSpec => TabKeepsItsId /\ UnnamedCallsArrive
<1>1. ServicesInv /\ [ServicesNext]_<<part, mcpVars, enforcerVars, dashboardVars, recorderVars>>
      => [\A n \in Name :
            session[n] # 0 /\ session'[n] = session[n] =>
               \A a \in pages[session[n]] \intersect pages'[session[n]]
                                          \intersect DOMAIN tabIds[n] :
                  a \in DOMAIN tabIds'[n] /\ tabIds'[n][a] = tabIds[n][a]]_mcpVars
  <2> SUFFICES ASSUME ServicesInv, NEW n \in Name,
                      [ServicesNext]_<<part, mcpVars, enforcerVars, dashboardVars, recorderVars>>,
                      session[n] # 0, session'[n] = session[n],
                      NEW a \in pages[session[n]] \intersect pages'[session[n]]
                                                  \intersect DOMAIN tabIds[n]
               PROVE  a \in DOMAIN tabIds'[n] /\ tabIds'[n][a] = tabIds[n][a]
    OBVIOUS
  <2>1. CASE [McpNext]_mcpVars
    BY <2>1, IdsStay DEF ServicesInv, McpInv
  <2>2. CASE UNCHANGED sessionVars
    BY <2>2 DEF sessionVars
  <2> QED BY <2>1, <2>2, ServicesSteps
<1>2. /\ ServicesInv /\ ServicesInv'
      /\ [ServicesNext]_<<part, mcpVars, enforcerVars, dashboardVars, recorderVars>>
      => [Arrives /\ ~ Arrives' => made' > made /\ session'[active] = 0]_mcpVars
  <2> SUFFICES ASSUME ServicesInv, ServicesInv', Arrives, ~ Arrives',
                      [ServicesNext]_<<part, mcpVars, enforcerVars, dashboardVars, recorderVars>>
               PROVE  made' > made /\ session'[active] = 0
    OBVIOUS
  <2>1. CASE [McpNext]_mcpVars
    BY <2>1, ArrivalStep DEF ServicesInv, McpInv
  <2>2. CASE UNCHANGED sessionVars
    BY <2>2 DEF sessionVars, Arrives, Chosen, Open
  <2> QED BY <2>1, <2>2, ServicesSteps
<1> QED BY <1>1, <1>2, ServicesInvariant, PTL
        DEF ServicesSpec, TabKeepsItsId, UnnamedCallsArrive

-----------------------------------------------------------------------------
(***************************************************************************)
(* BackendLink. The line to a backend server, for any callers, servers and *)
(* requests: the lock is orderly, and the line implements RpcContract.     *)
(*                                                                         *)
(* The invariant has three parts. AdapterInv and LockInv are the types and *)
(* LockIsOrderly with what makes it inductive: a caller's id was handed out*)
(* (AsksIssued). PipeInv says that requests pass through a server in the   *)
(* order of their ids: those that were carried out, those in the pipe, and *)
(* those of callers that have not written theirs follow one another, hence *)
(* none is carried out twice, and an answer is to one that was.            *)
(***************************************************************************)
USE LinkAssumption

Id == 1 .. MaxRequests
Line == [what : {"answer", "junk", "raising"}, id : 0 .. MaxRequests]

AdapterInv ==
    /\ spawned \in 0 .. MaxServers /\ proc \in 0 .. spawned /\ client \in {0, proc}
    /\ ending \in [Server -> Nat] /\ rejected \in [Server -> Nat]
    /\ alive \subseteq 1 .. spawned

LockTypes ==
    /\ asks \in [Caller -> Call \union {NoCall}]
    /\ kind \in [Caller -> {"launch", "tool"}]
    /\ lock \in [Server -> Seq(Caller)]
    /\ sent \subseteq {c \in Caller : asks[c] # NoCall}
    /\ lastId \in [Server -> 0 .. MaxRequests]
    /\ answer \in [Caller -> Call \union {NoCall}]

WhoWaits(s) == ToSet(lock[s]) = {c \in Caller : asks[c].server = s}
ById(s) == \A i, j \in DOMAIN lock[s] : i < j => asks[lock[s][i]].id < asks[lock[s][j]].id
HolderSends(s) == \A c \in sent : asks[c].server = s => lock[s][1] = c
AsksIssued(s) == \A c \in Caller : asks[c].server = s => asks[c].id <= lastId[s]

LockInv == /\ LockTypes
           /\ \A s \in Server : WhoWaits(s) /\ ById(s) /\ HolderSends(s) /\ AsksIssued(s)

Ran(s, id) == ran[[server |-> s, id |-> id]] = 1
Passed(s, id) == Ran(s, id) \/ \E i \in DOMAIN input[s] : input[s][i] = id

PipeTypes ==
    /\ input \in [Server -> Seq(Id)] /\ output \in [Server -> Seq(Line)]
    /\ ran \in [Call -> {0, 1}]
    /\ noise \in 0 .. MaxNoise

PassedIssued(s) == \A id \in Id : Passed(s, id) => id <= lastId[s]
PassedFirst(s) == \A id \in Id, c \in Caller :
    Passed(s, id) /\ asks[c].server = s /\ c \notin sent => id < asks[c].id
PipeInOrder(s) == \A i, j \in DOMAIN input[s] : i < j => input[s][i] < input[s][j]
RanFirst(s) == \A id \in Id, i \in DOMAIN input[s] : Ran(s, id) => id < input[s][i]
AnswersRan(s) == \A i \in DOMAIN output[s] :
    output[s][i].what = "answer" => output[s][i].id \in Id /\ Ran(s, output[s][i].id)

PipeInv == /\ PipeTypes
           /\ \A s \in Server : /\ PassedIssued(s) /\ PassedFirst(s)
                                /\ PipeInOrder(s) /\ RanFirst(s) /\ AnswersRan(s)

LinkInv == AdapterInv /\ LockInv /\ PipeInv

---------------------------------------------------------------------------
\* What Append and Tail return.
LEMMA AppendFacts ==
  ASSUME NEW S, NEW q \in Seq(S), NEW x \in S
  PROVE  /\ Append(q, x) \in Seq(S) /\ Len(q) \in Nat
         /\ DOMAIN q = 1 .. Len(q) /\ DOMAIN Append(q, x) = 1 .. Len(q) + 1
         /\ \A i \in 1 .. Len(q) : Append(q, x)[i] = q[i]
         /\ Append(q, x)[Len(q) + 1] = x
  OBVIOUS

LEMMA TailFacts ==
  ASSUME NEW S, NEW q \in Seq(S), q # <<>>
  PROVE  /\ Tail(q) \in Seq(S) /\ Len(q) \in Nat /\ Len(q) >= 1
         /\ DOMAIN q = 1 .. Len(q) /\ DOMAIN Tail(q) = 1 .. Len(q) - 1
         /\ \A i \in 1 .. Len(q) - 1 : Tail(q)[i] = q[i + 1]
         /\ Head(q) = q[1] /\ q[1] \in S
  OBVIOUS

LEMMA AskFacts ==
  ASSUME LockTypes, NEW c \in Caller
  PROVE  /\ asks[c] # NoCall => /\ asks[c] \in Call /\ asks[c].server \in Server
                                /\ asks[c].id \in Id
         /\ asks[c] = NoCall <=> asks[c].server \notin Server
  BY DEF LockTypes, Call, NoCall, Server, Id

---------------------------------------------------------------------------
LEMMA LinkInitially == Init => LinkInv
<1> SUFFICES ASSUME Init PROVE LinkInv
  OBVIOUS
<1>1. AdapterInv
  BY DEF Init, AdapterInv
<1>2. LockInv
  <2>1. LockTypes
    BY DEF Init, LockTypes
  <2>2. \A s \in Server : lock[s] = <<>> /\ \A c \in Caller : asks[c].server # s
    BY DEF Init, Server, NoCall
  <2> QED BY <2>1, <2>2 DEF Init, LockInv, WhoWaits, ById, HolderSends, AsksIssued, ToSet
<1>3. PipeInv
  <2>1. PipeTypes
    BY DEF Init, PipeTypes
  <2>2. \A s \in Server, id \in Id : ~ Ran(s, id)
    BY DEF Init, Ran, Call, Id
  <2>3. \A s \in Server : input[s] = <<>> /\ output[s] = <<>>
    BY DEF Init
  <2> QED BY <2>1, <2>2, <2>3
          DEF PipeInv, PassedIssued, PassedFirst, PipeInOrder, RanFirst, AnswersRan, Passed
<1> QED BY <1>1, <1>2, <1>3 DEF LinkInv

---------------------------------------------------------------------------
\* A request goes to the end of the lock with the highest id.
LEMMA RequestKeepsLock ==
  ASSUME LockInv, NEW c \in Caller, NEW s \in Server, NEW what \in {"launch", "tool"},
         Request(c, s, what)
  PROVE  LockInv'
<1> USE DEF LockInv
<1> DEFINE k == [server |-> s, id |-> lastId[s] + 1]
<1>1. lastId[s] \in Nat /\ lastId[s] + 1 \in Id
  BY DEF Request, LockTypes, Id
<1>2. k \in Call
  BY <1>1 DEF Call, Id
<1>3. /\ asks[c] = NoCall
      /\ lastId' = [lastId EXCEPT ![s] = @ + 1]
      /\ asks' = [asks EXCEPT ![c] = k]
      /\ lock' = [lock EXCEPT ![s] = Append(@, c)]
      /\ sent' = sent
  BY DEF Request, LockTypes
<1> HIDE DEF k
<1>4. LockTypes'
  <2>1. lastId' \in [Server -> 0 .. MaxRequests]
    BY <1>1, <1>3 DEF LockTypes, Id
  <2>2. asks' \in [Caller -> Call \union {NoCall}]
    BY <1>2, <1>3 DEF LockTypes
  <2>3. lock' \in [Server -> Seq(Caller)]
    BY <1>3, AppendFacts DEF LockTypes
  <2>4. kind' \in [Caller -> {"launch", "tool"}] /\ answer' \in [Caller -> Call \union {NoCall}]
    BY DEF Request, LockTypes
  <2>5. sent' \subseteq {d \in Caller : asks'[d] # NoCall}
    BY <1>3 DEF LockTypes
  <2> QED BY <2>1, <2>2, <2>3, <2>4, <2>5 DEF LockTypes
<1>5. \A d \in Caller \ {c} : asks'[d] = asks[d]
  BY <1>3 DEF LockTypes
<1>6. asks'[c].server = s /\ asks'[c].id = lastId[s] + 1 /\ asks[c].server \notin Server
  BY <1>3, AskFacts DEF LockTypes, k
<1>7. ASSUME NEW r \in Server, r # s
      PROVE  WhoWaits(r)' /\ ById(r)' /\ HolderSends(r)' /\ AsksIssued(r)'
  <2>1. lock'[r] = lock[r] /\ lastId'[r] = lastId[r]
    BY <1>3, <1>7 DEF LockTypes
  <2>2. \A d \in Caller : asks'[d].server = r <=> asks[d].server = r
    BY <1>5, <1>6, <1>7
  <2>3. WhoWaits(r)'
    BY <2>1, <2>2 DEF WhoWaits
  <2>4. \A i \in DOMAIN lock[r] : lock[r][i] \in Caller /\ asks'[lock[r][i]] = asks[lock[r][i]]
    BY <1>5, <1>6 DEF WhoWaits, ToSet
  <2>5. ById(r)'
    BY <2>1, <2>4 DEF ById
  <2>6. HolderSends(r)' /\ AsksIssued(r)'
    BY <1>3, <1>5, <1>6, <1>7, <2>1 DEF HolderSends, AsksIssued, LockTypes
  <2> QED BY <2>3, <2>5, <2>6
<1>8. WhoWaits(s)' /\ ById(s)' /\ HolderSends(s)' /\ AsksIssued(s)'
  <2> DEFINE q == lock[s]
             n == Len(lock[s])
  <2>1. q \in Seq(Caller) /\ lock'[s] = Append(q, c) /\ lastId'[s] = lastId[s] + 1
    BY <1>3 DEF LockTypes
  <2> HIDE DEF q
  <2>2. /\ Len(q) \in Nat
        /\ DOMAIN q = 1 .. Len(q) /\ DOMAIN lock'[s] = 1 .. Len(q) + 1
        /\ \A i \in 1 .. Len(q) : lock'[s][i] = q[i]
        /\ lock'[s][Len(q) + 1] = c
    BY <2>1, AppendFacts
  <2>3. /\ {q[i] : i \in DOMAIN q} = {d \in Caller : asks[d].server = s}
        /\ \A i, j \in DOMAIN q : i < j => asks[q[i]].id < asks[q[j]].id
    BY DEF q, WhoWaits, ById, ToSet
  <2>4. \A i \in DOMAIN q : q[i] \in Caller \ {c} /\ asks'[q[i]] = asks[q[i]]
                            /\ asks[q[i]].id <= lastId[s] /\ asks[q[i]].id \in Nat
    <3>1. ASSUME NEW i \in DOMAIN q
          PROVE  q[i] \in Caller /\ asks[q[i]].server = s
      BY <2>3
    <3>2. \A d \in Caller : asks[d].server = s => d # c /\ asks[d].id \in Nat
      BY <1>6, AskFacts DEF Id
    <3> QED BY <1>5, <3>1, <3>2 DEF AsksIssued
  <2>5. WhoWaits(s)'
    <3>1. \A d \in Caller : asks'[d].server = s <=> asks[d].server = s \/ d = c
      BY <1>5, <1>6
    <3>2. {lock'[s][i] : i \in DOMAIN lock'[s]} = {q[i] : i \in DOMAIN q} \union {c}
      BY <2>2
    <3> QED BY <2>3, <3>1, <3>2 DEF WhoWaits, ToSet
  <2>6. ById(s)'
    <3> SUFFICES ASSUME NEW i \in DOMAIN lock'[s], NEW j \in DOMAIN lock'[s], i < j
                 PROVE  asks'[lock'[s][i]].id < asks'[lock'[s][j]].id
      BY DEF ById
    <3>1. i \in DOMAIN q /\ lock'[s][i] = q[i]
      BY <2>2
    <3>2. CASE j = Len(q) + 1
      BY <1>1, <1>6, <2>2, <2>4, <3>1, <3>2
    <3>3. CASE j # Len(q) + 1
      <4>1. j \in DOMAIN q /\ lock'[s][j] = q[j]
        BY <2>2, <3>3
      <4> QED BY <2>3, <2>4, <3>1, <4>1
    <3> QED BY <3>2, <3>3
  <2>7. HolderSends(s)'
    <3> SUFFICES ASSUME NEW d \in sent, asks'[d].server = s
                 PROVE  lock'[s][1] = d
      BY <1>3 DEF HolderSends
    <3>1. d \in Caller /\ d # c
      BY <1>3 DEF LockTypes
    <3>2. q[1] = d /\ d \in {q[i] : i \in DOMAIN q}
      BY <1>5, <2>3, <3>1 DEF HolderSends, q
    <3> QED BY <2>2, <3>2
  <2>8. AsksIssued(s)'
    <3>1. \A d \in Caller : asks[d].server = s => asks[d].id \in Nat
      BY AskFacts DEF Id
    <3> QED BY <1>1, <1>5, <1>6, <2>1, <3>1 DEF AsksIssued
  <2> QED BY <2>5, <2>6, <2>7, <2>8
<1> QED BY <1>4, <1>7, <1>8

\* The holder leaves the lock to the next.
LEMMA LeavesKeepsLock ==
  ASSUME LockInv, NEW c \in Caller, Holds(c), Leaves(c),
         answer' \in [Caller -> Call \union {NoCall}]
  PROVE  LockInv'
<1> USE DEF LockInv
<1>1. PICK s \in Server : s = asks[c].server /\ asks[c] # NoCall
  BY AskFacts DEF Holds
<1> DEFINE q == lock[s]
<1>0. sent \subseteq Caller
  BY DEF LockTypes
<1>2. q \in Seq(Caller) /\ q # <<>> /\ Head(q) = c
  <2>1. c \in ToSet(q)
    BY <1>1 DEF WhoWaits
  <2> QED BY <1>1, <2>1 DEF Holds, Mine, LockTypes, ToSet
<1>3. /\ asks' = [asks EXCEPT ![c] = NoCall] /\ lastId' = lastId /\ kind' = kind
      /\ lock' = [lock EXCEPT ![s] = Tail(@)] /\ sent' = sent \ {c}
  BY <1>1 DEF Leaves, Mine
<1>4. \A d \in Caller \ {c} : asks'[d] = asks[d]
  BY <1>3 DEF LockTypes
<1>5. asks'[c] = NoCall /\ asks'[c].server \notin Server
  BY <1>3 DEF LockTypes, NoCall, Server
<1>6. LockTypes'
  <2>1. lock' \in [Server -> Seq(Caller)]
    BY <1>1, <1>2, <1>3, TailFacts DEF LockTypes
  <2>2. asks' \in [Caller -> Call \union {NoCall}]
    BY <1>3 DEF LockTypes
  <2>3. sent' \subseteq {d \in Caller : asks'[d] # NoCall}
    BY <1>3, <1>4 DEF LockTypes
  <2> QED BY <1>3, <2>1, <2>2, <2>3 DEF LockTypes
<1>7. \A r \in Server : AsksIssued(r)'
  BY <1>3, <1>4, <1>5 DEF AsksIssued
<1>8. ASSUME NEW r \in Server, r # s PROVE WhoWaits(r)' /\ ById(r)' /\ HolderSends(r)'
  <2>1. lock'[r] = lock[r]
    BY <1>3, <1>8 DEF LockTypes
  <2>2. \A d \in Caller : asks'[d].server = r <=> asks[d].server = r
    BY <1>1, <1>4, <1>5, <1>8
  <2>3. WhoWaits(r)'
    BY <2>1, <2>2 DEF WhoWaits
  <2>4. \A i \in DOMAIN lock[r] : lock[r][i] \in Caller /\ asks'[lock[r][i]] = asks[lock[r][i]]
    BY <1>1, <1>4, <1>8 DEF WhoWaits, ToSet
  <2>5. ById(r)'
    BY <2>1, <2>4 DEF ById
  <2>6. HolderSends(r)'
    BY <1>0, <1>3, <1>4, <1>8, <2>1 DEF HolderSends
  <2> QED BY <2>3, <2>5, <2>6
<1>9. WhoWaits(s)' /\ ById(s)' /\ HolderSends(s)'
  <2>1. lock'[s] = Tail(q)
    BY <1>1, <1>3 DEF LockTypes
  <2>2. /\ {q[i] : i \in DOMAIN q} = {d \in Caller : asks[d].server = s}
        /\ \A i, j \in DOMAIN q : i < j => asks[q[i]].id < asks[q[j]].id
    BY <1>1 DEF WhoWaits, ById, ToSet
  <2>3. asks[c].id \in Nat
    BY <1>1, AskFacts DEF Id
  <2>a. /\ Len(q) \in Nat /\ Len(q) >= 1 /\ q[1] = c
        /\ DOMAIN q = 1 .. Len(q) /\ DOMAIN Tail(q) = 1 .. Len(q) - 1
        /\ \A i \in 1 .. Len(q) - 1 : Tail(q)[i] = q[i + 1]
    BY <1>2, TailFacts
  <2> HIDE DEF q
  <2>4. \A i \in 2 .. Len(q) : q[i] \in Caller \ {c} /\ asks'[q[i]] = asks[q[i]]
    <3> SUFFICES ASSUME NEW i \in 2 .. Len(q)
                 PROVE  q[i] \in Caller \ {c}
      BY <1>4
    <3>1. i \in DOMAIN q /\ 1 \in DOMAIN q /\ 1 < i
      BY <2>a
    <3>2. asks[c].id < asks[q[i]].id
      BY <2>2, <2>a, <3>1
    <3>3. q[i] \in Caller
      BY <2>2, <3>1
    <3> QED BY <2>3, <3>2, <3>3
  <2>5. WhoWaits(s)'
    <3>1. {Tail(q)[i] : i \in DOMAIN Tail(q)} = {q[i] : i \in 2 .. Len(q)}
      <4>1. \A i \in 1 .. Len(q) - 1 : i + 1 \in 2 .. Len(q)
        BY <2>a
      <4>2. \A i \in 2 .. Len(q) : i - 1 \in 1 .. Len(q) - 1 /\ (i - 1) + 1 = i
        BY <2>a
      <4>3. ASSUME NEW i \in DOMAIN Tail(q)
            PROVE  Tail(q)[i] \in {q[j] : j \in 2 .. Len(q)}
        BY <2>a, <4>1
      <4>4. ASSUME NEW j \in 2 .. Len(q)
            PROVE  q[j] \in {Tail(q)[i] : i \in DOMAIN Tail(q)}
        <5>1. Tail(q)[j - 1] = q[j] /\ j - 1 \in DOMAIN Tail(q)
          BY <2>a, <4>2
        <5> QED BY <5>1
      <4> QED BY <4>3, <4>4
    <3>2. {q[i] : i \in DOMAIN q} = {q[i] : i \in 2 .. Len(q)} \union {c}
      <4>1. \A i \in DOMAIN q : i = 1 \/ i \in 2 .. Len(q)
        BY <2>a
      <4>2. 1 \in DOMAIN q /\ \A i \in 2 .. Len(q) : i \in DOMAIN q
        BY <2>a
      <4> QED BY <2>a, <4>1, <4>2
    <3>3. c \notin {q[i] : i \in 2 .. Len(q)}
      BY <2>4
    <3>4. {d \in Caller : asks'[d].server = s} = {d \in Caller : asks[d].server = s} \ {c}
      BY <1>1, <1>4, <1>5
    <3>5. {Tail(q)[i] : i \in DOMAIN Tail(q)} = {d \in Caller : asks'[d].server = s}
      BY <2>2, <3>1, <3>2, <3>3, <3>4
    <3> QED BY <2>1, <3>5 DEF WhoWaits, ToSet
  <2>6. ById(s)'
    <3>1. ASSUME NEW i \in DOMAIN Tail(q), NEW j \in DOMAIN Tail(q), i < j
          PROVE  asks'[Tail(q)[i]].id < asks'[Tail(q)[j]].id
      <4>1. /\ i + 1 \in 2 .. Len(q) /\ j + 1 \in 2 .. Len(q) /\ i + 1 < j + 1
            /\ i + 1 \in DOMAIN q /\ j + 1 \in DOMAIN q
        BY <2>a, <3>1
      <4> QED BY <2>2, <2>4, <2>a, <4>1
    <3> QED BY <2>1, <3>1 DEF ById
  <2>7. HolderSends(s)'
    <3>1. \A d \in sent \ {c} : asks[d].server # s
      BY <1>0, <1>1, <2>a DEF HolderSends, q
    <3> QED BY <1>0, <1>3, <1>4, <3>1 DEF HolderSends
  <2> QED BY <2>5, <2>6, <2>7
<1> QED BY <1>6, <1>7, <1>8, <1>9

\* The holder has written its request.
LEMMA SentKeepsLock ==
  ASSUME LockInv, NEW c \in Caller, Holds(c), sent' = sent \union {c},
         UNCHANGED <<asks, kind, lock, lastId, answer>>
  PROVE  LockInv'
<1> USE DEF LockInv
<1>1. asks[c] # NoCall /\ asks[c].server \in Server
  BY AskFacts DEF Holds
<1>2. lock[asks[c].server][1] = c
  <2>1. c \in ToSet(lock[asks[c].server])
    BY <1>1 DEF WhoWaits
  <2>2. lock[asks[c].server] \in Seq(Caller) /\ lock[asks[c].server] # <<>>
    BY <1>1, <2>1 DEF LockTypes, ToSet
  <2> QED BY <2>2 DEF Holds, Mine
<1>3. LockTypes'
  BY <1>1 DEF LockTypes
<1>4. \A s \in Server : HolderSends(s)'
  BY <1>2 DEF HolderSends
<1> QED BY <1>3, <1>4 DEF WhoWaits, ById, AsksIssued

---------------------------------------------------------------------------
\* The pipes of a server when nothing is written to it or carried out: callers
\* come with higher ids, go, or take lines from its output.
LEMMA QuietKeepsPipe ==
  ASSUME LockInv, PipeInv, UNCHANGED <<input, ran>>, noise' \in 0 .. MaxNoise,
         output' \in [Server -> Seq(Line)],
         \A s \in Server : AnswersRan(s)',
         \A s \in Server : lastId'[s] \in Nat /\ lastId[s] <= lastId'[s],
         \A s \in Server, c \in Caller : asks'[c].server = s /\ c \notin sent' =>
             \/ asks'[c] = asks[c] /\ c \notin sent
             \/ asks'[c].id \in Nat /\ lastId[s] < asks'[c].id
  PROVE  PipeInv'
<1> USE DEF PipeInv
<1>1. PipeTypes'
  BY DEF PipeTypes
<1> SUFFICES ASSUME NEW s \in Server
             PROVE  PassedIssued(s)' /\ PassedFirst(s)' /\ PipeInOrder(s)' /\ RanFirst(s)'
  BY <1>1
<1>2. lastId[s] \in Nat
  BY DEF LockInv, LockTypes
<1>3. \A id \in Id : id \in Nat /\ (Passed(s, id)' <=> Passed(s, id))
  BY DEF Passed, Ran, Id
<1>4. PassedIssued(s)'
  BY <1>2, <1>3 DEF PassedIssued
<1>5. PassedFirst(s)'
  <2> SUFFICES ASSUME NEW id \in Id, NEW c \in Caller,
                      Passed(s, id), asks'[c].server = s, c \notin sent'
               PROVE  id < asks'[c].id
    BY <1>3 DEF PassedFirst
  <2>1. CASE asks'[c] = asks[c] /\ c \notin sent
    BY <2>1 DEF PassedFirst
  <2>2. CASE asks'[c].id \in Nat /\ lastId[s] < asks'[c].id
    BY <1>2, <1>3, <2>2 DEF PassedIssued
  <2> QED BY <2>1, <2>2
<1>6. PipeInOrder(s)' /\ RanFirst(s)'
  BY DEF PipeInOrder, RanFirst, Ran
<1> QED BY <1>4, <1>5, <1>6

LEMMA RequestKeepsPipe ==
  ASSUME LockInv, PipeInv, NEW c \in Caller, NEW s \in Server,
         NEW what \in {"launch", "tool"}, Request(c, s, what),
         UNCHANGED <<input, output, ran, noise>>
  PROVE  PipeInv'
<1>1. lastId \in [Server -> Nat] /\ asks \in [Caller -> Call \union {NoCall}]
  BY DEF LockInv, LockTypes
<1>2. /\ lastId' = [lastId EXCEPT ![s] = @ + 1] /\ sent' = sent
      /\ asks' = [asks EXCEPT ![c] = [server |-> s, id |-> lastId'[s]]]
  BY DEF Request
<1>3. \A r \in Server : AnswersRan(r)'
  BY DEF PipeInv, AnswersRan, Ran
<1>4. \A r \in Server : lastId'[r] \in Nat /\ lastId[r] <= lastId'[r]
  BY <1>1, <1>2
<1>5. ASSUME NEW r \in Server, NEW d \in Caller, asks'[d].server = r, d \notin sent'
      PROVE  \/ asks'[d] = asks[d] /\ d \notin sent
             \/ asks'[d].id \in Nat /\ lastId[r] < asks'[d].id
  <2>1. CASE d = c
    BY <1>1, <1>2, <1>5, <2>1
  <2>2. CASE d # c
    BY <1>1, <1>2, <1>5, <2>2
  <2> QED BY <2>1, <2>2
<1> QED BY <1>3, <1>4, <1>5, QuietKeepsPipe DEF PipeInv, PipeTypes

LEMMA LeavesKeepsPipe ==
  ASSUME LockInv, PipeInv, NEW c \in Caller, Leaves(c), UNCHANGED <<input, ran, noise>>,
         output' \in [Server -> Seq(Line)], \A s \in Server : AnswersRan(s)'
  PROVE  PipeInv'
<1>1. lastId \in [Server -> Nat] /\ asks \in [Caller -> Call \union {NoCall}]
  BY DEF LockInv, LockTypes
<1>2. /\ lastId' = lastId /\ sent' = sent \ {c}
      /\ asks' = [asks EXCEPT ![c] = NoCall]
  BY DEF Leaves
<1>3. \A r \in Server : lastId'[r] \in Nat /\ lastId[r] <= lastId'[r]
  BY <1>1, <1>2
<1>4. ASSUME NEW r \in Server, NEW d \in Caller, asks'[d].server = r, d \notin sent'
      PROVE  asks'[d] = asks[d] /\ d \notin sent
  <2>1. d # c
    BY <1>1, <1>2, <1>4 DEF NoCall, Server
  <2> QED BY <1>1, <1>2, <1>4, <2>1
<1> QED BY <1>3, <1>4, QuietKeepsPipe DEF PipeInv, PipeTypes

\* Steps that change no call and write or carry out nothing.
LEMMA SilenceKeepsPipe ==
  ASSUME LockInv, PipeInv, UNCHANGED <<callVars, input, ran>>, noise' \in 0 .. MaxNoise,
         output' \in [Server -> Seq(Line)], \A s \in Server : AnswersRan(s)'
  PROVE  PipeInv'
<1>1. asks' = asks /\ sent' = sent /\ lastId' = lastId
  BY DEF callVars
<1>2. \A s \in Server : lastId[s] \in Nat
  BY DEF LockInv, LockTypes
<1> QED BY <1>1, <1>2, QuietKeepsPipe

\* A line that is read leaves the output.
LEMMA LineReadKeepsAnswers ==
  ASSUME PipeInv, NEW s \in Server, output[s] # <<>>,
         output' = [output EXCEPT ![s] = Tail(@)], ran' = ran
  PROVE  output' \in [Server -> Seq(Line)] /\ \A r \in Server : AnswersRan(r)'
<1>1. output \in [Server -> Seq(Line)]
  BY DEF PipeInv, PipeTypes
<1>2. /\ Tail(output[s]) \in Seq(Line) /\ Len(output[s]) \in Nat
      /\ DOMAIN output[s] = 1 .. Len(output[s])
      /\ DOMAIN Tail(output[s]) = 1 .. Len(output[s]) - 1
      /\ \A i \in 1 .. Len(output[s]) - 1 : Tail(output[s])[i] = output[s][i + 1]
  BY <1>1, TailFacts
<1>3. output'[s] = Tail(output[s]) /\ \A r \in Server \ {s} : output'[r] = output[r]
  BY <1>1
<1>4. AnswersRan(s)'
  <2> SUFFICES ASSUME NEW i \in DOMAIN Tail(output[s]), Tail(output[s])[i].what = "answer"
               PROVE  /\ Tail(output[s])[i].id \in Id
                      /\ Ran(s, Tail(output[s])[i].id)
    BY <1>3 DEF AnswersRan, Ran
  <2>1. i + 1 \in DOMAIN output[s] /\ Tail(output[s])[i] = output[s][i + 1]
    BY <1>2
  <2> QED BY <2>1 DEF PipeInv, AnswersRan
<1>5. \A r \in Server \ {s} : AnswersRan(r)'
  BY <1>3 DEF PipeInv, AnswersRan, Ran
<1> QED BY <1>1, <1>2, <1>4, <1>5

\* A line that a server writes, an answer only to what it has carried out.
LEMMA LineKeepsAnswers ==
  ASSUME PipeInv, NEW s \in Server, NEW line \in Line,
         output' = [output EXCEPT ![s] = Append(@, line)],
         \A id \in Id, r \in Server : Ran(r, id) => Ran(r, id)',
         line.what = "answer" => line.id \in Id /\ Ran(s, line.id)'
  PROVE  output' \in [Server -> Seq(Line)] /\ \A r \in Server : AnswersRan(r)'
<1>1. output \in [Server -> Seq(Line)]
  BY DEF PipeInv, PipeTypes
<1> DEFINE q == output[s]
<1>2. /\ Append(q, line) \in Seq(Line) /\ Len(q) \in Nat
      /\ DOMAIN q = 1 .. Len(q) /\ DOMAIN Append(q, line) = 1 .. Len(q) + 1
      /\ \A i \in 1 .. Len(q) : Append(q, line)[i] = q[i]
      /\ Append(q, line)[Len(q) + 1] = line
  BY <1>1, AppendFacts
<1>3. output'[s] = Append(q, line) /\ \A r \in Server \ {s} : output'[r] = output[r]
  BY <1>1
<1>4. AnswersRan(s)'
  <2> SUFFICES ASSUME NEW i \in 1 .. Len(q) + 1, NEW id, id = Append(q, line)[i].id,
                      Append(q, line)[i].what = "answer"
               PROVE  id \in Id /\ Ran(s, id)'
    BY <1>2, <1>3 DEF AnswersRan, Ran
  <2>1. CASE i = Len(q) + 1
    BY <1>2, <2>1
  <2>2. CASE i # Len(q) + 1
    <3>1. i \in DOMAIN q /\ Append(q, line)[i] = q[i]
      BY <1>2, <2>2
    <3> QED BY <3>1 DEF PipeInv, AnswersRan
  <2> QED BY <2>1, <2>2
<1>5. \A r \in Server \ {s} : AnswersRan(r)'
  <2> SUFFICES ASSUME NEW r \in Server \ {s}, NEW i \in DOMAIN output[r],
                      output[r][i].what = "answer"
               PROVE  output[r][i].id \in Id /\ Ran(r, output[r][i].id)'
    BY <1>3 DEF AnswersRan, Ran
  <2> QED BY DEF PipeInv, AnswersRan
<1> QED BY <1>1, <1>2, <1>4, <1>5

\* The holder writes its request after all that went before.
LEMMA SentKeepsPipe ==
  ASSUME LockInv, PipeInv, NEW c \in Caller, Holds(c), c \notin sent,
         sent' = sent \union {c}, input' = [input EXCEPT ![Mine(c)] = Append(@, asks[c].id)],
         UNCHANGED <<asks, kind, lock, lastId, answer, output, ran, noise>>
  PROVE  PipeInv'
<1> USE DEF PipeInv
<1>1. PICK s \in Server : s = asks[c].server /\ asks[c].id \in Id
  BY AskFacts DEF Holds, LockInv
<1> DEFINE q == input[s]
           k == asks[c].id
<1>2. q \in Seq(Id) /\ input'[s] = Append(q, k) /\ \A r \in Server \ {s} : input'[r] = input[r]
  BY <1>1 DEF Mine, PipeTypes
<1>3. /\ Append(q, k) \in Seq(Id) /\ Len(q) \in Nat
      /\ DOMAIN q = 1 .. Len(q) /\ DOMAIN Append(q, k) = 1 .. Len(q) + 1
      /\ \A i \in 1 .. Len(q) : Append(q, k)[i] = q[i]
      /\ Append(q, k)[Len(q) + 1] = k
  BY <1>1, <1>2, AppendFacts
<1> HIDE DEF q
<1>4. \A i \in DOMAIN q : q[i] \in Id /\ Passed(s, q[i])
  <2>1. \A i \in DOMAIN q : q[i] \in Id
    BY <1>2, <1>3
  <2> QED BY <2>1 DEF Passed, q
<1>5. \A id \in Id : Passed(s, id) => id < k
  BY <1>1 DEF PassedFirst
<1>6. \A id \in Id : Passed(s, id)' => Passed(s, id) \/ id = k
  <2> SUFFICES ASSUME NEW id \in Id, NEW i \in DOMAIN input'[s], input'[s][i] = id
               PROVE  Passed(s, id) \/ id = k
    BY DEF Passed, Ran
  <2>1. CASE i = Len(q) + 1
    BY <1>2, <1>3, <2>1
  <2>2. CASE i # Len(q) + 1
    BY <1>2, <1>3, <1>4, <2>2
  <2> QED BY <2>1, <2>2
<1>7. \A d \in Caller : asks[d].server = s /\ d \notin sent' => k < asks[d].id
  <2> SUFFICES ASSUME NEW d \in Caller, asks[d].server = s, d # c
               PROVE  k < asks[d].id
    OBVIOUS
  <2>1. WhoWaits(s) /\ ById(s) /\ lock[s] \in Seq(Caller)
    BY DEF LockInv, LockTypes
  <2>2. c \in ToSet(lock[s]) /\ d \in ToSet(lock[s])
    BY <1>1, <2>1 DEF WhoWaits
  <2>3. lock[s] # <<>>
    BY <2>1, <2>2 DEF ToSet
  <2>4. lock[s][1] = c /\ DOMAIN lock[s] = 1 .. Len(lock[s]) /\ Len(lock[s]) \in Nat
        /\ Len(lock[s]) >= 1
    BY <1>1, <2>1, <2>3, TailFacts DEF Holds, Mine
  <2>5. PICK j \in DOMAIN lock[s] : lock[s][j] = d
    BY <2>2 DEF ToSet
  <2>6. 1 \in DOMAIN lock[s] /\ 1 < j
    BY <2>4, <2>5
  <2> QED BY <2>1, <2>4, <2>5, <2>6 DEF ById
<1>8. PipeTypes'
  <2>1. input' \in [Server -> Seq(Id)]
    BY <1>1, <1>2, <1>3 DEF PipeTypes, Mine
  <2> QED BY <2>1 DEF PipeTypes
<1>9. PassedIssued(s)'
  <2>1. k <= lastId[s]
    BY <1>1 DEF LockInv, AsksIssued
  <2> QED BY <1>6, <2>1 DEF PassedIssued
<1>10. PassedFirst(s)'
  <2> SUFFICES ASSUME NEW id \in Id, NEW d \in Caller, Passed(s, id) \/ id = k,
                      asks[d].server = s, d \notin sent'
               PROVE  id < asks[d].id
    BY <1>6 DEF PassedFirst
  <2> QED BY <1>7 DEF PassedFirst
<1>11. PipeInOrder(s)'
  <2> SUFFICES ASSUME NEW i \in 1 .. Len(q) + 1, NEW j \in 1 .. Len(q) + 1, i < j
               PROVE  Append(q, k)[i] < Append(q, k)[j]
    BY <1>2, <1>3 DEF PipeInOrder
  <2>1. i \in DOMAIN q
    BY <1>3
  <2>2. CASE j = Len(q) + 1
    BY <1>3, <1>4, <1>5, <2>1, <2>2
  <2>3. CASE j # Len(q) + 1
    <3>1. j \in DOMAIN q
      BY <1>3, <2>3
    <3> QED BY <1>3, <2>1, <3>1 DEF PipeInOrder, q
  <2> QED BY <2>2, <2>3
<1>12. RanFirst(s)'
  <2> SUFFICES ASSUME NEW id \in Id, Ran(s, id), NEW i \in 1 .. Len(q) + 1
               PROVE  id < Append(q, k)[i]
    BY <1>2, <1>3 DEF RanFirst, Ran
  <2>1. CASE i = Len(q) + 1
    BY <1>3, <1>5, <2>1 DEF Passed
  <2>2. CASE i # Len(q) + 1
    <3>1. i \in DOMAIN q
      BY <1>3, <2>2
    <3> QED BY <1>3, <3>1 DEF RanFirst, q
  <2> QED BY <2>1, <2>2
<1>13. \A r \in Server : AnswersRan(r)'
  BY DEF AnswersRan, Ran
<1>14. ASSUME NEW r \in Server, r # s
       PROVE  PassedIssued(r)' /\ PassedFirst(r)' /\ PipeInOrder(r)' /\ RanFirst(r)'
  <2>1. input'[r] = input[r]
    BY <1>2, <1>14
  <2>2. \A id \in Id : Passed(r, id)' <=> Passed(r, id)
    BY <2>1 DEF Passed, Ran
  <2>3. \A d \in Caller : asks[d].server = r /\ d \notin sent' => d \notin sent
    OBVIOUS
  <2> QED BY <2>1, <2>2, <2>3 DEF PassedIssued, PassedFirst, PipeInOrder, RanFirst, Ran
<1> QED BY <1>8, <1>9, <1>10, <1>11, <1>12, <1>13, <1>14

\* A server takes the request with the lowest id and carries it out, for the
\* first time.
Takes(s) == /\ input[s] # <<>>
            /\ input' = [input EXCEPT ![s] = Tail(@)]
            /\ ran' = [ran EXCEPT ![[server |-> s, id |-> Head(input[s])]] = @ + 1]

LEMMA TakesFacts ==
  ASSUME PipeInv, NEW s \in Server, Takes(s), NEW k, k = Head(input[s])
  PROVE  /\ k \in Id /\ ran[[server |-> s, id |-> k]] = 0 /\ Passed(s, k)
         /\ ran' = [ran EXCEPT ![[server |-> s, id |-> k]] = 1]
         /\ \A r \in Server, id \in Id : Ran(r, id)' <=> Ran(r, id) \/ (r = s /\ id = k)
<1> DEFINE call == [server |-> s, id |-> k]
<1>1. /\ input[s] \in Seq(Id) /\ ran \in [Call -> {0, 1}]
      /\ ran' = [ran EXCEPT ![call] = @ + 1]
  BY DEF PipeInv, PipeTypes, Takes
<1>2. k \in Id /\ 1 \in DOMAIN input[s] /\ input[s][1] = k
  BY <1>1, TailFacts DEF Takes
<1>3. ~ Ran(s, k)
  BY <1>2 DEF PipeInv, RanFirst, Id
<1>4. call \in Call /\ ran[call] = 0
  BY <1>1, <1>2, <1>3 DEF Call, Id, Ran
<1>5. ran' = [ran EXCEPT ![call] = 1]
  BY <1>1, <1>4
<1>6. ASSUME NEW r \in Server, NEW id \in Id
      PROVE  ran'[[server |-> r, id |-> id]] = 1
                <=> ran[[server |-> r, id |-> id]] = 1 \/ (r = s /\ id = k)
  <2> DEFINE another == [server |-> r, id |-> id]
  <2>1. another \in Call /\ (another = call <=> r = s /\ id = k)
    BY DEF Call, Id
  <2> QED BY <1>1, <1>4, <1>5, <2>1
<1>7. \A r \in Server, id \in Id : Ran(r, id)' <=> Ran(r, id) \/ (r = s /\ id = k)
  BY <1>6 DEF Ran
<1>8. Passed(s, k)
  BY <1>2 DEF Passed
<1> QED BY <1>2, <1>4, <1>5, <1>7, <1>8

LEMMA TakesKeepsPipe ==
  ASSUME LockInv, PipeInv, NEW s \in Server, Takes(s), UNCHANGED callVars,
         noise' \in 0 .. MaxNoise,
         output' \in [Server -> Seq(Line)], \A r \in Server : AnswersRan(r)'
  PROVE  PipeInv'
<1> USE DEF PipeInv
<1> DEFINE q == input[s]
<1>0. PICK k : k = Head(q)
  OBVIOUS
<1>1. asks' = asks /\ sent' = sent /\ lastId' = lastId
  BY DEF callVars
<1>2. /\ k \in Id /\ Passed(s, k) /\ ran[[server |-> s, id |-> k]] = 0
      /\ ran' = [ran EXCEPT ![[server |-> s, id |-> k]] = 1]
      /\ \A r \in Server, id \in Id : Ran(r, id)' <=> Ran(r, id) \/ (r = s /\ id = k)
  BY <1>0, TakesFacts
<1>3. /\ q \in Seq(Id) /\ q # <<>> /\ input'[s] = Tail(q)
      /\ \A r \in Server \ {s} : input'[r] = input[r]
  BY DEF Takes, PipeTypes
<1>4. /\ Tail(q) \in Seq(Id) /\ Len(q) \in Nat /\ Len(q) >= 1
      /\ DOMAIN q = 1 .. Len(q) /\ DOMAIN Tail(q) = 1 .. Len(q) - 1
      /\ \A i \in 1 .. Len(q) - 1 : Tail(q)[i] = q[i + 1]
      /\ k = q[1]
  BY <1>0, <1>3, TailFacts
<1>5. PipeTypes'
  <2>1. input' \in [Server -> Seq(Id)]
    BY <1>4 DEF PipeTypes, Takes
  <2>2. ran' \in [Call -> {0, 1}]
    BY <1>2 DEF PipeTypes
  <2> QED BY <2>1, <2>2 DEF PipeTypes
<1>6. \A i \in DOMAIN Tail(q) : i + 1 \in DOMAIN q /\ 1 < i + 1 /\ Tail(q)[i] = q[i + 1]
  BY <1>4
<1>7. ASSUME NEW id \in Id, Passed(s, id)' PROVE Passed(s, id)
  <2>1. CASE Ran(s, id)'
    BY <1>2, <2>1 DEF Passed
  <2>2. CASE \E i \in DOMAIN input'[s] : input'[s][i] = id
    BY <1>3, <1>6, <2>2 DEF Passed
  <2> QED BY <1>7, <2>1, <2>2 DEF Passed
<1>8. PassedIssued(s)' /\ PassedFirst(s)'
  BY <1>1, <1>7 DEF PassedIssued, PassedFirst
<1>9. PipeInOrder(s)'
  <2> SUFFICES ASSUME NEW i \in DOMAIN Tail(q), NEW j \in DOMAIN Tail(q), i < j
               PROVE  Tail(q)[i] < Tail(q)[j]
    BY <1>3 DEF PipeInOrder
  <2>1. i + 1 < j + 1
    BY <1>4
  <2> QED BY <1>6, <2>1 DEF PipeInOrder
<1>10. RanFirst(s)'
  <2> SUFFICES ASSUME NEW id \in Id, Ran(s, id) \/ id = k, NEW i \in DOMAIN Tail(q)
               PROVE  id < Tail(q)[i]
    BY <1>2, <1>3 DEF RanFirst
  <2>1. CASE Ran(s, id)
    BY <1>6, <2>1 DEF RanFirst
  <2>2. CASE id = k
    <3>1. 1 \in DOMAIN q /\ i + 1 \in DOMAIN q /\ 1 < i + 1
      BY <1>4, <1>6
    <3>2. q[1] < q[i + 1]
      BY <3>1 DEF PipeInOrder
    <3> QED BY <1>4, <1>6, <2>2, <3>2
  <2> QED BY <2>1, <2>2
<1>11. ASSUME NEW r \in Server, r # s
       PROVE  PassedIssued(r)' /\ PassedFirst(r)' /\ PipeInOrder(r)' /\ RanFirst(r)'
  <2>1. input'[r] = input[r]
    BY <1>3, <1>11
  <2>2. \A id \in Id : Ran(r, id)' <=> Ran(r, id)
    BY <1>2, <1>11
  <2>3. \A id \in Id : Passed(r, id)' <=> Passed(r, id)
    BY <2>1, <2>2 DEF Passed
  <2> QED BY <1>1, <2>1, <2>2, <2>3 DEF PassedIssued, PassedFirst, PipeInOrder, RanFirst
<1> QED BY <1>5, <1>8, <1>9, <1>10, <1>11

---------------------------------------------------------------------------
\* The adapter's own variables.
LEMMA OneMore ==
  ASSUME NEW f \in [Server -> Nat], NEW s \in Server
  PROVE  [f EXCEPT ![s] = @ + 1] \in [Server -> Nat]
<1>1. \A r \in Server : [f EXCEPT ![s] = @ + 1][r] \in Nat
  OBVIOUS
<1> QED BY <1>1

LEMMA OneLess ==
  ASSUME NEW f \in [Server -> Nat], NEW s \in Server, f[s] > 0
  PROVE  [f EXCEPT ![s] = @ - 1] \in [Server -> Nat]
<1>1. \A r \in Server : [f EXCEPT ![s] = @ - 1][r] \in Nat
  OBVIOUS
<1> QED BY <1>1

LEMMA ProcIsServer == AdapterInv /\ proc # 0 => proc \in Server
  BY DEF AdapterInv, Server

LEMMA TerminateKeepsAdapter ==
  ASSUME AdapterInv, Terminate \/ UNCHANGED adapterVars, alive' \subseteq alive
  PROVE  AdapterInv'
<1>1. CASE Terminate
  <2>1. ending' \in [Server -> Nat]
    BY <1>1, OneMore, ProcIsServer DEF Terminate, AdapterInv
  <2>2. spawned' = spawned /\ proc' = proc /\ client' = client /\ rejected' = rejected
    BY <1>1 DEF Terminate
  <2> QED BY <2>1, <2>2 DEF AdapterInv
<1>2. CASE UNCHANGED adapterVars
  BY <1>2 DEF adapterVars, AdapterInv
<1> QED BY <1>1, <1>2

LEMMA AdapterKeeps == AdapterInv /\ [Next]_vars => AdapterInv'
<1> SUFFICES ASSUME AdapterInv, [Next]_vars PROVE AdapterInv'
  OBVIOUS
<1>1. ASSUME NEW c \in Caller, CallTool(c) PROVE AdapterInv'
  BY <1>1, TerminateKeepsAdapter DEF CallTool, serverVars
<1>2. ASSUME NEW c \in Caller, LaunchServer(c) PROVE AdapterInv'
  BY <1>2 DEF LaunchServer, AdapterInv
<1>3. ASSUME NEW c \in Caller, Send(c) PROVE AdapterInv'
  BY <1>3, TerminateKeepsAdapter DEF Send, Fails
<1>4. ASSUME NEW c \in Caller, Read(c) PROVE AdapterInv'
  <2>1. CASE Rejects(c)
    <3>1. rejected' \in [Server -> Nat]
      BY <2>1, OneMore, ProcIsServer DEF Rejects, AdapterInv
    <3>2. UNCHANGED <<spawned, proc, client, ending, alive>>
      BY <1>4, <2>1 DEF Read, Rejects
    <3> QED BY <3>1, <3>2 DEF AdapterInv
  <2>2. CASE Terminate \/ UNCHANGED adapterVars
    BY <1>4, <2>2, TerminateKeepsAdapter DEF Read
  <2> QED BY <1>4, <2>1, <2>2 DEF Read, Fails, Succeeds
<1>5. ASSUME NEW c \in Caller, GivesUp(c) PROVE AdapterInv'
  BY <1>5, TerminateKeepsAdapter DEF GivesUp, Fails, serverVars
<1>6. CASE Close
  BY <1>6, TerminateKeepsAdapter DEF Close, serverVars
<1>7. ASSUME NEW s \in Server, Terminated(s) PROVE AdapterInv'
  <2>2. ending' \in [Server -> Nat] /\ rejected' = rejected
    BY <1>7, OneLess DEF Terminated, AdapterInv
  <2>3. spawned' = spawned /\ proc' = 0 /\ client' = 0 /\ alive' = alive \ {s}
    BY <1>7 DEF Terminated
  <2>4. spawned \in 0 .. MaxServers /\ alive \subseteq 1 .. spawned
    BY DEF AdapterInv
  <2>5. 0 \in 0 .. spawned
    BY <2>4
  <2> QED BY <2>2, <2>3, <2>4, <2>5 DEF AdapterInv
<1>8. ASSUME NEW s \in Server, Serve(s) \/ ServeBadly(s) \/ Chatter(s) \/ Die(s)
      PROVE  AdapterInv'
  BY <1>8, TerminateKeepsAdapter DEF Serve, ServeBadly, Chatter, Die
<1>9. ASSUME NEW s \in Server, RejectionEnds(s) PROVE AdapterInv'
  <2>1. rejected' \in [Server -> Nat]
    BY <1>9, OneLess DEF RejectionEnds, AdapterInv
  <2>2. ending' \in [Server -> Nat]
    BY <1>9, OneMore, ProcIsServer DEF RejectionEnds, AdapterInv
  <2>3. spawned' = spawned /\ alive' = alive \ {s}
    BY <1>9 DEF RejectionEnds
  <2>4. proc' \in {0, proc} /\ client' \in {0, proc'}
    BY <1>9 DEF RejectionEnds, AdapterInv
  <2>5. spawned \in 0 .. MaxServers /\ proc \in 0 .. spawned /\ alive \subseteq 1 .. spawned
    BY DEF AdapterInv
  <2>6. proc' \in 0 .. spawned
    BY <2>4, <2>5
  <2> QED BY <2>1, <2>2, <2>3, <2>4, <2>5, <2>6 DEF AdapterInv
<1>10. CASE UNCHANGED vars
  BY <1>10, TerminateKeepsAdapter DEF vars, serverVars
<1> QED BY <1>1, <1>2, <1>3, <1>4, <1>5, <1>6, <1>7, <1>8, <1>9, <1>10 DEF Next

---------------------------------------------------------------------------
\* What a step does to the calls and the pipes: a request, the end of one, a
\* request written, one carried out, or none of these.
EndsAnswer(c) == \/ answer' = answer
                 \/ ran[asks[c]] = 1 /\ answer' = [answer EXCEPT ![c] = asks[c]]

Asks(c, s, what) == Request(c, s, what) /\ UNCHANGED <<input, output, ran, noise>>

Ends(c) == /\ Holds(c) /\ Leaves(c) /\ EndsAnswer(c)
           /\ UNCHANGED <<input, ran, noise>>
           /\ output' \in [Server -> Seq(Line)] /\ \A s \in Server : AnswersRan(s)'

Writes(c) == /\ Holds(c) /\ c \notin sent /\ sent' = sent \union {c}
             /\ input' = [input EXCEPT ![Mine(c)] = Append(@, asks[c].id)]
             /\ UNCHANGED <<asks, kind, lock, lastId, answer, output, ran, noise>>

Works(s) == /\ Takes(s) /\ UNCHANGED callVars /\ noise' \in 0 .. MaxNoise
            /\ output' \in [Server -> Seq(Line)] /\ \A r \in Server : AnswersRan(r)'

Silent == /\ UNCHANGED <<callVars, input, ran>> /\ noise' \in 0 .. MaxNoise
          /\ output' \in [Server -> Seq(Line)] /\ \A s \in Server : AnswersRan(s)'

Effect == \/ \E c \in Caller, s \in Server, what \in {"launch", "tool"} : Asks(c, s, what)
          \/ \E c \in Caller : Ends(c) \/ Writes(c)
          \/ \E s \in Server : Works(s)
          \/ Silent

LEMMA OutputStays ==
  ASSUME PipeInv, UNCHANGED <<output, ran>>
  PROVE  output' \in [Server -> Seq(Line)] /\ \A s \in Server : AnswersRan(s)'
  BY DEF PipeInv, PipeTypes, AnswersRan, Ran

LEMMA ReadHasEffect ==
  ASSUME LinkInv, NEW c \in Caller, Read(c)
  PROVE  Effect
<1> USE DEF LinkInv
<1>1. PICK s \in Server : s = Mine(c)
  BY AskFacts DEF Read, Holds, Mine, LockInv
<1>2. output[s] # <<>> /\ output' = [output EXCEPT ![s] = Tail(@)]
      /\ UNCHANGED <<input, ran, noise>> /\ Holds(c)
  BY <1>1 DEF Read
<1>3. output' \in [Server -> Seq(Line)] /\ \A r \in Server : AnswersRan(r)'
  BY <1>2, LineReadKeepsAnswers
<1>4. Head(output[s]) = output[s][1] /\ 1 \in DOMAIN output[s]
  <2>1. output[s] \in Seq(Line)
    BY DEF PipeInv, PipeTypes
  <2> QED BY <1>2, <2>1, TailFacts
<1> DEFINE line == Head(output[s])
<1>5. CASE IsMine(c, line) /\ Succeeds(c)
  <2>1. asks[c] = [server |-> s, id |-> asks[c].id]
    BY <1>1, <1>2, AskFacts DEF Holds, Mine, Call, LockInv
  <2>2. Ran(s, asks[c].id)
    BY <1>4, <1>5 DEF PipeInv, AnswersRan, IsMine
  <2>3. ran[asks[c]] = 1
    BY <2>1, <2>2 DEF Ran
  <2>4. Ends(c)
    BY <1>2, <1>3, <1>5, <2>3 DEF Ends, EndsAnswer, Succeeds
  <2> QED BY <2>4 DEF Effect
<1>6. CASE Fails(c)
  <2>1. Ends(c)
    BY <1>2, <1>3, <1>6 DEF Ends, EndsAnswer, Fails
  <2> QED BY <2>1 DEF Effect
<1>7. CASE UNCHANGED <<adapterVars, callVars>>
  <2>1. noise' \in 0 .. MaxNoise
    BY <1>2 DEF PipeInv, PipeTypes
  <2>2. Silent
    BY <1>2, <1>3, <1>7, <2>1 DEF Silent
  <2> QED BY <2>2 DEF Effect
<1>8. CASE Rejects(c)
  <2>1. Ends(c)
    BY <1>2, <1>3, <1>8 DEF Ends, EndsAnswer, Rejects
  <2> QED BY <2>1 DEF Effect
<1> QED BY <1>1, <1>5, <1>6, <1>7, <1>8 DEF Read

LEMMA ServerHasEffect ==
  ASSUME LinkInv, NEW s \in Server, Serve(s) \/ ServeBadly(s) \/ Chatter(s) \/ Die(s)
  PROVE  Effect
<1> USE DEF LinkInv
<1>1. noise \in 0 .. MaxNoise /\ (noise < MaxNoise => noise + 1 \in 0 .. MaxNoise)
  BY DEF PipeInv, PipeTypes
<1>2. Junk \in Line /\ Raising \in Line
      /\ Junk.what # "answer" /\ Raising.what # "answer"
  BY DEF Junk, Raising, Line
<1>3. ASSUME Takes(s)
      PROVE  \A r \in Server, id \in Id : Ran(r, id) => Ran(r, id)'
  <2>1. PICK k : k = Head(input[s])
    OBVIOUS
  <2> QED BY <1>3, <2>1, TakesFacts
<1>4. CASE Serve(s)
  <2>1. PICK k : k = Head(input[s])
    OBVIOUS
  <2>2. Takes(s)
    BY <1>4 DEF Serve, Takes
  <2>3. k \in Id /\ Ran(s, k)'
    BY <2>1, <2>2, TakesFacts
  <2>4. Answered(k) \in Line /\ Answered(k).what = "answer" /\ Answered(k).id = k
    BY <2>3 DEF Answered, Line, Id
  <2>5. output' = [output EXCEPT ![s] = Append(@, Answered(k))]
    BY <1>4, <2>1 DEF Serve
  <2>6. output' \in [Server -> Seq(Line)] /\ \A r \in Server : AnswersRan(r)'
    <3>1. \A line : line = Answered(k) => (line.what = "answer" => line.id \in Id /\ Ran(s, line.id)')
      BY <2>3, <2>4
    <3> QED BY <1>3, <2>2, <2>4, <2>5, <3>1, LineKeepsAnswers
  <2>7. Works(s)
    BY <1>1, <1>4, <2>2, <2>6 DEF Works, Serve
  <2> QED BY <2>7 DEF Effect
<1>5. CASE ServeBadly(s)
  <2>1. Takes(s) /\ UNCHANGED callVars /\ noise' \in 0 .. MaxNoise
    BY <1>1, <1>5 DEF ServeBadly, Takes
  <2>2. CASE output' = [output EXCEPT ![s] = Append(@, Raising)]
    <3>1. output' \in [Server -> Seq(Line)] /\ \A r \in Server : AnswersRan(r)'
      BY <1>2, <1>3, <2>1, <2>2, LineKeepsAnswers
    <3> QED BY <2>1, <3>1 DEF Works, Effect
  <2>3. CASE output' = output
    <3>1. output' \in [Server -> Seq(Line)]
      BY <2>3 DEF PipeInv, PipeTypes
    <3>2. \A r \in Server : AnswersRan(r)'
      <4> SUFFICES ASSUME NEW r \in Server, NEW i \in DOMAIN output[r],
                          output[r][i].what = "answer", NEW id, id = output[r][i].id
                   PROVE  id \in Id /\ Ran(r, id)'
        BY <2>3 DEF AnswersRan, Ran
      <4>1. id \in Id /\ Ran(r, id)
        BY DEF PipeInv, AnswersRan
      <4> QED BY <1>3, <2>1, <4>1
    <3> QED BY <2>1, <3>1, <3>2 DEF Works, Effect
  <2> QED BY <1>5, <2>2, <2>3 DEF ServeBadly
<1>6. CASE Chatter(s)
  <2>1. PICK line \in {Junk, Raising} : output' = [output EXCEPT ![s] = Append(@, line)]
    BY <1>6 DEF Chatter
  <2>2. UNCHANGED <<callVars, input, ran>> /\ noise' \in 0 .. MaxNoise
    BY <1>1, <1>6 DEF Chatter
  <2>3. \A r \in Server, id \in Id : Ran(r, id) => Ran(r, id)'
    BY <2>2 DEF Ran
  <2>4. output' \in [Server -> Seq(Line)] /\ \A r \in Server : AnswersRan(r)'
    BY <1>2, <2>1, <2>3, LineKeepsAnswers
  <2> QED BY <2>2, <2>4 DEF Silent, Effect
<1>7. CASE Die(s)
  BY <1>1, <1>7, OutputStays DEF Die, Silent, Effect
<1> QED BY <1>4, <1>5, <1>6, <1>7

LEMMA StepHasEffect == LinkInv /\ [Next]_vars => Effect
<1> SUFFICES ASSUME LinkInv, [Next]_vars PROVE Effect
  OBVIOUS
<1> USE DEF LinkInv
<1>1. noise \in 0 .. MaxNoise
  BY DEF PipeInv, PipeTypes
<1>2. ASSUME UNCHANGED <<serverVars, callVars>> PROVE Effect
  BY <1>1, <1>2, OutputStays DEF serverVars, Silent, Effect
<1>3. ASSUME NEW c \in Caller, Fails(c), Holds(c), UNCHANGED <<input, output, ran, noise>>
      PROVE  Effect
  <2>1. Ends(c)
    BY <1>3, OutputStays DEF Ends, EndsAnswer, Fails
  <2> QED BY <2>1 DEF Effect
<1>4. ASSUME NEW c \in Caller, CallTool(c) PROVE Effect
  <2>1. client \in Server
    BY <1>4 DEF CallTool, AdapterInv, Server
  <2>2. Asks(c, client, "tool")
    BY <1>4 DEF CallTool, Asks, serverVars
  <2> QED BY <2>1, <2>2 DEF Effect
<1>5. ASSUME NEW c \in Caller, LaunchServer(c) PROVE Effect
  <2>1. PICK s : s = spawned + 1
    OBVIOUS
  <2>2. s \in Server /\ spawned' = s
    BY <1>5, <2>1 DEF LaunchServer, AdapterInv, Server
  <2>3. Asks(c, s, "launch")
    BY <1>5, <2>2 DEF LaunchServer, Asks
  <2> QED BY <2>2, <2>3 DEF Effect
<1>6. ASSUME NEW c \in Caller, Send(c) PROVE Effect
  <2>1. CASE sent' = sent \union {c}
             /\ input' = [input EXCEPT ![Mine(c)] = Append(@, asks[c].id)]
             /\ UNCHANGED <<adapterVars, asks, kind, lock, lastId, answer>>
    <3>1. Writes(c)
      BY <1>6, <2>1 DEF Send, Writes
    <3> QED BY <3>1 DEF Effect
  <2>2. CASE Mine(c) \notin alive /\ Fails(c) /\ UNCHANGED input
    BY <1>3, <1>6, <2>2 DEF Send
  <2> QED BY <1>6, <2>1, <2>2 DEF Send
<1>7. ASSUME NEW c \in Caller, Read(c) PROVE Effect
  BY <1>7, ReadHasEffect
<1>8. ASSUME NEW c \in Caller, GivesUp(c) PROVE Effect
  BY <1>3, <1>8 DEF GivesUp, serverVars
<1>9. CASE Close
  BY <1>2, <1>9 DEF Close
<1>10. ASSUME NEW s \in Server, Terminated(s) \/ RejectionEnds(s) PROVE Effect
  BY <1>1, <1>10, OutputStays DEF Terminated, RejectionEnds, Silent, Effect
<1>11. ASSUME NEW s \in Server, Serve(s) \/ ServeBadly(s) \/ Chatter(s) \/ Die(s)
       PROVE  Effect
  BY <1>11, ServerHasEffect
<1>12. CASE UNCHANGED vars
  BY <1>2, <1>12 DEF vars
<1> QED BY <1>4, <1>5, <1>6, <1>7, <1>8, <1>9, <1>10, <1>11, <1>12 DEF Next

---------------------------------------------------------------------------
\* A request that ends was made before.
LEMMA EndsAnswerType ==
  ASSUME LockInv, NEW c \in Caller, EndsAnswer(c)
  PROVE  answer' \in [Caller -> Call \union {NoCall}]
  BY DEF EndsAnswer, LockInv, LockTypes

LEMMA LinkStep == LinkInv /\ [Next]_vars => LinkInv'
<1> SUFFICES ASSUME LinkInv, [Next]_vars PROVE LinkInv'
  OBVIOUS
<1> USE DEF LinkInv
<1>1. AdapterInv'
  BY AdapterKeeps
<1>2. Effect
  BY StepHasEffect
<1>3. ASSUME NEW c \in Caller, NEW s \in Server, NEW what \in {"launch", "tool"},
             Asks(c, s, what)
      PROVE  LockInv' /\ PipeInv'
  BY <1>3, RequestKeepsLock, RequestKeepsPipe DEF Asks
<1>4. ASSUME NEW c \in Caller, Ends(c) PROVE LockInv' /\ PipeInv'
  BY <1>4, EndsAnswerType, LeavesKeepsLock, LeavesKeepsPipe DEF Ends
<1>5. ASSUME NEW c \in Caller, Writes(c) PROVE LockInv' /\ PipeInv'
  BY <1>5, SentKeepsLock, SentKeepsPipe DEF Writes
<1>6. ASSUME UNCHANGED callVars PROVE LockInv'
  BY <1>6 DEF callVars, LockInv, LockTypes, WhoWaits, ById, HolderSends, AsksIssued
<1>7. ASSUME NEW s \in Server, Works(s) PROVE LockInv' /\ PipeInv'
  BY <1>6, <1>7, TakesKeepsPipe DEF Works
<1>8. ASSUME Silent PROVE LockInv' /\ PipeInv'
  BY <1>6, <1>8, SilenceKeepsPipe DEF Silent
<1> QED BY <1>1, <1>2, <1>3, <1>4, <1>5, <1>7, <1>8 DEF Effect

LEMMA LinkInvImplies == LinkInv => LinkInvariant
<1> SUFFICES ASSUME LinkInv PROVE LinkInvariant
  OBVIOUS
<1>1. LinkTypeOK
  BY DEF LinkInv, AdapterInv, LockInv, LockTypes, PipeInv, PipeTypes, LinkTypeOK, Id
<1>2. LockIsOrderly
  BY DEF LinkInv, LockInv, LockIsOrderly, WhoWaits, ById, HolderSends, Mine
<1> QED BY <1>1, <1>2 DEF LinkInvariant

\* The callers at a client's lock are those that wait for its server, in the
\* order of their ids, and only the holder's request is written, for any number
\* of callers, servers that are launched, closed and die, and late answers
\* (_jsonrpc_stdio.py, request).
THEOREM LinkIsAlwaysOrderly == Spec => []LinkInvariant
<1>1. Init => LinkInv
  BY LinkInitially
<1>2. LinkInv /\ [Next]_vars => LinkInv'
  BY LinkStep
<1>3. LinkInv => LinkInvariant
  BY LinkInvImplies
<1> QED BY <1>1, <1>2, <1>3, PTL DEF Spec

---------------------------------------------------------------------------
\* A request is a call of the contract that was not made before.
LEMMA AsksIsAsk ==
  ASSUME LockInv, NEW c \in Caller, NEW s \in Server, NEW what, Request(c, s, what), ran' = ran
  PROVE  Contract!Next
<1> DEFINE k == [server |-> s, id |-> lastId[s] + 1]
<1>1. /\ asks[c] = NoCall /\ lastId[s] \in Nat /\ lastId[s] + 1 \in Id
      /\ lastId \in [Server -> Nat]
      /\ lastId' = [lastId EXCEPT ![s] = @ + 1]
      /\ asks' = [asks EXCEPT ![c] = k]
      /\ answer' = [answer EXCEPT ![c] = NoCall]
  BY DEF Request, LockInv, LockTypes, Id
<1>2. k \in Call
  BY <1>1 DEF Call, Id
<1>3. k \notin Issued
  BY <1>1 DEF Issued
<1>4. \A call \in Call : call.id <= lastId'[call.server]
                           <=> call.id <= lastId[call.server] \/ call = k
  <2> SUFFICES ASSUME NEW call \in Call
               PROVE  call.id <= lastId'[call.server]
                        <=> call.id <= lastId[call.server] \/ call = k
    OBVIOUS
  <2>1. call.server \in Server /\ call.id \in Nat
        /\ call = [server |-> call.server, id |-> call.id]
    BY DEF Call
  <2>2. CASE call.server = s
    BY <1>1, <2>1, <2>2
  <2>3. CASE call.server # s
    BY <1>1, <2>1, <2>3
  <2> QED BY <2>2, <2>3
<1>5. Issued' = Issued \union {k}
  BY <1>2, <1>4 DEF Issued
<1>6. Contract!Ask(c, k)
  BY <1>1, <1>2, <1>3, <1>5 DEF Contract!Ask
<1> QED BY <1>2, <1>6 DEF Contract!Next

LEMMA StepKeepsContract ==
  LinkInv /\ [Next]_vars => [Contract!Next]_(Contract!vars)
<1> SUFFICES ASSUME LinkInv, [Next]_vars PROVE [Contract!Next]_(Contract!vars)
  OBVIOUS
<1> USE DEF LinkInv
<1>1. Effect
  BY StepHasEffect
<1>2. ASSUME NEW c \in Caller, NEW s \in Server, NEW what \in {"launch", "tool"},
             Asks(c, s, what)
      PROVE  Contract!Next
  BY <1>2, AsksIsAsk DEF Asks
<1>3. ASSUME NEW c \in Caller, Ends(c) PROVE Contract!Next
  <2>1. /\ asks[c] # NoCall /\ asks' = [asks EXCEPT ![c] = NoCall]
        /\ lastId' = lastId /\ ran' = ran
    BY <1>3 DEF Ends, Holds, Leaves
  <2>2. Issued' = Issued
    BY <2>1 DEF Issued
  <2>3. CASE answer' = answer
    <3>1. Contract!Fail(c)
      BY <2>1, <2>2, <2>3 DEF Contract!Fail
    <3> QED BY <3>1 DEF Contract!Next
  <2>4. CASE ran[asks[c]] = 1 /\ answer' = [answer EXCEPT ![c] = asks[c]]
    <3>1. Contract!Answer(c)
      BY <2>1, <2>2, <2>4 DEF Contract!Answer
    <3> QED BY <3>1 DEF Contract!Next
  <2> QED BY <1>3, <2>3, <2>4 DEF Ends, EndsAnswer
<1>4. ASSUME UNCHANGED <<asks, lastId, ran, answer>> PROVE UNCHANGED Contract!vars
  BY <1>4 DEF Contract!vars, Issued
<1>5. ASSUME NEW c \in Caller, Writes(c) PROVE UNCHANGED Contract!vars
  BY <1>4, <1>5 DEF Writes
<1>6. ASSUME NEW s \in Server, Works(s) PROVE Contract!Next
  <2>1. PICK k : k = Head(input[s])
    OBVIOUS
  <2> DEFINE call == [server |-> s, id |-> k]
  <2>2. /\ k \in Id /\ ran[call] = 0 /\ Passed(s, k)
        /\ ran' = [ran EXCEPT ![call] = 1]
    BY <1>6, <2>1, TakesFacts DEF Works
  <2>3. asks' = asks /\ answer' = answer /\ lastId' = lastId
    BY <1>6 DEF Works, callVars
  <2>4. call \in Issued
    BY <2>2 DEF Issued, Call, Id, PipeInv, PassedIssued
  <2>5. Contract!CarryOut(call)
    BY <2>2, <2>3, <2>4 DEF Contract!CarryOut, Issued
  <2>6. call \in Call
    BY <2>4 DEF Issued
  <2> QED BY <2>5, <2>6 DEF Contract!Next
<1>7. ASSUME Silent PROVE UNCHANGED Contract!vars
  BY <1>4, <1>7 DEF Silent, callVars
<1> QED BY <1>1, <1>2, <1>3, <1>5, <1>6, <1>7 DEF Effect

LEMMA InitKeepsContract == Init => Contract!Init
  BY DEF Init, Contract!Init, Issued, Call

\* The line to a server implements the contract of its callers: a call is
\* carried out at most once, an answer is its call's own and comes after it was
\* carried out, whatever times out, dies, is closed or launched meanwhile
\* (_jsonrpc_stdio.py, request, and mcp_server.py, run_stdio).
THEOREM LinkImplementsContract == Spec => LinkKeepsContract
<1>1. Init => LinkInv /\ Contract!Init
  BY LinkInitially, InitKeepsContract
<1>2. LinkInv /\ [Next]_vars => LinkInv'
  BY LinkStep
<1>3. LinkInv /\ [Next]_vars => [Contract!Next]_(Contract!vars)
  BY StepKeepsContract
<1> QED BY <1>1, <1>2, <1>3, PTL DEF Spec, LinkKeepsContract, Contract!Spec

=============================================================================
