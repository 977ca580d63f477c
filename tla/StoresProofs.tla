---------------------------- MODULE StoresProofs ----------------------------
(***************************************************************************)
(* What the stores of the repository promise, for any names, keys and      *)
(* bounds: the session directories keep a restricted account's data in     *)
(* quarantine, cookies that were cleared stay out, a checkpoint that was   *)
(* reported can be read back, and the rotation of one session's proxy      *)
(* touches no other. The four components share no state; each is proved    *)
(* about under its own specification, and the specification of the four    *)
(* together implements each of them.                                       *)
(***************************************************************************)
EXTENDS MCStores, SequenceTheorems, FiniteSetTheorems, TLAPS

---------------------------------------------------------------------------
(***************************************************************************)
(* SessionDirs. The types are inductive by themselves, and of two          *)
(* successive states of a directory with its type the quarantine is a      *)
(* matter of one step: what it does to meta.json and what to the data.     *)
(***************************************************************************)
\* The session directories. What a step does to one directory: its data and
\* the flags that stay.
QuarantineHolds(s) ==
    Flagged(s) /\ Tainted(s) /\ Tainted(s)' => Flagged(s)' \/ ~ Readable(s)'

\* The marks of a metadata file are none of its contents.
LEMMA DirFlags ==
  /\ NoDir.exists = FALSE
  /\ "compromised" \notin Missing /\ "compromised" \notin Torn
  /\ Missing \notin Meta /\ Torn \notin Meta
  BY DEF NoDir, Missing, Torn, Meta

\* A directory that exists has the fields of one.
LEMMA DirOf ==
  ASSUME DirTypeOK, NEW s \in Session
  PROVE  /\ Exists(s) => dir[s] \in Dir
         /\ ~ Exists(s) => dir[s] = NoDir
<1>1. dir[s] = NoDir \/ dir[s] \in Dir
  BY DEF DirTypeOK
<1>2. ~ NoDir.exists /\ \A d \in Dir : d.exists
  BY DEF NoDir, Dir
<1> QED BY <1>1, <1>2 DEF Exists

\* create_session makes a directory.
LEMMA MadeIsDir ==
  ASSUME DirTypeOK, NEW s \in Session
  PROVE  Made(s) \in Dir
  BY DirOf DEF Made, Dir

\* A write of meta.json changes one directory, whose data it leaves as the
\* caller prepared it; broken off, it leaves the old meta.json or a torn one.
LEMMA WriteMetaEffect ==
  ASSUME DirTypeOK, NEW s \in Session, NEW d \in Dir, NEW meta \in Meta,
         WriteMeta(s, d, meta)
  PROVE  /\ dir' \in [Session -> {NoDir} \union Dir]
         /\ \A r \in Session \ {s} : dir'[r] = dir[r]
         /\ dir'[s] \in Dir /\ dir'[s].data = d.data
         /\ dir'[s].meta \in {meta, d.meta, Torn}
         /\ dead' \in BOOLEAN /\ broken' \in 0 .. MaxBroken
<1>1. PICK m \in {meta, d.meta, Torn} : dir' = [dir EXCEPT ![s] = [d EXCEPT !.meta = m]]
  BY DEF WriteMeta
<1> DEFINE e == [d EXCEPT !.meta = m]
<1>2. e \in Dir /\ e.data = d.data /\ e.meta = m
  BY <1>1 DEF Dir
<1>3. dir' = [dir EXCEPT ![s] = e]
  BY <1>1
<1>4. dead' \in BOOLEAN /\ broken' \in 0 .. MaxBroken
  <2>1. broken \in 0 .. MaxBroken /\ dead \in BOOLEAN
    BY DEF DirTypeOK
  <2>2. \/ dead' = dead /\ broken' = broken
        \/ broken < MaxBroken /\ dead' \in BOOLEAN /\ broken' = broken + 1
    BY DEF WriteMeta, Breaks
  <2>3. broken' \in 0 .. MaxBroken
    BY <2>1, <2>2, DirAssumption
  <2>4. dead' \in BOOLEAN
    BY <2>1, <2>2
  <2> QED BY <2>3, <2>4
<1> HIDE DEF e
<1> QED BY <1>1, <1>2, <1>3, <1>4 DEF DirTypeOK

\* A directory that nothing touches keeps its flag.
LEMMA UntouchedHolds ==
  ASSUME NEW s \in Session, dir'[s] = dir[s]
  PROVE  QuarantineHolds(s)
  BY DEF QuarantineHolds, Flagged, Exists

LEMMA CreateSessionStep ==
  ASSUME DirTypeOK, NEW s \in Session, NEW anonymous \in BOOLEAN, NEW ephemeral \in BOOLEAN,
         NEW browser \in BOOLEAN, CreateSession(s, anonymous, ephemeral, browser)
  PROVE  DirTypeOK' /\ \A r \in Session : QuarantineHolds(r)
<1> DEFINE meta == {f \in {"ephemeral"} : ephemeral} \union
                   {f \in {"anonymous"} : anonymous} \union Preserved(s)
<1>1. meta \in Meta
  BY DEF Preserved, Meta
<1>2. WriteMeta(s, Made(s), meta)
  BY DEF CreateSession
<1>3. /\ dir' \in [Session -> {NoDir} \union Dir]
      /\ \A r \in Session \ {s} : dir'[r] = dir[r]
      /\ dir'[s] \in Dir /\ dir'[s].meta \in {meta, Made(s).meta, Torn}
      /\ dead' \in BOOLEAN /\ broken' \in 0 .. MaxBroken
  <2> HIDE DEF meta
  <2> QED BY <1>1, <1>2, MadeIsDir, WriteMetaEffect
<1>4. user' \subseteq Session
  BY DEF CreateSession, DirTypeOK
<1>5. QuarantineHolds(s)
  <2>1. CASE ~ Flagged(s)
    BY <2>1 DEF QuarantineHolds
  <2>2. CASE Flagged(s)
    <3>1. "compromised" \in meta /\ "compromised" \in Made(s).meta
      BY <2>2 DEF Preserved, Flagged, Made
    <3>2. CASE dir'[s].meta = Torn
      BY <3>2, DirFlags DEF QuarantineHolds, Readable
    <3>3. CASE dir'[s].meta \in {meta, Made(s).meta}
      <4>1. "compromised" \in dir'[s].meta
        BY <3>1, <3>3
      <4>2. dir'[s].exists
        BY <1>3 DEF Dir
      <4> QED BY <4>1, <4>2 DEF QuarantineHolds, Flagged, Exists
    <3> QED BY <1>3, <3>2, <3>3
  <2> QED BY <2>1, <2>2
<1>6. \A r \in Session : QuarantineHolds(r)
  BY <1>3, <1>5, UntouchedHolds
<1> QED BY <1>3, <1>4, <1>6 DEF DirTypeOK

LEMMA StoreDataStep ==
  ASSUME DirTypeOK, NEW s \in Session, StoreData(s)
  PROVE  DirTypeOK' /\ \A r \in Session : QuarantineHolds(r)
<1>1. dir[s] \in Dir
  BY DirOf DEF StoreData
<1> DEFINE e == [dir[s] EXCEPT !.data = "good"]
<1>2. e \in Dir /\ e.data # "tainted"
  BY <1>1 DEF Dir
<1>3. dir' = [dir EXCEPT ![s] = e]
  BY DEF StoreData
<1> HIDE DEF e
<1>4. DirTypeOK'
  BY <1>2, <1>3 DEF StoreData, DirTypeOK
<1>5. dir'[s] = e /\ \A r \in Session \ {s} : dir'[r] = dir[r]
  BY <1>3 DEF DirTypeOK
<1>6. QuarantineHolds(s)
  BY <1>2, <1>5 DEF QuarantineHolds, Tainted
<1> QED BY <1>4, <1>5, <1>6, UntouchedHolds

\* What is left of a directory: a flag only goes with meta.json.
LEMMA RemovedLeaves ==
  ASSUME NEW d \in Dir, NEW stays \in Stays
  PROVE  /\ Removed(d, stays) \in {NoDir} \union Dir
         /\ Removed(d, stays).exists => Removed(d, stays).meta \in {d.meta, Missing}
<1>1. CASE stays = {}
  BY <1>1 DEF Removed, NoDir
<1>2. CASE stays # {}
  <2> DEFINE m == IF "meta" \in stays THEN d.meta ELSE Missing
             t == IF "data" \in stays THEN d.data ELSE "none"
  <2>1. Removed(d, stays) = [d EXCEPT !.meta = m, !.data = t]
    BY <1>2 DEF Removed
  <2>2. m \in {d.meta, Missing} /\ m \in {Missing, Torn} \union Meta
    BY DEF Dir
  <2>3. t \in {"none", "good", "tainted"}
    BY DEF Dir
  <2> HIDE DEF m, t
  <2> QED BY <2>1, <2>2, <2>3 DEF Dir
<1> QED BY <1>1, <1>2

LEMMA CleanupSessionStep ==
  ASSUME DirTypeOK, NEW s \in Session, NEW removeDir \in BOOLEAN, CleanupSession(s, removeDir)
  PROVE  DirTypeOK' /\ \A r \in Session : QuarantineHolds(r)
<1> DEFINE soiled == [dir[s] EXCEPT !.data = IF @ = "none" THEN @ ELSE "tainted"]
           flags == IF Readable(s) THEN dir[s].meta \union {"compromised"} ELSE dir[s].meta
           marked == [soiled EXCEPT !.meta = IF Readable(s) THEN @ \union {"compromised"}
                                              ELSE @]
           all == {"dir", "meta", "data"}
<1>1. dir[s] \in Dir /\ dir[s].exists
  BY DirOf DEF CleanupSession, Exists
<1>2. soiled \in Dir /\ soiled.meta = dir[s].meta
  BY <1>1 DEF Dir
<1>3. Readable(s) => flags \in Meta
  BY DEF Readable, Meta
<1>4. flags \in {Missing, Torn} \union Meta
  BY <1>1, <1>3 DEF Dir
<1>5. Flagged(s) => "compromised" \in flags /\ "compromised" \in dir[s].meta
  BY DEF Flagged
\* The directory with one of these meta.json's, or what is removed of that.
<1>6. PICK m \in {flags, dir[s].meta, Torn} :
        LET d == [soiled EXCEPT !.meta = m] IN
        \/ \E stays \in Stays : dir' = [dir EXCEPT ![s] = Removed(d, stays)]
        \/ dir' = [dir EXCEPT ![s] = d]
  <2>1. marked = [soiled EXCEPT !.meta = flags]
    BY <1>2
  <2>2. all \in Stays
    BY DEF Stays
  <2>3. CASE /\ \E stays \in IF removeDir THEN Stays ELSE {all} :
                  dir' = [dir EXCEPT ![s] = Removed(marked, stays)]
             /\ UNCHANGED <<dead, broken>>
    <3> HIDE DEF soiled, flags, marked, all
    <3> QED BY <2>1, <2>2, <2>3
  <2>4. CASE \E m \in {dir[s].meta, Torn} :
               LET d == [soiled EXCEPT !.meta = m] IN
               \/ /\ Breaks({FALSE})
                  /\ \E stays \in IF removeDir THEN Stays ELSE {all} :
                        dir' = [dir EXCEPT ![s] = Removed(d, stays)]
               \/ Breaks({TRUE}) /\ dir' = [dir EXCEPT ![s] = d]
    <3> HIDE DEF soiled, flags, marked, all
    <3> QED BY <2>2, <2>4
  <2> QED BY <2>3, <2>4 DEF CleanupSession
<1>7. dead' \in BOOLEAN /\ broken' \in 0 .. MaxBroken
  <2>1. broken \in 0 .. MaxBroken /\ dead \in BOOLEAN
    BY DEF DirTypeOK
  <2>2. \/ dead' = dead /\ broken' = broken
        \/ broken < MaxBroken /\ dead' \in BOOLEAN /\ broken' = broken + 1
    BY DEF CleanupSession, Breaks
  <2>3. broken' \in 0 .. MaxBroken
    BY <2>1, <2>2, DirAssumption
  <2> QED BY <2>1, <2>2, <2>3
<1> HIDE DEF soiled, flags, marked
<1>10. /\ dir' \in [Session -> {NoDir} \union Dir]
       /\ \A r \in Session \ {s} : dir'[r] = dir[r]
       /\ dir'[s].exists => dir'[s].meta \in {flags, dir[s].meta, Torn, Missing}
  <2> DEFINE d == [soiled EXCEPT !.meta = m]
  <2>1. d \in Dir /\ d.meta = m
    BY <1>1, <1>2, <1>4, <1>6 DEF Dir
  <2> HIDE DEF d
  <2> DEFINE Becomes(e) == /\ dir' = [dir EXCEPT ![s] = e]
                           /\ e.exists => e.meta \in {m, Missing}
  <2>2. PICK e \in {NoDir} \union Dir : Becomes(e)
    <3>1. CASE dir' = [dir EXCEPT ![s] = d]
      BY <2>1, <3>1
    <3>2. ASSUME NEW stays \in Stays, dir' = [dir EXCEPT ![s] = Removed(d, stays)]
          PROVE  \E e \in {NoDir} \union Dir : Becomes(e)
      BY <2>1, <3>2, RemovedLeaves
    <3> QED BY <1>6, <3>1, <3>2 DEF d
  <2> QED BY <1>6, <2>2 DEF DirTypeOK
<1>8. QuarantineHolds(s)
  <2>1. CASE dir'[s].exists /\ dir'[s].meta \in {flags, dir[s].meta} /\ Flagged(s)
    BY <1>5, <2>1 DEF QuarantineHolds, Flagged, Exists
  <2>2. CASE ~ dir'[s].exists \/ dir'[s].meta \in {Torn, Missing}
    BY <2>2, DirFlags DEF QuarantineHolds, Readable, Exists
  <2>3. CASE ~ Flagged(s)
    BY <2>3 DEF QuarantineHolds
  <2> QED BY <1>10, <2>1, <2>2, <2>3
<1>9. user' \subseteq Session
  BY DEF CleanupSession, DirTypeOK
<1> QED BY <1>7, <1>8, <1>9, <1>10, UntouchedHolds DEF DirTypeOK

LEMMA PruneEphemeralStep ==
  ASSUME DirTypeOK, NEW old \in SUBSET Session, PruneEphemeral(old)
  PROVE  DirTypeOK' /\ \A r \in Session : QuarantineHolds(r)
<1> DEFINE gone == {s \in old : Exists(s) /\ "ephemeral" \in dir[s].meta}
<1>1. PICK stays \in [gone -> Stays] :
        dir' = [s \in Session |-> IF s \in gone THEN Removed(dir[s], stays[s]) ELSE dir[s]]
  BY DEF PruneEphemeral
<1>2. ASSUME NEW s \in Session
      PROVE  dir'[s] \in {NoDir} \union Dir /\ QuarantineHolds(s)
  <2>1. CASE s \in gone
    <3>1. dir[s] \in Dir
      BY <2>1, DirOf
    <3>2. dir'[s] = Removed(dir[s], stays[s]) /\ stays[s] \in Stays
      BY <1>1, <2>1
    <3>3. /\ dir'[s] \in {NoDir} \union Dir
          /\ dir'[s].exists => dir'[s].meta \in {dir[s].meta, Missing}
      BY <3>1, <3>2, RemovedLeaves
    <3>4. CASE ~ dir'[s].exists \/ dir'[s].meta = Missing
      BY <3>3, <3>4, DirFlags DEF QuarantineHolds, Readable, Exists
    <3>5. CASE dir'[s].exists /\ dir'[s].meta = dir[s].meta
      BY <3>3, <3>5 DEF QuarantineHolds, Flagged, Exists
    <3> QED BY <3>3, <3>4, <3>5
  <2>2. CASE s \notin gone
    <3>1. dir'[s] = dir[s]
      BY <1>1, <2>2
    <3> QED BY <3>1, UntouchedHolds DEF DirTypeOK
  <2> QED BY <2>1, <2>2
<1>3. dir' \in [Session -> {NoDir} \union Dir]
  BY <1>1, <1>2
<1> QED BY <1>2, <1>3 DEF PruneEphemeral, DirTypeOK

LEMMA CloneSessionStep ==
  ASSUME DirTypeOK, NEW source \in Session, NEW new \in Session, CloneSession(source, new)
  PROVE  DirTypeOK' /\ \A r \in Session : QuarantineHolds(r)
<1> DEFINE anonymous == "anonymous" \in dir[source].meta
           meta == {f \in {"anonymous"} : anonymous}
           copy == [Made(new) EXCEPT !.meta = meta, !.data = dir[source].data]
<1>1. dir[source] \in Dir
  BY DirOf DEF CloneSession, Readable
<1>2. Made(new) \in Dir
  BY MadeIsDir
<1>4. meta \in Meta
  BY DEF Meta
<1>3. copy \in Dir
  <2> HIDE DEF meta
  <2> QED BY <1>1, <1>2, <1>4 DEF Dir
<1>5. WriteMeta(new, copy, meta) \/ WriteMeta(new, Made(new), meta)
  BY DEF CloneSession
<1>6. ~ Flagged(new)
  BY DEF CloneSession, Flagged
<1>7. user' \subseteq Session
  BY DEF CloneSession, DirTypeOK
<1> HIDE DEF copy, meta
<1>8. /\ dir' \in [Session -> {NoDir} \union Dir]
      /\ \A r \in Session \ {new} : dir'[r] = dir[r]
      /\ dead' \in BOOLEAN /\ broken' \in 0 .. MaxBroken
  BY <1>2, <1>3, <1>4, <1>5, WriteMetaEffect
<1>9. QuarantineHolds(new)
  BY <1>6 DEF QuarantineHolds
<1> QED BY <1>7, <1>8, <1>9, UntouchedHolds DEF DirTypeOK

LEMMA DirStep ==
  DirTypeOK /\ [DirNext]_dirVars => DirTypeOK' /\ \A s \in Session : QuarantineHolds(s)
<1> SUFFICES ASSUME DirTypeOK, [DirNext]_dirVars
             PROVE  DirTypeOK' /\ \A s \in Session : QuarantineHolds(s)
  OBVIOUS
<1>1. CASE \E s \in Session, anonymous, ephemeral, browser \in BOOLEAN :
             CreateSession(s, anonymous, ephemeral, browser)
  BY <1>1, CreateSessionStep
<1>2. CASE \E s \in Session : StoreData(s)
  BY <1>2, StoreDataStep
<1>3. CASE \E s \in Session, removeDir \in BOOLEAN : CleanupSession(s, removeDir)
  BY <1>3, CleanupSessionStep
<1>4. CASE \E old \in SUBSET Session : PruneEphemeral(old)
  BY <1>4, PruneEphemeralStep
<1>5. CASE \E source, new \in Session : CloneSession(source, new)
  BY <1>5, CloneSessionStep
<1>6. CASE (\E s \in Session : CloseBrowser(s)) \/ DirRestart \/ UNCHANGED dirVars
  <2>1. dir' = dir /\ DirTypeOK'
    BY <1>6 DEF CloseBrowser, DirRestart, dirVars, DirTypeOK
  <2> QED BY <2>1, UntouchedHolds
<1> QED BY <1>1, <1>2, <1>3, <1>4, <1>5, <1>6 DEF DirNext

LEMMA DirInitially == DirInit => DirTypeOK
<1> SUFFICES ASSUME DirInit PROVE DirTypeOK
  OBVIOUS
<1>1. 0 \in 0 .. MaxBroken
  BY DirAssumption
<1>2. dir \in [Session -> {NoDir} \union Dir]
  <2> HIDE DEF NoDir
  <2> QED BY DEF DirInit
<1> QED BY <1>1, <1>2 DEF DirInit, DirTypeOK

\* The directories, the browsers in them and the broken writes have their types.
THEOREM DirTypesHold == DirSpec => []DirTypeOK
  BY DirInitially, DirStep, PTL DEF DirSpec

\* No step of any session, and no death in the middle of one, takes the flag
\* off a directory that keeps tainted data, unless its meta.json is torn or
\* gone.
THEOREM QuarantineOfData == DirSpec => OnlyDamageLiftsQuarantine
<1>1. DirTypeOK /\ [DirNext]_dirVars =>
        [\A s \in Session : Flagged(s) /\ Tainted(s) /\ Tainted(s)' =>
            Flagged(s)' \/ ~ Readable(s)']_dirVars
  BY DirStep DEF QuarantineHolds
<1> QED BY <1>1, DirTypesHold, PTL DEF DirSpec, OnlyDamageLiftsQuarantine

---------------------------------------------------------------------------
(***************************************************************************)
(* CookieStore. With the types, that cleared cookies stay out of the       *)
(* context in use and of the manager's list is inductive: the list that a  *)
(* save refreshes comes from that context, and the managers of sessions    *)
(* hand nothing on but what is brought in on purpose.                      *)
(***************************************************************************)
Ctx == [state : {"none", "live", "crashed"}, jar : SUBSET Cookie]
AnyManager == Manager \union {NoManager}
Files == {NoFile, TornFile} \union Saved

CookieInv == CookieTypeOK /\ CleanedStaysOut

\* The context and a manager's list, in this state and the next.
CleanCtx == Live => ctx.jar \intersect tainted = {}
CleanList == manager.list \intersect tainted = {}

\* A manager has cookies; one that is there is no NoManager.
LEMMA ManagerFacts ==
  /\ NoManager \notin Manager
  /\ \A m \in AnyManager : m.list \subseteq Cookie
  /\ \A m \in AnyManager : m.context = "current" => m \in Manager
  /\ \A m \in AnyManager : m # NoManager => m \in Manager
  /\ NoManager.list = {} /\ NoManager.context # "current"
<1>1. NoManager.list = {} /\ NoManager.context = "no manager"
  BY DEF NoManager
<1>2. \A m \in Manager : m.list \subseteq Cookie /\ m.context # "no manager"
  BY DEF Manager
<1> QED BY <1>1, <1>2 DEF AnyManager

\* A manager with other cookies.
LEMMA WithList ==
  ASSUME NEW m \in Manager, NEW data \in SUBSET Cookie
  PROVE  [m EXCEPT !.list = data] \in Manager /\ [m EXCEPT !.list = data].list = data
         /\ [m EXCEPT !.list = data].context = m.context
  BY DEF Manager

\* A manager with another context.
LEMMA WithContext ==
  ASSUME NEW m \in Manager, NEW c \in {"current", "closed", "none"}
  PROVE  [m EXCEPT !.context = c] \in Manager /\ [m EXCEPT !.context = c].list = m.list
  BY DEF Manager

\* A manager that was just made.
LEMMA NewManager ==
  ASSUME NEW data \in SUBSET Cookie, NEW c \in {"current", "closed", "none"}
  PROVE  [list |-> data, context |-> c] \in Manager
  BY DEF Manager

\* A file that was written whole has its fields.
LEMMA SavedFile ==
  ASSUME CookieTypeOK, NEW p \in Path, file[p].state = "saved"
  PROVE  file[p] \in Saved
<1>1. file[p] \in {NoFile, TornFile} \union Saved
  BY DEF CookieTypeOK
<1>2. NoFile.state # "saved" /\ TornFile.state # "saved"
  BY DEF NoFile, TornFile
<1> QED BY <1>1, <1>2

\* add_cookies leaves the state of the context and adds to its jar at most
\* what is given.
LEMMA AddedEffect ==
  ASSUME CookieTypeOK, NEW m, NEW data \in SUBSET Cookie
  PROVE  /\ Added(m, data) \in Ctx /\ Added(m, data).state = ctx.state
         /\ Added(m, data).jar \subseteq ctx.jar \union data
<1>1. ctx \in Ctx
  BY DEF CookieTypeOK, Ctx
<1> DEFINE c == [ctx EXCEPT !.jar = @ \union data]
<1>2. c \in Ctx /\ c.state = ctx.state /\ c.jar = ctx.jar \union data
  BY <1>1 DEF Ctx
<1>3. Added(m, data) \in {c, ctx}
  BY DEF Added
<1> HIDE DEF c
<1> QED BY <1>1, <1>2, <1>3

\* What a manager reads from its context is as clean as the context.
LEMMA RefreshedEffect ==
  ASSUME CookieTypeOK, CleanedStaysOut, NEW m \in AnyManager, m.list \intersect tainted = {}
  PROVE  /\ Refreshed(m) \in AnyManager /\ Refreshed(m).list \intersect tainted = {}
         /\ m \in Manager => Refreshed(m) \in Manager
<1>1. ctx \in Ctx /\ ctx.jar \subseteq Cookie
  BY DEF CookieTypeOK, Ctx
<1>2. CASE m.context = "current" /\ Live
  <2>1. m \in Manager
    BY <1>2, ManagerFacts
  <2>2. Refreshed(m) = [m EXCEPT !.list = ctx.jar]
    BY <1>2 DEF Refreshed
  <2>3. Refreshed(m) \in Manager /\ Refreshed(m).list = ctx.jar
    BY <1>1, <2>1, <2>2, WithList
  <2> QED BY <1>2, <2>3 DEF CleanedStaysOut, AnyManager
<1>3. CASE ~ (m.context = "current" /\ Live)
  BY <1>3 DEF Refreshed
<1> QED BY <1>2, <1>3

\* A manager whose context is gone keeps its cookies.
LEMMA UnboundEffect ==
  ASSUME NEW m \in AnyManager
  PROVE  Unbound(m) \in AnyManager /\ Unbound(m).list = m.list
<1>1. CASE m.context = "current"
  <2>1. m \in Manager
    BY <1>1, ManagerFacts
  <2> QED BY <1>1, <2>1, WithContext DEF Unbound, AnyManager
<1>2. CASE m.context # "current"
  BY <1>2 DEF Unbound
<1> QED BY <1>1, <1>2

\* A write leaves the content, unless the process dies in it.
LEMMA WriteEffect ==
  ASSUME CookieTypeOK, NEW p \in Path, NEW content \in Saved, Write(p, content)
  PROVE  /\ file' \in [Path -> Files] /\ down' \in BOOLEAN /\ faults' \in 0 .. MaxFaults
         /\ ~ down /\ ~ down' => file'[p] = content
<1>1. file \in [Path -> Files] /\ down \in BOOLEAN /\ faults \in 0 .. MaxFaults
  BY DEF CookieTypeOK, Files
<1>2. CASE file' = [file EXCEPT ![p] = content] /\ UNCHANGED <<down, faults>>
  <2>1. content \in Files
    BY DEF Files
  <2> QED BY <1>1, <1>2, <2>1
<1>3. CASE /\ faults < MaxFaults
           /\ file' = [file EXCEPT ![p] = TornFile]
           /\ down' = TRUE /\ faults' = faults + 1
  <2>1. file' \in [Path -> Files]
    <3>1. TornFile \in Files
      BY DEF Files
    <3> QED BY <1>1, <1>3, <3>1
  <2>2. faults' \in 0 .. MaxFaults
    BY <1>1, <1>3, CookieAssumption
  <2> QED BY <1>3, <2>1, <2>2
<1> QED BY <1>2, <1>3 DEF Write

\* A step whose parts are known to have their types and to be clean.
LEMMA Together ==
  ASSUME ctx' \in Ctx, manager' \in AnyManager,
         orch' \in [cms : [Name -> AnyManager], active : SUBSET Name],
         file' \in [Path -> Files], tainted' \subseteq Cookie,
         down' \in BOOLEAN, faults' \in 0 .. MaxFaults,
         CleanCtx', CleanList'
  PROVE  CookieInv'
  BY DEF CookieInv, CookieTypeOK, CleanedStaysOut, CleanCtx, CleanList, Ctx, AnyManager, Files

\* The types of the parts of the invariant.
LEMMA Parts ==
  ASSUME CookieInv
  PROVE  /\ ctx \in Ctx /\ manager \in AnyManager
         /\ orch \in [cms : [Name -> AnyManager], active : SUBSET Name]
         /\ orch.cms \in [Name -> AnyManager] /\ orch.active \subseteq Name
         /\ file \in [Path -> Files] /\ tainted \subseteq Cookie
         /\ down \in BOOLEAN /\ faults \in 0 .. MaxFaults
         /\ CleanCtx /\ CleanList
  BY DEF CookieInv, CookieTypeOK, CleanedStaysOut, CleanCtx, CleanList, Ctx, AnyManager, Files

---------------------------------------------------------------------------
\* What is brought in from a page, a file or a bundle is not tainted any more.
LEMMA BroughtIn ==
  ASSUME CookieInv, NEW m, NEW data \in SUBSET Cookie,
         ctx' = Added(m, data), tainted' = tainted \ data
  PROVE  ctx' \in Ctx /\ CleanCtx' /\ tainted' \subseteq Cookie
<1>1. CookieTypeOK /\ CleanCtx /\ tainted \subseteq Cookie
  BY Parts DEF CookieInv
<1>2. ctx' \in Ctx /\ ctx'.state = ctx.state /\ ctx'.jar \subseteq ctx.jar \union data
  BY <1>1, AddedEffect
<1> QED BY <1>1, <1>2 DEF CleanCtx, Live

LEMMA LaunchContextStep == CookieInv /\ LaunchContext => CookieInv'
<1> SUFFICES ASSUME CookieInv, LaunchContext PROVE CookieInv'
  OBVIOUS
<1>1. ctx' \in Ctx /\ CleanCtx'
  BY DEF LaunchContext, Ctx, CleanCtx
<1> QED BY <1>1, Parts, Together DEF LaunchContext, NoWrite, CleanList

LEMMA PageSetsStep ==
  ASSUME CookieInv, NEW c \in Cookie, PageSets(c)
  PROVE  CookieInv'
<1> DEFINE new == [ctx EXCEPT !.jar = @ \union {c}]
<1>1. new \in Ctx /\ new.state = ctx.state /\ new.jar = ctx.jar \union {c}
  BY Parts DEF Ctx
<1>2. ctx' = new /\ tainted' = tainted \ {c}
  BY DEF PageSets
<1> HIDE DEF new
<1>3. CleanCtx' /\ CleanList'
  BY <1>1, <1>2, Parts DEF CleanCtx, CleanList, Live, PageSets
<1> QED BY <1>1, <1>2, <1>3, Parts, Together DEF PageSets, NoWrite

LEMMA ContextCrashesStep == CookieInv /\ ContextCrashes => CookieInv'
<1> SUFFICES ASSUME CookieInv, ContextCrashes PROVE CookieInv'
  OBVIOUS
<1>1. ctx' \in Ctx /\ CleanCtx'
  BY Parts DEF ContextCrashes, Ctx, CleanCtx, Live
<1>2. faults' \in 0 .. MaxFaults
  <2>1. faults \in 0 .. MaxFaults
    BY Parts
  <2> QED BY <2>1, CookieAssumption DEF ContextCrashes
<1> QED BY <1>1, <1>2, Parts, Together DEF ContextCrashes, CleanList

LEMMA CloseContextStep == CookieInv /\ CloseContext => CookieInv'
<1> SUFFICES ASSUME CookieInv, CloseContext PROVE CookieInv'
  OBVIOUS
<1>1. ctx' \in Ctx /\ CleanCtx'
  BY DEF CloseContext, NoContext, Ctx, CleanCtx, Live
<1>2. manager' \in AnyManager /\ manager'.list = manager.list
  BY Parts, UnboundEffect DEF CloseContext
<1> DEFINE cms == [n \in Name |-> Unbound(orch.cms[n])]
<1>3. cms \in [Name -> AnyManager]
  BY Parts, UnboundEffect
<1>4. orch' = [orch EXCEPT !.cms = cms]
  BY DEF CloseContext
<1> HIDE DEF cms
<1>5. orch' \in [cms : [Name -> AnyManager], active : SUBSET Name]
  BY <1>3, <1>4, Parts
<1> QED BY <1>1, <1>2, <1>5, Parts, Together DEF CloseContext, NoWrite, CleanList

\* A new orchestrator has no managers.
LEMMA NoOrchIsOrch == NoOrch \in [cms : [Name -> AnyManager], active : SUBSET Name]
  BY DEF NoOrch, AnyManager

\* What a filter leaves are cookies.
LEMMA FilteredIsCookies ==
  ASSUME NEW data \in SUBSET Cookie, NEW allowed
  PROVE  Filtered(data, allowed) \in SUBSET Cookie
  BY DEF Filtered

LEMMA LoadCookiesFromFileStep ==
  ASSUME CookieInv, NEW key \in AnyKey, NEW allowed \in BOOLEAN,
         LoadCookiesFromFile(key, allowed)
  PROVE  CookieInv'
<1> DEFINE data == Filtered(file["cookies"].data, allowed)
           new == [list |-> {}, context |-> "current"]
<1>1. file' = file /\ down' = down /\ faults' = faults
  BY DEF LoadCookiesFromFile, NoWrite
<1>2. CASE Reads("cookies", key)
  <2>1. file["cookies"] \in Saved
    BY <1>2, SavedFile DEF CookieInv, Reads, Path
  <2>2. data \in SUBSET Cookie
    BY <2>1, FilteredIsCookies DEF Saved
  <2>3. manager' = [new EXCEPT !.list = data]
    BY <1>2 DEF LoadCookiesFromFile
  <2>4. ctx' = Added(new, data) /\ tainted' = tainted \ data /\ orch' \in {orch, NoOrch}
    BY <1>2 DEF LoadCookiesFromFile
  <2>5. new \in Manager
    BY NewManager
  <2> HIDE DEF data, new
  <2>6. manager' \in Manager /\ manager'.list = data
    BY <2>2, <2>3, <2>5, WithList
  <2>7. ctx' \in Ctx /\ CleanCtx' /\ tainted' \subseteq Cookie
    BY <2>2, <2>4, BroughtIn
  <2>8. CleanList' /\ manager' \in AnyManager
    BY <2>4, <2>6 DEF CleanList, AnyManager
  <2> QED BY <1>1, <2>4, <2>7, <2>8, NoOrchIsOrch, Parts, Together
<1>3. CASE ~ Reads("cookies", key)
  <2>1. manager' = new /\ UNCHANGED <<ctx, orch, tainted>>
    BY <1>3 DEF LoadCookiesFromFile
  <2>2. manager' \in AnyManager /\ manager'.list = {}
    BY <2>1, NewManager DEF AnyManager
  <2> QED BY <1>1, <2>1, <2>2, Parts, Together DEF CleanCtx, CleanList, Live
<1> QED BY <1>2, <1>3

LEMMA LoadCookiesFromDataStep ==
  ASSUME CookieInv, NEW data \in SUBSET Cookie, LoadCookiesFromData(data)
  PROVE  CookieInv'
<1>1. manager \in Manager
  BY Parts, ManagerFacts DEF LoadCookiesFromData, HasManager
<1>2. manager' \in Manager /\ manager'.list = data
  BY <1>1, WithList DEF LoadCookiesFromData
<1>3. ctx' \in Ctx /\ CleanCtx' /\ tainted' \subseteq Cookie
  BY BroughtIn DEF LoadCookiesFromData
<1>4. CleanList' /\ manager' \in AnyManager
  BY <1>2 DEF CleanList, AnyManager, LoadCookiesFromData
<1> QED BY <1>3, <1>4, Parts, Together DEF LoadCookiesFromData, NoWrite

\* What is written to a file has the fields of one.
LEMMA ContentIsSaved ==
  ASSUME NEW key \in Key \union {NoKey}, NEW data \in SUBSET Cookie,
         NEW k \in {"cookies", "bundle"}
  PROVE  Content(key, data, k) \in Saved
  BY DEF Content, Saved

\* A key that is not refused is a key or none.
LEMMA KeyNotRefused ==
  ASSUME NEW key \in AnyKey, ~ Refused(key)
  PROVE  key \in Key \union {NoKey}
  BY DEF AnyKey, Refused

LEMMA SaveCookiesToFileStep ==
  ASSUME CookieInv, NEW key \in AnyKey, SaveCookiesToFile(key)
  PROVE  CookieInv'
<1> DEFINE m == Refreshed(Bound)
<1>1. Bound \in Manager /\ Bound.list \intersect tainted = {}
  <2>1. CASE HasManager
    <3>1. manager \in Manager /\ manager.list \intersect tainted = {}
      BY <2>1, Parts, ManagerFacts DEF HasManager, CleanList
    <3> QED BY <2>1, <3>1, WithContext DEF Bound
  <2>2. CASE ~ HasManager
    <3>1. Bound = [list |-> {}, context |-> "current"]
      BY <2>2 DEF Bound
    <3> QED BY <3>1, NewManager
  <2> QED BY <2>1, <2>2
<1>2. Bound \in AnyManager
  BY <1>1 DEF AnyManager
<1>3. m \in Manager /\ m.list \intersect tainted = {}
  BY <1>1, <1>2, RefreshedEffect DEF CookieInv
<1>4. manager' = m /\ UNCHANGED <<ctx, orch, tainted>>
  BY DEF SaveCookiesToFile
<1>5. NoWrite \/ (~ Refused(key) /\ Write("cookies", Content(key, m.list, "cookies")))
  BY DEF SaveCookiesToFile
<1> HIDE DEF m
<1>6. file' \in [Path -> Files] /\ down' \in BOOLEAN /\ faults' \in 0 .. MaxFaults
  <2>1. CASE NoWrite
    BY <2>1, Parts DEF NoWrite
  <2>2. CASE ~ Refused(key) /\ Write("cookies", Content(key, m.list, "cookies"))
    <3>1. Content(key, m.list, "cookies") \in Saved
      BY <1>3, <2>2, KeyNotRefused, ContentIsSaved DEF Manager
    <3> QED BY <2>2, <3>1, WriteEffect DEF CookieInv, Path
  <2> QED BY <1>5, <2>1, <2>2
<1>7. manager' \in AnyManager /\ CleanList' /\ CleanCtx'
  BY <1>3, <1>4, Parts DEF AnyManager, CleanList, CleanCtx, Live
<1> QED BY <1>4, <1>6, <1>7, Parts, Together

LEMMA CheckCookiesStep == CookieInv /\ CheckCookies => CookieInv'
<1> SUFFICES ASSUME CookieInv, CheckCookies PROVE CookieInv'
  OBVIOUS
<1>1. manager' \in AnyManager /\ CleanList' /\ CleanCtx'
  BY Parts, RefreshedEffect DEF CheckCookies, CookieInv, CleanList, CleanCtx, Live
<1> QED BY <1>1, Parts, Together DEF CheckCookies, NoWrite

\* The clear empties both copies, so that all they held can be tainted.
LEMMA CleanupCompromisedStep == CookieInv /\ CleanupCompromised => CookieInv'
<1> SUFFICES ASSUME CookieInv, CleanupCompromised PROVE CookieInv'
  OBVIOUS
<1>1. manager' \in AnyManager /\ manager'.list = {}
  <2>1. CASE HasManager
    <3>1. manager \in Manager
      BY <2>1, Parts, ManagerFacts DEF HasManager
    <3>2. manager' = [manager EXCEPT !.list = {}]
      BY <2>1 DEF CleanupCompromised, ClearCookies
    <3> QED BY <3>1, <3>2, WithList DEF AnyManager
  <2>2. CASE ~ HasManager
    <3>1. manager' = NoManager
      BY <2>2 DEF CleanupCompromised, HasManager
    <3> QED BY <3>1, ManagerFacts DEF AnyManager
  <2> QED BY <2>1, <2>2
<1>2. ctx' \in Ctx /\ (Live' => ctx'.jar = {})
  BY Parts DEF CleanupCompromised, Live, Ctx
<1>3. tainted' \subseteq Cookie
  <2>1. ctx.jar \subseteq Cookie /\ manager.list \subseteq Cookie
    BY Parts, ManagerFacts DEF Ctx
  <2> QED BY <2>1 DEF CleanupCompromised
<1>4. CleanCtx' /\ CleanList'
  BY <1>1, <1>2 DEF CleanCtx, CleanList
<1> QED BY <1>1, <1>2, <1>3, <1>4, Parts, Together DEF CleanupCompromised, NoWrite

---------------------------------------------------------------------------
\* A session's manager, replaced in the orchestrator's table.
LEMMA OrchWith ==
  ASSUME CookieInv, NEW n \in Name, NEW m \in AnyManager, NEW act \in SUBSET Name
  PROVE  [active |-> act, cms |-> [orch.cms EXCEPT ![n] = m]]
            \in [cms : [Name -> AnyManager], active : SUBSET Name]
  BY Parts

\* start_session finds or makes a manager.
LEMMA ResilientIsManager ==
  ASSUME CookieInv, NEW n \in Name
  PROVE  Resilient(n) \in Manager
<1>1. orch.cms[n] \in AnyManager
  BY Parts
<1> QED BY <1>1, ManagerFacts, NewManager DEF Resilient

LEMMA StartSessionStep ==
  ASSUME CookieInv, NEW n \in Name, NEW load \in BOOLEAN, StartSession(n, load)
  PROVE  CookieInv'
<1> DEFINE read == load /\ Reads("cookies", NoKey)
           data == IF read THEN file["cookies"].data ELSE {}
           m == IF read THEN [Resilient(n) EXCEPT !.list = data] ELSE Resilient(n)
<1>1. data \in SUBSET Cookie
  <2>1. CASE read
    <3>1. file["cookies"] \in Saved
      BY <2>1, SavedFile DEF CookieInv, Reads, Path
    <3> QED BY <2>1, <3>1 DEF Saved
  <2> QED BY <2>1
<1>2. m \in AnyManager
  <2> HIDE DEF data
  <2> QED BY <1>1, ResilientIsManager, WithList DEF AnyManager
<1>3. orch' = [active |-> orch.active \union {n}, cms |-> [orch.cms EXCEPT ![n] = m]]
  BY DEF StartSession
<1>4. orch' \in [cms : [Name -> AnyManager], active : SUBSET Name]
  <2> HIDE DEF m
  <2>1. orch.active \union {n} \in SUBSET Name
    BY Parts
  <2> QED BY <1>2, <1>3, <2>1, OrchWith
<1>5. /\ ctx' = IF read THEN Added(Resilient(n), data) ELSE ctx
      /\ tainted' = IF read THEN tainted \ data ELSE tainted
      /\ manager' = manager /\ file' = file /\ down' = down /\ faults' = faults
  BY DEF StartSession, NoWrite
<1> HIDE DEF read, data, m
<1>6. ctx' \in Ctx /\ CleanCtx' /\ tainted' \subseteq Cookie
  <2>1. CASE read
    BY <1>1, <1>5, <2>1, BroughtIn
  <2>2. CASE ~ read
    BY <1>5, <2>2, Parts DEF CleanCtx, Live
  <2> QED BY <2>1, <2>2
<1>7. CleanList'
  BY <1>5, Parts DEF CleanList
<1> QED BY <1>4, <1>5, <1>6, <1>7, Parts, Together

LEMMA WireSessionStep ==
  ASSUME CookieInv, NEW n \in Name, WireSession(n)
  PROVE  CookieInv'
<1> DEFINE m == [orch.cms[n] EXCEPT !.context = "current"]
           cms == [orch.cms EXCEPT ![n] = m]
<1>1. orch.cms[n] \in Manager
  <2>1. orch.cms[n] \in AnyManager /\ orch.cms[n] # NoManager
    BY Parts DEF WireSession
  <2> QED BY <2>1, ManagerFacts
<1>2. m \in AnyManager
  BY <1>1, WithContext DEF AnyManager
<1>3. orch' = [orch EXCEPT !.cms = cms]
  BY DEF WireSession
<1>4. cms \in [Name -> AnyManager]
  <2> HIDE DEF m
  <2> QED BY <1>2, Parts
<1> HIDE DEF cms
<1>5. orch' \in [cms : [Name -> AnyManager], active : SUBSET Name]
  BY <1>3, <1>4, Parts
<1> QED BY <1>5, Parts, Together DEF WireSession, NoWrite, CleanCtx, CleanList, Live

\* What a bundle exports are cookies.
LEMMA ExportedIsCookies ==
  ASSUME CookieInv, NEW n
  PROVE  Exported(n) \in SUBSET Cookie
  BY Parts DEF Exported, Ctx

LEMMA ExportBundleStep ==
  ASSUME CookieInv, NEW n \in Name, NEW key \in AnyKey, ExportBundle(n, key)
  PROVE  CookieInv'
<1>1. Content(key, Exported(n), "bundle") \in Saved
  BY KeyNotRefused, ExportedIsCookies, ContentIsSaved DEF ExportBundle
<1>2. file' \in [Path -> Files] /\ down' \in BOOLEAN /\ faults' \in 0 .. MaxFaults
  BY <1>1, WriteEffect DEF ExportBundle, CookieInv, Path
<1> QED BY <1>2, Parts, Together DEF ExportBundle, CleanCtx, CleanList, Live

LEMMA ExportAllStep == CookieInv /\ ExportAll => CookieInv'
<1> SUFFICES ASSUME CookieInv, ExportAll PROVE CookieInv'
  OBVIOUS
<1>1. ASSUME NEW p \in Path
      PROVE  Content(NoKey, Exported(p), "bundle") \in Files /\ file[p] \in Files
  BY ExportedIsCookies, ContentIsSaved, Parts DEF Files
<1>2. file' = [p \in Path |-> IF p \in orch.active THEN Content(NoKey, Exported(p), "bundle")
                               ELSE file[p]]
  BY DEF ExportAll
<1>3. file' \in [Path -> Files]
  BY <1>1, <1>2
<1> QED BY <1>3, Parts, Together DEF ExportAll, CleanCtx, CleanList, Live

LEMMA ImportBundleStep ==
  ASSUME CookieInv, NEW n \in Name, NEW target \in Name, NEW key \in AnyKey,
         NEW allowed \in BOOLEAN, ImportBundle(n, target, key, allowed)
  PROVE  CookieInv'
<1> DEFINE data == Filtered(file[n].data, allowed)
           m == [Resilient(target) EXCEPT !.list = IF data = {} THEN @ ELSE data]
<1>1. data \in SUBSET Cookie
  <2>1. file[n] \in Saved
    BY SavedFile DEF ImportBundle, Reads, CookieInv, Path
  <2> QED BY <2>1, FilteredIsCookies DEF Saved
<1>2. m \in AnyManager
  <2> DEFINE list == IF data = {} THEN Resilient(target).list ELSE data
  <2>1. Resilient(target) \in Manager
    BY ResilientIsManager
  <2>2. list \in SUBSET Cookie
    BY <1>1, <2>1 DEF Manager
  <2>3. m = [Resilient(target) EXCEPT !.list = list]
    BY <2>1 DEF Manager
  <2> HIDE DEF list, m
  <2> QED BY <2>1, <2>2, <2>3, WithList DEF AnyManager
<1>3. orch' = [orch EXCEPT !.cms[target] = m]
  BY DEF ImportBundle
<1>4. ctx' = Added(m, data) /\ tainted' = tainted \ data
  BY DEF ImportBundle
<1> HIDE DEF data, m
<1>5. orch' \in [cms : [Name -> AnyManager], active : SUBSET Name]
  <2> DEFINE cms == [orch.cms EXCEPT ![target] = m]
  <2>1. cms \in [Name -> AnyManager]
    BY <1>2, Parts
  <2>2. orch' = [orch EXCEPT !.cms = cms]
    BY <1>3
  <2> HIDE DEF cms
  <2> QED BY <2>1, <2>2, Parts
<1>6. ctx' \in Ctx /\ CleanCtx' /\ tainted' \subseteq Cookie
  BY <1>1, <1>4, BroughtIn
<1>7. CleanList'
  BY <1>4, Parts DEF CleanList, ImportBundle
<1> QED BY <1>5, <1>6, <1>7, Parts, Together DEF ImportBundle, NoWrite

LEMMA RotateKeyStep ==
  ASSUME CookieInv, NEW p \in Path, NEW oldKey \in Key, NEW newKey \in Key,
         RotateKey(p, oldKey, newKey)
  PROVE  CookieInv'
<1>1. file[p] \in Saved
  BY SavedFile DEF RotateKey, Unlocked, CookieInv
<1>2. Content(newKey, file[p].data, file[p].kind) \in Saved
  BY <1>1, ContentIsSaved DEF Saved
<1>3. file' \in [Path -> Files] /\ down' \in BOOLEAN /\ faults' \in 0 .. MaxFaults
  BY <1>2, WriteEffect DEF RotateKey, CookieInv
<1> QED BY <1>3, Parts, Together DEF RotateKey, CleanCtx, CleanList, Live

LEMMA CookieRestartStep == CookieInv /\ CookieRestart => CookieInv'
<1> SUFFICES ASSUME CookieInv, CookieRestart PROVE CookieInv'
  OBVIOUS
<1>1. ctx' \in Ctx /\ CleanCtx'
  BY DEF CookieRestart, NoContext, Ctx, CleanCtx, Live
<1>2. manager' \in AnyManager /\ manager'.list = {}
  BY ManagerFacts DEF CookieRestart, AnyManager
<1>3. orch' \in [cms : [Name -> AnyManager], active : SUBSET Name]
  BY NoOrchIsOrch DEF CookieRestart
<1> QED BY <1>1, <1>2, <1>3, Parts, Together DEF CookieRestart, CleanList

LEMMA CookieStep == CookieInv /\ [CookieNext]_cookieVars => CookieInv'
<1> SUFFICES ASSUME CookieInv, [CookieNext]_cookieVars PROVE CookieInv'
  OBVIOUS
<1>1. CASE LaunchContext \/ ContextCrashes \/ CloseContext \/ CheckCookies
             \/ CleanupCompromised \/ ExportAll \/ CookieRestart
  BY <1>1, LaunchContextStep, ContextCrashesStep, CloseContextStep, CheckCookiesStep,
     CleanupCompromisedStep, ExportAllStep, CookieRestartStep
<1>2. CASE \/ \E c \in Cookie : PageSets(c)
           \/ \E key \in AnyKey, allowed \in BOOLEAN : LoadCookiesFromFile(key, allowed)
           \/ \E data \in SUBSET Cookie : LoadCookiesFromData(data)
           \/ \E key \in AnyKey : SaveCookiesToFile(key)
  BY <1>2, PageSetsStep, LoadCookiesFromFileStep, LoadCookiesFromDataStep,
     SaveCookiesToFileStep
<1>3. CASE \/ \E n \in Name, load \in BOOLEAN : StartSession(n, load)
           \/ \E n \in Name : WireSession(n)
           \/ \E n \in Name, key \in AnyKey : ExportBundle(n, key)
  BY <1>3, StartSessionStep, WireSessionStep, ExportBundleStep
<1>4. CASE \/ \E n, target \in Name, key \in AnyKey, allowed \in BOOLEAN :
                ImportBundle(n, target, key, allowed)
           \/ \E p \in Path, oldKey, newKey \in Key : RotateKey(p, oldKey, newKey)
  BY <1>4, ImportBundleStep, RotateKeyStep
<1>5. CASE UNCHANGED cookieVars
  BY <1>5, Parts, Together DEF cookieVars, CleanCtx, CleanList, Live
<1> QED BY <1>1, <1>2, <1>3, <1>4, <1>5 DEF CookieNext

LEMMA CookieInitially == CookieInit => CookieInv
<1> SUFFICES ASSUME CookieInit PROVE CookieInv
  OBVIOUS
<1>1. ctx \in Ctx /\ ~ Live
  BY DEF CookieInit, NoContext, Ctx, Live
<1>2. manager \in AnyManager /\ manager.list = {}
  BY ManagerFacts DEF CookieInit, AnyManager
<1>3. orch \in [cms : [Name -> AnyManager], active : SUBSET Name]
  BY NoOrchIsOrch DEF CookieInit
<1>4. file \in [Path -> Files]
  <2>1. NoFile \in Files
    BY DEF Files
  <2> QED BY <2>1 DEF CookieInit
<1>5. 0 \in 0 .. MaxFaults
  BY CookieAssumption
<1> QED BY <1>1, <1>2, <1>3, <1>4, <1>5
        DEF CookieInit, CookieInv, CookieTypeOK, CleanedStaysOut, Ctx, AnyManager, Files

LEMMA CookieInvHolds == CookieSpec => []CookieInv
  BY CookieInitially, CookieStep, PTL DEF CookieSpec

\* The context, the managers, the orchestrator and the files have their types.
THEOREM CookieTypesHold == CookieSpec => []CookieTypeOK
<1>1. CookieInv => CookieTypeOK
  BY DEF CookieInv
<1> QED BY <1>1, CookieInvHolds, PTL

\* What cleanup_compromised_session cleared is in no context and in no list
\* that could be saved, until a page, a file or a bundle brings it back.
THEOREM CleanedStaysClean == CookieSpec => []CleanedStaysOut
<1>1. CookieInv => CleanedStaysOut
  BY DEF CookieInv
<1> QED BY <1>1, CookieInvHolds, PTL

\* What a rotation in place that did not die leaves of the file p.
RotationKeeps(p) ==
    file'[p] # file[p] /\ ~ down' =>
         \A oldKey, newKey \in Key :
            RotateKey(p, oldKey, newKey) =>
               /\ file'[p].state = "saved" /\ file'[p].data = file[p].data
               /\ \A key \in AnyKey : Reads(p, key)' <=> key = newKey

\* A rotation is over or has left what the file held.
LEMMA RotationStep ==
  ASSUME CookieTypeOK, NEW p \in Path
  PROVE  RotationKeeps(p)
<1> SUFFICES ASSUME ~ down', file'[p] # file[p], NEW oldKey \in Key, NEW newKey \in Key,
                    RotateKey(p, oldKey, newKey)
             PROVE  /\ file'[p].state = "saved" /\ file'[p].data = file[p].data
                    /\ \A key \in AnyKey : Reads(p, key)' <=> key = newKey
  BY DEF RotationKeeps
<1>1. file' = [file EXCEPT ![p] = Content(newKey, file[p].data, file[p].kind)]
  BY DEF RotateKey, Write
<1>2. file'[p] = Content(newKey, file[p].data, file[p].kind)
  BY <1>1 DEF CookieTypeOK
<1>3. file'[p].state = "saved" /\ file'[p].data = file[p].data /\ file'[p].key = newKey
  BY <1>2 DEF Content
<1>4. newKey # ShortKey
  BY CookieAssumption
<1> QED BY <1>3, <1>4 DEF Reads, Refused

\* rotate_encryption_key in place loses no cookies, and the new key is the only
\* one that reads them.
THEOREM RotationKeepsAll == CookieSpec => RotationKeepsCookies
<1>1. CookieTypeOK /\ [CookieNext]_cookieVars =>
        [\A p \in Path :
           file'[p] # file[p] /\ ~ down' =>
           \A oldKey, newKey \in Key :
              RotateKey(p, oldKey, newKey) =>
                 /\ file'[p].state = "saved" /\ file'[p].data = file[p].data
                 /\ \A key \in AnyKey : Reads(p, key)' <=> key = newKey]_cookieVars
  BY RotationStep DEF RotationKeeps
<1> QED BY <1>1, CookieTypesHold, PTL DEF CookieSpec, RotationKeepsCookies

---------------------------------------------------------------------------
(***************************************************************************)
(* CheckpointStore. A checkpoint that was reported is readable because the *)
(* latest file is, or, after a death while that was written, because the   *)
(* stamped file of the same save is the account's newest by its name       *)
(* (Kept). That it is the newest rests on the order in which checkpoints   *)
(* are made and saved (CapturedInOrder, NoFutureFile) and on an account's  *)
(* clean-up matching no other account's files.                             *)
(***************************************************************************)
\* No account's name is that of another with an underscore and more.
NoAccountMatchesAnother == \A a \in Account : GlobMatches[a] = {a}

\* The last of an account's stamped files, in the order of their names.
Newest(a, t) == \A u \in 1 .. MaxSecond : stamped[a][u] # Absent => u <= t

NoFutureText(a) ==
    /\ reported[a] <= versions /\ latest[a] <= versions
    /\ \A t \in 1 .. MaxSecond : stamped[a][t] <= versions

NoFutureFile(a) == Newest(a, second)

\* While no save of the account has died since one returned, its latest file
\* is good; after one death it is, or the newest stamped file, which no clean-up
\* takes, holds what the save had written.
Kept(a) ==
    /\ crashes[a] = 0 => latest[a] >= reported[a]
    /\ crashes[a] = 1 =>
          \/ latest[a] >= reported[a]
          \/ \E t \in 1 .. MaxSecond : stamped[a][t] >= reported[a] /\ Newest(a, t)

CapturedInOrder ==
    /\ \A c \in captured : c.at <= second /\ Newest(c.account, c.at)
    /\ \A c, d \in captured : c.account = d.account => c = d

CheckpointInv ==
    /\ CheckpointTypeOK /\ CapturedInOrder
    /\ \A a \in Account : /\ NoFutureText(a) /\ NoFutureFile(a)
                          /\ reported[a] # 0 => Kept(a)

\* The bounds.
LEMMA Bounds == MaxVersion \in Nat /\ MaxSecond \in Nat \ {0} /\ MaxCrashes \in Nat
  BY CheckpointAssumption

\* The types of the numbers.
LEMMA CheckpointTypes ==
  ASSUME CheckpointTypeOK
  PROVE  /\ second \in Nat /\ versions \in Nat
         /\ \A a \in Account : latest[a] \in Int /\ reported[a] \in Nat /\ crashes[a] \in Nat
         /\ \A a \in Account, t \in 1 .. MaxSecond : stamped[a][t] \in Int
<1>1. Text \subseteq Int
  BY DEF Text, Absent, TornText, Version
<1>2. second \in Nat /\ versions \in Nat
  BY DEF CheckpointTypeOK
<1>3. ASSUME NEW a \in Account
      PROVE  /\ latest[a] \in Text /\ reported[a] \in Nat /\ crashes[a] \in Nat
             /\ \A t \in 1 .. MaxSecond : stamped[a][t] \in Text
  <2>1. latest[a] \in Text /\ stamped[a] \in [1 .. MaxSecond -> Text]
    BY DEF CheckpointTypeOK
  <2>2. reported[a] \in 0 .. MaxVersion /\ crashes[a] \in 0 .. MaxCrashes
    BY DEF CheckpointTypeOK
  <2>3. \A t \in 1 .. MaxSecond : stamped[a][t] \in Text
    BY <2>1
  <2>4. reported[a] \in Nat /\ crashes[a] \in Nat
    BY <2>2
  <2> QED BY <2>1, <2>3, <2>4
<1> QED BY <1>1, <1>2, <1>3

LEMMA TickStep == CheckpointInv /\ Tick => CheckpointInv'
<1> SUFFICES ASSUME CheckpointInv, Tick PROVE CheckpointInv'
  OBVIOUS
<1>1. second' = second + 1 /\ second' \in 1 .. MaxSecond
  BY Bounds DEF Tick, CheckpointInv, CheckpointTypeOK
<1>2. UNCHANGED <<captured, stamped, latest, reported, versions, crashes>>
  BY DEF Tick
<1>3. CheckpointTypeOK'
  BY <1>1, <1>2 DEF CheckpointInv, CheckpointTypeOK
<1>4. second \in Nat
  BY CheckpointTypes DEF CheckpointInv
<1>5. CapturedInOrder'
  <2>1. ASSUME NEW c \in captured PROVE c.at <= second' /\ Newest(c.account, c.at)'
    <3>1. c.at <= second /\ Newest(c.account, c.at) /\ c.at \in Nat
      BY DEF CheckpointInv, CapturedInOrder, CheckpointTypeOK
    <3> QED BY <1>1, <1>2, <1>4, <3>1 DEF Newest
  <2> QED BY <1>2, <2>1 DEF CheckpointInv, CapturedInOrder
<1>6. ASSUME NEW a \in Account
      PROVE  NoFutureText(a)' /\ NoFutureFile(a)' /\ (reported'[a] # 0 => Kept(a)')
  <2>1. NoFutureText(a) /\ NoFutureFile(a) /\ (reported[a] # 0 => Kept(a))
    BY DEF CheckpointInv
  <2>2. NoFutureText(a)' /\ (reported'[a] # 0 => Kept(a)')
    BY <1>2, <2>1 DEF NoFutureText, Kept, Newest
  <2>3. NoFutureFile(a)'
    BY <1>1, <1>2, <1>4, <2>1 DEF NoFutureFile, Newest
  <2> QED BY <2>2, <2>3
<1> QED BY <1>3, <1>5, <1>6 DEF CheckpointInv

LEMMA CreateCheckpointStep ==
  ASSUME CheckpointInv, NEW a \in Account, CreateCheckpoint(a)
  PROVE  CheckpointInv'
<1>1. UNCHANGED <<second, stamped, latest, reported, versions, crashes>>
  BY DEF CreateCheckpoint
<1> DEFINE new == [account |-> a, at |-> second]
<1>2. captured' = {c \in captured : c.account # a} \union {new}
  BY DEF CreateCheckpoint
<1>3. new \in [account : Account, at : 1 .. MaxSecond] /\ new.account = a /\ new.at = second
  BY DEF CheckpointInv, CheckpointTypeOK
<1> HIDE DEF new
<1>4. CheckpointTypeOK'
  BY <1>1, <1>2, <1>3 DEF CheckpointInv, CheckpointTypeOK
<1>5. CapturedInOrder'
  <2>1. second <= second /\ Newest(a, second)
    <3>1. second \in Nat
      BY CheckpointTypes DEF CheckpointInv
    <3> QED BY <3>1 DEF CheckpointInv, NoFutureFile
  <2>2. \A c \in captured' : c.at <= second /\ Newest(c.account, c.at)
    BY <1>2, <1>3, <2>1 DEF CheckpointInv, CapturedInOrder
  <2>3. \A c, d \in captured' : c.account = d.account => c = d
    BY <1>2, <1>3 DEF CheckpointInv, CapturedInOrder
  <2> QED BY <1>1, <2>2, <2>3 DEF CapturedInOrder, Newest
<1>6. ASSUME NEW b \in Account
      PROVE  NoFutureText(b)' /\ NoFutureFile(b)' /\ (reported'[b] # 0 => Kept(b)')
  BY <1>1 DEF CheckpointInv, NoFutureText, NoFutureFile, Kept, Newest
<1> QED BY <1>4, <1>5, <1>6 DEF CheckpointInv

\* The parts of a state that only an account's own files and counts concern.
LEMMA OtherAccount ==
  ASSUME CheckpointInv, NEW a \in Account,
         second' = second, versions' \in Nat, versions' >= versions,
         stamped'[a] = stamped[a], latest'[a] = latest[a], reported'[a] = reported[a],
         crashes'[a] = crashes[a]
  PROVE  NoFutureText(a)' /\ NoFutureFile(a)' /\ (reported'[a] # 0 => Kept(a)')
<1>1. NoFutureText(a) /\ NoFutureFile(a) /\ (reported[a] # 0 => Kept(a))
  BY DEF CheckpointInv
<1>2. NoFutureFile(a)' /\ (reported'[a] # 0 => Kept(a)')
  BY <1>1 DEF NoFutureFile, Kept, Newest
<1>3. /\ versions \in Nat /\ latest[a] \in Int /\ reported[a] \in Nat
      /\ \A t \in 1 .. MaxSecond : stamped[a][t] \in Int
  BY CheckpointTypes DEF CheckpointInv
<1>4. NoFutureText(a)'
  BY <1>1, <1>3 DEF NoFutureText
<1> QED BY <1>2, <1>4

\* What a save writes under the second of its checkpoint becomes the newest of
\* its account, and is the only file that changes.
LEMMA StampedNewest ==
  ASSUME CheckpointInv, NEW c \in captured, NEW v \in Text,
         stamped' = [stamped EXCEPT ![c.account][c.at] = v], second' = second
  PROVE  /\ c.account \in Account /\ c.at \in 1 .. MaxSecond
         /\ stamped' \in [Account -> [1 .. MaxSecond -> Text]]
         /\ stamped'[c.account][c.at] = v
         /\ \A u \in 1 .. MaxSecond \ {c.at} : stamped'[c.account][u] = stamped[c.account][u]
         /\ \A b \in Account \ {c.account} : stamped'[b] = stamped[b]
         /\ Newest(c.account, c.at)' /\ NoFutureFile(c.account)'
<1>1. c.account \in Account /\ c.at \in 1 .. MaxSecond
  BY DEF CheckpointInv, CheckpointTypeOK
<1>2. stamped \in [Account -> [1 .. MaxSecond -> Text]]
  BY DEF CheckpointInv, CheckpointTypeOK
<1>3. /\ stamped' \in [Account -> [1 .. MaxSecond -> Text]]
      /\ stamped'[c.account][c.at] = v
      /\ \A u \in 1 .. MaxSecond \ {c.at} : stamped'[c.account][u] = stamped[c.account][u]
      /\ \A b \in Account \ {c.account} : stamped'[b] = stamped[b]
  BY <1>1, <1>2
<1>4. c.at <= second /\ Newest(c.account, c.at) /\ c.at \in Nat
  BY <1>1 DEF CheckpointInv, CapturedInOrder
<1>5. Newest(c.account, c.at)'
  BY <1>1, <1>3, <1>4 DEF Newest
<1>6. NoFutureFile(c.account)'
  <2>1. second \in Nat
    BY CheckpointTypes DEF CheckpointInv
  <2> QED BY <1>4, <1>5, <2>1 DEF NoFutureFile, Newest
<1> QED BY <1>1, <1>3, <1>5, <1>6

\* A save makes the next version.
LEMMA SavingVersion ==
  ASSUME CheckpointInv, NEW c, Saving(c)
  PROVE  /\ second' = second /\ versions' = versions + 1
         /\ versions' \in 0 .. MaxVersion /\ versions + 1 \in Version
         /\ versions + 1 \in Text /\ versions + 1 \in 0 .. MaxVersion
<1>1. versions \in 0 .. MaxVersion
  BY DEF CheckpointInv, CheckpointTypeOK
<1>2. second' = second /\ versions' = versions + 1 /\ versions < MaxVersion
  BY DEF Saving
<1>3. versions + 1 \in 1 .. MaxVersion
  BY <1>1, <1>2, Bounds
<1> QED BY <1>2, <1>3, Bounds DEF Version, Text

\* An account's own files after a step in which none of its texts is too new.
LEMMA OwnTexts ==
  ASSUME CheckpointInv, NEW c \in captured, Saving(c), NEW v \in Text, v <= versions + 1,
         stamped' = [stamped EXCEPT ![c.account][c.at] = v],
         reported'[c.account] <= versions + 1, latest'[c.account] <= versions + 1
  PROVE  NoFutureText(c.account)'
<1>1. c.account \in Account
  BY DEF CheckpointInv, CheckpointTypeOK
<1>2. versions \in Nat /\ \A t \in 1 .. MaxSecond : stamped[c.account][t] \in Int
  BY <1>1, CheckpointTypes DEF CheckpointInv
<1>3. \A t \in 1 .. MaxSecond : stamped[c.account][t] <= versions
  BY <1>1 DEF CheckpointInv, NoFutureText
<1>4. \A t \in 1 .. MaxSecond : stamped'[c.account][t] <= versions + 1
  BY <1>2, <1>3, SavingVersion, StampedNewest
<1> QED BY <1>4, SavingVersion DEF NoFutureText

LEMMA SaveCheckpointStep ==
  ASSUME CheckpointInv, NEW c \in captured, SaveCheckpoint(c)
  PROVE  CheckpointInv'
<1> DEFINE a == c.account
           v == versions + 1
<1>1. /\ stamped' = [stamped EXCEPT ![a][c.at] = v] /\ latest' = [latest EXCEPT ![a] = v]
      /\ reported' = [reported EXCEPT ![a] = v] /\ captured' = captured \ {c}
      /\ crashes' = [crashes EXCEPT ![a] = 0] /\ Saving(c)
  BY DEF SaveCheckpoint
<1>2. /\ second' = second /\ versions' = v /\ versions' \in 0 .. MaxVersion
      /\ v \in Text /\ v \in 0 .. MaxVersion
  BY <1>1, SavingVersion
<1>3. /\ a \in Account /\ stamped' \in [Account -> [1 .. MaxSecond -> Text]]
      /\ \A b \in Account \ {a} : stamped'[b] = stamped[b]
      /\ Newest(a, c.at)' /\ NoFutureFile(a)'
  BY <1>1, <1>2, StampedNewest
<1>4. /\ latest \in [Account -> Text] /\ reported \in [Account -> 0 .. MaxVersion]
      /\ crashes \in [Account -> 0 .. MaxCrashes] /\ second \in 1 .. MaxSecond
      /\ captured \subseteq [account : Account, at : 1 .. MaxSecond]
  BY DEF CheckpointInv, CheckpointTypeOK
<1>5. /\ latest' \in [Account -> Text] /\ latest'[a] = v
      /\ \A b \in Account \ {a} : latest'[b] = latest[b]
  BY <1>1, <1>2, <1>3, <1>4
<1>6. /\ reported' \in [Account -> 0 .. MaxVersion] /\ reported'[a] = v
      /\ \A b \in Account \ {a} : reported'[b] = reported[b]
  BY <1>1, <1>2, <1>3, <1>4
<1>7. /\ crashes' \in [Account -> 0 .. MaxCrashes] /\ crashes'[a] = 0
      /\ \A b \in Account \ {a} : crashes'[b] = crashes[b]
  BY <1>1, <1>3, <1>4, Bounds
<1>8. captured' \subseteq captured
  BY <1>1
<1>9. CheckpointTypeOK'
  BY <1>2, <1>3, <1>4, <1>5, <1>6, <1>7, <1>8 DEF CheckpointTypeOK
<1>10. CapturedInOrder'
  <2>1. ASSUME NEW d \in captured' PROVE d.at <= second /\ Newest(d.account, d.at)'
    <3>1. d \in captured /\ d.account # a
      BY <1>1 DEF CheckpointInv, CapturedInOrder
    <3>2. d.account \in Account /\ d.at <= second /\ Newest(d.account, d.at)
      BY <1>4, <3>1 DEF CheckpointInv, CapturedInOrder
    <3> QED BY <1>3, <3>1, <3>2 DEF Newest
  <2> QED BY <1>2, <1>8, <2>1 DEF CheckpointInv, CapturedInOrder
<1>11. v \in Nat /\ versions \in Nat
  BY CheckpointTypes DEF CheckpointInv
<1>12. ASSUME NEW b \in Account
       PROVE  NoFutureText(b)' /\ NoFutureFile(b)' /\ (reported'[b] # 0 => Kept(b)')
  <2>1. CASE b # a
    <3>1. versions' \in Nat /\ versions' >= versions
      BY <1>2, <1>11
    <3> HIDE DEF v, a
    <3> QED BY <1>2, <1>3, <1>5, <1>6, <1>7, <2>1, <3>1, OtherAccount
  <2>2. CASE b = a
    <3>1. NoFutureText(a)'
      <4>1. v <= v /\ reported'[a] <= v /\ latest'[a] <= v
        BY <1>5, <1>6, <1>11
      <4> QED BY <1>1, <1>2, <4>1, OwnTexts
    <3>2. Kept(a)'
      BY <1>5, <1>6, <1>7, <1>11 DEF Kept
    <3> QED BY <1>3, <2>2, <3>1, <3>2
  <2> QED BY <2>1, <2>2
<1> QED BY <1>9, <1>10, <1>12 DEF CheckpointInv

LEMMA DieSavingStep ==
  ASSUME CheckpointInv, NEW c \in captured, DieSaving(c)
  PROVE  CheckpointInv'
<1> DEFINE a == c.account
           v == versions + 1
<1>1. /\ captured' = {} /\ crashes' = [crashes EXCEPT ![a] = @ + 1]
      /\ crashes[a] < MaxCrashes /\ reported' = reported /\ Saving(c)
  BY DEF DieSaving, Dies
<1>2. /\ second' = second /\ versions' = v /\ versions' \in 0 .. MaxVersion
      /\ v \in Text /\ v \in 0 .. MaxVersion
  BY <1>1, SavingVersion
<1>3. PICK w \in {v, TornText} :
        /\ stamped' = [stamped EXCEPT ![a][c.at] = w]
        /\ latest' = IF w = v THEN [latest EXCEPT ![a] = TornText] ELSE latest
  <2>1. v # TornText
    BY CheckpointTypes DEF CheckpointInv, TornText
  <2> QED BY <2>1 DEF DieSaving
<1>4. w \in Text
  BY <1>2, <1>3 DEF Text
<1>5. /\ a \in Account /\ c.at \in 1 .. MaxSecond
      /\ stamped' \in [Account -> [1 .. MaxSecond -> Text]]
      /\ stamped'[a][c.at] = w
      /\ \A b \in Account \ {a} : stamped'[b] = stamped[b]
      /\ Newest(a, c.at)' /\ NoFutureFile(a)'
  BY <1>2, <1>3, <1>4, StampedNewest
<1>6. /\ latest \in [Account -> Text] /\ reported \in [Account -> 0 .. MaxVersion]
      /\ crashes \in [Account -> 0 .. MaxCrashes] /\ second \in 1 .. MaxSecond
  BY DEF CheckpointInv, CheckpointTypeOK
<1>7. /\ latest' \in [Account -> Text]
      /\ latest'[a] = IF w = v THEN TornText ELSE latest[a]
      /\ \A b \in Account \ {a} : latest'[b] = latest[b]
  <2>1. TornText \in Text
    BY DEF Text
  <2> QED BY <1>3, <1>5, <1>6, <2>1
<1>8. /\ crashes' \in [Account -> 0 .. MaxCrashes] /\ crashes'[a] = crashes[a] + 1
      /\ \A b \in Account \ {a} : crashes'[b] = crashes[b]
  <2>1. crashes[a] + 1 \in 0 .. MaxCrashes
    BY <1>1, <1>5, <1>6, Bounds
  <2> QED BY <1>1, <1>5, <1>6, <2>1
<1>9. CheckpointTypeOK'
  BY <1>1, <1>2, <1>5, <1>6, <1>7, <1>8 DEF CheckpointTypeOK
<1>10. CapturedInOrder'
  BY <1>1 DEF CapturedInOrder
<1>11. /\ v \in Nat /\ versions \in Nat /\ latest[a] \in Int
       /\ reported[a] \in Nat /\ crashes[a] \in Nat
  BY <1>5, CheckpointTypes DEF CheckpointInv
<1>12. /\ latest[a] <= versions /\ reported[a] <= versions
       /\ reported[a] # 0 => Kept(a)
  BY <1>5 DEF CheckpointInv, NoFutureText
<1>13. ASSUME NEW b \in Account
       PROVE  NoFutureText(b)' /\ NoFutureFile(b)' /\ (reported'[b] # 0 => Kept(b)')
  <2>1. CASE b # a
    <3>1. versions' \in Nat /\ versions' >= versions /\ reported'[b] = reported[b]
      BY <1>1, <1>2, <1>11
    <3> HIDE DEF v, a
    <3> QED BY <1>2, <1>5, <1>7, <1>8, <2>1, <3>1, OtherAccount
  <2>2. CASE b = a
    <3>1. NoFutureText(a)'
      <4>1. w <= v /\ latest'[a] <= v /\ reported'[a] <= v
        BY <1>1, <1>3, <1>7, <1>11, <1>12 DEF TornText
      <4> QED BY <1>1, <1>3, <1>4, <4>1, OwnTexts
    <3>2. ASSUME reported'[a] # 0 PROVE Kept(a)'
      <4>1. CASE crashes[a] # 0
        BY <1>8, <1>11, <4>1 DEF Kept
      <4>2. CASE crashes[a] = 0 /\ w # v
        <5>1. latest'[a] = latest[a] /\ latest[a] >= reported[a] /\ reported'[a] = reported[a]
          BY <1>1, <1>7, <1>12, <3>2, <4>2 DEF Kept
        <5> QED BY <1>8, <1>11, <4>2, <5>1 DEF Kept
      <4>3. CASE crashes[a] = 0 /\ w = v
        <5>1. stamped'[a][c.at] = v /\ v >= reported'[a]
          BY <1>1, <1>5, <1>11, <1>12, <4>3
        <5>2. crashes'[a] = 1
          BY <1>8, <4>3
        <5> HIDE DEF v
        <5> QED BY <1>5, <5>1, <5>2 DEF Kept
      <4> QED BY <4>1, <4>2, <4>3
    <3> QED BY <1>5, <2>2, <3>1, <3>2
  <2> QED BY <2>1, <2>2
<1> QED BY <1>9, <1>10, <1>13 DEF CheckpointInv

\* Removing stamped files keeps the invariant of an account when its newest
\* file is not among them.
LEMMA FilesGo ==
  ASSUME CheckpointInv, NEW a \in Account,
         stamped' \in [Account -> [1 .. MaxSecond -> Text]],
         second' = second, versions' = versions, latest' = latest, crashes' = crashes,
         reported'[a] \in {0, reported[a]},
         \A t \in 1 .. MaxSecond : stamped'[a][t] \in {Absent, stamped[a][t]},
         reported'[a] # 0 =>
            \A t \in 1 .. MaxSecond :
                Newest(a, t) /\ stamped[a][t] >= reported[a] => stamped'[a][t] = stamped[a][t]
  PROVE  NoFutureText(a)' /\ NoFutureFile(a)' /\ (reported'[a] # 0 => Kept(a)')
<1>1. NoFutureText(a) /\ NoFutureFile(a) /\ (reported[a] # 0 => Kept(a))
  BY DEF CheckpointInv
<1>2. versions \in Nat
  BY CheckpointTypes DEF CheckpointInv
<1>3. NoFutureText(a)'
  <2>1. \A t \in 1 .. MaxSecond : stamped'[a][t] <= versions
    BY <1>1, <1>2 DEF NoFutureText, Absent
  <2>2. reported'[a] <= versions /\ latest'[a] <= versions
    BY <1>1, <1>2 DEF NoFutureText
  <2> QED BY <2>1, <2>2 DEF NoFutureText
<1>4. ASSUME NEW t, Newest(a, t) PROVE Newest(a, t)'
  BY <1>4 DEF Newest
<1>5. NoFutureFile(a)'
  BY <1>1, <1>4 DEF NoFutureFile, Newest
<1>6. ASSUME reported'[a] # 0 PROVE Kept(a)'
  <2>1. reported'[a] = reported[a] /\ Kept(a)
    BY <1>1, <1>6
  <2>2. ASSUME NEW t \in 1 .. MaxSecond, stamped[a][t] >= reported[a], Newest(a, t)
        PROVE  stamped'[a][t] >= reported'[a] /\ Newest(a, t)'
    BY <1>4, <1>6, <2>1, <2>2
  <2> QED BY <2>1, <2>2 DEF Kept
<1> QED BY <1>3, <1>5, <1>6

\* A file that goes takes no checkpoint out of order.
LEMMA OrderKept ==
  ASSUME CheckpointInv, captured' = captured, second' = second,
         \A a \in Account, t \in 1 .. MaxSecond : stamped'[a][t] \in {Absent, stamped[a][t]}
  PROVE  CapturedInOrder'
<1>1. ASSUME NEW c \in captured PROVE Newest(c.account, c.at)'
  <2>1. Newest(c.account, c.at) /\ c.account \in Account
    BY DEF CheckpointInv, CapturedInOrder, CheckpointTypeOK
  <2> QED BY <2>1 DEF Newest
<1> QED BY <1>1 DEF CheckpointInv, CapturedInOrder

\* The slice leaves out the newest file unless none is to be kept, and then it
\* is empty.
LEMMA NewestStays ==
  ASSUME NoAccountMatchesAnother, NEW a \in Account, NEW b \in Account, NEW keep \in 0 .. 2,
         NEW t \in 1 .. MaxSecond, Newest(b, t)
  PROVE  <<b, t>> \notin Surplus(a, keep)
<1>1. CASE keep = 0
  BY <1>1 DEF Surplus
<1>2. CASE keep # 0
  <2> SUFFICES ASSUME <<b, t>> \in Surplus(a, keep) PROVE FALSE
    OBVIOUS
  <2> DEFINE later == {g \in Listed(a) : Before(a, <<b, t>>, g)}
  <2>1. <<b, t>> \in Listed(a) /\ Cardinality(later) >= keep
    BY <1>2 DEF Surplus
  <2>2. b = a
    BY <2>1 DEF Listed, NoAccountMatchesAnother
  <2>3. later = {}
    <3> SUFFICES ASSUME NEW g \in Listed(a), Before(a, <<b, t>>, g) PROVE FALSE
      OBVIOUS
    <3>1. g[1] = a /\ g[2] \in 1 .. MaxSecond /\ stamped[a][g[2]] # Absent
      BY DEF Listed, NoAccountMatchesAnother
    <3>2. t < g[2]
      BY <2>2, <3>1 DEF Before
    <3>3. g[2] <= t
      BY <2>2, <3>1 DEF Newest
    <3> QED BY <3>1, <3>2, <3>3
  <2>4. Cardinality(later) = 0
    BY <2>3, FS_EmptySet
  <2> QED BY <1>2, <2>1, <2>4
<1> QED BY <1>1, <1>2

LEMMA CleanupOldStep ==
  ASSUME NoAccountMatchesAnother, CheckpointInv, NEW a \in Account, NEW keep \in 0 .. 2,
         CleanupOld(a, keep)
  PROVE  CheckpointInv'
<1>1. stamped' = [b \in Account |-> [t \in 1 .. MaxSecond |->
                     IF <<b, t>> \in Surplus(a, keep) THEN Absent ELSE stamped[b][t]]]
  BY DEF CleanupOld
<1>2. UNCHANGED <<second, captured, latest, reported, versions, crashes>>
  BY DEF CleanupOld
<1>3. \A b \in Account, t \in 1 .. MaxSecond :
        stamped'[b][t] = IF <<b, t>> \in Surplus(a, keep) THEN Absent ELSE stamped[b][t]
  BY <1>1
<1>4. stamped' \in [Account -> [1 .. MaxSecond -> Text]]
  <2>1. \A b \in Account, t \in 1 .. MaxSecond : stamped[b][t] \in Text /\ Absent \in Text
    BY DEF CheckpointInv, CheckpointTypeOK, Text
  <2> QED BY <1>1, <2>1
<1>5. CheckpointTypeOK'
  BY <1>2, <1>4 DEF CheckpointInv, CheckpointTypeOK
<1>6. CapturedInOrder'
  BY <1>2, <1>3, OrderKept
<1>7. ASSUME NEW b \in Account
      PROVE  NoFutureText(b)' /\ NoFutureFile(b)' /\ (reported'[b] # 0 => Kept(b)')
  <2>1. \A t \in 1 .. MaxSecond : Newest(b, t) => stamped'[b][t] = stamped[b][t]
    BY <1>3, NewestStays
  <2>2. \A t \in 1 .. MaxSecond : stamped'[b][t] \in {Absent, stamped[b][t]}
    BY <1>3
  <2> QED BY <1>2, <1>4, <2>1, <2>2, FilesGo
<1> QED BY <1>5, <1>6, <1>7 DEF CheckpointInv

LEMMA DeleteCheckpointStep ==
  ASSUME CheckpointInv, NEW a \in Account, NEW t \in 1 .. MaxSecond, DeleteCheckpoint(a, t)
  PROVE  CheckpointInv'
<1>1. stamped' = [stamped EXCEPT ![a][t] = Absent]
  BY DEF DeleteCheckpoint
<1>2. reported' = [reported EXCEPT ![a] = IF stamped[a][t] >= @ THEN 0 ELSE @]
  BY DEF DeleteCheckpoint
<1>3. UNCHANGED <<second, captured, latest, versions, crashes>>
  BY DEF DeleteCheckpoint
<1>4. /\ stamped \in [Account -> [1 .. MaxSecond -> Text]]
      /\ reported \in [Account -> 0 .. MaxVersion] /\ Absent \in Text
  BY DEF CheckpointInv, CheckpointTypeOK, Text
<1>5. /\ stamped' \in [Account -> [1 .. MaxSecond -> Text]]
      /\ \A b \in Account, u \in 1 .. MaxSecond :
            stamped'[b][u] = IF b = a /\ u = t THEN Absent ELSE stamped[b][u]
  BY <1>1, <1>4
<1>6. /\ reported' \in [Account -> 0 .. MaxVersion]
      /\ reported'[a] = IF stamped[a][t] >= reported[a] THEN 0 ELSE reported[a]
      /\ \A b \in Account \ {a} : reported'[b] = reported[b]
  BY <1>2, <1>4, Bounds
<1>7. CheckpointTypeOK'
  BY <1>3, <1>5, <1>6 DEF CheckpointInv, CheckpointTypeOK
<1>8. CapturedInOrder'
  BY <1>3, <1>5, OrderKept
<1>9. ASSUME NEW b \in Account
      PROVE  NoFutureText(b)' /\ NoFutureFile(b)' /\ (reported'[b] # 0 => Kept(b)')
  <2>1. \A u \in 1 .. MaxSecond : stamped'[b][u] \in {Absent, stamped[b][u]}
    BY <1>5
  <2>2. reported'[b] \in {0, reported[b]}
    BY <1>6
  <2>3. reported'[b] # 0 =>
          \A u \in 1 .. MaxSecond : stamped[b][u] >= reported[b] => stamped'[b][u] = stamped[b][u]
    BY <1>5, <1>6
  <2> QED BY <1>3, <1>5, <2>1, <2>2, <2>3, FilesGo
<1> QED BY <1>7, <1>8, <1>9 DEF CheckpointInv

LEMMA CheckpointStep ==
  ASSUME NoAccountMatchesAnother
  PROVE  CheckpointInv /\ [CheckpointNext]_checkpointVars => CheckpointInv'
<1> SUFFICES ASSUME CheckpointInv, [CheckpointNext]_checkpointVars PROVE CheckpointInv'
  OBVIOUS
<1>1. CASE Tick
  BY <1>1, TickStep
<1>2. CASE \E a \in Account : CreateCheckpoint(a)
  BY <1>2, CreateCheckpointStep
<1>3. CASE \E c \in captured : SaveCheckpoint(c) \/ DieSaving(c)
  BY <1>3, SaveCheckpointStep, DieSavingStep
<1>4. CASE \E a \in Account, keep \in 0 .. 2 : CleanupOld(a, keep)
  BY <1>4, CleanupOldStep
<1>5. CASE \E a \in Account, t \in 1 .. MaxSecond : DeleteCheckpoint(a, t)
  BY <1>5, DeleteCheckpointStep
<1>6. CASE UNCHANGED checkpointVars
  BY <1>6 DEF checkpointVars, CheckpointInv, CheckpointTypeOK, CapturedInOrder, Newest,
              NoFutureText, NoFutureFile, Kept
<1> QED BY <1>1, <1>2, <1>3, <1>4, <1>5, <1>6 DEF CheckpointNext

LEMMA CheckpointInitially == CheckpointInit => CheckpointInv
<1> SUFFICES ASSUME CheckpointInit PROVE CheckpointInv
  OBVIOUS
<1>1. CheckpointTypeOK
  <2>1. /\ 1 \in 1 .. MaxSecond /\ 0 \in 0 .. MaxVersion /\ 0 \in 0 .. MaxCrashes
        /\ Absent \in Text
    BY Bounds DEF Text
  <2> HIDE DEF Absent
  <2> QED BY <2>1 DEF CheckpointInit, CheckpointTypeOK
<1>2. CapturedInOrder
  BY DEF CheckpointInit, CapturedInOrder
<1>3. ASSUME NEW a \in Account
      PROVE  NoFutureText(a) /\ NoFutureFile(a) /\ reported[a] = 0
  BY DEF CheckpointInit, NoFutureText, NoFutureFile, Newest, Absent
<1> QED BY <1>1, <1>2, <1>3 DEF CheckpointInv

\* The types need no more than themselves: whatever a clean-up matches.
LEMMA CheckpointTypeStep ==
  CheckpointTypeOK /\ [CheckpointNext]_checkpointVars => CheckpointTypeOK'
<1> SUFFICES ASSUME CheckpointTypeOK, [CheckpointNext]_checkpointVars
             PROVE  CheckpointTypeOK'
  OBVIOUS
<1>1. /\ second \in 1 .. MaxSecond /\ captured \subseteq [account : Account, at : 1 .. MaxSecond]
      /\ stamped \in [Account -> [1 .. MaxSecond -> Text]] /\ latest \in [Account -> Text]
      /\ reported \in [Account -> 0 .. MaxVersion] /\ versions \in 0 .. MaxVersion
      /\ crashes \in [Account -> 0 .. MaxCrashes]
  BY DEF CheckpointTypeOK
<1>2. Absent \in Text /\ TornText \in Text
  BY DEF Text
<1>3. CASE Tick
  <2>1. second' \in 1 .. MaxSecond
    BY <1>1, <1>3, Bounds DEF Tick
  <2> QED BY <1>1, <1>3, <2>1 DEF Tick, CheckpointTypeOK
<1>4. CASE \E a \in Account : CreateCheckpoint(a)
  <2>1. captured' \subseteq [account : Account, at : 1 .. MaxSecond]
    BY <1>1, <1>4 DEF CreateCheckpoint
  <2> QED BY <1>1, <1>4, <2>1 DEF CreateCheckpoint, CheckpointTypeOK
<1>5. ASSUME NEW c \in captured, SaveCheckpoint(c) \/ DieSaving(c)
      PROVE  CheckpointTypeOK'
  <2> DEFINE v == versions + 1
  <2>1. /\ v \in Text /\ v \in 0 .. MaxVersion /\ versions' = v /\ second' = second
        /\ c.account \in Account /\ c.at \in 1 .. MaxSecond
    <3>1. versions < MaxVersion /\ versions' = v /\ second' = second
      BY <1>5 DEF SaveCheckpoint, DieSaving, Dies, Saving
    <3>2. v \in 1 .. MaxVersion
      BY <1>1, <3>1, Bounds
    <3> QED BY <1>1, <3>1, <3>2, Bounds DEF Text, Version
  <2>2. /\ \E w \in {v, TornText} : stamped' = [stamped EXCEPT ![c.account][c.at] = w]
        /\ latest' = latest \/ \E w \in {v, TornText} : latest' = [latest EXCEPT ![c.account] = w]
        /\ captured' \subseteq captured
        /\ reported' = reported \/ reported' = [reported EXCEPT ![c.account] = v]
    BY <1>5 DEF SaveCheckpoint, DieSaving, Dies
  <2>3. crashes' \in [Account -> 0 .. MaxCrashes]
    <3>1. CASE SaveCheckpoint(c)
      BY <1>1, <3>1, Bounds DEF SaveCheckpoint
    <3>2. CASE DieSaving(c)
      <4>1. crashes[c.account] + 1 \in 0 .. MaxCrashes
        BY <1>1, <2>1, <3>2, Bounds DEF DieSaving, Dies
      <4> QED BY <1>1, <3>2, <4>1 DEF DieSaving, Dies
    <3> QED BY <1>5, <3>1, <3>2
  <2> HIDE DEF v
  <2>4. stamped' \in [Account -> [1 .. MaxSecond -> Text]]
    BY <1>1, <1>2, <2>1, <2>2
  <2>5. latest' \in [Account -> Text]
    <3>1. latest \in [Account -> Text] /\ v \in Text /\ TornText \in Text
      BY <1>1, <1>2, <2>1
    <3>2. CASE latest' = latest
      BY <3>1, <3>2
    <3>3. CASE \E w \in {v, TornText} : latest' = [latest EXCEPT ![c.account] = w]
      BY <3>1, <3>3
    <3> QED BY <2>2, <3>2, <3>3
  <2>6. reported' \in [Account -> 0 .. MaxVersion]
    BY <1>1, <2>1, <2>2
  <2> QED BY <1>1, <2>1, <2>2, <2>3, <2>4, <2>5, <2>6 DEF CheckpointTypeOK
<1>6. CASE \E a \in Account, keep \in 0 .. 2 : CleanupOld(a, keep)
  <2>1. PICK a \in Account, keep \in 0 .. 2 : CleanupOld(a, keep)
    BY <1>6
  <2>2. stamped' = [b \in Account |-> [t \in 1 .. MaxSecond |->
                      IF <<b, t>> \in Surplus(a, keep) THEN Absent ELSE stamped[b][t]]]
    BY <2>1 DEF CleanupOld
  <2>3. \A b \in Account, t \in 1 .. MaxSecond : stamped[b][t] \in Text
    BY <1>1
  <2>4. stamped' \in [Account -> [1 .. MaxSecond -> Text]]
    BY <1>2, <2>2, <2>3
  <2> QED BY <1>1, <2>1, <2>4 DEF CleanupOld, CheckpointTypeOK
<1>7. CASE \E a \in Account, t \in 1 .. MaxSecond : DeleteCheckpoint(a, t)
  <2>1. stamped' \in [Account -> [1 .. MaxSecond -> Text]]
    BY <1>1, <1>2, <1>7 DEF DeleteCheckpoint
  <2>2. reported' \in [Account -> 0 .. MaxVersion]
    BY <1>1, <1>7, Bounds DEF DeleteCheckpoint
  <2> QED BY <1>1, <1>7, <2>1, <2>2 DEF DeleteCheckpoint, CheckpointTypeOK
<1>8. CASE UNCHANGED checkpointVars
  BY <1>8 DEF checkpointVars, CheckpointTypeOK
<1> QED BY <1>3, <1>4, <1>5, <1>6, <1>7, <1>8 DEF CheckpointNext

\* The clock, the files and the counts have their types.
THEOREM CheckpointTypesHold == CheckpointSpec => []CheckpointTypeOK
<1>1. CheckpointInit => CheckpointTypeOK
  BY CheckpointInitially DEF CheckpointInv
<1> QED BY <1>1, CheckpointTypeStep, PTL DEF CheckpointSpec

\* Kept says it for no death and for one since the save.
LEMMA KeptIsRecoverable == CheckpointInv => ReportedIsRecoverable
<1> SUFFICES ASSUME CheckpointInv, NEW a \in Account, reported[a] # 0, crashes[a] <= 1
             PROVE  \E v \in Recoverable(a) : v >= reported[a]
  BY DEF ReportedIsRecoverable
<1>1. Kept(a)
  BY DEF CheckpointInv
<1>2. crashes[a] \in {0, 1}
  <2>1. crashes[a] \in Nat
    BY CheckpointTypes DEF CheckpointInv
  <2> QED BY <2>1
<1> QED BY <1>1, <1>2 DEF Kept, Recoverable

\* After save_checkpoint has returned, a resume finds that checkpoint or a later
\* one, through any clean-ups and through the death of any one save after it.
THEOREM ReportedStaysRecoverable ==
  ASSUME NoAccountMatchesAnother
  PROVE  CheckpointSpec => []ReportedIsRecoverable
  BY KeptIsRecoverable, CheckpointInitially, CheckpointStep, PTL DEF CheckpointSpec

---------------------------------------------------------------------------
(***************************************************************************)
(* ProxyRegistry. The invariant adds to the types that the names which the *)
(* manager made up number configurations that exist, so that the name a    *)
(* rotation makes up is in use nowhere.                                    *)
(***************************************************************************)
Kinds == {"agent", "rotated", "proxy", "unknown"}

\* The names that are in use once n configurations were made.
UsedName(n) == ProxySession \union Label \union (Kinds \X (0 .. n))

NamedBy(c, n) == c \in Config /\ c.session \in UsedName(n) \union {NoName}

\* Made-up names number configurations that exist: the next one is new.
ProxyInv ==
    /\ proxies \in Seq(Config) /\ Len(proxies) <= MaxProxies
    /\ \A p \in Proxy : NamedBy(proxies[p], Len(proxies))
    /\ current \in Proxy \union {0}
    /\ DOMAIN registry \subseteq UsedName(Len(proxies))
    /\ \A k \in DOMAIN registry : registry[k] \in Proxy
    /\ DOMAIN health \subseteq RegistryKey
    /\ \A k \in DOMAIN health : health[k] \in 1 .. Threshold

\* The constants.
LEMMA ProxyBounds ==
  /\ Threshold \in Nat \ {0} /\ MaxProxies \in Nat /\ DefaultTier \in Tier
  /\ NoName \notin ProxySession \union Label
  BY ProxyAssumption

\* A name that is made up is none that somebody gave.
LEMMA MadeUpIsNew ==
  ASSUME NEW k \in Kinds, NEW n \in 0 .. MaxProxies
  PROVE  MadeUp(k, n) \notin {NoName} \union ProxySession \union Label
  BY ProxyAssumption DEF MadeUp, Kinds

\* Names that were made up stay used.
LEMMA UsedNames ==
  ASSUME NEW n \in Nat, NEW m \in Nat, n <= m, m <= MaxProxies
  PROVE  UsedName(n) \subseteq UsedName(m) /\ UsedName(m) \subseteq RegistryKey
<1>1. 0 .. n \subseteq 0 .. m /\ 0 .. m \subseteq 0 .. MaxProxies
  BY ProxyBounds
<1> QED BY <1>1 DEF UsedName, RegistryKey, Kinds

\* Proxies can be counted.
LEMMA ProxyLen ==
  ASSUME ProxyInv
  PROVE  Len(proxies) \in Nat /\ Len(proxies) \in 0 .. MaxProxies
<1>1. Len(proxies) \in Nat /\ Len(proxies) <= MaxProxies
  BY DEF ProxyInv
<1> QED BY <1>1, ProxyBounds

\* f with k bound to p.
LEMMA PutEffect ==
  ASSUME NEW f, NEW k, NEW p
  PROVE  /\ DOMAIN Put(f, k, p) = {k} \union DOMAIN f /\ Put(f, k, p)[k] = p
         /\ \A j \in DOMAIN f \ {k} : Put(f, k, p)[j] = f[j]
  BY DEF Put

\* A function without some of its keys.
LEMMA DropEffect ==
  ASSUME NEW f, NEW ks
  PROVE  /\ DOMAIN Drop(f, ks) = DOMAIN f \ ks
         /\ \A j \in DOMAIN f \ ks : Drop(f, ks)[j] = f[j]
  BY DEF Drop

\* The key and the bucket of a configuration are names in use.
LEMMA KeysInUse ==
  ASSUME NEW n \in Nat, NEW c, NamedBy(c, n), NEW p \in 0 .. n
  PROVE  SessionKey(c, p) \in UsedName(n) /\ HealthKey(c, p) \in UsedName(n)
<1>1. ConfigId(p) \in UsedName(n)
  BY DEF ConfigId, MadeUp, UsedName, Kinds
<1>2. c.session \in UsedName(n) \union {NoName}
  BY DEF NamedBy
<1>3. c.label \in UsedName(n) \union {NoName}
  BY DEF NamedBy, Config, UsedName
<1> QED BY <1>1, <1>2, <1>3 DEF SessionKey, HealthKey, FirstSet

\* A registration of a new configuration under a name in use.
LEMMA AddStep ==
  ASSUME ProxyInv, NEW c, NEW key, Add(c, key), health' = health,
         NamedBy(c, Len(proxies) + 1), key \in UsedName(Len(proxies) + 1)
  PROVE  ProxyInv'
<1> DEFINE n == Len(proxies)
<1>1. n \in Nat /\ n < MaxProxies /\ n + 1 <= MaxProxies
  BY ProxyLen, ProxyBounds DEF Add
<1>2. proxies' = Append(proxies, c) /\ registry' = Put(registry, key, n + 1) /\ current' = n + 1
  BY DEF Add
<1>3. proxies \in Seq(Config) /\ c \in Config
  BY DEF ProxyInv, NamedBy
<1>4. proxies' \in Seq(Config) /\ Len(proxies') = n + 1
      /\ \A p \in 1 .. n : proxies'[p] = proxies[p]
  BY <1>2, <1>3
<1>5. proxies'[n + 1] = c
  BY <1>2, <1>3
<1>6. UsedName(n) \subseteq UsedName(n + 1)
  BY <1>1, UsedNames
<1>7. ASSUME NEW p \in 1 .. n + 1 PROVE NamedBy(proxies'[p], n + 1)
  <2>1. CASE p = n + 1
    BY <1>5, <2>1
  <2>2. CASE p # n + 1
    <3>1. p \in 1 .. n
      BY <1>1, <2>2
    <3>2. NamedBy(proxies[p], n)
      BY <3>1 DEF ProxyInv, Proxy
    <3> QED BY <1>4, <1>6, <3>1, <3>2 DEF NamedBy
  <2> QED BY <2>1, <2>2
<1>8. DOMAIN registry' \subseteq UsedName(n + 1)
  <2>1. DOMAIN registry' = {key} \union DOMAIN registry
    BY <1>2, PutEffect
  <2> QED BY <1>6, <2>1 DEF ProxyInv
<1>9. \A k \in DOMAIN registry' : registry'[k] \in 1 .. n + 1
  <2>1. ASSUME NEW k \in DOMAIN registry' PROVE registry'[k] \in {n + 1} \union 1 .. n
    <3>1. /\ DOMAIN registry' = {key} \union DOMAIN registry /\ registry'[key] = n + 1
          /\ \A j \in DOMAIN registry \ {key} : registry'[j] = registry[j]
      BY <1>2 DEF Put
    <3>2. \A j \in DOMAIN registry : registry[j] \in 1 .. n
      BY DEF ProxyInv, Proxy
    <3> QED BY <3>1, <3>2
  <2> QED BY <1>1, <2>1
<1>10. current' \in 1 .. n + 1 /\ n + 1 <= MaxProxies
  BY <1>1, <1>2
<1> HIDE DEF n
<1> QED BY <1>4, <1>7, <1>8, <1>9, <1>10 DEF ProxyInv, Proxy

\* A Decodo config is named by what was used.
LEMMA DecodoIsNamed ==
  ASSUME NEW n \in Nat, n <= MaxProxies, NEW s \in UsedName(n), NEW t \in Tier
  PROVE  NamedBy(DecodoConfig(s, t), n)
<1>1. s \in RegistryKey
  BY UsedNames, ProxyBounds
<1>2. DecodoConfig(s, t) \in Config /\ DecodoConfig(s, t).session = s
  BY <1>1 DEF DecodoConfig, Config, TierEndpoint
<1> QED BY <1>2 DEF NamedBy

LEMMA CreateDecodoStep ==
  ASSUME ProxyInv, NEW s \in ProxySession \union {NoName}, NEW t \in Tier, CreateDecodo(s, t)
  PROVE  ProxyInv'
<1> DEFINE n == Len(proxies) + 1
           made == FirstSet(s, MadeUp("agent", n))
<1>1. n \in Nat /\ n <= MaxProxies
  BY ProxyLen, ProxyBounds DEF CreateDecodo, Add
<1>2. made \in UsedName(n)
  BY <1>1 DEF FirstSet, MadeUp, UsedName, Kinds
<1>3. Add(DecodoConfig(made, t), made) /\ health' = health
  BY DEF CreateDecodo
<1> HIDE DEF made
<1> QED BY <1>1, <1>2, <1>3, AddStep, DecodoIsNamed

LEMMA RegisterConfigStep ==
  ASSUME ProxyInv, NEW s \in ProxySession \union {NoName}, NEW l \in Label \union {NoName},
         NEW under \in ProxySession \union {NoName}, RegisterConfig(s, l, under)
  PROVE  ProxyInv'
<1> DEFINE n == Len(proxies) + 1
           c == [provider |-> "other", session |-> s, label |-> l,
                 tier |-> DefaultTier, endpoint |-> OwnEndpoint]
<1>1. Add(c, FirstSet(under, SessionKey(c, n))) /\ health' = health
  BY DEF RegisterConfig
<1>2. n \in Nat /\ n <= MaxProxies /\ n \in 0 .. n
  BY <1>1, ProxyLen, ProxyBounds DEF Add
<1>3. NamedBy(c, n)
  <2>1. s \in RegistryKey \union {NoName} /\ s \in UsedName(n) \union {NoName}
    BY DEF RegistryKey, UsedName
  <2>2. c \in Config /\ c.session = s
    BY <2>1, ProxyBounds DEF Config, OwnEndpoint
  <2> QED BY <2>1, <2>2 DEF NamedBy
<1> HIDE DEF c
<1>4. FirstSet(under, SessionKey(c, n)) \in UsedName(n)
  <2>1. SessionKey(c, n) \in UsedName(n)
    BY <1>2, <1>3, KeysInUse
  <2> QED BY <2>1 DEF FirstSet, UsedName
<1> QED BY <1>1, <1>3, <1>4, AddStep

\* A configuration that exists is registered under its key.
LEMMA PutKeeps ==
  ASSUME ProxyInv, NEW c, NEW p \in Proxy, NamedBy(c, Len(proxies)),
         registry' = Put(registry, SessionKey(c, p), p)
  PROVE  /\ DOMAIN registry' \subseteq UsedName(Len(proxies))
         /\ \A k \in DOMAIN registry' : registry'[k] \in Proxy
<1> DEFINE key == SessionKey(c, p)
<1>1. key \in UsedName(Len(proxies))
  <2>1. p \in 0 .. Len(proxies)
    BY ProxyLen DEF Proxy
  <2> QED BY <2>1, ProxyLen, KeysInUse
<1>2. /\ DOMAIN registry' = {key} \union DOMAIN registry /\ registry'[key] = p
      /\ \A j \in DOMAIN registry \ {key} : registry'[j] = registry[j]
  BY DEF Put
<1> HIDE DEF key
<1> QED BY <1>1, <1>2 DEF ProxyInv

LEMMA SetCurrentStep ==
  ASSUME ProxyInv, NEW p \in Proxy \union {0}, SetCurrent(p)
  PROVE  ProxyInv'
<1>1. proxies' = proxies /\ health' = health /\ current' = p
  BY DEF SetCurrent
<1>2. /\ DOMAIN registry' \subseteq UsedName(Len(proxies))
      /\ \A k \in DOMAIN registry' : registry'[k] \in Proxy
  <2>1. CASE p = 0
    BY <2>1 DEF SetCurrent, ProxyInv
  <2>2. CASE p # 0
    <3>1. p \in Proxy /\ NamedBy(proxies[p], Len(proxies))
      BY <2>2 DEF ProxyInv
    <3> QED BY <2>2, <3>1, PutKeeps DEF SetCurrent
  <2> QED BY <2>1, <2>2
<1> QED BY <1>1, <1>2 DEF ProxyInv, Proxy

\* A config keeps its name in another tier.
LEMMA RetieredIsNamed ==
  ASSUME NEW n, NEW c, NamedBy(c, n), NEW t \in Tier
  PROVE  NamedBy(Retiered(c, t), n)
<1> DEFINE e == IF c.provider = "decodo" THEN TierEndpoint(t) ELSE c.endpoint
<1>1. c \in Config /\ e \in {"decodo", "other"} \X Tier
  BY DEF NamedBy, Config, TierEndpoint
<1>2. Retiered(c, t) = [c EXCEPT !.tier = t, !.endpoint = e]
  BY <1>1 DEF Retiered, Config
<1> HIDE DEF e
<1>3. Retiered(c, t) \in Config /\ Retiered(c, t).session = c.session
  BY <1>1, <1>2 DEF Config
<1> QED BY <1>3 DEF NamedBy

LEMMA SelectTierStep ==
  ASSUME ProxyInv, NEW t \in Tier, SelectTier(t)
  PROVE  ProxyInv'
<1>1. CASE current = 0
  BY <1>1, CreateDecodoStep DEF SelectTier
<1>2. CASE current # 0
  <2> DEFINE c == Retiered(proxies[current], t)
  <2>1. current \in Proxy /\ NamedBy(proxies[current], Len(proxies))
    BY <1>2 DEF ProxyInv
  <2>2. NamedBy(c, Len(proxies))
    BY <2>1, RetieredIsNamed
  <2>3. /\ proxies' = [proxies EXCEPT ![current] = c]
        /\ registry' = Put(registry, SessionKey(c, current), current)
        /\ current' = current /\ health' = health
    BY <1>2 DEF SelectTier
  <2> HIDE DEF c
  <2>4. /\ DOMAIN registry' \subseteq UsedName(Len(proxies))
        /\ \A k \in DOMAIN registry' : registry'[k] \in Proxy
    BY <2>1, <2>2, <2>3, PutKeeps
  <2>5. proxies \in Seq(Config) /\ c \in Config
    BY <2>2 DEF ProxyInv, NamedBy
  <2>6. /\ proxies' \in Seq(Config) /\ Len(proxies') = Len(proxies)
        /\ \A p \in Proxy : proxies'[p] = IF p = current THEN c ELSE proxies[p]
    BY <2>1, <2>3, <2>5 DEF Proxy
  <2>7. \A p \in Proxy : NamedBy(proxies'[p], Len(proxies))
    BY <2>2, <2>6 DEF ProxyInv
  <2> QED BY <2>1, <2>3, <2>4, <2>6, <2>7 DEF ProxyInv, Proxy
<1> QED BY <1>1, <1>2

---------------------------------------------------------------------------
\* How a caller names a proxy.
LEMMA AskedOf ==
  ASSUME NEW a \in Asked
  PROVE  /\ a.by \in {"none", "name", "config"}
         /\ a.by = "name" => a.name \in ProxySession
         /\ a.by = "config" => a.config \in Proxy
<1>1. \/ a \in [by : {"none"}] \/ a \in [by : {"name"}, name : ProxySession]
      \/ a \in [by : {"config"}, config : Proxy]
  BY DEF Asked
<1>2. CASE a \in [by : {"none"}]
  BY <1>2
<1>3. CASE a \in [by : {"name"}, name : ProxySession]
  BY <1>3
<1>4. CASE a \in [by : {"config"}, config : Proxy]
  BY <1>4
<1> QED BY <1>1, <1>2, <1>3, <1>4

\* What is found is a proxy or none.
LEMMA ResolveType ==
  ASSUME ProxyInv, NEW a \in Asked
  PROVE  Resolve(a) \in Proxy \union {0}
<1>1. CASE a.by = "none"
  BY <1>1 DEF Resolve, ProxyInv
<1>2. CASE a.by = "name"
  BY <1>2 DEF Resolve, ProxyInv
<1>3. CASE a.by = "config"
  BY <1>3, AskedOf DEF Resolve
<1> QED BY <1>1, <1>2, <1>3, AskedOf

LEMMA ZeroIsNone == 0 \notin Proxy
  BY DEF Proxy

\* A bucket is a key of the registry.
LEMMA BucketType ==
  ASSUME ProxyInv, NEW a \in Asked
  PROVE  BucketOf(a) \in RegistryKey
<1>1. CASE a.by = "name"
  BY <1>1, AskedOf DEF BucketOf, RegistryKey
<1>2. CASE a.by # "name" /\ Resolve(a) = 0
  <2>1. 0 \in 0 .. MaxProxies
    BY ProxyBounds
  <2> QED BY <1>2, <2>1 DEF BucketOf, MadeUp, RegistryKey
<1>3. CASE a.by # "name" /\ Resolve(a) # 0
  <2> DEFINE p == Resolve(a)
  <2>1. p \in Proxy /\ BucketOf(a) = HealthKey(proxies[p], p)
    BY <1>3, ResolveType DEF BucketOf
  <2> HIDE DEF p
  <2>2. NamedBy(proxies[p], Len(proxies)) /\ p \in 0 .. Len(proxies)
    BY <2>1, ProxyLen DEF ProxyInv, Proxy
  <2>3. HealthKey(proxies[p], p) \in UsedName(Len(proxies))
    BY <2>2, ProxyLen, KeysInUse
  <2> QED BY <2>1, <2>3, ProxyLen, UsedNames DEF ProxyInv
<1> QED BY <1>1, <1>2, <1>3

\* A replacement is named by what was used.
LEMMA ReplacementIsNamed ==
  ASSUME NEW n \in Nat, n <= MaxProxies, NEW c \in Config, NEW s \in UsedName(n)
  PROVE  NamedBy(Replacement(c, s), n)
<1>1. CASE c.provider = "decodo"
  <2>1. c.tier \in Tier
    BY DEF Config
  <2> QED BY <1>1, <2>1, DecodoIsNamed DEF Replacement
<1>2. CASE c.provider # "decodo"
  <2>1. s \in RegistryKey
    BY UsedNames, ProxyBounds
  <2>2. Replacement(c, s) \in Config /\ Replacement(c, s).session = s
    BY <1>2, <2>1 DEF Replacement, Config
  <2> QED BY <2>2 DEF NamedBy
<1> QED BY <1>1, <1>2

\* A rotation: a new configuration under a name that nobody uses; the old one
\* stays as it is, and so does every entry but the two that are dropped.
Rotation(a) ==
    LET old == Resolve(a)
        fresh == MadeUp("rotated", Len(proxies) + 1)
        gone == {SessionKey(proxies[old], old)} \union
                IF a.by = "name" THEN {a.name} ELSE {}
    IN /\ Len(proxies) + 1 <= MaxProxies /\ old \in Proxy
       /\ NamedBy(Replacement(proxies[old], fresh), Len(proxies) + 1)
       /\ proxies' = Append(proxies, Replacement(proxies[old], fresh))
       /\ DOMAIN registry' = {fresh} \union (DOMAIN registry \ gone)
       /\ registry'[fresh] = Len(proxies) + 1
       /\ \A k \in DOMAIN registry \ gone : registry'[k] = registry[k]
       /\ current' = Len(proxies) + 1 /\ health' = health

\* The name that a rotation makes up is new.
LEMMA FreshIsUnused ==
  ASSUME ProxyInv, Len(proxies) + 1 <= MaxProxies
  PROVE  /\ MadeUp("rotated", Len(proxies) + 1) \notin UsedName(Len(proxies))
         /\ MadeUp("rotated", Len(proxies) + 1) \in UsedName(Len(proxies) + 1)
<1>1. Len(proxies) \in Nat /\ Len(proxies) + 1 \in 0 .. MaxProxies
  BY ProxyLen, ProxyBounds
<1>2. MadeUp("rotated", Len(proxies) + 1) \notin ProxySession \union Label
  BY <1>1, MadeUpIsNew DEF Kinds
<1>3. MadeUp("rotated", Len(proxies) + 1) \notin Kinds \X (0 .. Len(proxies))
  BY <1>1 DEF MadeUp
<1>4. MadeUp("rotated", Len(proxies) + 1) \in Kinds \X (0 .. Len(proxies) + 1)
  BY <1>1 DEF MadeUp, Kinds
<1> QED BY <1>2, <1>3, <1>4 DEF UsedName

\* A rotation that raises changes nothing.
LEMMA RotateEffect ==
  ASSUME ProxyInv, NEW a \in Asked, Rotate(a)
  PROVE  UNCHANGED proxyVars \/ Rotation(a)
<1> DEFINE old == Resolve(a)
           n == Len(proxies) + 1
           fresh == MadeUp("rotated", n)
           gone == {SessionKey(proxies[old], old)} \union IF a.by = "name" THEN {a.name} ELSE {}
<1> SUFFICES ASSUME ~ UNCHANGED proxyVars PROVE Rotation(a)
  OBVIOUS
<1>1. old # 0 /\ n <= MaxProxies
  BY DEF Rotate
<1>2. old \in Proxy
  BY <1>1, ResolveType
<1>3. /\ proxies' = Append(proxies, Replacement(proxies[old], fresh))
      /\ registry' = Put(Drop(registry, gone), fresh, n)
      /\ current' = n /\ health' = health
  BY <1>1 DEF Rotate
<1>4. proxies[old] \in Config
  BY <1>2 DEF ProxyInv, NamedBy
<1>5. NamedBy(Replacement(proxies[old], fresh), n)
  <2>1. n \in Nat /\ fresh \in UsedName(n)
    BY <1>1, ProxyLen, FreshIsUnused
  <2> HIDE DEF n, fresh, old
  <2> QED BY <1>1, <1>4, <2>1, ReplacementIsNamed
<1>6. fresh \notin DOMAIN registry
  BY <1>1, FreshIsUnused DEF ProxyInv
<1>7. /\ DOMAIN registry' = {fresh} \union (DOMAIN registry \ gone)
      /\ registry'[fresh] = n
      /\ \A k \in DOMAIN registry \ gone : registry'[k] = registry[k]
  <2> HIDE DEF gone, fresh, n
  <2>1. /\ DOMAIN Drop(registry, gone) = DOMAIN registry \ gone
        /\ \A j \in DOMAIN registry \ gone : Drop(registry, gone)[j] = registry[j]
    BY DropEffect
  <2>2. /\ DOMAIN registry' = {fresh} \union DOMAIN Drop(registry, gone)
        /\ registry'[fresh] = n
        /\ \A j \in DOMAIN Drop(registry, gone) \ {fresh} :
              registry'[j] = Drop(registry, gone)[j]
    BY <1>3 DEF Put
  <2> QED BY <1>6, <2>1, <2>2
<1> QED BY <1>1, <1>2, <1>3, <1>5, <1>7 DEF Rotation

\* A rotation adds a proxy and moves one session or bucket to it.
LEMMA RotationKeepsInv ==
  ASSUME ProxyInv, NEW a \in Asked, Rotation(a)
  PROVE  ProxyInv'
<1> DEFINE old == Resolve(a)
           n == Len(proxies)
           fresh == MadeUp("rotated", n + 1)
           c == Replacement(proxies[old], fresh)
<1>1. n \in Nat /\ n + 1 <= MaxProxies
  BY ProxyLen DEF Rotation
<1>2. proxies' = Append(proxies, c) /\ NamedBy(c, n + 1) /\ current' = n + 1 /\ health' = health
  BY DEF Rotation
<1>3. /\ DOMAIN registry' \subseteq {fresh} \union DOMAIN registry /\ registry'[fresh] = n + 1
      /\ \A k \in DOMAIN registry' \ {fresh} : registry'[k] = registry[k]
  BY DEF Rotation
<1>4. fresh \in UsedName(n + 1) /\ UsedName(n) \subseteq UsedName(n + 1)
  BY <1>1, FreshIsUnused, UsedNames
<1> HIDE DEF c, fresh
<1>5. proxies \in Seq(Config) /\ c \in Config
  BY <1>2 DEF ProxyInv, NamedBy
<1>6. /\ proxies' \in Seq(Config) /\ Len(proxies') = n + 1
      /\ \A p \in 1 .. n : proxies'[p] = proxies[p]
  BY <1>2, <1>5
<1>7. proxies'[n + 1] = c
  BY <1>2, <1>5
<1>8. ASSUME NEW p \in 1 .. n + 1 PROVE NamedBy(proxies'[p], n + 1)
  <2>1. CASE p = n + 1
    BY <1>2, <1>7, <2>1
  <2>2. CASE p # n + 1
    <3>1. p \in 1 .. n
      BY <1>1, <2>2
    <3>2. NamedBy(proxies[p], n)
      BY <3>1 DEF ProxyInv, Proxy
    <3> QED BY <1>4, <1>6, <3>1, <3>2 DEF NamedBy
  <2> QED BY <2>1, <2>2
<1>9. DOMAIN registry' \subseteq UsedName(n + 1)
  BY <1>3, <1>4 DEF ProxyInv
<1>10. \A k \in DOMAIN registry' : registry'[k] \in 1 .. n + 1
  <2>1. \A k \in DOMAIN registry' : registry'[k] \in {n + 1} \union 1 .. n
    BY <1>3 DEF ProxyInv, Proxy
  <2> QED BY <1>1, <2>1
<1>11. current' \in 1 .. n + 1
  BY <1>1, <1>2
<1> HIDE DEF n
<1> QED BY <1>1, <1>2, <1>6, <1>8, <1>9, <1>10, <1>11 DEF ProxyInv, Proxy

LEMMA RecordResultStep ==
  ASSUME ProxyInv, NEW a \in Asked, NEW success \in BOOLEAN, RecordResult(a, success)
  PROVE  ProxyInv'
<1> DEFINE b == BucketOf(a)
           before == IF b \in DOMAIN health THEN health[b] ELSE 0
           after == IF success THEN 0
                    ELSE IF before < Threshold THEN before + 1 ELSE Threshold
<1>1. UNCHANGED <<proxies, current, registry>>
  BY DEF RecordResult
<1>2. health' = IF after = 0 THEN Drop(health, {b}) ELSE Put(health, b, after)
  BY DEF RecordResult
<1>3. b \in RegistryKey
  BY BucketType
<1>4. after \in 0 .. Threshold
  <2>1. before \in 0 .. Threshold
    <3>1. b \in DOMAIN health => health[b] \in 1 .. Threshold
      BY DEF ProxyInv
    <3> QED BY <3>1, ProxyBounds
  <2> HIDE DEF before
  <2> QED BY <2>1, ProxyBounds
<1> HIDE DEF b, after
<1>5. CASE after = 0
  <2>1. /\ DOMAIN health' = DOMAIN health \ {b}
        /\ \A j \in DOMAIN health \ {b} : health'[j] = health[j]
    BY <1>2, <1>5, DropEffect
  <2> QED BY <1>1, <2>1 DEF ProxyInv, Proxy
<1>6. CASE after # 0
  <2>1. after \in 1 .. Threshold
    BY <1>4, <1>6, ProxyBounds
  <2>2. /\ DOMAIN health' = {b} \union DOMAIN health /\ health'[b] = after
        /\ \A j \in DOMAIN health \ {b} : health'[j] = health[j]
    BY <1>2, <1>6, PutEffect
  <2>3. /\ DOMAIN health' \subseteq RegistryKey
        /\ \A k \in DOMAIN health' : health'[k] \in 1 .. Threshold
    BY <1>3, <2>1, <2>2 DEF ProxyInv
  <2> QED BY <1>1, <2>3 DEF ProxyInv, Proxy
<1> QED BY <1>5, <1>6

LEMMA ProxyStep == ProxyInv /\ [ProxyNext]_proxyVars => ProxyInv'
<1> SUFFICES ASSUME ProxyInv, [ProxyNext]_proxyVars PROVE ProxyInv'
  OBVIOUS
<1>1. CASE \E s \in ProxySession \union {NoName}, t \in Tier : CreateDecodo(s, t)
  BY <1>1, CreateDecodoStep
<1>2. CASE \E s, under \in ProxySession \union {NoName}, l \in Label \union {NoName} :
             RegisterConfig(s, l, under)
  BY <1>2, RegisterConfigStep
<1>3. CASE \E p \in Proxy \union {0} : SetCurrent(p)
  BY <1>3, SetCurrentStep
<1>4. CASE \E t \in Tier : SelectTier(t)
  BY <1>4, SelectTierStep
<1>5. CASE \E a \in Asked : Rotate(a)
  <2>1. PICK a \in Asked : Rotate(a)
    BY <1>5
  <2>2. CASE UNCHANGED proxyVars
    BY <2>2 DEF proxyVars, ProxyInv, Proxy
  <2> QED BY <2>1, <2>2, RotateEffect, RotationKeepsInv
<1>6. CASE \E a \in Asked, success \in BOOLEAN : RecordResult(a, success)
  BY <1>6, RecordResultStep
<1>7. CASE UNCHANGED proxyVars
  BY <1>7 DEF proxyVars, ProxyInv, Proxy
<1> QED BY <1>1, <1>2, <1>3, <1>4, <1>5, <1>6, <1>7 DEF ProxyNext

LEMMA ProxyInitially == ProxyInit => ProxyInv
<1> SUFFICES ASSUME ProxyInit PROVE ProxyInv
  OBVIOUS
<1>1. proxies = <<>> /\ Len(proxies) = 0 /\ proxies \in Seq(Config)
  BY DEF ProxyInit
<1>2. DOMAIN registry = {} /\ DOMAIN health = {}
  BY DEF ProxyInit
<1>3. current = 0 /\ Proxy = {}
  BY <1>1 DEF ProxyInit, Proxy
<1> QED BY <1>1, <1>2, <1>3, ProxyBounds DEF ProxyInv

LEMMA ProxyInvHolds == ProxySpec => []ProxyInv
  BY ProxyInitially, ProxyStep, PTL DEF ProxySpec

\* The configurations, the registry and the health buckets have their types:
\* no entry points to a configuration that does not exist.
THEOREM ProxyTypesHold == ProxySpec => []ProxyTypeOK
<1>1. ProxyInv => ProxyTypeOK
  BY ProxyLen, UsedNames, ProxyBounds DEF ProxyInv, ProxyTypeOK
<1> QED BY <1>1, ProxyInvHolds, PTL

\* What a rotation leaves of the other sessions' entries.
RotationSpares(a) ==
    /\ \A p \in Proxy : proxies'[p] = proxies[p]
    /\ \A k \in DOMAIN registry :
         \/ registry[k] = Resolve(a)
         \/ Resolve(a) # 0 /\ k = SessionKey(proxies[Resolve(a)], Resolve(a))
         \/ k \in DOMAIN registry' /\ registry'[k] = registry[k]

\* The sessions that a rotation was not asked for keep their proxy.
LEMMA RotationSparesOthers ==
  ASSUME ProxyInv, proxies' # proxies, NEW a \in Asked, Rotate(a)
  PROVE  RotationSpares(a)
<1>1. Rotation(a)
  BY RotateEffect DEF proxyVars
<1>2. \A p \in Proxy : proxies'[p] = proxies[p]
  <2>1. proxies \in Seq(Config) /\ Replacement(proxies[Resolve(a)],
                                     MadeUp("rotated", Len(proxies) + 1)) \in Config
    BY <1>1 DEF ProxyInv, Rotation, NamedBy
  <2> QED BY <1>1, <2>1 DEF Rotation, Proxy
<1>3. ASSUME NEW k \in DOMAIN registry
      PROVE  \/ registry[k] = Resolve(a)
             \/ Resolve(a) # 0 /\ k = SessionKey(proxies[Resolve(a)], Resolve(a))
             \/ k \in DOMAIN registry' /\ registry'[k] = registry[k]
  <2>1. CASE a.by = "name" /\ k = a.name
    BY <2>1 DEF Resolve
  <2>2. CASE k = SessionKey(proxies[Resolve(a)], Resolve(a))
    BY <1>1, <2>2, ZeroIsNone DEF Rotation
  <2>3. CASE ~ (a.by = "name" /\ k = a.name) /\ k # SessionKey(proxies[Resolve(a)], Resolve(a))
    BY <1>1, <2>3 DEF Rotation
  <2> QED BY <2>1, <2>2, <2>3
<1> QED BY <1>2, <1>3 DEF RotationSpares

\* rotate_proxy changes no configuration that exists and no entry of another
\* session.
THEOREM OthersKeepTheirs == ProxySpec => OthersKeepTheirProxy
<1>1. ProxyInv /\ [ProxyNext]_proxyVars =>
        [proxies' # proxies =>
           \A a \in Asked :
             Rotate(a) =>
               /\ \A p \in Proxy : proxies'[p] = proxies[p]
               /\ \A k \in DOMAIN registry :
                    \/ registry[k] = Resolve(a)
                    \/ Resolve(a) # 0 /\ k = SessionKey(proxies[Resolve(a)], Resolve(a))
                    \/ k \in DOMAIN registry' /\ registry'[k] = registry[k]]_proxyVars
  BY RotationSparesOthers DEF RotationSpares
<1> QED BY <1>1, ProxyInvHolds, PTL DEF ProxySpec, OthersKeepTheirProxy

---------------------------------------------------------------------------
\* Every step of the four together is a step of each, or leaves it alone, so
\* that what is proved of a component holds of the four.
THEOREM StoresImplementParts ==
  StoresSpec => DirSpec /\ CookieSpec /\ CheckpointSpec /\ ProxySpec
<1>1. StoresInit => DirInit /\ CookieInit /\ CheckpointInit /\ ProxyInit
  BY DEF StoresInit
<1>2. [StoresNext]_<<part, dirVars, cookieVars, checkpointVars, proxyVars>> =>
        /\ [DirNext]_dirVars /\ [CookieNext]_cookieVars
        /\ [CheckpointNext]_checkpointVars /\ [ProxyNext]_proxyVars
  BY DEF StoresNext
<1> QED BY <1>1, <1>2, PTL
        DEF StoresSpec, DirSpec, CookieSpec, CheckpointSpec, ProxySpec

\* The variables of the four components have their types.
THEOREM StoresTypesHold == StoresSpec => []StoresTypeOK
<1>1. DirTypeOK /\ CookieTypeOK /\ CheckpointTypeOK /\ ProxyTypeOK => StoresTypeOK
  BY DEF StoresTypeOK
<1> QED BY <1>1, StoresImplementParts, DirTypesHold, CookieTypesHold, CheckpointTypesHold,
           ProxyTypesHold, PTL
=============================================================================
