---------------------------- MODULE SessionDirs ----------------------------
(***************************************************************************)
(* The session directories of src/sessions/session_manager.py and the      *)
(* browsers of one process that work in them: creation, reuse, cloning,    *)
(* pruning, the quarantine of a session whose account was restricted, and  *)
(* a write that fails or a death of the process in the middle of them.     *)
(*                                                                         *)
(* A directory holds meta.json and data (cookies.json, state.json and the  *)
(* profile); of the data the model keeps whether it is that of a           *)
(* restricted account. A file is opened for writing, which empties it, and *)
(* then written: an error or a death in between leaves it torn.            *)
(***************************************************************************)
EXTENDS Naturals, FiniteSets

CONSTANTS Session,      \* the names in use, made up or chosen
          MaxBroken     \* bound on the writes that are broken off

ASSUME DirAssumption == MaxBroken \in Nat

VARIABLES dir,          \* the directories under base_dir
          user,         \* the sessions that live browsers work in
          dead,         \* the process has died and not been restarted
          broken        \* how many writes an error or a death has broken off

dirVars == <<dir, user, dead, broken>>

\* meta.json as the set of its flags that are true.
Meta == SUBSET {"ephemeral", "anonymous", "compromised"}
Missing == {"missing"}
Torn == {"torn"}
NoDir == [exists |-> FALSE]
Dir == [exists : {TRUE}, meta : {Missing, Torn} \union Meta,
        data : {"none", "good", "tainted"}]

DirInit == /\ dir = [s \in Session |-> NoDir]
           /\ user = {}
           /\ dead = FALSE /\ broken = 0

---------------------------------------------------------------------------
Exists(s) == dir[s].exists
Readable(s) == Exists(s) /\ dir[s].meta \in Meta
Flagged(s) == Exists(s) /\ "compromised" \in dir[s].meta
Tainted(s) == Exists(s) /\ dir[s].data = "tainted"

\* A change of one directory that writes its meta.json last: it happens, or an
\* error or the death of the process breaks it off, before the file is opened
\* or while it is open.
Breaks(deadly) == /\ broken < MaxBroken /\ broken' = broken + 1
                  /\ dead' \in deadly
WriteMeta(s, d, meta) ==
    \/ /\ dir' = [dir EXCEPT ![s] = [d EXCEPT !.meta = meta]]
       /\ UNCHANGED <<dead, broken>>
    \/ /\ Breaks(BOOLEAN)
       /\ \E m \in {d.meta, Torn} : dir' = [dir EXCEPT ![s] = [d EXCEPT !.meta = m]]

\* The directory that mkdir(exist_ok=True) leaves.
Made(s) == IF Exists(s) THEN dir[s]
           ELSE [exists |-> TRUE, meta |-> Missing, data |-> "none"]

\* For comparison: a create_session that does not look at the old meta.json.
PreservedNothing(s) == {}

\* The flag that create_session carries over: only what it can read.
Preserved(s) == {f \in {"compromised"} : Flagged(s)}

\* create_session under a name that may be taken: by AgentBrowser, which
\* works in the session from then on, or by itself. An error of the write is
\* raised to the caller, who then has no session.
CreateSession(s, anonymous, ephemeral, browser) ==
    /\ anonymous => ~ Exists(s)     \* the name is made up then
    /\ WriteMeta(s, Made(s), {f \in {"ephemeral"} : ephemeral} \union
                             {f \in {"anonymous"} : anonymous} \union Preserved(s))
    /\ user' = IF browser /\ broken' = broken THEN user \union {s} ELSE user

\* A browser stores cookies and its profile in its directory.
StoreData(s) ==
    /\ s \in user /\ Exists(s) /\ dir[s].data = "none"
    /\ dir' = [dir EXCEPT ![s].data = "good"]
    /\ UNCHANGED <<user, dead, broken>>

\* rmtree(ignore_errors=True) of a directory: everything goes, or whatever
\* cannot be removed stays.
Stays == {stays \in SUBSET {"dir", "meta", "data"} : stays # {} => "dir" \in stays}
Removed(d, stays) ==
    IF stays = {} THEN NoDir
    ELSE [d EXCEPT !.meta = IF "meta" \in stays THEN @ ELSE Missing,
                   !.data = IF "data" \in stays THEN @ ELSE "none"]

\* cleanup_session of an account that was restricted: its data is tainted
\* from then on, and the flag is set when meta.json can be read; an error of
\* that write is swallowed. With remove_dir the directory is removed after
\* that, and the call says "removed" whatever is left of it.
CleanupSession(s, removeDir) ==
    /\ Exists(s)
    /\ LET tainted == [dir[s] EXCEPT !.data = IF @ = "none" THEN @ ELSE "tainted"]
           marked == [tainted EXCEPT !.meta = IF Readable(s) THEN @ \union {"compromised"}
                                              ELSE @]
           Left(d) == \E stays \in IF removeDir THEN Stays ELSE {{"dir", "meta", "data"}} :
                         dir' = [dir EXCEPT ![s] = Removed(d, stays)]
       IN \/ Left(marked) /\ UNCHANGED <<dead, broken>>
          \/ /\ Readable(s)
             /\ \E m \in {dir[s].meta, Torn} :
                   LET d == [tainted EXCEPT !.meta = m] IN
                   \/ Breaks({FALSE}) /\ Left(d)
                   \/ Breaks({TRUE}) /\ dir' = [dir EXCEPT ![s] = d]
    /\ UNCHANGED user

\* prune_ephemeral removes every directory whose meta.json says so and that
\* is old enough, in use or not; what cannot be read is skipped.
PruneEphemeral(old) ==
    /\ LET gone == {s \in old : Exists(s) /\ "ephemeral" \in dir[s].meta} IN
       \E stays \in [gone -> Stays] :
          dir' = [s \in Session |-> IF s \in gone THEN Removed(dir[s], stays[s])
                                   ELSE dir[s]]
    /\ UNCHANGED <<user, dead, broken>>

\* clone_session: create_session's write, then the copies, whose errors are
\* swallowed, then meta.json once more. create_session makes up another name
\* for the clone of an anonymous session, so that the copies have no directory
\* to go to: that clone stays empty. The flag is not among what is copied.
CloneSession(source, new) ==
    /\ Readable(source) /\ ~ Exists(new)
    /\ LET anonymous == "anonymous" \in dir[source].meta
           meta == {f \in {"anonymous"} : anonymous}
       IN \/ WriteMeta(new, Made(new), meta)
          \/ ~ anonymous /\ WriteMeta(new, [Made(new) EXCEPT !.meta = meta,
                                              !.data = dir[source].data], meta)
    /\ UNCHANGED user

\* close() of a browser leaves the directory as it is, ephemeral or not.
CloseBrowser(s) ==
    /\ s \in user
    /\ user' = user \ {s}
    /\ UNCHANGED <<dir, dead, broken>>

DirRestart == /\ dead
              /\ dead' = FALSE /\ user' = {}
              /\ UNCHANGED <<dir, broken>>

DirNext ==
    \/ /\ ~ dead
       /\ \/ \E s \in Session, anonymous, ephemeral, browser \in BOOLEAN :
                CreateSession(s, anonymous, ephemeral, browser)
          \/ \E s \in Session : StoreData(s)
          \/ \E s \in Session, removeDir \in BOOLEAN : CleanupSession(s, removeDir)
          \/ \E old \in SUBSET Session : PruneEphemeral(old)
          \/ \E source, new \in Session : CloneSession(source, new)
          \/ \E s \in Session : CloseBrowser(s)
    \/ DirRestart

DirSpec == DirInit /\ [][DirNext]_dirVars

---------------------------------------------------------------------------
\* Types of the variables.
DirTypeOK ==
    /\ dir \in [Session -> {NoDir} \union Dir]
    /\ user \subseteq Session
    /\ dead \in BOOLEAN /\ broken \in 0 .. MaxBroken

\* The quarantine of a restricted account's data is lifted by damage only:
\* a meta.json that an error or a death tore, or that a removal took while
\* the data stayed. No sequence of creating, resuming, cleaning up and
\* pruning sessions clears the flag over the data (create_session reads the
\* old flag before it writes).
OnlyDamageLiftsQuarantine ==
    [][\A s \in Session :
         Flagged(s) /\ Tainted(s) /\ Tainted(s)' =>
            Flagged(s)' \/ ~ Readable(s)']_dirVars

=============================================================================
