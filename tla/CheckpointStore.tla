-------------------------- MODULE CheckpointStore --------------------------
(***************************************************************************)
(* The checkpoints of src/core/session_checkpoint.py: every save writes a  *)
(* file named after the second in which the checkpoint was made and then   *)
(* the account's latest file; old ones are cleaned up by name.             *)
(*                                                                         *)
(* A checkpoint in a file is the number of the save that wrote it; an      *)
(* opened file is empty until it is written.                               *)
(***************************************************************************)
EXTENDS Integers, FiniteSets

CONSTANTS Account,
          GlobMatches,      \* accounts whose files match "<account>_*.json"
          MaxVersion,       \* bound on the saves
          MaxSecond,        \* bound on the clock
          MaxCrashes        \* bound on the deaths in an account's saves in a row

ASSUME CheckpointAssumption ==
    /\ GlobMatches \in [Account -> SUBSET Account]
    /\ \A a \in Account : a \in GlobMatches[a]
    /\ MaxVersion \in Nat /\ MaxSecond \in Nat \ {0} /\ MaxCrashes \in Nat

VARIABLES second,       \* the clock, in whole seconds
          captured,     \* checkpoints that were made and not saved yet
          stamped,      \* the files <account>_<second>.json
          latest,       \* the files <account>_latest.json
          reported,     \* the newest checkpoint a save returned for
          versions,     \* how many saves were begun
          crashes       \* account |-> deaths in its saves since one returned

checkpointVars == <<second, captured, stamped, latest, reported, versions, crashes>>

Absent == -1
TornText == 0
Version == 1 .. MaxVersion
Text == {Absent, TornText} \union Version

CheckpointInit ==
    /\ second = 1 /\ captured = {} /\ versions = 0
    /\ crashes = [a \in Account |-> 0]
    /\ stamped = [a \in Account |-> [t \in 1 .. MaxSecond |-> Absent]]
    /\ latest = [a \in Account |-> Absent]
    /\ reported = [a \in Account |-> 0]

\* The clock of create_checkpoint.
Tick == /\ second < MaxSecond
        /\ second' = second + 1
        /\ UNCHANGED <<captured, stamped, latest, reported, versions, crashes>>

\* create_checkpoint, also at the end of capture_from_browser, whose caller
\* saves what it got some time later. A caller holds one checkpoint of an
\* account at a time: saved in another order than they were made, the names
\* of the files would not be in the order of the saves.
CreateCheckpoint(a) ==
    /\ captured' = {c \in captured : c.account # a} \union {[account |-> a, at |-> second]}
    /\ UNCHANGED <<second, stamped, latest, reported, versions, crashes>>

\* save_checkpoint: first the stamped file, then the latest.
Saving(c) == /\ versions < MaxVersion
             /\ versions' = versions + 1
             /\ UNCHANGED second

SaveCheckpoint(c) ==
    /\ Saving(c)
    /\ stamped' = [stamped EXCEPT ![c.account][c.at] = versions + 1]
    /\ latest' = [latest EXCEPT ![c.account] = versions + 1]
    /\ reported' = [reported EXCEPT ![c.account] = versions + 1]
    /\ captured' = captured \ {c}
    /\ crashes' = [crashes EXCEPT ![c.account] = 0]

\* What was in memory is gone with the process.
Dies(c) == /\ Saving(c) /\ crashes[c.account] < MaxCrashes
           /\ crashes' = [crashes EXCEPT ![c.account] = @ + 1]
           /\ captured' = {}
           /\ UNCHANGED reported

\* For comparison: both files are opened before either is written.
DieSavingBoth(c) ==
    /\ Dies(c)
    /\ stamped' = [stamped EXCEPT ![c.account][c.at] = TornText]
    /\ latest' = [latest EXCEPT ![c.account] = TornText]

\* The process dies in one of the two writes.
DieSaving(c) ==
    /\ Dies(c)
    /\ \/ /\ stamped' = [stamped EXCEPT ![c.account][c.at] = TornText]
          /\ UNCHANGED latest
       \/ /\ stamped' = [stamped EXCEPT ![c.account][c.at] = versions + 1]
          /\ latest' = [latest EXCEPT ![c.account] = TornText]

\* list_checkpoints of an account without the latest files, in the order of
\* their names: an account's own files come before those of an account whose
\* name continues its own.
Listed(a) == {f \in GlobMatches[a] \X (1 .. MaxSecond) : stamped[f[1]][f[2]] # Absent}
Before(a, f, g) == IF f[1] = g[1] THEN f[2] < g[2] ELSE f[1] = a

\* checkpoints[:-keep]: with keep = 0 that is the empty slice.
Surplus(a, keep) ==
    IF keep = 0 THEN {}
    ELSE {f \in Listed(a) : Cardinality({g \in Listed(a) : Before(a, f, g)}) >= keep}

\* cleanup_old_checkpoints
CleanupOld(a, keep) ==
    /\ stamped' = [b \in Account |-> [t \in 1 .. MaxSecond |->
                     IF <<b, t>> \in Surplus(a, keep) THEN Absent ELSE stamped[b][t]]]
    /\ UNCHANGED <<second, captured, latest, reported, versions, crashes>>

\* delete_checkpoint of a stamped file; what the caller deletes is not
\* expected back.
DeleteCheckpoint(a, t) ==
    /\ stamped[a][t] # Absent
    /\ stamped' = [stamped EXCEPT ![a][t] = Absent]
    /\ reported' = [reported EXCEPT ![a] = IF stamped[a][t] >= @ THEN 0 ELSE @]
    /\ UNCHANGED <<second, captured, latest, versions, crashes>>

CheckpointNext ==
    \/ Tick
    \/ \E a \in Account : CreateCheckpoint(a)
    \/ \E c \in captured : SaveCheckpoint(c) \/ DieSaving(c)
    \/ \E a \in Account, keep \in 0 .. 2 : CleanupOld(a, keep)
    \/ \E a \in Account, t \in 1 .. MaxSecond : DeleteCheckpoint(a, t)

CheckpointSpec == CheckpointInit /\ [][CheckpointNext]_checkpointVars

---------------------------------------------------------------------------
\* Types of the variables.
CheckpointTypeOK ==
    /\ second \in 1 .. MaxSecond
    /\ captured \subseteq [account : Account, at : 1 .. MaxSecond]
    /\ stamped \in [Account -> [1 .. MaxSecond -> Text]]
    /\ latest \in [Account -> Text]
    /\ reported \in [Account -> 0 .. MaxVersion]
    /\ versions \in 0 .. MaxVersion /\ crashes \in [Account -> 0 .. MaxCrashes]

\* What can be read of an account, from either kind of file.
Recoverable(a) == {latest[a]} \union {stamped[a][t] : t \in 1 .. MaxSecond}

\* Once save_checkpoint has returned, a resume finds that checkpoint, or one
\* saved after it, although the process dies in the account's next save, in
\* the same second or not, and whatever is cleaned up: the two files are never
\* both in danger (the order of the writes in save_checkpoint). Of two deaths
\* in a row the second may tear the only file that the first one left whole.
ReportedIsRecoverable ==
    \A a \in Account :
        reported[a] # 0 /\ crashes[a] <= 1 =>
            \E v \in Recoverable(a) : v >= reported[a]

=============================================================================
