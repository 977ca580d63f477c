---------------------------- MODULE CookieStore ----------------------------
(***************************************************************************)
(* Cookies of one AgentBrowser between its context, the managers that hold *)
(* a copy of them and the files they are saved to: CookieManager and       *)
(* SessionOrchestrator of src/sessions/cookie_manager.py with the cookie   *)
(* operations of src/core/agent_browser.py.                                *)
(*                                                                         *)
(* A cookie list is a set of cookies. A file is a plaintext with its       *)
(* keyless signature, or encrypted under a key; it is emptied when it is   *)
(* opened for writing, so that a process that dies leaves it torn.         *)
(***************************************************************************)
EXTENDS Naturals, FiniteSets

CONSTANTS Cookie,
          OnSite,       \* the cookies of the domains a caller allows
          Name,         \* sessions of the orchestrator
          Key,          \* keys of at least 32 characters
          ShortKey,     \* a key that _get_cipher refuses
          NoKey,
          MaxFaults     \* bound on the deaths of the process and the context

ASSUME CookieAssumption == /\ OnSite \subseteq Cookie
                           /\ ShortKey \notin Key /\ NoKey \notin Key \union {ShortKey}
                           /\ MaxFaults \in Nat

VARIABLES ctx,          \* AgentBrowser.browser and the cookies it holds
          manager,      \* AgentBrowser.cookie_manager
          orch,         \* AgentBrowser.session_orchestrator
          file,         \* the files, by path
          tainted,      \* cookies that were cleaned out and not brought back
          down,         \* the process has died and not been restarted
          faults

cookieVars == <<ctx, manager, orch, file, tainted, down, faults>>

\* One cookie file and a bundle of each session.
Path == {"cookies"} \union Name

NoFile == [state |-> "missing"]
TornFile == [state |-> "torn"]
Saved == [state : {"saved"}, key : Key \union {NoKey}, data : SUBSET Cookie,
          kind : {"cookies", "bundle"}]
Content(key, data, kind) ==
    [state |-> "saved", key |-> key, data |-> data, kind |-> kind]

\* A manager: its list, and whether browser_context is the context that is
\* in use, one that is closed by now, or none.
Manager == [list : SUBSET Cookie, context : {"current", "closed", "none"}]
NoManager == [list |-> {}, context |-> "no manager"]

\* The orchestrator: the sessions its CookieManager made, and those of them
\* that are in active_sessions.
NoOrch == [cms |-> [n \in Name |-> NoManager], active |-> {}]

NoContext == [state |-> "none", jar |-> {}]

CookieInit ==
    /\ ctx = NoContext /\ manager = NoManager /\ orch = NoOrch
    /\ file = [p \in Path |-> NoFile]
    /\ tainted = {} /\ down = FALSE /\ faults = 0

---------------------------------------------------------------------------
Live == ctx.state = "live"
Launched == ctx.state # "none"          \* a crashed context is still set
HasManager == manager # NoManager

\* _refresh_cookies_from_context: a context that raises leaves the old list.
Refreshed(m) == IF m.context = "current" /\ Live THEN [m EXCEPT !.list = ctx.jar] ELSE m

\* _get_cipher: no cipher without a key, and a refusal of a short one.
Refused(key) == key = ShortKey

\* _validate_cookie_domains
Filtered(data, allowed) == IF allowed THEN data \intersect OnSite ELSE data

\* What load_cookies and import_session_bundle read with a key: the wrong key
\* of an encrypted file, and any key for a plaintext, whose signature is
\* keyless, are errors.
Reads(p, key) == /\ file[p].state = "saved"
                 /\ ~ Refused(key)
                 /\ file[p].key = key

\* One write: it is done, or the process dies while the file is open.
Write(p, content) ==
    \/ /\ file' = [file EXCEPT ![p] = content]
       /\ UNCHANGED <<down, faults>>
    \/ /\ faults < MaxFaults
       /\ file' = [file EXCEPT ![p] = TornFile]
       /\ down' = TRUE /\ faults' = faults + 1

NoWrite == UNCHANGED <<file, down, faults>>

\* add_cookies on the current context, if the manager has it.
Added(m, data) == IF m.context = "current" /\ Live
                  THEN [ctx EXCEPT !.jar = @ \union data] ELSE ctx

---------------------------------------------------------------------------
\* The context: launch(), the pages' cookies, a crash of the browser, and
\* close() or a relaunch, after which managers still hold the old context.
LaunchContext ==
    /\ ctx.state = "none"
    /\ ctx' = [state |-> "live", jar |-> {}]
    /\ UNCHANGED <<manager, orch, tainted>> /\ NoWrite

PageSets(c) ==
    /\ Live
    /\ ctx' = [ctx EXCEPT !.jar = @ \union {c}]
    /\ tainted' = tainted \ {c}
    /\ UNCHANGED <<manager, orch>> /\ NoWrite

ContextCrashes ==
    /\ Live /\ faults < MaxFaults
    /\ ctx' = [ctx EXCEPT !.state = "crashed"] /\ faults' = faults + 1
    /\ UNCHANGED <<manager, orch, file, tainted, down>>

Unbound(m) == IF m.context = "current" THEN [m EXCEPT !.context = "closed"] ELSE m

CloseContext ==
    /\ Launched
    /\ ctx' = NoContext
    /\ manager' = Unbound(manager)
    /\ orch' = [orch EXCEPT !.cms = [n \in Name |-> Unbound(orch.cms[n])]]
    /\ UNCHANGED tainted /\ NoWrite

\* load_cookies_from_file: a new manager whatever comes of the load, and a
\* new, empty orchestrator after a success.
LoadCookiesFromFile(key, allowed) ==
    LET data == Filtered(file["cookies"].data, allowed)
        new == [list |-> {}, context |-> "current"]
    IN /\ Launched
       /\ IF Reads("cookies", key)
          THEN /\ manager' = [new EXCEPT !.list = data]
               /\ ctx' = Added(new, data)
               /\ orch' = IF Live \/ data = {} THEN NoOrch ELSE orch
               /\ tainted' = tainted \ data
          ELSE manager' = new /\ UNCHANGED <<ctx, orch, tainted>>
       /\ NoWrite

\* load_cookies_from_data of a list, or of a payload with its key, that the
\* caller passes in memory, or of what it allows of that; after an error, of a
\* key that is refused or another's, all is as it was.
LoadCookiesFromData(data) ==
    /\ HasManager
    /\ manager' = [manager EXCEPT !.list = data]
    /\ ctx' = Added(manager, data)
    /\ tainted' = tainted \ data
    /\ UNCHANGED orch /\ NoWrite

\* save_cookies_to_file: the manager is bound to the context of the moment
\* first. A short key raises before the file is opened.
Bound == IF HasManager THEN [manager EXCEPT !.context = "current"]
         ELSE [list |-> {}, context |-> "current"]

SaveCookiesToFile(key) ==
    LET m == Refreshed(Bound) IN
    /\ Launched
    /\ manager' = m
    /\ IF m.list = {} \/ Refused(key) THEN NoWrite
       ELSE Write("cookies", Content(key, m.list, "cookies"))
    /\ UNCHANGED <<ctx, orch, tainted>>

\* get_cookie_health and ensure_cookies_fresh (refresh_cookies_if_needed)
\* report on the list and take over the context's on the way.
CheckCookies ==
    /\ HasManager
    /\ manager' = Refreshed(manager)
    /\ UNCHANGED <<ctx, orch, tainted>> /\ NoWrite

\* For comparison: a clear_cookies that clears the context only.
ClearKeepsList(m) == m

\* cleanup_compromised_session: clear_cookies of the manager, on whatever
\* context it is bound to, and then of the context in use.
ClearCookies(m) == [m EXCEPT !.list = {}]

CleanupCompromised ==
    /\ manager' = IF HasManager THEN ClearCookies(manager) ELSE manager
    /\ ctx' = IF Live THEN [ctx EXCEPT !.jar = {}] ELSE ctx
    /\ tainted' = IF Live THEN ctx.jar \union manager.list ELSE manager.list
    /\ UNCHANGED orch /\ NoWrite

---------------------------------------------------------------------------
\* create_resilient_session of the orchestrator's CookieManager: a manager of
\* the session's own, bound to nothing, and the one it has if there is one.
Resilient(n) == IF orch.cms[n] = NoManager THEN [list |-> {}, context |-> "none"]
                ELSE orch.cms[n]

\* start_session of the orchestrator, with or without the cookie file, which
\* it reads without a key.
StartSession(n, load) ==
    LET read == load /\ Reads("cookies", NoKey)
        data == IF read THEN file["cookies"].data ELSE {}
    IN /\ orch' = [active |-> orch.active \union {n},
                   cms |-> [orch.cms EXCEPT ![n] =
                       IF read THEN [Resilient(n) EXCEPT !.list = data]
                       ELSE Resilient(n)]]
       /\ ctx' = IF read THEN Added(Resilient(n), data) ELSE ctx
       /\ tainted' = IF read THEN tainted \ data ELSE tainted
       /\ UNCHANGED manager /\ NoWrite

\* The caller binds the session's manager to the browser: nothing else does.
WireSession(n) ==
    /\ orch.cms[n] # NoManager /\ Launched
    /\ orch' = [orch EXCEPT !.cms[n].context = "current"]
    /\ UNCHANGED <<ctx, manager, tainted>> /\ NoWrite

\* export_session_bundle asks the context that the session's manager is bound
\* to and leaves the manager's own list out.
Exported(n) == IF orch.cms[n].context = "current" /\ Live THEN ctx.jar ELSE {}

ExportBundle(n, key) ==
    /\ orch.cms[n] # NoManager /\ ~ Refused(key)
    /\ Write(n, Content(key, Exported(n), "bundle"))
    /\ UNCHANGED <<ctx, manager, orch, tainted>>

\* export_all, without a key: the sessions that were started or created
\* through the orchestrator, but not those that were imported.
ExportAll ==
    /\ file' = [p \in Path |->
                 IF p \in orch.active THEN Content(NoKey, Exported(p), "bundle")
                 ELSE file[p]]
    /\ UNCHANGED <<ctx, manager, orch, tainted, down, faults>>

\* import_session_bundle of the bundle of n into a session.
ImportBundle(n, target, key, allowed) ==
    LET data == Filtered(file[n].data, allowed)
        m == [Resilient(target) EXCEPT !.list = IF data = {} THEN @ ELSE data]
    IN /\ Reads(n, key)
       /\ orch' = [orch EXCEPT !.cms[target] = m]
       /\ ctx' = Added(m, data)
       /\ tainted' = tainted \ data
       /\ UNCHANGED manager /\ NoWrite

\* _try_decrypt_with_keys: the old key, of those given, that opens the file.
Unlocked(p, oldKey) == file[p].state = "saved" /\ file[p].key = oldKey

\* For comparison: a rotation that writes the list of the manager at hand.
RotateKeyOfManager(p, oldKey, newKey) ==
    /\ Unlocked(p, oldKey)
    /\ Write(p, Content(newKey, manager.list, file[p].kind))
    /\ UNCHANGED <<ctx, manager, orch, tainted>>

\* rotate_encryption_key of one file, in place (with a target_path the file
\* itself stays as it is). The old keys are tried in turn; what is not
\* encrypted under one of them stays.
RotateKey(p, oldKey, newKey) ==
    /\ Unlocked(p, oldKey)
    /\ Write(p, Content(newKey, file[p].data, file[p].kind))
    /\ UNCHANGED <<ctx, manager, orch, tainted>>

CookieRestart ==
    /\ down /\ down' = FALSE
    /\ ctx' = NoContext /\ manager' = NoManager /\ orch' = NoOrch
    /\ UNCHANGED <<file, tainted, faults>>

AnyKey == Key \union {ShortKey, NoKey}

CookieNext ==
    \/ /\ ~ down
       /\ \/ LaunchContext \/ ContextCrashes \/ CloseContext
          \/ CheckCookies \/ CleanupCompromised \/ ExportAll
          \/ \E c \in Cookie : PageSets(c)
          \/ \E key \in AnyKey, allowed \in BOOLEAN : LoadCookiesFromFile(key, allowed)
          \/ \E data \in SUBSET Cookie : LoadCookiesFromData(data)
          \/ \E key \in AnyKey : SaveCookiesToFile(key)
          \/ \E n \in Name, load \in BOOLEAN : StartSession(n, load)
          \/ \E n \in Name : WireSession(n)
          \/ \E n \in Name, key \in AnyKey : ExportBundle(n, key)
          \/ \E n, target \in Name, key \in AnyKey, allowed \in BOOLEAN :
                ImportBundle(n, target, key, allowed)
          \/ \E p \in Path, oldKey, newKey \in Key : RotateKey(p, oldKey, newKey)
    \/ CookieRestart

CookieSpec == CookieInit /\ [][CookieNext]_cookieVars

---------------------------------------------------------------------------
\* Types of the variables.
CookieTypeOK ==
    /\ ctx \in [state : {"none", "live", "crashed"}, jar : SUBSET Cookie]
    /\ manager \in Manager \union {NoManager}
    /\ orch \in [cms : [Name -> Manager \union {NoManager}], active : SUBSET Name]
    /\ file \in [Path -> {NoFile, TornFile} \union Saved]
    /\ tainted \subseteq Cookie
    /\ down \in BOOLEAN /\ faults \in 0 .. MaxFaults

\* Cookies that cleanup_compromised_session cleared come back through a page,
\* a file or a bundle only, never from a copy that some manager kept: neither
\* the context in use nor the list that the next save would write when that
\* context fails to answer has them.
CleanedStaysOut ==
    /\ Live => ctx.jar \intersect tainted = {}
    /\ manager.list \intersect tainted = {}

\* Changing keys loses nothing: a rotation in place leaves the cookies as
\* they were, to be read with the new key and with no other, unless the
\* process dies in the middle of it.
RotationKeepsCookies ==
    [][\A p \in Path :
         file'[p] # file[p] /\ ~ down' =>
         \A oldKey, newKey \in Key :
            RotateKey(p, oldKey, newKey) =>
               /\ file'[p].state = "saved" /\ file'[p].data = file[p].data
               /\ \A key \in AnyKey : Reads(p, key)' <=> key = newKey]_cookieVars

=============================================================================
