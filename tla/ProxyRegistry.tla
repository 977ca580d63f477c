--------------------------- MODULE ProxyRegistry ---------------------------
(***************************************************************************)
(* ProxyManager of src/proxy/proxy_manager.py: the configurations of one   *)
(* manager, the registry that says which configuration a session uses, the *)
(* current configuration that callers without a session name get, and the  *)
(* health buckets that decide when a proxy has to be rotated.              *)
(*                                                                         *)
(* A ProxyConfig is an object that several registry entries may share and  *)
(* that select_tier changes in place, so configurations live on a heap     *)
(* (proxies) and everything else holds their index; 0 is no configuration. *)
(* Of the fields the model keeps the names that identify a configuration,  *)
(* the owner of the credentials and the endpoint they are sent to; the id  *)
(* that _ensure_config_id makes up on demand is a function of the index.   *)
(***************************************************************************)
EXTENDS Naturals, Sequences, FiniteSets

CONSTANTS ProxySession, \* session names that callers choose
          Label,        \* human-facing names of configurations
          Tier,         \* proxy tiers, each with an endpoint of Decodo
          DefaultTier,
          NoName,       \* a field that is not set
          Threshold,    \* consecutive failures that ask for a rotation
          MaxProxies,   \* bound on the configurations made
          MaxFailing    \* bound on the buckets that fail at a time

ASSUME ProxyAssumption ==
    /\ Threshold \in Nat \ {0} /\ MaxProxies \in Nat /\ MaxFailing \in Nat
    /\ DefaultTier \in Tier
    /\ NoName \notin ProxySession \union Label
    /\ ({NoName} \union ProxySession \union Label) \intersect
          ({"agent", "rotated", "proxy", "unknown"} \X (0 .. MaxProxies)) = {}

VARIABLES proxies,      \* the configurations, in the order they were made
          current,      \* _current_config
          registry,     \* _configs_by_session
          health        \* _proxy_health: the buckets whose last request
                        \* failed, with their consecutive failures

proxyVars == <<proxies, current, registry, health>>

Proxy == 1 .. Len(proxies)

\* Names that the manager makes up hold a uuid: no two of them are equal.
MadeUp(kind, p) == <<kind, p>>
RegistryKey == ProxySession \union Label
         \union ({"agent", "rotated", "proxy", "unknown"} \X (0 .. MaxProxies))

\* The endpoint of a tier; a provider other than Decodo has its own.
TierEndpoint(t) == <<"decodo", t>>
OwnEndpoint == <<"other", DefaultTier>>

Config == [provider : {"decodo", "other"}, session : RegistryKey \union {NoName},
           label : Label \union {NoName}, tier : Tier,
           endpoint : {"decodo", "other"} \X Tier]

ProxyInit == /\ proxies = <<>> /\ current = 0
             /\ registry = <<>> /\ health = <<>>

---------------------------------------------------------------------------
\* The first of two names that is set.
FirstSet(a, b) == IF a # NoName THEN a ELSE b

\* _ensure_config_id
ConfigId(p) == MadeUp("proxy", p)

\* For comparison: a key for configurations that have a name only.
SessionKeyUnset(c, p) == FirstSet(c.session, c.label)

\* _session_key_for: the registry's key of a configuration ...
SessionKey(c, p) == FirstSet(FirstSet(c.session, c.label), ConfigId(p))

\* ... and _health_key: its bucket, for which the label comes first.
HealthKey(c, p) == FirstSet(FirstSet(c.label, c.session), ConfigId(p))

\* What callers pass for a session: nothing, a name or a configuration.
Asked == [by : {"none"}] \union [by : {"name"}, name : ProxySession]
           \union [by : {"config"}, config : Proxy]

\* get_config
Resolve(a) == CASE a.by = "none"   -> current
                [] a.by = "name"   -> IF a.name \in DOMAIN registry
                                      THEN registry[a.name] ELSE 0
                [] a.by = "config" -> a.config

\* _health_key of what a caller passes: a name is a bucket as it is.
BucketOf(a) ==
    IF a.by = "name" THEN a.name
    ELSE LET p == Resolve(a) IN
         IF p = 0 THEN MadeUp("unknown", 0) ELSE HealthKey(proxies[p], p)

\* should_rotate_proxy
ShouldRotate(a) == /\ BucketOf(a) \in DOMAIN health
                   /\ a.by = "none" => current # 0
                   /\ health[BucketOf(a)] >= Threshold

\* get_playwright_proxy_args: no configuration means no proxy at all.
DirectConnection(a) == Resolve(a) = 0

\* A dictionary with key k set to v, and without the keys ks.
Put(f, k, v) == [j \in {k} \union DOMAIN f |-> IF j = k THEN v ELSE f[j]]
Drop(f, ks) == [k \in DOMAIN f \ ks |-> f[k]]

---------------------------------------------------------------------------
\* The registration of a configuration that was just made.
Add(c, key) ==
    LET p == Len(proxies) + 1 IN
    /\ Len(proxies) < MaxProxies
    /\ proxies' = Append(proxies, c)
    /\ registry' = Put(registry, key, p)
    /\ current' = p

DecodoConfig(s, t) ==
    [provider |-> "decodo", session |-> s, label |-> NoName, tier |-> t,
     endpoint |-> TierEndpoint(t)]

\* create_decodo_config, which makes up a session name when it gets none.
CreateDecodo(s, t) ==
    LET made == FirstSet(s, MadeUp("agent", Len(proxies) + 1)) IN
    /\ Add(DecodoConfig(made, t), made)
    /\ UNCHANGED health

\* register_config, with its aliases set_config_for_session and
\* register_session_config, of a configuration that the caller made for
\* another provider: under the given session name or under its own key.
RegisterConfig(s, l, under) ==
    LET c == [provider |-> "other", session |-> s, label |-> l,
              tier |-> DefaultTier, endpoint |-> OwnEndpoint]
    IN /\ Add(c, FirstSet(under, SessionKey(c, Len(proxies) + 1)))
       /\ UNCHANGED health

\* The setter of current_config.
SetCurrent(p) ==
    /\ current' = p
    /\ registry' = IF p = 0 THEN registry
                   ELSE Put(registry, SessionKey(proxies[p], p), p)
    /\ UNCHANGED <<proxies, health>>

\* The endpoint moves with the tier for Decodo only.
Retiered(c, t) ==
    [c EXCEPT !.tier = t,
              !.endpoint = IF c.provider = "decodo" THEN TierEndpoint(t) ELSE @]

\* select_tier changes the current configuration in place, for every session
\* that holds it, or makes the first one.
SelectTier(t) ==
    \/ /\ current = 0
       /\ CreateDecodo(NoName, t)
    \/ /\ current # 0
       /\ LET c == Retiered(proxies[current], t) IN
          /\ proxies' = [proxies EXCEPT ![current] = c]
          /\ registry' = Put(registry, SessionKey(c, current), current)
       /\ UNCHANGED <<current, health>>

\* What a rotation replaces a configuration by: a new sticky session at
\* Decodo, or _clone_with_new_session, which keeps everything else.
Replacement(c, fresh) ==
    IF c.provider = "decodo" THEN DecodoConfig(fresh, c.tier)
    ELSE [c EXCEPT !.session = fresh]

\* For comparison: a rotation that gives the old configuration a new session.
RotateInPlace(a) ==
    LET old == Resolve(a)
        fresh == MadeUp("rotated", Len(proxies))
    IN \/ old = 0 /\ UNCHANGED proxyVars
       \/ /\ old # 0
          /\ proxies' = [proxies EXCEPT ![old] = Replacement(@, fresh)]
          /\ registry' = Put(registry, fresh, old)
          /\ current' = old /\ UNCHANGED health

\* rotate_proxy. The registry's entry under the old key goes, and so does
\* the entry under the name that was asked for.
Rotate(a) ==
    LET old == Resolve(a)
        new == Len(proxies) + 1
        fresh == MadeUp("rotated", new)
        named == IF a.by = "name" THEN {a.name} ELSE {}
    IN \/ /\ old = 0
          /\ UNCHANGED proxyVars
       \/ /\ old # 0 /\ new <= MaxProxies
          /\ proxies' = Append(proxies, Replacement(proxies[old], fresh))
          /\ registry' = Put(Drop(registry, {SessionKey(proxies[old], old)} \union named),
                             fresh, new)
          /\ current' = new
          /\ UNCHANGED health

\* record_proxy_result; the count is cut at the threshold.
RecordResult(a, success) ==
    LET b == BucketOf(a)
        before == IF b \in DOMAIN health THEN health[b] ELSE 0
        after == IF success THEN 0
                 ELSE IF before < Threshold THEN before + 1 ELSE Threshold
    IN /\ after > 0 => Cardinality(DOMAIN health \union {b}) <= MaxFailing
       /\ health' = IF after = 0 THEN Drop(health, {b}) ELSE Put(health, b, after)
       /\ UNCHANGED <<proxies, current, registry>>

ProxyNext ==
    \/ \E s \in ProxySession \union {NoName}, t \in Tier : CreateDecodo(s, t)
    \/ \E s, under \in ProxySession \union {NoName}, l \in Label \union {NoName} :
          RegisterConfig(s, l, under)
    \/ \E p \in Proxy \union {0} : SetCurrent(p)
    \/ \E t \in Tier : SelectTier(t)
    \/ \E a \in Asked : Rotate(a)
    \/ \E a \in Asked, success \in BOOLEAN : RecordResult(a, success)

ProxySpec == ProxyInit /\ [][ProxyNext]_proxyVars

---------------------------------------------------------------------------
\* Types of the variables.
ProxyTypeOK ==
    /\ proxies \in Seq(Config) /\ Len(proxies) <= MaxProxies
    /\ current \in Proxy \union {0}
    /\ DOMAIN registry \subseteq RegistryKey
    /\ \A k \in DOMAIN registry : registry[k] \in Proxy
    /\ DOMAIN health \subseteq RegistryKey
    /\ \A k \in DOMAIN health : health[k] \in 1 .. Threshold

\* Rotating one session changes no other: what the registry holds under any
\* other key, and the configuration itself, stay as they are. The key that
\* the rotated configuration has by its own name counts as its own, although
\* rotate_proxy pops it without looking what is registered there.
OthersKeepTheirProxy ==
    [][proxies' # proxies =>
       \A a \in Asked :
         Rotate(a) =>
           /\ \A p \in Proxy : proxies'[p] = proxies[p]
           /\ \A k \in DOMAIN registry :
                \/ registry[k] = Resolve(a)
                \/ Resolve(a) # 0 /\ k = SessionKey(proxies[Resolve(a)], Resolve(a))
                \/ k \in DOMAIN registry' /\ registry'[k] = registry[k]]_proxyVars

=============================================================================
