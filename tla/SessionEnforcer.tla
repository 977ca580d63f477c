-------------------------- MODULE SessionEnforcer --------------------------
(***************************************************************************)
(* SessionEnforcer (src/production/mcp_session_isolation.py): which client *)
(* context may use which session. It is complete and tested, but nothing   *)
(* in src calls it; here several contexts do, as its docstring describes.  *)
(* The token of a binding is told to whoever binds, and may be passed on.  *)
(***************************************************************************)
EXTENDS Naturals, FiniteSets

CONSTANTS Context, Bound,      \* Bound: session names
          Nobody, Nothing      \* no owner, no session

ASSUME EnforcerAssumption == Nobody \notin Context /\ Nothing \notin Bound

VARIABLES owner,        \* _bindings: session |-> its owner_context, or Nobody
          uses,         \* _contexts: context |-> its session, or Nothing
          token,        \* session |-> contexts that know the binding's token
          released      \* contexts that unbind_context was called for

enforcerVars == <<owner, uses, token, released>>

EnforcerInit == /\ owner = [s \in Bound |-> Nobody]
                /\ uses = [c \in Context |-> Nothing]
                /\ token = [s \in Bound |-> {}]
                /\ released = {}

\* bind_session up to the context's previous session: the session is the
\* context's own, free, or taken over with its token.
MayBind(c, s) == owner[s] \in {c, Nobody} \/ c \in token[s]

\* For comparison: a context that moves keeps the session it had.
LeftNothing(c, s) == {}

\* The session that the context moves from, if it still owns it.
Left(c, s) == {r \in Bound \ {s} : uses[c] = r /\ owner[r] = c}

Bind(c, s) ==
    /\ MayBind(c, s)
    /\ owner' = [r \in Bound |-> IF r = s THEN c
                                 ELSE IF r \in Left(c, s) THEN Nobody ELSE owner[r]]
    /\ uses' = [d \in Context |-> IF d = c THEN s
                                  ELSE IF d = owner[s] THEN Nothing ELSE uses[d]]
    /\ token' = [r \in Bound |-> IF r = s THEN token[s] \union {c}
                                 ELSE IF r \in Left(c, s) THEN {} ELSE token[r]]
    /\ UNCHANGED released

PassOn(c, d, s) == /\ c \in token[s]
                   /\ token' = [token EXCEPT ![s] = @ \union {d}]
                   /\ UNCHANGED <<owner, uses, released>>

\* unbind_session.
UnbindSession(s) ==
    /\ owner[s] # Nobody
    /\ owner' = [owner EXCEPT ![s] = Nobody]
    /\ token' = [token EXCEPT ![s] = {}]
    /\ uses' = [c \in Context |-> IF uses[c] = s THEN Nothing ELSE uses[c]]
    /\ UNCHANGED released

\* unbind_context leaves the binding with its owner.
UnbindContext(c) == /\ uses' = [uses EXCEPT ![c] = Nothing]
                    /\ released' = released \union {c}
                    /\ UNCHANGED <<owner, token>>

EnforcerNext ==
    \/ \E c \in Context, s \in Bound : Bind(c, s)
    \/ \E c, d \in Context, s \in Bound : PassOn(c, d, s)
    \/ \E s \in Bound : UnbindSession(s)
    \/ \E c \in Context : UnbindContext(c)

EnforcerSpec == EnforcerInit /\ [][EnforcerNext]_enforcerVars

\* check_access.
Access(c, s) == uses[c] = s /\ owner[s] = c

\* Types of the variables.
EnforcerTypeOK == /\ owner \in [Bound -> Context \union {Nobody}]
                  /\ uses \in [Context -> Bound \union {Nothing}]
                  /\ token \in [Bound -> SUBSET Context]
                  /\ released \subseteq Context

\* The two tables agree through every move, takeover and release: a context
\* that never gave its place up with unbind_context owns exactly the session
\* it may use, and so is never locked out of a session that it holds.
TablesAgree ==
    \A c \in Context \ released, s \in Bound : owner[s] = c <=> uses[c] = s
=============================================================================
