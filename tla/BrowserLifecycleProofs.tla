----------------------- MODULE BrowserLifecycleProofs -----------------------
(***************************************************************************)
(* Theorems about BrowserLifecycle, for any instances, contexts, drivers,  *)
(* numbers of calls and failures: nothing an instance opened is lost,      *)
(* close() knows whose context it has, and instances share the pool        *)
(* without disturbing one another.                                         *)
(*                                                                         *)
(* The invariant LifeInv says, for each place at which a call may await,   *)
(* what it has in its hands (CallOK, Knows, Hand): which context and which *)
(* driver are alive and where they are noted down. Hand speaks of          *)
(* instances of which at most one task is in a call; Apart, that no two    *)
(* instances refer to one context or driver, and PoolOK hold for all. A    *)
(* step is summarised by the attributes and the place it leaves its        *)
(* instance; Assemble turns that summary into LifeInv, and there is one    *)
(* lemma per kind of effect on the world (NothingChanges, ContextOpens,    *)
(* ContextsClose, DriverStarts, DriverStops, PagesChange, LockChanges) and *)
(* one per action.                                                         *)
(***************************************************************************)
EXTENDS BrowserLifecycle, Sequences, TLAPS

LaunchPlace == {"ensure", "poolStart", "newContext", "driver", "context", "page", "wire"}
AttachPlace == {"driver", "connect", "cdpContext", "tab", "tabAgain", "wire", "undo", "undone"}
RelaunchPlace == {"release", "forget", "ensure", "poolStart", "newContext", "context",
                  "stage", "rollback", "dead"}
ClosePlace == {"closeContext", "closeRemote", "closeDriver"}
Place == {"idle", "exec", "newPage"} \cup LaunchPlace \cup AttachPlace \cup RelaunchPlace
           \cup ClosePlace
Call == {"none", "launch", "attach", "relaunch", "newPage", "close"}

Attributes ==
  [browser : Context \cup {None}, page : Page \cup {None}, owns : BOOLEAN,
   owned : SUBSET Page, mode : Mode, usingPool : BOOLEAN, hasPool : BOOLEAN,
   attached : BOOLEAN, ours : BOOLEAN, pw : Driver \cup {None}, remote : BOOLEAN,
   atexit : BOOLEAN, recovery : {"none", "plain", "relaunches"}]

Local ==
  [at : Place, call : Call, ctx : Context \cup {None}, pw : Driver \cup {None}, mode : Mode,
   new : BOOLEAN, onBrowser : BOOLEAN, failed : BOOLEAN]

Kind == {"none", "user", "persistent", "pool", "cdp"}

WorldTypes ==
  /\ kind \in [Context -> Kind]
  /\ maker \in [Context -> Browser \cup {None}]
  /\ tabs \in [Context -> SUBSET PageName]
  /\ running \in [Driver -> Browser \cup {None}]
  /\ pool \in [up : BOOLEAN, headless : {"on", "off"},
               lock : {<<>>, <<None, "shutdown">>} \cup (Browser \X Task),
               active : SUBSET Context]
  /\ \A c \in UserContext : maker[c] = None

Types ==
  /\ obj \in [Browser -> Attributes]
  /\ task \in [Browser -> [Task -> Local]]
  /\ overlapped \in [Browser -> BOOLEAN]
  /\ WorldTypes

\* What a call has in its hands, at each of its places; o are the attributes of
\* the instance.
CallOK(t, l, o) ==
  /\ l.call = "none" <=> l.at \in {"idle", "exec"}
  /\ l.call = "none" => l.ctx = None /\ l.pw = None
  /\ l.call = "launch" => l.at \in LaunchPlace /\ ~o.attached
  /\ l.call = "attach" => /\ l.at \in AttachPlace
                          /\ l.at \in {"tab", "tabAgain"} => l.ctx # None
                          /\ l.at = "cdpContext" => o.attached
  /\ l.call = "relaunch" => /\ l.at \in RelaunchPlace
                            /\ l.mode \in {"launched", "pooled"}
                            /\ l.ctx \notin UserContext
                            /\ l.at = "stage" => l.ctx # None
                            /\ l.at \notin {"stage", "rollback", "dead"} => l.ctx = None
  /\ l.call = "newPage" => l.at = "newPage" /\ l.ctx # None
  /\ l.call = "close" => l.at \in ClosePlace
  /\ t = "main" => l.at # "exec"
  /\ t = "hook" => l.call \in {"none", "relaunch"}

\* What the attributes tell of the context; m is the caller's place.
Knows(o, m) ==
  /\ o.mode \in {"attached_owned", "attached_adopted"} => o.attached
  /\ o.usingPool => o.hasPool
  /\ o.browser \in UserContext => o.mode = "attached_adopted"
  /\ o.browser # None /\ o.browser \notin UserContext =>
       /\ o.mode # "attached_adopted"
       /\ o.mode = "none" => o.usingPool \/ ~o.attached
  /\ m.call = "attach" /\ o.browser # None => o.mode # "none"

Mine(a) == {c \in Context : maker[c] = a /\ kind[c] # "none"}
Runs(a) == {d \in Driver : running[d] = a}

Unset == {"ensure", "poolStart", "newContext", "driver", "context", "connect",
          "cdpContext", "stage", "rollback", "dead", "closeDriver"}
Nothing == {"forget", "dead", "undone", "closeRemote", "closeDriver"}

\* What is alive of an instance, mine and runs, while one task at most is in a
\* call, whose place is l.
Hand(o, l, mine, runs) ==
  /\ mine \subseteq {o.browser} \cup (IF l.call = "relaunch" THEN {l.ctx} ELSE {})
  /\ runs \subseteq {o.pw}
  /\ o.pw # None => o.pw \in runs
  /\ o.browser # None \/ o.pw # None \/ o.remote => l.call = "close" \/ o.atexit
  /\ l.call \notin {"none", "close"} => o.atexit
  /\ l.at \in Unset => o.browser = None
  /\ l.at \in Nothing => mine = {}
  /\ l.at = "driver" => o.pw = None
  /\ l.call = "launch" => l.pw \in {None, o.pw}
  /\ l.call = "attach" /\ l.at \in {"tab", "tabAgain", "wire", "undo"} =>
       o.ours \/ o.browser \in UserContext \cup {None}

InHand(a) ==
  \E t \in Task : /\ \A u \in Task \ {t} : ~Busy(a, u)
                  /\ Hand(obj[a], task[a][t], Mine(a), Runs(a))

Contexts(a) ==
  ({obj[a].browser} \cup {task[a][t].ctx : t \in Task}) \ (UserContext \cup {None})
Drivers(a) == ({obj[a].pw} \cup {task[a][t].pw : t \in Task}) \ {None}

Apart == \A a, b \in Browser : a # b =>
            /\ Contexts(a) \cap Contexts(b) = {}
            /\ Drivers(a) \cap Drivers(b) = {}

\* The lock is held by the one who starts the pool, while it is not up.
PoolOK ==
  /\ pool.lock = <<None, "shutdown">> => pool.up
  /\ \A a \in Browser, t \in Task :
       /\ At(a, t, "poolStart") => pool.lock = <<a, t>> /\ ~pool.up
       /\ task[a][t].onBrowser =>
            /\ pool.up
            /\ task[a][t].call = "launch" => Ask[a] \in {"any", pool.headless}

InstanceOK(a) ==
  /\ Knows(obj[a], task[a]["main"])
  /\ \A t \in Task : CallOK(t, task[a][t], obj[a])
  /\ ~overlapped[a] => InHand(a)

LifeInv == Types /\ Apart /\ PoolOK /\ \A a \in Browser : InstanceOK(a)

-----------------------------------------------------------------------------
\* Steps of one instance.

ObjBecomes(a, o) == /\ obj' \in [Browser -> Attributes]
                    /\ obj'[a] = o
                    /\ \A b \in Browser \ {a} : obj'[b] = obj[b]

TaskBecomes(a, t, l) == /\ task' \in [Browser -> [Task -> Local]]
                        /\ task'[a][t] = l
                        /\ \A u \in Task \ {t} : task'[a][u] = task[a][u]
                        /\ \A b \in Browser \ {a} : task'[b] = task[b]

LEMMA BecomeEffect ==
  ASSUME Types, NEW a \in Browser, NEW o \in Attributes, Become(a, o)
  PROVE  ObjBecomes(a, o)
BY DEF Become, ObjBecomes, Types

LEMMA SameObject ==
  ASSUME Types, NEW a \in Browser, UNCHANGED obj
  PROVE  ObjBecomes(a, obj[a]) /\ obj[a] \in Attributes
BY DEF ObjBecomes, Types

LEMMA ContinueEffect ==
  ASSUME Types, NEW a \in Browser, NEW t \in Task, NEW l \in Local, Continue(a, t, l)
  PROVE  TaskBecomes(a, t, l)
BY DEF Continue, TaskBecomes, Types

LEMMA LocalOf ==
  ASSUME Types, NEW a \in Browser, NEW t \in Task
  PROVE  task[a][t] \in Local /\ obj[a] \in Attributes
BY DEF Types

\* The place l with another await.
Moved(l, place) == [l EXCEPT !.at = place]

LEMMA MovedLocal ==
  ASSUME NEW l \in Local, NEW place \in Place
  PROVE  /\ Moved(l, place) \in Local /\ Moved(l, place).at = place
         /\ Moved(l, place).call = l.call /\ Moved(l, place).ctx = l.ctx
         /\ Moved(l, place).pw = l.pw /\ Moved(l, place).mode = l.mode
         /\ Moved(l, place).new = l.new /\ Moved(l, place).onBrowser = l.onBrowser
BY DEF Moved, Local

LEMMA GotoEffect ==
  ASSUME Types, NEW a \in Browser, NEW t \in Task, NEW place \in Place, Goto(a, t, place)
  PROVE  TaskBecomes(a, t, Moved(task[a][t], place))
<1>1. Moved(task[a][t], place) \in Local
  BY LocalOf, MovedLocal
<1>2. Continue(a, t, Moved(task[a][t], place))
  BY DEF Goto, Moved
<1> QED BY <1>1, <1>2, ContinueEffect

LEMMA RestLocal ==
  ASSUME NEW t \in Task
  PROVE  /\ Rest(t) \in Local /\ Rest(t).at \in {"idle", "exec"} /\ Rest(t).call = "none"
         /\ Rest(t).ctx = None /\ Rest(t).pw = None /\ ~Rest(t).onBrowser
         /\ t = "main" => Rest(t).at = "idle"
BY DEF Rest, Idle, Local, Place, Call, Mode, Task

LEMMA ReturnEffect ==
  ASSUME Types, NEW a \in Browser, NEW t \in Task, Return(a, t)
  PROVE  TaskBecomes(a, t, Rest(t))
BY RestLocal, ContinueEffect DEF Return

-----------------------------------------------------------------------------
\* What a step does to contexts and drivers.

LEMMA Closing ==
  ASSUME Types, NEW S \in SUBSET Context, CloseContexts(S)
  PROVE  /\ kind' \in [Context -> Kind] /\ tabs' \in [Context -> SUBSET PageName]
         /\ maker' = maker
         /\ \A a \in Browser : Mine(a)' = Mine(a) \ S
BY DEF CloseContexts, ClosedKind, ClosedTabs, Types, WorldTypes, Mine, Kind

LEMMA Opening ==
  ASSUME Types, NEW c \in Context, NewContext(c), NEW b \in Browser,
         NEW as \in Kind \ {"none"}, Open(c, as, b)
  PROVE  /\ kind' \in [Context -> Kind] /\ maker' \in [Context -> Browser \cup {None}]
         /\ \A u \in UserContext : maker'[u] = None
         /\ Mine(b)' = Mine(b) \cup {c}
         /\ \A a \in Browser \ {b} : Mine(a)' = Mine(a)
<1>1. c \notin UserContext /\ kind[c] = "none"
  BY DEF NewContext
<1>2. kind' = [kind EXCEPT ![c] = as] /\ maker' = [maker EXCEPT ![c] = b]
  BY DEF Open
<1>3. kind' \in [Context -> Kind] /\ maker' \in [Context -> Browser \cup {None}]
  BY <1>2 DEF Types, WorldTypes
<1>4. \A u \in UserContext : maker'[u] = None
  BY <1>1, <1>2, ConstantsAssumption DEF Types, WorldTypes
<1>5. \A e \in Context \ {c} : kind'[e] = kind[e] /\ maker'[e] = maker[e]
  BY <1>2 DEF Types, WorldTypes
<1>6. kind'[c] = as /\ maker'[c] = b /\ as # "none"
  BY <1>2 DEF Types, WorldTypes
<1>7. Mine(b)' = Mine(b) \cup {c}
  BY <1>5, <1>6 DEF Mine
<1>8. \A a \in Browser \ {b} : Mine(a)' = Mine(a)
  BY <1>1, <1>5, <1>6 DEF Mine
<1> QED BY <1>3, <1>4, <1>7, <1>8

LEMMA SameContexts ==
  ASSUME UNCHANGED <<kind, maker>>
  PROVE  \A a \in Browser : Mine(a)' = Mine(a)
BY DEF Mine

LEMMA Stopping ==
  ASSUME Types, NEW d, Stop(d)
  PROVE  /\ running' \in [Driver -> Browser \cup {None}]
         /\ \A a \in Browser : Runs(a)' = Runs(a) \ {d}
BY ConstantsAssumption DEF Stop, Types, WorldTypes, Runs

LEMMA Starting ==
  ASSUME Types, NEW d \in Driver, NewDriver(d), NEW b \in Browser,
         running' = [running EXCEPT ![d] = b]
  PROVE  /\ running' \in [Driver -> Browser \cup {None}]
         /\ Runs(b)' = Runs(b) \cup {d}
         /\ \A a \in Browser \ {b} : Runs(a)' = Runs(a)
BY ConstantsAssumption DEF NewDriver, Types, WorldTypes, Runs

LEMMA SameDrivers ==
  ASSUME UNCHANGED running
  PROVE  \A a \in Browser : Runs(a)' = Runs(a)
BY DEF Runs

\* What another instance is not deprived of.
Spared(b) ==
  \A a \in Browser \ {b} :
     ~overlapped[a] => Mine(a)' \subseteq Mine(a) /\ Runs(a)' = Runs(a)

-----------------------------------------------------------------------------
\* An invariant of the parts that a step of one instance keeps.

\* A smaller set of contexts is in hand as well.
LEMMA FewerInHand ==
  ASSUME NEW o \in Attributes, NEW l \in Local, NEW mine, NEW runs, NEW fewer \in SUBSET mine,
         Hand(o, l, mine, runs)
  PROVE  Hand(o, l, fewer, runs)
BY DEF Hand

LEMMA OtherInstance ==
  ASSUME Types, NEW a \in Browser, InstanceOK(a),
         obj'[a] = obj[a], task'[a] = task[a], overlapped'[a] = overlapped[a],
         ~overlapped[a] => Mine(a)' \subseteq Mine(a) /\ Runs(a)' = Runs(a)
  PROVE  InstanceOK(a)'
<1>1. Knows(obj[a], task[a]["main"])'
  BY DEF InstanceOK, Knows
<1>2. \A t \in Task : CallOK(t, task[a][t], obj[a])'
  BY DEF InstanceOK, CallOK
<1>3. ASSUME ~overlapped[a] PROVE InHand(a)'
  <2>1. PICK t \in Task : /\ \A u \in Task \ {t} : ~Busy(a, u)
                          /\ Hand(obj[a], task[a][t], Mine(a), Runs(a))
    BY <1>3 DEF InstanceOK, InHand
  <2>2. Hand(obj[a], task[a][t], Mine(a)', Runs(a)')
    BY <1>3, <2>1, LocalOf, FewerInHand
  <2>3. Hand(obj[a], task[a][t], Mine(a), Runs(a))'
    BY <2>2
  <2>4. \A u \in Task \ {t} : ~Busy(a, u)'
    BY <2>1 DEF Busy
  <2> QED BY <2>3, <2>4 DEF InHand
<1> QED BY <1>1, <1>2, <1>3 DEF InstanceOK

-----------------------------------------------------------------------------
\* A step of task t of instance b, which leaves it the attributes o and the place
\* l, keeps the invariant if it does the following.

Growth(b, t, o, l) ==
  /\ {o.browser, l.ctx} \subseteq
       Contexts(b) \cup UserContext \cup {None} \cup {c \in Context : NewContext(c)}
  /\ {o.pw, l.pw} \subseteq Drivers(b) \cup {None} \cup {d \in Driver : NewDriver(d)}

Holds(b, t, o, l) ==
  ~overlapped'[b] => /\ \A u \in Task \ {t} : ~Busy(b, u)
                     /\ Hand(o, l, Mine(b)', Runs(b)')

Sound(b, t, o, l) ==
  /\ CallOK(t, l, o)
  /\ t = "main" \/ o.attached = obj[b].attached
  /\ t = "main" => Knows(o, l)
  /\ t = "hook" => Knows(o, task[b]["main"])

\* A launch that returns also hands the relaunch hook to a task that has none.
Settles(b, u) ==
  /\ u = "hook" /\ task[b][u].at = "idle"
  /\ task'[b][u] = Moved(task[b][u], "exec")

TaskMoves(b, t, l) ==
  /\ task' \in [Browser -> [Task -> Local]]
  /\ task'[b][t] = l
  /\ \A u \in Task \ {t} : task'[b][u] = task[b][u] \/ Settles(b, u)
  /\ \A a \in Browser \ {b} : task'[a] = task[a]

Moves(b, t, o, l) ==
  /\ ObjBecomes(b, o) /\ TaskMoves(b, t, l)
  /\ overlapped' \in [Browser -> BOOLEAN]
  /\ \A a \in Browser \ {b} : overlapped'[a] = overlapped[a]

\* What of a task the others' steps leave alone.
LEMMA OthersMove ==
  ASSUME Types, NEW b \in Browser, NEW t \in Task, NEW o, NEW l, Moves(b, t, o, l),
         NEW u \in Task \ {t}
  PROVE  /\ task'[b][u].call = task[b][u].call /\ task'[b][u].ctx = task[b][u].ctx
         /\ task'[b][u].pw = task[b][u].pw /\ task'[b][u].mode = task[b][u].mode
         /\ task'[b][u].onBrowser = task[b][u].onBrowser
         /\ \/ task'[b][u] = task[b][u]
            \/ u = "hook" /\ task[b][u].at = "idle" /\ task'[b][u].at = "exec"
<1>1. CASE task'[b][u] = task[b][u]
  BY <1>1
<1>2. CASE Settles(b, u)
  <2>1. "exec" \in Place /\ task[b][u] \in Local
    BY LocalOf DEF Place
  <2> QED BY <1>2, <2>1, MovedLocal DEF Settles
<1> QED BY <1>1, <1>2 DEF Moves, TaskMoves

\* What is not b's is not a new context, and not b's.
LEMMA ApartKept ==
  ASSUME Types, Apart, NEW b \in Browser, NEW t \in Task, NEW o \in Attributes,
         NEW l \in Local, Moves(b, t, o, l), Growth(b, t, o, l)
  PROVE  Apart'
<1> DEFINE fresh == {c \in Context : NewContext(c)}
           spare == {d \in Driver : NewDriver(d)}
<1>1. Contexts(b)' \subseteq Contexts(b) \cup fresh
  <2>1. Contexts(b)' = ({obj'[b].browser} \cup {task'[b][u].ctx : u \in Task})
                          \ (UserContext \cup {None})
    BY DEF Contexts
  <2>2. \A u \in Task \ {t} : task[b][u].ctx \in Contexts(b) \cup UserContext \cup {None}
    BY DEF Contexts
  <2>3. /\ obj'[b] = o /\ task'[b][t] = l
        /\ \A u \in Task \ {t} : task'[b][u].ctx = task[b][u].ctx
    BY OthersMove DEF Moves, ObjBecomes, TaskMoves
  <2>4. o.browser \in Contexts(b) \cup UserContext \cup {None} \cup fresh
    BY DEF Growth
  <2>5. l.ctx \in Contexts(b) \cup UserContext \cup {None} \cup fresh
    BY DEF Growth
  <2> HIDE DEF fresh
  <2> QED BY <2>1, <2>2, <2>3, <2>4, <2>5
<1>2. Drivers(b)' \subseteq Drivers(b) \cup spare
  <2>1. Drivers(b)' = ({obj'[b].pw} \cup {task'[b][u].pw : u \in Task}) \ {None}
    BY DEF Drivers
  <2>2. \A u \in Task \ {t} : task[b][u].pw \in Drivers(b) \cup {None}
    BY DEF Drivers
  <2>3. /\ obj'[b] = o /\ task'[b][t] = l
        /\ \A u \in Task \ {t} : task'[b][u].pw = task[b][u].pw
    BY OthersMove DEF Moves, ObjBecomes, TaskMoves
  <2>4. o.pw \in Drivers(b) \cup {None} \cup spare
    BY DEF Growth
  <2>5. l.pw \in Drivers(b) \cup {None} \cup spare
    BY DEF Growth
  <2> HIDE DEF spare
  <2> QED BY <2>1, <2>2, <2>3, <2>4, <2>5
<1>3. \A a \in Browser \ {b} : Contexts(a)' = Contexts(a) /\ Drivers(a)' = Drivers(a)
  <2> SUFFICES ASSUME NEW a \in Browser \ {b}
               PROVE  Contexts(a)' = Contexts(a) /\ Drivers(a)' = Drivers(a)
    OBVIOUS
  <2>1. obj'[a] = obj[a] /\ task'[a] = task[a]
    BY DEF Moves, ObjBecomes, TaskMoves
  <2> QED BY <2>1 DEF Contexts, Drivers
<1>4. \A a \in Browser : Contexts(a) \cap fresh = {} /\ Drivers(a) \cap spare = {}
  <2>1. \A a \in Browser : Contexts(a) \cap fresh = {}
    BY DEF Contexts, NewContext
  <2>2. \A a \in Browser : Drivers(a) \cap spare = {}
    BY DEF Drivers, NewDriver
  <2> QED BY <2>1, <2>2
<1> HIDE DEF fresh, spare
<1>5. \A a \in Browser \ {b} : /\ Contexts(a)' \cap Contexts(b)' = {}
                               /\ Drivers(a)' \cap Drivers(b)' = {}
  <2> SUFFICES ASSUME NEW a \in Browser \ {b}
               PROVE  Contexts(a)' \cap Contexts(b)' = {} /\ Drivers(a)' \cap Drivers(b)' = {}
    OBVIOUS
  <2>1. Contexts(a) \cap Contexts(b) = {} /\ Drivers(a) \cap Drivers(b) = {}
    BY DEF Apart
  <2> QED BY <1>1, <1>2, <1>3, <1>4, <2>1
<1>6. \A a, c \in Browser \ {b} : a # c => /\ Contexts(a)' \cap Contexts(c)' = {}
                                           /\ Drivers(a)' \cap Drivers(c)' = {}
  BY <1>3 DEF Apart
<1>7. \A a, c \in Browser : a # c => /\ Contexts(a)' \cap Contexts(c)' = {}
                                     /\ Drivers(a)' \cap Drivers(c)' = {}
  BY <1>5, <1>6
<1> QED BY <1>7 DEF Apart

LEMMA OwnInstance ==
  ASSUME Types, NEW b \in Browser, InstanceOK(b), NEW t \in Task, NEW o \in Attributes,
         NEW l \in Local, Moves(b, t, o, l), Sound(b, t, o, l), Holds(b, t, o, l)
  PROVE  InstanceOK(b)'
<1>1. obj'[b] = o /\ task'[b][t] = l
  BY DEF Moves, ObjBecomes, TaskMoves
<1>2. \A u \in Task \ {t} : \/ task'[b][u] = task[b][u]
                             \/ /\ u = "hook" /\ task[b][u].at = "idle"
                                /\ task'[b][u].at = "exec"
                                /\ task'[b][u].call = task[b][u].call
                                /\ task'[b][u].ctx = task[b][u].ctx
                                /\ task'[b][u].pw = task[b][u].pw
  BY OthersMove
<1>3. Knows(o, task'[b]["main"])
  <2>1. CASE t = "main"
    BY <1>1, <2>1 DEF Sound
  <2>2. CASE t = "hook"
    BY <1>2, <2>2 DEF Sound, Task
  <2> QED BY <2>1, <2>2 DEF Task
<1>4. Knows(obj[b], task[b]["main"])'
  BY <1>1, <1>3
<1>5. \A u \in Task : CallOK(u, task'[b][u], o)
  <2>1. CallOK(t, l, o)
    BY DEF Sound
  <2>2. ASSUME NEW u \in Task \ {t} PROVE CallOK(u, task'[b][u], o)
    <3>1. CallOK(u, task[b][u], obj[b])
      BY DEF InstanceOK
    <3>2. CASE u = "hook"
      BY <1>2, <3>1, <3>2 DEF CallOK
    <3>3. CASE u = "main"
      <4>1. o.attached = obj[b].attached /\ task'[b][u] = task[b][u]
        BY <1>2, <3>3 DEF Sound
      <4> QED BY <3>1, <4>1 DEF CallOK
    <3> QED BY <3>2, <3>3 DEF Task
  <2> QED BY <1>1, <2>1, <2>2
<1>6. (\A u \in Task : CallOK(u, task[b][u], obj[b]))'
  BY <1>1, <1>5
<1>7. ASSUME ~overlapped'[b] PROVE InHand(b)'
  <2>1. /\ \A u \in Task \ {t} : ~Busy(b, u)
        /\ Hand(o, l, Mine(b)', Runs(b)')
    BY <1>7 DEF Holds
  <2>2. Hand(obj[b], task[b][t], Mine(b), Runs(b))'
    BY <1>1, <2>1
  <2>3. \A u \in Task \ {t} : ~Busy(b, u)'
    BY <1>2, <2>1 DEF Busy
  <2> QED BY <2>2, <2>3 DEF InHand
<1> QED BY <1>4, <1>6, <1>7 DEF InstanceOK

LEMMA Assemble ==
  ASSUME LifeInv, NEW b \in Browser, NEW t \in Task, NEW o \in Attributes, NEW l \in Local,
         Moves(b, t, o, l), Sound(b, t, o, l), Holds(b, t, o, l), Growth(b, t, o, l),
         WorldTypes', Spared(b), PoolOK'
  PROVE  LifeInv'
<1>1. Types'
  BY DEF Types, Moves, ObjBecomes, TaskMoves
<1>2. Apart'
  BY ApartKept DEF LifeInv
<1>3. InstanceOK(b)'
  BY OwnInstance DEF LifeInv
<1>4. ASSUME NEW a \in Browser \ {b} PROVE InstanceOK(a)'
  <2>1. obj'[a] = obj[a] /\ task'[a] = task[a] /\ overlapped'[a] = overlapped[a]
    BY DEF Moves, ObjBecomes, TaskMoves
  <2>2. ~overlapped[a] => Mine(a)' \subseteq Mine(a) /\ Runs(a)' = Runs(a)
    BY DEF Spared
  <2> QED BY <2>1, <2>2, OtherInstance DEF LifeInv
<1> QED BY <1>1, <1>2, <1>3, <1>4 DEF LifeInv

-----------------------------------------------------------------------------
\* What a task that is in a call finds, alone or not.

LEMMA Holding ==
  ASSUME LifeInv, NEW b \in Browser, NEW t \in Task, Busy(b, t), ~overlapped[b]
  PROVE  /\ \A u \in Task \ {t} : ~Busy(b, u)
         /\ Hand(obj[b], task[b][t], Mine(b), Runs(b))
<1>1. PICK v \in Task : /\ \A u \in Task \ {v} : ~Busy(b, u)
                        /\ Hand(obj[b], task[b][v], Mine(b), Runs(b))
  BY DEF LifeInv, InstanceOK, InHand
<1>2. v = t
  BY <1>1
<1> QED BY <1>1, <1>2

\* At rest, nothing of the hand depends on the task.
LEMMA RestHand ==
  ASSUME NEW o \in Attributes, NEW k \in Local, NEW l \in Local, NEW mine, NEW runs,
         k.call = "none", k.at \in {"idle", "exec"},
         l.call = "none", l.at \in {"idle", "exec"}, Hand(o, k, mine, runs)
  PROVE  Hand(o, l, mine, runs)
BY DEF Hand, Unset, Nothing

LEMMA AtRest ==
  ASSUME LifeInv, NEW b \in Browser, NEW t \in Task, ~overlapped[b],
         ~Busy(b, "main"), ~Busy(b, "hook")
  PROVE  Hand(obj[b], task[b][t], Mine(b), Runs(b))
<1>1. PICK v \in Task : Hand(obj[b], task[b][v], Mine(b), Runs(b))
  BY DEF LifeInv, InstanceOK, InHand
<1>2. \A u \in Task : task[b][u].at \in {"idle", "exec"} /\ task[b][u].call = "none"
  BY DEF LifeInv, InstanceOK, CallOK, Busy, Task
<1> QED BY <1>1, <1>2, RestHand, LocalOf DEF LifeInv

LEMMA CallOf ==
  ASSUME LifeInv, NEW b \in Browser, NEW t \in Task
  PROVE  /\ CallOK(t, task[b][t], obj[b]) /\ Knows(obj[b], task[b]["main"])
         /\ task[b][t] \in Local /\ obj[b] \in Attributes /\ Types
BY LocalOf DEF LifeInv, InstanceOK

\* The attributes and places a task keeps are no growth.
LEMMA OwnRefs ==
  ASSUME NEW b \in Browser, NEW t \in Task
  PROVE  /\ obj[b].browser \in Contexts(b) \cup UserContext \cup {None}
         /\ task[b][t].ctx \in Contexts(b) \cup UserContext \cup {None}
         /\ obj[b].pw \in Drivers(b) \cup {None} /\ task[b][t].pw \in Drivers(b) \cup {None}
BY DEF Contexts, Drivers

LEMMA NoGrowth ==
  ASSUME NEW b \in Browser, NEW t \in Task, NEW o, NEW l,
         o.browser \in {obj[b].browser, task[b][t].ctx, None} \cup UserContext
                         \cup {c \in Context : NewContext(c)},
         l.ctx \in {task[b][t].ctx, None} \cup UserContext \cup {c \in Context : NewContext(c)},
         o.pw \in {obj[b].pw, task[b][t].pw, None} \cup {d \in Driver : NewDriver(d)},
         l.pw \in {task[b][t].pw, None} \cup {d \in Driver : NewDriver(d)}
  PROVE  Growth(b, t, o, l)
<1> DEFINE fresh == {c \in Context : NewContext(c)}
           spare == {d \in Driver : NewDriver(d)}
<1>1. o.browser \in {obj[b].browser, task[b][t].ctx, None} \cup UserContext \cup fresh
  OBVIOUS
<1>2. l.ctx \in {task[b][t].ctx, None} \cup UserContext \cup fresh
  OBVIOUS
<1>3. o.pw \in {obj[b].pw, task[b][t].pw, None} \cup spare
  OBVIOUS
<1>4. l.pw \in {task[b][t].pw, None} \cup spare
  OBVIOUS
<1>5. SUFFICES
        /\ {o.browser, l.ctx} \subseteq Contexts(b) \cup UserContext \cup {None} \cup fresh
        /\ {o.pw, l.pw} \subseteq Drivers(b) \cup {None} \cup spare
  BY DEF Growth
<1> HIDE DEF fresh, spare
<1> QED BY <1>1, <1>2, <1>3, <1>4, OwnRefs

\* A step that leaves the pool's mode and lock alone, and needs nothing of them
\* that was not so.
Browses(b, t, l) ==
  /\ l.at # "poolStart"
  /\ l.onBrowser => \/ task[b][t].onBrowser /\ l.call = task[b][t].call
                    \/ /\ pool.up
                       /\ l.call = "launch" => Ask[b] \in {"any", pool.headless}

Quiet(b, t, l) ==
  /\ pool'.up = pool.up /\ pool'.lock = pool.lock /\ pool'.headless = pool.headless
  /\ Browses(b, t, l)

LEMMA QuietPool ==
  ASSUME PoolOK, NEW b \in Browser, NEW t \in Task, NEW l \in Local,
         Types, NEW o, Moves(b, t, o, l), Quiet(b, t, l)
  PROVE  PoolOK'
<1>1. \A a \in Browser, u \in Task :
        \/ /\ task'[a][u].at = task[a][u].at \/ task'[a][u].at = "exec"
           /\ task'[a][u].onBrowser = task[a][u].onBrowser
           /\ task'[a][u].call = task[a][u].call
        \/ a = b /\ u = t /\ task'[a][u] = l
  <2>1. \A u \in Task \ {t} :
          /\ task'[b][u].at = task[b][u].at \/ task'[b][u].at = "exec"
          /\ task'[b][u].onBrowser = task[b][u].onBrowser
          /\ task'[b][u].call = task[b][u].call
    BY OthersMove
  <2> QED BY <2>1 DEF Moves, TaskMoves
<1>2. ASSUME NEW a \in Browser, NEW u \in Task
      PROVE  /\ task'[a][u].at = "poolStart" => pool'.lock = <<a, u>> /\ ~pool'.up
             /\ task'[a][u].onBrowser =>
                  /\ pool'.up
                  /\ task'[a][u].call = "launch" => Ask[a] \in {"any", pool'.headless}
  <2>1. CASE /\ task'[a][u].at = task[a][u].at \/ task'[a][u].at = "exec"
             /\ task'[a][u].onBrowser = task[a][u].onBrowser
             /\ task'[a][u].call = task[a][u].call
    BY <2>1 DEF PoolOK, Quiet, At
  <2>2. CASE a = b /\ u = t /\ task'[a][u] = l
    BY <2>2 DEF PoolOK, Quiet, Browses
  <2> QED BY <1>1, <2>1, <2>2
<1>3. pool'.lock = <<None, "shutdown">> => pool'.up
  BY DEF PoolOK, Quiet
<1> QED BY <1>2, <1>3 DEF PoolOK, At

LEMMA SamePool == WorldTypes /\ UNCHANGED pool =>
  /\ pool' \in [up : BOOLEAN, headless : {"on", "off"},
                lock : {<<>>, <<None, "shutdown">>} \cup (Browser \X Task),
                active : SUBSET Context]
  /\ pool'.up = pool.up /\ pool'.lock = pool.lock /\ pool'.headless = pool.headless
BY DEF WorldTypes

LEMMA ReleasedPool ==
  ASSUME WorldTypes, NEW c, pool' = Released(c)
  PROVE  /\ pool' \in [up : BOOLEAN, headless : {"on", "off"},
                       lock : {<<>>, <<None, "shutdown">>} \cup (Browser \X Task),
                       active : SUBSET Context]
         /\ pool'.up = pool.up /\ pool'.lock = pool.lock /\ pool'.headless = pool.headless
BY DEF WorldTypes, Released

\* What becomes of overlapped.
LEMMA NoCallMoves ==
  ASSUME Types, NEW b \in Browser, NEW t \in Task, NEW o, NEW l, NoCall,
         ObjBecomes(b, o), TaskBecomes(b, t, l)
  PROVE  Moves(b, t, o, l) /\ overlapped'[b] = overlapped[b]
BY DEF NoCall, Moves, Types, TaskBecomes, TaskMoves

LEMMA BeginMoves ==
  ASSUME Types, NEW b \in Browser, NEW o, NEW l, Begins(b),
         ObjBecomes(b, o), TaskBecomes(b, "main", l)
  PROVE  /\ Moves(b, "main", o, l) /\ ~Busy(b, "main")
         /\ ~overlapped'[b] => ~overlapped[b] /\ ~Busy(b, "hook")
BY DEF Begins, Moves, Types, Busy, At, TaskBecomes, TaskMoves

-----------------------------------------------------------------------------
\* A step after which nothing of the world, and nothing of the instance's
\* attributes, is different.

LEMMA StillWorld ==
  ASSUME LifeInv, UNCHANGED <<kind, maker, tabs, running>>, 
         pool' \in [up : BOOLEAN, headless : {"on", "off"},
                    lock : {<<>>, <<None, "shutdown">>} \cup (Browser \X Task),
                    active : SUBSET Context]
  PROVE  /\ WorldTypes' /\ \A b \in Browser : Spared(b)
         /\ \A a \in Browser : Mine(a)' = Mine(a) /\ Runs(a)' = Runs(a)
<1>1. \A a \in Browser : Mine(a)' = Mine(a) /\ Runs(a)' = Runs(a)
  BY SameContexts, SameDrivers
<1>2. WorldTypes'
  BY DEF LifeInv, Types, WorldTypes
<1> QED BY <1>1, <1>2 DEF Spared

\* A failed step of a launch or relaunch.
LEMMA FailedLocal ==
  ASSUME NEW l \in Local
  PROVE  LET k == [l EXCEPT !.at = "rollback", !.failed = TRUE]
         IN  /\ k \in Local /\ k.at = "rollback" /\ k.call = l.call /\ k.ctx = l.ctx
             /\ k.pw = l.pw /\ k.mode = l.mode /\ k.onBrowser = l.onBrowser
BY DEF Local, Place, RelaunchPlace

LEMMA FailsEffect ==
  ASSUME LifeInv, NEW b \in Browser, NEW t \in Task, Fails(b, t), NoCall, UNCHANGED obj,
         task[b][t].at \in {"ensure", "poolStart", "newContext", "context"},
         task[b][t].call \in {"launch", "relaunch"}
  PROVE  \E l \in Local :
            /\ l.at \in {"idle", "exec", "rollback"}
            /\ l.onBrowser => task[b][t].onBrowser /\ l.call = task[b][t].call
            /\ obj[b] \in Attributes
            /\ Moves(b, t, obj[b], l) /\ Sound(b, t, obj[b], l) /\ Growth(b, t, obj[b], l)
            /\ Mine(b)' = Mine(b) /\ Runs(b)' = Runs(b) => Holds(b, t, obj[b], l)
<1> DEFINE k == task[b][t]
           o == obj[b]
<1>1. /\ CallOK(t, k, o) /\ Knows(o, task[b]["main"]) /\ k \in Local /\ o \in Attributes /\ Types
  BY CallOf
<1>2. ObjBecomes(b, o)
  BY <1>1, SameObject
<1>3. ~overlapped[b] => /\ \A u \in Task \ {t} : ~Busy(b, u)
                        /\ Hand(o, k, Mine(b), Runs(b))
  BY Holding DEF Busy
<1>4. CASE k.call = "relaunch"
  <2> DEFINE l == [k EXCEPT !.at = "rollback", !.failed = TRUE]
  <2>1. /\ l \in Local /\ l.at = "rollback" /\ l.call = k.call /\ l.ctx = k.ctx
        /\ l.pw = k.pw /\ l.mode = k.mode /\ l.onBrowser = k.onBrowser
    BY <1>1, FailedLocal
  <2>2. Continue(b, t, l)
    BY <1>4 DEF Fails
  <2> HIDE DEF l
  <2>3. Moves(b, t, o, l) /\ overlapped'[b] = overlapped[b]
    BY <1>1, <1>2, <2>1, <2>2, ContinueEffect, NoCallMoves
  <2>4. CallOK(t, l, o)
    BY <1>1, <1>4, <2>1 DEF CallOK, RelaunchPlace
  <2>5. Sound(b, t, o, l)
    BY <1>1, <1>4, <2>1, <2>4 DEF Sound, Knows
  <2>6. Growth(b, t, o, l)
    BY <2>1, NoGrowth
  <2>7. ~overlapped[b] => Hand(o, l, Mine(b), Runs(b))
    BY <1>3, <1>4, <2>1 DEF Hand, Unset, Nothing
  <2> QED BY <1>1, <1>3, <2>1, <2>3, <2>5, <2>6, <2>7 DEF Holds
<1>5. CASE k.call = "launch"
  <2> DEFINE l == Rest(t)
  <2>1. /\ l \in Local /\ l.at \in {"idle", "exec"} /\ l.call = "none"
        /\ l.ctx = None /\ l.pw = None /\ ~l.onBrowser
        /\ t = "main" => l.at = "idle"
    BY RestLocal
  <2>2. Return(b, t)
    BY <1>5 DEF Fails
  <2>3. Moves(b, t, o, l) /\ overlapped'[b] = overlapped[b]
    BY <1>1, <1>2, <2>2, ReturnEffect, NoCallMoves
  <2> HIDE DEF l
  <2>4. CallOK(t, l, o)
    BY <2>1 DEF CallOK
  <2>5. Sound(b, t, o, l)
    BY <1>1, <1>5, <2>1, <2>4 DEF Sound, Knows, CallOK
  <2>6. Growth(b, t, o, l)
    BY <2>1, NoGrowth
  <2>7. ~overlapped[b] => Hand(o, l, Mine(b), Runs(b))
    BY <1>3, <1>5, <2>1 DEF Hand, Unset, Nothing
  <2> QED BY <1>1, <1>3, <2>1, <2>3, <2>5, <2>6, <2>7 DEF Holds
<1> QED BY <1>4, <1>5

LEMMA InCall ==
  ASSUME LifeInv, NEW b \in Browser, NEW t \in Task, Busy(b, t)
  PROVE  /\ CallOK(t, task[b][t], obj[b]) /\ Knows(obj[b], task[b]["main"])
         /\ task[b][t] \in Local /\ obj[b] \in Attributes /\ Types
         /\ ~overlapped[b] => /\ \A u \in Task \ {t} : ~Busy(b, u)
                              /\ Hand(obj[b], task[b][t], Mine(b), Runs(b))
BY CallOf, Holding

\* A step that leaves the world and the pool alone.
LEMMA NothingChanges ==
  ASSUME LifeInv, NEW b \in Browser, NEW t \in Task, NEW o \in Attributes, NEW l \in Local,
         Moves(b, t, o, l), Sound(b, t, o, l), Growth(b, t, o, l),
         ~overlapped'[b] => /\ \A u \in Task \ {t} : ~Busy(b, u)
                            /\ Hand(o, l, Mine(b), Runs(b)),
         UNCHANGED <<kind, maker, tabs, running, pool>>, Browses(b, t, l)
  PROVE  LifeInv'
<1>1. /\ pool' \in [up : BOOLEAN, headless : {"on", "off"},
                    lock : {<<>>, <<None, "shutdown">>} \cup (Browser \X Task),
                    active : SUBSET Context]
      /\ pool'.up = pool.up /\ pool'.lock = pool.lock /\ pool'.headless = pool.headless
  BY SamePool DEF LifeInv, Types
<1>2. /\ WorldTypes' /\ Spared(b) /\ Mine(b)' = Mine(b) /\ Runs(b)' = Runs(b)
  BY <1>1, StillWorld
<1>3. PoolOK'
  BY <1>1, QuietPool DEF LifeInv, Quiet
<1>4. Holds(b, t, o, l)
  BY <1>2 DEF Holds
<1> QED BY <1>2, <1>3, <1>4, Assemble

-----------------------------------------------------------------------------
\* The shared pool.

LEMMA EnsureRunningStep ==
  ASSUME LifeInv, NEW b \in Browser, NEW t \in Task, EnsureRunning(b, t)
  PROVE  LifeInv'
<1> DEFINE k == task[b][t]
           o == obj[b]
<1>0. k.at = "ensure" /\ Busy(b, t) /\ pool.up /\ NoCall
      /\ UNCHANGED <<obj, kind, maker, tabs, running, pool>>
  BY DEF EnsureRunning, At, Busy, world
<1>1. /\ CallOK(t, k, o) /\ Knows(o, task[b]["main"]) /\ k \in Local /\ o \in Attributes /\ Types
      /\ ~overlapped[b] => /\ \A u \in Task \ {t} : ~Busy(b, u)
                           /\ Hand(o, k, Mine(b), Runs(b))
  BY <1>0, InCall
<1>2. ObjBecomes(b, o)
  BY <1>0, <1>1, SameObject
<1>3. k.call \in {"launch", "relaunch"}
  BY <1>0, <1>1 DEF CallOK, AttachPlace, ClosePlace, Local, Call
<1>4. CASE Return(b, t) /\ k.call = "launch"
  <2>1. Fails(b, t)
    BY <1>4 DEF Fails
  <2>2. PICK l \in Local :
            /\ l.at \in {"idle", "exec", "rollback"}
            /\ l.onBrowser => k.onBrowser /\ l.call = k.call
            /\ Moves(b, t, o, l) /\ Sound(b, t, o, l) /\ Growth(b, t, o, l)
            /\ Mine(b)' = Mine(b) /\ Runs(b)' = Runs(b) => Holds(b, t, o, l)
    BY <1>0, <1>3, <2>1, FailsEffect
  <2>3. Mine(b)' = Mine(b) /\ Runs(b)' = Runs(b)
    BY <1>0, SameContexts, SameDrivers
  <2> HIDE DEF k, o
  <2> QED BY <1>0, <1>1, <2>2, <2>3, NothingChanges DEF Holds, Browses, k
<1>5. CASE Continue(b, t, [k EXCEPT !.at = "newContext", !.onBrowser = TRUE])
           /\ (k.call = "launch" => Ask[b] \in {"any", pool.headless})
  <2> DEFINE l == [k EXCEPT !.at = "newContext", !.onBrowser = TRUE]
  <2>1. /\ l \in Local /\ l.at = "newContext" /\ l.call = k.call /\ l.ctx = k.ctx
        /\ l.pw = k.pw /\ l.mode = k.mode /\ l.onBrowser
    BY <1>1 DEF Local, Place, LaunchPlace
  <2>2. Continue(b, t, l)
    BY <1>5
  <2> HIDE DEF l
  <2>3. Moves(b, t, o, l) /\ overlapped'[b] = overlapped[b]
    BY <1>0, <1>1, <1>2, <2>1, <2>2, ContinueEffect, NoCallMoves
  <2>4. CallOK(t, l, o)
    BY <1>0, <1>1, <1>3, <2>1 DEF CallOK, RelaunchPlace, LaunchPlace
  <2>5. Sound(b, t, o, l)
    BY <1>1, <1>3, <2>1, <2>4 DEF Sound, Knows
  <2>6. Growth(b, t, o, l)
    BY <2>1, NoGrowth
  <2>7. ~overlapped[b] => Hand(o, l, Mine(b), Runs(b))
    BY <1>0, <1>1, <1>3, <2>1 DEF Hand, Unset, Nothing
  <2>8. Browses(b, t, l)
    BY <1>0, <1>5, <2>1 DEF Browses
  <2> HIDE DEF k, o
  <2> QED BY <1>0, <1>1, <2>1, <2>3, <2>5, <2>6, <2>7, <2>8, NothingChanges DEF k, o
<1> QED BY <1>3, <1>4, <1>5 DEF EnsureRunning

\* A step that changes nothing but the pool's lock and mode.
LEMMA LockChanges ==
  ASSUME LifeInv, NEW b \in Browser, NEW t \in Task, NEW o \in Attributes, NEW l \in Local,
         Moves(b, t, o, l), Sound(b, t, o, l), Growth(b, t, o, l),
         ~overlapped'[b] => /\ \A u \in Task \ {t} : ~Busy(b, u)
                            /\ Hand(o, l, Mine(b), Runs(b)),
         UNCHANGED <<kind, maker, tabs, running>>,
         pool' \in [up : BOOLEAN, headless : {"on", "off"},
                    lock : {<<>>, <<None, "shutdown">>} \cup (Browser \X Task),
                    active : SUBSET Context],
         PoolOK'
  PROVE  LifeInv'
<1>2. /\ WorldTypes' /\ Spared(b) /\ Mine(b)' = Mine(b) /\ Runs(b)' = Runs(b)
  BY StillWorld
<1>4. Holds(b, t, o, l)
  BY <1>2 DEF Holds
<1> QED BY <1>2, <1>4, Assemble

\* Nobody holds the lock in two ways.
LEMMA Locks ==
  /\ \A a, b \in Browser, t, u \in Task : <<a, t>> = <<b, u>> => a = b /\ t = u
  /\ \A a \in Browser, t \in Task : <<a, t>> # <<>> /\ <<a, t>> # <<None, "shutdown">>
  /\ <<None, "shutdown">> # <<>>
<1>1. \A a, b \in Browser, t, u \in Task : <<a, t>> = <<b, u>> => a = b /\ t = u
  OBVIOUS
<1>2. \A a \in Browser, t \in Task : <<a, t>> # <<None, "shutdown">>
  BY ConstantsAssumption
<1>3. \A a \in Browser, t \in Task : Len(<<a, t>>) = 2
  OBVIOUS
<1>4. Len(<<>>) = 0 /\ Len(<<None, "shutdown">>) = 2
  OBVIOUS
<1> QED BY <1>1, <1>2, <1>3, <1>4

LEMMA EnsureStartsStep ==
  ASSUME LifeInv, NEW b \in Browser, NEW t \in Task, EnsureStarts(b, t)
  PROVE  LifeInv'
<1> DEFINE k == task[b][t]
           o == obj[b]
           l == Moved(k, "poolStart")
<1>0. /\ k.at = "ensure" /\ Busy(b, t) /\ NoCall /\ Goto(b, t, "poolStart")
      /\ pool.lock = <<>> /\ ~pool.up /\ pool' = [pool EXCEPT !.lock = <<b, t>>]
      /\ UNCHANGED <<obj, kind, maker, tabs, running>>
  BY DEF EnsureStarts, At, Busy, world
<1>1. /\ CallOK(t, k, o) /\ Knows(o, task[b]["main"]) /\ k \in Local /\ o \in Attributes /\ Types
      /\ ~overlapped[b] => /\ \A u \in Task \ {t} : ~Busy(b, u)
                           /\ Hand(o, k, Mine(b), Runs(b))
  BY <1>0, InCall
<1>2. "poolStart" \in Place
  BY DEF Place, LaunchPlace
<1>3. /\ l \in Local /\ l.at = "poolStart" /\ l.call = k.call /\ l.ctx = k.ctx
      /\ l.pw = k.pw /\ l.mode = k.mode /\ l.new = k.new /\ l.onBrowser = k.onBrowser
  BY <1>1, <1>2, MovedLocal
<1>4. Moves(b, t, o, l) /\ overlapped'[b] = overlapped[b]
  BY <1>0, <1>1, <1>2, SameObject, GotoEffect, NoCallMoves
<1> HIDE DEF l
<1>5. CallOK(t, l, o)
  BY <1>0, <1>1, <1>3 DEF CallOK, RelaunchPlace, LaunchPlace, AttachPlace, ClosePlace
<1>6. Sound(b, t, o, l)
  BY <1>1, <1>3, <1>5 DEF Sound, Knows
<1>7. Growth(b, t, o, l)
  BY <1>3, NoGrowth
<1>8. ~overlapped[b] => Hand(o, l, Mine(b), Runs(b))
  BY <1>0, <1>1, <1>3 DEF Hand, Unset, Nothing
<1>9. /\ pool' \in [up : BOOLEAN, headless : {"on", "off"},
                    lock : {<<>>, <<None, "shutdown">>} \cup (Browser \X Task),
                    active : SUBSET Context]
      /\ pool'.up = pool.up /\ pool'.headless = pool.headless /\ pool'.lock = <<b, t>>
  BY <1>0, <1>1 DEF Types, WorldTypes
<1>10. PoolOK'
  <2>1. \A a \in Browser, u \in Task :
          \/ task'[a][u] = task[a][u]
          \/ a = b /\ u = t /\ task'[a][u] = l
    BY <1>0, <1>1, <1>2, GotoEffect DEF TaskBecomes, l
  <2>2. \A a \in Browser, u \in Task :
          task[a][u].at # "poolStart" /\ ~task[a][u].onBrowser
    BY <1>0, Locks DEF LifeInv, PoolOK, At
  <2>3. ~l.onBrowser
    BY <1>3, <2>2
  <2>4. pool'.lock # <<None, "shutdown">>
    BY <1>9, Locks
  <2> QED BY <1>0, <1>3, <1>9, <2>1, <2>2, <2>3, <2>4 DEF PoolOK, At
<1> HIDE DEF k, o
<1> QED BY <1>0, <1>1, <1>3, <1>4, <1>6, <1>7, <1>8, <1>9, <1>10, LockChanges DEF k, o

LEMMA PoolStartedStep ==
  ASSUME LifeInv, NEW b \in Browser, NEW t \in Task, PoolStarted(b, t)
  PROVE  LifeInv'
<1> DEFINE k == task[b][t]
           o == obj[b]
<1>0. /\ k.at = "poolStart" /\ Busy(b, t) /\ NoCall
      /\ UNCHANGED <<obj, kind, maker, tabs, running>>
  BY DEF PoolStarted, At, Busy, world
<1>1. /\ CallOK(t, k, o) /\ Knows(o, task[b]["main"]) /\ k \in Local /\ o \in Attributes /\ Types
      /\ ~overlapped[b] => /\ \A u \in Task \ {t} : ~Busy(b, u)
                           /\ Hand(o, k, Mine(b), Runs(b))
  BY <1>0, InCall
<1>2. k.call \in {"launch", "relaunch"}
  BY <1>0, <1>1 DEF CallOK, AttachPlace, ClosePlace, Local, Call
<1>3. \A a \in Browser, u \in Task :
        /\ ~task[a][u].onBrowser
        /\ a # b \/ u # t => task[a][u].at # "poolStart"
  BY <1>0, Locks DEF LifeInv, PoolOK, At
<1>4. CASE pool' = [pool EXCEPT !.lock = <<>>] /\ Fails(b, t)
  <2>1. PICK l \in Local :
          /\ l.at \in {"idle", "exec", "rollback"}
          /\ l.onBrowser => k.onBrowser /\ l.call = k.call
          /\ Moves(b, t, o, l) /\ Sound(b, t, o, l) /\ Growth(b, t, o, l)
          /\ Mine(b)' = Mine(b) /\ Runs(b)' = Runs(b) => Holds(b, t, o, l)
    BY <1>0, <1>2, <1>4, FailsEffect
  <2>2. Mine(b)' = Mine(b) /\ Runs(b)' = Runs(b)
    BY <1>0, SameContexts, SameDrivers
  <2>3. /\ pool' \in [up : BOOLEAN, headless : {"on", "off"},
                      lock : {<<>>, <<None, "shutdown">>} \cup (Browser \X Task),
                      active : SUBSET Context]
        /\ pool'.lock = <<>>
    BY <1>1, <1>4 DEF Types, WorldTypes
  <2>4. PoolOK'
    <3>1. \A a \in Browser, u \in Task :
            \/ /\ a # b \/ u # t
               /\ task'[a][u].at = task[a][u].at \/ task'[a][u].at = "exec"
               /\ task'[a][u].onBrowser = task[a][u].onBrowser
            \/ a = b /\ u = t /\ task'[a][u] = l
      <4>1. \A u \in Task \ {t} :
              /\ task'[b][u].at = task[b][u].at \/ task'[b][u].at = "exec"
              /\ task'[b][u].onBrowser = task[b][u].onBrowser
        BY <1>1, <2>1, OthersMove
      <4> QED BY <2>1, <4>1 DEF Moves, TaskMoves
    <3>2. \A a \in Browser, u \in Task :
            task'[a][u].at # "poolStart" /\ ~task'[a][u].onBrowser
      BY <1>3, <2>1, <3>1
    <3> QED BY <2>3, <3>2, Locks DEF PoolOK, At
  <2> HIDE DEF k, o
  <2> QED BY <1>0, <1>1, <2>1, <2>2, <2>3, <2>4, LockChanges DEF Holds, k, o
<1>5. ASSUME Continue(b, t, [k EXCEPT !.at = "newContext", !.onBrowser = TRUE]),
             pool' = [pool EXCEPT !.up = TRUE, !.lock = <<>>,
                        !.headless = IF k.call = "launch" /\ Ask[b] = "off"
                                     THEN "off" ELSE "on"]
      PROVE  LifeInv'
  <2> DEFINE l == [k EXCEPT !.at = "newContext", !.onBrowser = TRUE]
  <2>1. /\ l \in Local /\ l.at = "newContext" /\ l.call = k.call /\ l.ctx = k.ctx
        /\ l.pw = k.pw /\ l.mode = k.mode /\ l.onBrowser
    BY <1>1 DEF Local, Place, LaunchPlace
  <2>2. Continue(b, t, l)
    BY <1>5
  <2> HIDE DEF l
  <2>3. Moves(b, t, o, l) /\ overlapped'[b] = overlapped[b]
    BY <1>0, <1>1, <2>1, <2>2, SameObject, ContinueEffect, NoCallMoves
  <2>4. CallOK(t, l, o)
    BY <1>0, <1>1, <1>2, <2>1 DEF CallOK, RelaunchPlace, LaunchPlace
  <2>5. Sound(b, t, o, l)
    BY <1>1, <1>2, <2>1, <2>4 DEF Sound, Knows
  <2>6. Growth(b, t, o, l)
    BY <2>1, NoGrowth
  <2>7. ~overlapped[b] => Hand(o, l, Mine(b), Runs(b))
    BY <1>0, <1>1, <1>2, <2>1 DEF Hand, Unset, Nothing
  <2>8. /\ pool' \in [up : BOOLEAN, headless : {"on", "off"},
                      lock : {<<>>, <<None, "shutdown">>} \cup (Browser \X Task),
                      active : SUBSET Context]
        /\ pool'.lock = <<>> /\ pool'.up
        /\ pool'.headless = IF k.call = "launch" /\ Ask[b] = "off" THEN "off" ELSE "on"
    BY <1>1, <1>5 DEF Types, WorldTypes
  <2>9. PoolOK'
    <3>1. \A a \in Browser, u \in Task :
            \/ (a # b \/ u # t) /\ task'[a][u] = task[a][u]
            \/ a = b /\ u = t /\ task'[a][u] = l
      BY <1>1, <2>1, <2>2, ContinueEffect DEF TaskBecomes
    <3>2. Ask[b] \in {"any", "on", "off"}
      BY ConstantsAssumption
    <3>3. k.call = "launch" => Ask[b] \in {"any", pool'.headless}
      BY <2>8, <3>2
    <3>4. \A a \in Browser, u \in Task :
            /\ task'[a][u].at # "poolStart"
            /\ task'[a][u].onBrowser /\ task'[a][u].call = "launch"
                  => Ask[a] \in {"any", pool'.headless}
      BY <1>3, <2>1, <3>1, <3>3
    <3> QED BY <2>8, <3>4, Locks DEF PoolOK, At
  <2> HIDE DEF k, o
  <2> QED BY <1>0, <1>1, <2>1, <2>3, <2>5, <2>6, <2>7, <2>8, <2>9, LockChanges DEF k, o
<1> QED BY <1>4, <1>5 DEF PoolStarted

\* A failed step that leaves the world and the pool alone.
LEMMA FailsStep ==
  ASSUME LifeInv, NEW b \in Browser, NEW t \in Task, Fails(b, t), NoCall,
         UNCHANGED <<obj, kind, maker, tabs, running, pool>>,
         task[b][t].at \in {"ensure", "poolStart", "newContext", "context"},
         task[b][t].call \in {"launch", "relaunch"}
  PROVE  LifeInv'
<1> DEFINE k == task[b][t]
           o == obj[b]
<1>1. PICK l \in Local :
         /\ l.at \in {"idle", "exec", "rollback"}
         /\ l.onBrowser => k.onBrowser /\ l.call = k.call
         /\ obj[b] \in Attributes
         /\ Moves(b, t, o, l) /\ Sound(b, t, o, l) /\ Growth(b, t, o, l)
         /\ Mine(b)' = Mine(b) /\ Runs(b)' = Runs(b) => Holds(b, t, o, l)
  BY FailsEffect
<1>2. Mine(b)' = Mine(b) /\ Runs(b)' = Runs(b)
  BY SameContexts, SameDrivers
<1> HIDE DEF k, o
<1> QED BY <1>1, <1>2, NothingChanges DEF Holds, Browses, k, o

\* A step in which a context is opened.
LEMMA ContextOpens ==
  ASSUME LifeInv, NEW b \in Browser, NEW t \in Task, NEW o \in Attributes, NEW l \in Local,
         NEW c \in Context, NewContext(c), NEW as \in Kind \ {"none"}, Open(c, as, b),
         Moves(b, t, o, l), Sound(b, t, o, l), Growth(b, t, o, l),
         ~overlapped'[b] => /\ \A u \in Task \ {t} : ~Busy(b, u)
                            /\ Hand(o, l, Mine(b) \cup {c}, Runs(b)),
         UNCHANGED <<tabs, running>>,
         pool' = pool \/ pool' = [pool EXCEPT !.active = @ \cup {c}],
         Browses(b, t, l)
  PROVE  LifeInv'
<1>1. Types
  BY DEF LifeInv
<1>2. /\ pool' \in [up : BOOLEAN, headless : {"on", "off"},
                    lock : {<<>>, <<None, "shutdown">>} \cup (Browser \X Task),
                    active : SUBSET Context]
      /\ pool'.up = pool.up /\ pool'.lock = pool.lock /\ pool'.headless = pool.headless
  <2>1. CASE pool' = pool
    BY <1>1, <2>1 DEF Types, WorldTypes
  <2>2. CASE pool' = [pool EXCEPT !.active = pool.active \cup {c}]
    BY <1>1, <2>2 DEF Types, WorldTypes
  <2> QED BY <2>1, <2>2
<1>3. /\ kind' \in [Context -> Kind] /\ maker' \in [Context -> Browser \cup {None}]
      /\ \A u \in UserContext : maker'[u] = None
      /\ Mine(b)' = Mine(b) \cup {c}
      /\ \A a \in Browser \ {b} : Mine(a)' = Mine(a)
  BY <1>1, Opening
<1>4. \A a \in Browser : Runs(a)' = Runs(a)
  BY SameDrivers
<1>5. WorldTypes'
  BY <1>1, <1>2, <1>3 DEF Types, WorldTypes
<1>6. Spared(b)
  BY <1>3, <1>4 DEF Spared
<1>7. PoolOK'
  BY <1>2, QuietPool DEF LifeInv, Quiet
<1>8. Holds(b, t, o, l)
  BY <1>3, <1>4 DEF Holds
<1> QED BY <1>5, <1>6, <1>7, <1>8, Assemble

\* The context of a launch becomes the instance's, that of a relaunch is staged.
LEMMA NewContextStep ==
  ASSUME LifeInv, NEW b \in Browser, NEW t \in Task, NoCall, UNCHANGED <<tabs, running>>,
         task[b][t].at \in {"newContext", "context"},
         task[b][t].call \in {"launch", "relaunch"},
         NEW c \in Context, NewContext(c), NEW as \in Kind \ {"none"}, Open(c, as, b),
         pool' = pool \/ pool' = [pool EXCEPT !.active = @ \cup {c}],
         IF task[b][t].call = "relaunch"
         THEN /\ Continue(b, t, [task[b][t] EXCEPT !.at = "stage", !.ctx = c])
              /\ UNCHANGED obj
         ELSE /\ Goto(b, t, "page")
              /\ Become(b, [obj[b] EXCEPT !.browser = c])
  PROVE  LifeInv'
<1> DEFINE k == task[b][t]
           o == obj[b]
<1>0. Busy(b, t)
  BY DEF Busy
<1>1. /\ CallOK(t, k, o) /\ Knows(o, task[b]["main"]) /\ k \in Local /\ o \in Attributes /\ Types
      /\ ~overlapped[b] => /\ \A u \in Task \ {t} : ~Busy(b, u)
                           /\ Hand(o, k, Mine(b), Runs(b))
  BY <1>0, InCall
<1>2. c \notin UserContext /\ c # None
  BY ConstantsAssumption DEF NewContext
<1>3. None \notin Mine(b)
  BY ConstantsAssumption DEF Mine
<1>4. CASE k.call = "relaunch"
  <2> DEFINE l == [k EXCEPT !.at = "stage", !.ctx = c]
  <2>1. /\ l \in Local /\ l.at = "stage" /\ l.call = k.call /\ l.ctx = c
        /\ l.pw = k.pw /\ l.mode = k.mode /\ l.onBrowser = k.onBrowser
    BY <1>1 DEF Local, Place, RelaunchPlace
  <2>2. Continue(b, t, l) /\ UNCHANGED obj
    BY <1>4
  <2> HIDE DEF l
  <2>3. Moves(b, t, o, l) /\ overlapped'[b] = overlapped[b]
    BY <1>1, <2>1, <2>2, SameObject, ContinueEffect, NoCallMoves
  <2>4. CallOK(t, l, o)
    BY <1>1, <1>2, <1>4, <2>1 DEF CallOK, RelaunchPlace
  <2>5. Sound(b, t, o, l)
    BY <1>1, <1>4, <2>1, <2>4 DEF Sound, Knows
  <2>6. Growth(b, t, o, l)
    BY <2>1, NoGrowth
  <2>7. ~overlapped[b] => Hand(o, l, Mine(b) \cup {c}, Runs(b))
    BY <1>1, <1>4, <1>3, <2>1 DEF Hand, Unset, Nothing, CallOK
  <2>8. Browses(b, t, l)
    BY <2>1 DEF Browses
  <2> HIDE DEF k, o
  <2> QED BY <1>1, <2>1, <2>3, <2>5, <2>6, <2>7, <2>8, ContextOpens DEF k, o
<1>5. CASE k.call = "launch"
  <2> DEFINE l == Moved(k, "page")
             n == [o EXCEPT !.browser = c]
  <2>1. /\ l \in Local /\ l.at = "page" /\ l.call = k.call /\ l.ctx = k.ctx
        /\ l.pw = k.pw /\ l.mode = k.mode /\ l.new = k.new /\ l.onBrowser = k.onBrowser
    BY <1>1, MovedLocal DEF Place, LaunchPlace
  <2>2. Goto(b, t, "page") /\ Become(b, n)
    BY <1>5
  <2>3. /\ n \in Attributes /\ n.browser = c /\ n.mode = o.mode /\ n.attached = o.attached
        /\ n.usingPool = o.usingPool /\ n.hasPool = o.hasPool /\ n.pw = o.pw
        /\ n.remote = o.remote /\ n.atexit = o.atexit /\ n.ours = o.ours
    BY <1>1 DEF Attributes
  <2>4. Moves(b, t, n, l) /\ overlapped'[b] = overlapped[b]
    <3>1. TaskBecomes(b, t, l)
      BY <1>1, <2>2, GotoEffect DEF Place, LaunchPlace
    <3>2. ObjBecomes(b, n)
      BY <1>1, <2>2, <2>3, BecomeEffect
    <3> QED BY <1>1, <3>1, <3>2, NoCallMoves
  <2> HIDE DEF l, n
  <2>5. CallOK(t, l, n)
    BY <1>1, <1>5, <2>1, <2>3 DEF CallOK, LaunchPlace
  <2>6. Sound(b, t, n, l)
    BY <1>1, <1>2, <1>5, <2>1, <2>3, <2>5 DEF Sound, Knows, CallOK
  <2>7. Growth(b, t, n, l)
    BY <2>1, <2>3, NoGrowth
  <2>8. ~overlapped[b] => Hand(n, l, Mine(b) \cup {c}, Runs(b))
    BY <1>1, <1>5, <1>3, <2>1, <2>3 DEF Hand, Unset, Nothing
  <2>9. Browses(b, t, l)
    BY <2>1 DEF Browses
  <2> HIDE DEF k, o
  <2> QED BY <1>1, <2>1, <2>3, <2>4, <2>6, <2>7, <2>8, <2>9, ContextOpens DEF k, o
<1> QED BY <1>4, <1>5

LEMMA PoolContextStep ==
  ASSUME LifeInv, NEW b \in Browser, NEW t \in Task, PoolContext(b, t)
  PROVE  LifeInv'
<1>0. task[b][t].at = "newContext" /\ Busy(b, t) /\ NoCall /\ UNCHANGED <<tabs, running>>
  BY DEF PoolContext, At, Busy
<1>1. task[b][t].call \in {"launch", "relaunch"}
  BY <1>0, InCall DEF CallOK, AttachPlace, ClosePlace, Local, Call
<1>2. CASE Fails(b, t) /\ UNCHANGED <<obj, kind, maker, pool>>
  BY <1>0, <1>1, <1>2, FailsStep
<1>3. ASSUME NEW c \in Context, NewContext(c), Open(c, "pool", b),
             pool' = [pool EXCEPT !.active = @ \cup {c}],
             IF task[b][t].call = "relaunch"
             THEN /\ Continue(b, t, [task[b][t] EXCEPT !.at = "stage", !.ctx = c])
                  /\ UNCHANGED obj
             ELSE /\ Goto(b, t, "page")
                  /\ Become(b, [obj[b] EXCEPT !.browser = c])
      PROVE  LifeInv'
  <2>1. "pool" \in Kind \ {"none"}
    BY DEF Kind
  <2> QED BY <1>0, <1>1, <1>3, <2>1, NewContextStep
<1> QED BY <1>2, <1>3 DEF PoolContext

LEMMA PersistentContextStep ==
  ASSUME LifeInv, NEW b \in Browser, NEW t \in Task, PersistentContext(b, t)
  PROVE  LifeInv'
<1>0. /\ task[b][t].at = "context" /\ Busy(b, t) /\ NoCall
      /\ UNCHANGED <<tabs, running, pool>>
  BY DEF PersistentContext, At, Busy
<1>1. task[b][t].call \in {"launch", "relaunch"}
  BY <1>0, InCall DEF CallOK, AttachPlace, ClosePlace, Local, Call
<1>2. CASE Fails(b, t) /\ UNCHANGED <<obj, kind, maker>>
  BY <1>0, <1>1, <1>2, FailsStep
<1>3. ASSUME NEW c \in Context, NewContext(c), Open(c, "persistent", b),
             IF task[b][t].call = "relaunch"
             THEN /\ Continue(b, t, [task[b][t] EXCEPT !.at = "stage", !.ctx = c])
                  /\ UNCHANGED obj
             ELSE /\ Goto(b, t, "page")
                  /\ Become(b, [obj[b] EXCEPT !.browser = c])
      PROVE  LifeInv'
  <2>1. "persistent" \in Kind \ {"none"}
    BY DEF Kind
  <2> QED BY <1>0, <1>1, <1>3, <2>1, NewContextStep
<1> QED BY <1>2, <1>3 DEF PersistentContext

\* A step that opens or closes pages only.
LEMMA PagesChange ==
  ASSUME LifeInv, NEW b \in Browser, NEW t \in Task, NEW o \in Attributes, NEW l \in Local,
         Moves(b, t, o, l), Sound(b, t, o, l), Growth(b, t, o, l),
         ~overlapped'[b] => /\ \A u \in Task \ {t} : ~Busy(b, u)
                            /\ Hand(o, l, Mine(b), Runs(b)),
         tabs' \in [Context -> SUBSET PageName],
         UNCHANGED <<kind, maker, running, pool>>, Browses(b, t, l)
  PROVE  LifeInv'
<1>1. /\ pool' \in [up : BOOLEAN, headless : {"on", "off"},
                    lock : {<<>>, <<None, "shutdown">>} \cup (Browser \X Task),
                    active : SUBSET Context]
      /\ pool'.up = pool.up /\ pool'.lock = pool.lock /\ pool'.headless = pool.headless
  BY SamePool DEF LifeInv, Types
<1>2. \A a \in Browser : Mine(a)' = Mine(a) /\ Runs(a)' = Runs(a)
  BY SameContexts, SameDrivers
<1>3. WorldTypes'
  BY <1>1 DEF LifeInv, Types, WorldTypes
<1>4. Spared(b)
  BY <1>2 DEF Spared
<1>5. PoolOK'
  BY <1>1, QuietPool DEF LifeInv, Quiet
<1>6. Holds(b, t, o, l)
  BY <1>2 DEF Holds
<1> QED BY <1>3, <1>4, <1>5, <1>6, Assemble

\* A step in which contexts are closed, and released by the pool.
LEMMA ContextsClose ==
  ASSUME LifeInv, NEW b \in Browser, NEW t \in Task, NEW o \in Attributes, NEW l \in Local,
         NEW S \in SUBSET Context, CloseContexts(S),
         Moves(b, t, o, l), Sound(b, t, o, l), Growth(b, t, o, l),
         ~overlapped'[b] => /\ \A u \in Task \ {t} : ~Busy(b, u)
                            /\ Hand(o, l, Mine(b) \ S, Runs(b)),
         UNCHANGED running,
         pool' = pool \/ \E c : pool' = Released(c),
         Browses(b, t, l)
  PROVE  LifeInv'
<1>1. Types
  BY DEF LifeInv
<1>2. /\ pool' \in [up : BOOLEAN, headless : {"on", "off"},
                    lock : {<<>>, <<None, "shutdown">>} \cup (Browser \X Task),
                    active : SUBSET Context]
      /\ pool'.up = pool.up /\ pool'.lock = pool.lock /\ pool'.headless = pool.headless
  BY <1>1, SamePool, ReleasedPool DEF Types
<1>3. /\ kind' \in [Context -> Kind] /\ tabs' \in [Context -> SUBSET PageName]
      /\ maker' = maker
      /\ \A a \in Browser : Mine(a)' = Mine(a) \ S
  BY <1>1, Closing
<1>4. \A a \in Browser : Runs(a)' = Runs(a)
  BY SameDrivers
<1>5. WorldTypes'
  BY <1>1, <1>2, <1>3 DEF Types, WorldTypes
<1>6. Spared(b)
  BY <1>3, <1>4 DEF Spared
<1>7. PoolOK'
  BY <1>2, QuietPool DEF LifeInv, Quiet
<1>8. Holds(b, t, o, l)
  BY <1>3, <1>4 DEF Holds
<1> QED BY <1>5, <1>6, <1>7, <1>8, Assemble

\* A step in which the driver of the instance is stopped.
LEMMA DriverStops ==
  ASSUME LifeInv, NEW b \in Browser, NEW t \in Task, NEW o \in Attributes, NEW l \in Local,
         Stop(obj[b].pw),
         Moves(b, t, o, l), Sound(b, t, o, l), Growth(b, t, o, l),
         ~overlapped'[b] => /\ \A u \in Task \ {t} : ~Busy(b, u)
                            /\ Hand(o, l, Mine(b), Runs(b) \ {obj[b].pw}),
         UNCHANGED <<kind, maker, tabs, pool>>,
         Browses(b, t, l)
  PROVE  LifeInv'
<1>1. Types
  BY DEF LifeInv
<1>2. /\ pool' \in [up : BOOLEAN, headless : {"on", "off"},
                    lock : {<<>>, <<None, "shutdown">>} \cup (Browser \X Task),
                    active : SUBSET Context]
      /\ pool'.up = pool.up /\ pool'.lock = pool.lock /\ pool'.headless = pool.headless
  BY <1>1, SamePool DEF Types
<1>3. /\ running' \in [Driver -> Browser \cup {None}]
      /\ \A a \in Browser : Runs(a)' = Runs(a) \ {obj[b].pw}
  BY <1>1, Stopping
<1>4. \A a \in Browser : Mine(a)' = Mine(a)
  BY SameContexts
<1>5. WorldTypes'
  BY <1>1, <1>2, <1>3 DEF Types, WorldTypes
<1>6. ASSUME NEW a \in Browser \ {b}, ~overlapped[a]
      PROVE  Runs(a)' = Runs(a)
  <2>1. PICK u \in Task : Hand(obj[a], task[a][u], Mine(a), Runs(a))
    BY <1>6 DEF LifeInv, InstanceOK, InHand
  <2>2. Runs(a) \subseteq {obj[a].pw} /\ None \notin Runs(a)
    BY <2>1, ConstantsAssumption DEF Hand, Runs
  <2>3. Drivers(a) \cap Drivers(b) = {}
    BY DEF LifeInv, Apart
  <2>4. obj[b].pw = None \/ obj[b].pw \in Drivers(b)
    BY DEF Drivers
  <2>5. obj[a].pw = None \/ obj[a].pw \in Drivers(a)
    BY DEF Drivers
  <2>6. obj[b].pw \notin Runs(a)
    BY <2>2, <2>3, <2>4, <2>5
  <2> QED BY <1>3, <2>6
<1>7. Spared(b)
  BY <1>4, <1>6 DEF Spared
<1>8. PoolOK'
  BY <1>2, QuietPool DEF LifeInv, Quiet
<1>9. Holds(b, t, o, l)
  BY <1>3, <1>4 DEF Holds
<1> QED BY <1>5, <1>7, <1>8, <1>9, Assemble

-----------------------------------------------------------------------------
LEMMA Tasks ==
  /\ "main" \in Task /\ "hook" \in Task
  /\ \A t \in Task : t = "main" \/ t = "hook"
BY DEF Task

\* launch()

LEMMA LaunchStep ==
  ASSUME LifeInv, NEW b \in Browser, NEW way, Launch(b, way)
  PROVE  LifeInv'
<1> DEFINE k == task[b]["main"]
           o == obj[b]
<1>0. Begins(b) /\ k.at = "idle"
  BY DEF Launch, Begins, At
<1>1. /\ CallOK("main", k, o) /\ Knows(o, k) /\ k \in Local /\ o \in Attributes /\ Types
      /\ ~overlapped[b] /\ ~Busy(b, "hook") =>
           /\ \A u \in Task \ {"main"} : ~Busy(b, u)
           /\ Hand(o, k, Mine(b), Runs(b))
  BY <1>0, CallOf, AtRest, Tasks DEF Busy
<1>2. /\ o.browser = None /\ o.page = None /\ o.pw = None /\ ~o.remote /\ ~o.attached
      /\ UNCHANGED <<kind, maker, tabs, running, pool, faults>>
  BY DEF Launch, LaunchGuard, world
<1>3. CASE way = "pooled"
  <2>0. /\ Become(b, [o EXCEPT !.atexit = TRUE, !.usingPool = TRUE, !.hasPool = TRUE,
                               !.mode = "pooled"])
        /\ Continue(b, "main", [Idle EXCEPT !.at = "ensure", !.call = "launch"])
    BY <1>3 DEF Launch
  <2> DEFINE l == [Idle EXCEPT !.at = "ensure", !.call = "launch"]
             n == [o EXCEPT !.atexit = TRUE, !.usingPool = TRUE, !.hasPool = TRUE,
                            !.mode = "pooled"]
  <2>1. /\ l \in Local /\ l.at = "ensure" /\ l.call = "launch" /\ l.ctx = None
        /\ l.pw = None /\ l.mode = "none" /\ ~l.onBrowser
    BY <1>0, <1>1, <1>2, <2>0 DEF Idle, Local, Place, Call, Mode, LaunchPlace, AttachPlace,
       RelaunchPlace, ClosePlace
  <2>2. /\ n \in Attributes /\ n.browser = o.browser /\ n.mode = "pooled"
        /\ n.attached = o.attached /\ n.usingPool = TRUE /\ n.hasPool = TRUE /\ n.pw = o.pw
        /\ n.remote = o.remote /\ n.atexit = TRUE /\ n.ours = o.ours
    BY <1>0, <1>1, <1>2, <2>0 DEF Attributes, Mode
  <2>3. TaskBecomes(b, "main", l)
    BY <1>0, <1>1, <1>2, <2>0, <2>1, ContinueEffect, Tasks
  <2>4. ObjBecomes(b, n)
    BY <1>0, <1>1, <1>2, <2>0, <2>2, BecomeEffect
  <2> HIDE DEF l, n
  <2>5. /\ Moves(b, "main", n, l)
        /\ ~overlapped'[b] => ~overlapped[b] /\ ~Busy(b, "hook")
    BY <1>0, <1>1, <1>2, <2>0, <2>3, <2>4, BeginMoves
  <2>6. CallOK("main", l, n)
    BY <1>0, <1>1, <1>2, <2>0, <2>1, <2>2 DEF CallOK, LaunchPlace, AttachPlace,
       RelaunchPlace, ClosePlace
  <2>7. Sound(b, "main", n, l)
    BY <1>0, <1>1, <1>2, <2>0, <2>1, <2>2, <2>6 DEF Sound, Knows, CallOK
  <2>8. Growth(b, "main", n, l)
    BY <1>0, <1>1, <1>2, <2>0, <2>1, <2>2, NoGrowth, Tasks
  <2>9. ~overlapped'[b] => Hand(n, l, Mine(b), Runs(b))
    BY <1>0, <1>1, <1>2, <2>0, <2>1, <2>2, <2>5 DEF Hand, Unset, Nothing, CallOK
  <2>10. Browses(b, "main", l)
    BY <1>0, <1>1, <1>2, <2>0, <2>1 DEF Browses
  <2> HIDE DEF k, o
  <2> QED BY <1>0, <1>1, <1>2, <2>0, <2>1, <2>2, <2>5, <2>7, <2>8, <2>9, <2>10,
         NothingChanges, Tasks DEF k, o
<1>4. CASE way # "pooled"
  <2>0. /\ Become(b, [o EXCEPT !.atexit = TRUE, !.usingPool = FALSE])
        /\ Continue(b, "main", [Idle EXCEPT !.at = "driver", !.call = "launch"])
    BY <1>4 DEF Launch
  <2> DEFINE l == [Idle EXCEPT !.at = "driver", !.call = "launch"]
             n == [o EXCEPT !.atexit = TRUE, !.usingPool = FALSE]
  <2>1. /\ l \in Local /\ l.at = "driver" /\ l.call = "launch" /\ l.ctx = None
        /\ l.pw = None /\ l.mode = "none" /\ ~l.onBrowser
    BY <1>0, <1>1, <1>2, <2>0 DEF Idle, Local, Place, Call, Mode, LaunchPlace, AttachPlace,
       RelaunchPlace, ClosePlace
  <2>2. /\ n \in Attributes /\ n.browser = o.browser /\ n.mode = o.mode
        /\ n.attached = o.attached /\ n.usingPool = FALSE /\ n.hasPool = o.hasPool
        /\ n.pw = o.pw /\ n.remote = o.remote /\ n.atexit = TRUE /\ n.ours = o.ours
    BY <1>0, <1>1, <1>2, <2>0 DEF Attributes, Mode
  <2>3. TaskBecomes(b, "main", l)
    BY <1>0, <1>1, <1>2, <2>0, <2>1, ContinueEffect, Tasks
  <2>4. ObjBecomes(b, n)
    BY <1>0, <1>1, <1>2, <2>0, <2>2, BecomeEffect
  <2> HIDE DEF l, n
  <2>5. /\ Moves(b, "main", n, l)
        /\ ~overlapped'[b] => ~overlapped[b] /\ ~Busy(b, "hook")
    BY <1>0, <1>1, <1>2, <2>0, <2>3, <2>4, BeginMoves
  <2>6. CallOK("main", l, n)
    BY <1>0, <1>1, <1>2, <2>0, <2>1, <2>2 DEF CallOK, LaunchPlace, AttachPlace,
       RelaunchPlace, ClosePlace
  <2>7. Sound(b, "main", n, l)
    BY <1>0, <1>1, <1>2, <2>0, <2>1, <2>2, <2>6 DEF Sound, Knows, CallOK
  <2>8. Growth(b, "main", n, l)
    BY <1>0, <1>1, <1>2, <2>0, <2>1, <2>2, NoGrowth, Tasks
  <2>9. ~overlapped'[b] => Hand(n, l, Mine(b), Runs(b))
    BY <1>0, <1>1, <1>2, <2>0, <2>1, <2>2, <2>5 DEF Hand, Unset, Nothing, CallOK
  <2>10. Browses(b, "main", l)
    BY <1>0, <1>1, <1>2, <2>0, <2>1 DEF Browses
  <2> HIDE DEF k, o
  <2> QED BY <1>0, <1>1, <1>2, <2>0, <2>1, <2>2, <2>5, <2>7, <2>8, <2>9, <2>10,
         NothingChanges, Tasks DEF k, o
<1> QED BY <1>3, <1>4

LEMMA NoNone ==
  /\ \A a \in Browser : None \notin Mine(a) /\ None \notin Runs(a)
  /\ Types => \A a \in Browser : Mine(a) \cap UserContext = {}
BY ConstantsAssumption DEF Mine, Runs, Types, WorldTypes

\* A step in which a driver is started.
LEMMA DriverStarts ==
  ASSUME LifeInv, NEW b \in Browser, NEW t \in Task, NEW o \in Attributes, NEW l \in Local,
         NEW d \in Driver, NewDriver(d), running' = [running EXCEPT ![d] = b],
         Moves(b, t, o, l), Sound(b, t, o, l), Growth(b, t, o, l),
         ~overlapped'[b] => /\ \A u \in Task \ {t} : ~Busy(b, u)
                            /\ Hand(o, l, Mine(b), Runs(b) \cup {d}),
         UNCHANGED <<kind, maker, tabs, pool>>,
         Browses(b, t, l)
  PROVE  LifeInv'
<1>1. Types
  BY DEF LifeInv
<1>2. /\ pool' \in [up : BOOLEAN, headless : {"on", "off"},
                    lock : {<<>>, <<None, "shutdown">>} \cup (Browser \X Task),
                    active : SUBSET Context]
      /\ pool'.up = pool.up /\ pool'.lock = pool.lock /\ pool'.headless = pool.headless
  BY <1>1, SamePool DEF Types
<1>3. /\ running' \in [Driver -> Browser \cup {None}]
      /\ Runs(b)' = Runs(b) \cup {d}
      /\ \A a \in Browser \ {b} : Runs(a)' = Runs(a)
  BY <1>1, Starting
<1>4. \A a \in Browser : Mine(a)' = Mine(a)
  BY SameContexts
<1>5. WorldTypes'
  BY <1>1, <1>2, <1>3 DEF Types, WorldTypes
<1>6. Spared(b)
  BY <1>3, <1>4 DEF Spared
<1>7. PoolOK'
  BY <1>2, QuietPool DEF LifeInv, Quiet
<1>8. Holds(b, t, o, l)
  BY <1>3, <1>4 DEF Holds
<1> QED BY <1>5, <1>6, <1>7, <1>8, Assemble

LEMMA StartDriverStep ==
  ASSUME LifeInv, NEW b \in Browser, StartDriver(b)
  PROVE  LifeInv'
<1> DEFINE k == task[b]["main"]
           o == obj[b]
<1>0. /\ k.at = "driver" /\ Busy(b, "main") /\ NoCall
      /\ UNCHANGED <<kind, maker, tabs, pool>>
  BY DEF StartDriver, At, Busy, world
<1>1. /\ CallOK("main", k, o) /\ Knows(o, task[b]["main"]) /\ k \in Local /\ o \in Attributes /\ Types
      /\ ~overlapped[b] => /\ \A u \in Task \ {"main"} : ~Busy(b, u)
                           /\ Hand(o, k, Mine(b), Runs(b))
  BY <1>0, InCall, Tasks
<1>2. k.call \in {"launch", "attach"}
  BY <1>0, <1>1 DEF CallOK, RelaunchPlace, ClosePlace, Local, Call
<1>3. CASE Raises /\ Return(b, "main") /\ UNCHANGED <<obj, running>>
  <2> DEFINE l == Rest("main")
  <2>1. /\ l \in Local /\ l.at \in {"idle", "exec"} /\ l.call = "none" /\ l.ctx = None
        /\ l.pw = None /\ ~l.onBrowser /\ l.at = "idle"
    BY RestLocal, Tasks
  <2>3. TaskBecomes(b, "main", l)
    BY <1>0, <1>1, <1>2, <1>3, ReturnEffect, Tasks
  <2>4. ObjBecomes(b, o)
    BY <1>0, <1>1, <1>2, <1>3, SameObject
  <2> HIDE DEF l
  <2>5. Moves(b, "main", o, l) /\ overlapped'[b] = overlapped[b]
    BY <1>0, <1>1, <1>2, <1>3, <2>3, <2>4, NoCallMoves, Tasks
  <2>6. CallOK("main", l, o)
    BY <1>0, <1>1, <1>2, <1>3, <2>1 DEF CallOK, LaunchPlace, AttachPlace, RelaunchPlace,
       ClosePlace
  <2>7. Sound(b, "main", o, l)
    BY <1>0, <1>1, <1>2, <1>3, <2>1, <2>6 DEF Sound, Knows, CallOK
  <2>8. Growth(b, "main", o, l)
    BY <1>0, <1>1, <1>2, <1>3, <2>1, NoGrowth, Tasks
  <2>9. ~overlapped[b] => Hand(o, l, Mine(b), Runs(b))
    BY <1>0, <1>1, <1>2, <1>3, <2>1 DEF Hand, Unset, Nothing, CallOK
  <2>10. Browses(b, "main", l)
    BY <1>0, <1>1, <1>2, <1>3, <2>1 DEF Browses
  <2> HIDE DEF k, o
  <2> QED BY <1>0, <1>1, <1>2, <1>3, <2>1, <2>5, <2>7, <2>8, <2>9, <2>10, NothingChanges,
         Tasks DEF k, o
<1>4. ASSUME NEW d \in Driver, NewDriver(d), running' = [running EXCEPT ![d] = b],
             IF k.call = "launch"
             THEN /\ Become(b, [o EXCEPT !.pw = d, !.mode = "launched"])
                  /\ Continue(b, "main", [k EXCEPT !.at = "context", !.pw = d])
             ELSE /\ Become(b, [o EXCEPT !.pw = d])
                  /\ Goto(b, "main", "connect")
      PROVE  LifeInv'
  <2>1. CASE k.call = "launch"
    <3> DEFINE l == [k EXCEPT !.at = "context", !.pw = d]
               n == [o EXCEPT !.pw = d, !.mode = "launched"]
    <3>1. /\ l \in Local /\ l.at = "context" /\ l.call = k.call /\ l.ctx = k.ctx /\ l.pw = d
          /\ l.mode = k.mode /\ l.onBrowser = k.onBrowser
      BY <1>0, <1>1, <1>4, <2>1 DEF Local, Place, Call, Mode, LaunchPlace, AttachPlace,
         RelaunchPlace, ClosePlace
    <3>2. /\ n \in Attributes /\ n.browser = o.browser /\ n.mode = "launched"
          /\ n.attached = o.attached /\ n.usingPool = o.usingPool /\ n.hasPool = o.hasPool
          /\ n.pw = d /\ n.remote = o.remote /\ n.atexit = o.atexit /\ n.ours = o.ours
      BY <1>0, <1>1, <1>4, <2>1 DEF Attributes, Mode
    <3>3. TaskBecomes(b, "main", l)
      BY <1>0, <1>1, <1>4, <2>1, <3>1, ContinueEffect, Tasks
    <3>4. ObjBecomes(b, n)
      BY <1>0, <1>1, <1>4, <2>1, <3>2, BecomeEffect
    <3> HIDE DEF l, n
    <3>5. Moves(b, "main", n, l) /\ overlapped'[b] = overlapped[b]
      BY <1>0, <1>1, <1>4, <2>1, <3>3, <3>4, NoCallMoves, Tasks
    <3>6. CallOK("main", l, n)
      BY <1>0, <1>1, <1>4, <2>1, <3>1, <3>2 DEF CallOK, LaunchPlace, AttachPlace,
         RelaunchPlace, ClosePlace
    <3>7. Sound(b, "main", n, l)
      BY <1>0, <1>1, <1>4, <2>1, <3>1, <3>2, <3>6 DEF Sound, Knows, CallOK
    <3>8. Growth(b, "main", n, l)
      BY <1>0, <1>1, <1>4, <2>1, <3>1, <3>2, NoGrowth, Tasks
    <3>9. ~overlapped[b] => Hand(n, l, Mine(b), Runs(b) \cup {d})
      BY <1>0, <1>1, <1>4, <2>1, <3>1, <3>2, NoNone DEF Hand, Unset, Nothing, CallOK
    <3>10. Browses(b, "main", l)
      BY <1>0, <1>1, <1>4, <2>1, <3>1 DEF Browses
    <3> HIDE DEF k, o
    <3> QED BY <1>0, <1>1, <1>4, <2>1, <3>1, <3>2, <3>5, <3>7, <3>8, <3>9, <3>10,
           DriverStarts, Tasks DEF k, o
  <2>2. CASE k.call = "attach"
    <3> DEFINE l == Moved(k, "connect")
               n == [o EXCEPT !.pw = d]
    <3>1. /\ l \in Local /\ l.at = "connect" /\ l.call = k.call /\ l.ctx = k.ctx
          /\ l.pw = k.pw /\ l.mode = k.mode /\ l.onBrowser = k.onBrowser
      BY <1>1, MovedLocal DEF Place, LaunchPlace, AttachPlace, RelaunchPlace, ClosePlace
    <3>2. /\ n \in Attributes /\ n.browser = o.browser /\ n.mode = o.mode
          /\ n.attached = o.attached /\ n.usingPool = o.usingPool /\ n.hasPool = o.hasPool
          /\ n.pw = d /\ n.remote = o.remote /\ n.atexit = o.atexit /\ n.ours = o.ours
      BY <1>0, <1>1, <1>4, <2>2 DEF Attributes, Mode
    <3>3. TaskBecomes(b, "main", l)
      BY <1>0, <1>1, <1>4, <2>2, GotoEffect, Tasks DEF Place, LaunchPlace, AttachPlace,
         RelaunchPlace, ClosePlace
    <3>4. ObjBecomes(b, n)
      BY <1>0, <1>1, <1>4, <2>2, <3>2, BecomeEffect
    <3> HIDE DEF l, n
    <3>5. Moves(b, "main", n, l) /\ overlapped'[b] = overlapped[b]
      BY <1>0, <1>1, <1>4, <2>2, <3>3, <3>4, NoCallMoves, Tasks
    <3>6. CallOK("main", l, n)
      BY <1>0, <1>1, <1>4, <2>2, <3>1, <3>2 DEF CallOK, LaunchPlace, AttachPlace,
         RelaunchPlace, ClosePlace
    <3>7. Sound(b, "main", n, l)
      BY <1>0, <1>1, <1>4, <2>2, <3>1, <3>2, <3>6 DEF Sound, Knows, CallOK
    <3>8. Growth(b, "main", n, l)
      BY <1>0, <1>1, <1>4, <2>2, <3>1, <3>2, NoGrowth, Tasks
    <3>9. ~overlapped[b] => Hand(n, l, Mine(b), Runs(b) \cup {d})
      BY <1>0, <1>1, <1>4, <2>2, <3>1, <3>2, NoNone DEF Hand, Unset, Nothing, CallOK
    <3>10. Browses(b, "main", l)
      BY <1>0, <1>1, <1>4, <2>2, <3>1 DEF Browses
    <3> HIDE DEF k, o
    <3> QED BY <1>0, <1>1, <1>4, <2>2, <3>1, <3>2, <3>5, <3>7, <3>8, <3>9, <3>10,
           DriverStarts, Tasks DEF k, o
  <2> QED BY <1>2, <2>1, <2>2
<1> QED BY <1>3, <1>4 DEF StartDriver

LEMMA LaunchPageStep ==
  ASSUME LifeInv, NEW b \in Browser, LaunchPage(b)
  PROVE  LifeInv'
<1> DEFINE k == task[b]["main"]
           o == obj[b]
<1>0. /\ k.at = "page" /\ Busy(b, "main") /\ NoCall
      /\ UNCHANGED <<kind, maker, running, pool>>
  BY DEF LaunchPage, At, Busy, world
<1>1. /\ CallOK("main", k, o) /\ Knows(o, task[b]["main"]) /\ k \in Local /\ o \in Attributes /\ Types
      /\ ~overlapped[b] => /\ \A u \in Task \ {"main"} : ~Busy(b, u)
                           /\ Hand(o, k, Mine(b), Runs(b))
  BY <1>0, InCall, Tasks
<1>2. k.call = "launch"
  BY <1>0, <1>1 DEF CallOK, AttachPlace, RelaunchPlace, ClosePlace, Local, Call
<1>3. CASE Return(b, "main") /\ UNCHANGED <<obj, tabs>>
  <2> DEFINE l == Rest("main")
  <2>1. /\ l \in Local /\ l.at \in {"idle", "exec"} /\ l.call = "none" /\ l.ctx = None
        /\ l.pw = None /\ ~l.onBrowser /\ l.at = "idle"
    BY RestLocal, Tasks
  <2>3. TaskBecomes(b, "main", l)
    BY <1>0, <1>1, <1>2, <1>3, ReturnEffect, Tasks
  <2>4. ObjBecomes(b, o)
    BY <1>0, <1>1, <1>2, <1>3, SameObject
  <2> HIDE DEF l
  <2>5. Moves(b, "main", o, l) /\ overlapped'[b] = overlapped[b]
    BY <1>0, <1>1, <1>2, <1>3, <2>3, <2>4, NoCallMoves, Tasks
  <2>6. CallOK("main", l, o)
    BY <1>0, <1>1, <1>2, <1>3, <2>1 DEF CallOK, LaunchPlace, AttachPlace, RelaunchPlace,
       ClosePlace
  <2>7. Sound(b, "main", o, l)
    BY <1>0, <1>1, <1>2, <1>3, <2>1, <2>6 DEF Sound, Knows, CallOK
  <2>8. Growth(b, "main", o, l)
    BY <1>0, <1>1, <1>2, <1>3, <2>1, NoGrowth, Tasks
  <2>9. ~overlapped[b] => Hand(o, l, Mine(b), Runs(b))
    BY <1>0, <1>1, <1>2, <1>3, <2>1 DEF Hand, Unset, Nothing, CallOK
  <2>10. Browses(b, "main", l)
    BY <1>0, <1>1, <1>2, <1>3, <2>1 DEF Browses
  <2> HIDE DEF k, o
  <2> QED BY <1>0, <1>1, <1>2, <1>3, <2>1, <2>5, <2>7, <2>8, <2>9, <2>10, NothingChanges,
         Tasks DEF k, o
<1>4. ASSUME o.browser # None, tabs' = [tabs EXCEPT ![o.browser] = @ \cup {"main"}],
             Become(b, [o EXCEPT !.page = <<o.browser, "main">>, !.owns = TRUE]),
             Goto(b, "main", "wire")
      PROVE  LifeInv'
  <2>0. /\ tabs' \in [Context -> SUBSET PageName] /\ o.browser \in Context
        /\ <<o.browser, "main">> \in Page
    BY <1>1, <1>4 DEF Attributes, Types, WorldTypes, Page, PageName
  <2> DEFINE l == Moved(k, "wire")
             n == [o EXCEPT !.page = <<o.browser, "main">>, !.owns = TRUE]
  <2>1. /\ l \in Local /\ l.at = "wire" /\ l.call = k.call /\ l.ctx = k.ctx /\ l.pw = k.pw
        /\ l.mode = k.mode /\ l.onBrowser = k.onBrowser
    BY <1>1, MovedLocal DEF Place, LaunchPlace, AttachPlace, RelaunchPlace, ClosePlace
  <2>2. /\ n \in Attributes /\ n.browser = o.browser /\ n.mode = o.mode
        /\ n.attached = o.attached /\ n.usingPool = o.usingPool /\ n.hasPool = o.hasPool
        /\ n.pw = o.pw /\ n.remote = o.remote /\ n.atexit = o.atexit /\ n.ours = o.ours
    BY <1>0, <1>1, <1>2, <1>4, <2>0 DEF Attributes, Mode
  <2>3. TaskBecomes(b, "main", l)
    BY <1>0, <1>1, <1>2, <1>4, <2>0, GotoEffect, Tasks DEF Place, LaunchPlace, AttachPlace,
       RelaunchPlace, ClosePlace
  <2>4. ObjBecomes(b, n)
    BY <1>0, <1>1, <1>2, <1>4, <2>0, <2>2, BecomeEffect
  <2> HIDE DEF l, n
  <2>5. Moves(b, "main", n, l) /\ overlapped'[b] = overlapped[b]
    BY <1>0, <1>1, <1>2, <1>4, <2>0, <2>3, <2>4, NoCallMoves, Tasks
  <2>6. CallOK("main", l, n)
    BY <1>0, <1>1, <1>2, <1>4, <2>0, <2>1, <2>2 DEF CallOK, LaunchPlace, AttachPlace,
       RelaunchPlace, ClosePlace
  <2>7. Sound(b, "main", n, l)
    BY <1>0, <1>1, <1>2, <1>4, <2>0, <2>1, <2>2, <2>6 DEF Sound, Knows, CallOK
  <2>8. Growth(b, "main", n, l)
    BY <1>0, <1>1, <1>2, <1>4, <2>0, <2>1, <2>2, NoGrowth, Tasks
  <2>9. ~overlapped[b] => Hand(n, l, Mine(b), Runs(b))
    BY <1>0, <1>1, <1>2, <1>4, <2>0, <2>1, <2>2 DEF Hand, Unset, Nothing, CallOK
  <2>10. Browses(b, "main", l)
    BY <1>0, <1>1, <1>2, <1>4, <2>0, <2>1 DEF Browses
  <2> HIDE DEF k, o
  <2> QED BY <1>0, <1>1, <1>2, <1>4, <2>0, <2>1, <2>2, <2>5, <2>7, <2>8, <2>9, <2>10,
         PagesChange, Tasks DEF k, o
<1> QED BY <1>3, <1>4 DEF LaunchPage

LEMMA LaunchReturnsStep ==
  ASSUME LifeInv, NEW b \in Browser, LaunchReturns(b)
  PROVE  LifeInv'
<1> DEFINE k == task[b]["main"]
           o == obj[b]
<1>0. /\ k.at = "wire" /\ k.call = "launch" /\ Busy(b, "main") /\ NoCall
      /\ UNCHANGED <<kind, maker, tabs, running, pool>>
  BY DEF LaunchReturns, At, Busy, world
<1>1. /\ CallOK("main", k, o) /\ Knows(o, task[b]["main"]) /\ k \in Local /\ o \in Attributes /\ Types
      /\ ~overlapped[b] => /\ \A u \in Task \ {"main"} : ~Busy(b, u)
                           /\ Hand(o, k, Mine(b), Runs(b))
  BY <1>0, InCall, Tasks
<1>2. CASE Return(b, "main") /\ UNCHANGED obj
  <2> DEFINE l == Rest("main")
  <2>1. /\ l \in Local /\ l.at \in {"idle", "exec"} /\ l.call = "none" /\ l.ctx = None
        /\ l.pw = None /\ ~l.onBrowser /\ l.at = "idle"
    BY RestLocal, Tasks
  <2>3. TaskBecomes(b, "main", l)
    BY <1>0, <1>1, <1>2, ReturnEffect, Tasks
  <2>4. ObjBecomes(b, o)
    BY <1>0, <1>1, <1>2, SameObject
  <2> HIDE DEF l
  <2>5. Moves(b, "main", o, l) /\ overlapped'[b] = overlapped[b]
    BY <1>0, <1>1, <1>2, <2>3, <2>4, NoCallMoves, Tasks
  <2>6. CallOK("main", l, o)
    BY <1>0, <1>1, <1>2, <2>1 DEF CallOK, LaunchPlace, AttachPlace, RelaunchPlace,
       ClosePlace
  <2>7. Sound(b, "main", o, l)
    BY <1>0, <1>1, <1>2, <2>1, <2>6 DEF Sound, Knows, CallOK
  <2>8. Growth(b, "main", o, l)
    BY <1>0, <1>1, <1>2, <2>1, NoGrowth, Tasks
  <2>9. ~overlapped[b] => Hand(o, l, Mine(b), Runs(b))
    BY <1>0, <1>1, <1>2, <2>1 DEF Hand, Unset, Nothing, CallOK
  <2>10. Browses(b, "main", l)
    BY <1>0, <1>1, <1>2, <2>1 DEF Browses
  <2> HIDE DEF k, o
  <2> QED BY <1>0, <1>1, <1>2, <2>1, <2>5, <2>7, <2>8, <2>9, <2>10, NothingChanges, Tasks
         DEF k, o
<1>3. ASSUME Become(b, [o EXCEPT !.recovery = "relaunches",
                         !.pw = IF o.usingPool \/ k.pw = None THEN @ ELSE k.pw]),
             task' = [task EXCEPT ![b]["main"] = Idle,
                        ![b]["hook"].at = IF @ = "idle" THEN "exec" ELSE @]
      PROVE  LifeInv'
  <2>a. TaskMoves(b, "main", Rest("main"))
    <3>1. task[b] \in [Task -> Local] /\ task \in [Browser -> [Task -> Local]]
      BY <1>1 DEF Types
    <3> DEFINE h == [task[b]["hook"] EXCEPT !.at = IF @ = "idle" THEN "exec" ELSE @]
    <3>2. /\ h = IF task[b]["hook"].at = "idle" THEN Moved(task[b]["hook"], "exec")
                 ELSE task[b]["hook"]
          /\ h \in Local
      <4>1. CASE task[b]["hook"].at = "idle"
        <5>1. h = Moved(task[b]["hook"], "exec")
          BY <4>1 DEF Moved
        <5> QED BY <3>1, <4>1, <5>1, MovedLocal, Tasks DEF Place
      <4>2. CASE task[b]["hook"].at # "idle"
        <5>1. h = task[b]["hook"]
          BY <3>1, <4>2, Tasks DEF Local
        <5> QED BY <3>1, <4>2, <5>1, Tasks
      <4> QED BY <4>1, <4>2
    <3>3. Idle \in Local /\ Rest("main") = Idle
      BY RestLocal, Tasks DEF Rest
    <3> DEFINE f == [[task[b] EXCEPT !["main"] = Idle] EXCEPT !["hook"] = h]
    <3>4. task' = [task EXCEPT ![b] = f]
      BY <1>3
    <3> HIDE DEF h
    <3>5. /\ f \in [Task -> Local] /\ f["main"] = Idle /\ f["hook"] = h
      BY <3>1, <3>2, <3>3, Tasks
    <3> HIDE DEF f
    <3> QED BY <3>1, <3>2, <3>3, <3>4, <3>5, Tasks DEF TaskMoves, Settles
  <2> DEFINE l == Rest("main")
             w == IF o.usingPool \/ k.pw = None THEN o.pw ELSE k.pw
             n == [o EXCEPT !.recovery = "relaunches", !.pw = w]
  <2>1. /\ l \in Local /\ l.at \in {"idle", "exec"} /\ l.call = "none" /\ l.ctx = None
        /\ l.pw = None /\ ~l.onBrowser /\ l.at = "idle"
    BY RestLocal, Tasks
  <2>b. /\ w \in Driver \cup {None} /\ w \in {o.pw, k.pw}
        /\ k.pw \in {None, o.pw} => w = o.pw
    BY <1>1 DEF Attributes, Local
  <2>c. Become(b, n)
    BY <1>3
  <2> HIDE DEF w
  <2>2. /\ n \in Attributes /\ n.browser = o.browser /\ n.mode = o.mode
        /\ n.attached = o.attached /\ n.usingPool = o.usingPool /\ n.hasPool = o.hasPool
        /\ n.pw = w /\ n.remote = o.remote
        /\ n.atexit = o.atexit /\ n.ours = o.ours
    BY <1>1, <2>b DEF Attributes
  <2>3. TaskMoves(b, "main", l)
    BY <2>a
  <2>4. ObjBecomes(b, n)
    BY <1>1, <2>c, <2>2, BecomeEffect
  <2> HIDE DEF l, n
  <2>5. Moves(b, "main", n, l) /\ overlapped'[b] = overlapped[b]
    BY <1>0, <1>1, <2>3, <2>4, Tasks DEF NoCall, Moves, Types
  <2>6. CallOK("main", l, n)
    BY <1>0, <1>1, <1>3, <2>1, <2>2 DEF CallOK, LaunchPlace, AttachPlace, RelaunchPlace,
       ClosePlace
  <2>7. Sound(b, "main", n, l)
    BY <1>0, <1>1, <1>3, <2>1, <2>2, <2>6 DEF Sound, Knows, CallOK
  <2>8. Growth(b, "main", n, l)
    BY <1>1, <2>b, <2>1, <2>2, NoGrowth, Tasks
  <2>9. ~overlapped[b] => Hand(n, l, Mine(b), Runs(b))
    BY <1>0, <1>1, <2>b, <2>1, <2>2 DEF Hand, Unset, Nothing, CallOK
  <2>10. Browses(b, "main", l)
    BY <1>0, <1>1, <1>3, <2>1 DEF Browses
  <2> HIDE DEF k, o
  <2> QED BY <1>0, <1>1, <1>3, <2>1, <2>2, <2>5, <2>7, <2>8, <2>9, <2>10, NothingChanges,
         Tasks DEF k, o
<1> QED BY <1>2, <1>3 DEF LaunchReturns

-----------------------------------------------------------------------------
\* attach_over_cdp()

LEMMA AttachStep ==
  ASSUME LifeInv, NEW b \in Browser, NEW way, Attach(b, way)
  PROVE  LifeInv'
<1> DEFINE k == task[b]["main"]
           o == obj[b]
<1>0. Begins(b) /\ k.at = "idle"
  BY DEF Attach, Begins, At
<1>1. /\ CallOK("main", k, o) /\ Knows(o, k) /\ k \in Local /\ o \in Attributes /\ Types
      /\ ~overlapped[b] /\ ~Busy(b, "hook") =>
           /\ \A u \in Task \ {"main"} : ~Busy(b, u)
           /\ Hand(o, k, Mine(b), Runs(b))
  BY <1>0, CallOf, AtRest, Tasks DEF Busy
<1>2. /\ o.browser = None /\ UNCHANGED <<kind, maker, tabs, running, pool>>
      /\ Become(b, [o EXCEPT !.atexit = TRUE, !.usingPool = FALSE])
  BY DEF Attach, world
<1>3. CASE o.pw = None
  <2>0. Continue(b, "main", [Idle EXCEPT !.at = "driver", !.call = "attach",
                                         !.new = (way = "own")])
    BY <1>3 DEF Attach
  <2> DEFINE l == [Idle EXCEPT !.at = "driver", !.call = "attach", !.new = (way = "own")]
             n == [o EXCEPT !.atexit = TRUE, !.usingPool = FALSE]
  <2>1. /\ l \in Local /\ l.at = "driver" /\ l.call = "attach" /\ l.ctx = None
        /\ l.pw = None /\ l.mode = "none" /\ ~l.onBrowser
    BY <1>0, <1>1, <1>2, <1>3, <2>0 DEF Idle, Local, Place, Call, Mode, LaunchPlace,
       AttachPlace, RelaunchPlace, ClosePlace
  <2>2. /\ n \in Attributes /\ n.browser = o.browser /\ n.mode = o.mode
        /\ n.attached = o.attached /\ n.usingPool = FALSE /\ n.hasPool = o.hasPool
        /\ n.pw = o.pw /\ n.remote = o.remote /\ n.atexit = TRUE /\ n.ours = o.ours
    BY <1>0, <1>1, <1>2, <1>3, <2>0 DEF Attributes, Mode
  <2>3. TaskBecomes(b, "main", l)
    BY <1>0, <1>1, <1>2, <1>3, <2>0, <2>1, ContinueEffect, Tasks
  <2>4. ObjBecomes(b, n)
    BY <1>0, <1>1, <1>2, <1>3, <2>0, <2>2, BecomeEffect
  <2> HIDE DEF l, n
  <2>5. /\ Moves(b, "main", n, l)
        /\ ~overlapped'[b] => ~overlapped[b] /\ ~Busy(b, "hook")
    BY <1>0, <1>1, <1>2, <1>3, <2>0, <2>3, <2>4, BeginMoves
  <2>6. CallOK("main", l, n)
    BY <1>0, <1>1, <1>2, <1>3, <2>0, <2>1, <2>2 DEF CallOK, LaunchPlace, AttachPlace,
       RelaunchPlace, ClosePlace
  <2>7. Sound(b, "main", n, l)
    BY <1>0, <1>1, <1>2, <1>3, <2>0, <2>1, <2>2, <2>6 DEF Sound, Knows, CallOK
  <2>8. Growth(b, "main", n, l)
    BY <1>0, <1>1, <1>2, <1>3, <2>0, <2>1, <2>2, NoGrowth, Tasks
  <2>9. ~overlapped'[b] => Hand(n, l, Mine(b), Runs(b))
    BY <1>0, <1>1, <1>2, <1>3, <2>0, <2>1, <2>2, <2>5 DEF Hand, Unset, Nothing, CallOK
  <2>10. Browses(b, "main", l)
    BY <1>0, <1>1, <1>2, <1>3, <2>0, <2>1 DEF Browses
  <2> HIDE DEF k, o
  <2> QED BY <1>0, <1>1, <1>2, <1>3, <2>0, <2>1, <2>2, <2>5, <2>7, <2>8, <2>9, <2>10,
         NothingChanges, Tasks DEF k, o
<1>4. CASE o.pw # None
  <2>0. Continue(b, "main", [Idle EXCEPT !.at = "connect", !.call = "attach",
                                         !.new = (way = "own")])
    BY <1>4 DEF Attach
  <2> DEFINE l == [Idle EXCEPT !.at = "connect", !.call = "attach", !.new = (way = "own")]
             n == [o EXCEPT !.atexit = TRUE, !.usingPool = FALSE]
  <2>1. /\ l \in Local /\ l.at = "connect" /\ l.call = "attach" /\ l.ctx = None
        /\ l.pw = None /\ l.mode = "none" /\ ~l.onBrowser
    BY <1>0, <1>1, <1>2, <1>4, <2>0 DEF Idle, Local, Place, Call, Mode, LaunchPlace,
       AttachPlace, RelaunchPlace, ClosePlace
  <2>2. /\ n \in Attributes /\ n.browser = o.browser /\ n.mode = o.mode
        /\ n.attached = o.attached /\ n.usingPool = FALSE /\ n.hasPool = o.hasPool
        /\ n.pw = o.pw /\ n.remote = o.remote /\ n.atexit = TRUE /\ n.ours = o.ours
    BY <1>0, <1>1, <1>2, <1>4, <2>0 DEF Attributes, Mode
  <2>3. TaskBecomes(b, "main", l)
    BY <1>0, <1>1, <1>2, <1>4, <2>0, <2>1, ContinueEffect, Tasks
  <2>4. ObjBecomes(b, n)
    BY <1>0, <1>1, <1>2, <1>4, <2>0, <2>2, BecomeEffect
  <2> HIDE DEF l, n
  <2>5. /\ Moves(b, "main", n, l)
        /\ ~overlapped'[b] => ~overlapped[b] /\ ~Busy(b, "hook")
    BY <1>0, <1>1, <1>2, <1>4, <2>0, <2>3, <2>4, BeginMoves
  <2>6. CallOK("main", l, n)
    BY <1>0, <1>1, <1>2, <1>4, <2>0, <2>1, <2>2 DEF CallOK, LaunchPlace, AttachPlace,
       RelaunchPlace, ClosePlace
  <2>7. Sound(b, "main", n, l)
    BY <1>0, <1>1, <1>2, <1>4, <2>0, <2>1, <2>2, <2>6 DEF Sound, Knows, CallOK
  <2>8. Growth(b, "main", n, l)
    BY <1>0, <1>1, <1>2, <1>4, <2>0, <2>1, <2>2, NoGrowth, Tasks
  <2>9. ~overlapped'[b] => Hand(n, l, Mine(b), Runs(b))
    BY <1>0, <1>1, <1>2, <1>4, <2>0, <2>1, <2>2, <2>5 DEF Hand, Unset, Nothing, CallOK
  <2>10. Browses(b, "main", l)
    BY <1>0, <1>1, <1>2, <1>4, <2>0, <2>1 DEF Browses
  <2> HIDE DEF k, o
  <2> QED BY <1>0, <1>1, <1>2, <1>4, <2>0, <2>1, <2>2, <2>5, <2>7, <2>8, <2>9, <2>10,
         NothingChanges, Tasks DEF k, o
<1> QED BY <1>3, <1>4

LEMMA ConnectedStep ==
  ASSUME LifeInv, NEW b \in Browser, Connected(b)
  PROVE  LifeInv'
<1> DEFINE k == task[b]["main"]
           o == obj[b]
<1>0. /\ k.at = "connect" /\ Busy(b, "main") /\ NoCall
      /\ UNCHANGED <<kind, maker, tabs, running, pool>>
  BY DEF Connected, At, Busy, world
<1>1. /\ CallOK("main", k, o) /\ Knows(o, task[b]["main"]) /\ k \in Local /\ o \in Attributes /\ Types
      /\ ~overlapped[b] => /\ \A u \in Task \ {"main"} : ~Busy(b, u)
                           /\ Hand(o, k, Mine(b), Runs(b))
  BY <1>0, InCall, Tasks
<1>2. k.call = "attach"
  BY <1>0, <1>1 DEF CallOK, LaunchPlace, RelaunchPlace, ClosePlace, Local, Call
<1> DEFINE r == [o EXCEPT !.remote = TRUE, !.attached = TRUE]
<1>3. /\ r \in Attributes /\ r.remote = TRUE /\ r.attached = TRUE /\ r.browser = o.browser
      /\ r.mode = o.mode /\ r.usingPool = o.usingPool /\ r.hasPool = o.hasPool
      /\ r.pw = o.pw /\ r.atexit = o.atexit /\ r.ours = o.ours
  BY <1>1 DEF Attributes
<1> HIDE DEF r
<1>4. CASE Become(b, r) /\ Goto(b, "main", "cdpContext")
  <2> DEFINE l == Moved(k, "cdpContext")
             n == r
  <2>1. /\ l \in Local /\ l.at = "cdpContext" /\ l.call = k.call /\ l.ctx = k.ctx
        /\ l.pw = k.pw /\ l.mode = k.mode /\ l.onBrowser = k.onBrowser
    BY <1>1, MovedLocal DEF Place, LaunchPlace, AttachPlace, RelaunchPlace, ClosePlace
  <2>2. /\ n \in Attributes /\ n.browser = o.browser /\ n.mode = o.mode /\ n.attached
        /\ n.usingPool = o.usingPool /\ n.hasPool = o.hasPool /\ n.pw = o.pw /\ n.remote
        /\ n.atexit = o.atexit /\ n.ours = o.ours
    BY <1>0, <1>1, <1>2, <1>3, <1>4 DEF Attributes, Mode
  <2>3. TaskBecomes(b, "main", l)
    BY <1>0, <1>1, <1>2, <1>3, <1>4, GotoEffect, Tasks DEF Place, LaunchPlace, AttachPlace,
       RelaunchPlace, ClosePlace
  <2>4. ObjBecomes(b, n)
    BY <1>0, <1>1, <1>2, <1>3, <1>4, <2>2, BecomeEffect
  <2> HIDE DEF l, n
  <2>5. Moves(b, "main", n, l) /\ overlapped'[b] = overlapped[b]
    BY <1>0, <1>1, <1>2, <1>3, <1>4, <2>3, <2>4, NoCallMoves, Tasks
  <2>6. CallOK("main", l, n)
    BY <1>0, <1>1, <1>2, <1>3, <1>4, <2>1, <2>2 DEF CallOK, LaunchPlace, AttachPlace,
       RelaunchPlace, ClosePlace
  <2>7. Sound(b, "main", n, l)
    BY <1>0, <1>1, <1>2, <1>3, <1>4, <2>1, <2>2, <2>6 DEF Sound, Knows, CallOK
  <2>8. Growth(b, "main", n, l)
    BY <1>0, <1>1, <1>2, <1>3, <1>4, <2>1, <2>2, NoGrowth, Tasks
  <2>9. ~overlapped[b] => Hand(n, l, Mine(b), Runs(b))
    BY <1>0, <1>1, <1>2, <1>3, <1>4, <2>1, <2>2 DEF Hand, Unset, Nothing, CallOK
  <2>10. Browses(b, "main", l)
    BY <1>0, <1>1, <1>2, <1>3, <1>4, <2>1 DEF Browses
  <2> HIDE DEF k, o
  <2> QED BY <1>0, <1>1, <1>2, <1>3, <1>4, <2>1, <2>2, <2>5, <2>7, <2>8, <2>9, <2>10,
         NothingChanges, Tasks DEF k, o
<1>5. CASE Become(b, r) /\ Goto(b, "main", "undo")
  <2> DEFINE l == Moved(k, "undo")
             n == r
  <2>1. /\ l \in Local /\ l.at = "undo" /\ l.call = k.call /\ l.ctx = k.ctx /\ l.pw = k.pw
        /\ l.mode = k.mode /\ l.onBrowser = k.onBrowser
    BY <1>1, MovedLocal DEF Place, LaunchPlace, AttachPlace, RelaunchPlace, ClosePlace
  <2>2. /\ n \in Attributes /\ n.browser = o.browser /\ n.mode = o.mode /\ n.attached
        /\ n.usingPool = o.usingPool /\ n.hasPool = o.hasPool /\ n.pw = o.pw /\ n.remote
        /\ n.atexit = o.atexit /\ n.ours = o.ours
    BY <1>0, <1>1, <1>2, <1>3, <1>5 DEF Attributes, Mode
  <2>3. TaskBecomes(b, "main", l)
    BY <1>0, <1>1, <1>2, <1>3, <1>5, GotoEffect, Tasks DEF Place, LaunchPlace, AttachPlace,
       RelaunchPlace, ClosePlace
  <2>4. ObjBecomes(b, n)
    BY <1>0, <1>1, <1>2, <1>3, <1>5, <2>2, BecomeEffect
  <2> HIDE DEF l, n
  <2>5. Moves(b, "main", n, l) /\ overlapped'[b] = overlapped[b]
    BY <1>0, <1>1, <1>2, <1>3, <1>5, <2>3, <2>4, NoCallMoves, Tasks
  <2>6. CallOK("main", l, n)
    BY <1>0, <1>1, <1>2, <1>3, <1>5, <2>1, <2>2 DEF CallOK, LaunchPlace, AttachPlace,
       RelaunchPlace, ClosePlace
  <2>7. Sound(b, "main", n, l)
    BY <1>0, <1>1, <1>2, <1>3, <1>5, <2>1, <2>2, <2>6 DEF Sound, Knows, CallOK
  <2>8. Growth(b, "main", n, l)
    BY <1>0, <1>1, <1>2, <1>3, <1>5, <2>1, <2>2, NoGrowth, Tasks
  <2>9. ~overlapped[b] => Hand(n, l, Mine(b), Runs(b))
    BY <1>0, <1>1, <1>2, <1>3, <1>5, <2>1, <2>2 DEF Hand, Unset, Nothing, CallOK
  <2>10. Browses(b, "main", l)
    BY <1>0, <1>1, <1>2, <1>3, <1>5, <2>1 DEF Browses
  <2> HIDE DEF k, o
  <2> QED BY <1>0, <1>1, <1>2, <1>3, <1>5, <2>1, <2>2, <2>5, <2>7, <2>8, <2>9, <2>10,
         NothingChanges, Tasks DEF k, o
<1>6. ASSUME NEW u \in UserOpen,
             Become(b, [r EXCEPT !.ours = FALSE, !.browser = u,
                                 !.mode = "attached_adopted"]),
             Continue(b, "main", [k EXCEPT !.at = "tab", !.ctx = u])
      PROVE  LifeInv'
  <2>0. u \in UserContext /\ u \in Context /\ u # None
    BY ConstantsAssumption DEF UserOpen
  <2> DEFINE l == [k EXCEPT !.at = "tab", !.ctx = u]
             n == [r EXCEPT !.ours = FALSE, !.browser = u, !.mode = "attached_adopted"]
  <2>1. /\ l \in Local /\ l.at = "tab" /\ l.call = k.call /\ l.ctx = u /\ l.pw = k.pw
        /\ l.mode = k.mode /\ l.onBrowser = k.onBrowser
    BY <1>0, <1>1, <1>2, <1>3, <1>6, <2>0 DEF Local, Place, Call, Mode, LaunchPlace,
       AttachPlace, RelaunchPlace, ClosePlace
  <2>2. /\ n \in Attributes /\ n.browser = u /\ n.mode = "attached_adopted" /\ n.attached
        /\ n.usingPool = o.usingPool /\ n.hasPool = o.hasPool /\ n.pw = o.pw /\ n.remote
        /\ n.atexit = o.atexit /\ ~n.ours
    BY <1>0, <1>1, <1>2, <1>3, <1>6, <2>0 DEF Attributes, Mode
  <2>3. TaskBecomes(b, "main", l)
    BY <1>0, <1>1, <1>2, <1>3, <1>6, <2>0, <2>1, ContinueEffect, Tasks
  <2>4. ObjBecomes(b, n)
    BY <1>0, <1>1, <1>2, <1>3, <1>6, <2>0, <2>2, BecomeEffect
  <2> HIDE DEF l, n
  <2>5. Moves(b, "main", n, l) /\ overlapped'[b] = overlapped[b]
    BY <1>0, <1>1, <1>2, <1>3, <1>6, <2>0, <2>3, <2>4, NoCallMoves, Tasks
  <2>6. CallOK("main", l, n)
    BY <1>0, <1>1, <1>2, <1>3, <1>6, <2>0, <2>1, <2>2 DEF CallOK, LaunchPlace, AttachPlace,
       RelaunchPlace, ClosePlace
  <2>7. Sound(b, "main", n, l)
    BY <1>0, <1>1, <1>2, <1>3, <1>6, <2>0, <2>1, <2>2, <2>6 DEF Sound, Knows, CallOK
  <2>8. Growth(b, "main", n, l)
    BY <1>0, <1>1, <1>2, <1>3, <1>6, <2>0, <2>1, <2>2, NoGrowth, Tasks
  <2>9. ~overlapped[b] => Hand(n, l, Mine(b), Runs(b))
    BY <1>0, <1>1, <1>2, <1>3, <1>6, <2>0, <2>1, <2>2, NoNone DEF Hand, Unset, Nothing,
       CallOK
  <2>10. Browses(b, "main", l)
    BY <1>0, <1>1, <1>2, <1>3, <1>6, <2>0, <2>1 DEF Browses
  <2> HIDE DEF k, o
  <2> QED BY <1>0, <1>1, <1>2, <1>3, <1>6, <2>0, <2>1, <2>2, <2>5, <2>7, <2>8, <2>9, <2>10,
         NothingChanges, Tasks DEF k, o
<1> QED BY <1>4, <1>5, <1>6 DEF Connected, r

LEMMA ConnectFailsStep ==
  ASSUME LifeInv, NEW b \in Browser, ConnectFails(b)
  PROVE  LifeInv'
<1> DEFINE k == task[b]["main"]
           o == obj[b]
<1>0. /\ k.at = "connect" /\ Busy(b, "main") /\ NoCall
      /\ UNCHANGED <<kind, maker, tabs, pool>>
  BY DEF ConnectFails, At, Busy, world
<1>1. /\ CallOK("main", k, o) /\ Knows(o, task[b]["main"]) /\ k \in Local /\ o \in Attributes /\ Types
      /\ ~overlapped[b] => /\ \A u \in Task \ {"main"} : ~Busy(b, u)
                           /\ Hand(o, k, Mine(b), Runs(b))
  BY <1>0, InCall, Tasks
<1>2. k.call = "attach"
  BY <1>0, <1>1 DEF CallOK, LaunchPlace, RelaunchPlace, ClosePlace, Local, Call
<1>3. Stop(o.pw) /\ Return(b, "main") /\ Become(b, [o EXCEPT !.pw = None])
  BY DEF ConnectFails
<1> DEFINE l == Rest("main")
           n == [o EXCEPT !.pw = None]
<1>4. /\ l \in Local /\ l.at \in {"idle", "exec"} /\ l.call = "none" /\ l.ctx = None
      /\ l.pw = None /\ ~l.onBrowser /\ l.at = "idle"
  BY RestLocal, Tasks
<1>5. /\ n \in Attributes /\ n.browser = o.browser /\ n.mode = o.mode
      /\ n.attached = o.attached /\ n.usingPool = o.usingPool /\ n.hasPool = o.hasPool
      /\ n.pw = None /\ n.remote = o.remote /\ n.atexit = o.atexit /\ n.ours = o.ours
  BY <1>0, <1>1, <1>2, <1>3 DEF Attributes, Mode
<1>6. TaskBecomes(b, "main", l)
  BY <1>0, <1>1, <1>2, <1>3, ReturnEffect, Tasks
<1>7. ObjBecomes(b, n)
  BY <1>0, <1>1, <1>2, <1>3, <1>5, BecomeEffect
<1> HIDE DEF l, n
<1>8. Moves(b, "main", n, l) /\ overlapped'[b] = overlapped[b]
  BY <1>0, <1>1, <1>2, <1>3, <1>6, <1>7, NoCallMoves, Tasks
<1>9. CallOK("main", l, n)
  BY <1>0, <1>1, <1>2, <1>3, <1>4, <1>5 DEF CallOK, LaunchPlace, AttachPlace,
     RelaunchPlace, ClosePlace
<1>10. Sound(b, "main", n, l)
  BY <1>0, <1>1, <1>2, <1>3, <1>4, <1>5, <1>9 DEF Sound, Knows, CallOK
<1>11. Growth(b, "main", n, l)
  BY <1>0, <1>1, <1>2, <1>3, <1>4, <1>5, NoGrowth, Tasks
<1>12. ~overlapped[b] => Hand(n, l, Mine(b), Runs(b) \ {o.pw})
  BY <1>0, <1>1, <1>2, <1>3, <1>4, <1>5 DEF Hand, Unset, Nothing, CallOK
<1>13. Browses(b, "main", l)
  BY <1>0, <1>1, <1>2, <1>3, <1>4 DEF Browses
<1> HIDE DEF k, o
<1> QED BY <1>0, <1>1, <1>2, <1>3, <1>4, <1>5, <1>8, <1>10, <1>11, <1>12, <1>13,
       DriverStops, Tasks DEF k, o

LEMMA CdpContextStep ==
  ASSUME LifeInv, NEW b \in Browser, CdpContext(b)
  PROVE  LifeInv'
<1> DEFINE k == task[b]["main"]
           o == obj[b]
<1>0. /\ k.at = "cdpContext" /\ Busy(b, "main") /\ NoCall
      /\ UNCHANGED <<tabs, running, pool>>
  BY DEF CdpContext, At, Busy, world
<1>1. /\ CallOK("main", k, o) /\ Knows(o, task[b]["main"]) /\ k \in Local /\ o \in Attributes /\ Types
      /\ ~overlapped[b] => /\ \A u \in Task \ {"main"} : ~Busy(b, u)
                           /\ Hand(o, k, Mine(b), Runs(b))
  BY <1>0, InCall, Tasks
<1>2. k.call = "attach"
  BY <1>0, <1>1 DEF CallOK, LaunchPlace, RelaunchPlace, ClosePlace, Local, Call
<1>3. CASE Goto(b, "main", "undo") /\ UNCHANGED <<obj, kind, maker>>
  <2> DEFINE l == Moved(k, "undo")
  <2>1. /\ l \in Local /\ l.at = "undo" /\ l.call = k.call /\ l.ctx = k.ctx /\ l.pw = k.pw
        /\ l.mode = k.mode /\ l.onBrowser = k.onBrowser
    BY <1>1, MovedLocal DEF Place, LaunchPlace, AttachPlace, RelaunchPlace, ClosePlace
  <2>3. TaskBecomes(b, "main", l)
    BY <1>0, <1>1, <1>2, <1>3, GotoEffect, Tasks DEF Place, LaunchPlace, AttachPlace,
       RelaunchPlace, ClosePlace
  <2>4. ObjBecomes(b, o)
    BY <1>0, <1>1, <1>2, <1>3, SameObject
  <2> HIDE DEF l
  <2>5. Moves(b, "main", o, l) /\ overlapped'[b] = overlapped[b]
    BY <1>0, <1>1, <1>2, <1>3, <2>3, <2>4, NoCallMoves, Tasks
  <2>6. CallOK("main", l, o)
    BY <1>0, <1>1, <1>2, <1>3, <2>1 DEF CallOK, LaunchPlace, AttachPlace, RelaunchPlace,
       ClosePlace
  <2>7. Sound(b, "main", o, l)
    BY <1>0, <1>1, <1>2, <1>3, <2>1, <2>6 DEF Sound, Knows, CallOK
  <2>8. Growth(b, "main", o, l)
    BY <1>0, <1>1, <1>2, <1>3, <2>1, NoGrowth, Tasks
  <2>9. ~overlapped[b] => Hand(o, l, Mine(b), Runs(b))
    BY <1>0, <1>1, <1>2, <1>3, <2>1 DEF Hand, Unset, Nothing, CallOK
  <2>10. Browses(b, "main", l)
    BY <1>0, <1>1, <1>2, <1>3, <2>1 DEF Browses
  <2> HIDE DEF k, o
  <2> QED BY <1>0, <1>1, <1>2, <1>3, <2>1, <2>5, <2>7, <2>8, <2>9, <2>10, NothingChanges,
         Tasks DEF k, o
<1>4. ASSUME NEW c \in Context, NewContext(c), Open(c, "cdp", b),
             Become(b, [o EXCEPT !.ours = TRUE, !.browser = c, !.mode = "attached_owned"]),
             Continue(b, "main", [k EXCEPT !.at = "tab", !.ctx = c])
      PROVE  LifeInv'
  <2>0. c \notin UserContext /\ c # None /\ "cdp" \in Kind \ {"none"} /\ o.attached
    BY <1>0, <1>1, <1>2, <1>4, ConstantsAssumption DEF NewContext, Kind, CallOK
  <2> DEFINE l == [k EXCEPT !.at = "tab", !.ctx = c]
             n == [o EXCEPT !.ours = TRUE, !.browser = c, !.mode = "attached_owned"]
  <2>1. /\ l \in Local /\ l.at = "tab" /\ l.call = k.call /\ l.ctx = c /\ l.pw = k.pw
        /\ l.mode = k.mode /\ l.onBrowser = k.onBrowser
    BY <1>0, <1>1, <1>2, <1>4, <2>0 DEF Local, Place, Call, Mode, LaunchPlace, AttachPlace,
       RelaunchPlace, ClosePlace
  <2>2. /\ n \in Attributes /\ n.browser = c /\ n.mode = "attached_owned"
        /\ n.attached = o.attached /\ n.usingPool = o.usingPool /\ n.hasPool = o.hasPool
        /\ n.pw = o.pw /\ n.remote = o.remote /\ n.atexit = o.atexit /\ n.ours = TRUE
    BY <1>0, <1>1, <1>2, <1>4, <2>0 DEF Attributes, Mode
  <2>3. TaskBecomes(b, "main", l)
    BY <1>0, <1>1, <1>2, <1>4, <2>0, <2>1, ContinueEffect, Tasks
  <2>4. ObjBecomes(b, n)
    BY <1>0, <1>1, <1>2, <1>4, <2>0, <2>2, BecomeEffect
  <2> HIDE DEF l, n
  <2>5. Moves(b, "main", n, l) /\ overlapped'[b] = overlapped[b]
    BY <1>0, <1>1, <1>2, <1>4, <2>0, <2>3, <2>4, NoCallMoves, Tasks
  <2>6. CallOK("main", l, n)
    BY <1>0, <1>1, <1>2, <1>4, <2>0, <2>1, <2>2 DEF CallOK, LaunchPlace, AttachPlace,
       RelaunchPlace, ClosePlace
  <2>7. Sound(b, "main", n, l)
    BY <1>0, <1>1, <1>2, <1>4, <2>0, <2>1, <2>2, <2>6 DEF Sound, Knows, CallOK
  <2>8. Growth(b, "main", n, l)
    BY <1>0, <1>1, <1>2, <1>4, <2>0, <2>1, <2>2, NoGrowth, Tasks
  <2>9. ~overlapped[b] => Hand(n, l, Mine(b) \cup {c}, Runs(b))
    BY <1>0, <1>1, <1>2, <1>4, <2>0, <2>1, <2>2, NoNone DEF Hand, Unset, Nothing, CallOK
  <2>10. Browses(b, "main", l)
    BY <1>0, <1>1, <1>2, <1>4, <2>0, <2>1 DEF Browses
  <2> HIDE DEF k, o
  <2> QED BY <1>0, <1>1, <1>2, <1>4, <2>0, <2>1, <2>2, <2>5, <2>7, <2>8, <2>9, <2>10,
         ContextOpens, Tasks DEF k, o
<1> QED BY <1>3, <1>4 DEF CdpContext

LEMMA AttachPageStep ==
  ASSUME LifeInv, NEW b \in Browser, AttachPage(b)
  PROVE  LifeInv'
<1> DEFINE k == task[b]["main"]
           o == obj[b]
<1>0. /\ k.at \in {"tab", "tabAgain"} /\ Busy(b, "main") /\ NoCall
      /\ UNCHANGED <<kind, maker, running, pool>>
  BY DEF AttachPage, At, Busy, world
<1>1. /\ CallOK("main", k, o) /\ Knows(o, task[b]["main"]) /\ k \in Local /\ o \in Attributes /\ Types
      /\ ~overlapped[b] => /\ \A u \in Task \ {"main"} : ~Busy(b, u)
                           /\ Hand(o, k, Mine(b), Runs(b))
  BY <1>0, InCall, Tasks
<1>2. k.call = "attach"
  BY <1>0, <1>1 DEF CallOK, LaunchPlace, RelaunchPlace, ClosePlace, Local, Call
<1>3. k.ctx \in Context
  BY <1>0, <1>1, <1>2 DEF CallOK, Local
<1>4. ASSUME NEW place \in {"tabAgain", "undo"}, Goto(b, "main", place),
             UNCHANGED <<obj, tabs>>
      PROVE  LifeInv'
  <2> DEFINE l == Moved(k, place)
  <2>1. /\ l \in Local /\ l.at = place /\ l.call = k.call /\ l.ctx = k.ctx /\ l.pw = k.pw
        /\ l.mode = k.mode /\ l.onBrowser = k.onBrowser
    BY <1>1, MovedLocal DEF Place, LaunchPlace, AttachPlace, RelaunchPlace, ClosePlace
  <2>3. TaskBecomes(b, "main", l)
    BY <1>0, <1>1, <1>2, <1>4, GotoEffect, Tasks DEF Place, LaunchPlace, AttachPlace,
       RelaunchPlace, ClosePlace
  <2>4. ObjBecomes(b, o)
    BY <1>0, <1>1, <1>2, <1>4, SameObject
  <2> HIDE DEF l
  <2>5. Moves(b, "main", o, l) /\ overlapped'[b] = overlapped[b]
    BY <1>0, <1>1, <1>2, <1>4, <2>3, <2>4, NoCallMoves, Tasks
  <2>6. CallOK("main", l, o)
    BY <1>0, <1>1, <1>2, <1>4, <2>1 DEF CallOK, LaunchPlace, AttachPlace, RelaunchPlace,
       ClosePlace
  <2>7. Sound(b, "main", o, l)
    BY <1>0, <1>1, <1>2, <1>4, <2>1, <2>6 DEF Sound, Knows, CallOK
  <2>8. Growth(b, "main", o, l)
    BY <1>0, <1>1, <1>2, <1>4, <2>1, NoGrowth, Tasks
  <2>9. ~overlapped[b] => Hand(o, l, Mine(b), Runs(b))
    BY <1>0, <1>1, <1>2, <1>4, <2>1 DEF Hand, Unset, Nothing, CallOK
  <2>10. Browses(b, "main", l)
    BY <1>0, <1>1, <1>2, <1>4, <2>1 DEF Browses
  <2> HIDE DEF k, o
  <2> QED BY <1>0, <1>1, <1>2, <1>4, <2>1, <2>5, <2>7, <2>8, <2>9, <2>10, NothingChanges,
         Tasks DEF k, o
<1>5. ASSUME NEW first \in PageName, UNCHANGED tabs, Goto(b, "main", "wire"),
             Become(b, [o EXCEPT !.page = <<k.ctx, first>>, !.owns = FALSE])
      PROVE  LifeInv'
  <2>0. <<k.ctx, first>> \in Page
    BY <1>3, <1>5 DEF Page
  <2> DEFINE l == Moved(k, "wire")
             n == [o EXCEPT !.page = <<k.ctx, first>>, !.owns = FALSE]
  <2>1. /\ l \in Local /\ l.at = "wire" /\ l.call = k.call /\ l.ctx = k.ctx /\ l.pw = k.pw
        /\ l.mode = k.mode /\ l.onBrowser = k.onBrowser
    BY <1>1, MovedLocal DEF Place, LaunchPlace, AttachPlace, RelaunchPlace, ClosePlace
  <2>2. /\ n \in Attributes /\ n.browser = o.browser /\ n.mode = o.mode
        /\ n.attached = o.attached /\ n.usingPool = o.usingPool /\ n.hasPool = o.hasPool
        /\ n.pw = o.pw /\ n.remote = o.remote /\ n.atexit = o.atexit /\ n.ours = o.ours
    BY <1>0, <1>1, <1>2, <1>5, <2>0 DEF Attributes, Mode
  <2>3. TaskBecomes(b, "main", l)
    BY <1>0, <1>1, <1>2, <1>5, <2>0, GotoEffect, Tasks DEF Place, LaunchPlace, AttachPlace,
       RelaunchPlace, ClosePlace
  <2>4. ObjBecomes(b, n)
    BY <1>0, <1>1, <1>2, <1>5, <2>0, <2>2, BecomeEffect
  <2> HIDE DEF l, n
  <2>5. Moves(b, "main", n, l) /\ overlapped'[b] = overlapped[b]
    BY <1>0, <1>1, <1>2, <1>5, <2>0, <2>3, <2>4, NoCallMoves, Tasks
  <2>6. CallOK("main", l, n)
    BY <1>0, <1>1, <1>2, <1>5, <2>0, <2>1, <2>2 DEF CallOK, LaunchPlace, AttachPlace,
       RelaunchPlace, ClosePlace
  <2>7. Sound(b, "main", n, l)
    BY <1>0, <1>1, <1>2, <1>5, <2>0, <2>1, <2>2, <2>6 DEF Sound, Knows, CallOK
  <2>8. Growth(b, "main", n, l)
    BY <1>0, <1>1, <1>2, <1>5, <2>0, <2>1, <2>2, NoGrowth, Tasks
  <2>9. ~overlapped[b] => Hand(n, l, Mine(b), Runs(b))
    BY <1>0, <1>1, <1>2, <1>5, <2>0, <2>1, <2>2 DEF Hand, Unset, Nothing, CallOK
  <2>10. Browses(b, "main", l)
    BY <1>0, <1>1, <1>2, <1>5, <2>0, <2>1 DEF Browses
  <2> HIDE DEF k, o
  <2> QED BY <1>0, <1>1, <1>2, <1>5, <2>0, <2>1, <2>2, <2>5, <2>7, <2>8, <2>9, <2>10,
         NothingChanges, Tasks DEF k, o
<1>6. ASSUME tabs' = [tabs EXCEPT ![k.ctx] = @ \cup {"main"}], Goto(b, "main", "wire"),
             Become(b, [o EXCEPT !.page = <<k.ctx, "main">>, !.owns = TRUE,
                                 !.owned = @ \cup Tracked(k.ctx, "main")])
      PROVE  LifeInv'
  <2>0. /\ <<k.ctx, "main">> \in Page /\ o.owned \cup Tracked(k.ctx, "main") \subseteq Page
        /\ tabs' \in [Context -> SUBSET PageName]
    BY <1>1, <1>3, <1>6 DEF Page, PageName, Tracked, Attributes, Types, WorldTypes
  <2> DEFINE l == Moved(k, "wire")
             n == [o EXCEPT !.page = <<k.ctx, "main">>, !.owns = TRUE,
                            !.owned = o.owned \cup Tracked(k.ctx, "main")]
  <2>1. /\ l \in Local /\ l.at = "wire" /\ l.call = k.call /\ l.ctx = k.ctx /\ l.pw = k.pw
        /\ l.mode = k.mode /\ l.onBrowser = k.onBrowser
    BY <1>1, MovedLocal DEF Place, LaunchPlace, AttachPlace, RelaunchPlace, ClosePlace
  <2>2. /\ n \in Attributes /\ n.browser = o.browser /\ n.mode = o.mode
        /\ n.attached = o.attached /\ n.usingPool = o.usingPool /\ n.hasPool = o.hasPool
        /\ n.pw = o.pw /\ n.remote = o.remote /\ n.atexit = o.atexit /\ n.ours = o.ours
    BY <1>0, <1>1, <1>2, <1>6, <2>0 DEF Attributes, Mode
  <2>3. TaskBecomes(b, "main", l)
    BY <1>0, <1>1, <1>2, <1>6, <2>0, GotoEffect, Tasks DEF Place, LaunchPlace, AttachPlace,
       RelaunchPlace, ClosePlace
  <2>4. ObjBecomes(b, n)
    BY <1>0, <1>1, <1>2, <1>6, <2>0, <2>2, BecomeEffect
  <2> HIDE DEF l, n
  <2>5. Moves(b, "main", n, l) /\ overlapped'[b] = overlapped[b]
    BY <1>0, <1>1, <1>2, <1>6, <2>0, <2>3, <2>4, NoCallMoves, Tasks
  <2>6. CallOK("main", l, n)
    BY <1>0, <1>1, <1>2, <1>6, <2>0, <2>1, <2>2 DEF CallOK, LaunchPlace, AttachPlace,
       RelaunchPlace, ClosePlace
  <2>7. Sound(b, "main", n, l)
    BY <1>0, <1>1, <1>2, <1>6, <2>0, <2>1, <2>2, <2>6 DEF Sound, Knows, CallOK
  <2>8. Growth(b, "main", n, l)
    BY <1>0, <1>1, <1>2, <1>6, <2>0, <2>1, <2>2, NoGrowth, Tasks
  <2>9. ~overlapped[b] => Hand(n, l, Mine(b), Runs(b))
    BY <1>0, <1>1, <1>2, <1>6, <2>0, <2>1, <2>2 DEF Hand, Unset, Nothing, CallOK
  <2>10. Browses(b, "main", l)
    BY <1>0, <1>1, <1>2, <1>6, <2>0, <2>1 DEF Browses
  <2> HIDE DEF k, o
  <2> QED BY <1>0, <1>1, <1>2, <1>6, <2>0, <2>1, <2>2, <2>5, <2>7, <2>8, <2>9, <2>10,
         PagesChange, Tasks DEF k, o
<1>7. "tab" \in PageName /\ "main" \in PageName /\ "extra" \in PageName
  BY DEF PageName
<1> QED BY <1>4, <1>5, <1>6, <1>7 DEF AttachPage

LEMMA AttachReturnsStep ==
  ASSUME LifeInv, NEW b \in Browser, AttachReturns(b)
  PROVE  LifeInv'
<1> DEFINE k == task[b]["main"]
           o == obj[b]
<1>0. /\ k.at = "wire" /\ k.call = "attach" /\ Busy(b, "main") /\ NoCall
      /\ UNCHANGED <<kind, maker, tabs, running, pool>>
  BY DEF AttachReturns, At, Busy, world
<1>1. /\ CallOK("main", k, o) /\ Knows(o, task[b]["main"]) /\ k \in Local /\ o \in Attributes /\ Types
      /\ ~overlapped[b] => /\ \A u \in Task \ {"main"} : ~Busy(b, u)
                           /\ Hand(o, k, Mine(b), Runs(b))
  BY <1>0, InCall, Tasks
<1>2. CASE Goto(b, "main", "undo") /\ UNCHANGED obj
  <2> DEFINE l == Moved(k, "undo")
  <2>1. /\ l \in Local /\ l.at = "undo" /\ l.call = k.call /\ l.ctx = k.ctx /\ l.pw = k.pw
        /\ l.mode = k.mode /\ l.onBrowser = k.onBrowser
    BY <1>1, MovedLocal DEF Place, LaunchPlace, AttachPlace, RelaunchPlace, ClosePlace
  <2>3. TaskBecomes(b, "main", l)
    BY <1>0, <1>1, <1>2, GotoEffect, Tasks DEF Place, LaunchPlace, AttachPlace,
       RelaunchPlace, ClosePlace
  <2>4. ObjBecomes(b, o)
    BY <1>0, <1>1, <1>2, SameObject
  <2> HIDE DEF l
  <2>5. Moves(b, "main", o, l) /\ overlapped'[b] = overlapped[b]
    BY <1>0, <1>1, <1>2, <2>3, <2>4, NoCallMoves, Tasks
  <2>6. CallOK("main", l, o)
    BY <1>0, <1>1, <1>2, <2>1 DEF CallOK, LaunchPlace, AttachPlace, RelaunchPlace,
       ClosePlace
  <2>7. Sound(b, "main", o, l)
    BY <1>0, <1>1, <1>2, <2>1, <2>6 DEF Sound, Knows, CallOK
  <2>8. Growth(b, "main", o, l)
    BY <1>0, <1>1, <1>2, <2>1, NoGrowth, Tasks
  <2>9. ~overlapped[b] => Hand(o, l, Mine(b), Runs(b))
    BY <1>0, <1>1, <1>2, <2>1 DEF Hand, Unset, Nothing, CallOK
  <2>10. Browses(b, "main", l)
    BY <1>0, <1>1, <1>2, <2>1 DEF Browses
  <2> HIDE DEF k, o
  <2> QED BY <1>0, <1>1, <1>2, <2>1, <2>5, <2>7, <2>8, <2>9, <2>10, NothingChanges, Tasks
         DEF k, o
<1>3. CASE Return(b, "main") /\ Become(b, [o EXCEPT !.recovery = "plain"])
  <2> DEFINE l == Rest("main")
             n == [o EXCEPT !.recovery = "plain"]
  <2>1. /\ l \in Local /\ l.at \in {"idle", "exec"} /\ l.call = "none" /\ l.ctx = None
        /\ l.pw = None /\ ~l.onBrowser /\ l.at = "idle"
    BY RestLocal, Tasks
  <2>2. /\ n \in Attributes /\ n.browser = o.browser /\ n.mode = o.mode
        /\ n.attached = o.attached /\ n.usingPool = o.usingPool /\ n.hasPool = o.hasPool
        /\ n.pw = o.pw /\ n.remote = o.remote /\ n.atexit = o.atexit /\ n.ours = o.ours
    BY <1>0, <1>1, <1>3 DEF Attributes, Mode
  <2>3. TaskBecomes(b, "main", l)
    BY <1>0, <1>1, <1>3, ReturnEffect, Tasks
  <2>4. ObjBecomes(b, n)
    BY <1>0, <1>1, <1>3, <2>2, BecomeEffect
  <2> HIDE DEF l, n
  <2>5. Moves(b, "main", n, l) /\ overlapped'[b] = overlapped[b]
    BY <1>0, <1>1, <1>3, <2>3, <2>4, NoCallMoves, Tasks
  <2>6. CallOK("main", l, n)
    BY <1>0, <1>1, <1>3, <2>1, <2>2 DEF CallOK, LaunchPlace, AttachPlace, RelaunchPlace,
       ClosePlace
  <2>7. Sound(b, "main", n, l)
    BY <1>0, <1>1, <1>3, <2>1, <2>2, <2>6 DEF Sound, Knows, CallOK
  <2>8. Growth(b, "main", n, l)
    BY <1>0, <1>1, <1>3, <2>1, <2>2, NoGrowth, Tasks
  <2>9. ~overlapped[b] => Hand(n, l, Mine(b), Runs(b))
    BY <1>0, <1>1, <1>3, <2>1, <2>2 DEF Hand, Unset, Nothing, CallOK
  <2>10. Browses(b, "main", l)
    BY <1>0, <1>1, <1>3, <2>1 DEF Browses
  <2> HIDE DEF k, o
  <2> QED BY <1>0, <1>1, <1>3, <2>1, <2>2, <2>5, <2>7, <2>8, <2>9, <2>10, NothingChanges,
         Tasks DEF k, o
<1> QED BY <1>2, <1>3 DEF AttachReturns

LEMMA AttachUndoStep ==
  ASSUME LifeInv, NEW b \in Browser, AttachUndo(b)
  PROVE  LifeInv'
<1> DEFINE k == task[b]["main"]
           o == obj[b]
<1>0. /\ k.at = "undo" /\ Busy(b, "main") /\ NoCall
      /\ UNCHANGED <<obj, running, pool>>
  BY DEF AttachUndo, At, Busy, world
<1>1. /\ CallOK("main", k, o) /\ Knows(o, task[b]["main"]) /\ k \in Local /\ o \in Attributes /\ Types
      /\ ~overlapped[b] => /\ \A u \in Task \ {"main"} : ~Busy(b, u)
                           /\ Hand(o, k, Mine(b), Runs(b))
  BY <1>0, InCall, Tasks
<1>2. k.call = "attach"
  BY <1>0, <1>1 DEF CallOK, LaunchPlace, RelaunchPlace, ClosePlace, Local, Call
<1> DEFINE S == IF o.ours THEN {o.browser} \ {None} ELSE {}
<1>3. /\ CloseContexts(S) /\ Goto(b, "main", "undone") /\ S \in SUBSET Context
      /\ o.ours => o.browser \in S \cup {None}
  BY <1>1 DEF AttachUndo, Attributes
<1>4. Mine(b) \cap UserContext = {} /\ None \notin Mine(b)
  BY <1>1, NoNone
<1> HIDE DEF S
<1> DEFINE l == Moved(k, "undone")
<1>5. /\ l \in Local /\ l.at = "undone" /\ l.call = k.call /\ l.ctx = k.ctx /\ l.pw = k.pw
      /\ l.mode = k.mode /\ l.onBrowser = k.onBrowser
  BY <1>1, MovedLocal DEF Place, LaunchPlace, AttachPlace, RelaunchPlace, ClosePlace
<1>7. TaskBecomes(b, "main", l)
  BY <1>0, <1>1, <1>2, <1>3, <1>4, GotoEffect, Tasks DEF Place, LaunchPlace, AttachPlace,
     RelaunchPlace, ClosePlace
<1>8. ObjBecomes(b, o)
  BY <1>0, <1>1, <1>2, <1>3, <1>4, SameObject
<1> HIDE DEF l
<1>9. Moves(b, "main", o, l) /\ overlapped'[b] = overlapped[b]
  BY <1>0, <1>1, <1>2, <1>3, <1>4, <1>7, <1>8, NoCallMoves, Tasks
<1>10. CallOK("main", l, o)
  BY <1>0, <1>1, <1>2, <1>3, <1>4, <1>5 DEF CallOK, LaunchPlace, AttachPlace,
     RelaunchPlace, ClosePlace
<1>11. Sound(b, "main", o, l)
  BY <1>0, <1>1, <1>2, <1>3, <1>4, <1>5, <1>10 DEF Sound, Knows, CallOK
<1>12. Growth(b, "main", o, l)
  BY <1>0, <1>1, <1>2, <1>3, <1>4, <1>5, NoGrowth, Tasks
<1>13. ~overlapped[b] => Hand(o, l, Mine(b) \ S, Runs(b))
  BY <1>0, <1>1, <1>2, <1>3, <1>4, <1>5 DEF Hand, Unset, Nothing, CallOK
<1>14. Browses(b, "main", l)
  BY <1>0, <1>1, <1>2, <1>3, <1>4, <1>5 DEF Browses
<1> HIDE DEF k, o
<1> QED BY <1>0, <1>1, <1>2, <1>3, <1>4, <1>5, <1>9, <1>11, <1>12, <1>13, <1>14,
       ContextsClose, Tasks DEF k, o

LEMMA AttachUndoneStep ==
  ASSUME LifeInv, NEW b \in Browser, AttachUndone(b)
  PROVE  LifeInv'
<1> DEFINE k == task[b]["main"]
           o == obj[b]
<1>0. /\ k.at = "undone" /\ Busy(b, "main") /\ NoCall
      /\ UNCHANGED <<kind, maker, tabs, pool>>
  BY DEF AttachUndone, At, Busy, world
<1>1. /\ CallOK("main", k, o) /\ Knows(o, task[b]["main"]) /\ k \in Local /\ o \in Attributes /\ Types
      /\ ~overlapped[b] => /\ \A u \in Task \ {"main"} : ~Busy(b, u)
                           /\ Hand(o, k, Mine(b), Runs(b))
  BY <1>0, InCall, Tasks
<1>2. k.call = "attach"
  BY <1>0, <1>1 DEF CallOK, LaunchPlace, RelaunchPlace, ClosePlace, Local, Call
<1>3. /\ Stop(o.pw) /\ Return(b, "main")
      /\ Become(b, [o EXCEPT !.browser = None, !.remote = FALSE, !.pw = None,
                      !.attached = FALSE, !.ours = FALSE, !.mode = "none", !.page = None,
                      !.owns = FALSE])
  BY DEF AttachUndone
<1>4. UserContext \subseteq Context /\ None \notin UserContext
  BY ConstantsAssumption
<1> DEFINE l == Rest("main")
           n == [o EXCEPT !.browser = None, !.remote = FALSE, !.pw = None,
                          !.attached = FALSE, !.ours = FALSE, !.mode = "none",
                          !.page = None, !.owns = FALSE]
<1>5. /\ l \in Local /\ l.at \in {"idle", "exec"} /\ l.call = "none" /\ l.ctx = None
      /\ l.pw = None /\ ~l.onBrowser /\ l.at = "idle"
  BY RestLocal, Tasks
<1>6. /\ n \in Attributes /\ n.browser = None /\ n.mode = "none" /\ n.attached = FALSE
      /\ n.usingPool = o.usingPool /\ n.hasPool = o.hasPool /\ n.pw = None
      /\ n.remote = FALSE /\ n.atexit = o.atexit /\ n.ours = FALSE
  BY <1>0, <1>1, <1>2, <1>3, <1>4 DEF Attributes, Mode
<1>7. TaskBecomes(b, "main", l)
  BY <1>0, <1>1, <1>2, <1>3, <1>4, ReturnEffect, Tasks
<1>8. ObjBecomes(b, n)
  BY <1>0, <1>1, <1>2, <1>3, <1>4, <1>6, BecomeEffect
<1> HIDE DEF l, n
<1>9. Moves(b, "main", n, l) /\ overlapped'[b] = overlapped[b]
  BY <1>0, <1>1, <1>2, <1>3, <1>4, <1>7, <1>8, NoCallMoves, Tasks
<1>10. CallOK("main", l, n)
  BY <1>0, <1>1, <1>2, <1>3, <1>4, <1>5, <1>6 DEF CallOK, LaunchPlace, AttachPlace,
     RelaunchPlace, ClosePlace
<1>11. Sound(b, "main", n, l)
  BY <1>0, <1>1, <1>2, <1>3, <1>4, <1>5, <1>6, <1>10 DEF Sound, Knows, CallOK
<1>12. Growth(b, "main", n, l)
  BY <1>0, <1>1, <1>2, <1>3, <1>4, <1>5, <1>6, NoGrowth, Tasks
<1>13. ~overlapped[b] => Hand(n, l, Mine(b), Runs(b) \ {o.pw})
  BY <1>0, <1>1, <1>2, <1>3, <1>4, <1>5, <1>6 DEF Hand, Unset, Nothing, CallOK
<1>14. Browses(b, "main", l)
  BY <1>0, <1>1, <1>2, <1>3, <1>4, <1>5 DEF Browses
<1> HIDE DEF k, o
<1> QED BY <1>0, <1>1, <1>2, <1>3, <1>4, <1>5, <1>6, <1>9, <1>11, <1>12, <1>13, <1>14,
       DriverStops, Tasks DEF k, o

-----------------------------------------------------------------------------
\* _perform_rotation_relaunch()

LEMMA RelaunchMoves ==
  ASSUME Types, NEW b \in Browser, NEW t \in Task, NEW o, NEW l, RelaunchBegins(b, t),
         ObjBecomes(b, o), TaskBecomes(b, t, l)
  PROVE  /\ Moves(b, t, o, l) /\ ~Busy(b, t)
         /\ ~overlapped'[b] => /\ ~overlapped[b] /\ ~Busy(b, "main") /\ ~Busy(b, "hook")
<1>1. CASE t = "main" /\ Begins(b)
  BY <1>1, BeginMoves
<1>2. CASE /\ t = "hook" /\ At(b, t, "exec")
           /\ overlapped' = [overlapped EXCEPT ![b] = @ \/ Busy(b, "main")]
  BY <1>2 DEF Moves, Types, Busy, At, TaskBecomes, TaskMoves
<1> QED BY <1>1, <1>2 DEF RelaunchBegins

LEMMA ClosePageEffect ==
  ASSUME Types, NEW page \in Page, ClosePage(page)
  PROVE  tabs' \in [Context -> SUBSET PageName]
BY DEF Types, WorldTypes, ClosePage, Page

LEMMA RelaunchStartStep ==
  ASSUME LifeInv, NEW b \in Browser, NEW t \in Task, Relaunch(b, t)
  PROVE  LifeInv'
<1> DEFINE k == task[b][t]
           o == obj[b]
           way == IF o.usingPool THEN "pooled" ELSE "launched"
<1>1. /\ CallOK(t, k, o) /\ Knows(o, task[b]["main"]) /\ k \in Local /\ o \in Attributes /\ Types
      /\ ~overlapped[b] /\ ~Busy(b, "main") /\ ~Busy(b, "hook") =>
           /\ \A u \in Task \ {t} : ~Busy(b, u)
           /\ Hand(o, k, Mine(b), Runs(b))
  BY CallOf, AtRest, Tasks
<1>2. /\ RelaunchBegins(b, t) /\ o.browser # None
      /\ UNCHANGED <<obj, kind, maker, running, pool>>
      /\ Continue(b, t, [Idle EXCEPT !.at = "release", !.call = "relaunch", !.mode = way])
      /\ None \notin UserContext
  BY ConstantsAssumption DEF Relaunch, HasLauncher
<1>3. tabs' \in [Context -> SUBSET PageName]
  <2>1. CASE o.page # None
    BY <1>1, <2>1, ClosePageEffect DEF Relaunch, Attributes
  <2>2. CASE o.page = None
    BY <1>1, <2>2 DEF Relaunch, Types, WorldTypes
  <2> QED BY <2>1, <2>2
<1>4. way \in {"launched", "pooled"}
  OBVIOUS
<1>5. k.call = "none"
  <2>1. k.at \in {"idle", "exec"}
    BY <1>2, Tasks DEF RelaunchBegins, Begins, At
  <2> QED BY <1>1, <2>1 DEF CallOK
<1> HIDE DEF way
<1> DEFINE l == [Idle EXCEPT !.at = "release", !.call = "relaunch", !.mode = way]
<1>6. /\ l \in Local /\ l.at = "release" /\ l.call = "relaunch" /\ l.ctx = None
      /\ l.pw = None /\ l.mode = way /\ ~l.onBrowser
  BY <1>1, <1>2, <1>3, <1>4, <1>5 DEF Idle, Local, Place, Call, Mode, LaunchPlace,
     AttachPlace, RelaunchPlace, ClosePlace
<1>8. TaskBecomes(b, t, l)
  BY <1>1, <1>2, <1>3, <1>4, <1>5, <1>6, ContinueEffect, Tasks
<1>9. ObjBecomes(b, o)
  BY <1>1, <1>2, <1>3, <1>4, <1>5, SameObject
<1> HIDE DEF l
<1>10. /\ Moves(b, t, o, l)
       /\ ~overlapped'[b] => /\ ~overlapped[b] /\ ~Busy(b, "main") /\ ~Busy(b, "hook")
  BY <1>1, <1>2, <1>3, <1>4, <1>5, <1>8, <1>9, RelaunchMoves
<1>11. CallOK(t, l, o)
  BY <1>1, <1>2, <1>3, <1>4, <1>5, <1>6 DEF CallOK, LaunchPlace, AttachPlace,
     RelaunchPlace, ClosePlace
<1>12. Sound(b, t, o, l)
  BY <1>1, <1>2, <1>3, <1>4, <1>5, <1>6, <1>11 DEF Sound, Knows, CallOK
<1>13. Growth(b, t, o, l)
  BY <1>1, <1>2, <1>3, <1>4, <1>5, <1>6, NoGrowth, Tasks
<1>14. ASSUME ~overlapped'[b]
       PROVE  /\ \A u \in Task \ {t} : ~Busy(b, u)
              /\ Hand(o, l, Mine(b), Runs(b))
  <2>1. /\ \A u \in Task \ {t} : ~Busy(b, u)
        /\ Hand(o, k, Mine(b), Runs(b))
    <3>1. ~overlapped[b] /\ ~Busy(b, "main") /\ ~Busy(b, "hook")
      BY <1>10, <1>14
    <3> QED BY <1>1, <3>1
  <2>2. Hand(o, l, Mine(b), Runs(b))
    BY <1>1, <1>2, <1>5, <1>6, <2>1 DEF Hand, Unset, Nothing
  <2> QED BY <2>1, <2>2
<1>15. Browses(b, t, l)
  BY <1>1, <1>2, <1>3, <1>4, <1>5, <1>6 DEF Browses
<1> HIDE DEF k, o
<1> QED BY <1>1, <1>2, <1>3, <1>4, <1>5, <1>6, <1>10, <1>12, <1>13, <1>14, <1>15,
       PagesChange, Tasks DEF k, o

LEMMA RelaunchClosesStep ==
  ASSUME LifeInv, NEW b \in Browser, NEW t \in Task, RelaunchCloses(b, t)
  PROVE  LifeInv'
<1> DEFINE k == task[b][t]
           o == obj[b]
<1>0. /\ k.at = "release" /\ Busy(b, t) /\ NoCall
      /\ UNCHANGED <<obj, running>>
  BY DEF RelaunchCloses, At, Busy, world
<1>1. /\ CallOK(t, k, o) /\ Knows(o, task[b]["main"]) /\ k \in Local /\ o \in Attributes /\ Types
      /\ ~overlapped[b] => /\ \A u \in Task \ {t} : ~Busy(b, u)
                           /\ Hand(o, k, Mine(b), Runs(b))
  BY <1>0, InCall, Tasks
<1>2. k.call = "relaunch"
  BY <1>0, <1>1 DEF CallOK, LaunchPlace, AttachPlace, ClosePlace, Local, Call
<1> DEFINE S == {o.browser} \ {None}
<1>3. /\ CloseContexts(S) /\ Goto(b, t, "forget") /\ S \in SUBSET Context
      /\ pool' = pool \/ \E c : pool' = Released(c)
      /\ {o.browser} \subseteq S \cup {None}
  BY <1>1 DEF RelaunchCloses, Attributes, Local
<1>4. None \notin Mine(b)
  BY NoNone
<1> HIDE DEF S
<1> DEFINE l == Moved(k, "forget")
<1>5. /\ l \in Local /\ l.at = "forget" /\ l.call = k.call /\ l.ctx = k.ctx /\ l.pw = k.pw
      /\ l.mode = k.mode /\ l.onBrowser = k.onBrowser
  BY <1>1, MovedLocal DEF Place, LaunchPlace, AttachPlace, RelaunchPlace, ClosePlace
<1>7. TaskBecomes(b, t, l)
  BY <1>0, <1>1, <1>2, <1>3, <1>4, GotoEffect, Tasks DEF Place, LaunchPlace, AttachPlace,
     RelaunchPlace, ClosePlace
<1>8. ObjBecomes(b, o)
  BY <1>0, <1>1, <1>2, <1>3, <1>4, SameObject
<1> HIDE DEF l
<1>9. Moves(b, t, o, l) /\ overlapped'[b] = overlapped[b]
  BY <1>0, <1>1, <1>2, <1>3, <1>4, <1>7, <1>8, NoCallMoves, Tasks
<1>10. CallOK(t, l, o)
  BY <1>0, <1>1, <1>2, <1>3, <1>4, <1>5 DEF CallOK, LaunchPlace, AttachPlace,
     RelaunchPlace, ClosePlace
<1>11. Sound(b, t, o, l)
  BY <1>0, <1>1, <1>2, <1>3, <1>4, <1>5, <1>10 DEF Sound, Knows, CallOK
<1>12. Growth(b, t, o, l)
  BY <1>0, <1>1, <1>2, <1>3, <1>4, <1>5, NoGrowth, Tasks
<1>13. ~overlapped[b] => Hand(o, l, Mine(b) \ S, Runs(b))
  BY <1>0, <1>1, <1>2, <1>3, <1>4, <1>5 DEF Hand, Unset, Nothing, CallOK
<1>14. Browses(b, t, l)
  BY <1>0, <1>1, <1>2, <1>3, <1>4, <1>5 DEF Browses
<1> HIDE DEF k, o
<1> QED BY <1>0, <1>1, <1>2, <1>3, <1>4, <1>5, <1>9, <1>11, <1>12, <1>13, <1>14,
       ContextsClose, Tasks DEF k, o

LEMMA RelaunchForgetsStep ==
  ASSUME LifeInv, NEW b \in Browser, NEW t \in Task, RelaunchForgets(b, t)
  PROVE  LifeInv'
<1> DEFINE k == task[b][t]
           o == obj[b]
<1>0. /\ k.at = "forget" /\ Busy(b, t) /\ NoCall
      /\ UNCHANGED <<kind, maker, tabs, running, pool>>
  BY DEF RelaunchForgets, At, Busy, world
<1>1. /\ CallOK(t, k, o) /\ Knows(o, task[b]["main"]) /\ k \in Local /\ o \in Attributes /\ Types
      /\ ~overlapped[b] => /\ \A u \in Task \ {t} : ~Busy(b, u)
                           /\ Hand(o, k, Mine(b), Runs(b))
  BY <1>0, InCall, Tasks
<1>2. k.call = "relaunch"
  BY <1>0, <1>1 DEF CallOK, LaunchPlace, AttachPlace, ClosePlace, Local, Call
<1>3. /\ Become(b, [o EXCEPT !.page = None, !.owns = FALSE, !.browser = None,
                             !.mode = "none"])
      /\ UserContext \subseteq Context /\ None \notin UserContext
  BY ConstantsAssumption DEF RelaunchForgets, Forgotten
<1>4. CASE Goto(b, t, "ensure")
  <2> DEFINE l == Moved(k, "ensure")
             n == [o EXCEPT !.page = None, !.owns = FALSE, !.browser = None,
                            !.mode = "none"]
  <2>1. /\ l \in Local /\ l.at = "ensure" /\ l.call = k.call /\ l.ctx = k.ctx /\ l.pw = k.pw
        /\ l.mode = k.mode /\ l.onBrowser = k.onBrowser
    BY <1>1, MovedLocal DEF Place, LaunchPlace, AttachPlace, RelaunchPlace, ClosePlace
  <2>2. /\ n \in Attributes /\ n.browser = None /\ n.mode = "none"
        /\ n.attached = o.attached /\ n.usingPool = o.usingPool /\ n.hasPool = o.hasPool
        /\ n.pw = o.pw /\ n.remote = o.remote /\ n.atexit = o.atexit /\ n.ours = o.ours
    BY <1>0, <1>1, <1>2, <1>3, <1>4 DEF Attributes, Mode
  <2>3. TaskBecomes(b, t, l)
    BY <1>0, <1>1, <1>2, <1>3, <1>4, GotoEffect, Tasks DEF Place, LaunchPlace, AttachPlace,
       RelaunchPlace, ClosePlace
  <2>4. ObjBecomes(b, n)
    BY <1>0, <1>1, <1>2, <1>3, <1>4, <2>2, BecomeEffect
  <2> HIDE DEF l, n
  <2>5. Moves(b, t, n, l) /\ overlapped'[b] = overlapped[b]
    BY <1>0, <1>1, <1>2, <1>3, <1>4, <2>3, <2>4, NoCallMoves, Tasks
  <2>6. CallOK(t, l, n)
    BY <1>0, <1>1, <1>2, <1>3, <1>4, <2>1, <2>2 DEF CallOK, LaunchPlace, AttachPlace,
       RelaunchPlace, ClosePlace
  <2>7. Sound(b, t, n, l)
    BY <1>0, <1>1, <1>2, <1>3, <1>4, <2>1, <2>2, <2>6 DEF Sound, Knows, CallOK
  <2>8. Growth(b, t, n, l)
    BY <1>0, <1>1, <1>2, <1>3, <1>4, <2>1, <2>2, NoGrowth, Tasks
  <2>9. ~overlapped[b] => Hand(n, l, Mine(b), Runs(b))
    BY <1>0, <1>1, <1>2, <1>3, <1>4, <2>1, <2>2 DEF Hand, Unset, Nothing, CallOK
  <2>10. Browses(b, t, l)
    BY <1>0, <1>1, <1>2, <1>3, <1>4, <2>1 DEF Browses
  <2> HIDE DEF k, o
  <2> QED BY <1>0, <1>1, <1>2, <1>3, <1>4, <2>1, <2>2, <2>5, <2>7, <2>8, <2>9, <2>10,
         NothingChanges, Tasks DEF k, o
<1>5. CASE Goto(b, t, "context")
  <2> DEFINE l == Moved(k, "context")
             n == [o EXCEPT !.page = None, !.owns = FALSE, !.browser = None,
                            !.mode = "none"]
  <2>1. /\ l \in Local /\ l.at = "context" /\ l.call = k.call /\ l.ctx = k.ctx
        /\ l.pw = k.pw /\ l.mode = k.mode /\ l.onBrowser = k.onBrowser
    BY <1>1, MovedLocal DEF Place, LaunchPlace, AttachPlace, RelaunchPlace, ClosePlace
  <2>2. /\ n \in Attributes /\ n.browser = None /\ n.mode = "none"
        /\ n.attached = o.attached /\ n.usingPool = o.usingPool /\ n.hasPool = o.hasPool
        /\ n.pw = o.pw /\ n.remote = o.remote /\ n.atexit = o.atexit /\ n.ours = o.ours
    BY <1>0, <1>1, <1>2, <1>3, <1>5 DEF Attributes, Mode
  <2>3. TaskBecomes(b, t, l)
    BY <1>0, <1>1, <1>2, <1>3, <1>5, GotoEffect, Tasks DEF Place, LaunchPlace, AttachPlace,
       RelaunchPlace, ClosePlace
  <2>4. ObjBecomes(b, n)
    BY <1>0, <1>1, <1>2, <1>3, <1>5, <2>2, BecomeEffect
  <2> HIDE DEF l, n
  <2>5. Moves(b, t, n, l) /\ overlapped'[b] = overlapped[b]
    BY <1>0, <1>1, <1>2, <1>3, <1>5, <2>3, <2>4, NoCallMoves, Tasks
  <2>6. CallOK(t, l, n)
    BY <1>0, <1>1, <1>2, <1>3, <1>5, <2>1, <2>2 DEF CallOK, LaunchPlace, AttachPlace,
       RelaunchPlace, ClosePlace
  <2>7. Sound(b, t, n, l)
    BY <1>0, <1>1, <1>2, <1>3, <1>5, <2>1, <2>2, <2>6 DEF Sound, Knows, CallOK
  <2>8. Growth(b, t, n, l)
    BY <1>0, <1>1, <1>2, <1>3, <1>5, <2>1, <2>2, NoGrowth, Tasks
  <2>9. ~overlapped[b] => Hand(n, l, Mine(b), Runs(b))
    BY <1>0, <1>1, <1>2, <1>3, <1>5, <2>1, <2>2 DEF Hand, Unset, Nothing, CallOK
  <2>10. Browses(b, t, l)
    BY <1>0, <1>1, <1>2, <1>3, <1>5, <2>1 DEF Browses
  <2> HIDE DEF k, o
  <2> QED BY <1>0, <1>1, <1>2, <1>3, <1>5, <2>1, <2>2, <2>5, <2>7, <2>8, <2>9, <2>10,
         NothingChanges, Tasks DEF k, o
<1>6. CASE Goto(b, t, "rollback")
  <2> DEFINE l == Moved(k, "rollback")
             n == [o EXCEPT !.page = None, !.owns = FALSE, !.browser = None,
                            !.mode = "none"]
  <2>1. /\ l \in Local /\ l.at = "rollback" /\ l.call = k.call /\ l.ctx = k.ctx
        /\ l.pw = k.pw /\ l.mode = k.mode /\ l.onBrowser = k.onBrowser
    BY <1>1, MovedLocal DEF Place, LaunchPlace, AttachPlace, RelaunchPlace, ClosePlace
  <2>2. /\ n \in Attributes /\ n.browser = None /\ n.mode = "none"
        /\ n.attached = o.attached /\ n.usingPool = o.usingPool /\ n.hasPool = o.hasPool
        /\ n.pw = o.pw /\ n.remote = o.remote /\ n.atexit = o.atexit /\ n.ours = o.ours
    BY <1>0, <1>1, <1>2, <1>3, <1>6 DEF Attributes, Mode
  <2>3. TaskBecomes(b, t, l)
    BY <1>0, <1>1, <1>2, <1>3, <1>6, GotoEffect, Tasks DEF Place, LaunchPlace, AttachPlace,
       RelaunchPlace, ClosePlace
  <2>4. ObjBecomes(b, n)
    BY <1>0, <1>1, <1>2, <1>3, <1>6, <2>2, BecomeEffect
  <2> HIDE DEF l, n
  <2>5. Moves(b, t, n, l) /\ overlapped'[b] = overlapped[b]
    BY <1>0, <1>1, <1>2, <1>3, <1>6, <2>3, <2>4, NoCallMoves, Tasks
  <2>6. CallOK(t, l, n)
    BY <1>0, <1>1, <1>2, <1>3, <1>6, <2>1, <2>2 DEF CallOK, LaunchPlace, AttachPlace,
       RelaunchPlace, ClosePlace
  <2>7. Sound(b, t, n, l)
    BY <1>0, <1>1, <1>2, <1>3, <1>6, <2>1, <2>2, <2>6 DEF Sound, Knows, CallOK
  <2>8. Growth(b, t, n, l)
    BY <1>0, <1>1, <1>2, <1>3, <1>6, <2>1, <2>2, NoGrowth, Tasks
  <2>9. ~overlapped[b] => Hand(n, l, Mine(b), Runs(b))
    BY <1>0, <1>1, <1>2, <1>3, <1>6, <2>1, <2>2 DEF Hand, Unset, Nothing, CallOK
  <2>10. Browses(b, t, l)
    BY <1>0, <1>1, <1>2, <1>3, <1>6, <2>1 DEF Browses
  <2> HIDE DEF k, o
  <2> QED BY <1>0, <1>1, <1>2, <1>3, <1>6, <2>1, <2>2, <2>5, <2>7, <2>8, <2>9, <2>10,
         NothingChanges, Tasks DEF k, o
<1> QED
  <2>1. Goto(b, t, "ensure") \/ Goto(b, t, "context") \/ Goto(b, t, "rollback")
    BY DEF RelaunchForgets
  <2> QED BY <1>4, <1>5, <1>6, <2>1

LEMMA RelaunchSwapsStep ==
  ASSUME LifeInv, NEW b \in Browser, NEW t \in Task, RelaunchSwaps(b, t)
  PROVE  LifeInv'
<1> DEFINE k == task[b][t]
           o == obj[b]
<1>0. /\ k.at = "stage" /\ Busy(b, t) /\ NoCall
      /\ UNCHANGED <<kind, maker, running, pool>>
  BY DEF RelaunchSwaps, At, Busy, world
<1>1. /\ CallOK(t, k, o) /\ Knows(o, task[b]["main"]) /\ k \in Local /\ o \in Attributes /\ Types
      /\ ~overlapped[b] => /\ \A u \in Task \ {t} : ~Busy(b, u)
                           /\ Hand(o, k, Mine(b), Runs(b))
  BY <1>0, InCall, Tasks
<1>2. k.call = "relaunch"
  BY <1>0, <1>1 DEF CallOK, LaunchPlace, AttachPlace, ClosePlace, Local, Call
<1>3. k.ctx \in Context /\ k.ctx \notin UserContext
  BY <1>0, <1>1, <1>2 DEF CallOK, Local
<1>4. CASE Goto(b, t, "rollback") /\ UNCHANGED <<obj, tabs>>
  <2> DEFINE l == Moved(k, "rollback")
  <2>1. /\ l \in Local /\ l.at = "rollback" /\ l.call = k.call /\ l.ctx = k.ctx
        /\ l.pw = k.pw /\ l.mode = k.mode /\ l.onBrowser = k.onBrowser
    BY <1>1, MovedLocal DEF Place, LaunchPlace, AttachPlace, RelaunchPlace, ClosePlace
  <2>3. TaskBecomes(b, t, l)
    BY <1>0, <1>1, <1>2, <1>4, GotoEffect, Tasks DEF Place, LaunchPlace, AttachPlace,
       RelaunchPlace, ClosePlace
  <2>4. ObjBecomes(b, o)
    BY <1>0, <1>1, <1>2, <1>4, SameObject
  <2> HIDE DEF l
  <2>5. Moves(b, t, o, l) /\ overlapped'[b] = overlapped[b]
    BY <1>0, <1>1, <1>2, <1>4, <2>3, <2>4, NoCallMoves, Tasks
  <2>6. CallOK(t, l, o)
    BY <1>0, <1>1, <1>2, <1>4, <2>1 DEF CallOK, LaunchPlace, AttachPlace, RelaunchPlace,
       ClosePlace
  <2>7. Sound(b, t, o, l)
    BY <1>0, <1>1, <1>2, <1>4, <2>1, <2>6 DEF Sound, Knows, CallOK
  <2>8. Growth(b, t, o, l)
    BY <1>0, <1>1, <1>2, <1>4, <2>1, NoGrowth, Tasks
  <2>9. ~overlapped[b] => Hand(o, l, Mine(b), Runs(b))
    BY <1>0, <1>1, <1>2, <1>4, <2>1 DEF Hand, Unset, Nothing, CallOK
  <2>10. Browses(b, t, l)
    BY <1>0, <1>1, <1>2, <1>4, <2>1 DEF Browses
  <2> HIDE DEF k, o
  <2> QED BY <1>0, <1>1, <1>2, <1>4, <2>1, <2>5, <2>7, <2>8, <2>9, <2>10, NothingChanges,
         Tasks DEF k, o
<1>5. ASSUME tabs' = [tabs EXCEPT ![k.ctx] = @ \cup {"main"}], Return(b, t),
             Become(b, [o EXCEPT !.browser = k.ctx, !.page = <<k.ctx, "main">>,
                                 !.owns = TRUE,
                                 !.mode = k.mode])
      PROVE  LifeInv'
  <2>0. /\ <<k.ctx, "main">> \in Page /\ k.mode \in {"launched", "pooled"}
        /\ tabs' \in [Context -> SUBSET PageName]
    BY <1>1, <1>2, <1>3, <1>5 DEF Page, PageName, Types, WorldTypes, CallOK
  <2> DEFINE l == Rest(t)
             n == [o EXCEPT !.browser = k.ctx, !.page = <<k.ctx, "main">>, !.owns = TRUE,
                            !.mode = k.mode]
  <2>1. /\ l \in Local /\ l.at \in {"idle", "exec"} /\ l.call = "none" /\ l.ctx = None
        /\ l.pw = None /\ ~l.onBrowser /\ (t = "main" => l.at = "idle")
    BY RestLocal, Tasks
  <2>2. /\ n \in Attributes /\ n.browser = k.ctx /\ n.mode = k.mode
        /\ n.attached = o.attached /\ n.usingPool = o.usingPool /\ n.hasPool = o.hasPool
        /\ n.pw = o.pw /\ n.remote = o.remote /\ n.atexit = o.atexit /\ n.ours = o.ours
    BY <1>0, <1>1, <1>2, <1>3, <1>5, <2>0 DEF Attributes, Mode
  <2>3. TaskBecomes(b, t, l)
    BY <1>0, <1>1, <1>2, <1>3, <1>5, <2>0, ReturnEffect, Tasks
  <2>4. ObjBecomes(b, n)
    BY <1>0, <1>1, <1>2, <1>3, <1>5, <2>0, <2>2, BecomeEffect
  <2> HIDE DEF l, n
  <2>5. Moves(b, t, n, l) /\ overlapped'[b] = overlapped[b]
    BY <1>0, <1>1, <1>2, <1>3, <1>5, <2>0, <2>3, <2>4, NoCallMoves, Tasks
  <2>6. CallOK(t, l, n)
    BY <1>0, <1>1, <1>2, <1>3, <1>5, <2>0, <2>1, <2>2 DEF CallOK, LaunchPlace, AttachPlace,
       RelaunchPlace, ClosePlace
  <2>7. Sound(b, t, n, l)
    BY <1>0, <1>1, <1>2, <1>3, <1>5, <2>0, <2>1, <2>2, <2>6 DEF Sound, Knows, CallOK
  <2>8. Growth(b, t, n, l)
    BY <1>0, <1>1, <1>2, <1>3, <1>5, <2>0, <2>1, <2>2, NoGrowth, Tasks
  <2>9. ~overlapped[b] => Hand(n, l, Mine(b), Runs(b))
    BY <1>0, <1>1, <1>2, <1>3, <1>5, <2>0, <2>1, <2>2, NoNone DEF Hand, Unset, Nothing,
       CallOK
  <2>10. Browses(b, t, l)
    BY <1>0, <1>1, <1>2, <1>3, <1>5, <2>0, <2>1 DEF Browses
  <2> HIDE DEF k, o
  <2> QED BY <1>0, <1>1, <1>2, <1>3, <1>5, <2>0, <2>1, <2>2, <2>5, <2>7, <2>8, <2>9, <2>10,
         PagesChange, Tasks DEF k, o
<1> QED BY <1>4, <1>5 DEF RelaunchSwaps

LEMMA RelaunchRollsBackStep ==
  ASSUME LifeInv, NEW b \in Browser, NEW t \in Task, RelaunchRollsBack(b, t)
  PROVE  LifeInv'
<1> DEFINE k == task[b][t]
           o == obj[b]
<1>0. /\ k.at = "rollback" /\ Busy(b, t) /\ NoCall
      /\ UNCHANGED <<obj, running>>
  BY DEF RelaunchRollsBack, At, Busy, world
<1>1. /\ CallOK(t, k, o) /\ Knows(o, task[b]["main"]) /\ k \in Local /\ o \in Attributes /\ Types
      /\ ~overlapped[b] => /\ \A u \in Task \ {t} : ~Busy(b, u)
                           /\ Hand(o, k, Mine(b), Runs(b))
  BY <1>0, InCall, Tasks
<1>2. k.call = "relaunch"
  BY <1>0, <1>1 DEF CallOK, LaunchPlace, AttachPlace, ClosePlace, Local, Call
<1> DEFINE S == {k.ctx} \ {None}
<1>3. /\ CloseContexts(S) /\ Goto(b, t, "dead") /\ S \in SUBSET Context
      /\ pool' = pool \/ \E c : pool' = Released(c)
      /\ {k.ctx} \subseteq S \cup {None}
  BY <1>1 DEF RelaunchRollsBack, Attributes, Local
<1>4. None \notin Mine(b)
  BY NoNone
<1> HIDE DEF S
<1> DEFINE l == Moved(k, "dead")
<1>5. /\ l \in Local /\ l.at = "dead" /\ l.call = k.call /\ l.ctx = k.ctx /\ l.pw = k.pw
      /\ l.mode = k.mode /\ l.onBrowser = k.onBrowser
  BY <1>1, MovedLocal DEF Place, LaunchPlace, AttachPlace, RelaunchPlace, ClosePlace
<1>7. TaskBecomes(b, t, l)
  BY <1>0, <1>1, <1>2, <1>3, <1>4, GotoEffect, Tasks DEF Place, LaunchPlace, AttachPlace,
     RelaunchPlace, ClosePlace
<1>8. ObjBecomes(b, o)
  BY <1>0, <1>1, <1>2, <1>3, <1>4, SameObject
<1> HIDE DEF l
<1>9. Moves(b, t, o, l) /\ overlapped'[b] = overlapped[b]
  BY <1>0, <1>1, <1>2, <1>3, <1>4, <1>7, <1>8, NoCallMoves, Tasks
<1>10. CallOK(t, l, o)
  BY <1>0, <1>1, <1>2, <1>3, <1>4, <1>5 DEF CallOK, LaunchPlace, AttachPlace,
     RelaunchPlace, ClosePlace
<1>11. Sound(b, t, o, l)
  BY <1>0, <1>1, <1>2, <1>3, <1>4, <1>5, <1>10 DEF Sound, Knows, CallOK
<1>12. Growth(b, t, o, l)
  BY <1>0, <1>1, <1>2, <1>3, <1>4, <1>5, NoGrowth, Tasks
<1>13. ~overlapped[b] => Hand(o, l, Mine(b) \ S, Runs(b))
  BY <1>0, <1>1, <1>2, <1>3, <1>4, <1>5 DEF Hand, Unset, Nothing, CallOK
<1>14. Browses(b, t, l)
  BY <1>0, <1>1, <1>2, <1>3, <1>4, <1>5 DEF Browses
<1> HIDE DEF k, o
<1> QED BY <1>0, <1>1, <1>2, <1>3, <1>4, <1>5, <1>9, <1>11, <1>12, <1>13, <1>14,
       ContextsClose, Tasks DEF k, o

LEMMA RelaunchRaisesStep ==
  ASSUME LifeInv, NEW b \in Browser, NEW t \in Task, RelaunchRaises(b, t)
  PROVE  LifeInv'
<1> DEFINE k == task[b][t]
           o == obj[b]
<1>0. /\ k.at = "dead" /\ Busy(b, t) /\ NoCall
      /\ UNCHANGED <<kind, maker, tabs, running, pool>>
  BY DEF RelaunchRaises, At, Busy, world
<1>1. /\ CallOK(t, k, o) /\ Knows(o, task[b]["main"]) /\ k \in Local /\ o \in Attributes /\ Types
      /\ ~overlapped[b] => /\ \A u \in Task \ {t} : ~Busy(b, u)
                           /\ Hand(o, k, Mine(b), Runs(b))
  BY <1>0, InCall, Tasks
<1>2. k.call = "relaunch"
  BY <1>0, <1>1 DEF CallOK, LaunchPlace, AttachPlace, ClosePlace, Local, Call
<1>3. /\ Become(b, [o EXCEPT !.page = None, !.owns = FALSE, !.browser = None,
                             !.mode = "none"])
      /\ Return(b, t) /\ UserContext \subseteq Context /\ None \notin UserContext
  BY ConstantsAssumption DEF RelaunchRaises, Forgotten
<1> DEFINE l == Rest(t)
           n == [o EXCEPT !.page = None, !.owns = FALSE, !.browser = None, !.mode = "none"]
<1>4. /\ l \in Local /\ l.at \in {"idle", "exec"} /\ l.call = "none" /\ l.ctx = None
      /\ l.pw = None /\ ~l.onBrowser /\ (t = "main" => l.at = "idle")
  BY RestLocal, Tasks
<1>5. /\ n \in Attributes /\ n.browser = None /\ n.mode = "none" /\ n.attached = o.attached
      /\ n.usingPool = o.usingPool /\ n.hasPool = o.hasPool /\ n.pw = o.pw
      /\ n.remote = o.remote /\ n.atexit = o.atexit /\ n.ours = o.ours
  BY <1>0, <1>1, <1>2, <1>3 DEF Attributes, Mode
<1>6. TaskBecomes(b, t, l)
  BY <1>0, <1>1, <1>2, <1>3, ReturnEffect, Tasks
<1>7. ObjBecomes(b, n)
  BY <1>0, <1>1, <1>2, <1>3, <1>5, BecomeEffect
<1> HIDE DEF l, n
<1>8. Moves(b, t, n, l) /\ overlapped'[b] = overlapped[b]
  BY <1>0, <1>1, <1>2, <1>3, <1>6, <1>7, NoCallMoves, Tasks
<1>9. CallOK(t, l, n)
  BY <1>0, <1>1, <1>2, <1>3, <1>4, <1>5 DEF CallOK, LaunchPlace, AttachPlace,
     RelaunchPlace, ClosePlace
<1>10. Sound(b, t, n, l)
  BY <1>0, <1>1, <1>2, <1>3, <1>4, <1>5, <1>9 DEF Sound, Knows, CallOK
<1>11. Growth(b, t, n, l)
  BY <1>0, <1>1, <1>2, <1>3, <1>4, <1>5, NoGrowth, Tasks
<1>12. ~overlapped[b] => Hand(n, l, Mine(b), Runs(b))
  BY <1>0, <1>1, <1>2, <1>3, <1>4, <1>5 DEF Hand, Unset, Nothing, CallOK
<1>13. Browses(b, t, l)
  BY <1>0, <1>1, <1>2, <1>3, <1>4 DEF Browses
<1> HIDE DEF k, o
<1> QED BY <1>0, <1>1, <1>2, <1>3, <1>4, <1>5, <1>8, <1>10, <1>11, <1>12, <1>13,
       NothingChanges, Tasks DEF k, o

-----------------------------------------------------------------------------
\* Tabs.

LEMMA SameTask ==
  ASSUME Types, NEW b \in Browser, NEW t \in Task, UNCHANGED task
  PROVE  TaskBecomes(b, t, task[b][t])
BY DEF TaskBecomes, Types

\* A call that changes nothing but pages and what the attributes say of them.
LEMMA PagesStep ==
  ASSUME LifeInv, NEW b \in Browser, Begins(b),
         UNCHANGED <<task, kind, maker, running, pool>>,
         tabs' \in [Context -> SUBSET PageName],
         NEW n \in Attributes, Become(b, n),
         n.browser = obj[b].browser, n.mode = obj[b].mode, n.attached = obj[b].attached,
         n.usingPool = obj[b].usingPool, n.hasPool = obj[b].hasPool, n.pw = obj[b].pw,
         n.remote = obj[b].remote, n.atexit = obj[b].atexit, n.ours = obj[b].ours
  PROVE  LifeInv'
<1> DEFINE k == task[b]["main"]
           o == obj[b]
<1>0. k.at = "idle"
  BY DEF Begins, At
<1>1. /\ CallOK("main", k, o) /\ Knows(o, k) /\ k \in Local /\ o \in Attributes /\ Types
      /\ ~overlapped[b] /\ ~Busy(b, "hook") =>
           /\ \A u \in Task \ {"main"} : ~Busy(b, u)
           /\ Hand(o, k, Mine(b), Runs(b))
  BY <1>0, CallOf, AtRest, Tasks DEF Busy
<1>2. TaskBecomes(b, "main", k) /\ ObjBecomes(b, n)
  BY <1>1, SameTask, BecomeEffect, Tasks
<1>3. /\ Moves(b, "main", n, k)
      /\ ~overlapped'[b] => ~overlapped[b] /\ ~Busy(b, "hook")
  BY <1>1, <1>2, BeginMoves
<1>4. Sound(b, "main", n, k)
  BY <1>1 DEF Sound, CallOK, Knows
<1>5. Growth(b, "main", n, k)
  BY NoGrowth, Tasks
<1>6. ~overlapped'[b] => /\ \A u \in Task \ {"main"} : ~Busy(b, u)
                         /\ Hand(n, k, Mine(b), Runs(b))
  BY <1>1, <1>3 DEF Hand
<1>7. Browses(b, "main", k)
  BY <1>0 DEF Browses
<1> HIDE DEF k, o
<1> QED BY <1>1, <1>3, <1>4, <1>5, <1>6, <1>7, PagesChange, Tasks DEF k, o

LEMMA NewPageStep ==
  ASSUME LifeInv, NEW b \in Browser, NEW makeCurrent \in BOOLEAN, NewPage(b, makeCurrent)
  PROVE  LifeInv'
<1> DEFINE k == task[b]["main"]
           o == obj[b]
<1>0. Begins(b) /\ k.at = "idle"
  BY DEF NewPage, Begins, At
<1>1. /\ CallOK("main", k, o) /\ Knows(o, k) /\ k \in Local /\ o \in Attributes /\ Types
      /\ ~overlapped[b] /\ ~Busy(b, "hook") =>
           /\ \A u \in Task \ {"main"} : ~Busy(b, u)
           /\ Hand(o, k, Mine(b), Runs(b))
  BY <1>0, CallOf, AtRest, Tasks DEF Busy
<1> DEFINE l == [Idle EXCEPT !.at = "newPage", !.call = "newPage", !.ctx = o.browser,
                             !.new = makeCurrent]
<1>2. /\ UNCHANGED <<obj, kind, maker, tabs, running, pool>> /\ o.browser # None
      /\ Continue(b, "main", l)
  <2>1. UNCHANGED <<obj, world, pool>> /\ o.browser # None
    BY DEF NewPage
  <2>2. Continue(b, "main", l)
    BY DEF NewPage
  <2> QED BY <2>1, <2>2 DEF world
<1>3. /\ l \in Local /\ l.at = "newPage" /\ l.call = "newPage" /\ l.ctx = o.browser
      /\ l.pw = None /\ l.mode = "none" /\ ~l.onBrowser
  <2>1. o.browser \in Context \cup {None}
    BY <1>1 DEF Attributes
  <2> HIDE DEF o
  <2> QED BY <2>1 DEF Idle, Local, Place, Call, Mode
<1>4. TaskBecomes(b, "main", l) /\ ObjBecomes(b, o)
  BY <1>1, <1>2, <1>3, ContinueEffect, SameObject, Tasks
<1> HIDE DEF l
<1>5. /\ Moves(b, "main", o, l)
      /\ ~overlapped'[b] => ~overlapped[b] /\ ~Busy(b, "hook")
  BY <1>0, <1>1, <1>4, BeginMoves
<1>6. CallOK("main", l, o)
  BY <1>1, <1>2, <1>3 DEF CallOK
<1>7. Sound(b, "main", o, l)
  BY <1>1, <1>3, <1>6 DEF Sound, Knows
<1>8. Growth(b, "main", o, l)
  BY <1>1, <1>3, OwnRefs, Tasks DEF Growth
<1>9. ~overlapped'[b] => /\ \A u \in Task \ {"main"} : ~Busy(b, u)
                         /\ Hand(o, l, Mine(b), Runs(b))
  <2>1. k.call = "none"
    BY <1>0, <1>1 DEF CallOK
  <2> QED BY <1>0, <1>1, <1>2, <1>3, <1>5, <2>1 DEF Hand, Unset, Nothing
<1>10. Browses(b, "main", l)
  BY <1>3 DEF Browses
<1> HIDE DEF k, o
<1> QED BY <1>1, <1>2, <1>3, <1>5, <1>7, <1>8, <1>9, <1>10, NothingChanges, Tasks DEF k, o

\* new_page() ends with these attributes, which differ in the pages only.
LEMMA PageOpens ==
  ASSUME LifeInv, NEW b \in Browser, At(b, "main", "newPage"), NoCall, Return(b, "main"),
         UNCHANGED <<kind, maker, running, pool>>,
         tabs' \in [Context -> SUBSET PageName],
         NEW n \in Attributes, ObjBecomes(b, n),
         n.browser = obj[b].browser, n.mode = obj[b].mode, n.attached = obj[b].attached,
         n.usingPool = obj[b].usingPool, n.hasPool = obj[b].hasPool, n.pw = obj[b].pw,
         n.remote = obj[b].remote, n.atexit = obj[b].atexit, n.ours = obj[b].ours
  PROVE  LifeInv'
<1> DEFINE k == task[b]["main"]
           o == obj[b]
           l == Rest("main")
<1>0. k.at = "newPage" /\ Busy(b, "main")
  BY DEF At, Busy
<1>1. /\ CallOK("main", k, o) /\ Knows(o, k) /\ k \in Local /\ o \in Attributes /\ Types
      /\ ~overlapped[b] => /\ \A u \in Task \ {"main"} : ~Busy(b, u)
                           /\ Hand(o, k, Mine(b), Runs(b))
  BY <1>0, InCall, Tasks
<1>2. k.call = "newPage"
  BY <1>0, <1>1 DEF CallOK, LaunchPlace, AttachPlace, RelaunchPlace, ClosePlace, Local, Call
<1>3. /\ l \in Local /\ l.at = "idle" /\ l.call = "none" /\ l.ctx = None /\ l.pw = None
      /\ ~l.onBrowser
  BY RestLocal, Tasks
<1>4. TaskBecomes(b, "main", l)
  BY <1>1, ReturnEffect, Tasks
<1> HIDE DEF l
<1>5. Moves(b, "main", n, l) /\ overlapped'[b] = overlapped[b]
  BY <1>1, <1>4, NoCallMoves, Tasks
<1>6. CallOK("main", l, n)
  BY <1>3 DEF CallOK
<1>7. Sound(b, "main", n, l)
  BY <1>1, <1>3, <1>6 DEF Sound, Knows
<1>8. Growth(b, "main", n, l)
  BY <1>3, NoGrowth, Tasks
<1>9. ~overlapped[b] => Hand(n, l, Mine(b), Runs(b))
  BY <1>0, <1>1, <1>2, <1>3 DEF Hand, Unset, Nothing
<1>10. Browses(b, "main", l)
  BY <1>3 DEF Browses
<1> HIDE DEF k, o
<1> QED BY <1>1, <1>3, <1>5, <1>7, <1>8, <1>9, <1>10, PagesChange, Tasks DEF k, o

LEMMA NewPageReturnsStep ==
  ASSUME LifeInv, NEW b \in Browser, NewPageReturns(b)
  PROVE  LifeInv'
<1> DEFINE o == obj[b]
           c == task[b]["main"].ctx
           owned == o.owned \cup Tracked(c, "extra")
<1>1. o \in Attributes /\ Types /\ CallOK("main", task[b]["main"], o)
      /\ task[b]["main"] \in Local
  BY CallOf, Tasks
<1>2. /\ At(b, "main", "newPage") /\ NoCall /\ Return(b, "main")
      /\ UNCHANGED <<kind, maker, running, pool>>
  BY DEF NewPageReturns
<1> DEFINE current == [o EXCEPT !.owned = owned, !.page = <<c, "extra">>, !.owns = TRUE]
           other == [o EXCEPT !.owned = owned]
<1>3. c \in Context
  BY <1>1, <1>2 DEF CallOK, At, LaunchPlace, AttachPlace, RelaunchPlace, ClosePlace, Local, Call
<1>4. owned \subseteq Page /\ <<c, "extra">> \in Page
  BY <1>1, <1>3 DEF Tracked, Page, PageName, Attributes
<1>5. tabs' \in [Context -> SUBSET PageName]
  BY <1>1, <1>3 DEF NewPageReturns, Types, WorldTypes, PageName
<1> HIDE DEF owned, c
<1>6. ASSUME NEW n \in {current, other}, Become(b, n) PROVE LifeInv'
  <2>1. /\ current \in Attributes /\ current.browser = o.browser /\ current.mode = o.mode
        /\ current.attached = o.attached /\ current.usingPool = o.usingPool
        /\ current.hasPool = o.hasPool /\ current.pw = o.pw /\ current.remote = o.remote
        /\ current.atexit = o.atexit /\ current.ours = o.ours
    BY <1>1, <1>4 DEF Attributes
  <2>2. /\ other \in Attributes /\ other.browser = o.browser /\ other.mode = o.mode
        /\ other.attached = o.attached /\ other.usingPool = o.usingPool
        /\ other.hasPool = o.hasPool /\ other.pw = o.pw /\ other.remote = o.remote
        /\ other.atexit = o.atexit /\ other.ours = o.ours
    BY <1>1, <1>4 DEF Attributes
  <2> HIDE DEF current, other
  <2>3. /\ n \in Attributes /\ n.browser = o.browser /\ n.mode = o.mode
        /\ n.attached = o.attached /\ n.usingPool = o.usingPool /\ n.hasPool = o.hasPool
        /\ n.pw = o.pw /\ n.remote = o.remote /\ n.atexit = o.atexit /\ n.ours = o.ours
    BY <2>1, <2>2
  <2>4. ObjBecomes(b, n)
    BY <1>1, <1>6, <2>3, BecomeEffect
  <2> QED BY <1>2, <1>5, <2>3, <2>4, PageOpens
<1>7. CASE UNCHANGED obj
  BY <1>1, <1>2, <1>5, <1>7, SameObject, PageOpens
<1>8. Become(b, current) \/ Become(b, other) \/ UNCHANGED obj
  BY DEF NewPageReturns, owned, c
<1> QED BY <1>6, <1>7, <1>8

LEMMA SwitchToPageStep ==
  ASSUME LifeInv, NEW b \in Browser, NEW name \in PageName, SwitchToPage(b, name)
  PROVE  LifeInv'
<1> DEFINE o == obj[b]
           c == o.browser
           owns == c \notin UserContext \/ <<c, name>> \in o.owned
           n == [o EXCEPT !.page = <<c, name>>, !.owns = owns]
<1>1. o \in Attributes /\ Types
  BY CallOf, Tasks
<1>2. /\ c \in Context /\ Begins(b) /\ UNCHANGED <<task, kind, maker, tabs, running, pool>>
      /\ Become(b, n)
  BY <1>1 DEF SwitchToPage, Attributes, world
<1>3. owns \in BOOLEAN /\ <<c, name>> \in Page
  BY <1>2 DEF Page
<1>4. tabs' \in [Context -> SUBSET PageName]
  BY <1>1, <1>2 DEF Types, WorldTypes
<1> HIDE DEF owns, c
<1>5. /\ n \in Attributes /\ n.browser = o.browser /\ n.mode = o.mode
      /\ n.attached = o.attached /\ n.usingPool = o.usingPool /\ n.hasPool = o.hasPool
      /\ n.pw = o.pw /\ n.remote = o.remote /\ n.atexit = o.atexit /\ n.ours = o.ours
  BY <1>1, <1>3 DEF Attributes
<1> HIDE DEF n
<1> QED BY <1>2, <1>4, <1>5, PagesStep

-----------------------------------------------------------------------------
\* close()

\* close() leaves the user's context and no other.
LEMMA LeavesTheUsers ==
  ASSUME NEW o \in Attributes, NEW m, Knows(o, m), o.browser # None
  PROVE  (Disposition(o) = "leave") <=> (o.browser \in UserContext)
<1>1. CASE o.mode = "attached_owned"
  BY <1>1 DEF Disposition, Knows
<1>2. CASE o.mode = "attached_adopted"
  BY <1>2 DEF Disposition, Knows
<1>3. CASE o.mode = "pooled"
  BY <1>3 DEF Disposition, Knows
<1>4. CASE o.mode = "launched"
  BY <1>4 DEF Disposition, Knows
<1>5. CASE o.mode = "none"
  BY <1>5 DEF Disposition, Knows
<1> QED BY <1>1, <1>2, <1>3, <1>4, <1>5 DEF Attributes, Mode

LEMMA CloseStep ==
  ASSUME LifeInv, NEW b \in Browser, Close(b)
  PROVE  LifeInv'
<1> DEFINE k == task[b]["main"]
           o == obj[b]
<1>0. Begins(b) /\ k.at = "idle"
  BY DEF Close, Begins, At
<1>1. /\ CallOK("main", k, o) /\ Knows(o, k) /\ k \in Local /\ o \in Attributes /\ Types
      /\ ~overlapped[b] /\ ~Busy(b, "hook") =>
           /\ \A u \in Task \ {"main"} : ~Busy(b, u)
           /\ Hand(o, k, Mine(b), Runs(b))
  BY <1>0, CallOf, AtRest, Tasks DEF Busy
<1>2. /\ UNCHANGED <<kind, maker, running, pool>>
      /\ Become(b, [o EXCEPT !.atexit = FALSE])
      /\ Continue(b, "main", [Idle EXCEPT !.at = "closeContext", !.call = "close"])
  BY DEF Close
<1>3. tabs' \in [Context -> SUBSET PageName]
  <2>1. CASE o.page # None /\ o.owns
    BY <1>1, <2>1, ClosePageEffect DEF Close, Attributes
  <2>2. CASE ~(o.page # None /\ o.owns)
    BY <1>1, <2>2 DEF Close, Types, WorldTypes
  <2> QED BY <2>1, <2>2
<1> DEFINE l == [Idle EXCEPT !.at = "closeContext", !.call = "close"]
           n == [o EXCEPT !.atexit = FALSE]
<1>4. /\ l \in Local /\ l.at = "closeContext" /\ l.call = "close" /\ l.ctx = None
      /\ l.pw = None /\ l.mode = "none" /\ ~l.onBrowser
  BY <1>0, <1>1, <1>2, <1>3 DEF Idle, Local, Place, Call, Mode, LaunchPlace, AttachPlace,
     RelaunchPlace, ClosePlace
<1>5. /\ n \in Attributes /\ n.browser = o.browser /\ n.mode = o.mode
      /\ n.attached = o.attached /\ n.usingPool = o.usingPool /\ n.hasPool = o.hasPool
      /\ n.pw = o.pw /\ n.remote = o.remote /\ n.atexit = FALSE /\ n.ours = o.ours
  BY <1>0, <1>1, <1>2, <1>3 DEF Attributes, Mode
<1>6. TaskBecomes(b, "main", l)
  BY <1>0, <1>1, <1>2, <1>3, <1>4, ContinueEffect, Tasks
<1>7. ObjBecomes(b, n)
  BY <1>0, <1>1, <1>2, <1>3, <1>5, BecomeEffect
<1> HIDE DEF l, n
<1>8. /\ Moves(b, "main", n, l)
      /\ ~overlapped'[b] => ~overlapped[b] /\ ~Busy(b, "hook")
  BY <1>0, <1>1, <1>2, <1>3, <1>6, <1>7, BeginMoves
<1>9. CallOK("main", l, n)
  BY <1>0, <1>1, <1>2, <1>3, <1>4, <1>5 DEF CallOK, LaunchPlace, AttachPlace,
     RelaunchPlace, ClosePlace
<1>10. Sound(b, "main", n, l)
  BY <1>0, <1>1, <1>2, <1>3, <1>4, <1>5, <1>9 DEF Sound, Knows, CallOK
<1>11. Growth(b, "main", n, l)
  BY <1>0, <1>1, <1>2, <1>3, <1>4, <1>5, NoGrowth, Tasks
<1>12. ~overlapped'[b] => Hand(n, l, Mine(b), Runs(b))
  BY <1>0, <1>1, <1>2, <1>3, <1>4, <1>5, <1>8 DEF Hand, Unset, Nothing, CallOK
<1>13. Browses(b, "main", l)
  BY <1>0, <1>1, <1>2, <1>3, <1>4 DEF Browses
<1> HIDE DEF k, o
<1> QED BY <1>0, <1>1, <1>2, <1>3, <1>4, <1>5, <1>8, <1>10, <1>11, <1>12, <1>13,
       PagesChange, Tasks DEF k, o

LEMMA CloseContextStep ==
  ASSUME LifeInv, NEW b \in Browser, CloseContext(b)
  PROVE  LifeInv'
<1> DEFINE k == task[b]["main"]
           o == obj[b]
<1>0. /\ k.at = "closeContext" /\ Busy(b, "main") /\ NoCall
      /\ UNCHANGED <<running>>
  BY DEF CloseContext, At, Busy, world
<1>1. /\ CallOK("main", k, o) /\ Knows(o, task[b]["main"]) /\ k \in Local /\ o \in Attributes /\ Types
      /\ ~overlapped[b] => /\ \A u \in Task \ {"main"} : ~Busy(b, u)
                           /\ Hand(o, k, Mine(b), Runs(b))
  BY <1>0, InCall, Tasks
<1>2. k.call = "close"
  BY <1>0, <1>1 DEF CallOK, LaunchPlace, AttachPlace, RelaunchPlace, Local, Call
<1> DEFINE does == IF o.browser = None THEN "leave" ELSE Disposition(o)
           S == IF does = "leave" THEN {} ELSE {o.browser}
<1>3. /\ CloseContexts(S) /\ Goto(b, "main", "closeRemote")
      /\ Become(b, [o EXCEPT !.page = None])
      /\ pool' = pool \/ \E c : pool' = Released(c)
  BY DEF CloseContext
<1>4. S \in SUBSET Context /\ o.browser \in S \cup UserContext \cup {None}
  BY <1>1, LeavesTheUsers DEF Attributes
<1>5. Mine(b) \cap UserContext = {} /\ None \notin Mine(b)
  BY <1>1, NoNone
<1> HIDE DEF S, does
<1> DEFINE l == Moved(k, "closeRemote")
           n == [o EXCEPT !.page = None]
<1>6. /\ l \in Local /\ l.at = "closeRemote" /\ l.call = k.call /\ l.ctx = k.ctx
      /\ l.pw = k.pw /\ l.mode = k.mode /\ l.onBrowser = k.onBrowser
  BY <1>1, MovedLocal DEF Place, LaunchPlace, AttachPlace, RelaunchPlace, ClosePlace
<1>7. /\ n \in Attributes /\ n.browser = o.browser /\ n.mode = o.mode
      /\ n.attached = o.attached /\ n.usingPool = o.usingPool /\ n.hasPool = o.hasPool
      /\ n.pw = o.pw /\ n.remote = o.remote /\ n.atexit = o.atexit /\ n.ours = o.ours
  BY <1>0, <1>1, <1>2, <1>3, <1>4, <1>5 DEF Attributes, Mode
<1>8. TaskBecomes(b, "main", l)
  BY <1>0, <1>1, <1>2, <1>3, <1>4, <1>5, GotoEffect, Tasks DEF Place, LaunchPlace,
     AttachPlace, RelaunchPlace, ClosePlace
<1>9. ObjBecomes(b, n)
  BY <1>0, <1>1, <1>2, <1>3, <1>4, <1>5, <1>7, BecomeEffect
<1> HIDE DEF l, n
<1>10. Moves(b, "main", n, l) /\ overlapped'[b] = overlapped[b]
  BY <1>0, <1>1, <1>2, <1>3, <1>4, <1>5, <1>8, <1>9, NoCallMoves, Tasks
<1>11. CallOK("main", l, n)
  BY <1>0, <1>1, <1>2, <1>3, <1>4, <1>5, <1>6, <1>7 DEF CallOK, LaunchPlace, AttachPlace,
     RelaunchPlace, ClosePlace
<1>12. Sound(b, "main", n, l)
  BY <1>0, <1>1, <1>2, <1>3, <1>4, <1>5, <1>6, <1>7, <1>11 DEF Sound, Knows, CallOK
<1>13. Growth(b, "main", n, l)
  BY <1>0, <1>1, <1>2, <1>3, <1>4, <1>5, <1>6, <1>7, NoGrowth, Tasks
<1>14. ~overlapped[b] => Hand(n, l, Mine(b) \ S, Runs(b))
  BY <1>0, <1>1, <1>2, <1>3, <1>4, <1>5, <1>6, <1>7 DEF Hand, Unset, Nothing, CallOK
<1>15. Browses(b, "main", l)
  BY <1>0, <1>1, <1>2, <1>3, <1>4, <1>5, <1>6 DEF Browses
<1> HIDE DEF k, o
<1> QED BY <1>0, <1>1, <1>2, <1>3, <1>4, <1>5, <1>6, <1>7, <1>10, <1>12, <1>13, <1>14,
       <1>15, ContextsClose, Tasks DEF k, o

LEMMA CloseRemoteStep ==
  ASSUME LifeInv, NEW b \in Browser, CloseRemote(b)
  PROVE  LifeInv'
<1> DEFINE k == task[b]["main"]
           o == obj[b]
<1>0. /\ k.at = "closeRemote" /\ Busy(b, "main") /\ NoCall
      /\ UNCHANGED <<kind, maker, tabs, running, pool>>
  BY DEF CloseRemote, At, Busy, world
<1>1. /\ CallOK("main", k, o) /\ Knows(o, task[b]["main"]) /\ k \in Local /\ o \in Attributes /\ Types
      /\ ~overlapped[b] => /\ \A u \in Task \ {"main"} : ~Busy(b, u)
                           /\ Hand(o, k, Mine(b), Runs(b))
  BY <1>0, InCall, Tasks
<1>2. k.call = "close"
  BY <1>0, <1>1 DEF CallOK, LaunchPlace, AttachPlace, RelaunchPlace, Local, Call
<1>3. /\ Become(b, [o EXCEPT !.browser = None]) /\ Goto(b, "main", "closeDriver")
      /\ UserContext \subseteq Context /\ None \notin UserContext
  BY ConstantsAssumption DEF CloseRemote
<1> DEFINE l == Moved(k, "closeDriver")
           n == [o EXCEPT !.browser = None]
<1>4. /\ l \in Local /\ l.at = "closeDriver" /\ l.call = k.call /\ l.ctx = k.ctx
      /\ l.pw = k.pw /\ l.mode = k.mode /\ l.onBrowser = k.onBrowser
  BY <1>1, MovedLocal DEF Place, LaunchPlace, AttachPlace, RelaunchPlace, ClosePlace
<1>5. /\ n \in Attributes /\ n.browser = None /\ n.mode = o.mode /\ n.attached = o.attached
      /\ n.usingPool = o.usingPool /\ n.hasPool = o.hasPool /\ n.pw = o.pw
      /\ n.remote = o.remote /\ n.atexit = o.atexit /\ n.ours = o.ours
  BY <1>0, <1>1, <1>2, <1>3 DEF Attributes, Mode
<1>6. TaskBecomes(b, "main", l)
  BY <1>0, <1>1, <1>2, <1>3, GotoEffect, Tasks DEF Place, LaunchPlace, AttachPlace,
     RelaunchPlace, ClosePlace
<1>7. ObjBecomes(b, n)
  BY <1>0, <1>1, <1>2, <1>3, <1>5, BecomeEffect
<1> HIDE DEF l, n
<1>8. Moves(b, "main", n, l) /\ overlapped'[b] = overlapped[b]
  BY <1>0, <1>1, <1>2, <1>3, <1>6, <1>7, NoCallMoves, Tasks
<1>9. CallOK("main", l, n)
  BY <1>0, <1>1, <1>2, <1>3, <1>4, <1>5 DEF CallOK, LaunchPlace, AttachPlace,
     RelaunchPlace, ClosePlace
<1>10. Sound(b, "main", n, l)
  BY <1>0, <1>1, <1>2, <1>3, <1>4, <1>5, <1>9 DEF Sound, Knows, CallOK
<1>11. Growth(b, "main", n, l)
  BY <1>0, <1>1, <1>2, <1>3, <1>4, <1>5, NoGrowth, Tasks
<1>12. ~overlapped[b] => Hand(n, l, Mine(b), Runs(b))
  BY <1>0, <1>1, <1>2, <1>3, <1>4, <1>5 DEF Hand, Unset, Nothing, CallOK
<1>13. Browses(b, "main", l)
  BY <1>0, <1>1, <1>2, <1>3, <1>4 DEF Browses
<1> HIDE DEF k, o
<1> QED BY <1>0, <1>1, <1>2, <1>3, <1>4, <1>5, <1>8, <1>10, <1>11, <1>12, <1>13,
       NothingChanges, Tasks DEF k, o

LEMMA CloseReturnsStep ==
  ASSUME LifeInv, NEW b \in Browser, CloseReturns(b)
  PROVE  LifeInv'
<1> DEFINE k == task[b]["main"]
           o == obj[b]
<1>0. /\ k.at = "closeDriver" /\ Busy(b, "main") /\ NoCall
      /\ UNCHANGED <<kind, maker, tabs, pool>>
  BY DEF CloseReturns, At, Busy, world
<1>1. /\ CallOK("main", k, o) /\ Knows(o, task[b]["main"]) /\ k \in Local /\ o \in Attributes /\ Types
      /\ ~overlapped[b] => /\ \A u \in Task \ {"main"} : ~Busy(b, u)
                           /\ Hand(o, k, Mine(b), Runs(b))
  BY <1>0, InCall, Tasks
<1>2. k.call = "close"
  BY <1>0, <1>1 DEF CallOK, LaunchPlace, AttachPlace, RelaunchPlace, Local, Call
<1>3. /\ Become(b, [Clean EXCEPT !.atexit = o.atexit, !.hasPool = o.hasPool])
      /\ Stop(o.pw) /\ Return(b, "main")
      /\ UserContext \subseteq Context /\ None \notin UserContext
  BY ConstantsAssumption DEF CloseReturns
<1> DEFINE l == Rest("main")
           n == [Clean EXCEPT !.atexit = o.atexit, !.hasPool = o.hasPool]
<1>4. /\ l \in Local /\ l.at \in {"idle", "exec"} /\ l.call = "none" /\ l.ctx = None
      /\ l.pw = None /\ ~l.onBrowser /\ l.at = "idle"
  BY RestLocal, Tasks
<1>5. /\ n \in Attributes /\ n.browser = None /\ n.mode = "none" /\ ~n.attached
      /\ ~n.usingPool /\ n.hasPool = o.hasPool /\ n.pw = None /\ ~n.remote
      /\ n.atexit = o.atexit /\ ~n.ours
  BY <1>0, <1>1, <1>2, <1>3 DEF Clean, Attributes, Mode
<1>6. TaskBecomes(b, "main", l)
  BY <1>0, <1>1, <1>2, <1>3, ReturnEffect, Tasks
<1>7. ObjBecomes(b, n)
  BY <1>0, <1>1, <1>2, <1>3, <1>5, BecomeEffect
<1> HIDE DEF l, n
<1>8. Moves(b, "main", n, l) /\ overlapped'[b] = overlapped[b]
  BY <1>0, <1>1, <1>2, <1>3, <1>6, <1>7, NoCallMoves, Tasks
<1>9. CallOK("main", l, n)
  BY <1>0, <1>1, <1>2, <1>3, <1>4, <1>5 DEF CallOK, LaunchPlace, AttachPlace,
     RelaunchPlace, ClosePlace
<1>10. Sound(b, "main", n, l)
  BY <1>0, <1>1, <1>2, <1>3, <1>4, <1>5, <1>9 DEF Sound, Knows, CallOK
<1>11. Growth(b, "main", n, l)
  BY <1>0, <1>1, <1>2, <1>3, <1>4, <1>5, NoGrowth, Tasks
<1>12. ~overlapped[b] => Hand(n, l, Mine(b), Runs(b) \ {o.pw})
  BY <1>0, <1>1, <1>2, <1>3, <1>4, <1>5 DEF Hand, Unset, Nothing, CallOK
<1>13. Browses(b, "main", l)
  BY <1>0, <1>1, <1>2, <1>3, <1>4 DEF Browses
<1> HIDE DEF k, o
<1> QED BY <1>0, <1>1, <1>2, <1>3, <1>4, <1>5, <1>8, <1>10, <1>11, <1>12, <1>13,
       DriverStops, Tasks DEF k, o

-----------------------------------------------------------------------------
\* shutdown() is nobody's call.

LEMMA ShutdownBeginsStep ==
  ASSUME LifeInv, ShutdownBegins
  PROVE  LifeInv'
<1>0. /\ Types /\ pool.lock = <<>> /\ pool.up /\ CloseContexts(pool.active)
      /\ pool' = [pool EXCEPT !.lock = <<None, "shutdown">>, !.active = {}]
      /\ UNCHANGED <<obj, task, running, overlapped>>
  BY DEF LifeInv, ShutdownBegins, NoCall
<1>1. /\ pool' \in [up : BOOLEAN, headless : {"on", "off"},
                    lock : {<<>>, <<None, "shutdown">>} \cup (Browser \X Task),
                    active : SUBSET Context]
      /\ pool'.up /\ pool'.headless = pool.headless
  BY <1>0 DEF Types, WorldTypes
<1>2. /\ kind' \in [Context -> Kind] /\ tabs' \in [Context -> SUBSET PageName]
      /\ maker' = maker
      /\ \A a \in Browser : Mine(a)' = Mine(a) \ pool.active
  <2>1. pool.active \in SUBSET Context
    BY <1>0 DEF Types, WorldTypes
  <2> QED BY <1>0, <2>1, Closing
<1>3. \A a \in Browser : Runs(a)' = Runs(a)
  BY <1>0, SameDrivers
<1>4. Types'
  BY <1>0, <1>1, <1>2 DEF Types, WorldTypes
<1>5. Apart'
  <2>1. Apart
    BY DEF LifeInv
  <2>2. UNCHANGED <<obj, task>>
    BY <1>0
  <2> QED BY <2>1, <2>2 DEF Apart, Contexts, Drivers
<1>6. PoolOK'
  <2>1. \A a \in Browser, t \in Task : task[a][t].at # "poolStart"
    BY <1>0, Locks DEF LifeInv, PoolOK, At
  <2>2. \A a \in Browser, t \in Task :
          task[a][t].onBrowser /\ task[a][t].call = "launch"
            => Ask[a] \in {"any", pool.headless}
    BY DEF LifeInv, PoolOK
  <2> QED BY <1>0, <1>1, <2>1, <2>2 DEF PoolOK, At
<1>7. ASSUME NEW a \in Browser PROVE InstanceOK(a)'
  <2>1. Mine(a)' \subseteq Mine(a) /\ Runs(a)' = Runs(a)
    BY <1>2, <1>3
  <2>2. obj'[a] = obj[a] /\ task'[a] = task[a] /\ overlapped'[a] = overlapped[a]
    BY <1>0
  <2> QED BY <1>0, <2>1, <2>2, OtherInstance DEF LifeInv
<1> QED BY <1>4, <1>5, <1>6, <1>7 DEF LifeInv

\* A call that has lost the pool's browser is as it was, but for that.
LEMMA OffBrowser ==
  ASSUME NEW k \in Local
  PROVE  LET l == [k EXCEPT !.onBrowser = FALSE]
         IN  /\ l \in Local /\ l.at = k.at /\ l.call = k.call /\ l.ctx = k.ctx
             /\ l.pw = k.pw /\ l.mode = k.mode /\ ~l.onBrowser
BY DEF Local

LEMMA ShutdownEndsStep ==
  ASSUME LifeInv, ShutdownEnds
  PROVE  LifeInv'
<1> DEFINE S == {c \in Context : kind[c] = "pool"}
<1>0. /\ Types /\ pool.lock = <<None, "shutdown">> /\ CloseContexts(S)
      /\ pool' = [pool EXCEPT !.up = FALSE, !.headless = "on", !.lock = <<>>]
      /\ task' = [a \in Browser |-> [t \in Task |-> [task[a][t] EXCEPT !.onBrowser = FALSE]]]
      /\ UNCHANGED <<obj, running, overlapped>>
  BY DEF LifeInv, ShutdownEnds, NoCall
<1>1. /\ pool' \in [up : BOOLEAN, headless : {"on", "off"},
                    lock : {<<>>, <<None, "shutdown">>} \cup (Browser \X Task),
                    active : SUBSET Context]
      /\ pool'.lock = <<>>
  BY <1>0 DEF Types, WorldTypes
<1>2. /\ kind' \in [Context -> Kind] /\ tabs' \in [Context -> SUBSET PageName]
      /\ maker' = maker
      /\ \A a \in Browser : Mine(a)' = Mine(a) \ S
  <2>1. S \in SUBSET Context
    OBVIOUS
  <2> HIDE DEF S
  <2> QED BY <1>0, <2>1, Closing
<1> HIDE DEF S
<1>3. \A a \in Browser : Runs(a)' = Runs(a)
  BY <1>0, SameDrivers
<1>4. \A a \in Browser, t \in Task :
        /\ task'[a][t] \in Local /\ task'[a][t].at = task[a][t].at
        /\ task'[a][t].call = task[a][t].call /\ task'[a][t].ctx = task[a][t].ctx
        /\ task'[a][t].pw = task[a][t].pw /\ task'[a][t].mode = task[a][t].mode
        /\ ~task'[a][t].onBrowser
  <2> SUFFICES ASSUME NEW a \in Browser, NEW t \in Task
               PROVE  /\ task'[a][t] \in Local /\ task'[a][t].at = task[a][t].at
                      /\ task'[a][t].call = task[a][t].call /\ task'[a][t].ctx = task[a][t].ctx
                      /\ task'[a][t].pw = task[a][t].pw /\ task'[a][t].mode = task[a][t].mode
                      /\ ~task'[a][t].onBrowser
    OBVIOUS
  <2>1. task'[a][t] = [task[a][t] EXCEPT !.onBrowser = FALSE] /\ task[a][t] \in Local
    BY <1>0, LocalOf
  <2> QED BY <2>1, OffBrowser
<1>5. task' \in [Browser -> [Task -> Local]]
  <2>1. \A a \in Browser : task'[a] \in [Task -> Local]
    BY <1>0, <1>4
  <2> QED BY <1>0, <2>1
<1>6. Types'
  BY <1>0, <1>1, <1>2, <1>5 DEF Types, WorldTypes
<1>7. Apart'
  <2>1. ASSUME NEW a \in Browser
        PROVE  Contexts(a)' = Contexts(a) /\ Drivers(a)' = Drivers(a)
    BY <1>0, <1>4 DEF Contexts, Drivers
  <2>2. Apart
    BY DEF LifeInv
  <2>3. \A a, b \in Browser : a # b => /\ Contexts(a)' \cap Contexts(b)' = {}
                                       /\ Drivers(a)' \cap Drivers(b)' = {}
    BY <2>1, <2>2 DEF Apart
  <2> QED BY <2>3 DEF Apart
<1>8. PoolOK'
  <2>1. \A a \in Browser, t \in Task : task[a][t].at # "poolStart"
    BY <1>0, Locks DEF LifeInv, PoolOK, At
  <2> QED BY <1>1, <1>4, <2>1, Locks DEF PoolOK, At
<1>9. ASSUME NEW a \in Browser PROVE InstanceOK(a)'
  <2>1. Knows(obj[a], task[a]["main"])'
    BY <1>0, <1>4, Tasks DEF LifeInv, InstanceOK, Knows
  <2>2. ASSUME NEW t \in Task PROVE CallOK(t, task[a][t], obj[a])'
    <3>1. CallOK(t, task[a][t], obj[a])
      BY DEF LifeInv, InstanceOK
    <3> QED BY <1>0, <1>4, <3>1 DEF CallOK
  <2>3. ASSUME ~overlapped'[a] PROVE InHand(a)'
    <3>1. PICK t \in Task : /\ \A u \in Task \ {t} : ~Busy(a, u)
                            /\ Hand(obj[a], task[a][t], Mine(a), Runs(a))
      BY <1>0, <2>3 DEF LifeInv, InstanceOK, InHand
    <3>2. Hand(obj[a], task[a][t], Mine(a)', Runs(a)')
      BY <1>0, <1>2, <1>3, <3>1, LocalOf, FewerInHand
    <3>3. Hand(obj[a], task[a][t], Mine(a), Runs(a))'
      BY <1>0, <1>4, <3>2 DEF Hand
    <3>4. \A u \in Task \ {t} : ~Busy(a, u)'
      BY <1>4, <3>1 DEF Busy
    <3> QED BY <3>3, <3>4 DEF InHand
  <2> QED BY <2>1, <2>2, <2>3 DEF InstanceOK
<1> QED BY <1>6, <1>7, <1>8, <1>9 DEF LifeInv

-----------------------------------------------------------------------------
\* The invariant.

LEMMA LifeInitially ==
  ASSUME Init
  PROVE  LifeInv
<1>1. Clean \in Attributes /\ Idle \in Local
  BY DEF Clean, Idle, Attributes, Local, Place, Call, Mode
<1>2. Types
  <2>1. obj \in [Browser -> Attributes] /\ task \in [Browser -> [Task -> Local]]
    BY <1>1 DEF Init
  <2>2. overlapped \in [Browser -> BOOLEAN]
    BY DEF Init
  <2>3. kind \in [Context -> Kind] /\ maker \in [Context -> Browser \cup {None}]
    BY DEF Init, Kind
  <2>4. tabs \in [Context -> SUBSET PageName] /\ running \in [Driver -> Browser \cup {None}]
    BY DEF Init, PageName
  <2>5. pool \in [up : BOOLEAN, headless : {"on", "off"},
                  lock : {<<>>, <<None, "shutdown">>} \cup (Browser \X Task),
                  active : SUBSET Context]
    BY DEF Init
  <2>6. \A c \in UserContext : maker[c] = None
    BY ConstantsAssumption DEF Init
  <2> QED BY <2>1, <2>2, <2>3, <2>4, <2>5, <2>6 DEF Types, WorldTypes
<1>3. \A a \in Browser : /\ obj[a] = Clean /\ \A t \in Task : task[a][t] = Idle
  BY DEF Init
<1>4. /\ Clean.browser = None /\ Clean.pw = None /\ Clean.mode = "none" /\ ~Clean.attached
      /\ ~Clean.usingPool /\ ~Clean.remote
  BY DEF Clean
<1>5. /\ Idle.at = "idle" /\ Idle.call = "none" /\ Idle.ctx = None /\ Idle.pw = None
      /\ ~Idle.onBrowser
  BY DEF Idle
<1>6. Apart
  BY <1>3, <1>4, <1>5 DEF Apart, Contexts, Drivers
<1>7. PoolOK
  BY <1>3, <1>5, Locks DEF PoolOK, At, Init
<1>8. ASSUME NEW a \in Browser PROVE InstanceOK(a)
  <2>1. Mine(a) = {} /\ Runs(a) = {}
    BY ConstantsAssumption DEF Mine, Runs, Init
  <2>2. Knows(obj[a], task[a]["main"])
    BY <1>3, <1>4, <1>5, ConstantsAssumption, Tasks DEF Knows
  <2>3. \A t \in Task : CallOK(t, task[a][t], obj[a])
    BY <1>3, <1>5 DEF CallOK
  <2>4. Hand(Clean, Idle, {}, {})
    BY <1>4, <1>5 DEF Hand, Unset, Nothing
  <2>5. InHand(a)
    BY <1>3, <1>5, <2>1, <2>4, Tasks DEF InHand, Busy
  <2> QED BY <2>2, <2>3, <2>5 DEF InstanceOK
<1> QED BY <1>2, <1>6, <1>7, <1>8 DEF LifeInv

LEMMA UnchangedStep ==
  ASSUME LifeInv, UNCHANGED vars
  PROVE  LifeInv'
<1>0. UNCHANGED <<obj, task, kind, maker, tabs, running, pool, overlapped>>
  BY DEF vars, world
<1>1. Types' /\ Apart' /\ PoolOK'
  <2>1. Types /\ Apart /\ PoolOK
    BY DEF LifeInv
  <2>2. Types'
    BY <1>0, <2>1 DEF Types, WorldTypes
  <2>3. Apart'
    BY <1>0, <2>1 DEF Apart, Contexts, Drivers
  <2>4. PoolOK'
    BY <1>0, <2>1 DEF PoolOK, At
  <2> QED BY <2>2, <2>3, <2>4
<1>2. ASSUME NEW a \in Browser PROVE InstanceOK(a)'
  <2>1. Mine(a)' = Mine(a) /\ Runs(a)' = Runs(a)
    BY <1>0, SameContexts, SameDrivers
  <2> QED BY <1>0, <2>1, OtherInstance DEF LifeInv
<1> QED BY <1>1, <1>2 DEF LifeInv

LEMMA LifeStep == LifeInv /\ [Next]_vars => LifeInv'
<1> SUFFICES ASSUME LifeInv, [Next]_vars PROVE LifeInv'
  OBVIOUS
<1>1. ASSUME NEW b \in Browser, CallBegins(b) PROVE LifeInv'
  <2>1. CASE \E way \in Ways[b] : Launch(b, way) \/ Attach(b, way)
    BY <2>1, LaunchStep, AttachStep
  <2>2. CASE Relaunch(b, "main")
    BY <2>2, RelaunchStartStep, Tasks
  <2>3. CASE Close(b)
    BY <2>3, CloseStep
  <2>4. CASE NewPage(b, TRUE) \/ NewPage(b, FALSE)
    BY <2>4, NewPageStep
  <2>5. CASE \E name \in PageName : SwitchToPage(b, name)
    BY <2>5, SwitchToPageStep
  <2> QED BY <1>1, <2>1, <2>2, <2>3, <2>4, <2>5 DEF CallBegins
<1>2. ASSUME NEW b \in Browser, Relaunch(b, "hook") PROVE LifeInv'
  BY <1>2, RelaunchStartStep, Tasks
<1>3. ASSUME NEW b \in Browser, NEW t \in Task, TaskStep(b, t) PROVE LifeInv'
  <2>1. CASE EnsureRunning(b, t)
    BY <2>1, EnsureRunningStep
  <2>2. CASE EnsureStarts(b, t)
    BY <2>2, EnsureStartsStep
  <2>3. CASE PoolStarted(b, t)
    BY <2>3, PoolStartedStep
  <2>4. CASE PoolContext(b, t)
    BY <2>4, PoolContextStep
  <2>5. CASE PersistentContext(b, t)
    BY <2>5, PersistentContextStep
  <2>6. CASE RelaunchStep(b, t)
    BY <2>6, RelaunchClosesStep, RelaunchForgetsStep, RelaunchSwapsStep,
       RelaunchRollsBackStep,
       RelaunchRaisesStep DEF RelaunchStep
  <2>7. CASE StartDriver(b) \/ LaunchPage(b) \/ LaunchReturns(b)
    BY <2>7, StartDriverStep, LaunchPageStep, LaunchReturnsStep
  <2>8. CASE Connected(b) \/ ConnectFails(b) \/ CdpContext(b) \/ AttachPage(b)
    BY <2>8, ConnectedStep, ConnectFailsStep, CdpContextStep, AttachPageStep
  <2>11. CASE NewPageReturns(b)
    BY <2>11, NewPageReturnsStep
  <2>9. CASE AttachReturns(b) \/ AttachUndo(b) \/ AttachUndone(b)
    BY <2>9, AttachReturnsStep, AttachUndoStep, AttachUndoneStep
  <2>10. CASE CloseContext(b) \/ CloseRemote(b) \/ CloseReturns(b)
    BY <2>10, CloseContextStep, CloseRemoteStep, CloseReturnsStep
  <2> QED BY <1>3, <2>1, <2>2, <2>3, <2>4, <2>5, <2>6, <2>7, <2>8, <2>9, <2>10, <2>11
         DEF TaskStep
<1>4. CASE ShutdownBegins
  BY <1>4, ShutdownBeginsStep
<1>5. CASE ShutdownEnds
  BY <1>5, ShutdownEndsStep
<1>6. CASE UNCHANGED vars
  BY <1>6, UnchangedStep
<1> QED BY <1>1, <1>2, <1>3, <1>4, <1>5, <1>6 DEF Next

LEMMA LifeInvHolds == Spec => []LifeInv
BY LifeInitially, LifeStep, PTL DEF Spec

\* Between the calls of an instance that no relaunch has overlapped, everything it
\* opened and that is still open is in its hands, and whatever it holds will be
\* closed at exit.
THEOREM NothingIsEverLost == Spec => []LifecycleInvariant
<1>1. LifeInv => LifecycleInvariant
  <2> SUFFICES ASSUME LifeInv PROVE LifecycleInvariant
    OBVIOUS
  <2>1. TypeOK
    <3>1. \A a \in Browser : obj[a] \in Attributes /\ \A t \in Task : task[a][t] \in Local
      BY DEF LifeInv, Types
    <3>2. ASSUME NEW a \in Browser
          PROVE  /\ obj[a].browser \in Context \cup {None}
                 /\ obj[a].page \in Page \cup {None}
                 /\ obj[a].owned \subseteq Page
                 /\ obj[a].mode \in Mode
                 /\ obj[a].pw \in Driver \cup {None}
                 /\ obj[a].recovery \in {"none", "plain", "relaunches"}
                 /\ \A x \in {"owns", "usingPool", "hasPool", "attached", "ours", "remote",
                              "atexit"} : obj[a][x] \in BOOLEAN
                 /\ \A t \in Task : task[a][t].ctx \in Context \cup {None}
      BY <3>1 DEF Attributes, Local
    <3>3. /\ kind \in [Context -> {"none", "user", "persistent", "pool", "cdp"}]
          /\ maker \in [Context -> Browser \cup {None}]
          /\ tabs \in [Context -> SUBSET PageName]
          /\ running \in [Driver -> Browser \cup {None}]
          /\ pool.active \subseteq Context
      BY DEF LifeInv, Types, WorldTypes, Kind
    <3> QED BY <3>2, <3>3 DEF TypeOK
  <2>2. ASSUME NEW a \in Browser, Alone(a)
        PROVE  /\ Mine(a) \subseteq {obj[a].browser} /\ Runs(a) \subseteq {obj[a].pw}
               /\ obj[a].pw # None => obj[a].pw \in Runs(a)
               /\ obj[a].browser # None \/ obj[a].pw # None \/ obj[a].remote => obj[a].atexit
    <3>1. ~Busy(a, "main") /\ ~Busy(a, "hook") /\ ~overlapped[a]
      BY <2>2 DEF Alone, Resting
    <3>2. Hand(obj[a], task[a]["main"], Mine(a), Runs(a))
      BY <3>1, AtRest, Tasks
    <3>3. task[a]["main"].call = "none"
      BY <3>1, CallOf, Tasks DEF CallOK, Busy
    <3> QED BY <3>2, <3>3 DEF Hand
  <2>3. NothingIsLost
    BY <2>2 DEF NothingIsLost, Mine, Runs
  <2>4. DriverRuns
    BY <2>2 DEF DriverRuns, Runs
  <2>5. HeldIsClosedAtExit
    BY <2>2 DEF HeldIsClosedAtExit
  <2> QED BY <2>1, <2>3, <2>4, <2>5 DEF LifecycleInvariant
<1> QED BY <1>1, LifeInvHolds, PTL

\* Whatever calls came before, close() would leave the user's context and no other.
THEOREM CloseAlwaysKnows == Spec => []CloseKnowsItsContext
<1>1. LifeInv => CloseKnowsItsContext
  <2> SUFFICES ASSUME LifeInv, NEW a \in Browser, obj[a].browser # None
               PROVE  (Disposition(obj[a]) = "leave") <=> (obj[a].browser \in UserContext)
    BY DEF CloseKnowsItsContext
  <2>1. Knows(obj[a], task[a]["main"]) /\ obj[a] \in Attributes
    BY CallOf, Tasks
  <2> QED BY <2>1, LeavesTheUsers
<1> QED BY <1>1, LifeInvHolds, PTL

-----------------------------------------------------------------------------
\* The shared pool.

\* No context is closed.
NoneClosed == \A c \in Context : kind'[c] = "none" => kind[c] = "none"

\* A call of b closes contexts, all of them its own.
ClosesOwn(b) ==
  /\ task'[b] # task[b]
  /\ \A c \in Context : kind[c] # "none" /\ kind'[c] = "none" => c \in Contexts(b) \cup UserContext

LEMMA OpeningCloses ==
  ASSUME Types, NEW c \in Context, NEW as \in Kind \ {"none"}, NEW b, Open(c, as, b)
  PROVE  NoneClosed
BY DEF Types, WorldTypes, Open, NoneClosed

LEMMA ClosingOwn ==
  ASSUME Types, NEW b \in Browser, NEW t \in Task, NEW c, CloseContexts({c} \ {None}),
         c \in Contexts(b) \cup UserContext \cup {None},
         NEW place \in Place, Goto(b, t, place), task[b][t].at # place
  PROVE  ClosesOwn(b)
<1>1. task'[b][t].at = place
  BY GotoEffect, MovedLocal, LocalOf DEF TaskBecomes
<1>2. \A e \in Context : kind[e] # "none" /\ kind'[e] = "none" => e = c /\ e # None
  BY DEF CloseContexts, ClosedKind
<1> QED BY <1>1, <1>2 DEF ClosesOwn

LEMMA ClosedContexts ==
  ASSUME LifeInv, [Next]_vars
  PROVE  \/ NoneClosed
         \/ \E b \in Browser : ClosesOwn(b)
         \/ pool'.lock = <<None, "shutdown">> \/ pool.up # pool'.up
<1>0. Types /\ \A b \in Browser, t \in Task : task[b][t] \in Local
  BY LocalOf DEF LifeInv
<1>1. ASSUME UNCHANGED kind PROVE NoneClosed
  BY <1>1 DEF NoneClosed
<1>2. ASSUME NEW b \in Browser, CallBegins(b) \/ Relaunch(b, "hook") PROVE NoneClosed
  <2>1. UNCHANGED kind
    BY <1>2 DEF CallBegins, Launch, Attach, Relaunch, Close, NewPage, SwitchToPage, world
  <2> QED BY <1>1, <2>1
<1>3. ASSUME NEW b \in Browser, NEW t \in Task, TaskStep(b, t)
      PROVE  NoneClosed \/ ClosesOwn(b)
  <2>1. CASE EnsureRunning(b, t) \/ EnsureStarts(b, t) \/ PoolStarted(b, t)
    BY <1>1, <2>1 DEF EnsureRunning, EnsureStarts, PoolStarted, world
  <2>2. CASE PoolContext(b, t)
    BY <1>0, <1>1, <2>2, OpeningCloses DEF PoolContext, Kind
  <2>3. CASE PersistentContext(b, t)
    BY <1>0, <1>1, <2>3, OpeningCloses DEF PersistentContext, Kind
  <2>4. CASE RelaunchCloses(b, t)
    <3>1. /\ CloseContexts({obj[b].browser} \ {None}) /\ Goto(b, t, "forget")
          /\ task[b][t].at = "release" /\ "forget" \in Place
      BY <2>4 DEF RelaunchCloses, At, Place, RelaunchPlace
    <3> QED BY <1>0, <3>1, OwnRefs, ClosingOwn
  <2>5. CASE RelaunchRollsBack(b, t)
    <3>1. /\ CloseContexts({task[b][t].ctx} \ {None}) /\ Goto(b, t, "dead")
          /\ task[b][t].at = "rollback" /\ "dead" \in Place
      BY <2>5 DEF RelaunchRollsBack, At, Place, RelaunchPlace
    <3> QED BY <1>0, <3>1, OwnRefs, ClosingOwn
  <2>6. CASE RelaunchForgets(b, t) \/ RelaunchSwaps(b, t) \/ RelaunchRaises(b, t)
    BY <1>1, <2>6 DEF RelaunchForgets, RelaunchSwaps, RelaunchRaises, world
  <2>7. CASE StartDriver(b) \/ LaunchPage(b) \/ LaunchReturns(b) \/ Connected(b) \/ ConnectFails(b)
    BY <1>1, <2>7 DEF StartDriver, LaunchPage, LaunchReturns, Connected, ConnectFails, world
  <2>8. CASE CdpContext(b)
    BY <1>0, <1>1, <2>8, OpeningCloses DEF CdpContext, Kind
  <2>9. CASE AttachPage(b) \/ AttachReturns(b) \/ AttachUndone(b) \/ NewPageReturns(b)
    BY <1>1, <2>9 DEF AttachPage, AttachReturns, AttachUndone, NewPageReturns, world
  <2>10. CASE AttachUndo(b)
    <3>1. /\ Goto(b, "main", "undone") /\ task[b]["main"].at = "undo" /\ "undone" \in Place
          /\ CloseContexts(IF obj[b].ours THEN {obj[b].browser} \ {None} ELSE {})
      BY <2>10 DEF AttachUndo, At, Place, AttachPlace
    <3>2. PICK c \in {obj[b].browser, None} : CloseContexts({c} \ {None})
      <4>1. {None} \ {None} = {}
        OBVIOUS
      <4> QED BY <3>1, <4>1
    <3> QED BY <1>0, <3>1, <3>2, OwnRefs, ClosingOwn, Tasks
  <2>11. CASE CloseContext(b)
    <3> DEFINE S == IF (IF obj[b].browser = None THEN "leave" ELSE Disposition(obj[b])) = "leave"
                    THEN {} ELSE {obj[b].browser}
    <3>1. /\ Goto(b, "main", "closeRemote") /\ task[b]["main"].at = "closeContext"
          /\ "closeRemote" \in Place /\ CloseContexts(S)
      BY <2>11 DEF CloseContext, At, Place, ClosePlace
    <3>2. PICK c \in {obj[b].browser, None} : S = {c} \ {None}
      <4>1. CASE S = {}
        <5>1. S = {None} \ {None}
          BY <4>1
        <5> QED BY <5>1
      <4>2. CASE S # {}
        <5>1. S = {obj[b].browser} \ {None}
          BY <4>2
        <5> QED BY <5>1
      <4> QED BY <4>1, <4>2
    <3> HIDE DEF S
    <3> QED BY <1>0, <3>1, <3>2, OwnRefs, ClosingOwn, Tasks
  <2>12. CASE CloseRemote(b) \/ CloseReturns(b)
    BY <1>1, <2>12 DEF CloseRemote, CloseReturns, world
  <2> QED BY <1>3, <2>1, <2>2, <2>3, <2>4, <2>5, <2>6, <2>7, <2>8, <2>9, <2>10, <2>11, <2>12
          DEF TaskStep, RelaunchStep
<1>4. ASSUME ShutdownBegins PROVE pool'.lock = <<None, "shutdown">>
  BY <1>0, <1>4 DEF ShutdownBegins, Types, WorldTypes
<1>5. ASSUME ShutdownEnds PROVE pool.up # pool'.up
  <2>1. pool.up
    BY <1>5 DEF ShutdownEnds, LifeInv, PoolOK
  <2>2. ~pool'.up
    BY <1>0, <1>5 DEF ShutdownEnds, Types, WorldTypes
  <2> QED BY <2>1, <2>2
<1>6. CASE UNCHANGED vars
  BY <1>1, <1>6 DEF vars, world
<1> QED BY <1>2, <1>3, <1>4, <1>5, <1>6 DEF Next

LEMMA OthersKeepContexts == LifeInv /\ [Next]_vars => OthersKeepTheirContexts
<1> SUFFICES ASSUME LifeInv, [Next]_vars, NEW a \in Browser,
                    obj[a].browser \notin UserContext \cup {None},
                    kind[obj[a].browser] # "none", kind'[obj[a].browser] = "none"
             PROVE  task'[a] # task[a] \/ pool'.lock = <<None, "shutdown">> \/ pool.up # pool'.up
  BY DEF OthersKeepTheirContexts
<1>1. obj[a].browser \in Context /\ obj[a].browser \in Contexts(a)
  BY CallOf, Tasks DEF Attributes, Contexts
<1>2. CASE NoneClosed
  BY <1>1, <1>2 DEF NoneClosed
<1>3. ASSUME NEW b \in Browser, ClosesOwn(b) PROVE task'[a] # task[a]
  <2>1. obj[a].browser \in Contexts(b) /\ task'[b] # task[b]
    BY <1>1, <1>3 DEF ClosesOwn
  <2>2. a = b
    BY <1>1, <2>1 DEF LifeInv, Apart
  <2> QED BY <2>1, <2>2
<1> QED BY <1>2, <1>3, ClosedContexts

\* A step of task t of b is no step of anybody else's.
LEMMA OnlyOneMoves ==
  ASSUME Types, NEW b \in Browser, NEW t \in Task, NEW l, Continue(b, t, l)
  PROVE  \A a \in Browser, u \in Task : a # b \/ u # t => task'[a][u] = task[a][u]
BY DEF Types, Continue

\* What a step of the launch of a has done when the context of a is another one.
LaunchedOn(a) == \/ kind'[obj'[a].browser] # "pool"
                 \/ task[a]["main"].onBrowser

LEMMA LaunchOpens ==
  ASSUME LifeInv, [Next]_vars, NEW a \in Browser, task[a]["main"].call = "launch",
         task'[a]["main"] # task[a]["main"], obj[a].browser # obj'[a].browser
  PROVE  LaunchedOn(a)
<1> DEFINE k == task[a]["main"]
<1>0. /\ Types /\ k \in Local /\ k.at \in LaunchPlace /\ k.call = "launch"
      /\ obj \in [Browser -> Attributes]
  BY CallOf, Tasks DEF CallOK, Types
<1>1. ~UNCHANGED obj
  OBVIOUS
<1>2. ASSUME NEW b \in Browser, CallBegins(b) PROVE FALSE
  <2>1. task[b]["main"].at = "idle" /\ a # b
    BY <1>0, <1>2 DEF CallBegins, Launch, Attach, Relaunch, RelaunchBegins, Close, NewPage,
                      SwitchToPage, Begins, At, LaunchPlace, Task
  <2>2. \/ \E n : Become(b, n)
        \/ UNCHANGED obj
    BY <1>2 DEF CallBegins, Launch, Attach, Relaunch, Close, NewPage, SwitchToPage
  <2> QED BY <1>0, <1>1, <2>1, <2>2 DEF Become
<1>3. ASSUME NEW b \in Browser, Relaunch(b, "hook") PROVE FALSE
  BY <1>1, <1>3 DEF Relaunch
<1>4. ASSUME NEW b \in Browser, NEW t \in Task, TaskStep(b, t)
      PROVE  LaunchedOn(a)
  <2>1. CASE EnsureRunning(b, t) \/ EnsureStarts(b, t) \/ PoolStarted(b, t)
    BY <1>1, <2>1 DEF EnsureRunning, EnsureStarts, PoolStarted
  <2>2. CASE PoolContext(b, t)
    <3>1. PICK c \in Context :
             /\ task[b][t].onBrowser /\ Goto(b, t, "page")
             /\ Become(b, [obj[b] EXCEPT !.browser = c])
      BY <1>1, <2>2 DEF PoolContext
    <3>2. a = b
      BY <1>0, <3>1 DEF Become
    <3>3. t = "main"
      BY <1>0, <3>1, OnlyOneMoves, Tasks DEF Goto
    <3> QED BY <3>1, <3>2, <3>3 DEF LaunchedOn
  <2>3. CASE PersistentContext(b, t)
    <3>1. PICK c \in Context :
             /\ Open(c, "persistent", b)
             /\ Become(b, [obj[b] EXCEPT !.browser = c])
      BY <1>1, <2>3 DEF PersistentContext
    <3>2. a = b
      BY <1>0, <3>1 DEF Become
    <3>3. obj'[a].browser = c
      BY <1>0, <3>1, <3>2 DEF Become, Attributes
    <3>4. kind'[c] = "persistent"
      BY <1>0, <3>1 DEF Open, Types, WorldTypes
    <3> QED BY <3>3, <3>4 DEF LaunchedOn
  <2>4. CASE RelaunchStep(b, t)
    <3>1. b = a /\ t = "main"
      <4>1. /\ \E n : Become(b, n)
            /\ \E l : Continue(b, t, l)
        BY <1>1, <2>4 DEF RelaunchStep, RelaunchCloses, RelaunchForgets, RelaunchSwaps,
                          RelaunchRollsBack, RelaunchRaises, Goto, Return
      <4> QED BY <1>0, <4>1, OnlyOneMoves, Tasks DEF Become
    <3>2. k.at \in {"release", "forget", "stage", "rollback", "dead"}
      BY <2>4, <3>1 DEF RelaunchStep, RelaunchCloses, RelaunchForgets, RelaunchSwaps,
                        RelaunchRollsBack, RelaunchRaises, At
    <3> QED BY <1>0, <3>2 DEF LaunchPlace
  <2>5. CASE StartDriver(b) \/ LaunchPage(b) \/ LaunchReturns(b)
    <3>1. ASSUME NEW n, Become(b, n), n.browser = obj[b].browser PROVE FALSE
      BY <1>0, <3>1 DEF Become
    <3>2. CASE StartDriver(b)
      <4>1. PICK d \in Driver : \/ Become(b, [obj[b] EXCEPT !.pw = d, !.mode = "launched"])
                               \/ Become(b, [obj[b] EXCEPT !.pw = d])
        BY <1>1, <3>2 DEF StartDriver
      <4> QED BY <1>0, <3>1, <4>1 DEF Attributes
    <3>3. CASE LaunchPage(b)
      <4>1. Become(b, [obj[b] EXCEPT !.page = <<obj[b].browser, "main">>, !.owns = TRUE])
        BY <1>1, <3>3 DEF LaunchPage
      <4> QED BY <1>0, <3>1, <4>1 DEF Attributes
    <3>4. CASE LaunchReturns(b)
      <4>1. PICK d : Become(b, [obj[b] EXCEPT !.recovery = "relaunches", !.pw = d])
        BY <1>1, <3>4 DEF LaunchReturns
      <4> QED BY <1>0, <3>1, <4>1 DEF Attributes
    <3> QED BY <2>5, <3>2, <3>3, <3>4
  <2>6. CASE Connected(b) \/ ConnectFails(b) \/ CdpContext(b) \/ AttachPage(b)
             \/ AttachUndo(b) \/ AttachUndone(b) \/ CloseContext(b) \/ CloseRemote(b)
             \/ CloseReturns(b)
    <3>1. task[b]["main"].at \notin LaunchPlace
      BY <2>6 DEF Connected, ConnectFails, CdpContext, AttachPage, AttachUndo, AttachUndone,
                  CloseContext, CloseRemote, CloseReturns, At, LaunchPlace
    <3>2. a # b
      BY <1>0, <3>1
    <3>3. \/ UNCHANGED obj
          \/ \E n : Become(b, n)
      BY <2>6 DEF Connected, ConnectFails, CdpContext, AttachPage, AttachUndo, AttachUndone,
                  CloseContext, CloseRemote, CloseReturns
    <3> QED BY <1>0, <1>1, <3>2, <3>3 DEF Become
  <2>7. CASE AttachReturns(b) \/ NewPageReturns(b)
    <3>1. CASE AttachReturns(b)
      BY <1>0, <3>1 DEF AttachReturns, Become, Attributes
    <3>2. CASE NewPageReturns(b)
      <4>1. a # b
        BY <1>0, <3>2 DEF NewPageReturns, At, LaunchPlace
      <4>2. \/ UNCHANGED obj
            \/ \E n : Become(b, n)
        BY <3>2 DEF NewPageReturns
      <4> QED BY <1>0, <1>1, <4>1, <4>2 DEF Become
    <3> QED BY <2>7, <3>1, <3>2
  <2> QED BY <1>4, <2>1, <2>2, <2>3, <2>4, <2>5, <2>6, <2>7 DEF TaskStep
<1>5. CASE ShutdownBegins \/ ShutdownEnds \/ UNCHANGED vars
  BY <1>1, <1>5 DEF ShutdownBegins, ShutdownEnds, vars
<1> QED BY <1>2, <1>3, <1>4, <1>5 DEF Next

LEMMA LaunchGetsItsMode == LifeInv /\ [Next]_vars => PooledLaunchGetsItsMode
<1> SUFFICES ASSUME LifeInv, [Next]_vars, NEW a \in Browser,
                    task[a]["main"].call = "launch",
                    task'[a]["main"] # task[a]["main"],
                    obj[a].browser # obj'[a].browser,
                    kind'[obj'[a].browser] = "pool"
             PROVE  Ask[a] \in {"any", pool.headless}
  BY DEF PooledLaunchGetsItsMode
<1>1. task[a]["main"].onBrowser
  BY LaunchOpens DEF LaunchedOn
<1> QED BY <1>1, Tasks DEF LifeInv, PoolOK

\* The context of an instance is closed by its own calls or a shutdown, never by an
\* instance that shares the pool; and a launch that asked for a mode gets it, whatever
\* came between its awaits.
THEOREM SharingIsSafe == Spec => PoolIsShared
<1>1. LifeInv /\ [Next]_vars => [OthersKeepTheirContexts /\ PooledLaunchGetsItsMode]_vars
  BY OthersKeepContexts, LaunchGetsItsMode
<1> QED BY <1>1, LifeInvHolds, PTL DEF Spec, PoolIsShared
=============================================================================
