---------------------------- MODULE MCServices ----------------------------
(***************************************************************************)
(* The services around the browser, instances for TLC: the MCP server with *)
(* its policy, gate and player, the session enforcer, the dashboard and    *)
(* the recorder. As they share no state, a behaviour exercises one of them *)
(* (part); the MCP server has three parts, which bound it differently.     *)
(***************************************************************************)
EXTENDS McpServer, Dashboard, SessionEnforcer, Recorder, TLC

CONSTANTS f1, f2, n1, n2, p1, p2, p3, known, other, var, none, missing,
          t1, t2, profileA, profileB, x1, x2, x3, s1, s2,
          user, password, enter, hidden

VARIABLE part

---------------------------------------------------------------------------
Nav(url) == [type |-> "navigate", url |-> url]
Wait == [type |-> "wait", url |-> none]
Click == [type |-> "click", url |-> none]
Run(f, v) == [type |-> "run_workflow", path |-> f, variable |-> v, url |-> none]
If(then, else) == [type |-> "conditional", steps |-> then, else |-> else, url |-> none]
File0(list, default) == [steps |-> list, default |-> default]

\* Steps that go where a variable says, whose default is the other site or the
\* known one, directly, in a nested file, and in one arm of a conditional.
Bodies == {File0(<<Nav(var), Click>>, known), File0(<<Nav(var)>>, other),
           File0(<<Nav(other)>>, none),
           File0(<<Run(f2, known)>>, none), File0(<<Run(f1, none), Nav(var)>>, known),
           File0(<<If(<<Run(f2, none)>>, <<Click>>), Nav(known)>>, other)}

Rules(blocked, rules, approval) == [blocked |-> blocked, rules |-> rules,
                                    defaultAllow |-> TRUE, approval |-> approval]

\* Their steps, and those of taught workflows.
AllSteps == UNION {Range(body.steps) : body \in Bodies}
               \union {Run(f2, none), Nav(known), Wait}

\* A site is forbidden, a step type is blocked and one needs an approval, and
\* the JavaScript of conditions needs one.
Policies == {Rules({}, other :> FALSE, {}),
             Rules({"click"}, known :> TRUE, {"navigate"}),
             Rules({}, known :> TRUE @@ other :> FALSE, {"execute_js", "click"})}

---------------------------------------------------------------------------
ServicesInit ==
    /\ part \in {"replay", "sessions", "taught", "enforcer", "managed", "operated", "recorder"}
    /\ McpInit /\ DashboardInit /\ EnforcerInit /\ RecorderInit
    /\ \/ part = "replay"
       \/ policy = none /\ permissive /\ library = [f \in File |-> none]

\* Any library and policy, with the server's sessions as they are.
ReplayPart == part = "replay" /\ ReplayNext /\ UNCHANGED sessionVars

\* Several sessions and their tabs, no workflows.
SessionsPart == part = "sessions" /\ McpNext /\ edits' = 0

\* One session that teaches, replays and deletes workflows.
TaughtPart == part = "taught" /\ McpNext /\ made' <= 1 /\ lastTab' = 0

\* Browsers that start, stop and start again under two tasks, and one browser
\* that is acted on, recorded, replayed on and paused.
ManagedPart == part = "managed" /\ DashboardNext /\ ~ recording' /\ execution' = "idle"
OperatedPart == part = "operated" /\ DashboardNext /\ browser' <= 1

ServicesNext ==
    /\ UNCHANGED part
    /\ \/ /\ ReplayPart \/ SessionsPart \/ TaughtPart
          /\ UNCHANGED <<enforcerVars, dashboardVars, recorderVars>>
       \/ /\ part = "enforcer" /\ EnforcerNext
          /\ UNCHANGED <<mcpVars, dashboardVars, recorderVars>>
       \/ /\ ManagedPart \/ OperatedPart
          /\ UNCHANGED <<mcpVars, enforcerVars, recorderVars>>
       \/ /\ part = "recorder" /\ RecorderNext
          /\ UNCHANGED <<mcpVars, enforcerVars, dashboardVars>>

ServicesSpec ==
    ServicesInit /\
        [][ServicesNext]_<<part, mcpVars, enforcerVars, dashboardVars, recorderVars>>

\* Types of the variables of the services.
ServicesTypeOK == McpTypeOK /\ EnforcerTypeOK /\ DashboardTypeOK /\ RecorderTypeOK

\* In ticks: a click or a scroll joins its group within one, a key within two.
JoinWithin == [type \in {"click", "scroll", "input"} |-> IF type = "input" THEN 2 ELSE 1]

Same == Permutations(Name) \union Permutations(Address)
=============================================================================
