----------------------------- MODULE ReplayGate -----------------------------
(***************************************************************************)
(* What the MCP server lets a workflow do: the policy engine, the approval *)
(* gate, the expansion of a workflow by which stealth_replay checks every  *)
(* step in advance, and the player's walk over the same files afterwards   *)
(* (src/production/policy_engine.py, approval_gate.py, mcp_handlers.py and *)
(* the part of src/workflows/player.py that dispatches steps).             *)
(*                                                                         *)
(* A step is a record with its type; a navigation goes to a site or to     *)
(* what the one variable of the model holds; a conditional has two arms; a *)
(* run_workflow names another file and may set the variable for it. A body *)
(* is the list of the steps of a file with the variable's default. Files   *)
(* lie in one directory, so that the server and the player resolve the     *)
(* same names.                                                             *)
(***************************************************************************)
EXTENDS Naturals, Sequences, FiniteSets, Functions

CONSTANTS File,         \* workflow files of the library
          Step,         \* what a step may be
          Body,         \* what a file may hold
          Site,
          Known,        \* the gate's known domains
          Unset,        \* a variable without a value, no file, no policy
          Variable,     \* a URL that is the variable's template
          Policy,       \* policies that load_policies found
          Missing,      \* the name of a policy that is not loaded
          MaxNesting,   \* bound on the arms and files around a step
          MaxEdits      \* bound on the changes of the library

StepList == Seq(Step)

ASSUME ReplayAssumption ==
    /\ Known \subseteq Site
    /\ Unset \notin Site \union Body \union Policy
    /\ Variable \notin Site \union {Unset}
    /\ Missing \notin Policy \union {Unset}
    /\ MaxNesting \in Nat /\ MaxEdits \in Nat

ASSUME StepAssumption ==
    /\ \A step \in Step :
          /\ step.type = "conditional" => step.steps \in StepList /\ step.else \in StepList
          /\ step.type = "run_workflow" => /\ step.path \in File
                                          /\ step.variable \in Site \union {Unset}
    /\ \A body \in Body : body.steps \in StepList /\ body.default \in Site \union {Unset}

VARIABLES policy,       \* PolicyEngine.active_policy: a policy, Missing or Unset
          permissive,   \* an allow callback is installed
          library,      \* file |-> its body, or Unset
          player,       \* the steps left to the player, innermost frame first
          dispatched,   \* the step that the player asked the browser for last
          edited,       \* the library changed since the replay was checked
          edits

replayVars == <<policy, permissive, library, player, dispatched, edited, edits>>

Idle == <<>>
NoStep == [type |-> "none", url |-> Unset]

ReplayInit ==
    /\ policy \in Policy \union {Missing, Unset}
    /\ permissive \in BOOLEAN
    /\ library \in [File -> Body \union {Unset}]
    /\ player = Idle /\ dispatched = NoStep
    /\ edited = FALSE /\ edits = 0

---------------------------------------------------------------------------
\* VariableResolver.resolve of a URL: an unset variable stays a template.
Url(url, v) == IF url = Variable /\ v # Unset THEN v ELSE url

\* is_step_type_allowed, is_domain_allowed and needs_approval; a step without
\* a URL gets default_allow, like a URL that no rule names.
TypeAllowed(type) == type \notin policy.blocked
DomainAllowed(url) == IF url \in DOMAIN policy.rules THEN policy.rules[url]
                      ELSE policy.defaultAllow

\* For comparison: a check that takes a template for a URL that no rule names.
StepAllowedTemplates(step) ==
    \/ policy = Unset
    \/ policy \in Policy /\ TypeAllowed(step.type) /\ DomainAllowed(step.url)

\* check_step: without a requested policy the default one allows everything;
\* a requested one that is not loaded allows nothing.
StepAllowed(step) ==
    \/ policy = Unset
    \/ /\ policy \in Policy
       /\ TypeAllowed(step.type)
       /\ step.url # Variable
       /\ DomainAllowed(step.url)

NeedsApproval(step) == policy \in Policy /\ step.type \in policy.approval

\* The tools that MCP_TOOL_CLASSIFICATION calls harmless. Every other action is
\* sensitive, also one that the table does not know: a step type, whatever it is.
Harmless == {"stealth_status", "stealth_tabs_list", "stealth_tab_snapshot",
             "stealth_session_timeline", "stealth_debug_report",
             "stealth_capabilities", "stealth_workflow_list"}

\* check_sensitive: what is sensitive needs a known domain, if it opens one, or
\* the callback. Without either it is left pending, which no caller waits for.
Approved(action, url) ==
    \/ action \in Harmless
    \/ action \in {"navigate", "stealth_navigate", "stealth_scrape"} /\ url \in Known
    \/ permissive

\* What may reach the browser in a replay.
Permitted(step) ==
    StepAllowed(step) /\ (NeedsApproval(step) => Approved(step.type, step.url))

---------------------------------------------------------------------------
\* _expand_replay_steps: every step the player could dispatch, both arms of a
\* conditional after its condition, and the files that are run, each with the
\* variable as the server knows it and the files it is reached through. The
\* order in which they are checked decides only which refusal is reported.
Occurrences(steps, v, stack) ==
    {[step |-> step, v |-> v, stack |-> stack] : step \in Range(steps)}

Given(step, v) == IF step.variable # Unset THEN step.variable ELSE v

\* A file that is missing, or is on the way to itself, is an error.
Loads(step, stack) == library[step.path] # Unset /\ step.path \notin stack

Inside(o) ==
    CASE o.step.type = "conditional" ->
           Occurrences(o.step.steps, o.v, o.stack)
              \union Occurrences(o.step.else, o.v, o.stack)
      [] o.step.type = "run_workflow" /\ Loads(o.step, o.stack) ->
           Occurrences(library[o.step.path].steps, Given(o.step, o.v),
                       o.stack \union {o.step.path})
      [] OTHER -> {}

InsideAll(os) == UNION {Inside(o) : o \in os}

Expand(f, v) ==
    LET walk[depth \in 0 .. MaxNesting] ==
          IF depth = 0 THEN Occurrences(library[f].steps, v, {f})
          ELSE walk[depth - 1] \union InsideAll(walk[depth - 1])
    IN walk[MaxNesting]

\* The loop over the leaves in _tool_stealth_replay.
Leaf(o) == [type |-> o.step.type,
            url |-> IF o.step.type = "navigate" THEN Url(o.step.url, o.v) ELSE Unset]
Condition == [type |-> "execute_js", url |-> Unset]

StepPasses(o) ==
    /\ Permitted(Leaf(o))
    /\ o.step.type = "conditional" => Permitted(Condition)
    /\ o.step.type = "run_workflow" /\ ~ Loads(o.step, o.stack) => policy = Unset

\* A workflow that is nested deeper than the bound is not replayed.
ReplayPasses(f, v) ==
    LET all == Expand(f, v)
    IN InsideAll(all) \subseteq all /\ \A o \in all : StepPasses(o)

---------------------------------------------------------------------------
\* For comparison: the declaration of the variable in the place of its default.
EffectiveRaw(body, v) == IF v # Unset THEN v ELSE body

\* _effective_run_vars: what was given wins over the declared default.
Effective(body, v) == IF v # Unset THEN v ELSE body.default

Frame(f, v) == [steps |-> library[f].steps, v |-> Effective(library[f], v), file |-> f]

\* A change of the library by somebody else, or by stealth_teach and
\* stealth_workflow_delete of this server.
WriteFile(f, body) ==
    /\ edits < MaxEdits
    /\ library' = [library EXCEPT ![f] = body]
    /\ edits' = edits + 1
    /\ edited' = (edited \/ player # Idle)

SomebodyEdits(f, body) ==
    WriteFile(f, body) /\ UNCHANGED <<policy, permissive, player, dispatched>>

\* _tool_stealth_replay: the checks, then the player.
StartReplay(f, v) ==
    /\ player = Idle /\ library[f] # Unset
    /\ ReplayPasses(f, v)
    /\ player' = <<Frame(f, v)>>
    /\ dispatched' = NoStep /\ edited' = FALSE
    /\ UNCHANGED <<policy, permissive, library, edits>>

\* The replay ends, by itself or because a step failed.
EndReplay == /\ player # Idle
             /\ player' = Idle /\ dispatched' = NoStep
             /\ UNCHANGED <<policy, permissive, library, edited, edits>>

\* The player's frames once the first step of the innermost one is done.
Rest == <<[player[1] EXCEPT !.steps = Tail(@)]>> \o Tail(player)

\* Files that are entered by run_workflow: the outermost is not among them.
OnStack(f) == \E i \in 1 .. Len(player) - 1 : player[i].file = f

\* _dispatch_step of the next step: a condition is evaluated and one arm
\* follows, a nested file is loaded at that moment.
Dispatch ==
    /\ player # Idle /\ player[1].steps # <<>>
    /\ LET step == Head(player[1].steps)
           v == player[1].v
       IN \/ /\ step.type \notin {"conditional", "run_workflow"}
             /\ dispatched' = [type |-> step.type,
                               url |-> IF step.type = "navigate" THEN Url(step.url, v)
                                       ELSE Unset]
             /\ player' = Rest
          \/ /\ step.type = "conditional"
             /\ dispatched' = Condition
             /\ \E arm \in {step.steps, step.else} :
                   player' = [Rest EXCEPT ![1].steps = arm \o @]
          \/ /\ step.type = "run_workflow"
             /\ library[step.path] # Unset /\ ~ OnStack(step.path)
             /\ dispatched' = [type |-> "run_workflow", url |-> Unset]
             /\ player' = <<Frame(step.path, Given(step, v))>> \o Rest
    /\ UNCHANGED <<policy, permissive, library, edited, edits>>

\* The end of a nested workflow.
EndNested == /\ Len(player) > 1 /\ player[1].steps = <<>>
             /\ player' = Tail(player)
             /\ UNCHANGED <<policy, permissive, library, dispatched, edited, edits>>

ReplayNext ==
    \/ \E f \in File, v \in Site \union {Unset} : StartReplay(f, v)
    \/ Dispatch \/ EndNested \/ EndReplay
    \/ \E f \in File, body \in Body \union {Unset} : SomebodyEdits(f, body)

ReplaySpec == ReplayInit /\ [][ReplayNext]_replayVars

---------------------------------------------------------------------------
\* Types of the variables.
ReplayTypeOK ==
    /\ policy \in Policy \union {Missing, Unset}
    /\ permissive \in BOOLEAN
    /\ DOMAIN library = File
    /\ \A f \in File : library[f] # Unset => /\ library[f].steps \in StepList
                                            /\ library[f].default \in Site \union {Unset}
    /\ player \in Seq([steps : StepList, v : Site \union {Unset}, file : File])
    /\ edited \in BOOLEAN /\ edits \in 0 .. MaxEdits

\* Whatever path a replay takes, through conditions, nested files, variables
\* and their defaults, the browser is asked for nothing that the policy
\* refuses and for nothing that needs an approval nobody gave: the steps that
\* _expand_replay_steps checks cover those that the player dispatches, as
\* long as the files are those that were checked.
ReplayIsChecked ==
    dispatched # NoStep /\ ~ edited => Permitted(dispatched)

=============================================================================
