---------------------------- MODULE WorkflowPlayer ----------------------------
(***************************************************************************)
(* execute() of the WorkflowPlayer with its checkpoint file, run_workflow  *)
(* steps, healed selectors and the FallbackController's recovery.  One     *)
(* browser and one checkpoint file; a player may die at any point, and the *)
(* next one may load the file.                                             *)
(*                                                                         *)
(* An action goes from one call that leaves the player to the next: the    *)
(* browser's effect, its answer, the recovery's verdict, a save.           *)
(***************************************************************************)
EXTENDS Integers, Sequences, FiniteSets

CONSTANTS
  Workflow,      \* workflows: a name with the hash of its steps
  Steps,         \* of each workflow: a sequence of [kind, of]
  Root,          \* workflows that a caller executes
  Unbound,       \* the identity of a checkpoint that names no workflow
  NoWorkflow,    \* of a step that is not run_workflow
  Old,           \* completed steps of a file that an earlier version wrote
  MaxHealed,     \* candidates of auto_heal_selector
  MaxAttempts,   \* max_retries and fallback selectors together
  MaxPlayers, MaxRuns   \* bounds: players, executions

\* click, fill, type, verify, wait_for_element | navigate, select |
\* wait, scroll, screenshot, execute_js, conditional | run_workflow
Kind == {"click", "page", "plain", "run"}

ASSUME StepsAssumption ==
  /\ Unbound \notin Workflow /\ NoWorkflow \notin Workflow
  /\ Steps \in [Workflow -> Seq([kind : Kind, of : Workflow \cup {NoWorkflow}])]
  /\ \A w \in Workflow : \A i \in DOMAIN Steps[w] :
       Steps[w][i].kind = "run" <=> Steps[w][i].of \in Workflow
ASSUME BoundsAssumption ==
  /\ IsFiniteSet(Workflow) /\ Root \subseteq Workflow /\ Old \subseteq Nat
  /\ {MaxHealed, MaxAttempts, MaxPlayers, MaxRuns} \subseteq Nat
  /\ MaxPlayers # 0

VARIABLES
  frames,      \* _checkpoint_frames: completed steps of each workflow begun
  checkpoint,  \* self.checkpoint; the frame of the workflow it is bound to
  attached,    \* _checkpoint_path is set
  controller,  \* the recovery: none, without or with an orchestrator
  stack,       \* the activations of _execute, outermost first
  file,        \* the checkpoint file
  synced,      \* history: the last automatic save succeeded, and no root has
               \* progressed within another workflow since
  reentered,   \* history: the outermost workflow was run within itself
  performed,   \* history: steps whose effect the browser has seen
  claims,      \* history: steps that count as completed on another's word
  players, runs

vars == <<frames, checkpoint, attached, controller, stack, file, synced,
          reentered, performed, claims, players, runs>>

Index(w) == DOMAIN Steps[w]
Position == UNION {{w} \X Index(w) : w \in Workflow}

NoFrames == [w \in {} |-> {}]
NoFile == [of |-> Unbound, done |-> {}, frames |-> NoFrames, exists |-> FALSE]
OldFile == [of |-> Unbound, done |-> Old, frames |-> NoFrames, exists |-> TRUE]

Init ==
  /\ frames = NoFrames /\ checkpoint = [of |-> Unbound, done |-> {}]
  /\ attached = FALSE /\ stack = <<>>
  /\ controller \in {"none", "plain", "orchestrator"}
  /\ file \in {NoFile, OldFile}
  /\ synced = FALSE /\ reentered = FALSE /\ performed = {} /\ claims = {}
  /\ players = 1 /\ runs = 0

-----------------------------------------------------------------------------
\* Activations

Top == stack[Len(stack)]
With(a) == [stack EXCEPT ![Len(stack)] = a]
Below == SubSeq(stack, 1, Len(stack) - 1)
At(pc) == stack # <<>> /\ Top.pc = pc
Current == Steps[Top.wf][Top.at]
Here == <<Top.wf, Top.at>>

\* The browser may be asked to carry out the current step: healing and the
\* recovery know only some kinds.
Trying == {"try", "heal", "retry", "again"}
Asks ==
  /\ stack # <<>> /\ Top.pc \in Trying
  /\ Top.pc # "try" => Current.kind \in {"click", "page"}

\* Mutation: the identity of the checkpoint is not compared.
BegunAnyhow(fs, cp, w) ==
  IF w \in DOMAIN fs THEN fs[w]
  ELSE IF cp.of \in DOMAIN fs THEN fs[cp.of] ELSE cp.done

\* The completed steps with which an execution begins, for what is remembered.
Begun(fs, cp, w) ==
  IF w \in DOMAIN fs THEN fs[w]
  ELSE IF cp.of \in {Unbound, w} THEN cp.done ELSE {}

\* Mutation: the snapshot is not taken from the frame.
NoSnapshot(done) == {}

\* The local set "completed", read once.
Snapshot(done) == done

\* An execution of w begins on top of the activations in "below".
Enter(w, below) ==
  LET done == Begun(frames, checkpoint, w) IN
  /\ frames' = [v \in DOMAIN frames \cup {w} |-> IF v = w THEN done ELSE frames[v]]
  /\ stack' = Append(below, [wf |-> w, at |-> 1, skip |-> Snapshot(done),
                             pc |-> "next", left |-> 0])
  /\ checkpoint' = IF below = <<>> THEN [of |-> w, done |-> {}] ELSE checkpoint
  /\ reentered' = (below # <<>> /\ (reentered \/ w = below[1].wf))
  /\ claims' = claims \cup
       IF w \notin DOMAIN frames /\ checkpoint.of = Unbound
       THEN {[step |-> <<w, i>>, by |-> "old file"] : i \in checkpoint.done} ELSE {}

Exported(fs, cp) ==
  [of |-> cp.of, done |-> Begun(fs, cp, cp.of), frames |-> fs, exists |-> TRUE]

\* Mutation: the save comes before the nested workflow is off the stack.
PersistsTooEarly(rest) == Len(stack) = 1 /\ attached

\* _persist_checkpoint: within a nested workflow nothing is saved, and a save
\* that fails is not reported.
Persists(rest) == Len(rest) = 1 /\ attached

Persist(rest, fs) ==
  IF Persists(rest)
  THEN \/ file' = Exported(fs, checkpoint) /\ synced' = TRUE
       \/ file' = file /\ synced' = FALSE
  ELSE /\ file' = file
       /\ synced' = (synced /\ (Len(rest) = 1 \/ rest[Len(rest)].wf \notin Root))

\* The current step of the innermost activation in "rest" is completed.
Complete(rest) ==
  LET a == rest[Len(rest)]
      fs == [frames EXCEPT ![a.wf] = @ \cup {a.at}]
  IN  /\ frames' = fs
      /\ stack' = [rest EXCEPT ![Len(rest)] =
                     [a EXCEPT !.at = @ + 1, !.pc = "next", !.left = 0]]
      /\ Persist(rest, fs)
      /\ UNCHANGED <<checkpoint, attached, controller, reentered, performed,
                     players, runs>>

Moves(a) ==
  /\ stack' = With(a)
  /\ UNCHANGED <<frames, checkpoint, attached, controller, file, synced,
                 reentered, performed, claims, players, runs>>

\* The innermost execution ends without success; run_workflow raises.
Fail ==
  /\ stack' = IF Len(stack) = 1 THEN <<>>
              ELSE [Below EXCEPT ![Len(stack) - 1].pc = "raised"]
  /\ UNCHANGED <<frames, checkpoint, attached, controller, file, synced,
                 reentered, performed, claims, players, runs>>

-----------------------------------------------------------------------------
\* Players and their checkpoint

\* Whether a player ends properly or dies, only the file is left.
NewPlayer ==
  /\ players < MaxPlayers /\ players' = players + 1
  /\ frames' = NoFrames /\ checkpoint' = [of |-> Unbound, done |-> {}]
  /\ attached' = FALSE /\ stack' = <<>> /\ synced' = FALSE /\ reentered' = FALSE
  /\ controller' \in {"none", "plain", "orchestrator"}
  /\ UNCHANGED <<file, performed, claims, runs>>

\* Callers load before they execute anything.
LoadCheckpoint ==
  /\ stack = <<>> /\ DOMAIN frames = {} /\ ~attached /\ file.exists
  /\ frames' = file.frames
  /\ checkpoint' = [of |-> file.of, done |-> file.done]
  /\ attached' = TRUE /\ synced' = TRUE
  /\ UNCHANGED <<controller, stack, file, reentered, performed, claims, players,
                 runs>>

\* save_checkpoint by the caller: the automatic saves do not begin.
SaveCheckpoint ==
  /\ stack = <<>> /\ DOMAIN frames # {}
  /\ file' = Exported(frames, checkpoint)
  /\ UNCHANGED <<frames, checkpoint, attached, controller, stack, synced,
                 reentered, performed, claims, players, runs>>

Execute(w) ==
  /\ w \in Root /\ stack = <<>> /\ runs < MaxRuns /\ runs' = runs + 1
  /\ Enter(w, <<>>)
  /\ UNCHANGED <<attached, controller, file, synced, performed, players>>

-----------------------------------------------------------------------------
\* The steps of an execution

\* A required variable is missing, or the parameters of the next step are invalid.
Reject ==
  /\ At("next")
  /\ \/ Top.at = 1
     \/ Top.at \in Index(Top.wf) \ Top.skip
  /\ Fail

Skip ==
  /\ At("next") /\ Top.at \in Index(Top.wf) \cap Top.skip
  /\ Moves([Top EXCEPT !.at = @ + 1])

Dispatch ==
  /\ At("next") /\ Top.at \in Index(Top.wf) \ Top.skip
  /\ Current.kind # "run"
  /\ Moves([Top EXCEPT !.pc = "try"])

\* _workflow_stack: the outermost workflow is not on it.
NestedStack == {stack[k].wf : k \in 2..Len(stack)}

RunWorkflow ==
  /\ At("next") /\ Top.at \in Index(Top.wf) \ Top.skip
  /\ Current.kind = "run" /\ Current.of \notin NestedStack
  /\ Enter(Current.of, With([Top EXCEPT !.pc = "nested"]))
  /\ UNCHANGED <<attached, controller, file, synced, performed, players, runs>>

\* A cycle, or a file that cannot be resolved or loaded.
RunWorkflowRaises ==
  /\ At("next") /\ Top.at \in Index(Top.wf) \ Top.skip
  /\ Current.kind = "run"
  /\ Moves([Top EXCEPT !.pc = "raised"])

Finish ==
  /\ At("next") /\ Top.at \notin Index(Top.wf)
  /\ IF Len(stack) = 1
     THEN /\ stack' = <<>>
          /\ UNCHANGED <<frames, checkpoint, attached, controller, file, synced,
                         reentered, performed, claims, players, runs>>
     ELSE Complete(Below) /\ claims' = claims

\* The page reacts to the step, whatever the player hears of it.
Effect ==
  /\ Asks
  /\ performed' = performed \cup {Here} /\ performed' # performed
  /\ UNCHANGED <<frames, checkpoint, attached, controller, stack, file, synced,
                 reentered, claims, players, runs>>

\* The dispatch returns.  safe_goto, safe_click and safe_type return False for a
\* failure, and nobody looks at the answer.
Returns ==
  /\ Asks
  /\ Current.kind = "plain" => Here \in performed
  /\ Complete(stack)
  /\ claims' = claims \cup
       IF Here \in performed THEN {} ELSE {[step |-> Here, by |-> "return"]}

\* What follows an attempt that raised; "left" counts the attempts after it.
AfterRaise(a) ==
  CASE a.pc = "try" -> [a EXCEPT !.pc = "raised"]
    [] a.pc = "again" -> [a EXCEPT !.pc = "unblock"]
    [] a.pc \in {"heal", "retry"} /\ a.left > 0 -> [a EXCEPT !.left = @ - 1]
    [] OTHER -> [a EXCEPT !.pc = IF a.pc = "heal" THEN "recover" ELSE "abort"]

Raises ==
  /\ stack # <<>> /\ Top.pc \in Trying
  /\ Moves(AfterRaise(Top))

Heal ==
  /\ At("raised") /\ Current.kind = "click"
  /\ \E n \in 1..MaxHealed : Moves([Top EXCEPT !.pc = "heal", !.left = n - 1])

\* No selector, or no candidate for it.
NoHeal == At("raised") /\ Moves([Top EXCEPT !.pc = "recover"])

-----------------------------------------------------------------------------
\* handle_step_error of the FallbackController: the error's text decides

Recovers == At("recover") /\ Top.at \notin frames[Top.wf] /\ controller # "none"

ElementNotFound ==
  /\ Recovers
  /\ \E n \in 1..MaxAttempts : Moves([Top EXCEPT !.pc = "retry", !.left = n - 1])

TimedOut == Recovers /\ Moves([Top EXCEPT !.pc = "again"])

Blocked == Recovers /\ Moves([Top EXCEPT !.pc = "unblock"])

\* recover() of the orchestrator returns, and its answer is not looked at.
Unblocked ==
  /\ At("unblock") /\ controller = "orchestrator"
  /\ Complete(stack)
  /\ claims' = claims \cup {[step |-> Here, by |-> "recovery"]}

\* No recovery, no attempt, another error, or a recovery that gives up.
Abort ==
  /\ At("recover") \/ At("abort") \/ At("unblock")
  /\ Fail

Next ==
  \/ NewPlayer \/ LoadCheckpoint \/ SaveCheckpoint
  \/ \E w \in Workflow : Execute(w)
  \/ Reject \/ Skip \/ Dispatch \/ RunWorkflow \/ RunWorkflowRaises \/ Finish
  \/ Effect \/ Returns \/ Raises \/ Heal \/ NoHeal
  \/ ElementNotFound \/ TimedOut \/ Blocked \/ Unblocked \/ Abort

Spec == Init /\ [][Next]_vars

-----------------------------------------------------------------------------
\* Properties

IsFrames(fs) ==
  /\ DOMAIN fs \subseteq Workflow
  /\ fs \in [DOMAIN fs -> SUBSET Nat]
PC == Trying \cup {"next", "raised", "recover", "unblock", "abort", "nested"}
Activation == [wf : Workflow, at : Nat \ {0}, skip : SUBSET Nat, pc : PC, left : Nat]

\* Every variable keeps its type; the attempts of a healing or of a recovery run
\* out, and an execution works on a step that its workflow has
\* (workflows/player.py, workflows/recovery.py).
TypeOK ==
  /\ IsFrames(frames) /\ IsFrames(file.frames)
  /\ checkpoint \in [of : Workflow \cup {Unbound}, done : SUBSET Nat]
  /\ file \in [of : Workflow \cup {Unbound}, done : SUBSET Nat,
               frames : {file.frames}, exists : BOOLEAN]
  /\ attached \in BOOLEAN /\ synced \in BOOLEAN /\ reentered \in BOOLEAN
  /\ controller \in {"none", "plain", "orchestrator"}
  /\ stack \in Seq(Activation)
  /\ \A k \in DOMAIN stack :
       stack[k].pc # "next" => stack[k].at \in Index(stack[k].wf)
  /\ performed \subseteq Position
  /\ claims \subseteq [step : Workflow \X Nat, by : {"old file", "return", "recovery"}]
  /\ players \in 1..MaxPlayers /\ runs \in 0..MaxRuns

\* Why step i of w may count as completed where fs is remembered.
Done(fs, w, i, by) ==
  \/ \E c \in claims : c.step = <<w, i>> /\ c.by \in by
  \/ <<w, i>> \in performed
  \/ Steps[w][i].of \in DOMAIN fs /\ Index(Steps[w][i].of) \subseteq fs[Steps[w][i].of]

AllDone(by) ==
  \A fs \in {frames, file.frames} : \A w \in DOMAIN fs :
    \A i \in fs[w] \cap Index(w) : Done(fs, w, i, by)

\* A step that memory or the file lists as completed, and that resuming will
\* skip, had its effect, or is a nested workflow all of whose steps are listed
\* beside it; or an old file, a return without effect or the recovery vouched
\* for it.  In particular no workflow inherits what another one completed,
\* whatever file is loaded (player.py, workflow_checkpoint_identity).
DoneWasDone == AllDone({"old file", "return", "recovery"})

\* The browser is never asked for a step that is already listed as completed,
\* neither in this execution nor after a resume (player.py, the set "completed").
\* The exception is the outermost workflow after one that it runs, however deep,
\* has run it once more: its list has then grown behind the set.
NothingRepeats ==
  Asks => Top.at \notin frames[Top.wf] \/ (Len(stack) = 1 /\ reentered)

\* Unless the last automatic save failed, a new player that loads the file now
\* skips every step of the outermost workflow that this one has completed, nested
\* workflows and healed or recovered steps included (_persist_checkpoint).  What a
\* root has completed while another workflow ran it waits for the next save.
TopStepsAreSaved ==
  attached /\ synced /\ checkpoint.of \in DOMAIN frames =>
    frames[checkpoint.of] \subseteq Begun(file.frames, file, checkpoint.of)

\* Only the outermost workflow can run within itself, and once, so there are at
\* most as many activations below it as workflows (_step_run_workflow, the cycle
\* check).
NestingIsBounded ==
  /\ \A j, k \in 2..Len(stack) : stack[j].wf = stack[k].wf => j = k
  /\ Len(stack) <= Cardinality(Workflow) + 1
=============================================================================
