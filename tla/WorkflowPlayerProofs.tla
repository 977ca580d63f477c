------------------------ MODULE WorkflowPlayerProofs ------------------------
(***************************************************************************)
(* Theorems about WorkflowPlayer for every value of its constants: any     *)
(* workflows, steps, players, executions, healings and recoveries.         *)
(***************************************************************************)
EXTENDS WorkflowPlayer, FiniteSetTheorems, SequenceTheorems, TLAPS

\* The activations below the outermost are distinct, the outermost is a root, and
\* each but the innermost waits at the step that runs the next.
NestingInv ==
  /\ \A j, k \in DOMAIN stack \ {1} : stack[j].wf = stack[k].wf => j = k
  /\ \A k \in DOMAIN stack :
       /\ stack[k].wf \in DOMAIN frames
       /\ k = 1 => stack[k].wf \in Root
       /\ k # 1 /\ stack[k].wf = stack[1].wf => reentered
       /\ k = Len(stack) => stack[k].pc # "nested"
       /\ k < Len(stack) => /\ stack[k].pc = "nested"
                            /\ Steps[stack[k].wf][stack[k].at].of = stack[k + 1].wf

\* A checkpoint that names a workflow has the workflow's frame.
CheckpointInv ==
  /\ checkpoint.of \in Root \cup {Unbound} /\ file.of \in Root \cup {Unbound}
  /\ checkpoint.of # Unbound => checkpoint.of \in DOMAIN frames
  /\ file.of # Unbound => file.of \in DOMAIN file.frames
  /\ stack # <<>> => checkpoint.of = stack[1].wf

\* What a frame lists is what its activation found there and what it has passed;
\* only the outermost may find that it was run once more in between.
ProgressInv ==
  \A k \in DOMAIN stack :
    /\ stack[k].skip \subseteq frames[stack[k].wf]
    /\ \/ frames[stack[k].wf] \subseteq stack[k].skip \cup 1..(stack[k].at - 1)
       \/ k = 1 /\ reentered
    /\ \A i \in 1..(stack[k].at - 1) : i \in frames[stack[k].wf]
    /\ stack[k].pc # "next" => stack[k].at \notin stack[k].skip

\* A new player that loads the file skips no less than this one would, whichever
\* root it executes.
SavedInv ==
  attached /\ synced =>
    \A r \in Root : Begun(frames, checkpoint, r) \subseteq Begun(file.frames, file, r)

PlayerInv ==
  /\ TypeOK /\ NestingInv /\ CheckpointInv /\ ProgressInv /\ SavedInv /\ DoneWasDone

-----------------------------------------------------------------------------
\* What the actions do to the stack

\* A stack that is not empty has an innermost activation.
LEMMA InnermostFacts ==
  ASSUME TypeOK, stack # <<>>
  PROVE  /\ Len(stack) \in Nat \ {0} /\ Len(stack) \in DOMAIN stack
         /\ DOMAIN stack = 1..Len(stack)
         /\ Top \in Activation
         /\ \A k \in DOMAIN stack : stack[k] \in Activation
<1>1. stack \in Seq(Activation) BY DEF TypeOK
<1>2. Len(stack) \in Nat /\ DOMAIN stack = 1..Len(stack) BY <1>1, LenProperties
<1>3. Len(stack) # 0 BY <1>1, EmptySeq
<1>4. \A k \in DOMAIN stack : stack[k] \in Activation
  BY <1>1, <1>2, ElementOfSeq
<1> QED BY <1>2, <1>3, <1>4 DEF Top

\* Replacing the innermost activation leaves the others alone.
LEMMA WithFacts ==
  ASSUME TypeOK, stack # <<>>, NEW a \in Activation
  PROVE  /\ With(a) \in Seq(Activation) /\ With(a) # <<>>
         /\ Len(With(a)) = Len(stack) /\ DOMAIN With(a) = DOMAIN stack
         /\ With(a)[Len(stack)] = a
         /\ \A k \in DOMAIN stack : k # Len(stack) => With(a)[k] = stack[k]
<1>1. stack \in Seq(Activation) BY DEF TypeOK
<1>2. /\ Len(stack) \in Nat \ {0} /\ Len(stack) \in DOMAIN stack
      /\ DOMAIN stack = 1..Len(stack)
  BY InnermostFacts
<1> QED BY <1>1, <1>2 DEF With

\* What is left when the innermost activation ends.
LEMMA BelowFacts ==
  ASSUME TypeOK, Len(stack) > 1
  PROVE  /\ Below \in Seq(Activation) /\ Below # <<>>
         /\ Len(Below) = Len(stack) - 1 /\ DOMAIN Below = 1..(Len(stack) - 1)
         /\ \A k \in 1..(Len(stack) - 1) : Below[k] = stack[k]
<1>1. /\ stack \in Seq(Activation) /\ Len(stack) \in Nat
      /\ \A k \in 1..(Len(stack) - 1) : stack[k] \in Activation
  <2>1. stack \in Seq(Activation) BY DEF TypeOK
  <2>2. Len(stack) \in Nat BY <2>1, LenProperties
  <2>3. ASSUME NEW k \in 1..(Len(stack) - 1) PROVE stack[k] \in Activation
    <3>1. k \in 1..Len(stack) BY <2>2
    <3> QED BY <2>1, <3>1, ElementOfSeq
  <2> QED BY <2>1, <2>2, <2>3
<1> DEFINE m == Len(stack) - 1
<1>0. Len(stack) \in Nat BY <1>1
<1>2. m \in Nat \ {0} /\ 1 \in Int /\ m \in Int
  <2>1. \A l \in Nat : l > 1 => l - 1 \in Nat \ {0} /\ l - 1 \in Int OBVIOUS
  <2> QED BY <1>0, <2>1
<1>3. /\ SubSeq(stack, 1, m) \in Seq(Activation)
      /\ Len(SubSeq(stack, 1, m)) = m
      /\ \A k \in 1..m : SubSeq(stack, 1, m)[k] = stack[k]
  <2>1. /\ SubSeq(stack, 1, m) \in Seq(Activation)
        /\ Len(SubSeq(stack, 1, m)) = IF 1 <= m THEN m - 1 + 1 ELSE 0
        /\ \A k \in 1..(m - 1 + 1) : SubSeq(stack, 1, m)[k] = stack[1 + k - 1]
    BY <1>1, <1>2, SubSeqProperties
  <2> QED BY <1>2, <2>1
<1>4. Below \in Seq(Activation) /\ Len(Below) = m BY <1>3 DEF Below
<1>5. Below # <<>> /\ DOMAIN Below = 1..m BY <1>2, <1>4, LenProperties, EmptySeq
<1> QED BY <1>3, <1>4, <1>5 DEF Below

Everyone == {"old file", "return", "recovery"}

\* Done, for given claims and effects.
DoneWith(cs, ps, fs, w, i) ==
  \/ \E c \in cs : c.step = <<w, i>> /\ c.by \in Everyone
  \/ <<w, i>> \in ps
  \/ Steps[w][i].of \in DOMAIN fs /\ Index(Steps[w][i].of) \subseteq fs[Steps[w][i].of]

AllDoneWith(cs, ps, fs) ==
  \A w \in DOMAIN fs : \A i \in fs[w] \cap Index(w) : DoneWith(cs, ps, fs, w, i)

\* The property in terms of the lists, the claims and the effects it reads.
LEMMA DoneMeans ==
  /\ DoneWasDone <=> /\ AllDoneWith(claims, performed, frames)
                     /\ AllDoneWith(claims, performed, file.frames)
  /\ DoneWasDone' <=> /\ AllDoneWith(claims', performed', frames')
                      /\ AllDoneWith(claims', performed', file'.frames)
BY DEF DoneWasDone, AllDone, Done, AllDoneWith, DoneWith, Everyone, Index

\* What is done stays done when the lists, the claims and the effects grow.
LEMMA DoneGrows ==
  ASSUME NEW fs, NEW gs, DOMAIN fs \subseteq DOMAIN gs,
         \A w \in DOMAIN fs : fs[w] \subseteq gs[w],
         NEW cs, NEW ds, cs \subseteq ds, NEW ps, NEW qs, ps \subseteq qs,
         NEW w, NEW i, DoneWith(cs, ps, fs, w, i)
  PROVE  DoneWith(ds, qs, gs, w, i)
BY DEF DoneWith

-----------------------------------------------------------------------------
\* The innermost activation moves on without completing anything: it passes a step
\* that its snapshot lists, or comes to another stage of its step.
LEMMA MovesKeeps ==
  ASSUME PlayerInv, stack # <<>>, NEW a \in Activation, Moves(a),
         a.wf = Top.wf, a.skip = Top.skip, a.pc # "nested",
         \/ /\ a.at = Top.at /\ a.pc # "next"
            /\ Top.at \in Index(Top.wf) \ Top.skip
         \/ /\ a.at = Top.at + 1 /\ a.pc = "next" /\ Top.at \in Top.skip
  PROVE  PlayerInv'
<1> DEFINE n == Len(stack)
<1>1. /\ n \in Nat \ {0} /\ n \in DOMAIN stack /\ DOMAIN stack = 1..n
      /\ Top \in Activation /\ Top = stack[n]
      /\ \A k \in DOMAIN stack : stack[k] \in Activation
  BY InnermostFacts DEF PlayerInv, Top
<1>2. /\ stack' \in Seq(Activation) /\ stack' # <<>> /\ Len(stack') = n
      /\ DOMAIN stack' = DOMAIN stack /\ stack'[n] = a
      /\ \A k \in DOMAIN stack : k # n => stack'[k] = stack[k]
  BY WithFacts DEF PlayerInv, Moves
<1>3. UNCHANGED <<frames, checkpoint, attached, controller, file, synced,
                  reentered, performed, claims, players, runs>>
  BY DEF Moves
<1>4. \A k \in DOMAIN stack : stack'[k].wf = stack[k].wf
  BY <1>1, <1>2
<1>5. TypeOK'
  <2>1. ASSUME NEW k \in DOMAIN stack'
        PROVE  stack'[k].pc # "next" => stack'[k].at \in Index(stack'[k].wf)
    BY <1>1, <1>2 DEF PlayerInv, TypeOK
  <2> QED BY <1>2, <1>3, <2>1 DEF PlayerInv, TypeOK, IsFrames, Index, Position
<1>6. NestingInv'
  BY <1>1, <1>2, <1>3, <1>4 DEF PlayerInv, NestingInv
<1>7. CheckpointInv'
  BY <1>1, <1>2, <1>3, <1>4 DEF PlayerInv, CheckpointInv
<1>8. ProgressInv'
  <2>1. SUFFICES ASSUME NEW k \in DOMAIN stack
                 PROVE  /\ stack'[k].skip \subseteq frames[stack[k].wf]
                        /\ \/ frames[stack[k].wf] \subseteq stack'[k].skip \cup 1..(stack'[k].at - 1)
                           \/ k = 1 /\ reentered
                        /\ \A i \in 1..(stack'[k].at - 1) : i \in frames[stack[k].wf]
                        /\ stack'[k].pc # "next" => stack'[k].at \notin stack'[k].skip
    BY <1>2, <1>3, <1>4 DEF ProgressInv
  <2>2. CASE k # n
    BY <2>2, <1>2 DEF PlayerInv, ProgressInv
  <2>3. CASE k = n
    <3>1. /\ Top.skip \subseteq frames[Top.wf]
          /\ frames[Top.wf] \subseteq Top.skip \cup 1..(Top.at - 1) \/ (n = 1 /\ reentered)
          /\ \A i \in 1..(Top.at - 1) : i \in frames[Top.wf]
      BY <1>1 DEF PlayerInv, ProgressInv
    <3>2. stack'[k] = a /\ stack[k].wf = Top.wf BY <2>3, <1>1, <1>2
    <3>3. Top.at \in Nat \ {0} /\ Top.skip \subseteq Nat BY <1>1 DEF Activation
    <3> QED BY <3>1, <3>2, <3>3
  <2> QED BY <2>2, <2>3
<1>9. SavedInv' /\ DoneWasDone'
  BY <1>3 DEF PlayerInv, SavedInv, DoneWasDone, AllDone, Done, Begun, Index
<1> QED BY <1>5, <1>6, <1>7, <1>8, <1>9 DEF PlayerInv

\* The innermost execution fails.
LEMMA FailKeeps ==
  ASSUME PlayerInv, stack # <<>>, Fail
  PROVE  PlayerInv'
<1> DEFINE n == Len(stack)
<1>1. /\ n \in Nat \ {0} /\ n \in DOMAIN stack /\ DOMAIN stack = 1..n
      /\ \A k \in DOMAIN stack : stack[k] \in Activation
  BY InnermostFacts DEF PlayerInv
<1>2. UNCHANGED <<frames, checkpoint, attached, controller, file, synced,
                  reentered, performed, claims, players, runs>>
  BY DEF Fail
<1>3. SavedInv' /\ DoneWasDone'
  BY <1>2 DEF PlayerInv, SavedInv, DoneWasDone, AllDone, Done, Begun, Index
<1>4. CASE n = 1
  <2>1. stack' = <<>> /\ DOMAIN stack' = {} BY <1>4 DEF Fail
  <2>2. TypeOK'
    <3>1. <<>> \in Seq(Activation) BY EmptySeq
    <3>2. \A k \in DOMAIN stack' : stack'[k].pc # "next" => stack'[k].at \in Index(stack'[k].wf)
      BY <2>1
    <3> QED BY <2>1, <1>2, <3>1, <3>2 DEF PlayerInv, TypeOK, IsFrames, Index, Position
  <2>3. NestingInv' /\ ProgressInv' BY <2>1 DEF NestingInv, ProgressInv
  <2>4. CheckpointInv' BY <2>1, <1>2 DEF PlayerInv, CheckpointInv
  <2> QED BY <2>2, <2>3, <2>4, <1>3 DEF PlayerInv
<1>5. CASE n > 1
  <2>1. /\ Below \in Seq(Activation) /\ Below # <<>>
        /\ Len(Below) = n - 1 /\ DOMAIN Below = 1..(n - 1)
        /\ \A k \in 1..(n - 1) : Below[k] = stack[k]
    BY <1>5, BelowFacts DEF PlayerInv
  <2>2. stack' = [Below EXCEPT ![n - 1].pc = "raised"]
    BY <1>1, <1>5 DEF Fail
  <2>3. /\ stack' \in Seq(Activation) /\ stack' # <<>> /\ Len(stack') = n - 1
        /\ DOMAIN stack' = 1..(n - 1)
        /\ \A k \in 1..(n - 1) : k # n - 1 => stack'[k] = stack[k]
        /\ stack'[n - 1] = [stack[n - 1] EXCEPT !.pc = "raised"]
    <3> DEFINE b == [stack[n - 1] EXCEPT !.pc = "raised"]
    <3>1. stack[n - 1] \in Activation BY <1>1, <1>5
    <3>2. b \in Activation BY <3>1 DEF Activation, PC
    <3>3. stack' = [Below EXCEPT ![n - 1] = b] BY <1>1, <1>5, <2>1, <2>2
    <3> HIDE DEF b
    <3>4. n - 1 \in 1..Len(Below) /\ Len(Below) = n - 1 /\ n - 1 # 0
      BY <1>1, <1>5, <2>1
    <3>5. Below \in Seq(Activation) BY <2>1
    <3>6. /\ stack' \in Seq(Activation) /\ Len(stack') = n - 1
          /\ \A k \in 1..(n - 1) : stack'[k] = IF k = n - 1 THEN b ELSE Below[k]
      BY <3>2, <3>3, <3>4, <3>5, ExceptSeq
    <3>7. DOMAIN stack' = 1..(n - 1) BY <3>6, LenProperties
    <3>8. stack' # <<>> BY <3>4, <3>6, EmptySeq
    <3>9. stack'[n - 1] = b BY <3>4, <3>6
    <3>10. \A k \in 1..(n - 1) : k # n - 1 => stack'[k] = stack[k]
      BY <2>1, <3>6
    <3> QED BY <3>6, <3>7, <3>8, <3>9, <3>10 DEF b
  <2>4. \A k \in 1..(n - 1) :
          /\ stack'[k].wf = stack[k].wf /\ stack'[k].at = stack[k].at
          /\ stack'[k].skip = stack[k].skip
          /\ k < n - 1 => stack'[k].pc = stack[k].pc
          /\ stack[k].pc = "nested"
    <3>1. \A k \in 1..(n - 1) : stack[k].pc = "nested"
      BY <1>1 DEF PlayerInv, NestingInv
    <3>2. stack[n - 1] \in Activation BY <1>1, <1>5
    <3>3. /\ stack'[n - 1].wf = stack[n - 1].wf /\ stack'[n - 1].at = stack[n - 1].at
          /\ stack'[n - 1].skip = stack[n - 1].skip
      BY <2>3, <3>2 DEF Activation
    <3>4. ASSUME NEW k \in 1..(n - 1), k # n - 1
          PROVE  stack'[k] = stack[k]
      BY <2>3, <3>4
    <3>5. ASSUME NEW k \in 1..(n - 1)
          PROVE  /\ stack'[k].wf = stack[k].wf /\ stack'[k].at = stack[k].at
                 /\ stack'[k].skip = stack[k].skip
                 /\ k < n - 1 => stack'[k].pc = stack[k].pc
      <4>1. CASE k = n - 1 BY <4>1, <3>3, <1>1
      <4>2. CASE k # n - 1 BY <4>2, <3>4
      <4> QED BY <4>1, <4>2
    <3> QED BY <3>1, <3>5
  <2>5. stack'[n - 1].pc = "raised"
    <3>1. stack[n - 1] \in Activation BY <1>1, <1>5
    <3> QED BY <2>3, <3>1 DEF Activation
  <2>6. TypeOK'
    <3>0. ASSUME NEW k \in 1..(n - 1)
          PROVE  stack[k].at \in Index(stack[k].wf)
      <4>1. k \in DOMAIN stack /\ stack[k].pc = "nested" BY <1>1, <2>4
      <4> QED BY <4>1 DEF PlayerInv, TypeOK
    <3>1. \A k \in DOMAIN stack' : stack'[k].pc # "next" => stack'[k].at \in Index(stack'[k].wf)
      BY <2>3, <2>4, <3>0
    <3> QED BY <1>2, <2>3, <3>1 DEF PlayerInv, TypeOK, IsFrames, Index, Position
  <2>7. NestingInv'
    <3>1. \A j, k \in DOMAIN stack' \ {1} : stack'[j].wf = stack'[k].wf => j = k
      BY <1>1, <2>3, <2>4 DEF PlayerInv, NestingInv
    <3>2. \A k \in DOMAIN stack' :
            /\ stack'[k].wf \in DOMAIN frames
            /\ k = 1 => stack'[k].wf \in Root
            /\ k # 1 /\ stack'[k].wf = stack'[1].wf => reentered
      BY <1>1, <1>5, <2>3, <2>4 DEF PlayerInv, NestingInv
    <3>3. \A k \in DOMAIN stack' : k < Len(stack') =>
            /\ stack'[k].pc = "nested"
            /\ Steps[stack'[k].wf][stack'[k].at].of = stack'[k + 1].wf
      BY <1>1, <2>3, <2>4 DEF PlayerInv, NestingInv
    <3> QED BY <1>2, <2>3, <2>5, <3>1, <3>2, <3>3 DEF NestingInv
  <2>8. CheckpointInv'
    BY <1>1, <1>2, <1>5, <2>3, <2>4 DEF PlayerInv, CheckpointInv
  <2>9. ProgressInv'
    <3>1. \A k \in 1..(n - 1) : stack[k].at \notin stack[k].skip
      BY <1>1, <2>4 DEF PlayerInv, ProgressInv
    <3> QED BY <1>1, <1>2, <2>3, <2>4, <3>1 DEF PlayerInv, ProgressInv
  <2> QED BY <2>6, <2>7, <2>8, <2>9, <1>3 DEF PlayerInv
<1> QED BY <1>1, <1>4, <1>5

-----------------------------------------------------------------------------
\* A step is completed, that of the innermost activation or, when a nested workflow
\* has ended, that of the one below it: the d-th of the stack.

\* A saved checkpoint is bound like the player's and lists what the player does.
LEMMA ExportedFacts ==
  ASSUME NEW fs, IsFrames(fs), NEW cp \in [of : Workflow \cup {Unbound}, done : SUBSET Nat],
         cp.of # Unbound => cp.of \in DOMAIN fs
  PROVE  /\ Exported(fs, cp) \in [of : Workflow \cup {Unbound}, done : SUBSET Nat,
                                  frames : {fs}, exists : BOOLEAN]
         /\ Exported(fs, cp).frames = fs /\ Exported(fs, cp).of = cp.of
         /\ \A w \in Workflow : Begun(fs, cp, w) \in SUBSET Nat
         /\ \A w \in Workflow : Begun(fs, cp, w) = Begun(fs, Exported(fs, cp), w)
<1>1. Begun(fs, cp, cp.of) \in SUBSET Nat BY DEF Begun, IsFrames
<1>2. \A w \in Workflow : Begun(fs, cp, w) \in SUBSET Nat BY DEF Begun, IsFrames
<1>3. Unbound \notin DOMAIN fs BY StepsAssumption DEF IsFrames
<1>4. /\ Exported(fs, cp).of = cp.of /\ Exported(fs, cp).frames = fs
      /\ Exported(fs, cp).done = Begun(fs, cp, cp.of)
  BY DEF Exported
<1>5. ASSUME NEW w \in Workflow, w \notin DOMAIN fs
      PROVE  Begun(fs, cp, w) = Begun(fs, Exported(fs, cp), w)
  <2>1. CASE cp.of = Unbound
    <3>1. Begun(fs, cp, w) = cp.done BY <1>5, <2>1 DEF Begun
    <3>2. Exported(fs, cp).done = cp.done BY <1>3, <1>4, <2>1 DEF Begun
    <3>3. Begun(fs, Exported(fs, cp), w) = Exported(fs, cp).done
      BY <1>4, <1>5, <2>1 DEF Begun
    <3> QED BY <3>1, <3>2, <3>3
  <2>2. CASE cp.of # Unbound
    BY <1>4, <1>5, <2>2 DEF Begun
  <2> QED BY <2>1, <2>2
<1>6. ASSUME NEW w \in Workflow, w \in DOMAIN fs
      PROVE  Begun(fs, cp, w) = Begun(fs, Exported(fs, cp), w)
  BY <1>6 DEF Begun
<1>7. Exported(fs, cp) \in [of : Workflow \cup {Unbound}, done : SUBSET Nat,
                            frames : {fs}, exists : BOOLEAN]
  BY <1>1 DEF Exported
<1> QED BY <1>2, <1>4, <1>5, <1>6, <1>7

\* Completing a step keeps the invariant when the step was done or vouched for.
LEMMA CompleteKeeps ==
  ASSUME PlayerInv, NEW rest \in Seq(Activation), NEW d \in 1..Len(stack),
         stack # <<>>, Len(rest) = d, \A k \in 1..d : rest[k] = stack[k],
         stack[d].pc # "next", Complete(rest),
         claims \subseteq claims',
         claims' \subseteq [step : Workflow \X Nat, by : Everyone],
         DoneWith(claims', performed, frames', stack[d].wf, stack[d].at)
  PROVE  PlayerInv'
<1> DEFINE W == stack[d].wf
           A == stack[d].at
           next == [stack[d] EXCEPT !.at = @ + 1, !.pc = "next", !.left = 0]
<1>1. /\ Len(stack) \in Nat \ {0} /\ DOMAIN stack = 1..Len(stack)
      /\ \A k \in DOMAIN stack : stack[k] \in Activation
  BY InnermostFacts DEF PlayerInv
<1>2. d \in Nat \ {0} /\ d <= Len(stack) /\ d \in DOMAIN stack BY <1>1
<1>3. stack[d] \in Activation /\ W \in Workflow /\ A \in Nat \ {0}
  BY <1>1, <1>2 DEF Activation
<1>4. W \in DOMAIN frames /\ A \in Index(W) /\ A \notin stack[d].skip
  <2>1. A \in Index(W) BY <1>2 DEF PlayerInv, TypeOK
  <2>2. W \in DOMAIN frames BY <1>2 DEF PlayerInv, NestingInv
  <2>3. A \notin stack[d].skip BY <1>2 DEF PlayerInv, ProgressInv
  <2> QED BY <1>2, <2>1, <2>2, <2>3
<1>5. /\ next \in Activation /\ next.wf = W /\ next.at = A + 1
      /\ next.skip = stack[d].skip /\ next.pc = "next"
  <2>1. A + 1 \in Nat \ {0} /\ 0 \in Nat BY <1>3
  <2>2. "next" \in PC BY DEF PC
  <2> QED BY <1>3, <2>1, <2>2 DEF Activation
<1>6. rest[d] = stack[d] BY <1>2
<1>7. /\ frames' = [frames EXCEPT ![W] = @ \cup {A}]
      /\ stack' = [rest EXCEPT ![d] = next]
      /\ Persist(rest, frames')
      /\ UNCHANGED <<checkpoint, attached, controller, reentered, performed,
                     players, runs>>
  BY <1>6 DEF Complete
<1> HIDE DEF next
<1>8. /\ stack' \in Seq(Activation) /\ Len(stack') = d /\ stack' # <<>>
      /\ DOMAIN stack' = 1..d /\ stack'[d] = next
      /\ \A k \in 1..d : k # d => stack'[k] = stack[k]
  <2>1. d \in 1..Len(rest) BY <1>2
  <2>2. /\ stack' \in Seq(Activation) /\ Len(stack') = d
        /\ \A k \in 1..d : stack'[k] = IF k = d THEN next ELSE rest[k]
    BY <1>5, <1>7, <2>1, ExceptSeq
  <2>3. DOMAIN stack' = 1..d /\ stack' # <<>>
    BY <1>2, <2>2, LenProperties, EmptySeq
  <2> QED BY <1>2, <2>2, <2>3
<1>9. \A k \in 1..d : stack'[k].wf = stack[k].wf /\ stack'[k].skip = stack[k].skip
  BY <1>5, <1>8
<1>10. /\ IsFrames(frames) /\ IsFrames(file.frames)
       /\ checkpoint \in [of : Workflow \cup {Unbound}, done : SUBSET Nat]
       /\ checkpoint.of # Unbound => checkpoint.of \in DOMAIN frames
       /\ checkpoint.of \in Root \cup {Unbound}
  BY DEF PlayerInv, TypeOK, CheckpointInv
<1>11. /\ DOMAIN frames' = DOMAIN frames /\ IsFrames(frames')
       /\ frames'[W] = frames[W] \cup {A}
       /\ \A w \in DOMAIN frames : w # W => frames'[w] = frames[w]
       /\ \A w \in DOMAIN frames : frames[w] \subseteq frames'[w]
  <2>1. A \in Nat BY <1>3
  <2> QED BY <1>4, <1>7, <1>10, <2>1 DEF IsFrames
<1>12. /\ Exported(frames', checkpoint) \in
            [of : Workflow \cup {Unbound}, done : SUBSET Nat,
             frames : {frames'}, exists : BOOLEAN]
       /\ Exported(frames', checkpoint).frames = frames'
       /\ Exported(frames', checkpoint).of = checkpoint.of
       /\ \A w \in Workflow : Begun(frames', checkpoint, w)
                              = Begun(frames', Exported(frames', checkpoint), w)
  BY <1>10, <1>11, ExportedFacts
<1>13. \/ /\ d = 1 /\ attached
          /\ file' = Exported(frames', checkpoint) /\ synced' = TRUE
       \/ d = 1 /\ attached /\ file' = file /\ synced' = FALSE
       \/ ~(d = 1 /\ attached) /\ file' = file
          /\ synced' = (synced /\ (d = 1 \/ W \notin Root))
  BY <1>6, <1>7 DEF Persist, Persists
<1>14. TypeOK'
  <2>1. ASSUME NEW k \in 1..d, stack'[k].pc # "next"
        PROVE  stack'[k].at \in Index(stack'[k].wf)
    <3>1. k # d BY <1>5, <1>8, <2>1
    <3>2. stack'[k] = stack[k] /\ k \in DOMAIN stack BY <1>1, <1>2, <1>8, <3>1
    <3> QED BY <2>1, <3>2 DEF PlayerInv, TypeOK
  <2>2. /\ IsFrames(file'.frames)
        /\ file' \in [of : Workflow \cup {Unbound}, done : SUBSET Nat,
                      frames : {file'.frames}, exists : BOOLEAN]
        /\ synced' \in BOOLEAN
    BY <1>10, <1>11, <1>12, <1>13 DEF PlayerInv, TypeOK
  <2> QED BY <1>7, <1>8, <1>11, <2>1, <2>2
      DEF PlayerInv, TypeOK, IsFrames, Index, Position, Everyone
<1>15. NestingInv'
  <2>1. \A j, k \in DOMAIN stack' \ {1} : stack'[j].wf = stack'[k].wf => j = k
    BY <1>1, <1>2, <1>8, <1>9 DEF PlayerInv, NestingInv
  <2>2. \A k \in DOMAIN stack' :
          /\ stack'[k].wf \in DOMAIN frames'
          /\ k = 1 => stack'[k].wf \in Root
          /\ k # 1 /\ stack'[k].wf = stack'[1].wf => reentered'
    BY <1>1, <1>2, <1>7, <1>8, <1>9, <1>11 DEF PlayerInv, NestingInv
  <2>3. ASSUME NEW k \in 1..d, k < d
        PROVE  /\ stack'[k].pc = "nested"
               /\ Steps[stack'[k].wf][stack'[k].at].of = stack'[k + 1].wf
    <3>1. k \in DOMAIN stack /\ k < Len(stack) /\ k + 1 \in 1..d
      BY <1>1, <1>2, <2>3
    <3>2. stack'[k] = stack[k] /\ stack'[k + 1].wf = stack[k + 1].wf
      BY <1>8, <1>9, <2>3, <3>1
    <3> QED BY <3>1, <3>2 DEF PlayerInv, NestingInv
  <2>4. stack'[d].pc # "nested" BY <1>5, <1>8
  <2> QED BY <1>8, <2>1, <2>2, <2>3, <2>4 DEF NestingInv
<1>16. CheckpointInv'
  <2>1. checkpoint'.of = stack'[1].wf BY <1>2, <1>7, <1>9 DEF PlayerInv, CheckpointInv
  <2>2. file'.of \in Root \cup {Unbound} /\ (file'.of # Unbound => file'.of \in DOMAIN file'.frames)
    BY <1>10, <1>11, <1>12, <1>13 DEF PlayerInv, CheckpointInv
  <2> QED BY <1>7, <1>10, <1>11, <2>1, <2>2 DEF CheckpointInv
<1>17. ProgressInv'
  <2>1. SUFFICES ASSUME NEW k \in 1..d
                 PROVE  /\ stack'[k].skip \subseteq frames'[stack'[k].wf]
                        /\ \/ frames'[stack'[k].wf] \subseteq stack'[k].skip \cup 1..(stack'[k].at - 1)
                           \/ k = 1 /\ reentered'
                        /\ \A i \in 1..(stack'[k].at - 1) : i \in frames'[stack'[k].wf]
                        /\ stack'[k].pc # "next" => stack'[k].at \notin stack'[k].skip
    BY <1>8 DEF ProgressInv
  <2>2. k \in DOMAIN stack BY <1>1, <1>2
  <2>3. CASE k # d
    <3>1. stack[k].wf \in DOMAIN frames /\ (stack[k].wf # W \/ (k = 1 /\ reentered))
      <4>1. d # 1 BY <1>2, <2>3
      <4> QED BY <1>2, <2>2, <2>3, <4>1 DEF PlayerInv, NestingInv
    <3>2. /\ frames[stack[k].wf] \subseteq frames'[stack[k].wf]
          /\ frames'[stack[k].wf] = frames[stack[k].wf] \/ (k = 1 /\ reentered')
      BY <1>7, <1>11, <3>1
    <3>3. stack'[k] = stack[k] /\ reentered' = reentered BY <1>7, <1>8, <2>3
    <3>4. /\ stack[k].skip \subseteq frames[stack[k].wf]
          /\ \/ frames[stack[k].wf] \subseteq stack[k].skip \cup 1..(stack[k].at - 1)
             \/ k = 1 /\ reentered
          /\ \A i \in 1..(stack[k].at - 1) : i \in frames[stack[k].wf]
          /\ stack[k].pc # "next" => stack[k].at \notin stack[k].skip
      BY <2>2 DEF PlayerInv, ProgressInv
    <3> QED BY <3>2, <3>3, <3>4
  <2>4. CASE k = d
    <3>1. /\ stack[d].skip \subseteq frames[W]
          /\ frames[W] \subseteq stack[d].skip \cup 1..(A - 1) \/ (d = 1 /\ reentered)
          /\ \A i \in 1..(A - 1) : i \in frames[W]
      BY <1>2 DEF PlayerInv, ProgressInv
    <3>2. \A i : i \in 1..(A + 1 - 1) <=> i = A \/ i \in 1..(A - 1) BY <1>3
    <3>3. /\ stack'[k].wf = W /\ stack'[k].at = A + 1 /\ stack'[k].pc = "next"
          /\ stack'[k].skip = stack[d].skip
      BY <1>5, <1>8, <2>4
    <3>4. frames'[W] = frames[W] \cup {A} BY <1>11
    <3>5. stack[d].skip \subseteq frames'[W] BY <3>1, <3>4
    <3>6. frames'[W] \subseteq stack[d].skip \cup 1..(A + 1 - 1) \/ (d = 1 /\ reentered')
      BY <1>7, <3>1, <3>2, <3>4
    <3>7. \A i \in 1..(A + 1 - 1) : i \in frames'[W] BY <3>1, <3>2, <3>4
    <3>8. stack'[k].at - 1 = A + 1 - 1
      <4>1. stack'[k].at = A + 1 BY <3>3
      <4>2. A \in Nat BY <1>3
      <4>3. \A b : b = A + 1 => b - 1 = A + 1 - 1 BY <4>2
      <4> QED BY <4>1, <4>3
    <3>9. /\ stack'[k].skip \subseteq frames'[stack'[k].wf]
          /\ \A i \in 1..(stack'[k].at - 1) : i \in frames'[stack'[k].wf]
      BY <3>3, <3>5, <3>7, <3>8
    <3>10. \/ frames'[stack'[k].wf] \subseteq stack'[k].skip \cup 1..(stack'[k].at - 1)
           \/ k = 1 /\ reentered'
      BY <2>4, <3>3, <3>6, <3>8
    <3> QED BY <3>3, <3>9, <3>10
  <2> QED BY <2>3, <2>4
<1>18. SavedInv'
  <2>1. SUFFICES ASSUME attached, synced', NEW r \in Root
                 PROVE  Begun(frames', checkpoint, r) \subseteq Begun(file'.frames, file', r)
    BY <1>7 DEF SavedInv
  <2>2. r \in Workflow BY BoundsAssumption
  <2>3. CASE file' = Exported(frames', checkpoint)
    BY <1>12, <2>2, <2>3
  <2>4. CASE /\ ~(d = 1 /\ attached) /\ file' = file
             /\ synced' = (synced /\ (d = 1 \/ W \notin Root))
    <3>1. r # W /\ synced BY <2>1, <2>4
    <3>2. Begun(frames', checkpoint, r) = Begun(frames, checkpoint, r)
      BY <1>11, <3>1 DEF Begun
    <3> QED BY <2>1, <2>4, <3>2 DEF PlayerInv, SavedInv
  <2> QED BY <1>13, <2>1, <2>3, <2>4
<1>19. DoneWasDone'
  <2>1. claims \subseteq claims' /\ performed' = performed BY <1>7
  <2>2. /\ AllDoneWith(claims, performed, frames)
        /\ AllDoneWith(claims, performed, file.frames)
    BY DoneMeans DEF PlayerInv
  <2>3. ASSUME NEW w \in DOMAIN frames', NEW i \in frames'[w] \cap Index(w)
        PROVE  DoneWith(claims', performed, frames', w, i)
    <3>1. CASE w = W /\ i = A BY <3>1
    <3>2. CASE ~(w = W /\ i = A)
      <4>1. w \in DOMAIN frames /\ i \in frames[w] BY <1>11, <2>3, <3>2
      <4>2. DoneWith(claims, performed, frames, w, i)
        BY <2>2, <2>3, <4>1 DEF AllDoneWith
      <4> QED BY <1>11, <2>1, <4>2, DoneGrows
    <3> QED BY <3>1, <3>2
  <2>4. AllDoneWith(claims', performed, file.frames)
    <3>1. ASSUME NEW w \in DOMAIN file.frames, NEW i \in file.frames[w] \cap Index(w)
          PROVE  DoneWith(claims', performed, file.frames, w, i)
      BY <2>1, <2>2 DEF AllDoneWith, DoneWith
    <3> QED BY <3>1 DEF AllDoneWith
  <2>5. AllDoneWith(claims', performed, frames') BY <2>3 DEF AllDoneWith
  <2>6. file'.frames = frames' \/ file'.frames = file.frames BY <1>12, <1>13
  <2>7. AllDoneWith(claims', performed, file'.frames) BY <2>4, <2>5, <2>6
  <2> QED BY <2>1, <2>5, <2>7, DoneMeans
<1> QED BY <1>14, <1>15, <1>16, <1>17, <1>18, <1>19 DEF PlayerInv

-----------------------------------------------------------------------------
\* An execution of w begins on the activations of "below": none for a root, else
\* the stack whose innermost activation now waits for it.
LEMMA EnterKeeps ==
  ASSUME PlayerInv, NEW w \in Workflow, NEW below \in Seq(Activation), Enter(w, below),
         UNCHANGED <<attached, controller, file, synced, performed, players>>,
         runs' \in 0..MaxRuns,
         Len(below) = Len(stack),
         stack = <<>> => w \in Root,
         \A k \in DOMAIN stack :
           /\ below[k].wf = stack[k].wf /\ below[k].at = stack[k].at
           /\ below[k].skip = stack[k].skip /\ below[k].pc = "nested"
           /\ k # 1 => stack[k].wf # w
           /\ stack[k].at \in Index(stack[k].wf) \ stack[k].skip
           /\ k = Len(stack) => Steps[stack[k].wf][stack[k].at].of = w
  PROVE  PlayerInv'
<1> DEFINE n == Len(stack)
           done == Begun(frames, checkpoint, w)
           new == [wf |-> w, at |-> 1, skip |-> done, pc |-> "next", left |-> 0]
<1>1. stack \in Seq(Activation) /\ n \in Nat /\ DOMAIN stack = 1..n
  <2>1. stack \in Seq(Activation) BY DEF PlayerInv, TypeOK
  <2> QED BY <2>1, LenProperties
<1>2. /\ IsFrames(frames) /\ IsFrames(file.frames)
      /\ checkpoint \in [of : Workflow \cup {Unbound}, done : SUBSET Nat]
      /\ checkpoint.of # Unbound => checkpoint.of \in DOMAIN frames
      /\ checkpoint.of \in Root \cup {Unbound}
  BY DEF PlayerInv, TypeOK, CheckpointInv
<1>3. done \in SUBSET Nat BY <1>2, ExportedFacts
<1>4. new \in Activation BY <1>3 DEF Activation, PC
<1>5. /\ frames' = [v \in DOMAIN frames \cup {w} |-> IF v = w THEN done ELSE frames[v]]
      /\ stack' = Append(below, new)
      /\ checkpoint' = IF below = <<>> THEN [of |-> w, done |-> {}] ELSE checkpoint
      /\ reentered' = (below # <<>> /\ (reentered \/ w = below[1].wf))
      /\ claims' = claims \cup
           IF w \notin DOMAIN frames /\ checkpoint.of = Unbound
           THEN {[step |-> <<w, i>>, by |-> "old file"] : i \in checkpoint.done} ELSE {}
  BY DEF Enter, Snapshot
<1>6. new.wf = w /\ new.at = 1 /\ new.skip = done /\ new.pc = "next" OBVIOUS
<1>7. below = <<>> <=> n = 0 BY <1>1, EmptySeq, LenProperties
<1>8. stack = <<>> <=> n = 0 BY <1>1, EmptySeq, LenProperties
<1> HIDE DEF new
<1>9. /\ stack' \in Seq(Activation) /\ Len(stack') = n + 1 /\ stack' # <<>>
      /\ DOMAIN stack' = 1..(n + 1) /\ stack'[n + 1] = new
      /\ \A k \in 1..n : stack'[k] = below[k]
  <2>1. /\ stack' \in Seq(Activation) /\ Len(stack') = n + 1 /\ stack' # <<>>
        /\ stack'[n + 1] = new /\ \A k \in 1..n : stack'[k] = below[k]
    <3>1. stack' = Append(below, new) BY <1>5
    <3>2. Len(below) = n OBVIOUS
    <3> HIDE DEF n
    <3> QED BY <1>4, <3>1, <3>2, AppendProperties
  <2> QED BY <2>1, LenProperties
<1>10. /\ DOMAIN frames' = DOMAIN frames \cup {w} /\ IsFrames(frames')
       /\ frames'[w] = done
       /\ \A v \in DOMAIN frames : frames'[v] = frames[v]
  BY <1>2, <1>3, <1>5 DEF IsFrames, Begun
<1>11. /\ claims \subseteq claims'
       /\ claims' \subseteq [step : Workflow \X Nat, by : Everyone]
  <2>1. claims \subseteq [step : Workflow \X Nat, by : Everyone]
    BY DEF PlayerInv, TypeOK, Everyone
  <2>2. \A i \in checkpoint.done :
          [step |-> <<w, i>>, by |-> "old file"] \in [step : Workflow \X Nat, by : Everyone]
    BY <1>2 DEF Everyone
  <2>3. claims' \subseteq claims \cup {[step |-> <<w, i>>, by |-> "old file"] : i \in checkpoint.done}
    BY <1>5
  <2>4. claims \subseteq claims' BY <1>5
  <2>5. claims' \subseteq [step : Workflow \X Nat, by : Everyone]
    <3>1. {[step |-> <<w, i>>, by |-> "old file"] : i \in checkpoint.done}
            \subseteq [step : Workflow \X Nat, by : Everyone]
      BY <2>2, Zenon
    <3> QED BY <2>1, <2>3, <3>1, Zenon
  <2> QED BY <2>4, <2>5
<1>12. TypeOK'
  <2>1. ASSUME NEW k \in 1..(n + 1), stack'[k].pc # "next"
        PROVE  stack'[k].at \in Index(stack'[k].wf)
    <3>1. k # n + 1 BY <1>6, <1>9, <2>1
    <3>2. k \in 1..n BY <1>1, <3>1
    <3> QED BY <1>1, <1>9, <3>2
  <2>2. checkpoint' \in [of : Workflow \cup {Unbound}, done : SUBSET Nat]
    BY <1>2, <1>5
  <2>3. reentered' \in BOOLEAN BY <1>5
  <2> QED BY <1>2, <1>9, <1>10, <1>11, <2>1, <2>2, <2>3
      DEF PlayerInv, TypeOK, IsFrames, Index, Position, Everyone
<1>13. \A k \in 1..n : (k # 1 => stack[k].wf # w) /\ stack'[k].wf = stack[k].wf
  BY <1>1, <1>9
<1>14. NestingInv'
  <2>1. ASSUME NEW j \in 1..(n + 1), NEW k \in 1..(n + 1), j # 1, k # 1,
               stack'[j].wf = stack'[k].wf
        PROVE  j = k
    <3>1. CASE j \in 1..n /\ k \in 1..n
      <4>1. j \in DOMAIN stack \ {1} /\ k \in DOMAIN stack \ {1}
        BY <1>1, <2>1, <3>1
      <4>2. stack[j].wf = stack[k].wf BY <1>13, <2>1, <3>1
      <4> QED BY <4>1, <4>2 DEF PlayerInv, NestingInv
    <3>2. CASE j = n + 1 /\ k \in 1..n BY <1>6, <1>9, <1>13, <2>1, <3>2
    <3>3. CASE k = n + 1 /\ j \in 1..n BY <1>6, <1>9, <1>13, <2>1, <3>3
    <3> QED BY <1>1, <3>1, <3>2, <3>3
  <2>2. ASSUME NEW k \in 1..(n + 1)
        PROVE  /\ stack'[k].wf \in DOMAIN frames'
               /\ k = 1 => stack'[k].wf \in Root
               /\ k # 1 /\ stack'[k].wf = stack'[1].wf => reentered'
    <3>0. n # 0 => below # <<>> /\ 1 \in 1..n /\ below[1].wf = stack'[1].wf
      BY <1>1, <1>7, <1>9
    <3>1. CASE k \in 1..n
      <4>1. n # 0 /\ 1 \in 1..n BY <1>1, <3>1
      <4>2. /\ stack'[k].wf = stack[k].wf /\ stack[k].wf \in DOMAIN frames
            /\ k = 1 => stack[k].wf \in Root
            /\ k # 1 /\ stack[k].wf = stack[1].wf => reentered
            /\ stack'[1].wf = stack[1].wf
        BY <1>1, <1>13, <3>1, <4>1 DEF PlayerInv, NestingInv
      <4> QED BY <1>5, <1>10, <3>0, <4>1, <4>2
    <3>2. CASE k = n + 1
      <4>1. stack'[k].wf = w BY <1>6, <1>9, <3>2
      <4>2. n + 1 = 1 <=> n = 0 BY <1>1
      <4> QED BY <1>5, <1>8, <1>10, <3>0, <3>2, <4>1, <4>2
    <3> QED BY <1>1, <3>1, <3>2
  <2>3. ASSUME NEW k \in 1..(n + 1), k < n + 1
        PROVE  /\ stack'[k].pc = "nested"
               /\ Steps[stack'[k].wf][stack'[k].at].of = stack'[k + 1].wf
    <3>1. k \in 1..n BY <1>1, <2>3
    <3>2. stack'[k].pc = "nested" /\ stack'[k].wf = stack[k].wf /\ stack'[k].at = stack[k].at
      BY <1>1, <1>9, <3>1
    <3>3. CASE k = n
      BY <1>1, <1>6, <1>9, <3>1, <3>2, <3>3
    <3>4. CASE k # n
      <4>1. k + 1 \in 1..n /\ k < n BY <1>1, <3>1, <3>4
      <4>2. stack'[k + 1].wf = stack[k + 1].wf BY <1>13, <4>1
      <4> QED BY <1>1, <3>1, <3>2, <4>1, <4>2 DEF PlayerInv, NestingInv
    <3> QED BY <3>3, <3>4
  <2>4. stack'[n + 1].pc # "nested" BY <1>6, <1>9
  <2> QED BY <1>9, <2>1, <2>2, <2>3, <2>4 DEF NestingInv
<1>15. CheckpointInv'
  <2>1. CASE n = 0
    <3>1. checkpoint' = [of |-> w, done |-> {}] /\ w \in Root BY <1>5, <1>7, <1>8, <2>1
    <3>2. stack'[1].wf = w BY <1>6, <1>9, <2>1
    <3> QED BY <1>10, <3>1, <3>2 DEF PlayerInv, CheckpointInv
  <2>2. CASE n # 0
    <3>1. checkpoint' = checkpoint BY <1>5, <1>7, <2>2
    <3>2. 1 \in 1..n BY <1>1, <2>2
    <3>3. checkpoint.of = stack[1].wf BY <1>8, <2>2 DEF PlayerInv, CheckpointInv
    <3>4. stack'[1].wf = stack[1].wf BY <1>13, <3>2
    <3> QED BY <1>2, <1>10, <3>1, <3>3, <3>4 DEF PlayerInv, CheckpointInv
  <2> QED BY <2>1, <2>2
<1>16. ProgressInv'
  <2>1. SUFFICES ASSUME NEW k \in 1..(n + 1)
                 PROVE  /\ stack'[k].skip \subseteq frames'[stack'[k].wf]
                        /\ \/ frames'[stack'[k].wf] \subseteq stack'[k].skip \cup 1..(stack'[k].at - 1)
                           \/ k = 1 /\ reentered'
                        /\ \A i \in 1..(stack'[k].at - 1) : i \in frames'[stack'[k].wf]
                        /\ stack'[k].pc # "next" => stack'[k].at \notin stack'[k].skip
    BY <1>9 DEF ProgressInv
  <2>2. CASE k \in 1..n
    <3>1. /\ stack'[k].wf = stack[k].wf /\ stack'[k].at = stack[k].at
          /\ stack'[k].skip = stack[k].skip /\ stack[k].at \notin stack[k].skip
      BY <1>1, <1>9, <2>2
    <3>2. /\ stack[k].skip \subseteq frames[stack[k].wf]
          /\ \/ frames[stack[k].wf] \subseteq stack[k].skip \cup 1..(stack[k].at - 1)
             \/ k = 1 /\ reentered
          /\ \A i \in 1..(stack[k].at - 1) : i \in frames[stack[k].wf]
      BY <1>1, <2>2 DEF PlayerInv, ProgressInv
    <3>5. n # 0 BY <1>1, <2>2
    <3>6. below # <<>> BY <1>7, <3>5
    <3>7. reentered => reentered' BY <1>5, <3>6
    <3>3. stack[k].wf \in DOMAIN frames BY <1>1, <2>2 DEF PlayerInv, NestingInv
    <3>4. frames'[stack[k].wf] = frames[stack[k].wf] BY <1>10, <3>3
    <3> QED BY <3>1, <3>2, <3>4, <3>7
  <2>3. CASE k = n + 1
    <3>1. /\ stack'[k].wf = w /\ stack'[k].at = 1 /\ stack'[k].skip = done
          /\ stack'[k].pc = "next"
      BY <1>6, <1>9, <2>3
    <3>2. 1..(1 - 1) = {} OBVIOUS
    <3> QED BY <1>10, <3>1, <3>2
  <2> QED BY <1>1, <2>2, <2>3
<1>17. SavedInv'
  <2>1. SUFFICES ASSUME attached, synced, NEW r \in Root
                 PROVE  Begun(frames', checkpoint', r) \subseteq Begun(file.frames, file, r)
    BY DEF SavedInv
  <2>2. Begun(frames, checkpoint, r) \subseteq Begun(file.frames, file, r)
    BY <2>1 DEF PlayerInv, SavedInv
  <2>3. CASE n # 0
    <3>1. checkpoint' = checkpoint BY <1>5, <1>7, <2>3
    <3>2. CASE r # w
      <4>1. Begun(frames', checkpoint', r) = Begun(frames, checkpoint, r)
        BY <1>10, <3>1, <3>2 DEF Begun
      <4> QED BY <2>2, <4>1
    <3>3. CASE r = w
      <4>1. Begun(frames', checkpoint', r) = done BY <1>10, <3>3 DEF Begun
      <4> QED BY <2>2, <3>3, <4>1
    <3> QED BY <3>2, <3>3
  <2>4. CASE n = 0
    <3>1. checkpoint'.of = w BY <1>5, <1>7, <2>4
    <3>2. w # Unbound BY StepsAssumption
    <3>3. CASE r = w
      <4>1. Begun(frames', checkpoint', r) = done BY <1>10, <3>3 DEF Begun
      <4> QED BY <2>2, <3>3, <4>1
    <3>4. CASE r # w /\ r \in DOMAIN frames
      <4>1. Begun(frames', checkpoint', r) = frames[r] BY <1>10, <3>4 DEF Begun
      <4>2. Begun(frames, checkpoint, r) = frames[r] BY <3>4 DEF Begun
      <4> QED BY <2>2, <4>1, <4>2
    <3>5. CASE r # w /\ r \notin DOMAIN frames
      <4>1. r \notin DOMAIN frames' BY <1>10, <3>5
      <4>2. checkpoint'.of \notin {Unbound, r} BY <3>1, <3>2, <3>5
      <4>3. Begun(frames', checkpoint', r) = {} BY <4>1, <4>2 DEF Begun
      <4> QED BY <4>3
    <3> QED BY <3>3, <3>4, <3>5
  <2> QED BY <2>3, <2>4
<1>18. DoneWasDone'
  <2>1. /\ AllDoneWith(claims, performed, frames)
        /\ AllDoneWith(claims, performed, file.frames)
    BY DoneMeans DEF PlayerInv
  <2>2. ASSUME NEW v \in DOMAIN frames', NEW i \in frames'[v] \cap Index(v)
        PROVE  DoneWith(claims', performed, frames', v, i)
    <3>1. CASE v \in DOMAIN frames
      <4>1. DoneWith(claims, performed, frames, v, i)
        BY <1>10, <2>1, <2>2, <3>1 DEF AllDoneWith
      <4> QED BY <1>10, <1>11, <4>1, DoneGrows
    <3>2. CASE v \notin DOMAIN frames
      <4>1. v = w /\ i \in done BY <1>10, <2>2, <3>2
      <4>2. checkpoint.of # w BY <1>2, <3>2, <4>1, StepsAssumption
      <4>3. checkpoint.of = Unbound /\ i \in checkpoint.done
        BY <3>2, <4>1, <4>2 DEF Begun
      <4>4. [step |-> <<w, i>>, by |-> "old file"] \in claims'
        BY <1>5, <3>2, <4>1, <4>3
      <4> QED BY <4>1, <4>4 DEF DoneWith, Everyone
    <3> QED BY <3>1, <3>2
  <2>3. ASSUME NEW v \in DOMAIN file.frames, NEW i \in file.frames[v] \cap Index(v)
        PROVE  DoneWith(claims', performed, file.frames, v, i)
    BY <1>11, <2>1 DEF AllDoneWith, DoneWith
  <2>4. AllDoneWith(claims', performed, frames') BY <2>2 DEF AllDoneWith
  <2>5. AllDoneWith(claims', performed, file.frames) BY <2>3 DEF AllDoneWith
  <2> QED BY <2>4, <2>5, DoneMeans
<1> QED BY <1>12, <1>14, <1>15, <1>16, <1>17, <1>18 DEF PlayerInv

-----------------------------------------------------------------------------
\* Every action keeps the invariant

\* The invariant holds of a new player, whatever file it finds.
THEOREM PlayerInit == Init => PlayerInv
<1> SUFFICES ASSUME Init PROVE PlayerInv OBVIOUS
<1>1. /\ DOMAIN frames = {} /\ DOMAIN file.frames = {} /\ stack = <<>> /\ DOMAIN stack = {}
      /\ IsFrames(frames) /\ IsFrames(file.frames)
      /\ file.of = Unbound
      /\ file \in [of : Workflow \cup {Unbound}, done : SUBSET Nat,
                  frames : {file.frames}, exists : BOOLEAN]
  <2>1. DOMAIN NoFrames = {} /\ IsFrames(NoFrames) BY DEF NoFrames, IsFrames
  <2>2. NoFile \in [of : {Unbound}, done : SUBSET Nat, frames : {NoFrames}, exists : BOOLEAN]
    BY DEF NoFile
  <2>4. OldFile \in [of : {Unbound}, done : SUBSET Nat, frames : {NoFrames}, exists : BOOLEAN]
    BY BoundsAssumption DEF OldFile
  <2>5. file \in [of : {Unbound}, done : SUBSET Nat, frames : {NoFrames}, exists : BOOLEAN]
    BY <2>2, <2>4 DEF Init
  <2>6. frames = NoFrames /\ stack = <<>> BY DEF Init
  <2>7. DOMAIN stack = {} BY <2>6
  <2> QED BY <2>1, <2>5, <2>6, <2>7
<1>2. TypeOK
  <2>1. stack \in Seq(Activation) BY <1>1, EmptySeq
  <2>2. /\ 1 \in 1..MaxPlayers /\ 0 \in 0..MaxRuns BY BoundsAssumption
  <2>3. /\ checkpoint = [of |-> Unbound, done |-> {}]
        /\ attached = FALSE /\ synced = FALSE /\ reentered = FALSE
        /\ controller \in {"none", "plain", "orchestrator"}
        /\ performed = {} /\ claims = {} /\ players = 1 /\ runs = 0
    BY DEF Init
  <2> QED BY <1>1, <2>1, <2>2, <2>3 DEF TypeOK
<1>3. NestingInv /\ ProgressInv /\ SavedInv
  BY <1>1 DEF Init, NestingInv, ProgressInv, SavedInv
<1>4. CheckpointInv
  <2>1. checkpoint.of = Unbound BY DEF Init
  <2> QED BY <1>1, <2>1 DEF CheckpointInv
<1>5. DoneWasDone BY <1>1 DEF DoneWasDone, AllDone
<1> QED BY <1>2, <1>3, <1>4, <1>5 DEF PlayerInv

\* What the invariant says of the innermost activation.
LEMMA InnermostStep ==
  ASSUME PlayerInv, stack # <<>>
  PROVE  /\ Top \in Activation /\ Top.wf \in Workflow /\ Top.pc # "nested"
         /\ Top.pc # "next" => Top.at \in Index(Top.wf) \ Top.skip
         /\ Len(stack) \in DOMAIN stack /\ Top = stack[Len(stack)]
<1>1. /\ Len(stack) \in DOMAIN stack /\ Top \in Activation
  BY InnermostFacts DEF PlayerInv
<1>2. Top.pc # "next" => Top.at \in Index(Top.wf)
  BY <1>1 DEF PlayerInv, TypeOK, Top
<1>3. Top.pc # "nested" BY <1>1 DEF PlayerInv, NestingInv, Top
<1>4. Top.pc # "next" => Top.at \notin Top.skip
  BY <1>1 DEF PlayerInv, ProgressInv, Top
<1> QED BY <1>1, <1>2, <1>3, <1>4 DEF Activation, Top

\* A step of the innermost activation changes stage.
LEMMA StageKeeps ==
  ASSUME PlayerInv, stack # <<>>, NEW stage \in PC \ {"next", "nested"}, NEW l \in Nat,
         NEW a, a = [Top EXCEPT !.pc = stage, !.left = l], Moves(a),
         Top.at \in Index(Top.wf) \ Top.skip
  PROVE  PlayerInv'
<1>1. Top \in Activation BY InnermostStep
<1>2. /\ a \in Activation /\ a.wf = Top.wf /\ a.skip = Top.skip /\ a.at = Top.at
      /\ a.pc = stage
  BY <1>1 DEF Activation
<1> QED BY <1>2, MovesKeeps

\* No step is added to what has been said of one.
LEMMA CompleteTopKeeps ==
  ASSUME PlayerInv, stack # <<>>, Top.pc # "next", Complete(stack),
         claims \subseteq claims',
         claims' \subseteq [step : Workflow \X Nat, by : Everyone],
         Here \in performed \/ \E c \in claims' : c.step = Here /\ c.by \in Everyone
  PROVE  PlayerInv'
<1>1. /\ Len(stack) \in 1..Len(stack) /\ stack \in Seq(Activation)
      /\ Top = stack[Len(stack)]
  BY InnermostFacts DEF PlayerInv, TypeOK, Top
<1>2. DoneWith(claims', performed, frames', Top.wf, Top.at)
  BY DEF DoneWith, Here
<1> QED BY <1>1, <1>2, CompleteKeeps

\* Every action of a player, its recovery and its callers keeps the invariant.
THEOREM PlayerStep == PlayerInv /\ [Next]_vars => PlayerInv'
<1> SUFFICES ASSUME PlayerInv, [Next]_vars PROVE PlayerInv'
  OBVIOUS
<1>1. CASE NewPlayer
  <2>1. /\ frames' = NoFrames /\ DOMAIN frames' = {} /\ IsFrames(frames')
        /\ checkpoint' = [of |-> Unbound, done |-> {}]
        /\ stack' = <<>> /\ DOMAIN stack' = {} /\ stack' \in Seq(Activation)
        /\ attached' = FALSE /\ synced' = FALSE /\ reentered' = FALSE
        /\ file' = file /\ performed' = performed /\ claims' = claims /\ runs' = runs
    BY <1>1, EmptySeq DEF NewPlayer, NoFrames, IsFrames
  <2>2. players' \in 1..MaxPlayers
    <3>1. players \in 1..MaxPlayers /\ MaxPlayers \in Nat
      BY BoundsAssumption DEF PlayerInv, TypeOK
    <3> QED BY <1>1, <3>1 DEF NewPlayer
  <2>3. TypeOK'
    <3>1. checkpoint' \in [of : Workflow \cup {Unbound}, done : SUBSET Nat] BY <2>1
    <3>2. \A k \in DOMAIN stack' : stack'[k].pc # "next" => stack'[k].at \in Index(stack'[k].wf)
      BY <2>1
    <3>3. controller' \in {"none", "plain", "orchestrator"} BY <1>1 DEF NewPlayer
    <3> QED BY <2>1, <2>2, <3>1, <3>2, <3>3
            DEF PlayerInv, TypeOK, IsFrames, Position, Index
  <2>4. NestingInv' /\ ProgressInv' /\ SavedInv'
    BY <2>1 DEF NestingInv, ProgressInv, SavedInv
  <2>5. CheckpointInv' BY <2>1 DEF PlayerInv, CheckpointInv
  <2>6. DoneWasDone'
    BY <2>1, DoneMeans DEF PlayerInv, AllDoneWith
  <2> QED BY <2>3, <2>4, <2>5, <2>6 DEF PlayerInv
<1>2. CASE LoadCheckpoint
  <2>1. /\ stack = <<>> /\ stack' = stack /\ DOMAIN stack = {}
        /\ frames' = file.frames /\ checkpoint' = [of |-> file.of, done |-> file.done]
        /\ attached' = TRUE /\ synced' = TRUE
        /\ UNCHANGED <<controller, file, reentered, performed, claims, players, runs>>
    BY <1>2 DEF LoadCheckpoint
  <2>2. TypeOK'
    <3>1. file.of \in Workflow \cup {Unbound} /\ file.done \in SUBSET Nat
      BY DEF PlayerInv, TypeOK
    <3>2. checkpoint' \in [of : Workflow \cup {Unbound}, done : SUBSET Nat]
      BY <2>1, <3>1
    <3> QED BY <2>1, <3>2 DEF PlayerInv, TypeOK, IsFrames, Position, Index
  <2>3. NestingInv' /\ ProgressInv' BY <2>1 DEF NestingInv, ProgressInv
  <2>4. SavedInv' BY <2>1 DEF SavedInv, Begun
  <2>5. CheckpointInv' BY <2>1 DEF PlayerInv, CheckpointInv
  <2>6. DoneWasDone' BY <2>1, DoneMeans DEF PlayerInv
  <2> QED BY <2>2, <2>3, <2>4, <2>5, <2>6 DEF PlayerInv
<1>3. CASE SaveCheckpoint
  <2>1. /\ stack = <<>> /\ DOMAIN stack = {} /\ file' = Exported(frames, checkpoint)
        /\ UNCHANGED <<frames, checkpoint, attached, controller, stack, synced,
                       reentered, performed, claims, players, runs>>
    BY <1>3 DEF SaveCheckpoint
  <2>2. /\ IsFrames(frames) /\ checkpoint \in [of : Workflow \cup {Unbound}, done : SUBSET Nat]
        /\ checkpoint.of # Unbound => checkpoint.of \in DOMAIN frames
    BY DEF PlayerInv, TypeOK, CheckpointInv
  <2>3. /\ file' \in [of : Workflow \cup {Unbound}, done : SUBSET Nat,
                      frames : {file'.frames}, exists : BOOLEAN]
        /\ file'.frames = frames /\ file'.of = checkpoint.of
        /\ \A w \in Workflow : Begun(frames, checkpoint, w) = Begun(frames, file', w)
    BY <2>1, <2>2, ExportedFacts
  <2>4. TypeOK'
    BY <2>1, <2>3 DEF PlayerInv, TypeOK, IsFrames, Position, Index
  <2>5. NestingInv' /\ ProgressInv' BY <2>1 DEF NestingInv, ProgressInv
  <2>6. SavedInv'
    <3>1. \A r \in Root : Begun(frames', checkpoint', r) = Begun(file'.frames, file', r)
      BY <2>1, <2>3, BoundsAssumption
    <3> QED BY <3>1 DEF SavedInv
  <2>7. CheckpointInv' BY <2>1, <2>2, <2>3 DEF PlayerInv, CheckpointInv
  <2>8. DoneWasDone' BY <2>1, <2>3, DoneMeans DEF PlayerInv
  <2> QED BY <2>4, <2>5, <2>6, <2>7, <2>8 DEF PlayerInv
<1>4. ASSUME NEW w \in Workflow, Execute(w) PROVE PlayerInv'
  <2>1. /\ stack = <<>> /\ w \in Root /\ Enter(w, <<>>)
        /\ UNCHANGED <<attached, controller, file, synced, performed, players>>
    BY <1>4 DEF Execute
  <2>2. runs' \in 0..MaxRuns
    <3>1. runs \in 0..MaxRuns /\ MaxRuns \in Nat
      BY BoundsAssumption DEF PlayerInv, TypeOK
    <3> QED BY <1>4, <3>1 DEF Execute
  <2>3. <<>> \in Seq(Activation) /\ DOMAIN stack = {} BY <2>1, EmptySeq
  <2> QED BY <2>1, <2>2, <2>3, EnterKeeps
<1>5. CASE Reject
  BY <1>5, FailKeeps DEF Reject, At
<1>6. CASE Skip
  <2>1. /\ stack # <<>> /\ Top.pc = "next" /\ Top.at \in Top.skip
        /\ Moves([Top EXCEPT !.at = @ + 1])
    BY <1>6 DEF Skip, At
  <2>2. Top \in Activation BY <2>1, InnermostStep
  <2> DEFINE a == [Top EXCEPT !.at = @ + 1]
  <2>3. /\ a \in Activation /\ a.wf = Top.wf /\ a.skip = Top.skip
        /\ a.at = Top.at + 1 /\ a.pc = "next"
    BY <2>1, <2>2 DEF Activation
  <2> QED BY <2>1, <2>3, MovesKeeps
<1>7. CASE Dispatch
  <2>1. /\ stack # <<>> /\ Top.at \in Index(Top.wf) \ Top.skip
        /\ Moves([Top EXCEPT !.pc = "try"])
    BY <1>7 DEF Dispatch, At
  <2>2. Top \in Activation BY <2>1, InnermostStep
  <2>3. [Top EXCEPT !.pc = "try"] = [Top EXCEPT !.pc = "try", !.left = Top.left]
    BY <2>2 DEF Activation
  <2> QED BY <2>1, <2>2, <2>3, StageKeeps DEF Activation, PC, Trying
<1>8. CASE RunWorkflow
  <2> DEFINE b == [Top EXCEPT !.pc = "nested"]
             w == Current.of
  <2>1. /\ stack # <<>> /\ Top.at \in Index(Top.wf) \ Top.skip /\ Top.pc = "next"
        /\ Current.kind = "run" /\ w \notin NestedStack
        /\ Enter(w, With(b))
        /\ UNCHANGED <<attached, controller, file, synced, performed, players, runs>>
    BY <1>8 DEF RunWorkflow, At
  <2>2. /\ Top \in Activation /\ Top.wf \in Workflow
        /\ Len(stack) \in DOMAIN stack /\ Top = stack[Len(stack)]
    BY <2>1, InnermostStep
  <2>3. w \in Workflow
    BY <2>1, <2>2, StepsAssumption DEF Current, Index
  <2>4. b \in Activation /\ b.wf = Top.wf /\ b.at = Top.at /\ b.skip = Top.skip /\ b.pc = "nested"
    BY <2>2 DEF Activation, PC
  <2>5. /\ With(b) \in Seq(Activation) /\ Len(With(b)) = Len(stack)
        /\ With(b)[Len(stack)] = b
        /\ \A k \in DOMAIN stack : k # Len(stack) => With(b)[k] = stack[k]
    BY <2>1, <2>4, WithFacts DEF PlayerInv
  <2>6. DOMAIN stack = 1..Len(stack) /\ Len(stack) \in Nat
    BY <2>1, InnermostFacts DEF PlayerInv
  <2> HIDE DEF b
  <2>7. ASSUME NEW k \in DOMAIN stack
        PROVE  /\ With(b)[k].wf = stack[k].wf /\ With(b)[k].at = stack[k].at
               /\ With(b)[k].skip = stack[k].skip /\ With(b)[k].pc = "nested"
               /\ k # 1 => stack[k].wf # w
               /\ stack[k].at \in Index(stack[k].wf) \ stack[k].skip
               /\ k = Len(stack) => Steps[stack[k].wf][stack[k].at].of = w
    <3>1. k # 1 => stack[k].wf # w BY <2>1, <2>6 DEF NestedStack
    <3>2. CASE k = Len(stack)
      BY <2>1, <2>2, <2>4, <2>5, <3>1, <3>2 DEF Current
    <3>3. CASE k # Len(stack)
      <4>1. With(b)[k] = stack[k] BY <2>5, <3>3
      <4>2. stack[k].pc = "nested" BY <2>6, <3>3 DEF PlayerInv, NestingInv
      <4>3. stack[k].at \in Index(stack[k].wf) BY <4>2 DEF PlayerInv, TypeOK
      <4>4. stack[k].at \notin stack[k].skip BY <4>2 DEF PlayerInv, ProgressInv
      <4> QED BY <3>1, <3>3, <4>1, <4>2, <4>3, <4>4
    <3> QED BY <3>2, <3>3
  <2>8. runs' \in 0..MaxRuns BY <2>1 DEF PlayerInv, TypeOK
  <2>9. stack = <<>> => w \in Root BY <2>1
  <2> HIDE DEF w
  <2> QED BY <2>1, <2>3, <2>5, <2>7, <2>8, <2>9, EnterKeeps
<1>9. CASE RunWorkflowRaises
  <2>1. /\ stack # <<>> /\ Top.at \in Index(Top.wf) \ Top.skip
        /\ Moves([Top EXCEPT !.pc = "raised"])
    BY <1>9 DEF RunWorkflowRaises, At
  <2>2. Top \in Activation BY <2>1, InnermostStep
  <2>3. [Top EXCEPT !.pc = "raised"] = [Top EXCEPT !.pc = "raised", !.left = Top.left]
    BY <2>2 DEF Activation
  <2> QED BY <2>1, <2>2, <2>3, StageKeeps DEF Activation, PC
<1>10. CASE Finish
  <2>1. stack # <<>> /\ Top.pc = "next" /\ Top.at \notin Index(Top.wf)
    BY <1>10 DEF Finish, At
  <2>2. /\ Top \in Activation /\ Top.wf \in Workflow
        /\ Len(stack) \in DOMAIN stack /\ Top = stack[Len(stack)]
    BY <2>1, InnermostStep
  <2>3. Len(stack) \in Nat \ {0} /\ DOMAIN stack = 1..Len(stack)
    BY <2>1, InnermostFacts DEF PlayerInv
  <2>4. CASE Len(stack) = 1
    BY <1>10, <2>1, <2>4, FailKeeps DEF Finish, Fail
  <2>5. CASE Len(stack) # 1
    <3> DEFINE d == Len(stack) - 1
    <3>1. Complete(Below) /\ claims' = claims BY <1>10, <2>5 DEF Finish
    <3>2. Len(stack) > 1 /\ d \in 1..Len(stack) /\ d \in DOMAIN stack /\ d < Len(stack)
          /\ d + 1 = Len(stack)
      BY <2>3, <2>5
    <3>3. /\ Below \in Seq(Activation) /\ Len(Below) = d
          /\ \A k \in 1..d : Below[k] = stack[k]
      BY <3>2, BelowFacts DEF PlayerInv
    <3>4. stack[d].pc = "nested" /\ Steps[stack[d].wf][stack[d].at].of = Top.wf
      BY <2>2, <3>2 DEF PlayerInv, NestingInv
    <3>5. Top.wf \in DOMAIN frames /\ stack[d].wf \in DOMAIN frames
      BY <2>2, <3>2 DEF PlayerInv, NestingInv
    <3>6. Index(Top.wf) \subseteq frames[Top.wf]
      <4>1. \A i \in 1..(Top.at - 1) : i \in frames[Top.wf]
        BY <2>2 DEF PlayerInv, ProgressInv
      <4>2. Steps[Top.wf] \in Seq([kind : Kind, of : Workflow \cup {NoWorkflow}])
        BY <2>2, StepsAssumption
      <4>3. Index(Top.wf) = 1..Len(Steps[Top.wf]) /\ Len(Steps[Top.wf]) \in Nat
        BY <4>2, LenProperties DEF Index
      <4>4. Top.at \in Nat \ {0} BY <2>2 DEF Activation
      <4>5. ASSUME NEW i \in Index(Top.wf) PROVE i \in 1..(Top.at - 1)
        BY <2>1, <4>3, <4>4, <4>5
      <4> QED BY <4>1, <4>5
    <3>7. frames' = [frames EXCEPT ![stack[d].wf] = @ \cup {stack[d].at}]
      <4>1. Below[d] = stack[d] BY <3>2, <3>3
      <4> QED BY <3>1, <3>3, <4>1 DEF Complete
    <3>8. DOMAIN frames' = DOMAIN frames /\ frames[Top.wf] \subseteq frames'[Top.wf]
      BY <3>5, <3>7
    <3>9. DoneWith(claims', performed, frames', stack[d].wf, stack[d].at)
      BY <3>4, <3>5, <3>6, <3>8 DEF DoneWith
    <3>10. claims' \subseteq [step : Workflow \X Nat, by : Everyone]
      BY <3>1 DEF PlayerInv, TypeOK, Everyone
    <3> HIDE DEF d
    <3> QED BY <2>1, <3>1, <3>2, <3>3, <3>4, <3>9, <3>10, CompleteKeeps
  <2> QED BY <2>4, <2>5
<1>11. CASE Effect
  <2>1. /\ stack # <<>> /\ Top.pc # "next" /\ performed' = performed \cup {Here}
        /\ UNCHANGED <<frames, checkpoint, attached, controller, stack, file, synced,
                       reentered, claims, players, runs>>
    BY <1>11 DEF Effect, Asks, Trying
  <2>2. Top.wf \in Workflow /\ Top.at \in Index(Top.wf) BY <2>1, InnermostStep
  <2>3. Here \in Position BY <2>2 DEF Here, Position
  <2>4. TypeOK'
    BY <2>1, <2>3 DEF PlayerInv, TypeOK, IsFrames, Position, Index
  <2>5. NestingInv' /\ CheckpointInv' /\ ProgressInv' /\ SavedInv'
    BY <2>1 DEF PlayerInv, NestingInv, CheckpointInv, ProgressInv, SavedInv, Begun
  <2>6. DoneWasDone'
    <3>1. /\ AllDoneWith(claims, performed, frames)
          /\ AllDoneWith(claims, performed, file.frames)
      BY DoneMeans DEF PlayerInv
    <3>2. AllDoneWith(claims, performed', frames) /\ AllDoneWith(claims, performed', file.frames)
      BY <2>1, <3>1 DEF AllDoneWith, DoneWith
    <3> QED BY <2>1, <3>2, DoneMeans
  <2> QED BY <2>4, <2>5, <2>6 DEF PlayerInv
<1>12. CASE Returns
  <2>1. /\ stack # <<>> /\ Top.pc # "next" /\ Complete(stack)
        /\ claims' = claims \cup
             IF Here \in performed THEN {} ELSE {[step |-> Here, by |-> "return"]}
    BY <1>12 DEF Returns, Asks, Trying
  <2>2. Top.wf \in Workflow /\ Top \in Activation BY <2>1, InnermostStep
  <2>3. [step |-> Here, by |-> "return"] \in [step : Workflow \X Nat, by : Everyone]
    BY <2>2 DEF Here, Activation, Everyone
  <2>4. claims' \subseteq [step : Workflow \X Nat, by : Everyone]
    BY <2>1, <2>3 DEF PlayerInv, TypeOK, Everyone
  <2>5. Here \in performed \/ \E c \in claims' : c.step = Here /\ c.by \in Everyone
    <3> DEFINE c == [step |-> Here, by |-> "return"]
    <3>1. c.step = Here /\ c.by \in Everyone BY DEF Everyone
    <3>2. Here \notin performed => c \in claims' BY <2>1
    <3> HIDE DEF c
    <3> QED BY <3>1, <3>2
  <2>6. claims \subseteq claims' BY <2>1
  <2> QED BY <2>1, <2>4, <2>5, <2>6, CompleteTopKeeps
<1>13. CASE Raises
  <2>1. stack # <<>> /\ Top.pc \in Trying /\ Moves(AfterRaise(Top))
    BY <1>13 DEF Raises
  <2>2. Top \in Activation /\ Top.at \in Index(Top.wf) \ Top.skip
    BY <2>1, InnermostStep DEF Trying
  <2>3. \E stage \in PC \ {"next", "nested"}, l \in Nat :
          AfterRaise(Top) = [Top EXCEPT !.pc = stage, !.left = l]
    <3>1. Top.left \in Nat /\ Top.pc \in PC \ {"next", "nested"}
      BY <2>1, <2>2 DEF Activation, Trying
    <3>2. \A stage \in PC : [Top EXCEPT !.pc = stage]
                            = [Top EXCEPT !.pc = stage, !.left = Top.left]
      BY <2>2 DEF Activation
    <3>3. CASE Top.pc \in {"heal", "retry"} /\ Top.left > 0
      <4>1. AfterRaise(Top) = [Top EXCEPT !.left = @ - 1]
        <5>1. Top.pc # "try" /\ Top.pc # "again" BY <3>3
        <5> QED BY <3>3, <5>1 DEF AfterRaise
      <4>2. [Top EXCEPT !.left = @ - 1] = [Top EXCEPT !.pc = Top.pc, !.left = Top.left - 1]
        BY <2>2 DEF Activation
      <4>3. Top.left - 1 \in Nat BY <3>1, <3>3
      <4>4. AfterRaise(Top) = [Top EXCEPT !.pc = Top.pc, !.left = Top.left - 1]
        BY <4>1, <4>2
      <4> QED BY <3>1, <4>3, <4>4, Zenon
    <3>4. CASE ~(Top.pc \in {"heal", "retry"} /\ Top.left > 0)
      <4>1. AfterRaise(Top) \in {[Top EXCEPT !.pc = stage] :
                                 stage \in {"raised", "unblock", "recover", "abort"}}
        <5>1. ASSUME Top.pc = "try"
              PROVE  AfterRaise(Top) = [Top EXCEPT !.pc = "raised"]
          BY <5>1 DEF AfterRaise
        <5>2. ASSUME Top.pc = "again"
              PROVE  AfterRaise(Top) = [Top EXCEPT !.pc = "unblock"]
          <6>1. Top.pc # "try" BY <5>2
          <6> QED BY <5>2, <6>1 DEF AfterRaise
        <5>3. ASSUME Top.pc \in {"heal", "retry"}
              PROVE  AfterRaise(Top) = [Top EXCEPT !.pc = IF Top.pc = "heal" THEN "recover" ELSE "abort"]
          <6>1. Top.pc # "try" /\ Top.pc # "again" /\ ~(Top.left > 0) BY <3>4, <5>3
          <6> QED BY <6>1 DEF AfterRaise
        <5>4. Top.pc \in {"try", "again", "heal", "retry"} BY <2>1 DEF Trying
        <5>5. \/ AfterRaise(Top) = [Top EXCEPT !.pc = "raised"]
              \/ AfterRaise(Top) = [Top EXCEPT !.pc = "unblock"]
              \/ AfterRaise(Top) = [Top EXCEPT !.pc = "recover"]
              \/ AfterRaise(Top) = [Top EXCEPT !.pc = "abort"]
          BY <5>1, <5>2, <5>3, <5>4
        <5> QED BY <5>5, Zenon
      <4>2. {"raised", "unblock", "recover", "abort"} \subseteq PC \ {"next", "nested"}
        BY DEF PC
      <4>3. PICK stage \in {"raised", "unblock", "recover", "abort"} :
              AfterRaise(Top) = [Top EXCEPT !.pc = stage]
        BY <4>1
      <4>4. AfterRaise(Top) = [Top EXCEPT !.pc = stage, !.left = Top.left]
        BY <3>2, <4>2, <4>3
      <4> QED BY <3>1, <4>2, <4>4, Zenon
    <3> QED BY <3>3, <3>4
  <2> QED BY <2>1, <2>2, <2>3, StageKeeps
<1>14. CASE Heal
  <2>1. stack # <<>> /\ Top.pc # "next" BY <1>14 DEF Heal, At
  <2>2. Top.at \in Index(Top.wf) \ Top.skip BY <2>1, InnermostStep
  <2>3. PICK m \in 1..MaxHealed : Moves([Top EXCEPT !.pc = "heal", !.left = m - 1])
    BY <1>14 DEF Heal
  <2>4. m - 1 \in Nat /\ "heal" \in PC \ {"next", "nested"}
    BY BoundsAssumption DEF PC, Trying
  <2> QED BY <2>1, <2>2, <2>3, <2>4, StageKeeps
<1>15. CASE ElementNotFound
  <2>1. stack # <<>> /\ Top.pc # "next" BY <1>15 DEF ElementNotFound, Recovers, At
  <2>2. Top.at \in Index(Top.wf) \ Top.skip BY <2>1, InnermostStep
  <2>3. PICK m \in 1..MaxAttempts : Moves([Top EXCEPT !.pc = "retry", !.left = m - 1])
    BY <1>15 DEF ElementNotFound
  <2>4. m - 1 \in Nat /\ "retry" \in PC \ {"next", "nested"}
    BY BoundsAssumption DEF PC, Trying
  <2> QED BY <2>1, <2>2, <2>3, <2>4, StageKeeps
<1>16. CASE NoHeal \/ TimedOut \/ Blocked
  <2>1. stack # <<>> /\ Top.pc # "next"
    BY <1>16 DEF NoHeal, TimedOut, Blocked, Recovers, At
  <2>2. Top.at \in Index(Top.wf) \ Top.skip /\ Top \in Activation BY <2>1, InnermostStep
  <2>3. PICK stage \in {"recover", "again", "unblock"} : Moves([Top EXCEPT !.pc = stage])
    BY <1>16 DEF NoHeal, TimedOut, Blocked
  <2>4. [Top EXCEPT !.pc = stage] = [Top EXCEPT !.pc = stage, !.left = Top.left]
    BY <2>2 DEF Activation
  <2>5. stage \in PC \ {"next", "nested"} /\ Top.left \in Nat
    BY <2>2 DEF PC, Trying, Activation
  <2> QED BY <2>1, <2>2, <2>3, <2>4, <2>5, StageKeeps
<1>17. CASE Unblocked
  <2>1. /\ stack # <<>> /\ Top.pc # "next" /\ Complete(stack)
        /\ claims' = claims \cup {[step |-> Here, by |-> "recovery"]}
    BY <1>17 DEF Unblocked, At
  <2>2. Top.wf \in Workflow /\ Top \in Activation BY <2>1, InnermostStep
  <2>3. [step |-> Here, by |-> "recovery"] \in [step : Workflow \X Nat, by : Everyone]
    BY <2>2 DEF Here, Activation, Everyone
  <2>4. claims' \subseteq [step : Workflow \X Nat, by : Everyone]
    BY <2>1, <2>3 DEF PlayerInv, TypeOK, Everyone
  <2>5. \E c \in claims' : c.step = Here /\ c.by \in Everyone
    <3> DEFINE c == [step |-> Here, by |-> "recovery"]
    <3>1. c.step = Here /\ c.by \in Everyone BY DEF Everyone
    <3>2. c \in claims' BY <2>1
    <3> HIDE DEF c
    <3> QED BY <3>1, <3>2
  <2>6. claims \subseteq claims' BY <2>1
  <2> QED BY <2>1, <2>4, <2>5, <2>6, CompleteTopKeeps
<1>18. CASE Abort
  BY <1>18, FailKeeps DEF Abort, At
<1>19. CASE UNCHANGED vars
  <2>1. TypeOK' BY <1>19 DEF vars, PlayerInv, TypeOK, IsFrames, Position, Index
  <2>2. NestingInv' /\ CheckpointInv' /\ ProgressInv' /\ SavedInv'
    BY <1>19 DEF vars, PlayerInv, NestingInv, CheckpointInv, ProgressInv, SavedInv, Begun
  <2>3. DoneWasDone' BY <1>19, DoneMeans DEF vars, PlayerInv
  <2> QED BY <2>1, <2>2, <2>3 DEF PlayerInv
<1> QED
  BY <1>1, <1>2, <1>3, <1>4, <1>5, <1>6, <1>7, <1>8, <1>9, <1>10, <1>11, <1>12,
     <1>13, <1>14, <1>15, <1>16, <1>17, <1>18, <1>19 DEF Next

\* In every state that a player and its successors reach, the invariant holds.
THEOREM PlayerInvariant == Spec => []PlayerInv
BY PlayerInit, PlayerStep, PTL DEF Spec

-----------------------------------------------------------------------------
\* The properties

\* Every variable keeps its type, whatever the workflows, the candidates of a
\* healing and the attempts of a recovery are.
THEOREM PlayerTypeCorrect == Spec => []TypeOK
<1>1. PlayerInv => TypeOK BY DEF PlayerInv
<1> QED BY <1>1, PlayerInvariant, PTL

\* Whatever a player remembers, and whatever file it loads, a step that resuming
\* will skip had its effect or was vouched for (workflow_checkpoint_identity).
THEOREM EveryDoneWasDone == Spec => []DoneWasDone
<1>1. PlayerInv => DoneWasDone BY DEF PlayerInv
<1> QED BY <1>1, PlayerInvariant, PTL

\* The browser is never asked for a step that is already listed, whichever
\* recoveries, failures and resumptions precede (the set "completed"), unless the
\* outermost workflow was run once more within itself.
THEOREM NothingEverRepeats == Spec => []NothingRepeats
<1>1. ASSUME PlayerInv, Asks, ~(Len(stack) = 1 /\ reentered)
      PROVE  Top.at \notin frames[Top.wf]
  <2>1. stack # <<>> /\ Top.pc # "next" BY <1>1 DEF Asks, Trying
  <2>2. /\ Top \in Activation /\ Top.at \notin Top.skip
        /\ Len(stack) \in DOMAIN stack /\ Top = stack[Len(stack)]
    BY <1>1, <2>1, InnermostStep
  <2>3. frames[Top.wf] \subseteq Top.skip \cup 1..(Top.at - 1)
    BY <1>1, <2>2 DEF PlayerInv, ProgressInv
  <2>4. Top.at \in Nat BY <2>2 DEF Activation
  <2>5. Top.at \notin 1..(Top.at - 1) BY <2>4
  <2> QED BY <2>2, <2>3, <2>5
<1>2. PlayerInv => NothingRepeats BY <1>1 DEF NothingRepeats
<1> QED BY <1>2, PlayerInvariant, PTL

\* Unless the last automatic save failed, the file lists all that the outermost
\* workflow has completed (_persist_checkpoint).
THEOREM TopStepsAlwaysSaved == Spec => []TopStepsAreSaved
<1>1. ASSUME PlayerInv, attached, synced, checkpoint.of \in DOMAIN frames
      PROVE  frames[checkpoint.of] \subseteq Begun(file.frames, file, checkpoint.of)
  <2>1. checkpoint.of # Unbound
    BY <1>1, StepsAssumption DEF PlayerInv, TypeOK, IsFrames
  <2>2. checkpoint.of \in Root BY <1>1, <2>1 DEF PlayerInv, CheckpointInv
  <2>3. Begun(frames, checkpoint, checkpoint.of) = frames[checkpoint.of]
    BY <1>1 DEF Begun
  <2> QED BY <1>1, <2>2, <2>3 DEF PlayerInv, SavedInv
<1>2. PlayerInv => TopStepsAreSaved BY <1>1 DEF TopStepsAreSaved
<1> QED BY <1>2, PlayerInvariant, PTL

\* However workflows run each other, no activation below the outermost repeats a
\* workflow of another, and so no more are active there than there are workflows
\* (_step_run_workflow, the cycle check).
THEOREM NestingAlwaysBounded == Spec => []NestingIsBounded
<1>1. ASSUME PlayerInv PROVE NestingIsBounded
  <2> DEFINE n == Len(stack)
             f == [k \in 2..n |-> stack[k].wf]
  <2>1. /\ stack \in Seq(Activation) /\ n \in Nat /\ DOMAIN stack = 1..n
        /\ \A k \in DOMAIN stack : stack[k] \in Activation
    <3>1. stack \in Seq(Activation) BY <1>1 DEF PlayerInv, TypeOK
    <3> QED BY <3>1, LenProperties, ElementOfSeq
  <2>2. \A j, k \in 2..n : stack[j].wf = stack[k].wf => j = k
    BY <1>1, <2>1 DEF PlayerInv, NestingInv
  <2>3. f \in [2..n -> Workflow] BY <2>1 DEF Activation
  <2>4. \A j, k \in 2..n : f[j] = f[k] => j = k BY <2>2
  <2>5. f \in Injection(2..n, Workflow)
    BY <2>3, <2>4 DEF Injection, IsInjective
  <2>6. Cardinality(2..n) <= Cardinality(Workflow)
    BY <2>5, BoundsAssumption, FS_Injection
  <2>7. Cardinality(2..n) = IF 2 > n THEN 0 ELSE n - 2 + 1 BY <2>1, FS_Interval
  <2>8. Cardinality(Workflow) \in Nat BY BoundsAssumption, FS_CardinalityType
  <2>9. n <= Cardinality(Workflow) + 1 BY <2>1, <2>6, <2>7, <2>8
  <2> QED BY <2>2, <2>9 DEF NestingIsBounded
<1>2. PlayerInv => NestingIsBounded BY <1>1
<1> QED BY <1>2, PlayerInvariant, PTL
=============================================================================
