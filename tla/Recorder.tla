------------------------------ MODULE Recorder ------------------------------
(***************************************************************************)
(* WorkflowRecorder (src/workflows/recorder.py): browser events are taken  *)
(* down in groups and rewritten into steps of a workflow. Text is          *)
(* represented by the field it was typed into. A click tells which element *)
(* it is about, a key may tell it; keys that do not are taken for those of *)
(* the element told last, wherever the focus has gone meanwhile.           *)
(***************************************************************************)
EXTENDS Naturals, SequencesExt

CONSTANTS Field, Secret,            \* Secret: fields of _is_secret_element
          NoField,                  \* no field, or no text
          Enter, Placeholder,       \* the Enter key; "{{password}}"
          Windows,                  \* event type |-> ticks within which it joins
                                    \* a group: 0.2 s, 0.5 s, and _group_timeout
          MaxEvents, MaxClock

ASSUME RecorderAssumption ==
    /\ Secret \subseteq Field /\ NoField \notin Field
    /\ {Enter, Placeholder} \cap (Field \union {NoField}) = {}
    /\ Windows \in [{"click", "scroll", "input"} -> Nat \ {0}]
    /\ MaxClock \in Nat

VARIABLES clock,
          heard,        \* _events
          group,        \* _current_group; its first event has _current_group_type
          lastAt,       \* _last_input_time, _last_scroll_time or _last_click_time
          current,      \* _current_element_info
          focused,      \* _focused_element_info
          taught,       \* what to_steps returned last
          focus,        \* where the page's focus really is
          named         \* history: the field that events named last on this page

recorderVars == <<clock, heard, group, lastAt, current, focused, taught, focus, named>>

RecorderInit ==
    /\ clock = 0 /\ heard = <<>> /\ group = <<>> /\ lastAt = 0 /\ taught = <<>>
    /\ current = NoField /\ focused = NoField /\ focus = NoField /\ named = NoField

\* For the properties alone, told is the field that events had named by then.
Event(type, on, value, told) ==
    [type |-> type, at |-> clock, on |-> on, value |-> value, told |-> told]

Untyped(type, on) == Event(type, on, NoField, NoField)

---------------------------------------------------------------------------
\* An event joins the group of its type while the last one is recent, clicks
\* only on the same target; otherwise the group is committed.
Fits(e) == /\ group # <<>>
           /\ Head(group).type = e.type
           /\ clock - lastAt < Windows[e.type]
           /\ e.type = "click" => e.on = Head(group).on

TakeDown(e) ==
    /\ Len(heard) + Len(group) < MaxEvents
    /\ lastAt' = clock
    /\ IF Fits(e) THEN group' = Append(group, e) /\ UNCHANGED heard
       ELSE heard' = heard \o group /\ group' = <<e>>
    /\ UNCHANGED <<clock, taught>>

\* For comparison: a committed click leaves the focus as it was before.
FocusedStays(f) == focused

FocusedBy(f) == f

ClickEvent(f) ==
    LET e == Untyped("click", f) IN
    /\ TakeDown(e)
    /\ focused' = FocusedBy(f)
    /\ current' = IF Fits(e) THEN current ELSE f
    /\ focus' = f /\ named' = f

\* The element of a key event: its own, the group's, or the one in focus.
ElementOf(own) == IF own # NoField THEN own
                  ELSE IF current # NoField THEN current ELSE focused

\* The text of a key event, which a released key does not have.
Redacted(f, text) ==
    IF f \in Secret /\ text \notin {Enter, NoField} THEN Placeholder ELSE text

\* A key without an element of its own may go to any field: the Tab key, a
\* script or a new page has put the focus there.
KeyEvent(own, text) ==
    LET f == ElementOf(own)
        told == IF own = NoField THEN named ELSE own
    IN
    /\ focus # NoField /\ own \in {focus, NoField} /\ text \in {focus, Enter, NoField}
    /\ TakeDown(Event("input", f, Redacted(f, text), told))
    /\ focused' = f /\ current' = f
    /\ named' = told
    /\ UNCHANGED focus

ScrollEvent ==
    LET e == Untyped("scroll", NoField) IN
    /\ TakeDown(e)
    /\ current' = IF Fits(e) THEN current ELSE NoField
    /\ UNCHANGED <<focused, focus, named>>

\* Focus does not survive a page change.
Navigated ==
    /\ Len(heard) + Len(group) < MaxEvents
    /\ heard' = heard \o group \o <<Untyped("navigation", NoField)>>
    /\ group' = <<>> /\ lastAt' = 0
    /\ current' = NoField /\ focused' = NoField
    /\ focus' = NoField /\ named' = NoField
    /\ UNCHANGED <<clock, taught>>

\* Any other event that is not noise: _check_timeout.
OtherEvent ==
    /\ group # <<>> /\ clock - lastAt >= Windows["input"]
    /\ heard' = heard \o group /\ group' = <<>> /\ lastAt' = 0 /\ current' = NoField
    /\ UNCHANGED <<clock, focused, taught, focus, named>>

\* The page or the Tab key moves the focus, which no event tells.
FocusMoves(f) == /\ f # focus /\ focus' = f
                 /\ UNCHANGED <<clock, heard, group, lastAt, current, focused, taught, named>>

Passes == /\ clock < MaxClock /\ clock' = clock + 1
          /\ UNCHANGED <<heard, group, lastAt, current, focused, taught, focus, named>>

---------------------------------------------------------------------------
\* to_steps groups anew, now by the time since the first event of a group.
LastOf(E, i) ==
    Max({j \in i..Len(E) : \A k \in i + 1..j :
             /\ E[k].type = E[i].type /\ E[i].type # "navigation"
             /\ E[k].at - E[i].at < Windows[E[i].type]
             /\ E[i].type = "click" => E[k].on = E[i].on})

\* One secret field in a group of keys redacts the whole of it.
Hides(events) == \E e \in Range(events) : e.on \in Secret

Texts(events) == {e.value : e \in Range(events)} \ {Enter, NoField}

Typed(events) ==
    [type  |-> IF \E e \in Range(events) : e.value = Enter THEN "type" ELSE "fill",
     on    |-> IF Hides(events)
               THEN SelectSeq(events, LAMBDA e : e.on \in Secret)[1].on ELSE NoField,
     value |-> IF Hides(events) THEN {Placeholder} ELSE Texts(events)]

\* Navigations, clicks and scrolls have a step of their own.
Noted(e) == [type |-> e.type, on |-> e.on, value |-> {}]

\* The step of the events i to j; keys right before a navigation have none, nor
\* have keys without text.
StepOf(E, i, j) ==
    IF E[i].type # "input" THEN <<Noted(E[i])>>
    ELSE IF \/ j < Len(E) /\ E[j + 1].type = "navigation"
            \/ \A k \in i..j : E[k].value = NoField THEN <<>>
    ELSE <<Typed(SubSeq(E, i, j))>>

Steps(E) ==
    LET from[i \in 1..Len(E) + 1] ==
            IF i > Len(E) THEN <<>>
            ELSE StepOf(E, i, LastOf(E, i)) \o from[LastOf(E, i) + 1]
    IN from[1]

\* to_steps, which to_workflow calls, at any time while the recording goes on.
ToSteps == /\ heard' = heard \o group /\ group' = <<>> /\ lastAt' = 0
           /\ current' = NoField
           /\ taught' = Steps(heard \o group)
           /\ UNCHANGED <<clock, focused, focus, named>>

---------------------------------------------------------------------------
RecorderNext ==
    \/ \E f \in Field : ClickEvent(f) \/ FocusMoves(f)
    \/ \E own \in Field \union {NoField}, text \in Field \union {Enter, NoField} :
           KeyEvent(own, text)
    \/ ScrollEvent \/ Navigated \/ OtherEvent \/ Passes \/ ToSteps

RecorderSpec == RecorderInit /\ [][RecorderNext]_recorderVars

---------------------------------------------------------------------------
\* Types of the variables.
RecorderTypeOK ==
    /\ clock \in 0..MaxClock /\ lastAt \in 0..clock
    /\ heard \in Seq([type : {"click", "scroll", "input", "navigation"},
                      at : 0..clock, on : Field \union {NoField},
                      value : Field \union {NoField, Enter, Placeholder},
                      told : Field \union {NoField}])
    /\ {current, focused, focus, named} \subseteq Field \union {NoField}
    /\ \A s \in Range(taught) : s.value \subseteq Field \union {Placeholder}

\* What is typed is taken down as the placeholder exactly if the field that
\* events have named last on this page is a secret one, however keys, clicks,
\* scrolls, pauses and reads split or joined the groups: so if that is the field
\* which has the focus, secrets and only they are hidden. A step of a workflow
\* shows a secret only if it was typed while events named another field or none,
\* as after a Tab into the password field that no key tells of.
NamedSecretsAreHidden ==
    /\ \A e \in Range(heard \o group) :
           e.type = "input" /\ e.value \notin {Enter, NoField} =>
               (e.value = Placeholder <=> e.told \in Secret)
    /\ \A s \in Range(taught) : \A f \in s.value \cap Secret :
           \E e \in Range(heard) : e.value = f /\ e.told \notin Secret
=============================================================================
