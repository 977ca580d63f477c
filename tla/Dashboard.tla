----------------------------- MODULE Dashboard -----------------------------
(***************************************************************************)
(* The dashboard's BrowserRuntimeManager and DashboardRecorder             *)
(* (src/production/hermes_dashboard.py). The request handlers are tasks of *)
(* one event loop: a task gives way where it awaits the close or the launch*)
(* of a browser, an action of the browser or a replay, and no lock keeps   *)
(* the others out. Browsers are numbered as they are made.                 *)
(***************************************************************************)
EXTENDS Naturals, Sequences, FiniteSets

CONSTANTS Task,         \* request handlers
          Profile,
          Default,      \* the profile the manager starts with
          MaxMade,      \* bound on the browsers that are made
          MaxSteps      \* bound on the steps of a recording

ASSUME DashboardAssumption == /\ Default \in Profile
                              /\ MaxMade \in Nat /\ MaxSteps \in Nat

VARIABLES browser,      \* BrowserRuntimeManager.browser, 0 for None
          profile,      \* active_profile
          state,        \* browser |-> what it really is
          runs,         \* browser |-> the profile it was made for
          task,         \* task |-> what it awaits
          execution,    \* execution_state
          intervention, \* an intervention is wanted
          recording,    \* recorder.active
          steps,        \* recorder.steps: the browsers that did them
          together      \* two starts, stops or restarts were under way at once

dashboardVars == <<browser, profile, state, runs, task, execution, intervention,
                   recording, steps, together>>

DashBrowser == 1 .. MaxMade
AtRest == [at |-> "rest", b |-> 0, profile |-> Default, launches |-> FALSE]

DashboardInit ==
    /\ browser = 0 /\ profile = Default
    /\ state = [b \in DashBrowser |-> "unmade"]
    /\ runs = [b \in DashBrowser |-> Default]
    /\ task = [t \in Task |-> AtRest]
    /\ execution = "idle" /\ intervention = FALSE
    /\ recording = FALSE /\ steps = <<>>
    /\ together = FALSE

Managing(t) == task[t].at \in {"close", "launch"}
Overlap(t) == together' = (together \/ \E u \in Task \ {t} : Managing(u))

---------------------------------------------------------------------------
\* _launch_browser after _close_browser: the new browser is there before it runs.
Made == Cardinality({b \in DashBrowser : state[b] # "unmade"})

Make(t, p, before) ==
    /\ Made < MaxMade
    /\ browser' = Made + 1
    /\ state' = [before EXCEPT ![Made + 1] = "launching"]
    /\ runs' = [runs EXCEPT ![Made + 1] = p]
    /\ task' = [task EXCEPT ![t] = [at |-> "launch", b |-> Made + 1, profile |-> p,
                                    launches |-> TRUE]]

AwaitClose(t, p, launches) ==
    /\ task' = [task EXCEPT ![t] = [at |-> "close", b |-> browser, profile |-> p,
                                    launches |-> launches]]
    /\ UNCHANGED <<browser, state, runs>>

\* For comparison: a start that does not close the browser from before.
StartOver(t, p) ==
    /\ task[t] = AtRest /\ Overlap(t)
    /\ Make(t, p, state)
    /\ UNCHANGED <<profile, execution, intervention, recording, steps>>

\* start, and with the active profile restart and switch_backend.
Start(t, p) ==
    /\ task[t] = AtRest /\ Overlap(t)
    /\ IF browser = 0 THEN Make(t, p, state) ELSE AwaitClose(t, p, TRUE)
    /\ UNCHANGED <<profile, execution, intervention, recording, steps>>

Restart(t) == Start(t, profile)

\* stop without a browser changes nothing.
Stop(t) ==
    /\ task[t] = AtRest /\ browser # 0 /\ Overlap(t)
    /\ AwaitClose(t, profile, FALSE)
    /\ UNCHANGED <<profile, execution, intervention, recording, steps>>

\* _close_browser goes on: whatever browser is there by now is forgotten. The
\* close of a browser that is being launched finds nothing to close yet.
Closed(t) ==
    /\ task[t].at = "close"
    /\ LET b == task[t].b
           after == IF state[b] = "launching" THEN state
                    ELSE [state EXCEPT ![b] = "closed"]
       IN IF task[t].launches
          THEN Make(t, task[t].profile, after)
          ELSE /\ browser' = 0 /\ state' = after
               /\ task' = [task EXCEPT ![t] = AtRest]
               /\ UNCHANGED runs
    /\ UNCHANGED <<profile, execution, intervention, recording, steps, together>>

\* The close raises (AgentBrowser.close() does when its task is cancelled): the
\* call ends there, and the manager keeps a browser that is closed or is not.
CloseRaises(t) ==
    /\ task[t].at = "close"
    /\ \/ UNCHANGED state
       \/ /\ state[task[t].b] # "launching"
          /\ state' = [state EXCEPT ![task[t].b] = "closed"]
    /\ task' = [task EXCEPT ![t] = AtRest]
    /\ UNCHANGED <<browser, profile, runs, execution, intervention, recording, steps,
                   together>>

\* _launch_browser goes on, or its launch raises and the manager keeps a browser
\* that does not run, and the profile from before.
Launched(t) ==
    /\ task[t].at = "launch"
    /\ \/ /\ state' = [state EXCEPT ![task[t].b] = "open"]
          /\ profile' = task[t].profile
       \/ /\ state' = [state EXCEPT ![task[t].b] = "broken"]
          /\ UNCHANGED profile
    /\ task' = [task EXCEPT ![t] = AtRest]
    /\ UNCHANGED <<browser, runs, execution, intervention, recording, steps, together>>

---------------------------------------------------------------------------
Unmanaged == UNCHANGED <<browser, profile, state, runs, together>>

\* navigate, click and fill: require_browser, then the adapter's action.
Act(t) == /\ task[t] = AtRest /\ browser # 0
          /\ task' = [task EXCEPT ![t] = [AtRest EXCEPT !.at = "act", !.b = browser]]
          /\ Unmanaged /\ UNCHANGED <<execution, intervention, recording, steps>>

\* The action is over: one that returned, were it with False, is recorded.
Acted(t) == /\ task[t].at = "act"
            /\ task' = [task EXCEPT ![t] = AtRest]
            /\ \/ /\ recording /\ Len(steps) < MaxSteps
                  /\ steps' = Append(steps, task[t].b)
               \/ UNCHANGED steps
            /\ Unmanaged /\ UNCHANGED <<execution, intervention, recording>>

\* start_recording, and save_recording, which stops even if nothing is saved.
StartRecording == /\ recording' = TRUE /\ steps' = <<>>
                  /\ Unmanaged /\ UNCHANGED <<task, execution, intervention>>

SaveRecording == /\ recording' = FALSE
                 /\ Unmanaged /\ UNCHANGED <<task, execution, intervention, steps>>

\* replay_workflow: without a file or a browser it raises, and the state stays.
ReplayWorkflow(t) ==
    /\ task[t] = AtRest
    /\ execution' = "running"
    /\ \/ /\ browser # 0
          /\ task' = [task EXCEPT ![t] = [AtRest EXCEPT !.at = "replay", !.b = browser]]
       \/ UNCHANGED task
    /\ Unmanaged /\ UNCHANGED <<intervention, recording, steps>>

\* The player's result decides, unless it raises.
Replayed(t) == /\ task[t].at = "replay"
               /\ task' = [task EXCEPT ![t] = AtRest]
               /\ execution' \in {"completed", "failed", execution}
                 /\ Unmanaged /\ UNCHANGED <<intervention, recording, steps>>

\* pause, resume, request_intervention and resolve_intervention.
Steer(to, wanted) ==
    /\ execution' = to /\ intervention' = wanted
    /\ Unmanaged /\ UNCHANGED <<task, recording, steps>>

Pause == Steer("paused", intervention)
Resume == Steer("running", FALSE)
RequestIntervention == Steer("waiting_for_human", TRUE)
ResolveIntervention == Steer("resuming", FALSE)

DashboardNext ==
    \/ \E t \in Task : \/ \E p \in Profile : Start(t, p)
                       \/ Restart(t) \/ Stop(t) \/ Closed(t) \/ CloseRaises(t)
                       \/ Launched(t)
                       \/ Act(t) \/ Acted(t) \/ ReplayWorkflow(t) \/ Replayed(t)
    \/ StartRecording \/ SaveRecording
    \/ Pause \/ Resume \/ RequestIntervention \/ ResolveIntervention

DashboardSpec == DashboardInit /\ [][DashboardNext]_dashboardVars

---------------------------------------------------------------------------
\* Types of the variables.
DashboardTypeOK ==
    /\ browser \in 0 .. MaxMade /\ profile \in Profile
    /\ state \in [DashBrowser -> {"unmade", "launching", "open", "broken", "closed"}]
    /\ runs \in [DashBrowser -> Profile]
    /\ \A t \in Task : /\ task[t].at \in {"rest", "close", "launch", "act", "replay"}
                       /\ task[t].b \in 0 .. MaxMade /\ task[t].profile \in Profile
    /\ execution \in {"idle", "running", "paused", "waiting_for_human", "resuming",
                      "completed", "failed"}
    /\ intervention \in BOOLEAN /\ recording \in BOOLEAN
    /\ Len(steps) <= MaxSteps /\ together \in BOOLEAN

\* As long as no two starts, stops or restarts were under way at once, the
\* manager knows every browser that runs, half runs or is being launched, and
\* calls the profile of the one that runs by its name: whatever actions,
\* replays, failed launches and failed closes come in between.
AloneNothingIsLost ==
    ~ together => /\ \A b \in DashBrowser :
                       state[b] \in {"launching", "open", "broken"} => browser = b
                  /\ browser # 0 /\ state[browser] = "open" => runs[browser] = profile

\* "Drives one shared browser session": never two browsers at once.
OneSharedBrowser ==
    Cardinality({b \in DashBrowser : state[b] = "open"}) <= 1
=============================================================================
