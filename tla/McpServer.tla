----------------------------- MODULE McpServer -----------------------------
(***************************************************************************)
(* The MCP server: its named browser sessions and its tools                *)
(* (src/production/mcp_server.py, mcp_handlers.py). run_stdio answers one  *)
(* request after the other, so a tool call is one step, except for a       *)
(* replay, whose steps (ReplayGate) interleave with what the web sites and *)
(* other writers of the workflow library do.                               *)
(*                                                                         *)
(* A browser is a number, in the order in which the server made them,      *)
(* which is the order of _sessions too: a session that is launched again   *)
(* goes to its end. A tab is known by the address of its Page object,      *)
(* id(page), which is free again once the page is gone.                    *)
(***************************************************************************)
EXTENDS ReplayGate

CONSTANTS Name,         \* session names
          NoName,       \* no session name, no active session
          Address,      \* addresses of Page objects
          MaxBrowsers,  \* bound on the browsers that are made
          MaxTabId      \* bound on the tab ids that are handed out

ASSUME McpAssumption == /\ NoName \notin Name
                        /\ IsFiniteSet(Address)
                        /\ MaxBrowsers \in Nat /\ MaxTabId \in Nat
                        /\ \A url \in Site : [type |-> "navigate", url |-> url] \in Step
                        /\ [type |-> "wait", url |-> Unset] \in Step

VARIABLES session,      \* _sessions: name |-> its browser, 0 for none
          active,       \* _active_session
          made,         \* browsers made so far
          pages,        \* browser |-> addresses of its open pages
          at,           \* browser |-> the site its page shows, or Unset
          tabIds,       \* _tab_ids: name |-> (address |-> id)
          lastTab,      \* _next_tab_id - 1
          serving       \* run_stdio is in its loop

sessionVars == <<session, active, made, pages, at, tabIds, lastTab, serving>>
mcpVars == <<sessionVars, replayVars>>

Browser == 1 .. MaxBrowsers
Empty == [a \in {} |-> 0]

McpInit == /\ ReplayInit
           /\ session = [n \in Name |-> 0] /\ active = NoName
           /\ made = 0
           /\ pages = [b \in Browser |-> {}]
           /\ at = [b \in Browser |-> Unset]
           /\ tabIds = [n \in Name |-> Empty] /\ lastTab = 0
           /\ serving = TRUE

Open == {n \in Name : session[n] # 0}
Free == Address \ UNION Range(pages)

\* handle_jsonrpc of tools/call: a request is read once the one before is
\* answered, and its tool runs if the approval gate lets it.
ToolCall(tool, url) ==
    serving /\ player = Idle /\ Approved(tool, url)

---------------------------------------------------------------------------
\* _resolve_browser: the named session, else the active one, else the only one.
Chosen(n) == IF n # NoName THEN n
             ELSE IF active # NoName THEN active
             ELSE IF Cardinality(Open) = 1 THEN CHOOSE m \in Open : TRUE
             ELSE NoName

\* The call goes to session c, which becomes the active one.
Resolved(n, c) == c = Chosen(n) /\ c \in Open /\ active' = c

\* For comparison: the first session is looked for before n is popped.
OldestBeforePop(n) ==
    CHOOSE m \in Open : \A k \in Open : session[m] <= session[k]

\* next(iter(self._sessions)) once session n is gone.
Oldest(n) == LET rest == Open \ {n}
             IN IF rest = {} THEN NoName
                ELSE CHOOSE m \in rest : \A k \in rest : session[m] <= session[k]

---------------------------------------------------------------------------
\* stealth_launch and stealth_attach_over_cdp: a session of that name is closed
\* first and its tab ids stay; if the new browser does not come up, nothing is
\* registered and the name is not taken out of _active_session.
OpenSession(n, opened) ==
    /\ made < MaxBrowsers
    /\ made' = made + 1
    /\ at' = [b \in Browser |-> IF b = session[n] THEN Unset ELSE at[b]]
    /\ LET before == [b \in Browser |-> IF b = session[n] THEN {} ELSE pages[b]]
       IN \/ /\ opened # {} /\ opened \intersect UNION Range(before) = {}
             /\ session' = [session EXCEPT ![n] = made + 1]
             /\ active' = n
             /\ pages' = [before EXCEPT ![made + 1] = opened]
          \/ /\ opened = {}
             /\ session' = [session EXCEPT ![n] = 0]
             /\ pages' = before
             /\ UNCHANGED active
    /\ UNCHANGED <<tabIds, lastTab, serving, replayVars>>

Launch(n) == /\ ToolCall("stealth_launch", Unset)
             /\ \E p \in SUBSET Address : Cardinality(p) <= 1 /\ OpenSession(n, p)

Attach(n) == /\ ToolCall("stealth_attach_over_cdp", Unset)
             /\ \E p \in SUBSET Address : OpenSession(n, p)

\* A visit that succeeds; one that fails leaves the page where it is.
Visit(n, url) ==
    /\ \E c \in Name :
         /\ Resolved(n, c)
         /\ \/ pages[session[c]] # {} /\ at' = [at EXCEPT ![session[c]] = url]
            \/ UNCHANGED at
    /\ UNCHANGED <<session, made, pages, tabIds, lastTab, serving, replayVars>>

\* stealth_navigate, and stealth_scrape, which goes to its URL too.
Navigate(n, url) == ToolCall("stealth_navigate", url) /\ Visit(n, url)
Scrape(n, url) == ToolCall("stealth_scrape", url) /\ Visit(n, url)

\* stealth_load_cookies and stealth_get_cdp_endpoint change the active session.
Ask(n) ==
    /\ ToolCall("stealth_load_cookies", Unset)
    /\ \E c \in Name : Resolved(n, c)
    /\ UNCHANGED <<session, made, pages, at, tabIds, lastTab, serving, replayVars>>

\* stealth_status, stealth_session_timeline and stealth_debug_report.
Inspect(n) ==
    /\ ToolCall("stealth_status", Unset)
    /\ \E c \in Name : Resolved(n, c)
    /\ UNCHANGED <<session, made, pages, at, tabIds, lastTab, serving, replayVars>>

\* stealth_set_region with relaunch: the session keeps its browser object, which
\* has a new page, or none if the relaunch failed, which is reported as success.
SetRegion(n) ==
    /\ ToolCall("stealth_set_region", Unset)
    /\ \E c \in Name :
         /\ Resolved(n, c)
         /\ \E p \in SUBSET (Free \union pages[session[c]]) :
              /\ Cardinality(p) <= 1
              /\ pages' = [pages EXCEPT ![session[c]] = p]
         /\ at' = [at EXCEPT ![session[c]] = Unset]
    /\ UNCHANGED <<session, made, tabIds, lastTab, serving, replayVars>>

---------------------------------------------------------------------------
\* For comparison: every session counts its tabs from one.
HandOutPerSession(n, seen) ==
    LET new == seen \ DOMAIN tabIds[n]
        first == Cardinality(DOMAIN tabIds[n]) + 1
        last == Cardinality(DOMAIN tabIds[n] \union new)
    IN /\ last <= MaxTabId
       /\ lastTab' = IF last > lastTab THEN last ELSE lastTab
       /\ \E f \in Bijection(new, first .. last) :
             tabIds' = [tabIds EXCEPT ![n] = [a \in DOMAIN @ \union new |->
                          IF a \in new THEN f[a] ELSE @[a]]]

\* For comparison: every listing numbers all that it sees anew.
HandOutAgain(n, seen) ==
    LET last == lastTab + Cardinality(seen)
    IN /\ last <= MaxTabId
       /\ lastTab' = last
       /\ \E f \in Bijection(seen, lastTab + 1 .. last) :
             tabIds' = [tabIds EXCEPT ![n] = f]

\* _get_tab_id for the pages at these addresses, in any order.
HandOut(n, seen) ==
    LET new == seen \ DOMAIN tabIds[n]
        last == lastTab + Cardinality(new)
    IN /\ last <= MaxTabId
       /\ lastTab' = last
       /\ \E f \in Bijection(new, lastTab + 1 .. last) :
             tabIds' = [tabIds EXCEPT ![n] = [a \in DOMAIN @ \union new |->
                          IF a \in new THEN f[a] ELSE @[a]]]

\* stealth_tabs_list tells the ids of all pages.
TabsList(n) ==
    /\ ToolCall("stealth_tabs_list", Unset)
    /\ \E c \in Name : Resolved(n, c) /\ HandOut(c, pages[session[c]])
    /\ UNCHANGED <<session, made, pages, at, serving, replayVars>>

\* stealth_tab_snapshot: _resolve_page gives ids to the pages before the one
\* that it looks for, to all if there is none of that id.
TabSnapshot(n) ==
    /\ ToolCall("stealth_tab_snapshot", Unset)
    /\ \E c \in Name : /\ Resolved(n, c)
                       /\ \E seen \in SUBSET pages[session[c]] : HandOut(c, seen)
    /\ UNCHANGED <<session, made, pages, at, serving, replayVars>>

\* Sites and users open and close pages; an adopted browser may lose them all.
PageOpens(b, a) ==
    /\ serving /\ pages[b] # {} /\ a \in Free
    /\ pages' = [pages EXCEPT ![b] = @ \union {a}]
    /\ UNCHANGED <<session, active, made, at, tabIds, lastTab, serving, replayVars>>

PageCloses(b, a) ==
    /\ serving /\ a \in pages[b]
    /\ pages' = [pages EXCEPT ![b] = @ \ {a}]
    /\ UNCHANGED <<session, active, made, at, tabIds, lastTab, serving, replayVars>>

---------------------------------------------------------------------------
\* stealth_teach: the workflow goes to the site that the session shows and
\* waits; with no site it has no steps.
Taught(url) ==
    [steps |-> IF url = Unset THEN <<>>
               ELSE <<[type |-> "navigate", url |-> url], [type |-> "wait", url |-> Unset]>>,
     default |-> Unset]

Teach(n, f) ==
    /\ ToolCall("stealth_teach", Unset)
    /\ Resolved(n, n)
    /\ WriteFile(f, Taught(at[session[n]]))
    /\ UNCHANGED <<session, made, pages, at, tabIds, lastTab, serving>>
    /\ UNCHANGED <<policy, permissive, player, dispatched>>

\* stealth_workflow_delete.
DeleteWorkflow(f) ==
    /\ ToolCall("stealth_workflow_delete", Unset)
    /\ library[f] # Unset /\ WriteFile(f, Unset)
    /\ UNCHANGED <<sessionVars, policy, permissive, player, dispatched>>

\* stealth_replay: the checks come before the session is looked for.
Replay(n, f, v) ==
    /\ ToolCall("stealth_replay", Unset)
    /\ \E c \in Name : Resolved(n, c)
    /\ StartReplay(f, v)
    /\ UNCHANGED <<session, made, pages, at, tabIds, lastTab, serving>>

\* The player at work in the session that the replay resolved.
PlayStep ==
    /\ Dispatch
    /\ LET b == session[active]
       IN at' = IF dispatched'.type = "navigate" /\ dispatched'.url \in Site
                THEN [at EXCEPT ![b] = dispatched'.url] ELSE at
    /\ UNCHANGED <<session, active, made, pages, tabIds, lastTab, serving>>

PlayOn == (EndNested \/ EndReplay) /\ UNCHANGED sessionVars

SomebodyWrites(f, body) == SomebodyEdits(f, body) /\ UNCHANGED sessionVars

---------------------------------------------------------------------------
\* stealth_close of one session.
CloseSession(n) ==
    /\ ToolCall("stealth_close", Unset)
    /\ LET c == Chosen(n)
       IN /\ c \in Open
          /\ session' = [session EXCEPT ![c] = 0]
          /\ pages' = [pages EXCEPT ![session[c]] = {}]
          /\ at' = [at EXCEPT ![session[c]] = Unset]
          /\ tabIds' = [tabIds EXCEPT ![c] = Empty]
          /\ active' = Oldest(c)
    /\ UNCHANGED <<made, lastTab, serving, replayVars>>

\* _close_all_sessions.
AllClosed ==
    /\ session' = [n \in Name |-> 0]
    /\ pages' = [b \in Browser |-> {}]
    /\ at' = [b \in Browser |-> Unset]
    /\ tabIds' = [n \in Name |-> IF n \in Open THEN Empty ELSE tabIds[n]]
    /\ active' = NoName

CloseAll == /\ ToolCall("stealth_close", Unset)
            /\ AllClosed
            /\ UNCHANGED <<made, lastTab, serving, replayVars>>

\* shutdown and exit need no approval. At the end of its input the server
\* stops as well, without _close_all_sessions.
Shutdown == /\ serving /\ player = Idle /\ serving' = FALSE
            /\ AllClosed
            /\ UNCHANGED <<made, lastTab, replayVars>>

EndOfInput == /\ serving /\ player = Idle /\ serving' = FALSE
              /\ UNCHANGED <<session, active, made, pages, at, tabIds, lastTab, replayVars>>

McpNext ==
    \/ \E n \in Name : Launch(n) \/ Attach(n)
    \/ \E n \in Name \union {NoName} :
          \/ \E url \in Site : Navigate(n, url) \/ Scrape(n, url)
          \/ Ask(n) \/ Inspect(n) \/ SetRegion(n) \/ TabsList(n) \/ TabSnapshot(n)
          \/ \E f \in File, v \in Site \union {Unset} : Replay(n, f, v)
          \/ CloseSession(n)
    \/ \E n \in Name, f \in File : Teach(n, f)
    \/ \E f \in File : DeleteWorkflow(f)
    \/ \E f \in File, body \in Body \union {Unset} : SomebodyWrites(f, body)
    \/ PlayStep \/ PlayOn
    \/ \E b \in Browser, a \in Address : PageOpens(b, a) \/ PageCloses(b, a)
    \/ CloseAll \/ Shutdown \/ EndOfInput

McpSpec == McpInit /\ [][McpNext]_mcpVars

---------------------------------------------------------------------------
\* Types of the variables.
ServerTypeOK ==
    /\ session \in [Name -> 0 .. made] /\ active \in Name \union {NoName}
    /\ made \in 0 .. MaxBrowsers
    /\ pages \in [Browser -> SUBSET Address] /\ at \in [Browser -> Site \union {Unset}]
    /\ DOMAIN tabIds = Name
    /\ \A n \in Name : /\ DOMAIN tabIds[n] \subseteq Address
                       /\ tabIds[n] \in [DOMAIN tabIds[n] -> 1 .. lastTab]
    /\ lastTab \in 0 .. MaxTabId /\ serving \in BOOLEAN

McpTypeOK == ReplayTypeOK /\ ServerTypeOK

\* Whatever was launched, attached, relaunched and closed in whatever order,
\* and although addresses are used again: no browser belongs to two sessions; as
\* long as the server serves, one with open pages belongs to a session; and two
\* pages that are open, in whatever sessions, never have the same tab id.
TabsAreDistinct ==
    /\ \A n, m \in Open : session[n] = session[m] => n = m
    /\ serving => \A b \in Browser : pages[b] # {} => \E n \in Open : session[n] = b
    /\ \A n, m \in Open : \A a \in pages[session[n]] \intersect DOMAIN tabIds[n],
                             c \in pages[session[m]] \intersect DOMAIN tabIds[m] :
         tabIds[n][a] = tabIds[m][c] => n = m /\ a = c

\* A page that stays open in a session keeps its tab id, so an id that
\* stealth_tabs_list told can be given to stealth_tab_snapshot later.
TabKeepsItsId ==
    [][\A n \in Name :
         session[n] # 0 /\ session'[n] = session[n] =>
            \A a \in pages[session[n]] \intersect pages'[session[n]]
                                       \intersect DOMAIN tabIds[n] :
               a \in DOMAIN tabIds'[n] /\ tabIds'[n][a] = tabIds[n][a]]_mcpVars

\* A call that names no session reaches an open one, the session of the call
\* before or the oldest, as long as one is open: only a launch or attach whose
\* browser does not come up, under the name of the active session, ends this.
Arrives == Open = {} \/ Chosen(NoName) \in Open

UnnamedCallsArrive ==
    [][Arrives /\ ~ Arrives' => made' > made /\ session'[active] = 0]_mcpVars
=============================================================================
