---------------------------- MODULE BackendLink ----------------------------
(***************************************************************************)
(* A backend adapter of the dashboard and the stdio MCP server it starts   *)
(* (src/production/adapters/_jsonrpc_stdio.py, agentic_stealth_mcp.py,     *)
(* playwright_mcp.py, and the loop of mcp_server.py run_stdio).            *)
(*                                                                         *)
(* Servers are numbered as they are spawned; each has its pipes and its    *)
(* JsonRpcStdioClient with request ids of its own. Several callers may be  *)
(* inside the adapter at once: they queue for the client's lock, and the   *)
(* one at the head has it. A line from a server is the answer to a         *)
(* request, a line that is not JSON, or one that readline or the parsing   *)
(* of the client raise on, such as one above the limit of the stream.      *)
(* The notification after the handshake has no answer and is left out.     *)
(***************************************************************************)
EXTENDS Naturals, Sequences, FiniteSets, SequencesExt

CONSTANTS Caller,
          MaxServers,   \* bound on the servers that are spawned
          MaxRequests,  \* bound on the requests of one client
          MaxIssued,    \* bound on the requests of all clients
          MaxNoise      \* bound on the lines that are no answers

ASSUME LinkAssumption == /\ MaxServers \in Nat /\ MaxRequests \in Nat
                         /\ MaxIssued \in Nat /\ MaxNoise \in Nat

VARIABLES spawned,      \* servers so far
          proc,         \* _proc: a server, or 0
          client,       \* _client: that of a server, or 0
          ending,       \* server |-> how many wait for its process to end
          rejected,     \* server |-> how many launches, whose own server turned
                        \* out to be another program, wait for its process to end
          alive,        \* servers whose process runs
          asks,         \* caller |-> [server, id] of its request, or NoCall
          kind,         \* caller |-> "launch" or "tool"
          lock,         \* server |-> callers at the lock, the holder first
          sent,         \* callers whose request is written
          lastId,       \* server |-> _next_id - 1
          input,        \* server |-> ids in its stdin
          output,       \* server |-> lines in its stdout
          ran,          \* request |-> how often a server carried it out
          answer,       \* caller |-> the request that its last answer was for
          noise

adapterVars == <<spawned, proc, client, ending, rejected>>
serverVars == <<alive, input, output, ran, noise>>
callVars == <<asks, kind, lock, sent, lastId, answer>>
vars == <<adapterVars, serverVars, callVars>>

Server == 1 .. MaxServers
Call == [server : Server, id : 1 .. MaxRequests]
NoCall == [server |-> 0, id |-> 0]

Answered(id) == [what |-> "answer", id |-> id]
Junk == [what |-> "junk", id |-> 0]
Raising == [what |-> "raising", id |-> 0]

Init == /\ spawned = 0 /\ proc = 0 /\ client = 0
        /\ ending = [s \in Server |-> 0] /\ rejected = [s \in Server |-> 0]
        /\ alive = {} /\ noise = 0
        /\ ran = [k \in Call |-> 0]
        /\ input = [s \in Server |-> <<>>] /\ output = [s \in Server |-> <<>>]
        /\ asks = [c \in Caller |-> NoCall] /\ kind = [c \in Caller |-> "tool"]
        /\ lock = [s \in Server |-> <<>>] /\ sent = {}
        /\ lastId = [s \in Server |-> 0]
        /\ answer = [c \in Caller |-> NoCall]

---------------------------------------------------------------------------
\* Requests that were made: a server's ids up to its last one.
Issued == {k \in Call : k.id <= lastId[k.server]}

\* For comparison: a lock that the last to come gets next.
RequestAtFront(c, s, what) ==
    /\ asks[c] = NoCall /\ lastId[s] < MaxRequests /\ Cardinality(Issued) < MaxIssued
    /\ lastId' = [lastId EXCEPT ![s] = @ + 1]
    /\ asks' = [asks EXCEPT ![c] = [server |-> s, id |-> lastId'[s]]]
    /\ kind' = [kind EXCEPT ![c] = what]
    /\ lock' = [lock EXCEPT ![s] = <<c>> \o @]
    /\ answer' = [answer EXCEPT ![c] = NoCall]
    /\ UNCHANGED sent

\* request: the id is taken before the lock.
Request(c, s, what) ==
    /\ asks[c] = NoCall /\ lastId[s] < MaxRequests /\ Cardinality(Issued) < MaxIssued
    /\ lastId' = [lastId EXCEPT ![s] = @ + 1]
    /\ asks' = [asks EXCEPT ![c] = [server |-> s, id |-> lastId'[s]]]
    /\ kind' = [kind EXCEPT ![c] = what]
    /\ lock' = [lock EXCEPT ![s] = Append(@, c)]
    /\ answer' = [answer EXCEPT ![c] = NoCall]
    /\ UNCHANGED sent

\* _call_tool of navigate, click, fill and screenshot.
CallTool(c) == /\ client # 0 /\ Request(c, client, "tool")
               /\ UNCHANGED <<adapterVars, serverVars>>

\* launch: the adapter points to the new server and its client at once, then
\* waits for the handshake. A server from before is not looked at.
LaunchServer(c) == /\ spawned < MaxServers
                   /\ spawned' = spawned + 1
                   /\ proc' = spawned' /\ client' = spawned'
                   /\ alive' = alive \union {spawned'}
                   /\ Request(c, spawned', "launch")
                   /\ UNCHANGED <<ending, rejected, input, output, ran, noise>>

\* _terminate_subprocess of the process that the adapter points to now, which
\* may take a while to end.
Terminate == /\ ending' = IF proc = 0 THEN ending ELSE [ending EXCEPT ![proc] = @ + 1]
             /\ UNCHANGED <<spawned, proc, client, rejected>>

\* close, by one caller at a time for one server.
Close == /\ proc # 0 /\ ending[proc] = 0
         /\ Terminate
         /\ UNCHANGED <<serverVars, callVars>>

\* The process has ended: whatever process and client the adapter points to by
\* now are forgotten; callers that wait keep the client they had.
Terminated(s) ==
    /\ ending[s] > 0 /\ ending' = [ending EXCEPT ![s] = @ - 1]
    /\ alive' = alive \ {s} /\ proc' = 0 /\ client' = 0
    /\ UNCHANGED <<spawned, rejected, input, output, ran, noise, callVars>>

\* The launch that rejected its server has waited for the process it found, and
\* its own error is handled: if another process is there by now, that one is
\* terminated too before the adapter forgets it.
RejectionEnds(s) ==
    /\ rejected[s] > 0 /\ rejected' = [rejected EXCEPT ![s] = @ - 1]
    /\ alive' = alive \ {s}
    /\ IF proc \in {0, s}
       THEN proc' = 0 /\ client' = 0 /\ UNCHANGED ending
       ELSE ending' = [ending EXCEPT ![proc] = @ + 1] /\ UNCHANGED <<proc, client>>
    /\ UNCHANGED <<spawned, input, output, ran, noise, callVars>>

---------------------------------------------------------------------------
Mine(c) == asks[c].server
Holds(c) == asks[c] # NoCall /\ Head(lock[Mine(c)]) = c

\* The lock is free for the next one, and the caller has its end; a launch that
\* failed terminates the process that the adapter points to now.
Leaves(c) == /\ asks' = [asks EXCEPT ![c] = NoCall]
             /\ lock' = [lock EXCEPT ![Mine(c)] = Tail(@)]
             /\ sent' = sent \ {c}
             /\ UNCHANGED <<kind, lastId>>

Fails(c) == /\ Leaves(c) /\ UNCHANGED answer
            /\ IF kind[c] = "launch" THEN Terminate ELSE UNCHANGED adapterVars

\* A handshake with a server of another name: the process that the adapter
\* points to now is terminated before the launch fails.
Rejects(c) == /\ kind[c] = "launch"
              /\ Leaves(c) /\ UNCHANGED answer
              /\ rejected' = IF proc = 0 THEN rejected
                             ELSE [rejected EXCEPT ![proc] = @ + 1]
              /\ UNCHANGED <<spawned, proc, client, ending>>

Succeeds(c) == /\ Leaves(c)
               /\ answer' = [answer EXCEPT ![c] = asks[c]]
               /\ UNCHANGED adapterVars

\* With the lock: write and drain, which may raise once the process is gone.
Send(c) ==
    /\ Holds(c) /\ c \notin sent
    /\ \/ /\ sent' = sent \union {c}
          /\ input' = [input EXCEPT ![Mine(c)] = Append(@, asks[c].id)]
          /\ UNCHANGED <<adapterVars, asks, kind, lock, lastId, answer>>
       \/ /\ Mine(c) \notin alive /\ Fails(c)
          /\ UNCHANGED input
    /\ UNCHANGED <<alive, output, ran, noise>>

\* For comparison: any answer ends the request.
IsAnyAnswer(c, line) == line.what = "answer"

\* The loop over the lines: an answer to an earlier request that timed out is
\* skipped like a line that is not JSON. The caller's own may be an error.
IsMine(c, line) == line.what = "answer" /\ line.id = asks[c].id

Read(c) ==
    /\ Holds(c) /\ c \in sent /\ output[Mine(c)] # <<>>
    /\ output' = [output EXCEPT ![Mine(c)] = Tail(@)]
    /\ LET line == Head(output[Mine(c)])
       IN \/ IsMine(c, line) /\ (Succeeds(c) \/ Fails(c) \/ Rejects(c))
          \/ line.what = "raising" /\ Fails(c)
          \/ /\ ~ IsMine(c, line) /\ line.what # "raising"
             /\ UNCHANGED <<adapterVars, callVars>>
    /\ UNCHANGED <<alive, input, ran, noise>>

\* For comparison: the end of the pipe is taken for an empty line.
GivesUpAlive(c) ==
    /\ Holds(c) /\ c \in sent /\ output[Mine(c)] = <<>>
    /\ Mine(c) \in alive /\ Fails(c)
    /\ UNCHANGED serverVars

\* wait_for of 30 s for a line, or the end of the pipe.
GivesUp(c) ==
    /\ Holds(c) /\ c \in sent /\ output[Mine(c)] = <<>>
    /\ Fails(c)
    /\ UNCHANGED serverVars

---------------------------------------------------------------------------
\* run_stdio: one request is read, carried out and answered before the next; a
\* request that fails is answered too.
Serve(s) ==
    /\ s \in alive /\ input[s] # <<>>
    /\ input' = [input EXCEPT ![s] = Tail(@)]
    /\ ran' = [ran EXCEPT ![[server |-> s, id |-> Head(input[s])]] = @ + 1]
    /\ output' = [output EXCEPT ![s] = Append(@, Answered(Head(input[s])))]
    /\ UNCHANGED <<alive, noise, adapterVars, callVars>>

\* The answer of a request is too long for the stream, or the server dies
\* before it writes it.
ServeBadly(s) ==
    /\ s \in alive /\ input[s] # <<>> /\ noise < MaxNoise /\ noise' = noise + 1
    /\ input' = [input EXCEPT ![s] = Tail(@)]
    /\ ran' = [ran EXCEPT ![[server |-> s, id |-> Head(input[s])]] = @ + 1]
    /\ \/ output' = [output EXCEPT ![s] = Append(@, Raising)] /\ UNCHANGED alive
       \/ alive' = alive \ {s} /\ UNCHANGED output
    /\ UNCHANGED <<adapterVars, callVars>>

\* A log line on stdout.
Chatter(s) ==
    /\ s \in alive /\ noise < MaxNoise /\ noise' = noise + 1
    /\ \E line \in {Junk, Raising} : output' = [output EXCEPT ![s] = Append(@, line)]
    /\ UNCHANGED <<alive, input, ran, adapterVars, callVars>>

Die(s) == /\ s \in alive /\ alive' = alive \ {s}
          /\ UNCHANGED <<input, output, ran, noise, adapterVars, callVars>>

Next == \/ \E c \in Caller : \/ CallTool(c) \/ LaunchServer(c)
                             \/ Send(c) \/ Read(c) \/ GivesUp(c)
        \/ Close
        \/ \E s \in Server : \/ Terminated(s) \/ RejectionEnds(s)
                             \/ Serve(s) \/ ServeBadly(s) \/ Chatter(s) \/ Die(s)

\* The event loop runs a task that can go on, and a timer that has expired;
\* nothing is asked of the server.
Fairness == \A c \in Caller : WF_vars(Send(c)) /\ WF_vars(Read(c) \/ GivesUp(c))

Spec == Init /\ [][Next]_vars /\ Fairness

---------------------------------------------------------------------------
\* Types of the variables.
LinkTypeOK ==
    /\ spawned \in 0 .. MaxServers /\ proc \in 0 .. spawned /\ client \in {0, proc}
    /\ ending \in [Server -> Nat] /\ rejected \in [Server -> Nat]
    /\ alive \subseteq 1 .. spawned
    /\ asks \in [Caller -> Call \union {NoCall}]
    /\ kind \in [Caller -> {"launch", "tool"}]
    /\ \A s \in Server : lock[s] \in Seq(Caller) /\ input[s] \in Seq(1 .. MaxRequests)
    /\ sent \subseteq {c \in Caller : asks[c] # NoCall}
    /\ lastId \in [Server -> 0 .. MaxRequests]
    /\ ran \in [Call -> {0, 1}]
    /\ answer \in [Caller -> Call \union {NoCall}]
    /\ noise \in 0 .. MaxNoise

\* The callers that wait for a client's lock are those whose request went to
\* its server, each once, in the order of their ids, and only the holder's
\* request is written: whatever timed out, died or was closed in between, no
\* caller stays at a lock that nobody will release.
LockIsOrderly ==
    \A s \in Server :
       /\ ToSet(lock[s]) = {c \in Caller : asks[c].server = s}
       /\ \A i, j \in DOMAIN lock[s] : i < j => asks[lock[s][i]].id < asks[lock[s][j]].id
       /\ \A c \in sent : Mine(c) = s => lock[s][1] = c

\* The variables have their types, and the locks their order.
LinkInvariant == LinkTypeOK /\ LockIsOrderly

Contract == INSTANCE RpcContract WITH issued <- Issued

\* The adapter keeps what RpcContract promises, with answers that come after
\* their request timed out, lines that are no answers, servers that die or are
\* closed with requests in their pipes, and a launch or close during another.
LinkKeepsContract == Contract!Spec

\* Every call of an adapter comes to an end, its own or that of the lock
\* before it, although the server may never answer. (MaxNoise matters: the
\* 30 s are for one line, and a server that never stops writing log lines
\* would hold a caller for ever.)
EveryCallEnds == \A c \in Caller : asks[c] # NoCall ~> asks[c] = NoCall
=============================================================================
