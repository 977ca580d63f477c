---------------------------- MODULE RpcContract ----------------------------
(***************************************************************************)
(* What a caller of a backend adapter may count on, whatever the server    *)
(* process does: a call is carried out at most once, a call that was       *)
(* answered was carried out before, and the answer is that call's. A call  *)
(* that failed may have been carried out, or still be carried out later.   *)
(***************************************************************************)
EXTENDS Naturals

CONSTANTS Caller, Call, NoCall

VARIABLES asks,         \* caller |-> the call whose end it waits for, or NoCall
          issued,       \* calls that were made
          ran,          \* call |-> how often it was carried out
          answer        \* caller |-> the call that its last answer was for

vars == <<asks, issued, ran, answer>>

Init == /\ asks = [c \in Caller |-> NoCall]
        /\ issued = {} /\ ran = [k \in Call |-> 0]
        /\ answer = [c \in Caller |-> NoCall]

Ask(c, k) == /\ asks[c] = NoCall /\ k \in Call \ issued
             /\ asks' = [asks EXCEPT ![c] = k]
             /\ issued' = issued \union {k}
             /\ answer' = [answer EXCEPT ![c] = NoCall]
             /\ UNCHANGED ran

CarryOut(k) == /\ k \in issued /\ ran[k] = 0
               /\ ran' = [ran EXCEPT ![k] = 1]
               /\ UNCHANGED <<asks, issued, answer>>

Answer(c) == /\ asks[c] # NoCall /\ ran[asks[c]] > 0
             /\ answer' = [answer EXCEPT ![c] = asks[c]]
             /\ asks' = [asks EXCEPT ![c] = NoCall]
             /\ UNCHANGED <<issued, ran>>

Fail(c) == /\ asks[c] # NoCall
           /\ asks' = [asks EXCEPT ![c] = NoCall]
           /\ UNCHANGED <<issued, ran, answer>>

Next == \/ \E c \in Caller : Answer(c) \/ Fail(c) \/ \E k \in Call : Ask(c, k)
        \/ \E k \in Call : CarryOut(k)

Spec == Init /\ [][Next]_vars
=============================================================================
