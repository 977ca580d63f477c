------------------------------ MODULE MCStores ------------------------------
(***************************************************************************)
(* What the repository keeps per session and per account, instances for    *)
(* TLC: the session directories, the cookies, the checkpoints and the      *)
(* proxies. The four share no state, so a behaviour exercises one of them  *)
(* (part), and the run explores the union of their states and not the      *)
(* product.                                                                *)
(***************************************************************************)
EXTENDS SessionDirs, CookieStore, CheckpointStore, ProxyRegistry, TLC

CONSTANTS s1, s2, c1, c2, n1, k1, k2, short, none, a1, a2, p1, p2, lab, res

VARIABLE part

StoresInit == /\ part \in {"dirs", "cookies", "checkpoints", "proxies"}
              /\ DirInit /\ CookieInit /\ CheckpointInit /\ ProxyInit

StoresNext ==
    /\ UNCHANGED part
    /\ \/ /\ part = "dirs" /\ DirNext
          /\ UNCHANGED <<cookieVars, checkpointVars, proxyVars>>
       \/ /\ part = "cookies" /\ CookieNext
          /\ UNCHANGED <<dirVars, checkpointVars, proxyVars>>
       \/ /\ part = "checkpoints" /\ CheckpointNext
          /\ UNCHANGED <<dirVars, cookieVars, proxyVars>>
       \/ /\ part = "proxies" /\ ProxyNext
          /\ UNCHANGED <<dirVars, cookieVars, checkpointVars>>

StoresSpec ==
    StoresInit /\ [][StoresNext]_<<part, dirVars, cookieVars, checkpointVars, proxyVars>>

\* Types of the variables of the four components.
StoresTypeOK == DirTypeOK /\ CookieTypeOK /\ CheckpointTypeOK /\ ProxyTypeOK

\* No account's name begins with the name of another and an underscore.
NoOverlap == [a \in Account |-> {a}]

Same == Permutations(Key) \union Permutations(ProxySession)
=============================================================================
