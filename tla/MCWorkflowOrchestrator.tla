----------------------- MODULE MCWorkflowOrchestrator -----------------------
(***************************************************************************)
(* Instances of WorkflowOrchestrator for TLC.                              *)
(***************************************************************************)
EXTENDS WorkflowOrchestrator

CONSTANTS j1, j2, j3, rec, site, other

\* Two jobs of the user on one domain, one of them urgent, and one job that
\* a recurring entry spawns on another domain.
MCDomainOf == [j \in Job |-> IF j = j3 THEN other ELSE site]
MCPriorityOf == [j \in Job |-> IF j = j2 THEN 1 ELSE 0]
MCIdOf == [j \in Job |-> <<j>>]
MCSpawnedBy == [j \in Job |-> IF j = j3 THEN rec ELSE Caller]
MCLimit == (site :> 2) @@ (other :> 1)

\* Jobs of the user on one domain: with three, the smallest case in which a
\* late wake-up can free the slot of another job and let a third one in.
OneDomainOf == [j \in Job |-> site]
OneLimit == (site :> 1)
OneSpawnedBy == [j \in Job |-> Caller]
=============================================================================
