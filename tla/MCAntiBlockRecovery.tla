------------------------ MODULE MCAntiBlockRecovery -------------------------
(***************************************************************************)
(* Instances of AntiBlockRecovery for TLC.                                 *)
(***************************************************************************)
EXTENDS AntiBlockRecovery

CONSTANTS e1, e2

\* Two executions on one shop: they share its breaker and its history.
MCPlatformOf == [e \in Execution |-> "shop"]
MCSiteOf == [e \in Execution |-> "shop page"]
MCKind == [p \in Platform |-> "amazon"]
MCMaxRetries == [e \in Execution |-> 2]
MCStrategyRetries == [p \in Platform |-> 2]
MCCustom == [p \in Platform |-> {"rotate_both"}]
\* AgentBrowser gives everything, test_e2e_anti_block_recovery.py nothing.
MCWirings == {Part, {}}
=============================================================================
