---------------------------- MODULE MCAuditLogger ----------------------------
(***************************************************************************)
(* Instances of AuditLogger for TLC.                                       *)
(***************************************************************************)
EXTENDS AuditLogger

CONSTANTS l1, l2

\* One logger meets a full queue; the other writes between its lines.
MCMaxCalls == [l \in Logger |-> IF l = l1 THEN 3 ELSE 1]
=============================================================================
