----------------------------- MODULE MCNavigation -----------------------------
(***************************************************************************)
(* Two callers for TLC.  An hour is two units and a minute one, so that    *)
(* a request may leave the short window and still fill the long one.       *)
(***************************************************************************)
EXTENDS Navigation

CONSTANTS t1, t2, s1, s2

MCVisits == [t \in Task |-> IF t = t1 THEN {s1, s2} ELSE {s1}]
MCCalls == [t \in Task |-> IF t = t1 THEN 3 ELSE 1]
MCDefault == [perMinute |-> 1, cooldown |-> 0]
MCOther == [perMinute |-> 2, cooldown |-> 1]
MCDuration == <<1>>
=============================================================================
