------------------------------ MODULE MCProtocol -------------------------------
(* Values of the constants of Protocol for TLC.                            *)
EXTENDS Protocol

CONSTANTS g1, g2

(* The second task outranks the first; no dedup keys.                      *)
MCPriority == [t \in Task |-> IF t = 2 THEN 0 ELSE 2]
MCNoDedupKey == [t \in Task |-> 0]
MCServesAll == [g \in Guest |-> Task]

(* g2 lacks the tag of the first task.                                     *)
MCServes == [g \in Guest |-> IF g = g2 THEN Task \ {1} ELSE Task]
===============================================================================
