---------------------------- MODULE MCOrchestrator ----------------------------
(* Values of the constants of Orchestrator for TLC.                        *)
EXTENDS Orchestrator

CONSTANTS g1, g2

(* The second task outranks the first; both carry the same dedup key.      *)
MCPriority == [t \in Task |-> IF t = 2 THEN 0 ELSE 2]
MCDedupKey == [t \in Task |-> IF t <= 2 THEN 1 ELSE 0]
MCNoDedupKey == [t \in Task |-> 0]

(* g2 lacks the tag of the first task.                                     *)
MCServes == [g \in Guest |-> IF g = g2 THEN Task \ {1} ELSE Task]
MCServesAll == [g \in Guest |-> Task]
===============================================================================
