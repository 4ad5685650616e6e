---------------------------- MODULE TaskLifecycle ----------------------------
(***************************************************************************)
(* What the check-in host promises about tasks, whatever its guests do:    *)
(* an accepted task waits, is held by one guest at a time, may be taken    *)
(* back and handed out again, and ends once.  A restart of the server      *)
(* returns every task that has not ended to the queue and forgets the      *)
(* others; no other step loses a task or revives one.                      *)
(*                                                                         *)
(* This is the state model of ARCHITECTURE.md and the transition table     *)
(* validTransition of pkg/queue, extended by the arc that CompleteTask and *)
(* FailTask document: a task may end without having been acknowledged.     *)
(***************************************************************************)
EXTENDS Naturals

CONSTANTS Task, Guest, NoGuest

VARIABLES
  phase,    \* task -> where it is in its life
  holder    \* task -> the guest that holds it, if any

lifecycleVars == <<phase, holder>>

Held == {"ASSIGNED", "RUNNING"}
Ended == {"COMPLETED", "FAILED", "CANCELLED"}
Open == {"PENDING"} \cup Held

InPhase(t, S) == phase[t] \in S

(* The tasks of S move to phase p and are held by h.                       *)
Move(S, p, h) ==
  /\ phase' = [t \in Task |-> IF t \in S THEN p ELSE phase[t]]
  /\ holder' = [t \in Task |-> IF t \in S THEN h ELSE holder[t]]

LifecycleInit ==
  /\ phase = [t \in Task |-> "NEW"]
  /\ holder = [t \in Task |-> NoGuest]

Accept(t) == InPhase(t, {"NEW"}) /\ Move({t}, "PENDING", NoGuest)

Grant(t, g) == InPhase(t, {"PENDING"}) /\ Move({t}, "ASSIGNED", g)

Begin(t) == InPhase(t, {"ASSIGNED"}) /\ Move({t}, "RUNNING", holder[t])

Finish(t, outcome) == InPhase(t, Held) /\ Move({t}, outcome, NoGuest)

Cancel(t) == InPhase(t, Open) /\ Move({t}, "CANCELLED", NoGuest)

(* Tasks taken back from their guests, one by one or by the sweep.         *)
Revoke(S) == (\A t \in S : InPhase(t, Held)) /\ Move(S, "PENDING", NoGuest)

(* Tasks given up with their guests.                                       *)
Abandon(S) == (\A t \in S : InPhase(t, Held)) /\ Move(S, "FAILED", NoGuest)

ServerRestart ==
  /\ phase' = [t \in Task |-> IF InPhase(t, Open) THEN "PENDING"
                              ELSE IF InPhase(t, Ended) THEN "FORGOTTEN"
                              ELSE phase[t]]
  /\ holder' = [t \in Task |-> NoGuest]

LifecycleNext ==
  \/ \E t \in Task :
       \/ Accept(t) \/ Begin(t) \/ Cancel(t)
       \/ \E g \in Guest : Grant(t, g)
       \/ \E outcome \in {"COMPLETED", "FAILED"} : Finish(t, outcome)
  \/ \E S \in SUBSET Task : Revoke(S) \/ Abandon(S)
  \/ ServerRestart

LifecycleSpec == LifecycleInit /\ [][LifecycleNext]_lifecycleVars
===============================================================================
