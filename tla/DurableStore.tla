----------------------------- MODULE DurableStore ------------------------------
(***************************************************************************)
(* What the queue store promises, whatever files it is made of and         *)
(* whenever the server crashes: a set of tasks that changes by one task in *)
(* one step.  A task is in it once, from the moment it is persisted to the *)
(* moment it is forgotten; submitters are answered and ends are reported   *)
(* accordingly.  A crash and a restart are no steps at all.                *)
(***************************************************************************)
CONSTANT Task

VARIABLES
  offered,    \* the tasks ever submitted
  stored,     \* those that a restart would bring back
  forgotten,  \* those it never will again
  accepted,   \* those whose submitter was answered
  announced   \* those whose end was reported

durableVars == <<offered, stored, forgotten, accepted, announced>>

DurableInit ==
  /\ offered = {} /\ stored = {} /\ forgotten = {} /\ accepted = {} /\ announced = {}

Offer(t) ==
  /\ t \notin offered
  /\ offered' = offered \cup {t}
  /\ UNCHANGED <<stored, forgotten, accepted, announced>>

Persist(t) ==
  /\ t \in offered \ (stored \cup forgotten)
  /\ stored' = stored \cup {t}
  /\ UNCHANGED <<offered, forgotten, accepted, announced>>

Forget(t) ==
  /\ t \in stored
  /\ stored' = stored \ {t} /\ forgotten' = forgotten \cup {t}
  /\ UNCHANGED <<offered, accepted, announced>>

Answer(t) ==
  /\ t \in stored
  /\ accepted' = accepted \cup {t}
  /\ UNCHANGED <<offered, stored, forgotten, announced>>

Announce(t) ==
  /\ t \in forgotten
  /\ announced' = announced \cup {t}
  /\ UNCHANGED <<offered, stored, forgotten, accepted>>

DurableNext ==
  \E t \in Task : Offer(t) \/ Persist(t) \/ Forget(t) \/ Answer(t) \/ Announce(t)

DurableSpec == DurableInit /\ [][DurableNext]_durableVars
===============================================================================
