---------------------------- MODULE ClientContract -----------------------------
(***************************************************************************)
(* What one rpc.Client promises the guest that owns it: a connection that  *)
(* breaks is reported through onClose, once, unless the owner has closed   *)
(* the client first.  RpcClient implements it; GuestConnection relies on   *)
(* it for every connection the guest goes through.                         *)
(***************************************************************************)
EXTENDS Naturals

VARIABLES
  phase,    \* the state of the connection
  reports   \* how often the owner was told that it is lost

vars == <<phase, reports>>

Phases == {"none", "open", "broken", "failing", "reported", "closed"}

Init == phase \in {"none", "open"} /\ reports = 0

Goes(from, to) == phase \in from /\ phase' = to

Dial == Goes({"none"}, "open") /\ UNCHANGED reports
Break == Goes({"open"}, "broken") /\ UNCHANGED reports
Fail == Goes({"broken"}, "failing") /\ UNCHANGED reports
Report == Goes({"failing"}, "reported") /\ reports' = reports + 1
Close == Goes({"open", "broken"}, "closed") /\ UNCHANGED reports

Next == Dial \/ Break \/ Fail \/ Report \/ Close

Spec == Init /\ [][Next]_vars
FairSpec == Spec /\ WF_vars(Fail) /\ WF_vars(Report)
===============================================================================
