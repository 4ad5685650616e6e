---------------------------- MODULE GuestConnection ----------------------------
(***************************************************************************)
(* How a guest (pkg/guest) keeps itself connected: the Start loop dials,   *)
(* registers and waits for the loss of the connection; every connection    *)
(* has a connLost channel, a client and a heartbeat loop of its own, and   *)
(* those of earlier connections may still run when the next one is up.     *)
(*                                                                         *)
(* Connections are numbered by their attempt.  Attempt k has the channel   *)
(* resetConn made for it, so channel k and connection k share the number.  *)
(* The clients behave as ClientContract says; RpcClient implements that.   *)
(***************************************************************************)
EXTENDS Naturals

CONSTANTS
  MaxConns,       \* bound: how many connections are attempted
  ServerForgets   \* may the server answer a heartbeat with "not found"?

BoundAssumption == MaxConns \in Nat /\ ServerForgets \in BOOLEAN

Conn == 1..MaxConns
NoConn == 0

VARIABLES
  start,      \* where the Start loop is
  current,    \* the connection whose channel is Guest.connLost
  client,     \* the connection of Guest.client, NoConn for nil
  phase,      \* connection -> the state of its client (ClientContract)
  lost,       \* the connLost channels that are closed
  blame,      \* history: channel -> the connection on whose account it was closed
  cancelled,  \* the connections whose connCtx is cancelled
  loop,       \* connection -> where its heartbeat loop is
  snapshot,   \* connection -> the channel its loop last took from connLostSignal
  through,    \* connection -> the client its loop's Heartbeat goes through
  stopped     \* stopCh is closed

vars == <<start, current, client, phase, lost, blame, cancelled, loop, snapshot, through, stopped>>
lostVars == <<lost, blame>>
loopVars == <<loop, snapshot, through>>

(* A client is in phase "reported" from its one report on.                 *)
Client(k) == INSTANCE ClientContract
  WITH phase <- phase[k], reports <- IF phase[k] = "reported" THEN 1 ELSE 0

TypeOK ==
  /\ start \in {"connect", "dial", "set", "register", "spawn", "ready", "cancel", "cleanup",
                "backoff", "end"}
  /\ {current, client} \subseteq 0..MaxConns
  /\ phase \in [Conn -> {"none", "open", "broken", "failing", "reported", "closed"}]
  /\ {lost, cancelled} \subseteq SUBSET Conn
  /\ blame \in [Conn -> 0..MaxConns]
  /\ loop \in [Conn -> {"none", "top", "select", "beat", "unknown", "failed", "done"}]
  /\ {snapshot, through} \subseteq [Conn -> 0..MaxConns]
  /\ stopped \in BOOLEAN

Init ==
  /\ start = "connect" /\ current = NoConn /\ client = NoConn
  /\ phase = [k \in Conn |-> "none"]
  /\ lost = {} /\ cancelled = {} /\ stopped = FALSE
  /\ loop = [k \in Conn |-> "none"]
  /\ blame = [k \in Conn |-> NoConn]
  /\ snapshot = [k \in Conn |-> NoConn]
  /\ through = [k \in Conn |-> NoConn]
-------------------------------------------------------------------------------
(* The channels.                                                           *)

(* setConnLost: signalChanLocked on the channel that is current.           *)
SetConnLost(cause) ==
  /\ lost' = lost \cup {current}
  /\ blame' = [blame EXCEPT ![current] = IF current \in lost THEN @ ELSE cause]

SignalConnLostIfCurrent(k, cause) ==
  IF current = k THEN SetConnLost(cause) ELSE UNCHANGED lostVars

(* Mutant: the callback before issue #218, bound to no channel.            *)
OnCloseUnbound(k) ==
  /\ phase[k] = "failing"
  /\ phase' = [phase EXCEPT ![k] = "reported"]
  /\ SetConnLost(k)
  /\ UNCHANGED <<start, current, client, cancelled, loopVars, stopped>>

(* Mutant: the callback is registered once the guest is registered, so     *)
(* that a loss reported before is reported to nothing.                     *)
OnCloseLate(k) ==
  /\ phase[k] = "failing"
  /\ phase' = [phase EXCEPT ![k] = "reported"]
  /\ IF start \in {"set", "register", "spawn"} THEN UNCHANGED lostVars
     ELSE SignalConnLostIfCurrent(k, k)
  /\ UNCHANGED <<start, current, client, cancelled, loopVars, stopped>>

(* The callback connLostCallback binds to the channel of its connection.   *)
OnClose(k) ==
  /\ phase[k] = "failing"
  /\ phase' = [phase EXCEPT ![k] = "reported"]
  /\ SignalConnLostIfCurrent(k, k)
  /\ UNCHANGED <<start, current, client, cancelled, loopVars, stopped>>
-------------------------------------------------------------------------------
(* The Start loop.                                                         *)

Goes(to) == start' = to

CloseClient(k) ==
  phase' = [phase EXCEPT ![k] = IF @ \in {"open", "broken"} THEN "closed" ELSE @]

(* Connect, up to SetOnClose: a channel of its own for every attempt.      *)
ResetConn ==
  /\ start = "connect" /\ current < MaxConns
  /\ current' = current + 1
  /\ Goes("dial")
  /\ UNCHANGED <<client, phase, lostVars, cancelled, loopVars, stopped>>

Dial ==
  /\ start = "dial"
  /\ \/ phase' = [phase EXCEPT ![current] = "open"] /\ Goes("set")
     \/ Goes("backoff") /\ UNCHANGED phase
  /\ UNCHANGED <<current, client, lostVars, cancelled, loopVars, stopped>>

SetRPCClient ==
  /\ start = "set"
  /\ client' = current
  /\ Goes("register")
  /\ UNCHANGED <<current, phase, lostVars, cancelled, loopVars, stopped>>

(* Register, and connectAndRegister's way out of an error.                 *)
Register ==
  /\ start = "register"
  /\ \/ /\ phase[current] = "open"
        /\ Goes("spawn")
        /\ UNCHANGED <<client, phase>>
     \/ /\ CloseClient(current)
        /\ client' = NoConn
        /\ Goes("backoff")
  /\ UNCHANGED <<current, lostVars, cancelled, loopVars, stopped>>

(* Start spawns the heartbeat loop, then snapshots the channel to wait for.*)
Spawn ==
  /\ start = "spawn"
  /\ loop' = [loop EXCEPT ![current] = "top"]
  /\ Goes("ready")
  /\ UNCHANGED <<current, client, phase, lostVars, cancelled, snapshot, through, stopped>>

(* The select of Start; both ways cancel the context of the connection.    *)
SeeLost ==
  /\ start = "ready" /\ current \in lost
  /\ cancelled' = cancelled \cup {current}
  /\ Goes("cleanup")
  /\ UNCHANGED <<current, client, phase, lostVars, loopVars, stopped>>

SeeStopped ==
  /\ start \in {"ready", "backoff"} /\ stopped
  /\ cancelled' = IF start = "ready" THEN cancelled \cup {current} ELSE cancelled
  /\ Goes("end")
  /\ UNCHANGED <<current, client, phase, lostVars, loopVars, stopped>>

Cleanup ==
  /\ start = "cleanup"
  /\ CloseClient(current)
  /\ client' = NoConn
  /\ Goes("connect")
  /\ UNCHANGED <<current, lostVars, cancelled, loopVars, stopped>>

Retry ==
  /\ start = "backoff"
  /\ Goes("connect")
  /\ UNCHANGED <<current, client, phase, lostVars, cancelled, loopVars, stopped>>

Stop ==
  /\ ~stopped
  /\ stopped' = TRUE
  /\ UNCHANGED <<start, current, client, phase, lostVars, cancelled, loopVars>>
-------------------------------------------------------------------------------
(* The heartbeat loop of connection k.                                     *)

LoopGoes(k, to) == loop' = [loop EXCEPT ![k] = to]
LoopKeeps == UNCHANGED <<start, current, client, phase, cancelled, stopped>>

ConnLostSignal(k) ==
  /\ loop[k] = "top"
  /\ snapshot' = [snapshot EXCEPT ![k] = current]
  /\ LoopGoes(k, "select")
  /\ LoopKeeps /\ UNCHANGED <<lostVars, through>>

LoopEnds(k) ==
  /\ loop[k] = "select"
  /\ k \in cancelled \/ snapshot[k] \in lost \/ stopped
  /\ LoopGoes(k, "done")
  /\ LoopKeeps /\ UNCHANGED <<lostVars, snapshot, through>>

(* The ticker, whose case the select may take although others are ready:   *)
(* a tick is waiting when the last Heartbeat, with its retries, took       *)
(* longer than the interval.  The first tick only comes to a loop that has *)
(* waited for it.                                                          *)
Tick(k) ==
  /\ loop[k] = "select"
  /\ k \in cancelled => through[k] # NoConn
  /\ through' = [through EXCEPT ![k] = client]
  /\ LoopGoes(k, "beat")
  /\ LoopKeeps /\ UNCHANGED <<lostVars, snapshot>>

(* Heartbeat returns: nil or an ordinary application error, "not found",   *)
(* or after three attempts a transport error.                              *)
Heartbeat(k) ==
  /\ loop[k] = "beat"
  /\ \/ /\ through[k] # NoConn /\ phase[through[k]] = "open"
        /\ \/ LoopGoes(k, "top")
           \/ ServerForgets /\ LoopGoes(k, "unknown")
     \/ LoopGoes(k, "failed")
  /\ LoopKeeps /\ UNCHANGED <<lostVars, snapshot, through>>

(* Where the failure of the Heartbeat comes from: no client is no failure  *)
(* of a connection but the one this loop was made for.                     *)
Cause(k) == IF through[k] = NoConn THEN k ELSE through[k]

Escalate(k) ==
  /\ \/ loop[k] = "unknown" /\ SetConnLost(Cause(k))
     \/ loop[k] = "failed" /\ SignalConnLostIfCurrent(snapshot[k], Cause(k))
  /\ LoopGoes(k, "done")
  /\ LoopKeeps /\ UNCHANGED <<snapshot, through>>

(* External: the network, and the client noticing it.                      *)
Break(k) ==
  /\ phase[k] = "open"
  /\ phase' = [phase EXCEPT ![k] = "broken"]
  /\ UNCHANGED <<start, current, client, lostVars, cancelled, loopVars, stopped>>

Fail(k) ==
  /\ phase[k] = "broken"
  /\ phase' = [phase EXCEPT ![k] = "failing"]
  /\ UNCHANGED <<start, current, client, lostVars, cancelled, loopVars, stopped>>

StartLoop ==
  \/ ResetConn \/ Dial \/ SetRPCClient \/ Register \/ Spawn \/ SeeLost \/ SeeStopped \/ Cleanup \/ Retry

HeartbeatLoop(k) ==
  ConnLostSignal(k) \/ LoopEnds(k) \/ Tick(k) \/ Heartbeat(k) \/ Escalate(k)

Next ==
  \/ StartLoop \/ Stop
  \/ \E k \in Conn : HeartbeatLoop(k) \/ OnClose(k) \/ Break(k) \/ Fail(k)

Spec == Init /\ [][Next]_vars

(* Goroutines are scheduled; a select whose case stays ready takes it in   *)
(* the end although the ticker's case is ready as well (Go picks at        *)
(* random); the clients keep ClientContract.  The next heartbeat may be    *)
(* arbitrarily far away: a loop is only fair once its context is cancelled.*)
Fairness ==
  /\ WF_vars(StartLoop) /\ WF_vars(SeeStopped)
  /\ \A k \in Conn :
       /\ WF_vars(k \in cancelled /\ HeartbeatLoop(k)) /\ SF_vars(LoopEnds(k))
       /\ WF_vars(OnClose(k)) /\ WF_vars(Fail(k))

FairSpec == Spec /\ Fairness
-------------------------------------------------------------------------------
(* A connection is declared lost on its own account: the late report of an *)
(* earlier socket, or the failed heartbeat of a loop that is left over     *)
(* from an earlier connection, drops no healthy successor (the comments of *)
(* signalConnLostIfCurrent and heartbeatLoop, issues #218 and #230).       *)
(* The code does not keep it: README, "Known divergences".                 *)
LostOnOwnAccount == \A k \in lost : blame[k] = k

(* The part of it that the channel bound to each callback ensures: the     *)
(* report of a socket closes no channel but that of its own connection     *)
(* (issue #218).                                                           *)
SocketsReportOwnLoss ==
  [][\A k, j \in Conn :
       /\ phase[j] = "failing" /\ phase'[j] = "reported"
       /\ k \in lost' \ lost
       => k = j]_vars

(* The loss of the connection Start waits on, however early it happens, is *)
(* noticed without the help of a heartbeat, and Start leaves it.           *)
LossNoticed ==
  (\E k \in Conn : start = "ready" /\ current = k /\ phase[k] # "open") ~> start # "ready"

(* The heartbeat loop of a connection that is gone ends, whatever channel  *)
(* it snapshotted last (issue #186 describes what leftovers do).           *)
(* A context stays cancelled: []<> says here what ~> would say.            *)
LeftoverLoopsEnd == \A k \in Conn : []<>(k \in cancelled => loop[k] = "done")

(* No action makes a client do what ClientContract rules out.              *)
ClientsKeepContract ==
  [][\A k \in Conn : phase'[k] # phase[k] => Client(k)!Next]_vars
===============================================================================
