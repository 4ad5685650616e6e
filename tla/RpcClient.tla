------------------------------- MODULE RpcClient -------------------------------
(***************************************************************************)
(* The JSON-RPC client of a guest (Client in pkg/rpc): goroutines that     *)
(* call through one WebSocket, the read loop that hands out the answers    *)
(* through one channel of capacity one, the writes under c.mu, the per-call*)
(* timer that starts after them, and the shutdown that must report a lost  *)
(* connection exactly once.                                                *)
(*                                                                         *)
(* A request is named by its id (nextID).  The server side is external: it *)
(* answers the requests of one connection in order, or never, it sends     *)
(* notifications whose handlers call back (pkg/guest: task.cancel), and it *)
(* may stop reading, so that a write blocks.                               *)
(***************************************************************************)
EXTENDS Naturals, Sequences

CONSTANTS
  Caller,       \* goroutines that call
  Handler,      \* of them, those a notification starts
  MaxCalls,     \* bound: how many calls are made
  MaxNotes      \* bound: how many notifications the server sends

CallerAssumption == Handler \subseteq Caller
BoundAssumption == {MaxCalls, MaxNotes} \subseteq Nat

Call == 1..MaxCalls
NoCall == 0
Note == MaxCalls + 1     \* a notification on the wire
Reader == "readLoop"

VARIABLES
  alive,      \* the socket carries data in both directions
  stalled,    \* the server does not read: a write blocks
  closed,     \* Client.closed, and with it closeCh
  connected,  \* the client is in ClientHub.connections
  onCloses,   \* how often onClose was invoked
  graceful,   \* history: Close, not fail, won the swap of closed
  nextID,     \* ClientHub.nextID
  pc,         \* thread -> where it is
  current,    \* caller -> the request it waits for
  answer,     \* request -> the request whose answer its caller was given
  requests,   \* the requests the server has not answered
  wire,       \* what the server has sent and the read loop has not read
  callResp,   \* the channel: a request whose answer is buffered, or NoCall
  notes       \* how many notifications were sent

vars == <<alive, stalled, closed, connected, onCloses, graceful, nextID, pc, current,
          answer, requests, wire, callResp, notes>>
netVars == <<alive, stalled>>
connVars == <<closed, connected, graceful>>
callVars == <<nextID, answer>>

Thread == Caller \cup {Reader}

TypeOK ==
  /\ {alive, stalled, closed, connected, graceful} \subseteq BOOLEAN
  /\ onCloses \in Nat /\ nextID \in 0..MaxCalls /\ notes \in 0..MaxNotes
  /\ pc \in [Thread -> {"idle", "asleep", "locking", "writing", "waiting", "reading",
                        "reporting", "done"}]
  /\ current \in [Caller -> 0..MaxCalls]
  /\ answer \in [Call -> 0..MaxCalls]
  /\ requests \in Seq(Call) /\ wire \in Seq(Call \cup {Note})
  /\ callResp \in 0..MaxCalls

(* A client after ConnectWithTLS: in the hub, its read loop running.       *)
Init ==
  /\ alive = TRUE /\ stalled = FALSE /\ closed = FALSE /\ connected = TRUE /\ onCloses = 0
  /\ graceful = FALSE /\ nextID = 0 /\ notes = 0
  /\ pc = [t \in Thread |-> IF t = Reader THEN "reading"
                            ELSE IF t \in Handler THEN "asleep" ELSE "idle"]
  /\ current = [c \in Caller |-> NoCall]
  /\ answer = [n \in Call |-> NoCall]
  /\ requests = <<>> /\ wire = <<>> /\ callResp = NoCall
-------------------------------------------------------------------------------
Rest(t) == IF t = Reader THEN "done" ELSE IF t \in Handler THEN "asleep" ELSE "idle"
Rests(t) ==
  /\ pc' = [pc EXCEPT ![t] = Rest(t)]
  /\ current' = IF t = Reader THEN current ELSE [current EXCEPT ![t] = NoCall]

(* shutdown: only the first to swap closed goes on.                        *)
Shutdown ==
  /\ closed' = TRUE
  /\ connected' = FALSE

(* c.mu is held by the goroutine whose write is under way.                 *)
MuFree == \A c \in Caller : pc[c] # "writing"

(* Mutant: fail does not ask whether it was this call that shut down.      *)
FailAgain(t) ==
  /\ Shutdown
  /\ pc' = [pc EXCEPT ![t] = "reporting"]
  /\ UNCHANGED <<graceful, current>>

(* fail: the thread that wins the swap has still to invoke onClose.        *)
Fail(t) ==
  IF closed
  THEN Rests(t) /\ UNCHANGED connVars
  ELSE /\ Shutdown
       /\ pc' = [pc EXCEPT ![t] = "reporting"]
       /\ UNCHANGED <<graceful, current>>

(* The end of fail: onClose is loaded under c.mu and invoked outside it.   *)
OnClose(t) ==
  /\ pc[t] = "reporting" /\ MuFree
  /\ onCloses' = onCloses + 1
  /\ Rests(t)
  /\ UNCHANGED <<netVars, connVars, callVars, requests, wire, callResp, notes>>

(* Call up to c.mu.Lock().                                                 *)
StartCall(c) ==
  /\ pc[c] = "idle"
  /\ nextID < MaxCalls
  /\ nextID' = nextID + 1
  /\ current' = [current EXCEPT ![c] = nextID + 1]
  /\ pc' = [pc EXCEPT ![c] = "locking"]
  /\ UNCHANGED <<netVars, connVars, onCloses, answer, requests, wire, callResp, notes>>

(* SendNotification up to there: no id, and no answer.                     *)
SendNotification(c) ==
  /\ pc[c] = "idle"
  /\ pc' = [pc EXCEPT ![c] = "locking"]
  /\ UNCHANGED <<netVars, connVars, onCloses, callVars, current, requests, wire, callResp, notes>>

Lock(c) ==
  /\ pc[c] = "locking" /\ MuFree
  /\ pc' = [pc EXCEPT ![c] = "writing"]
  /\ UNCHANGED <<netVars, connVars, onCloses, callVars, current, requests, wire, callResp, notes>>

(* WriteMessage, without a deadline, and the unlock.  A write to a socket  *)
(* that breaks at this moment may still seem to succeed; one to a socket   *)
(* that is gone or closed fails; one to a server that does not read waits. *)
Write(c) ==
  /\ pc[c] = "writing"
  /\ \/ /\ ~stalled /\ ~closed
        /\ IF current[c] = NoCall
           THEN Rests(c) /\ UNCHANGED requests
           ELSE /\ pc' = [pc EXCEPT ![c] = "waiting"]
                /\ requests' = IF alive THEN Append(requests, current[c]) ELSE requests
                /\ UNCHANGED current
        /\ UNCHANGED connVars
     \/ /\ ~alive \/ closed
        /\ Fail(c)
        /\ UNCHANGED requests
  /\ UNCHANGED <<netVars, onCloses, callVars, wire, callResp, notes>>

(* The select of Call.  Whatever answer is in the channel is taken for the *)
(* answer to this call: the ids are not compared.                          *)
Receive(c) ==
  /\ pc[c] = "waiting"
  /\ callResp # NoCall
  /\ answer' = [answer EXCEPT ![current[c]] = callResp]
  /\ callResp' = NoCall
  /\ Rests(c)
  /\ UNCHANGED <<netVars, connVars, onCloses, nextID, requests, wire, notes>>

SeeClosed(c) ==
  /\ pc[c] = "waiting"
  /\ closed
  /\ Rests(c)
  /\ UNCHANGED <<netVars, connVars, onCloses, callVars, requests, wire, callResp, notes>>

(* Mutant: no timer.                                                       *)
TimeoutNever(c) == FALSE

Timeout(c) ==
  /\ pc[c] = "waiting"
  /\ Rests(c)
  /\ UNCHANGED <<netVars, connVars, onCloses, callVars, requests, wire, callResp, notes>>

(* One message of the read loop.  An answer is dropped when one is already *)
(* buffered; a notification gets a goroutine of its own.                   *)
Read ==
  /\ pc[Reader] = "reading"
  /\ ~closed /\ wire # <<>>
  /\ wire' = Tail(wire)
  /\ IF Head(wire) = Note
     THEN /\ \E h \in Handler : pc' = [pc EXCEPT ![h] = IF @ = "asleep" THEN "idle" ELSE @]
          /\ UNCHANGED callResp
     ELSE /\ callResp' = IF callResp = NoCall THEN Head(wire) ELSE callResp
          /\ UNCHANGED pc
  /\ UNCHANGED <<netVars, connVars, onCloses, callVars, current, requests, notes>>

(* ReadMessage returns an error, because the socket broke or was closed.   *)
ReadError ==
  /\ pc[Reader] = "reading"
  /\ closed \/ (~alive /\ wire = <<>>)
  /\ Fail(Reader)
  /\ UNCHANGED <<netVars, onCloses, callVars, requests, wire, callResp, notes>>

(* Close by the owner (Guest.Stop, resetConn).                             *)
Close ==
  /\ ~closed
  /\ Shutdown
  /\ graceful' = TRUE
  /\ UNCHANGED <<netVars, onCloses, callVars, current, pc, requests, wire, callResp, notes>>

(* External: the server, and the network.                                  *)
ServerAnswers ==
  /\ requests # <<>> /\ alive
  /\ requests' = Tail(requests)
  /\ wire' \in {wire, Append(wire, Head(requests))}
  /\ UNCHANGED <<netVars, connVars, onCloses, callVars, current, pc, callResp, notes>>

ServerNotifies ==
  /\ notes < MaxNotes /\ alive /\ Handler # {}
  /\ notes' = notes + 1
  /\ wire' = Append(wire, Note)
  /\ UNCHANGED <<netVars, connVars, onCloses, callVars, current, pc, requests, callResp>>

Break ==
  /\ alive
  /\ alive' = FALSE
  /\ requests' = <<>>
  /\ UNCHANGED <<stalled, connVars, onCloses, callVars, current, pc, wire, callResp, notes>>

(* The server stops reading, and reads on.                                 *)
Stall ==
  /\ alive
  /\ stalled' = ~stalled
  /\ UNCHANGED <<alive, connVars, onCloses, callVars, current, pc, requests, wire, callResp, notes>>

Next ==
  \/ \E c \in Caller :
       \/ StartCall(c) \/ SendNotification(c) \/ Lock(c) \/ Write(c)
       \/ Receive(c) \/ SeeClosed(c) \/ Timeout(c)
  \/ \E t \in Thread : OnClose(t)
  \/ Read \/ ReadError \/ Close \/ ServerAnswers \/ ServerNotifies \/ Break \/ Stall

Spec == Init /\ [][Next]_vars

(* The scheduler runs every goroutine and a timer expires; c.mu, when it   *)
(* is freed again and again, is handed to each that waits for it (a Go     *)
(* mutex starves nobody).  The server need not answer, nor read on.        *)
TakeMu(t) == OnClose(t) \/ (t \in Caller /\ Lock(t))

Fairness ==
  /\ \A t \in Thread : SF_vars(TakeMu(t))
  /\ \A c \in Caller : WF_vars(Write(c)) /\ WF_vars(Receive(c) \/ SeeClosed(c) \/ Timeout(c))
  /\ WF_vars(Read \/ ReadError)

FairSpec == Spec /\ Fairness
-------------------------------------------------------------------------------
(* What the comments of Call ("sends a JSON-RPC request and returns the    *)
(* response") and of readLoop ("deliver it to the caller") say, for every  *)
(* use of the client.                                                      *)
(* The code does not keep it: README, "Known divergences".                 *)
AnswersMatch == \A n \in Call : answer[n] \in {NoCall, n}

(* A goroutine between the start of a Call or a SendNotification and its   *)
(* return, and one that cannot go on because the server does not read.     *)
Busy(c) == pc[c] \in {"locking", "writing", "waiting", "reporting"}
HeldUp(c) == pc[c] \in {"locking", "writing"} /\ stalled /\ alive /\ ~closed

(* A Call or a notification returns, whether or not the server answers, the*)
(* socket breaks, the owner closes or other callers fail (issues #214 and  *)
(* #215), unless it has still to write while a server with which the       *)
(* connection stands has stopped reading.                                  *)
CallsReturn == \A c \in Caller : []<>(~Busy(c) \/ HeldUp(c))

(* The comment in Call, "never block forever", without that exception.     *)
(* The code does not keep it: README, "Known divergences".                 *)
NeverBlocksForever == \A c \in Caller : []<>~Busy(c)

(* The state of the connection as its owner sees it; how often the owner   *)
(* was told is onCloses, so that a second report, or one after Close, is   *)
(* no step of the contract.                                                *)
Phase ==
  CASE graceful -> "closed"
    [] ~graceful /\ onCloses > 0 -> "reported"
    [] ~graceful /\ onCloses = 0 /\ closed -> "failing"
    [] ~closed /\ ~alive -> "broken"
    [] ~closed /\ alive -> "open"

Contract == INSTANCE ClientContract WITH phase <- Phase, reports <- onCloses

(* The client implements ClientContract: a socket that breaks is reported  *)
(* to the owner, and once (issue #217), and not at all when the owner      *)
(* closes the client first.                                                *)
KeepsContract == Contract!FairSpec
===============================================================================
