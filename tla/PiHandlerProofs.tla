--------------------------- MODULE PiHandlerProofs -----------------------------
(* Theorems about PiHandler, for every number of executions and attempts,  *)
(* of clients and of lines, with and without each of its faults.           *)
EXTENDS PiHandler, SequenceTheorems, TLAPS

ClientType ==
  [started : BOOLEAN, pi : {"none", "running", "dead"}, waited : BOOLEAN, closed : Nat,
   stdin : BOOLEAN, of : Nat, jailed : BOOLEAN, prompted : BOOLEAN, settled : BOOLEAN,
   wrote : Nat, out : Seq(Line), spawn : Nat, reader : {"none", "reading", "over"},
   ev : Seq(Line), taker : {"none", "taking", "over"}, got : BOOLEAN]
ExType ==
  [at : {"idle", "spawn", "started", "prepare", "jail", "reset", "stopping", "check", "prompt",
         "wait", "return"},
   n : Nat, loop : {"restart", "reset"}, attempt : Nat, dir : BOOLEAN, jail : BOOLEAN, why : Why,
   limited : BOOLEAN]
StopsType == [{"task", "shutdown"} -> [at : {"idle", "waiting", "killed"}, c : Client]]
ResultType == [n : Nat, why : Why, settled : BOOLEAN]

(* The settling that a client has in its pipe, in eventCh or has got was   *)
(* sent by its pi; a pi that runs has not been waited for.                 *)
Carried(s) == \E i \in 1..Len(s) : s[i] = "agent_settled"
ClientOK(r) ==
  /\ r \in ClientType
  /\ r.waited => r.pi = "dead"
  /\ r.pi = "running" => r.started
  /\ r.got \/ Carried(r.out) \/ Carried(r.ev) => r.settled
  /\ r.prompted => r.jailed

Typed ==
  /\ client \in Client /\ ex \in ExType /\ stops \in StopsType /\ result \in ResultType

(* A pi that runs is that of the current client, which ExecuteTask only    *)
(* replaces when its pi is over: having been stopped, or found exited.     *)
OnlyClientRuns ==
  /\ \A c \in Client : cs[c].pi = "running" => c = client
  /\ ex.at = "spawn" => cs[client].pi # "running"
  /\ stops["task"].at # "idle" => ex.at = "stopping" /\ stops["task"].c = client

(* From the jail on, the client is that of the task's jail. *)
OwnJail ==
  /\ ex.at = "started" => cs[client].of = ex.n /\ (ex.loop = "reset" => cs[client].jailed)
  /\ ex.at \in {"check", "prompt", "wait"} => cs[client].of = ex.n /\ cs[client].jailed

PiInv ==
  /\ cs \in [Client -> ClientType] /\ \A c \in Client : ClientOK(cs[c])
  /\ Typed /\ OnlyClientRuns /\ OwnJail /\ SuccessMeansSettled

LEMMA Constants ==
  ASSUME PiHandlerAssumption
  PROVE  /\ Client \subseteq Nat /\ 1 \in Client
         /\ <<>> \in Seq(Line) /\ ~Carried(<<>>)
  BY DEF PiHandlerAssumption, Client, Carried

(* What a queue of lines carries, as it is filled, emptied and cut. *)
LEMMA CarriedAppend ==
  ASSUME NEW s \in Seq(Line), NEW l \in Line
  PROVE  Append(s, l) \in Seq(Line) /\ (Carried(Append(s, l)) => Carried(s) \/ l = "agent_settled")
<1>1. Append(s, l) \in Seq(Line) OBVIOUS
<1>2. ASSUME Carried(Append(s, l)) PROVE Carried(s) \/ l = "agent_settled"
  <2>1. PICK i \in 1..Len(Append(s, l)) : Append(s, l)[i] = "agent_settled" BY <1>2 DEF Carried
  <2>2. CASE i = Len(s) + 1 BY <2>1, <2>2
  <2>3. CASE i # Len(s) + 1
    <3>1. i \in 1..Len(s) BY <2>1, <2>3
    <3> QED BY <2>1, <3>1 DEF Carried
  <2> QED BY <2>2, <2>3
<1> QED BY <1>1, <1>2

LEMMA CarriedTail ==
  ASSUME NEW s \in Seq(Line), s # <<>>
  PROVE  /\ Head(s) \in Line /\ Tail(s) \in Seq(Line)
         /\ Carried(Tail(s)) => Carried(s)
         /\ Head(s) = "agent_settled" => Carried(s)
<1>1. /\ Head(s) \in Line /\ Tail(s) \in Seq(Line) /\ Head(s) = s[1]
      /\ Len(Tail(s)) = Len(s) - 1 /\ Len(s) \in Nat \ {0}
      /\ \A i \in 1..Len(Tail(s)) : Tail(s)[i] = s[i + 1]
  BY HeadTailProperties, EmptySeq, LenProperties
<1>2. Carried(Tail(s)) => Carried(s)
  <2> SUFFICES ASSUME NEW i \in 1..Len(Tail(s)), Tail(s)[i] = "agent_settled" PROVE Carried(s)
    BY DEF Carried
  <2>1. i + 1 \in 1..Len(s) /\ s[i + 1] = "agent_settled" BY <1>1
  <2> QED BY <2>1 DEF Carried
<1>3. 1 \in 1..Len(s) BY <1>1
<1> QED BY <1>1, <1>2, <1>3 DEF Carried

LEMMA CarriedCut ==
  ASSUME NEW s \in Seq(Line), NEW k \in 0..Len(s)
  PROVE  SubSeq(s, 1, k) \in Seq(Line) /\ (Carried(SubSeq(s, 1, k)) => Carried(s))
<1>1. /\ SubSeq(s, 1, k) \in Seq(Line) /\ Len(SubSeq(s, 1, k)) = k
      /\ \A i \in 1..k : SubSeq(s, 1, k)[i] = s[i]
  BY SubSeqProperties
<1> QED BY <1>1 DEF Carried
-------------------------------------------------------------------------------
LEMMA NewClientOK ==
  ASSUME PiHandlerAssumption, NEW n \in Nat, NEW jailed \in BOOLEAN
  PROVE  /\ ClientOK(NewClient) /\ NewClient.pi = "none" /\ NewClient.jailed = FALSE
         /\ ClientOK(Started(n, jailed))
         /\ Started(n, jailed).of = n /\ Started(n, jailed).jailed = jailed
         /\ Started(n, jailed).settled = FALSE
  BY Constants DEF NewClient, Started, ClientOK, ClientType

LEMMA PiInit == ASSUME PiHandlerAssumption, Init PROVE PiInv
<1>1. \A c \in Client : ClientOK(cs[c]) /\ (c # 1 => cs[c].pi = "none")
  BY Constants, NewClientOK DEF Init
<1>2. cs \in [Client -> ClientType] BY <1>1 DEF Init, ClientOK
<1>3. Typed BY Constants DEF Init, Typed, ExType, StopsType, ResultType, NoExecution, NoResult,
                             NotStopping, Why
<1>4. OnlyClientRuns BY <1>1 DEF Init, OnlyClientRuns, NoExecution, NotStopping
<1> QED BY <1>1, <1>2, <1>3, <1>4 DEF PiInv, Init, OwnJail, NoExecution, NoResult, SuccessMeansSettled

(* A step of a client that leaves its identity alone and starts no pi. *)
Kept(r, f) ==
  /\ f.of = r.of /\ f.jailed = r.jailed
  /\ f.pi = "running" => r.pi = "running"

(* The fields of a client that its invariant does not speak of may change. *)
Same(r, f) ==
  /\ f.of = r.of /\ f.jailed = r.jailed /\ f.prompted = r.prompted
  /\ f.pi = r.pi /\ f.started = r.started /\ f.waited = r.waited
  /\ f.settled = r.settled /\ f.got = r.got /\ f.out = r.out /\ f.ev = r.ev

LEMMA SameOK ==
  ASSUME NEW r, NEW f \in ClientType, ClientOK(r), Same(r, f)
  PROVE  ClientOK(f) /\ Kept(r, f)
  BY DEF ClientOK, Kept, Same

LEMMA ClientChange ==
  ASSUME PiInv, NEW c \in Client, NEW f, ClientOK(f), Kept(cs[c], f), cs' = [cs EXCEPT ![c] = f]
  PROVE  /\ cs' \in [Client -> ClientType]
         /\ \A d \in Client : ClientOK(cs'[d]) /\ Kept(cs[d], cs'[d])
  BY DEF PiInv, ClientOK, Kept

(* What the invariant asks of the clients, when only they have changed. *)
LEMMA ClientsChange ==
  ASSUME PiInv, UNCHANGED <<client, ex, stops, result>>,
         cs' \in [Client -> ClientType],
         \A d \in Client : ClientOK(cs'[d]) /\ Kept(cs[d], cs'[d])
  PROVE  PiInv'
  BY DEF PiInv, Typed, OnlyClientRuns, OwnJail, SuccessMeansSettled, Kept

(* The steps of pi and of the goroutines of its client. *)
LEMMA ClientsStep ==
  ASSUME PiHandlerAssumption, PiInv, NEW c \in Client, PiStep(c) \/ ClientStep(c)
  PROVE  PiInv'
<1> DEFINE r == cs[c]
<1>0. ClientOK(r) /\ r \in ClientType /\ r.out \in Seq(Line) /\ r.ev \in Seq(Line)
  BY DEF PiInv, ClientType
<1>1. ASSUME NEW f, Pi(c, f), ClientOK(f), Kept(r, f) PROVE PiInv'
  <2>1. cs' = [cs EXCEPT ![c] = f] /\ UNCHANGED <<client, ex, stops, result>> BY <1>1 DEF Pi
  <2> QED BY <1>1, <2>1, ClientChange, ClientsChange
<1>2. CASE PiExit(c) \/ ContextKill(c)
  <2> DEFINE f == [r EXCEPT !.pi = "dead"]
  <2>1. ClientOK(f) /\ Kept(r, f) BY <1>0 DEF ClientOK, ClientType, Kept
  <2>2. Pi(c, f) BY <1>2 DEF PiExit, ContextKill
  <2> HIDE DEF f
  <2> QED BY <1>1, <2>1, <2>2
<1>3. ASSUME NEW l \in Line, PiWrites(c, l) PROVE PiInv'
  <2>0. PICK s \in Seq(Line), k \in Nat, b \in BOOLEAN :
          /\ s = Append(r.out, l) /\ b = (l = "agent_settled")
          /\ k = IF r.wrote < SpawnLines THEN r.wrote + 1 ELSE r.wrote
    <3>1. r.wrote \in Nat BY <1>0 DEF ClientType
    <3>2. (IF r.wrote < SpawnLines THEN r.wrote + 1 ELSE r.wrote) \in Nat BY <3>1
    <3>3. Append(r.out, l) \in Seq(Line) BY <1>0, CarriedAppend
    <3> QED BY <3>2, <3>3
  <2> DEFINE f == [r EXCEPT !.out = s, !.wrote = k, !.settled = b]
  <2>1. Pi(c, f) /\ r.settled = FALSE BY <1>0, <1>3, <2>0 DEF PiWrites, ClientType
  <2>2. ~Carried(r.out) /\ ~Carried(r.ev) /\ r.got = FALSE BY <1>0, <2>1 DEF ClientOK, ClientType
  <2>3. Append(r.out, l) \in Seq(Line) /\ (Carried(Append(r.out, l)) => l = "agent_settled")
    BY <1>0, <2>2, CarriedAppend
  <2>4. f \in ClientType BY <1>0 DEF ClientType
  <2>5. /\ f.waited = r.waited /\ f.pi = r.pi /\ f.started = r.started /\ f.got = r.got
        /\ f.prompted = r.prompted /\ f.jailed = r.jailed /\ f.of = r.of /\ f.ev = r.ev
        /\ f.out = Append(r.out, l) /\ (l = "agent_settled" => f.settled)
    BY <1>0, <2>0 DEF ClientType
  <2>6. Pi(c, f) BY <2>1
  <2> HIDE DEF f
  <2>7. ClientOK(f) /\ Kept(r, f) BY <1>0, <2>2, <2>3, <2>4, <2>5 DEF ClientOK, Kept
  <2> QED BY <1>1, <2>6, <2>7
<1>4. CASE ReadStderr(c)
  <2> DEFINE f == [r EXCEPT !.spawn = @ + 1]
  <2>1. ClientOK(f) /\ Kept(r, f)
    <3>1. r \in ClientType BY <1>0 DEF ClientOK
    <3>2. f \in ClientType
      <4>1. r.spawn + 1 \in Nat BY <3>1 DEF ClientType
      <4> QED BY <3>1, <4>1 DEF ClientType
    <3>3. Same(r, f) BY <3>1 DEF ClientType, Same
    <3> QED BY <1>0, <3>2, <3>3, SameOK
  <2>2. Pi(c, f) BY <1>4 DEF ReadStderr
  <2> HIDE DEF f
  <2> QED BY <1>1, <2>1, <2>2
<1>5. CASE WaitProcess(c)
  <2>1. PICK k \in 0..Len(r.out) : Pi(c, [r EXCEPT !.waited = TRUE, !.out = SubSeq(@, 1, k)])
    BY <1>5 DEF WaitProcess
  <2> DEFINE f == [r EXCEPT !.waited = TRUE, !.out = SubSeq(@, 1, k)]
  <2>2. SubSeq(r.out, 1, k) \in Seq(Line) /\ (Carried(SubSeq(r.out, 1, k)) => Carried(r.out))
    BY <1>0, CarriedCut
  <2>3. r.pi = "dead" BY <1>5 DEF WaitProcess
  <2>4. ClientOK(f) /\ Kept(r, f) BY <1>0, <2>2, <2>3 DEF ClientOK, ClientType, Kept
  <2>5. Pi(c, f) BY <2>1
  <2> HIDE DEF f
  <2> QED BY <1>1, <2>4, <2>5
<1>6. CASE ReadEvent(c)
  <2>1. r.out # <<>> BY <1>6 DEF ReadEvent
  <2>2. /\ Head(r.out) \in Line /\ Tail(r.out) \in Seq(Line)
        /\ Carried(Tail(r.out)) => Carried(r.out)
        /\ Head(r.out) = "agent_settled" => Carried(r.out)
    BY <1>0, <2>1, CarriedTail
  <2>3. /\ Append(r.ev, Head(r.out)) \in Seq(Line)
        /\ Carried(Append(r.ev, Head(r.out))) => Carried(r.ev) \/ Head(r.out) = "agent_settled"
    BY <1>0, <2>2, CarriedAppend
  <2>4. ASSUME Pi(c, [r EXCEPT !.out = Tail(@), !.spawn = @ + 1]) PROVE PiInv'
    <3>0. PICK s \in Seq(Line), k \in Nat : s = Tail(r.out) /\ k = r.spawn + 1
      <4>1. r.spawn \in Nat BY <1>0 DEF ClientType
      <4>2. r.spawn + 1 \in Nat BY <4>1
      <4> QED BY <2>2, <4>2
    <3> DEFINE f == [r EXCEPT !.out = s, !.spawn = k]
    <3>1. f \in ClientType BY <1>0 DEF ClientType
    <3>2. /\ f.waited = r.waited /\ f.pi = r.pi /\ f.started = r.started /\ f.got = r.got
          /\ f.prompted = r.prompted /\ f.jailed = r.jailed /\ f.of = r.of /\ f.ev = r.ev
          /\ f.out = Tail(r.out) /\ f.settled = r.settled
      BY <1>0, <3>0 DEF ClientType
    <3>3. Pi(c, f) BY <2>4, <3>0
    <3> HIDE DEF f
    <3>4. ClientOK(f) /\ Kept(r, f) BY <1>0, <2>2, <3>1, <3>2 DEF ClientOK, Kept
    <3> QED BY <1>1, <3>3, <3>4
  <2>5. ASSUME Pi(c, [r EXCEPT !.out = Tail(@), !.ev = Append(@, Head(r.out))]) PROVE PiInv'
    <3> DEFINE f == [r EXCEPT !.out = Tail(@), !.ev = Append(@, Head(r.out))]
    <3>1. ClientOK(f) /\ Kept(r, f) BY <1>0, <2>2, <2>3 DEF ClientOK, ClientType, Kept
    <3>2. Pi(c, f) BY <2>5
    <3> HIDE DEF f
    <3> QED BY <1>1, <3>1, <3>2
  <2>6. ASSUME Pi(c, [r EXCEPT !.out = Tail(@), !.reader = "over"]) PROVE PiInv'
    <3> DEFINE f == [r EXCEPT !.out = Tail(@), !.reader = "over"]
    <3>1. ClientOK(f) /\ Kept(r, f) BY <1>0, <2>2 DEF ClientOK, ClientType, Kept
    <3>2. Pi(c, f) BY <2>6
    <3> HIDE DEF f
    <3> QED BY <1>1, <3>1, <3>2
  <2> QED BY <1>6, <2>4, <2>5, <2>6 DEF ReadEvent
<1>7. CASE ReadEnd(c)
  <2> DEFINE f == [r EXCEPT !.reader = "over"]
  <2>1. ClientOK(f) /\ Kept(r, f) BY <1>0 DEF ClientOK, ClientType, Kept
  <2>2. Pi(c, f) BY <1>7 DEF ReadEnd
  <2> HIDE DEF f
  <2> QED BY <1>1, <2>1, <2>2
<1>8. CASE TakeEvent(c)
  <2>1. CASE r.ev # <<>>
    <3> DEFINE settled == Head(r.ev) = "agent_settled"
               f == [r EXCEPT !.ev = Tail(@), !.got = settled,
                              !.taker = IF settled THEN "over" ELSE @]
    <3>1. /\ Tail(r.ev) \in Seq(Line) /\ (Carried(Tail(r.ev)) => Carried(r.ev))
          /\ settled => Carried(r.ev)
      BY <1>0, <2>1, CarriedTail
    <3>2. ClientOK(f) /\ Kept(r, f)
      <4>1. r \in ClientType /\ settled \in BOOLEAN BY <1>0 DEF ClientOK
      <4>2. f \in ClientType BY <3>1, <4>1 DEF ClientType
      <4>3. /\ f.of = r.of /\ f.jailed = r.jailed /\ f.prompted = r.prompted /\ f.pi = r.pi
            /\ f.started = r.started /\ f.waited = r.waited /\ f.settled = r.settled
            /\ f.out = r.out /\ f.ev = Tail(r.ev) /\ f.got = settled
        BY <4>1 DEF ClientType
      <4> HIDE DEF f, settled
      <4> QED BY <1>0, <3>1, <4>2, <4>3 DEF ClientOK, Kept
    <3>3. Pi(c, f) BY <1>8, <2>1 DEF TakeEvent
    <3> HIDE DEF f
    <3> QED BY <1>1, <3>2, <3>3
  <2>2. CASE r.ev = <<>>
    <3> DEFINE f == [r EXCEPT !.taker = "over"]
    <3>1. ClientOK(f) /\ Kept(r, f) BY <1>0 DEF ClientOK, ClientType, Kept
    <3>2. Pi(c, f) BY <1>8, <2>2 DEF TakeEvent
    <3> HIDE DEF f
    <3> QED BY <1>1, <3>1, <3>2
  <2> QED BY <2>1, <2>2
<1> QED BY <1>2, <1>3, <1>4, <1>5, <1>6, <1>7, <1>8 DEF PiStep, ClientStep
-------------------------------------------------------------------------------
LEMMA NotedOK ==
  ASSUME PiInv, NEW c \in Client
  PROVE  /\ Noted(c) \in [Client -> ClientType]
         /\ \A d \in Client : ClientOK(Noted(c)[d]) /\ Kept(cs[d], Noted(c)[d])
         /\ ~Running(c) => cs[c].pi # "running"
<1> DEFINE f == [cs[c] EXCEPT !.started = Running(c)]
<1>1. ClientOK(cs[c]) /\ cs[c] \in ClientType BY DEF PiInv
<1>2. ClientOK(f) /\ Kept(cs[c], f) BY <1>1 DEF ClientOK, ClientType, Kept, Running
<1>3. Noted(c) = [cs EXCEPT ![c] = f] BY DEF Noted
<1>4. ~Running(c) => cs[c].pi # "running" BY <1>1 DEF Running, ClientOK, ClientType
<1> HIDE DEF f
<1>5. \A d \in Client : ClientOK(Noted(c)[d]) /\ Kept(cs[d], Noted(c)[d])
  BY <1>2, <1>3 DEF PiInv, Kept
<1> QED BY <1>3, <1>2, <1>4, <1>5 DEF PiInv, ClientOK

(* ExecuteTask goes on with the client it has. *)
LEMMA TaskChange ==
  ASSUME PiInv, UNCHANGED <<client, stops>>, ex.at # "stopping",
         cs' \in [Client -> ClientType],
         \A d \in Client : ClientOK(cs'[d]) /\ Kept(cs[d], cs'[d]),
         ex' \in ExType, ex'.at \notin {"started", "stopping"},
         ex'.at = "spawn" => cs[client].pi # "running",
         ex'.at \in {"check", "prompt", "wait"}
           => ex'.n = ex.n /\ cs[client].of = ex.n /\ cs[client].jailed,
         result' \in ResultType, result'.why = "ok" => result'.settled
  PROVE  PiInv'
<1>1. Typed' BY DEF PiInv, Typed
<1>2. OnlyClientRuns' BY DEF PiInv, OnlyClientRuns, Kept, Typed
<1>3. OwnJail' BY DEF PiInv, OwnJail, Kept, Typed
<1> QED BY <1>1, <1>2, <1>3 DEF PiInv, SuccessMeansSettled

(* How an execution ends, and how it tries again. *)
LEMMA EndOK ==
  ASSUME PiInv, NEW why \in Why, End(why)
  PROVE  /\ ex' \in ExType /\ ex'.at = "return" /\ result' \in ResultType
         /\ (why = "ok" => cs[client].settled) => (result'.why = "ok" => result'.settled)
<1>1. ex \in ExType /\ client \in Client /\ cs[client] \in ClientType BY DEF PiInv, Typed
<1>2. ex' = [ex EXCEPT !.at = "return", !.why = why]
      /\ result' = [n |-> ex.n, why |-> why, settled |-> cs[client].settled]
  BY DEF End
<1> QED BY <1>1, <1>2 DEF ExType, ResultType, ClientType

LEMMA AgainOK ==
  ASSUME PiInv, Again
  PROVE  /\ ex' \in ExType /\ ex'.at \in {"spawn", "return"} /\ result' \in ResultType
         /\ result'.why = "ok" => result'.settled
<1>1. ex \in ExType /\ result \in ResultType /\ SuccessMeansSettled BY DEF PiInv, Typed
<1>2. CASE ex' = [ex EXCEPT !.attempt = @ + 1, !.at = "spawn"] /\ UNCHANGED result
  <2>1. ex.attempt \in Nat BY <1>1 DEF ExType
  <2>2. PICK k \in Nat : k = ex.attempt + 1 BY <2>1
  <2>3. ex' = [ex EXCEPT !.attempt = k, !.at = "spawn"] BY <1>2, <2>2
  <2>4. ex' \in ExType /\ ex'.at = "spawn" BY <1>1, <2>3 DEF ExType
  <2> QED BY <1>1, <1>2, <2>4 DEF SuccessMeansSettled
<1>3. CASE End("error")
  <2>1. "error" \in Why BY DEF Why
  <2>2. result'.why = "error" BY <1>3 DEF End
  <2> QED BY <1>3, <2>1, <2>2, EndOK
<1> QED BY <1>2, <1>3 DEF Again

LEMMA SpawnStep == ASSUME PiHandlerAssumption, PiInv, Spawn PROVE PiInv'
<1>1. PICK c \in Client :
        /\ Free(c) /\ client' = c
        /\ \/ /\ cs' = [cs EXCEPT ![c] = Started(ex.n, ex.loop = "reset")]
              /\ ex' = [ex EXCEPT !.at = "started"] /\ UNCHANGED result
           \/ /\ cs' = [d \in Client |-> IF Free(d) THEN NewClient ELSE cs[d]]
              /\ Again
  BY DEF Spawn
<1>2. /\ client \in Client /\ ex \in ExType /\ stops \in StopsType /\ result \in ResultType
      /\ cs \in [Client -> ClientType] /\ SuccessMeansSettled
      /\ \A d \in Client : ClientOK(cs[d])
      /\ \A d \in Client : cs[d].pi # "running"
      /\ stops["task"].at = "idle" /\ stops' = stops
  BY DEF PiInv, Typed, OnlyClientRuns, Spawn
<1>3. CASE /\ cs' = [cs EXCEPT ![c] = Started(ex.n, ex.loop = "reset")]
           /\ ex' = [ex EXCEPT !.at = "started"] /\ UNCHANGED result
  <2> DEFINE f == Started(ex.n, ex.loop = "reset")
  <2>1. ex.n \in Nat /\ (ex.loop = "reset") \in BOOLEAN BY <1>2 DEF ExType
  <2>2. ClientOK(f) /\ f.of = ex.n /\ f.jailed = (ex.loop = "reset") BY <2>1, NewClientOK
  <2>3. ex' \in ExType /\ ex'.at = "started" /\ ex'.n = ex.n /\ ex'.loop = ex.loop
    BY <1>2, <1>3 DEF ExType
  <2>4. cs' = [cs EXCEPT ![c] = f] BY <1>3
  <2> HIDE DEF f
  <2>5. \A d \in Client : d # c => cs'[d] = cs[d] BY <1>2, <2>4
  <2>6. cs'[c] = f /\ cs' \in [Client -> ClientType] BY <1>2, <2>2, <2>4 DEF ClientOK
  <2>7. \A d \in Client : ClientOK(cs'[d]) BY <1>2, <2>2, <2>5, <2>6
  <2>8. Typed' BY <1>1, <1>2, <1>3, <2>3 DEF Typed
  <2>9. OnlyClientRuns' BY <1>1, <1>2, <2>3, <2>5, <2>6 DEF OnlyClientRuns
  <2>10. OwnJail' BY <1>1, <2>2, <2>3, <2>6 DEF OwnJail
  <2> QED BY <1>2, <1>3, <2>6, <2>7, <2>8, <2>9, <2>10 DEF PiInv, SuccessMeansSettled
<1>4. CASE /\ cs' = [d \in Client |-> IF Free(d) THEN NewClient ELSE cs[d]]
           /\ Again
  <2>1. ClientOK(NewClient) /\ NewClient.pi = "none" BY Constants, NewClientOK
  <2>2. \A d \in Client : ClientOK(cs'[d]) /\ cs'[d].pi # "running"
    BY <1>2, <1>4, <2>1
  <2>3. cs' \in [Client -> ClientType] BY <1>4, <2>2 DEF ClientOK
  <2>4. /\ ex' \in ExType /\ ex'.at \in {"spawn", "return"} /\ result' \in ResultType
        /\ result'.why = "ok" => result'.settled
    BY <1>4, AgainOK
  <2>5. Typed' BY <1>1, <1>2, <2>4 DEF Typed
  <2>6. OnlyClientRuns' BY <1>1, <1>2, <2>2, <2>4 DEF OnlyClientRuns
  <2>7. OwnJail' BY <2>4 DEF OwnJail
  <2> QED BY <2>2, <2>3, <2>4, <2>5, <2>6, <2>7 DEF PiInv, SuccessMeansSettled
<1> QED BY <1>1, <1>3, <1>4

LEMMA TaskStepOK == ASSUME PiHandlerAssumption, PiInv, Begin \/ TaskStep PROVE PiInv'
<1>0. /\ client \in Client /\ ex \in ExType /\ stops \in StopsType /\ result \in ResultType
      /\ cs \in [Client -> ClientType] /\ SuccessMeansSettled
      /\ \A d \in Client : ClientOK(cs[d]) /\ Kept(cs[d], cs[d])
      /\ (result.why = "ok" => result.settled)
      /\ {"ok", "error", "unsettled", "cancelled", "idle"} \subseteq Why
  BY DEF PiInv, Typed, Kept, SuccessMeansSettled, Why
<1>1. /\ Noted(client) \in [Client -> ClientType]
      /\ \A d \in Client : ClientOK(Noted(client)[d]) /\ Kept(cs[d], Noted(client)[d])
      /\ ~Running(client) => cs[client].pi # "running"
  BY <1>0, NotedOK
<1>2. CASE Begin
  <2>1. ex.n \in Nat BY <1>0 DEF ExType
  <2>2. PICK n \in Nat : n = ex.n + 1 BY <2>1
  <2>3. PICK pc \in {"prepare", "spawn"}, limited \in BOOLEAN :
          /\ pc = "spawn" => ~Running(client)
          /\ ex' = [NoExecution EXCEPT !.n = n, !.limited = limited, !.at = pc]
    BY <1>2, <2>2 DEF Begin, PiHandlerAssumption
  <2>4. ex' \in ExType /\ ex'.at = pc BY <2>3 DEF ExType, NoExecution, Why
  <2>5. cs' = Noted(client) /\ UNCHANGED <<client, stops, result>> /\ ex.at # "stopping"
    BY <1>2 DEF Begin
  <2> QED BY <1>0, <1>1, <2>3, <2>4, <2>5, TaskChange
<1>3. CASE CheckStarted
  <2>1. cs' = Noted(client) /\ UNCHANGED <<client, stops>> /\ ex.at = "started"
    BY <1>3 DEF CheckStarted
  <2>2. CASE Running(client)
    <3>1. PICK pc \in {"prepare", "check"} :
            /\ pc = "check" => ex.loop = "reset"
            /\ ex' = [ex EXCEPT !.attempt = 1, !.at = pc] /\ UNCHANGED result
      BY <1>0, <1>3, <2>2 DEF CheckStarted, ExType
    <3>2. ex' \in ExType /\ ex'.at = pc /\ ex'.n = ex.n BY <1>0, <3>1 DEF ExType
    <3>3. pc = "check" => cs[client].of = ex.n /\ cs[client].jailed
      BY <2>1, <3>1 DEF PiInv, OwnJail
    <3> QED BY <1>0, <1>1, <2>1, <3>1, <3>2, <3>3, TaskChange
  <2>3. CASE ~Running(client)
    <3>1. Again BY <1>3, <2>3 DEF CheckStarted
    <3> QED BY <1>1, <2>1, <2>3, <3>1, AgainOK, TaskChange
  <2> QED BY <2>2, <2>3
(* Steps that end the execution. *)
<1>4. ASSUME NEW why \in Why, End(why), why = "ok" => cs[client].settled,
             UNCHANGED <<client, stops>>, ex.at # "stopping", cs' \in {cs, Noted(client)}
      PROVE  PiInv'
  BY <1>0, <1>1, <1>4, EndOK, TaskChange
<1>5. CASE PrepareTaskDir
  <2>1. CASE ex' = [ex EXCEPT !.at = "jail", !.dir = TRUE] /\ UNCHANGED result
    <3>1. ex' \in ExType /\ ex'.at = "jail" BY <1>0, <2>1 DEF ExType
    <3>2. UNCHANGED <<cs, client, stops>> /\ ex.at # "stopping" BY <1>5 DEF PrepareTaskDir
    <3> QED BY <1>0, <2>1, <3>1, <3>2, TaskChange
  <2>2. CASE End("error") BY <1>0, <1>4, <1>5, <2>2 DEF PrepareTaskDir
  <2> QED BY <1>5, <2>1, <2>2 DEF PrepareTaskDir
<1>6. CASE SetupJail
  <2>1. CASE ex' = [ex EXCEPT !.at = "reset", !.jail = TRUE] /\ UNCHANGED result
    <3>1. ex' \in ExType /\ ex'.at = "reset" BY <1>0, <2>1 DEF ExType
    <3>2. UNCHANGED <<cs, client, stops>> /\ ex.at # "stopping" BY <1>6 DEF SetupJail
    <3> QED BY <1>0, <2>1, <3>1, <3>2, TaskChange
  <2>2. CASE End("error") BY <1>0, <1>4, <1>6, <2>2 DEF SetupJail
  <2> QED BY <1>6, <2>1, <2>2 DEF SetupJail
<1>7. CASE ResetClient
  <2>0. UNCHANGED <<client, result>> /\ ex.at = "reset" BY <1>7 DEF ResetClient
  <2>1. CASE Running(client)
    <3>1. /\ stops' = [stops EXCEPT !["task"] = [at |-> "waiting", c |-> client]]
          /\ cs' = [cs EXCEPT ![client].stdin = FALSE]
          /\ ex' = [ex EXCEPT !.at = "stopping"]
      BY <1>7, <2>1 DEF ResetClient, StopCalled
    <3> DEFINE f == [cs[client] EXCEPT !.stdin = FALSE]
    <3>2. ClientOK(f) /\ Kept(cs[client], f)
      <4>1. cs[client] \in ClientType BY <1>0 DEF ClientOK
      <4>2. f \in ClientType /\ Same(cs[client], f) BY <4>1 DEF ClientType, Same
      <4> QED BY <1>0, <4>2, SameOK
    <3>3. cs' = [cs EXCEPT ![client] = f] BY <3>1
    <3> HIDE DEF f
    <3>4. cs' \in [Client -> ClientType] /\ \A d \in Client : ClientOK(cs'[d]) /\ Kept(cs[d], cs'[d])
      BY <1>0, <3>2, <3>3, ClientChange
    <3>5. ex' \in ExType /\ ex'.at = "stopping" BY <1>0, <3>1 DEF ExType
    <3>6. stops' \in StopsType /\ stops'["task"].c = client BY <1>0, <3>1 DEF StopsType
    <3>7. Typed' BY <1>0, <2>0, <3>5, <3>6 DEF Typed
    <3>8. OnlyClientRuns' BY <2>0, <3>4, <3>5, <3>6 DEF PiInv, OnlyClientRuns, Kept
    <3>9. OwnJail' BY <3>5 DEF OwnJail
    <3> QED BY <1>0, <2>0, <3>4, <3>7, <3>8, <3>9 DEF PiInv, SuccessMeansSettled
  <2>2. CASE ~Running(client)
    <3>1. cs' = Noted(client) /\ stops' = stops /\ ex' = [ex EXCEPT !.at = "spawn", !.loop = "reset"]
      BY <1>7, <2>2 DEF ResetClient
    <3>2. ex' \in ExType /\ ex'.at = "spawn" BY <1>0, <3>1 DEF ExType
    <3> QED BY <1>0, <1>1, <2>0, <2>2, <3>1, <3>2, TaskChange
  <2> QED BY <2>1, <2>2
<1>8. CASE CheckRunning
  <2>0. cs' = Noted(client) /\ UNCHANGED <<client, stops>> /\ ex.at = "check"
    BY <1>8 DEF CheckRunning
  <2>1. CASE ex' = [ex EXCEPT !.at = "prompt"] /\ UNCHANGED result
    <3>1. ex' \in ExType /\ ex'.at = "prompt" /\ ex'.n = ex.n BY <1>0, <2>1 DEF ExType
    <3>2. cs[client].of = ex.n /\ cs[client].jailed BY <2>0 DEF PiInv, OwnJail
    <3> QED BY <1>0, <1>1, <2>0, <2>1, <3>1, <3>2, TaskChange
  <2>2. CASE End("error") BY <1>0, <1>4, <2>0, <2>2
  <2> QED BY <1>8, <2>1, <2>2 DEF CheckRunning
<1>9. CASE Prompt
  <2>0. UNCHANGED <<client, stops>> /\ ex.at = "prompt" BY <1>9 DEF Prompt
  <2>1. CASE /\ cs' = [cs EXCEPT ![client].prompted = TRUE, ![client].taker = "taking"]
             /\ ex' = [ex EXCEPT !.at = "wait"] /\ UNCHANGED result
    <3> DEFINE f == [cs[client] EXCEPT !.prompted = TRUE, !.taker = "taking"]
    <3>1. cs[client].of = ex.n /\ cs[client].jailed BY <2>0 DEF PiInv, OwnJail
    <3>2. ClientOK(f) /\ Kept(cs[client], f)
      <4>1. cs[client] \in ClientType BY <1>0 DEF ClientOK
      <4>2. f \in ClientType BY <4>1 DEF ClientType
      <4>3. /\ f.of = cs[client].of /\ f.jailed = cs[client].jailed /\ f.pi = cs[client].pi
            /\ f.started = cs[client].started /\ f.waited = cs[client].waited
            /\ f.settled = cs[client].settled /\ f.got = cs[client].got
            /\ f.out = cs[client].out /\ f.ev = cs[client].ev
        BY <4>1 DEF ClientType
      <4> HIDE DEF f
      <4> QED BY <1>0, <3>1, <4>2, <4>3 DEF ClientOK, Kept
    <3>3. cs' = [cs EXCEPT ![client] = f] BY <1>0, <2>1
    <3> HIDE DEF f
    <3>4. cs' \in [Client -> ClientType] /\ \A d \in Client : ClientOK(cs'[d]) /\ Kept(cs[d], cs'[d])
      BY <1>0, <3>2, <3>3, ClientChange
    <3>5. ex' \in ExType /\ ex'.at = "wait" /\ ex'.n = ex.n BY <1>0, <2>1 DEF ExType
    <3> QED BY <1>0, <2>0, <2>1, <3>1, <3>4, <3>5, TaskChange
  <2>2. CASE End("error") /\ cs' = cs BY <1>0, <1>4, <2>0, <2>2
  <2> QED BY <1>9, <2>1, <2>2 DEF Prompt
<1>10. CASE WaitDone
  <2>1. CASE cs[client].got
    <3>1. cs[client].settled BY <1>0, <2>1 DEF ClientOK
    <3> QED BY <1>0, <1>4, <1>10, <2>1, <3>1 DEF WaitDone
  <2>2. CASE ~cs[client].got BY <1>0, <1>4, <1>10, <2>2 DEF WaitDone
  <2> QED BY <2>1, <2>2
<1>11. CASE WaitCancelled BY <1>0, <1>4, <1>11 DEF WaitCancelled
<1>12. CASE WaitIdle BY <1>0, <1>4, <1>12 DEF WaitIdle
<1>13. CASE Return
  <2>1. ex' = [NoExecution EXCEPT !.n = ex.n] BY <1>13 DEF Return
  <2>2. ex' \in ExType /\ ex'.at = "idle" BY <1>0, <2>1 DEF ExType, NoExecution, Why
  <2>3. UNCHANGED <<cs, client, stops, result>> /\ ex.at = "return" BY <1>13 DEF Return
  <2> QED BY <1>0, <2>2, <2>3, TaskChange
<1> QED
  BY <1>2, <1>3, <1>5, <1>6, <1>7, <1>8, <1>9, <1>10, <1>11, <1>12, <1>13, SpawnStep DEF TaskStep

(* What stopping does to a client. *)
LEMMA StoppedOK ==
  ASSUME NEW r, ClientOK(r), NEW k \in Nat
  PROVE  /\ LET f == [r EXCEPT !.stdin = FALSE] IN ClientOK(f) /\ Kept(r, f)
         /\ LET f == [r EXCEPT !.pi = "dead"] IN ClientOK(f) /\ Kept(r, f)
         /\ LET f == [r EXCEPT !.pi = @] IN ClientOK(f) /\ Kept(r, f)
         /\ r.waited => LET f == [r EXCEPT !.started = FALSE, !.closed = k] IN
                        ClientOK(f) /\ Kept(r, f) /\ r.pi = "dead"
<1>1. /\ ClientOK([r EXCEPT !.stdin = FALSE]) /\ Kept(r, [r EXCEPT !.stdin = FALSE])
  <2>1. r \in ClientType BY DEF ClientOK
  <2>2. [r EXCEPT !.stdin = FALSE] \in ClientType /\ Same(r, [r EXCEPT !.stdin = FALSE])
    BY <2>1 DEF ClientType, Same
  <2> QED BY <2>2, SameOK
<1>2. ClientOK([r EXCEPT !.pi = "dead"]) /\ Kept(r, [r EXCEPT !.pi = "dead"])
  BY DEF ClientOK, ClientType, Kept
<1>3. ClientOK([r EXCEPT !.pi = @]) /\ Kept(r, [r EXCEPT !.pi = @])
  BY DEF ClientOK, ClientType, Kept
<1>4. r.waited => LET f == [r EXCEPT !.started = FALSE, !.closed = k] IN
                  ClientOK(f) /\ Kept(r, f) /\ r.pi = "dead"
  BY DEF ClientOK, ClientType, Kept
<1> QED BY <1>1, <1>2, <1>3, <1>4

LEMMA StopStep ==
  ASSUME PiHandlerAssumption, PiInv,
         \/ \E w \in DOMAIN stops : StopKill(w) \/ StopReturns(w)
         \/ Shutdown \/ ShutdownTimeout \/ Killed \/ Restart \/ Cancel \/ TaskTimeout
  PROVE  PiInv'
<1>0. /\ client \in Client /\ ex \in ExType /\ stops \in StopsType /\ result \in ResultType
      /\ cs \in [Client -> ClientType] /\ SuccessMeansSettled
      /\ \A d \in Client : ClientOK(cs[d]) /\ Kept(cs[d], cs[d])
      /\ DOMAIN stops = {"task", "shutdown"}
      /\ \A w \in DOMAIN stops : stops[w].c \in Client
  BY DEF PiInv, Typed, Kept, StopsType
(* A call of Stop, by the shutdown, is on its way or comes to its end. *)
<1>1. ASSUME UNCHANGED <<client, ex, result>>, stops' \in StopsType,
             stops'["task"].at = "idle" \/ (stops["task"].at # "idle" /\ stops'["task"].c = stops["task"].c),
             cs' \in [Client -> ClientType],
             \A d \in Client : ClientOK(cs'[d]) /\ Kept(cs[d], cs'[d])
      PROVE  PiInv'
  <2>1. Typed' BY <1>0, <1>1 DEF Typed
  <2>2. OnlyClientRuns' BY <1>0, <1>1 DEF PiInv, OnlyClientRuns, Kept
  <2>3. OwnJail' BY <1>0, <1>1 DEF PiInv, OwnJail, Kept
  <2> QED BY <1>0, <1>1, <2>1, <2>2, <2>3 DEF PiInv, SuccessMeansSettled
<1>2. ASSUME NEW w \in DOMAIN stops, StopKill(w) PROVE PiInv'
  <2>1. PICK c \in Client : c = stops[w].c BY <1>0, <1>2
  <2>2. /\ cs' = [cs EXCEPT ![c].pi = "dead"] /\ stops' = [stops EXCEPT ![w].at = "killed"]
        /\ stops[w].at = "waiting" /\ UNCHANGED <<client, ex, result>>
    BY <1>2, <2>1 DEF StopKill
  <2> DEFINE f == [cs[c] EXCEPT !.pi = "dead"]
  <2>3. ClientOK(f) /\ Kept(cs[c], f) BY <1>0, StoppedOK
  <2>4. cs' = [cs EXCEPT ![c] = f] BY <2>2
  <2> HIDE DEF f
  <2>5. cs' \in [Client -> ClientType] /\ \A d \in Client : ClientOK(cs'[d]) /\ Kept(cs[d], cs'[d])
    BY <2>3, <2>4, ClientChange
  <2>6. /\ stops' \in StopsType
        /\ stops'["task"].at = "idle" \/ (stops["task"].at # "idle" /\ stops'["task"].c = stops["task"].c)
    BY <1>0, <2>2 DEF StopsType
  <2> QED BY <1>1, <2>2, <2>5, <2>6
<1>3. ASSUME NEW w \in DOMAIN stops, StopReturns(w) PROVE PiInv'
  <2>1. PICK c \in Client : c = stops[w].c BY <1>0, <1>3
  <2>2. /\ cs' = [cs EXCEPT ![c].started = FALSE, ![c].closed = @ + 1]
        /\ stops' = [stops EXCEPT ![w].at = "idle"] /\ stops[w].at # "idle"
        /\ UNCHANGED <<client, result>> /\ cs[c].waited
        /\ ex' = IF w = "task" THEN [ex EXCEPT !.at = "spawn", !.loop = "reset"] ELSE ex
    BY <1>3, <2>1 DEF StopReturns
  <2>3. PICK k \in Nat : k = cs[c].closed + 1
    <3>1. cs[c].closed \in Nat BY <1>0 DEF ClientType
    <3> QED BY <3>1
  <2> DEFINE f == [cs[c] EXCEPT !.started = FALSE, !.closed = k]
  <2>4. ClientOK(f) /\ Kept(cs[c], f) /\ cs[c].pi = "dead" BY <1>0, <2>2, StoppedOK
  <2>5. cs' = [cs EXCEPT ![c] = f] BY <1>0, <2>2, <2>3
  <2> HIDE DEF f
  <2>6. cs' \in [Client -> ClientType] /\ \A d \in Client : ClientOK(cs'[d]) /\ Kept(cs[d], cs'[d])
    BY <2>4, <2>5, ClientChange
  <2>7. stops' \in StopsType /\ stops'[w].at = "idle" BY <1>0, <2>2 DEF StopsType
  <2>8. CASE w = "task"
    <3>1. c = client BY <2>1, <2>2, <2>8 DEF PiInv, OnlyClientRuns
    <3>2. ex' \in ExType /\ ex'.at = "spawn" BY <1>0, <2>2, <2>8 DEF ExType
    <3>3. Typed' BY <1>0, <2>2, <2>7, <3>2 DEF Typed
    <3>4. OnlyClientRuns' BY <2>2, <2>4, <2>6, <2>7, <2>8, <3>1, <3>2 DEF PiInv, OnlyClientRuns, Kept
    <3>5. OwnJail' BY <3>2 DEF OwnJail
    <3> QED BY <1>0, <2>2, <2>6, <3>3, <3>4, <3>5 DEF PiInv, SuccessMeansSettled
  <2>9. CASE w # "task"
    <3>1. ex' = ex /\ stops'["task"] = stops["task"] BY <1>0, <2>2, <2>9
    <3> QED BY <1>1, <2>2, <2>6, <2>7, <3>1
  <2> QED BY <2>8, <2>9
<1>4. CASE Shutdown
  <2>1. CASE StopCalled("shutdown")
    <3>1. /\ stops' = [stops EXCEPT !["shutdown"] = [at |-> "waiting", c |-> client]]
          /\ cs' = [cs EXCEPT ![client].stdin = FALSE] /\ UNCHANGED <<client, ex, result>>
      BY <1>4, <2>1 DEF Shutdown, StopCalled
    <3> DEFINE f == [cs[client] EXCEPT !.stdin = FALSE]
    <3>2. ClientOK(f) /\ Kept(cs[client], f) BY <1>0, StoppedOK
    <3>3. cs' = [cs EXCEPT ![client] = f] BY <3>1
    <3> HIDE DEF f
    <3>4. cs' \in [Client -> ClientType] /\ \A d \in Client : ClientOK(cs'[d]) /\ Kept(cs[d], cs'[d])
      BY <1>0, <3>2, <3>3, ClientChange
    <3>5. stops' \in StopsType /\ stops'["task"] = stops["task"] BY <1>0, <3>1 DEF StopsType
    <3> QED BY <1>1, <3>1, <3>4, <3>5
  <2>2. CASE UNCHANGED <<cs, stops>> BY <1>0, <1>1, <1>4, <2>2 DEF Shutdown
  <2> QED BY <1>4, <2>1, <2>2 DEF Shutdown
<1>5. CASE ShutdownTimeout
  <2>1. /\ cs' = [cs EXCEPT ![client].pi = IF @ = "running" THEN "dead" ELSE @]
        /\ UNCHANGED <<client, ex, result, stops>>
    BY <1>5 DEF ShutdownTimeout
  <2>2. PICK f : /\ f \in {[cs[client] EXCEPT !.pi = "dead"], [cs[client] EXCEPT !.pi = @]}
                 /\ cs' = [cs EXCEPT ![client] = f]
    BY <2>1
  <2>3. ClientOK([cs[client] EXCEPT !.pi = "dead"]) /\ ClientOK([cs[client] EXCEPT !.pi = @])
    BY <1>0, StoppedOK
  <2>4. Kept(cs[client], [cs[client] EXCEPT !.pi = "dead"])
        /\ Kept(cs[client], [cs[client] EXCEPT !.pi = @])
    BY <1>0, StoppedOK
  <2>5. cs' \in [Client -> ClientType] /\ \A d \in Client : ClientOK(cs'[d]) /\ Kept(cs[d], cs'[d])
    BY <1>0, <2>2, <2>3, <2>4, ClientChange
  <2> QED BY <1>0, <1>1, <2>1, <2>5
<1>6. CASE Killed \/ Cancel \/ TaskTimeout
  BY <1>0, <1>1, <1>6 DEF Killed, Cancel, TaskTimeout, ContextEnds
<1>7. CASE Restart
  <2>1. \A c \in Client : ClientOK(cs'[c]) /\ (c # 1 => cs'[c].pi = "none")
    BY <1>7, Constants, NewClientOK DEF Restart
  <2>2. cs' \in [Client -> ClientType] BY <1>7, <2>1 DEF Restart, ClientOK
  <2>3. ex' \in ExType /\ ex'.at = "idle"
    <3>1. ex' = [NoExecution EXCEPT !.n = ex.n] /\ ex.n \in Nat BY <1>0, <1>7 DEF Restart, ExType
    <3> QED BY <3>1 DEF ExType, NoExecution, Why
  <2>4. stops' \in StopsType /\ stops'["task"].at = "idle"
    BY <1>7, Constants DEF Restart, StopsType, NotStopping
  <2>5. client' = 1 /\ result' = NoResult BY <1>7 DEF Restart
  <2>6. result' \in ResultType /\ result'.why # "ok" BY <2>5 DEF NoResult, ResultType, Why
  <2>7. Typed' BY Constants, <2>3, <2>4, <2>5, <2>6 DEF Typed
  <2>8. OnlyClientRuns' BY <2>1, <2>3, <2>4, <2>5 DEF OnlyClientRuns
  <2>9. OwnJail' BY <2>3 DEF OwnJail
  <2> QED BY <2>1, <2>2, <2>6, <2>7, <2>8, <2>9 DEF PiInv, SuccessMeansSettled
<1> QED BY <1>2, <1>3, <1>4, <1>5, <1>6, <1>7

LEMMA PiInvariant == ASSUME PiHandlerAssumption PROVE Spec => []PiInv
<1>1. Init => PiInv BY PiInit
<1>2. PiInv /\ [Next]_vars => PiInv'
  <2>1. CASE UNCHANGED vars
    BY <2>1 DEF vars, PiInv, Typed, OnlyClientRuns, OwnJail, SuccessMeansSettled
  <2>2. PiInv /\ Next => PiInv' BY ClientsStep, TaskStepOK, StopStep DEF Next
  <2> QED BY <2>1, <2>2
<1> QED BY <1>1, <1>2, PTL DEF Spec

(* At no time do two pi subprocesses of one guest run: a new one is spawned*)
(* only when that of the task before is stopped or found exited, whatever  *)
(* fails and however the shutdown falls in between.                        *)
THEOREM OnePiRuns == ASSUME PiHandlerAssumption PROVE Spec => []OneSubprocess
<1>1. PiInv => OneSubprocess BY DEF PiInv, OnlyClientRuns, OneSubprocess
<1> QED BY <1>1, PiInvariant, PTL

(* A prompt is sent to a pi in a jail, and while its execution waits for   *)
(* it, the client is that of the execution's own jail.                     *)
THEOREM PromptsInJail == ASSUME PiHandlerAssumption PROVE Spec => []PromptedInJail
<1>1. PiInv => PromptedInJail BY DEF PiInv, ClientOK, OwnJail, PromptedInJail
<1> QED BY <1>1, PiInvariant, PTL

(* What ExecuteTask reports as a success, pi has settled: the event went   *)
(* from its output over eventCh to the goroutine that takes it.            *)
THEOREM SuccessIsSettled == ASSUME PiHandlerAssumption PROVE Spec => []SuccessMeansSettled
<1>1. PiInv => SuccessMeansSettled BY DEF PiInv
<1> QED BY <1>1, PiInvariant, PTL
-------------------------------------------------------------------------------
(* What the deferred cleanup of the execution removes is all there is.     *)
Leaves(made) == IF made THEN {ex.n} ELSE {}
LeftInv ==
  /\ dirs \subseteq Leaves(ex.dir) /\ jails \subseteq Leaves(ex.jail)
  /\ ex.at = "idle" => ~ex.dir /\ ~ex.jail

LEMMA LeftStep ==
  ASSUME PiHandlerAssumption, ~PrepareFaults, PiInv, LeftInv, Next
  PROVE  LeftInv'
<1>0. ex \in ExType BY DEF PiInv, Typed
<1>1. ASSUME UNCHANGED <<dirs, jails>>, ex'.n = ex.n /\ ex'.dir = ex.dir /\ ex'.jail = ex.jail,
             ex'.at = "idle" => ex.at = "idle"
      PROVE  LeftInv'
  BY <1>1 DEF LeftInv, Leaves
<1>2. ASSUME NEW why, End(why), UNCHANGED <<dirs, jails>> PROVE LeftInv'
  BY <1>0, <1>1, <1>2 DEF End, ExType
<1>3. ASSUME Again, UNCHANGED <<dirs, jails>> PROVE LeftInv'
  <2>1. CASE ex' = [ex EXCEPT !.attempt = @ + 1, !.at = "spawn"]
    BY <1>0, <1>1, <1>3, <2>1 DEF ExType
  <2> QED BY <1>2, <1>3, <2>1 DEF Again
<1>4. ASSUME NEW c \in Client, PiStep(c) \/ ClientStep(c) PROVE LeftInv'
  <2>1. UNCHANGED <<ex, dirs, jails>>
    BY <1>4 DEF PiStep, ClientStep, PiExit, PiWrites, ReadStderr, ContextKill, WaitProcess,
                ReadEvent, ReadEnd, TakeEvent, Pi
  <2> QED BY <1>1, <2>1
<1>5. CASE Begin
  BY <1>0, <1>5 DEF Begin, LeftInv, Leaves, NoExecution, ExType
<1>6. CASE Spawn
  <2>1. UNCHANGED <<dirs, jails>> BY <1>6 DEF Spawn
  <2>2. ex' = [ex EXCEPT !.at = "started"] \/ Again BY <1>6 DEF Spawn
  <2> QED BY <1>0, <1>1, <1>3, <2>1, <2>2 DEF ExType
<1>7. CASE CheckStarted
  <2>1. UNCHANGED <<dirs, jails>> BY <1>7 DEF CheckStarted
  <2>2. \/ \E pc \in {"prepare", "check"} : ex' = [ex EXCEPT !.attempt = 1, !.at = pc]
        \/ Again
    BY <1>7 DEF CheckStarted
  <2> QED BY <1>0, <1>1, <1>3, <2>1, <2>2 DEF ExType
<1>8. CASE PrepareTaskDir
  BY <1>0, <1>8 DEF PrepareTaskDir, LeftInv, Leaves, ExType
<1>9. CASE SetupJail
  <2>1. CASE jails' = jails \cup {ex.n} /\ ex' = [ex EXCEPT !.at = "reset", !.jail = TRUE]
    BY <1>0, <1>9, <2>1 DEF SetupJail, LeftInv, Leaves, ExType
  <2>2. CASE End("error") /\ UNCHANGED jails BY <1>2, <1>9, <2>2 DEF SetupJail
  <2> QED BY <1>9, <2>1, <2>2 DEF SetupJail
<1>10. CASE ResetClient \/ CheckRunning \/ Prompt \/ WaitDone \/ WaitCancelled \/ WaitIdle
  <2>1. UNCHANGED <<dirs, jails>>
    BY <1>10 DEF ResetClient, CheckRunning, Prompt, WaitDone, WaitCancelled, WaitIdle
  <2>2. \/ \E pc \in {"stopping", "prompt", "wait"} : ex' = [ex EXCEPT !.at = pc]
        \/ ex' = [ex EXCEPT !.at = "spawn", !.loop = "reset"]
        \/ \E why : End(why)
    BY <1>10 DEF ResetClient, CheckRunning, Prompt, WaitDone, WaitCancelled, WaitIdle
  <2> QED BY <1>0, <1>1, <1>2, <2>1, <2>2 DEF ExType
<1>11. CASE Return
  BY <1>0, <1>11 DEF Return, LeftInv, Leaves, NoExecution, ExType
<1>12. CASE Cancel \/ TaskTimeout \/ Shutdown \/ ShutdownTimeout \/ Killed
  BY <1>1, <1>12 DEF Cancel, TaskTimeout, ContextEnds, Shutdown, ShutdownTimeout, Killed
<1>13. ASSUME NEW w \in DOMAIN stops, StopKill(w) \/ StopReturns(w) PROVE LeftInv'
  <2>1. UNCHANGED <<dirs, jails>> BY <1>13 DEF StopKill, StopReturns
  <2>2. ex' = ex \/ ex' = [ex EXCEPT !.at = "spawn", !.loop = "reset"]
    BY <1>13 DEF StopKill, StopReturns
  <2> QED BY <1>0, <1>1, <2>1, <2>2 DEF ExType
<1>14. CASE Restart
  BY <1>0, <1>14 DEF Restart, LeftInv, Leaves, NoExecution, ExType
<1> QED
  BY <1>4, <1>5, <1>6, <1>7, <1>8, <1>9, <1>10, <1>11, <1>12, <1>13, <1>14 DEF Next, TaskStep

(* Where nothing fails before the jail is made, a finished execution has   *)
(* left no directory and no jail, and a running one only its own: also one *)
(* that was cancelled, timed out or killed, after the next start.          *)
THEOREM NothingLeft ==
  ASSUME PiHandlerAssumption, ~PrepareFaults PROVE Spec => []NoDirLeft
<1>1. Init => LeftInv BY DEF Init, LeftInv, Leaves, NoExecution
<1>2. PiInv /\ LeftInv /\ [Next]_vars => LeftInv'
  <2>1. CASE UNCHANGED vars BY <2>1 DEF vars, LeftInv, Leaves
  <2> QED BY <2>1, LeftStep
<1>3. LeftInv => NoDirLeft BY DEF LeftInv, Leaves, NoDirLeft
<1> QED BY <1>1, <1>2, <1>3, PiInvariant, PTL DEF Spec
==============================================================================
