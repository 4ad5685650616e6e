---------------------------- MODULE GuestTasksProofs ----------------------------
(* Theorems about GuestTasks, for every number of tasks, connections and   *)
(* notifications and every capacity of taskCh.                             *)
EXTENDS GuestTasks, FiniteSetTheorems, SequenceTheorems, TLAPS

Assumptions == NoTaskAssumption /\ BoundAssumption /\ SwitchAssumption

(* A notification that is on its way has arrived, and a dispatcher that is *)
(* at work has taken one of them; there is no dispatcher without a         *)
(* connection.                                                             *)
AtWork(e) == disp[e] \notin {"none", "select", "done"}
ArrivedOK ==
  /\ \A n \in Note : note[n].at # "none" => n <= arrived
  /\ \A i \in 1..Len(taskCh) : taskCh[i] <= arrived
  /\ \A e \in Conn : AtWork(e) => job[e] \in 1..arrived
  /\ \A e \in Conn : e > conn => disp[e] = "none"

(* g.mu is held by the one dispatcher that acknowledges, while nothing     *)
(* runs; and what runs is what Guest's fields say.                         *)
MuOK ==
  /\ mu # Nobody => disp[mu] = "ack" /\ ~running
  /\ \A e \in Conn : disp[e] = "ack" => mu = e
RunsOK ==
  /\ \A e, f \in Executing : e = f
  /\ running <=> Executing # {}
  /\ \A e \in Executing : currentTask = JobTask(e)
  /\ cancelOf # Nobody => disp[cancelOf] \in {"run", "report", "send", "clear"}

(* pi is killed only after Stop, and from then on no failure is on its way *)
(* to SendResult.                                                          *)
ShutdownOK ==
  /\ killed => stopped
  /\ \A e \in Conn : outcome[e] = "killed" => killed
  /\ \A e \in Conn : disp[e] \in {"report", "send"} => outcome[e] # "none"
  /\ \A e \in Conn : disp[e] = "send" => outcome[e] # "killed"
  /\ NoShutdownFailure

TasksInv == TypeOK /\ ArrivedOK /\ MuOK /\ RunsOK /\ ShutdownOK
-------------------------------------------------------------------------------
USE DEF Conn, Note, Nobody

LEMMA InitOK == ASSUME Assumptions, Init PROVE TasksInv
<1> USE DEF Assumptions, BoundAssumption
<1>1. TypeOK
  <2>1. taskCh \in Seq(Note) /\ Len(taskCh) = 0 BY EmptySeq DEF Init
  <2>2. MaxConns \in Nat \ {0} /\ MaxNotes \in Nat \ {0} /\ ChanCap \in Nat \ {0} OBVIOUS
  <2>4. conn \in Conn /\ arrived \in 0..MaxNotes BY <2>2 DEF Init
  <2>5. disp \in [Conn -> {"select", "none"}] /\ outcome \in [Conn -> {"none"}] BY DEF Init
  <2>6. {connected, stopped, killed, running} \subseteq BOOLEAN BY DEF Init
  <2>7. {mu, cancelOf} \subseteq 0..MaxConns /\ currentTask = NoTask BY <2>2 DEF Init
  <2>8. aborted = {} /\ reports = {} BY DEF Init
  <2>9. note \in [Note -> [kind: {"none", "assign", "cancel"}, task: Task \cup {NoTask},
                        via: 0..MaxConns,
                        at: {"none", "check", "send", "queued", "held", "running", "over",
                             "dropped", "duplicate", "full", "declined", "confirm"}]]
    BY <2>2 DEF Init
  <2>10. Len(taskCh) <= ChanCap BY <2>1, <2>2
  <2>11. job \in [Conn -> 0..MaxNotes] BY <2>2 DEF Init
  <2> QED BY <2>1, <2>4, <2>5, <2>6, <2>7, <2>8, <2>9, <2>10, <2>11 DEF TypeOK
<1>2. ArrivedOK BY DEF Init, ArrivedOK, AtWork
<1>3. MuOK /\ RunsOK BY DEF Init, MuOK, RunsOK, Executing
<1>4. ShutdownOK BY DEF Init, ShutdownOK, NoShutdownFailure
<1> QED BY <1>1, <1>2, <1>3, <1>4 DEF TasksInv

(* How a notification moves on. *)
Place == {"none", "check", "send", "queued", "held", "running", "over", "dropped", "duplicate",
          "full", "declined", "confirm"}

LEMMA NoteMoves ==
  ASSUME TypeOK, NEW n \in Note, NEW at \in Place, NoteAt(n, at)
  PROVE  /\ note' \in [Note -> [kind: {"none", "assign", "cancel"}, task: Task \cup {NoTask},
                                via: 0..MaxConns, at: Place]]
         /\ note'[n].at = at
         /\ \A m \in Note : note'[m].task = note[m].task /\ note'[m].kind = note[m].kind
         /\ \A m \in Note \ {n} : note'[m] = note[m]
<1>1. DOMAIN note = Note /\ \A m \in Note : note[m] \in [kind: {"none", "assign", "cancel"},
        task: Task \cup {NoTask}, via: 0..MaxConns, at: Place]
  BY DEF TypeOK, Place
<1>2. note' = [note EXCEPT ![n] = [note[n] EXCEPT !.at = at]]
  BY <1>1 DEF NoteAt
<1>3. [note[n] EXCEPT !.at = at] \in [kind: {"none", "assign", "cancel"},
        task: Task \cup {NoTask}, via: 0..MaxConns, at: Place]
  BY <1>1
<1>4. /\ [note[n] EXCEPT !.at = at].at = at
      /\ [note[n] EXCEPT !.at = at].task = note[n].task
      /\ [note[n] EXCEPT !.at = at].kind = note[n].kind
  BY <1>1
<1>5. note'[n] = [note[n] EXCEPT !.at = at] /\ \A m \in Note \ {n} : note'[m] = note[m]
  BY <1>1, <1>2
<1>6. note' \in [Note -> [kind: {"none", "assign", "cancel"}, task: Task \cup {NoTask},
                         via: 0..MaxConns, at: Place]]
  BY <1>2, <1>3 DEF TypeOK, Place
<1> QED
  BY <1>4, <1>5, <1>6

(* How a dispatcher moves on. *)
Stage == {"none", "select", "wait", "busy", "idle", "ack", "setup", "run", "report", "send", "clear",
          "decline", "done"}

LEMMA DispMoves ==
  ASSUME TypeOK, NEW e \in Conn, NEW at \in Stage, DispAt(e, at)
  PROVE  disp' \in [Conn -> Stage]
  BY DEF TypeOK, DispAt, Stage

(* What taskCh holds. *)
LEMMA HeadTaken ==
  ASSUME Assumptions, TypeOK, ArrivedOK, taskCh # <<>>
  PROVE  /\ Head(taskCh) \in Note /\ Head(taskCh) <= arrived
         /\ Tail(taskCh) \in Seq(Note) /\ Len(Tail(taskCh)) <= ChanCap
         /\ \A i \in 1..Len(Tail(taskCh)) : Tail(taskCh)[i] <= arrived
<1>0. taskCh \in Seq(Note) /\ Len(taskCh) <= ChanCap BY DEF TypeOK
<1>1. Len(taskCh) \in Nat /\ Len(taskCh) > 0 BY <1>0, LenProperties, EmptySeq
<1>2. Head(taskCh) = taskCh[1] BY <1>0, <1>1
<1>3. /\ Head(taskCh) \in Note /\ Tail(taskCh) \in Seq(Note)
      /\ Len(Tail(taskCh)) = Len(taskCh) - 1
      /\ \A i \in 1..Len(Tail(taskCh)) : Tail(taskCh)[i] = taskCh[i + 1]
  BY <1>0, HeadTailProperties
<1>4. Len(Tail(taskCh)) <= ChanCap BY <1>0, <1>1, <1>3 DEF Assumptions, BoundAssumption
<1>5. \A i \in 1..Len(Tail(taskCh)) : i + 1 \in 1..Len(taskCh) BY <1>1, <1>3
<1> QED BY <1>1, <1>2, <1>3, <1>4, <1>5 DEF ArrivedOK

LEMMA TypeStep == ASSUME Assumptions, TasksInv, Next PROVE TypeOK'
<1> USE DEF TasksInv, connVars, stopVars, noteVars, dispVars, runVars, DispAt
<1>1. ASSUME Lose PROVE TypeOK'
  BY <1>1 DEF Lose, TypeOK
<1>2. ASSUME Reconnect PROVE TypeOK'
  <2>1. conn' \in Conn BY <1>2 DEF Reconnect, TypeOK, Assumptions, BoundAssumption, Conn
  <2>2. disp' \in [Conn -> Stage] BY <1>2 DEF Reconnect, TypeOK, Stage
  <2>3. UNCHANGED <<stopVars, noteVars, taskCh, job, outcome, runVars, reports>>
        /\ connected' \in BOOLEAN
    BY <1>2 DEF Reconnect
  <2> QED BY <2>1, <2>2, <2>3 DEF TypeOK, Stage
<1>3. ASSUME Stop PROVE TypeOK'
  BY <1>3 DEF Stop, TypeOK
<1>4. ASSUME Kill PROVE TypeOK'
  BY <1>4 DEF Kill, TypeOK
<1>5. ASSUME NEW t \in Task, NEW kind \in {"assign", "cancel"}, Notify(kind, t) PROVE TypeOK'
  <2>1. [kind |-> kind, task |-> t, via |-> conn, at |-> "check"]
          \in [kind: {"none", "assign", "cancel"}, task: Task \cup {NoTask},
              via: 0..MaxConns, at: Place]
    BY DEF TypeOK, Place, Assumptions, BoundAssumption
  <2>2. note' \in [Note -> [kind: {"none", "assign", "cancel"}, task: Task \cup {NoTask},
                           via: 0..MaxConns, at: Place]]
    BY <1>5, <2>1 DEF Notify, TypeOK, Place
  <2>3. arrived' \in 0..MaxNotes
    BY <1>5 DEF Notify, TypeOK, Assumptions, BoundAssumption
  <2> QED BY <1>5, <2>2, <2>3 DEF Notify, TypeOK, Place
<1>6. ASSUME NEW n \in Note, CheckDuplicate(n) PROVE TypeOK'
  BY <1>6, NoteMoves DEF CheckDuplicate, TypeOK, Place
<1>7. ASSUME NEW n \in Note, Enqueue(n) PROVE TypeOK'
  <2>1. CASE Len(taskCh) < ChanCap
    <3>1. Append(taskCh, n) \in Seq(Note) /\ Len(Append(taskCh, n)) = Len(taskCh) + 1
      BY AppendProperties DEF TypeOK
    <3>2. Len(Append(taskCh, n)) <= ChanCap
      BY <2>1, <3>1, LenProperties DEF TypeOK, Assumptions, BoundAssumption
    <3> QED BY <1>7, <2>1, <3>1, <3>2, NoteMoves DEF Enqueue, TypeOK, Place
  <2>2. CASE ~(Len(taskCh) < ChanCap)
    BY <1>7, <2>2, NoteMoves DEF Enqueue, TypeOK, Place
  <2> QED BY <2>1, <2>2
<1>8. ASSUME NEW n \in Note, CancelRunning(n) PROVE TypeOK'
  <2>1. aborted' \subseteq Conn /\ cancelOf' \in 0..MaxConns
    <3>1. MaxConns \in Nat /\ mu \in 0..MaxConns /\ cancelOf \in 0..MaxConns
      BY DEF TypeOK, Assumptions, BoundAssumption
    <3>2. {cancelOf} \ {Nobody} \subseteq Conn BY <3>1
    <3> QED BY <1>8, <3>1, <3>2 DEF CancelRunning, TypeOK
  <2>2. note' \in [Note -> [kind: {"none", "assign", "cancel"}, task: Task \cup {NoTask},
                           via: 0..MaxConns, at: Place]]
    BY <1>8, NoteMoves DEF CancelRunning, Place
  <2> QED BY <1>8, <2>1, <2>2 DEF CancelRunning, TypeOK, Place
<1>9. ASSUME NEW n \in Note, Confirm(n) PROVE TypeOK'
  BY <1>9, NoteMoves DEF Confirm, TypeOK, Place
<1>10. ASSUME NEW e \in Conn, AtWork(e) PROVE job[e] \in Note
  BY <1>10 DEF ArrivedOK, TypeOK
<1>11. ASSUME NEW e \in Conn, Receive(e) PROVE TypeOK'
  <2>1. PICK n \in Note : n = Head(taskCh) BY <1>11, HeadTaken DEF Receive
  <2>2. taskCh' \in Seq(Note) /\ Len(taskCh') <= ChanCap BY <1>11, HeadTaken DEF Receive
  <2>3. NoteAt(n, "held") /\ job' = [job EXCEPT ![e] = n] BY <1>11, <2>1 DEF Receive
  <2>4. n \in 0..MaxNotes OBVIOUS
  <2>5. note' \in [Note -> [kind: {"none", "assign", "cancel"}, task: Task \cup {NoTask},
                           via: 0..MaxConns, at: Place]]
    BY <2>3, NoteMoves DEF Place
  <2>6. disp' \in [Conn -> Stage] BY <1>11, DispMoves DEF Receive, Stage
  <2>7. job' \in [Conn -> 0..MaxNotes] BY <2>3, <2>4 DEF TypeOK
  <2> QED BY <1>11, <2>2, <2>5, <2>6, <2>7 DEF Receive, TypeOK, Place, Stage
<1>12. ASSUME NEW e \in Conn, Leave(e) \/ LookIdle(e) PROVE TypeOK'
  <2>1. disp' \in [Conn -> Stage] BY <1>12, DispMoves DEF Leave, LookIdle, Stage
  <2>2. UNCHANGED <<connVars, stopVars, noteVars, taskCh, job, outcome, runVars, reports>>
    BY <1>12 DEF Leave, LookIdle
  <2> QED BY <2>1, <2>2 DEF TypeOK, Stage
<1>13. ASSUME NEW e \in Conn, WaitOrDrop(e) PROVE TypeOK'
  <2>1. disp' \in [Conn -> Stage] BY <1>13, DispMoves DEF WaitOrDrop, Stage
  <2>2. job[e] \in Note BY <1>10, <1>13 DEF WaitOrDrop, AtWork
  <2>3. note' \in [Note -> [kind: {"none", "assign", "cancel"}, task: Task \cup {NoTask},
                           via: 0..MaxConns, at: Place]]
    BY <1>13, <2>2, NoteMoves DEF WaitOrDrop, TypeOK, Place
  <2> QED BY <1>13, <2>1, <2>3 DEF WaitOrDrop, TypeOK, Place, Stage
<1>14. ASSUME NEW e \in Conn, Begin(e) PROVE TypeOK'
  BY <1>14 DEF Begin, TypeOK
<1>15. ASSUME NEW e \in Conn, DeclineTask(e) PROVE TypeOK'
  <2>1. disp' \in [Conn -> Stage] BY <1>15, DispMoves DEF DeclineTask, Stage
  <2>2. job[e] \in Note BY <1>10, <1>15 DEF DeclineTask, AtWork
  <2>3. note' \in [Note -> [kind: {"none", "assign", "cancel"}, task: Task \cup {NoTask},
                           via: 0..MaxConns, at: Place]]
    BY <1>15, <2>2, NoteMoves DEF DeclineTask, Place
  <2> QED BY <1>15, <2>1, <2>3 DEF DeclineTask, TypeOK, Place, Stage
<1>16. ASSUME NEW e \in Conn, Acknowledged(e) PROVE TypeOK'
  <2>1. PICK n \in Note : n = job[e] BY <1>10, <1>16 DEF Acknowledged, AtWork
  <2>2. note' \in [Note -> [kind: {"none", "assign", "cancel"}, task: Task \cup {NoTask},
                           via: 0..MaxConns, at: Place]]
    BY <1>16, <2>1, NoteMoves DEF Acknowledged, Place
  <2>3. currentTask' \in Task \cup {NoTask} BY <1>16, <2>1 DEF Acknowledged, JobTask, TypeOK
  <2>4. {mu, cancelOf}' \subseteq 0..MaxConns
    BY <1>16 DEF Acknowledged, TypeOK, Assumptions, BoundAssumption
  <2> QED BY <1>16, <2>2, <2>3, <2>4 DEF Acknowledged, TypeOK, Place
<1>17. ASSUME NEW e \in Conn, SetCancel(e) PROVE TypeOK'
  <2>1. {mu, cancelOf}' \subseteq 0..MaxConns
    BY <1>17 DEF SetCancel, TypeOK, Assumptions, BoundAssumption
  <2> QED BY <1>17, <2>1 DEF SetCancel, TypeOK
<1>18. ASSUME NEW e \in Conn, HandlerReturns(e) \/ CheckStopping(e) PROVE TypeOK'
  <2>1. disp' \in [Conn -> Stage] BY <1>18, DispMoves DEF HandlerReturns, CheckStopping, Stage
  <2>2. outcome' \in [Conn -> {"none", "success", "failure", "killed"}]
    BY <1>18 DEF HandlerReturns, CheckStopping, TypeOK
  <2>3. UNCHANGED <<connVars, stopVars, noteVars, taskCh, job, runVars, reports>>
    BY <1>18 DEF HandlerReturns, CheckStopping
  <2> QED BY <2>1, <2>2, <2>3 DEF TypeOK, Stage
<1>19. ASSUME NEW e \in Conn, SendResult(e) PROVE TypeOK'
  <2>1. <<job[e], outcome[e]>> \in Note \X {"success", "failure", "killed"}
    BY <1>10, <1>19 DEF SendResult, AtWork, ShutdownOK, TypeOK
  <2>2. reports' \subseteq Note \X {"success", "failure", "killed"}
    BY <1>19, <2>1 DEF SendResult, TypeOK
  <2> QED BY <1>19, <2>2 DEF SendResult, TypeOK
<1>20. ASSUME NEW e \in Conn, Clear(e) PROVE TypeOK'
  <2>1. disp' \in [Conn -> Stage] BY <1>20, DispMoves DEF Clear, Stage
  <2>2. job[e] \in Note BY <1>10, <1>20 DEF Clear, AtWork
  <2>3. note' \in [Note -> [kind: {"none", "assign", "cancel"}, task: Task \cup {NoTask},
                           via: 0..MaxConns, at: Place]]
    BY <1>20, <2>2, NoteMoves DEF Clear, Place
  <2>4. {mu, cancelOf}' \subseteq 0..MaxConns
    BY <1>20 DEF Clear, TypeOK, Assumptions, BoundAssumption
  <2> QED BY <1>20, <2>1, <2>3, <2>4 DEF Clear, TypeOK, Place, Stage
<1> HIDE DEF TasksInv, connVars, stopVars, noteVars, dispVars, runVars, DispAt
<1> QED
  BY <1>1, <1>2, <1>3, <1>4, <1>5, <1>6, <1>7, <1>8, <1>9, <1>11, <1>12, <1>13, <1>14, <1>15,
     <1>16, <1>17, <1>18, <1>19, <1>20 DEF Next, Handler, Dispatcher

LEMMA ArrivedStep == ASSUME Assumptions, TasksInv, Next PROVE ArrivedOK'
<1> USE DEF TasksInv, connVars, stopVars, noteVars, dispVars, runVars, DispAt
<1>0. /\ arrived \in 0..MaxNotes /\ MaxNotes \in Nat /\ conn \in Conn
      /\ MaxConns \in Nat /\ taskCh \in Seq(Note) /\ Len(taskCh) \in Nat
  BY LenProperties DEF TypeOK, Assumptions, BoundAssumption
<1>1. ASSUME NEW e \in Conn, AtWork(e) PROVE job[e] \in Note /\ e <= conn
  BY <1>1, <1>0 DEF ArrivedOK, AtWork
(* A dispatcher goes on with what it has. *)
<1>2. ASSUME NEW e \in Conn, NEW at, DispAt(e, at), disp[e] # "none", AtWork(e)' => AtWork(e),
             UNCHANGED <<conn, arrived, taskCh, job>>,
             note' = note \/ \E n \in Note, p \in Place : n <= arrived /\ NoteAt(n, p)
      PROVE  ArrivedOK'
  <2>1. \A n \in Note : note'[n].at # "none" => n <= arrived'
    BY <1>2, NoteMoves DEF ArrivedOK
  <2>2. \A f \in Conn : AtWork(f)' => AtWork(f) BY <1>2 DEF TypeOK, AtWork
  <2>3. \A f \in Conn : f > conn => disp'[f] = "none" BY <1>2 DEF TypeOK, ArrivedOK
  <2> QED BY <1>2, <2>1, <2>2, <2>3 DEF ArrivedOK, AtWork
<1>3. ASSUME UNCHANGED <<conn, arrived, disp, job, taskCh>>,
             note' = note \/ \E n \in Note, p \in Place : n <= arrived /\ NoteAt(n, p)
      PROVE  ArrivedOK'
  <2>1. \A n \in Note : note'[n].at # "none" => n <= arrived'
    BY <1>3, NoteMoves DEF ArrivedOK
  <2> QED BY <1>3, <2>1 DEF ArrivedOK, AtWork
<1>4. ASSUME Lose PROVE ArrivedOK'
  BY <1>0, <1>4 DEF Lose, ArrivedOK, AtWork, TypeOK
<1>5. ASSUME Reconnect PROVE ArrivedOK'
  BY <1>0, <1>5 DEF Reconnect, ArrivedOK, AtWork, TypeOK
<1>6. ASSUME Stop \/ Kill PROVE ArrivedOK'
  BY <1>3, <1>6 DEF Stop, Kill
<1>7. ASSUME NEW t \in Task, NEW kind \in {"assign", "cancel"}, Notify(kind, t) PROVE ArrivedOK'
  <2>1. arrived' = arrived + 1 /\ \A n \in Note \ {arrived + 1} : note'[n] = note[n]
    BY <1>7 DEF Notify, TypeOK
  <2>2. \A n \in Note : note'[n].at # "none" => n <= arrived' BY <1>0, <2>1 DEF ArrivedOK
  <2>3. UNCHANGED <<conn, disp, job, taskCh>> BY <1>7 DEF Notify
  <2>4. \A i \in 1..Len(taskCh) : taskCh[i] <= arrived + 1
    BY <1>0, ElementOfSeq DEF ArrivedOK
  <2> QED BY <1>0, <2>1, <2>2, <2>3, <2>4 DEF ArrivedOK, AtWork
<1>8. ASSUME NEW n \in Note, Enqueue(n) PROVE ArrivedOK'
  <2>1. n <= arrived BY <1>8 DEF Enqueue, ArrivedOK
  <2>2. CASE Len(taskCh) < ChanCap
    <3>1. \A i \in 1..Len(taskCh') : taskCh'[i] <= arrived
      <4>1. taskCh' = Append(taskCh, n) BY <1>8, <2>2 DEF Enqueue
      <4>2. /\ Len(taskCh') = Len(taskCh) + 1
            /\ \A i \in 1..Len(taskCh) : taskCh'[i] = taskCh[i]
            /\ taskCh'[Len(taskCh) + 1] = n
        BY <1>0, <4>1, AppendProperties
      <4>3. \A i \in 1..Len(taskCh) : taskCh'[i] <= arrived BY <4>2 DEF ArrivedOK
      <4>4. \A i \in 1..Len(taskCh') : i \in 1..Len(taskCh) \/ i = Len(taskCh) + 1
        BY <1>0, <4>2
      <4> HIDE DEF TasksInv
      <4> QED BY <2>1, <4>2, <4>3, <4>4
    <3>2. NoteAt(n, "queued") /\ UNCHANGED <<conn, arrived, disp, job>>
      BY <1>8, <2>2 DEF Enqueue
    <3>3. \A m \in Note : note'[m].at # "none" => m <= arrived'
      <4>1. \A m \in Note \ {n} : note'[m] = note[m] BY <3>2, NoteMoves DEF Place
      <4>2. arrived' = arrived /\ \A m \in Note : note[m].at # "none" => m <= arrived
        BY <3>2 DEF ArrivedOK
      <4> QED BY <2>1, <4>1, <4>2
    <3> QED BY <3>1, <3>2, <3>3 DEF ArrivedOK, AtWork
  <2>3. CASE ~(Len(taskCh) < ChanCap)
    BY <1>3, <1>8, <2>1, <2>3 DEF Enqueue, Place
  <2> QED BY <2>2, <2>3
<1>9. ASSUME NEW n \in Note, CheckDuplicate(n) \/ CancelRunning(n) \/ Confirm(n) PROVE ArrivedOK'
  <2>1. n <= arrived BY <1>9 DEF CheckDuplicate, CancelRunning, Confirm, ArrivedOK
  <2> QED BY <1>3, <1>9, <2>1 DEF CheckDuplicate, CancelRunning, Confirm, Place
<1>10. ASSUME NEW e \in Conn, Receive(e) PROVE ArrivedOK'
  <2>1. PICK n \in Note : n = Head(taskCh) /\ n <= arrived BY <1>10, HeadTaken DEF Receive
  <2>2. NoteAt(n, "held") /\ job' = [job EXCEPT ![e] = n] /\ UNCHANGED <<conn, arrived>>
    BY <1>10, <2>1 DEF Receive
  <2>3. \A m \in Note : note'[m].at # "none" => m <= arrived'
    <3>1. \A m \in Note \ {n} : note'[m] = note[m] BY <2>2, NoteMoves DEF Place
    <3>2. \A m \in Note : note[m].at # "none" => m <= arrived BY DEF ArrivedOK
    <3> QED BY <2>1, <2>2, <3>1, <3>2
  <2>4. \A i \in 1..Len(taskCh') : taskCh'[i] <= arrived' BY <1>10, <2>2, HeadTaken DEF Receive
  <2>5. \A f \in Conn : AtWork(f)' => job'[f] \in 1..arrived'
    <3>1. disp[e] = "select" /\ disp' = [disp EXCEPT ![e] = "wait"] BY <1>10 DEF Receive
    <3>2. ASSUME NEW f \in Conn \ {e} PROVE AtWork(f)' = AtWork(f) /\ job'[f] = job[f]
      BY <2>2, <3>1 DEF AtWork, TypeOK
    <3>3. job'[e] = n /\ n \in 1..arrived' BY <1>0, <2>1, <2>2 DEF TypeOK
    <3> QED BY <2>2, <3>2, <3>3 DEF ArrivedOK
  <2>6. \A f \in Conn : f > conn' => disp'[f] = "none"
    BY <1>0, <1>10, <2>2 DEF Receive, TypeOK, ArrivedOK
  <2> QED BY <2>3, <2>4, <2>5, <2>6 DEF ArrivedOK
<1>11. ASSUME NEW e \in Conn,
              \/ Leave(e) \/ LookIdle(e) \/ Begin(e) \/ SetCancel(e) \/ HandlerReturns(e)
              \/ CheckStopping(e) \/ SendResult(e)
       PROVE  ArrivedOK'
  BY <1>2, <1>11 DEF Leave, LookIdle, Begin, SetCancel, HandlerReturns, CheckStopping,
                     SendResult, AtWork, TypeOK
<1>12. ASSUME NEW e \in Conn,
              WaitOrDrop(e) \/ DeclineTask(e) \/ Acknowledged(e) \/ Clear(e)
       PROVE  ArrivedOK'
  <2>1. AtWork(e) BY <1>12 DEF WaitOrDrop, DeclineTask, Acknowledged, Clear, AtWork
  <2>2. job[e] \in Note /\ job[e] <= arrived /\ disp[e] # "none"
    BY <1>0, <1>1, <2>1 DEF ArrivedOK, AtWork
  <2> QED BY <1>2, <1>12, <2>1, <2>2
        DEF WaitOrDrop, DeclineTask, Acknowledged, Clear, Place
<1> QED
  BY <1>4, <1>5, <1>6, <1>7, <1>8, <1>9, <1>10, <1>11, <1>12 DEF Next, Handler, Dispatcher

LEMMA MuStep == ASSUME Assumptions, TasksInv, Next PROVE MuOK'
<1> USE DEF TasksInv, connVars, stopVars, noteVars, dispVars, runVars, DispAt
<1>0. mu \in 0..MaxConns /\ conn \in Conn /\ MaxConns \in Nat /\ disp = [f \in Conn |-> disp[f]]
  BY DEF TypeOK, Assumptions, BoundAssumption
<1>1. ASSUME UNCHANGED <<mu, running>>, \A e \in Conn : disp'[e] = "ack" <=> disp[e] = "ack"
      PROVE  MuOK'
  BY <1>0, <1>1 DEF MuOK
<1>2. ASSUME Lose \/ Reconnect PROVE MuOK'
  BY <1>0, <1>1, <1>2 DEF Lose, Reconnect, ArrivedOK
<1>3. ASSUME NEW t, NEW n \in Note, NEW kind, Notify(kind, t) \/ Handler(n) PROVE MuOK'
  BY <1>1, <1>3 DEF Notify, Handler, CheckDuplicate, Enqueue, CancelRunning, Confirm
<1>4. ASSUME NEW t, NEW kind, Stop \/ Kill \/ Notify(kind, t) PROVE MuOK'
  BY <1>1, <1>4 DEF Stop, Kill, Notify
<1>5. ASSUME NEW e \in Conn,
             \/ Receive(e) \/ Leave(e) \/ LookIdle(e) \/ WaitOrDrop(e) \/ DeclineTask(e)
             \/ SetCancel(e) \/ HandlerReturns(e) \/ CheckStopping(e) \/ SendResult(e)
      PROVE  MuOK'
  BY <1>0, <1>1, <1>5 DEF Receive, Leave, LookIdle, WaitOrDrop, DeclineTask, SetCancel,
                          HandlerReturns, CheckStopping, SendResult
<1>6. ASSUME NEW e \in Conn, Begin(e) PROVE MuOK'
  BY <1>0, <1>6 DEF Begin, MuOK
<1>7. ASSUME NEW e \in Conn, Acknowledged(e) PROVE MuOK'
  BY <1>0, <1>7 DEF Acknowledged, MuOK
<1>8. ASSUME NEW e \in Conn, Clear(e) PROVE MuOK'
  BY <1>0, <1>8 DEF Clear, MuOK
<1> QED BY <1>2, <1>3, <1>4, <1>5, <1>6, <1>7, <1>8 DEF Next, Handler, Dispatcher

LEMMA RunsStep == ASSUME Assumptions, TasksInv, Next PROVE RunsOK'
<1> USE DEF TasksInv, connVars, stopVars, noteVars, dispVars, runVars, DispAt
<1> DEFINE At == {"setup", "run", "report", "send", "clear"}
<1>0. /\ mu \in 0..MaxConns /\ conn \in Conn /\ MaxConns \in Nat /\ cancelOf \in 0..MaxConns
      /\ disp = [f \in Conn |-> disp[f]]
  BY DEF TypeOK, Assumptions, BoundAssumption
(* The task of the assignment that runs stays what it is. *)
<1>1. ASSUME NEW e \in Executing PROVE job[e] \in Note /\ job[e] <= arrived
  BY <1>1 DEF Executing, ArrivedOK, AtWork, TypeOK
<1>2. ASSUME UNCHANGED <<running, currentTask, job>>, Executing' = Executing,
             \A e \in Executing : note'[job[e]].task = note[job[e]].task,
             cancelOf' # Nobody => disp'[cancelOf'] \in At \ {"setup"}
      PROVE  RunsOK'
  BY <1>2 DEF RunsOK, JobTask
<1>3. ASSUME Lose \/ Reconnect PROVE RunsOK'
  <2>1. Executing' = Executing BY <1>0, <1>3 DEF Lose, Reconnect, Executing, ArrivedOK
  <2>2. cancelOf # Nobody => disp'[cancelOf] \in At \ {"setup"}
    BY <1>0, <1>3 DEF Lose, Reconnect, RunsOK, ArrivedOK
  <2> QED BY <1>2, <1>3, <2>1, <2>2 DEF Lose, Reconnect
<1>4. ASSUME Stop \/ Kill PROVE RunsOK'
  BY <1>2, <1>4 DEF Stop, Kill, Executing, RunsOK
<1>5. ASSUME NEW t, NEW kind, Notify(kind, t) PROVE RunsOK'
  <2>1. \A n \in Note : n <= arrived => note'[n] = note[n]
    BY <1>5 DEF Notify, TypeOK
  <2>2. \A e \in Executing : note'[job[e]].task = note[job[e]].task BY <1>1, <2>1
  <2> QED BY <1>2, <1>5, <2>2 DEF Notify, Executing, RunsOK
<1>6. ASSUME NEW n \in Note, Handler(n) PROVE RunsOK'
  <2>1. PICK p \in Place : NoteAt(n, p)
    BY <1>6 DEF Handler, CheckDuplicate, Enqueue, CancelRunning, Confirm, Place
  <2>2. \A e \in Executing : note'[job[e]].task = note[job[e]].task BY <1>1, <2>1, NoteMoves
  <2> QED BY <1>2, <1>6, <2>2
        DEF Handler, CheckDuplicate, Enqueue, CancelRunning, Confirm, Executing, RunsOK
(* A dispatcher that does not execute. *)
<1>7. ASSUME NEW e \in Conn, NEW at, DispAt(e, at), at \notin At, e \notin Executing,
             UNCHANGED <<running, currentTask, cancelOf>>,
             \A f \in Conn \ {e} : job'[f] = job[f],
             note' = note \/ \E n \in Note, p \in Place : NoteAt(n, p)
      PROVE  RunsOK'
  <2>1. Executing' = Executing BY <1>0, <1>7 DEF Executing
  <2>2. \A f \in Executing : note'[job[f]].task = note[job[f]].task BY <1>1, <1>7, NoteMoves
  <2>3. cancelOf # Nobody => disp'[cancelOf] \in At \ {"setup"}
    BY <1>0, <1>7 DEF RunsOK, Executing
  <2>4. \A f \in Executing : JobTask(f)' = JobTask(f)
    BY <1>7, <2>2 DEF JobTask, Executing
  <2> QED BY <1>7, <2>1, <2>3, <2>4 DEF RunsOK
<1>8. ASSUME NEW e \in Conn, AtWork(e) PROVE job[e] \in Note
  BY <1>8 DEF ArrivedOK, AtWork, TypeOK
<1>9. ASSUME NEW e \in Conn, Receive(e) PROVE RunsOK'
  <2>1. NoteAt(Head(taskCh), "held") /\ Head(taskCh) \in Note BY <1>9, HeadTaken DEF Receive
  <2>2. \A f \in Conn \ {e} : job'[f] = job[f] BY <1>9 DEF Receive, TypeOK
  <2> QED BY <1>7, <1>9, <2>1, <2>2 DEF Receive, Executing, Place
<1>10. ASSUME NEW e \in Conn, Leave(e) \/ LookIdle(e) \/ Begin(e) PROVE RunsOK'
  BY <1>7, <1>10 DEF Leave, LookIdle, Begin, Executing
<1>11. ASSUME NEW e \in Conn, WaitOrDrop(e) \/ DeclineTask(e) PROVE RunsOK'
  BY <1>7, <1>8, <1>11 DEF WaitOrDrop, DeclineTask, Executing, AtWork, Place
<1>12. ASSUME NEW e \in Conn, Acknowledged(e) PROVE RunsOK'
  <2>1. Executing = {} /\ cancelOf = Nobody
    BY <1>0, <1>12 DEF Acknowledged, MuOK, RunsOK, Executing
  <2>2. Executing' = {e} BY <1>0, <1>12, <2>1 DEF Acknowledged, Executing
  <2>3. JobTask(e)' = JobTask(e)
    BY <1>8, <1>12, NoteMoves DEF Acknowledged, JobTask, AtWork, Place
  <2> QED BY <1>12, <2>1, <2>2, <2>3 DEF Acknowledged, RunsOK
<1>13. ASSUME NEW e \in Conn,
              SetCancel(e) \/ HandlerReturns(e) \/ CheckStopping(e) \/ SendResult(e)
       PROVE  RunsOK'
  <2>1. Executing' = Executing /\ e \in Executing
    BY <1>0, <1>13 DEF SetCancel, HandlerReturns, CheckStopping, SendResult, Executing
  <2>2. cancelOf' # Nobody => disp'[cancelOf'] \in At \ {"setup"}
    BY <1>0, <1>13 DEF SetCancel, HandlerReturns, CheckStopping, SendResult, RunsOK
  <2> QED BY <1>2, <1>13, <2>1, <2>2
        DEF SetCancel, HandlerReturns, CheckStopping, SendResult
<1>14. ASSUME NEW e \in Conn, Clear(e) PROVE RunsOK'
  <2>1. Executing' = {} BY <1>0, <1>14 DEF Clear, Executing, RunsOK
  <2> QED BY <1>14, <2>1 DEF Clear, RunsOK
<1> QED
  BY <1>3, <1>4, <1>5, <1>6, <1>9, <1>10, <1>11, <1>12, <1>13, <1>14 DEF Next, Dispatcher

LEMMA ShutdownStep == ASSUME Assumptions, TasksInv, Next PROVE ShutdownOK'
<1> USE DEF TasksInv, connVars, stopVars, noteVars, dispVars, runVars, DispAt
<1>0. /\ conn \in Conn /\ MaxConns \in Nat
      /\ disp = [f \in Conn |-> disp[f]] /\ outcome = [f \in Conn |-> outcome[f]]
  BY DEF TypeOK, Assumptions, BoundAssumption
<1>1. ASSUME UNCHANGED <<stopped, killed, outcome, reports>>,
             \A e \in Conn : disp'[e] \in {"report", "send"} => disp'[e] = disp[e]
      PROVE  ShutdownOK'
  BY <1>1 DEF ShutdownOK, NoShutdownFailure
<1>2. ASSUME Lose \/ Reconnect PROVE ShutdownOK'
  BY <1>0, <1>1, <1>2 DEF Lose, Reconnect
<1>3. ASSUME Stop \/ Kill PROVE ShutdownOK'
  BY <1>3 DEF Stop, Kill, ShutdownOK, NoShutdownFailure
<1>4. ASSUME NEW t, NEW kind, Notify(kind, t) PROVE ShutdownOK'
  BY <1>1, <1>4 DEF Notify
<1>5. ASSUME NEW n \in Note, Handler(n) PROVE ShutdownOK'
  BY <1>1, <1>5 DEF Handler, CheckDuplicate, Enqueue, CancelRunning, Confirm
<1>6. ASSUME NEW e \in Conn,
             \/ Receive(e) \/ Leave(e) \/ LookIdle(e) \/ WaitOrDrop(e) \/ Begin(e)
             \/ DeclineTask(e) \/ Acknowledged(e) \/ SetCancel(e) \/ Clear(e)
      PROVE  ShutdownOK'
  BY <1>0, <1>1, <1>6 DEF Receive, Leave, LookIdle, WaitOrDrop, Begin, DeclineTask,
                          Acknowledged, SetCancel, Clear
<1>7. ASSUME NEW e \in Conn, HandlerReturns(e) PROVE ShutdownOK'
  BY <1>0, <1>7 DEF HandlerReturns, ShutdownOK, NoShutdownFailure
<1>8. ASSUME NEW e \in Conn, CheckStopping(e) PROVE ShutdownOK'
  BY <1>0, <1>8 DEF CheckStopping, ShutdownOK, NoShutdownFailure
<1>9. ASSUME NEW e \in Conn, SendResult(e) PROVE ShutdownOK'
  BY <1>0, <1>9 DEF SendResult, ShutdownOK, NoShutdownFailure
<1> QED BY <1>2, <1>3, <1>4, <1>5, <1>6, <1>7, <1>8, <1>9 DEF Next, Dispatcher
-------------------------------------------------------------------------------
LEMMA TasksInvariant == ASSUME Assumptions PROVE Spec => []TasksInv
<1>1. Init => TasksInv BY InitOK
<1>2. TasksInv /\ [Next]_vars => TasksInv'
  <2>1. CASE UNCHANGED vars
    BY <2>1 DEF vars, connVars, stopVars, noteVars, dispVars, runVars, TasksInv, TypeOK, ArrivedOK,
                AtWork, MuOK, RunsOK, Executing, JobTask, ShutdownOK, NoShutdownFailure
  <2>2. TasksInv /\ Next => TasksInv'
    BY TypeStep, ArrivedStep, MuStep, RunsStep, ShutdownStep DEF TasksInv
  <2> QED BY <2>1, <2>2
<1> QED BY <1>1, <1>2, PTL DEF Spec

(* One task runs at a time, and running, currentTaskID and cancel are      *)
(* those of the task that runs, however many connections have come and     *)
(* gone, and with whatever dispatchers of theirs are still at work.        *)
THEOREM ExecutesOne == ASSUME Assumptions PROVE Spec => []OneExecution
<1>1. TasksInv => OneExecution
  <2> SUFFICES ASSUME TasksInv PROVE OneExecution
    OBVIOUS
  <2>1. Executing = {} \/ \E e : Executing = {e} BY DEF TasksInv, RunsOK
  <2>2. Cardinality(Executing) <= 1
    <3>1. CASE Executing = {} BY <3>1, FS_EmptySet
    <3>2. ASSUME NEW e, Executing = {e} PROVE Cardinality(Executing) <= 1
      <4>1. Cardinality({e}) = 1 BY FS_Singleton
      <4> QED BY <3>2, <4>1
    <3> QED BY <2>1, <3>1, <3>2
  <2> QED BY <2>2 DEF TasksInv, RunsOK, OneExecution
<1> QED BY <1>1, TasksInvariant, PTL

(* A failure that is only due to the shutdown of the guest is never        *)
(* reported: pi is killed after Stop, and a handler that fails after Stop  *)
(* sends nothing.                                                          *)
THEOREM ShutdownSilent == ASSUME Assumptions PROVE Spec => []NoShutdownFailure
<1>1. TasksInv => NoShutdownFailure BY DEF TasksInv, ShutdownOK
<1> QED BY <1>1, TasksInvariant, PTL
===============================================================================
