----------------------------- MODULE LogAccumulator -----------------------------
(***************************************************************************)
(* The way of a log line through the server (LogAccumulator and the        *)
(* handlers guest.log, guest.result and guest.cancelled of internal/server)*)
(* into the log kept in memory, the log on disk, and the browsers.  Text   *)
(* is collected per task and passed on as one entry when something else    *)
(* arrives; every other line is an entry of its own.  The accumulator      *)
(* keeps its mutex while an entry is passed on, so that a call of Feed or  *)
(* FlushAll is one step.  Lines are numbered in the order in which they    *)
(* arrive; their content plays no part.                                    *)
(***************************************************************************)
EXTENDS Naturals, Sequences, SequencesExt

CONSTANTS
  Task,       \* the tasks whose guests send log lines
  MaxLines,   \* bound: how many lines are sent
  Cancels     \* may a guest confirm a cancellation?

LogAssumption == MaxLines \in Nat /\ Cancels \in BOOLEAN

(* The lines a guest sends: streamed text (level text, info or none),      *)
(* thinking, system messages and errors, compactions and tool calls with   *)
(* their fields, and tool calls that only their prefix gives away, with    *)
(* and without a readable id after it.                                     *)
Prefixed == {"prefixed", "garbled"}
Kind == {"text", "thinking", "system", "compaction", "tool"} \cup Prefixed

VARIABLES
  sent,     \* how many lines have been sent
  fed,      \* task -> its lines, in order
  over,     \* the tasks whose guest has sent its last line
  buffer,   \* task -> the text collected since the last flush
  quiet,    \* the tasks for which nothing has arrived for more than flushPeriod
  memory,   \* task -> its entries in TaskLogStore
  disk,     \* task -> its entries in the disk log store
  shown,    \* task -> the entries browsers were sent
  up        \* does the server run?

vars == <<sent, fed, over, buffer, quiet, memory, disk, shown, up>>

Line == 1..MaxLines
Entry == [lines : Seq(Line), level : Kind \ Prefixed, fields : {"none", "tool", "compaction"}]

TypeOK ==
  /\ sent \in 0..MaxLines
  /\ \A t \in Task : fed[t] \in Seq(Line) /\ buffer[t] \in Seq(Line)
  /\ over \subseteq Task /\ quiet \subseteq Task
  /\ \A t \in Task : {memory[t], disk[t], shown[t]} \subseteq Seq(Entry)
  /\ up \in BOOLEAN

Init ==
  LET none == [t \in Task |-> <<>>] IN
  /\ sent = 0 /\ fed = none /\ over = {}
  /\ buffer = none /\ quiet = {}
  /\ memory = none /\ disk = none /\ shown = none
  /\ up = TRUE
-------------------------------------------------------------------------------
(* flushBuffer: the entry the buffer of t makes, if there is one.          *)
Flushed(t) ==
  IF buffer[t] = <<>> THEN <<>>
  ELSE <<[lines |-> buffer[t], level |-> "text", fields |-> "none"]>>

(* What Feed passes on when line n of this kind arrives.  Mutant: the line *)
(* itself before the text that was collected.                              *)
EmittedFirst(t, n, kind) ==
  IF kind = "text" THEN IF t \in quiet THEN Flushed(t) ELSE <<>>
  ELSE <<[lines |-> <<n>>, level |-> IF kind \in Prefixed THEN "tool" ELSE kind,
          fields |-> "none"]>> \o Flushed(t)

Emitted(t, n, kind) ==
  IF kind = "text" THEN IF t \in quiet THEN Flushed(t) ELSE <<>>
  ELSE Flushed(t) \o <<[lines |-> <<n>>, level |-> IF kind \in Prefixed THEN "tool" ELSE kind,
                        fields |-> "none"]>>

(* parseToolLine: the fields are read off a line that has a prefix and an  *)
(* id in parentheses.                                                      *)
ParsesToolLine(kind) == kind \notin {"garbled"}

(* The emit closure of handleGuestLog gives every entry the fields of the  *)
(* request under way; an entry of level tool that got none has its line    *)
(* parsed.                                                                 *)
Stamped(entry, kind) ==
  [entry EXCEPT !.fields = IF kind \in {"tool", "compaction"} THEN kind
                           ELSE IF entry.level = "tool" /\ ParsesToolLine(kind) THEN "tool" ELSE "none"]

Feed(t, kind) ==
  LET n == sent + 1
      out == Emitted(t, n, kind)
      entries == [i \in DOMAIN out |-> Stamped(out[i], kind)]
  IN
  /\ up /\ t \notin over /\ sent < MaxLines
  /\ sent' = n
  /\ fed' = [fed EXCEPT ![t] = Append(@, n)]
  /\ over' \in {over} \cup IF kind = "system" THEN {over \cup {t}} ELSE {}
  /\ quiet' = quiet \ {t}
  /\ buffer' = [buffer EXCEPT ![t] = IF kind # "text" THEN <<>>
                                     ELSE IF t \in quiet THEN <<n>> ELSE Append(@, n)]
  /\ memory' = [memory EXCEPT ![t] = @ \o entries]
  /\ disk' = [disk EXCEPT ![t] = @ \o entries]
  /\ shown' = [shown EXCEPT ![t] = @ \o entries]
  /\ UNCHANGED up

(* The same when the disk refuses an entry: the process ends at once.      *)
FeedFatally(t, kind) ==
  LET n == sent + 1
      out == Emitted(t, n, kind)
      entries == [i \in DOMAIN out |-> Stamped(out[i], kind)]
  IN
  /\ up /\ t \notin over /\ sent < MaxLines
  /\ up' = FALSE
  /\ sent' = n
  /\ fed' = [fed EXCEPT ![t] = Append(@, n)]
  /\ \E k \in 0..Len(entries) - 1 :
       disk' = [disk EXCEPT ![t] = @ \o SubSeq(entries, 1, k)]
  /\ UNCHANGED <<over, buffer, quiet, memory, shown>>

(* More than flushPeriod passes.  Nothing else happens: the accumulator    *)
(* has no timer.                                                           *)
TimePasses ==
  /\ up /\ quiet # Task
  /\ quiet' = Task
  /\ UNCHANGED <<sent, fed, over, buffer, memory, disk, shown, up>>

(* FlushAll passes on the text of every task, not to the disk.             *)
Flush ==
  /\ memory' = [t \in Task |-> memory[t] \o Flushed(t)]
  /\ buffer' = [t \in Task |-> <<>>]
  /\ UNCHANGED <<sent, fed, over, quiet, disk, up>>

(* guest.result follows the guest's last line, which is no text.           *)
HandleResult(t) ==
  /\ up /\ t \in over
  /\ Flush
  /\ shown' = [u \in Task |-> shown[u] \o Flushed(u)]

(* guest.cancelled comes at any time; the browsers are told nothing.       *)
HandleCancelled ==
  /\ up /\ Cancels
  /\ Flush
  /\ UNCHANGED shown

Next ==
  \/ \E t \in Task : HandleResult(t) \/ \E kind \in Kind : Feed(t, kind) \/ FeedFatally(t, kind)
  \/ TimePasses
  \/ HandleCancelled

Spec == Init /\ [][Next]_vars

(* Time passes, and a task that is over has its result sent.               *)
FairSpec ==
  Spec /\ WF_vars(TimePasses) /\ \A t \in Task : WF_vars(HandleResult(t))
-------------------------------------------------------------------------------
LinesOf(log) == FlattenSeq([i \in DOMAIN log |-> log[i].lines])

(* The log in memory, with what is still collected, is what the guest has  *)
(* sent: Feed and FlushAll lose, repeat and reorder nothing.               *)
InOrder == up => \A t \in Task : LinesOf(memory[t]) \o buffer[t] = fed[t]

(* The log on disk has what the log in memory has, also when the process   *)
(* ends half way: it is a beginning of what the guest has sent.            *)
(* Where several tasks stream at once it lacks lines:                      *)
(* README, "Known divergences".                                            *)
DiskKeepsTrace ==
  \A t \in Task : IF up THEN LinesOf(disk[t]) \o buffer[t] = fed[t]
                        ELSE IsPrefix(LinesOf(disk[t]), fed[t])

(* Browsers see what the log in memory has, whoever flushed it.            *)
ShownIsStored == up => shown = memory

(* TaskLogEntry: "Structured tool call fields (only set when Level ==      *)
(* "tool")".                                                               *)
(* The code does not keep it: README, "Known divergences".                 *)
FieldsMatchLevel ==
  \A t \in Task : \A i \in DOMAIN memory[t] :
    memory[t][i].fields \in {"none", memory[t][i].level}

(* NewLogAccumulator: "flush every second of inactivity".                  *)
(* The code does not keep it: README, "Known divergences".                 *)
InactiveTextFlushed == \A t \in Task : t \in quiet /\ buffer[t] # <<>> ~> buffer[t] = <<>>
===============================================================================
