-------------------------------- MODULE LogStore --------------------------------
(***************************************************************************)
(* The task logs on disk (pkg/logstore) and the requests that read them.   *)
(* An entry is appended as a bzip2 stream of its own to the file of its    *)
(* task and date; appends hold a mutex, readers do not, and the server may *)
(* stop between any two file operations.  A file is read as a whole: one   *)
(* stream that is not complete spoils it.                                  *)
(***************************************************************************)
EXTENDS Naturals, Sequences, FiniteSets, SequencesExt

CONSTANTS
  Task,         \* the tasks that have logs
  FirstDate,    \* the date on which this server starts
  LastDate,     \* bound: the dates are 1 .. LastDate
  MaxEntries,   \* bound: how many entries are appended
  Legacy,       \* the <<date, task>> that have an uncompressed file from before
  Crashes       \* may the server stop?

Date == 1..LastDate
Place == Date \X Task
LogStoreAssumption ==
  /\ LastDate \in Nat /\ FirstDate \in Date /\ MaxEntries \in Nat
  /\ Legacy \subseteq (1..(FirstDate - 1)) \X Task /\ Crashes \in BOOLEAN
  /\ \A p, q \in Legacy : p[2] = q[2] => p = q     \* all their entries have number 0

VARIABLES
  today,     \* the date
  number,    \* how many entries were made; 0 is the entry of a legacy file
  file,      \* place -> the streams of logs.jsonl.bz2, complete ones and torn ones
  exists,    \* the places that have this file
  append,    \* where Append is: step, place, entry
  logged,    \* history: place -> the entries whose Append returned
  download,  \* where handleTaskLogDownload is
  answer     \* the last answer of a reader, and what was in the log when it was asked

vars == <<today, number, file, exists, append, logged, download, answer>>

Nobody == [at |-> "idle", place |-> <<1, CHOOSE t \in Task : TRUE>>, n |-> 0]
Idle == [at |-> "idle", task |-> Nobody.place[2], dates |-> <<>>, found |-> <<>>,
         out |-> <<>>, due |-> <<>>]
Unasked == [of |-> "nothing", ok |-> TRUE, got |-> <<>>, due |-> <<>>]
Entries == Seq(0..MaxEntries)

TypeOK ==
  /\ today \in Date /\ number \in 0..MaxEntries
  /\ \A p \in Place : file[p] \in Seq([n : 1..MaxEntries, whole : BOOLEAN])
  /\ exists \subseteq Place
  /\ append \in [at : {"idle", "open", "write", "close"}, place : Place, n : 0..MaxEntries]
  /\ \A p \in Place : logged[p] \in Entries
  /\ download.at \in {"idle", "list", "look", "read"} /\ download.task \in Task
  /\ {download.dates, download.found} \subseteq Seq(Date)
  /\ {download.out, download.due} \subseteq Entries
  /\ answer.of \in {"nothing", "trace", "entries"} /\ answer.ok \in BOOLEAN
  /\ {answer.got, answer.due} \subseteq Entries

Init ==
  /\ today = FirstDate /\ number = 0
  /\ file = [p \in Place |-> <<>>] /\ exists = {}
  /\ append = Nobody
  /\ logged = [p \in Place |-> IF p \in Legacy THEN <<0>> ELSE <<>>]
  /\ download = Idle /\ answer = Unasked
-------------------------------------------------------------------------------
(* Append: the directories and the file are made, the stream is written,   *)
(* the stream is finished.                                                 *)
Begin(t) ==
  /\ append.at = "idle" /\ number < MaxEntries
  /\ number' = number + 1
  /\ append' = [at |-> "open", place |-> <<today, t>>, n |-> number + 1]
  /\ UNCHANGED <<today, file, exists, logged, download, answer>>

Open ==
  /\ append.at = "open"
  /\ exists' = exists \cup {append.place}
  /\ append' = [append EXCEPT !.at = "write"]
  /\ UNCHANGED <<today, number, file, logged, download, answer>>

Write ==
  /\ append.at = "write"
  /\ file' = [file EXCEPT ![append.place] = Append(@, [n |-> append.n, whole |-> FALSE])]
  /\ append' = [append EXCEPT !.at = "close"]
  /\ UNCHANGED <<today, number, exists, logged, download, answer>>

Close ==
  LET p == append.place IN
  /\ append.at = "close"
  /\ file' = [file EXCEPT ![p] = ReplaceAt(@, Len(@), [n |-> append.n, whole |-> TRUE])]
  /\ logged' = [logged EXCEPT ![p] = Append(@, append.n)]
  /\ append' = Nobody
  /\ UNCHANGED <<today, number, exists, download, answer>>

Midnight ==
  /\ today < LastDate
  /\ today' = today + 1
  /\ UNCHANGED <<number, file, exists, append, logged, download, answer>>

Crash ==
  /\ Crashes
  /\ append' = Nobody /\ download' = Idle /\ answer' = Unasked
  /\ UNCHANGED <<today, number, file, exists, logged>>
-------------------------------------------------------------------------------
(* Reading.                                                                *)
Readable(p) == \A i \in DOMAIN file[p] : file[p][i].whole
Content(p) == [i \in DOMAIN file[p] |-> file[p][i].n]
Uncompressed(p) == IF p \in Legacy THEN <<0>> ELSE <<>>

(* hasLogFile.                                                             *)
HasLogFile(p) == p \in exists \cup Legacy

(* ReadRawJSONL: an empty file is an empty log, an unreadable one an error.*)
(* Mutant: the error is ignored, what was read before it is returned.      *)
RawUpToTorn(p) ==
  LET torn == {i \in DOMAIN file[p] : ~file[p][i].whole} IN
  IF p \in exists
  THEN [ok |-> TRUE, got |-> IF torn = {} THEN Content(p)
                             ELSE SubSeq(Content(p), 1, Min(torn) - 1)]
  ELSE [ok |-> p \in Legacy, got |-> Uncompressed(p)]

Raw(p) ==
  IF p \in exists THEN [ok |-> Readable(p), got |-> IF Readable(p) THEN Content(p) ELSE <<>>]
  ELSE [ok |-> p \in Legacy, got |-> Uncompressed(p)]

(* ReadLogs: any error of the compressed file leads to the uncompressed    *)
(* one, and that one's absence is no error.                                *)
ReadLogs(p) ==
  IF p \in exists /\ Readable(p) /\ file[p] # <<>> THEN Content(p) ELSE Uncompressed(p)

HandleLogEntry(p) ==
  /\ answer' = [of |-> "entries", ok |-> TRUE, got |-> ReadLogs(p), due |-> logged[p]]
  /\ UNCHANGED <<today, number, file, exists, append, logged, download>>

(* readFirstTimestamp, ListTasksWithTimestamps: a task is listed if the    *)
(* first entry of one of its files can be read.                            *)
StartKnown(p) == (p \in exists /\ file[p] # <<>> /\ file[p][1].whole) \/ p \in Legacy

Listed(d) == {t \in Task : StartKnown(<<d, t>>)}
-------------------------------------------------------------------------------
(* handleTaskLogDownload and ReadTaskRawJSONL: the dates are listed, those *)
(* that have a file of the task are kept, their files are read in turn.    *)
Answer(ok, got) ==
  /\ answer' = [of |-> "trace", ok |-> ok, got |-> got, due |-> download.due]
  /\ download' = Idle

(* All entries of t up to now, by date.                                    *)
Trace(t) == FlattenSeq([d \in Date |-> logged[<<d, t>>]])

AskForTrace(t) ==
  /\ download.at = "idle"
  /\ download' = [Idle EXCEPT !.at = "list", !.task = t, !.due = Trace(t)]
  /\ UNCHANGED <<today, number, file, exists, append, logged, answer>>

(* The dates that have a directory, in ascending order.                    *)
Sorted(dates) ==
  LET upTo[d \in 0..LastDate] == IF d = 0 THEN <<>>
                                 ELSE IF d \in dates THEN Append(upTo[d - 1], d) ELSE upTo[d - 1]
  IN  upTo[LastDate]

ListDates ==
  /\ download.at = "list"
  /\ download' = [download EXCEPT !.at = "look",
                                 !.dates = Sorted({p[1] : p \in exists \cup Legacy})]
  /\ UNCHANGED <<today, number, file, exists, append, logged, answer>>

LookAtDate ==
  LET d == Head(download.dates) IN
  /\ download.at = "look"
  /\ IF download.dates = <<>>
     THEN IF download.found = <<>> THEN Answer(FALSE, <<>>)
          ELSE download' = [download EXCEPT !.at = "read"] /\ UNCHANGED answer
     ELSE /\ download' = [download EXCEPT !.dates = Tail(@),
               !.found = IF HasLogFile(<<d, download.task>>) THEN Append(@, d) ELSE @]
          /\ UNCHANGED answer
  /\ UNCHANGED <<today, number, file, exists, append, logged>>

ReadSegment ==
  /\ download.at = "read"
  /\ IF download.found = <<>> THEN Answer(TRUE, download.out)
     ELSE LET raw == Raw(<<Head(download.found), download.task>>)
          IN  IF ~raw.ok THEN Answer(FALSE, <<>>)
              ELSE /\ download' = [download EXCEPT !.found = Tail(@), !.out = @ \o raw.got]
                   /\ UNCHANGED answer
  /\ UNCHANGED <<today, number, file, exists, append, logged>>

Next ==
  \/ \E t \in Task : Begin(t) \/ AskForTrace(t)
  \/ Open \/ Write \/ Close \/ Midnight \/ Crash
  \/ \E p \in Place : HandleLogEntry(p)
  \/ ListDates \/ LookAtDate \/ ReadSegment

Spec == Init /\ [][Next]_vars
-------------------------------------------------------------------------------
(* A trace that is handed out has everything that was logged when it was   *)
(* asked for, in order ("rather than silently losing its earlier           *)
(* segments"), while entries are appended, midnight passes and after       *)
(* crashes: a file that was spoilt makes it an error.                      *)
TraceComplete ==
  answer.of = "trace" /\ answer.ok =>
    /\ IsPrefix(answer.due, answer.got)
    /\ \A i, j \in DOMAIN answer.got : i < j => answer.got[i] < answer.got[j]

(* "ReadLogs reads all log entries for a task from its log file."          *)
(* The code does not keep it: README, "Known divergences".                 *)
EntriesComplete == answer.of = "entries" => IsPrefix(answer.due, answer.got)

(* While the server does not crash, every task that has an entry is listed *)
(* under its date, also while the next entry is being appended.            *)
LoggedAreListed ==
  ~Crashes => \A p \in Place : logged[p] # <<>> => p[2] \in Listed(p[1])
===============================================================================
