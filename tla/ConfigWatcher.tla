----------------------------- MODULE ConfigWatcher -----------------------------
(***************************************************************************)
(* The configuration file, the watcher that reloads it (pkg/config), and   *)
(* the server that applies it (cmd/hotelier, Server.New and Reload).       *)
(* The file is changed by editors: in place, which empties it first, by a  *)
(* rename over it, or by moving it away and writing it anew.  A reload     *)
(* reads the file twice: once to compare, once to parse.                   *)
(***************************************************************************)
EXTENDS Naturals, Sequences

CONSTANTS
  Content,    \* what may be saved: records of parses, personas, dir
  Empty,      \* what an empty file stands for: the defaults
  First,      \* the content before the program starts
  Invalid,    \* the persona lists that persona.Validate refuses
  Unusable,   \* the log directories that cannot be created
  NoContent,  \* stands for a missing file, and for no content read
  MaxSaves,   \* bound: how often the file is saved
  MaxTouches, \* bound: how often it changes but in content
  MaxEvents,  \* bound: the events of fsnotify in wait
  InPlace,    \* are there editors that empty the file first?
  Repeats,    \* may the same content be saved again?
  Early       \* may the file change while the program starts?

ConfigWatcherAssumption ==
  /\ {Empty, First} \cap {NoContent} = {} /\ NoContent \notin Content
  /\ Empty.parses /\ Empty.dir = "" /\ First.parses
  /\ MaxSaves \in Nat /\ MaxTouches \in Nat /\ MaxEvents \in Nat \ {0}
  /\ {InPlace, Repeats, Early} \subseteq BOOLEAN

VARIABLES
  file,         \* the content of the file
  writing,      \* what an editor is about to write into it
  saved,        \* the contents it has had
  saves, touches,
  events,       \* events in wait; meaningless before the directory is watched
  pc,           \* where the program's start and then the watch loop is
  lastContent,  \* ConfigWatcher.lastContent
  data,         \* what reload read for the comparison
  parsed,       \* what reloadFn returned
  configCh,     \* the program's channel, of capacity 1
  cfg,          \* Server.cfg
  personaStore, \* the list the persona store was built from
  disk          \* the directory of diskLogStore, "" for none

fileVars == <<file, writing, saved, saves, touches>>
watchVars == <<pc, lastContent, data, parsed>>
appVars == <<cfg, personaStore, disk>>
vars == <<fileVars, watchVars, appVars, events, configCh>>

Known == Content \cup {Empty, First}
Starting == {"load", "watch", "baseline", "parse baseline"}

TypeOK ==
  /\ {file, writing, lastContent, data, parsed} \subseteq Known \cup {NoContent}
  /\ saved \subseteq Known /\ saves \in 0..MaxSaves /\ touches \in 0..MaxTouches
  /\ events \in 0..MaxEvents
  /\ pc \in Starting \cup {"exited", "off", "wait", "parse", "send"}
  /\ configCh \in Seq({c \in Known : c.parses}) /\ Len(configCh) <= 1
  /\ cfg \in Known /\ cfg.parses
  /\ personaStore \in {c.personas : c \in Known} /\ disk \in {c.dir : c \in Known} \cup {""}

Init ==
  /\ file = First /\ writing = NoContent /\ saved = {First}
  /\ saves = 0 /\ touches = 0 /\ events = 0
  /\ pc = "load" /\ configCh = <<>>
  /\ lastContent = NoContent /\ data = NoContent /\ parsed = NoContent
  /\ cfg = Empty /\ personaStore = Empty.personas /\ disk = ""

------------------------------------------------------------------------------
(* Editors *)

(* An event joins those in wait, or is merged with one of them.         *)
Notify ==
  IF pc \in {"load", "watch", "exited", "off"}
  THEN UNCHANGED events
  ELSE \/ events < MaxEvents /\ events' = events + 1
       \/ events > 0 /\ UNCHANGED events

MayEdit == writing = NoContent /\ (Early \/ pc \notin Starting)

Fresh(c) == MayEdit /\ saves < MaxSaves /\ (Repeats \/ c \notin saved)

(* Rename over the file: one Create event.                              *)
Replace(c) ==
  /\ Fresh(c)
  /\ file' = c /\ saved' = saved \cup {c} /\ saves' = saves + 1
  /\ Notify
  /\ UNCHANGED <<writing, touches, watchVars, appVars, configCh>>

(* Opening for writing empties the file and is an event of its own.     *)
Truncate(c) ==
  /\ InPlace /\ Fresh(c)
  /\ file' = Empty /\ writing' = c /\ saves' = saves + 1
  /\ Notify
  /\ UNCHANGED <<saved, touches, watchVars, appVars, configCh>>

(* Rename and Remove are not acted on.                                  *)
MoveAway(c) ==
  /\ Fresh(c)
  /\ file' = NoContent /\ writing' = c /\ saves' = saves + 1
  /\ UNCHANGED <<saved, touches, events, watchVars, appVars, configCh>>

FinishSave ==
  /\ writing # NoContent
  /\ file' = writing /\ saved' = saved \cup {writing} /\ writing' = NoContent
  /\ Notify
  /\ UNCHANGED <<saves, touches, watchVars, appVars, configCh>>

(* A change of mode, or a second event of the same write.               *)
Touch ==
  /\ MayEdit /\ file # NoContent /\ touches < MaxTouches
  /\ touches' = touches + 1
  /\ Notify
  /\ UNCHANGED <<file, writing, saved, saves, watchVars, appVars, configCh>>

------------------------------------------------------------------------------
(* The program's start *)

DiskOf(dir, old) ==
  CASE dir = "" -> ""
    [] dir \in Unusable -> old
    [] OTHER -> dir

(* Server.New takes the personas as they are.                           *)
NewServer(c) == cfg' = c /\ personaStore' = c.personas /\ disk' = DiskOf(c.dir, "")

(* LoadServerConfig: a missing file means the defaults, a broken one    *)
(* ends the program.                                                    *)
Load ==
  /\ pc = "load"
  /\ LET c == IF file = NoContent THEN Empty ELSE file
     IN  IF c.parses
         THEN NewServer(c) /\ pc' = "watch"
         ELSE pc' = "exited" /\ UNCHANGED appVars
  /\ UNCHANGED <<fileVars, lastContent, data, parsed, events, configCh>>

(* NewConfigWatcher up to the watch of the directory.                   *)
Watch ==
  /\ pc = "watch" /\ pc' = "baseline"
  /\ UNCHANGED <<fileVars, lastContent, data, parsed, appVars, events, configCh>>

(* The reload of NewConfigWatcher, whose result it does not pass on; a  *)
(* failure leaves the program without a watcher.                        *)
ReadBaseline ==
  /\ pc = "baseline"
  /\ data' = file /\ pc' = IF file = NoContent THEN "off" ELSE "parse baseline"
  /\ UNCHANGED <<fileVars, lastContent, parsed, appVars, events, configCh>>

Parseable == file # NoContent /\ file.parses

ParseBaseline ==
  /\ pc = "parse baseline"
  /\ IF Parseable
     THEN lastContent' = data /\ pc' = "wait"
     ELSE UNCHANGED lastContent /\ pc' = "off"
  /\ UNCHANGED <<fileVars, data, parsed, appVars, events, configCh>>

------------------------------------------------------------------------------
(* ConfigWatcher.Run and the program's main loop *)

(* Run takes an event, reload reads the file and compares it.           *)
ReadFile ==
  /\ pc = "wait" /\ events > 0
  /\ events' = events - 1 /\ data' = file
  /\ pc' = IF file \in {NoContent, lastContent} THEN "wait" ELSE "parse"
  /\ UNCHANGED <<fileVars, lastContent, parsed, appVars, configCh>>

(* reloadFn reads the file again.                                       *)
Parse ==
  /\ pc = "parse"
  /\ IF Parseable
     THEN parsed' = file /\ lastContent' = data /\ pc' = "send"
     ELSE UNCHANGED <<parsed, lastContent>> /\ pc' = "wait"
  /\ UNCHANGED <<fileVars, data, appVars, events, configCh>>

(* Mutant: an update that finds the channel full is dropped.            *)
SendOrDrop ==
  /\ pc = "send" /\ pc' = "wait"
  /\ configCh' = IF configCh = <<>> THEN <<parsed>> ELSE configCh
  /\ UNCHANGED <<fileVars, lastContent, data, parsed, appVars, events>>

Send ==
  /\ pc = "send" /\ configCh = <<>>
  /\ configCh' = <<parsed>> /\ pc' = "wait"
  /\ UNCHANGED <<fileVars, lastContent, data, parsed, appVars, events>>

(* Mutant: a refused persona list ends the reload.                      *)
ReloadAbandoned(new) ==
  /\ cfg' = new
  /\ IF new.personas # cfg.personas /\ new.personas \in Invalid
     THEN UNCHANGED <<personaStore, disk>>
     ELSE /\ personaStore' = IF new.personas # cfg.personas THEN new.personas ELSE personaStore
          /\ disk' = IF new.dir # cfg.dir THEN DiskOf(new.dir, disk) ELSE disk

(* Server.Reload compares with the configuration before, not with what  *)
(* is in use.                                                           *)
Reload(new) ==
  /\ cfg' = new
  /\ personaStore' = IF new.personas # cfg.personas /\ new.personas \notin Invalid
                     THEN new.personas ELSE personaStore
  /\ disk' = IF new.dir # cfg.dir THEN DiskOf(new.dir, disk) ELSE disk

Apply ==
  /\ configCh # <<>>
  /\ Reload(Head(configCh)) /\ configCh' = Tail(configCh)
  /\ UNCHANGED <<fileVars, watchVars, events>>

Start == Load \/ Watch \/ ReadBaseline \/ ParseBaseline
Run == ReadFile \/ Parse \/ Send

Next ==
  \/ \E c \in Content : Replace(c) \/ Truncate(c) \/ MoveAway(c)
  \/ FinishSave \/ Touch \/ Start \/ Run \/ Apply

Spec == Init /\ [][Next]_vars

------------------------------------------------------------------------------
AtRest == writing = NoContent /\ events = 0 /\ pc = "wait" /\ configCh = <<>>

(* When no save is under way, no event is in wait, the watcher is at    *)
(* rest and nothing is left to apply, the program has the configuration *)
(* that is in the file, if it can be parsed: events that are merged, a  *)
(* file that is empty or missing in between, broken contents, and the   *)
(* two reads of reload do not leave it with another.                    *)
(* With Repeats, or with Early, they do:                                *)
(* README, "Known divergences".                                         *)
LastSaveApplied == AtRest /\ Parseable => cfg = file

(* After reloads that were applied in part, the personas and the log on *)
(* disk are those of the configuration, except where its own personas   *)
(* are refused or its own directory cannot be created: none of them     *)
(* stays behind because of another part, or of an earlier reload.       *)
PartsFollowConfig ==
  /\ personaStore # cfg.personas => cfg.personas \in Invalid
  /\ disk # cfg.dir => cfg.dir \in Unusable
===============================================================================
