------------------------------ MODULE Watcher ------------------------------
(***************************************************************************)
(* The library watcher (internal/watcher) between its event loops, its     *)
(* debounce timer, the mutations that pause it (core.go's                  *)
(* suppressWatcherResult), the Tools menu that suspends it and the         *)
(* frontend that rescans when it is told of a change.                      *)
(*                                                                         *)
(* Methods and handlers hold w.mu and are one step each; the timer's       *)
(* goroutine is a step of its own, because Stop does not catch a callback  *)
(* that already waits for the lock.                                        *)
(*                                                                         *)
(* Abstracted: a root and the directories below it are watched together;   *)
(* noise files are left out; ignoredUntil is the flag quiet.  Timing       *)
(* assumption: the events of Cratebug's own writes arrive before the quiet *)
(* delay is over, which is what that delay is chosen for.                  *)
(***************************************************************************)
EXTENDS Naturals, Sequences, FiniteSets

CONSTANTS
  Roots,      \* paths the user may select
  Gone,       \* those that do not exist
  NotDirs,    \* those that are files
  NoRoot,     \* the empty root
  Writers,    \* mutations that may run at once
  MaxChanges, \* bound: changes made below a root, by Cratebug or by others
  MaxErrors,  \* bound: failures to make or to close an fsnotify watcher
  MaxMutations, \* bound: mutations begun
  MaxClicks   \* bound: roots selected and Tools menus opened

ASSUME WatcherAssumption ==
  /\ NoRoot \notin Roots /\ Gone \subseteq Roots /\ NotDirs \subseteq Roots /\ Gone \cap NotDirs = {}
  /\ MaxChanges \in Nat /\ MaxErrors \in Nat /\ MaxMutations \in Nat /\ MaxClicks \in Nat

VARIABLES
  root, watched,               \* the selected root; the roots with directory watches
  suspended, paused, quiet, closed,
  generation, timer,           \* w.generation; generation the armed timer is for, 0 if none
  cause,                       \* history: whose events the armed timer stands for
  callbacks,                   \* timers that fired and wait for w.mu: [gen, cause]
  cancelled,                   \* history: generations given up by Pause, Resume, a clear or Close
  queue, stale,                \* events of the current and of replaced fsnotify watchers
  writing,                     \* mutations between Pause and Resume
  uiRoot, emitted, handler, rescan,  \* the frontend: its root, notifications on their way,
                               \* handleFilesystemChange, a reloadLibrary call besides it
  unseen,                      \* an outside change the frontend has not scanned yet
  changes, errors, mutations, clicks     \* counters of the bounds

watchVars == <<root, watched, suspended, paused, quiet, closed>>
timerVars == <<generation, timer, cause, callbacks, cancelled>>
eventVars == <<queue, stale>>
uiVars == <<uiRoot, emitted, handler, rescan, unseen>>
boundVars == <<changes, errors, mutations, clicks>>
vars == <<watchVars, timerVars, eventVars, writing, uiVars, boundVars>>

Origins == {"own", "outside"}
Event == [root : Roots, origin : Origins]

Init ==
  /\ root = NoRoot /\ watched = {} /\ uiRoot = NoRoot
  /\ suspended = FALSE /\ paused = FALSE /\ quiet = FALSE /\ closed = FALSE
  /\ generation = 0 /\ timer = 0 /\ cause = {} /\ callbacks = {} /\ cancelled = {}
  /\ queue = <<>> /\ stale = <<>>
  /\ writing = {}
  /\ emitted = {} /\ handler = "idle" /\ rescan = FALSE /\ unseen = FALSE
  /\ changes = 0 /\ errors = 0 /\ mutations = 0 /\ clicks = 0

-----------------------------------------------------------------------------
(* Every method that gives up a pending notification: bump the generation  *)
(* and stop the timer.  Stop cannot reach a callback that already fired.   *)
StopTimer ==
  /\ generation' = generation + 1
  /\ cancelled' = cancelled \cup {c.gen : c \in callbacks} \cup ({timer} \ {0})
  /\ timer' = 0 /\ cause' = {}
  /\ UNCHANGED callbacks

(* clearWatchesLocked: the fsnotify watcher is replaced, its loop may      *)
(* still deliver what it had.                                              *)
Replace ==
  /\ StopTimer
  /\ IF watched = {} THEN UNCHANGED eventVars
     ELSE queue' = <<>> /\ stale' = stale \o queue
Clear == Replace /\ watched' = {}

ClearFails ==
  /\ watched # {} /\ errors < MaxErrors /\ errors' = errors + 1
  /\ \/ StopTimer /\ UNCHANGED <<watched, eventVars>>   \* no fresh watcher
     \/ Clear                                          \* the old one's Close failed

(* Fault: a new root is watched although the watcher is suspended. *)
SetRootAwake(r) ==
  /\ ~closed /\ r # root
  /\ Replace /\ root' = (IF r \in Gone THEN NoRoot ELSE r)
  /\ watched' = {r} \ (Gone \cup {NoRoot})
  /\ UNCHANGED errors

(* Fault: the empty root is watched like any other. *)
SetRootEmpty(r) ==
  /\ ~closed /\ r # root
  /\ Replace /\ root' = r /\ watched' = (IF suspended THEN {} ELSE {r})
  /\ UNCHANGED errors

(* SetRoot.  Its callers ignore the error. *)
SetRoot(r) ==
  \/ (closed \/ (r = root /\ r # NoRoot)) /\ UNCHANGED <<root, watched, timerVars, eventVars, errors>>
  \/ ~closed /\ r # root /\ ClearFails /\ UNCHANGED root
  \/ /\ ~closed /\ (r # root \/ r = NoRoot)
     /\ Replace
     /\ root' = (CASE r \in Gone \cup {NoRoot} -> NoRoot [] r \in NotDirs -> root [] OTHER -> r)
     /\ watched' = (IF suspended \/ r \in Gone \cup NotDirs \cup {NoRoot} THEN {} ELSE {r})
     /\ UNCHANGED errors

(* SetModRoot with a path the user chose; the frontend scans it next. *)
SelectRoot(r) ==
  /\ clicks < MaxClicks /\ clicks' = clicks + 1
  /\ SetRoot(r)
  /\ uiRoot' = r /\ rescan' = TRUE /\ unseen' = FALSE
  /\ UNCHANGED <<suspended, paused, quiet, closed, writing, emitted, handler, changes, mutations>>

(* SetSuspended: the Tools menu opens, and closes with a rescan. *)
OpenTools ==
  /\ ~closed /\ ~suspended /\ clicks < MaxClicks /\ clicks' = clicks + 1
  /\ \/ Clear /\ suspended' = TRUE /\ UNCHANGED errors
     \/ ClearFails /\ UNCHANGED suspended
  /\ UNCHANGED <<root, paused, quiet, closed, writing, uiVars, changes, mutations>>

CloseTools ==
  /\ ~closed /\ suspended
  /\ suspended' = FALSE /\ quiet' = TRUE /\ rescan' = TRUE
  /\ watched' = {root} \ {NoRoot}
  /\ UNCHANGED <<root, paused, closed, timerVars, eventVars, writing, uiRoot, emitted, handler,
                 unseen, boundVars>>

(* suppressWatcherResult: Pause, the mutation's writes, Resume.  A toggle  *)
(* or a rename patches the frontend's library, a move rescans it.          *)
BeginMutation(w) ==
  /\ w \notin writing /\ mutations < MaxMutations /\ mutations' = mutations + 1
  /\ writing' = writing \cup {w}
  /\ paused' = TRUE /\ StopTimer
  /\ UNCHANGED <<root, watched, suspended, quiet, closed, eventVars, uiVars, changes, errors, clicks>>

(* Fault: Resume without the quiet delay. *)
EndMutationAtOnce(w) ==
  /\ w \in writing
  /\ writing' = writing \ {w}
  /\ paused' = FALSE /\ StopTimer
  /\ UNCHANGED <<root, watched, suspended, quiet, closed, eventVars, uiVars, boundVars>>

EndMutation(w) ==
  /\ w \in writing
  /\ writing' = writing \ {w}
  /\ paused' = FALSE /\ quiet' = TRUE /\ StopTimer
  /\ rescan' \in {rescan, TRUE}
  /\ UNCHANGED <<root, watched, suspended, closed, eventVars, uiRoot, emitted, handler, unseen, boundVars>>

(* shutdown *)
Close ==
  /\ ~closed /\ closed' = TRUE
  /\ StopTimer
  /\ watched' = {} /\ queue' = <<>> /\ stale' = stale \o queue
  /\ UNCHANGED <<root, suspended, paused, quiet, writing, uiVars, boundVars>>

QuietEnds ==
  /\ quiet /\ quiet' = FALSE
  /\ \A i \in DOMAIN queue : queue[i].origin # "own"
  /\ \A i \in DOMAIN stale : stale[i].origin # "own"
  /\ UNCHANGED <<root, watched, suspended, paused, closed, timerVars, eventVars, writing, uiVars, boundVars>>

-----------------------------------------------------------------------------
(* A mod file below the frontend's root changes. *)
Change(origin) ==
  /\ changes < MaxChanges /\ changes' = changes + 1
  /\ origin = "own" => writing # {}
  /\ uiRoot \in Roots \ (Gone \cup NotDirs)
  /\ unseen' = (unseen \/ origin = "outside")
  /\ queue' = (IF uiRoot \in watched THEN Append(queue, [root |-> uiRoot, origin |-> origin])
               ELSE queue)
  /\ UNCHANGED <<watchVars, timerVars, stale, writing, uiRoot, emitted, handler, rescan, errors, mutations, clicks>>

(* Fault: the generation is captured before it is bumped. *)
ScheduleStale(origin) ==
  /\ generation' = generation + 1
  /\ timer' = IF generation = 0 THEN 1 ELSE generation
  /\ cause' = cause \cup {origin}
  /\ UNCHANGED <<callbacks, cancelled>>

(* scheduleDebounceLocked *)
Schedule(origin) ==
  /\ generation' = generation + 1
  /\ timer' = generation + 1
  /\ cause' = cause \cup {origin}
  /\ UNCHANGED <<callbacks, cancelled>>

(* handleEvent, for the head of the current or of a replaced watcher. *)
Handle(e) ==
  IF closed \/ suspended \/ e.root # root \/ paused \/ quiet
  THEN UNCHANGED timerVars ELSE Schedule(e.origin)

HandleEvent ==
  /\ queue # <<>> /\ queue' = Tail(queue) /\ Handle(Head(queue))
  /\ UNCHANGED <<watchVars, stale, writing, uiVars, boundVars>>

HandleStale ==
  /\ stale # <<>> /\ stale' = Tail(stale)
  /\ \/ Handle(Head(stale))
     \/ UNCHANGED timerVars        \* the replaced loop ended before it
  /\ UNCHANGED <<watchVars, queue, writing, uiVars, boundVars>>

TimerFires ==
  /\ timer # 0
  /\ callbacks' = callbacks \cup {[gen |-> timer, cause |-> cause]}
  /\ timer' = 0 /\ cause' = {}
  /\ UNCHANGED <<watchVars, generation, cancelled, eventVars, writing, uiVars, boundVars>>

(* Fault: the generation is not compared. *)
ValidUnlessPaused(c) == ~(closed \/ paused \/ suspended \/ quiet)

(* The timer's function gets the lock: notify or give up. *)
Valid(c) == ~(closed \/ paused \/ suspended \/ quiet) /\ c.gen = generation

Callback(c) ==
  /\ c \in callbacks /\ callbacks' = callbacks \ {c}
  /\ emitted' = (IF Valid(c) THEN emitted \cup {c} ELSE emitted)
  /\ UNCHANGED <<watchVars, generation, timer, cause, cancelled, eventVars, writing,
                 uiRoot, handler, rescan, unseen, boundVars>>

-----------------------------------------------------------------------------
(* The frontend (LibraryScreen.tsx): handleFilesystemChange ignores the    *)
(* event while a mutation or its own last reload is under way.             *)
Notice(c) ==
  /\ c \in emitted /\ emitted' = emitted \ {c}
  /\ handler' = (IF handler = "idle" /\ writing = {} THEN "scan" ELSE handler)
  /\ UNCHANGED <<watchVars, timerVars, eventVars, writing, uiRoot, rescan, unseen, boundVars>>

(* ScanLibrary, which also corrects the watcher's root. *)
Scan ==
  /\ IF root = uiRoot THEN UNCHANGED <<root, watched, timerVars, eventVars, errors>>
     ELSE SetRoot(uiRoot)
  /\ unseen' = FALSE
  /\ \/ handler = "scan" /\ handler' = "offer" /\ UNCHANGED rescan
     \/ rescan /\ rescan' = FALSE /\ UNCHANGED handler
  /\ UNCHANGED <<suspended, paused, quiet, closed, writing, uiRoot, emitted, changes, mutations, clicks>>

(* The companion and encryption offers after the reload are done. *)
HandlerEnds ==
  /\ handler = "offer" /\ handler' = "idle"
  /\ UNCHANGED <<watchVars, timerVars, eventVars, writing, uiRoot, emitted, rescan, unseen, boundVars>>

Next ==
  \/ \E r \in Roots \cup {NoRoot} : SelectRoot(r)
  \/ OpenTools \/ CloseTools \/ Close \/ QuietEnds
  \/ \E w \in Writers : BeginMutation(w) \/ EndMutation(w)
  \/ \E o \in Origins : Change(o)
  \/ HandleEvent \/ HandleStale \/ TimerFires
  \/ \E c \in callbacks : Callback(c)
  \/ \E c \in emitted : Notice(c)
  \/ Scan \/ HandlerEnds

Spec == Init /\ [][Next]_vars

(* Event loops, timers and the frontend's handlers run on; a mutation and  *)
(* the Tools menu end.  Nobody has to change a file or select a root.      *)
Progress ==
  /\ WF_vars(HandleEvent) /\ WF_vars(TimerFires) /\ WF_vars(\E c \in callbacks : Callback(c))
  /\ WF_vars(\E c \in emitted : Notice(c)) /\ WF_vars(Scan) /\ WF_vars(HandlerEnds)
  /\ WF_vars(QuietEnds) /\ WF_vars(CloseTools) /\ \A w \in Writers : WF_vars(EndMutation(w))
FairSpec == Spec /\ Progress

-----------------------------------------------------------------------------
(* Properties.                                                             *)

Timers == [gen : Nat, cause : SUBSET Origins]
TypeOK ==
  /\ root \in Roots \cup {NoRoot} /\ watched \subseteq Roots
  /\ suspended \in BOOLEAN /\ paused \in BOOLEAN /\ quiet \in BOOLEAN /\ closed \in BOOLEAN
  /\ generation \in Nat /\ timer \in Nat /\ cause \subseteq Origins
  /\ callbacks \subseteq Timers /\ cancelled \subseteq Nat
  /\ queue \in Seq(Event) /\ stale \in Seq(Event)
  /\ writing \subseteq Writers
  /\ uiRoot \in Roots \cup {NoRoot} /\ emitted \subseteq Timers
  /\ handler \in {"idle", "scan", "offer"} /\ rescan \in BOOLEAN /\ unseen \in BOOLEAN
  /\ changes \in Nat /\ errors \in Nat /\ mutations \in Nat /\ clicks \in Nat

(* The selected root is the one that is watched, and a suspended or closed *)
(* watcher holds no directory: through every order of root changes and     *)
(* suspensions, as long as fsnotify fails none of them.                    *)
RootWatched ==
  errors = 0 => watched = IF suspended \/ closed THEN {} ELSE {root} \ {NoRoot}

(* A notification given up by Pause, Resume, a root change, a suspension   *)
(* or Close is never sent, even if its timer had fired already: that is    *)
(* what the generation is for.  (One that has passed its check before is   *)
(* on its way.)                                                            *)
CancelledStaysSilent ==
  [][\A c \in emitted' \ emitted : c.gen \notin cancelled]_vars

(* "Cratebug's own writes do not come back as external changes" (core.go). *)
OwnWritesSilent == \A c \in emitted : c.cause # {"own"}

(* A change below the root is announced once the burst of changes ends,    *)
(* unless a mutation or the user gives the watcher another turn.           *)
Interrupted == mutations > 0 \/ clicks > 1 \/ closed
ChangesAnnounced == queue # <<>> ~> (emitted # {} \/ Interrupted)
=============================================================================
