---------------------------- MODULE LibraryProofs ---------------------------
(***************************************************************************)
(* Proofs about the two components that follow the library on disk.        *)
(*                                                                         *)
(* Watcher, for any roots, mutations and numbers of changes: type          *)
(* correctness, the generation guard, that the selected root is the        *)
(* watched one as long as no SetRoot or SetSuspended fails, and that       *)
(* mutations that do not overlap are not announced.                        *)
(*                                                                         *)
(* Organize, for any folders, mods, names, tags and numbers of calls: type *)
(* correctness, that every assigned tag is known, that the result of a     *)
(* folder call is what happened, and that records follow their mods.  They *)
(* rest on what a change of one folder does to the tree of folders and to  *)
(* the paths in it, which the second part proves first.                    *)
(***************************************************************************)
EXTENDS Watcher, Organize, SequenceTheorems, TLAPS

(* Watcher. *)
LEMMA InitType == Init => TypeOK
<1> SUFFICES ASSUME Init PROVE TypeOK
  OBVIOUS
<1>1. /\ suspended \in BOOLEAN /\ paused \in BOOLEAN /\ quiet \in BOOLEAN /\ closed \in BOOLEAN
      /\ rescan \in BOOLEAN /\ unseen \in BOOLEAN
  BY DEF Init
<1>2. queue \in Seq(Event) /\ stale \in Seq(Event)
  BY DEF Init
<1> QED BY <1>1, <1>2 DEF Init, TypeOK, Timers

(* What giving up the timer, replacing the event loops, scheduling and     *)
(* SetRoot do to the types of the timer and of the events.                 *)
TimerType == /\ generation \in Nat /\ timer \in Nat /\ cause \subseteq Origins
             /\ callbacks \subseteq Timers /\ cancelled \subseteq Nat
EventType == queue \in Seq(Event) /\ stale \in Seq(Event)

LEMMA TypeParts == TypeOK => TimerType /\ EventType /\ watched \subseteq Roots /\ errors \in Nat
BY DEF TypeOK, TimerType, EventType

LEMMA StopTimerType ==
  ASSUME TypeOK, StopTimer
  PROVE  TimerType'
<1>1. generation + 1 \in Nat /\ {timer} \ {0} \subseteq Nat /\ cancelled \subseteq Nat
  BY TypeParts DEF TimerType
<1>2. {c.gen : c \in callbacks} \subseteq Nat
  BY TypeParts DEF TimerType, Timers
<1>3. callbacks' \subseteq Timers
  BY TypeParts DEF TimerType, StopTimer
<1> QED BY <1>1, <1>2, <1>3 DEF StopTimer, TimerType

LEMMA ReplaceType ==
  ASSUME TypeOK, Replace
  PROVE  TimerType' /\ EventType'
<1>1. queue \in Seq(Event) /\ stale \in Seq(Event)
  BY TypeParts DEF EventType
<1>2. <<>> \in Seq(Event) /\ stale \o queue \in Seq(Event)
  BY <1>1
<1>3. EventType'
  BY <1>1, <1>2 DEF Replace, eventVars, EventType
<1> QED BY <1>3, StopTimerType DEF Replace

LEMMA ClearFailsType ==
  ASSUME TypeOK, ClearFails
  PROVE  watched' \subseteq Roots /\ TimerType' /\ EventType' /\ errors' \in Nat
<1>1. errors' \in Nat
  BY TypeParts DEF ClearFails
<1>2. CASE StopTimer /\ UNCHANGED <<watched, eventVars>>
  <2>1. watched' \subseteq Roots /\ EventType'
    BY <1>2, TypeParts DEF EventType, eventVars
  <2> QED BY <1>1, <1>2, <2>1, StopTimerType
<1>3. CASE Clear
  BY <1>1, <1>3, ReplaceType DEF Clear
<1> QED BY <1>2, <1>3 DEF ClearFails

LEMMA SetRootType ==
  ASSUME TypeOK, NEW r \in Roots \cup {NoRoot}, SetRoot(r)
  PROVE  /\ root' \in Roots \cup {NoRoot} /\ watched' \subseteq Roots
         /\ TimerType' /\ EventType' /\ errors' \in Nat
<1>1. root \in Roots \cup {NoRoot}
  BY DEF TypeOK
<1>2. CASE UNCHANGED <<root, watched, timerVars, eventVars, errors>>
  BY <1>1, <1>2, TypeParts DEF TimerType, EventType, timerVars, eventVars
<1>3. CASE ClearFails /\ UNCHANGED root
  BY <1>1, <1>3, ClearFailsType
<1>4. CASE /\ Replace
           /\ root' = (CASE r \in Gone \cup {NoRoot} -> NoRoot [] r \in NotDirs -> root [] OTHER -> r)
           /\ watched' = (IF suspended \/ r \in Gone \cup NotDirs \cup {NoRoot} THEN {} ELSE {r})
           /\ UNCHANGED errors
  <2>1. root' \in Roots \cup {NoRoot} /\ watched' \subseteq Roots
    BY <1>1, <1>4
  <2>2. errors' \in Nat
    BY <1>4, TypeParts
  <2> QED BY <1>4, <2>1, <2>2, ReplaceType
<1> QED BY <1>2, <1>3, <1>4 DEF SetRoot

LEMMA NextType == TypeOK /\ [Next]_vars => TypeOK'
<1> SUFFICES ASSUME TypeOK, [Next]_vars PROVE TypeOK'
  OBVIOUS
<1> USE DEF watchVars, timerVars, eventVars, uiVars, boundVars
<1>1. ASSUME NEW r \in Roots \cup {NoRoot}, SelectRoot(r) PROVE TypeOK'
  <2>1. SetRoot(r)
    BY <1>1 DEF SelectRoot
  <2>2. rescan' \in BOOLEAN /\ unseen' \in BOOLEAN
    BY <1>1 DEF SelectRoot
  <2> QED BY <1>1, <2>1, <2>2, SetRootType DEF SelectRoot, TypeOK, TimerType, EventType
<1>2. ASSUME OpenTools PROVE TypeOK'
  <2>1. suspended' \in BOOLEAN
    BY <1>2 DEF OpenTools, TypeOK
  <2>2. watched' \subseteq Roots /\ TimerType' /\ EventType' /\ errors' \in Nat
    <3>1. CASE Clear /\ UNCHANGED errors
      BY <3>1, TypeParts, ReplaceType DEF Clear
    <3>2. CASE ClearFails
      BY <3>2, ClearFailsType
    <3> QED BY <1>2, <3>1, <3>2 DEF OpenTools
  <2> QED BY <1>2, <2>1, <2>2 DEF OpenTools, TypeOK, TimerType, EventType
<1>3. ASSUME CloseTools PROVE TypeOK'
  BY <1>3 DEF CloseTools, TypeOK
<1>4. ASSUME Close PROVE TypeOK'
  <2>1. queue' \in Seq(Event) /\ stale' \in Seq(Event)
    BY <1>4 DEF Close, TypeOK
  <2> QED BY <1>4, <2>1, StopTimerType DEF Close, TypeOK, TimerType
<1>5. ASSUME QuietEnds PROVE TypeOK'
  BY <1>5 DEF QuietEnds, TypeOK
<1>6. ASSUME NEW w \in Writers, BeginMutation(w) PROVE TypeOK'
  BY <1>6, StopTimerType DEF BeginMutation, TypeOK, TimerType
<1>7. ASSUME NEW w \in Writers, EndMutation(w) PROVE TypeOK'
  BY <1>7, StopTimerType DEF EndMutation, TypeOK, TimerType
<1>8. ASSUME NEW o \in Origins, Change(o) PROVE TypeOK'
  <2>1. queue' \in Seq(Event)
    <3>1. CASE uiRoot \in watched
      <4>1. [root |-> uiRoot, origin |-> o] \in Event
        BY <1>8 DEF Change, Event
      <4> QED BY <1>8, <3>1, <4>1 DEF Change, TypeOK
    <3>2. CASE uiRoot \notin watched
      BY <1>8, <3>2 DEF Change, TypeOK
    <3> QED BY <3>1, <3>2
  <2>2. unseen' \in BOOLEAN
    BY <1>8 DEF Change, TypeOK
  <2> QED BY <1>8, <2>1, <2>2 DEF Change, TypeOK
<1>9. ASSUME NEW e \in Event, Handle(e)
      PROVE  /\ generation' \in Nat /\ timer' \in Nat /\ cause' \subseteq Origins
             /\ callbacks' \subseteq Timers /\ cancelled' \subseteq Nat
  <2>1. CASE UNCHANGED timerVars
    BY <2>1 DEF TypeOK
  <2>2. CASE Schedule(e.origin)
    <3>1. e.origin \in Origins
      BY DEF Event
    <3> QED BY <2>2, <3>1 DEF Schedule, TypeOK
  <2> QED BY <1>9, <2>1, <2>2 DEF Handle
<1>10. ASSUME HandleEvent PROVE TypeOK'
  <2>1. Head(queue) \in Event /\ queue' \in Seq(Event)
    BY <1>10 DEF HandleEvent, TypeOK
  <2> QED BY <1>9, <1>10, <2>1 DEF HandleEvent, TypeOK
<1>11. ASSUME HandleStale PROVE TypeOK'
  <2>1. Head(stale) \in Event /\ stale' \in Seq(Event)
    BY <1>11 DEF HandleStale, TypeOK
  <2> QED BY <1>9, <1>11, <2>1 DEF HandleStale, TypeOK
<1>12. ASSUME TimerFires PROVE TypeOK'
  BY <1>12 DEF TimerFires, TypeOK, Timers
<1>13. ASSUME NEW c \in callbacks, Callback(c) PROVE TypeOK'
  BY <1>13 DEF Callback, TypeOK
<1>14. ASSUME NEW c \in emitted, Notice(c) PROVE TypeOK'
  BY <1>14 DEF Notice, TypeOK
<1>15. ASSUME Scan PROVE TypeOK'
  <2>1. CASE root = uiRoot
    BY <1>15, <2>1 DEF Scan, TypeOK
  <2>2. CASE root # uiRoot
    <3>1. SetRoot(uiRoot) /\ uiRoot \in Roots \cup {NoRoot}
      BY <1>15, <2>2 DEF Scan, TypeOK
    <3> QED BY <1>15, <2>2, <3>1, SetRootType DEF Scan, TypeOK, TimerType, EventType
  <2> QED BY <2>1, <2>2
<1>16. ASSUME HandlerEnds PROVE TypeOK'
  BY <1>16 DEF HandlerEnds, TypeOK
<1>17. CASE UNCHANGED vars
  BY <1>17 DEF vars, TypeOK
<1> QED
  BY <1>1, <1>2, <1>3, <1>4, <1>5, <1>6, <1>7, <1>8, <1>10, <1>11, <1>12, <1>13, <1>14, <1>15,
     <1>16, <1>17 DEF Next

(* The watcher's fields, events and timers are well formed, whatever the   *)
(* order of calls, events and errors.                                      *)
THEOREM WatcherTypeCorrect == Spec => []TypeOK
BY InitType, NextType, PTL DEF Spec

-----------------------------------------------------------------------------
(* The generation guard: every generation given up lies in the past, and   *)
(* no timer is ahead of the generation.                                    *)
GenerationOK ==
  /\ timer <= generation
  /\ \A c \in callbacks : c.gen <= generation
  /\ \A g \in cancelled : g < generation
GuardInv == TypeOK /\ GenerationOK

(* The two ways the timer fields change besides firing. *)
LEMMA StopTimerGuard ==
  ASSUME GuardInv, StopTimer
  PROVE  GenerationOK'
<1>1. generation \in Nat /\ timer \in Nat /\ callbacks' = callbacks /\ generation' = generation + 1 /\ timer' = 0
  BY DEF GuardInv, TypeOK, StopTimer
<1>2. \A c \in callbacks : c.gen \in Nat /\ c.gen < generation'
  BY <1>1 DEF GuardInv, GenerationOK, TypeOK, Timers
<1>3. ASSUME NEW g \in cancelled' PROVE g < generation'
  <2>1. CASE g \in cancelled
    BY <1>1, <2>1 DEF GuardInv, GenerationOK, TypeOK
  <2>2. CASE g \in {c.gen : c \in callbacks}
    BY <1>2, <2>2
  <2>3. CASE g \in {timer} \ {0}
    BY <1>1, <2>3 DEF GuardInv, GenerationOK
  <2> QED BY <1>3, <2>1, <2>2, <2>3 DEF StopTimer
<1>4. timer' <= generation' /\ \A c \in callbacks' : c.gen <= generation'
  BY <1>1, <1>2
<1> QED BY <1>3, <1>4 DEF GenerationOK

LEMMA HandleGuard ==
  ASSUME GuardInv, NEW e, Handle(e)
  PROVE  GenerationOK'
<1>1. CASE UNCHANGED timerVars
  BY <1>1 DEF GuardInv, GenerationOK, timerVars
<1>2. CASE Schedule(e.origin)
  <2>1. generation \in Nat /\ \A c \in callbacks : c.gen \in Nat
    BY DEF GuardInv, TypeOK, Timers
  <2>2. \A g \in cancelled : g \in Nat
    BY DEF GuardInv, TypeOK
  <2> QED BY <1>2, <2>1, <2>2 DEF Schedule, GuardInv, GenerationOK
<1> QED BY <1>1, <1>2 DEF Handle

LEMMA GuardNext == GuardInv /\ [Next]_vars => GenerationOK'
<1> SUFFICES ASSUME GuardInv, [Next]_vars PROVE GenerationOK'
  OBVIOUS
<1>1. CASE StopTimer
  BY <1>1, StopTimerGuard
<1>2. CASE UNCHANGED <<generation, timer, callbacks, cancelled>>
  BY <1>2 DEF GuardInv, GenerationOK
<1>3. ASSUME NEW r, SetRoot(r) PROVE GenerationOK'
  BY <1>1, <1>2, <1>3 DEF SetRoot, ClearFails, Clear, Replace, timerVars
<1>4. ASSUME NEW r \in Roots \cup {NoRoot}, SelectRoot(r) PROVE GenerationOK'
  BY <1>3, <1>4 DEF SelectRoot
<1>5. ASSUME Scan PROVE GenerationOK'
  BY <1>2, <1>3, <1>5 DEF Scan, timerVars
<1>6. ASSUME OpenTools PROVE GenerationOK'
  BY <1>1, <1>6 DEF OpenTools, ClearFails, Clear, Replace
<1>7. ASSUME \/ Close \/ \E w \in Writers : BeginMutation(w) \/ EndMutation(w) PROVE GenerationOK'
  BY <1>1, <1>7 DEF Close, BeginMutation, EndMutation
<1>8. ASSUME HandleEvent \/ HandleStale PROVE GenerationOK'
  <2>1. CASE UNCHANGED timerVars
    BY <1>2, <2>1 DEF timerVars
  <2> QED BY <1>8, <2>1, HandleGuard DEF HandleEvent, HandleStale
<1>9. ASSUME TimerFires PROVE GenerationOK'
  BY <1>9 DEF TimerFires, GuardInv, GenerationOK, TypeOK
<1>10. ASSUME NEW c \in callbacks, Callback(c) PROVE GenerationOK'
  BY <1>10 DEF Callback, GuardInv, GenerationOK
<1>11. ASSUME \/ CloseTools \/ QuietEnds \/ HandlerEnds \/ \E o \in Origins : Change(o)
              \/ \E c \in emitted : Notice(c)
       PROVE GenerationOK'
  BY <1>2, <1>11 DEF CloseTools, QuietEnds, HandlerEnds, Change, Notice, timerVars
<1>12. CASE UNCHANGED vars
  BY <1>2, <1>12 DEF vars, timerVars
<1> QED
  BY <1>4, <1>5, <1>6, <1>7, <1>8, <1>9, <1>10, <1>11, <1>12 DEF Next

(* A notification given up is never sent: a callback that Stop missed      *)
(* finds another generation when it gets the lock (scheduleDebounceLocked).*)
THEOREM CancelledIsSilent == Spec => CancelledStaysSilent
<1>1. Init => GuardInv
  <2>1. Init => GenerationOK
    BY DEF Init, GenerationOK
  <2> QED BY <2>1, InitType DEF GuardInv
<1>2. GuardInv /\ [Next]_vars => GuardInv'
  BY NextType, GuardNext DEF GuardInv
<1>3. GuardInv /\ [Next]_vars => [\A c \in emitted' \ emitted : c.gen \notin cancelled]_vars
  <2> SUFFICES ASSUME GuardInv, Next, NEW c \in emitted' \ emitted PROVE c.gen \notin cancelled
    BY DEF vars, uiVars
  <2>1. PICK d \in callbacks : Callback(d)
    BY DEF Next, SelectRoot, OpenTools, CloseTools, Close, QuietEnds, BeginMutation, EndMutation, Change,
           HandleEvent, HandleStale, TimerFires, Notice, Scan, HandlerEnds, uiVars
  <2>2. c = d /\ c.gen = generation
    BY <2>1 DEF Callback, Valid
  <2> QED BY <2>2 DEF GuardInv, GenerationOK, TypeOK
<1> QED BY <1>1, <1>2, <1>3, PTL DEF Spec, CancelledStaysSilent

-----------------------------------------------------------------------------
(* SetRoot and SetSuspended fail when fsnotify does and when the new root  *)
(* is a file.                                                              *)
LEMMA WatchedNext == NotDirs = {} /\ TypeOK /\ RootWatched /\ [Next]_vars => RootWatched'
<1> SUFFICES ASSUME NotDirs = {}, TypeOK, RootWatched, [Next]_vars, errors' = 0 PROVE RootWatched'
  BY DEF RootWatched
<1> DEFINE Same == UNCHANGED <<root, watched, suspended, closed, errors>>
<1>1. CASE Same
  BY <1>1 DEF RootWatched
<1>2. ~ClearFails
  BY DEF ClearFails, TypeOK
<1>3. ASSUME NEW r \in Roots \cup {NoRoot}, SetRoot(r), UNCHANGED <<suspended, closed>>
      PROVE RootWatched'
  <2>1. CASE UNCHANGED <<root, watched, errors>>
    BY <1>1, <1>3, <2>1
  <2>2. CASE /\ ~closed /\ UNCHANGED errors
             /\ root' = (CASE r \in Gone \cup {NoRoot} -> NoRoot [] r \in NotDirs -> root [] OTHER -> r)
             /\ watched' = (IF suspended \/ r \in Gone \cup NotDirs \cup {NoRoot} THEN {} ELSE {r})
    <3>1. CASE r \in Gone \cup {NoRoot}
      <4>1. root' = NoRoot /\ watched' = {}
        BY <2>2, <3>1
      <4> QED BY <1>3, <2>2, <4>1 DEF RootWatched
    <3>2. CASE r \notin Gone \cup {NoRoot}
      <4>1. root' = r /\ watched' = (IF suspended THEN {} ELSE {r})
        BY <2>2, <3>2
      <4> QED BY <1>3, <2>2, <3>2, <4>1 DEF RootWatched
    <3> QED BY <3>1, <3>2
  <2> QED BY <1>2, <1>3, <2>1, <2>2 DEF SetRoot
<1>4. ASSUME NEW r \in Roots \cup {NoRoot}, SelectRoot(r) PROVE RootWatched'
  BY <1>3, <1>4 DEF SelectRoot
<1>5. ASSUME Scan PROVE RootWatched'
  <2>1. CASE root = uiRoot
    BY <1>1, <1>5, <2>1 DEF Scan
  <2>2. CASE root # uiRoot
    BY <1>3, <1>5, <2>2 DEF Scan, TypeOK
  <2> QED BY <2>1, <2>2
<1>6. ASSUME OpenTools PROVE RootWatched'
  BY <1>2, <1>6 DEF OpenTools, Clear, RootWatched
<1>7. ASSUME CloseTools PROVE RootWatched'
  BY <1>7 DEF CloseTools, RootWatched, boundVars
<1>8. ASSUME Close PROVE RootWatched'
  BY <1>8 DEF Close, RootWatched, boundVars
<1>9. ASSUME \/ QuietEnds \/ HandlerEnds \/ HandleEvent \/ HandleStale \/ TimerFires
             \/ \E o \in Origins : Change(o)
             \/ \E w \in Writers : BeginMutation(w) \/ EndMutation(w)
             \/ \E c \in callbacks : Callback(c)
             \/ \E c \in emitted : Notice(c)
      PROVE RootWatched'
  BY <1>1, <1>9 DEF QuietEnds, HandlerEnds, HandleEvent, HandleStale, TimerFires, Change, BeginMutation,
                    EndMutation, Callback, Notice, watchVars, boundVars
<1>10. CASE UNCHANGED vars
  BY <1>1, <1>10 DEF vars, watchVars, boundVars
<1> QED BY <1>4, <1>5, <1>6, <1>7, <1>8, <1>9, <1>10 DEF Next

(* If every root the user selects is a directory or does not exist, then,  *)
(* as long as fsnotify does not fail, the selected root is exactly what is *)
(* watched, and nothing is while the Tools menu is open or after Close,    *)
(* through any order of root changes, rescans, suspensions and mutations.  *)
THEOREM RootIsWatched == NotDirs = {} => (Spec => []RootWatched)
<1>1. ASSUME NotDirs = {} PROVE Spec => []RootWatched
  <2>1. Init => TypeOK /\ RootWatched
    BY InitType DEF Init, RootWatched
  <2>2. TypeOK /\ RootWatched /\ [Next]_vars => TypeOK' /\ RootWatched'
    BY <1>1, NextType, WatchedNext
  <2> QED BY <2>1, <2>2, PTL DEF Spec
<1> QED BY <1>1

-----------------------------------------------------------------------------
(* Mutations one at a time: their events are pending only in the pause and *)
(* the quiet delay, so no timer stands for one.                            *)
Own(events) == \E i \in DOMAIN events : events[i].origin = "own"
PausedWhileWriting == writing # {} => paused
OwnHeld == Own(queue) \/ Own(stale) => paused \/ quiet
NoOwnTimer == "own" \notin cause /\ \A c \in callbacks \cup emitted : "own" \notin c.cause
SilentInv == TypeOK /\ PausedWhileWriting /\ OwnHeld /\ NoOwnTimer

LEMMA OwnTail == ASSUME NEW s \in Seq(Event), s # <<>>, Own(Tail(s)) PROVE Own(s)
<1>1. PICK i \in DOMAIN Tail(s) : Tail(s)[i].origin = "own"
  BY DEF Own
<1>2. i + 1 \in DOMAIN s /\ s[i + 1] = Tail(s)[i]
  BY <1>1
<1> QED BY <1>1, <1>2 DEF Own

LEMMA OwnConcat ==
  ASSUME NEW s \in Seq(Event), NEW t \in Seq(Event), Own(s \o t) PROVE Own(s) \/ Own(t)
<1>1. PICK i \in DOMAIN (s \o t) : (s \o t)[i].origin = "own"
  BY DEF Own
<1>2. CASE i <= Len(s)
  BY <1>1, <1>2 DEF Own
<1>3. CASE i > Len(s)
  <2>1. i - Len(s) \in DOMAIN t /\ t[i - Len(s)] = (s \o t)[i]
    BY <1>1, <1>3
  <2> QED BY <1>1, <2>1 DEF Own
<1> QED BY <1>1, <1>2, <1>3

LEMMA OwnAppend ==
  ASSUME NEW s \in Seq(Event), NEW e, Own(Append(s, e)) PROVE Own(s) \/ e.origin = "own"
BY DEF Own

(* Giving up the timer and replacing the event loops bring no event. *)
LEMMA StopTimerSilent == ASSUME NoOwnTimer, StopTimer, UNCHANGED emitted PROVE NoOwnTimer'
BY DEF NoOwnTimer, StopTimer

LEMMA ReplaceSilent ==
  ASSUME TypeOK, Own(queue') \/ Own(stale'),
         UNCHANGED eventVars \/ (queue' = <<>> /\ stale' = stale \o queue)
  PROVE  Own(queue) \/ Own(stale)
<1>1. CASE UNCHANGED eventVars
  BY <1>1 DEF eventVars
<1>2. CASE queue' = <<>> /\ stale' = stale \o queue
  <2>1. ~Own(queue')
    BY <1>2 DEF Own
  <2> QED BY <1>2, <2>1, OwnConcat DEF TypeOK
<1> QED BY <1>1, <1>2

LEMMA HandleSilent ==
  ASSUME NoOwnTimer, NEW e, e.origin = "own" => paused \/ quiet, Handle(e), UNCHANGED emitted
  PROVE  NoOwnTimer'
BY DEF Handle, Schedule, NoOwnTimer, timerVars

LEMMA SilentNext ==
  (\A v, w \in Writers : v = w) /\ SilentInv /\ [Next]_vars => SilentInv'
<1> SUFFICES ASSUME \A v, w \in Writers : v = w, SilentInv, [Next]_vars PROVE SilentInv'
  OBVIOUS
<1> USE DEF eventVars
<1>1. TypeOK /\ TypeOK' /\ PausedWhileWriting /\ OwnHeld /\ NoOwnTimer
  BY NextType DEF SilentInv
<1>2. ASSUME StopTimer, UNCHANGED emitted, paused \/ quiet => paused' \/ quiet',
             \/ UNCHANGED eventVars
             \/ queue' = <<>> /\ stale' = stale \o queue
      PROVE  OwnHeld' /\ NoOwnTimer'
  BY <1>1, <1>2, StopTimerSilent, ReplaceSilent DEF OwnHeld
<1>3. ASSUME NEW r, SetRoot(r), UNCHANGED <<paused, quiet, writing, emitted>> PROVE SilentInv'
  <2>1. CASE UNCHANGED <<timerVars, eventVars>>
    BY <1>1, <1>3, <2>1 DEF SilentInv, PausedWhileWriting, OwnHeld, NoOwnTimer, timerVars
  <2>2. CASE StopTimer /\ \/ UNCHANGED eventVars
                          \/ queue' = <<>> /\ stale' = stale \o queue
    BY <1>1, <1>2, <1>3, <2>2 DEF SilentInv, PausedWhileWriting
  <2> QED BY <1>3, <2>1, <2>2 DEF SetRoot, ClearFails, Clear, Replace
<1>4. ASSUME NEW r \in Roots \cup {NoRoot}, SelectRoot(r) PROVE SilentInv'
  BY <1>3, <1>4 DEF SelectRoot
<1>5. ASSUME Scan PROVE SilentInv'
  <2>1. CASE root = uiRoot
    BY <1>1, <1>5, <2>1 DEF Scan, SilentInv, PausedWhileWriting, OwnHeld, NoOwnTimer, timerVars
  <2> QED BY <1>3, <1>5, <2>1 DEF Scan
<1>6. ASSUME OpenTools PROVE SilentInv'
  <2>1. StopTimer /\ UNCHANGED <<paused, quiet, writing, emitted>>
    BY <1>6 DEF OpenTools, Clear, ClearFails, Replace, uiVars
  <2>2. \/ UNCHANGED eventVars
        \/ queue' = <<>> /\ stale' = stale \o queue
    BY <1>6 DEF OpenTools, Clear, ClearFails, Replace
  <2> QED BY <1>1, <1>2, <2>1, <2>2 DEF SilentInv, PausedWhileWriting
<1>7. ASSUME Close PROVE SilentInv'
  BY <1>1, <1>2, <1>7 DEF Close, uiVars, SilentInv, PausedWhileWriting
<1>8. ASSUME NEW w \in Writers, BeginMutation(w) PROVE SilentInv'
  BY <1>1, <1>2, <1>8 DEF BeginMutation, uiVars, SilentInv, PausedWhileWriting
<1>9. ASSUME NEW w \in Writers, EndMutation(w) PROVE SilentInv'
  <2>1. writing' = {}
    BY <1>1, <1>9 DEF EndMutation, TypeOK
  <2> QED BY <1>1, <1>2, <1>9, <2>1 DEF EndMutation, SilentInv, PausedWhileWriting
<1>10. ASSUME NEW o \in Origins, Change(o) PROVE SilentInv'
  <2>1. UNCHANGED <<paused, quiet, writing, stale, timerVars, emitted>>
    BY <1>10 DEF Change, watchVars
  <2>2. Own(queue') => Own(queue) \/ paused
    <3>1. CASE queue' = queue
      BY <3>1
    <3>2. CASE queue' = Append(queue, [root |-> uiRoot, origin |-> o])
      BY <1>1, <1>10, <3>2, OwnAppend DEF Change, PausedWhileWriting, TypeOK
    <3> QED BY <1>10, <3>1, <3>2 DEF Change
  <2> QED BY <1>1, <2>1, <2>2 DEF SilentInv, PausedWhileWriting, OwnHeld, NoOwnTimer, timerVars
<1>11. ASSUME QuietEnds PROVE SilentInv'
  <2>1. ~Own(queue) /\ ~Own(stale) /\ UNCHANGED <<paused, writing, eventVars, timerVars, emitted>>
    BY <1>11 DEF QuietEnds, Own, uiVars
  <2> QED BY <1>1, <2>1 DEF SilentInv, PausedWhileWriting, OwnHeld, NoOwnTimer, timerVars
<1>12. ASSUME HandleEvent PROVE SilentInv'
  <2>1. UNCHANGED <<paused, quiet, writing, emitted, stale>> /\ queue # <<>> /\ queue' = Tail(queue)
    BY <1>12 DEF HandleEvent, watchVars, uiVars
  <2>2. Head(queue).origin = "own" => Own(queue)
    BY <1>1, <2>1 DEF Own, TypeOK
  <2>3. NoOwnTimer'
    BY <1>1, <1>12, <2>1, <2>2, HandleSilent DEF HandleEvent, OwnHeld
  <2>4. OwnHeld'
    BY <1>1, <2>1, OwnTail DEF OwnHeld, TypeOK
  <2> QED BY <1>1, <2>1, <2>3, <2>4 DEF SilentInv, PausedWhileWriting
<1>13. ASSUME HandleStale PROVE SilentInv'
  <2>1. UNCHANGED <<paused, quiet, writing, emitted, queue>> /\ stale # <<>> /\ stale' = Tail(stale)
    BY <1>13 DEF HandleStale, watchVars, uiVars
  <2>2. Head(stale).origin = "own" => Own(stale)
    BY <1>1, <2>1 DEF Own, TypeOK
  <2>3. NoOwnTimer'
    <3>1. CASE UNCHANGED timerVars
      BY <1>1, <2>1, <3>1 DEF NoOwnTimer, timerVars
    <3>2. CASE Handle(Head(stale))
      BY <1>1, <2>1, <2>2, <3>2, HandleSilent DEF OwnHeld
    <3> QED BY <1>13, <3>1, <3>2 DEF HandleStale
  <2>4. OwnHeld'
    BY <1>1, <2>1, OwnTail DEF OwnHeld, TypeOK
  <2> QED BY <1>1, <2>1, <2>3, <2>4 DEF SilentInv, PausedWhileWriting
<1>14. ASSUME TimerFires \/ (\E c \in callbacks : Callback(c)) \/ (\E c \in emitted : Notice(c))
       PROVE SilentInv'
  <2>1. UNCHANGED <<paused, quiet, writing, eventVars>>
    BY <1>14 DEF TimerFires, Callback, Notice, watchVars
  <2>2. NoOwnTimer'
    BY <1>1, <1>14 DEF TimerFires, Callback, Notice, NoOwnTimer, timerVars, uiVars
  <2> QED BY <1>1, <2>1, <2>2 DEF SilentInv, PausedWhileWriting, OwnHeld
<1>15. ASSUME CloseTools \/ HandlerEnds \/ UNCHANGED vars PROVE SilentInv'
  <2>1. /\ UNCHANGED <<paused, writing, eventVars, timerVars, emitted>>
        /\ quiet => quiet'
    BY <1>15 DEF CloseTools, HandlerEnds, vars, watchVars, uiVars
  <2> QED BY <1>1, <2>1 DEF SilentInv, PausedWhileWriting, OwnHeld, NoOwnTimer, timerVars
<1> QED BY <1>4, <1>5, <1>6, <1>7, <1>8, <1>9, <1>10, <1>11, <1>12, <1>13, <1>14, <1>15 DEF Next

(* As long as mutations do not overlap, Cratebug's own writes never come   *)
(* back as external changes (suppressWatcherResult's pause, then the quiet *)
(* delay), whatever roots are selected and whatever loops are replaced.    *)
THEOREM OwnWritesAreSilent == (\A v, w \in Writers : v = w) => (Spec => []OwnWritesSilent)
<1>1. ASSUME \A v, w \in Writers : v = w PROVE Spec => []OwnWritesSilent
  <2>1. Init => SilentInv
    BY InitType DEF Init, SilentInv, PausedWhileWriting, OwnHeld, NoOwnTimer, Own
  <2>2. SilentInv /\ [Next]_vars => SilentInv'
    BY <1>1, SilentNext
  <2>3. SilentInv => OwnWritesSilent
    BY DEF SilentInv, NoOwnTimer, OwnWritesSilent
  <2> QED BY <2>1, <2>2, <2>3, PTL DEF Spec
<1> QED BY <1>1

-----------------------------------------------------------------------------
(* Organize: sequences, and the tree of folders.                           *)

(* Prefixes of paths. *)
LEMMA PrefixIs ==
  ASSUME NEW A, NEW s \in Seq(A), NEW t \in Seq(A)
  PROVE  IsPrefix(s, t) <=> Len(s) <= Len(t) /\ \A i \in 1 .. Len(s) : s[i] = t[i]
<1>1. Len(s) \in Nat /\ Len(t) \in Nat
  OBVIOUS
<1>2. CASE Len(s) <= Len(t)
  <2>1. SubSeq(s, 1, Len(s)) = [i \in 1 .. Len(s) |-> s[i]] /\ SubSeq(t, 1, Len(s)) = [i \in 1 .. Len(s) |-> t[i]]
    BY <1>1, <1>2
  <2> QED BY <1>2, <2>1 DEF IsPrefix
<1>3. CASE ~ (Len(s) <= Len(t))
  BY <1>3 DEF IsPrefix
<1> QED BY <1>2, <1>3

LEMMA PrefixAppend ==
  ASSUME NEW A, NEW s \in Seq(A), NEW t \in Seq(A), NEW x \in A
  PROVE  IsPrefix(s, Append(t, x)) <=> IsPrefix(s, t) \/ s = Append(t, x)
<1> DEFINE u == Append(t, x)
<1>1. u \in Seq(A) /\ Len(u) = Len(t) + 1 /\ Len(s) \in Nat /\ Len(t) \in Nat
  OBVIOUS
<1>2. (\A i \in 1 .. Len(t) : u[i] = t[i])
  OBVIOUS
<1>3. IsPrefix(s, t) <=> Len(s) <= Len(t) /\ \A i \in 1 .. Len(s) : s[i] = t[i]
  BY PrefixIs
<1>a. \A v \in Seq(A) : IsPrefix(s, v) <=> Len(s) <= Len(v) /\ \A i \in 1 .. Len(s) : s[i] = v[i]
  BY PrefixIs
<1>4. IsPrefix(s, u) <=> Len(s) <= Len(u) /\ \A i \in 1 .. Len(s) : s[i] = u[i]
  <2> HIDE DEF u
  <2> QED BY <1>1, <1>a
<1> SUFFICES IsPrefix(s, u) <=> IsPrefix(s, t) \/ s = u
  OBVIOUS
<1> HIDE DEF u
<1>5. CASE Len(s) <= Len(t)
  <2>1. \A i \in 1 .. Len(s) : u[i] = t[i]
    BY <1>1, <1>2, <1>5
  <2>2. s # u
    BY <1>1, <1>5
  <2>3. Len(s) <= Len(u)
    BY <1>1, <1>5
  <2> QED BY <1>3, <1>4, <1>5, <2>1, <2>2, <2>3
<1>6. CASE ~ (Len(s) <= Len(t))
  <2>1. ASSUME IsPrefix(s, u) PROVE s = u
    <3>1. Len(s) = Len(u)
      BY <1>1, <1>4, <1>6, <2>1
    <3> QED BY <1>1, <1>4, <2>1, <3>1
  <2>2. ASSUME s = u PROVE IsPrefix(s, u)
    BY <1>1, <1>4, <2>2
  <2> QED BY <1>3, <1>6, <2>1, <2>2
<1> QED BY <1>5, <1>6

LEMMA PrefixSelf == ASSUME NEW A, NEW s \in Seq(A) PROVE IsPrefix(s, s)
BY PrefixIs

LEMMA PrefixEmpty ==
  ASSUME NEW A, NEW s \in Seq(A), NEW t \in Seq(A), ~ IsPrefix(s, t)
  PROVE  s # <<>>
<1>1. Len(s) \in Nat /\ Len(t) \in Nat /\ ~ (Len(s) <= Len(t) /\ \A i \in 1 .. Len(s) : s[i] = t[i])
  BY PrefixIs
<1>2. Len(s) >= 1
  BY <1>1
<1> QED BY <1>2

LEMMA PrefixFront ==
  ASSUME NEW A, NEW s \in Seq(A), s # <<>>
  PROVE  Front(s) \in Seq(A) /\ Last(s) \in A /\ s = Append(Front(s), Last(s))
<1>1. Len(s) \in Nat /\ Len(s) >= 1 /\ \A i \in 1 .. Len(s) : s[i] \in A
  OBVIOUS
<1> DEFINE n == Len(s) - 1
           q == [i \in 1 .. n |-> s[i]]
<1>6. n \in Nat /\ q \in Seq(A) /\ Len(q) = n
  BY <1>1
<1>7. Front(s) = q
  BY <1>1, <1>6 DEF Front
<1>2. Front(s) \in Seq(A) /\ Len(Front(s)) = Len(s) - 1 /\ \A i \in 1 .. n : Front(s)[i] = s[i]
  BY <1>6, <1>7
<1>3. Last(s) \in A
  BY <1>1 DEF Last
<1>4. Append(Front(s), Last(s)) \in Seq(A) /\ Len(Append(Front(s), Last(s))) = Len(s)
  BY <1>1, <1>2, <1>3
<1>5. ASSUME NEW i \in 1 .. Len(s) PROVE Append(Front(s), Last(s))[i] = s[i]
  <2> HIDE DEF q
  <2>1. CASE i = Len(s)
    BY <1>1, <1>2, <1>3, <2>1 DEF Last
  <2>2. CASE i # Len(s)
    <3>1. i \in 1 .. n /\ i \in 1 .. Len(Front(s))
      BY <1>1, <1>2, <2>2
    <3>2. Append(Front(s), Last(s))[i] = Front(s)[i]
      BY <1>2, <1>3, <3>1
    <3> QED BY <1>2, <3>1, <3>2
  <2> QED BY <2>1, <2>2
<1> QED BY <1>1, <1>3, <1>4, <1>5

LEMMA FrontLastAppend ==
  ASSUME NEW A, NEW s \in Seq(A), NEW e \in A
  PROVE  Front(Append(s, e)) = s /\ Last(Append(s, e)) = e
<1> DEFINE u == Append(s, e)
<1>1. u \in Seq(A) /\ u # <<>> /\ Len(u) = Len(s) + 1 /\ u[Len(s) + 1] = e /\ Len(s) \in Nat
  OBVIOUS
<1>2. Front(u) \in Seq(A) /\ Last(u) \in A /\ u = Append(Front(u), Last(u))
  BY <1>1, PrefixFront
<1>3. Append(Front(u), Last(u)) = Append(s, e)
  BY <1>2
<1> HIDE DEF u
<1>4. Front(u) = s /\ Last(u) = e
  BY <1>2, <1>3, AppendInjective
<1> QED BY <1>4 DEF u

-----------------------------------------------------------------------------
(* The folders of a library whose places are hm, as Existing and PathOf    *)
(* have them for the present places.                                       *)
DirsOf(hm) ==
  LET exists[f \in All] == f = Root \/ (hm[f] # Absent /\ exists[hm[f].parent])
  IN {f \in All : exists[f]}
PathsOf(hm) ==
  LET path[f \in DirsOf(hm)] == IF f = Root THEN <<>> ELSE Append(path[hm[f].parent], hm[f].name)
  IN path

LEMMA TreeNow == Existing = DirsOf(home) /\ PathOf = PathsOf(home)
BY DEF Existing, PathOf, DirsOf, PathsOf
LEMMA TreeNext == Existing' = DirsOf(home') /\ PathOf' = PathsOf(home')
BY DEF Existing, PathOf, DirsOf, PathsOf

(* No folder is below itself, and no two are in one place. *)
NoRing(hm) == \A C \in SUBSET FolderIds : C # {} => \E f \in C : hm[f] = Absent \/ hm[f].parent \notin C
Siblings(hm) == \A f, g \in FolderIds : hm[f] # Absent /\ hm[f] = hm[g] => f = g
Tree(hm) == hm \in [FolderIds -> Homes] /\ NoRing(hm) /\ Siblings(hm)

LEMMA HomeType ==
  ASSUME NEW hm \in [FolderIds -> Homes], NEW f \in FolderIds, hm[f] # Absent
  PROVE  hm[f] \in [parent : All, name : Names] /\ hm[f].parent \in All /\ hm[f].name \in Names
BY DEF Homes

LEMMA DirsRight ==
  ASSUME NEW hm \in [FolderIds -> Homes]
  PROVE  /\ DirsOf(hm) \subseteq All /\ Root \in DirsOf(hm)
         /\ \A f \in FolderIds : f \in DirsOf(hm) <=> hm[f] # Absent /\ hm[f].parent \in DirsOf(hm)
<1> DEFINE E(e) == e = [f \in All |-> f = Root \/ (hm[f] # Absent /\ e[hm[f].parent])]
           Walked(S) == Root \in S /\ \A f \in FolderIds : hm[f] # Absent /\ hm[f].parent \in S => f \in S
           L == {f \in All : \A S \in SUBSET All : Walked(S) => f \in S}
           e0 == [f \in All |-> f \in L]
<1>1. Root \in L
  BY DEF All
<1>2. ASSUME NEW f \in FolderIds, hm[f] # Absent, hm[f].parent \in L PROVE f \in L
  <2>1. \A S \in SUBSET All : Walked(S) => f \in S
    BY <1>2
  <2> QED BY <2>1 DEF All
<1>3. ASSUME NEW f \in FolderIds, f \in L PROVE hm[f] # Absent /\ hm[f].parent \in L
  <2> SUFFICES ASSUME ~ (hm[f] # Absent /\ hm[f].parent \in L) PROVE FALSE
    OBVIOUS
  <2>1. Walked(L \ {f})
    <3>1. Root \in L \ {f}
      BY <1>1, OrganizeAssumption
    <3>2. ASSUME NEW g \in FolderIds, hm[g] # Absent, hm[g].parent \in L \ {f} PROVE g \in L \ {f}
      BY <1>2, <3>2
    <3> QED BY <3>1, <3>2
  <2>2. L \ {f} \in SUBSET All
    OBVIOUS
  <2> QED BY <1>3, <2>1, <2>2
<1> HIDE DEF L
<1>4. E(e0)
  <2>1. ASSUME NEW f \in All PROVE e0[f] = (f = Root \/ (hm[f] # Absent /\ e0[hm[f].parent]))
    <3>1. CASE f = Root
      BY <1>1, <3>1
    <3>2. CASE f \in FolderIds /\ f # Root
      <4>1. CASE hm[f] = Absent
        BY <1>3, <3>2, <4>1
      <4>2. CASE hm[f] # Absent
        <5>1. hm[f].parent \in All
          BY <3>2, <4>2, HomeType
        <5>2. e0[f] = (f \in L) /\ e0[hm[f].parent] = (hm[f].parent \in L)
          BY <5>1
        <5>3. f \in L <=> hm[f].parent \in L
          BY <1>2, <1>3, <3>2, <4>2
        <5> HIDE DEF e0
        <5>4. (f = Root \/ (hm[f] # Absent /\ e0[hm[f].parent])) <=> f \in L
          BY <3>2, <4>2, <5>2, <5>3
        <5>5. (f = Root \/ (hm[f] # Absent /\ e0[hm[f].parent])) = (f \in L)
          BY <5>4
        <5> QED BY <5>2, <5>5
      <4> QED BY <4>1, <4>2
    <3> QED BY <3>1, <3>2 DEF All
  <2> QED BY <2>1
<1> DEFINE x == CHOOSE e : E(e)
<1>5. E(x)
  <2>1. \E e : E(e)
    BY <1>4
  <2> HIDE DEF E
  <2> QED BY <2>1, Zenon
<1>6. DirsOf(hm) = {f \in All : x[f]}
  BY DEF DirsOf
<1> HIDE DEF x
<1>7. \A f \in All : x[f] = (f = Root \/ (hm[f] # Absent /\ x[hm[f].parent]))
  BY <1>5
<1>8. Root \in All /\ Root \notin FolderIds /\ FolderIds \subseteq All
  BY OrganizeAssumption DEF All
<1>9. ASSUME NEW f \in FolderIds PROVE f \in DirsOf(hm) <=> hm[f] # Absent /\ hm[f].parent \in DirsOf(hm)
  <2>1. CASE hm[f] = Absent
    BY <1>6, <1>7, <1>8, <2>1
  <2>2. CASE hm[f] # Absent
    <3>1. hm[f].parent \in All
      BY <2>2, HomeType
    <3> QED BY <1>6, <1>7, <1>8, <2>2, <3>1
  <2> QED BY <2>1, <2>2
<1>10. Root \in DirsOf(hm)
  BY <1>6, <1>7, <1>8
<1> QED BY <1>6, <1>9, <1>10

(* Induction from the root down. *)
LEMMA Downwards ==
  ASSUME NEW hm \in [FolderIds -> Homes], NoRing(hm), NEW S, Root \in S,
         \A f \in FolderIds : f \in DirsOf(hm) /\ hm[f].parent \in DirsOf(hm) /\ hm[f].parent \in S => f \in S
  PROVE  DirsOf(hm) \subseteq S
<1> DEFINE C == DirsOf(hm) \ S
<1> SUFFICES ASSUME C # {} PROVE FALSE
  OBVIOUS
<1>1. C \in SUBSET FolderIds
  BY DirsRight DEF All
<1>2. PICK f \in C : hm[f] = Absent \/ hm[f].parent \notin C
  BY <1>1 DEF NoRing
<1>3. f \in FolderIds /\ f \in DirsOf(hm) /\ f \notin S
  BY <1>1
<1>4. hm[f] # Absent /\ hm[f].parent \in DirsOf(hm)
  BY <1>3, DirsRight
<1> QED BY <1>2, <1>3, <1>4

(* The path of a folder: that of its parent, and its name.                 *)
LEMMA PathsRight ==
  ASSUME NEW hm \in [FolderIds -> Homes], NoRing(hm)
  PROVE  /\ PathsOf(hm) \in [DirsOf(hm) -> Seq(Names)] /\ PathsOf(hm)[Root] = <<>>
         /\ \A f \in FolderIds : f \in DirsOf(hm) =>
              /\ hm[f].parent \in DirsOf(hm) /\ hm[f].name \in Names
              /\ PathsOf(hm)[f] = Append(PathsOf(hm)[hm[f].parent], hm[f].name)
              /\ PathsOf(hm)[f] # <<>>
<1> DEFINE D == DirsOf(hm)
           X == D \X Seq(Names)
           Good(Q) == /\ <<Root, <<>>>> \in Q
                      /\ \A f \in FolderIds, p \in Seq(Names) :
                           f \in D /\ <<hm[f].parent, p>> \in Q => <<f, Append(p, hm[f].name)>> \in Q
           R == {y \in X : \A Q \in SUBSET X : Good(Q) => y \in Q}
           Has(f, p) == <<f, p>> \in R /\ \A q \in Seq(Names) : <<f, q>> \in R => q = p
           S == {f \in D : \E p \in Seq(Names) : Has(f, p)}
<1>1. Root \in D /\ D \subseteq All /\ Root \notin FolderIds /\ All = FolderIds \cup {Root}
  BY DirsRight, OrganizeAssumption DEF All
<1>2. \A f \in FolderIds : f \in D => hm[f] # Absent /\ hm[f].parent \in D /\ hm[f].name \in Names
  BY DirsRight, HomeType
<1> HIDE DEF D
<1>3. Good(R)
  <2>1. <<Root, <<>>>> \in R
    <3>1. <<>> \in Seq(Names)
      OBVIOUS
    <3>2. <<Root, <<>>>> \in X
      BY <1>1, <3>1
    <3> QED BY <3>2
  <2>2. ASSUME NEW f \in FolderIds, NEW p \in Seq(Names), f \in D, <<hm[f].parent, p>> \in R
        PROVE  <<f, Append(p, hm[f].name)>> \in R
    <3>1. <<f, Append(p, hm[f].name)>> \in X
      <4>1. Append(p, hm[f].name) \in Seq(Names)
        BY <1>2, <2>2
      <4> QED BY <2>2, <4>1
    <3>2. \A Q \in SUBSET X : Good(Q) => <<f, Append(p, hm[f].name)>> \in Q
      BY <2>2
    <3> QED BY <3>1, <3>2
  <2> QED BY <2>1, <2>2
<1>4. ASSUME NEW Q \in SUBSET X, Good(Q) PROVE R \subseteq Q
  BY <1>4
<1>5. R \subseteq X
  OBVIOUS
<1> HIDE DEF R
<1>6. Root \in S
  <2>1. ASSUME NEW q \in Seq(Names), <<Root, q>> \in R, q # <<>> PROVE FALSE
    <3> DEFINE Q == R \ {<<Root, q>>}
    <3>1. <<Root, <<>>>> \in Q
      BY <1>3, <2>1
    <3>2. ASSUME NEW f \in FolderIds, NEW p \in Seq(Names), f \in D, <<hm[f].parent, p>> \in Q
          PROVE  <<f, Append(p, hm[f].name)>> \in Q
      BY <1>1, <1>3, <3>2
    <3>3. Good(Q) /\ Q \in SUBSET X
      BY <1>5, <3>1, <3>2
    <3> QED BY <1>4, <2>1, <3>3
  <2>2. <<>> \in Seq(Names) /\ <<Root, <<>>>> \in R
    BY <1>3
  <2> QED BY <1>1, <2>1, <2>2
<1>7. ASSUME NEW f \in FolderIds, f \in D, NEW p \in Seq(Names), Has(hm[f].parent, p)
      PROVE  Has(f, Append(p, hm[f].name)) /\ Append(p, hm[f].name) \in Seq(Names)
  <2> DEFINE u == Append(p, hm[f].name)
  <2>1. u \in Seq(Names) /\ <<f, u>> \in R
    BY <1>2, <1>3, <1>7
  <2>2. ASSUME NEW q \in Seq(Names), <<f, q>> \in R, q # u PROVE FALSE
    <3> DEFINE Q == R \ {<<f, q>>}
    <3>1. <<Root, <<>>>> \in Q
      BY <1>1, <1>3
    <3>2. ASSUME NEW g \in FolderIds, NEW r \in Seq(Names), g \in D, <<hm[g].parent, r>> \in Q
          PROVE  <<g, Append(r, hm[g].name)>> \in Q
      <4>1. <<g, Append(r, hm[g].name)>> \in R /\ <<hm[g].parent, r>> \in R
        BY <1>3, <3>2
      <4>2. CASE g = f
        <5>1. r = p
          BY <1>7, <4>1, <4>2
        <5> QED BY <2>2, <4>1, <4>2, <5>1
      <4>3. CASE g # f
        BY <4>1, <4>3
      <4> QED BY <4>2, <4>3
    <3>3. Good(Q) /\ Q \in SUBSET X
      BY <1>5, <3>1, <3>2
    <3> QED BY <1>4, <2>2, <3>3
  <2> QED BY <2>1, <2>2
<1>8. D \subseteq S
  <2>1. \A f \in FolderIds : f \in D /\ hm[f].parent \in D /\ hm[f].parent \in S => f \in S
    BY <1>7
  <2> HIDE DEF S
  <2> QED BY <1>6, <2>1, Downwards DEF D
<1> DEFINE pick(f) == CHOOSE p \in Seq(Names) : Has(f, p)
           path == [f \in D |-> pick(f)]
<1>9. \A f \in D : path[f] \in Seq(Names) /\ Has(f, path[f])
  BY <1>8
<1> HIDE DEF pick
<1>10. path[Root] = <<>>
  <2>1. Has(Root, path[Root]) /\ <<>> \in Seq(Names) /\ <<Root, <<>>>> \in R
    <3>1. <<>> \in Seq(Names) /\ <<Root, <<>>>> \in R
      BY <1>3
    <3>2. Has(Root, path[Root])
      BY <1>1, <1>9
    <3> QED BY <3>1, <3>2
  <2> HIDE DEF path
  <2> QED BY <2>1
<1>11. ASSUME NEW f \in FolderIds, f \in D PROVE path[f] = Append(path[hm[f].parent], hm[f].name)
  <2>1. hm[f].parent \in D
    BY <1>2, <1>11
  <2>2. Has(hm[f].parent, path[hm[f].parent]) /\ path[hm[f].parent] \in Seq(Names) /\ Has(f, path[f]) /\ path[f] \in Seq(Names)
    BY <1>9, <1>11, <2>1
  <2> HIDE DEF path
  <2>3. Has(f, Append(path[hm[f].parent], hm[f].name)) /\ Append(path[hm[f].parent], hm[f].name) \in Seq(Names)
    BY <1>7, <1>11, <2>2
  <2> QED BY <2>2, <2>3
<1> DEFINE E(e) == e = [f \in D |-> IF f = Root THEN <<>> ELSE Append(e[hm[f].parent], hm[f].name)]
<1>12. E(path)
  <2>1. \A f \in D : path[f] = IF f = Root THEN <<>> ELSE Append(path[hm[f].parent], hm[f].name)
    <3> HIDE DEF path
    <3> QED BY <1>1, <1>10, <1>11
  <2>2. path = [f \in D |-> path[f]]
    OBVIOUS
  <2> HIDE DEF path
  <2> QED BY <2>1, <2>2
<1> HIDE DEF path
<1>13. E(CHOOSE e : E(e))
  <2> HIDE DEF E
  <2> QED BY <1>12, Zenon
<1>14. PathsOf(hm) = (CHOOSE e : E(e))
  BY DEF PathsOf, D
<1> DEFINE x == PathsOf(hm)
<1>15. E(x)
  BY <1>13, <1>14
<1> HIDE DEF x
<1>16. DOMAIN x = D /\ x = [f \in D |-> x[f]]
  BY <1>15
<1>17. x[Root] = <<>> /\ \A f \in FolderIds : f \in D => x[f] = Append(x[hm[f].parent], hm[f].name)
  BY <1>1, <1>15
<1> DEFINE T == {f \in D : x[f] \in Seq(Names)}
<1>18. D \subseteq T
  <2>1. Root \in T
    <3>1. <<>> \in Seq(Names)
      OBVIOUS
    <3> QED BY <1>1, <1>17, <3>1
  <2>2. ASSUME NEW f \in FolderIds, f \in D, hm[f].parent \in D, hm[f].parent \in T PROVE f \in T
    <3>1. x[hm[f].parent] \in Seq(Names) /\ hm[f].name \in Names
      BY <1>2, <2>2
    <3> QED BY <1>17, <2>2, <3>1
  <2> HIDE DEF T
  <2> QED BY <2>1, <2>2, Downwards DEF D
<1>19. ASSUME NEW f \in FolderIds, f \in D
       PROVE  hm[f].parent \in D /\ hm[f].name \in Names /\ x[f] = Append(x[hm[f].parent], hm[f].name) /\ x[f] # <<>>
  <2>1. hm[f].parent \in D /\ hm[f].name \in Names /\ x[f] = Append(x[hm[f].parent], hm[f].name)
    BY <1>2, <1>17, <1>19
  <2>2. x[hm[f].parent] \in Seq(Names)
    BY <1>18, <2>1
  <2> QED BY <2>1, <2>2
<1>20. x \in [D -> Seq(Names)]
  BY <1>16, <1>18
<1> QED BY <1>17, <1>19, <1>20 DEF x, D

(* Folders in different places have different paths.                       *)
LEMMA PathsApart ==
  ASSUME NEW hm, Tree(hm)
  PROVE  \A f, g \in DirsOf(hm) : PathsOf(hm)[f] = PathsOf(hm)[g] => f = g
<1>1. hm \in [FolderIds -> Homes] /\ NoRing(hm) /\ Siblings(hm)
  BY DEF Tree
<1> DEFINE D == DirsOf(hm)
           x == PathsOf(hm)
           S == {f \in D : \A g \in D : x[f] = x[g] => f = g}
<1>2. Root \in D /\ D \subseteq All /\ Root \notin FolderIds /\ All = FolderIds \cup {Root}
  BY <1>1, DirsRight, OrganizeAssumption DEF All
<1>3. /\ x \in [D -> Seq(Names)] /\ x[Root] = <<>>
      /\ \A f \in FolderIds : f \in D =>
           /\ hm[f].parent \in D /\ hm[f].name \in Names /\ x[f] # <<>>
           /\ x[f] = Append(x[hm[f].parent], hm[f].name)
  BY <1>1, PathsRight
<1>4. \A f \in FolderIds : f \in D => hm[f] \in [parent : All, name : Names] /\ hm[f] # Absent
  BY <1>1, DirsRight, HomeType
<1> HIDE DEF D, x
<1>5. Root \in S
  BY <1>2, <1>3
<1>6. ASSUME NEW f \in FolderIds, f \in D, hm[f].parent \in D, hm[f].parent \in S PROVE f \in S
  <2> SUFFICES ASSUME NEW g \in D, x[f] = x[g] PROVE f = g
    BY <1>6
  <2>1. g \in FolderIds
    BY <1>2, <1>3, <1>6
  <2> DEFINE p == hm[f].parent
             q == hm[g].parent
  <2>2. Append(x[p], hm[f].name) = Append(x[q], hm[g].name) /\ p \in D /\ q \in D
    BY <1>3, <1>6, <2>1
  <2>3. x[p] \in Seq(Names) /\ x[q] \in Seq(Names)
    BY <1>3, <2>2
  <2> HIDE DEF p, q
  <2>4. x[p] = x[q] /\ hm[f].name = hm[g].name
    BY <2>2, <2>3, AppendInjective, <1>3, <1>6, <2>1
  <2>5. p = q
    BY <1>6, <2>2, <2>4 DEF p
  <2>6. hm[f] = hm[g]
    BY <1>4, <1>6, <2>1, <2>4, <2>5 DEF p, q
  <2> QED BY <1>1, <1>4, <1>6, <2>1, <2>6 DEF Siblings
<1> HIDE DEF S
<1>7. D \subseteq S
  BY <1>1, <1>5, <1>6, Downwards DEF D
<1> QED BY <1>7 DEF S, D, x

(* One folder gets another home.  Folders that are not below it stay what  *)
(* they are.                                                               *)
Below(hm, f, g) == f \in DirsOf(hm) /\ IsPrefix(PathsOf(hm)[f], PathsOf(hm)[g])
Rehomed(hm, f, h) == [hm EXCEPT ![f] = h]

LEMMA BelowFacts ==
  ASSUME NEW hm, Tree(hm), NEW f \in FolderIds
  PROVE  /\ f \in DirsOf(hm) => Below(hm, f, f)
         /\ ~ Below(hm, f, Root)
         /\ \A g \in FolderIds : g \in DirsOf(hm) =>
              (Below(hm, f, g) <=> Below(hm, f, hm[g].parent) \/ (f \in DirsOf(hm) /\ f = g))
<1> DEFINE D == DirsOf(hm)
           x == PathsOf(hm)
<1>1. hm \in [FolderIds -> Homes] /\ NoRing(hm)
  BY DEF Tree
<1>2. /\ x \in [D -> Seq(Names)] /\ x[Root] = <<>> /\ Root \in D
      /\ \A g \in FolderIds : g \in D =>
           /\ hm[g].parent \in D /\ hm[g].name \in Names /\ x[g] # <<>>
           /\ x[g] = Append(x[hm[g].parent], hm[g].name)
  BY <1>1, PathsRight, DirsRight
<1>3. \A g, k \in D : x[g] = x[k] => g = k
  BY PathsApart
<1> HIDE DEF D, x
<1>4. f \in D => IsPrefix(x[f], x[f])
  BY <1>2, PrefixSelf
<1>5. ASSUME f \in D, IsPrefix(x[f], x[Root]) PROVE FALSE
  <2>1. x[f] \in Seq(Names) /\ x[f] # <<>> /\ x[Root] \in Seq(Names) /\ Len(x[Root]) = 0
    BY <1>2, <1>5
  <2>2. Len(x[f]) <= Len(x[Root])
    BY <1>5, <2>1, PrefixIs
  <2> QED BY <2>1, <2>2
<1>6. ASSUME NEW g \in FolderIds, g \in D, f \in D
      PROVE  IsPrefix(x[f], x[g]) <=> IsPrefix(x[f], x[hm[g].parent]) \/ f = g
  <2>1. /\ x[f] \in Seq(Names) /\ x[hm[g].parent] \in Seq(Names) /\ hm[g].name \in Names
        /\ x[g] = Append(x[hm[g].parent], hm[g].name)
    BY <1>2, <1>6
  <2>2. IsPrefix(x[f], x[g]) <=> IsPrefix(x[f], x[hm[g].parent]) \/ x[f] = x[g]
    BY <2>1, PrefixAppend
  <2> QED BY <1>3, <1>6, <2>2
<1> QED BY <1>4, <1>5, <1>6 DEF Below, D, x

LEMMA RehomedPaths ==
  ASSUME NEW hm, Tree(hm), NEW f \in FolderIds, NEW h \in Homes, Tree(Rehomed(hm, f, h)),
         NEW g \in DirsOf(hm), ~ Below(hm, f, g)
  PROVE  g \in DirsOf(Rehomed(hm, f, h)) /\ PathsOf(Rehomed(hm, f, h))[g] = PathsOf(hm)[g]
<1> DEFINE hn == Rehomed(hm, f, h)
           D == DirsOf(hm)
           T == {k \in D : Below(hm, f, k) \/ (k \in DirsOf(hn) /\ PathsOf(hn)[k] = PathsOf(hm)[k])}
<1>1. /\ hm \in [FolderIds -> Homes] /\ NoRing(hm) /\ hn \in [FolderIds -> Homes] /\ NoRing(hn)
      /\ \A k \in FolderIds : k # f => hn[k] = hm[k]
  BY DEF Tree, Rehomed
<1> HIDE DEF hn
<1>2. Root \in T
  BY <1>1, DirsRight, PathsRight
<1>3. ASSUME NEW k \in FolderIds, k \in D, hm[k].parent \in D, hm[k].parent \in T PROVE k \in T
  <2>1. CASE Below(hm, f, k)
    BY <1>3, <2>1
  <2>2. CASE ~ Below(hm, f, k)
    <3>1. k # f /\ ~ Below(hm, f, hm[k].parent)
      BY <1>3, <2>2, BelowFacts
    <3>2. hn[k] = hm[k] /\ hm[k] # Absent
      BY <1>1, <1>3, <3>1, DirsRight
    <3>3. hm[k].parent \in DirsOf(hn) /\ PathsOf(hn)[hm[k].parent] = PathsOf(hm)[hm[k].parent]
      BY <1>3, <3>1
    <3>4. k \in DirsOf(hn)
      BY <1>1, <3>2, <3>3, DirsRight
    <3>5. PathsOf(hn)[k] = Append(PathsOf(hn)[hn[k].parent], hn[k].name)
      BY <1>1, <3>4, PathsRight
    <3>6. PathsOf(hm)[k] = Append(PathsOf(hm)[hm[k].parent], hm[k].name)
      BY <1>1, <1>3, PathsRight
    <3> QED BY <1>3, <3>2, <3>3, <3>4, <3>5, <3>6
  <2> QED BY <2>1, <2>2
<1> HIDE DEF T
<1>4. D \subseteq T
  BY <1>1, <1>2, <1>3, Downwards
<1> QED BY <1>4 DEF T, hn

(* The folders there may be more than before: only itself. *)
LEMMA RehomedDirs ==
  ASSUME NEW hm, Tree(hm), NEW f \in FolderIds, NEW h \in Homes, Tree(Rehomed(hm, f, h)),
         f \in DirsOf(hm) \/ \A g \in FolderIds : hm[g] # Absent => hm[g].parent # f
  PROVE  DirsOf(Rehomed(hm, f, h)) \subseteq DirsOf(hm) \cup {f}
<1> DEFINE hn == Rehomed(hm, f, h)
           S == DirsOf(hm) \cup {f}
<1>1. /\ hm \in [FolderIds -> Homes] /\ hn \in [FolderIds -> Homes] /\ NoRing(hn)
      /\ \A k \in FolderIds : k # f => hn[k] = hm[k]
  BY DEF Tree, Rehomed
<1> HIDE DEF hn
<1>2. Root \in S
  BY <1>1, DirsRight
<1>3. ASSUME NEW k \in FolderIds, k \in DirsOf(hn), hn[k].parent \in DirsOf(hn), hn[k].parent \in S PROVE k \in S
  <2> SUFFICES ASSUME k # f PROVE k \in DirsOf(hm)
    OBVIOUS
  <2>1. hm[k] = hn[k] /\ hn[k] # Absent
    BY <1>1, <1>3, DirsRight
  <2>2. hm[k].parent \in DirsOf(hm)
    BY <1>3, <2>1
  <2> QED BY <1>1, <2>1, <2>2, DirsRight
<1> HIDE DEF S
<1>4. DirsOf(hn) \subseteq S
  BY <1>1, <1>2, <1>3, Downwards
<1> QED BY <1>4 DEF S, hn

(* What is below a folder goes with it. *)
LEMMA Uprooted ==
  ASSUME NEW hm, Tree(hm), NEW f \in FolderIds, Tree(Rehomed(hm, f, Absent)),
         NEW g \in DirsOf(hm), Below(hm, f, g)
  PROVE  g \notin DirsOf(Rehomed(hm, f, Absent))
<1> DEFINE hn == Rehomed(hm, f, Absent)
           S == {k \in DirsOf(hm) : ~ Below(hm, f, k)}
<1>1. /\ hm \in [FolderIds -> Homes] /\ hn \in [FolderIds -> Homes] /\ NoRing(hn) /\ hn[f] = Absent
      /\ \A k \in FolderIds : k # f => hn[k] = hm[k]
  BY DEF Tree, Rehomed
<1> HIDE DEF hn
<1>2. Root \in S
  BY <1>1, DirsRight, BelowFacts
<1>3. ASSUME NEW k \in FolderIds, k \in DirsOf(hn), hn[k].parent \in DirsOf(hn), hn[k].parent \in S PROVE k \in S
  <2>1. hn[k] # Absent /\ k # f /\ hm[k] = hn[k]
    BY <1>1, <1>3, DirsRight
  <2>2. k \in DirsOf(hm)
    BY <1>1, <1>3, <2>1, DirsRight
  <2> QED BY <1>3, <2>1, <2>2, BelowFacts
<1> HIDE DEF S
<1>4. DirsOf(hn) \subseteq S
  BY <1>1, <1>2, <1>3, Downwards
<1> QED BY <1>4 DEF S, hn

(* The tree stays a tree when a folder gets no home, or one that exists,   *)
(* is not below it, and has nothing of its name.                           *)
LEMMA RehomedTree ==
  ASSUME NEW hm, Tree(hm), NEW f \in FolderIds, NEW h \in Homes,
         h # Absent => /\ h.parent \in DirsOf(hm) /\ ~ Below(hm, f, h.parent)
                       /\ \A g \in DirsOf(hm) : PathsOf(hm)[g] # Append(PathsOf(hm)[h.parent], h.name)
  PROVE  Tree(Rehomed(hm, f, h))
<1> DEFINE hn == Rehomed(hm, f, h)
<1>1. /\ hm \in [FolderIds -> Homes] /\ NoRing(hm) /\ hn \in [FolderIds -> Homes] /\ hn[f] = h
      /\ \A k \in FolderIds : k # f => hn[k] = hm[k]
  BY DEF Tree, Rehomed
<1> HIDE DEF hn
<1>2. NoRing(hn)
  <2> SUFFICES ASSUME NEW C \in SUBSET FolderIds, C # {}, \A k \in C : hn[k] # Absent /\ hn[k].parent \in C
               PROVE  FALSE
    BY DEF NoRing
  <2>1. f \in C
    <3> SUFFICES ASSUME f \notin C PROVE FALSE
      OBVIOUS
    <3>1. \A k \in C : hm[k] # Absent /\ hm[k].parent \in C
      BY <1>1
    <3> QED BY <1>1, <3>1 DEF NoRing
  <2>2. h # Absent /\ h.parent \in C
    BY <1>1, <2>1
  <2> DEFINE S == {k \in DirsOf(hm) : k \in C => Below(hm, f, k)}
  <2>3. Root \in S
    BY <1>1, DirsRight, OrganizeAssumption
  <2>4. ASSUME NEW k \in FolderIds, k \in DirsOf(hm), hm[k].parent \in DirsOf(hm), hm[k].parent \in S PROVE k \in S
    <3> SUFFICES ASSUME k \in C PROVE Below(hm, f, k)
      BY <2>4
    <3>1. CASE k = f
      BY <2>4, <3>1, BelowFacts
    <3>2. CASE k # f
      <4>1. hm[k].parent \in C
        BY <1>1, <3>2
      <4>2. Below(hm, f, hm[k].parent)
        BY <2>4, <4>1
      <4> QED BY <2>4, <4>2, BelowFacts
    <3> QED BY <3>1, <3>2
  <2> HIDE DEF S
  <2>5. DirsOf(hm) \subseteq S
    BY <1>1, <2>3, <2>4, Downwards
  <2> QED BY <2>2, <2>5 DEF S
<1>3. ASSUME NEW g \in FolderIds, g # f, hm[g] = h, h # Absent PROVE FALSE
  <2>1. g \in DirsOf(hm)
    BY <1>1, <1>3, DirsRight
  <2> QED BY <1>1, <1>3, <2>1, PathsRight
<1>4. Siblings(hn)
  <2> SUFFICES ASSUME NEW g \in FolderIds, NEW k \in FolderIds, hn[g] # Absent, hn[g] = hn[k], g # k PROVE FALSE
    BY DEF Siblings
  <2>1. CASE g = f
    BY <1>1, <1>3, <2>1
  <2>2. CASE k = f
    BY <1>1, <1>3, <2>2
  <2>3. CASE g # f /\ k # f
    BY <1>1, <2>3 DEF Tree, Siblings
  <2> QED BY <2>1, <2>2, <2>3
<1> QED BY <1>1, <1>2, <1>4 DEF Tree, hn

(* What is below a folder keeps its place below it. *)
After(s, n) == SubSeq(s, n + 1, Len(s))

LEMMA AfterIs ==
  ASSUME NEW A, NEW s \in Seq(A), NEW n \in 0 .. Len(s)
  PROVE  /\ After(s, n) \in Seq(A) /\ Len(After(s, n)) = Len(s) - n
         /\ \A i \in 1 .. Len(s) - n : After(s, n)[i] = s[n + i]
<1> DEFINE k == Len(s) - n
           t == [i \in 1 .. k |-> s[n + i]]
<1>1. Len(s) \in Nat /\ n \in Nat /\ k \in Nat /\ \A i \in 1 .. k : n + i \in 1 .. Len(s)
  OBVIOUS
<1>2. \A i \in 1 .. k : s[n + i] \in A
  BY <1>1
<1>3. t \in Seq(A) /\ Len(t) = k
  BY <1>1, <1>2
<1>4. After(s, n) = t
  <2>1. SubSeq(s, n + 1, Len(s)) = [i \in 1 .. (1 + Len(s) - (n + 1)) |-> s[i + (n + 1) - 1]]
    BY <1>1
  <2>2. 1 + Len(s) - (n + 1) = k /\ \A i \in 1 .. k : i + (n + 1) - 1 = n + i
    BY <1>1
  <2> HIDE DEF k
  <2> QED BY <2>1, <2>2 DEF After
<1> QED BY <1>3, <1>4

LEMMA AfterAppend ==
  ASSUME NEW A, NEW s \in Seq(A), NEW e \in A, NEW n \in 0 .. Len(s)
  PROVE  After(s, n) \in Seq(A) /\ After(Append(s, e), n) = Append(After(s, n), e)
<1> DEFINE u == Append(s, e)
           v == After(s, n)
           w == After(u, n)
           l == Len(s)
           k == l - n
<1>1. l \in Nat /\ n \in Nat /\ k \in Nat /\ u \in Seq(A) /\ Len(u) = l + 1 /\ n \in 0 .. Len(u)
  OBVIOUS
<1>2. v \in Seq(A) /\ Len(v) = k /\ \A i \in 1 .. k : v[i] = s[n + i]
  BY AfterIs
<1>3. w \in Seq(A) /\ Len(w) = l + 1 - n /\ \A i \in 1 .. l + 1 - n : w[i] = u[n + i]
  <2> HIDE DEF u
  <2>1. Len(u) - n = l + 1 - n
    BY <1>1
  <2>2. /\ After(u, n) \in Seq(A) /\ Len(After(u, n)) = Len(u) - n
        /\ \A i \in 1 .. Len(u) - n : After(u, n)[i] = u[n + i]
    BY <1>1, AfterIs
  <2> QED BY <2>1, <2>2
<1>4. (\A i \in 1 .. l : u[i] = s[i]) /\ u[l + 1] = e
  OBVIOUS
<1>5. l + 1 - n = k + 1 /\ n + (k + 1) = l + 1 /\ \A i \in 1 .. k : n + i \in 1 .. l
  BY <1>1
<1> SUFFICES v \in Seq(A) /\ w = Append(v, e)
  OBVIOUS
<1> HIDE DEF u, v, w, k, l
<1>6. /\ Append(v, e) \in Seq(A) /\ Len(Append(v, e)) = k + 1 /\ Append(v, e)[k + 1] = e
      /\ \A i \in 1 .. k : Append(v, e)[i] = v[i]
  BY <1>1, <1>2
<1>7. w[k + 1] = e
  BY <1>1, <1>3, <1>4, <1>5
<1>8. \A i \in 1 .. k : w[i] = v[i]
  BY <1>1, <1>2, <1>3, <1>4, <1>5
<1>9. \A i \in 1 .. k + 1 : w[i] = Append(v, e)[i]
  BY <1>1, <1>6, <1>7, <1>8
<1>10. Len(w) = Len(Append(v, e)) /\ \A i \in 1 .. Len(w) : w[i] = Append(v, e)[i]
  BY <1>3, <1>5, <1>6, <1>9
<1> QED BY <1>2, <1>3, <1>6, <1>10, SeqEqual

LEMMA ConcatAppend ==
  ASSUME NEW A, NEW s \in Seq(A), NEW t \in Seq(A), NEW e \in A
  PROVE  s \o Append(t, e) = Append(s \o t, e)
<1>1. Append(t, e) = t \o <<e>> /\ Append(s \o t, e) = (s \o t) \o <<e>>
  BY AppendIsConcat, ConcatProperties
<1>2. <<e>> \in Seq(A)
  OBVIOUS
<1> QED BY <1>1, <1>2, ConcatAssociative

LEMMA Carried ==
  ASSUME NEW hm, Tree(hm), NEW f \in FolderIds, NEW h \in Homes, Tree(Rehomed(hm, f, h)),
         f \in DirsOf(hm), h # Absent, h.parent \in DirsOf(hm), ~ Below(hm, f, h.parent),
         NEW g \in DirsOf(hm), Below(hm, f, g)
  PROVE  /\ f \in DirsOf(Rehomed(hm, f, h))
         /\ PathsOf(Rehomed(hm, f, h))[f] = Append(PathsOf(hm)[h.parent], h.name)
         /\ g \in DirsOf(Rehomed(hm, f, h))
         /\ PathsOf(Rehomed(hm, f, h))[g] =
              PathsOf(Rehomed(hm, f, h))[f] \o After(PathsOf(hm)[g], Len(PathsOf(hm)[f]))
<1> DEFINE hn == Rehomed(hm, f, h)
           x == PathsOf(hm)
           y == PathsOf(hn)
           T == {k \in DirsOf(hm) :
                   Below(hm, f, k) => k \in DirsOf(hn) /\ y[k] = y[f] \o After(x[k], Len(x[f]))}
<1>1. /\ hm \in [FolderIds -> Homes] /\ NoRing(hm) /\ hn \in [FolderIds -> Homes] /\ NoRing(hn) /\ hn[f] = h
      /\ \A k \in FolderIds : k # f => hn[k] = hm[k]
  BY DEF Tree, Rehomed
<1>2. h.parent \in DirsOf(hn) /\ y[h.parent] = x[h.parent]
  BY RehomedPaths
<1> HIDE DEF hn
<1>3. /\ x \in [DirsOf(hm) -> Seq(Names)] /\ y \in [DirsOf(hn) -> Seq(Names)]
      /\ \A k \in FolderIds : k \in DirsOf(hm) =>
           hm[k].parent \in DirsOf(hm) /\ hm[k].name \in Names /\ x[k] = Append(x[hm[k].parent], hm[k].name)
      /\ \A k \in FolderIds : k \in DirsOf(hn) => y[k] = Append(y[hn[k].parent], hn[k].name)
  BY <1>1, PathsRight
<1>4. f \in DirsOf(hn) /\ y[f] = Append(x[h.parent], h.name)
  <2>1. f \in DirsOf(hn)
    BY <1>1, <1>2, DirsRight
  <2> QED BY <1>1, <1>2, <1>3, <2>1
<1> HIDE DEF x, y
<1>5. Root \in T
  BY <1>1, DirsRight, BelowFacts
<1>6. ASSUME NEW k \in FolderIds, k \in DirsOf(hm), hm[k].parent \in DirsOf(hm), hm[k].parent \in T PROVE k \in T
  <2> SUFFICES ASSUME Below(hm, f, k)
               PROVE  k \in DirsOf(hn) /\ y[k] = y[f] \o After(x[k], Len(x[f]))
    BY <1>6
  <2>1. CASE k = f
    <3>1. x[f] \in Seq(Names) /\ y[f] \in Seq(Names)
      BY <1>3, <1>4
    <3>2. After(x[f], Len(x[f])) = <<>>
      BY <3>1 DEF After
    <3> QED BY <1>4, <2>1, <3>1, <3>2
  <2>2. CASE k # f
    <3> DEFINE p == hm[k].parent
               e == hm[k].name
    <3>1. Below(hm, f, p)
      BY <1>6, <2>2, BelowFacts
    <3>2. p \in DirsOf(hn) /\ y[p] = y[f] \o After(x[p], Len(x[f]))
      BY <1>6, <3>1
    <3>3. hn[k] = hm[k] /\ hm[k] # Absent
      BY <1>1, <1>6, <2>2, DirsRight
    <3>4. k \in DirsOf(hn)
      BY <1>1, <3>2, <3>3, DirsRight
    <3>5. y[k] = Append(y[p], e) /\ x[k] = Append(x[p], e) /\ e \in Names
      BY <1>3, <1>6, <3>3, <3>4
    <3>6. x[p] \in Seq(Names) /\ x[f] \in Seq(Names) /\ y[f] \in Seq(Names)
      BY <1>3, <1>4, <1>6
    <3> HIDE DEF p, e
    <3>7. Len(x[f]) \in 0 .. Len(x[p])
      <4>1. IsPrefix(x[f], x[p])
        BY <3>1 DEF Below, x
      <4>2. Len(x[f]) <= Len(x[p])
        BY <3>6, <4>1, PrefixIs
      <4> QED BY <3>6, <4>2
    <3>8. After(x[p], Len(x[f])) \in Seq(Names) /\ After(x[k], Len(x[f])) = Append(After(x[p], Len(x[f])), e)
      BY <3>5, <3>6, <3>7, AfterAppend
    <3>9. y[f] \o After(x[k], Len(x[f])) = Append(y[f] \o After(x[p], Len(x[f])), e)
      <4> DEFINE t == After(x[p], Len(x[f]))
      <4>1. t \in Seq(Names) /\ After(x[k], Len(x[f])) = Append(t, e)
        BY <3>8
      <4> HIDE DEF t
      <4>2. \A q, r \in Seq(Names), c \in Names : q \o Append(r, c) = Append(q \o r, c)
        BY ConcatAppend
      <4>3. y[f] \o Append(t, e) = Append(y[f] \o t, e)
        BY <3>5, <3>6, <4>1, <4>2, Zenon
      <4> QED BY <4>1, <4>3 DEF t
    <3> QED BY <3>2, <3>4, <3>5, <3>9
  <2> QED BY <2>1, <2>2
<1> HIDE DEF T
<1>7. DirsOf(hm) \subseteq T
  BY <1>1, <1>5, <1>6, Downwards
<1> QED BY <1>4, <1>7 DEF T, hn, x, y

-----------------------------------------------------------------------------
(* Organize: types, one mod in a place, folder calls alone.               *)

(* Types. *)
IDs == Seq(Names \cup Stems)
Paths == Seq(Names)
Records == [scanner : IDs, tags : SUBSET Tags, owner : Mods \cup {None}]
ModJobs == [phase : {"scan", "move", "rescan", "reconcile"}, op : {"relocate", "delete"}, id : IDs,
            to : Paths, stem : Stems, entry : Mods \cup {None}]
FolderJobs == [phase : {"plan", "apply", "remove", "verify", "ok", "failed"},
               op : {"create", "move", "delete"}, from : Paths, to : Paths,
               folder : All \cup {None}, mods : SUBSET Mods, copied : SUBSET Mods]
TagCalls == [phase : {"assign", "unassign"}, mod : Mods, id : IDs, tag : Tags]

JobTypes ==
  /\ job \in [Mods -> ModJobs \cup {NoJob}] /\ folderJob \in FolderJobs \cup {NoJob}
  /\ request \in TagCalls \cup {NoJob}
DocumentTypes == records \in Seq(Records) /\ catalog \in [Tags -> TagNames \cup {"new", "deleted"}]
HistoryTypes ==
  /\ wanted \in [Mods -> SUBSET Tags] /\ told \subseteq Mods \cup {None} /\ carried \subseteq Mods
  /\ touched \subseteq Mods \cup All /\ reused \in BOOLEAN
CounterTypes == calls \in Nat /\ tagCalls \in Nat /\ foreign \in Nat /\ failures \in Nat
OrganizeTypeOK ==
  /\ at \in [Mods -> Spots] /\ JobTypes /\ DocumentTypes /\ HistoryTypes /\ CounterTypes

(* What a folder call wants of the disk makes sense. *)
FolderShape ==
  folderJob # NoJob => /\ folderJob.to # <<>>
                       /\ folderJob.op # "create" => folderJob.from # <<>>
                       /\ folderJob.phase = "remove" => folderJob.op = "delete"
(* A folder call runs alone. *)
Alone == folderJob # NoJob => Idle
(* No two mods are in one place. *)
MovedOnce == \A m, n \in Mods : at[m] \in [folder : All, stem : Stems] /\ at[m] = at[n] => m = n

DiskInv == OrganizeTypeOK /\ Tree(home) /\ MovedOnce /\ FolderShape /\ Alone

-----------------------------------------------------------------------------
(* The library as it is. *)
LEMMA PathFacts ==
  ASSUME Tree(home)
  PROVE  /\ Existing \subseteq All /\ Root \in Existing /\ PathOf \in [Existing -> Paths]
         /\ PathOf[Root] = <<>> /\ Known \subseteq Paths
         /\ \A f, g \in Existing : PathOf[f] = PathOf[g] => f = g
         /\ \A f \in FolderIds : f \in Existing => PathOf[f] # <<>> /\ home[f] # Absent
<1>1. home \in [FolderIds -> Homes] /\ NoRing(home)
  BY DEF Tree
<1>2. Existing = DirsOf(home) /\ PathOf = PathsOf(home)
  BY TreeNow
<1>3. Existing \subseteq All /\ Root \in Existing
  BY <1>1, <1>2, DirsRight
<1>4. /\ PathOf \in [Existing -> Paths] /\ PathOf[Root] = <<>>
      /\ \A f \in FolderIds : f \in Existing => PathOf[f] # <<>> /\ home[f] # Absent
  BY <1>1, <1>2, PathsRight, DirsRight DEF Paths
<1>5. \A f, g \in Existing : PathOf[f] = PathOf[g] => f = g
  BY <1>2, PathsApart
<1>6. Known \subseteq Paths
  BY <1>4 DEF Known
<1> QED BY <1>3, <1>4, <1>5, <1>6

LEMMA FolderAtRight ==
  ASSUME Tree(home), NEW p \in Known
  PROVE  /\ FolderAt(p) \in Existing /\ FolderAt(p) \in All /\ PathOf[FolderAt(p)] = p
         /\ p # <<>> => FolderAt(p) \in FolderIds
         /\ \A f \in Existing : PathOf[f] = p => FolderAt(p) = f
<1>1. \E f \in Existing : PathOf[f] = p
  BY DEF Known
<1>2. FolderAt(p) \in Existing /\ PathOf[FolderAt(p)] = p
  BY <1>1 DEF FolderAt
<1> QED BY <1>2, PathFacts DEF All

LEMMA IDFacts ==
  ASSUME Tree(home), NEW m \in Present
  PROVE  /\ m \in Mods /\ at[m].folder \in Existing /\ at[m].stem \in Stems
         /\ at[m] = [folder |-> at[m].folder, stem |-> at[m].stem]
         /\ at[m] \in [folder : All, stem : Stems]
         /\ PathOf[at[m].folder] \in Paths
         /\ ID(m) = Append(PathOf[at[m].folder], at[m].stem) /\ ID(m) \in IDs
<1>1. m \in Mods /\ at[m] \in [folder : Existing, stem : Stems]
  BY DEF Present
<1>2. /\ at[m].folder \in Existing /\ at[m].stem \in Stems
      /\ at[m] = [folder |-> at[m].folder, stem |-> at[m].stem]
  BY <1>1
<1>3. at[m] \in [folder : All, stem : Stems] /\ PathOf[at[m].folder] \in Paths
  BY <1>1, <1>2, PathFacts
<1>4. ID(m) \in IDs
  <2>1. PathOf[at[m].folder] \in Seq(Names \cup Stems)
    BY <1>3 DEF Paths
  <2> QED BY <1>2, <2>1 DEF ID, IDs
<1> QED BY <1>1, <1>2, <1>3, <1>4 DEF ID

(* An ID belongs to one mod. *)
LEMMA IDsApart ==
  ASSUME Tree(home), MovedOnce, NEW m \in Present, NEW n \in Present, ID(m) = ID(n)
  PROVE  m = n
<1> DEFINE p == PathOf[at[m].folder]
           q == PathOf[at[n].folder]
<1>1. /\ m \in Mods /\ n \in Mods /\ at[m].folder \in Existing /\ at[n].folder \in Existing
      /\ at[m] = [folder |-> at[m].folder, stem |-> at[m].stem]
      /\ at[n] = [folder |-> at[n].folder, stem |-> at[n].stem]
      /\ at[m] \in [folder : All, stem : Stems]
      /\ p \in Paths /\ q \in Paths /\ at[m].stem \in Stems /\ at[n].stem \in Stems
      /\ Append(p, at[m].stem) = Append(q, at[n].stem)
  BY IDFacts
<1>2. p \in Seq(Names \cup Stems) /\ q \in Seq(Names \cup Stems)
  BY <1>1 DEF Paths
<1> HIDE DEF p, q
<1>3. p = q /\ at[m].stem = at[n].stem
  <2>1. Front(Append(p, at[m].stem)) = p /\ Last(Append(p, at[m].stem)) = at[m].stem
    BY <1>1, <1>2, FrontLastAppend
  <2>2. Front(Append(q, at[n].stem)) = q /\ Last(Append(q, at[n].stem)) = at[n].stem
    BY <1>1, <1>2, FrontLastAppend
  <2> QED BY <1>1, <2>1, <2>2
<1>4. at[m].folder = at[n].folder
  BY <1>1, <1>3, PathFacts DEF p, q
<1>5. at[m] = at[n]
  BY <1>1, <1>3, <1>4
<1> QED BY <1>1, <1>5 DEF MovedOnce

LEMMA UnderIs ==
  ASSUME Tree(home), NEW p \in Paths, NEW m \in Mods
  PROVE  m \in Under(p) <=> m \in Present /\ IsPrefix(p, PathOf[at[m].folder])
<1> SUFFICES ASSUME m \in Present
             PROVE  IsPrefix(p, ID(m)) <=> IsPrefix(p, PathOf[at[m].folder])
  BY DEF Under
<1> DEFINE q == PathOf[at[m].folder]
           s == at[m].stem
<1>1. ID(m) = Append(q, s) /\ q \in Paths /\ s \in Stems
  BY IDFacts
<1>2. p \in Seq(Names \cup Stems) /\ q \in Seq(Names \cup Stems)
  BY <1>1 DEF Paths
<1> HIDE DEF q, s
<1>3. IsPrefix(p, Append(q, s)) <=> IsPrefix(p, q) \/ p = Append(q, s)
  BY <1>1, <1>2, PrefixAppend
<1>4. p # Append(q, s)
  <2> SUFFICES ASSUME p = Append(q, s) PROVE FALSE
    OBVIOUS
  <2>1. p # <<>> /\ Last(p) = s
    BY <1>1, <1>2, FrontLastAppend, AppendProperties
  <2>2. Last(p) \in Names
    BY <2>1, PrefixFront DEF Paths
  <2> QED BY <1>1, <2>1, <2>2, OrganizeAssumption
<1> QED BY <1>1, <1>3, <1>4 DEF q

-----------------------------------------------------------------------------
(* One folder gets another home: what is left of the tree.                 *)
Rehomes(f, h) ==
  /\ f \in FolderIds /\ h \in Homes /\ home' = Rehomed(home, f, h)
  /\ f \in Existing \/ Fresh(f)
  /\ h # Absent => /\ h.parent \in Existing /\ Append(PathOf[h.parent], h.name) \notin Known
                   /\ f \in Existing => ~ IsPrefix(PathOf[f], PathOf[h.parent])

LEMMA FreshFacts ==
  ASSUME Tree(home), NEW f \in FolderIds, Fresh(f)
  PROVE  /\ f \notin Existing /\ home[f] = Absent
         /\ \A g \in FolderIds : home[g] # Absent => home[g].parent # f
         /\ \A m \in Mods : at[m] \in [folder : All, stem : Stems] => at[m].folder # f
<1>1. home[f] = Absent /\ f \notin Existing
  BY PathFacts DEF Fresh
<1>2. ASSUME NEW g \in FolderIds, home[g] # Absent PROVE home[g].parent # f
  <2>1. home[g] \in [parent : All \ {f}, name : Names]
    BY <1>2 DEF Fresh
  <2> QED BY <2>1
<1>3. ASSUME NEW m \in Mods, at[m] \in [folder : All, stem : Stems] PROVE at[m].folder # f
  <2> SUFFICES ASSUME at[m].folder = f PROVE FALSE
    OBVIOUS
  <2>1. at[m] \in [folder : {f}, stem : Stems]
    BY <1>3
  <2> QED BY <2>1 DEF Fresh
<1> QED BY <1>1, <1>2, <1>3

LEMMA RehomesTree ==
  ASSUME Tree(home), NEW f, NEW h, Rehomes(f, h)
  PROVE  /\ Tree(home') /\ Existing' \subseteq Existing \cup {f}
         /\ \A g \in Existing : (f \in Existing => ~ IsPrefix(PathOf[f], PathOf[g])) =>
              g \in Existing' /\ PathOf'[g] = PathOf[g]
<1>1. f \in FolderIds /\ h \in Homes /\ home' = Rehomed(home, f, h)
  BY DEF Rehomes
<1>2. /\ Existing = DirsOf(home) /\ PathOf = PathsOf(home)
      /\ Existing' = DirsOf(home') /\ PathOf' = PathsOf(home')
  BY TreeNow, TreeNext
<1>3. Tree(home')
  <2>1. h # Absent => /\ h.parent \in DirsOf(home) /\ ~ Below(home, f, h.parent)
                      /\ \A g \in DirsOf(home) : PathsOf(home)[g] # Append(PathsOf(home)[h.parent], h.name)
    BY <1>2 DEF Rehomes, Below, Known
  <2> QED BY <1>1, <2>1, RehomedTree
<1>4. Existing' \subseteq Existing \cup {f}
  <2>1. f \in DirsOf(home) \/ \A g \in FolderIds : home[g] # Absent => home[g].parent # f
    BY <1>1, <1>2, FreshFacts DEF Rehomes
  <2> QED BY <1>1, <1>2, <1>3, <2>1, RehomedDirs
<1>5. ASSUME NEW g \in Existing, f \in Existing => ~ IsPrefix(PathOf[f], PathOf[g])
      PROVE  g \in Existing' /\ PathOf'[g] = PathOf[g]
  <2>1. g \in DirsOf(home) /\ ~ Below(home, f, g)
    BY <1>2, <1>5 DEF Below
  <2> QED BY <1>1, <1>2, <1>3, <2>1, RehomedPaths
<1> QED BY <1>3, <1>4, <1>5

(* No mod appears, and one that is not below the folder keeps its ID. *)
LEMMA RehomesMods ==
  ASSUME Tree(home), NEW f, NEW h, Rehomes(f, h), NEW m \in Mods, at'[m] = at[m]
  PROVE  /\ m \in Present' => m \in Present
         /\ m \in Present /\ (f \in Existing => m \notin Under(PathOf[f])) =>
              m \in Present' /\ (ID(m))' = ID(m) /\ PathOf'[at[m].folder] = PathOf[at[m].folder]
<1>1. /\ Existing' \subseteq Existing \cup {f} /\ f \in FolderIds
      /\ \A g \in Existing : (f \in Existing => ~ IsPrefix(PathOf[f], PathOf[g])) =>
              g \in Existing' /\ PathOf'[g] = PathOf[g]
      /\ f \in Existing \/ \A n \in Mods : at[n] \in [folder : All, stem : Stems] => at[n].folder # f
  BY RehomesTree, FreshFacts DEF Rehomes
<1>2. ASSUME m \in Present' PROVE m \in Present
  <2>1. at[m] \in [folder : Existing', stem : Stems]
    BY <1>2 DEF Present
  <2>2. at[m].folder \in Existing \cup {f} /\ at[m].stem \in Stems /\ at[m] = [folder |-> at[m].folder, stem |-> at[m].stem]
    BY <1>1, <2>1
  <2>3. Existing \cup {f} \subseteq All
    BY <1>1, PathFacts DEF All
  <2>4. at[m] \in [folder : All, stem : Stems]
    BY <2>2, <2>3
  <2>5. at[m].folder \in Existing
    BY <1>1, <2>2, <2>4
  <2>6. at[m] \in [folder : Existing, stem : Stems]
    BY <2>2, <2>5
  <2> QED BY <2>6 DEF Present
<1>3. ASSUME m \in Present, f \in Existing => m \notin Under(PathOf[f])
      PROVE  m \in Present' /\ (ID(m))' = ID(m) /\ PathOf'[at[m].folder] = PathOf[at[m].folder]
  <2>1. /\ at[m].folder \in Existing /\ at[m].stem \in Stems
        /\ at[m] = [folder |-> at[m].folder, stem |-> at[m].stem]
    BY <1>3, IDFacts
  <2>2. f \in Existing => ~ IsPrefix(PathOf[f], PathOf[at[m].folder])
    BY <1>3, UnderIs, PathFacts
  <2>3. at[m].folder \in Existing' /\ PathOf'[at[m].folder] = PathOf[at[m].folder]
    BY <1>1, <2>1, <2>2
  <2>4. at'[m] \in [folder : Existing', stem : Stems]
    BY <2>1, <2>3
  <2> QED BY <2>3, <2>4 DEF Present, ID
<1> QED BY <1>2, <1>3

(* Where a new folder or a renamed one goes. *)
LEMMA PutRight ==
  ASSUME Tree(home), NEW p \in Paths, p # <<>>, Free(p)
  PROVE  /\ Put(p) \in Homes /\ Put(p) # Absent /\ Put(p).parent \in Existing
         /\ PathOf[Put(p).parent] = Front(p) /\ Append(PathOf[Put(p).parent], Put(p).name) = p
         /\ p \notin Known
<1>1. Front(p) \in Known /\ p \notin Known
  BY DEF Free
<1>2. Last(p) \in Names /\ p = Append(Front(p), Last(p))
  BY PrefixFront DEF Paths
<1>3. FolderAt(Front(p)) \in Existing /\ FolderAt(Front(p)) \in All /\ PathOf[FolderAt(Front(p))] = Front(p)
  BY <1>1, FolderAtRight
<1>4. Put(p) \in [parent : All, name : Names]
  BY <1>2, <1>3 DEF Put
<1>5. Put(p).parent = FolderAt(Front(p)) /\ Put(p).name = Last(p)
  BY DEF Put
<1> QED BY <1>1, <1>2, <1>3, <1>4, <1>5, OrganizeAssumption DEF Homes

LEMMA RenameHome ==
  ASSUME Tree(home), NEW j \in FolderJobs, j.to # <<>>, CanRename(j), Moved(j)
  PROVE  /\ FolderAt(j.from) \in FolderIds /\ FolderAt(j.from) \in Existing
         /\ PathOf[FolderAt(j.from)] = j.from /\ Rehomes(FolderAt(j.from), Put(j.to))
<1>1. j.from \in Paths /\ j.to \in Paths /\ j.from \in Known /\ Free(j.to) /\ ~ IsPrefix(j.from, j.to)
  BY DEF FolderJobs, CanRename
<1>2. j.from # <<>>
  BY <1>1, PrefixEmpty DEF Paths
<1>3. /\ FolderAt(j.from) \in FolderIds /\ FolderAt(j.from) \in Existing
      /\ PathOf[FolderAt(j.from)] = j.from
  BY <1>1, <1>2, FolderAtRight
<1>4. /\ Put(j.to) \in Homes /\ Put(j.to) # Absent /\ Put(j.to).parent \in Existing
      /\ PathOf[Put(j.to).parent] = Front(j.to) /\ Append(PathOf[Put(j.to).parent], Put(j.to).name) = j.to
      /\ j.to \notin Known
  BY <1>1, PutRight
<1>5. ~ IsPrefix(j.from, Front(j.to))
  <2> SUFFICES ASSUME IsPrefix(j.from, Front(j.to)) PROVE FALSE
    OBVIOUS
  <2>1. Front(j.to) \in Seq(Names) /\ Last(j.to) \in Names /\ j.to = Append(Front(j.to), Last(j.to))
    BY <1>1, PrefixFront DEF Paths
  <2>2. IsPrefix(j.from, Append(Front(j.to), Last(j.to)))
    BY <1>1, <2>1, PrefixAppend DEF Paths
  <2> QED BY <1>1, <2>1, <2>2
<1>6. home' = Rehomed(home, FolderAt(j.from), Put(j.to))
  BY DEF Moved, Rehomed
<1> QED BY <1>3, <1>4, <1>5, <1>6 DEF Rehomes

LEMMA CreateHome ==
  ASSUME Tree(home), NEW p \in Paths, p # <<>>, NEW f \in FolderIds, Fresh(f), Free(p),
         home' = [home EXCEPT ![f] = Put(p)]
  PROVE  Rehomes(f, Put(p))
BY PutRight, FreshFacts DEF Rehomes, Rehomed

LEMMA DeleteHome ==
  ASSUME Tree(home), NEW p \in Paths, p # <<>>, p \in Known, home' = [home EXCEPT ![FolderAt(p)] = Absent]
  PROVE  Rehomes(FolderAt(p), Absent)
<1>1. FolderAt(p) \in FolderIds /\ FolderAt(p) \in Existing
  BY FolderAtRight
<1>2. Absent \in Homes
  BY DEF Homes
<1> QED BY <1>1, <1>2 DEF Rehomes, Rehomed

LEMMA ForeignHome ==
  ASSUME Tree(home), ForeignFolder
  PROVE  \E f, h : Rehomes(f, h) /\ touched' = touched \cup {f} \cup
            (IF f \in Existing THEN Under(PathOf[f]) \cup {g \in Existing : IsPrefix(PathOf[f], PathOf[g])}
             ELSE {})
<1>1. PICK f \in FolderIds :
       /\ \E h \in Homes :
            /\ h # home[f]
            /\ h # Absent => h.parent \in Existing /\ Append(PathOf[h.parent], h.name) \notin Known
            /\ f \in Existing /\ h # Absent => ~ IsPrefix(PathOf[f], PathOf[h.parent])
            /\ home' = [home EXCEPT ![f] = h]
            /\ f \in Existing \/ Fresh(f)
       /\ touched' = touched \cup {f} \cup
            (IF f \in Existing THEN Under(PathOf[f]) \cup {g \in Existing : IsPrefix(PathOf[f], PathOf[g])}
             ELSE {})
  BY DEF ForeignFolder
<1>2. PICK h \in Homes :
            /\ h # Absent => h.parent \in Existing /\ Append(PathOf[h.parent], h.name) \notin Known
            /\ f \in Existing /\ h # Absent => ~ IsPrefix(PathOf[f], PathOf[h.parent])
            /\ home' = [home EXCEPT ![f] = h]
            /\ f \in Existing \/ Fresh(f)
  BY <1>1
<1>3. Rehomes(f, h)
  BY <1>2 DEF Rehomes, Rehomed
<1> QED BY <1>1, <1>3

-----------------------------------------------------------------------------
(* Every step keeps the types, the tree, one mod in a place, and folder    *)
(* calls alone.                                                            *)
LEMMA InitDisk == OrganizeInit => DiskInv
<1> SUFFICES ASSUME OrganizeInit PROVE DiskInv
  OBVIOUS
<1>1. Tree(home)
  BY OrganizeAssumption DEF OrganizeInit, Tree, NoRing, Siblings
<1>2. JobTypes
  BY DEF OrganizeInit, JobTypes
<1>3. DocumentTypes
  BY DEF OrganizeInit, DocumentTypes
<1>4. HistoryTypes
  BY DEF OrganizeInit, HistoryTypes
<1>5. at \in [Mods -> Spots] /\ MovedOnce /\ CounterTypes
  BY OrganizeAssumption DEF OrganizeInit, MovedOnce, CounterTypes
<1>6. FolderShape /\ Alone
  BY DEF OrganizeInit, FolderShape, Alone
<1> QED BY <1>1, <1>2, <1>3, <1>4, <1>5, <1>6 DEF DiskInv, OrganizeTypeOK

LEMMA CountersOK ==
  ASSUME CounterTypes, Works \/ Fails \/ Called \/ TagCalled \/ Interferes
  PROVE  CounterTypes'
BY DEF CounterTypes, Works, Fails, Called, TagCalled, Interferes, counters

LEMMA JobFacts ==
  ASSUME JobTypes, NEW m \in Mods, job[m].phase \in {"scan", "move", "rescan", "reconcile"}
  PROVE  /\ job[m] \in ModJobs /\ job[m].id \in IDs /\ job[m].to \in Paths /\ job[m].stem \in Stems
         /\ Target(job[m]) \in IDs /\ job[m].entry \in Mods \cup {None} /\ job[m] # NoJob
         /\ Target(job[m]) = Append(job[m].to, job[m].stem)
<1>1. job[m] \in ModJobs /\ job[m] # NoJob
  BY DEF JobTypes, NoJob
<1>2. job[m].id \in IDs /\ job[m].to \in Paths /\ job[m].stem \in Stems /\ job[m].entry \in Mods \cup {None}
  BY <1>1 DEF ModJobs
<1>3. job[m].to \in Seq(Names \cup Stems) /\ job[m].stem \in Names \cup Stems
  BY <1>2 DEF Paths
<1>4. Target(job[m]) \in IDs
  BY <1>3 DEF Target, IDs
<1> QED BY <1>1, <1>2, <1>4 DEF Target

LEMMA ModDisk ==
  ASSUME DiskInv, NEW m \in Mods, ModCall(m)
  PROVE  DiskInv' /\ UNCHANGED <<home, folderJob, touched>>
<1>1. /\ OrganizeTypeOK /\ Tree(home) /\ MovedOnce /\ FolderShape /\ Alone
      /\ at \in [Mods -> Spots] /\ JobTypes /\ DocumentTypes /\ HistoryTypes /\ CounterTypes
  BY DEF DiskInv, OrganizeTypeOK
<1>2. folderJob = NoJob /\ UNCHANGED <<home, folderJob, touched, request, wanted, carried>>
  <2>1. CASE RequestMod(m)
    BY <2>1 DEF RequestMod, disk, history
  <2>2. CASE ~ RequestMod(m)
    <3>1. job[m] # NoJob
      BY <2>2 DEF ModCall, ScanMod, MoveMod, RescanMod, Reconcile, NoJob
    <3>2. folderJob = NoJob
      BY <1>1, <3>1 DEF Alone, Idle
    <3> QED BY <2>2, <3>2 DEF ModCall, ScanMod, MoveMod, RescanMod, Reconcile, ModOnly, disk
  <2> QED BY <2>1, <2>2
<1>3. CounterTypes'
  BY <1>1, CountersOK DEF ModCall, RequestMod, ScanMod, MoveMod, RescanMod, Reconcile
<1>4. FolderShape' /\ Alone' /\ Tree(home)'
  BY <1>1, <1>2 DEF FolderShape, Alone
<1>5. job' \in [Mods -> ModJobs \cup {NoJob}]
  <2>1. CASE RequestMod(m)
    <3>1. PICK op \in {"relocate", "delete"}, to \in Known, s \in Stems :
            job' = [job EXCEPT ![m] =
               [phase |-> "scan", op |-> op, id |-> ID(m), to |-> to, stem |-> s, entry |-> None]]
      BY <2>1 DEF RequestMod
    <3>2. ID(m) \in IDs /\ to \in Paths
      BY <1>1, <2>1, IDFacts, PathFacts DEF RequestMod
    <3>3. [phase |-> "scan", op |-> op, id |-> ID(m), to |-> to, stem |-> s, entry |-> None] \in ModJobs
      BY <3>2 DEF ModJobs
    <3> QED BY <1>1, <3>1, <3>3 DEF JobTypes
  <2>2. CASE Ends(m)
    BY <1>1, <2>2 DEF Ends, JobTypes
  <2>3. CASE ScanMod(m) /\ ~ Ends(m)
    <3>1. PICK e \in ModsAt(job[m].id) : job' = [job EXCEPT ![m].phase = "move", ![m].entry = e]
      BY <2>3 DEF ScanMod
    <3>2. e \in Mods /\ job[m] \in ModJobs
      BY <1>1, <2>3, JobFacts DEF ScanMod, ModsAt, Present
    <3>3. [job[m] EXCEPT !.phase = "move", !.entry = e] \in ModJobs
      BY <3>2 DEF ModJobs
    <3>4. job' = [job EXCEPT ![m] = [job[m] EXCEPT !.phase = "move", !.entry = e]]
      BY <1>1, <3>1, <3>2 DEF JobTypes
    <3> QED BY <1>1, <3>3, <3>4 DEF JobTypes
  <2>4. CASE MoveMod(m) /\ ~ Ends(m)
    <3>1. job' = [job EXCEPT ![m].phase = "rescan"] /\ job[m] \in ModJobs
      BY <1>1, <2>4, JobFacts DEF MoveMod
    <3> QED BY <1>1, <3>1 DEF JobTypes, ModJobs
  <2>5. CASE RescanMod(m) /\ ~ Ends(m)
    <3>1. job' = [job EXCEPT ![m].phase = "reconcile"] /\ job[m] \in ModJobs
      BY <1>1, <2>5, JobFacts DEF RescanMod
    <3> QED BY <1>1, <3>1 DEF JobTypes, ModJobs
  <2>6. CASE Reconcile(m)
    BY <2>2, <2>6 DEF Reconcile
  <2> QED BY <2>1, <2>2, <2>3, <2>4, <2>5, <2>6 DEF ModCall
<1>6. DocumentTypes'
  <2>1. CASE UNCHANGED <<records, catalog>>
    BY <1>1, <2>1 DEF DocumentTypes
  <2>2. CASE ~ UNCHANGED <<records, catalog>>
    <3>1. Reconcile(m)
      BY <2>2 DEF ModCall, RequestMod, ScanMod, MoveMod, RescanMod, document
    <3>2. PICK i \in RecordsOf(job[m].id) : records' = [records EXCEPT ![i].scanner = Target(job[m])]
      BY <2>2, <3>1 DEF Reconcile
    <3>3. catalog' = catalog /\ i \in DOMAIN records /\ Target(job[m]) \in IDs
      BY <1>1, <3>1, JobFacts DEF Reconcile, RecordsOf
    <3>4. records \in Seq(Records)
      BY <1>1 DEF DocumentTypes
    <3>5. records[i] \in Records
      BY <3>3, <3>4
    <3>6. [records[i] EXCEPT !.scanner = Target(job[m])] \in Records
      BY <3>3, <3>5 DEF Records
    <3>7. records' = [records EXCEPT ![i] = [records[i] EXCEPT !.scanner = Target(job[m])]]
      BY <3>2
    <3>8. records' \in Seq(Records)
      BY <3>3, <3>4, <3>6, <3>7
    <3> QED BY <1>1, <3>3, <3>8 DEF DocumentTypes
  <2> QED BY <2>1, <2>2
<1>7. HistoryTypes'
  <2>1. reused' \in BOOLEAN
    BY <1>1 DEF ModCall, RequestMod, ScanMod, MoveMod, RescanMod, Reconcile, HistoryTypes, history
  <2>2. told' \subseteq Mods \cup {None}
    <3>1. CASE told' = told
      BY <1>1, <3>1 DEF HistoryTypes
    <3>2. CASE told' # told
      <4>1. told' = told \cup {job[m].entry} /\ (RescanMod(m) \/ Reconcile(m))
        BY <3>2 DEF ModCall, RequestMod, ScanMod, MoveMod, RescanMod, Reconcile, history
      <4>2. job[m].entry \in Mods \cup {None}
        BY <1>1, <4>1, JobFacts DEF RescanMod, Reconcile
      <4> QED BY <1>1, <4>1, <4>2 DEF HistoryTypes
    <3> QED BY <3>1, <3>2
  <2> QED BY <1>1, <1>2, <2>1, <2>2 DEF HistoryTypes
<1>8. at' \in [Mods -> Spots] /\ MovedOnce'
  <2> DEFINE j == job[m]
  <2>1. CASE at' = at
    BY <1>1, <2>1 DEF MovedOnce
  <2>2. CASE at' # at
    <3>1. /\ MoveMod(m) /\ j.phase = "move" /\ j.entry \in ModsAt(j.id)
          /\ \/ /\ j.to \in Known /\ ModsAt(Target(j)) = {}
                /\ at' = [at EXCEPT ![j.entry] = [folder |-> FolderAt(j.to), stem |-> j.stem]]
             \/ at' = [at EXCEPT ![j.entry] = Away]
      BY <2>2 DEF ModCall, RequestMod, ScanMod, MoveMod, RescanMod, Reconcile, disk
    <3>2. j.entry \in Mods /\ j.stem \in Stems /\ Target(j) = Append(j.to, j.stem) /\ j.to \in Paths
      BY <1>1, <3>1, JobFacts DEF ModsAt, Present
    <3>3. CASE at' = [at EXCEPT ![j.entry] = Away]
      <4>1. Away \in Spots /\ Away \notin [folder : All, stem : Stems]
        BY OrganizeAssumption DEF Spots
      <4> HIDE DEF j
      <4> QED BY <1>1, <3>2, <3>3, <4>1 DEF MovedOnce
    <3>4. CASE /\ j.to \in Known /\ ModsAt(Target(j)) = {}
               /\ at' = [at EXCEPT ![j.entry] = [folder |-> FolderAt(j.to), stem |-> j.stem]]
      <4> DEFINE s == [folder |-> FolderAt(j.to), stem |-> j.stem]
      <4>1. FolderAt(j.to) \in Existing /\ FolderAt(j.to) \in All /\ PathOf[FolderAt(j.to)] = j.to
        BY <1>1, <3>4, FolderAtRight
      <4>2. s \in [folder : All, stem : Stems] /\ s \in [folder : Existing, stem : Stems] /\ s \in Spots
        BY <3>2, <4>1 DEF Spots
      <4>3. ASSUME NEW n \in Mods, at[n] = s PROVE FALSE
        <5>1. n \in Present
          BY <4>2, <4>3 DEF Present
        <5>2. ID(n) = Target(j)
          BY <3>2, <4>1, <4>3 DEF ID
        <5> QED BY <3>4, <5>1, <5>2 DEF ModsAt
      <4>4. at' = [at EXCEPT ![j.entry] = s]
        BY <3>4
      <4> HIDE DEF j, s
      <4> QED BY <1>1, <3>2, <4>2, <4>3, <4>4 DEF MovedOnce
    <3> QED BY <3>1, <3>3, <3>4
  <2> QED BY <2>1, <2>2
<1> QED BY <1>1, <1>2, <1>3, <1>4, <1>5, <1>6, <1>7, <1>8 DEF DiskInv, OrganizeTypeOK, JobTypes

LEMMA FolderFacts ==
  ASSUME JobTypes, FolderShape, folderJob.phase \in {"plan", "apply", "remove", "verify", "ok", "failed"}
  PROVE  /\ folderJob \in FolderJobs /\ folderJob # NoJob /\ folderJob.from \in Paths /\ folderJob.to \in Paths
         /\ folderJob.to # <<>> /\ (folderJob.op # "create" => folderJob.from # <<>>)
         /\ folderJob.mods \subseteq Mods /\ folderJob.copied \subseteq Mods
         /\ folderJob.folder \in All \cup {None}
<1>1. folderJob \in FolderJobs /\ folderJob # NoJob
  BY DEF JobTypes, NoJob
<1> QED BY <1>1 DEF FolderJobs, FolderShape

LEMMA FolderStarted ==
  ASSUME FolderCall, ~ RequestFolder
  PROVE  folderJob.phase \in {"plan", "apply", "remove", "verify", "ok", "failed"}
BY DEF FolderCall, PlanFolder, MoveFolder, CreateFolder, DeleteFolder, RemoveTree, VerifyFolder, ShowFolder

LEMMA ReturnsType ==
  ASSUME JobTypes, FolderShape, folderJob # NoJob, NEW ok \in BOOLEAN, Returns(ok)
  PROVE  /\ folderJob' \in FolderJobs /\ FolderShape'
         /\ folderJob' = [folderJob EXCEPT !.phase = IF ok THEN "ok" ELSE "failed"]
         /\ folderJob'.phase = IF ok THEN "ok" ELSE "failed"
         /\ folderJob'.mods = folderJob.mods /\ folderJob'.folder = folderJob.folder
         /\ folderJob'.op = folderJob.op /\ folderJob'.to = folderJob.to /\ folderJob'.from = folderJob.from
<1>1. folderJob \in FolderJobs
  BY DEF JobTypes
<1> QED BY <1>1 DEF Returns, FolderJobs, FolderShape

LEMMA FolderJobType ==
  ASSUME DiskInv, FolderCall
  PROVE  folderJob' \in FolderJobs \cup {NoJob} /\ FolderShape'
<1>1. /\ JobTypes /\ Tree(home) /\ FolderShape
  BY DEF DiskInv, OrganizeTypeOK
<1>2. CASE RequestFolder
  <2>1. PICK op \in {"create", "move", "delete"}, from \in Known, to \in Known, n \in Names :
       /\ op # "create" => from # <<>>
       /\ folderJob' = [phase |-> "plan", op |-> op, from |-> from, to |-> Append(to, n),
                        folder |-> None, mods |-> {}, copied |-> {}]
    BY <1>2 DEF RequestFolder
  <2>2. from \in Paths /\ to \in Paths
    BY <1>1, PathFacts
  <2>3. Append(to, n) \in Paths /\ Append(to, n) # <<>>
    BY <2>2 DEF Paths
  <2> QED BY <2>1, <2>2, <2>3 DEF FolderJobs, FolderShape
<1>3. CASE ~ RequestFolder
  <2>1. /\ folderJob \in FolderJobs /\ folderJob # NoJob /\ folderJob.from \in Paths /\ folderJob.to \in Paths
        /\ folderJob.to # <<>> /\ (folderJob.op # "create" => folderJob.from # <<>>)
    BY <1>1, <1>3, FolderFacts, FolderStarted
  <2>2. CASE \E ok \in BOOLEAN : Returns(ok)
    BY <1>1, <2>1, <2>2, ReturnsType
  <2>3. CASE ShowFolder
    BY <2>3 DEF ShowFolder, FolderShape
  <2>4. CASE PlanFolder /\ ~ \E ok \in BOOLEAN : Returns(ok)
    <3>1. /\ folderJob.from \in Known
          /\ folderJob' = [folderJob EXCEPT !.phase = "apply", !.folder = FolderAt(folderJob.from),
                                    !.mods = Under(folderJob.from)]
      BY <2>4 DEF PlanFolder
    <3>2. FolderAt(folderJob.from) \in All /\ Under(folderJob.from) \subseteq Mods
      BY <1>1, <3>1, FolderAtRight DEF Under, Present
    <3> QED BY <2>1, <3>1, <3>2 DEF FolderJobs, FolderShape
  <2>5. CASE MoveFolder /\ ~ \E ok \in BOOLEAN : Returns(ok)
    <3>1. folderJob' = [folderJob EXCEPT !.phase = "verify"]
      BY <2>5 DEF MoveFolder
    <3> QED BY <2>1, <3>1 DEF FolderJobs, FolderShape
  <2>6. CASE CreateFolder /\ ~ \E ok \in BOOLEAN : Returns(ok)
    <3>1. PICK f \in FolderIds : folderJob' = [folderJob EXCEPT !.phase = "verify", !.folder = f]
      BY <2>6 DEF CreateFolder
    <3> QED BY <2>1, <3>1 DEF FolderJobs, FolderShape, All
  <2>7. CASE DeleteFolder /\ ~ \E ok \in BOOLEAN : Returns(ok)
    <3>1. \/ folderJob' = [folderJob EXCEPT !.phase = "verify"]
          \/ folderJob' = [folderJob EXCEPT !.phase = "remove", !.copied = Under(folderJob.from)]
      BY <2>7 DEF DeleteFolder
    <3>2. Under(folderJob.from) \subseteq Mods /\ folderJob.op = "delete"
      BY <2>7 DEF Under, Present, DeleteFolder
    <3> QED BY <2>1, <3>1, <3>2 DEF FolderJobs, FolderShape
  <2>8. CASE RemoveTree /\ ~ \E ok \in BOOLEAN : Returns(ok)
    <3>1. folderJob' = [folderJob EXCEPT !.phase = "verify"]
      BY <2>8 DEF RemoveTree
    <3> QED BY <2>1, <3>1 DEF FolderJobs, FolderShape
  <2>9. CASE VerifyFolder
    <3>1. \E ok \in BOOLEAN : Returns(ok)
      <4> DEFINE ok == /\ folderJob.op # "delete" => folderJob.to \in Known
                       /\ folderJob.op # "create" => folderJob.from \notin Known
      <4>1. Returns(ok) /\ ok \in BOOLEAN
        BY <2>9 DEF VerifyFolder
      <4> QED BY <4>1
    <3> QED BY <2>2, <3>1
  <2> QED BY <1>3, <2>2, <2>3, <2>4, <2>5, <2>6, <2>7, <2>8, <2>9 DEF FolderCall
<1> QED BY <1>2, <1>3

(* What a folder call does to the folders. *)
LEMMA FolderHome ==
  ASSUME DiskInv, FolderCall
  PROVE  UNCHANGED home \/ \E f, h : Rehomes(f, h)
<1>1. JobTypes /\ Tree(home) /\ FolderShape
  BY DEF DiskInv, OrganizeTypeOK
<1>2. CASE MoveFolder /\ home' # home
  <2>1. CanRename(folderJob) /\ Moved(folderJob) /\ folderJob.phase = "apply"
    BY <1>2 DEF MoveFolder
  <2>2. folderJob \in FolderJobs /\ folderJob.to # <<>>
    BY <1>1, <2>1, FolderFacts
  <2> QED BY <1>1, <2>1, <2>2, RenameHome
<1>3. CASE CreateFolder /\ home' # home
  <2>1. PICK f \in FolderIds : Fresh(f) /\ Free(folderJob.to) /\ home' = [home EXCEPT ![f] = Put(folderJob.to)]
    BY <1>3 DEF CreateFolder
  <2>2. folderJob.to \in Paths /\ folderJob.to # <<>>
    BY <1>1, <1>3, FolderFacts DEF CreateFolder
  <2> QED BY <1>1, <2>1, <2>2, CreateHome
<1>4. CASE (DeleteFolder \/ RemoveTree) /\ home' # home
  <2>1. folderJob.from \in Known /\ home' = [home EXCEPT ![FolderAt(folderJob.from)] = Absent]
    BY <1>4 DEF DeleteFolder, RemoveTree
  <2>2. folderJob.phase \in {"apply", "remove"} /\ folderJob.op = "delete"
    BY <1>1, <1>4, FolderFacts DEF DeleteFolder, RemoveTree, FolderShape
  <2>3. folderJob.from \in Paths /\ folderJob.from # <<>>
    BY <1>1, <2>2, FolderFacts
  <2> QED BY <1>1, <2>1, <2>3, DeleteHome
<1>5. CASE home' = home
  BY <1>5
<1> QED BY <1>2, <1>3, <1>4, <1>5 DEF FolderCall, RequestFolder, PlanFolder, VerifyFolder, ShowFolder, disk

(* And to the mods: RemoveAll may lose them. *)
LEMMA FolderMods ==
  ASSUME DiskInv, FolderCall
  PROVE  /\ at' \in [Mods -> Spots] /\ MovedOnce'
         /\ \A m \in Mods : at'[m] = at[m] \/ at'[m] \in {Lost, Unlisted}
<1>1. at \in [Mods -> Spots] /\ MovedOnce
  BY DEF DiskInv, OrganizeTypeOK
<1>2. at' \in [Mods -> Spots] /\ \A m \in Mods : at'[m] = at[m] \/ at'[m] \in {Lost, Unlisted}
  <2>1. CASE at' = at
    BY <1>1, <2>1
  <2>2. CASE at' # at
    <3>1. RemoveTree
      BY <2>2 DEF FolderCall, RequestFolder, PlanFolder, MoveFolder, CreateFolder, DeleteFolder, VerifyFolder,
                  ShowFolder, disk
    <3>2. /\ \E S, T : at' = [m \in Mods |-> IF m \in S THEN (IF m \in T THEN Unlisted ELSE Lost) ELSE at[m]]
      <4>1. CASE \E removed \in SUBSET Under(folderJob.from) :
                   at' = [m \in Mods |-> IF m \in removed THEN (IF m \in folderJob.copied THEN Unlisted ELSE Lost) ELSE at[m]]
        BY <4>1
      <4>2. CASE at' = [m \in Mods |-> IF m \in Under(folderJob.from) \ folderJob.copied THEN Lost ELSE at[m]]
        <5>1. at' = [m \in Mods |-> IF m \in Under(folderJob.from) \ folderJob.copied THEN (IF m \in {} THEN Unlisted ELSE Lost) ELSE at[m]]
          BY <4>2
        <5> QED BY <5>1
      <4> QED BY <3>1, <4>1, <4>2 DEF RemoveTree
    <3>3. Unlisted \in Spots /\ Lost \in Spots
      BY DEF Spots
    <3> QED BY <1>1, <3>2, <3>3
  <2> QED BY <2>1, <2>2
<1>3. Lost \notin [folder : All, stem : Stems] /\ Unlisted \notin [folder : All, stem : Stems]
  BY OrganizeAssumption
<1>4. MovedOnce'
  BY <1>1, <1>2, <1>3 DEF MovedOnce
<1> QED BY <1>2, <1>4

LEMMA FolderDisk == ASSUME DiskInv, FolderCall PROVE DiskInv'
<1>1. /\ OrganizeTypeOK /\ Tree(home) /\ Alone
      /\ JobTypes /\ DocumentTypes /\ HistoryTypes /\ CounterTypes
  BY DEF DiskInv, OrganizeTypeOK
<1>2. Tree(home)'
  BY <1>1, FolderHome, RehomesTree
<1>3. UNCHANGED <<document, job, request, wanted, told, touched>>
  BY DEF FolderCall, RequestFolder, PlanFolder, MoveFolder, CreateFolder, DeleteFolder, RemoveTree, VerifyFolder,
         ShowFolder, FolderOnly, history
<1>4. Alone'
  <2>1. Idle
    BY <1>1, FolderStarted, FolderFacts DEF Alone, RequestFolder, NoJob
  <2> QED BY <1>3, <2>1 DEF Alone, Idle
<1>5. CounterTypes'
  BY <1>1, CountersOK DEF FolderCall, RequestFolder, PlanFolder, MoveFolder, CreateFolder, DeleteFolder, RemoveTree,
         VerifyFolder, ShowFolder
<1>6. HistoryTypes'
  <2>1. reused' \in BOOLEAN /\ carried' \subseteq Mods
    BY <1>1 DEF FolderCall, RequestFolder, PlanFolder, MoveFolder, CreateFolder, DeleteFolder, RemoveTree, VerifyFolder,
         ShowFolder, HistoryTypes, history, Under, Present
  <2> QED BY <1>1, <1>3, <2>1 DEF HistoryTypes
<1>7. JobTypes' /\ DocumentTypes'
  BY <1>1, <1>3, FolderJobType DEF JobTypes, DocumentTypes, document
<1> QED BY <1>2, <1>4, <1>5, <1>6, <1>7, FolderJobType, FolderMods DEF DiskInv, OrganizeTypeOK

(* EnsureMod gives a document and the place of a record in it. *)
LEMMA EnsuredRight ==
  ASSUME JobTypes, DocumentTypes, NEW id \in IDs, NEW e \in Ensured(id)
  PROVE  /\ e[1] \in Seq(Records) /\ e[2] \in DOMAIN e[1] /\ e[1][e[2]].scanner = id
         /\ \/ e[1] = records /\ e[2] \in RecordsOf(id)
            \/ /\ RecordsOf(id) = {} /\ e[2] = Len(records) + 1
               /\ e[1] = Append(records, [scanner |-> id, tags |-> {}, owner |-> OwnerOf(id)])
<1>1. records \in Seq(Records)
  BY DEF DocumentTypes
<1>2. CASE RecordsOf(id) # {}
  <2>1. PICK i \in RecordsOf(id) : e = <<records, i>>
    BY <1>2 DEF Ensured
  <2> QED BY <1>1, <2>1 DEF RecordsOf
<1>3. CASE RecordsOf(id) = {}
  <2> DEFINE r == [scanner |-> id, tags |-> {}, owner |-> OwnerOf(id)]
  <2>1. e = <<Append(records, r), Len(records) + 1>>
    BY <1>3 DEF Ensured
  <2>2. OwnerOf(id) \in Mods \cup {None}
    <3> DEFINE moving == {job[m].entry : m \in {n \in Mods : job[n].phase \in {"rescan", "reconcile"} /\ job[n].id = id}}
               owners == ModsAt(id) \cup moving
    <3>1. moving \subseteq Mods \cup {None}
      BY JobFacts
    <3>2. owners \subseteq Mods \cup {None}
      BY <3>1 DEF ModsAt, Present
    <3>3. OwnerOf(id) = IF owners = {} THEN None ELSE CHOOSE m \in owners : TRUE
      BY DEF OwnerOf
    <3> HIDE DEF owners
    <3> QED BY <3>2, <3>3
  <2>3. r \in Records
    BY <2>2 DEF Records
  <2>4. r.scanner = id
    OBVIOUS
  <2> HIDE DEF r
  <2>5. /\ Append(records, r) \in Seq(Records) /\ Append(records, r)[Len(records) + 1] = r
        /\ Len(records) + 1 \in DOMAIN Append(records, r)
    BY <1>1, <2>3
  <2>6. e[1] = Append(records, r) /\ e[2] = Len(records) + 1
    BY <2>1
  <2> QED BY <1>3, <2>4, <2>5, <2>6 DEF r
<1> QED BY <1>2, <1>3

LEMMA TagDisk == ASSUME DiskInv, TagCall PROVE DiskInv' /\ UNCHANGED <<disk, job, folderJob, told, carried, touched>>
<1>1. /\ OrganizeTypeOK /\ Tree(home) /\ MovedOnce /\ FolderShape /\ Alone
      /\ JobTypes /\ DocumentTypes /\ HistoryTypes /\ CounterTypes
  BY DEF DiskInv, OrganizeTypeOK
<1>2. UNCHANGED <<disk, job, folderJob, told, carried, touched>>
  BY DEF TagCall, CreateTag, RenameTag, DeleteTag, RequestTag, TagMod, DocumentOnly, history
<1>3. CounterTypes'
  BY <1>1, CountersOK DEF TagCall, CreateTag, RenameTag, DeleteTag, RequestTag, TagMod
<1>4. request' \in TagCalls \cup {NoJob}
  <2>1. CASE RequestTag
    <3>1. PICK m \in Present, t \in Live, op \in {"assign", "unassign"} :
            request' = [phase |-> op, mod |-> m, id |-> ID(m), tag |-> t]
      BY <2>1 DEF RequestTag
    <3>2. ID(m) \in IDs /\ m \in Mods /\ t \in Tags
      BY <1>1, IDFacts DEF Live
    <3> QED BY <3>1, <3>2 DEF TagCalls
  <2> QED BY <1>1, <2>1 DEF TagCall, CreateTag, RenameTag, DeleteTag, TagMod, JobTypes
<1>5. DocumentTypes' /\ wanted' \in [Mods -> SUBSET Tags]
  <2>1. records \in Seq(Records) /\ catalog \in [Tags -> TagNames \cup {"new", "deleted"}] /\ wanted \in [Mods -> SUBSET Tags]
    BY <1>1 DEF DocumentTypes, HistoryTypes
  <2>2. CASE CreateTag \/ RenameTag \/ RequestTag
    BY <2>1, <2>2 DEF CreateTag, RenameTag, RequestTag, DocumentTypes, document, history, Live
  <2>3. CASE DeleteTag
    <3>1. PICK t \in Live :
       /\ catalog' = [catalog EXCEPT ![t] = "deleted"]
       /\ records' = [i \in DOMAIN records |-> [records[i] EXCEPT !.tags = @ \ {t}]]
       /\ wanted' = [m \in Mods |-> wanted[m] \ {t}]
      BY <2>3 DEF DeleteTag
    <3>2. ASSUME NEW i \in DOMAIN records PROVE [records[i] EXCEPT !.tags = @ \ {t}] \in Records
      <4> DEFINE r == records[i]
      <4>1. r \in Records
        BY <2>1
      <4> HIDE DEF r
      <4>2. [r EXCEPT !.tags = @ \ {t}] \in Records
        BY <4>1 DEF Records
      <4> QED BY <4>2 DEF r
    <3>3. records' \in Seq(Records)
      <4> DEFINE Bared(i) == [records[i] EXCEPT !.tags = @ \ {t}]
                 n == Len(records)
      <4>1. n \in Nat /\ DOMAIN records = 1 .. n
        BY <2>1
      <4>2. \A i \in 1 .. n : Bared(i) \in Records
        BY <3>2, <4>1
      <4>3. records' = [i \in 1 .. n |-> Bared(i)]
        BY <3>1, <4>1
      <4> HIDE DEF Bared, n
      <4> QED BY <4>1, <4>2, <4>3
    <3> QED BY <2>1, <3>1, <3>3 DEF DocumentTypes
  <2>4. CASE TagMod
    <3>1. request \in TagCalls /\ request.id \in IDs /\ request.tag \in Tags /\ request.mod \in Mods
      BY <1>1, <2>4 DEF TagMod, JobTypes, TagCalls
    <3>2. CASE UNCHANGED <<records, wanted>>
      BY <2>1, <2>4, <3>2 DEF TagMod, DocumentTypes
    <3>3. CASE ~ UNCHANGED <<records, wanted>>
      <4>1. PICK e \in Ensured(request.id), S \in SUBSET Tags :
              /\ records' = [e[1] EXCEPT ![e[2]].tags = S]
              /\ wanted' \in [Mods -> SUBSET Tags] /\ catalog' = catalog
        <5>1. \/ \E e \in Ensured(request.id) : records' = [e[1] EXCEPT ![e[2]].tags = @ \cup {request.tag}]
              \/ \E e \in Ensured(request.id) : records' = [e[1] EXCEPT ![e[2]].tags = @ \ {request.tag}]
          BY <2>4, <3>3 DEF TagMod
        <5>2. /\ wanted' \in [Mods -> SUBSET Tags] /\ catalog' = catalog
          BY <2>1, <2>4, <3>1, <3>3 DEF TagMod
        <5>3. ASSUME NEW e \in Ensured(request.id) PROVE e[1][e[2]].tags \subseteq Tags
          <6>1. e[1] \in Seq(Records) /\ e[2] \in DOMAIN e[1]
            BY <1>1, <3>1, EnsuredRight
          <6>2. e[1][e[2]] \in Records
            BY <6>1
          <6> QED BY <6>2 DEF Records
        <5>4. PICK e \in Ensured(request.id) :
                \/ records' = [e[1] EXCEPT ![e[2]].tags = @ \cup {request.tag}]
                \/ records' = [e[1] EXCEPT ![e[2]].tags = @ \ {request.tag}]
          BY <5>1
        <5>5. CASE records' = [e[1] EXCEPT ![e[2]].tags = @ \cup {request.tag}]
          <6>1. records' = [e[1] EXCEPT ![e[2]].tags = e[1][e[2]].tags \cup {request.tag}]
            BY <5>5
          <6>2. e[1][e[2]].tags \cup {request.tag} \in SUBSET Tags
            BY <3>1, <5>3
          <6> QED BY <5>2, <6>1, <6>2
        <5>6. CASE records' = [e[1] EXCEPT ![e[2]].tags = @ \ {request.tag}]
          <6>1. records' = [e[1] EXCEPT ![e[2]].tags = e[1][e[2]].tags \ {request.tag}]
            BY <5>6
          <6>2. e[1][e[2]].tags \ {request.tag} \in SUBSET Tags
            BY <5>3
          <6> QED BY <5>2, <6>1, <6>2
        <5> QED BY <5>4, <5>5, <5>6
      <4>2. e[1] \in Seq(Records) /\ e[2] \in DOMAIN e[1]
        BY <1>1, <3>1, EnsuredRight
      <4>3. [e[1][e[2]] EXCEPT !.tags = S] \in Records
        <5> DEFINE r == e[1][e[2]]
        <5>1. r \in Records
          BY <4>2
        <5> HIDE DEF r
        <5>2. [r EXCEPT !.tags = S] \in Records
          BY <5>1 DEF Records
        <5> QED BY <5>2 DEF r
      <4>4. records' = [e[1] EXCEPT ![e[2]] = [e[1][e[2]] EXCEPT !.tags = S]]
        BY <4>1
      <4>5. records' \in Seq(Records)
        BY <4>2, <4>3, <4>4
      <4> QED BY <2>1, <4>1, <4>5 DEF DocumentTypes
    <3> QED BY <3>2, <3>3
  <2> QED BY <2>2, <2>3, <2>4 DEF TagCall
<1>6. reused' \in BOOLEAN
  BY <1>1 DEF TagCall, CreateTag, RenameTag, DeleteTag, RequestTag, TagMod, HistoryTypes, history
<1> QED BY <1>1, <1>2, <1>3, <1>4, <1>5, <1>6 DEF DiskInv, OrganizeTypeOK, JobTypes, HistoryTypes, MovedOnce, FolderShape,
                                                  Alone, Idle, disk

LEMMA ForeignDisk ==
  ASSUME DiskInv, ForeignFolder \/ ForeignMod
  PROVE  DiskInv' /\ reused' /\ UNCHANGED <<document, job, folderJob, request, wanted, told, carried>>
<1>1. /\ OrganizeTypeOK /\ Tree(home) /\ MovedOnce /\ FolderShape /\ Alone
      /\ JobTypes /\ DocumentTypes /\ HistoryTypes /\ CounterTypes /\ at \in [Mods -> Spots]
  BY DEF DiskInv, OrganizeTypeOK
<1>2. reused' = TRUE /\ UNCHANGED <<document, job, folderJob, request, wanted, told, carried>>
  BY DEF ForeignFolder, ForeignMod, Others
<1>3. CounterTypes'
  BY <1>1, CountersOK DEF ForeignFolder, ForeignMod
<1>4. CASE ForeignFolder
  <2>1. PICK f, h : Rehomes(f, h) /\ touched' = touched \cup {f} \cup
            (IF f \in Existing THEN Under(PathOf[f]) \cup {g \in Existing : IsPrefix(PathOf[f], PathOf[g])}
             ELSE {})
    BY <1>1, <1>4, ForeignHome
  <2>2. Tree(home)'
    BY <1>1, <2>1, RehomesTree
  <2>3. touched' \subseteq Mods \cup All
    BY <1>1, <2>1, PathFacts DEF Rehomes, All, Under, Present, HistoryTypes
  <2>4. at' = at
    BY <1>4 DEF ForeignFolder
  <2> QED BY <1>1, <1>2, <1>3, <2>2, <2>3, <2>4 DEF DiskInv, OrganizeTypeOK, JobTypes, DocumentTypes, HistoryTypes, MovedOnce,
             FolderShape, Alone, Idle, document
<1>5. CASE ForeignMod
  <2>1. PICK m \in Mods, s \in [folder : Existing, stem : Stems] \cup {Away} :
            /\ s # Away => ModsAt(Append(PathOf[s.folder], s.stem)) = {}
            /\ at' = [at EXCEPT ![m] = s] /\ touched' = touched \cup {m} /\ home' = home
    BY <1>5 DEF ForeignMod, Present
  <2>2. touched' \subseteq Mods \cup All
    BY <1>1, <2>1 DEF HistoryTypes
  <2>3. s \in Spots
    BY <1>1, <2>1, PathFacts DEF Spots
  <2>4. MovedOnce'
    <3>1. CASE s = Away
      <4>1. Away \notin [folder : All, stem : Stems]
        BY OrganizeAssumption
      <4> QED BY <1>1, <2>1, <3>1, <4>1 DEF MovedOnce
    <3>2. CASE s # Away
      <4>1. ASSUME NEW n \in Mods, at[n] = s PROVE FALSE
        <5>1. n \in Present
          BY <2>1, <3>2, <4>1 DEF Present
        <5>2. ID(n) = Append(PathOf[s.folder], s.stem)
          BY <4>1 DEF ID
        <5> QED BY <2>1, <3>2, <5>1, <5>2 DEF ModsAt
      <4> QED BY <1>1, <2>1, <4>1 DEF MovedOnce
    <3> QED BY <3>1, <3>2
  <2> QED BY <1>1, <1>2, <1>3, <2>1, <2>2, <2>3, <2>4 DEF DiskInv, OrganizeTypeOK, JobTypes, DocumentTypes, HistoryTypes,
             FolderShape, Alone, Idle, document
<1> QED BY <1>2, <1>4, <1>5

LEMMA DiskNext == DiskInv /\ [OrganizeNext]_organizeVars => DiskInv'
<1>1. ASSUME DiskInv, UNCHANGED organizeVars PROVE DiskInv'
  BY <1>1 DEF organizeVars, DiskInv, OrganizeTypeOK, JobTypes, DocumentTypes, HistoryTypes, CounterTypes, MovedOnce,
             FolderShape, Alone, Idle, disk, document, history, counters
<1> QED BY <1>1, ModDisk, FolderDisk, TagDisk, ForeignDisk DEF OrganizeNext

(* Every variable keeps its type, for any folders, mods, tags and numbers  *)
(* of calls: folder calls leave a tree of folders in which each mod has a  *)
(* place (RenameFolder, MoveFolder, DeleteFolder).                         *)
THEOREM OrganizeTypeCorrect == OrganizeSpec => []OrganizeTypeOK
<1>1. DiskInv => OrganizeTypeOK
  BY DEF DiskInv
<1> QED BY InitDisk, DiskNext, <1>1, PTL DEF OrganizeSpec

-----------------------------------------------------------------------------
(* Organize: tags. *)

TagInv == DiskInv /\ TagsKnown

(* What happens to the tags of the records. *)
LEMMA ModTags ==
  ASSUME DiskInv, NEW m \in Mods, ModCall(m)
  PROVE  catalog' = catalog /\ DOMAIN records' = DOMAIN records /\ \A i \in DOMAIN records : records'[i].tags = records[i].tags
<1>1. records \in Seq(Records) /\ JobTypes
  BY DEF DiskInv, OrganizeTypeOK, DocumentTypes
<1>2. CASE UNCHANGED <<records, catalog>>
  BY <1>2
<1>3. CASE ~ UNCHANGED <<records, catalog>>
  <2>1. Reconcile(m)
    BY <1>3 DEF ModCall, RequestMod, ScanMod, MoveMod, RescanMod, document
  <2>2. PICK i \in RecordsOf(job[m].id) : records' = [records EXCEPT ![i].scanner = Target(job[m])]
    BY <1>3, <2>1 DEF Reconcile
  <2>3. catalog' = catalog /\ i \in DOMAIN records
    BY <2>1 DEF Reconcile, RecordsOf
  <2>4. records[i] \in Records
    BY <1>1, <2>3
  <2>5. records' = [records EXCEPT ![i] = [records[i] EXCEPT !.scanner = Target(job[m])]]
    BY <2>2
  <2>6. [records[i] EXCEPT !.scanner = Target(job[m])].tags = records[i].tags
    BY <2>4 DEF Records
  <2> QED BY <1>1, <2>3, <2>5, <2>6
<1> QED BY <1>2, <1>3

LEMMA TagNext == TagInv /\ [OrganizeNext]_organizeVars => TagInv'
<1> SUFFICES ASSUME TagInv, [OrganizeNext]_organizeVars PROVE TagsKnown'
  BY DiskNext DEF TagInv
<1>1. /\ DiskInv /\ JobTypes /\ records \in Seq(Records) /\ catalog \in [Tags -> TagNames \cup {"new", "deleted"}]
      /\ \A i \in DOMAIN records : records[i].tags \subseteq Live
      /\ \A t, u \in Live : t # u => catalog[t] # catalog[u]
  BY DEF TagInv, TagsKnown, DiskInv, OrganizeTypeOK, DocumentTypes
<1>2. CASE UNCHANGED <<records, catalog>>
  BY <1>1, <1>2 DEF TagsKnown, Live
<1>3. CASE \E m \in Mods : ModCall(m)
  <2>1. catalog' = catalog /\ DOMAIN records' = DOMAIN records /\ \A i \in DOMAIN records : records'[i].tags = records[i].tags
    BY <1>1, <1>3, ModTags
  <2> QED BY <1>1, <2>1 DEF TagsKnown, Live
<1>4. CASE CreateTag
  <2>1. PICK t \in Tags, n \in TagNames :
       /\ catalog[t] = "new" /\ (\A u \in Live : catalog[u] # n) /\ catalog' = [catalog EXCEPT ![t] = n]
       /\ records' = records
    BY <1>4 DEF CreateTag
  <2>2. t \notin Live /\ Live' = Live \cup {t}
    BY <1>1, <2>1, OrganizeAssumption DEF Live
  <2>3. catalog'[t] = n /\ \A u \in Live : catalog'[u] = catalog[u] /\ u \in Tags
    BY <1>1, <2>1, <2>2 DEF Live
  <2> QED BY <1>1, <2>1, <2>2, <2>3 DEF TagsKnown
<1>5. CASE RenameTag
  <2>1. PICK t \in Live, n \in TagNames :
       /\ (\A u \in Live \ {t} : catalog[u] # n) /\ catalog' = [catalog EXCEPT ![t] = n]
       /\ records' = records
    BY <1>5 DEF RenameTag
  <2>2. Live' = Live
    BY <1>1, <2>1, OrganizeAssumption DEF Live
  <2>3. catalog'[t] = n /\ \A u \in Live \ {t} : catalog'[u] = catalog[u]
    BY <1>1, <2>1, <2>2 DEF Live
  <2> QED BY <1>1, <2>1, <2>2, <2>3 DEF TagsKnown
<1>6. CASE DeleteTag
  <2>1. PICK t \in Live :
       /\ catalog' = [catalog EXCEPT ![t] = "deleted"]
       /\ records' = [i \in DOMAIN records |-> [records[i] EXCEPT !.tags = @ \ {t}]]
    BY <1>6 DEF DeleteTag
  <2>2. Live' = Live \ {t} /\ \A u \in Live \ {t} : catalog'[u] = catalog[u]
    BY <1>1, <2>1, OrganizeAssumption DEF Live
  <2>3. ASSUME NEW i \in DOMAIN records PROVE records'[i].tags = records[i].tags \ {t}
    <3> DEFINE r == records[i]
    <3>1. r \in Records
      BY <1>1
    <3>2. records'[i] = [r EXCEPT !.tags = @ \ {t}]
      BY <2>1
    <3> HIDE DEF r
    <3>3. records'[i].tags = r.tags \ {t}
      BY <3>1, <3>2 DEF Records
    <3> QED BY <3>3 DEF r
  <2>4. DOMAIN records' = DOMAIN records
    BY <2>1
  <2> QED BY <1>1, <2>2, <2>3, <2>4 DEF TagsKnown
<1>7. CASE TagMod /\ ~ UNCHANGED <<records, catalog>>
  <2>1. /\ request \in TagCalls /\ request.id \in IDs
        /\ catalog' = catalog
    BY <1>1, <1>7 DEF TagMod, JobTypes, TagCalls, DiskInv, OrganizeTypeOK
  <2>2. PICK e \in Ensured(request.id) :
          \/ request.tag \in Live /\ records' = [e[1] EXCEPT ![e[2]].tags = @ \cup {request.tag}]
          \/ records' = [e[1] EXCEPT ![e[2]].tags = @ \ {request.tag}]
    BY <1>7, <2>1 DEF TagMod
  <2>3. /\ e[1] \in Seq(Records) /\ e[2] \in DOMAIN e[1]
        /\ \A i \in DOMAIN e[1] : e[1][i].tags \subseteq Live
    <3>1. DocumentTypes
      BY <1>1 DEF DiskInv, OrganizeTypeOK
    <3>2. /\ e[1] \in Seq(Records) /\ e[2] \in DOMAIN e[1]
          /\ \/ e[1] = records
             \/ e[1] = Append(records, [scanner |-> request.id, tags |-> {}, owner |-> OwnerOf(request.id)])
      BY <1>1, <2>1, <3>1, EnsuredRight
    <3>3. CASE e[1] = records
      BY <1>1, <3>2, <3>3
    <3>4. ASSUME NEW r, r.tags = {}, e[1] = Append(records, r), NEW i \in DOMAIN e[1]
          PROVE  e[1][i].tags \subseteq Live
      BY <1>1, <3>4
    <3>5. [scanner |-> request.id, tags |-> {}, owner |-> OwnerOf(request.id)].tags = {}
      OBVIOUS
    <3> QED BY <3>2, <3>3, <3>4, <3>5
  <2>4. PICK S \in SUBSET Live : records' = [e[1] EXCEPT ![e[2]].tags = S]
    <3>1. CASE request.tag \in Live /\ records' = [e[1] EXCEPT ![e[2]].tags = @ \cup {request.tag}]
      <4>1. e[1][e[2]].tags \cup {request.tag} \in SUBSET Live
        BY <2>3, <3>1
      <4> QED BY <3>1, <4>1
    <3>2. CASE records' = [e[1] EXCEPT ![e[2]].tags = @ \ {request.tag}]
      <4>1. e[1][e[2]].tags \ {request.tag} \in SUBSET Live
        BY <2>3
      <4> QED BY <3>2, <4>1
    <3> QED BY <2>2, <3>1, <3>2
  <2>5. [e[1][e[2]] EXCEPT !.tags = S].tags = S
    <3>1. e[1][e[2]] \in Records
      BY <2>3
    <3> QED BY <3>1 DEF Records
  <2>6. \A i \in DOMAIN records' : records'[i].tags \subseteq Live
    <3>1. records' = [e[1] EXCEPT ![e[2]] = [e[1][e[2]] EXCEPT !.tags = S]]
      BY <2>4
    <3> QED BY <2>3, <2>4, <2>5, <3>1
  <2> QED BY <1>1, <2>1, <2>6 DEF TagsKnown, Live
<1> QED BY <1>2, <1>3, <1>4, <1>5, <1>6, <1>7 DEF OrganizeNext, organizeVars, document, FolderCall, TagCall, RequestFolder,
      PlanFolder, MoveFolder, CreateFolder, DeleteFolder, RemoveTree, VerifyFolder, ShowFolder, FolderOnly, RequestTag,
      ForeignFolder, ForeignMod, Others

(* Every tag that a record carries is in the catalog and no two tags share *)
(* a name, through CreateTag, DeleteTag, SetModTags and the reconciling of *)
(* mods that move.                                                         *)
THEOREM TagsAreKnown == OrganizeSpec => []TagsKnown
<1>1. OrganizeInit => TagInv
  BY InitDisk, OrganizeAssumption DEF OrganizeInit, TagInv, TagsKnown, Live
<1>2. TagInv => TagsKnown
  BY DEF TagInv
<1> QED BY <1>1, <1>2, TagNext, PTL DEF OrganizeSpec

-----------------------------------------------------------------------------
(* Organize: the results of folder calls.                                 *)

(* While a folder call runs: the folder and the mods its scan saw, as far  *)
(* as no other program touched them, are where the call left them.         *)
Listed == folderJob.mods \ touched
PlannedHere ==
  folderJob.phase \in {"apply", "remove"} =>
    /\ Listed \subseteq Under(folderJob.from)
    /\ folderJob.folder \notin touched =>
         folderJob.folder \in Existing /\ PathOf[folderJob.folder] = folderJob.from
CopiedAll == folderJob.phase = "remove" => Listed \subseteq folderJob.copied
FolderDone ==
  folderJob.phase \in {"verify", "ok"} /\ folderJob.folder \notin touched =>
    IF folderJob.op = "delete" THEN folderJob.folder \notin Existing /\ Listed \cap Present = {}
    ELSE folderJob.folder \in Existing /\ PathOf[folderJob.folder] = folderJob.to
NoneLost == folderJob # NoJob => \A m \in Listed : at[m] # Lost
FolderInv == DiskInv /\ PlannedHere /\ CopiedAll /\ FolderDone /\ NoneLost

LEMMA NewPath ==
  ASSUME Tree(home), NEW f, NEW h, Rehomes(f, h), h # Absent
  PROVE  f \in Existing' /\ PathOf'[f] = Append(PathOf[h.parent], h.name)
<1>1. /\ Existing = DirsOf(home) /\ PathOf = PathsOf(home)
      /\ Existing' = DirsOf(home') /\ PathOf' = PathsOf(home')
  BY TreeNow, TreeNext
<1>2. f \in FolderIds /\ h \in Homes /\ home' = Rehomed(home, f, h) /\ home \in [FolderIds -> Homes]
  BY DEF Rehomes, Tree
<1>3. home'[f] = h
  BY <1>2 DEF Rehomed
<1>4. Tree(home') /\ home' \in [FolderIds -> Homes] /\ NoRing(home')
  BY RehomesTree DEF Tree
<1>5. h.parent \in Existing' /\ PathOf'[h.parent] = PathOf[h.parent]
  BY RehomesTree DEF Rehomes
<1>6. f \in Existing'
  BY <1>1, <1>2, <1>3, <1>4, <1>5, DirsRight
<1>7. PathOf'[f] = Append(PathOf'[h.parent], h.name)
  BY <1>1, <1>2, <1>3, <1>4, <1>6, PathsRight
<1> QED BY <1>5, <1>6, <1>7

LEMMA Removed ==
  ASSUME Tree(home), NEW f \in Existing, Rehomes(f, Absent)
  PROVE  f \notin Existing' /\ \A m \in Under(PathOf[f]) : at'[m] = at[m] => m \notin Present'
<1>1. /\ Existing = DirsOf(home) /\ PathOf = PathsOf(home)
      /\ Existing' = DirsOf(home') /\ PathOf' = PathsOf(home')
  BY TreeNow, TreeNext
<1>2. f \in FolderIds /\ home' = Rehomed(home, f, Absent)
  BY DEF Rehomes
<1>3. Tree(home') /\ Tree(Rehomed(home, f, Absent))
  BY <1>2, RehomesTree
<1>4. ASSUME NEW g \in Existing, IsPrefix(PathOf[f], PathOf[g]) PROVE g \notin Existing'
  <2>1. Below(home, f, g)
    BY <1>1, <1>4 DEF Below
  <2> QED BY <1>1, <1>2, <1>3, <2>1, Uprooted
<1>5. f \notin Existing'
  <2>1. IsPrefix(PathOf[f], PathOf[f])
    BY PathFacts, PrefixSelf DEF Paths
  <2> QED BY <1>4, <2>1
<1>6. ASSUME NEW m \in Under(PathOf[f]), at'[m] = at[m] PROVE m \notin Present'
  <2>1. m \in Present /\ m \in Mods /\ PathOf[f] \in Paths
    BY PathFacts DEF Under, Present
  <2>2. at[m].folder \in Existing /\ IsPrefix(PathOf[f], PathOf[at[m].folder])
    BY <1>6, <2>1, UnderIs, IDFacts
  <2>3. at[m].folder \notin Existing'
    BY <1>4, <2>2
  <2> QED BY <1>6, <2>3 DEF Present
<1> QED BY <1>5, <1>6

(* What another program did not touch is as it was. *)
LEMMA ForeignLeaves ==
  ASSUME DiskInv, ForeignFolder \/ ForeignMod
  PROVE  /\ touched \subseteq touched' /\ folderJob' = folderJob
         /\ \A m \in Mods \ touched' :
              at'[m] = at[m] /\ (m \in Present' <=> m \in Present) /\ (m \in Present => (ID(m))' = ID(m))
         /\ \A g \in (All \cup {None}) \ touched' :
              (g \in Existing' <=> g \in Existing) /\ (g \in Existing => PathOf'[g] = PathOf[g])
<1>1. Tree(home) /\ at \in [Mods -> Spots]
  BY DEF DiskInv, OrganizeTypeOK
<1>2. CASE ForeignFolder
  <2>1. PICK f, h : Rehomes(f, h) /\ touched' = touched \cup {f} \cup
            (IF f \in Existing THEN Under(PathOf[f]) \cup {g \in Existing : IsPrefix(PathOf[f], PathOf[g])}
             ELSE {})
    BY <1>1, <1>2, ForeignHome
  <2>2. at' = at /\ folderJob' = folderJob
    BY <1>2 DEF ForeignFolder, Others
  <2>3. ASSUME NEW m \in Mods \ touched'
        PROVE  (m \in Present' <=> m \in Present) /\ (m \in Present => (ID(m))' = ID(m))
    <3>1. f \in Existing => m \notin Under(PathOf[f])
      BY <2>1, <2>3
    <3> QED BY <1>1, <2>1, <2>2, <2>3, <3>1, RehomesMods
  <2>4. ASSUME NEW g \in (All \cup {None}) \ touched'
        PROVE  (g \in Existing' <=> g \in Existing) /\ (g \in Existing => PathOf'[g] = PathOf[g])
    <3>1. g # f /\ (f \in Existing /\ g \in Existing => ~ IsPrefix(PathOf[f], PathOf[g]))
      BY <2>1, <2>4
    <3> QED BY <1>1, <2>1, <3>1, RehomesTree
  <2> QED BY <2>1, <2>2, <2>3, <2>4
<1>3. CASE ForeignMod
  <2>1. PICK m \in Mods, s \in [folder : Existing, stem : Stems] \cup {Away} :
          at' = [at EXCEPT ![m] = s] /\ touched' = touched \cup {m} /\ home' = home /\ folderJob' = folderJob
    BY <1>3 DEF ForeignMod, Present, Others
  <2>2. Existing' = Existing /\ PathOf' = PathOf
    BY <2>1, TreeNow, TreeNext
  <2>3. \A n \in Mods \ touched' : at'[n] = at[n]
    BY <1>1, <2>1
  <2> QED BY <2>1, <2>2, <2>3 DEF Present, ID
<1> QED BY <1>2, <1>3

LEMMA ForeignFolderInv == ASSUME FolderInv, ForeignFolder \/ ForeignMod PROVE FolderInv'
<1>1. DiskInv /\ PlannedHere /\ CopiedAll /\ FolderDone /\ NoneLost /\ DiskInv' /\ JobTypes /\ FolderShape
  BY ForeignDisk DEF FolderInv, DiskInv, OrganizeTypeOK
<1>2. /\ touched \subseteq touched' /\ folderJob' = folderJob
      /\ \A m \in Mods \ touched' :
           at'[m] = at[m] /\ (m \in Present' <=> m \in Present) /\ (m \in Present => (ID(m))' = ID(m))
      /\ \A g \in (All \cup {None}) \ touched' :
           (g \in Existing' <=> g \in Existing) /\ (g \in Existing => PathOf'[g] = PathOf[g])
  BY <1>1, ForeignLeaves
<1>3. CASE folderJob = NoJob
  BY <1>1, <1>2, <1>3 DEF FolderInv, PlannedHere, CopiedAll, FolderDone, NoneLost, NoJob
<1>4. CASE folderJob # NoJob
  <2>1. folderJob \in FolderJobs /\ folderJob.mods \subseteq Mods /\ folderJob.folder \in All \cup {None}
    BY <1>1, <1>4 DEF JobTypes, FolderJobs
  <2>2. Listed' \subseteq Listed /\ Listed' \subseteq Mods \ touched' /\ folderJob'.phase = folderJob.phase
        /\ folderJob'.copied = folderJob.copied
    BY <1>2, <2>1 DEF Listed
  <2>a. ASSUME NEW m \in Listed'
        PROVE  at'[m] = at[m] /\ (m \in Present' <=> m \in Present) /\ (m \in Present => (ID(m))' = ID(m))
    <3>1. m \in Mods \ touched'
      BY <2>2
    <3> QED BY <1>2, <3>1
  <2>b. ASSUME folderJob.folder \notin touched'
        PROVE  /\ folderJob.folder \in Existing' <=> folderJob.folder \in Existing
               /\ folderJob.folder \in Existing => PathOf'[folderJob.folder] = PathOf[folderJob.folder]
               /\ folderJob.folder \notin touched
    <3>1. folderJob.folder \in (All \cup {None}) \ touched'
      BY <2>1, <2>b
    <3>2. folderJob.folder \notin touched
      BY <1>2, <2>b
    <3> QED BY <1>2, <3>1, <3>2
  <2>3. NoneLost' /\ CopiedAll'
    <3>1. NoneLost'
      BY <1>1, <1>4, <2>2, <2>a DEF NoneLost
    <3>2. CopiedAll'
      BY <1>1, <2>2 DEF CopiedAll
    <3> QED BY <3>1, <3>2
  <2>4. PlannedHere'
    <3> SUFFICES ASSUME folderJob.phase \in {"apply", "remove"}
                 PROVE  /\ Listed' \subseteq Under(folderJob.from)'
                        /\ folderJob.folder \notin touched' =>
                             folderJob.folder \in Existing' /\ PathOf'[folderJob.folder] = folderJob.from
      BY <1>2 DEF PlannedHere
    <3>1. ASSUME NEW m \in Listed' PROVE m \in Under(folderJob.from)'
      <4>1. m \in Under(folderJob.from) /\ m \in Mods \ touched'
        BY <1>1, <2>2, <3>1 DEF PlannedHere
      <4>2. m \in Present /\ IsPrefix(folderJob.from, ID(m))
        BY <4>1 DEF Under
      <4>3. m \in Present' /\ (ID(m))' = ID(m) /\ folderJob'.from = folderJob.from
        BY <1>2, <2>a, <3>1, <4>2
      <4> QED BY <4>2, <4>3 DEF Under
    <3>2. ASSUME folderJob.folder \notin touched'
          PROVE  folderJob.folder \in Existing' /\ PathOf'[folderJob.folder] = folderJob.from
      <4>1. folderJob.folder \in Existing /\ PathOf[folderJob.folder] = folderJob.from
        BY <1>1, <2>b, <3>2 DEF PlannedHere
      <4> QED BY <2>b, <3>2, <4>1
    <3> QED BY <3>1, <3>2
  <2>5. FolderDone'
    <3> SUFFICES ASSUME folderJob.phase \in {"verify", "ok"}, folderJob.folder \notin touched'
                 PROVE  IF folderJob.op = "delete" THEN folderJob.folder \notin Existing' /\ Listed' \cap Present' = {}
                        ELSE folderJob.folder \in Existing' /\ PathOf'[folderJob.folder] = folderJob.to
      BY <1>2 DEF FolderDone
    <3>1. IF folderJob.op = "delete" THEN folderJob.folder \notin Existing /\ Listed \cap Present = {}
          ELSE folderJob.folder \in Existing /\ PathOf[folderJob.folder] = folderJob.to
      BY <1>1, <2>b DEF FolderDone
    <3>2. \A m \in Listed' : m \in Present' => m \in Listed \cap Present
      BY <2>2, <2>a
    <3>3. /\ folderJob.folder \in Existing' <=> folderJob.folder \in Existing
          /\ folderJob.folder \in Existing => PathOf'[folderJob.folder] = PathOf[folderJob.folder]
      BY <2>b
    <3> QED BY <3>1, <3>2, <3>3
  <2> QED BY <1>1, <2>3, <2>4, <2>5 DEF FolderInv
<1> QED BY <1>3, <1>4

(* A folder call that returned an error has lost nothing. *)
LEMMA ReturnedFailed ==
  ASSUME FolderInv, FolderCall, Returns(FALSE), folderJob # NoJob,
         \A m \in Listed : at'[m] = at[m] \/ at'[m] = Unlisted
  PROVE  FolderInv'
<1>1. DiskInv /\ DiskInv' /\ JobTypes /\ FolderShape /\ NoneLost
  BY FolderDisk DEF FolderInv, DiskInv, OrganizeTypeOK
<1>2. folderJob'.phase = "failed" /\ folderJob'.mods = folderJob.mods
  BY <1>1, ReturnsType
<1>3. touched' = touched
  BY <1>1 DEF FolderCall, RequestFolder, PlanFolder, MoveFolder, CreateFolder, DeleteFolder, RemoveTree, VerifyFolder,
         ShowFolder, FolderOnly, history
<1>4. Listed' = Listed
  BY <1>2, <1>3 DEF Listed
<1>5. NoneLost'
  BY <1>1, <1>4, OrganizeAssumption DEF NoneLost
<1> QED BY <1>1, <1>2, <1>5 DEF FolderInv, PlannedHere, CopiedAll, FolderDone

LEMMA CallFolderInv == ASSUME FolderInv, FolderCall PROVE FolderInv'
<1>1. /\ DiskInv /\ PlannedHere /\ CopiedAll /\ FolderDone /\ NoneLost /\ DiskInv'
      /\ Tree(home) /\ JobTypes /\ FolderShape
  BY FolderDisk DEF FolderInv, DiskInv, OrganizeTypeOK
<1>2. touched' = touched
  BY <1>1 DEF FolderCall, RequestFolder, PlanFolder, MoveFolder, CreateFolder, DeleteFolder, RemoveTree, VerifyFolder,
         ShowFolder, FolderOnly, history
<1>3. CASE RequestFolder
  <2>1. folderJob'.phase = "plan" /\ folderJob'.mods = {}
    BY <1>3 DEF RequestFolder
  <2> QED BY <1>1, <2>1 DEF FolderInv, PlannedHere, CopiedAll, FolderDone, NoneLost, Listed
<1>4. CASE ShowFolder
  <2>1. folderJob' = NoJob
    BY <1>4 DEF ShowFolder
  <2> QED BY <1>1, <2>1 DEF FolderInv, PlannedHere, CopiedAll, FolderDone, NoneLost, NoJob
<1>5. CASE ~ RequestFolder /\ ~ ShowFolder
  <2> DEFINE j == folderJob
             from == folderJob.from
  <2>1. /\ j \in FolderJobs /\ j # NoJob /\ from \in Paths /\ j.to \in Paths
        /\ j.to # <<>> /\ (j.op # "create" => from # <<>>) /\ j.mods \subseteq Mods
        /\ j.phase \in {"plan", "apply", "remove", "verify", "ok", "failed"}
    BY <1>1, <1>5, FolderFacts, FolderStarted
  <2>2. CASE Returns(FALSE) /\ at' = at
    BY <1>5, <2>1, <2>2, ReturnedFailed
  <2>3. CASE PlanFolder /\ ~ Returns(FALSE)
    <3>1. /\ from \in Known /\ home' = home /\ at' = at
          /\ folderJob' = [j EXCEPT !.phase = "apply", !.folder = FolderAt(from), !.mods = Under(from)]
      BY <2>3 DEF PlanFolder, disk
    <3>2. /\ folderJob'.phase = "apply" /\ folderJob'.folder = FolderAt(from) /\ folderJob'.mods = Under(from)
          /\ folderJob'.from = from
      BY <2>1, <3>1 DEF FolderJobs
    <3>3. Existing' = Existing /\ PathOf' = PathOf /\ Under(from)' = Under(from)
      BY <3>1, <3>2, TreeNow, TreeNext DEF Under, Present, ID
    <3>4. FolderAt(from) \in Existing /\ PathOf[FolderAt(from)] = from
      BY <1>1, <3>1, FolderAtRight
    <3>5. \A m \in Under(from) : at[m] # Lost
      <4>1. \A m \in Under(from) : at[m] \in [folder : All, stem : Stems]
        BY <1>1, IDFacts DEF Under
      <4> QED BY <4>1, OrganizeAssumption
    <3>6. Listed' \subseteq Under(from)
      BY <3>2 DEF Listed
    <3>7. PlannedHere'
      BY <3>2, <3>3, <3>4, <3>6 DEF PlannedHere
    <3>8. NoneLost'
      BY <3>1, <3>5, <3>6 DEF NoneLost
    <3> QED BY <1>1, <3>2, <3>7, <3>8 DEF FolderInv, CopiedAll, FolderDone
  <2>4. CASE MoveFolder /\ ~ Returns(FALSE)
    <3>1. /\ j.phase = "apply" /\ j.op = "move" /\ CanRename(j) /\ Moved(j) /\ at' = at
          /\ folderJob' = [j EXCEPT !.phase = "verify"]
      BY <2>4 DEF MoveFolder
    <3>2. /\ folderJob'.phase = "verify" /\ folderJob'.folder = j.folder /\ folderJob'.mods = j.mods
          /\ folderJob'.to = j.to /\ folderJob'.op = "move"
      BY <2>1, <3>1 DEF FolderJobs
    <3>3. Listed' = Listed
      BY <1>2, <3>2 DEF Listed
    <3>4. FolderDone'
      <4> SUFFICES ASSUME j.folder \notin touched PROVE j.folder \in Existing' /\ PathOf'[j.folder] = j.to
        BY <1>2, <3>2 DEF FolderDone
      <4>1. j.folder \in Existing /\ PathOf[j.folder] = from
        BY <1>1, <3>1 DEF PlannedHere
      <4>2. from \in Known
        BY <4>1 DEF Known
      <4>3. FolderAt(from) = j.folder
        BY <1>1, <4>1, <4>2, FolderAtRight
      <4>4. Rehomes(j.folder, Put(j.to))
        BY <1>1, <2>1, <3>1, <4>3, RenameHome
      <4>5. Put(j.to) # Absent /\ Append(PathOf[Put(j.to).parent], Put(j.to).name) = j.to
        BY <1>1, <2>1, <3>1, PutRight DEF CanRename
      <4> QED BY <1>1, <4>4, <4>5, NewPath
    <3>5. NoneLost'
      BY <1>1, <2>1, <3>1, <3>3 DEF NoneLost
    <3> QED BY <1>1, <3>2, <3>4, <3>5 DEF FolderInv, PlannedHere, CopiedAll
  <2>5. CASE CreateFolder /\ ~ Returns(FALSE)
    <3>1. j.phase = "apply" /\ j.op = "create" /\ at' = at
      BY <2>5 DEF CreateFolder
    <3>2. PICK f \in FolderIds :
            Fresh(f) /\ Free(j.to) /\ home' = [home EXCEPT ![f] = Put(j.to)]
            /\ folderJob' = [j EXCEPT !.phase = "verify", !.folder = f]
      BY <2>5 DEF CreateFolder
    <3>3. /\ folderJob'.phase = "verify" /\ folderJob'.folder = f /\ folderJob'.mods = j.mods
          /\ folderJob'.to = j.to /\ folderJob'.op = "create"
      BY <2>1, <3>1, <3>2 DEF FolderJobs
    <3>4. Listed' = Listed
      BY <1>2, <3>3 DEF Listed
    <3>5. FolderDone'
      <4>1. Rehomes(f, Put(j.to))
        BY <1>1, <2>1, <3>2, CreateHome
      <4>2. Put(j.to) # Absent /\ Append(PathOf[Put(j.to).parent], Put(j.to).name) = j.to
        BY <1>1, <2>1, <3>2, PutRight
      <4>3. f \in Existing' /\ PathOf'[f] = j.to
        BY <1>1, <4>1, <4>2, NewPath
      <4> QED BY <3>3, <4>3 DEF FolderDone
    <3>6. NoneLost'
      BY <1>1, <2>1, <3>1, <3>4 DEF NoneLost
    <3> QED BY <1>1, <3>3, <3>5, <3>6 DEF FolderInv, PlannedHere, CopiedAll
  <2>6. CASE DeleteFolder /\ ~ Returns(FALSE)
    <3>1. j.phase = "apply" /\ j.op = "delete" /\ at' = at /\ from \in Known
      BY <2>6 DEF DeleteFolder
    <3>2. CASE /\ home' = [home EXCEPT ![FolderAt(from)] = Absent]
               /\ folderJob' = [j EXCEPT !.phase = "verify"]
      <4>1. /\ folderJob'.phase = "verify" /\ folderJob'.folder = j.folder /\ folderJob'.mods = j.mods
            /\ folderJob'.op = "delete"
        BY <2>1, <3>1, <3>2 DEF FolderJobs
      <4>2. Listed' = Listed
        BY <1>2, <4>1 DEF Listed
      <4>3. FolderDone'
        <5> SUFFICES ASSUME j.folder \notin touched
                     PROVE  j.folder \notin Existing' /\ \A m \in Listed : m \notin Present'
          BY <1>2, <4>1, <4>2 DEF FolderDone
        <5>1. j.folder \in Existing /\ PathOf[j.folder] = from /\ Listed \subseteq Under(from)
          BY <1>1, <3>1 DEF PlannedHere
        <5>2. FolderAt(from) = j.folder
          BY <1>1, <3>1, <5>1, FolderAtRight
        <5>3. Rehomes(j.folder, Absent)
          BY <1>1, <2>1, <3>1, <3>2, <5>2, DeleteHome
        <5> QED BY <1>1, <3>1, <5>1, <5>3, Removed
      <4>4. NoneLost'
        BY <1>1, <2>1, <3>1, <4>2 DEF NoneLost
      <4> QED BY <1>1, <4>1, <4>3, <4>4 DEF FolderInv, PlannedHere, CopiedAll
    <3>3. CASE /\ UNCHANGED home
               /\ folderJob' = [j EXCEPT !.phase = "remove", !.copied = Under(from)]
      <4>1. /\ folderJob'.phase = "remove" /\ folderJob'.folder = j.folder /\ folderJob'.mods = j.mods
            /\ folderJob'.op = "delete" /\ folderJob'.from = from /\ folderJob'.copied = Under(from)
        BY <2>1, <3>1, <3>3 DEF FolderJobs
      <4>2. Listed' = Listed
        BY <1>2, <4>1 DEF Listed
      <4>3. Existing' = Existing /\ PathOf' = PathOf /\ Under(from)' = Under(from)
        BY <3>1, <3>3, <4>1, TreeNow, TreeNext DEF Under, Present, ID
      <4>4. PlannedHere' /\ CopiedAll'
        BY <1>1, <1>2, <3>1, <4>1, <4>2, <4>3 DEF PlannedHere, CopiedAll
      <4>5. NoneLost'
        BY <1>1, <2>1, <3>1, <4>2 DEF NoneLost
      <4> QED BY <1>1, <4>1, <4>4, <4>5 DEF FolderInv, FolderDone
    <3> QED BY <2>6, <3>2, <3>3 DEF DeleteFolder
  <2>7. CASE RemoveTree
    <3>1. j.phase = "remove" /\ j.op = "delete" /\ Listed \subseteq j.copied /\ Listed \subseteq Mods
      BY <1>1, <2>1, <2>7 DEF RemoveTree, FolderShape, CopiedAll, Listed
    <3>2. CASE /\ at' = [m \in Mods |-> IF m \in Under(from) \ j.copied THEN Lost ELSE at[m]]
               /\ home' = IF from \in Known THEN [home EXCEPT ![FolderAt(from)] = Absent] ELSE home
               /\ folderJob' = [j EXCEPT !.phase = "verify"]
      <4>1. /\ folderJob'.phase = "verify" /\ folderJob'.folder = j.folder /\ folderJob'.mods = j.mods
            /\ folderJob'.op = "delete"
        BY <2>1, <3>1, <3>2 DEF FolderJobs
      <4>2. Listed' = Listed /\ \A m \in Listed : at'[m] = at[m]
        BY <1>2, <3>1, <3>2, <4>1 DEF Listed
      <4>3. FolderDone'
        <5> SUFFICES ASSUME j.folder \notin touched
                     PROVE  j.folder \notin Existing' /\ \A m \in Listed : m \notin Present'
          BY <1>2, <4>1, <4>2 DEF FolderDone
        <5>1. j.folder \in Existing /\ PathOf[j.folder] = from /\ Listed \subseteq Under(from)
          BY <1>1, <3>1 DEF PlannedHere
        <5>2. from \in Known
          BY <5>1 DEF Known
        <5>3. FolderAt(from) = j.folder /\ home' = [home EXCEPT ![FolderAt(from)] = Absent]
          BY <1>1, <3>2, <5>1, <5>2, FolderAtRight
        <5>4. Rehomes(j.folder, Absent)
          BY <1>1, <2>1, <3>1, <5>2, <5>3, DeleteHome
        <5> QED BY <1>1, <4>2, <5>1, <5>4, Removed
      <4>4. NoneLost'
        BY <1>1, <2>1, <4>2 DEF NoneLost
      <4> QED BY <1>1, <4>1, <4>3, <4>4 DEF FolderInv, PlannedHere, CopiedAll
    <3>3. CASE /\ \E removed \in SUBSET Under(from) :
                    at' = [m \in Mods |-> IF m \in removed THEN (IF m \in j.copied THEN Unlisted ELSE Lost) ELSE at[m]]
               /\ Returns(FALSE)
      <4>1. \A m \in Listed : at'[m] = at[m] \/ at'[m] = Unlisted
        BY <3>1, <3>3
      <4> QED BY <2>1, <3>3, <4>1, ReturnedFailed
    <3> QED BY <2>7, <3>2, <3>3 DEF RemoveTree
  <2>8. CASE VerifyFolder /\ ~ Returns(FALSE)
    <3>1. j.phase = "verify" /\ home' = home /\ at' = at /\ Returns(TRUE)
      <4> DEFINE ok == /\ folderJob.op # "delete" => folderJob.to \in Known
                       /\ folderJob.op # "create" => folderJob.from \notin Known
      <4>1. Returns(ok) /\ ok \in BOOLEAN
        BY <2>8 DEF VerifyFolder
      <4>2. Returns(TRUE)
        BY <2>8, <4>1
      <4> QED BY <2>8, <4>2 DEF VerifyFolder, disk
    <3>2. /\ folderJob'.phase = "ok" /\ folderJob'.folder = j.folder /\ folderJob'.mods = j.mods
          /\ folderJob'.op = j.op /\ folderJob'.to = j.to
      BY <1>1, <2>1, <3>1, ReturnsType
    <3>3. Listed' = Listed /\ Existing' = Existing /\ PathOf' = PathOf /\ Present' = Present
      BY <1>2, <3>1, <3>2, TreeNow, TreeNext DEF Listed, Present
    <3>4. FolderDone' /\ NoneLost'
      BY <1>1, <1>2, <2>1, <3>1, <3>2, <3>3 DEF FolderDone, NoneLost
    <3> QED BY <1>1, <3>2, <3>4 DEF FolderInv, PlannedHere, CopiedAll
  <2>9. at' = at \/ RemoveTree
    BY <1>5 DEF FolderCall, PlanFolder, MoveFolder, CreateFolder, DeleteFolder, VerifyFolder, disk
  <2> QED BY <1>5, <2>2, <2>3, <2>4, <2>5, <2>6, <2>7, <2>8, <2>9 DEF FolderCall
<1> QED BY <1>3, <1>4, <1>5

LEMMA ModAlone ==
  ASSUME DiskInv, NEW m \in Mods, ModCall(m)
  PROVE  folderJob = NoJob
<1>1. folderJob = NoJob \/ job[m] # NoJob
  BY DEF ModCall, RequestMod, ScanMod, MoveMod, RescanMod, Reconcile, NoJob
<1> QED BY <1>1 DEF DiskInv, Alone, Idle

LEMMA FolderNext == FolderInv /\ [OrganizeNext]_organizeVars => FolderInv'
<1> SUFFICES ASSUME FolderInv, [OrganizeNext]_organizeVars PROVE FolderInv'
  OBVIOUS
<1>1. DiskInv /\ DiskInv' /\ PlannedHere /\ CopiedAll /\ FolderDone /\ NoneLost
  BY DiskNext DEF FolderInv
<1>2. CASE UNCHANGED <<disk, folderJob, touched>>
  <2>1. UNCHANGED <<home, at, folderJob, touched>>
    BY <1>2 DEF disk
  <2>2. Existing' = Existing /\ PathOf' = PathOf
    BY <2>1, TreeNow, TreeNext
  <2>3. Present' = Present /\ Listed' = Listed /\ Under(folderJob.from)' = Under(folderJob.from)
    BY <2>1, <2>2 DEF Present, Listed, Under, ID
  <2> QED BY <1>1, <2>1, <2>2, <2>3 DEF FolderInv, PlannedHere, CopiedAll, FolderDone, NoneLost
<1>3. CASE \E m \in Mods : ModCall(m)
  <2>1. folderJob' = NoJob
    BY <1>1, <1>3, ModAlone, ModDisk
  <2> QED BY <1>1, <2>1 DEF FolderInv, PlannedHere, CopiedAll, FolderDone, NoneLost, NoJob
<1>4. CASE TagCall
  BY <1>1, <1>2, <1>4, TagDisk
<1>5. CASE UNCHANGED organizeVars
  BY <1>2, <1>5 DEF organizeVars, history
<1> QED BY <1>3, <1>4, <1>5, CallFolderInv, ForeignFolderInv DEF OrganizeNext

(* What a folder call returned is what happened: after success the folder  *)
(* is at its new path or gone with the mods the scan saw, and no failure   *)
(* deleted one of those for good, also where the trash copies across       *)
(* devices (MoveFolder, DeleteFolder); what other programs touched in      *)
(* between is excepted.                                                    *)
THEOREM FolderResultIsTrue == OrganizeSpec => []FolderResultTrue
<1>1. OrganizeInit => FolderInv
  BY InitDisk DEF OrganizeInit, FolderInv, PlannedHere, CopiedAll, FolderDone, NoneLost, NoJob
<1>2. FolderInv => FolderResultTrue
  <2> SUFFICES ASSUME FolderInv, folderJob.phase \in {"ok", "failed"} PROVE FolderResultTrue
    BY DEF FolderResultTrue
  <2>1. folderJob # NoJob
    BY DEF NoJob
  <2> QED BY <2>1 DEF FolderInv, FolderDone, NoneLost, Listed, FolderResultTrue
<1> QED BY <1>1, <1>2, FolderNext, PTL DEF OrganizeSpec

-----------------------------------------------------------------------------
(* Organize: records follow their mods.                                    *)

(* While no ID is reused: a call waits on the mod that was named, and      *)
(* moves that mod; until it is reconciled nothing has the old ID, and no   *)
(* record the new one.                                                     *)
Waits(n) == job[n].phase \in {"scan", "move"}
Moving(n) == job[n].phase \in {"rescan", "reconcile"}
MovedAway(n) ==
  /\ n \in Present /\ ID(n) = Target(job[n])
  /\ ModsAt(job[n].id) = {} /\ RecordsOf(Target(job[n])) = {}
  /\ \A k \in Mods \ {n} : Moving(k) => job[k].id # job[n].id
CallsKnow ==
  \A n \in Mods : /\ Waits(n) => n \in Present /\ ID(n) = job[n].id
                  /\ job[n].phase \in {"move", "rescan", "reconcile"} => job[n].entry = n
                  /\ Moving(n) => MovedAway(n)
RecordsApart == \A i, j \in DOMAIN records : records[i].scanner = records[j].scanner => i = j
OwnersRight ==
  \A i \in DOMAIN records, n \in Mods :
    \/ n \in Present /\ records[i].scanner = ID(n)
    \/ Moving(n) /\ records[i].scanner = job[n].id
    => records[i].owner = n
Followed(m, s) ==
  \/ m = None \/ m \notin Present \/ m \in told \cup carried \cup touched
  \/ Moving(m) /\ s = job[m].id
  \/ ~ Moving(m) /\ s = ID(m)
Follows == \A i \in DOMAIN records : Followed(records[i].owner, records[i].scanner)
Traced == CallsKnow /\ RecordsApart /\ OwnersRight /\ Follows
RecordInv == DiskInv /\ (~reused => Traced)

LEMMA ReusedStays == ASSUME [OrganizeNext]_organizeVars, reused PROVE reused'
BY DEF OrganizeNext, organizeVars, ModCall, RequestMod, ScanMod, MoveMod, RescanMod, Reconcile,
       FolderCall, RequestFolder, PlanFolder, MoveFolder, CreateFolder, DeleteFolder, RemoveTree, VerifyFolder, ShowFolder,
       TagCall, CreateTag, RenameTag, DeleteTag, RequestTag, TagMod, ForeignFolder, ForeignMod, history

-----------------------------------------------------------------------------
(* A step that moves nothing and changes no record. *)
LEMMA OnlyCalls ==
  ASSUME Traced, UNCHANGED <<home, at, records, carried, touched>>, told \subseteq told',
         \A n \in Mods : /\ Moving(n)' <=> Moving(n)
                         /\ Moving(n) => job'[n].id = job[n].id /\ Target(job'[n]) = Target(job[n])
                         /\ Waits(n)' => n \in Present /\ ID(n) = job'[n].id
                         /\ job'[n].phase \in {"move", "rescan", "reconcile"} => job'[n].entry = n,
         \A i \in DOMAIN records : records[i].owner \in Mods \cup {None}
  PROVE  Traced'
<1>1. Existing' = Existing /\ PathOf' = PathOf
  BY TreeNow, TreeNext
<1>2. Present' = Present /\ \A n \in Mods : (ID(n))' = ID(n)
  BY <1>1 DEF Present, ID
<1>3. \A id : ModsAt(id)' = ModsAt(id) /\ RecordsOf(id)' = RecordsOf(id)
  BY <1>2 DEF ModsAt, RecordsOf, Present
<1>4. CallsKnow'
  <2> SUFFICES ASSUME NEW n \in Mods
               PROVE  /\ Waits(n)' => n \in Present' /\ (ID(n))' = job'[n].id
                      /\ job'[n].phase \in {"move", "rescan", "reconcile"} => job'[n].entry = n
                      /\ Moving(n)' => MovedAway(n)'
    BY DEF CallsKnow
  <2>1. ASSUME Moving(n)' PROVE MovedAway(n)'
    <3>1. Moving(n) /\ job'[n].id = job[n].id /\ Target(job'[n]) = Target(job[n])
      BY <2>1
    <3>2. MovedAway(n)
      BY <3>1 DEF Traced, CallsKnow
    <3>3. n \in Present' /\ (ID(n))' = Target(job'[n])
      BY <1>2, <3>1, <3>2 DEF MovedAway
    <3>4. ModsAt(job[n].id)' = {} /\ RecordsOf(Target(job[n]))' = {}
      <4>1. ModsAt(job[n].id) = {} /\ RecordsOf(Target(job[n])) = {}
        BY <3>2 DEF MovedAway
      <4>2. \A m \in Present : ID(m) # job[n].id
        BY <4>1 DEF ModsAt
      <4>3. \A m \in Present' : (ID(m))' # job'[n].id
        BY <1>2, <3>1, <4>2 DEF Present
      <4>4. ModsAt(job[n].id)' = {}
        BY <4>3 DEF ModsAt
      <4>5. RecordsOf(Target(job[n]))' = {}
        BY <3>1, <4>1 DEF RecordsOf
      <4> QED BY <4>4, <4>5
    <3>5. \A k \in Mods \ {n} : Moving(k)' => job'[k].id # job'[n].id
      BY <3>1, <3>2 DEF MovedAway
    <3> QED BY <3>3, <3>4, <3>5 DEF MovedAway
  <2> QED BY <1>2, <2>1
<1>5. RecordsApart'
  BY DEF Traced, RecordsApart
<1>6. OwnersRight'
  BY <1>2 DEF Traced, OwnersRight
<1>7. Follows'
  BY <1>2 DEF Traced, Follows, Followed
<1> QED BY <1>4, <1>5, <1>6, <1>7 DEF Traced

LEMMA RecordOwners == ASSUME DiskInv PROVE \A i \in DOMAIN records : records[i] \in Records /\ records[i].owner \in Mods \cup {None}
<1>1. records \in Seq(Records)
  BY DEF DiskInv, OrganizeTypeOK, DocumentTypes
<1>2. \A i \in DOMAIN records : records[i] \in Records
  BY <1>1
<1> QED BY <1>2 DEF Records

LEMMA RequestModTraced ==
  ASSUME DiskInv, Traced, NEW m \in Mods, RequestMod(m) PROVE Traced'
<1>1. job \in [Mods -> ModJobs \cup {NoJob}] /\ JobTypes
  BY DEF DiskInv, OrganizeTypeOK, JobTypes
<1>2. PICK op \in {"relocate", "delete"}, to \in Known, s \in Stems :
        job' = [job EXCEPT ![m] =
               [phase |-> "scan", op |-> op, id |-> ID(m), to |-> to, stem |-> s, entry |-> None]]
  BY DEF RequestMod
<1>3. UNCHANGED <<home, at, records, carried, touched, told>> /\ m \in Present /\ job[m] = NoJob
  BY DEF RequestMod, disk, document, history
<1>4. job'[m].phase = "scan" /\ job'[m].id = ID(m) /\ \A n \in Mods \ {m} : job'[n] = job[n]
  BY <1>1, <1>2
<1>5. ASSUME NEW n \in Mods
      PROVE /\ Moving(n)' <=> Moving(n)
            /\ Moving(n) => job'[n].id = job[n].id /\ Target(job'[n]) = Target(job[n])
            /\ Waits(n)' => n \in Present /\ ID(n) = job'[n].id
            /\ job'[n].phase \in {"move", "rescan", "reconcile"} => job'[n].entry = n
  <2>1. CASE n = m
    BY <1>3, <1>4, <2>1 DEF Moving, Waits, NoJob
  <2>2. CASE n # m
    BY <1>4, <2>2 DEF Moving, Waits, Traced, CallsKnow
  <2> QED BY <2>1, <2>2
<1> QED BY <1>3, <1>5, OnlyCalls, RecordOwners

LEMMA EndsTraced ==
  ASSUME DiskInv, Traced, NEW m \in Mods, Ends(m), Waits(m), UNCHANGED <<home, at, records, carried, touched, told>>
  PROVE  Traced'
<1>1. job \in [Mods -> ModJobs \cup {NoJob}]
  BY DEF DiskInv, OrganizeTypeOK, JobTypes
<1>2. job'[m] = NoJob /\ \A n \in Mods \ {m} : job'[n] = job[n]
  BY <1>1 DEF Ends
<1>3. ASSUME NEW n \in Mods
      PROVE /\ Moving(n)' <=> Moving(n)
            /\ Moving(n) => job'[n].id = job[n].id /\ Target(job'[n]) = Target(job[n])
            /\ Waits(n)' => n \in Present /\ ID(n) = job'[n].id
            /\ job'[n].phase \in {"move", "rescan", "reconcile"} => job'[n].entry = n
  <2>1. CASE n = m
    BY <1>2, <2>1 DEF Moving, Waits, NoJob
  <2>2. CASE n # m
    BY <1>2, <2>2 DEF Moving, Waits, Traced, CallsKnow
  <2> QED BY <2>1, <2>2
<1> QED BY <1>3, OnlyCalls, RecordOwners

LEMMA ScanTraced == ASSUME DiskInv, Traced, NEW m \in Mods, ScanMod(m) PROVE Traced'
<1>1. JobTypes /\ Tree(home) /\ MovedOnce /\ job \in [Mods -> ModJobs \cup {NoJob}]
  BY DEF DiskInv, OrganizeTypeOK, JobTypes
<1>2. UNCHANGED <<home, at, records, carried, touched, told>> /\ Waits(m) /\ job[m].phase = "scan"
  BY DEF ScanMod, ModOnly, disk, document, Waits
<1>3. CASE Ends(m)
  BY <1>2, <1>3, EndsTraced
<1>4. CASE ~ Ends(m)
  <2>1. PICK e \in ModsAt(job[m].id) : job' = [job EXCEPT ![m].phase = "move", ![m].entry = e]
    BY <1>4 DEF ScanMod
  <2>2. m \in Present /\ ID(m) = job[m].id
    BY <1>2 DEF Traced, CallsKnow
  <2>3. e = m
    BY <1>1, <2>1, <2>2, IDsApart DEF ModsAt
  <2>4. job[m] \in ModJobs
    BY <1>1, <1>2, JobFacts
  <2>5. job'[m].phase = "move" /\ job'[m].entry = m /\ job'[m].id = job[m].id /\ \A n \in Mods \ {m} : job'[n] = job[n]
    BY <1>1, <2>1, <2>3, <2>4 DEF ModJobs
  <2>6. ASSUME NEW n \in Mods
        PROVE /\ Moving(n)' <=> Moving(n)
              /\ Moving(n) => job'[n].id = job[n].id /\ Target(job'[n]) = Target(job[n])
              /\ Waits(n)' => n \in Present /\ ID(n) = job'[n].id
              /\ job'[n].phase \in {"move", "rescan", "reconcile"} => job'[n].entry = n
    <3>1. CASE n = m
      BY <1>2, <2>2, <2>5, <3>1 DEF Moving, Waits
    <3>2. CASE n # m
      BY <2>5, <3>2 DEF Moving, Waits, Traced, CallsKnow
    <3> QED BY <3>1, <3>2
  <2> QED BY <1>2, <2>6, OnlyCalls, RecordOwners
<1> QED BY <1>3, <1>4

LEMMA RescanTraced == ASSUME DiskInv, Traced, NEW m \in Mods, RescanMod(m) PROVE Traced'
<1>1. JobTypes /\ job \in [Mods -> ModJobs \cup {NoJob}]
  BY DEF DiskInv, OrganizeTypeOK, JobTypes
<1>2. UNCHANGED <<home, at, records, carried, touched>> /\ Moving(m) /\ job[m].phase = "rescan"
  BY DEF RescanMod, ModOnly, disk, document, Moving
<1>3. m \in Present /\ ID(m) = Target(job[m]) /\ job[m].entry = m
  BY <1>2 DEF Traced, CallsKnow, MovedAway
<1>4. ModsAt(Target(job[m])) # {}
  BY <1>3 DEF ModsAt
<1>5. job' = [job EXCEPT ![m].phase = "reconcile"] /\ told' = told
  BY <1>4 DEF RescanMod
<1>6. job[m] \in ModJobs
  BY <1>1, <1>2, JobFacts
<1>7. /\ job'[m].phase = "reconcile" /\ job'[m].entry = m /\ job'[m].id = job[m].id
      /\ job'[m].to = job[m].to /\ job'[m].stem = job[m].stem
      /\ \A n \in Mods \ {m} : job'[n] = job[n]
  BY <1>1, <1>3, <1>5, <1>6 DEF ModJobs
<1>8. ASSUME NEW n \in Mods
      PROVE /\ Moving(n)' <=> Moving(n)
            /\ Moving(n) => job'[n].id = job[n].id /\ Target(job'[n]) = Target(job[n])
            /\ Waits(n)' => n \in Present /\ ID(n) = job'[n].id
            /\ job'[n].phase \in {"move", "rescan", "reconcile"} => job'[n].entry = n
  <2>1. CASE n = m
    BY <1>2, <1>7, <2>1 DEF Moving, Waits, Target
  <2>2. CASE n # m
    BY <1>7, <2>2 DEF Moving, Waits, Traced, CallsKnow
  <2> QED BY <2>1, <2>2
<1> QED BY <1>2, <1>5, <1>8, OnlyCalls, RecordOwners

-----------------------------------------------------------------------------
LEMMA RelocateTraced ==
  ASSUME DiskInv, Traced, NEW m \in Mods, job[m].phase = "move", job[m].entry \in ModsAt(job[m].id),
         job[m].to \in Known, ModsAt(Target(job[m])) = {}, ~ Held(Target(job[m])),
         at' = [at EXCEPT ![job[m].entry] = [folder |-> FolderAt(job[m].to), stem |-> job[m].stem]],
         job' = [job EXCEPT ![m].phase = "rescan"],
         UNCHANGED <<home, records, carried, touched, told>>
  PROVE  Traced'
<1> DEFINE j == job[m]
           t == Target(job[m])
<1>1. /\ JobTypes /\ Tree(home) /\ MovedOnce /\ job \in [Mods -> ModJobs \cup {NoJob}] /\ at \in [Mods -> Spots]
      /\ CallsKnow /\ RecordsApart /\ OwnersRight /\ Follows
  BY DEF DiskInv, OrganizeTypeOK, JobTypes, Traced
<1>2. Waits(m) /\ ~ Moving(m)
  BY DEF Waits, Moving
<1>3. m \in Present /\ ID(m) = j.id /\ j.entry = m /\ j \in ModJobs /\ t = Append(j.to, j.stem) /\ j.stem \in Stems
  BY <1>1, <1>2, JobFacts DEF CallsKnow
<1>4. Existing' = Existing /\ PathOf' = PathOf
  BY TreeNow, TreeNext
<1>5. FolderAt(j.to) \in Existing /\ PathOf[FolderAt(j.to)] = j.to
  BY <1>1, FolderAtRight
<1>6. at'[m].folder = FolderAt(j.to) /\ at'[m].stem = j.stem /\ at'[m] \in [folder : Existing, stem : Stems]
      /\ \A n \in Mods \ {m} : at'[n] = at[n]
  BY <1>1, <1>3, <1>5
<1>7. m \in Present' /\ (ID(m))' = t
  BY <1>3, <1>4, <1>5, <1>6 DEF Present, ID
<1>8. \A n \in Mods \ {m} : (n \in Present' <=> n \in Present) /\ (ID(n))' = ID(n)
  BY <1>4, <1>6 DEF Present, ID
<1>9. /\ job'[m].phase = "rescan" /\ job'[m].entry = m /\ job'[m].id = j.id
      /\ Target(job'[m]) = t
      /\ \A n \in Mods \ {m} : job'[n] = job[n]
  BY <1>1, <1>3 DEF ModJobs, Target
<1>10. /\ \A i \in DOMAIN records : records[i].scanner # t
       /\ \A k \in Mods : job[k] # NoJob => job[k].id # t
       /\ \A n \in Present : ID(n) # t
       /\ \A k \in Mods : Moving(k) => job[k] # NoJob
  BY DEF Held, ModsAt, Moving, NoJob
<1>11. Moving(m)' /\ ~ Waits(m)' /\ \A n \in Mods \ {m} : (Moving(n)' <=> Moving(n)) /\ (Waits(n)' <=> Waits(n))
  BY <1>9 DEF Moving, Waits
<1>12. \A n \in Mods : Moving(n) => job[n].id # j.id /\ n # m
  <2> SUFFICES ASSUME NEW n \in Mods, Moving(n) PROVE job[n].id # j.id
    BY <1>2
  <2>1. ModsAt(job[n].id) = {}
    BY <1>1 DEF CallsKnow, MovedAway
  <2> QED BY <1>3, <2>1 DEF ModsAt
<1> HIDE DEF j, t
<1>13. MovedAway(m)'
  <2>1. \A x \in Present' : (ID(x))' # j.id
    <3> SUFFICES ASSUME NEW x \in Present', (ID(x))' = j.id PROVE FALSE
      OBVIOUS
    <3>1. x \in Mods
      BY DEF Present
    <3>2. CASE x = m
      BY <1>3, <1>7, <1>10, <3>2
    <3>3. CASE x # m
      <4>1. x \in Present /\ ID(x) = ID(m)
        BY <1>3, <1>8, <3>1, <3>3
      <4> QED BY <1>1, <1>3, <3>3, <4>1, IDsApart
    <3> QED BY <3>2, <3>3
  <2>2. ModsAt(job[m].id)' = {}
    BY <1>9, <2>1 DEF ModsAt
  <2>3. RecordsOf(Target(job[m]))' = {}
    BY <1>9, <1>10 DEF RecordsOf
  <2>4. \A k \in Mods \ {m} : Moving(k)' => job'[k].id # job'[m].id
    BY <1>9, <1>11, <1>12
  <2> QED BY <1>7, <1>9, <2>2, <2>3, <2>4 DEF MovedAway
<1>14. ASSUME NEW n \in Mods, n # m, Moving(n) PROVE MovedAway(n)'
  <2>1. /\ n \in Present /\ ID(n) = Target(job[n])
        /\ \A x \in Present : ID(x) # job[n].id
        /\ \A i \in DOMAIN records : records[i].scanner # Target(job[n])
        /\ \A k \in Mods \ {n} : Moving(k) => job[k].id # job[n].id
    BY <1>1, <1>14 DEF CallsKnow, MovedAway, ModsAt, RecordsOf
  <2>2. job'[n] = job[n] /\ job[n].id # t /\ job[n].id # j.id
    BY <1>9, <1>10, <1>12, <1>14
  <2>3. \A x \in Present' : (ID(x))' # job[n].id
    BY <1>7, <1>8, <2>1, <2>2 DEF Present
  <2>4. ModsAt(job[n].id)' = {}
    BY <2>2, <2>3 DEF ModsAt
  <2>5. RecordsOf(Target(job[n]))' = {}
    BY <2>1, <2>2 DEF RecordsOf
  <2>6. \A k \in Mods \ {n} : Moving(k)' => job'[k].id # job'[n].id
    BY <1>9, <1>11, <2>1, <2>2
  <2>7. n \in Present' /\ (ID(n))' = Target(job'[n])
    BY <1>8, <1>14, <2>1, <2>2
  <2> QED BY <2>4, <2>5, <2>6, <2>7 DEF MovedAway
<1>15. CallsKnow'
  <2> SUFFICES ASSUME NEW n \in Mods
               PROVE  /\ Waits(n)' => n \in Present' /\ (ID(n))' = job'[n].id
                      /\ job'[n].phase \in {"move", "rescan", "reconcile"} => job'[n].entry = n
                      /\ Moving(n)' => MovedAway(n)'
    BY DEF CallsKnow
  <2>1. CASE n = m
    BY <1>9, <1>11, <1>13, <2>1
  <2>2. CASE n # m
    BY <1>1, <1>8, <1>9, <1>11, <1>14, <2>2 DEF CallsKnow
  <2> QED BY <2>1, <2>2
<1>16. RecordsApart'
  BY <1>1 DEF RecordsApart
<1>17. OwnersRight'
  <2> SUFFICES ASSUME NEW i \in DOMAIN records, NEW n \in Mods,
                      \/ n \in Present' /\ records[i].scanner = (ID(n))'
                      \/ Moving(n)' /\ records[i].scanner = job'[n].id
               PROVE  records[i].owner = n
    BY DEF OwnersRight
  <2>1. CASE n = m
    <3>1. records[i].scanner = ID(m) /\ m \in Present
      BY <1>3, <1>7, <1>9, <1>10, <2>1
    <3> QED BY <1>1, <2>1, <3>1 DEF OwnersRight
  <2>2. CASE n # m
    BY <1>1, <1>8, <1>9, <1>11, <2>2 DEF OwnersRight
  <2> QED BY <2>1, <2>2
<1>18. Follows'
  <2>1. \A i \in DOMAIN records : records[i].owner \in Mods \cup {None}
    BY RecordOwners
  <2> QED BY <1>1, <1>2, <1>3, <1>8, <1>9, <1>11, <2>1 DEF Follows, Followed
<1> QED BY <1>15, <1>16, <1>17, <1>18 DEF Traced

LEMMA TrashTraced ==
  ASSUME DiskInv, Traced, NEW m \in Mods, job[m].phase = "move", Ends(m),
         at' = [at EXCEPT ![job[m].entry] = Away],
         UNCHANGED <<home, records, carried, touched, told>>
  PROVE  Traced'
<1>1. /\ Tree(home) /\ job \in [Mods -> ModJobs \cup {NoJob}] /\ at \in [Mods -> Spots]
      /\ CallsKnow /\ RecordsApart /\ OwnersRight /\ Follows
  BY DEF DiskInv, OrganizeTypeOK, JobTypes, Traced
<1>2. job[m].entry = m /\ ~ Moving(m)
  BY <1>1 DEF CallsKnow, Moving
<1>3. at'[m] = Away /\ \A n \in Mods \ {m} : at'[n] = at[n]
  BY <1>1, <1>2
<1>4. Existing' = Existing /\ PathOf' = PathOf
  BY TreeNow, TreeNext
<1>5. m \notin Present'
  <2>1. Existing \subseteq All /\ Away \notin [folder : All, stem : Stems]
    BY <1>1, PathFacts, OrganizeAssumption
  <2>2. Away \notin [folder : Existing, stem : Stems]
    BY <2>1
  <2> QED BY <1>3, <1>4, <2>2 DEF Present
<1>6. \A n \in Mods \ {m} : (n \in Present' <=> n \in Present) /\ (ID(n))' = ID(n)
  BY <1>3, <1>4 DEF Present, ID
<1>7. job'[m] = NoJob /\ \A n \in Mods \ {m} : job'[n] = job[n]
  BY <1>1 DEF Ends
<1>8. ~ Moving(m)' /\ ~ Waits(m)' /\ \A n \in Mods \ {m} : (Moving(n)' <=> Moving(n)) /\ (Waits(n)' <=> Waits(n))
  BY <1>7 DEF Moving, Waits, NoJob
<1>9. CallsKnow'
  <2> SUFFICES ASSUME NEW n \in Mods
               PROVE  /\ Waits(n)' => n \in Present' /\ (ID(n))' = job'[n].id
                      /\ job'[n].phase \in {"move", "rescan", "reconcile"} => job'[n].entry = n
                      /\ Moving(n)' => MovedAway(n)'
    BY DEF CallsKnow
  <2>1. CASE n = m
    BY <1>7, <1>8, <2>1 DEF NoJob
  <2>2. CASE n # m
    <3>1. ASSUME Moving(n)' PROVE MovedAway(n)'
      <4>1. Moving(n) /\ job'[n] = job[n]
        BY <1>7, <1>8, <2>2, <3>1
      <4>2. /\ n \in Present /\ ID(n) = Target(job[n])
            /\ \A x \in Present : ID(x) # job[n].id
            /\ RecordsOf(Target(job[n])) = {}
            /\ \A k \in Mods \ {n} : Moving(k) => job[k].id # job[n].id
        BY <1>1, <4>1 DEF CallsKnow, MovedAway, ModsAt
      <4>3. ModsAt(job[n].id)' = {}
        BY <1>5, <1>6, <4>1, <4>2 DEF ModsAt, Present
      <4>4. RecordsOf(Target(job[n]))' = {}
        BY <4>1, <4>2 DEF RecordsOf
      <4>5. \A k \in Mods \ {n} : Moving(k)' => job'[k].id # job'[n].id
        BY <1>7, <1>8, <4>1, <4>2
      <4>6. n \in Present' /\ (ID(n))' = Target(job'[n])
        BY <1>6, <2>2, <4>1, <4>2
      <4> QED BY <4>3, <4>4, <4>5, <4>6 DEF MovedAway
    <3> QED BY <1>1, <1>6, <1>7, <1>8, <2>2, <3>1 DEF CallsKnow
  <2> QED BY <2>1, <2>2
<1>10. RecordsApart'
  BY <1>1 DEF RecordsApart
<1>11. OwnersRight'
  BY <1>1, <1>5, <1>6, <1>7, <1>8 DEF OwnersRight
<1>12. Follows'
  <2>1. \A i \in DOMAIN records : records[i].owner \in Mods \cup {None}
    BY RecordOwners
  <2> QED BY <1>1, <1>5, <1>6, <1>7, <1>8, <2>1 DEF Follows, Followed
<1> QED BY <1>9, <1>10, <1>11, <1>12 DEF Traced

LEMMA MoveTraced == ASSUME DiskInv, Traced, NEW m \in Mods, MoveMod(m), ~ reused' PROVE Traced'
<1> DEFINE j == job[m]
<1>1. UNCHANGED <<home, records, carried, touched, told>> /\ j.phase = "move" /\ Waits(m)
  BY DEF MoveMod, ModOnly, document, Waits
<1>2. CASE /\ j.entry \in ModsAt(j.id) /\ j.to \in Known /\ ModsAt(Target(j)) = {}
           /\ at' = [at EXCEPT ![j.entry] = [folder |-> FolderAt(j.to), stem |-> j.stem]]
           /\ job' = [job EXCEPT ![m].phase = "rescan"]
           /\ reused' = (reused \/ Held(Target(j)))
  BY <1>1, <1>2, RelocateTraced
<1>3. CASE at' = [at EXCEPT ![j.entry] = Away] /\ Ends(m)
  BY <1>1, <1>3, TrashTraced
<1>4. CASE at' = at /\ Ends(m)
  BY <1>1, <1>4, EndsTraced
<1> QED BY <1>2, <1>3, <1>4 DEF MoveMod

LEMMA ReconcileTraced == ASSUME DiskInv, Traced, NEW m \in Mods, Reconcile(m) PROVE Traced'
<1> DEFINE old == job[m].id
           new == Target(job[m])
<1>1. /\ JobTypes /\ Tree(home) /\ MovedOnce /\ job \in [Mods -> ModJobs \cup {NoJob}]
      /\ CallsKnow /\ RecordsApart /\ OwnersRight /\ Follows
  BY DEF DiskInv, OrganizeTypeOK, JobTypes, Traced
<1>2. job[m].phase = "reconcile" /\ Moving(m) /\ Ends(m) /\ UNCHANGED <<home, at, carried, touched>>
  BY DEF Reconcile, ModOnly, Moving, disk
<1>3. /\ m \in Present /\ ID(m) = new /\ job[m].entry = m
      /\ \A x \in Present : ID(x) # old
      /\ \A i \in DOMAIN records : records[i].scanner # new
      /\ \A k \in Mods \ {m} : Moving(k) => job[k].id # old
  BY <1>1, <1>2 DEF CallsKnow, MovedAway, ModsAt, RecordsOf
<1>4. Existing' = Existing /\ PathOf' = PathOf
  BY <1>2, TreeNow, TreeNext
<1>5. Present' = Present /\ \A n \in Mods : (ID(n))' = ID(n)
  BY <1>2, <1>4 DEF Present, ID
<1>6. job'[m] = NoJob /\ \A n \in Mods \ {m} : job'[n] = job[n]
  BY <1>1, <1>2 DEF Ends
<1>7. ~ Moving(m)' /\ ~ Waits(m)' /\ \A n \in Mods \ {m} : (Moving(n)' <=> Moving(n)) /\ (Waits(n)' <=> Waits(n))
  BY <1>6 DEF Moving, Waits, NoJob
<1>8. \/ records' = records /\ told' = told /\ RecordsOf(old) = {}
      \/ records' = records /\ told' = told \cup {m}
      \/ told' = told /\ \E i \in RecordsOf(old) : records' = [records EXCEPT ![i].scanner = new]
  BY <1>3 DEF Reconcile
<1> HIDE DEF old, new
<1>9. /\ DOMAIN records' = DOMAIN records
      /\ \A i \in DOMAIN records : /\ records'[i].owner = records[i].owner
                                   /\ \/ records'[i].scanner = records[i].scanner
                                      \/ records[i].scanner = old /\ records'[i].scanner = new
      /\ \/ m \in told'
         \/ \A i \in DOMAIN records : records'[i].scanner # old
      /\ told \subseteq told'
  <2>1. CASE records' = records /\ (m \in told' \/ RecordsOf(old) = {}) /\ told \subseteq told'
    BY <2>1 DEF RecordsOf
  <2>2. CASE told' = told /\ \E i \in RecordsOf(old) : records' = [records EXCEPT ![i].scanner = new]
    <3>1. PICK i \in RecordsOf(old) : records' = [records EXCEPT ![i].scanner = new]
      BY <2>2
    <3>2. i \in DOMAIN records /\ records[i].scanner = old /\ records[i] \in Records /\ told' = told
      BY <2>2, <3>1, RecordOwners DEF RecordsOf
    <3>3. records' = [records EXCEPT ![i] = [records[i] EXCEPT !.scanner = new]]
      BY <3>1
    <3>4. [records[i] EXCEPT !.scanner = new].scanner = new /\ [records[i] EXCEPT !.scanner = new].owner = records[i].owner
      BY <3>2 DEF Records
    <3>5. DOMAIN records' = DOMAIN records /\ records'[i].scanner = new /\ records'[i].owner = records[i].owner
          /\ \A k \in DOMAIN records : k # i => records'[k] = records[k]
      BY <3>2, <3>3, <3>4
    <3>6. new # old
      BY <1>3, <3>2
    <3>7. \A k \in DOMAIN records : k # i => records[k].scanner # old
      BY <1>1, <3>2 DEF RecordsApart
    <3> QED BY <3>2, <3>5, <3>6, <3>7
  <2> QED BY <1>8, <2>1, <2>2
<1>10. CallsKnow'
  <2> SUFFICES ASSUME NEW n \in Mods
               PROVE  /\ Waits(n)' => n \in Present' /\ (ID(n))' = job'[n].id
                      /\ job'[n].phase \in {"move", "rescan", "reconcile"} => job'[n].entry = n
                      /\ Moving(n)' => MovedAway(n)'
    BY DEF CallsKnow
  <2>1. CASE n = m
    BY <1>6, <1>7, <2>1 DEF NoJob
  <2>2. CASE n # m
    <3>1. ASSUME Moving(n)' PROVE MovedAway(n)'
      <4>1. Moving(n) /\ job'[n] = job[n]
        BY <1>6, <1>7, <2>2, <3>1
      <4>2. /\ n \in Present /\ ID(n) = Target(job[n])
            /\ \A x \in Present : ID(x) # job[n].id
            /\ \A i \in DOMAIN records : records[i].scanner # Target(job[n])
            /\ \A k \in Mods \ {n} : Moving(k) => job[k].id # job[n].id
        BY <1>1, <4>1 DEF CallsKnow, MovedAway, ModsAt, RecordsOf
      <4>3. ModsAt(job[n].id)' = {}
        <5>1. \A x \in Present : x \in Mods
          BY DEF Present
        <5> QED BY <1>5, <4>1, <4>2, <5>1 DEF ModsAt
      <4>4. new # Target(job[n])
        BY <1>1, <1>3, <2>2, <4>2, IDsApart
      <4>5. RecordsOf(Target(job[n]))' = {}
        BY <1>9, <4>1, <4>2, <4>4 DEF RecordsOf
      <4>6. \A k \in Mods \ {n} : Moving(k)' => job'[k].id # job'[n].id
        BY <1>6, <1>7, <4>1, <4>2
      <4>7. n \in Present' /\ (ID(n))' = Target(job'[n])
        BY <1>5, <4>1, <4>2
      <4> QED BY <4>3, <4>5, <4>6, <4>7 DEF MovedAway
    <3> QED BY <1>1, <1>5, <1>6, <1>7, <2>2, <3>1 DEF CallsKnow
  <2> QED BY <2>1, <2>2
<1>11. RecordsApart'
  <2> SUFFICES ASSUME NEW i \in DOMAIN records, NEW k \in DOMAIN records, records'[i].scanner = records'[k].scanner
               PROVE  i = k
    BY <1>9 DEF RecordsApart
  <2>1. records[i].scanner = records[k].scanner
    BY <1>3, <1>9
  <2> QED BY <1>1, <2>1 DEF RecordsApart
<1>12. OwnersRight'
  <2> SUFFICES ASSUME NEW i \in DOMAIN records, NEW n \in Mods,
                      \/ n \in Present /\ records'[i].scanner = ID(n)
                      \/ Moving(n)' /\ records'[i].scanner = job'[n].id
               PROVE  records[i].owner = n
    BY <1>5, <1>9 DEF OwnersRight
  <2>1. CASE records'[i].scanner = records[i].scanner
    BY <1>1, <1>6, <1>7, <2>1 DEF OwnersRight
  <2>2. CASE records[i].scanner = old /\ records'[i].scanner = new
    <3>1. records[i].owner = m
      BY <1>1, <1>2, <2>2 DEF OwnersRight, old
    <3>2. CASE n \in Present /\ records'[i].scanner = ID(n)
      BY <1>1, <1>3, <2>2, <3>1, <3>2, IDsApart
    <3>3. CASE Moving(n)' /\ records'[i].scanner = job'[n].id
      <4>1. n # m /\ Moving(n) /\ job[n].id = new
        BY <1>6, <1>7, <2>2, <3>3
      <4>2. \A x \in Present : ID(x) # job[n].id
        BY <1>1, <4>1 DEF CallsKnow, MovedAway, ModsAt
      <4> QED BY <1>3, <4>1, <4>2
    <3> QED BY <3>2, <3>3
  <2> QED BY <1>9, <2>1, <2>2
<1>13. Follows'
  <2> SUFFICES ASSUME NEW i \in DOMAIN records, NEW o, o = records[i].owner
               PROVE  \/ o = None \/ o \notin Present \/ o \in told' \cup carried \cup touched
                      \/ Moving(o)' /\ records'[i].scanner = job'[o].id
                      \/ ~ Moving(o)' /\ records'[i].scanner = ID(o)
    <3>1. \A x \in Mods \cup {None} : x \in Present => (ID(x))' = ID(x)
      BY <1>5 DEF Present
    <3> QED BY <1>2, <1>5, <1>9, <3>1, RecordOwners DEF Follows, Followed
  <2>1. /\ o \in Mods \cup {None}
        /\ \/ o = None \/ o \notin Present \/ o \in told \cup carried \cup touched
           \/ Moving(o) /\ records[i].scanner = job[o].id
           \/ ~ Moving(o) /\ records[i].scanner = ID(o)
    BY <1>1, RecordOwners DEF Follows, Followed
  <2>2. CASE o = m
    <3>1. CASE records'[i].scanner = records[i].scanner
      BY <1>2, <1>7, <1>9, <2>1, <2>2, <3>1 DEF old
    <3>2. CASE records'[i].scanner = new
      BY <1>3, <1>7, <2>2, <3>2
    <3> QED BY <1>9, <3>1, <3>2
  <2>3. CASE o # m /\ o \in Mods
    <3>1. records'[i].scanner = records[i].scanner \/ records[i].owner = m
      BY <1>1, <1>2, <1>9 DEF OwnersRight, old
    <3> QED BY <1>6, <1>7, <1>9, <2>1, <2>3, <3>1
  <2> QED BY <2>1, <2>2, <2>3
<1> QED BY <1>10, <1>11, <1>12, <1>13 DEF Traced

LEMMA ModTraced == ASSUME DiskInv, Traced, NEW m \in Mods, ModCall(m), ~ reused' PROVE Traced'
BY RequestModTraced, ScanTraced, MoveTraced, RescanTraced, ReconcileTraced DEF ModCall

-----------------------------------------------------------------------------
(* EnsureMod may append a record of an ID that has none. *)
Appends(id) ==
  /\ RecordsOf(id) = {} /\ DOMAIN records' = 1 .. Len(records) + 1
  /\ records'[Len(records) + 1].scanner = id /\ records'[Len(records) + 1].owner = OwnerOf(id)
SameIDs == \A i \in DOMAIN records : records'[i].scanner = records[i].scanner /\ records'[i].owner = records[i].owner

LEMMA TagScanners ==
  ASSUME DiskInv, TagCall, ~ reused'
  PROVE  SameIDs /\ \/ DOMAIN records' = DOMAIN records
                    \/ \E id \in IDs : Appends(id) /\ \A k \in Mods : Moving(k) => Target(job[k]) # id
<1>1. records \in Seq(Records) /\ JobTypes /\ DocumentTypes /\ DOMAIN records = 1 .. Len(records)
  BY DEF DiskInv, OrganizeTypeOK, DocumentTypes
<1>2. CASE records' = records
  BY <1>2 DEF SameIDs
<1>3. CASE DeleteTag
  <2>1. PICK t \in Live : records' = [i \in DOMAIN records |-> [records[i] EXCEPT !.tags = @ \ {t}]]
    BY <1>3 DEF DeleteTag
  <2>2. ASSUME NEW i \in DOMAIN records
        PROVE  records'[i].scanner = records[i].scanner /\ records'[i].owner = records[i].owner
    <3> DEFINE r == records[i]
    <3>1. r \in Records /\ records'[i] = [r EXCEPT !.tags = @ \ {t}]
      BY <2>1, RecordOwners
    <3> HIDE DEF r
    <3>2. records'[i].scanner = r.scanner /\ records'[i].owner = r.owner
      BY <3>1 DEF Records
    <3> QED BY <3>2 DEF r
  <2> QED BY <2>1, <2>2 DEF SameIDs
<1>4. CASE TagMod /\ records' # records
  <2> DEFINE id == request.id
  <2>1. id \in IDs /\ \A k \in Mods : Moving(k) => Target(job[k]) # id
    BY <1>1, <1>4 DEF TagMod, JobTypes, TagCalls, Moving
  <2>2. PICK e \in Ensured(id) :
          \/ records' = [e[1] EXCEPT ![e[2]].tags = @ \cup {request.tag}]
          \/ records' = [e[1] EXCEPT ![e[2]].tags = @ \ {request.tag}]
    BY <1>4 DEF TagMod
  <2>3. PICK S : records' = [e[1] EXCEPT ![e[2]].tags = S]
    <3>1. CASE records' = [e[1] EXCEPT ![e[2]].tags = @ \cup {request.tag}]
      <4>1. records' = [e[1] EXCEPT ![e[2]].tags = e[1][e[2]].tags \cup {request.tag}]
        BY <3>1
      <4> QED BY <4>1
    <3>2. CASE records' = [e[1] EXCEPT ![e[2]].tags = @ \ {request.tag}]
      <4>1. records' = [e[1] EXCEPT ![e[2]].tags = e[1][e[2]].tags \ {request.tag}]
        BY <3>2
      <4> QED BY <4>1
    <3> QED BY <2>2, <3>1, <3>2
  <2>4. /\ e[1] \in Seq(Records) /\ e[2] \in DOMAIN e[1]
        /\ \/ e[1] = records /\ e[2] \in RecordsOf(id)
           \/ /\ RecordsOf(id) = {} /\ e[2] = Len(records) + 1
              /\ e[1] = Append(records, [scanner |-> id, tags |-> {}, owner |-> OwnerOf(id)])
    BY <1>1, <2>1, EnsuredRight
  <2> HIDE DEF id
  <2>5. e[1][e[2]] \in Records
    BY <2>4
  <2>6. /\ DOMAIN records' = DOMAIN e[1]
        /\ \A i \in DOMAIN e[1] : records'[i].scanner = e[1][i].scanner /\ records'[i].owner = e[1][i].owner
    <3> DEFINE r == e[1][e[2]]
    <3>1. records' = [e[1] EXCEPT ![e[2]] = [r EXCEPT !.tags = S]]
      BY <2>3
    <3>2. r \in Records
      BY <2>5
    <3> HIDE DEF r
    <3>3. [r EXCEPT !.tags = S].scanner = r.scanner /\ [r EXCEPT !.tags = S].owner = r.owner
      BY <3>2 DEF Records
    <3> QED BY <2>4, <3>1, <3>3 DEF r
  <2>7. CASE e[1] = records
    BY <2>6, <2>7 DEF SameIDs
  <2>8. CASE e[1] # records
    <3> DEFINE r == [scanner |-> id, tags |-> {}, owner |-> OwnerOf(id)]
    <3>1. RecordsOf(id) = {} /\ e[1] = Append(records, r) /\ r.scanner = id /\ r.owner = OwnerOf(id)
      BY <2>4, <2>8
    <3> HIDE DEF r
    <3>2. /\ DOMAIN e[1] = 1 .. Len(records) + 1 /\ e[1][Len(records) + 1] = r
          /\ \A i \in DOMAIN records : i \in DOMAIN e[1] /\ e[1][i] = records[i]
          /\ Len(records) + 1 \in DOMAIN e[1]
      BY <1>1, <3>1
    <3>3. Appends(id)
      BY <2>6, <3>1, <3>2 DEF Appends
    <3>4. SameIDs
      BY <2>6, <3>2 DEF SameIDs
    <3> QED BY <2>1, <3>3, <3>4
  <2> QED BY <2>7, <2>8
<1> QED BY <1>2, <1>3, <1>4 DEF TagCall, CreateTag, RenameTag, RequestTag, document

(* The owner of a new record is the mod that has its ID, or had it before the call still running on it. *)
LEMMA OwnerIs ==
  ASSUME DiskInv, Traced, NEW id, \A k \in Mods : Moving(k) => Target(job[k]) # id
  PROVE  /\ \A n \in Mods : (n \in Present /\ ID(n) = id) \/ (Moving(n) /\ job[n].id = id) => OwnerOf(id) = n
         /\ OwnerOf(id) # None =>
              /\ OwnerOf(id) \in Mods
              /\ \/ OwnerOf(id) \in Present /\ ID(OwnerOf(id)) = id /\ ~ Moving(OwnerOf(id))
                 \/ Moving(OwnerOf(id)) /\ job[OwnerOf(id)].id = id
<1> DEFINE moving == {job[m].entry : m \in {n \in Mods : job[n].phase \in {"rescan", "reconcile"} /\ job[n].id = id}}
           owners == ModsAt(id) \cup moving
           Owns(n) == n \in Mods /\ ((n \in Present /\ ID(n) = id) \/ (Moving(n) /\ job[n].id = id))
<1>1. Tree(home) /\ MovedOnce /\ CallsKnow
  BY DEF DiskInv, Traced
<1>2. \A n \in Mods : Moving(n) => job[n].entry = n
  BY <1>1 DEF CallsKnow, Moving
<1>3. \A n : n \in owners <=> Owns(n)
  <2>1. moving = {n \in Mods : Moving(n) /\ job[n].id = id}
    <3>1. \A n \in moving : n \in Mods /\ Moving(n) /\ job[n].id = id
      BY <1>2 DEF Moving
    <3>2. ASSUME NEW n \in Mods, Moving(n), job[n].id = id PROVE n \in moving
      <4>1. job[n].phase \in {"rescan", "reconcile"} /\ n = job[n].entry
        BY <1>2, <3>2 DEF Moving
      <4> QED BY <3>2, <4>1
    <3> HIDE DEF moving
    <3> QED BY <3>1, <3>2
  <2> HIDE DEF moving
  <2> QED BY <2>1 DEF ModsAt, Present
<1>4. OwnerOf(id) = IF owners = {} THEN None ELSE CHOOSE m \in owners : TRUE
  BY DEF OwnerOf
<1>5. ASSUME NEW n, NEW k, Owns(n), Owns(k) PROVE n = k
  <2>1. CASE n \in Present /\ ID(n) = id /\ k \in Present /\ ID(k) = id
    BY <1>1, <2>1, IDsApart
  <2>2. CASE Moving(n) /\ job[n].id = id
    <3>1. (\A x \in Present : ID(x) # id) /\ \A x \in Mods \ {n} : Moving(x) => job[x].id # id
      BY <1>1, <1>5, <2>2 DEF CallsKnow, MovedAway, ModsAt
    <3> QED BY <1>5, <3>1
  <2>3. CASE Moving(k) /\ job[k].id = id
    <3>1. (\A x \in Present : ID(x) # id) /\ \A x \in Mods \ {k} : Moving(x) => job[x].id # id
      BY <1>1, <1>5, <2>3 DEF CallsKnow, MovedAway, ModsAt
    <3> QED BY <1>5, <3>1
  <2> QED BY <1>5, <2>1, <2>2, <2>3
<1>6. ASSUME NEW n \in Mods, Moving(n), n \in Present, ID(n) = id PROVE FALSE
  <2>1. ID(n) = Target(job[n])
    BY <1>1, <1>6 DEF CallsKnow, MovedAway
  <2> QED BY <1>6, <2>1
<1> HIDE DEF owners
<1>7. owners # {} => OwnerOf(id) \in owners
  BY <1>4
<1>8. owners = {} => OwnerOf(id) = None
  BY <1>4
<1>9. owners # {} => Owns(OwnerOf(id))
  BY <1>3, <1>7
<1>10. ASSUME NEW n \in Mods, (n \in Present /\ ID(n) = id) \/ (Moving(n) /\ job[n].id = id)
       PROVE  OwnerOf(id) = n
  <2>1. Owns(n)
    BY <1>10
  <2>2. owners # {}
    BY <1>3, <2>1
  <2> HIDE DEF Owns
  <2> QED BY <1>5, <1>9, <2>1, <2>2
<1>11. ASSUME OwnerOf(id) # None
       PROVE  /\ OwnerOf(id) \in Mods
              /\ \/ OwnerOf(id) \in Present /\ ID(OwnerOf(id)) = id /\ ~ Moving(OwnerOf(id))
                 \/ Moving(OwnerOf(id)) /\ job[OwnerOf(id)].id = id
  <2> DEFINE o == OwnerOf(id)
  <2>1. Owns(o)
    BY <1>8, <1>9, <1>11
  <2> HIDE DEF o
  <2>2. o \in Mods /\ ((o \in Present /\ ID(o) = id) \/ (Moving(o) /\ job[o].id = id))
    BY <2>1
  <2>3. o \in Present /\ ID(o) = id => ~ Moving(o)
    BY <1>6, <2>2
  <2> QED BY <2>2, <2>3 DEF o
<1> QED BY <1>10, <1>11

LEMMA TagTraced == ASSUME DiskInv, Traced, TagCall, ~ reused' PROVE Traced'
<1>1. /\ records \in Seq(Records) /\ DOMAIN records = 1 .. Len(records) /\ Len(records) \in Nat
      /\ CallsKnow /\ RecordsApart /\ OwnersRight /\ Follows
  BY DEF DiskInv, OrganizeTypeOK, DocumentTypes, Traced
<1>2. UNCHANGED <<home, at, job, told, carried, touched>>
  BY TagDisk DEF disk
<1>3. Existing' = Existing /\ PathOf' = PathOf
  BY <1>2, TreeNow, TreeNext
<1>4. Present' = Present /\ \A n : (ID(n))' = ID(n)
  BY <1>2, <1>3 DEF Present, ID
<1>5. \A n \in Mods : (Moving(n)' <=> Moving(n)) /\ (Waits(n)' <=> Waits(n))
  BY <1>2 DEF Moving, Waits
<1>6. \A i \in DOMAIN records : records'[i].scanner = records[i].scanner /\ records'[i].owner = records[i].owner
  BY TagScanners DEF SameIDs
<1>7. PICK new \in SUBSET {Len(records) + 1} :
        /\ DOMAIN records' = DOMAIN records \cup new
        /\ \A i \in new :
             /\ \A k \in DOMAIN records : records[k].scanner # records'[i].scanner
             /\ \A k \in Mods : Moving(k) => Target(job[k]) # records'[i].scanner
             /\ \A n \in Mods : (n \in Present /\ ID(n) = records'[i].scanner)
                                  \/ (Moving(n) /\ job[n].id = records'[i].scanner) => records'[i].owner = n
             /\ records'[i].owner # None =>
                  /\ records'[i].owner \in Mods
                  /\ \/ ID(records'[i].owner) = records'[i].scanner /\ ~ Moving(records'[i].owner)
                     \/ Moving(records'[i].owner) /\ job[records'[i].owner].id = records'[i].scanner
  <2>1. CASE DOMAIN records' = DOMAIN records
    <3> WITNESS {} \in SUBSET {Len(records) + 1}
    <3> QED BY <2>1
  <2>2. CASE DOMAIN records' # DOMAIN records
    <3>1. PICK id \in IDs : Appends(id) /\ \A k \in Mods : Moving(k) => Target(job[k]) # id
      BY <2>2, TagScanners
    <3>2. /\ \A n \in Mods : (n \in Present /\ ID(n) = id) \/ (Moving(n) /\ job[n].id = id) => OwnerOf(id) = n
          /\ OwnerOf(id) # None =>
              /\ OwnerOf(id) \in Mods
              /\ \/ ID(OwnerOf(id)) = id /\ ~ Moving(OwnerOf(id))
                 \/ Moving(OwnerOf(id)) /\ job[OwnerOf(id)].id = id
      BY <3>1, OwnerIs
    <3>3. DOMAIN records' = DOMAIN records \cup {Len(records) + 1}
      BY <1>1, <3>1 DEF Appends
    <3>4. /\ records'[Len(records) + 1].scanner = id /\ records'[Len(records) + 1].owner = OwnerOf(id)
          /\ \A k \in DOMAIN records : records[k].scanner # id
      BY <3>1 DEF Appends, RecordsOf
    <3> HIDE DEF Appends
    <3> WITNESS {Len(records) + 1} \in SUBSET {Len(records) + 1}
    <3> QED BY <3>1, <3>2, <3>3, <3>4
  <2> QED BY <2>1, <2>2
<1>8. CallsKnow'
  <2> SUFFICES ASSUME NEW n \in Mods
               PROVE  /\ Waits(n)' => n \in Present' /\ (ID(n))' = job'[n].id
                      /\ job'[n].phase \in {"move", "rescan", "reconcile"} => job'[n].entry = n
                      /\ Moving(n)' => MovedAway(n)'
    BY DEF CallsKnow
  <2>1. ASSUME Moving(n)' PROVE MovedAway(n)'
    <3>1. Moving(n) /\ job'[n] = job[n]
      BY <1>2, <1>5, <2>1
    <3>2. /\ n \in Present /\ ID(n) = Target(job[n])
          /\ \A x \in Present : ID(x) # job[n].id
          /\ \A i \in DOMAIN records : records[i].scanner # Target(job[n])
          /\ \A k \in Mods \ {n} : Moving(k) => job[k].id # job[n].id
      BY <1>1, <3>1 DEF CallsKnow, MovedAway, ModsAt, RecordsOf
    <3>3. ModsAt(job[n].id)' = {}
      BY <1>4, <3>1, <3>2 DEF ModsAt
    <3>4. RecordsOf(Target(job[n]))' = {}
      <4>1. \A i \in DOMAIN records' : records'[i].scanner # Target(job[n])
        BY <1>6, <1>7, <3>1, <3>2
      <4> QED BY <3>1, <4>1 DEF RecordsOf
    <3>5. \A k \in Mods \ {n} : Moving(k)' => job'[k].id # job'[n].id
      BY <1>2, <1>5, <3>1, <3>2
    <3>6. n \in Present' /\ (ID(n))' = Target(job'[n])
      BY <1>4, <3>1, <3>2
    <3> QED BY <3>3, <3>4, <3>5, <3>6 DEF MovedAway
  <2> QED BY <1>1, <1>2, <1>4, <1>5, <2>1 DEF CallsKnow
<1>9. RecordsApart'
  <2> SUFFICES ASSUME NEW i \in DOMAIN records', NEW k \in DOMAIN records', records'[i].scanner = records'[k].scanner
               PROVE  i = k
    BY DEF RecordsApart
  <2>1. CASE i \in DOMAIN records /\ k \in DOMAIN records
    BY <1>1, <1>6, <2>1 DEF RecordsApart
  <2>2. CASE i \in new /\ k \in DOMAIN records
    BY <1>6, <1>7, <2>2
  <2>3. CASE i \in DOMAIN records /\ k \in new
    BY <1>6, <1>7, <2>3
  <2>4. CASE i \in new /\ k \in new
    BY <2>4
  <2> QED BY <1>7, <2>1, <2>2, <2>3, <2>4
<1>10. OwnersRight'
  <2> SUFFICES ASSUME NEW i \in DOMAIN records', NEW n \in Mods,
                      \/ n \in Present /\ records'[i].scanner = ID(n)
                      \/ Moving(n) /\ records'[i].scanner = job[n].id
               PROVE  records'[i].owner = n
    BY <1>2, <1>4, <1>5 DEF OwnersRight
  <2>1. CASE i \in DOMAIN records
    BY <1>1, <1>6, <2>1 DEF OwnersRight
  <2>2. CASE i \in new
    BY <1>7, <2>2
  <2> QED BY <1>7, <2>1, <2>2
<1>11. Follows'
  <2> SUFFICES ASSUME NEW i \in DOMAIN records', NEW o, o = records'[i].owner, NEW s, s = records'[i].scanner
               PROVE  \/ o = None \/ o \notin Present \/ o \in told \cup carried \cup touched
                      \/ Moving(o) /\ s = job[o].id
                      \/ ~ Moving(o) /\ s = ID(o)
    BY <1>2, <1>4 DEF Follows, Followed, Moving
  <2>1. CASE i \in DOMAIN records
    BY <1>1, <1>6, <2>1 DEF Follows, Followed
  <2>2. CASE i \in new
    BY <1>7, <2>2
  <2> QED BY <1>7, <2>1, <2>2
<1> QED BY <1>8, <1>9, <1>10, <1>11 DEF Traced

(* The ID of a mod below a folder that was renamed. *)
LEMMA CarriedID ==
  ASSUME Tree(home), NEW f \in Existing, NEW h, Rehomes(f, h), h # Absent,
         NEW m \in Under(PathOf[f]), at'[m] = at[m]
  PROVE  (ID(m))' = Append(PathOf[h.parent], h.name) \o SubSeq(ID(m), Len(PathOf[f]) + 1, Len(ID(m)))
<1> DEFINE g == at[m].folder
           p == PathOf[g]
           q == PathOf[f]
           to == Append(PathOf[h.parent], h.name)
           A == Names \cup Stems
           s == at[m].stem
<1>1. /\ Existing = DirsOf(home) /\ PathOf = PathsOf(home)
      /\ Existing' = DirsOf(home') /\ PathOf' = PathsOf(home')
  BY TreeNow, TreeNext
<1>2. m \in Present /\ m \in Mods /\ q \in Paths
  BY PathFacts DEF Under, Present
<1>3. /\ g \in Existing /\ p \in Paths /\ s \in Stems /\ ID(m) = Append(p, s) /\ IsPrefix(q, p)
  BY <1>2, IDFacts, UnderIs
<1>4. /\ f \in FolderIds /\ h \in Homes /\ home' = Rehomed(home, f, h) /\ Tree(home')
      /\ h.parent \in Existing /\ ~ IsPrefix(PathOf[f], PathOf[h.parent])
  BY RehomesTree DEF Rehomes
<1>5. PathOf'[f] = to /\ PathOf'[g] = to \o After(p, Len(q))
  <2>1. ~ Below(home, f, h.parent) /\ Below(home, f, g) /\ Tree(Rehomed(home, f, h))
    BY <1>1, <1>3, <1>4 DEF Below
  <2>2. /\ PathsOf(Rehomed(home, f, h))[f] = Append(PathsOf(home)[h.parent], h.name)
        /\ PathsOf(Rehomed(home, f, h))[g] =
              PathsOf(Rehomed(home, f, h))[f] \o After(PathsOf(home)[g], Len(PathsOf(home)[f]))
    BY <1>1, <1>3, <1>4, <2>1, Carried
  <2> QED BY <1>1, <1>4, <2>2
<1>6. (ID(m))' = Append(PathOf'[g], s)
  BY DEF ID
<1>7. to \in Seq(A) /\ p \in Seq(A) /\ q \in Seq(A) /\ s \in A
  <2>1. PathOf[h.parent] \in Paths
    BY <1>4, PathFacts
  <2>2. h.name \in Names
    <3>1. h \in [parent : All, name : Names]
      BY <1>4 DEF Homes
    <3> QED BY <3>1
  <2>3. PathOf[h.parent] \in Seq(A) /\ h.name \in A
    BY <2>1, <2>2 DEF Paths
  <2>4. to \in Seq(A)
    BY <2>3
  <2> QED BY <1>2, <1>3, <2>4 DEF Paths
<1> HIDE DEF g, p, q, to, A, s
<1>8. Len(q) \in 0 .. Len(p)
  BY <1>3, <1>7, PrefixIs
<1>9. After(p, Len(q)) \in Seq(A) /\ After(Append(p, s), Len(q)) = Append(After(p, Len(q)), s)
  BY <1>7, <1>8, AfterAppend
<1>10. to \o Append(After(p, Len(q)), s) = Append(to \o After(p, Len(q)), s)
  BY <1>7, <1>9, ConcatAppend
<1>11. (ID(m))' = to \o After(ID(m), Len(q))
  BY <1>3, <1>5, <1>6, <1>9, <1>10
<1>12. After(ID(m), Len(q)) = SubSeq(ID(m), Len(q) + 1, Len(ID(m)))
  BY DEF After
<1> QED BY <1>11, <1>12 DEF q, to

(* A folder call leaves the ID of a mod, removes the mod, or carries it to an ID no record has. *)
LEMMA FolderIDs ==
  ASSUME DiskInv, FolderCall, ~ reused', NEW m \in Present'
  PROVE  /\ m \in Mods /\ m \in Present
         /\ \/ (ID(m))' = ID(m)
            \/ m \in carried' /\ \A i \in DOMAIN records : records[i].scanner # (ID(m))'
<1>1. Tree(home) /\ JobTypes /\ FolderShape /\ m \in Mods
  BY DEF DiskInv, OrganizeTypeOK, Present
<1>2. at'[m] = at[m]
  <2>1. Tree(home')
    BY <1>1, FolderHome, RehomesTree
  <2>2. DirsOf(home') \subseteq All
    BY <2>1, DirsRight DEF Tree
  <2>3. at'[m] \in [folder : Existing', stem : Stems] /\ Existing' \subseteq All
    BY <2>2, TreeNext DEF Present
  <2>4. at'[m] \in [folder : All, stem : Stems]
    BY <2>3
  <2>5. at'[m] \notin {Lost, Unlisted}
    BY <2>4, OrganizeAssumption
  <2> QED BY <1>1, <2>5, FolderMods
<1>3. CASE home' = home
  <2>1. Existing' = Existing /\ PathOf' = PathOf
    BY <1>3, TreeNow, TreeNext
  <2> QED BY <1>1, <1>2, <2>1 DEF Present, ID
<1>4. CASE home' # home /\ MoveFolder
  <2> DEFINE j == folderJob
  <2>1. /\ j.phase = "apply" /\ CanRename(j) /\ Moved(j) /\ carried' = carried \cup Under(j.from)
        /\ \A n \in Under(j.from) : ~ Held(j.to \o SubSeq(ID(n), Len(j.from) + 1, Len(ID(n))))
    BY <1>4 DEF MoveFolder
  <2>2. j \in FolderJobs /\ j.to # <<>> /\ j.to \in Paths
    BY <1>1, <2>1, FolderFacts
  <2> DEFINE f == FolderAt(j.from)
  <2>3. f \in Existing /\ PathOf[f] = j.from /\ Rehomes(f, Put(j.to))
    BY <1>1, <2>1, <2>2, RenameHome
  <2>4. Put(j.to) # Absent /\ Append(PathOf[Put(j.to).parent], Put(j.to).name) = j.to
    BY <1>1, <2>1, <2>2, PutRight DEF CanRename
  <2>5. m \in Present /\ (m \notin Under(PathOf[f]) => (ID(m))' = ID(m))
    BY <1>1, <1>2, <2>3, RehomesMods
  <2>6. ASSUME m \in Under(PathOf[f])
        PROVE  m \in carried' /\ \A i \in DOMAIN records : records[i].scanner # (ID(m))'
    <3>1. (ID(m))' = j.to \o SubSeq(ID(m), Len(j.from) + 1, Len(ID(m)))
      <4> DEFINE h == Put(j.to)
      <4>1. f \in Existing /\ Rehomes(f, h) /\ h # Absent /\ m \in Under(PathOf[f])
        BY <2>3, <2>4, <2>6
      <4>2. Append(PathOf[h.parent], h.name) = j.to /\ PathOf[f] = j.from
        BY <2>3, <2>4
      <4> HIDE DEF h, f, j
      <4>3. (ID(m))' = Append(PathOf[h.parent], h.name) \o SubSeq(ID(m), Len(PathOf[f]) + 1, Len(ID(m)))
        BY <1>1, <1>2, <4>1, CarriedID
      <4> QED BY <4>2, <4>3
    <3> QED BY <2>1, <2>3, <2>6, <3>1 DEF Held
  <2> QED BY <1>1, <2>5, <2>6
<1>5. CASE home' # home /\ CreateFolder
  <2>1. PICK f \in FolderIds : Fresh(f) /\ Free(folderJob.to) /\ home' = [home EXCEPT ![f] = Put(folderJob.to)]
    BY <1>5 DEF CreateFolder
  <2>2. folderJob.to \in Paths /\ folderJob.to # <<>>
    BY <1>1, <1>5, FolderFacts DEF CreateFolder
  <2>3. Rehomes(f, Put(folderJob.to)) /\ f \notin Existing
    BY <1>1, <2>1, <2>2, CreateHome, FreshFacts
  <2> QED BY <1>1, <1>2, <2>3, RehomesMods
<1>6. CASE home' # home /\ (DeleteFolder \/ RemoveTree)
  <2>1. folderJob.from \in Known /\ home' = [home EXCEPT ![FolderAt(folderJob.from)] = Absent]
    BY <1>6 DEF DeleteFolder, RemoveTree
  <2>2. folderJob.phase \in {"apply", "remove"} /\ folderJob.op = "delete"
    BY <1>1, <1>6, FolderFacts DEF DeleteFolder, RemoveTree, FolderShape
  <2>3. folderJob.from \in Paths /\ folderJob.from # <<>>
    BY <1>1, <2>2, FolderFacts
  <2> DEFINE f == FolderAt(folderJob.from)
  <2>4. Rehomes(f, Absent) /\ f \in Existing
    BY <1>1, <2>1, <2>3, DeleteHome, FolderAtRight
  <2> HIDE DEF f
  <2>5. m \in Present /\ (m \notin Under(PathOf[f]) => (ID(m))' = ID(m))
    BY <1>1, <1>2, <2>4, RehomesMods
  <2>6. m \notin Under(PathOf[f])
    BY <1>1, <1>2, <2>4, Removed
  <2> QED BY <1>1, <2>5, <2>6
<1> QED BY <1>3, <1>4, <1>5, <1>6 DEF FolderCall, RequestFolder, PlanFolder, VerifyFolder, ShowFolder, disk

LEMMA FolderTraced == ASSUME DiskInv, Traced, FolderCall, ~ reused' PROVE Traced'
<1>1. CallsKnow /\ RecordsApart /\ OwnersRight /\ Follows /\ DiskInv'
  BY FolderDisk DEF Traced
<1>2. UNCHANGED <<records, job, told, touched>> /\ carried \subseteq carried'
  BY DEF FolderCall, RequestFolder, PlanFolder, MoveFolder, CreateFolder, DeleteFolder, RemoveTree, VerifyFolder,
         ShowFolder, FolderOnly, document, history
<1>3. \A n \in Mods : job[n] = NoJob
  <2>1. Idle
    BY FolderStarted, FolderFacts DEF DiskInv, OrganizeTypeOK, Alone, RequestFolder, NoJob
  <2> QED BY <2>1 DEF Idle
<1>4. \A n \in Mods : ~ Moving(n) /\ ~ Waits(n) /\ ~ Moving(n)' /\ ~ Waits(n)' /\ job'[n].phase = "none"
  BY <1>2, <1>3 DEF Moving, Waits, NoJob
<1>5. CallsKnow'
  BY <1>4 DEF CallsKnow
<1>6. RecordsApart'
  BY <1>1, <1>2 DEF RecordsApart
<1>7. OwnersRight'
  <2> SUFFICES ASSUME NEW i \in DOMAIN records, NEW n \in Mods, n \in Present', records[i].scanner = (ID(n))'
               PROVE  records[i].owner = n
    BY <1>2, <1>4 DEF OwnersRight
  <2>1. n \in Present /\ (ID(n))' = ID(n)
    BY FolderIDs
  <2> QED BY <1>1, <2>1 DEF OwnersRight
<1>8. Follows'
  <2> SUFFICES ASSUME NEW i \in DOMAIN records, NEW o, o = records[i].owner, o # None, o \in Present'
               PROVE  \/ o \in told \cup carried' \cup touched
                      \/ ~ Moving(o)' /\ records[i].scanner = (ID(o))'
    BY <1>2, <1>4 DEF Follows, Followed
  <2>1. o \in Mods /\ o \in Present /\ ((ID(o))' = ID(o) \/ o \in carried')
    BY FolderIDs
  <2> QED BY <1>1, <1>2, <1>4, <2>1 DEF Follows, Followed
<1> QED BY <1>5, <1>6, <1>7, <1>8 DEF Traced

LEMMA RecordNext == RecordInv /\ [OrganizeNext]_organizeVars => RecordInv'
<1> SUFFICES ASSUME RecordInv, [OrganizeNext]_organizeVars PROVE RecordInv'
  OBVIOUS
<1>1. DiskInv /\ DiskInv'
  BY DiskNext DEF RecordInv
<1> SUFFICES ASSUME ~ reused' PROVE Traced'
  BY <1>1 DEF RecordInv
<1>2. Traced
  BY ReusedStays DEF RecordInv
<1>3. CASE UNCHANGED organizeVars
  <2>1. UNCHANGED <<home, at, records, carried, touched, told, job>>
    BY <1>3 DEF organizeVars, disk, document, history
  <2>2. ASSUME NEW n \in Mods
        PROVE /\ Moving(n)' <=> Moving(n)
              /\ Moving(n) => job'[n].id = job[n].id /\ Target(job'[n]) = Target(job[n])
              /\ Waits(n)' => n \in Present /\ ID(n) = job'[n].id
              /\ job'[n].phase \in {"move", "rescan", "reconcile"} => job'[n].entry = n
    BY <1>2, <2>1 DEF Moving, Waits, Traced, CallsKnow
  <2> QED BY <1>1, <1>2, <2>1, <2>2, OnlyCalls, RecordOwners
<1> QED BY <1>1, <1>2, <1>3, ModTraced, FolderTraced, TagTraced, ForeignDisk DEF OrganizeNext

(* As long as no ID was reused, the record of a present mod names the ID   *)
(* it has, unless a call on it still has to reconcile it or reported an    *)
(* error after moving it (executeAndReconcile), or a folder call or        *)
(* another program moved it.                                               *)
THEOREM RecordsFollowMods == OrganizeSpec => []RecordsFollow
<1>1. OrganizeInit => RecordInv
  BY InitDisk DEF OrganizeInit, RecordInv, Traced, CallsKnow, RecordsApart, OwnersRight, Follows, Moving, Waits, NoJob
<1>2. RecordInv => RecordsFollow
  <2> SUFFICES ASSUME RecordInv, ~ reused, NEW i \in DOMAIN records, NEW m, m = records[i].owner, m # None
               PROVE  \/ m \notin Present \/ m \in told \cup carried \cup touched
                      \/ \E n \in Mods : job[n].phase \in {"rescan", "reconcile"} /\ job[n].entry = m
                      \/ records[i].scanner = ID(m)
    BY DEF RecordsFollow
  <2>1. Followed(m, records[i].scanner) /\ CallsKnow /\ m \in Mods
    BY RecordOwners DEF RecordInv, Traced, Follows
  <2> QED BY <2>1 DEF Followed, CallsKnow, Moving
<1> QED BY <1>1, <1>2, RecordNext, PTL DEF OrganizeSpec
=============================================================================
