------------------------------- MODULE Install -------------------------------
(***************************************************************************)
(* Installing mods (internal/install, service_install.go): the selected    *)
(* archives and files are staged in a private directory, the bundles found *)
(* there are previewed, and the chosen ones are encrypted if asked, freed  *)
(* of companion entries and copied into the library, with a rollback.      *)
(*                                                                         *)
(* Sessions are staged on goroutines of their own; the modal dialog allows *)
(* one ApplyInstall at a time.  Each file copy is a step: other programs   *)
(* may change the library and the window may close in between.             *)
(*                                                                         *)
(* Abstracted: names and paths are valid; the encryption of one staged     *)
(* bundle (Encryption) and the repair of its companion PAK are one step,   *)
(* because nothing else uses the staging directory.                        *)
(***************************************************************************)
EXTENDS Naturals, Sequences

CONSTANTS
  Sessions,     \* staged installs
  Archives,     \* archives that may be selected
  Folders,      \* folders loose files are selected from
  Holds,        \* the <<stem, extension>> pairs in each archive and folder
  Selected,     \* the files each session stages: [from, stem, ext] records
  Nexus,        \* sessions that stage a Nexus download
  Names,        \* destinations in the library: a folder and a stem each
  FolderOf,     \* the folder of a destination
  Root,         \* the mod root itself
  Start,        \* the library at the start
  Offers,      \* the sequences of items the user may apply in each session
  None, Torn, Old, Foreign,  \* no file, half a file, the library's, another program's
  MaxFailures,  \* bound: system calls that fail
  MaxForeign    \* bound: changes by other programs

Exts == {"pak", "utoc", "ucas"}
Areas == Archives \cup {"loose"}           \* item_N of an archive, or loose/
Stems == {h[1] : h \in UNION {Holds[o] : o \in Archives \cup Folders}}
Staged == Areas \X Stems \X Exts           \* paths in a staging directory
Slot == Names \X Exts                      \* paths in the library
File == [from : Archives \cup Folders, stem : Stems, ext : Exts, coded : BOOLEAN]
Item == [mod : Areas \X Stems, to : Names, overwrite : BOOLEAN, encrypt : BOOLEAN]
Move == [item : Nat, ext : Exts, replace : BOOLEAN]   \* one file of the item of that index

ASSUME InstallAssumption ==
  /\ "loose" \notin Archives
  /\ \A o \in Archives \cup Folders : \A h \in Holds[o] : h[2] \in Exts
  /\ Selected \in [Sessions -> Seq([from : Archives \cup Folders, stem : Stems, ext : Exts])]
  /\ \A s \in Sessions : \A k \in DOMAIN Selected[s] :
       LET source == Selected[s][k]
       IN source.from \in Folders => <<source.stem, source.ext>> \in Holds[source.from]
  /\ Nexus \subseteq Sessions /\ None \notin Sessions \cup File /\ Old # None
  /\ Start \in [Slot -> {None, Old}]
  /\ \A s \in Sessions : Offers[s] \subseteq Seq(Item) \ {<<>>}
  /\ MaxFailures \in Nat /\ MaxForeign \in Nat

VARIABLES
  session,    \* "staging" and "open" sessions are in the manager's map
  sources,    \* sessions whose Nexus source is recorded
  staged,     \* the files in each staging directory
  next,       \* the source each session stages next
  flagged,    \* stems a companion copy failed for
  mods,       \* the bundles discovered: a set of extensions for each
  lib,        \* the library
  dirs,       \* its folders
  active,     \* the session ApplyInstall works on, or None
  items,      \* the chosen items
  pc,         \* the step it is at
  plan,       \* the planned moves that are not done
  backup,     \* copies in the rollback directory
  created,    \* slots that were free at planning and have been reached
  saved,      \* overwritten slots a rollback has to return
  madeDirs,   \* folders that were missing when they were reached
  stuck,      \* an error in the rollback
  outcome,    \* how the last ApplyInstall ended
  closing,    \* shutdown has removed every session
  cancelled,  \* the runtime context is cancelled
  before,     \* history: the library and folders when ApplyInstall was called
  touched,    \* history: slots other programs changed since then
  unlisted,   \* history: stems whose folder could not be listed
  failures, foreign   \* counters of the bounds

staging == <<session, sources, staged, next, flagged, mods, unlisted>>
library == <<lib, dirs>>
rollback == <<backup, created, saved, madeDirs, stuck>>
call == <<active, items, plan, pc, outcome, before>>
window == <<closing, cancelled>>
bounds == <<failures, foreign>>
vars == <<staging, library, rollback, call, window, touched, bounds>>

Empty == [x \in Staged |-> None]
NoBundles == [m \in Areas \X Stems |-> {}]
Init ==
  /\ session = [s \in Sessions |-> "none"] /\ sources = {}
  /\ staged = [s \in Sessions |-> Empty] /\ next = [s \in Sessions |-> 1]
  /\ flagged = [s \in Sessions |-> {}] /\ unlisted = [s \in Sessions |-> {}]
  /\ mods = [s \in Sessions |-> NoBundles]
  /\ lib = Start /\ dirs = {Root} \cup {FolderOf[x[1]] : x \in {y \in Slot : Start[y] = Old}}
  /\ backup = [x \in Slot |-> None] /\ created = {} /\ saved = {} /\ madeDirs = {} /\ stuck = FALSE
  /\ active = None /\ items = <<>> /\ plan = {} /\ pc = "idle" /\ outcome = "none"
  /\ closing = FALSE /\ cancelled = FALSE
  /\ before = [files |-> lib, dirs |-> dirs] /\ touched = {}
  /\ failures = 0 /\ foreign = 0

Works == UNCHANGED bounds
Fails == failures < MaxFailures /\ failures' = failures + 1 /\ UNCHANGED foreign

-----------------------------------------------------------------------------
(* Staging: InstallService.stage, StagedSession.StageFiles.                *)

(* SessionManager.CreateSession. *)
CreateSession(s) ==
  /\ session[s] = "none" /\ ~closing
  /\ session' = [session EXCEPT ![s] = "staging"]
  /\ Works
  /\ UNCHANGED <<sources, staged, next, flagged, mods, unlisted,
                 library, rollback, call, window, touched>>

(* RemoveSession: the session leaves the map and its directory goes, the   *)
(* rollback directory in it with it.                                       *)
RemoveSession(s) ==
  /\ session' = [session EXCEPT ![s] = "removed"]
  /\ staged' = [staged EXCEPT ![s] = Empty]

StagingFails(s) ==
  RemoveSession(s) /\ UNCHANGED <<sources, next, flagged, mods, unlisted>>

AtSource(s) == session[s] = "staging" /\ next[s] <= Len(Selected[s])
Companions(source) ==
  {e \in Exts \ {source.ext} : <<source.stem, e>> \in Holds[source.from]}
Original(o, stem, e) == [from |-> o, stem |-> stem, ext |-> e, coded |-> FALSE]

(* The loose directory after a source: a later file of the same name has   *)
(* replaced an earlier one, a companion in "lost" could not be copied and  *)
(* its partial copy was removed.                                           *)
WithLoose(files, source, copied, lost) ==
  [x \in Staged |->
     IF x[1] # "loose" \/ x[2] # source.stem THEN files[x]
     ELSE IF x[3] \in lost THEN None
     ELSE IF x[3] \in copied THEN Original(source.from, x[2], x[3])
     ELSE files[x]]

(* Fault: a companion whose copy fails is passed over in silence. *)
StageLooseSilent(s) ==
  LET source == Selected[s][next[s]]
  IN /\ source.from \in Folders
     /\ \E lost \in SUBSET Companions(source) :
          /\ IF lost = {} THEN Works ELSE Fails
          /\ staged' = [staged EXCEPT ![s] = WithLoose(@, source, Companions(source) \cup {source.ext}, lost)]
     /\ UNCHANGED <<flagged, unlisted>>

(* A selected loose file and the companions beside it.  A companion that   *)
(* cannot be copied flags the stem; a folder that cannot be listed is      *)
(* taken to hold no companion.                                             *)
StageLoose(s) ==
  LET source == Selected[s][next[s]]
  IN /\ source.from \in Folders
     /\ \/ \E lost \in SUBSET Companions(source) :
             /\ IF lost = {} THEN Works ELSE Fails
             /\ staged' = [staged EXCEPT ![s] = WithLoose(@, source, Companions(source) \cup {source.ext}, lost)]
             /\ flagged' = [flagged EXCEPT ![s] = IF lost = {} THEN @ ELSE @ \cup {source.stem}]
             /\ UNCHANGED unlisted
        \/ /\ Fails
           /\ staged' = [staged EXCEPT ![s] = WithLoose(@, source, {source.ext}, {})]
           /\ unlisted' = [unlisted EXCEPT ![s] = @ \cup {source.stem}]
           /\ UNCHANGED flagged

(* ExtractArchive into a directory of its own: every entry, or an error. *)
StageArchive(s) ==
  LET source == Selected[s][next[s]]
  IN /\ source.from \in Archives
     /\ staged' = [staged EXCEPT ![s] = [x \in Staged |->
          IF x[1] = source.from /\ <<x[2], x[3]>> \in Holds[x[1]]
          THEN Original(x[1], x[2], x[3]) ELSE staged[s][x]]]
     /\ Works /\ UNCHANGED <<flagged, unlisted>>

(* One turn of the loop of StageFiles. *)
StageNext(s) ==
  /\ AtSource(s)
  /\ \/ /\ ~cancelled
        /\ StageLoose(s) \/ StageArchive(s)
        /\ next' = [next EXCEPT ![s] = @ + 1]
        /\ UNCHANGED <<session, sources, mods>>
     \/ Fails /\ StagingFails(s)
     \/ cancelled /\ Works /\ StagingFails(s)
  /\ UNCHANGED <<library, rollback, call, window, touched>>

(* discoverStagedMods: the groups with a primary file. *)
Bundles(s) ==
  [m \in Areas \X Stems |->
     IF staged[s][<<m[1], m[2], "pak">>] = None THEN {}
     ELSE {e \in Exts : staged[s][<<m[1], m[2], e>>] # None}]

Recorded(s) == IF s \in Nexus THEN sources \cup {s} ELSE sources

(* The end of stage: discovery, classification and companion marks, which  *)
(* only add labels, the preview, and the Nexus source of the session.      *)
Preview(s) ==
  /\ session[s] = "staging" /\ next[s] > Len(Selected[s])
  /\ \/ /\ Bundles(s) # NoBundles /\ Works
        /\ session' = [session EXCEPT ![s] = "open"]
        /\ mods' = [mods EXCEPT ![s] = Bundles(s)]
        /\ sources' = Recorded(s)
        /\ UNCHANGED <<staged, next, flagged, unlisted>>
     \/ Bundles(s) = NoBundles /\ Works /\ StagingFails(s)
     \/ Fails /\ StagingFails(s)
  /\ UNCHANGED <<library, rollback, call, window, touched>>

(* The preview dialog is closed; it cannot be while an install is applied. *)
CancelInstall(s) ==
  /\ session[s] = "open" /\ active # s /\ ~closing
  /\ sources' = sources \ {s} /\ RemoveSession(s)
  /\ Works
  /\ UNCHANGED <<next, flagged, mods, unlisted, library, rollback, call, window, touched>>

-----------------------------------------------------------------------------
(* InstallService.ApplyInstall.                                            *)

Bundle(item) == mods[active][item.mod]
CanEncrypt(item) == Bundle(item) = Exts /\ item.mod[2] \notin flagged[active]

(* The call: the source is taken and the worker is started. *)
ApplyInstall(s) ==
  /\ session[s] = "open" /\ pc = "idle" /\ ~closing
  /\ \E c \in Offers[s] :
       /\ \A k \in DOMAIN c : mods[s][c[k].mod] # {}
       /\ items' = c
  /\ active' = s /\ before' = [files |-> lib, dirs |-> dirs] /\ touched' = {}
  /\ sources' = sources \ {s}
  /\ \/ Works /\ pc' = "encrypt" /\ outcome' = "running"
     \/ Fails /\ pc' = "clean" /\ outcome' = "refused"
  /\ plan' = {}
  /\ backup' = [x \in Slot |-> None] /\ created' = {} /\ saved' = {} /\ madeDirs' = {} /\ stuck' = FALSE
  /\ UNCHANGED <<session, staged, next, flagged, mods, unlisted, library, window>>

Goto(step) == pc' = step /\ UNCHANGED <<active, items, plan, outcome, before>>
Refuse == pc' = "clean" /\ outcome' = "refused" /\ UNCHANGED <<active, items, plan, before>>

Wanted == {k \in DOMAIN items : items[k].encrypt}
WantedFiles ==
  UNION {{<<items[k].mod[1], items[k].mod[2], e>> : e \in Bundle(items[k])} : k \in Wanted}

(* Fault: the staged files of a bundle that is encrypted are not checked,  *)
(* and one that cannot be encrypted is passed over.                        *)
EncryptLenient ==
  /\ pc = "encrypt"
  /\ \/ /\ Works
        /\ LET files == UNION {{<<items[k].mod[1], items[k].mod[2], e>> : e \in Bundle(items[k])} :
                                 k \in {j \in Wanted : CanEncrypt(items[j])}}
           IN staged' = [staged EXCEPT ![active] = [x \in Staged |->
                IF x \in files /\ staged[active][x] # None
                THEN [staged[active][x] EXCEPT !.coded = TRUE] ELSE staged[active][x]]]
        /\ Goto("strip")
     \/ Fails /\ Refuse /\ UNCHANGED staged
  /\ UNCHANGED <<session, sources, next, flagged, mods, unlisted, library, rollback, window, touched>>

(* EncryptStagedMods, before the destination is changed; a bundle that is  *)
(* not a complete IoStore without issues refuses the install.              *)
Encrypt ==
  /\ pc = "encrypt"
  /\ \/ /\ \A k \in Wanted : CanEncrypt(items[k])
        /\ \A x \in WantedFiles : staged[active][x] # None
        /\ Wanted = {} \/ ~cancelled
        /\ Works
        /\ staged' = [staged EXCEPT ![active] = [x \in Staged |->
             IF x \in WantedFiles THEN [staged[active][x] EXCEPT !.coded = TRUE] ELSE staged[active][x]]]
        /\ Goto("strip")
     \/ /\ Wanted # {}
        /\ \/ \E k \in Wanted : ~CanEncrypt(items[k])
           \/ \E x \in WantedFiles : staged[active][x] = None
           \/ cancelled
        /\ Works /\ Refuse /\ UNCHANGED staged
     \/ Wanted # {} /\ Fails /\ Refuse /\ UNCHANGED staged
  /\ UNCHANGED <<session, sources, next, flagged, mods, unlisted, library, rollback, window, touched>>

(* stripStagedCompanionPaks: entries the game does not load are taken out  *)
(* of the companion PAK, which leaves it the same PAK here.                *)
Strip ==
  /\ pc = "strip"
  /\ (Works /\ Goto("plan")) \/ (Fails /\ Refuse)
  /\ UNCHANGED <<staging, library, rollback, window, touched>>

(* planFileMove of every file of every item. *)
From(m) == LET mod == items[m.item].mod IN <<mod[1], mod[2], m.ext>>
To(m) == <<items[m.item].to, m.ext>>
Moves ==
  UNION {{[item |-> k, ext |-> e, replace |-> lib[<<items[k].to, e>>] # None] : e \in Bundle(items[k])} :
           k \in DOMAIN items}
CanPlan ==
  /\ \A m, n \in Moves : To(m) = To(n) => m = n
  /\ \A m \in Moves : staged[active][From(m)] # None
  /\ \A m \in Moves : items[m.item].overwrite \/ ~m.replace

(* Apply takes the items in order, and the files of each in this one. *)
Rank == [pak |-> 1, utoc |-> 2, ucas |-> 3]
IsNext(m) ==
  \A n \in plan \ {m} : m.item < n.item \/ (m.item = n.item /\ Rank[m.ext] < Rank[n.ext])

(* The checks and the plan of Apply, and the rollback directory. *)
Plan ==
  /\ pc = "plan"
  /\ \/ /\ CanPlan /\ Works
        /\ plan' = Moves /\ pc' = "prepare"
        /\ UNCHANGED <<active, items, outcome, before>>
     \/ ~CanPlan /\ Works /\ Refuse
     \/ Fails /\ Refuse
  /\ UNCHANGED <<staging, library, rollback, window, touched>>

(* Fault: only primary files are copied to the rollback directory. *)
PrepareMovePrimaryOnly ==
  /\ pc = "prepare"
  /\ \E m \in plan : IsNext(m) /\
       LET x == To(m)  dir == FolderOf[x[1]]
       IN \/ /\ ~cancelled /\ Works
             /\ madeDirs' = IF dir \in dirs THEN madeDirs ELSE madeDirs \cup {dir}
             /\ dirs' = dirs \cup {dir}
             /\ IF m.replace /\ m.ext = "pak"
                THEN /\ lib[x] # None
                     /\ backup' = [backup EXCEPT ![x] = lib[x]] /\ saved' = saved \cup {x}
                     /\ UNCHANGED created
                ELSE created' = created \cup {x} /\ UNCHANGED <<backup, saved>>
             /\ Goto("copy")
          \/ cancelled /\ Works /\ Goto("undo") /\ UNCHANGED <<madeDirs, dirs, backup, saved, created>>
  /\ UNCHANGED <<staging, lib, stuck, window, touched>>

(* Before a file is copied: the context, the folder of the destination,    *)
(* and a backup of a file that existed at planning.                        *)
PrepareMove ==
  /\ pc = "prepare"
  /\ \E m \in plan : IsNext(m) /\
       LET x == To(m)  dir == FolderOf[x[1]]
       IN \/ /\ ~cancelled
             /\ madeDirs' = IF dir \in dirs THEN madeDirs ELSE madeDirs \cup {dir}
             /\ \/ /\ Works
                   /\ m.replace => lib[x] # None
                   /\ dirs' = dirs \cup {dir}
                   /\ IF m.replace
                      THEN /\ backup' = [backup EXCEPT ![x] = lib[x]] /\ saved' = saved \cup {x}
                           /\ UNCHANGED created
                      ELSE created' = created \cup {x} /\ UNCHANGED <<backup, saved>>
                   /\ Goto("copy")
                \/ /\ m.replace /\ lib[x] = None /\ Works   \* nothing to back up
                   /\ dirs' = dirs \cup {dir} /\ Goto("undo")
                   /\ UNCHANGED <<backup, saved, created>>
                \/ Fails /\ Goto("undo") /\ UNCHANGED <<dirs, backup, saved, created>>
          \/ cancelled /\ Works /\ Goto("undo") /\ UNCHANGED <<madeDirs, dirs, backup, saved, created>>
  /\ UNCHANGED <<staging, lib, stuck, window, touched>>

(* copyRegularFile: a copy that fails may leave half a file. *)
CopyTo(x, content) ==
  IF content = None THEN Works /\ UNCHANGED lib
  ELSE Fails /\ \E half \in {lib[x], Torn} : lib' = [lib EXCEPT ![x] = half]

Copy ==
  /\ pc = "copy"
  /\ \E m \in plan : IsNext(m) /\
       LET file == staged[active][From(m)]
       IN \/ /\ file # None /\ Works
             /\ lib' = [lib EXCEPT ![To(m)] = file]
             /\ plan' = plan \ {m} /\ pc' = "prepare"
             /\ UNCHANGED <<active, items, outcome, before>>
          \/ CopyTo(To(m), file) /\ Goto("undo")
  /\ UNCHANGED <<staging, dirs, rollback, window, touched>>

(* Rollback, first part: files that were free at planning are removed. *)
RemoveCreated ==
  /\ pc = "undo" /\ created # {}
  /\ \E x \in created :
       /\ created' = created \ {x}
       /\ \/ Works /\ lib' = [lib EXCEPT ![x] = None] /\ UNCHANGED stuck
          \/ lib[x] # None /\ Fails /\ stuck' = TRUE /\ UNCHANGED lib
  /\ UNCHANGED <<staging, dirs, call, backup, saved, madeDirs, window, touched>>

(* Second part: the backups are copied back, in any order. *)
ReturnBackup ==
  /\ pc = "undo" /\ created = {} /\ saved # {}
  /\ \E x \in saved :
       /\ saved' = saved \ {x}
       /\ \/ backup[x] # None /\ Works /\ lib' = [lib EXCEPT ![x] = backup[x]] /\ UNCHANGED stuck
          \/ CopyTo(x, backup[x]) /\ stuck' = TRUE
  /\ UNCHANGED <<staging, dirs, call, backup, created, madeDirs, window, touched>>

(* Fault: an error of the rollback is not reported. *)
EndRollbackSilent ==
  /\ pc = "undo" /\ created = {} /\ saved = {}
  /\ dirs' = dirs \ madeDirs
  /\ pc' = "clean" /\ outcome' = "rolledback"
  /\ Works
  /\ UNCHANGED <<staging, lib, active, items, plan, before, rollback, window, touched>>

(* Third part: new folders that are empty go, and the result; a folder     *)
(* that cannot be removed stays and is not reported.                       *)
EndRollback ==
  /\ pc = "undo" /\ created = {} /\ saved = {}
  /\ \E kept \in SUBSET (madeDirs \cap dirs) :
       /\ IF kept = {} THEN Works ELSE Fails
       /\ dirs' = {d \in dirs : d \in madeDirs \ kept => \E x \in Slot : FolderOf[x[1]] = d /\ lib[x] # None}
  /\ pc' = "clean" /\ outcome' = IF stuck THEN "stuck" ELSE "rolledback"
  /\ UNCHANGED <<staging, lib, active, items, plan, before, rollback, window, touched>>

(* Everything is copied: the rescan, then the metadata of the new mods,    *)
(* whose failure is not reported.                                          *)
Rescan ==
  /\ pc = "prepare" /\ plan = {}
  /\ \/ Works /\ outcome' = "ok"
     \/ Fails /\ outcome' = "unscanned"
  /\ pc' = "clean"
  /\ UNCHANGED <<staging, library, active, items, plan, before, rollback, window, touched>>

(* The deferred RemoveSession. *)
Clean ==
  /\ pc = "clean"
  /\ RemoveSession(active)
  /\ backup' = [x \in Slot |-> None]
  /\ active' = None /\ pc' = "idle"
  /\ Works
  /\ UNCHANGED <<sources, next, flagged, mods, unlisted, library, created, saved, madeDirs,
                 stuck, items, plan, outcome, before, window, touched>>

-----------------------------------------------------------------------------
(* App.shutdown: CleanupAll, under whatever runs. *)
Shutdown ==
  /\ ~closing /\ closing' = TRUE
  /\ session' = [s \in Sessions |-> IF session[s] \in {"staging", "open"} THEN "removed" ELSE session[s]]
  /\ staged' = [s \in Sessions |-> Empty]
  /\ backup' = [x \in Slot |-> None]
  /\ Works
  /\ UNCHANGED <<sources, next, flagged, mods, unlisted, library, created, saved, madeDirs, stuck,
                 call, cancelled, touched>>

CancelContext ==
  /\ ~cancelled /\ cancelled' = TRUE
  /\ Works
  /\ UNCHANGED <<staging, library, rollback, call, closing, touched>>

(* Another program adds a mod file, or replaces or removes one. *)
OtherProgram ==
  /\ foreign < MaxForeign /\ foreign' = foreign + 1 /\ UNCHANGED failures
  /\ \E x \in Slot : \E content \in {None, Foreign} :
       /\ FolderOf[x[1]] \in dirs /\ lib[x] \notin {content, Foreign}
       /\ lib' = [lib EXCEPT ![x] = content]
       /\ touched' = touched \cup {x}
  /\ UNCHANGED <<staging, dirs, rollback, call, window>>

Next ==
  \/ \E s \in Sessions : CreateSession(s) \/ StageNext(s) \/ Preview(s) \/ CancelInstall(s) \/ ApplyInstall(s)
  \/ Encrypt \/ Strip \/ Plan \/ PrepareMove \/ Copy
  \/ RemoveCreated \/ ReturnBackup \/ EndRollback \/ Rescan \/ Clean
  \/ Shutdown \/ CancelContext \/ OtherProgram

Spec == Init /\ [][Next]_vars

-----------------------------------------------------------------------------

(* A staged bundle without an issue has every file that stands beside its  *)
(* primary in the folder the primary was selected from: the preview never  *)
(* offers a truncated bundle as a whole one (the companion failures of     *)
(* StageFiles), unless the folder could not be listed.                     *)
StagedComplete ==
  \A s \in Sessions : session[s] = "open" =>
    \A stem \in Stems \ (flagged[s] \cup unlisted[s]) :
      LET pak == staged[s][<<"loose", stem, "pak">>]
      IN pak # None => \A e \in Exts : <<stem, e>> \in Holds[pak.from] => e \in mods[s][<<"loose", stem>>]

(* While an install runs, each file it replaces is in the library or in    *)
(* the rollback directory, until the window is closed or the file is       *)
(* changed by another program: a failure finds everything it must return.  *)
OldSafe ==
  pc # "idle" /\ outcome \in {"running", "rolledback", "stuck"} /\ ~closing =>
    \A x \in Slot \ touched : before.files[x] = Old => Old \in {lib[x], backup[x]}

(* An install that is refused, or reports that it "was cleanly rolled      *)
(* back", has left every file as it was, but for what other programs       *)
(* changed, and every folder; the only new folders are its own, all empty, *)
(* and none if it was refused.                                             *)
CleanRollback ==
  [][pc # "clean" /\ pc' = "clean" /\ outcome' \in {"refused", "rolledback"} =>
       /\ \A x \in Slot \ touched' : lib'[x] = before'.files[x]
       /\ before'.dirs \subseteq dirs' /\ dirs' \subseteq before'.dirs \cup madeDirs'
       /\ outcome' = "refused" => dirs' = before'.dirs]_vars

(* An install reported as done has put every discovered file of every item *)
(* at its destination, encrypted when that was asked.                      *)
SuccessIsWhole ==
  [][outcome # "ok" /\ outcome' = "ok" =>
       \A k \in DOMAIN items : \A e \in Bundle(items[k]) :
         LET x == <<items[k].to, e>>
         IN x \in touched \/ /\ lib'[x] \in File
                             /\ lib'[x].stem = items[k].mod[2] /\ lib'[x].ext = e
                             /\ items[k].encrypt => lib'[x].coded]_vars
=============================================================================
