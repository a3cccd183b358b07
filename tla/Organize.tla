------------------------------ MODULE Organize ------------------------------
(***************************************************************************)
(* Folders, and the metadata that follows mods: OrganizeService over       *)
(* internal/mutation/folders.go, and the records and tags of               *)
(* internal/metadata that SettingsService edits.                           *)
(*                                                                         *)
(* A scanner ID is the path of a mod: the names of its folders, then its   *)
(* stem.  Calls name mods and folders by the path they had when the call   *)
(* was made.  The window runs calls on different mods together, a folder   *)
(* call alone, and tag calls at any time; other programs change folders    *)
(* and mods.                                                               *)
(*                                                                         *)
(* Abstracted: a bundle moves as a whole or not at all (AtomicBundle); a   *)
(* change of the document under metadataGate is one step (AtomicDocument); *)
(* the game is not running.                                                *)
(***************************************************************************)
EXTENDS Naturals, SequencesExt

CONSTANTS
  Mods, FolderIds, Tags,    \* things with an identity of their own
  Names, Stems, TagNames,   \* names of folders, mods and tags
  Root,                     \* the mod root
  Absent, Away, Lost, Unlisted, None,  \* other places, and nothing
  InitHome, InitAt,         \* the library at the start
  MaxCalls, MaxTagCalls, MaxForeign, MaxFailures  \* bounds

(* Absent: not created yet, or deleted (to the trash).  Away: taken away by another program.  *)
(* Lost: deleted for good.  Unlisted: in the trash without its .trashinfo. *)
All == FolderIds \cup {Root}
Homes == [parent : All, name : Names] \cup {Absent}
Spots == [folder : All, stem : Stems] \cup {Away, Lost, Unlisted}

ASSUME OrganizeAssumption ==
  /\ Root \notin FolderIds /\ Names \cap Stems = {} /\ None \notin Mods \cup FolderIds
  /\ Absent \notin [parent : All, name : Names] /\ Lost \notin {Away, Unlisted}
  /\ {Away, Lost, Unlisted} \cap [folder : All, stem : Stems] = {}
  /\ {"new", "deleted"} \cap TagNames = {}
  /\ InitHome \in [FolderIds -> Homes] /\ InitAt \in [Mods -> Spots]
  \* no folder is below itself, no two folders and no two mods are in one place
  /\ \A C \in (SUBSET FolderIds) \ {{}} : \E f \in C : InitHome[f] = Absent \/ InitHome[f].parent \notin C
  /\ \A f, g \in FolderIds : InitHome[f] # Absent /\ f # g => InitHome[f] # InitHome[g]
  /\ \A m, n \in Mods : InitAt[m] \in [folder : All, stem : Stems] /\ m # n => InitAt[m] # InitAt[n]
  /\ MaxCalls \in Nat /\ MaxTagCalls \in Nat /\ MaxForeign \in Nat /\ MaxFailures \in Nat

VARIABLES
  home, at,        \* where each folder and each mod is
  records,         \* Document.Mods: [scanner, tags, owner], owner being history
  catalog,         \* Document.Tags: a name, "new" or "deleted"
  job,             \* the call running on each mod
  folderJob,       \* the folder call: running, or "ok" or "failed" and not yet shown
  request,         \* a tag call that has not reached the gate
  wanted,          \* history: the tags the user was told each mod has
  told,            \* history: mods a call reported an error for after moving them
  carried,         \* history: mods a folder call moved
  touched,         \* history: what other programs changed
  reused,          \* history: two mods or two records may have come to share an ID
  calls, tagCalls, foreign, failures   \* counters of the bounds

disk == <<home, at>>
document == <<records, catalog>>
history == <<wanted, told, carried, touched, reused>>
counters == <<calls, tagCalls, foreign, failures>>
organizeVars == <<disk, document, job, folderJob, request, history, counters>>

(* The scan of the library (discovery.Scan). *)
Existing ==
  LET exists[f \in All] == f = Root \/ (home[f] # Absent /\ exists[home[f].parent])
  IN {f \in All : exists[f]}
PathOf ==
  LET path[f \in Existing] == IF f = Root THEN <<>> ELSE Append(path[home[f].parent], home[f].name)
  IN path
Known == {PathOf[f] : f \in Existing}
FolderAt(p) == CHOOSE f \in Existing : PathOf[f] = p
Present == {m \in Mods : at[m] \in [folder : Existing, stem : Stems]}
ID(m) == Append(PathOf[at[m].folder], at[m].stem)
ModsAt(id) == {m \in Present : ID(m) = id}
Under(p) == {m \in Present : IsPrefix(p, ID(m))}

NoJob == [phase |-> "none"]
OrganizeInit ==
  /\ home = InitHome /\ at = InitAt
  /\ records = <<>> /\ catalog = [t \in Tags |-> "new"]
  /\ job = [m \in Mods |-> NoJob] /\ folderJob = NoJob /\ request = NoJob
  /\ wanted = [m \in Mods |-> {}]
  /\ told = {} /\ carried = {} /\ touched = {} /\ reused = FALSE
  /\ calls = 0 /\ tagCalls = 0 /\ foreign = 0 /\ failures = 0

Works == UNCHANGED counters
Fails == failures < MaxFailures /\ failures' = failures + 1 /\ UNCHANGED <<calls, tagCalls, foreign>>
Called == calls < MaxCalls /\ calls' = calls + 1 /\ UNCHANGED <<tagCalls, foreign, failures>>

-----------------------------------------------------------------------------
(* RenameMod, SetModPriority, MoveMod and DeleteMod.  *)

Idle == \A m \in Mods : job[m] = NoJob
RequestMod(m) ==
  /\ m \in Present /\ job[m] = NoJob /\ folderJob = NoJob /\ Called
  /\ LET own == PathOf[at[m].folder]
     IN \E op \in {"relocate", "delete"}, to \in Known, s \in Stems :
          /\ op = "relocate" => (to = own) # (s = at[m].stem)   \* a rename or a move
          /\ op = "delete" => to = own /\ s = at[m].stem
          /\ job' = [job EXCEPT ![m] =
               [phase |-> "scan", op |-> op, id |-> ID(m), to |-> to, stem |-> s, entry |-> None]]
  /\ UNCHANGED <<disk, document, folderJob, request, history>>

Target(j) == Append(j.to, j.stem)
Ends(m) == job' = [job EXCEPT ![m] = NoJob]
ModOnly == UNCHANGED <<folderJob, request, wanted, carried, touched>>

(* The scan, findEntry, knownFolder and the plan. *)
ScanMod(m) ==
  /\ job[m].phase = "scan"
  /\ IF /\ ModsAt(job[m].id) # {}
        /\ job[m].op = "relocate" => job[m].to \in Known /\ ModsAt(Target(job[m])) = {}
     THEN \E e \in ModsAt(job[m].id) :
            job' = [job EXCEPT ![m].phase = "move", ![m].entry = e]
     ELSE Ends(m)
  /\ Works /\ ModOnly /\ UNCHANGED <<disk, document, told, reused>>

(* An ID that a record or a running call still means. *)
Held(id) ==
  \/ \E i \in DOMAIN records : records[i].scanner = id
  \/ \E m \in Mods : job[m] # NoJob /\ job[m].id = id

(* plan.apply without replacing anything, or the Recycle Bin. *)
MoveMod(m) ==
  LET j == job[m] IN
  /\ j.phase = "move"
  /\ \/ /\ j.entry \in ModsAt(j.id)
        /\ j.op = "relocate" /\ j.to \in Known /\ ModsAt(Target(j)) = {}
        /\ at' = [at EXCEPT ![j.entry] = [folder |-> FolderAt(j.to), stem |-> j.stem]]
        /\ job' = [job EXCEPT ![m].phase = "rescan"]
        /\ reused' = (reused \/ Held(Target(j)))
        /\ Works
     \/ /\ j.entry \in ModsAt(j.id) /\ j.op = "delete"
        /\ at' = [at EXCEPT ![j.entry] = Away]
        /\ Ends(m) /\ Works /\ UNCHANGED reused
     \/ /\ IF j.entry \in ModsAt(j.id) /\ (j.op = "relocate" => j.to \in Known /\ ModsAt(Target(j)) = {})
           THEN Fails ELSE Works
        /\ Ends(m) /\ UNCHANGED <<at, reused>>
  /\ ModOnly /\ UNCHANGED <<home, document, told>>

(* reconcileResult: the renamed mod has to be in a new scan. *)
RescanMod(m) ==
  /\ job[m].phase = "rescan"
  /\ IF ModsAt(Target(job[m])) # {}
     THEN job' = [job EXCEPT ![m].phase = "reconcile"] /\ UNCHANGED told
     ELSE Ends(m) /\ told' = told \cup {job[m].entry}
  /\ Works /\ ModOnly /\ UNCHANGED <<disk, document, reused>>

(* FindModByScannerID: any record of that ID. *)
RecordsOf(id) == {i \in DOMAIN records : records[i].scanner = id}

(* Fault: only a rename in place is reconciled. *)
ReconcileRenames(m) ==
  LET j == job[m]
      kept == IF j.to = Front(j.id) THEN RecordsOf(j.id) ELSE {}
  IN
  /\ j.phase = "reconcile" /\ Ends(m) /\ Works /\ UNCHANGED told
  /\ IF kept = {} THEN UNCHANGED records
     ELSE \E i \in kept : records' = [records EXCEPT ![i].scanner = Target(j)]
  /\ ModOnly /\ UNCHANGED <<disk, catalog, reused>>

(* executeAndReconcile: ReconcileMod through the gate; saving may fail.    *)
Reconcile(m) ==
  LET j == job[m] IN
  /\ j.phase = "reconcile" /\ Ends(m)
  /\ \/ RecordsOf(j.id) = {} /\ Works /\ UNCHANGED <<records, told>>
     \/ /\ \E i \in RecordsOf(j.id) : records' = [records EXCEPT ![i].scanner = Target(j)]
        /\ Works /\ UNCHANGED told
     \/ /\ RecordsOf(j.id) # {} /\ Fails
        /\ told' = told \cup {j.entry} /\ UNCHANGED records
  /\ ModOnly /\ UNCHANGED <<disk, catalog, reused>>

-----------------------------------------------------------------------------
(* Folder calls. *)

RequestFolder ==
  /\ folderJob = NoJob /\ Idle /\ Called
  /\ \E op \in {"create", "move", "delete"}, from \in Known, to \in Known, n \in Names :
       /\ op = "create" => from = to
       /\ op # "create" => from # <<>>
       \* RenameFolder keeps the parent, MoveFolder the name
       /\ op = "move" => (to = Front(from)) # (n = Last(from))
       /\ op = "delete" => Append(to, n) = from
       /\ folderJob' = [phase |-> "plan", op |-> op, from |-> from, to |-> Append(to, n),
                        folder |-> None, mods |-> {}, copied |-> {}]
  /\ UNCHANGED <<disk, document, job, request, history>>

Returns(ok) == folderJob' = [folderJob EXCEPT !.phase = IF ok THEN "ok" ELSE "failed"]
FolderOnly == UNCHANGED <<document, job, request, wanted, told, touched>>

(* The scan, mutableKnownFolder, knownFolder, and the checks before the    *)
(* move: it goes somewhere else, not below itself, where nothing is.       *)
PlanFolder ==
  LET j == folderJob IN
  /\ j.phase = "plan"
  /\ IF /\ j.from \in Known
        /\ j.op # "delete" => Front(j.to) \in Known /\ j.to \notin Known
        /\ j.op = "move" => ~ IsPrefix(j.from, j.to)
     THEN /\ folderJob' = [j EXCEPT !.phase = "apply", !.folder = FolderAt(j.from),
                                    !.mods = Under(j.from)]
     ELSE Returns(FALSE)
  /\ Works /\ FolderOnly /\ UNCHANGED <<disk, carried, reused>>

(* What the operating system asks of a rename, and of mkdir. *)
Fresh(f) ==   \* not the identity of a folder that was deleted
  /\ home[f] = Absent /\ \A g \in FolderIds : home[g] \in [parent : All \ {f}, name : Names] \cup {Absent}
  /\ \A m \in Mods : at[m] \notin [folder : {f}, stem : Stems]
Free(p) == Front(p) \in Known /\ p \notin Known
CanRename(j) == j.from \in Known /\ Free(j.to) /\ ~ IsPrefix(j.from, j.to)
Put(p) == [parent |-> FolderAt(Front(p)), name |-> Last(p)]
Moved(j) == home' = [home EXCEPT ![FolderAt(j.from)] = Put(j.to)]

(* Fault: a rename that finds the destination taken is not reported. *)
MoveFolderSilent ==
  LET j == folderJob IN
  /\ j.phase = "apply" /\ j.op = "move"
  /\ \/ /\ CanRename(j) /\ Moved(j) /\ folderJob' = [j EXCEPT !.phase = "verify"]
        /\ carried' = carried \cup Under(j.from)
     \/ /\ ~ CanRename(j) /\ UNCHANGED home
        /\ carried' = carried /\ Returns(j.to \in Known)
  /\ Works /\ FolderOnly /\ UNCHANGED <<at, reused>>

MoveFolder ==
  LET j == folderJob IN
  /\ j.phase = "apply" /\ j.op = "move"
  /\ \/ /\ CanRename(j) /\ Moved(j) /\ folderJob' = [j EXCEPT !.phase = "verify"]
        /\ carried' = carried \cup Under(j.from)
        /\ reused' = (reused \/ \E m \in Under(j.from) :
             Held(j.to \o SubSeq(ID(m), Len(j.from) + 1, Len(ID(m)))))
        /\ Works
     \/ /\ IF CanRename(j) THEN Fails ELSE Works
        /\ Returns(FALSE) /\ UNCHANGED <<home, carried, reused>>
  /\ FolderOnly /\ UNCHANGED at

CreateFolder ==
  LET j == folderJob IN
  /\ j.phase = "apply" /\ j.op = "create"
  /\ \/ \E f \in FolderIds :
          /\ Fresh(f) /\ Free(j.to)
          /\ home' = [home EXCEPT ![f] = Put(j.to)]
          /\ folderJob' = [j EXCEPT !.phase = "verify", !.folder = f]
          /\ Works
     \/ /\ IF Free(j.to) THEN Fails ELSE Works
        /\ Returns(FALSE) /\ UNCHANGED home
  /\ FolderOnly /\ UNCHANGED <<at, carried, reused>>

(* recycleFiles on one device: the folder goes with all it holds.  From    *)
(* another device than the trash it is copied first (moveCrossDevice).     *)
DeleteFolder ==
  LET j == folderJob IN
  /\ j.phase = "apply" /\ j.op = "delete"
  /\ \/ /\ j.from \in Known
        /\ home' = [home EXCEPT ![FolderAt(j.from)] = Absent]
        /\ folderJob' = [j EXCEPT !.phase = "verify"] /\ Works
     \/ /\ j.from \in Known /\ UNCHANGED home
        /\ folderJob' = [j EXCEPT !.phase = "remove", !.copied = Under(j.from)]
        /\ Works
     \/ /\ IF j.from \in Known THEN Fails ELSE Works
        /\ Returns(FALSE) /\ UNCHANGED home
  /\ FolderOnly /\ UNCHANGED <<at, carried, reused>>

(* RemoveAll of the source after the copy.  What came in between was not   *)
(* copied.  When it fails half way the .trashinfo goes and the copy stays. *)
RemoveTree ==
  LET j == folderJob
      here == Under(j.from)
      place(m) == IF m \in j.copied THEN Unlisted ELSE Lost
  IN
  /\ j.phase = "remove"
  /\ \/ /\ at' = [m \in Mods |-> IF m \in here \ j.copied THEN Lost ELSE at[m]]
        /\ home' = IF j.from \in Known THEN [home EXCEPT ![FolderAt(j.from)] = Absent] ELSE home
        /\ folderJob' = [j EXCEPT !.phase = "verify"] /\ Works
     \/ /\ \E removed \in SUBSET here :
             at' = [m \in Mods |-> IF m \in removed THEN place(m) ELSE at[m]]
        /\ Returns(FALSE) /\ Fails /\ UNCHANGED home
  /\ FolderOnly /\ UNCHANGED <<carried, reused>>

(* The destination is a folder and the source is gone. *)
VerifyFolder ==
  LET j == folderJob IN
  /\ j.phase = "verify"
  /\ Returns(/\ j.op # "delete" => j.to \in Known
             /\ j.op # "create" => j.from \notin Known)
  /\ Works /\ FolderOnly /\ UNCHANGED <<disk, carried, reused>>

(* The window has the result and has reloaded the library. *)
ShowFolder ==
  /\ folderJob.phase \in {"ok", "failed"} /\ folderJob' = NoJob
  /\ Works /\ FolderOnly /\ UNCHANGED <<disk, carried, reused>>

-----------------------------------------------------------------------------
(* Tags. *)

Live == {t \in Tags : catalog[t] \in TagNames}
TagCalled == tagCalls < MaxTagCalls /\ tagCalls' = tagCalls + 1 /\ UNCHANGED <<calls, foreign, failures>>
DocumentOnly == UNCHANGED <<disk, job, folderJob, told, carried, touched>>

CreateTag ==
  /\ TagCalled
  /\ \E t \in Tags, n \in TagNames :
       /\ catalog[t] = "new" /\ \A u \in Live : catalog[u] # n
       /\ catalog' = [catalog EXCEPT ![t] = n]
  /\ DocumentOnly /\ UNCHANGED <<records, request, wanted, reused>>

RenameTag ==
  /\ TagCalled
  /\ \E t \in Live, n \in TagNames :
       /\ \A u \in Live \ {t} : catalog[u] # n
       /\ catalog' = [catalog EXCEPT ![t] = n]
  /\ DocumentOnly /\ UNCHANGED <<records, request, wanted, reused>>

(* Fault: the assignments of a deleted tag stay. *)
DeleteTagOnly ==
  /\ TagCalled
  /\ \E t \in Live :
       /\ catalog' = [catalog EXCEPT ![t] = "deleted"]
       /\ wanted' = [m \in Mods |-> wanted[m] \ {t}]
  /\ DocumentOnly /\ UNCHANGED <<records, request, reused>>

DeleteTag ==
  /\ TagCalled
  /\ \E t \in Live :
       /\ catalog' = [catalog EXCEPT ![t] = "deleted"]
       /\ records' = [i \in DOMAIN records |-> [records[i] EXCEPT !.tags = @ \ {t}]]
       /\ wanted' = [m \in Mods |-> wanted[m] \ {t}]
  /\ DocumentOnly /\ UNCHANGED <<request, reused>>

(* AssignModTag or UnassignModTag is called for a mod on the screen. *)
RequestTag ==
  /\ request = NoJob /\ TagCalled
  /\ \E m \in Present, t \in Live, op \in {"assign", "unassign"} :
       request' = [phase |-> op, mod |-> m, id |-> ID(m), tag |-> t]
  /\ UNCHANGED <<disk, document, job, folderJob, history>>

(* The mod that has an ID, or had it before the call still running on it.  *)
OwnerOf(id) ==
  LET moving == {job[m].entry : m \in {n \in Mods : job[n].phase \in {"rescan", "reconcile"} /\ job[n].id = id}}
      owners == ModsAt(id) \cup moving
  IN IF owners = {} THEN None ELSE CHOOSE m \in owners : TRUE

(* EnsureMod: the record of the ID, or a new one. *)
Ensured(id) ==
  IF RecordsOf(id) # {} THEN {<<records, i>> : i \in RecordsOf(id)}
  ELSE {<<Append(records, [scanner |-> id, tags |-> {}, owner |-> OwnerOf(id)]), Len(records) + 1>>}

(* EnsureMod and AssignTag or UnassignTag under the gate. *)
TagMod ==
  /\ request # NoJob /\ request' = NoJob
  /\ reused' = (reused \/ \E m \in Mods : /\ job[m].phase \in {"rescan", "reconcile"}
                                          /\ request.id = Target(job[m]))
  /\ \/ /\ request.phase = "assign" /\ request.tag \notin Live
        /\ UNCHANGED <<records, wanted>>
     \/ /\ request.phase = "assign" /\ request.tag \in Live
        /\ \E e \in Ensured(request.id) :
             records' = [e[1] EXCEPT ![e[2]].tags = @ \cup {request.tag}]
        /\ wanted' = [wanted EXCEPT ![request.mod] = @ \cup {request.tag}]
     \/ /\ request.phase = "unassign"
        /\ \E e \in Ensured(request.id) :
             records' = [e[1] EXCEPT ![e[2]].tags = @ \ {request.tag}]
        /\ wanted' = [wanted EXCEPT ![request.mod] = @ \ {request.tag}]
  /\ Works /\ DocumentOnly /\ UNCHANGED catalog

-----------------------------------------------------------------------------
(* Another program creates, moves or removes folders and mods. *)

Interferes == foreign < MaxForeign /\ foreign' = foreign + 1 /\ UNCHANGED <<calls, tagCalls, failures>>
Others == UNCHANGED <<document, job, folderJob, request, wanted, told, carried>>

ForeignFolder ==
  /\ Interferes
  /\ \E f \in FolderIds :
       /\ \E h \in Homes :
            /\ h # home[f]
            /\ h # Absent => h.parent \in Existing /\ Append(PathOf[h.parent], h.name) \notin Known
            /\ f \in Existing /\ h # Absent => ~ IsPrefix(PathOf[f], PathOf[h.parent])
            /\ home' = [home EXCEPT ![f] = h]
            /\ f \in Existing \/ Fresh(f)
       /\ touched' = touched \cup {f} \cup
            (IF f \in Existing THEN Under(PathOf[f]) \cup {g \in Existing : IsPrefix(PathOf[f], PathOf[g])}
             ELSE {})
       /\ reused' = TRUE
  /\ Others /\ UNCHANGED at

ForeignMod ==
  /\ Interferes
  /\ \E m \in Present \cup {n \in Mods : at[n] = Away} :
       /\ \E s \in [folder : Existing, stem : Stems] \cup {Away} :
            /\ s # at[m] /\ (s # Away => ModsAt(Append(PathOf[s.folder], s.stem)) = {})
            /\ at' = [at EXCEPT ![m] = s]
       /\ touched' = touched \cup {m} /\ reused' = TRUE
  /\ Others /\ UNCHANGED home

ModCall(m) == RequestMod(m) \/ ScanMod(m) \/ MoveMod(m) \/ RescanMod(m) \/ Reconcile(m)
FolderCall ==
  \/ RequestFolder \/ PlanFolder \/ MoveFolder \/ CreateFolder \/ DeleteFolder \/ RemoveTree
  \/ VerifyFolder \/ ShowFolder
TagCall == CreateTag \/ RenameTag \/ DeleteTag \/ RequestTag \/ TagMod

OrganizeNext ==
  \/ \E m \in Mods : ModCall(m)
  \/ FolderCall \/ TagCall \/ ForeignFolder \/ ForeignMod

OrganizeSpec == OrganizeInit /\ [][OrganizeNext]_organizeVars

-----------------------------------------------------------------------------
(* The record of a mod follows it: when no call runs on a mod, the record  *)
(* that was made for it names the ID it has, whatever calls on tags and    *)
(* other mods ran in between, unless a call reported an error after moving *)
(* it, a folder call or another program moved it, or an ID was taken while *)
(* a record or a running call still meant the mod that had it before, or   *)
(* was tagged before the call that moved a mod there had reconciled it.    *)
RecordsFollow ==
  \A i \in DOMAIN records :
    LET m == records[i].owner
    IN m # None /\ ~reused =>
         \/ m \notin Present \/ m \in told \cup carried \cup touched
         \/ \E n \in Mods : job[n].phase \in {"rescan", "reconcile"} /\ job[n].entry = m
         \/ records[i].scanner = ID(m)

(* What a folder call returned is what happened: on success the folder the *)
(* scan named, if no other program touched it, is where the result says,   *)
(* or in the trash with the mods the scan saw in it; on failure none of    *)
(* those mods is deleted for good.                                         *)
FolderResultTrue ==
  folderJob.phase \in {"ok", "failed"} =>
    LET j == folderJob
        known == j.mods \ touched
    IN /\ \A m \in known : at[m] # Lost
       /\ j.phase = "ok" /\ j.folder \notin touched =>
            IF j.op = "delete" THEN j.folder \notin Existing /\ known \cap Present = {}
            ELSE j.folder \in Existing /\ PathOf[j.folder] = j.to

(* Every assigned tag is in the catalog and no two tags share a name, with *)
(* renames, deletions and assignments in any order.                        *)
TagsKnown ==
  /\ \A i \in DOMAIN records : records[i].tags \subseteq Live
  /\ \A t, u \in Live : t # u => catalog[t] # catalog[u]

(* SPEC.md: "Tags and metadata must survive controlled renames and moves." *)
(* Once no call runs, a mod no other program touched has the tags that the *)
(* user was told it has, unless a call on it reported an error.            *)
TagsSurvive ==
  Idle /\ folderJob = NoJob /\ request = NoJob =>
    \A m \in Present \ (told \cup touched) :
      wanted[m] \subseteq UNION {records[i].tags : i \in RecordsOf(ID(m))}
=============================================================================
