--------------------------- MODULE MetadataStore ---------------------------
(***************************************************************************)
(* The metadata file (internal/metadata/store.go) behind the gate that     *)
(* serializes its readers and writers (core.go's metadataGate), and the    *)
(* one writer that goes round the gate, restoreMetadata of                 *)
(* internal/backup/restore.go.                                             *)
(*                                                                         *)
(* Load quarantines a primary it cannot use, falls back to the backup and  *)
(* writes the backup back over the primary; Save copies the primary to the *)
(* backup and then replaces the primary.  Each file operation is a step:   *)
(* the process may be killed between any two of them.                      *)
(*                                                                         *)
(* Abstracted: a document is the set of changes made to it.  A document of *)
(* a schema this build cannot read counts as damaged; the temporary files  *)
(* of writeFileAtomically are never read and are left out.                 *)
(***************************************************************************)
EXTENDS Naturals, FiniteSets

CONSTANTS
  Procs,        \* goroutines that use the store
  Changes,      \* the changes update may be asked to make
  Staged,       \* the content of a library backup that is restored
  Missing,      \* no file at the path
  Damaged,      \* a file readDocument rejects
  Nobody,       \* the gate is free
  Restorers,    \* goroutines that may run restoreMetadata
  MaxDamage,    \* bound: primaries damaged from outside, or unreadable once
  MaxFailures,  \* bound: writes and renames that fail
  MaxCrashes    \* bound: times the process is killed

Docs == SUBSET (Changes \cup {Staged})
Contents == {Missing, Damaged} \cup Docs
Fresh == {}
Usable(content) == content \notin {Missing, Damaged}   \* readDocument accepts it

ASSUME StoreAssumption ==
  /\ Missing # Damaged /\ \A d \in Docs : d # Missing /\ d # Damaged
  /\ Staged \notin Changes /\ Nobody \notin Procs /\ Restorers \subseteq Procs
  /\ MaxDamage \in Nat /\ MaxFailures \in Nat /\ MaxCrashes \in Nat

VARIABLES
  primary, backup, quarantined,  \* metadata.json, its backup and quarantine files
  gate,      \* who holds metadataGate.mu
  pc,        \* the step each goroutine is at
  goal,      \* what it was called for
  change,    \* the change its update makes
  doc,       \* the document it works on
  healing,   \* its Save is the self-heal of Load
  issued,    \* changes asked for so far
  acked,     \* history: changes whose update returned nil, since the last restore
  restored,  \* history: a restore of the staged document returned nil
  overlapped,  \* history: a restore and a call that held the gate ran at the same time
  damage, failures, crashes      \* counters of the bounds

files == <<primary, backup, quarantined>>
local == <<goal, change, healing>>
history == <<issued, acked, restored, overlapped>>
boundVars == <<damage, failures, crashes>>
vars == <<files, gate, pc, local, doc, history, boundVars>>

Steps == {"idle", "wait", "read", "quarantine", "fallback", "loaded", "backup", "write", "release"}

Init ==
  /\ primary = Missing /\ backup = Missing /\ quarantined = Missing
  /\ gate = Nobody
  /\ pc = [p \in Procs |-> "idle"]
  /\ goal = [p \in Procs |-> "read"]
  /\ change = [p \in Procs |-> Staged]
  /\ doc = [p \in Procs |-> Fresh]
  /\ healing = [p \in Procs |-> FALSE]
  /\ issued = {} /\ acked = {} /\ restored = FALSE /\ overlapped = FALSE
  /\ damage = 0 /\ failures = 0 /\ crashes = 0

Goto(p, step) == pc' = [pc EXCEPT ![p] = step]
Fails == failures < MaxFailures /\ failures' = failures + 1
Works == UNCHANGED failures

-----------------------------------------------------------------------------
(* metadataGate.load and metadataGate.update.                              *)

Call(p, aim, c) ==
  /\ pc[p] = "idle"
  /\ goal' = [goal EXCEPT ![p] = aim]
  /\ change' = [change EXCEPT ![p] = c]
  /\ healing' = [healing EXCEPT ![p] = FALSE]

CallRead(p) ==
  /\ Call(p, "read", Staged) /\ Goto(p, "wait")
  /\ UNCHANGED <<files, gate, doc, history, boundVars>>

CallUpdate(p, c) ==
  /\ c \notin issued /\ Call(p, "update", c) /\ Goto(p, "wait")
  /\ issued' = issued \cup {c}
  /\ UNCHANGED <<files, gate, doc, acked, restored, overlapped, boundVars>>

(* restoreMetadata saves the staged document without taking the gate. *)
CallRestore(p) ==
  /\ p \in Restorers /\ ~restored
  /\ Call(p, "restore", Staged) /\ Goto(p, "backup")
  /\ doc' = [doc EXCEPT ![p] = {Staged}]
  /\ overlapped' = (overlapped \/ gate # Nobody)
  /\ UNCHANGED <<files, gate, issued, acked, restored, boundVars>>

Restoring(p) == goal[p] = "restore" /\ pc[p] # "idle"

(* Fault: the gate lets a second caller in. *)
LockBusy(p) ==
  /\ pc[p] = "wait"
  /\ gate' = p /\ Goto(p, "read")
  /\ overlapped' = (overlapped \/ \E q \in Procs : Restoring(q))
  /\ UNCHANGED <<files, local, doc, issued, acked, restored, boundVars>>

Lock(p) ==
  /\ pc[p] = "wait" /\ gate = Nobody
  /\ gate' = p /\ Goto(p, "read")
  /\ overlapped' = (overlapped \/ \E q \in Procs : Restoring(q))
  /\ UNCHANGED <<files, local, doc, issued, acked, restored, boundVars>>

Release(p) ==
  /\ pc[p] = "release"
  /\ gate' = Nobody /\ Goto(p, "idle")
  /\ UNCHANGED <<files, local, doc, history, boundVars>>

-----------------------------------------------------------------------------
(* Store.Load.                                                             *)

Use(p, d) == doc' = [doc EXCEPT ![p] = d]

(* Fault: a missing file is decoded into a document that holds a change    *)
(* nobody made.                                                            *)
ReadMissing(p) ==
  /\ pc[p] = "read" /\ primary # Damaged
  /\ Use(p, IF primary = Missing THEN {Missing} ELSE primary) /\ Goto(p, "loaded")
  /\ UNCHANGED <<files, gate, local, history, boundVars>>

(* A primary that another program holds open is as unusable as a damaged   *)
(* one: every error but not-exist leads to the quarantine.                 *)
Read(p) ==
  /\ pc[p] = "read"
  /\ \/ Usable(primary) /\ Use(p, primary) /\ Goto(p, "loaded") /\ UNCHANGED damage
     \/ primary = Missing /\ Use(p, Fresh) /\ Goto(p, "loaded") /\ UNCHANGED damage
     \/ primary = Damaged /\ Goto(p, "quarantine") /\ UNCHANGED <<doc, damage>>
     \/ /\ Usable(primary) /\ damage < MaxDamage
        /\ damage' = damage + 1 /\ Goto(p, "quarantine") /\ UNCHANGED doc
  /\ UNCHANGED <<files, gate, local, history, failures, crashes>>

Quarantine(p) ==
  /\ pc[p] = "quarantine"
  /\ Goto(p, "fallback")
  /\ \/ Works /\ quarantined' = primary /\ primary' = Missing
     \/ Fails /\ UNCHANGED <<quarantined, primary>>
  /\ UNCHANGED <<backup, gate, local, doc, history, damage, crashes>>

Fallback(p) ==
  /\ pc[p] = "fallback"
  /\ IF Usable(backup)
     THEN Use(p, backup) /\ healing' = [healing EXCEPT ![p] = TRUE] /\ Goto(p, "backup")
     ELSE Use(p, Fresh) /\ Goto(p, "loaded") /\ UNCHANGED healing
  /\ UNCHANGED <<files, gate, goal, change, history, boundVars>>

(* Fault: a refused or idle change returns without unlocking. *)
LoadedKeepsGate(p) ==
  /\ pc[p] = "loaded"
  /\ \/ goal[p] = "update" /\ Use(p, doc[p] \cup {change[p]}) /\ Goto(p, "backup")
     \/ Goto(p, "idle") /\ UNCHANGED doc
  /\ UNCHANGED <<files, gate, local, history, boundVars>>

(* The caller has its document: load returns it, update changes it and     *)
(* saves, unless the change is refused or changes nothing.                 *)
Loaded(p) ==
  /\ pc[p] = "loaded"
  /\ \/ goal[p] = "update" /\ Use(p, doc[p] \cup {change[p]}) /\ Goto(p, "backup")
     \/ Goto(p, "release") /\ UNCHANGED doc
  /\ UNCHANGED <<files, gate, local, history, boundVars>>

-----------------------------------------------------------------------------
(* Store.Save: updateBackup, then the atomic write of the primary.         *)

(* The self-heal ignores the result of its Save; restore holds no gate.    *)
Return(p) ==
  /\ Goto(p, IF healing[p] THEN "loaded" ELSE IF goal[p] = "restore" THEN "idle" ELSE "release")
  /\ healing' = [healing EXCEPT ![p] = FALSE]

(* Fault: the backup is written once and never refreshed. *)
UpdateBackupOnce(p) ==
  /\ pc[p] = "backup" /\ Works /\ Goto(p, "write")
  /\ backup' = (IF backup = Missing THEN primary ELSE backup)
  /\ UNCHANGED <<primary, quarantined, gate, goal, change, doc, healing, history, damage, crashes>>

UpdateBackup(p) ==
  /\ pc[p] = "backup"
  /\ \/ /\ Works /\ backup' = (IF primary = Missing THEN backup ELSE primary)
        /\ Goto(p, "write") /\ UNCHANGED healing
     \/ Fails /\ Return(p) /\ UNCHANGED backup
  /\ UNCHANGED <<primary, quarantined, gate, goal, change, doc, history, damage, crashes>>

(* The caller learns of success when the rename returns. *)
Acknowledge(p) ==
  IF healing[p] THEN UNCHANGED <<acked, restored>>
  ELSE IF goal[p] = "restore"
       THEN acked' = {} /\ restored' = TRUE
       ELSE acked' = acked \cup {change[p]} /\ UNCHANGED restored

(* Fault: the primary is overwritten in place, a failure truncates it. *)
WriteInPlace(p) ==
  /\ pc[p] = "write"
  /\ Return(p)
  /\ \/ Works /\ primary' = doc[p] /\ Acknowledge(p)
     \/ Fails /\ primary' = Damaged /\ UNCHANGED <<acked, restored>>
  /\ UNCHANGED <<backup, quarantined, gate, goal, change, doc, issued, overlapped, damage, crashes>>

Write(p) ==
  /\ pc[p] = "write"
  /\ Return(p)
  /\ \/ Works /\ primary' = doc[p] /\ Acknowledge(p)
     \/ Fails /\ UNCHANGED <<primary, acked, restored>>
  /\ UNCHANGED <<backup, quarantined, gate, goal, change, doc, issued, overlapped, damage, crashes>>

-----------------------------------------------------------------------------
(* The environment: another program or the disk damages the primary; the   *)
(* process is killed, which frees the gate and forgets every call.         *)

Damage ==
  /\ Usable(primary) /\ damage < MaxDamage
  /\ primary' = Damaged /\ damage' = damage + 1
  /\ UNCHANGED <<backup, quarantined, gate, pc, local, doc, history, failures, crashes>>

Crash ==
  /\ crashes < MaxCrashes /\ crashes' = crashes + 1
  /\ pc' = [p \in Procs |-> "idle"] /\ gate' = Nobody
  /\ healing' = [p \in Procs |-> FALSE]
  /\ UNCHANGED <<files, goal, change, doc, history, damage, failures>>

Step(p) == \/ Read(p) \/ Quarantine(p) \/ Fallback(p) \/ Loaded(p)
           \/ UpdateBackup(p) \/ Write(p) \/ Release(p)

Next ==
  \/ \E p \in Procs : \/ Step(p) \/ Lock(p) \/ CallRead(p) \/ CallRestore(p)
                      \/ \E c \in Changes : CallUpdate(p, c)
  \/ Damage \/ Crash

Spec == Init /\ [][Next]_vars

(* A goroutine that can run does run, and a waiting one gets the lock even *)
(* if others keep taking it: sync.Mutex hands it over in order once a      *)
(* waiter starves.                                                         *)
FairSpec == Spec /\ \A p \in Procs : WF_vars(Step(p)) /\ SF_vars(Lock(p))

-----------------------------------------------------------------------------
(* Properties.                                                             *)

TypeOK ==
  /\ primary \in Contents /\ backup \in Contents /\ quarantined \in Contents
  /\ gate \in Procs \cup {Nobody}
  /\ pc \in [Procs -> Steps]
  /\ goal \in [Procs -> {"read", "update", "restore"}]
  /\ change \in [Procs -> Changes \cup {Staged}]
  /\ doc \in [Procs -> Docs]
  /\ healing \in [Procs -> BOOLEAN]
  /\ issued \subseteq Changes /\ acked \subseteq Changes
  /\ restored \in BOOLEAN /\ overlapped \in BOOLEAN
  /\ damage \in Nat /\ failures \in Nat /\ crashes \in Nat

(* What the next Load comes back with if nothing disturbs it. *)
NextLoad == CASE Usable(primary) -> primary
              [] primary = Missing -> Fresh
              [] OTHER -> IF Usable(backup) THEN backup ELSE Fresh

(* Nothing outside Cratebug damaged the primary, and no restore went round *)
(* the gate while somebody held it.                                        *)
Undisturbed == damage = 0 /\ ~overlapped

(* Every change whose update returned nil, and a restore that did, is in   *)
(* the document the next Load returns, whatever calls wait for each other, *)
(* fail or are killed half way: the gate loses no write and Save never     *)
(* gives up the primary.                                                   *)
Durable == Undisturbed => acked \subseteq NextLoad /\ (restored => Staged \in NextLoad)

(* After one damaged or unreadable primary, and no other fault, at most    *)
(* one acknowledged change is gone, the one the backup had not got yet,    *)
(* once no call is under way.  (A second fault between updateBackup's copy *)
(* of a damaged primary and the write loses everything.)                   *)
AtMostOneLost ==
  /\ gate = Nobody /\ ~overlapped /\ \A p \in Procs : ~Restoring(p)
  /\ damage <= 1 /\ failures = 0 /\ crashes = 0
  => \A c, d \in acked \ NextLoad : c = d

(* Every call returns, however many others use the store. *)
CallsReturn == \A p \in Procs : pc[p] # "idle" ~> pc[p] = "idle"
=============================================================================
