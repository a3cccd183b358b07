--------------------------- MODULE BundleMutation ---------------------------
(***************************************************************************)
(* Controlled changes of one mod bundle (internal/mutation): enable and    *)
(* disable, the relocations (rename, priority, move to a folder) and the   *)
(* deletion through the Recycle Bin or trash.                              *)
(*                                                                         *)
(* Every Wails call runs on a goroutine of its own and nothing in Go       *)
(* serializes two mutations, so each caller in Procs walks through its own *)
(* steps and everything between two system calls can interleave: the other *)
(* callers, another program that adds or removes mod files, and the game   *)
(* starting or stopping.                                                   *)
(*                                                                         *)
(* One step stands for the scan and the plan made from it; after that each *)
(* endpoint check and each rename is a step.                               *)
(***************************************************************************)
EXTENDS ModFiles

CONSTANTS
  Procs,        \* callers
  Requests,     \* the calls they may make, see Request
  InitialDisk,  \* where each file is at the start
  AtomicMove,   \* TRUE: MoveFileW (move_windows.go); FALSE: move_other.go
  MaxCalls,     \* bound: calls made in a behaviour
  MaxFailures,  \* bound: renames that fail although both endpoints are fine
  MaxRemovals   \* bound: files another program removes

(* A call as the services receive it.  "to" is the destination group the   *)
(* stem helpers (renamedStem, priorityStem, movedStem) come out with, or   *)
(* for setEnabled and delete the entry's own group.                        *)
Request == [op : {"enable", "disable", "relocate", "delete"},
            entry : Group, to : Group]

ASSUME BundleAssumption ==
  /\ Requests \subseteq Request /\ Requests # {}
  /\ \A r \in Requests : r.op # "relocate" => r.to = r.entry
  /\ InitialDisk \in [Files -> Path \cup {Unborn}]
  /\ \A f, g \in Files : InitialDisk[f] = InitialDisk[g] /\ InitialDisk[f] # Unborn => f = g
  /\ AtomicMove \in BOOLEAN
  /\ MaxCalls \in Nat /\ MaxFailures \in Nat /\ MaxRemovals \in Nat

VARIABLES
  disk,       \* where each file is
  pc,         \* the step each caller is at
  req,        \* the call it is making
  plan,       \* the planned moves, primary first
  before,     \* history: the disk as the caller's scan saw it
  next,       \* index of the move being made or undone
  outcome,    \* how the caller's last call ended
  gameOn,     \* Marvel Rivals is running
  calls, failures, removals   \* counters of the bounds

vars == <<disk, pc, req, plan, before, next, outcome, gameOn, calls, failures, removals>>
boundVars == <<calls, failures, removals>>

Steps == {"idle", "gate", "plan", "check", "move", "rename", "verify", "rescan",
          "undo", "unrename", "recheck", "trash"}
Outcomes == {"none",        \* no call has ended, or one is under way
             "ok",          \* success was reported
             "rejected",    \* refused before the first move
             "stopped",     \* an endpoint check failed between two moves
             "undone",      \* a move failed and the rollback succeeded
             "stuck",       \* a move failed and so did its rollback or there is none
             "unverified"}  \* all moves were made, the final inspection disagreed
Move == [src : Path, dst : Path \cup {Trashed}]

Init ==
  /\ disk = InitialDisk
  /\ pc = [p \in Procs |-> "idle"]
  /\ req = [p \in Procs |-> CHOOSE r \in Requests : TRUE]
  /\ plan = [p \in Procs |-> <<>>]
  /\ before = [p \in Procs |-> InitialDisk]
  /\ next = [p \in Procs |-> 1]
  /\ outcome = [p \in Procs |-> "none"]
  /\ gameOn = FALSE
  /\ calls = 0 /\ failures = 0 /\ removals = 0

-----------------------------------------------------------------------------
(* Planning: setEnabled/buildPlan, buildBundlePlan, buildDeletionPlan.     *)

(* Fault: a bundle without its .ucas file. *)
MembersWithoutUcas(g) ==
  <<PrimaryOf(disk, g)>> \o (IF "utoc" \in Sidecars(disk, g) THEN <<"utoc">> ELSE <<>>)

(* The members of the entry's bundle, primary first, then .utoc and .ucas. *)
Members(g) ==
  LET ifPresent(e) == IF e \in Sidecars(disk, g) THEN <<e>> ELSE <<>>
  IN <<PrimaryOf(disk, g)>> \o ifPresent("utoc") \o ifPresent("ucas")

(* Fault: disabling renames to an extension the scanner does not know. *)
NewExtUnknown(r, e) == IF e \in PrimaryExts /\ r.op = "disable" THEN "crateoff" ELSE e

(* transitionPath: the primary's extension after the call. *)
NewExt(r, e) == CASE e \in PrimaryExts /\ r.op = "enable" -> "pak"
                  [] e \in PrimaryExts /\ r.op = "disable" -> "pak_crateoff"
                  [] OTHER -> e

PlannedMoves(r) ==
  LET exts == IF r.op \in {"enable", "disable"}
              THEN <<PrimaryOf(disk, r.entry)>>       \* sidecars keep their names
              ELSE Members(r.entry)
  IN [i \in 1..Len(exts) |->
       [src  |-> At(r.entry, exts[i]),
        dst  |-> IF r.op = "delete" THEN Trashed ELSE At(r.to, NewExt(r, exts[i]))]]

(* findEntry and the checks a plan has to pass before anything moves. *)
Plannable(r) ==
  /\ HasEntry(disk, r.entry)
  /\ r.op = "enable" => PrimaryOf(disk, r.entry) \in DisabledExts
  /\ r.op = "disable" => PrimaryOf(disk, r.entry) = "pak"
  /\ r.op = "relocate" => r.to # r.entry /\ ~Incomplete(disk, r.entry)
  /\ r.op # "delete" =>
       \A i \in DOMAIN PlannedMoves(r) : ~Occupied(disk, PlannedMoves(r)[i].dst)

-----------------------------------------------------------------------------
(* Steps of a caller.                                                      *)

Goto(p, step) == pc' = [pc EXCEPT ![p] = step]
Finish(p, result) == Goto(p, "idle") /\ outcome' = [outcome EXCEPT ![p] = result]
Ongoing == UNCHANGED outcome

Current(p) == plan[p][next[p]]

Start(p, r) ==
  /\ pc[p] = "idle" /\ calls < MaxCalls
  /\ calls' = calls + 1
  /\ req' = [req EXCEPT ![p] = r]
  /\ plan' = [plan EXCEPT ![p] = <<>>]
  /\ next' = [next EXCEPT ![p] = 1]
  /\ outcome' = [outcome EXCEPT ![p] = "none"]
  /\ Goto(p, "gate")
  /\ UNCHANGED <<disk, before, gameOn, failures, removals>>

(* Executor.Execute: a running game, or a check that fails, refuses. *)
Gate(p) ==
  /\ pc[p] = "gate"
  /\ \/ ~gameOn /\ Goto(p, "plan") /\ Ongoing
     \/ Finish(p, "rejected")
  /\ UNCHANGED <<disk, req, plan, before, next, gameOn, boundVars>>

ScanAndPlan(p) ==
  /\ pc[p] = "plan"
  /\ IF Plannable(req[p])
     THEN /\ plan' = [plan EXCEPT ![p] = PlannedMoves(req[p])]
          /\ before' = [before EXCEPT ![p] = disk]
          /\ Goto(p, IF req[p].op = "delete" THEN "recheck" ELSE "check")
          /\ Ongoing
     ELSE Finish(p, "rejected") /\ UNCHANGED <<plan, before>>
  /\ UNCHANGED <<disk, req, next, gameOn, boundVars>>

(* The endpoint checks apply repeats before each move.  They return at     *)
(* once: moves already made are not rolled back.                           *)
Check(p) ==
  /\ pc[p] = "check"
  /\ LET m == Current(p) IN
     IF Occupied(disk, m.src) /\ ~Occupied(disk, m.dst)
     THEN Goto(p, "move") /\ Ongoing
     ELSE Finish(p, "stopped")
  /\ UNCHANGED <<disk, req, plan, before, next, gameOn, boundVars>>

(* What a rename does to the disk.  MoveFileW never replaces; os.Rename    *)
(* replaces whatever is at the destination by then.                        *)
Renamed(src, dst) ==
  LET mover == FileAt(disk, src)
  IN [f \in Files |-> IF f = mover THEN dst
                      ELSE IF dst \in Path /\ disk[f] = dst THEN Overwritten ELSE disk[f]]

(* Fault: a rename that replaces its destination. *)
MoveWorksOnto(src, dst) == Occupied(disk, src)

MoveWorks(src, dst) == Occupied(disk, src) /\ ~Occupied(disk, dst)

(* A rename that fails although its endpoints are fine: a file in use, a   *)
(* permission, a full disk.                                                *)
InjectFailure == failures < MaxFailures /\ failures' = failures + 1

MoveDone(p) ==
  /\ next' = [next EXCEPT ![p] = @ + 1]
  /\ Goto(p, IF next[p] = Len(plan[p]) THEN "verify" ELSE "check")
  /\ Ongoing

(* Fault: the error is returned without the rollback. *)
MoveFailedOutright(p) == next' = [next EXCEPT ![p] = @ - 1] /\ Finish(p, "undone")

(* apply: roll the completed moves back; a single-file plan has none. *)
MoveFailed(p) ==
  /\ next' = [next EXCEPT ![p] = @ - 1]
  /\ IF next[p] = 1 THEN Finish(p, "undone") ELSE Goto(p, "undo") /\ Ongoing

(* moveFileWithoutReplace: one call on Windows, a check first elsewhere. *)
TryMove(p) ==
  /\ pc[p] = "move"
  /\ LET m == Current(p) IN
     \/ /\ AtomicMove /\ MoveWorks(m.src, m.dst)
        /\ disk' = Renamed(m.src, m.dst) /\ MoveDone(p) /\ UNCHANGED failures
     \/ /\ ~AtomicMove /\ ~Occupied(disk, m.dst)
        /\ Goto(p, "rename") /\ Ongoing /\ UNCHANGED <<disk, next, failures>>
     \/ /\ IF AtomicMove THEN ~MoveWorks(m.src, m.dst) ELSE Occupied(disk, m.dst)
        /\ MoveFailed(p) /\ UNCHANGED <<disk, failures>>
     \/ InjectFailure /\ MoveFailed(p) /\ UNCHANGED disk
  /\ UNCHANGED <<req, plan, before, gameOn, calls, removals>>

(* os.Rename after the check of move_other.go. *)
Rename(p) ==
  /\ pc[p] = "rename"
  /\ LET m == Current(p) IN
     IF Occupied(disk, m.src)
     THEN disk' = Renamed(m.src, m.dst) /\ MoveDone(p)
     ELSE MoveFailed(p) /\ UNCHANGED disk
  /\ UNCHANGED <<req, plan, before, gameOn, boundVars>>

(* Fault: the rollback loop stops before the first move. *)
UndoDoneEarly(p) ==
  /\ next' = [next EXCEPT ![p] = @ - 1]
  /\ IF next[p] <= 2 THEN Finish(p, "undone") ELSE Goto(p, "undo") /\ Ongoing

(* rollbackMoves: newest first, stops at the first move it cannot undo. *)
UndoDone(p) ==
  /\ next' = [next EXCEPT ![p] = @ - 1]
  /\ IF next[p] = 1 THEN Finish(p, "undone") ELSE Goto(p, "undo") /\ Ongoing

TryUndo(p) ==
  /\ pc[p] = "undo"
  /\ LET m == Current(p) IN
     \/ /\ AtomicMove /\ MoveWorks(m.dst, m.src)
        /\ disk' = Renamed(m.dst, m.src) /\ UndoDone(p) /\ UNCHANGED failures
     \/ /\ ~AtomicMove /\ ~Occupied(disk, m.src)
        /\ Goto(p, "unrename") /\ Ongoing /\ UNCHANGED <<disk, next, failures>>
     \/ /\ IF AtomicMove THEN ~MoveWorks(m.dst, m.src) ELSE Occupied(disk, m.src)
        /\ Finish(p, "stuck") /\ UNCHANGED <<disk, next, failures>>
     \/ InjectFailure /\ Finish(p, "stuck") /\ UNCHANGED <<disk, next>>
  /\ UNCHANGED <<req, plan, before, gameOn, calls, removals>>

Unrename(p) ==
  /\ pc[p] = "unrename"
  /\ LET m == Current(p) IN
     IF Occupied(disk, m.dst)
     THEN disk' = Renamed(m.dst, m.src) /\ UndoDone(p)
     ELSE Finish(p, "stuck") /\ UNCHANGED <<disk, next>>
  /\ UNCHANGED <<req, plan, before, gameOn, boundVars>>

(* deletionPlan.apply: check every file, then hand the list to the trash,  *)
(* which takes the files one by one and may fail in between.               *)
Recheck(p) ==
  /\ pc[p] = "recheck"
  /\ IF \A i \in DOMAIN plan[p] : Occupied(disk, plan[p][i].src)
     THEN Goto(p, "trash") /\ Ongoing
     ELSE Finish(p, "stopped")
  /\ UNCHANGED <<disk, req, plan, before, next, gameOn, boundVars>>

Trash(p) ==
  /\ pc[p] = "trash"
  /\ LET m == Current(p) IN
     \/ /\ Occupied(disk, m.src)
        /\ disk' = Renamed(m.src, Trashed)
        /\ next' = [next EXCEPT ![p] = @ + 1]
        /\ Goto(p, IF next[p] = Len(plan[p]) THEN "verify" ELSE "trash")
        /\ Ongoing /\ UNCHANGED failures
     \/ ~Occupied(disk, m.src) /\ Finish(p, "stuck") /\ UNCHANGED <<disk, next, failures>>
     \/ InjectFailure /\ Finish(p, "stuck") /\ UNCHANGED <<disk, next>>
  /\ UNCHANGED <<req, plan, before, gameOn, calls, removals>>

(* The inspection after the last move: every destination is there (the     *)
(* trash is not looked at) and every source is gone.                       *)
Verify(p) ==
  /\ pc[p] = "verify"
  /\ IF \A i \in DOMAIN plan[p] :
          /\ ~Occupied(disk, plan[p][i].src)
          /\ req[p].op # "delete" => Occupied(disk, plan[p][i].dst)
     THEN IF req[p].op \in {"enable", "disable"}
          THEN Finish(p, "ok") ELSE Goto(p, "rescan") /\ Ongoing
     ELSE Finish(p, "unverified")
  /\ UNCHANGED <<disk, req, plan, before, next, gameOn, boundVars>>

(* reconcileResult finds the primary at its new path; reconcileDeletedBundle *)
(* does not find it at its old one.                                        *)
Rescan(p) ==
  /\ pc[p] = "rescan"
  /\ IF IF req[p].op = "delete" THEN ~Occupied(disk, plan[p][1].src)
                                ELSE Occupied(disk, plan[p][1].dst)
     THEN Finish(p, "ok") ELSE Finish(p, "unverified")
  /\ UNCHANGED <<disk, req, plan, before, next, gameOn, boundVars>>

-----------------------------------------------------------------------------
(* The environment.                                                        *)

GameToggles == gameOn' = ~gameOn /\ UNCHANGED <<disk, pc, req, plan, before, next, outcome, boundVars>>

ExternalCreate(f, path) ==
  /\ disk[f] = Unborn /\ ~Occupied(disk, path)
  /\ disk' = [disk EXCEPT ![f] = path]
  /\ UNCHANGED <<pc, req, plan, before, next, outcome, gameOn, boundVars>>

ExternalRemove(f) ==
  /\ disk[f] \in Path /\ removals < MaxRemovals
  /\ disk' = [disk EXCEPT ![f] = Taken]
  /\ removals' = removals + 1
  /\ UNCHANGED <<pc, req, plan, before, next, outcome, gameOn, calls, failures>>

Step(p) == \/ Gate(p) \/ ScanAndPlan(p) \/ Check(p) \/ TryMove(p) \/ Rename(p)
           \/ TryUndo(p) \/ Unrename(p) \/ Recheck(p) \/ Trash(p) \/ Verify(p) \/ Rescan(p)

Next == \/ \E p \in Procs : Step(p) \/ \E r \in Requests : Start(p, r)
        \/ \E f \in Files : ExternalRemove(f) \/ \E path \in Path : ExternalCreate(f, path)
        \/ GameToggles

Spec == Init /\ [][Next]_vars

-----------------------------------------------------------------------------
(* Properties.                                                             *)

TypeOK ==
  /\ disk \in Disk
  /\ pc \in [Procs -> Steps]
  /\ req \in [Procs -> Requests]
  /\ plan \in [Procs -> Seq(Move)]
  /\ before \in [Procs -> Disk]
  /\ next \in [Procs -> Nat]
  /\ outcome \in [Procs -> Outcomes]
  /\ gameOn \in BOOLEAN
  /\ calls \in Nat /\ failures \in Nat /\ removals \in Nat

(* No two files are ever at one path, and no file was replaced by another: *)
(* whatever callers and other programs do in between, moving a bundle      *)
(* never destroys a file (the no-clobber guarantee of                      *)
(* moveFileWithoutReplace and the checks of bundlePlan.apply).             *)
NoFileOverwritten ==
  /\ \A f \in Files : disk[f] # Overwritten
  /\ \A f, g \in Files : disk[f] \in Path /\ disk[g] = disk[f] => f = g

Ends(p, results) == outcome[p] = "none" /\ outcome'[p] \in results

(* Where a file belongs after a successful call r that found the disk old: *)
(* relocation and deletion take every file of the group, a toggle renames  *)
(* the primary alone.                                                      *)
OfBundle(r, old, f) == old[f] \in Path /\ GroupOf(old[f]) = r.entry
Intended(r, old, f) ==
  CASE r.op = "delete" -> Trashed
    [] r.op = "relocate" -> At(r.to, old[f].ext)
    [] r.op \in {"enable", "disable"} ->
         IF old[f].ext \in PrimaryExts
         THEN At(r.entry, IF r.op = "enable" THEN "pak" ELSE "pak_crateoff") ELSE old[f]

(* A call that reports success has done what was asked to every file of    *)
(* the bundle and not only to part of it, although apply's final           *)
(* inspection and reconcileResult look at paths, not at files, and another *)
(* call for the same bundle may run at the same time.  Another program may *)
(* have taken a file, but put none of its own among them.  Two calls       *)
(* cannot break it; three can: while a bundle goes from a to c, a second   *)
(* call deletes what is at c already and a third brings another bundle     *)
(* there, and the inspection takes the wrong files for the right ones.     *)
Undiluted == \A f \in Files : InitialDisk[f] = Unborn => disk[f] = Unborn
AtMostTwoCalls == calls <= 2
Whole ==
  \A p \in Procs : Ends(p, {"ok"}) =>
    \A f \in Files : OfBundle(req[p], before[p], f) =>
      disk'[f] \in {Intended(req[p], before[p], f), Taken}
SuccessIsWhole == [][AtMostTwoCalls /\ Undiluted' => Whole]_vars

(* A call that fails without reporting a failed rollback leaves every file *)
(* of the bundle where it was: apply "attempts rollback if a later move    *)
(* fails".                                                                 *)
FailureIsAtomic ==
  [][\A p \in Procs : Ends(p, {"stopped", "undone"}) /\ plan[p] # <<>> =>
       \A f \in Files : OfBundle(req[p], before[p], f) => disk'[f] = before[p][f]]_vars
=============================================================================
