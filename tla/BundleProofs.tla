---------------------------- MODULE BundleProofs ----------------------------
(***************************************************************************)
(* Proofs about BundleMutation for any library and any calls: for any      *)
(* number of callers type correctness, and that with the Windows           *)
(* no-replace rename no file is ever overwritten; for one caller that      *)
(* nothing disturbs that its failures are atomic, its successes whole, and *)
(* that its calls implement AtomicBundle.                                  *)
(***************************************************************************)
EXTENDS BundleRefinement, SequenceTheorems, TLAPS

(* What the steps rely on: the move index is inside the plan whenever a    *)
(* step uses it, and with MoveFileW no caller stands between a check and   *)
(* its rename.                                                             *)
Moving == {"check", "move", "rename", "undo", "unrename", "trash"}
IndexOK ==
  \A p \in Procs :
    /\ pc[p] \in Moving => next[p] \in 1..Len(plan[p])
    /\ pc[p] \in {"gate", "plan", "recheck"} => next[p] = 1
    /\ pc[p] = "recheck" => plan[p] # <<>>
    /\ AtomicMove => pc[p] \notin {"rename", "unrename"}

BundleInv == TypeOK /\ IndexOK

-----------------------------------------------------------------------------
LEMMA PlannedMovesType ==
  ASSUME disk \in Disk, NEW r \in Request, HasEntry(disk, r.entry)
  PROVE  PlannedMoves(r) \in Seq(Move) /\ PlannedMoves(r) # <<>>
<1>1. PrimaryOf(disk, r.entry) \in PrimaryExts
  BY DEF HasEntry, PrimaryOf
<1> DEFINE exts == IF r.op \in {"enable", "disable"}
                   THEN <<PrimaryOf(disk, r.entry)>> ELSE Members(r.entry)
<1>2. exts \in Seq(Exts) /\ Len(exts) \in Nat \ {0}
  <2>1. <<PrimaryOf(disk, r.entry)>> \in Seq(Exts) /\ Len(<<PrimaryOf(disk, r.entry)>>) = 1
    BY <1>1 DEF Exts
  <2>2. Members(r.entry) \in Seq(Exts) /\ Len(Members(r.entry)) \in Nat \ {0}
    <3> DEFINE a == <<PrimaryOf(disk, r.entry)>>
               b == IF "utoc" \in Sidecars(disk, r.entry) THEN <<"utoc">> ELSE <<>>
               c == IF "ucas" \in Sidecars(disk, r.entry) THEN <<"ucas">> ELSE <<>>
    <3>1. a \in Seq(Exts) /\ Len(a) = 1
      BY <2>1
    <3>2. b \in Seq(Exts) /\ c \in Seq(Exts)
      <4>1. "utoc" \in Exts /\ "ucas" \in Exts
        BY DEF Exts, SidecarExts
      <4>2. <<"utoc">> \in Seq(Exts) /\ <<"ucas">> \in Seq(Exts) /\ <<>> \in Seq(Exts)
        BY <4>1
      <4> QED BY <4>2
    <3>3. Members(r.entry) = a \o b \o c
      BY DEF Members
    <3> HIDE DEF a, b, c
    <3>4. a \o b \in Seq(Exts) /\ Len(a \o b) = 1 + Len(b)
      BY <3>1, <3>2, ConcatProperties, ZenonT(60)
    <3> DEFINE d == a \o b
    <3>5. d \in Seq(Exts) /\ Len(d) \in Nat \ {0}
      BY <3>2, <3>4
    <3> HIDE DEF d
    <3>6. d \o c \in Seq(Exts) /\ Len(d \o c) = Len(d) + Len(c)
      BY <3>2, <3>5, ConcatProperties
    <3>7. Len(d \o c) \in Nat \ {0}
      BY <3>2, <3>5, <3>6
    <3> QED BY <3>3, <3>6, <3>7 DEF d
  <2> QED BY <2>1, <2>2
<1>3. ASSUME NEW i \in 1..Len(exts)
      PROVE [src |-> At(r.entry, exts[i]),
             dst |-> IF r.op = "delete" THEN Trashed ELSE At(r.to, NewExt(r, exts[i]))] \in Move
  <2>1. exts[i] \in Exts /\ r.entry \in Group /\ r.to \in Group
    BY <1>2, <1>3 DEF Request
  <2>2. NewExt(r, exts[i]) \in Exts
    BY <2>1 DEF NewExt, Exts, PrimaryExts
  <2> QED BY <2>1, <2>2 DEF At, Path, Group, Move
<1>4. PlannedMoves(r) = [i \in 1..Len(exts) |->
        [src |-> At(r.entry, exts[i]),
         dst |-> IF r.op = "delete" THEN Trashed ELSE At(r.to, NewExt(r, exts[i]))]]
  BY DEF PlannedMoves
<1> DEFINE n == Len(exts)
<1> HIDE DEF exts
<1>5. PlannedMoves(r) \in [1..n -> Move]
  BY <1>3, <1>4
<1>6. n \in Nat \ {0}
  BY <1>2
<1> HIDE DEF n
<1>7. PlannedMoves(r) \in Seq(Move) /\ Len(PlannedMoves(r)) = n
  BY <1>5, <1>6
<1> QED BY <1>6, <1>7

(* The move at the index of a caller that is moving is a move of its plan. *)
LEMMA CurrentMove ==
  ASSUME BundleInv, NEW p \in Procs, pc[p] \in Moving
  PROVE  /\ Current(p) \in Move
         /\ next[p] \in Nat \ {0} /\ Len(plan[p]) \in Nat /\ next[p] <= Len(plan[p])
<1>1. plan[p] \in Seq(Move) /\ next[p] \in 1..Len(plan[p])
  BY DEF BundleInv, TypeOK, IndexOK
<1> QED BY <1>1 DEF Current

(* A rename always yields a disk again. *)
LEMMA RenamedType ==
  ASSUME disk \in Disk, NEW src, NEW dst \in Place
  PROVE  Renamed(src, dst) \in Disk
<1> DEFINE mover == FileAt(disk, src)
<1>1. ASSUME NEW f \in Files
      PROVE (IF f = mover THEN dst
             ELSE IF dst \in Path /\ disk[f] = dst THEN Overwritten ELSE disk[f]) \in Place
  <2> HIDE DEF mover
  <2>1. disk[f] \in Place /\ Overwritten \in Place
    BY DEF Disk, Place, OffDisk
  <2> QED BY <2>1
<1>2. Renamed(src, dst) = [f \in Files |->
        IF f = mover THEN dst
        ELSE IF dst \in Path /\ disk[f] = dst THEN Overwritten ELSE disk[f]]
  BY DEF Renamed
<1> HIDE DEF mover
<1> QED BY <1>1, <1>2 DEF Disk

(* A rename onto a vacant path, or into the trash, overwrites nothing. *)
LEMMA RenamedSafe ==
  ASSUME disk \in Disk, NoFileOverwritten, NEW src, NEW dst \in Path \cup {Trashed},
         Occupied(disk, src), ~Occupied(disk, dst) \/ dst = Trashed
  PROVE  disk' = Renamed(src, dst) => NoFileOverwritten'
<1> SUFFICES ASSUME disk' = Renamed(src, dst) PROVE NoFileOverwritten'
  OBVIOUS
<1> DEFINE mover == FileAt(disk, src)
<1>1. mover \in Files /\ disk[mover] = src
  BY DEF Occupied, FileAt
<1>2. Trashed \notin Path /\ Overwritten \notin Path /\ Trashed # Overwritten
  BY OffDiskAssumption DEF OffDisk
<1>3. dst # Overwritten
  BY <1>2
<1>4. ASSUME NEW f \in Files
      PROVE  disk'[f] = IF f = mover THEN dst ELSE disk[f]
  <2>1. dst \in Path => disk[f] # dst
    BY <1>2 DEF Occupied
  <2>2. disk'[f] = IF f = mover THEN dst
                   ELSE IF dst \in Path /\ disk[f] = dst THEN Overwritten ELSE disk[f]
    BY DEF Renamed
  <2> HIDE DEF mover
  <2> QED BY <2>1, <2>2
<1> HIDE DEF mover
<1>5. \A f \in Files : disk'[f] # Overwritten
  BY <1>3, <1>4 DEF NoFileOverwritten
<1>6. ASSUME NEW f \in Files, NEW g \in Files, disk'[f] \in Path, disk'[g] = disk'[f]
      PROVE  f = g
  <2>1. dst \in Path => disk[f] # dst /\ disk[g] # dst
    BY <1>2 DEF Occupied
  <2> QED BY <1>1, <1>4, <1>6, <2>1 DEF NoFileOverwritten
<1> QED BY <1>5, <1>6 DEF NoFileOverwritten

-----------------------------------------------------------------------------
LEMMA InvInit == Init => BundleInv
<1> SUFFICES ASSUME Init PROVE BundleInv
  OBVIOUS
<1>1. InitialDisk \in Disk
  BY BundleAssumption DEF Disk, Place, OffDisk
<1>2. (CHOOSE r \in Requests : TRUE) \in Requests
  BY BundleAssumption
<1>3. TypeOK
  <2>1. plan \in [Procs -> Seq(Move)]
    <3>1. <<>> \in Seq(Move)
      OBVIOUS
    <3> QED BY <3>1 DEF Init
  <2>2. req \in [Procs -> Requests]
    BY <1>2 DEF Init
  <2>3. gameOn \in BOOLEAN
    BY DEF Init
  <2> QED BY <1>1, <2>1, <2>2, <2>3 DEF Init, TypeOK, Steps, Outcomes
<1>4. IndexOK
  BY DEF Init, IndexOK, Moving
<1> QED BY <1>3, <1>4 DEF BundleInv

(* The steps that leave the disk, the plans and the indices alone: only    *)
(* the caller's position and outcome change.                               *)
LEMMA PositionStep ==
  ASSUME BundleInv, NEW p \in Procs, NEW step \in Steps, NEW result \in Outcomes,
         pc' = [pc EXCEPT ![p] = step],
         outcome' = outcome \/ outcome' = [outcome EXCEPT ![p] = result],
         UNCHANGED <<req, plan, before, next, gameOn, calls, removals>>,
         disk' \in Disk, failures' \in Nat,
         step \in Moving => next[p] \in 1..Len(plan[p]),
         step \in {"gate", "plan", "recheck"} => next[p] = 1,
         step = "recheck" => plan[p] # <<>>,
         AtomicMove => step \notin {"rename", "unrename"}
  PROVE  BundleInv'
<1>1. TypeOK'
  BY DEF BundleInv, TypeOK
<1>2. IndexOK'
  BY DEF BundleInv, TypeOK, IndexOK
<1> QED BY <1>1, <1>2 DEF BundleInv

(* The same for the steps that also move the index. *)
LEMMA IndexStep ==
  ASSUME BundleInv, NEW p \in Procs, NEW step \in Steps, NEW result \in Outcomes, NEW i \in Nat,
         pc' = [pc EXCEPT ![p] = step],
         outcome' = outcome \/ outcome' = [outcome EXCEPT ![p] = result],
         next' = [next EXCEPT ![p] = i],
         UNCHANGED <<req, plan, before, gameOn, calls, removals>>,
         disk' \in Disk, failures' \in Nat,
         step \in Moving => i \in 1..Len(plan[p]),
         step \notin {"gate", "plan", "recheck"},
         AtomicMove => step \notin {"rename", "unrename"}
  PROVE  BundleInv'
<1>1. TypeOK'
  BY DEF BundleInv, TypeOK
<1>2. IndexOK'
  BY DEF BundleInv, TypeOK, IndexOK
<1> QED BY <1>1, <1>2 DEF BundleInv

LEMMA FinishPosition ==
  ASSUME BundleInv, NEW p \in Procs, NEW result \in Outcomes, Finish(p, result),
         UNCHANGED <<req, plan, before, next, gameOn, calls, removals>>,
         disk' \in Disk, failures' \in Nat
  PROVE  BundleInv'
<1>1. "idle" \in Steps /\ "idle" \notin Moving
  BY DEF Steps, Moving
<1> QED BY <1>1, PositionStep DEF Finish, Goto

LEMMA MoveDoneInv ==
  ASSUME BundleInv, NEW p \in Procs, pc[p] \in Moving, MoveDone(p),
         UNCHANGED <<req, plan, before, gameOn, calls, removals>>,
         disk' \in Disk, failures' \in Nat
  PROVE  BundleInv'
<1>1. next[p] \in Nat \ {0} /\ Len(plan[p]) \in Nat /\ next[p] <= Len(plan[p])
  BY CurrentMove
<1>2. next \in [Procs -> Nat]
  BY DEF BundleInv, TypeOK
<1> DEFINE step == IF next[p] = Len(plan[p]) THEN "verify" ELSE "check"
<1>3. step \in Steps /\ step \notin {"gate", "plan", "recheck", "rename", "unrename"}
  BY DEF Steps
<1>4. step \in Moving => next[p] + 1 \in 1..Len(plan[p])
  BY <1>1 DEF Moving
<1>5. pc' = [pc EXCEPT ![p] = step] /\ outcome' = outcome /\ next' = [next EXCEPT ![p] = next[p] + 1]
  BY <1>2 DEF MoveDone, Goto, Ongoing
<1>6. "ok" \in Outcomes /\ next[p] + 1 \in Nat
  BY <1>1 DEF Outcomes
<1> HIDE DEF step
<1> QED BY <1>3, <1>4, <1>5, <1>6, IndexStep

(* One argument for going on to the previous move, or ending at the first. *)
LEMMA StepBackInv ==
  ASSUME BundleInv, NEW p \in Procs, pc[p] \in Moving \/ next[p] \in 1..Len(plan[p]),
         next' = [next EXCEPT ![p] = @ - 1],
         IF next[p] = 1 THEN Finish(p, "undone") ELSE Goto(p, "undo") /\ Ongoing,
         UNCHANGED <<req, plan, before, gameOn, calls, removals>>,
         disk' \in Disk, failures' \in Nat
  PROVE  BundleInv'
<1>1. next[p] \in Nat \ {0} /\ Len(plan[p]) \in Nat /\ next[p] <= Len(plan[p])
  BY DEF BundleInv, IndexOK, TypeOK
<1>2. next' = [next EXCEPT ![p] = next[p] - 1] /\ next[p] - 1 \in Nat
  BY <1>1 DEF BundleInv, TypeOK
<1>3. "undo" \in Steps /\ "idle" \in Steps /\ "idle" \notin Moving /\ "undone" \in Outcomes
  BY DEF Steps, Moving, Outcomes
<1>4. CASE next[p] = 1
  BY <1>2, <1>3, <1>4, IndexStep DEF Finish, Goto
<1>5. CASE next[p] # 1
  <2>1. next[p] - 1 \in 1..Len(plan[p])
    BY <1>1, <1>5
  <2> QED BY <1>2, <1>3, <1>5, <2>1, IndexStep DEF Goto, Ongoing
<1> QED BY <1>4, <1>5

(* Every step of a caller and of the environment keeps the invariant. *)
LEMMA InvNext == BundleInv /\ [Next]_vars => BundleInv'
<1> SUFFICES ASSUME BundleInv, [Next]_vars PROVE BundleInv'
  OBVIOUS
<1> USE DEF boundVars
<1>1. disk \in Disk /\ failures \in Nat /\ next \in [Procs -> Nat]
  BY DEF BundleInv, TypeOK
<1>2. "rejected" \in Outcomes /\ "stopped" \in Outcomes /\ "stuck" \in Outcomes
      /\ "ok" \in Outcomes /\ "unverified" \in Outcomes
  BY DEF Outcomes
<1>3. ASSUME NEW p \in Procs, pc[p] \in Moving
      PROVE  /\ Current(p).src \in Path /\ Current(p).dst \in Place
             /\ Renamed(Current(p).src, Current(p).dst) \in Disk
             /\ Renamed(Current(p).dst, Current(p).src) \in Disk
             /\ Renamed(Current(p).src, Trashed) \in Disk
             /\ next[p] \in 1..Len(plan[p])
  <2>1. Current(p) \in Move
    BY <1>3, CurrentMove
  <2>2. Current(p).src \in Path /\ Current(p).dst \in Place /\ Trashed \in Place
        /\ Current(p).src \in Place
    BY <2>1 DEF Move, Place, OffDisk
  <2> QED BY <1>1, <1>3, <2>2, RenamedType DEF BundleInv, IndexOK
<1>4. ASSUME NEW p \in Procs, NEW r \in Requests, Start(p, r) PROVE BundleInv'
  <2>1. TypeOK'
    <3>1. plan' \in [Procs -> Seq(Move)]
      <4>1. <<>> \in Seq(Move)
        OBVIOUS
      <4> QED BY <1>4, <4>1 DEF Start, BundleInv, TypeOK
    <3> QED BY <1>4, <3>1 DEF Start, Goto, BundleInv, TypeOK, Steps, Outcomes
  <2>2. IndexOK'
    BY <1>4 DEF Start, Goto, BundleInv, TypeOK, IndexOK, Moving
  <2> QED BY <2>1, <2>2 DEF BundleInv
<1>5. ASSUME NEW p \in Procs, Gate(p) PROVE BundleInv'
  <2>1. "plan" \in Steps /\ "plan" \notin Moving /\ next[p] = 1
    BY <1>5 DEF Steps, Moving, Gate, BundleInv, IndexOK
  <2>2. CASE Goto(p, "plan") /\ Ongoing
    BY <1>1, <1>2, <1>5, <2>1, <2>2, PositionStep DEF Gate, Goto, Ongoing
  <2>3. CASE Finish(p, "rejected")
    BY <1>1, <1>2, <1>5, <2>3, FinishPosition DEF Gate
  <2> QED BY <1>5, <2>2, <2>3 DEF Gate
<1>6. ASSUME NEW p \in Procs, ScanAndPlan(p) PROVE BundleInv'
  <2>1. CASE Plannable(req[p])
    <3> DEFINE moves == PlannedMoves(req[p])
               step == IF req[p].op = "delete" THEN "recheck" ELSE "check"
    <3>1. moves \in Seq(Move) /\ moves # <<>>
      <4>1. req[p] \in Request
        BY BundleAssumption DEF BundleInv, TypeOK
      <4> QED BY <1>1, <2>1, <4>1, PlannedMovesType DEF Plannable
    <3>2. step \in {"recheck", "check"} /\ next[p] = 1
      BY <1>6 DEF ScanAndPlan, BundleInv, IndexOK
    <3>3. /\ plan' = [plan EXCEPT ![p] = moves] /\ before' = [before EXCEPT ![p] = disk]
          /\ pc' = [pc EXCEPT ![p] = step]
          /\ UNCHANGED <<disk, req, next, outcome, gameOn, boundVars>>
      BY <1>6, <2>1 DEF ScanAndPlan, Goto, Ongoing
    <3> HIDE DEF moves, step
    <3>4. TypeOK'
      BY <3>1, <3>2, <3>3 DEF BundleInv, TypeOK, Steps
    <3>5. 1 \in 1..Len(moves)
      BY <3>1
    <3>6. IndexOK'
      BY <3>1, <3>2, <3>3, <3>5 DEF BundleInv, TypeOK, IndexOK, Moving
    <3> QED BY <3>4, <3>6 DEF BundleInv
  <2>2. CASE ~Plannable(req[p])
    BY <1>1, <1>2, <1>6, <2>2, FinishPosition DEF ScanAndPlan
  <2> QED BY <2>1, <2>2
<1>7. ASSUME NEW p \in Procs, Check(p) PROVE BundleInv'
  <2>1. "move" \in Steps /\ next[p] \in 1..Len(plan[p])
    BY <1>3, <1>7 DEF Steps, Check, Moving
  <2>2. CASE Goto(p, "move") /\ Ongoing
    BY <1>1, <1>2, <1>7, <2>1, <2>2, PositionStep DEF Check, Goto, Ongoing
  <2>3. CASE Finish(p, "stopped")
    BY <1>1, <1>2, <1>7, <2>3, FinishPosition DEF Check
  <2> QED BY <1>7, <2>2, <2>3 DEF Check
<1>8. ASSUME NEW p \in Procs, TryMove(p) PROVE BundleInv'
  <2> DEFINE m == Current(p)
  <2>1. pc[p] \in Moving /\ UNCHANGED <<req, plan, before, gameOn, calls, removals>>
    BY <1>8 DEF TryMove, Moving
  <2>2. next[p] \in 1..Len(plan[p]) /\ Renamed(m.src, m.dst) \in Disk /\ "rename" \in Steps
    BY <1>3, <2>1 DEF Steps
  <2> HIDE DEF m
  <2>3. CASE disk' = Renamed(m.src, m.dst) /\ MoveDone(p) /\ UNCHANGED failures
    BY <1>1, <2>1, <2>2, <2>3, MoveDoneInv
  <2>4. CASE ~AtomicMove /\ Goto(p, "rename") /\ Ongoing /\ UNCHANGED <<disk, next, failures>>
    BY <1>1, <1>2, <2>1, <2>2, <2>4, PositionStep DEF Goto, Ongoing
  <2>5. CASE MoveFailed(p) /\ UNCHANGED disk /\ failures' \in Nat
    BY <1>1, <2>1, <2>5, StepBackInv DEF MoveFailed
  <2> QED BY <1>1, <1>8, <2>3, <2>4, <2>5 DEF TryMove, InjectFailure, m
<1>9. ASSUME NEW p \in Procs, Rename(p) PROVE BundleInv'
  <2> DEFINE m == Current(p)
  <2>1. pc[p] = "rename" /\ UNCHANGED <<req, plan, before, gameOn, boundVars>>
    BY <1>9 DEF Rename
  <2>2. pc[p] \in Moving
    BY <2>1 DEF Moving
  <2>3. next[p] \in 1..Len(plan[p]) /\ Renamed(m.src, m.dst) \in Disk
    BY <1>3, <2>2
  <2> HIDE DEF m
  <2>4. CASE disk' = Renamed(m.src, m.dst) /\ MoveDone(p)
    BY <1>1, <2>1, <2>2, <2>3, <2>4, MoveDoneInv
  <2>5. CASE MoveFailed(p) /\ UNCHANGED disk
    BY <1>1, <2>1, <2>2, <2>5, StepBackInv DEF MoveFailed
  <2> QED BY <1>9, <2>4, <2>5 DEF Rename, m
<1>10. ASSUME NEW p \in Procs, TryUndo(p) PROVE BundleInv'
  <2> DEFINE m == Current(p)
  <2>1. pc[p] \in Moving /\ UNCHANGED <<req, plan, before, gameOn, calls, removals>>
    BY <1>10 DEF TryUndo, Moving
  <2>2. next[p] \in 1..Len(plan[p]) /\ Renamed(m.dst, m.src) \in Disk /\ "unrename" \in Steps
    BY <1>3, <2>1 DEF Steps
  <2> HIDE DEF m
  <2>3. CASE disk' = Renamed(m.dst, m.src) /\ UndoDone(p) /\ UNCHANGED failures
    BY <1>1, <2>1, <2>2, <2>3, StepBackInv DEF UndoDone
  <2>4. CASE ~AtomicMove /\ Goto(p, "unrename") /\ Ongoing /\ UNCHANGED <<disk, next, failures>>
    BY <1>1, <1>2, <2>1, <2>2, <2>4, PositionStep DEF Goto, Ongoing
  <2>5. CASE Finish(p, "stuck") /\ UNCHANGED <<disk, next>> /\ failures' \in Nat
    BY <1>1, <1>2, <2>1, <2>5, FinishPosition
  <2> QED BY <1>1, <1>10, <2>3, <2>4, <2>5 DEF TryUndo, InjectFailure, m
<1>11. ASSUME NEW p \in Procs, Unrename(p) PROVE BundleInv'
  <2> DEFINE m == Current(p)
  <2>1. pc[p] = "unrename" /\ UNCHANGED <<req, plan, before, gameOn, boundVars>>
    BY <1>11 DEF Unrename
  <2>2. pc[p] \in Moving
    BY <2>1 DEF Moving
  <2>3. next[p] \in 1..Len(plan[p]) /\ Renamed(m.dst, m.src) \in Disk
    BY <1>3, <2>2
  <2> HIDE DEF m
  <2>4. CASE disk' = Renamed(m.dst, m.src) /\ UndoDone(p)
    BY <1>1, <2>1, <2>2, <2>3, <2>4, StepBackInv DEF UndoDone
  <2>5. CASE Finish(p, "stuck") /\ UNCHANGED <<disk, next>>
    BY <1>1, <1>2, <2>1, <2>5, FinishPosition
  <2> QED BY <1>11, <2>4, <2>5 DEF Unrename, m
<1>12. ASSUME NEW p \in Procs, Recheck(p) PROVE BundleInv'
  <2>1. "trash" \in Steps /\ next[p] \in 1..Len(plan[p])
    <3>1. next[p] = 1 /\ plan[p] # <<>> /\ plan[p] \in Seq(Move)
      BY <1>12 DEF Recheck, BundleInv, TypeOK, IndexOK
    <3> QED BY <3>1 DEF Steps
  <2>2. CASE Goto(p, "trash") /\ Ongoing
    BY <1>1, <1>2, <1>12, <2>1, <2>2, PositionStep DEF Recheck, Goto, Ongoing
  <2>3. CASE Finish(p, "stopped")
    BY <1>1, <1>2, <1>12, <2>3, FinishPosition DEF Recheck
  <2> QED BY <1>12, <2>2, <2>3 DEF Recheck
<1>13. ASSUME NEW p \in Procs, Trash(p) PROVE BundleInv'
  <2> DEFINE m == Current(p)
             step == IF next[p] = Len(plan[p]) THEN "verify" ELSE "trash"
  <2>1. pc[p] \in Moving /\ UNCHANGED <<req, plan, before, gameOn, calls, removals>>
    BY <1>13 DEF Trash, Moving
  <2>2. next[p] \in 1..Len(plan[p]) /\ Renamed(m.src, Trashed) \in Disk
    BY <1>3, <2>1
  <2>3. step \in Steps /\ step \notin {"gate", "plan", "recheck", "rename", "unrename"}
        /\ (step \in Moving => next[p] + 1 \in 1..Len(plan[p])) /\ next[p] + 1 \in Nat
    <3>1. next[p] \in Nat \ {0} /\ Len(plan[p]) \in Nat /\ next[p] <= Len(plan[p])
      BY <2>1, CurrentMove
    <3> QED BY <3>1 DEF Steps, Moving
  <2>4. CASE /\ disk' = Renamed(m.src, Trashed) /\ next' = [next EXCEPT ![p] = @ + 1]
             /\ Goto(p, step) /\ Ongoing /\ UNCHANGED failures
    <3>1. next' = [next EXCEPT ![p] = next[p] + 1]
      BY <1>1, <2>4
    <3> HIDE DEF m, step
    <3> QED BY <1>1, <1>2, <2>1, <2>2, <2>3, <2>4, <3>1, IndexStep DEF Goto, Ongoing
  <2> HIDE DEF m
  <2>5. CASE Finish(p, "stuck") /\ UNCHANGED <<disk, next>> /\ failures' \in Nat
    BY <1>1, <1>2, <2>1, <2>5, FinishPosition
  <2> QED BY <1>1, <1>13, <2>4, <2>5 DEF Trash, InjectFailure, m
<1>14. ASSUME NEW p \in Procs, Verify(p) PROVE BundleInv'
  <2>1. "rescan" \in Steps /\ "rescan" \notin Moving
    BY DEF Steps, Moving
  <2>2. CASE Goto(p, "rescan") /\ Ongoing
    BY <1>1, <1>2, <1>14, <2>1, <2>2, PositionStep DEF Verify, Goto, Ongoing
  <2>3. CASE Finish(p, "ok") \/ Finish(p, "unverified")
    BY <1>1, <1>2, <1>14, <2>3, FinishPosition DEF Verify
  <2> QED BY <1>14, <2>2, <2>3 DEF Verify
<1>15. ASSUME NEW p \in Procs, Rescan(p) PROVE BundleInv'
  <2>1. Finish(p, "ok") \/ Finish(p, "unverified")
    BY <1>15 DEF Rescan
  <2> QED BY <1>1, <1>2, <1>15, <2>1, FinishPosition DEF Rescan
<1>16. ASSUME GameToggles PROVE BundleInv'
  <2>1. gameOn' \in BOOLEAN
    BY <1>16 DEF GameToggles
  <2>2. TypeOK'
    BY <1>16, <2>1 DEF GameToggles, BundleInv, TypeOK
  <2>3. IndexOK'
    BY <1>16 DEF GameToggles, BundleInv, IndexOK
  <2> QED BY <2>2, <2>3 DEF BundleInv
<1>17. ASSUME NEW f \in Files, \/ \E path \in Path : ExternalCreate(f, path)
                               \/ ExternalRemove(f)
       PROVE BundleInv'
  <2>1. disk' \in Disk
    BY <1>1, <1>17 DEF ExternalCreate, ExternalRemove, Disk, Place, OffDisk
  <2>2. TypeOK'
    BY <1>17, <2>1 DEF ExternalCreate, ExternalRemove, BundleInv, TypeOK
  <2>3. IndexOK'
    BY <1>17 DEF ExternalCreate, ExternalRemove, BundleInv, IndexOK
  <2> QED BY <2>2, <2>3 DEF BundleInv
<1>18. CASE UNCHANGED vars
  BY <1>18 DEF vars, BundleInv, TypeOK, IndexOK
<1> QED
  BY <1>4, <1>5, <1>6, <1>7, <1>8, <1>9, <1>10, <1>11, <1>12, <1>13, <1>14, <1>15, <1>16,
     <1>17, <1>18 DEF Next, Step

(* For any library, any calls and any number of concurrent callers: what   *)
(* apply, rollbackMoves and the inspections keep of the files, plans and   *)
(* outcomes is well formed.                                                *)
THEOREM TypeCorrect == Spec => []TypeOK
<1>1. BundleInv => TypeOK
  BY DEF BundleInv
<1> QED BY <1>1, InvInit, InvNext, PTL DEF Spec

LEMMA SafeInit == Init => NoFileOverwritten
<1> SUFFICES ASSUME Init PROVE NoFileOverwritten
  OBVIOUS
<1>1. Overwritten \notin Path /\ Unborn \notin Path /\ Unborn # Overwritten
  BY OffDiskAssumption DEF OffDisk
<1>2. \A f \in Files : disk[f] \in Path \cup {Unborn}
  BY BundleAssumption DEF Init
<1> QED BY <1>1, <1>2, BundleAssumption DEF Init, NoFileOverwritten

(* The steps that leave the disk alone keep no-clobber trivially; those    *)
(* that rename do it because MoveFileW refuses an occupied destination,    *)
(* and os.Rename is never reached.                                         *)
LEMMA SafeNext == AtomicMove /\ BundleInv /\ NoFileOverwritten /\ [Next]_vars => NoFileOverwritten'
<1> SUFFICES ASSUME AtomicMove, BundleInv, NoFileOverwritten, [Next]_vars
             PROVE NoFileOverwritten'
  OBVIOUS
<1>1. disk \in Disk
  BY DEF BundleInv, TypeOK
<1>2. CASE UNCHANGED disk
  BY <1>2 DEF NoFileOverwritten
<1>3. ASSUME NEW p \in Procs, pc[p] \in Moving
      PROVE  Current(p).src \in Path /\ Current(p).dst \in Path \cup {Trashed}
  BY <1>3, CurrentMove DEF Move
<1>4. ASSUME NEW p \in Procs, TryMove(p) PROVE NoFileOverwritten'
  <2> DEFINE m == Current(p)
  <2>1. m.dst \in Path \cup {Trashed}
    BY <1>3, <1>4 DEF TryMove, Moving
  <2> HIDE DEF m
  <2>2. CASE MoveWorks(m.src, m.dst) /\ disk' = Renamed(m.src, m.dst)
    BY <1>1, <2>1, <2>2, RenamedSafe DEF MoveWorks
  <2> QED BY <1>2, <1>4, <2>2 DEF TryMove, m
<1>5. ASSUME NEW p \in Procs, TryUndo(p) PROVE NoFileOverwritten'
  <2> DEFINE m == Current(p)
  <2>1. m.src \in Path \cup {Trashed}
    BY <1>3, <1>5 DEF TryUndo, Moving
  <2> HIDE DEF m
  <2>2. CASE MoveWorks(m.dst, m.src) /\ disk' = Renamed(m.dst, m.src)
    BY <1>1, <2>1, <2>2, RenamedSafe DEF MoveWorks
  <2> QED BY <1>2, <1>5, <2>2 DEF TryUndo, m
<1>6. ASSUME NEW p \in Procs, Trash(p) PROVE NoFileOverwritten'
  <2>1. CASE Occupied(disk, Current(p).src) /\ disk' = Renamed(Current(p).src, Trashed)
    BY <1>1, <2>1, RenamedSafe
  <2> QED BY <1>2, <1>6, <2>1 DEF Trash
<1>7. ASSUME NEW p \in Procs PROVE ~Rename(p) /\ ~Unrename(p)
  BY DEF Rename, Unrename, BundleInv, IndexOK
<1>8. ASSUME NEW p \in Procs,
             \/ Gate(p) \/ ScanAndPlan(p) \/ Check(p) \/ Recheck(p) \/ Verify(p) \/ Rescan(p)
             \/ \E r \in Requests : Start(p, r)
      PROVE  UNCHANGED disk
  BY <1>8 DEF Gate, ScanAndPlan, Check, Recheck, Verify, Rescan, Start
<1>9. ASSUME NEW f \in Files, NEW path \in Path, ExternalCreate(f, path) PROVE NoFileOverwritten'
  <2>1. path # Overwritten
    BY OffDiskAssumption DEF OffDisk
  <2>2. \A g \in Files : disk'[g] = IF g = f THEN path ELSE disk[g]
    BY <1>1, <1>9 DEF ExternalCreate, Disk
  <2>3. \A g \in Files : disk[g] # path
    BY <1>9 DEF ExternalCreate, Occupied
  <2> QED BY <2>1, <2>2, <2>3 DEF NoFileOverwritten
<1>10. ASSUME NEW f \in Files, ExternalRemove(f) PROVE NoFileOverwritten'
  <2>1. \A g \in Files : disk'[g] = IF g = f THEN Taken ELSE disk[g]
    BY <1>1, <1>10 DEF ExternalRemove, Disk
  <2>2. Taken \notin Path /\ Taken # Overwritten
    BY OffDiskAssumption DEF OffDisk
  <2> QED BY <2>1, <2>2 DEF NoFileOverwritten
<1>11. CASE GameToggles \/ UNCHANGED vars
  BY <1>2, <1>11 DEF GameToggles, vars
<1> QED BY <1>2, <1>4, <1>5, <1>6, <1>7, <1>8, <1>9, <1>10, <1>11 DEF Next, Step

(* The no-clobber guarantee of moveFileWithoutReplace, for any library and *)
(* any interleaving of callers and other programs, where the platform      *)
(* renames without replacing (MoveFileW).  The other one, move_other.go,   *)
(* checks first and then replaces what another program put there.          *)
THEOREM NoClobber == AtomicMove => (Spec => []NoFileOverwritten)
<1>1. ASSUME AtomicMove PROVE Spec => []NoFileOverwritten
  <2>1. Init => BundleInv /\ NoFileOverwritten
    BY InvInit, SafeInit
  <2>2. BundleInv /\ NoFileOverwritten /\ [Next]_vars => BundleInv' /\ NoFileOverwritten'
    BY <1>1, InvNext, SafeNext
  <2> QED BY <2>1, <2>2, PTL DEF Spec
<1> QED BY <1>1

-----------------------------------------------------------------------------
(* One caller that nothing disturbs.  Its plan is sound, and the disk is   *)
(* always what the scan saw but for the first moves of the plan.           *)
Alone ==
  /\ \E p : Procs = {p}
  /\ MaxRemovals = 0 /\ \A f \in Files : InitialDisk[f] # Unborn

Unique(d) == \A f, g \in Files : d[f] \in Path /\ d[g] = d[f] => f = g
SoundPlan(old, moves) ==
  /\ moves \in Seq(Move) /\ moves # <<>>
  /\ \A i \in DOMAIN moves : Occupied(old, moves[i].src)
  /\ \A i, j \in DOMAIN moves : moves[i].src = moves[j].src => i = j
  /\ \/ \A i \in DOMAIN moves : moves[i].dst = Trashed
     \/ /\ \A i \in DOMAIN moves : moves[i].dst \in Path /\ ~Occupied(old, moves[i].dst)
        /\ \A i, j \in DOMAIN moves : moves[i].dst = moves[j].dst => i = j
Intent(r, old, moves) ==
  /\ HasEntry(old, r.entry) /\ (r.op = "relocate" => r.to # r.entry)
  /\ r.op = "delete" <=> \A i \in DOMAIN moves : moves[i].dst = Trashed
  /\ \A i \in DOMAIN moves, f \in Files : old[f] = moves[i].src =>
       OfBundle(r, old, f) /\ moves[i].dst = Intended(r, old, f)
  /\ \A f \in Files : OfBundle(r, old, f) =>
       \/ \E i \in DOMAIN moves : old[f] = moves[i].src
       \/ r.op \in {"enable", "disable"} /\ Intended(r, old, f) = old[f]
  /\ r.op \in {"enable", "disable"} =>
       /\ Len(moves) = 1 /\ moves[1].src = At(r.entry, PrimaryOf(old, r.entry))
       /\ \E e \in {"pak", "pak_crateoff"} : moves[1].dst = At(r.entry, e)
Moved(old, moves, n, d) ==
  \A f \in Files :
    /\ \A i \in 1..n : old[f] = moves[i].src => d[f] = moves[i].dst
    /\ (\A i \in 1..n : old[f] # moves[i].src) => d[f] = old[f]

(* What a rename does when it meets one file and replaces none. *)
LEMMA RenamedOne ==
  ASSUME disk \in Disk, Unique(disk), NEW g \in Files, disk[g] \in Path,
         NEW dst \in Path \cup {Trashed}, ~Occupied(disk, dst) \/ dst = Trashed
  PROVE  Renamed(disk[g], dst) = [f \in Files |-> IF f = g THEN dst ELSE disk[f]]
<1>1. FileAt(disk, disk[g]) = g
  <2>1. \A f \in Files : disk[f] = disk[g] <=> f = g
    BY DEF Unique
  <2> QED BY <2>1 DEF FileAt
<1>2. Trashed \notin Path
  BY OffDiskAssumption DEF OffDisk
<1>3. \A f \in Files : dst \in Path => disk[f] # dst
  BY <1>2 DEF Occupied
<1> QED BY <1>1, <1>3 DEF Renamed

(* The next move of a sound plan finds its file and its place, and makes   *)
(* one move more.                                                          *)
LEMMA MoveOn ==
  ASSUME disk \in Disk, Unique(disk), NEW old \in Disk, Unique(old), NEW moves, SoundPlan(old, moves),
         NEW n \in Nat, n + 1 \in DOMAIN moves, Moved(old, moves, n, disk)
  PROVE  LET m == moves[n + 1]
         IN /\ Occupied(disk, m.src) /\ (~Occupied(disk, m.dst) \/ m.dst = Trashed)
            /\ Moved(old, moves, n + 1, Renamed(m.src, m.dst))
<1> DEFINE m == moves[n + 1]
<1>1. /\ m \in Move /\ m.src \in Path /\ m.dst \in Path \cup {Trashed}
      /\ \A i \in 1..(n + 1) : i \in DOMAIN moves /\ (i # n + 1 => i \in 1..n)
      /\ \A i \in 1..n : i \in 1..(n + 1) /\ i # n + 1
      /\ n + 1 \in 1..(n + 1) /\ n + 1 \notin 1..n
  <2>1. moves \in Seq(Move)
    BY DEF SoundPlan
  <2>2. DOMAIN moves = 1..Len(moves) /\ Len(moves) \in Nat
    BY <2>1
  <2>3. m \in Move
    BY <2>1
  <2>4. n + 1 <= Len(moves)
    BY <2>2
  <2>5. /\ \A i \in 1..(n + 1) : i \in 1..Len(moves) /\ (i # n + 1 => i \in 1..n)
        /\ \A i \in 1..n : i \in 1..(n + 1) /\ i # n + 1
        /\ n + 1 \in 1..(n + 1) /\ n + 1 \notin 1..n
    BY <2>2, <2>4
  <2> QED BY <2>2, <2>3, <2>5 DEF Move
<1>2. PICK g \in Files : old[g] = m.src
  BY DEF SoundPlan, Occupied
<1>3. \A i \in 1..n : old[g] # moves[i].src
  BY <1>1, <1>2 DEF SoundPlan
<1>4. disk[g] = m.src
  BY <1>2, <1>3 DEF Moved
<1>5. Trashed \notin Path
  BY OffDiskAssumption DEF OffDisk
<1>6. ASSUME NEW f \in Files, disk[f] = m.dst, m.dst # Trashed PROVE FALSE
  <2>1. \A i \in DOMAIN moves : ~Occupied(old, moves[i].dst)
    BY <1>6 DEF SoundPlan
  <2>2. \A i, j \in DOMAIN moves : moves[i].dst = moves[j].dst => i = j
    BY <1>6 DEF SoundPlan
  <2>3. CASE \E i \in 1..n : old[f] = moves[i].src
    <3>1. PICK i \in 1..n : old[f] = moves[i].src
      BY <2>3
    <3>2. disk[f] = moves[i].dst
      BY <3>1 DEF Moved
    <3> QED BY <1>1, <1>6, <2>2, <3>2
  <2>4. CASE \A i \in 1..n : old[f] # moves[i].src
    <3>1. disk[f] = old[f]
      BY <2>4 DEF Moved
    <3> QED BY <1>6, <2>1, <3>1 DEF Occupied
  <2> QED BY <2>3, <2>4
<1>7. Renamed(m.src, m.dst) = [f \in Files |-> IF f = g THEN m.dst ELSE disk[f]]
  BY <1>1, <1>4, <1>6, RenamedOne DEF Occupied
<1>8. \A f \in Files : old[f] = m.src <=> f = g
  BY <1>1, <1>2 DEF Unique
<1>9. Moved(old, moves, n + 1, Renamed(m.src, m.dst))
  <2> DEFINE new == Renamed(m.src, m.dst)
  <2>1. new[g] = m.dst /\ \A f \in Files \ {g} : new[f] = disk[f]
    BY <1>7
  <2> HIDE DEF new
  <2> SUFFICES ASSUME NEW f \in Files
               PROVE  /\ \A i \in 1..(n + 1) : old[f] = moves[i].src => new[f] = moves[i].dst
                      /\ (\A i \in 1..(n + 1) : old[f] # moves[i].src) => new[f] = old[f]
    BY DEF Moved, new
  <2>2. CASE f = g
    <3>1. \A i \in 1..(n + 1) : old[g] = moves[i].src => i = n + 1
      BY <1>1, <1>3
    <3> QED BY <1>1, <1>2, <2>1, <2>2, <3>1
  <2>3. CASE f # g
    <3>1. new[f] = disk[f] /\ old[f] # m.src
      BY <1>8, <2>1, <2>3
    <3>2. \A i \in 1..(n + 1) : old[f] = moves[i].src => new[f] = moves[i].dst
      BY <1>1, <3>1 DEF Moved
    <3>3. (\A i \in 1..(n + 1) : old[f] # moves[i].src) => new[f] = old[f]
      BY <1>1, <3>1 DEF Moved
    <3> QED BY <3>2, <3>3
  <2> QED BY <2>2, <2>3
<1> QED BY <1>4, <1>6, <1>9 DEF Occupied

(* And the last move made finds its way back. *)
LEMMA MoveBack ==
  ASSUME disk \in Disk, Unique(disk), NEW old \in Disk, Unique(old), NEW moves, SoundPlan(old, moves),
         NEW n \in DOMAIN moves, Moved(old, moves, n, disk), moves[n].dst # Trashed
  PROVE  LET m == moves[n]
         IN /\ Occupied(disk, m.dst) /\ ~Occupied(disk, m.src)
            /\ Moved(old, moves, n - 1, Renamed(m.dst, m.src))
<1> DEFINE m == moves[n]
<1>1. /\ n \in Nat \ {0} /\ m \in Move /\ m.src \in Path /\ m.dst \in Path
      /\ \A i \in 1..n : i \in DOMAIN moves /\ (i # n => i \in 1..(n - 1))
      /\ \A i \in 1..(n - 1) : i \in 1..n /\ i # n
      /\ n \in 1..n
  <2>1. moves \in Seq(Move)
    BY DEF SoundPlan
  <2>2. DOMAIN moves = 1..Len(moves) /\ Len(moves) \in Nat
    BY <2>1
  <2>3. m \in Move
    BY <2>1
  <2>4. n \in Nat \ {0} /\ n <= Len(moves)
    BY <2>2
  <2>5. /\ \A i \in 1..n : i \in 1..Len(moves) /\ (i # n => i \in 1..(n - 1))
        /\ \A i \in 1..(n - 1) : i \in 1..n /\ i # n
        /\ n \in 1..n
    BY <2>2, <2>4
  <2> QED BY <2>2, <2>3, <2>4, <2>5 DEF Move
<1>2. PICK g \in Files : old[g] = m.src
  BY DEF SoundPlan, Occupied
<1>3. disk[g] = m.dst
  BY <1>1, <1>2 DEF Moved
<1>4. \A f \in Files : old[f] = m.src <=> f = g
  BY <1>1, <1>2 DEF Unique
<1>5. /\ \A i \in DOMAIN moves : moves[i].dst \in Path /\ ~Occupied(old, moves[i].dst)
      /\ \A i, j \in DOMAIN moves : moves[i].src = moves[j].src => i = j
  BY DEF SoundPlan
<1>6. ASSUME NEW f \in Files, disk[f] = m.src PROVE FALSE
  <2>1. CASE \E i \in 1..n : old[f] = moves[i].src
    <3>1. PICK i \in 1..n : old[f] = moves[i].src
      BY <2>1
    <3>2. moves[i].dst = m.src
      BY <1>6, <3>1 DEF Moved
    <3> QED BY <1>1, <1>2, <1>5, <3>2 DEF Occupied
  <2>2. CASE \A i \in 1..n : old[f] # moves[i].src
    <3>1. disk[f] = old[f]
      BY <2>2 DEF Moved
    <3> QED BY <1>1, <1>6, <2>2, <3>1
  <2> QED BY <2>1, <2>2
<1>7. Renamed(m.dst, m.src) = [f \in Files |-> IF f = g THEN m.src ELSE disk[f]]
  <2>1. disk[g] \in Path /\ ~Occupied(disk, m.src) /\ m.src \in Path \cup {Trashed}
    BY <1>1, <1>3, <1>6 DEF Occupied
  <2> QED BY <1>3, <2>1, RenamedOne
<1>8. Moved(old, moves, n - 1, Renamed(m.dst, m.src))
  <2> DEFINE new == Renamed(m.dst, m.src)
  <2>1. new[g] = m.src /\ \A f \in Files \ {g} : new[f] = disk[f]
    BY <1>7
  <2> HIDE DEF new
  <2> SUFFICES ASSUME NEW f \in Files
               PROVE  /\ \A i \in 1..(n - 1) : old[f] = moves[i].src => new[f] = moves[i].dst
                      /\ (\A i \in 1..(n - 1) : old[f] # moves[i].src) => new[f] = old[f]
    BY DEF Moved, new
  <2>2. CASE f = g
    <3>1. \A i \in 1..(n - 1) : old[g] # moves[i].src
      BY <1>1, <1>2, <1>5
    <3> QED BY <1>2, <2>1, <2>2, <3>1
  <2>3. CASE f # g
    <3>1. new[f] = disk[f] /\ old[f] # m.src
      BY <1>4, <2>1, <2>3
    <3>2. \A i \in 1..(n - 1) : old[f] = moves[i].src => new[f] = moves[i].dst
      BY <1>1, <3>1 DEF Moved
    <3>3. (\A i \in 1..(n - 1) : old[f] # moves[i].src) => new[f] = old[f]
      BY <1>1, <3>1 DEF Moved
    <3> QED BY <3>2, <3>3
  <2> QED BY <2>2, <2>3
<1> QED BY <1>3, <1>6, <1>8 DEF Occupied

LEMMA AppendMembers ==
  ASSUME NEW T, NEW a \in T, NEW b \in T, NEW c \in T
  PROVE  Append(<<a>>, b) = <<a, b>> /\ Append(<<a, b>>, c) = <<a, b, c>>
<1>1. <<a>> \in Seq(T) /\ <<a, b>> \in Seq(T) /\ <<a, b, c>> \in Seq(T)
  OBVIOUS
<1>2. Append(<<a>>, b) = <<a, b>>
  <2> DEFINE s == Append(<<a>>, b)
  <2>1. s \in Seq(T) /\ Len(s) = 2 /\ s[1] = a /\ s[2] = b
    BY <1>1, AppendProperties
  <2> HIDE DEF s
  <2>2. Len(<<a, b>>) = 2 /\ <<a, b>>[1] = a /\ <<a, b>>[2] = b
    OBVIOUS
  <2>3. \A i \in 1..2 : i = 1 \/ i = 2
    OBVIOUS
  <2>4. Len(s) = Len(<<a, b>>) /\ \A i \in 1..Len(s) : s[i] = <<a, b>>[i]
    BY <2>1, <2>2, <2>3
  <2>5. s = <<a, b>>
    BY <1>1, <2>1, <2>4, SeqEqual
  <2> QED BY <2>5 DEF s
<1>3. Append(<<a, b>>, c) = <<a, b, c>>
  <2> DEFINE s == Append(<<a, b>>, c)
  <2>1. s \in Seq(T) /\ Len(s) = 3 /\ s[1] = a /\ s[2] = b /\ s[3] = c
    BY <1>1, AppendProperties
  <2> HIDE DEF s
  <2>2. Len(<<a, b, c>>) = 3 /\ <<a, b, c>>[1] = a /\ <<a, b, c>>[2] = b /\ <<a, b, c>>[3] = c
    OBVIOUS
  <2>3. \A i \in 1..3 : i = 1 \/ i = 2 \/ i = 3
    OBVIOUS
  <2>4. Len(s) = Len(<<a, b, c>>) /\ \A i \in 1..Len(s) : s[i] = <<a, b, c>>[i]
    BY <2>1, <2>2, <2>3
  <2>5. s = <<a, b, c>>
    BY <1>1, <2>1, <2>4, SeqEqual
  <2> QED BY <2>5 DEF s
<1> QED BY <1>2, <1>3

(* The members of a bundle: the primary and each sidecar, once. *)
LEMMA MemberSequence ==
  ASSUME NEW g
  PROVE  LET P == PrimaryOf(disk, g)
             S == Sidecars(disk, g)
         IN \/ Members(g) = <<P>> /\ S = {}
            \/ Members(g) = <<P, "utoc">> /\ S = {"utoc"}
            \/ Members(g) = <<P, "ucas">> /\ S = {"ucas"}
            \/ Members(g) = <<P, "utoc", "ucas">> /\ S = {"utoc", "ucas"}
<1> DEFINE P == PrimaryOf(disk, g)
           S == Sidecars(disk, g)
<1>1. S \subseteq {"utoc", "ucas"}
  BY DEF Sidecars, SidecarExts
<1>2. Members(g) = <<P>> \o (IF "utoc" \in S THEN <<"utoc">> ELSE <<>>)
                         \o (IF "ucas" \in S THEN <<"ucas">> ELSE <<>>)
  BY DEF Members
<1> HIDE DEF P, S
<1> DEFINE T == {P, "utoc", "ucas"}
           b == IF "utoc" \in S THEN <<"utoc">> ELSE <<>>
           c == IF "ucas" \in S THEN <<"ucas">> ELSE <<>>
           pb == <<P>> \o b
<1>3. Members(g) = pb \o c
  BY <1>2
<1>4. P \in T /\ "utoc" \in T /\ "ucas" \in T
  OBVIOUS
<1> HIDE DEF T
<1>5. <<P>> \in Seq(T) /\ <<P, "utoc">> \in Seq(T)
  BY <1>4
<1>6. pb \in Seq(T) /\ pb = IF "utoc" \in S THEN <<P, "utoc">> ELSE <<P>>
  <2>1. CASE "utoc" \in S
    <3>1. b = <<"utoc">>
      BY <2>1
    <3> HIDE DEF b
    <3>2. <<P>> \o <<"utoc">> = Append(<<P>>, "utoc")
      BY <1>4, <1>5, AppendIsConcat
    <3>3. pb = <<P, "utoc">>
      BY <1>4, <3>1, <3>2, AppendMembers, Zenon
    <3> QED BY <1>5, <2>1, <3>3
  <2>2. CASE "utoc" \notin S
    <3>1. b = <<>>
      BY <2>2
    <3> HIDE DEF b
    <3>2. <<P>> \o <<>> = <<P>>
      BY <1>5, ConcatEmptySeq
    <3> QED BY <1>5, <2>2, <3>1, <3>2
  <2> QED BY <2>1, <2>2
<1> HIDE DEF pb
<1>7. CASE "ucas" \in S
  <2>1. c = <<"ucas">>
    BY <1>7
  <2> HIDE DEF c
  <2>2. pb \o <<"ucas">> = Append(pb, "ucas")
    BY <1>4, <1>6, AppendIsConcat
  <2>3. Members(g) = Append(pb, "ucas")
    BY <1>3, <2>1, <2>2
  <2>4. Append(<<P, "utoc">>, "ucas") = <<P, "utoc", "ucas">> /\ Append(<<P>>, "ucas") = <<P, "ucas">>
    BY <1>4, AppendMembers, Zenon
  <2>5. CASE "utoc" \in S
    <3>1. Members(g) = <<P, "utoc", "ucas">>
      BY <1>6, <2>3, <2>4, <2>5
    <3> QED BY <1>1, <1>7, <2>5, <3>1 DEF P, S
  <2>6. CASE "utoc" \notin S
    <3>1. Members(g) = <<P, "ucas">>
      BY <1>6, <2>3, <2>4, <2>6
    <3> QED BY <1>1, <1>7, <2>6, <3>1 DEF P, S
  <2> QED BY <2>5, <2>6
<1>8. CASE "ucas" \notin S
  <2>1. c = <<>>
    BY <1>8
  <2> HIDE DEF c
  <2>2. pb \o <<>> = pb
    BY <1>6, ConcatEmptySeq
  <2>3. Members(g) = pb
    BY <1>3, <2>1, <2>2
  <2> QED BY <1>1, <1>6, <1>8, <2>3 DEF P, S
<1> QED BY <1>7, <1>8

(* The extensions a plan moves: those of a toggle, and those of the rest. *)
Moves(r) == IF r.op \in {"enable", "disable"} THEN <<PrimaryOf(disk, r.entry)>> ELSE Members(r.entry)
LEMMA MovedExts ==
  ASSUME disk \in Disk, NEW r \in Request, HasEntry(disk, r.entry)
  PROVE  LET exts == Moves(r)
             P == PrimaryOf(disk, r.entry)
         IN /\ Primaries(disk, r.entry) = {P} /\ P \in PrimaryExts
            /\ Len(exts) \in Nat \ {0} /\ DOMAIN exts = 1..Len(exts) /\ exts[1] = P
            /\ \A i \in DOMAIN exts : exts[i] \in Exts /\ Occupied(disk, At(r.entry, exts[i]))
            /\ \A i, j \in DOMAIN exts : exts[i] = exts[j] => i = j
            /\ r.op \in {"enable", "disable"} => Len(exts) = 1
            /\ r.op \notin {"enable", "disable"} =>
                 \A e \in Exts : Occupied(disk, At(r.entry, e)) => \E i \in DOMAIN exts : exts[i] = e
<1> DEFINE P == PrimaryOf(disk, r.entry)
           S == Sidecars(disk, r.entry)
           exts == Moves(r)
<1>1. Primaries(disk, r.entry) = {P} /\ P \in PrimaryExts
  <2>1. PICK e \in PrimaryExts : Primaries(disk, r.entry) = {e}
    BY DEF HasEntry
  <2>2. P = e
    BY <2>1 DEF PrimaryOf
  <2> QED BY <2>1, <2>2
<1>2. /\ P # "utoc" /\ P # "ucas" /\ P \in Exts /\ "utoc" \in Exts /\ "ucas" \in Exts
      /\ Exts = PrimaryExts \cup {"utoc", "ucas"}
  BY <1>1 DEF PrimaryExts, Exts, SidecarExts
<1>3. /\ Occupied(disk, At(r.entry, P)) /\ \A e \in S : Occupied(disk, At(r.entry, e))
      /\ \A e \in PrimaryExts : Occupied(disk, At(r.entry, e)) => e = P
      /\ \A e \in {"utoc", "ucas"} : Occupied(disk, At(r.entry, e)) => e \in S
  BY <1>1 DEF Primaries, Sidecars, SidecarExts
<1>4. CASE r.op \in {"enable", "disable"}
  <2>1. exts = <<P>>
    BY <1>4 DEF Moves
  <2> HIDE DEF exts, P, S
  <2> QED BY <1>1, <1>2, <1>3, <1>4, <2>1 DEF exts, P
<1>5. CASE r.op \notin {"enable", "disable"}
  <2>1. exts = Members(r.entry)
    BY <1>5 DEF Moves
  <2>2. \/ exts = <<P>> /\ S = {}
        \/ exts = <<P, "utoc">> /\ S = {"utoc"}
        \/ exts = <<P, "ucas">> /\ S = {"ucas"}
        \/ exts = <<P, "utoc", "ucas">> /\ S = {"utoc", "ucas"}
    BY <2>1, MemberSequence
  <2> HIDE DEF exts, P, S
  <2>3. /\ Len(exts) \in Nat \ {0} /\ DOMAIN exts = 1..Len(exts) /\ exts[1] = P
        /\ \A i \in DOMAIN exts : exts[i] \in {P} \cup S
        /\ \A i, j \in DOMAIN exts : exts[i] = exts[j] => i = j
        /\ \A e \in {P} \cup S : \E i \in DOMAIN exts : exts[i] = e
    <3>1. CASE exts = <<P>> /\ S = {}
      BY <3>1
    <3>2. CASE exts = <<P, "utoc">> /\ S = {"utoc"}
      BY <1>2, <3>2
    <3>3. CASE exts = <<P, "ucas">> /\ S = {"ucas"}
      BY <1>2, <3>3
    <3>4. CASE exts = <<P, "utoc", "ucas">> /\ S = {"utoc", "ucas"}
      <4>1. /\ Len(exts) = 3 /\ DOMAIN exts = 1..3
            /\ exts[1] = P /\ exts[2] = "utoc" /\ exts[3] = "ucas"
        BY <3>4
      <4> QED BY <1>2, <3>4, <4>1
    <3> QED BY <2>2, <3>1, <3>2, <3>3, <3>4
  <2>4. S \subseteq {"utoc", "ucas"}
    BY <2>2
  <2>5. \A e \in Exts : Occupied(disk, At(r.entry, e)) => e \in {P} \cup S
    BY <1>2, <1>3
  <2> QED BY <1>1, <1>2, <1>3, <1>5, <2>3, <2>4, <2>5 DEF exts, P
<1> QED BY <1>4, <1>5

(* The plan made from a scan is sound and does what the call asks for. *)
LEMMA GoodPlan ==
  ASSUME disk \in Disk, Unique(disk), NEW r \in Request, r.op # "relocate" => r.to = r.entry,
         Plannable(r)
  PROVE  SoundPlan(disk, PlannedMoves(r)) /\ Intent(r, disk, PlannedMoves(r))
<1> DEFINE exts == Moves(r)
           moves == PlannedMoves(r)
           P == PrimaryOf(disk, r.entry)
           dst(e) == IF r.op = "delete" THEN Trashed ELSE At(r.to, NewExt(r, e))
<1>1. HasEntry(disk, r.entry) /\ (r.op = "relocate" => r.to # r.entry)
      /\ r.op \in {"enable", "disable", "relocate", "delete"} /\ r.entry \in Group /\ r.to \in Group
  BY DEF Plannable, Request
<1>2. /\ Primaries(disk, r.entry) = {P} /\ P \in PrimaryExts
      /\ Len(exts) \in Nat \ {0} /\ DOMAIN exts = 1..Len(exts) /\ exts[1] = P
      /\ \A i \in DOMAIN exts : exts[i] \in Exts /\ Occupied(disk, At(r.entry, exts[i]))
      /\ \A i, j \in DOMAIN exts : exts[i] = exts[j] => i = j
      /\ r.op \in {"enable", "disable"} => Len(exts) = 1
      /\ r.op \notin {"enable", "disable"} =>
           \A e \in Exts : Occupied(disk, At(r.entry, e)) => \E i \in DOMAIN exts : exts[i] = e
  BY <1>1, MovedExts
<1>3. moves = [i \in 1..Len(exts) |-> [src |-> At(r.entry, exts[i]), dst |-> dst(exts[i])]]
  BY DEF PlannedMoves, Moves
<1>4. moves \in Seq(Move) /\ moves # <<>>
  BY <1>1, PlannedMovesType
<1> HIDE DEF moves, exts, P, dst
<1>5. /\ DOMAIN moves = DOMAIN exts /\ Len(moves) = Len(exts)
      /\ \A i \in DOMAIN moves : moves[i].src = At(r.entry, exts[i]) /\ moves[i].dst = dst(exts[i])
  <2>1. DOMAIN moves = DOMAIN exts /\ \A i \in DOMAIN moves : moves[i].src = At(r.entry, exts[i]) /\ moves[i].dst = dst(exts[i])
    BY <1>2, <1>3
  <2> QED BY <1>2, <1>4, <2>1
<1>6. \A g, e, f : At(g, e) = At(g, f) => e = f
  <2> SUFFICES ASSUME NEW g, NEW e, NEW f, At(g, e) = At(g, f) PROVE e = f
    OBVIOUS
  <2>1. At(g, e).ext = e /\ At(g, f).ext = f
    BY DEF At
  <2> QED BY <2>1
<1>7. Trashed \notin Path
  BY OffDiskAssumption DEF OffDisk
<1>8. ASSUME r.op # "delete", NEW i \in DOMAIN moves
      PROVE  moves[i].dst \in Path /\ moves[i].dst = At(r.to, NewExt(r, exts[i])) /\ ~Occupied(disk, moves[i].dst)
  <2>1. exts[i] \in Exts
    BY <1>2, <1>5
  <2>2. NewExt(r, exts[i]) \in Exts
    BY <2>1 DEF NewExt, Exts, PrimaryExts
  <2>3. moves[i].dst = At(r.to, NewExt(r, exts[i]))
    BY <1>5, <1>8 DEF dst
  <2>4. moves[i].dst \in Path
    BY <1>1, <2>2, <2>3 DEF At, Path, Group
  <2> QED BY <1>8, <2>3, <2>4 DEF Plannable, moves
<1>9. r.op = "relocate" => \A e : NewExt(r, e) = e
  BY DEF NewExt
<1>10. SoundPlan(disk, moves)
  <2>1. \A i \in DOMAIN moves : Occupied(disk, moves[i].src)
    BY <1>2, <1>5
  <2>2. \A i, j \in DOMAIN moves : moves[i].src = moves[j].src => i = j
    BY <1>2, <1>5, <1>6
  <2>3. CASE r.op = "delete"
    <3>1. \A i \in DOMAIN moves : moves[i].dst = Trashed
      BY <1>5, <2>3 DEF dst
    <3> QED BY <1>4, <2>1, <2>2, <3>1 DEF SoundPlan
  <2>4. CASE r.op # "delete"
    <3>1. \A i \in DOMAIN moves : moves[i].dst \in Path /\ ~Occupied(disk, moves[i].dst)
      BY <1>8, <2>4
    <3>2. ASSUME NEW i \in DOMAIN moves, NEW j \in DOMAIN moves, moves[i].dst = moves[j].dst PROVE i = j
      <4>1. CASE r.op = "relocate"
        <5>1. exts[i] = exts[j]
          BY <1>6, <1>8, <1>9, <2>4, <3>2, <4>1
        <5> QED BY <1>2, <1>5, <5>1
      <4>2. CASE r.op \in {"enable", "disable"}
        BY <1>2, <1>5, <4>2
      <4> QED BY <1>1, <2>4, <4>1, <4>2
    <3> QED BY <1>4, <2>1, <2>2, <3>1, <3>2 DEF SoundPlan
  <2> QED BY <2>3, <2>4
<1>11. 1 \in DOMAIN moves
  BY <1>2, <1>5
<1>12. r.op = "delete" <=> \A i \in DOMAIN moves : moves[i].dst = Trashed
  BY <1>5, <1>7, <1>8, <1>11 DEF dst
<1>13. ASSUME NEW f \in Files, OfBundle(r, disk, f)
       PROVE  disk[f].ext \in Exts /\ disk[f] = At(r.entry, disk[f].ext)
  <2>1. disk[f] \in Path /\ GroupOf(disk[f]) = r.entry
    BY <1>13 DEF OfBundle
  <2>2. disk[f] = [folder |-> disk[f].folder, stem |-> disk[f].stem, ext |-> disk[f].ext] /\ disk[f].ext \in Exts
    BY <2>1 DEF Path
  <2>3. r.entry.folder = disk[f].folder /\ r.entry.stem = disk[f].stem
    BY <2>1 DEF GroupOf
  <2> QED BY <2>2, <2>3 DEF At
<1>14. r.op = "enable" => NewExt(r, P) = "pak"
  BY <1>2 DEF NewExt
<1>15. r.op = "disable" => NewExt(r, P) = "pak_crateoff"
  BY <1>2 DEF NewExt
<1>16. ASSUME NEW i \in DOMAIN moves, NEW f \in Files, disk[f] = moves[i].src
       PROVE  OfBundle(r, disk, f) /\ moves[i].dst = Intended(r, disk, f)
  <2>1. exts[i] \in Exts /\ disk[f] = At(r.entry, exts[i])
    BY <1>2, <1>5, <1>16
  <2>2. disk[f] \in Path /\ disk[f].ext = exts[i] /\ GroupOf(disk[f]) = r.entry
    <3>1. r.entry = [folder |-> r.entry.folder, stem |-> r.entry.stem] /\ r.entry.folder \in Folders /\ r.entry.stem \in Stems
      BY <1>1 DEF Group
    <3>2. disk[f] = [folder |-> r.entry.folder, stem |-> r.entry.stem, ext |-> exts[i]]
      BY <2>1 DEF At
    <3> QED BY <2>1, <3>1, <3>2 DEF Path, GroupOf
  <2>3. OfBundle(r, disk, f)
    BY <2>2 DEF OfBundle
  <2>4. CASE r.op = "delete"
    BY <1>5, <2>3, <2>4 DEF dst, Intended
  <2>5. CASE r.op = "relocate"
    BY <1>8, <1>9, <2>2, <2>3, <2>5 DEF Intended
  <2>6. CASE r.op \in {"enable", "disable"}
    <3>1. exts[i] = P
      BY <1>2, <1>5, <2>6
    <3>2. moves[i].dst = At(r.entry, NewExt(r, P)) /\ P \in PrimaryExts
      BY <1>2, <1>8, <2>6, <3>1
    <3> QED BY <1>14, <1>15, <2>2, <2>3, <2>6, <3>1, <3>2 DEF Intended
  <2> QED BY <1>1, <2>3, <2>4, <2>5, <2>6
<1>17. ASSUME NEW f \in Files, OfBundle(r, disk, f)
       PROVE  \/ \E i \in DOMAIN moves : disk[f] = moves[i].src
              \/ r.op \in {"enable", "disable"} /\ Intended(r, disk, f) = disk[f]
  <2> DEFINE e == disk[f].ext
  <2>1. e \in Exts /\ disk[f] = At(r.entry, e) /\ Occupied(disk, At(r.entry, e))
    BY <1>13, <1>17 DEF Occupied
  <2> HIDE DEF e
  <2>2. CASE r.op \notin {"enable", "disable"}
    <3>1. PICK i \in DOMAIN exts : exts[i] = e
      BY <1>2, <2>1, <2>2
    <3> QED BY <1>5, <2>1, <3>1
  <2>3. CASE r.op \in {"enable", "disable"} /\ e \in PrimaryExts
    <3>1. e = P
      BY <1>2, <2>1, <2>3 DEF Primaries
    <3> QED BY <1>2, <1>5, <1>11, <2>1, <3>1
  <2>4. CASE r.op \in {"enable", "disable"} /\ e \notin PrimaryExts
    BY <2>4 DEF Intended, e
  <2> QED BY <2>2, <2>3, <2>4
<1>18. ASSUME r.op \in {"enable", "disable"}
       PROVE  /\ Len(moves) = 1 /\ moves[1].src = At(r.entry, P)
              /\ \E e \in {"pak", "pak_crateoff"} : moves[1].dst = At(r.entry, e)
  BY <1>2, <1>5, <1>8, <1>11, <1>14, <1>15, <1>18
<1> QED BY <1>1, <1>10, <1>12, <1>16, <1>17, <1>18 DEF Intent, moves, P

-----------------------------------------------------------------------------
(* The caller is at a point where it has a plan; how many of its moves are *)
(* made there.                                                             *)
Forward == {"check", "move", "rename", "recheck", "trash"}
Back == {"undo", "unrename"}
Settled == {"verify", "rescan"}
Active == Forward \cup Back \cup Settled
Done(p) == IF pc[p] \in Forward THEN next[p] - 1
           ELSE IF pc[p] \in Back THEN next[p] ELSE Len(plan[p])
OnPlan(p) ==
  /\ Unique(before[p]) /\ SoundPlan(before[p], plan[p]) /\ Intent(req[p], before[p], plan[p])
  /\ Moved(before[p], plan[p], Done(p), disk)
  /\ pc[p] \in {"recheck", "trash"} => req[p].op = "delete"
  /\ pc[p] \in {"check", "move", "rename"} \cup Back => req[p].op # "delete"
  /\ pc[p] \in Back => next[p] < Len(plan[p])
LoneInv ==
  /\ BundleInv /\ NoFileOverwritten
  /\ \A f \in Files : disk[f] # Unborn
  /\ \A p \in Procs : pc[p] \in Active => OnPlan(p)

(* The only caller. *)
LEMMA Only == Alone => Procs = {Caller}
BY DEF Alone, Caller

LEMMA InitLone == Alone /\ Init => LoneInv
<1> SUFFICES ASSUME Alone, Init PROVE LoneInv
  OBVIOUS
<1>1. BundleInv /\ NoFileOverwritten
  BY InvInit, SafeInit
<1>2. \A f \in Files : disk[f] # Unborn
  BY DEF Alone, Init
<1>3. \A p \in Procs : pc[p] \notin Active
  BY DEF Init, Active, Forward, Back, Settled
<1> QED BY <1>1, <1>2, <1>3 DEF LoneInv

(* What the caller relies on. *)
LEMMA LoneFacts ==
  ASSUME LoneInv, NEW p \in Procs, pc[p] \in Active
  PROVE  /\ disk \in Disk /\ Unique(disk) /\ before[p] \in Disk /\ OnPlan(p)
         /\ next \in [Procs -> Nat] /\ pc \in [Procs -> Steps] /\ next[p] \in Nat /\ outcome \in [Procs -> Outcomes]
         /\ DOMAIN plan[p] = 1..Len(plan[p]) /\ Len(plan[p]) \in Nat \ {0}
<1>1. plan[p] \in Seq(Move) /\ plan[p] # <<>> /\ OnPlan(p)
  BY DEF LoneInv, OnPlan, SoundPlan
<1>2. Len(plan[p]) \in Nat \ {0} /\ DOMAIN plan[p] = 1..Len(plan[p])
  BY <1>1
<1> QED BY <1>1, <1>2 DEF LoneInv, BundleInv, TypeOK, NoFileOverwritten, Unique

(* A move the caller is about to make goes through, and brings it to the   *)
(* next.                                                                   *)
LEMMA NextMove ==
  ASSUME LoneInv, NEW p \in Procs, pc[p] \in Forward \ {"recheck"}
  PROVE  /\ next[p] \in Nat \ {0} /\ next[p] \in DOMAIN plan[p]
         /\ Occupied(disk, Current(p).src) /\ (~Occupied(disk, Current(p).dst) \/ req[p].op = "delete")
         /\ Moved(before[p], plan[p], next[p], Renamed(Current(p).src, Current(p).dst))
         /\ (req[p].op = "delete" <=> Current(p).dst = Trashed)
<1>1. pc[p] \in Active /\ pc[p] \in Moving
  BY DEF Active, Forward, Moving, LoneInv, BundleInv, IndexOK
<1>2. OnPlan(p) /\ Done(p) = next[p] - 1
  BY <1>1, LoneFacts DEF Done
<1> DEFINE n == next[p] - 1
<1>3. n \in Nat /\ next[p] = n + 1 /\ next[p] \in Nat \ {0} /\ n + 1 \in DOMAIN plan[p]
  <2>1. next[p] \in 1..Len(plan[p]) /\ next[p] \in Nat
    BY <1>1, LoneFacts DEF LoneInv, BundleInv, IndexOK
  <2> QED BY <1>1, <2>1, LoneFacts
<1>4. Moved(before[p], plan[p], n, disk) /\ SoundPlan(before[p], plan[p]) /\ Unique(before[p])
  BY <1>2 DEF OnPlan
<1> HIDE DEF n
<1>5. LET m == plan[p][n + 1]
      IN /\ Occupied(disk, m.src) /\ (~Occupied(disk, m.dst) \/ m.dst = Trashed)
         /\ Moved(before[p], plan[p], n + 1, Renamed(m.src, m.dst))
  BY <1>1, <1>3, <1>4, LoneFacts, MoveOn
<1>6. Current(p) = plan[p][n + 1]
  BY <1>3 DEF Current
<1>7. req[p].op = "delete" <=> Current(p).dst = Trashed
  <2>1. req[p].op = "delete" <=> \A i \in DOMAIN plan[p] : plan[p][i].dst = Trashed
    BY <1>2 DEF OnPlan, Intent
  <2>2. \/ \A i \in DOMAIN plan[p] : plan[p][i].dst = Trashed
        \/ \A i \in DOMAIN plan[p] : plan[p][i].dst \in Path
    BY <1>4 DEF SoundPlan
  <2>3. Trashed \notin Path
    BY OffDiskAssumption DEF OffDisk
  <2> QED BY <1>3, <1>6, <2>1, <2>2, <2>3
<1> QED BY <1>3, <1>5, <1>6, <1>7

(* The same for a move it is about to undo. *)
LEMMA LastMove ==
  ASSUME LoneInv, NEW p \in Procs, pc[p] \in Back
  PROVE  /\ next[p] \in Nat \ {0} /\ next[p] < Len(plan[p])
         /\ Occupied(disk, Current(p).dst) /\ ~Occupied(disk, Current(p).src)
         /\ Moved(before[p], plan[p], next[p] - 1, Renamed(Current(p).dst, Current(p).src))
<1>1. pc[p] \in Active /\ pc[p] \in Moving /\ pc[p] \notin Forward
  BY DEF Active, Forward, Back, Moving
<1>2. OnPlan(p) /\ Done(p) = next[p]
  BY <1>1, LoneFacts DEF Done
<1>3. next[p] \in DOMAIN plan[p] /\ next[p] \in Nat \ {0} /\ next[p] < Len(plan[p])
  <2>1. next[p] \in 1..Len(plan[p]) /\ next[p] \in Nat
    BY <1>1, LoneFacts DEF LoneInv, BundleInv, IndexOK
  <2> QED BY <1>1, <1>2, <2>1, LoneFacts DEF OnPlan
<1>4. Moved(before[p], plan[p], next[p], disk) /\ SoundPlan(before[p], plan[p]) /\ Unique(before[p])
  BY <1>2 DEF OnPlan
<1>5. plan[p][next[p]].dst # Trashed
  <2>1. ~ \A i \in DOMAIN plan[p] : plan[p][i].dst = Trashed
    BY <1>2 DEF OnPlan, Intent
  <2>2. \A i \in DOMAIN plan[p] : plan[p][i].dst \in Path
    BY <1>4, <2>1 DEF SoundPlan
  <2>3. Trashed \notin Path
    BY OffDiskAssumption DEF OffDisk
  <2> QED BY <1>3, <2>2, <2>3
<1>6. LET m == plan[p][next[p]]
      IN /\ Occupied(disk, m.dst) /\ ~Occupied(disk, m.src)
         /\ Moved(before[p], plan[p], next[p] - 1, Renamed(m.dst, m.src))
  BY <1>1, <1>3, <1>4, <1>5, LoneFacts, MoveBack
<1> QED BY <1>3, <1>6 DEF Current

(* After the last move the inspections find what they look for. *)
LEMMA AllMoved ==
  ASSUME LoneInv, NEW p \in Procs, pc[p] \in Settled
  PROVE  /\ \A i \in DOMAIN plan[p] : /\ ~Occupied(disk, plan[p][i].src)
                                      /\ req[p].op # "delete" => Occupied(disk, plan[p][i].dst)
         /\ 1 \in DOMAIN plan[p]
<1>1. pc[p] \in Active /\ pc[p] \notin Forward \cup Back
  BY DEF Active, Forward, Back, Settled
<1>2. OnPlan(p) /\ Done(p) = Len(plan[p]) /\ DOMAIN plan[p] = 1..Len(plan[p]) /\ Len(plan[p]) \in Nat \ {0}
  BY <1>1, LoneFacts DEF Done
<1>3. /\ Moved(before[p], plan[p], Len(plan[p]), disk) /\ SoundPlan(before[p], plan[p])
      /\ Intent(req[p], before[p], plan[p])
  BY <1>2 DEF OnPlan
<1>4. Trashed \notin Path
  BY OffDiskAssumption DEF OffDisk
<1>5. ASSUME NEW i \in DOMAIN plan[p]
      PROVE  /\ ~Occupied(disk, plan[p][i].src)
             /\ req[p].op # "delete" => Occupied(disk, plan[p][i].dst)
  <2>1. plan[p][i] \in Move
    BY <1>2, <1>3 DEF SoundPlan
  <2>2. plan[p][i].src \in Path /\ Occupied(before[p], plan[p][i].src)
    BY <1>3, <2>1 DEF SoundPlan, Move
  <2>3. PICK g \in Files : before[p][g] = plan[p][i].src
    BY <2>2 DEF Occupied
  <2>4. disk[g] = plan[p][i].dst
    BY <1>2, <1>3, <2>3 DEF Moved
  <2>5. ASSUME NEW f \in Files, disk[f] = plan[p][i].src PROVE FALSE
    <3>1. CASE \E j \in DOMAIN plan[p] : before[p][f] = plan[p][j].src
      <4>1. PICK j \in DOMAIN plan[p] : before[p][f] = plan[p][j].src
        BY <3>1
      <4>2. disk[f] = plan[p][j].dst
        BY <1>2, <1>3, <4>1 DEF Moved
      <4>3. plan[p][j].dst = Trashed \/ ~Occupied(before[p], plan[p][j].dst)
        BY <1>3 DEF SoundPlan
      <4> QED BY <1>4, <2>2, <2>5, <4>2, <4>3
    <3>2. CASE \A j \in DOMAIN plan[p] : before[p][f] # plan[p][j].src
      <4>1. disk[f] = before[p][f]
        BY <1>2, <1>3, <3>2 DEF Moved
      <4> QED BY <2>5, <3>2, <4>1
    <3> QED BY <3>1, <3>2
  <2> QED BY <2>4, <2>5 DEF Occupied
<1> QED BY <1>2, <1>5

(* A step of the caller on its plan. *)
LEMMA Stay ==
  ASSUME Alone, LoneInv, NEW p \in Procs, BundleInv', NoFileOverwritten',
         \A f \in Files : disk'[f] # Unborn, UNCHANGED <<plan, before, req>>,
         pc'[p] \in Active =>
           /\ pc[p] \in Active /\ Moved(before[p], plan[p], Done(p)', disk')
           /\ pc'[p] \in {"recheck", "trash"} => req[p].op = "delete"
           /\ pc'[p] \in {"check", "move", "rename"} \cup Back => req[p].op # "delete"
           /\ pc'[p] \in Back => next'[p] < Len(plan[p])
  PROVE  LoneInv'
<1>1. \A q \in Procs : q = p
  BY DEF Alone
<1>2. pc'[p] \in Active => OnPlan(p)'
  <2> SUFFICES ASSUME pc'[p] \in Active PROVE OnPlan(p)'
    OBVIOUS
  <2>1. OnPlan(p)
    BY DEF LoneInv
  <2>2. Unique(before'[p]) /\ SoundPlan(before'[p], plan'[p]) /\ Intent(req'[p], before'[p], plan'[p])
    BY <2>1 DEF OnPlan
  <2>3. Moved(before'[p], plan'[p], Done(p)', disk')
    OBVIOUS
  <2> QED BY <2>2, <2>3 DEF OnPlan
<1> QED BY <1>1, <1>2 DEF LoneInv

(* A rename the caller makes keeps what is said of the disk. *)
LEMMA LoneRename ==
  ASSUME LoneInv, NEW src, NEW dst \in Path \cup {Trashed},
         Occupied(disk, src), ~Occupied(disk, dst) \/ dst = Trashed, disk' = Renamed(src, dst)
  PROVE  NoFileOverwritten' /\ \A f \in Files : disk'[f] # Unborn
<1>1. NoFileOverwritten'
  BY RenamedSafe DEF LoneInv, BundleInv, TypeOK
<1>2. Unborn \notin Path \cup {Trashed, Overwritten}
  BY OffDiskAssumption DEF OffDisk
<1>3. \A f \in Files : disk[f] # Unborn
  BY DEF LoneInv
<1> QED BY <1>1, <1>2, <1>3 DEF Renamed

LEMMA CurrentPlaces ==
  ASSUME LoneInv, NEW p \in Procs, pc[p] \in Moving
  PROVE  Current(p).src \in Path \cup {Trashed} /\ Current(p).dst \in Path \cup {Trashed}
BY CurrentMove DEF LoneInv, Move

LEMMA StepLone ==
  ASSUME Alone, LoneInv, [Next]_vars
  PROVE  LoneInv'
<1>1. BundleInv'
  BY InvNext DEF LoneInv
<1>2. NoFileOverwritten /\ BundleInv
  BY DEF LoneInv
<1>3. UNCHANGED disk => NoFileOverwritten' /\ \A f \in Files : disk'[f] # Unborn
  BY DEF LoneInv, NoFileOverwritten
<1>4. pc \in [Procs -> Steps] /\ next \in [Procs -> Nat]
  BY <1>2 DEF BundleInv, TypeOK
<1>5. \A p \in Procs : pc[p] \in Active =>
        /\ Moved(before[p], plan[p], Done(p), disk)
        /\ pc[p] \in {"recheck", "trash"} => req[p].op = "delete"
        /\ pc[p] \in {"check", "move", "rename"} \cup Back => req[p].op # "delete"
        /\ pc[p] \in Back => next[p] < Len(plan[p])
  BY DEF LoneInv, OnPlan
<1>6. "idle" \notin Active /\ "gate" \notin Active /\ "plan" \notin Active
  BY DEF Active, Forward, Back, Settled
<1>7. CASE UNCHANGED <<disk, pc, req, plan, before, next>>
  <2>1. \A p \in Procs : Done(p)' = Done(p)
    BY <1>7 DEF Done
  <2>2. \A p \in Procs : OnPlan(p)' = OnPlan(p)
    BY <1>7, <2>1 DEF OnPlan
  <2> QED BY <1>1, <1>3, <1>7, <2>2 DEF LoneInv
<1>8. ASSUME NEW p \in Procs, UNCHANGED <<disk, plan, before, req>>, pc'[p] \notin Active
      PROVE  LoneInv'
  BY <1>1, <1>3, <1>8, Stay
<1>9. ASSUME NEW p \in Procs, NEW r \in Requests, Start(p, r) PROVE LoneInv'
  <2>1. pc'[p] \notin Active /\ UNCHANGED disk
    BY <1>4, <1>6, <1>9 DEF Start, Goto
  <2>2. \A q \in Procs : q = p
    BY DEF Alone
  <2> QED BY <1>1, <1>3, <2>1, <2>2 DEF LoneInv
<1>10. ASSUME NEW p \in Procs, Gate(p) PROVE LoneInv'
  <2>1. pc'[p] \notin Active /\ UNCHANGED <<disk, plan, before, req>>
    BY <1>4, <1>6, <1>10 DEF Gate, Goto, Finish
  <2> QED BY <1>8, <2>1
<1>11. ASSUME NEW p \in Procs, ScanAndPlan(p) PROVE LoneInv'
  <2>1. CASE Plannable(req[p])
    <3> DEFINE moves == PlannedMoves(req[p])
    <3>1. req[p] \in Request /\ (req[p].op # "relocate" => req[p].to = req[p].entry)
      BY <1>2, BundleAssumption DEF BundleInv, TypeOK
    <3>2. disk \in Disk /\ Unique(disk)
      BY <1>2 DEF BundleInv, TypeOK, NoFileOverwritten, Unique
    <3>3. SoundPlan(disk, moves) /\ Intent(req[p], disk, moves)
      BY <2>1, <3>1, <3>2, GoodPlan
    <3>4. /\ plan' = [plan EXCEPT ![p] = moves] /\ before' = [before EXCEPT ![p] = disk]
          /\ pc'[p] = (IF req[p].op = "delete" THEN "recheck" ELSE "check")
          /\ UNCHANGED <<disk, req, next>> /\ next[p] = 1
      BY <1>2, <1>4, <1>11, <2>1 DEF ScanAndPlan, Goto, BundleInv, IndexOK
    <3> HIDE DEF moves
    <3>5. plan'[p] = moves /\ before'[p] = disk
      BY <1>2, <3>4 DEF BundleInv, TypeOK
    <3>6. Done(p)' = 0
      BY <3>4 DEF Done, Forward
    <3>7. Moved(disk, moves, 0, disk)
      <4>1. \A i \in 1..0 : FALSE
        OBVIOUS
      <4> QED BY <4>1 DEF Moved
    <3>8. OnPlan(p)'
      <4>1. Unique(before'[p]) /\ SoundPlan(before'[p], plan'[p]) /\ Intent(req'[p], before'[p], plan'[p])
        BY <3>2, <3>3, <3>4, <3>5
      <4>2. Moved(before'[p], plan'[p], Done(p)', disk')
        BY <3>4, <3>5, <3>6, <3>7
      <4> QED BY <3>4, <4>1, <4>2 DEF OnPlan, Back
    <3>9. \A q \in Procs : q = p
      BY DEF Alone
    <3> QED BY <1>1, <1>3, <3>4, <3>8, <3>9 DEF LoneInv
  <2>2. CASE ~Plannable(req[p])
    <3>1. pc'[p] \notin Active /\ UNCHANGED <<disk, plan, before, req>>
      BY <1>4, <1>6, <1>11, <2>2 DEF ScanAndPlan, Goto, Finish
    <3> QED BY <1>8, <3>1
  <2> QED BY <2>1, <2>2
<1>12. ASSUME NEW p \in Procs, NEW step \in Steps, Goto(p, step),
              UNCHANGED <<disk, plan, before, req, next>>, pc[p] \in Forward \cup Back,
              \/ pc[p] \in {"check", "move"} /\ step \in {"move", "rename"}
              \/ pc[p] = "undo" /\ step = "unrename"
              \/ pc[p] = "recheck" /\ step = "trash"
       PROVE  LoneInv'
  <2>1. pc'[p] = step /\ pc[p] \in Active
    BY <1>4, <1>12 DEF Goto, Active
  <2>2. Done(p)' = Done(p)
    BY <1>12, <2>1 DEF Done, Forward, Back
  <2>3. Moved(before[p], plan[p], Done(p)', disk')
    BY <1>5, <1>12, <2>1, <2>2
  <2> QED BY <1>1, <1>3, <1>5, <1>12, <2>1, <2>3, Stay DEF Back
<1>13. ASSUME NEW p \in Procs, NEW result, Finish(p, result), UNCHANGED <<disk, plan, before, req>>
       PROVE  LoneInv'
  <2>1. pc'[p] \notin Active
    BY <1>4, <1>6, <1>13 DEF Finish, Goto
  <2> QED BY <1>8, <1>13, <2>1
<1>14. ASSUME NEW p \in Procs, Check(p) PROVE LoneInv'
  BY <1>12, <1>13, <1>14 DEF Check, Ongoing, Forward, Steps
<1>15. ASSUME NEW p \in Procs, pc[p] \in Forward \ {"recheck"},
              disk' = Renamed(Current(p).src, Current(p).dst),
              next' = [next EXCEPT ![p] = @ + 1], UNCHANGED <<plan, before, req>>,
              \/ next[p] = Len(plan[p]) /\ Goto(p, "verify")
              \/ next[p] # Len(plan[p]) /\ Goto(p, IF req[p].op = "delete" THEN "trash" ELSE "check")
       PROVE  LoneInv'
  <2>1. /\ next[p] \in Nat \ {0}
        /\ Occupied(disk, Current(p).src) /\ (~Occupied(disk, Current(p).dst) \/ Current(p).dst = Trashed)
        /\ Moved(before[p], plan[p], next[p], disk')
    BY <1>15, NextMove
  <2>2. pc[p] \in Active /\ pc[p] \in Moving
    BY <1>15 DEF Active, Forward, Moving
  <2>3. NoFileOverwritten' /\ \A f \in Files : disk'[f] # Unborn
    BY <1>15, <2>1, <2>2, CurrentPlaces, LoneRename
  <2>4. next'[p] = next[p] + 1
    BY <1>4, <1>15
  <2>5. CASE next[p] = Len(plan[p]) /\ Goto(p, "verify")
    <3>1. pc'[p] = "verify"
      BY <1>4, <2>5 DEF Goto
    <3>2. Done(p)' = next[p]
      BY <1>15, <2>5, <3>1 DEF Done, Forward, Back
    <3> QED BY <1>1, <1>15, <2>1, <2>2, <2>3, <3>1, <3>2, Stay DEF Back
  <2>6. CASE Goto(p, IF req[p].op = "delete" THEN "trash" ELSE "check")
    <3>1. pc'[p] = IF req[p].op = "delete" THEN "trash" ELSE "check"
      BY <1>4, <2>6 DEF Goto
    <3>2. pc'[p] \in Forward
      BY <3>1 DEF Forward
    <3>3. Done(p)' = next[p]
      BY <2>1, <2>4, <3>2 DEF Done
    <3> QED BY <1>1, <1>15, <2>1, <2>2, <2>3, <3>1, <3>3, Stay DEF Back
  <2> QED BY <1>15, <2>5, <2>6
<1>16. ASSUME NEW p \in Procs, pc[p] \in {"move", "rename"}, MoveFailed(p), UNCHANGED <<disk, plan, before, req>>
       PROVE  LoneInv'
  <2>1. pc[p] \in Active /\ pc[p] \in Forward \ {"recheck"} /\ Done(p) = next[p] - 1
    BY <1>16 DEF Active, Forward, Done
  <2>2. next[p] \in Nat \ {0} /\ Len(plan[p]) \in Nat /\ next[p] <= Len(plan[p])
    BY <2>1, NextMove, LoneFacts
  <2>3. CASE next[p] = 1
    BY <1>13, <1>16, <2>3 DEF MoveFailed
  <2>4. CASE next[p] # 1
    <3>1. pc'[p] = "undo" /\ next'[p] = next[p] - 1
      BY <1>4, <1>16, <2>4 DEF MoveFailed, Goto
    <3>2. Done(p)' = next[p] - 1
      BY <3>1 DEF Done, Forward, Back
    <3>3. Moved(before[p], plan[p], Done(p)', disk')
      BY <1>5, <1>16, <2>1, <3>2
    <3>4. next'[p] < Len(plan[p])
      BY <2>2, <3>1
    <3> QED BY <1>1, <1>3, <1>5, <1>16, <2>1, <3>1, <3>3, <3>4, Stay
  <2> QED BY <2>3, <2>4
<1>17. ASSUME NEW p \in Procs, pc[p] \in Back, disk' = Renamed(Current(p).dst, Current(p).src),
              UndoDone(p), UNCHANGED <<plan, before, req>>
       PROVE  LoneInv'
  <2>1. /\ next[p] \in Nat \ {0} /\ next[p] < Len(plan[p])
        /\ Occupied(disk, Current(p).dst) /\ ~Occupied(disk, Current(p).src)
        /\ Moved(before[p], plan[p], next[p] - 1, disk')
    BY <1>17, LastMove
  <2>2. pc[p] \in Active /\ pc[p] \in Moving
    BY <1>17 DEF Active, Back, Moving
  <2>3. NoFileOverwritten' /\ \A f \in Files : disk'[f] # Unborn
    BY <1>17, <2>1, <2>2, CurrentPlaces, LoneRename
  <2>4. CASE next[p] = 1
    <3>1. pc'[p] \notin Active
      BY <1>4, <1>6, <1>17, <2>4 DEF UndoDone, Finish, Goto
    <3> QED BY <1>1, <1>17, <2>3, <3>1, Stay
  <2>5. CASE next[p] # 1
    <3>1. pc'[p] = "undo" /\ next'[p] = next[p] - 1
      BY <1>4, <1>17, <2>5 DEF UndoDone, Goto
    <3>2. Done(p)' = next[p] - 1
      BY <3>1 DEF Done, Forward, Back
    <3>3. next'[p] < Len(plan[p])
      <4>1. next[p] \in Nat /\ Len(plan[p]) \in Nat /\ next[p] < Len(plan[p]) /\ next'[p] = next[p] - 1
        BY <2>1, <2>2, <3>1, LoneFacts
      <4> QED BY <4>1
    <3> QED BY <1>1, <1>5, <1>17, <2>1, <2>2, <2>3, <3>1, <3>2, <3>3, Stay
  <2> QED BY <2>4, <2>5
<1>18. ASSUME NEW p \in Procs, TryMove(p) PROVE LoneInv'
  <2>1. pc[p] = "move" /\ UNCHANGED <<req, plan, before>> /\ req[p].op # "delete"
    BY <1>5, <1>18 DEF TryMove, Active, Forward
  <2>2. CASE disk' = Renamed(Current(p).src, Current(p).dst) /\ MoveDone(p)
    BY <1>15, <2>1, <2>2 DEF MoveDone, Forward
  <2>3. CASE Goto(p, "rename") /\ UNCHANGED <<disk, next>>
    BY <1>12, <2>1, <2>3 DEF Forward, Steps
  <2>4. CASE MoveFailed(p) /\ UNCHANGED disk
    BY <1>16, <2>1, <2>4
  <2> QED BY <1>18, <2>2, <2>3, <2>4 DEF TryMove
<1>19. ASSUME NEW p \in Procs, Rename(p) PROVE LoneInv'
  <2>1. pc[p] = "rename" /\ UNCHANGED <<req, plan, before>> /\ req[p].op # "delete"
    BY <1>5, <1>19 DEF Rename, Active, Forward
  <2>2. CASE disk' = Renamed(Current(p).src, Current(p).dst) /\ MoveDone(p)
    BY <1>15, <2>1, <2>2 DEF MoveDone, Forward
  <2>3. CASE MoveFailed(p) /\ UNCHANGED disk
    BY <1>16, <2>1, <2>3
  <2> QED BY <1>19, <2>2, <2>3 DEF Rename
<1>20. ASSUME NEW p \in Procs, TryUndo(p) PROVE LoneInv'
  <2>1. pc[p] = "undo" /\ UNCHANGED <<req, plan, before>>
    BY <1>20 DEF TryUndo
  <2>2. CASE disk' = Renamed(Current(p).dst, Current(p).src) /\ UndoDone(p)
    BY <1>17, <2>1, <2>2 DEF Back
  <2>3. CASE Goto(p, "unrename") /\ UNCHANGED <<disk, next>>
    BY <1>12, <2>1, <2>3 DEF Back, Steps
  <2>4. CASE Finish(p, "stuck") /\ UNCHANGED disk
    BY <1>13, <2>1, <2>4
  <2> QED BY <1>20, <2>2, <2>3, <2>4 DEF TryUndo
<1>21. ASSUME NEW p \in Procs, Unrename(p) PROVE LoneInv'
  <2>1. pc[p] = "unrename" /\ UNCHANGED <<req, plan, before>>
    BY <1>21 DEF Unrename
  <2>2. CASE disk' = Renamed(Current(p).dst, Current(p).src) /\ UndoDone(p)
    BY <1>17, <2>1, <2>2 DEF Back
  <2>3. CASE Finish(p, "stuck") /\ UNCHANGED disk
    BY <1>13, <2>1, <2>3
  <2> QED BY <1>21, <2>2, <2>3 DEF Unrename
<1>22. ASSUME NEW p \in Procs, Recheck(p) PROVE LoneInv'
  BY <1>12, <1>13, <1>22 DEF Recheck, Ongoing, Forward, Steps
<1>23. ASSUME NEW p \in Procs, Trash(p) PROVE LoneInv'
  <2>1. pc[p] = "trash" /\ UNCHANGED <<req, plan, before>> /\ req[p].op = "delete"
    BY <1>5, <1>23 DEF Trash, Active, Forward
  <2>2. CASE /\ disk' = Renamed(Current(p).src, Trashed)
             /\ next' = [next EXCEPT ![p] = @ + 1]
             /\ Goto(p, IF next[p] = Len(plan[p]) THEN "verify" ELSE "trash")
    <3>1. Current(p).dst = Trashed
      BY <2>1, NextMove DEF Forward
    <3> QED BY <1>15, <2>1, <2>2, <3>1 DEF Forward
  <2>3. CASE Finish(p, "stuck") /\ UNCHANGED disk
    BY <1>13, <2>1, <2>3
  <2> QED BY <1>23, <2>2, <2>3 DEF Trash
<1>24. ASSUME NEW p \in Procs, Verify(p) PROVE LoneInv'
  <2>1. pc[p] = "verify" /\ UNCHANGED <<disk, req, plan, before, next>>
    BY <1>24 DEF Verify
  <2>2. CASE Goto(p, "rescan")
    <3>1. pc'[p] = "rescan" /\ pc[p] \in Active
      BY <1>4, <2>1, <2>2 DEF Goto, Active, Settled
    <3>2. Done(p)' = Done(p)
      BY <2>1, <3>1 DEF Done, Forward, Back
    <3>3. Moved(before[p], plan[p], Done(p)', disk')
      BY <1>5, <2>1, <3>1, <3>2
    <3> QED BY <1>1, <1>3, <2>1, <3>1, <3>3, Stay DEF Back
  <2>3. CASE Finish(p, "ok") \/ Finish(p, "unverified")
    BY <1>13, <2>1, <2>3
  <2> QED BY <1>24, <2>2, <2>3 DEF Verify
<1>25. ASSUME NEW p \in Procs, Rescan(p) PROVE LoneInv'
  BY <1>13, <1>25 DEF Rescan
<1>26. ASSUME NEW f \in Files PROVE ~ExternalRemove(f) /\ ~ \E path \in Path : ExternalCreate(f, path)
  <2>1. ~ExternalRemove(f)
    BY <1>2 DEF Alone, ExternalRemove, BundleInv, TypeOK
  <2>2. disk[f] # Unborn
    BY DEF LoneInv
  <2> QED BY <2>1, <2>2 DEF ExternalCreate
<1>27. CASE GameToggles \/ UNCHANGED vars
  BY <1>7, <1>27 DEF GameToggles, vars
<1> QED BY <1>9, <1>10, <1>11, <1>14, <1>18, <1>19, <1>20, <1>21, <1>22, <1>23, <1>24, <1>25, <1>26, <1>27
        DEF Next, Step

-----------------------------------------------------------------------------
(* What a step of the only caller amounts to.                              *)
Working == Forward \cup Back
Quiet == UNCHANGED <<disk, plan, before, req, outcome>>
Ended(p, result) == pc'[p] = "idle" /\ outcome'[p] = result /\ UNCHANGED <<plan, before, req>>

Starts(p) == pc[p] = "idle" /\ pc'[p] = "gate" /\ outcome'[p] = "none" /\ UNCHANGED disk
Passes(p) == pc[p] = "gate" /\ pc'[p] = "plan" /\ Quiet
Plans(p) == pc[p] = "plan" /\ pc'[p] \in Forward /\ before'[p] = disk /\ UNCHANGED <<disk, outcome>>
Refuses(p) == pc[p] \in {"gate", "plan"} /\ Ended(p, "rejected") /\ UNCHANGED disk
Works(p) == pc[p] \in Working /\ pc'[p] \in Working /\ UNCHANGED <<plan, before, req, outcome>>
Completes(p) ==
  /\ pc[p] \in Working /\ pc'[p] = "verify" /\ UNCHANGED <<plan, before, req, outcome>>
  /\ Moved(before[p], plan[p], Len(plan[p]), disk')
Restores(p) == pc[p] \in Working /\ Ended(p, "undone") /\ Moved(before[p], plan[p], 0, disk')
GivesUp(p) == pc[p] \in Back \cup {"trash"} /\ Ended(p, "stuck") /\ UNCHANGED disk
Confirms(p) ==
  /\ pc[p] \in Settled /\ UNCHANGED disk
  /\ \/ pc'[p] = "rescan" /\ Quiet
     \/ Ended(p, "ok")

Effect(p) ==
  \/ Starts(p) \/ Passes(p) \/ Plans(p) \/ Refuses(p) \/ Works(p)
  \/ Completes(p) \/ Restores(p) \/ GivesUp(p) \/ Confirms(p)
  \/ UNCHANGED <<disk, pc, req, plan, before, outcome>>

LEMMA EffectDone ==
  ASSUME LoneInv, NEW p \in Procs, pc[p] \in Forward \ {"recheck"},
         disk' = Renamed(Current(p).src, Current(p).dst), UNCHANGED <<plan, before, req, outcome>>,
         \/ next[p] = Len(plan[p]) /\ Goto(p, "verify")
         \/ Goto(p, "check") \/ Goto(p, "trash")
  PROVE  Effect(p)
<1>1. pc \in [Procs -> Steps]
  BY DEF LoneInv, BundleInv, TypeOK
<1>2. CASE Goto(p, "check") \/ Goto(p, "trash")
  BY <1>1, <1>2 DEF Goto, Effect, Works, Working, Forward
<1>3. CASE next[p] = Len(plan[p]) /\ Goto(p, "verify")
  <2>1. Moved(before[p], plan[p], Len(plan[p]), disk')
    BY <1>3, NextMove
  <2> QED BY <1>1, <1>3, <2>1 DEF Goto, Effect, Completes, Working
<1> QED BY <1>2, <1>3

(* A move or an undo at the first index that ends the call has put         *)
(* everything back.                                                        *)
LEMMA EffectFailed ==
  ASSUME LoneInv, NEW p \in Procs, pc[p] \in {"move", "rename"}, MoveFailed(p),
         UNCHANGED <<disk, plan, before, req>>
  PROVE  Effect(p)
<1>1. pc \in [Procs -> Steps] /\ outcome \in [Procs -> Outcomes] /\ next[p] \in Nat
  BY DEF LoneInv, BundleInv, TypeOK
<1>2. pc[p] \in Working /\ pc[p] \in Active /\ Done(p) = next[p] - 1
  BY DEF Working, Forward, Active, Done
<1>3. CASE next[p] = 1
  <2>1. Ended(p, "undone")
    BY <1>1, <1>3 DEF MoveFailed, Finish, Goto, Ended
  <2>2. Moved(before[p], plan[p], 0, disk')
    BY <1>2, <1>3, LoneFacts DEF OnPlan
  <2> QED BY <1>2, <2>1, <2>2 DEF Effect, Restores
<1>4. CASE next[p] # 1
  <2>1. pc'[p] = "undo" /\ UNCHANGED outcome
    BY <1>1, <1>4 DEF MoveFailed, Goto, Ongoing
  <2> QED BY <1>2, <2>1 DEF Effect, Works, Working, Back
<1> QED BY <1>3, <1>4

LEMMA EffectUndone ==
  ASSUME LoneInv, NEW p \in Procs, pc[p] \in Back, UndoDone(p),
         disk' = Renamed(Current(p).dst, Current(p).src), UNCHANGED <<plan, before, req>>
  PROVE  Effect(p)
<1>1. pc \in [Procs -> Steps] /\ outcome \in [Procs -> Outcomes]
  BY DEF LoneInv, BundleInv, TypeOK
<1>2. Moved(before[p], plan[p], next[p] - 1, disk')
  BY LastMove
<1>3. CASE next[p] = 1
  <2>1. Ended(p, "undone")
    BY <1>1, <1>3 DEF UndoDone, Finish, Goto, Ended
  <2> QED BY <1>2, <1>3, <2>1 DEF Effect, Restores, Working
<1>4. CASE next[p] # 1
  <2>1. pc'[p] = "undo" /\ UNCHANGED outcome
    BY <1>1, <1>4 DEF UndoDone, Goto, Ongoing
  <2> QED BY <2>1 DEF Effect, Works, Working, Back
<1> QED BY <1>3, <1>4

LEMMA StepEffect ==
  ASSUME Alone, LoneInv, NEW p \in Procs, [Next]_vars
  PROVE  Effect(p)
<1>1. pc \in [Procs -> Steps] /\ outcome \in [Procs -> Outcomes] /\ before \in [Procs -> Disk]
  BY DEF LoneInv, BundleInv, TypeOK
<1>2. \A q \in Procs : q = p
  BY DEF Alone
<1>3. ASSUME NEW r \in Requests, Start(p, r) PROVE Effect(p)
  BY <1>1, <1>3 DEF Start, Goto, Effect, Starts
<1>4. ASSUME Gate(p) PROVE Effect(p)
  BY <1>1, <1>4 DEF Gate, Goto, Finish, Ongoing, Effect, Passes, Refuses, Ended, Quiet
<1>5. ASSUME ScanAndPlan(p) PROVE Effect(p)
  <2>1. CASE Plannable(req[p])
    BY <1>1, <1>5, <2>1 DEF ScanAndPlan, Goto, Ongoing, Effect, Plans, Forward
  <2>2. CASE ~Plannable(req[p])
    BY <1>1, <1>5, <2>2 DEF ScanAndPlan, Goto, Finish, Effect, Refuses, Ended
  <2> QED BY <2>1, <2>2
<1>6. ASSUME Check(p) PROVE Effect(p)
  <2>1. pc[p] \in Forward \ {"recheck"} /\ pc[p] \in Active /\ req[p].op # "delete"
    <3>1. pc[p] = "check" /\ pc[p] \in Active
      BY <1>6 DEF Check, Active, Forward
    <3> QED BY <3>1, LoneFacts DEF OnPlan, Forward
  <2>2. Occupied(disk, Current(p).src) /\ ~Occupied(disk, Current(p).dst)
    BY <2>1, NextMove
  <2> QED BY <1>1, <1>6, <2>1, <2>2 DEF Check, Goto, Ongoing, Effect, Works, Working, Forward
<1>7. ASSUME TryMove(p) PROVE Effect(p)
  <2>1. pc[p] = "move" /\ UNCHANGED <<req, plan, before>>
    BY <1>7 DEF TryMove
  <2>2. CASE disk' = Renamed(Current(p).src, Current(p).dst) /\ MoveDone(p)
    BY <2>1, <2>2, EffectDone DEF MoveDone, Ongoing, Forward
  <2>3. CASE Goto(p, "rename") /\ Ongoing
    BY <1>1, <2>1, <2>3 DEF Goto, Ongoing, Effect, Works, Working, Forward
  <2>4. CASE MoveFailed(p) /\ UNCHANGED disk
    BY <2>1, <2>4, EffectFailed
  <2> QED BY <1>7, <2>2, <2>3, <2>4 DEF TryMove
<1>8. ASSUME Rename(p) PROVE Effect(p)
  <2>1. pc[p] = "rename" /\ UNCHANGED <<req, plan, before>>
    BY <1>8 DEF Rename
  <2>2. CASE disk' = Renamed(Current(p).src, Current(p).dst) /\ MoveDone(p)
    BY <2>1, <2>2, EffectDone DEF MoveDone, Ongoing, Forward
  <2>3. CASE MoveFailed(p) /\ UNCHANGED disk
    BY <2>1, <2>3, EffectFailed
  <2> QED BY <1>8, <2>2, <2>3 DEF Rename
<1>9. ASSUME pc[p] \in Back \cup {"trash"}, Finish(p, "stuck"), UNCHANGED <<disk, plan, before, req>>
      PROVE  Effect(p)
  BY <1>1, <1>9 DEF Finish, Goto, Effect, GivesUp, Ended
<1>10. ASSUME TryUndo(p) PROVE Effect(p)
  <2>1. pc[p] = "undo" /\ UNCHANGED <<req, plan, before>> /\ pc[p] \in Back
    BY <1>10 DEF TryUndo, Back
  <2>2. CASE disk' = Renamed(Current(p).dst, Current(p).src) /\ UndoDone(p)
    BY <2>1, <2>2, EffectUndone
  <2>3. CASE Goto(p, "unrename") /\ Ongoing
    BY <1>1, <2>1, <2>3 DEF Goto, Ongoing, Effect, Works, Working, Back
  <2>4. CASE Finish(p, "stuck") /\ UNCHANGED disk
    BY <1>9, <2>1, <2>4
  <2> QED BY <1>10, <2>2, <2>3, <2>4 DEF TryUndo
<1>11. ASSUME Unrename(p) PROVE Effect(p)
  <2>1. pc[p] = "unrename" /\ UNCHANGED <<req, plan, before>> /\ pc[p] \in Back
    BY <1>11 DEF Unrename, Back
  <2>2. CASE disk' = Renamed(Current(p).dst, Current(p).src) /\ UndoDone(p)
    BY <2>1, <2>2, EffectUndone
  <2>3. CASE Finish(p, "stuck") /\ UNCHANGED disk
    BY <1>9, <2>1, <2>3
  <2> QED BY <1>11, <2>2, <2>3 DEF Unrename
<1>12. ASSUME Recheck(p) PROVE Effect(p)
  <2>1. pc[p] = "recheck" /\ pc[p] \in Active /\ next[p] = 1
    BY <1>12 DEF Recheck, Active, Forward, LoneInv, BundleInv, IndexOK
  <2>2. OnPlan(p) /\ Moved(before[p], plan[p], 0, disk)
    BY <2>1, LoneFacts DEF OnPlan, Done, Forward
  <2>3. \A f \in Files : disk[f] = before[p][f]
    <3>1. \A i \in 1..0 : FALSE
      OBVIOUS
    <3> QED BY <2>2, <3>1 DEF Moved
  <2>4. \A i \in DOMAIN plan[p] : Occupied(disk, plan[p][i].src)
    BY <2>2, <2>3 DEF OnPlan, SoundPlan, Occupied
  <2> QED BY <1>1, <1>12, <2>1, <2>4 DEF Recheck, Goto, Ongoing, Effect, Works, Working, Forward
<1>13. ASSUME Trash(p) PROVE Effect(p)
  <2>1. pc[p] = "trash" /\ UNCHANGED <<req, plan, before>> /\ pc[p] \in Active
    BY <1>13 DEF Trash, Active, Forward
  <2>2. CASE /\ disk' = Renamed(Current(p).src, Trashed)
             /\ Goto(p, IF next[p] = Len(plan[p]) THEN "verify" ELSE "trash") /\ Ongoing
    <3>1. Current(p).dst = Trashed
      <4>1. req[p].op = "delete"
        BY <2>1, LoneFacts DEF OnPlan
      <4> QED BY <2>1, <4>1, NextMove DEF Forward
    <3> QED BY <2>1, <2>2, <3>1, EffectDone DEF Ongoing, Forward
  <2>3. CASE Finish(p, "stuck") /\ UNCHANGED disk
    BY <1>9, <2>1, <2>3
  <2> QED BY <1>13, <2>2, <2>3 DEF Trash
<1>14. ASSUME Verify(p) PROVE Effect(p)
  <2>1. pc[p] \in Settled
    BY <1>14 DEF Verify, Settled
  <2>2. \A i \in DOMAIN plan[p] : /\ ~Occupied(disk, plan[p][i].src)
                                  /\ req[p].op # "delete" => Occupied(disk, plan[p][i].dst)
    BY <2>1, AllMoved
  <2> QED BY <1>1, <1>14, <2>1, <2>2
          DEF Verify, Goto, Finish, Ongoing, Effect, Confirms, Ended, Quiet
<1>15. ASSUME Rescan(p) PROVE Effect(p)
  <2>1. pc[p] \in Settled
    BY <1>15 DEF Rescan, Settled
  <2>2. /\ ~Occupied(disk, plan[p][1].src)
        /\ req[p].op # "delete" => Occupied(disk, plan[p][1].dst)
    BY <2>1, AllMoved
  <2> QED BY <1>1, <1>15, <2>1, <2>2 DEF Rescan, Goto, Finish, Effect, Confirms, Ended
<1>16. ASSUME NEW f \in Files PROVE ~ExternalRemove(f) /\ ~ \E path \in Path : ExternalCreate(f, path)
  <2>1. removals \in Nat /\ disk[f] # Unborn
    BY DEF LoneInv, BundleInv, TypeOK
  <2> QED BY <2>1 DEF Alone, ExternalRemove, ExternalCreate
<1>17. CASE GameToggles \/ UNCHANGED vars
  BY <1>17 DEF GameToggles, vars, Effect
<1> QED BY <1>2, <1>3, <1>4, <1>5, <1>6, <1>7, <1>8, <1>10, <1>11, <1>12, <1>13, <1>14, <1>15,
           <1>16, <1>17 DEF Next, Step

(* What the files of the bundle come to when the first n moves are made,   *)
(* and when all are.                                                       *)
LEMMA BundleMoved ==
  ASSUME NEW old \in Disk, NEW d, NEW r \in Request, NEW moves, NEW n \in Nat, n <= Len(moves),
         SoundPlan(old, moves), Intent(r, old, moves), Moved(old, moves, n, d), NEW f \in Files
  PROVE  IF \E i \in 1..n : old[f] = moves[i].src
         THEN OfBundle(r, old, f) /\ d[f] = Intended(r, old, f) ELSE d[f] = old[f]
<1>1. \A i \in 1..n : i \in DOMAIN moves
  <2>1. DOMAIN moves = 1..Len(moves) /\ Len(moves) \in Nat
    BY DEF SoundPlan
  <2> QED BY <2>1
<1>2. CASE \E i \in 1..n : old[f] = moves[i].src
  <2>1. PICK i \in 1..n : old[f] = moves[i].src
    BY <1>2
  <2>2. d[f] = moves[i].dst
    BY <2>1 DEF Moved
  <2> QED BY <1>1, <1>2, <2>1, <2>2 DEF Intent
<1>3. CASE \A i \in 1..n : old[f] # moves[i].src
  BY <1>3 DEF Moved
<1> QED BY <1>2, <1>3

LEMMA WholeBundle ==
  ASSUME NEW old \in Disk, NEW d, NEW r \in Request, NEW moves,
         SoundPlan(old, moves), Intent(r, old, moves), Moved(old, moves, Len(moves), d), NEW f \in Files
  PROVE  d[f] = IF OfBundle(r, old, f) THEN Intended(r, old, f) ELSE old[f]
<1>1. DOMAIN moves = 1..Len(moves) /\ Len(moves) \in Nat
  BY DEF SoundPlan
<1>2. IF \E i \in 1..Len(moves) : old[f] = moves[i].src
      THEN OfBundle(r, old, f) /\ d[f] = Intended(r, old, f) ELSE d[f] = old[f]
  BY <1>1, BundleMoved
<1>3. OfBundle(r, old, f) => (\E i \in 1..Len(moves) : old[f] = moves[i].src) \/ Intended(r, old, f) = old[f]
  BY <1>1 DEF Intent
<1> QED BY <1>2, <1>3

LEMMA NothingMoved ==
  ASSUME NEW old, NEW d, NEW moves, Moved(old, moves, 0, d), NEW f \in Files
  PROVE  d[f] = old[f]
<1>1. \A i \in 1..0 : FALSE
  OBVIOUS
<1> QED BY <1>1 DEF Moved

LEMMA LoneSpec == Alone => (Spec => []LoneInv)
<1>1. ASSUME Alone PROVE Spec => []LoneInv
  <2>1. Init => LoneInv
    BY <1>1, InitLone
  <2>2. LoneInv /\ [Next]_vars => LoneInv'
    BY <1>1, StepLone
  <2> QED BY <2>1, <2>2, PTL DEF Spec
<1> QED BY <1>1

(* With the check-then-rename of move_other.go as well, a caller nothing    *)
(* disturbs destroys no file: what NoClobber needs MoveFileW for is only   *)
(* the company of others.                                                  *)
THEOREM LoneNoClobber == Alone => (Spec => []NoFileOverwritten)
<1>1. LoneInv => NoFileOverwritten
  BY DEF LoneInv
<1> QED BY <1>1, LoneSpec, PTL

(* A caller nothing disturbs: a call that fails without reporting a failed *)
(* rollback has left every file of the bundle where its scan found it, for *)
(* any library, any call, any session and any failing rename (apply and    *)
(* rollbackMoves of organize.go and toggle.go).  The endpoint checks that  *)
(* would abandon a half-made plan do not fail there.                       *)
THEOREM LoneFailureIsAtomic == Alone => (Spec => FailureIsAtomic)
<1> SUFFICES ASSUME Alone PROVE Spec => FailureIsAtomic
  OBVIOUS
<1>1. LoneInv /\ [Next]_vars =>
        [\A p \in Procs : Ends(p, {"stopped", "undone"}) /\ plan[p] # <<>> =>
           \A f \in Files : OfBundle(req[p], before[p], f) => disk'[f] = before[p][f]]_vars
  <2> SUFFICES ASSUME LoneInv, [Next]_vars, NEW p \in Procs, Ends(p, {"stopped", "undone"}), NEW f \in Files
               PROVE  disk'[f] = before[p][f]
    OBVIOUS
  <2>1. Restores(p)
    BY StepEffect DEF Ends, Effect, Starts, Passes, Plans, Refuses, Works, Completes, GivesUp,
                      Confirms, Ended, Quiet
  <2> QED BY <2>1, NothingMoved DEF Restores
<1>2. Spec => []LoneInv
  BY LoneSpec
<1> QED BY <1>1, <1>2, PTL DEF Spec, FailureIsAtomic

(* And a call that reports success has brought every file of the bundle to *)
(* where the call wants it, in a session of any number of calls: the limit *)
(* of two in SuccessIsWhole is for calls that overlap.                     *)
THEOREM LoneSuccessIsWhole == Alone => (Spec => SuccessIsWhole /\ [][Whole]_vars)
<1> SUFFICES ASSUME Alone PROVE Spec => SuccessIsWhole /\ [][Whole]_vars
  OBVIOUS
<1>1. LoneInv /\ [Next]_vars => [Whole]_vars
  <2> SUFFICES ASSUME LoneInv, [Next]_vars, NEW p \in Procs, Ends(p, {"ok"}),
                      NEW f \in Files, OfBundle(req[p], before[p], f)
               PROVE  disk'[f] = Intended(req[p], before[p], f)
    BY DEF Whole
  <2>1. Confirms(p)
    BY StepEffect DEF Ends, Effect, Starts, Passes, Plans, Refuses, Works, Completes, Restores, GivesUp,
                      Ended, Quiet
  <2>2. pc[p] \in Active /\ pc[p] \notin Forward \cup Back /\ UNCHANGED disk
    BY <2>1 DEF Confirms, Active, Settled, Forward, Back
  <2>3. /\ before[p] \in Disk /\ SoundPlan(before[p], plan[p]) /\ Intent(req[p], before[p], plan[p])
        /\ Moved(before[p], plan[p], Len(plan[p]), disk)
    BY <2>2, LoneFacts DEF OnPlan, Done
  <2>4. req[p] \in Request
    BY BundleAssumption DEF LoneInv, BundleInv, TypeOK
  <2> QED BY <2>2, <2>3, <2>4, WholeBundle
<1>2. LoneInv /\ [Next]_vars => [AtMostTwoCalls /\ Undiluted' => Whole]_vars
  BY <1>1
<1>3. Spec => []LoneInv
  BY LoneSpec
<1> QED BY <1>1, <1>2, <1>3, PTL DEF Spec, SuccessIsWhole

-----------------------------------------------------------------------------
(* What the caller sees: AtomicBundle with the scanner's operators of this *)
(* module.                                                                 *)
LEMMA AtomicWords ==
  ASSUME NEW g \in Group
  PROVE  /\ Atomic!Group = Group
         /\ Atomic!HasEntry(OldLibrary, g) <=> HasEntry(OldLibrary, g)
         /\ \A h : Atomic!Relocated(g, h) =
              [f \in Files |-> IF OldLibrary[f] \in Path /\ GroupOf(OldLibrary[f]) = g
                               THEN At(h, OldLibrary[f].ext) ELSE OldLibrary[f]]
         /\ \A e : Atomic!Retyped(g, e) =
              [f \in Files |-> IF OldLibrary[f] = At(g, PrimaryOf(OldLibrary, g)) THEN At(g, e) ELSE OldLibrary[f]]
         /\ Atomic!Binned(g) =
              [f \in Files |-> IF OldLibrary[f] \in Path /\ GroupOf(OldLibrary[f]) = g THEN Trashed ELSE OldLibrary[f]]
<1>1. Atomic!Path = Path /\ Atomic!PrimaryExts = PrimaryExts
  BY DEF Atomic!Path, Atomic!Exts, Atomic!PrimaryExts, Atomic!SidecarExts, Path, Exts, PrimaryExts, SidecarExts
<1>2. \A e : Atomic!At(g, e) = At(g, e)
  BY DEF Atomic!At, At
<1>3. \A d : Atomic!Primaries(d, g) = Primaries(d, g)
  BY <1>1, <1>2 DEF Atomic!Primaries, Atomic!Occupied, Primaries, Occupied
<1>4. \A d : Atomic!PrimaryOf(d, g) = PrimaryOf(d, g)
  BY <1>1, <1>3 DEF Atomic!PrimaryOf, PrimaryOf
<1>5. Atomic!HasEntry(OldLibrary, g) <=> HasEntry(OldLibrary, g)
  BY <1>1, <1>3 DEF Atomic!HasEntry, HasEntry
<1> QED BY <1>1, <1>2, <1>4, <1>5
        DEF Atomic!Group, Group, Atomic!Relocated, Atomic!Retyped, Atomic!Binned,
            Atomic!GroupOf, GroupOf, Atomic!At, At

View ==
  /\ pc[Caller] \in Working => OldLibrary = before[Caller]
  /\ pc[Caller] \in {"idle", "gate", "plan"} \cup Settled => OldLibrary = disk
  /\ pc[Caller] \in {"gate", "plan"} \cup Working => CallPhase = "open"
  /\ pc[Caller] \in Settled => CallPhase = "committed"
  /\ pc[Caller] = "idle" =>
       /\ CallPhase \notin {"open", "committed"}
       /\ outcome[Caller] = "ok" => CallPhase = "ok"
       /\ outcome[Caller] = "stuck" => CallPhase = "damaged"
       /\ outcome[Caller] \in {"rejected", "undone"} => CallPhase = "failed"

LEMMA Viewed == View
BY DEF View, OldLibrary, CallPhase, Working, Settled, Forward, Back

(* The last move of a call is its commitment. *)
LEMMA CommitStep ==
  ASSUME Alone, LoneInv, LoneInv', NEW p \in Procs, p = Caller, Completes(p)
  PROVE  Atomic!Commit
<1> DEFINE old == before[p]
           r == req[p]
<1>1. pc[p] \in Active /\ "verify" \in Settled
  BY DEF Completes, Working, Active, Settled
<1>2. /\ old \in Disk /\ SoundPlan(old, plan[p]) /\ Intent(r, old, plan[p]) /\ r \in Request
      /\ DOMAIN plan[p] = 1..Len(plan[p])
  BY <1>1, LoneFacts, BundleAssumption DEF OnPlan, LoneInv, BundleInv, TypeOK
<1>3. Moved(old, plan[p], Len(plan[p]), disk')
  BY DEF Completes
<1>4. disk' \in [Files -> Place]
  BY DEF LoneInv, BundleInv, TypeOK, Disk
<1>5. View /\ View'
  BY Viewed, PTL
<1>6. OldLibrary = old /\ OldLibrary' = disk' /\ CallPhase = "open" /\ CallPhase' = "committed"
  BY <1>1, <1>5 DEF View, Completes
<1> HIDE DEF old, r
<1>7. HasEntry(old, r.entry) /\ r.entry \in Group /\ r.to \in Group
      /\ r.op \in {"enable", "disable", "relocate", "delete"} /\ (r.op = "relocate" => r.to # r.entry)
  BY <1>2 DEF Intent, Request
<1>8. \A f \in Files : disk'[f] = IF OfBundle(r, old, f) THEN Intended(r, old, f) ELSE old[f]
  BY <1>2, <1>3, WholeBundle
<1>9. CASE r.op = "relocate"
  <2>1. disk' = [f \in Files |-> IF old[f] \in Path /\ GroupOf(old[f]) = r.entry
                                 THEN At(r.to, old[f].ext) ELSE old[f]]
    BY <1>4, <1>8, <1>9 DEF OfBundle, Intended
  <2>2. OldLibrary' = Atomic!Relocated(r.entry, r.to)
    BY <1>6, <1>7, <2>1, AtomicWords
  <2> QED BY <1>6, <1>7, <1>9, <2>2, AtomicWords DEF Atomic!Commit
<1>10. CASE r.op = "delete"
  <2>1. disk' = [f \in Files |-> IF old[f] \in Path /\ GroupOf(old[f]) = r.entry THEN Trashed ELSE old[f]]
    BY <1>4, <1>8, <1>10 DEF OfBundle, Intended
  <2>2. OldLibrary' = Atomic!Binned(r.entry)
    BY <1>6, <1>7, <2>1, AtomicWords
  <2> QED BY <1>6, <1>7, <2>2, AtomicWords DEF Atomic!Commit
<1>11. CASE r.op \in {"enable", "disable"}
  <2>1. PICK e \in {"pak", "pak_crateoff"} : plan[p][1].dst = At(r.entry, e)
    BY <1>2, <1>11 DEF Intent
  <2>2. Len(plan[p]) = 1 /\ plan[p][1].src = At(r.entry, PrimaryOf(old, r.entry))
    BY <1>2, <1>11 DEF Intent
  <2>3. \A i \in 1..Len(plan[p]) : i = 1
    BY <2>2
  <2>4. 1 \in 1..Len(plan[p])
    BY <2>2
  <2>5. disk' = [f \in Files |-> IF old[f] = At(r.entry, PrimaryOf(old, r.entry)) THEN At(r.entry, e) ELSE old[f]]
    BY <1>3, <1>4, <2>1, <2>2, <2>3, <2>4 DEF Moved
  <2>6. OldLibrary' = Atomic!Retyped(r.entry, e)
    BY <1>6, <1>7, <2>5, AtomicWords
  <2> QED BY <1>6, <1>7, <2>1, <2>6, AtomicWords DEF Atomic!Commit
<1> QED BY <1>7, <1>9, <1>10, <1>11

(* A call that gives up half way has moved files of one bundle only, each  *)
(* to where the call wanted it.                                            *)
LEMMA DamageStep ==
  ASSUME Alone, LoneInv, LoneInv', NEW p \in Procs, p = Caller, GivesUp(p)
  PROVE  Atomic!Damage
<1> DEFINE old == before[p]
           r == req[p]
           n == Done(p)
           moved == {f \in Files : \E i \in 1..n : old[f] = plan[p][i].src}
<1>1. pc[p] \in Active /\ pc[p] \in Working /\ pc'[p] = "idle" /\ outcome'[p] = "stuck" /\ UNCHANGED disk
  BY DEF GivesUp, Ended, Working, Active, Forward
<1>2. /\ old \in Disk /\ SoundPlan(old, plan[p]) /\ Intent(r, old, plan[p]) /\ r \in Request
      /\ Moved(old, plan[p], n, disk) /\ Len(plan[p]) \in Nat \ {0} /\ disk \in [Files -> Place]
  BY <1>1, LoneFacts, BundleAssumption DEF OnPlan, LoneInv, BundleInv, TypeOK, Disk
<1>3. n \in Nat /\ n <= Len(plan[p])
  <2>1. CASE pc[p] = "trash"
    <3>1. next[p] \in 1..Len(plan[p]) /\ n = next[p] - 1
      BY <2>1 DEF LoneInv, BundleInv, IndexOK, Moving, Done, Forward
    <3>2. Len(plan[p]) \in Nat
      BY <1>2
    <3> HIDE DEF n
    <3> QED BY <3>1, <3>2
  <2>2. CASE pc[p] \in Back
    <3>1. n = next[p] /\ next[p] \in Nat /\ next[p] < Len(plan[p])
      BY <1>1, <2>2, LoneFacts DEF OnPlan, Done, Forward, Back
    <3> QED BY <1>2, <3>1
  <2> QED BY <2>1, <2>2 DEF GivesUp
<1>4. r.entry \in Group /\ r.to \in Group /\ r.op \in {"enable", "disable", "relocate", "delete"}
  BY <1>2 DEF Request
<1>5. r.op \in {"relocate", "delete"}
  <2>1. CASE pc[p] = "trash"
    BY <1>1, <2>1, LoneFacts DEF OnPlan
  <2>2. CASE pc[p] \in Back
    <3>1. next[p] \in 1..Len(plan[p]) /\ next[p] < Len(plan[p])
      BY <1>1, <2>2, LoneFacts DEF OnPlan, LoneInv, BundleInv, IndexOK, Moving, Back
    <3>2. Len(plan[p]) # 1
      <4>1. Len(plan[p]) \in Nat
        BY <1>2
      <4>2. \A a, b \in Nat : a \in 1..b /\ a < b => b # 1
        OBVIOUS
      <4>3. next[p] \in Nat
        BY <1>1, LoneFacts
      <4> QED BY <3>1, <4>1, <4>2, <4>3
    <3> QED BY <1>2, <1>4, <3>2 DEF Intent
  <2> QED BY <2>1, <2>2 DEF GivesUp
<1>6. View /\ View'
  BY Viewed, PTL
<1>7. OldLibrary = old /\ OldLibrary' = disk /\ CallPhase = "open" /\ CallPhase' = "damaged"
  BY <1>1, <1>6 DEF View
<1> HIDE DEF old, r, n
<1>8. \A f \in Files : IF f \in moved THEN OfBundle(r, old, f) /\ disk[f] = Intended(r, old, f)
                                      ELSE disk[f] = old[f]
  BY <1>2, <1>3, BundleMoved
<1> HIDE DEF moved
<1>9. moved \in SUBSET Files
  BY DEF moved
<1>10. \A f \in moved : OldLibrary[f] \in Path /\ Atomic!GroupOf(OldLibrary[f]) = r.entry
  BY <1>7, <1>8, <1>9 DEF OfBundle, GroupOf, Atomic!GroupOf
<1>11. Atomic!Path = Path /\ Atomic!Group = Group
  BY DEF Atomic!Path, Atomic!Exts, Atomic!PrimaryExts, Atomic!SidecarExts, Path, Exts, PrimaryExts, SidecarExts,
         Atomic!Group, Group
<1>12. CASE r.op = "delete"
  <2>1. OldLibrary' = [f \in Files |-> IF f \in moved THEN Trashed ELSE OldLibrary[f]]
    BY <1>2, <1>7, <1>8, <1>12 DEF Intended
  <2> QED BY <1>4, <1>7, <1>9, <1>10, <1>11, <2>1, SMTT(20) DEF Atomic!Damage
<1>13. CASE r.op = "relocate"
  <2> DEFINE whole == Atomic!Relocated(r.entry, r.to)
  <2>1. whole = [f \in Files |-> IF old[f] \in Path /\ GroupOf(old[f]) = r.entry
                                 THEN At(r.to, old[f].ext) ELSE old[f]]
    BY <1>4, <1>7, AtomicWords
  <2>2. \A f \in moved : disk[f] = whole[f]
    BY <1>8, <1>9, <1>13, <2>1 DEF OfBundle, Intended
  <2> HIDE DEF whole
  <2>3. OldLibrary' = [f \in Files |-> IF f \in moved THEN whole[f] ELSE OldLibrary[f]]
    BY <1>2, <1>7, <1>8, <1>9, <2>2
  <2> QED BY <1>4, <1>7, <1>9, <1>10, <1>11, <2>3 DEF Atomic!Damage, whole
<1> QED BY <1>5, <1>12, <1>13

LEMMA AtomicStep ==
  ASSUME Alone, LoneInv, LoneInv', [Next]_vars
  PROVE  [Atomic!Next]_<<OldLibrary, CallPhase>>
<1> DEFINE p == Caller
<1>1. p \in Procs /\ Effect(p)
  BY Only, StepEffect
<1>2. View /\ View'
  BY Viewed, PTL
<1> HIDE DEF p
<1>3. p = Caller
  BY DEF p
<1>4. CASE Starts(p)
  BY <1>2, <1>3, <1>4 DEF View, Starts, Atomic!Next, Atomic!Open
<1>5. CASE Passes(p) \/ Works(p)
  BY <1>2, <1>3, <1>5 DEF View, Passes, Works, Quiet
<1>6. CASE Plans(p)
  BY <1>2, <1>3, <1>6 DEF View, Plans, Working
<1>7. CASE Refuses(p)
  BY <1>2, <1>3, <1>7 DEF View, Refuses, Ended, Atomic!Next, Atomic!Fail
<1>8. CASE Completes(p)
  BY <1>1, <1>3, <1>8, CommitStep DEF Atomic!Next
<1>9. CASE Restores(p)
  <2>1. pc[p] \in Active
    BY <1>9 DEF Restores, Working, Active
  <2>2. \A f \in Files : disk'[f] = before[p][f]
    BY <1>9, NothingMoved DEF Restores
  <2>3. before[p] \in [Files -> Place] /\ disk' \in [Files -> Place]
    BY <1>1, <2>1, LoneFacts DEF LoneInv, BundleInv, TypeOK, Disk
  <2>4. disk' = before[p]
    BY <2>2, <2>3
  <2> QED BY <1>2, <1>3, <1>9, <2>4 DEF View, Restores, Ended, Atomic!Next, Atomic!Fail
<1>10. CASE GivesUp(p)
  BY <1>1, <1>3, <1>10, DamageStep DEF Atomic!Next
<1>11. CASE Confirms(p)
  BY <1>2, <1>3, <1>11 DEF View, Confirms, Ended, Quiet, Settled, Atomic!Next, Atomic!Succeed
<1>12. CASE UNCHANGED <<disk, pc, req, plan, before, outcome>>
  BY <1>12 DEF OldLibrary, CallPhase
<1> QED BY <1>1, <1>4, <1>5, <1>6, <1>7, <1>8, <1>9, <1>10, <1>11, <1>12 DEF Effect

(* For any library, any session of calls and any failing rename, a caller  *)
(* nothing disturbs sees a bundle change in one indivisible step: the scan *)
(* that plans, the endpoint checks, the moves, the rollback and the        *)
(* inspections of internal/mutation implement AtomicBundle.                *)
THEOREM BundleImplementsAtomic == Alone => (Spec => AtomicCalls)
<1> SUFFICES ASSUME Alone PROVE Spec => AtomicCalls
  OBVIOUS
<1>1. Init => Atomic!Init
  <2> SUFFICES ASSUME Init PROVE Atomic!Init
    OBVIOUS
  <2>1. Caller \in Procs
    BY Only
  <2>2. OldLibrary = disk /\ CallPhase = "idle"
    BY <2>1 DEF Init, OldLibrary, CallPhase
  <2>3. disk \in Disk
    BY InvInit DEF BundleInv, TypeOK
  <2>4. Atomic!Disk = Disk
    BY DEF Atomic!Disk, Atomic!Place, Atomic!OffDisk, Atomic!Path, Atomic!Exts, Atomic!PrimaryExts,
           Atomic!SidecarExts, Disk, Place, OffDisk, Path, Exts, PrimaryExts, SidecarExts
  <2> QED BY <2>2, <2>3, <2>4 DEF Atomic!Init
<1>2. LoneInv /\ LoneInv' /\ [Next]_vars => [Atomic!Next]_<<OldLibrary, CallPhase>>
  BY AtomicStep
<1>3. Spec => []LoneInv
  BY LoneSpec
<1> QED BY <1>1, <1>2, <1>3, PTL DEF Spec, AtomicCalls, Atomic!Spec
=============================================================================
