---------------------------- MODULE RestoreProofs ----------------------------
(***************************************************************************)
(* Proofs about LibraryRestore for any library, backups and entries, any   *)
(* number of failures, visits of other programs, cancellations and kills:  *)
(* type correctness, that no entry of a library is lost, that a cancelled  *)
(* restore leaves the library as it was, that a session that can be        *)
(* retried is complete, and that a restore reported as done is whole.      *)
(***************************************************************************)
EXTENDS LibraryRestore, TLAPS

(* The names a call has yet to move, and those it has moved. *)
CallOK ==
  /\ active = Nobody <=> pc = "idle"
  /\ \A s \in Sessions : session[s] = "active" <=> active = s
  /\ toPark \cap parked = {} /\ toPlace \cap placed = {}
  /\ pc \in {"idle", "begin", "list"} => toPark = {} /\ toPlace = {} /\ parked = {} /\ placed = {}
  /\ pc = "park" => placed = {}
  /\ pc \in {"meta", "scan", "clean", "discard"} => toPlace = {}
  /\ pc # "rollback" => ~broken

(* The park holds what was moved there, and refuses the next restore as    *)
(* long as it holds anything.                                              *)
ParkOK ==
  /\ ~parkExists => In("park") = {}
  /\ pc \notin {"idle", "begin", "discard"} => parkExists
  /\ pc = "list" => In("park") = {}
  /\ pc \notin {"idle", "begin", "list"} /\ ~broken => NamesIn("park") \subseteq parked

(* The staged entries of a session: unborn before the preview, in their    *)
(* tree, or placed in the root under a name that a rollback returns.       *)
StagingOK ==
  /\ \A s \in Sessions : session[s] = "none" => \A i \in Staged[s] : at[i] = "unborn"
  /\ \A s \in Sessions : session[s] = "idle" => \A i \in Staged[s] : at[i] \in {s, "taken"}
  /\ pc \in {"begin", "list"} => \A i \in Staged[active] : at[i] \in {active, "taken"}
  /\ pc \in {"park", "place", "meta", "scan", "clean", "discard"} =>
       \A i \in Staged[active] : \/ at[i] = "taken"
                                 \/ at[i] = active /\ NameOf[i] \in toPlace
                                 \/ at[i] = "root" /\ NameOf[i] \in placed
  /\ pc = "rollback" /\ ~broken =>
       \A i \in Staged[active] : \/ at[i] \in {active, "taken"}
                                 \/ at[i] = "root" /\ NameOf[i] \in placed
  /\ \A i \in Items : at[i] = active => NameOf[i] \notin placed

(* The entries of the libraries listed so far: the current library is in   *)
(* the root, parked, or was taken; none is in the root while staged        *)
(* entries are placed there, or under a name still to be returned.         *)
LibraryOK ==
  /\ \A i \in owned : at[i] \in {"root", "park", "deleted", "replaced", "taken"}
  /\ pc = "park" => \A i \in owned : at[i] = "root" => NameOf[i] \in toPark
  /\ pc \in {"place", "meta", "scan", "clean", "discard"} \/ (pc = "rollback" /\ placed # {}) =>
       \A i \in owned : at[i] # "root"
  /\ pc = "rollback" => \A i \in owned : at[i] = "root" => NameOf[i] \notin parked
  /\ pc \notin {"idle", "begin", "list"} =>
       /\ before \subseteq owned
       /\ \A i \in owned \ before : at[i] \in {"deleted", "replaced", "taken"}
       /\ pc \notin {"clean", "discard"} => \A i \in before : at[i] \in {"root", "park", "taken"}
  /\ pc \in {"begin", "list"} => \A i \in before : at[i] \in {"root", "taken"}

(* The metadata is touched by the last step that may fail but one, and is  *)
(* not looked at by a rollback for an error.                               *)
MetaOK ==
  pc \in {"begin", "list", "park", "place", "meta"} \/ (pc = "rollback" /\ cause = "cancelled") =>
    meta = metaBefore

TakenOK == taken = 0 => \A i \in Items : at[i] # "taken"

RestoreInv == TypeOK /\ CallOK /\ ParkOK /\ StagingOK /\ LibraryOK /\ MetaOK /\ TakenOK

LEMMA InitRestore == Init => RestoreInv
<1> SUFFICES ASSUME Init PROVE RestoreInv
  OBVIOUS
<1>1. TypeOK
  BY RestoreAssumption DEF Init, TypeOK, Places, Steps, Outcomes
<1>2. CallOK /\ MetaOK /\ TakenOK
  BY RestoreAssumption DEF Init, CallOK, MetaOK, TakenOK
<1>3. ParkOK
  BY RestoreAssumption DEF Init, ParkOK, In
<1>4. StagingOK
  BY RestoreAssumption DEF Init, StagingOK
<1>5. LibraryOK
  BY DEF Init, LibraryOK
<1> QED BY <1>1, <1>2, <1>3, <1>4, <1>5 DEF RestoreInv

-----------------------------------------------------------------------------
(* One rename: where every entry is afterwards. *)
LEMMA Moved ==
  ASSUME TypeOK, NEW n, NEW from \in Places, NEW to \in Places, from # to, MoveEntry(n, from, to)
  PROVE  /\ at' \in [Items -> Places]
         /\ \A i \in Items :
              at'[i] = IF at[i] = from /\ NameOf[i] = n THEN to
                       ELSE IF at[i] = to /\ NameOf[i] = n THEN "replaced" ELSE at[i]
<1> USE DEF MoveEntry, Named, In
<1>1. \A i \in Items : (i \in Named(from, n) <=> at[i] = from /\ NameOf[i] = n)
                    /\ (i \in Named(to, n) <=> at[i] = to /\ NameOf[i] = n)
  OBVIOUS
<1>2. ASSUME NEW i \in Items
      PROVE  (CASE i \in Named(from, n) -> to [] i \in Named(to, n) -> "replaced" [] OTHER -> at[i])
               = IF at[i] = from /\ NameOf[i] = n THEN to
                 ELSE IF at[i] = to /\ NameOf[i] = n THEN "replaced" ELSE at[i]
  BY <1>1
<1>3. \A i \in Items : at'[i] = IF at[i] = from /\ NameOf[i] = n THEN to
                       ELSE IF at[i] = to /\ NameOf[i] = n THEN "replaced" ELSE at[i]
  BY <1>2
<1>4. DOMAIN at' = Items /\ at' = [i \in Items |-> at'[i]]
  BY Zenon
<1>5. \A i \in Items : at'[i] \in Places
  BY <1>3 DEF TypeOK, Places
<1> QED BY <1>3, <1>4, <1>5
(* What the helpers of the actions leave in their variables. *)
LEMMA InjectType == ASSUME TypeOK, InjectFailure \/ UNCHANGED failures PROVE failures' \in Nat
BY DEF InjectFailure, TypeOK

LEMMA NamesInType == ASSUME NEW place PROVE NamesIn(place) \subseteq Names /\ In(place) \subseteq Items
BY DEF NamesIn, In, Names

LEMMA ActiveIsSession == ASSUME TypeOK, CallOK, pc # "idle" PROVE active \in Sessions
BY DEF TypeOK, CallOK

LEMMA ForgetType ==
  ASSUME Forget
  PROVE  /\ pc' \in Steps /\ active' \in Sessions \cup {Nobody} /\ cancel' \in BOOLEAN
         /\ toPark' \subseteq Names /\ toPlace' \subseteq Names
         /\ parked' \subseteq Names /\ placed' \subseteq Names
         /\ cause' \in {"none", "error", "cancelled"} /\ broken' \in BOOLEAN
BY DEF Forget, Steps

LEMMA ReturnType ==
  ASSUME TypeOK, NEW result \in Outcomes, NEW state \in {"idle", "done"}, Return(result, state)
  PROVE  Forget /\ session' \in [Sessions -> {"none", "idle", "active", "done"}] /\ outcome' \in Outcomes
BY DEF Return, TypeOK

LEMMA RollBackType ==
  ASSUME TypeOK, NEW why \in {"error", "cancelled"}, RollBack(why)
  PROVE  /\ pc' \in Steps /\ UNCHANGED <<session, active, cancel, outcome>>
         /\ cause' \in {"none", "error", "cancelled"} /\ broken' \in BOOLEAN
BY DEF RollBack, Goto, Steps

(* A step that gives up, for whatever reason, before the park is removed.  *)
LEMMA GiveUpInv ==
  ASSUME RestoreInv, NEW why \in {"error", "cancelled"}, RollBack(why),
         pc \in {"park", "place"} \/ (pc \in {"meta", "scan"} /\ why = "error"),
         UNCHANGED <<disk, moves, history, leftovers, taken, cancels, crashes>>,
         InjectFailure \/ UNCHANGED failures
  PROVE  RestoreInv'
<1> USE RestoreAssumption DEF RestoreInv, disk, moves, history
<1>1. TypeOK'
  BY InjectType, RollBackType DEF TypeOK
<1>2. pc' = "rollback" /\ cause' = why /\ broken' = FALSE /\ UNCHANGED <<session, active, outcome>>
  BY DEF RollBack, Goto
<1>3. CallOK' /\ MetaOK' /\ TakenOK'
  BY <1>2 DEF CallOK, MetaOK, TakenOK
<1>4. ParkOK'
  BY <1>2 DEF ParkOK, CallOK, In, NamesIn
<1>5. StagingOK'
  BY <1>2 DEF StagingOK
<1>6. LibraryOK'
  BY <1>2, <1>1 DEF LibraryOK, CallOK, TypeOK
<1> QED BY <1>1, <1>3, <1>4, <1>5, <1>6

LEMMA SeeCancelInv == ASSUME RestoreInv, SeeCancel PROVE RestoreInv'
BY GiveUpInv DEF SeeCancel, boundVars

LEMMA RestoreMetadataInv == ASSUME RestoreInv, RestoreMetadata PROVE RestoreInv'
<1> USE RestoreAssumption DEF RestoreMetadata, moves, history
<1>1. CASE RollBack("error")
  BY <1>1, GiveUpInv DEF disk, RestoreInv, RollBack, Goto
<1>2. CASE meta' \in {active, meta} /\ pc' = "scan" /\ UNCHANGED <<failures, session, active, cancel, errors>>
  <2> USE <1>2 DEF RestoreInv, errors
  <2>1. TypeOK' /\ CallOK' /\ MetaOK' /\ TakenOK'
    BY ActiveIsSession DEF TypeOK, CallOK, MetaOK, TakenOK, Steps
  <2>2. ParkOK'
    BY DEF ParkOK, CallOK, In, NamesIn
  <2>3. StagingOK' /\ LibraryOK'
    BY DEF StagingOK, LibraryOK
  <2> QED BY <2>1, <2>2, <2>3
<1> QED BY <1>1, <1>2 DEF Goto, Proceed

LEMMA ScanInv == ASSUME RestoreInv, Scan PROVE RestoreInv'
<1> USE RestoreAssumption DEF Scan, disk, moves, history
<1>1. CASE RollBack("error")
  BY <1>1, GiveUpInv DEF RollBack, Goto
<1>2. CASE pc' = "clean" /\ UNCHANGED <<failures, session, active, cancel, errors>>
  <2> USE <1>2 DEF RestoreInv, errors
  <2>1. TypeOK' /\ CallOK' /\ MetaOK' /\ TakenOK'
    BY DEF TypeOK, CallOK, MetaOK, TakenOK, Steps
  <2>2. ParkOK'
    BY DEF ParkOK, CallOK, In, NamesIn
  <2>3. StagingOK' /\ LibraryOK'
    BY DEF StagingOK, LibraryOK
  <2> QED BY <2>1, <2>2, <2>3
<1> QED BY <1>1, <1>2 DEF Goto, Proceed

-----------------------------------------------------------------------------
(* The calls, and the steps of a restore that move no single entry. *)
LEMMA PreviewInv == ASSUME RestoreInv, NEW s \in Sessions, Preview(s) PROVE RestoreInv'
<1> USE RestoreAssumption DEF RestoreInv, Preview, moves, errors, history, boundVars
<1>1. TypeOK'
  BY DEF TypeOK, Places
<1>2. CallOK'
  BY DEF CallOK, TypeOK
<1>3. ParkOK'
  BY DEF ParkOK, In, NamesIn
<1>4. StagingOK'
  <2>1. \A i \in Items : at'[i] = IF i \in Staged[s] THEN s ELSE at[i]
    BY DEF TypeOK
  <2>2. \A t \in Sessions \ {s} : session'[t] = session[t] /\ \A i \in Staged[t] : i \in Items \ Staged[s]
    BY DEF TypeOK
  <2>3. session[s] = "none" /\ session'[s] = "idle" /\ s # active
    BY DEF TypeOK, CallOK
  <2>4. UNCHANGED <<pc, active, toPlace, placed, broken>> /\ (pc # "idle" => active \in Sessions)
    BY ActiveIsSession
  <2>5. pc = "idle" => placed = {}
    BY DEF CallOK
  <2> HIDE DEF Preview
  <2> QED BY <2>1, <2>2, <2>3, <2>4, <2>5 DEF StagingOK, TypeOK
<1>5. LibraryOK'
  <2>1. \A i \in Staged[s] : at[i] = "unborn"
    BY DEF StagingOK
  <2>2. \A i \in owned : at'[i] = at[i]
    BY <2>1 DEF LibraryOK, TypeOK
  <2>3. \A i \in before : pc # "idle" => at'[i] = at[i]
    BY <2>1 DEF LibraryOK, TypeOK, Steps
  <2> HIDE DEF Preview
  <2>4. UNCHANGED <<pc, toPark, placed, parked, owned, before>>
    BY DEF Preview
  <2> QED BY <2>2, <2>3, <2>4 DEF LibraryOK, TypeOK
<1>6. MetaOK'
  BY DEF MetaOK, CallOK
<1>7. TakenOK'
  BY DEF TakenOK, TypeOK
<1> QED BY <1>1, <1>2, <1>3, <1>4, <1>5, <1>6, <1>7

LEMMA DiscardInv == ASSUME RestoreInv, NEW s \in Sessions, Discard(s) PROVE RestoreInv'
<1> USE RestoreAssumption DEF RestoreInv, Discard, moves, errors, history, boundVars
<1>1. TypeOK'
  BY DEF TypeOK, Places
<1>2. CallOK'
  BY DEF CallOK, TypeOK
<1>3. ParkOK'
  BY DEF ParkOK, In, NamesIn
<1>4. StagingOK'
  <2>1. \A i \in Items : at'[i] # at[i] => at[i] = s /\ at'[i] = "deleted"
    BY DEF TypeOK
  <2>2. \A t \in Sessions : session'[t] \in {"none", "idle"} => session'[t] = session[t] /\ t # s
    BY DEF TypeOK
  <2>3. s # active /\ s \notin {"unborn", "taken", "root"}
    BY DEF CallOK
  <2>4. UNCHANGED <<pc, active, toPlace, placed, broken>>
    OBVIOUS
  <2>5. pc \notin {"idle"} => active \in Sessions
    BY ActiveIsSession
  <2> HIDE DEF Discard
  <2> QED BY <2>1, <2>2, <2>3, <2>4, <2>5 DEF StagingOK, TypeOK, CallOK
<1>5. LibraryOK'
  BY DEF LibraryOK, TypeOK, In
<1>6. MetaOK'
  BY DEF MetaOK, CallOK
<1>7. TakenOK'
  BY DEF TakenOK, TypeOK
<1> QED BY <1>1, <1>2, <1>3, <1>4, <1>5, <1>6, <1>7

LEMMA ApplyInv == ASSUME RestoreInv, NEW s \in Sessions, Apply(s) PROVE RestoreInv'
<1> USE RestoreAssumption DEF RestoreInv, Apply, disk, moves, boundVars
<1>1. TypeOK'
  BY NamesInType DEF TypeOK, Steps, Outcomes
<1>2. CallOK'
  BY DEF CallOK, TypeOK
<1>3. ParkOK'
  BY DEF ParkOK, In, NamesIn
<1>4. StagingOK'
  BY DEF StagingOK, TypeOK, CallOK
<1>5. LibraryOK'
  BY DEF LibraryOK, TypeOK, In
<1>6. MetaOK'
  BY DEF MetaOK, CallOK
<1>7. TakenOK'
  BY DEF TakenOK, TypeOK
<1> QED BY <1>1, <1>2, <1>3, <1>4, <1>5, <1>6, <1>7

LEMMA CancelInv == ASSUME RestoreInv, CancelRestore PROVE RestoreInv'
<1> USE RestoreAssumption DEF RestoreInv, CancelRestore, disk, moves, errors, history
<1>1. TypeOK'
  BY DEF TypeOK
<1>2. CallOK'
  BY DEF CallOK, TypeOK
<1>3. ParkOK'
  BY DEF ParkOK, In, NamesIn
<1>4. StagingOK'
  BY DEF StagingOK, TypeOK, CallOK
<1>5. LibraryOK'
  BY DEF LibraryOK, TypeOK, In
<1>6. MetaOK'
  BY DEF MetaOK, CallOK
<1>7. TakenOK'
  BY DEF TakenOK, TypeOK
<1> QED BY <1>1, <1>2, <1>3, <1>4, <1>5, <1>6, <1>7

LEMMA ArriveInv == ASSUME RestoreInv, NEW i \in Items, Arrive(i) PROVE RestoreInv'
<1> USE RestoreAssumption DEF RestoreInv, Arrive, call, moves, errors, history, boundVars
<1>1. TypeOK'
  BY DEF TypeOK, Places
<1>2. CallOK'
  BY DEF CallOK, TypeOK
<1>3. ParkOK'
  BY DEF ParkOK, In, NamesIn
<1>4. StagingOK'
  <2>1. \A s \in Sessions : i \notin Staged[s]
    BY DEF Outsiders
  <2>2. \A j \in Items : j # i => at'[j] = at[j]
    BY DEF TypeOK
  <2>3. at'[i] = "root" /\ (active = "root" => placed = {})
    BY DEF TypeOK, CallOK, StagingOK
  <2>4. UNCHANGED <<session, pc, active, toPlace, placed, broken>>
    OBVIOUS
  <2>5. pc # "idle" => active \in Sessions
    BY ActiveIsSession
  <2> HIDE DEF Arrive
  <2> QED BY <2>1, <2>2, <2>3, <2>4, <2>5 DEF StagingOK, TypeOK
<1>5. LibraryOK'
  BY DEF LibraryOK, TypeOK, In
<1>6. MetaOK'
  BY DEF MetaOK, CallOK
<1>7. TakenOK'
  BY DEF TakenOK, TypeOK
<1> QED BY <1>1, <1>2, <1>3, <1>4, <1>5, <1>6, <1>7

LEMMA TakeInv == ASSUME RestoreInv, NEW i \in Items, Take(i) PROVE RestoreInv'
<1> USE RestoreAssumption DEF RestoreInv, Take, call, moves, errors, history
<1>1. TypeOK'
  BY DEF TypeOK, Places
<1>2. CallOK'
  BY DEF CallOK, TypeOK
<1>3. ParkOK'
  BY DEF ParkOK, In, NamesIn
<1>4. StagingOK'
  BY DEF StagingOK, TypeOK, CallOK
<1>5. LibraryOK'
  BY DEF LibraryOK, TypeOK, In
<1>6. MetaOK'
  BY DEF MetaOK, CallOK
<1>7. TakenOK'
  BY DEF TakenOK, TypeOK
<1> QED BY <1>1, <1>2, <1>3, <1>4, <1>5, <1>6, <1>7

LEMMA AllParkedInv == ASSUME RestoreInv, AllParked PROVE RestoreInv'
<1> USE RestoreAssumption DEF RestoreInv, AllParked, Goto, Proceed, disk, moves, errors, history, boundVars
<1>1. TypeOK'
  BY DEF TypeOK, Steps
<1>2. CallOK'
  BY DEF CallOK, TypeOK
<1>3. ParkOK'
  BY DEF ParkOK, In, NamesIn
<1>4. StagingOK'
  BY DEF StagingOK, TypeOK, CallOK
<1>5. LibraryOK'
  BY DEF LibraryOK, TypeOK, In
<1>6. MetaOK'
  BY DEF MetaOK, CallOK
<1>7. TakenOK'
  BY DEF TakenOK, TypeOK
<1> QED BY <1>1, <1>2, <1>3, <1>4, <1>5, <1>6, <1>7

LEMMA AllPlacedInv == ASSUME RestoreInv, AllPlaced PROVE RestoreInv'
<1> USE RestoreAssumption DEF RestoreInv, AllPlaced, Goto, Proceed, disk, moves, errors, history, boundVars
<1>1. TypeOK'
  BY DEF TypeOK, Steps
<1>2. CallOK'
  BY DEF CallOK, TypeOK
<1>3. ParkOK'
  BY DEF ParkOK, In, NamesIn
<1>4. StagingOK'
  BY DEF StagingOK, TypeOK, CallOK
<1>5. LibraryOK'
  BY DEF LibraryOK, TypeOK, In
<1>6. MetaOK'
  BY DEF MetaOK, CallOK
<1>7. TakenOK'
  BY DEF TakenOK, TypeOK
<1> QED BY <1>1, <1>2, <1>3, <1>4, <1>5, <1>6, <1>7

LEMMA BeginInv == ASSUME RestoreInv, Begin PROVE RestoreInv'
<1> USE RestoreAssumption DEF RestoreInv, Begin, Goto, Proceed, moves, errors, history
<1>1. TypeOK'
  BY InjectType, ForgetType, ReturnType DEF TypeOK, Steps, Outcomes
<1>2. CallOK'
  BY DEF CallOK, TypeOK, Forget, Return
<1>3. ParkOK'
  BY DEF ParkOK, In, NamesIn, Forget, Return
<1>4. StagingOK'
  BY DEF StagingOK, TypeOK, CallOK, Forget, Return
<1>5. LibraryOK'
  BY DEF LibraryOK, TypeOK, In, Forget, Return
<1>6. MetaOK'
  BY DEF MetaOK, CallOK, Forget, Return
<1>7. TakenOK'
  BY DEF TakenOK, TypeOK, Forget, Return
<1> QED BY <1>1, <1>2, <1>3, <1>4, <1>5, <1>6, <1>7

LEMMA ListInv == ASSUME RestoreInv, List PROVE RestoreInv'
<1> USE RestoreAssumption DEF RestoreInv, List, Goto, Proceed, errors, disk
<1>1. TypeOK'
  BY InjectType, NamesInType, RollBackType DEF TypeOK, Steps
<1>2. CallOK'
  BY DEF CallOK, TypeOK, RollBack
<1>3. ParkOK'
  BY DEF ParkOK, In, NamesIn, RollBack
<1>4. StagingOK'
  BY DEF StagingOK, TypeOK, CallOK, NamesIn, In, RollBack
<1>5. LibraryOK'
  <2>1. toPark' = {NameOf[i] : i \in {j \in Items : at[j] = "root"}} /\ parked' = {} /\ placed' = {}
    BY DEF CallOK, NamesIn, In
  <2>2. /\ before' = {i \in Items : at[i] = "root"} /\ owned' = owned \cup before' /\ at' = at
        /\ pc' \in {"park", "rollback"}
    BY DEF In, RollBack
  <2>3. \A i \in owned : at[i] \in {"root", "deleted", "replaced", "taken"}
    BY DEF LibraryOK, ParkOK, In, TypeOK
  <2>4. \A i \in owned' : at[i] = "root" => NameOf[i] \in toPark'
    BY <2>1, <2>2 DEF TypeOK
  <2> QED BY <2>1, <2>2, <2>3, <2>4 DEF LibraryOK, TypeOK
<1>6. MetaOK'
  BY DEF MetaOK, CallOK, RollBack
<1>7. TakenOK'
  BY DEF TakenOK, TypeOK, RollBack
<1> QED BY <1>1, <1>2, <1>3, <1>4, <1>5, <1>6, <1>7

LEMMA RolledBackInv == ASSUME RestoreInv, RolledBack PROVE RestoreInv'
<1> USE RestoreAssumption DEF RestoreInv, RolledBack, history
<1>1. TypeOK'
  <2>1. Forget /\ session' \in [Sessions -> {"none", "idle", "active", "done"}] /\ outcome' \in Outcomes
    BY ReturnType DEF Outcomes
  <2>2. parkExists' \in BOOLEAN
    BY DEF TypeOK
  <2>3. leftovers' \in Nat
    BY DEF TypeOK
  <2>4. UNCHANGED <<at, meta, history, failures, taken, cancels, crashes>>
    OBVIOUS
  <2> HIDE DEF RolledBack
  <2> QED BY <2>1, <2>2, <2>3, <2>4, ForgetType DEF TypeOK
<1>2. CallOK'
  BY DEF CallOK, TypeOK, Forget, Return
<1>3. ParkOK'
  BY DEF ParkOK, In, NamesIn, Forget, Return
<1>4. StagingOK'
  BY DEF StagingOK, TypeOK, CallOK, Forget, Return
<1>5. LibraryOK'
  BY DEF LibraryOK, TypeOK, In, Forget, Return
<1>6. MetaOK'
  BY DEF MetaOK, CallOK, Forget, Return
<1>7. TakenOK'
  BY DEF TakenOK, TypeOK, Forget, Return
<1> QED BY <1>1, <1>2, <1>3, <1>4, <1>5, <1>6, <1>7

LEMMA CrashInv == ASSUME RestoreInv, Crash PROVE RestoreInv'
<1> USE RestoreAssumption DEF RestoreInv, Crash, history, disk
<1>1. TypeOK'
  BY ForgetType DEF TypeOK, Outcomes
<1>2. CallOK'
  BY DEF CallOK, TypeOK, Forget, Return
<1>3. ParkOK'
  BY DEF ParkOK, In, NamesIn, Forget, Return
<1>4. StagingOK'
  BY DEF StagingOK, TypeOK, CallOK, Forget, Return
<1>5. LibraryOK'
  BY DEF LibraryOK, TypeOK, In, Forget, Return
<1>6. MetaOK'
  BY DEF MetaOK, CallOK, Forget, Return
<1>7. TakenOK'
  BY DEF TakenOK, TypeOK, Forget, Return
<1> QED BY <1>1, <1>2, <1>3, <1>4, <1>5, <1>6, <1>7

LEMMA RemoveParkedInv == ASSUME RestoreInv, NEW i \in Items, RemoveParked(i) PROVE RestoreInv'
<1> USE RestoreAssumption DEF RestoreInv, RemoveParked, call, moves, errors, history, boundVars
<1>1. TypeOK'
  BY DEF TypeOK, Places
<1>2. CallOK' /\ MetaOK'
  BY DEF CallOK, MetaOK, TypeOK
<1>3. ParkOK'
  BY DEF ParkOK, In, NamesIn, TypeOK
<1>4. StagingOK'
  <2>1. \A j \in Items : at'[j] = at[j] \/ (at[j] = "park" /\ at'[j] = "deleted")
    BY DEF TypeOK
  <2>2. active \in Sessions /\ active \notin {"park", "deleted"}
    BY ActiveIsSession
  <2>3. UNCHANGED <<session, pc, active, toPlace, placed, broken>>
    OBVIOUS
  <2> HIDE DEF RemoveParked
  <2> QED BY <2>1, <2>2, <2>3 DEF StagingOK, TypeOK
<1>5. LibraryOK'
  <2>1. \A j \in Items : at'[j] = at[j] \/ (at[j] = "park" /\ at'[j] = "deleted")
    BY DEF TypeOK
  <2> QED BY <2>1 DEF LibraryOK, TypeOK
<1>6. TakenOK'
  BY DEF TakenOK, TypeOK
<1> QED BY <1>1, <1>2, <1>3, <1>4, <1>5, <1>6

LEMMA CleanInv == ASSUME RestoreInv, Clean PROVE RestoreInv'
<1> USE RestoreAssumption DEF RestoreInv, Clean, Goto, Proceed, moves, errors, history
<1>1. TypeOK'
  <2>1. parkExists' \in BOOLEAN
    BY DEF TypeOK
  <2>2. leftovers' \in Nat
    BY DEF TypeOK
  <2>3. /\ pc' = "discard"
        /\ UNCHANGED <<at, meta, session, active, cancel, toPark, toPlace, parked, placed, cause, broken,
                      outcome, before, metaBefore, owned, failures, taken, cancels, crashes>>
    OBVIOUS
  <2> HIDE DEF Clean
  <2> QED BY <2>1, <2>2, <2>3 DEF TypeOK, Steps
<1>2. CallOK' /\ MetaOK'
  BY DEF CallOK, MetaOK, TypeOK
<1>3. ParkOK'
  BY DEF ParkOK, CallOK, In, NamesIn
<1>4. StagingOK'
  BY DEF StagingOK, TypeOK, CallOK
<1>5. LibraryOK'
  BY DEF LibraryOK, TypeOK
<1>6. TakenOK'
  BY DEF TakenOK, TypeOK
<1> QED BY <1>1, <1>2, <1>3, <1>4, <1>5, <1>6

LEMMA SucceedInv == ASSUME RestoreInv, Succeed PROVE RestoreInv'
<1> USE RestoreAssumption DEF RestoreInv, Succeed, history, boundVars
<1>1. TypeOK'
  <2>1. Forget /\ session' \in [Sessions -> {"none", "idle", "active", "done"}] /\ outcome' \in Outcomes
    BY ReturnType DEF Outcomes
  <2>2. at' \in [Items -> Places]
    BY DEF TypeOK, Places
  <2>3. UNCHANGED <<parkExists, meta, history, boundVars>>
    OBVIOUS
  <2> HIDE DEF Succeed
  <2> QED BY <2>1, <2>2, <2>3, ForgetType DEF TypeOK
<1>2. CallOK'
  BY DEF CallOK, TypeOK, Forget, Return
<1>3. \A i \in Items : at'[i] = at[i] \/ (at[i] = active /\ at'[i] = "deleted")
  BY DEF In
<1>4. /\ pc = "discard" /\ pc' = "idle" /\ active' = Nobody /\ placed' = {} /\ parked' = {}
      /\ session' = [session EXCEPT ![active] = "done"]
  BY DEF Return, Forget
<1>5. active \in Sessions /\ active \notin {"root", "park", "unborn", "taken"}
  BY ActiveIsSession
<1>6. UNCHANGED <<parkExists, meta, metaBefore, before, owned, taken>>
  OBVIOUS
<1> HIDE DEF Succeed
<1>7. ParkOK'
  BY <1>3, <1>4, <1>5, <1>6 DEF ParkOK, In, NamesIn
<1>8. StagingOK'
  <2>1. \A s \in Sessions : session'[s] \in {"none", "idle"} => session'[s] = session[s] /\ s # active
    BY <1>4, <1>5 DEF TypeOK
  <2> QED BY <2>1, <1>3, <1>4, <1>5 DEF StagingOK, TypeOK
<1>9. LibraryOK'
  BY <1>3, <1>4, <1>5, <1>6 DEF LibraryOK, TypeOK
<1>10. MetaOK' /\ TakenOK'
  BY <1>3, <1>4, <1>6 DEF MetaOK, TakenOK
<1> QED BY <1>1, <1>2, <1>7, <1>8, <1>9, <1>10

-----------------------------------------------------------------------------
(* The renames: one lemma each, one step for each part of the invariant. *)
LEMMA ParkInv == ASSUME RestoreInv, NEW n \in Names, Park(n) PROVE RestoreInv'
<1> USE RestoreAssumption DEF RestoreInv, history
<1>1. UNCHANGED <<parkExists, meta, toPlace, placed, before, metaBefore, owned, leftovers, taken,
                  cancels, crashes, session, active, cancel, outcome>>
  BY DEF Park, Goto, Proceed, errors, RollBack
<1>2. pc = "park" /\ n \in toPark /\ active \in Sessions /\ failures' \in Nat
  BY InjectType, ActiveIsSession DEF Park
<1>3. CASE MoveEntry(n, "root", "park") /\ toPark' = toPark \ {n} /\ parked' = parked \cup {n}
             /\ pc' = "park" /\ UNCHANGED <<cause, broken>>
  <2>1. \A i \in Items : at'[i] = IF at[i] = "root" /\ NameOf[i] = n THEN "park"
                                  ELSE IF at[i] = "park" /\ NameOf[i] = n THEN "replaced" ELSE at[i]
    BY <1>3, Moved DEF Places
  <2>2. TypeOK'
    BY <1>1, <1>2, <1>3, Moved DEF TypeOK, Places, Steps
  <2>3. CallOK' /\ MetaOK'
    BY <1>1, <1>2, <1>3 DEF CallOK, MetaOK
  <2>4. ParkOK'
    BY <1>1, <1>2, <1>3, <2>1 DEF ParkOK, NamesIn, In
  <2>5. StagingOK'
    BY <1>1, <1>2, <1>3, <2>1, <2>2 DEF StagingOK, TypeOK, CallOK
  <2>6. LibraryOK'
    <3>1. \A i \in Items : at[i] = "park" => NameOf[i] # n
      BY <1>2 DEF ParkOK, CallOK, NamesIn, In
    <3> QED BY <1>1, <1>2, <1>3, <2>1, <3>1 DEF LibraryOK, TypeOK
  <2>7. TakenOK'
    BY <1>1, <2>1 DEF TakenOK
  <2> QED BY <2>2, <2>3, <2>4, <2>5, <2>6, <2>7
<1>4. CASE RollBack("error") /\ UNCHANGED <<at, toPark, parked>>
  BY <1>1, <1>2, <1>4, GiveUpInv DEF Park, disk, moves
<1> QED BY <1>3, <1>4 DEF Park, Goto, Proceed, errors

LEMMA PlaceInv == ASSUME RestoreInv, NEW n \in Names, Place(n) PROVE RestoreInv'
<1> USE RestoreAssumption DEF RestoreInv, history
<1>1. UNCHANGED <<parkExists, meta, toPark, parked, before, metaBefore, owned, leftovers, taken,
                  cancels, crashes, session, active, cancel, outcome>>
  BY DEF Place, Goto, Proceed, errors, RollBack
<1>2. pc = "place" /\ n \in toPlace /\ active \in Sessions /\ failures' \in Nat
  BY InjectType, ActiveIsSession DEF Place
<1>3. CASE MoveEntry(n, active, "root") /\ toPlace' = toPlace \ {n} /\ placed' = placed \cup {n}
             /\ pc' = "place" /\ UNCHANGED <<cause, broken>>
  <2>1. /\ at' \in [Items -> Places]
        /\ \A i \in Items : at'[i] = IF at[i] = active /\ NameOf[i] = n THEN "root"
                                     ELSE IF at[i] = "root" /\ NameOf[i] = n THEN "replaced" ELSE at[i]
    BY <1>2, <1>3, Moved DEF Places
  <2>2. TypeOK'
    BY <1>1, <1>2, <1>3, <2>1 DEF TypeOK, Steps
  <2>3. CallOK' /\ MetaOK'
    BY <1>1, <1>2, <1>3 DEF CallOK, MetaOK
  <2>4. ParkOK'
    BY <1>1, <1>2, <1>3, <2>1 DEF ParkOK, NamesIn, In
  <2>5. StagingOK'
    BY <1>1, <1>2, <1>3, <2>1, <2>2 DEF StagingOK, TypeOK, CallOK
  <2>6. LibraryOK'
    BY <1>1, <1>2, <1>3, <2>1 DEF LibraryOK, TypeOK
  <2>7. TakenOK'
    BY <1>1, <1>2, <2>1 DEF TakenOK
  <2> QED BY <2>2, <2>3, <2>4, <2>5, <2>6, <2>7
<1>4. CASE RollBack("error") /\ UNCHANGED <<at, toPlace, placed>>
  BY <1>1, <1>2, <1>4, GiveUpInv DEF Place, disk, moves
<1> QED BY <1>3, <1>4 DEF Place, Goto, Proceed, errors

LEMMA UnplaceInv == ASSUME RestoreInv, NEW n \in Names, Unplace(n) PROVE RestoreInv'
<1> USE RestoreAssumption DEF RestoreInv, history, call
<1>1. /\ UNCHANGED <<parkExists, meta, toPark, toPlace, parked, cause, before, metaBefore, owned,
                     leftovers, taken, cancels, crashes, session, active, cancel, pc, outcome>>
      /\ placed' = placed \ {n}
  BY DEF Unplace
<1>2. pc = "rollback" /\ n \in placed /\ active \in Sessions /\ failures' \in Nat
  BY InjectType, ActiveIsSession DEF Unplace
<1>3. CallOK'
  BY <1>1, <1>2 DEF CallOK
<1>4. CASE MoveEntry(n, "root", active) /\ UNCHANGED broken
  <2>1. /\ at' \in [Items -> Places]
        /\ \A i \in Items : at'[i] = IF at[i] = "root" /\ NameOf[i] = n THEN active
                                     ELSE IF at[i] = active /\ NameOf[i] = n THEN "replaced" ELSE at[i]
    BY <1>2, <1>4, Moved DEF Places
  <2>2. TypeOK'
    BY <1>1, <1>2, <1>4, <2>1 DEF TypeOK
  <2>3. ParkOK'
    BY <1>1, <1>2, <1>4, <2>1 DEF ParkOK, NamesIn, In
  <2>4. StagingOK'
    BY <1>1, <1>2, <1>4, <2>1, <2>2 DEF StagingOK, TypeOK, CallOK
  <2>5. LibraryOK'
    BY <1>1, <1>2, <1>4, <2>1 DEF LibraryOK, TypeOK
  <2>6. MetaOK' /\ TakenOK'
    BY <1>1, <1>2, <2>1 DEF MetaOK, TakenOK
  <2> QED BY <1>3, <2>2, <2>3, <2>4, <2>5, <2>6
<1>5. CASE broken' = TRUE /\ UNCHANGED at
  <2>1. TypeOK'
    BY <1>1, <1>2, <1>5 DEF TypeOK
  <2>2. ParkOK' /\ StagingOK' /\ LibraryOK'
    BY <1>1, <1>2, <1>5 DEF ParkOK, In, NamesIn, StagingOK, LibraryOK
  <2> QED BY <1>1, <1>3, <1>5, <2>1, <2>2 DEF MetaOK, TakenOK
<1> QED BY <1>4, <1>5 DEF Unplace

LEMMA UnparkInv == ASSUME RestoreInv, NEW n \in Names, Unpark(n) PROVE RestoreInv'
<1> USE RestoreAssumption DEF RestoreInv, history, call
<1>1. /\ UNCHANGED <<parkExists, meta, toPark, toPlace, placed, cause, before, metaBefore, owned,
                     leftovers, taken, cancels, crashes, session, active, cancel, pc, outcome>>
      /\ parked' = parked \ {n}
  BY DEF Unpark
<1>2. pc = "rollback" /\ placed = {} /\ n \in parked /\ active \in Sessions /\ failures' \in Nat
  BY InjectType, ActiveIsSession DEF Unpark
<1>3. CallOK'
  BY <1>1, <1>2 DEF CallOK
<1>4. CASE MoveEntry(n, "park", "root") /\ UNCHANGED broken
  <2>1. /\ at' \in [Items -> Places]
        /\ \A i \in Items : at'[i] = IF at[i] = "park" /\ NameOf[i] = n THEN "root"
                                     ELSE IF at[i] = "root" /\ NameOf[i] = n THEN "replaced" ELSE at[i]
    BY <1>2, <1>4, Moved DEF Places
  <2>2. TypeOK'
    BY <1>1, <1>2, <1>4, <2>1 DEF TypeOK
  <2>3. ParkOK'
    BY <1>1, <1>2, <1>4, <2>1 DEF ParkOK, NamesIn, In
  <2>4. StagingOK'
    BY <1>1, <1>2, <1>4, <2>1, <2>2 DEF StagingOK, TypeOK, CallOK
  <2>5. LibraryOK'
    BY <1>1, <1>2, <1>4, <2>1 DEF LibraryOK, TypeOK
  <2>6. MetaOK' /\ TakenOK'
    BY <1>1, <1>2, <2>1 DEF MetaOK, TakenOK
  <2> QED BY <1>3, <2>2, <2>3, <2>4, <2>5, <2>6
<1>5. CASE broken' = TRUE /\ UNCHANGED at
  <2>1. TypeOK'
    BY <1>1, <1>2, <1>5 DEF TypeOK
  <2>2. ParkOK' /\ StagingOK' /\ LibraryOK'
    BY <1>1, <1>2, <1>5 DEF ParkOK, In, NamesIn, StagingOK, LibraryOK
  <2> QED BY <1>1, <1>3, <1>5, <2>1, <2>2 DEF MetaOK, TakenOK
<1> QED BY <1>4, <1>5 DEF Unpark

-----------------------------------------------------------------------------
LEMMA NextRestore == RestoreInv /\ [Next]_vars => RestoreInv'
<1> SUFFICES ASSUME RestoreInv, [Next]_vars PROVE RestoreInv'
  OBVIOUS
<1>1. CASE UNCHANGED vars
  BY <1>1 DEF RestoreInv, TypeOK, CallOK, ParkOK, StagingOK, LibraryOK, MetaOK, TakenOK, In, NamesIn,
     vars, disk, call, moves, errors, history, boundVars
<1>2. ASSUME NEW s \in Sessions, Preview(s) \/ Discard(s) \/ Apply(s) PROVE RestoreInv'
  BY <1>2, PreviewInv, DiscardInv, ApplyInv
<1>3. ASSUME NEW i \in Items, Arrive(i) \/ Take(i) \/ RemoveParked(i) PROVE RestoreInv'
  BY <1>3, ArriveInv, TakeInv, RemoveParkedInv
<1>4. CASE CancelRestore \/ Crash
  BY <1>4, CancelInv, CrashInv
<1>5. CASE Work
  BY <1>3, <1>5, BeginInv, ListInv, AllParkedInv, AllPlacedInv, SeeCancelInv, RestoreMetadataInv, ScanInv,
     CleanInv, SucceedInv, RolledBackInv, ParkInv, PlaceInv, UnplaceInv, UnparkInv DEF Work
<1> QED BY <1>1, <1>2, <1>3, <1>4, <1>5 DEF Next

-----------------------------------------------------------------------------
(* The variables keep their types. *)
THEOREM RestoreTypeCorrect == Spec => []TypeOK
<1> QED BY InitRestore, NextRestore, PTL DEF Spec, RestoreInv

(* A session that CanRetry reports has its whole backup in its tree, for   *)
(* any number of restores, failed returns, cancellations and kills, as     *)
(* long as no other program took an entry.                                 *)
THEOREM RetryIsComplete == Spec => []RetryMeansComplete
<1>1. RestoreInv => RetryMeansComplete
  BY RestoreAssumption DEF RestoreInv, StagingOK, TakenOK, RetryMeansComplete
<1> QED BY InitRestore, NextRestore, <1>1, PTL DEF Spec

(* A step that destroys an entry of a library removes it from the park of  *)
(* a verified restore that had listed it.                                  *)
LEMMA StepLosesNothing ==
  ASSUME RestoreInv, [Next]_vars, NEW i \in owned, at'[i] \in {"replaced", "deleted"}, at'[i] # at[i]
  PROVE  i \in before /\ pc = "clean" /\ \A j \in Staged[active] : at'[j] \in {"root", "taken"}
<1> USE RestoreAssumption DEF RestoreInv
<1>1. i \in Items /\ TypeOK /\ at[i] \in {"root", "park", "deleted", "replaced", "taken"}
  BY DEF LibraryOK, TypeOK
<1>2. ASSUME NEW s \in Sessions, Preview(s) \/ Discard(s) \/ Apply(s) PROVE FALSE
  BY <1>1, <1>2 DEF Preview, Discard, Apply, disk
<1>3. ASSUME NEW j \in Items, Arrive(j) \/ Take(j) PROVE FALSE
  BY <1>1, <1>3 DEF Arrive, Take, TypeOK
<1>4. ASSUME NEW n \in Names, Park(n) PROVE FALSE
  <2>1. MoveEntry(n, "root", "park") /\ n \notin parked /\ pc = "park"
    BY <1>1, <1>4 DEF Park, CallOK
  <2>2. at[i] = "park" => NameOf[i] # n
    BY <1>1, <2>1 DEF ParkOK, CallOK, In, NamesIn
  <2>3. at'[i] = IF at[i] = "root" /\ NameOf[i] = n THEN "park" ELSE at[i]
    BY <1>1, <2>1, <2>2, Moved DEF Places
  <2> QED BY <2>3
<1>5. ASSUME NEW n \in Names, Place(n) PROVE FALSE
  <2>1. MoveEntry(n, active, "root") /\ pc = "place" /\ active \in Sessions
    BY <1>1, <1>5, ActiveIsSession DEF Place
  <2>2. at[i] # "root" /\ at[i] # active
    BY <1>1, <2>1 DEF LibraryOK
  <2>3. at'[i] = at[i]
    BY <1>1, <2>1, <2>2, Moved DEF Places
  <2> QED BY <2>3
<1>6. ASSUME NEW n \in Names, Unplace(n) PROVE FALSE
  <2>1. MoveEntry(n, "root", active) /\ active \in Sessions
    BY <1>1, <1>6, ActiveIsSession DEF Unplace
  <2>2. at[i] # active /\ active \in Places /\ "root" \in Places /\ active # "root"
    BY <1>1, <2>1 DEF Places
  <2>3. at'[i] = IF at[i] = "root" /\ NameOf[i] = n THEN active ELSE at[i]
    BY <1>1, <2>1, <2>2, Moved
  <2> QED BY <2>1, <2>3
<1>7. ASSUME NEW n \in Names, Unpark(n) PROVE FALSE
  <2>1. MoveEntry(n, "park", "root") /\ pc = "rollback" /\ n \in parked
    BY <1>1, <1>7 DEF Unpark
  <2>2. ~(at[i] = "root" /\ NameOf[i] = n)
    BY <1>1, <2>1 DEF LibraryOK
  <2>3. at'[i] \in {at[i], "root"}
    BY <1>1, <2>1, <2>2, Moved, ZenonT(60) DEF Places
  <2> QED BY <2>3
<1>8. ASSUME Succeed PROVE FALSE
  <2>1. active \in Sessions /\ at[i] # active
    BY <1>1, <1>8, ActiveIsSession DEF Succeed
  <2> QED BY <1>1, <1>8, <2>1 DEF Succeed, In
<1>9. ASSUME NEW j \in Items, RemoveParked(j)
      PROVE  i \in before /\ pc = "clean" /\ \A k \in Staged[active] : at'[k] \in {"root", "taken"}
  <2>1. pc = "clean" /\ active \in Sessions /\ toPlace = {}
    BY <1>9, ActiveIsSession DEF RemoveParked, CallOK
  <2>2. \A k \in Items : at'[k] = at[k] \/ at[k] = "park"
    BY <1>1, <1>9 DEF RemoveParked, TypeOK
  <2>3. i \in before
    BY <1>1, <2>1, <2>2 DEF LibraryOK
  <2>4. \A k \in Staged[active] : k \in Items /\ at[k] \in {"root", "taken"}
    BY <2>1 DEF StagingOK
  <2> QED BY <2>1, <2>2, <2>3, <2>4
<1>10. UNCHANGED at => FALSE
  OBVIOUS
<1> QED BY <1>2, <1>3, <1>4, <1>5, <1>6, <1>7, <1>8, <1>9, <1>10
        DEF Next, Work, vars, disk, CancelRestore, Crash, Begin, List, AllParked, AllPlaced, SeeCancel,
            RestoreMetadata, Scan, Clean, RolledBack

(* No entry of a library is destroyed but by a restore that had listed it  *)
(* and has its whole backup in the root, whatever fails, is cancelled or   *)
(* killed in it or in the restores before and after it.                    *)
THEOREM LibraryIsNeverLost == Spec => NothingLost
<1>1. RestoreInv /\ [Next]_vars =>
        [\A i \in owned : at'[i] \in {"replaced", "deleted"} /\ at'[i] # at[i]
           => /\ i \in before /\ pc = "clean"
              /\ \A j \in Staged[active] : at'[j] \in {"root", "taken"}]_vars
  BY StepLosesNothing
<1> QED BY InitRestore, NextRestore, <1>1, PTL DEF Spec, NothingLost

(* How a call ends: cancelled before it began or rolled back completely,   *)
(* or done.                                                                *)
LEMMA StepEnds ==
  ASSUME RestoreInv, [Next]_vars, outcome = "none", outcome' \in {"cancelled", "ok"}
  PROVE  \/ Begin /\ pc = "begin" /\ UNCHANGED disk
         \/ RolledBack /\ cause = "cancelled" /\ ~broken /\ UNCHANGED <<at, meta>>
         \/ Succeed /\ outcome' = "ok"
<1>1. CASE Begin
  BY <1>1 DEF Begin, Return, Proceed, errors, disk
<1>2. CASE RolledBack
  BY <1>2 DEF RolledBack, Return
<1>3. CASE Succeed
  BY <1>3 DEF Succeed, Return
<1>4. UNCHANGED outcome \/ Crash \/ (\E s \in Sessions : Apply(s)) => FALSE
  BY DEF Crash, Apply
<1> QED BY <1>1, <1>2, <1>3, <1>4
        DEF Next, Work, vars, errors, Preview, Discard, CancelRestore, Arrive, Take, List, AllParked,
            AllPlaced, SeeCancel, RestoreMetadata, Scan, RemoveParked, Clean, Park, Place, Unplace, Unpark,
            RollBack, Proceed

(* A restore reported as cancelled has put every entry back that no other  *)
(* program took, and has not touched the metadata.                         *)
THEOREM CancelledIsIntact == Spec => CancelledMeansIntact
<1>1. ASSUME RestoreInv, [Next]_vars, outcome = "none", outcome' = "cancelled"
      PROVE  (\A i \in before : at'[i] \in {"root", "taken"}) /\ meta' = metaBefore
  <2>1. CASE Begin /\ pc = "begin" /\ UNCHANGED disk
    BY <1>1, <2>1 DEF RestoreInv, LibraryOK, MetaOK, disk
  <2>2. CASE RolledBack /\ cause = "cancelled" /\ ~broken /\ UNCHANGED <<at, meta>>
    <3>1. pc = "rollback" /\ parked = {} /\ placed = {}
      BY <2>2 DEF RolledBack
    <3>2. \A i \in before : at[i] \in {"root", "park", "taken"} /\ i \in Items
      BY <1>1, <3>1 DEF RestoreInv, LibraryOK, TypeOK
    <3>3. \A i \in Items : at[i] # "park"
      BY <1>1, <2>2, <3>1 DEF RestoreInv, ParkOK, In, NamesIn
    <3> QED BY <1>1, <2>2, <3>1, <3>2, <3>3 DEF RestoreInv, MetaOK
  <2> QED BY <1>1, <2>1, <2>2, StepEnds
<1>2. RestoreInv /\ [Next]_vars => [outcome = "none" /\ outcome' = "cancelled" =>
         (\A i \in before : at'[i] \in {"root", "taken"}) /\ meta' = metaBefore]_vars
  BY <1>1
<1> QED BY InitRestore, NextRestore, <1>2, PTL DEF Spec, CancelledMeansIntact

(* A restore reported as done has the whole backup in the root, but for    *)
(* what another program took, and nothing of the library it replaced.      *)
THEOREM RestoredIsWhole == Spec => SuccessIsWhole
<1>1. ASSUME RestoreInv, [Next]_vars, outcome = "none", outcome' = "ok"
      PROVE  /\ \A i \in Staged[active] : at'[i] \in {"root", "taken"}
             /\ \A i \in before : at'[i] # "root"
  <2>1. Succeed
    BY <1>1, StepEnds DEF Begin, RolledBack, Return, Proceed, errors
  <2>2. pc = "discard" /\ active \in Sessions /\ toPlace = {} /\ before \subseteq Items
    BY <1>1, <2>1, ActiveIsSession DEF Succeed, RestoreInv, CallOK, TypeOK
  <2>3. \A i \in Items : at'[i] = at[i] \/ (at[i] = active /\ at'[i] = "deleted")
    BY <2>1 DEF Succeed, In
  <2>4. \A i \in Staged[active] : at[i] \in {"root", "taken"} /\ i \in Items
    BY <1>1, <2>2, RestoreAssumption DEF RestoreInv, StagingOK
  <2>5. \A i \in before : at[i] # "root"
    BY <1>1, <2>2 DEF RestoreInv, LibraryOK
  <2> QED BY <2>2, <2>3, <2>4, <2>5, RestoreAssumption
<1>2. RestoreInv /\ [Next]_vars => [outcome = "none" /\ outcome' = "ok" =>
         /\ \A i \in Staged[active] : at'[i] \in {"root", "taken"}
         /\ \A i \in before : at'[i] # "root"]_vars
  BY <1>1
<1> QED BY InitRestore, NextRestore, <1>2, PTL DEF Spec, SuccessIsWhole
=============================================================================
