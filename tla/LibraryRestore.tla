--------------------------- MODULE LibraryRestore ---------------------------
(***************************************************************************)
(* Restoring the library from a staged backup (internal/backup/restore.go, *)
(* service_backup.go): every entry of the mod root is moved into a park    *)
(* beside it, every staged entry is moved in, the metadata is saved and    *)
(* the library scanned; a failure or a cancellation moves everything back. *)
(*                                                                         *)
(* An entry is a direct child of the mod root, the park or a staging tree  *)
(* and carries everything below it.  Each rename is a step: other programs *)
(* may add or take entries in between, the user may cancel, the process    *)
(* may be killed.                                                          *)
(*                                                                         *)
(* Abstracted: archives are already extracted; the 12 attempts of          *)
(* retryOperation count as one rename, which fails if the last attempt     *)
(* does; entries are moved in any order.                                   *)
(***************************************************************************)
EXTENDS Naturals, FiniteSets

CONSTANTS
  Items,        \* entries, each with an identity of its own
  NameOf,       \* their names
  Dirs,         \* those that are directories
  OldItems,     \* entries of the library at the start
  Sessions,     \* previewed backups, each with a staging tree of its own
  Staged,       \* the entries of each
  Nobody,       \* no restore is active
  SameVolume,   \* the temporary directory is on the library's volume
  MaxFailures,  \* bound: system calls that fail for reasons of their own
  MaxLeftovers, \* bound: parks that cannot be removed
  MaxTaken,     \* bound: entries another program removes
  MaxCancels,   \* bound: clicks on cancel
  MaxCrashes    \* bound: times the process is killed

ASSUME RestoreAssumption ==
  /\ OldItems \subseteq Items /\ Dirs \subseteq Items
  /\ DOMAIN NameOf = Items
  /\ Staged \in [Sessions -> SUBSET (Items \ OldItems)]
  /\ \A s, t \in Sessions : s # t => Staged[s] \cap Staged[t] = {}
  /\ Nobody \notin Sessions /\ SameVolume \in BOOLEAN
  /\ Sessions \cap {"root", "park", "unborn", "deleted", "replaced", "taken"} = {}
  /\ MaxFailures \in Nat /\ MaxLeftovers \in Nat /\ MaxTaken \in Nat
  /\ MaxCancels \in Nat /\ MaxCrashes \in Nat

Names == {NameOf[i] : i \in Items}
Outsiders == Items \ (OldItems \cup UNION {Staged[s] : s \in Sessions})
Places == Sessions \cup {"root", "park", "unborn", "deleted", "replaced", "taken"}

VARIABLES
  at,          \* where each entry is; a session stands for its staging tree
  parkExists,  \* the directory <root>.restore-park is there
  meta,        \* the session whose metadata is current, Nobody for the first one
  session,     \* idle sessions are the ones in the manager's map
  active,      \* the session Apply works on (restoreCancel is set)
  cancel,      \* its context is cancelled
  pc,          \* the step Apply is at
  toPark, toPlace,      \* names still to be moved
  parked, placed,       \* names moved, that a rollback has yet to return
  cause,       \* why it rolls back
  broken,      \* a return move failed
  outcome,     \* how the last Apply ended
  before,      \* history: the library as Apply listed it
  metaBefore,  \* history: the metadata Apply found
  owned,       \* history: entries that were in a library Apply listed
  failures, leftovers, taken, cancels, crashes    \* counters of the bounds

disk == <<at, parkExists, meta>>
call == <<session, active, cancel, pc>>
moves == <<toPark, toPlace, parked, placed>>
errors == <<cause, broken, outcome>>
history == <<before, metaBefore, owned>>
boundVars == <<failures, leftovers, taken, cancels, crashes>>
vars == <<disk, call, moves, errors, history, boundVars>>

Init ==
  /\ at = [i \in Items |-> IF i \in OldItems THEN "root" ELSE "unborn"]
  /\ parkExists = FALSE /\ meta = Nobody
  /\ session = [s \in Sessions |-> "none"]
  /\ active = Nobody /\ cancel = FALSE /\ pc = "idle"
  /\ toPark = {} /\ toPlace = {} /\ parked = {} /\ placed = {}
  /\ cause = "none" /\ broken = FALSE /\ outcome = "none"
  /\ before = {} /\ metaBefore = Nobody /\ owned = {}
  /\ failures = 0 /\ leftovers = 0 /\ taken = 0 /\ cancels = 0 /\ crashes = 0

-----------------------------------------------------------------------------
(* Directories and os.Rename.                                              *)

In(place) == {i \in Items : at[i] = place}
Named(place, n) == {i \in In(place) : NameOf[i] = n}
NamesIn(place) == {NameOf[i] : i \in In(place)}

(* os.Rename replaces a file by a file, nothing else, and does not cross   *)
(* volumes; the staging tree is below os.TempDir.                          *)
CanMove(n, from, to) ==
  /\ Named(from, n) # {}
  /\ {from, to} \cap Sessions = {} \/ SameVolume
  /\ Named(to, n) # {} => (Named(from, n) \cup Named(to, n)) \cap Dirs = {}

MoveEntry(n, from, to) ==
  at' = [i \in Items |-> CASE i \in Named(from, n) -> to
                           [] i \in Named(to, n) -> "replaced"
                           [] OTHER -> at[i]]

InjectFailure == failures < MaxFailures /\ failures' = failures + 1

Goto(step) == pc' = step /\ UNCHANGED <<session, active, cancel>>
Proceed == UNCHANGED errors

(* The variables of a call end with it. *)
Forget ==
  /\ pc' = "idle" /\ active' = Nobody /\ cancel' = FALSE
  /\ toPark' = {} /\ toPlace' = {} /\ parked' = {} /\ placed' = {}
  /\ cause' = "none" /\ broken' = FALSE

(* Apply returns; a retained session goes back into the map. *)
Return(result, state) ==
  /\ Forget
  /\ session' = [session EXCEPT ![active] = state]
  /\ outcome' = result

(* rollback(cause, parked, placed) *)
RollBack(why) ==
  /\ Goto("rollback")
  /\ cause' = why /\ broken' = FALSE /\ UNCHANGED outcome

-----------------------------------------------------------------------------
(* The calls of the Tools dialog.                                          *)

Preview(s) ==
  /\ session[s] = "none" /\ session' = [session EXCEPT ![s] = "idle"]
  /\ at' = [i \in Items |-> IF i \in Staged[s] THEN s ELSE at[i]]
  /\ UNCHANGED <<parkExists, meta, active, cancel, pc, moves, errors, history, boundVars>>

(* DiscardSession finds idle sessions only. *)
Discard(s) ==
  /\ session[s] = "idle" /\ session' = [session EXCEPT ![s] = "done"]
  /\ at' = [i \in Items |-> IF at[i] = s THEN "deleted" ELSE at[i]]
  /\ UNCHANGED <<parkExists, meta, active, cancel, pc, moves, errors, history, boundVars>>

(* RestoreApply: one at a time, and the session leaves the map. *)
Apply(s) ==
  /\ active = Nobody /\ session[s] = "idle"
  /\ active' = s /\ session' = [session EXCEPT ![s] = "active"]
  /\ pc' = "begin" /\ outcome' = "none"
  /\ before' = In("root") /\ metaBefore' = meta
  /\ UNCHANGED <<disk, cancel, moves, cause, broken, owned, boundVars>>

CancelRestore ==
  /\ active # Nobody /\ ~cancel /\ cancels < MaxCancels
  /\ cancel' = TRUE /\ cancels' = cancels + 1
  /\ UNCHANGED <<disk, session, active, pc, moves, errors, history, failures, leftovers, taken, crashes>>

-----------------------------------------------------------------------------
(* SessionManager.Apply, parkAndPlace.                                     *)

(* Fault: a park that is already there is used. *)
BeginAnyPark ==
  /\ pc = "begin"
  /\ IF cancel THEN Return("cancelled", "idle") /\ UNCHANGED parkExists
     ELSE parkExists' = TRUE /\ Goto("list") /\ Proceed /\ UNCHANGED moves
  /\ UNCHANGED <<at, meta, history, boundVars>>

(* A park left over by an earlier restore refuses the call. *)
Begin ==
  /\ pc = "begin"
  /\ \/ cancel /\ Return("cancelled", "idle") /\ UNCHANGED <<parkExists, failures>>
     \/ ~cancel /\ parkExists /\ Return("failed", "idle") /\ UNCHANGED <<parkExists, failures>>
     \/ /\ ~cancel /\ ~parkExists /\ parkExists' = TRUE /\ Goto("list") /\ Proceed
        /\ UNCHANGED <<moves, failures>>
     \/ InjectFailure /\ ~cancel /\ Return("failed", "idle") /\ UNCHANGED parkExists
  /\ UNCHANGED <<at, meta, history, leftovers, taken, cancels, crashes>>

(* Fault: what is listed are paths, which are then joined as names. *)
ListPaths ==
  /\ pc = "list"
  /\ toPark' = In("root") /\ toPlace' = NamesIn(active)
  /\ before' = In("root") /\ owned' = owned \cup In("root")
  /\ Goto("park") /\ Proceed
  /\ UNCHANGED <<disk, parked, placed, metaBefore, boundVars>>

List ==
  /\ pc = "list"
  /\ toPark' = NamesIn("root") /\ toPlace' = NamesIn(active)
  /\ before' = In("root") /\ owned' = owned \cup In("root")
  /\ \/ Goto("park") /\ Proceed /\ UNCHANGED failures
     \/ InjectFailure /\ RollBack("error")
  /\ UNCHANGED <<disk, parked, placed, metaBefore, leftovers, taken, cancels, crashes>>

(* One entry of the library into the park. *)
Park(n) ==
  /\ pc = "park" /\ ~cancel /\ n \in toPark
  /\ \/ /\ CanMove(n, "root", "park") /\ MoveEntry(n, "root", "park")
        /\ toPark' = toPark \ {n} /\ parked' = parked \cup {n}
        /\ Goto("park") /\ Proceed /\ UNCHANGED failures
     \/ /\ IF CanMove(n, "root", "park") THEN InjectFailure ELSE UNCHANGED failures
        /\ RollBack("error") /\ UNCHANGED <<at, toPark, parked>>
  /\ UNCHANGED <<parkExists, meta, toPlace, placed, history, leftovers, taken, cancels, crashes>>

AllParked ==
  /\ pc = "park" /\ toPark = {}
  /\ Goto("place") /\ Proceed
  /\ UNCHANGED <<disk, moves, history, boundVars>>

(* Fault: the name is not recorded, a rollback will not return it. *)
PlaceUnrecorded(n) ==
  /\ pc = "place" /\ ~cancel /\ n \in toPlace
  /\ IF CanMove(n, active, "root")
     THEN MoveEntry(n, active, "root") /\ toPlace' = toPlace \ {n} /\ Goto("place") /\ Proceed
     ELSE RollBack("error") /\ UNCHANGED <<at, toPlace>>
  /\ UNCHANGED <<parkExists, meta, toPark, parked, placed, history, boundVars>>

(* Fault: an entry that cannot be placed is skipped. *)
PlaceSkips(n) ==
  /\ pc = "place" /\ ~cancel /\ n \in toPlace /\ toPlace' = toPlace \ {n}
  /\ IF CanMove(n, active, "root")
     THEN MoveEntry(n, active, "root") /\ placed' = placed \cup {n} ELSE UNCHANGED <<at, placed>>
  /\ Goto("place") /\ Proceed
  /\ UNCHANGED <<parkExists, meta, toPark, parked, history, boundVars>>

(* One staged entry into the library. *)
Place(n) ==
  /\ pc = "place" /\ ~cancel /\ n \in toPlace
  /\ \/ /\ CanMove(n, active, "root") /\ MoveEntry(n, active, "root")
        /\ toPlace' = toPlace \ {n} /\ placed' = placed \cup {n}
        /\ Goto("place") /\ Proceed /\ UNCHANGED failures
     \/ /\ IF CanMove(n, active, "root") THEN InjectFailure ELSE UNCHANGED failures
        /\ RollBack("error") /\ UNCHANGED <<at, toPlace, placed>>
  /\ UNCHANGED <<parkExists, meta, toPark, parked, history, leftovers, taken, cancels, crashes>>

AllPlaced ==
  /\ pc = "place" /\ toPlace = {}
  /\ Goto("meta") /\ Proceed
  /\ UNCHANGED <<disk, moves, history, boundVars>>

(* The context is looked at before each move, not after the last one. *)
SeeCancel ==
  /\ cancel
  /\ \/ pc = "park" /\ toPark # {}
     \/ pc = "place" /\ toPlace # {}
  /\ RollBack("cancelled")
  /\ UNCHANGED <<disk, moves, history, boundVars>>

(* restoreMetadata: saved, kept because the backup has none this build     *)
(* understands, or failed.                                                 *)
RestoreMetadata ==
  /\ pc = "meta"
  /\ \/ meta' \in {active, meta} /\ Goto("scan") /\ Proceed /\ UNCHANGED failures
     \/ InjectFailure /\ RollBack("error") /\ UNCHANGED meta
  /\ UNCHANGED <<at, parkExists, moves, history, leftovers, taken, cancels, crashes>>

Scan ==
  /\ pc = "scan"
  /\ \/ Goto("clean") /\ Proceed /\ UNCHANGED failures
     \/ InjectFailure /\ RollBack("error")
  /\ UNCHANGED <<disk, moves, history, leftovers, taken, cancels, crashes>>

(* os.RemoveAll of the park, entry by entry; its failure is ignored.  An   *)
(* entry counts as deleted once anything of it is gone.                    *)
RemoveParked(i) ==
  /\ pc = "clean" /\ at[i] = "park"
  /\ at' = [at EXCEPT ![i] = "deleted"]
  /\ UNCHANGED <<parkExists, meta, call, moves, errors, history, boundVars>>

Clean ==
  /\ pc = "clean"
  /\ \/ In("park") = {} /\ parkExists' = FALSE /\ UNCHANGED leftovers
     \/ leftovers < MaxLeftovers /\ leftovers' = leftovers + 1 /\ UNCHANGED parkExists
  /\ Goto("discard") /\ Proceed
  /\ UNCHANGED <<at, meta, moves, history, failures, taken, cancels, crashes>>

(* os.RemoveAll of the staging tree, then Apply returns. *)
Succeed ==
  /\ pc = "discard"
  /\ \E left \in SUBSET In(active) :
       at' = [i \in Items |-> IF i \in In(active) \ left THEN "deleted" ELSE at[i]]
  /\ Return("ok", "done")
  /\ UNCHANGED <<parkExists, meta, history, boundVars>>

-----------------------------------------------------------------------------
(* rollbackPark: every return move is tried, whatever happened before.     *)

Unplace(n) ==
  /\ pc = "rollback" /\ n \in placed /\ placed' = placed \ {n}
  /\ \/ /\ CanMove(n, "root", active) /\ MoveEntry(n, "root", active)
        /\ UNCHANGED <<broken, failures>>
     \/ /\ IF CanMove(n, "root", active) THEN InjectFailure ELSE UNCHANGED failures
        /\ broken' = TRUE /\ UNCHANGED at
  /\ UNCHANGED <<parkExists, meta, call, toPark, toPlace, parked, cause, outcome, history,
                 leftovers, taken, cancels, crashes>>

Unpark(n) ==
  /\ pc = "rollback" /\ placed = {} /\ n \in parked /\ parked' = parked \ {n}
  /\ \/ /\ CanMove(n, "park", "root") /\ MoveEntry(n, "park", "root")
        /\ UNCHANGED <<broken, failures>>
     \/ /\ IF CanMove(n, "park", "root") THEN InjectFailure ELSE UNCHANGED failures
        /\ broken' = TRUE /\ UNCHANGED at
  /\ UNCHANGED <<parkExists, meta, call, toPark, toPlace, placed, cause, outcome, history,
                 leftovers, taken, cancels, crashes>>

(* Fault: a failed return move is forgotten. *)
RolledBackAnyway ==
  /\ pc = "rollback" /\ placed = {} /\ parked = {}
  /\ parkExists' = FALSE
  /\ Return(IF cause = "cancelled" THEN "cancelled" ELSE "failed", "idle")
  /\ UNCHANGED <<at, meta, history, boundVars>>

(* Fault: the empty park is left behind. *)
RolledBackKeepPark ==
  /\ pc = "rollback" /\ placed = {} /\ parked = {}
  /\ IF broken THEN Return("stuck", "done")
     ELSE Return(IF cause = "cancelled" THEN "cancelled" ELSE "failed", "idle")
  /\ UNCHANGED <<disk, history, boundVars>>

(* A failed return move keeps park and staging and drops the session; else *)
(* the empty park is removed and the session can be retried.               *)
RolledBack ==
  /\ pc = "rollback" /\ placed = {} /\ parked = {}
  /\ \/ broken /\ Return("stuck", "done") /\ UNCHANGED <<parkExists, leftovers>>
     \/ /\ ~broken /\ In("park") = {} /\ parkExists' = FALSE
        /\ Return(IF cause = "cancelled" THEN "cancelled" ELSE "failed", "idle")
        /\ UNCHANGED leftovers
     \/ /\ ~broken /\ Return("failed", "idle") /\ UNCHANGED parkExists
        /\ IF In("park") = {} THEN leftovers < MaxLeftovers /\ leftovers' = leftovers + 1
           ELSE UNCHANGED leftovers
  /\ UNCHANGED <<at, meta, history, failures, taken, cancels, crashes>>

-----------------------------------------------------------------------------
(* The environment.                                                        *)

(* Another program, or another call into Cratebug, adds an entry. *)
Arrive(i) ==
  /\ i \in Outsiders /\ at[i] = "unborn"
  /\ Named("root", NameOf[i]) = {}
  /\ at' = [at EXCEPT ![i] = "root"]
  /\ UNCHANGED <<parkExists, meta, call, moves, errors, history, boundVars>>

Take(i) ==
  /\ at[i] = "root" /\ taken < MaxTaken /\ taken' = taken + 1
  /\ at' = [at EXCEPT ![i] = "taken"]
  /\ UNCHANGED <<parkExists, meta, call, moves, errors, history, failures, leftovers, cancels, crashes>>

(* The session map is in memory, the staging trees stay behind. *)
Crash ==
  /\ crashes < MaxCrashes /\ crashes' = crashes + 1
  /\ session' = [s \in Sessions |-> IF session[s] = "none" THEN "none" ELSE "done"]
  /\ Forget
  /\ outcome' = IF pc = "idle" THEN outcome ELSE "killed"
  /\ UNCHANGED <<disk, history, failures, leftovers, taken, cancels>>

Work == \/ Begin \/ List \/ AllParked \/ AllPlaced \/ SeeCancel \/ RestoreMetadata \/ Scan \/ Clean
        \/ Succeed \/ RolledBack
        \/ \E i \in Items : RemoveParked(i)
        \/ \E n \in Names : Park(n) \/ Place(n) \/ Unplace(n) \/ Unpark(n)

Next == \/ \E s \in Sessions : Preview(s) \/ Discard(s) \/ Apply(s)
        \/ CancelRestore \/ Crash
        \/ \E i \in Items : Arrive(i) \/ Take(i)
        \/ Work

Spec == Init /\ [][Next]_vars

(* Apply runs on once it is called. *)
FairSpec == Spec /\ WF_vars(Work)

-----------------------------------------------------------------------------
(* Properties.                                                             *)

Steps == {"idle", "begin", "list", "park", "place", "meta", "scan", "clean", "discard", "rollback"}
Outcomes == {"none", "ok", "cancelled", "failed", "stuck", "killed"}

TypeOK ==
  /\ at \in [Items -> Places] /\ parkExists \in BOOLEAN /\ meta \in Sessions \cup {Nobody}
  /\ session \in [Sessions -> {"none", "idle", "active", "done"}]
  /\ active \in Sessions \cup {Nobody} /\ cancel \in BOOLEAN /\ pc \in Steps
  /\ toPark \subseteq Names /\ toPlace \subseteq Names
  /\ parked \subseteq Names /\ placed \subseteq Names
  /\ cause \in {"none", "error", "cancelled"} /\ broken \in BOOLEAN /\ outcome \in Outcomes
  /\ before \subseteq Items /\ metaBefore \in Sessions \cup {Nobody} /\ owned \subseteq Items
  /\ failures \in Nat /\ leftovers \in Nat /\ taken \in Nat /\ cancels \in Nat /\ crashes \in Nat

(* No entry of a library is destroyed before the restore that listed it    *)
(* has put the whole backup in its place and verified it: failed moves,    *)
(* failed return moves, a kill at any step and the restores after it leave *)
(* every one in the root or in the park.  A kill while the park is being   *)
(* removed may destroy entries of a restore not reported as done, but then *)
(* the backup is in the root, but for what another program took.           *)
NothingLost ==
  [][\A i \in owned : at'[i] \in {"replaced", "deleted"} /\ at'[i] # at[i]
       => /\ i \in before /\ pc = "clean"
          /\ \A j \in Staged[active] : at'[j] \in {"root", "taken"}]_vars

(* "Cancelled means the previous library is intact" (restore.go, Apply):   *)
(* every entry is back in the root that no other program took, and the     *)
(* metadata is the library's own.                                          *)
CancelledMeansIntact ==
  [][outcome = "none" /\ outcome' = "cancelled" =>
       /\ \A i \in before : at'[i] \in {"root", "taken"}
       /\ meta' = metaBefore]_vars

(* CanRetry "reports whether a complete staged backup remains available",  *)
(* unless another program took a placed entry before its rollback.         *)
RetryMeansComplete ==
  taken = 0 => \A s \in Sessions : session[s] = "idle" => \A i \in Staged[s] : at[i] = s

(* A reported success has replaced the library: the whole backup and       *)
(* nothing of the old library is in the root.                              *)
SuccessIsWhole ==
  [][outcome = "none" /\ outcome' = "ok" =>
       /\ \A i \in Staged[active] : at'[i] \in {"root", "taken"}
       /\ \A i \in before : at'[i] # "root"]_vars

(* A restore that begins, and that nobody cancels any more, succeeds: if   *)
(* all faults and visits of other programs lie behind it and left no park  *)
(* in its way, and, also as the retry of a cancelled one, if there never   *)
(* were any.                                                               *)
Begins == pc = "begin" /\ ~cancel /\ cancels = MaxCancels
FaultsOver == /\ failures = MaxFailures /\ taken = MaxTaken /\ crashes = MaxCrashes
              /\ ~parkExists /\ \A i \in Outsiders : at[i] # "unborn"
Faultless == /\ failures = 0 /\ taken = 0 /\ crashes = 0 /\ leftovers = 0
             /\ \A i \in Outsiders : at[i] = "unborn"
RestoreSucceeds ==
  /\ Begins /\ FaultsOver ~> outcome = "ok"
  /\ Begins /\ Faultless ~> (outcome = "ok" \/ ~Faultless)
=============================================================================
