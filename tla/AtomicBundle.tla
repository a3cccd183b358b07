---------------------------- MODULE AtomicBundle ----------------------------
(***************************************************************************)
(* What a bundle mutation promises to its one caller when nothing else     *)
(* touches the mod folder: a call changes the library in one indivisible   *)
(* step, moving one whole bundle, before it reports success; a call that   *)
(* fails changes nothing; only a failed rollback, or a trash that gave up  *)
(* half way, may leave part of one bundle moved, and is reported as such.  *)
(***************************************************************************)
EXTENDS ModFiles

VARIABLES library,   \* where each file is, as the caller may believe
          phase      \* the progress of its call

Phases == {"idle", "open", "committed", "ok", "failed", "damaged"}
TypeOK == library \in Disk /\ phase \in Phases

(* The three whole-bundle changes. *)
Relocated(g, h) ==
  [f \in Files |-> IF library[f] \in Path /\ GroupOf(library[f]) = g
                   THEN At(h, library[f].ext) ELSE library[f]]
Retyped(g, e) ==
  [f \in Files |-> IF library[f] = At(g, PrimaryOf(library, g)) THEN At(g, e) ELSE library[f]]
Binned(g) ==
  [f \in Files |-> IF library[f] \in Path /\ GroupOf(library[f]) = g THEN Trashed ELSE library[f]]

Init == library \in Disk /\ phase = "idle"

Open == phase \notin {"open", "committed"} /\ phase' = "open" /\ UNCHANGED library

Commit ==
  /\ phase = "open" /\ phase' = "committed"
  /\ \E g \in Group :
       /\ HasEntry(library, g)
       /\ \/ \E h \in Group \ {g} : library' = Relocated(g, h)
          \/ \E e \in {"pak", "pak_crateoff"} : library' = Retyped(g, e)
          \/ library' = Binned(g)

Succeed == phase = "committed" /\ phase' = "ok" /\ UNCHANGED library
Fail == phase = "open" /\ phase' = "failed" /\ UNCHANGED library

(* Part of one bundle, and of nothing else, is left at its new place. *)
Damage ==
  /\ phase = "open" /\ phase' = "damaged"
  /\ \E g \in Group, h \in Group : \E moved \in SUBSET Files :
       /\ \A f \in moved : library[f] \in Path /\ GroupOf(library[f]) = g
       /\ \/ library' = [f \in Files |-> IF f \in moved THEN Relocated(g, h)[f] ELSE library[f]]
          \/ library' = [f \in Files |-> IF f \in moved THEN Trashed ELSE library[f]]

Next == Open \/ Commit \/ Succeed \/ Fail \/ Damage
Spec == Init /\ [][Next]_<<library, phase>>
=============================================================================
