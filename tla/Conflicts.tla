----------------------------- MODULE Conflicts -----------------------------
(* Asset conflicts between enabled mods (internal/conflict/detect.go), from *)
(* the internal paths of each mod, each named once in a listing.           *)
EXTENDS FiniteSets, SequencesExt

(* The mods that hold each path. *)
PathIndex(listing) ==
  [p \in UNION {listing[e] : e \in DOMAIN listing} |-> {e \in DOMAIN listing : p \in listing[e]}]
Shared(listing) ==
  {p \in DOMAIN PathIndex(listing) : Cardinality(PathIndex(listing)[p]) >= 2}

(* Union of the sets of a and b, each named by its root. *)
Union(root, a, b) == [x \in DOMAIN root |-> IF root[x] = root[a] THEN root[b] ELSE root[x]]

(* Fault: only the first two mods of a path are united. *)
UnionPair(root, ids) == Union(root, ids[1], ids[2])
(* The first mod of a path is united with every other one. *)
UnionPath(root, ids) ==
  FoldLeft(LAMBDA r, k : Union(r, ids[1], ids[k]), root, [k \in 1 .. Len(ids) - 1 |-> k + 1])

(* connectedEntries: the shared paths are taken in the order of a Go map. *)
ConnectedEntries(listing, order) ==
  LET root == FoldLeft(LAMBDA r, p : UnionPath(r, SetToSeq(PathIndex(listing)[p])),
                       [e \in DOMAIN listing |-> e], order)
      members == UNION {PathIndex(listing)[p] : p \in Shared(listing)}
  IN {{e \in members : root[e] = r} : r \in {root[e] : e \in members}}

(* buildGroup: a group whose mods do not all have one priority loads in a  *)
(* defined order.                                                          *)
Relationship(group, priority) ==
  IF \A d, e \in group : priority[d] = priority[e] THEN "same_priority" ELSE "cross_priority"

(* Detect: listing is defined for the enabled mods whose paths are known. *)
Detect(enabled, listing, order, priority) ==
  [groups |-> {[members |-> g, relation |-> Relationship(g, priority)] : g \in ConnectedEntries(listing, order)},
   unavailable |-> enabled \ DOMAIN listing]

(* What it should compute: two mods are linked when every set of mods that  *)
(* holds one, and whatever shares a path with a member, holds the other.   *)
Overlap(listing, d, e) == listing[d] \cap listing[e] # {}
Closed(listing, S) == \A d \in S, e \in DOMAIN listing : Overlap(listing, d, e) => e \in S
Linked(listing, d, e) == \A S \in SUBSET DOMAIN listing : d \in S /\ Closed(listing, S) => e \in S
=============================================================================
