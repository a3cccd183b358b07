----------------------------- MODULE MCOrganize -----------------------------
(* Instances of Organize for TLC: one folder with a mod in it, one that    *)
(* does not exist yet, and a mod in the root.                              *)
EXTENDS Organize

CONSTANTS f, g, a, b

MCHome == [x \in {f, g} |-> IF x = f THEN [parent |-> Root, name |-> "skins"] ELSE Absent]
MCAt == [x \in {a, b} |-> [folder |-> IF x = a THEN f ELSE Root, stem |-> "one"]]
(* No definition of Organize tells one tag from another. *)
TagSymmetry == Permutations(Tags)
=============================================================================
