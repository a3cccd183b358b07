---------------------------- MODULE MCClassifier ----------------------------
(* Instances of Classifier for TLC: three mods linked by a chain of paths, *)
(* until a moves to a path all three then hold.                            *)
(* Listing three mods takes a pool of one goroutine, whose channel holds   *)
(* two jobs; listing one or two takes a pool of two.                       *)
EXTENDS Classifier

CONSTANTS a, b, c

MCCalls == {{a}, {a, b, c}}
MCPriority == [e \in {a, b, c} |-> IF e = c THEN 2 ELSE 1]
MCListing == [e \in {a, b, c} |-> [v \in 1 .. 2 |->
  CASE e = a -> IF v = 1 THEN {"p"} ELSE {"q", "r"}
    [] e = b -> {"p", "q"}
    [] OTHER -> {"q"}]]
MCTiers == <<[below |-> 3, cap |-> 2]>>
=============================================================================
