------------------------------ MODULE MCProtocol ------------------------------
(* Instances of Protocol for TLC: two calls at a time; handlers the fields *)
(* keep whole (plain, other), one with a value more than plain (rich), one *)
(* with only such values (bare), and what is left of one (rest).           *)
EXTENDS Protocol, TLC

CONSTANTS plain, other, rich, bare, rest

MCApps == {plain, other, rich, bare}
MCStored == [h \in OtherHandlers |-> CASE h = rich -> plain [] h \in {bare, Blank} -> None [] OTHER -> h]
Symmetric == Permutations(Calls)
=============================================================================
