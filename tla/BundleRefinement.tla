-------------------------- MODULE BundleRefinement --------------------------
(***************************************************************************)
(* BundleMutation with a single caller implements AtomicBundle: while the  *)
(* moves of a call are under way the caller still sees the old library,    *)
(* from the last move on the new one.                                      *)
(***************************************************************************)
EXTENDS BundleMutation

Caller == CHOOSE p \in Procs : TRUE

OldLibrary ==
  IF pc[Caller] \in {"check", "move", "rename", "undo", "unrename", "recheck", "trash"}
  THEN before[Caller] ELSE disk

CallPhase ==
  IF pc[Caller] = "idle"
  THEN CASE outcome[Caller] = "none" -> "idle"
         [] outcome[Caller] = "ok" -> "ok"
         [] outcome[Caller] = "stuck" -> "damaged"
         [] OTHER -> "failed"
  ELSE IF pc[Caller] \in {"verify", "rescan"} THEN "committed" ELSE "open"

Atomic == INSTANCE AtomicBundle WITH library <- OldLibrary, phase <- CallPhase

(* Every step of a call is a step of the atomic specification or changes   *)
(* nothing the caller can see: the plan, apply and rollback code of        *)
(* internal/mutation amounts to one indivisible change.                    *)
AtomicCalls == Atomic!Spec
=============================================================================
