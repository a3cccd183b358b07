------------------------------- MODULE Protocol -------------------------------
(***************************************************************************)
(* The nxm:// handler of the user (service_nexus_protocol.go,              *)
(* internal/urlscheme).  The program claims it when it is launched and     *)
(* nobody has it, and the user turns it on and off in Settings; taking it  *)
(* from another application is confirmed, and that application is kept in  *)
(* the metadata document to get it back.  The registry and the document    *)
(* are changed one after the other, other applications change the handler  *)
(* at any time, the program may die between two steps, and a call of the   *)
(* window runs beside the claim of the launch or another call.             *)
(*                                                                         *)
(* Abstracted: the values of a handler are one value; Stored says what the *)
(* four fields of the document keep of it.  What is left of a key without  *)
(* its command counts as another application's, and a key that still has   *)
(* it as its owner's.  A default that Linux has for the whole system stays *)
(* out.  A save of the document works or changes nothing (MetadataStore).  *)
(* A stale path of the program itself counts as Self.                      *)
(***************************************************************************)
EXTENDS Naturals

CONSTANTS
  Apps,        \* handlers of other applications
  Parts,       \* what a write or a delete that ended early leaves of one
  Blank,       \* such a key without any value
  Stored,      \* what command, icon, description and desktop file keep of it
  Self, None,
  Calls,       \* calls that may run at once
  MaxCalls,    \* bound: calls and launches begun
  MaxForeign,  \* bound: changes other applications make
  MaxFailures  \* bound: failed steps and crashes

OtherHandlers == Apps \cup Parts
Snapshots == OtherHandlers \cup {None}
Owners == Snapshots \cup {Self}
ASSUME ProtocolAssumption ==
  /\ Self \notin OtherHandlers /\ None \notin OtherHandlers \cup {Self} /\ Blank \in Parts
  /\ Stored \in [OtherHandlers -> (OtherHandlers \ {Blank}) \cup {None}]
  /\ MaxCalls \in Nat /\ MaxForeign \in Nat /\ MaxFailures \in Nat

VARIABLES
  owner,       \* the handler in the registry, or in mimeapps.list
  previous,    \* NexusProtocol of the document
  optOut,      \* NexusProtocolOptOut of the document
  up,          \* the program runs; "gone" once it is uninstalled
  op,          \* what each call does
  pc,          \* where it is
  give,        \* the snapshot it displaced, or what is to be written back
  takeOver,    \* calls that may take the handler from another application
  wish,        \* history: the user's last request that reached the registry
  due,         \* history: who lost the handler to the program
  wasDue,      \* history: due before the last claim
  excused,     \* history: due is not to be trusted after a fault or an overlap
  begun, foreign, failures   \* counters of the bounds

handler == <<owner, previous, optOut>>
calls == <<op, pc, give, takeOver>>
history == <<wish, due, wasDue, excused>>
counters == <<begun, foreign, failures>>
vars == <<handler, up, calls, history, counters>>

Init ==
  /\ owner \in {None} \cup Apps /\ previous = None /\ optOut = FALSE /\ up = "no"
  /\ op = [p \in Calls |-> "none"] /\ pc = [p \in Calls |-> "idle"]
  /\ give = [p \in Calls |-> None] /\ takeOver = {}
  /\ wish = "none" /\ due = None /\ wasDue = None /\ excused = FALSE
  /\ begun = 0 /\ foreign = 0 /\ failures = 0

Works == UNCHANGED counters
Fails == failures < MaxFailures /\ failures' = failures + 1 /\ UNCHANGED <<begun, foreign>>
Goto(p, where) == pc' = [pc EXCEPT ![p] = where]
Running(p) == pc[p] # "idle"
Alone(p) == \A q \in Calls \ {p} : ~Running(q)
Registers(p) == op[p] \in {"launch", "on"}
Empty(snapshot) == snapshot \in {None, Blank}
Kept(snapshot) == IF snapshot = None THEN None ELSE Stored[snapshot]

-----------------------------------------------------------------------------
(* Beginnings: a launch, a click on the switch of Settings, the            *)
(* uninstaller.                                                            *)
Begin(p, what, first, take) ==
  /\ ~Running(p) /\ begun < MaxCalls
  /\ begun' = begun + 1 /\ UNCHANGED <<foreign, failures>>
  /\ op' = [op EXCEPT ![p] = what] /\ Goto(p, first)
  /\ give' = [give EXCEPT ![p] = None]
  /\ takeOver' = IF take THEN takeOver \cup {p} ELSE takeOver \ {p}
  /\ wish' = IF ~Alone(p) THEN "mixed"
             ELSE IF what = "on" THEN "on"
             ELSE IF what = "off" /\ wish = "mixed" THEN "none" ELSE wish
  /\ excused' = (excused \/ ~Alone(p))
  /\ UNCHANGED <<handler, due, wasDue>>

Launch(p) == up = "no" /\ up' = "yes" /\ Begin(p, "launch", "ask", FALSE)
TurnOn(p) == up = "yes" /\ UNCHANGED up /\ \E take \in BOOLEAN : Begin(p, "on", "status", take)
TurnOff(p) == up = "yes" /\ UNCHANGED up /\ Begin(p, "off", "optout", FALSE)
Uninstall(p) == up = "no" /\ up' = "gone" /\ Begin(p, "uninstall", "previous", FALSE)

(* ensureNexusProtocol. *)
Ask(p) ==
  /\ pc[p] = "ask" /\ Goto(p, IF optOut THEN "idle" ELSE "look")
  /\ UNCHANGED <<handler, up, op, give, takeOver, history>> /\ Works
Look(p) ==
  /\ pc[p] = "look"
  /\ \/ Works /\ Goto(p, IF owner \in {None, Self} THEN "status" ELSE "idle")
     \/ Fails /\ Goto(p, "idle")
  /\ UNCHANGED <<handler, up, op, give, takeOver, history>>

(* Fault: the opt-out is not saved before the registry is touched. *)
OptOutForgotten(p) ==
  /\ pc[p] = "optout"
  /\ \/ Works /\ Goto(p, "previous")
     \/ Fails /\ Goto(p, "idle")
  /\ UNCHANGED <<handler, up, op, give, takeOver, history>>

(* UnregisterNexusProtocol up to the registry: the opt-out is saved, then  *)
(* the displaced application is read.                                      *)
OptOut(p) ==
  /\ pc[p] = "optout"
  /\ \/ Works /\ Goto(p, "previous") /\ optOut' = TRUE
     \/ Fails /\ Goto(p, "idle") /\ UNCHANGED optOut
  /\ UNCHANGED <<owner, previous, up, op, give, takeOver, history>>
ReadPrevious(p) ==
  /\ pc[p] = "previous" /\ Goto(p, "status") /\ give' = [give EXCEPT ![p] = previous]
  /\ UNCHANGED <<handler, up, op, takeOver, history>> /\ Works

(* Registrar.Register and Registrar.Unregister look at the owner first:    *)
(* another application is displaced only with consent, and a handler that  *)
(* is not the program's is left alone.                                     *)
Status(p) ==
  /\ pc[p] = "status"
  /\ \/ /\ Registers(p) /\ owner \in {None, Self} /\ Works
        /\ Goto(p, "delete") /\ UNCHANGED <<give, wish, excused>>
     \/ /\ Registers(p) /\ owner \notin {None, Self} /\ Works
        /\ IF p \in takeOver
           THEN Goto(p, "delete") /\ give' = [give EXCEPT ![p] = owner]
           ELSE Goto(p, "idle") /\ UNCHANGED give
        /\ UNCHANGED <<wish, excused>>
     \/ /\ ~Registers(p) /\ Works /\ UNCHANGED give
        /\ Goto(p, IF owner = Self THEN "delete" ELSE IF op[p] = "off" THEN "clear" ELSE "idle")
        /\ wish' = IF op[p] = "off" /\ wish # "mixed" THEN "off" ELSE wish
        /\ excused' = (excused \/ (op[p] = "rollback" /\ owner # Self))
     \/ /\ Fails /\ Goto(p, "idle") /\ UNCHANGED <<give, wish>>
        /\ excused' = (excused \/ op[p] = "rollback")
  /\ UNCHANGED <<handler, up, op, takeOver, due, wasDue>>

(* userHive.delete: the registry key goes, subkey by subkey; mimeapps.list *)
(* loses only the program's own entry, and then its desktop file goes.     *)
Delete(p) ==
  /\ pc[p] = "delete"
  /\ \/ /\ Works /\ Goto(p, "write")
        /\ owner' \in IF owner \in Apps THEN {None, owner} ELSE {None}
        /\ IF Registers(p) /\ ~Empty(give[p])
           THEN due' = give[p] /\ wasDue' = due ELSE UNCHANGED <<due, wasDue>>
        /\ UNCHANGED excused
     \/ /\ Fails /\ Goto(p, "idle") /\ excused' = TRUE
        /\ owner' \in {owner, None} \cup (IF owner = None THEN {} ELSE Parts)
        /\ UNCHANGED <<due, wasDue>>
  /\ UNCHANGED <<previous, optOut, up, op, give, takeOver, wish>>

(* userHive.write: the program's own handler, or the snapshot given back,  *)
(* if there is one.                                                        *)
Write(p) ==
  /\ pc[p] = "write"
  /\ \/ /\ Registers(p) /\ Works /\ owner' = Self /\ Goto(p, "persist") /\ UNCHANGED <<due, excused>>
     \/ /\ ~Registers(p) /\ Works
        /\ owner' = IF Empty(give[p]) THEN owner ELSE give[p]
        /\ due' = IF op[p] = "rollback" THEN wasDue ELSE None
        /\ Goto(p, IF op[p] = "off" THEN "clear" ELSE "idle") /\ UNCHANGED excused
     \/ /\ Registers(p) \/ ~Empty(give[p])
        /\ Fails /\ owner' \in {owner} \cup Parts /\ excused' = TRUE /\ Goto(p, "idle") /\ UNCHANGED due
  /\ UNCHANGED <<previous, optOut, up, op, give, takeOver, wish, wasDue>>

(* Fault: a claim that displaced nobody forgets who was displaced before. *)
PersistAlways(p) ==
  /\ pc[p] = "persist"
  /\ Works /\ Goto(p, "idle") /\ previous' = Kept(give[p]) /\ optOut' = FALSE
  /\ UNCHANGED <<owner, up, op, give, takeOver, history>>

(* persistHandlerEnabled: the four fields of the displaced handler and the *)
(* end of the opt-out are saved; when that fails, the application gets its *)
(* handler back.                                                           *)
Persist(p) ==
  /\ pc[p] = "persist"
  /\ \/ /\ Works /\ Goto(p, "idle") /\ optOut' = FALSE
        /\ IF Empty(give[p]) THEN UNCHANGED <<previous, due, excused>>
           ELSE previous' = Kept(give[p]) /\ due' = give[p] /\ excused' = ~Alone(p)
        /\ UNCHANGED op
     \/ /\ Fails /\ UNCHANGED <<previous, optOut, due, excused>>
        /\ IF Empty(give[p]) THEN Goto(p, "idle") /\ UNCHANGED op
           ELSE Goto(p, "status") /\ op' = [op EXCEPT ![p] = "rollback"]
  /\ UNCHANGED <<owner, up, give, takeOver, wish, wasDue>>

(* The displaced application is forgotten. *)
Clear(p) ==
  /\ pc[p] = "clear" /\ Goto(p, "idle")
  /\ \/ Works /\ previous' = None /\ due' = None /\ UNCHANGED excused
     \/ Fails /\ excused' = TRUE /\ UNCHANGED <<previous, due>>
  /\ UNCHANGED <<owner, optOut, up, op, give, takeOver, wish, wasDue>>

(* Another application takes the handler, or gives it up. *)
Foreign ==
  /\ foreign < MaxForeign /\ foreign' = foreign + 1 /\ UNCHANGED <<begun, failures>>
  /\ \/ owner' \in Apps \ {owner}
     \/ owner \in Apps /\ owner' = None
  /\ UNCHANGED <<previous, optOut, up, calls, history>>

(* The program ends, in the middle of calls when it crashes. *)
Quit ==
  /\ up = "yes" /\ up' = "no"
  /\ \/ Works /\ \A p \in Calls : ~Running(p)
     \/ Fails
  /\ pc' = [p \in Calls |-> "idle"]
  /\ LET At(where) == \E p \in Calls : pc[p] = where IN
       owner' \in {owner} \cup (IF At("delete") THEN {None} ELSE {})
                        \cup (IF At("write") \/ (At("delete") /\ owner # None) THEN Parts ELSE {})
  /\ excused' = \/ excused
                \/ \E p \in Calls : pc[p] \in {"delete", "write", "persist", "clear"} \/ (Running(p) /\ op[p] = "rollback")
  /\ UNCHANGED <<previous, optOut, op, give, takeOver, wish, due, wasDue>>

Step(p) ==
  \/ Launch(p) \/ TurnOn(p) \/ TurnOff(p) \/ Uninstall(p)
  \/ Ask(p) \/ Look(p) \/ OptOut(p) \/ ReadPrevious(p) \/ Status(p) \/ Delete(p) \/ Write(p)
  \/ Persist(p) \/ Clear(p)
Next == Foreign \/ Quit \/ \E p \in Calls : Step(p)
Spec == Init /\ [][Next]_vars

-----------------------------------------------------------------------------
Ops == {"none", "launch", "on", "off", "uninstall", "rollback"}
Steps == {"idle", "ask", "look", "optout", "previous", "status", "delete", "write", "persist", "clear"}

(* What each variable holds. *)
TypeOK ==
  /\ owner \in Owners /\ previous \in Snapshots /\ optOut \in BOOLEAN /\ up \in {"no", "yes", "gone"}
  /\ op \in [Calls -> Ops] /\ pc \in [Calls -> Steps] /\ give \in [Calls -> Snapshots] /\ takeOver \subseteq Calls
  /\ wish \in {"none", "on", "off", "mixed"} /\ due \in Snapshots /\ wasDue \in Snapshots /\ excused \in BOOLEAN
  /\ begun \in Nat /\ foreign \in Nat /\ failures \in Nat

(* Once a request to turn the handler off has reached the registry, no     *)
(* launch claims it again, whatever crashed or failed since, until the     *)
(* user turns it on; requests that overlapped another call are left out.   *)
OptOutRespected ==
  [][\A p \in Calls : op[p] = "launch" /\ pc[p] = "write" /\ pc'[p] = "persist" => wish # "off"]_vars

(* Turning the handler off, and uninstalling, give what the document can   *)
(* keep of it to the application that lost it to the program: not values   *)
(* the four fields have no place for, and nothing at all when it has only  *)
(* such values.  When nobody lost it, nobody gets it.  This is so across   *)
(* launches, claims without consent and rolled-back claims; an earlier     *)
(* failure or crash between the registry and the document, or an overlap,  *)
(* excuses until the next recorded claim.                                  *)
OwnerReturned ==
  [][\A p \in Calls :
       (op[p] \in {"off", "uninstall"} /\ pc[p] = "write" /\ pc'[p] # "write" /\ ~excused /\ ~excused')
         => owner' = IF Kept(due) = None THEN owner ELSE Kept(due)]_vars
=============================================================================
