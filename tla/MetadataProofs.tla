--------------------------- MODULE MetadataProofs ---------------------------
(***************************************************************************)
(* Proofs about MetadataStore for any number of goroutines, restores and   *)
(* changes: type correctness; as long as nothing outside Cratebug damages  *)
(* the primary and no restore runs into a call that holds the gate, that   *)
(* it implements AtomicDocument and so keeps every acknowledged change;    *)
(* and that one damaged primary costs at most one of them.                 *)
(***************************************************************************)
EXTENDS MetadataRefinement, TLAPS

(* An update works on one of the changes, and only a self-heal, an update  *)
(* or a restore reaches Save.                                              *)
WorkOK ==
  \A p \in Procs :
    /\ goal[p] = "update" => change[p] \in Changes
    /\ pc[p] \in {"backup", "write"} => healing[p] \/ goal[p] # "read"

StoreInv == TypeOK /\ WorkOK

LEMMA StoreInit == Init => StoreInv
<1> SUFFICES ASSUME Init PROVE StoreInv
  OBVIOUS
<1>1. restored \in BOOLEAN /\ healing \in [Procs -> BOOLEAN]
  BY DEF Init
<1>2. TypeOK
  BY <1>1 DEF Init, TypeOK, Contents, Docs, Fresh, Steps
<1>3. WorkOK
  BY DEF Init, WorkOK
<1> QED BY <1>2, <1>3 DEF StoreInv

(* Leaving Save puts the goroutine at a step that saves no longer. *)
LEMMA ReturnType ==
  ASSUME StoreInv, NEW p \in Procs, Return(p)
  PROVE  /\ pc' \in [Procs -> Steps] /\ healing' \in [Procs -> BOOLEAN]
         /\ \A q \in Procs : pc'[q] \in {"backup", "write"} => healing'[q] \/ goal[q] # "read"
<1> DEFINE step == IF healing[p] THEN "loaded"
                   ELSE IF goal[p] = "restore" THEN "idle" ELSE "release"
<1>1. step \in Steps /\ step \notin {"backup", "write"}
  BY DEF Steps
<1>2. pc' = [pc EXCEPT ![p] = step] /\ healing' = [healing EXCEPT ![p] = FALSE]
  BY DEF Return, Goto
<1> HIDE DEF step
<1> QED BY <1>1, <1>2 DEF StoreInv, TypeOK, WorkOK

LEMMA StoreNext == StoreInv /\ [Next]_vars => StoreInv'
<1> SUFFICES ASSUME StoreInv, [Next]_vars PROVE StoreInv'
  OBVIOUS
<1> USE DEF files, local, history, boundVars, StoreInv, TypeOK, WorkOK
<1>1. Fresh \in Docs /\ {Staged} \in Docs
  BY DEF Fresh, Docs
<1>2. \A c \in Contents : Usable(c) => c \in Docs
  BY DEF Contents, Usable
<1>3. ASSUME NEW p \in Procs, CallRead(p) PROVE StoreInv'
  BY <1>3 DEF CallRead, Call, Goto, Steps
<1>4. ASSUME NEW p \in Procs, CallRestore(p) PROVE StoreInv'
  BY <1>1, <1>4 DEF CallRestore, Call, Goto, Steps
<1>5. ASSUME NEW p \in Procs, NEW c \in Changes, CallUpdate(p, c) PROVE StoreInv'
  BY <1>5 DEF CallUpdate, Call, Goto, Steps
<1>6. ASSUME NEW p \in Procs, Lock(p) PROVE StoreInv'
  BY <1>6 DEF Lock, Goto, Steps
<1>7. ASSUME NEW p \in Procs, Release(p) PROVE StoreInv'
  BY <1>7 DEF Release, Goto, Steps
<1>8. ASSUME NEW p \in Procs, Read(p) PROVE StoreInv'
  BY <1>1, <1>2, <1>8 DEF Read, Use, Goto, Steps
<1>9. ASSUME NEW p \in Procs, Quarantine(p) PROVE StoreInv'
  BY <1>9 DEF Quarantine, Works, Fails, Goto, Steps, Contents
<1>10. ASSUME NEW p \in Procs, Fallback(p) PROVE StoreInv'
  BY <1>1, <1>2, <1>10 DEF Fallback, Use, Goto, Steps
<1>11. ASSUME NEW p \in Procs, Loaded(p) PROVE StoreInv'
  <2>1. doc[p] \cup {change[p]} \in Docs
    BY DEF Docs
  <2> QED BY <1>11, <2>1 DEF Loaded, Use, Goto, Steps
<1>12. ASSUME NEW p \in Procs, UpdateBackup(p) PROVE StoreInv'
  <2>1. CASE Goto(p, "write") /\ UNCHANGED healing
    BY <1>12, <2>1 DEF UpdateBackup, Works, Fails, Goto, Steps
  <2>2. CASE Return(p)
    <3>1. TypeOK'
      BY <1>12, <2>2, ReturnType DEF UpdateBackup, Works, Fails
    <3>2. WorkOK'
      BY <1>12, <2>2, ReturnType DEF UpdateBackup
    <3> QED BY <3>1, <3>2
  <2> QED BY <1>12, <2>1, <2>2 DEF UpdateBackup
<1>13. ASSUME NEW p \in Procs, Write(p) PROVE StoreInv'
  <2>1. Return(p)
    BY <1>13 DEF Write
  <2>2. pc' \in [Procs -> Steps] /\ healing' \in [Procs -> BOOLEAN]
        /\ \A q \in Procs : pc'[q] \in {"backup", "write"} => healing'[q] \/ goal[q] # "read"
    BY <2>1, ReturnType
  <2>3. acked' \subseteq Changes /\ restored' \in BOOLEAN
    <3>1. CASE Works /\ primary' = doc[p] /\ Acknowledge(p)
      <4>1. CASE healing[p]
        BY <3>1, <4>1 DEF Acknowledge
      <4>2. CASE ~healing[p] /\ goal[p] = "restore"
        BY <3>1, <4>2 DEF Acknowledge
      <4>3. CASE ~healing[p] /\ goal[p] # "restore"
        <5>1. change[p] \in Changes
          BY <1>13, <4>3 DEF Write
        <5> QED BY <3>1, <4>3, <5>1 DEF Acknowledge
      <4> QED BY <4>1, <4>2, <4>3
    <3>2. CASE Fails /\ UNCHANGED <<primary, acked, restored>>
      BY <3>2
    <3> QED BY <1>13, <3>1, <3>2 DEF Write
  <2>4. primary' \in Contents /\ failures' \in Nat
    BY <1>13 DEF Write, Works, Fails, Contents
  <2> QED BY <1>13, <2>2, <2>3, <2>4 DEF Write
<1>14. ASSUME Damage PROVE StoreInv'
  BY <1>14 DEF Damage, Contents
<1>15. ASSUME Crash PROVE StoreInv'
  BY <1>15 DEF Crash, Steps
<1>16. CASE UNCHANGED vars
  BY <1>16 DEF vars
<1> QED
  BY <1>3, <1>4, <1>5, <1>6, <1>7, <1>8, <1>9, <1>10, <1>11, <1>12, <1>13, <1>14, <1>15, <1>16
     DEF Next, Step

(* For any callers, faults and crashes: what Load, Save and the gate keep  *)
(* is well formed.                                                         *)
THEOREM StoreTypeCorrect == Spec => []TypeOK
<1>1. StoreInv => TypeOK
  BY DEF StoreInv
<1> QED BY <1>1, StoreInit, StoreNext, PTL DEF Spec

-----------------------------------------------------------------------------
(* The gate at work: whoever reads or writes holds it, so what it loaded   *)
(* is still the document when it saves.                                    *)
Holding == {"read", "loaded", "backup", "write", "release"}
OrDocument == IF primary = Missing THEN Fresh ELSE primary

Gated(p) ==
  /\ pc[p] \in Holding \cup {"idle", "wait"}
  /\ pc[p] \in Holding => gate = p
  /\ pc[p] = "loaded" => doc[p] = OrDocument
  /\ pc[p] \in {"backup", "write"} => doc[p] = OrDocument \cup {change[p]}

(* A restore meets nobody behind the gate. *)
RoundTheGate(p) ==
  /\ pc[p] \in {"idle", "backup", "write"} /\ doc[p] = {Staged}
  /\ pc[p] # "idle" => gate = Nobody

GateOK ==
  /\ primary # Damaged
  /\ \A p \in Procs : /\ ~healing[p]
                      /\ IF goal[p] = "restore" THEN RoundTheGate(p) ELSE Gated(p)

GateInv == StoreInv /\ (Undisturbed => GateOK)

LEMMA NextLoadIs == GateInv /\ Undisturbed => NextLoad = OrDocument
<1> SUFFICES ASSUME GateInv, Undisturbed PROVE NextLoad = OrDocument
  OBVIOUS
<1>1. primary = Missing \/ (primary \in Docs /\ Usable(primary))
  BY DEF GateInv, GateOK, StoreInv, TypeOK, Contents, Usable
<1>2. ~Usable(Missing)
  BY DEF Usable
<1> QED BY <1>1, <1>2, StoreAssumption DEF NextLoad, OrDocument, Usable

LEMMA GateInit == Init => GateInv
<1> SUFFICES ASSUME Init PROVE GateInv
  OBVIOUS
<1>1. GateOK
  BY StoreAssumption DEF Init, GateOK, Gated, Holding
<1> QED BY <1>1, StoreInit DEF GateInv

(* A disturbance is never forgotten. *)
LEMMA DisturbedForEver == StoreInv /\ [Next]_vars /\ Undisturbed' => Undisturbed
<1> SUFFICES ASSUME StoreInv, [Next]_vars, Undisturbed' PROVE Undisturbed
  OBVIOUS
<1> USE DEF Undisturbed, history, boundVars, StoreInv, TypeOK
<1>1. ASSUME NEW p \in Procs, CallRead(p) PROVE Undisturbed
  BY <1>1 DEF CallRead
<1>2. ASSUME NEW p \in Procs, CallRestore(p) PROVE Undisturbed
  BY <1>2 DEF CallRestore
<1>3. ASSUME NEW p \in Procs, NEW c \in Changes, CallUpdate(p, c) PROVE Undisturbed
  BY <1>3 DEF CallUpdate
<1>4. ASSUME NEW p \in Procs, Lock(p) PROVE Undisturbed
  BY <1>4 DEF Lock
<1>5. ASSUME NEW p \in Procs, Release(p) PROVE Undisturbed
  BY <1>5 DEF Release
<1>6. ASSUME NEW p \in Procs, Read(p) PROVE Undisturbed
  BY <1>6 DEF Read
<1>7. ASSUME NEW p \in Procs, Quarantine(p) \/ Fallback(p) PROVE Undisturbed
  BY <1>7 DEF Quarantine, Fallback
<1>8. ASSUME NEW p \in Procs, Loaded(p) PROVE Undisturbed
  BY <1>8 DEF Loaded
<1>9. ASSUME NEW p \in Procs, UpdateBackup(p) \/ Write(p) PROVE Undisturbed
  BY <1>9 DEF UpdateBackup, Write
<1>10. ASSUME Damage PROVE Undisturbed
  BY <1>10 DEF Damage
<1>11. ASSUME Crash PROVE Undisturbed
  BY <1>11 DEF Crash
<1>12. CASE UNCHANGED vars
  BY <1>12 DEF vars
<1> QED
  BY <1>1, <1>2, <1>3, <1>4, <1>5, <1>6, <1>7, <1>8, <1>9, <1>10, <1>11, <1>12 DEF Next, Step

(* What one undisturbed step does to the document: a successful Write is   *)
(* an Update or the Restore, all the rest is invisible.                    *)
Same == OrDocument' = OrDocument /\ acked' = acked /\ restored' = restored
Updated(c) == /\ OrDocument' = OrDocument \cup {c} /\ acked' = acked \cup {c}
              /\ restored' = restored
Replaced == OrDocument' = {Staged} /\ acked' = {} /\ restored' = TRUE
DocumentStep == Same \/ Replaced \/ \E c \in Changes : Updated(c)

LEMMA GateNext ==
  GateInv /\ [Next]_vars /\ Undisturbed' => GateOK' /\ DocumentStep
<1> DEFINE Goal == GateOK' /\ DocumentStep
<1> SUFFICES ASSUME GateInv, [Next]_vars, Undisturbed' PROVE Goal
  OBVIOUS
<1>0. Undisturbed /\ GateOK
  BY DisturbedForEver DEF GateInv
<1> USE <1>0 DEF files, local, history, boundVars, GateInv, StoreInv, TypeOK, WorkOK,
                 GateOK, Gated, RoundTheGate, Holding, DocumentStep
<1>1. ASSUME NEW p \in Procs, CallRead(p) PROVE Goal
  BY <1>1 DEF CallRead, Call, Goto, OrDocument, Same
<1>2. ASSUME NEW p \in Procs, CallRestore(p) PROVE Goal
  <2>1. gate = Nobody
    BY <1>2 DEF CallRestore, Undisturbed
  <2> QED BY <1>2, <2>1 DEF CallRestore, Call, Goto, OrDocument, Same
<1>3. ASSUME NEW p \in Procs, NEW c \in Changes, CallUpdate(p, c) PROVE Goal
  BY <1>3 DEF CallUpdate, Call, Goto, OrDocument, Same
<1>4. ASSUME NEW p \in Procs, Lock(p) PROVE Goal
  <2>1. \A q \in Procs : goal[q] = "restore" => pc[q] = "idle"
    BY <1>4 DEF Lock, Undisturbed, Restoring
  <2> QED BY <1>4, <2>1, StoreAssumption DEF Lock, Goto, OrDocument, Same
<1>5. ASSUME NEW p \in Procs, Release(p) PROVE Goal
  BY <1>5 DEF Release, Goto, OrDocument, Same
<1>6. ASSUME NEW p \in Procs, Read(p) PROVE Goal
  <2>1. UNCHANGED damage
    BY <1>6 DEF Read, Undisturbed
  <2>2. doc' = [doc EXCEPT ![p] = OrDocument] /\ pc' = [pc EXCEPT ![p] = "loaded"]
        /\ UNCHANGED <<files, gate, local, history, damage>>
    BY <1>6, <2>1 DEF Read, Use, Goto, OrDocument, Usable, Undisturbed
  <2>3. goal[p] # "restore"
    BY <1>6 DEF Read
  <2> QED BY <1>6, <2>2, <2>3 DEF Read, OrDocument, Same
<1>7. ASSUME NEW p \in Procs PROVE ~Quarantine(p) /\ ~Fallback(p)
  BY DEF Quarantine, Fallback
<1>8. ASSUME NEW p \in Procs, Loaded(p) PROVE Goal
  BY <1>8 DEF Loaded, Use, Goto, OrDocument, Same
<1>9. ASSUME NEW p \in Procs, UpdateBackup(p) PROVE Goal
  <2> DEFINE step == IF goal[p] = "restore" THEN "idle" ELSE "release"
  <2>1. \/ pc' = [pc EXCEPT ![p] = "write"] /\ healing' = healing
        \/ pc' = [pc EXCEPT ![p] = step] /\ healing' = [healing EXCEPT ![p] = FALSE]
    BY <1>9 DEF UpdateBackup, Return, Goto
  <2> QED BY <1>9, <2>1 DEF UpdateBackup, OrDocument, Same
<1>10. ASSUME NEW p \in Procs, Write(p) PROVE Goal
  <2> DEFINE step == IF goal[p] = "restore" THEN "idle" ELSE "release"
  <2>1. pc' = [pc EXCEPT ![p] = step] /\ healing' = [healing EXCEPT ![p] = FALSE]
    BY <1>10 DEF Write, Return, Goto
  <2>2. doc[p] \in Docs /\ doc[p] # Missing /\ doc[p] # Damaged
    BY StoreAssumption
  <2>3. CASE Fails /\ UNCHANGED <<primary, acked, restored>>
    BY <1>10, <2>1, <2>3 DEF Write, OrDocument, Same
  <2>4. CASE Works /\ primary' = doc[p] /\ Acknowledge(p) /\ goal[p] = "restore"
    <3>1. acked' = {} /\ restored' = TRUE
      BY <2>4 DEF Acknowledge
    <3>2. Replaced
      BY <1>10, <2>2, <2>4, <3>1 DEF Write, OrDocument, Replaced
    <3>3. gate = Nobody /\ \A q \in Procs : goal[q] # "restore" => pc[q] \in {"idle", "wait"}
      BY <1>10, <2>4, StoreAssumption DEF Write
    <3>4. GateOK'
      BY <1>10, <2>1, <2>2, <2>4, <3>3 DEF Write
    <3> QED BY <3>2, <3>4
  <2>5. CASE Works /\ primary' = doc[p] /\ Acknowledge(p) /\ goal[p] # "restore"
    <3>1. goal[p] = "update" /\ change[p] \in Changes /\ gate = p
      BY <1>10, <2>5 DEF Write
    <3>2. Updated(change[p])
      BY <1>10, <2>2, <2>5, <3>1 DEF Write, OrDocument, Updated, Acknowledge
    <3>3. \A q \in Procs \ {p} : IF goal[q] = "restore" THEN pc[q] = "idle" ELSE pc[q] \in {"idle", "wait"}
      BY <3>1, StoreAssumption
    <3>4. GateOK'
      BY <1>10, <2>1, <2>2, <2>5, <3>1, <3>3 DEF Write
    <3> QED BY <3>1, <3>2, <3>4
  <2> QED BY <1>10, <2>3, <2>4, <2>5 DEF Write
<1>11. ~Damage
  BY DEF Damage, Undisturbed
<1>12. ASSUME Crash PROVE Goal
  BY <1>12 DEF Crash, OrDocument, Same
<1>13. CASE UNCHANGED vars
  BY <1>13 DEF vars, OrDocument, Same
<1> QED
  BY <1>1, <1>2, <1>3, <1>4, <1>5, <1>6, <1>7, <1>8, <1>9, <1>10, <1>11, <1>12, <1>13
     DEF Next, Step

LEMMA GateStep ==
  GateInv /\ [Next]_vars => GateInv' /\ [Undisturbed' => Document!Next]_<<NextLoad, acked>>
<1> SUFFICES ASSUME GateInv, [Next]_vars
             PROVE GateInv' /\ [Undisturbed' => Document!Next]_<<NextLoad, acked>>
  OBVIOUS
<1>1. GateInv'
  BY StoreNext, GateNext DEF GateInv
<1>2. CASE Undisturbed'
  <2>1. NextLoad' = OrDocument'
    <3>1. (GateInv /\ Undisturbed => NextLoad = OrDocument)'
      BY NextLoadIs, PTL
    <3> QED BY <1>1, <1>2, <3>1
  <2>2. NextLoad = OrDocument
    BY <1>2, NextLoadIs, DisturbedForEver DEF GateInv
  <2>3. DocumentStep
    BY <1>2, GateNext
  <2> QED BY <1>1, <2>1, <2>2, <2>3
          DEF DocumentStep, Same, Replaced, Updated, Document!Next, Document!Update, Document!Restore
<1> QED BY <1>1, <1>2

(* As long as nothing outside Cratebug damages the primary and no restore  *)
(* runs into a gated call, the store is one document that changes are      *)
(* applied to one by one, for any number of goroutines, failing writes and *)
(* crashes (core.go's metadataGate, store.go's Save and Load).             *)
THEOREM StoreImplementsDocument == Spec => OneDocument
<1>1. Init => GateInv /\ Document!Init
  <2>1. Init => Document!Init
    BY StoreAssumption DEF Init, Document!Init, NextLoad, Usable, Fresh
  <2> QED BY <2>1, GateInit
<1>2. GateInv /\ [Next]_vars
      => GateInv' /\ [Undisturbed' => Document!Next]_<<NextLoad, acked>>
  BY GateStep
<1> QED BY <1>1, <1>2, PTL DEF Spec, OneDocument

(* Under the same conditions no acknowledged change, and no acknowledged   *)
(* restore, is ever missing from what the next Load returns.               *)
THEOREM StoreDurable == Spec => []Durable
<1>1. Init => GateInv /\ Durable
  BY GateInit DEF Init, Durable
<1>2. GateInv /\ Durable /\ [Next]_vars => GateInv' /\ Durable'
  <2> SUFFICES ASSUME GateInv, Durable, [Next]_vars PROVE GateInv' /\ Durable'
    OBVIOUS
  <2>1. GateInv'
    BY GateStep
  <2>2. CASE Undisturbed'
    <3>1. NextLoad' = OrDocument'
      <4>1. (GateInv /\ Undisturbed => NextLoad = OrDocument)'
        BY NextLoadIs, PTL
      <4> QED BY <2>1, <2>2, <4>1
    <3>2. Undisturbed /\ NextLoad = OrDocument
      BY <2>2, NextLoadIs, DisturbedForEver DEF GateInv
    <3>3. DocumentStep
      BY <2>2, GateNext
    <3> QED BY <2>1, <3>1, <3>2, <3>3 DEF Durable, DocumentStep, Same, Replaced, Updated
  <2>3. CASE ~Undisturbed'
    BY <2>1, <2>3 DEF Durable
  <2> QED BY <2>2, <2>3
<1> QED BY <1>1, <1>2, PTL DEF Spec

-----------------------------------------------------------------------------
(* One damaged primary: the backup lacks at most the change acknowledged   *)
(* last, and whoever loads, heals or saves works on a document that lacks  *)
(* no more.                                                                *)
Mild == ~overlapped /\ damage <= 1 /\ failures = 0 /\ crashes = 0
OneLost(d) == \A c, e \in acked \ d : c = e
OrBackup == IF Usable(backup) THEN backup ELSE Fresh
Inside == {"read", "quarantine", "fallback", "loaded", "backup", "write", "release"}

(* Who is inside Load or Save holds the gate, or is a restore and meets    *)
(* nobody who does.                                                        *)
Ordered(p) ==
  /\ IF goal[p] = "restore"
     THEN /\ pc[p] \in {"idle", "backup", "write"} /\ doc[p] = {Staged}
          /\ pc[p] # "idle" => gate = Nobody
     ELSE pc[p] \in Inside => gate = p
  /\ healing[p] => pc[p] \in {"backup", "write"} /\ goal[p] # "restore"

Saving(p) == goal[p] # "restore" /\ ~healing[p] /\ pc[p] \in {"backup", "write"}
Careful(p) ==
  /\ pc[p] \in {"quarantine", "fallback"} => damage = 1 /\ OneLost(OrBackup)
  /\ pc[p] = "fallback" \/ healing[p] => damage = 1 /\ primary = Missing
  /\ pc[p] = "loaded" \/ healing[p] \/ Saving(p) =>
       OneLost(doc[p]) /\ (damage = 0 => acked \subseteq doc[p])
  /\ Saving(p) => change[p] \in doc[p]

Midway == \E p \in Procs : pc[p] \in {"fallback", "write"} \/ healing[p]

LossOK ==
  /\ \A p \in Procs : Ordered(p) /\ Careful(p)
  /\ ~Midway => OneLost(NextLoad)
  /\ damage = 0 =>
       /\ primary # Damaged /\ backup # Damaged
       /\ acked \subseteq OrDocument /\ OneLost(OrBackup)
       /\ (\E p \in Procs : pc[p] = "write") => acked \subseteq OrBackup

LossInv == StoreInv /\ (Mild => LossOK)

LEMMA LossInit == Init => LossInv
<1> SUFFICES ASSUME Init PROVE LossInv
  OBVIOUS
<1>1. LossOK
  BY StoreAssumption DEF Init, LossOK, Ordered, Careful, Saving, Midway, OneLost, Inside, OrDocument,
     OrBackup, NextLoad, Usable, Fresh
<1> QED BY <1>1, StoreInit DEF LossInv

LEMMA MildBefore == StoreInv /\ [Next]_vars /\ Mild' => Mild
<1> SUFFICES ASSUME StoreInv, [Next]_vars, Mild' PROVE Mild
  OBVIOUS
<1> USE DEF Mild, history, boundVars, StoreInv, TypeOK
<1>1. ASSUME NEW p \in Procs, NEW c \in Changes, CallRead(p) \/ CallRestore(p) \/ CallUpdate(p, c) PROVE Mild
  BY <1>1 DEF CallRead, CallRestore, CallUpdate
<1>2. ASSUME NEW p \in Procs, Lock(p) \/ Release(p) PROVE Mild
  BY <1>2 DEF Lock, Release
<1>3. ASSUME NEW p \in Procs, Read(p) PROVE Mild
  BY <1>3 DEF Read
<1>4. ASSUME NEW p \in Procs, Quarantine(p) \/ Fallback(p) \/ Loaded(p) PROVE Mild
  BY <1>4 DEF Quarantine, Fallback, Loaded, Works, Fails
<1>5. ASSUME NEW p \in Procs, UpdateBackup(p) \/ Write(p) PROVE Mild
  BY <1>5 DEF UpdateBackup, Write, Works, Fails
<1>6. CASE Damage
  BY <1>6 DEF Damage
<1>7. CASE Crash
  BY <1>7 DEF Crash
<1>8. CASE UNCHANGED vars
  BY <1>8 DEF vars
<1>9. ASSUME NEW p \in Procs, CallRead(p) \/ CallRestore(p) PROVE Mild
  BY <1>9 DEF CallRead, CallRestore
<1> QED BY <1>1, <1>2, <1>3, <1>4, <1>5, <1>6, <1>7, <1>8, <1>9 DEF Next, Step

LEMMA LossNext == LossInv /\ [Next]_vars /\ Mild' => LossOK'
<1> SUFFICES ASSUME LossInv, [Next]_vars, Mild' PROVE LossOK'
  OBVIOUS
<1>0. Mild /\ LossOK /\ StoreInv
  BY MildBefore DEF LossInv
<1>a. failures' = failures /\ crashes' = crashes
  BY <1>0 DEF Mild
<1>b. Missing # Damaged /\ \A d \in Docs : Usable(d)
  BY StoreAssumption DEF Usable
<1> USE <1>0, <1>a, <1>b DEF files, local, history, boundVars, StoreInv, TypeOK, WorkOK, LossOK, Ordered,
        Careful, Saving, Inside, OneLost
<1>1. ASSUME NEW p \in Procs, NEW c, NEW a \in {"read", "update"}, Call(p, a, c), pc' = [pc EXCEPT ![p] = "wait"],
             UNCHANGED <<files, gate, doc, acked, damage>>
      PROVE  LossOK'
  BY <1>1 DEF Call, Midway, OrDocument, OrBackup, NextLoad
<1>2. ASSUME NEW p \in Procs, CallRestore(p) PROVE LossOK'
  <2>1. gate = Nobody
    BY <1>2 DEF CallRestore, Mild
  <2> QED BY <1>2, <2>1 DEF CallRestore, Call, Goto, Midway, OrDocument, OrBackup, NextLoad
<1>3. ASSUME NEW p \in Procs, Lock(p) PROVE LossOK'
  <2>1. \A q \in Procs : goal[q] = "restore" => pc[q] = "idle"
    BY <1>3 DEF Lock, Mild, Restoring
  <2> QED BY <1>3, <2>1, StoreAssumption DEF Lock, Goto, Midway, OrDocument, OrBackup, NextLoad
<1>4. ASSUME NEW p \in Procs, Release(p) PROVE LossOK'
  BY <1>4 DEF Release, Goto, Midway, OrDocument, OrBackup, NextLoad
<1>5. ASSUME NEW p \in Procs, Read(p) PROVE LossOK'
  BY <1>5, StoreAssumption DEF Read, Goto, Use, Midway, OrDocument, OrBackup, NextLoad, Usable, Fresh, Contents, Mild
<1>6. ASSUME NEW p \in Procs, Quarantine(p) PROVE LossOK'
  BY <1>6, StoreAssumption DEF Quarantine, Works, Fails, Goto, Midway, OrDocument, OrBackup
<1>7. ASSUME NEW p \in Procs, Fallback(p) PROVE LossOK'
  BY <1>7, StoreAssumption DEF Fallback, Use, Goto, Midway, OrDocument, OrBackup, NextLoad, Usable, Fresh, Contents
<1>8. ASSUME NEW p \in Procs, Loaded(p) PROVE LossOK'
  BY <1>8, StoreAssumption DEF Loaded, Use, Goto, Midway, OrDocument, OrBackup, NextLoad
<1>9. ASSUME NEW p \in Procs, UpdateBackup(p) PROVE LossOK'
  <2>1. /\ pc[p] = "backup" /\ pc' = [pc EXCEPT ![p] = "write"]
        /\ backup' = (IF primary = Missing THEN backup ELSE primary)
        /\ UNCHANGED <<primary, gate, goal, change, doc, healing, acked, damage>>
    BY <1>9 DEF UpdateBackup, Works, Fails, Goto
  <2>2. OrBackup' = IF primary = Missing THEN OrBackup ELSE IF Usable(primary) THEN primary ELSE Fresh
    BY <2>1 DEF OrBackup
  <2>3. \A q \in Procs : Ordered(q)'
    BY <2>1 DEF Ordered
  <2>4. \A q \in Procs : pc[q] \notin {"quarantine", "fallback"}
    BY <2>1, StoreAssumption DEF Ordered, Inside
  <2>5. \A q \in Procs : Careful(q)'
    BY <2>1, <2>4 DEF Careful, Saving
  <2>6. Midway'
    BY <2>1 DEF Midway
  <2>7. CASE damage = 0
    <3>1. CASE primary = Missing
      <4>1. acked = {} /\ acked' = {}
        BY <2>1, <2>7, <3>1 DEF OrDocument, Fresh
      <4>2. OrBackup' = OrBackup
        BY <2>2, <3>1
      <4> QED BY <2>1, <2>3, <2>5, <2>6, <2>7, <3>1, <4>1, <4>2 DEF OrDocument
    <3>2. CASE primary # Missing
      <4>1. Usable(primary)
        BY <2>7, <3>2 DEF Usable
      <4>2. OrBackup' = primary /\ acked \subseteq primary
        BY <2>2, <2>7, <3>2, <4>1 DEF OrDocument
      <4> QED BY <2>1, <2>3, <2>5, <2>6, <2>7, <3>2, <4>2 DEF OrDocument
    <3> QED BY <3>1, <3>2
  <2> QED BY <2>1, <2>3, <2>5, <2>6, <2>7
<1>10. ASSUME NEW p \in Procs, Write(p) PROVE LossOK'
  BY <1>10, StoreAssumption DEF Write, Works, Fails, Return, Goto, Acknowledge, Midway, OrDocument, OrBackup, NextLoad
<1>11. ASSUME Damage PROVE LossOK'
  BY <1>11, StoreAssumption DEF Damage, Midway, OrDocument, OrBackup, NextLoad, Usable, Mild
<1>12. ~Crash
  BY DEF Crash
<1>13. CASE UNCHANGED vars
  BY <1>13 DEF vars, Midway, OrDocument, OrBackup, NextLoad
<1>14. ASSUME NEW p \in Procs, CallRead(p) \/ \E c \in Changes : CallUpdate(p, c) PROVE LossOK'
  BY <1>1, <1>14 DEF CallRead, CallUpdate, Goto
<1> QED BY <1>2, <1>3, <1>4, <1>5, <1>6, <1>7, <1>8, <1>9, <1>10, <1>11, <1>12, <1>13, <1>14 DEF Next, Step

(* After one damaged or unreadable primary, and no other fault, at most    *)
(* one acknowledged change is missing from what the next Load returns, for *)
(* any number of goroutines, changes and restores.                         *)
THEOREM LossIsBounded == Spec => []AtMostOneLost
<1>1. LossInv => AtMostOneLost
  <2> SUFFICES ASSUME LossInv, gate = Nobody, Mild, \A p \in Procs : ~Restoring(p)
               PROVE  OneLost(NextLoad)
    BY DEF AtMostOneLost, Mild, OneLost
  <2>1. ~Midway
    BY StoreAssumption DEF LossInv, LossOK, Ordered, Midway, Restoring, Inside
  <2> QED BY <2>1 DEF LossInv, LossOK
<1>2. LossInv /\ [Next]_vars => LossInv'
  BY StoreNext, LossNext DEF LossInv
<1> QED BY LossInit, <1>1, <1>2, PTL DEF Spec
=============================================================================
