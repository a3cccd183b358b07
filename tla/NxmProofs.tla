----------------------------- MODULE NxmProofs -----------------------------
(***************************************************************************)
(* Proofs about both halves of nxm://.  About Protocol, for any            *)
(* applications, calls and numbers of failures and crashes: type           *)
(* correctness, that a handler turned off is not claimed by a launch, and  *)
(* that what the document keeps goes back to whom it was taken from.       *)
(* About Nexus, for any links, files, downloads and failures: type         *)
(* correctness, that nothing is left of a download, nor a session of a     *)
(* dialog with one source, and that a cancelled download is not staged.    *)
(***************************************************************************)
EXTENDS Protocol, Nexus, TLAPS

(* Why OptOutRespected holds: calls that overlap make the wish "mixed"; a  *)
(* call that turns the handler on has been wished for; a launch that has   *)
(* asked found no opt-out; and a request to turn it off saves the opt-out  *)
(* before it reaches the registry.                                         *)
Overlap == \A p, q \in Calls : p # q /\ Running(p) /\ Running(q) => wish = "mixed"
OnWished == \A p \in Calls : Running(p) /\ op[p] = "on" => wish \in {"on", "mixed"}
LaunchAsked == \A p \in Calls : Running(p) /\ op[p] = "launch" /\ pc[p] # "ask" => wish # "off"
OffSaved == wish = "off" => optOut
OffSaves ==
  \A p \in Calls : Running(p) /\ op[p] = "off" /\ pc[p] # "optout" /\ wish # "mixed" => optOut
PersistRegisters == \A p \in Calls : pc[p] = "persist" => Registers(p)
WishInv == TypeOK /\ Overlap /\ OnWished /\ LaunchAsked /\ OffSaved /\ OffSaves /\ PersistRegisters

LEMMA InitWish == Init => WishInv
<1> SUFFICES ASSUME Init PROVE WishInv
  OBVIOUS
<1>1. TypeOK
  BY ProtocolAssumption DEF Init, TypeOK, Owners, Snapshots, OtherHandlers, Ops, Steps
<1>2. \A p \in Calls : pc[p] = "idle"
  BY DEF Init
<1> QED BY <1>1, <1>2 DEF Init, WishInv, Overlap, OnWished, LaunchAsked, OffSaved, OffSaves,
                          PersistRegisters, Running

(* Types, one action at a time. *)
LEMMA KeptType ==
  ASSUME NEW h \in Snapshots
  PROVE  Kept(h) \in Snapshots \ {Blank}
BY ProtocolAssumption DEF Kept, Snapshots, OtherHandlers

LEMMA BoundsType ==
  ASSUME TypeOK, Works \/ Fails
  PROVE  begun' \in Nat /\ foreign' \in Nat /\ failures' \in Nat
BY DEF TypeOK, Works, Fails, counters

LEMMA BeginType ==
  ASSUME TypeOK, NEW p \in Calls, NEW what \in Ops, NEW start \in Steps, NEW take \in BOOLEAN,
         Begin(p, what, start, take), up' \in {"no", "yes", "gone"}
  PROVE  TypeOK'
<1>1. wish' \in {"none", "on", "off", "mixed"}
  BY DEF Begin, TypeOK
<1>2. takeOver' \subseteq Calls
  BY DEF Begin, TypeOK
<1>3. op' \in [Calls -> Ops] /\ pc' \in [Calls -> Steps] /\ give' \in [Calls -> Snapshots]
  BY DEF Begin, TypeOK, Goto, Snapshots
<1>4. excused' \in BOOLEAN
  BY DEF Begin, TypeOK
<1> QED BY <1>1, <1>2, <1>3, <1>4 DEF Begin, TypeOK, handler

LEMMA StepType ==
  ASSUME TypeOK, NEW p \in Calls, Step(p)
  PROVE  TypeOK'
<1> USE DEF Ops, Steps
<1>1. CASE Launch(p)
  BY <1>1, BeginType DEF Launch
<1>2. CASE TurnOn(p)
  <2>1. PICK take \in BOOLEAN : Begin(p, "on", "status", take)
    BY <1>2 DEF TurnOn
  <2> QED BY <1>2, <2>1, BeginType DEF TurnOn, TypeOK
<1>3. CASE TurnOff(p)
  BY <1>3, BeginType DEF TurnOff, TypeOK
<1>4. CASE Uninstall(p)
  BY <1>4, BeginType DEF Uninstall
<1>5. CASE Ask(p)
  BY <1>5, BoundsType DEF Ask, TypeOK, Goto, handler, history
<1>6. CASE Look(p)
  BY <1>6, BoundsType DEF Look, TypeOK, Goto, handler, history
<1>7. CASE OptOut(p)
  BY <1>7, BoundsType DEF OptOut, TypeOK, Goto, history
<1>8. CASE ReadPrevious(p)
  BY <1>8, BoundsType DEF ReadPrevious, TypeOK, Goto, handler, history
<1>9. CASE Status(p)
  <2>1. give' \in [Calls -> Snapshots] /\ pc' \in [Calls -> Steps]
    BY <1>9 DEF Status, TypeOK, Goto, Owners
  <2>2. excused' \in BOOLEAN /\ wish' \in {"none", "on", "off", "mixed"}
    BY <1>9 DEF Status, TypeOK
  <2>3. Works \/ Fails
    BY <1>9 DEF Status
  <2> QED BY <1>9, <2>1, <2>2, <2>3, BoundsType DEF Status, TypeOK, handler
<1>10. CASE Delete(p)
  <2>1. owner' \in Owners /\ due' \in Snapshots /\ wasDue' \in Snapshots
    BY <1>10 DEF Delete, TypeOK, Owners, Snapshots, OtherHandlers
  <2>2. excused' \in BOOLEAN /\ pc' \in [Calls -> Steps] /\ (Works \/ Fails)
    BY <1>10 DEF Delete, TypeOK, Goto
  <2> QED BY <1>10, <2>1, <2>2, BoundsType DEF Delete, TypeOK
<1>11. CASE Write(p)
  <2>1. owner' \in Owners /\ due' \in Snapshots
    BY <1>11 DEF Write, TypeOK, Owners, Snapshots, OtherHandlers
  <2>2. excused' \in BOOLEAN /\ pc' \in [Calls -> Steps] /\ (Works \/ Fails)
    BY <1>11 DEF Write, TypeOK, Goto
  <2> QED BY <1>11, <2>1, <2>2, BoundsType DEF Write, TypeOK
<1>12. CASE Persist(p)
  <2>1. due' \in Snapshots /\ optOut' \in BOOLEAN /\ excused' \in BOOLEAN
    BY <1>12 DEF Persist, TypeOK
  <2>2. previous' \in Snapshots
    BY <1>12, KeptType DEF Persist, TypeOK
  <2>3. op' \in [Calls -> Ops] /\ pc' \in [Calls -> Steps] /\ (Works \/ Fails)
    BY <1>12 DEF Persist, TypeOK, Goto
  <2> QED BY <1>12, <2>1, <2>2, <2>3, BoundsType DEF Persist, TypeOK
<1>13. CASE Clear(p)
  <2>1. previous' \in Snapshots /\ due' \in Snapshots /\ excused' \in BOOLEAN
    BY <1>13 DEF Clear, TypeOK, Snapshots
  <2>2. pc' \in [Calls -> Steps] /\ (Works \/ Fails)
    BY <1>13 DEF Clear, TypeOK, Goto
  <2> QED BY <1>13, <2>1, <2>2, BoundsType DEF Clear, TypeOK
<1> QED BY <1>1, <1>2, <1>3, <1>4, <1>5, <1>6, <1>7, <1>8, <1>9, <1>10, <1>11, <1>12, <1>13 DEF Step

LEMMA ForeignType ==
  ASSUME TypeOK, Foreign
  PROVE  TypeOK'
<1>1. owner' \in Owners
  BY DEF Foreign, TypeOK, Owners, Snapshots, OtherHandlers
<1> QED BY <1>1 DEF Foreign, TypeOK, calls, history

LEMMA QuitType ==
  ASSUME TypeOK, Quit
  PROVE  TypeOK'
<1>1. owner' \in Owners
  BY DEF Quit, TypeOK, Owners, Snapshots, OtherHandlers
<1>2. excused' \in BOOLEAN /\ pc' \in [Calls -> Steps]
  BY DEF Quit, TypeOK, Steps
<1>3. begun' \in Nat /\ foreign' \in Nat /\ failures' \in Nat
  BY BoundsType DEF Quit
<1> QED BY <1>1, <1>2, <1>3 DEF Quit, TypeOK

(* The wish, one action at a time. *)
WishParts == Overlap /\ OnWished /\ LaunchAsked /\ OffSaved /\ OffSaves /\ PersistRegisters

LEMMA BeginWish ==
  ASSUME WishInv, NEW p \in Calls, NEW what \in Ops, NEW start \in Steps, NEW take \in BOOLEAN,
         Begin(p, what, start, take), start # "persist",
         what = "launch" => start = "ask", what = "off" => start = "optout"
  PROVE  WishParts'
<1>1. /\ op' = [op EXCEPT ![p] = what] /\ pc' = [pc EXCEPT ![p] = start]
      /\ ~Running(p) /\ optOut' = optOut
  BY DEF Begin, Goto, handler
<1>2. \A q \in Calls \ {p} : op'[q] = op[q] /\ pc'[q] = pc[q]
  BY <1>1 DEF WishInv, TypeOK
<1>3. op'[p] = what /\ pc'[p] = start
  BY <1>1 DEF WishInv, TypeOK
<1>4. CASE ~Alone(p)
  <2>1. wish' = "mixed"
    BY <1>4 DEF Begin
  <2> QED BY <1>1, <1>2, <1>3, <2>1
          DEF WishInv, WishParts, Overlap, OnWished, LaunchAsked, OffSaved, OffSaves, PersistRegisters, Registers
<1>5. CASE Alone(p)
  <2>1. \A q \in Calls : Running(q)' => q = p
    BY <1>2, <1>5 DEF Alone, Running
  <2>2. /\ what = "on" => wish' = "on"
        /\ wish' = "off" => wish = "off"
    BY <1>5 DEF Begin
  <2>3. \A q \in Calls : pc'[q] = "persist" => q # p
    BY <1>3
  <2> QED BY <1>1, <1>2, <1>3, <2>1, <2>2, <2>3
          DEF WishInv, WishParts, Overlap, OnWished, LaunchAsked, OffSaved, OffSaves, PersistRegisters,
              Registers, Running
<1> QED BY <1>4, <1>5

(* Most steps of a call go on without a new wish and without taking the    *)
(* opt-out back.                                                           *)
LEMMA GoesOn ==
  ASSUME WishInv, NEW p \in Calls, Running(p), NEW s \in Steps, Goto(p, s), UNCHANGED wish,
         optOut => optOut',
         \/ UNCHANGED op
         \/ op' = [op EXCEPT ![p] = "rollback"],
         s = "persist" => Registers(p) /\ UNCHANGED op,
         op[p] = "launch" /\ pc[p] = "ask" => s = "idle" \/ s = "ask" \/ wish # "off",
         op[p] = "off" /\ pc[p] = "optout" => s = "idle" \/ s = "optout" \/ optOut'
  PROVE  WishParts'
<1>1. \A q \in Calls \ {p} : op'[q] = op[q] /\ pc'[q] = pc[q]
  BY DEF WishInv, TypeOK, Goto
<1>2. pc'[p] = s
  BY DEF WishInv, TypeOK, Goto
<1>3. op'[p] \in {op[p], "rollback"}
  BY DEF WishInv, TypeOK
<1>4. \A q \in Calls : Running(q)' => Running(q)
  BY <1>1 DEF Running
<1>5. Overlap' /\ OffSaved'
  BY <1>4 DEF WishInv, Overlap, OffSaved
<1>6. OnWished'
  BY <1>1, <1>3, <1>4 DEF WishInv, OnWished
<1>7. LaunchAsked'
  BY <1>1, <1>2, <1>3, <1>4 DEF WishInv, LaunchAsked, Running
<1>8. OffSaves'
  BY <1>1, <1>2, <1>3, <1>4 DEF WishInv, OffSaves, Running
<1>9. PersistRegisters'
  BY <1>1, <1>2, <1>3 DEF WishInv, PersistRegisters, Registers
<1> QED BY <1>5, <1>6, <1>7, <1>8, <1>9 DEF WishParts

(* A request to turn the handler off reaches the registry: nobody else     *)
(* runs unless the wish is "mixed", and the opt-out is saved.              *)
LEMMA StatusWish ==
  ASSUME WishInv, NEW p \in Calls, Status(p)
  PROVE  WishParts'
<1>1. pc[p] = "status" /\ Running(p) /\ UNCHANGED op /\ UNCHANGED optOut
  BY DEF Status, Running, handler
<1>2. PICK s \in {"idle", "delete", "clear"} : Goto(p, s)
  BY DEF Status
<1>3. CASE UNCHANGED wish
  BY <1>1, <1>2, <1>3, GoesOn DEF Steps
<1>4. CASE op[p] = "off" /\ wish # "mixed" /\ wish' = "off"
  <2>1. \A q \in Calls : Running(q) => q = p
    BY <1>1, <1>4 DEF WishInv, Overlap
  <2>2. optOut
    BY <1>1, <1>4 DEF WishInv, OffSaves
  <2>3. pc' = [pc EXCEPT ![p] = s]
    BY <1>2 DEF Goto
  <2>4. \A q \in Calls : Running(q)' => q = p
    BY <2>1, <2>3 DEF Running, WishInv, TypeOK
  <2>5. op[p] # "on" /\ op[p] # "launch"
    BY <1>4
  <2>6. \A q \in Calls : pc'[q] = "persist" => pc[q] = "persist"
    BY <2>3 DEF WishInv, TypeOK
  <2> QED BY <1>1, <2>2, <2>4, <2>5, <2>6
          DEF WishInv, WishParts, Overlap, OnWished, LaunchAsked, OffSaved, OffSaves, PersistRegisters, Registers
<1> QED BY <1>3, <1>4 DEF Status

LEMMA PersistWish ==
  ASSUME WishInv, NEW p \in Calls, Persist(p)
  PROVE  WishParts'
<1>1. pc[p] = "persist" /\ Running(p) /\ UNCHANGED wish /\ Registers(p)
  BY DEF Persist, Running, WishInv, PersistRegisters
<1>2. wish # "off"
  BY <1>1 DEF WishInv, OnWished, LaunchAsked, Registers
<1>3. CASE Goto(p, "idle") /\ optOut' = FALSE /\ UNCHANGED op
  <2>1. \A q \in Calls : Running(q)' => Running(q) /\ q # p /\ pc'[q] = pc[q]
    BY <1>3 DEF Running, Goto, WishInv, TypeOK
  <2>2. (\E q \in Calls : Running(q)') => wish = "mixed"
    BY <1>1, <2>1 DEF WishInv, Overlap
  <2>3. \A q \in Calls : pc'[q] = "persist" => pc[q] = "persist"
    BY <1>3 DEF Goto, WishInv, TypeOK
  <2> QED BY <1>1, <1>2, <1>3, <2>1, <2>2, <2>3
          DEF WishInv, WishParts, Overlap, OnWished, LaunchAsked, OffSaved, OffSaves, PersistRegisters, Registers
<1>4. CASE /\ UNCHANGED optOut
           /\ \/ Goto(p, "status") /\ op' = [op EXCEPT ![p] = "rollback"]
              \/ Goto(p, "idle") /\ UNCHANGED op
  <2>1. CASE Goto(p, "status") /\ op' = [op EXCEPT ![p] = "rollback"]
    BY <1>1, <1>4, <2>1, GoesOn DEF Steps
  <2>2. CASE Goto(p, "idle") /\ UNCHANGED op
    BY <1>1, <1>4, <2>2, GoesOn DEF Steps
  <2> QED BY <1>4, <2>1, <2>2
<1> QED BY <1>3, <1>4 DEF Persist

LEMMA StepWish ==
  ASSUME WishInv, NEW p \in Calls, Step(p)
  PROVE  WishParts'
<1>1. CASE Launch(p)
  BY <1>1, BeginWish DEF Launch, Ops, Steps
<1>2. CASE TurnOn(p)
  BY <1>2, BeginWish DEF TurnOn, Ops, Steps
<1>3. CASE TurnOff(p)
  BY <1>3, BeginWish DEF TurnOff, Ops, Steps
<1>4. CASE Uninstall(p)
  BY <1>4, BeginWish DEF Uninstall, Ops, Steps
<1>5. CASE Ask(p)
  BY <1>5, GoesOn DEF Ask, Steps, Running, handler, history, WishInv, OffSaved
<1>6. CASE Look(p)
  BY <1>6, GoesOn DEF Look, Steps, Running, handler, history
<1>7. CASE OptOut(p)
  BY <1>7, GoesOn DEF OptOut, Steps, Running, history
<1>8. CASE ReadPrevious(p)
  BY <1>8, GoesOn DEF ReadPrevious, Steps, Running, handler, history
<1>9. CASE Status(p)
  BY <1>9, StatusWish
<1>10. CASE Delete(p)
  BY <1>10, GoesOn DEF Delete, Steps, Running
<1>11. CASE Write(p)
  BY <1>11, GoesOn DEF Write, Steps, Running
<1>12. CASE Persist(p)
  BY <1>12, PersistWish
<1>13. CASE Clear(p)
  BY <1>13, GoesOn DEF Clear, Steps, Running
<1> QED BY <1>1, <1>2, <1>3, <1>4, <1>5, <1>6, <1>7, <1>8, <1>9, <1>10, <1>11, <1>12, <1>13 DEF Step

LEMMA QuitWish ==
  ASSUME WishInv, Quit
  PROVE  WishParts'
<1>1. \A p \in Calls : ~Running(p)' /\ pc'[p] # "persist"
  BY DEF Quit, Running
<1> QED BY <1>1 DEF Quit, WishInv, WishParts, Overlap, OnWished, LaunchAsked, OffSaved, OffSaves,
                   PersistRegisters

LEMMA ForeignWish ==
  ASSUME WishInv, Foreign
  PROVE  WishParts'
BY DEF Foreign, calls, history, WishInv, WishParts, Overlap, OnWished, LaunchAsked, OffSaved, OffSaves,
       PersistRegisters, Running, Registers

LEMMA NextWish ==
  ASSUME WishInv, [Next]_vars
  PROVE  WishInv'
<1>1. CASE Foreign
  BY <1>1, ForeignType, ForeignWish DEF WishInv, WishParts
<1>2. CASE Quit
  BY <1>2, QuitType, QuitWish DEF WishInv, WishParts
<1>3. ASSUME NEW p \in Calls, Step(p) PROVE WishInv'
  BY <1>3, StepType, StepWish DEF WishInv, WishParts
<1>4. CASE UNCHANGED vars
  BY <1>4 DEF vars, handler, calls, history, counters, WishInv, TypeOK, Overlap, OnWished, LaunchAsked,
              OffSaved, OffSaves, PersistRegisters, Running, Registers
<1> QED BY <1>1, <1>2, <1>3, <1>4 DEF Next

-----------------------------------------------------------------------------
(* Why OwnerReturned holds.  Which steps an operation goes through, and    *)
(* that only the uninstaller leaves the document behind the registry.      *)
Shape(p) ==
  /\ op[p] # "none"
  /\ pc[p] \in {"ask", "look"} => op[p] = "launch"
  /\ pc[p] \in {"optout", "previous"} => op[p] \in {"off", "uninstall"}
  /\ pc[p] = "persist" => Registers(p)
  /\ pc[p] = "clear" => op[p] = "off"
  /\ op[p] = "rollback" => pc[p] \in {"status", "delete", "write"}
  /\ op[p] = "uninstall" => up = "gone"

(* Where the two agree: the document keeps what it can of who is due when  *)
(* the registry is not being changed; a claim that displaces somebody has  *)
(* him at hand, and knows who was due before; a call that gives back has   *)
(* what is kept of who is due.                                             *)
Agrees(p) ==
  /\ op[p] # "rollback" /\ pc[p] \in {"ask", "look", "optout", "previous", "status", "delete"} => previous = Kept(due)
  /\ Registers(p) /\ pc[p] \in {"write", "persist"} =>
       IF Empty(give[p]) THEN previous = Kept(due) ELSE due = give[p] /\ previous = Kept(wasDue)
  /\ op[p] = "rollback" => previous = Kept(wasDue)
  /\ op[p] \in {"off", "uninstall"} /\ pc[p] \in {"status", "delete", "write"} => give[p] = Kept(due) /\ previous = give[p]

DueInv ==
  /\ \A p \in Calls : Running(p) => Shape(p)
  /\ ~excused =>
       /\ \A p, q \in Calls : Running(p) /\ Running(q) => p = q
       /\ up # "gone" /\ (\A p \in Calls : ~Running(p)) => previous = Kept(due)
       /\ \A p \in Calls : Running(p) => Agrees(p)

(* A step of a call that leaves the others alone owes this much.           *)
LEMMA DueSuffices ==
  ASSUME TypeOK, DueInv, NEW p \in Calls, UNCHANGED up,
         \A q \in Calls \ {p} : op'[q] = op[q] /\ pc'[q] = pc[q] /\ give'[q] = give[q],
         Running(p)' => Shape(p)',
         ~excused' => /\ Alone(p)
                      /\ IF Running(p)' THEN Agrees(p)' ELSE up # "gone" => previous' = Kept(due')
  PROVE  DueInv'
<1>1. \A q \in Calls \ {p} : Running(q)' <=> Running(q)
  BY DEF Running
<1>2. \A q \in Calls : Running(q)' => Shape(q)'
  BY <1>1 DEF DueInv, Shape, Registers
<1>3. ASSUME ~excused' PROVE \A q \in Calls : Running(q)' => q = p
  BY <1>1, <1>3 DEF Alone
<1> QED BY <1>2, <1>3 DEF DueInv

LEMMA StepDue ==
  ASSUME TypeOK, DueInv, NEW p \in Calls, Running(p), Step(p)
  PROVE  DueInv'
<1> DEFINE Others == \A q \in Calls \ {p} : op'[q] = op[q] /\ pc'[q] = pc[q] /\ give'[q] = give[q]
<1>1. Shape(p) /\ (~excused => Alone(p) /\ Agrees(p))
  BY DEF DueInv, Alone
<1>2. ~Launch(p) /\ ~TurnOn(p) /\ ~TurnOff(p) /\ ~Uninstall(p)
  BY DEF Launch, TurnOn, TurnOff, Uninstall, Begin
<1>3. CASE Ask(p) \/ Look(p)
  <2>1. /\ Others /\ UNCHANGED <<up, previous, due, excused>> /\ op'[p] = op[p]
        /\ pc'[p] \in {"look", "status", "idle"} /\ pc[p] \in {"ask", "look"} /\ op[p] = "launch"
    BY <1>1, <1>3 DEF Ask, Look, Goto, TypeOK, handler, history, Shape
  <2> QED BY <1>1, <2>1, DueSuffices DEF Running, Shape, Agrees, Registers
<1>4. CASE OptOut(p) \/ ReadPrevious(p)
  <2>1. /\ Others /\ UNCHANGED <<up, previous, due, excused>> /\ op'[p] = op[p]
        /\ pc'[p] \in {"previous", "status", "idle"} /\ pc[p] \in {"optout", "previous"}
        /\ pc'[p] = "status" => give'[p] = previous
    BY <1>4 DEF OptOut, ReadPrevious, Goto, TypeOK, handler, history
  <2> QED BY <1>1, <2>1, DueSuffices DEF Running, Shape, Agrees, Registers
<1>5. CASE Status(p)
  <2>1. /\ Others /\ UNCHANGED <<up, previous, due, wasDue>> /\ op'[p] = op[p] /\ pc[p] = "status"
        /\ pc'[p] \in {"delete", "clear", "idle"} /\ (pc'[p] = "clear" => op[p] = "off")
        /\ ~Registers(p) => give'[p] = give[p]
        /\ ~excused' => ~excused /\ (op[p] = "rollback" => pc'[p] = "delete")
    BY <1>5 DEF Status, Goto, TypeOK, handler, Registers
  <2> QED BY <1>1, <2>1, DueSuffices DEF Running, Shape, Agrees, Registers
<1>6. CASE Delete(p)
  <2>1. /\ Others /\ UNCHANGED <<up, previous>> /\ op'[p] = op[p] /\ give'[p] = give[p]
        /\ pc[p] = "delete" /\ pc'[p] \in {"write", "idle"}
        /\ ~excused' => ~excused /\ pc'[p] = "write"
        /\ pc'[p] = "write" => IF Registers(p) /\ ~Empty(give[p]) THEN due' = give[p] /\ wasDue' = due
                               ELSE UNCHANGED <<due, wasDue>>
    BY <1>6 DEF Delete, Goto, TypeOK
  <2> QED BY <1>1, <2>1, DueSuffices DEF Running, Shape, Agrees, Registers
<1>7. CASE Write(p)
  <2>1. /\ Others /\ UNCHANGED <<up, previous, wasDue>> /\ op'[p] = op[p] /\ give'[p] = give[p]
        /\ pc[p] = "write" /\ pc'[p] \in {"persist", "clear", "idle"}
        /\ pc'[p] = "clear" => op[p] = "off"
        /\ pc'[p] = "persist" => Registers(p)
        /\ ~excused' => /\ ~excused
                        /\ IF Registers(p) THEN pc'[p] = "persist" /\ due' = due
                           ELSE IF op[p] = "rollback" THEN due' = wasDue /\ pc'[p] = "idle"
                           ELSE pc'[p] = "clear" \/ op[p] # "off"
    BY <1>7 DEF Write, Goto, TypeOK
  <2> QED BY <1>1, <2>1, DueSuffices DEF Running, Shape, Agrees, Registers, TypeOK, Ops
<1>8. CASE Persist(p)
  <2>1. Others /\ UNCHANGED <<up, wasDue>> /\ pc[p] = "persist" /\ Registers(p) /\ give'[p] = give[p]
    BY <1>1, <1>8 DEF Persist, Goto, TypeOK, Shape
  <2>2. CASE /\ Goto(p, "idle")
             /\ IF Empty(give[p]) THEN UNCHANGED <<previous, due, excused>>
                ELSE previous' = Kept(give[p]) /\ due' = give[p] /\ excused' = ~Alone(p)
    <3>1. pc'[p] = "idle"
      BY <2>2 DEF Goto, TypeOK
    <3> QED BY <1>1, <2>1, <2>2, <3>1, DueSuffices DEF Running, Agrees
  <2>3. CASE /\ UNCHANGED <<previous, due, excused>>
             /\ IF Empty(give[p]) THEN Goto(p, "idle")
                ELSE Goto(p, "status") /\ op' = [op EXCEPT ![p] = "rollback"]
    <3>1. IF Empty(give[p]) THEN pc'[p] = "idle" ELSE pc'[p] = "status" /\ op'[p] = "rollback"
      BY <2>3 DEF Goto, TypeOK
    <3> QED BY <1>1, <2>1, <2>3, <3>1, DueSuffices DEF Running, Shape, Agrees, Registers
  <2> QED BY <1>8, <2>2, <2>3 DEF Persist
<1>9. CASE Clear(p)
  <2>1. Others /\ UNCHANGED up /\ pc'[p] = "idle" /\ (~excused' => ~excused /\ previous' = Kept(due'))
    BY <1>9 DEF Clear, Goto, TypeOK, Kept
  <2> QED BY <1>1, <2>1, DueSuffices DEF Running
<1> QED BY <1>2, <1>3, <1>4, <1>5, <1>6, <1>7, <1>8, <1>9 DEF Step

LEMMA BeginDue ==
  ASSUME TypeOK, DueInv, NEW p \in Calls, NEW what \in Ops, NEW start \in Steps, NEW take \in BOOLEAN,
         Begin(p, what, start, take),
         \/ what = "launch" /\ start = "ask" /\ up = "no"
         \/ what = "on" /\ start = "status" /\ up = "yes" /\ UNCHANGED up
         \/ what = "off" /\ start = "optout" /\ up = "yes" /\ UNCHANGED up
         \/ what = "uninstall" /\ start = "previous" /\ up = "no" /\ up' = "gone"
  PROVE  DueInv'
<1>1. /\ op'[p] = what /\ pc'[p] = start /\ ~Running(p) /\ UNCHANGED <<previous, due>>
      /\ \A q \in Calls \ {p} : op'[q] = op[q] /\ pc'[q] = pc[q] /\ give'[q] = give[q]
      /\ ~excused' => ~excused /\ Alone(p)
  BY DEF Begin, Goto, TypeOK, handler
<1>2. \A q \in Calls \ {p} : Running(q)' <=> Running(q)
  BY <1>1 DEF Running
<1>3. Shape(p)' /\ Running(p)'
  BY <1>1 DEF Shape, Registers, Running
<1>4. \A q \in Calls : Running(q)' => Shape(q)'
  <2> SUFFICES ASSUME NEW q \in Calls \ {p}, Running(q)' PROVE Shape(q)'
    BY <1>3
  <2>1. Shape(q) /\ op[q] # "uninstall"
    BY <1>2 DEF DueInv, Shape
  <2> QED BY <1>1, <2>1 DEF Shape, Registers
<1>5. ASSUME ~excused'
      PROVE  (\A q \in Calls : Running(q)' => q = p) /\ Agrees(p)'
  <2>1. \A q \in Calls : ~Running(q)
    BY <1>1, <1>5 DEF Alone
  <2>2. previous = Kept(due)
    BY <1>1, <1>5, <2>1 DEF DueInv
  <2> QED BY <1>1, <1>2, <2>1, <2>2 DEF Agrees, Registers
<1> QED BY <1>3, <1>4, <1>5 DEF DueInv

LEMMA NextDue == TypeOK /\ DueInv /\ [Next]_vars => DueInv'
<1> SUFFICES ASSUME TypeOK, DueInv, [Next]_vars PROVE DueInv'
  OBVIOUS
<1>1. CASE UNCHANGED vars \/ Foreign
  <2>1. UNCHANGED <<previous, due, wasDue, excused, up, op, pc, give>>
    BY <1>1 DEF vars, Foreign, handler, calls, history
  <2> QED BY <2>1 DEF DueInv, Shape, Agrees, Running, Registers
<1>2. CASE Quit
  <2>1. \A p \in Calls : ~Running(p)'
    BY <1>2 DEF Quit, Running
  <2>2. UNCHANGED <<previous, due>>
    BY <1>2 DEF Quit
  <2>3. ASSUME ~excused' PROVE previous = Kept(due)
    <3>1. ~excused /\ up = "yes" /\ \A p \in Calls : pc[p] \notin {"delete", "write", "persist", "clear"}
                                                     /\ (Running(p) => op[p] # "rollback")
      BY <1>2, <2>3 DEF Quit
    <3>2. CASE \A p \in Calls : ~Running(p)
      BY <3>1, <3>2 DEF DueInv
    <3>3. ASSUME NEW p \in Calls, Running(p) PROVE previous = Kept(due)
      BY <3>1, <3>3 DEF DueInv, Agrees, Running, TypeOK, Steps
    <3> QED BY <3>2, <3>3
  <2> QED BY <2>1, <2>2, <2>3 DEF DueInv
<1>3. ASSUME NEW p \in Calls, Step(p) PROVE DueInv'
  <2>1. CASE Running(p)
    BY <1>3, <2>1, StepDue
  <2>2. CASE ~Running(p)
    <3>1. Launch(p) \/ TurnOn(p) \/ TurnOff(p) \/ Uninstall(p)
      BY <1>3, <2>2 DEF Step, Running, Ask, Look, OptOut, ReadPrevious, Status, Delete, Write, Persist, Clear
    <3> USE DEF Ops, Steps
    <3>2. CASE Launch(p)
      BY <3>2, BeginDue DEF Launch
    <3>3. CASE TurnOn(p)
      <4>1. PICK take \in BOOLEAN : Begin(p, "on", "status", take)
        BY <3>3 DEF TurnOn
      <4> QED BY <3>3, <4>1, BeginDue DEF TurnOn
    <3>4. CASE TurnOff(p)
      BY <3>4, BeginDue DEF TurnOff
    <3>5. CASE Uninstall(p)
      BY <3>5, BeginDue DEF Uninstall
    <3> QED BY <3>1, <3>2, <3>3, <3>4, <3>5
  <2> QED BY <2>1, <2>2
<1> QED BY <1>1, <1>2, <1>3 DEF Next

-----------------------------------------------------------------------------
(* The types hold in every behaviour of the protocol handler. *)
THEOREM ProtocolTypeCorrect == Spec => []TypeOK
<1>1. WishInv => TypeOK
  BY DEF WishInv
<1> QED BY InitWish, NextWish, <1>1, PTL DEF Spec

(* However many calls, failures and crashes: once a request to turn the    *)
(* handler off has reached the registry, no launch claims it before it is  *)
(* turned on again (ensureNexusProtocol, UnregisterNexusProtocol).         *)
THEOREM OptOutIsRespected == Spec => OptOutRespected
<1> DEFINE Respects ==
      \A p \in Calls : op[p] = "launch" /\ pc[p] = "write" /\ pc'[p] = "persist" => wish # "off"
<1>1. WishInv /\ [Next]_vars => [Respects]_vars
  BY DEF WishInv, LaunchAsked, Running
<1> QED BY InitWish, NextWish, <1>1, PTL DEF Spec, OptOutRespected

(* Whoever lost the handler to the program gets what the document keeps of *)
(* it when it is turned off or the program is uninstalled, and nobody else *)
(* gets it, for any applications and any number of calls, claims and       *)
(* rolled-back claims before (Registrar.Unregister, persistHandlerEnabled).*)
THEOREM OwnerIsReturned == Spec => OwnerReturned
<1> DEFINE Returned ==
      \A p \in Calls :
        (op[p] \in {"off", "uninstall"} /\ pc[p] = "write" /\ pc'[p] # "write" /\ ~excused /\ ~excused')
          => owner' = IF Kept(due) = None THEN owner ELSE Kept(due)
<1>1. Init => DueInv
  BY DEF Init, DueInv, Running, Kept
<1>2. TypeOK /\ DueInv /\ [Next]_vars => [Returned]_vars
  <2> SUFFICES ASSUME TypeOK, DueInv, [Next]_vars, NEW p \in Calls,
                      op[p] \in {"off", "uninstall"}, pc[p] = "write", pc'[p] # "write", ~excused, ~excused'
               PROVE  owner' = IF Kept(due) = None THEN owner ELSE Kept(due)
    OBVIOUS
  <2>1. give[p] = Kept(due) /\ Running(p) /\ ~Registers(p)
    BY DEF DueInv, Agrees, Running, Registers
  <2>2. Write(p)
    <3>1. ~Quit /\ ~Foreign /\ ~UNCHANGED vars
      BY DEF Quit, Foreign, vars, calls
    <3>2. PICK q \in Calls : Step(q)
      BY <3>1 DEF Next
    <3>3. q = p
      <4>1. \A r \in Calls \ {q} : pc'[r] = pc[r]
        BY <3>2 DEF Step, Launch, TurnOn, TurnOff, Uninstall, Begin, Ask, Look, OptOut, ReadPrevious, Status,
                    Delete, Write, Persist, Clear, Goto, TypeOK
      <4> QED BY <4>1
    <3> QED BY <3>2, <3>3, <2>1 DEF Step, Launch, TurnOn, TurnOff, Uninstall, Begin, Ask, Look, OptOut,
                                     ReadPrevious, Status, Delete, Persist, Clear
  <2>3. Empty(give[p]) <=> Kept(due) = None
    BY <2>1, KeptType DEF Empty, TypeOK
  <2> QED BY <2>1, <2>2, <2>3 DEF Write
<1> QED BY InitWish, NextWish, NextDue, <1>1, <1>2, PTL DEF Spec, WishInv, OwnerReturned

-----------------------------------------------------------------------------
(* Nexus. *)

Phases == {"none", "begin", "check", "links", "drop", "open", "read", "stage",
           "cleanup", "clear", "answer", "late", "done"}

NexusTypeOK ==
  /\ ready \in BOOLEAN /\ pending \in Clicks \cup {Nothing} /\ starting \in {"before", "emit", "done"}
  /\ link \in [Clicks -> {"new", "emit", "done"}] /\ secrets \in [Files -> Clicks \cup {Nothing}]
  /\ cancel \in Downloads \cup {Nothing} /\ phase \in [Downloads -> Phases]
  /\ file \in [Downloads -> Files \cup {Nothing}]
  /\ stopped \subseteq Downloads /\ dirs \subseteq Downloads /\ sessions \subseteq Downloads
  /\ mounted \in BOOLEAN /\ events \in Nat /\ first \in {"none", "asked", "answer", "done"}
  /\ firstLink \in Clicks \cup {Nothing} /\ takes \in Nat /\ answers \subseteq Clicks
  /\ swallowed \subseteq Clicks \cup {Nothing}
  /\ dialog \in Clicks \cup {Nothing} /\ installing \in Downloads \cup {Nothing}
  /\ shown \subseteq Downloads /\ sessionRef \in Downloads \cup {Nothing}
  /\ applying \in Downloads \cup {Nothing} /\ crossed \subseteq Downloads
  /\ closing \in {"open", "cancel", "session", "gone"}
  /\ asked \subseteq Downloads /\ displaced \subseteq Downloads /\ netFailures \in Nat

(* A directory lives while its body is read and staged; a session until    *)
(* its call has answered, and then as long as the dialog waits for this    *)
(* call or it is installed, unless its dialog was given another source.    *)
DirsUsed == \A k \in dirs : phase[k] \in {"read", "stage", "cleanup"} /\ file[k] # Nothing
Fetches ==
  \A k \in Downloads :
    phase[k] \in {"begin", "check", "links", "drop", "open", "read", "cleanup", "clear"} => file[k] # Nothing
SessionsUsed ==
  \A k \in sessions : \/ phase[k] \in {"cleanup", "clear", "answer", "late"}
                      \/ phase[k] = "done" /\ (k \in crossed \/ installing = k \/ applying = k)

(* A dialog has one call or has been given another source; the session it  *)
(* holds is one of its calls', and once its only call has answered, that   *)
(* of this call, which is cancelled before the dialog goes.                *)
DialogOne ==
  IF installing = Nothing THEN shown = {} /\ sessionRef = Nothing /\ closing = "open"
  ELSE installing \in shown /\ (shown = {installing} \/ shown \subseteq crossed)
RefKnown ==
  /\ sessionRef # Nothing => sessionRef \in shown /\ phase[sessionRef] \in {"late", "done"}
  /\ installing \in sessions /\ phase[installing] = "done" => installing \in crossed \/ sessionRef = installing
GoneClean ==
  closing = "gone" =>
    installing \in crossed \/ (phase[installing] \in {"late", "done"} /\ installing \notin sessions)

(* A call that downloads can be cancelled, or was, or lost its cancel      *)
(* function to another; so was every call that could be cancelled when its *)
(* dialog was closed.                                                      *)
Cancellable ==
  \A k \in Downloads :
    \/ phase[k] \in {"check", "links", "drop", "open", "read", "cleanup", "clear"}
    \/ phase[k] = "stage" /\ file[k] # Nothing
    => cancel = k \/ k \in stopped \cup displaced
AskedStopped == asked \subseteq stopped \cup displaced /\ \A k \in asked : phase[k] # "none"

DialogInv == DialogOne /\ RefKnown /\ GoneClean
DownloadInv ==
  /\ NexusTypeOK /\ DirsUsed /\ Fetches /\ SessionsUsed /\ DialogInv /\ Cancellable /\ AskedStopped /\ CancelledFails

LEMMA InitDownload == NexusInit => DownloadInv
<1> SUFFICES ASSUME NexusInit PROVE DownloadInv
  OBVIOUS
<1>1. NexusTypeOK
  BY NexusAssumption DEF NexusInit, NexusTypeOK, Phases
<1> QED BY <1>1, NexusAssumption DEF NexusInit, DownloadInv, DirsUsed, Fetches, SessionsUsed, DialogInv, DialogOne, RefKnown,
                                     GoneClean, Cancellable, AskedStopped, CancelledFails

-----------------------------------------------------------------------------
(* Links do not touch downloads. *)
LEMMA BoundType == ASSUME NexusTypeOK, NetWorks \/ NetFails PROVE netFailures' \in Nat
BY DEF NexusTypeOK, NetWorks, NetFails

LEMMA DropType ==
  ASSUME NexusTypeOK, NEW f, DropSecrets(f)
  PROVE  secrets' \in [Files -> Clicks \cup {Nothing}]
BY DEF NexusTypeOK, DropSecrets

LEMMA IngestType ==
  ASSUME NexusTypeOK, NEW c \in Clicks \cup {Nothing}, Ingest(c)
  PROVE  /\ dialog' \in Clicks \cup {Nothing} /\ secrets' \in [Files -> Clicks \cup {Nothing}]
         /\ netFailures' \in Nat
BY BoundType, DropType DEF Ingest, NexusTypeOK

LEMMA LinkType ==
  ASSUME NexusTypeOK, Linking \/ TurnDown \/ (\E c \in Clicks : StoreLink(c))
  PROVE  NexusTypeOK' /\ UNCHANGED <<download, install>>
<1> USE DEF links, window, view, download, install
<1>1. CASE Startup
  BY <1>1, BoundType DEF Startup, NexusTypeOK
<1>2. CASE EmitStartup
  BY <1>2, BoundType DEF EmitStartup, Emit, WindowOnly, NexusTypeOK
<1>3. CASE Mount
  BY <1>3, BoundType DEF Mount, NexusTypeOK
<1>4. CASE Deliver
  BY <1>4, BoundType DEF Deliver, NexusTypeOK
<1>5. CASE TakeFirst
  BY <1>5, BoundType DEF TakeFirst, NexusTypeOK
<1>6. CASE Take
  BY <1>6, BoundType DEF Take, NexusTypeOK
<1>7. CASE ShowFirst
  BY <1>7, IngestType DEF ShowFirst, NexusTypeOK
<1>8. CASE Show
  <2>1. PICK c \in answers : answers' = answers \ {c} /\ Ingest(c)
    BY <1>8 DEF Show
  <2>2. c \in Clicks
    BY <2>1 DEF NexusTypeOK
  <2> QED BY <1>8, <2>1, <2>2, IngestType DEF Show, NexusTypeOK
<1>9. ASSUME NEW c \in Clicks, EmitLink(c) PROVE NexusTypeOK' /\ UNCHANGED <<download, install>>
  BY <1>9, BoundType DEF EmitLink, Emit, WindowOnly, NexusTypeOK
<1>10. CASE TurnDown
  BY <1>10, BoundType, DropType DEF TurnDown, NexusTypeOK
<1>11. ASSUME NEW c \in Clicks, StoreLink(c) PROVE NexusTypeOK' /\ UNCHANGED <<download, install>>
  <2>1. secrets' \in [Files -> Clicks \cup {Nothing}]
    BY <1>11, NexusAssumption DEF StoreLink, NexusTypeOK
  <2>2. link' \in [Clicks -> {"new", "emit", "done"}]
    BY <1>11 DEF StoreLink, NexusTypeOK
  <2> QED BY <1>11, <2>1, <2>2, BoundType DEF StoreLink, NexusTypeOK
<1> QED BY <1>1, <1>2, <1>3, <1>4, <1>5, <1>6, <1>7, <1>8, <1>9, <1>10, <1>11 DEF Linking

LEMMA QuietDownload ==
  ASSUME DownloadInv, NexusTypeOK', UNCHANGED <<download, install>>
  PROVE  DownloadInv'
BY DEF DownloadInv, DirsUsed, Fetches, SessionsUsed, DialogInv, DialogOne, RefKnown, GoneClean, Cancellable, AskedStopped,
       CancelledFails, download, install

-----------------------------------------------------------------------------
(* The calls. *)
LEMMA PrepareType ==
  ASSUME NexusTypeOK, NEW k \in Downloads, Prepare(k)
  PROVE  NexusTypeOK'
<1> USE DEF links, window, view, install, CallOnly, Reach, Phases
<1>1. CASE BeginCall(k)
  BY <1>1, BoundType DEF BeginCall, NexusTypeOK
<1>2. CASE Check(k)
  BY <1>2, BoundType, DropType DEF Check, NexusTypeOK
<1>3. CASE AskLinks(k) \/ Open(k) \/ Read(k)
  BY <1>3, BoundType DEF AskLinks, Open, Read, NexusTypeOK
<1>4. CASE Spend(k)
  BY <1>4, BoundType, DropType DEF Spend, NexusTypeOK
<1>5. CASE StageFile(k) \/ Cleanup(k) \/ CancelLate(k)
  BY <1>5, BoundType DEF StageFile, Cleanup, CancelLate, NexusTypeOK
<1>6. CASE ClearCancel(k)
  BY <1>6, BoundType DEF ClearCancel, NexusTypeOK
<1>7. CASE Answer(k)
  BY <1>7, BoundType DEF Answer, NexusTypeOK
<1> QED BY <1>1, <1>2, <1>3, <1>4, <1>5, <1>6, <1>7 DEF Prepare

LEMMA PrepareDownload ==
  ASSUME DownloadInv, NEW k \in Downloads, Prepare(k)
  PROVE  DownloadInv'
<1>1. NexusTypeOK /\ NexusTypeOK'
  BY PrepareType DEF DownloadInv
<1>2. /\ UNCHANGED <<installing, shown, applying, closing, crossed, file, stopped, asked>>
      /\ displaced \subseteq displaced'
  BY DEF Prepare, BeginCall, Check, AskLinks, Spend, Open, Read, StageFile, Cleanup, ClearCancel, Answer,
         CancelLate, CallOnly, view, install
<1>3. PICK p \in Phases : phase' = [phase EXCEPT ![k] = p]
  BY DEF Prepare, BeginCall, Check, AskLinks, Spend, Open, Read, StageFile, Cleanup, ClearCancel, Answer,
         CancelLate, Reach, Phases
<1>4. phase'[k] = p /\ \A j \in Downloads \ {k} : phase'[j] = phase[j]
  BY <1>1, <1>3 DEF NexusTypeOK
<1>5. DirsUsed'
  <2>1. dirs' \subseteq dirs \cup {k}
    BY DEF Prepare, BeginCall, Check, AskLinks, Spend, Open, Read, StageFile, Cleanup, ClearCancel, Answer,
           CancelLate, CallOnly
  <2>2. k \in dirs' => p \in {"read", "stage", "cleanup"} /\ file[k] # Nothing
    BY <1>1, <1>4 DEF DownloadInv, DirsUsed, Fetches, Prepare, BeginCall, Check, AskLinks, Spend, Open, Read,
           StageFile, Cleanup, ClearCancel, Answer, CancelLate, CallOnly, Reach, NexusTypeOK
  <2> QED BY <1>1, <1>2, <1>4, <2>1, <2>2 DEF DownloadInv, DirsUsed, NexusTypeOK
<1>6. /\ sessions' \subseteq sessions \cup {k}
      /\ k \in sessions' => p \in {"cleanup", "clear", "answer", "late"} \/ (p = "done" /\ installing = k)
  BY <1>1, <1>4 DEF DownloadInv, SessionsUsed, DirsUsed, Prepare, BeginCall, Check, AskLinks, Spend, Open, Read,
         StageFile, Cleanup, ClearCancel, Answer, CancelLate, CallOnly, Reach, NexusTypeOK
<1>7. SessionsUsed'
  BY <1>1, <1>2, <1>4, <1>6 DEF DownloadInv, SessionsUsed, NexusTypeOK
<1>8. DialogInv'
  <2>1. phase[k] \notin {"none", "done"}
    BY DEF Prepare, BeginCall, Check, AskLinks, Spend, Open, Read, StageFile, Cleanup, ClearCancel, Answer,
           CancelLate
  <2>2. phase[k] = "late" => p = "done" /\ k \notin sessions'
    BY <1>4 DEF Prepare, BeginCall, Check, AskLinks, Spend, Open, Read, StageFile, Cleanup, ClearCancel,
           Answer, CancelLate, Reach, NexusTypeOK, DownloadInv
  <2>3. \/ sessionRef' = sessionRef /\ (p = "done" => k \notin sessions')
        \/ k \in shown /\ sessionRef' = k /\ p \in {"late", "done"} /\ phase[k] = "answer"
    <3>1. CASE Answer(k)
      <4>1. sessionRef' = IF k \in shown \cap sessions THEN k ELSE sessionRef
        BY <3>1 DEF Answer
      <4>2. p \in {"late", "done"} /\ phase[k] = "answer" /\ sessions' = sessions
        BY <3>1, <1>1, <1>4 DEF Answer, Reach, NexusTypeOK
      <4>3. p = "done" /\ k \in sessions => installing = k
        BY <3>1, <1>1, <1>4 DEF Answer, Reach, NexusTypeOK
      <4>4. k # Nothing
        BY NexusAssumption
      <4>5. installing = k => k \in shown
        BY <4>4 DEF DownloadInv, DialogInv, DialogOne
      <4> QED BY <4>1, <4>2, <4>3, <4>5
    <3>2. CASE ~Answer(k)
      <4>1. sessionRef' = sessionRef
        BY <3>2 DEF Prepare, BeginCall, Check, AskLinks, Spend, Open, Read, StageFile, Cleanup, ClearCancel,
               CancelLate, CallOnly, view, install
      <4>2. p = "done" => k \notin sessions'
        BY <3>2, <1>1, <1>4 DEF Prepare, BeginCall, Check, AskLinks, Spend, Open, Read, StageFile, Cleanup,
               ClearCancel, CancelLate, Reach, NexusTypeOK
      <4> QED BY <4>1, <4>2
    <3> QED BY <3>1, <3>2
  <2>4. DialogOne'
    BY <1>1, <1>2, <2>3 DEF DownloadInv, DialogInv, DialogOne
  <2>5. RefKnown'
    BY <1>1, <1>2, <1>4, <1>6, <2>1, <2>3, <2>2, NexusAssumption
       DEF DownloadInv, DialogInv, DialogOne, RefKnown, NexusTypeOK
  <2>6. GoneClean'
    BY <1>1, <1>2, <1>4, <1>6, <2>1, <2>3, <2>2 DEF DownloadInv, DialogInv, DialogOne, GoneClean, NexusTypeOK
  <2> QED BY <2>4, <2>5, <2>6 DEF DialogInv
<1>9. Cancellable'
  <2>1. ASSUME NEW j \in Downloads \ {k}, cancel = j PROVE cancel' = j \/ j \in displaced'
    BY <2>1, <1>1, NexusAssumption DEF Prepare, BeginCall, Check, AskLinks, Spend, Open, Read,
           StageFile, Cleanup, ClearCancel, Answer, CancelLate, NexusTypeOK
  <2>2. \/ p \in {"check", "links", "drop", "open", "read", "cleanup", "clear"}
        \/ p = "stage" /\ file[k] # Nothing
        => cancel' = k \/ k \in stopped \cup displaced'
    BY <1>1, <1>2, <1>4 DEF DownloadInv, Cancellable, Prepare, BeginCall, Check, AskLinks, Spend, Open,
           Read, StageFile, Cleanup, ClearCancel, Answer, CancelLate, Reach, NexusTypeOK
  <2> QED BY <1>2, <1>4, <2>1, <2>2 DEF DownloadInv, Cancellable
<1>10. AskedStopped'
  <2>1. p # "none"
    BY <1>1, <1>4 DEF Prepare, BeginCall, Check, AskLinks, Spend, Open, Read, StageFile, Cleanup, ClearCancel,
           Answer, CancelLate, Reach, NexusTypeOK
  <2> QED BY <1>1, <1>2, <1>4, <2>1 DEF DownloadInv, AskedStopped, NexusTypeOK
<1>11. CancelledFails'
  <2>1. p = "stage" => k \notin stopped
    BY <1>1, <1>4 DEF Prepare, BeginCall, Check, AskLinks, Spend, Open, Read, StageFile, Cleanup, ClearCancel,
           Answer, CancelLate, Reach, NexusTypeOK
  <2>2. asked \subseteq Downloads
    BY <1>1 DEF NexusTypeOK
  <2> QED BY <1>2, <1>4, <2>1, <2>2 DEF DownloadInv, CancelledFails, AskedStopped
<1>12. Fetches'
  <2>1. p \in {"begin", "check", "links", "drop", "open", "read", "cleanup", "clear"} => file[k] # Nothing
    BY <1>1, <1>4 DEF DownloadInv, Fetches, Prepare, BeginCall, Check, AskLinks, Spend, Open, Read,
           StageFile, Cleanup, ClearCancel, Answer, CancelLate, CallOnly, Reach, NexusTypeOK
  <2> QED BY <1>1, <1>2, <1>4, <2>1 DEF DownloadInv, Fetches
<1> QED BY <1>1, <1>5, <1>7, <1>8, <1>9, <1>10, <1>11, <1>12 DEF DownloadInv

-----------------------------------------------------------------------------
(* The user.  A new source makes one new call, and crosses the calls of an *)
(* open dialog.                                                            *)
LEMMA SourceDownload ==
  ASSUME DownloadInv, NEW k \in Downloads, NEW f \in Files \cup {Nothing}, Source(k, f),
         dialog' \in Clicks \cup {Nothing}
  PROVE  DownloadInv'
<1>1. NexusTypeOK
  BY DEF DownloadInv
<1>2. NexusTypeOK'
  BY <1>1, BoundType DEF Source, Reach, NexusTypeOK, Phases, links, window
<1>3. /\ phase[k] = "none" /\ phase'[k] = (IF f = Nothing THEN "stage" ELSE "begin")
      /\ \A j \in Downloads \ {k} : phase'[j] = phase[j]
  BY <1>1 DEF Source, Reach, NexusTypeOK
<1>4. file'[k] = f /\ \A j \in Downloads \ {k} : file'[j] = file[j]
  BY <1>1 DEF Source, NexusTypeOK
<1>5. /\ UNCHANGED <<stopped, dirs, sessions, cancel, asked, displaced, sessionRef, applying, closing>>
      /\ installing' = k /\ shown' = shown \cup {k}
      /\ crossed' = IF installing = Nothing THEN crossed ELSE crossed \cup shown \cup {k}
  BY DEF Source
<1>6. k \notin dirs /\ k \notin sessions /\ k \notin asked /\ sessionRef # k
  BY <1>1, <1>3, NexusAssumption
     DEF DownloadInv, DirsUsed, SessionsUsed, AskedStopped, DialogInv, RefKnown, NexusTypeOK
<1>7. DirsUsed' /\ Fetches'
  BY <1>1, <1>3, <1>4, <1>5, <1>6 DEF DownloadInv, DirsUsed, Fetches, NexusTypeOK
<1>8. SessionsUsed'
  <2> SUFFICES ASSUME NEW j \in sessions
               PROVE  \/ phase'[j] \in {"cleanup", "clear", "answer", "late"}
                      \/ phase'[j] = "done" /\ (j \in crossed' \/ installing' = j \/ applying' = j)
    BY <1>5 DEF SessionsUsed
  <2>1. j \in Downloads \ {k} /\ phase'[j] = phase[j]
    BY <1>1, <1>3, <1>6 DEF NexusTypeOK
  <2>2. installing = j => j \in crossed'
    BY <1>1, <1>5, <2>1, NexusAssumption DEF DownloadInv, DialogInv, DialogOne
  <2> QED BY <1>5, <2>1, <2>2 DEF DownloadInv, SessionsUsed
<1>9. DialogInv'
  <2>1. DialogOne'
    BY <1>5, NexusAssumption DEF DownloadInv, DialogInv, DialogOne
  <2>2. RefKnown'
    BY <1>1, <1>3, <1>5, <1>6, NexusAssumption DEF DownloadInv, DialogInv, DialogOne, RefKnown, NexusTypeOK
  <2>3. GoneClean'
    BY <1>5 DEF DownloadInv, DialogInv, DialogOne, GoneClean
  <2> QED BY <2>1, <2>2, <2>3 DEF DialogInv
<1>10. Cancellable'
  BY <1>3, <1>4, <1>5 DEF DownloadInv, Cancellable
<1>11. AskedStopped' /\ CancelledFails'
  BY <1>1, <1>3, <1>5, <1>6 DEF DownloadInv, AskedStopped, CancelledFails, NexusTypeOK
<1> QED BY <1>2, <1>7, <1>8, <1>9, <1>10, <1>11 DEF DownloadInv

LEMMA UserDownload ==
  ASSUME DownloadInv, User
  PROVE  DownloadInv'
<1> USE NexusAssumption DEF DownloadInv, links, window, download
<1>1. CASE TurnDown
  BY <1>1, LinkType, QuietDownload
<1>2. CASE CloseDialog
  <2>1. NexusTypeOK'
    BY <1>2, BoundType DEF CloseDialog, NexusTypeOK
  <2>2. DialogInv'
    BY <1>2 DEF CloseDialog, DialogInv, DialogOne, RefKnown, GoneClean
  <2> QED BY <1>2, <2>1, <2>2 DEF CloseDialog, DirsUsed, Fetches, SessionsUsed, Cancellable, AskedStopped, CancelledFails
<1>3. CASE CancelDownload
  <2>1. NexusTypeOK'
    BY <1>3, BoundType DEF CancelDownload, NexusTypeOK
  <2>2. DirsUsed' /\ Fetches' /\ SessionsUsed'
    BY <1>3 DEF CancelDownload, DirsUsed, Fetches, SessionsUsed
  <2>3. DialogInv'
    BY <1>3 DEF CancelDownload, DialogInv, DialogOne, RefKnown, GoneClean
  <2>4. Cancellable'
    BY <1>3 DEF CancelDownload, Cancellable, NexusTypeOK
  <2>5. AskedStopped' /\ CancelledFails'
    BY <1>3 DEF CancelDownload, Cancellable, AskedStopped, CancelledFails, NexusTypeOK
  <2> QED BY <2>1, <2>2, <2>3, <2>4, <2>5
<1>4. CASE CancelSession
  <2>1. NexusTypeOK'
    BY <1>4, BoundType DEF CancelSession, NexusTypeOK
  <2>2. SessionsUsed'
    BY <1>4 DEF CancelSession, SessionsUsed
  <2>3. DialogOne' /\ RefKnown'
    BY <1>4 DEF CancelSession, DialogInv, DialogOne, RefKnown
  <2>4. GoneClean'
    BY <1>4 DEF CancelSession, DialogInv, DialogOne, RefKnown, GoneClean
  <2> QED BY <1>4, <2>1, <2>2, <2>3, <2>4
          DEF CancelSession, DialogInv, DirsUsed, Fetches, Cancellable, AskedStopped, CancelledFails
<1>5. CASE DialogGoes
  <2>1. NexusTypeOK'
    BY <1>5, BoundType DEF DialogGoes, Gone, NexusTypeOK
  <2>2. installing \in sessions /\ phase[installing] = "done" => installing \in crossed
    BY <1>5 DEF DialogGoes, DialogInv, RefKnown, GoneClean, NexusTypeOK
  <2>3. SessionsUsed'
    BY <1>5, <2>2 DEF DialogGoes, SessionsUsed
  <2>4. DialogInv'
    BY <1>5, <2>1 DEF DialogGoes, Gone, DialogInv, DialogOne, RefKnown, GoneClean, NexusTypeOK
  <2> QED BY <1>5, <2>1, <2>3, <2>4 DEF DialogGoes, DirsUsed, Fetches, Cancellable, AskedStopped, CancelledFails
<1>6. CASE Apply
  <2>1. NexusTypeOK'
    BY <1>6, BoundType DEF Apply, NexusTypeOK
  <2>2. SessionsUsed'
    BY <1>6 DEF Apply, SessionsUsed, NexusTypeOK
  <2>3. DialogInv'
    BY <1>6 DEF Apply, DialogInv, DialogOne, RefKnown, GoneClean
  <2> QED BY <1>6, <2>1, <2>2, <2>3 DEF Apply, DirsUsed, Fetches, Cancellable, AskedStopped, CancelledFails
<1>7. CASE Applied
  <2>1. NexusTypeOK'
    BY <1>7, BoundType DEF Applied, Gone, NexusTypeOK
  <2>2. SessionsUsed'
    BY <1>7 DEF Applied, Gone, SessionsUsed, DialogInv, DialogOne, NexusTypeOK
  <2>3. DialogInv'
    BY <1>7, <2>1 DEF Applied, Gone, DialogInv, DialogOne, RefKnown, GoneClean, NexusTypeOK
  <2> QED BY <1>7, <2>1, <2>2, <2>3 DEF Applied, DirsUsed, Fetches, Cancellable, AskedStopped, CancelledFails
<1>8. ASSUME NEW k \in Downloads, Confirm(k) \/ Drop(k) \/ Again(k) PROVE DownloadInv'
  <2>1. CASE Confirm(k)
    BY <2>1, SourceDownload DEF Confirm, NexusTypeOK
  <2>2. CASE Drop(k)
    BY <2>2, SourceDownload DEF Drop, NexusTypeOK
  <2>3. CASE Again(k)
    BY <2>3, SourceDownload DEF Again, NexusTypeOK
  <2> QED BY <1>8, <2>1, <2>2, <2>3
<1> QED BY <1>1, <1>2, <1>3, <1>4, <1>5, <1>6, <1>7, <1>8 DEF User

LEMMA NextDownload == DownloadInv /\ [NexusNext]_nexusVars => DownloadInv'
<1> SUFFICES ASSUME DownloadInv, [NexusNext]_nexusVars PROVE DownloadInv'
  OBVIOUS
<1>1. CASE Linking \/ (\E c \in Clicks : StoreLink(c))
  BY <1>1, LinkType, QuietDownload DEF DownloadInv
<1>2. CASE User
  BY <1>2, UserDownload
<1>3. CASE \E k \in Downloads : Prepare(k)
  BY <1>3, PrepareDownload
<1>4. CASE UNCHANGED nexusVars
  <2>1. NexusTypeOK' /\ UNCHANGED <<download, install>>
    BY <1>4 DEF DownloadInv, NexusTypeOK, nexusVars, links, window, view, install, download
  <2> QED BY <2>1, QuietDownload
<1> QED BY <1>1, <1>2, <1>3, <1>4 DEF NexusNext

-----------------------------------------------------------------------------
(* The variables keep their types. *)
THEOREM NexusTypeCorrect == NexusSpec => []NexusTypeOK
<1> QED BY InitDownload, NextDownload, PTL DEF NexusSpec, DownloadInv

(* Whatever links, calls, dialogs closed and failures: once no call runs,  *)
(* no install dialog is open and none is applied, no download directory is *)
(* left (download.go's cleanup), and no staging session but those of a     *)
(* dialog that was given another source (InstallPreviewDialog's            *)
(* sessionIdRef and its late answers).                                     *)
THEOREM NothingIsLeft == NexusSpec => []NothingLeft
<1>1. DownloadInv => NothingLeft
  BY NexusAssumption DEF DownloadInv, DirsUsed, SessionsUsed, NothingLeft, NexusTypeOK
<1> QED BY InitDownload, NextDownload, <1>1, PTL DEF NexusSpec

(* A download whose dialog was closed while its cancel function was there  *)
(* and before its last byte is not staged, unless another call that still  *)
(* ran replaced or cleared that function.                                  *)
THEOREM CancelledDoFail == NexusSpec => []CancelledFails
<1> QED BY InitDownload, NextDownload, PTL DEF NexusSpec, DownloadInv
=============================================================================
