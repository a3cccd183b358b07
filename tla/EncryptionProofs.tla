-------------------------- MODULE EncryptionProofs --------------------------
(***************************************************************************)
(* Proofs about Encryption for any bundles, workers, batches, failures and *)
(* kills: type correctness, that every bundle can be put together again at *)
(* every instant, and that what a batch reports is true.                   *)
(***************************************************************************)
EXTENDS Encryption, TLAPS

Busy(w) == ~Idle(w)
Touches == IF op = "strip" THEN {"pak"} ELSE Files
New(f) == IF f = "pak" THEN "clean" ELSE Goal(op)

Steps == {"idle", "start", "stage", "swap", "install", "return", "undo", "drop"}

TypeOK ==
  /\ live \in [Mods -> [Files -> AllContents]] /\ bak \in [Mods -> [Files -> AllContents]]
  /\ before \in [Mods -> [Files -> AllContents]] /\ jammed \subseteq Mods
  /\ op \in Ops /\ batch \in Seq(Mods) /\ sent \in Nat
  /\ main \in {"idle", "next", "send", "wait", "returned"}
  /\ channel \in {"none", "open", "closed"} /\ sawCancel \in BOOLEAN /\ early \in BOOLEAN
  /\ succeeded \subseteq Mods /\ failed \subseteq Mods /\ dropped \subseteq Mods
  /\ error \in {"nil", "cancelled", "other"}
  /\ step \in [Workers -> Steps] /\ job \in [Workers -> Mods \cup {None}]
  /\ todo \in [Workers -> SUBSET Files] /\ applied \in [Workers -> SUBSET Files]
  /\ current \in [Workers -> Files \cup {None}]
  /\ calls \in Nat /\ failures \in Nat /\ kills \in Nat

(* Bundles are handed out once each, in the order of the batch. *)
Handed ==
  /\ main \in {"idle", "returned"} => \A w \in Workers : Idle(w)
  /\ main = "send" => sent < Len(batch)
  /\ sent <= Len(batch) /\ IsInjective(batch)
  /\ \A w \in Workers : Busy(w) => \E k \in 1 .. sent : job[w] = batch[k]
  /\ \A v, w \in Workers : v # w /\ Busy(v) /\ Busy(w) => job[v] # job[w]

(* What a worker has done to the files of its bundle: nothing is lost, and *)
(* what is not swapped yet is as it was.                                   *)
Old(m, f) == before[m][f]
Sound(m) == /\ \A f \in Touches : Old(m, f) \in Whole(f)
            /\ op # "strip" => Old(m, "utoc") = Old(m, "ucas")
Swapping(w) ==
  LET m == job[w]
  IN /\ applied[w] \subseteq Touches /\ todo[w] \subseteq Touches /\ applied[w] \cap todo[w] = {}
     /\ step[w] \in {"swap", "install", "return", "undo"} =>
          /\ Sound(m)
          /\ \A f \in applied[w] : bak[m][f] = Old(m, f)
          /\ \A f \in Touches : Old(m, f) \in {live[m][f], bak[m][f]}
     /\ step[w] \in {"swap", "install"} =>
          /\ \A f \in todo[w] : live[m][f] = Old(m, f)
          /\ Touches \subseteq applied[w] \cup todo[w] \cup (IF step[w] = "install" THEN {current[w]} ELSE {})
     /\ step[w] \in {"install", "return"} =>
          /\ current[w] \in Touches /\ current[w] \notin applied[w] \cup todo[w]
          /\ bak[m][current[w]] = Old(m, current[w])
     /\ step[w] = "drop" => applied[w] = Touches
     /\ step[w] \in {"swap", "install", "drop"} => \A f \in applied[w] : live[m][f] = New(f)

(* A worker that swaps nothing has nothing to swap, and a bundle that no   *)
(* worker has begun to swap is as the call found it.                       *)
Resting == \A w \in Workers : step[w] \in {"idle", "start", "stage"} => applied[w] = {} /\ todo[w] = {}
Out == {batch[k] : k \in 1 .. sent}
Fresh ==
  /\ main \in {"next", "send", "wait"} => \A m \in Mods \ Out : live[m] = before[m]
  /\ \A w \in Workers : step[w] \in {"start", "stage"} => live[job[w]] = before[job[w]]

Together(m) ==
  /\ \E f \in {live[m]["pak"], bak[m]["pak"]} : f \in Whole("pak")
  /\ \E c \in Coded : c \in {live[m]["utoc"], bak[m]["utoc"]} /\ c \in {live[m]["ucas"], bak[m]["ucas"]}
AllSwapping == \A w \in Workers : Busy(w) => Swapping(w)
AllTogether == \A m \in Mods : Together(m)
SwapInv == Handed /\ AllSwapping /\ Resting /\ Fresh /\ AllTogether

-----------------------------------------------------------------------------
LEMMA InitSwap == Init => TypeOK /\ SwapInv
<1> SUFFICES ASSUME Init PROVE TypeOK /\ SwapInv
  OBVIOUS
<1> USE EncryptionAssumption
<1>1. TypeOK
  <2>1. live \in [Mods -> [Files -> AllContents]] /\ before \in [Mods -> [Files -> AllContents]]
    BY DEF Init
  <2>2. bak \in [Mods -> [Files -> AllContents]]
    BY DEF Init, AllContents
  <2>3. batch \in Seq(Mods)
    BY DEF Init
  <2>4. /\ step \in [Workers -> Steps] /\ job \in [Workers -> Mods \cup {None}]
        /\ todo \in [Workers -> SUBSET Files] /\ applied \in [Workers -> SUBSET Files]
        /\ current \in [Workers -> Files \cup {None}]
    BY DEF Init, IdlePool, Steps
  <2> QED BY <2>1, <2>2, <2>3, <2>4 DEF Init, TypeOK, Ops
<1>2. \A w \in Workers : Idle(w)
  BY DEF Init, IdlePool, Idle
<1>3. Handed
  <2>1. IsInjective(batch) /\ Len(batch) = 0
    BY DEF Init, IsInjective
  <2> QED BY <1>2, <2>1 DEF Init, Handed, Busy
<1>4. AllTogether
  <2> SUFFICES ASSUME NEW m \in Mods PROVE Together(m)
    BY DEF AllTogether
  <2>1. live[m]["pak"] \in Whole("pak") /\ live[m]["utoc"] \in Coded /\ live[m]["utoc"] = live[m]["ucas"]
    BY DEF Init, Files, Whole
  <2> QED BY <2>1 DEF Together
<1> QED BY <1>1, <1>2, <1>3, <1>4
        DEF SwapInv, AllSwapping, Busy, Init, IdlePool, Resting, Fresh

(* Recoverable says the same as AllTogether. *)
LEMMA TogetherIsRecoverable == AllTogether => Recoverable
BY DEF AllTogether, Together, Recoverable

-----------------------------------------------------------------------------
(* Types. *)
LEMMA BoundsType ==
  ASSUME TypeOK, Works \/ Fails
  PROVE  calls' \in Nat /\ failures' \in Nat /\ kills' \in Nat
BY DEF TypeOK, Works, Fails, bounds

LEMMA MainType ==
  ASSUME TypeOK, Handed, Begin \/ MainLoop \/ Return \/ Cancel \/ Kill
  PROVE  TypeOK'
<1>1. CASE Begin
  <2>1. PICK o \in Ops, b \in Batches :
          /\ op' = o /\ batch' = b /\ before' = live /\ sent' = 0
          /\ channel' = "open" /\ sawCancel' = FALSE /\ jammed' = {}
          /\ failed' = {} /\ dropped' = {}
          /\ main' \in {"next", "wait", "returned"} /\ error' \in {"nil", "other"} /\ early' \in BOOLEAN
          /\ succeeded' \in {{}, {b[k] : k \in DOMAIN b}}
          /\ (UNCHANGED failures \/ failures' = failures + 1)
    BY <1>1 DEF Begin
  <2>2. b \in Seq(Mods)
    BY EncryptionAssumption
  <2>3. {b[k] : k \in DOMAIN b} \subseteq Mods
    BY <2>2
  <2>4. calls' \in Nat /\ failures' \in Nat /\ kills' \in Nat
    BY <1>1, <2>1 DEF Begin, TypeOK
  <2> QED BY <1>1, <2>1, <2>2, <2>3, <2>4 DEF Begin, TypeOK, disk, pool
<1>2. CASE MainLoop
  <2>1. sent <= Len(batch) /\ sent \in Nat /\ batch \in Seq(Mods)
    BY DEF Handed, TypeOK
  <2>2. PICK skipped \in {{sent + 1}, sent + 1 .. Len(batch)} : Advance(skipped)
    BY <1>2 DEF MainLoop, SendLoop, StripLoop
  <2>3. ASSUME sent # Len(batch), NEW k \in skipped PROVE batch[k] \in Mods
    BY <2>1, <2>2, <2>3
  <2>4. dropped' \subseteq Mods
    BY <2>2, <2>3 DEF Advance, TypeOK
  <2> QED BY <2>2, <2>4, BoundsType DEF Advance, TypeOK, disk, pool
<1>3. CASE Return
  BY <1>3, BoundsType DEF Return, TypeOK, disk, pool
<1>4. CASE Cancel
  BY <1>4, BoundsType DEF Cancel, TypeOK, disk, result, mainVars, pool
<1>5. CASE Kill
  <2>1. /\ step' \in [Workers -> Steps] /\ job' \in [Workers -> Mods \cup {None}]
        /\ todo' \in [Workers -> SUBSET Files] /\ applied' \in [Workers -> SUBSET Files]
        /\ current' \in [Workers -> Files \cup {None}]
    BY <1>5 DEF Kill, Steps
  <2>2. calls' \in Nat /\ failures' \in Nat /\ kills' \in Nat
    BY <1>5 DEF Kill, TypeOK
  <2> QED BY <1>5, <2>1, <2>2 DEF Kill, TypeOK, disk
<1> QED BY <1>1, <1>2, <1>3, <1>4, <1>5

LEMMA FreeType ==
  ASSUME TypeOK, NEW w \in Workers, Free(w)
  PROVE  /\ step' \in [Workers -> Steps] /\ job' \in [Workers -> Mods \cup {None}]
         /\ todo' \in [Workers -> SUBSET Files] /\ applied' \in [Workers -> SUBSET Files]
         /\ current' \in [Workers -> Files \cup {None}]
BY DEF Free, Set, TypeOK, Steps

LEMMA SetType ==
  ASSUME TypeOK, NEW w \in Workers, NEW s \in Steps, Set(w, s)
  PROVE  step' \in [Workers -> Steps]
BY DEF Set, TypeOK

(* A swapped or returned file. *)
LEMMA LiveType ==
  ASSUME TypeOK, NEW m \in Mods, NEW f \in Files, NEW x \in AllContents,
         live' = [live EXCEPT ![m][f] = x]
  PROVE  live' \in [Mods -> [Files -> AllContents]]
BY DEF TypeOK

LEMMA RenameType ==
  ASSUME TypeOK, NEW m \in Mods, NEW f \in Files, Rename(m, f)
  PROVE  live' \in [Mods -> [Files -> AllContents]] /\ bak' \in [Mods -> [Files -> AllContents]]
<1>1. bak[m][f] \in AllContents
  BY DEF TypeOK
<1>2. bak' \in [Mods -> [Files -> AllContents]]
  BY DEF TypeOK, Rename, AllContents
<1> QED BY <1>1, <1>2, LiveType DEF Rename

LEMMA WorkType ==
  ASSUME TypeOK, NEW w \in Workers, job[w] \in Mods, Swapping(w), Work(w)
  PROVE  TypeOK'
<1> DEFINE m == job[w]
<1>1. CASE StartJob(w)
  <2>1. /\ step' \in [Workers -> Steps] /\ job' \in [Workers -> Mods \cup {None}]
        /\ todo' \in [Workers -> SUBSET Files] /\ applied' \in [Workers -> SUBSET Files]
        /\ current' \in [Workers -> Files \cup {None}]
    BY <1>1, FreeType, SetType DEF StartJob, TypeOK, Steps
  <2>2. dropped' \subseteq Mods /\ sawCancel' \in BOOLEAN
    BY <1>1 DEF StartJob, TypeOK
  <2> QED BY <1>1, <2>1, <2>2, BoundsType DEF StartJob, TypeOK, WorkerOnly, mainVars, disk
<1>2. CASE Stage(w)
  <2>1. /\ step' \in [Workers -> Steps] /\ job' \in [Workers -> Mods \cup {None}]
        /\ todo' \in [Workers -> SUBSET Files] /\ applied' \in [Workers -> SUBSET Files]
        /\ current' \in [Workers -> Files \cup {None}]
    <3>1. CASE Free(w)
      BY <3>1, FreeType
    <3>2. CASE /\ todo' = [todo EXCEPT ![w] = ToReplace(m)] /\ Set(w, "swap")
               /\ UNCHANGED <<job, applied, current>>
      <4>1. ToReplace(m) \subseteq Files
        BY DEF ToReplace, Files
      <4> QED BY <3>2, <4>1, SetType DEF TypeOK, Steps
    <3> QED BY <1>2, <3>1, <3>2 DEF Stage, Report
  <2>2. succeeded' \subseteq Mods /\ failed' \subseteq Mods /\ (Works \/ Fails)
    BY <1>2 DEF Stage, Report, TypeOK
  <2> QED BY <1>2, <2>1, <2>2, BoundsType DEF Stage, TypeOK, WorkerOnly, mainVars, disk
<1>3. CASE Park(w)
  <2>1. CASE Fails /\ Set(w, "undo") /\ UNCHANGED <<disk, todo, current>>
    BY <1>3, <2>1, BoundsType, SetType DEF Park, TypeOK, WorkerOnly, mainVars, disk, Steps
  <2>2. ASSUME NEW f \in todo[w], Works, live' = [live EXCEPT ![m][f] = None],
               bak' = [bak EXCEPT ![m][f] = live[m][f]],
               todo' = [todo EXCEPT ![w] = @ \ {f}], current' = [current EXCEPT ![w] = f],
               Set(w, "install")
        PROVE  TypeOK'
    <3>1. f \in Files /\ live[m][f] \in AllContents /\ None \in AllContents
      BY <2>2 DEF TypeOK, AllContents
    <3>2. live' \in [Mods -> [Files -> AllContents]] /\ bak' \in [Mods -> [Files -> AllContents]]
      BY <2>2, <3>1 DEF TypeOK
    <3>3. todo' \in [Workers -> SUBSET Files] /\ current' \in [Workers -> Files \cup {None}]
      BY <2>2, <3>1 DEF TypeOK
    <3> QED BY <1>3, <2>2, <3>2, <3>3, BoundsType, SetType DEF Park, TypeOK, WorkerOnly, mainVars, Steps
  <2> QED BY <1>3, <2>1, <2>2 DEF Park
<1>4. CASE Install(w)
  <2>1. current[w] \in Files
    BY <1>4 DEF Install, Swapping, Touches, Files
  <2>2. Rebuilt(m, current[w]) \in AllContents /\ None \in AllContents /\ Torn \in AllContents
    BY <2>1 DEF Rebuilt, AllContents, Goal, TypeOK
  <2>3. live' \in [Mods -> [Files -> AllContents]]
    BY <1>4, <2>1, <2>2, LiveType DEF Install
  <2>4. applied' \in [Workers -> SUBSET Files] /\ step' \in [Workers -> Steps] /\ (Works \/ Fails)
    BY <1>4, <2>1, SetType DEF Install, TypeOK, Steps
  <2> QED BY <1>4, <2>3, <2>4, BoundsType DEF Install, TypeOK, WorkerOnly, mainVars
<1>5. CASE ReturnParked(w)
  <2>1. current[w] \in Files
    BY <1>5 DEF ReturnParked, Swapping, Touches, Files
  <2>2. live' \in [Mods -> [Files -> AllContents]] /\ bak' \in [Mods -> [Files -> AllContents]]
    BY <1>5, <2>1, RenameType DEF ReturnParked, disk, TypeOK
  <2>3. jammed' \subseteq Mods /\ step' \in [Workers -> Steps] /\ (Works \/ Fails)
    BY <1>5, SetType DEF ReturnParked, TypeOK, Steps
  <2> QED BY <1>5, <2>2, <2>3, BoundsType DEF ReturnParked, TypeOK, WorkerOnly, mainVars
<1>6. CASE Undo(w)
  <2>1. CASE applied[w] = {} /\ Works /\ Report(w, FALSE) /\ UNCHANGED <<disk, jammed>>
    <3>1. failed' \subseteq Mods /\ UNCHANGED succeeded
      BY <2>1 DEF Report, TypeOK
    <3> QED BY <1>6, <2>1, <3>1, FreeType, BoundsType DEF Undo, Report, TypeOK, WorkerOnly, mainVars, disk
  <2>2. ASSUME NEW f \in applied[w], applied' = [applied EXCEPT ![w] = @ \ {f}],
               \/ Works /\ Rename(m, f) /\ UNCHANGED jammed
               \/ /\ Fails /\ live' = [live EXCEPT ![m][f] = None]
                  /\ UNCHANGED bak /\ jammed' = jammed \cup {m},
               UNCHANGED <<step, job, todo, current, succeeded, failed>>
        PROVE  TypeOK'
    <3>1. f \in Files /\ None \in AllContents
      BY <2>2 DEF TypeOK, AllContents
    <3>2. live' \in [Mods -> [Files -> AllContents]] /\ bak' \in [Mods -> [Files -> AllContents]]
      BY <2>2, <3>1, RenameType, LiveType DEF TypeOK
    <3>3. jammed' \subseteq Mods /\ applied' \in [Workers -> SUBSET Files] /\ (Works \/ Fails)
      BY <2>2 DEF TypeOK
    <3> QED BY <1>6, <2>2, <3>2, <3>3, BoundsType DEF Undo, TypeOK, WorkerOnly, mainVars
  <2> QED BY <1>6, <2>1, <2>2 DEF Undo
<1>7. CASE Drop(w)
  <2>1. PICK left \in SUBSET applied[w] :
          /\ IF left = {} THEN Works ELSE Fails
          /\ bak' = [bak EXCEPT ![m] = [f \in Files |-> IF f \in applied[w] \ left THEN None ELSE @[f]]]
    BY <1>7 DEF Drop
  <2>2. bak' \in [Mods -> [Files -> AllContents]]
    BY <2>1 DEF TypeOK, AllContents
  <2>3. succeeded' \subseteq Mods /\ UNCHANGED failed /\ (Works \/ Fails)
    BY <1>7, <2>1 DEF Drop, Report, TypeOK
  <2> QED BY <1>7, <2>2, <2>3, FreeType, BoundsType DEF Drop, Report, TypeOK, WorkerOnly, mainVars
<1> QED BY <1>1, <1>2, <1>3, <1>4, <1>5, <1>6, <1>7 DEF Work

LEMMA HandType ==
  ASSUME TypeOK, Handed, NEW w \in Workers, Hand(w)
  PROVE  TypeOK' /\ batch[sent + 1] \in Mods /\ sent + 1 \in 1 .. Len(batch)
<1>1. sent \in Nat /\ sent < Len(batch) /\ batch \in Seq(Mods)
  BY DEF Hand, Handed, TypeOK
<1>2. sent + 1 \in 1 .. Len(batch) /\ batch[sent + 1] \in Mods
  BY <1>1
<1>3. job' \in [Workers -> Mods \cup {None}] /\ step' \in [Workers -> Steps]
  BY <1>2 DEF Hand, TypeOK, Steps
<1> QED BY <1>1, <1>2, <1>3, BoundsType DEF Hand, TypeOK, disk, result

-----------------------------------------------------------------------------
(* What the step of one worker leaves alone. *)
Elsewhere(w) ==
  /\ UNCHANGED <<op, batch, main, sent, before>>
  /\ \A v \in Workers \ {w} :
       /\ step'[v] = step[v] /\ job'[v] = job[v] /\ todo'[v] = todo[v]
       /\ applied'[v] = applied[v] /\ current'[v] = current[v]
  /\ \A m \in Mods \ {job[w]} : live'[m] = live[m] /\ bak'[m] = bak[m]

LEMMA WorkElsewhere ==
  ASSUME TypeOK, NEW w \in Workers, job[w] \in Mods, Work(w)
  PROVE  Elsewhere(w)
<1>1. UNCHANGED <<op, batch, main, sent, before>>
  BY DEF Work, StartJob, Stage, Park, Install, ReturnParked, Undo, Drop, WorkerOnly, mainVars
<1>2. ASSUME NEW v \in Workers \ {w}
      PROVE  /\ step'[v] = step[v] /\ job'[v] = job[v] /\ todo'[v] = todo[v]
             /\ applied'[v] = applied[v] /\ current'[v] = current[v]
  BY <1>2 DEF TypeOK, Work, StartJob, Stage, Park, Install, ReturnParked, Undo, Drop, Report, Free, Set
<1>3. ASSUME NEW m \in Mods \ {job[w]}
      PROVE  live'[m] = live[m] /\ bak'[m] = bak[m]
  BY <1>3 DEF TypeOK, Work, StartJob, Stage, Park, Install, ReturnParked, Undo, Drop, Rename, disk
<1> QED BY <1>1, <1>2, <1>3 DEF Elsewhere

(* What it owes to the invariant: its own bundle. *)
OwnBundle(w) ==
  /\ \A m \in {job[w]} : Together(m)'
  /\ \/ /\ step'[w] \notin {"idle", "gone"} /\ job'[w] = job[w] /\ Swapping(w)'
        /\ step'[w] \in {"start", "stage"} =>
             /\ applied'[w] = {} /\ todo'[w] = {} /\ live'[job[w]] = before[job[w]]
     \/ /\ step'[w] = "idle" /\ applied'[w] = {} /\ todo'[w] = {}

LEMMA OwnSuffices ==
  ASSUME TypeOK, TypeOK', SwapInv, NEW w \in Workers, Busy(w), job[w] \in Mods,
         Elsewhere(w), OwnBundle(w)
  PROVE  SwapInv'
<1> USE DEF SwapInv
<1>1. /\ \A v \in Workers \ {w} : Busy(v)' <=> Busy(v)
      /\ Busy(w)' => job'[w] = job[w]
  BY DEF Elsewhere, OwnBundle, Busy, Idle
<1>2. Handed'
  <2>1. main \notin {"idle", "returned"} /\ UNCHANGED <<main, batch, sent>>
    BY DEF Handed, Elsewhere, Busy
  <2>2. \A v \in Workers : Busy(v)' => Busy(v) /\ job'[v] = job[v]
    BY <1>1 DEF Elsewhere
  <2>3. \A v \in Workers : Busy(v)' => \E k \in 1 .. sent : job'[v] = batch[k]
    BY <2>2 DEF Handed
  <2>4. \A u, v \in Workers : u # v /\ Busy(u)' /\ Busy(v)' => job'[u] # job'[v]
    BY <2>2 DEF Handed
  <2>5. main' = "send" => sent' < Len(batch')
    BY <2>1 DEF Handed
  <2>6. sent' <= Len(batch') /\ IsInjective(batch')
    BY <2>1 DEF Handed
  <2> HIDE DEF SwapInv
  <2> QED BY <2>1, <2>3, <2>4, <2>5, <2>6 DEF Handed
<1>3. ASSUME NEW v \in Workers \ {w}, Busy(v)
      PROVE  /\ job[v] \in Mods \ {job[w]} /\ job'[v] = job[v]
             /\ live'[job[v]] = live[job[v]] /\ bak'[job[v]] = bak[job[v]]
  <2>1. PICK k \in 1 .. sent : job[v] = batch[k]
    BY <1>3 DEF Handed
  <2>2. batch \in Seq(Mods) /\ sent <= Len(batch) /\ sent \in Nat
    BY DEF Handed, TypeOK
  <2>3. job[v] \in Mods
    BY <2>1, <2>2
  <2> QED BY <1>3, <2>3 DEF Handed, Elsewhere
<1>4. AllSwapping'
  <2> SUFFICES ASSUME NEW v \in Workers, Busy(v)' PROVE Swapping(v)'
    BY DEF AllSwapping
  <2>1. CASE v = w
    BY <2>1 DEF OwnBundle, Busy, Idle
  <2>2. CASE v # w
    <3>1. Swapping(v) /\ Busy(v)
      BY <1>1, <2>2 DEF AllSwapping
    <3>2. Touches' = Touches /\ (\A f : New(f)' = New(f))
      BY DEF Elsewhere, Touches, New
    <3>3. \A f : Old(job[v], f)' = Old(job[v], f)
      BY <1>3, <2>2, <3>1 DEF Elsewhere, Old
    <3>4. Sound(job[v]) => Sound(job[v])'
      BY <1>3, <2>2, <3>1, <3>2 DEF Elsewhere, Sound, Old
    <3>5. /\ step'[v] = step[v] /\ todo'[v] = todo[v]
          /\ applied'[v] = applied[v] /\ current'[v] = current[v]
      BY <2>2 DEF Elsewhere
    <3> HIDE DEF SwapInv
    <3> QED BY <1>3, <2>2, <3>1, <3>2, <3>3, <3>4, <3>5 DEF Swapping
  <2> QED BY <2>1, <2>2
<1>5. Resting'
  BY DEF Resting, Elsewhere, OwnBundle
<1>6. Fresh'
  <2>1. Out' = Out /\ main' = main /\ before' = before
    BY DEF Elsewhere, Out
  <2>2. job[w] \in Out
    BY DEF Handed, Out
  <2>3. main' \in {"next", "send", "wait"} => \A m \in Mods \ Out' : live'[m] = before'[m]
    BY <2>1, <2>2 DEF Fresh, Elsewhere
  <2>4. ASSUME NEW v \in Workers, step'[v] \in {"start", "stage"}
        PROVE  live'[job'[v]] = before'[job'[v]]
    <3>1. CASE v = w
      BY <2>1, <2>4, <3>1 DEF OwnBundle
    <3>2. CASE v # w
      <4>1. step[v] \in {"start", "stage"}
        BY <2>4, <3>2 DEF Elsewhere
      <4>2. Busy(v)
        BY <4>1 DEF Busy, Idle
      <4> QED BY <1>3, <2>1, <3>2, <4>1, <4>2 DEF Fresh
    <3> QED BY <3>1, <3>2
  <2> QED BY <2>3, <2>4 DEF Fresh
<1>7. AllTogether'
  <2> SUFFICES ASSUME NEW m \in Mods, m # job[w] PROVE Together(m)'
    BY DEF AllTogether, OwnBundle
  <2>1. live'[m] = live[m] /\ bak'[m] = bak[m] /\ Together(m)
    BY DEF Elsewhere, AllTogether
  <2> QED BY <2>1 DEF Together
<1> QED BY <1>2, <1>4, <1>5, <1>6, <1>7

-----------------------------------------------------------------------------
(* A bundle half swapped can be put together from what was there, one that *)
(* is swapped from what is new.                                            *)
LEMMA HalfIsTogether ==
  ASSUME NEW m, Together(m), UNCHANGED op,
         \A f \in Files \ Touches : live'[m][f] = live[m][f] /\ bak'[m][f] = bak[m][f],
         NEW old, \A f \in Touches : old[f] \in Whole(f) /\ old[f] \in {live'[m][f], bak'[m][f]},
         op # "strip" => old["utoc"] = old["ucas"]
  PROVE  Together(m)'
<1>1. CASE op = "strip"
  BY <1>1 DEF Together, Touches, Files
<1>2. CASE op # "strip"
  BY <1>2 DEF Together, Touches, Files, Whole
<1> QED BY <1>1, <1>2

LEMMA NewIsTogether ==
  ASSUME NEW m, Together(m), UNCHANGED op,
         \A f \in Files \ Touches : live'[m][f] = live[m][f] /\ bak'[m][f] = bak[m][f],
         \A f \in Touches : live'[m][f] = New(f)
  PROVE  Together(m)'
<1>1. CASE op = "strip"
  BY <1>1 DEF Together, Touches, Files, New, Whole
<1>2. CASE op # "strip"
  BY <1>2 DEF Together, Touches, Files, New, Whole, Goal, Coded
<1> QED BY <1>1, <1>2

LEMMA StartOwn ==
  ASSUME TypeOK, SwapInv, NEW w \in Workers, job[w] \in Mods, StartJob(w)
  PROVE  OwnBundle(w)
<1>1. Swapping(w) /\ Together(job[w]) /\ applied[w] = {} /\ todo[w] = {} /\ live[job[w]] = before[job[w]]
  BY DEF SwapInv, AllSwapping, AllTogether, Resting, Fresh, Busy, Idle, StartJob
<1>2. UNCHANGED <<live, bak, op, before>>
  BY DEF StartJob, disk, WorkerOnly, mainVars
<1>3. \A m \in {job[w]} : Together(m)'
  BY <1>1, <1>2 DEF Together
<1>4. CASE channel = "closed"
  BY <1>3, <1>4 DEF OwnBundle, StartJob, Free, Set, TypeOK
<1>5. CASE channel # "closed"
  <2>1. step'[w] = "stage" /\ job'[w] = job[w] /\ applied'[w] = {} /\ todo'[w] = {}
    BY <1>1, <1>5 DEF StartJob, Set, TypeOK
  <2>2. Swapping(w)'
    BY <2>1 DEF Swapping
  <2> QED BY <1>1, <1>2, <1>3, <2>1, <2>2 DEF OwnBundle
<1> QED BY <1>4, <1>5

LEMMA StageOwn ==
  ASSUME TypeOK, SwapInv, NEW w \in Workers, job[w] \in Mods, Stage(w)
  PROVE  OwnBundle(w)
<1> DEFINE m == job[w]
<1>1. Together(m) /\ applied[w] = {} /\ live[m] = before[m]
  BY DEF SwapInv, AllSwapping, AllTogether, Resting, Fresh, Stage
<1>2. UNCHANGED <<live, bak, op, before>>
  BY DEF Stage, disk, WorkerOnly, mainVars
<1>3. \A n \in {m} : Together(n)'
  BY <1>1, <1>2 DEF Together
<1>4. CASE Free(w)
  BY <1>3, <1>4 DEF OwnBundle, Free, Set, TypeOK
<1>5. CASE /\ ToolAccepts(m) /\ ToReplace(m) # {}
           /\ todo' = [todo EXCEPT ![w] = ToReplace(m)] /\ Set(w, "swap")
           /\ UNCHANGED <<job, applied, current>>
  <2>1. ToReplace(m) = Touches /\ Touches' = Touches
    BY <1>2, <1>5 DEF ToReplace, Touches
  <2>2. step'[w] = "swap" /\ job'[w] = m /\ applied'[w] = {} /\ todo'[w] = Touches
    BY <1>1, <1>5, <2>1 DEF Set, TypeOK
  <2>3. \A f \in Touches : before[m][f] \in Whole(f)
    BY <1>1, <1>5 DEF ToolAccepts, Touches
  <2>4. op # "strip" => before[m]["utoc"] = before[m]["ucas"]
    BY <1>1, <1>5 DEF ToolAccepts
  <2>5. Sound(job[w])'
    BY <1>2, <2>1, <2>2, <2>3, <2>4 DEF Sound, Old
  <2>6. Swapping(w)'
    BY <1>1, <1>2, <2>1, <2>2, <2>5 DEF Swapping, Old
  <2> QED BY <1>3, <2>2, <2>6 DEF OwnBundle
<1> QED BY <1>4, <1>5 DEF Stage, Report

LEMMA TouchesFiles == Touches \subseteq Files /\ (UNCHANGED op => Touches' = Touches /\ \A f : New(f)' = New(f))
BY DEF Touches, Files, New, Goal

LEMMA ParkOwn ==
  ASSUME TypeOK, SwapInv, NEW w \in Workers, job[w] \in Mods, Park(w)
  PROVE  OwnBundle(w)
<1> DEFINE m == job[w]
<1>1. Together(m) /\ Swapping(w) /\ Busy(w) /\ step[w] = "swap"
  BY DEF SwapInv, AllSwapping, AllTogether, Busy, Idle, Park
<1>2. UNCHANGED <<job, applied, op, before>>
  BY DEF Park, WorkerOnly, mainVars
<1>3. Touches' = Touches /\ Touches \subseteq Files /\ \A f : New(f)' = New(f)
  BY <1>2, TouchesFiles
<1>4. CASE Set(w, "undo") /\ UNCHANGED <<disk, todo, current>>
  <2>1. step'[w] = "undo" /\ UNCHANGED <<live, bak>>
    BY <1>4 DEF Set, TypeOK, disk
  <2>2. Swapping(w)'
    BY <1>1, <1>2, <1>3, <1>4, <2>1 DEF Swapping, Sound, Old
  <2>3. \A n \in {m} : Together(n)'
    BY <1>1, <2>1 DEF Together
  <2> QED BY <1>2, <2>1, <2>2, <2>3 DEF OwnBundle
<1>5. ASSUME NEW f \in todo[w],
             live' = [live EXCEPT ![m][f] = None], bak' = [bak EXCEPT ![m][f] = live[m][f]],
             todo' = [todo EXCEPT ![w] = @ \ {f}], current' = [current EXCEPT ![w] = f],
             Set(w, "install")
      PROVE  OwnBundle(w)
  <2>1. f \in Touches /\ f \in Files
    BY <1>1, <1>3 DEF Swapping
  <2>2. /\ step'[w] = "install" /\ todo'[w] = todo[w] \ {f} /\ current'[w] = f
        /\ \A g \in Files : /\ live'[m][g] = IF g = f THEN None ELSE live[m][g]
                            /\ bak'[m][g] = IF g = f THEN live[m][g] ELSE bak[m][g]
    BY <1>5, <2>1 DEF Set, TypeOK
  <2>3. live[m][f] = Old(m, f) /\ f \notin applied[w]
    BY <1>1 DEF Swapping
  <2>4. \A g \in Touches : Old(m, g) \in Whole(g) /\ Old(m, g) \in {live'[m][g], bak'[m][g]}
    BY <1>1, <1>3, <2>2, <2>3 DEF Swapping, Sound
  <2>5. Sound(m)' /\ (op # "strip" => Old(m, "utoc") = Old(m, "ucas"))
    BY <1>1, <1>2, <1>3 DEF Swapping, Sound, Old
  <2>6. Swapping(w)'
    BY <1>1, <1>2, <1>3, <2>1, <2>2, <2>3, <2>4, <2>5 DEF Swapping, Old
  <2>7. \A g \in Files \ Touches : live'[m][g] = live[m][g] /\ bak'[m][g] = bak[m][g]
    BY <2>1, <2>2
  <2>8. \A n \in {m} : Together(n)'
    BY <1>1, <1>2, <2>4, <2>5, <2>7, HalfIsTogether DEF Old
  <2> QED BY <1>2, <2>2, <2>6, <2>8 DEF OwnBundle
<1> QED BY <1>4, <1>5 DEF Park

LEMMA InstallOwn ==
  ASSUME TypeOK, SwapInv, NEW w \in Workers, job[w] \in Mods, Install(w)
  PROVE  OwnBundle(w)
<1> DEFINE m == job[w]
           c == current[w]
<1>1. Together(m) /\ Swapping(w) /\ Busy(w) /\ step[w] = "install"
  BY DEF SwapInv, AllSwapping, AllTogether, Busy, Idle, Install
<1>2. UNCHANGED <<bak, job, todo, current, op, before>>
  BY DEF Install, WorkerOnly, mainVars
<1>3. Touches' = Touches /\ Touches \subseteq Files /\ \A f : New(f)' = New(f)
  BY <1>2, TouchesFiles
<1>4. c \in Touches /\ c \in Files /\ c \notin applied[w] \cup todo[w] /\ bak[m][c] = Old(m, c)
  BY <1>1, <1>3 DEF Swapping
<1>5. PICK x : live' = [live EXCEPT ![m][c] = x]
  BY DEF Install
<1>6. \A g \in Files : live'[m][g] = IF g = c THEN x ELSE live[m][g]
  BY <1>4, <1>5 DEF TypeOK
<1>7. \A g \in Touches : Old(m, g) \in Whole(g) /\ Old(m, g) \in {live'[m][g], bak'[m][g]}
  BY <1>1, <1>2, <1>3, <1>4, <1>6 DEF Swapping, Sound
<1>8. Sound(m)' /\ (op # "strip" => Old(m, "utoc") = Old(m, "ucas"))
  BY <1>1, <1>2, <1>3 DEF Swapping, Sound, Old
<1>9. \A n \in {m} : Together(n)'
  <2>1. \A g \in Files \ Touches : live'[m][g] = live[m][g] /\ bak'[m][g] = bak[m][g]
    BY <1>2, <1>4, <1>6
  <2> QED BY <1>1, <1>2, <1>7, <1>8, <2>1, HalfIsTogether DEF Old
<1>10. CASE /\ Set(w, "return") /\ UNCHANGED applied
  <2>1. step'[w] = "return"
    BY <1>10 DEF Set, TypeOK
  <2>2. Swapping(w)'
    BY <1>1, <1>2, <1>3, <1>4, <1>6, <1>7, <1>8, <1>10, <2>1 DEF Swapping, Old
  <2> QED BY <1>2, <1>9, <2>1, <2>2 DEF OwnBundle
<1>11. CASE /\ live' = [live EXCEPT ![m][c] = Rebuilt(m, c)]
            /\ applied' = [applied EXCEPT ![w] = @ \cup {c}]
            /\ Set(w, IF todo[w] = {} THEN "drop" ELSE "swap")
  <2>1. step'[w] = (IF todo[w] = {} THEN "drop" ELSE "swap") /\ applied'[w] = applied[w] \cup {c}
    BY <1>11 DEF Set, TypeOK
  <2>2. live'[m][c] = New(c)
    BY <1>4, <1>11 DEF TypeOK, Rebuilt, New, Touches
  <2>3. \A g \in applied'[w] : live'[m][g] = New(g)
    BY <1>1, <1>3, <1>4, <1>6, <2>1, <2>2 DEF Swapping
  <2>4. Touches \subseteq applied'[w] \cup todo[w] /\ applied'[w] \subseteq Touches
    BY <1>1, <1>4, <2>1 DEF Swapping
  <2>5. /\ \A g \in applied'[w] : bak[m][g] = Old(m, g)
        /\ \A g \in todo[w] : live'[m][g] = Old(m, g)
        /\ todo[w] \subseteq Touches /\ applied'[w] \cap todo[w] = {}
    BY <1>1, <1>3, <1>4, <1>6, <2>1 DEF Swapping
  <2>6. Swapping(w)'
    BY <1>2, <1>3, <1>7, <1>8, <2>1, <2>3, <2>4, <2>5 DEF Swapping, Old
  <2> QED BY <1>2, <1>9, <2>1, <2>6 DEF OwnBundle
<1> QED BY <1>10, <1>11 DEF Install

LEMMA ReturnOwn ==
  ASSUME TypeOK, SwapInv, NEW w \in Workers, job[w] \in Mods, ReturnParked(w)
  PROVE  OwnBundle(w)
<1> DEFINE m == job[w]
           c == current[w]
<1>1. Together(m) /\ Swapping(w) /\ Busy(w) /\ step[w] = "return"
  BY DEF SwapInv, AllSwapping, AllTogether, Busy, Idle, ReturnParked
<1>2. UNCHANGED <<job, todo, applied, current, op, before>> /\ step'[w] = "undo"
  BY DEF ReturnParked, WorkerOnly, mainVars, Set, TypeOK
<1>3. Touches' = Touches /\ Touches \subseteq Files /\ \A f : New(f)' = New(f)
  BY <1>2, TouchesFiles
<1>4. c \in Touches /\ c \in Files /\ c \notin applied[w] /\ bak[m][c] = Old(m, c)
  BY <1>1, <1>3 DEF Swapping
<1>5. CASE Rename(m, c)
  <2>1. \A g \in Files : /\ live'[m][g] = IF g = c THEN bak[m][g] ELSE live[m][g]
                         /\ bak'[m][g] = IF g = c THEN None ELSE bak[m][g]
    BY <1>4, <1>5 DEF Rename, TypeOK
  <2>2. \A g \in Touches : Old(m, g) \in Whole(g) /\ Old(m, g) \in {live'[m][g], bak'[m][g]}
    BY <1>1, <1>3, <1>4, <2>1 DEF Swapping, Sound
  <2>3. Sound(m)' /\ (op # "strip" => Old(m, "utoc") = Old(m, "ucas"))
    BY <1>1, <1>2, <1>3 DEF Swapping, Sound, Old
  <2>4. \A g \in applied[w] : bak'[m][g] = Old(m, g)
    BY <1>1, <1>3, <1>4, <2>1 DEF Swapping
  <2>5. Swapping(w)'
    BY <1>1, <1>2, <1>3, <2>2, <2>3, <2>4 DEF Swapping, Old
  <2>6. \A n \in {m} : Together(n)'
    <3>1. \A g \in Files \ Touches : live'[m][g] = live[m][g] /\ bak'[m][g] = bak[m][g]
      BY <1>4, <2>1
    <3> QED BY <1>1, <1>2, <2>2, <2>3, <3>1, HalfIsTogether DEF Old
  <2> QED BY <1>2, <2>5, <2>6 DEF OwnBundle
<1>6. CASE UNCHANGED disk
  <2>1. UNCHANGED <<live, bak>>
    BY <1>6 DEF disk
  <2>2. Swapping(w)'
    BY <1>1, <1>2, <1>3, <2>1 DEF Swapping, Sound, Old
  <2>3. \A n \in {m} : Together(n)'
    BY <1>1, <2>1 DEF Together
  <2> QED BY <1>2, <2>2, <2>3 DEF OwnBundle
<1> QED BY <1>5, <1>6 DEF ReturnParked

LEMMA UndoOwn ==
  ASSUME TypeOK, SwapInv, NEW w \in Workers, job[w] \in Mods, Undo(w)
  PROVE  OwnBundle(w)
<1> DEFINE m == job[w]
<1>1. Together(m) /\ Swapping(w) /\ Busy(w) /\ step[w] = "undo"
  BY DEF SwapInv, AllSwapping, AllTogether, Busy, Idle, Undo
<1>2. UNCHANGED <<op, before>>
  BY DEF Undo, WorkerOnly, mainVars
<1>3. Touches' = Touches /\ Touches \subseteq Files /\ \A f : New(f)' = New(f)
  BY <1>2, TouchesFiles
<1>4. CASE Report(w, FALSE) /\ UNCHANGED disk
  <2>1. UNCHANGED <<live, bak>>
    BY <1>4 DEF disk
  <2>2. \A n \in {m} : Together(n)'
    BY <1>1, <2>1 DEF Together
  <2> QED BY <1>4, <2>2 DEF OwnBundle, Report, Free, Set, TypeOK
<1>5. ASSUME NEW f \in applied[w], applied' = [applied EXCEPT ![w] = @ \ {f}],
             UNCHANGED <<step, job, todo, current>>,
             \/ Rename(m, f)
             \/ live' = [live EXCEPT ![m][f] = None] /\ UNCHANGED bak
      PROVE  OwnBundle(w)
  <2>1. f \in Files /\ f \in Touches /\ bak[m][f] = Old(m, f)
    BY <1>1, <1>3, <1>5 DEF Swapping
  <2>2. /\ \A g \in Files \ {f} : live'[m][g] = live[m][g] /\ bak'[m][g] = bak[m][g]
        /\ Old(m, f) \in {live'[m][f], bak'[m][f]}
    BY <1>5, <2>1 DEF Rename, TypeOK
  <2>3. step'[w] = "undo" /\ job'[w] = m /\ applied'[w] = applied[w] \ {f} /\ todo'[w] = todo[w]
    BY <1>1, <1>5 DEF TypeOK
  <2>4. \A g \in Touches : Old(m, g) \in Whole(g) /\ Old(m, g) \in {live'[m][g], bak'[m][g]}
    BY <1>1, <1>3, <2>1, <2>2 DEF Swapping, Sound
  <2>5. Sound(m)' /\ (op # "strip" => Old(m, "utoc") = Old(m, "ucas"))
    BY <1>1, <1>2, <1>3, <2>3 DEF Swapping, Sound, Old
  <2>6. \A g \in applied'[w] : bak'[m][g] = Old(m, g)
    BY <1>1, <1>3, <2>2, <2>3 DEF Swapping
  <2>7. Swapping(w)'
    BY <1>1, <1>2, <1>3, <2>3, <2>4, <2>5, <2>6 DEF Swapping, Old
  <2>8. \A n \in {m} : Together(n)'
    <3>1. \A g \in Files \ Touches : live'[m][g] = live[m][g] /\ bak'[m][g] = bak[m][g]
      BY <2>1, <2>2
    <3> QED BY <1>1, <1>2, <2>4, <2>5, <3>1, HalfIsTogether DEF Old
  <2> QED BY <2>3, <2>7, <2>8 DEF OwnBundle
<1> QED BY <1>4, <1>5 DEF Undo

LEMMA DropOwn ==
  ASSUME TypeOK, SwapInv, NEW w \in Workers, job[w] \in Mods, Drop(w)
  PROVE  OwnBundle(w)
<1> DEFINE m == job[w]
<1>1. Together(m) /\ Swapping(w) /\ Busy(w) /\ step[w] = "drop"
  BY DEF SwapInv, AllSwapping, AllTogether, Busy, Idle, Drop
<1>2. UNCHANGED <<op, live>> /\ Report(w, TRUE)
  BY DEF Drop, WorkerOnly, mainVars
<1>3. applied[w] = Touches /\ \A f \in Touches : live'[m][f] = New(f)
  BY <1>1, <1>2 DEF Swapping
<1>4. \A g \in Files \ Touches : live'[m][g] = live[m][g] /\ bak'[m][g] = bak[m][g]
  BY <1>2, <1>3 DEF Drop, TypeOK
<1>5. \A n \in {m} : Together(n)'
  BY <1>1, <1>2, <1>3, <1>4, NewIsTogether
<1> QED BY <1>2, <1>5 DEF OwnBundle, Report, Free, Set, TypeOK

LEMMA WorkSwap ==
  ASSUME TypeOK, SwapInv, NEW w \in Workers, Work(w)
  PROVE  TypeOK' /\ SwapInv'
<1>1. Busy(w)
  BY DEF Work, StartJob, Stage, Park, Install, ReturnParked, Undo, Drop, Busy, Idle
<1>2. job[w] \in Mods
  <2>1. PICK k \in 1 .. sent : job[w] = batch[k]
    BY <1>1 DEF SwapInv, Handed
  <2>2. batch \in Seq(Mods) /\ sent <= Len(batch) /\ sent \in Nat
    BY DEF SwapInv, Handed, TypeOK
  <2> QED BY <2>1, <2>2
<1>3. Swapping(w)
  BY <1>1 DEF SwapInv, AllSwapping
<1>4. TypeOK'
  BY <1>2, <1>3, WorkType
<1>5. OwnBundle(w)
  BY <1>2, StartOwn, StageOwn, ParkOwn, InstallOwn, ReturnOwn, UndoOwn, DropOwn DEF Work
<1> QED BY <1>1, <1>2, <1>4, <1>5, WorkElsewhere, OwnSuffices

-----------------------------------------------------------------------------
(* The main goroutine, the user and the death of the program. *)
LEMMA TogetherKept == ASSUME AllTogether, UNCHANGED disk PROVE AllTogether'
BY DEF AllTogether, Together, disk

LEMMA SwappingKept ==
  ASSUME NEW w, Swapping(w), UNCHANGED <<disk, pool, op, before>>
  PROVE  Swapping(w)'
<1>1. Touches' = Touches /\ \A f : New(f)' = New(f)
  BY TouchesFiles
<1> QED BY <1>1 DEF Swapping, Sound, Old, disk, pool

LEMMA BeginSwap ==
  ASSUME TypeOK, SwapInv, Begin
  PROVE  SwapInv'
<1>1. PICK o \in Ops, b \in Batches :
        batch' = b /\ before' = live /\ sent' = 0 /\ main' \in {"next", "wait", "returned"}
  BY DEF Begin
<1>2. UNCHANGED <<disk, pool>> /\ \A w \in Workers : Idle(w) /\ Idle(w)'
  BY DEF Begin, SwapInv, Handed, Idle, pool
<1>3. IsInjective(b) /\ b \in Seq(Mods) /\ Len(b) \in Nat
  BY EncryptionAssumption
<1>4. Handed'
  BY <1>1, <1>2, <1>3 DEF Handed, Busy
<1>5. AllSwapping' /\ Resting'
  BY <1>2 DEF SwapInv, AllSwapping, Resting, Busy, pool
<1>6. Fresh'
  BY <1>1, <1>2 DEF Fresh, disk, Idle
<1>7. AllTogether'
  BY <1>2, TogetherKept DEF SwapInv
<1> QED BY <1>4, <1>5, <1>6, <1>7 DEF SwapInv

LEMMA QuietSwap ==
  ASSUME TypeOK, SwapInv, MainLoop \/ Return \/ Cancel
  PROVE  SwapInv'
<1>1. UNCHANGED <<disk, pool, op, batch, sent, before>>
  BY DEF MainLoop, SendLoop, StripLoop, Advance, Return, Cancel, mainVars
<1>2. \A w : (Idle(w)' <=> Idle(w)) /\ (Busy(w)' <=> Busy(w))
  BY <1>1 DEF Idle, Busy, pool
<1>3. /\ main' \in {"idle", "returned"} => \A w \in Workers : Idle(w)
      /\ main' = "send" => sent < Len(batch)
      /\ main' \in {"next", "send", "wait"} => main \in {"next", "send", "wait"}
  <2>1. CASE MainLoop
    <3>1. sent \in Nat /\ Len(batch) \in Nat /\ sent <= Len(batch)
      BY DEF TypeOK, SwapInv, Handed
    <3> QED BY <2>1, <3>1 DEF MainLoop, SendLoop, StripLoop, Advance
  <2>2. CASE Return
    BY <2>2 DEF Return
  <2>3. CASE Cancel
    BY <2>3 DEF Cancel, mainVars, SwapInv, Handed
  <2> QED BY <2>1, <2>2, <2>3
<1>4. Handed'
  BY <1>1, <1>2, <1>3 DEF SwapInv, Handed, pool
<1>5. AllSwapping'
  BY <1>1, <1>2, SwappingKept DEF SwapInv, AllSwapping
<1>6. Resting'
  BY <1>1 DEF SwapInv, Resting, pool
<1>7. Fresh'
  BY <1>1, <1>3 DEF SwapInv, Fresh, Out, disk, pool
<1>8. AllTogether'
  BY <1>1, TogetherKept DEF SwapInv
<1> QED BY <1>4, <1>5, <1>6, <1>7, <1>8 DEF SwapInv

LEMMA KillSwap ==
  ASSUME TypeOK, SwapInv, Kill
  PROVE  SwapInv'
<1>1. UNCHANGED <<disk, batch, sent>> /\ main' = "idle"
  BY DEF Kill
<1>2. \A w \in Workers : step'[w] = "idle" /\ todo'[w] = {} /\ applied'[w] = {} /\ Idle(w)'
  BY DEF Kill, Idle
<1>3. Handed'
  BY <1>1, <1>2 DEF SwapInv, Handed, Busy
<1>4. AllSwapping' /\ Resting' /\ Fresh'
  BY <1>1, <1>2 DEF AllSwapping, Resting, Fresh, Busy
<1>5. AllTogether'
  BY <1>1, TogetherKept DEF SwapInv
<1> QED BY <1>3, <1>4, <1>5 DEF SwapInv

LEMMA HandSwap ==
  ASSUME TypeOK, SwapInv, NEW w \in Workers, Hand(w)
  PROVE  SwapInv'
<1> DEFINE m == batch[sent + 1]
<1>1. TypeOK' /\ m \in Mods /\ sent + 1 \in 1 .. Len(batch) /\ sent \in Nat /\ batch \in Seq(Mods)
  BY HandType DEF SwapInv, TypeOK
<1>2. /\ UNCHANGED <<live, bak, op, batch, before, todo, applied, current>>
      /\ sent' = sent + 1 /\ main = "send" /\ main' = "next" /\ step[w] = "idle"
      /\ job'[w] = m /\ step'[w] \in {"start", "stage"}
      /\ \A v \in Workers \ {w} : job'[v] = job[v] /\ step'[v] = step[v]
  BY DEF Hand, TypeOK, disk
<1>3. m \notin Out
  BY <1>1 DEF SwapInv, Handed, Out, IsInjective
<1>4. \A v \in Workers \ {w} : (Busy(v)' <=> Busy(v)) /\ (Busy(v) => job[v] \in Out /\ job[v] # m)
  BY <1>2, <1>3 DEF SwapInv, Handed, Busy, Idle, Out
<1>5. Handed'
  <2>1. \A v \in Workers : Busy(v)' => \E k \in 1 .. sent' : job'[v] = batch[k]
    <3>1. \A v \in Workers \ {w} : Busy(v) => \E k \in 1 .. sent : job[v] = batch[k]
      BY DEF SwapInv, Handed
    <3>2. 1 .. sent \subseteq 1 .. sent' /\ sent + 1 \in 1 .. sent'
      BY <1>1, <1>2
    <3> QED BY <1>2, <1>4, <3>1, <3>2
  <2>2. \A u, v \in Workers : u # v /\ Busy(u)' /\ Busy(v)' => job'[u] # job'[v]
    BY <1>2, <1>4 DEF SwapInv, Handed
  <2>3. sent' <= Len(batch') /\ IsInjective(batch') /\ batch' = batch
    BY <1>1, <1>2 DEF SwapInv, Handed
  <2> QED BY <1>2, <2>1, <2>2, <2>3 DEF Handed
<1>6. todo[w] = {} /\ applied[w] = {}
  BY <1>2 DEF SwapInv, Resting
<1>7. AllSwapping'
  <2> SUFFICES ASSUME NEW v \in Workers, Busy(v)' PROVE Swapping(v)'
    BY DEF AllSwapping
  <2>1. Touches' = Touches /\ \A f : New(f)' = New(f)
    BY <1>2, TouchesFiles
  <2>2. CASE v = w
    BY <1>2, <1>6, <2>2 DEF Swapping
  <2>3. CASE v # w
    <3>1. Swapping(v)
      BY <1>4, <2>3 DEF SwapInv, AllSwapping
    <3> QED BY <1>2, <2>1, <2>3, <3>1 DEF Swapping, Sound, Old
  <2> QED BY <2>2, <2>3
<1>8. Resting'
  BY <1>2, <1>6 DEF SwapInv, Resting
<1>9. Fresh'
  <2>1. Out \subseteq Out'
    BY <1>1, <1>2 DEF Out
  <2>2. \A n \in Mods \ Out : live[n] = before[n]
    BY <1>2 DEF SwapInv, Fresh
  <2>3. \A v \in Workers : step'[v] \in {"start", "stage"} => live'[job'[v]] = before'[job'[v]]
    BY <1>1, <1>2, <1>3, <2>2 DEF SwapInv, Fresh
  <2> QED BY <1>2, <2>1, <2>2, <2>3 DEF Fresh
<1>10. AllTogether'
  BY <1>2, TogetherKept DEF SwapInv, disk
<1> QED BY <1>5, <1>7, <1>8, <1>9, <1>10 DEF SwapInv

LEMMA NextSwap == TypeOK /\ SwapInv /\ [Next]_vars => TypeOK' /\ SwapInv'
<1> SUFFICES ASSUME TypeOK, SwapInv, [Next]_vars PROVE TypeOK' /\ SwapInv'
  OBVIOUS
<1>1. CASE Begin
  BY <1>1, MainType, BeginSwap DEF SwapInv
<1>2. CASE MainLoop \/ Return \/ Cancel
  BY <1>2, MainType, QuietSwap DEF SwapInv
<1>3. CASE Kill
  BY <1>3, MainType, KillSwap DEF SwapInv
<1>4. ASSUME NEW w \in Workers, Hand(w) PROVE TypeOK' /\ SwapInv'
  BY <1>4, HandType, HandSwap DEF SwapInv
<1>5. ASSUME NEW w \in Workers, Work(w) PROVE TypeOK' /\ SwapInv'
  BY <1>5, WorkSwap
<1>6. CASE UNCHANGED vars
  <2>1. /\ UNCHANGED <<disk, result, mainVars, pool, channel, sawCancel, jammed, bounds>>
        /\ UNCHANGED <<op, before, batch, sent, main>>
    BY <1>6 DEF vars, mainVars
  <2>2. TypeOK'
    BY <2>1 DEF TypeOK, disk, result, mainVars, pool, bounds
  <2>3. Handed' /\ Resting'
    BY <2>1 DEF SwapInv, Handed, Resting, Busy, Idle, pool
  <2>4. AllSwapping'
    BY <2>1, SwappingKept DEF SwapInv, AllSwapping, Busy, Idle, pool
  <2>5. Fresh'
    BY <2>1 DEF SwapInv, Fresh, Out, disk, pool
  <2> QED BY <2>1, <2>2, <2>3, <2>4, <2>5, TogetherKept DEF SwapInv
<1> QED BY <1>1, <1>2, <1>3, <1>4, <1>5, <1>6 DEF Next

-----------------------------------------------------------------------------
(* What is true of the reports while a batch runs: every bundle handed out *)
(* is in the work of one worker or reported once; what is reported done is *)
(* so, and what is neither done nor jammed nor in work is as it was.       *)
Running == main \in {"next", "send", "wait"}
InWork == {job[w] : w \in {v \in Workers : Busy(v)}}
Told == succeeded \cup failed \cup dropped

(* An undo brings back what a swap took. *)
Exact(w) ==
  LET m == job[w]
  IN /\ step[w] \in {"swap", "install", "return", "undo", "drop"} =>
          \A f \in Files \ Touches : live[m][f] = Old(m, f)
     /\ step[w] \in {"return", "undo"} /\ m \notin jammed =>
          \A f \in Files \ applied[w] :
            live[m][f] = Old(m, f) \/ (step[w] = "return" /\ f = current[w])

Reported ==
  Running /\ ~early =>
    /\ succeeded \cap failed = {} /\ (succeeded \cup failed) \cap dropped = {}
    /\ Told \cap InWork = {}
    /\ main # "wait" => Told \cup InWork = Out
    /\ main = "wait" => Told \cup InWork = Members \/ (op = "strip" /\ dropped # {})
    /\ sawCancel => dropped # {}
    /\ \A m \in succeeded : Reached(m) /\ live[m]["pak"] = "clean"
Untouched ==
  Running => /\ jammed \subseteq Out
             /\ \A m \in Mods \ (succeeded \cup InWork \cup jammed) : live[m] = before[m]
EarlyDone ==
  Running /\ early => /\ main = "wait" /\ succeeded = Members /\ failed = {} /\ dropped = {}
                      /\ ~sawCancel /\ \A w \in Workers : Idle(w)
HonestInv ==
  /\ \A w \in Workers : Busy(w) => Exact(w)
  /\ Reported /\ Untouched /\ EarlyDone /\ ReportsHonest

(* What the step of a worker owes to it: its bundle stays in work, or is   *)
(* reported, and the report is true.                                       *)
Stays(w) ==
  /\ step'[w] \notin {"idle", "gone"} /\ job'[w] = job[w] /\ Exact(w)'
  /\ UNCHANGED <<succeeded, failed, dropped, sawCancel>>
  /\ jammed' = jammed \/ jammed' = jammed \cup {job[w]}
TellsDone(w) ==
  /\ succeeded' = succeeded \cup {job[w]} /\ UNCHANGED <<failed, dropped, sawCancel>>
  /\ \A m \in {job[w]} : Reached(m)' /\ live'[m]["pak"] = "clean"
TellsFailure(w) ==
  /\ job[w] \in jammed \/ live'[job[w]] = before[job[w]]
  /\ UNCHANGED succeeded
  /\ \/ failed' = failed \cup {job[w]} /\ UNCHANGED <<dropped, sawCancel>>
     \/ dropped' = dropped \cup {job[w]} /\ UNCHANGED failed
Outcome(w) ==
  \/ Stays(w)
  \/ step'[w] = "idle" /\ UNCHANGED jammed /\ (TellsDone(w) \/ TellsFailure(w))

LEMMA WorkOutcome ==
  ASSUME TypeOK, TypeOK', SwapInv, NEW w \in Workers, job[w] \in Mods, Exact(w), Work(w)
  PROVE  Outcome(w) /\ UNCHANGED <<early, error>>
<1> DEFINE m == job[w]
<1>0. UNCHANGED <<early, error, op, before>>
  BY DEF Work, StartJob, Stage, Park, Install, ReturnParked, Undo, Drop, WorkerOnly, mainVars
<1> SUFFICES Outcome(w)
  BY <1>0
<1>1. Busy(w) /\ Swapping(w)
  BY DEF SwapInv, AllSwapping, Work, StartJob, Stage, Park, Install, ReturnParked, Undo, Drop, Busy, Idle
<1>2. Touches' = Touches /\ Touches \subseteq Files /\ \A n, f : Old(n, f)' = Old(n, f)
  BY <1>0, TouchesFiles DEF Old
<1>3. CASE StartJob(w)
  <2>1. live[m] = before[m] /\ live' = live
    BY <1>3 DEF SwapInv, Fresh, StartJob, disk
  <2>2. CASE channel = "closed"
    BY <1>3, <2>1, <2>2 DEF StartJob, Free, Set, Outcome, Stays, TellsDone, TellsFailure, TypeOK
  <2>3. CASE channel # "closed"
    BY <1>1, <1>3, <2>3 DEF StartJob, Set, Outcome, Stays, TellsDone, TellsFailure, TypeOK, Exact, Busy, Idle
  <2> QED BY <2>2, <2>3
<1>4. CASE Stage(w)
  <2>1. live[m] = before[m] /\ UNCHANGED <<live, dropped, sawCancel, jammed>> /\ step[w] = "stage"
    BY <1>4 DEF SwapInv, Fresh, Stage, disk
  <2>2. CASE ToolAccepts(m) /\ ToReplace(m) = {} /\ Report(w, TRUE)
    <3>1. op = "strip" /\ live[m]["pak"] = "clean"
      BY <2>2 DEF ToReplace, ToolAccepts, Whole, Files
    <3> QED BY <1>0, <2>1, <2>2, <3>1 DEF Report, Free, Set, Outcome, Stays, TellsDone, TellsFailure, Reached, TypeOK
  <2>3. CASE /\ todo' = [todo EXCEPT ![w] = ToReplace(job[w])] /\ Set(w, "swap")
             /\ UNCHANGED <<job, applied, current, succeeded, failed>>
    <3>1. step'[w] = "swap" /\ job'[w] = m
      BY <2>3 DEF Set, TypeOK
    <3>2. Exact(w)'
      BY <1>0, <1>2, <2>1, <3>1 DEF Exact, Old
    <3> QED BY <2>1, <2>3, <3>1, <3>2 DEF Outcome, Stays, TellsDone, TellsFailure
  <2>4. CASE Report(w, FALSE)
    BY <2>1, <2>4 DEF Report, Free, Set, Outcome, Stays, TellsDone, TellsFailure, TypeOK
  <2> QED BY <1>4, <2>2, <2>3, <2>4 DEF Stage
<1>5. CASE Park(w)
  <2>1. UNCHANGED <<job, applied, succeeded, failed, dropped, sawCancel, jammed>> /\ step[w] = "swap"
    BY <1>5 DEF Park
  <2>2. CASE Set(w, "undo") /\ UNCHANGED <<disk, todo, current>>
    <3>1. step'[w] = "undo" /\ live' = live
      BY <2>2 DEF Set, TypeOK, disk
    <3>2. \A f \in Files \ applied[w] : live[m][f] = Old(m, f)
      BY <1>1, <2>1 DEF Swapping, Exact
    <3>3. Exact(w)'
      BY <1>2, <2>1, <3>1, <3>2 DEF Exact
    <3> QED BY <2>1, <3>1, <3>3 DEF Outcome, Stays, TellsDone, TellsFailure
  <2>3. ASSUME NEW f \in todo[w], live' = [live EXCEPT ![m][f] = None], Set(w, "install")
        PROVE  Outcome(w)
    <3>1. step'[w] = "install" /\ f \in Touches
      BY <1>1, <2>3 DEF Set, TypeOK, Swapping
    <3>2. \A g \in Files \ Touches : live'[m][g] = live[m][g]
      BY <1>2, <2>3, <3>1 DEF TypeOK
    <3>3. Exact(w)'
      BY <1>2, <2>1, <3>1, <3>2 DEF Exact
    <3> QED BY <2>1, <3>1, <3>3 DEF Outcome, Stays, TellsDone, TellsFailure
  <2> QED BY <1>0, <1>5, <2>2, <2>3 DEF Park
<1>6. CASE Install(w)
  <2>1. /\ UNCHANGED <<job, todo, current, succeeded, failed, dropped, sawCancel, jammed>>
        /\ step[w] = "install" /\ current[w] \in Touches
    BY <1>1, <1>6 DEF Install, Swapping
  <2>2. PICK x : live' = [live EXCEPT ![m][current[w]] = x]
    BY <1>6 DEF Install
  <2>3. \A g \in Files \ {current[w]} : live'[m][g] = live[m][g]
    BY <2>2 DEF TypeOK
  <2>4. \A g \in Files \ Touches : live'[m][g] = Old(m, g)
    BY <2>1, <2>3 DEF Exact
  <2>5. CASE Set(w, IF todo[w] = {} THEN "drop" ELSE "swap")
    <3>1. step'[w] \in {"drop", "swap"}
      BY <2>5 DEF Set, TypeOK
    <3> QED BY <1>2, <2>1, <2>4, <3>1 DEF Exact, Outcome, Stays, TellsDone, TellsFailure
  <2>6. CASE Set(w, "return") /\ UNCHANGED applied
    <3>1. step'[w] = "return"
      BY <2>6 DEF Set, TypeOK
    <3>2. \A f \in Files \ applied[w] : live'[m][f] = Old(m, f) \/ f = current[w]
      BY <1>1, <2>1, <2>3, <2>4 DEF Swapping
    <3> QED BY <1>2, <2>1, <2>4, <2>6, <3>1, <3>2 DEF Exact, Outcome, Stays, TellsDone, TellsFailure
  <2> QED BY <1>0, <1>6, <2>5, <2>6 DEF Install
<1>7. CASE ReturnParked(w)
  <2>1. /\ UNCHANGED <<job, todo, applied, current, succeeded, failed, dropped, sawCancel>>
        /\ step[w] = "return" /\ step'[w] = "undo"
        /\ current[w] \in Touches /\ bak[m][current[w]] = Old(m, current[w])
    BY <1>1, <1>7 DEF ReturnParked, Swapping, Set, TypeOK
  <2>2. CASE Rename(m, current[w]) /\ UNCHANGED jammed
    <3>1. \A g \in Files : live'[m][g] = IF g = current[w] THEN Old(m, g) ELSE live[m][g]
      BY <1>2, <2>1, <2>2 DEF Rename, TypeOK
    <3>2. Exact(w)'
      BY <1>2, <2>1, <2>2, <3>1 DEF Exact
    <3> QED BY <2>1, <2>2, <3>2 DEF Outcome, Stays, TellsDone, TellsFailure
  <2>3. CASE UNCHANGED disk /\ jammed' = jammed \cup {m}
    BY <1>2, <2>1, <2>3 DEF Exact, Outcome, Stays, TellsDone, TellsFailure, disk
  <2> QED BY <1>0, <1>7, <2>2, <2>3 DEF ReturnParked
<1>8. CASE Undo(w)
  <2>1. step[w] = "undo" /\ UNCHANGED <<dropped, sawCancel>>
    BY <1>8 DEF Undo
  <2>2. CASE applied[w] = {} /\ Report(w, FALSE) /\ UNCHANGED <<disk, jammed>>
    <3>1. m \notin jammed => live'[m] = before[m]
      <4>1. live[m] \in [Files -> AllContents] /\ before[m] \in [Files -> AllContents]
        BY DEF TypeOK
      <4>2. m \notin jammed => \A f \in Files : live[m][f] = before[m][f]
        BY <2>1, <2>2 DEF Exact, Old
      <4> QED BY <2>2, <4>1, <4>2 DEF disk
    <3> QED BY <2>1, <2>2, <3>1 DEF Report, Free, Set, Outcome, Stays, TellsDone, TellsFailure, TypeOK
  <2>3. ASSUME NEW f \in applied[w], applied' = [applied EXCEPT ![w] = @ \ {f}],
               UNCHANGED <<step, job, todo, current, succeeded, failed>>,
               \/ Rename(m, f) /\ UNCHANGED jammed
               \/ live' = [live EXCEPT ![m][f] = None] /\ jammed' = jammed \cup {m}
        PROVE  Outcome(w)
    <3>1. f \in Touches /\ f \in Files /\ bak[m][f] = Old(m, f) /\ applied'[w] = applied[w] \ {f}
      BY <1>1, <1>2, <2>1, <2>3 DEF Swapping, TypeOK
    <3>2. /\ \A g \in Files \ {f} : live'[m][g] = live[m][g]
          /\ live'[m][f] = Old(m, f) \/ jammed' = jammed \cup {m}
      BY <2>3, <3>1 DEF Rename, TypeOK
    <3>3. Exact(w)'
      BY <1>2, <2>1, <2>3, <3>1, <3>2 DEF Exact
    <3> QED BY <2>1, <2>3, <3>3 DEF Outcome, Stays, TellsDone, TellsFailure
  <2> QED BY <1>0, <1>8, <2>2, <2>3 DEF Undo
<1>9. CASE Drop(w)
  <2>1. /\ UNCHANGED <<live, dropped, sawCancel, jammed>> /\ Report(w, TRUE)
        /\ \A f \in Touches : live[m][f] = New(f)
    BY <1>1, <1>9 DEF Drop, Swapping
  <2>2. \A n \in {m} : Reached(n)' /\ live'[n]["pak"] = "clean"
    BY <1>0, <2>1 DEF Reached, Touches, New, Files
  <2> QED BY <1>0, <2>1, <2>2 DEF Report, Free, Set, Outcome, Stays, TellsDone, TellsFailure, TypeOK
<1> QED BY <1>0, <1>3, <1>4, <1>5, <1>6, <1>7, <1>8, <1>9 DEF Work

LEMMA WorkHonest ==
  ASSUME TypeOK, TypeOK', SwapInv, HonestInv, NEW w \in Workers, job[w] \in Mods, Work(w)
  PROVE  HonestInv'
<1> DEFINE m == job[w]
<1>1. Busy(w) /\ Elsewhere(w)
  BY WorkElsewhere DEF Work, StartJob, Stage, Park, Install, ReturnParked, Undo, Drop, Busy, Idle
<1>2. Outcome(w) /\ UNCHANGED <<early, error>>
  BY <1>1, WorkOutcome DEF HonestInv
<1>3. /\ UNCHANGED <<op, batch, main, sent, before>> /\ Running /\ ~early /\ m \in Out
      /\ Out' = Out /\ Members' = Members /\ (Running' <=> Running)
  BY <1>1 DEF Elsewhere, SwapInv, Handed, HonestInv, EarlyDone, Running, Out, Members, Busy, TypeOK
<1>4. \A v \in Workers \ {w} :
        /\ (Busy(v)' <=> Busy(v)) /\ job'[v] = job[v]
        /\ Busy(v) => job[v] # m /\ job[v] \in Mods
  <2>1. \A v \in Workers : Busy(v) => job[v] \in Mods
    <3>1. batch \in Seq(Mods) /\ sent <= Len(batch) /\ sent \in Nat
      BY DEF SwapInv, Handed, TypeOK
    <3> QED BY <3>1 DEF SwapInv, Handed
  <2> QED BY <1>1, <2>1 DEF Elsewhere, SwapInv, Handed, Busy, Idle
<1>5. \A v \in Workers : Busy(v)' => Exact(v)'
  <2> SUFFICES ASSUME NEW v \in Workers, Busy(v)' PROVE Exact(v)'
    OBVIOUS
  <2>1. CASE v = w
    BY <1>2, <2>1 DEF Outcome, Stays, TellsDone, TellsFailure, Busy, Idle
  <2>2. CASE v # w
    <3>1. Exact(v) /\ job[v] # m /\ live'[job[v]] = live[job[v]]
      BY <1>1, <1>4, <2>2 DEF HonestInv, Elsewhere
    <3>2. Touches' = Touches /\ \A f : Old(job[v], f)' = before[job[v]][f]
      BY <1>3, <1>4, <2>2, TouchesFiles DEF Old
    <3>3. jammed' \subseteq jammed \cup {m} /\ jammed \subseteq jammed'
      BY <1>2 DEF Outcome, Stays, TellsDone, TellsFailure
    <3> QED BY <1>1, <1>4, <2>2, <3>1, <3>2, <3>3 DEF Exact, Elsewhere, Old
  <2> QED BY <2>1, <2>2
<1>6. InWork' = IF Busy(w)' THEN InWork ELSE InWork \ {m}
  BY <1>1, <1>2, <1>4 DEF InWork, Outcome, Stays, TellsDone, TellsFailure, Busy, Idle
<1>7. m \in InWork /\ m \notin Told
  BY <1>1, <1>3 DEF InWork, HonestInv, Reported
<1>8. Told' = (IF Busy(w)' THEN Told ELSE Told \cup {m})
  BY <1>2 DEF Told, Outcome, Stays, TellsDone, TellsFailure, Busy, Idle
<1>9. Reported'
  <2>1. succeeded' \cap failed' = {} /\ (succeeded' \cup failed') \cap dropped' = {}
    BY <1>2, <1>3, <1>7 DEF Told, Outcome, Stays, TellsDone, TellsFailure, HonestInv, Reported
  <2>2. Told' \cap InWork' = {} /\ Told' \cup InWork' = Told \cup InWork
    BY <1>3, <1>6, <1>7, <1>8 DEF HonestInv, Reported
  <2>3. sawCancel' => dropped' # {}
    BY <1>2, <1>3 DEF Outcome, Stays, TellsDone, TellsFailure, HonestInv, Reported
  <2>4. ASSUME NEW n \in succeeded' PROVE Reached(n)' /\ live'[n]["pak"] = "clean"
    <3>1. CASE n = m
      BY <1>2, <1>7, <2>4, <3>1 DEF Told, Outcome, Stays, TellsDone, TellsFailure
    <3>2. CASE n # m
      <4>1. n \in succeeded /\ live'[n] = live[n]
        BY <1>1, <1>2, <2>4, <3>2 DEF Outcome, Stays, TellsDone, TellsFailure, Elsewhere, TypeOK
      <4> QED BY <1>3, <4>1 DEF HonestInv, Reported, Reached
    <3> QED BY <3>1, <3>2
  <2>5. dropped \subseteq dropped'
    BY <1>2 DEF Outcome, Stays, TellsDone, TellsFailure
  <2> QED BY <1>3, <2>1, <2>2, <2>3, <2>4, <2>5 DEF HonestInv, Reported
<1>10. Untouched'
  <2>1. jammed' \subseteq Out
    BY <1>2, <1>3 DEF Outcome, Stays, TellsDone, TellsFailure, HonestInv, Untouched
  <2>2. ASSUME NEW n \in Mods \ (succeeded' \cup InWork' \cup jammed') PROVE live'[n] = before[n]
    <3>1. CASE n = m
      BY <1>2, <1>6, <1>7, <2>2, <3>1 DEF Outcome, Stays, TellsDone, TellsFailure, Busy, Idle
    <3>2. CASE n # m
      <4>1. n \notin succeeded \cup InWork \cup jammed /\ live'[n] = live[n]
        BY <1>1, <1>2, <1>6, <2>2, <3>2 DEF Outcome, Stays, TellsDone, TellsFailure, Elsewhere
      <4> QED BY <1>3, <2>2, <4>1 DEF HonestInv, Untouched
    <3> QED BY <3>1, <3>2
  <2> QED BY <1>3, <2>1, <2>2 DEF Untouched
<1>11. EarlyDone' /\ ReportsHonest'
  BY <1>2, <1>3 DEF EarlyDone, ReportsHonest, Running
<1> QED BY <1>5, <1>9, <1>10, <1>11 DEF HonestInv

-----------------------------------------------------------------------------
(* The rest of the program: the reports while the main goroutine goes on.  *)
LEMMA ExactKept ==
  ASSUME NEW w, Exact(w), UNCHANGED <<live, op, before, jammed, step, job, applied, current>>
  PROVE  Exact(w)'
<1>1. Touches' = Touches
  BY TouchesFiles
<1> QED BY <1>1 DEF Exact, Old

LEMMA HandHonest ==
  ASSUME TypeOK, TypeOK', SwapInv, HonestInv, NEW w \in Workers, Hand(w)
  PROVE  HonestInv'
<1> DEFINE m == batch[sent + 1]
<1>1. /\ UNCHANGED <<live, bak, result, op, batch, before, todo, applied, current, sawCancel, jammed>>
      /\ sent' = sent + 1 /\ main = "send" /\ main' = "next" /\ step[w] = "idle"
      /\ job'[w] = m /\ step'[w] \in {"start", "stage"} /\ Running /\ Running'
      /\ \A v \in Workers \ {w} : job'[v] = job[v] /\ step'[v] = step[v]
  BY DEF Hand, TypeOK, disk, Running
<1>2. sent \in Nat /\ sent < Len(batch) /\ batch \in Seq(Mods) /\ sent + 1 \in 1 .. Len(batch)
  BY HandType DEF SwapInv, TypeOK
<1>3. Out' = Out \cup {m} /\ m \notin Out /\ Members' = Members
  <2>1. 1 .. sent' = (1 .. sent) \cup {sent + 1}
    BY <1>1, <1>2
  <2>2. m \notin Out
    BY <1>2 DEF SwapInv, Handed, Out, IsInjective
  <2> QED BY <1>1, <2>1, <2>2 DEF Out, Members
<1>4. InWork' = InWork \cup {m}
  BY <1>1 DEF InWork, Busy, Idle
<1>5. ~early /\ UNCHANGED <<early, succeeded, failed, dropped, error, Told>>
  BY <1>1 DEF HonestInv, EarlyDone, result, Told
<1>6. \A v \in Workers : Busy(v)' => Exact(v)'
  <2> SUFFICES ASSUME NEW v \in Workers, Busy(v)' PROVE Exact(v)'
    OBVIOUS
  <2>1. CASE v = w
    BY <1>1, <2>1 DEF Exact
  <2>2. CASE v # w
    <3>1. Exact(v) /\ Touches' = Touches
      BY <1>1, <2>2, TouchesFiles DEF HonestInv, Busy, Idle
    <3> QED BY <1>1, <2>2, <3>1 DEF Exact, Old
  <2> QED BY <2>1, <2>2
<1>7. Reported'
  <2>1. Told \cap InWork' = {} /\ Told \cup InWork' = Out'
    BY <1>1, <1>3, <1>4, <1>5 DEF HonestInv, Reported
  <2> QED BY <1>1, <1>5, <2>1 DEF HonestInv, Reported, Reached
<1>8. Untouched'
  BY <1>1, <1>3, <1>4, <1>5 DEF HonestInv, Untouched
<1>9. EarlyDone' /\ ReportsHonest'
  BY <1>1, <1>5 DEF EarlyDone, ReportsHonest
<1> QED BY <1>6, <1>7, <1>8, <1>9 DEF HonestInv

LEMMA LoopHonest ==
  ASSUME TypeOK, SwapInv, HonestInv, MainLoop
  PROVE  HonestInv'
<1>1. PICK skipped \in {{sent + 1}, sent + 1 .. Len(batch)} :
        Advance(skipped) /\ (op = "strip" \/ skipped = sent + 1 .. Len(batch))
  BY DEF MainLoop, SendLoop, StripLoop
<1>2. /\ UNCHANGED <<live, succeeded, failed, error, early, op, batch, sent, before, step, job,
                     applied, current, sawCancel, jammed>>
      /\ main = "next" /\ main' \in {"send", "wait"} /\ Running /\ Running' /\ ~early
  BY <1>1 DEF Advance, disk, pool, Running, HonestInv, EarlyDone
<1>3. sent \in Nat /\ sent <= Len(batch) /\ Len(batch) \in Nat /\ IsInjective(batch)
      /\ DOMAIN batch = 1 .. Len(batch)
  BY DEF TypeOK, SwapInv, Handed
<1>4. InWork' = InWork /\ Out' = Out /\ Members' = Members
  BY <1>2 DEF InWork, Out, Members, Busy, Idle
<1>5. \A w \in Workers : Busy(w)' => Exact(w)'
  BY <1>2, ExactKept DEF HonestInv, Busy, Idle
<1>6. Reported'
  <2>1. CASE sent = Len(batch)
    <3>1. Out = Members /\ dropped' = dropped
      BY <1>1, <1>3, <2>1 DEF Advance, Out, Members
    <3> QED BY <1>2, <1>4, <3>1 DEF HonestInv, Reported, Reached, Told
  <2>2. CASE sent # Len(batch) /\ channel = "closed"
    <3>0. sent < Len(batch)
      <4>1. sent \in Nat /\ sent <= Len(batch) /\ Len(batch) \in Nat
        BY <1>3
      <4>2. sent # Len(batch)
        BY <2>2
      <4> QED BY <4>1, <4>2
    <3> DEFINE rest == {batch[k] : k \in skipped}
    <3>1. main' = "wait" /\ dropped' = dropped \cup rest
      BY <1>1, <2>2 DEF Advance
    <3>2. sent + 1 \in skipped /\ rest \cap Out = {} /\ rest # {}
      <4>1. sent + 1 \in skipped /\ skipped \subseteq DOMAIN batch /\ skipped \cap (1 .. sent) = {}
        <5>1. sent + 1 <= Len(batch) /\ \A k \in sent + 1 .. Len(batch) : k \in 1 .. Len(batch) /\ k \notin 1 .. sent
          BY <1>3, <3>0
        <5>2. sent + 1 \in 1 .. Len(batch) /\ sent + 1 \notin 1 .. sent /\ sent + 1 \in sent + 1 .. Len(batch)
          BY <1>3, <5>1
        <5> QED BY <1>3, <5>1, <5>2
      <4>2. 1 .. sent \subseteq DOMAIN batch
        BY <1>3
      <4> QED BY <1>3, <4>1, <4>2 DEF Out, IsInjective
    <3>3. Out \cup rest = Members \/ op = "strip"
      <4>1. CASE skipped = sent + 1 .. Len(batch)
        <5>1. 1 .. Len(batch) = (1 .. sent) \cup (sent + 1 .. Len(batch))
          BY <1>3
        <5> QED BY <1>3, <4>1, <5>1 DEF Out, Members
      <4> QED BY <1>1, <4>1
    <3>4. Told' = Told \cup rest
      BY <1>2, <3>1 DEF Told
    <3>5. Told \cup InWork = Out /\ Told \cap InWork = {}
      BY <1>2 DEF HonestInv, Reported
    <3>6. succeeded' \cap failed' = {} /\ (succeeded' \cup failed') \cap dropped' = {}
      BY <1>2, <3>1, <3>2, <3>5 DEF HonestInv, Reported, Told
    <3> HIDE DEF rest
    <3>7. Told' \cap InWork' = {} /\ (Told' \cup InWork' = Members' \/ (op' = "strip" /\ dropped' # {}))
      BY <1>2, <1>4, <3>1, <3>2, <3>3, <3>4, <3>5
    <3> QED BY <1>2, <3>1, <3>2, <3>6, <3>7 DEF HonestInv, Reported, Reached
  <2>3. CASE sent # Len(batch) /\ channel # "closed"
    <3>1. main' = "send" /\ dropped' = dropped
      BY <1>1, <2>3 DEF Advance
    <3> QED BY <1>2, <1>4, <3>1 DEF HonestInv, Reported, Reached, Told
  <2> QED BY <2>1, <2>2, <2>3
<1>7. Untouched'
  BY <1>2, <1>4 DEF HonestInv, Untouched
<1>8. EarlyDone' /\ ReportsHonest'
  BY <1>2 DEF EarlyDone, ReportsHonest
<1> QED BY <1>5, <1>6, <1>7, <1>8 DEF HonestInv

LEMMA ReturnHonest ==
  ASSUME TypeOK, SwapInv, HonestInv, Return
  PROVE  HonestInv'
<1>1. /\ UNCHANGED <<live, succeeded, failed, dropped, early, op, batch, before, step, job, jammed>>
      /\ main = "wait" /\ main' = "returned" /\ Running /\ ~Running'
      /\ \A w \in Workers : Idle(w) /\ Idle(w)'
      /\ error' = IF sawCancel \/ dropped # {} THEN "cancelled" ELSE "nil"
  BY DEF Return, disk, pool, Running, Idle
<1>2. InWork = {} /\ Members' = Members /\ Members \subseteq Mods
  <2>1. batch \in Seq(Mods)
    BY DEF TypeOK
  <2> QED BY <1>1, <2>1 DEF InWork, Busy, Members
<1>3. Untouched
  BY DEF HonestInv
<1>4. ReportsHonest'
  <2>1. CASE early
    BY <1>1, <1>2, <2>1 DEF HonestInv, EarlyDone, ReportsHonest
  <2>2. CASE ~early
    BY <1>1, <1>2, <1>3, <2>2 DEF HonestInv, Reported, Untouched, ReportsHonest, Reached, Told
  <2> QED BY <2>1, <2>2
<1> QED BY <1>1, <1>4 DEF HonestInv, Reported, Untouched, EarlyDone, Busy

LEMMA BeginHonest ==
  ASSUME TypeOK, SwapInv, Begin
  PROVE  HonestInv'
<1>1. PICK o \in Ops, b \in Batches :
        /\ op' = o /\ batch' = b /\ before' = live /\ sent' = 0 /\ sawCancel' = FALSE
        /\ jammed' = {} /\ failed' = {} /\ dropped' = {}
        /\ \/ main' = "next" /\ succeeded' = {} /\ early' = FALSE
           \/ main' = "wait" /\ succeeded' = {b[k] : k \in DOMAIN b} /\ early' = TRUE
           \/ main' = "returned" /\ error' = "other"
  BY DEF Begin
<1>2. live' = live /\ \A w \in Workers : Idle(w)'
  BY DEF Begin, SwapInv, Handed, Idle, disk, pool
<1>3. InWork' = {} /\ Out' = {} /\ Members' = {b[k] : k \in DOMAIN b}
  BY <1>1, <1>2 DEF InWork, Out, Members, Busy
<1>4. Untouched'
  BY <1>1, <1>2 DEF Untouched
<1>5. Reported'
  BY <1>1, <1>3 DEF Reported, Told, Running
<1>6. EarlyDone'
  BY <1>1, <1>2, <1>3 DEF EarlyDone, Running
<1>7. ReportsHonest'
  BY <1>1 DEF ReportsHonest
<1> QED BY <1>2, <1>4, <1>5, <1>6, <1>7 DEF HonestInv, Busy

LEMMA NextHonest == TypeOK /\ SwapInv /\ HonestInv /\ [Next]_vars => HonestInv'
<1> SUFFICES ASSUME TypeOK, SwapInv, HonestInv, [Next]_vars PROVE HonestInv'
  OBVIOUS
<1>1. TypeOK'
  BY NextSwap
<1>2. CASE Kill
  BY <1>2 DEF Kill, HonestInv, Reported, Untouched, EarlyDone, ReportsHonest, Running, Busy, Idle
<1>3. CASE Cancel \/ UNCHANGED vars
  <2>1. UNCHANGED <<live, main, error, early, succeeded, failed, dropped, op, batch, sent, before,
                    step, job, applied, current, sawCancel, jammed>>
    BY <1>3 DEF Cancel, vars, disk, result, mainVars, pool
  <2>2. \A w \in Workers : Busy(w)' => Exact(w)'
    BY <2>1, ExactKept DEF HonestInv, Busy, Idle
  <2>3. UNCHANGED <<Running, InWork, Out, Members, Told>>
    BY <2>1 DEF Running, InWork, Out, Members, Told, Busy, Idle
  <2> QED BY <2>1, <2>2, <2>3 DEF HonestInv, Reported, Untouched, EarlyDone, ReportsHonest, Reached, Idle
<1>4. ASSUME NEW w \in Workers, Work(w) PROVE HonestInv'
  <2>1. job[w] \in Mods
    <3>1. Busy(w)
      BY <1>4 DEF Work, StartJob, Stage, Park, Install, ReturnParked, Undo, Drop, Busy, Idle
    <3>2. batch \in Seq(Mods) /\ sent <= Len(batch) /\ sent \in Nat
      BY DEF SwapInv, Handed, TypeOK
    <3> QED BY <3>1, <3>2 DEF SwapInv, Handed
  <2> QED BY <1>1, <1>4, <2>1, WorkHonest
<1>5. ASSUME NEW w \in Workers, Hand(w) PROVE HonestInv'
  BY <1>1, <1>5, HandHonest
<1> QED BY <1>2, <1>3, <1>4, <1>5, LoopHonest, ReturnHonest, BeginHonest DEF Next

-----------------------------------------------------------------------------
(* The variables keep their types, for any library, pool, failures and     *)
(* kills.                                                                  *)
THEOREM EncryptionTypeCorrect == Spec => []TypeOK
<1> QED BY InitSwap, NextSwap, PTL DEF Spec

(* replaceBundleFiles destroys nothing it cannot replace: whatever the     *)
(* pool, the failures, the cancels and the kills, each bundle can be put   *)
(* together in one encryption state from its live and its parked files.    *)
THEOREM AlwaysRecoverable == Spec => []Recoverable
<1> QED BY InitSwap, NextSwap, TogetherIsRecoverable, PTL DEF Spec, SwapInv

(* A batch reports the truth when it returns: each bundle is done, failed  *)
(* or cancelled and not two of them, a bundle reported done is whole and   *)
(* in the requested state, and every other one is as it was or is known to *)
(* be jammed, for any batch, pool and faults.                              *)
THEOREM ReportsAreHonest == Spec => []ReportsHonest
<1>1. Init => HonestInv
  BY DEF Init, IdlePool, HonestInv, Reported, Untouched, EarlyDone, ReportsHonest, Running, Busy, Idle
<1> QED BY <1>1, InitSwap, NextSwap, NextHonest, PTL DEF Spec, HonestInv
=============================================================================
