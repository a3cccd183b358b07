--------------------------- MODULE InstallProofs ---------------------------
(***************************************************************************)
(* Proofs about Install for any sessions, archives, items, failures and    *)
(* changes by other programs: type correctness, that a preview without an  *)
(* issue offers whole bundles, that a running install loses no file it     *)
(* replaces, and what its three endings promise.                           *)
(***************************************************************************)
EXTENDS Install, TLAPS

Steps == {"idle", "encrypt", "strip", "plan", "prepare", "copy", "undo", "clean"}
Contents == File \cup {None, Torn, Old, Foreign}
Dirs == {Root} \cup {FolderOf[n] : n \in Names}

TypeOK ==
  /\ session \in [Sessions -> {"none", "staging", "open", "removed"}] /\ sources \subseteq Sessions
  /\ staged \in [Sessions -> [Staged -> File \cup {None}]] /\ next \in [Sessions -> Nat \ {0}]
  /\ flagged \in [Sessions -> SUBSET Stems] /\ unlisted \in [Sessions -> SUBSET Stems]
  /\ mods \in [Sessions -> [Areas \X Stems -> SUBSET Exts]]
  /\ lib \in [Slot -> Contents] /\ dirs \subseteq Dirs
  /\ backup \in [Slot -> Contents] /\ created \subseteq Slot /\ saved \subseteq Slot
  /\ madeDirs \subseteq Dirs /\ stuck \in BOOLEAN
  /\ active \in Sessions \cup {None} /\ items \in Seq(Item) /\ plan \subseteq Move
  /\ pc \in Steps
  /\ outcome \in {"none", "running", "refused", "rolledback", "stuck", "ok", "unscanned"}
  /\ before \in [files : [Slot -> Contents], dirs : SUBSET Dirs] /\ touched \subseteq Slot
  /\ closing \in BOOLEAN /\ cancelled \in BOOLEAN
  /\ failures \in Nat /\ foreign \in Nat

(* Staging: a stem that is not flagged has every companion of its primary, *)
(* and an open session offers what is staged.                              *)
WithCompanions(s) ==
  \A stem \in Stems \ (flagged[s] \cup unlisted[s]) :
    LET pak == staged[s][<<"loose", stem, "pak">>]
    IN pak # None => \A e \in Exts : <<stem, e>> \in Holds[pak.from] =>
                       staged[s][<<"loose", stem, e>>] # None
StagedOK ==
  \A s \in Sessions :
    /\ WithCompanions(s)
    /\ session[s] = "open" => mods[s] = Bundles(s)

WellStaged ==
  \A s \in Sessions : \A x \in Staged :
    staged[s][x] # None => staged[s][x].stem = x[2] /\ staged[s][x].ext = x[3]

(* The session of the call is beyond staging, and what is to be encrypted  *)
(* has been after the step that does it.                                   *)
CallOK ==
  /\ pc = "idle" <=> active = None
  /\ pc # "idle" => session[active] \in {"open", "removed"}
  /\ pc \in {"strip", "plan", "prepare", "copy"} =>
       \A k \in DOMAIN items : items[k].encrypt =>
         \A e \in Bundle(items[k]) :
           LET file == staged[active][<<items[k].mod[1], items[k].mod[2], e>>]
           IN file = None \/ file.coded

(* The library: nothing is changed before the plan; then what differs from *)
(* the start can be taken back, and is housed in a known folder.           *)
Same(x) == lib[x] = before.files[x]
Others == Slot \ touched
Changing == pc \in {"prepare", "copy", "undo"}
Unchanged ==
  pc \in {"encrypt", "strip", "plan"} =>
    /\ \A x \in Others : Same(x)
    /\ dirs = before.dirs /\ created = {} /\ saved = {} /\ madeDirs = {} /\ ~stuck
Undoable ==
  Changing =>
    /\ pc # "undo" => ~stuck
    /\ dirs \subseteq before.dirs \cup madeDirs /\ before.dirs \subseteq dirs \ madeDirs
    /\ \A x \in Others :
         /\ stuck \/ Same(x) \/ x \in created \cup saved
         /\ x \in created => before.files[x] = None
         /\ x \in saved => backup[x] = before.files[x] \/ (closing /\ backup[x] = None)
Held ==
  pc # "idle" /\ ~closing =>
    \A x \in Others : Same(x) \/ before.files[x] = None \/ backup[x] = before.files[x]
Housed ==
  \A x \in Slot :
    /\ lib[x] # None => FolderOf[x[1]] \in dirs
    /\ before.files[x] # None => FolderOf[x[1]] \in before.dirs
    /\ Changing /\ x \in created \cup saved => FolderOf[x[1]] \in dirs

(* The plan: each file of each item is still to be copied, or arrived; and *)
(* no two go to one place.                                                 *)
Copying == pc \in {"prepare", "copy"}
Arrived(k, e) ==
  LET x == <<items[k].to, e>>
  IN x \in touched \/ /\ lib[x] \in File /\ lib[x].stem = items[k].mod[2] /\ lib[x].ext = e
                      /\ items[k].encrypt => lib[x].coded
Reached == created \cup saved
Planned ==
  Copying =>
    /\ \A m \in plan :
         /\ m.item \in DOMAIN items /\ m.ext \in Bundle(items[m.item])
         /\ To(m) \notin touched => (m.replace <=> before.files[To(m)] # None)
         /\ To(m) \in Reached <=> pc = "copy" /\ IsNext(m)
    /\ \A m, n \in plan : To(m) = To(n) => m = n
    /\ \A j, k \in DOMAIN items : \A e \in Bundle(items[j]) \cap Bundle(items[k]) :
         items[j].to = items[k].to => j = k
    /\ \A k \in DOMAIN items : \A e \in Bundle(items[k]) :
         (\E m \in plan : m.item = k /\ m.ext = e) \/ Arrived(k, e)

InstallInv ==
  /\ TypeOK /\ StagedOK /\ WellStaged /\ CallOK
  /\ Unchanged /\ Undoable /\ Held /\ Housed /\ Planned

-----------------------------------------------------------------------------
LEMMA InitInstall == Init => InstallInv
<1> SUFFICES ASSUME Init PROVE InstallInv
  OBVIOUS
<1> USE DEF Init
<1>1. \A x \in Slot : lib[x] \in {None, Old} /\ x[1] \in Names
  BY InstallAssumption DEF Slot
<1>2. lib \in [Slot -> Contents]
  BY <1>1, InstallAssumption DEF Contents
<1>3. dirs \subseteq Dirs
  BY <1>1 DEF Dirs
<1>4. staged \in [Sessions -> [Staged -> File \cup {None}]] /\ mods \in [Sessions -> [Areas \X Stems -> SUBSET Exts]]
  BY DEF Empty, NoBundles
<1>5. items \in Seq(Item) /\ before \in [files : [Slot -> Contents], dirs : SUBSET Dirs]
  BY <1>2, <1>3
<1>6. backup \in [Slot -> Contents]
  BY DEF Contents
<1>11. next \in [Sessions -> Nat \ {0}] /\ failures \in Nat /\ foreign \in Nat
  OBVIOUS
<1>7. TypeOK
  BY <1>11, <1>2, <1>3, <1>4, <1>5, <1>6 DEF TypeOK, Steps
<1>8. StagedOK /\ WellStaged
  BY DEF StagedOK, WellStaged, WithCompanions, Empty, Staged, Areas, Exts
<1>9. CallOK /\ Unchanged /\ Undoable /\ Held /\ Planned
  BY DEF CallOK, Unchanged, Undoable, Held, Planned, Changing, Copying
<1>10. Housed
  BY <1>1 DEF Housed, Changing
<1> QED BY <1>7, <1>8, <1>9, <1>10 DEF InstallInv

(* What a staged file is. *)
LEMMA OriginalFile ==
  ASSUME NEW o \in Archives \cup Folders, NEW stem \in Stems, NEW e \in Exts
  PROVE  /\ Original(o, stem, e) \in File /\ Original(o, stem, e) # None
         /\ Original(o, stem, e).from = o /\ Original(o, stem, e).stem = stem
         /\ Original(o, stem, e).ext = e
<1>1. Original(o, stem, e) \in File
  BY DEF Original, File
<1> QED BY <1>1, InstallAssumption DEF Original

LEMMA LooseSource ==
  ASSUME NEW s \in Sessions, NEW k \in DOMAIN Selected[s], Selected[s][k].from \in Folders
  PROVE  LET source == Selected[s][k]
         IN source.stem \in Stems /\ source.ext \in Exts /\ <<source.stem, source.ext>> \in Holds[source.from]
<1> DEFINE source == Selected[s][k]
           h == <<source.stem, source.ext>>
<1>1. h \in Holds[source.from]
  BY InstallAssumption
<1>2. h[2] \in Exts
  BY <1>1, InstallAssumption
<1>3. h[1] \in Stems
  BY <1>1 DEF Stems
<1> QED BY <1>1, <1>2, <1>3

-----------------------------------------------------------------------------
(* Staging.  The files of one session change, in one of these ways.        *)

WellNamed(files) ==
  /\ files \in [Staged -> File \cup {None}]
  /\ \A x \in Staged : files[x] # None => files[x].stem = x[2] /\ files[x].ext = x[3]
LooseIn(new, files, source, copied, lost) ==
  /\ WellNamed(new)
  /\ \A x \in Staged : x[1] # "loose" \/ x[2] # source.stem => new[x] = files[x]
  /\ \A e \in Exts :
       /\ e \in lost => new[<<"loose", source.stem, e>>] = None
       /\ e \in copied \ lost => new[<<"loose", source.stem, e>>] = Original(source.from, source.stem, e)
       /\ e \notin copied \cup lost => new[<<"loose", source.stem, e>>] = files[<<"loose", source.stem, e>>]

(* What the loose directory holds after a source. *)
LEMMA LooseKeeps ==
  ASSUME NEW files, WellNamed(files), NEW source,
         source.from \in Archives \cup Folders, source.stem \in Stems,
         NEW copied \in SUBSET Exts, NEW lost \in SUBSET Exts
  PROVE  LooseIn(WithLoose(files, source, copied, lost), files, source, copied, lost)
<1> DEFINE new == WithLoose(files, source, copied, lost)
<1>1. \A x \in Staged : /\ x[1] \in Areas /\ x[2] \in Stems /\ x[3] \in Exts /\ x = <<x[1], x[2], x[3]>>
                        /\ Original(source.from, x[2], x[3]) \in File
                        /\ Original(source.from, x[2], x[3]).stem = x[2]
                        /\ Original(source.from, x[2], x[3]).ext = x[3]
  BY OriginalFile DEF Staged
<1>2. new = [x \in Staged |->
               IF x[1] # "loose" \/ x[2] # source.stem THEN files[x]
               ELSE IF x[3] \in lost THEN None
               ELSE IF x[3] \in copied THEN Original(source.from, x[2], x[3])
               ELSE files[x]]
  BY DEF WithLoose
<1>3. \A e \in Exts : <<"loose", source.stem, e>> \in Staged
  BY DEF Staged, Areas
<1> HIDE DEF new
<1>4. WellNamed(new)
  BY <1>1, <1>2 DEF WellNamed
<1>5. \A x \in Staged : x[1] # "loose" \/ x[2] # source.stem => new[x] = files[x]
  BY <1>2
<1>6. ASSUME NEW e \in Exts
      PROVE  /\ e \in lost => new[<<"loose", source.stem, e>>] = None
             /\ e \in copied \ lost => new[<<"loose", source.stem, e>>] = Original(source.from, source.stem, e)
             /\ e \notin copied \cup lost => new[<<"loose", source.stem, e>>] = files[<<"loose", source.stem, e>>]
  BY <1>2, <1>3
<1> QED BY <1>4, <1>5, <1>6 DEF LooseIn, new


(* What a turn of the loop of StageFiles has to establish. *)
StagesWell(s) ==
  /\ WellNamed(staged'[s]) /\ WithCompanions(s)'
  /\ \E files : staged' = [staged EXCEPT ![s] = files]
  /\ flagged' \in [Sessions -> SUBSET Stems] /\ unlisted' \in [Sessions -> SUBSET Stems]
  /\ \A t \in Sessions \ {s} : flagged'[t] = flagged[t] /\ unlisted'[t] = unlisted[t]

LEMMA StageLooseWell ==
  ASSUME InstallInv, NEW s \in Sessions, AtSource(s), StageLoose(s)
  PROVE  StagesWell(s)
<1> DEFINE k == next[s]
           source == Selected[s][k]
<1>1. /\ source.from \in Folders /\ session[s] = "staging" /\ WithCompanions(s)
  BY DEF StageLoose, AtSource, InstallInv, StagedOK
<1>2. k \in DOMAIN Selected[s]
  <2>1. k \in Nat \ {0} /\ k <= Len(Selected[s])
    BY DEF AtSource, InstallInv, TypeOK
  <2>2. Selected[s] \in Seq([from : Archives \cup Folders, stem : Stems, ext : Exts])
    BY InstallAssumption
  <2> QED BY <2>1, <2>2
<1>3. /\ source.stem \in Stems /\ source.ext \in Exts /\ source.from \in Archives \cup Folders
      /\ <<source.stem, source.ext>> \in Holds[source.from]
  BY <1>1, <1>2, LooseSource
<1>4. WellNamed(staged[s])
  BY DEF InstallInv, TypeOK, WellStaged, WellNamed
<1>5. \A copied, lost \in SUBSET Exts :
        LooseIn(WithLoose(staged[s], source, copied, lost), staged[s], source, copied, lost)
  BY <1>3, <1>4, LooseKeeps
<1>6. CASE \E lost \in SUBSET Companions(source) :
             /\ staged' = [staged EXCEPT ![s] = WithLoose(@, source, Companions(source) \cup {source.ext}, lost)]
             /\ flagged' = [flagged EXCEPT ![s] = IF lost = {} THEN @ ELSE @ \cup {source.stem}]
             /\ UNCHANGED unlisted
  <2> DEFINE copied == Companions(source) \cup {source.ext}
  <2>1. PICK lost \in SUBSET Companions(source) :
             /\ staged' = [staged EXCEPT ![s] = WithLoose(@, source, copied, lost)]
             /\ flagged' = [flagged EXCEPT ![s] = IF lost = {} THEN @ ELSE @ \cup {source.stem}]
             /\ UNCHANGED unlisted
    BY <1>6
  <2> DEFINE new == WithLoose(staged[s], source, copied, lost)
  <2>2. staged' = [staged EXCEPT ![s] = new] /\ staged'[s] = new
    BY <2>1 DEF InstallInv, TypeOK
  <2>3. copied \in SUBSET Exts /\ lost \in SUBSET Exts
    BY <1>3 DEF Companions
  <2>4. LooseIn(new, staged[s], source, copied, lost) /\ WellNamed(staged'[s])
    BY <1>5, <2>2, <2>3 DEF LooseIn
  <2> HIDE DEF new
  <2>5. flagged' \in [Sessions -> SUBSET Stems] /\ unlisted' \in [Sessions -> SUBSET Stems]
        /\ \A t \in Sessions \ {s} : flagged'[t] = flagged[t] /\ unlisted'[t] = unlisted[t]
    BY <1>3, <2>1 DEF InstallInv, TypeOK
  <2>6. flagged'[s] = (IF lost = {} THEN flagged[s] ELSE flagged[s] \cup {source.stem}) /\ unlisted'[s] = unlisted[s]
    BY <2>1 DEF InstallInv, TypeOK
  <2>7. WithCompanions(s)'
    <3> SUFFICES ASSUME NEW stem \in Stems, stem \notin flagged'[s] \cup unlisted'[s],
                        NEW e \in Exts, new[<<"loose", stem, "pak">>] # None,
                        <<stem, e>> \in Holds[new[<<"loose", stem, "pak">>].from]
                 PROVE  new[<<"loose", stem, e>>] # None
      BY <2>2 DEF WithCompanions
    <3>1. \A f \in Exts : <<"loose", stem, f>> \in Staged /\ "pak" \in Exts
      BY DEF Staged, Areas, Exts
    <3>2. CASE stem # source.stem
      <4>1. \A f \in Exts : new[<<"loose", stem, f>>] = staged[s][<<"loose", stem, f>>]
        BY <2>4, <3>1, <3>2 DEF LooseIn
      <4> QED BY <1>1, <2>6, <3>1, <4>1 DEF WithCompanions
    <3>3. CASE stem = source.stem
      <4>1. lost = {}
        BY <2>6, <3>3
      <4>2. \A f \in copied : /\ new[<<"loose", stem, f>>] = Original(source.from, stem, f)
                              /\ new[<<"loose", stem, f>>] # None
                              /\ new[<<"loose", stem, f>>].from = source.from
        <5> SUFFICES ASSUME NEW f \in copied
                     PROVE  /\ new[<<"loose", stem, f>>] = Original(source.from, stem, f)
                            /\ new[<<"loose", stem, f>>] # None
                            /\ new[<<"loose", stem, f>>].from = source.from
          OBVIOUS
        <5>1. f \in Exts /\ f \in copied \ lost
          BY <2>3, <4>1
        <5> HIDE DEF copied
        <5>2. new[<<"loose", stem, f>>] = Original(source.from, stem, f)
          BY <2>4, <3>3, <5>1 DEF LooseIn
        <5>3. Original(source.from, stem, f) # None /\ Original(source.from, stem, f).from = source.from
          BY <1>3, <5>1, OriginalFile
        <5> QED BY <5>2, <5>3
      <4>3. \A f \in Exts \ copied : new[<<"loose", stem, f>>] = staged[s][<<"loose", stem, f>>]
        BY <2>4, <3>3, <4>1 DEF LooseIn
      <4>4. CASE "pak" \in copied
        <5>1. e \in copied
          BY <3>3, <4>2, <4>4 DEF Companions
        <5> QED BY <4>2, <5>1
      <4>5. CASE "pak" \notin copied
        <5>1. staged[s][<<"loose", stem, e>>] # None
          BY <1>1, <2>6, <3>1, <4>3, <4>5 DEF WithCompanions
        <5> QED BY <4>2, <4>3, <5>1
      <4> QED BY <4>4, <4>5
    <3> QED BY <3>2, <3>3
  <2> QED BY <2>2, <2>4, <2>5, <2>7 DEF StagesWell
<1>7. CASE /\ staged' = [staged EXCEPT ![s] = WithLoose(@, source, {source.ext}, {})]
           /\ unlisted' = [unlisted EXCEPT ![s] = @ \cup {source.stem}]
           /\ UNCHANGED flagged
  <2> DEFINE new == WithLoose(staged[s], source, {source.ext}, {})
  <2>2. staged' = [staged EXCEPT ![s] = new] /\ staged'[s] = new
    BY <1>7 DEF InstallInv, TypeOK
  <2>3. {source.ext} \in SUBSET Exts /\ {} \in SUBSET Exts
    BY <1>3
  <2>4. LooseIn(new, staged[s], source, {source.ext}, {}) /\ WellNamed(staged'[s])
    BY <1>5, <2>2, <2>3 DEF LooseIn
  <2> HIDE DEF new
  <2>5. flagged' \in [Sessions -> SUBSET Stems] /\ unlisted' \in [Sessions -> SUBSET Stems]
        /\ \A t \in Sessions \ {s} : flagged'[t] = flagged[t] /\ unlisted'[t] = unlisted[t]
    BY <1>3, <1>7 DEF InstallInv, TypeOK
  <2>6. unlisted'[s] = unlisted[s] \cup {source.stem} /\ flagged'[s] = flagged[s]
    BY <1>7 DEF InstallInv, TypeOK
  <2>7. WithCompanions(s)'
    <3> SUFFICES ASSUME NEW stem \in Stems, stem \notin flagged'[s] \cup unlisted'[s]
                 PROVE  \A f \in Exts : new[<<"loose", stem, f>>] = staged[s][<<"loose", stem, f>>]
      BY <1>1, <2>2, <2>6 DEF WithCompanions, Exts
    <3>1. \A f \in Exts : <<"loose", stem, f>> \in Staged
      BY DEF Staged, Areas
    <3> QED BY <2>4, <2>6, <3>1 DEF LooseIn
  <2> QED BY <2>2, <2>4, <2>5, <2>7 DEF StagesWell
<1> QED BY <1>6, <1>7 DEF StageLoose

LEMMA StageArchiveWell ==
  ASSUME InstallInv, NEW s \in Sessions, AtSource(s), StageArchive(s)
  PROVE  StagesWell(s)
<1> DEFINE source == Selected[s][next[s]]
           new == [x \in Staged |->
                     IF x[1] = source.from /\ <<x[2], x[3]>> \in Holds[x[1]]
                     THEN Original(x[1], x[2], x[3]) ELSE staged[s][x]]
<1>1. /\ source.from \in Archives /\ staged' = [staged EXCEPT ![s] = new] /\ UNCHANGED <<flagged, unlisted>>
      /\ session[s] = "staging" /\ WithCompanions(s)
  BY DEF StageArchive, AtSource, InstallInv, StagedOK
<1>2. staged'[s] = new
  BY <1>1 DEF InstallInv, TypeOK
<1>3. \A x \in Staged : /\ x[2] \in Stems /\ x[3] \in Exts
                        /\ x[1] = source.from => /\ Original(x[1], x[2], x[3]) \in File
                                                 /\ Original(x[1], x[2], x[3]).stem = x[2]
                                                 /\ Original(x[1], x[2], x[3]).ext = x[3]
  BY <1>1, OriginalFile DEF Staged
<1>4. WellNamed(staged'[s])
  <2>1. WellNamed(staged[s])
    BY DEF InstallInv, TypeOK, WellStaged, WellNamed
  <2> QED BY <1>2, <1>3, <2>1 DEF WellNamed
<1>5. \A stem \in Stems, e \in Exts : new[<<"loose", stem, e>>] = staged[s][<<"loose", stem, e>>]
  BY <1>1, InstallAssumption DEF Staged, Areas
<1> HIDE DEF new
<1>6. WithCompanions(s)'
  BY <1>1, <1>2, <1>5, ZenonT(60) DEF WithCompanions, Exts
<1> QED BY <1>1, <1>4, <1>6 DEF StagesWell, InstallInv, TypeOK

-----------------------------------------------------------------------------
(* What the session of a running install is, and where its items go. *)
LEMMA Running ==
  ASSUME InstallInv, pc # "idle"
  PROVE  /\ active \in Sessions /\ session[active] \in {"open", "removed"}
         /\ \A k \in DOMAIN items :
              /\ items[k] \in Item /\ items[k].mod \in Areas \X Stems /\ items[k].to \in Names
              /\ Bundle(items[k]) \subseteq Exts
              /\ \A e \in Exts : /\ <<items[k].to, e>> \in Slot
                                 /\ <<items[k].mod[1], items[k].mod[2], e>> \in Staged
<1>1. active \in Sessions /\ session[active] \in {"open", "removed"}
  BY DEF InstallInv, TypeOK, CallOK
<1>2. mods[active] \in [Areas \X Stems -> SUBSET Exts]
  BY <1>1 DEF InstallInv, TypeOK
<1>3. ASSUME NEW k \in DOMAIN items
      PROVE  items[k] \in Item /\ items[k].mod \in Areas \X Stems /\ items[k].to \in Names
  <2>1. items[k] \in Item
    BY DEF InstallInv, TypeOK
  <2> QED BY <2>1 DEF Item
<1> QED BY <1>1, <1>2, <1>3 DEF Bundle, Slot, Staged

(* A step that leaves the library, the plan and the rollback alone keeps   *)
(* what is said of them; the session of the call may lose its directory.   *)
LEMMA CallFrame ==
  ASSUME InstallInv,
         UNCHANGED <<lib, dirs, created, saved, madeDirs, stuck, call, touched>>,
         \/ backup' = backup /\ closing' = closing
         \/ closing' /\ backup' = [x \in Slot |-> None],
         pc # "idle" =>
           /\ session'[active] \in {"open", "removed"} /\ mods'[active] = mods[active]
           /\ \A x \in Staged : staged'[active][x] \in {None, staged[active][x]}
  PROVE  CallOK' /\ Unchanged' /\ Undoable' /\ Held' /\ Housed' /\ Planned'
<1> USE DEF call, Same, Others, Changing, Copying
<1>1. pc # "idle" => \A k \in DOMAIN items : Bundle(items[k])' = Bundle(items[k])
  BY DEF Bundle
<1>2. CallOK'
  <2>1. CallOK
    BY DEF InstallInv
  <2>2. (pc = "idle" <=> active = None)' /\ (pc # "idle" => session[active] \in {"open", "removed"})'
    BY <2>1 DEF CallOK
  <2>3. ASSUME pc \in {"strip", "plan", "prepare", "copy"},
               NEW k \in DOMAIN items, items[k].encrypt, NEW e \in Bundle(items[k])
        PROVE  LET file == staged'[active][<<items[k].mod[1], items[k].mod[2], e>>]
               IN file = None \/ file.coded
    <3>1. <<items[k].mod[1], items[k].mod[2], e>> \in Staged
      BY <2>3, Running
    <3>2. LET file == staged[active][<<items[k].mod[1], items[k].mod[2], e>>]
          IN file = None \/ file.coded
      BY <2>1, <2>3 DEF CallOK
    <3> QED BY <2>3, <3>1, <3>2
  <2> QED BY <1>1, <2>2, <2>3 DEF CallOK
<1>3. Unchanged' /\ Housed'
  BY DEF InstallInv, Unchanged, Housed
<1>4. Undoable' /\ Held'
  BY DEF InstallInv, Undoable, Held
<1>5. Planned'
  <2>1. Planned
    BY DEF InstallInv
  <2>2. \A m : To(m)' = To(m) /\ IsNext(m)' = IsNext(m)
    BY DEF To, IsNext
  <2>3. \A k, e : Arrived(k, e)' = Arrived(k, e)
    BY DEF Arrived
  <2>4. Reached' = Reached
    BY DEF Reached
  <2> QED BY <1>1, <2>1, <2>2, <2>3, <2>4 DEF Planned
<1> QED BY <1>2, <1>3, <1>4, <1>5

(* A step that leaves staging alone keeps what is said of it. *)
LEMMA StagingFrame ==
  ASSUME InstallInv, UNCHANGED staging
  PROVE  StagedOK' /\ WellStaged'
<1> USE DEF staging
<1>1. \A s \in Sessions : WithCompanions(s)' = WithCompanions(s) /\ Bundles(s)' = Bundles(s)
  BY DEF WithCompanions, Bundles
<1> QED BY <1>1 DEF InstallInv, StagedOK, WellStaged

(* An empty directory, and the removal of a session. *)
LEMMA EmptyFiles == WellNamed(Empty)
BY DEF Empty, WellNamed

LEMMA Removal ==
  ASSUME InstallInv, NEW s \in Sessions, RemoveSession(s),
         UNCHANGED <<flagged, mods, unlisted>>
  PROVE  /\ StagedOK' /\ WellStaged'
         /\ session' \in [Sessions -> {"none", "staging", "open", "removed"}]
         /\ staged' \in [Sessions -> [Staged -> File \cup {None}]]
<1>1. /\ session'[s] = "removed" /\ staged'[s] = Empty
      /\ \A t \in Sessions \ {s} : session'[t] = session[t] /\ staged'[t] = staged[t]
      /\ session' \in [Sessions -> {"none", "staging", "open", "removed"}]
      /\ staged' \in [Sessions -> [Staged -> File \cup {None}]]
  BY EmptyFiles DEF RemoveSession, InstallInv, TypeOK, WellNamed
<1>2. WithCompanions(s)'
  BY <1>1 DEF WithCompanions, Empty, Staged, Areas, Exts
<1>3. ASSUME NEW t \in Sessions \ {s}
      PROVE  WithCompanions(t)' = WithCompanions(t) /\ Bundles(t)' = Bundles(t)
  <2>1. staged'[t] = staged[t]
    BY <1>1
  <2> QED BY <2>1 DEF WithCompanions, Bundles
<1>4. StagedOK'
  BY <1>1, <1>2, <1>3 DEF InstallInv, StagedOK
<1>5. WellStaged'
  BY <1>1, EmptyFiles DEF InstallInv, WellStaged, WellNamed
<1> QED BY <1>1, <1>4, <1>5

-----------------------------------------------------------------------------
(* The actions of staging. *)
LEMMA CreateSessionKeeps ==
  ASSUME InstallInv, NEW s \in Sessions, CreateSession(s)
  PROVE  InstallInv'
<1> USE DEF CreateSession, library, rollback, window, Works, bounds
<1>1. pc # "idle" => session'[active] = session[active] /\ active \in Sessions
  BY Running DEF InstallInv, TypeOK
<1>2. TypeOK'
  BY DEF InstallInv, TypeOK, call
<1>3. StagedOK' /\ WellStaged'
  <2>1. \A t \in Sessions : WithCompanions(t)' = WithCompanions(t) /\ Bundles(t)' = Bundles(t)
    BY DEF WithCompanions, Bundles
  <2> QED BY <2>1 DEF InstallInv, TypeOK, StagedOK, WellStaged
<1>4. CallOK' /\ Unchanged' /\ Undoable' /\ Held' /\ Housed' /\ Planned'
  BY <1>1, Running, CallFrame
<1> QED BY <1>2, <1>3, <1>4 DEF InstallInv

(* The removal of a session that is not the call's. *)
LEMMA StagingFailsKeeps ==
  ASSUME InstallInv, NEW s \in Sessions, session[s] = "staging" \/ active # s,
         RemoveSession(s), UNCHANGED <<next, flagged, mods, unlisted, library, rollback, call, window, touched>>,
         sources' \subseteq sources, failures' \in Nat /\ foreign' \in Nat
  PROVE  InstallInv'
<1> USE DEF library, rollback, window
<1>1. pc # "idle" => s # active
  BY Running
<1>2. StagedOK' /\ WellStaged' /\ session' \in [Sessions -> {"none", "staging", "open", "removed"}]
      /\ staged' \in [Sessions -> [Staged -> File \cup {None}]]
  BY Removal
<1>3. TypeOK'
  BY <1>2 DEF InstallInv, TypeOK, call
<1>4. pc # "idle" => session'[active] = session[active] /\ staged'[active] = staged[active]
  BY <1>1, Running DEF RemoveSession, InstallInv, TypeOK
<1>5. CallOK' /\ Unchanged' /\ Undoable' /\ Held' /\ Housed' /\ Planned'
  BY <1>4, Running, CallFrame
<1> QED BY <1>2, <1>3, <1>5 DEF InstallInv

LEMMA Counted ==
  ASSUME InstallInv, Works \/ Fails
  PROVE  failures' \in Nat /\ foreign' \in Nat
BY DEF Works, Fails, bounds, InstallInv, TypeOK

LEMMA StageNextKeeps ==
  ASSUME InstallInv, NEW s \in Sessions, StageNext(s)
  PROVE  InstallInv'
<1>1. AtSource(s) /\ session[s] = "staging" /\ UNCHANGED <<library, rollback, call, window, touched>>
  BY DEF StageNext, AtSource
<1>2. CASE StagingFails(s) /\ (Works \/ Fails)
  BY <1>1, <1>2, Counted, StagingFailsKeeps DEF StagingFails
<1>3. CASE /\ StageLoose(s) \/ StageArchive(s)
           /\ next' = [next EXCEPT ![s] = @ + 1]
           /\ UNCHANGED <<session, sources, mods>>
  <2>1. StagesWell(s) /\ (Works \/ Fails)
    <3>1. Works \/ Fails
      BY <1>3 DEF StageLoose, StageArchive
    <3> QED BY <1>1, <1>3, <3>1, StageLooseWell, StageArchiveWell
  <2>2. /\ staged'[s] \in [Staged -> File \cup {None}] /\ WellNamed(staged'[s])
        /\ \A t \in Sessions \ {s} : staged'[t] = staged[t]
        /\ staged' \in [Sessions -> [Staged -> File \cup {None}]]
    BY <2>1 DEF StagesWell, WellNamed, InstallInv, TypeOK
  <2>3. TypeOK'
    <3>1. next' \in [Sessions -> Nat \ {0}]
      BY <1>3 DEF InstallInv, TypeOK
    <3> QED BY <1>1, <1>3, <2>1, <2>2, <3>1, Counted
            DEF InstallInv, TypeOK, StagesWell, call, library, rollback, window
  <2>4. ASSUME NEW t \in Sessions \ {s}
        PROVE  WithCompanions(t)' = WithCompanions(t) /\ Bundles(t)' = Bundles(t)
    <3>1. staged'[t] = staged[t] /\ flagged'[t] = flagged[t] /\ unlisted'[t] = unlisted[t]
      BY <2>1, <2>2 DEF StagesWell
    <3> QED BY <3>1 DEF WithCompanions, Bundles
  <2>5. StagedOK'
    BY <1>1, <1>3, <2>1, <2>4 DEF StagesWell, InstallInv, StagedOK
  <2>6. WellStaged'
    BY <2>2 DEF InstallInv, WellStaged, WellNamed
  <2>7. pc # "idle" => session'[active] = session[active] /\ staged'[active] = staged[active]
    BY <1>1, <1>3, <2>2, Running
  <2>8. CallOK' /\ Unchanged' /\ Undoable' /\ Held' /\ Housed' /\ Planned'
    BY <1>1, <1>3, <2>7, Running, CallFrame DEF library, rollback, window
  <2> QED BY <2>3, <2>5, <2>6, <2>8 DEF InstallInv
<1> QED BY <1>2, <1>3 DEF StageNext

LEMMA PreviewKeeps ==
  ASSUME InstallInv, NEW s \in Sessions, Preview(s)
  PROVE  InstallInv'
<1>1. session[s] = "staging" /\ UNCHANGED <<library, rollback, call, window, touched>>
  BY DEF Preview
<1>2. CASE StagingFails(s) /\ (Works \/ Fails)
  BY <1>1, <1>2, Counted, StagingFailsKeeps DEF StagingFails
<1>3. CASE /\ Works
           /\ session' = [session EXCEPT ![s] = "open"]
           /\ mods' = [mods EXCEPT ![s] = Bundles(s)]
           /\ sources' = Recorded(s)
           /\ UNCHANGED <<staged, next, flagged, unlisted>>
  <2>1. Bundles(s) \in [Areas \X Stems -> SUBSET Exts] /\ sources' \subseteq Sessions
    BY <1>3 DEF Bundles, Recorded, InstallInv, TypeOK
  <2>2. TypeOK'
    BY <1>1, <1>3, <2>1, Counted DEF InstallInv, TypeOK, call, library, rollback, window
  <2>3. \A t \in Sessions : WithCompanions(t)' = WithCompanions(t) /\ Bundles(t)' = Bundles(t)
    BY <1>3 DEF WithCompanions, Bundles
  <2>4. StagedOK' /\ WellStaged'
    BY <1>3, <2>3 DEF InstallInv, TypeOK, StagedOK, WellStaged
  <2>5. pc # "idle" => session'[active] = session[active] /\ mods'[active] = mods[active]
    BY <1>1, <1>3, Running DEF InstallInv, TypeOK
  <2>6. CallOK' /\ Unchanged' /\ Undoable' /\ Held' /\ Housed' /\ Planned'
    BY <1>1, <1>3, <2>5, Running, CallFrame DEF library, rollback, window
  <2> QED BY <2>2, <2>4, <2>6 DEF InstallInv
<1> QED BY <1>2, <1>3 DEF Preview

LEMMA CancelInstallKeeps ==
  ASSUME InstallInv, NEW s \in Sessions, CancelInstall(s)
  PROVE  InstallInv'
<1>1. failures' \in Nat /\ foreign' \in Nat /\ sources' \subseteq sources
  BY Counted DEF CancelInstall
<1> QED BY <1>1, StagingFailsKeeps DEF CancelInstall

LEMMA ShutdownKeeps ==
  ASSUME InstallInv, Shutdown
  PROVE  InstallInv'
<1> USE DEF Shutdown, library
<1>1. /\ \A s \in Sessions : staged'[s] = Empty /\ session'[s] \in {"none", "removed"}
      /\ \A s \in Sessions : session[s] \in {"open", "removed"} => session'[s] = "removed"
      /\ \A x \in Staged : Empty[x] = None
  BY DEF Empty, InstallInv, TypeOK
<1>2. TypeOK'
  <2>1. /\ session' \in [Sessions -> {"none", "staging", "open", "removed"}]
        /\ staged' \in [Sessions -> [Staged -> File \cup {None}]]
    BY EmptyFiles DEF InstallInv, TypeOK, WellNamed
  <2>2. backup' \in [Slot -> Contents]
    BY DEF Contents
  <2> QED BY <2>1, <2>2, Counted DEF InstallInv, TypeOK, call
<1>3. \A s \in Sessions : WithCompanions(s)'
  BY <1>1 DEF WithCompanions, Staged, Areas, Exts
<1>4. StagedOK' /\ WellStaged'
  BY <1>1, <1>3 DEF StagedOK, WellStaged
<1>5. CallOK' /\ Unchanged' /\ Undoable' /\ Held' /\ Housed' /\ Planned'
  BY <1>1, Running, CallFrame
<1> QED BY <1>2, <1>4, <1>5 DEF InstallInv

LEMMA CancelContextKeeps ==
  ASSUME InstallInv, CancelContext
  PROVE  InstallInv'
<1> USE DEF CancelContext, library, rollback
<1>1. TypeOK'
  BY Counted DEF InstallInv, TypeOK, call, staging
<1>2. CallOK' /\ Unchanged' /\ Undoable' /\ Held' /\ Housed' /\ Planned'
  BY Running, CallFrame DEF staging
<1> QED BY <1>1, <1>2, StagingFrame DEF InstallInv

-----------------------------------------------------------------------------
(* The actions of a call. *)
LEMMA ApplyInstallKeeps ==
  ASSUME InstallInv, NEW s \in Sessions, ApplyInstall(s)
  PROVE  InstallInv'
<1> USE DEF ApplyInstall, library, window
<1>1. /\ items' \in Seq(Item) /\ active' = s /\ s # None /\ pc' \in {"encrypt", "clean"}
      /\ outcome' \in {"running", "refused"} /\ failures' \in Nat /\ foreign' \in Nat
  BY InstallAssumption, Counted
<1>2. before' \in [files : [Slot -> Contents], dirs : SUBSET Dirs] /\ before'.files = lib /\ before'.dirs = dirs
  BY DEF InstallInv, TypeOK
<1>3. TypeOK'
  <2>1. backup' \in [Slot -> Contents]
    BY DEF Contents
  <2> QED BY <1>1, <1>2, <2>1 DEF InstallInv, TypeOK, Steps
<1>4. StagedOK' /\ WellStaged'
  <2>1. \A t \in Sessions : WithCompanions(t)' = WithCompanions(t) /\ Bundles(t)' = Bundles(t)
    BY DEF WithCompanions, Bundles
  <2> QED BY <2>1 DEF InstallInv, StagedOK, WellStaged
<1>5. CallOK'
  BY <1>1 DEF CallOK
<1>6. Unchanged' /\ Undoable' /\ Held' /\ Planned'
  BY <1>1, <1>2 DEF Unchanged, Undoable, Held, Planned, Changing, Copying, Same, Others
<1>7. Housed'
  BY <1>1, <1>2 DEF InstallInv, Housed, Changing
<1> QED BY <1>3, <1>4, <1>5, <1>6, <1>7 DEF InstallInv

LEMMA EncryptKeeps ==
  ASSUME InstallInv, Encrypt
  PROVE  InstallInv'
<1> USE DEF Encrypt, library, rollback, window
<1>1. active \in Sessions /\ pc = "encrypt"
  BY Running
<1>2. CASE Refuse /\ UNCHANGED staged /\ (Works \/ Fails)
  <2>1. TypeOK'
    BY <1>2, Counted DEF Refuse, InstallInv, TypeOK, Steps
  <2>2. StagedOK' /\ WellStaged'
    BY <1>2, StagingFrame DEF staging
  <2>3. CallOK' /\ Unchanged' /\ Undoable' /\ Planned'
    BY <1>1, <1>2 DEF Refuse, InstallInv, CallOK, Unchanged, Undoable, Planned, Changing, Copying
  <2>4. Held' /\ Housed'
    BY <1>1, <1>2 DEF Refuse, InstallInv, Held, Housed, Changing, Same, Others
  <2> QED BY <2>1, <2>2, <2>3, <2>4 DEF InstallInv
<1>3. CASE /\ \A x \in WantedFiles : staged[active][x] # None
           /\ Works
           /\ staged' = [staged EXCEPT ![active] = [x \in Staged |->
                IF x \in WantedFiles THEN [staged[active][x] EXCEPT !.coded = TRUE] ELSE staged[active][x]]]
           /\ Goto("strip")
  <2> DEFINE old == staged[active]
             new == [x \in Staged |-> IF x \in WantedFiles THEN [old[x] EXCEPT !.coded = TRUE] ELSE old[x]]
  <2>1. old \in [Staged -> File \cup {None}] /\ WellNamed(old)
    BY <1>1 DEF InstallInv, TypeOK, WellStaged, WellNamed
  <2>2. staged'[active] = new /\ \A t \in Sessions \ {active} : staged'[t] = staged[t]
        /\ staged' = [staged EXCEPT ![active] = new]
    BY <1>1, <1>3 DEF InstallInv, TypeOK
  <2>3. ASSUME NEW x \in Staged
        PROVE  /\ new[x] \in File \cup {None} /\ (new[x] = None <=> old[x] = None)
               /\ new[x] # None => /\ new[x].from = old[x].from /\ new[x].stem = old[x].stem
                                   /\ new[x].ext = old[x].ext
               /\ x \in WantedFiles => new[x].coded
    <3>1. CASE x \in WantedFiles
      <4>1. old[x] \in File /\ new[x] = [old[x] EXCEPT !.coded = TRUE]
        BY <1>3, <2>1, <3>1
      <4>2. /\ new[x] \in File /\ new[x].from = old[x].from /\ new[x].stem = old[x].stem
            /\ new[x].ext = old[x].ext /\ new[x].coded
        BY <4>1 DEF File
      <4> QED BY <3>1, <4>1, <4>2, InstallAssumption
    <3>2. CASE x \notin WantedFiles
      BY <2>1, <3>2
    <3> QED BY <3>1, <3>2
  <2>4. WellNamed(new)
    <3>1. new \in [Staged -> File \cup {None}]
      BY <2>3
    <3> QED BY <2>1, <2>3, <3>1 DEF WellNamed
  <2> HIDE DEF new
  <2>5. TypeOK'
    <3>1. staged' \in [Sessions -> [Staged -> File \cup {None}]]
      BY <2>2, <2>4 DEF WellNamed, InstallInv, TypeOK
    <3> QED BY <1>3, <3>1, Counted DEF Goto, InstallInv, TypeOK, Steps
  <2>6. WellStaged'
    BY <1>1, <2>2, <2>4 DEF InstallInv, WellStaged, WellNamed
  <2>7. \A t \in {active} : WithCompanions(t)' /\ Bundles(t)' = Bundles(t)
    <3> SUFFICES ASSUME NEW t, t = active PROVE WithCompanions(t)' /\ Bundles(t)' = Bundles(t)
      OBVIOUS
    <3>1. \A a \in Areas, stem \in Stems, e \in Exts :
            LET x == <<a, stem, e>>
            IN /\ staged'[t][x] = None <=> staged[t][x] = None
               /\ staged'[t][x] # None => staged'[t][x].from = staged[t][x].from
      BY <2>2, <2>3 DEF Staged
    <3>2. WithCompanions(t)'
      <4>1. WithCompanions(t) /\ flagged' = flagged /\ unlisted' = unlisted
        BY <1>1 DEF InstallInv, StagedOK
      <4> SUFFICES ASSUME NEW stem \in Stems \ (flagged[t] \cup unlisted[t]),
                          staged'[t][<<"loose", stem, "pak">>] # None,
                          NEW e \in Exts, <<stem, e>> \in Holds[staged'[t][<<"loose", stem, "pak">>].from]
                   PROVE  staged'[t][<<"loose", stem, e>>] # None
        BY <4>1 DEF WithCompanions
      <4>2. "loose" \in Areas /\ "pak" \in Exts
        BY DEF Areas, Exts
      <4>3. /\ staged[t][<<"loose", stem, "pak">>] # None
            /\ staged'[t][<<"loose", stem, "pak">>].from = staged[t][<<"loose", stem, "pak">>].from
        BY <3>1, <4>2
      <4>4. staged[t][<<"loose", stem, e>>] # None
        BY <4>1, <4>3 DEF WithCompanions
      <4> QED BY <3>1, <4>2, <4>4
    <3>3. \A m \in Areas \X Stems, e \in Exts :
            staged'[t][<<m[1], m[2], e>>] = None <=> staged[t][<<m[1], m[2], e>>] = None
      BY <3>1
    <3>4. Bundles(t)' = Bundles(t)
      BY <3>3 DEF Bundles, Exts
    <3> QED BY <3>2, <3>4
  <2>8. ASSUME NEW t \in Sessions \ {active}
        PROVE  WithCompanions(t)' = WithCompanions(t) /\ Bundles(t)' = Bundles(t)
    <3>1. staged'[t] = staged[t]
      BY <2>2
    <3> QED BY <3>1 DEF WithCompanions, Bundles
  <2>9. StagedOK'
    BY <2>7, <2>8 DEF InstallInv, StagedOK
  <2>10. CallOK'
    <3>1. ASSUME NEW k \in DOMAIN items, items[k].encrypt, NEW e \in Bundle(items[k])
          PROVE  staged'[active][<<items[k].mod[1], items[k].mod[2], e>>].coded
      <4>1. <<items[k].mod[1], items[k].mod[2], e>> \in Staged
        BY <1>1, Running
      <4>2. <<items[k].mod[1], items[k].mod[2], e>> \in WantedFiles
        BY <3>1 DEF WantedFiles, Wanted
      <4> QED BY <2>2, <2>3, <4>1, <4>2
    <3> QED BY <1>1, <1>3, <3>1 DEF Goto, InstallInv, CallOK, Bundle
  <2>11. Unchanged' /\ Undoable' /\ Planned'
    BY <1>1, <1>3 DEF Goto, InstallInv, Unchanged, Undoable, Planned, Changing, Copying, Same, Others
  <2>12. Held' /\ Housed'
    BY <1>1, <1>3 DEF Goto, InstallInv, Held, Housed, Changing, Same, Others
  <2> QED BY <2>5, <2>6, <2>9, <2>10, <2>11, <2>12 DEF InstallInv
<1> QED BY <1>2, <1>3

LEMMA StripKeeps ==
  ASSUME InstallInv, Strip
  PROVE  InstallInv'
<1> USE DEF Strip, library, rollback, window, Goto, Refuse
<1>1. pc' \in {"plan", "clean"} /\ UNCHANGED <<active, items, plan, before>>
      /\ outcome' \in {outcome, "refused"} /\ (Works \/ Fails)
  OBVIOUS
<1>2. TypeOK'
  BY <1>1, Counted DEF InstallInv, TypeOK, Steps, staging
<1>3. CallOK' /\ Unchanged' /\ Undoable' /\ Planned'
  BY <1>1 DEF InstallInv, CallOK, Unchanged, Undoable, Planned, Changing, Copying, Bundle, staging, Same, Others
<1>4. Held' /\ Housed'
  BY <1>1 DEF InstallInv, Held, Housed, Changing, Same, Others
<1> QED BY <1>2, <1>3, <1>4, StagingFrame DEF InstallInv

-----------------------------------------------------------------------------
(* The moves of a plan. *)
LEMMA OneIsNext ==
  ASSUME InstallInv, NEW m \in plan, NEW n \in plan, IsNext(m), IsNext(n)
  PROVE  m = n
<1> SUFFICES ASSUME m # n PROVE FALSE
  OBVIOUS
<1>1. m \in Move /\ n \in Move
  BY DEF InstallInv, TypeOK
<1>2. m.item \in Nat /\ n.item \in Nat /\ Rank[m.ext] \in Nat /\ Rank[n.ext] \in Nat
  BY <1>1 DEF Move, Rank, Exts
<1>3. m.item < n.item \/ (m.item = n.item /\ Rank[m.ext] < Rank[n.ext])
  BY DEF IsNext
<1>4. n.item < m.item \/ (n.item = m.item /\ Rank[n.ext] < Rank[m.ext])
  BY DEF IsNext
<1> HIDE DEF Rank
<1> QED BY <1>2, <1>3, <1>4

LEMMA MoveOK ==
  ASSUME InstallInv, Copying, NEW m \in plan
  PROVE  /\ m \in Move /\ m.item \in DOMAIN items /\ m.ext \in Exts /\ m.ext \in Bundle(items[m.item])
         /\ To(m) = <<items[m.item].to, m.ext>> /\ To(m) \in Slot
         /\ From(m) \in Staged /\ From(m)[2] = items[m.item].mod[2] /\ From(m)[3] = m.ext
<1>1. m \in Move /\ m.item \in DOMAIN items /\ m.ext \in Bundle(items[m.item])
  BY DEF InstallInv, TypeOK, Planned
<1>2. pc # "idle"
  BY DEF Copying
<1>3. m.ext \in Exts
  BY <1>1, <1>2, Running
<1> QED BY <1>1, <1>2, <1>3, Running DEF To, From

(* A step of the call that refuses before anything is changed. *)
LEMMA RefuseKeeps ==
  ASSUME InstallInv, pc \in {"strip", "plan"}, Refuse, Works \/ Fails,
         UNCHANGED <<staging, library, rollback, window, touched>>
  PROVE  InstallInv'
<1> USE DEF Refuse, library, rollback, window
<1>1. TypeOK'
  BY Counted DEF InstallInv, TypeOK, Steps, staging
<1>2. CallOK' /\ Unchanged' /\ Undoable' /\ Planned'
  BY DEF InstallInv, CallOK, Unchanged, Undoable, Planned, Changing, Copying, staging
<1>3. Held' /\ Housed'
  BY DEF InstallInv, Held, Housed, Changing, Same, Others
<1> QED BY <1>1, <1>2, <1>3, StagingFrame DEF InstallInv

LEMMA PlanKeeps ==
  ASSUME InstallInv, Plan
  PROVE  InstallInv'
<1>1. CASE Refuse /\ (Works \/ Fails)
  BY <1>1, RefuseKeeps DEF Plan
<1>2. CASE /\ CanPlan /\ Works
           /\ plan' = Moves /\ pc' = "prepare"
           /\ UNCHANGED <<active, items, outcome, before>>
  <2> USE <1>2 DEF library, rollback, window
  <2>1. pc = "plan" /\ UNCHANGED <<staging, library, rollback, window, touched>>
    BY DEF Plan
  <2>2. /\ \A x \in Others : Same(x)
        /\ dirs = before.dirs /\ created = {} /\ saved = {} /\ madeDirs = {} /\ ~stuck
    BY <2>1 DEF InstallInv, Unchanged
  <2>3. \A k \in DOMAIN items : \A e \in Bundle(items[k]) : e \in Exts /\ <<items[k].to, e>> \in Slot
    BY <2>1, Running
  <2>4. DOMAIN items \subseteq Nat
    <3>1. items \in Seq(Item)
      BY DEF InstallInv, TypeOK
    <3> QED BY <3>1
  <2>5. ASSUME NEW m \in Moves
        PROVE  /\ m \in Move /\ m.item \in DOMAIN items /\ m.ext \in Bundle(items[m.item])
               /\ m.replace <=> lib[To(m)] # None
               /\ To(m) \in Slot
    <3>1. PICK k \in DOMAIN items : \E e \in Bundle(items[k]) :
                 m = [item |-> k, ext |-> e, replace |-> lib[<<items[k].to, e>>] # None]
      BY DEF Moves
    <3>2. PICK e \in Bundle(items[k]) : m = [item |-> k, ext |-> e, replace |-> lib[<<items[k].to, e>>] # None]
      BY <3>1
    <3>3. m.item = k /\ m.ext = e /\ (m.replace <=> lib[<<items[k].to, e>>] # None)
      BY <3>2
    <3>4. m \in Move
      BY <2>3, <2>4, <3>2 DEF Move
    <3> QED BY <2>3, <3>3, <3>4 DEF To
  <2>6. ASSUME NEW k \in DOMAIN items, NEW e \in Bundle(items[k])
        PROVE  \E m \in Moves : m.item = k /\ m.ext = e /\ To(m) = <<items[k].to, e>>
    <3> DEFINE m == [item |-> k, ext |-> e, replace |-> lib[<<items[k].to, e>>] # None]
    <3>1. m \in Moves /\ m.item = k /\ m.ext = e /\ To(m) = <<items[k].to, e>>
      BY DEF Moves, To
    <3> QED BY <3>1
  <2>7. TypeOK'
    BY <2>1, <2>5, Counted DEF InstallInv, TypeOK, Steps, staging
  <2>8. CallOK' /\ Unchanged' /\ Undoable'
    BY <2>1, <2>2 DEF InstallInv, CallOK, Unchanged, Undoable, Changing, Same, Others, Bundle, staging
  <2>9. Held' /\ Housed'
    BY <2>1, <2>2 DEF InstallInv, Held, Housed, Changing, Same, Others
  <2>10. Planned'
    <3>1. \A k : Bundle(items[k])' = Bundle(items[k])
      BY <2>1 DEF Bundle, staging
    <3>2. \A m : To(m)' = To(m)
      BY DEF To
    <3>3. \A m \in Moves : To(m) \notin touched => (m.replace <=> before.files[To(m)] # None)
      BY <2>2, <2>5 DEF Others, Same
    <3>4. \A m, n \in Moves : To(m) = To(n) => m = n
      BY DEF CanPlan
    <3>5. \A j, k \in DOMAIN items : \A e \in Bundle(items[j]) \cap Bundle(items[k]) :
            items[j].to = items[k].to => j = k
      <4> SUFFICES ASSUME NEW j \in DOMAIN items, NEW k \in DOMAIN items,
                          NEW e \in Bundle(items[j]) \cap Bundle(items[k]), items[j].to = items[k].to
                   PROVE  j = k
        OBVIOUS
      <4>1. PICK m \in Moves : m.item = j /\ To(m) = <<items[j].to, e>>
        BY <2>6
      <4>2. PICK n \in Moves : n.item = k /\ To(n) = <<items[k].to, e>>
        BY <2>6
      <4> QED BY <3>4, <4>1, <4>2
    <3>6. Reached' = {}
      BY <2>1, <2>2 DEF Reached
    <3> QED BY <2>1, <2>5, <2>6, <3>1, <3>2, <3>3, <3>4, <3>5, <3>6 DEF Planned, Copying
  <2> QED BY <2>1, <2>7, <2>8, <2>9, <2>10, StagingFrame DEF InstallInv
<1> QED BY <1>1, <1>2 DEF Plan

(* A step that leaves the plan for the rollback keeps what is said of the  *)
(* call if the library changes at a place the plan has reached only.       *)
LEMMA GiveUp ==
  ASSUME InstallInv, Copying, Goto("undo"), Works \/ Fails,
         UNCHANGED <<staging, dirs, backup, created, saved, stuck, window, touched>>,
         madeDirs \subseteq madeDirs', madeDirs' \subseteq Dirs, madeDirs' \cap dirs \subseteq madeDirs,
         NEW x \in Slot, NEW half \in Contents, lib' = [lib EXCEPT ![x] = half],
         lib[x] = half \/ x \in created \cup saved
  PROVE  InstallInv'
<1> USE DEF Goto, window
<1>1. \A y \in Slot : y # x => lib'[y] = lib[y]
  BY DEF InstallInv, TypeOK
<1>2. \A y \in Slot \ (created \cup saved) : lib'[y] = lib[y]
  BY <1>1 DEF InstallInv, TypeOK
<1>3. TypeOK'
  <2>1. lib' \in [Slot -> Contents]
    BY DEF InstallInv, TypeOK
  <2> QED BY <2>1, Counted DEF InstallInv, TypeOK, Steps, staging
<1>4. CallOK' /\ Unchanged' /\ Planned'
  BY DEF InstallInv, CallOK, Unchanged, Planned, Copying, staging
<1>5. Undoable'
  BY <1>2 DEF InstallInv, Undoable, Changing, Copying, Same, Others
<1>6. Held'
  BY <1>2 DEF InstallInv, Held, Undoable, Changing, Copying, Same, Others
<1>7. Housed'
  <2>1. \A y \in Slot : lib'[y] # None => lib[y] # None \/ y \in created \cup saved
    BY <1>2
  <2> QED BY <2>1 DEF InstallInv, Housed, Changing, Copying
<1> QED BY <1>3, <1>4, <1>5, <1>6, <1>7, StagingFrame DEF InstallInv

LEMMA PrepareMoveKeeps ==
  ASSUME InstallInv, PrepareMove
  PROVE  InstallInv'
<1>1. pc = "prepare" /\ Copying /\ Changing /\ pc # "idle"
      /\ UNCHANGED <<staging, lib, stuck, window, touched>>
  BY DEF PrepareMove, Copying, Changing
<1>2. PICK m \in plan : IsNext(m) /\
        LET x == To(m)  dir == FolderOf[x[1]]
        IN \/ /\ ~cancelled
              /\ madeDirs' = IF dir \in dirs THEN madeDirs ELSE madeDirs \cup {dir}
              /\ \/ /\ Works
                    /\ m.replace => lib[x] # None
                    /\ dirs' = dirs \cup {dir}
                    /\ IF m.replace
                       THEN /\ backup' = [backup EXCEPT ![x] = lib[x]] /\ saved' = saved \cup {x}
                            /\ UNCHANGED created
                       ELSE created' = created \cup {x} /\ UNCHANGED <<backup, saved>>
                    /\ Goto("copy")
                 \/ /\ m.replace /\ lib[x] = None /\ Works
                    /\ dirs' = dirs \cup {dir} /\ Goto("undo")
                    /\ UNCHANGED <<backup, saved, created>>
                 \/ Fails /\ Goto("undo") /\ UNCHANGED <<dirs, backup, saved, created>>
           \/ cancelled /\ Works /\ Goto("undo") /\ UNCHANGED <<madeDirs, dirs, backup, saved, created>>
  BY DEF PrepareMove
<1> DEFINE x == To(m)
           dir == FolderOf[x[1]]
<1>3. x \in Slot /\ x[1] \in Names /\ dir \in Dirs /\ x \notin created \cup saved
  <2>1. x \in Slot
    BY <1>1, MoveOK
  <2>2. x \notin created \cup saved
    BY <1>1 DEF InstallInv, Planned, Reached
  <2> QED BY <2>1, <2>2 DEF Slot, Dirs
<1> HIDE DEF x, dir
<1>4. CASE /\ Goto("undo") /\ (Works \/ Fails) /\ UNCHANGED <<backup, saved, created>>
           /\ \/ UNCHANGED <<dirs, madeDirs>>
              \/ /\ madeDirs' = IF dir \in dirs THEN madeDirs ELSE madeDirs \cup {dir}
                 /\ dirs' \in {dirs, dirs \cup {dir}}
  <2> USE <1>1, <1>4 DEF Goto, window
  <2>1. TypeOK'
    <3>1. dirs' \subseteq Dirs /\ madeDirs' \subseteq Dirs
      BY <1>3 DEF InstallInv, TypeOK
    <3>2. failures' \in Nat /\ foreign' \in Nat
      BY Counted
    <3> QED BY <3>1, <3>2 DEF InstallInv, TypeOK, Steps, staging
  <2>2. CallOK' /\ Unchanged' /\ Planned'
    BY DEF InstallInv, CallOK, Unchanged, Planned, Copying, staging
  <2>3. /\ dirs \subseteq dirs' /\ dirs' \subseteq before.dirs \cup madeDirs'
        /\ before.dirs \subseteq dirs' \ madeDirs'
    BY DEF InstallInv, Undoable
  <2>4. Undoable'
    BY <2>3 DEF InstallInv, Undoable, Changing, Same, Others
  <2>5. Held' /\ Housed'
    BY <2>3 DEF InstallInv, Held, Housed, Changing, Same, Others
  <2> QED BY <2>1, <2>2, <2>4, <2>5, StagingFrame DEF InstallInv
<1>5. CASE /\ madeDirs' = IF dir \in dirs THEN madeDirs ELSE madeDirs \cup {dir}
           /\ Works
           /\ m.replace => lib[x] # None
           /\ dirs' = dirs \cup {dir}
           /\ IF m.replace
              THEN /\ backup' = [backup EXCEPT ![x] = lib[x]] /\ saved' = saved \cup {x}
                   /\ UNCHANGED created
              ELSE created' = created \cup {x} /\ UNCHANGED <<backup, saved>>
           /\ Goto("copy")
  <2> USE <1>1, <1>5 DEF Goto, window
  <2>1. /\ created' \cup saved' = created \cup saved \cup {x}
        /\ \A y \in Slot \ {x} : /\ backup'[y] = backup[y]
                                 /\ y \in created' => y \in created
                                 /\ y \in saved' => y \in saved
        /\ backup' \in [Slot -> Contents] /\ created' \subseteq Slot /\ saved' \subseteq Slot
    <3>1. backup \in [Slot -> Contents] /\ lib \in [Slot -> Contents] /\ created \subseteq Slot /\ saved \subseteq Slot
      BY DEF InstallInv, TypeOK
    <3>2. CASE m.replace
      BY <1>3, <3>1, <3>2
    <3>3. CASE ~m.replace
      BY <1>3, <3>1, <3>3
    <3> QED BY <3>2, <3>3
  <2>2. TypeOK'
    BY <1>3, <2>1, Counted DEF InstallInv, TypeOK, Steps, staging
  <2>3. x \in Others => /\ Same(x)
                        /\ x \in created' => before.files[x] = None
                        /\ x \in saved' => backup'[x] = before.files[x]
    <3> SUFFICES ASSUME x \in Others
                 PROVE  /\ Same(x)
                        /\ x \in created' => before.files[x] = None
                        /\ x \in saved' => backup'[x] = before.files[x]
      OBVIOUS
    <3>1. Same(x)
      BY <1>3 DEF InstallInv, Undoable
    <3>2. m.replace <=> before.files[x] # None
      BY DEF InstallInv, Planned, Others, x
    <3>3. x \in saved' => m.replace
      BY <1>3
    <3>4. x \in created' => ~m.replace
      BY <1>3
    <3>5. m.replace => backup'[x] = lib[x]
      BY <1>3 DEF InstallInv, TypeOK
    <3> QED BY <3>1, <3>2, <3>3, <3>4, <3>5 DEF Same
  <2>4. CallOK' /\ Unchanged'
    BY DEF InstallInv, CallOK, Unchanged, Bundle, staging
  <2>5. Undoable'
    <3>1. /\ dirs' \subseteq before.dirs \cup madeDirs' /\ ~stuck
          /\ before.dirs \subseteq dirs' \ madeDirs'
      BY DEF InstallInv, Undoable
    <3>2. ASSUME NEW y \in Others
          PROVE  /\ stuck \/ Same(y) \/ y \in created' \cup saved'
                 /\ y \in created' => before.files[y] = None
                 /\ y \in saved' => backup'[y] = before.files[y] \/ (closing /\ backup'[y] = None)
      BY <2>1, <2>3 DEF InstallInv, Undoable, Others
    <3> QED BY <3>1, <3>2 DEF Undoable, Changing, Same, Others
  <2>6. Held'
    BY <2>1, <2>3 DEF InstallInv, Held, Same, Others
  <2>7. Housed'
    BY <2>1, dir = FolderOf[x[1]] DEF InstallInv, Housed, Changing, dir
  <2>8. Planned'
    <3>1. \A k : Bundle(items[k])' = Bundle(items[k])
      BY DEF Bundle, staging
    <3>2. \A n : To(n)' = To(n) /\ IsNext(n)' = IsNext(n)
      BY DEF To, IsNext
    <3>3. \A k, e : Arrived(k, e)' = Arrived(k, e)
      BY DEF Arrived
    <3>4. ASSUME NEW n \in plan PROVE To(n) \in Reached' <=> IsNext(n)
      <4>1. To(n) \notin created \cup saved
        BY DEF InstallInv, Planned, Copying, Reached
      <4>2. To(n) \in Reached' <=> To(n) = x
        BY <2>1, <4>1 DEF Reached
      <4>3. To(n) = x <=> n = m
        BY DEF x, InstallInv, Planned
      <4>4. IsNext(n) <=> n = m
        BY <1>2, OneIsNext
      <4> QED BY <4>2, <4>3, <4>4
    <3> QED BY <3>1, <3>2, <3>3, <3>4 DEF InstallInv, Planned, Copying
  <2> QED BY <2>2, <2>4, <2>5, <2>6, <2>7, <2>8, StagingFrame DEF InstallInv
<1> QED BY <1>2, <1>4, <1>5 DEF x, dir

LEMMA CopyKeeps ==
  ASSUME InstallInv, Copy
  PROVE  InstallInv'
<1>1. pc = "copy" /\ Copying /\ Changing /\ pc # "idle"
      /\ UNCHANGED <<staging, dirs, rollback, window, touched>>
  BY DEF Copy, Copying, Changing
<1>2. PICK m \in plan : IsNext(m) /\
        LET file == staged[active][From(m)]
        IN \/ /\ file # None /\ Works
              /\ lib' = [lib EXCEPT ![To(m)] = file]
              /\ plan' = plan \ {m} /\ pc' = "prepare"
              /\ UNCHANGED <<active, items, outcome, before>>
           \/ CopyTo(To(m), file) /\ Goto("undo")
  BY DEF Copy
<1> DEFINE x == To(m)
           file == staged[active][From(m)]
<1>3. /\ x \in Slot /\ x \in created \cup saved /\ file \in File \cup {None}
      /\ m.item \in DOMAIN items /\ m.ext \in Bundle(items[m.item]) /\ x = <<items[m.item].to, m.ext>>
      /\ file # None => file.stem = items[m.item].mod[2] /\ file.ext = m.ext
  <2>1. x \in Slot /\ From(m) \in Staged /\ active \in Sessions
        /\ From(m)[2] = items[m.item].mod[2] /\ From(m)[3] = m.ext
        /\ m.item \in DOMAIN items /\ m.ext \in Bundle(items[m.item]) /\ x = <<items[m.item].to, m.ext>>
    BY <1>1, MoveOK, Running
  <2>2. x \in created \cup saved
    BY <1>1, <1>2 DEF InstallInv, Planned, Reached
  <2> QED BY <2>1, <2>2 DEF InstallInv, TypeOK, WellStaged
<1>4. CASE CopyTo(x, file) /\ Goto("undo")
  <2>1. PICK half \in Contents : lib' = [lib EXCEPT ![x] = half]
    BY <1>3, <1>4 DEF CopyTo, InstallInv, TypeOK, Contents
  <2>2. Works \/ Fails
    BY <1>4 DEF CopyTo
  <2> QED BY <1>1, <1>3, <1>4, <2>1, <2>2, GiveUp DEF rollback, InstallInv, TypeOK
<1>5. CASE /\ file # None /\ Works
           /\ lib' = [lib EXCEPT ![x] = file]
           /\ plan' = plan \ {m} /\ pc' = "prepare"
           /\ UNCHANGED <<active, items, outcome, before>>
  <2> HIDE DEF x, file
  <2> USE <1>1, <1>5 DEF rollback, window
  <2>1. lib'[x] = file /\ lib' \in [Slot -> Contents] /\ \A y \in Slot \ {x} : lib'[y] = lib[y]
    BY <1>3 DEF InstallInv, TypeOK, Contents
  <2>2. TypeOK'
    BY <2>1, Counted DEF InstallInv, TypeOK, Steps, staging
  <2>3. CallOK' /\ Unchanged'
    BY DEF InstallInv, CallOK, Unchanged, Bundle, staging
  <2>4. Undoable'
    BY <1>3, <2>1 DEF InstallInv, Undoable, Changing, Same, Others
  <2>5. Held'
    BY <1>3, <2>1 DEF InstallInv, Held, Undoable, Same, Others
  <2>6. Housed'
    BY <1>3, <2>1 DEF InstallInv, Housed, Changing
  <2>7. Planned'
    <3>1. \A k : Bundle(items[k])' = Bundle(items[k])
      BY DEF Bundle, staging
    <3>2. \A n : To(n)' = To(n)
      BY DEF To
    <3>3. Planned
      BY DEF InstallInv
    <3>4. ASSUME NEW n \in plan \ {m} PROVE To(n) \notin Reached'
      <4>1. ~IsNext(n)
        BY <1>2, OneIsNext
      <4> QED BY <3>3, <4>1 DEF Planned, Reached
    <3>5. ASSUME NEW k \in DOMAIN items, NEW e \in Bundle(items[k])
          PROVE  (\E n \in plan \ {m} : n.item = k /\ n.ext = e) \/ Arrived(k, e)'
      <4>1. CASE <<items[k].to, e>> = x
        <5>1. k = m.item /\ e = m.ext
          BY <1>3, <3>3, <4>1 DEF Planned
        <5>2. file \in File /\ file.stem = items[k].mod[2] /\ file.ext = e
          BY <1>3, <5>1
        <5>3. items[k].encrypt => file.coded
          BY <5>1 DEF InstallInv, CallOK, file, From
        <5> QED BY <2>1, <4>1, <5>2, <5>3 DEF Arrived
      <4>2. CASE <<items[k].to, e>> # x
        <5>1. <<items[k].to, e>> \in Slot
          BY Running
        <5>2. lib'[<<items[k].to, e>>] = lib[<<items[k].to, e>>]
          BY <2>1, <4>2, <5>1
        <5>3. Arrived(k, e) => Arrived(k, e)'
          BY <5>2 DEF Arrived
        <5>4. ~(k = m.item /\ e = m.ext)
          BY <1>3, <4>2
        <5> QED BY <3>3, <5>3, <5>4 DEF Planned
      <4> QED BY <4>1, <4>2
    <3> QED BY <3>1, <3>2, <3>3, <3>4, <3>5 DEF Planned, Copying
  <2> QED BY <2>2, <2>3, <2>4, <2>5, <2>6, <2>7, StagingFrame DEF InstallInv
<1> QED BY <1>2, <1>4, <1>5

(* A step of the rollback that gives one place back, or gives up on it. *)
LEMMA TakeBack ==
  ASSUME InstallInv, pc = "undo", NEW x \in created \cup saved, NEW content \in Contents,
         lib' = [lib EXCEPT ![x] = content], Works \/ Fails,
         UNCHANGED <<staging, dirs, call, backup, madeDirs, window, touched>>,
         created' \subseteq created, saved' \subseteq saved,
         created \cup saved \subseteq created' \cup saved' \cup {x},
         stuck' \in BOOLEAN, stuck => stuck',
         x \in Others => stuck' \/ content = before.files[x]
  PROVE  InstallInv'
<1> USE DEF call, window
<1>1. x \in Slot /\ Changing
  BY DEF InstallInv, TypeOK, Changing
<1>2. lib'[x] = content /\ lib' \in [Slot -> Contents] /\ \A y \in Slot \ {x} : lib'[y] = lib[y]
  BY <1>1 DEF InstallInv, TypeOK
<1>3. TypeOK'
  BY <1>2, Counted DEF InstallInv, TypeOK, staging
<1>4. CallOK' /\ Unchanged' /\ Planned'
  BY DEF InstallInv, CallOK, Unchanged, Planned, Copying, Bundle, staging
<1>5. Undoable'
  <2>1. ASSUME NEW y \in Others
        PROVE  /\ stuck' \/ lib'[y] = before.files[y] \/ y \in created' \cup saved'
               /\ y \in created' => before.files[y] = None
               /\ y \in saved' => backup[y] = before.files[y] \/ (closing /\ backup[y] = None)
    <3>1. /\ stuck \/ Same(y) \/ y \in created \cup saved
          /\ y \in created => before.files[y] = None
          /\ y \in saved => backup[y] = before.files[y] \/ (closing /\ backup[y] = None)
      BY <1>1 DEF InstallInv, Undoable
    <3>2. CASE y = x
      BY <1>2, <2>1, <3>1, <3>2 DEF Same
    <3>3. CASE y # x
      BY <1>2, <2>1, <3>1, <3>3 DEF Same, Others
    <3> QED BY <3>2, <3>3
  <2>2. dirs' \subseteq before.dirs \cup madeDirs' /\ before.dirs \subseteq dirs' \ madeDirs'
    BY <1>1 DEF InstallInv, Undoable
  <2> QED BY <2>1, <2>2 DEF Undoable, Changing, Same, Others
<1>6. Held'
  BY <1>1, <1>2 DEF InstallInv, Held, Undoable, Same, Others
<1>7. Housed'
  BY <1>1, <1>2 DEF InstallInv, Housed, Changing
<1> QED BY <1>3, <1>4, <1>5, <1>6, <1>7, StagingFrame DEF InstallInv

LEMMA RemoveCreatedKeeps ==
  ASSUME InstallInv, RemoveCreated
  PROVE  InstallInv'
<1>1. /\ pc = "undo" /\ Changing
      /\ UNCHANGED <<staging, dirs, call, backup, saved, madeDirs, window, touched>>
  BY DEF RemoveCreated, Changing
<1>2. PICK x \in created :
       /\ created' = created \ {x}
       /\ \/ Works /\ lib' = [lib EXCEPT ![x] = None] /\ UNCHANGED stuck
          \/ lib[x] # None /\ Fails /\ stuck' = TRUE /\ UNCHANGED lib
  BY DEF RemoveCreated
<1>3. x \in Slot /\ lib \in [Slot -> Contents] /\ stuck \in BOOLEAN
  BY DEF InstallInv, TypeOK
<1>4. x \in Others => before.files[x] = None
  BY <1>1, <1>2 DEF InstallInv, Undoable
<1>5. PICK content \in Contents : /\ lib' = [lib EXCEPT ![x] = content]
                                  /\ stuck' \/ content = None
  BY <1>2, <1>3 DEF Contents
<1>6. /\ x \in created \cup saved /\ (Works \/ Fails)
      /\ created' \subseteq created /\ saved' \subseteq saved
      /\ created \cup saved \subseteq created' \cup saved' \cup {x}
      /\ stuck' \in BOOLEAN /\ (stuck => stuck')
      /\ x \in Others => stuck' \/ content = before.files[x]
  BY <1>1, <1>2, <1>3, <1>4, <1>5
<1> QED BY <1>1, <1>5, <1>6, TakeBack

LEMMA ReturnBackupKeeps ==
  ASSUME InstallInv, ReturnBackup
  PROVE  InstallInv'
<1>1. /\ pc = "undo" /\ Changing
      /\ UNCHANGED <<staging, dirs, call, backup, created, madeDirs, window, touched>>
  BY DEF ReturnBackup, Changing
<1>2. PICK x \in saved :
       /\ saved' = saved \ {x}
       /\ \/ backup[x] # None /\ Works /\ lib' = [lib EXCEPT ![x] = backup[x]] /\ UNCHANGED stuck
          \/ CopyTo(x, backup[x]) /\ stuck' = TRUE
  BY DEF ReturnBackup
<1>3. x \in Slot /\ lib \in [Slot -> Contents] /\ backup[x] \in Contents /\ stuck \in BOOLEAN
  BY DEF InstallInv, TypeOK
<1>4. x \in Others /\ backup[x] # None => backup[x] = before.files[x]
  BY <1>1, <1>2 DEF InstallInv, Undoable
<1>5. PICK content \in Contents : /\ lib' = [lib EXCEPT ![x] = content]
                                  /\ stuck' \/ (content = backup[x] /\ backup[x] # None)
  BY <1>2, <1>3 DEF CopyTo, Contents
<1>6. /\ x \in created \cup saved /\ (Works \/ Fails)
      /\ created' \subseteq created /\ saved' \subseteq saved
      /\ created \cup saved \subseteq created' \cup saved' \cup {x}
      /\ stuck' \in BOOLEAN /\ (stuck => stuck')
      /\ x \in Others => stuck' \/ content = before.files[x]
  BY <1>1, <1>2, <1>3, <1>4, <1>5 DEF CopyTo
<1> QED BY <1>1, <1>5, <1>6, TakeBack

LEMMA EndRollbackKeeps ==
  ASSUME InstallInv, EndRollback
  PROVE  InstallInv'
<1> USE DEF EndRollback, rollback, window
<1>1. TypeOK'
  BY Counted DEF InstallInv, TypeOK, Steps, staging
<1>2. CallOK' /\ Unchanged' /\ Undoable' /\ Planned'
  BY DEF InstallInv, CallOK, Unchanged, Undoable, Planned, Changing, Copying, staging
<1>3. Held'
  BY DEF InstallInv, Held, Same, Others
<1>4. Housed'
  BY DEF InstallInv, Housed, Changing
<1> QED BY <1>1, <1>2, <1>3, <1>4, StagingFrame DEF InstallInv

LEMMA RescanKeeps ==
  ASSUME InstallInv, Rescan
  PROVE  InstallInv'
<1> USE DEF Rescan, library, rollback, window
<1>1. TypeOK'
  BY Counted DEF InstallInv, TypeOK, Steps, staging
<1>2. CallOK' /\ Unchanged' /\ Undoable' /\ Planned'
  BY DEF InstallInv, CallOK, Unchanged, Undoable, Planned, Changing, Copying, staging
<1>3. Held' /\ Housed'
  BY DEF InstallInv, Held, Housed, Changing, Same, Others
<1> QED BY <1>1, <1>2, <1>3, StagingFrame DEF InstallInv

LEMMA CleanKeeps ==
  ASSUME InstallInv, Clean
  PROVE  InstallInv'
<1> USE DEF Clean, library, window
<1>1. active \in Sessions
  BY Running
<1>2. StagedOK' /\ WellStaged' /\ session' \in [Sessions -> {"none", "staging", "open", "removed"}]
      /\ staged' \in [Sessions -> [Staged -> File \cup {None}]]
  BY <1>1, Removal
<1>3. TypeOK'
  <2>1. backup' \in [Slot -> Contents]
    BY DEF Contents
  <2> QED BY <1>2, <2>1, Counted DEF InstallInv, TypeOK, Steps
<1>4. CallOK' /\ Unchanged' /\ Undoable' /\ Held' /\ Planned'
  BY DEF CallOK, Unchanged, Undoable, Held, Planned, Changing, Copying
<1>5. Housed'
  BY DEF InstallInv, Housed, Changing
<1> QED BY <1>2, <1>3, <1>4, <1>5 DEF InstallInv

LEMMA OtherProgramKeeps ==
  ASSUME InstallInv, OtherProgram
  PROVE  InstallInv'
<1>1. UNCHANGED <<staging, dirs, rollback, call, window, failures>> /\ foreign' = foreign + 1
  BY DEF OtherProgram
<1>2. PICK x \in Slot : \E content \in {None, Foreign} :
       /\ FolderOf[x[1]] \in dirs /\ lib' = [lib EXCEPT ![x] = content] /\ touched' = touched \cup {x}
  BY DEF OtherProgram
<1>3. /\ lib' \in [Slot -> Contents] /\ \A y \in Slot \ {x} : lib'[y] = lib[y]
      /\ FolderOf[x[1]] \in dirs /\ touched' = touched \cup {x}
  BY <1>2 DEF InstallInv, TypeOK, Contents
<1> USE <1>1 DEF rollback, call, window
<1>4. TypeOK'
  <2>1. touched' \subseteq Slot /\ foreign' \in Nat
    BY <1>1, <1>3 DEF InstallInv, TypeOK
  <2> QED BY <1>3, <2>1 DEF InstallInv, TypeOK, staging
<1>5. CallOK'
  BY DEF InstallInv, CallOK, Bundle, staging
<1>6. \A y \in Others' : y \in Others /\ lib'[y] = lib[y]
  BY <1>3 DEF Others
<1>7. Unchanged' /\ Undoable' /\ Held'
  BY <1>6 DEF InstallInv, Unchanged, Undoable, Held, Changing, Same
<1>8. Housed'
  BY <1>3 DEF InstallInv, Housed, Changing
<1>9. Planned'
  <2>1. \A k : Bundle(items[k])' = Bundle(items[k])
    BY DEF Bundle, staging
  <2>2. \A n : To(n)' = To(n) /\ IsNext(n)' = IsNext(n)
    BY DEF To, IsNext
  <2>3. Reached' = Reached
    BY DEF Reached
  <2>4. ASSUME Copying, NEW k \in DOMAIN items, NEW e \in Bundle(items[k]), Arrived(k, e)
        PROVE  Arrived(k, e)'
    <3>1. <<items[k].to, e>> \in Slot
      BY <2>4, Running DEF Copying
    <3> QED BY <1>3, <2>4, <3>1 DEF Arrived
  <2> QED BY <1>3, <2>1, <2>2, <2>3, <2>4 DEF InstallInv, Planned, Copying
<1> QED BY <1>4, <1>5, <1>7, <1>8, <1>9, StagingFrame DEF InstallInv

-----------------------------------------------------------------------------
LEMMA StepInstall == InstallInv /\ [Next]_vars => InstallInv'
<1> SUFFICES ASSUME InstallInv, [Next]_vars PROVE InstallInv'
  OBVIOUS
<1>1. CASE UNCHANGED vars
  <2> USE <1>1 DEF vars, library, rollback, call, window, bounds
  <2>1. TypeOK'
    BY DEF InstallInv, TypeOK, staging
  <2>2. CallOK' /\ Unchanged' /\ Undoable' /\ Held' /\ Housed' /\ Planned'
    BY Running, CallFrame DEF staging
  <2> QED BY <2>1, <2>2, StagingFrame DEF InstallInv
<1>2. ASSUME NEW s \in Sessions,
             CreateSession(s) \/ StageNext(s) \/ Preview(s) \/ CancelInstall(s) \/ ApplyInstall(s)
      PROVE  InstallInv'
  BY <1>2, CreateSessionKeeps, StageNextKeeps, PreviewKeeps, CancelInstallKeeps, ApplyInstallKeeps
<1>3. CASE Encrypt \/ Plan \/ PrepareMove \/ Copy
  BY <1>3, EncryptKeeps, PlanKeeps, PrepareMoveKeeps, CopyKeeps
<1>4. CASE Strip \/ RemoveCreated \/ ReturnBackup \/ EndRollback \/ Rescan \/ Clean
  BY <1>4, StripKeeps, RemoveCreatedKeeps, ReturnBackupKeeps, EndRollbackKeeps, RescanKeeps, CleanKeeps
<1>5. CASE Shutdown \/ CancelContext \/ OtherProgram
  BY <1>5, ShutdownKeeps, CancelContextKeeps, OtherProgramKeeps
<1> QED BY <1>1, <1>2, <1>3, <1>4, <1>5 DEF Next

LEMMA InstallInvHolds == Spec => []InstallInv
<1> QED BY InitInstall, StepInstall, PTL DEF Spec

(* The variables keep their types: in particular every file in a staging   *)
(* directory comes from a selected archive or folder, and each change of   *)
(* the library is at a destination.                                        *)
THEOREM InstallTypeCorrect == Spec => []TypeOK
<1>1. InstallInv => TypeOK
  BY DEF InstallInv
<1> QED BY <1>1, InstallInvHolds, PTL

(* A staged loose bundle without an issue is offered with every companion  *)
(* that stood beside its primary (StageFiles, discoverStagedMods).         *)
THEOREM StagedIsComplete == Spec => []StagedComplete
<1>1. InstallInv => StagedComplete
  <2> SUFFICES ASSUME InstallInv, NEW s \in Sessions, session[s] = "open",
                      NEW stem \in Stems \ (flagged[s] \cup unlisted[s]),
                      staged[s][<<"loose", stem, "pak">>] # None,
                      NEW e \in Exts, <<stem, e>> \in Holds[staged[s][<<"loose", stem, "pak">>].from]
               PROVE  e \in mods[s][<<"loose", stem>>]
    BY DEF StagedComplete
  <2>1. staged[s][<<"loose", stem, e>>] # None
    BY DEF InstallInv, StagedOK, WithCompanions
  <2>2. mods[s] = Bundles(s) /\ <<"loose", stem>> \in Areas \X Stems
    BY DEF InstallInv, StagedOK, Areas
  <2> QED BY <2>1, <2>2 DEF Bundles
<1> QED BY <1>1, InstallInvHolds, PTL

(* While an install runs, every file it replaces is in the library or in   *)
(* the rollback directory, unless the window closes or another program     *)
(* changes the file.                                                       *)
THEOREM OldIsSafe == Spec => []OldSafe
<1>1. InstallInv => OldSafe
  BY InstallAssumption DEF InstallInv, Held, OldSafe, Same, Others
<1> QED BY <1>1, InstallInvHolds, PTL

(* An install that is refused, or reports a clean rollback, has left every *)
(* file and folder as it was, but for what others changed, and at most     *)
(* empty folders of its own.                                               *)
THEOREM RollbackIsClean == Spec => CleanRollback
<1> DEFINE Back == /\ \A x \in Slot \ touched' : lib'[x] = before'.files[x]
                   /\ before'.dirs \subseteq dirs' /\ dirs' \subseteq before'.dirs \cup madeDirs'
                   /\ outcome' = "refused" => dirs' = before'.dirs
<1>1. InstallInv /\ [Next]_vars =>
        [pc # "clean" /\ pc' = "clean" /\ outcome' \in {"refused", "rolledback"} => Back]_vars
  <2> SUFFICES ASSUME InstallInv, [Next]_vars, pc # "clean", pc' = "clean",
                      outcome' \in {"refused", "rolledback"}
               PROVE  Back
    OBVIOUS
  <2>1. CASE \E s \in Sessions : ApplyInstall(s)
    BY <2>1 DEF ApplyInstall, library
  <2>2. CASE Encrypt \/ Strip \/ Plan
    <3>1. /\ pc \in {"encrypt", "strip", "plan"} /\ Refuse
          /\ UNCHANGED <<library, touched>>
      BY <2>2 DEF Encrypt, Strip, Plan, Goto
    <3>2. \A x \in Others : Same(x)
      BY <3>1 DEF InstallInv, Unchanged
    <3>3. dirs = before.dirs
      BY <3>1 DEF InstallInv, Unchanged
    <3> QED BY <3>1, <3>2, <3>3 DEF Refuse, library, Same, Others
  <2>3. CASE EndRollback
    <3>1. /\ UNCHANGED <<lib, before, touched, madeDirs>> /\ ~stuck /\ Changing /\ created \cup saved = {}
          /\ outcome' = "rolledback" /\ dirs' \subseteq dirs /\ dirs \ madeDirs \subseteq dirs'
      BY <2>3 DEF EndRollback, Changing, rollback
    <3>2. \A x \in Others : Same(x)
      BY <3>1 DEF InstallInv, Undoable
    <3>3. dirs \subseteq before.dirs \cup madeDirs /\ before.dirs \subseteq dirs \ madeDirs
      BY <3>1 DEF InstallInv, Undoable
    <3> QED BY <3>1, <3>2, <3>3 DEF Same, Others
  <2>4. CASE \/ PrepareMove \/ Copy \/ RemoveCreated \/ ReturnBackup \/ Rescan \/ Clean
    BY <2>4 DEF PrepareMove, Copy, RemoveCreated, ReturnBackup, Rescan, Clean, Goto, call
  <2>5. CASE \/ \E s \in Sessions : CreateSession(s) \/ StageNext(s) \/ Preview(s) \/ CancelInstall(s)
             \/ Shutdown \/ CancelContext \/ OtherProgram \/ UNCHANGED vars
    BY <2>5 DEF CreateSession, StageNext, Preview, CancelInstall, Shutdown, CancelContext, OtherProgram,
                vars, call
  <2> QED BY <2>1, <2>2, <2>3, <2>4, <2>5 DEF Next
<1> QED BY <1>1, InstallInvHolds, PTL DEF Spec, CleanRollback

(* An install reported as done has put every file of every item at its     *)
(* destination, encrypted when that was asked.                             *)
THEOREM InstalledIsWhole == Spec => SuccessIsWhole
<1> DEFINE Whole == \A k \in DOMAIN items : \A e \in Bundle(items[k]) :
                      LET x == <<items[k].to, e>>
                      IN x \in touched \/ /\ lib'[x] \in File
                                          /\ lib'[x].stem = items[k].mod[2] /\ lib'[x].ext = e
                                          /\ items[k].encrypt => lib'[x].coded
<1>1. InstallInv /\ [Next]_vars => [outcome # "ok" /\ outcome' = "ok" => Whole]_vars
  <2> SUFFICES ASSUME InstallInv, [Next]_vars, outcome # "ok", outcome' = "ok"
               PROVE  Whole
    OBVIOUS
  <2>1. Rescan
    BY DEF Next, CreateSession, StageNext, Preview, CancelInstall, ApplyInstall, Encrypt, Strip, Plan,
           PrepareMove, Copy, RemoveCreated, ReturnBackup, EndRollback, Clean, Shutdown, CancelContext,
           OtherProgram, Goto, Refuse, call, vars
  <2>2. pc = "prepare" /\ plan = {} /\ lib' = lib
    BY <2>1 DEF Rescan, library
  <2>3. \A k \in DOMAIN items : \A e \in Bundle(items[k]) : Arrived(k, e)
    BY <2>2 DEF InstallInv, Planned, Copying
  <2> QED BY <2>2, <2>3 DEF Arrived
<1> QED BY <1>1, InstallInvHolds, PTL DEF Spec, SuccessIsWhole
=============================================================================
