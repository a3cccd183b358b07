-------------------------- MODULE ClassifierProofs --------------------------
(***************************************************************************)
(* Proofs about Classifier and Conflicts for any library, any sizes of the *)
(* pool and any numbers of calls, changes and failures: type correctness,  *)
(* that no process is left behind, that what a call serves is fresh, and   *)
(* that the conflict scan groups exactly the mods that paths link.         *)
(***************************************************************************)
EXTENDS Classifier, FiniteSetTheorems, SequenceTheorems, WellFoundedInduction, TLAPS

Jobs == [entry : Entries, mtime : Nat]
Identities == [encrypted : Nat, paths : Nat]
Answers == [entry : Entries, mtime : Nat, found : Identities]
Steps == {"idle", "stat", "closing", "submit", "collect", "returned", "shutting"}

TypeOK ==
  /\ mtime \in [Entries -> Versions] /\ version \in [Entries -> Versions]
  /\ paks \subseteq Entries /\ utocs \subseteq Entries
  /\ beside \in [Entries -> [Versions -> Versions]]
  /\ cache \in [Entries -> [Versions -> Identities]]
  /\ pc \in Steps /\ list \subseteq Entries /\ unread \subseteq list
  /\ misses \subseteq Jobs /\ IsFiniteSet(misses) /\ waiting \in Nat
  /\ results \in [Entries -> Identities]
  /\ queue \in Seq(Jobs) /\ outcomes \subseteq Answers
  /\ size \in Nat /\ at \in [Slots -> {"none", "start", "idle", "encrypted", "paths"}]
  /\ job \in [Slots -> Jobs \cup {NoJob}] /\ seen \in [Slots -> Nat]
  /\ process \in [Slots -> {"none", "up", "dead"}]
  /\ closed \in {"no", "yes", "late"} /\ since \in [Entries -> Versions] /\ missing \subseteq Entries
  /\ calls \in Nat /\ failures \in Nat

(* Why NoOrphans holds: a process has its goroutine, a goroutine is of the *)
(* current pool or of one being closed, and the shutdown waits for it, as  *)
(* long as no call comes after it.                                         *)
Manned == \A w \in Slots : process[w] # "none" => at[w] # "none"
OfPool == \A w \in Slots : at[w] # "none" => w <= size \/ pc \in {"closing", "shutting"}
Shut == closed = "yes" => pc \in {"shutting", "idle"} /\ (pc = "idle" => \A w \in Slots : at[w] = "none")
PoolInv == Manned /\ OfPool /\ Shut

(* The jobs of the call that it has no answer for, wherever they are.      *)
Busy == {w \in Slots : at[w] \in {"encrypted", "paths"}}
Elements(q) == {q[i] : i \in 1 .. Len(q)}
Distinct(q) == \A i, k \in 1 .. Len(q) : q[i] = q[k] => i = k
Queued == Elements(queue)
Running == {job[w] : w \in Busy}
JobOf(o) == [entry |-> o.entry, mtime |-> o.mtime]
Answered == {JobOf(o) : o \in outcomes}
Outstanding == misses \cup Queued \cup Running \cup Answered

(* No job is in two places, and no mod has two.  *)
Apart ==
  /\ Distinct(queue)
  /\ \A v, w \in Busy : job[v] = job[w] => v = w
  /\ \A o, p \in outcomes : JobOf(o) = JobOf(p) => o = p
  /\ misses \cap (Queued \cup Running \cup Answered) = {}
  /\ Queued \cap (Running \cup Answered) = {} /\ Running \cap Answered = {}
OneEach == \A j, k \in Outstanding : j.entry = k.entry => j = k

(* The call counts the answers that are still to come.                     *)
Counted ==
  /\ Running \subseteq Jobs
  /\ pc \in {"submit", "collect"} => IsFiniteSet(Outstanding) /\ waiting = Cardinality(Outstanding)
  /\ pc \notin {"submit", "collect"} => queue = <<>> /\ outcomes = {} /\ Busy = {}
  /\ pc \in {"collect", "returned"} => misses = {}
  /\ pc \in {"submit", "collect", "returned"} => unread = {}
  /\ \A j \in Outstanding : j.entry \notin unread

(* A version of the .utoc that is no older than the .pak of time m, or     *)
(* than the .pak the call began with.  The call looked for a .pak before   *)
(* it was listed, so that m has come.                                      *)
Floor(e, m) == IF m = Unknown THEN 0 ELSE beside[e][m]
Fresh(e, m, v) == since[e] <= v /\ m <= mtime[e] /\ Floor(e, m) <= v /\ v <= version[e]
FreshIdentity(e, m, found) == Fresh(e, m, found.encrypted) /\ Fresh(e, m, found.paths)
Since ==
  \A e \in Entries :
    /\ since[e] <= beside[e][mtime[e]]
    /\ \A t \in Versions : t <= mtime[e] => beside[e][t] <= version[e]
JobsFresh == \A j \in Outstanding : j.mtime <= mtime[j.entry]
SeenFresh == \A w \in Slots : at[w] = "paths" => Fresh(job[w].entry, job[w].mtime, seen[w])
AnswersFresh ==
  \A o \in outcomes : IF o.found = Nothing THEN o.entry \in missing
                      ELSE FreshIdentity(o.entry, o.mtime, o.found)
CacheFresh ==
  \A e \in Entries : \A v \in Versions :
    LET known == cache[e][v] IN
    known # Nothing => /\ v <= mtime[e]
                       /\ beside[e][v] <= known.encrypted /\ known.encrypted <= version[e]
                       /\ beside[e][v] <= known.paths /\ known.paths <= version[e]
Settled(e) == IF results[e] = Nothing THEN e \in missing ELSE FreshIdentity(e, 0, results[e])
Covered ==
  pc \notin {"idle", "shutting"} =>
    \A e \in list : e \in unread \/ (\E j \in Outstanding : j.entry = e) \/ Settled(e)

PlacesInv == Apart /\ OneEach /\ Counted
FreshInv ==
  /\ Since /\ JobsFresh /\ SeenFresh /\ AnswersFresh /\ CacheFresh
  /\ Covered

-----------------------------------------------------------------------------
(* Types. *)
LEMMA Constants ==
  /\ Versions \subseteq Nat /\ 1 \in Versions /\ Slots \subseteq Nat \ {0}
  /\ Nothing \in Identities /\ \A v \in Versions : v # 0
<1>1. Cardinality(Slots) \in Nat
  BY ClassifierAssumption, FS_CardinalityType
<1> QED BY <1>1, ClassifierAssumption DEF Versions, Nothing, Identities, Unknown

LEMMA InitType == Init => TypeOK
<1> SUFFICES ASSUME Init PROVE TypeOK
  OBVIOUS
<1>1. IsFiniteSet({})
  BY FS_EmptySet
<1>2. <<>> \in Seq(Jobs)
  OBVIOUS
<1> QED BY <1>1, <1>2, Constants DEF Init, TypeOK, Steps, Unknown

LEMMA BoundType == ASSUME TypeOK, Works \/ Fails PROVE calls' \in Nat /\ failures' \in Nat
BY DEF TypeOK, Works, Fails

(* A pool is made for as many jobs as the call has, one for each mod. *)
LEMMA TargetSize ==
  ASSUME TypeOK, OneEach, misses # {}
  PROVE  PoolSize(Cardinality(misses)) \in Slots
<1> DEFINE of == [m \in misses |-> m.entry]
<1>1. of \in [misses -> Entries] /\ IsInjective(of)
  BY DEF TypeOK, Jobs, OneEach, Outstanding, IsInjective
<1>2. of \in Injection(misses, Entries)
  BY <1>1 DEF Injection, IsInjective
<1>3. Cardinality(misses) <= Cardinality(Entries)
  BY <1>2, FS_Injection, ClassifierAssumption
<1>4. Cardinality(misses) \in Nat /\ Cardinality(Entries) \in Nat /\ Cardinality(misses) # 0
  BY FS_CardinalityType, FS_EmptySet, ClassifierAssumption DEF TypeOK
<1>5. Cardinality(misses) \in 1 .. Cardinality(Entries)
  BY <1>3, <1>4
<1> QED BY <1>5, ClassifierAssumption

LEMMA CallerType ==
  ASSUME TypeOK, OneEach, Begin \/ Classify \/ DetectConflicts \/ Close
  PROVE  TypeOK'
<1> USE DEF files, caller, channels, pool, Steps
<1>1. CASE Begin
  <2>1. PICK c \in Calls : list' = c /\ unread' = c
    BY <1>1 DEF Begin
  <2>2. c \subseteq Entries
    BY <2>1, ClassifierAssumption
  <2>3. since' \in [Entries -> Versions]
    BY <1>1 DEF Begin, TypeOK
  <2>4. /\ closed' \in {"no", "yes", "late"} /\ calls' \in Nat /\ IsFiniteSet(misses')
        /\ results' \in [Entries -> Identities]
    BY <1>1, FS_EmptySet, Constants DEF Begin, TypeOK
  <2> QED BY <1>1, <2>1, <2>2, <2>3, <2>4 DEF Begin, TypeOK
<1>2. CASE Stat
  <2>1. PICK e \in unread :
           /\ unread' = unread \ {e}
           /\ IF e \in paks /\ Cached(e) # Nothing
              THEN results' = [results EXCEPT ![e] = Cached(e)] /\ UNCHANGED misses
              ELSE /\ misses' = misses \cup
                        {[entry |-> e, mtime |-> IF e \in paks THEN mtime[e] ELSE Unknown]}
                   /\ UNCHANGED results
    BY <1>2 DEF Stat
  <2>2. e \in Entries /\ mtime[e] \in Versions /\ mtime[e] \in Nat /\ Cached(e) \in Identities
    <3>1. e \in Entries
      BY DEF TypeOK
    <3>2. mtime[e] \in Versions /\ mtime[e] \in Nat
      BY <3>1, Constants DEF TypeOK
    <3>3. cache[e][mtime[e]] \in Identities
      BY <3>1, <3>2 DEF TypeOK
    <3> QED BY <3>1, <3>2, <3>3 DEF Cached
  <2>3. results' \in [Entries -> Identities]
    BY <2>1, <2>2 DEF TypeOK
  <2>4. misses' \subseteq Jobs /\ IsFiniteSet(misses')
    <3>1. [entry |-> e, mtime |-> IF e \in paks THEN mtime[e] ELSE Unknown] \in Jobs
      BY <2>2 DEF Jobs, Unknown
    <3>2. IsFiniteSet(misses) /\ misses \subseteq Jobs
      BY DEF TypeOK
    <3>3. CASE e \in paks /\ Cached(e) # Nothing
      BY <2>1, <3>2, <3>3
    <3>4. CASE ~ (e \in paks /\ Cached(e) # Nothing)
      <4>1. PICK j \in Jobs : misses' = misses \cup {j}
        BY <2>1, <3>1, <3>4
      <4> QED BY <3>2, <4>1, FS_AddElement
    <3> QED BY <3>3, <3>4
  <2> QED BY <1>2, <2>1, <2>3, <2>4, BoundType DEF Stat, TypeOK
<1>3. CASE Pool
  <2>1. PoolSize(Cardinality(misses)) \in Nat /\ Cardinality(misses) \in Nat
    BY <1>3, TargetSize, Constants, FS_CardinalityType DEF Pool, TypeOK
  <2> QED BY <1>3, <2>1, BoundType DEF Pool, TypeOK
<1>4. CASE PoolClosed
  BY <1>4, BoundType DEF PoolClosed, TypeOK
<1>5. CASE Submit
  <2>1. PICK m \in misses : queue' = Append(queue, m) /\ misses' = misses \ {m}
    BY <1>5 DEF Submit
  <2>2. queue' \in Seq(Jobs) /\ IsFiniteSet(misses')
    BY <2>1, FS_RemoveElement DEF TypeOK
  <2> QED BY <1>5, <2>1, <2>2, BoundType DEF Submit, TypeOK
<1>6. CASE Collect
  <2>1. PICK o \in outcomes :
           /\ outcomes' = outcomes \ {o} /\ waiting' = waiting - 1
           /\ results' = [results EXCEPT ![o.entry] = o.found]
           /\ cache' = IF o.mtime = Unknown \/ o.found = Nothing THEN cache
                       ELSE [cache EXCEPT ![o.entry][o.mtime] = o.found]
    BY <1>6 DEF Collect
  <2>2. o.entry \in Entries /\ o.found \in Identities
    BY DEF TypeOK, Answers
  <2>3. waiting' \in Nat
    BY <1>6, <2>1 DEF Collect, TypeOK
  <2>4. cache' \in [Entries -> [Versions -> Identities]]
    BY <2>1, <2>2 DEF TypeOK
  <2>5. results' \in [Entries -> Identities]
    BY <2>1, <2>2 DEF TypeOK
  <2> QED BY <1>6, <2>1, <2>3, <2>4, <2>5, BoundType DEF Collect, TypeOK
<1>7. CASE Return
  BY <1>7, BoundType DEF Return, TypeOK
<1>8. CASE DetectConflicts
  BY <1>8, BoundType DEF DetectConflicts, TypeOK
<1>9. CASE Close
  BY <1>9, BoundType DEF Close, TypeOK
<1>10. CASE CloseDone
  BY <1>10, BoundType DEF CloseDone, TypeOK
<1> QED BY <1>1, <1>2, <1>3, <1>4, <1>5, <1>6, <1>7, <1>8, <1>9, <1>10 DEF Classify

LEMMA AnswerType ==
  ASSUME TypeOK, NEW j \in Jobs, NEW found \in Identities, Answer(j, found)
  PROVE  outcomes' \subseteq Answers
BY DEF TypeOK, Answer, Answers, Jobs

LEMMA NoAnswerType ==
  ASSUME TypeOK, NEW w \in Slots, NEW j \in Jobs, NoAnswer(w, j)
  PROVE  /\ outcomes' \subseteq Answers /\ missing' \subseteq Entries
         /\ at' \in [Slots -> {"none", "start", "idle", "encrypted", "paths"}]
         /\ job' \in [Slots -> Jobs \cup {NoJob}]
BY AnswerType, Constants DEF TypeOK, NoAnswer, Jobs

LEMMA QueueType ==
  ASSUME TypeOK, queue # <<>>
  PROVE  Head(queue) \in Jobs /\ Tail(queue) \in Seq(Jobs)
BY DEF TypeOK

LEMMA WorkerType ==
  ASSUME TypeOK, Running \subseteq Jobs, NEW w \in Slots, Work(w) \/ Crash(w)
  PROVE  TypeOK'
<1> USE DEF files, caller, channels, pool, WorkerOnly
<1>1. CASE Start(w)
  BY <1>1, BoundType DEF Start, TypeOK
<1>2. CASE Take(w)
  <2>1. Head(queue) \in Jobs /\ queue' \in Seq(Jobs)
    BY <1>2, QueueType DEF Take
  <2>2. /\ outcomes' \subseteq Answers /\ missing' \subseteq Entries
        /\ at' \in [Slots -> {"none", "start", "idle", "encrypted", "paths"}]
        /\ job' \in [Slots -> Jobs \cup {NoJob}]
        /\ process' \in [Slots -> {"none", "up", "dead"}]
    BY <1>2, <2>1, NoAnswerType DEF Take, TypeOK
  <2>3. calls' \in Nat /\ failures' \in Nat
    BY <1>2, BoundType DEF Take
  <2> QED BY <1>2, <2>1, <2>2, <2>3 DEF Take, TypeOK
<1>3. ASSUME w \in Busy, RequestFails(w), WorkerOnly, UNCHANGED queue PROVE TypeOK'
  <2>1. job[w] \in Jobs
    BY <1>3 DEF Running
  <2>2. process' \in [Slots -> {"none", "up", "dead"}]
    BY <1>3 DEF RequestFails, TypeOK
  <2>3. calls' \in Nat /\ failures' \in Nat
    BY <1>3, BoundType DEF RequestFails
  <2> QED BY <1>3, <2>1, <2>2, <2>3, NoAnswerType DEF RequestFails, TypeOK
<1>4. CASE AskEncrypted(w)
  <2>1. w \in Busy
    BY <1>4 DEF AskEncrypted, Busy
  <2>2. CASE RequestFails(w)
    BY <1>3, <1>4, <2>1, <2>2 DEF AskEncrypted
  <2>3. CASE ~ RequestFails(w)
    <3>1. job[w].entry \in Entries
      BY <2>1 DEF Running, Jobs
    <3>2. version[job[w].entry] \in Nat
      BY <3>1, Constants DEF TypeOK
    <3>3. /\ seen' = [seen EXCEPT ![w] = version[job[w].entry]]
          /\ at' = [at EXCEPT ![w] = "paths"] /\ Works
          /\ UNCHANGED <<outcomes, job, process, missing>>
      BY <1>4, <2>3 DEF AskEncrypted
    <3> QED BY <1>4, <3>2, <3>3, BoundType DEF AskEncrypted, TypeOK
  <2> QED BY <2>2, <2>3
<1>5. CASE AskPaths(w)
  <2>1. w \in Busy
    BY <1>5 DEF AskPaths, Busy
  <2>2. CASE RequestFails(w)
    BY <1>3, <1>5, <2>1, <2>2 DEF AskPaths
  <2>3. CASE ~ RequestFails(w)
    <3>1. job[w] \in Jobs
      BY <2>1 DEF Running
    <3>2. version[job[w].entry] \in Nat
      BY <3>1, Constants DEF TypeOK, Jobs
    <3>3. [encrypted |-> seen[w], paths |-> version[job[w].entry]] \in Identities
      BY <3>2 DEF Identities, TypeOK
    <3>4. outcomes' \subseteq Answers
      BY <1>5, <2>3, <3>1, <3>3, AnswerType DEF AskPaths
    <3>5. /\ at' = [at EXCEPT ![w] = "idle"] /\ job' = [job EXCEPT ![w] = NoJob]
          /\ seen' = [seen EXCEPT ![w] = Unknown] /\ Works
          /\ UNCHANGED <<process, missing>>
      BY <1>5, <2>3 DEF AskPaths
    <3>6. seen' \in [Slots -> Nat]
      BY <3>5 DEF TypeOK, Unknown
    <3> QED BY <1>5, <3>4, <3>5, <3>6, BoundType DEF AskPaths, TypeOK
  <2> QED BY <2>2, <2>3
<1>6. CASE End(w)
  BY <1>6, BoundType DEF End, TypeOK
<1>7. CASE Crash(w)
  BY <1>7, BoundType DEF Crash, TypeOK
<1> QED BY <1>1, <1>2, <1>4, <1>5, <1>6, <1>7 DEF Work

LEMMA ChangeType ==
  ASSUME TypeOK, NEW e \in Entries, ChangePak(e) \/ ChangeUtoc(e)
  PROVE  TypeOK'
<1> USE DEF caller, channels, pool
<1>1. CASE ChangePak(e)
  <2>1. mtime[e] + 1 \in Versions
    BY <1>1, ClassifierAssumption DEF ChangePak, TypeOK, Versions
  <2>2. mtime' \in [Entries -> Versions]
    BY <1>1, <2>1 DEF ChangePak, TypeOK
  <2>3. beside' \in [Entries -> [Versions -> Versions]]
    BY <1>1 DEF ChangePak, TypeOK
  <2>4. paks' \subseteq Entries
    BY <1>1 DEF ChangePak, TypeOK
  <2> QED BY <1>1, <2>2, <2>3, <2>4, BoundType DEF ChangePak, TypeOK
<1>2. CASE ChangeUtoc(e)
  <2>1. version[e] + 1 \in Versions
    BY <1>2, ClassifierAssumption DEF ChangeUtoc, TypeOK, Versions
  <2>2. version' \in [Entries -> Versions]
    BY <1>2, <2>1 DEF ChangeUtoc, TypeOK
  <2>3. utocs' \subseteq Entries
    BY <1>2 DEF ChangeUtoc, TypeOK
  <2> QED BY <1>2, <2>2, <2>3, BoundType DEF ChangeUtoc, TypeOK
<1> QED BY <1>1, <1>2

-----------------------------------------------------------------------------
(* Processes. *)
LEMMA InitPool == Init => PoolInv
BY DEF Init, PoolInv, Manned, OfPool, Shut

LEMMA PoolStep ==
  ASSUME TypeOK, PoolInv, Next
  PROVE  PoolInv'
<1> USE DEF PoolInv, Manned, OfPool, Shut, caller, channels, pool, WorkerOnly
<1>1. CASE Begin
  BY <1>1 DEF Begin
<1>2. CASE Stat \/ Submit \/ Collect \/ Return
  BY <1>2 DEF Stat, Submit, Collect, Return
<1>3. CASE Pool
  <2>1. CASE size # 0
    BY <1>3, <2>1 DEF Pool
  <2>2. CASE size = 0
    <3>1. \A w \in Slots : at[w] = "none" /\ process[w] = "none"
      BY <1>3, <2>2, Constants DEF Pool, TypeOK
    <3>2. pc' \in {"submit", "closing"} /\ closed' # "yes" /\ process' = process
      BY <1>3 DEF Pool
    <3>3. size' = PoolSize(Cardinality(misses)) =>
            at' = [w \in Slots |-> IF w <= size' THEN "start" ELSE "none"] \/ at' = at
      BY <1>3 DEF Pool
    <3>4. size' = 0 => at' = at \/ size' = PoolSize(Cardinality(misses))
      BY <1>3 DEF Pool
    <3>5. size' = 0 \/ size' = PoolSize(Cardinality(misses))
      BY <1>3, <2>2 DEF Pool
    <3> QED BY <3>1, <3>2, <3>3, <3>4, <3>5
  <2> QED BY <2>1, <2>2
<1>4. CASE PoolClosed
  BY <1>4 DEF PoolClosed
<1>5. CASE DetectConflicts
  BY <1>5 DEF DetectConflicts
<1>6. CASE Close
  BY <1>6 DEF Close
<1>7. ASSUME NEW w \in Slots, Work(w) \/ Crash(w) PROVE PoolInv'
  <2>1. UNCHANGED <<pc, size, closed>>
    BY <1>7 DEF Work, Start, Take, AskEncrypted, AskPaths, End, Crash
  <2>2. \A v \in Slots : v # w => at'[v] = at[v] /\ process'[v] = process[v]
    BY <1>7 DEF Work, Start, Take, AskEncrypted, AskPaths, End, Crash, RequestFails, NoAnswer, TypeOK
  <2>3. at[w] # "none"
    BY <1>7 DEF Work, Start, Take, AskEncrypted, AskPaths, End, Crash
  <2>4. at'[w] = "none" => process'[w] = "none"
    BY <1>7, <2>3 DEF Work, Start, Take, AskEncrypted, AskPaths, End, Crash, RequestFails, NoAnswer, TypeOK
  <2> QED BY <2>1, <2>2, <2>3, <2>4
<1>8. ASSUME NEW e \in Entries, ChangePak(e) \/ ChangeUtoc(e) PROVE PoolInv'
  BY <1>8 DEF ChangePak, ChangeUtoc
<1>9. CASE CloseDone
  BY <1>9 DEF CloseDone
<1>10. \A e \in Changing : e \in Entries
  BY ClassifierAssumption
<1> QED BY <1>1, <1>2, <1>3, <1>4, <1>5, <1>6, <1>7, <1>8, <1>9, <1>10 DEF Next, Classify

LEMMA PoolStutter == PoolInv /\ UNCHANGED vars => PoolInv'
BY DEF PoolInv, Manned, OfPool, Shut, vars, caller, pool

(* A process belongs to a goroutine, and a goroutine to the pool.          *)
LEMMA PoolMeans == ASSUME TypeOK, PoolInv PROVE NoOrphans
BY DEF PoolInv, Manned, OfPool, Shut, NoOrphans

-----------------------------------------------------------------------------
(* Jobs: the channel as a set. *)
LEMMA AppendElements ==
  ASSUME NEW q \in Seq(Jobs), NEW m \in Jobs, Distinct(q), m \notin Elements(q)
  PROVE  Elements(Append(q, m)) = Elements(q) \cup {m} /\ Distinct(Append(q, m))
<1>1. /\ Len(Append(q, m)) = Len(q) + 1 /\ Len(q) \in Nat
      /\ \A i \in 1 .. Len(q) : Append(q, m)[i] = q[i]
      /\ Append(q, m)[Len(q) + 1] = m
  OBVIOUS
<1>2. 1 .. Len(q) + 1 = 1 .. Len(q) \cup {Len(q) + 1}
  BY <1>1
<1>3. Elements(Append(q, m)) = Elements(q) \cup {m}
  BY <1>1, <1>2 DEF Elements
<1>4. Distinct(Append(q, m))
  BY <1>1, <1>2 DEF Elements, Distinct
<1> QED BY <1>3, <1>4

LEMMA TailElements ==
  ASSUME NEW q \in Seq(Jobs), q # <<>>, Distinct(q)
  PROVE  /\ Head(q) \in Jobs /\ Head(q) \in Elements(q)
         /\ Elements(Tail(q)) = Elements(q) \ {Head(q)} /\ Distinct(Tail(q))
<1>1. /\ Len(q) \in Nat \ {0} /\ Len(Tail(q)) = Len(q) - 1 /\ Head(q) = q[1]
      /\ \A i \in 1 .. Len(q) - 1 : Tail(q)[i] = q[i + 1]
      /\ Head(q) \in Jobs
  OBVIOUS
<1>2. Distinct(Tail(q))
  <2> SUFFICES ASSUME NEW i \in 1 .. Len(q) - 1, NEW k \in 1 .. Len(q) - 1, Tail(q)[i] = Tail(q)[k]
               PROVE  i = k
    BY <1>1 DEF Distinct
  <2>1. i + 1 \in 1 .. Len(q) /\ k + 1 \in 1 .. Len(q)
    BY <1>1
  <2>2. i + 1 = k + 1
    BY <1>1, <2>1 DEF Distinct
  <2> QED BY <2>2
<1>3. ASSUME NEW x \in Elements(Tail(q)) PROVE x \in Elements(q) \ {Head(q)}
  <2>1. PICK i \in 1 .. Len(q) - 1 : x = q[i + 1]
    BY <1>1, <1>3 DEF Elements
  <2>2. i + 1 \in 1 .. Len(q) /\ 1 \in 1 .. Len(q) /\ i + 1 # 1
    BY <1>1
  <2> QED BY <1>1, <2>1, <2>2 DEF Elements, Distinct
<1>4. ASSUME NEW x \in Elements(q) \ {Head(q)} PROVE x \in Elements(Tail(q))
  <2>1. PICK i \in 1 .. Len(q) : x = q[i]
    BY DEF Elements
  <2>2. i - 1 \in 1 .. Len(q) - 1 /\ (i - 1) + 1 = i
    BY <1>1, <1>4, <2>1
  <2> QED BY <1>1, <2>1, <2>2 DEF Elements
<1>5. Head(q) \in Elements(q)
  BY <1>1 DEF Elements
<1> QED BY <1>1, <1>2, <1>3, <1>4, <1>5

LEMMA EmptyElements == Elements(<<>>) = {} /\ Distinct(<<>>)
BY DEF Elements, Distinct

(* A job becomes an answer. *)
LEMMA AnswerMove ==
  ASSUME TypeOK, Apart, NEW j \in Jobs, j \notin Answered, NEW found, Answer(j, found)
  PROVE  /\ Answered' = Answered \cup {j}
         /\ \A o, p \in outcomes' : JobOf(o) = JobOf(p) => o = p
<1> DEFINE new == [entry |-> j.entry, mtime |-> j.mtime, found |-> found]
<1>1. JobOf(new) = j /\ outcomes' = outcomes \cup {new}
  BY DEF JobOf, Jobs, Answer
<1> HIDE DEF new
<1>2. Answered' = Answered \cup {j}
  BY <1>1 DEF Answered
<1>3. \A o \in outcomes : JobOf(o) # j
  BY DEF Answered
<1> QED BY <1>1, <1>2, <1>3 DEF Apart

(* A goroutine is done with its job. *)
LEMMA Freed ==
  ASSUME TypeOK, Apart, NEW w \in Busy, at' = [at EXCEPT ![w] = "idle"], job' = [job EXCEPT ![w] = NoJob]
  PROVE  Busy' = Busy \ {w} /\ Running' = Running \ {job[w]} /\ \A v \in Busy' : job'[v] = job[v]
<1>1. Busy' = Busy \ {w} /\ w \in Slots
  BY DEF Busy, TypeOK
<1>2. \A v \in Busy' : job'[v] = job[v] /\ v \in Slots
  BY <1>1 DEF Busy, TypeOK
<1>3. \A v \in Busy' : job[v] # job[w]
  BY <1>1 DEF Apart
<1> QED BY <1>1, <1>2, <1>3 DEF Running

LEMMA SameJobs ==
  ASSUME PlacesInv, UNCHANGED <<misses, queue, outcomes>>, Busy' = Busy, \A v \in Busy : job'[v] = job[v]
  PROVE  Apart' /\ Outstanding' = Outstanding /\ Running' = Running
<1>1. Running' = Running /\ Queued' = Queued /\ Answered' = Answered
  BY DEF Running, Queued, Answered
<1>2. Outstanding' = Outstanding
  BY <1>1 DEF Outstanding
<1>3. Apart'
  BY <1>1 DEF PlacesInv, Apart
<1> QED BY <1>1, <1>2, <1>3

(* A goroutine moves a job on, and only in a call that has jobs. *)
JobsKept(w) ==
  /\ Apart' /\ Outstanding' = Outstanding /\ Running' \subseteq Jobs
  /\ UNCHANGED <<misses, unread, pc, waiting>>
  /\ pc \in {"submit", "collect"} \/ (UNCHANGED <<queue, outcomes>> /\ Busy' = Busy)

LEMMA FailedRequest ==
  ASSUME TypeOK, PlacesInv, NEW w \in Busy, RequestFails(w), WorkerOnly, UNCHANGED queue
  PROVE  JobsKept(w)
<1>1. NoAnswer(w, job[w]) /\ job[w] \in Jobs /\ job[w] \notin Answered
  BY DEF RequestFails, PlacesInv, Counted, Apart, Running
<1>2. /\ Answered' = Answered \cup {job[w]}
      /\ \A o, p \in outcomes' : JobOf(o) = JobOf(p) => o = p
  BY <1>1, AnswerMove DEF NoAnswer, PlacesInv
<1>3. /\ Busy' = Busy \ {w} /\ Running' = Running \ {job[w]} /\ \A v \in Busy' : job'[v] = job[v]
  BY <1>1, Freed DEF NoAnswer, PlacesInv
<1>4. Queued' = Queued /\ misses' = misses /\ job[w] \in Running
  BY DEF WorkerOnly, caller, Queued, Running
<1>5. Apart'
  BY <1>2, <1>3, <1>4 DEF PlacesInv, Apart
<1>6. Outstanding' = Outstanding
  BY <1>2, <1>3, <1>4 DEF Outstanding
<1>7. Running' \subseteq Jobs
  BY <1>3 DEF PlacesInv, Counted
<1>8. pc \in {"submit", "collect"}
  BY DEF PlacesInv, Counted
<1> QED BY <1>5, <1>6, <1>7, <1>8 DEF JobsKept, WorkerOnly, caller

LEMMA TakenJob ==
  ASSUME TypeOK, PlacesInv, NEW w \in Slots, Take(w)
  PROVE  JobsKept(w)
<1> DEFINE h == Head(queue)
<1>1. /\ h \in Jobs /\ h \in Queued /\ Queued' = Queued \ {h} /\ Distinct(queue')
  BY TailElements DEF Take, TypeOK, PlacesInv, Apart, Queued
<1> HIDE DEF h
<1>2. misses' = misses /\ w \notin Busy
  BY DEF Take, WorkerOnly, caller, Busy
<1>3. pc \in {"submit", "collect"}
  BY DEF Take, PlacesInv, Counted
<1>4. CASE /\ at' = [at EXCEPT ![w] = "encrypted"] /\ job' = [job EXCEPT ![w] = h]
           /\ UNCHANGED <<outcomes, missing>>
  <2>1. Busy' = Busy \cup {w} /\ w \notin Busy
    BY <1>4 DEF Take, Busy, TypeOK
  <2>2. job'[w] = h /\ \A v \in Busy : job'[v] = job[v]
    BY <1>4, <2>1 DEF Busy, TypeOK
  <2>3. Running' = Running \cup {h} /\ Answered' = Answered
    BY <1>4, <2>1, <2>2 DEF Running, Answered
  <2>4. h \notin Running /\ h \notin Answered /\ h \notin misses
    BY <1>1 DEF PlacesInv, Apart
  <2>5. \A u, v \in Busy' : job'[u] = job'[v] => u = v
    BY <2>1, <2>2, <2>4 DEF PlacesInv, Apart, Running
  <2>6. Apart'
    BY <1>1, <1>2, <1>4, <2>3, <2>4, <2>5 DEF PlacesInv, Apart
  <2>7. Outstanding' = Outstanding /\ Running' \subseteq Jobs
    BY <1>1, <1>2, <2>3 DEF Outstanding, PlacesInv, Counted
  <2> QED BY <1>3, <2>6, <2>7 DEF JobsKept, Take, WorkerOnly, caller
<1>5. CASE NoAnswer(w, h)
  <2>1. h \notin Running /\ h \notin Answered /\ h \notin misses
    BY <1>1 DEF PlacesInv, Apart
  <2>2. /\ Answered' = Answered \cup {h}
        /\ \A o, p \in outcomes' : JobOf(o) = JobOf(p) => o = p
    BY <1>1, <1>5, <2>1, AnswerMove DEF NoAnswer, PlacesInv
  <2>3. Busy' = Busy /\ \A v \in Busy : job'[v] = job[v]
    BY <1>2, <1>5 DEF NoAnswer, Busy, TypeOK
  <2>4. Running' = Running
    BY <2>3 DEF Running
  <2>5. Apart'
    BY <1>1, <1>2, <2>1, <2>2, <2>3, <2>4 DEF PlacesInv, Apart
  <2>6. Outstanding' = Outstanding /\ Running' \subseteq Jobs
    BY <1>1, <1>2, <2>2, <2>4 DEF Outstanding, PlacesInv, Counted
  <2> QED BY <1>3, <2>5, <2>6 DEF JobsKept, Take, WorkerOnly, caller
<1> QED BY <1>4, <1>5 DEF Take, h

LEMMA AskedJob ==
  ASSUME TypeOK, PlacesInv, NEW w \in Slots, AskEncrypted(w) \/ AskPaths(w)
  PROVE  JobsKept(w)
<1>1. w \in Busy /\ WorkerOnly /\ UNCHANGED queue
  BY DEF AskEncrypted, AskPaths, Busy
<1>2. CASE RequestFails(w)
  BY <1>1, <1>2, FailedRequest
<1>3. CASE ~ RequestFails(w) /\ AskEncrypted(w)
  <2>1. at' = [at EXCEPT ![w] = "paths"] /\ UNCHANGED <<outcomes, job>>
    BY <1>3 DEF AskEncrypted
  <2>2. Busy' = Busy
    BY <1>1, <2>1 DEF Busy, TypeOK
  <2>3. UNCHANGED <<misses, queue, outcomes, unread, pc, waiting>>
    BY <1>1, <2>1 DEF WorkerOnly, caller
  <2>4. Apart' /\ Outstanding' = Outstanding /\ Running' = Running
    BY <2>1, <2>2, <2>3, SameJobs
  <2> QED BY <2>2, <2>3, <2>4 DEF JobsKept, PlacesInv, Counted
<1>4. CASE ~ RequestFails(w) /\ AskPaths(w)
  <2>1. PICK found : Answer(job[w], found)
    BY <1>4 DEF AskPaths
  <2>2. at' = [at EXCEPT ![w] = "idle"] /\ job' = [job EXCEPT ![w] = NoJob]
    BY <1>4 DEF AskPaths
  <2>3. job[w] \in Jobs /\ job[w] \notin Answered /\ job[w] \in Running
    BY <1>1 DEF PlacesInv, Counted, Apart, Running
  <2>4. /\ Answered' = Answered \cup {job[w]}
        /\ \A o, p \in outcomes' : JobOf(o) = JobOf(p) => o = p
    BY <2>1, <2>3, AnswerMove DEF PlacesInv
  <2>5. /\ Busy' = Busy \ {w} /\ Running' = Running \ {job[w]} /\ \A v \in Busy' : job'[v] = job[v]
    BY <1>1, <2>2, Freed DEF PlacesInv
  <2>6. Queued' = Queued /\ UNCHANGED <<misses, queue, unread, pc, waiting>>
    BY <1>1 DEF WorkerOnly, caller, Queued
  <2>7. Apart'
    BY <2>3, <2>4, <2>5, <2>6 DEF PlacesInv, Apart
  <2>8. Outstanding' = Outstanding /\ Running' \subseteq Jobs
    BY <2>3, <2>4, <2>5, <2>6 DEF Outstanding, PlacesInv, Counted
  <2>9. pc \in {"submit", "collect"}
    BY <1>1 DEF PlacesInv, Counted
  <2> QED BY <2>6, <2>7, <2>8, <2>9 DEF JobsKept
<1> QED BY <1>2, <1>3, <1>4

LEMMA WorkedJob ==
  ASSUME TypeOK, PlacesInv, NEW w \in Slots, Work(w) \/ Crash(w)
  PROVE  JobsKept(w)
<1>1. CASE Start(w) \/ End(w) \/ Crash(w)
  <2>1. UNCHANGED <<misses, queue, outcomes, unread, pc, waiting, job>>
    BY <1>1 DEF Start, End, Crash, WorkerOnly, caller, channels
  <2>2. Busy' = Busy
    BY <1>1 DEF Start, End, Crash, Busy, TypeOK
  <2>3. Apart' /\ Outstanding' = Outstanding /\ Running' = Running
    BY <2>1, <2>2, SameJobs
  <2> QED BY <2>1, <2>2, <2>3 DEF JobsKept, PlacesInv, Counted
<1> QED BY <1>1, TakenJob, AskedJob DEF Work

LEMMA KeptPlaces ==
  ASSUME TypeOK, PlacesInv, NEW w, JobsKept(w)
  PROVE  PlacesInv'
<1>1. OneEach'
  BY DEF JobsKept, PlacesInv, OneEach
<1>2. Counted'
  BY DEF JobsKept, PlacesInv, Counted
<1> QED BY <1>1, <1>2 DEF JobsKept, PlacesInv

LEMMA InitPlaces == Init => PlacesInv
<1> SUFFICES ASSUME Init PROVE PlacesInv
  OBVIOUS
<1>1. Busy = {} /\ Queued = {} /\ Distinct(queue) /\ Answered = {} /\ misses = {} /\ Running = {}
  BY EmptyElements DEF Init, Busy, Queued, Answered, Running
<1> QED BY <1>1 DEF Init, PlacesInv, Apart, OneEach, Counted, Outstanding

(* Without a running job all jobs are those not yet submitted. *)
LEMMA NoneRunning ==
  ASSUME queue = <<>>, outcomes = {}, Busy = {}
  PROVE  /\ Queued = {} /\ Running = {} /\ Answered = {} /\ Outstanding = misses /\ Apart
BY EmptyElements DEF Queued, Running, Answered, Outstanding, Apart

LEMMA BegunPlaces ==
  ASSUME TypeOK, PlacesInv, Begin
  PROVE  PlacesInv' /\ Outstanding' = {}
<1>1. queue' = <<>> /\ outcomes' = {} /\ misses' = {} /\ pc' = "stat"
  BY DEF Begin, channels, PlacesInv, Counted
<1>2. Busy' = {}
  BY DEF Begin, pool, PlacesInv, Counted, Busy
<1>3. Outstanding' = {} /\ Apart' /\ Running' = {}
  BY <1>1, <1>2, EmptyElements DEF Queued, Running, Answered, Outstanding, Apart
<1> QED BY <1>1, <1>2, <1>3 DEF PlacesInv, OneEach, Counted

(* The job of a mod that is not in the cache. *)
NewJob(e) == [entry |-> e, mtime |-> IF e \in paks THEN mtime[e] ELSE Unknown]

LEMMA LookedPlaces ==
  ASSUME TypeOK, PlacesInv, NEW e \in unread, Stat, unread' = unread \ {e},
         misses' = misses \/ misses' = misses \cup {NewJob(e)}
  PROVE  PlacesInv' /\ Outstanding' = misses' /\ Outstanding = misses
<1>1. queue' = <<>> /\ outcomes' = {} /\ pc = "stat" /\ pc' = "stat"
  BY DEF Stat, channels, PlacesInv, Counted
<1>2. Busy' = {} /\ Busy = {}
  BY DEF Stat, pool, PlacesInv, Counted, Busy
<1>3. Outstanding' = misses' /\ Apart' /\ Running' = {}
  BY <1>1, <1>2, EmptyElements DEF Queued, Running, Answered, Outstanding, Apart
<1>4. Outstanding = misses
  BY <1>1, NoneRunning DEF PlacesInv, Counted
<1>5. NewJob(e).entry = e /\ \A j \in misses : j.entry # e
  BY <1>4 DEF NewJob, PlacesInv, Counted
<1>6. OneEach'
  <2>1. \A j, k \in misses : j.entry = k.entry => j = k
    BY <1>4 DEF PlacesInv, OneEach
  <2>2. \A j, k \in misses' : j.entry = k.entry => j = k
    BY <1>5, <2>1
  <2> QED BY <1>3, <2>2 DEF OneEach
<1>7. \A j \in misses' : j.entry \notin unread'
  BY <1>4, <1>5 DEF PlacesInv, Counted
<1> QED BY <1>1, <1>2, <1>3, <1>4, <1>6, <1>7 DEF PlacesInv, Counted

LEMMA PooledPlaces ==
  ASSUME TypeOK, PlacesInv, Pool
  PROVE  PlacesInv' /\ Outstanding' = Outstanding
<1>1. queue' = <<>> /\ outcomes' = {} /\ misses' = misses /\ UNCHANGED unread /\ unread = {}
  BY DEF Pool, channels, PlacesInv, Counted
<1>2. Busy = {} /\ queue = <<>> /\ outcomes = {}
  BY DEF Pool, PlacesInv, Counted
<1>3. Busy' = {}
  BY <1>2 DEF Pool, Busy
<1>4. Outstanding' = misses /\ Apart' /\ Running' = {}
  BY <1>1, <1>3, EmptyElements DEF Queued, Running, Answered, Outstanding, Apart
<1>5. Outstanding = misses
  BY <1>2, NoneRunning
<1>6. pc' \in {"submit", "closing"} /\ waiting' = Cardinality(misses) /\ IsFiniteSet(misses)
  BY DEF Pool, TypeOK
<1>7. OneEach'
  BY <1>4, <1>5 DEF PlacesInv, OneEach
<1> QED BY <1>1, <1>3, <1>4, <1>5, <1>6, <1>7 DEF PlacesInv, Counted

LEMMA SubmittedPlaces ==
  ASSUME TypeOK, PlacesInv, Submit
  PROVE  PlacesInv' /\ Outstanding' = Outstanding
<1>1. PICK m \in misses : queue' = Append(queue, m) /\ misses' = misses \ {m}
  BY DEF Submit
<1>2. m \in Jobs /\ queue \in Seq(Jobs) /\ m \notin Queued /\ m \notin Running /\ m \notin Answered
  BY DEF TypeOK, PlacesInv, Apart
<1>3. Queued' = Queued \cup {m} /\ Distinct(queue')
  BY <1>1, <1>2, AppendElements DEF Queued, PlacesInv, Apart
<1>4. UNCHANGED <<outcomes, at, job, waiting, unread>> /\ pc = "submit" /\ pc' \in {"submit", "collect"}
  BY DEF Submit, pool
<1>5. Busy' = Busy /\ Running' = Running /\ Answered' = Answered
  BY <1>4 DEF Busy, Running, Answered
<1>6. Outstanding' = Outstanding
  BY <1>1, <1>3, <1>5 DEF Outstanding
<1>7. Apart'
  BY <1>1, <1>2, <1>3, <1>4, <1>5 DEF PlacesInv, Apart
<1>8. OneEach'
  BY <1>6 DEF PlacesInv, OneEach
<1>9. pc' = "collect" => misses' = {}
  <2>1. Cardinality(misses') = Cardinality(misses) - 1 /\ IsFiniteSet(misses')
    BY <1>1, FS_RemoveElement DEF TypeOK
  <2>2. pc' = "collect" => Cardinality(misses') = 0
    BY <2>1 DEF Submit
  <2> QED BY <2>1, <2>2, FS_EmptySet
<1> QED BY <1>4, <1>5, <1>6, <1>7, <1>8, <1>9 DEF PlacesInv, Counted

LEMMA CollectedPlaces ==
  ASSUME TypeOK, PlacesInv, Collect, NEW o \in outcomes, outcomes' = outcomes \ {o}
  PROVE  PlacesInv' /\ Outstanding' = Outstanding \ {JobOf(o)} /\ JobOf(o) \in Outstanding
<1>1. UNCHANGED <<misses, queue, at, job, unread>> /\ pc = "collect" /\ pc' = "collect"
  BY DEF Collect, pool
<1>2. Busy' = Busy /\ Running' = Running /\ Queued' = Queued
  BY <1>1 DEF Busy, Running, Queued
<1>3. JobOf(o) \in Answered /\ Answered' = Answered \ {JobOf(o)}
  BY DEF Answered, PlacesInv, Apart
<1>4. JobOf(o) \notin Queued /\ JobOf(o) \notin Running /\ JobOf(o) \notin misses
  BY <1>3 DEF PlacesInv, Apart
<1>5. Outstanding' = Outstanding \ {JobOf(o)} /\ JobOf(o) \in Outstanding
  BY <1>1, <1>2, <1>3, <1>4 DEF Outstanding
<1>6. Apart'
  BY <1>1, <1>2, <1>3 DEF PlacesInv, Apart
<1>7. IsFiniteSet(Outstanding') /\ waiting' = Cardinality(Outstanding')
  <2>1. IsFiniteSet(Outstanding) /\ waiting = Cardinality(Outstanding) /\ waiting' = waiting - 1
    BY <1>1 DEF PlacesInv, Counted, Collect
  <2> QED BY <1>5, <2>1, FS_RemoveElement
<1>8. OneEach'
  BY <1>5 DEF PlacesInv, OneEach
<1> QED BY <1>1, <1>2, <1>5, <1>6, <1>7, <1>8 DEF PlacesInv, Counted

(* The call returns with no job left. *)
LEMMA ReturnedPlaces ==
  ASSUME TypeOK, PlacesInv, Return
  PROVE  PlacesInv' /\ Outstanding' = Outstanding /\ Outstanding = {} /\ unread = {}
<1>1. UNCHANGED <<misses, queue, outcomes, at, job, unread, waiting>> /\ pc' = "returned"
  BY DEF Return, channels, pool
<1>2. Busy' = Busy
  BY <1>1 DEF Busy
<1>3. Apart' /\ Outstanding' = Outstanding /\ Running' = Running
  BY <1>1, <1>2, SameJobs
<1>4. unread = {} /\ misses = {} /\ Outstanding = {}
  <2>1. CASE pc = "stat"
    BY <2>1, NoneRunning DEF Return, PlacesInv, Counted
  <2>2. CASE pc = "collect"
    BY <2>2, FS_EmptySet DEF Return, PlacesInv, Counted
  <2> QED BY <2>1, <2>2 DEF Return
<1>5. queue = <<>> /\ outcomes = {} /\ Busy = {}
  <2>1. Queued = {} /\ Running = {} /\ Answered = {}
    BY <1>4 DEF Outstanding
  <2>2. queue = <<>>
    <3>1. queue[1] \notin Queued
      BY <2>1
    <3>2. 1 \notin 1 .. Len(queue)
      BY <3>1 DEF Queued, Elements
    <3>3. Len(queue) \in Nat /\ (Len(queue) = 0 => queue = <<>>)
      BY DEF TypeOK
    <3> QED BY <3>2, <3>3
  <2> QED BY <2>1, <2>2 DEF Running, Answered
<1> QED BY <1>1, <1>2, <1>3, <1>4, <1>5 DEF PlacesInv, OneEach, Counted

LEMMA QuietPlaces ==
  ASSUME TypeOK, PlacesInv, PoolClosed \/ DetectConflicts \/ Close \/ CloseDone
  PROVE  PlacesInv' /\ Outstanding' = Outstanding
<1>1. /\ UNCHANGED <<misses, queue, outcomes, at, job, unread>>
      /\ pc \notin {"submit", "collect"} /\ pc' \in {"idle", "stat", "shutting"}
  BY DEF PoolClosed, DetectConflicts, Close, CloseDone, channels, pool
<1>2. Busy' = Busy
  BY <1>1 DEF Busy
<1>3. Apart' /\ Outstanding' = Outstanding /\ Running' = Running
  BY <1>1, <1>2, SameJobs
<1> QED BY <1>1, <1>2, <1>3 DEF PlacesInv, OneEach, Counted

LEMMA ForeignPlaces ==
  ASSUME TypeOK, PlacesInv, UNCHANGED <<caller, channels, pool>>
  PROVE  PlacesInv' /\ Outstanding' = Outstanding
<1>1. UNCHANGED <<misses, queue, outcomes, at, job, unread, pc, waiting>>
  BY DEF caller, channels, pool
<1>2. Busy' = Busy
  BY <1>1 DEF Busy
<1>3. Apart' /\ Outstanding' = Outstanding /\ Running' = Running
  BY <1>1, <1>2, SameJobs
<1> QED BY <1>1, <1>2, <1>3 DEF PlacesInv, OneEach, Counted

-----------------------------------------------------------------------------
(* Freshness. *)
LEMMA InitFresh == Init => FreshInv
<1> SUFFICES ASSUME Init PROVE FreshInv
  OBVIOUS
<1>1. Outstanding = {}
  <2>1. Busy = {} /\ queue = <<>> /\ outcomes = {} /\ misses = {}
    BY DEF Init, Busy
  <2> QED BY <2>1, NoneRunning
<1>2. Since
  BY Constants DEF Init, Since, TypeOK
<1> QED BY <1>1, <1>2 DEF Init, FreshInv, JobsFresh, SeenFresh, AnswersFresh, CacheFresh, Covered

(* What other programs do: versions and times only grow, and what was      *)
(* beside a .pak when it was written stays known.                          *)
Ahead ==
  \A e \in Entries :
    /\ version[e] <= version'[e] /\ mtime[e] <= mtime'[e]
    /\ \A t \in Versions : t <= mtime[e] => beside'[e][t] = beside[e][t]

(* The values of the versions and times. *)
LEMMA VersionTypes ==
  ASSUME TypeOK
  PROVE  /\ \A e \in Entries : version[e] \in Nat /\ mtime[e] \in Versions /\ mtime[e] \in Nat /\ since[e] \in Nat
         /\ \A e \in Entries, t \in Versions : beside[e][t] \in Nat
         /\ \A e \in Entries : beside[e][mtime[e]] \in Nat
<1>1. \A e \in Entries : version[e] \in Versions /\ mtime[e] \in Versions /\ since[e] \in Versions
  BY DEF TypeOK
<1>2. \A e \in Entries, t \in Versions : beside[e][t] \in Versions
  BY DEF TypeOK
<1> QED BY <1>1, <1>2, Constants

(* A time is a .pak's, or unknown. *)
LEMMA KnownTime ==
  ASSUME TypeOK, NEW e \in Entries, NEW m \in Nat, m <= mtime[e]
  PROVE  m = Unknown \/ m \in Versions
<1>1. mtime[e] \in 1 .. MaxChanges + 1 /\ MaxChanges \in Nat
  BY ClassifierAssumption DEF TypeOK, Versions
<1> QED BY <1>1 DEF Versions, Unknown

(* What was fresh in a call remains it. *)
LEMMA FreshGrows ==
  ASSUME TypeOK, TypeOK', UNCHANGED since, Ahead
  PROVE  /\ \A e \in Entries, m, v \in Nat : Fresh(e, m, v) => Fresh(e, m, v)'
         /\ \A e \in Entries, m \in Nat, i \in Identities : FreshIdentity(e, m, i) => FreshIdentity(e, m, i)'
<1>1. \A e \in Entries : version[e] \in Nat /\ version'[e] \in Nat /\ mtime[e] \in Nat /\ mtime'[e] \in Nat
  BY Constants DEF TypeOK
<1>2. ASSUME NEW e \in Entries, NEW m \in Nat, NEW v \in Nat, Fresh(e, m, v) PROVE Fresh(e, m, v)'
  <2>1. Floor(e, m)' = Floor(e, m)
    BY <1>2, KnownTime DEF Fresh, Floor, Ahead
  <2>2. m <= mtime'[e] /\ v <= version'[e]
    BY <1>1, <1>2 DEF Fresh, Ahead
  <2> QED BY <1>2, <2>1, <2>2 DEF Fresh
<1> QED BY <1>2 DEF FreshIdentity, Identities

(* What is settled in a call stays so when the call itself changes nothing. *)
LEMMA SettledStays ==
  ASSUME TypeOK, TypeOK', UNCHANGED <<since, results>>, missing \subseteq missing', Ahead
  PROVE  \A e \in Entries : Settled(e) => Settled(e)'
<1>1. \A e \in Entries : FreshIdentity(e, 0, results[e]) => FreshIdentity(e, 0, results[e])'
  BY FreshGrows DEF TypeOK
<1> QED BY <1>1 DEF Settled

LEMMA BegunFresh ==
  ASSUME TypeOK, TypeOK', PlacesInv, FreshInv, Begin
  PROVE  FreshInv'
<1>1. Outstanding' = {}
  BY BegunPlaces
<1>2. /\ UNCHANGED <<mtime, version, beside, cache, outcomes, at, job, seen>>
      /\ since' = [e \in Entries |-> beside[e][mtime[e]]]
      /\ list' = unread' /\ outcomes = {}
  BY DEF Begin, files, channels, pool, PlacesInv, Counted
<1>3. \A w \in Slots : at[w] # "paths"
  BY DEF Begin, PlacesInv, Counted, Busy
<1>4. Since'
  <2>1. \A e \in Entries : since'[e] = beside[e][mtime[e]] /\ since'[e] \in Nat
    BY <1>2, Constants DEF TypeOK
  <2> QED BY <1>2, <2>1 DEF Since, FreshInv
<1>5. JobsFresh'
  BY <1>1 DEF JobsFresh
<1>6. SeenFresh' /\ AnswersFresh' /\ CacheFresh'
  BY <1>2, <1>3 DEF SeenFresh, AnswersFresh, CacheFresh, FreshInv
<1>7. Covered'
  BY <1>2 DEF Covered
<1> QED BY <1>4, <1>5, <1>6, <1>7 DEF FreshInv

(* Parts of the invariant that only a goroutine or another program can touch. *)
LEMMA CallerKeeps ==
  ASSUME TypeOK, TypeOK', FreshInv, UNCHANGED <<mtime, version, beside, since, missing, job, seen>>, outcomes' \subseteq outcomes,
         \A w \in Slots : at'[w] = "paths" => at[w] = "paths"
  PROVE  Since' /\ SeenFresh' /\ AnswersFresh'
BY DEF FreshInv, Since, SeenFresh, AnswersFresh, Fresh, Floor, FreshIdentity

LEMMA LookedFresh ==
  ASSUME TypeOK, TypeOK', PlacesInv, FreshInv, Stat
  PROVE  PlacesInv' /\ FreshInv'
<1>1. PICK e \in unread :
        /\ unread' = unread \ {e}
        /\ IF e \in paks /\ Cached(e) # Nothing
           THEN results' = [results EXCEPT ![e] = Cached(e)] /\ UNCHANGED misses
           ELSE /\ misses' = misses \cup
                     {[entry |-> e, mtime |-> IF e \in paks THEN mtime[e] ELSE Unknown]}
                /\ UNCHANGED results
  BY DEF Stat
<1>2. misses' = misses \/ misses' = misses \cup {NewJob(e)}
  BY <1>1 DEF NewJob
<1>3. PlacesInv' /\ Outstanding' = misses' /\ Outstanding = misses
  BY <1>1, <1>2, LookedPlaces
<1>4. UNCHANGED <<mtime, version, beside, cache, outcomes, at, job, seen, since, missing, pc, list>>
  BY DEF Stat, files, channels, pool
<1>5. Since' /\ SeenFresh' /\ AnswersFresh'
  BY <1>4, CallerKeeps
<1>6. CacheFresh'
  BY <1>4 DEF FreshInv, CacheFresh
<1>7. e \in Entries /\ mtime[e] \in Versions /\ mtime[e] \in Nat
  BY Constants DEF TypeOK
<1>8. NewJob(e).entry = e /\ NewJob(e).mtime <= mtime[e]
  BY <1>7 DEF NewJob, Unknown
<1>9. JobsFresh'
  <2>1. \A j \in misses' : j \in misses \/ j = NewJob(e)
    BY <1>2
  <2> QED BY <1>3, <1>4, <1>8, <2>1 DEF FreshInv, JobsFresh
<1>10. Covered'
  <2> SUFFICES ASSUME pc \notin {"idle", "shutting"}, NEW d \in list
               PROVE  d \in unread' \/ (\E j \in Outstanding' : j.entry = d) \/ Settled(d)'
    BY <1>4 DEF Covered
  <2>1. d \in Entries
    BY DEF TypeOK
  <2>2. CASE d # e
    <3>1. d \in unread \/ (\E j \in Outstanding : j.entry = d) \/ Settled(d)
      BY DEF FreshInv, Covered
    <3>2. results'[d] = results[d]
      BY <1>1, <2>1, <2>2 DEF TypeOK
    <3>3. Settled(d) => Settled(d)'
      BY <1>4, <3>2 DEF Settled, FreshIdentity, Fresh, Floor
    <3>4. Outstanding \subseteq Outstanding'
      BY <1>2, <1>3
    <3> QED BY <1>1, <2>2, <3>1, <3>3, <3>4
  <2>3. CASE d = e /\ e \in paks /\ Cached(e) # Nothing
    <3>1. results'[e] = Cached(e) /\ Cached(e) = cache[e][mtime[e]]
      BY <1>1, <1>7, <2>3 DEF TypeOK, Cached
    <3>2. /\ beside[e][mtime[e]] <= Cached(e).encrypted /\ Cached(e).encrypted <= version[e]
          /\ beside[e][mtime[e]] <= Cached(e).paths /\ Cached(e).paths <= version[e]
      BY <1>7, <2>3, <3>1 DEF FreshInv, CacheFresh
    <3>3. Cached(e).encrypted \in Nat /\ Cached(e).paths \in Nat
      <4>1. cache[e][mtime[e]] \in Identities
        BY <1>7 DEF TypeOK
      <4> QED BY <3>1, <4>1 DEF Identities
    <3>4. since[e] \in Nat /\ beside[e][mtime[e]] \in Nat /\ since[e] <= beside[e][mtime[e]]
      BY <1>7, VersionTypes DEF FreshInv, Since
    <3>6. since[e] <= Cached(e).encrypted /\ since[e] <= Cached(e).paths
      BY <3>2, <3>3, <3>4
    <3>7. FreshIdentity(e, 0, Cached(e))
      BY <1>7, <3>2, <3>3, <3>6 DEF FreshIdentity, Fresh, Floor, Unknown
    <3>5. Settled(e)'
      BY <1>4, <2>3, <3>1, <3>7 DEF Settled, FreshIdentity, Fresh, Floor
    <3> QED BY <2>3, <3>5
  <2>4. CASE d = e /\ ~ (e \in paks /\ Cached(e) # Nothing)
    <3>1. NewJob(e) \in Outstanding'
      BY <1>1, <1>3, <2>4 DEF NewJob
    <3> QED BY <1>8, <2>4, <3>1
  <2> QED BY <2>2, <2>3, <2>4
<1> QED BY <1>3, <1>5, <1>6, <1>9, <1>10 DEF FreshInv

(* Steps of the call that find nothing out. *)
LEMMA PassedFresh ==
  ASSUME TypeOK, TypeOK', PlacesInv, FreshInv,
         Pool \/ Submit \/ Return \/ PoolClosed \/ DetectConflicts \/ Close \/ CloseDone
  PROVE  PlacesInv' /\ FreshInv'
<1>1. PlacesInv' /\ Outstanding' = Outstanding
  BY PooledPlaces, SubmittedPlaces, ReturnedPlaces, QuietPlaces
<1>2. UNCHANGED <<mtime, version, beside, cache, outcomes, job, seen, since, missing, list, unread, results>>
  BY DEF Pool, Submit, Return, PoolClosed, DetectConflicts, Close, CloseDone, files, channels, pool
<1>3. \A w \in Slots : at'[w] = "paths" => at[w] = "paths"
  BY DEF Pool, Submit, Return, PoolClosed, DetectConflicts, Close, CloseDone, pool
<1>4. Since' /\ SeenFresh' /\ AnswersFresh'
  BY <1>2, <1>3, CallerKeeps
<1>5. CacheFresh' /\ JobsFresh'
  BY <1>1, <1>2 DEF FreshInv, CacheFresh, JobsFresh
<1>6. pc' \notin {"idle", "shutting"} => pc \notin {"idle", "shutting"}
  BY DEF Pool, Submit, Return, PoolClosed, DetectConflicts, Close, CloseDone
<1>7. \A e \in Entries : Settled(e) => Settled(e)'
  BY <1>2 DEF Settled, FreshIdentity, Fresh, Floor
<1>8. Covered'
  BY <1>1, <1>2, <1>6, <1>7 DEF FreshInv, Covered, TypeOK
<1> QED BY <1>1, <1>4, <1>5, <1>8 DEF FreshInv

LEMMA CollectedFresh ==
  ASSUME TypeOK, TypeOK', PlacesInv, FreshInv, Collect
  PROVE  PlacesInv' /\ FreshInv'
<1>1. PICK o \in outcomes :
        /\ outcomes' = outcomes \ {o} /\ waiting' = waiting - 1
        /\ results' = [results EXCEPT ![o.entry] = o.found]
        /\ cache' = IF o.mtime = Unknown \/ o.found = Nothing THEN cache
                    ELSE [cache EXCEPT ![o.entry][o.mtime] = o.found]
  BY DEF Collect
<1>2. PlacesInv' /\ Outstanding' = Outstanding \ {JobOf(o)} /\ JobOf(o) \in Outstanding
  BY <1>1, CollectedPlaces
<1>3. UNCHANGED <<mtime, version, beside, at, job, seen, since, missing, pc, list, unread>>
  BY DEF Collect, files, pool
<1>4. Since' /\ SeenFresh' /\ AnswersFresh'
  BY <1>1, <1>3, CallerKeeps
<1>5. o.entry \in Entries /\ o.found \in Identities /\ o.mtime \in Nat
  BY DEF TypeOK, Answers
<1>6. IF o.found = Nothing THEN o.entry \in missing ELSE FreshIdentity(o.entry, o.mtime, o.found)
  BY DEF FreshInv, AnswersFresh
<1>7. JobsFresh'
  BY <1>2, <1>3 DEF FreshInv, JobsFresh
<1>8. CacheFresh'
  <2> SUFFICES ASSUME NEW e \in Entries, NEW v \in Versions, cache'[e][v] # Nothing
               PROVE  /\ v <= mtime[e]
                      /\ beside[e][v] <= cache'[e][v].encrypted /\ cache'[e][v].encrypted <= version[e]
                      /\ beside[e][v] <= cache'[e][v].paths /\ cache'[e][v].paths <= version[e]
    BY <1>3 DEF CacheFresh
  <2>1. CASE cache'[e][v] = cache[e][v]
    BY <2>1 DEF FreshInv, CacheFresh
  <2>2. CASE cache'[e][v] # cache[e][v]
    <3>1. e = o.entry /\ v = o.mtime /\ o.found # Nothing /\ cache'[e][v] = o.found
      BY <1>1, <1>5, <2>2 DEF TypeOK
    <3>2. Floor(e, v) = beside[e][v]
      BY Constants DEF Floor, Unknown
    <3> QED BY <1>6, <3>1, <3>2 DEF FreshIdentity, Fresh
  <2> QED BY <2>1, <2>2
<1>9. Covered'
  <2> SUFFICES ASSUME pc \notin {"idle", "shutting"}, NEW d \in list
               PROVE  d \in unread' \/ (\E j \in Outstanding' : j.entry = d) \/ Settled(d)'
    BY <1>3 DEF Covered
  <2>1. d \in Entries
    BY DEF TypeOK
  <2>2. CASE d # o.entry
    <3>1. results'[d] = results[d]
      BY <1>1, <2>1, <2>2 DEF TypeOK
    <3>2. Settled(d) => Settled(d)'
      BY <1>3, <3>1 DEF Settled, FreshIdentity, Fresh, Floor
    <3>3. JobOf(o).entry # d
      BY <2>2 DEF JobOf
    <3>4. d \in unread \/ (\E j \in Outstanding : j.entry = d) \/ Settled(d)
      BY DEF FreshInv, Covered
    <3> QED BY <1>2, <1>3, <3>2, <3>3, <3>4
  <2>3. CASE d = o.entry
    <3>1. results'[d] = o.found
      BY <1>1, <2>1, <2>3 DEF TypeOK
    <3>2. FreshIdentity(o.entry, o.mtime, o.found) => FreshIdentity(d, 0, o.found)
      <4>1. 0 <= mtime[d] /\ 0 <= o.found.encrypted /\ 0 <= o.found.paths
        BY <1>5, <2>1, VersionTypes DEF Identities
      <4>2. Floor(d, 0) = 0
        BY DEF Floor, Unknown
      <4> QED BY <2>3, <4>1, <4>2 DEF FreshIdentity, Fresh
    <3>3. FreshIdentity(d, 0, o.found) => FreshIdentity(d, 0, o.found)'
      BY <1>3 DEF FreshIdentity, Fresh, Floor
    <3> QED BY <1>3, <1>6, <2>3, <3>1, <3>2, <3>3 DEF Settled, FreshIdentity
  <2> QED BY <2>2, <2>3
<1> QED BY <1>2, <1>4, <1>7, <1>8, <1>9 DEF FreshInv

(* What a goroutine does to the other parts. *)
LEMMA WorkerKeeps ==
  ASSUME TypeOK, TypeOK', PlacesInv, FreshInv, NEW w \in Slots, Work(w) \/ Crash(w)
  PROVE  PlacesInv' /\ Since' /\ JobsFresh' /\ CacheFresh' /\ Covered'
<1>1. JobsKept(w)
  BY WorkedJob
<1>2. PlacesInv' /\ Outstanding' = Outstanding
  BY <1>1, KeptPlaces DEF JobsKept
<1>3. UNCHANGED <<mtime, version, beside, cache, since, list, unread, results, pc>> /\ missing \subseteq missing'
  BY DEF Work, Start, Take, AskEncrypted, AskPaths, End, Crash, WorkerOnly, files, caller, RequestFails, NoAnswer
<1>4. Since' /\ JobsFresh' /\ CacheFresh'
  BY <1>2, <1>3 DEF FreshInv, Since, JobsFresh, CacheFresh
<1>5. \A e \in Entries : Settled(e) => Settled(e)'
  BY <1>3 DEF Settled, FreshIdentity, Fresh, Floor
<1>6. Covered'
  BY <1>2, <1>3, <1>5 DEF FreshInv, Covered, TypeOK
<1> QED BY <1>2, <1>4, <1>6

(* The two results a goroutine leaves: versions it saw, and answers. *)
LEMMA NoAnswerFresh ==
  ASSUME TypeOK, FreshInv, NEW w \in Slots, NEW j \in Jobs, NoAnswer(w, j),
         UNCHANGED <<mtime, version, beside, since, seen>>
  PROVE  SeenFresh' /\ AnswersFresh'
<1>1. \A v \in Slots : at'[v] = "paths" => at[v] = "paths" /\ job'[v] = job[v]
  BY DEF NoAnswer, TypeOK
<1>2. SeenFresh'
  BY <1>1 DEF FreshInv, SeenFresh, Fresh, Floor
<1>3. \A o \in outcomes' : o \in outcomes \/ (o.entry = j.entry /\ o.found = Nothing)
  BY DEF NoAnswer, Answer
<1>4. AnswersFresh'
  BY <1>3 DEF FreshInv, AnswersFresh, NoAnswer, FreshIdentity, Fresh, Floor
<1> QED BY <1>2, <1>4

LEMMA WorkerSees ==
  ASSUME TypeOK, TypeOK', PlacesInv, FreshInv, NEW w \in Slots, Work(w) \/ Crash(w)
  PROVE  SeenFresh' /\ AnswersFresh'
<1> USE DEF WorkerOnly, files, caller
<1>1. CASE Start(w) \/ End(w) \/ Crash(w)
  <2>1. UNCHANGED <<mtime, version, beside, since, job, seen, outcomes, missing>>
    BY <1>1 DEF Start, End, Crash, channels
  <2>2. \A v \in Slots : at'[v] = "paths" => at[v] = "paths"
    BY <1>1 DEF Start, End, Crash, TypeOK
  <2> QED BY <2>1, <2>2 DEF FreshInv, SeenFresh, AnswersFresh, Fresh, Floor, FreshIdentity
<1>2. CASE Take(w)
  <2>1. UNCHANGED <<mtime, version, beside, since, seen>> /\ Head(queue) \in Jobs
    BY <1>2, QueueType DEF Take
  <2>2. CASE NoAnswer(w, Head(queue))
    BY <2>1, <2>2, NoAnswerFresh
  <2>3. CASE /\ at' = [at EXCEPT ![w] = "encrypted"] /\ job' = [job EXCEPT ![w] = Head(queue)]
             /\ UNCHANGED <<outcomes, missing>>
    <3>1. \A v \in Slots : at'[v] = "paths" => at[v] = "paths" /\ job'[v] = job[v]
      BY <2>3 DEF TypeOK
    <3> QED BY <2>1, <2>3, <3>1 DEF FreshInv, SeenFresh, AnswersFresh, Fresh, Floor, FreshIdentity
  <2> QED BY <1>2, <2>2, <2>3 DEF Take
<1>3. CASE AskEncrypted(w) \/ AskPaths(w)
  <2>1. w \in Busy /\ job[w] \in Jobs /\ job[w] \in Outstanding
    BY <1>3 DEF AskEncrypted, AskPaths, Busy, PlacesInv, Counted, Running, Outstanding
  <2> DEFINE e == job[w].entry
             m == job[w].mtime
  <2>2. /\ e \in Entries /\ m \in Nat /\ version[e] \in Versions /\ since[e] \in Nat
        /\ m <= mtime[e] /\ mtime[e] \in Versions
    BY <2>1, Constants DEF Jobs, TypeOK, FreshInv, JobsFresh
  <2>3. version[e] \in Nat /\ version[e] # 0 /\ Fresh(e, m, version[e])
    <3>1. version[e] \in Nat /\ version[e] # 0
      BY <2>2, Constants
    <3>2. Floor(e, m) \in Nat /\ Floor(e, m) <= version[e]
      <4>1. CASE m = Unknown
        BY <3>1, <4>1 DEF Floor
      <4>2. CASE m \in Versions
        <5>1. beside[e][m] <= version[e] /\ beside[e][m] \in Nat
          BY <2>2, <4>2, VersionTypes DEF FreshInv, Since
        <5> QED BY <4>2, <5>1, Constants DEF Floor, Unknown
      <4> QED BY <2>2, <4>1, <4>2, KnownTime
    <3>3. since[e] <= version[e]
      <4>1. since[e] <= beside[e][mtime[e]] /\ beside[e][mtime[e]] <= version[e]
        <5>1. mtime[e] \in Nat
          BY <2>2, Constants
        <5>2. mtime[e] <= mtime[e]
          BY <5>1
        <5>3. \A t \in Versions : t <= mtime[e] => beside[e][t] <= version[e]
          BY <2>2 DEF FreshInv, Since
        <5>4. since[e] <= beside[e][mtime[e]]
          BY <2>2 DEF FreshInv, Since
        <5> QED BY <2>2, <5>2, <5>3, <5>4
      <4>2. beside[e][mtime[e]] \in Nat
        BY <2>2, VersionTypes
      <4> QED BY <2>2, <3>1, <4>1, <4>2
    <3> QED BY <2>2, <3>1, <3>2, <3>3 DEF Fresh
  <2>4. UNCHANGED <<mtime, version, beside, since>>
    BY <1>3 DEF AskEncrypted, AskPaths
  <2>5. CASE RequestFails(w)
    BY <2>1, <2>4, <2>5, NoAnswerFresh DEF RequestFails
  <2>6. CASE ~ RequestFails(w) /\ AskEncrypted(w)
    <3>1. /\ seen' = [seen EXCEPT ![w] = version[e]] /\ at' = [at EXCEPT ![w] = "paths"]
          /\ UNCHANGED <<outcomes, job, missing>>
      BY <2>6 DEF AskEncrypted
    <3>2. \A v \in Slots : v # w => at'[v] = at[v] /\ seen'[v] = seen[v]
      BY <3>1 DEF TypeOK
    <3>3. seen'[w] = version[e]
      BY <3>1 DEF TypeOK
    <3>4. SeenFresh'
      BY <2>3, <2>4, <3>1, <3>2, <3>3 DEF FreshInv, SeenFresh, Fresh, Floor
    <3>5. AnswersFresh'
      BY <2>4, <3>1 DEF FreshInv, AnswersFresh, FreshIdentity, Fresh, Floor
    <3> QED BY <3>4, <3>5
  <2>7. CASE ~ RequestFails(w) /\ AskPaths(w)
    <3> DEFINE found == [encrypted |-> seen[w], paths |-> version[e]]
    <3>1. /\ Answer(job[w], found) /\ UNCHANGED missing /\ at[w] = "paths"
          /\ at' = [at EXCEPT ![w] = "idle"] /\ job' = [job EXCEPT ![w] = NoJob]
          /\ seen' = [seen EXCEPT ![w] = Unknown]
      BY <2>7 DEF AskPaths
    <3>2. \A v \in Slots : at'[v] = "paths" => at[v] = "paths" /\ job'[v] = job[v] /\ seen'[v] = seen[v]
      BY <3>1 DEF TypeOK
    <3>3. SeenFresh'
      BY <2>4, <3>2 DEF FreshInv, SeenFresh, Fresh, Floor
    <3>4. found # Nothing /\ found.encrypted = seen[w] /\ found.paths = version[e]
      BY <2>3 DEF Nothing, Unknown
    <3> HIDE DEF found
    <3>5. Fresh(e, m, seen[w])
      BY <3>1 DEF FreshInv, SeenFresh
    <3>6. FreshIdentity(e, m, found)
      BY <2>3, <3>4, <3>5 DEF FreshIdentity
    <3>7. \A o \in outcomes' : o \in outcomes \/ (o.entry = e /\ o.mtime = m /\ o.found = found)
      BY <3>1 DEF Answer
    <3>8. AnswersFresh'
      BY <2>4, <3>1, <3>4, <3>6, <3>7 DEF FreshInv, AnswersFresh, FreshIdentity, Fresh, Floor
    <3> QED BY <3>3, <3>8
  <2> QED BY <1>3, <2>5, <2>6, <2>7
<1> QED BY <1>1, <1>2, <1>3 DEF Work

LEMMA ChangedAhead ==
  ASSUME TypeOK, TypeOK', Since, NEW e \in Entries, ChangePak(e) \/ ChangeUtoc(e)
  PROVE  Ahead /\ Since'
<1>1. \A d \in Entries : /\ version[d] \in Nat /\ mtime[d] \in Versions /\ mtime[d] \in Nat /\ since[d] \in Nat
                         /\ \A t \in Versions : beside[d][t] \in Nat
  BY VersionTypes
<1>2. CASE ChangePak(e)
  <2>1. /\ mtime' = [mtime EXCEPT ![e] = mtime[e] + 1] /\ UNCHANGED <<version, since>>
        /\ beside' = [beside EXCEPT ![e][mtime[e] + 1] = version[e]]
    BY <1>2 DEF ChangePak, caller
  <2>2. \A d \in Entries : d # e => mtime'[d] = mtime[d] /\ beside'[d] = beside[d]
    BY <2>1 DEF TypeOK
  <2>3. mtime'[e] = mtime[e] + 1 /\ mtime[e] + 1 \in Versions
    BY <2>1 DEF TypeOK
  <2>4. \A t \in Versions : beside'[e][t] = IF t = mtime[e] + 1 THEN version[e] ELSE beside[e][t]
    BY <2>1, <2>3 DEF TypeOK
  <2>5. \A t \in Versions : t \in Nat
    BY Constants
  <2>6. \A t \in Versions : t <= mtime[e] => beside'[e][t] = beside[e][t]
    BY <1>1, <2>4, <2>5
  <2>7. Ahead
    BY <1>1, <2>1, <2>2, <2>3, <2>6 DEF Ahead
  <2>8. since[e] <= version[e]
    <3>1. since[e] <= beside[e][mtime[e]] /\ beside[e][mtime[e]] <= version[e] /\ beside[e][mtime[e]] \in Nat
      BY <1>1 DEF Since
    <3> QED BY <1>1, <3>1
  <2>9. \A t \in Versions : t <= mtime[e] + 1 => beside'[e][t] <= version[e]
    BY <1>1, <2>4, <2>5 DEF Since
  <2>10. Since'
    <3>1. since'[e] <= beside'[e][mtime'[e]]
      BY <2>1, <2>3, <2>4, <2>8
    <3> QED BY <2>1, <2>2, <2>3, <2>9, <3>1 DEF Since
  <2> QED BY <2>7, <2>10
<1>3. CASE ChangeUtoc(e)
  <2>1. version' = [version EXCEPT ![e] = version[e] + 1] /\ UNCHANGED <<mtime, beside, since>>
    BY <1>3 DEF ChangeUtoc, caller
  <2>2. \A d \in Entries : version[d] <= version'[d] /\ version'[d] \in Nat
    <3>1. version'[e] = version[e] + 1 /\ \A d \in Entries : d # e => version'[d] = version[d]
      BY <2>1 DEF TypeOK
    <3> QED BY <1>1, <3>1
  <2>3. Ahead
    BY <1>1, <2>1, <2>2 DEF Ahead
  <2>4. \A d \in Entries : \A t \in Versions : t <= mtime[d] => beside[d][t] <= version'[d]
    BY <1>1, <2>2 DEF Since
  <2> QED BY <2>1, <2>3, <2>4 DEF Since
<1> QED BY <1>2, <1>3

LEMMA ChangedFresh ==
  ASSUME TypeOK, TypeOK', PlacesInv, FreshInv, NEW e \in Entries, ChangePak(e) \/ ChangeUtoc(e)
  PROVE  PlacesInv' /\ FreshInv'
<1>1. UNCHANGED <<cache, caller, channels, pool, closed, missing>>
  BY DEF ChangePak, ChangeUtoc
<1>2. PlacesInv' /\ Outstanding' = Outstanding
  BY <1>1, ForeignPlaces
<1>3. Ahead /\ Since'
  BY ChangedAhead DEF FreshInv
<1>4. /\ \A d \in Entries, m, v \in Nat : Fresh(d, m, v) => Fresh(d, m, v)'
      /\ \A d \in Entries, m \in Nat, i \in Identities : FreshIdentity(d, m, i) => FreshIdentity(d, m, i)'
  BY <1>1, <1>3, FreshGrows DEF caller
<1>5. \A d \in Entries : /\ mtime[d] \in Nat /\ mtime'[d] \in Nat /\ mtime[d] <= mtime'[d]
                         /\ version[d] \in Nat /\ version'[d] \in Nat /\ version[d] <= version'[d]
  BY <1>3, Constants DEF TypeOK, Ahead
<1>6. JobsFresh'
  <2>1. \A j \in Outstanding : j.entry \in Entries /\ j.mtime \in Nat
    <3>1. misses \subseteq Jobs /\ Running \subseteq Jobs
      BY DEF TypeOK, PlacesInv, Counted
    <3>2. Queued \subseteq Jobs
      BY DEF TypeOK, Queued, Elements
    <3>3. Answered \subseteq Jobs
      BY DEF TypeOK, Answered, JobOf, Answers, Jobs
    <3> QED BY <3>1, <3>2, <3>3 DEF Outstanding, Jobs
  <2> QED BY <1>2, <1>5, <2>1 DEF FreshInv, JobsFresh
<1>7. SeenFresh'
  <2>1. \A w \in Slots : at[w] = "paths" => job[w] \in Jobs
    BY DEF PlacesInv, Counted, Running, Busy
  <2> QED BY <1>1, <1>4, <2>1 DEF FreshInv, SeenFresh, pool, Jobs, TypeOK
<1>8. AnswersFresh'
  BY <1>1, <1>4 DEF FreshInv, AnswersFresh, channels, TypeOK, Answers
<1>9. CacheFresh'
  <2>1. \A d \in Entries, v \in Versions : cache[d][v].encrypted \in Nat /\ cache[d][v].paths \in Nat
    <3>1. \A d \in Entries, v \in Versions : cache[d][v] \in Identities
      BY DEF TypeOK
    <3> QED BY <3>1 DEF Identities
  <2>2. \A d \in Entries, n \in Nat : n <= version[d] => n <= version'[d]
    BY <1>5
  <2> SUFFICES ASSUME NEW d \in Entries, NEW v \in Versions, cache'[d][v] # Nothing
               PROVE  /\ v <= mtime'[d]
                      /\ beside'[d][v] <= cache'[d][v].encrypted /\ cache'[d][v].encrypted <= version'[d]
                      /\ beside'[d][v] <= cache'[d][v].paths /\ cache'[d][v].paths <= version'[d]
    BY DEF CacheFresh
  <2>3. /\ v <= mtime[d]
        /\ beside[d][v] <= cache[d][v].encrypted /\ cache[d][v].encrypted <= version[d]
        /\ beside[d][v] <= cache[d][v].paths /\ cache[d][v].paths <= version[d]
    BY <1>1 DEF FreshInv, CacheFresh
  <2>4. beside'[d][v] = beside[d][v]
    BY <1>3, <2>3 DEF Ahead
  <2>5. v <= mtime'[d]
    BY <1>5, <2>3, Constants
  <2> QED BY <1>1, <2>1, <2>2, <2>3, <2>4, <2>5
<1>10. Covered'
  <2>1. \A d \in Entries : Settled(d) => Settled(d)'
    BY <1>1, <1>3, SettledStays DEF caller
  <2> QED BY <1>1, <1>2, <2>1 DEF FreshInv, Covered, caller, TypeOK
<1> QED BY <1>2, <1>3, <1>6, <1>7, <1>8, <1>9, <1>10 DEF FreshInv

-----------------------------------------------------------------------------
ClassifierInv == TypeOK /\ PoolInv /\ PlacesInv /\ FreshInv

LEMMA ClassifierStep ==
  ASSUME ClassifierInv, [Next]_vars
  PROVE  ClassifierInv'
<1> USE DEF ClassifierInv
<1>1. CASE UNCHANGED vars
  <2>1. TypeOK' /\ UNCHANGED <<files, cache, caller, channels, pool, closed, missing>>
    BY <1>1 DEF vars, TypeOK, files, caller, channels, pool
  <2>2. PlacesInv' /\ Outstanding' = Outstanding
    BY <2>1, ForeignPlaces
  <2>3. FreshInv'
    BY <2>1, <2>2 DEF FreshInv, Since, JobsFresh, SeenFresh, AnswersFresh, CacheFresh, Covered, Settled,
                      FreshIdentity, Fresh, Floor, files, caller, channels, pool
  <2> QED BY <1>1, <2>1, <2>2, <2>3, PoolStutter
<1>2. CASE Begin \/ Classify \/ DetectConflicts \/ Close
  <2>0. PoolInv'
    BY <1>2, PoolStep DEF Next
  <2>1. TypeOK'
    BY <1>2, CallerType DEF PlacesInv
  <2> QED BY <1>2, <2>0, <2>1, BegunPlaces, BegunFresh, LookedFresh, PassedFresh, CollectedFresh DEF Classify
<1>3. ASSUME NEW w \in Slots, Work(w) \/ Crash(w) PROVE ClassifierInv'
  <2>0. PoolInv'
    BY <1>3, PoolStep DEF Next
  <2>1. TypeOK'
    BY <1>3, WorkerType DEF PlacesInv, Counted
  <2> QED BY <1>3, <2>0, <2>1, WorkerKeeps, WorkerSees DEF FreshInv
<1>4. ASSUME NEW e \in Changing, ChangePak(e) \/ ChangeUtoc(e) PROVE ClassifierInv'
  <2>1. PoolInv' /\ e \in Entries
    BY <1>4, PoolStep, ClassifierAssumption DEF Next
  <2> QED BY <1>4, <2>1, ChangeType, ChangedFresh
<1> QED BY <1>1, <1>2, <1>3, <1>4 DEF Next

LEMMA ClassifierInvariant == Spec => []ClassifierInv
<1>1. Init => ClassifierInv
  BY InitType, InitPool, InitPlaces, InitFresh DEF ClassifierInv
<1> QED BY <1>1, ClassifierStep, PTL DEF Spec

(* Every variable of the classifier and its pool keeps its type, and a job *)
(* that a goroutine works on is one of the call's.                         *)
THEOREM ClassifierTypeCorrect == Spec => []TypeOK
BY ClassifierInvariant, PTL DEF ClassifierInv

(* A call returns when no job is left, so that every mod it names is       *)
(* settled.                                                                *)
LEMMA ServeMeans == ASSUME ClassifierInv PROVE ServedFresh
<1> SUFFICES ASSUME pc = "returned", NEW e \in list
             PROVE  IF results[e] = Nothing THEN e \in missing
                    ELSE {results[e].encrypted, results[e].paths} \subseteq since[e] .. version[e]
  BY DEF ServedFresh
<1>1. Outstanding = {} /\ unread = {}
  BY NoneRunning DEF ClassifierInv, PlacesInv, Counted
<1>2. e \in Entries /\ results[e] \in Identities /\ since[e] \in Nat /\ version[e] \in Nat
  BY Constants DEF ClassifierInv, TypeOK
<1>3. Settled(e)
  BY <1>1 DEF ClassifierInv, FreshInv, Covered, TypeOK
<1>4. CASE results[e] # Nothing
  <2>1. /\ results[e].encrypted \in Nat /\ results[e].paths \in Nat
        /\ since[e] <= results[e].encrypted /\ results[e].encrypted <= version[e]
        /\ since[e] <= results[e].paths /\ results[e].paths <= version[e]
    BY <1>2, <1>3, <1>4 DEF Settled, FreshIdentity, Fresh, Identities
  <2> QED BY <1>2, <1>4, <2>1
<1> QED BY <1>3, <1>4 DEF Settled

(* An identity a call returns is made of answers about the .utoc that was  *)
(* beside the primary file when that was written, or a later one; a mod is *)
(* called unknown only when listing it failed in this very call: the cache *)
(* never serves what was listed before a mod was replaced, if its .pak was *)
(* written last, and remembers no failure.                                 *)
THEOREM ServedIsFresh == Spec => []ServedFresh
BY ClassifierInvariant, ServeMeans, PTL

(* Every process belongs to a goroutine of the current pool or of one      *)
(* being closed, and after the shutdown there is none, unless a call of    *)
(* Classify that waited for it, or comes later, makes a new pool.          *)
THEOREM NoneOrphaned == Spec => []NoOrphans
<1>1. ClassifierInv => NoOrphans
  BY PoolMeans DEF ClassifierInv
<1> QED BY <1>1, ClassifierInvariant, PTL

-----------------------------------------------------------------------------
(* The conflict scan.  Its groups come from two nested folds; a fold is    *)
(* followed along the segments 1 .. k by well-founded induction.           *)

(* Induction up to n, over a set instead of a predicate. *)
LEMMA Induct ==
  ASSUME NEW n \in Nat, NEW T, 0 \in T, \A k \in 1 .. n : k - 1 \in T => k \in T
  PROVE  0 .. n \subseteq T
<1> SUFFICES ASSUME (0 .. n) \ T # {} PROVE FALSE
  OBVIOUS
<1>1. \E x \in (0 .. n) \ T : \A y \in (0 .. n) \ T : ~ (<<y, x>> \in OpToRel(<, Nat))
  <2>1. (0 .. n) \ T \subseteq Nat
    OBVIOUS
  <2> QED BY <2>1, NatLessThanWellFounded, WFMin
<1>2. \A x, y \in Nat : <<y, x>> \in OpToRel(<, Nat) <=> y < x
  BY DEF OpToRel
<1>4. PICK x \in (0 .. n) \ T : \A y \in (0 .. n) \ T : ~ (<<y, x>> \in OpToRel(<, Nat))
  BY <1>1
<1>5. x \in Nat /\ x # 0 /\ x \in 0 .. n /\ x \notin T
  OBVIOUS
<1>6. x - 1 \in Nat /\ x - 1 < x /\ x - 1 \in 0 .. n /\ x \in 1 .. n
  BY <1>5
<1>7. x - 1 \in (0 .. n) \ T
  BY <1>5, <1>6
<1>8. <<x - 1, x>> \in OpToRel(<, Nat)
  BY <1>2, <1>5, <1>6
<1> QED BY <1>4, <1>7, <1>8

(* A fold over 1 .. n as a function of the sets it takes its elements from. *)
Folded(g, n, base, step) ==
  \A s \in SUBSET (1 .. n) : g[s] = IF s = {} THEN base ELSE step[<<Max(s), g[s \ {Max(s)}]>>]

LEMMA MaxIs == ASSUME NEW n \in Nat, NEW s \in SUBSET (1 .. n), n \in s PROVE Max(s) = n
<1>1. \A y \in s : n >= y
  OBVIOUS
<1>2. \A x \in s : (\A y \in s : x >= y) => x = n
  OBVIOUS
<1> QED BY <1>1, <1>2 DEF Max

LEMMA FoldExists ==
  ASSUME NEW n \in Nat, NEW X, NEW base \in X, NEW step \in [(1 .. n) \X X -> X]
  PROVE  \E g \in [SUBSET (1 .. n) -> X] : Folded(g, n, base, step)
<1> DEFINE T == {k \in 0 .. n : \E g \in [SUBSET (1 .. k) -> X] : Folded(g, k, base, step)}
<1>1. 0 \in T
  <2> DEFINE g == [s \in SUBSET (1 .. 0) |-> base]
  <2>1. \A s \in SUBSET (1 .. 0) : s = {}
    OBVIOUS
  <2>2. g \in [SUBSET (1 .. 0) -> X] /\ Folded(g, 0, base, step)
    BY <2>1 DEF Folded
  <2> QED BY <2>2
<1>2. ASSUME NEW k \in 1 .. n, k - 1 \in T PROVE k \in T
  <2>1. PICK h \in [SUBSET (1 .. k - 1) -> X] : Folded(h, k - 1, base, step)
    BY <1>2
  <2> DEFINE g == [s \in SUBSET (1 .. k) |-> IF k \in s THEN step[<<k, h[s \ {k}]>>] ELSE h[s]]
  <2>2. k \in Nat /\ \A s \in SUBSET (1 .. k) : s \ {k} \in SUBSET (1 .. k - 1)
    OBVIOUS
  <2>3. \A s \in SUBSET (1 .. k) : k \notin s => s \in SUBSET (1 .. k - 1)
    OBVIOUS
  <2>4. g \in [SUBSET (1 .. k) -> X]
    BY <2>2, <2>3
  <2>5. ASSUME NEW s \in SUBSET (1 .. k)
        PROVE  g[s] = IF s = {} THEN base ELSE step[<<Max(s), g[s \ {Max(s)}]>>]
    <3>1. CASE k \in s
      <4>1. Max(s) = k /\ g[s] = step[<<k, h[s \ {k}]>>]
        BY <2>2, <3>1, MaxIs
      <4>2. g[s \ {k}] = h[s \ {k}]
        BY <2>2
      <4> QED BY <3>1, <4>1, <4>2
    <3>2. CASE k \notin s
      <4>1. s \in SUBSET (1 .. k - 1) /\ g[s] = h[s]
        BY <2>3, <3>2
      <4>2. s \ {Max(s)} \in SUBSET (1 .. k - 1) /\ g[s \ {Max(s)}] = h[s \ {Max(s)}]
        BY <2>3, <3>2, <4>1
      <4> HIDE DEF g
      <4> QED BY <2>1, <4>1, <4>2 DEF Folded
    <3> QED BY <3>1, <3>2
  <2> HIDE DEF g
  <2>6. Folded(g, k, base, step)
    BY <2>5 DEF Folded
  <2> QED BY <2>4, <2>6
<1>3. n \in T
  <2> HIDE DEF T
  <2> QED BY <1>1, <1>2, Induct
<1> QED BY <1>3

LEMMA MaxIn == ASSUME NEW n \in Nat, NEW s \in SUBSET (1 .. n), s # {} PROVE Max(s) \in s
<1> DEFINE T == {k \in 0 .. n : \A t \in SUBSET (1 .. k) : t # {} => Max(t) \in t}
<1>1. 0 \in T
  <2>1. \A t \in SUBSET (1 .. 0) : t = {}
    OBVIOUS
  <2>2. \A t \in SUBSET (1 .. 0) : t # {} => Max(t) \in t
    BY <2>1, Zenon
  <2>3. 0 \in 0 .. n
    OBVIOUS
  <2> QED BY <2>2, <2>3
<1>2. ASSUME NEW k \in 1 .. n, k - 1 \in T PROVE k \in T
  <2> SUFFICES ASSUME NEW t \in SUBSET (1 .. k), t # {} PROVE Max(t) \in t
    OBVIOUS
  <2>1. CASE k \in t
    BY <2>1, MaxIs
  <2>2. CASE k \notin t
    <3>1. t \in SUBSET (1 .. k - 1)
      BY <2>2
    <3> QED BY <1>2, <3>1
  <2> QED BY <2>1, <2>2
<1>3. n \in T
  <2> HIDE DEF T
  <2> QED BY <1>1, <1>2, Induct
<1> QED BY <1>3

(* The elements of a fold come one after the other. *)
LEMMA Segments ==
  ASSUME NEW n \in Nat, NEW k \in 1 .. n
  PROVE  /\ 1 .. k \in SUBSET (1 .. n) /\ 1 .. k # {} /\ Max(1 .. k) = k
         /\ (1 .. k) \ {k} = 1 .. k - 1 /\ k - 1 \in 0 .. n
<1>1. k \in Nat /\ 1 .. k \in SUBSET (1 .. n) /\ k \in 1 .. k
  OBVIOUS
<1>2. Max(1 .. k) = k
  BY <1>1, MaxIs
<1> QED BY <1>1, <1>2

-----------------------------------------------------------------------------
(* The roots of connectedEntries.  Kept(r, s): what r has united stays     *)
(* united in s.  Within(r, S): no mod of S is united with one outside.     *)
Kept(r, s) == \A x, y \in DOMAIN r : r[x] = r[y] => s[x] = s[y]
Within(r, S) == \A x, y \in DOMAIN r : r[x] = r[y] /\ x \in S => y \in S
(* r comes from root by uniting mods of P only. *)
United(D, root, P, r) ==
  /\ r \in [D -> D] /\ Kept(root, r)
  /\ \A S \in SUBSET D : Within(root, S) /\ (P \subseteq S \/ P \cap S = {}) => Within(r, S)

LEMMA UnionStep ==
  ASSUME NEW D, NEW r \in [D -> D], NEW a \in D, NEW b \in D
  PROVE  /\ Union(r, a, b) \in [D -> D] /\ Kept(r, Union(r, a, b)) /\ Union(r, a, b)[a] = Union(r, a, b)[b]
         /\ \A S \in SUBSET D : Within(r, S) /\ (a \in S <=> b \in S) => Within(Union(r, a, b), S)
BY DEF Union, Kept, Within

LEMMA UnionUnited ==
  ASSUME NEW D, NEW root \in [D -> D], NEW P \in SUBSET D, NEW r, United(D, root, P, r), NEW a \in P, NEW b \in P
  PROVE  United(D, root, P, Union(r, a, b))
<1> DEFINE u == Union(r, a, b)
<1>1. r \in [D -> D] /\ a \in D /\ b \in D
  BY DEF United
<1>2. /\ u \in [D -> D] /\ Kept(r, u)
      /\ \A S \in SUBSET D : Within(r, S) /\ (a \in S <=> b \in S) => Within(u, S)
  BY <1>1, UnionStep
<1> HIDE DEF u
<1>3. Kept(root, u)
  BY <1>1, <1>2 DEF United, Kept
<1>4. ASSUME NEW S \in SUBSET D, Within(root, S), P \subseteq S \/ P \cap S = {}
      PROVE  Within(u, S)
  <2>1. Within(r, S) /\ (a \in S <=> b \in S)
    BY <1>4 DEF United
  <2> QED BY <1>2, <2>1
<1>5. United(D, root, P, u)
  BY <1>2, <1>3, <1>4 DEF United
<1> QED BY <1>5 DEF u

(* After UnionPath all mods of the path are united, and nothing comes      *)
(* apart or is united across the border of a set that holds all of them    *)
(* or none.                                                                *)
LEMMA UnionPathRight ==
  ASSUME NEW D, NEW root \in [D -> D], NEW ids \in Seq(D), ids # <<>>,
         NEW P, P = {ids[i] : i \in 1 .. Len(ids)}
  PROVE  /\ United(D, root, P, UnionPath(root, ids))
         /\ \A x, y \in P : UnionPath(root, ids)[x] = UnionPath(root, ids)[y]
<1> DEFINE n == Len(ids) - 1
           seq == [k \in 1 .. n |-> k + 1]
           X == {r \in [D -> D] : United(D, root, P, r)}
           step == [x \in (1 .. n) \X X |-> Union(x[2], ids[1], ids[seq[x[1]]])]
           Iter(g) == g = [s \in SUBSET (DOMAIN seq) |->
                            IF s = {} THEN root ELSE Union(g[s \ {Max(s)}], ids[1], ids[seq[Max(s)]])]
<1>1. n \in Nat /\ DOMAIN seq = 1 .. n /\ \A k \in 1 .. n : k + 1 \in 1 .. Len(ids) /\ seq[k] = k + 1
  OBVIOUS
<1>2. P \in SUBSET D /\ ids[1] \in P /\ ids[1] \in D /\ \A k \in 1 .. n : ids[k + 1] \in P /\ ids[k + 1] \in D
  <2>1. 1 \in 1 .. Len(ids) /\ \A i \in 1 .. Len(ids) : ids[i] \in D
    OBVIOUS
  <2> QED BY <1>1, <2>1
<1>3. root \in X
  BY DEF Kept, United
<1>4. ASSUME NEW k \in 1 .. n, NEW r \in X PROVE Union(r, ids[1], ids[k + 1]) \in X
  <2> HIDE DEF n
  <2>1. United(D, root, P, Union(r, ids[1], ids[k + 1]))
    BY <1>2, <1>4, UnionUnited
  <2> QED BY <2>1 DEF United
<1>5. step \in [(1 .. n) \X X -> X]
  <2> HIDE DEF X, n
  <2>1. \A x \in (1 .. n) \X X : Union(x[2], ids[1], ids[seq[x[1]]]) \in X
    BY <1>1, <1>4
  <2> QED BY <2>1
<1>6. \E g : Iter(g)
  <2> HIDE DEF X, n, step
  <2>1. PICK g \in [SUBSET (1 .. n) -> X] : Folded(g, n, root, step)
    BY <1>1, <1>3, <1>5, FoldExists
  <2>2. ASSUME NEW s \in SUBSET (1 .. n)
        PROVE  g[s] = IF s = {} THEN root ELSE Union(g[s \ {Max(s)}], ids[1], ids[seq[Max(s)]])
    <3>1. CASE s = {}
      BY <2>1, <3>1 DEF Folded
    <3>2. CASE s # {}
      <4>1. Max(s) \in 1 .. n /\ g[s \ {Max(s)}] \in X
        BY <1>1, <2>1, <3>2, MaxIn
      <4>2. step[<<Max(s), g[s \ {Max(s)}]>>] = Union(g[s \ {Max(s)}], ids[1], ids[seq[Max(s)]])
        BY <4>1 DEF step
      <4> QED BY <2>1, <3>2, <4>2 DEF Folded
    <3> QED BY <3>1, <3>2
  <2>3. Iter(g)
    BY <1>1, <2>1, <2>2
  <2> QED BY <2>3
<1> DEFINE h == CHOOSE g : Iter(g)
<1>7. UnionPath(root, ids) = h[1 .. n]
  BY <1>1 DEF UnionPath, FoldLeft, MapThenFoldSet
<1>8. Iter(h)
  <2> HIDE DEF Iter
  <2> QED BY <1>6, Zenon
<1> HIDE DEF h
<1>9. h[1 .. 0] = root
  <2>1. 1 .. 0 = {} /\ {} \in SUBSET (DOMAIN seq)
    OBVIOUS
  <2> HIDE DEF seq
  <2> QED BY <1>8, <2>1
<1>10. ASSUME NEW k \in 1 .. n PROVE h[1 .. k] = Union(h[1 .. k - 1], ids[1], ids[k + 1])
  <2> HIDE DEF n, seq
  <2>1. /\ 1 .. k \in SUBSET (DOMAIN seq) /\ 1 .. k # {} /\ Max(1 .. k) = k /\ (1 .. k) \ {k} = 1 .. k - 1
        /\ seq[k] = k + 1
    BY <1>1, <1>10, Segments
  <2>2. h[1 .. k] = Union(h[(1 .. k) \ {Max(1 .. k)}], ids[1], ids[seq[Max(1 .. k)]])
    BY <1>8, <2>1
  <2> QED BY <2>1, <2>2
<1> DEFINE T == {k \in 0 .. n : h[1 .. k] \in X /\ \A i \in 1 .. k : h[1 .. k][ids[1]] = h[1 .. k][ids[i + 1]]}
<1>12. 0 \in T
  BY <1>1, <1>3, <1>9
<1>13. ASSUME NEW k \in 1 .. n, k - 1 \in T PROVE k \in T
  <2> DEFINE q == h[1 .. k - 1]
             u == h[1 .. k]
  <2>1. q \in X /\ q \in [D -> D] /\ \A i \in 1 .. k - 1 : q[ids[1]] = q[ids[i + 1]]
    BY <1>13
  <2>2. u = Union(q, ids[1], ids[k + 1])
    BY <1>10, <1>13
  <2>a. k \in 0 .. n /\ k \in Nat
    BY <1>1, <1>13
  <2>b. n \in Nat
    BY <1>1
  <2> HIDE DEF q, u, n, X
  <2>3. u \in X
    BY <1>4, <1>13, <2>1, <2>2
  <2>c. ids[1] \in D /\ ids[k + 1] \in D
    BY <1>2, <1>13
  <2>4. Kept(q, u) /\ u[ids[1]] = u[ids[k + 1]]
    <3>1. \A a, b \in D : Kept(q, Union(q, a, b)) /\ Union(q, a, b)[a] = Union(q, a, b)[b]
      BY <2>1, UnionStep
    <3> QED BY <2>c, <2>2, <3>1
  <2>5. ASSUME NEW i \in 1 .. k PROVE u[ids[1]] = u[ids[i + 1]]
    <3>1. CASE i = k
      BY <2>4, <3>1
    <3>2. CASE i # k
      <4>1. i \in 1 .. k - 1 /\ i \in 1 .. n
        BY <2>a, <2>b, <3>2
      <4>2. ids[i + 1] \in D /\ q[ids[1]] = q[ids[i + 1]]
        BY <1>2, <2>1, <4>1
      <4> QED BY <2>c, <2>1, <2>4, <4>2 DEF Kept
    <3> QED BY <3>1, <3>2
  <2> QED BY <2>3, <2>5, <2>a DEF u
<1>14. n \in T
  <2> HIDE DEF T, n
  <2>1. n \in 0 .. n
    BY <1>1
  <2> QED BY <1>1, <1>12, <1>13, <2>1, Induct
<1> DEFINE w == h[1 .. n]
<1>15. United(D, root, P, w) /\ \A i \in 1 .. n : w[ids[1]] = w[ids[i + 1]]
  BY <1>14
<1>16. \A i \in 1 .. Len(ids) : w[ids[i]] = w[ids[1]]
  <2> SUFFICES ASSUME NEW i \in 1 .. Len(ids), i # 1 PROVE w[ids[i]] = w[ids[1]]
    OBVIOUS
  <2>1. i - 1 \in 1 .. n /\ (i - 1) + 1 = i
    OBVIOUS
  <2> HIDE DEF n
  <2> QED BY <1>15, <2>1
<1> HIDE DEF w
<1>17. \A x, y \in P : w[x] = w[y]
  BY <1>16
<1> QED BY <1>7, <1>15, <1>17 DEF w

(* A sequence of the elements of a finite set, each once, has them all.    *)
LEMMA OntoRange ==
  ASSUME NEW S, IsFiniteSet(S), NEW f \in [1 .. Cardinality(S) -> S], IsInjective(f)
  PROVE  f \in Seq(S) /\ Len(f) = Cardinality(S) /\ {f[i] : i \in 1 .. Len(f)} = S
<1>1. Cardinality(S) \in Nat
  BY FS_CardinalityType
<1> DEFINE n == Cardinality(S)
<1> HIDE DEF n
<1>2. n \in Nat /\ f \in [1 .. n -> S]
  BY <1>1 DEF n
<1>3. IsFiniteSet(1 .. n) /\ Cardinality(1 .. n) = n
  <2>1. IsFiniteSet(1 .. n) /\ Cardinality(1 .. n) = IF 1 > n THEN 0 ELSE n - 1 + 1
    BY <1>2, FS_Interval
  <2> QED BY <1>2, <2>1
<1>4. f \in Injection(1 .. n, S)
  BY <1>2 DEF Injection, IsInjective
<1>5. f \in Surjection(1 .. n, S)
  BY <1>3, <1>4, FS_Injection DEF n
<1>6. f \in Seq(S) /\ Len(f) = n
  BY <1>2
<1>7. {f[i] : i \in 1 .. n} = S
  BY <1>5 DEF Surjection
<1> QED BY <1>6, <1>7 DEF n

LEMMA SetToSeqRight ==
  ASSUME NEW S, IsFiniteSet(S)
  PROVE  SetToSeq(S) \in Seq(S) /\ {SetToSeq(S)[i] : i \in 1 .. Len(SetToSeq(S))} = S
<1>1. \E f \in [1 .. Cardinality(S) -> S] : IsInjective(f)
  <2>1. ExistsBijection(1 .. Cardinality(S), S)
    BY FS_CardinalityType
  <2> QED BY <2>1 DEF ExistsBijection, Bijection, Injection, IsInjective
<1>2. SetToSeq(S) \in [1 .. Cardinality(S) -> S] /\ IsInjective(SetToSeq(S))
  BY <1>1, Zenon DEF SetToSeq
<1> QED BY <1>2, OntoRange

LEMMA OrderRight ==
  ASSUME NEW S, IsFiniteSet(S), NEW order \in SetToSeqs(S)
  PROVE  order \in Seq(S) /\ {order[i] : i \in 1 .. Len(order)} = S
<1>1. order \in [1 .. Cardinality(S) -> S] /\ IsInjective(order)
  BY DEF SetToSeqs, IsInjective
<1> QED BY <1>1, OntoRange

(* The holders of a path, some and finitely many of them. *)
Holders(listing, D, p) == PathIndex(listing)[p] \in SUBSET D /\ PathIndex(listing)[p] # {}
Bordered(listing, order, S) ==
  \A i \in 1 .. Len(order) : PathIndex(listing)[order[i]] \subseteq S \/ PathIndex(listing)[order[i]] \cap S = {}
Roots(listing, order) ==
  FoldLeft(LAMBDA r, p : UnionPath(r, SetToSeq(PathIndex(listing)[p])), [e \in DOMAIN listing |-> e], order)

(* After all paths the mods that hold one of them are united, and nothing  *)
(* is united across the border of a set that no path crosses.              *)
LEMMA RootsRight ==
  ASSUME NEW listing, NEW D, D = DOMAIN listing, IsFiniteSet(D), NEW order \in Seq(DOMAIN PathIndex(listing)),
         \A i \in 1 .. Len(order) : Holders(listing, D, order[i])
  PROVE  /\ Roots(listing, order) \in [D -> D]
         /\ \A i \in 1 .. Len(order) : \A x, y \in PathIndex(listing)[order[i]] :
              Roots(listing, order)[x] = Roots(listing, order)[y]
         /\ \A S \in SUBSET D : Bordered(listing, order, S) => Within(Roots(listing, order), S)
<1> DEFINE n == Len(order)
           root == [e \in DOMAIN listing |-> e]
           P(k) == PathIndex(listing)[order[k]]
           X == {r \in [D -> D] : \A S \in SUBSET D : Bordered(listing, order, S) => Within(r, S)}
           UniteAt(r, k) == UnionPath(r, SetToSeq(P(k)))
           step == [x \in (1 .. n) \X X |-> UniteAt(x[2], x[1])]
           Iter(g) == g = [s \in SUBSET (DOMAIN order) |->
                            IF s = {} THEN root ELSE UniteAt(g[s \ {Max(s)}], Max(s))]
<1>1. n \in Nat /\ DOMAIN order = 1 .. n
  OBVIOUS
<1>2. ASSUME NEW k \in 1 .. n
      PROVE  P(k) \in SUBSET D /\ P(k) # {} /\ IsFiniteSet(P(k))
  <2>1. P(k) \in SUBSET D /\ P(k) # {}
    BY <1>2 DEF Holders
  <2> QED BY <2>1, FS_Subset
<1>3. root \in X
  BY DEF Within
<1>4. ASSUME NEW k \in 1 .. n, NEW r \in [D -> D]
      PROVE  United(D, r, P(k), UniteAt(r, k)) /\ \A x, y \in P(k) : UniteAt(r, k)[x] = UniteAt(r, k)[y]
  <2> DEFINE Q == P(k)
             ids == SetToSeq(Q)
  <2>0. Q \in SUBSET D /\ Q # {} /\ IsFiniteSet(Q)
    BY <1>2
  <2> HIDE DEF Q, P
  <2>1. ids \in Seq(Q) /\ {ids[i] : i \in 1 .. Len(ids)} = Q
    BY <2>0, SetToSeqRight
  <2> HIDE DEF ids
  <2>2. ids \in Seq(D)
    BY <2>0, <2>1
  <2>3. ids # <<>>
    <3> SUFFICES ASSUME ids = <<>> PROVE FALSE
      OBVIOUS
    <3>1. 1 .. Len(ids) = {}
      OBVIOUS
    <3>2. {ids[i] : i \in 1 .. Len(ids)} = {}
      BY <3>1
    <3> QED BY <2>0, <2>1, <3>2
  <2>4. United(D, r, Q, UnionPath(r, ids)) /\ \A x, y \in Q : UnionPath(r, ids)[x] = UnionPath(r, ids)[y]
    BY <2>1, <2>2, <2>3, UnionPathRight
  <2> QED BY <2>4 DEF Q, ids
<1>5. ASSUME NEW k \in 1 .. n, NEW r \in X PROVE UniteAt(r, k) \in X
  <2> DEFINE u == UniteAt(r, k)
  <2>1. r \in [D -> D] /\ United(D, r, P(k), u)
    BY <1>4
  <2>2. \A S \in SUBSET D : Bordered(listing, order, S) => P(k) \subseteq S \/ P(k) \cap S = {}
    BY DEF Bordered
  <2> HIDE DEF u, P
  <2>3. u \in [D -> D]
    BY <2>1 DEF United
  <2>4. ASSUME NEW S \in SUBSET D, Bordered(listing, order, S) PROVE Within(u, S)
    <3>1. Within(r, S)
      BY <2>4
    <3> QED BY <2>1, <2>2, <2>4, <3>1 DEF United
  <2>5. u \in X
    BY <2>3, <2>4
  <2> QED BY <2>5 DEF u
<1>6. step \in [(1 .. n) \X X -> X]
  <2> HIDE DEF X, n, UniteAt
  <2>1. \A x \in (1 .. n) \X X : UniteAt(x[2], x[1]) \in X
    BY <1>1, <1>5
  <2> QED BY <2>1
<1>7. \E g : Iter(g)
  <2> HIDE DEF X, n, step, UniteAt, root
  <2>1. PICK g \in [SUBSET (1 .. n) -> X] : Folded(g, n, root, step)
    BY <1>1, <1>3, <1>6, FoldExists
  <2>2. ASSUME NEW s \in SUBSET (1 .. n)
        PROVE  g[s] = IF s = {} THEN root ELSE UniteAt(g[s \ {Max(s)}], Max(s))
    <3>1. CASE s = {}
      BY <2>1, <3>1 DEF Folded
    <3>2. CASE s # {}
      <4>1. Max(s) \in 1 .. n /\ g[s \ {Max(s)}] \in X
        BY <1>1, <2>1, <3>2, MaxIn
      <4>2. step[<<Max(s), g[s \ {Max(s)}]>>] = UniteAt(g[s \ {Max(s)}], Max(s))
        BY <4>1 DEF step
      <4> QED BY <2>1, <3>2, <4>2 DEF Folded
    <3> QED BY <3>1, <3>2
  <2>3. Iter(g)
    BY <1>1, <2>1, <2>2
  <2> QED BY <2>3
<1> DEFINE h == CHOOSE g : Iter(g)
<1>8. Roots(listing, order) = h[1 .. n]
  BY <1>1 DEF Roots, FoldLeft, MapThenFoldSet
<1>9. Iter(h)
  <2> HIDE DEF Iter
  <2> QED BY <1>7, Zenon
<1> HIDE DEF h
<1>10. h[1 .. 0] = root
  <2>1. 1 .. 0 = {} /\ {} \in SUBSET (DOMAIN order)
    OBVIOUS
  <2> HIDE DEF UniteAt
  <2> QED BY <1>9, <2>1
<1>11. ASSUME NEW k \in 1 .. n PROVE h[1 .. k] = UniteAt(h[1 .. k - 1], k)
  <2> HIDE DEF n, UniteAt
  <2>1. 1 .. k \in SUBSET (DOMAIN order) /\ 1 .. k # {} /\ Max(1 .. k) = k /\ (1 .. k) \ {k} = 1 .. k - 1
    BY <1>1, <1>11, Segments
  <2>2. h[1 .. k] = UniteAt(h[(1 .. k) \ {Max(1 .. k)}], Max(1 .. k))
    BY <1>9, <2>1
  <2> QED BY <2>1, <2>2
<1> DEFINE Joined(r, i) == \A x, y \in P(i) : r[x] = r[y]
           T == {k \in 0 .. n : h[1 .. k] \in X /\ \A i \in 1 .. k : Joined(h[1 .. k], i)}
<1>12. 0 \in T
  <2>1. 0 \in 0 .. n /\ 1 .. 0 = {}
    BY <1>1
  <2> HIDE DEF X, n, root, Joined
  <2> QED BY <1>3, <1>10, <2>1
<1>13. ASSUME NEW k \in 1 .. n, k - 1 \in T PROVE k \in T
  <2> DEFINE q == h[1 .. k - 1]
             u == h[1 .. k]
  <2>1. q \in X /\ q \in [D -> D] /\ \A i \in 1 .. k - 1 : Joined(q, i)
    BY <1>13
  <2>2. u = UniteAt(q, k)
    BY <1>11, <1>13
  <2>a. k \in 0 .. n /\ k \in Nat /\ n \in Nat
    BY <1>1, <1>13
  <2> HIDE DEF q, u, n, X, UniteAt
  <2>3. u \in X
    BY <1>5, <1>13, <2>1, <2>2
  <2>4. Kept(q, u) /\ Joined(u, k)
    BY <1>4, <1>13, <2>1, <2>2 DEF United
  <2>5. ASSUME NEW i \in 1 .. k PROVE Joined(u, i)
    <3>1. CASE i = k
      BY <2>4, <3>1
    <3>2. CASE i # k
      <4>1. i \in 1 .. k - 1 /\ i \in 1 .. n
        BY <2>a, <3>2
      <4>2. P(i) \in SUBSET D /\ Joined(q, i)
        BY <1>2, <2>1, <4>1
      <4> HIDE DEF P
      <4> QED BY <2>1, <2>4, <4>2 DEF Kept
    <3> QED BY <3>1, <3>2
  <2> HIDE DEF Joined
  <2> QED BY <2>3, <2>5, <2>a DEF u
<1>14. n \in T
  <2> HIDE DEF T, n
  <2>1. n \in 0 .. n
    BY <1>1
  <2> QED BY <1>1, <1>12, <1>13, <2>1, Induct
<1> DEFINE w == h[1 .. n]
<1>15. w \in X /\ \A i \in 1 .. n : Joined(w, i)
  BY <1>14
<1> HIDE DEF w
<1> QED BY <1>8, <1>15 DEF w

LEMMA TwoIsMany ==
  ASSUME NEW P, IsFiniteSet(P), NEW a \in P, NEW b \in P, a # b
  PROVE  Cardinality(P) >= 2
<1>1. IsFiniteSet({a}) /\ Cardinality({a}) = 1
  BY FS_Singleton
<1>2. IsFiniteSet({a} \cup {b}) /\ Cardinality({a} \cup {b}) = 2
  <2> DEFINE Q == {a}
  <2>1. b \notin Q
    OBVIOUS
  <2> HIDE DEF Q
  <2>2. IsFiniteSet(Q \cup {b}) /\ Cardinality(Q \cup {b}) = IF b \in Q THEN Cardinality(Q) ELSE Cardinality(Q) + 1
    <3>1. IsFiniteSet(Q)
      BY <1>1 DEF Q
    <3> QED BY <3>1, FS_AddElement
  <2>3. Cardinality(Q) = 1
    BY <1>1 DEF Q
  <2>4. IsFiniteSet(Q \cup {b}) /\ Cardinality(Q \cup {b}) = 2
    BY <2>1, <2>2, <2>3
  <2> QED BY <2>4 DEF Q
<1>3. ({a} \cup {b}) \in SUBSET P
  OBVIOUS
<1>4. Cardinality({a} \cup {b}) <= Cardinality(P) /\ Cardinality(P) \in Nat
  BY <1>3, FS_Subset, FS_CardinalityType
<1> QED BY <1>2, <1>4

LEMMA SharedFinite ==
  ASSUME NEW listing, IsFiniteSet(DOMAIN listing), \A e \in DOMAIN listing : IsFiniteSet(listing[e])
  PROVE  IsFiniteSet(Shared(listing))
<1> DEFINE D == DOMAIN listing
           A == {listing[e] : e \in D}
           f == [e \in D |-> listing[e]]
<1>1. f \in Surjection(D, A)
  BY DEF Surjection
<1>2. IsFiniteSet(A)
  BY <1>1, FS_Surjection
<1>3. IsFiniteSet(UNION A)
  BY <1>2, FS_UNION
<1>4. Shared(listing) \in SUBSET UNION A
  BY DEF Shared, PathIndex
<1> QED BY <1>3, <1>4, FS_Subset

(* The groups are the classes of mods that chains of shared paths link,    *)
(* without those that share none.                                          *)
LEMMA GroupsRight ==
  ASSUME NEW listing, NEW D, D = DOMAIN listing, IsFiniteSet(D), \A e \in D : IsFiniteSet(listing[e]),
         NEW order \in SetToSeqs(Shared(listing))
  PROVE  /\ \A d, e \in D : d # e =>
              ((\E g \in ConnectedEntries(listing, order) : {d, e} \subseteq g) <=> Linked(listing, d, e))
         /\ \A g \in ConnectedEntries(listing, order) : g \subseteq D /\ Cardinality(g) >= 2
<1> DEFINE hold(p) == PathIndex(listing)[p]
           R == Roots(listing, order)
           members == UNION {hold(p) : p \in Shared(listing)}
           groups == {{e \in members : R[e] = r} : r \in {R[e] : e \in members}}
<1>1. /\ DOMAIN PathIndex(listing) = UNION {listing[e] : e \in D}
      /\ \A p \in DOMAIN PathIndex(listing) : hold(p) = {e \in D : p \in listing[e]}
  BY DEF PathIndex
<1>2. \A p \in Shared(listing) :
        /\ p \in DOMAIN PathIndex(listing) /\ hold(p) \in SUBSET D /\ Cardinality(hold(p)) >= 2
        /\ IsFiniteSet(hold(p)) /\ hold(p) # {}
  <2> SUFFICES ASSUME NEW p \in Shared(listing)
               PROVE  /\ p \in DOMAIN PathIndex(listing) /\ hold(p) \in SUBSET D /\ Cardinality(hold(p)) >= 2
                      /\ IsFiniteSet(hold(p)) /\ hold(p) # {}
    OBVIOUS
  <2>1. p \in DOMAIN PathIndex(listing) /\ Cardinality(hold(p)) >= 2
    BY DEF Shared
  <2>2. hold(p) = {e \in D : p \in listing[e]} /\ \E e \in D : p \in listing[e]
    BY <1>1, <2>1
  <2>3. hold(p) \in SUBSET D /\ hold(p) # {}
    BY <2>2
  <2> QED BY <2>1, <2>3, FS_Subset
<1>3. order \in Seq(Shared(listing)) /\ {order[i] : i \in 1 .. Len(order)} = Shared(listing)
  BY SharedFinite, OrderRight
<1>4. \A i \in 1 .. Len(order) : order[i] \in Shared(listing)
  BY <1>3
<1>5. \A p \in Shared(listing) : \E i \in 1 .. Len(order) : order[i] = p
  BY <1>3
<1>6. order \in Seq(DOMAIN PathIndex(listing)) /\ \A i \in 1 .. Len(order) : Holders(listing, D, order[i])
  <2>1. Shared(listing) \subseteq DOMAIN PathIndex(listing)
    BY <1>2
  <2>2. \A i \in 1 .. Len(order) : Holders(listing, D, order[i])
    BY <1>2, <1>4 DEF Holders
  <2> QED BY <1>3, <2>1, <2>2
<1>7. R \in [D -> D] /\ \A S \in SUBSET D : Bordered(listing, order, S) => Within(R, S)
  BY <1>6, RootsRight
<1>8. \A p \in Shared(listing) : \A x, y \in hold(p) : R[x] = R[y]
  <2>1. \A i \in 1 .. Len(order) : \A x, y \in hold(order[i]) : R[x] = R[y]
    BY <1>6, RootsRight
  <2> QED BY <1>5, <2>1
<1>9. ConnectedEntries(listing, order) = groups
  BY DEF ConnectedEntries, Roots
<1> HIDE DEF R, hold, members
<1>10. members \subseteq D /\ \A p \in Shared(listing) : hold(p) \subseteq members
  BY <1>2 DEF members
<1>11. \A a, b \in D : a # b /\ Overlap(listing, a, b) => R[a] = R[b] /\ a \in members /\ b \in members
  <2> SUFFICES ASSUME NEW a \in D, NEW b \in D, a # b, NEW p \in listing[a], p \in listing[b]
               PROVE  R[a] = R[b] /\ a \in members /\ b \in members
    BY DEF Overlap
  <2>1. p \in DOMAIN PathIndex(listing) /\ a \in hold(p) /\ b \in hold(p)
    BY <1>1
  <2>2. hold(p) \in SUBSET D
    BY <1>1, <2>1
  <2>3. Cardinality(hold(p)) >= 2
    BY <2>1, <2>2, TwoIsMany, FS_Subset
  <2>4. p \in Shared(listing)
    BY <2>1, <2>3 DEF Shared, hold
  <2> QED BY <1>8, <1>10, <2>1, <2>4
<1>12. ASSUME NEW S \in SUBSET D, Closed(listing, S) PROVE Within(R, S)
  <2>1. ASSUME NEW i \in 1 .. Len(order), NEW x \in hold(order[i]), x \in S, NEW y \in hold(order[i])
        PROVE  y \in S
    <3> DEFINE p == order[i]
    <3>1. p \in Shared(listing) /\ p \in DOMAIN PathIndex(listing)
      BY <1>2, <1>4
    <3>2. x \in D /\ y \in D /\ p \in listing[x] /\ p \in listing[y]
      BY <1>1, <2>1, <3>1
    <3>3. Overlap(listing, x, y)
      BY <3>2 DEF Overlap
    <3> QED BY <1>12, <2>1, <3>2, <3>3 DEF Closed
  <2>2. Bordered(listing, order, S)
    BY <2>1 DEF Bordered, hold
  <2> QED BY <1>7, <2>2
<1>13. ASSUME NEW d \in D, NEW e \in D, NEW g \in groups, d \in g, e \in g
       PROVE  Linked(listing, d, e)
  <2>1. R[d] = R[e]
    BY <1>13
  <2> SUFFICES ASSUME NEW S \in SUBSET D, d \in S, Closed(listing, S) PROVE e \in S
    BY DEF Linked
  <2>2. Within(R, S)
    BY <1>12
  <2> QED BY <1>7, <2>1, <2>2 DEF Within
<1>14. ASSUME NEW d \in D, NEW e \in D, d # e, Linked(listing, d, e)
       PROVE  \E g \in groups : d \in g /\ e \in g
  <2>0. \A S \in SUBSET D : d \in S /\ Closed(listing, S) => e \in S
    BY <1>14 DEF Linked
  <2>1. R[e] = R[d]
    <3> DEFINE S == {x \in D : R[x] = R[d]}
    <3>1. Closed(listing, S)
      BY <1>11 DEF Closed
    <3> QED BY <2>0, <3>1
  <2>2. d \in members
    <3>1. d \notin members => Closed(listing, {d})
      BY <1>11 DEF Closed
    <3> QED BY <1>14, <2>0, <3>1
  <2>3. e \in members
    <3> DEFINE S == D \ {e}
    <3>1. e \notin members => Closed(listing, S)
      BY <1>11 DEF Closed
    <3> QED BY <1>14, <2>0, <3>1
  <2>4. {x \in members : R[x] = R[d]} \in groups
    BY <2>2
  <2> QED BY <2>1, <2>2, <2>3, <2>4
<1>15. ASSUME NEW g \in groups PROVE g \subseteq D /\ Cardinality(g) >= 2
  <2>1. g \subseteq D /\ IsFiniteSet(g)
    <3>1. g \in SUBSET D
      BY <1>10
    <3> QED BY <3>1, FS_Subset
  <2>2. PICK a \in members : g = {x \in members : R[x] = R[a]}
    BY <1>15
  <2>3. PICK p \in Shared(listing) : a \in hold(p)
    BY DEF members
  <2>4. hold(p) \in SUBSET g
    BY <1>8, <1>10, <2>2, <2>3
  <2>5. Cardinality(hold(p)) >= 2 /\ Cardinality(hold(p)) <= Cardinality(g)
    BY <1>2, <2>1, <2>4, FS_Subset
  <2>6. Cardinality(hold(p)) \in Nat /\ Cardinality(g) \in Nat
    BY <1>2, <2>1, FS_CardinalityType
  <2> QED BY <2>1, <2>5, <2>6
<1> HIDE DEF groups
<1>16. \A d, e \in D : d # e => ((\E g \in groups : {d, e} \subseteq g) <=> Linked(listing, d, e))
  BY <1>13, <1>14
<1> QED BY <1>9, <1>15, <1>16

(* The mods with a listing are enabled ones, finitely many, and each       *)
(* listing is of a version its .utoc had.                                  *)
LEMMA ListingsFinite ==
  ASSUME TypeOK, CacheFresh
  PROVE  /\ DOMAIN Listings = Known /\ Known \subseteq list \cap Enabled /\ IsFiniteSet(Known)
         /\ \A e \in Known : IsFiniteSet(Listings[e])
<1>1. DOMAIN Listings = Known /\ Known \subseteq list \cap Enabled
  BY DEF Listings, Known
<1>2. Known \in SUBSET Entries
  BY DEF Known, TypeOK
<1>3. IsFiniteSet(Known)
  BY <1>2, ClassifierAssumption, FS_Subset
<1>4. ASSUME NEW e \in Known PROVE IsFiniteSet(Listings[e])
  <2> DEFINE v == mtime[e]
             known == cache[e][v]
  <2>1. e \in Entries /\ v \in Versions /\ known \in Identities /\ known # Nothing
    BY <1>2, <1>4 DEF Known, Cached, TypeOK
  <2>2. beside[e][v] <= known.paths /\ known.paths <= version[e]
    BY <2>1 DEF CacheFresh
  <2>3. known.paths \in Nat
    BY <2>1 DEF Identities
  <2>4. beside[e][v] \in Versions /\ version[e] \in Versions
    BY <2>1 DEF TypeOK
  <2> DEFINE p == known.paths
             first == beside[e][v]
             last == version[e]
  <2>5. Listings[e] = Listing[e][p]
    BY <1>4 DEF Listings, Cached
  <2> HIDE DEF p, first, last
  <2>6. first \in 1 .. MaxChanges + 1 /\ last \in 1 .. MaxChanges + 1 /\ p \in Nat /\ first <= p /\ p <= last
    BY <2>2, <2>3, <2>4 DEF Versions, p, first, last
  <2>7. p \in Versions
    BY <2>6, ClassifierAssumption DEF Versions
  <2> QED BY <2>1, <2>5, <2>7, ClassifierAssumption
<1> QED BY <1>1, <1>3, <1>4

(* What Detect makes of the groups. *)
ScanRight(listing, enabled, result) ==
  /\ \A d, e \in DOMAIN listing : d # e =>
       ((\E g \in result.groups : {d, e} \subseteq g.members) <=> Linked(listing, d, e))
  /\ \A g \in result.groups : Cardinality(g.members) >= 2
  /\ result.unavailable \cap UNION {g.members : g \in result.groups} = {}
  /\ result.unavailable \cup DOMAIN listing = enabled
LEMMA DetectRight ==
  ASSUME NEW listing, NEW enabled, NEW priority, DOMAIN listing \subseteq enabled, IsFiniteSet(DOMAIN listing),
         \A e \in DOMAIN listing : IsFiniteSet(listing[e]), NEW order \in SetToSeqs(Shared(listing))
  PROVE  ScanRight(listing, enabled, Detect(enabled, listing, order, priority))
<1> DEFINE D == DOMAIN listing
           groups == ConnectedEntries(listing, order)
           Made(g) == [members |-> g, relation |-> Relationship(g, priority)]
           result == Detect(enabled, listing, order, priority)
<1>1. /\ \A d, e \in D : d # e => ((\E g \in groups : {d, e} \subseteq g) <=> Linked(listing, d, e))
      /\ \A g \in groups : g \subseteq D /\ Cardinality(g) >= 2
  BY GroupsRight
<1>2. result.groups = {Made(g) : g \in groups} /\ result.unavailable = enabled \ D
  BY DEF Detect
<1> HIDE DEF groups, D, result
<1>3. \A g \in groups : Made(g).members = g
  OBVIOUS
<1> HIDE DEF Made
<1>4. \A d, e \in D : (\E g \in result.groups : {d, e} \subseteq g.members) <=> \E g \in groups : {d, e} \subseteq g
  BY <1>2, <1>3
<1>5. \A g \in result.groups : g.members \subseteq D /\ Cardinality(g.members) >= 2
  BY <1>1, <1>2, <1>3
<1>6. result.unavailable \cap UNION {g.members : g \in result.groups} = {}
  BY <1>2, <1>5
<1>7. result.unavailable \cup D = enabled
  BY <1>2 DEF D
<1>8. ScanRight(listing, enabled, result)
  BY <1>1, <1>4, <1>5, <1>6, <1>7 DEF ScanRight, D
<1> QED BY <1>8 DEF result

LEMMA ConflictsStep == ASSUME ConflictsRight, ClassifierInv, [Next]_vars PROVE ConflictsRight'
<1>1. CASE UNCHANGED conflicts
  BY <1>1 DEF ConflictsRight
<1>2. CASE DetectConflicts
  <2>0. TypeOK /\ CacheFresh
    BY DEF ClassifierInv, PlacesInv, FreshInv
  <2>1. PICK order \in SetToSeqs(Shared(Listings)) :
          conflicts' = {[listings |-> Listings, enabled |-> list \cap Enabled,
                         result |-> Detect(list \cap Enabled, Listings, order, Priority)]}
    BY <1>2 DEF DetectConflicts
  <2> DEFINE l == Listings
             on == list \cap Enabled
             r == Detect(on, l, order, Priority)
  <2>2. conflicts' = {[listings |-> l, enabled |-> on, result |-> r]}
    BY <2>1
  <2>3. DOMAIN l \subseteq on /\ IsFiniteSet(DOMAIN l) /\ \A e \in DOMAIN l : IsFiniteSet(l[e])
    BY <2>0, ListingsFinite
  <2>4. order \in SetToSeqs(Shared(l))
    BY <2>1
  <2> HIDE DEF l, on
  <2>5. ScanRight(l, on, r)
    BY <2>3, <2>4, DetectRight
  <2> HIDE DEF r
  <2>6. \A c \in conflicts' : ScanRight(c.listings, c.enabled, c.result)
    BY <2>2, <2>5
  <2> QED BY <2>6 DEF ConflictsRight, ScanRight
<1>3. CASE Begin
  BY <1>1, <1>3 DEF Begin
<1>4. CASE Classify
  BY <1>1, <1>4 DEF Classify, Stat, Pool, PoolClosed, Submit, Collect, Return, CloseDone
<1>5. CASE Close \/ CloseDone
  BY <1>1, <1>5 DEF Close, CloseDone
<1>6. ASSUME NEW w \in Slots, Work(w) \/ Crash(w) PROVE ConflictsRight'
  BY <1>1, <1>6 DEF Work, Crash, Start, Take, AskEncrypted, AskPaths, End, WorkerOnly
<1>7. ASSUME NEW e \in Changing, ChangePak(e) \/ ChangeUtoc(e) PROVE ConflictsRight'
  BY <1>1, <1>7 DEF ChangePak, ChangeUtoc
<1>8. CASE UNCHANGED vars
  BY <1>1, <1>8 DEF vars
<1> QED BY <1>2, <1>3, <1>4, <1>5, <1>6, <1>7, <1>8 DEF Next

(* Whatever order the shared paths come in, the scan groups two enabled    *)
(* mods exactly when a chain of shared paths links them, leaves no group   *)
(* of one, and names the mods it knows nothing about.                      *)
THEOREM ConflictsAreRight == Spec => []ConflictsRight
<1>1. Init => ConflictsRight
  BY DEF Init, ConflictsRight
<1> QED BY <1>1, ConflictsStep, ClassifierInvariant, PTL DEF Spec
=============================================================================
