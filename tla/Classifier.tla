----------------------------- MODULE Classifier -----------------------------
(***************************************************************************)
(* Classification of the library (internal/modtype) with a pool of         *)
(* UAssetTool processes (internal/uassettool), and the conflict scan that  *)
(* reads its cache (LibraryService.DetectConflicts).                       *)
(*                                                                         *)
(* Classify holds a mutex for its whole length, so one caller stands for   *)
(* all.  The pool outlives a call; its goroutines, their processes and     *)
(* other programs that replace mods run beside it.                         *)
(*                                                                         *)
(* A mod is an IoStore bundle.  The cache looks at the modification time   *)
(* of its .pak; its content is in the .utoc, which two requests list.      *)
(* Other programs replace or remove the two files one after the other, in  *)
(* either order; a .pak that is replaced has a new time.  Assumed of       *)
(* UAssetTool: it writes one line for each request.  A request that is not *)
(* answered is ended by the timeout that kills the process (Worker.Call),  *)
(* so it always returns.                                                   *)
(***************************************************************************)
EXTENDS Naturals, Conflicts

CONSTANTS
  Entries,      \* mods of the library
  Calls,        \* the sets of mods a call may name
  Enabled,      \* enabled mods
  Changing,     \* bound: mods other programs change
  Priority,     \* the priority of each mod
  Listing,      \* the internal paths of each version of a .utoc
  Cores,        \* CPU cores
  Tiers,        \* job counts and pool caps: <<[below |-> n, cap |-> c], ...>>
  TopCap,       \* the cap above the last tier
  Slots,        \* 1 .. n: goroutines of the pool
  MaxCalls, MaxChanges, MaxFailures  \* bounds: calls, changes of each file, failing launches and requests

Unknown == 0                               \* CategoryUnknown, no version, no time
Versions == 1 .. MaxChanges + 1

(* WorkerPoolSizeForLibrary, poolCapForEntryCount and coreAwarePoolSize. *)
CapFor(n) ==
  LET fitting == {k \in DOMAIN Tiers : n < Tiers[k].below}
  IN IF fitting = {} THEN TopCap ELSE Tiers[Min(fitting)].cap
PoolSize(n) ==
  LET half == Cores \div 2
      cap == CapFor(n)
      size == IF half > cap THEN cap ELSE IF half = cap THEN half \div 2 ELSE half
  IN IF size < 1 THEN 1 ELSE size

ASSUME ClassifierAssumption ==
  /\ IsFiniteSet(Entries) /\ IsFiniteSet(Slots)
  /\ Calls \subseteq SUBSET Entries /\ {} \notin Calls /\ Enabled \subseteq Entries
  /\ Changing \subseteq Entries
  /\ DOMAIN Priority = Entries
  /\ \A e \in Entries : \A v \in Versions : IsFiniteSet(Listing[e][v])
  /\ Slots = 1 .. Cardinality(Slots)
  /\ \A n \in 1 .. Cardinality(Entries) : PoolSize(n) \in Slots
  /\ MaxCalls \in Nat /\ MaxChanges \in Nat /\ MaxFailures \in Nat

VARIABLES
  mtime,      \* the time of each .pak
  version,    \* the version of each .utoc
  paks, utocs, \* those that exist
  cache,      \* Cache: what is known for each time
  pc,         \* the caller: "idle", "stat", "closing", "submit", "collect", "returned", "shutting"
  list,       \* the mods of the call
  unread,     \* those it has not looked at
  misses,     \* jobs to submit
  waiting,    \* answers it waits for
  results,    \* identities found
  queue,      \* the channel of the pool
  outcomes,   \* the channel of the call
  size,       \* size of the pool, 0 without one
  at,         \* what each goroutine of the pool does
  job,        \* its job
  seen,       \* the version its first request saw
  process,    \* its process: "none", "up" or "dead"
  closed,     \* the shutdown: "no", "yes", or "late" when a call came after it
  conflicts,  \* the result of the last conflict scan, a set of at most one
  beside,     \* history: the version beside each .pak when it was written, for each time
  since,      \* history: that version for the .pak the call began with
  missing,    \* history: mods a listing failed for in this call
  calls, failures \* counters of the bounds

files == <<mtime, version, paks, utocs, beside>>
caller == <<pc, list, unread, misses, waiting, results, since>>
channels == <<queue, outcomes>>
pool == <<size, at, job, seen, process>>
vars == <<files, cache, caller, channels, pool, closed, conflicts, missing, calls, failures>>

NoJob == [entry |-> "none", mtime |-> Unknown]
Nothing == [encrypted |-> Unknown, paths |-> Unknown]

Init ==
  /\ mtime = [e \in Entries |-> 1] /\ version = [e \in Entries |-> 1]
  /\ paks = Entries /\ utocs = Entries /\ beside = [e \in Entries |-> [t \in Versions |-> 1]]
  /\ cache = [e \in Entries |-> [t \in Versions |-> Nothing]]
  /\ pc = "idle" /\ list = {} /\ unread = {} /\ misses = {} /\ waiting = 0
  /\ results = [e \in Entries |-> Nothing]
  /\ queue = <<>> /\ outcomes = {}
  /\ size = 0 /\ at = [w \in Slots |-> "none"] /\ job = [w \in Slots |-> NoJob]
  /\ seen = [w \in Slots |-> Unknown] /\ process = [w \in Slots |-> "none"]
  /\ closed = "no" /\ conflicts = {}
  /\ since = version /\ missing = {}
  /\ calls = 0 /\ failures = 0

Fails == failures < MaxFailures /\ failures' = failures + 1 /\ UNCHANGED calls
Works == UNCHANGED <<calls, failures>>

-----------------------------------------------------------------------------
(* SessionClassifier.Classify.                                             *)

(* A call, also one that waited for Close or comes after it. *)
Begin ==
  /\ pc \in {"idle", "returned"}
  /\ calls < MaxCalls /\ calls' = calls + 1 /\ UNCHANGED failures
  /\ \E c \in Calls : list' = c /\ unread' = c
  /\ pc' = "stat" /\ misses' = {} /\ waiting' = 0
  /\ results' = [e \in Entries |-> Nothing]
  /\ since' = [e \in Entries |-> beside[e][mtime[e]]] /\ missing' = {}
  /\ closed' = IF closed = "no" THEN "no" ELSE "late"
  /\ UNCHANGED <<files, cache, channels, pool, conflicts>>

(* Fault: the modification time is not part of the key. *)
CachedAny(e) ==
  IF cache[e][mtime[e]] # Nothing \/ mtime[e] = 1 THEN cache[e][mtime[e]]
  ELSE cache[e][mtime[e] - 1]
Cached(e) == cache[e][mtime[e]]

(* The primary file of the next mod is looked at, and the cache. *)
Stat ==
  /\ pc = "stat"
  /\ \E e \in unread :
       /\ unread' = unread \ {e}
       /\ IF e \in paks /\ Cached(e) # Nothing
          THEN results' = [results EXCEPT ![e] = Cached(e)] /\ UNCHANGED misses
          ELSE /\ misses' = misses \cup
                    {[entry |-> e, mtime |-> IF e \in paks THEN mtime[e] ELSE Unknown]}
               /\ UNCHANGED results
  /\ Works
  /\ UNCHANGED <<files, cache, pc, list, waiting, since, channels, pool, closed, conflicts, missing>>

(* Fault: a pool of another size is dropped without being closed. *)
PoolDropped ==
  /\ pc = "stat" /\ unread = {} /\ misses # {}
  /\ waiting' = Cardinality(misses)
  /\ pc' = "submit" /\ size' = PoolSize(Cardinality(misses))
  /\ at' = [w \in Slots |-> IF w > PoolSize(Cardinality(misses)) THEN "none"
                            ELSE IF at[w] = "none" THEN "start" ELSE at[w]]
  /\ Works
  /\ UNCHANGED <<files, cache, list, unread, misses, results, since, channels,
                 job, seen, process, closed, conflicts, missing>>

(* The pool of the call: the one at hand, or a new one after the old one,  *)
(* of another size, has been told to close.                                *)
Pool ==
  /\ pc = "stat" /\ unread = {} /\ misses # {}
  /\ waiting' = Cardinality(misses)
  /\ LET target == PoolSize(Cardinality(misses))
     IN \/ size = target /\ pc' = "submit" /\ UNCHANGED <<size, at>>
        \/ size \notin {0, target} /\ pc' = "closing" /\ size' = 0 /\ UNCHANGED at
        \/ /\ size = 0 /\ pc' = "submit" /\ size' = target
           /\ at' = [w \in Slots |-> IF w <= target THEN "start" ELSE "none"]
  /\ Works
  /\ UNCHANGED <<files, cache, list, unread, misses, results, since, channels,
                 job, seen, process, closed, conflicts, missing>>

(* WorkerPool.Close has waited for the goroutines. *)
PoolClosed ==
  /\ pc = "closing" /\ \A w \in Slots : at[w] = "none"
  /\ pc' = "stat"
  /\ Works
  /\ UNCHANGED <<files, cache, list, unread, misses, waiting, results, since, channels, pool,
                 closed, conflicts, missing>>

(* WorkerPool.Submit: the channel holds two jobs for each goroutine. *)
Submit ==
  /\ pc = "submit" /\ Len(queue) < 2 * size
  /\ \E m \in misses : queue' = Append(queue, m) /\ misses' = misses \ {m}
  /\ pc' = IF Cardinality(misses) = 1 THEN "collect" ELSE "submit"
  /\ Works
  /\ UNCHANGED <<files, cache, list, unread, waiting, results, since, outcomes, pool,
                 closed, conflicts, missing>>

(* An answer, cached under the time its file had before it was listed. *)
Collect ==
  /\ pc = "collect" /\ waiting > 0
  /\ \E o \in outcomes :
       /\ outcomes' = outcomes \ {o} /\ waiting' = waiting - 1
       /\ results' = [results EXCEPT ![o.entry] = o.found]
       /\ cache' = IF o.mtime = Unknown \/ o.found = Nothing THEN cache
                   ELSE [cache EXCEPT ![o.entry][o.mtime] = o.found]
  /\ Works
  /\ UNCHANGED <<files, pc, list, unread, misses, since, queue, pool, closed, conflicts, missing>>

Return ==
  /\ \/ pc = "stat" /\ unread = {} /\ misses = {}
     \/ pc = "collect" /\ waiting = 0
  /\ pc' = "returned"
  /\ Works
  /\ UNCHANGED <<files, cache, list, unread, misses, waiting, results, since, channels, pool,
                 closed, conflicts, missing>>

(* LibraryService.DetectConflicts, after its Classify: the listings come   *)
(* from the cache for the time each primary file has now.                  *)
Known == {e \in list \cap Enabled \cap paks : Cached(e) # Nothing}
Listings == [e \in Known |-> Listing[e][Cached(e).paths]]
DetectConflicts ==
  /\ pc = "returned" /\ conflicts = {}
  /\ \E order \in SetToSeqs(Shared(Listings)) :
       conflicts' = {[listings |-> Listings, enabled |-> list \cap Enabled,
                      result |-> Detect(list \cap Enabled, Listings, order, Priority)]}
  /\ pc' = "idle"
  /\ Works
  /\ UNCHANGED <<files, cache, list, unread, misses, waiting, results, since, channels, pool,
                 closed, missing>>

(* SessionClassifier.Close, at shutdown, once: it waits for the running    *)
(* call and for the goroutines of the pool, and keeps no mark.             *)
Close ==
  /\ pc \in {"idle", "returned"} /\ closed = "no"
  /\ closed' = "yes" /\ pc' = "shutting" /\ size' = 0
  /\ Works
  /\ UNCHANGED <<files, cache, list, unread, misses, waiting, results, since, channels,
                 at, job, seen, process, conflicts, missing>>

CloseDone ==
  /\ pc = "shutting" /\ \A w \in Slots : at[w] = "none"
  /\ pc' = "idle"
  /\ Works
  /\ UNCHANGED <<files, cache, list, unread, misses, waiting, results, since, channels, pool,
                 closed, conflicts, missing>>

-----------------------------------------------------------------------------
(* WorkerPool.workerLoop. *)

WorkerOnly == UNCHANGED <<files, cache, caller, size, closed, conflicts>>

(* The first launch of a goroutine. *)
Start(w) ==
  /\ at[w] = "start"
  /\ at' = [at EXCEPT ![w] = "idle"]
  /\ \/ Works /\ process' = [process EXCEPT ![w] = "up"]
     \/ Fails /\ process' = [process EXCEPT ![w] = "none"]
  /\ WorkerOnly /\ UNCHANGED <<channels, job, seen, missing>>

Answer(j, found) == outcomes' = outcomes \cup {[entry |-> j.entry, mtime |-> j.mtime, found |-> found]}
NoAnswer(w, j) ==
  /\ Answer(j, Nothing) /\ missing' = missing \cup {j.entry}
  /\ at' = [at EXCEPT ![w] = "idle"] /\ job' = [job EXCEPT ![w] = NoJob]

(* Fault: a goroutine that cannot replace its process ends. *)
TakeOrEnd(w) ==
  /\ at[w] = "idle" /\ queue # <<>>
  /\ queue' = Tail(queue)
  /\ \/ /\ process[w] = "up" /\ Works /\ UNCHANGED process
        /\ at' = [at EXCEPT ![w] = "encrypted"] /\ job' = [job EXCEPT ![w] = Head(queue)]
     \/ /\ process[w] # "up" /\ Works /\ process' = [process EXCEPT ![w] = "up"]
        /\ at' = [at EXCEPT ![w] = "encrypted"] /\ job' = [job EXCEPT ![w] = Head(queue)]
     \/ /\ process[w] # "up" /\ Fails /\ process' = [process EXCEPT ![w] = "none"]
        /\ at' = [at EXCEPT ![w] = "none"] /\ UNCHANGED job
  /\ WorkerOnly /\ UNCHANGED <<outcomes, seen, missing>>

(* The next job: a dead process is closed and replaced first; without one  *)
(* the job fails.                                                          *)
Take(w) ==
  /\ at[w] = "idle" /\ queue # <<>>
  /\ queue' = Tail(queue)
  /\ \/ /\ process[w] = "up" /\ Works /\ UNCHANGED process
        /\ at' = [at EXCEPT ![w] = "encrypted"] /\ job' = [job EXCEPT ![w] = Head(queue)]
        /\ UNCHANGED <<outcomes, missing>>
     \/ /\ process[w] # "up" /\ Works /\ process' = [process EXCEPT ![w] = "up"]
        /\ at' = [at EXCEPT ![w] = "encrypted"] /\ job' = [job EXCEPT ![w] = Head(queue)]
        /\ UNCHANGED <<outcomes, missing>>
     \/ /\ process[w] # "up" /\ Fails /\ process' = [process EXCEPT ![w] = "none"]
        /\ NoAnswer(w, Head(queue))
  /\ WorkerOnly /\ UNCHANGED seen

(* A request of ListInternal fails: the .utoc is gone, the tool answers    *)
(* with an error and lives on, or the process crashes or is killed by the  *)
(* timeout.                                                                *)
RequestFails(w) ==
  /\ NoAnswer(w, job[w])
  /\ \/ (job[w].entry \notin utocs \/ process[w] = "dead") /\ Works /\ UNCHANGED process
     \/ process[w] = "up" /\ Fails /\ \E p \in {"up", "dead"} : process' = [process EXCEPT ![w] = p]
  /\ UNCHANGED seen

(* IsIoStoreEncrypted, then ListIoStoreFiles with the key it calls for. *)
AskEncrypted(w) ==
  /\ at[w] = "encrypted"
  /\ \/ /\ job[w].entry \in utocs /\ process[w] = "up" /\ Works
        /\ seen' = [seen EXCEPT ![w] = version[job[w].entry]]
        /\ at' = [at EXCEPT ![w] = "paths"]
        /\ UNCHANGED <<outcomes, job, process, missing>>
     \/ RequestFails(w)
  /\ WorkerOnly /\ UNCHANGED queue

AskPaths(w) ==
  /\ at[w] = "paths"
  /\ \/ /\ job[w].entry \in utocs /\ process[w] = "up" /\ Works
        /\ Answer(job[w], [encrypted |-> seen[w], paths |-> version[job[w].entry]])
        /\ at' = [at EXCEPT ![w] = "idle"] /\ job' = [job EXCEPT ![w] = NoJob]
        /\ seen' = [seen EXCEPT ![w] = Unknown]
        /\ UNCHANGED <<process, missing>>
     \/ RequestFails(w)
  /\ WorkerOnly /\ UNCHANGED queue

(* The channel is closed and empty: the deferred Close of the process,     *)
(* which ends it, with a kill after the grace period.                      *)
End(w) ==
  /\ at[w] = "idle" /\ pc \in {"closing", "shutting"} /\ queue = <<>>
  /\ at' = [at EXCEPT ![w] = "none"] /\ process' = [process EXCEPT ![w] = "none"]
  /\ Works
  /\ WorkerOnly /\ UNCHANGED <<channels, job, seen, missing>>

(* The process of a goroutine dies between two requests. *)
Crash(w) ==
  /\ process[w] = "up" /\ Fails
  /\ process' = [process EXCEPT ![w] = "dead"]
  /\ WorkerOnly /\ UNCHANGED <<channels, at, job, seen, missing>>

(* Another program replaces or removes a file of a mod. *)
ChangePak(e) ==
  /\ mtime[e] <= MaxChanges
  /\ mtime' = [mtime EXCEPT ![e] = @ + 1]
  /\ beside' = [beside EXCEPT ![e][mtime[e] + 1] = version[e]]
  /\ \E p \in {paks \cup {e}, paks \ {e}} : paks' = p
  /\ Works
  /\ UNCHANGED <<version, utocs, cache, caller, channels, pool, closed, conflicts, missing>>

ChangeUtoc(e) ==
  /\ version[e] <= MaxChanges
  /\ version' = [version EXCEPT ![e] = @ + 1]
  /\ \E u \in {utocs \cup {e}, utocs \ {e}} : utocs' = u
  /\ Works
  /\ UNCHANGED <<mtime, paks, beside, cache, caller, channels, pool, closed, conflicts, missing>>

Classify == Stat \/ Pool \/ PoolClosed \/ Submit \/ Collect \/ Return \/ CloseDone
Work(w) == Start(w) \/ Take(w) \/ AskEncrypted(w) \/ AskPaths(w) \/ End(w)

Next ==
  \/ Begin \/ Classify \/ DetectConflicts \/ Close
  \/ \E w \in Slots : Work(w) \/ Crash(w)
  \/ \E e \in Changing : ChangePak(e) \/ ChangeUtoc(e)

Spec == Init /\ [][Next]_vars

(* A request returns within its timeout and goroutines that can run do. *)
FairSpec == Spec /\ WF_vars(Classify) /\ \A w \in Slots : WF_vars(Work(w))

-----------------------------------------------------------------------------

(* An identity a call returns is made of answers about the .utoc that was  *)
(* beside the primary file when that was written, or a later one: the call *)
(* never serves what was listed before a mod was replaced, if its .pak was *)
(* written last.  A .utoc that is replaced after the .pak may be listed    *)
(* too early and stay unseen: the key does not hold its time.  A mod is    *)
(* called unknown only when a listing of it failed in this very call, so   *)
(* that no failure is remembered.                                          *)
ServedFresh ==
  pc = "returned" => \A e \in list :
    IF results[e] = Nothing THEN e \in missing
    ELSE {results[e].encrypted, results[e].paths} \subseteq since[e] .. version[e]

(* Every process belongs to a goroutine of the current pool, or of one     *)
(* that is being closed: replacing a pool or a dead process leaves none    *)
(* behind, and after the shutdown there is none, unless a call of Classify *)
(* that waited for it, or comes later, makes a new pool.                   *)
NoOrphans ==
  /\ \A w \in Slots : process[w] # "none" => at[w] # "none" /\ (w <= size \/ pc \in {"closing", "shutting"})
  /\ closed = "yes" /\ pc = "idle" => \A w \in Slots : process[w] = "none"

(* The conflict scan groups two enabled mods exactly when a chain of       *)
(* shared paths links them, whatever order the paths come in, and names    *)
(* the mods it knows nothing about.                                        *)
ConflictsRight ==
  \A c \in conflicts :
    /\ \A d, e \in DOMAIN c.listings : d # e =>
         ((\E g \in c.result.groups : {d, e} \subseteq g.members) <=> Linked(c.listings, d, e))
    /\ \A g \in c.result.groups : Cardinality(g.members) >= 2
    /\ c.result.unavailable \cap UNION {g.members : g \in c.result.groups} = {}
    /\ c.result.unavailable \cup DOMAIN c.listings = c.enabled

(* A call of Classify returns: neither channel of the pool blocks it and   *)
(* every job is answered, whatever processes die.                          *)
ClassifyReturns == pc = "stat" ~> pc = "returned"
=============================================================================
