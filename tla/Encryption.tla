----------------------------- MODULE Encryption -----------------------------
(***************************************************************************)
(* Encrypting, decrypting and cleaning library bundles                     *)
(* (internal/mutation encryption.go and companion.go, PakRepairService).   *)
(*                                                                         *)
(* A batch is planned from the .utoc files alone.  Encrypt and decrypt     *)
(* send its bundles over an unbuffered channel to a pool of goroutines     *)
(* with a UAssetTool process each; the companion cleanup takes them one by *)
(* one.  A bundle is rewritten in a temporary directory and then its live  *)
(* files are swapped, each parked under a backup name first.  The user may *)
(* cancel, a system call may fail, and the program may be killed anywhere. *)
(*                                                                         *)
(* Assumed of UAssetTool: it refuses a damaged file, and a .utoc and .ucas *)
(* of different states.  One batch runs at a time.                         *)
(***************************************************************************)
EXTENDS Naturals, Sequences, Functions

CONSTANTS
  Mods,         \* complete IoStore bundles of the library
  Workers,      \* the pool
  Batches,      \* the sequences of distinct mods a call may name
  Start,        \* the state of every file at the start
  None,         \* no mod, no file
  Torn,         \* half a file
  MaxCalls,     \* bound: batches in a behaviour
  MaxFailures,  \* bound: system calls and tool requests that fail
  MaxKills      \* bound: times the program is killed

Files == {"pak", "utoc", "ucas"}
Coded == {"plain", "cipher"}
Whole(f) == IF f = "pak" THEN {"dirty", "clean"} ELSE Coded
AllContents == {"dirty", "clean", "plain", "cipher", None, Torn}
Ops == {"encrypt", "decrypt", "strip"}
Goal(o) == IF o = "encrypt" THEN "cipher" ELSE "plain"

ASSUME EncryptionAssumption ==
  /\ Batches \subseteq Seq(Mods) /\ <<>> \notin Batches
  /\ \A b \in Batches : IsInjective(b)
  /\ Start \in [Mods -> [Files -> AllContents]]
  /\ \A m \in Mods : /\ \A f \in Files : Start[m][f] \in Whole(f)
                     /\ Start[m]["utoc"] = Start[m]["ucas"]
  /\ MaxCalls \in Nat /\ MaxFailures \in Nat /\ MaxKills \in Nat

VARIABLES
  live,       \* the files of each bundle
  bak,        \* what is parked under the name .cratebug-encrypt-bak
  op, batch,  \* the running call
  main,       \* its goroutine: "idle", "next", "send", "wait" or "returned"
  sent,       \* bundles handed out
  channel,    \* the cancel channel: "none", "open" or "closed"
  sawCancel,  \* a worker dropped a bundle because of it
  succeeded, failed, dropped,  \* bundles reported as done, failed, cancelled
  early,      \* the plan found nothing to do
  error,      \* the error returned: "nil", "cancelled" or "other"
  step,       \* where each worker is
  job,        \* its bundle
  todo,       \* files it has yet to swap
  applied,    \* files it has swapped
  current,    \* the file it has parked
  before,     \* history: the library when the call began
  jammed,     \* history: bundles a file of which could not be returned
  calls, failures, kills  \* counters of the bounds

disk == <<live, bak>>
result == <<succeeded, failed, dropped, error, early>>
mainVars == <<op, batch, main, sent, before>>
pool == <<step, job, todo, applied, current>>
bounds == <<calls, failures, kills>>
vars == <<disk, result, mainVars, pool, channel, sawCancel, jammed, bounds>>

IdlePool ==
  /\ step = [w \in Workers |-> "idle"] /\ job = [w \in Workers |-> None]
  /\ todo = [w \in Workers |-> {}] /\ applied = [w \in Workers |-> {}]
  /\ current = [w \in Workers |-> None]

Init ==
  /\ live = Start /\ bak = [m \in Mods |-> [f \in Files |-> None]]
  /\ op = "strip" /\ batch = <<>> /\ main = "idle" /\ sent = 0 /\ before = Start
  /\ channel = "none" /\ sawCancel = FALSE
  /\ succeeded = {} /\ failed = {} /\ dropped = {} /\ early = FALSE /\ error = "nil"
  /\ IdlePool /\ jammed = {}
  /\ calls = 0 /\ failures = 0 /\ kills = 0

Works == UNCHANGED bounds
Fails == failures < MaxFailures /\ failures' = failures + 1 /\ UNCHANGED <<calls, kills>>
Members == {batch[k] : k \in DOMAIN batch}

-----------------------------------------------------------------------------
(* PakRepairService.SetModEncryption and StripCompanionPaks; planEncryption*)
(* reads the encryption state of each .utoc, after the scan has refused    *)
(* bundles that are not complete.                                          *)
Complete(m) == \A f \in Files : live[m][f] # None
Has(o, m) == o = "strip" \/ live[m]["utoc"] # Goal(o)

Refused(o, b) ==
  IF o = "strip" THEN \E k \in DOMAIN b : live[b[k]]["pak"] = None
  ELSE \/ \E k \in DOMAIN b : ~Complete(b[k]) \/ live[b[k]]["utoc"] = Torn
       \/ \E j, k \in DOMAIN b : live[b[j]]["utoc"] # live[b[k]]["utoc"]

Begin ==
  /\ main \in {"idle", "returned"} /\ calls < MaxCalls /\ calls' = calls + 1
  /\ \E o \in Ops, b \in Batches :
       /\ op' = o /\ batch' = b
       /\ before' = live /\ sent' = 0
       /\ channel' = "open" /\ sawCancel' = FALSE /\ jammed' = {}
       /\ failed' = {} /\ dropped' = {}
       /\ \/ /\ ~Refused(o, b) /\ (\E k \in DOMAIN b : Has(o, b[k])) /\ UNCHANGED failures
             /\ main' = "next" /\ error' = "nil" /\ succeeded' = {} /\ early' = FALSE
          \/ /\ ~Refused(o, b) /\ (\A k \in DOMAIN b : ~Has(o, b[k])) /\ UNCHANGED failures
             /\ main' = "wait" /\ error' = "nil" /\ succeeded' = {b[k] : k \in DOMAIN b} /\ early' = TRUE
          \/ /\ \/ Refused(o, b) /\ UNCHANGED failures
                \/ failures < MaxFailures /\ failures' = failures + 1
             /\ main' = "returned" /\ error' = "other" /\ succeeded' = {} /\ early' = FALSE
  /\ UNCHANGED <<disk, pool, kills>>

Idle(w) == step[w] \in {"idle", "gone"}

(* The loop over the targets, which ends with the last one or with a       *)
(* cancel; skipped are the targets it then reports as cancelled.           *)
Advance(skipped) ==
  /\ main = "next"
  /\ IF sent = Len(batch) THEN main' = "wait" /\ UNCHANGED dropped
     ELSE IF channel = "closed"
     THEN main' = "wait" /\ dropped' = dropped \cup {batch[k] : k \in skipped}
     ELSE main' = "send" /\ UNCHANGED dropped
  /\ UNCHANGED <<disk, succeeded, failed, error, early, op, batch, sent, before, pool,
                 channel, sawCancel, jammed>>
  /\ Works

(* rewriteBundlesPooled sends one target after the other to the pool. *)
SendLoop == op # "strip" /\ Advance(sent + 1 .. Len(batch))

(* StripCompanionPaks handles one target after the other itself. *)
StripLoop == op = "strip" /\ (\A w \in Workers : Idle(w)) /\ Advance({sent + 1})

MainLoop == SendLoop \/ StripLoop

(* The rendezvous of the main goroutine with a free worker. *)
Hand(w) ==
  /\ main = "send" /\ step[w] = "idle"
  /\ sent' = sent + 1 /\ main' = "next"
  /\ job' = [job EXCEPT ![w] = batch[sent + 1]]
  /\ step' = [step EXCEPT ![w] = IF op = "strip" THEN "stage" ELSE "start"]
  /\ Works
  /\ UNCHANGED <<disk, result, op, batch, before, todo, applied, current, channel, sawCancel, jammed>>

(* close(jobs), wg.Wait and the result. *)
Return ==
  /\ main = "wait" /\ \A w \in Workers : Idle(w)
  /\ main' = "returned" /\ channel' = "none"
  /\ error' = IF sawCancel \/ dropped # {} THEN "cancelled" ELSE "nil"
  /\ Works
  /\ UNCHANGED <<disk, succeeded, failed, dropped, early, op, batch, sent, before, pool, sawCancel, jammed>>

(* CancelEncryption and CancelCompanionCleanup. *)
Cancel ==
  /\ channel = "open" /\ channel' = "closed" /\ Works
  /\ UNCHANGED <<disk, result, mainVars, pool, sawCancel, jammed>>

-----------------------------------------------------------------------------
(* A worker of the pool, rewriteBundleEncryption and replaceBundleFiles.   *)

WorkerOnly == UNCHANGED <<mainVars, channel, early, error>>
Set(w, s) == step' = [step EXCEPT ![w] = s]

(* The bundle is reported and the worker takes the next job. *)
Free(w) ==
  /\ Set(w, "idle") /\ job' = [job EXCEPT ![w] = None]
  /\ todo' = [todo EXCEPT ![w] = {}] /\ applied' = [applied EXCEPT ![w] = {}]
  /\ current' = [current EXCEPT ![w] = None]
Report(w, done) ==
  /\ Free(w)
  /\ IF done THEN succeeded' = succeeded \cup {job[w]} /\ UNCHANGED failed
     ELSE failed' = failed \cup {job[w]} /\ UNCHANGED succeeded

(* Fault: a worker leaves its loop when the batch is cancelled. *)
StartLeaves(w) ==
  /\ step[w] = "start"
  /\ IF channel = "closed"
     THEN /\ dropped' = dropped \cup {job[w]} /\ sawCancel' = TRUE
          /\ Set(w, "gone") /\ job' = [job EXCEPT ![w] = None]
     ELSE Set(w, "stage") /\ UNCHANGED <<dropped, sawCancel, job>>
  /\ Works /\ WorkerOnly
  /\ UNCHANGED <<disk, succeeded, failed, todo, applied, current, jammed>>

(* A worker looks at the cancel channel before it begins with a bundle. *)
StartJob(w) ==
  /\ step[w] = "start"
  /\ IF channel = "closed"
     THEN dropped' = dropped \cup {job[w]} /\ sawCancel' = TRUE /\ Free(w)
     ELSE /\ Set(w, "stage")
          /\ UNCHANGED <<dropped, sawCancel, job, todo, applied, current>>
  /\ Works /\ WorkerOnly
  /\ UNCHANGED <<disk, succeeded, failed, jammed>>

(* The files the rebuilt bundle replaces. *)
Rebuilt(m, f) == IF f = "pak" THEN "clean" ELSE IF op = "strip" THEN live[m][f] ELSE Goal(op)
ToReplace(m) ==
  IF op # "strip" THEN Files ELSE IF live[m]["pak"] = "dirty" THEN {"pak"} ELSE {}
ToolAccepts(m) ==
  IF op = "strip" THEN live[m]["pak"] \in Whole("pak")
  ELSE /\ \A f \in Files : live[m][f] \in Whole(f)
       /\ live[m]["utoc"] = live[m]["ucas"]

(* The live files are copied, the copies rewritten and verified, and the   *)
(* live ones looked at again.                                              *)
Stage(w) ==
  /\ step[w] = "stage"
  /\ \/ /\ ToolAccepts(job[w]) /\ Works
        /\ IF ToReplace(job[w]) = {} THEN Report(w, TRUE)
           ELSE /\ todo' = [todo EXCEPT ![w] = ToReplace(job[w])] /\ Set(w, "swap")
                /\ UNCHANGED <<job, applied, current, succeeded, failed>>
     \/ ~ToolAccepts(job[w]) /\ Works /\ Report(w, FALSE)
     \/ Fails /\ Report(w, FALSE)
  /\ WorkerOnly /\ UNCHANGED <<disk, dropped, sawCancel, jammed>>

(* Fault: the live file is overwritten without being parked. *)
ParkNothing(w) ==
  /\ step[w] = "swap"
  /\ \E f \in todo[w] :
       /\ todo' = [todo EXCEPT ![w] = @ \ {f}] /\ current' = [current EXCEPT ![w] = f]
       /\ Set(w, "install")
  /\ Works /\ WorkerOnly
  /\ UNCHANGED <<disk, job, applied, succeeded, failed, dropped, sawCancel, jammed>>

(* The next file, in any order, is renamed to its backup name. *)
Park(w) ==
  /\ step[w] = "swap"
  /\ \E f \in todo[w] :
       \/ /\ Works
          /\ live' = [live EXCEPT ![job[w]][f] = None]
          /\ bak' = [bak EXCEPT ![job[w]][f] = live[job[w]][f]]
          /\ todo' = [todo EXCEPT ![w] = @ \ {f}] /\ current' = [current EXCEPT ![w] = f]
          /\ Set(w, "install")
       \/ Fails /\ Set(w, "undo") /\ UNCHANGED <<disk, todo, current>>
  /\ WorkerOnly
  /\ UNCHANGED <<job, applied, succeeded, failed, dropped, sawCancel, jammed>>

(* The rebuilt file is copied to the live name.  A copy that fails, or one *)
(* the program is killed in, may leave half a file.                        *)
Install(w) ==
  /\ step[w] = "install"
  /\ \/ /\ Works
        /\ live' = [live EXCEPT ![job[w]][current[w]] = Rebuilt(job[w], current[w])]
        /\ applied' = [applied EXCEPT ![w] = @ \cup {current[w]}]
        /\ Set(w, IF todo[w] = {} THEN "drop" ELSE "swap")
     \/ /\ Fails
        /\ \E left \in {None, Torn} : live' = [live EXCEPT ![job[w]][current[w]] = left]
        /\ Set(w, "return") /\ UNCHANGED applied
  /\ WorkerOnly
  /\ UNCHANGED <<bak, job, todo, current, succeeded, failed, dropped, sawCancel, jammed>>

Rename(m, f) ==
  /\ live' = [live EXCEPT ![m][f] = bak[m][f]]
  /\ bak' = [bak EXCEPT ![m][f] = None]

(* The file whose copy failed is renamed back; an error is ignored. *)
ReturnParked(w) ==
  /\ step[w] = "return"
  /\ \/ Works /\ Rename(job[w], current[w]) /\ UNCHANGED jammed
     \/ Fails /\ UNCHANGED disk /\ jammed' = jammed \cup {job[w]}
  /\ Set(w, "undo")
  /\ WorkerOnly
  /\ UNCHANGED <<job, todo, applied, current, succeeded, failed, dropped, sawCancel>>

(* Fault: the files swapped before the failure stay swapped. *)
UndoNothing(w) ==
  /\ step[w] = "undo" /\ Report(w, FALSE)
  /\ Works /\ WorkerOnly
  /\ UNCHANGED <<disk, dropped, sawCancel, jammed>>

(* restoreEncryptionBackups, in some order like the swaps, which follow    *)
(* the order of a Go map; then the failure is reported.                    *)
Undo(w) ==
  /\ step[w] = "undo"
  /\ \/ /\ applied[w] = {} /\ Works /\ Report(w, FALSE)
        /\ UNCHANGED <<disk, jammed>>
     \/ /\ \E f \in applied[w] :
             /\ applied' = [applied EXCEPT ![w] = @ \ {f}]
             /\ \/ Works /\ Rename(job[w], f) /\ UNCHANGED jammed
                \/ /\ Fails /\ live' = [live EXCEPT ![job[w]][f] = None]
                   /\ UNCHANGED bak /\ jammed' = jammed \cup {job[w]}
        /\ UNCHANGED <<step, job, todo, current, succeeded, failed>>
  /\ WorkerOnly /\ UNCHANGED <<dropped, sawCancel>>

(* Everything is swapped: the backups are removed, and errors ignored. *)
Drop(w) ==
  /\ step[w] = "drop"
  /\ \E left \in SUBSET applied[w] :
       /\ IF left = {} THEN Works ELSE Fails
       /\ bak' = [bak EXCEPT ![job[w]] = [f \in Files |-> IF f \in applied[w] \ left THEN None ELSE @[f]]]
  /\ Report(w, TRUE)
  /\ WorkerOnly /\ UNCHANGED <<live, dropped, sawCancel, jammed>>

(* The program dies; the files stay as they are. *)
Kill ==
  /\ main \notin {"idle", "returned"} /\ kills < MaxKills
  /\ kills' = kills + 1 /\ UNCHANGED <<calls, failures>>
  /\ main' = "idle" /\ channel' = "none" /\ sawCancel' = FALSE
  /\ succeeded' = {} /\ failed' = {} /\ dropped' = {} /\ early' = FALSE /\ error' = "nil"
  /\ step' = [w \in Workers |-> "idle"] /\ job' = [w \in Workers |-> None]
  /\ todo' = [w \in Workers |-> {}] /\ applied' = [w \in Workers |-> {}]
  /\ current' = [w \in Workers |-> None]
  /\ UNCHANGED <<disk, op, batch, sent, before, jammed>>

Work(w) ==
  \/ StartJob(w) \/ Stage(w) \/ Park(w) \/ Install(w)
  \/ ReturnParked(w) \/ Undo(w) \/ Drop(w)

Next ==
  \/ Begin \/ MainLoop \/ Return \/ Cancel \/ Kill
  \/ \E w \in Workers : Hand(w) \/ Work(w)

Spec == Init /\ [][Next]_vars

(* Goroutines that can run do run, and a send meets a receiver. *)
FairSpec ==
  /\ Spec /\ WF_vars(MainLoop) /\ WF_vars(Return)
  /\ WF_vars(\E w \in Workers : Hand(w))
  /\ \A w \in Workers : WF_vars(Work(w))

-----------------------------------------------------------------------------

(* At every instant, also after a kill and in the calls that follow one, a *)
(* bundle in one encryption state can be put together from the live files  *)
(* and the parked ones: replaceBundleFiles destroys nothing it cannot      *)
(* replace.                                                                *)
Recoverable ==
  \A m \in Mods :
    /\ \E f \in {live[m]["pak"], bak[m]["pak"]} : f \in Whole("pak")
    /\ \E c \in Coded : c \in {live[m]["utoc"], bak[m]["utoc"]} /\ c \in {live[m]["ucas"], bak[m]["ucas"]}

Reached(m) == op = "strip" \/ \A f \in {"utoc", "ucas"} : live[m][f] = Goal(op)

(* When a batch returns, every bundle is reported once, as done, failed or *)
(* cancelled, except that a cancelled cleanup stops reporting; the error   *)
(* says cancelled exactly if some bundle was; a bundle rewritten is whole, *)
(* clean and in the requested state, and any other bundle of the batch is  *)
(* as it was, unless a file could not be returned.                         *)
ReportsHonest ==
  main = "returned" /\ error # "other" =>
    /\ succeeded \cap failed = {} /\ (succeeded \cup failed) \cap dropped = {}
    /\ succeeded \cup failed \cup dropped = Members \/ (op = "strip" /\ error = "cancelled")
    /\ error = "cancelled" <=> dropped # {}
    /\ ~early => \A m \in succeeded : Reached(m) /\ live[m]["pak"] = "clean"
    /\ \A m \in Members \ (succeeded \cup jammed) : live[m] = before[m]

(* Every call comes to an end: the send to the pool never waits for a      *)
(* worker that is gone.                                                    *)
CallReturns == main = "next" ~> main \in {"returned", "idle"}
=============================================================================
