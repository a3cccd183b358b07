-------------------------------- MODULE Nexus --------------------------------
(***************************************************************************)
(* Nexus links and downloads (service_nexus.go, internal/nexus, and the    *)
(* window's side in LibraryScreen and InstallPreviewDialog).               *)
(*                                                                         *)
(* An nxm:// link reaches the program when it is launched or from a second *)
(* instance.  It waits in one buffer until the window takes it, at mount   *)
(* or on an event.  A confirmed link opens the install dialog, whose       *)
(* PrepareNexusInstall call downloads the file into a temporary directory  *)
(* and stages it.  Startup, the window, second instances and calls run     *)
(* beside each other; a dialog may be closed while its call still runs,    *)
(* and the next one opened, or be given another source while it is open:   *)
(* its effect then makes another call.                                     *)
(*                                                                         *)
(* Abstracted: an answer of the network is one step; a cached answer does  *)
(* not look at the context.  A change of the window's state is seen at     *)
(* once, and its handlers (close, install) are not run inside one another. *)
(* Of installs of local files, which Install models, only the session is   *)
(* here.                                                                   *)
(***************************************************************************)
EXTENDS Naturals, FiniteSets

CONSTANTS
  Clicks,      \* nxm:// links that reach the program, each signed anew
  Files,       \* Nexus files
  FileOf,      \* the file a click is for
  Downloads,   \* calls of PrepareNexusInstall, and of PrepareInstall for local files
  Nothing,
  MaxNetFailures  \* bound: requests and system calls that fail

ASSUME NexusAssumption ==
  /\ FileOf \in [Clicks -> Files] /\ Nothing \notin Clicks \cup Downloads \cup Files /\ MaxNetFailures \in Nat

VARIABLES
  ready,       \* ctxReady: events can be emitted
  pending,     \* pendingLink
  secrets,     \* linkSecrets: for each file, the click whose signature is kept
  cancel,      \* nexusDownloadCancel: the call it belongs to
  starting,    \* startup: "before", "emit" or "done"
  link,        \* setLaunchURL of each click: "new", "emit" or "done"
  phase,       \* where each call is
  file,        \* the file it is for, Nothing for local files
  stopped,     \* calls whose context is cancelled
  dirs,        \* calls whose temporary directory exists
  sessions,    \* calls whose staging session exists
  mounted,     \* the window listens and has asked for a link
  events,      \* events on the way to it
  first,       \* its first request: "none", "asked", "answer" or "done"
  firstLink,   \* what that request drained
  takes,       \* later requests on the way
  answers,     \* links drained for them
  dialog,      \* the link the user is asked about
  installing,  \* the last call of the open install dialog
  shown,       \* all its calls: one for each source it was given
  sessionRef,  \* sessionIdRef: the session the dialog cancels when it is closed
  applying,    \* the call whose session is being installed
  closing,     \* that dialog is "open", or closing: "cancel", "session", "gone"
  swallowed,   \* history: links whose event met the first request unanswered
  crossed,     \* history: calls of a dialog that got another source, or was closed for one
  asked,       \* history: calls that could be cancelled when their dialog was closed
  displaced,   \* history: calls whose cancel function another call replaced or cleared
  netFailures     \* counter of the bound

links == <<ready, pending, starting, link>>
window == <<mounted, events, first, firstLink, takes, answers, swallowed>>
install == <<installing, shown, sessionRef, applying, closing, crossed>>
view == <<dialog, install>>
download == <<phase, file, stopped, dirs, sessions, cancel, asked, displaced>>
nexusVars == <<links, secrets, window, view, download, netFailures>>

NexusInit ==
  /\ ready = FALSE /\ starting = "before"
  /\ pending \in Clicks \cup {Nothing}    \* the program may be launched with a link
  /\ link = [c \in Clicks |-> IF c = pending THEN "done" ELSE "new"]
  /\ secrets = [f \in Files |-> IF pending # Nothing /\ FileOf[pending] = f THEN pending ELSE Nothing]
  /\ cancel = Nothing /\ phase = [k \in Downloads |-> "none"] /\ file = [k \in Downloads |-> Nothing]
  /\ stopped = {} /\ dirs = {} /\ sessions = {} /\ asked = {} /\ displaced = {}
  /\ mounted = FALSE /\ events = 0 /\ first = "none" /\ firstLink = Nothing
  /\ takes = 0 /\ answers = {} /\ swallowed = {}
  /\ dialog = Nothing /\ installing = Nothing /\ shown = {} /\ sessionRef = Nothing
  /\ applying = Nothing /\ closing = "open" /\ crossed = {}
  /\ netFailures = 0

NetWorks == UNCHANGED netFailures
NetFails == netFailures < MaxNetFailures /\ netFailures' = netFailures + 1
DropSecrets(f) == secrets' = [secrets EXCEPT ![f] = Nothing]

-----------------------------------------------------------------------------
(* Links. *)

Emit == events' = IF mounted THEN events + 1 ELSE events
WindowOnly == UNCHANGED <<mounted, first, firstLink, takes, answers, swallowed>>

(* setLaunchURL: the link and its signature are stored, and whether the    *)
(* program is ready is read, under one lock.                               *)
StoreLink(c) ==
  /\ link[c] = "new"
  /\ pending' = c /\ secrets' = [secrets EXCEPT ![FileOf[c]] = c]
  /\ link' = [link EXCEPT ![c] = IF ready THEN "emit" ELSE "done"]
  /\ UNCHANGED <<ready, starting, window, view, download>> /\ NetWorks

EmitLink(c) ==
  /\ link[c] = "emit" /\ link' = [link EXCEPT ![c] = "done"]
  /\ Emit /\ WindowOnly
  /\ UNCHANGED <<ready, pending, starting, secrets, view, download>> /\ NetWorks

(* Fault: the link that waits is left to the window. *)
StartupQuiet ==
  /\ starting = "before" /\ ready' = TRUE /\ starting' = "done"
  /\ UNCHANGED <<pending, link, secrets, window, view, download>> /\ NetWorks

Startup ==
  /\ starting = "before" /\ ready' = TRUE
  /\ starting' = IF pending = Nothing THEN "done" ELSE "emit"
  /\ UNCHANGED <<pending, link, secrets, window, view, download>> /\ NetWorks

EmitStartup ==
  /\ starting = "emit" /\ starting' = "done"
  /\ Emit /\ WindowOnly
  /\ UNCHANGED <<ready, pending, link, secrets, view, download>> /\ NetWorks

(* The effects of LibraryScreen: the listener, then the first request. *)
Mount ==
  /\ ~mounted /\ mounted' = TRUE /\ first' = "asked"
  /\ UNCHANGED <<links, secrets, events, firstLink, takes, answers, swallowed, view, download>> /\ NetWorks

(* takeNexusLink on an event: until the first request has an answer, its   *)
(* promise is shared instead of asking again.                              *)
Deliver ==
  /\ events > 0 /\ events' = events - 1
  /\ IF first = "done" THEN takes' = takes + 1 /\ UNCHANGED swallowed
     ELSE /\ swallowed' = IF first = "answer" THEN swallowed \cup {pending} ELSE swallowed
          /\ UNCHANGED takes
  /\ UNCHANGED <<links, secrets, mounted, first, firstLink, answers, view, download>> /\ NetWorks

(* TakePendingNexusLink drains the buffer. *)
TakeFirst ==
  /\ first = "asked" /\ first' = "answer" /\ firstLink' = pending /\ pending' = Nothing
  /\ UNCHANGED <<ready, starting, link, secrets, mounted, events, takes, answers, swallowed, view, download>>
  /\ NetWorks
Take ==
  /\ takes > 0 /\ takes' = takes - 1 /\ pending' = Nothing
  /\ answers' = answers \cup ({pending} \ {Nothing})
  /\ UNCHANGED <<ready, starting, link, secrets, mounted, events, first, firstLink, swallowed, view, download>>
  /\ NetWorks

(* resolveDownloadRequest and ingestPendingNexusLink: the link is shown,   *)
(* discarded because an install is open, refused as adult content, or an   *)
(* error is shown instead.                                                 *)
Ingest(c) ==
  \/ c = Nothing /\ NetWorks /\ UNCHANGED <<dialog, secrets>>
  \/ /\ c # Nothing /\ NetWorks
     /\ IF installing = Nothing THEN dialog' = c /\ UNCHANGED secrets
        ELSE DropSecrets(FileOf[c]) /\ UNCHANGED dialog
  \/ c # Nothing /\ NetFails /\ dialog' = Nothing /\ DropSecrets(FileOf[c])
  \/ c # Nothing /\ NetFails /\ UNCHANGED <<dialog, secrets>>
ShowFirst ==
  /\ first = "answer" /\ first' = "done" /\ Ingest(firstLink) /\ firstLink' = Nothing
  /\ UNCHANGED <<links, mounted, events, takes, answers, swallowed, install, download>>
Show ==
  /\ \E c \in answers : answers' = answers \ {c} /\ Ingest(c)
  /\ UNCHANGED <<links, mounted, events, first, firstLink, takes, swallowed, install, download>>

-----------------------------------------------------------------------------
(* PrepareNexusInstall. *)

Reach(k, p) == phase' = [phase EXCEPT ![k] = p]
CallOnly == UNCHANGED <<links, window, view, file, stopped, asked>>

(* A source for the install dialog, which opens or, when it is open, gets  *)
(* this one instead of its own: a new call.                                *)
Source(k, f) ==
  /\ phase[k] = "none" /\ k = CHOOSE j \in Downloads : phase[j] = "none"
  /\ Reach(k, IF f = Nothing THEN "stage" ELSE "begin")
  /\ file' = [file EXCEPT ![k] = f]
  /\ installing' = k /\ shown' = shown \cup {k}
  /\ crossed' = IF installing = Nothing THEN crossed ELSE crossed \cup shown \cup {k}
  /\ UNCHANGED <<links, secrets, window, sessionRef, applying, closing>>
  /\ UNCHANGED <<stopped, dirs, sessions, cancel, asked, displaced>> /\ NetWorks

(* The link is confirmed: startNexusInstall. *)
Confirm(k) == dialog # Nothing /\ Source(k, FileOf[dialog]) /\ dialog' = Nothing

(* Files are dropped on the window, or chosen: startInstallFiles. *)
Drop(k) == Source(k, Nothing) /\ UNCHANGED dialog

(* The folder to install in is gone from the library, and the effect of    *)
(* the open dialog runs again for the same source.                         *)
Again(k) == installing # Nothing /\ Source(k, file[installing]) /\ UNCHANGED dialog

(* The user turns the link down: DiscardNexusLink. *)
TurnDown ==
  /\ dialog # Nothing /\ dialog' = Nothing /\ DropSecrets(FileOf[dialog])
  /\ UNCHANGED <<links, window, install, download>> /\ NetWorks

(* requireNexusClient, and the cancel function of this call. *)
BeginCall(k) ==
  /\ phase[k] = "begin"
  /\ \/ /\ NetWorks /\ cancel' = k /\ Reach(k, "check")
        /\ displaced' = displaced \cup ({cancel} \ {Nothing})
     \/ NetFails /\ Reach(k, "answer") /\ UNCHANGED <<cancel, displaced>>
  /\ CallOnly /\ UNCHANGED <<secrets, dirs, sessions>>

(* Mod, CheckAdultContent and File, which may all come from the cache. *)
Check(k) ==
  /\ phase[k] = "check"
  /\ \/ NetWorks /\ Reach(k, "links") /\ UNCHANGED secrets
     \/ NetFails /\ Reach(k, "clear") /\ DropSecrets(file[k])
     \/ ((k \in stopped /\ NetWorks) \/ NetFails) /\ Reach(k, "clear") /\ UNCHANGED secrets
  /\ CallOnly /\ UNCHANGED <<dirs, sessions, cancel, displaced>>

(* DownloadLinks with the signature kept for the file, which is then       *)
(* dropped.                                                                *)
AskLinks(k) ==
  /\ phase[k] = "links"
  /\ \/ k \notin stopped /\ NetWorks /\ Reach(k, "drop")
     \/ ((k \in stopped /\ NetWorks) \/ NetFails) /\ Reach(k, "clear")
  /\ CallOnly /\ UNCHANGED <<secrets, dirs, sessions, cancel, displaced>>
Spend(k) ==
  /\ phase[k] = "drop" /\ Reach(k, "open") /\ DropSecrets(file[k]) /\ NetWorks
  /\ CallOnly /\ UNCHANGED <<dirs, sessions, cancel, displaced>>

(* nexus.Download up to the temporary directory. *)
Open(k) ==
  /\ phase[k] = "open"
  /\ \/ k \notin stopped /\ NetWorks /\ Reach(k, "read") /\ dirs' = dirs \cup {k}
     \/ ((k \in stopped /\ NetWorks) \/ NetFails) /\ Reach(k, "clear") /\ UNCHANGED dirs
  /\ CallOnly /\ UNCHANGED <<secrets, sessions, cancel, displaced>>

(* Fault: the end of the body is taken for the end of the download. *)
ReadToEnd(k) ==
  /\ phase[k] = "read"
  /\ \/ NetWorks /\ Reach(k, "stage") /\ UNCHANGED dirs
     \/ ((k \in stopped /\ NetWorks) \/ NetFails) /\ Reach(k, "clear") /\ dirs' = dirs \ {k}
  /\ CallOnly /\ UNCHANGED <<secrets, sessions, cancel, displaced>>

(* Fault: a cancelled download keeps its directory. *)
ReadKeeps(k) ==
  /\ phase[k] = "read"
  /\ \/ k \notin stopped /\ NetWorks /\ Reach(k, "stage") /\ UNCHANGED dirs
     \/ k \in stopped /\ NetWorks /\ Reach(k, "clear") /\ UNCHANGED dirs
     \/ NetFails /\ Reach(k, "clear") /\ dirs' = dirs \ {k}
  /\ CallOnly /\ UNCHANGED <<secrets, sessions, cancel, displaced>>

(* The loop over the body: at its end the context is looked at, and every  *)
(* failure (a stall, a write, the limit) removes the directory.            *)
Read(k) ==
  /\ phase[k] = "read"
  /\ \/ k \notin stopped /\ NetWorks /\ Reach(k, "stage") /\ UNCHANGED dirs
     \/ ((k \in stopped /\ NetWorks) \/ NetFails) /\ Reach(k, "clear") /\ dirs' = dirs \ {k}
  /\ CallOnly /\ UNCHANGED <<secrets, sessions, cancel, displaced>>

(* InstallService.stage, under the context of the program. *)
StageFile(k) ==
  /\ phase[k] = "stage" /\ Reach(k, IF file[k] = Nothing THEN "answer" ELSE "cleanup")
  /\ \/ NetWorks /\ sessions' = sessions \cup {k}
     \/ NetFails /\ UNCHANGED sessions
  /\ CallOnly /\ UNCHANGED <<secrets, dirs, cancel, displaced>>

(* The deferred calls: cleanup of the download, then the cancel function,  *)
(* whosever it is by now.                                                  *)
Cleanup(k) ==
  /\ phase[k] = "cleanup" /\ Reach(k, "clear") /\ dirs' = dirs \ {k} /\ NetWorks
  /\ CallOnly /\ UNCHANGED <<secrets, sessions, cancel, displaced>>
ClearCancel(k) ==
  /\ phase[k] = "clear" /\ Reach(k, "answer") /\ cancel' = Nothing
  /\ displaced' = displaced \cup ({cancel} \ {k, Nothing}) /\ NetWorks
  /\ CallOnly /\ UNCHANGED <<secrets, dirs, sessions>>

(* The dialog gets the answer and holds its session; when it is gone, or   *)
(* waits for another call by now, the session is cancelled.                *)
Answer(k) ==
  /\ phase[k] = "answer" /\ NetWorks
  /\ Reach(k, IF installing # k /\ k \in sessions THEN "late" ELSE "done")
  /\ sessionRef' = IF k \in shown \cap sessions THEN k ELSE sessionRef
  /\ UNCHANGED <<links, window, dialog, installing, shown, applying, closing, crossed>>
  /\ UNCHANGED <<file, stopped, asked, secrets, dirs, sessions, cancel, displaced>>
CancelLate(k) ==
  /\ phase[k] = "late" /\ Reach(k, "done") /\ sessions' = sessions \ {k} /\ NetWorks
  /\ CallOnly /\ UNCHANGED <<secrets, dirs, cancel, displaced>>

(* handleCancel: the download is cancelled, if the source is one, then the *)
(* session, then the dialog goes.                                          *)
CloseDialog ==
  /\ installing \notin {Nothing, applying} /\ closing = "open"
  /\ closing' = IF file[installing] = Nothing THEN "session" ELSE "cancel"
  /\ UNCHANGED <<links, secrets, window, dialog, installing, shown, sessionRef, applying, crossed, download>>
  /\ NetWorks
CancelDownload ==
  /\ closing = "cancel" /\ closing' = "session"
  /\ stopped' = stopped \cup ({cancel} \ {Nothing}) /\ cancel' = Nothing
  /\ asked' = asked \cup {k \in shown : phase[k] \in {"check", "links", "drop", "open", "read"}}
  /\ UNCHANGED <<links, secrets, window, dialog, installing, shown, sessionRef, applying, crossed>>
  /\ UNCHANGED <<phase, file, dirs, sessions, displaced>> /\ NetWorks
CancelSession ==
  /\ closing = "session" /\ sessionRef # Nothing /\ closing' = "gone"
  /\ sessions' = sessions \ {sessionRef}
  /\ UNCHANGED <<links, secrets, window, dialog, installing, shown, sessionRef, applying, crossed>>
  /\ UNCHANGED <<phase, file, stopped, dirs, cancel, asked, displaced>> /\ NetWorks
Gone == installing' = Nothing /\ shown' = {} /\ sessionRef' = Nothing
DialogGoes ==
  /\ closing = "gone" \/ (closing = "session" /\ sessionRef = Nothing)
  /\ Gone /\ closing' = "open"
  /\ UNCHANGED <<links, secrets, window, dialog, applying, crossed, download>> /\ NetWorks

(* The user installs: ApplyInstall removes the session in the end, and the *)
(* dialog goes, whosever it is by now, or shows the error.                 *)
Apply ==
  /\ installing \in sessions /\ phase[installing] = "done" /\ closing = "open" /\ applying = Nothing
  /\ applying' = installing
  /\ UNCHANGED <<links, secrets, window, dialog, installing, shown, sessionRef, closing, crossed, download>>
  /\ NetWorks
Applied ==
  /\ applying # Nothing /\ closing = "open"
  /\ applying' = Nothing /\ sessions' = sessions \ {applying}
  /\ \/ /\ NetWorks /\ Gone
        /\ crossed' = IF installing = applying THEN crossed ELSE crossed \cup shown
     \/ NetFails /\ UNCHANGED <<installing, shown, sessionRef, crossed>>
  /\ UNCHANGED <<links, secrets, window, dialog, closing>>
  /\ UNCHANGED <<phase, file, stopped, dirs, cancel, asked, displaced>>

Linking ==
  \/ Startup \/ EmitStartup \/ Mount \/ Deliver \/ TakeFirst \/ Take \/ ShowFirst \/ Show
  \/ \E c \in Clicks : EmitLink(c)
Prepare(k) ==
  \/ BeginCall(k) \/ Check(k) \/ AskLinks(k) \/ Spend(k) \/ Open(k) \/ Read(k) \/ StageFile(k)
  \/ Cleanup(k) \/ ClearCancel(k) \/ Answer(k) \/ CancelLate(k)
User ==
  \/ TurnDown \/ CloseDialog \/ CancelDownload \/ CancelSession \/ DialogGoes \/ Apply \/ Applied
  \/ \E k \in Downloads : Confirm(k) \/ Drop(k) \/ Again(k)

NexusNext ==
  \/ Linking \/ User
  \/ \E c \in Clicks : StoreLink(c)
  \/ \E k \in Downloads : Prepare(k)

NexusSpec == NexusInit /\ [][NexusNext]_nexusVars

(* Startup and the window run, events arrive, and requests are answered or *)
(* time out.                                                               *)
FairSpec ==
  /\ NexusSpec
  /\ WF_nexusVars(Startup) /\ WF_nexusVars(EmitStartup) /\ \A c \in Clicks : WF_nexusVars(EmitLink(c))
  /\ WF_nexusVars(Mount) /\ WF_nexusVars(Deliver) /\ WF_nexusVars(TakeFirst) /\ WF_nexusVars(Take)
  /\ WF_nexusVars(ShowFirst)

-----------------------------------------------------------------------------
(* No link waits forever: the window takes it, whether it came before the  *)
(* startup, before the mount or between the two, or a newer one replaces   *)
(* it; except one whose event met the first request unanswered.            *)
LinkTaken == \A c \in Clicks : (pending = c) ~> (pending # c \/ c \in swallowed)

(* Once no call runs and no install dialog is open, no download directory  *)
(* is left, however the dialogs were closed, and no staging session but    *)
(* those of a dialog that was given another source while it was open: it   *)
(* holds one session, and loses sight of the others.                       *)
NothingLeft ==
  (installing = Nothing /\ applying = Nothing /\ \A k \in Downloads : phase[k] \in {"none", "done"}) =>
    dirs = {} /\ sessions \subseteq crossed

(* A download whose dialog is closed before its last byte is read is not   *)
(* staged, unless its cancel function was not there yet (a call that still *)
(* begins is not cancelled: it downloads and stages), or another call that *)
(* still ran replaced or cleared it.                                       *)
CancelledFails == \A k \in asked \ displaced : phase[k] # "stage"
=============================================================================
