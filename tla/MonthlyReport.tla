---------------------------- MODULE MonthlyReport ----------------------------
(***************************************************************************)
(* The monthly report: scripts/paper_forward_monthly.py claims the month   *)
(* and launches run_monthly_report.py, which publishes two files and a     *)
(* completion marker one after the other and delivers the Markdown file.   *)
(*                                                                         *)
(* The claim is a file lock of the wrappers and a marker file that says    *)
(* the month is done.  The command itself holds the global writer lock     *)
(* (WriterLock), so one of them runs at a time, but a wrapper may die and  *)
(* leave its command behind, and an operator may run the command without   *)
(* any wrapper.                                                             *)
(*                                                                         *)
(* One month is considered.  A version stands for the bytes a state of the *)
(* paper database gives for JSON, Markdown and the hashes in the marker.   *)
(***************************************************************************)
EXTENDS Naturals

CONSTANTS
    Wrapper,    \* wrapper invocations
    Nobody,     \* no wrapper
    Versions,   \* contents the report may have
    Absent,     \* no file
    Altered,    \* a file whose contents is no version
    MaxEdits    \* bound: changes to the files from outside

ASSUME NobodyAssumption == Nobody \notin Wrapper

ASSUME ContentsAssumption ==
    Absent \notin Versions /\ Altered \notin Versions /\ Absent # Altered

ASSUME MaxEditsAssumption == MaxEdits \in Nat

Contents == Versions \cup {Absent, Altered}

VARIABLES
    data,       \* the version the paper database would give
    json,       \* forward_monthly_<period>.json
    md,         \* forward_monthly_<period>.md
    marker,     \* forward_monthly_<period>.complete.json, by its hashes
    edits,      \* changes made to the three files from outside
    completed,  \* the wrappers' marker of the month exists
    claim,      \* the wrapper that holds the file lock
    wrapper,    \* where each wrapper stands
    parent,     \* the wrapper that waits for the command, if any does
    pc,         \* where the command stands; "idle": nobody holds the writer lock
    draft,      \* the version the command has built
    outbox,     \* status of the month's notification (NotificationOutbox)
    digest,     \* contents whose hash the notification stores
    delivered   \* contents the recipient has got

files    == <<json, md, marker, edits>>
dispatch == <<completed, claim, wrapper, parent>>
mail     == <<outbox, digest, delivered>>
vars     == <<data, files, dispatch, pc, draft, mail>>

Claiming == {"claimed", "launch", "waiting", "succeeded", "marked"}

TypeOK ==
    /\ data \in Versions
    /\ json \in Contents /\ md \in Contents /\ marker \in Contents
    /\ edits \in 0 .. MaxEdits
    /\ completed \in BOOLEAN
    /\ claim \in Wrapper \cup {Nobody}
    /\ wrapper \in [Wrapper -> Claiming \cup {"off", "checked"}]
    /\ parent \in Wrapper \cup {Nobody}
    /\ pc \in {"idle", "load", "build", "json", "markdown", "marker", "confirm",
               "register", "attempt", "deliver"}
    /\ draft \in Versions \cup {Absent}
    /\ outbox \in {"NONE", "PENDING", "SENDING", "FAILED", "DELIVERY_UNKNOWN",
                   "DELIVERED"}
    /\ digest \in Contents
    /\ delivered \subseteq Contents

Init ==
    /\ data \in Versions
    /\ json = Absent /\ md = Absent /\ marker = Absent
    /\ edits = 0
    /\ completed = FALSE
    /\ claim = Nobody
    /\ wrapper = [w \in Wrapper |-> "off"]
    /\ parent = Nobody
    /\ pc = "idle"
    /\ draft = Absent
    /\ outbox = "NONE"
    /\ digest = Absent
    /\ delivered = {}

-----------------------------------------------------------------------------
(* Around the report *)

\* A weekly run, an audit or a recovery changes what the report would say; all
\* of them hold the writer lock.
DataChanges ==
    /\ pc = "idle"
    /\ data' \in Versions \ {data}
    /\ UNCHANGED <<files, dispatch, pc, draft, mail>>

\* Somebody removes, alters or restores one of the files, but not in the instant
\* between the check of the digest and the sender's own reading of the file.
Edit ==
    /\ edits < MaxEdits
    /\ pc # "deliver"
    /\ edits' = edits + 1
    /\ \E x \in Contents :
          \/ json' = x /\ UNCHANGED <<md, marker>>
          \/ md' = x /\ UNCHANGED <<json, marker>>
          \/ marker' = x /\ UNCHANGED <<json, md>>
    /\ UNCHANGED <<data, dispatch, pc, draft, mail>>

\* NotificationOutbox: an operator decides about a delivery in doubt.
OperatorDecides ==
    /\ pc = "idle"
    /\ outbox \in {"SENDING", "DELIVERY_UNKNOWN"}
    /\ outbox' \in {"DELIVERY_UNKNOWN", "DELIVERED", "FAILED"}
    /\ UNCHANGED <<data, files, dispatch, pc, draft, digest, delivered>>

-----------------------------------------------------------------------------
(* The wrapper: claim_dispatch and main *)

Move(w, place) == wrapper' = [wrapper EXCEPT ![w] = place]

\* The month is not marked as completed; otherwise the wrapper returns 0.
CheckCompleted(w) ==
    /\ wrapper[w] = "off"
    /\ ~completed
    /\ Move(w, "checked")
    /\ UNCHANGED <<data, files, completed, claim, parent, pc, draft, mail>>

\* FileLock.acquire(timeout=0)
AcquireClaim(w) ==
    /\ wrapper[w] = "checked"
    /\ claim = Nobody
    /\ claim' = w
    /\ Move(w, "claimed")
    /\ UNCHANGED <<data, files, completed, parent, pc, draft, mail>>

ClaimTaken(w) ==
    /\ wrapper[w] = "checked"
    /\ claim # Nobody
    /\ Move(w, "off")
    /\ UNCHANGED <<data, files, completed, claim, parent, pc, draft, mail>>

\* The marker may have been written between the first look and the lock.
Recheck(w) ==
    /\ wrapper[w] = "claimed"
    /\ IF completed
       THEN Move(w, "off") /\ claim' = Nobody
       ELSE Move(w, "launch") /\ UNCHANGED claim
    /\ UNCHANGED <<data, files, completed, parent, pc, draft, mail>>

\* The command is started and gets the writer lock.
Launch(w) ==
    /\ wrapper[w] = "launch"
    /\ pc = "idle"
    /\ Move(w, "waiting")
    /\ parent' = w
    /\ pc' = "load"
    /\ UNCHANGED <<data, files, completed, claim, draft, mail>>

\* The interpreter cannot be started, or the command ends before it changes
\* anything: the writer lock is not free within its five seconds, or bootstrap or
\* reconciliation refuses.
LaunchFails(w) ==
    /\ wrapper[w] = "launch"
    /\ Move(w, "off")
    /\ claim' = Nobody
    /\ UNCHANGED <<data, files, completed, parent, pc, draft, mail>>

\* The command is run by hand.
RunDirectly ==
    /\ pc = "idle"
    /\ pc' = "load"
    /\ UNCHANGED <<data, files, dispatch, draft, mail>>

\* os.replace of the marker, then the release of the lock.
MarkCompleted(w) ==
    /\ wrapper[w] = "succeeded"
    /\ completed' = TRUE
    /\ Move(w, "marked")
    /\ UNCHANGED <<data, files, claim, parent, pc, draft, mail>>

ReleaseClaim(w) ==
    /\ wrapper[w] = "marked"
    /\ claim' = Nobody
    /\ Move(w, "off")
    /\ UNCHANGED <<data, files, completed, parent, pc, draft, mail>>

\* The operating system frees the lock; a command that was waited for runs on.
WrapperDies(w) ==
    /\ wrapper[w] # "off"
    /\ Move(w, "off")
    /\ claim' = IF claim = w THEN Nobody ELSE claim
    /\ parent' = IF parent = w THEN Nobody ELSE parent
    /\ UNCHANGED <<data, files, completed, pc, draft, mail>>

-----------------------------------------------------------------------------
(* The command: run_monthly_report.main *)

Goto(step) == pc' = step /\ UNCHANGED <<dispatch, draft>>

\* The command ends.  On exit code 0 its wrapper goes on to mark the month,
\* otherwise it releases the claim.
Exit(success) ==
    /\ pc' = "idle"
    /\ draft' = Absent
    /\ parent' = Nobody
    /\ IF parent = Nobody
       THEN UNCHANGED <<claim, wrapper>>
       ELSE /\ Move(parent, IF success THEN "succeeded" ELSE "off")
            /\ claim' = IF success THEN claim ELSE Nobody
    /\ UNCHANGED completed

Complete == json # Absent /\ md # Absent /\ marker # Absent

\* _load_committed_monthly_report finds a pair that its marker vouches for.
Committed == marker \in Versions /\ json = marker /\ md = marker

\* _load_committed_monthly_report raises.
Corrupted == marker = Altered \/ (Complete /\ ~Committed)

LoadCommitted ==
    /\ pc = "load"
    /\ ~Corrupted
    /\ Goto(IF Committed THEN "confirm" ELSE "build")
    /\ UNCHANGED <<data, files, mail>>

\* Everything the report says is read in one connection.
Build ==
    /\ pc = "build"
    /\ draft' = data
    /\ pc' = "json"
    /\ UNCHANGED <<data, files, dispatch, mail>>

\* Mutant: the temporary file replaces what is there.
JsonReplaced ==
    /\ pc = "json"
    /\ json' = draft
    /\ Goto("markdown")
    /\ UNCHANGED <<data, md, marker, edits, mail>>

\* Mutant: any file left by an interrupted publication is an error.
JsonMustBeNew ==
    /\ pc = "json"
    /\ json = Absent
    /\ json' = draft
    /\ Goto("markdown")
    /\ UNCHANGED <<data, md, marker, edits, mail>>

\* _publish_temporary: a link, which never replaces; what is there must be equal.
PublishJson ==
    /\ pc = "json"
    /\ json \in {Absent, draft}
    /\ json' = draft
    /\ Goto("markdown")
    /\ UNCHANGED <<data, md, marker, edits, mail>>

PublishMarkdown ==
    /\ pc = "markdown"
    /\ md \in {Absent, draft}
    /\ md' = draft
    /\ Goto("marker")
    /\ UNCHANGED <<data, json, marker, edits, mail>>

\* Both files are read back; an orphaned marker must carry their hashes.
PublishMarker ==
    /\ pc = "marker"
    /\ json = draft /\ md = draft
    /\ marker \in {Absent, draft}
    /\ marker' = draft
    /\ Goto("confirm")
    /\ UNCHANGED <<data, json, md, edits, mail>>

\* Publication refuses what it finds.
PublicationRefused ==
    /\ \/ pc = "load" /\ Corrupted
       \/ pc = "json" /\ json \notin {Absent, draft}
       \/ pc = "markdown" /\ md \notin {Absent, draft}
       \/ pc = "marker" /\ ~(json = draft /\ md = draft /\ marker \in {Absent, draft})
       \/ pc = "confirm" /\ ~Committed
    /\ Exit(FALSE)
    /\ UNCHANGED <<data, files, mail>>

\* is_monthly_report_committed reads the three files once more.
Confirm ==
    /\ pc = "confirm"
    /\ Committed
    /\ Goto("register")
    /\ UNCHANGED <<data, files, mail>>

\* send_committed_monthly: a notification that is there keeps its digest, a new one
\* takes that of the Markdown file as it is now, which need not be the one that was
\* confirmed.
Register ==
    /\ pc = "register"
    /\ IF outbox = "NONE"
       THEN md # Absent /\ outbox' = "PENDING" /\ digest' = md
       ELSE UNCHANGED <<outbox, digest>>
    /\ Goto("attempt")
    /\ UNCHANGED <<data, files, delivered>>

\* A delivered notification is left alone.
AlreadyDelivered ==
    /\ pc = "attempt"
    /\ outbox = "DELIVERED"
    /\ Exit(TRUE)
    /\ UNCHANGED <<data, files, mail>>

Retryable == {"PENDING", "FAILED"}

\* Mutant: the report is sent whatever the digest says.
ClaimAnyReport ==
    /\ pc = "attempt"
    /\ outbox \in Retryable
    /\ outbox' = "SENDING"
    /\ Goto("deliver")
    /\ UNCHANGED <<data, files, digest, delivered>>

ClaimAttempt ==
    /\ pc = "attempt"
    /\ outbox \in Retryable
    /\ md = digest
    /\ outbox' = "SENDING"
    /\ Goto("deliver")
    /\ UNCHANGED <<data, files, digest, delivered>>

\* NotificationError: there is no report to register, the delivery is in doubt, or
\* the report is not the one that was registered.
DeliveryRefused ==
    /\ \/ pc = "register" /\ outbox = "NONE" /\ md = Absent
       \/ /\ pc = "attempt"
          /\ outbox # "DELIVERED"
          /\ outbox \notin Retryable \/ md # digest
    /\ Exit(FALSE)
    /\ UNCHANGED <<data, files, mail>>

\* The sender reads the file.
Received(arrives) == delivered' = IF arrives THEN delivered \cup {md} ELSE delivered

Delivered ==
    /\ pc = "deliver"
    /\ Received(TRUE)
    /\ outbox' = "DELIVERED"
    /\ Exit(TRUE)
    /\ UNCHANGED <<data, files, digest>>

\* A rejected or an ambiguous delivery is recorded and raised; either may have
\* arrived (NotificationOutbox!Decodable).
NotDelivered ==
    /\ pc = "deliver"
    /\ \E arrives \in BOOLEAN : Received(arrives)
    /\ outbox' \in {"FAILED", "DELIVERY_UNKNOWN"}
    /\ Exit(FALSE)
    /\ UNCHANGED <<data, files, digest>>

\* The command dies, or the wrapper kills it after 600 seconds; a sender it has
\* launched may still deliver.
CommandDies ==
    /\ pc # "idle"
    /\ \E arrives \in BOOLEAN : Received(arrives /\ pc = "deliver")
    /\ Exit(FALSE)
    /\ UNCHANGED <<data, files, outbox, digest>>

-----------------------------------------------------------------------------
WrapperStep(w) ==
    \/ CheckCompleted(w) \/ AcquireClaim(w) \/ ClaimTaken(w) \/ Recheck(w)
    \/ Launch(w) \/ LaunchFails(w) \/ MarkCompleted(w) \/ ReleaseClaim(w)

PublicationStep ==
    \/ LoadCommitted \/ Build \/ PublishJson \/ PublishMarkdown \/ PublishMarker
    \/ PublicationRefused

DeliveryStep ==
    \/ Confirm \/ Register \/ AlreadyDelivered \/ ClaimAttempt \/ DeliveryRefused
    \/ Delivered \/ NotDelivered

Next ==
    \/ DataChanges
    \/ Edit
    \/ OperatorDecides
    \/ \E w \in Wrapper : WrapperStep(w) \/ WrapperDies(w)
    \/ RunDirectly
    \/ PublicationStep
    \/ DeliveryStep
    \/ CommandDies

Spec == Init /\ [][Next]_vars

\* The command is run again and again, it goes on or dies, and no step of the
\* publication kills it every time.
FairSpec ==
    /\ Spec
    /\ WF_vars(PublicationStep \/ DeliveryStep)
    /\ SF_vars(RunDirectly)
    /\ SF_vars(LoadCommitted)
    /\ SF_vars(Build)
    /\ SF_vars(PublishJson)
    /\ SF_vars(PublishMarkdown)
    /\ SF_vars(PublishMarker)

-----------------------------------------------------------------------------
(* Correctness properties *)

\* The recipient never gets two different reports of a month: not when the files are
\* edited, removed and built again from changed data at any moment but that of the
\* sender's own reading, nor when an operator has a delivery repeated.  As long as
\* nobody touches the files, the one report is the committed one.
OneReportDelivered ==
    /\ \A u, v \in delivered : u = v
    /\ edits = 0 /\ delivered # {} => Committed /\ delivered = {md}

\* Not so: what is delivered need not be what was confirmed as committed.  A file
\* altered between is_monthly_report_committed and the registration is registered
\* and delivered as it is.
OnlyReportsDelivered == delivered \subseteq Versions

\* Whatever attempts were interrupted, and whatever changed in the database
\* between them, the files that are there are of one version.
NoMixedPublication ==
    edits = 0 => \A f, g \in {json, md, marker} : f = Absent \/ g = Absent \/ f = g

\* The program never replaces or removes a published file.
NeverRewritten ==
    [][edits' = edits =>
          /\ json # Absent => json' = json
          /\ md # Absent => md' = md
          /\ marker # Absent => marker' = marker]_vars

\* A month is marked as completed only if its report was delivered, or an
\* operator said so.
CompletedMeansDelivered == completed => outbox = "DELIVERED"

\* No wrapper launches the command for a month that is completed, however the
\* looks at the marker and at the lock interleave.
NoLaunchAfterCompletion ==
    [][\A w \in Wrapper :
          wrapper[w] # "waiting" /\ wrapper'[w] = "waiting" => ~completed]_vars

\* If nobody touches the files, an interrupted publication is completed by a
\* later attempt (checked with data that do not change).
PublicationCompletes == <>[]Committed

=============================================================================
