------------------------- MODULE NotificationOutbox -------------------------
(***************************************************************************)
(* The durable outbox of src/paper_notifications.py: a committed report is *)
(* registered, an attempt is claimed in one transaction, the external      *)
(* sender is called outside of any transaction, and its answer is recorded *)
(* in another.  The sender gives no idempotency key, so a process that     *)
(* dies in between leaves a row whose delivery is in doubt, and only an    *)
(* operator may say what became of it.                                     *)
(*                                                                         *)
(* Every writer holds the global lock: one process sends or recovers at a  *)
(* time.  A dead process does not take its sender with it: the orphan may  *)
(* still deliver, later than any decision of the operator.                 *)
(***************************************************************************)
EXTENDS Integers, Sequences

CONSTANTS
    Paper,        \* notifications of paper runs
    Monthly,      \* notifications of monthly reports
    NoMessage,    \* no notification
    MaxAttempts,  \* bound: attempts at one notification
    MaxAudits,    \* bound: operator decisions on one notification
    Decodable     \* does the output of every sender decode

ASSUME KindsAssumption == Paper \cap Monthly = {} /\ NoMessage \notin Paper \cup Monthly

ASSUME BoundsAssumption == MaxAttempts \in Nat /\ MaxAudits \in Nat

ASSUME DecodableAssumption == Decodable \in BOOLEAN

Messages == Paper \cup Monthly

Statuses == {"PENDING", "SENDING", "FAILED", "DELIVERY_UNKNOWN", "DELIVERED"}
Resolutions == {"unknown", "delivered", "not-delivered"}

VARIABLES
    run,         \* status of the paper run, "over" once finalised
    report,      \* the report file, compared with the digest in the outbox
    status,      \* paper_notifications.status; NONE: no row
    attempts,    \* notification_attempts.status, oldest first
    audits,      \* notification_audit_events, counted by resolution
    pc,          \* where the lock holder stands
    msg,         \* the notification it is sending
    answer,      \* the status it will record
    inflight,    \* senders that were started and may still deliver
    delivered    \* messages the recipient has got

rows   == <<status, attempts, audits>>
local  == <<pc, msg, answer>>
outside == <<inflight, delivered>>
vars   == <<run, report, rows, local, outside>>

TypeOK ==
    /\ run \in [Paper -> {"RUNNING", "over"}]
    /\ report \in [Messages -> {"sealed", "altered", "absent"}]
    /\ status \in [Messages -> Statuses \cup {"NONE"}]
    /\ attempts \in [Messages -> Seq(Statuses)]
    /\ audits \in [Messages -> [Resolutions -> Nat]]
    /\ pc \in {"idle", "claim", "launch", "waiting", "mark"}
    /\ msg \in Messages \cup {NoMessage}
    /\ answer \in Statuses \cup {"NONE"}
    /\ inflight \in [Messages -> Nat]
    /\ delivered \in [Messages -> Nat]

Init ==
    /\ run = [m \in Paper |-> "RUNNING"]
    /\ report = [m \in Messages |-> "sealed"]
    /\ status = [m \in Messages |-> "NONE"]
    /\ attempts = [m \in Messages |-> <<>>]
    /\ audits = [m \in Messages |-> [r \in Resolutions |-> 0]]
    /\ pc = "idle"
    /\ msg = NoMessage
    /\ answer = "NONE"
    /\ inflight = [m \in Messages |-> 0]
    /\ delivered = [m \in Messages |-> 0]

-----------------------------------------------------------------------------
(* Around the outbox *)

\* finish_run of the paper run (PaperForward).
RunEnds(m) ==
    /\ run[m] = "RUNNING"
    /\ run' = [run EXCEPT ![m] = "over"]
    /\ UNCHANGED <<report, rows, local, outside>>

\* The file is edited, removed or restored after its digest was stored.
ReportChanges(m, state) ==
    /\ status[m] # "NONE"
    /\ report[m] # state
    /\ report' = [report EXCEPT ![m] = state]
    /\ UNCHANGED <<run, rows, local, outside>>

-----------------------------------------------------------------------------
(* Registration and the entry points *)

\* register_pending, INSERT OR IGNORE; a new row stores the file's digest.
RegisterRow(m) ==
    /\ status' = [status EXCEPT ![m] = IF @ = "NONE" THEN "PENDING" ELSE @]
    /\ UNCHANGED <<attempts, audits>>

Attempt(m) == pc = "idle" /\ pc' = "claim" /\ msg' = m /\ UNCHANGED answer

\* Recovery registers the notification of a committed run and does not send it.
RegisterPending(m) ==
    /\ pc = "idle"
    /\ run[m] = "over"
    /\ report[m] # "absent"
    /\ RegisterRow(m)
    /\ UNCHANGED <<run, report, local, outside>>

\* send_committed_run
SendCommittedRun(m) ==
    /\ run[m] = "over"
    /\ report[m] # "absent"
    /\ Attempt(m)
    /\ RegisterRow(m)
    /\ UNCHANGED <<run, report, outside>>

\* Mutant: --resend looks at no status.
RetryableEverything == Statuses

\* The statuses a notification may be retried from.
Retryable == {"PENDING", "FAILED"}

\* resend: of a paper notification only, for _assert_committed knows no other run.
Resend(m) ==
    /\ status[m] \in Retryable
    /\ Attempt(m)
    /\ UNCHANGED <<run, report, rows, outside>>

\* send_committed_monthly: registered on the first call, retried afterwards.
SendCommittedMonthly(m) ==
    /\ status[m] \in Retryable \/ (status[m] = "NONE" /\ report[m] # "absent")
    /\ Attempt(m)
    /\ RegisterRow(m)
    /\ UNCHANGED <<run, report, outside>>

-----------------------------------------------------------------------------
(* _attempt *)

\* The digest is checked, then _claim_attempt in one transaction.
Claimable(m) == report[m] = "sealed" /\ status[m] \in Retryable

ClaimAttempt ==
    /\ pc = "claim"
    /\ Claimable(msg)
    /\ Len(attempts[msg]) < MaxAttempts
    /\ status' = [status EXCEPT ![msg] = "SENDING"]
    /\ attempts' = [attempts EXCEPT ![msg] = Append(@, "SENDING")]
    /\ pc' = "launch"
    /\ UNCHANGED <<run, report, audits, msg, answer, outside>>

EndSession == pc' = "idle" /\ msg' = NoMessage /\ answer' = "NONE"

\* NotificationError before anything is sent.
ClaimRefused ==
    /\ pc = "claim"
    /\ ~Claimable(msg)
    /\ EndSession
    /\ UNCHANGED <<run, report, rows, outside>>

LaunchSender ==
    /\ pc = "launch"
    /\ inflight' = [inflight EXCEPT ![msg] = @ + 1]
    /\ pc' = "waiting"
    /\ UNCHANGED <<run, report, rows, msg, answer, delivered>>

Answer(a) == answer' = a /\ pc' = "mark" /\ UNCHANGED msg

\* The executable cannot be started: an exception like any other, hence FAILED.
LaunchFails ==
    /\ pc = "launch"
    /\ Answer("FAILED")
    /\ UNCHANGED <<run, report, rows, outside>>

\* One sender of m comes to its end, delivering the message or not.
SenderEnds(m, delivers) ==
    /\ inflight' = [inflight EXCEPT ![m] = @ - 1]
    /\ delivered' = [delivered EXCEPT ![m] = @ + IF delivers THEN 1 ELSE 0]

\* Exit code 0.  Output that does not decode raises an exception that is none of
\* the ambiguous ones.
SenderSucceeds ==
    /\ pc = "waiting"
    /\ SenderEnds(msg, TRUE)
    /\ Answer("DELIVERED") \/ (~Decodable /\ Answer("FAILED"))
    /\ UNCHANGED <<run, report, rows>>

\* Mutant: every exit code but 0 counts as a failed delivery.
SenderFailsPlainly ==
    /\ pc = "waiting"
    /\ \E delivers \in BOOLEAN : SenderEnds(msg, delivers)
    /\ Answer("FAILED")
    /\ UNCHANGED <<run, report, rows>>

\* Exit code 2, a usage error before any send attempt.
SenderRejectsUsage ==
    /\ pc = "waiting"
    /\ SenderEnds(msg, FALSE)
    /\ Answer("FAILED")
    /\ UNCHANGED <<run, report, rows>>

\* Another exit code, the timeout of the sender, a connection error, or an
\* interruption that the process survives long enough to record.  Output that does
\* not decode raises its exception before the exit code is looked at.
SenderAmbiguous ==
    /\ pc = "waiting"
    /\ \E delivers \in BOOLEAN : SenderEnds(msg, delivers)
    /\ Answer("DELIVERY_UNKNOWN") \/ (~Decodable /\ Answer("FAILED"))
    /\ UNCHANGED <<run, report, rows>>

\* Mutant: the attempt keeps its old status.
SetLastForgotten(s, st) == s

\* The latest attempt.
SetLast(s, st) == [s EXCEPT ![Len(s)] = st]

\* _mark_delivered and _mark_unsuccessful: the row and the attempt, if SENDING.
MarkAnswer ==
    /\ pc = "mark"
    /\ status[msg] = "SENDING"
    /\ status' = [status EXCEPT ![msg] = answer]
    /\ attempts' = [attempts EXCEPT ![msg] = SetLast(@, answer)]
    /\ EndSession
    /\ UNCHANGED <<run, report, audits, outside>>

-----------------------------------------------------------------------------
(* recover, crashes and orphans *)

NewStatus(resolution) ==
    CASE resolution = "unknown"       -> "DELIVERY_UNKNOWN"
      [] resolution = "delivered"     -> "DELIVERED"
      [] resolution = "not-delivered" -> "FAILED"

Doubtful == {"SENDING", "DELIVERY_UNKNOWN"}

\* The latest attempt whose outcome is in doubt, if there is one, is resolved.
ResolveLatest(s, st) ==
    [i \in 1 .. Len(s) |->
        IF s[i] \in Doubtful /\ \A j \in 1 .. Len(s) : s[j] \in Doubtful => j <= i
        THEN st ELSE s[i]]

Audited(m) == audits[m]["unknown"] + audits[m]["delivered"] + audits[m]["not-delivered"]

\* recover: an operator's decision about a delivery in doubt; nothing is sent.
RecoverNotification(m, resolution) ==
    /\ pc = "idle"
    /\ status[m] \in Doubtful
    /\ Audited(m) < MaxAudits
    /\ status' = [status EXCEPT ![m] = NewStatus(resolution)]
    /\ attempts' = [attempts EXCEPT ![m] = ResolveLatest(@, NewStatus(resolution))]
    /\ audits' = [audits EXCEPT ![m][resolution] = @ + 1]
    /\ UNCHANGED <<run, report, local, outside>>

\* The process dies, or is killed by the wrapper's timeout.
Crash ==
    /\ pc # "idle"
    /\ EndSession
    /\ UNCHANGED <<run, report, rows, outside>>

\* A sender whose process is dead comes to its end.
OrphanEnds(m, delivers) ==
    /\ inflight[m] > IF pc = "waiting" /\ msg = m THEN 1 ELSE 0
    /\ SenderEnds(m, delivers)
    /\ UNCHANGED <<run, report, rows, local>>

-----------------------------------------------------------------------------
EntryPoint ==
    \/ \E m \in Paper : RegisterPending(m) \/ SendCommittedRun(m) \/ Resend(m)
    \/ \E m \in Monthly : SendCommittedMonthly(m)

AttemptStep ==
    \/ ClaimAttempt \/ ClaimRefused \/ LaunchSender \/ LaunchFails
    \/ SenderSucceeds \/ SenderRejectsUsage \/ SenderAmbiguous \/ MarkAnswer

Environment ==
    \/ \E m \in Paper : RunEnds(m)
    \/ \E m \in Messages :
          \/ \E state \in {"sealed", "altered", "absent"} : ReportChanges(m, state)
          \/ \E delivers \in BOOLEAN : OrphanEnds(m, delivers)
    \/ Crash

Next ==
    \/ EntryPoint
    \/ AttemptStep
    \/ \E m \in Messages, resolution \in Resolutions : RecoverNotification(m, resolution)
    \/ Environment

Spec == Init /\ [][Next]_vars

-----------------------------------------------------------------------------
(* Correctness properties *)

\* A message reaches its recipient once, and once more for each time an operator
\* declared it not delivered: no crash, timeout, retry or orphaned sender makes
\* the program send twice on its own.
NoUnattendedDuplicate ==
    \A m \in Messages : delivered[m] <= 1 + audits[m]["not-delivered"]

\* A notification that may be retried has not reached its recipient and has no
\* sender left that could deliver it, unless an operator said so.
RetryableMeansUndelivered ==
    \A m \in Messages :
        status[m] \in {"PENDING", "FAILED"} =>
            delivered[m] + inflight[m] <= audits[m]["not-delivered"]

\* A notification recorded as delivered was delivered, unless an operator said so.
DeliveredMeansDelivered ==
    \A m \in Messages :
        status[m] = "DELIVERED" /\ audits[m]["delivered"] = 0 => delivered[m] > 0

\* The outbox row carries the status of its latest attempt, and no earlier
\* attempt is still in doubt.
OutboxAgreesWithAttempts ==
    \A m \in Messages :
        LET s == attempts[m]
        IN  /\ s = <<>> => status[m] \in {"NONE", "PENDING"}
            /\ s # <<>> => s[Len(s)] = status[m]
            /\ \A i \in 1 .. Len(s) - 1 : s[i] = "FAILED"

\* A delivery in doubt is settled by the process that made the attempt or by an
\* audited decision: never by a restart, a retry or another command.
DoubtNeedsOperator ==
    [][\A m \in Messages :
          status[m] \in {"SENDING", "DELIVERY_UNKNOWN"} /\ status'[m] # status[m] =>
              \/ status[m] = "SENDING" /\ msg = m /\ status'[m] = answer
              \/ audits'[m] # audits[m]]_vars

=============================================================================
