--------------------------- MODULE WeeklyLauncher ---------------------------
(***************************************************************************)
(* scripts/paper_forward_weekly.py: the gate the scheduler starts on        *)
(* Monday.  It launches run_paper.py --paper as a child, up to three times *)
(* inside the launch window, kills a child that outlives its time, and     *)
(* reads the child's exit code and its rate-limit marker to decide whether *)
(* to go on.                                                                *)
(*                                                                         *)
(* The child is run_paper.py seen from outside, for one week: the lock it  *)
(* takes, what it commits about the week, the code it leaves with.         *)
(* PaperForward models its inside.  Several launchers may run at a time,   *)
(* and another command may hold the lock.                                   *)
(*                                                                         *)
(* The clock counts units of time.  The launch window ends at GateEnd, a   *)
(* little later than the decision window of the child, which ends at       *)
(* Close: minute 20 is admitted by the launcher to its last second.        *)
(***************************************************************************)
EXTENDS Integers, FiniteSets

CONSTANTS
    Launchers,     \* the processes the scheduler or an operator started
    GateStart,     \* should_launch: from this instant on
    GateEnd,       \* ... to this one
    Close,         \* the last instant of the child's decision window
    Timeout,       \* how long a child may run
    RetryDelay,    \* RETRY_SECONDS
    MaxAttempts,   \* MAX_ATTEMPTS
    Horizon,       \* the clock stops here; a launcher asleep wakes up
    None,          \* nobody holds the writer lock
    Other          \* another command of the project holds it

ASSUME TimesAssumption ==
    /\ {GateStart, GateEnd, Close, Timeout, RetryDelay, MaxAttempts, Horizon}
         \subseteq Nat
    /\ GateStart <= Close /\ Close <= GateEnd
    /\ GateEnd + Timeout <= Horizon
    /\ Timeout > 0 /\ MaxAttempts > 0
    /\ None \notin Launchers /\ Other \notin Launchers /\ None # Other

VARIABLES
    clock,
    lock,       \* holder of runtime/forward_writer.lock
    week,       \* what the database says of the week
    trades,     \* execution transactions committed for it
    pc,         \* launcher -> where it stands
    attempt,    \* launcher -> children it has started
    since,      \* launcher -> when its child, or its sleep, began
    child,      \* launcher -> where its child stands
    code,       \* launcher -> exit code of the child, given or about to be
    marker      \* launcher -> a child has printed the rate-limit marker

vars == <<clock, lock, week, trades, pc, attempt, since, child, code, marker>>

\* committed: the trade is in the database, its outcome is not.  data: a failed
\* reconciliation whose message reads like a data failure.
WeekStates == {"open", "committed", "traded", "failed", "data", "missed"}

\* subprocess.TimeoutExpired is reported as 124.
Killed == 124
NotRun == 0 - 1
Codes  == {0, 1, 2, 3, 4, Killed, NotRun}

\* RETRYABLE_EXIT_CODES: run_paper.py never leaves with 75.  A timeout goes the
\* same way.
Retryable == {4, 75, Killed}

Phases == {"none", "starting", "admit", "late", "fetch", "run", "finalise", "leave"}

TypeOK ==
    /\ clock \in 0 .. Horizon
    /\ lock \in Launchers \cup {None, Other}
    /\ week \in WeekStates
    /\ trades \in Nat
    /\ pc \in [Launchers -> {"idle", "running", "exited", "sleeping", "done"}]
    /\ attempt \in [Launchers -> 0 .. MaxAttempts]
    /\ since \in [Launchers -> 0 .. Horizon]
    /\ child \in [Launchers -> Phases]
    /\ code \in [Launchers -> Codes]
    /\ marker \in [Launchers -> BOOLEAN]

Init ==
    /\ clock = 0
    /\ lock = None
    /\ week = "open"
    /\ trades = 0
    /\ pc = [l \in Launchers |-> "idle"]
    /\ attempt = [l \in Launchers |-> 0]
    /\ since = [l \in Launchers |-> 0]
    /\ child = [l \in Launchers |-> "none"]
    /\ code = [l \in Launchers |-> NotRun]
    /\ marker = [l \in Launchers |-> FALSE]

ShouldLaunch == GateStart <= clock /\ clock <= GateEnd

-----------------------------------------------------------------------------
(* The launcher *)

launcher == <<pc, attempt, since>>

Launch(l) ==
    /\ pc' = [pc EXCEPT ![l] = "running"]
    /\ attempt' = [attempt EXCEPT ![l] = @ + 1]
    /\ since' = [since EXCEPT ![l] = clock]
    /\ child' = [child EXCEPT ![l] = "starting"]
    /\ code' = [code EXCEPT ![l] = NotRun]

GiveUp(l) ==
    /\ pc' = [pc EXCEPT ![l] = "done"]
    /\ UNCHANGED <<attempt, since, child, code>>

\* Outside the window main() returns 0 without a child.
Begin(l) ==
    /\ pc[l] = "idle"
    /\ IF ShouldLaunch THEN Launch(l) ELSE GiveUp(l)
    /\ UNCHANGED <<clock, lock, week, trades, marker>>

\* Mutant: the marker of a killed child is not looked for.
FinalUnlessKilled(l) ==
    code[l] \notin Retryable \/ (marker[l] /\ code[l] # Killed) \/ attempt[l] = MaxAttempts

\* The loop ends with this child: success, a permanent failure, a rate-limit
\* marker in its output, or the last attempt.
Final(l) == code[l] \notin Retryable \/ marker[l] \/ attempt[l] = MaxAttempts

AfterChild(l) ==
    /\ pc[l] = "exited"
    /\ IF Final(l)
       THEN GiveUp(l)
       ELSE /\ pc' = [pc EXCEPT ![l] = "sleeping"]
            /\ since' = [since EXCEPT ![l] = clock]
            /\ UNCHANGED <<attempt, child, code>>
    /\ UNCHANGED <<clock, lock, week, trades, marker>>

Wake(l) ==
    /\ pc[l] = "sleeping"
    /\ clock >= since[l] + RetryDelay \/ clock = Horizon
    /\ IF ShouldLaunch THEN Launch(l) ELSE GiveUp(l)
    /\ UNCHANGED <<clock, lock, week, trades, marker>>

\* Mutant: the timeout holds only once the child has the lock.
ExpiredHolder(l) == child[l] # "none" /\ lock = l /\ clock >= since[l] + Timeout

Expired(l) == child[l] # "none" /\ clock >= since[l] + Timeout

\* The child is gone, and with it its hold on the lock.
ChildGone(l, c) ==
    /\ child' = [child EXCEPT ![l] = "none"]
    /\ code' = [code EXCEPT ![l] = c]
    /\ pc' = [pc EXCEPT ![l] = "exited"]
    /\ lock' = IF lock = l THEN None ELSE lock
    /\ UNCHANGED <<clock, week, trades, attempt, since, marker>>

Kill(l) == Expired(l) /\ ChildGone(l, Killed)

-----------------------------------------------------------------------------
(* The child: run_paper.py --paper *)

Proceed(l, phase) ==
    /\ child' = [child EXCEPT ![l] = phase]
    /\ UNCHANGED <<clock, launcher, code>>

\* Reports, notification and exit handlers are still to come: the child may be
\* killed before it leaves with c.
Leave(l, c) ==
    /\ child' = [child EXCEPT ![l] = "leave"]
    /\ code' = [code EXCEPT ![l] = c]
    /\ UNCHANGED <<clock, launcher>>

\* Verdict on a committed execution: the reconciliation accepts it, or the week
\* gets an error outcome.
Verdicts == {"traded", "failed", "data"}

\* The lock is free: the store is opened, a committed execution that was
\* interrupted is finalised, and the clock is read.
Acquire(l) ==
    /\ child[l] = "starting"
    /\ lock = None
    /\ lock' = l
    /\ week' \in IF week = "committed" THEN Verdicts ELSE {week}
    /\ Proceed(l, IF clock > Close THEN "late" ELSE "admit")
    /\ UNCHANGED <<trades, marker>>

\* AlreadyRunningError: exit 4.
Overlap(l) == child[l] = "starting" /\ lock # None /\ ChildGone(l, 4)

\* record_missed_windows, then MISSED_SCHEDULE and exit 0.
ReportMissed(l) ==
    /\ child[l] = "late"
    /\ week' = IF week = "open" THEN "missed" ELSE week
    /\ Leave(l, 0)
    /\ UNCHANGED <<lock, trades, marker>>

\* Mutant: every duplicate leaves with exit 0.
DuplicateSucceeds(l) ==
    /\ child[l] = "admit"
    /\ week # "open"
    /\ Leave(l, 0)
    /\ UNCHANGED <<lock, week, trades, marker>>

\* DUPLICATE_SCHEDULE: exit 2 if the recorded outcome is one of four errors.
Duplicate(l) ==
    /\ child[l] = "admit"
    /\ week # "open"
    /\ Leave(l, IF week = "failed" THEN 2 ELSE 0)
    /\ UNCHANGED <<lock, week, trades, marker>>

\* Mutant: the schedule key is not looked up.
AdmittedAlways(l) == child[l] = "admit"

\* The week is not decided yet.
Admitted(l) == child[l] = "admit" /\ week = "open"

\* Git metadata unavailable: nothing is decided, exit 4.
ProvenanceUnavailable(l) ==
    /\ Admitted(l)
    /\ Leave(l, 4)
    /\ UNCHANGED <<lock, week, trades, marker>>

\* A dirty tree, a wrong hash, or a halted account: the week has failed, exit 2.
AdmissionFails(l) ==
    /\ Admitted(l)
    /\ week' = "failed"
    /\ Leave(l, 2)
    /\ UNCHANGED <<lock, trades, marker>>

StartFetch(l) ==
    /\ Admitted(l)
    /\ Proceed(l, "fetch")
    /\ UNCHANGED <<lock, week, trades, marker>>

\* A transient failure leaves the week open with exit 4; under HTTP 418 or 429
\* the marker is printed first.
FetchTransient(l) ==
    /\ child[l] = "fetch"
    /\ \E limited \in BOOLEAN : marker' = [marker EXCEPT ![l] = @ \/ limited]
    /\ Leave(l, 4)
    /\ UNCHANGED <<lock, week, trades>>

\* Any other error of the fetch: exit 2, the week stays open.
FetchFails(l) ==
    /\ child[l] = "fetch"
    /\ Leave(l, 2)
    /\ UNCHANGED <<lock, week, trades, marker>>

FetchReturns(l) ==
    /\ child[l] = "fetch"
    /\ Proceed(l, IF clock > Close THEN "late" ELSE "run")
    /\ UNCHANGED <<lock, week, trades, marker>>

\* DATA_HALT: the week stays open.  Exit 3 if its notification fails, else 4.
DataHalt(l) ==
    /\ child[l] = "run"
    /\ \E c \in {3, 4} : Leave(l, c)
    /\ UNCHANGED <<lock, week, trades, marker>>

\* The account is halted or the ledger does not reconcile.
RunRefused(l) ==
    /\ child[l] = "run"
    /\ week' \in Verdicts \ {"traded"}
    /\ \E c \in {2, 3} : Leave(l, c)
    /\ UNCHANGED <<lock, trades, marker>>

\* The execution transaction.
Execute(l) ==
    /\ child[l] = "run"
    /\ week' = "committed"
    /\ trades' = trades + 1
    /\ Proceed(l, "finalise")
    /\ UNCHANGED <<lock, marker>>

\* The outcome, the report and the notification: exit 3 if that fails, else 2
\* for an error outcome.
Finalise(l) ==
    /\ child[l] = "finalise"
    /\ \E v \in Verdicts :
          /\ week' = v
          /\ \E c \in {IF v = "traded" THEN 0 ELSE 2, 3} : Leave(l, c)
    /\ UNCHANGED <<lock, trades, marker>>

Exit(l) == child[l] = "leave" /\ ChildGone(l, code[l])

\* An exception leaves main(): exit 1.
ChildFails(l) == child[l] \notin {"none", "leave"} /\ ChildGone(l, 1)

-----------------------------------------------------------------------------
(* The surroundings *)

Tick ==
    /\ clock < Horizon
    /\ \A l \in Launchers : ~Expired(l)
    /\ clock' = clock + 1
    /\ UNCHANGED <<lock, week, trades, launcher, child, code, marker>>

\* Another command takes the lock and releases it; the missed-window audit
\* decides a closed week.
OtherCommand ==
    /\ \/ lock = None /\ lock' = Other /\ UNCHANGED week
       \/ /\ lock = Other
          /\ lock' = None
          /\ week' \in {week} \cup IF week = "open" /\ clock > Close
                                   THEN {"missed"} ELSE {}
    /\ UNCHANGED <<clock, trades, launcher, child, code, marker>>

Launcher(l) == Begin(l) \/ AfterChild(l) \/ Wake(l) \/ Kill(l)

Child(l) ==
    \/ Acquire(l) \/ Overlap(l) \/ ReportMissed(l) \/ Duplicate(l)
    \/ ProvenanceUnavailable(l) \/ AdmissionFails(l) \/ StartFetch(l)
    \/ FetchTransient(l) \/ FetchFails(l) \/ FetchReturns(l)
    \/ DataHalt(l) \/ RunRefused(l) \/ Execute(l) \/ Finalise(l)
    \/ Exit(l) \/ ChildFails(l)

Next == Tick \/ OtherCommand \/ \E l \in Launchers : Launcher(l) \/ Child(l)

\* Time passes and a launcher that can take a step takes it.  Nothing is
\* assumed of the child: it may hang in any phase.
Fairness == WF_vars(Tick) /\ \A l \in Launchers : WF_vars(Launcher(l))

Spec == Init /\ [][Next]_vars /\ Fairness

-----------------------------------------------------------------------------
(* Properties *)

\* Retries, killed children and a second launcher never trade the week twice,
\* and a week that was traded is not declared missed
\* (docs/operations.md, "the unique database schedule key prevents replay").
TradedOnce == trades <= 1 /\ (week = "missed" => trades = 0)

\* A launcher that ends with a code it could have retried has used its three
\* attempts, has met a rate limit, or has seen the window close.
GivesUpForAReason ==
    \A l \in Launchers :
        pc[l] = "done" /\ code[l] \in Retryable =>
            attempt[l] = MaxAttempts \/ marker[l] \/ clock > GateEnd

\* Exit 0 after a launch means the week is decided; it can stand for a recorded
\* failure only after the window has closed, when the child reports
\* MISSED_SCHEDULE before it looks for the outcome.
SuccessIsDecided ==
    \A l \in Launchers :
        pc[l] = "done" /\ code[l] = 0 =>
            /\ week \notin {"open", "committed"}
            /\ week = "failed" => clock > Close

\* Once a child of this launcher has printed the rate-limit marker, finished or
\* killed, the launcher starts no other one
\* (docs/binance-execution-rules-audit.md, "suppresses every remaining weekly
\* attempt").
DeferralEndsAttempts ==
    [][\A l \in Launchers : marker[l] => attempt'[l] = attempt[l]]_vars

\* A launcher that has started a child comes to an end, even if every child
\* hangs: the timeout, the attempts and the window bound it.
LauncherEnds == \A l \in Launchers : pc[l] = "running" ~> pc[l] = "done"

=============================================================================
