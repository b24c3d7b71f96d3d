---------------------------- MODULE PaperForward ----------------------------
(***************************************************************************)
(* One weekly cycle of the governed forward paper experiment: run_paper.py *)
(* holding the global writer lock, the broker's run, the finalisation of   *)
(* its evidence, and the recovery that the next holder performs after a    *)
(* crash.                                                                   *)
(*                                                                         *)
(* Every command that writes the paper database holds the same lock, so    *)
(* one session is active at a time.  A session is a program counter and    *)
(* local variables, lost by a crash; each step is one database transaction *)
(* (or one group of reads).  Time passes between any two steps.            *)
(*                                                                         *)
(* Time is counted in half weeks: instant 2k-1 lies inside the window of   *)
(* week k, instant 2k after it closed, instant 0 before the first window.  *)
(* The schedule key of week k is k.                                        *)
(*                                                                         *)
(* Only run rows that hold a schedule key are kept: schedule_exists, the   *)
(* recovery, the missed-window audit and the baseline read no other row.   *)
(* A run without a key (a dry run, a retryable data failure) is a session  *)
(* that ends without touching them.                                        *)
(***************************************************************************)
EXTENDS Integers, FiniteSets

CONSTANTS
    Weeks,        \* number of weekly windows considered
    Executions,   \* execution outcomes that may be committed
    Verdicts      \* outcomes a failed reconciliation may be given

ASSUME WeeksAssumption == Weeks \in Nat \ {0}

ASSUME ExecutionsAssumption ==
    /\ Executions # {}
    /\ Executions \subseteq {"FULL_EXECUTION", "PARTIAL_EXECUTION",
                             "EXECUTION_REJECTED", "NO_REBALANCE_REQUIRED"}

\* classify_outcome goes by words in the text of the reconciliation message.
ASSUME VerdictsAssumption ==
    /\ Verdicts # {}
    /\ Verdicts \subseteq {"RECONCILIATION_FAILURE", "DATA_QUALITY_FAILURE",
                           "KILL_SWITCH_ACTIVATED"}

Keys == 1 .. Weeks
NoKey == 0

-----------------------------------------------------------------------------
(* Outcomes and rows *)

ErrorOutcomes == {"KILL_SWITCH_ACTIVATED", "DATA_QUALITY_FAILURE",
                  "RECONCILIATION_FAILURE", "EXECUTION_ERROR",
                  "RELEASE_PROVENANCE_FAILURE"}

\* CASH_ONLY and NO_ELIGIBLE_ASSET are reported as NO_REBALANCE here: which of
\* the three depends on the signal only.
TradingOutcomes == {"PAPER_TRADE_COMPLETED", "PARTIAL_EXECUTION",
                    "EXECUTION_REJECTED", "NO_REBALANCE"}

Outcomes == ErrorOutcomes \cup TradingOutcomes

Statuses == {"NONE", "RUNNING", "EXECUTED", "KILL_SWITCH",
             "RECOVERED_COMMITTED", "KILL_SWITCH_ACTIVATED",
             "RELEASE_PROVENANCE_FAILURE"}

\* The row of paper_runs that holds a schedule key, with the rows of the other
\* tables that are keyed by its run: the execution outcome (written in the
\* execution transaction with the equity marker, the fills and the staged
\* evidence), the diagnostics, the notification.
Row == [status   : Statuses,
        official : BOOLEAN,                      \* official_scheduled
        prov     : BOOLEAN,                      \* release provenance stored
        exec     : Executions \cup {"NONE"},     \* NONE: nothing committed
        sound    : BOOLEAN,                      \* reconciliation.valid
        outcome  : Outcomes \cup {"NONE"},       \* diagnostics; NONE: no row
        clean    : BOOLEAN,                      \* diagnostics say ACTIVE, valid
        notified : BOOLEAN]                      \* outbox row registered

NoRow == [status |-> "NONE", official |-> FALSE, prov |-> FALSE,
          exec |-> "NONE", sound |-> FALSE, outcome |-> "NONE",
          clean |-> FALSE, notified |-> FALSE]

\* insert_run: a RUNNING row.
NewRow(official, prov) ==
    [NoRow EXCEPT !.status = "RUNNING", !.official = official, !.prov = prov]

\* The execution transaction, finish_run, record_forward_details and
\* register_pending on a row.
Commit(r, x) == [r EXCEPT !.exec = x]
Finish(r, status, valid) == [r EXCEPT !.status = status, !.sound = valid]
Diagnose(r, outcome, clean) == [r EXCEPT !.outcome = outcome, !.clean = clean]
Register(r, registered) == [r EXCEPT !.notified = registered]

-----------------------------------------------------------------------------
VARIABLES
    clock,       \* the current instant
    account,     \* paper_accounts.status
    consistent,  \* would reconcile() accept the database now
    claim,       \* week -> the paper_runs row that holds its schedule key
    trades,      \* week -> execution transactions committed for it
    window,      \* week -> outcome in forward_schedule_windows, or NONE
    incidents,   \* forward_incidents: <<type, week>>
    baseline,    \* week whose run is the forward baseline, or NoKey
    pc,          \* where the lock holder stands; "idle": nobody holds the lock
    kind,        \* the command that holds the lock
    now,         \* the instant it captured
    key,         \* the schedule key it derived from that instant
    cur,         \* the week of the row it inserted
    fate,        \* the operational failure it is committing
    todo         \* committed runs it still has to recover

store   == <<claim, trades, window, incidents, baseline>>
session == <<pc, kind, now, key, cur, fate, todo>>
vars    == <<clock, account, consistent, store, session>>

Kinds == {"paper", "dry", "audit", "reset"}

Steps == {"recover", "recoverBaseline", "recoverWindow", "recoverIncident",
          "recoverNotify", "missed", "missedLate", "admit", "reset",
          "failInsert", "failFinish", "failWindow", "failIncident",
          "fetch", "run", "execute", "runFinish", "halt",
          "haltFinish", "details", "baseline", "window", "incident",
          "notify"}

TypeOK ==
    /\ clock \in 0 .. 2 * Weeks
    /\ account \in {"ACTIVE", "HALTED"}
    /\ consistent \in BOOLEAN
    /\ claim \in [Keys -> Row]
    /\ trades \in [Keys -> Nat]
    /\ window \in [Keys -> Outcomes \cup {"NONE", "MISSED_SCHEDULE"}]
    /\ incidents \subseteq
         (ErrorOutcomes \cup {"MISSED_SCHEDULE", "INCOMPLETE_DELIVERY"}) \X Keys
    /\ baseline \in Keys \cup {NoKey}
    /\ pc \in Steps \cup {"idle"}
    /\ kind \in Kinds \cup {"none"}
    /\ now \in 0 .. 2 * Weeks
    /\ key \in Keys \cup {NoKey}
    /\ cur \in Keys \cup {NoKey}
    /\ fate \in ErrorOutcomes \cup {"NONE"}
    /\ todo \subseteq Keys

Init ==
    /\ clock = 0
    /\ account = "ACTIVE"
    /\ consistent = TRUE
    /\ claim = [k \in Keys |-> NoRow]
    /\ trades = [k \in Keys |-> 0]
    /\ window = [k \in Keys |-> "NONE"]
    /\ incidents = {}
    /\ baseline = NoKey
    /\ pc = "idle"
    /\ kind = "none"
    /\ now = 0
    /\ key = NoKey
    /\ cur = NoKey
    /\ fate = "NONE"
    /\ todo = {}

-----------------------------------------------------------------------------
(* The schedule *)

\* _scheduled_key: the week whose window contains the instant.
KeyAt(t) == IF t % 2 = 1 THEN (t + 1) \div 2 ELSE NoKey

\* The window of week k has closed.
Past(k, t) == 2 * k <= t

\* _latest_schedule_key outside a window; NoKey: before the experiment.
Latest(t) == t \div 2

(* Reads of the store *)

IsLeast(k, S) == k \in S /\ \A j \in S : k <= j

\* Has the week a run row or a window row?
Decided(k) == claim[k].status # "NONE" \/ window[k] # "NONE"

\* kill_switch_active = FALSE and reconciliation_valid = TRUE.
Clean == account = "ACTIVE" /\ consistent

\* The equity snapshot is in the database.
Committed(r) == r.exec # "NONE"

HasFills(r) == r.exec \in {"FULL_EXECUTION", "PARTIAL_EXECUTION"}

\* classify_outcome of an EXECUTED run.
ExecutionOutcome(r) ==
    CASE r.exec = "FULL_EXECUTION"        -> "PAPER_TRADE_COMPLETED"
      [] r.exec = "PARTIAL_EXECUTION"     -> "PARTIAL_EXECUTION"
      [] r.exec = "EXECUTION_REJECTED"    -> "EXECUTION_REJECTED"
      [] OTHER                            -> "NO_REBALANCE"

\* classify_outcome: the outcomes a run may be given, valid being the verdict
\* of the reconciliation that decides between EXECUTED and KILL_SWITCH.
Classified(r, valid) == IF valid THEN {ExecutionOutcome(r)} ELSE Verdicts

\* The outcome record_missed_windows derives from the run row alone.
CoarseOutcome(r) ==
    CASE r.status \in {"EXECUTED", "RECOVERED_COMMITTED"} ->
            IF HasFills(r) THEN "PAPER_TRADE_COMPLETED" ELSE "NO_REBALANCE"
      [] r.status \in ErrorOutcomes -> r.status
      [] OTHER -> "EXECUTION_ERROR"

\* Mutant: any executed run may become the baseline.
BaselineEligibleUnofficial(r) ==
    r.status = "EXECUTED" /\ r.sound /\ Committed(r) /\ r.outcome \in TradingOutcomes

\* forward_baseline_eligible
BaselineEligible(r) ==
    /\ r.official
    /\ r.status = "EXECUTED"
    /\ r.sound
    /\ Committed(r)
    /\ r.outcome \in TradingOutcomes
    /\ r.clean

\* Mutant: every interrupted run is released, whatever it committed.
RecoveredReleasesAll(r) == IF r.status # "RUNNING" THEN r ELSE NoRow

\* recover_abandoned_runs on one row: the equity snapshot decides whether an
\* interrupted run keeps its schedule key.
Recovered(r) ==
    IF r.status # "RUNNING" THEN r
    ELSE IF Committed(r) THEN Finish(r, "RECOVERED_COMMITTED", FALSE)
    ELSE NoRow

\* Mutant: only runs without diagnostics are recovered.
UnfinalizedDetailsOnly(cl, targeted) ==
    {k \in Keys : cl[k].status \notin {"NONE", "RUNNING"} /\ Committed(cl[k])
                  /\ cl[k].outcome = "NONE"}

\* Mutant: a run whose lost delivery was reported is never registered.
UnfinalizedReportedOnce(cl, targeted) ==
    {k \in Keys :
        /\ cl[k].status \notin {"NONE", "RUNNING"}
        /\ Committed(cl[k])
        /\ \/ cl[k].outcome = "NONE"
           \/ window[k] = "NONE"
           \/ ~cl[k].notified /\ <<"INCOMPLETE_DELIVERY", k>> \notin incidents}

\* The rows recover_committed_forward_evidence selects from cl; targeted: the
\* caller has a reports directory and a notification target.
Unfinalized(cl, targeted) ==
    {k \in Keys :
        /\ cl[k].status \notin {"NONE", "RUNNING"}
        /\ Committed(cl[k])
        /\ \/ cl[k].outcome = "NONE"
           \/ window[k] = "NONE"
           \/ ~cl[k].notified /\ <<"INCOMPLETE_DELIVERY", k>> \notin incidents
           \/ targeted /\ ~cl[k].notified
                       /\ <<"INCOMPLETE_DELIVERY", k>> \in incidents}

-----------------------------------------------------------------------------
(* The environment *)

Tick ==
    /\ clock < 2 * Weeks
    /\ clock' = clock + 1
    /\ UNCHANGED <<account, consistent, store, session>>

\* The database stops satisfying reconcile(), or is repaired by its operator.
LedgerDamaged ==
    /\ consistent
    /\ consistent' = FALSE
    /\ UNCHANGED <<clock, account, store, session>>

LedgerRepaired ==
    /\ pc = "idle"
    /\ ~consistent
    /\ consistent' = TRUE
    /\ UNCHANGED <<clock, account, store, session>>

-----------------------------------------------------------------------------
(* Opening and closing a session *)

EndSession ==
    /\ pc' = "idle"
    /\ kind' = "none"
    /\ now' = 0
    /\ key' = NoKey
    /\ cur' = NoKey
    /\ fate' = "NONE"
    /\ todo' = {}

Goto(step) == pc' = step /\ UNCHANGED <<kind, now, key, cur, fate, todo>>

\* The lock is taken, opening the store recovers interrupted runs, the clock is
\* read, and a scheduled command selects the committed runs to finalise.
OpenSession(c) ==
    /\ pc = "idle"
    /\ LET recovered == [k \in Keys |-> Recovered(claim[k])]
       IN  /\ claim' = recovered
           /\ todo' = IF c \in {"paper", "dry"}
                      THEN Unfinalized(recovered, c = "paper") ELSE {}
    /\ kind' = c
    /\ now' = clock
    /\ pc' = CASE c \in {"paper", "dry"} -> "recover"
               [] c = "audit"            -> "missed"
               [] c = "reset"            -> "reset"
    /\ UNCHANGED <<clock, account, consistent, trades, window, incidents,
                   baseline, key, cur, fate>>

\* The process dies: the operating system frees the lock, locals are lost, the
\* committed transactions stay.  An exception that leaves main() is the same.
Crash ==
    /\ pc # "idle"
    /\ EndSession
    /\ UNCHANGED <<clock, account, consistent, store>>

\* --reset-kill-switch: refused while the ledger does not reconcile.
ResetKillSwitch ==
    /\ pc = "reset"
    /\ account' = IF consistent THEN "ACTIVE" ELSE account
    /\ EndSession
    /\ UNCHANGED <<clock, consistent, store>>

-----------------------------------------------------------------------------
(* recover_committed_forward_evidence, one selected run after the other in   *)
(* the order in which they were started                                      *)

RecoverDetails ==
    /\ pc = "recover"
    /\ \E k \in Keys :
          /\ IsLeast(k, todo)
          /\ IF claim[k].outcome = "NONE"
             THEN \E o \in Classified(claim[k], consistent) :
                     claim' = [claim EXCEPT ![k] = Diagnose(@, o, Clean)]
             ELSE UNCHANGED claim
          /\ cur' = k
    /\ pc' = "recoverBaseline"
    /\ UNCHANGED <<clock, account, consistent, trades, window, incidents, baseline,
                   kind, now, key, fate, todo>>

\* ensure_forward_baseline: the first eligible run, for good.
EnsureBaseline(k) ==
    baseline' = IF BaselineEligible(claim[k]) /\ baseline = NoKey THEN k ELSE baseline

RecoverBaseline ==
    /\ pc = "recoverBaseline"
    /\ EnsureBaseline(cur)
    /\ Goto("recoverWindow")
    /\ UNCHANGED <<clock, account, consistent, claim, trades, window, incidents>>

\* record_forward_window: the row is inserted, or updated if it is missed or
\* already belongs to this run.
RecoverWindow ==
    /\ pc = "recoverWindow"
    /\ window' = [window EXCEPT ![cur] = claim[cur].outcome]
    /\ Goto("recoverIncident")
    /\ UNCHANGED <<clock, account, consistent, claim, trades, incidents, baseline>>

RecoverIncident ==
    /\ pc = "recoverIncident"
    /\ incidents' = IF claim[cur].notified THEN incidents
                    ELSE incidents \cup {<<"INCOMPLETE_DELIVERY", cur>>}
    /\ Goto("recoverNotify")
    /\ UNCHANGED <<clock, account, consistent, claim, trades, window, baseline>>

\* The recovery report; the outbox row only if a target is configured.
RecoverNotify ==
    /\ pc = "recoverNotify"
    /\ claim' = [claim EXCEPT ![cur] = Register(@, @.notified \/ kind = "paper")]
    /\ todo' = todo \ {cur}
    /\ cur' = NoKey
    /\ pc' = "recover"
    /\ UNCHANGED <<clock, account, consistent, trades, window, incidents, baseline,
                   kind, now, key, fate>>

EndRecovery ==
    /\ pc = "recover"
    /\ todo = {}
    /\ Goto("missed")
    /\ UNCHANGED <<clock, account, consistent, store>>

-----------------------------------------------------------------------------
(* record_missed_windows: closed windows without a row, oldest first *)

\* Mutant: an open window counts as closed.
UnrecordedWhileOpen == {k \in Keys : 2 * k - 1 <= now /\ window[k] = "NONE"}

\* Mutant: the window that closed last is not looked at.
UnrecordedButLast == {k \in Keys : 2 * k < now /\ window[k] = "NONE"}

Unrecorded == {k \in Keys : Past(k, now) /\ window[k] = "NONE"}

RecordMissedWindow ==
    /\ pc \in {"missed", "missedLate"}
    /\ \E k \in Keys :
          /\ IsLeast(k, Unrecorded)
          /\ IF claim[k].status \notin {"NONE", "RUNNING"}
             THEN /\ window' = [window EXCEPT ![k] = CoarseOutcome(claim[k])]
                  /\ UNCHANGED incidents
             ELSE /\ window' = [window EXCEPT ![k] = "MISSED_SCHEDULE"]
                  /\ incidents' = incidents \cup {<<"MISSED_SCHEDULE", k>>}
    /\ UNCHANGED <<clock, account, consistent, claim, trades, baseline, session>>

\* The audit command and a run whose fetch outlived its window stop here; the
\* AUDIT_ONLY run row holds no key.
AuditEnds ==
    /\ \/ pc = "missedLate"
       \/ pc = "missed" /\ kind = "audit"
    /\ Unrecorded = {}
    /\ EndSession
    /\ UNCHANGED <<clock, account, consistent, store>>

\* The schedule key is derived from the captured instant.
DeriveKey ==
    /\ pc = "missed"
    /\ kind # "audit"
    /\ Unrecorded = {}
    /\ key' = KeyAt(now)
    /\ pc' = "admit"
    /\ UNCHANGED <<clock, account, consistent, store, kind, now, cur, fate, todo>>

-----------------------------------------------------------------------------
(* Admission in main(): every way out before market data is fetched *)

dry == kind = "dry"

\* official_scheduled
Official == ~dry /\ key # NoKey

\* MISSED_SCHEDULE or DUPLICATE_SCHEDULE is printed and nothing is done: the
\* latest window is over and recorded, or this one is already decided.
TurnedAway ==
    \/ key = NoKey /\ Latest(now) # NoKey /\ Decided(Latest(now))
    \/ key # NoKey /\ ~dry /\ Decided(key)

LeaveUndecided ==
    /\ pc = "admit"
    /\ TurnedAway
    /\ EndSession
    /\ UNCHANGED <<clock, account, consistent, store>>

\* capture_release_provenance failed for want of git metadata: the attempt is
\* recorded without a key.
ProvenanceRetryable ==
    /\ pc = "admit"
    /\ ~TurnedAway
    /\ Official
    /\ EndSession
    /\ UNCHANGED <<clock, account, consistent, store>>

\* A dirty tree or a wrong hash: terminal.
ProvenanceFails ==
    /\ pc = "admit"
    /\ ~TurnedAway
    /\ Official
    /\ fate' = "RELEASE_PROVENANCE_FAILURE"
    /\ pc' = "failInsert"
    /\ UNCHANGED <<clock, account, consistent, store, kind, now, key, cur, todo>>

RefuseHalted ==
    /\ pc = "admit"
    /\ ~TurnedAway
    /\ account # "ACTIVE"
    /\ fate' = "KILL_SWITCH_ACTIVATED"
    /\ pc' = "failInsert"
    /\ UNCHANGED <<clock, account, consistent, store, kind, now, key, cur, todo>>

StartFetch ==
    /\ pc = "admit"
    /\ ~TurnedAway
    /\ account = "ACTIVE"
    /\ Goto("fetch")
    /\ UNCHANGED <<clock, account, consistent, store>>

-----------------------------------------------------------------------------
(* commit_operational_failure with a terminal outcome *)

\* The run row is inserted in mode PAPER whatever the command; without a key, or
\* with a key that is taken, nothing keyed is written.
FailInsert ==
    /\ pc = "failInsert"
    /\ IF key = NoKey \/ claim[key].status # "NONE"
       THEN EndSession /\ UNCHANGED claim
       ELSE /\ claim' = [claim EXCEPT ![key] =
                           NewRow(Official, Official /\ fate = "KILL_SWITCH_ACTIVATED")]
            /\ cur' = key
            /\ pc' = "failFinish"
            /\ UNCHANGED <<kind, now, key, fate, todo>>
    /\ UNCHANGED <<clock, account, consistent, trades, window, incidents, baseline>>

\* finish_run
FailFinish ==
    /\ pc = "failFinish"
    /\ claim' = [claim EXCEPT ![cur] = Finish(@, fate, consistent)]
    /\ Goto("failWindow")
    /\ UNCHANGED <<clock, account, consistent, trades, window, incidents, baseline>>

FailWindow ==
    /\ pc = "failWindow"
    /\ window' = [window EXCEPT ![cur] = fate]
    /\ Goto("failIncident")
    /\ UNCHANGED <<clock, account, consistent, claim, trades, incidents, baseline>>

FailIncident ==
    /\ pc = "failIncident"
    /\ incidents' = incidents \cup {<<fate, cur>>}
    /\ Goto("notify")
    /\ UNCHANGED <<clock, account, consistent, claim, trades, window, baseline>>

-----------------------------------------------------------------------------
(* The market-data fetch; the clock is read again when it returns *)

\* DATA_QUALITY_FAILURE is retryable: the row keeps only the attempted key.
FetchFails ==
    /\ pc = "fetch"
    /\ EndSession
    /\ UNCHANGED <<clock, account, consistent, store>>

FetchReturns ==
    /\ pc = "fetch"
    /\ now' = clock
    /\ pc' = IF key # NoKey /\ Past(key, clock) THEN "missedLate" ELSE "run"
    /\ UNCHANGED <<clock, account, consistent, store, kind, key, cur, fate, todo>>

-----------------------------------------------------------------------------
(* PaperTradingSystem.run at the instant now *)

\* The key a refused run is given: none unless the run is official.
RefusedKey == IF Official THEN KeyAt(now) ELSE NoKey

Refused == account # "ACTIVE" \/ ~consistent

\* The account is halted or the ledger does not reconcile: the run is recorded
\* and the kill switch latched.  schedule_key is UNIQUE: a second row would be
\* an exception, here and in RunClaims.
RunRefused ==
    /\ pc = "run"
    /\ Refused
    /\ IF RefusedKey = NoKey
       THEN /\ account' = "HALTED"
            /\ EndSession
            /\ UNCHANGED claim
       ELSE /\ claim[RefusedKey].status = "NONE"
            /\ claim' = [claim EXCEPT ![RefusedKey] = NewRow(Official, Official)]
            /\ cur' = RefusedKey
            /\ pc' = "halt"
            /\ UNCHANGED <<account, kind, now, key, fate, todo>>
    /\ UNCHANGED <<clock, consistent, trades, window, incidents, baseline>>

\* _validate_snapshot rejects the market evidence: status DATA_HALT, the row
\* keeps only the attempted key and the account stays active.
DataHalt ==
    /\ pc = "run"
    /\ ~Refused
    /\ EndSession
    /\ UNCHANGED <<clock, account, consistent, store>>

\* Outside a window only the equity is recorded, in a row without a key.
RunOutsideWindow ==
    /\ pc = "run"
    /\ ~Refused
    /\ KeyAt(now) = NoKey
    /\ EndSession
    /\ UNCHANGED <<clock, account, consistent, store>>

\* A dry run stops after the proposals, in a row without a key.
DryRunEnds ==
    /\ pc = "run"
    /\ ~Refused
    /\ dry
    /\ KeyAt(now) # NoKey
    /\ EndSession
    /\ UNCHANGED <<clock, account, consistent, store>>

\* The key is computed afresh from now, whatever main() admitted.
RunClaims ==
    /\ pc = "run"
    /\ ~Refused
    /\ ~dry
    /\ KeyAt(now) # NoKey
    /\ claim[KeyAt(now)].status = "NONE"
    /\ claim' = [claim EXCEPT ![KeyAt(now)] = NewRow(Official, Official)]
    /\ cur' = KeyAt(now)
    /\ pc' = "execute"
    /\ UNCHANGED <<clock, account, consistent, trades, window, incidents, baseline,
                   kind, now, key, fate, todo>>

\* _execute: orders, fills, cash, positions, evidence, equity snapshot and
\* execution outcome in one transaction.
Execute ==
    /\ pc = "execute"
    /\ \E x \in Executions : claim' = [claim EXCEPT ![cur] = Commit(@, x)]
    /\ trades' = [trades EXCEPT ![cur] = @ + 1]
    /\ Goto("runFinish")
    /\ UNCHANGED <<clock, account, consistent, window, incidents, baseline>>

\* Mutant: the run is finished as KILL_SWITCH without latching the account.
RunFinishUnlatched ==
    /\ pc = "runFinish"
    /\ IF consistent
       THEN /\ claim' = [claim EXCEPT ![cur] = Finish(@, "EXECUTED", TRUE)]
            /\ Goto("details")
       ELSE /\ UNCHANGED claim
            /\ Goto("haltFinish")
    /\ UNCHANGED <<clock, account, consistent, trades, window, incidents, baseline>>

\* The database is reconciled again after the execution.
RunFinish ==
    /\ pc = "runFinish"
    /\ IF consistent
       THEN /\ claim' = [claim EXCEPT ![cur] = Finish(@, "EXECUTED", TRUE)]
            /\ Goto("details")
       ELSE /\ UNCHANGED claim
            /\ Goto("halt")
    /\ UNCHANGED <<clock, account, consistent, trades, window, incidents, baseline>>

ActivateKillSwitch ==
    /\ pc = "halt"
    /\ account' = "HALTED"
    /\ Goto("haltFinish")
    /\ UNCHANGED <<clock, consistent, store>>

HaltFinish ==
    /\ pc = "haltFinish"
    /\ claim' = [claim EXCEPT ![cur] = Finish(@, "KILL_SWITCH", FALSE)]
    /\ Goto("details")
    /\ UNCHANGED <<clock, account, consistent, trades, window, incidents, baseline>>

-----------------------------------------------------------------------------
(* finalize_forward_run *)

FinalizeDetails ==
    /\ pc = "details"
    /\ \E o \in Classified(claim[cur], claim[cur].status = "EXECUTED") :
          claim' = [claim EXCEPT ![cur] = Diagnose(@, o, Clean)]
    /\ Goto("baseline")
    /\ UNCHANGED <<clock, account, consistent, trades, window, incidents, baseline>>

FinalizeBaseline ==
    /\ pc = "baseline"
    /\ EnsureBaseline(cur)
    /\ Goto("window")
    /\ UNCHANGED <<clock, account, consistent, claim, trades, window, incidents>>

FinalizeWindow ==
    /\ pc = "window"
    /\ window' = [window EXCEPT ![cur] = claim[cur].outcome]
    /\ Goto("incident")
    /\ UNCHANGED <<clock, account, consistent, claim, trades, incidents, baseline>>

FinalizeIncident ==
    /\ pc = "incident"
    /\ incidents' = IF claim[cur].outcome \in ErrorOutcomes
                    THEN incidents \cup {<<claim[cur].outcome, cur>>} ELSE incidents
    /\ Goto("notify")
    /\ UNCHANGED <<clock, account, consistent, claim, trades, window, baseline>>

\* The report is written and its notification registered; a dry run has no
\* target.  Delivery is NotificationOutbox.
RegisterNotification ==
    /\ pc = "notify"
    /\ claim' = [claim EXCEPT ![cur] = Register(@, ~dry)]
    /\ EndSession
    /\ UNCHANGED <<clock, account, consistent, trades, window, incidents, baseline>>

-----------------------------------------------------------------------------
RecoveryStep ==
    \/ RecoverDetails \/ RecoverBaseline \/ RecoverWindow
    \/ RecoverIncident \/ RecoverNotify \/ EndRecovery

AuditStep == RecordMissedWindow \/ AuditEnds \/ DeriveKey

AdmissionStep ==
    \/ LeaveUndecided \/ ProvenanceRetryable \/ ProvenanceFails
    \/ RefuseHalted \/ StartFetch \/ FetchFails \/ FetchReturns

FailureStep == FailInsert \/ FailFinish \/ FailWindow \/ FailIncident

RunStep ==
    \/ RunRefused \/ DataHalt \/ RunOutsideWindow \/ DryRunEnds
    \/ RunClaims \/ Execute \/ RunFinish \/ ActivateKillSwitch \/ HaltFinish

FinalizeStep ==
    \/ FinalizeDetails \/ FinalizeBaseline \/ FinalizeWindow
    \/ FinalizeIncident \/ RegisterNotification

\* A step of the process that holds the lock.
SessionStep ==
    \/ RecoveryStep \/ AuditStep \/ AdmissionStep
    \/ FailureStep \/ RunStep \/ FinalizeStep \/ ResetKillSwitch

Next ==
    \/ Tick
    \/ LedgerDamaged
    \/ LedgerRepaired
    \/ \E c \in Kinds : OpenSession(c)
    \/ SessionStep
    \/ Crash

Spec == Init /\ [][Next]_vars

\* The weekly job is launched again and again, a process that holds the lock
\* runs on or dies, and no step of the recovery and of the audit kills its process
\* every time it is attempted.
scheduled == kind = "paper"

FairSpec ==
    /\ Spec
    /\ WF_vars(SessionStep)
    /\ SF_vars(OpenSession("paper"))
    /\ SF_vars(scheduled /\ RecoverDetails)
    /\ SF_vars(scheduled /\ RecoverBaseline)
    /\ SF_vars(scheduled /\ RecoverWindow)
    /\ SF_vars(scheduled /\ RecoverIncident)
    /\ SF_vars(scheduled /\ RecoverNotify)
    /\ SF_vars(scheduled /\ EndRecovery)
    /\ SF_vars(scheduled /\ RecordMissedWindow)

-----------------------------------------------------------------------------
(* Correctness properties *)

\* A weekly schedule key is executed by at most one transaction, however often
\* the run is interrupted, recovered and launched again: recovery releases the
\* key of an interrupted run only if its equity snapshot is missing.
ExecutedAtMostOnce == \A k \in Keys : trades[k] <= 1

\* The two tables tell one story.  A week recorded as missed was never traded
\* and has no run; any other recorded week has a run that is over; a week that
\* was traded keeps the run that traded it.
WindowsAgreeWithRuns ==
    \A k \in Keys :
        /\ window[k] = "MISSED_SCHEDULE" => claim[k].status = "NONE"
        /\ window[k] \notin {"NONE", "MISSED_SCHEDULE"} =>
              claim[k].status \notin {"NONE", "RUNNING"}
        /\ trades[k] > 0 => Committed(claim[k])

\* Nothing is traded on a halted account, and the kill switch is latched before
\* the run that tripped it becomes terminal, so that a crash between the two
\* cannot leave a failed run on an active account.
KillSwitchHolds ==
    [][\A k \in Keys :
          /\ trades'[k] # trades[k] => account = "ACTIVE"
          /\ claim'[k].status = "KILL_SWITCH" /\ claim[k].status # "KILL_SWITCH" => account = "HALTED"]_vars

\* When a week trades, every execution committed before it has its diagnostics,
\* a window row with the same outcome (the coarse one an audit may have derived
\* is corrected), and its notification either registered or reported missing.
EvidenceBeforeNextTrade ==
    [][trades' # trades =>
          \A k \in Keys : Committed(claim[k]) =>
              /\ claim[k].outcome # "NONE"
              /\ window[k] = claim[k].outcome
              /\ claim[k].notified \/ <<"INCOMPLETE_DELIVERY", k>> \in incidents]_vars

\* The forward baseline is an execution of an official run with release
\* provenance, reconciled before and after, whose own outcome is a trading one.
BaselineGoverned ==
    baseline # NoKey =>
        /\ claim[baseline].status = "EXECUTED"
        /\ claim[baseline].official /\ claim[baseline].prov
        /\ claim[baseline].sound /\ claim[baseline].clean
        /\ claim[baseline].outcome \in TradingOutcomes
        /\ trades[baseline] = 1

\* Every window that closes gets a row: executed, failed or missed.
ClosedWindowsAreRecorded ==
    \A k \in Keys : Past(k, clock) ~> window[k] # "NONE"

\* A committed execution, interrupted or not, ends with its diagnostics, its
\* window row and a registered notification.
ExecutionsAreFinalized ==
    \A k \in Keys :
        Committed(claim[k]) ~>
            /\ claim[k].outcome # "NONE"
            /\ window[k] = claim[k].outcome
            /\ claim[k].notified

\* What became of week k, seen through the tables.
Decision(k) ==
    IF Committed(claim[k]) THEN "traded"
    ELSE IF claim[k].status \notin {"NONE", "RUNNING"} THEN "refused"
    ELSE IF window[k] = "MISSED_SCHEDULE" THEN "missed"
    ELSE "open"

Schedule == INSTANCE WeeklySchedule
              WITH today <- clock,
                   decision <- [k \in Keys |-> Decision(k)],
                   traded <- trades

\* Sessions, crashes, recovery and audits implement the abstract schedule:
\* each week is decided once, for good.
ImplementsSchedule == Schedule!Spec

-----------------------------------------------------------------------------
(* What the repository says and the code does not do *)

\* tests/test_paper_trading.py, test_scheduled_dry_run_does_not_consume_real_
\* paper_window: a dry run inserts no run that holds a schedule key.
DryRunLeavesSchedule ==
    [][dry => \A k \in Keys :
                 claim[k].status = "NONE" => claim'[k].status = "NONE"]_vars

\* docs/governance.md, "Allowed maintenance": scheduled runs record release
\* provenance before any order or fill; docs/forward-validation.md, "Required
\* provenance": every forward result is traceable to its code commit.
ScheduledExecutionHasProvenance ==
    \A k \in Keys : Committed(claim[k]) => claim[k].prov

\* forward_experiment/governance.json, incident_policy.data_failure: invalid
\* market data activates the kill switch.
DataFailureHalts == [][DataHalt => account' = "HALTED"]_vars

=============================================================================
