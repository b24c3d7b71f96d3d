------------------------------ MODULE Operations ------------------------------
(***************************************************************************)
(* The components that work beside the weekly cycle on state of their own: *)
(* the writer lock, the backups, the market data a run fetches, the gate   *)
(* and the ledger of a research run, the arithmetic of the schedule.  Any  *)
(* of them may be at work at the same time, as processes of their own; a   *)
(* step of the whole is a step of one of them, and none reads or writes a  *)
(* variable of another.                                                     *)
(***************************************************************************)
EXTENDS WriterLock, FiniteSets, Sequences

CONSTANTS
    Backups, Names, Authorities, MaxWrites, MaxReleases, Writer, Junk,
    Order, MaxRetries, MaxAge, MaxSkew, MaxCandleAge, Window, Midnight,
    MaxClock, Lags,
    Candidate, ExpectedTrials,
    MaxRecords, Partial,     \* MaxRecords bounds the writes of the ledger
    Plans, Governed, Instants(_)

VARIABLES
    parts,    \* the components at work in this behaviour
    db, reports, head, target, tree, lock, published, original, cuts, backupPc,
    name, authority, prov, staged,
    clock, started, phase, at, attempt, error, candles, quotes, references, ranges,
    limited, late, failed, result,
    training, finalists, validated, locked, opened,
    file, seal, legacy, mem, written,
    plan, start, now, key, deadline

Backup   == INSTANCE BackupRestore WITH pc <- backupPc
Market   == INSTANCE MarketData
Gate     == INSTANCE ExperimentGate
Ledger   == INSTANCE ExperimentLedger WITH MaxWrites <- MaxRecords
Schedule == INSTANCE ScheduleArithmetic WITH NoKey <- None

-----------------------------------------------------------------------------
(* What the proofs need of the constants *)

\* The holders of the writer lock are told apart; the bounds are numbers.
ASSUME BackupAssumption ==
    /\ None \notin Backups /\ Writer \notin Backups /\ Writer # None
    /\ MaxWrites \in Nat /\ MaxReleases \in Nat

\* load_assets refuses an empty list and a symbol that is listed twice; None is
\* neither an error nor a way for a fetch to end.
ASSUME MarketAssumption ==
    /\ Order \in Seq({Order[i] : i \in DOMAIN Order}) /\ Order # << >>
    /\ \A i, j \in DOMAIN Order : Order[i] = Order[j] => i = j
    /\ MaxRetries \in Nat /\ MaxClock \in Nat
    /\ MaxAge \in Int /\ Lags \subseteq Int
    /\ None \notin Market!Results \cup Market!Errors

\* None is neither a candidate nor a set of finalists.
ASSUME GateAssumption ==
    None \notin Candidate /\ \A F \in SUBSET Candidate : F # None

ASSUME LedgerAssumption == MaxRecords \in Nat

\* A schedule is made of numbers, an instant is one and None is not; the windows
\* looked at end on the day they open; the launcher is written for Monday, 00:05
\* to 00:20.
ASSUME ScheduleAssumption ==
    /\ \A p \in Plans :
          /\ {p.weekday, p.hour, p.minute, p.target, p.window} \subseteq Int
          /\ 60 * p.hour + p.minute + p.window < 1440
          /\ Instants(p) \subseteq Nat
    /\ Governed.weekday = 0 /\ Governed.hour = 0
    /\ Governed.minute = 5 /\ Governed.window = 15
    /\ None \notin Int

-----------------------------------------------------------------------------

backupVars == <<db, reports, head, target, tree, lock, published, original, cuts,
                backupPc, name, authority, prov, staged>>
marketVars == <<clock, started, phase, at, attempt, error, candles, quotes,
                references, ranges, limited, late, failed, result>>
gateVars   == <<training, finalists, validated, locked, opened>>
ledgerVars == <<file, seal, legacy, mem, written>>
scheduleVars == <<plan, start, now, key, deadline>>

opsVars == <<parts, vars, backupVars, marketVars, gateVars, ledgerVars, scheduleVars>>

Components == {"lock", "backup", "market", "gate", "ledger", "schedule"}

OpsInit ==
    /\ parts \in SUBSET Components
    /\ Init /\ Backup!Init /\ Market!Init /\ Gate!Init /\ Ledger!Init
    /\ Schedule!Init

LockStep ==
    Next /\ UNCHANGED <<backupVars, marketVars, gateVars, ledgerVars, scheduleVars>>
BackupStep ==
    Backup!Next /\ UNCHANGED <<vars, marketVars, gateVars, ledgerVars, scheduleVars>>
MarketStep ==
    Market!Next /\ UNCHANGED <<vars, backupVars, gateVars, ledgerVars, scheduleVars>>
GateStep ==
    Gate!Next /\ UNCHANGED <<vars, backupVars, marketVars, ledgerVars, scheduleVars>>
LedgerStep ==
    Ledger!Next /\ UNCHANGED <<vars, backupVars, marketVars, gateVars, scheduleVars>>
ScheduleStep ==
    Schedule!Next /\ UNCHANGED <<vars, backupVars, marketVars, gateVars, ledgerVars>>

OpsNext ==
    /\ UNCHANGED parts
    /\ \/ "lock" \in parts /\ LockStep
       \/ "backup" \in parts /\ BackupStep
       \/ "market" \in parts /\ MarketStep
       \/ "gate" \in parts /\ GateStep
       \/ "ledger" \in parts /\ LedgerStep
       \/ "schedule" \in parts /\ ScheduleStep

OpsSpec == OpsInit /\ [][OpsNext]_opsVars

-----------------------------------------------------------------------------
(* The properties of the instances, as their modules state them *)

\* Every variable of the components at work has its type.
TypesOK ==
    /\ "lock" \in parts => TypeOK
    /\ "backup" \in parts => Backup!TypeOK
    /\ "market" \in parts => Market!TypeOK
    /\ "gate" \in parts => Gate!TypeOK
    /\ "ledger" \in parts => Ledger!TypeOK
    /\ "schedule" \in parts => Schedule!TypeOK

\* A backup's database and reports existed together.
ArchiveIsACut == Backup!ArchiveIsACut

\* A backup states the authority and the hardening manifest it archives.
IdentityIsArchived == Backup!IdentityIsArchived

\* A rate limit of the direct endpoints ends the requests, and is not evidence.
SilentAfterRateLimit == Market!SilentAfterRateLimit

\* What is admitted is complete, of the day and of the age of the admission.
AdmittedIsCurrent == Market!AdmittedIsCurrent

\* The final test is opened for one candidate, trained and validated.
FinalTestIsEarned == Gate!FinalTestIsEarned

\* A complete seal agrees with the file.
SealAgrees == Ledger!SealAgrees

\* No two readable records carry the same number.
ChainNeverForks == Ledger!ChainNeverForks

\* All routines that look for a window agree, and an admitted key stands
\* until its deadline.
OneSchedule == "schedule" \in parts => Schedule!OneSchedule

=============================================================================
