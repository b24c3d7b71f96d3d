--------------------------- MODULE OperationsProofs ---------------------------
(***************************************************************************)
(* Proofs about Operations: whichever of its components are at work, each  *)
(* of them behaves as its own specification says, and has the properties   *)
(* that are proved here of that specification, for any value of the        *)
(* constants.  A component's section has its inductive invariant, the       *)
(* preservation by every action, and the theorems.                          *)
(***************************************************************************)
EXTENDS Operations, SequenceTheorems, TLAPS

-----------------------------------------------------------------------------
(* A step of the whole is a step of each component, or leaves it alone *)

LEMMA Composed ==
    /\ [OpsNext]_opsVars => [Next]_vars
    /\ [OpsNext]_opsVars => [Backup!Next]_backupVars
    /\ [OpsNext]_opsVars => [Market!Next]_marketVars
    /\ [OpsNext]_opsVars => [Gate!Next]_gateVars
    /\ [OpsNext]_opsVars => [Ledger!Next]_ledgerVars
    /\ [OpsNext]_opsVars => [Schedule!Next]_scheduleVars
<1> SUFFICES ASSUME [OpsNext]_opsVars
             PROVE  /\ [Next]_vars /\ [Backup!Next]_backupVars
                    /\ [Market!Next]_marketVars /\ [Gate!Next]_gateVars
                    /\ [Ledger!Next]_ledgerVars /\ [Schedule!Next]_scheduleVars
  OBVIOUS
<1>1. CASE UNCHANGED opsVars
  BY <1>1 DEF opsVars
<1>2. CASE OpsNext
  BY <1>2 DEF OpsNext, LockStep, BackupStep, MarketStep, GateStep, LedgerStep,
              ScheduleStep
<1> QED
  BY <1>1, <1>2

-----------------------------------------------------------------------------
(* The writer lock *)

LockInv == TypeOK /\ OneWriter /\ SidecarNamesOwnerOrLeaver /\ StaleOwnerIsGone

LEMMA LockInitInv == Init => LockInv
BY NoneAssumption
   DEF Init, LockInv, TypeOK, OneWriter, SidecarNamesOwnerOrLeaver,
       StaleOwnerIsGone, Inside, Places

LEMMA LockNextInv ==
    ASSUME LockInv, [Next]_vars
    PROVE  LockInv'
<1> USE NoneAssumption
    DEF Go, LockInv, TypeOK, OneWriter, SidecarNamesOwnerOrLeaver,
        StaleOwnerIsGone, Inside, Places
<1>1. ASSUME NEW p \in Process, TryLock(p)
      PROVE  LockInv'
  BY <1>1 DEF TryLock
<1>2. ASSUME NEW p \in Process, GiveUp(p)
      PROVE  LockInv'
  BY <1>2 DEF GiveUp
<1>3. ASSUME NEW p \in Process, WriteOwner(p)
      PROVE  LockInv'
  BY <1>3 DEF WriteOwner
<1>4. ASSUME NEW p \in Process, WriteOwnerFails(p)
      PROVE  LockInv'
  BY <1>4 DEF WriteOwnerFails
<1>5. ASSUME NEW p \in Process, Unlock(p)
      PROVE  LockInv'
  BY <1>5 DEF Unlock
<1>6. ASSUME NEW p \in Process, ReadOwner(p)
      PROVE  LockInv'
  BY <1>6 DEF ReadOwner
<1>7. ASSUME NEW p \in Process, Unlink(p)
      PROVE  LockInv'
  BY <1>7 DEF Unlink
<1>8. ASSUME NEW p \in Process, Die(p)
      PROVE  LockInv'
  BY <1>8 DEF Die
<1>9. CASE UNCHANGED vars
  BY <1>9 DEF vars
<1> QED
  BY <1>1, <1>2, <1>3, <1>4, <1>5, <1>6, <1>7, <1>8, <1>9 DEF Next, Step

\* The invariant holds in every reachable state.
THEOREM LockInvariance == Spec => []LockInv
BY LockInitInv, LockNextInv, PTL DEF Spec

\* However many processes compete, die or fail half way in, one of them writes.
THEOREM MutualExclusion == Spec => []OneWriter
BY LockInvariance, PTL DEF LockInv

\* The sidecar names the process inside once that has written it, and of the live
\* processes at no time any but that one and those on their way out.
THEOREM SidecarSound == Spec => []SidecarNamesOwnerOrLeaver
BY LockInvariance, PTL DEF LockInv

\* A sidecar is taken over only from a process that is gone.
THEOREM StaleSound == Spec => []StaleOwnerIsGone
BY LockInvariance, PTL DEF LockInv

-----------------------------------------------------------------------------
(* The gate of a research run *)

\* What has been declared was trained in exactly the expected trials; what is
\* locked was validated; only that is opened.
GateInv ==
    /\ finalists # None =>
          finalists \subseteq training /\ Gate!Cardinality(training) = ExpectedTrials
    /\ validated # {} => finalists # None
    /\ validated \subseteq training
    /\ locked # None => locked \in validated
    /\ opened \subseteq {locked} /\ None \notin opened

LEMMA GateInitInv == Gate!Init => Gate!TypeOK /\ GateInv
BY GateAssumption DEF Gate!Init, Gate!TypeOK, GateInv

LEMMA GateNextInv ==
    ASSUME Gate!TypeOK, GateInv, [Gate!Next]_gateVars
    PROVE  Gate!TypeOK' /\ GateInv'
<1> USE GateAssumption DEF Gate!TypeOK, GateInv
<1>1. ASSUME NEW c \in Candidate, Gate!RecordTraining(c)
      PROVE  Gate!TypeOK' /\ GateInv'
  BY <1>1 DEF Gate!RecordTraining
<1>2. ASSUME NEW c \in Candidate, Gate!RecordValidation(c)
      PROVE  Gate!TypeOK' /\ GateInv'
  BY <1>2 DEF Gate!RecordValidation
<1>3. ASSUME NEW c \in Candidate, Gate!LockCandidate(c)
      PROVE  Gate!TypeOK' /\ GateInv'
  BY <1>3 DEF Gate!LockCandidate
<1>4. ASSUME NEW c \in Candidate, Gate!AssertTestAccess(c)
      PROVE  Gate!TypeOK' /\ GateInv'
  BY <1>4 DEF Gate!AssertTestAccess
<1>5. ASSUME NEW F \in SUBSET Candidate, Gate!SetFinalists(F)
      PROVE  Gate!TypeOK' /\ GateInv'
  <2>1. F # None /\ F # {} /\ F \subseteq Candidate
    BY <1>5 DEF Gate!SetFinalists
  <2> QED
    BY <1>5, <2>1 DEF Gate!SetFinalists
<1>6. CASE UNCHANGED gateVars
  BY <1>6 DEF gateVars
<1> QED
  BY <1>1, <1>2, <1>3, <1>4, <1>5, <1>6 DEF Gate!Next

\* The gate's invariant holds in every reachable state.
THEOREM GateInvariance == OpsSpec => [](Gate!TypeOK /\ GateInv)
<1>1. OpsInit => Gate!TypeOK /\ GateInv
  BY GateInitInv DEF OpsInit
<1>2. Gate!TypeOK /\ GateInv /\ [OpsNext]_opsVars => (Gate!TypeOK /\ GateInv)'
  BY GateNextInv, Composed
<1> QED
  BY <1>1, <1>2, PTL DEF OpsSpec

\* In whatever order the gate is called, the final test is opened for one
\* candidate only, one trained among exactly the expected trials and validated.
THEOREM EarnedTest == OpsSpec => []FinalTestIsEarned
<1>1. GateInv => FinalTestIsEarned
  <2> SUFFICES ASSUME GateInv, NEW c \in opened
               PROVE  /\ opened = {locked} /\ locked \in validated
                      /\ validated \subseteq training
                      /\ Gate!Cardinality(training) = ExpectedTrials
    BY DEF FinalTestIsEarned, Gate!FinalTestIsEarned
  <2>1. c = locked /\ locked # None
    BY DEF GateInv
  <2> QED
    BY <2>1 DEF GateInv
<1> QED
  BY <1>1, GateInvariance, PTL

\* Once a finalist has been validated no further trial is trained: the choice of
\* the finalists cannot follow the validation results.
THEOREM NoLateTraining == OpsSpec => [][validated # {} => training' = training]_gateVars
<1>1. Gate!TypeOK /\ GateInv /\ [OpsNext]_opsVars
        => [validated # {} => training' = training]_gateVars
  <2> SUFFICES ASSUME GateInv, Gate!Next, validated # {}
               PROVE  training' = training
    BY Composed
  <2> QED
    BY DEF GateInv, Gate!Next, Gate!RecordTraining, Gate!RecordValidation,
           Gate!LockCandidate, Gate!AssertTestAccess, Gate!SetFinalists
<1> QED
  BY <1>1, GateInvariance, PTL DEF OpsSpec

-----------------------------------------------------------------------------
(* The ledger of a research run *)

Intact(line) == line.shape \in {"whole", "unended"}

\* A process numbers its next record after every readable one, and holds an
\* unsealed ledger unless it knows the ledger to be finalized.
LedgerInv ==
    /\ mem # None =>
          /\ \A i \in DOMAIN file : Intact(file[i]) => file[i].seq < mem.seq
          /\ ~mem.finalized => seal = None /\ legacy = None
    /\ Ledger!MemoryContinuesFile
    /\ Ledger!SealAgrees
    /\ Ledger!ChainNeverForks

\* A record is put on a line of its own, or it spoils the last line.
LEMMA PutShape ==
    ASSUME NEW f \in Seq(Ledger!Line), NEW line \in Ledger!Line,
           line.shape \in {"whole", "unended", "torn"},
           NEW g, g = Ledger!Put(f, line)
    PROVE  /\ g \in Seq(Ledger!Line)
           /\ \/ /\ Len(g) = Len(f) + 1
                 /\ g[Len(g)] = line
                 /\ \A i \in 1 .. Len(f) : g[i] = f[i]
              \/ /\ Len(g) = Len(f) /\ Len(f) > 0
                 /\ ~Intact(g[Len(f)])
                 /\ \A i \in 1 .. Len(f) - 1 : g[i] = f[i]
<1>1. CASE f # << >> /\ f[Len(f)].shape \in {"unended", "torn"}
  <2> DEFINE last == [f[Len(f)] EXCEPT !.shape =
                        IF line.shape = "whole" THEN "garbled" ELSE "torn"]
  <2>1. Len(f) \in Nat /\ Len(f) > 0 /\ f[Len(f)] \in Ledger!Line
    BY <1>1
  <2>2. last \in Ledger!Line /\ ~Intact(last)
    BY <2>1 DEF Ledger!Line, Ledger!Shapes, Intact
  <2>3. g = SubSeq(f, 1, Len(f) - 1) \o <<last>>
    BY <1>1 DEF Ledger!Put, Ledger!Last, Ledger!Front
  <2> HIDE DEF last
  <2>4. /\ SubSeq(f, 1, Len(f) - 1) \in Seq(Ledger!Line)
        /\ Len(SubSeq(f, 1, Len(f) - 1)) = Len(f) - 1
        /\ \A i \in 1 .. Len(f) - 1 : SubSeq(f, 1, Len(f) - 1)[i] = f[i]
    <3> DEFINE k == Len(f) - 1
    <3>1. k \in Nat /\ \A i \in 1 .. k : f[i] \in Ledger!Line
      BY <2>1
    <3> HIDE DEF k
    <3>2. /\ SubSeq(f, 1, k) \in Seq(Ledger!Line)
          /\ Len(SubSeq(f, 1, k)) = IF 1 <= k THEN k - 1 + 1 ELSE 0
          /\ \A i \in 1 .. k - 1 + 1 : SubSeq(f, 1, k)[i] = f[1 + i - 1]
      BY <3>1, SubSeqProperties
    <3>3. \A i \in 1 .. k : i \in 1 .. k - 1 + 1 /\ 1 + i - 1 = i
      BY <3>1
    <3>4. /\ SubSeq(f, 1, k) \in Seq(Ledger!Line)
          /\ Len(SubSeq(f, 1, k)) = k
          /\ \A i \in 1 .. k : SubSeq(f, 1, k)[i] = f[i]
      BY <3>1, <3>2, <3>3
    <3> QED
      BY <3>4 DEF k
  <2> DEFINE front == SubSeq(f, 1, Len(f) - 1)
  <2> HIDE DEF front
  <2>5. /\ g \in Seq(Ledger!Line) /\ Len(g) = Len(f)
        /\ \A i \in 1 .. Len(f) - 1 : g[i] = front[i]
        /\ g[Len(f)] = last
    BY <2>1, <2>2, <2>3, <2>4 DEF front
  <2> QED
    BY <2>1, <2>2, <2>4, <2>5 DEF front
<1>2. CASE ~(f # << >> /\ f[Len(f)].shape \in {"unended", "torn"})
  <2>1. g = Append(f, line)
    BY <1>2 DEF Ledger!Put, Ledger!Last
  <2> QED
    BY <2>1
<1> QED
  BY <1>1, <1>2

LEMMA LedgerInitInv == Ledger!Init => Ledger!TypeOK /\ LedgerInv
<1> SUFFICES ASSUME Ledger!Init
             PROVE  Ledger!TypeOK /\ LedgerInv
  OBVIOUS
<1>1. seal = None /\ mem = None
  BY DEF Ledger!Init
<1>2. CASE file = << >> /\ written = 0 /\ legacy = None
  BY <1>1, <1>2, LedgerAssumption
     DEF Ledger!TypeOK, LedgerInv, Ledger!MemoryContinuesFile, Ledger!SealAgrees,
         Ledger!ChainNeverForks
<1>3. ASSUME NEW line, MaxRecords >= 1,
             line = [seq |-> 0, prev |-> Ledger!Genesis, hash |-> 1, shape |-> "whole"],
             file = <<line>>, written = 1, legacy = [count |-> 1, last |-> 1]
      PROVE  Ledger!TypeOK /\ LedgerInv
  <2>1. line \in Ledger!Line /\ legacy \in Ledger!Seal
    BY <1>3, LedgerAssumption
       DEF Ledger!Line, Ledger!Shapes, Ledger!Seal, Ledger!Hash, Ledger!Genesis
  <2>2. file \in Seq(Ledger!Line) /\ Len(file) = 1
    BY <1>3, <2>1
  <2> QED
    BY <1>1, <1>3, <2>1, <2>2, LedgerAssumption
       DEF Ledger!TypeOK, LedgerInv, Ledger!MemoryContinuesFile, Ledger!SealAgrees,
           Ledger!ChainNeverForks
<1> QED
  BY <1>2, <1>3 DEF Ledger!Init

LEMMA SeqsAreNumbers ==
    ASSUME file \in Seq(Ledger!Line)
    PROVE  \A i \in DOMAIN file : file[i].seq \in Nat
<1> SUFFICES ASSUME NEW i \in DOMAIN file
             PROVE  file[i].seq \in Nat
  OBVIOUS
<1>1. file[i] \in Ledger!Line
  OBVIOUS
<1> QED
  BY <1>1 DEF Ledger!Line

\* What a file that verifies says of its own end.
LEMMA TailFacts ==
    ASSUME file \in Seq(Ledger!Line), Ledger!Chained(file)
    PROVE  /\ Ledger!Tail0(file) \in [count : Nat, last : Ledger!Hash]
           /\ Ledger!Tail0(file).count = Len(file)
           /\ file # << >> => Ledger!Tail0(file).last = file[Len(file)].hash
           /\ file = << >> => Ledger!Tail0(file).last = Ledger!Genesis
<1>1. CASE file = << >>
  BY <1>1, LedgerAssumption DEF Ledger!Tail0, Ledger!Genesis, Ledger!Hash
<1>2. CASE file # << >>
  <2>1. Len(file) \in DOMAIN file /\ file[Len(file)] \in Ledger!Line
    BY <1>2
  <2>2. file[Len(file)].seq = Len(file) - 1
    BY <2>1 DEF Ledger!Chained
  <2> QED
    BY <1>2, <2>1, <2>2 DEF Ledger!Tail0, Ledger!Last, Ledger!Line
<1> QED
  BY <1>1, <1>2

LEMMA OpenInv ==
    ASSUME Ledger!TypeOK, LedgerInv, Ledger!Open
    PROVE  Ledger!TypeOK' /\ LedgerInv'
<1>1. /\ file \in Seq(Ledger!Line) /\ Ledger!Chained(file)
      /\ mem' = [seq |-> Ledger!Tail0(file).count, last |-> Ledger!Tail0(file).last,
                 finalized |-> seal # None \/ legacy # None]
      /\ UNCHANGED <<file, seal, legacy, written>>
  BY DEF Ledger!Open, Ledger!Verifies, Ledger!TypeOK
<1>2. mem' \in Ledger!Memory /\ mem'.seq = Len(file)
  BY <1>1, TailFacts DEF Ledger!Memory
<1>3. \A i \in DOMAIN file : file[i].seq < Len(file)
  BY <1>1 DEF Ledger!Chained
<1>4. ~mem'.finalized => seal = None /\ legacy = None
  BY <1>1
<1>5. Ledger!Remembered' = Ledger!Tail0(file)
  BY <1>1, TailFacts DEF Ledger!Remembered
<1>6. Ledger!MemoryContinuesFile'
  BY <1>1, <1>5 DEF Ledger!MemoryContinuesFile, Ledger!Tail0, Ledger!Chained
<1> QED
  BY <1>1, <1>2, <1>3, <1>4, <1>6
     DEF Ledger!TypeOK, LedgerInv, Ledger!SealAgrees, Ledger!ChainNeverForks,
         Ledger!Verifies, Ledger!Readable, Ledger!Chained, Ledger!Tail0

\* What a process writes continues the chain, if the file can still be read.
LEMMA WriteInv ==
    ASSUME Ledger!TypeOK, LedgerInv, mem # None, ~mem.finalized,
           written < MaxRecords, written' = written + 1,
           NEW shape \in {"whole", "unended", "torn"},
           file' = Ledger!Put(file, Ledger!Record(shape))
    PROVE  /\ file' \in Seq(Ledger!Line) /\ written' \in 0 .. MaxRecords
           /\ Ledger!ChainNeverForks'
           /\ \A i \in DOMAIN file' : Intact(file'[i]) => file'[i].seq < mem.seq + 1
           /\ Ledger!Readable(file') =>
                 /\ Ledger!Chained(file')
                 /\ Ledger!Tail0(file') = [count |-> mem.seq + 1, last |-> written + 1]
<1> DEFINE line == Ledger!Record(shape)
<1>1. /\ file \in Seq(Ledger!Line) /\ mem \in Ledger!Memory
      /\ written' \in 0 .. MaxRecords /\ MaxRecords \in Nat
  BY LedgerAssumption DEF Ledger!TypeOK
<1>2. /\ line \in Ledger!Line /\ line.shape = shape /\ line.hash = written + 1
      /\ line.seq = mem.seq /\ line.prev = mem.last
  BY <1>1 DEF Ledger!TypeOK, Ledger!Record, Ledger!Line, Ledger!Memory, Ledger!Hash,
              Ledger!Shapes
<1> HIDE DEF line
<1>3. /\ file' \in Seq(Ledger!Line)
      /\ \/ /\ Len(file') = Len(file) + 1
            /\ file'[Len(file')] = line
            /\ \A i \in 1 .. Len(file) : file'[i] = file[i]
         \/ /\ Len(file') = Len(file) /\ Len(file) > 0
            /\ ~Intact(file'[Len(file)])
            /\ \A i \in 1 .. Len(file) - 1 : file'[i] = file[i]
  BY <1>1, <1>2, PutShape DEF line
<1>4. \A i \in DOMAIN file : Intact(file[i]) => file[i].seq < mem.seq
  BY DEF LedgerInv
<1>5. \A i, j \in DOMAIN file :
         i # j /\ Intact(file[i]) /\ Intact(file[j]) => file[i].seq # file[j].seq
  BY DEF LedgerInv, Ledger!ChainNeverForks, Intact
<1>6. CASE /\ Len(file') = Len(file) + 1
           /\ file'[Len(file')] = line
           /\ \A i \in 1 .. Len(file) : file'[i] = file[i]
  <2>1. DOMAIN file' = 1 .. Len(file) + 1 /\ DOMAIN file = 1 .. Len(file)
        /\ Len(file) \in Nat
    BY <1>1, <1>3, <1>6
  <2>2. \A i \in DOMAIN file : file[i].seq \in Nat
    BY <1>1, SeqsAreNumbers
  <2>3. mem.seq \in Nat
    BY <1>1 DEF Ledger!Memory
  <2>4. \A i \in DOMAIN file' : Intact(file'[i]) => file'[i].seq < mem.seq + 1
    BY <1>2, <1>4, <1>6, <2>1, <2>2, <2>3
  <2>5. \A i, j \in DOMAIN file' :
           i # j /\ Intact(file'[i]) /\ Intact(file'[j]) => file'[i].seq # file'[j].seq
    BY <1>2, <1>4, <1>5, <1>6, <2>1, <2>2, <2>3
  <2>6. ASSUME Ledger!Readable(file')
        PROVE  /\ Ledger!Chained(file')
               /\ Ledger!Tail0(file') = [count |-> mem.seq + 1, last |-> written + 1]
    <3>1. Ledger!Readable(file)
      BY <1>6, <2>1, <2>6 DEF Ledger!Readable
    <3>2. Ledger!Chained(file) /\ Ledger!Remembered = Ledger!Tail0(file)
      BY <3>1 DEF LedgerInv, Ledger!MemoryContinuesFile
    <3>3. mem.seq = Len(file)
          /\ mem.last = IF Len(file) = 0 THEN Ledger!Genesis ELSE file[Len(file)].hash
      BY <1>1, <3>2, TailFacts DEF Ledger!Remembered
    <3>4. Ledger!Chained(file')
      BY <1>2, <1>6, <2>1, <3>2, <3>3 DEF Ledger!Chained
    <3>5. file' # << >> /\ file'[Len(file')] = line
      BY <1>6, <2>1
    <3>6. Ledger!Tail0(file') = [count |-> line.seq + 1, last |-> line.hash]
      BY <3>5 DEF Ledger!Tail0, Ledger!Last
    <3> QED
      BY <1>2, <3>4, <3>6
  <2> QED
    BY <1>1, <1>3, <2>4, <2>5, <2>6 DEF Ledger!ChainNeverForks, Intact
<1>7. CASE /\ Len(file') = Len(file) /\ Len(file) > 0
           /\ ~Intact(file'[Len(file)])
           /\ \A i \in 1 .. Len(file) - 1 : file'[i] = file[i]
  <2>1. DOMAIN file' = 1 .. Len(file) /\ DOMAIN file = 1 .. Len(file)
        /\ Len(file) \in Nat
    BY <1>1, <1>3, <1>7
  <2>2. \A i \in DOMAIN file' : Intact(file'[i]) =>
           i \in 1 .. Len(file) - 1 /\ file'[i] = file[i]
    BY <1>7, <2>1
  <2>3. ~Ledger!Readable(file')
    <3>1. Len(file) \in DOMAIN file'
      BY <1>7, <2>1
    <3> QED
      BY <1>7, <3>1 DEF Ledger!Readable, Intact
  <2>4. \A i \in DOMAIN file : file[i].seq \in Nat
    BY <1>1, SeqsAreNumbers
  <2>5. \A i \in DOMAIN file' : Intact(file'[i]) => file'[i].seq < mem.seq + 1
    BY <1>1, <1>4, <2>1, <2>2, <2>4 DEF Ledger!Memory
  <2>6. \A i, j \in DOMAIN file' :
           i # j /\ Intact(file'[i]) /\ Intact(file'[j]) => file'[i].seq # file'[j].seq
    BY <1>5, <2>1, <2>2
  <2> QED
    BY <1>1, <1>3, <2>3, <2>5, <2>6 DEF Ledger!ChainNeverForks, Intact
<1> QED
  BY <1>3, <1>6, <1>7

LEMMA LedgerNextInv ==
    ASSUME Ledger!TypeOK, LedgerInv, [Ledger!Next]_ledgerVars
    PROVE  Ledger!TypeOK' /\ LedgerInv'
<1>1. CASE Ledger!Open
  BY <1>1, OpenInv
<1>2. CASE Ledger!AppendRecord
  <2>1. /\ mem # None /\ ~mem.finalized /\ written < MaxRecords
        /\ file' = Ledger!Put(file, Ledger!Record("whole"))
        /\ written' = written + 1
        /\ mem' = [mem EXCEPT !.seq = @ + 1, !.last = written + 1]
        /\ UNCHANGED <<seal, legacy>>
    BY <1>2 DEF Ledger!AppendRecord
  <2>2. mem \in Ledger!Memory /\ seal = None /\ legacy = None
    BY <2>1 DEF Ledger!TypeOK, LedgerInv
  <2>3. /\ mem' \in Ledger!Memory /\ mem'.seq = mem.seq + 1
        /\ mem'.last = written + 1 /\ ~mem'.finalized
    <3>1. mem' = [seq |-> mem.seq + 1, last |-> written + 1,
                  finalized |-> mem.finalized]
      BY <2>1, <2>2 DEF Ledger!Memory
    <3>2. mem.seq + 1 \in Nat /\ mem.finalized \in BOOLEAN
      BY <2>2 DEF Ledger!Memory
    <3>3. written + 1 \in Ledger!Hash
      BY <2>1, LedgerAssumption DEF Ledger!TypeOK, Ledger!Hash
    <3> QED
      BY <2>1, <3>1, <3>2, <3>3 DEF Ledger!Memory
  <2>4. Ledger!Remembered' = [count |-> mem.seq + 1, last |-> written + 1]
    BY <2>3 DEF Ledger!Remembered
  <2>5. /\ file' \in Seq(Ledger!Line) /\ written' \in 0 .. MaxRecords
        /\ Ledger!ChainNeverForks'
        /\ \A i \in DOMAIN file' : Intact(file'[i]) => file'[i].seq < mem.seq + 1
        /\ Ledger!Readable(file') =>
              /\ Ledger!Chained(file')
              /\ Ledger!Tail0(file') = [count |-> mem.seq + 1, last |-> written + 1]
    BY <2>1, WriteInv
  <2>6. Ledger!MemoryContinuesFile'
    BY <2>4, <2>5 DEF Ledger!MemoryContinuesFile, Ledger!Readable, Ledger!Chained,
                      Ledger!Tail0
  <2> QED
    BY <2>1, <2>2, <2>3, <2>5, <2>6 DEF Ledger!TypeOK, LedgerInv, Ledger!SealAgrees
<1>3. ASSUME NEW shape \in {"whole", "unended", "torn"}, Ledger!AppendFails(shape)
      PROVE  Ledger!TypeOK' /\ LedgerInv'
  <2>1. /\ mem # None /\ ~mem.finalized /\ written < MaxRecords
        /\ file' = Ledger!Put(file, Ledger!Record(shape))
        /\ written' = written + 1
        /\ mem' = None
        /\ UNCHANGED <<seal, legacy>>
    BY <1>3 DEF Ledger!AppendFails
  <2>2. seal = None /\ legacy = None
    BY <2>1 DEF LedgerInv
  <2>3. /\ file' \in Seq(Ledger!Line) /\ written' \in 0 .. MaxRecords
        /\ Ledger!ChainNeverForks'
    BY <2>1, WriteInv
  <2> QED
    BY <2>1, <2>2, <2>3
       DEF Ledger!TypeOK, LedgerInv, Ledger!SealAgrees, Ledger!MemoryContinuesFile
<1>4. CASE Ledger!Finalize
  <2>1. /\ mem # None /\ Ledger!Verifies(file)
        /\ seal' = Ledger!Remembered
        /\ mem' = [mem EXCEPT !.finalized = TRUE]
        /\ UNCHANGED <<file, legacy, written>>
    BY <1>4 DEF Ledger!Finalize
  <2>2. mem \in Ledger!Memory /\ Ledger!Remembered = Ledger!Tail0(file)
    BY <2>1 DEF Ledger!TypeOK, LedgerInv, Ledger!MemoryContinuesFile, Ledger!Verifies
  <2>3. /\ mem' \in Ledger!Memory /\ mem'.seq = mem.seq /\ mem'.last = mem.last
        /\ mem'.finalized
    BY <2>1, <2>2 DEF Ledger!Memory
  <2>4. seal' \in Ledger!Seal
    BY <2>1, <2>2, LedgerAssumption
       DEF Ledger!Remembered, Ledger!Memory, Ledger!Seal
  <2>5. Ledger!Remembered' = Ledger!Remembered
    BY <2>3 DEF Ledger!Remembered
  <2>6. Ledger!SealAgrees'
    BY <2>1, <2>2 DEF Ledger!SealAgrees, Ledger!Verifies, Ledger!Readable,
                      Ledger!Chained, Ledger!Tail0
  <2>7. Ledger!MemoryContinuesFile' /\ Ledger!ChainNeverForks'
    BY <2>1, <2>5 DEF LedgerInv, Ledger!MemoryContinuesFile, Ledger!ChainNeverForks,
                      Ledger!Readable, Ledger!Chained, Ledger!Tail0
  <2> QED
    BY <2>1, <2>3, <2>4, <2>6, <2>7 DEF Ledger!TypeOK, LedgerInv
<1>5. CASE Ledger!FinalizeFails
  BY <1>5 DEF Ledger!FinalizeFails, Ledger!TypeOK, LedgerInv, Ledger!SealAgrees,
              Ledger!MemoryContinuesFile, Ledger!ChainNeverForks
<1>6. CASE Ledger!Close
  BY <1>6 DEF Ledger!Close, Ledger!TypeOK, LedgerInv, Ledger!SealAgrees,
              Ledger!MemoryContinuesFile, Ledger!ChainNeverForks, Ledger!Verifies,
              Ledger!Readable, Ledger!Chained, Ledger!Tail0
<1>7. CASE UNCHANGED ledgerVars
  BY <1>7 DEF ledgerVars, Ledger!TypeOK, LedgerInv, Ledger!SealAgrees,
              Ledger!MemoryContinuesFile, Ledger!ChainNeverForks, Ledger!Verifies,
              Ledger!Readable, Ledger!Chained, Ledger!Tail0, Ledger!Remembered
<1> QED
  BY <1>1, <1>2, <1>3, <1>4, <1>5, <1>6, <1>7 DEF Ledger!Next

\* The ledger's invariant holds in every reachable state.
THEOREM LedgerInvariance == OpsSpec => [](Ledger!TypeOK /\ LedgerInv)
<1>1. OpsInit => Ledger!TypeOK /\ LedgerInv
  BY LedgerInitInv DEF OpsInit
<1>2. Ledger!TypeOK /\ LedgerInv /\ [OpsNext]_opsVars => (Ledger!TypeOK /\ LedgerInv)'
  BY LedgerNextInv, Composed
<1> QED
  BY <1>1, <1>2, PTL DEF OpsSpec

\* A process that finds a ledger, appends, fails and finds it again never writes a
\* seal that disagrees with the records.
THEOREM SealSound == OpsSpec => []SealAgrees
<1>1. LedgerInv => SealAgrees
  BY DEF LedgerInv, SealAgrees
<1> QED
  BY <1>1, LedgerInvariance, PTL

\* However many processes append, and however their writes end, no two readable
\* records carry the same number.
THEOREM NoFork == OpsSpec => []ChainNeverForks
<1>1. LedgerInv => ChainNeverForks
  BY DEF LedgerInv, ChainNeverForks
<1> QED
  BY <1>1, LedgerInvariance, PTL

\* A ledger that is sealed, or historical, is never written again.
THEOREM SealedForGood ==
    OpsSpec => [][seal # None \/ legacy # None => file' = file]_ledgerVars
<1>1. Ledger!TypeOK /\ LedgerInv /\ [OpsNext]_opsVars
        => [seal # None \/ legacy # None => file' = file]_ledgerVars
  <2> SUFFICES ASSUME LedgerInv, Ledger!Next, seal # None \/ legacy # None
               PROVE  file' = file
    BY Composed
  <2> QED
    BY DEF LedgerInv, Ledger!Next, Ledger!Open, Ledger!AppendRecord,
           Ledger!AppendFails, Ledger!Finalize, Ledger!FinalizeFails, Ledger!Close
<1> QED
  BY <1>1, LedgerInvariance, PTL DEF OpsSpec

-----------------------------------------------------------------------------
(* The market data of a run *)

\* Of one kind of evidence a fetch has nothing before its phase, that of the
\* assets it has been through in it, and all of it afterwards.
Had(domain, kind, before, after) ==
    /\ phase \in before => domain = {}
    /\ phase = kind => domain = {Order[i] : i \in 1 .. at - 1}
    /\ phase \in after => domain = Market!Assets

QuotesHad == Had(DOMAIN quotes, "quotes", {"idle", "markets", "candles"},
                 {"references", "ranges", "snapshot"})
RangesHad == Had(DOMAIN ranges, "ranges",
                 {"idle", "markets", "candles", "quotes", "references"}, {"snapshot"})

\* A request for rules that failed left evidence that says so.
FailuresRecorded ==
    \A a \in failed : a \in DOMAIN ranges /\ ranges[a].status \in Market!Unavailable

\* The exception in flight belongs to a request, or has left the fetch; a rate
\* limit stays in flight until the end.
InFlight ==
    /\ phase \in {"idle", "snapshot"} => error = None
    /\ phase = "raised" => error # None
    /\ limited <=> error = "limit"
    /\ ~late
    /\ limited => phase \in {"references", "ranges", "raised", "over"}

MarketInv ==
    /\ QuotesHad /\ RangesHad /\ FailuresRecorded
    /\ InFlight
    /\ Market!SilentAfterRateLimit
    /\ Market!AdmittedIsCurrent

LEMMA OrderFacts ==
    /\ Len(Order) \in Nat /\ Len(Order) > 0 /\ DOMAIN Order = 1 .. Len(Order)
    /\ Market!Assets = {Order[i] : i \in 1 .. Len(Order)}
<1>1. Len(Order) \in Nat /\ Len(Order) > 0 /\ DOMAIN Order = 1 .. Len(Order)
  BY MarketAssumption
<1> QED
  BY <1>1 DEF Market!Assets

\* Market!Advance goes on to the next asset, or to the first one of what follows.
LEMMA AdvanceFacts ==
    ASSUME Market!TypeOK, phase \in Market!Requests, Market!Advance
    PROVE  /\ attempt' \in 0 .. MaxRetries /\ at' \in 1 .. Len(Order)
           /\ error' = None
           /\ phase' \in Market!Requests \cup {"snapshot"}
           /\ \/ /\ phase' = phase /\ phase # "markets"
                 /\ at < Len(Order) /\ at' = at + 1
              \/ /\ phase' = Market!Then[phase] /\ at' = 1
                 /\ phase = "markets" \/ at = Len(Order)
<1>1. at \in 1 .. Len(Order) /\ Len(Order) \in Nat
  BY OrderFacts DEF Market!TypeOK
<1>2. attempt' \in 0 .. MaxRetries /\ error' = None
  BY MarketAssumption DEF Market!Advance
<1>3. Market!Then[phase] \in Market!Requests \cup {"snapshot"}
  BY DEF Market!Then, Market!Requests
<1>4. CASE phase = "markets" \/ at = Len(Order)
  BY <1>1, <1>2, <1>3, <1>4 DEF Market!Advance
<1>5. CASE ~(phase = "markets" \/ at = Len(Order))
  BY <1>1, <1>2, <1>5 DEF Market!Advance
<1> QED
  BY <1>4, <1>5

\* The asset at hand is none of those before it.
LEMMA AtIsNew ==
    ASSUME Market!TypeOK
    PROVE  Order[at] \in Market!Assets /\ Order[at] \notin {Order[i] : i \in 1 .. at - 1}
<1>1. at \in 1 .. Len(Order) /\ Len(Order) \in Nat
  BY OrderFacts DEF Market!TypeOK
<1>2. SUFFICES ASSUME NEW i \in 1 .. at - 1, Order[i] = Order[at]
               PROVE  FALSE
  BY <1>1, OrderFacts
<1> QED
  BY <1>1, <1>2, OrderFacts, MarketAssumption

\* What is had after one more asset, in its phase.
LEMMA HadOneMore ==
    ASSUME Market!TypeOK, phase \in Market!Requests \ {"markets"}, Market!Advance,
           NEW D, D = {Order[i] : i \in 1 .. at - 1}
    PROVE  /\ Order[at] \in Market!Assets /\ Order[at] \notin D
           /\ phase' = phase =>
                 D \cup {Order[at]} = {Order[i] : i \in 1 .. at' - 1}
           /\ phase' # phase =>
                 phase' = Market!Then[phase] /\ D \cup {Order[at]} = Market!Assets
<1>1. at \in 1 .. Len(Order) /\ Len(Order) \in Nat
  BY OrderFacts DEF Market!TypeOK
<1>2. Order[at] \in Market!Assets
  BY AtIsNew
<1>3. Order[at] \notin D
  BY AtIsNew
<1>4. D \cup {Order[at]} = {Order[i] : i \in 1 .. at}
  <2>1. 1 .. at = (1 .. at - 1) \cup {at}
    BY <1>1
  <2> QED
    BY <2>1
<1>5. Market!Then[phase] # phase
  BY DEF Market!Then, Market!Requests
<1>6. CASE phase' = phase
  <2>1. at' = at + 1
    BY <1>5, <1>6, AdvanceFacts
  <2>2. at' - 1 = at
    BY <1>1, <2>1
  <2> QED
    BY <1>2, <1>3, <1>4, <1>6, <2>2
<1>7. CASE phase' # phase
  <2>1. phase' = Market!Then[phase] /\ at = Len(Order)
    BY <1>7, AdvanceFacts
  <2> QED
    BY <1>2, <1>3, <1>4, <1>7, <2>1, OrderFacts
<1> QED
  BY <1>6, <1>7

LEMMA WithFacts ==
    ASSUME NEW f, NEW value, NEW g, g = Market!With(f, value)
    PROVE  /\ DOMAIN g = DOMAIN f \cup {Order[at]}
           /\ g[Order[at]] = value
           /\ \A a \in DOMAIN f \ {Order[at]} : g[a] = f[a]
BY DEF Market!With

LEMMA WithType ==
    ASSUME NEW f, NEW T, NEW value \in T, \A a \in DOMAIN f : f[a] \in T,
           NEW g, g = Market!With(f, value)
    PROVE  \A a \in DOMAIN g : g[a] \in T
BY DEF Market!With

LEMMA MarketInitInv == Market!Init => Market!TypeOK /\ MarketInv
<1> SUFFICES ASSUME Market!Init
             PROVE  Market!TypeOK /\ MarketInv
  OBVIOUS
<1>1. /\ phase = "idle" /\ result = None /\ failed = {} /\ error = None
      /\ limited = FALSE /\ late = FALSE
      /\ DOMAIN candles = {} /\ DOMAIN quotes = {} /\ DOMAIN references = {}
      /\ DOMAIN ranges = {} /\ clock = 0 /\ started = 0 /\ at = 1 /\ attempt = 0
  BY DEF Market!Init
<1>2. result # "deferred" /\ result # "admitted" /\ error # "limit"
  BY <1>1, MarketAssumption DEF Market!Results, Market!Errors
<1>3. Market!TypeOK
  <2>1. /\ 0 \in 0 .. MaxClock /\ 0 \in 0 .. MaxRetries
        /\ 1 \in 1 .. Len(Order)
    BY MarketAssumption, OrderFacts
  <2>2. UNION {DOMAIN candles, DOMAIN quotes, DOMAIN references, DOMAIN ranges}
          \subseteq Market!Assets
    BY <1>1
  <2>3. /\ \A a \in DOMAIN candles : candles[a] \in BOOLEAN
        /\ \A a \in DOMAIN quotes : quotes[a] \in Int
        /\ \A a \in DOMAIN ranges : ranges[a].status \in Market!Statuses
    BY <1>1
  <2> QED
    BY <1>1, <2>1, <2>2, <2>3 DEF Market!TypeOK
<1> QED
  BY <1>1, <1>2, <1>3
     DEF MarketInv, QuotesHad, RangesHad, Had, FailuresRecorded, InFlight,
         Market!SilentAfterRateLimit, Market!AdmittedIsCurrent, Market!FailsClosed,
         Market!Admitted

\* While the fetch goes on, nothing is decided.
LEMMA NotOver ==
    ASSUME Market!TypeOK, phase # "over"
    PROVE  result = None /\ result # "deferred" /\ result # "admitted"
<1>1. result = None
  BY DEF Market!TypeOK
<1> QED
  BY <1>1, MarketAssumption DEF Market!Results

\* With no exception in flight there has been no rate limit.
LEMMA Unlimited ==
    ASSUME MarketInv, error = None
    PROVE  ~limited
BY MarketAssumption DEF MarketInv, InFlight, Market!Errors

\* A step that does not end the fetch has to keep the account of the evidence; after
\* a rate limit it has to leave alone what is there.
LEMMA GoesOn ==
    ASSUME Market!TypeOK, MarketInv, phase # "over", UNCHANGED result,
           ~limited' \/ Order[at'] \notin DOMAIN ranges',
           Market!TypeOK', QuotesHad', RangesHad', FailuresRecorded', InFlight'
    PROVE  MarketInv'
<1>1. result' = None /\ result' # "deferred" /\ result' # "admitted"
  BY NotOver
<1> QED
  BY <1>1 DEF MarketInv, InFlight, Market!SilentAfterRateLimit, Market!AdmittedIsCurrent,
              Market!FailsClosed, Market!Admitted

\* A step of the fetch that takes no evidence and meets no error.
LEMMA TakesNothing ==
    ASSUME Market!TypeOK, MarketInv, phase # "over",
           UNCHANGED <<candles, quotes, references, ranges, limited, late, failed,
                       result>>,
           clock' \in 0 .. MaxClock, started' \in 0 .. MaxClock,
           attempt' \in 0 .. MaxRetries,
           \/ UNCHANGED <<phase, at, error>>
           \/ /\ UNCHANGED <<phase, at>>
              /\ phase \in Market!Requests /\ error = "transport" /\ error' = None
           \/ phase = "idle" /\ phase' = "markets" /\ UNCHANGED <<at, error>>
           \/ /\ phase = "markets" /\ phase' = "candles" /\ at' \in 1 .. Len(Order)
              /\ error = None /\ error' = None
           \/ /\ phase \in Market!Requests /\ phase' = "raised" /\ error # None
              /\ UNCHANGED <<at, error>>
    PROVE  Market!TypeOK' /\ MarketInv'
<1>1. result = None
  BY NotOver
<1>2. Market!TypeOK'
  BY <1>1 DEF Market!TypeOK, Market!Requests, Market!Then
<1>3. QuotesHad' /\ RangesHad' /\ FailuresRecorded'
  BY DEF MarketInv, QuotesHad, RangesHad, Had, FailuresRecorded, Market!Requests,
         Market!Then
<1>4. InFlight'
  <2>1. ~late /\ late' = late /\ (limited <=> error = "limit") /\ limited' = limited
        /\ None # "limit"
    BY MarketAssumption DEF MarketInv, InFlight, Market!Errors
  <2>2. Market!Requests = {"markets", "candles", "quotes", "references", "ranges"}
    BY DEF Market!Requests, Market!Then
  <2>3. CASE UNCHANGED <<phase, at, error>>
    BY <2>3 DEF MarketInv, InFlight
  <2>4. CASE /\ phase' = phase /\ phase \in Market!Requests
             /\ error = "transport" /\ error' = None
    BY <2>1, <2>2, <2>4 DEF InFlight
  <2>5. CASE phase = "idle" /\ phase' = "markets" /\ error' = error
    BY <2>1, <2>5 DEF MarketInv, InFlight
  <2>6. CASE phase = "markets" /\ phase' = "candles" /\ error' = None
    BY <2>1, <2>6 DEF MarketInv, InFlight
  <2>7. CASE phase' = "raised" /\ error # None /\ error' = error
    BY <2>1, <2>7 DEF InFlight
  <2> QED
    BY <2>3, <2>4, <2>5, <2>6, <2>7
<1>5. ~limited' \/ Order[at'] \notin DOMAIN ranges'
  BY MarketAssumption DEF MarketInv, InFlight, Market!SilentAfterRateLimit, Market!Errors
<1> QED
  BY <1>2, <1>3, <1>4, <1>5, GoesOn

\* A request that fails, with a rate limit or otherwise, leaves no evidence.
LEMMA RequestFails ==
    ASSUME Market!TypeOK, MarketInv, Market!Fail
    PROVE  Market!TypeOK' /\ MarketInv'
<1>1. /\ phase \in Market!Requests /\ error = None /\ late' = (late \/ limited)
      /\ UNCHANGED <<clock, started, phase, at, attempt, candles, quotes, references,
                     ranges, failed, result>>
  BY DEF Market!Fail, Market!Ask, Market!place, Market!evidence
<1>2. PICK e \in Market!Errors : /\ e = "limit" => phase \in {"references", "ranges"}
                                 /\ error' = e
                                 /\ limited' = (limited \/ e = "limit")
  BY DEF Market!Fail
<1>3. ~limited
  BY <1>1, Unlimited
<1>4. ~late'
  BY <1>1, <1>3 DEF MarketInv, InFlight
<1>5. ~limited' \/ Order[at'] \notin DOMAIN ranges'
  <2>1. CASE e = "limit"
    <3>1. phase \in {"references", "ranges"}
      BY <1>2, <2>1
    <3> QED
      BY <1>1, <3>1, AtIsNew DEF MarketInv, RangesHad, Had
  <2>2. CASE e # "limit"
    BY <1>2, <1>3, <2>2
  <2> QED
    BY <2>1, <2>2
<1>6. phase \notin {"idle", "snapshot", "raised", "over"}
  BY <1>1 DEF Market!Requests, Market!Then
<1>7. Market!TypeOK'
  <2>1. error' \in Market!Errors /\ limited' \in BOOLEAN /\ late' \in BOOLEAN
    BY <1>1, <1>2 DEF Market!TypeOK
  <2> QED
    BY <1>1, <2>1 DEF Market!TypeOK
<1>8. QuotesHad' /\ RangesHad' /\ FailuresRecorded'
  BY <1>1 DEF MarketInv, QuotesHad, RangesHad, Had, FailuresRecorded
<1>9. InFlight'
  <2>1. limited' <=> error' = "limit"
    BY <1>2, <1>3
  <2>2. limited' => phase \in {"references", "ranges"}
    BY <1>2, <1>3
  <2> QED
    BY <1>1, <1>4, <1>6, <2>1, <2>2 DEF InFlight
<1> QED
  BY <1>1, <1>5, <1>6, <1>7, <1>8, <1>9, GoesOn

\* The end of a fetch before anything is admitted: deferred after a rate limit, and
\* only then.
LEMMA EndsWithout ==
    ASSUME Market!TypeOK, MarketInv, phase # "over",
           NEW r \in Market!Results \ {"admitted"}, Market!End(r),
           limited <=> r = "deferred",
           ~limited \/ Order[at] \notin DOMAIN ranges
    PROVE  Market!TypeOK' /\ MarketInv'
<1>1. /\ phase' = "over" /\ result' = r /\ r # None
      /\ UNCHANGED <<clock, started, at, attempt, error, candles, quotes, references,
                     ranges, limited, late, failed>>
  BY MarketAssumption DEF Market!End, Market!evidence, Market!history
<1>2. Market!TypeOK'
  BY <1>1 DEF Market!TypeOK
<1>3. QuotesHad' /\ RangesHad' /\ FailuresRecorded' /\ InFlight'
  BY <1>1 DEF MarketInv, QuotesHad, RangesHad, Had, FailuresRecorded, InFlight
<1> QED
  BY <1>1, <1>2, <1>3
     DEF MarketInv, InFlight, Market!SilentAfterRateLimit, Market!AdmittedIsCurrent,
         Market!FailsClosed, Market!Admitted

\* Candles, a ticker, or a reference price for the asset at hand.
LEMMA TakesEvidence ==
    ASSUME Market!TypeOK, MarketInv,
           Market!FetchCandles \/ Market!FetchTicker \/ Market!FetchReference
    PROVE  Market!TypeOK' /\ MarketInv'
<1>1. /\ phase \in {"candles", "quotes", "references"} /\ Market!Advance
      /\ error = None /\ late' = (late \/ limited)
      /\ UNCHANGED <<clock, started, ranges, limited, failed, result>>
  BY DEF Market!FetchCandles, Market!FetchTicker, Market!FetchReference, Market!Ask
<1>2. phase \in Market!Requests \ {"markets"}
  BY <1>1 DEF Market!Requests, Market!Then
<1>3. result = None
  BY <1>1, NotOver DEF MarketInv
<1>4. at \in 1 .. Len(Order) /\ Order[at] \in Market!Assets
  BY OrderFacts DEF Market!TypeOK
<1>5. /\ attempt' \in 0 .. MaxRetries /\ at' \in 1 .. Len(Order) /\ error' = None
      /\ phase' \in Market!Requests \cup {"snapshot"}
      /\ phase' = phase \/ (phase' = Market!Then[phase] /\ at' = 1)
  BY <1>1, <1>2, AdvanceFacts
<1>6. phase' # "over" /\ phase' # "snapshot" /\ phase' # "idle" /\ phase' # "markets"
  BY <1>1, <1>5 DEF Market!Requests, Market!Then
<1>7. ~limited' /\ ~late' /\ late' \in BOOLEAN /\ InFlight'
  <2>1. ~limited /\ ~late /\ error' # "limit"
    BY <1>1, <1>5, Unlimited, MarketAssumption DEF MarketInv, InFlight, Market!Errors
  <2> QED
    BY <1>1, <1>5, <1>6, <2>1 DEF InFlight, Market!Requests, Market!Then
<1>8. RangesHad' /\ FailuresRecorded'
  <2>1. 1 .. 1 - 1 = {}
    OBVIOUS
  <2> QED
    BY <1>1, <1>5, <1>6, <2>1
       DEF MarketInv, RangesHad, Had, FailuresRecorded, Market!Then
<1>9. CASE Market!FetchCandles
  <2>1. PICK c \in BOOLEAN : candles' = Market!With(candles, c)
    BY <1>9 DEF Market!FetchCandles
  <2>2. UNCHANGED <<quotes, references>> /\ phase = "candles"
    BY <1>9 DEF Market!FetchCandles, Market!Ask
  <2>3. /\ DOMAIN candles' \subseteq Market!Assets
        /\ \A a \in DOMAIN candles' : candles'[a] \in BOOLEAN
    <3>1. DOMAIN candles' = DOMAIN candles \cup {Order[at]}
      BY <2>1, WithFacts
    <3>2. \A a \in DOMAIN candles' : candles'[a] \in BOOLEAN
      BY <2>1, WithType DEF Market!TypeOK
    <3>3. DOMAIN candles \subseteq Market!Assets
      BY DEF Market!TypeOK
    <3> QED
      BY <1>4, <3>1, <3>2, <3>3
  <2>4. Market!TypeOK'
    BY <1>1, <1>3, <1>5, <1>6, <1>7, <2>2, <2>3 DEF Market!TypeOK
  <2>5. QuotesHad'
    <3>1. 1 .. 1 - 1 = {}
      OBVIOUS
    <3> QED
      BY <1>5, <2>2, <3>1 DEF MarketInv, QuotesHad, Had, Market!Then
  <2> QED
    BY <1>1, <1>8, <1>7, <2>4, <2>5, GoesOn
<1>10. CASE Market!FetchTicker
  <2>1. PICK t \in Market!Stamped : quotes' = Market!With(quotes, t)
    BY <1>10 DEF Market!FetchTicker
  <2>2. UNCHANGED <<candles, references>> /\ phase = "quotes"
    BY <1>10 DEF Market!FetchTicker, Market!Ask
  <2>3. t \in Int
    BY MarketAssumption DEF Market!Stamped, Market!TypeOK
  <2>4. /\ DOMAIN quotes' = DOMAIN quotes \cup {Order[at]}
        /\ \A a \in DOMAIN quotes' : quotes'[a] \in Int
    <3>1. DOMAIN quotes' = DOMAIN quotes \cup {Order[at]}
      BY <2>1, WithFacts
    <3>2. \A a \in DOMAIN quotes' : quotes'[a] \in Int
      BY <2>1, <2>3, WithType DEF Market!TypeOK
    <3> QED
      BY <3>1, <3>2
  <2>5. Market!TypeOK'
    BY <1>1, <1>3, <1>4, <1>5, <1>6, <1>7, <2>2, <2>4 DEF Market!TypeOK
  <2>6. QuotesHad'
    <3>1. DOMAIN quotes = {Order[i] : i \in 1 .. at - 1}
      BY <2>2 DEF MarketInv, QuotesHad, Had
    <3>2. /\ phase' = phase => DOMAIN quotes' = {Order[i] : i \in 1 .. at' - 1}
          /\ phase' # phase => phase' = "references" /\ DOMAIN quotes' = Market!Assets
      BY <1>1, <1>2, <2>2, <2>4, <3>1, HadOneMore DEF Market!Then
    <3> QED
      BY <2>2, <3>2 DEF QuotesHad, Had
  <2> QED
    BY <1>1, <1>8, <1>7, <2>5, <2>6, GoesOn
<1>11. CASE Market!FetchReference
  <2>1. PICK r : references' = Market!With(references, r)
    BY <1>11 DEF Market!FetchReference
  <2>2. UNCHANGED <<candles, quotes>> /\ phase = "references"
    BY <1>11 DEF Market!FetchReference, Market!Ask
  <2>3. DOMAIN references' \subseteq Market!Assets
    <3>1. DOMAIN references' = DOMAIN references \cup {Order[at]}
      BY <2>1, WithFacts
    <3>2. DOMAIN references \subseteq Market!Assets
      BY DEF Market!TypeOK
    <3> QED
      BY <1>4, <3>1, <3>2
  <2>4. Market!TypeOK'
    BY <1>1, <1>3, <1>5, <1>6, <1>7, <2>2, <2>3 DEF Market!TypeOK
  <2>5. QuotesHad'
    BY <1>5, <2>2 DEF MarketInv, QuotesHad, Had, Market!Then
  <2> QED
    BY <1>1, <1>8, <1>7, <2>4, <2>5, GoesOn
<1> QED
  BY <1>9, <1>10, <1>11

\* The rules of one asset, or the failure to get them.
LEMMA TakesRules ==
    ASSUME Market!TypeOK, MarketInv, Market!FetchRules \/ Market!RulesUnavailable
    PROVE  Market!TypeOK' /\ MarketInv'
<1>1. /\ phase = "ranges" /\ Market!Advance /\ ~limited /\ ~late' /\ late' \in BOOLEAN
      /\ UNCHANGED <<clock, started, candles, quotes, references, limited, result>>
  <2>1. CASE Market!FetchRules
    BY <2>1, Unlimited DEF Market!FetchRules, Market!Ask, Market!TypeOK, MarketInv,
              InFlight
  <2>2. CASE Market!RulesUnavailable
    BY <2>2 DEF Market!RulesUnavailable, Market!RecordUnavailable, Market!TypeOK,
                MarketInv, InFlight
  <2> QED
    BY <2>1, <2>2
<1>2. PICK r : /\ r.status \in Market!Statuses
               /\ ranges' = Market!With(ranges, r)
               /\ \/ failed' = failed
                  \/ /\ r.status \in Market!Unavailable
                     /\ failed' = failed \cup {Order[at]}
  <2>1. CASE Market!FetchRules
    <3>1. PICK s \in Market!Statuses \ {"TRANSPORT_FAILURE"},
               t \in Market!Stamped \cup {None} :
            /\ ranges' = Market!With(ranges, [status |-> s, time |-> t,
                                              received |-> clock])
            /\ failed' = IF s \in Market!Unavailable THEN failed \cup {Order[at]}
                                                     ELSE failed
      BY <2>1 DEF Market!FetchRules
    <3> WITNESS [status |-> s, time |-> t, received |-> clock]
    <3> QED
      BY <3>1
  <2>2. CASE Market!RulesUnavailable
    <3> WITNESS [status |-> "TRANSPORT_FAILURE", time |-> None, received |-> clock]
    <3> QED
      BY <2>2 DEF Market!RulesUnavailable, Market!RecordUnavailable,
               Market!Statuses, Market!Unavailable
  <2> QED
    BY <2>1, <2>2
<1>3. phase \in Market!Requests \ {"markets"}
  BY <1>1 DEF Market!Requests, Market!Then
<1>4. result = None
  BY <1>1, NotOver DEF MarketInv
<1>5. /\ attempt' \in 0 .. MaxRetries /\ at' \in 1 .. Len(Order) /\ error' = None
      /\ phase' \in {"ranges", "snapshot"}
  BY <1>1, <1>3, AdvanceFacts DEF Market!Then
<1>6. DOMAIN ranges = {Order[i] : i \in 1 .. at - 1}
  BY <1>1 DEF MarketInv, RangesHad, Had
<1>7. /\ Order[at] \in Market!Assets /\ Order[at] \notin DOMAIN ranges
      /\ phase' = "ranges" =>
            DOMAIN ranges \cup {Order[at]} = {Order[i] : i \in 1 .. at' - 1}
      /\ phase' = "snapshot" => DOMAIN ranges \cup {Order[at]} = Market!Assets
  BY <1>1, <1>3, <1>6, HadOneMore
<1>8. /\ DOMAIN ranges' = DOMAIN ranges \cup {Order[at]}
      /\ ranges'[Order[at]] = r
      /\ \A a \in DOMAIN ranges \ {Order[at]} : ranges'[a] = ranges[a]
  <2>1. ranges' = Market!With(ranges, r)
    BY <1>2
  <2> QED
    BY <2>1 DEF Market!With
<1>9. \A a \in DOMAIN ranges' : ranges'[a].status \in Market!Statuses
  BY <1>2, <1>8 DEF Market!TypeOK
<1>10. failed' \subseteq Market!Assets /\ DOMAIN ranges' \subseteq Market!Assets
  BY <1>2, <1>7, <1>8 DEF Market!TypeOK
<1>11. Market!TypeOK'
  <2>1. /\ phase' \in Market!Requests \cup {"idle", "snapshot", "over"}
        /\ phase' # "over"
    BY <1>5 DEF Market!Requests, Market!Then
  <2> QED
    BY <1>1, <1>4, <1>5, <1>9, <1>10, <2>1 DEF Market!TypeOK
<1>12. RangesHad'
  BY <1>5, <1>7, <1>8 DEF RangesHad, Had
<1>13. QuotesHad'
  BY <1>1, <1>5 DEF MarketInv, QuotesHad, Had
<1>14. FailuresRecorded'
  BY <1>2, <1>7, <1>8 DEF MarketInv, FailuresRecorded
<1>15. InFlight'
  <2>1. error' # "limit"
    BY <1>5, MarketAssumption DEF Market!Errors
  <2> QED
    BY <1>1, <1>5, <2>1 DEF InFlight
<1> QED
  BY <1>1, <1>11, <1>12, <1>13, <1>14, <1>15, GoesOn

\* The verdict: what it admits is complete and of the instant it is admitted at.
LEMMA VerdictInv ==
    ASSUME Market!TypeOK, MarketInv, Market!Verdict
    PROVE  Market!TypeOK' /\ MarketInv'
<1>1. phase = "snapshot" /\ error = None /\ ~limited
  BY Unlimited DEF Market!Verdict, MarketInv, InFlight
<1>2. CASE Market!End("missed") \/ Market!End("data_halt")
  <2>1. PICK r \in {"missed", "data_halt"} : Market!End(r)
    BY <1>2
  <2>2. r \in Market!Results \ {"admitted"} /\ r # "deferred"
    BY DEF Market!Results
  <2> QED
    BY <1>1, <2>1, <2>2, EndsWithout
<1>3. CASE /\ Market!RangesValid /\ Market!CandlesValid /\ Market!QuotesValid
           /\ Market!ReferencesValid /\ Market!End("admitted")
  <2>1. /\ phase' = "over" /\ result' = "admitted"
        /\ UNCHANGED <<clock, started, at, attempt, error, candles, quotes, references,
                       ranges, limited, late, failed>>
    BY <1>3 DEF Market!End, Market!evidence, Market!history
  <2>2. "admitted" \in Market!Results /\ "admitted" # None
    BY MarketAssumption DEF Market!Results
  <2>3. Market!TypeOK'
    BY <1>1, <2>1, <2>2 DEF Market!TypeOK
  <2>4. DOMAIN ranges = Market!Assets /\ DOMAIN quotes = Market!Assets
    BY <1>1 DEF MarketInv, RangesHad, QuotesHad, Had
  <2>5. failed = {}
    BY <1>3, <2>4 DEF MarketInv, FailuresRecorded, Market!RangesValid
  <2>6. ~limited' /\ InFlight'
    BY <1>1, <2>1 DEF MarketInv, InFlight
  <2>7. Market!Day(started) = Market!Day(clock)
    BY <1>3 DEF Market!CandlesValid
  <2>8. ASSUME NEW a \in Market!Assets
        PROVE  /\ clock - quotes[a] \in 0 .. MaxAge
               /\ references[a] # None => clock - references[a].time <= MaxAge
               /\ ranges[a].time # None => clock - ranges[a].time <= MaxAge
    <3>1. clock - quotes[a] \in 0 .. MaxAge
      <4>1. clock \in Int /\ quotes[a] \in Int
        BY <2>4, MarketAssumption DEF Market!TypeOK
      <4> QED
        BY <1>3, <4>1, MarketAssumption DEF Market!QuotesValid
    <3>2. references[a] # None => clock - references[a].time <= MaxAge
      BY <1>3 DEF Market!ReferencesValid, Market!ReferenceFresh
    <3>3. ranges[a].time # None => clock - ranges[a].time <= MaxAge
      BY <1>3 DEF Market!RangesValid, Market!RangeFresh
    <3> QED
      BY <3>1, <3>2, <3>3
  <2>9. Market!AdmittedIsCurrent'
    BY <1>1, <2>1, <2>4, <2>5, <2>7, <2>8
       DEF Market!AdmittedIsCurrent, Market!FailsClosed, Market!Day
  <2>10. QuotesHad' /\ RangesHad' /\ FailuresRecorded' /\ Market!SilentAfterRateLimit'
    BY <1>1, <2>1, <2>5, <2>6
       DEF QuotesHad, RangesHad, Had, FailuresRecorded, Market!SilentAfterRateLimit
  <2> QED
    BY <2>3, <2>6, <2>9, <2>10 DEF MarketInv
<1> QED
  BY <1>2, <1>3 DEF Market!Verdict

LEMMA MarketNextInv ==
    ASSUME Market!TypeOK, MarketInv, [Market!Next]_marketVars
    PROVE  Market!TypeOK' /\ MarketInv'
<1> USE DEF Market!place, Market!evidence, Market!history
<1>1. CASE Market!Tick
  BY <1>1, MarketAssumption, TakesNothing DEF Market!Tick, Market!TypeOK
<1>2. CASE Market!Begin
  BY <1>2, TakesNothing DEF Market!Begin, Market!TypeOK
<1>3. CASE Market!LoadMarkets
  <2>1. /\ phase = "markets" /\ phase \in Market!Requests /\ Market!Advance
        /\ error = None /\ late' = (late \/ limited)
    BY <1>3 DEF Market!LoadMarkets, Market!Ask, Market!Requests, Market!Then
  <2>2. /\ phase' = "candles" /\ at' \in 1 .. Len(Order) /\ attempt' \in 0 .. MaxRetries
        /\ error' = None
    BY <2>1, AdvanceFacts DEF Market!Then
  <2>3. late' = late
    BY <2>1, Unlimited DEF Market!TypeOK
  <2> QED
    BY <1>3, <2>1, <2>2, <2>3, TakesNothing DEF Market!LoadMarkets, Market!TypeOK
<1>4. CASE Market!Retry
  <2>1. phase # "over"
    BY <1>4 DEF Market!Retry, Market!Requests, Market!Then
  <2> QED
    BY <1>4, <2>1, MarketAssumption, TakesNothing DEF Market!Retry, Market!TypeOK
<1>5. CASE Market!FetchCandles \/ Market!FetchTicker \/ Market!FetchReference
  BY <1>5, TakesEvidence
<1>6. CASE Market!FetchRules \/ Market!RulesUnavailable
  BY <1>6, TakesRules
<1>7. CASE Market!Fail
  BY <1>7, RequestFails
<1>8. CASE Market!Escape
  <2>1. phase # "over"
    BY <1>8 DEF Market!Escape, Market!Requests, Market!Then
  <2> QED
    BY <1>8, <2>1, TakesNothing DEF Market!Escape, Market!Raised, Market!TypeOK
<1>9. CASE Market!FetchFails
  <2>1. phase = "raised" /\ error \in Market!Errors
    BY <1>9 DEF Market!FetchFails, Market!TypeOK, MarketInv, InFlight
  <2>2. PICK r \in {"transient", "deferred", "terminal"} :
           Market!End(r) /\ (r = "deferred" <=> error = "limit")
    BY <1>9, <2>1 DEF Market!FetchFails, Market!Errors
  <2>3. r \in Market!Results \ {"admitted"}
    BY DEF Market!Results
  <2>4. /\ limited <=> r = "deferred"
        /\ ~limited \/ Order[at] \notin DOMAIN ranges
    BY <2>2 DEF MarketInv, InFlight, Market!SilentAfterRateLimit
  <2> QED
    BY <2>1, <2>2, <2>3, <2>4, EndsWithout
<1>10. CASE Market!Verdict
  BY <1>10, VerdictInv
<1>11. CASE UNCHANGED marketVars
  BY <1>11 DEF marketVars, Market!TypeOK, MarketInv, QuotesHad, RangesHad, Had,
               FailuresRecorded, InFlight, Market!SilentAfterRateLimit,
               Market!AdmittedIsCurrent, Market!FailsClosed, Market!Admitted, Market!Day
<1> QED
  BY <1>1, <1>2, <1>3, <1>4, <1>5, <1>6, <1>7, <1>8, <1>10, <1>11, <1>9 DEF Market!Next

\* The fetch's invariant holds in every reachable state.
THEOREM MarketInvariance == OpsSpec => [](Market!TypeOK /\ MarketInv)
<1>1. OpsInit => Market!TypeOK /\ MarketInv
  BY MarketInitInv DEF OpsInit
<1>2. Market!TypeOK /\ MarketInv /\ [OpsNext]_opsVars => (Market!TypeOK /\ MarketInv)'
  BY MarketNextInv, Composed
<1> QED
  BY <1>1, <1>2, PTL DEF OpsSpec

\* After a rate limit of the direct endpoints the fetch is over and says so, and
\* it says so after nothing else.
THEOREM RateLimitSilences == OpsSpec => []SilentAfterRateLimit
<1>1. MarketInv => SilentAfterRateLimit
  BY DEF MarketInv, SilentAfterRateLimit
<1> QED
  BY <1>1, MarketInvariance, PTL

\* However long the requests took, however often they were retried and whichever
\* of them failed: what is admitted was had for every asset, is of the day of the
\* admission and no older than the limit.
THEOREM Current == OpsSpec => []AdmittedIsCurrent
<1>1. MarketInv => AdmittedIsCurrent
  BY DEF MarketInv, AdmittedIsCurrent
<1> QED
  BY <1>1, MarketInvariance, PTL

-----------------------------------------------------------------------------
(* The backups *)

\* BackupRestoreProofs, of the backups of this module.
Proved == INSTANCE BackupRestoreProofs WITH pc <- backupPc

LEMMA SameArchive ==
    /\ \A b : Proved!Archive(b) = Backup!Archive(b)
    /\ \A a : Proved!Verified(a) <=> Backup!Verified(a)
BY DEF Backup!Archive, Proved!Archive, Backup!Manifest, Proved!Manifest,
    Backup!Verified, Proved!Verified, Backup!Parts, Proved!Parts, Backup!GitFiles,
    Proved!GitFiles

LEMMA SameSurroundings == Backup!Surroundings => Proved!Surroundings
BY DEF Backup!Surroundings, Proved!Surroundings, Backup!WriterTakes, Proved!WriterTakes,
    Backup!WriteDatabase, Proved!WriteDatabase, Backup!WriteReports,
    Proved!WriteReports, Backup!WriterReleases, Proved!WriterReleases,
    Backup!BeginCheckout, Proved!BeginCheckout, Backup!CheckoutFile,
    Proved!CheckoutFile, Backup!EndCheckout, Proved!EndCheckout, Backup!Damage,
    Proved!Damage, Backup!Databases, Proved!Databases, Backup!source, Proved!source,
    Backup!shelf, Proved!shelf, Backup!locals, Proved!locals, Backup!GitFiles,
    Proved!GitFiles, Backup!Parts, Proved!Parts, Backup!Releases, Proved!Releases

LEMMA SameBackup ==
    ASSUME NEW b \in Backups, Backup!BackupStep(b) \/ \E n \in Names : Backup!Request(b, n)
    PROVE  Proved!BackupStep(b) \/ \E n \in Names : Proved!Request(b, n)
<1> USE DEF Backup!source, Proved!source, Backup!shelf, Proved!shelf, Backup!locals,
    Proved!locals, Backup!Goto, Proved!Goto, Backup!Taken, Proved!Taken
<1>1. CASE \E n \in Names : Backup!Request(b, n)
  BY <1>1 DEF Backup!Request, Proved!Request
<1>2. CASE Backup!Acquire(b)
  BY <1>2 DEF Backup!Acquire, Proved!Acquire, Proved!BackupStep
<1>3. CASE Backup!ReadCommit(b)
  BY <1>3 DEF Backup!ReadCommit, Proved!ReadCommit, Proved!BackupStep
<1>4. CASE Backup!ReadStatus(b)
  BY <1>4 DEF Backup!ReadStatus, Proved!ReadStatus, Backup!GitFiles, Proved!GitFiles, Proved!BackupStep
<1>5. CASE Backup!VerifyHardening(b)
  BY <1>5 DEF Backup!VerifyHardening, Proved!VerifyHardening, Proved!BackupStep
<1>6. CASE Backup!RecheckAuthority(b)
  BY <1>6 DEF Backup!RecheckAuthority, Proved!RecheckAuthority, Proved!BackupStep
<1>7. CASE Backup!Copy(b)
  BY <1>7 DEF Backup!Copy, Proved!Copy, Backup!Parts, Proved!Parts, Backup!GitFiles,
    Proved!GitFiles, Backup!Contents, Proved!Contents, Proved!BackupStep
<1>8. CASE Backup!Seal(b)
  BY <1>8, SameArchive DEF Backup!Seal, Proved!Seal, Proved!BackupStep
<1>9. CASE Backup!Publish(b)
  BY <1>9, SameArchive DEF Backup!Publish, Proved!Publish, Backup!NoProv, Proved!NoProv, Proved!BackupStep
<1>10. CASE Backup!Abandon(b)
  BY <1>10 DEF Backup!Abandon, Proved!Abandon, Backup!NoProv, Proved!NoProv, Proved!BackupStep
<1> QED
  BY <1>1, <1>2, <1>3, <1>4, <1>5, <1>6, <1>7, <1>8, <1>9, <1>10 DEF Backup!BackupStep

LEMMA SameSpecification == OpsSpec => Proved!Spec
<1>1. OpsInit => Proved!Init
  BY DEF OpsInit, Backup!Init, Proved!Init, Backup!NoProv, Proved!NoProv, Backup!GitFiles,
             Proved!GitFiles
<1>2. [OpsNext]_opsVars => [Proved!Next]_(Proved!vars)
  <2> SUFFICES ASSUME [Backup!Next]_backupVars
               PROVE  [Proved!Next]_(Proved!vars)
    BY Composed
  <2>1. CASE Backup!Next
    BY <2>1, SameSurroundings, SameBackup DEF Backup!Next, Proved!Next
  <2>2. CASE UNCHANGED backupVars
    BY <2>2 DEF backupVars, Proved!vars, Proved!source, Proved!shelf, Proved!locals
  <2> QED
    BY <2>1, <2>2
<1> QED
  BY <1>1, <1>2, PTL DEF OpsSpec, Proved!Spec

LEMMA HoldersDistinct == Proved!Distinct
BY BackupAssumption DEF Proved!Distinct

\* No writer comes between the copies of the database and of the reports.
THEOREM BackupCut == OpsSpec => []ArchiveIsACut
<1>1. Proved!ArchiveIsACut => ArchiveIsACut
  BY DEF ArchiveIsACut, Backup!ArchiveIsACut, Proved!ArchiveIsACut
<1> QED
  BY <1>1, SameSpecification, HoldersDistinct, Proved!Cut, PTL

\* A backup states the authority of its own database and the hash of its own
\* hardening manifest.
THEOREM BackupIdentity == OpsSpec => []IdentityIsArchived
<1>1. Proved!IdentityIsArchived => IdentityIsArchived
  BY DEF IdentityIsArchived, Backup!IdentityIsArchived, Proved!IdentityIsArchived
<1> QED
  BY <1>1, SameSpecification, HoldersDistinct, Proved!Identity, PTL

LEMMA BackupTypes == OpsSpec => []Backup!TypeOK
<1>1. Proved!TypeOK => Backup!TypeOK
  BY DEF Backup!TypeOK, Proved!TypeOK, Backup!Databases, Proved!Databases,
    Backup!Releases, Proved!Releases, Backup!GitFiles, Proved!GitFiles, Backup!Parts,
    Proved!Parts
<1> QED
  BY <1>1, SameSpecification, HoldersDistinct, Proved!TypeCorrect, PTL

-----------------------------------------------------------------------------
(* The schedule *)

\* Where in the day a window opens, and how long it is, in half minutes.
Offset == 2 * (60 * plan.hour + plan.minute)
Length == 2 * plan.window

\* The key of main() is the window of a day since the registration, and has opened.
KeyInv ==
    key # None =>
        \E n \in Int :
            /\ start \div 2880 <= n /\ n % 7 = plan.weekday
            /\ key = 2880 * n + Offset /\ key <= now
            /\ deadline = key + Length

ScheduleInv ==
    /\ Schedule!Accepted(plan)
    /\ start <= now
    /\ KeyInv

\* The window of one hour, minute and length, in half minutes.
LEMMA HalfMinutes ==
    ASSUME NEW h \in 0 .. 23, NEW m \in 0 .. 59, NEW w \in 1 .. 60,
           60 * h + m + w < 1440
    PROVE  /\ 2 * (60 * h + m) \in Int /\ 2 * w \in Int
           /\ 0 <= 2 * (60 * h + m) /\ 2 <= 2 * w
           /\ 2 * (60 * h + m) + 2 * w < 2880
OBVIOUS

\* A number is so many weeks and a day of the week.
LEMMA WeeksAndDay ==
    ASSUME NEW q \in Int
    PROVE  q % 7 \in 0 .. 6 /\ q \div 7 \in Int /\ q % 7 = q - 7 * (q \div 7)
<1>1. q % 7 \in 0 .. 6
  OBVIOUS
<1>2. q \div 7 \in Int
  OBVIOUS
<1>3. q % 7 = q - 7 * (q \div 7)
  OBVIOUS
<1> QED
  BY <1>1, <1>2, <1>3

LEMMA SameDayBack ==
    ASSUME NEW q \in Int, NEW d \in Int, NEW v \in 0 .. 6, NEW w \in 0 .. 6,
           NEW b \in 0 .. 6, v = q - 7 * d, b = v - w \/ b = v - w + 7
    PROVE  q - b = 7 * d + w \/ q - b = 7 * (d - 1) + w
OBVIOUS

LEMMA DayOfWeek ==
    ASSUME NEW k \in Int, NEW w \in 0 .. 6
    PROVE  (7 * k + w) % 7 = w
OBVIOUS

\* The way back from one day of the week to another.
LEMMA DaysBack ==
    ASSUME NEW v \in 0 .. 6, NEW w \in 0 .. 6
    PROVE  /\ (v - w) % 7 \in 0 .. 6
           /\ (v - w) % 7 = v - w \/ (v - w) % 7 = v - w + 7
OBVIOUS

\* A schedule that is accepted opens and closes its window within a day.
LEMMA WindowInDay ==
    ASSUME plan \in Plans, Schedule!Accepted(plan)
    PROVE  /\ Offset \in Int /\ Length \in Int
           /\ 0 <= Offset /\ 2 <= Length /\ Offset + Length < 2880
           /\ plan.weekday \in 0 .. 6
           /\ 2 * Schedule!TargetOffset(plan.minute, plan.target) \in 0 .. Length
<1>1. /\ {plan.weekday, plan.hour, plan.minute, plan.target, plan.window} \subseteq Int
      /\ 60 * plan.hour + plan.minute + plan.window < 1440
  BY ScheduleAssumption
<1> DEFINE off == Schedule!TargetOffset(plan.minute, plan.target)
<1>2. /\ plan.weekday \in 0 .. 6 /\ plan.hour \in 0 .. 23
      /\ plan.minute \in 0 .. 59 /\ plan.window \in 1 .. 60
      /\ off <= plan.window
  BY DEF Schedule!Accepted
<1>3. off \in 0 .. 59
  BY <1>1 DEF Schedule!TargetOffset
<1> HIDE DEF off
<1>4. 2 * off \in 0 .. Length
  BY <1>1, <1>2, <1>3 DEF Length
<1>5. /\ Offset \in Int /\ Length \in Int
      /\ 0 <= Offset /\ 2 <= Length /\ Offset + Length < 2880
  <2> DEFINE h == plan.hour
             m == plan.minute
             w == plan.window
  <2>1. h \in 0 .. 23 /\ m \in 0 .. 59 /\ w \in 1 .. 60 /\ 60 * h + m + w < 1440
    BY <1>1, <1>2
  <2>2. Offset = 2 * (60 * h + m) /\ Length = 2 * w
    BY DEF Offset, Length
  <2> HIDE DEF h, m, w
  <2> QED
    BY <2>1, <2>2, HalfMinutes
<1> QED
  BY <1>2, <1>4, <1>5 DEF off

\* The day an instant is in.
LEMMA DayFacts ==
    ASSUME NEW t \in Int
    PROVE  /\ t \div 2880 \in Int
           /\ 2880 * (t \div 2880) <= t /\ t < 2880 * (t \div 2880) + 2880
           /\ Schedule!Normalized(t) = 2880 * (t \div 2880)
           /\ Schedule!Weekday(t) = (t \div 2880) % 7
           /\ Schedule!Opens(t) = 2880 * (t \div 2880) + Offset
           /\ Schedule!Closes(t) = 2880 * (t \div 2880) + Offset + Length
BY DEF Schedule!Normalized, Schedule!Weekday, Schedule!Day, Schedule!Opens,
       Schedule!Closes, Offset, Length

LEMMA SameDay ==
    ASSUME NEW n \in Int, NEW t \in Int, 2880 * n <= t, t < 2880 * n + 2880
    PROVE  t \div 2880 = n
OBVIOUS

\* What the broker, the runner and the audit say of the day n.
LEMMA ScheduledKeyOfDay ==
    ASSUME plan \in Plans, Schedule!Accepted(plan), NEW t \in Int, NEW n \in Int,
           n % 7 = plan.weekday
    PROVE  Schedule!ScheduledKey(t) = 2880 * n + Offset
             <=> 2880 * n + Offset <= t /\ t <= 2880 * n + Offset + Length
<1> DEFINE q == t \div 2880
<1>1. /\ q \in Int /\ 2880 * q <= t /\ t < 2880 * q + 2880
      /\ Schedule!Weekday(t) = q % 7 /\ Schedule!Opens(t) = 2880 * q + Offset
      /\ Schedule!Closes(t) = 2880 * q + Offset + Length
  BY DayFacts
<1>2. Offset \in Int /\ Length \in Int /\ 0 <= Offset /\ Offset + Length < 2880
  BY WindowInDay
<1> HIDE DEF q
<1>3. CASE q % 7 = plan.weekday /\ 2880 * q + Offset <= t /\ t <= 2880 * q + Offset + Length
  <2>1. Schedule!ScheduledKey(t) = 2880 * q + Offset
    BY <1>1, <1>3 DEF Schedule!ScheduledKey
  <2> QED
    BY <1>1, <1>2, <1>3, <2>1
<1>4. CASE ~(q % 7 = plan.weekday /\ 2880 * q + Offset <= t /\ t <= 2880 * q + Offset + Length)
  <2>1. Schedule!ScheduledKey(t) = None
    BY <1>1, <1>4 DEF Schedule!ScheduledKey
  <2>2. 2880 * n + Offset \in Int
    BY <1>2
  <2>3. Schedule!ScheduledKey(t) # 2880 * n + Offset
    BY <2>1, <2>2, ScheduleAssumption
  <2>4. ASSUME 2880 * n + Offset <= t, t <= 2880 * n + Offset + Length
        PROVE  FALSE
    <3>1. n = q
      BY <1>1, <1>2, <2>4
    <3> QED
      BY <1>4, <2>4, <3>1
  <2> QED
    BY <2>3, <2>4
<1> QED
  BY <1>3, <1>4

LEMMA MissedDays ==
    ASSUME plan \in Plans, Schedule!Accepted(plan), NEW from \in Int, NEW t \in Int,
           NEW n \in Int
    PROVE  2880 * n + Offset \in Schedule!ScheduledMondays(from, t)
             <=> /\ from \div 2880 <= n /\ n % 7 = plan.weekday
                 /\ 2880 * n + Offset + Length < t
<1> DEFINE f == from \div 2880
<1>1. f \in Int /\ Schedule!Normalized(from) = 2880 * f
  BY DayFacts
<1>2. Offset \in Int /\ Length \in Int /\ 0 <= Offset /\ 0 <= Length
  BY WindowInDay
<1> HIDE DEF f
<1>3. \A m \in Int : /\ Schedule!Weekday(2880 * m) = m % 7
                     /\ Schedule!Opens(2880 * m) = 2880 * m + Offset
                     /\ Schedule!Closes(2880 * m) = 2880 * m + Offset + Length
  <2> TAKE m \in Int
  <2>1. 2880 * m \in Int /\ (2880 * m) \div 2880 = m
    OBVIOUS
  <2> QED
    BY <2>1, DayFacts
<1>4. ASSUME 2880 * n + Offset \in Schedule!ScheduledMondays(from, t)
      PROVE  f <= n /\ n % 7 = plan.weekday /\ 2880 * n + Offset + Length < t
  <2>1. PICK i \in 0 .. (t - 2880 * f) \div 2880 :
          /\ Schedule!Weekday(2880 * f + i * 2880) = plan.weekday
          /\ t > Schedule!Closes(2880 * f + i * 2880)
          /\ 2880 * n + Offset = Schedule!Opens(2880 * f + i * 2880)
    BY <1>1, <1>4 DEF Schedule!ScheduledMondays, Schedule!Day
  <2>2. i \in Int /\ 0 <= i /\ 2880 * f + i * 2880 = 2880 * (f + i) /\ f + i \in Int
    BY <1>1
  <2>3. 2880 * n + Offset = 2880 * (f + i) + Offset
    BY <1>3, <2>1, <2>2
  <2>4. n = f + i
    BY <1>1, <1>2, <2>2, <2>3
  <2> QED
    BY <1>1, <1>2, <1>3, <2>1, <2>2, <2>4
<1>5. ASSUME f <= n, n % 7 = plan.weekday, 2880 * n + Offset + Length < t
      PROVE  2880 * n + Offset \in Schedule!ScheduledMondays(from, t)
  <2>1. n - f \in 0 .. (t - 2880 * f) \div 2880 /\ 2880 * f + (n - f) * 2880 = 2880 * n
    BY <1>1, <1>2, <1>5
  <2>2. /\ Schedule!Weekday(2880 * n) = plan.weekday
        /\ t > Schedule!Closes(2880 * n)
        /\ Schedule!Opens(2880 * n) = 2880 * n + Offset
    BY <1>2, <1>3, <1>5
  <2> DEFINE days == {d \in {2880 * f + i * 2880 : i \in 0 .. (t - 2880 * f) \div 2880} :
                         Schedule!Weekday(d) = plan.weekday}
  <2>3. 2880 * n \in {e \in days : t > Schedule!Closes(e)}
    BY <2>1, <2>2
  <2>4. 2880 * n + Offset \in {Schedule!Opens(d) : d \in {e \in days : t > Schedule!Closes(e)}}
    BY <2>2, <2>3
  <2> QED
    BY <1>1, <2>4 DEF Schedule!ScheduledMondays, Schedule!Day
<1> QED
  BY <1>4, <1>5 DEF f

\* The latest key is the window of the last day of the schedule that has opened.
LEMMA LatestKeyOfDay ==
    ASSUME plan \in Plans, Schedule!Accepted(plan), NEW t \in Int, NEW n \in Int,
           n % 7 = plan.weekday
    PROVE  Schedule!LatestKey(t) = 2880 * n + Offset
             <=> 2880 * n + Offset <= t /\ t < 2880 * (n + 7) + Offset
<1> DEFINE q == t \div 2880
           b == ((q % 7) - plan.weekday) % 7
<1>1. /\ q \in Int /\ 2880 * q <= t /\ t < 2880 * q + 2880
      /\ Schedule!Weekday(t) = q % 7 /\ Schedule!Normalized(t) = 2880 * q
  BY DayFacts
<1>2. /\ Offset \in Int /\ 0 <= Offset /\ Offset < 2880 /\ plan.weekday \in 0 .. 6
  BY WindowInDay
<1> HIDE DEF q
<1>3. b \in 0 .. 6 /\ (q - b) % 7 = plan.weekday /\ q - b \in Int
  <2> DEFINE d == q \div 7
             v == q % 7
  <2>1. v \in 0 .. 6 /\ d \in Int /\ v = q - 7 * d
    BY <1>1, WeeksAndDay
  <2>2. b \in 0 .. 6 /\ (b = v - plan.weekday \/ b = v - plan.weekday + 7)
    BY <1>2, <2>1, DaysBack
  <2> HIDE DEF b, d, v
  <2>3. q - b = 7 * d + plan.weekday \/ q - b = 7 * (d - 1) + plan.weekday
    BY <1>1, <1>2, <2>1, <2>2, SameDayBack
  <2>4. d \in Int /\ d - 1 \in Int /\ q - b \in Int
    BY <1>1, <2>1, <2>2
  <2>5. (q - b) % 7 = plan.weekday
    BY <1>2, <2>3, <2>4, DayOfWeek
  <2> QED
    BY <2>2, <2>4, <2>5
<1> HIDE DEF b
<1>4. \A m \in Int : Schedule!Opens(2880 * m) = 2880 * m + Offset
  <2> TAKE m \in Int
  <2>1. 2880 * m \in Int /\ (2880 * m) \div 2880 = m
    OBVIOUS
  <2> QED
    BY <2>1, DayFacts
<1>5. Schedule!LatestKey(t) =
        IF 2880 * (q - b) + Offset > t THEN 2880 * (q - b - 7) + Offset
                                       ELSE 2880 * (q - b) + Offset
  <2>1. Schedule!Day = 2880 /\ Schedule!Week = 20160
    BY DEF Schedule!Day, Schedule!Week
  <2>2. /\ 2880 * q - 2880 * b = 2880 * (q - b)
        /\ 2880 * (q - b) - 20160 = 2880 * (q - b - 7)
        /\ q - b - 7 \in Int
    BY <1>1, <1>3
  <2>3. Schedule!LatestKey(t) =
          IF Schedule!Opens(2880 * (q - b)) > t THEN Schedule!Opens(2880 * (q - b - 7))
                                                ELSE Schedule!Opens(2880 * (q - b))
    BY <1>1, <2>1, <2>2 DEF Schedule!LatestKey, b
  <2> QED
    BY <1>3, <1>4, <2>2, <2>3
<1>6. ASSUME NEW m \in Int, m % 7 = plan.weekday,
             2880 * m + Offset <= t, t < 2880 * (m + 7) + Offset
      PROVE  2880 * m + Offset = 2880 * n + Offset
               <=> 2880 * n + Offset <= t /\ t < 2880 * (n + 7) + Offset
  BY <1>2, <1>6
<1>7. CASE 2880 * (q - b) + Offset > t
  BY <1>1, <1>2, <1>3, <1>5, <1>6, <1>7
<1>8. CASE ~(2880 * (q - b) + Offset > t)
  BY <1>1, <1>2, <1>3, <1>5, <1>6, <1>8
<1> QED
  BY <1>7, <1>8

\* All five routines tell the same windows.
LEMMA Agreement ==
    ASSUME plan \in Plans, Schedule!Accepted(plan), start \in Int, now \in Int
    PROVE  Schedule!RoutinesAgree
<1>1. /\ Offset \in Int /\ Length \in Int
      /\ 0 <= Offset /\ 2 <= Length /\ Offset + Length < 2880
      /\ plan.weekday \in 0 .. 6
      /\ 2 * Schedule!TargetOffset(plan.minute, plan.target) \in 0 .. Length
  BY WindowInDay
<1>2. ASSUME NEW i \in Int
      PROVE  LET opens == Schedule!WindowOpens(i)
             IN  /\ Schedule!ScheduledKey(now) = opens
                       <=> opens <= now /\ now <= Schedule!WindowCloses(i)
                 /\ Schedule!LatestKey(now) = opens
                       <=> opens <= now /\ now < Schedule!WindowOpens(i + 1)
                 /\ opens \in Schedule!ScheduledMondays(start, now)
                       <=> Schedule!Normalized(start) <= opens
                             /\ Schedule!WindowCloses(i) < now
                 /\ opens <= Schedule!Target(opens)
                 /\ Schedule!Target(opens) <= Schedule!WindowCloses(i)
  <2> DEFINE n == 7 * i + plan.weekday
  <2>1. /\ n \in Int /\ n % 7 = plan.weekday
        /\ Schedule!WindowOpens(i) = 2880 * n + Offset
        /\ Schedule!WindowOpens(i + 1) = 2880 * (n + 7) + Offset
        /\ Schedule!WindowCloses(i) = 2880 * n + Offset + Length
    BY <1>1 DEF Schedule!WindowOpens, Schedule!WindowCloses, Schedule!Week, Schedule!Day,
                Offset, Length
  <2> HIDE DEF n
  <2>2. Schedule!Normalized(start) <= 2880 * n + Offset <=> start \div 2880 <= n
    <3>1. Schedule!Normalized(start) = 2880 * (start \div 2880) /\ start \div 2880 \in Int
      BY DayFacts
    <3> QED
      BY <1>1, <2>1, <3>1
  <2>3. Schedule!Opens(2880 * n + Offset) = 2880 * n + Offset
    <3>1. 2880 * n + Offset \in Int /\ (2880 * n + Offset) \div 2880 = n
      BY <1>1, <2>1
    <3> QED
      BY <3>1, DayFacts
  <2>4. /\ 2880 * n + Offset <= Schedule!Target(2880 * n + Offset)
        /\ Schedule!Target(2880 * n + Offset) <= 2880 * n + Offset + Length
    BY <1>1, <2>1, <2>3 DEF Schedule!Target
  <2>5. Schedule!ScheduledKey(now) = 2880 * n + Offset
          <=> 2880 * n + Offset <= now /\ now <= 2880 * n + Offset + Length
    BY <2>1, ScheduledKeyOfDay
  <2>6. Schedule!LatestKey(now) = 2880 * n + Offset
          <=> 2880 * n + Offset <= now /\ now < 2880 * (n + 7) + Offset
    BY <2>1, LatestKeyOfDay
  <2>7. 2880 * n + Offset \in Schedule!ScheduledMondays(start, now)
          <=> start \div 2880 <= n /\ 2880 * n + Offset + Length < now
    <3>1. n \in Int /\ n % 7 = plan.weekday
      BY <2>1
    <3> QED
      BY <3>1, MissedDays
  <2> QED
    BY <2>1, <2>2, <2>4, <2>5, <2>6, <2>7
<1>3. Schedule!CurrentWindowClosed(now)
        <=> Schedule!Opens(now) \in Schedule!ScheduledMondays(now, now)
  <2> DEFINE q == now \div 2880
  <2>1. /\ q \in Int /\ Schedule!Weekday(now) = q % 7
        /\ Schedule!Opens(now) = 2880 * q + Offset
        /\ Schedule!Closes(now) = 2880 * q + Offset + Length
    BY DayFacts
  <2>2. 2880 * q + Offset \in Schedule!ScheduledMondays(now, now)
          <=> q % 7 = plan.weekday /\ 2880 * q + Offset + Length < now
    BY <2>1, MissedDays
  <2> HIDE DEF q
  <2> QED
    BY <1>1, <2>1, <2>2 DEF Schedule!CurrentWindowClosed
<1>4. ASSUME Schedule!ShouldLaunch(now), plan = Governed
      PROVE  Schedule!ScheduledKey(now) # None \/ Schedule!CurrentWindowClosed(now)
  <2> DEFINE q == now \div 2880
  <2>1. /\ q \in Int /\ 2880 * q <= now /\ now < 2880 * q + 2880
        /\ Schedule!Weekday(now) = q % 7
        /\ Schedule!Opens(now) = 2880 * q + Offset
        /\ Schedule!Closes(now) = 2880 * q + Offset + Length
    BY DayFacts
  <2>2. plan.weekday = 0 /\ Offset = 10 /\ Length = 30
    BY <1>4, ScheduleAssumption DEF Offset, Length
  <2>3. q % 7 = 0 /\ 2880 * q + 10 <= now
    <3>1. /\ (now % 2880) \div 120 = 0
          /\ ((now % 2880) \div 2) % 60 \in 5 .. 20
          /\ q % 7 = 0
      BY <1>4, <2>1 DEF Schedule!ShouldLaunch, Schedule!Day
    <3>2. now % 2880 = now - 2880 * q
      OBVIOUS
    <3> HIDE DEF q
    <3>3. now - 2880 * q \in 0 .. 119 /\ (now - 2880 * q) \div 2 >= 5
      BY <2>1, <3>1, <3>2
    <3> QED
      BY <2>1, <3>1, <3>3
  <2> HIDE DEF q
  <2>4. CASE now <= 2880 * q + 40
    <3>1. Schedule!ScheduledKey(now) = 2880 * q + 10
      BY <2>1, <2>2, <2>3, <2>4 DEF Schedule!ScheduledKey
    <3> QED
      BY <2>1, <3>1, ScheduleAssumption
  <2>5. CASE now > 2880 * q + 40
    BY <2>1, <2>2, <2>3, <2>5 DEF Schedule!CurrentWindowClosed
  <2> QED
    BY <2>1, <2>4, <2>5
<1> QED
  <2>1. Schedule!WeeksUpTo(now) \subseteq Int
    BY DEF Schedule!WeeksUpTo
  <2> QED
    BY <1>2, <1>3, <1>4, <2>1 DEF Schedule!RoutinesAgree

LEMMA ScheduleInitInv == Schedule!Init => Schedule!TypeOK /\ ScheduleInv
<1> SUFFICES ASSUME Schedule!Init PROVE Schedule!TypeOK /\ ScheduleInv
  OBVIOUS
<1>1. /\ plan \in Plans /\ Schedule!Accepted(plan) /\ start \in Instants(plan)
      /\ now = start /\ key = None /\ deadline = None
  BY DEF Schedule!Init
<1>2. start \in Nat
  BY <1>1, ScheduleAssumption
<1> QED
  BY <1>1, <1>2 DEF Schedule!TypeOK, ScheduleInv, KeyInv

\* Capture takes the window of the day, PassTime only moves the clock on.
LEMMA ScheduleNextInv ==
    ASSUME Schedule!TypeOK, ScheduleInv, [Schedule!Next]_scheduleVars
    PROVE  (Schedule!TypeOK /\ ScheduleInv)'
<1>1. /\ plan \in Plans /\ Schedule!Accepted(plan)
      /\ start \in Instants(plan) /\ now \in Instants(plan)
      /\ {key, deadline} \subseteq Int \cup {None}
      /\ start \in Nat /\ now \in Nat /\ start <= now
  <2>1. plan \in Plans /\ start \in Instants(plan) /\ now \in Instants(plan)
    BY DEF Schedule!TypeOK
  <2> QED
    BY <2>1, ScheduleAssumption DEF Schedule!TypeOK, ScheduleInv
<1>2. CASE Schedule!Capture
  <2>1. UNCHANGED <<plan, start, now>>
    BY <1>2 DEF Schedule!Capture
  <2>2. Schedule!Accepted(plan)'
    BY <1>1, <2>1 DEF Schedule!Accepted, Schedule!TargetOffset
  <2>3. CASE Schedule!ScheduledKey(now) = None
    <3>1. key' = None /\ deadline' = None
      BY <1>2, <2>3 DEF Schedule!Capture, Schedule!Deadline
    <3> QED
      BY <1>1, <2>1, <2>2, <3>1 DEF Schedule!TypeOK, ScheduleInv, KeyInv
  <2>4. CASE Schedule!ScheduledKey(now) # None
    <3> DEFINE n == now \div 2880
    <3>1. /\ n \in Int /\ 2880 * n <= now /\ now < 2880 * n + 2880
          /\ Schedule!Weekday(now) = n % 7
          /\ Schedule!Opens(now) = 2880 * n + Offset
          /\ Schedule!Closes(now) = 2880 * n + Offset + Length
      BY <1>1, DayFacts
    <3>2. /\ n % 7 = plan.weekday /\ Schedule!ScheduledKey(now) = 2880 * n + Offset
          /\ 2880 * n + Offset <= now
      BY <2>4, <3>1 DEF Schedule!ScheduledKey
    <3>3. /\ Offset \in Int /\ Length \in Int /\ 0 <= Offset /\ 0 <= Length
          /\ Offset + Length < 2880
      BY <1>1, WindowInDay
    <3>4. start \div 2880 <= n
      BY <1>1
    <3>5. Offset' = Offset /\ Length' = Length
      BY <2>1 DEF Offset, Length
    <3>6. Schedule!Closes(2880 * n + Offset) = 2880 * n + Offset + Length
      <4> DEFINE t == 2880 * n + Offset
      <4> HIDE DEF n
      <4>1. t \in Int /\ t \div 2880 = n
        BY <3>1, <3>3
      <4> HIDE DEF t
      <4>2. Schedule!Closes(t) = 2880 * n + Offset + Length
        BY <4>1, DayFacts
      <4> QED
        BY <4>2 DEF t
    <3>7. key' = 2880 * n + Offset /\ deadline' = 2880 * n + Offset + Length
      BY <1>2, <2>4, <3>2, <3>6 DEF Schedule!Capture, Schedule!Deadline
    <3> HIDE DEF n
    <3>8. KeyInv'
      BY <2>1, <3>1, <3>2, <3>4, <3>5, <3>7 DEF KeyInv
    <3>9. key' \in Int /\ deadline' \in Int
      BY <3>1, <3>3, <3>7
    <3> QED
      BY <1>1, <2>1, <2>2, <3>8, <3>9 DEF Schedule!TypeOK, ScheduleInv
  <2> QED
    BY <2>3, <2>4
<1>3. CASE Schedule!PassTime
  <2>1. UNCHANGED <<plan, start, key, deadline>> /\ now' \in Instants(plan) /\ now < now'
    BY <1>3 DEF Schedule!PassTime
  <2>2. now' \in Nat
    BY <1>1, <2>1, ScheduleAssumption
  <2>3. Schedule!TypeOK'
    BY <1>1, <2>1 DEF Schedule!TypeOK
  <2>4. Schedule!Accepted(plan)'
    BY <1>1, <2>1 DEF Schedule!Accepted, Schedule!TargetOffset
  <2>5. KeyInv'
    <3> SUFFICES ASSUME key' # None PROVE KeyInv'
      BY DEF KeyInv
    <3>1. PICK n \in Int : /\ start \div 2880 <= n /\ n % 7 = plan.weekday
                           /\ key = 2880 * n + Offset /\ key <= now
                           /\ deadline = key + Length
      BY <2>1 DEF ScheduleInv, KeyInv
    <3>2. key \in Int
      BY <1>1, <2>1
    <3>3. key <= now'
      BY <1>1, <2>1, <2>2, <3>1, <3>2
    <3>4. Offset' = Offset /\ Length' = Length
      BY <2>1 DEF Offset, Length
    <3> QED
      BY <2>1, <3>1, <3>3, <3>4 DEF KeyInv
  <2> QED
    BY <1>1, <2>1, <2>2, <2>3, <2>4, <2>5 DEF ScheduleInv
<1>4. CASE UNCHANGED scheduleVars
  BY <1>4 DEF scheduleVars, Schedule!TypeOK, ScheduleInv, KeyInv, Offset, Length,
              Schedule!Accepted, Schedule!TargetOffset
<1> QED
  BY <1>2, <1>3, <1>4 DEF Schedule!Next

\* The plan is one the program accepts, the clock runs forward, and the key of
\* main() is the window of a day since the registration.
THEOREM ScheduleInvariance == OpsSpec => [](Schedule!TypeOK /\ ScheduleInv)
<1>1. OpsInit => Schedule!TypeOK /\ ScheduleInv
  BY ScheduleInitInv DEF OpsInit
<1>2. Schedule!TypeOK /\ ScheduleInv /\ [OpsNext]_opsVars => (Schedule!TypeOK /\ ScheduleInv)'
  BY ScheduleNextInv, Composed
<1> QED
  BY <1>1, <1>2, PTL DEF OpsSpec

\* The key of main() is the one run() derives again as long as its deadline has
\* not passed, and a missed window of the audit afterwards.
LEMMA KeyStands ==
    ASSUME Schedule!TypeOK, ScheduleInv
    PROVE  Schedule!AdmittedKeyStands
<1> SUFFICES ASSUME key # None
             PROVE  IF now <= deadline THEN Schedule!ScheduledKey(now) = key
                    ELSE key \in Schedule!ScheduledMondays(start, now)
  BY DEF Schedule!AdmittedKeyStands
<1>1. plan \in Plans /\ start \in Nat /\ now \in Nat /\ Schedule!Accepted(plan)
  <2>1. plan \in Plans /\ start \in Instants(plan) /\ now \in Instants(plan)
    BY DEF Schedule!TypeOK
  <2> QED
    BY <2>1, ScheduleAssumption DEF ScheduleInv
<1>2. PICK n \in Int : /\ start \div 2880 <= n /\ n % 7 = plan.weekday
                       /\ key = 2880 * n + Offset /\ key <= now
                       /\ deadline = key + Length
  BY DEF ScheduleInv, KeyInv
<1>3. Offset \in Int /\ Length \in Int
  BY <1>1, WindowInDay
<1>4. Schedule!ScheduledKey(now) = key <=> key <= now /\ now <= deadline
  BY <1>1, <1>2, <1>3, ScheduledKeyOfDay
<1>5. key \in Schedule!ScheduledMondays(start, now) <=> deadline < now
  <2>1. 2880 * n + Offset \in Schedule!ScheduledMondays(start, now)
          <=> /\ start \div 2880 <= n /\ n % 7 = plan.weekday
              /\ 2880 * n + Offset + Length < now
    BY <1>1, MissedDays
  <2> QED
    BY <1>2, <2>1
<1>6. deadline \in Int
  BY <1>2, <1>3
<1> QED
  BY <1>1, <1>2, <1>4, <1>5, <1>6

\* Whatever schedule is accepted and wherever the clock stands: the broker, the
\* runner, the audit and the launcher tell the same windows, and a key taken in
\* one is that window until it is over.
THEOREM OneWeek == OpsSpec => []OneSchedule
<1>1. Schedule!TypeOK /\ ScheduleInv => Schedule!OneSchedule
  <2> SUFFICES ASSUME Schedule!TypeOK, ScheduleInv PROVE Schedule!OneSchedule
    OBVIOUS
  <2>1. plan \in Plans /\ start \in Int /\ now \in Int /\ Schedule!Accepted(plan)
    <3>1. plan \in Plans /\ start \in Instants(plan) /\ now \in Instants(plan)
      BY DEF Schedule!TypeOK
    <3> QED
      BY <3>1, ScheduleAssumption DEF ScheduleInv
  <2> QED
    BY <2>1, Agreement, KeyStands DEF Schedule!OneSchedule
<1> QED
  BY <1>1, ScheduleInvariance, PTL DEF OneSchedule

-----------------------------------------------------------------------------
(* The whole *)

\* Every variable of every component has its type.
THEOREM TypesCorrect == OpsSpec => []TypesOK
<1>1. OpsInit => LockInv
  BY LockInitInv DEF OpsInit
<1>2. LockInv /\ [OpsNext]_opsVars => LockInv'
  BY LockNextInv, Composed
<1>3. OpsSpec => []LockInv
  BY <1>1, <1>2, PTL DEF OpsSpec
<1>4. LockInv /\ Backup!TypeOK /\ Market!TypeOK /\ Gate!TypeOK /\ Ledger!TypeOK
        /\ Schedule!TypeOK => TypesOK
  BY DEF TypesOK, LockInv
<1> QED
  BY <1>3, <1>4, BackupTypes, MarketInvariance, GateInvariance, LedgerInvariance,
     ScheduleInvariance, PTL

=============================================================================
