-------------------------- MODULE ExperimentLedger --------------------------
(***************************************************************************)
(* ExperimentLedger of src/experiment_ledger.py: a file of lines, each a   *)
(* record chained to the one before by its hash, and a seal beside it.  A  *)
(* process keeps the next sequence number and the last hash in memory and  *)
(* writes from them, without reading the file again.                        *)
(*                                                                         *)
(* An exception in append or finalize ends the process that holds the      *)
(* ledger, as it does in run_experiments.py; another process may open the   *)
(* file later.  A hash is the number of the write that made the record: no *)
(* two records are equal, since each carries its time.                      *)
(***************************************************************************)
EXTENDS Naturals, Sequences, SequencesExt

CONSTANTS
    MaxWrites,   \* bound: records written over all processes
    None,        \* no seal, no manifest, no process
    Partial      \* a seal file whose text was cut short

Genesis == 0
Hash == 0..MaxWrites

\* How a line stands in the file: readable with its newline or without it,
\* cut short at the end of the file, or unreadable with text after it.
Shapes == {"whole", "unended", "torn", "garbled"}
Line == [seq: Nat, prev: Hash, hash: Hash, shape: Shapes]
Seal == [count: Nat, last: Hash]
Memory == [seq: Nat, last: Hash, finalized: BOOLEAN]

VARIABLES
    file,       \* the lines of the ledger file
    seal,       \* the .sealed file: None, Partial, or its contents
    legacy,     \* ledger_manifest.json of a run before seals existed, or None
    mem,        \* what the process that holds the ledger remembers, or None
    written     \* writes so far

vars == <<file, seal, legacy, mem, written>>

TypeOK ==
    /\ file \in Seq(Line)
    /\ seal \in Seal \cup {None, Partial}
    /\ legacy \in Seal \cup {None}
    /\ mem \in Memory \cup {None}
    /\ written \in 0..MaxWrites

\* A new ledger, or one of a historical run, which its manifest seals.
Init ==
    /\ \/ file = <<>> /\ written = 0 /\ legacy = None
       \/ /\ MaxWrites >= 1
          /\ file = <<[seq |-> 0, prev |-> Genesis, hash |-> 1, shape |-> "whole"]>>
          /\ written = 1
          /\ legacy = [count |-> 1, last |-> 1]
    /\ seal = None
    /\ mem = None

-----------------------------------------------------------------------------
(* The file *)

Readable(f) == \A i \in DOMAIN f : f[i].shape \in {"whole", "unended"}

\* verify: sequence numbers from zero, each record linked to the one before.
Chained(f) ==
    \A i \in DOMAIN f :
        /\ f[i].seq = i - 1
        /\ f[i].prev = IF i = 1 THEN Genesis ELSE f[i - 1].hash

Verifies(f) == Readable(f) /\ Chained(f)

Tail0(f) == IF f = <<>> THEN [count |-> 0, last |-> Genesis]
                        ELSE [count |-> Last(f).seq + 1, last |-> Last(f).hash]

\* The text of a record is put at the end of the file: on a line of its own, or
\* behind the text of a line that has no newline.
Put(f, line) ==
    IF f # <<>> /\ Last(f).shape \in {"unended", "torn"}
      THEN Front(f) \o <<[Last(f) EXCEPT !.shape =
                            IF line.shape = "whole" THEN "garbled" ELSE "torn"]>>
      ELSE Append(f, line)

-----------------------------------------------------------------------------
(* __init__ *)

\* The seal, or the historical manifest, has to agree with the records.
SealAccepted(s) == seal = None \/ seal = s
LegacyAccepted(s) == seal # None \/ legacy = None \/ legacy = s

\* A file that does not verify, a seal that is not complete or not this file's,
\* raise; no process holds the ledger then.
Open ==
    /\ mem = None
    /\ Verifies(file) /\ SealAccepted(Tail0(file)) /\ LegacyAccepted(Tail0(file))
    /\ mem' = [seq |-> Tail0(file).count, last |-> Tail0(file).last,
               finalized |-> seal # None \/ legacy # None]
    /\ UNCHANGED <<file, seal, legacy, written>>

-----------------------------------------------------------------------------
(* append *)

Record(shape) == [seq |-> mem.seq, prev |-> mem.last, hash |-> written + 1,
                  shape |-> shape]

\* The line is written, flushed and synced, then memory follows.
AppendRecord ==
    /\ mem # None /\ ~mem.finalized
    /\ written < MaxWrites
    /\ file' = Put(file, Record("whole"))
    /\ written' = written + 1
    /\ mem' = [mem EXCEPT !.seq = @ + 1, !.last = written + 1]
    /\ UNCHANGED <<seal, legacy>>

\* Mutant: the caller goes on after the exception, with the memory of before.
AppendFailsUnnoticed(shape) ==
    /\ mem # None /\ ~mem.finalized
    /\ written < MaxWrites
    /\ file' = Put(file, Record(shape))
    /\ written' = written + 1
    /\ UNCHANGED <<seal, legacy, mem>>

\* The write, the flush or the sync raises, or the process dies: any part of the
\* line, all of it included, may be in the file.
AppendFails(shape) ==
    /\ mem # None /\ ~mem.finalized
    /\ written < MaxWrites
    /\ file' = Put(file, Record(shape))
    /\ written' = written + 1
    /\ mem' = None
    /\ UNCHANGED <<seal, legacy>>

-----------------------------------------------------------------------------
(* finalize *)

Remembered == [count |-> mem.seq, last |-> mem.last]

\* The chain is verified from the file, the seal is written from memory; a seal
\* that is there already has to be equal.
Finalize ==
    /\ mem # None
    /\ Verifies(file)
    /\ seal = None \/ seal = Remembered
    /\ seal' = Remembered
    /\ mem' = [mem EXCEPT !.finalized = TRUE]
    /\ UNCHANGED <<file, legacy, written>>

\* The seal is created and its text does not get there.
FinalizeFails ==
    /\ mem # None
    /\ Verifies(file)
    /\ seal = None
    /\ seal' = Partial
    /\ mem' = None
    /\ UNCHANGED <<file, legacy, written>>

\* The process ends, or dies between two calls.
Close ==
    /\ mem # None
    /\ mem' = None
    /\ UNCHANGED <<file, seal, legacy, written>>

Next ==
    \/ Open \/ AppendRecord \/ Finalize \/ FinalizeFails \/ Close
    \/ \E shape \in {"whole", "unended", "torn"} : AppendFails(shape)

Spec == Init /\ [][Next]_vars

-----------------------------------------------------------------------------
(* Correctness properties *)

\* Memory is the end of the file: what is appended or sealed next continues the
\* chain, whichever process wrote the records before and however it ended.
MemoryContinuesFile ==
    mem # None /\ Readable(file) =>
        /\ Chained(file)
        /\ Remembered = Tail0(file)

\* A seal, once complete, agrees with a file that verifies.
SealAgrees ==
    seal \notin {None, Partial} => Verifies(file) /\ seal = Tail0(file)

\* A sealed ledger, by its seal or by a historical manifest, never changes.
SealedNeverChanges ==
    [][seal # None \/ legacy # None => file' = file]_vars

\* The chain never forks: no two readable records carry the same number.
ChainNeverForks ==
    \A i, j \in DOMAIN file :
        /\ i # j
        /\ {file[i].shape, file[j].shape} \subseteq {"whole", "unended"}
        => file[i].seq # file[j].seq

=============================================================================
