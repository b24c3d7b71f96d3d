--------------------------- MODULE ExperimentGate ---------------------------
(***************************************************************************)
(* ExperimentGate of src/experiment_manager.py: the order in which a        *)
(* research run may touch its data.  Training trials, then finalists, then  *)
(* the validation of each finalist, then one locked candidate, and only     *)
(* that candidate sees the final test.  The caller may call anything at any *)
(* time; a call that is refused raises and changes nothing.                 *)
(***************************************************************************)
EXTENDS Naturals, FiniteSets

CONSTANTS
    Candidate,       \* candidate ids
    ExpectedTrials,  \* expected_training_trials
    None             \* not declared, not locked

VARIABLES
    training,   \* training_ids
    finalists,  \* finalist_ids, or None
    validated,  \* validated_ids
    locked,     \* locked_candidate_id, or None
    opened      \* candidates assert_test_access has let through

vars == <<training, finalists, validated, locked, opened>>

TypeOK ==
    /\ training \subseteq Candidate
    /\ finalists \in ((SUBSET Candidate) \ {{}}) \cup {None}
    /\ validated \subseteq Candidate
    /\ locked \in Candidate \cup {None}
    /\ opened \subseteq Candidate

Init ==
    /\ training = {}
    /\ finalists = None
    /\ validated = {}
    /\ locked = None
    /\ opened = {}

RecordTraining(c) ==
    /\ finalists = None
    /\ training' = training \cup {c}
    /\ UNCHANGED <<finalists, validated, locked, opened>>

\* Nothing asks whether finalists were declared before.
SetFinalists(F) ==
    /\ F # {}
    /\ Cardinality(training) = ExpectedTrials
    /\ F \subseteq training
    /\ finalists' = F
    /\ UNCHANGED <<training, validated, locked, opened>>

RecordValidation(c) ==
    /\ finalists # None /\ c \in finalists
    /\ validated' = validated \cup {c}
    /\ UNCHANGED <<training, finalists, locked, opened>>

\* Mutant: a declared finalist can be locked before it is validated.
LockAnyFinalist(c) ==
    /\ locked = None
    /\ finalists # None /\ c \in finalists
    /\ locked' = c
    /\ UNCHANGED <<training, finalists, validated, opened>>

LockCandidate(c) ==
    /\ locked = None
    /\ finalists # None
    /\ validated = finalists
    /\ c \in finalists
    /\ locked' = c
    /\ UNCHANGED <<training, finalists, validated, opened>>

AssertTestAccess(c) ==
    /\ locked = c
    /\ opened' = opened \cup {c}
    /\ UNCHANGED <<training, finalists, validated, locked>>

Next ==
    \/ \E c \in Candidate :
         \/ RecordTraining(c) \/ RecordValidation(c)
         \/ LockCandidate(c) \/ AssertTestAccess(c)
    \/ \E F \in SUBSET Candidate : SetFinalists(F)

Spec == Init /\ [][Next]_vars

-----------------------------------------------------------------------------
(* Correctness properties *)

\* The final test is seen by one candidate only, one that was trained among
\* exactly the expected trials and was validated.
FinalTestIsEarned ==
    opened # {} =>
        /\ opened = {locked}
        /\ locked \in validated
        /\ validated \subseteq training
        /\ Cardinality(training) = ExpectedTrials

\* Validation results are never followed by another training trial.
NoTrainingAfterValidation ==
    [][validated # {} => training' = training]_vars

-----------------------------------------------------------------------------
(* What the repository says and the code does not do *)

\* ExperimentGate: "Enforce train -> validation -> lock -> final-test access
\* ordering."  No validation comes after the lock.
NoValidationAfterLock ==
    [][locked # None => validated' = validated]_vars

=============================================================================
