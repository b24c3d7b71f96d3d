-------------------------- MODULE CanonicalDataset --------------------------
(***************************************************************************)
(* What the data pipeline promises to the readers of the canonical         *)
(* dataset: one current generation, replaced as a whole and only by a      *)
(* later one, and no generation replaced before its run is on record as    *)
(* completed.  DataPipeline is shown to implement it.                       *)
(***************************************************************************)
EXTENDS Naturals

CONSTANTS
    Datasets,  \* what one generation can hold
    None       \* nothing published yet

VARIABLES
    current,   \* the generation readers are given: its run and its datasets
    completed  \* the runs recorded as completed

Generation == [run: Nat, data: Datasets]

AInit ==
    /\ current = None
    /\ completed = {}

Publish ==
    /\ current # None => current.run \in completed
    /\ current' \in Generation
    /\ current'.run \notin completed
    /\ current # None => current.run < current'.run
    /\ UNCHANGED completed

Complete ==
    /\ current # None
    /\ completed' = completed \cup {current.run}
    /\ UNCHANGED current

ANext == Publish \/ Complete

ASpec == AInit /\ [][ANext]_<<current, completed>>

=============================================================================
