--------------------------- MODULE MCDataPipeline ---------------------------
(***************************************************************************)
(* Three seconds: a run to be interrupted, one to recover it and publish,  *)
(* and one after it.  Two days, so that midnight passes between two        *)
(* downloads.  Two universes, so that the pointer moves to another set of  *)
(* assets between two reads.                                                *)
(***************************************************************************)
EXTENDS DataPipeline

CONSTANTS a1, a2

GrowingUniverse == {{a1}, {a1, a2}}
OneUniverse == {{a1, a2}}
=============================================================================
