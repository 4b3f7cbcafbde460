-------------------------- MODULE MCEncodePipeline --------------------------
(***************************************************************************)
(* Instances of EncodePipeline for TLC.  Compressed lengths differ from    *)
(* chunk to chunk so that a chunk committed out of turn shows in the       *)
(* offsets.                                                                *)
(***************************************************************************)
EXTENDS EncodePipeline, TLC

MCCompLen == [s \in 0 .. MaxChunks |-> s + 1]
=============================================================================
