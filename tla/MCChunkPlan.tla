---------------------------- MODULE MCChunkPlan ----------------------------
(* Instances of ChunkPlan for TLC: sizes that divide the number of lines,  *)
(* that do not, that exceed it, and one that no plan exists for.           *)
EXTENDS ChunkPlan

MCSizes == {-1, 1, 2, 3}
============================================================================
