------------------------------- MODULE MCAlloc -------------------------------
(* Two chunks of memory and three process slots; hole[] is as small as the   *)
(* 2 * NR_PROCS of the code.                                                *)
EXTENDS Alloc

CONSTANT NR_PROCS

MCChunks == <<Hole(1, 2), Hole(4, 3)>>
MCProcs == 1..NR_PROCS
MCHoles == 2 * NR_PROCS
MCAlgorithms == {FIRST, WORST, 2}
=============================================================================
