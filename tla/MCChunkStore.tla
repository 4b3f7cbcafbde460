---------------------------- MODULE MCChunkStore ----------------------------
(* A disk of two partitions with a gap before, between and behind them.  The
   first has an extent of three chunks of different lengths between two free
   sectors; the second an extent right at its start whose chunks stop one
   sector short. *)
EXTENDS ChunkStore

Extent1 == [start |-> 1, count |-> 5, lens |-> <<2, 1, 2>>]
Extent2 == [start |-> 0, count |-> 2, lens |-> <<1>>]
TwoPartitions ==
    [total |-> 12,
     parts |-> << [offset |-> 1, size |-> 7, extents |-> <<Extent1>>],
                  [offset |-> 9, size |-> 2, extents |-> <<Extent2>>] >>]
=============================================================================
