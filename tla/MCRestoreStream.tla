-------------------------- MODULE MCRestoreStream --------------------------
(***************************************************************************)
(* Instances of RestoreStream for TLC: a volume of ten blocks restored     *)
(* onto a target of nine, either as it is (the tail is trimmed) or with    *)
(* its last block relocated into a free one.                               *)
(***************************************************************************)
EXTENDS RestoreStream, TLC

Run(start, count) == [start |-> start, count |-> count]

\* Five chunks in three extents: enough for the reader to block on a full job
\* channel after the consumer gave up.  Two chunks (serial), nothing at all.
MCExtentLists ==
    {<<Run(0, 3), Run(4, 2), Run(7, 3)>>, <<Run(1, 3)>>, <<>>}
\* One long extent: the case where a short read shifts what follows.
MCLongExtents == {<<Run(0, 5)>>}

Stay == [b \in Blocks |-> b]
MCMoves == {Stay, [Stay EXCEPT ![9] = 3, ![3] = 9]}
MCStay == {Stay}
=============================================================================
