----------------------------- MODULE DiskLayout -----------------------------
(* Where partitions may lie on a target disk: the byte arithmetic of
   phoenix-restore's layout_edit.rs and plan.rs and of phoenix-clone's plan.rs.
   Places are counted in blocks.  A span is [start, size]; a candidate that the
   code computes as an Option is a set of at most one value. *)
EXTENDS Integers, FiniteSets, Sequences, SequencesExt

AlignUp(v, a) == IF v % a = 0 THEN v ELSE v + (a - (v % a))
AlignDown(v, a) == v - (v % a)
AtLeastZero(v) == IF v < 0 THEN 0 ELSE v
Larger(x, y) == IF x < y THEN y ELSE x
Smaller(x, y) == IF x < y THEN x ELSE y
Clamp(v, lo, hi) == Smaller(Larger(v, lo), hi)

End(s) == s.start + s.size
LeastOf(S) == {x \in S : \A y \in S : x <= y}
GreatestOf(S) == {x \in S : \A y \in S : y <= x}
Apart(s, t) == End(s) <= t.start \/ End(t) <= s.start

\* clamp_aligned for a range that is not empty: aligned up, else down, else raw.
ClampAligned(desired, lo, hi, a) ==
    LET c == Clamp(desired, lo, hi)
    IN  IF AlignUp(c, a) <= hi THEN AlignUp(c, a)
        ELSE IF AlignDown(c, a) >= lo THEN AlignDown(c, a)
        ELSE c

\* The free spans of a disk that ends at `end`, between obstacles.
FreeSpans(obstacles, end) ==
    {r \in [lo : {0} \cup {End(o) : o \in obstacles},
             hi : {end} \cup {o.start : o \in obstacles}] :
        /\ r.lo <= r.hi
        /\ \A o \in obstacles : End(o) <= r.lo \/ o.start >= r.hi}

\* The span a dragged slot belongs in: its own until the pointer has crossed a
\* neighbour, then the farthest one on that side that holds the slot.
Room(r, size) == r.hi - r.lo >= size
SpanFor(spans, at, size, pointer) ==
    LET right == {r \in spans : r.lo > at.lo /\ pointer > r.lo /\ Room(r, size)}
        left == {r \in spans : r.hi < at.hi /\ pointer < r.hi /\ Room(r, size)}
    IN  IF right # {} THEN {r \in right : \A q \in right : q.lo <= r.lo}
        ELSE IF left # {} THEN {r \in left : \A q \in left : r.lo <= q.lo}
        ELSE {at}

MoveCandidates(obstacles, end, slot, pointer, desired, a) ==
    LET spans == FreeSpans(obstacles, end)
    IN  {ClampAligned(desired, r.lo, r.hi - slot.size, a) :
            r \in UNION {SpanFor(spans, at, slot.size, pointer) :
                         at \in {q \in spans : q.lo <= slot.start /\ End(slot) <= q.hi}}}

\* New left edge: between the neighbour's end and the minimum size, flush with
\* the neighbour when the pointer is within the snap window.
LeftEdges(obstacles, slot, least, pointer, snap, a) ==
    LET hi == End(slot) - least
    IN  {IF Clamp(pointer, lo, hi) - lo <= snap THEN lo ELSE ClampAligned(pointer, lo, hi, a) :
            lo \in {l \in GreatestOf({0} \cup {End(o) : o \in {q \in obstacles : End(q) <= slot.start}}) :
                        l <= hi}}

RightEdges(obstacles, end, slot, least, pointer, snap, a) ==
    LET lo == slot.start + least
        starts == {o.start : o \in {q \in obstacles : q.start >= slot.start}}
    IN  {IF hi - Clamp(pointer, lo, hi) <= snap THEN hi ELSE ClampAligned(pointer, lo, hi, a) :
            hi \in {h \in IF starts = {} THEN {end} ELSE LeastOf(starts) : lo <= h}}

\* layout_problem finds none: the spans that occupy space do not overlap and
\* none passes the end of the disk.
LayoutSound(spans, diskSize) ==
    LET real == {s \in spans : s.size > 0}
    IN  /\ \A s, t \in real : s # t => Apart(s, t)
        /\ \A s \in real : End(s) <= diskSize

--------------------------------------------------------------------------------
\* Full-disk layouts.  A layout is a sequence of [src, start, size].

\* Lay sizes one after the other from `from`, each start aligned.
PackFrom(sizes, from, a) ==
    FoldLeft(LAMBDA out, sz :
                LET at == AlignUp(IF out = <<>> THEN from ELSE out[Len(out)].start + out[Len(out)].size, a)
                IN  Append(out, [start |-> at, size |-> sz]),
             <<>>, sizes)
PackEnd(packed, from) == IF packed = <<>> THEN from ELSE End(packed[Len(packed)])

\* pack_full_disk: all from the front; else the last one against the end of the
\* disk, coarsely then finely aligned; else everything finely, the last one cut.
PackFullDisk(sizes, usableEnd, a, fine, lead) ==
    LET n == Len(sizes)
        earlier == SubSeq(sizes, 1, n - 1)
        front == PackFrom(sizes, a, a)
        anchored(from, g) ==
            LET packed == PackFrom(earlier, from, g)
                at == AlignDown(AtLeastZero(usableEnd - sizes[n]), g)
            IN  IF sizes[n] > 0 /\ at >= PackEnd(packed, from)
                THEN Append(packed, [start |-> at, size |-> sizes[n]]) ELSE <<>>
        tight == PackFrom(sizes, lead, fine)
        cut == IF End(tight[n]) <= usableEnd THEN tight
               ELSE [tight EXCEPT ![n].size = AlignDown(AtLeastZero(usableEnd - tight[n].start), fine)]
    IN  IF n = 0 \/ PackEnd(front, a) <= usableEnd THEN front
        ELSE IF anchored(Larger(a, lead), a) # <<>> THEN anchored(Larger(a, lead), a)
        ELSE IF anchored(lead, fine) # <<>> THEN anchored(lead, fine)
        ELSE cut

\* Grow the largest NTFS partition towards the end of the disk; those behind it
\* (allowing for `slack`) move against the end, as long as they fit.
ExpandPrimary(layout, ntfs, diskSize, a, slack) ==
    LET can == {i \in DOMAIN layout : layout[i].src \in ntfs}
        Bigger(i, j) == \/ layout[i].size > layout[j].size
                        \/ layout[i].size = layout[j].size /\ layout[i].start >= layout[j].start
        main == CHOOSE i \in can : \A j \in can : Bigger(i, j)
        tail == {i \in DOMAIN layout : i # main
                    /\ layout[i].start >= AtLeastZero(End(layout[main]) - slack)}
        fromEnd == SetToSortSeq(tail, LAMBDA i, j : layout[i].start > layout[j].start)
        usableEnd == AtLeastZero(AlignDown(diskSize, a) - a)
        packed == FoldLeft(LAMBDA acc, i :
                        IF acc.full \/ layout[i].size > acc.cursor
                        THEN [acc EXCEPT !.full = TRUE]
                        ELSE LET at == AlignDown(acc.cursor - layout[i].size, a)
                             IN  [acc EXCEPT !.cursor = at, !.layout[i].start = at],
                        [layout |-> layout, cursor |-> usableEnd, full |-> FALSE], fromEnd).layout
        end == IF tail = {} THEN usableEnd ELSE packed[fromEnd[Len(fromEnd)]].start
        room == end - layout[main].start
    IN  IF can = {} THEN layout
        ELSE IF room > 0 THEN [packed EXCEPT ![main].size = AlignDown(room, a)]
        ELSE packed

\* The spans of a layout.
SpansOf(layout) == {layout[i] : i \in DOMAIN layout}
=============================================================================
