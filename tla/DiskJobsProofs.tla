---------------------------- MODULE DiskJobsProofs ----------------------------
(* Proofs about the layout editor and the runs that take its plan, for every
   target, every source and every number of edits. *)
EXTENDS DiskJobs, FiniteSetTheorems, FunctionTheorems, TLAPS

--------------------------------------------------------------------------------
(* Alignment. *)

\* Rounding stays on its side of the value.
LEMMA AlignUpIsAbove ==
    \A v \in Nat, a \in Nat \ {0} : AlignUp(v, a) \in Nat /\ AlignUp(v, a) >= v
<1> SUFFICES ASSUME NEW v \in Nat, NEW a \in Nat \ {0}
             PROVE  AlignUp(v, a) \in Nat /\ AlignUp(v, a) >= v
    OBVIOUS
<1>1. v % a \in 0 .. a - 1
    OBVIOUS
<1> QED BY <1>1 DEF AlignUp

\* Rounding down to the alignment never goes up.
LEMMA AlignDownIsBelow ==
    \A v \in Nat, a \in Nat \ {0} : AlignDown(v, a) \in Int /\ AlignDown(v, a) <= v
<1> SUFFICES ASSUME NEW v \in Nat, NEW a \in Nat \ {0}
             PROVE  AlignDown(v, a) \in Int /\ AlignDown(v, a) <= v
    OBVIOUS
<1>1. v % a \in 0 .. a - 1
    OBVIOUS
<1> QED BY <1>1 DEF AlignDown

\* clamp_aligned never leaves its range.
LEMMA ClampAlignedInRange ==
    ASSUME NEW v \in Nat, NEW lo \in Nat, NEW hi \in Nat, lo <= hi, NEW a \in Nat \ {0}
    PROVE  ClampAligned(v, lo, hi, a) \in Nat /\ ClampAligned(v, lo, hi, a) \in lo .. hi
<1> DEFINE c == Clamp(v, lo, hi)
<1>1. c \in lo .. hi /\ c \in Nat
    BY DEF Clamp, Larger, Smaller
<1> HIDE DEF c
<1>2. AlignUp(c, a) \in Nat /\ AlignUp(c, a) >= c
    BY <1>1, AlignUpIsAbove
<1>3. AlignDown(c, a) \in Int /\ AlignDown(c, a) <= c
    BY <1>1, AlignDownIsBelow
<1>4. ClampAligned(v, lo, hi, a) =
        IF AlignUp(c, a) <= hi THEN AlignUp(c, a)
        ELSE IF AlignDown(c, a) >= lo THEN AlignDown(c, a) ELSE c
    BY DEF ClampAligned, c
<1> QED BY <1>1, <1>2, <1>3, <1>4

--------------------------------------------------------------------------------
(* The invariant of the editor. *)

\* A slot that occupies space within the usable part of the disk and holds the
\* data of its source.
Fits(t, end) == /\ t \in Slot
                /\ t.size > 0
                /\ End(t) <= end
                /\ Mapped(t) => Used(t.src) <= t.size

EditorInv ==
    /\ fullDisk \in BOOLEAN /\ tableGpt \in BOOLEAN
    /\ ~fullDisk =>
        /\ IsFiniteSet(slots)
        /\ ~tableGpt => Cardinality(slots) <= MbrSlots
        /\ \A t \in slots : Fits(t, UsableEnd)
        /\ \A t, u \in slots : t # u => Apart(t, u)

\* Where the usable part of the disk ends is a number.
LEMMA UsableEndType == ASSUME tableGpt \in BOOLEAN PROVE UsableEnd \in Nat
BY LayoutAssumption DEF UsableEnd, Ceiling, Smaller

\* A slot has numbers for its place, and names a source and a live partition or none.
LEMMA SlotType ==
    \A t \in Slot : /\ t.start \in Nat /\ t.size \in Nat /\ End(t) \in Nat
                    /\ t.src \in SourceParts \cup {0} /\ t.live \in LiveParts \cup {0}
BY DEF Slot, End

\* What a source uses is within its size.
LEMMA SourceType ==
    \A s \in SourceParts : /\ Used(s) \in Nat /\ Source.parts[s].size \in Nat
                           /\ Used(s) <= Source.parts[s].size /\ Source.parts[s].size > 0
                           /\ s # 0 /\ s \in SourceParts \cup {0}
<1> SUFFICES ASSUME NEW s \in SourceParts
             PROVE  /\ Used(s) \in Nat /\ Source.parts[s].size \in Nat
                    /\ Used(s) <= Source.parts[s].size /\ Source.parts[s].size > 0
                    /\ s # 0 /\ s \in SourceParts \cup {0}
    OBVIOUS
<1>1. s # 0
    BY LayoutAssumption
<1>2. Source.parts[s].size \in Nat \ {0} /\ Used(s) \in 0 .. Source.parts[s].size
    BY SourceAssumption
<1> QED BY <1>1, <1>2

\* The invariant gives what the engines ask for.
LEMMA InvGivesPlans == EditorInv => EditorPlansPass
<1> SUFFICES ASSUME EditorInv, ~fullDisk PROVE EditorPlansPass
    BY DEF EditorPlansPass
<1>1. LayoutSound(slots, UsableEnd)
    BY DEF EditorInv, LayoutSound, Fits
<1>2. \A t \in slots : Mapped(t) => Used(t.src) <= t.size
    BY DEF EditorInv, Fits
<1>3. ASSUME ~tableGpt PROVE \A t \in slots : End(t) <= MbrLimit
    <2>1. UsableEnd <= MbrLimit /\ UsableEnd \in Nat /\ MbrLimit \in Nat
        BY <1>3, LayoutAssumption DEF UsableEnd, Ceiling, Smaller
    <2>2. \A t \in slots : End(t) \in Nat /\ End(t) <= UsableEnd
        BY SlotType DEF EditorInv, Fits
    <2> QED BY <2>1, <2>2
<1>4. ~tableGpt => Cardinality(slots) <= MbrSlots
    BY DEF EditorInv
<1> QED BY <1>1, <1>2, <1>3, <1>4 DEF EditorPlansPass

\* The layout read from the target, at the start and after a reset.
LEMMA LiveLayoutFits ==
    /\ IsFiniteSet(LiveSlots)
    /\ ~Target.gpt => Cardinality(LiveSlots) <= MbrSlots
    /\ \A t \in LiveSlots :
          Fits(t, IF Target.gpt THEN Target.size - Trail ELSE Ceiling(FALSE))
    /\ \A t, u \in LiveSlots : t # u => Apart(t, u)
<1> DEFINE Whole(p) == [start |-> Target.parts[p].start, size |-> Target.parts[p].size,
                        src |-> 0, live |-> p]
           f == [p \in LiveParts |-> Whole(p)]
<1>1. LiveSlots = {Whole(p) : p \in LiveParts}
    BY DEF LiveSlots
<1>2. f \in Surjection(LiveParts, LiveSlots)
    BY <1>1 DEF Surjection
<1>3. /\ IsFiniteSet(LiveSlots)
      /\ Cardinality(LiveSlots) <= Cardinality(LiveParts)
    BY <1>2, FS_Surjection, LayoutAssumption
<1>4. Cardinality(LiveSlots) \in Nat /\ Cardinality(LiveParts) \in Nat
    BY <1>3, FS_CardinalityType, LayoutAssumption
<1>5. ~Target.gpt => Cardinality(LiveSlots) <= MbrSlots
    BY <1>3, <1>4, TargetAssumption, LayoutAssumption
<1>6. ASSUME NEW t \in LiveSlots
      PROVE  Fits(t, IF Target.gpt THEN Target.size - Trail ELSE Ceiling(FALSE))
    <2>1. PICK p \in LiveParts : t = Whole(p)
        BY <1>1
    <2>2. /\ Target.parts[p].start \in Nat /\ Target.parts[p].size \in Nat \ {0}
          /\ End(Target.parts[p]) <= (IF Target.gpt THEN Target.size - Trail ELSE Ceiling(FALSE))
        BY <2>1, TargetAssumption
    <2>3. t \in Slot /\ t.size > 0
        <3>1. t.size > 0
            BY <2>1, <2>2
        <3> QED BY <2>1, <2>2, <3>1 DEF Slot
    <2>4. End(t) = End(Target.parts[p])
        BY <2>1 DEF End
    <2>5. ~Mapped(t)
        BY <2>1 DEF Mapped
    <2> QED BY <2>2, <2>3, <2>4, <2>5 DEF Fits
<1>7. ASSUME NEW t \in LiveSlots, NEW u \in LiveSlots, t # u
      PROVE  Apart(t, u)
    <2>1. PICK p \in LiveParts : t = Whole(p)
        BY <1>1
    <2>2. PICK q \in LiveParts : u = Whole(q)
        BY <1>1
    <2>3. p # q /\ Apart(Target.parts[p], Target.parts[q])
        BY <1>7, <2>1, <2>2, TargetAssumption
    <2> QED BY <2>1, <2>2, <2>3 DEF Apart, End
<1> QED BY <1>3, <1>5, <1>6, <1>7

\* Putting a slot in the place of another, or beside the others, keeps the
\* invariant when it fits and lies apart from them.
LEMMA ReplaceKeeps ==
    ASSUME EditorInv, ~fullDisk, NEW t \in slots, NEW n, Fits(n, UsableEnd),
           \A u \in slots \ {t} : Apart(n, u) /\ Apart(u, n),
           slots' = (slots \ {t}) \cup {n}, UNCHANGED <<tableGpt, fullDisk>>
    PROVE  EditorInv'
<1>1. IsFiniteSet(slots \ {t}) /\ Cardinality(slots \ {t}) = Cardinality(slots) - 1
    BY FS_RemoveElement DEF EditorInv
<1>2. /\ IsFiniteSet(slots')
      /\ Cardinality(slots') <= Cardinality(slots)
    <2>1. Cardinality(slots) \in Nat /\ Cardinality(slots \ {t}) \in Nat
        BY <1>1, FS_CardinalityType DEF EditorInv
    <2> QED BY <1>1, <2>1, FS_AddElement
<1>3. Cardinality(slots) \in Nat /\ Cardinality(slots') \in Nat /\ MbrSlots \in Nat
    BY <1>2, FS_CardinalityType, LayoutAssumption DEF EditorInv
<1>4. ~tableGpt' => Cardinality(slots') <= MbrSlots
    BY <1>2, <1>3 DEF EditorInv
<1>5. UsableEnd' = UsableEnd
    BY DEF UsableEnd
<1>6. \A u \in slots' : Fits(u, UsableEnd)
    BY DEF EditorInv
<1>7. \A u, v \in slots' : u # v => Apart(u, v)
    BY DEF EditorInv
<1>8. (\A u \in slots : Fits(u, UsableEnd))' <=> \A u \in slots' : Fits(u, UsableEnd)
    BY <1>5 DEF Fits, End, Mapped, Used, Slot, SourceParts, LiveParts
<1>9. fullDisk' \in BOOLEAN /\ tableGpt' \in BOOLEAN
    BY DEF EditorInv
<1> QED BY <1>2, <1>4, <1>6, <1>7, <1>8, <1>9 DEF EditorInv

\* A slot that fits and lies apart from all others may be put in.
LEMMA InsertKeeps ==
    ASSUME EditorInv, ~fullDisk, NEW n, Fits(n, UsableEnd),
           tableGpt \/ Cardinality(slots) < MbrSlots,
           \A u \in slots : Apart(n, u) /\ Apart(u, n),
           slots' = slots \cup {n}, UNCHANGED <<tableGpt, fullDisk>>
    PROVE  EditorInv'
<1>1. IsFiniteSet(slots)
    BY DEF EditorInv
<1>2. Cardinality(slots) \in Nat /\ MbrSlots \in Nat
    BY <1>1, FS_CardinalityType, LayoutAssumption
<1>3. IsFiniteSet(slots') /\ (Cardinality(slots) < MbrSlots => Cardinality(slots') <= MbrSlots)
    BY <1>1, <1>2, FS_AddElement
<1>4. UsableEnd' = UsableEnd
    BY DEF UsableEnd
<1>5. \A u \in slots' : Fits(u, UsableEnd)
    BY DEF EditorInv
<1>6. \A u, v \in slots' : u # v => Apart(u, v)
    BY DEF EditorInv
<1>7. (\A u \in slots : Fits(u, UsableEnd))' <=> \A u \in slots' : Fits(u, UsableEnd)
    BY <1>4 DEF Fits, End, Mapped, Used, Slot, SourceParts, LiveParts
<1>8. fullDisk' \in BOOLEAN /\ tableGpt' \in BOOLEAN
    BY DEF EditorInv
<1> QED BY <1>3, <1>5, <1>6, <1>7, <1>8 DEF EditorInv

--------------------------------------------------------------------------------
(* One lemma per edit. *)

\* A size fitted into free space is no larger than it, and holds what is used.
LEMMA FittedSize ==
    ASSUME NEW s \in SourceParts, NEW avail \in Int, avail > 0, NEW size \in FitInto(s, avail)
    PROVE  size \in Nat /\ size > 0 /\ size <= avail /\ Used(s) <= size
<1>1. Used(s) \in Nat /\ AlignUp(Used(s), Align) \in Nat /\ Used(s) <= AlignUp(Used(s), Align)
    BY SourceType, AlignUpIsAbove, LayoutAssumption
<1>2. /\ Source.parts[s].size \in Nat /\ Used(s) <= Source.parts[s].size
      /\ Source.parts[s].size > 0
    BY SourceType
<1> QED BY <1>1, <1>2 DEF FitInto

\* Dropping a source on a slot takes the place of that slot.
LEMMA DropKeeps ==
    ASSUME EditorInv, NEW s \in SourceParts, NEW t \in slots, ApplyDrop(s, t)
    PROVE  EditorInv'
<1>1. ~fullDisk /\ UNCHANGED <<tableGpt, fullDisk>>
    BY DEF ApplyDrop, PartialEdit, Edit
<1>2. PICK end \in GapEnds(End(t)) : \E size \in FitInto(s, end - t.start) :
          slots' = (slots \ {t}) \cup {[t EXCEPT !.size = size, !.src = s]}
    BY DEF ApplyDrop
<1>3. PICK size \in FitInto(s, end - t.start) :
          slots' = (slots \ {t}) \cup {[t EXCEPT !.size = size, !.src = s]}
    BY <1>2
<1> DEFINE n == [t EXCEPT !.size = size, !.src = s]
<1>4. t \in Slot /\ t.size > 0 /\ t.start \in Nat /\ t.size \in Nat /\ t.live \in LiveParts \cup {0}
      /\ End(t) = t.start + t.size /\ End(t) <= UsableEnd /\ UsableEnd \in Nat
    BY <1>1, SlotType, UsableEndType DEF EditorInv, Fits, End
<1>5. /\ end \in Nat /\ End(t) <= end /\ end <= UsableEnd
      /\ \A u \in slots : u.start >= End(t) => end <= u.start
    <2>1. \A u \in slots : u.start \in Nat /\ u.start <= UsableEnd
        BY <1>1, <1>4, SlotType DEF EditorInv, Fits, End
    <2>2. CASE {v.start : v \in {u \in slots : u.start >= End(t)}} = {}
        <3>1. end = Larger(UsableEnd, End(t))
            BY <2>2 DEF GapEnds
        <3>2. end = UsableEnd
            BY <1>4, <3>1 DEF Larger
        <3>3. \A u \in slots : ~(u.start >= End(t))
            BY <2>2
        <3> QED BY <1>4, <3>2, <3>3
    <2>3. CASE {v.start : v \in {u \in slots : u.start >= End(t)}} # {}
        <3>1. /\ end \in {v.start : v \in {u \in slots : u.start >= End(t)}}
              /\ \A x \in {v.start : v \in {u \in slots : u.start >= End(t)}} : end <= x
            BY <2>3 DEF GapEnds, LeastOf
        <3> QED BY <2>1, <3>1
    <2> QED BY <2>2, <2>3
<1>6. size \in Nat /\ size > 0 /\ size <= end - t.start /\ Used(s) <= size
    BY <1>4, <1>5, FittedSize
<1>7. /\ n.start = t.start /\ n.size = size /\ n.src = s /\ n.live = t.live
    BY <1>4 DEF Slot
<1>8. n \in Slot
    BY <1>4, <1>6, SourceType DEF Slot
<1>9. Fits(n, UsableEnd)
    BY <1>4, <1>5, <1>6, <1>7, <1>8 DEF Fits, End
<1>10. ASSUME NEW u \in slots \ {t} PROVE Apart(n, u) /\ Apart(u, n)
    <2>1. Apart(t, u) /\ End(u) \in Nat /\ u.start \in Nat
        BY <1>1, SlotType DEF EditorInv, Fits
    <2>2. End(n) = t.start + size
        BY <1>7 DEF End
    <2> QED BY <1>4, <1>5, <1>6, <1>7, <2>1, <2>2 DEF Apart
<1> HIDE DEF n
<1> QED BY <1>1, <1>3, <1>9, <1>10, ReplaceKeeps DEF n

\* Dropping a source into a gap fills no more than the gap.
LEMMA GapDropKeeps ==
    ASSUME EditorInv, NEW s \in SourceParts, NEW gap \in Gaps, ApplyGapDrop(s, gap)
    PROVE  EditorInv'
<1> DEFINE from == GapStart(gap)
           to == GapStop(gap)
<1>1. ~fullDisk /\ UNCHANGED <<tableGpt, fullDisk>>
      /\ (tableGpt \/ Cardinality(slots) < MbrSlots) /\ from < to
    BY DEF ApplyGapDrop, PartialEdit, Edit
<1>2. PICK size \in FitInto(s, to - from) :
          slots' = slots \cup {[start |-> from, size |-> size, src |-> s, live |-> 0]}
    BY DEF ApplyGapDrop
<1>3. \A u \in slots : u.start \in Nat /\ u.size \in Nat /\ u.size > 0 /\ End(u) = u.start + u.size
    BY <1>1, SlotType DEF EditorInv, Fits, End
<1>4. UsableEnd \in Nat /\ Target.size \in Nat
    BY UsableEndType, LayoutAssumption DEF EditorInv
<1>5. /\ gap.lo \in Nat /\ gap.hi \in Nat
      /\ \A u \in slots : End(u) <= gap.lo \/ u.start >= gap.hi
    BY <1>3, <1>4 DEF Gaps, FreeSpans
<1>6. from \in Nat /\ gap.lo <= from
    <2>1. Larger(gap.lo, Align) \in Nat /\ gap.lo <= Larger(gap.lo, Align)
        BY <1>5, LayoutAssumption DEF Larger
    <2> QED BY <1>5, <2>1, AlignUpIsAbove, LayoutAssumption DEF GapStart
<1>7. to \in Nat /\ to <= gap.hi /\ to <= UsableEnd
    BY <1>4, <1>5 DEF GapStop, Smaller
<1> HIDE DEF from, to
<1>8. size \in Nat /\ size > 0 /\ size <= to - from /\ Used(s) <= size
    BY <1>1, <1>6, <1>7, FittedSize
<1> DEFINE n == [start |-> from, size |-> size, src |-> s, live |-> 0]
<1>9. Fits(n, UsableEnd)
    BY <1>4, <1>6, <1>7, <1>8, SourceType DEF Fits, End, Slot
<1>10. ASSUME NEW u \in slots PROVE Apart(n, u) /\ Apart(u, n)
    <2>1. End(n) = from + size
        BY DEF End
    <2> QED BY <1>3, <1>5, <1>6, <1>7, <1>8, <2>1 DEF Apart
<1> HIDE DEF n
<1> QED BY <1>1, <1>2, <1>9, <1>10, InsertKeeps DEF n

\* Deleting a slot leaves the rest as it was.
LEMMA DeleteKeeps ==
    ASSUME EditorInv, NEW t \in slots, DeleteSelected(t)
    PROVE  EditorInv'
<1>1. ~fullDisk /\ UNCHANGED <<tableGpt, fullDisk>> /\ slots' = slots \ {t}
    BY DEF DeleteSelected, PartialEdit, Edit
<1>2. IsFiniteSet(slots) /\ IsFiniteSet(slots') /\ Cardinality(slots') = Cardinality(slots) - 1
    BY <1>1, FS_RemoveElement DEF EditorInv
<1>3. Cardinality(slots) \in Nat /\ MbrSlots \in Nat
    BY <1>2, FS_CardinalityType, LayoutAssumption
<1>4. UsableEnd' = UsableEnd
    BY <1>1 DEF UsableEnd
<1>5. ~tableGpt' => Cardinality(slots') <= MbrSlots
    BY <1>1, <1>2, <1>3 DEF EditorInv
<1>6. \A u \in slots' : Fits(u, UsableEnd)
    BY <1>1 DEF EditorInv
<1>7. (\A u \in slots : Fits(u, UsableEnd))' <=> \A u \in slots' : Fits(u, UsableEnd)
    BY <1>4 DEF Fits, End, Mapped, Used, Slot, SourceParts, LiveParts
<1> QED BY <1>1, <1>2, <1>5, <1>6, <1>7 DEF EditorInv

\* A blank layout has nothing that could overlap.
LEMMA BlankKeeps ==
    ASSUME EditorInv, NEW gpt \in BOOLEAN, BlankLayout(gpt)
    PROVE  EditorInv'
<1>1. slots' = {} /\ tableGpt' = gpt /\ fullDisk' = fullDisk
    BY DEF BlankLayout
<1>2. IsFiniteSet(slots') /\ Cardinality(slots') <= MbrSlots
    BY <1>1, FS_EmptySet, LayoutAssumption
<1> QED BY <1>1, <1>2 DEF EditorInv

\* The layout rebuilt from the live table is as sound as that table.
LEMMA RebuildKeeps == Rebuild => EditorInv'
<1> SUFFICES ASSUME Rebuild PROVE EditorInv'
    OBVIOUS
<1>1. slots' = LiveSlots /\ tableGpt' = Target.gpt /\ fullDisk' = FALSE
    BY DEF Rebuild
<1>2. UsableEnd' = IF Target.gpt THEN Target.size - Trail ELSE Ceiling(FALSE)
    BY <1>1 DEF UsableEnd, Ceiling
<1>3. \A t \in slots' : Fits(t, UsableEnd')
    BY <1>1, <1>2, LiveLayoutFits
<1>4. (\A u \in slots : Fits(u, UsableEnd))' <=> \A u \in slots' : Fits(u, UsableEnd')
    BY DEF Fits, End, Mapped, Used, Slot, SourceParts, LiveParts
<1>5. Target.gpt \in BOOLEAN
    BY LayoutAssumption
<1> QED BY <1>1, <1>3, <1>4, <1>5, LiveLayoutFits DEF EditorInv

\* A full-disk layout leaves the invariant, which is about partial ones, nothing to say.
LEMMA FullDiskKeeps == ASSUME NEW layout, FullDisk(layout)
                       PROVE  EditorInv'
BY SourceAssumption DEF FullDisk, EditorInv

\* What a drag leaves in place of t: the other slots are obstacles.
LEMMA PlacedKeeps ==
    ASSUME EditorInv, ~fullDisk, UNCHANGED fullDisk, NEW t \in slots, Mapped(t),
           NEW start \in Nat, NEW size \in Nat, size > 0, Used(t.src) <= size,
           start + size <= UsableEnd,
           \A u \in slots \ {t} : start + size <= u.start \/ End(u) <= start,
           Placed(t, start, size)
    PROVE  EditorInv'
<1> DEFINE n == [t EXCEPT !.start = start, !.size = size]
<1>1. t \in Slot
    BY DEF EditorInv, Fits
<1>2. n.start = start /\ n.size = size /\ n.src = t.src /\ n \in Slot
    BY <1>1 DEF Slot
<1>3. Fits(n, UsableEnd)
    BY <1>2 DEF Fits, End
<1>4. \A u \in slots \ {t} : Apart(n, u) /\ Apart(u, n)
    BY <1>2 DEF Apart, End
<1>5. slots' = (slots \ {t}) \cup {n} /\ UNCHANGED tableGpt
    BY DEF Placed
<1> HIDE DEF n
<1> QED BY <1>3, <1>4, <1>5, ReplaceKeeps

\* Facts every drag of a mapped slot starts from.
LEMMA DragFacts ==
    ASSUME EditorInv, ~fullDisk, NEW t \in slots, Mapped(t)
    PROVE  /\ t.src \in SourceParts /\ t.start \in Nat /\ t.size \in Nat /\ t.size > 0
           /\ End(t) = t.start + t.size /\ End(t) <= UsableEnd /\ UsableEnd \in Nat
           /\ Used(t.src) \in Nat /\ Used(t.src) <= t.size
           /\ LeastSize(t) \in Nat /\ LeastSize(t) > 0 /\ Used(t.src) <= LeastSize(t)
           /\ \A u \in slots : /\ u.start \in Nat /\ u.size \in Nat /\ u.size > 0
                               /\ End(u) = u.start + u.size /\ End(u) <= UsableEnd
           /\ \A u \in slots \ {t} : u \in Obstacles(t) /\ Apart(t, u)
           /\ \A o \in Obstacles(t) : o.start \in Nat /\ End(o) \in Nat /\ o.start <= UsableEnd
<1>1. \A u \in slots : /\ u.start \in Nat /\ u.size \in Nat /\ u.size > 0
                       /\ End(u) = u.start + u.size /\ End(u) <= UsableEnd
    BY SlotType DEF EditorInv, Fits, End
<1>2. UsableEnd \in Nat
    BY UsableEndType DEF EditorInv
<1>3. t.src \in SourceParts /\ Used(t.src) <= t.size
    BY SlotType DEF EditorInv, Fits, Mapped
<1>4. Used(t.src) \in Nat
    BY <1>3, SourceType
<1>5. AlignUp(Used(t.src), Align) \in Nat /\ AlignUp(Used(t.src), Align) >= Used(t.src)
    BY <1>4, AlignUpIsAbove, LayoutAssumption
<1>6. LeastSize(t) \in Nat /\ LeastSize(t) > 0 /\ Used(t.src) <= LeastSize(t)
    BY <1>4, <1>5, LayoutAssumption DEF LeastSize, Larger
<1>7. \A u \in slots \ {t} : u \in Obstacles(t) /\ Apart(t, u)
    BY DEF EditorInv, Obstacles
<1>8. ASSUME NEW o \in FrontReserve
      PROVE  o.start = 0 /\ End(o) \in Nat
    <2>1. PICK f \in LeastOf({u.start : u \in slots} \cup {Align}) : o = [start |-> 0, size |-> f]
        BY DEF FrontReserve
    <2>2. f \in Nat
        BY <1>1, <2>1, LayoutAssumption DEF LeastOf
    <2> QED BY <2>1, <2>2 DEF End
<1>9. \A o \in Obstacles(t) : o.start \in Nat /\ End(o) \in Nat /\ o.start <= UsableEnd
    <2> SUFFICES ASSUME NEW o \in Obstacles(t)
                 PROVE  o.start \in Nat /\ End(o) \in Nat /\ o.start <= UsableEnd
        OBVIOUS
    <2>1. CASE o \in slots
        BY <1>1, <1>2, <2>1
    <2>2. CASE o \in FrontReserve
        BY <1>2, <1>8, <2>2
    <2> QED BY <2>1, <2>2 DEF Obstacles
<1> QED BY <1>1, <1>2, <1>3, <1>4, <1>6, <1>7, <1>9

\* A dragged slot stays in the gap around it.
LEMMA MoveKeeps ==
    ASSUME EditorInv, NEW t \in slots, NEW pointer \in Nat, NEW grab \in Nat,
           MoveSlot(t, pointer, grab)
    PROVE  EditorInv'
<1> DEFINE desired == AtLeastZero(pointer - grab)
           spans == FreeSpans(Obstacles(t), UsableEnd)
<1>1. ~fullDisk /\ UNCHANGED fullDisk /\ Mapped(t)
    <2>1. ~fullDisk /\ Mapped(t)
        BY DEF MoveSlot, PartialEdit
    <2> QED BY <2>1 DEF MoveSlot, Placed
<1>2. PICK at \in MoveCandidates(Obstacles(t), UsableEnd, t, pointer, desired, Align) :
          Placed(t, at, t.size)
    BY DEF MoveSlot
<1>3. desired \in Nat
    BY DEF AtLeastZero
<1> HIDE DEF desired, spans
<1>4. PICK home \in {q \in spans : q.lo <= t.start /\ End(t) <= q.hi} :
          \E r \in SpanFor(spans, home, t.size, pointer) :
              at = ClampAligned(desired, r.lo, r.hi - t.size, Align)
    BY <1>2 DEF MoveCandidates, spans
<1>5. PICK r \in SpanFor(spans, home, t.size, pointer) :
          at = ClampAligned(desired, r.lo, r.hi - t.size, Align)
    BY <1>4
<1>6. /\ r \in spans /\ r.hi - r.lo >= t.size
    <2>1. home \in spans /\ home.lo <= t.start /\ End(t) <= home.hi
        OBVIOUS
    <2>2. home.lo \in Nat /\ home.hi \in Nat
        BY <2>1, <1>1, DragFacts DEF FreeSpans, spans
    <2>3. home.hi - home.lo >= t.size
        BY <2>1, <2>2, <1>1, DragFacts
    <2> QED BY <2>1, <2>3 DEF SpanFor, Room
<1>7. /\ r.lo \in Nat /\ r.hi \in Nat /\ r.hi <= UsableEnd
      /\ \A u \in slots \ {t} : End(u) <= r.lo \/ u.start >= r.hi
    BY <1>1, <1>6, DragFacts DEF FreeSpans, spans
<1>8. t.size \in Nat /\ t.size > 0 /\ UsableEnd \in Nat /\ Used(t.src) <= t.size
      /\ \A u \in slots : u.start \in Nat /\ End(u) \in Nat
    BY <1>1, DragFacts
<1>9. at \in Nat /\ r.lo <= at /\ at <= r.hi - t.size
    <2> DEFINE top == r.hi - t.size
    <2>1. top \in Nat /\ r.lo <= top
        BY <1>6, <1>7, <1>8
    <2>2. at = ClampAligned(desired, r.lo, top, Align)
        BY <1>5
    <2>3. Align \in Nat \ {0}
        BY LayoutAssumption
    <2> HIDE DEF top
    <2>4. at \in Nat /\ at \in r.lo .. top
        BY <1>3, <1>7, <2>1, <2>2, <2>3, ClampAlignedInRange
    <2>5. r.lo <= at /\ at <= top
        BY <1>7, <2>1, <2>4
    <2> QED BY <2>4, <2>5 DEF top
<1>10. at + t.size <= UsableEnd
    BY <1>7, <1>8, <1>9
<1>11. \A u \in slots \ {t} : at + t.size <= u.start \/ End(u) <= at
    BY <1>7, <1>8, <1>9
<1> QED BY <1>1, <1>2, <1>8, <1>9, <1>10, <1>11, PlacedKeeps

\* The left edge of a slot stops at the neighbour and at what is used.
LEMMA ResizeLeftKeeps ==
    ASSUME EditorInv, NEW t \in slots, NEW pointer \in Nat, NEW snap \in Nat,
           ResizeLeft(t, pointer, snap)
    PROVE  EditorInv'
<1> DEFINE hi == End(t) - LeastSize(t)
           ends == {End(o) : o \in {q \in Obstacles(t) : End(q) <= t.start}}
<1>1. ~fullDisk /\ Mapped(t) /\ LeastSize(t) <= End(t)
    BY DEF ResizeLeft, PartialEdit
<1>2. PICK at \in LeftEdges(Obstacles(t), t, LeastSize(t), pointer, snap, Align) :
          Placed(t, at, End(t) - at)
    BY DEF ResizeLeft
<1>3. UNCHANGED fullDisk
    BY <1>2 DEF Placed
<1>4. hi \in Nat /\ End(t) \in Nat /\ hi <= End(t) - LeastSize(t) /\ t.start \in Nat
    BY <1>1, DragFacts
<1>5. PICK lo \in {l \in GreatestOf({0} \cup ends) : l <= hi} :
          at = IF Clamp(pointer, lo, hi) - lo <= snap THEN lo
               ELSE ClampAligned(pointer, lo, hi, Align)
    BY <1>2 DEF LeftEdges
<1>6. lo \in Nat /\ lo <= hi /\ \A x \in ends : x <= lo
    BY <1>1, <1>4, <1>5, DragFacts DEF GreatestOf
<1>7. at \in Nat /\ lo <= at /\ at <= hi
    <2>1. Align \in Nat \ {0}
        BY LayoutAssumption
    <2> HIDE DEF hi
    <2>2. ClampAligned(pointer, lo, hi, Align) \in Nat /\ ClampAligned(pointer, lo, hi, Align) \in lo .. hi
        BY <1>4, <1>6, <2>1, ClampAlignedInRange
    <2> QED BY <1>4, <1>5, <1>6, <2>2
<1> DEFINE size == End(t) - at
<1>8. LeastSize(t) \in Nat /\ LeastSize(t) > 0 /\ Used(t.src) <= LeastSize(t) /\ Used(t.src) \in Nat
      /\ End(t) <= UsableEnd /\ UsableEnd \in Nat
    BY <1>1, DragFacts
<1>9. size \in Nat /\ size > 0 /\ Used(t.src) <= size /\ at + size = End(t)
    BY <1>4, <1>7, <1>8
<1>10. ASSUME NEW u \in slots \ {t}
       PROVE  at + size <= u.start \/ End(u) <= at
    <2>1. Apart(t, u) /\ u \in Obstacles(t) /\ End(u) \in Nat
        BY <1>1, DragFacts
    <2>2. CASE End(t) <= u.start
        BY <1>9, <2>2
    <2>3. CASE End(u) <= t.start
        <3>1. End(u) <= lo
            BY <1>6, <2>1, <2>3
        <3> QED BY <1>6, <1>7, <2>1, <3>1
    <2> QED BY <2>1, <2>2, <2>3 DEF Apart
<1>11. at + size <= UsableEnd
    BY <1>8, <1>9
<1>12. Placed(t, at, size)
    BY <1>2
<1> HIDE DEF size, hi, ends
<1> QED BY <1>1, <1>3, <1>7, <1>9, <1>10, <1>11, <1>12, PlacedKeeps

\* The right edge of a slot stops at the neighbour, the end and at what is used.
LEMMA ResizeRightKeeps ==
    ASSUME EditorInv, NEW t \in slots, NEW pointer \in Nat, NEW snap \in Nat,
           ResizeRight(t, pointer, snap)
    PROVE  EditorInv'
<1> DEFINE lo == t.start + LeastSize(t)
           starts == {o.start : o \in {q \in Obstacles(t) : q.start >= t.start}}
<1>1. ~fullDisk /\ Mapped(t)
    BY DEF ResizeRight, PartialEdit
<1>2. PICK end \in RightEdges(Obstacles(t), UsableEnd, t, LeastSize(t), pointer, snap, Align) :
          Placed(t, t.start, end - t.start)
    BY DEF ResizeRight
<1>3. UNCHANGED fullDisk
    BY <1>2 DEF Placed
<1>4. lo \in Nat /\ t.start \in Nat /\ UsableEnd \in Nat
    BY <1>1, DragFacts
<1>5. PICK hi \in {h \in IF starts = {} THEN {UsableEnd} ELSE LeastOf(starts) : lo <= h} :
          end = IF hi - Clamp(pointer, lo, hi) <= snap THEN hi
                ELSE ClampAligned(pointer, lo, hi, Align)
    BY <1>2 DEF RightEdges
<1>6. hi \in Nat /\ lo <= hi /\ hi <= UsableEnd /\ \A x \in starts : hi <= x
    <2>1. \A x \in starts : x \in Nat /\ x <= UsableEnd
        BY <1>1, DragFacts
    <2> HIDE DEF starts
    <2>2. CASE starts = {}
        BY <1>4, <1>5, <2>2
    <2>3. CASE starts # {}
        BY <1>4, <1>5, <2>1, <2>3 DEF LeastOf
    <2> QED BY <2>2, <2>3
<1>7. end \in Nat /\ lo <= end /\ end <= hi
    <2>1. Align \in Nat \ {0}
        BY LayoutAssumption
    <2> HIDE DEF lo
    <2>2. ClampAligned(pointer, lo, hi, Align) \in Nat /\ ClampAligned(pointer, lo, hi, Align) \in lo .. hi
        BY <1>4, <1>6, <2>1, ClampAlignedInRange
    <2> QED BY <1>4, <1>5, <1>6, <2>2
<1> DEFINE size == end - t.start
<1>8. LeastSize(t) \in Nat /\ LeastSize(t) > 0 /\ Used(t.src) <= LeastSize(t) /\ Used(t.src) \in Nat
    BY <1>1, DragFacts
<1>9. size \in Nat /\ size > 0 /\ Used(t.src) <= size /\ t.start + size = end
    BY <1>4, <1>7, <1>8
<1>10. ASSUME NEW u \in slots \ {t}
       PROVE  t.start + size <= u.start \/ End(u) <= t.start
    <2>1. Apart(t, u) /\ u \in Obstacles(t) /\ End(u) \in Nat /\ u.start \in Nat
        BY <1>1, DragFacts
    <2>2. CASE End(u) <= t.start
        BY <2>2
    <2>3. CASE End(t) <= u.start
        <3>1. t.start <= u.start
            BY <1>1, <1>4, <2>1, <2>3, DragFacts
        <3>2. hi <= u.start
            BY <1>6, <2>1, <3>1
        <3> QED BY <1>6, <1>7, <1>9, <2>1, <3>2
    <2> QED BY <2>1, <2>2, <2>3 DEF Apart
<1>11. t.start + size <= UsableEnd
    BY <1>4, <1>6, <1>7, <1>9
<1>12. Placed(t, t.start, size)
    BY <1>2
<1> HIDE DEF size, lo, starts
<1> QED BY <1>1, <1>3, <1>4, <1>9, <1>10, <1>11, <1>12, PlacedKeeps

--------------------------------------------------------------------------------
(* The theorem about the editor. *)

\* The first layout is the live one.
LEMMA EditorInvInit == Init => EditorInv
<1> SUFFICES ASSUME Init PROVE EditorInv
    OBVIOUS
<1>1. slots = LiveSlots /\ tableGpt = Target.gpt /\ fullDisk = FALSE
    BY DEF Init, EditorInit
<1>2. UsableEnd = IF Target.gpt THEN Target.size - Trail ELSE Ceiling(FALSE)
    BY <1>1 DEF UsableEnd, Ceiling
<1>3. Target.gpt \in BOOLEAN
    BY LayoutAssumption
<1> QED BY <1>1, <1>2, <1>3, LiveLayoutFits DEF EditorInv

\* What leaves the editor alone leaves its layout sound.
LEMMA EditorInvUnchanged == ASSUME EditorInv, UNCHANGED editorVars PROVE EditorInv'
<1>1. slots' = slots /\ tableGpt' = tableGpt /\ fullDisk' = fullDisk
    BY DEF editorVars
<1>2. UsableEnd' = UsableEnd
    BY <1>1 DEF UsableEnd
<1>3. (\A u \in slots : Fits(u, UsableEnd))' <=> \A u \in slots : Fits(u, UsableEnd)
    BY <1>1, <1>2 DEF Fits, End, Mapped, Used, Slot, SourceParts, LiveParts
<1> QED BY <1>1, <1>3 DEF EditorInv

\* Every edit keeps the layout sound.
LEMMA EditorKeeps == ASSUME EditorInv, EditorNext PROVE EditorInv'
<1>1. \A pointer \in Pointers : pointer \in Nat
    BY LayoutAssumption DEF Pointers
<1>2. Align \in Nat /\ \A snap \in {0, Align} : snap \in Nat
    BY LayoutAssumption
<1>3. ASSUME NEW t \in slots, DeleteSelected(t) PROVE EditorInv'
    BY <1>3, DeleteKeeps
<1>4. ASSUME NEW t \in slots, NEW s \in SourceParts, ApplyDrop(s, t) PROVE EditorInv'
    BY <1>4, DropKeeps
<1>5. ASSUME NEW t \in slots, NEW pointer \in Pointers, NEW grab \in 0 .. t.size,
             MoveSlot(t, pointer, grab)
      PROVE  EditorInv'
    <2>1. grab \in Nat
        BY SMT
    <2> QED BY <1>1, <1>5, <2>1, MoveKeeps
<1>6. ASSUME NEW t \in slots, NEW pointer \in Pointers, NEW snap \in {0, Align},
             ResizeLeft(t, pointer, snap) \/ ResizeRight(t, pointer, snap)
      PROVE  EditorInv'
    BY <1>1, <1>2, <1>6, ResizeLeftKeeps, ResizeRightKeeps
<1>7. ASSUME NEW s \in SourceParts, NEW gap \in Gaps, ApplyGapDrop(s, gap) PROVE EditorInv'
    BY <1>7, GapDropKeeps
<1>8. ASSUME NEW gpt \in BOOLEAN, BlankLayout(gpt) PROVE EditorInv'
    BY <1>8, BlankKeeps
<1>9. ASSUME ResetLayout \/ ClearFullDisk PROVE EditorInv'
    BY <1>9, RebuildKeeps DEF ResetLayout, ClearFullDisk
<1>10. ASSUME ApplyFullDisk PROVE EditorInv'
    BY <1>10, FullDiskKeeps DEF ApplyFullDisk
<1>11. ASSUME NEW expand \in BOOLEAN, SeedFullDiskClone(expand) PROVE EditorInv'
    BY <1>11, FullDiskKeeps DEF SeedFullDiskClone
<1> QED BY <1>3, <1>4, <1>5, <1>6, <1>7, <1>8, <1>9, <1>10, <1>11 DEF EditorNext

\* Once the editing is over no step touches the layout.
LEMMA RunLeavesLayout ==
    ASSUME Starting \/ Running \/ Cancel
    PROVE  UNCHANGED editorVars
<1>1. CASE Starting
    BY <1>1 DEF Starting, MakePlan
<1>2. CASE Cancel
    BY <1>2 DEF Cancel
<1>3. CASE RestoreNext
    BY <1>3 DEF RestoreNext, RestoreAccept, RestoreRefuse, RestoreLock, RestoreLockBusy,
        RestoreStreamRefs, RestoreStreamSlot, RestoreStreamed, RestoreRemovedBusy, RestorePlant,
        RestorePlantFails, StartOf, Refuse, Fail, Stream, Advance, Plant
<1>4. CASE CloneNext
    BY <1>4 DEF CloneNext, CloneAccept, CloneRefuse, CloneFreeze, CloneFreezeFails, CloneLock,
        CloneLockBusy, CloneStreamSlot, CloneStreamed, ClonePlant, ClonePlantFails,
        StartOf, Refuse, Fail, Stream, Advance, Plant
<1>5. CASE InitTarget \/ InitFails \/ Finish
    BY <1>5 DEF InitTarget, InitFails, Finish, Fail
<1> QED BY <1>1, <1>2, <1>3, <1>4, <1>5 DEF Running

\* Every step keeps the invariant of the editor.
LEMMA EditorStep == EditorInv /\ [Next]_vars => EditorInv'
<1> SUFFICES ASSUME EditorInv, [Next]_vars PROVE EditorInv'
    OBVIOUS
<1>1. CASE Editing
    BY <1>1, EditorKeeps DEF Editing
<1>2. CASE Starting \/ Running \/ Cancel
    BY <1>2, RunLeavesLayout, EditorInvUnchanged
<1>3. CASE UNCHANGED vars
    BY <1>3, EditorInvUnchanged DEF vars
<1> QED BY <1>1, <1>2, <1>3 DEF Next

\* Whatever is dropped, moved, resized, deleted or reset, a partial layout stays one
\* that the checks of both engines accept.
THEOREM EditorTheorem == Spec => []EditorPlansPass
<1>1. Init => EditorInv
    BY EditorInvInit
<1>2. EditorInv /\ [Next]_vars => EditorInv'
    BY EditorStep
<1>3. EditorInv => EditorPlansPass
    BY InvGivesPlans
<1> QED BY <1>1, <1>2, <1>3, PTL DEF Spec

--------------------------------------------------------------------------------
(* The theorem about refused plans. *)

Untouched == table = LiveSlots /\ content = [b \in Blocks |-> Old]
UntouchedInv ==
    /\ phase \in {"editing", "preflight", "freeze"} => Untouched
    /\ outcome = "refused" => phase = "over" /\ Untouched

\* Steps that stop or move the run without touching the disk.
LEMMA QuietKeeps ==
    ASSUME UntouchedInv, UNCHANGED <<content, table>>, phase # "over",
           \/ phase' \in {"preflight", "freeze"} /\ outcome' = outcome
              /\ phase \in {"editing", "preflight", "freeze"}
           \/ phase' \notin {"editing", "preflight", "freeze"}
              /\ (outcome' = outcome \/ outcome' # "refused")
    PROVE  UntouchedInv'
BY DEF UntouchedInv, Untouched, LiveSlots, Blocks, Old, LiveParts

\* A refusal before the first write has written nothing.
LEMMA RefuseKeeps ==
    ASSUME UntouchedInv, phase \in {"preflight", "freeze"}, Refuse PROVE UntouchedInv'
BY DEF UntouchedInv, Untouched, Refuse, Stop, LiveSlots, Blocks, Old, LiveParts

\* A failure is no refusal.
LEMMA FailKeeps == ASSUME UntouchedInv, phase # "over", Fail PROVE UntouchedInv'
<1>1. UNCHANGED <<content, table>> /\ phase' = "over" /\ outcome' = "failed"
    BY DEF Fail, Stop
<1> QED BY <1>1, QuietKeeps

\* Steps past the checks: the run has begun and nothing is refused any more.
LEMMA BusyKeeps ==
    ASSUME UntouchedInv, phase \notin {"editing", "preflight", "freeze", "over"},
           phase' \notin {"editing", "preflight", "freeze"},
           outcome' = outcome \/ outcome' # "refused"
    PROVE  UntouchedInv'
BY DEF UntouchedInv

\* Streaming comes after acceptance, when nothing refuses any more.
LEMMA StreamKeeps ==
    ASSUME UntouchedInv, phase \in {"next", "stream"}, NEW t, NEW limit, Stream(t, limit)
    PROVE  UntouchedInv'
<1>1. \/ phase' = "next" /\ outcome' = outcome
      \/ phase' = "over" /\ outcome' \in {"denied", "failed", "cancelled"}
    BY DEF Stream, Stop
<1> QED BY <1>1, BusyKeeps

\* Planting the table comes after acceptance.
LEMMA PlantKeeps ==
    ASSUME UntouchedInv, NEW entries, Plant(entries) PROVE UntouchedInv'
<1>1. phase = "plant" /\ phase' = "finish" /\ outcome' = outcome
    BY DEF Plant
<1> QED BY <1>1, BusyKeeps

\* No step of a restore refuses after it wrote.
LEMMA RestoreKeeps == ASSUME UntouchedInv, RestoreNext PROVE UntouchedInv'
<1>1. CASE RestoreAccept
    <2>1. phase = "preflight" /\ phase' \in {"init", "next"} /\ UNCHANGED <<content, table, outcome>>
        BY <1>1 DEF RestoreAccept, StartOf
    <2> QED BY <2>1, QuietKeeps
<1>2. CASE RestoreRefuse
    BY <1>2, RefuseKeeps DEF RestoreRefuse
<1>3. CASE RestoreLock
    <2>1. phase = "next" /\ phase' = "stream" /\ outcome' = outcome
        BY <1>3 DEF RestoreLock
    <2> QED BY <2>1, BusyKeeps
<1>4. CASE RestoreLockBusy \/ RestoreStreamRefs \/ RestoreRemovedBusy \/ RestorePlantFails
    BY <1>4, FailKeeps
       DEF RestoreLockBusy, RestoreStreamRefs, RestoreRemovedBusy, RestorePlantFails
<1>5. CASE RestoreStreamSlot
    BY <1>5, StreamKeeps DEF RestoreStreamSlot
<1>6. CASE RestoreStreamed
    <2>1. phase = "next" /\ phase' = "plant" /\ outcome' = outcome
        BY <1>6 DEF RestoreStreamed
    <2> QED BY <2>1, BusyKeeps
<1>7. CASE RestorePlant
    BY <1>7, PlantKeeps DEF RestorePlant
<1> QED BY <1>1, <1>2, <1>3, <1>4, <1>5, <1>6, <1>7 DEF RestoreNext

\* No step of a clone refuses after it wrote.
LEMMA CloneKeeps == ASSUME UntouchedInv, CloneNext PROVE UntouchedInv'
<1>1. CASE CloneAccept
    <2>1. phase = "preflight" /\ phase' = "freeze" /\ UNCHANGED <<content, table, outcome>>
        BY <1>1 DEF CloneAccept, StartOf
    <2> QED BY <2>1, QuietKeeps
<1>2. CASE CloneRefuse \/ CloneFreezeFails
    BY <1>2, RefuseKeeps DEF CloneRefuse, CloneFreezeFails
<1>3. CASE CloneFreeze
    <2>1. phase = "freeze" /\ phase' \in {"init", "lock"} /\ UNCHANGED <<content, table, outcome>>
        BY <1>3 DEF CloneFreeze, Advance
    <2> QED BY <2>1, QuietKeeps
<1>4. CASE CloneLock
    <2>1. phase = "lock" /\ phase' = "next" /\ outcome' = outcome
        BY <1>4 DEF CloneLock
    <2> QED BY <2>1, BusyKeeps
<1>5. CASE CloneLockBusy \/ ClonePlantFails
    BY <1>5, FailKeeps DEF CloneLockBusy, ClonePlantFails
<1>6. CASE CloneStreamSlot
    BY <1>6, StreamKeeps DEF CloneStreamSlot
<1>7. CASE CloneStreamed
    <2>1. phase = "next" /\ phase' = "plant" /\ outcome' = outcome
        BY <1>7 DEF CloneStreamed, Advance
    <2> QED BY <2>1, BusyKeeps
<1>8. CASE ClonePlant
    BY <1>8, PlantKeeps DEF ClonePlant
<1> QED BY <1>1, <1>2, <1>3, <1>4, <1>5, <1>6, <1>7, <1>8 DEF CloneNext

\* No step of a run touches the disk before the checks are over, or refuses after.
LEMMA UntouchedKeeps == UntouchedInv /\ [Next]_vars => UntouchedInv'
<1> SUFFICES ASSUME UntouchedInv, [Next]_vars PROVE UntouchedInv'
    OBVIOUS
<1>1. CASE Editing
    <2>1. phase = "editing" /\ phase' = phase /\ UNCHANGED <<content, table, outcome>>
        BY <1>1 DEF Editing, EditorNext, diskVars, DeleteSelected, ApplyDrop, MoveSlot,
            ResizeLeft, ResizeRight, ApplyGapDrop, BlankLayout, ResetLayout, ApplyFullDisk,
            SeedFullDiskClone, ClearFullDisk, FullDisk, PartialEdit, Edit
    <2> QED BY <2>1 DEF UntouchedInv, Untouched, LiveSlots, Blocks, Old, LiveParts
<1>2. CASE Starting
    <2>1. phase = "editing" /\ phase' = "preflight" /\ UNCHANGED <<content, table, outcome>>
        BY <1>2 DEF Starting, MakePlan, diskVars
    <2> QED BY <2>1, QuietKeeps
<1>3. CASE Cancel
    <2>1. phase = "next" /\ phase' = "over" /\ outcome' = "cancelled"
        BY <1>3 DEF Cancel, Stop
    <2> QED BY <2>1, BusyKeeps
<1>4. CASE RestoreNext
    BY <1>4, RestoreKeeps
<1>5. CASE CloneNext
    BY <1>5, CloneKeeps
<1>6. CASE InitTarget
    <2>1. phase = "init" /\ phase' = "next" /\ outcome' = outcome
        BY <1>6 DEF InitTarget
    <2> QED BY <2>1, BusyKeeps
<1>7. CASE InitFails
    BY <1>7, FailKeeps DEF InitFails
<1>8. CASE Finish
    <2>1. phase = "finish" /\ phase' = "over" /\ outcome' = "done"
        BY <1>8 DEF Finish, Stop
    <2> QED BY <2>1, BusyKeeps
<1>9. CASE UNCHANGED vars
    BY <1>9 DEF vars, diskVars, UntouchedInv, Untouched, LiveSlots, Blocks, Old, LiveParts
<1> QED BY <1>1, <1>2, <1>3, <1>4, <1>5, <1>6, <1>7, <1>8, <1>9 DEF Next, Running

\* A refused restore or clone leaves the target's table and every block as they were.
THEOREM RefusedTheorem == Spec => []RefusedUntouched
<1>1. Init => UntouchedInv
    BY DEF Init, EditorInit, DiskInit, UntouchedInv, Untouched
<1>2. UntouchedInv /\ [Next]_vars => UntouchedInv'
    BY UntouchedKeeps
<1>3. UntouchedInv => RefusedUntouched
    BY DEF UntouchedInv, Untouched, RefusedUntouched
<1> QED BY <1>1, <1>2, <1>3, PTL DEF Spec

--------------------------------------------------------------------------------
(* Where the data of a slot lands. *)

\* A finite set goes into one that is no smaller.
LEMMA SmallerGoesInto ==
    ASSUME NEW S, NEW T, IsFiniteSet(S), IsFiniteSet(T), Cardinality(S) <= Cardinality(T)
    PROVE  \E f \in [S -> T] : \A j, k \in S : f[j] = f[k] => j = k
<1> DEFINE m == Cardinality(S)
           n == Cardinality(T)
<1>1. m \in Nat /\ n \in Nat /\ ExistsBijection(1 .. m, S) /\ ExistsBijection(1 .. n, T)
    BY FS_CardinalityType
<1> HIDE DEF m, n
<1>2. ExistsInjection(S, 1 .. m) /\ ExistsInjection(1 .. n, T)
    BY <1>1, Fun_ExistsBijEquiv
<1>3. ExistsInjection(1 .. m, 1 .. n)
    BY <1>1, Fun_NatInjLeq DEF m, n
<1>4. ExistsInjection(S, T)
    BY <1>2, <1>3, Fun_ExistsInjTransitive
<1> QED BY <1>4 DEF ExistsInjection, Injection, IsInjective

Data(t) == Source.parts[t.src].data

\* The data of a planned slot is part of its source, and there is room for it.
LEMMA DataType ==
    \A t \in Slot : Mapped(t) =>
        /\ Source.parts[t.src].size \in Nat /\ Data(t) \subseteq 0 .. (Source.parts[t.src].size - 1)
        /\ IsFiniteSet(Data(t)) /\ Cardinality(Data(t)) = Used(t.src)
<1> SUFFICES ASSUME NEW t \in Slot, Mapped(t)
             PROVE  /\ Source.parts[t.src].size \in Nat
                    /\ Data(t) \subseteq 0 .. (Source.parts[t.src].size - 1)
                    /\ IsFiniteSet(Data(t)) /\ Cardinality(Data(t)) = Used(t.src)
    OBVIOUS
<1>1. t.src \in SourceParts
    BY SlotType DEF Mapped
<1>2. /\ Source.parts[t.src].size \in Nat
      /\ Data(t) \subseteq 0 .. (Source.parts[t.src].size - 1)
    BY <1>1, SourceAssumption DEF Data
<1>3. IsFiniteSet(0 .. (Source.parts[t.src].size - 1))
    BY <1>2, FS_Interval
<1>4. IsFiniteSet(Data(t))
    BY <1>2, <1>3, FS_Subset
<1> QED BY <1>2, <1>4 DEF Data, Used

\* A shrunk NTFS volume whose used blocks fit has a placement: what lies below the
\* new end stays, the rest goes to free blocks below it.
LEMMA PlacementExists ==
    ASSUME NEW D, NEW n \in Nat, D \subseteq Nat, IsFiniteSet(D), Cardinality(D) <= n
    PROVE  \E f \in [D -> 0 .. n - 1] : /\ \A k \in D : k < n => f[k] = k
                                        /\ \A j, k \in D : j # k => f[j] # f[k]
<1> DEFINE All == 0 .. n - 1
           Low == D \cap All
           High == D \ All
           Free == All \ D
<1>1. IsFiniteSet(All) /\ Cardinality(All) = n
    <2>1. 0 \in Int /\ n - 1 \in Int
        OBVIOUS
    <2>2. IsFiniteSet(All) /\ Cardinality(All) = IF 0 > n - 1 THEN 0 ELSE n - 1 - 0 + 1
        BY <2>1, FS_Interval
    <2> QED BY <2>2
<1>2. Low \subseteq D /\ High \subseteq D /\ Free \subseteq All /\ All \cap D = Low /\ D \cap All = Low
    OBVIOUS
<1> HIDE DEF All
<1>3. /\ IsFiniteSet(High) /\ Cardinality(High) = Cardinality(D) - Cardinality(Low)
      /\ IsFiniteSet(Free) /\ Cardinality(Free) = n - Cardinality(Low)
    BY <1>1, <1>2, FS_Difference
<1>4. /\ IsFiniteSet(Low) /\ Cardinality(Low) \in Nat /\ Cardinality(D) \in Nat
    BY <1>2, FS_Subset, FS_CardinalityType
<1>5. Cardinality(High) <= Cardinality(Free)
    BY <1>3, <1>4
<1>6. PICK g \in [High -> Free] : \A j, k \in High : g[j] = g[k] => j = k
    BY <1>3, <1>5, SmallerGoesInto
<1> DEFINE f == [k \in D |-> IF k \in All THEN k ELSE g[k]]
<1>7. ASSUME NEW k \in D
      PROVE  /\ f[k] \in All
             /\ k \in All => f[k] = k
             /\ k \notin All => f[k] = g[k] /\ k \in High /\ f[k] \in Free
    BY <1>6
<1>8. f \in [D -> All]
    BY <1>7
<1>9. ASSUME NEW j \in D, NEW k \in D, f[j] = f[k] PROVE j = k
    <2>1. CASE j \in All /\ k \in All
        BY <1>7, <1>9, <2>1
    <2>2. CASE j \notin All /\ k \notin All
        BY <1>6, <1>7, <1>9, <2>2
    <2>3. CASE j \in All /\ k \notin All
        BY <1>7, <1>9, <2>3
    <2>4. CASE j \notin All /\ k \in All
        BY <1>7, <1>9, <2>4
    <2> QED BY <2>1, <2>2, <2>3, <2>4
<1>10. \A k \in D : k < n => k \in All
    BY DEF All
<1> HIDE DEF f
<1>11. \A k \in D : k < n => f[k] = k
    BY <1>7, <1>10
<1>12. f \in [D -> 0 .. n - 1]
    BY <1>8 DEF All
<1> QED BY <1>9, <1>11, <1>12

\* Where the blocks of a slot land: apart from each other; in the slot, if its NTFS
\* data is moved below the end; where they were in the source, otherwise.
LEMMA PlacementIs ==
    ASSUME NEW t \in Slot, Mapped(t), Used(t.src) <= t.size
    PROVE  /\ \A k \in Data(t) : Placement(t)[k] \in Nat /\ LandsAt(t, k) \in Nat
                                 /\ LandsAt(t, k) >= t.start
           /\ \A j, k \in Data(t) : LandsAt(t, j) = LandsAt(t, k) => j = k
           /\ IF Shrinks(t) /\ IsFs(t, "ntfs")
              THEN \A k \in Data(t) : Placement(t)[k] < t.size /\ LandsAt(t, k) < End(t)
              ELSE \A k \in Data(t) : Placement(t)[k] = k /\ LandsAt(t, k) = t.start + k
<1> DEFINE p == Placement(t)
           Good(f) == /\ \A k \in Data(t) : k < t.size => f[k] = k
                      /\ \A j, k \in Data(t) : j # k => f[j] # f[k]
<1>1. /\ t.start \in Nat /\ t.size \in Nat /\ Data(t) \subseteq Nat
      /\ IsFiniteSet(Data(t)) /\ Cardinality(Data(t)) <= t.size
    BY SlotType, DataType
<1>2. CASE Shrinks(t) /\ IsFs(t, "ntfs")
    <2>1. p = CHOOSE f \in [Data(t) -> 0 .. t.size - 1] : Good(f)
        BY <1>2 DEF Placement, Data
    <2>2. \E f \in [Data(t) -> 0 .. t.size - 1] : Good(f)
        BY <1>1, PlacementExists
    <2>3. p \in [Data(t) -> 0 .. t.size - 1] /\ Good(p)
        BY <2>1, <2>2
    <2> HIDE DEF p
    <2>4. ASSUME NEW k \in Data(t)
          PROVE  /\ p[k] \in Nat /\ p[k] < t.size
                 /\ LandsAt(t, k) = t.start + p[k]
        BY <1>1, <2>3 DEF LandsAt, p
    <2>5. \A k \in Data(t) : LandsAt(t, k) \in Nat /\ LandsAt(t, k) >= t.start /\ LandsAt(t, k) < End(t)
        BY <1>1, <2>4 DEF End
    <2>6. \A j, k \in Data(t) : LandsAt(t, j) = LandsAt(t, k) => j = k
        <3> SUFFICES ASSUME NEW j \in Data(t), NEW k \in Data(t), LandsAt(t, j) = LandsAt(t, k)
                     PROVE  j = k
            OBVIOUS
        <3>1. p[j] = p[k]
            BY <1>1, <2>4
        <3> QED BY <2>3, <3>1
    <2> QED BY <1>2, <2>4, <2>5, <2>6 DEF p
<1>3. CASE ~(Shrinks(t) /\ IsFs(t, "ntfs"))
    <2>1. p = [k \in Data(t) |-> k]
        BY <1>3 DEF Placement, Data
    <2>2. \A k \in Data(t) : p[k] = k /\ LandsAt(t, k) = t.start + k
        BY <2>1 DEF LandsAt
    <2> HIDE DEF p
    <2>3. \A k \in Data(t) : LandsAt(t, k) \in Nat /\ LandsAt(t, k) >= t.start /\ p[k] \in Nat
        BY <1>1, <2>2
    <2>4. \A j, k \in Data(t) : LandsAt(t, j) = LandsAt(t, k) => j = k
        BY <1>1, <2>2
    <2> QED BY <1>3, <2>2, <2>3, <2>4 DEF p
<1> QED BY <1>2, <1>3

--------------------------------------------------------------------------------
(* The invariant of a run. *)

\* The editor hands over slots of the right type.  What is kept as it is is a live
\* partition at its place, and nothing is kept of a table that is made anew.
SlotInv ==
    /\ job \in Jobs /\ reinit \in BOOLEAN
    /\ slots \subseteq Slot
    /\ \A t \in slots : ~Mapped(t) => t \in LiveSlots
    /\ reinit => \A t \in slots : Mapped(t)

\* Every block of the data of a planned slot lands within the slot.
Fitting == \A t \in PlanEntries : \A k \in Data(t) : LandsAt(t, k) < End(t)

Checked == phase \in {"init", "lock", "next", "stream", "plant", "finish"}
TableNow == IF reinit THEN {} ELSE LiveSlots
SlotsFit == \A t \in PlanEntries : Used(t.src) <= t.size

\* What the checks of the engine established, and holds until the run is over.
PlanInv ==
    /\ Checked \/ phase = "freeze" => LayoutSound(slots, Target.size) /\ SlotsFit
    /\ Checked => Fitting
    /\ phase = "freeze" \/ phase = "lock" => job = "clone"
    /\ phase = "init" => reinit
    /\ phase = "lock" => ~reinit
    /\ phase = "stream" => job = "restore"

\* How far the run is: the table is the old one until it is wiped, and the new one
\* when everything is streamed; what is no longer to do is in place.
StepInv ==
    /\ todo \subseteq PlanEntries
    /\ phase \in {"plant", "finish"} => todo = {}
    /\ phase \in {"freeze", "init", "lock"} => todo = PlanEntries
    /\ phase \in {"preflight", "freeze", "init", "lock"} => table = LiveSlots
    /\ phase \in {"next", "stream", "plant"} => table = TableNow
    /\ Checked => \A t \in PlanEntries \ todo : Complete(t)
    /\ phase # "over" => outcome = "none"
    /\ job = "clone" => outcome # "denied"
    /\ job = "clone" /\ phase = "next" /\ ~reinit => locked = InTheWay

KeptOld == \A t \in Preserved : \A b \in SlotBlocks(t) : content[b] = Old
HonestTable == \A e \in table : e.src # 0 => Complete(e)
\* The disk's GUID is known, as it is of every GPT disk that Windows enumerates.
GuidKnown == Target.gpt => Target.guid
Planted == /\ phase = "finish" => table = slots
           /\ outcome = "done" => phase = "over" /\ table = slots
RunInv ==
    /\ SlotInv /\ PlanInv /\ StepInv
    /\ phase # "editing" => Preserved \subseteq table /\ KeptOld
    /\ HonestTable
    /\ GuidKnown => Planted
    /\ phase = "editing" => todo = {}

\* A clone cuts no data off behind the end of a slot: what is not NTFS and not ReFS
\* has its data in front.  (With FAT data behind the end of a smaller slot a clone
\* writes over what follows.)
ClonedInFront ==
    "clone" \in Jobs =>
        \A s \in SourceParts : Source.parts[s].fs \notin {"ntfs", "refs"} =>
            Source.parts[s].data \subseteq 0 .. Used(s) - 1

\* A slot for a live partition lies where that partition lies.
LEMMA LiveSlotType ==
    \A t \in LiveSlots : /\ t \in Slot /\ ~Mapped(t) /\ t.src = 0 /\ t.live \in LiveParts
                         /\ t.start = Target.parts[t.live].start
                         /\ t.size = Target.parts[t.live].size
<1> SUFFICES ASSUME NEW t \in LiveSlots
             PROVE  /\ t \in Slot /\ ~Mapped(t) /\ t.src = 0 /\ t.live \in LiveParts
                    /\ t.start = Target.parts[t.live].start
                    /\ t.size = Target.parts[t.live].size
    OBVIOUS
<1>1. PICK p \in LiveParts : t = [start |-> Target.parts[p].start,
                                  size |-> Target.parts[p].size, src |-> 0, live |-> p]
    BY DEF LiveSlots
<1>2. Target.parts[p].start \in Nat /\ Target.parts[p].size \in Nat \ {0}
    BY TargetAssumption
<1> QED BY <1>1, <1>2 DEF Slot, Mapped

\* A sound layout: two slots share no block, and every block is on the disk.
LEMMA SoundApart ==
    ASSUME slots \subseteq Slot, LayoutSound(slots, Target.size)
    PROVE  /\ \A t, u \in slots : t # u => SlotBlocks(t) \cap SlotBlocks(u) = {}
           /\ \A t \in slots : SlotBlocks(t) \subseteq Blocks
<1>1. ASSUME NEW t \in slots, NEW u \in slots, t # u
      PROVE  SlotBlocks(t) \cap SlotBlocks(u) = {}
    <2>1. /\ t.start \in Nat /\ t.size \in Nat /\ End(t) = t.start + t.size
          /\ u.start \in Nat /\ u.size \in Nat /\ End(u) = u.start + u.size
        BY SlotType DEF End
    <2>2. CASE t.size > 0 /\ u.size > 0
        <3>1. Apart(t, u)
            BY <1>1, <2>2 DEF LayoutSound
        <3> QED BY <2>1, <3>1 DEF Apart, SlotBlocks
    <2>3. CASE t.size = 0 \/ u.size = 0
        BY <2>1, <2>3 DEF SlotBlocks
    <2> QED BY <2>1, <2>2, <2>3
<1>2. ASSUME NEW t \in slots PROVE SlotBlocks(t) \subseteq Blocks
    <2>1. t.start \in Nat /\ t.size \in Nat /\ End(t) = t.start + t.size /\ Target.size \in Nat
        BY SlotType, LayoutAssumption DEF End
    <2>2. t.size > 0 => End(t) <= Target.size
        BY DEF LayoutSound
    <2> QED BY <2>1, <2>2 DEF SlotBlocks, Blocks
<1> QED BY <1>1, <1>2

\* The blocks of a planned slot land in it, each in one of its own.
LEMMA LandsInside ==
    ASSUME SlotInv, SlotsFit, Fitting, NEW t \in PlanEntries
    PROVE  /\ t \in slots /\ t \in Slot /\ Mapped(t)
           /\ \A k \in Data(t) : LandsAt(t, k) \in SlotBlocks(t)
           /\ \A j, k \in Data(t) : LandsAt(t, j) = LandsAt(t, k) => j = k
<1>1. t \in slots /\ t \in Slot /\ Mapped(t) /\ Used(t.src) <= t.size
    BY DEF PlanEntries, SlotInv, SlotsFit
<1>2. /\ \A k \in Data(t) : LandsAt(t, k) \in Nat /\ LandsAt(t, k) >= t.start
      /\ \A j, k \in Data(t) : LandsAt(t, j) = LandsAt(t, k) => j = k
    BY <1>1, PlacementIs
<1>3. t.start \in Nat /\ End(t) \in Nat
    BY <1>1, SlotType
<1>4. \A k \in Data(t) : LandsAt(t, k) < End(t)
    BY DEF Fitting
<1>5. \A k \in Data(t) : LandsAt(t, k) \in SlotBlocks(t)
    BY <1>2, <1>3, <1>4 DEF SlotBlocks
<1> QED BY <1>1, <1>2, <1>5

--------------------------------------------------------------------------------
(* Streaming one slot. *)

\* What it writes it writes into its own slot; once all is written the slot is complete.
LEMMA StreamWrites ==
    ASSUME SlotInv, LayoutSound(slots, Target.size), SlotsFit, Fitting,
           NEW t \in PlanEntries, NEW written, written \subseteq Data(t),
           content' = Landed(t, written)
    PROVE  /\ \A u \in slots : u # t => \A b \in SlotBlocks(u) : content'[b] = content[b]
           /\ \A u \in PlanEntries : u # t /\ Complete(u) =>
                 \A k \in Data(u) : LandsAt(u, k) < End(u) /\ content'[LandsAt(u, k)] = <<u.src, k>>
           /\ written = Data(t) =>
                 \A k \in Data(t) : LandsAt(t, k) < End(t) /\ content'[LandsAt(t, k)] = <<t.src, k>>
<1>1. /\ t \in slots /\ t \in Slot /\ Mapped(t)
      /\ \A k \in Data(t) : LandsAt(t, k) \in SlotBlocks(t)
      /\ \A j, k \in Data(t) : LandsAt(t, j) = LandsAt(t, k) => j = k
    BY LandsInside
<1>2. /\ \A u \in slots : u # t => SlotBlocks(t) \cap SlotBlocks(u) = {}
      /\ \A u \in slots : SlotBlocks(u) \subseteq Blocks
    BY <1>1, SoundApart DEF SlotInv
<1>3. \A b \in Blocks :
          content'[b] = IF \E k \in written : LandsAt(t, k) = b
                        THEN <<t.src, CHOOSE k \in written : LandsAt(t, k) = b>>
                        ELSE content[b]
    BY DEF Landed
<1>4. ASSUME NEW u \in slots, u # t, NEW b \in SlotBlocks(u) PROVE content'[b] = content[b]
    <2>1. b \in Blocks /\ b \notin SlotBlocks(t)
        BY <1>2, <1>4
    <2>2. ~ \E k \in written : LandsAt(t, k) = b
        BY <1>1, <2>1
    <2> QED BY <1>3, <2>1, <2>2
<1>5. ASSUME NEW u \in PlanEntries, u # t, Complete(u), NEW k \in Data(u)
      PROVE  LandsAt(u, k) < End(u) /\ content'[LandsAt(u, k)] = <<u.src, k>>
    <2>1. u \in slots /\ LandsAt(u, k) \in SlotBlocks(u)
        BY LandsInside
    <2>2. LandsAt(u, k) < End(u) /\ content[LandsAt(u, k)] = <<u.src, k>>
        BY <1>5 DEF Complete, Data
    <2> QED BY <1>4, <1>5, <2>1, <2>2
<1>6. ASSUME written = Data(t), NEW k \in Data(t)
      PROVE  LandsAt(t, k) < End(t) /\ content'[LandsAt(t, k)] = <<t.src, k>>
    <2>1. LandsAt(t, k) \in Blocks
        BY <1>1, <1>2
    <2>2. (CHOOSE j \in written : LandsAt(t, j) = LandsAt(t, k)) = k
        BY <1>1, <1>6
    <2>3. content'[LandsAt(t, k)] = <<t.src, k>>
        BY <1>3, <1>6, <2>1, <2>2
    <2>4. LandsAt(t, k) < End(t)
        BY DEF Fitting
    <2> QED BY <2>3, <2>4
<1> QED BY <1>4, <1>5, <1>6

\* A live partition lies on the disk.
LEMMA LiveInside == \A t \in LiveSlots : SlotBlocks(t) \subseteq Blocks
<1> SUFFICES ASSUME NEW t \in LiveSlots PROVE SlotBlocks(t) \subseteq Blocks
    OBVIOUS
<1>1. PICK p \in LiveParts : t = [start |-> Target.parts[p].start,
                                  size |-> Target.parts[p].size, src |-> 0, live |-> p]
    BY DEF LiveSlots
<1>2. /\ Target.parts[p].start \in Nat /\ Target.parts[p].size \in Nat
      /\ End(Target.parts[p]) <= (IF Target.gpt THEN Target.size - Trail ELSE Ceiling(FALSE))
    BY TargetAssumption
<1>3. Target.size \in Nat /\ Trail \in Nat /\ MbrLimit \in Nat
    BY LayoutAssumption
<1>4. End(t) = t.start + t.size /\ t.start \in Nat /\ t.size \in Nat /\ End(t) <= Target.size
    BY <1>1, <1>2, <1>3 DEF End, Ceiling, Smaller
<1> QED BY <1>3, <1>4 DEF SlotBlocks, Blocks

\* What only reads the plan does not change with it.
LEMMA PlanFrame ==
    ASSUME UNCHANGED editorVars
    PROVE  /\ SlotInv => SlotInv'
           /\ Fitting' = Fitting /\ SlotsFit' = SlotsFit
           /\ PlanEntries' = PlanEntries /\ Preserved' = Preserved
           /\ TableNow' = TableNow /\ InTheWay' = InTheWay
           /\ LayoutSound(slots, Target.size)' = LayoutSound(slots, Target.size)
           /\ job' = job /\ reinit' = reinit /\ slots' = slots
<1>1. job' = job /\ reinit' = reinit /\ slots' = slots
    BY DEF editorVars
<1>2. PlanEntries' = PlanEntries /\ Preserved' = Preserved
    BY <1>1 DEF PlanEntries, Preserved, Mapped
<1>3. SlotInv => SlotInv'
    BY <1>1 DEF SlotInv, Mapped, Slot, LiveSlots, LiveParts, SourceParts
<1>4. Fitting' = Fitting /\ SlotsFit' = SlotsFit
    BY <1>1, <1>2 DEF Fitting, SlotsFit, Data, LandsAt, Placement, End, Used, Shrinks, IsFs
<1>5. TableNow' = TableNow
    BY <1>1 DEF TableNow, LiveSlots, LiveParts
<1>6. InTheWay' = InTheWay
    BY <1>1, <1>2 DEF InTheWay, LiveParts
<1>7. LayoutSound(slots, Target.size)' = LayoutSound(slots, Target.size)
    BY <1>1
<1> QED BY <1>1, <1>2, <1>3, <1>4, <1>5, <1>6, <1>7

\* What only reads the plan and the blocks does not change with them.
LEMMA DiskFrame ==
    ASSUME UNCHANGED editorVars, content' = content
    PROVE  KeptOld' = KeptOld /\ \A e : Complete(e)' = Complete(e)
<1>1. Preserved' = Preserved
    BY PlanFrame
<1> QED BY <1>1 DEF KeptOld, SlotBlocks, End, Old, Complete, LandsAt, Placement, Shrinks, IsFs

--------------------------------------------------------------------------------
(* Editing. *)

\* An edit that adds mapped slots only, and does not ask for a new table.
LEMMA AddMappedKeeps ==
    ASSUME SlotInv, job' = job, reinit' = reinit, slots' \subseteq Slot,
           \A u \in slots' : u \in slots \/ u.src # 0
    PROVE  SlotInv'
<1>1. /\ \A u \in slots' : u.src = 0 => u \in LiveSlots
      /\ reinit => \A u \in slots' : u.src # 0
    BY DEF SlotInv, Mapped
<1>2. LiveSlots' = LiveSlots /\ Slot' = Slot
    BY DEF LiveSlots, Slot, LiveParts, SourceParts
<1> QED BY <1>1, <1>2 DEF SlotInv, Mapped

\* An edit leaves slots that are mapped, or a live partition at its place.
LEMMA EditSlots == ASSUME SlotInv, EditorInv, EditorInv', EditorNext PROVE SlotInv'
<1>1. job' = job
    BY DEF EditorNext, DeleteSelected, ApplyDrop, MoveSlot, ResizeLeft, ResizeRight, ApplyGapDrop,
       BlankLayout, ResetLayout, ApplyFullDisk, SeedFullDiskClone, ClearFullDisk, FullDisk,
       PartialEdit, Edit
<1>2. ASSUME ~fullDisk' PROVE slots' \subseteq Slot
    BY <1>2 DEF EditorInv, Fits, Slot, LiveParts, SourceParts
<1>3. slots \subseteq Slot /\ \A s \in SourceParts : s # 0
    BY SourceType DEF SlotInv
<1>4. ASSUME NEW t \in slots, DeleteSelected(t) PROVE SlotInv'
    <2>1. reinit' = reinit /\ slots' = slots \ {t}
        BY <1>4 DEF DeleteSelected
    <2> QED BY <1>1, <1>3, <2>1, AddMappedKeeps
<1>5. ASSUME NEW t \in slots, NEW s \in SourceParts, ApplyDrop(s, t) PROVE SlotInv'
    <2>1. /\ reinit' = reinit /\ ~fullDisk'
          /\ \E size : slots' = (slots \ {t}) \cup {[t EXCEPT !.size = size, !.src = s]}
        BY <1>5 DEF ApplyDrop, PartialEdit
    <2>2. \A size : [t EXCEPT !.size = size, !.src = s].src = s
        BY <1>3 DEF Slot
    <2> QED BY <1>1, <1>2, <1>3, <2>1, <2>2, AddMappedKeeps
<1>6. ASSUME NEW t \in slots, NEW start, NEW size, Placed(t, start, size), Mapped(t), ~fullDisk
      PROVE  SlotInv'
    <2>1. /\ reinit' = reinit /\ ~fullDisk'
          /\ slots' = (slots \ {t}) \cup {[t EXCEPT !.start = start, !.size = size]}
        BY <1>6 DEF Placed
    <2>2. [t EXCEPT !.start = start, !.size = size].src = t.src
        BY <1>3 DEF Slot
    <2> QED BY <1>1, <1>2, <1>6, <2>1, <2>2, AddMappedKeeps DEF Mapped
<1>7. ASSUME NEW t \in slots, NEW pointer, NEW x,
             MoveSlot(t, pointer, x) \/ ResizeLeft(t, pointer, x) \/ ResizeRight(t, pointer, x)
      PROVE  SlotInv'
    <2>1. Mapped(t) /\ ~fullDisk /\ \E start, size : Placed(t, start, size)
        BY <1>7 DEF MoveSlot, ResizeLeft, ResizeRight, PartialEdit
    <2> QED BY <1>6, <2>1
<1>8. ASSUME NEW s \in SourceParts, NEW gap \in Gaps, ApplyGapDrop(s, gap) PROVE SlotInv'
    <2>1. /\ reinit' = reinit /\ ~fullDisk'
          /\ \E start, size : slots' = slots \cup
                {[start |-> start, size |-> size, src |-> s, live |-> 0]}
        BY <1>8 DEF ApplyGapDrop, PartialEdit
    <2> QED BY <1>1, <1>2, <1>3, <2>1, AddMappedKeeps
<1>9. ASSUME NEW gpt \in BOOLEAN, BlankLayout(gpt) PROVE SlotInv'
    <2>1. reinit' = TRUE /\ slots' = {}
        BY <1>9 DEF BlankLayout
    <2> QED BY <1>1, <2>1 DEF SlotInv
<1>10. ASSUME Rebuild PROVE SlotInv'
    <2>1. reinit' = FALSE /\ slots' = LiveSlots
        BY <1>10 DEF Rebuild
    <2>2. LiveSlots' = LiveSlots /\ Slot' = Slot
        BY DEF LiveSlots, Slot, LiveParts, SourceParts
    <2> QED BY <1>1, <2>1, <2>2, LiveSlotType DEF SlotInv
<1>11. ASSUME NEW layout \in {BackupLayout} \cup {CloneLayout(expand) : expand \in BOOLEAN},
              FullDisk(layout)
       PROVE  SlotInv'
    <2>1. /\ reinit' = TRUE
          /\ slots' = {[start |-> e.start, size |-> e.size, src |-> e.src, live |-> 0] :
                          e \in SpansOf(layout)}
        BY <1>11 DEF FullDisk
    <2>2. \A e \in SpansOf(layout) : e.start \in Nat /\ e.size \in Nat /\ e.src \in SourceParts
        BY FullDiskAssumption
    <2>3. \A t \in slots' : t \in Slot /\ t.src # 0
        BY <1>3, <2>1, <2>2 DEF Slot
    <2>4. Slot' = Slot
        BY DEF Slot, LiveParts, SourceParts
    <2> QED BY <1>1, <2>1, <2>3, <2>4 DEF SlotInv, Mapped
<1>12. ASSUME ApplyFullDisk PROVE SlotInv'
    BY <1>11, <1>12 DEF ApplyFullDisk
<1>13. ASSUME NEW expand \in BOOLEAN, SeedFullDiskClone(expand) PROVE SlotInv'
    BY <1>11, <1>13 DEF SeedFullDiskClone
<1> QED BY <1>4, <1>5, <1>7, <1>8, <1>9, <1>10, <1>12, <1>13
        DEF EditorNext, ResetLayout, ClearFullDisk

--------------------------------------------------------------------------------
(* One lemma per kind of step. *)

\* While the user edits, nothing of the disk changes.
LEMMA EditingKeeps ==
    ASSUME RunInv, EditorInv, EditorInv', UntouchedInv, Editing
    PROVE  RunInv'
<1>1. phase = "editing" /\ phase' = "editing" /\ UNCHANGED <<content, table, locked, todo, outcome>>
    BY DEF Editing, EditorNext, diskVars, DeleteSelected, ApplyDrop, MoveSlot,
        ResizeLeft, ResizeRight, ApplyGapDrop, BlankLayout, ResetLayout, ApplyFullDisk,
        SeedFullDiskClone, ClearFullDisk, FullDisk, PartialEdit, Edit
<1>2. SlotInv'
    BY EditSlots DEF Editing, RunInv
<1>3. table = LiveSlots /\ LiveSlots' = LiveSlots
    BY <1>1 DEF UntouchedInv, Untouched, LiveSlots, LiveParts
<1>4. PlanInv'
    BY <1>1 DEF PlanInv, Checked
<1>5. todo = {} /\ outcome = "none"
    BY <1>1 DEF RunInv, StepInv
<1>6. StepInv'
    BY <1>1, <1>5 DEF StepInv, Checked
<1>7. HonestTable'
    BY <1>1, <1>3, LiveSlotType DEF HonestTable
<1>8. Planted'
    BY <1>1, <1>5 DEF Planted
<1> QED BY <1>1, <1>2, <1>4, <1>5, <1>6, <1>7, <1>8 DEF RunInv

\* Start: what is to be kept is what the target holds.
LEMMA StartingKeeps ==
    ASSUME RunInv, UntouchedInv, Starting
    PROVE  RunInv'
<1>1. /\ phase = "editing" /\ phase' = "preflight"
      /\ UNCHANGED editorVars /\ UNCHANGED <<content, table, locked, todo, outcome>>
    BY DEF Starting, MakePlan, diskVars
<1>2. table = LiveSlots /\ content = [b \in Blocks |-> Old] /\ LiveSlots' = LiveSlots
    BY <1>1 DEF UntouchedInv, Untouched, LiveSlots, LiveParts
<1>3. todo = {} /\ outcome = "none" /\ SlotInv
    BY <1>1 DEF RunInv, StepInv
<1>4. SlotInv' /\ Preserved' = Preserved /\ HonestTable'
    BY <1>1, <1>2, <1>3, PlanFrame, LiveSlotType DEF HonestTable
<1>5. PlanInv' /\ StepInv' /\ Planted'
    BY <1>1, <1>2, <1>3 DEF PlanInv, StepInv, Checked, Planted
<1>6. Preserved \subseteq LiveSlots
    BY <1>3 DEF Preserved, SlotInv
<1>7. KeptOld
    BY <1>2, <1>6, LiveInside DEF KeptOld
<1>8. KeptOld'
    BY <1>1, <1>7, DiskFrame
<1> QED BY <1>1, <1>2, <1>4, <1>5, <1>6, <1>8 DEF RunInv

\* A step that ends the run and writes nothing.
LEMMA OverKeeps ==
    ASSUME RunInv, phase \notin {"editing", "over"}, UNCHANGED editorVars,
           UNCHANGED <<content, table, todo>>, phase' = "over",
           outcome' \in {"refused", "failed", "cancelled", "done"},
           outcome' = "done" => phase = "finish"
    PROVE  RunInv'
<1>1. /\ SlotInv' /\ Preserved' = Preserved /\ PlanEntries' = PlanEntries
      /\ slots' = slots /\ job' = job
    BY PlanFrame DEF RunInv
<1>2. KeptOld' /\ HonestTable'
    BY DiskFrame DEF RunInv, HonestTable
<1>3. PlanInv' /\ StepInv'
    BY <1>1 DEF RunInv, PlanInv, StepInv, Checked
<1>4. GuidKnown => Planted'
    BY <1>1 DEF RunInv, Planted
<1>5. GuidKnown' = GuidKnown
    BY DEF GuidKnown
<1> QED BY <1>1, <1>2, <1>3, <1>4, <1>5 DEF RunInv

\* A step that moves the run on and writes nothing.
LEMMA MoveOnKeeps ==
    ASSUME RunInv, phase \notin {"editing", "over"}, UNCHANGED editorVars,
           UNCHANGED <<content, outcome>>, phase' \notin {"editing", "finish", "over"},
           PlanInv', StepInv', Preserved \subseteq table', \A e \in table' : e.src = 0
    PROVE  RunInv'
<1>1. SlotInv' /\ Preserved' = Preserved
    BY PlanFrame DEF RunInv
<1>2. KeptOld' /\ HonestTable'
    BY DiskFrame DEF RunInv, HonestTable
<1>3. Planted'
    BY DEF RunInv, StepInv, Planted
<1> QED BY <1>1, <1>2, <1>3 DEF RunInv

\* The old table holds what is preserved; a table made anew, nothing.
LEMMA TableNowKeeps ==
    ASSUME SlotInv
    PROVE  /\ Preserved \subseteq TableNow /\ Preserved \subseteq LiveSlots
           /\ \A e \in TableNow : e.src = 0
           /\ \A e \in LiveSlots : e.src = 0
BY LiveSlotType DEF SlotInv, Preserved, TableNow

\* validate_extents_fit: a restored slot holds what lands in it.
LEMMA RestoreFits ==
    ASSUME SlotInv, RestoreSound
    PROVE  Fitting /\ SlotsFit
<1>1. SlotsFit /\ \A t \in PlanEntries : ExtentsFit(t)
    BY DEF RestoreSound, SlotsFit
<1>2. ASSUME NEW t \in PlanEntries, NEW k \in Data(t) PROVE LandsAt(t, k) < End(t)
    <2>1. t \in Slot /\ Mapped(t) /\ Used(t.src) <= t.size
        BY <1>1 DEF PlanEntries, SlotInv, SlotsFit
    <2>2. /\ t.start \in Nat /\ t.size \in Nat /\ k \in Nat
          /\ Source.parts[t.src].size \in Nat /\ k < Source.parts[t.src].size
        BY <2>1, SlotType, DataType
    <2>3. CASE Shrinks(t) /\ IsFs(t, "ntfs")
        BY <2>1, <2>3, PlacementIs
    <2>4. CASE ~(Shrinks(t) /\ IsFs(t, "ntfs"))
        <3>1. LandsAt(t, k) = t.start + k
            BY <2>1, <2>4, PlacementIs
        <3>2. k < t.size
            BY <1>1, <2>2, <2>4 DEF ExtentsFit, Shrinks, Data
        <3> QED BY <2>2, <3>1, <3>2 DEF End
    <2> QED BY <2>3, <2>4
<1> QED BY <1>1, <1>2 DEF Fitting

\* What the restore checked of its plan holds from then on.
LEMMA RestoreAcceptKeeps ==
    ASSUME RunInv, UntouchedInv, RestoreAccept
    PROVE  RunInv'
<1>1. /\ job = "restore" /\ phase = "preflight" /\ RestoreSound
      /\ phase' = (IF reinit THEN "init" ELSE "next") /\ todo' = PlanEntries
      /\ UNCHANGED editorVars /\ UNCHANGED <<content, table, locked, outcome>>
    BY DEF RestoreAccept, StartOf
<1>2. Fitting /\ SlotsFit /\ LayoutSound(slots, Target.size) /\ SlotInv
    BY <1>1, RestoreFits DEF RunInv, RestoreSound
<1>3. table = LiveSlots /\ outcome = "none"
    BY <1>1 DEF RunInv, StepInv
<1>4. /\ PlanEntries' = PlanEntries /\ job' = job /\ reinit' = reinit /\ TableNow' = TableNow
      /\ LiveSlots' = LiveSlots /\ Fitting' /\ SlotsFit' /\ LayoutSound(slots, Target.size)'
    BY <1>1, <1>2, PlanFrame DEF LiveSlots, LiveParts
<1>5. PlanInv'
    BY <1>1, <1>2, <1>4 DEF PlanInv, SlotInv
<1>6. StepInv'
    BY <1>1, <1>2, <1>3, <1>4 DEF StepInv, TableNow, SlotInv
<1> QED BY <1>1, <1>2, <1>3, <1>5, <1>6, TableNowKeeps, MoveOnKeeps

\* What the clone checked of its plan holds from then on.
LEMMA CloneAcceptKeeps ==
    ASSUME RunInv, CloneAccept
    PROVE  RunInv'
<1>1. /\ job = "clone" /\ phase = "preflight" /\ CloneSound
      /\ phase' = "freeze" /\ todo' = PlanEntries
      /\ UNCHANGED editorVars /\ UNCHANGED <<content, table, locked, outcome>>
    BY DEF CloneAccept, StartOf
<1>2. SlotsFit /\ LayoutSound(slots, Target.size) /\ SlotInv
    BY <1>1 DEF RunInv, CloneSound, SlotsFit
<1>3. table = LiveSlots /\ outcome = "none"
    BY <1>1 DEF RunInv, StepInv
<1>4. /\ PlanEntries' = PlanEntries /\ job' = job /\ SlotsFit' /\ LayoutSound(slots, Target.size)'
      /\ LiveSlots' = LiveSlots
    BY <1>1, <1>2, PlanFrame DEF LiveSlots, LiveParts
<1>5. PlanInv'
    BY <1>1, <1>4 DEF PlanInv, Checked
<1>6. StepInv'
    BY <1>1, <1>3, <1>4 DEF StepInv, Checked
<1> QED BY <1>1, <1>2, <1>3, <1>5, <1>6, TableNowKeeps, MoveOnKeeps

\* A clone that froze its sources writes nothing behind the end of a slot.
LEMMA CloneFits ==
    ASSUME ClonedInFront, job = "clone", SlotInv, SlotsFit, Preparable
    PROVE  Fitting
<1>1. SUFFICES ASSUME NEW t \in PlanEntries, NEW k \in Data(t) PROVE LandsAt(t, k) < End(t)
    BY DEF Fitting
<1>2. t \in Slot /\ Mapped(t) /\ Used(t.src) <= t.size
    BY DEF PlanEntries, SlotInv, SlotsFit
<1>3. /\ t.start \in Nat /\ t.size \in Nat /\ k \in Nat /\ t.src \in SourceParts
      /\ Source.parts[t.src].size \in Nat /\ k < Source.parts[t.src].size /\ Used(t.src) \in Nat
    BY <1>2, SlotType, DataType, SourceType DEF Mapped
<1>4. CASE Shrinks(t) /\ IsFs(t, "ntfs")
    BY <1>2, <1>4, PlacementIs
<1>5. CASE ~(Shrinks(t) /\ IsFs(t, "ntfs"))
    <2>1. LandsAt(t, k) = t.start + k
        BY <1>2, <1>5, PlacementIs
    <2>2. CASE ~Shrinks(t)
        BY <1>3, <2>1, <2>2 DEF Shrinks, End
    <2>3. CASE Shrinks(t)
        <3>1. Source.parts[t.src].fs \notin {"ntfs", "refs"}
            BY <1>5, <2>3 DEF Preparable, IsFs
        <3>2. k \in 0 .. Used(t.src) - 1
            BY <1>3, <3>1 DEF ClonedInFront, SlotInv, Data
        <3> QED BY <1>2, <1>3, <2>1, <3>2 DEF End
    <2> QED BY <2>2, <2>3
<1> QED BY <1>4, <1>5

\* Past the freeze a clone has checked the fit; data in front lands within its slot.
LEMMA CloneFreezeKeeps ==
    ASSUME RunInv, ClonedInFront, CloneFreeze
    PROVE  RunInv'
<1>1. /\ job = "clone" /\ phase = "freeze" /\ Preparable
      /\ phase' = (IF reinit THEN "init" ELSE "lock")
      /\ UNCHANGED editorVars /\ UNCHANGED <<content, table, locked, todo, outcome>>
    BY DEF CloneFreeze, Advance
<1>2. /\ SlotsFit /\ LayoutSound(slots, Target.size) /\ SlotInv
      /\ table = LiveSlots /\ todo = PlanEntries /\ outcome = "none"
    BY <1>1 DEF RunInv, PlanInv, StepInv
<1>3. Fitting
    BY <1>1, <1>2, CloneFits
<1>4. /\ PlanEntries' = PlanEntries /\ job' = job /\ SlotsFit' /\ LayoutSound(slots, Target.size)'
      /\ LiveSlots' = LiveSlots /\ Fitting' /\ reinit' = reinit
    BY <1>1, <1>2, <1>3, PlanFrame DEF LiveSlots, LiveParts
<1>5. PlanInv'
    BY <1>1, <1>2, <1>4 DEF PlanInv, SlotInv
<1>6. StepInv'
    BY <1>1, <1>2, <1>4 DEF StepInv, SlotInv
<1> QED BY <1>1, <1>2, <1>5, <1>6, TableNowKeeps, MoveOnKeeps

\* A clone takes the locks in its way before it writes.
LEMMA CloneLockKeeps ==
    ASSUME RunInv, CloneLock
    PROVE  RunInv'
<1>1. /\ job = "clone" /\ phase = "lock" /\ phase' = "next" /\ locked' = InTheWay
      /\ UNCHANGED editorVars /\ UNCHANGED <<content, table, todo, outcome>>
    BY DEF CloneLock
<1>2. /\ SlotsFit /\ LayoutSound(slots, Target.size) /\ SlotInv /\ Fitting /\ ~reinit
      /\ table = LiveSlots /\ todo = PlanEntries /\ outcome = "none"
    BY <1>1 DEF RunInv, PlanInv, StepInv, Checked
<1>3. /\ PlanEntries' = PlanEntries /\ job' = job /\ SlotsFit' /\ LayoutSound(slots, Target.size)'
      /\ Fitting' /\ reinit' = reinit /\ TableNow' = TableNow /\ InTheWay' = InTheWay
    BY <1>1, <1>2, PlanFrame
<1>4. PlanInv'
    BY <1>1, <1>3 DEF PlanInv
<1>5. StepInv'
    BY <1>1, <1>2, <1>3 DEF StepInv, TableNow
<1> QED BY <1>1, <1>2, <1>4, <1>5, TableNowKeeps, MoveOnKeeps

\* The table is wiped only when every slot is mapped: nothing of it was to be kept.
LEMMA InitTargetKeeps ==
    ASSUME RunInv, InitTarget
    PROVE  RunInv'
<1>1. /\ phase = "init" /\ phase' = "next" /\ table' = {}
      /\ UNCHANGED editorVars /\ UNCHANGED <<content, locked, todo, outcome>>
    BY DEF InitTarget
<1>2. /\ SlotsFit /\ LayoutSound(slots, Target.size) /\ SlotInv /\ Fitting /\ reinit
      /\ todo = PlanEntries /\ outcome = "none" /\ (job = "clone" => outcome # "denied")
    BY <1>1 DEF RunInv, PlanInv, StepInv, Checked
<1>3. /\ PlanEntries' = PlanEntries /\ job' = job /\ SlotsFit' /\ LayoutSound(slots, Target.size)'
      /\ Fitting' /\ reinit' = reinit /\ TableNow' = TableNow
    BY <1>1, <1>2, PlanFrame
<1>4. PlanInv'
    BY <1>1, <1>3 DEF PlanInv
<1>5. StepInv'
    BY <1>1, <1>2, <1>3 DEF StepInv, TableNow
<1>6. Preserved \subseteq table'
    BY <1>1, <1>2 DEF Preserved, SlotInv
<1> QED BY <1>1, <1>4, <1>5, <1>6, MoveOnKeeps

\* Locks are taken for the slot whose turn it is.
LEMMA RestoreLockKeeps ==
    ASSUME RunInv, RestoreLock
    PROVE  RunInv'
<1>1. /\ job = "restore" /\ phase = "next" /\ phase' = "stream"
      /\ UNCHANGED editorVars /\ UNCHANGED <<content, table, todo, outcome>>
    BY DEF RestoreLock
<1>2. /\ SlotsFit /\ LayoutSound(slots, Target.size) /\ SlotInv /\ Fitting
      /\ table = TableNow /\ outcome = "none" /\ todo \subseteq PlanEntries
      /\ \A t \in PlanEntries \ todo : Complete(t)
    BY <1>1 DEF RunInv, PlanInv, StepInv, Checked
<1>3. /\ PlanEntries' = PlanEntries /\ job' = job /\ SlotsFit' /\ LayoutSound(slots, Target.size)'
      /\ Fitting' /\ reinit' = reinit /\ TableNow' = TableNow
      /\ \A t : Complete(t)' = Complete(t)
    BY <1>1, <1>2, PlanFrame, DiskFrame
<1>4. PlanInv'
    BY <1>1, <1>3 DEF PlanInv
<1>5. StepInv'
    BY <1>1, <1>2, <1>3 DEF StepInv
<1> QED BY <1>1, <1>2, <1>4, <1>5, TableNowKeeps, MoveOnKeeps

\* Nothing is left to stream.
LEMMA StreamedKeeps ==
    ASSUME RunInv, RestoreStreamed \/ CloneStreamed
    PROVE  RunInv'
<1>1. /\ phase = "next" /\ phase' = "plant" /\ todo = {}
      /\ UNCHANGED editorVars /\ UNCHANGED <<content, table, todo, outcome>>
    BY DEF RestoreStreamed, CloneStreamed, Advance
<1>2. /\ SlotsFit /\ LayoutSound(slots, Target.size) /\ SlotInv /\ Fitting
      /\ table = TableNow /\ outcome = "none"
      /\ \A t \in PlanEntries : Complete(t)
    BY <1>1 DEF RunInv, PlanInv, StepInv, Checked
<1>3. /\ PlanEntries' = PlanEntries /\ job' = job /\ SlotsFit' /\ LayoutSound(slots, Target.size)'
      /\ Fitting' /\ reinit' = reinit /\ TableNow' = TableNow
      /\ \A t : Complete(t)' = Complete(t)
    BY <1>1, <1>2, PlanFrame, DiskFrame
<1>4. PlanInv'
    BY <1>1, <1>3 DEF PlanInv
<1>5. StepInv'
    BY <1>1, <1>2, <1>3 DEF StepInv
<1> QED BY <1>1, <1>2, <1>4, <1>5, TableNowKeeps, MoveOnKeeps

\* A clone locked every live volume that it does not preserve, and writes only into
\* its own slots: Windows bounces none of its writes.
LEMMA CloneUnguarded ==
    ASSUME RunInv, job = "clone", phase = "next", NEW t \in PlanEntries, NEW k \in Data(t)
    PROVE  ~Guarded(LandsAt(t, k))
<1>1. /\ SlotInv /\ SlotsFit /\ Fitting /\ LayoutSound(slots, Target.size)
      /\ table = TableNow /\ (~reinit => locked = InTheWay)
    BY DEF RunInv, PlanInv, StepInv, Checked
<1>2. t \in slots /\ Mapped(t) /\ LandsAt(t, k) \in SlotBlocks(t)
    BY <1>1, LandsInside
<1> SUFFICES ASSUME NEW p \in LiveParts, MountedPart(p),
                    LandsAt(t, k) \in SlotBlocks(Target.parts[p])
             PROVE  FALSE
    BY DEF Guarded
<1>3. table # {} /\ Target.parts[p].mounted /\ p \notin locked
    BY DEF MountedPart
<1>4. ~reinit /\ p \notin InTheWay
    BY <1>1, <1>3 DEF TableNow
<1>5. PICK u \in Preserved : u.live = p
    BY <1>3, <1>4 DEF InTheWay
<1>6. u \in slots /\ ~Mapped(u) /\ u \in LiveSlots
    BY <1>1, <1>5 DEF Preserved, SlotInv
<1>7. SlotBlocks(u) = SlotBlocks(Target.parts[p])
    BY <1>5, <1>6, LiveSlotType DEF SlotBlocks, End
<1>8. SlotBlocks(t) \cap SlotBlocks(u) = {}
    BY <1>1, <1>2, <1>6, SoundApart DEF SlotInv
<1> QED BY <1>2, <1>7, <1>8

\* Streaming a slot, however it ends, leaves what is preserved and what is complete.
LEMMA StreamSlotKeeps ==
    ASSUME RunInv, NEW t \in Turn, NEW limit, Stream(t, limit),
           phase \in {"next", "stream"}, job = "clone" => phase = "next",
           {k \in Data(t) : Placement(t)[k] < limit} = Data(t)
    PROVE  RunInv'
<1>1. /\ SlotsFit /\ LayoutSound(slots, Target.size) /\ SlotInv /\ Fitting
      /\ table = TableNow /\ outcome = "none" /\ todo \subseteq PlanEntries
      /\ \A u \in PlanEntries \ todo : Complete(u)
      /\ (job = "clone" /\ ~reinit => locked = InTheWay)
      /\ KeptOld /\ Preserved \subseteq table
    BY DEF RunInv, PlanInv, StepInv, Checked
<1>2. t \in todo /\ t \in PlanEntries
    BY <1>1 DEF Turn
<1>3. PICK stop \in Data(t) \cup {Source.parts[t.src].size} :
          LET denied == {k \in Data(t) : Guarded(LandsAt(t, k))}
              written == {k \in Data(t) : k < stop}
          IN  /\ content' = Landed(t, written)
              /\ \/ /\ written = Data(t)
                    /\ phase' = "next"
                    /\ todo' = todo \ {t}
                    /\ UNCHANGED <<locked, outcome>>
                 \/ stop \in denied /\ Stop("denied")
                 \/ stop \in Data(t) \ denied /\ Stop("failed")
                 \/ Stop("cancelled")
              /\ UNCHANGED table /\ UNCHANGED editorVars
    BY DEF Stream, Data
<1> DEFINE written == {k \in Data(t) : k < stop}
<1>4. /\ content' = Landed(t, written) /\ written \subseteq Data(t)
      /\ UNCHANGED table /\ UNCHANGED editorVars
    BY <1>3
<1> HIDE DEF written
<1>5. /\ \A u \in slots : u # t => \A b \in SlotBlocks(u) : content'[b] = content[b]
      /\ \A u \in PlanEntries : u # t /\ Complete(u) =>
            \A k \in Data(u) : LandsAt(u, k) < End(u) /\ content'[LandsAt(u, k)] = <<u.src, k>>
      /\ written = Data(t) =>
            \A k \in Data(t) : LandsAt(t, k) < End(t) /\ content'[LandsAt(t, k)] = <<t.src, k>>
    BY <1>1, <1>2, <1>4, StreamWrites
<1>6. \A u : Complete(u)' <=> \A k \in Data(u) :
                LandsAt(u, k) < End(u) /\ content'[LandsAt(u, k)] = <<u.src, k>>
    BY DEF Complete, Data, LandsAt, Placement, Shrinks, IsFs, End
<1>7. \/ /\ written = Data(t) /\ phase' = "next" /\ todo' = todo \ {t}
         /\ UNCHANGED <<locked, outcome>>
      \/ /\ phase' = "over" /\ todo' = todo
         /\ outcome' \in {"denied", "failed", "cancelled"}
         /\ job = "clone" => outcome' # "denied"
    <2>1. ASSUME stop \in {k \in Data(t) : Guarded(LandsAt(t, k))} PROVE job # "clone"
        BY <1>2, <2>1, CloneUnguarded
    <2> QED BY <1>3, <2>1 DEF Stop, written
<1>8. /\ PlanEntries' = PlanEntries /\ job' = job /\ SlotsFit' /\ LayoutSound(slots, Target.size)'
      /\ Fitting' /\ reinit' = reinit /\ TableNow' = TableNow /\ InTheWay' = InTheWay
      /\ Preserved' = Preserved /\ SlotInv'
    BY <1>1, <1>4, PlanFrame
<1>9. PlanInv'
    BY <1>7, <1>8 DEF PlanInv
<1>10. KeptOld'
    <2>1. \A u \in Preserved : u \in slots /\ u # t
        BY <1>2 DEF Preserved, PlanEntries
    <2>2. \A u \in Preserved : \A b \in SlotBlocks(u) : content'[b] = Old
        BY <1>1, <1>5, <2>1 DEF KeptOld
    <2> QED BY <1>8, <2>2 DEF KeptOld, SlotBlocks, End, Old
<1>11. ASSUME phase' = "next" PROVE \A u \in PlanEntries \ todo' : Complete(u)'
    <2>1. written = Data(t) /\ todo' = todo \ {t}
        BY <1>7, <1>11
    <2> SUFFICES ASSUME NEW u \in PlanEntries, u \notin todo' PROVE Complete(u)'
        OBVIOUS
    <2>2. CASE u = t
        BY <1>5, <1>6, <2>1, <2>2
    <2>3. CASE u # t
        <3>1. Complete(u)
            BY <1>1, <2>1, <2>3
        <3> QED BY <1>5, <1>6, <2>3, <3>1
    <2> QED BY <2>2, <2>3
<1>12. StepInv'
    BY <1>1, <1>4, <1>7, <1>8, <1>11 DEF StepInv, Checked
<1>13. HonestTable' /\ (Preserved \subseteq table)'
    BY <1>1, <1>4, <1>8, TableNowKeeps DEF HonestTable
<1>14. Planted'
    BY <1>1, <1>7 DEF Planted
<1>15. phase' # "editing"
    BY <1>7
<1> QED BY <1>8, <1>9, <1>10, <1>12, <1>13, <1>14, <1>15 DEF RunInv

\* A slot a restore streams is complete and the others are as they were.
LEMMA RestoreStreamKeeps ==
    ASSUME RunInv, RestoreStreamSlot
    PROVE  RunInv'
<1>1. PICK t \in Turn : Stream(t, t.size)
    BY DEF RestoreStreamSlot
<1>2. job = "restore" /\ phase = "stream"
    BY DEF RestoreStreamSlot
<1>3. SlotsFit /\ SlotInv /\ Fitting /\ t \in PlanEntries
    BY <1>1, <1>2 DEF RunInv, PlanInv, StepInv, Checked, Turn
<1>4. t \in Slot /\ Mapped(t) /\ Used(t.src) <= t.size /\ t.start \in Nat /\ t.size \in Nat
    BY <1>3, SlotType DEF PlanEntries, SlotInv, SlotsFit
<1>5. ASSUME NEW k \in Data(t) PROVE Placement(t)[k] < t.size
    <2>1. LandsAt(t, k) = t.start + Placement(t)[k] /\ Placement(t)[k] \in Nat
        BY <1>4, PlacementIs DEF LandsAt
    <2>2. LandsAt(t, k) < End(t)
        BY <1>3 DEF Fitting
    <2> QED BY <1>4, <2>1, <2>2 DEF End
<1> QED BY <1>1, <1>2, <1>5, StreamSlotKeeps

\* A slot a clone streams is complete and the others are as they were.
LEMMA CloneStreamKeeps ==
    ASSUME RunInv, CloneStreamSlot
    PROVE  RunInv'
<1>1. PICK t \in Turn : Stream(t, Source.parts[t.src].size)
    BY DEF CloneStreamSlot
<1>2. job = "clone" /\ phase = "next"
    BY DEF CloneStreamSlot
<1>3. SlotsFit /\ SlotInv /\ t \in PlanEntries
    BY <1>1, <1>2 DEF RunInv, PlanInv, StepInv, Checked, Turn
<1>4. t \in Slot /\ Mapped(t) /\ Used(t.src) <= t.size /\ t.size \in Nat
      /\ Source.parts[t.src].size \in Nat
      /\ \A k \in Data(t) : k \in Nat /\ k < Source.parts[t.src].size
    BY <1>3, SlotType, DataType DEF PlanEntries, SlotInv, SlotsFit
<1>5. ASSUME NEW k \in Data(t) PROVE Placement(t)[k] < Source.parts[t.src].size
    <2>1. CASE Shrinks(t) /\ IsFs(t, "ntfs")
        <3>1. Placement(t)[k] \in Nat /\ Placement(t)[k] < t.size
            BY <1>4, <2>1, PlacementIs
        <3> QED BY <1>4, <2>1, <3>1 DEF Shrinks
    <2>2. CASE ~(Shrinks(t) /\ IsFs(t, "ntfs"))
        BY <1>4, <2>2, PlacementIs
    <2> QED BY <2>1, <2>2
<1> QED BY <1>1, <1>2, <1>5, StreamSlotKeeps

\* The new table: every planned slot of it is complete.
LEMMA PlantTableKeeps ==
    ASSUME RunInv, RestorePlant \/ ClonePlant
    PROVE  RunInv'
<1>1. /\ phase = "plant" /\ phase' = "finish"
      /\ UNCHANGED editorVars /\ UNCHANGED <<content, todo, outcome>>
      /\ table' \in {table, slots} /\ (GuidKnown => table' = slots)
    <2>1. PlanEntries \cup Preserved = slots
        BY DEF PlanEntries, Preserved
    <2> QED BY <2>1 DEF RestorePlant, ClonePlant, Plant, GuidKnown
<1>2. /\ SlotsFit /\ LayoutSound(slots, Target.size) /\ SlotInv /\ Fitting
      /\ outcome = "none" /\ todo = {} /\ KeptOld /\ Preserved \subseteq table
      /\ \A t \in PlanEntries : Complete(t)
      /\ HonestTable
    BY <1>1 DEF RunInv, PlanInv, StepInv, Checked
<1>3. /\ PlanEntries' = PlanEntries /\ job' = job /\ SlotsFit' /\ LayoutSound(slots, Target.size)'
      /\ Fitting' /\ reinit' = reinit /\ SlotInv' /\ Preserved' = Preserved /\ slots' = slots
      /\ KeptOld' /\ \A t : Complete(t)' = Complete(t)
    BY <1>1, <1>2, PlanFrame, DiskFrame
<1>4. PlanInv'
    BY <1>1, <1>3 DEF PlanInv
<1>5. StepInv'
    BY <1>1, <1>2, <1>3 DEF StepInv
<1>6. HonestTable'
    <2>1. \A e \in slots : e.src # 0 => Complete(e)
        BY <1>2 DEF PlanEntries, Mapped
    <2> QED BY <1>1, <1>2, <1>3, <2>1 DEF HonestTable
<1>7. GuidKnown => Planted'
    BY <1>1, <1>2, <1>3 DEF Planted
<1>8. Preserved \subseteq slots
    BY DEF Preserved
<1>9. GuidKnown' = GuidKnown
    BY DEF GuidKnown
<1> QED BY <1>1, <1>2, <1>3, <1>4, <1>5, <1>6, <1>7, <1>8, <1>9 DEF RunInv

--------------------------------------------------------------------------------
(* The theorems about a run. *)

\* Before a run nothing has changed.
LEMMA RunInvInit == Init => RunInv
<1> SUFFICES ASSUME Init PROVE RunInv
    OBVIOUS
<1>1. /\ job \in Jobs /\ reinit = FALSE /\ slots = LiveSlots /\ phase = "editing"
      /\ table = LiveSlots /\ todo = {} /\ outcome = "none"
    BY DEF Init, EditorInit, DiskInit
<1>2. SlotInv /\ HonestTable
    BY <1>1, LiveSlotType DEF SlotInv, HonestTable
<1>3. PlanInv /\ StepInv /\ Planted
    BY <1>1 DEF PlanInv, StepInv, Checked, Planted
<1> QED BY <1>1, <1>2, <1>3 DEF RunInv

\* A run that stops leaves the disk as it is at that moment.
LEMMA StopKeeps ==
    ASSUME RunInv, phase \notin {"editing", "over"}, Fail \/ Refuse
    PROVE  RunInv'
BY OverKeeps DEF Fail, Refuse, Stop

\* Every step of a restore keeps the invariant of a run.
LEMMA RestoreRunKeeps == ASSUME RunInv, UntouchedInv, RestoreNext PROVE RunInv'
<1>1. CASE RestoreAccept
    BY <1>1, RestoreAcceptKeeps
<1>2. CASE RestoreRefuse
    BY <1>2, StopKeeps DEF RestoreRefuse
<1>3. CASE RestoreLock
    BY <1>3, RestoreLockKeeps
<1>4. CASE RestoreLockBusy \/ RestoreStreamRefs \/ RestoreRemovedBusy \/ RestorePlantFails
    BY <1>4, StopKeeps
       DEF RestoreLockBusy, RestoreStreamRefs, RestoreRemovedBusy, RestorePlantFails
<1>5. CASE RestoreStreamSlot
    BY <1>5, RestoreStreamKeeps
<1>6. CASE RestoreStreamed
    BY <1>6, StreamedKeeps
<1>7. CASE RestorePlant
    BY <1>7, PlantTableKeeps
<1> QED BY <1>1, <1>2, <1>3, <1>4, <1>5, <1>6, <1>7 DEF RestoreNext

\* Every step of a clone keeps the invariant of a run.
LEMMA CloneRunKeeps == ASSUME RunInv, ClonedInFront, CloneNext PROVE RunInv'
<1>1. CASE CloneAccept
    BY <1>1, CloneAcceptKeeps
<1>2. CASE CloneRefuse \/ CloneFreezeFails
    BY <1>2, StopKeeps DEF CloneRefuse, CloneFreezeFails
<1>3. CASE CloneFreeze
    BY <1>3, CloneFreezeKeeps
<1>4. CASE CloneLock
    BY <1>4, CloneLockKeeps
<1>5. CASE CloneLockBusy \/ ClonePlantFails
    BY <1>5, StopKeeps DEF CloneLockBusy, ClonePlantFails
<1>6. CASE CloneStreamSlot
    BY <1>6, CloneStreamKeeps
<1>7. CASE CloneStreamed
    BY <1>7, StreamedKeeps
<1>8. CASE ClonePlant
    BY <1>8, PlantTableKeeps
<1> QED BY <1>1, <1>2, <1>3, <1>4, <1>5, <1>6, <1>7, <1>8 DEF CloneNext

\* A stutter keeps the invariant of a run.
LEMMA RunInvUnchanged == ASSUME RunInv, UNCHANGED vars PROVE RunInv'
<1>1. UNCHANGED editorVars /\ UNCHANGED <<phase, content, table, locked, todo, outcome>>
    BY DEF vars, diskVars
<1>2. /\ PlanEntries' = PlanEntries /\ job' = job /\ SlotsFit' = SlotsFit
      /\ LayoutSound(slots, Target.size)' = LayoutSound(slots, Target.size)
      /\ Fitting' = Fitting /\ reinit' = reinit /\ SlotInv' /\ Preserved' = Preserved
      /\ slots' = slots /\ TableNow' = TableNow /\ InTheWay' = InTheWay
      /\ KeptOld' = KeptOld /\ \A t : Complete(t)' = Complete(t)
    BY <1>1, PlanFrame, DiskFrame DEF RunInv
<1>3. PlanInv' /\ StepInv'
    BY <1>1, <1>2 DEF RunInv, PlanInv, StepInv, Checked, LiveSlots, LiveParts
<1>4. HonestTable' /\ (GuidKnown => Planted')
    BY <1>1, <1>2 DEF RunInv, HonestTable, Planted
<1>5. GuidKnown' = GuidKnown
    BY DEF GuidKnown
<1> QED BY <1>1, <1>2, <1>3, <1>4, <1>5 DEF RunInv

\* The invariant of a job on a target disk, from the editor to the end of the run.
DiskInv == EditorInv /\ UntouchedInv /\ RunInv

\* Throughout an edit and the run after it (`restore.rs`, `clone/lib.rs`) the layout is
\* sound, a refusal wrote nothing, and the run is where its phase says.
THEOREM DiskInvariant == ASSUME ClonedInFront PROVE Spec => []DiskInv
<1>1. Init => DiskInv
    <2>1. Init => UntouchedInv
        BY DEF Init, EditorInit, DiskInit, UntouchedInv, Untouched
    <2> QED BY <2>1, EditorInvInit, RunInvInit DEF DiskInv
<1>2. DiskInv /\ [Next]_vars => DiskInv'
    <2> SUFFICES ASSUME DiskInv, [Next]_vars PROVE DiskInv'
        OBVIOUS
    <2>1. EditorInv /\ EditorInv' /\ UntouchedInv /\ UntouchedInv' /\ RunInv
        BY EditorStep, UntouchedKeeps DEF DiskInv
    <2>2. CASE Editing
        BY <2>1, <2>2, EditingKeeps DEF DiskInv
    <2>3. CASE Starting
        BY <2>1, <2>3, StartingKeeps DEF DiskInv
    <2>4. CASE Cancel
        <3>1. RunInv'
            BY <2>1, <2>4, OverKeeps DEF Cancel, Stop
        <3> QED BY <2>1, <3>1 DEF DiskInv
    <2>5. CASE RestoreNext
        BY <2>1, <2>5, RestoreRunKeeps DEF DiskInv
    <2>6. CASE CloneNext
        BY <2>1, <2>6, CloneRunKeeps DEF DiskInv
    <2>7. CASE InitTarget
        BY <2>1, <2>7, InitTargetKeeps DEF DiskInv
    <2>8. CASE InitFails
        BY <2>1, <2>8, StopKeeps DEF DiskInv, InitFails
    <2>9. CASE Finish
        <3>1. RunInv'
            BY <2>1, <2>9, OverKeeps DEF Finish, Stop
        <3> QED BY <2>1, <3>1 DEF DiskInv
    <2>10. CASE UNCHANGED vars
        BY <2>1, <2>10, RunInvUnchanged DEF DiskInv
    <2> QED BY <2>2, <2>3, <2>4, <2>5, <2>6, <2>7, <2>8, <2>9, <2>10 DEF Next, Running
<1> QED BY <1>1, <1>2, PTL DEF Spec

\* However a run ends, a partition the plan keeps stays in the table, every block of
\* it as it was.
THEOREM PreservedTheorem == ASSUME ClonedInFront PROVE Spec => []PreservedIntact
<1>1. DiskInv => PreservedIntact
    BY DEF DiskInv, RunInv, KeptOld, PreservedIntact
<1> QED BY <1>1, DiskInvariant, PTL

\* A restored or cloned partition is in the table only when all of its data is in
\* place, and success means that the table is the planned one.
THEOREM HonestTheorem == ASSUME ClonedInFront, GuidKnown PROVE Spec => []TableIsHonest
<1>1. DiskInv => TableIsHonest
    BY DEF DiskInv, RunInv, HonestTable, Planted, TableIsHonest
<1> QED BY <1>1, DiskInvariant, PTL

\* A clone locked and dismounted every volume that could bounce one of its writes.
THEOREM CloneNeverDeniedTheorem == ASSUME ClonedInFront PROVE Spec => []CloneNeverDenied
<1>1. DiskInv => CloneNeverDenied
    BY DEF DiskInv, RunInv, StepInv, CloneNeverDenied, NeverDenied
<1> QED BY <1>1, DiskInvariant, PTL
=============================================================================
