---------------------------- MODULE LayoutEditor ----------------------------
(* The target-layout editor of phoenix-gui (restore_layout.rs), from which both
   the restore and the clone take their plan: "the map IS the plan".  A slot is
   one partition of the planned layout: the live partition it descends from
   (`live`, 0 for none) and the source partition mapped into it (`src`, 0 for
   a slot that is kept as it is).

   The pure arithmetic of drags and of full-disk layouts is DiskLayout's. *)
EXTENDS DiskLayout

CONSTANTS
    Target,     \* the live target disk: size, gpt, guid, and parts: index -> [start, size, fs]
    Source,     \* the backup or the source disk: gpt, and parts: index ->
                \* [start, size, fs, data], `data` the set of its used blocks
    Jobs,       \* {"restore", "clone"} or one of them
    Align,      \* align_bytes
    Fine,       \* the 4 KiB alignment of a tight layout
    Lead,       \* blocks the primary GPT takes
    Trail,      \* blocks the backup GPT takes
    MbrLimit,   \* MBR_ADDRESSABLE_BYTES
    MbrSlots,   \* entries of an MBR table
    MaxEdits    \* bound: edits of one session

LiveParts == DOMAIN Target.parts
SourceParts == DOMAIN Source.parts
Used(s) == Cardinality(Source.parts[s].data)
Ceiling(gpt) == IF gpt THEN Target.size ELSE Smaller(Target.size, MbrLimit)

ASSUME LayoutAssumption ==
    /\ {Align, Fine, Lead, Trail, MbrLimit, MbrSlots} \subseteq Nat \ {0}
    /\ MaxEdits \in Nat
    /\ Target.size \in Nat /\ Target.gpt \in BOOLEAN /\ Trail <= Target.size
    /\ IsFiniteSet(LiveParts) /\ LiveParts \subseteq Nat \ {0}
    /\ SourceParts \subseteq Nat \ {0}
    /\ Jobs \subseteq {"restore", "clone"}
\* The target's own table is sound: partitions lie apart, within what its style
\* can describe.
ASSUME TargetAssumption ==
    /\ \A p \in LiveParts :
          /\ Target.parts[p].start \in Nat /\ Target.parts[p].size \in Nat \ {0}
          /\ End(Target.parts[p]) <= (IF Target.gpt THEN Target.size - Trail ELSE Ceiling(FALSE))
    /\ \A p, q \in LiveParts : p # q => Apart(Target.parts[p], Target.parts[q])
    /\ ~Target.gpt => Cardinality(LiveParts) <= MbrSlots
ASSUME SourceAssumption ==
    /\ Source.gpt \in BOOLEAN
    /\ \A s \in SourceParts :
          /\ Source.parts[s].size \in Nat \ {0}
          /\ Source.parts[s].data \subseteq 0 .. (Source.parts[s].size - 1)
          /\ Used(s) \in 0 .. Source.parts[s].size

VARIABLES
    job,       \* "restore" or "clone"
    slots,     \* the planned layout
    tableGpt,  \* table_gpt
    reinit,    \* reinit_table
    fullDisk,  \* full_disk
    edits,     \* edits made, for the bound
    phase      \* "editing", or where the run that took the layout stands

editorVars == <<job, slots, tableGpt, reinit, fullDisk, edits>>

Slot == [start : Nat, size : Nat, src : SourceParts \cup {0}, live : LiveParts \cup {0}]
Mapped(t) == t.src # 0

\* partition_allows_resize: never ReFS, never what was captured raw.
Resizable(s) == Source.parts[s].fs \in {"ntfs", "fat"}

LiveSlots == {[start |-> Target.parts[p].start, size |-> Target.parts[p].size,
               src |-> 0, live |-> p] : p \in LiveParts}

\* usable_end: GPT keeps its backup at the tail, MBR cannot address past its limit.
UsableEnd == IF tableGpt THEN Target.size - Trail ELSE Ceiling(FALSE)

\* rebuild_from_target
Rebuild == /\ slots' = LiveSlots
           /\ tableGpt' = Target.gpt
           /\ reinit' = FALSE
           /\ fullDisk' = FALSE

EditorInit ==
    /\ job \in Jobs
    /\ slots = LiveSlots
    /\ tableGpt = Target.gpt
    /\ reinit = FALSE
    /\ fullDisk = FALSE
    /\ edits = 0
    /\ phase = "editing"

Edit == /\ phase = "editing"
        /\ edits < MaxEdits
        /\ edits' = edits + 1
        /\ UNCHANGED <<job, phase>>
PartialEdit == Edit /\ ~fullDisk

--------------------------------------------------------------------------------
\* Where the free space behind `end` stops: gap_after.
GapEnds(end) ==
    LET next == {t.start : t \in {u \in slots : u.start >= end}}
    IN  IF next = {} THEN {Larger(UsableEnd, end)} ELSE LeastOf(next)

\* fit_into: the size source s takes in `avail` blocks, if it can.
FitInto(s, avail) ==
    LET part == Source.parts[s]
    IN  IF part.size <= avail THEN {part.size}
        ELSE IF Resizable(s) /\ AlignUp(Used(s), Align) <= avail THEN {avail}
        ELSE {}

\* Drop source s onto slot t: it starts there and may grow into the gap behind.
ApplyDrop(s, t) ==
    /\ PartialEdit
    /\ \E end \in GapEnds(End(t)) : \E size \in FitInto(s, end - t.start) :
          slots' = (slots \ {t}) \cup {[t EXCEPT !.size = size, !.src = s]}
    /\ UNCHANGED <<tableGpt, reinit, fullDisk>>

\* The unallocated segments the map draws.
Gaps == {r \in FreeSpans(slots, Target.size) : r.lo < r.hi}
GapStart(gap) == AlignUp(Larger(gap.lo, Align), Align)
\* Mutant: the segment's own end, into the backup GPT or past the MBR limit.
GapStopAnywhere(gap) == gap.hi
GapStop(gap) == Smaller(gap.hi, UsableEnd)

\* Drop source s into unallocated space: a new slot at its aligned start.
ApplyGapDrop(s, gap) ==
    /\ PartialEdit
    /\ tableGpt \/ Cardinality(slots) < MbrSlots
    /\ GapStart(gap) < GapStop(gap)
    /\ \E size \in FitInto(s, GapStop(gap) - GapStart(gap)) :
          slots' = slots \cup {[start |-> GapStart(gap), size |-> size, src |-> s, live |-> 0]}
    /\ UNCHANGED <<tableGpt, reinit, fullDisk>>

DeleteSelected(t) ==
    /\ PartialEdit
    /\ slots' = slots \ {t}
    /\ UNCHANGED <<tableGpt, reinit, fullDisk>>

\* "Blank layout", alone or with the switch of the table style.
BlankLayout(gpt) ==
    /\ PartialEdit
    /\ slots' = {}
    /\ tableGpt' = gpt
    /\ reinit' = TRUE
    /\ UNCHANGED fullDisk

ResetLayout == PartialEdit /\ Rebuild

\* Obstacles to a drag: every other slot and the table region at the front,
\* which is no larger than where the first slot starts.
FrontReserve == LET least == LeastOf({t.start : t \in slots} \cup {Align})
         IN  {[start |-> 0, size |-> f] : f \in least \ {0}}
Obstacles(t) == (slots \ {t}) \cup FrontReserve
LeastSize(t) == Larger(AlignUp(Used(t.src), Align), Align)

Placed(t, start, size) ==
    /\ slots' = (slots \ {t}) \cup {[t EXCEPT !.start = start, !.size = size]}
    /\ UNCHANGED <<tableGpt, reinit, fullDisk>>

\* update_drag: only a mapped slot can be moved, and resized if its filesystem can.
MoveSlot(t, pointer, grab) ==
    /\ PartialEdit /\ Mapped(t)
    /\ t.size \in 1 .. UsableEnd
    /\ \E at \in MoveCandidates(Obstacles(t), UsableEnd, t, pointer, AtLeastZero(pointer - grab), Align) :
          Placed(t, at, t.size)

ResizeLeft(t, pointer, snap) ==
    /\ PartialEdit /\ Mapped(t) /\ Resizable(t.src)
    /\ LeastSize(t) <= End(t)
    /\ \E at \in LeftEdges(Obstacles(t), t, LeastSize(t), pointer, snap, Align) :
          Placed(t, at, End(t) - at)

ResizeRight(t, pointer, snap) ==
    /\ PartialEdit /\ Mapped(t) /\ Resizable(t.src)
    /\ \E end \in RightEdges(Obstacles(t), UsableEnd, t, LeastSize(t), pointer, snap, Align) :
          Placed(t, t.start, end - t.start)

--------------------------------------------------------------------------------
NtfsParts == {s \in SourceParts : Source.parts[s].fs = "ntfs"}
InPlace == SetToSortSeq(SourceParts, LAMBDA s, t : s < t)

\* build_full_disk_plan: pack the backup's sizes, then grow the main NTFS
\* partition unless that would spoil the layout.
BackupLayout ==
    LET top == Ceiling(Source.gpt)
        sizes == [i \in DOMAIN InPlace |-> Source.parts[InPlace[i]].size]
        packed == PackFullDisk(sizes, AtLeastZero(top - Trail), Align, Fine, Lead)
        plain == [i \in DOMAIN packed |->
                    [src |-> InPlace[i], start |-> packed[i].start, size |-> packed[i].size]]
        grown == ExpandPrimary(plain, NtfsParts, top, Align, Align)
    IN  IF LayoutSound(SpansOf(grown), top) THEN grown ELSE plain

\* ClonePlan::identity and expand_to_fill
CloneLayout(expand) ==
    LET same == [i \in DOMAIN InPlace |->
                   [src |-> InPlace[i], start |-> Source.parts[InPlace[i]].start,
                    size |-> Source.parts[InPlace[i]].size]]
    IN  IF expand THEN ExpandPrimary(same, NtfsParts, Target.size, Align, 0) ELSE same

\* Either is a list of places for partitions of the source: offsets and sizes are
\* unsigned there, and every entry has the index of its source.
ASSUME FullDiskAssumption ==
    \A layout \in {BackupLayout} \cup {CloneLayout(expand) : expand \in BOOLEAN} :
        SpansOf(layout) \subseteq [src : SourceParts, start : Nat, size : Nat]

\* "Entire disk": the editor is locked and the table will be made anew.
FullDisk(layout) ==
    /\ Edit
    /\ slots' = {[start |-> e.start, size |-> e.size, src |-> e.src, live |-> 0] :
                    e \in SpansOf(layout)}
    /\ tableGpt' = Source.gpt
    /\ reinit' = TRUE
    /\ fullDisk' = TRUE

ApplyFullDisk == job = "restore" /\ ~fullDisk /\ FullDisk(BackupLayout)
SeedFullDiskClone(expand) == job = "clone" /\ FullDisk(CloneLayout(expand))
ClearFullDisk == Edit /\ fullDisk /\ Rebuild

\* Start: the slots become the plan.
HasRestorableEntries == \E t \in slots : Mapped(t)
MakePlan == /\ phase = "editing"
            /\ HasRestorableEntries
            /\ phase' = "preflight"
            /\ UNCHANGED editorVars

Pointers == 0 .. Target.size
EditorNext ==
    \/ \E t \in slots :
          \/ DeleteSelected(t)
          \/ \E s \in SourceParts : ApplyDrop(s, t)
          \/ \E pointer \in Pointers :
                \/ \E grab \in 0 .. t.size : MoveSlot(t, pointer, grab)
                \/ \E snap \in {0, Align} : ResizeLeft(t, pointer, snap) \/ ResizeRight(t, pointer, snap)
    \/ \E s \in SourceParts, gap \in Gaps : ApplyGapDrop(s, gap)
    \/ \E gpt \in BOOLEAN : BlankLayout(gpt)
    \/ ResetLayout
    \/ ApplyFullDisk
    \/ \E expand \in BOOLEAN : SeedFullDiskClone(expand)
    \/ ClearFullDisk

--------------------------------------------------------------------------------
\* A partial layout satisfies what the engines check of its geometry
\* (validate_layout, validate_against_backup, the MBR limits, ClonePlan::validate).
EditorPlansPass ==
    ~fullDisk =>
        /\ LayoutSound(slots, UsableEnd)
        /\ \A t \in slots : Mapped(t) => Used(t.src) <= t.size
        /\ ~tableGpt => /\ Cardinality(slots) <= MbrSlots
                        /\ \A t \in slots : End(t) <= MbrLimit
=============================================================================
