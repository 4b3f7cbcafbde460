------------------------------ MODULE CloneRun ------------------------------
(* run_clone (phoenix-clone/src/lib.rs): validate the plan, freeze and plan every
   source partition before the target is touched, clear the target, stream,
   plant the table. *)
EXTENDS TargetDisk

\* ClonePlan::validate; what is preserved keeps its live place.
CloneSound ==
    /\ PlanEntries # {}
    /\ ~reinit /\ Target.gpt => Target.guid
    /\ \A t \in PlanEntries : Used(t.src) <= t.size
    /\ LayoutSound(slots, Target.size)

CloneAccept ==
    /\ job = "clone" /\ phase = "preflight"
    /\ CloneSound
    /\ StartOf("freeze")
CloneRefuse == job = "clone" /\ phase = "preflight" /\ Refuse

\* prepare_partition for every entry.  A ReFS shrink is always refused; a volume
\* that cannot be frozen, an NTFS shrink that does not fit and a cancel may be.
Preparable == \A t \in PlanEntries : ~(IsFs(t, "refs") /\ Shrinks(t))
CloneFreeze ==
    /\ job = "clone" /\ phase = "freeze"
    /\ Preparable
    /\ Advance(IF reinit THEN "init" ELSE "lock")
CloneFreezeFails == job = "clone" /\ phase = "freeze" /\ Refuse

\* An in-place update locks every live volume it does not preserve.
\* Mutant: only those whose slot is written, as a restore does.
InTheWaySlots == {p \in LiveParts : Target.parts[p].mounted /\ \E t \in PlanEntries : t.live = p}
InTheWay == {p \in LiveParts : Target.parts[p].mounted
                /\ \A t \in Preserved : t.live # p}
CloneLock ==
    /\ job = "clone" /\ phase = "lock"
    /\ locked' = InTheWay
    /\ phase' = "next"
    /\ UNCHANGED <<content, table, todo, outcome, editorVars>>
CloneLockBusy == job = "clone" /\ phase = "lock" /\ InTheWay # {} /\ Fail

\* stream_extents writes every extent; nothing is cut at the end of the slot.
CloneStreamSlot ==
    /\ job = "clone" /\ phase = "next"
    /\ \E t \in Turn : Stream(t, Source.parts[t.src].size)
CloneStreamed ==
    /\ job = "clone" /\ phase = "next" /\ todo = {}
    /\ Advance("plant")

\* Mutant: the table is rewritten without what is preserved.
ClonePlantPlanned == job = "clone" /\ Plant(PlanEntries)
ClonePlant == job = "clone" /\ Plant(PlanEntries \cup Preserved)
ClonePlantFails == job = "clone" /\ phase = "plant" /\ Fail

CloneNext ==
    \/ CloneAccept \/ CloneRefuse
    \/ CloneFreeze \/ CloneFreezeFails
    \/ CloneLock \/ CloneLockBusy
    \/ CloneStreamSlot \/ CloneStreamed
    \/ ClonePlant \/ ClonePlantFails
=============================================================================
