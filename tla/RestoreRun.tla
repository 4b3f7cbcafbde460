----------------------------- MODULE RestoreRun -----------------------------
(* run_restore (phoenix-restore/src/restore.rs): check the plan against the
   backup and the disk, make the table anew or lock each slot's volume in turn,
   stream, plant the table. *)
EXTENDS TargetDisk

\* validate_against_backup, validate_extents_fit, validate_layout and the limits
\* of an MBR table.  That an NTFS shrink is refused because its metadata does
\* not fit is RestoreRefuse's choice.
ExtentsFit(t) ==
    Shrinks(t) => IsFs(t, "ntfs") \/ \A k \in Source.parts[t.src].data : k < t.size
RestoreSound ==
    /\ \A t \in PlanEntries : Used(t.src) <= t.size /\ ExtentsFit(t)
    /\ LayoutSound(slots, Target.size)
    /\ ~tableGpt => /\ Cardinality(slots) <= MbrSlots
                    /\ \A t \in slots : End(t) <= MbrLimit

RestoreAccept ==
    /\ job = "restore" /\ phase = "preflight"
    /\ RestoreSound
    /\ StartOf(IF reinit THEN "init" ELSE "next")

\* Also for reasons outside the model: the disk is gone, sector sizes differ.
RestoreRefuse == job = "restore" /\ phase = "preflight" /\ Refuse

\* The volume of the partition this slot descends from, if the table is kept.
Covering(t) == {p \in LiveParts : p = t.live /\ ~reinit /\ Target.parts[p].mounted}

RestoreLock ==
    /\ job = "restore" /\ phase = "next"
    /\ \E t \in Turn : locked' = locked \cup Covering(t)
    /\ phase' = "stream"
    /\ UNCHANGED <<content, table, todo, outcome, editorVars>>
RestoreLockBusy ==
    /\ job = "restore" /\ phase = "next"
    /\ \E t \in Turn : Covering(t) # {}
    /\ Fail

\* A ReFS slot smaller than its source is refused only here, at its turn.
RestoreStreamRefs ==
    /\ job = "restore" /\ phase = "stream"
    /\ \E t \in Turn : IsFs(t, "refs") /\ Shrinks(t)
    /\ Fail
\* restore_raw cuts what would land behind the slot.
RestoreStreamSlot ==
    /\ job = "restore" /\ phase = "stream"
    /\ \E t \in Turn : ~(IsFs(t, "refs") /\ Shrinks(t)) /\ Stream(t, t.size)

\* The mounted volumes of the live partitions that the plan deletes.
Removed == {p \in LiveParts : ~reinit /\ Target.parts[p].mounted
                              /\ \A t \in slots : t.live # p}

\* Mutants: the table is planted while slots are left; the run waits for guards
\* that only the planting drops.
RestoreStreamedEarly == job = "restore" /\ phase = "next" /\ Advance("plant")
RestoreStreamedUnlocked ==
    job = "restore" /\ phase = "next" /\ todo = {} /\ locked = {} /\ Advance("plant")
\* Only now lock_removed_target_volumes takes them.
RestoreStreamed ==
    /\ job = "restore" /\ phase = "next" /\ todo = {}
    /\ phase' = "plant"
    /\ locked' = locked \cup Removed
    /\ UNCHANGED <<content, table, todo, outcome, editorVars>>
RestoreRemovedBusy ==
    /\ job = "restore" /\ phase = "next" /\ todo = {}
    /\ Removed # {}
    /\ Fail

\* A GPT whose disk GUID is unknown is left as it is, and the run goes on.
RestorePlant ==
    /\ job = "restore"
    /\ Plant(IF ~reinit /\ Target.gpt /\ ~Target.guid THEN table ELSE slots)
\* The table cannot be written.
RestorePlantFails == job = "restore" /\ phase = "plant" /\ Fail

RestoreNext ==
    \/ RestoreAccept \/ RestoreRefuse
    \/ RestoreLock \/ RestoreLockBusy
    \/ RestoreStreamRefs \/ RestoreStreamSlot \/ RestoreStreamed \/ RestoreRemovedBusy
    \/ RestorePlant \/ RestorePlantFails
=============================================================================
