------------------------------ MODULE DiskJobs ------------------------------
(* One job on a target disk from the editor to the end: the user edits the
   layout, starts, and the restore or the clone runs on it. *)
EXTENDS RestoreRun, CloneRun

vars == <<editorVars, phase, diskVars>>

Init == EditorInit /\ DiskInit
Editing == EditorNext /\ UNCHANGED diskVars
Starting == MakePlan /\ UNCHANGED diskVars
Running == \/ RestoreNext \/ CloneNext
           \/ InitTarget \/ InitFails \/ Finish
Next == Editing \/ Starting \/ Running \/ Cancel

Spec == Init /\ [][Next]_vars
\* A run that was started keeps going: it waits for nobody.
FairSpec == Spec /\ WF_vars(Running)

--------------------------------------------------------------------------------
\* Every variable keeps its type, and a slot is streamed only while one is left.
TypeOK ==
    /\ job \in Jobs /\ slots \subseteq Slot
    /\ {tableGpt, reinit, fullDisk} \subseteq BOOLEAN /\ edits \in 0 .. MaxEdits
    /\ phase \in {"editing", "preflight", "freeze", "init", "lock", "next", "stream",
                  "plant", "finish", "over"}
    /\ outcome \in {"none", "refused", "failed", "denied", "cancelled", "done"}
    /\ (phase = "over") = (outcome # "none")
    /\ content \in [Blocks -> {Old} \cup
                       UNION {{<<s, k>> : k \in Source.parts[s].data} : s \in SourceParts}]
    /\ table \subseteq Slot /\ locked \subseteq LiveParts
    /\ todo \subseteq PlanEntries /\ (phase = "stream" => todo # {})

\* A partition the plan keeps is never written into, whatever is moved, resized or
\* streamed around it and however the run ends; and it stays in the table
\* (CloneTableMode::UpdateExisting: "survive untouched").
PreservedIntact ==
    phase # "editing" =>
        \A t \in Preserved : /\ t \in table
                             /\ \A b \in SlotBlocks(t) : content[b] = Old

\* A table that names a restored or cloned partition is planted only over data
\* that is all there: a crash, an error or a cancel before leaves the old table
\* or an empty one (restore.rs PHASE 3).  Success means that the table is the
\* planned layout, no more and no less.
Complete(e) == \A k \in Source.parts[e.src].data :
                  LandsAt(e, k) < End(e) /\ content[LandsAt(e, k)] = <<e.src, k>>
TableIsHonest == /\ \A e \in table : e.src # 0 => Complete(e)
                 /\ outcome = "done" => table = slots

\* A plan that is refused has cost nothing: whatever the checks of a restore or the
\* freezing of a clone's sources find, the target is as it was (restore.rs:66-70,
\* lib.rs:227-245 of the clone).
RefusedUntouched ==
    outcome = "refused" => table = LiveSlots /\ \A b \in Blocks : content[b] = Old

\* No write is bounced by a volume that is still mounted: each one in the way was
\* locked and dismounted before ("Before writing each slot we lock + dismount its
\* covering volume", restore.rs:384-394; lib.rs:309-315 of the clone).
NeverDenied == outcome # "denied"
CloneNeverDenied == job = "clone" => NeverDenied

\* Every run that is started ends, whichever step fails.
RunReturns == (phase = "preflight") ~> (phase = "over")
=============================================================================
