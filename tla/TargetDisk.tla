----------------------------- MODULE TargetDisk -----------------------------
(* The disk a restore or a clone writes to, and the steps both runs take on it
   (phoenix-restore's partition_table.rs and the writer behind it): make the
   table anew, stream a partition, plant the table, come back.

   Windows refuses a raw write into a volume that is mounted, so a volume in the
   way has to be locked and dismounted first; the guard is held until the table
   is planted.  Any step may fail, and the user may cancel. *)
EXTENDS LayoutEditor

VARIABLES
    content,  \* what each block of the target holds
    table,    \* the partition table on disk: a set of slots
    locked,   \* live partitions whose volume is locked and dismounted
    todo,     \* mapped slots still to stream
    outcome   \* "none", "refused", "failed", "denied", "cancelled" or "done"

diskVars == <<content, table, locked, todo, outcome>>

Old == <<0, 0>>                     \* what the target held before the run
Blocks == 0 .. Target.size - 1
SlotBlocks(t) == t.start .. End(t) - 1
Shrinks(t) == t.size < Source.parts[t.src].size
IsFs(t, fs) == Source.parts[t.src].fs = fs

DiskInit == /\ content = [b \in Blocks |-> Old]
            /\ table = LiveSlots
            /\ locked = {}
            /\ todo = {}
            /\ outcome = "none"

\* The plan: mapped slots are written; the others are preserved when the table
\* is kept (in a table made anew there are none).
PlanEntries == {t \in slots : Mapped(t)}
Preserved == {t \in slots : ~Mapped(t)}
\* The plan is in disk order (to_restore_plan, to_clone_plan sort the slots).
Turn == {t \in todo : \A u \in todo : t.start <= u.start}

\* Where the used blocks of a slot's source land in it.  Only NTFS data beyond
\* the end of a smaller slot is moved, into blocks that are free below it.
Placement(t) ==
    LET data == Source.parts[t.src].data
    IN  IF Shrinks(t) /\ IsFs(t, "ntfs")
        THEN CHOOSE f \in [data -> 0 .. t.size - 1] :
                /\ \A k \in data : k < t.size => f[k] = k
                /\ \A j, k \in data : j # k => f[j] # f[k]
        ELSE [k \in data |-> k]
LandsAt(t, k) == t.start + Placement(t)[k]

\* A block Windows guards: in a live partition whose volume is still mounted.
MountedPart(p) == Target.parts[p].mounted /\ p \notin locked
                  /\ \E e \in table : e.live = p /\ e.src = 0
Guarded(b) == \E p \in LiveParts : MountedPart(p) /\ b \in SlotBlocks(Target.parts[p])

Landed(t, written) ==
    [b \in Blocks |-> IF \E k \in written : LandsAt(t, k) = b
                      THEN <<t.src, CHOOSE k \in written : LandsAt(t, k) = b>>
                      ELSE content[b]]

--------------------------------------------------------------------------------
\* However a run ends, its guards are dropped.
Stop(result) == /\ phase' = "over"
                /\ outcome' = result
                /\ locked' = {}
                /\ UNCHANGED todo
Fail == Stop("failed") /\ UNCHANGED <<content, table, editorVars>>
Refuse == Stop("refused") /\ UNCHANGED <<content, table, editorVars>>

\* A cancel is seen between partitions.
Cancel == /\ phase = "next" /\ todo # {}
          /\ Stop("cancelled")
          /\ UNCHANGED <<content, table, editorVars>>

\* init_target_disk_as_gpt / _as_mbr: the table is wiped, no volume is left.
\* Mutant: wiped while the source is still being frozen.
InitTargetEarly ==
    /\ phase \in {"init", "freeze"}
    /\ phase' = IF phase = "init" THEN "next" ELSE phase
    /\ table' = {}
    /\ UNCHANGED <<content, locked, todo, outcome, editorVars>>
InitTarget ==
    /\ phase = "init"
    /\ phase' = "next"
    /\ table' = {}
    /\ UNCHANGED <<content, locked, todo, outcome, editorVars>>
InitFails == phase = "init" /\ Fail

\* Stream slot t in the order of its source, what lands below `limit`: all of it,
\* or what comes before a block that Windows denies, the disk cannot take, or at
\* which something else fails.
Stream(t, limit) ==
    LET kept == {k \in Source.parts[t.src].data : Placement(t)[k] < limit}
        denied == {k \in kept : Guarded(LandsAt(t, k))}
        blocked == denied \cup {k \in kept : LandsAt(t, k) \notin Blocks}
    IN  \E stop \in kept \cup {Source.parts[t.src].size} :
          LET written == {k \in kept : k < stop}
          IN  /\ written \cap blocked = {}
              /\ content' = Landed(t, written)
              /\ \/ /\ written = kept
                    /\ phase' = "next"
                    /\ todo' = todo \ {t}
                    /\ UNCHANGED <<locked, outcome>>
                 \/ stop \in denied /\ Stop("denied")
                 \/ stop \in kept \ denied /\ Stop("failed")
                 \/ Stop("cancelled")
              /\ UNCHANGED <<table, editorVars>>

\* Everything is streamed: the table describes the planned layout, the guards go.
Plant(entries) ==
    /\ phase = "plant"
    /\ phase' = "finish"
    /\ table' = entries
    /\ locked' = {}
    /\ UNCHANGED <<content, todo, outcome, editorVars>>

\* Bring the disk online and extend what grew: nothing here fails the run.
Finish == /\ phase = "finish"
          /\ Stop("done")
          /\ UNCHANGED <<content, table, editorVars>>

StartOf(next) == /\ phase' = next
                 /\ todo' = PlanEntries
                 /\ UNCHANGED <<content, table, locked, outcome, editorVars>>
Advance(next) == /\ phase' = next
                 /\ UNCHANGED <<content, table, locked, todo, outcome, editorVars>>
=============================================================================
