------------------------------- MODULE Backup -------------------------------
(* run_backup of phoenix-capture: how a backup decides which bytes it may
   trust to hold still, reads them, and checks what it read, while the rest of
   the system keeps using the volumes.

   Partition p is a function of blocks to versions: every write installs a
   version never used before, so two reads agree exactly when nothing was
   written in between.  used[p] are the blocks the filesystem allocates.  The
   run takes the partitions in order: plan (which blocks), lock, else a shadow
   copy and a second plan, else unfrozen; then one stream each; then finalize;
   then the verification the options ask for.  A chunk is one block here: the
   encode pipeline between the read and the file is module EncodePipeline. *)
EXTENDS Naturals, FiniteSets, FiniteSetsExt

CONSTANTS
    N,          \* how many partitions are selected
    Blocks,     \* the blocks of a partition, numbered in disk order
    KindLists,  \* the selections explored: functions from 1 .. N to Kinds
    Formats,    \* allocations a volume may start with, sets of blocks
    Checks,     \* the verification options explored, a subset of Verifications
    Attempts,   \* ATTEMPTS of PartitionReader::lock_volume
    MaxWrites,  \* bound: writes by the rest of the system
    MaxTears,   \* bound: torn reads of shadow devices
    MaxRot      \* bound: blocks whose stored bytes are not those submitted

Kinds == {"lettered", "esp", "unlettered", "bitlocked", "bare"}
Verifications == {"none", "source", "image"}
Parts == 1 .. N
Reads == 3           \* of a block that does not match: the first and two re-reads

ASSUME BackupAssumption ==
    /\ N \in Nat \ {0}
    /\ Blocks \subseteq Nat
    /\ IsFiniteSet(Blocks)
    /\ KindLists \subseteq [Parts -> Kinds]
    /\ Formats \subseteq SUBSET Blocks
    /\ Checks \subseteq Verifications
    /\ Attempts \in Nat \ {0}
    /\ {MaxWrites, MaxTears, MaxRot} \subseteq Nat

Versions == 0 .. MaxWrites
Torn == MaxWrites + 1                  \* bytes the block never held
Unread == MaxWrites + 2                \* not captured yet
Snapshots == [content : [Blocks -> Versions], used : SUBSET Blocks]
Blank == [content |-> [b \in Blocks |-> 0], used |-> {}]

VARIABLES
    kind,      \* kind[p]: what Windows has mounted on the partition
    verify,    \* verify_after and verify_image together
    content,   \* content[p][b]: the version on disk now
    used,      \* used[p]: the blocks the filesystem has allocated now
    busy,      \* busy[p]: another process has files open on the volume
    locked,    \* locked[p]: the run holds FSCTL_LOCK_VOLUME
    shadow,    \* shadow[p]: {} or the one snapshot the run reads instead
    version,   \* the last version written
    stage,     \* where run_backup is
    cur,       \* the partition it is at
    tries,     \* lock attempts made on it
    todo,      \* blocks of cur still to be read by the current loop
    misses,    \* reads of the current block that did not match its hash
    plan,      \* plan[p]: PreparedPartition.extents
    frozen,    \* PreparedPartition.frozen
    image,     \* image[p][b]: the version whose hash the manifest records
    queue,     \* image_verify: partitions to check in the file
    cancelled, \* the user asked the run to stop
    result,    \* what run_backup returned
    tears,     \* history: torn reads of each block
    rot,       \* history: <<p, b>> whose stored bytes are not those read
    asOf,      \* history: the volume when it was frozen, and by what
    atEnd      \* history: the source when the partition's stream ended

volumes == <<content, used, busy, version>>
holds == <<locked, shadow>>
place == <<stage, cur, tries, todo, misses, queue, result>>
outcome == <<plan, frozen, image>>
history == <<tears, rot, asOf, atEnd>>
vars == <<kind, verify, volumes, holds, place, outcome, cancelled, history>>

Stages == {"plan", "lock", "snapshot", "replan", "stream", "capture",
           "finalize", "verify", "compare", "hash", "done"}
Results == {"none", "ok", "error", "cancelled"}

TypeOK ==
    /\ kind \in [Parts -> Kinds]
    /\ verify \in Verifications
    /\ content \in [Parts -> [Blocks -> Versions]]
    /\ used \in [Parts -> SUBSET Blocks]
    /\ busy \in [Parts -> BOOLEAN]
    /\ locked \in [Parts -> BOOLEAN]
    /\ \A p \in Parts : shadow[p] \subseteq Snapshots /\ Cardinality(shadow[p]) <= 1
    /\ version \in Versions
    /\ stage \in Stages
    /\ cur \in Parts
    /\ tries \in 0 .. Attempts - 1
    /\ todo \subseteq Blocks
    /\ misses \in 0 .. Reads
    /\ plan \in [Parts -> SUBSET Blocks]
    /\ frozen \in [Parts -> BOOLEAN]
    /\ image \in [Parts -> [Blocks -> Versions \union {Torn, Unread}]]
    /\ queue \subseteq Parts
    /\ cancelled \in BOOLEAN
    /\ result \in Results
    /\ tears \in [Parts -> [Blocks -> 0 .. MaxTears]]
    /\ rot \subseteq Parts \X Blocks
    /\ asOf \in [Parts -> [by : {"nothing", "lock", "shadow"}, was : Snapshots]]
    /\ atEnd \in [Parts -> [Blocks -> Versions]]

\* A locked BitLocker partition is read through the physical disk.
HasVolume(p) == kind[p] \notin {"bitlocked", "bare"}

Init ==
    /\ kind \in KindLists
    /\ verify \in Checks
    /\ content = [p \in Parts |-> [b \in Blocks |-> 0]]
    /\ used \in [Parts -> Formats]
    /\ busy = [p \in Parts |-> FALSE]
    /\ locked = [p \in Parts |-> FALSE]
    /\ shadow = [p \in Parts |-> {}]
    /\ version = 0
    /\ stage = "plan"
    /\ cur = 1
    /\ tries = 0
    /\ todo = {}
    /\ misses = 0
    /\ plan = [p \in Parts |-> {}]
    /\ frozen = [p \in Parts |-> FALSE]
    /\ image = [p \in Parts |-> [b \in Blocks |-> Unread]]
    /\ queue = {}
    /\ cancelled = FALSE
    /\ result = "none"
    /\ tears = [p \in Parts |-> [b \in Blocks |-> 0]]
    /\ rot = {}
    /\ asOf = [p \in Parts |-> [by |-> "nothing", was |-> Blank]]
    /\ atEnd = [p \in Parts |-> [b \in Blocks |-> 0]]

-----------------------------------------------------------------------------
(* The rest of the system. *)

\* A process opens files on a mounted volume, which a held lock refuses.
Open(p) ==
    /\ stage # "done" /\ HasVolume(p) /\ ~busy[p] /\ ~locked[p]
    /\ busy' = [busy EXCEPT ![p] = TRUE]
    /\ UNCHANGED <<kind, verify, content, used, version, holds, place, outcome,
                   cancelled, history>>

Close(p) ==
    /\ stage # "done" /\ busy[p]
    /\ busy' = [busy EXCEPT ![p] = FALSE]
    /\ UNCHANGED <<kind, verify, content, used, version, holds, place, outcome,
                   cancelled, history>>

\* A write through an open file, which may allocate the block; or, where no
\* volume is mounted, a raw write (someone unlocks the BitLocker volume).
Write(p, b) ==
    /\ stage # "done" /\ version < MaxWrites
    /\ HasVolume(p) => busy[p]
    /\ version' = version + 1
    /\ content' = [content EXCEPT ![p][b] = version + 1]
    /\ used' = [used EXCEPT ![p] = @ \union {b}]
    /\ UNCHANGED <<kind, verify, busy, holds, place, outcome, cancelled, history>>

Cancel ==
    /\ stage # "done" /\ ~cancelled
    /\ cancelled' = TRUE
    /\ UNCHANGED <<kind, verify, volumes, holds, place, outcome, history>>

-----------------------------------------------------------------------------
(* Leaving run_backup: `prepared` and `vss` drop, which unlocks every volume
   and deletes every tracked shadow. *)

Release ==
    /\ locked' = [p \in Parts |-> FALSE]
    /\ shadow' = [p \in Parts |-> {}]

Return(r) ==
    /\ stage' = "done"
    /\ result' = r
    /\ Release
    /\ UNCHANGED <<kind, verify, volumes, cur, tries, todo, misses, queue,
                   outcome, cancelled, history>>

\* Opening, planning, reading, writing and finalizing can each fail.
IoError ==
    /\ stage \notin {"lock", "snapshot", "done"}
    /\ Return("error")

\* The flag is looked at before each partition of each phase and before each
\* block that is captured or compared; not while a volume is being locked.
CancelSeen ==
    /\ cancelled
    /\ \/ stage \in {"plan", "stream", "verify", "hash"}
       \/ stage \in {"capture", "compare"} /\ todo # {} /\ misses = 0
    /\ Return("cancelled")

Goto(s, p) ==
    /\ stage' = s
    /\ cur' = p
    /\ tries' = 0
    /\ UNCHANGED <<misses, result>>

-----------------------------------------------------------------------------
(* Phase 1: plan, then freeze. *)

\* plan_capture: the allocated blocks, or all of them for raw kinds and when
\* the bitmap cannot be read.
Plans(p, allocated) == IF HasVolume(p) THEN {allocated, Blocks} ELSE {Blocks}

AfterPrepared ==
    IF cur < N THEN Goto("plan", cur + 1) ELSE Goto("stream", 1)

PlanPartition ==
    /\ stage = "plan" /\ ~cancelled
    /\ \E blocks \in Plans(cur, used[cur]) : plan' = [plan EXCEPT ![cur] = blocks]
    /\ frozen' = [frozen EXCEPT ![cur] = kind[cur] = "bitlocked"]
    /\ IF HasVolume(cur) THEN Goto("lock", cur) ELSE AfterPrepared
    /\ UNCHANGED <<kind, verify, volumes, holds, todo, queue, image, cancelled, history>>

Freeze(by) ==
    asOf' = [asOf EXCEPT ![cur] =
                [by |-> by, was |-> [content |-> content[cur], used |-> used[cur]]]]

LockGranted ==
    /\ stage = "lock" /\ ~busy[cur]
    /\ locked' = [locked EXCEPT ![cur] = TRUE]
    /\ frozen' = [frozen EXCEPT ![cur] = TRUE]
    /\ Freeze("lock")
    /\ AfterPrepared
    /\ UNCHANGED <<kind, verify, volumes, shadow, todo, queue, plan, image, cancelled,
                   tears, rot, atEnd>>

\* Mutant: attempts until the volume is free.
LockRefusedForever ==
    /\ stage = "lock"
    /\ busy[cur] \/ kind[cur] \in {"esp", "unlettered"}
    /\ UNCHANGED vars

\* Windows refuses the lock of a volume in use, and some it keeps for itself.
\* The run sleeps and tries again, a bounded number of times.
LockRefused ==
    /\ stage = "lock"
    /\ busy[cur] \/ kind[cur] \in {"esp", "unlettered"}
    /\ IF tries + 1 < Attempts
       THEN tries' = tries + 1 /\ UNCHANGED <<stage, cur, misses, result>>
       ELSE Goto("snapshot", cur)
    /\ UNCHANGED <<kind, verify, volumes, holds, todo, queue, outcome, cancelled, history>>

\* snapshot_volume made a shadow of the volume as it is now.
ShadowMade ==
    /\ stage = "snapshot"
    /\ shadow' = [shadow EXCEPT ![cur] = {[content |-> content[cur], used |-> used[cur]]}]
    /\ Freeze("shadow")
    /\ Goto("replan", cur)
    /\ UNCHANGED <<kind, verify, volumes, locked, todo, queue, outcome, cancelled,
                   tears, rot, atEnd>>

\* Mutant: the plan made on the live volume is kept.
ReplanSkipped ==
    /\ stage = "replan"
    /\ frozen' = [frozen EXCEPT ![cur] = TRUE]
    /\ AfterPrepared
    /\ UNCHANGED <<kind, verify, volumes, holds, todo, queue, plan, image, cancelled, history>>

\* The plan made on the live volume is replaced by one made on the shadow.
Replan ==
    /\ stage = "replan"
    /\ \E s \in shadow[cur], blocks \in SUBSET Blocks :
          /\ blocks \in Plans(cur, s.used)
          /\ plan' = [plan EXCEPT ![cur] = blocks]
    /\ frozen' = [frozen EXCEPT ![cur] = TRUE]
    /\ AfterPrepared
    /\ UNCHANGED <<kind, verify, volumes, holds, todo, queue, image, cancelled, history>>

\* Mutant: every volume that cannot be frozen is captured unfrozen.
ShadowRefusedRunsOn ==
    /\ stage = "snapshot"
    /\ AfterPrepared
    /\ UNCHANGED <<kind, verify, volumes, holds, todo, queue, outcome, cancelled, history>>

\* snapshot_volume gave back the live path: no shadow was made, or none whose
\* device and id were reported.  A lettered volume ends the run; the ESP and
\* the volumes without a letter are captured unfrozen.
ShadowRefused ==
    /\ stage = "snapshot"
    /\ IF kind[cur] = "lettered"
       THEN Return("error")
       ELSE /\ AfterPrepared
            /\ UNCHANGED <<kind, verify, volumes, holds, todo, queue, outcome,
                           cancelled, history>>

-----------------------------------------------------------------------------
(* Phase 2: one stream per partition, read in disk order. *)

\* What partition p's reader sees: its shadow if it has one, else the disk.
Source(p) == IF shadow[p] = {} THEN content[p]
             ELSE (CHOOSE s \in shadow[p] : TRUE).content

TearsLeft == MapThenSumSet(LAMBDA p : MapThenSumSet(LAMBDA b : tears[p][b], Blocks),
                           Parts) < MaxTears

\* A read of block b: a shadow device may once in a while return bytes torn
\* by the copy-on-write it races with.
Read(p, b, v) ==
    \/ /\ v = Source(p)[b]
       /\ UNCHANGED tears
    \/ /\ v = Torn
       /\ shadow[p] # {} /\ TearsLeft
       /\ tears' = [tears EXCEPT ![p][b] = @ + 1]

BeginStream ==
    /\ stage = "stream" /\ ~cancelled
    /\ todo' = plan[cur]
    /\ Goto("capture", cur)
    /\ UNCHANGED <<kind, verify, volumes, holds, queue, outcome, cancelled, history>>

\* Read the next block and submit it; the manifest gets the hash of the bytes
\* read, the file gets bytes that the device may spoil.
CaptureBlock ==
    /\ stage = "capture" /\ todo # {} /\ ~cancelled
    /\ LET b == Min(todo)
       IN \E v \in Versions \union {Torn} :
             /\ Read(cur, b, v)
             /\ image' = [image EXCEPT ![cur][b] = v]
             /\ todo' = todo \ {b}
             /\ \/ UNCHANGED rot
                \/ Cardinality(rot) < MaxRot /\ rot' = rot \union {<<cur, b>>}
    /\ UNCHANGED <<kind, verify, volumes, holds, stage, cur, tries, misses, queue,
                   result, plan, frozen, cancelled, asOf, atEnd>>

EndStream ==
    /\ stage = "capture" /\ todo = {}
    /\ atEnd' = [atEnd EXCEPT ![cur] = Source(cur)]
    /\ IF cur < N THEN Goto("stream", cur + 1) ELSE Goto("finalize", cur)
    /\ UNCHANGED <<kind, verify, volumes, holds, todo, queue, outcome, cancelled,
                   tears, rot, asOf>>

-----------------------------------------------------------------------------
(* Phase 3: finalize and verify. *)

\* Asked to check the image, the run lets go of its locks and shadows first.
Finalize ==
    /\ stage = "finalize"
    /\ \/ verify = "none" /\ Return("ok")
       \/ /\ verify = "image"
          /\ Release
          /\ queue' = Parts
          /\ Goto("hash", 1)
          /\ UNCHANGED <<kind, verify, volumes, todo, outcome, cancelled, history>>
       \/ /\ verify = "source"
          /\ Goto("verify", 1)
          /\ UNCHANGED <<kind, verify, volumes, holds, todo, queue, outcome,
                         cancelled, history>>

\* After the last partition, those set aside are checked in the file.
AfterVerified(aside) ==
    /\ queue' = aside
    /\ \/ /\ cur < N
          /\ Goto("verify", cur + 1)
          /\ UNCHANGED <<kind, verify, volumes, holds, todo, outcome, cancelled, history>>
       \/ /\ cur = N /\ aside # {}
          /\ Goto("hash", 1)
          /\ UNCHANGED <<kind, verify, volumes, holds, todo, outcome, cancelled, history>>
       \/ cur = N /\ aside = {} /\ Return("ok")

\* Mutant: a source that may have changed is passed over.
VerifyPartitionUnlessUnfrozen ==
    /\ stage = "verify" /\ ~cancelled
    /\ IF frozen[cur]
       THEN /\ todo' = plan[cur]
            /\ Goto("compare", cur)
            /\ UNCHANGED <<kind, verify, volumes, holds, queue, outcome, cancelled, history>>
       ELSE AfterVerified(queue)

\* A source that may have changed is set aside; a frozen one is read again.
VerifyPartition ==
    /\ stage = "verify" /\ ~cancelled
    /\ IF frozen[cur]
       THEN /\ todo' = plan[cur]
            /\ Goto("compare", cur)
            /\ UNCHANGED <<kind, verify, volumes, holds, queue, outcome, cancelled, history>>
       ELSE AfterVerified(queue \union {cur})

\* Mutant: re-reads that agree with the first read, not with the record, pass.
CompareBlockStable ==
    /\ stage = "compare" /\ todo # {} /\ misses < Reads
    /\ misses = 0 => ~cancelled
    /\ LET b == Min(todo)
       IN \E v \in Versions \union {Torn} :
             /\ Read(cur, b, v)
             /\ IF v = image[cur][b] \/ misses = 2
                THEN todo' = todo \ {b} /\ misses' = 0
                ELSE misses' = misses + 1 /\ UNCHANGED todo
    /\ UNCHANGED <<kind, verify, volumes, holds, stage, cur, tries, queue, result,
                   outcome, cancelled, rot, asOf, atEnd>>

\* verify_partition_against_source: a block whose first read does not hash to
\* the record is read twice more, and either of them may match.
CompareBlock ==
    /\ stage = "compare" /\ todo # {} /\ misses < Reads
    /\ misses = 0 => ~cancelled
    /\ LET b == Min(todo)
       IN \E v \in Versions \union {Torn} :
             /\ Read(cur, b, v)
             /\ IF v = image[cur][b]
                THEN todo' = todo \ {b} /\ misses' = 0
                ELSE misses' = misses + 1 /\ UNCHANGED todo
    /\ UNCHANGED <<kind, verify, volumes, holds, stage, cur, tries, queue, result,
                   outcome, cancelled, rot, asOf, atEnd>>

\* None of the reads matched: the backup does not represent the disk.
SourceDiffers == stage = "compare" /\ misses = Reads /\ Return("error")

PartitionCompared == stage = "compare" /\ todo = {} /\ AfterVerified(queue)

\* verify_partition on the finished file: every chunk must hash to its record.
HashPartition ==
    /\ stage = "hash" /\ ~cancelled
    /\ LET p == Min(queue)
           intact == \A b \in plan[p] : <<p, b>> \notin rot
       IN \/ ~intact /\ Return("error")
          \/ intact /\ queue = {p} /\ Return("ok")
          \/ /\ intact /\ queue # {p}
             /\ queue' = queue \ {p}
             /\ UNCHANGED <<kind, verify, volumes, holds, stage, cur, tries, todo,
                            misses, result, outcome, cancelled, history>>

-----------------------------------------------------------------------------
Run ==
    \/ IoError \/ CancelSeen
    \/ PlanPartition \/ LockGranted \/ LockRefused
    \/ ShadowMade \/ Replan \/ ShadowRefused
    \/ BeginStream \/ CaptureBlock \/ EndStream
    \/ Finalize \/ VerifyPartition \/ CompareBlock \/ SourceDiffers
    \/ PartitionCompared \/ HashPartition

System ==
    \/ \E p \in Parts : Open(p) \/ Close(p)
    \/ \E p \in Parts, b \in Blocks : Write(p, b)
    \/ Cancel

Done == stage = "done" /\ UNCHANGED vars

Next == Run \/ System \/ Done

Spec == Init /\ [][Next]_vars

\* Only the backup's own thread is sure to keep going.
FairSpec == Spec /\ WF_vars(Run)

-----------------------------------------------------------------------------
(* Properties. *)

Final == stage \in {"verify", "compare", "hash"} \/ result = "ok"

\* A volume that has a drive letter is never captured smeared: once the file is
\* final, with or without verification, every block of it that was not torn is
\* the block of one instant, when the volume was locked or snapshotted, however
\* the rest of the system wrote meanwhile.
LetteredIsOneInstant ==
    Final =>
        \A p \in Parts : kind[p] = "lettered" =>
            \A b \in plan[p] : image[p][b] \in {asOf[p].was.content[b], Torn}

\* A shadow is planned afresh, so every block allocated in the snapshot is in
\* the image, also one the live volume had not allocated when first planned.
ShadowIsWhole ==
    Final =>
        \A p \in Parts : asOf[p].by = "shadow" =>
            \A b \in asOf[p].was.used : image[p][b] # Unread

\* Verification against the source proves one instant for everything it reads:
\* if it passes, each block is what the source held when the partition's stream
\* ended, though a BitLocker-locked source can be tampered with at any time
\* and shadow reads can be torn; only a block torn more than once escapes.
VerifiedIsOneInstant ==
    result = "ok" /\ verify = "source" =>
        \A p \in Parts : frozen[p] =>
            \A b \in plan[p] : tears[p][b] <= 1 => image[p][b] = atEnd[p][b]

\* No partition escapes the verification asked for: one that was not compared
\* with its source holds, in the file, the bytes that were read.
UncomparedIsIntact ==
    result = "ok" /\ verify # "none" =>
        \A p \in Parts : verify = "image" \/ ~frozen[p] =>
            \A b \in plan[p] : <<p, b>> \notin rot

\* However busy the volumes are, the run returns and gives back every volume
\* it locked and every shadow it was given.  (A shadow Windows made without
\* reporting its id is no shadow here: see ShadowRefused.)
RunReturns ==
    <>[](stage = "done" /\ \A p \in Parts : ~locked[p] /\ shadow[p] = {})

\* What the code says of a verified frozen source, "image == the frozen
\* source", for a locked volume: every block allocated when the lock was
\* granted is in the image.
LockedIsWhole ==
    result = "ok" /\ verify = "source" =>
        \A p \in Parts : asOf[p].by = "lock" =>
            \A b \in asOf[p].was.used : image[p][b] # Unread
=============================================================================
