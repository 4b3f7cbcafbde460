---------------------------- MODULE BackupProofs ----------------------------
(* What a backup may say of the bytes it stored, proved of module Backup for
   every number of partitions, every set of blocks and every selection, and for
   any number of writes, torn reads and spoiled blocks.

   The argument.  A partition is Fresh until it is frozen; from then on Held
   says that the lock keeps the volume as it was, or that the shadow holds what
   it was, and Kept that the run gives neither up before it has compared what it
   read.  So every block is read (Taken) as it was at one instant, and the end of
   the stream (Ended) sees that same instant.  A source that nothing freezes
   but is compared, a locked BitLocker partition, is argued differently:
   versions only grow, so a block that reads the same at capture and at comparison
   was the same in between.  What was compared (Compared) or checked in the file
   (Hashed) stays so until the run returns. *)
EXTENDS Backup, WellFoundedInduction, NaturalsInduction, TLAPS

Planning == stage \in {"plan", "lock", "snapshot", "replan"}
Streaming == stage \in {"stream", "capture"}
Alive == stage # "done" \/ result = "ok"

\* Partition p has gone through phase 1; its stream has ended.
Prepared(p) == Alive /\ (Planning => p < cur)
Streamed(p) == Prepared(p) /\ ~Planning /\ (Streaming => p < cur)

\* The comparison with the source has begun.
Comparing == stage \in {"verify", "compare", "hash"} \/ result = "ok"

\* The blocks of p the run has read; those it has read again and found equal.
TakenOf(p) ==
    IF Streamed(p) THEN plan[p]
    ELSE IF stage = "capture" /\ p = cur THEN plan[p] \ todo ELSE {}
ComparedOf(p) ==
    IF ~(verify = "source" /\ frozen[p] /\ Comparing) THEN {}
    ELSE IF stage \in {"verify", "compare"} /\ p >= cur
         THEN IF stage = "compare" /\ p = cur THEN plan[p] \ todo ELSE {}
         ELSE plan[p]

\* The types the proof needs: a bound on the torn reads and the spoiled blocks
\* is not among them.
Typed ==
    /\ kind \in [Parts -> Kinds]
    /\ verify \in Verifications
    /\ content \in [Parts -> [Blocks -> Versions]]
    /\ used \in [Parts -> SUBSET Blocks]
    /\ busy \in [Parts -> BOOLEAN]
    /\ locked \in [Parts -> BOOLEAN]
    /\ shadow \in [Parts -> SUBSET Snapshots]
    /\ version \in Versions
    /\ stage \in Stages
    /\ cur \in Parts
    /\ todo \subseteq Blocks
    /\ plan \in [Parts -> SUBSET Blocks]
    /\ frozen \in [Parts -> BOOLEAN]
    /\ image \in [Parts -> [Blocks -> Versions \union {Torn, Unread}]]
    /\ queue \subseteq Parts
    /\ result \in Results
    /\ tears \in [Parts -> [Blocks -> Nat]]
    /\ rot \subseteq Parts \X Blocks
    /\ asOf \in [Parts -> [by : {"nothing", "lock", "shadow"}, was : Snapshots]]
    /\ atEnd \in [Parts -> [Blocks -> Versions]]

\* Where the run is: what it locks or shadows is a volume, and what it verifies it
\* was asked to.
Placed ==
    /\ stage # "done" => result = "none"
    /\ stage \in {"lock", "snapshot", "replan"} => HasVolume(cur)
    /\ stage = "replan" => asOf[cur].by = "shadow"
    /\ stage \in {"verify", "compare"} => verify = "source"
    /\ stage = "compare" => frozen[cur]
    /\ stage = "hash" => verify # "none" /\ queue # {}

\* Versions are numbered as they are written.
Numbered == \A p \in Parts, b \in Blocks : content[p][b] <= version

\* A partition phase 1 has not yet come to, or not yet frozen.
Fresh(p) ==
    Planning /\ p >= cur /\ ~(p = cur /\ stage = "replan") =>
        ~locked[p] /\ shadow[p] = {} /\ asOf[p].by = "nothing"

\* A lock keeps the volume as it was when it was granted; a shadow holds what it
\* was made of.
Held(p) ==
    /\ locked[p] => /\ HasVolume(p) /\ ~busy[p] /\ asOf[p].by = "lock"
                    /\ content[p] = asOf[p].was.content
    /\ shadow[p] # {} => asOf[p].by = "shadow" /\ shadow[p] = {asOf[p].was}

\* Neither is given up before the comparison with the source is over.
Kept(p) ==
    stage \notin {"hash", "done"} =>
        /\ asOf[p].by = "lock" => locked[p]
        /\ asOf[p].by = "shadow" => shadow[p] # {}

\* What phase 1 settles: a volume with a letter is frozen, what counts as frozen
\* is frozen or a locked BitLocker partition, a shadow is planned whole.
Settled(p) ==
    Prepared(p) =>
        /\ kind[p] = "lettered" => asOf[p].by # "nothing"
        /\ asOf[p].by = "shadow" => asOf[p].was.used \subseteq plan[p]

\* A block that was read is one the source had: at the instant it was frozen, or,
\* not frozen, no later than now.
Taken(p) ==
    \A b \in TakenOf(p) :
        /\ image[p][b] \in Versions \union {Torn}
        /\ image[p][b] = Torn => asOf[p].by = "shadow" /\ tears[p][b] >= 1
        /\ image[p][b] # Torn =>
              IF asOf[p].by = "nothing" THEN image[p][b] <= content[p][b]
              ELSE image[p][b] = asOf[p].was.content[b]

\* So is the source at the end of the stream.
Ended(p) ==
    Streamed(p) =>
        IF asOf[p].by = "nothing"
        THEN \A b \in plan[p] : image[p][b] <= atEnd[p][b] /\ atEnd[p][b] <= content[p][b]
        ELSE atEnd[p] = asOf[p].was.content

\* A block that was compared is the one the stream ended with.
Compared(p) ==
    \A b \in ComparedOf(p) : tears[p][b] <= 1 => image[p][b] = atEnd[p][b]

\* A partition that is not compared is checked in the file, or still will be.
Intact(p) == \A b \in plan[p] : <<p, b>> \notin rot
Unhashed(p) ==
    /\ stage \in {"verify", "compare"} => (p < cur /\ ~frozen[p] => p \in queue)
    /\ stage = "hash" /\ (verify = "image" \/ ~frozen[p]) => p \in queue \/ Intact(p)
    /\ result = "ok" /\ verify # "none" /\ (verify = "image" \/ ~frozen[p]) => Intact(p)

PartInv(p) ==
    /\ Fresh(p) /\ Held(p) /\ Kept(p) /\ Settled(p)
    /\ Taken(p) /\ Ended(p) /\ Compared(p) /\ Unhashed(p)

BackupInv == Typed /\ Placed /\ Numbered /\ \A p \in Parts : PartInv(p)

-----------------------------------------------------------------------------
(* The rest of the system. *)

\* The invariant holds when the run begins: nothing is frozen, nothing read.
LEMMA InitInv == Init => BackupInv
<1> SUFFICES ASSUME Init PROVE BackupInv
    OBVIOUS
<1> USE BackupAssumption
<1>1. Typed
    <2>1. 0 \in Versions /\ Unread \in {Torn, Unread} /\ 1 \in Parts
        BY DEF Versions, Parts
    <2>2. Blank \in Snapshots
        BY <2>1 DEF Blank, Snapshots
    <2>3. /\ kind \in [Parts -> Kinds] /\ used \in [Parts -> SUBSET Blocks]
          /\ verify \in Verifications
        BY DEF Init
    <2>4. /\ content \in [Parts -> [Blocks -> Versions]]
          /\ atEnd \in [Parts -> [Blocks -> Versions]]
          /\ image \in [Parts -> [Blocks -> Versions \union {Torn, Unread}]]
          /\ tears \in [Parts -> [Blocks -> Nat]]
        BY <2>1 DEF Init
    <2>5. asOf \in [Parts -> [by : {"nothing", "lock", "shadow"}, was : Snapshots]]
        BY <2>2 DEF Init
    <2> QED
        BY <2>1, <2>3, <2>4, <2>5 DEF Init, Typed, Stages, Results
<1>2. Placed /\ Numbered
    BY DEF Init, Placed, Numbered
<1>3. ASSUME NEW p \in Parts PROVE PartInv(p)
    <2>1. TakenOf(p) = {} /\ ComparedOf(p) = {} /\ ~Prepared(p)
        BY DEF Init, TakenOf, ComparedOf, Comparing, Prepared, Streamed, Planning, Alive, Parts
    <2>2. asOf[p].by = "nothing" /\ ~locked[p] /\ shadow[p] = {}
        BY DEF Init
    <2> QED
        BY <2>1, <2>2 DEF PartInv, Fresh, Held, Kept, Settled, Taken, Ended, Compared, Unhashed,
           Streamed, Init
<1> QED BY <1>1, <1>2, <1>3 DEF BackupInv

\* A process that opens files finds no lock there; one that closes them breaks
\* none.
LEMMA OpenCloseInv ==
    ASSUME BackupInv, NEW q \in Parts, Open(q) \/ Close(q)
    PROVE  BackupInv'
<1> USE DEF BackupInv
<1>1. /\ UNCHANGED <<kind, verify, content, used, version, holds, place, outcome, history>>
      /\ busy' \in [Parts -> BOOLEAN]
      /\ \A p \in Parts : locked[p] /\ ~busy[p] => ~busy'[p]
    BY DEF Open, Close, Typed
<1>2. Typed' /\ Placed' /\ Numbered'
    BY <1>1 DEF Typed, Placed, Numbered, holds, place, outcome, history, HasVolume
<1>3. ASSUME NEW p \in Parts PROVE PartInv(p)'
    BY <1>1 DEF PartInv, Fresh, Held, Kept, Settled, Taken, Ended, Compared, Unhashed, TakenOf,
       ComparedOf, Comparing, Streamed, Prepared, Planning, Streaming, Alive, Intact, HasVolume,
       holds, place, outcome, history
<1> QED BY <1>2, <1>3

\* A write goes to a volume nobody locked, leaves every shadow as it was, and
\* makes the block newer.
LEMMA WriteInv ==
    ASSUME BackupInv, NEW q \in Parts, NEW c \in Blocks, Write(q, c)
    PROVE  BackupInv'
<1> USE BackupAssumption DEF BackupInv
<1>1. /\ UNCHANGED <<kind, verify, busy, holds, place, outcome, history>>
      /\ version' = version + 1 /\ version < MaxWrites
      /\ HasVolume(q) => busy[q]
      /\ content' = [content EXCEPT ![q][c] = version + 1]
      /\ used' = [used EXCEPT ![q] = @ \union {c}]
    BY DEF Write
<1>2. /\ version' \in Versions /\ content' \in [Parts -> [Blocks -> Versions]]
      /\ used' \in [Parts -> SUBSET Blocks]
    BY <1>1 DEF Typed, Versions
<1>3. Typed'
    BY <1>1, <1>2 DEF Typed, holds, place, outcome, history
<1>4. ASSUME NEW p \in Parts, NEW b \in Blocks
      PROVE  content[p][b] <= content'[p][b] /\ content'[p][b] <= version'
    BY <1>1 DEF Typed, Numbered, Versions
<1>5. Placed' /\ Numbered'
    BY <1>1, <1>4 DEF Placed, Numbered, holds, place, outcome, history, HasVolume
<1>6. ASSUME NEW p \in Parts PROVE PartInv(p)'
    <2>1. locked[p] => content'[p] = content[p]
        BY <1>1 DEF PartInv, Held, Typed
    <2>2. (Fresh(p) /\ Held(p) /\ Kept(p) /\ Settled(p) /\ Compared(p) /\ Unhashed(p))'
        BY <1>1, <2>1 DEF PartInv, Fresh, Held, Kept, Settled, Compared, Unhashed,
           ComparedOf, Comparing, Streamed, Prepared, Planning, Streaming, Alive, Intact,
           HasVolume, holds, place, outcome, history
    <2>3. TakenOf(p)' = TakenOf(p) /\ Streamed(p)' = Streamed(p) /\ TakenOf(p) \subseteq Blocks
        BY <1>1 DEF TakenOf, Streamed, Prepared, Planning, Streaming, Alive, Typed, place, outcome
    <2>4. Taken(p)'
        <3> SUFFICES ASSUME NEW b \in TakenOf(p)
                     PROVE  /\ image[p][b] \in Versions \union {Torn}
                            /\ image[p][b] = Torn => asOf[p].by = "shadow" /\ tears[p][b] >= 1
                            /\ image[p][b] # Torn =>
                                  IF asOf[p].by = "nothing" THEN image[p][b] <= content'[p][b]
                                  ELSE image[p][b] = asOf[p].was.content[b]
            BY <1>1, <2>3 DEF Taken, outcome, history
        <3>0. b \in Blocks
            BY <2>3
        <3>1. content[p][b] \in Nat /\ content'[p][b] \in Nat
            BY <1>2, <3>0 DEF Typed, Versions
        <3>2. /\ image[p][b] \in Versions \union {Torn}
              /\ image[p][b] = Torn => asOf[p].by = "shadow" /\ tears[p][b] >= 1
              /\ image[p][b] # Torn =>
                    IF asOf[p].by = "nothing" THEN image[p][b] <= content[p][b]
                    ELSE image[p][b] = asOf[p].was.content[b]
            BY DEF PartInv, Taken
        <3>3. image[p][b] # Torn => image[p][b] \in Nat
            BY <3>2 DEF Versions
        <3>4. content[p][b] <= content'[p][b]
            BY <3>0, <1>4
        <3>5. image[p][b] # Torn /\ asOf[p].by = "nothing" => image[p][b] <= content'[p][b]
            <4> SUFFICES ASSUME image[p][b] # Torn, asOf[p].by = "nothing"
                         PROVE  image[p][b] <= content'[p][b]
                OBVIOUS
            <4>1. image[p][b] \in Nat /\ image[p][b] <= content[p][b]
                BY <3>2, <3>3
            <4> HIDE DEF BackupInv
            <4> QED BY <3>1, <3>4, <4>1
        <3> QED BY <3>2, <3>5
    <2>5. Ended(p)'
        <3> SUFFICES ASSUME Streamed(p), asOf[p].by = "nothing", NEW b \in plan[p]
                     PROVE  image[p][b] <= atEnd[p][b] /\ atEnd[p][b] <= content'[p][b]
            BY <1>1, <2>3 DEF PartInv, Ended, outcome, history
        <3>1. b \in Blocks
            BY DEF Typed
        <3>2. content[p][b] \in Nat /\ content'[p][b] \in Nat /\ atEnd[p][b] \in Nat
            BY <3>1, <1>2 DEF Typed, Versions
        <3> QED BY <3>1, <3>2, <1>4 DEF PartInv, Ended
    <2> QED BY <2>2, <2>4, <2>5 DEF PartInv
<1> QED BY <1>3, <1>5, <1>6

\* A request to stop changes nothing that was read.
LEMMA CancelInv == BackupInv /\ (Cancel \/ UNCHANGED vars) => BackupInv'
<1> SUFFICES ASSUME BackupInv, Cancel \/ UNCHANGED vars PROVE BackupInv'
    OBVIOUS
<1> USE DEF BackupInv
<1>1. UNCHANGED <<kind, verify, content, used, busy, version, holds, place, outcome, history>>
    BY DEF Cancel, vars, volumes
<1>2. Typed' /\ Placed' /\ Numbered'
    BY <1>1 DEF Typed, Placed, Numbered, holds, place, outcome, history, HasVolume
<1>3. ASSUME NEW p \in Parts PROVE PartInv(p)'
    BY <1>1 DEF PartInv, Fresh, Held, Kept, Settled, Taken, Ended, Compared, Unhashed, TakenOf,
       ComparedOf, Comparing, Streamed, Prepared, Planning, Streaming, Alive, Intact, HasVolume,
       holds, place, outcome, history
<1> QED BY <1>2, <1>3

-----------------------------------------------------------------------------
(* Leaving run_backup. *)

\* A run that returns gives up what it held; to return "ok" it must have read
\* every partition and compared, or checked in the file, what it was asked to.
LEMMA ReturnInv ==
    ASSUME BackupInv, NEW r \in {"ok", "error", "cancelled"}, Return(r),
           r = "ok" => \A p \in Parts :
               /\ Streamed(p)
               /\ verify = "source" /\ frozen[p] =>
                     \A b \in plan[p] : tears[p][b] <= 1 => image[p][b] = atEnd[p][b]
               /\ verify # "none" /\ (verify = "image" \/ ~frozen[p]) => Intact(p)
    PROVE  BackupInv'
<1> USE DEF BackupInv
<1>1. /\ stage' = "done" /\ result' = r
      /\ locked' = [p \in Parts |-> FALSE] /\ shadow' = [p \in Parts |-> {}]
      /\ UNCHANGED <<kind, verify, content, used, busy, version, cur, todo, queue, plan, frozen,
                     image, tears, rot, asOf, atEnd>>
    BY DEF Return, Release, volumes, outcome, history
<1>2. Typed' /\ Placed' /\ Numbered'
    BY <1>1 DEF Typed, Placed, Numbered, Stages, Results
<1>3. ASSUME NEW p \in Parts PROVE PartInv(p)'
    <2>1. Fresh(p)' /\ Held(p)' /\ Kept(p)'
        BY <1>1 DEF Fresh, Held, Kept, Planning
    <2>2. Streamed(p)' => r = "ok" /\ Streamed(p)
        BY <1>1 DEF Streamed, Prepared, Alive
    <2>3. Prepared(p)' => r = "ok" /\ Prepared(p)
        BY <1>1 DEF Streamed, Prepared, Alive
    <2>4. TakenOf(p)' \subseteq TakenOf(p)
        BY <1>1, <2>2 DEF TakenOf
    <2>5. Settled(p)' /\ Taken(p)' /\ Ended(p)'
        BY <1>1, <2>2, <2>3, <2>4 DEF PartInv, Settled, Taken, Ended
    <2>6. Compared(p)'
        BY <1>1 DEF Compared, ComparedOf, Comparing
    <2>7. Unhashed(p)'
        BY <1>1 DEF Unhashed, Intact
    <2> QED BY <2>1, <2>5, <2>6, <2>7 DEF PartInv
<1> QED BY <1>2, <1>3

\* A failure or a request to stop may end the run at any time.
LEMMA LeaveInv ==
    ASSUME BackupInv, IoError \/ CancelSeen \/ SourceDiffers
    PROVE  BackupInv'
<1>1. \E r \in {"error", "cancelled"} : Return(r)
    BY DEF IoError, CancelSeen, SourceDiffers
<1> QED BY <1>1, ReturnInv

-----------------------------------------------------------------------------
(* Phase 1. *)

\* While the partitions are being prepared nothing has been read, so only what
\* is held and what is settled can go wrong.
LEMMA PlanningSteps ==
    ASSUME BackupInv, Planning, result' = result,
           Planning' \/ (stage' = "stream" /\ cur' = 1),
           NEW p \in Parts, (Fresh(p) /\ Held(p) /\ Kept(p) /\ Settled(p))'
    PROVE  PartInv(p)'
<1>1. result' = "none" /\ stage' \notin {"verify", "compare", "hash", "capture", "finalize", "done"}
    BY DEF BackupInv, Placed, Planning
<1>2. ~Streamed(p)' /\ ~Comparing'
    BY <1>1 DEF Streamed, Prepared, Streaming, Planning, Comparing, Parts
<1>3. TakenOf(p)' = {} /\ ComparedOf(p)' = {}
    BY <1>1, <1>2 DEF TakenOf, ComparedOf
<1> QED BY <1>1, <1>2, <1>3 DEF PartInv, Taken, Ended, Compared, Unhashed

\* Going on after a partition is prepared: the next one, or the first stream.
LEMMA AfterPreparedMoves ==
    ASSUME BackupInv, Planning, AfterPrepared
    PROVE  /\ cur' \in Parts /\ result' = result /\ stage' \in {"plan", "stream"}
           /\ Planning' \/ (stage' = "stream" /\ cur' = 1)
           /\ \A p \in Parts : Prepared(p)' => p <= cur
           /\ \A p \in Parts : Prepared(p)' => p = cur \/ Prepared(p)
           /\ \A p \in Parts : Planning' /\ p >= cur' => p > cur
<1>1. cur \in Parts /\ N \in Nat \ {0} /\ Alive
    BY BackupAssumption DEF BackupInv, Typed, Alive, Planning
<1>2. CASE cur < N
    BY <1>1, <1>2 DEF AfterPrepared, Goto, Planning, Prepared, Parts
<1>3. CASE ~(cur < N)
    BY <1>1, <1>3 DEF AfterPrepared, Goto, Planning, Prepared, Parts
<1> QED BY <1>2, <1>3

\* A plan is made while the partition is still unfrozen.
LEMMA PlanInv ==
    ASSUME BackupInv, PlanPartition
    PROVE  BackupInv'
<1> USE DEF BackupInv
<1>1. /\ stage = "plan" /\ Planning
      /\ UNCHANGED <<kind, verify, content, used, busy, version, locked, shadow, todo, queue, image,
                     tears, rot, asOf, atEnd>>
      /\ frozen' = [frozen EXCEPT ![cur] = kind[cur] = "bitlocked"]
      /\ IF HasVolume(cur) THEN Goto("lock", cur) ELSE AfterPrepared
    BY DEF PlanPartition, volumes, holds, history, Planning
<1>2. PICK blocks \in Plans(cur, used[cur]) : plan' = [plan EXCEPT ![cur] = blocks]
    BY DEF PlanPartition
<1>3. blocks \subseteq Blocks
    BY DEF Plans, Typed
<1>4. cur \in Parts
    BY DEF Typed
<1>5. /\ cur' \in Parts /\ result' = result /\ stage' \in {"plan", "stream", "lock"}
      /\ Planning' \/ (stage' = "stream" /\ cur' = 1)
      /\ stage' = "lock" => cur' = cur /\ HasVolume(cur)
      /\ stage' # "lock" => ~HasVolume(cur)
    BY <1>1, <1>4, AfterPreparedMoves DEF Goto, Planning
<1>6. /\ \A p \in Parts : Prepared(p)' => IF p = cur THEN ~HasVolume(cur) ELSE Prepared(p)
      /\ \A p \in Parts : Planning' /\ p >= cur' => p >= cur
    <2>1. CASE HasVolume(cur)
        BY <1>1, <1>4, <2>1 DEF Goto, Planning, Prepared, Alive, Parts
    <2>2. CASE ~HasVolume(cur)
        BY <1>1, <1>4, <2>2, AfterPreparedMoves DEF Parts, Prepared
    <2> QED BY <2>1, <2>2
<1>7. Typed'
    <2>1. plan' \in [Parts -> SUBSET Blocks] /\ frozen' \in [Parts -> BOOLEAN]
        BY <1>1, <1>2, <1>3 DEF Typed
    <2> QED BY <1>1, <1>5, <2>1 DEF Typed, Stages
<1>8. Placed'
    BY <1>1, <1>5 DEF Placed, HasVolume, Planning
<1>9. Numbered'
    BY <1>1 DEF Numbered
<1>10. ASSUME NEW p \in Parts PROVE PartInv(p)'
    <2>1. Fresh(p)' /\ Held(p)' /\ Kept(p)'
        BY <1>1, <1>5, <1>6 DEF PartInv, Fresh, Held, Kept, HasVolume, Planning
    <2>2. Settled(p)'
        <3>1. CASE p # cur
            BY <1>1, <1>2, <1>6, <3>1 DEF PartInv, Settled, Typed
        <3>2. CASE p = cur
            BY <1>1, <1>4, <1>6, <3>2 DEF PartInv, Settled, Fresh, Planning, HasVolume, Parts
        <3> QED BY <3>1, <3>2
    <2> QED BY <1>1, <1>5, <2>1, <2>2, PlanningSteps DEF Planning
<1> QED BY <1>7, <1>8, <1>9, <1>10

\* A granted lock finds the volume closed and keeps it so: what it is now is what
\* it will be.
LEMMA LockGrantedInv ==
    ASSUME BackupInv, LockGranted
    PROVE  BackupInv'
<1> USE DEF BackupInv
<1> DEFINE was == [content |-> content[cur], used |-> used[cur]]
<1>1. /\ stage = "lock" /\ Planning /\ ~busy[cur] /\ HasVolume(cur)
      /\ UNCHANGED <<kind, verify, content, used, busy, version, shadow, todo, queue, plan, image,
                     tears, rot, atEnd>>
      /\ locked' = [locked EXCEPT ![cur] = TRUE]
      /\ frozen' = [frozen EXCEPT ![cur] = TRUE]
      /\ asOf' = [asOf EXCEPT ![cur] = [by |-> "lock", was |-> was]]
      /\ AfterPrepared
    BY DEF LockGranted, Freeze, volumes, Planning, Placed
<1>2. cur \in Parts /\ was \in Snapshots
    BY DEF Typed, Snapshots
<1> HIDE DEF was
<1>3. Typed'
    <2>1. /\ asOf' \in [Parts -> [by : {"nothing", "lock", "shadow"}, was : Snapshots]]
          /\ locked' \in [Parts -> BOOLEAN] /\ frozen' \in [Parts -> BOOLEAN]
        BY <1>1, <1>2 DEF Typed
    <2> QED BY <1>1, <2>1, AfterPreparedMoves DEF Typed, Stages
<1>4. Placed' /\ Numbered'
    BY <1>1, AfterPreparedMoves DEF Placed, Numbered
<1>5. ASSUME NEW p \in Parts PROVE PartInv(p)'
    <2>1. CASE p = cur
        <3>1. asOf'[p].by = "lock" /\ asOf'[p].was = was /\ locked'[p] /\ shadow'[p] = {}
            BY <1>1, <2>1 DEF Typed, PartInv, Fresh, Parts
        <3>2. was.content = content[cur]
            BY DEF was
        <3>3. Fresh(p)' /\ Held(p)' /\ Kept(p)' /\ Settled(p)'
            BY <1>1, <2>1, <3>1, <3>2, AfterPreparedMoves
            DEF Fresh, Held, Kept, Settled, HasVolume, Typed, Parts
        <3> QED BY <1>1, <3>3, PlanningSteps, AfterPreparedMoves
    <2>2. CASE p # cur
        <3>1. asOf'[p] = asOf[p] /\ locked'[p] = locked[p] /\ shadow'[p] = shadow[p]
            BY <1>1, <2>2 DEF Typed
        <3>2. Planning' /\ p >= cur' => p > cur
            BY <1>1, AfterPreparedMoves
        <3>3. Prepared(p)' => Prepared(p)
            BY <1>1, <2>2, AfterPreparedMoves
        <3>4. Fresh(p)' /\ Held(p)' /\ Kept(p)' /\ Settled(p)'
            BY <1>1, <2>2, <3>1, <3>2, <3>3
            DEF PartInv, Fresh, Held, Kept, Settled, HasVolume, Typed, Parts, Planning
        <3> QED BY <1>1, <3>4, PlanningSteps, AfterPreparedMoves
    <2> QED BY <2>1, <2>2
<1> QED BY <1>3, <1>4, <1>5

\* A refused lock leaves the partition as it was.
LEMMA LockRefusedInv ==
    ASSUME BackupInv, LockRefused
    PROVE  BackupInv'
<1> USE DEF BackupInv
<1>1. /\ stage = "lock" /\ Planning
      /\ UNCHANGED <<kind, verify, content, used, busy, version, locked, shadow, todo, queue, plan,
                     frozen, image, tears, rot, asOf, atEnd>>
      /\ stage' \in {"lock", "snapshot"} /\ cur' = cur /\ result' = result
    BY DEF LockRefused, Goto, volumes, holds, outcome, history, Planning
<1>2. Typed' /\ Placed' /\ Numbered'
    BY <1>1 DEF Typed, Placed, Numbered, Stages, HasVolume
<1>3. ASSUME NEW p \in Parts PROVE PartInv(p)'
    <2>1. (Fresh(p) /\ Held(p) /\ Kept(p) /\ Settled(p))'
        BY <1>1 DEF PartInv, Fresh, Held, Kept, Settled, HasVolume, Prepared, Planning, Alive
    <2> QED BY <1>1, <2>1, PlanningSteps DEF Planning
<1> QED BY <1>2, <1>3

\* A shadow holds the volume as it is now.
LEMMA ShadowMadeInv ==
    ASSUME BackupInv, ShadowMade
    PROVE  BackupInv'
<1> USE DEF BackupInv
<1> DEFINE was == [content |-> content[cur], used |-> used[cur]]
<1>1. /\ stage = "snapshot" /\ Planning
      /\ UNCHANGED <<kind, verify, content, used, busy, version, locked, todo, queue, plan, frozen,
                     image, tears, rot, atEnd>>
      /\ shadow' = [shadow EXCEPT ![cur] = {was}]
      /\ asOf' = [asOf EXCEPT ![cur] = [by |-> "shadow", was |-> was]]
      /\ stage' = "replan" /\ cur' = cur /\ result' = result
    BY DEF ShadowMade, Freeze, Goto, volumes, outcome, Planning
<1>2. cur \in Parts /\ was \in Snapshots
    BY DEF Typed, Snapshots
<1> HIDE DEF was
<1>3. Typed'
    <2>1. /\ asOf' \in [Parts -> [by : {"nothing", "lock", "shadow"}, was : Snapshots]]
          /\ shadow' \in [Parts -> SUBSET Snapshots]
        BY <1>1, <1>2 DEF Typed
    <2> QED BY <1>1, <2>1 DEF Typed, Stages
<1>4. asOf'[cur].by = "shadow" /\ asOf'[cur].was = was /\ shadow'[cur] = {was}
    BY <1>1, <1>2 DEF Typed
<1>5. Placed' /\ Numbered'
    BY <1>1, <1>4 DEF Placed, Numbered, HasVolume
<1>6. ASSUME NEW p \in Parts PROVE PartInv(p)'
    <2>1. CASE p = cur
        <3>1. ~locked[p] /\ ~Prepared(p)'
            BY <1>1, <2>1 DEF PartInv, Fresh, Prepared, Planning, Parts
        <3>2. (Fresh(p) /\ Held(p) /\ Kept(p) /\ Settled(p))'
            BY <1>1, <1>4, <2>1, <3>1 DEF Fresh, Held, Kept, Settled
        <3> QED BY <1>1, <3>2, PlanningSteps DEF Planning
    <2>2. CASE p # cur
        <3>1. asOf'[p] = asOf[p] /\ shadow'[p] = shadow[p]
            BY <1>1, <2>2 DEF Typed
        <3>2. (Fresh(p) /\ Held(p) /\ Kept(p) /\ Settled(p))'
            BY <1>1, <2>2, <3>1
            DEF PartInv, Fresh, Held, Kept, Settled, HasVolume, Prepared, Planning, Alive
        <3> QED BY <1>1, <3>2, PlanningSteps DEF Planning
    <2> QED BY <2>1, <2>2
<1> QED BY <1>3, <1>5, <1>6

\* The plan made on the shadow has every block the shadow has allocated.
LEMMA ReplanInv ==
    ASSUME BackupInv, Replan
    PROVE  BackupInv'
<1> USE DEF BackupInv
<1>1. /\ stage = "replan" /\ Planning /\ HasVolume(cur) /\ asOf[cur].by = "shadow"
      /\ UNCHANGED <<kind, verify, content, used, busy, version, locked, shadow, todo, queue, image,
                     tears, rot, asOf, atEnd>>
      /\ frozen' = [frozen EXCEPT ![cur] = TRUE]
      /\ AfterPrepared
    BY DEF Replan, volumes, holds, history, Planning, Placed
<1>2. PICK s \in shadow[cur] : \E blocks \in SUBSET Blocks :
          blocks \in Plans(cur, s.used) /\ plan' = [plan EXCEPT ![cur] = blocks]
    BY DEF Replan
<1>3. PICK blocks \in SUBSET Blocks :
          blocks \in Plans(cur, s.used) /\ plan' = [plan EXCEPT ![cur] = blocks]
    BY <1>2
<1>4. cur \in Parts
    BY DEF Typed
<1>5. asOf[cur].was.used \subseteq blocks
    <2>1. s = asOf[cur].was /\ s \in Snapshots
        BY <1>4 DEF PartInv, Held, Typed
    <2> QED BY <1>3, <2>1 DEF Plans, Snapshots
<1>6. Typed'
    <2>1. plan' \in [Parts -> SUBSET Blocks] /\ frozen' \in [Parts -> BOOLEAN]
        BY <1>1, <1>3 DEF Typed
    <2> QED BY <1>1, <2>1, AfterPreparedMoves DEF Typed, Stages
<1>7. Placed' /\ Numbered'
    BY <1>1, AfterPreparedMoves DEF Placed, Numbered
<1>8. ASSUME NEW p \in Parts PROVE PartInv(p)'
    <2>1. (Fresh(p) /\ Held(p) /\ Kept(p))'
        <3>1. Planning' /\ p >= cur' => p >= cur /\ p # cur
            BY <1>1, <1>4, AfterPreparedMoves DEF Parts
        <3> QED BY <1>1, <3>1 DEF PartInv, Fresh, Held, Kept, HasVolume, Planning
    <2>2. Settled(p)'
        <3>1. CASE p = cur
            BY <1>1, <1>3, <1>4, <1>5, <3>1 DEF Settled, Typed
        <3>2. CASE p # cur
            BY <1>1, <1>3, <1>4, <3>2, AfterPreparedMoves DEF PartInv, Settled, Typed
        <3> QED BY <3>1, <3>2
    <2> QED BY <1>1, <2>1, <2>2, PlanningSteps, AfterPreparedMoves
<1> QED BY <1>6, <1>7, <1>8

\* Without a shadow a volume with a letter ends the run, any other goes on
\* unfrozen.
LEMMA ShadowRefusedInv ==
    ASSUME BackupInv, ShadowRefused
    PROVE  BackupInv'
<1> USE DEF BackupInv
<1>1. CASE kind[cur] = "lettered"
    BY <1>1, ReturnInv DEF ShadowRefused
<1>2. CASE kind[cur] # "lettered"
    <2>1. /\ stage = "snapshot" /\ Planning
          /\ UNCHANGED <<kind, verify, content, used, busy, version, locked, shadow, todo, queue,
                         plan, frozen, image, tears, rot, asOf, atEnd>>
          /\ AfterPrepared
        BY <1>2 DEF ShadowRefused, volumes, holds, outcome, history, Planning
    <2>2. Typed' /\ Placed' /\ Numbered'
        BY <2>1, AfterPreparedMoves DEF Typed, Placed, Numbered, Stages
    <2>3. ASSUME NEW p \in Parts PROVE PartInv(p)'
        <3>1. (Fresh(p) /\ Held(p) /\ Kept(p))'
            <4>1. cur \in Parts /\ (Planning' /\ p >= cur' => p > cur)
                BY <2>1, AfterPreparedMoves DEF Typed
            <4>2. Planning' /\ p >= cur' => p >= cur /\ p # cur
                BY <4>1 DEF Parts
            <4> QED BY <2>1, <4>2 DEF PartInv, Fresh, Held, Kept, HasVolume, Planning
        <3>2. Settled(p)'
            <4>1. CASE p = cur
                BY <1>2, <2>1, <4>1 DEF PartInv, Settled, Fresh, Parts
            <4>2. CASE p # cur
                BY <2>1, <4>2, AfterPreparedMoves DEF PartInv, Settled
            <4> QED BY <4>1, <4>2
        <3> QED BY <2>1, <3>1, <3>2, PlanningSteps, AfterPreparedMoves
    <2> QED BY <2>2, <2>3
<1> QED BY <1>1, <1>2

-----------------------------------------------------------------------------
(* Phase 2. *)

\* A non-empty set of numbers, blocks or partitions, has a first one.
LEMMA FirstIn ==
    ASSUME NEW T \in SUBSET Nat, T # {}
    PROVE  Min(T) \in T
<1> DEFINE R == OpToRel(<, Nat)
<1>1. IsWellFoundedOn(R, Nat)
    BY NatLessThanWellFounded
<1>2. T \subseteq Nat
    OBVIOUS
<1>3. \E n \in T : \A m \in T : ~(<<m, n>> \in R)
    <2> HIDE DEF R
    <2> QED BY <1>1, <1>2, WFMin
<1>4. PICK n \in T : \A m \in T : ~(<<m, n>> \in R)
    BY <1>3
<1>5. ASSUME NEW m \in T PROVE n <= m
    <2>1. <<m, n>> \in Nat \X Nat /\ ~(<<m, n>> \in R)
        BY <1>2, <1>4
    <2>2. ~(m < n)
        BY <2>1 DEF OpToRel
    <2> QED BY <1>2, <2>2
<1> QED BY <1>4, <1>5 DEF Min

\* What the run reads of a partition: the instant it was frozen at, or the
\* source as it is.
LEMMA SourceIs ==
    ASSUME BackupInv, NEW p \in Parts, stage \notin {"hash", "done"}
    PROVE  /\ Source(p) \in [Blocks -> Versions]
           /\ Source(p) = IF asOf[p].by = "nothing" THEN content[p] ELSE asOf[p].was.content
           /\ shadow[p] # {} <=> asOf[p].by = "shadow"
<1>1. Held(p) /\ Kept(p) /\ asOf[p] \in [by : {"nothing", "lock", "shadow"}, was : Snapshots]
      /\ content[p] \in [Blocks -> Versions]
    BY DEF BackupInv, PartInv, Typed
<1>2. asOf[p].was.content \in [Blocks -> Versions]
    BY <1>1 DEF Snapshots
<1>3. CASE asOf[p].by = "shadow"
    <2>1. shadow[p] # {} /\ shadow[p] = {asOf[p].was}
        BY <1>1, <1>3 DEF Held, Kept
    <2>2. (CHOOSE s \in shadow[p] : TRUE) = asOf[p].was
        BY <2>1
    <2> QED BY <1>2, <1>3, <2>1, <2>2 DEF Source
<1>4. CASE asOf[p].by # "shadow"
    <2>1. shadow[p] = {} /\ Source(p) = content[p]
        BY <1>1, <1>4 DEF Held, Source
    <2> QED BY <1>1, <1>2, <1>4, <2>1 DEF Held, Kept
<1> QED BY <1>3, <1>4

\* A read gives what the source holds or, of a shadow, torn bytes; that is
\* recorded.
LEMMA ReadIs ==
    ASSUME BackupInv, NEW p \in Parts, NEW b \in Blocks, stage \notin {"hash", "done"},
           NEW v \in Versions \union {Torn}, Read(p, b, v)
    PROVE  /\ tears' \in [Parts -> [Blocks -> Nat]]
           /\ \A q \in Parts, c \in Blocks : tears[q][c] <= tears'[q][c]
           /\ v = Torn => asOf[p].by = "shadow" /\ tears'[p][b] = tears[p][b] + 1
           /\ v # Torn => v = Source(p)[b]
<1>0. tears \in [Parts -> [Blocks -> Nat]]
    BY DEF BackupInv, Typed
<1>1. CASE v = Source(p)[b] /\ UNCHANGED tears
    <2>1. v # Torn
        BY <1>1, SourceIs, BackupAssumption DEF Versions, Torn
    <2> QED BY <1>0, <1>1, <2>1
<1>2. CASE v = Torn /\ shadow[p] # {} /\ tears' = [tears EXCEPT ![p][b] = @ + 1]
    <2>1. asOf[p].by = "shadow"
        BY <1>2, SourceIs
    <2> QED BY <1>0, <1>2, <2>1
<1> QED BY <1>1, <1>2 DEF Read

\* A stream begins with nothing read of it and every planned block to be read.
LEMMA BeginStreamInv ==
    ASSUME BackupInv, BeginStream
    PROVE  BackupInv'
<1> USE DEF BackupInv
<1>1. /\ stage = "stream" /\ stage' = "capture" /\ cur' = cur /\ result' = result
      /\ todo' = plan[cur]
      /\ UNCHANGED <<kind, verify, content, used, busy, version, locked, shadow, queue, plan, frozen,
                     image, tears, rot, asOf, atEnd>>
    BY DEF BeginStream, Goto, volumes, holds, outcome, history
<1>2. Typed' /\ Placed' /\ Numbered'
    BY <1>1 DEF Typed, Placed, Numbered, Stages
<1>3. ASSUME NEW p \in Parts PROVE PartInv(p)'
    <2>1. /\ Streamed(p)' = Streamed(p) /\ Prepared(p)' = Prepared(p) /\ ~Planning'
          /\ ~Comparing'
        BY <1>1 DEF Streamed, Prepared, Planning, Streaming, Alive, Comparing, Placed
    <2>2. TakenOf(p)' = TakenOf(p) /\ ComparedOf(p)' = {}
        BY <1>1, <2>1 DEF TakenOf, ComparedOf
    <2> QED BY <1>1, <2>1, <2>2
        DEF PartInv, Fresh, Held, Kept, Settled, Taken, Ended, Compared, Unhashed, Placed, HasVolume
<1> QED BY <1>2, <1>3

\* The block that is captured is one the source holds now: the instant it was
\* frozen at, or torn, which is recorded.
LEMMA CaptureBlockInv ==
    ASSUME BackupInv, CaptureBlock
    PROVE  BackupInv'
<1> USE DEF BackupInv
<1> DEFINE b == Min(todo)
<1>1. /\ stage = "capture" /\ todo # {} /\ ~Planning /\ ~Comparing /\ Streaming
      /\ UNCHANGED <<kind, verify, content, used, busy, version, locked, shadow, stage, cur, queue,
                     result, plan, frozen, asOf, atEnd>>
      /\ todo' = todo \ {b}
      /\ rot' = rot \/ rot' = rot \union {<<cur, b>>}
    BY DEF CaptureBlock, volumes, holds, Planning, Comparing, Streaming, Placed
<1>2. PICK v \in Versions \union {Torn} : Read(cur, b, v) /\ image' = [image EXCEPT ![cur][b] = v]
    BY DEF CaptureBlock
<1>3. cur \in Parts /\ todo \in SUBSET Blocks /\ todo \in SUBSET Nat
    BY BackupAssumption DEF Typed
<1>4. b \in todo /\ b \in Blocks
    BY <1>1, <1>3, FirstIn
<1> HIDE DEF b
<1>5. /\ tears' \in [Parts -> [Blocks -> Nat]]
      /\ \A p \in Parts, c \in Blocks : tears[p][c] <= tears'[p][c]
      /\ v = Torn => asOf[cur].by = "shadow" /\ tears'[cur][b] >= 1
      /\ v # Torn => v = Source(cur)[b]
    <2>1. /\ tears' \in [Parts -> [Blocks -> Nat]]
          /\ \A p \in Parts, c \in Blocks : tears[p][c] <= tears'[p][c]
          /\ v = Torn => asOf[cur].by = "shadow" /\ tears'[cur][b] = tears[cur][b] + 1
          /\ v # Torn => v = Source(cur)[b]
        BY <1>1, <1>2, <1>3, <1>4, ReadIs
    <2>2. tears[cur][b] \in Nat
        BY <1>3, <1>4 DEF Typed
    <2> QED BY <2>1, <2>2
<1>6. Typed'
    <2>1. image' \in [Parts -> [Blocks -> Versions \union {Torn, Unread}]]
        BY <1>2, <1>3, <1>4 DEF Typed
    <2>2. rot' \subseteq Parts \X Blocks
        BY <1>1, <1>3, <1>4 DEF Typed
    <2> QED BY <1>1, <1>5, <2>1, <2>2 DEF Typed
<1>7. Placed' /\ Numbered'
    BY <1>1 DEF Placed, Numbered, HasVolume
<1>8. ASSUME NEW p \in Parts PROVE PartInv(p)'
    <2>1. Streamed(p)' = Streamed(p) /\ Prepared(p)' = Prepared(p) /\ ~Planning' /\ ~Comparing'
        BY <1>1 DEF Streamed, Prepared, Planning, Streaming, Alive, Comparing
    <2>2. (Fresh(p) /\ Held(p) /\ Kept(p) /\ Settled(p) /\ Unhashed(p))'
        BY <1>1, <2>1 DEF PartInv, Fresh, Held, Kept, Settled, HasVolume, Unhashed, Placed
    <2>3. Compared(p)'
        BY <2>1 DEF Compared, ComparedOf
    <2>4. CASE p # cur
        <3>1. TakenOf(p)' = TakenOf(p) /\ TakenOf(p) \subseteq Blocks
            BY <1>1, <2>1, <2>4 DEF TakenOf, Typed
        <3>2. image'[p] = image[p]
            BY <1>2, <2>4 DEF Typed
        <3>3. Taken(p)'
            <4> SUFFICES ASSUME NEW c \in TakenOf(p), image[p][c] = Torn
                         PROVE  tears'[p][c] >= 1
                BY <1>1, <3>1, <3>2 DEF PartInv, Taken
            <4>1. tears[p][c] >= 1 /\ c \in Blocks
                BY <3>1 DEF PartInv, Taken
            <4>2. tears[p][c] \in Nat /\ tears'[p][c] \in Nat
                BY <1>5, <4>1 DEF Typed
            <4> QED BY <1>5, <4>1, <4>2
        <3>4. Ended(p)'
            BY <1>1, <2>1, <3>2 DEF PartInv, Ended
        <3> QED BY <2>2, <2>3, <3>3, <3>4 DEF PartInv
    <2>5. CASE p = cur
        <3>1. ~Streamed(p) /\ TakenOf(p) \subseteq Blocks
            BY <1>1, <2>5, <1>3 DEF Streamed, TakenOf, Typed, Parts
        <3>2. TakenOf(p)' \subseteq TakenOf(p) \union {b}
            BY <1>1, <2>1, <2>5, <3>1 DEF TakenOf
        <3>3. ASSUME NEW c \in TakenOf(p)', c # b
              PROVE  /\ image'[p][c] \in Versions \union {Torn}
                     /\ image'[p][c] = Torn => asOf[p].by = "shadow" /\ tears'[p][c] >= 1
                     /\ image'[p][c] # Torn =>
                           IF asOf[p].by = "nothing" THEN image'[p][c] <= content[p][c]
                           ELSE image'[p][c] = asOf[p].was.content[c]
            <4>1. c \in TakenOf(p) /\ c \in Blocks /\ image'[p][c] = image[p][c]
                BY <1>2, <1>3, <1>4, <2>5, <3>1, <3>2, <3>3 DEF Typed
            <4>2. tears[p][c] \in Nat /\ tears'[p][c] \in Nat /\ tears[p][c] <= tears'[p][c]
                BY <1>5, <4>1 DEF Typed
            <4>3. /\ image[p][c] \in Versions \union {Torn}
                  /\ image[p][c] = Torn => asOf[p].by = "shadow" /\ tears[p][c] >= 1
                  /\ image[p][c] # Torn =>
                        IF asOf[p].by = "nothing" THEN image[p][c] <= content[p][c]
                        ELSE image[p][c] = asOf[p].was.content[c]
                BY <4>1 DEF PartInv, Taken
            <4> QED BY <4>1, <4>2, <4>3
        <3>4. /\ image'[p][b] \in Versions \union {Torn}
              /\ image'[p][b] = Torn => asOf[p].by = "shadow" /\ tears'[p][b] >= 1
              /\ image'[p][b] # Torn =>
                    IF asOf[p].by = "nothing" THEN image'[p][b] <= content[p][b]
                    ELSE image'[p][b] = asOf[p].was.content[b]
            <4>1. image'[p][b] = v
                BY <1>2, <1>3, <1>4, <2>5 DEF Typed
            <4>2. v # Torn => IF asOf[p].by = "nothing" THEN v = content[p][b]
                              ELSE v = asOf[p].was.content[b]
                BY <1>1, <1>5, <2>5, SourceIs
            <4>3. content[p][b] \in Nat
                BY <1>4 DEF Typed, Versions
            <4> QED BY <1>5, <2>5, <4>1, <4>2, <4>3
        <3>5. Taken(p)'
            BY <1>1, <3>2, <3>3, <3>4 DEF Taken
        <3>6. Ended(p)'
            BY <2>1, <3>1 DEF Ended
        <3> QED BY <2>2, <2>3, <3>5, <3>6 DEF PartInv
    <2> QED BY <2>4, <2>5
<1> QED BY <1>6, <1>7, <1>8

\* When a stream ends its partition is read, and the source is what it was when
\* it was frozen, or no older than what was read.
LEMMA EndStreamInv ==
    ASSUME BackupInv, EndStream
    PROVE  BackupInv'
<1> USE DEF BackupInv
<1>1. /\ stage = "capture" /\ todo = {} /\ result = "none" /\ result' = result
      /\ UNCHANGED <<kind, verify, content, used, busy, version, locked, shadow, todo, queue, plan,
                     frozen, image, tears, rot, asOf>>
      /\ atEnd' = [atEnd EXCEPT ![cur] = Source(cur)]
      /\ stage' \in {"stream", "finalize"}
      /\ IF cur < N THEN stage' = "stream" /\ cur' = cur + 1
         ELSE stage' = "finalize" /\ cur' = cur
    BY DEF EndStream, Goto, volumes, holds, outcome, Placed
<1>2. cur \in Parts /\ N \in Nat
    BY BackupAssumption DEF Typed
<1>3. cur' \in Parts
    BY <1>1, <1>2 DEF Parts
<1>4. Typed'
    <2>1. atEnd' \in [Parts -> [Blocks -> Versions]]
        BY <1>1, <1>2, SourceIs DEF Typed
    <2> QED BY <1>1, <1>3, <2>1 DEF Typed, Stages
<1>5. Placed' /\ Numbered'
    BY <1>1 DEF Placed, Numbered
<1>6. ASSUME NEW p \in Parts PROVE PartInv(p)'
    <2>1. ~Planning' /\ ~Comparing' /\ Prepared(p)' /\ Prepared(p)
        BY <1>1 DEF Planning, Comparing, Prepared, Alive
    <2>2. Streamed(p)' => p <= cur
        BY <1>1, <1>2, <2>1 DEF Streamed, Streaming, Parts
    <2>3. p < cur => Streamed(p)
        BY <1>1, <2>1 DEF Streamed, Streaming, Planning
    <2>4. TakenOf(p)' \subseteq TakenOf(p)
        <3>1. CASE p = cur
            BY <1>1, <1>2, <3>1 DEF TakenOf, Streamed, Streaming, Parts
        <3>2. CASE p # cur
            BY <1>1, <1>2, <2>2, <2>3, <3>2 DEF TakenOf, Parts
        <3> QED BY <3>1, <3>2
    <2>5. (Fresh(p) /\ Held(p) /\ Kept(p) /\ Settled(p) /\ Taken(p) /\ Compared(p) /\ Unhashed(p))'
        BY <1>1, <2>1, <2>4
        DEF PartInv, Fresh, Held, Kept, Settled, HasVolume, Taken, Compared, ComparedOf, Unhashed
    <2>6. Ended(p)'
        <3>1. CASE p = cur
            <4>1. TakenOf(p) = plan[p] /\ plan[p] \subseteq Blocks
                BY <1>1, <1>2, <3>1 DEF TakenOf, Streamed, Streaming, Typed, Parts
            <4>2. atEnd'[p] = IF asOf[p].by = "nothing" THEN content[p] ELSE asOf[p].was.content
                BY <1>1, <3>1, SourceIs DEF Typed
            <4>3. ASSUME asOf[p].by = "nothing", NEW b \in plan[p]
                  PROVE  image[p][b] <= content[p][b] /\ content[p][b] <= content[p][b]
                <5>1. content[p][b] \in Nat
                    BY <4>1 DEF Typed, Versions
                <5>2. /\ image[p][b] = Torn => asOf[p].by = "shadow"
                      /\ image[p][b] # Torn => image[p][b] <= content[p][b]
                    BY <4>1, <4>3 DEF PartInv, Taken
                <5> QED BY <4>3, <5>1, <5>2
            <4> QED BY <1>1, <4>2, <4>3 DEF Ended
        <3>2. CASE p # cur
            <4>1. atEnd'[p] = atEnd[p]
                BY <1>1, <3>2 DEF Typed
            <4>2. Streamed(p)' => Streamed(p)
                BY <1>2, <2>2, <2>3, <3>2 DEF Parts
            <4> QED BY <1>1, <4>1, <4>2 DEF PartInv, Ended
        <3> QED BY <3>1, <3>2
    <2> QED BY <2>5, <2>6 DEF PartInv
<1> QED BY <1>4, <1>5, <1>6

-----------------------------------------------------------------------------
(* Phase 3. *)

\* From the end of the last stream on every partition is read.
LEMMA AllStreamed ==
    ASSUME stage \in {"finalize", "verify", "compare", "hash"}, NEW p \in Parts
    PROVE  Streamed(p) /\ Prepared(p) /\ TakenOf(p) = plan[p] /\ ~Planning
BY DEF Streamed, Prepared, Planning, Streaming, Alive, TakenOf

\* Moving on in phase 3 leaves what was read as it is.
LEMMA FinalSteps ==
    ASSUME BackupInv, stage \in {"finalize", "verify", "compare", "hash"},
           stage' \in {"verify", "compare", "hash"}, result' = result,
           UNCHANGED <<kind, verify, content, used, busy, version, plan, frozen, image, tears, rot,
                       asOf, atEnd>>,
           NEW p \in Parts
    PROVE  (Fresh(p) /\ Settled(p) /\ Taken(p) /\ Ended(p))'
<1>1. Streamed(p) /\ Prepared(p) /\ TakenOf(p) = plan[p]
    BY AllStreamed
<1>2. ~Planning' /\ TakenOf(p)' = plan[p]
    BY <1>1 DEF Planning, TakenOf, Streamed, Prepared, Streaming, Alive
<1> QED BY <1>1, <1>2 DEF BackupInv, PartInv, Fresh, Settled, Taken, Ended

\* The file is finished; nothing was compared yet.
LEMMA FinalizeInv ==
    ASSUME BackupInv, Finalize
    PROVE  BackupInv'
<1> USE DEF BackupInv
<1>0. stage = "finalize" /\ result = "none"
    BY DEF Finalize, Placed
<1>1. CASE verify = "none" /\ Return("ok")
    BY <1>0, <1>1, AllStreamed, ReturnInv
<1>2. CASE verify = "image" /\ Release /\ queue' = Parts /\ Goto("hash", 1)
           /\ UNCHANGED <<kind, verify, volumes, todo, outcome, cancelled, history>>
    <2>1. /\ locked' = [p \in Parts |-> FALSE] /\ shadow' = [p \in Parts |-> {}]
          /\ queue' = Parts /\ stage' = "hash" /\ cur' = 1 /\ result' = result
          /\ UNCHANGED <<kind, verify, content, used, busy, version, todo, plan, frozen, image, tears,
                         rot, asOf, atEnd>>
        BY <1>2 DEF Release, Goto, volumes, outcome, history
    <2>2. 1 \in Parts
        BY BackupAssumption DEF Parts
    <2>3. Typed' /\ Placed' /\ Numbered'
        BY <1>0, <1>2, <2>1, <2>2 DEF Typed, Placed, Numbered, Stages
    <2>4. ASSUME NEW p \in Parts PROVE PartInv(p)'
        <3>1. (Held(p) /\ Kept(p) /\ Compared(p) /\ Unhashed(p))'
            BY <1>0, <1>2, <2>1 DEF Held, Kept, Compared, ComparedOf, Unhashed
        <3> QED BY <1>0, <2>1, <3>1, FinalSteps DEF PartInv
    <2> QED BY <2>3, <2>4
<1>3. CASE verify = "source" /\ Goto("verify", 1)
           /\ UNCHANGED <<kind, verify, volumes, holds, todo, queue, outcome, cancelled, history>>
    <2>1. /\ stage' = "verify" /\ cur' = 1 /\ result' = result
          /\ UNCHANGED <<kind, verify, content, used, busy, version, locked, shadow, todo, queue, plan,
                         frozen, image, tears, rot, asOf, atEnd>>
        BY <1>3 DEF Goto, volumes, holds, outcome, history
    <2>2. 1 \in Parts
        BY BackupAssumption DEF Parts
    <2>3. Typed' /\ Placed' /\ Numbered'
        BY <1>0, <1>3, <2>1, <2>2 DEF Typed, Placed, Numbered, Stages
    <2>4. ASSUME NEW p \in Parts PROVE PartInv(p)'
        <3>1. p >= 1 /\ ~(p < 1)
            BY DEF Parts
        <3>2. ComparedOf(p)' = {}
            BY <2>1, <3>1 DEF ComparedOf
        <3>3. (Held(p) /\ Kept(p) /\ Compared(p) /\ Unhashed(p))'
            BY <1>0, <2>1, <3>1, <3>2 DEF PartInv, Held, Kept, HasVolume, Compared, Unhashed
        <3> QED BY <1>0, <2>1, <3>3, FinalSteps DEF PartInv
    <2> QED BY <2>3, <2>4
<1> QED BY <1>1, <1>2, <1>3 DEF Finalize

\* A partition that was compared, or is set aside to be checked in the file, lets
\* the run go on to the next one, to the file, or to its end.
LEMMA AfterVerifiedInv ==
    ASSUME BackupInv, stage \in {"verify", "compare"}, NEW aside \in SUBSET Parts,
           queue \subseteq aside, AfterVerified(aside),
           ~frozen[cur] => cur \in aside,
           frozen[cur] =>
               \A b \in plan[cur] : tears[cur][b] <= 1 => image[cur][b] = atEnd[cur][b]
    PROVE  BackupInv'
<1> USE DEF BackupInv
<1>0. cur \in Parts /\ N \in Nat /\ verify = "source" /\ result = "none"
    BY BackupAssumption DEF Typed, Placed
<1>1. ASSUME NEW p \in Parts, p <= cur
      PROVE  /\ ~frozen[p] => p \in aside
             /\ frozen[p] => \A b \in plan[p] : tears[p][b] <= 1 => image[p][b] = atEnd[p][b]
    <2>1. CASE p = cur
        BY <2>1
    <2>2. CASE p # cur
        <3>1. p < cur /\ ~(p >= cur)
            BY <1>0, <1>1, <2>2 DEF Parts
        <3>2. frozen[p] => ComparedOf(p) = plan[p]
            BY <1>0, <3>1 DEF ComparedOf, Comparing
        <3> QED BY <3>1, <3>2 DEF PartInv, Compared, Unhashed
    <2> QED BY <2>1, <2>2
<1>2. CASE cur = N /\ aside = {} /\ Return("ok")
    <2>1. ASSUME NEW p \in Parts
          PROVE  /\ Streamed(p) /\ frozen[p]
                 /\ \A b \in plan[p] : tears[p][b] <= 1 => image[p][b] = atEnd[p][b]
        BY <1>0, <1>1, <1>2, AllStreamed DEF Parts
    <2> QED BY <1>0, <1>2, <2>1, ReturnInv
<1>3. CASE /\ \/ cur < N /\ Goto("verify", cur + 1)
              \/ cur = N /\ aside # {} /\ Goto("hash", 1)
           /\ UNCHANGED <<kind, verify, volumes, holds, todo, outcome, cancelled, history>>
    <2>1. /\ queue' = aside /\ result' = result
          /\ UNCHANGED <<kind, verify, content, used, busy, version, locked, shadow, todo, plan,
                         frozen, image, tears, rot, asOf, atEnd>>
          /\ \/ cur < N /\ stage' = "verify" /\ cur' = cur + 1
             \/ cur = N /\ aside # {} /\ stage' = "hash" /\ cur' = 1
        BY <1>3 DEF AfterVerified, Goto, volumes, holds, outcome, history
    <2>2. cur' \in Parts
        BY <1>0, <2>1 DEF Parts
    <2>3. Typed' /\ Placed' /\ Numbered'
        BY <1>0, <2>1, <2>2 DEF Typed, Placed, Numbered, Stages
    <2>4. ASSUME NEW p \in Parts PROVE PartInv(p)'
        <3>1. Held(p)' /\ Kept(p)'
            BY <2>1 DEF PartInv, Held, Kept, HasVolume
        <3>2. stage' = "hash" \/ p < cur' => p <= cur
            BY <1>0, <2>1 DEF Parts
        <3>3. Compared(p)'
            <4> SUFFICES ASSUME NEW b \in ComparedOf(p)', tears[p][b] <= 1
                         PROVE  image[p][b] = atEnd[p][b]
                BY <2>1 DEF Compared
            <4>1. frozen[p] /\ b \in plan[p]
                BY <2>1 DEF ComparedOf
            <4>2. stage' = "hash" \/ p < cur'
                BY <1>0, <2>1, <2>2 DEF ComparedOf, Parts
            <4> QED BY <1>1, <3>2, <4>1, <4>2
        <3>4. Unhashed(p)'
            BY <1>0, <1>1, <2>1, <3>2 DEF Unhashed
        <3> QED BY <2>1, <3>1, <3>3, <3>4, FinalSteps DEF PartInv
    <2> QED BY <2>3, <2>4
<1> QED BY <1>2, <1>3 DEF AfterVerified

\* A frozen partition is compared from its first block; another is set aside.
LEMMA VerifyPartitionInv ==
    ASSUME BackupInv, VerifyPartition
    PROVE  BackupInv'
<1> USE DEF BackupInv
<1>0. stage = "verify" /\ result = "none" /\ cur \in Parts
    BY DEF VerifyPartition, Placed, Typed
<1>1. CASE ~frozen[cur]
    BY <1>0, <1>1, AfterVerifiedInv DEF VerifyPartition, Typed
<1>2. CASE frozen[cur]
    <2>1. /\ stage' = "compare" /\ cur' = cur /\ result' = result /\ todo' = plan[cur]
          /\ UNCHANGED <<kind, verify, content, used, busy, version, locked, shadow, queue, plan,
                         frozen, image, tears, rot, asOf, atEnd>>
        BY <1>2 DEF VerifyPartition, Goto, volumes, holds, outcome, history
    <2>2. Typed' /\ Placed' /\ Numbered'
        BY <1>0, <1>2, <2>1 DEF Typed, Placed, Numbered, Stages
    <2>3. ASSUME NEW p \in Parts PROVE PartInv(p)'
        <3>1. Held(p)' /\ Kept(p)' /\ Unhashed(p)'
            BY <1>0, <2>1 DEF PartInv, Held, Kept, HasVolume, Unhashed
        <3>2. ComparedOf(p)' \subseteq ComparedOf(p)
            BY <1>0, <2>1 DEF ComparedOf, Comparing
        <3>3. Compared(p)'
            BY <2>1, <3>2 DEF PartInv, Compared
        <3> QED BY <1>0, <2>1, <3>1, <3>3, FinalSteps DEF PartInv
    <2> QED BY <2>2, <2>3
<1> QED BY <1>1, <1>2

\* A block counts as compared when a re-read agrees with the record.  A shadow or
\* a locked volume gives the frozen block, unless it was torn twice; any other source
\* gives a version no older than the stream's end, which is no older than the
\* record: agreeing, all three are one.
LEMMA CompareBlockInv ==
    ASSUME BackupInv, CompareBlock
    PROVE  BackupInv'
<1> USE DEF BackupInv
<1> DEFINE b == Min(todo)
<1>1. /\ stage = "compare" /\ todo # {}
      /\ UNCHANGED <<kind, verify, content, used, busy, version, locked, shadow, stage, cur, queue,
                     result, plan, frozen, image, rot, asOf, atEnd>>
    BY DEF CompareBlock, volumes, holds, outcome
<1>2. PICK v \in Versions \union {Torn} :
          /\ Read(cur, b, v)
          /\ IF v = image[cur][b] THEN todo' = todo \ {b} ELSE todo' = todo
    BY DEF CompareBlock
<1>3. cur \in Parts /\ todo \in SUBSET Blocks /\ todo \in SUBSET Nat
    BY BackupAssumption DEF Typed
<1>4. b \in todo /\ b \in Blocks
    BY <1>1, <1>3, FirstIn
<1> HIDE DEF b
<1>5. /\ tears' \in [Parts -> [Blocks -> Nat]]
      /\ \A p \in Parts, c \in Blocks : tears[p][c] <= tears'[p][c]
      /\ v = Torn => asOf[cur].by = "shadow" /\ tears'[cur][b] = tears[cur][b] + 1
      /\ v # Torn => v = Source(cur)[b]
    BY <1>1, <1>2, <1>3, <1>4, ReadIs
<1>6. Typed' /\ Placed' /\ Numbered'
    BY <1>1, <1>2, <1>5 DEF Typed, Placed, Numbered, HasVolume
<1>7. ASSUME NEW p \in Parts PROVE PartInv(p)'
    <2>1. /\ Streamed(p) /\ Prepared(p) /\ ~Planning /\ TakenOf(p) = plan[p]
          /\ Streamed(p)' /\ Prepared(p)' /\ ~Planning' /\ TakenOf(p)' = plan[p]
          /\ plan[p] \subseteq Blocks
        BY <1>1, AllStreamed DEF Streamed, Prepared, Planning, Streaming, Alive, TakenOf, Typed
    <2>2. (Fresh(p) /\ Held(p) /\ Kept(p) /\ Settled(p) /\ Ended(p) /\ Unhashed(p))'
        BY <1>1, <2>1 DEF PartInv, Fresh, Held, Kept, Settled, HasVolume, Ended, Unhashed, Intact
    <2>3. ASSUME NEW c \in plan[p]
          PROVE  /\ tears[p][c] \in Nat /\ tears'[p][c] \in Nat /\ tears[p][c] <= tears'[p][c]
                 /\ image[p][c] \in Versions \union {Torn}
                 /\ image[p][c] = Torn => asOf[p].by = "shadow" /\ tears[p][c] >= 1
                 /\ image[p][c] # Torn =>
                       IF asOf[p].by = "nothing" THEN image[p][c] <= content[p][c]
                       ELSE image[p][c] = asOf[p].was.content[c]
        BY <1>5, <2>1 DEF PartInv, Taken, Typed
    <2>4. Taken(p)'
        <3> SUFFICES ASSUME NEW c \in plan[p], image[p][c] = Torn PROVE tears'[p][c] >= 1
            BY <1>1, <2>1, <2>3 DEF Taken
        <3> QED BY <2>3
    <2>5. Compared(p)'
        <3> SUFFICES ASSUME NEW c \in ComparedOf(p)', tears'[p][c] <= 1
                     PROVE  image[p][c] = atEnd[p][c]
            BY <1>1 DEF Compared
        <3>1. c \in plan[p]
            BY <1>1 DEF ComparedOf
        <3>2. CASE c \in ComparedOf(p)
            BY <2>3, <3>1, <3>2 DEF PartInv, Compared
        <3>3. CASE c \notin ComparedOf(p)
            <4>1. p = cur /\ c = b /\ v = image[cur][b]
                BY <1>1, <1>2, <3>3 DEF ComparedOf, Comparing
            <4>2. CASE v = Torn
                <5>1. tears[p][c] >= 1 /\ tears'[p][c] = tears[p][c] + 1 /\ tears[p][c] \in Nat
                    BY <1>5, <2>3, <3>1, <4>1, <4>2
                <5> QED BY <5>1
            <4>3. CASE v # Torn
                <5>1. v = Source(p)[c]
                    BY <1>5, <4>1, <4>3
                <5>2. CASE asOf[p].by = "nothing"
                    <6>1. v = content[p][c]
                        BY <1>1, <5>1, <5>2, SourceIs
                    <6>2. image[p][c] <= atEnd[p][c] /\ atEnd[p][c] <= content[p][c]
                        BY <2>1, <3>1, <5>2 DEF PartInv, Ended
                    <6>3. content[p][c] \in Nat /\ atEnd[p][c] \in Nat
                        BY <2>1, <3>1 DEF Typed, Versions
                    <6> QED BY <4>1, <6>1, <6>2, <6>3
                <5>3. CASE asOf[p].by # "nothing"
                    BY <1>1, <2>1, <4>1, <5>1, <5>3, SourceIs DEF PartInv, Ended
                <5> QED BY <5>2, <5>3
            <4> QED BY <4>2, <4>3
        <3> QED BY <3>2, <3>3
    <2> QED BY <2>2, <2>4, <2>5 DEF PartInv
<1> QED BY <1>6, <1>7

\* With no block left to compare the partition is compared.
LEMMA PartitionComparedInv ==
    ASSUME BackupInv, PartitionCompared
    PROVE  BackupInv'
<1> USE DEF BackupInv
<1>1. /\ stage = "compare" /\ todo = {} /\ frozen[cur] /\ verify = "source" /\ cur \in Parts
      /\ AfterVerified(queue) /\ queue \in SUBSET Parts
    BY DEF PartitionCompared, Placed, Typed
<1>2. ComparedOf(cur) = plan[cur]
    BY <1>1 DEF ComparedOf, Comparing, Typed, Parts
<1>3. \A b \in plan[cur] : tears[cur][b] <= 1 => image[cur][b] = atEnd[cur][b]
    BY <1>1, <1>2 DEF PartInv, Compared
<1> QED BY <1>1, <1>3, AfterVerifiedInv

\* A partition leaves the queue only when every chunk of it hashes to its record.
LEMMA HashPartitionInv ==
    ASSUME BackupInv, HashPartition
    PROVE  BackupInv'
<1> USE DEF BackupInv
<1> DEFINE q == Min(queue)
<1>1. /\ stage = "hash" /\ result = "none" /\ queue # {} /\ verify # "none"
      /\ queue \in SUBSET Parts /\ queue \in SUBSET Nat
    BY DEF HashPartition, Placed, Typed, Parts
<1>2. q \in queue
    BY <1>1, FirstIn
<1>3. \/ Return("error")
      \/ Intact(q) /\ queue = {q} /\ Return("ok")
      \/ /\ Intact(q) /\ queue # {q} /\ queue' = queue \ {q}
         /\ UNCHANGED <<kind, verify, volumes, holds, stage, cur, tries, todo, misses, result,
                        outcome, cancelled, history>>
    BY DEF HashPartition, Intact
<1> HIDE DEF q
<1>4. CASE Return("error")
    BY <1>4, ReturnInv
<1>5. CASE Intact(q) /\ queue = {q} /\ Return("ok")
    <2>1. ASSUME NEW p \in Parts
          PROVE  /\ Streamed(p)
                 /\ verify = "source" /\ frozen[p] => ComparedOf(p) = plan[p]
                 /\ verify = "image" \/ ~frozen[p] => Intact(p)
        BY <1>1, <1>5, AllStreamed DEF ComparedOf, Comparing, PartInv, Unhashed
    <2> QED BY <1>5, <2>1, ReturnInv DEF PartInv, Compared
<1>6. CASE /\ Intact(q) /\ queue # {q} /\ queue' = queue \ {q}
           /\ UNCHANGED <<kind, verify, volumes, holds, stage, cur, tries, todo, misses, result,
                          outcome, cancelled, history>>
    <2>1. UNCHANGED <<kind, verify, content, used, busy, version, locked, shadow, stage, cur, todo,
                      result, plan, frozen, image, tears, rot, asOf, atEnd>>
        BY <1>6 DEF volumes, holds, outcome, history
    <2>2. Typed' /\ Placed' /\ Numbered'
        BY <1>1, <1>2, <1>6, <2>1 DEF Typed, Placed, Numbered, HasVolume
    <2>3. ASSUME NEW p \in Parts PROVE PartInv(p)'
        <3>1. ComparedOf(p)' = ComparedOf(p)
            BY <2>1 DEF ComparedOf, Comparing
        <3>2. (Held(p) /\ Kept(p) /\ Compared(p))'
            BY <2>1, <3>1 DEF PartInv, Held, Kept, HasVolume, Compared
        <3>3. Unhashed(p)'
            BY <1>1, <1>6, <2>1 DEF PartInv, Unhashed, Intact
        <3> QED BY <1>1, <2>1, <3>2, <3>3, FinalSteps DEF PartInv
    <2> QED BY <2>2, <2>3
<1> QED BY <1>3, <1>4, <1>5, <1>6

-----------------------------------------------------------------------------
(* The theorems. *)

\* The inductive invariant of a backup.
THEOREM BackupInvariant == Spec => []BackupInv
<1>1. BackupInv /\ [Next]_vars => BackupInv'
    <2> SUFFICES ASSUME BackupInv, [Next]_vars PROVE BackupInv'
        OBVIOUS
    <2>1. ASSUME NEW p \in Parts, Open(p) \/ Close(p) PROVE BackupInv'
        BY <2>1, OpenCloseInv
    <2>2. ASSUME NEW p \in Parts, NEW b \in Blocks, Write(p, b) PROVE BackupInv'
        BY <2>2, WriteInv
    <2>3. CASE Cancel \/ Done \/ UNCHANGED vars
        BY <2>3, CancelInv DEF Done
    <2>4. CASE IoError \/ CancelSeen \/ SourceDiffers
        BY <2>4, LeaveInv
    <2>5. CASE PlanPartition
        BY <2>5, PlanInv
    <2>6. CASE LockGranted
        BY <2>6, LockGrantedInv
    <2>7. CASE LockRefused
        BY <2>7, LockRefusedInv
    <2>8. CASE ShadowMade
        BY <2>8, ShadowMadeInv
    <2>9. CASE Replan
        BY <2>9, ReplanInv
    <2>10. CASE ShadowRefused
        BY <2>10, ShadowRefusedInv
    <2>11. CASE BeginStream
        BY <2>11, BeginStreamInv
    <2>12. CASE CaptureBlock
        BY <2>12, CaptureBlockInv
    <2>13. CASE EndStream
        BY <2>13, EndStreamInv
    <2>14. CASE Finalize
        BY <2>14, FinalizeInv
    <2>15. CASE VerifyPartition
        BY <2>15, VerifyPartitionInv
    <2>16. CASE CompareBlock
        BY <2>16, CompareBlockInv
    <2>17. CASE PartitionCompared
        BY <2>17, PartitionComparedInv
    <2>18. CASE HashPartition
        BY <2>18, HashPartitionInv
    <2> QED
        BY <2>1, <2>2, <2>3, <2>4, <2>5, <2>6, <2>7, <2>8, <2>9, <2>10, <2>11, <2>12, <2>13, <2>14,
           <2>15, <2>16, <2>17, <2>18 DEF Next, Run, System
<1> QED BY <1>1, InitInv, PTL DEF Spec

\* A final file has every partition read.
LEMMA FinalIsStreamed ==
    ASSUME BackupInv, Final, NEW p \in Parts
    PROVE  Streamed(p) /\ Prepared(p) /\ TakenOf(p) = plan[p] /\ plan[p] \subseteq Blocks
<1>1. stage \in {"verify", "compare", "hash"} \/ (result = "ok" /\ stage = "done")
    BY DEF BackupInv, Placed, Final
<1> QED BY <1>1 DEF Streamed, Prepared, Planning, Streaming, Alive, TakenOf, BackupInv, Typed

\* A volume with a drive letter is never captured smeared: the file's blocks, but
\* for torn ones, are those of the instant it was locked or snapshotted.
THEOREM LetteredTheorem == Spec => []LetteredIsOneInstant
<1>1. BackupInv => LetteredIsOneInstant
    <2> SUFFICES ASSUME BackupInv, Final, NEW p \in Parts, kind[p] = "lettered", NEW b \in plan[p]
                 PROVE  image[p][b] \in {asOf[p].was.content[b], Torn}
        BY DEF LetteredIsOneInstant
    <2>1. Settled(p) /\ Taken(p) /\ Prepared(p) /\ TakenOf(p) = plan[p]
        BY FinalIsStreamed DEF BackupInv, PartInv
    <2> QED BY <2>1 DEF Settled, Taken
<1> QED BY <1>1, BackupInvariant, PTL

\* Every block a shadow had allocated is in the file, also one the live volume had
\* not when it was planned first.
THEOREM ShadowTheorem == Spec => []ShadowIsWhole
<1>1. BackupInv => ShadowIsWhole
    <2> SUFFICES ASSUME BackupInv, Final, NEW p \in Parts, asOf[p].by = "shadow",
                        NEW b \in asOf[p].was.used
                 PROVE  image[p][b] # Unread
        BY DEF ShadowIsWhole
    <2>1. Settled(p) /\ Taken(p) /\ Prepared(p) /\ TakenOf(p) = plan[p]
        BY FinalIsStreamed DEF BackupInv, PartInv
    <2>2. image[p][b] \in Versions \union {Torn}
        BY <2>1 DEF Settled, Taken
    <2> QED BY <2>2, BackupAssumption DEF Versions, Torn, Unread
<1> QED BY <1>1, BackupInvariant, PTL

\* A verification against the source that passes proves one instant for all it
\* read: every block is what the source held when the stream ended, unless it was
\* torn more than once.
THEOREM VerifiedTheorem == Spec => []VerifiedIsOneInstant
<1>1. BackupInv => VerifiedIsOneInstant
    <2> SUFFICES ASSUME BackupInv, result = "ok", verify = "source", NEW p \in Parts, frozen[p],
                        NEW b \in plan[p], tears[p][b] <= 1
                 PROVE  image[p][b] = atEnd[p][b]
        BY DEF VerifiedIsOneInstant
    <2>1. stage = "done" /\ Streamed(p)
        BY FinalIsStreamed DEF BackupInv, Placed, Final
    <2>2. ComparedOf(p) = plan[p]
        BY <2>1 DEF ComparedOf, Comparing
    <2> QED BY <2>2 DEF BackupInv, PartInv, Compared
<1> QED BY <1>1, BackupInvariant, PTL

\* No partition escapes the verification asked for.
THEOREM UncomparedTheorem == Spec => []UncomparedIsIntact
<1>1. BackupInv => UncomparedIsIntact
    BY DEF BackupInv, PartInv, Unhashed, Intact, UncomparedIsIntact
<1> QED BY <1>1, BackupInvariant, PTL
=============================================================================
