------------------------ MODULE RestoreStreamProofs ------------------------
(* What a restore has put on the target, proved of module RestoreStream for every
   volume, extent list, relocation map, chunk size, number of workers and channel
   capacity, whatever is damaged, cancelled or panics, provided that a source read
   returns all it was asked for: with short reads both properties fail (run
   restore_placement).

   The argument has three parts.  Capture (CaptureInv): chunk by chunk the stride
   placement of a restore is the place the chunk was read from, because only the
   last chunk of an extent is short; and when the image is closed every used block
   is in some chunk.  Pipeline (PipeInv): every message is what reading and
   decoding its chunk gives, so a chunk that reaches the closure is sound, and as
   long as nobody gave up or died no chunk is lost between the channels.  Target
   (TargetIsPrefix itself): the relocation map is injective, so what a chunk writes
   belongs where it lands, also over what an earlier one wrote. *)
EXTENDS RestoreStream, SequenceTheorems, FiniteSetTheorems, TLAPS

Chunks == 1 .. Total
End(e) == extents[e].start + extents[e].count

\* The types of what capture leaves and what the restore goes by.
Typed ==
    /\ phase \in {"capture", "restore", "refused", "returned"}
    /\ extents \in ExtentLists
    /\ at \in Nat \X Nat
    /\ image \in Seq([extent : Nat, chunk : Nat, len : Nat])
    /\ origin \in Seq(Nat) /\ Len(origin) = Total
    /\ verify \in BOOLEAN /\ move \in Moves /\ cancelled \in BOOLEAN
    /\ phase \in {"restore", "returned"} => quality \in [Chunks -> Qualities]
    /\ rpc \in {"read", "exited"} /\ rseq \in 1 .. Total + 1
    /\ jobs \in Seq([kind : Kinds, seq : Nat]) /\ done \in Seq([kind : Kinds, seq : Nat])
    /\ wpc \in [Workers -> {"recv", "decode", "send", "exited", "dead"}]
    /\ wjob \in [Workers -> [kind : Kinds, seq : Nat]]
    /\ next \in 1 .. Total + 1
    /\ pending \subseteq Chunks
    /\ receiving \in BOOLEAN
    /\ result \in {"none", "ok", "ended", "disk", "cancelled", "panic"} \cup Failures
    /\ target \in [TargetBlocks -> Int]

-----------------------------------------------------------------------------
(* Capture. *)

\* Chunk k lies in an extent capture has come to, where its stride places it.
ChunkInv(k) ==
    /\ image[k].extent < Len(extents) /\ image[k].extent <= at[1]
    /\ image[k].len >= 1
    /\ origin[k] = StrideStart(k)
    /\ origin[k] + image[k].len <= End(image[k].extent + 1)

\* Only the last chunk of an extent is short, so the next one begins a whole number
\* of chunks into its extent.
AtInv ==
    /\ at[1] <= Len(extents)
    /\ at[1] < Len(extents) =>
          /\ at[2] <= Extent.count
          /\ at[2] < Extent.count => ChunkNo * ChunkSize = at[2]
    /\ phase \in {"restore", "returned"} => at[1] = Len(extents)

\* What lies behind the place of capture is in some chunk.
Behind(e) == IF e <= at[1] THEN End(e) ELSE extents[e].start + at[2]
CoveredInv ==
    \A e \in DOMAIN extents : e <= at[1] + 1 =>
        \A p \in extents[e].start .. Behind(e) - 1 : \E k \in Chunks : p \in Captured(k)

CaptureInv == AtInv /\ CoveredInv /\ \A k \in Chunks : ChunkInv(k)

-----------------------------------------------------------------------------
(* The pipeline. *)

In(queue) == {queue[i] : i \in DOMAIN queue}
Holding(w) == wpc[w] \in {"decode", "send"}
Dead == \E w \in Workers : wpc[w] = "dead"

\* What reading chunk i back and decoding it gives; a chunk that is written is
\* "data".
Got(i) == Answer(Fetch(i))
Sound(i) == Got(i).kind = "data"

\* The restore has not begun, or runs without threads.
Idle ==
    phase \in {"capture", "refused"} \/ (phase = "restore" /\ ~Parallel) =>
        /\ rpc = "read" /\ rseq = 1 /\ jobs = <<>> /\ done = <<>> /\ pending = {}
        /\ \A w \in Workers : wpc[w] = "recv"
        /\ receiving /\ result = "none"
Unbegun == phase \in {"capture", "refused"} => next = 1 /\ target = [b \in TargetBlocks |-> Old]

\* Every message is that of its chunk.
Messages ==
    /\ \A m \in In(jobs) : m.seq \in 1 .. rseq - 1 /\ m = Fetch(m.seq)
    /\ \A m \in In(done) : m.seq \in 1 .. rseq - 1 /\ m = Got(m.seq)
    /\ \A w \in Workers : Holding(w) =>
          /\ wjob[w].seq \in 1 .. rseq - 1
          /\ wpc[w] = "decode" => wjob[w] = Fetch(wjob[w].seq)
          /\ wpc[w] = "send" => wjob[w] = Got(wjob[w].seq)
    /\ \A i \in pending \cup (1 .. next - 1) : Sound(i)

\* While the consumer listens and no worker died, every chunk the reader sent is
\* somewhere.
Somewhere(i) ==
    \/ i < next \/ i \in pending
    \/ \E m \in In(jobs) \cup In(done) : m.seq = i
    \/ \E w \in Workers : Holding(w) /\ wjob[w].seq = i
Conserved == receiving /\ ~Dead => \A i \in 1 .. rseq - 1 : Somewhere(i)

\* The reader stops for an error or after the last chunk, a worker only after the
\* reader, with nothing left to take.
Orderly ==
    /\ Running /\ rpc = "read" => rseq <= Total
    /\ receiving /\ rpc = "exited" => rseq = Total + 1 \/ (rseq > 1 /\ Fetch(rseq - 1).kind = "io")
    /\ receiving => \A w \in Workers : wpc[w] = "exited" => rpc = "exited" /\ jobs = <<>>

\* The result is settled when the consumer stops listening.
Settled ==
    /\ receiving /\ phase # "returned" => result = "none"
    /\ result = "ok" => next = Total + 1
    /\ result = "ended" => phase = "restore" /\ Dead
    /\ result \in Failures => \E i \in Chunks : quality[i] = Damage[result]
    /\ phase = "restore" => result # "panic"

PipeInv == Idle /\ Unbegun /\ Messages /\ Conserved /\ Orderly /\ Settled

StreamInv == Typed /\ CaptureInv /\ PipeInv /\ TargetIsPrefix

-----------------------------------------------------------------------------
(* Capture. *)

\* What the assumption says of an extent list.
LEMMA ExtentType ==
    ASSUME Typed, NEW e \in DOMAIN extents
    PROVE  /\ extents \in Seq([start : Nat, count : Nat]) /\ Len(extents) \in Nat
           /\ extents[e].start \in Nat /\ extents[e].count \in Nat /\ e \in 1 .. Len(extents)
           /\ End(e) \in Nat /\ End(e) <= VolumeLen
<1>1. extents \in Seq([start : Nat, count : Nat])
    BY RestoreAssumption DEF Typed
<1>2. e \in 1 .. Len(extents) /\ Len(extents) \in Nat
    BY <1>1, LenProperties
<1>4. extents[e] \in [start : Nat, count : Nat]
    BY <1>1, <1>2, ElementOfSeq
<1>3. extents[e].start + extents[e].count <= VolumeLen
    BY RestoreAssumption DEF Typed
<1> QED BY <1>1, <1>2, <1>3, <1>4 DEF End

\* What the types say of the chunk table and of the place of capture.
LEMMA ImageType ==
    ASSUME Typed
    PROVE  /\ Total \in Nat /\ Chunks = 1 .. Total
           /\ DOMAIN image = Chunks /\ DOMAIN origin = Chunks
           /\ Len(extents) \in Nat /\ DOMAIN extents = 1 .. Len(extents)
           /\ at[1] \in Nat /\ at[2] \in Nat
           /\ \A k \in Chunks : /\ image[k].extent \in Nat /\ image[k].chunk \in Nat
                                /\ image[k].len \in Nat /\ origin[k] \in Nat
<1>1. /\ extents \in Seq([start : Nat, count : Nat]) /\ origin \in Seq(Nat)
      /\ image \in Seq([extent : Nat, chunk : Nat, len : Nat]) /\ Len(origin) = Len(image)
    BY RestoreAssumption DEF Typed, Total
<1>2. /\ Total \in Nat /\ Chunks = 1 .. Total
      /\ DOMAIN image = Chunks /\ DOMAIN origin = Chunks
      /\ Len(extents) \in Nat /\ DOMAIN extents = 1 .. Len(extents)
    BY <1>1, LenProperties DEF Total, Chunks
<1>3. ASSUME NEW k \in Chunks
      PROVE  image[k] \in [extent : Nat, chunk : Nat, len : Nat] /\ origin[k] \in Nat
    BY <1>1, <1>2, ElementOfSeq DEF Total
<1>4. at[1] \in Nat /\ at[2] \in Nat
    BY DEF Typed
<1> QED BY <1>2, <1>3, <1>4

\* Until a chunk is written the target is what it was.
LEMMA NothingWritten ==
    next = 1 /\ result = "none" /\ target = [b \in TargetBlocks |-> Old] => TargetIsPrefix
BY DEF TargetIsPrefix

\* While capture runs the restore has not begun, whatever is captured.
LEMMA CaptureFrame ==
    ASSUME StreamInv, phase = "capture", phase' \in {"capture", "refused"},
           UNCHANGED <<verify, move, cancelled, rpc, rseq, jobs, done, wpc, wjob, pending, next,
                       receiving, result, target>>
    PROVE  (PipeInv /\ TargetIsPrefix)'
<1> USE DEF StreamInv, PipeInv
<1>1. /\ rpc' = "read" /\ rseq' = 1 /\ jobs' = <<>> /\ done' = <<>> /\ pending' = {}
      /\ \A w \in Workers : wpc'[w] = "recv"
      /\ receiving' /\ result' = "none"
      /\ next' = 1 /\ target' = [b \in TargetBlocks |-> Old]
    BY DEF Idle, Unbegun
<1>2. Idle' /\ Unbegun' /\ Settled'
    BY <1>1 DEF Idle, Unbegun, Settled, Failures
<1>3. In(jobs)' = {} /\ In(done)' = {}
    BY <1>1 DEF In
<1>4. Messages' /\ Conserved' /\ Orderly'
    BY <1>1, <1>3 DEF Messages, Conserved, Orderly, Holding, Running
<1>5. TargetIsPrefix'
    BY <1>1, NothingWritten DEF TargetIsPrefix
<1> QED BY <1>2, <1>4, <1>5

\* With full reads the invariant holds of a chunk just captured, and of those
\* before it.
LEMMA CaptureChunkInv ==
    ASSUME StreamInv, ShortReads = FALSE, CaptureChunk
    PROVE  StreamInv'
<1> USE DEF StreamInv
<1>30. at[1] \in Nat /\ at[2] \in Nat /\ Total \in Nat
    BY ImageType
<1>31. PICK e \in Nat : e = at[1] + 1
    BY <1>30
<1>32. PICK n \in Nat : n = Total
    BY <1>30
<1>33. PICK got : got = Smaller(ChunkSize, Extent.count - at[2])
    OBVIOUS
<1>34. PICK new : new = [extent |-> at[1], chunk |-> ChunkNo, len |-> got]
    OBVIOUS
<1>1. /\ phase = "capture" /\ at[1] < Len(extents) /\ at[2] < Extent.count
      /\ image' = Append(image, new)
      /\ origin' = Append(origin, Extent.start + at[2])
      /\ at' = <<at[1], at[2] + got>>
      /\ UNCHANGED <<phase, extents, quality, verify, move, cancelled, rpc, rseq, jobs, done, wpc,
                     wjob, pending, next, receiving, result, target>>
    BY <1>33, <1>34
    DEF CaptureChunk, ReadLengths, restoreVars, settingVars, readerVars, workerVars, consumerVars
<1>2. /\ extents \in ExtentLists /\ extents \in Seq([start : Nat, count : Nat])
      /\ at \in Nat \X Nat /\ image \in Seq([extent : Nat, chunk : Nat, len : Nat])
      /\ origin \in Seq(Nat) /\ Len(origin) = n
    BY <1>32, RestoreAssumption DEF Typed
<1>20. /\ DOMAIN image = 1 .. n /\ n = Len(image)
       /\ \A k \in 1 .. n : /\ image[k].extent \in Nat /\ image[k].chunk \in Nat
                            /\ image[k].len \in Nat /\ origin[k] \in Nat
    BY <1>32, ImageType DEF Total
<1>3. /\ n \in Nat /\ e \in 1 .. Len(extents) /\ e \in DOMAIN extents /\ e = at[1] + 1
      /\ Extent = extents[e] /\ Extent.start \in Nat /\ Extent.count \in Nat
      /\ at[1] \in Nat /\ at[2] \in Nat
    BY <1>1, <1>31, ImageType, ExtentType DEF Extent
<1>4. got \in Nat /\ got >= 1 /\ at[2] + got <= Extent.count
      /\ (at[2] + got < Extent.count => got = ChunkSize)
    BY <1>1, <1>3, <1>33, RestoreAssumption DEF Smaller
<1>5. ChunkNo \in Nat /\ ChunkNo' = ChunkNo + 1
    <2> DEFINE S == {k \in DOMAIN image : image[k].extent = at[1]}
               T == {k \in DOMAIN image' : image'[k].extent = at'[1]}
    <2>1. IsFiniteSet(S) /\ n + 1 \notin S
        <3>1. S \in SUBSET (1 .. n)
            BY <1>20
        <3>2. IsFiniteSet(1 .. n)
            BY <1>3, FS_Interval
        <3> QED BY <1>3, <3>1, <3>2, FS_Subset
    <2>2. T = S \cup {n + 1}
        <3>1. DOMAIN image' = 1 .. n + 1 /\ at'[1] = at[1]
            BY <1>1, <1>2, <1>3, <1>20, <1>34
        <3>2. \A k \in 1 .. n : image'[k] = image[k]
            BY <1>1, <1>2, <1>3, <1>20, <1>34
        <3>3. image'[n + 1].extent = at[1]
            BY <1>1, <1>2, <1>3, <1>20, <1>34
        <3> QED BY <1>3, <1>20, <3>1, <3>2, <3>3
    <2>3. Cardinality(S) \in Nat /\ Cardinality(S \cup {n + 1}) = Cardinality(S) + 1
        BY <2>1, FS_CardinalityType, FS_AddElement
    <2> QED BY <2>2, <2>3 DEF ChunkNo
<1>6. new \in [extent : Nat, chunk : Nat, len : Nat]
    BY <1>3, <1>4, <1>5, <1>34
<1>7. ChunkNo * ChunkSize = at[2]
    BY <1>1 DEF CaptureInv, AtInv
<1>8. /\ Total' = n + 1 /\ Chunks' = Chunks \cup {n + 1}
      /\ image' \in Seq([extent : Nat, chunk : Nat, len : Nat])
      /\ origin' \in Seq(Nat) /\ Len(origin') = Total'
      /\ \A k \in Chunks : image'[k] = image[k] /\ origin'[k] = origin[k]
      /\ image'[n + 1] = new /\ origin'[n + 1] = Extent.start + at[2]
      /\ Chunks = 1 .. n
    <2>1. Len(image') = n + 1 /\ Len(origin') = n + 1 /\ Len(image) = n
        BY <1>1, <1>2, <1>3, <1>20
    <2>2. Total' = n + 1 /\ Chunks' = 1 .. n + 1 /\ Chunks = 1 .. n
        BY <2>1 DEF Chunks, Total
    <2>5. Extent.start + at[2] \in Nat
        BY <1>3
    <2>6. image' \in Seq([extent : Nat, chunk : Nat, len : Nat])
        BY <1>1, <1>2, <1>6, AppendProperties
    <2>3. /\ image' \in Seq([extent : Nat, chunk : Nat, len : Nat])
          /\ origin' \in Seq(Nat)
        BY <1>1, <1>2, <2>5, <2>6, AppendProperties
    <2>4. /\ \A k \in 1 .. n : image'[k] = image[k] /\ origin'[k] = origin[k]
          /\ image'[n + 1] = new /\ origin'[n + 1] = Extent.start + at[2]
        BY <1>1, <1>2, <1>3, <1>20
    <2>7. 1 .. n + 1 = (1 .. n) \cup {n + 1}
        BY <1>3
    <2> QED BY <2>1, <2>2, <2>3, <2>4, <2>7
<1>9. Typed'
    <2>1. at' \in Nat \X Nat
        BY <1>1, <1>3, <1>4
    <2>2. pending' \subseteq Chunks' /\ rseq' \in 1 .. Total' + 1 /\ next' \in 1 .. Total' + 1
        BY <1>1, <1>3, <1>8, <1>32 DEF Typed
    <2> QED BY <1>1, <1>8, <2>1, <2>2 DEF Typed
<1>10. AtInv'
    <2>1. at'[1] = at[1] /\ at'[2] = at[2] + got /\ Extent' = Extent
        BY <1>1, <1>3 DEF Extent
    <2>2. (ChunkNo + 1) * ChunkSize = at[2] + ChunkSize
        BY <1>5, <1>7, RestoreAssumption
    <2> QED BY <1>1, <1>3, <1>4, <1>5, <2>1, <2>2 DEF AtInv
<1>11. ASSUME NEW k \in Chunks' PROVE ChunkInv(k)'
    <2>1. CASE k \in Chunks
        <3>1. ChunkInv(k) /\ image'[k] = image[k] /\ origin'[k] = origin[k] /\ at'[1] = at[1]
            BY <1>1, <1>8, <2>1 DEF CaptureInv
        <3> QED BY <1>1, <3>1 DEF ChunkInv, StrideStart, End
    <2>2. CASE k = n + 1
        <3>4. new.extent = at[1] /\ new.chunk = ChunkNo /\ new.len = got
            BY <1>34
        <3>1. /\ image'[k].extent = at[1] /\ image'[k].chunk = ChunkNo /\ image'[k].len = got
              /\ origin'[k] = extents[e].start + at[2] /\ at'[1] = at[1]
            BY <1>1, <1>3, <1>8, <2>2, <3>4
        <3>2. StrideStart(k)' = extents[e].start + ChunkNo * ChunkSize
            BY <1>1, <1>3, <3>1 DEF StrideStart
        <3>5. End(e)' = extents[e].start + extents[e].count
            BY <1>1 DEF End
        <3>6. /\ extents[e].start \in Nat /\ extents[e].count \in Nat
              /\ at[2] + got <= extents[e].count
            BY <1>3, <1>4
        <3>3. origin'[k] + image'[k].len <= End(e)'
            BY <1>3, <1>4, <3>1, <3>5, <3>6
        <3>7. image'[k].extent + 1 = e /\ image'[k].extent < Len(extents)
              /\ image'[k].extent <= at'[1]
            BY <1>1, <1>3, <3>1
        <3>8. origin'[k] = StrideStart(k)'
            BY <1>7, <3>1, <3>2
        <3> QED BY <1>1, <1>4, <3>1, <3>3, <3>7, <3>8 DEF ChunkInv
    <2> QED BY <1>8, <2>1, <2>2
<1>12. CoveredInv'
    <2> SUFFICES ASSUME NEW f \in DOMAIN extents, f <= at[1] + 1,
                        NEW p \in extents[f].start .. Behind(f)' - 1
                 PROVE  \E k \in Chunks' : p \in Captured(k)'
        BY <1>1 DEF CoveredInv
    <2>1. ASSUME NEW k \in Chunks PROVE Captured(k)' = Captured(k)
        <3>1. image'[k] = image[k] /\ origin'[k] = origin[k]
            BY <1>8
        <3> QED BY <3>1 DEF Captured
    <2>2. f \in Nat /\ extents[f].start \in Nat /\ End(f) \in Nat
        BY ExtentType
    <2>3. CASE p \in extents[f].start .. Behind(f) - 1
        <3>1. PICK k \in Chunks : p \in Captured(k)
            BY <2>3 DEF CaptureInv, CoveredInv
        <3> QED BY <1>8, <2>1, <3>1
    <2>4. CASE p \notin extents[f].start .. Behind(f) - 1
        <3>1. f = e
            BY <1>1, <1>3, <2>2, <2>4 DEF Behind, End
        <3>7. Behind(f) = extents[e].start + at[2] /\ Behind(f)' = extents[e].start + at[2] + got
            BY <1>1, <1>3, <1>4, <3>1 DEF Behind
        <3>2. p \in extents[e].start + at[2] .. extents[e].start + at[2] + got - 1
            BY <1>3, <1>4, <2>2, <2>4, <3>1, <3>7
        <3>8. new.len = got
            BY <1>34
        <3>3. Captured(n + 1)' = {extents[e].start + at[2] + j : j \in 0 .. got - 1}
            BY <1>3, <1>8, <3>8 DEF Captured
        <3>4. PICK s \in Nat : s = extents[e].start + at[2]
            BY <1>3
        <3>5. p - s \in 0 .. got - 1 /\ p = s + (p - s)
            BY <1>4, <3>2, <3>4
        <3>6. p \in Captured(n + 1)'
            BY <3>3, <3>4, <3>5
        <3> QED BY <1>8, <3>6
    <2> QED BY <2>3, <2>4
<1> QED BY <1>1, <1>9, <1>10, <1>11, <1>12, CaptureFrame DEF CaptureInv

\* An extent that is done is covered to its end; a refused image is never
\* restored.
LEMMA CaptureOtherInv ==
    ASSUME StreamInv, CaptureRefuse \/ CaptureExtentDone
    PROVE  StreamInv'
<1> USE DEF StreamInv
<1>1. /\ phase = "capture" /\ at[1] < Len(extents) /\ phase' \in {"capture", "refused"}
      /\ UNCHANGED <<extents, image, origin, quality, verify, move, cancelled, rpc, rseq, jobs, done,
                     wpc, wjob, pending, next, receiving, result, target>>
      /\ at' = at \/ (at[2] = Extent.count /\ at' = <<at[1] + 1, 0>>)
    BY DEF CaptureRefuse, CaptureExtentDone, captureVars, restoreVars, settingVars, readerVars,
           workerVars, consumerVars
<1>2. /\ at \in Nat \X Nat /\ image \in Seq([extent : Nat, chunk : Nat, len : Nat])
      /\ extents \in Seq([start : Nat, count : Nat])
    BY RestoreAssumption DEF Typed
<1>3. /\ at[1] \in Nat /\ at[2] \in Nat /\ Len(extents) \in Nat /\ Total \in Nat
      /\ DOMAIN image = Chunks /\ Total' = Total /\ Chunks' = Chunks
    BY <1>1, ImageType DEF Total, Chunks
<1>4. at' \in Nat \X Nat
    BY <1>1, <1>2, <1>3
<1>5. Typed'
    BY <1>1, <1>3, <1>4 DEF Typed
<1>6. CASE at' = at
    <2>1. AtInv' /\ CoveredInv' /\ \A k \in Chunks' : ChunkInv(k)'
        BY <1>1, <1>3, <1>6 DEF CaptureInv, AtInv, CoveredInv, ChunkInv, Extent, ChunkNo, Behind,
           End, Captured, StrideStart
    <2> QED BY <1>1, <1>5, <2>1, CaptureFrame DEF CaptureInv
<1>7. CASE at[2] = Extent.count /\ at' = <<at[1] + 1, 0>>
    <2>1. at'[1] = at[1] + 1 /\ at'[2] = 0
        BY <1>7
    <2>2. \A k \in Chunks : image[k].extent \in Nat
        BY ImageType
    <2>3. \A k \in Chunks' : ChunkInv(k)' /\ image'[k].extent < at'[1]
        <3>1. \A k \in Chunks : ChunkInv(k)
            BY DEF CaptureInv
        <3>2. ASSUME NEW k \in Chunks PROVE image[k].extent <= at[1] + 1 /\ image[k].extent < at[1] + 1
            BY <1>3, <2>2, <3>1 DEF ChunkInv
        <3> QED BY <1>1, <1>3, <2>1, <3>1, <3>2 DEF ChunkInv, StrideStart, End
    <2>4. ChunkNo' = 0
        <3>1. {k \in DOMAIN image' : image'[k].extent = at'[1]} = {}
            BY <1>1, <1>3, <2>1, <2>2, <2>3
        <3> QED BY <3>1, FS_EmptySet DEF ChunkNo
    <2>5. AtInv'
        <3>1. at'[1] < Len(extents) => Extent'.count \in Nat
            <4> SUFFICES ASSUME at[1] + 1 < Len(extents) PROVE extents[at[1] + 2].count \in Nat
                BY <1>1, <1>3, <2>1 DEF Extent
            <4>1. at[1] + 2 \in DOMAIN extents
                BY <1>3, ImageType
            <4> QED BY <4>1, ExtentType
        <3> QED BY <1>1, <1>3, <2>1, <2>4, <3>1, RestoreAssumption DEF AtInv
    <2>6. CoveredInv'
        <3> SUFFICES ASSUME NEW f \in DOMAIN extents, f <= at[1] + 2,
                            NEW p \in extents[f].start .. Behind(f)' - 1
                     PROVE  \E k \in Chunks : p \in Captured(k)
            BY <1>1, <1>3, <2>1 DEF CoveredInv, Captured
        <3>1. f \in Nat /\ extents[f].start \in Nat /\ End(f) \in Nat
            BY ExtentType
        <3>2. f <= at[1] + 1 /\ Behind(f)' = End(f)
            BY <1>1, <1>3, <2>1, <3>1 DEF Behind, End
        <3>3. Behind(f) = End(f)
            BY <1>3, <1>7, <3>1, <3>2 DEF Behind, End, Extent
        <3> QED BY <3>2, <3>3 DEF CaptureInv, CoveredInv
    <2> QED BY <1>1, <1>5, <2>3, <2>5, <2>6, CaptureFrame DEF CaptureInv
<1> QED BY <1>1, <1>6, <1>7

-----------------------------------------------------------------------------
(* What the definitions give. *)

\* What reading and decoding a chunk gives names the chunk, and an error names
\* its damage.
LEMMA GotKinds ==
    ASSUME Typed, phase \in {"restore", "returned"}, NEW i \in Chunks
    PROVE  /\ Fetch(i) \in [kind : Kinds, seq : Nat] /\ Got(i) \in [kind : Kinds, seq : Nat]
           /\ Fetch(i).seq = i /\ Got(i).seq = i /\ Got(i) = Answer(Fetch(i))
           /\ Got(i).kind \in Failures \cup {"data"}
           /\ Got(i).kind \in Failures => quality[i] = Damage[Got(i).kind]
           /\ Fetch(i).kind = "io" => ~Sound(i)
           /\ Sound(i) /\ verify => quality[i] # "garbled"
<1>1. i \in Nat
    BY ImageType
<1>2. quality[i] \in Qualities /\ verify \in BOOLEAN
    BY DEF Typed
<1>3. CASE quality[i] = "good"
    <2>1. Fetch(i) = [kind |-> "item", seq |-> i] /\ Got(i) = [kind |-> "data", seq |-> i]
        BY <1>3 DEF Fetch, Got, Answer, Decode, Msg
    <2> QED BY <1>1, <1>3, <2>1 DEF Kinds, Failures, Sound, Got
<1>4. CASE quality[i] = "unreadable"
    <2>1. Fetch(i) = [kind |-> "io", seq |-> i] /\ Got(i) = [kind |-> "io", seq |-> i]
        BY <1>4 DEF Fetch, Got, Answer, Msg
    <2> QED BY <1>1, <1>4, <2>1 DEF Kinds, Failures, Sound, Damage, Got
<1>5. CASE quality[i] = "undecodable"
    <2>1. Fetch(i) = [kind |-> "item", seq |-> i] /\ Got(i) = [kind |-> "zstd", seq |-> i]
        BY <1>5 DEF Fetch, Got, Answer, Decode, Msg
    <2> QED BY <1>1, <1>5, <2>1 DEF Kinds, Failures, Sound, Damage, Got
<1>6. CASE quality[i] = "garbled" /\ verify
    <2>1. Fetch(i) = [kind |-> "item", seq |-> i] /\ Got(i) = [kind |-> "hash", seq |-> i]
        BY <1>6 DEF Fetch, Got, Answer, Decode, Msg
    <2> QED BY <1>1, <1>6, <2>1 DEF Kinds, Failures, Sound, Damage, Got
<1>7. CASE quality[i] = "garbled" /\ ~verify
    <2>1. Fetch(i) = [kind |-> "item", seq |-> i] /\ Got(i) = [kind |-> "data", seq |-> i]
        BY <1>7 DEF Fetch, Got, Answer, Decode, Msg
    <2> QED BY <1>1, <1>7, <2>1 DEF Kinds, Failures, Sound, Got
<1> QED BY <1>2, <1>3, <1>4, <1>5, <1>6, <1>7 DEF Qualities

\* A sent message is in the queue with those that were there.
LEMMA InAppend ==
    ASSUME NEW S, NEW q \in Seq(S), NEW m \in S
    PROVE  In(Append(q, m)) = In(q) \cup {m}
<1>1. PICK n \in Nat : n = Len(q)
    BY LenProperties
<1>2. DOMAIN q = 1 .. n /\ DOMAIN Append(q, m) = 1 .. n + 1
    BY <1>1, AppendProperties, LenProperties
<1>3. (\A i \in 1 .. n : Append(q, m)[i] = q[i]) /\ Append(q, m)[n + 1] = m
    BY <1>1, AppendProperties
<1>4. 1 .. n + 1 = (1 .. n) \cup {n + 1}
    BY <1>1
<1> QED BY <1>2, <1>3, <1>4 DEF In

\* A queue holds its head and what is behind it.
LEMMA InTail ==
    ASSUME NEW S, NEW q \in Seq(S), q # <<>>
    PROVE  In(q) = In(Tail(q)) \cup {Head(q)} /\ Head(q) \in S /\ Tail(q) \in Seq(S)
<1>1. PICK n \in Nat : n = Len(q)
    BY LenProperties
<1>2. /\ n > 0 /\ DOMAIN q = 1 .. n /\ Head(q) = q[1]
    BY <1>1, LenProperties, EmptySeq
<1>3. /\ Tail(q) \in Seq(S) /\ Head(q) \in S /\ Len(Tail(q)) = n - 1
      /\ \A i \in 1 .. n - 1 : Tail(q)[i] = q[i + 1]
    BY <1>1, HeadTailProperties
<1>4. DOMAIN Tail(q) = 1 .. n - 1
    BY <1>3, LenProperties
<1>5. ASSUME NEW i \in 1 .. n PROVE q[i] \in In(Tail(q)) \cup {Head(q)}
    <2>1. CASE i = 1
        BY <1>2, <2>1
    <2>2. CASE i # 1
        <3>1. i - 1 \in 1 .. n - 1 /\ q[i] = Tail(q)[i - 1]
            BY <1>1, <1>3, <2>2
        <3> QED BY <1>4, <3>1 DEF In
    <2> QED BY <2>1, <2>2
<1>6. ASSUME NEW i \in 1 .. n - 1 PROVE Tail(q)[i] \in In(q)
    <2>1. i + 1 \in 1 .. n /\ Tail(q)[i] = q[i + 1]
        BY <1>1, <1>3
    <2> QED BY <1>2, <2>1 DEF In
<1>7. Head(q) \in In(q)
    BY <1>1, <1>2 DEF In
<1> QED BY <1>2, <1>3, <1>4, <1>5, <1>6, <1>7 DEF In

\* An empty queue holds nothing.
LEMMA InNone == In(<<>>) = {}
BY DEF In

\* A restore changes neither what was captured nor what its chunks give.
LEMMA RestoreFrame ==
    ASSUME StreamInv, phase = "restore", phase' \in {"restore", "returned"},
           UNCHANGED <<extents, at, image, origin, quality, verify, move>>
    PROVE  /\ CaptureInv' /\ Total' = Total /\ Chunks' = Chunks /\ Parallel' = Parallel
           /\ \A i : /\ Fetch(i)' = Fetch(i) /\ Got(i)' = Got(i) /\ (Sound(i)' <=> Sound(i))
                     /\ Captured(i)' = Captured(i)
           /\ \A p : Goes(p)' = Goes(p)
<1>1. CaptureInv' /\ Total' = Total /\ Chunks' = Chunks /\ Parallel' = Parallel
    <2>1. Total' = Total /\ Chunks' = Chunks /\ Parallel' = Parallel
        BY DEF Total, Chunks, Parallel
    <2>2. AtInv'
        BY DEF StreamInv, CaptureInv, AtInv, Extent, ChunkNo
    <2>3. CoveredInv'
        BY <2>1 DEF StreamInv, CaptureInv, CoveredInv, Behind, End, Captured
    <2>4. ASSUME NEW k \in Chunks PROVE ChunkInv(k)'
        BY DEF StreamInv, CaptureInv, ChunkInv, StrideStart, End
    <2> QED BY <2>1, <2>2, <2>3, <2>4 DEF CaptureInv
<1>2. ASSUME NEW i
      PROVE  Fetch(i)' = Fetch(i) /\ Got(i)' = Got(i) /\ (Sound(i)' <=> Sound(i))
             /\ Captured(i)' = Captured(i)
    <2>1. Fetch(i)' = Fetch(i) /\ Captured(i)' = Captured(i)
        BY DEF Fetch, Captured
    <2>2. Got(i)' = Got(i)
        BY <2>1 DEF Got, Answer, Decode
    <2> QED BY <2>1, <2>2 DEF Sound
<1>3. ASSUME NEW p PROVE Goes(p)' = Goes(p)
    BY DEF Goes
<1> QED BY <1>1, <1>2, <1>3

\* What is on the target stays right when nothing is written; a failed restore
\* may become one that panicked.
LEMMA TargetFrame ==
    ASSUME StreamInv, phase = "restore", phase' \in {"restore", "returned"},
           UNCHANGED <<extents, at, image, origin, quality, verify, move, next, target>>,
           result \in {"disk", "panic"} => result' \in {"disk", "panic"}
    PROVE  TargetIsPrefix'
<1>1. /\ \A i : Captured(i)' = Captured(i)
      /\ \A p : Goes(p)' = Goes(p)
      /\ Total' = Total
    BY RestoreFrame
<1> DEFINE settled == UNION {Captured(i) : i \in 1 .. (next - 1)}
           failing == IF result \in {"disk", "panic"} /\ next <= Total
                      THEN Captured(next) ELSE {}
           garbled == IF verify THEN {} ELSE {Junk}
<1>2. settled' = settled /\ failing \subseteq failing' /\ garbled' = garbled
    BY <1>1
<1>3. ASSUME NEW b \in TargetBlocks
      PROVE  LET from == {p \in settled : Goes(p) = b} IN
          IF from # {} THEN target[b] \in from \cup garbled
          ELSE \/ target[b] = Old
               \/ \E p \in failing : Goes(p) = b /\ target[b] \in {p} \cup garbled
    BY DEF StreamInv, TargetIsPrefix
<1> HIDE DEF settled, failing, garbled
<1>4. ASSUME NEW b \in TargetBlocks
      PROVE  LET from == {p \in settled' : Goes(p)' = b} IN
          IF from # {} THEN target'[b] \in from \cup garbled'
          ELSE \/ target'[b] = Old
               \/ \E p \in failing' : Goes(p)' = b /\ target'[b] \in {p} \cup garbled'
    BY <1>1, <1>2, <1>3
<1> QED BY <1>4 DEF TargetIsPrefix, settled, failing, garbled

-----------------------------------------------------------------------------
(* The ends of capture. *)

\* The invariant holds before anything is captured.
LEMMA InitInv == Init => StreamInv
<1> SUFFICES ASSUME Init PROVE StreamInv
    OBVIOUS
<1>1. Typed /\ Total = 0 /\ Chunks = {}
    <2>1. Total = 0 /\ Chunks = {} /\ Len(origin) = 0
        BY DEF Init, Total, Chunks
    <2>2. target \in [TargetBlocks -> Int]
        BY DEF Init, Old
    <2>3. image \in Seq([extent : Nat, chunk : Nat, len : Nat]) /\ origin \in Seq(Nat)
          /\ jobs \in Seq([kind : Kinds, seq : Nat]) /\ done \in Seq([kind : Kinds, seq : Nat])
        BY DEF Init
    <2>4. wjob \in [Workers -> [kind : Kinds, seq : Nat]]
        BY DEF Init, NoMsg, Msg, Kinds
    <2>5. at \in Nat \X Nat /\ rseq \in 1 .. Total + 1 /\ next \in 1 .. Total + 1
        BY <2>1 DEF Init
    <2>6. /\ wpc \in [Workers -> {"recv", "decode", "send", "exited", "dead"}]
          /\ pending \subseteq Chunks
        BY DEF Init
    <2>7. /\ phase = "capture" /\ extents \in ExtentLists /\ verify \in BOOLEAN /\ move \in Moves
          /\ cancelled = FALSE /\ rpc = "read" /\ receiving = TRUE /\ result = "none"
        BY DEF Init
    <2> QED BY <2>1, <2>2, <2>3, <2>4, <2>5, <2>6, <2>7 DEF Typed
<1>2. AtInv
    <2>1. ChunkNo = 0
        <3>1. {k \in DOMAIN image : image[k].extent = at[1]} = {}
            BY <1>1, ImageType
        <3> QED BY <3>1, FS_EmptySet DEF ChunkNo
    <2>2. at[1] = 0 /\ at[2] = 0 /\ phase = "capture" /\ Len(extents) \in Nat
        BY <1>1, ImageType DEF Init
    <2>3. 0 < Len(extents) => Extent.count \in Nat
        <3> SUFFICES ASSUME 0 < Len(extents) PROVE Extent.count \in Nat
            OBVIOUS
        <3>1. 1 \in DOMAIN extents
            BY <1>1, <2>2, ImageType
        <3>2. Extent = extents[1]
            BY <2>2 DEF Extent
        <3> QED BY <1>1, <3>1, <3>2, ExtentType
    <2> QED BY <2>1, <2>2, <2>3, RestoreAssumption DEF AtInv
<1>3. CoveredInv
    <2> SUFFICES ASSUME NEW e \in DOMAIN extents, e <= at[1] + 1,
                        NEW p \in extents[e].start .. Behind(e) - 1
                 PROVE  FALSE
        BY DEF CoveredInv
    <2>1. e \in Nat /\ e >= 1 /\ extents[e].start \in Nat /\ at[1] = 0 /\ at[2] = 0
        BY <1>1, ExtentType DEF Init
    <2> QED BY <2>1 DEF Behind
<1>4. CaptureInv
    BY <1>1, <1>2, <1>3 DEF CaptureInv
<1>5. Idle /\ Unbegun /\ Settled
    BY DEF Init, Idle, Unbegun, Settled, Failures
<1>6. Messages /\ Conserved /\ Orderly
    BY InNone DEF Init, Messages, Conserved, Orderly, Holding, Running
<1>7. TargetIsPrefix
    BY NothingWritten DEF Init
<1> QED BY <1>1, <1>4, <1>5, <1>6, <1>7 DEF StreamInv, PipeInv

\* It holds when a restore of the finished image begins, whatever is damaged.
LEMMA StartInv ==
    ASSUME StreamInv, StartRestore
    PROVE  StreamInv'
<1>1. /\ phase = "capture" /\ phase' = "restore" /\ at[1] = Len(extents)
      /\ quality' \in [1 .. Total -> Qualities]
      /\ UNCHANGED <<extents, at, image, origin, verify, move, cancelled, rpc, rseq, jobs, done,
                     wpc, wjob, pending, next, receiving, result, target>>
    BY DEF StartRestore, captureVars, readerVars, workerVars, consumerVars
<1>2. /\ rpc = "read" /\ rseq = 1 /\ jobs = <<>> /\ done = <<>> /\ pending = {}
      /\ \A w \in Workers : wpc[w] = "recv"
      /\ receiving /\ result = "none"
      /\ next = 1 /\ target = [b \in TargetBlocks |-> Old]
    BY <1>1 DEF StreamInv, PipeInv, Idle, Unbegun
<1>3. Total' = Total /\ Chunks' = Chunks /\ Total \in Nat
    BY <1>1, ImageType DEF StreamInv, Total, Chunks
<1>4. Typed'
    BY <1>1, <1>3 DEF StreamInv, Typed, Chunks
<1>5. CaptureInv'
    <2>2. AtInv'
        BY <1>1 DEF StreamInv, CaptureInv, AtInv, Extent, ChunkNo
    <2>3. CoveredInv'
        BY <1>1, <1>3 DEF StreamInv, CaptureInv, CoveredInv, Behind, End, Captured
    <2>4. ASSUME NEW k \in Chunks PROVE ChunkInv(k)'
        BY <1>1 DEF StreamInv, CaptureInv, ChunkInv, StrideStart, End
    <2> QED BY <1>3, <2>2, <2>3, <2>4 DEF CaptureInv
<1>6. Idle' /\ Unbegun' /\ Settled'
    BY <1>1, <1>2 DEF Idle, Unbegun, Settled, Failures
<1>7. Messages' /\ Conserved'
    BY <1>1, <1>2, InNone DEF Messages, Conserved, Holding, In
<1>8. Orderly'
    BY <1>1, <1>2, <1>3 DEF Orderly, Running, Parallel
<1>9. TargetIsPrefix'
    BY <1>1, <1>2, NothingWritten DEF TargetIsPrefix
<1> QED BY <1>4, <1>5, <1>6, <1>7, <1>8, <1>9 DEF StreamInv, PipeInv

-----------------------------------------------------------------------------
(* The reader and the workers. *)

\* A step of the reader or of a worker changes nothing on the target.
LEMMA ThreadFrame ==
    ASSUME StreamInv, Running, Dead => Dead',
           UNCHANGED <<phase, captureVars, settingVars, cancelled, consumerVars>>
    PROVE  /\ CaptureInv' /\ Idle' /\ Unbegun' /\ Settled' /\ TargetIsPrefix'
           /\ phase = "restore" /\ Total' = Total /\ Chunks' = Chunks /\ Running'
           /\ \A i : /\ Fetch(i)' = Fetch(i) /\ Got(i)' = Got(i) /\ (Sound(i)' <=> Sound(i))
           /\ UNCHANGED <<phase, extents, at, image, origin, quality, verify, move, cancelled,
                          pending, next, receiving, result, target>>
<1>1. UNCHANGED <<phase, extents, at, image, origin, quality, verify, move, cancelled, pending,
                  next, receiving, result, target>>
    BY DEF captureVars, settingVars, consumerVars
<1>2. phase = "restore" /\ Parallel
    BY DEF Running
<1>3. /\ CaptureInv' /\ Total' = Total /\ Chunks' = Chunks /\ Parallel'
      /\ \A i : /\ Fetch(i)' = Fetch(i) /\ Got(i)' = Got(i) /\ (Sound(i)' <=> Sound(i))
    BY <1>1, <1>2, RestoreFrame
<1>4. TargetIsPrefix'
    BY <1>1, <1>2, TargetFrame
<1>5. Idle' /\ Unbegun' /\ Running'
    BY <1>1, <1>2, <1>3 DEF Idle, Unbegun, Running
<1>6. Settled'
    BY <1>1, <1>3 DEF StreamInv, PipeInv, Settled
<1> QED BY <1>1, <1>2, <1>3, <1>4, <1>5, <1>6

\* The parts of the invariant a step of the reader or of a worker is about.
LEMMA ThreadParts ==
    ASSUME StreamInv, Running
    PROVE  /\ Messages /\ Conserved /\ Orderly /\ phase = "restore" /\ Total \in Nat
           /\ Chunks = 1 .. Total /\ rseq \in 1 .. Total + 1 /\ next \in 1 .. Total + 1
           /\ jobs \in Seq([kind : Kinds, seq : Nat]) /\ done \in Seq([kind : Kinds, seq : Nat])
           /\ wpc \in [Workers -> {"recv", "decode", "send", "exited", "dead"}]
           /\ wjob \in [Workers -> [kind : Kinds, seq : Nat]]
           /\ \A i \in 1 .. rseq - 1 : i \in Chunks
           /\ receiving \in BOOLEAN /\ pending \subseteq Chunks
<1>1. Total \in Nat /\ Chunks = 1 .. Total
    BY ImageType DEF StreamInv
<1>2. rseq \in 1 .. Total + 1
    BY DEF StreamInv, Typed
<1>3. \A i \in 1 .. rseq - 1 : i \in Chunks
    BY <1>1, <1>2
<1> QED BY <1>1, <1>2, <1>3 DEF StreamInv, Typed, PipeInv, Running

\* The reader sends chunk after chunk, or the error, and stops at the last one or
\* at the error.
LEMMA ReaderSendInv ==
    ASSUME StreamInv, ReaderSend
    PROVE  StreamInv'
<1> DEFINE M == [kind : Kinds, seq : Nat]
<1>1. /\ Running /\ rpc = "read" /\ jobs' = Append(jobs, Fetch(rseq)) /\ rseq' = rseq + 1
      /\ rpc' = IF Fetch(rseq).kind = "io" \/ rseq = Total THEN "exited" ELSE "read"
      /\ done' = done /\ wpc' = wpc /\ wjob' = wjob
      /\ UNCHANGED <<phase, captureVars, settingVars, cancelled, consumerVars>>
    BY DEF ReaderSend, workerVars
<1>2. Dead' <=> Dead
    BY <1>1 DEF Dead
<1>3. /\ CaptureInv' /\ Idle' /\ Unbegun' /\ Settled' /\ TargetIsPrefix'
      /\ phase = "restore" /\ Total' = Total /\ Chunks' = Chunks
      /\ \A i : /\ Fetch(i)' = Fetch(i) /\ Got(i)' = Got(i) /\ (Sound(i)' <=> Sound(i))
      /\ UNCHANGED <<phase, extents, at, image, origin, quality, verify, move, cancelled, pending,
                     next, receiving, result, target>>
    BY <1>1, <1>2, ThreadFrame
<1>4. /\ Messages /\ Conserved /\ Orderly /\ rseq \in 1 .. Total + 1 /\ Total \in Nat
      /\ jobs \in Seq(M) /\ done \in Seq(M) /\ Chunks = 1 .. Total
    BY <1>1, ThreadParts
<1>5. rseq \in Chunks /\ rseq \in Nat /\ rseq <= Total
    BY <1>1, <1>4 DEF Orderly
<1>6. Fetch(rseq) \in M /\ Fetch(rseq).seq = rseq
    BY <1>3, <1>5, GotKinds DEF StreamInv
<1>7. jobs' \in Seq(M) /\ In(jobs') = In(jobs) \cup {Fetch(rseq)}
    <2>1. Append(jobs, Fetch(rseq)) \in Seq(M)
        BY <1>4, <1>6, AppendProperties
    <2>3. \A m \in M : In(Append(jobs, m)) = In(jobs) \cup {m}
        BY <1>4, InAppend
    <2>2. In(Append(jobs, Fetch(rseq))) = In(jobs) \cup {Fetch(rseq)}
        BY <1>6, <2>3
    <2> QED BY <1>1, <2>1, <2>2
<1>8. Typed'
    <2>1. rseq' \in 1 .. Total + 1 /\ rpc' \in {"read", "exited"}
        BY <1>1, <1>4, <1>5
    <2> QED BY <1>1, <1>3, <1>7, <2>1 DEF StreamInv, Typed
<1>9. 1 .. rseq' - 1 = (1 .. rseq - 1) \cup {rseq}
    <2>1. PICK r \in Nat : r = rseq
        BY <1>5
    <2>2. r >= 1 /\ rseq' = r + 1
        BY <1>1, <1>4, <2>1
    <2>3. 1 .. (r + 1) - 1 = (1 .. r - 1) \cup {r}
        BY <2>2
    <2> QED BY <2>1, <2>2, <2>3
<1>10. Messages'
    <2>1. ASSUME NEW m \in In(jobs') PROVE m.seq \in 1 .. rseq' - 1 /\ m = Fetch(m.seq)'
        BY <1>3, <1>4, <1>6, <1>7, <1>9, <2>1 DEF Messages
    <2>2. ASSUME NEW m \in In(done') PROVE m.seq \in 1 .. rseq' - 1 /\ m = Got(m.seq)'
        BY <1>1, <1>3, <1>4, <1>9, <2>2 DEF Messages
    <2>3. ASSUME NEW w \in Workers, Holding(w)'
          PROVE  /\ wjob'[w].seq \in 1 .. rseq' - 1
                 /\ wpc'[w] = "decode" => wjob'[w] = Fetch(wjob[w].seq)'
                 /\ wpc'[w] = "send" => wjob'[w] = Got(wjob[w].seq)'
        BY <1>1, <1>3, <1>4, <1>9, <2>3 DEF Messages, Holding
    <2>4. \A i \in pending' \cup (1 .. next' - 1) : Sound(i)'
        BY <1>3, <1>4 DEF Messages
    <2> QED BY <1>1, <2>1, <2>2, <2>3, <2>4 DEF Messages, In
<1>11. Conserved'
    <2> SUFFICES ASSUME receiving, ~Dead, NEW i \in (1 .. rseq - 1) \cup {rseq} PROVE Somewhere(i)'
        BY <1>2, <1>3, <1>9 DEF Conserved
    <2>1. CASE i = rseq
        <3>1. Fetch(rseq) \in In(jobs') \cup In(done')
            BY <1>7
        <3> QED BY <1>6, <2>1, <3>1 DEF Somewhere, In
    <2>2. CASE i \in 1 .. rseq - 1
        <3>1. Somewhere(i)
            BY <1>4, <2>2 DEF Conserved
        <3>2. In(jobs)' = In(jobs') /\ In(done)' = In(done)
            BY <1>1 DEF In
        <3> QED BY <1>1, <1>3, <1>7, <3>1, <3>2 DEF Somewhere, Holding
    <2> QED BY <2>1, <2>2
<1>12. Orderly'
    <2>1. rpc' = "read" => rseq' <= Total
        BY <1>1, <1>4, <1>5
    <2>4. PICK r \in Nat : r = rseq
        BY <1>5
    <2>5. Fetch(rseq - 1)' = Fetch(r)
        BY <1>1, <1>3, <2>4 DEF Fetch
    <2>2. rpc' = "exited" => rseq' = Total + 1 \/ (rseq' > 1 /\ (Fetch(rseq - 1).kind = "io")')
        BY <1>1, <1>4, <1>5, <2>4, <2>5
    <2>3. receiving => \A w \in Workers : wpc[w] # "exited"
        BY <1>1, <1>4 DEF Orderly
    <2> QED BY <1>1, <1>3, <2>1, <2>2, <2>3 DEF Orderly
<1> QED BY <1>3, <1>8, <1>10, <1>11, <1>12 DEF StreamInv, PipeInv

\* The reader finds the job channel closed only when the consumer gave up.
LEMMA ReaderDisconnectedInv ==
    ASSUME StreamInv, ReaderDisconnected
    PROVE  StreamInv'
<1>1. /\ Running /\ rpc = "read" /\ rpc' = "exited" /\ ~receiving
      /\ UNCHANGED <<phase, captureVars, settingVars, cancelled, consumerVars>>
      /\ UNCHANGED <<rseq, jobs, done, wpc, wjob>>
    BY DEF ReaderDisconnected, workerVars, JobsOpen
<1>2. Dead' <=> Dead
    BY <1>1 DEF Dead
<1>3. /\ CaptureInv' /\ Idle' /\ Unbegun' /\ Settled' /\ TargetIsPrefix'
      /\ phase = "restore" /\ Total' = Total /\ Chunks' = Chunks
      /\ \A i : /\ Fetch(i)' = Fetch(i) /\ Got(i)' = Got(i) /\ (Sound(i)' <=> Sound(i))
      /\ UNCHANGED <<phase, extents, at, image, origin, quality, verify, move, cancelled, pending,
                     next, receiving, result, target>>
    BY <1>1, <1>2, ThreadFrame
<1>4. Typed'
    BY <1>1, <1>3 DEF StreamInv, Typed
<1>5. Messages'
    BY <1>1, <1>3 DEF StreamInv, PipeInv, Messages, Holding, In
<1>6. Conserved' /\ Orderly'
    BY <1>1, <1>3 DEF Conserved, Orderly
<1> QED BY <1>3, <1>4, <1>5, <1>6 DEF StreamInv, PipeInv

\* A worker takes the oldest message.
LEMMA WorkerRecvInv ==
    ASSUME StreamInv, NEW w \in Workers, WorkerRecv(w)
    PROVE  StreamInv'
<1> DEFINE M == [kind : Kinds, seq : Nat]
<1>1. /\ Running /\ wpc[w] = "recv" /\ jobs # <<>>
      /\ wjob' = [wjob EXCEPT ![w] = Head(jobs)]
      /\ jobs' = Tail(jobs)
      /\ wpc' = [wpc EXCEPT ![w] = "decode"]
      /\ UNCHANGED <<phase, captureVars, settingVars, cancelled, consumerVars>>
      /\ UNCHANGED <<rpc, rseq, done>>
    BY DEF WorkerRecv, readerVars
<1>2. /\ Messages /\ Conserved /\ Orderly /\ jobs \in Seq(M) /\ done \in Seq(M)
      /\ wpc \in [Workers -> {"recv", "decode", "send", "exited", "dead"}]
      /\ wjob \in [Workers -> M]
    BY <1>1, ThreadParts
<1>3. /\ wpc'[w] = "decode" /\ wjob'[w] = Head(jobs)
      /\ \A v \in Workers \ {w} : wpc'[v] = wpc[v] /\ wjob'[v] = wjob[v]
    BY <1>1, <1>2
<1>4. Dead' <=> Dead
    BY <1>1, <1>3 DEF Dead
<1>5. /\ CaptureInv' /\ Idle' /\ Unbegun' /\ Settled' /\ TargetIsPrefix'
      /\ phase = "restore" /\ Total' = Total /\ Chunks' = Chunks
      /\ \A i : /\ Fetch(i)' = Fetch(i) /\ Got(i)' = Got(i) /\ (Sound(i)' <=> Sound(i))
      /\ UNCHANGED <<phase, extents, at, image, origin, quality, verify, move, cancelled, pending,
                     next, receiving, result, target>>
    BY <1>1, <1>4, ThreadFrame
<1>6. In(jobs) = In(jobs') \cup {Head(jobs)} /\ Head(jobs) \in M /\ jobs' \in Seq(M)
    BY <1>1, <1>2, InTail
<1>7. Typed'
    <2>1. wjob' \in [Workers -> M]
        BY <1>1, <1>2, <1>6
    <2>2. wpc' \in [Workers -> {"recv", "decode", "send", "exited", "dead"}]
        BY <1>1, <1>2
    <2> QED BY <1>1, <1>5, <1>6, <2>1, <2>2 DEF StreamInv, Typed
<1>8. Head(jobs).seq \in 1 .. rseq - 1 /\ Head(jobs) = Fetch(Head(jobs).seq)
    BY <1>2, <1>6 DEF Messages
<1>9. Messages'
    <2>1. ASSUME NEW m \in In(jobs') PROVE m.seq \in 1 .. rseq - 1 /\ m = Fetch(m.seq)'
        BY <1>2, <1>5, <1>6 DEF Messages
    <2>2. ASSUME NEW m \in In(done) PROVE m.seq \in 1 .. rseq - 1 /\ m = Got(m.seq)'
        BY <1>2, <1>5 DEF Messages
    <2>3. ASSUME NEW v \in Workers, Holding(v)'
          PROVE  /\ wjob'[v].seq \in 1 .. rseq - 1
                 /\ wpc'[v] = "decode" => wjob'[v] = Fetch(wjob[v].seq)'
                 /\ wpc'[v] = "send" => wjob'[v] = Got(wjob[v].seq)'
        <3>1. CASE v = w
            <4>1. Fetch(wjob[v].seq)' = Fetch(wjob'[v].seq)
                BY <1>5 DEF Fetch
            <4> QED BY <1>3, <1>8, <3>1, <4>1
        <3>2. CASE v # w
            BY <1>2, <1>3, <1>5, <2>3, <3>2 DEF Messages, Holding
        <3> QED BY <3>1, <3>2
    <2>4. \A i \in pending' \cup (1 .. next' - 1) : Sound(i)'
        BY <1>2, <1>5 DEF Messages
    <2> QED BY <1>1, <2>1, <2>2, <2>3, <2>4 DEF Messages, In
<1>10. Conserved'
    <2> SUFFICES ASSUME receiving, ~Dead, NEW i \in 1 .. rseq - 1 PROVE Somewhere(i)'
        BY <1>1, <1>4, <1>5 DEF Conserved
    <2>1. Somewhere(i)
        BY <1>2 DEF Conserved
    <2>2. CASE Head(jobs).seq = i
        BY <1>3, <2>2 DEF Somewhere, Holding
    <2>3. CASE i < next \/ i \in pending
        BY <1>5, <2>3 DEF Somewhere
    <2>4. CASE \E v \in Workers : Holding(v) /\ wjob[v].seq = i
        <3>1. PICK v \in Workers : Holding(v) /\ wjob[v].seq = i
            BY <2>4
        <3>2. v # w
            BY <1>1, <3>1 DEF Holding
        <3> QED BY <1>3, <3>1, <3>2 DEF Somewhere, Holding
    <2>5. CASE Head(jobs).seq # i /\ \E m \in In(jobs) \cup In(done) : m.seq = i
        <3>1. \E m \in In(jobs') \cup In(done') : m.seq = i
            BY <1>1, <1>6, <2>5
        <3> QED BY <3>1 DEF Somewhere, In
    <2> QED BY <2>1, <2>2, <2>3, <2>4, <2>5 DEF Somewhere
<1>11. Orderly'
    <2>1. Running /\ rpc = "read" => rseq <= Total
        BY <1>2 DEF Orderly
    <2>2. receiving /\ rpc = "exited"
            => rseq = Total + 1 \/ (rseq > 1 /\ (Fetch(rseq - 1).kind = "io")')
        BY <1>1, <1>2, <1>5 DEF Orderly, Fetch
    <2>3. receiving => \A v \in Workers : wpc'[v] # "exited"
        BY <1>1, <1>2, <1>3 DEF Orderly
    <2> QED BY <1>1, <1>5, <2>1, <2>2, <2>3 DEF Orderly, Running
<1> QED BY <1>5, <1>7, <1>9, <1>10, <1>11 DEF StreamInv, PipeInv

\* A worker changes only the message it holds and its state: what must hold of the
\* two then, and that a living worker keeps its chunk.
LEMMA WorkerStep ==
    ASSUME StreamInv, Running, NEW w \in Workers,
           NEW pc \in {"recv", "decode", "send", "exited", "dead"},
           NEW msg \in [kind : Kinds, seq : Nat],
           wpc' = [wpc EXCEPT ![w] = pc], wjob' = [wjob EXCEPT ![w] = msg],
           UNCHANGED <<phase, captureVars, settingVars, cancelled, consumerVars>>,
           UNCHANGED <<rpc, rseq, jobs>>,
           wpc[w] # "dead",
           done' \in Seq([kind : Kinds, seq : Nat]),
           In(done) \subseteq In(done'),
           \A m \in In(done') : m.seq \in 1 .. rseq - 1 /\ m = Got(m.seq),
           pc \in {"recv", "exited", "dead", "send"},
           pc = "send" => msg.seq \in 1 .. rseq - 1 /\ msg = Got(msg.seq),
           receiving /\ pc = "exited" => rpc = "exited" /\ jobs = <<>>,
           receiving /\ pc # "dead" /\ Holding(w) =>
               \/ pc = "send" /\ msg.seq = wjob[w].seq
               \/ \E m \in In(done') : m.seq = wjob[w].seq
    PROVE  StreamInv'
<1> DEFINE M == [kind : Kinds, seq : Nat]
<1>2. /\ Messages /\ Conserved /\ Orderly /\ jobs \in Seq(M) /\ done \in Seq(M)
      /\ wpc \in [Workers -> {"recv", "decode", "send", "exited", "dead"}]
      /\ wjob \in [Workers -> M]
    BY ThreadParts
<1>3. /\ wpc'[w] = pc /\ wjob'[w] = msg
      /\ \A v \in Workers \ {w} : wpc'[v] = wpc[v] /\ wjob'[v] = wjob[v]
    BY <1>2
<1>4. Dead' <=> Dead \/ pc = "dead"
    BY <1>3 DEF Dead
<1>5. /\ CaptureInv' /\ Idle' /\ Unbegun' /\ Settled' /\ TargetIsPrefix'
      /\ phase = "restore" /\ Total' = Total /\ Chunks' = Chunks
      /\ \A i : /\ Fetch(i)' = Fetch(i) /\ Got(i)' = Got(i) /\ (Sound(i)' <=> Sound(i))
      /\ UNCHANGED <<phase, extents, at, image, origin, quality, verify, move, cancelled, pending,
                     next, receiving, result, target>>
    BY <1>4, ThreadFrame
<1>7. Typed'
    <2>1. wjob' \in [Workers -> M]
        BY <1>2
    <2>2. wpc' \in [Workers -> {"recv", "decode", "send", "exited", "dead"}]
        BY <1>2
    <2> QED BY <1>5, <2>1, <2>2 DEF StreamInv, Typed
<1>9. Messages'
    <2>1. ASSUME NEW m \in In(jobs) PROVE m.seq \in 1 .. rseq - 1 /\ m = Fetch(m.seq)'
        BY <1>2, <1>5 DEF Messages
    <2>2. ASSUME NEW m \in In(done') PROVE m.seq \in 1 .. rseq - 1 /\ m = Got(m.seq)'
        BY <1>5
    <2>3. ASSUME NEW v \in Workers, Holding(v)'
          PROVE  /\ wjob'[v].seq \in 1 .. rseq - 1
                 /\ wpc'[v] = "decode" => wjob'[v] = Fetch(wjob[v].seq)'
                 /\ wpc'[v] = "send" => wjob'[v] = Got(wjob[v].seq)'
        <3>1. CASE v = w
            <4>1. pc = "send" /\ wpc'[v] = "send"
                BY <1>3, <2>3, <3>1 DEF Holding
            <4>2. wjob'[v] = msg /\ Got(msg.seq)' = Got(msg.seq)
                BY <1>3, <1>5, <3>1
            <4>3. Got(wjob[v].seq)' = Got(msg.seq)
                BY <1>5, <4>2 DEF Got, Answer, Fetch, Decode
            <4> QED BY <4>1, <4>2, <4>3
        <3>2. CASE v # w
            BY <1>2, <1>3, <1>5, <2>3, <3>2 DEF Messages, Holding
        <3> QED BY <3>1, <3>2
    <2>4. \A i \in pending' \cup (1 .. next' - 1) : Sound(i)'
        BY <1>2, <1>5 DEF Messages
    <2> QED BY <2>1, <2>2, <2>3, <2>4 DEF Messages, In
<1>10. Conserved'
    <2> SUFFICES ASSUME receiving, ~Dead, pc # "dead", NEW i \in 1 .. rseq - 1 PROVE Somewhere(i)'
        BY <1>4, <1>5 DEF Conserved
    <2>1. Somewhere(i)
        BY <1>2 DEF Conserved
    <2>3. CASE i < next \/ i \in pending
        BY <1>5, <2>3 DEF Somewhere
    <2>4. CASE \E v \in Workers : Holding(v) /\ wjob[v].seq = i
        <3>1. PICK v \in Workers : Holding(v) /\ wjob[v].seq = i
            BY <2>4
        <3>2. CASE v # w
            BY <1>3, <3>1, <3>2 DEF Somewhere, Holding
        <3>3. CASE v = w /\ pc = "send" /\ msg.seq = wjob[w].seq
            BY <1>3, <3>1, <3>3 DEF Somewhere, Holding
        <3>4. CASE \E m \in In(done') : m.seq = i
            BY <3>4 DEF Somewhere, In
        <3> QED BY <3>1, <3>2, <3>3, <3>4
    <2>5. CASE \E m \in In(jobs) \cup In(done) : m.seq = i
        <3>1. \E m \in In(jobs) \cup In(done') : m.seq = i
            BY <2>5
        <3> QED BY <3>1 DEF Somewhere, In
    <2> QED BY <2>1, <2>3, <2>4, <2>5 DEF Somewhere
<1>11. Orderly'
    <2>1. Running /\ rpc = "read" => rseq <= Total
        BY <1>2 DEF Orderly
    <2>2. receiving /\ rpc = "exited"
            => rseq = Total + 1 \/ (rseq > 1 /\ (Fetch(rseq - 1).kind = "io")')
        BY <1>2, <1>5 DEF Orderly, Fetch
    <2>3. receiving => \A v \in Workers : wpc'[v] = "exited" => rpc = "exited" /\ jobs = <<>>
        BY <1>2, <1>3 DEF Orderly
    <2> QED BY <1>5, <2>1, <2>2, <2>3 DEF Orderly, Running
<1> QED BY <1>5, <1>7, <1>9, <1>10, <1>11 DEF StreamInv, PipeInv

\* What a worker holds may be sent on: it is decoded once, dropped only when nobody
\* listens or the worker dies, and a worker stops only after the reader.
LEMMA WorkerInv ==
    ASSUME StreamInv, NEW w \in Workers, WorkerNext(w)
    PROVE  StreamInv'
<1> DEFINE M == [kind : Kinds, seq : Nat]
<1>1. /\ Running /\ UNCHANGED <<phase, captureVars, settingVars, cancelled, consumerVars>>
      /\ UNCHANGED <<rpc, rseq>>
    BY DEF WorkerNext, WorkerRecv, WorkerExit, WorkerDecode, WorkerDies, WorkerSend,
           WorkerDisconnected, readerVars
<1>2. /\ Messages /\ Conserved /\ Orderly /\ done \in Seq(M)
      /\ wpc \in [Workers -> {"recv", "decode", "send", "exited", "dead"}]
      /\ wjob \in [Workers -> M] /\ wjob[w] \in M /\ phase = "restore"
      /\ \A i \in 1 .. rseq - 1 : i \in Chunks
    BY <1>1, ThreadParts
<1>3. \A m \in In(done) : m.seq \in 1 .. rseq - 1 /\ m = Got(m.seq)
    BY <1>2 DEF Messages
<1>4. NoMsg \in M
    BY DEF NoMsg, Msg, Kinds
<1>5. wjob = [wjob EXCEPT ![w] = wjob[w]]
    BY <1>2
<1>6. CASE WorkerRecv(w)
    BY <1>6, WorkerRecvInv
<1>7. CASE WorkerExit(w)
    <2>1. /\ wpc[w] = "recv" /\ jobs = <<>> /\ rpc = "exited"
          /\ wpc' = [wpc EXCEPT ![w] = "exited"]
          /\ UNCHANGED <<jobs, done, wjob>>
        BY <1>7 DEF WorkerExit
    <2>2. wjob' = [wjob EXCEPT ![w] = wjob[w]] /\ ~Holding(w)
        BY <1>5, <2>1 DEF Holding
    <2> QED BY <1>1, <1>2, <1>3, <2>1, <2>2, WorkerStep
<1>8. CASE WorkerDecode(w)
    <2>1. /\ wpc[w] = "decode" /\ wjob' = [wjob EXCEPT ![w] = Answer(wjob[w])]
          /\ wpc' = [wpc EXCEPT ![w] = "send"]
          /\ UNCHANGED <<jobs, done>>
        BY <1>8 DEF WorkerDecode
    <2>2. wjob[w].seq \in 1 .. rseq - 1 /\ wjob[w] = Fetch(wjob[w].seq)
        BY <1>2, <2>1 DEF Messages, Holding
    <2>3. /\ Answer(wjob[w]) = Got(wjob[w].seq) /\ Answer(wjob[w]).seq = wjob[w].seq
          /\ Answer(wjob[w]) \in M
        BY <1>2, <2>2, GotKinds DEF StreamInv
    <2> QED BY <1>1, <1>2, <1>3, <2>1, <2>2, <2>3, WorkerStep
<1>9. CASE WorkerDies(w)
    <2>1. /\ wpc[w] = "decode" /\ wjob' = [wjob EXCEPT ![w] = NoMsg]
          /\ wpc' = [wpc EXCEPT ![w] = "dead"]
          /\ UNCHANGED <<jobs, done>>
        BY <1>9 DEF WorkerDies
    <2> QED BY <1>1, <1>2, <1>3, <1>4, <2>1, WorkerStep
<1>10. CASE WorkerSend(w)
    <2>1. /\ wpc[w] = "send" /\ wjob' = [wjob EXCEPT ![w] = NoMsg]
          /\ wpc' = [wpc EXCEPT ![w] = "recv"] /\ done' = Append(done, wjob[w])
          /\ UNCHANGED jobs
        BY <1>10 DEF WorkerSend
    <2>2. wjob[w].seq \in 1 .. rseq - 1 /\ wjob[w] = Got(wjob[w].seq)
        BY <1>2, <2>1 DEF Messages, Holding
    <2>3. done' \in Seq(M) /\ In(done') = In(done) \cup {wjob[w]}
        <3>1. \A m \in M : Append(done, m) \in Seq(M)
            BY <1>2, AppendProperties
        <3>2. \A m \in M : In(Append(done, m)) = In(done) \cup {m}
            BY <1>2, InAppend
        <3> QED BY <1>2, <2>1, <3>1, <3>2
    <2>4. \A m \in In(done') : m.seq \in 1 .. rseq - 1 /\ m = Got(m.seq)
        BY <1>3, <2>2, <2>3
    <2>5. \E m \in In(done') : m.seq = wjob[w].seq
        BY <2>3
    <2>6. In(done) \subseteq In(done') /\ wpc[w] # "dead"
        BY <2>1, <2>3
    <2> QED BY <1>1, <1>4, <2>1, <2>3, <2>4, <2>5, <2>6, WorkerStep
<1>11. CASE WorkerDisconnected(w)
    <2>1. /\ wpc[w] = "send" /\ wjob' = [wjob EXCEPT ![w] = NoMsg] /\ ~receiving
          /\ wpc' = [wpc EXCEPT ![w] = "exited"]
          /\ UNCHANGED <<jobs, done>>
        BY <1>11 DEF WorkerDisconnected
    <2> QED BY <1>1, <1>2, <1>3, <1>4, <2>1, WorkerStep
<1> QED BY <1>6, <1>7, <1>8, <1>9, <1>10, <1>11 DEF WorkerNext

-----------------------------------------------------------------------------
(* What is written. *)

\* A chunk's blocks are the source's, and where two of them go to the same block
\* they are the same.
LEMMA BlocksOf ==
    ASSUME Typed, CaptureInv, NEW i \in Chunks
    PROVE  /\ image[i].len \in Nat /\ origin[i] \in Nat /\ StrideStart(i) = origin[i]
           /\ Captured(i) = origin[i] .. origin[i] + image[i].len - 1
           /\ Captured(i) \subseteq Blocks
<1>1. image[i].len \in Nat /\ origin[i] \in Nat /\ image[i].extent \in Nat
    BY ImageType
<1>2. ChunkInv(i)
    BY DEF CaptureInv
<1>3. PICK l \in Nat, o \in Nat : l = image[i].len /\ o = origin[i]
    BY <1>1
<1>4. {o + k : k \in 0 .. (l - 1)} = o .. o + l - 1
    <2>1. ASSUME NEW p \in o .. o + l - 1 PROVE p \in {o + k : k \in 0 .. (l - 1)}
        <3>1. p - o \in 0 .. (l - 1) /\ o + (p - o) = p
            BY <1>3
        <3> QED BY <3>1
    <2>2. ASSUME NEW k \in 0 .. (l - 1) PROVE o + k \in o .. o + l - 1
        BY <1>3
    <2> QED BY <2>1, <2>2
<1>5. o + l <= VolumeLen
    <2>1. image[i].extent + 1 \in DOMAIN extents /\ o + l <= End(image[i].extent + 1)
        BY <1>1, <1>2, <1>3, ImageType DEF ChunkInv
    <2>2. PICK v : v = End(image[i].extent + 1)
        OBVIOUS
    <2>3. v \in Nat /\ v <= VolumeLen
        BY <2>1, <2>2, ExtentType
    <2> QED BY <1>3, <2>1, <2>2, <2>3, RestoreAssumption
<1>6. o .. o + l - 1 \subseteq Blocks
    BY <1>3, <1>5, RestoreAssumption DEF Blocks
<1> QED BY <1>1, <1>2, <1>3, <1>4, <1>6 DEF Captured, ChunkInv

\* The relocation map sends different source blocks to different places.
LEMMA GoesApart ==
    ASSUME Typed, NEW p \in Blocks, NEW q \in Blocks, Goes(p) = Goes(q)
    PROVE  p = q
<1>1. move \in [Blocks -> Nat] /\ IsInjective(move)
    BY RestoreAssumption DEF Typed
<1> QED BY <1>1 DEF Goes, IsInjective

\* What the first n blocks of a sound chunk leave on the target: where a block of
\* the chunk goes that block, or a garbled byte when nobody compares hashes, and
\* elsewhere what was there.
Garbled == IF verify THEN {} ELSE {Junk}
Part(i, n) == origin[i] .. origin[i] + n - 1
\* What a sound chunk writes: its blocks where they go, and nothing elsewhere.
LEMMA WrittenIs ==
    ASSUME Typed, CaptureInv, phase = "restore", NEW i \in Chunks, Sound(i),
           NEW n \in 0 .. image[i].len
    PROVE  /\ Written(i, n) \in [TargetBlocks -> Int]
           /\ \A b \in TargetBlocks :
                \/ /\ \A p \in Part(i, n) : Goes(p) # b
                   /\ Written(i, n)[b] = target[b]
                \/ \E p \in Part(i, n) : Goes(p) = b /\ Written(i, n)[b] \in {p} \cup Garbled
           /\ Part(i, n) \subseteq Captured(i)
<1>1. /\ image[i].len \in Nat /\ origin[i] \in Nat /\ StrideStart(i) = origin[i]
      /\ Captured(i) = origin[i] .. origin[i] + image[i].len - 1
    BY BlocksOf
<1>2. \A k : Lands(i, k) = Goes(origin[i] + k)
    BY <1>1 DEF Lands
<1>3. \A k : Content(i, k) \in {origin[i] + k} \cup Garbled
    BY GotKinds DEF Content, Garbled, Typed
<1>4. ASSUME NEW k \in 0 .. (n - 1) PROVE origin[i] + k \in Part(i, n)
    BY <1>1 DEF Part
<1>5. ASSUME NEW p \in Part(i, n) PROVE p - origin[i] \in 0 .. (n - 1) /\ p = origin[i] + (p - origin[i])
    BY <1>1 DEF Part
<1>6. ASSUME NEW b \in TargetBlocks
      PROVE  /\ \/ /\ \A p \in Part(i, n) : Goes(p) # b
                   /\ Written(i, n)[b] = target[b]
                \/ \E p \in Part(i, n) : Goes(p) = b /\ Written(i, n)[b] \in {p} \cup Garbled
             /\ Written(i, n)[b] \in Int
    <2> DEFINE hits == {k \in 0 .. (n - 1) : Lands(i, k) = b}
    <2>1. Written(i, n)[b] = IF hits = {} THEN target[b] ELSE Content(i, CHOOSE k \in hits : TRUE)
        BY DEF Written
    <2>2. target[b] \in Int
        BY DEF Typed
    <2>3. CASE hits = {}
        <3>1. ASSUME NEW p \in Part(i, n) PROVE Goes(p) # b
            <4>1. p - origin[i] \notin hits
                BY <2>3
            <4> QED BY <1>2, <1>5, <4>1
        <3> QED BY <2>1, <2>2, <2>3, <3>1
    <2>4. CASE hits # {}
        <3>1. PICK k : k = CHOOSE h \in hits : TRUE
            OBVIOUS
        <3>2. k \in hits
            BY <2>4, <3>1
        <3>3. k \in 0 .. (n - 1) /\ Goes(origin[i] + k) = b
            BY <1>2, <3>2
        <3>4. Written(i, n)[b] = Content(i, k)
            BY <2>1, <2>4, <3>1
        <3>5. Written(i, n)[b] \in {origin[i] + k} \cup Garbled
            BY <1>3, <3>4
        <3>6. Written(i, n)[b] \in Int
            BY <1>1, <3>3, <3>5 DEF Garbled, Junk
        <3> QED BY <1>4, <3>3, <3>5, <3>6
    <2> QED BY <2>3, <2>4
<1>7. Written(i, n) \in [TargetBlocks -> Int]
    <2>1. Written(i, n) = [b \in TargetBlocks |-> Written(i, n)[b]]
        BY DEF Written
    <2> QED BY <1>6, <2>1
<1>8. Part(i, n) \subseteq Captured(i)
    BY <1>1 DEF Part
<1> QED BY <1>6, <1>7, <1>8

\* TargetIsPrefix in the words of the lemmas.
Done == UNION {Captured(i) : i \in 1 .. (next - 1)}
Failing == IF result \in {"disk", "panic"} /\ next <= Total THEN Captured(next) ELSE {}
Faithful(b) ==
    IF \E p \in Done : Goes(p) = b THEN \E p \in Done : Goes(p) = b /\ target[b] \in {p} \cup Garbled
    ELSE \/ target[b] = Old
         \/ \E p \in Failing : Goes(p) = b /\ target[b] \in {p} \cup Garbled
\* The target is a prefix exactly when each of its blocks is faithful.
LEMMA PrefixIs == TargetIsPrefix <=> \A b \in TargetBlocks : Faithful(b)
<1>1. TargetIsPrefix <=>
        \A b \in TargetBlocks :
          LET from == {p \in Done : Goes(p) = b} IN
          IF from # {} THEN target[b] \in from \cup Garbled
          ELSE \/ target[b] = Old
               \/ \E p \in Failing : Goes(p) = b /\ target[b] \in {p} \cup Garbled
    BY DEF TargetIsPrefix, Done, Failing, Garbled
<1>2. ASSUME NEW b \in TargetBlocks
      PROVE  Faithful(b) <=>
          LET from == {p \in Done : Goes(p) = b} IN
          IF from # {} THEN target[b] \in from \cup Garbled
          ELSE \/ target[b] = Old
               \/ \E p \in Failing : Goes(p) = b /\ target[b] \in {p} \cup Garbled
    BY DEF Faithful
<1> QED BY <1>1, <1>2

\* The same of the next state.
LEMMA PrefixNext == TargetIsPrefix' <=> \A b \in TargetBlocks : Faithful(b)'
<1>1. (TargetIsPrefix <=> \A b \in TargetBlocks : Faithful(b))'
    BY PrefixIs, PTL
<1> QED BY <1>1

\* A write of the next chunk, the whole of it or a failing one of some first part,
\* leaves what the chunks before it wrote in its place.
LEMMA WriteOver ==
    ASSUME StreamInv, phase = "restore", next \in Chunks, Sound(next), result = "none",
           NEW n \in 0 .. image[next].len, NEW b \in TargetBlocks
    PROVE  LET w == Written(next, n)[b] IN
           IF \E p \in Done : Goes(p) = b
           THEN \E p \in Done : Goes(p) = b /\ w \in {p} \cup Garbled
           ELSE \/ (\A p \in Part(next, n) : Goes(p) # b) /\ w = Old
                \/ \E p \in Part(next, n) : Goes(p) = b /\ w \in {p} \cup Garbled
<1>1. /\ \/ /\ \A p \in Part(next, n) : Goes(p) # b
            /\ Written(next, n)[b] = target[b]
         \/ \E p \in Part(next, n) : Goes(p) = b /\ Written(next, n)[b] \in {p} \cup Garbled
      /\ Part(next, n) \subseteq Captured(next)
    BY WrittenIs DEF StreamInv
<1>2. Faithful(b)
    BY PrefixIs DEF StreamInv
<1>3. Failing = {}
    BY DEF Failing
<1>4. Done \subseteq Blocks /\ Captured(next) \subseteq Blocks
    <2>1. ASSUME NEW i \in 1 .. next - 1 PROVE i \in Chunks
        BY ImageType DEF StreamInv
    <2>2. \A i \in Chunks : Captured(i) \subseteq Blocks
        BY BlocksOf DEF StreamInv
    <2> QED BY <2>1, <2>2 DEF Done
<1>5. CASE \E p \in Done : Goes(p) = b
    <2>1. CASE Written(next, n)[b] = target[b]
        BY <1>2, <1>5, <2>1 DEF Faithful
    <2>2. CASE \E q \in Part(next, n) : Goes(q) = b /\ Written(next, n)[b] \in {q} \cup Garbled
        <3>1. PICK p \in Done : Goes(p) = b
            BY <1>5
        <3>2. PICK q \in Part(next, n) : Goes(q) = b /\ Written(next, n)[b] \in {q} \cup Garbled
            BY <2>2
        <3>3. p = q
            BY <1>1, <1>4, <3>1, <3>2, GoesApart DEF StreamInv
        <3> QED BY <1>5, <3>1, <3>2, <3>3
    <2> QED BY <1>1, <2>1, <2>2
<1>6. CASE ~ \E p \in Done : Goes(p) = b
    BY <1>1, <1>2, <1>3, <1>6 DEF Faithful
<1> QED BY <1>5, <1>6

\* After the closure wrote the next chunk the target holds one chunk more.
LEMMA WriteOk ==
    ASSUME StreamInv, phase = "restore", next \in Chunks, Sound(next), result = "none",
           target' = Written(next, image[next].len), next' = next + 1,
           UNCHANGED <<phase, extents, at, image, origin, quality, verify, move, result>>
    PROVE  target' \in [TargetBlocks -> Int] /\ TargetIsPrefix'
<1> DEFINE l == image[next].len
<1>1. /\ \A i : Captured(i)' = Captured(i)
      /\ \A p : Goes(p)' = Goes(p)
    BY RestoreFrame
<1>2. l \in 0 .. l /\ Part(next, l) = Captured(next)
    BY BlocksOf DEF StreamInv, Part
<1>3. Done' = Done \cup Captured(next)
    <2>1. PICK n \in Nat : n = next /\ n >= 1
        BY ImageType DEF StreamInv
    <2>2. 1 .. n + 1 - 1 = (1 .. n - 1) \cup {n}
        BY <2>1
    <2>3. Done' = UNION {Captured(i) : i \in 1 .. (n + 1 - 1)} /\ Done = UNION {Captured(i) : i \in 1 .. n - 1}
        BY <1>1, <2>1 DEF Done
    <2> QED BY <2>1, <2>2, <2>3
<1>4. Garbled' = Garbled
    BY DEF Garbled
<1>5. target' \in [TargetBlocks -> Int]
    BY <1>2, WrittenIs DEF StreamInv
<1>6. ASSUME NEW b \in TargetBlocks PROVE Faithful(b)'
    <2>1. /\ target'[b] = Written(next, l)[b]
          /\ \/ \E p \in Done : Goes(p) = b /\ target'[b] \in {p} \cup Garbled
             \/ \E p \in Captured(next) : Goes(p) = b /\ target'[b] \in {p} \cup Garbled
             \/ (\A p \in Done \cup Captured(next) : Goes(p) # b) /\ target'[b] = Old
        BY <1>2, WriteOver
    <2>2. \/ \E p \in Done' : Goes(p)' = b /\ target'[b] \in {p} \cup Garbled'
          \/ (\A p \in Done' : Goes(p)' # b) /\ target'[b] = Old
        BY <1>1, <1>3, <1>4, <2>1
    <2> QED BY <2>2 DEF Faithful
<1> QED BY <1>5, <1>6, PrefixNext

\* After a failing write part of the next chunk may be there.
LEMMA WriteFailed ==
    ASSUME StreamInv, phase = "restore", next \in Chunks, Sound(next), result = "none",
           NEW n \in 0 .. image[next].len - 1, target' = Written(next, n), result' = "disk",
           phase' \in {"restore", "returned"},
           UNCHANGED <<extents, at, image, origin, quality, verify, move, next>>
    PROVE  target' \in [TargetBlocks -> Int] /\ TargetIsPrefix'
<1>1. /\ \A i : Captured(i)' = Captured(i)
      /\ \A p : Goes(p)' = Goes(p)
      /\ Total' = Total
    BY RestoreFrame
<1>2. n \in 0 .. image[next].len
    BY BlocksOf DEF StreamInv
<1>3. Part(next, n) \subseteq Captured(next) /\ target' \in [TargetBlocks -> Int]
    BY <1>2, WrittenIs DEF StreamInv
<1>4. Done' = Done /\ Garbled' = Garbled /\ Failing' = Captured(next)
    <2>1. next <= Total
        BY ImageType DEF StreamInv
    <2> QED BY <1>1, <2>1 DEF Done, Garbled, Failing
<1>6. ASSUME NEW b \in TargetBlocks PROVE Faithful(b)'
    <2>1. /\ target'[b] = Written(next, n)[b]
          /\ IF \E p \in Done : Goes(p) = b
             THEN \E p \in Done : Goes(p) = b /\ target'[b] \in {p} \cup Garbled
             ELSE \/ target'[b] = Old
                  \/ \E p \in Captured(next) : Goes(p) = b /\ target'[b] \in {p} \cup Garbled
        BY <1>2, <1>3, WriteOver
    <2> QED BY <1>1, <1>4, <2>1 DEF Faithful
<1> QED BY <1>3, <1>6, PrefixNext

-----------------------------------------------------------------------------
(* The consumer and the end of a restore. *)

\* A step of the consumer leaves the capture, the reader and the workers alone.
LEMMA ConsumerFrame ==
    ASSUME StreamInv, phase = "restore", phase' \in {"restore", "returned"},
           UNCHANGED <<consumerFrame, workerVars>>
    PROVE  /\ UNCHANGED <<extents, at, image, origin, quality, verify, move, cancelled, rpc, rseq,
                          jobs, wpc, wjob>>
           /\ CaptureInv' /\ Total' = Total /\ Chunks' = Chunks /\ (Parallel' <=> Parallel)
           /\ Total \in Nat /\ Chunks = 1 .. Total /\ next \in 1 .. Total + 1
           /\ \A i : /\ Fetch(i)' = Fetch(i) /\ Got(i)' = Got(i) /\ (Sound(i)' <=> Sound(i))
           /\ Dead' <=> Dead
           /\ \A w \in Workers : Holding(w)' <=> Holding(w)
<1>1. UNCHANGED <<extents, at, image, origin, quality, verify, move, cancelled, rpc, rseq, jobs, wpc,
                  wjob>>
    BY DEF consumerFrame, captureVars, settingVars, readerVars, workerVars
<1>2. /\ CaptureInv' /\ Total' = Total /\ Chunks' = Chunks /\ (Parallel' <=> Parallel)
      /\ \A i : /\ Fetch(i)' = Fetch(i) /\ Got(i)' = Got(i) /\ (Sound(i)' <=> Sound(i))
    BY <1>1, RestoreFrame
<1>3. Total \in Nat /\ Chunks = 1 .. Total
    BY ImageType DEF StreamInv
<1>4. next \in 1 .. Total + 1
    BY DEF StreamInv, Typed
<1>5. (Dead' <=> Dead) /\ \A w \in Workers : Holding(w)' <=> Holding(w)
    BY <1>1 DEF Dead, Holding
<1> QED BY <1>1, <1>2, <1>3, <1>4, <1>5

\* When the consumer stops listening, or nothing was ever sent, only the messages
\* are left to account for.
LEMMA GiveUp ==
    ASSUME StreamInv, Running, phase' \in {"restore", "returned"}, receiving' = FALSE,
           UNCHANGED <<consumerFrame, workerVars>>, next' = next, pending' \subseteq pending,
           done' \in Seq([kind : Kinds, seq : Nat]), In(done') \subseteq In(done),
           result' \in {"none", "ok", "ended", "disk", "cancelled", "panic"} \cup Failures,
           target' \in [TargetBlocks -> Int], TargetIsPrefix',
           Settled'
    PROVE  StreamInv'
<1>1. phase = "restore" /\ Parallel
    BY DEF Running
<1>2. /\ UNCHANGED <<extents, at, image, origin, quality, verify, move, cancelled, rpc, rseq, jobs,
                     wpc, wjob>>
      /\ CaptureInv' /\ Total' = Total /\ Chunks' = Chunks /\ (Parallel' <=> Parallel)
      /\ \A i : /\ Fetch(i)' = Fetch(i) /\ Got(i)' = Got(i) /\ (Sound(i)' <=> Sound(i))
      /\ \A w \in Workers : Holding(w)' <=> Holding(w)
    BY <1>1, ConsumerFrame
<1>3. Typed'
    BY <1>1, <1>2 DEF StreamInv, Typed
<1>4. Messages'
    <2>1. \A m \in In(done') : m.seq \in 1 .. rseq - 1 /\ m = Got(m.seq)'
        BY <1>2 DEF StreamInv, PipeInv, Messages
    <2>2. \A m \in In(jobs) : m.seq \in 1 .. rseq - 1 /\ m = Fetch(m.seq)'
        BY <1>2 DEF StreamInv, PipeInv, Messages
    <2>3. ASSUME NEW w \in Workers, Holding(w)'
          PROVE  /\ wjob'[w].seq \in 1 .. rseq - 1
                 /\ wpc'[w] = "decode" => wjob'[w] = Fetch(wjob[w].seq)'
                 /\ wpc'[w] = "send" => wjob'[w] = Got(wjob[w].seq)'
        BY <1>2, <2>3 DEF StreamInv, PipeInv, Messages
    <2>4. \A i \in pending' \cup (1 .. next - 1) : Sound(i)'
        BY <1>2 DEF StreamInv, PipeInv, Messages
    <2> QED BY <1>2, <2>1, <2>2, <2>3, <2>4 DEF Messages, In
<1>5. Idle' /\ Unbegun' /\ Conserved'
    BY <1>1, <1>2 DEF Idle, Unbegun, Conserved
<1>6. Orderly'
    BY <1>1, <1>2 DEF StreamInv, PipeInv, Orderly, Running
<1> QED BY <1>2, <1>3, <1>4, <1>5, <1>6 DEF StreamInv, PipeInv

\* The consumer takes the oldest result: a chunk to be kept, or the error that ends
\* the restore.
LEMMA ConsumerRecvInv ==
    ASSUME StreamInv, ConsumerRecv
    PROVE  StreamInv'
<1> DEFINE M == [kind : Kinds, seq : Nat]
           m == Head(done)
<1>1. /\ Running /\ receiving /\ done # <<>> /\ done' = Tail(done) /\ phase = "restore" /\ Parallel
      /\ UNCHANGED <<phase, consumerFrame, workerVars, next, target>>
      /\ IF m.kind = "data"
         THEN pending' = pending \cup {m.seq} /\ UNCHANGED <<receiving, result>>
         ELSE receiving' = FALSE /\ result' = m.kind /\ UNCHANGED pending
    BY DEF ConsumerRecv, Running
<1>2. /\ UNCHANGED <<extents, at, image, origin, quality, verify, move, cancelled, rpc, rseq, jobs,
                     wpc, wjob>>
      /\ CaptureInv' /\ Total' = Total /\ Chunks' = Chunks /\ (Parallel' <=> Parallel)
      /\ \A i : /\ Fetch(i)' = Fetch(i) /\ Got(i)' = Got(i) /\ (Sound(i)' <=> Sound(i))
      /\ (Dead' <=> Dead) /\ \A w \in Workers : Holding(w)' <=> Holding(w)
    BY <1>1, ConsumerFrame
<1>3. /\ Messages /\ Conserved /\ Orderly /\ done \in Seq(M) /\ pending \subseteq Chunks
      /\ \A i \in 1 .. rseq - 1 : i \in Chunks
    BY <1>1, ThreadParts
<1>4. In(done) = In(done') \cup {m} /\ m \in M /\ done' \in Seq(M)
    BY <1>1, <1>3, InTail
<1>5. m.seq \in 1 .. rseq - 1 /\ m = Got(m.seq) /\ m.seq \in Chunks
    BY <1>3, <1>4 DEF Messages
<1>6. /\ m.kind \in Failures \cup {"data"}
      /\ m.kind \in Failures => quality[m.seq] = Damage[m.kind]
    BY <1>1, <1>5, GotKinds DEF StreamInv
<1>7. result = "none"
    BY <1>1 DEF StreamInv, PipeInv, Settled
<1> HIDE DEF m
<1>8. CASE m.kind = "data"
    <2>1. pending' = pending \cup {m.seq} /\ UNCHANGED <<phase, receiving, result, next, target>>
        BY <1>1, <1>8
    <2>2. Sound(m.seq)
        BY <1>5, <1>8 DEF Sound
    <2>3. Typed'
        BY <1>2, <1>4, <1>5, <2>1 DEF StreamInv, Typed
    <2>4. TargetIsPrefix'
        BY <1>1, <1>2, <2>1, TargetFrame
    <2>5. Messages'
        <3>1. \A x \in In(done') : x.seq \in 1 .. rseq - 1 /\ x = Got(x.seq)'
            BY <1>2, <1>3, <1>4 DEF Messages
        <3>2. \A x \in In(jobs) : x.seq \in 1 .. rseq - 1 /\ x = Fetch(x.seq)'
            BY <1>2, <1>3 DEF Messages
        <3>3. ASSUME NEW w \in Workers, Holding(w)'
              PROVE  /\ wjob'[w].seq \in 1 .. rseq - 1
                     /\ wpc'[w] = "decode" => wjob'[w] = Fetch(wjob[w].seq)'
                     /\ wpc'[w] = "send" => wjob'[w] = Got(wjob[w].seq)'
            BY <1>2, <1>3, <3>3 DEF Messages
        <3>4. \A i \in pending' \cup (1 .. next - 1) : Sound(i)'
            BY <1>2, <1>3, <2>1, <2>2 DEF Messages
        <3> QED BY <1>2, <2>1, <3>1, <3>2, <3>3, <3>4 DEF Messages, In
    <2>6. Conserved'
        <3> SUFFICES ASSUME ~Dead, NEW i \in 1 .. rseq - 1 PROVE Somewhere(i)'
            BY <1>2 DEF Conserved
        <3>1. Somewhere(i)
            BY <1>1, <1>3 DEF Conserved
        <3>2. CASE i = m.seq
            BY <2>1, <3>2 DEF Somewhere
        <3>3. CASE i # m.seq /\ \E x \in In(jobs) \cup In(done) : x.seq = i
            <4>1. \E x \in In(jobs) \cup In(done') : x.seq = i
                BY <1>4, <3>3
            <4> QED BY <1>2, <4>1 DEF Somewhere, In
        <3>4. CASE i < next \/ i \in pending \/ \E w \in Workers : Holding(w) /\ wjob[w].seq = i
            BY <1>2, <2>1, <3>4 DEF Somewhere
        <3> QED BY <3>1, <3>2, <3>3, <3>4 DEF Somewhere
    <2>7. Orderly'
        BY <1>2, <1>3, <2>1 DEF Orderly, Running
    <2>8. Idle' /\ Unbegun' /\ Settled'
        <3>1. Settled
            BY DEF StreamInv, PipeInv
        <3> QED BY <1>1, <1>2, <2>1, <3>1 DEF Idle, Unbegun, Settled
    <2> QED BY <1>2, <2>3, <2>4, <2>5, <2>6, <2>7, <2>8 DEF StreamInv, PipeInv
<1>9. CASE m.kind # "data"
    <2>1. /\ receiving' = FALSE /\ result' = m.kind /\ pending' = pending /\ m.kind \in Failures
          /\ phase' = phase /\ next' = next /\ target' = target
        BY <1>1, <1>6, <1>9
    <2>2. TargetIsPrefix'
        BY <1>1, <1>2, <1>7, <2>1, TargetFrame
    <2>3. Settled'
        BY <1>1, <1>2, <1>5, <1>6, <2>1 DEF Settled, Failures
    <2>4. target' \in [TargetBlocks -> Int]
        BY <2>1 DEF StreamInv, Typed
    <2> QED BY <1>1, <1>4, <2>1, <2>2, <2>3, <2>4, GiveUp
<1> QED BY <1>8, <1>9

\* The closure writes the next chunk as soon as it is there.
LEMMA ConsumerWriteInv ==
    ASSUME StreamInv, ConsumerWrite
    PROVE  StreamInv'
<1>1. /\ Running /\ receiving /\ next \in pending /\ phase = "restore" /\ Parallel
      /\ target' = Written(next, image[next].len) /\ next' = next + 1
      /\ pending' = pending \ {next}
      /\ UNCHANGED <<phase, done, receiving, result>>
      /\ UNCHANGED <<consumerFrame, workerVars>>
    BY DEF ConsumerWrite, OnChunkOk, Running
<1>2. /\ UNCHANGED <<extents, at, image, origin, quality, verify, move, cancelled, rpc, rseq, jobs,
                     wpc, wjob>>
      /\ CaptureInv' /\ Total' = Total /\ Chunks' = Chunks /\ (Parallel' <=> Parallel)
      /\ Total \in Nat /\ Chunks = 1 .. Total /\ next \in 1 .. Total + 1
      /\ \A i : /\ Fetch(i)' = Fetch(i) /\ Got(i)' = Got(i) /\ (Sound(i)' <=> Sound(i))
      /\ (Dead' <=> Dead) /\ \A w \in Workers : Holding(w)' <=> Holding(w)
    BY <1>1, ConsumerFrame
<1>3. /\ Messages /\ Conserved /\ Orderly /\ pending \subseteq Chunks /\ rseq \in 1 .. Total + 1
    BY <1>1, ThreadParts
<1>4. next \in Chunks /\ Sound(next) /\ result = "none"
    BY <1>1, <1>3 DEF Messages, StreamInv, PipeInv, Settled
<1>5. target' \in [TargetBlocks -> Int] /\ TargetIsPrefix'
    BY <1>1, <1>2, <1>4, WriteOk
<1>6. next' \in 1 .. Total + 1
    BY <1>1, <1>2, <1>4
<1>7. Typed'
    BY <1>1, <1>2, <1>5, <1>6 DEF StreamInv, Typed
<1>8. Messages'
    <2>1. \A i \in pending' \cup (1 .. next' - 1) : Sound(i)'
        <3>1. \A i \in 1 .. next' - 1 : i = next \/ i \in 1 .. next - 1
            BY <1>1, <1>2
        <3> QED BY <1>1, <1>2, <1>3, <1>4, <3>1 DEF Messages
    <2>2. ASSUME NEW w \in Workers, Holding(w)'
          PROVE  /\ wjob'[w].seq \in 1 .. rseq - 1
                 /\ wpc'[w] = "decode" => wjob'[w] = Fetch(wjob[w].seq)'
                 /\ wpc'[w] = "send" => wjob'[w] = Got(wjob[w].seq)'
        BY <1>2, <1>3, <2>2 DEF Messages
    <2>3. \A m \in In(jobs) : m.seq \in 1 .. rseq - 1 /\ m = Fetch(m.seq)'
        BY <1>2, <1>3 DEF Messages
    <2>4. \A m \in In(done) : m.seq \in 1 .. rseq - 1 /\ m = Got(m.seq)'
        BY <1>2, <1>3 DEF Messages
    <2> QED BY <1>1, <1>2, <2>1, <2>2, <2>3, <2>4 DEF Messages, In
<1>9. Conserved'
    <2> SUFFICES ASSUME ~Dead, NEW i \in 1 .. rseq - 1 PROVE Somewhere(i)'
        BY <1>2 DEF Conserved
    <2>1. Somewhere(i)
        BY <1>1, <1>3 DEF Conserved
    <2>2. i < next \/ i = next => i < next'
        BY <1>1, <1>2, <1>3
    <2>3. CASE i < next \/ i = next
        BY <2>2, <2>3 DEF Somewhere
    <2>4. CASE i # next /\ i \in pending
        BY <1>1, <2>4 DEF Somewhere
    <2>5. CASE (\E m \in In(jobs) \cup In(done) : m.seq = i)
                \/ \E w \in Workers : Holding(w) /\ wjob[w].seq = i
        BY <1>1, <1>2, <2>5 DEF Somewhere, In
    <2> QED BY <2>1, <2>3, <2>4, <2>5 DEF Somewhere
<1>10. Orderly'
    BY <1>1, <1>2, <1>3 DEF Orderly, Running
<1>11. Idle' /\ Unbegun' /\ Settled'
    BY <1>1, <1>2, <1>4 DEF Idle, Unbegun, Settled, Failures
<1> QED BY <1>2, <1>5, <1>7, <1>8, <1>9, <1>10, <1>11 DEF StreamInv, PipeInv

\* The closure refuses a cancelled restore before it writes; a failing write leaves
\* some first part of its chunk.
LEMMA ConsumerFailInv ==
    ASSUME StreamInv, ConsumerFail
    PROVE  StreamInv'
<1>1. /\ Running /\ receiving /\ next \in pending /\ phase = "restore" /\ phase' = "restore"
      /\ pending' = pending \ {next} /\ receiving' = FALSE
      /\ UNCHANGED <<done, next>> /\ UNCHANGED <<consumerFrame, workerVars>>
      /\ \/ result' = "cancelled" /\ target' = target
         \/ result' = "disk" /\ \E n \in 0 .. (image[next].len - 1) : target' = Written(next, n)
    BY DEF ConsumerFail, OnChunkError, Running
<1>2. /\ UNCHANGED <<extents, at, image, origin, quality, verify, move>>
      /\ \A i : Got(i)' = Got(i)
    BY <1>1, ConsumerFrame
<1>3. /\ Messages /\ pending \subseteq Chunks /\ done \in Seq([kind : Kinds, seq : Nat])
    BY <1>1, ThreadParts
<1>4. next \in Chunks /\ Sound(next) /\ result = "none"
    BY <1>1, <1>3 DEF Messages, StreamInv, PipeInv, Settled
<1>5. target' \in [TargetBlocks -> Int] /\ TargetIsPrefix'
    <2>1. CASE result' = "cancelled" /\ target' = target
        <3>1. TargetIsPrefix'
            BY <1>1, <1>2, <1>4, <2>1, TargetFrame
        <3> QED BY <2>1, <3>1 DEF StreamInv, Typed
    <2>2. CASE result' = "disk" /\ \E n \in 0 .. (image[next].len - 1) : target' = Written(next, n)
        BY <1>1, <1>2, <1>4, <2>2, WriteFailed
    <2> QED BY <1>1, <2>1, <2>2
<1>6. Settled'
    BY <1>1 DEF Settled, Failures
<1> QED BY <1>1, <1>3, <1>5, <1>6, GiveUp

\* The consumer's loop ends after the last chunk; it ends before only when a worker
\* died, since every chunk the reader sent is otherwise still somewhere.
LEMMA ConsumerEndInv ==
    ASSUME StreamInv, ConsumerEnd
    PROVE  StreamInv'
<1>1. /\ Running /\ receiving /\ receiving' = FALSE /\ phase = "restore" /\ phase' = "restore"
      /\ \/ next > Total /\ result' = "ok"
         \/ /\ next <= Total /\ next \notin pending /\ done = <<>>
            /\ \A w \in Workers : wpc[w] \in Gone
            /\ result' = "ended"
      /\ UNCHANGED <<done, pending, next, target>> /\ UNCHANGED <<consumerFrame, workerVars>>
    BY DEF ConsumerEnd, Running
<1>2. /\ UNCHANGED <<extents, at, image, origin, quality, verify, move>>
      /\ Total' = Total /\ Total \in Nat /\ next \in 1 .. Total + 1 /\ (Dead' <=> Dead)
    BY <1>1, ConsumerFrame
<1>3. /\ Messages /\ Conserved /\ Orderly /\ pending \subseteq Chunks /\ rseq \in 1 .. Total + 1
      /\ done \in Seq([kind : Kinds, seq : Nat]) /\ \A i \in 1 .. rseq - 1 : i \in Chunks
    BY <1>1, ThreadParts
<1>4. result = "none"
    BY <1>1 DEF StreamInv, PipeInv, Settled
<1>5. result' = "ended" => Dead
    <2> SUFFICES ASSUME result' = "ended", ~Dead PROVE FALSE
        OBVIOUS
    <2>1. /\ next <= Total /\ next \notin pending /\ done = <<>>
          /\ \A w \in Workers : wpc[w] = "exited"
        BY <1>1 DEF Gone, Dead
    <2>2. Workers # {}
        <3>1. Cardinality(Workers) > 1
            BY <1>1 DEF Running, Parallel
        <3>2. Cardinality({}) = 0
            BY FS_EmptySet
        <3> QED BY <3>1, <3>2
    <2>3. rpc = "exited" /\ jobs = <<>>
        BY <1>1, <1>3, <2>1, <2>2 DEF Orderly
    <2>4. In(jobs) \cup In(done) = {} /\ \A w \in Workers : ~Holding(w)
        BY <2>1, <2>3, InNone DEF Holding
    <2>5. ASSUME NEW i \in 1 .. rseq - 1 PROVE i < next \/ i \in pending
        <3>1. Somewhere(i)
            BY <1>1, <1>3 DEF Conserved
        <3> QED BY <2>4, <3>1 DEF Somewhere
    <2>6. CASE rseq = Total + 1
        <3>1. next \in 1 .. rseq - 1
            BY <1>2, <2>1, <2>6
        <3> QED BY <1>2, <2>1, <2>5, <3>1
    <2>7. CASE rseq > 1 /\ Fetch(rseq - 1).kind = "io"
        <3>1. PICK r \in 1 .. rseq - 1 : r = rseq - 1
            BY <1>2, <1>3, <2>7
        <3>2. ~Sound(r)
            BY <1>1, <1>3, <2>7, <3>1, GotKinds DEF StreamInv
        <3>3. r \in pending \cup (1 .. next - 1)
            BY <1>2, <2>5, <3>1
        <3> QED BY <1>3, <3>2, <3>3 DEF Messages
    <2> QED BY <1>1, <1>3, <2>3, <2>6, <2>7 DEF Orderly
<1>6. Settled'
    BY <1>1, <1>2, <1>5 DEF Settled, Failures
<1>7. TargetIsPrefix'
    BY <1>1, <1>2, <1>4, TargetFrame
<1>8. target' \in [TargetBlocks -> Int]
    BY <1>1 DEF StreamInv, Typed
<1> QED BY <1>1, <1>3, <1>6, <1>7, <1>8, GiveUp

\* When every thread is joined a restore whose loop just ended is one that
\* panicked.
LEMMA JoinScopeInv ==
    ASSUME StreamInv, JoinScope
    PROVE  StreamInv'
<1>1. /\ Running /\ ~receiving /\ phase = "restore" /\ phase' = "returned"
      /\ result' = IF Dead THEN "panic" ELSE result
      /\ UNCHANGED <<done, pending, next, receiving, target>>
      /\ UNCHANGED <<consumerFrame, workerVars>>
    BY DEF JoinScope, Running, Dead
<1>2. /\ UNCHANGED <<extents, at, image, origin, quality, verify, move>>
      /\ Total' = Total /\ Chunks' = Chunks /\ (Dead' <=> Dead)
    BY <1>1, ConsumerFrame
<1>3. done \in Seq([kind : Kinds, seq : Nat]) /\ receiving \in BOOLEAN
    BY <1>1, ThreadParts
<1>4. Settled'
    BY <1>1, <1>2 DEF StreamInv, PipeInv, Settled, Failures
<1>5. TargetIsPrefix'
    BY <1>1, <1>2, TargetFrame
<1>6. /\ target' \in [TargetBlocks -> Int]
      /\ result' \in {"none", "ok", "ended", "disk", "cancelled", "panic"} \cup Failures
    BY <1>1 DEF StreamInv, Typed
<1> QED BY <1>1, <1>3, <1>4, <1>5, <1>6, GiveUp

\* Without threads the closure is called on one chunk after the other, and an
\* answer ends the restore.
LEMMA SerialInv ==
    ASSUME StreamInv, SerialChunk \/ SerialFail \/ SerialEnd
    PROVE  StreamInv'
<1>1. /\ phase = "restore" /\ ~Parallel /\ phase' \in {"restore", "returned"}
      /\ UNCHANGED <<done, pending, receiving>> /\ UNCHANGED <<consumerFrame, workerVars>>
    BY DEF SerialChunk, SerialFail, SerialEnd, SerialRuns
<1>2. /\ UNCHANGED <<extents, at, image, origin, quality, verify, move, cancelled, rpc, rseq, jobs,
                     wpc, wjob>>
      /\ CaptureInv' /\ Total' = Total /\ Chunks' = Chunks /\ (Parallel' <=> Parallel)
      /\ Total \in Nat /\ Chunks = 1 .. Total /\ next \in 1 .. Total + 1
      /\ \A i : /\ Fetch(i)' = Fetch(i) /\ Got(i)' = Got(i) /\ (Sound(i)' <=> Sound(i))
    BY <1>1, ConsumerFrame
<1>3. /\ rpc = "read" /\ rseq = 1 /\ jobs = <<>> /\ done = <<>> /\ pending = {}
      /\ \A w \in Workers : wpc[w] = "recv"
      /\ receiving /\ result = "none" /\ Messages
    BY <1>1 DEF StreamInv, PipeInv, Idle
<1>4. In(jobs)' = {} /\ In(done)' = {}
    BY <1>1, <1>2, <1>3 DEF In
<1>5. Conserved' /\ Orderly' /\ Unbegun'
    BY <1>1, <1>2, <1>3 DEF Conserved, Orderly, Running, Unbegun
<1>6. CASE SerialChunk
    <2>1. /\ next <= Total /\ Sound(next) /\ target' = Written(next, image[next].len)
          /\ next' = next + 1 /\ result' = result /\ phase' = phase
        BY <1>6 DEF SerialChunk, OnChunkOk, Sound, Got
    <2>2. next \in Chunks /\ next' \in 1 .. Total + 1
        BY <1>2, <2>1
    <2>3. target' \in [TargetBlocks -> Int] /\ TargetIsPrefix'
        BY <1>1, <1>2, <1>3, <2>1, <2>2, WriteOk
    <2>4. Typed'
        BY <1>1, <1>2, <2>1, <2>2, <2>3 DEF StreamInv, Typed
    <2>5. \A i \in 1 .. next' - 1 : Sound(i)'
        <3>1. \A i \in 1 .. next' - 1 : i = next \/ i \in 1 .. next - 1
            BY <1>2, <2>1
        <3> QED BY <1>2, <1>3, <2>1, <3>1 DEF Messages
    <2>6. Messages'
        BY <1>1, <1>2, <1>3, <1>4, <2>5 DEF Messages, Holding
    <2>7. Idle' /\ Settled'
        BY <1>1, <1>2, <1>3, <2>1 DEF Idle, Settled, Failures
    <2> QED BY <1>2, <1>5, <2>3, <2>4, <2>6, <2>7 DEF StreamInv, PipeInv
<1>7. CASE SerialFail \/ SerialEnd
    <2>1. next' = next /\ phase' = "returned"
        BY <1>7 DEF SerialFail, SerialEnd
    <2>2. \/ next > Total /\ result' = "ok" /\ target' = target
          \/ next <= Total /\ result' = "cancelled" /\ target' = target
          \/ next <= Total /\ result' = Got(next).kind /\ ~Sound(next) /\ target' = target
          \/ /\ next <= Total /\ result' = "disk" /\ Sound(next)
             /\ \E n \in 0 .. (image[next].len - 1) : target' = Written(next, n)
        BY <1>7 DEF SerialFail, SerialEnd, OnChunkError, Sound, Got
    <2>3. next <= Total => /\ next \in Chunks /\ Got(next).kind \in Failures \cup {"data"}
                           /\ Got(next).kind \in Failures => quality[next] = Damage[Got(next).kind]
        <3> SUFFICES ASSUME next <= Total
                     PROVE  /\ next \in Chunks /\ Got(next).kind \in Failures \cup {"data"}
                            /\ Got(next).kind \in Failures => quality[next] = Damage[Got(next).kind]
            OBVIOUS
        <3>1. next \in Chunks
            BY <1>2
        <3> QED BY <1>1, <3>1, GotKinds DEF StreamInv
    <2>4. result' \in {"ok", "cancelled", "disk"} \cup Failures
        BY <2>2, <2>3 DEF Sound
    <2>5. Settled'
        <3>1. result' \in Failures => \E i \in Chunks : quality[i] = Damage[result']
            BY <2>2, <2>3 DEF Failures
        <3>2. result' = "ok" => next' = Total + 1
            BY <1>2, <2>1, <2>2, <2>3 DEF Failures, Sound
        <3> QED BY <1>2, <2>1, <2>4, <3>1, <3>2 DEF Settled, Failures
    <2>6. target' \in [TargetBlocks -> Int] /\ TargetIsPrefix'
        <3>1. CASE target' = target
            <4>1. TargetIsPrefix'
                BY <1>1, <1>2, <1>3, <2>1, <3>1, TargetFrame
            <4> QED BY <3>1, <4>1 DEF StreamInv, Typed
        <3>2. CASE /\ next <= Total /\ result' = "disk" /\ Sound(next)
                   /\ \E n \in 0 .. (image[next].len - 1) : target' = Written(next, n)
            BY <1>1, <1>2, <1>3, <2>1, <2>3, <3>2, WriteFailed
        <3> QED BY <2>2, <3>1, <3>2
    <2>7. Typed'
        BY <1>1, <1>2, <2>1, <2>4, <2>6 DEF StreamInv, Typed
    <2>8. Messages'
        BY <1>1, <1>2, <1>3, <1>4, <2>1 DEF Messages, Holding
    <2>9. Idle'
        BY <2>1 DEF Idle
    <2> QED BY <1>2, <1>5, <2>5, <2>6, <2>7, <2>8, <2>9 DEF StreamInv, PipeInv
<1> QED BY <1>6, <1>7

\* Setting the flag changes nothing else, and a step that changes nothing nothing.
LEMMA CancelInv ==
    ASSUME StreamInv, Cancel \/ UNCHANGED vars
    PROVE  StreamInv'
<1>1. /\ UNCHANGED <<phase, extents, at, image, origin, quality, verify, move, rpc, rseq, jobs, done,
                     wpc, wjob, pending, next, receiving, result, target>>
      /\ cancelled' \in BOOLEAN
    BY DEF Cancel, vars, captureVars, settingVars, readerVars, workerVars, consumerVars, StreamInv,
           Typed
<1>2. Typed'
    BY <1>1 DEF StreamInv, Typed, Chunks, Total
<1>3. CaptureInv'
    <2>2. AtInv'
        BY <1>1 DEF StreamInv, CaptureInv, AtInv, Extent, ChunkNo
    <2>3. CoveredInv'
        BY <1>1 DEF StreamInv, CaptureInv, CoveredInv, Behind, End, Captured, Chunks, Total
    <2>4. \A k \in Chunks : ChunkInv(k)'
        BY <1>1 DEF StreamInv, CaptureInv, ChunkInv, StrideStart, End
    <2> QED BY <1>1, <2>2, <2>3, <2>4 DEF CaptureInv, Chunks, Total
<1>4. PipeInv'
    BY <1>1 DEF StreamInv, PipeInv, Idle, Unbegun, Messages, Conserved, Orderly, Settled, Parallel,
        Running, Total, Chunks, In, Holding, Fetch, Got, Sound, Answer, Decode, Somewhere, Dead
<1>5. TargetIsPrefix'
    BY <1>1 DEF StreamInv, TargetIsPrefix, Captured, Goes, Total
<1> QED BY <1>2, <1>3, <1>4, <1>5 DEF StreamInv

-----------------------------------------------------------------------------
(* The theorems. *)

\* When a source read returns all it is asked for, the invariant holds of capture,
\* storage and restore, whatever is damaged, cancelled, refused by the disk or
\* killed by a panic on the way.
THEOREM StreamInvariant ==
    ASSUME ShortReads = FALSE
    PROVE  Spec => []StreamInv
<1>1. StreamInv /\ [Next]_vars => StreamInv'
    <2> SUFFICES ASSUME StreamInv, [Next]_vars PROVE StreamInv'
        OBVIOUS
    <2>1. CASE CaptureNext
        BY <2>1, CaptureChunkInv, CaptureOtherInv, StartInv DEF CaptureNext
    <2>2. CASE ReaderNext
        BY <2>2, ReaderSendInv, ReaderDisconnectedInv DEF ReaderNext
    <2>3. CASE ConsumerNext
        BY <2>3, ConsumerRecvInv, ConsumerWriteInv, ConsumerFailInv, ConsumerEndInv, JoinScopeInv,
           SerialInv DEF ConsumerNext
    <2>4. CASE \E w \in Workers : WorkerNext(w)
        BY <2>4, WorkerInv
    <2>5. CASE Cancel \/ UNCHANGED vars
        BY <2>5, CancelInv
    <2> QED BY <2>1, <2>2, <2>3, <2>4, <2>5 DEF Next, Terminated
<1> QED BY <1>1, InitInv, PTL DEF Spec

\* TargetIsPrefix: at every moment the target holds exactly the chunks written so
\* far over its old content, however the reader, the workers and the consumer
\* interleave (process_chunks_parallel, restore_raw).
THEOREM TargetTheorem ==
    ASSUME ShortReads = FALSE
    PROVE  Spec => []TargetIsPrefix
<1>1. StreamInv => TargetIsPrefix
    BY DEF StreamInv
<1> QED BY <1>1, StreamInvariant, PTL

\* RestoredFaithfully: a restore that reports success has every used block of the
\* source in its place, an error names damage that is there, and the pipeline never
\* just ends (process_chunks_parallel, restore_raw).
THEOREM FaithfulTheorem ==
    ASSUME ShortReads = FALSE
    PROVE  Spec => []RestoredFaithfully
<1>1. StreamInv => RestoredFaithfully
    <2> SUFFICES ASSUME StreamInv PROVE RestoredFaithfully
        OBVIOUS
    <2>1. Settled /\ Idle /\ Typed /\ CaptureInv
        BY DEF StreamInv, PipeInv
    <2>2. ASSUME result = "ok", NEW e \in DOMAIN extents,
                 NEW p \in extents[e].start .. (extents[e].start + extents[e].count - 1),
                 Goes(p) \in TargetBlocks
          PROVE  target[Goes(p)] = p \/ (~verify /\ target[Goes(p)] = Junk)
        <3>1. /\ phase \in {"restore", "returned"} /\ at[1] = Len(extents) /\ next = Total + 1
              /\ Total \in Nat /\ Chunks = 1 .. Total /\ DOMAIN extents = 1 .. Len(extents)
              /\ Len(extents) \in Nat
            BY <2>1, <2>2, ImageType DEF Settled, Idle, Typed, CaptureInv, AtInv
        <3>2. PICK k \in Chunks : p \in Captured(k)
            <4>1. e <= at[1] /\ Behind(e) = End(e)
                BY <3>1 DEF Behind
            <4>4. extents[e].start \in Nat /\ extents[e].count \in Nat
                BY <2>1, <2>2, ExtentType
            <4>2. p \in extents[e].start .. Behind(e) - 1
                BY <2>2, <4>1, <4>4 DEF End
            <4>3. e <= at[1] + 1
                BY <3>1
            <4> QED BY <2>1, <4>2, <4>3 DEF CaptureInv, CoveredInv
        <3>3. p \in Done
            BY <3>1, <3>2 DEF Done
        <3>4. Faithful(Goes(p))
            BY <2>2, PrefixIs DEF StreamInv
        <3>5. PICK q \in Done : Goes(q) = Goes(p) /\ target[Goes(p)] \in {q} \cup Garbled
            BY <3>3, <3>4 DEF Faithful
        <3>6. Done \subseteq Blocks
            <4>1. \A i \in 1 .. next - 1 : i \in Chunks
                BY <3>1
            <4>2. \A i \in Chunks : Captured(i) \subseteq Blocks
                BY <2>1, BlocksOf
            <4> QED BY <4>1, <4>2 DEF Done
        <3>7. p = q
            BY <2>1, <3>3, <3>5, <3>6, GoesApart
        <3> QED BY <3>5, <3>7 DEF Garbled
    <2>3. result \in Failures => \E i \in 1 .. Total : quality[i] = Damage[result]
        BY <2>1, ImageType DEF Settled
    <2>4. phase = "returned" => result # "ended"
        BY <2>1 DEF Settled
    <2> QED BY <2>2, <2>3, <2>4 DEF RestoredFaithfully
<1> QED BY <1>1, StreamInvariant, PTL
=============================================================================
