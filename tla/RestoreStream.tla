--------------------------- MODULE RestoreStream ---------------------------
(***************************************************************************)
(* The life of one partition's data: the capture loop cuts the used        *)
(* extents into chunks (phoenix-capture/src/ntfs.rs, raw.rs), and a later  *)
(* restore streams them back to a target partition through the parallel    *)
(* decode pipeline (phoenix-core/src/pipeline.rs, process_chunks_parallel) *)
(* with restore_raw's closure as the consumer (phoenix-capture/src/raw.rs).*)
(*                                                                         *)
(* A reader thread fetches compressed chunks in file order, workers        *)
(* decompress and hash them in any order, and the calling thread writes    *)
(* them to the target in chunk order.  Between capture and restore the     *)
(* file may have been damaged: `quality` says how each chunk fares.        *)
(***************************************************************************)
EXTENDS Integers, Sequences, FiniteSets, Functions

CONSTANTS
    ChunkSize,      \* blocks a full chunk holds (CHUNK_SIZE)
    VolumeLen,      \* blocks of the source partition
    TargetLen,      \* blocks of the target partition (max_bytes)
    ExtentLists,    \* the used-block maps a capture may start from
    Moves,          \* relocation maps: where a source block goes on the target
    ShortReads,     \* whether a source read may return less than asked for
    MaxDamage,      \* bound on the chunks damaged on file
    Workers,        \* the decode workers
    Mortal,         \* workers that may panic inside a chunk
    JobCap, DoneCap \* slots of the two channels (workers * 2)

Blocks == 0 .. (VolumeLen - 1)
TargetBlocks == 0 .. (TargetLen - 1)

ASSUME RestoreAssumption ==
    /\ VolumeLen \in Nat \ {0} /\ TargetLen \in Nat \ {0}
    /\ ChunkSize \in Nat \ {0}
    /\ \A list \in ExtentLists : list \in Seq([start : Nat, count : Nat])
    /\ \A list \in ExtentLists : \A e \in DOMAIN list :
         /\ list[e].start + list[e].count <= VolumeLen
         /\ e > 1 => list[e - 1].start + list[e - 1].count <= list[e].start
    /\ \A move \in Moves : move \in [Blocks -> Nat] /\ IsInjective(move)
    /\ ShortReads \in BOOLEAN
    /\ Mortal \subseteq Workers
    /\ JobCap \in Nat \ {0} /\ DoneCap \in Nat \ {0}

VARIABLES
    phase,      \* "capture", "restore", "refused" or "returned"
    extents,    \* the extent list of the stream header
    at,         \* capture: <<extent, position within it>>
    image,      \* the chunk table: extent, chunk number, length
    origin,     \* history: the source block each chunk was read from
    quality,    \* what reading each chunk back gives
    verify,     \* whether the restore hashes what it decodes
    move,       \* the relocation map of the restore
    cancelled,  \* the progress handle's cancel flag
    rpc, rseq,  \* the reader thread and the item it is at
    jobs, done, \* the two channels
    wpc, wjob,  \* each worker and the message it holds
    pending,    \* the consumer's reorder buffer
    next,       \* the item the consumer writes next
    receiving,  \* the consumer still holds its receivers
    result,     \* what process_chunks_parallel returns
    target      \* the target partition

captureVars  == <<extents, at, image, origin>>
settingVars  == <<quality, verify, move>>
readerVars   == <<rpc, rseq>>
workerVars   == <<wpc, wjob>>
consumerVars == <<pending, next, receiving, result, target>>
vars == <<phase, captureVars, settingVars, cancelled, readerVars, jobs, done,
          workerVars, consumerVars>>

Old == -1       \* what the target held before
Junk == -2      \* bytes a garbled chunk decodes to
Qualities == {"good", "unreadable", "undecodable", "garbled"}
Failures == {"io", "zstd", "hash"}
Msg(kind, seq) == [kind |-> kind, seq |-> seq]
Kinds == {"item", "data"} \cup Failures
NoMsg == Msg("item", 0)
Total == Len(image)
Gone == {"exited", "dead"}

Init ==
    /\ phase = "capture" /\ extents \in ExtentLists /\ at = <<0, 0>>
    /\ image = <<>> /\ origin = <<>> /\ quality = <<>>
    /\ verify \in BOOLEAN /\ move \in Moves /\ cancelled = FALSE
    /\ rpc = "read" /\ rseq = 1 /\ jobs = <<>> /\ done = <<>>
    /\ wpc = [w \in Workers |-> "recv"] /\ wjob = [w \in Workers |-> NoMsg]
    /\ pending = {} /\ next = 1 /\ receiving = TRUE /\ result = "none"
    /\ target = [b \in TargetBlocks |-> Old]

restoreVars == <<settingVars, cancelled, readerVars, jobs, done, workerVars,
                 consumerVars>>

-----------------------------------------------------------------------------
(* Capture: one extent after the other, one chunk per read. *)

Smaller(a, b) == IF a < b THEN a ELSE b
Extent == extents[at[1] + 1]
ChunkNo == Cardinality({k \in DOMAIN image : image[k].extent = at[1]})

\* The lengths read_at may return for a request of `want` blocks.
ReadLengths(want) == IF ShortReads THEN 1 .. want ELSE {want}

CaptureChunk ==
    /\ phase = "capture" /\ at[1] < Len(extents)
    /\ at[2] < Extent.count
    /\ \E got \in ReadLengths(Smaller(ChunkSize, Extent.count - at[2])) :
         /\ image' = Append(image, [extent |-> at[1], chunk |-> ChunkNo,
                                    len |-> got])
         /\ origin' = Append(origin, Extent.start + at[2])
         /\ at' = <<at[1], at[2] + got>>
    /\ UNCHANGED <<phase, extents, restoreVars>>

\* A used extent reads 0 bytes: no incomplete image is ever finished.
CaptureRefuse ==
    /\ phase = "capture" /\ at[1] < Len(extents)
    /\ at[2] < Extent.count
    /\ phase' = "refused"
    /\ UNCHANGED <<captureVars, restoreVars>>

CaptureExtentDone ==
    /\ phase = "capture" /\ at[1] < Len(extents)
    /\ at[2] = Extent.count
    /\ at' = <<at[1] + 1, 0>>
    /\ UNCHANGED <<phase, extents, image, origin, restoreVars>>

\* The image is closed; damage strikes while it is stored; restore begins.
StartRestore ==
    /\ phase = "capture" /\ at[1] = Len(extents)
    /\ phase' = "restore"
    /\ quality' \in {q \in [1 .. Total -> Qualities] :
                        Cardinality({i \in 1 .. Total : q[i] # "good"}) <= MaxDamage}
    /\ UNCHANGED <<captureVars, verify, move, cancelled, readerVars, jobs, done,
                   workerVars, consumerVars>>

-----------------------------------------------------------------------------
(* What reading and decoding a chunk gives. *)

Fetch(i) == IF quality[i] = "unreadable" THEN Msg("io", i) ELSE Msg("item", i)

\* Slip: the hash is not compared.
DecodeUnhashed(i) ==
    CASE quality[i] = "undecodable" -> Msg("zstd", i)
      [] OTHER -> Msg("data", i)

Decode(i) ==
    CASE quality[i] = "undecodable" -> Msg("zstd", i)
      [] quality[i] = "garbled" /\ verify -> Msg("hash", i)
      [] OTHER -> Msg("data", i)

\* A worker passes an error through and decodes an item.
Answer(msg) == IF msg.kind = "item" THEN Decode(msg.seq) ELSE msg

-----------------------------------------------------------------------------
(* The reader thread. *)

Parallel == Cardinality(Workers) > 1 /\ Total > 2
Running == phase = "restore" /\ Parallel
\* The job receiver lives in the workers and in the calling frame.
JobsOpen == receiving \/ \E w \in Workers : wpc[w] \notin Gone

\* Slip: a read error ends the reader without a message.
ReaderSendSilent ==
    /\ Running /\ rpc = "read"
    /\ JobsOpen /\ Len(jobs) < JobCap
    /\ jobs' = IF Fetch(rseq).kind = "io" THEN jobs ELSE Append(jobs, Fetch(rseq))
    /\ rseq' = rseq + 1
    /\ rpc' = IF Fetch(rseq).kind = "io" \/ rseq = Total THEN "exited" ELSE "read"
    /\ UNCHANGED <<phase, captureVars, settingVars, cancelled, done,
                   workerVars, consumerVars>>

\* Read the next chunk and send it, or the error, down the job channel.
ReaderSend ==
    /\ Running /\ rpc = "read"
    /\ JobsOpen /\ Len(jobs) < JobCap
    /\ jobs' = Append(jobs, Fetch(rseq))
    /\ rseq' = rseq + 1
    /\ rpc' = IF Fetch(rseq).kind = "io" \/ rseq = Total THEN "exited" ELSE "read"
    /\ UNCHANGED <<phase, captureVars, settingVars, cancelled, done,
                   workerVars, consumerVars>>

ReaderDisconnected ==
    /\ Running /\ rpc = "read"
    /\ ~JobsOpen
    /\ rpc' = "exited"
    /\ UNCHANGED <<phase, captureVars, settingVars, cancelled, rseq, jobs,
                   done, workerVars, consumerVars>>

-----------------------------------------------------------------------------
(* A worker. *)

WorkerRecv(w) ==
    /\ Running /\ wpc[w] = "recv"
    /\ jobs # <<>>
    /\ wjob' = [wjob EXCEPT ![w] = Head(jobs)]
    /\ jobs' = Tail(jobs)
    /\ wpc' = [wpc EXCEPT ![w] = "decode"]
    /\ UNCHANGED <<phase, captureVars, settingVars, cancelled, readerVars,
                   done, consumerVars>>

WorkerExit(w) ==
    /\ Running /\ wpc[w] = "recv"
    /\ jobs = <<>> /\ rpc = "exited"
    /\ wpc' = [wpc EXCEPT ![w] = "exited"]
    /\ UNCHANGED <<phase, captureVars, settingVars, cancelled, readerVars,
                   jobs, done, wjob, consumerVars>>

WorkerDecode(w) ==
    /\ Running /\ wpc[w] = "decode"
    /\ wjob' = [wjob EXCEPT ![w] = Answer(wjob[w])]
    /\ wpc' = [wpc EXCEPT ![w] = "send"]
    /\ UNCHANGED <<phase, captureVars, settingVars, cancelled, readerVars,
                   jobs, done, consumerVars>>

WorkerDies(w) ==
    /\ Running /\ w \in Mortal
    /\ wpc[w] = "decode"
    /\ wpc' = [wpc EXCEPT ![w] = "dead"]
    /\ wjob' = [wjob EXCEPT ![w] = NoMsg]
    /\ UNCHANGED <<phase, captureVars, settingVars, cancelled, readerVars,
                   jobs, done, consumerVars>>

WorkerSend(w) ==
    /\ Running /\ wpc[w] = "send"
    /\ receiving /\ Len(done) < DoneCap
    /\ done' = Append(done, wjob[w])
    /\ wpc' = [wpc EXCEPT ![w] = "recv"]
    /\ wjob' = [wjob EXCEPT ![w] = NoMsg]
    /\ UNCHANGED <<phase, captureVars, settingVars, cancelled, readerVars,
                   jobs, consumerVars>>

\* The consumer returned early: its receiver is gone, send fails.
WorkerDisconnected(w) ==
    /\ Running /\ wpc[w] = "send"
    /\ ~receiving
    /\ wpc' = [wpc EXCEPT ![w] = "exited"]
    /\ wjob' = [wjob EXCEPT ![w] = NoMsg]
    /\ UNCHANGED <<phase, captureVars, settingVars, cancelled, readerVars,
                   jobs, done, consumerVars>>

-----------------------------------------------------------------------------
(* The consumer: restore_raw's closure on the calling thread. *)

\* Slip: the chunk's place in its extent is left out.
ExtentStart(i) == extents[image[i].extent + 1].start

\* Where chunk i is taken to come from: by stride, the chunk's number in its
\* extent times the chunk size, not by the lengths of the chunks before it.
StrideStart(i) ==
    extents[image[i].extent + 1].start + image[i].chunk * ChunkSize

\* Where block k of chunk i lands: the chunk's place, through the relocation
\* map when it covers the block.
Goes(block) == IF block \in Blocks THEN move[block] ELSE block
Lands(i, k) == Goes(StrideStart(i) + k)
Content(i, k) == IF quality[i] = "garbled" THEN Junk ELSE origin[i] + k

\* The target after the first n blocks of chunk i are written; what would
\* land at or past max_bytes is not written.
Written(i, n) ==
    [b \in TargetBlocks |->
        LET hits == {k \in 0 .. (n - 1) : Lands(i, k) = b}
        IN  IF hits = {} THEN target[b] ELSE Content(i, CHOOSE k \in hits : TRUE)]

\* The closure on the next chunk: refuse if cancelled, else write.
OnChunkOk ==
    /\ ~cancelled
    /\ target' = Written(next, image[next].len)
    /\ next' = next + 1

\* A failing write leaves some first part of the chunk behind.
OnChunkError(why) ==
    \/ /\ cancelled
       /\ why = "cancelled"
       /\ UNCHANGED target
    \/ /\ ~cancelled
       /\ why = "disk"
       /\ \E n \in 0 .. (image[next].len - 1) : target' = Written(next, n)

consumerFrame == <<captureVars, settingVars, cancelled, readerVars, jobs>>

ConsumerRecv ==
    /\ Running /\ receiving /\ next <= Total /\ next \notin pending
    /\ done # <<>>
    /\ done' = Tail(done)
    /\ IF Head(done).kind = "data"
       THEN pending' = pending \cup {Head(done).seq} /\ UNCHANGED <<receiving, result>>
       ELSE receiving' = FALSE /\ result' = Head(done).kind /\ UNCHANGED pending
    /\ UNCHANGED <<phase, consumerFrame, workerVars, next, target>>

\* Slip: a decoded chunk is written as soon as it arrives.
ConsumerWriteAny ==
    /\ Running /\ receiving /\ ~cancelled
    /\ \E i \in pending :
         /\ target' = Written(i, image[i].len)
         /\ pending' = pending \ {i}
    /\ next' = next + 1
    /\ UNCHANGED <<phase, consumerFrame, done, workerVars, receiving, result>>

ConsumerWrite ==
    /\ Running /\ receiving /\ next \in pending
    /\ OnChunkOk
    /\ pending' = pending \ {next}
    /\ UNCHANGED <<phase, consumerFrame, done, workerVars, receiving, result>>

ConsumerFail ==
    /\ Running /\ receiving /\ next \in pending
    /\ \E why \in {"cancelled", "disk"} : OnChunkError(why) /\ result' = why
    /\ pending' = pending \ {next}
    /\ receiving' = FALSE
    /\ UNCHANGED <<phase, consumerFrame, done, workerVars, next>>

\* Slip: the caller keeps its own sender of the result channel.
ConsumerEndKeepingSender ==
    /\ Running /\ receiving
    /\ next > Total /\ result' = "ok"
    /\ receiving' = FALSE
    /\ UNCHANGED <<phase, consumerFrame, done, workerVars, pending, next, target>>

\* Every chunk was written, or every sender is gone before that.
ConsumerEnd ==
    /\ Running /\ receiving
    /\ \/ next > Total /\ result' = "ok"
       \/ /\ next <= Total /\ next \notin pending /\ done = <<>>
          /\ \A w \in Workers : wpc[w] \in Gone
          /\ result' = "ended"
    /\ receiving' = FALSE
    /\ UNCHANGED <<phase, consumerFrame, done, workerVars, pending, next, target>>

\* The scope joins every thread; a panic in one of them is the caller's panic.
JoinScope ==
    /\ Running /\ ~receiving
    /\ rpc = "exited" /\ \A w \in Workers : wpc[w] \in Gone
    /\ phase' = "returned"
    /\ result' = IF \E w \in Workers : wpc[w] = "dead" THEN "panic" ELSE result
    /\ UNCHANGED <<consumerFrame, done, workerVars, pending, next, receiving,
                   target>>

-----------------------------------------------------------------------------
(* The serial path: one worker, or at most two chunks. *)

SerialRuns == phase = "restore" /\ ~Parallel

SerialChunk ==
    /\ SerialRuns /\ next <= Total
    /\ Answer(Fetch(next)).kind = "data"
    /\ OnChunkOk
    /\ UNCHANGED <<phase, consumerFrame, done, workerVars, pending, receiving,
                   result>>

SerialFail ==
    /\ SerialRuns /\ next <= Total
    /\ IF Answer(Fetch(next)).kind = "data"
       THEN \E why \in {"cancelled", "disk"} : OnChunkError(why) /\ result' = why
       ELSE result' = Answer(Fetch(next)).kind /\ UNCHANGED target
    /\ phase' = "returned"
    /\ UNCHANGED <<consumerFrame, done, workerVars, pending, next, receiving>>

SerialEnd ==
    /\ SerialRuns /\ next > Total
    /\ result' = "ok" /\ phase' = "returned"
    /\ UNCHANGED <<consumerFrame, done, workerVars, pending, next, receiving,
                   target>>

-----------------------------------------------------------------------------
\* The user cancels: only the closure looks at the flag, before each chunk.
Cancel ==
    /\ phase = "restore" /\ ~cancelled
    /\ cancelled' = TRUE
    /\ UNCHANGED <<phase, captureVars, settingVars, readerVars, jobs, done,
                   workerVars, consumerVars>>

CaptureNext ==
    CaptureChunk \/ CaptureExtentDone \/ CaptureRefuse \/ StartRestore
ReaderNext == ReaderSend \/ ReaderDisconnected
WorkerNext(w) ==
    WorkerRecv(w) \/ WorkerExit(w) \/ WorkerDecode(w) \/ WorkerDies(w)
        \/ WorkerSend(w) \/ WorkerDisconnected(w)
ConsumerNext ==
    ConsumerRecv \/ ConsumerWrite \/ ConsumerFail \/ ConsumerEnd \/ JoinScope
        \/ SerialChunk \/ SerialFail \/ SerialEnd
Terminated == phase \in {"returned", "refused"} /\ UNCHANGED vars

Next ==
    \/ CaptureNext \/ ReaderNext \/ ConsumerNext \/ Cancel \/ Terminated
    \/ \E w \in Workers : WorkerNext(w)

Spec == Init /\ [][Next]_vars

(* Threads that can run do run; a user need not cancel. *)
Fairness ==
    /\ WF_vars(ReaderNext)
    /\ WF_vars(ConsumerNext)
    /\ \A w \in Workers : WF_vars(WorkerNext(w))

FairSpec == Spec /\ Fairness

-----------------------------------------------------------------------------
(* Properties. *)

\* Every variable has its type.
TypeOK ==
    /\ phase \in {"capture", "restore", "refused", "returned"}
    /\ extents \in ExtentLists
    /\ at[1] \in 0 .. Len(extents) /\ at[2] \in 0 .. VolumeLen
    /\ Len(origin) = Total
    /\ \A i \in 1 .. Total : /\ image[i].extent \in 0 .. (Len(extents) - 1)
                             /\ image[i].len \in 1 .. ChunkSize
                             /\ origin[i] \in Blocks
    /\ verify \in BOOLEAN /\ cancelled \in BOOLEAN /\ receiving \in BOOLEAN
    /\ rpc \in {"read", "exited"} /\ rseq \in 1 .. (Total + 1)
    /\ \A w \in Workers : /\ wpc[w] \in {"recv", "decode", "send"} \cup Gone
                          /\ wjob[w].kind \in Kinds
    /\ Len(jobs) <= JobCap /\ Len(done) <= DoneCap
    /\ pending \subseteq next .. Total
    /\ next \in 1 .. (Total + 1)
    /\ target \in [TargetBlocks -> Blocks \cup {Old, Junk}]

\* At every moment the target holds exactly the chunks written so far, each
\* block where its source block goes, over its old content: nothing beyond
\* max_bytes, nothing out of turn, nothing of a chunk after the one that
\* failed; with verification on no garbled byte, not even before the error that
\* ends the restore (pipeline.rs:367-374, raw.rs:75-92).
Captured(i) == {origin[i] + k : k \in 0 .. (image[i].len - 1)}
TargetIsPrefix ==
    LET settled == UNION {Captured(i) : i \in 1 .. (next - 1)}
        failing == IF result \in {"disk", "panic"} /\ next <= Total
                   THEN Captured(next) ELSE {}
        garbled == IF verify THEN {} ELSE {Junk}
    IN  \A b \in TargetBlocks :
          LET from == {p \in settled : Goes(p) = b} IN
          IF from # {} THEN target[b] \in from \cup garbled
          ELSE \/ target[b] = Old
               \/ \E p \in failing : Goes(p) = b /\ target[b] \in {p} \cup garbled

\* The answer of a restore is true.  Success: every used block of the source is
\* where it belongs, unless it lies beyond the target; with verification on, no
\* garbled byte came through either.  An error names a chunk that is damaged in
\* that way, and the pipeline never just ends.
Damage == [io |-> "unreadable", zstd |-> "undecodable", hash |-> "garbled"]
RestoredFaithfully ==
    /\ result = "ok" =>
          \A e \in DOMAIN extents :
            \A p \in extents[e].start .. (extents[e].start + extents[e].count - 1) :
              Goes(p) \in TargetBlocks =>
                \/ target[Goes(p)] = p
                \/ ~verify /\ target[Goes(p)] = Junk
    /\ result \in Failures => \E i \in 1 .. Total : quality[i] = Damage[result]
    /\ phase = "returned" => result # "ended"

\* However it ends, the restore returns: an early error leaves no thread
\* blocked on a channel and the scope joins them all (pipeline.rs:454-455).
RestoreReturns == phase = "restore" ~> phase = "returned"
=============================================================================
