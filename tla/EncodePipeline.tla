--------------------------- MODULE EncodePipeline ---------------------------
(***************************************************************************)
(* The parallel hash + compress + write engine behind one partition stream *)
(* (phoenix-core/src/pipeline.rs, EncodePipeline) and the stream writer    *)
(* that drives it (phoenix-core/src/container.rs, PartitionStreamWriter).  *)
(*                                                                         *)
(* The capture thread (the caller) numbers chunks and sends them down a    *)
(* bounded job channel; workers hash and compress them in any order and    *)
(* send them down a bounded result channel; one writer thread reorders     *)
(* them and commits them to the file in submission order.  An error is     *)
(* parked in a shared slot, then the `failed` flag is raised: two steps.   *)
(***************************************************************************)
EXTENDS Naturals, Sequences, FiniteSets

CONSTANTS Workers,      \* the worker threads
          Mortal,       \* workers that may panic in the middle of a chunk
          JobCap,       \* slots of the job channel     (workers * 2)
          DoneCap,      \* slots of the result channel  (workers * 2)
          MaxChunks,    \* bound on the chunks one stream carries
          MaxExtents,   \* bound on the extents of the partition
          DataStart,    \* file offset of the first compressed byte
          CompLen       \* CompLen[s]: compressed length of chunk number s

ASSUME EncodeAssumption ==
    /\ Workers # {}
    /\ Mortal \subseteq Workers
    /\ JobCap \in Nat \ {0}
    /\ DoneCap \in Nat \ {0}
    /\ MaxChunks \in Nat \ {0}
    /\ MaxExtents \in Nat \ {0}
    /\ DataStart \in Nat
    /\ CompLen \in [0 .. MaxChunks -> Nat]

VARIABLES
    caller,     \* the capture thread: "open", "send", "join_workers", ...
    extent,     \* PartitionStreamWriter.extent_index
    chunk,      \* PartitionStreamWriter.chunk_in_extent
    nextSeq,    \* EncodePipeline.next_seq
    outbox,     \* the job the caller is about to send
    result,     \* what the stream's owner is told
    submitted,  \* history: the chunks accepted so far, in order
    jobs,       \* the job channel
    done,       \* the result channel
    wpc,        \* where each worker is
    wjob,       \* the job each worker holds
    vpc,        \* where the writer thread is
    vjob,       \* the result the writer holds
    pending,    \* the writer's reorder buffer
    next,       \* the sequence number the writer commits next
    offset,     \* where the next compressed byte goes
    index,      \* the chunk table, in commit order
    failed,     \* the shared flag
    error       \* the shared error slot

callerVars == <<caller, extent, chunk, nextSeq, outbox, result, submitted>>
workerVars == <<wpc, wjob>>
writerVars == <<vpc, vjob, pending, next, offset, index>>
faultVars  == <<failed, error>>
vars == <<callerVars, jobs, done, workerVars, writerVars, faultVars>>

Extents == 0 .. (MaxExtents - 1)
Numbers == 0 .. MaxChunks
Job == [seq : 0 .. (MaxChunks - 1), extent : Extents, chunk : Numbers]
NoJob == [seq |-> 0, extent |-> 0, chunk |-> 0]
Place == [extent : Extents, chunk : Numbers]    \* what identifies a chunk
PlaceOf(r) == [extent |-> r.extent, chunk |-> r.chunk]
Entry == [offset : Nat, extent : Extents, chunk : Numbers]

Gone == {"exited", "dead"}
AllWorkersGone == \A w \in Workers : wpc[w] \in Gone
IntakeOpen == caller \in {"open", "send"}
\* Mutex<Option<..>>::get_or_insert: the first error parked is kept.
FirstError(e) == IF error = "none" THEN e ELSE error
\* take_error: empties the slot; an empty slot yields a generic message.
TakenError == IF error = "none" THEN "generic" ELSE error

Init ==
    /\ caller = "open" /\ extent = 0 /\ chunk = 0 /\ nextSeq = 0
    /\ outbox = NoJob /\ result = "none" /\ submitted = <<>>
    /\ jobs = <<>> /\ done = <<>>
    /\ wpc = [w \in Workers |-> "idle"]
    /\ wjob = [w \in Workers |-> NoJob]
    /\ vpc = "recv" /\ vjob = NoJob /\ pending = {} /\ next = 0
    /\ offset = DataStart /\ index = <<>>
    /\ failed = FALSE /\ error = "none"

-----------------------------------------------------------------------------
(* The capture thread. *)

\* set_extent: the next extent starts, its chunks count from 0 again.
SetExtent ==
    /\ caller = "open"
    /\ extent + 1 < MaxExtents
    /\ extent' = extent + 1
    /\ chunk' = 0
    /\ UNCHANGED <<caller, nextSeq, outbox, result, submitted, jobs, done,
                   workerVars, writerVars, faultVars>>

\* write_chunk / submit: no failure seen, build the job and go on to send it.
SubmitStart ==
    /\ caller = "open"
    /\ nextSeq < MaxChunks
    /\ ~failed
    /\ outbox' = [seq |-> nextSeq, extent |-> extent, chunk |-> chunk]
    /\ caller' = "send"
    /\ UNCHANGED <<extent, chunk, nextSeq, result, submitted, jobs, done,
                   workerVars, writerVars, faultVars>>

\* The caller gives the stream up: its drop runs `shutdown`.
Unwind(why) ==
    /\ result' = why
    /\ caller' = "join_workers"
    /\ outbox' = NoJob
    /\ UNCHANGED <<extent, chunk, nextSeq, submitted, jobs, done,
                   workerVars, writerVars, failed>>

\* submit sees the flag and returns the parked error.
SubmitRefused ==
    /\ caller = "open"
    /\ failed
    /\ error' = "none"
    /\ Unwind(TakenError)

\* The blocking send finds room.
SubmitSend ==
    /\ caller = "send"
    /\ ~AllWorkersGone
    /\ Len(jobs) < JobCap
    /\ jobs' = Append(jobs, outbox)
    /\ submitted' = Append(submitted, PlaceOf(outbox))
    /\ nextSeq' = nextSeq + 1
    /\ chunk' = chunk + 1
    /\ outbox' = NoJob
    /\ caller' = "open"
    /\ UNCHANGED <<extent, result, done, workerVars, writerVars, faultVars>>

\* Every receiver of the job channel is gone: send fails.
SubmitDisconnected ==
    /\ caller = "send"
    /\ AllWorkersGone
    /\ error' = "none"
    /\ Unwind(TakenError)

\* A cancel at the next chunk, or an error reading the source volume.
Cancel ==
    /\ caller = "open"
    /\ UNCHANGED error
    /\ Unwind("cancelled")

\* finish: close the intake.
Finish ==
    /\ caller = "open"
    /\ caller' = "join_workers"
    /\ UNCHANGED <<extent, chunk, nextSeq, outbox, result, submitted, jobs,
                   done, workerVars, writerVars, faultVars>>

JoinWorkers ==
    /\ caller = "join_workers"
    /\ AllWorkersGone
    /\ caller' = "join_writer"
    /\ UNCHANGED <<extent, chunk, nextSeq, outbox, result, submitted, jobs,
                   done, workerVars, writerVars, faultVars>>

\* Slip: finish does not compare the table with the submissions.
FinishResultUncounted == IF failed THEN TakenError ELSE "ok"

\* What finish answers once every thread is joined.
FinishResult ==
    IF failed THEN TakenError
    ELSE IF Len(index) # nextSeq THEN "short"
    ELSE "ok"

\* Slip: the writer thread is detached instead of joined.
JoinWriterDetached ==
    /\ caller = "join_writer"
    /\ caller' = "returned"
    /\ result' = IF result = "none" THEN FinishResult ELSE result
    /\ UNCHANGED <<extent, chunk, nextSeq, outbox, submitted, jobs, done,
                   workerVars, writerVars, faultVars>>

\* The writer is joined; finish reports, a drop has its result already.
JoinWriter ==
    /\ caller = "join_writer"
    /\ vpc = "exited"
    /\ caller' = "returned"
    /\ result' = IF result = "none" THEN FinishResult ELSE result
    /\ error' = IF result = "none" /\ failed THEN "none" ELSE error
    /\ UNCHANGED <<extent, chunk, nextSeq, outbox, submitted, jobs, done,
                   workerVars, writerVars, failed>>

-----------------------------------------------------------------------------
(* A worker.  The receiver's mutex is held only inside recv, so taking a   *)
(* job off the channel is one step.                                        *)

WorkerStep(w, from, to) ==
    /\ wpc[w] = from
    /\ wpc' = [wpc EXCEPT ![w] = to]

Drops(w) == wjob' = [wjob EXCEPT ![w] = NoJob]

WorkerRecv(w) ==
    /\ WorkerStep(w, "idle", "check")
    /\ jobs # <<>>
    /\ wjob' = [wjob EXCEPT ![w] = Head(jobs)]
    /\ jobs' = Tail(jobs)
    /\ UNCHANGED <<callerVars, done, writerVars, faultVars>>

\* recv fails: the channel is closed and empty.
WorkerExit(w) ==
    /\ WorkerStep(w, "idle", "exited")
    /\ jobs = <<>>
    /\ ~IntakeOpen
    /\ UNCHANGED <<callerVars, jobs, done, wjob, writerVars, faultVars>>

\* Something already went wrong: keep draining, skip the work.
WorkerSkip(w) ==
    /\ WorkerStep(w, "check", "idle")
    /\ failed
    /\ Drops(w)
    /\ UNCHANGED <<callerVars, jobs, done, writerVars, faultVars>>

WorkerProceed(w) ==
    /\ WorkerStep(w, "check", "encode")
    /\ ~failed
    /\ UNCHANGED <<callerVars, jobs, done, wjob, writerVars, faultVars>>

EncodeOk(w) ==
    /\ WorkerStep(w, "encode", "send")
    /\ UNCHANGED <<callerVars, jobs, done, wjob, writerVars, faultVars>>

\* Slip: the flag is raised for an error nobody parked.
EncodeErrorUnparked(w) ==
    /\ WorkerStep(w, "encode", "flag")
    /\ Drops(w)
    /\ UNCHANGED <<callerVars, jobs, done, writerVars, faultVars>>

\* compress_chunk fails: park the error first ...
EncodeError(w) ==
    /\ WorkerStep(w, "encode", "flag")
    /\ Drops(w)
    /\ error' = FirstError("encode")
    /\ UNCHANGED <<callerVars, jobs, done, writerVars, failed>>

\* ... then raise the flag.
WorkerFlag(w) ==
    /\ WorkerStep(w, "flag", "idle")
    /\ failed' = TRUE
    /\ UNCHANGED <<callerVars, jobs, done, wjob, writerVars, error>>

\* The thread panics while hashing or compressing; its job is lost.
WorkerDies(w) ==
    /\ w \in Mortal
    /\ WorkerStep(w, "encode", "dead")
    /\ Drops(w)
    /\ UNCHANGED <<callerVars, jobs, done, writerVars, faultVars>>

WorkerSend(w) ==
    /\ WorkerStep(w, "send", "idle")
    /\ Len(done) < DoneCap
    /\ done' = Append(done, wjob[w])
    /\ Drops(w)
    /\ UNCHANGED <<callerVars, jobs, writerVars, faultVars>>

-----------------------------------------------------------------------------
(* The writer thread. *)

\* Slip: the writer stops receiving after a failure instead of draining.
WriterRecvUntilFailed ==
    /\ vpc = "recv"
    /\ ~failed
    /\ done # <<>>
    /\ vjob' = Head(done)
    /\ done' = Tail(done)
    /\ vpc' = "check"
    /\ UNCHANGED <<callerVars, jobs, workerVars, pending, next, offset, index,
                   faultVars>>

WriterRecv ==
    /\ vpc = "recv"
    /\ done # <<>>
    /\ vjob' = Head(done)
    /\ done' = Tail(done)
    /\ vpc' = "check"
    /\ UNCHANGED <<callerVars, jobs, workerVars, pending, next, offset, index,
                   faultVars>>

\* After a failure results are drained, never written.
WriterDiscard ==
    /\ vpc = "check"
    /\ failed
    /\ vpc' = "recv"
    /\ vjob' = NoJob
    /\ UNCHANGED <<callerVars, jobs, done, workerVars, pending, next, offset,
                   index, faultVars>>

WriterBuffer ==
    /\ vpc = "check"
    /\ ~failed
    /\ pending' = pending \cup {vjob}
    /\ vjob' = NoJob
    /\ vpc' = "commit"
    /\ UNCHANGED <<callerVars, jobs, done, workerVars, next, offset, index,
                   faultVars>>

\* Slip: chunks are committed in the order they arrive.
ReadyInArrivalOrder == pending

\* The chunks the inner loop may take out of the buffer.
Ready == {d \in pending : d.seq = next}

WriterCommit ==
    /\ vpc = "commit"
    /\ \E d \in Ready :
         /\ pending' = pending \ {d}
         /\ index' = Append(index, [offset |-> offset, extent |-> d.extent,
                                    chunk |-> d.chunk])
         /\ offset' = offset + CompLen[d.seq]
    /\ next' = next + 1
    /\ UNCHANGED <<callerVars, jobs, done, workerVars, vpc, vjob, faultVars>>

\* write_all_at fails: park the error, leave the inner loop ...
WriteError ==
    /\ vpc = "commit"
    /\ \E d \in Ready : pending' = pending \ {d}
    /\ error' = FirstError("write")
    /\ vpc' = "flag"
    /\ UNCHANGED <<callerVars, jobs, done, workerVars, vjob, next, offset,
                   index, failed>>

\* ... with the flag raised.
WriterFlag ==
    /\ vpc = "flag"
    /\ failed' = TRUE
    /\ vpc' = "recv"
    /\ UNCHANGED <<callerVars, jobs, done, workerVars, vjob, pending, next,
                   offset, index, error>>

WriterDrained ==
    /\ vpc = "commit"
    /\ Ready = {}
    /\ vpc' = "recv"
    /\ UNCHANGED <<callerVars, jobs, done, workerVars, vjob, pending, next,
                   offset, index, faultVars>>

\* recv fails: every worker is gone.  A non-empty buffer without a failure
\* means a worker died holding the missing chunk.
WriterExit ==
    /\ vpc = "recv"
    /\ done = <<>>
    /\ AllWorkersGone
    /\ vpc' = "exited"
    /\ IF pending # {} /\ ~failed
       THEN error' = FirstError("lost") /\ failed' = TRUE
       ELSE UNCHANGED faultVars
    /\ UNCHANGED <<callerVars, jobs, done, workerVars, vjob, pending, next,
                   offset, index>>

-----------------------------------------------------------------------------
SubmitDone == SubmitSend \/ SubmitDisconnected
Joins == JoinWorkers \/ JoinWriter
CallerNext ==
    SetExtent \/ SubmitStart \/ SubmitRefused \/ SubmitDone \/ Cancel
        \/ Finish \/ Joins

WorkerNext(w) ==
    WorkerRecv(w) \/ WorkerExit(w) \/ WorkerSkip(w) \/ WorkerProceed(w)
        \/ EncodeOk(w) \/ EncodeError(w) \/ WorkerFlag(w) \/ WorkerDies(w)
        \/ WorkerSend(w)

WriterNext ==
    WriterRecv \/ WriterDiscard \/ WriterBuffer \/ WriterCommit \/ WriteError
        \/ WriterFlag \/ WriterDrained \/ WriterExit

\* The stream is over: every thread is joined and the result is returned.
Terminated == caller = "returned" /\ UNCHANGED vars

Next == CallerNext \/ (\E w \in Workers : WorkerNext(w)) \/ WriterNext
            \/ Terminated

Spec == Init /\ [][Next]_vars

(* Every thread that can run is run by the scheduler, and a thread inside  *)
(* hash, compress or write comes back.  The caller owes nothing while the  *)
(* stream is open; once it sends or joins, it is only waiting.             *)
Fairness ==
    /\ WF_vars(SubmitDone)
    /\ WF_vars(Joins)
    /\ \A w \in Workers : WF_vars(WorkerNext(w))
    /\ WF_vars(WriterNext)

FairSpec == Spec /\ Fairness

-----------------------------------------------------------------------------
(* Properties. *)

\* Every variable has its type.
TypeOK ==
    /\ caller \in {"open", "send", "join_workers", "join_writer", "returned"}
    /\ extent \in Extents
    /\ nextSeq \in Numbers
    /\ chunk \in 0 .. nextSeq
    /\ caller = "send" => nextSeq < MaxChunks
    /\ outbox \in Job
    /\ result \in {"none", "ok", "cancelled", "encode", "write", "lost",
                   "short", "generic"}
    /\ submitted \in Seq(Place)
    /\ jobs \in Seq(Job)
    /\ done \in Seq(Job)
    /\ wpc \in [Workers -> {"idle", "check", "encode", "send", "flag"} \cup Gone]
    /\ wjob \in [Workers -> Job]
    /\ vpc \in {"recv", "check", "commit", "flag", "exited"}
    /\ vjob \in Job
    /\ pending \in SUBSET Job
    /\ next \in Numbers
    /\ offset \in Nat
    /\ index \in Seq(Entry)
    /\ failed \in BOOLEAN
    /\ error \in {"none", "encode", "write", "lost"}

\* The jobs the pipeline holds anywhere between submit and commit.
Held(w) == wpc[w] \in {"check", "encode", "send"}
InFlight ==
    {jobs[i] : i \in DOMAIN jobs} \cup {done[i] : i \in DOMAIN done}
        \cup {wjob[w] : w \in {v \in Workers : Held(v)}}
        \cup pending \cup (IF vpc = "check" THEN {vjob} ELSE {})

\* Offset one past entry i of the chunk table.
EndOf(i) == index[i].offset + CompLen[i - 1]

\* The file layout is the one the old serial loop produced: entry i of the
\* table is chunk i of the submission order, its bytes start where those of
\* entry i - 1 end, and the writer continues at the end of the last one
\* (pipeline.rs:11-14, "byte-identical to what the old serial loop produced").
StreamMatchesSerial ==
    /\ Len(index) <= Len(submitted)
    /\ \A i \in 1 .. Len(index) :
         /\ PlaceOf(index[i]) = submitted[i]
         /\ index[i].offset = IF i = 1 THEN DataStart ELSE EndOf(i - 1)
    /\ offset = IF index = <<>> THEN DataStart ELSE EndOf(Len(index))

\* When finish reports success, every chunk the capture loop submitted is in
\* the table and nothing is left in a channel, a worker or the buffer, even
\* when workers died on the way (pipeline.rs:304-326).
FinishOkComplete ==
    result = "ok" =>
        /\ Len(index) = Len(submitted)
        /\ InFlight = {}

\* A stream that lost no worker never fails without saying why: the caller is
\* told the encode or the write error, or its own cancel, never the generic
\* message, a lost chunk or a count mismatch (pipeline.rs:131-135).
OnlyDeathIsUnexplained ==
    result \in {"generic", "lost", "short"} => \E w \in Workers : wpc[w] = "dead"

\* Neither a full channel nor a failure blocks the capture thread for ever in
\* submit (pipeline.rs:132-134, "no thread can deadlock on a full channel"), and
\* finish, or the drop of an abandoned stream, joins every thread and returns.
CallsReturn ==
    /\ caller = "send" ~> caller # "send"
    /\ caller = "join_workers" ~> caller = "returned"

\* The pipeline implements the ordered stream it replaces: chunks reach the
\* file in submission order only, success means all of them did, and once the
\* owner is answered no thread touches the half-built file any more
\* (pipeline.rs:11-14, 304-326, 336-345).
Stored == [i \in 1 .. Len(index) |-> PlaceOf(index[i])]
Outcome == IF caller # "returned" THEN "none"
           ELSE IF result = "ok" THEN "ok" ELSE "failed"
Stream == INSTANCE OrderedStream
              WITH Item <- Place, accepted <- submitted, stored <- Stored,
                   outcome <- Outcome
ImplementsStream == Stream!AbsSpec

\* What the module header promises about memory: every queue slot holds one
\* chunk buffer, and the pipeline keeps no more in flight than its slots and
\* threads hold (pipeline.rs:28-32).
MemoryBounded ==
    Cardinality(InFlight) <= JobCap + DoneCap + Cardinality(Workers) + 1
=============================================================================
