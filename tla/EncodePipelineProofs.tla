------------------------ MODULE EncodePipelineProofs ------------------------
(***************************************************************************)
(* Proofs about EncodePipeline, for every number of workers, every channel *)
(* capacity and every stream length.                                       *)
(***************************************************************************)
EXTENDS EncodePipeline, SequenceTheorems, TLAPS

-----------------------------------------------------------------------------
(* Types of the records the threads build. *)

\* The job of an idle worker is a job like any.
LEMMA NoJobType == NoJob \in Job
BY EncodeAssumption DEF NoJob, Job, Extents, Numbers

\* Where a job lies in the stream is a place.
LEMMA PlaceType == \A j \in Job : PlaceOf(j) \in Place
BY DEF PlaceOf, Place, Job

\* The row made for a job is a row of the table.
LEMMA EntryType ==
    \A j \in Job : \A o \in Nat :
        [offset |-> o, extent |-> j.extent, chunk |-> j.chunk] \in Entry
BY DEF Entry, Job

\* A chunk's number leaves room for its successor, and its length is known.
LEMMA SeqType ==
    \A j \in Job : /\ j.seq \in 0 .. (MaxChunks - 1)
                   /\ j.seq + 1 \in Numbers
                   /\ CompLen[j.seq] \in Nat
BY EncodeAssumption DEF Job, Numbers

-----------------------------------------------------------------------------
(* Type correctness. *)

\* The types hold at the start.
LEMMA InitType == Init => TypeOK
<1> SUFFICES ASSUME Init PROVE TypeOK
  OBVIOUS
<1>1. /\ submitted \in Seq(Place) /\ jobs \in Seq(Job) /\ done \in Seq(Job)
      /\ index \in Seq(Entry)
  BY DEF Init
<1>2. /\ wpc \in [Workers -> {"idle", "check", "encode", "send", "flag"} \cup Gone]
      /\ wjob \in [Workers -> Job]
  BY NoJobType DEF Init
<1>3. /\ extent \in Extents /\ nextSeq \in Numbers /\ chunk \in 0 .. nextSeq
      /\ next \in Numbers /\ offset \in Nat
  BY EncodeAssumption DEF Init, Extents, Numbers
<1> QED
  BY NoJobType, <1>1, <1>2, <1>3 DEF Init, TypeOK

\* Every step keeps the types.
LEMMA StepType == TypeOK /\ [Next]_vars => TypeOK'
<1> SUFFICES ASSUME TypeOK, [Next]_vars PROVE TypeOK'
  OBVIOUS
<1> USE DEF TypeOK
<1>1. CASE SetExtent
  BY <1>1, EncodeAssumption
     DEF SetExtent, Extents, Numbers, workerVars, writerVars, faultVars
<1>2. CASE SubmitStart
  <2>1. nextSeq \in 0 .. (MaxChunks - 1) /\ chunk \in Numbers
    BY <1>2, EncodeAssumption DEF SubmitStart, Numbers
  <2>2. outbox' \in Job
    BY <1>2, <2>1 DEF SubmitStart, Job
  <2> QED
    BY <1>2, <2>1, <2>2, EncodeAssumption
       DEF SubmitStart, Numbers, workerVars, writerVars, faultVars
<1>3. ASSUME NEW why \in {"cancelled", "encode", "write", "lost", "generic"},
             Unwind(why), error' \in {error, "none"}
      PROVE  TypeOK'
  BY <1>3, NoJobType DEF Unwind, workerVars, writerVars
<1>4. CASE SubmitRefused
  BY <1>3, <1>4 DEF SubmitRefused, TakenError
<1>5. CASE SubmitDisconnected
  BY <1>3, <1>5 DEF SubmitDisconnected, TakenError
<1>6. CASE Cancel
  BY <1>3, <1>6 DEF Cancel
<1>7. CASE SubmitSend
  <2>1. jobs' \in Seq(Job) /\ submitted' \in Seq(Place)
    BY <1>7, PlaceType DEF SubmitSend
  <2>2. nextSeq' \in Numbers /\ chunk' \in 0 .. nextSeq'
    BY <1>7, EncodeAssumption DEF SubmitSend, Numbers
  <2> QED
    BY <1>7, <2>1, <2>2, NoJobType
       DEF SubmitSend, workerVars, writerVars, faultVars
<1>8. CASE Finish
  BY <1>8 DEF Finish, workerVars, writerVars, faultVars
<1>9. CASE JoinWorkers
  BY <1>9 DEF JoinWorkers, workerVars, writerVars, faultVars
<1>10. CASE JoinWriter
  BY <1>10 DEF JoinWriter, FinishResult, TakenError, workerVars, writerVars
<1>11. ASSUME NEW w \in Workers, WorkerRecv(w) PROVE TypeOK'
  BY <1>11, HeadTailProperties
     DEF WorkerRecv, WorkerStep, callerVars, writerVars, faultVars
<1>12. ASSUME NEW w \in Workers, WorkerExit(w) PROVE TypeOK'
  BY <1>12 DEF WorkerExit, WorkerStep, Gone, callerVars, writerVars, faultVars
<1>13. ASSUME NEW w \in Workers, WorkerSkip(w) PROVE TypeOK'
  BY <1>13, NoJobType
     DEF WorkerSkip, WorkerStep, Drops, callerVars, writerVars, faultVars
<1>14. ASSUME NEW w \in Workers, WorkerProceed(w) PROVE TypeOK'
  BY <1>14 DEF WorkerProceed, WorkerStep, callerVars, writerVars, faultVars
<1>15. ASSUME NEW w \in Workers, EncodeOk(w) PROVE TypeOK'
  BY <1>15 DEF EncodeOk, WorkerStep, callerVars, writerVars, faultVars
<1>16. ASSUME NEW w \in Workers, EncodeError(w) PROVE TypeOK'
  BY <1>16, NoJobType
     DEF EncodeError, WorkerStep, Drops, FirstError, callerVars, writerVars
<1>17. ASSUME NEW w \in Workers, WorkerFlag(w) PROVE TypeOK'
  BY <1>17 DEF WorkerFlag, WorkerStep, callerVars, writerVars
<1>18. ASSUME NEW w \in Workers, WorkerDies(w) PROVE TypeOK'
  BY <1>18, NoJobType
     DEF WorkerDies, WorkerStep, Drops, Gone, callerVars, writerVars, faultVars
<1>19. ASSUME NEW w \in Workers, WorkerSend(w) PROVE TypeOK'
  BY <1>19, NoJobType
     DEF WorkerSend, WorkerStep, Drops, callerVars, writerVars, faultVars
<1>20. CASE WriterRecv
  BY <1>20, HeadTailProperties
     DEF WriterRecv, callerVars, workerVars, faultVars
<1>21. CASE WriterDiscard
  BY <1>21, NoJobType DEF WriterDiscard, callerVars, workerVars, faultVars
<1>22. CASE WriterBuffer
  BY <1>22, NoJobType DEF WriterBuffer, callerVars, workerVars, faultVars
<1>23. CASE WriterCommit
  <2> PICK d \in Ready :
        /\ pending' = pending \ {d}
        /\ index' = Append(index, [offset |-> offset, extent |-> d.extent,
                                   chunk |-> d.chunk])
        /\ offset' = offset + CompLen[d.seq]
    BY <1>23 DEF WriterCommit
  <2>1. d \in Job /\ d.seq = next
    BY DEF Ready
  <2>2. index' \in Seq(Entry)
    BY <2>1, EntryType
  <2>3. next' \in Numbers /\ offset' \in Nat
    BY <1>23, <2>1, SeqType DEF WriterCommit
  <2>4. pending' \in SUBSET Job
    OBVIOUS
  <2> QED
    BY <1>23, <2>2, <2>3, <2>4
       DEF WriterCommit, callerVars, workerVars, faultVars
<1>24. CASE WriteError
  BY <1>24 DEF WriteError, FirstError, callerVars, workerVars
<1>25. CASE WriterFlag
  BY <1>25 DEF WriterFlag, callerVars, workerVars
<1>26. CASE WriterDrained
  BY <1>26 DEF WriterDrained, callerVars, workerVars, faultVars
<1>27. CASE WriterExit
  BY <1>27 DEF WriterExit, FirstError, callerVars, workerVars, faultVars
<1>28. CASE UNCHANGED vars
  BY <1>28 DEF vars, callerVars, workerVars, writerVars, faultVars
<1> QED
  BY <1>1, <1>2, <1>4, <1>5, <1>6, <1>7, <1>8, <1>9, <1>10, <1>11, <1>12,
     <1>13, <1>14, <1>15, <1>16, <1>17, <1>18, <1>19, <1>20, <1>21, <1>22,
     <1>23, <1>24, <1>25, <1>26, <1>27, <1>28
     DEF Next, CallerNext, SubmitDone, Joins, WorkerNext, WriterNext, Terminated

\* Every variable of the encode pipeline keeps its type: in particular the
\* chunk counters stay within the bound and the buffer holds only jobs.
THEOREM EncodeTypeCorrect == Spec => []TypeOK
BY InitType, StepType, PTL DEF Spec

-----------------------------------------------------------------------------
(* The layout of the stream.  The chunk table alone says nothing of what   *)
(* the next commit will write, so the inductive invariant follows every    *)
(* chunk from submit to commit: whatever is in flight is still the chunk   *)
(* that was submitted under its number.                                    *)

Counted == Len(submitted) = nextSeq /\ next = Len(index) /\ next <= nextSeq
Sending == caller = "send" => outbox.seq = nextSeq
Tracked ==
    \A j \in InFlight : j.seq < nextSeq /\ PlaceOf(j) = submitted[j.seq + 1]

StreamInv == TypeOK /\ Counted /\ Sending /\ Tracked /\ StreamMatchesSerial

\* What is in flight are jobs.
LEMMA FlightType == TypeOK => InFlight \subseteq Job
BY DEF TypeOK, InFlight, Held

\* Where a step may take the jobs in flight: submit adds the one it sends,
\* no other step adds any.
LEMMA FlightStep ==
    ASSUME TypeOK, [Next]_vars
    PROVE  InFlight' \subseteq InFlight \cup (IF SubmitSend THEN {outbox} ELSE {})
<1> USE DEF TypeOK, InFlight, Held
<1>1. CASE SubmitSend
  BY <1>1 DEF SubmitSend, workerVars, writerVars
<1>2. ASSUME UNCHANGED <<jobs, done, workerVars, writerVars>>
      PROVE  InFlight' \subseteq InFlight
  BY <1>2 DEF workerVars, writerVars
<1>3. CASE \/ SetExtent \/ SubmitStart \/ SubmitRefused \/ SubmitDisconnected
           \/ Cancel \/ Finish \/ Joins
  BY <1>2, <1>3 DEF SetExtent, SubmitStart, SubmitRefused, SubmitDisconnected,
                    Cancel, Unwind, Finish, Joins, JoinWorkers, JoinWriter
<1>4. ASSUME NEW w \in Workers, WorkerRecv(w)
      PROVE  InFlight' \subseteq InFlight
  <2>1. /\ jobs # <<>> /\ Head(jobs) = jobs[1] /\ Len(jobs) >= 1
        /\ \A i \in DOMAIN Tail(jobs) : Tail(jobs)[i] = jobs[i + 1]
                                          /\ i + 1 \in DOMAIN jobs
    BY <1>4, HeadTailProperties, LenProperties DEF WorkerRecv
  <2> QED
    BY <1>4, <2>1 DEF WorkerRecv, WorkerStep, writerVars
<1>5. ASSUME NEW w \in Workers,
             \/ WorkerExit(w) \/ WorkerSkip(w) \/ WorkerProceed(w) \/ EncodeOk(w)
             \/ EncodeError(w) \/ WorkerFlag(w) \/ WorkerDies(w)
      PROVE  InFlight' \subseteq InFlight
  BY <1>5 DEF WorkerExit, WorkerSkip, WorkerProceed, EncodeOk, EncodeError,
              WorkerFlag, WorkerDies, WorkerStep, Drops, Gone, writerVars
<1>6. ASSUME NEW w \in Workers, WorkerSend(w)
      PROVE  InFlight' \subseteq InFlight
  BY <1>6 DEF WorkerSend, WorkerStep, Drops, writerVars
<1>7. CASE WriterRecv
  <2>1. /\ done # <<>> /\ Head(done) = done[1] /\ Len(done) >= 1
        /\ \A i \in DOMAIN Tail(done) : Tail(done)[i] = done[i + 1]
                                          /\ i + 1 \in DOMAIN done
    BY <1>7, HeadTailProperties, LenProperties DEF WriterRecv
  <2> QED
    BY <1>7, <2>1 DEF WriterRecv, workerVars
<1>8. CASE \/ WriterDiscard \/ WriterBuffer \/ WriterCommit \/ WriteError
           \/ WriterFlag \/ WriterDrained \/ WriterExit
  BY <1>8 DEF WriterDiscard, WriterBuffer, WriterCommit, WriteError,
              WriterFlag, WriterDrained, WriterExit, workerVars
<1>9. CASE UNCHANGED vars
  BY <1>2, <1>9 DEF vars
<1> QED
  BY <1>1, <1>3, <1>4, <1>5, <1>6, <1>7, <1>8, <1>9
     DEF Next, CallerNext, SubmitDone, WorkerNext, WriterNext, Terminated

\* The table and the counters move in two steps only.
LEMMA TableStep ==
    ASSUME [Next]_vars
    PROVE  /\ WriterCommit \/ UNCHANGED <<index, next, offset>>
           /\ SubmitSend \/ UNCHANGED <<submitted, nextSeq>>
<1>1. CASE CallerNext
  BY <1>1 DEF CallerNext, SubmitDone, Joins, SetExtent, SubmitStart,
       SubmitRefused, SubmitSend, SubmitDisconnected, Cancel, Unwind, Finish,
       JoinWorkers, JoinWriter, writerVars
<1>2. ASSUME NEW w \in Workers, WorkerNext(w)
      PROVE  UNCHANGED <<callerVars, writerVars>>
  BY <1>2 DEF WorkerNext, WorkerRecv, WorkerExit, WorkerSkip, WorkerProceed,
       EncodeOk, EncodeError, WorkerFlag, WorkerDies, WorkerSend
<1>3. CASE WriterNext
  BY <1>3 DEF WriterNext, WriterRecv, WriterDiscard, WriterBuffer, WriteError,
       WriterFlag, WriterDrained, WriterExit, WriterCommit, callerVars
<1>4. CASE UNCHANGED vars
  BY <1>4 DEF vars, callerVars, writerVars
<1> QED
  BY <1>1, <1>2, <1>3, <1>4 DEF Next, Terminated, callerVars, writerVars

\* The caller is sending only what SubmitStart built.
LEMMA SendStep ==
    ASSUME [Next]_vars, caller' = "send"
    PROVE  SubmitStart \/ UNCHANGED <<caller, outbox>>
<1>1. CASE CallerNext
  BY <1>1 DEF CallerNext, SubmitDone, Joins, SetExtent,
       SubmitRefused, SubmitSend, SubmitDisconnected, Cancel, Unwind, Finish,
       JoinWorkers, JoinWriter
<1>2. CASE \E w \in Workers : WorkerNext(w)
  BY <1>2 DEF WorkerNext, WorkerRecv, WorkerExit, WorkerSkip, WorkerProceed,
       EncodeOk, EncodeError, WorkerFlag, WorkerDies, WorkerSend, callerVars
<1>3. CASE WriterNext
  BY <1>3 DEF WriterNext, WriterRecv, WriterDiscard, WriterBuffer, WriteError,
       WriterFlag, WriterDrained, WriterExit, WriterCommit, callerVars
<1>4. CASE UNCHANGED vars
  BY <1>4 DEF vars, callerVars
<1> QED
  BY <1>1, <1>2, <1>3, <1>4 DEF Next, Terminated

\* At the start nothing was submitted and nothing is in the table.
LEMMA InitStream == Init => StreamInv
<1> SUFFICES ASSUME Init PROVE StreamInv
  OBVIOUS
<1>1. InFlight = {}
  BY DEF Init, InFlight, Held
<1> QED
  BY <1>1, InitType
     DEF Init, StreamInv, Counted, Sending, Tracked, StreamMatchesSerial

\* Every step keeps each number at its submission, and the table at `next` rows.
LEMMA StepStream == StreamInv /\ [Next]_vars => StreamInv'
<1> SUFFICES ASSUME StreamInv, [Next]_vars PROVE StreamInv'
  OBVIOUS
<1> USE DEF StreamInv
<1>1. TypeOK'
  BY StepType
<1>2. CASE SubmitSend
  <2>1. /\ submitted' = Append(submitted, PlaceOf(outbox))
        /\ nextSeq' = nextSeq + 1 /\ caller' = "open"
        /\ UNCHANGED <<index, next, offset>>
        /\ outbox.seq = nextSeq
    BY <1>2 DEF SubmitSend, writerVars, Sending
  <2>2. /\ Len(submitted') = nextSeq + 1
        /\ submitted'[nextSeq + 1] = PlaceOf(outbox)
        /\ \A i \in 1 .. nextSeq : submitted'[i] = submitted[i]
    BY <2>1, PlaceType DEF TypeOK, Counted
  <2>3. Counted' /\ Sending'
    BY <2>1, <2>2 DEF Counted, Sending, TypeOK, Numbers
  <2>4. Tracked'
    <3> SUFFICES ASSUME NEW j \in InFlight'
                 PROVE  j.seq < nextSeq' /\ PlaceOf(j) = submitted'[j.seq + 1]
      BY DEF Tracked, PlaceOf
    <3>1. j \in InFlight \cup {outbox}
      BY FlightStep, <1>2
    <3>2. CASE j = outbox
      BY <2>1, <2>2, <3>2 DEF TypeOK, Numbers
    <3>3. CASE j \in InFlight
      <4>1. j.seq < nextSeq /\ PlaceOf(j) = submitted[j.seq + 1] /\ j.seq \in Nat
        BY <3>3, FlightType, SeqType DEF Tracked
      <4> QED
        BY <2>1, <2>2, <4>1 DEF TypeOK, Numbers
    <3> QED
      BY <3>1, <3>2, <3>3
  <2>5. StreamMatchesSerial'
    <3>1. \A i \in 1 .. Len(index) : submitted'[i] = submitted[i]
      <4>1. 1 .. Len(index) \subseteq 1 .. nextSeq
        BY DEF Counted, TypeOK, Numbers
      <4> QED
        BY <2>2, <4>1
    <3>2. Len(index') <= Len(submitted')
      BY <2>1, <2>2 DEF Counted, TypeOK, Numbers
    <3> QED
      BY <2>1, <3>1, <3>2 DEF StreamMatchesSerial, EndOf, PlaceOf
  <2> QED
    BY <1>1, <2>3, <2>4, <2>5
<1>3. CASE WriterCommit
  <2> PICK d \in Ready :
        /\ pending' = pending \ {d}
        /\ index' = Append(index, [offset |-> offset, extent |-> d.extent,
                                   chunk |-> d.chunk])
        /\ offset' = offset + CompLen[d.seq]
    BY <1>3 DEF WriterCommit
  <2>1. /\ d \in Job /\ d \in InFlight /\ d.seq = next /\ next = Len(index)
        /\ next < nextSeq /\ PlaceOf(d) = submitted[next + 1]
        /\ next' = next + 1
        /\ UNCHANGED <<caller, outbox, submitted, nextSeq>>
    BY <1>3 DEF WriterCommit, Ready, TypeOK, InFlight, Counted, Tracked, callerVars
  <2>2. /\ Len(index') = next + 1
        /\ index'[next + 1] = [offset |-> offset, extent |-> d.extent,
                               chunk |-> d.chunk]
        /\ \A i \in 1 .. next : index'[i] = index[i]
    BY <2>1, EntryType DEF TypeOK
  <2>3. Counted' /\ Sending'
    BY <2>1, <2>2 DEF Counted, Sending, TypeOK, Numbers
  <2>4. Tracked'
    BY <1>3, <2>1, FlightStep DEF Tracked, PlaceOf, WriterCommit, SubmitSend
  <2>5. StreamMatchesSerial'
    <3>1. Len(index') <= Len(submitted')
      BY <2>1, <2>2 DEF Counted, TypeOK, Numbers
    <3>2. ASSUME NEW i \in 1 .. Len(index')
          PROVE  /\ PlaceOf(index'[i]) = submitted'[i]
                 /\ index'[i].offset =
                      IF i = 1 THEN DataStart
                      ELSE index'[i - 1].offset + CompLen[(i - 1) - 1]
      <4>1. CASE i \in 1 .. next
        BY <2>1, <2>2, <4>1 DEF StreamMatchesSerial, EndOf, PlaceOf
      <4>2. CASE i = next + 1
        BY <2>1, <2>2, <4>2
           DEF StreamMatchesSerial, EndOf, PlaceOf, TypeOK, Numbers
      <4> QED
        BY <2>2, <4>1, <4>2 DEF TypeOK, Numbers
    <3>3. /\ index' # <<>>
          /\ offset' = index'[Len(index')].offset + CompLen[Len(index') - 1]
      BY <2>1, <2>2 DEF TypeOK, Numbers
    <3> QED
      BY <3>1, <3>2, <3>3 DEF StreamMatchesSerial, EndOf, PlaceOf
  <2> QED
    BY <1>1, <2>3, <2>4, <2>5
<1>4. CASE ~SubmitSend /\ ~WriterCommit
  <2>1. UNCHANGED <<index, next, offset, submitted, nextSeq>>
    BY <1>4, TableStep
  <2>2. InFlight' \subseteq InFlight
    BY <1>4, FlightStep
  <2>3. Counted' /\ StreamMatchesSerial'
    BY <2>1 DEF Counted, StreamMatchesSerial, EndOf, PlaceOf
  <2>4. Tracked'
    BY <2>1, <2>2 DEF Tracked, PlaceOf
  <2>5. Sending'
    <3>1. CASE SubmitStart
      BY <3>1 DEF SubmitStart, Sending
    <3>2. CASE ~SubmitStart
      BY <1>4, <2>1, <3>2, SendStep DEF Sending
    <3> QED
      BY <3>1, <3>2
  <2> QED
    BY <1>1, <2>3, <2>4, <2>5
<1> QED
  BY <1>2, <1>3, <1>4

\* The chunk table is the one the serial loop would have written, whatever the
\* workers' timing: right order, contiguous offsets (pipeline.rs:11-14).
THEOREM EncodeStreamMatchesSerial == Spec => []StreamMatchesSerial
<1>1. StreamInv => StreamMatchesSerial
  BY DEF StreamInv
<1> QED
  BY <1>1, InitStream, StepStream, PTL DEF Spec

-----------------------------------------------------------------------------
(* Success is complete.  `finish` only counts the table's rows; that the   *)
(* count settles the matter needs every number to be in one place only:    *)
(* those below `next` in the table, each of those from `next` on in one    *)
(* channel slot, one worker, or the writer's hands at most.                *)

Taken == nextSeq - Len(jobs)    \* how many jobs workers have received

Queued == \A i \in 1 .. Len(jobs) : jobs[i].seq = Taken + i - 1
Ranged ==
    /\ next <= Taken
    /\ \A w \in Workers : Held(w) => next <= wjob[w].seq /\ wjob[w].seq < Taken
    /\ \A i \in 1 .. Len(done) : next <= done[i].seq /\ done[i].seq < Taken
    /\ vpc = "check" => next <= vjob.seq /\ vjob.seq < Taken
    /\ \A d \in pending : next <= d.seq /\ d.seq < Taken
WorkerApart(w) ==
    /\ \A v \in Workers : Held(v) /\ wjob[v].seq = wjob[w].seq => v = w
    /\ \A i \in 1 .. Len(done) : done[i].seq # wjob[w].seq
    /\ vpc = "check" => vjob.seq # wjob[w].seq
    /\ \A d \in pending : d.seq # wjob[w].seq
WorkersApart == \A w \in Workers : Held(w) => WorkerApart(w)
ResultApart(i) ==
    /\ \A k \in 1 .. Len(done) : done[k].seq = done[i].seq => k = i
    /\ vpc = "check" => vjob.seq # done[i].seq
    /\ \A d \in pending : d.seq # done[i].seq
ResultsApart == \A i \in 1 .. Len(done) : ResultApart(i)
BufferApart ==
    \A d \in pending :
        /\ \A c \in pending : c.seq = d.seq => c = d
        /\ vpc = "check" => vjob.seq # d.seq
Apart == Queued /\ Ranged /\ WorkersApart /\ ResultsApart /\ BufferApart

\* At the start no job is anywhere.
LEMMA InitApart == Init => Apart
BY DEF Init, Apart, Queued, Ranged, WorkersApart, ResultsApart, BufferApart,
       WorkerApart, ResultApart, Taken, Held

\* The numbers are numbers, and the channels have lengths.
LEMMA Numbered ==
    ASSUME TypeOK
    PROVE  /\ nextSeq \in Nat /\ next \in Nat
           /\ Len(jobs) \in Nat /\ Len(done) \in Nat
           /\ \A i \in 1 .. Len(jobs) : jobs[i].seq \in Nat
           /\ \A i \in 1 .. Len(done) : done[i].seq \in Nat
           /\ \A w \in Workers : wjob[w].seq \in Nat
           /\ vjob.seq \in Nat
           /\ \A d \in pending : d.seq \in Nat
           /\ DOMAIN wjob = Workers /\ DOMAIN wpc = Workers
<1>1. \A j \in Job : j.seq \in Nat
  BY SeqType
<1> QED
  BY <1>1, EncodeAssumption DEF TypeOK, Numbers

\* Every step hands a job on; no two places come to hold the same number.
LEMMA StepApart == TypeOK /\ Sending /\ Apart /\ [Next]_vars => Apart'
<1> SUFFICES ASSUME TypeOK, Sending, Apart, [Next]_vars PROVE Apart'
  OBVIOUS
<1> USE DEF Apart, Queued, Ranged, WorkersApart, WorkerApart, ResultsApart,
            ResultApart, BufferApart, Taken, Held
<1>1. CASE SubmitSend
  <2>1. /\ outbox.seq = nextSeq /\ Len(jobs') = Len(jobs) + 1
        /\ jobs'[Len(jobs) + 1] = outbox
        /\ \A i \in 1 .. Len(jobs) : jobs'[i] = jobs[i]
        /\ nextSeq' = nextSeq + 1
        /\ UNCHANGED <<done, wpc, wjob, vpc, vjob, pending, next>>
    BY <1>1 DEF SubmitSend, Sending, TypeOK, workerVars, writerVars
  <2>2. Taken' = Taken
    BY <2>1, Numbered
  <2>3. ASSUME NEW i \in 1 .. Len(jobs') PROVE jobs'[i].seq = Taken' + i - 1
    <3>1. CASE i \in 1 .. Len(jobs)
      BY <2>1, <2>2, <3>1
    <3>2. CASE i = Len(jobs) + 1
      <4>1. jobs'[i].seq = nextSeq
        BY <2>1, <3>2
      <4>2. Taken + i - 1 = nextSeq
        BY <3>2, Numbered
      <4> QED
        BY <2>2, <4>1, <4>2
    <3> QED
      BY <2>1, <3>1, <3>2, Numbered
  <2> QED
    BY <2>1, <2>2, <2>3
<1>2. CASE UNCHANGED <<nextSeq, jobs, done, workerVars, writerVars>>
  BY <1>2 DEF workerVars, writerVars
<1>3. CASE \/ SetExtent \/ SubmitStart \/ SubmitRefused \/ SubmitDisconnected
           \/ Cancel \/ Finish \/ Joins
  BY <1>2, <1>3 DEF SetExtent, SubmitStart, SubmitRefused, SubmitDisconnected,
                    Cancel, Unwind, Finish, Joins, JoinWorkers, JoinWriter
<1>4. ASSUME NEW w \in Workers, WorkerRecv(w) PROVE Apart'
  <2>1. /\ jobs # <<>> /\ Len(jobs) >= 1
        /\ wjob' = [wjob EXCEPT ![w] = jobs[1]]
        /\ Len(jobs') = Len(jobs) - 1
        /\ \A i \in 1 .. Len(jobs') : jobs'[i] = jobs[i + 1]
    BY <1>4, HeadTailProperties, LenProperties DEF WorkerRecv, TypeOK
  <2>2. /\ wpc' = [wpc EXCEPT ![w] = "check"] /\ wpc[w] = "idle"
        /\ UNCHANGED <<nextSeq, done, vpc, vjob, pending, next>>
    BY <1>4 DEF WorkerRecv, WorkerStep, writerVars, callerVars
  <2>3. Taken' = Taken + 1 /\ jobs[1].seq = Taken
    BY <2>1, <2>2, Numbered
  <2>4. Queued'
    <3> SUFFICES ASSUME NEW i \in 1 .. Len(jobs')
                 PROVE  jobs'[i].seq = Taken' + i - 1
      OBVIOUS
    <3>1. i + 1 \in 1 .. Len(jobs) /\ jobs'[i] = jobs[i + 1] /\ i \in Nat
      BY <2>1, Numbered
    <3>2. jobs'[i].seq = Taken + (i + 1) - 1
      BY <3>1
    <3>3. Taken + (i + 1) - 1 = (Taken + 1) + i - 1
      BY <3>1, Numbered
    <3> QED
      BY <2>3, <3>2, <3>3
  <2>5. \A v \in Workers :
          IF v = w THEN wjob'[v].seq = Taken
          ELSE wjob'[v] = wjob[v] /\ (Held(v)' <=> Held(v))
    BY <2>1, <2>2, <2>3, Numbered
  <2>6. Ranged'
    BY <2>2, <2>3, <2>5, Numbered
  <2>7. WorkersApart'
    BY <2>2, <2>5, Numbered
  <2>8. ResultsApart' /\ BufferApart'
    BY <2>2
  <2> QED
    BY <2>4, <2>6, <2>7, <2>8
<1>5. ASSUME NEW w \in Workers,
             \/ WorkerExit(w) \/ WorkerSkip(w) \/ WorkerProceed(w) \/ EncodeOk(w)
             \/ EncodeError(w) \/ WorkerFlag(w) \/ WorkerDies(w)
      PROVE  Apart'
  <2>1. /\ \A v \in Workers : Held(v)' => Held(v) /\ wjob'[v] = wjob[v]
        /\ UNCHANGED <<nextSeq, jobs, done, vpc, vjob, pending, next>>
    BY <1>5, Numbered
       DEF WorkerExit, WorkerSkip, WorkerProceed, EncodeOk, EncodeError,
           WorkerFlag, WorkerDies, WorkerStep, Drops, Gone, writerVars, callerVars
  <2> QED
    BY <2>1
<1>6. ASSUME NEW w \in Workers, WorkerSend(w) PROVE Apart'
  <2>1. /\ Held(w) /\ ~Held(w)' /\ Len(done') = Len(done) + 1
        /\ done'[Len(done) + 1] = wjob[w]
        /\ \A i \in 1 .. Len(done) : done'[i] = done[i]
        /\ \A v \in Workers : Held(v)' => Held(v) /\ wjob'[v] = wjob[v]
        /\ UNCHANGED <<nextSeq, jobs, vpc, vjob, pending, next>>
    BY <1>6, Numbered
       DEF TypeOK, WorkerSend, WorkerStep, Drops, writerVars, callerVars
  <2>2. 1 .. Len(done') = (1 .. Len(done)) \cup {Len(done) + 1}
    BY <2>1, Numbered
  <2>3. /\ \A i \in 1 .. Len(done) : done'[i] = done[i]
        /\ \A i \in 1 .. Len(done') : i \in 1 .. Len(done) \/ done'[i] = wjob[w]
    BY <2>1, <2>2
  <2>4. Queued' /\ Ranged'
    BY <2>1, <2>3
  <2>5. WorkersApart'
    <3> SUFFICES ASSUME NEW v \in Workers, Held(v)' PROVE WorkerApart(v)'
      OBVIOUS
    <3>1. v # w /\ Held(v) /\ wjob'[v] = wjob[v]
      BY <2>1
    <3>2. \A i \in 1 .. Len(done') : done'[i].seq # wjob[v].seq
      BY <2>1, <2>3, <3>1
    <3> QED
      BY <2>1, <3>1, <3>2
  <2>6. ResultsApart'
    <3> SUFFICES ASSUME NEW i \in 1 .. Len(done') PROVE ResultApart(i)'
      OBVIOUS
    <3>1. CASE i \in 1 .. Len(done)
      <4>1. \A k \in 1 .. Len(done') : done'[k].seq = done'[i].seq => k = i
        <5>1. done[i].seq # wjob[w].seq /\ done'[i] = done[i]
          BY <2>1, <2>3, <3>1
        <5> QED
          BY <2>1, <2>3, <3>1, <5>1
      <4> QED
        BY <2>1, <2>3, <3>1, <4>1
    <3>2. CASE i = Len(done) + 1
      <4>1. \A k \in 1 .. Len(done) : done'[k].seq # done'[i].seq
        BY <2>1, <2>3, <3>2
      <4> QED
        BY <2>1, <2>2, <3>2, <4>1
    <3> QED
      BY <2>2, <3>1, <3>2
  <2>7. BufferApart'
    BY <2>1
  <2> QED
    BY <2>4, <2>5, <2>6, <2>7
<1>7. CASE WriterRecv
  <2>1. /\ done # <<>> /\ Len(done) >= 1
        /\ vjob' = done[1]
        /\ Len(done') = Len(done) - 1
        /\ \A i \in 1 .. Len(done') : done'[i] = done[i + 1]
        /\ UNCHANGED <<nextSeq, jobs, wpc, wjob, pending, next>>
    BY <1>7, HeadTailProperties, LenProperties
       DEF WriterRecv, TypeOK, workerVars, callerVars
  <2>2. /\ 1 \in 1 .. Len(done)
        /\ \A i \in 1 .. Len(done') : i + 1 \in 1 .. Len(done) /\ i + 1 # 1
        /\ \A i, k \in 1 .. Len(done') : i + 1 = k + 1 => i = k
    BY <2>1, Numbered
  <2>3. Queued' /\ Ranged'
    BY <2>1, <2>2
  <2>4. WorkersApart'
    BY <2>1, <2>2
  <2>5. ResultsApart'
    <3> SUFFICES ASSUME NEW i \in 1 .. Len(done') PROVE ResultApart(i)'
      OBVIOUS
    <3>1. \A k \in 1 .. Len(done') : done'[k].seq = done'[i].seq => k = i
      BY <2>1, <2>2
    <3>2. vjob'.seq # done'[i].seq /\ \A d \in pending : d.seq # done'[i].seq
      BY <2>1, <2>2
    <3> QED
      BY <2>1, <3>1, <3>2
  <2>6. BufferApart'
    BY <1>7, <2>1, <2>2 DEF WriterRecv
  <2> QED
    BY <2>3, <2>4, <2>5, <2>6
<1>8. CASE WriterCommit
  <2> PICK d \in pending : d.seq = next /\ pending' = pending \ {d}
    BY <1>8 DEF WriterCommit, Ready
  <2>1. /\ next' = next + 1 /\ vpc = "commit"
        /\ UNCHANGED <<nextSeq, jobs, done, wpc, wjob, vpc, vjob>>
    BY <1>8 DEF WriterCommit, workerVars, callerVars
  <2>2. Ranged'
    BY <2>1, Numbered
  <2> QED
    BY <2>1, <2>2
<1>9. CASE WriterBuffer
  BY <1>9 DEF WriterBuffer, workerVars, callerVars
<1>10. CASE WriterDiscard \/ WriteError \/ WriterFlag \/ WriterDrained \/ WriterExit
  BY <1>10 DEF WriterDiscard, WriteError, WriterFlag, WriterDrained, WriterExit,
               workerVars, callerVars
<1>11. CASE UNCHANGED vars
  BY <1>2, <1>11 DEF vars, callerVars
<1> QED
  BY <1>1, <1>3, <1>4, <1>5, <1>6, <1>7, <1>8, <1>9, <1>10, <1>11
     DEF Next, CallerNext, SubmitDone, WorkerNext, WriterNext, Terminated

\* The caller returns only after it joined the writer, and "ok" is only what
\* it returns with.
Phases ==
    /\ caller = "returned" => vpc = "exited"
    /\ result = "ok" => caller = "returned"

\* Only JoinWriter returns, and only its verdict is "ok".
LEMMA OutcomeStep ==
    ASSUME [Next]_vars
    PROVE  \/ JoinWriter
           \/ UNCHANGED <<caller, result>>
           \/ caller # "returned" /\ caller' # "returned"
<1>1. CASE CallerNext
  BY <1>1 DEF CallerNext, SubmitDone, Joins, SetExtent, SubmitStart,
       SubmitRefused, SubmitSend, SubmitDisconnected, Cancel, Unwind, Finish,
       JoinWorkers
<1>2. CASE \E w \in Workers : WorkerNext(w)
  BY <1>2 DEF WorkerNext, WorkerRecv, WorkerExit, WorkerSkip, WorkerProceed,
       EncodeOk, EncodeError, WorkerFlag, WorkerDies, WorkerSend, callerVars
<1>3. CASE WriterNext
  BY <1>3 DEF WriterNext, WriterRecv, WriterDiscard, WriterBuffer, WriteError,
       WriterFlag, WriterDrained, WriterExit, WriterCommit, callerVars
<1>4. CASE UNCHANGED vars
  BY <1>4 DEF vars, callerVars
<1> QED
  BY <1>1, <1>2, <1>3, <1>4 DEF Next, Terminated

\* The result becomes "ok" only when the writer is joined.
LEMMA OkStep ==
    ASSUME TypeOK, [Next]_vars, result # "ok", result' = "ok"
    PROVE  JoinWriter /\ FinishResult = "ok"
<1>1. CASE CallerNext
  <2>1. ~(SubmitRefused \/ SubmitDisconnected \/ Cancel)
    BY DEF SubmitRefused, SubmitDisconnected, Cancel, Unwind, TakenError, TypeOK
  <2> QED
    BY <1>1, <2>1 DEF CallerNext, SubmitDone, Joins, SetExtent, SubmitStart,
         SubmitSend, Finish, JoinWorkers, JoinWriter
<1>2. CASE \E w \in Workers : WorkerNext(w)
  BY <1>2 DEF WorkerNext, WorkerRecv, WorkerExit, WorkerSkip, WorkerProceed,
       EncodeOk, EncodeError, WorkerFlag, WorkerDies, WorkerSend, callerVars
<1>3. CASE WriterNext
  BY <1>3 DEF WriterNext, WriterRecv, WriterDiscard, WriterBuffer, WriteError,
       WriterFlag, WriterDrained, WriterExit, WriterCommit, callerVars
<1>4. CASE UNCHANGED vars
  BY <1>4 DEF vars, callerVars
<1> QED
  BY <1>1, <1>2, <1>3, <1>4 DEF Next, Terminated

\* Every step keeps the program counters of the threads in agreement.
LEMMA StepPhases == TypeOK /\ Phases /\ [Next]_vars => Phases'
<1> SUFFICES ASSUME TypeOK, Phases, [Next]_vars PROVE Phases'
  OBVIOUS
<1> USE DEF Phases
<1>1. CASE CallerNext
  <2>1. CASE SetExtent \/ SubmitStart \/ SubmitSend \/ Finish \/ JoinWorkers
    BY <2>1 DEF SetExtent, SubmitStart, SubmitSend, Finish, JoinWorkers
  <2>2. CASE SubmitRefused \/ SubmitDisconnected \/ Cancel
    <3>1. TakenError # "ok"
      BY DEF TakenError, TypeOK
    <3>2. result' \in {TakenError, "cancelled"}
      BY <2>2 DEF SubmitRefused, SubmitDisconnected, Cancel, Unwind
    <3>3. caller' # "returned"
      BY <2>2 DEF SubmitRefused, SubmitDisconnected, Cancel, Unwind
    <3> QED
      BY <3>1, <3>2, <3>3
  <2>3. CASE JoinWriter
    BY <2>3 DEF JoinWriter, writerVars
  <2> QED
    BY <1>1, <2>1, <2>2, <2>3 DEF CallerNext, SubmitDone, Joins
<1>2. ASSUME NEW w \in Workers, WorkerNext(w) PROVE UNCHANGED <<caller, result, vpc>>
  BY <1>2 DEF WorkerNext, WorkerRecv, WorkerExit, WorkerSkip, WorkerProceed,
       EncodeOk, EncodeError, WorkerFlag, WorkerDies, WorkerSend, callerVars,
       writerVars
<1>3. CASE WriterNext
  BY <1>3 DEF WriterNext, WriterRecv, WriterDiscard, WriterBuffer, WriteError,
       WriterFlag, WriterDrained, WriterExit, WriterCommit, callerVars
<1>4. CASE UNCHANGED vars
  BY <1>4 DEF vars, callerVars, writerVars
<1> QED
  BY <1>1, <1>2, <1>3, <1>4 DEF Next, Terminated

EncodeInv == StreamInv /\ Apart /\ Phases /\ FinishOkComplete

\* The invariant holds at the start.
LEMMA InitInv == Init => EncodeInv
BY InitStream, InitApart DEF EncodeInv, Init, Phases, FinishOkComplete

\* Success found nothing in flight: every number below next = nextSeq.
LEMMA CountSettles ==
    ASSUME StreamInv, Apart, Len(index) = nextSeq
    PROVE  InFlight = {}
<1> SUFFICES ASSUME NEW j \in InFlight PROVE FALSE
  OBVIOUS
<1>1. j \in Job /\ j.seq < nextSeq
  BY FlightType DEF StreamInv, Tracked
<1>2. next <= j.seq
  <2>1. ASSUME NEW i \in 1 .. Len(jobs) PROVE next <= jobs[i].seq
    <3>1. jobs[i].seq = Taken + i - 1 /\ next <= Taken
      BY DEF Apart, Queued, Ranged
    <3> QED
      BY <3>1, Numbered DEF StreamInv, Taken
  <2>2. DOMAIN jobs = 1 .. Len(jobs) /\ DOMAIN done = 1 .. Len(done)
    BY DEF StreamInv, TypeOK
  <2> QED
    BY <2>1, <2>2 DEF InFlight, Apart, Ranged
<1> QED
  BY <1>1, <1>2, Numbered, SeqType DEF StreamInv, Counted

\* Who returns "ok" has written all that was submitted.
LEMMA StepFinish ==
    ASSUME EncodeInv, [Next]_vars
    PROVE  FinishOkComplete'
<1> USE DEF EncodeInv
<1> SUFFICES ASSUME result' = "ok"
             PROVE  Len(index') = Len(submitted') /\ InFlight' = {}
  BY DEF FinishOkComplete
<1>1. CASE result = "ok"
  <2>1. caller = "returned" /\ InFlight = {} /\ Len(index) = Len(submitted)
    BY <1>1 DEF Phases, FinishOkComplete
  <2>2. ~SubmitSend /\ ~WriterCommit
    BY <2>1 DEF SubmitSend, WriterCommit, Ready, InFlight
  <2> QED
    BY <2>1, <2>2, TableStep, FlightStep DEF StreamInv
<1>2. CASE result # "ok"
  <2>1. JoinWriter /\ FinishResult = "ok"
    BY <1>2, OkStep DEF StreamInv
  <2>2. Len(index) = nextSeq /\ InFlight' \subseteq InFlight
        /\ UNCHANGED <<index, submitted>>
    BY <2>1, FlightStep
       DEF FinishResult, TakenError, StreamInv, TypeOK, JoinWriter, SubmitSend,
           writerVars
  <2> QED
    BY <2>2, CountSettles DEF StreamInv, Counted
<1> QED
  BY <1>1, <1>2

\* Every step keeps the invariant.
LEMMA StepInv == EncodeInv /\ [Next]_vars => EncodeInv'
BY StepStream, StepApart, StepPhases, StepFinish DEF EncodeInv, StreamInv

\* finish says "ok" only for a stream whose every chunk is in the table.
THEOREM EncodeFinishOkComplete == Spec => []FinishOkComplete
<1>1. EncodeInv => FinishOkComplete
  BY DEF EncodeInv
<1> QED
  BY <1>1, InitInv, StepInv, PTL DEF Spec

-----------------------------------------------------------------------------
(* Refinement: the pipeline implements the ordered stream. *)

\* The first state is one of an ordered stream.
LEMMA InitRefines == Init => Stream!AbsInit
BY DEF Init, Stream!AbsInit, Stored, Outcome

\* Every step is one of an ordered stream, or none.
LEMMA StepRefines ==
    ASSUME EncodeInv, [Next]_vars
    PROVE  [Stream!AbsNext]_(Stream!absVars)
<1> USE DEF EncodeInv, StreamInv
<1>1. CASE SubmitSend
  <2>1. Stream!Accept(PlaceOf(outbox))
    BY <1>1 DEF SubmitSend, writerVars, Stream!Accept, Stored, Outcome, PlaceOf
  <2> QED
    BY <2>1, PlaceType DEF Stream!AbsNext, TypeOK
<1>2. CASE WriterCommit
  <2> PICK d \in Ready :
        index' = Append(index, [offset |-> offset, extent |-> d.extent,
                                chunk |-> d.chunk])
    BY <1>2 DEF WriterCommit
  <2>1. /\ d \in Job /\ d \in InFlight /\ d.seq = next /\ next = Len(index)
        /\ next < nextSeq /\ PlaceOf(d) = submitted[next + 1]
        /\ nextSeq = Len(submitted)
        /\ caller # "returned"
        /\ UNCHANGED <<caller, result, submitted>>
    BY <1>2 DEF WriterCommit, Ready, TypeOK, InFlight, Counted, Tracked, Phases,
                callerVars
  <2>2. /\ Len(Stored) = next /\ Len(Stored') = next + 1
        /\ Stored' = Append(Stored, PlaceOf(d))
    BY <2>1, EntryType DEF Stored, PlaceOf, TypeOK
  <2>3. Stream!Store
    BY <2>1, <2>2 DEF Stream!Store, Outcome
  <2> QED
    BY <2>3 DEF Stream!AbsNext
<1>3. CASE JoinWriter
  <2>1. /\ UNCHANGED <<submitted, index>> /\ Stored' = Stored
        /\ Outcome = "none" /\ Outcome' \in {"ok", "failed"}
    BY <1>3 DEF JoinWriter, Outcome, Stored, writerVars, PlaceOf
  <2>2. CASE Outcome' = "ok"
    <3>1. Len(index) = nextSeq
      BY <1>3, <2>2 DEF JoinWriter, Outcome, Phases, FinishResult, TakenError, TypeOK
    <3>2. Stored = submitted
      BY <3>1 DEF Stored, Counted, StreamMatchesSerial, TypeOK
    <3> QED
      BY <2>1, <2>2, <3>2 DEF Stream!AbsNext, Stream!Complete
  <2>3. CASE Outcome' = "failed"
    BY <2>1, <2>3 DEF Stream!AbsNext, Stream!Abort
  <2> QED
    BY <2>1, <2>2, <2>3
<1>4. CASE ~SubmitSend /\ ~WriterCommit /\ ~JoinWriter
  <2>1. UNCHANGED <<submitted, index>>
    BY <1>4, TableStep
  <2>2. Outcome' = Outcome
    BY <1>4, OutcomeStep DEF Outcome
  <2> QED
    BY <2>1, <2>2 DEF Stream!absVars, Stored, PlaceOf
<1> QED
  BY <1>1, <1>2, <1>3, <1>4

\* The threaded pipeline implements the ordered stream for any number of
\* workers and any channel capacity.
THEOREM EncodeImplementsStream == Spec => ImplementsStream
BY InitInv, StepInv, InitRefines, StepRefines, PTL
   DEF Spec, ImplementsStream, Stream!AbsSpec

-----------------------------------------------------------------------------
(* Who is told what.  That a failure without a reason means a death needs   *)
(* two things: an error is parked before the flag is raised and nobody      *)
(* empties the slot but the one who reports it; and as long as no error was *)
(* met and no worker died every submitted number is in the table or in      *)
(* flight, so that the writer's exit finds nothing missing.                 *)

Dead == \E w \in Workers : wpc[w] = "dead"
Flagging == failed \/ vpc = "flag" \/ \E w \in Workers : wpc[w] = "flag"
Parked ==
    /\ result = "none" /\ Flagging => error # "none"
    /\ error = "lost" => Dead
Departed ==
    /\ \A w \in Workers : wpc[w] = "exited" => ~IntakeOpen /\ jobs = <<>>
    /\ vpc = "exited" => AllWorkersGone
    /\ IntakeOpen => result = "none"
NoneMissing == \A n \in 0 .. nextSeq - 1 : n < next \/ \E j \in InFlight : j.seq = n
Kept ==
    ~Flagging /\ ~Dead =>
        /\ NoneMissing
        /\ vpc \in {"recv", "check", "exited"} => Ready = {}
        /\ vpc = "exited" => next = nextSeq
BlameInv == Parked /\ Departed /\ Kept /\ OnlyDeathIsUnexplained

\* At the start there is nobody to blame.
LEMMA InitBlame == Init => BlameInv
<1> SUFFICES ASSUME Init PROVE BlameInv
  OBVIOUS
<1>1. Parked /\ Departed /\ OnlyDeathIsUnexplained
  BY DEF Init, Parked, Departed, IntakeOpen, OnlyDeathIsUnexplained, Flagging
<1>2. Kept
  BY DEF Init, Kept, NoneMissing, Ready
<1> QED
  BY <1>1, <1>2 DEF BlameInv

\* Who changes what: a death is for ever, and the flag, once an error is met,
\* stays on its way up.
LEMMA TroubleStays ==
    ASSUME TypeOK, [Next]_vars
    PROVE  /\ Dead => Dead'
           /\ Flagging => Flagging'
<1> USE DEF TypeOK, Dead, Flagging
<1>1. CASE CallerNext
  BY <1>1 DEF CallerNext, SubmitDone, Joins, SetExtent, SubmitStart,
       SubmitRefused, SubmitSend, SubmitDisconnected, Cancel, Unwind, Finish,
       JoinWorkers, JoinWriter, workerVars, writerVars, faultVars
<1>2. ASSUME NEW w \in Workers, WorkerNext(w) PROVE (Dead => Dead') /\ (Flagging => Flagging')
  BY <1>2 DEF WorkerNext, WorkerRecv, WorkerExit, WorkerSkip, WorkerProceed, WorkerStep,
       EncodeOk, EncodeError, WorkerFlag, WorkerDies, WorkerSend, writerVars, faultVars
<1>3. CASE WriterNext
  BY <1>3 DEF WriterNext, WriterRecv, WriterDiscard, WriterBuffer, WriteError, workerVars,
       WriterFlag, WriterDrained, WriterExit, WriterCommit, faultVars
<1>4. CASE UNCHANGED vars
  BY <1>4 DEF vars, workerVars, writerVars, faultVars
<1> QED
  BY <1>1, <1>2, <1>3, <1>4 DEF Next, Terminated

\* The jobs in flight, place by place.
Queue(q) == {q[i] : i \in DOMAIN q}
InHand == {wjob[w] : w \in {v \in Workers : Held(v)}}
\* A job in flight is in a channel, in a hand, or in the buffer.
LEMMA FlightParts ==
    InFlight = Queue(jobs) \cup Queue(done) \cup InHand \cup pending
                 \cup (IF vpc = "check" THEN {vjob} ELSE {})
BY DEF InFlight, Queue, InHand

\* The same after a step.
LEMMA FlightPartsNext ==
    InFlight' = Queue(jobs') \cup Queue(done') \cup InHand' \cup pending'
                 \cup (IF vpc' = "check" THEN {vjob'} ELSE {})
BY DEF InFlight, Queue, InHand

\* A sent message is in the queue with those that were there.
LEMMA QueueAppend ==
    ASSUME NEW S, NEW q \in Seq(S), NEW m \in S
    PROVE  Queue(Append(q, m)) = Queue(q) \cup {m}
<1>1. PICK n \in Nat : n = Len(q)
    BY LenProperties
<1>2. DOMAIN q = 1 .. n /\ DOMAIN Append(q, m) = 1 .. n + 1
    BY <1>1, AppendProperties, LenProperties
<1>3. (\A i \in 1 .. n : Append(q, m)[i] = q[i]) /\ Append(q, m)[n + 1] = m
    BY <1>1, AppendProperties
<1>4. 1 .. n + 1 = (1 .. n) \cup {n + 1}
    BY <1>1
<1> QED BY <1>2, <1>3, <1>4 DEF Queue

\* A queue holds its head and what is behind it.
LEMMA QueueTail ==
    ASSUME NEW S, NEW q \in Seq(S), q # <<>>
    PROVE  Queue(q) = Queue(Tail(q)) \cup {Head(q)} /\ Head(q) \in S /\ Tail(q) \in Seq(S)
<1>1. PICK n \in Nat : n = Len(q)
    BY LenProperties
<1>2. /\ n > 0 /\ DOMAIN q = 1 .. n /\ Head(q) = q[1]
    BY <1>1, LenProperties, EmptySeq
<1>3. /\ Tail(q) \in Seq(S) /\ Head(q) \in S /\ Len(Tail(q)) = n - 1
      /\ \A i \in 1 .. n - 1 : Tail(q)[i] = q[i + 1]
    BY <1>1, HeadTailProperties
<1>4. DOMAIN Tail(q) = 1 .. n - 1
    BY <1>3, LenProperties
<1>5. ASSUME NEW i \in 1 .. n PROVE q[i] \in Queue(Tail(q)) \cup {Head(q)}
    <2>1. CASE i = 1
        BY <1>2, <2>1
    <2>2. CASE i # 1
        <3>1. i - 1 \in 1 .. n - 1 /\ q[i] = Tail(q)[i - 1]
            BY <1>1, <1>3, <2>2
        <3> QED BY <1>4, <3>1 DEF Queue
    <2> QED BY <2>1, <2>2
<1>6. ASSUME NEW i \in 1 .. n - 1 PROVE Tail(q)[i] \in Queue(q)
    <2>1. i + 1 \in 1 .. n /\ Tail(q)[i] = q[i + 1]
        BY <1>1, <1>3
    <2> QED BY <1>2, <2>1 DEF Queue
<1>7. Head(q) \in Queue(q)
    BY <1>1, <1>2 DEF Queue
<1> QED BY <1>2, <1>3, <1>4, <1>5, <1>6, <1>7 DEF Queue

\* As long as no error was met and nobody died, a job leaves the pipeline into the
\* table only.
LEMMA FlightKept ==
    ASSUME TypeOK, [Next]_vars, ~Flagging', ~Dead'
    PROVE  /\ InFlight \subseteq InFlight' \cup (IF WriterCommit THEN Ready ELSE {})
           /\ SubmitSend => outbox \in InFlight'
<1>0. /\ jobs \in Seq(Job) /\ done \in Seq(Job) /\ wjob \in [Workers -> Job]
      /\ wpc \in [Workers -> {"idle", "check", "encode", "send", "flag"} \cup Gone]
      /\ nextSeq \in Nat /\ outbox \in Job
  BY EncodeAssumption DEF TypeOK, Numbers
<1>1. CASE SubmitSend
  <2>1. /\ jobs' = Append(jobs, outbox) /\ UNCHANGED <<done, wpc, wjob, vpc, vjob, pending>>
    BY <1>1 DEF SubmitSend, workerVars, writerVars
  <2>2. Queue(jobs') = Queue(jobs) \cup {outbox} /\ InHand' = InHand
    BY <1>0, <2>1, QueueAppend DEF InHand, Held
  <2> QED
    BY <2>1, <2>2, FlightParts, FlightPartsNext
<1>2. ASSUME UNCHANGED <<nextSeq, jobs, done, workerVars, writerVars>>
      PROVE  InFlight \subseteq InFlight' /\ ~SubmitSend
  BY <1>0, <1>2 DEF workerVars, writerVars, InFlight, Held, SubmitSend
<1>3. CASE \/ SetExtent \/ SubmitStart \/ SubmitRefused \/ SubmitDisconnected
           \/ Cancel \/ Finish \/ Joins
  BY <1>2, <1>3 DEF SetExtent, SubmitStart, SubmitRefused, SubmitDisconnected,
                Cancel, Unwind, Finish, Joins, JoinWorkers, JoinWriter
<1>4. ASSUME NEW w \in Workers, WorkerNext(w) PROVE ~SubmitSend /\ ~WriterCommit
  <2>1. UNCHANGED <<nextSeq, next>>
    BY <1>4 DEF WorkerNext, WorkerRecv, WorkerExit, WorkerSkip, WorkerProceed, EncodeOk,
       EncodeError, WorkerFlag, WorkerDies, WorkerSend, callerVars, writerVars
  <2>2. next \in Nat
    BY EncodeAssumption DEF TypeOK, Numbers
  <2> QED
    BY <1>0, <2>1, <2>2 DEF SubmitSend, WriterCommit
<1>5. ASSUME NEW w \in Workers, WorkerRecv(w)
      PROVE  InFlight \subseteq InFlight'
  <2>1. /\ jobs # <<>> /\ jobs' = Tail(jobs) /\ wpc[w] = "idle"
        /\ wpc'[w] = "check" /\ wjob'[w] = Head(jobs)
        /\ \A v \in Workers : v # w => wpc'[v] = wpc[v] /\ wjob'[v] = wjob[v]
        /\ UNCHANGED <<done, pending, vpc, vjob>>
    BY <1>0, <1>5 DEF WorkerRecv, WorkerStep, writerVars
  <2>2. Queue(jobs) = Queue(jobs') \cup {Head(jobs)}
    BY <1>0, <2>1, QueueTail
  <2>3. InHand \subseteq InHand'
    <3> SUFFICES ASSUME NEW v \in Workers, Held(v) PROVE wjob[v] \in InHand'
      BY DEF InHand
    <3> QED
      BY <2>1 DEF InHand, Held
  <2>4. Head(jobs) \in InHand'
    BY <2>1 DEF InHand, Held
  <2> QED
    BY <2>1, <2>2, <2>3, <2>4, FlightParts, FlightPartsNext
<1>6. ASSUME NEW w \in Workers,
             \/ WorkerExit(w) \/ WorkerSkip(w) \/ WorkerProceed(w) \/ EncodeOk(w)
             \/ EncodeError(w) \/ WorkerFlag(w) \/ WorkerDies(w)
      PROVE  InFlight \subseteq InFlight'
  <2>1. ~(WorkerSkip(w) \/ EncodeError(w) \/ WorkerDies(w))
    BY <1>0 DEF WorkerSkip, EncodeError, WorkerDies, WorkerStep, faultVars, Flagging, Dead
  <2>2. /\ wjob' = wjob /\ UNCHANGED <<jobs, done, pending, vpc, vjob>>
        /\ \A v \in Workers : Held(v) => Held(v)'
    BY <1>0, <1>6, <2>1 DEF WorkerExit, WorkerProceed, EncodeOk, WorkerFlag, WorkerStep, writerVars,
       Held
  <2> QED
    BY <2>2 DEF InFlight
<1>7. ASSUME NEW w \in Workers, WorkerSend(w)
      PROVE  InFlight \subseteq InFlight'
  <2>1. /\ done' = Append(done, wjob[w])
        /\ \A v \in Workers : v # w => wpc'[v] = wpc[v] /\ wjob'[v] = wjob[v]
        /\ UNCHANGED <<jobs, pending, vpc, vjob>>
    BY <1>0, <1>7 DEF WorkerSend, WorkerStep, Drops, writerVars
  <2>2. Queue(done') = Queue(done) \cup {wjob[w]}
    <3>1. wjob[w] \in Job
      BY <1>0
    <3> QED
      BY <1>0, <2>1, <3>1, QueueAppend
  <2>3. InHand \subseteq InHand' \cup {wjob[w]}
    <3> SUFFICES ASSUME NEW v \in Workers, Held(v), v # w PROVE wjob[v] \in InHand'
      BY DEF InHand
    <3> QED
      BY <2>1 DEF InHand, Held
  <2> QED
    BY <2>1, <2>2, <2>3, FlightParts, FlightPartsNext
<1>8. CASE WriterRecv
  <2>1. /\ done # <<>> /\ done' = Tail(done) /\ vjob' = Head(done) /\ vpc' = "check" /\ vpc = "recv"
        /\ UNCHANGED <<jobs, pending, wpc, wjob, nextSeq>>
    BY <1>8 DEF WriterRecv, workerVars, callerVars
  <2>2. Queue(done) = Queue(done') \cup {Head(done)} /\ InHand' = InHand
    BY <1>0, <2>1, QueueTail DEF InHand, Held
  <2>3. ~SubmitSend
    BY <1>0, <2>1 DEF SubmitSend
  <2> QED
    BY <2>1, <2>2, <2>3, FlightParts, FlightPartsNext
<1>9. CASE WriterCommit
  <2>1. PICK d \in Ready : pending' = pending \ {d}
    BY <1>9 DEF WriterCommit
  <2>2. UNCHANGED <<jobs, done, wpc, wjob, vpc, vjob, nextSeq>>
    BY <1>9 DEF WriterCommit, workerVars, callerVars
  <2>3. InHand' = InHand /\ ~SubmitSend
    BY <1>0, <2>2 DEF InHand, Held, SubmitSend
  <2> QED
    BY <1>9, <2>1, <2>2, <2>3, FlightParts, FlightPartsNext
<1>10. CASE \/ WriterDiscard \/ WriterBuffer \/ WriteError
           \/ WriterFlag \/ WriterDrained \/ WriterExit
  <2>1. ~(WriterDiscard \/ WriteError)
    BY DEF WriterDiscard, WriteError, faultVars, Flagging
  <2>2. UNCHANGED <<jobs, done, wpc, wjob, nextSeq>>
    BY <1>10 DEF WriterDiscard, WriterBuffer, WriteError, WriterFlag, WriterDrained, WriterExit,
       workerVars, callerVars
  <2>3. /\ pending \subseteq pending'
        /\ vpc = "check" => vjob \in pending'
    BY <1>10, <2>1 DEF WriterBuffer, WriterFlag, WriterDrained, WriterExit
  <2>4. InHand' = InHand /\ ~SubmitSend
    BY <1>0, <2>2 DEF InHand, Held, SubmitSend
  <2> QED
    BY <2>2, <2>3, <2>4, FlightParts, FlightPartsNext
<1>11. CASE UNCHANGED vars
  BY <1>2, <1>11 DEF vars, callerVars
<1> QED
  BY <1>1, <1>3, <1>4, <1>5, <1>6, <1>7, <1>8, <1>9, <1>10, <1>11
     DEF Next, CallerNext, SubmitDone, WorkerNext, WriterNext, Terminated

\* Workers leave only when the intake is closed and empty, the writer only when
\* they have left.
LEMMA StepDeparted ==
    ASSUME TypeOK, Departed, [Next]_vars
    PROVE  Departed'
<1> USE DEF TypeOK, Departed, AllWorkersGone, IntakeOpen, Gone
<1>1. CASE SubmitSend
  BY <1>1 DEF SubmitSend, workerVars, writerVars
<1>2. CASE \/ SetExtent \/ SubmitStart \/ SubmitRefused \/ SubmitDisconnected
           \/ Cancel \/ Finish \/ Joins
  BY <1>2 DEF SetExtent, SubmitStart, SubmitRefused, SubmitDisconnected, Cancel, Unwind, Finish,
              Joins, JoinWorkers, JoinWriter, workerVars, writerVars
<1>3. ASSUME NEW w \in Workers, WorkerNext(w) PROVE Departed'
  <2>1. wpc[w] \notin Gone /\ vpc # "exited" /\ vpc' = vpc /\ caller' = caller /\ result' = result
    BY <1>3 DEF WorkerNext, WorkerRecv, WorkerExit, WorkerSkip, WorkerProceed, EncodeOk, EncodeError,
       WorkerFlag, WorkerDies, WorkerSend, WorkerStep, callerVars, writerVars
  <2>2. \A v \in Workers : v # w => wpc'[v] = wpc[v]
    BY <1>3 DEF WorkerNext, WorkerRecv, WorkerExit, WorkerSkip, WorkerProceed, EncodeOk, EncodeError,
       WorkerFlag, WorkerDies, WorkerSend, WorkerStep
  <2>3. jobs = <<>> => jobs' = <<>>
    BY <1>3 DEF WorkerNext, WorkerRecv, WorkerExit, WorkerSkip, WorkerProceed, EncodeOk, EncodeError,
       WorkerFlag, WorkerDies, WorkerSend
  <2>4. wpc'[w] = "exited" => jobs = <<>> /\ ~IntakeOpen
    BY <1>3 DEF WorkerNext, WorkerRecv, WorkerExit, WorkerSkip, WorkerProceed, EncodeOk, EncodeError,
       WorkerFlag, WorkerDies, WorkerSend, WorkerStep
  <2> QED
    BY <2>1, <2>2, <2>3, <2>4
<1>4. CASE WriterNext
  BY <1>4 DEF WriterNext, WriterRecv, WriterDiscard, WriterBuffer, WriteError, WriterFlag,
       WriterDrained, WriterExit, WriterCommit, callerVars, workerVars
<1>5. CASE UNCHANGED vars
  BY <1>5 DEF vars, callerVars, workerVars, writerVars
<1> QED
  BY <1>1, <1>2, <1>3, <1>4, <1>5 DEF Next, CallerNext, SubmitDone, Terminated

\* A stream whose workers were lost to nobody has, when the writer leaves, every
\* number in the table.
LEMMA NothingMissing ==
    ASSUME TypeOK, Departed, Kept, Counted, Apart, ~Dead, AllWorkersGone, ~failed, vpc = "recv",
           done = <<>>
    PROVE  pending = {} /\ next = nextSeq
<1>1. \A w \in Workers : wpc[w] = "exited"
  BY DEF AllWorkersGone, Gone, Dead
<1>2. jobs = <<>> /\ ~Flagging
  BY <1>1, EncodeAssumption DEF Departed, Flagging
<1>3. NoneMissing /\ Ready = {}
  BY <1>2 DEF Kept
<1>4. InFlight = pending
  <2>1. Queue(jobs) = {} /\ Queue(done) = {}
    BY <1>2 DEF Queue
  <2>2. InHand = {}
    BY <1>1 DEF InHand, Held
  <2> QED
    BY <2>1, <2>2, FlightParts
<1>5. next \in Nat /\ nextSeq \in Nat /\ next <= nextSeq
  BY EncodeAssumption DEF TypeOK, Numbers, Counted
<1>6. next = nextSeq
  <2> SUFFICES ASSUME next < nextSeq PROVE FALSE
    BY <1>5
  <2>1. next \in 0 .. nextSeq - 1
    BY <1>5
  <2>2. \E j \in pending : j.seq = next
    BY <1>3, <1>4, <1>5, <2>1 DEF NoneMissing
  <2> QED
    BY <1>3, <2>2 DEF Ready
<1>7. ASSUME NEW d \in pending PROVE FALSE
  <2>1. next <= d.seq /\ d.seq < Taken /\ Taken = nextSeq /\ d.seq \in Nat
    BY <1>2, <1>5, Numbered DEF Apart, Ranged, Taken
  <2> QED
    BY <1>5, <1>6, <2>1
<1> QED
  BY <1>6, <1>7

\* Nobody empties the slot of a failure before its owner is told, and "lost" is
\* parked only for a chunk that died with its worker.
LEMMA StepParked ==
    ASSUME TypeOK, Departed, Parked, Kept, Counted, Apart, [Next]_vars
    PROVE  Parked'
<1> USE DEF TypeOK, Parked, Flagging, Dead
<1>1. CASE SetExtent \/ SubmitStart \/ SubmitSend \/ Finish \/ JoinWorkers
  BY <1>1 DEF SetExtent, SubmitStart, SubmitSend, Finish, JoinWorkers, workerVars, writerVars,
       faultVars
<1>2. CASE SubmitRefused \/ SubmitDisconnected
  <2>1. error' = "none" /\ result' = TakenError
    BY <1>2 DEF SubmitRefused, SubmitDisconnected, Unwind
  <2> QED
    BY <2>1 DEF TakenError
<1>3. CASE Cancel
  BY <1>3 DEF Cancel, Unwind, workerVars, writerVars
<1>4. CASE JoinWriter
  BY <1>4 DEF JoinWriter, FinishResult, TakenError, workerVars, writerVars
<1>5. ASSUME NEW w \in Workers, WorkerNext(w) PROVE Parked'
  <2>1. CASE EncodeError(w)
    BY <2>1 DEF EncodeError, FirstError, WorkerStep, callerVars, writerVars
  <2>2. CASE WorkerFlag(w)
    BY <2>2 DEF WorkerFlag, WorkerStep, callerVars, writerVars
  <2>3. CASE WorkerRecv(w) \/ WorkerExit(w) \/ WorkerSkip(w) \/ WorkerProceed(w) \/ EncodeOk(w)
             \/ WorkerDies(w) \/ WorkerSend(w)
    BY <2>3 DEF WorkerRecv, WorkerExit, WorkerSkip, WorkerProceed, EncodeOk, WorkerDies, WorkerSend,
         WorkerStep, callerVars, writerVars, faultVars, Gone
  <2> QED
    BY <1>5, <2>1, <2>2, <2>3 DEF WorkerNext
<1>6. CASE \/ WriterRecv \/ WriterDiscard \/ WriterBuffer \/ WriterCommit \/ WriteError
           \/ WriterFlag \/ WriterDrained
  BY <1>6 DEF WriterRecv, WriterDiscard, WriterBuffer, WriteError, WriterFlag, WriterDrained,
       WriterCommit, FirstError, callerVars, workerVars, faultVars
<1>7. CASE WriterExit
  <2>1. /\ done = <<>> /\ AllWorkersGone /\ vpc = "recv" /\ UNCHANGED <<wpc, result, pending>>
        /\ vpc' = "exited"
        /\ IF pending # {} /\ ~failed
           THEN error' = FirstError("lost") /\ failed' = TRUE
           ELSE UNCHANGED <<failed, error>>
    BY <1>7 DEF WriterExit, faultVars, workerVars, callerVars
  <2>2. CASE pending # {} /\ ~failed
    <3>1. Dead
      BY <2>1, <2>2, NothingMissing
    <3> QED
      BY <2>1, <2>2, <3>1 DEF FirstError
  <2>3. CASE ~(pending # {} /\ ~failed)
    BY <2>1, <2>3
  <2> QED
    BY <2>2, <2>3
<1>8. CASE UNCHANGED vars
  BY <1>8 DEF vars, callerVars, workerVars, writerVars, faultVars
<1> QED
  BY <1>1, <1>2, <1>3, <1>4, <1>5, <1>6, <1>7, <1>8
     DEF Next, CallerNext, SubmitDone, Joins, WriterNext, Terminated

\* As long as nothing went wrong every submitted number is in the table or in
\* flight, and the writer waits for results only when it has not the next one.
LEMMA StepKept ==
    ASSUME TypeOK, Departed, Kept, Counted, Sending, Apart, [Next]_vars
    PROVE  Kept'
<1> SUFFICES ASSUME ~Flagging', ~Dead'
             PROVE  /\ NoneMissing'
                    /\ vpc' \in {"recv", "check", "exited"} => Ready' = {}
                    /\ vpc' = "exited" => next' = nextSeq'
  BY DEF Kept
<1>1. ~Flagging /\ ~Dead
  BY TroubleStays
<1>2. /\ NoneMissing
      /\ vpc \in {"recv", "check", "exited"} => Ready = {}
      /\ vpc = "exited" => next = nextSeq
  BY <1>1 DEF Kept
<1>3. next \in Nat /\ nextSeq \in Nat /\ \A j \in Job : j.seq \in Nat
  BY EncodeAssumption, SeqType DEF TypeOK, Numbers
<1>4. /\ InFlight \subseteq InFlight' \cup (IF WriterCommit THEN Ready ELSE {})
      /\ SubmitSend => outbox \in InFlight'
  BY FlightKept
<1>5. /\ WriterCommit \/ UNCHANGED next
      /\ SubmitSend \/ UNCHANGED nextSeq
      /\ WriterCommit => next' = next + 1
      /\ SubmitSend => nextSeq' = nextSeq + 1 /\ outbox.seq = nextSeq
  BY TableStep DEF WriterCommit, SubmitSend, Sending
<1>6. NoneMissing'
  <2> SUFFICES ASSUME NEW n \in 0 .. nextSeq' - 1 PROVE n < next' \/ \E j \in InFlight' : j.seq = n
    BY DEF NoneMissing
  <2>1. CASE SubmitSend /\ n = nextSeq
    BY <1>4, <1>5, <2>1
  <2>2. CASE n \in 0 .. nextSeq - 1
    <3>1. n < next \/ \E j \in InFlight : j.seq = n
      BY <1>2, <2>2 DEF NoneMissing
    <3>2. n < next => n < next'
      BY <1>3, <1>5
    <3>3. ASSUME NEW j \in InFlight, j.seq = n PROVE j \in InFlight' \/ n < next'
      <4>1. CASE j \in InFlight'
        BY <4>1
      <4>2. CASE WriterCommit /\ j \in Ready
        BY <1>3, <1>5, <3>3, <4>2 DEF Ready
      <4> QED
        BY <1>4, <4>1, <4>2
    <3> QED
      BY <3>1, <3>2, <3>3
  <2> QED
    BY <1>3, <1>5, <2>1, <2>2
<1>7. vpc' \in {"recv", "check", "exited"} => Ready' = {}
  <2>1. CASE WriterNext
    <3>1. ~(WriterDiscard \/ WriteError \/ WriterFlag)
      BY <1>1 DEF WriterDiscard, WriteError, WriterFlag, Flagging, faultVars
    <3>2. CASE WriterRecv \/ WriterDrained \/ WriterExit
      BY <1>2, <3>2 DEF WriterRecv, WriterDrained, WriterExit, Ready
    <3>3. CASE WriterBuffer \/ WriterCommit
      BY <3>3 DEF WriterBuffer, WriterCommit
    <3> QED
      BY <2>1, <3>1, <3>2, <3>3 DEF WriterNext
  <2>2. CASE ~WriterNext
    <3>1. UNCHANGED <<vpc, pending, next>>
      <4>1. CASE CallerNext
        BY <4>1 DEF CallerNext, SubmitDone, Joins, SetExtent, SubmitStart, SubmitRefused, SubmitSend,
           SubmitDisconnected, Cancel, Unwind, Finish, JoinWorkers, JoinWriter, writerVars
      <4>2. ASSUME NEW w \in Workers, WorkerNext(w) PROVE UNCHANGED writerVars
        BY <4>2 DEF WorkerNext, WorkerRecv, WorkerExit, WorkerSkip, WorkerProceed, EncodeOk,
           EncodeError, WorkerFlag, WorkerDies, WorkerSend
      <4>3. CASE UNCHANGED vars
        BY <4>3 DEF vars, writerVars
      <4> QED
        BY <2>2, <4>1, <4>2, <4>3 DEF Next, Terminated, writerVars
    <3> QED
      BY <1>2, <3>1 DEF Ready
  <2> QED
    BY <2>1, <2>2
<1>8. vpc' = "exited" => next' = nextSeq'
  <2>1. CASE vpc = "exited"
    <3>1. ~SubmitSend /\ ~WriterCommit
      BY <2>1 DEF SubmitSend, WriterCommit, Departed
    <3> QED
      BY <1>2, <1>5, <2>1, <3>1
  <2>2. CASE vpc # "exited" /\ vpc' = "exited"
    <3>1. WriterExit
      <4>1. CASE CallerNext
        BY <2>2, <4>1 DEF CallerNext, SubmitDone, Joins, SetExtent, SubmitStart, SubmitRefused,
           SubmitSend, SubmitDisconnected, Cancel, Unwind, Finish, JoinWorkers, JoinWriter, writerVars
      <4>2. ASSUME NEW w \in Workers, WorkerNext(w) PROVE UNCHANGED writerVars
        BY <4>2 DEF WorkerNext, WorkerRecv, WorkerExit, WorkerSkip, WorkerProceed, EncodeOk,
           EncodeError, WorkerFlag, WorkerDies, WorkerSend
      <4>3. CASE WriterNext
        BY <2>2, <4>3 DEF WriterNext, WriterRecv, WriterDiscard, WriterBuffer, WriteError, WriterFlag,
           WriterDrained, WriterCommit
      <4> QED
        BY <2>2, <4>1, <4>2, <4>3 DEF Next, Terminated, vars, writerVars
    <3>2. /\ done = <<>> /\ AllWorkersGone /\ vpc = "recv" /\ ~failed
          /\ UNCHANGED <<next, nextSeq>>
      BY <1>1, <3>1 DEF WriterExit, callerVars, Flagging
    <3> QED
      BY <1>1, <3>2, NothingMissing
  <2> QED
    BY <2>1, <2>2
<1> QED
  BY <1>6, <1>7, <1>8

\* The owner is told of a failure without a reason only after a death.
LEMMA StepBlame ==
    ASSUME EncodeInv, BlameInv, [Next]_vars
    PROVE  OnlyDeathIsUnexplained'
<1> USE DEF BlameInv
<1>1. TypeOK /\ Counted /\ Phases
  BY DEF EncodeInv, StreamInv
<1>2. Dead => Dead'
  BY <1>1, TroubleStays
<1>3. OnlyDeathIsUnexplained <=> (result \in {"generic", "lost", "short"} => Dead)
  BY DEF OnlyDeathIsUnexplained, Dead
<1>4. OnlyDeathIsUnexplained' <=> (result' \in {"generic", "lost", "short"} => Dead')
  BY DEF OnlyDeathIsUnexplained, Dead
<1>5. CASE result' = result
  BY <1>2, <1>3, <1>4, <1>5
<1>6. CASE result = "none" /\ failed /\ result' = TakenError
  <2>1. TakenError \in {"encode", "write", "lost"}
    BY <1>1, <1>6 DEF TakenError, Parked, Flagging, TypeOK
  <2>2. TakenError = "lost" => Dead
    BY DEF TakenError, Parked
  <2> QED
    BY <1>2, <1>4, <1>6, <2>1, <2>2
<1>7. CASE SubmitRefused
  BY <1>5, <1>6, <1>7 DEF SubmitRefused, Unwind, Departed, IntakeOpen
<1>8. CASE SubmitDisconnected
  <2>1. AllWorkersGone /\ IntakeOpen
    BY <1>8 DEF SubmitDisconnected, IntakeOpen
  <2>2. Dead
    BY <2>1, EncodeAssumption DEF AllWorkersGone, Gone, Departed, Dead
  <2> QED
    BY <1>2, <1>4, <2>2
<1>9. CASE JoinWriter
  <2>1. CASE result = "none" /\ ~failed /\ ~Dead
    <3>1. vpc = "exited" /\ result' = FinishResult
      BY <1>9, <2>1 DEF JoinWriter
    <3>2. AllWorkersGone /\ ~Flagging
      BY <2>1, <3>1 DEF Departed, Flagging, AllWorkersGone, Gone
    <3>3. Len(index) = nextSeq
      BY <1>1, <2>1, <3>1, <3>2 DEF Kept, Counted
    <3> QED
      BY <1>4, <2>1, <3>1, <3>3 DEF FinishResult
  <2>2. CASE result = "none" /\ failed
    <3>1. result' = TakenError
      BY <1>9, <2>2 DEF JoinWriter, FinishResult
    <3> QED
      BY <1>6, <2>2, <3>1
  <2>3. CASE result # "none"
    BY <1>5, <1>9, <2>3 DEF JoinWriter
  <2> QED
    BY <1>1, <1>2, <1>4, <2>1, <2>2, <2>3
<1>10. CASE Cancel
  BY <1>4, <1>10 DEF Cancel, Unwind
<1>11. CASE ~(SubmitRefused \/ SubmitDisconnected \/ JoinWriter \/ Cancel)
  <2>1. CASE CallerNext
    BY <1>5, <1>11, <2>1 DEF CallerNext, SubmitDone, Joins, SetExtent, SubmitStart, SubmitSend, Finish,
       JoinWorkers
  <2>2. ASSUME NEW w \in Workers, WorkerNext(w) PROVE UNCHANGED callerVars
    BY <2>2 DEF WorkerNext, WorkerRecv, WorkerExit, WorkerSkip, WorkerProceed, EncodeOk, EncodeError,
       WorkerFlag, WorkerDies, WorkerSend
  <2>3. CASE WriterNext
    BY <1>5, <2>3 DEF WriterNext, WriterRecv, WriterDiscard, WriterBuffer, WriteError, WriterFlag,
       WriterDrained, WriterExit, WriterCommit, callerVars
  <2>4. CASE UNCHANGED vars
    BY <1>5, <2>4 DEF vars, callerVars
  <2> QED
    BY <1>5, <2>1, <2>2, <2>3, <2>4 DEF Next, Terminated, callerVars
<1> QED
  BY <1>7, <1>8, <1>9, <1>10, <1>11

\* OnlyDeathIsUnexplained: a stream that lost no worker never fails with the generic
\* message, a lost chunk or a count mismatch (EncodePipeline::finish, take_error).
THEOREM EncodeOnlyDeathIsUnexplained == Spec => []OnlyDeathIsUnexplained
<1>1. EncodeInv /\ BlameInv /\ [Next]_vars => BlameInv'
  BY StepDeparted, StepParked, StepKept, StepBlame DEF BlameInv, EncodeInv, StreamInv
<1>2. BlameInv => OnlyDeathIsUnexplained
  BY DEF BlameInv
<1> QED
  BY <1>1, <1>2, InitInv, StepInv, InitBlame, PTL DEF Spec
=============================================================================
