-------------------------------- MODULE Jobs --------------------------------
(* Background jobs of the GUI: the worker threads of job.rs, the one-shot channel
   each answers on, and poll_job, which takes the answer, records it, starts the
   next disk of a queue or parks the result in the status modal.  What a verify,
   restore or clone does inside is in the modules of those jobs: here it takes
   its time and ends in any way it can end. *)
EXTENDS Catalog

CONSTANT MaxStarts      \* workers the user starts
ASSUME JobsAssumption == MaxStarts \in Nat

VARIABLES worker,     \* number of a start -> its thread; `asked` is a ghost: it was
                      \* started by a confirmed overwrite
          slot,       \* App::job, 0 = None
          queue,      \* App::pending_backups, next one first
          multi,      \* total_backups > 1
          completed   \* App::completed, the parked result

jobVars == <<worker, slot, queue, multi, completed>>
Starts == 1 .. MaxStarts

NoWorker == [kind |-> "none", path |-> "none", deep |-> FALSE, cancel |-> FALSE,
             asked |-> FALSE, pc |-> "none", res |-> "none", img |-> -1]
Worker(kind, path, deep, pc) ==
    [NoWorker EXCEPT !.kind = kind, !.path = path, !.deep = deep, !.pc = pc]
NoResult == [banner |-> "none", offer |-> 0, path |-> "none"]
Tools == {"boot", "hello", "admin"}

\* The thread runs: it was spawned and has neither answered nor died.
Live(i) == worker[i].pc \notin {"none", "queued", "sent", "panicked", "killed"}
Answered(i) == worker[i].pc \in {"sent", "panicked"}
Unused == {i \in Starts : worker[i].pc = "none"}
NextStart == CHOOSE i \in Unused : \A j \in Unused : i <= j

JobsInit == /\ worker = [i \in Starts |-> NoWorker]
            /\ slot = 0 /\ queue = <<>> /\ multi = FALSE /\ completed = NoResult

\* A thread that is over and whose answer, if it left one, is taken or never will be.
Over(i, pc) == [NoWorker EXCEPT !.kind = worker[i].kind, !.pc = pc]
Taken(i) == [worker EXCEPT ![i] = Over(i, worker[i].pc)]
To(i, pc) == worker' = [worker EXCEPT ![i].pc = pc]
Ends(i, pc, res) == worker' = [worker EXCEPT ![i].pc = pc, ![i].res = res]
\* How a worker can end that looks at its cancel flag between chunks.
Stops(i) == {"failed"} \cup IF worker[i].cancel THEN {"cancelled"} ELSE {}

--------------------------------------------------------------------------------
\* spawn_backup.  run_backup gives up before it creates its output, or creates and
\* truncates it.
BackupStart(i) ==
    /\ worker[i].kind = "backup" /\ worker[i].pc = "start"
    /\ \/ /\ \E res \in Stops(i) : Ends(i, "cleanup", res)
          /\ UNCHANGED file
       \/ /\ file' = [file EXCEPT ![worker[i].path] = File(i, FALSE)]
          /\ worker' = [worker EXCEPT ![i].pc = "capture", ![i].img = i]
    /\ UNCHANGED <<sound, written, history, known, saved, failing, slot, queue, multi, completed>>

\* The capture stops half way, or the image is finalized (and is sound, or not).
BackupCapture(i) ==
    /\ worker[i].kind = "backup" /\ worker[i].pc = "capture"
    /\ \/ /\ \E res \in Stops(i) : Ends(i, "cleanup", res)
          /\ UNCHANGED <<file, sound, written>>
       \/ /\ file' = [file EXCEPT ![worker[i].path] = File(i, TRUE)]
          /\ written' = written \cup {i}
          /\ sound' \in {sound, sound \cup {i}}
          /\ IF worker[i].deep THEN To(i, "verify") ELSE Ends(i, "cleanup", "ok")
    /\ UNCHANGED <<history, known, saved, failing, slot, queue, multi, completed>>

\* The pass over the finished image; also all a verify job does.
Verify(i) ==
    /\ worker[i].pc = "verify"
    /\ LET p == worker[i].path
           end == IF worker[i].kind = "backup" THEN "cleanup" ELSE "sent"
       IN  \E res \in Stops(i) \cup (IF Intact(p) THEN {"ok"} ELSE {}) :
               worker' = [worker EXCEPT ![i].pc = end, ![i].res = res,
                                        ![i].img = file[p].img]
    /\ UNCHANGED <<catalogVars, slot, queue, multi, completed>>

\* Mutant: the file is not asked whether it was finalized.
DiscardsAny(i) == worker[i].res # "ok" /\ worker[i].cancel
\* A cancelled run removes its output, if that does not open as a backup; the
\* removal is best effort.
Discards(i) == /\ worker[i].res # "ok" /\ worker[i].cancel
               /\ ~Opens(worker[i].path)
BackupCleanup(i) ==
    /\ worker[i].kind = "backup" /\ worker[i].pc = "cleanup"
    /\ \/ Discards(i) /\ file' = [file EXCEPT ![worker[i].path] = NoFile]
       \/ UNCHANGED file
    /\ To(i, "sent")
    /\ UNCHANGED <<sound, written, history, known, saved, failing, slot, queue, multi, completed>>

\* A restore or a clone, until it answers.
OtherWork(i) ==
    /\ worker[i].kind \in {"restore", "clone"} /\ worker[i].pc = "work"
    /\ \E res \in Stops(i) \cup {"ok"} : Ends(i, "sent", res)
    /\ UNCHANGED <<catalogVars, slot, queue, multi, completed>>

\* The thread panics, wherever it is: the sender goes without a message.
WorkerPanics(i) ==
    /\ Live(i) /\ worker[i].kind \notin Tools
    /\ Ends(i, "panicked", "failed")
    /\ UNCHANGED <<catalogVars, slot, queue, multi, completed>>

WorkerStep(i) == \/ BackupStart(i) \/ BackupCapture(i) \/ Verify(i)
                 \/ BackupCleanup(i) \/ OtherWork(i)

--------------------------------------------------------------------------------
\* Mutant: an empty channel and a closed one are not told apart.
ReadyOnMessage == slot # 0 /\ worker[slot].pc = "sent"
\* BackgroundJob::poll: an answer, or the panic of a thread that left none.
Ready == slot # 0 /\ Answered(slot)

\* record_job: two records for a backup whose verify step poll_job has seen start,
\* one for every other job.  Both name the file; what a restore wrote is left out.
SawVerify(w) == w.kind = "backup" /\ w.deep /\ w.img \in written
\* Mutant: the outcome of the whole job goes to the backup, the verify counts as done.
RecordsSwapped(w, seen) ==
    IF seen
    THEN <<Record("backup", w.path, w.res, w.img), Record("verify", w.path, "ok", w.img)>>
    ELSE <<Record(w.kind, w.path, w.res, w.img)>>
RecordsOf(w, seen) ==
    IF seen
    THEN <<Record("backup", w.path, "ok", w.img), Record("verify", w.path, w.res, w.img)>>
    ELSE <<Record(w.kind, w.path, w.res, w.img)>>
RecordJob(w) ==
    \E seen \in IF SawVerify(w) THEN BOOLEAN ELSE {FALSE} : AppendRecords(RecordsOf(w, seen))

Banner(w) ==
    CASE w.res # "ok" -> w.res
      [] w.kind = "backup" -> IF w.deep THEN "verified" ELSE "unverified"
      [] w.kind = "verify" -> "verified"
      [] OTHER -> "complete"

\* "Verify?" of a parked backup passed: the modal is upgraded in place.
TakeFollowUp ==
    /\ Ready
    /\ LET w == worker[slot] IN
       /\ w.kind = "verify" /\ w.res = "ok" /\ completed # NoResult
       /\ RecordJob(w)
    /\ completed' = [completed EXCEPT !.banner = "verified"]
    /\ slot' = 0
    /\ worker' = Taken(slot)
    /\ UNCHANGED <<file, sound, written, known, queue, multi>>
    /\ SaveBoth

\* One disk of several is done: the next is started.
TakeNext ==
    /\ Ready
    /\ LET w == worker[slot] IN
       /\ w.res = "ok" /\ ~(w.kind = "verify" /\ completed # NoResult)
       /\ queue # <<>>
       /\ RecordJob(w)
       /\ slot' = Head(queue) /\ queue' = Tail(queue)
       /\ worker' = [Taken(slot) EXCEPT ![Head(queue)].pc = "start"]
    /\ UNCHANGED <<file, sound, written, known, multi, completed>>
    /\ SaveBoth

\* The job, or the last of a queue, succeeded.
TakeLast ==
    /\ Ready
    /\ LET w == worker[slot] IN
       /\ w.res = "ok" /\ ~(w.kind = "verify" /\ completed # NoResult)
       /\ queue = <<>>
       /\ known' = IF w.kind = "backup" THEN known \cup {w.path} ELSE known
       /\ RecordJob(w)
       /\ completed' = [banner |-> Banner(w), path |-> w.path,
                        offer |-> IF w.kind = "backup" /\ ~w.deep /\ ~multi
                                  THEN slot ELSE 0]
    /\ slot' = 0 /\ multi' = FALSE /\ worker' = Taken(slot)
    /\ UNCHANGED <<file, sound, written, queue>>
    /\ SaveBoth

\* The job failed or was cancelled: the rest of a queue is dropped.
DropQueue(workers) ==
    [i \in Starts |-> IF workers[i].pc = "queued" THEN Over(i, "killed") ELSE workers[i]]
TakeError ==
    /\ Ready
    /\ LET w == worker[slot] IN
       /\ w.res # "ok"
       /\ RecordJob(w)
       /\ completed' = [banner |-> Banner(w), path |-> w.path, offer |-> 0]
    /\ slot' = 0 /\ queue' = <<>> /\ multi' = FALSE /\ worker' = DropQueue(Taken(slot))
    /\ UNCHANGED <<file, sound, written, known>>
    /\ SaveBoth

PollJob == TakeFollowUp \/ TakeNext \/ TakeLast \/ TakeError

\* cancel_current_job: the flag of the running worker, at which no tool ever looks; the
\* queue is dropped at once.
CancelJob ==
    /\ slot # 0 /\ ~worker[slot].cancel /\ ~Answered(slot)
    /\ worker' = [DropQueue(worker) EXCEPT ![slot].cancel = worker[slot].kind \notin Tools]
    /\ queue' = <<>> /\ multi' = FALSE
    /\ UNCHANGED <<catalogVars, slot, completed>>

\* "Verify?" in the parked modal: start_completed_verify.
StartCompletedVerify ==
    /\ completed.offer # 0 /\ slot = 0 /\ Unused # {}
    /\ worker' = [worker EXCEPT ![NextStart] = Worker("verify", completed.path, TRUE, "verify")]
    /\ slot' = NextStart
    /\ completed' = [completed EXCEPT !.offer = 0]
    /\ UNCHANGED <<catalogVars, queue, multi>>

\* Close on the parked modal.
CloseResult ==
    /\ slot = 0 /\ completed # NoResult
    /\ completed' = NoResult
    /\ UNCHANGED <<catalogVars, worker, slot, queue, multi>>
=============================================================================
