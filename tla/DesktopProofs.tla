--------------------------- MODULE DesktopProofs ---------------------------
(* What holds of the whole application, for any number of jobs, disks of a backup
   run, tools, mounts and guests, and whatever fails, is cancelled, killed or started
   again meanwhile: the boot store, the job history, the finalized backups; what the
   tools leave behind, the disk a guest sees, the drives that can be written to. *)
EXTENDS Desktop, SequenceTheorems, WellFoundedInduction, TLAPS

(* However many tools, jobs, crashes and restarts there are, and however the
   steps of a boot repair fail, the machine keeps a boot store - as long as no repair
   runs into another. *)
\* A repair that changes the disk: before and after the store was moved aside.
Before == {"active", "syslet", "bootsect", "look", "unlink", "rename"}
After == {"lookLog", "unlinkLog", "renameLog", "bcdboot"}
Mid == Before \cup After
\* It has seen the store and is about to move it.
Moving == {"unlink", "rename"}
Repairing(i) == worker[i].kind = "boot" /\ worker[i].pc \in Mid
Bcd == win.store["BCD"]
Bak == win.bak["BCD"]

\* What the proof needs of types: the fields that steps replace are there.
WorkerShape ==
    /\ DOMAIN worker = Starts
    /\ \A i \in Starts : "kind" \in DOMAIN worker[i] /\ "pc" \in DOMAIN worker[i]
WinFields == {"inst", "store", "bak", "letters", "stuck", "active", "service", "ngc", "hive",
              "keys", "admin", "repairs", "crowded"}
WinShape ==
    /\ DOMAIN win = WinFields
    /\ DOMAIN win.store = Stores /\ DOMAIN win.bak = Stores
    /\ DOMAIN win.letters = Starts
    /\ win.repairs \in Nat

\* Up to the first repair the old store is in its place; during it, it is there until
\* it is moved aside, and then it is aside.
OneRepair ==
    /\ "old" \in {Bcd, Bak}
    /\ \A i \in Starts : Repairing(i) /\ worker[i].pc \in Before => Bcd = "old"
    /\ \A i \in Starts : Repairing(i) /\ worker[i].pc \in After => Bak = "old"
\* A later repair, one at a time, may lose the old one, but not both the store and the
\* one aside: what it has seen is still there when it moves it.
Orderly ==
    /\ \A i, j \in Starts : Repairing(i) /\ Repairing(j) => i = j
    /\ Bcd # "none" \/ Bak # "none"
    /\ \A i \in Starts : Repairing(i) /\ worker[i].pc \in Moving => Bcd # "none"
    /\ win.repairs = 0 => Bcd = "old" /\ \A i \in Starts : ~Repairing(i)
    /\ win.repairs = 1 => OneRepair
BootInv == WorkerShape /\ WinShape /\ (win.crowded = {} => Orderly)

-----------------------------------------------------------------------------
(* Steps that start and advance no repair. *)

\* Of workers w: none is in a repair, unless it was there, at the same place.
Settled(w) ==
    /\ DOMAIN w = Starts
    /\ \A i \in Starts :
          /\ "kind" \in DOMAIN w[i] /\ "pc" \in DOMAIN w[i]
          /\ w[i].kind = "boot" /\ w[i].pc \in Mid =>
                 Repairing(i) /\ w[i].pc = worker[i].pc
Calm == Settled(worker')
Aloof == /\ WinShape' /\ Bcd' = Bcd /\ Bak' = Bak
         /\ win'.repairs = win.repairs /\ win'.crowded = win.crowded

\* They keep the invariant.
LEMMA CalmKeeps == ASSUME BootInv, Calm, Aloof PROVE BootInv'
<1>0. WorkerShape' /\ \A i \in Starts : Repairing(i)' => Repairing(i) /\ worker'[i].pc = worker[i].pc
    BY DEF Calm, Settled, WorkerShape, Repairing
<1>1. WorkerShape' /\ WinShape'
    BY <1>0 DEF Aloof
<1>2. ASSUME Orderly PROVE Orderly'
    <2>1. ASSUME win'.repairs = 0 PROVE Bcd' = "old" /\ \A i \in Starts : ~Repairing(i)'
        BY <1>0, <1>2, <2>1 DEF Orderly, Aloof
    <2>2. ASSUME win'.repairs = 1 PROVE OneRepair'
        <3>1. OneRepair
            BY <1>2, <2>2 DEF Orderly, Aloof
        <3>2. "old" \in {Bcd', Bak'}
            BY <3>1 DEF OneRepair, Aloof
        <3>3. \A i \in Starts : Repairing(i)' /\ worker'[i].pc \in Before => Bcd' = "old"
            BY <1>0, <3>1 DEF OneRepair, Aloof
        <3>4. \A i \in Starts : Repairing(i)' /\ worker'[i].pc \in After => Bak' = "old"
            BY <1>0, <3>1 DEF OneRepair, Aloof
        <3> QED BY <3>2, <3>3, <3>4 DEF OneRepair
    <2>3. \A i, j \in Starts : Repairing(i)' /\ Repairing(j)' => i = j
        BY <1>0, <1>2 DEF Orderly
    <2>4. \A i \in Starts : Repairing(i)' /\ worker'[i].pc \in Moving => Bcd' # "none"
        BY <1>0, <1>2 DEF Orderly, Aloof
    <2>5. Bcd' # "none" \/ Bak' # "none"
        BY <1>2 DEF Orderly, Aloof
    <2> QED BY <2>1, <2>2, <2>3, <2>4, <2>5 DEF Orderly
<1> QED BY <1>1, <1>2 DEF BootInv, Aloof

\* Workers as they are, and with one of them replaced by one outside of a repair.
LEMMA StaysSettled == ASSUME WorkerShape PROVE Settled(worker)
BY DEF WorkerShape, Settled, Repairing

\* A worker outside of a repair takes a place.
LEMMA NewSettled ==
    ASSUME NEW w, Settled(w), NEW i, NEW x, "kind" \in DOMAIN x, "pc" \in DOMAIN x,
           x.kind = "boot" => x.pc \notin Mid
    PROVE  Settled([w EXCEPT ![i] = x])
BY DEF Settled

\* Assignments to fields of one worker.
LEMMA PcSettled ==
    ASSUME NEW w, Settled(w), NEW i, NEW x, x \notin Mid
    PROVE  Settled([w EXCEPT ![i].pc = x])
<1> DEFINE v == [w EXCEPT ![i].pc = x]
<1>1. CASE i \notin Starts
    BY <1>1 DEF Settled
<1>2. CASE i \in Starts
    <2>1. DOMAIN v = Starts /\ DOMAIN v[i] = DOMAIN w[i] /\ v[i].pc = x /\ v[i].kind = w[i].kind
        BY <1>2 DEF Settled
    <2>2. \A j \in Starts \ {i} : v[j] = w[j]
        BY DEF Settled
    <2> HIDE DEF v
    <2>3. Settled(v)
        BY <1>2, <2>1, <2>2 DEF Settled
    <2> QED BY <2>3 DEF v
<1> QED BY <1>1, <1>2

\* The outcome.
LEMMA ResSettled ==
    ASSUME NEW w, Settled(w), NEW i, NEW x
    PROVE  Settled([w EXCEPT ![i].res = x])
<1> DEFINE v == [w EXCEPT ![i].res = x]
<1>1. CASE i \notin Starts
    BY <1>1 DEF Settled
<1>2. CASE i \in Starts
    <2>1. DOMAIN v = Starts /\ DOMAIN v[i] = DOMAIN w[i] /\ v[i].pc = w[i].pc /\ v[i].kind = w[i].kind
        BY <1>2 DEF Settled
    <2>2. \A j \in Starts \ {i} : v[j] = w[j]
        BY DEF Settled
    <2> HIDE DEF v
    <2>3. Settled(v)
        BY <1>2, <2>1, <2>2 DEF Settled
    <2> QED BY <2>3 DEF v
<1> QED BY <1>1, <1>2

\* The image.
LEMMA ImgSettled ==
    ASSUME NEW w, Settled(w), NEW i, NEW x
    PROVE  Settled([w EXCEPT ![i].img = x])
<1> DEFINE v == [w EXCEPT ![i].img = x]
<1>1. CASE i \notin Starts
    BY <1>1 DEF Settled
<1>2. CASE i \in Starts
    <2>1. DOMAIN v = Starts /\ DOMAIN v[i] = DOMAIN w[i] /\ v[i].pc = w[i].pc /\ v[i].kind = w[i].kind
        BY <1>2 DEF Settled
    <2>2. \A j \in Starts \ {i} : v[j] = w[j]
        BY DEF Settled
    <2> HIDE DEF v
    <2>3. Settled(v)
        BY <1>2, <2>1, <2>2 DEF Settled
    <2> QED BY <2>3 DEF v
<1> QED BY <1>1, <1>2

\* The flag of a cancel.
LEMMA CancelSettled ==
    ASSUME NEW w, Settled(w), NEW i, NEW x
    PROVE  Settled([w EXCEPT ![i].cancel = x])
<1> DEFINE v == [w EXCEPT ![i].cancel = x]
<1>1. CASE i \notin Starts
    BY <1>1 DEF Settled
<1>2. CASE i \in Starts
    <2>1. DOMAIN v = Starts /\ DOMAIN v[i] = DOMAIN w[i] /\ v[i].pc = w[i].pc /\ v[i].kind = w[i].kind
        BY <1>2 DEF Settled
    <2>2. \A j \in Starts \ {i} : v[j] = w[j]
        BY DEF Settled
    <2> HIDE DEF v
    <2>3. Settled(v)
        BY <1>2, <2>1, <2>2 DEF Settled
    <2> QED BY <2>3 DEF v
<1> QED BY <1>1, <1>2

\* Such a step of a worker.
LEMMA ToCalm ==
    ASSUME WorkerShape, NEW i, NEW pc, pc \notin Mid, To(i, pc)
    PROVE  Calm
BY StaysSettled, PcSettled DEF Calm, To

\* Or it ends there.
LEMMA EndsCalm ==
    ASSUME WorkerShape, NEW i, NEW pc, NEW res, pc \notin Mid, Ends(i, pc, res)
    PROVE  Calm
<1>1. Settled([worker EXCEPT ![i].pc = pc])
    BY StaysSettled, PcSettled
<1>2. Settled([[worker EXCEPT ![i].pc = pc] EXCEPT ![i].res = res])
    BY <1>1, ResSettled
<1> QED BY <1>2 DEF Calm, Ends

\* The records that take the place of a worker.
LEMMA OverFields ==
    ASSUME NEW i, NEW pc
    PROVE  /\ Over(i, pc).kind = worker[i].kind /\ Over(i, pc).pc = pc
           /\ "kind" \in DOMAIN Over(i, pc) /\ "pc" \in DOMAIN Over(i, pc)
BY DEF Over, NoWorker

\* The record of a new worker.
LEMMA NewFields ==
    ASSUME NEW kind, NEW path, NEW deep, NEW pc
    PROVE  LET w == Worker(kind, path, deep, pc)
           IN  /\ w.kind = kind /\ w.pc = pc
               /\ "kind" \in DOMAIN w /\ "pc" \in DOMAIN w
BY DEF Worker, NoWorker

\* An answer is taken.
LEMMA TakenSettled == ASSUME WorkerShape, NEW i PROVE Settled(Taken(i))
<1> DEFINE x == Over(i, worker[i].pc)
<1>1. x.kind = worker[i].kind /\ x.pc = worker[i].pc /\ "kind" \in DOMAIN x /\ "pc" \in DOMAIN x
    BY OverFields
<1> HIDE DEF x
<1>2. Settled([worker EXCEPT ![i] = x])
    BY <1>1 DEF WorkerShape, Settled, Repairing
<1> QED BY <1>2 DEF Taken, x

\* The disks of a queue that wait are dropped.
LEMMA DropSettled == ASSUME NEW w, Settled(w) PROVE Settled(DropQueue(w))
<1>1. \A i \in Starts : DropQueue(w)[i] = IF w[i].pc = "queued" THEN Over(i, "killed") ELSE w[i]
    BY DEF DropQueue
<1>2. DOMAIN DropQueue(w) = Starts
    BY DEF DropQueue
<1>3. "killed" \notin Mid
    BY DEF Mid, Before, After
<1> QED BY <1>1, <1>2, <1>3, OverFields DEF Settled

\* Everything that the workers of the other jobs and the window do with workers.
LEMMA WorkCalm ==
    ASSUME WorkerShape, NEW i, WorkerStep(i) \/ WorkerPanics(i)
    PROVE  Calm
<1> USE DEF Mid, Before, After
<1>1. CASE BackupStart(i)
    <2>1. ASSUME worker' = [worker EXCEPT ![i].pc = "capture", ![i].img = i] PROVE Calm
        <3>1. Settled([worker EXCEPT ![i].pc = "capture"])
            BY StaysSettled, PcSettled
        <3>2. Settled([[worker EXCEPT ![i].pc = "capture"] EXCEPT ![i].img = i])
            BY <3>1, ImgSettled
        <3> QED BY <2>1, <3>2 DEF Calm
    <2> QED BY <1>1, <2>1, EndsCalm DEF BackupStart
<1>2. CASE BackupCapture(i)
    BY <1>2, EndsCalm, ToCalm DEF BackupCapture
<1>3. CASE Verify(i)
    <2>0. PICK end \in {"cleanup", "sent"} :
              \E res, img :
                  worker' = [worker EXCEPT ![i].pc = end, ![i].res = res, ![i].img = img]
        BY <1>3 DEF Verify
    <2>1. PICK res, img :
              worker' = [worker EXCEPT ![i].pc = end, ![i].res = res, ![i].img = img]
        BY <2>0
    <2>2. Settled([worker EXCEPT ![i].pc = end])
        BY StaysSettled, PcSettled
    <2>3. Settled([[worker EXCEPT ![i].pc = end] EXCEPT ![i].res = res])
        BY <2>2, ResSettled
    <2>4. Settled([[[worker EXCEPT ![i].pc = end] EXCEPT ![i].res = res] EXCEPT ![i].img = img])
        BY <2>3, ImgSettled
    <2> QED BY <2>1, <2>4 DEF Calm
<1>4. CASE BackupCleanup(i)
    BY <1>4, ToCalm DEF BackupCleanup
<1>5. CASE OtherWork(i)
    BY <1>5, EndsCalm DEF OtherWork
<1>6. CASE WorkerPanics(i)
    BY <1>6, EndsCalm DEF WorkerPanics
<1> QED BY <1>1, <1>2, <1>3, <1>4, <1>5, <1>6 DEF WorkerStep

\* What the window does with workers.
LEMMA PollCalm ==
    ASSUME WorkerShape, PollJob \/ CancelJob \/ StartCompletedVerify \/ CloseResult
    PROVE  Calm
<1> USE DEF Mid, Before, After
<1>1. CASE TakeFollowUp
    BY <1>1, TakenSettled DEF TakeFollowUp, Calm
<1>2. CASE TakeNext
    <2>1. worker' = [Taken(slot) EXCEPT ![Head(queue)].pc = "start"]
        BY <1>2 DEF TakeNext
    <2> QED BY <2>1, TakenSettled, PcSettled DEF Calm
<1>3. CASE TakeLast
    BY <1>3, TakenSettled DEF TakeLast, Calm
<1>4. CASE TakeError
    BY <1>4, TakenSettled, DropSettled DEF TakeError, Calm
<1>5. CASE CancelJob
    <2>1. worker' = [DropQueue(worker) EXCEPT ![slot].cancel = worker[slot].kind \notin Tools]
        BY <1>5 DEF CancelJob
    <2>2. Settled(DropQueue(worker))
        BY StaysSettled, DropSettled
    <2> QED BY <2>1, <2>2, CancelSettled DEF Calm
<1>6. CASE StartCompletedVerify
    <2> DEFINE x == Worker("verify", completed.path, TRUE, "verify")
    <2>1. worker' = [worker EXCEPT ![NextStart] = x]
        BY <1>6 DEF StartCompletedVerify
    <2>2. "kind" \in DOMAIN x /\ "pc" \in DOMAIN x /\ x.pc = "verify"
        BY DEF Worker, NoWorker
    <2> HIDE DEF x
    <2> QED BY <2>1, <2>2, StaysSettled, NewSettled DEF Calm
<1>7. CASE CloseResult
    BY <1>7, StaysSettled DEF CloseResult, Calm
<1> QED BY <1>1, <1>2, <1>3, <1>4, <1>5, <1>6, <1>7 DEF PollJob

\* A job starts, at a place outside of a repair.
LEMMA SlotCalm ==
    ASSUME WorkerShape, NEW kind, NEW path, NEW deep, NEW pc, pc \notin Mid,
           TakeSlot(Worker(kind, path, deep, pc))
    PROVE  Calm
<1> DEFINE x == Worker(kind, path, deep, pc)
<1>1. worker' = [worker EXCEPT ![NextStart] = x]
    BY DEF TakeSlot
<1>2. "kind" \in DOMAIN x /\ "pc" \in DOMAIN x /\ x.pc \notin Mid
    BY NewFields
<1> HIDE DEF x
<1> QED BY <1>1, <1>2, StaysSettled, NewSettled DEF Calm

\* A backup run starts.
LEMMA QueueCalm ==
    ASSUME WorkerShape, NEW paths, NEW deep, NEW asked, LaunchQueue(paths, deep, asked)
    PROVE  Calm
<1> DEFINE first == NextStart
           last == first + Len(paths) - 1
           job(i) == [Worker("backup", paths[i - first + 1], deep,
                             IF i = first THEN "start" ELSE "queued") EXCEPT !.asked = asked]
<1>1. worker' = [i \in Starts |-> IF i \in first .. last THEN job(i) ELSE worker[i]]
    BY DEF LaunchQueue
<1>2. \A i : job(i).kind = "backup" /\ "kind" \in DOMAIN job(i) /\ "pc" \in DOMAIN job(i)
    BY DEF Worker, NoWorker
<1> HIDE DEF job, first, last
<1>3. Settled([i \in Starts |-> IF i \in first .. last THEN job(i) ELSE worker[i]])
    BY <1>2, StaysSettled DEF Settled
<1> QED BY <1>1, <1>3 DEF Calm

\* The process ends.
LEMMA EndCalm ==
    ASSUME WorkerShape, NEW how, NEW delete, NEW off, ProcessEnds(how, delete, off)
    PROVE  Calm
<1>1. worker' = [i \in Starts |-> IF Live(i) \/ worker[i].pc = "queued"
                                  THEN Over(i, "killed") ELSE Over(i, worker[i].pc)]
    BY DEF ProcessEnds
<1>2. "killed" \notin Mid
    BY DEF Mid, Before, After
<1>3. Settled([i \in Starts |-> IF Live(i) \/ worker[i].pc = "queued"
                               THEN Over(i, "killed") ELSE Over(i, worker[i].pc)])
    BY <1>2, OverFields DEF WorkerShape, Settled, Repairing
<1> QED BY <1>1, <1>3 DEF Calm
-----------------------------------------------------------------------------
(* The steps of a boot repair. *)

\* What assignments to fields of one worker do.
LEMMA ToFields ==
    ASSUME WorkerShape, NEW i \in Starts, NEW pc, To(i, pc)
    PROVE  /\ WorkerShape' /\ worker'[i].pc = pc /\ worker'[i].kind = worker[i].kind
           /\ \A j \in Starts \ {i} : worker'[j] = worker[j]
<1>1. worker' = [worker EXCEPT ![i].pc = pc] /\ DOMAIN worker = Starts
      /\ "kind" \in DOMAIN worker[i] /\ "pc" \in DOMAIN worker[i]
    BY DEF To, WorkerShape
<1>2. worker'[i].pc = pc /\ worker'[i].kind = worker[i].kind
    BY <1>1
<1>3. DOMAIN worker' = Starts /\ DOMAIN worker'[i] = DOMAIN worker[i]
    BY <1>1
<1>4. \A j \in Starts \ {i} : worker'[j] = worker[j]
    BY <1>1
<1>5. ASSUME NEW j \in Starts PROVE "kind" \in DOMAIN worker'[j] /\ "pc" \in DOMAIN worker'[j]
    BY <1>1, <1>3, <1>4 DEF WorkerShape
<1> QED BY <1>2, <1>3, <1>4, <1>5 DEF WorkerShape

\* The same of two fields.
LEMMA EndsFields ==
    ASSUME WorkerShape, NEW i \in Starts, NEW pc, NEW res, Ends(i, pc, res)
    PROVE  /\ WorkerShape' /\ worker'[i].pc = pc /\ worker'[i].kind = worker[i].kind
           /\ \A j \in Starts \ {i} : worker'[j] = worker[j]
<1>1. worker' = [worker EXCEPT ![i].pc = pc, ![i].res = res] /\ DOMAIN worker = Starts
      /\ "kind" \in DOMAIN worker[i] /\ "pc" \in DOMAIN worker[i]
    BY DEF Ends, WorkerShape
<1>2. worker'[i].pc = pc /\ worker'[i].kind = worker[i].kind
    BY <1>1
<1>3. DOMAIN worker' = Starts /\ DOMAIN worker'[i] = DOMAIN worker[i]
    BY <1>1
<1>4. \A j \in Starts \ {i} : worker'[j] = worker[j]
    BY <1>1
<1>5. ASSUME NEW j \in Starts PROVE "kind" \in DOMAIN worker'[j] /\ "pc" \in DOMAIN worker'[j]
    BY <1>1, <1>3, <1>4 DEF WorkerShape
<1> QED BY <1>2, <1>3, <1>4, <1>5 DEF WorkerShape

\* Of the installation only the fields fs change.
Only(fs) == DOMAIN win' = WinFields /\ \A f \in WinFields \ fs : win'[f] = win[f]
\* What the stores, the letters and the service, the hive and its keys are to others.
BootFields == {"store", "bak", "repairs", "crowded"}
OwedFields == {"letters", "service", "hive", "keys"}

\* Of the installation nothing changes.
LEMMA SameWin == ASSUME WinShape, win' = win PROVE Aloof /\ win'.store = win.store
BY DEF Aloof, WinShape, Bcd, Bak

\* Fields that the invariant does not speak of.
LEMMA OnlyAloof ==
    ASSUME WinShape, NEW fs, fs \cap BootFields = {}, Only(fs), DOMAIN win'.letters = Starts
    PROVE  Aloof /\ win'.store = win.store
<1>1. {"store", "bak", "repairs", "crowded"} \subseteq WinFields \ fs
    BY DEF WinFields, BootFields
<1>2. /\ win'.store = win.store /\ win'.bak = win.bak
      /\ win'.repairs = win.repairs /\ win'.crowded = win.crowded
    BY <1>1 DEF Only
<1> QED BY <1>2 DEF Aloof, WinShape, Bcd, Bak, Only

\* One field is assigned to.
LEMMA EditOnly ==
    ASSUME WinShape, NEW f \in WinFields, NEW x, win' = [win EXCEPT ![f] = x]
    PROVE  Only({f}) /\ win'[f] = x
BY DEF WinShape, Only

\* One that others take no notice of, or one of theirs.
LEMMA EditAloof ==
    ASSUME WinShape, NEW f \in WinFields \ (BootFields \cup {"letters"}), NEW x,
           win' = [win EXCEPT ![f] = x]
    PROVE  Aloof /\ win'.store = win.store
<1>1. Only({f})
    BY EditOnly
<1>2. win'.letters = win.letters
    BY <1>1 DEF Only, WinFields
<1> QED BY <1>1, <1>2, OnlyAloof DEF WinShape, BootFields

\* The letters of a repair are given back, as far as that goes.
LEMMA LettersGo ==
    ASSUME WinShape, NEW i \in Starts, DropLetters(i)
    PROVE  /\ Only({"letters", "stuck"}) /\ Aloof /\ win'.letters[i] = {}
           /\ win'.store = win.store
           /\ \A j \in Starts \ {i} : win'.letters[j] = win.letters[j]
<1>1. PICK kept : win' = [win EXCEPT !.letters[i] = {}, !.stuck = @ \cup kept]
    BY DEF DropLetters
<1>2. Only({"letters", "stuck"}) /\ win'.letters = [win.letters EXCEPT ![i] = {}]
    BY <1>1 DEF WinShape, Only, WinFields
<1>3. /\ DOMAIN win'.letters = Starts /\ win'.letters[i] = {}
      /\ \A j \in Starts \ {i} : win'.letters[j] = win.letters[j]
    BY <1>2 DEF WinShape
<1>4. Aloof /\ win'.store = win.store
    BY <1>2, <1>3, OnlyAloof DEF BootFields
<1> QED BY <1>2, <1>3, <1>4

\* The process ends: the letters stay, what is stopped or loaded is left so.
LEMMA KillOnly ==
    ASSUME WinShape, ToolsKilled
    PROVE  /\ Only({"letters", "stuck", "service", "hive", "keys"}) /\ Aloof
           /\ \A i \in Starts : win'.letters[i] = {}
           /\ win'.store = win.store /\ win'.service # "stopped" /\ win'.hive # "in"
           /\ win'.keys = {} /\ (win'.hive = "out" => win.hive = "out")
<1> DEFINE le == [i \in Starts |-> {}]
           st == win.stuck \cup UNION {win.letters[i] : i \in Starts}
           se == IF win.service = "stopped" THEN "left" ELSE win.service
           hi == IF win.hive = "in" THEN "left" ELSE win.hive
<1>1. win' = [win EXCEPT !.letters = le, !.stuck = st, !.service = se, !.hive = hi, !.keys = {}]
    BY DEF ToolsKilled
<1>2. se # "stopped" /\ hi # "in" /\ (hi = "out" => win.hive = "out")
    OBVIOUS
<1>3. DOMAIN le = Starts /\ \A i \in Starts : le[i] = {}
    OBVIOUS
<1> HIDE DEF le, st, se, hi
<1>4. /\ Only({"letters", "stuck", "service", "hive", "keys"})
      /\ win'.letters = le /\ win'.service = se /\ win'.hive = hi /\ win'.keys = {}
    BY <1>1 DEF WinShape, Only, WinFields
<1>5. Aloof /\ win'.store = win.store
    BY <1>3, <1>4, OnlyAloof DEF BootFields
<1> QED BY <1>2, <1>3, <1>4, <1>5

HiveFields == {"hive", "keys", "admin"}
\* The calls around the hive change nothing but the hive and who uses it.
LEMMA HiveOnly ==
    ASSUME WinShape, NEW u, UnloadLeftover \/ LoadHive \/ OpenKey(u) \/ UnloadHive
    PROVE  Only(HiveFields) /\ win'.admin = win.admin
<1> USE DEF WinShape, Only, WinFields, HiveFields
<1>1. CASE UnloadLeftover
    BY <1>1 DEF UnloadLeftover
<1>2. CASE LoadHive
    BY <1>2 DEF LoadHive
<1>3. CASE OpenKey(u)
    BY <1>3 DEF OpenKey
<1>4. CASE UnloadHive
    BY <1>4 DEF UnloadHive
<1> QED BY <1>1, <1>2, <1>3, <1>4

\* Hence nothing that a repair looks at.
LEMMA HiveAloof ==
    ASSUME WinShape, Only(HiveFields)
    PROVE  Aloof /\ win'.store = win.store
<1>1. win'.letters = win.letters
    BY DEF Only, WinFields, HiveFields
<1> QED BY <1>1, OnlyAloof DEF WinShape, HiveFields, BootFields

\* A step of repair i that leaves what its next place needs.
LEMMA RepairStep ==
    ASSUME BootInv, NEW i \in Starts, Repairing(i), WorkerShape',
           worker'[i].kind = worker[i].kind,
           \A j \in Starts \ {i} : worker'[j] = worker[j],
           WinShape', win'.repairs = win.repairs, win'.crowded = win.crowded,
           Orderly => /\ Bcd' # "none" \/ Bak' # "none"
                      /\ worker'[i].pc \in Moving => Bcd' # "none",
           Orderly /\ OneRepair => /\ "old" \in {Bcd', Bak'}
                                   /\ worker'[i].pc \in Before => Bcd' = "old"
                                   /\ worker'[i].pc \in After => Bak' = "old"
    PROVE  BootInv'
<1>1. ASSUME Orderly PROVE Orderly'
    <2>1. win'.repairs # 0
        BY <1>1 DEF Orderly
    <2>2. \A j \in Starts : Repairing(j) => j = i
        BY <1>1 DEF Orderly
    <2>3. \A j \in Starts : Repairing(j)' => j = i
        BY <2>2 DEF Repairing
    <2>4. ASSUME win'.repairs = 1 PROVE OneRepair'
        <3>1. OneRepair
            BY <1>1, <2>4 DEF Orderly
        <3> QED BY <1>1, <2>3, <3>1 DEF OneRepair
    <2>5. \A j \in Starts : Repairing(j)' /\ worker'[j].pc \in Moving => Bcd' # "none"
        BY <1>1, <2>3
    <2> QED BY <1>1, <2>1, <2>3, <2>4, <2>5 DEF Orderly
<1> QED BY <1>1 DEF BootInv

\* A step that changes no store and stays on its side of the rename.
LEMMA AloofStep ==
    ASSUME BootInv, NEW i \in Starts, Repairing(i), WorkerShape',
           worker'[i].kind = worker[i].kind,
           \A j \in Starts \ {i} : worker'[j] = worker[j], Aloof,
           \/ worker[i].pc \in Before /\ worker'[i].pc \in Before
           \/ worker[i].pc \in After /\ worker'[i].pc \in After,
           Orderly /\ worker'[i].pc \in Moving => Bcd # "none"
    PROVE  BootInv'
<1>1. Orderly /\ OneRepair => /\ "old" \in {Bcd', Bak'}
                              /\ worker'[i].pc \in Before => Bcd' = "old"
                              /\ worker'[i].pc \in After => Bak' = "old"
    BY DEF OneRepair, Aloof, Before, After
<1>2. WinShape' /\ win'.repairs = win.repairs /\ win'.crowded = win.crowded
    BY DEF Aloof
<1>3. Orderly => /\ Bcd' # "none" \/ Bak' # "none"
                 /\ worker'[i].pc \in Moving => Bcd' # "none"
    BY DEF Orderly, Aloof
<1> QED BY <1>1, <1>2, <1>3, RepairStep

\* The first step that changes the disk: a repair begins, alone or not.
LEMMA LetterKeeps ==
    ASSUME BootInv, NEW i \in Starts, BootLetter(i)
    PROVE  BootInv'
<1>1. WorkerShape /\ WinShape
    BY DEF BootInv
<1>2. CASE Fails(i, "drop")
    <2>1. Calm
        BY <1>1, <1>2, EndsCalm DEF Fails, Mid, Before, After
    <2> QED BY <1>1, <1>2, <2>1, SameWin, CalmKeeps DEF Fails
<1>3. CASE ~Fails(i, "drop")
    <2> DEFINE c == Crowd(i)
    <2>1. PICK own : win' = [win EXCEPT !.letters[i] = own, !.repairs = @ + 1,
                                        !.crowded = @ \cup c]
        BY <1>3 DEF BootLetter
    <2>a. ASSUME NEW j \in Starts \ {i}, Repairing(j) PROVE c # {}
        <3>1. worker[j].kind = "boot" /\ Live(j)
            BY <2>a DEF Repairing, Live, Mid, Before, After
        <3> QED BY <3>1 DEF Crowd
    <2> HIDE DEF c
    <2>2. /\ DOMAIN win' = WinFields /\ win'.store = win.store /\ win'.bak = win.bak
          /\ win'.repairs = win.repairs + 1 /\ win'.crowded = win.crowded \cup c
          /\ win'.letters = [win.letters EXCEPT ![i] = own]
        BY <1>1, <2>1 DEF WinShape, WinFields
    <2>3. WinShape' /\ Bcd' = Bcd /\ Bak' = Bak /\ win.repairs \in Nat
        BY <1>1, <2>2 DEF WinShape, Bcd, Bak
    <2>4. To(i, AfterLetter) /\ worker[i].kind = "boot"
        BY <1>3 DEF BootLetter, Tool
    <2>5. /\ WorkerShape' /\ worker'[i].pc = AfterLetter /\ worker'[i].kind = "boot"
          /\ \A j \in Starts \ {i} : worker'[j] = worker[j]
        BY <1>1, <2>4, ToFields
    <2>6. AfterLetter \in Before /\ AfterLetter \notin After /\ AfterLetter \notin Moving
        BY DEF AfterLetter, Before, After, Moving
    <2>7. ASSUME win'.crowded = {} PROVE Orderly'
        <3>1. Orderly /\ \A j \in Starts \ {i} : ~Repairing(j)
            BY <2>2, <2>7, <2>a DEF BootInv
        <3>2. \A j \in Starts : Repairing(j)' => j = i
            BY <2>5, <3>1 DEF Repairing
        <3>3. ASSUME win'.repairs = 1 PROVE OneRepair'
            <4>1. win.repairs = 0
                BY <2>2, <2>3, <3>3
            <4>2. Bcd = "old"
                BY <3>1, <4>1 DEF Orderly
            <4> QED BY <2>3, <2>5, <2>6, <3>2, <4>2 DEF OneRepair
        <3>4. win'.repairs # 0
            BY <2>2, <2>3
        <3>5. Bcd' # "none" \/ Bak' # "none"
            BY <2>3, <3>1 DEF Orderly
        <3>6. \A j \in Starts : Repairing(j)' => worker'[j].pc \notin Moving
            BY <2>5, <2>6, <3>2
        <3> QED BY <3>2, <3>3, <3>4, <3>5, <3>6 DEF Orderly
    <2> QED BY <2>3, <2>5, <2>7 DEF BootInv
<1> QED BY <1>2, <1>3

\* The store is moved over the one aside.
LEMMA AsideFields ==
    ASSUME WinShape, NEW n \in Stores, win' = Aside(n)
    PROVE  /\ WinShape' /\ win'.repairs = win.repairs /\ win'.crowded = win.crowded
           /\ Only({"store", "bak"})
           /\ n = "BCD" => Bak' = Bcd /\ Bcd' = "none"
           /\ n # "BCD" => Bak' = Bak /\ Bcd' = Bcd
<1> DEFINE x == win.store[n]
<1>1. win' = [win EXCEPT !.bak[n] = x, !.store[n] = "none"]
    BY DEF Aside
<1>2. /\ Only({"store", "bak"}) /\ win'.repairs = win.repairs /\ win'.crowded = win.crowded
      /\ win'.letters = win.letters
      /\ win'.bak = [win.bak EXCEPT ![n] = x]
      /\ win'.store = [win.store EXCEPT ![n] = "none"]
    BY <1>1 DEF WinShape, WinFields, Only
<1>3. DOMAIN win'.bak = Stores /\ DOMAIN win'.store = Stores
    BY <1>2 DEF WinShape
<1>4. \A m \in Stores : /\ win'.bak[m] = IF m = n THEN x ELSE win.bak[m]
                        /\ win'.store[m] = IF m = n THEN "none" ELSE win.store[m]
    BY <1>2 DEF WinShape
<1>5. "BCD" \in Stores
    BY DEF Stores
<1> QED BY <1>2, <1>3, <1>4, <1>5 DEF WinShape, Bcd, Bak, Only

\* One entry of `bak` changes.
LEMMA BakFields ==
    ASSUME WinShape, NEW n \in Stores, NEW x, win' = [win EXCEPT !.bak[n] = x]
    PROVE  /\ WinShape' /\ win'.repairs = win.repairs /\ win'.crowded = win.crowded
           /\ Only({"bak"}) /\ Bcd' = Bcd /\ (n # "BCD" => Bak' = Bak)
<1>1. /\ Only({"bak"}) /\ win'.repairs = win.repairs /\ win'.store = win.store
      /\ win'.crowded = win.crowded /\ win'.letters = win.letters
      /\ win'.bak = [win.bak EXCEPT ![n] = x]
    BY DEF WinShape, WinFields, Only
<1>2. DOMAIN win'.bak = Stores
    BY <1>1 DEF WinShape
<1>3. n # "BCD" => win'.bak["BCD"] = win.bak["BCD"]
    BY <1>1 DEF WinShape, Stores
<1> QED BY <1>1, <1>2, <1>3 DEF WinShape, Bcd, Bak, Only

\* One entry of `store` changes.
LEMMA StoreFields ==
    ASSUME WinShape, NEW x, win' = [win EXCEPT !.store["BCD"] = x]
    PROVE  /\ WinShape' /\ win'.repairs = win.repairs /\ win'.crowded = win.crowded
           /\ Only({"store"}) /\ Bcd' = x /\ Bak' = Bak
<1>1. /\ Only({"store"}) /\ win'.repairs = win.repairs /\ win'.bak = win.bak
      /\ win'.crowded = win.crowded /\ win'.letters = win.letters
      /\ win'.store = [win.store EXCEPT !["BCD"] = x]
    BY DEF WinShape, WinFields, Only
<1>2. DOMAIN win'.store = Stores /\ win'.store["BCD"] = x
    BY <1>1 DEF WinShape, Stores
<1> QED BY <1>1, <1>2 DEF WinShape, Bcd, Bak, Only

\* clear_existing_bcd looks for the store, or for its logs.
LEMMA LookKeeps ==
    ASSUME BootInv, NEW i \in Starts, NEW n \in Stores, ClearLook(i, n)
    PROVE  BootInv'
<1>1. WorkerShape /\ WinShape /\ n \in {"BCD", "LOG"}
    BY DEF BootInv, Stores
<1>2. Aloof
    BY <1>1, SameWin DEF ClearLook
<1> DEFINE next == IF win.store[n] = "none" THEN ClearNext(n) ELSE UnlinkAt[n]
<1>3. /\ Repairing(i) /\ To(i, next)
      /\ n = "BCD" => worker[i].pc \in Before
      /\ n # "BCD" => worker[i].pc \in After
    BY <1>1 DEF ClearLook, LookAt, Tool, Repairing, Mid, Before, After
<1>4. /\ next \in Mid
      /\ n # "BCD" => next \in After /\ next \notin Moving
      /\ n = "BCD" /\ win.store[n] # "none" => next \in Before
      /\ n = "BCD" /\ win.store[n] = "none" => next \in After /\ next \notin Before /\ next \notin Moving
    BY <1>1 DEF ClearNext, UnlinkAt, Mid, Before, After, Moving
<1> HIDE DEF next
<1>5. /\ WorkerShape' /\ worker'[i].pc = next /\ worker'[i].kind = worker[i].kind
      /\ \A j \in Starts \ {i} : worker'[j] = worker[j]
    BY <1>1, <1>3, ToFields
<1>6. CASE n # "BCD"
    BY <1>2, <1>3, <1>4, <1>5, <1>6, AloofStep
<1>7. CASE n = "BCD" /\ win.store[n] # "none"
    <2>1. Bcd # "none"
        BY <1>7 DEF Bcd
    <2> QED BY <1>2, <1>3, <1>4, <1>5, <1>7, <2>1, AloofStep
<1>8. CASE n = "BCD" /\ win.store[n] = "none"
    <2>1. Bcd = "none"
        BY <1>8 DEF Bcd
    <2>2. ~OneRepair
        BY <1>3, <1>8, <2>1 DEF OneRepair
    <2>3. /\ WinShape' /\ win'.repairs = win.repairs /\ win'.crowded = win.crowded
          /\ Orderly => Bcd' # "none" \/ Bak' # "none"
        BY <1>2 DEF Aloof, Orderly
    <2> QED BY <1>3, <1>4, <1>5, <1>8, <2>2, <2>3, RepairStep
<1> QED BY <1>6, <1>7, <1>8

\* The .bak of an earlier repair goes, if it does.
LEMMA UnlinkKeeps ==
    ASSUME BootInv, NEW i \in Starts, NEW n \in Stores, ClearUnlink(i, n)
    PROVE  BootInv'
<1>1. WorkerShape /\ WinShape /\ n \in {"BCD", "LOG"}
    BY DEF BootInv, Stores
<1>2. PICK x : win' = [win EXCEPT !.bak[n] = x]
    BY DEF ClearUnlink
<1>3. /\ WinShape' /\ win'.repairs = win.repairs /\ win'.crowded = win.crowded
      /\ Bcd' = Bcd /\ (n # "BCD" => Bak' = Bak)
    BY <1>1, <1>2, BakFields
<1>4. /\ Repairing(i) /\ To(i, RenameAt[n])
      /\ n = "BCD" => worker[i].pc \in Before /\ worker[i].pc \in Moving
      /\ n # "BCD" => worker[i].pc \in After
    BY <1>1 DEF ClearUnlink, UnlinkAt, Tool, Repairing, Mid, Before, After, Moving
<1>5. /\ n = "BCD" => RenameAt[n] \in Before /\ RenameAt[n] \notin After
      /\ n # "BCD" => RenameAt[n] \in After /\ RenameAt[n] \notin Moving
    BY <1>1 DEF RenameAt, Before, After, Moving
<1>6. /\ WorkerShape' /\ worker'[i].pc = RenameAt[n] /\ worker'[i].kind = worker[i].kind
      /\ \A j \in Starts \ {i} : worker'[j] = worker[j]
    BY <1>1, <1>4, ToFields
<1>7. CASE n # "BCD"
    <2>1. Aloof
        BY <1>3, <1>7 DEF Aloof
    <2> QED BY <1>4, <1>5, <1>6, <1>7, <2>1, AloofStep
<1>8. CASE n = "BCD"
    <2>1. Orderly => Bcd' # "none"
        BY <1>3, <1>4, <1>8 DEF Orderly
    <2>2. OneRepair => Bcd' = "old"
        BY <1>3, <1>4, <1>8 DEF OneRepair
    <2> QED BY <1>3, <1>4, <1>5, <1>6, <1>8, <2>1, <2>2, RepairStep
<1> QED BY <1>7, <1>8

\* The store is moved to its .bak, if it is still there and Windows moves it.
LEMMA RenameKeeps ==
    ASSUME BootInv, NEW i \in Starts, NEW n \in Stores, ClearRename(i, n)
    PROVE  BootInv'
<1>1. WorkerShape /\ WinShape /\ n \in {"BCD", "LOG"}
    BY DEF BootInv, Stores
<1>2. /\ Repairing(i)
      /\ n = "BCD" => worker[i].pc \in Before
      /\ n # "BCD" => worker[i].pc \in After
    BY <1>1 DEF ClearRename, RenameAt, Tool, Repairing, Mid, Before, After
<1>3. /\ ClearNext(n) \in After /\ ClearNext(n) \notin Before /\ ClearNext(n) \notin Moving
    BY DEF ClearNext, Before, After, Moving
<1>4. n = "BCD" => win.store[n] = Bcd
    BY DEF Bcd
<1>5. CASE win.store[n] # "none" /\ win' = Aside(n) /\ To(i, ClearNext(n))
    <2>1. /\ WorkerShape' /\ worker'[i].pc = ClearNext(n) /\ worker'[i].kind = worker[i].kind
          /\ \A j \in Starts \ {i} : worker'[j] = worker[j]
        BY <1>1, <1>5, ToFields
    <2>2. /\ WinShape' /\ win'.repairs = win.repairs /\ win'.crowded = win.crowded
          /\ n = "BCD" => Bak' = Bcd
          /\ n # "BCD" => Bak' = Bak /\ Bcd' = Bcd
        BY <1>1, <1>5, AsideFields
    <2>3. CASE n # "BCD"
        <3>1. Aloof
            BY <2>2, <2>3 DEF Aloof
        <3> QED BY <1>2, <1>3, <2>1, <2>3, <3>1, AloofStep
    <2>4. CASE n = "BCD"
        <3>1. Bak' # "none"
            BY <1>4, <1>5, <2>2, <2>4
        <3>2. OneRepair => Bak' = "old"
            BY <1>2, <2>2, <2>4 DEF OneRepair
        <3> QED BY <1>2, <1>3, <2>1, <2>2, <3>1, <3>2, RepairStep
    <2> QED BY <2>3, <2>4
<1>6. CASE Fails(i, "drop")
    <2>1. Calm
        BY <1>1, <1>6, EndsCalm DEF Fails, Mid, Before, After
    <2> QED BY <1>1, <1>6, <2>1, SameWin, CalmKeeps DEF Fails
<1> QED BY <1>5, <1>6 DEF ClearRename

\* The last step: a store is made, or not, and what is aside stays there.
LEMMA BcdbootKeeps ==
    ASSUME BootInv, NEW i \in Starts, Bcdboot(i)
    PROVE  BootInv'
<1>1. WorkerShape /\ WinShape
    BY DEF BootInv
<1>2. Repairing(i) /\ worker[i].pc \in After
    BY DEF Bcdboot, Tool, Repairing, Mid, Before, After
<1>3. PICK x, res : /\ win' = [win EXCEPT !.store["BCD"] = x] /\ Ends(i, "drop", res)
                    /\ x = Bcd \/ x \in {"fresh", "merged", "partial"}
    <2>1. CASE /\ win' = [win EXCEPT !.store["BCD"] = IF @ = "none" THEN "fresh" ELSE "merged"]
               /\ Ends(i, "drop", "ok")
        <3> DEFINE y == IF win.store["BCD"] = "none" THEN "fresh" ELSE "merged"
        <3>1. win' = [win EXCEPT !.store["BCD"] = y] /\ y \in {"fresh", "merged"}
            BY <2>1
        <3> HIDE DEF y
        <3> QED BY <2>1, <3>1
    <2>2. CASE /\ \E left \in {win.store["BCD"], "partial"} :
                     win' = [win EXCEPT !.store["BCD"] = left]
               /\ Ends(i, "drop", "failed")
        BY <2>2 DEF Bcd
    <2> QED BY <2>1, <2>2 DEF Bcdboot
<1>4. /\ WinShape' /\ win'.repairs = win.repairs /\ win'.crowded = win.crowded
      /\ Bcd' = x /\ Bak' = Bak
    BY <1>1, <1>3, StoreFields
<1>5. Orderly => Bcd' # "none" \/ Bak' # "none"
    BY <1>3, <1>4 DEF Orderly
<1>6. OneRepair => "old" \in {Bcd', Bak'}
    BY <1>2, <1>4 DEF OneRepair
<1>7. /\ WorkerShape' /\ worker'[i].pc = "drop" /\ worker'[i].kind = worker[i].kind
      /\ \A j \in Starts \ {i} : worker'[j] = worker[j]
    BY <1>1, <1>3, EndsFields
<1>8. "drop" \notin Before /\ "drop" \notin After /\ "drop" \notin Moving
    BY DEF Before, After, Moving
<1> QED BY <1>2, <1>4, <1>5, <1>6, <1>7, <1>8, RepairStep

\* What the two other tools do to the installation, and the end of a tool whose thread
\* dies: fields of their own.
LEMMA OtherTools ==
    ASSUME WinShape, NEW i \in Starts,
           \/ BootDrop(i) \/ HelloStop(i) \/ HelloRemove(i) \/ HelloStart(i)
           \/ AdminLive(i) \/ AdminLeftover(i) \/ AdminLoad(i) \/ AdminOpen(i)
           \/ AdminUse(i) \/ AdminUnload(i) \/ ToolPanics(i)
    PROVE  Aloof /\ win'.store = win.store
<1> DEFINE Apart == Aloof /\ win'.store = win.store
<1>0. {"service", "ngc", "hive", "keys", "admin"} \subseteq WinFields \ (BootFields \cup {"letters"})
    BY DEF WinFields, BootFields
<1>1. ASSUME UnloadLeftover \/ LoadHive \/ OpenKey(i) \/ UnloadHive PROVE Apart
    BY <1>1, HiveOnly, HiveAloof
<1>2. ASSUME NEW pc, Fails(i, pc) PROVE Apart
    BY <1>2, SameWin DEF Fails
<1>3. CASE BootDrop(i)
    BY <1>3, LettersGo DEF BootDrop
<1>4. CASE HelloStop(i)
    <2>1. CASE win' = [win EXCEPT !.service = "stopped"]
        BY <1>0, <2>1, EditAloof
    <2> QED BY <1>2, <1>4, <2>1, SameWin DEF HelloStop
<1>5. CASE HelloRemove(i)
    <2>1. PICK gone : win' = [win EXCEPT !.ngc = ~gone]
        BY <1>5 DEF HelloRemove
    <2> QED BY <1>0, <2>1, EditAloof
<1>6. CASE HelloStart(i)
    <2>1. PICK x : win' = [win EXCEPT !.service = x]
        BY <1>6 DEF HelloStart
    <2> QED BY <1>0, <2>1, EditAloof
<1>7. CASE AdminLive(i)
    <2>1. CASE win' = [win EXCEPT !.admin = worker[i].deep]
        BY <1>0, <2>1, EditAloof
    <2> QED BY <1>2, <1>7, <2>1 DEF AdminLive
<1>8. CASE AdminLeftover(i) \/ AdminLoad(i) \/ AdminOpen(i) \/ AdminUnload(i)
    BY <1>1, <1>2, <1>8 DEF AdminLeftover, AdminLoad, AdminOpen, AdminUnload
<1>9. CASE AdminUse(i)
    <2>1. Only(HiveFields)
        BY <1>9 DEF AdminUse, WinShape, Only, WinFields, HiveFields
    <2> QED BY <2>1, HiveAloof
<1>10. CASE ToolPanics(i)
    <2>1. CASE DropLetters(i)
        BY <2>1, LettersGo
    <2>2. ASSUME NEW x, win' = [win EXCEPT !.service = x] \/ win' = [win EXCEPT !.hive = x]
          PROVE  Apart
        BY <1>0, <2>2, EditAloof
    <2> QED BY <1>10, <2>1, <2>2 DEF ToolPanics
<1> QED BY <1>3, <1>4, <1>5, <1>6, <1>7, <1>8, <1>9, <1>10

\* They move their workers to places outside of a repair.
LEMMA OtherMoves ==
    ASSUME WorkerShape, NEW i \in Starts,
           \/ BootDrop(i) \/ HelloStop(i) \/ HelloRemove(i) \/ HelloStart(i)
           \/ AdminLive(i) \/ AdminLeftover(i) \/ AdminLoad(i) \/ AdminOpen(i)
           \/ AdminUse(i) \/ AdminUnload(i) \/ ToolPanics(i)
    PROVE  Calm
<1> DEFINE P == {"remove", "start", "load", "open", "use", "unload", "sent", "panicked"}
<1>1. P \cap Mid = {}
    BY DEF Mid, Before, After
<1>2. ASSUME NEW pc \in P, NEW res, To(i, pc) \/ Ends(i, pc, res) PROVE Calm
    BY <1>1, <1>2, ToCalm, EndsCalm
<1>3. \E pc \in P, res \in {"ok", "failed"} : To(i, pc) \/ Ends(i, pc, res)
    <2>1. CASE BootDrop(i) \/ HelloStop(i) \/ HelloRemove(i) \/ HelloStart(i)
        BY <2>1 DEF BootDrop, HelloStop, HelloRemove, HelloStart, Fails
    <2>2. CASE AdminLive(i) \/ AdminLeftover(i) \/ AdminLoad(i) \/ AdminOpen(i)
        BY <2>2 DEF AdminLive, AdminLeftover, AdminLoad, AdminOpen, AfterOpen, Fails
    <2>3. CASE AdminUse(i) \/ AdminUnload(i) \/ ToolPanics(i)
        BY <2>3 DEF AdminUse, AdminUnload, ToolPanics
    <2> QED BY <2>1, <2>2, <2>3
<1> QED BY <1>2, <1>3

\* Every step of a tool.
LEMMA RepairKeeps ==
    ASSUME BootInv, NEW i \in Starts, ToolStep(i) \/ ToolPanics(i)
    PROVE  BootInv'
<1>1. WorkerShape /\ WinShape
    BY DEF BootInv
<1>2. ASSUME NEW pc, pc \notin Mid, Fails(i, pc) PROVE BootInv'
    BY <1>1, <1>2, EndsCalm, SameWin, CalmKeeps DEF Fails
<1>3. ASSUME NEW pc \in Before \ Moving, Repairing(i), worker[i].pc \in Before, To(i, pc), Aloof
      PROVE  BootInv'
    BY <1>1, <1>3, ToFields, AloofStep
<1>4. "drop" \notin Mid /\ "sent" \notin Mid /\ "active" \in WinFields \ (BootFields \cup {"letters"})
    BY DEF WinFields, BootFields, Mid, Before, After
<1>5. ASSUME Tool(i, "boot", "active") \/ Tool(i, "boot", "syslet") \/ Tool(i, "boot", "bootsect")
      PROVE  Repairing(i) /\ worker[i].pc \in Before
    BY <1>5 DEF Tool, Repairing, Mid, Before
<1>6. {"syslet", "bootsect", "look"} \subseteq Before \ Moving
    BY DEF Before, Moving
<1>7. CASE Detect(i)
    <2>1. PICK pc \in {"sent", "letter", "stop", "set", "leftover"} :
              (To(i, pc) \/ Fails(i, pc)) /\ UNCHANGED win
        BY <1>7 DEF Detect, Fails
    <2>2. pc \notin Mid
        BY DEF Mid, Before, After
    <2> QED BY <1>1, <1>2, <2>1, <2>2, ToCalm, SameWin, CalmKeeps
<1>8. CASE BootActive(i)
    <2>1. CASE win' = [win EXCEPT !.active = TRUE] /\ To(i, "syslet")
        <3>1. Aloof
            BY <1>1, <1>4, <2>1, EditAloof
        <3> QED BY <1>3, <1>5, <1>6, <1>8, <2>1, <3>1 DEF BootActive
    <2> QED BY <1>2, <1>4, <1>8, <2>1 DEF BootActive
<1>9. CASE BootSysLetter(i)
    <2>1. ASSUME NEW own, win' = [win EXCEPT !.letters[i] = own] PROVE Aloof
        <3>1. Only({"letters"}) /\ win'.letters = [win.letters EXCEPT ![i] = own]
            BY <1>1, <2>1 DEF WinShape, WinFields, Only
        <3> QED BY <1>1, <3>1, OnlyAloof DEF WinShape, BootFields
    <2>2. CASE /\ \E own \in Letters(i, "sys", 1) : win' = [win EXCEPT !.letters[i] = own]
               /\ To(i, IF win.inst.uefi THEN "look" ELSE "bootsect")
        <3>1. PICK pc \in Before \ Moving : To(i, pc)
            BY <1>6, <2>2
        <3> QED BY <1>3, <1>5, <1>9, <2>1, <2>2, <3>1 DEF BootSysLetter
    <2> QED BY <1>2, <1>4, <1>9, <2>2 DEF BootSysLetter
<1>10. CASE Bootsect(i)
    BY <1>1, <1>2, <1>3, <1>4, <1>5, <1>6, <1>10, SameWin DEF Bootsect
<1>11. CASE \E n \in Stores : ClearStore(i, n)
    BY <1>11, LookKeeps, UnlinkKeeps, RenameKeeps DEF ClearStore
<1>12. CASE BootLetter(i) \/ Bcdboot(i)
    BY <1>12, LetterKeeps, BcdbootKeeps
<1> QED BY <1>1, <1>7, <1>8, <1>9, <1>10, <1>11, <1>12, OtherTools, OtherMoves, CalmKeeps
           DEF ToolStep

-----------------------------------------------------------------------------
(* The window and the process. *)

\* What leaves both the workers and the installation alone.
LEMMA IdleKeeps == ASSUME BootInv, UNCHANGED <<worker, win>> PROVE BootInv'
<1>1. WorkerShape /\ WinShape
    BY DEF BootInv
<1>2. Calm /\ Aloof
    BY <1>1, StaysSettled, SameWin DEF Calm
<1> QED BY <1>2, CalmKeeps

\* Dialogs, pages, mounts, virtual machines.
LEMMA QuietSteps ==
    ASSUME \/ StartClone \/ ValidationEnds \/ CancelDialog
           \/ \E p \in Paths : StartRestore(p) \/ Mount(p) \/ RequestVm(p)
           \/ \E t \in Tools : OpenTool(t)
           \/ StartBootRepair \/ StartResetHello \/ StartAdminToggle
           \/ DeleteRecord \/ Refresh \/ MountClick \/ DriveUse
           \/ AnswerBoot \/ SessionRow \/ VmWorks \/ CloseOrphan \/ Restart
    PROVE  UNCHANGED <<worker, win>>
<1> USE DEF OnlyUi, NotCatalog, NotMounts, NotVm, jobVars
<1>1. ASSUME StartClone \/ ValidationEnds \/ CancelDialog PROVE UNCHANGED <<worker, win>>
    BY <1>1 DEF StartClone, ValidationEnds, CancelDialog
<1>2. ASSUME NEW p \in Paths, StartRestore(p) \/ Mount(p) \/ RequestVm(p)
      PROVE  UNCHANGED <<worker, win>>
    BY <1>2 DEF StartRestore, Mount, RequestVm
<1>3. ASSUME NEW t, NEW b, OpenTool(t) \/ StartTool(t, b) PROVE UNCHANGED <<worker, win>>
    BY <1>3 DEF OpenTool, StartTool
<1>4. ASSUME StartBootRepair \/ StartResetHello PROVE UNCHANGED <<worker, win>>
    BY <1>3, <1>4 DEF StartBootRepair, StartResetHello
<1>5. ASSUME StartAdminToggle PROVE UNCHANGED <<worker, win>>
    BY <1>5 DEF StartAdminToggle, StartTool
<1>6. ASSUME DeleteRecord \/ Refresh \/ MountClick \/ DriveUse PROVE UNCHANGED <<worker, win>>
    BY <1>6 DEF DeleteRecord, Refresh, MountClick, DriveUse
<1>7. ASSUME AnswerBoot \/ SessionRow \/ VmWorks \/ CloseOrphan PROVE UNCHANGED <<worker, win>>
    BY <1>7 DEF AnswerBoot, SessionRow, VmWorks, CloseOrphan
<1>8. ASSUME Restart PROVE UNCHANGED <<worker, win>>
    BY <1>8 DEF Restart
<1> QED BY <1>1, <1>2, <1>3, <1>4, <1>5, <1>6, <1>7, <1>8

\* What starts, answers or ends workers: it leaves the installation alone, or is the end
\* of the process.
LEMMA BusySteps ==
    ASSUME WorkerShape,
           \/ \E paths \in user.outputs, deep \in user.deep : StartBackup(paths, deep)
           \/ ConfirmOverwrite \/ ConfirmDisk
           \/ \E p \in Paths : StartVerify(p)
           \/ \E t \in Tools : ConfirmTool(t)
           \/ Polls \/ JobClick
           \/ PressClose \/ RestartToUpdate \/ ConfirmClose \/ Crash
    PROVE  Calm /\ (UNCHANGED win \/ ToolsKilled)
<1> USE DEF OnlyUi, NotJobs, jobVars
<1>0. ASSUME UNCHANGED worker PROVE Calm
    BY <1>0, StaysSettled DEF Calm
<1>1. ASSUME NEW paths, NEW deep, StartBackup(paths, deep) PROVE Calm /\ UNCHANGED win
    <2>1. CASE LaunchQueue(paths, deep, FALSE)
        BY <2>1, QueueCalm DEF LaunchQueue
    <2>2. CASE OnlyUi
        BY <1>0, <2>2
    <2> QED BY <1>1, <2>1, <2>2 DEF StartBackup
<1>2. CASE ConfirmOverwrite
    <2>1. PICK d \in dialogs : LaunchQueue(d.paths, d.deep, TRUE)
        BY <1>2 DEF ConfirmOverwrite
    <2> QED BY <2>1, QueueCalm DEF LaunchQueue
<1>3. "work" \notin Mid /\ "verify" \notin Mid /\ "detect" \notin Mid
    BY DEF Mid, Before, After
<1>4. ASSUME NEW kind, NEW path, NEW deep, NEW pc, pc \notin Mid,
             TakeSlot(Worker(kind, path, deep, pc))
      PROVE  Calm /\ UNCHANGED win
    BY <1>4, SlotCalm DEF TakeSlot
<1>5. CASE ConfirmDisk
    <2>1. PICK d, path : d \in dialogs /\ TakeSlot(Worker(d.kind, path, FALSE, "work"))
        BY <1>5 DEF ConfirmDisk
    <2> QED BY <1>3, <1>4, <2>1
<1>6. ASSUME NEW p, StartVerify(p) PROVE Calm /\ UNCHANGED win
    BY <1>3, <1>4, <1>6 DEF StartVerify
<1>7. ASSUME NEW t, ConfirmTool(t) PROVE Calm /\ UNCHANGED win
    BY <1>3, <1>4, <1>7 DEF ConfirmTool
<1>8. CASE Polls
    BY <1>8, PollCalm DEF Polls
<1>9. CASE JobClick
    BY <1>9, PollCalm DEF JobClick
<1>10. ASSUME NEW how, NEW delete, NEW off, ProcessEnds(how, delete, off)
       PROVE  Calm /\ ToolsKilled
    BY <1>10, EndCalm DEF ProcessEnds
<1>11. CASE PressClose
    <2>1. CASE OnlyUi
        BY <1>0, <2>1
    <2>2. CASE ProcessEnds("closed", TRUE, FALSE)
        BY <1>10, <2>2
    <2> QED BY <1>11, <2>1, <2>2 DEF PressClose
<1>12. CASE RestartToUpdate
    BY <1>10, <1>12 DEF RestartToUpdate
<1>13. CASE ConfirmClose
    <2>1. PICK off : ProcessEnds("closed", TRUE, off)
        BY <1>13 DEF ConfirmClose
    <2> QED BY <1>10, <2>1
<1>14. CASE Crash
    BY <1>10, <1>14 DEF Crash
<1> QED BY <1>1, <1>2, <1>5, <1>6, <1>7, <1>8, <1>9, <1>11, <1>12, <1>13, <1>14

\* The thread of the window reads the state of an Administrator.
LEMMA ReadsAloof == ASSUME WinShape, Reads PROVE Aloof /\ win'.store = win.store /\ UNCHANGED worker
<1>1. UNCHANGED worker
    BY DEF Reads, jobVars
<1>2. ASSUME UnloadLeftover \/ LoadHive \/ OpenKey(0) \/ UnloadHive
      PROVE  Aloof /\ win'.store = win.store
    BY <1>2, HiveOnly, HiveAloof
<1>3. ASSUME win' = [win EXCEPT !.keys = @ \ {0}]
      PROVE  Aloof /\ win'.store = win.store
    BY <1>3, EditAloof DEF WinFields, BootFields
<1>4. Aloof /\ win'.store = win.store
    BY <1>2, <1>3, SameWin DEF Reads, ReadAdmin, ReadStep
<1> QED BY <1>1, <1>4

\* The invariant holds at the start, and through every step.
LEMMA StartsWell == ASSUME Init PROVE BootInv
<1>1. worker = [i \in Starts |-> NoWorker] /\ win = InstallInit(user.on)
    BY DEF Init, JobsInit
<1>2. \A i \in Starts : /\ "kind" \in DOMAIN worker[i] /\ "pc" \in DOMAIN worker[i]
                        /\ worker[i].kind = "none"
    BY <1>1 DEF NoWorker
<1>3. WorkerShape /\ \A i \in Starts : ~Repairing(i)
    BY <1>1, <1>2 DEF WorkerShape, Repairing
<1>4. /\ DOMAIN win = WinFields /\ win.repairs = 0
      /\ win.store = [n \in Stores |-> "old"] /\ win.bak = [n \in Stores |-> "none"]
      /\ win.letters = [i \in Starts |-> {}]
    BY <1>1 DEF InstallInit, WinFields
<1>5. WinShape /\ Bcd = "old"
    BY <1>4 DEF WinShape, Bcd, Stores
<1> QED BY <1>3, <1>4, <1>5 DEF BootInv, Orderly

\* Every step of the application.
LEMMA StepKeeps == ASSUME BootInv, [Next]_vars PROVE BootInv'
<1>1. WorkerShape /\ WinShape
    BY DEF BootInv
<1>2. ASSUME UNCHANGED <<worker, win>> PROVE BootInv'
    BY <1>2, IdleKeeps
<1>3. ASSUME Calm, UNCHANGED win \/ ToolsKilled PROVE BootInv'
    BY <1>1, <1>3, SameWin, KillOnly, CalmKeeps
<1>4. ASSUME NEW i \in Starts, Works(i) \/ Dies(i) PROVE BootInv'
    <2>1. CASE ToolStep(i) \/ ToolPanics(i)
        BY <2>1, RepairKeeps
    <2>2. CASE (WorkerStep(i) \/ WorkerPanics(i)) /\ NotJobs
        BY <1>1, <1>3, <2>2, WorkCalm DEF NotJobs
    <2> QED BY <1>4, <2>1, <2>2 DEF Works, Dies
<1>5. CASE UNCHANGED vars
    BY <1>2, <1>5 DEF vars, jobVars
<1>6. CASE Reads
    BY <1>1, <1>6, ReadsAloof, StaysSettled, CalmKeeps DEF Calm
<1> QED BY <1>1, <1>2, <1>3, <1>4, <1>5, <1>6, QuietSteps, BusySteps DEF Next

\* Hence of every run.
LEMMA BootInvHolds == Spec => []BootInv
<1>1. Init => BootInv
    BY StartsWell
<1>2. BootInv /\ [Next]_vars => BootInv'
    BY StepKeeps
<1> QED BY <1>1, <1>2, PTL DEF Spec

\* Whatever tools, jobs and windows do at the same time, on any machine and for any
\* number of them, and wherever a boot repair fails, panics or is killed with the
\* process: while no repair has run into another, a boot store is there, or one set
\* aside, and after a single repair it is the old one.
THEOREM WayBackTheorem == Spec => []WayBack
<1>1. BootInv => WayBack
    BY DEF BootInv, Orderly, OneRepair, WinShape, WayBack, Bcd, Bak
<1> QED BY <1>1, BootInvHolds, PTL

--------------------------------------------------------------------------------
(* What the job history claims is true, for any number of jobs, disks of a backup
   run, failing saves, kills and restarts. *)

\* A record that claims no success that did not happen, of the images s that are as
\* captured and the images f that were finalized.
True(r, s, f) ==
    r.outcome = "ok" => /\ r.kind = "verify" => r.img \in s
                        /\ r.kind = "backup" => r.img \in f
LogTrue(log, s, f) == \E R : log \in Seq(R) /\ \A r \in R : True(r, s, f)

WorkerFields == {"kind", "path", "deep", "cancel", "asked", "pc", "res", "img"}
\* Worker w of start i: what it has to show when it says "ok", and the path and the
\* image it gets there with.
Honest(w, i, s, f) ==
    /\ DOMAIN w = WorkerFields
    /\ w.pc = "queued" => w.kind = "backup"
    /\ w.kind = "backup" =>
           /\ w.pc \in {"queued", "start"} => w.res = "none"
           /\ w.pc = "capture" => w.img = i
           /\ w.res = "ok" => w.img \in f
    /\ w.kind = "verify" \/ (w.kind = "backup" /\ w.deep) => (w.res = "ok" => w.img \in s)
    /\ w.kind \in {"backup", "verify"} =>
           (w.pc \in {"queued", "start", "capture", "verify"} \/ w.res = "ok" => w.path \in Paths)
AllHonest(ws, s, f) == DOMAIN ws = Starts /\ \A i \in Starts : Honest(ws[i], i, s, f)

\* The disks that wait: in order, and none of them has begun.
Waiting(q, ws) ==
    /\ q \in Seq(Starts)
    /\ \A a \in 1 .. Len(q) : ws[q[a]].pc = "queued"
    /\ \A a, b \in 1 .. Len(q) : a < b => q[a] < q[b]

\* A finalized file is one of the images that were finalized.
FilesTrue == /\ DOMAIN file = Paths
             /\ \A p \in Paths : file[p].whole => file[p].img \in written
\* What the window keeps to start jobs with.
Offered == /\ DOMAIN completed = {"banner", "offer", "path"}
           /\ completed.offer # 0 => completed.path \in Paths
Asked == /\ user \in Users
         /\ validating \in Paths \cup {"none"}
         /\ \A d \in dialogs : d.paths \in Seq(Paths)
Logs == /\ LogTrue(history, sound, written)
        /\ DOMAIN saved = {"history", "known"}
        /\ LogTrue(saved.history, sound, written)

HistoryInv ==
    /\ AllHonest(worker, sound, written) /\ Waiting(queue, worker)
    /\ slot \in Starts \cup {0} /\ FilesTrue /\ Offered /\ Asked /\ Logs

-----------------------------------------------------------------------------
(* Logs: what is true of an image stays true, and every log is made of true ones. *)

\* What is true of a record stays true as more images are as captured and finalized.
LEMMA TrueStays ==
    ASSUME NEW s, NEW f, NEW t, NEW g, s \subseteq t, f \subseteq g, NEW r, True(r, s, f)
    PROVE  True(r, t, g)
BY DEF True

\* So does what is true of a log.
LEMMA LogStays ==
    ASSUME NEW s, NEW f, NEW t, NEW g, s \subseteq t, f \subseteq g,
           NEW log, LogTrue(log, s, f)
    PROVE  LogTrue(log, t, g)
BY TrueStays DEF LogTrue

\* Every record of a true log is true.
LEMMA LogElement ==
    ASSUME NEW s, NEW f, NEW log, LogTrue(log, s, f)
    PROVE  \A k \in DOMAIN log : True(log[k], s, f)
<1>1. PICK R : log \in Seq(R) /\ \A r \in R : True(r, s, f)
    BY DEF LogTrue
<1>2. DOMAIN log = 1 .. Len(log)
    BY <1>1, LenProperties
<1> QED BY <1>1, <1>2, ElementOfSeq

\* True records after a true log, cut to the cap at its old end, are a true log.
LEMMA LogGrows ==
    ASSUME NEW s, NEW f, NEW log, LogTrue(log, s, f), NEW R, NEW recs \in Seq(R),
           \A r \in R : True(r, s, f)
    PROVE  LogTrue(Trim(log \o recs), s, f)
<1>1. PICK Q : log \in Seq(Q) /\ \A r \in Q : True(r, s, f)
    BY DEF LogTrue
<1> DEFINE T == Q \cup R
           all == log \o recs
           first == IF Len(all) > HistoryCap THEN Len(all) - HistoryCap + 1 ELSE 1
<1>2. log \in Seq(T) /\ recs \in Seq(T)
    BY <1>1, SeqMonotonic
<1>3. all \in Seq(T)
    BY <1>2, ConcatProperties
<1> HIDE DEF all
<1>4. Len(all) \in Nat /\ first \in Int /\ first >= 1
    BY <1>3, CatalogAssumption, LenProperties
<1>5. \A k \in first .. Len(all) : all[k] \in T
    BY <1>3, <1>4, ElementOfSeq
<1> HIDE DEF T
<1>6. SubSeq(all, first, Len(all)) \in Seq(T)
    BY <1>4, <1>5, SubSeqProperties
<1>7. \A r \in T : True(r, s, f)
    BY <1>1 DEF T
<1> QED BY <1>6, <1>7 DEF LogTrue, Trim, all

\* A record less leaves a true log.
LEMMA LogShrinks ==
    ASSUME NEW s, NEW f, NEW log, LogTrue(log, s, f), NEW k \in DOMAIN log
    PROVE  LogTrue([j \in 1 .. Len(log) - 1 |-> log[IF j < k THEN j ELSE j + 1]], s, f)
<1>1. PICK R : log \in Seq(R) /\ \A r \in R : True(r, s, f)
    BY DEF LogTrue
<1>2. DOMAIN log = 1 .. Len(log) /\ Len(log) \in Nat
    BY <1>1, LenProperties
<1>3. Len(log) - 1 \in Nat /\ k \in Nat
    BY <1>2
<1> DEFINE new == [j \in 1 .. Len(log) - 1 |-> log[IF j < k THEN j ELSE j + 1]]
<1>4. \A j \in 1 .. Len(log) - 1 : log[IF j < k THEN j ELSE j + 1] \in R
    <2>1. ASSUME NEW j \in 1 .. Len(log) - 1
          PROVE  (IF j < k THEN j ELSE j + 1) \in 1 .. Len(log)
        BY <1>2, <1>3
    <2> QED BY <1>1, <2>1, ElementOfSeq
<1>5. new \in Seq(R)
    BY <1>3, <1>4, IsASeq
<1> QED BY <1>1, <1>5 DEF LogTrue

\* What is recorded of an honest worker.
LEMMA RecordsTrue ==
    ASSUME NEW s, NEW f, NEW i, NEW w, Honest(w, i, s, f), NEW seen,
           seen => w.kind = "backup" /\ w.deep /\ w.img \in f
    PROVE  \E R : RecordsOf(w, seen) \in Seq(R) /\ \A r \in R : True(r, s, f)
<1>1. CASE seen
    <2> DEFINE a == Record("backup", w.path, "ok", w.img)
               b == Record("verify", w.path, w.res, w.img)
    <2>1. True(a, s, f) /\ True(b, s, f)
        BY <1>1 DEF True, Record, Honest
    <2>2. RecordsOf(w, seen) = <<a, b>>
        BY <1>1 DEF RecordsOf
    <2> HIDE DEF a, b
    <2> DEFINE R == {a, b}
    <2>3. <<a, b>> \in Seq(R) /\ \A r \in R : True(r, s, f)
        BY <2>1
    <2> HIDE DEF R
    <2> QED BY <2>2, <2>3
<1>2. CASE ~seen
    <2> DEFINE a == Record(w.kind, w.path, w.res, w.img)
    <2>1. True(a, s, f)
        BY DEF True, Record, Honest
    <2>2. RecordsOf(w, seen) = <<a>>
        BY <1>2 DEF RecordsOf
    <2> HIDE DEF a
    <2> DEFINE R == {a}
    <2>3. <<a>> \in Seq(R) /\ \A r \in R : True(r, s, f)
        BY <2>1
    <2> HIDE DEF R
    <2> QED BY <2>2, <2>3
<1> QED BY <1>1, <1>2

\* The slot's job is recorded, and both lists are saved, or the save fails.
LEMMA RecordKeeps ==
    ASSUME Logs, NEW i \in Starts, Honest(worker[i], i, sound, written), RecordJob(worker[i]),
           SaveBoth, UNCHANGED <<sound, written>>
    PROVE  Logs'
<1>1. PICK seen : /\ seen => SawVerify(worker[i])
                  /\ history' = Trim(history \o RecordsOf(worker[i], seen))
    BY DEF RecordJob, AppendRecords
<1>2. PICK R : RecordsOf(worker[i], seen) \in Seq(R) /\ \A r \in R : True(r, sound, written)
    BY <1>1, RecordsTrue DEF SawVerify
<1>3. LogTrue(history', sound, written)
    BY <1>1, <1>2, LogGrows DEF Logs
<1>4. /\ DOMAIN saved' = {"history", "known"}
      /\ saved'.history = history' \/ saved'.history = saved.history
    BY DEF SaveBoth, SaveAll, Logs
<1> QED BY <1>3, <1>4 DEF Logs

\* Logs of which nothing changes.
LEMMA SameLogs ==
    ASSUME Logs, UNCHANGED <<history, sound, written>>,
           \/ UNCHANGED saved
           \/ \E v : saved' = [saved EXCEPT !.known = v]
    PROVE  Logs'
<1>1. DOMAIN saved' = {"history", "known"} /\ saved'.history = saved.history
    BY DEF Logs
<1> QED BY <1>1 DEF Logs
-----------------------------------------------------------------------------
(* Workers: each field that a step does not assign stays. *)

\* The fields of a worker that moves on: first, its place and its outcome change.
LEMMA PcResFields ==
    ASSUME NEW w, DOMAIN w = WorkerFields, NEW a, NEW b
    PROVE  LET v == [w EXCEPT !.pc = a, !.res = b]
           IN  /\ DOMAIN v = WorkerFields /\ v.pc = a /\ v.res = b
               /\ v.kind = w.kind /\ v.path = w.path /\ v.deep = w.deep /\ v.asked = w.asked
               /\ v.img = w.img
BY DEF WorkerFields

\* Only the place changes.
LEMMA PcFields ==
    ASSUME NEW w, DOMAIN w = WorkerFields, NEW a
    PROVE  LET v == [w EXCEPT !.pc = a]
           IN  /\ DOMAIN v = WorkerFields /\ v.pc = a /\ v.res = w.res
               /\ v.kind = w.kind /\ v.path = w.path /\ v.deep = w.deep /\ v.asked = w.asked
               /\ v.img = w.img
BY DEF WorkerFields

\* The place and the image.
LEMMA PcImgFields ==
    ASSUME NEW w, DOMAIN w = WorkerFields, NEW a, NEW b
    PROVE  LET v == [w EXCEPT !.pc = a, !.img = b]
           IN  /\ DOMAIN v = WorkerFields /\ v.pc = a /\ v.res = w.res
               /\ v.kind = w.kind /\ v.path = w.path /\ v.deep = w.deep /\ v.asked = w.asked
               /\ v.img = b
BY DEF WorkerFields

\* The place, the outcome and the image.
LEMMA PcResImgFields ==
    ASSUME NEW w, DOMAIN w = WorkerFields, NEW a, NEW b, NEW c
    PROVE  LET v == [w EXCEPT !.pc = a, !.res = b, !.img = c]
           IN  /\ DOMAIN v = WorkerFields /\ v.pc = a /\ v.res = b
               /\ v.kind = w.kind /\ v.path = w.path /\ v.deep = w.deep /\ v.asked = w.asked
               /\ v.img = c
BY DEF WorkerFields

\* The flag of a cancel.
LEMMA CancelFields ==
    ASSUME NEW w, DOMAIN w = WorkerFields, NEW a
    PROVE  LET v == [w EXCEPT !.cancel = a]
           IN  /\ DOMAIN v = WorkerFields /\ v.pc = w.pc /\ v.res = w.res
               /\ v.kind = w.kind /\ v.path = w.path /\ v.deep = w.deep /\ v.asked = w.asked
               /\ v.img = w.img
BY DEF WorkerFields

\* A worker that is over has nothing left to show.
LEMMA OverHonest ==
    ASSUME NEW i, NEW j, NEW pc, NEW s, NEW f,
           pc \notin {"queued", "start", "capture", "verify"}
    PROVE  Honest(Over(i, pc), j, s, f)
<1> DEFINE w == Over(i, pc)
<1>1. DOMAIN w = WorkerFields /\ w.pc = pc /\ w.res = "none" /\ w.kind = worker[i].kind
    BY DEF Over, NoWorker, WorkerFields
<1> HIDE DEF w
<1>2. Honest(w, j, s, f)
    BY <1>1 DEF Honest
<1> QED BY <1>2 DEF w

\* A worker as it is begun.
LEMMA NewHonest ==
    ASSUME NEW kind, NEW path, NEW deep, NEW pc, NEW i, NEW s, NEW f,
           kind \in {"backup", "verify"} => path \in Paths,
           pc # "queued", kind # "backup"
    PROVE  Honest(Worker(kind, path, deep, pc), i, s, f)
<1> DEFINE w == Worker(kind, path, deep, pc)
<1>1. /\ DOMAIN w = WorkerFields /\ w.pc = pc /\ w.res = "none" /\ w.kind = kind
      /\ w.path = path
    BY DEF Worker, NoWorker, WorkerFields
<1> HIDE DEF w
<1>2. Honest(w, i, s, f)
    BY <1>1 DEF Honest
<1> QED BY <1>2 DEF w

\* An honest worker stays honest as more images are as captured and finalized.
LEMMA HonestStays ==
    ASSUME NEW s, NEW f, NEW t, NEW g, s \subseteq t, f \subseteq g, NEW w, NEW i,
           Honest(w, i, s, f)
    PROVE  Honest(w, i, t, g)
BY DEF Honest

\* One worker steps.
LEMMA OneSteps ==
    ASSUME AllHonest(worker, sound, written), NEW i \in Starts, NEW x,
           worker' = [worker EXCEPT ![i] = x], sound \subseteq sound', written \subseteq written',
           Honest(x, i, sound', written')
    PROVE  AllHonest(worker', sound', written')
<1>1. DOMAIN worker' = Starts /\ worker'[i] = x /\ \A j \in Starts \ {i} : worker'[j] = worker[j]
    BY DEF AllHonest
<1>2. ASSUME NEW j \in Starts PROVE Honest(worker'[j], j, sound', written')
    <2>1. CASE j = i
        BY <1>1, <2>1
    <2>2. CASE j # i
        <3>1. Honest(worker[j], j, sound, written)
            BY DEF AllHonest
        <3>2. worker'[j] = worker[j]
            BY <1>1, <2>2
        <3> QED BY <3>1, <3>2, HonestStays
    <2> QED BY <2>1, <2>2
<1> QED BY <1>1, <1>2 DEF AllHonest

\* Who waits, still waits after a step of a worker that does not.
LEMMA OneWaits ==
    ASSUME DOMAIN worker = Starts, Waiting(queue, worker), queue' = queue, NEW i \in Starts, NEW x,
           worker' = [worker EXCEPT ![i] = x], worker[i].pc # "queued"
    PROVE  Waiting(queue', worker')
<1>1. \A a \in 1 .. Len(queue) : queue[a] \in Starts
    BY ElementOfSeq DEF Waiting
<1> QED BY <1>1 DEF Waiting

\* A move of one worker is the replacement of its record.
LEMMA ToOne ==
    ASSUME NEW i, NEW pc, To(i, pc)
    PROVE  worker' = [worker EXCEPT ![i] = [worker[i] EXCEPT !.pc = pc]]
BY DEF To

\* A step of worker i that makes x of it keeps what all rely on.
LEMMA StepOk ==
    ASSUME HistoryInv, NEW i \in Starts, NEW x, worker' = [worker EXCEPT ![i] = x],
           worker[i].pc # "queued", Honest(x, i, sound', written'),
           sound \subseteq sound', written \subseteq written', FilesTrue',
           UNCHANGED <<history, saved, slot, queue, completed, user, validating, dialogs>>
    PROVE  HistoryInv'
<1>1. AllHonest(worker', sound', written')
    BY OneSteps DEF HistoryInv
<1>2. Waiting(queue', worker')
    BY OneWaits DEF HistoryInv, AllHonest
<1>3. Logs'
    BY LogStays DEF HistoryInv, Logs
<1>4. Offered' /\ Asked'
    BY DEF HistoryInv, Offered, Asked
<1> QED BY <1>1, <1>2, <1>3, <1>4 DEF HistoryInv

\* Files of which nothing changes.
LEMMA SameFiles ==
    ASSUME FilesTrue, UNCHANGED <<file, sound, written>>
    PROVE  FilesTrue' /\ sound \subseteq sound' /\ written \subseteq written'
BY DEF FilesTrue

\* The steps of backups, verifies, restores and clones, and their panics.
LEMMA WorkKeeps ==
    ASSUME HistoryInv, NEW i \in Starts, WorkerStep(i) \/ WorkerPanics(i), NotJobs
    PROVE  HistoryInv'
<1> DEFINE w == worker[i]
<1>1. Honest(w, i, sound, written) /\ DOMAIN w = WorkerFields /\ FilesTrue
    BY DEF HistoryInv, AllHonest, Honest
<1>2. UNCHANGED <<user, validating, dialogs>>
    BY DEF NotJobs, uiVars
\* The two ways that leave the files alone.
<1>3. ASSUME NEW pc, NEW res, Ends(i, pc, res), res # "ok" \/ w.kind \in {"restore", "clone"},
             pc \in {"cleanup", "sent", "panicked"}, w.pc # "queued",
             UNCHANGED <<file, sound, written, history, saved, slot, queue, completed>>
      PROVE  HistoryInv'
    <2> DEFINE x == [w EXCEPT !.pc = pc, !.res = res]
    <2>1. worker' = [worker EXCEPT ![i] = x]
        BY <1>3 DEF Ends
    <2>2. DOMAIN x = WorkerFields /\ x.pc = pc /\ x.res = res /\ x.kind = w.kind
        BY <1>1, PcResFields
    <2> HIDE DEF x, w
    <2>3. Honest(x, i, sound', written')
        BY <1>3, <2>2 DEF Honest
    <2> QED BY <1>1, <1>2, <1>3, <2>1, <2>3, SameFiles, StepOk DEF w
<1>4. ASSUME NEW j \in {"sent", "verify"}, To(i, j), j = "verify" => w.path \in Paths,
             w.pc # "queued", FilesTrue', sound \subseteq sound', written \subseteq written',
             UNCHANGED <<history, saved, slot, queue, completed>>
      PROVE  HistoryInv'
    <2> DEFINE x == [w EXCEPT !.pc = j]
    <2>1. worker' = [worker EXCEPT ![i] = x]
        BY <1>4, ToOne
    <2>2. /\ DOMAIN x = WorkerFields /\ x.pc = j /\ x.res = w.res /\ x.kind = w.kind
          /\ x.path = w.path /\ x.deep = w.deep /\ x.img = w.img
        BY <1>1, PcFields
    <2> HIDE DEF x
    <2>3. Honest(x, i, sound, written)
        BY <1>1, <1>4, <2>2 DEF Honest
    <2>4. Honest(x, i, sound', written')
        BY <1>4, <2>3, HonestStays
    <2> QED BY <1>1, <1>2, <1>4, <2>1, <2>4, StepOk
<1>5. CASE BackupStart(i)
    <2>1. CASE \E res \in Stops(i) : Ends(i, "cleanup", res) /\ UNCHANGED file
        BY <1>3, <1>5, <2>1 DEF BackupStart, Stops
    <2>2. CASE /\ file' = [file EXCEPT ![worker[i].path] = File(i, FALSE)]
               /\ worker' = [worker EXCEPT ![i].pc = "capture", ![i].img = i]
        <3> DEFINE x == [w EXCEPT !.pc = "capture", !.img = i]
        <3>1. worker' = [worker EXCEPT ![i] = x]
            BY <2>2
        <3>2. /\ DOMAIN x = WorkerFields /\ x.pc = "capture" /\ x.res = w.res /\ x.kind = w.kind
              /\ x.path = w.path /\ x.deep = w.deep /\ x.img = i
            BY <1>1, PcImgFields
        <3>3. w.kind = "backup" /\ w.res = "none" /\ w.path \in Paths /\ w.pc # "queued"
            BY <1>1, <1>5 DEF BackupStart, Honest
        <3> HIDE DEF x
        <3>4. Honest(x, i, sound', written')
            BY <3>2, <3>3 DEF Honest
        <3>5. FilesTrue' /\ sound \subseteq sound' /\ written \subseteq written'
            BY <1>1, <1>5, <2>2 DEF BackupStart, FilesTrue, File
        <3>6. UNCHANGED <<history, saved, slot, queue, completed>>
            BY <1>5 DEF BackupStart
        <3> QED BY <1>2, <3>1, <3>3, <3>4, <3>5, <3>6, StepOk
    <2> QED BY <1>5, <2>1, <2>2 DEF BackupStart
<1>6. CASE BackupCapture(i)
    <2>0. /\ w.kind = "backup" /\ w.pc # "queued" /\ w.img = i /\ w.path \in Paths
          /\ UNCHANGED <<history, saved, slot, queue, completed>>
        BY <1>1, <1>6 DEF BackupCapture, Honest
    <2>1. CASE \E res \in Stops(i) : Ends(i, "cleanup", res) /\ UNCHANGED <<file, sound, written>>
        BY <1>3, <2>0, <2>1 DEF Stops
    <2>2. CASE /\ file' = [file EXCEPT ![worker[i].path] = File(i, TRUE)]
               /\ written' = written \cup {i} /\ sound' \in {sound, sound \cup {i}}
               /\ IF worker[i].deep THEN To(i, "verify") ELSE Ends(i, "cleanup", "ok")
        <3>1. FilesTrue' /\ sound \subseteq sound' /\ written \subseteq written'
            BY <1>1, <2>2 DEF FilesTrue, File
        <3>2. CASE worker[i].deep
            BY <1>4, <2>0, <2>2, <3>1, <3>2
        <3>3. CASE ~worker[i].deep
            <4> DEFINE x == [w EXCEPT !.pc = "cleanup", !.res = "ok"]
            <4>1. worker' = [worker EXCEPT ![i] = x]
                BY <2>2, <3>3 DEF Ends
            <4>2. /\ DOMAIN x = WorkerFields /\ x.pc = "cleanup" /\ x.res = "ok" /\ x.kind = w.kind
                  /\ x.path = w.path /\ x.deep = w.deep /\ x.img = w.img
                BY <1>1, PcResFields
            <4> HIDE DEF x
            <4>3. i \in written'
                BY <2>2
            <4>4. Honest(x, i, sound', written')
                BY <2>0, <3>3, <4>2, <4>3 DEF Honest
            <4> QED BY <1>2, <2>0, <3>1, <4>1, <4>4, StepOk
        <3> QED BY <3>2, <3>3
    <2> QED BY <1>6, <2>1, <2>2 DEF BackupCapture
<1>7. CASE Verify(i)
    <2>1. w.pc = "verify" /\ UNCHANGED <<file, sound, written, history, saved, slot, queue, completed>>
        BY <1>7 DEF Verify, catalogVars
    <2>2. PICK end \in {"cleanup", "sent"}, res \in Stops(i) \cup (IF Intact(w.path) THEN {"ok"} ELSE {}) :
              worker' = [worker EXCEPT ![i].pc = end, ![i].res = res, ![i].img = file[w.path].img]
        BY <1>7 DEF Verify
    <2>3. res = "ok" => Intact(w.path)
        BY <2>2 DEF Stops
    <2> DEFINE g == file[w.path].img
               x == [w EXCEPT !.pc = end, !.res = res, !.img = g]
    <2>4. worker' = [worker EXCEPT ![i] = x]
        BY <2>2
    <2>5. /\ DOMAIN x = WorkerFields /\ x.pc = end /\ x.res = res /\ x.kind = w.kind
          /\ x.path = w.path /\ x.deep = w.deep /\ x.img = g
        BY <1>1, PcResImgFields
    <2>6. w.kind \in {"backup", "verify"} => w.path \in Paths
        BY <1>1, <2>1 DEF Honest
    <2>7. w.kind \in {"backup", "verify"} /\ res = "ok" => g \in sound /\ g \in written
        BY <1>1, <2>3, <2>6 DEF Intact, FilesTrue
    <2> HIDE DEF x, g
    <2>8. Honest(x, i, sound, written)
        BY <2>2, <2>5, <2>6, <2>7 DEF Honest
    <2> QED BY <1>1, <1>2, <2>1, <2>4, <2>8, SameFiles, StepOk
<1>8. CASE BackupCleanup(i)
    <2>1. FilesTrue' /\ UNCHANGED <<sound, written>>
        BY <1>1, <1>8 DEF BackupCleanup, FilesTrue, NoFile
    <2>2. To(i, "sent") /\ w.pc # "queued" /\ UNCHANGED <<history, saved, slot, queue, completed>>
        BY <1>8 DEF BackupCleanup
    <2> QED BY <1>4, <2>1, <2>2
<1>9. CASE OtherWork(i)
    <2>1. PICK res : Ends(i, "sent", res)
        BY <1>9 DEF OtherWork
    <2> QED BY <1>3, <1>9, <2>1 DEF OtherWork, catalogVars
<1>10. CASE WorkerPanics(i)
    BY <1>3, <1>10 DEF WorkerPanics, Live, catalogVars
<1> QED BY <1>5, <1>6, <1>7, <1>8, <1>9, <1>10 DEF WorkerStep

\* A tool, whatever its step.
LEMMA ToolForm ==
    ASSUME NEW i, ToolStep(i) \/ ToolPanics(i)
    PROVE  /\ worker[i].kind \in Tools /\ worker[i].pc # "queued" /\ ToolFrame
           /\ \E pc, res : pc \notin {"none", "queued", "verify"} /\ (To(i, pc) \/ Ends(i, pc, res))
<1> USE DEF Tool, Tools, Fails
<1>1. CASE Detect(i)
    BY <1>1 DEF Detect
<1>2. CASE BootLetter(i)
    BY <1>2 DEF BootLetter, AfterLetter
<1>3. CASE BootActive(i)
    BY <1>3 DEF BootActive
<1>4. CASE BootSysLetter(i)
    BY <1>4 DEF BootSysLetter
<1>5. CASE Bootsect(i)
    BY <1>5 DEF Bootsect
<1>6. CASE \E n \in Stores : ClearStore(i, n)
    <2>1. PICK n \in Stores : ClearLook(i, n) \/ ClearUnlink(i, n) \/ ClearRename(i, n)
        BY <1>6 DEF ClearStore
    <2>2. n \in {"BCD", "LOG"}
        BY DEF Stores
    <2>3. /\ LookAt[n] \in {"look", "lookLog"} /\ UnlinkAt[n] \in {"unlink", "unlinkLog"}
          /\ RenameAt[n] \in {"rename", "renameLog"} /\ ClearNext(n) \in {"lookLog", "bcdboot"}
        BY <2>2 DEF LookAt, UnlinkAt, RenameAt, ClearNext
    <2>4. CASE ClearLook(i, n)
        BY <2>3, <2>4 DEF ClearLook
    <2>5. CASE ClearUnlink(i, n)
        BY <2>3, <2>5 DEF ClearUnlink
    <2>6. CASE ClearRename(i, n)
        BY <2>3, <2>6 DEF ClearRename
    <2> QED BY <2>1, <2>4, <2>5, <2>6
<1>7. CASE Bcdboot(i)
    BY <1>7 DEF Bcdboot
<1>8. CASE BootDrop(i)
    BY <1>8 DEF BootDrop
<1>9. CASE HelloStop(i)
    BY <1>9 DEF HelloStop
<1>10. CASE HelloRemove(i)
    BY <1>10 DEF HelloRemove
<1>11. CASE HelloStart(i)
    BY <1>11 DEF HelloStart
<1>12. CASE AdminLive(i)
    BY <1>12 DEF AdminLive
<1>13. CASE AdminLeftover(i) \/ AdminLoad(i)
    BY <1>13 DEF AdminLeftover, AdminLoad
<1>14. CASE AdminOpen(i) \/ AdminUse(i) \/ AdminUnload(i)
    BY <1>14 DEF AdminOpen, AfterOpen, AdminUse, AdminUnload
<1>15. CASE ToolPanics(i)
    BY <1>15 DEF ToolPanics, Live
<1> QED BY <1>1, <1>2, <1>3, <1>4, <1>5, <1>6, <1>7, <1>8, <1>9, <1>10, <1>11, <1>12, <1>13,
           <1>14, <1>15 DEF ToolStep

\* The steps of the Windows tools, and their panics.
LEMMA ToolKeeps ==
    ASSUME HistoryInv, NEW i \in Starts, ToolStep(i) \/ ToolPanics(i), NotTools
    PROVE  HistoryInv'
<1> DEFINE w == worker[i]
<1>1. w.kind \in Tools /\ w.pc # "queued" /\ ToolFrame
    BY ToolForm
<1>2. PICK pc, res : pc # "queued" /\ (To(i, pc) \/ Ends(i, pc, res))
    BY ToolForm
<1>3. DOMAIN w = WorkerFields /\ FilesTrue
    BY DEF HistoryInv, AllHonest, Honest
<1>4. PICK x : /\ worker' = [worker EXCEPT ![i] = x]
               /\ DOMAIN x = WorkerFields /\ x.pc = pc /\ x.kind = w.kind
    <2>1. CASE To(i, pc)
        <3> DEFINE y == [w EXCEPT !.pc = pc]
        <3>1. worker' = [worker EXCEPT ![i] = y]
            BY <2>1 DEF To
        <3>2. DOMAIN y = WorkerFields /\ y.pc = pc /\ y.kind = w.kind
            BY <1>3, PcFields
        <3> HIDE DEF y
        <3> QED BY <3>1, <3>2
    <2>2. CASE Ends(i, pc, res)
        <3> DEFINE y == [w EXCEPT !.pc = pc, !.res = res]
        <3>1. worker' = [worker EXCEPT ![i] = y]
            BY <2>2 DEF Ends
        <3>2. DOMAIN y = WorkerFields /\ y.pc = pc /\ y.kind = w.kind
            BY <1>3, PcResFields
        <3> HIDE DEF y
        <3> QED BY <3>1, <3>2
    <2> QED BY <1>2, <2>1, <2>2
<1> HIDE DEF w
<1>5. Honest(x, i, sound', written')
    BY <1>1, <1>2, <1>4 DEF Honest, Tools
<1>6. UNCHANGED <<file, sound, written, history, saved, slot, queue, completed, user, validating, dialogs>>
    BY <1>1 DEF ToolFrame, NotTools, catalogVars, uiVars
<1> QED BY <1>1, <1>3, <1>4, <1>5, <1>6, SameFiles, StepOk DEF w
-----------------------------------------------------------------------------
(* The window: answers, queues, new workers. *)

\* There is a first unused number, when any is unused.
LEMMA NextUnused == ASSUME Unused # {} PROVE NextStart \in Unused
<1>1. Unused \subseteq Nat
    BY JobsAssumption DEF Unused, Starts
<1>2. PICK i \in Unused : \A j \in Unused : ~(<<j, i>> \in OpToRel(<, Nat))
    BY <1>1, NatLessThanWellFounded, WFMin
<1>3. \A j \in Unused : ~(j < i)
    BY <1>1, <1>2, Zenon DEF OpToRel
<1>4. \A j \in Unused : i <= j
    BY <1>1, <1>3
<1> QED BY <1>4 DEF NextStart

\* An empty queue.
LEMMA NoneWaits == ASSUME NEW ws PROVE Waiting(<<>>, ws)
BY DEF Waiting

\* The worker of the slot has answered: its answer is taken.
LEMMA TakenOk ==
    ASSUME HistoryInv, Ready
    PROVE  /\ slot \in Starts /\ Honest(worker[slot], slot, sound, written)
           /\ AllHonest(Taken(slot), sound, written) /\ Waiting(queue, Taken(slot))
<1>1. slot \in Starts /\ worker[slot].pc \in {"sent", "panicked"}
    BY DEF HistoryInv, Ready, Answered
<1>2. Honest(worker[slot], slot, sound, written)
    BY <1>1 DEF HistoryInv, AllHonest
<1> DEFINE x == Over(slot, worker[slot].pc)
<1>3. Honest(x, slot, sound, written)
    BY <1>1, OverHonest
<1> HIDE DEF x
<1>4. AllHonest([worker EXCEPT ![slot] = x], sound, written)
    BY <1>1, <1>3 DEF HistoryInv, AllHonest
<1>5. \A a \in 1 .. Len(queue) : queue[a] \in Starts /\ queue[a] # slot
    BY <1>1, ElementOfSeq DEF HistoryInv, Waiting
<1>6. Waiting(queue, [worker EXCEPT ![slot] = x])
    BY <1>5 DEF HistoryInv, Waiting, AllHonest
<1> QED BY <1>1, <1>2, <1>4, <1>6 DEF Taken, x

\* The queue is dropped.
LEMMA DropOk ==
    ASSUME NEW ws, AllHonest(ws, sound, written)
    PROVE  AllHonest(DropQueue(ws), sound, written)
<1>1. DOMAIN DropQueue(ws) = Starts
    BY DEF DropQueue
<1>2. ASSUME NEW i \in Starts PROVE Honest(DropQueue(ws)[i], i, sound, written)
    <2>1. DropQueue(ws)[i] = IF ws[i].pc = "queued" THEN Over(i, "killed") ELSE ws[i]
        BY DEF DropQueue
    <2>2. Honest(Over(i, "killed"), i, sound, written)
        BY OverHonest
    <2> QED BY <2>1, <2>2 DEF AllHonest
<1> QED BY <1>1, <1>2 DEF AllHonest

\* The next disk of a queue is started.
LEMMA NextOk ==
    ASSUME NEW ws, AllHonest(ws, sound, written), Waiting(queue, ws), queue # <<>>
    PROVE  LET new == [ws EXCEPT ![Head(queue)].pc = "start"]
           IN  /\ Head(queue) \in Starts /\ AllHonest(new, sound, written)
               /\ Waiting(Tail(queue), new)
<1> DEFINE h == Head(queue)
           x == [ws[h] EXCEPT !.pc = "start"]
           new == [ws EXCEPT ![h].pc = "start"]
<1>1. /\ h \in Starts /\ Tail(queue) \in Seq(Starts) /\ Len(Tail(queue)) = Len(queue) - 1
      /\ \A a \in 1 .. Len(Tail(queue)) : Tail(queue)[a] = queue[a + 1]
      /\ Len(queue) \in Nat \ {0} /\ h = queue[1]
    BY HeadTailProperties, EmptySeq DEF Waiting
<1>2. ws[h].pc = "queued" /\ Honest(ws[h], h, sound, written) /\ DOMAIN ws[h] = WorkerFields
    BY <1>1 DEF Waiting, AllHonest, Honest
<1>3. /\ DOMAIN x = WorkerFields /\ x.pc = "start" /\ x.res = ws[h].res /\ x.kind = ws[h].kind
      /\ x.path = ws[h].path /\ x.deep = ws[h].deep /\ x.img = ws[h].img
    BY <1>2, PcFields
<1>4. new = [ws EXCEPT ![h] = x]
    OBVIOUS
<1> HIDE DEF x, h, new
<1>5. Honest(x, h, sound, written)
    BY <1>2, <1>3 DEF Honest
<1>6. AllHonest(new, sound, written)
    BY <1>1, <1>4, <1>5 DEF AllHonest
<1>7. ASSUME NEW a \in 1 .. Len(Tail(queue)) PROVE new[Tail(queue)[a]].pc = "queued"
    <2>1. a + 1 \in 1 .. Len(queue) /\ 1 \in 1 .. Len(queue) /\ 1 < a + 1
        BY <1>1
    <2>2. queue[1] < queue[a + 1] /\ ws[queue[a + 1]].pc = "queued"
        BY <2>1 DEF Waiting
    <2>3. queue[a + 1] \in Starts /\ queue[a + 1] # h
        BY <1>1, <2>1, <2>2, ElementOfSeq, JobsAssumption DEF Starts, Waiting
    <2> QED BY <1>1, <1>4, <2>2, <2>3 DEF AllHonest
<1>8. \A a, b \in 1 .. Len(Tail(queue)) : a < b => Tail(queue)[a] < Tail(queue)[b]
    <2>1. ASSUME NEW a \in 1 .. Len(Tail(queue)), NEW b \in 1 .. Len(Tail(queue)), a < b
          PROVE  Tail(queue)[a] < Tail(queue)[b]
        <3>1. a + 1 \in 1 .. Len(queue) /\ b + 1 \in 1 .. Len(queue) /\ a + 1 < b + 1
            BY <1>1, <2>1
        <3> QED BY <1>1, <3>1 DEF Waiting
    <2> QED BY <2>1
<1> QED BY <1>1, <1>6, <1>7, <1>8 DEF Waiting, h, new

\* poll_job, in each of its four ways.
LEMMA PollKeeps ==
    ASSUME HistoryInv, PollJob, NotJobs
    PROVE  HistoryInv'
<1>1. Ready
    BY DEF PollJob, TakeFollowUp, TakeNext, TakeLast, TakeError
<1> DEFINE w == worker[slot]
<1>2. /\ slot \in Starts /\ Honest(w, slot, sound, written)
      /\ AllHonest(Taken(slot), sound, written) /\ Waiting(queue, Taken(slot))
    BY <1>1, TakenOk
<1>3. RecordJob(w) /\ SaveBoth /\ UNCHANGED <<file, sound, written>>
    BY DEF PollJob, TakeFollowUp, TakeNext, TakeLast, TakeError
<1>4. Logs' /\ FilesTrue'
    BY <1>2, <1>3, RecordKeeps, SameFiles DEF HistoryInv
<1>5. Asked'
    BY DEF HistoryInv, Asked, NotJobs, uiVars
<1>6. CASE TakeFollowUp
    <2>1. worker' = Taken(slot) /\ slot' = 0 /\ queue' = queue
          /\ completed' = [completed EXCEPT !.banner = "verified"]
        BY <1>6 DEF TakeFollowUp
    <2>2. Offered'
        BY <2>1 DEF HistoryInv, Offered
    <2> QED BY <1>2, <1>3, <1>4, <1>5, <2>1, <2>2 DEF HistoryInv
<1>7. CASE TakeNext
    <2>1. /\ worker' = [Taken(slot) EXCEPT ![Head(queue)].pc = "start"]
          /\ slot' = Head(queue) /\ queue' = Tail(queue) /\ queue # <<>> /\ completed' = completed
        BY <1>7 DEF TakeNext
    <2>2. /\ Head(queue) \in Starts /\ AllHonest(worker', sound, written)
          /\ Waiting(Tail(queue), worker')
        BY <1>2, <2>1, NextOk
    <2>3. Offered'
        BY <2>1 DEF HistoryInv, Offered
    <2> QED BY <1>3, <1>4, <1>5, <2>1, <2>2, <2>3 DEF HistoryInv
<1>8. CASE TakeLast
    <2>1. /\ worker' = Taken(slot) /\ slot' = 0 /\ queue' = queue /\ w.res = "ok"
          /\ completed' = [banner |-> Banner(w), path |-> w.path,
                           offer |-> IF w.kind = "backup" /\ ~w.deep /\ ~multi THEN slot ELSE 0]
        BY <1>8 DEF TakeLast
    <2>2. w.kind = "backup" => w.path \in Paths
        BY <1>2, <2>1 DEF Honest
    <2> HIDE DEF w
    <2>3. Offered'
        BY <2>1, <2>2 DEF Offered
    <2> QED BY <1>2, <1>3, <1>4, <1>5, <2>1, <2>3 DEF HistoryInv
<1>9. CASE TakeError
    <2>1. /\ worker' = DropQueue(Taken(slot)) /\ slot' = 0 /\ queue' = <<>>
          /\ completed' = [banner |-> Banner(w), path |-> w.path, offer |-> 0]
        BY <1>9 DEF TakeError
    <2>2. AllHonest(worker', sound, written)
        BY <1>2, <2>1, DropOk
    <2> HIDE DEF w
    <2>3. Offered'
        BY <2>1 DEF Offered
    <2> QED BY <1>3, <1>4, <1>5, <2>1, <2>2, <2>3, NoneWaits DEF HistoryInv
<1> QED BY <1>6, <1>7, <1>8, <1>9 DEF PollJob

\* A worker in the place of one that was never used.
LEMMA NewOk ==
    ASSUME HistoryInv, Unused # {}, NEW x, worker' = [worker EXCEPT ![NextStart] = x],
           Honest(x, NextStart, sound, written), slot' = NextStart, Offered', Asked',
           UNCHANGED <<catalogVars, queue>>
    PROVE  HistoryInv'
<1> DEFINE n == NextStart
<1>1. n \in Starts /\ worker[n].pc # "queued"
    BY NextUnused DEF Unused
<1> HIDE DEF n
<1>2. worker' = [worker EXCEPT ![n] = x] /\ Honest(x, n, sound, written)
    BY DEF n
<1>3. UNCHANGED <<file, sound, written, history, saved>>
    BY DEF catalogVars
<1>4. AllHonest(worker', sound', written')
    BY <1>1, <1>2, <1>3, OneSteps DEF HistoryInv
<1>5. Waiting(queue', worker')
    BY <1>1, <1>2, OneWaits DEF HistoryInv, AllHonest
<1>6. Logs' /\ FilesTrue'
    BY <1>3, SameLogs, SameFiles DEF HistoryInv
<1> QED BY <1>1, <1>4, <1>5, <1>6 DEF HistoryInv, n

\* Cancel, "Verify?" and Close.
LEMMA ClickKeeps ==
    ASSUME HistoryInv, CancelJob \/ StartCompletedVerify \/ CloseResult, NotJobs
    PROVE  HistoryInv'
<1>1. Asked'
    BY DEF HistoryInv, Asked, NotJobs, uiVars
<1>2. UNCHANGED catalogVars
    BY DEF CancelJob, StartCompletedVerify, CloseResult
<1>3. Logs' /\ FilesTrue' /\ UNCHANGED <<sound, written>>
    BY <1>2, SameLogs, SameFiles DEF HistoryInv, catalogVars
<1>4. CASE CancelJob
    <2> DEFINE ws == DropQueue(worker)
               x == [ws[slot] EXCEPT !.cancel = worker[slot].kind \notin Tools]
    <2>1. /\ worker' = [ws EXCEPT ![slot] = x] /\ slot \in Starts
          /\ queue' = <<>> /\ UNCHANGED <<slot, completed>>
        BY <1>4 DEF CancelJob, HistoryInv
    <2>2. AllHonest(ws, sound, written)
        BY DropOk DEF HistoryInv
    <2>3. Honest(ws[slot], slot, sound, written) /\ DOMAIN ws[slot] = WorkerFields
        BY <2>1, <2>2 DEF AllHonest, Honest
    <2> HIDE DEF ws
    <2>4. /\ DOMAIN x = WorkerFields /\ x.pc = ws[slot].pc /\ x.res = ws[slot].res
          /\ x.kind = ws[slot].kind /\ x.path = ws[slot].path /\ x.deep = ws[slot].deep
          /\ x.img = ws[slot].img
        BY <2>3, CancelFields
    <2> HIDE DEF x
    <2>5. Honest(x, slot, sound, written)
        BY <2>3, <2>4 DEF Honest
    <2>6. AllHonest(worker', sound, written)
        BY <2>1, <2>2, <2>5 DEF AllHonest
    <2>7. Offered'
        BY <2>1 DEF HistoryInv, Offered
    <2> QED BY <1>1, <1>3, <2>1, <2>6, <2>7, NoneWaits DEF HistoryInv
<1>5. CASE StartCompletedVerify
    <2> DEFINE x == Worker("verify", completed.path, TRUE, "verify")
    <2>1. /\ worker' = [worker EXCEPT ![NextStart] = x] /\ slot' = NextStart /\ Unused # {}
          /\ completed' = [completed EXCEPT !.offer = 0] /\ UNCHANGED queue
          /\ completed.path \in Paths
        BY <1>5 DEF StartCompletedVerify, HistoryInv, Offered
    <2>2. Offered'
        BY <2>1 DEF HistoryInv, Offered
    <2>3. Honest(x, NextStart, sound, written)
        BY <2>1, NewHonest
    <2> HIDE DEF x
    <2> QED BY <1>1, <1>2, <2>1, <2>2, <2>3, NewOk
<1>6. CASE CloseResult
    <2>1. UNCHANGED <<worker, slot, queue>> /\ Offered'
        BY <1>6 DEF CloseResult, Offered, NoResult
    <2> QED BY <1>1, <1>3, <2>1 DEF HistoryInv
<1> QED BY <1>4, <1>5, <1>6

\* A single job is started.
LEMMA SlotKeeps ==
    ASSUME HistoryInv, NEW x, TakeSlot(x), Honest(x, NextStart, sound, written), Asked'
    PROVE  HistoryInv'
<1>1. Offered'
    BY DEF TakeSlot, Offered, NoResult
<1> QED BY <1>1, NewOk DEF TakeSlot, Room

\* A backup run is started, one worker for each of its disks.
LEMMA LaunchKeeps ==
    ASSUME HistoryInv, NEW paths \in Seq(Paths), NEW deep, NEW asked,
           LaunchQueue(paths, deep, asked), Asked'
    PROVE  HistoryInv'
<1> DEFINE first == NextStart
           last == first + Len(paths) - 1
           job(i) == [Worker("backup", paths[i - first + 1], deep,
                             IF i = first THEN "start" ELSE "queued") EXCEPT !.asked = asked]
           ws == [i \in Starts |-> IF i \in first .. last THEN job(i) ELSE worker[i]]
           q == [j \in 1 .. Len(paths) - 1 |-> first + j]
<1>1. /\ worker' = ws /\ slot' = first /\ queue' = q /\ completed' = NoResult
      /\ UNCHANGED catalogVars /\ Unused # {} /\ last \in Starts
    BY DEF LaunchQueue, Room
<1>2. first \in Starts /\ Len(paths) \in Nat /\ MaxStarts \in Nat
    BY <1>1, NextUnused, JobsAssumption, LenProperties DEF Unused
<1>3. ASSUME NEW i \in first .. last
      PROVE  /\ Honest(job(i), i, sound, written)
             /\ i # first => job(i).pc = "queued"
    <2>1. i - first + 1 \in 1 .. Len(paths)
        BY <1>2 DEF Starts
    <2>2. paths[i - first + 1] \in Paths
        BY <2>1, ElementOfSeq
    <2>3. /\ DOMAIN job(i) = WorkerFields /\ job(i).res = "none" /\ job(i).kind = "backup"
          /\ job(i).path = paths[i - first + 1]
          /\ job(i).pc = IF i = first THEN "start" ELSE "queued"
        BY DEF Worker, NoWorker, WorkerFields
    <2> HIDE DEF job
    <2>4. Honest(job(i), i, sound, written)
        BY <2>2, <2>3 DEF Honest
    <2> QED BY <2>3, <2>4
<1>4. AllHonest(ws, sound, written)
    <2> HIDE DEF job, first, last
    <2> QED BY <1>3 DEF HistoryInv, AllHonest
<1>5. Waiting(q, ws)
    <2> DEFINE n == IF Len(paths) = 0 THEN 0 ELSE Len(paths) - 1
    <2>1. n \in Nat /\ 1 .. Len(paths) - 1 = 1 .. n
        BY <1>2
    <2>2. ASSUME NEW j \in 1 .. n
          PROVE  first + j \in Starts /\ first + j \in first .. last /\ first + j # first
        BY <1>1, <1>2, <2>1 DEF Starts
    <2>3. q = [j \in 1 .. n |-> first + j]
        BY <2>1
    <2> HIDE DEF n, first, last, job
    <2>4. [j \in 1 .. n |-> first + j] \in Seq(Starts)
        BY <2>1, <2>2, IsASeq
    <2>5. \A i \in Starts : ws[i] = IF i \in first .. last THEN job(i) ELSE worker[i]
        OBVIOUS
    <2> HIDE DEF q, ws
    <2>6. q \in Seq(Starts) /\ DOMAIN q = 1 .. n /\ \A j \in 1 .. n : q[j] = first + j
        BY <2>3, <2>4
    <2>7. DOMAIN q = 1 .. Len(q) /\ Len(q) \in Nat
        BY <2>6, LenProperties
    <2>8. ASSUME NEW a \in 1 .. Len(q) PROVE ws[q[a]].pc = "queued"
        <3>1. a \in 1 .. n /\ q[a] = first + a
            BY <2>6, <2>7
        <3>2. first + a \in Starts /\ first + a \in first .. last /\ first + a # first
            BY <2>2, <3>1
        <3>3. ws[first + a] = job(first + a)
            BY <2>5, <3>2
        <3>4. job(first + a).pc = "queued"
            BY <1>3, <3>2
        <3> QED BY <3>1, <3>3, <3>4
    <2>9. first \in Int
        BY <1>2 DEF Starts
    <2>10. ASSUME NEW a \in 1 .. Len(q), NEW b \in 1 .. Len(q), a < b PROVE q[a] < q[b]
        <3>1. q[a] = first + a /\ q[b] = first + b
            BY <2>6, <2>7
        <3> QED BY <2>7, <2>9, <2>10, <3>1
    <2> QED BY <2>6, <2>8, <2>10 DEF Waiting
<1>6. Offered'
    BY <1>1 DEF Offered, NoResult
<1> HIDE DEF ws, q, first, last, job
<1>7. UNCHANGED <<file, sound, written, history, saved>>
    BY <1>1 DEF catalogVars
<1>8. Logs' /\ FilesTrue'
    BY <1>7, SameLogs, SameFiles DEF HistoryInv
<1> QED BY <1>1, <1>2, <1>4, <1>5, <1>6, <1>7, <1>8 DEF HistoryInv

-----------------------------------------------------------------------------
(* The catalog, the dialogs and the process. *)

\* What leaves jobs and files alone.
LEMMA RestKeeps ==
    ASSUME HistoryInv, UNCHANGED <<worker, slot, queue, completed, file, sound, written>>,
           Asked', Logs'
    PROVE  HistoryInv'
<1>1. FilesTrue' /\ Offered'
    BY SameFiles DEF HistoryInv, Offered
<1> QED BY <1>1 DEF HistoryInv

\* A history row is deleted.
LEMMA RemoveKeeps ==
    ASSUME Logs, NEW k \in DOMAIN history, RemoveRecord(k)
    PROVE  Logs'
<1>1. LogTrue(history', sound, written)
    BY LogShrinks DEF RemoveRecord, Logs
<1>2. saved' = [saved EXCEPT !["history"] = history'] \/ saved' = saved
    BY DEF RemoveRecord, Save, SaveAll
<1>3. /\ DOMAIN saved' = {"history", "known"}
      /\ saved'.history = history' \/ saved'.history = saved.history
    BY <1>2 DEF Logs
<1> QED BY <1>1, <1>3 DEF Logs, RemoveRecord

\* The list of known files is saved.
LEMMA KnownKeeps ==
    ASSUME Logs, NEW v, Save("known", v), UNCHANGED <<history, sound, written>>
    PROVE  Logs'
<1>1. saved' = [saved EXCEPT !["known"] = v] \/ saved' = saved
    BY DEF Save, SaveAll
<1>2. DOMAIN saved' = {"history", "known"} /\ saved'.history = saved.history
    BY <1>1 DEF Logs
<1> QED BY <1>2 DEF Logs

\* Dialogs that are opened for a path, or for none.
LEMMA DialogPaths ==
    ASSUME NEW kind
    PROVE  /\ Dialog(kind).paths \in Seq(Paths)
           /\ \A p \in Paths : On(kind, p).paths \in Seq(Paths)
<1>1. Dialog(kind).paths = <<>> /\ \A p : On(kind, p).paths = <<p>>
    BY DEF Dialog, On
<1>2. <<>> \in Seq(Paths) /\ \A p \in Paths : <<p>> \in Seq(Paths)
    OBVIOUS
<1> QED BY <1>1, <1>2

\* Dialogs of a tool, for no path.
LEMMA ToolPaths ==
    ASSUME NEW t, NEW enable
    PROVE  Picker(t).paths \in Seq(Paths) /\ Confirmation(t, enable).paths \in Seq(Paths)
<1>1. Picker(t).paths = <<>> /\ Confirmation(t, enable).paths = <<>>
    BY DEF Picker, Confirmation, Dialog
<1> QED BY <1>1

\* No dialog is added but such ones.
LEMMA AskedStays ==
    ASSUME Asked, user' = user, validating' \in {validating, "none"} \cup Paths,
           \A d \in dialogs' : d \in dialogs \/ d.paths \in Seq(Paths)
    PROVE  Asked'
BY DEF Asked

\* The clicks on dialogs and pages that do not start a job.
LEMMA QuietKeeps ==
    ASSUME HistoryInv, UNCHANGED <<catalogVars, jobVars>>, Asked'
    PROVE  HistoryInv'
<1>1. UNCHANGED <<worker, slot, queue, completed, file, sound, written, history, saved>>
    BY DEF catalogVars, jobVars
<1>2. Logs'
    BY <1>1, SameLogs DEF HistoryInv
<1> QED BY <1>1, <1>2, RestKeeps

\* The clicks that put up a dialog or take one down.
LEMMA DialogKeeps ==
    ASSUME HistoryInv,
           \/ StartClone \/ ValidationEnds \/ CancelDialog
           \/ \E p \in Paths : StartRestore(p)
           \/ \E t \in Tools : OpenTool(t)
           \/ StartBootRepair \/ StartResetHello \/ StartAdminToggle
    PROVE  HistoryInv'
<1>1. Asked
    BY DEF HistoryInv
<1>2. UNCHANGED <<catalogVars, jobVars>> /\ user' = user
    BY DEF StartClone, ValidationEnds, CancelDialog, StartRestore, OpenTool, StartBootRepair,
           StartResetHello, StartAdminToggle, StartTool, OnlyUi, UiRest, Intends
<1>3. CASE StartClone
    <2>1. dialogs' = {Dialog("clone")} /\ validating' = validating
        BY <1>3 DEF StartClone
    <2> QED BY <1>1, <1>2, <2>1, DialogPaths, AskedStays, QuietKeeps
<1>4. CASE ValidationEnds
    <2>1. /\ validating' = "none" /\ validating \in Paths
          /\ dialogs' \in {dialogs \cup {On("restore", validating)}, dialogs}
        BY <1>1, <1>4 DEF ValidationEnds, Asked
    <2>2. On("restore", validating).paths \in Seq(Paths)
        BY <2>1, DialogPaths
    <2>3. \A d \in dialogs' : d \in dialogs \/ d.paths \in Seq(Paths)
        BY <2>1, <2>2
    <2> QED BY <1>1, <1>2, <2>1, <2>3, AskedStays, QuietKeeps
<1>5. CASE CancelDialog
    <2>1. dialogs' \subseteq dialogs /\ validating' = validating
        BY <1>5 DEF CancelDialog, Close
    <2> QED BY <1>1, <1>2, <2>1, AskedStays, QuietKeeps
<1>6. CASE \E p \in Paths : StartRestore(p)
    <2>1. dialogs' = dialogs /\ validating' \in Paths
        BY <1>6 DEF StartRestore
    <2> QED BY <1>1, <1>2, <2>1, AskedStays, QuietKeeps
<1>7. CASE \E t \in Tools : OpenTool(t)
    <2>1. PICK t : dialogs' = {Picker(t)} /\ validating' = validating
        BY <1>7 DEF OpenTool
    <2> QED BY <1>1, <1>2, <2>1, ToolPaths, AskedStays, QuietKeeps
<1>8. ASSUME NEW t, NEW b, StartTool(t, b) PROVE HistoryInv'
    <2>1. dialogs' = (dialogs \ {Picker(t)}) \cup {Confirmation(t, b)} /\ validating' = validating
        BY <1>8 DEF StartTool
    <2>2. Confirmation(t, b).paths \in Seq(Paths)
        BY ToolPaths
    <2> QED BY <1>1, <1>2, <2>1, <2>2, AskedStays, QuietKeeps
<1>9. CASE StartBootRepair \/ StartResetHello
    BY <1>8, <1>9 DEF StartBootRepair, StartResetHello
<1>10. CASE StartAdminToggle
    <2>1. PICK b : StartTool("admin", b)
        BY <1>10 DEF StartAdminToggle
    <2> QED BY <1>8, <2>1
<1> QED BY <1>3, <1>4, <1>5, <1>6, <1>7, <1>9, <1>10

\* The clicks that start a job, and the question before.
LEMMA JobKeeps ==
    ASSUME HistoryInv,
           \/ \E paths \in user.outputs, deep \in user.deep : StartBackup(paths, deep)
           \/ ConfirmOverwrite \/ ConfirmDisk
           \/ \E p \in Paths : StartVerify(p)
           \/ \E t \in Tools : ConfirmTool(t)
    PROVE  HistoryInv'
<1>1. Asked
    BY DEF HistoryInv
<1>2. ASSUME NEW paths \in user.outputs, NEW deep, StartBackup(paths, deep) PROVE HistoryInv'
    <2>1. paths \in Seq(Paths)
        BY <1>1, UsersAssumption DEF Asked
    <2>2. user' = user /\ validating' = validating
        BY <1>2 DEF StartBackup, Intends, UiRest
    <2>3. CASE LaunchQueue(paths, deep, FALSE) /\ UNCHANGED dialogs
        <3>1. Asked'
            BY <1>1, <2>2, <2>3 DEF Asked
        <3> QED BY <2>1, <2>3, <3>1, LaunchKeeps
    <2>4. CASE /\ dialogs' = {[Dialog("overwrite") EXCEPT !.paths = paths, !.deep = deep]}
               /\ OnlyUi
        <3>1. Asked'
            BY <1>1, <2>1, <2>2, <2>4 DEF Asked, Dialog
        <3> QED BY <2>4, <3>1, QuietKeeps DEF OnlyUi
    <2> QED BY <1>2, <2>3, <2>4 DEF StartBackup
<1>3. CASE ConfirmOverwrite
    <2>1. PICK d \in dialogs : /\ Close(d) /\ LaunchQueue(d.paths, d.deep, TRUE)
                               /\ UNCHANGED <<validating, intents>> /\ UiRest
        BY <1>3 DEF ConfirmOverwrite
    <2>2. d.paths \in Seq(Paths) /\ Asked'
        BY <1>1, <2>1 DEF Asked, Close, UiRest
    <2> QED BY <2>1, <2>2, LaunchKeeps
<1>4. CASE ConfirmDisk
    <2>1. PICK d \in dialogs :
              /\ d.kind \in {"restore", "clone"} /\ Close(d)
              /\ TakeSlot(Worker(d.kind, IF d.paths = <<>> THEN "none" ELSE d.paths[1],
                                 FALSE, "work"))
              /\ UNCHANGED <<validating, intents>> /\ UiRest
        BY <1>4 DEF ConfirmDisk
    <2>2. Asked'
        BY <1>1, <2>1 DEF Asked, Close, UiRest
    <2> DEFINE x == Worker(d.kind, IF d.paths = <<>> THEN "none" ELSE d.paths[1], FALSE, "work")
    <2>3. Honest(x, NextStart, sound, written)
        BY <2>1, NewHonest
    <2> HIDE DEF x
    <2>4. TakeSlot(x)
        BY <2>1 DEF x
    <2> QED BY <2>2, <2>3, <2>4, SlotKeeps
<1>5. ASSUME NEW p \in Paths, StartVerify(p) PROVE HistoryInv'
    <2>1. Asked' /\ TakeSlot(Worker("verify", p, TRUE, "verify"))
        BY <1>1, <1>5 DEF StartVerify, Intends, UiRest, Asked
    <2>2. Honest(Worker("verify", p, TRUE, "verify"), NextStart, sound, written)
        BY NewHonest
    <2> QED BY <2>1, <2>2, SlotKeeps
<1>6. ASSUME NEW t \in Tools, ConfirmTool(t) PROVE HistoryInv'
    <2>1. PICK d \in dialogs :
              /\ Close(d) /\ TakeSlot(Worker(t, "none", d.deep, "detect"))
              /\ UNCHANGED <<validating, intents>> /\ UiRest
        BY <1>6 DEF ConfirmTool
    <2>2. Asked'
        BY <1>1, <2>1 DEF Asked, Close, UiRest
    <2>3. Honest(Worker(t, "none", d.deep, "detect"), NextStart, sound, written)
        BY NewHonest DEF Tools
    <2> QED BY <2>1, <2>2, <2>3, SlotKeeps
<1> QED BY <1>2, <1>3, <1>4, <1>5, <1>6

\* Lists, mounts and virtual machines: a record may be removed, a path remembered.
LEMMA ListKeeps ==
    ASSUME HistoryInv,
           \/ DeleteRecord \/ Refresh \/ MountClick \/ DriveUse
           \/ \E p \in Paths : Mount(p) \/ RequestVm(p)
           \/ AnswerBoot \/ SessionRow \/ VmWorks \/ CloseOrphan
    PROVE  HistoryInv'
<1>1. Asked /\ Logs
    BY DEF HistoryInv
<1> USE DEF NotCatalog, NotMounts, NotVm, ListStays, UiRest, Intends, jobVars
<1>2. ASSUME UNCHANGED <<worker, slot, queue, completed, file, sound, written, user, validating>>,
             \A d \in dialogs' : d \in dialogs \/ d.paths \in Seq(Paths), Logs'
      PROVE  HistoryInv'
    BY <1>1, <1>2, AskedStays, RestKeeps
<1>3. CASE DeleteRecord
    <2>1. PICK k \in DOMAIN history : RemoveRecord(k)
        BY <1>3 DEF DeleteRecord
    <2> QED BY <1>1, <1>2, <1>3, <2>1, RemoveKeeps DEF DeleteRecord, RemoveRecord
<1>4. CASE Refresh
    <2>1. Save("known", known') /\ UNCHANGED <<file, sound, written, history>>
        BY <1>4 DEF Refresh, ReconcileKnown
    <2> QED BY <1>1, <1>2, <1>4, <2>1, KnownKeeps DEF Refresh
<1>5. CASE MountClick \/ DriveUse
    <2>1. UNCHANGED <<worker, slot, queue, completed, file, sound, written, user, validating, dialogs,
                      history, saved>>
        BY <1>5 DEF MountClick, DriveUse
    <2> QED BY <1>1, <1>2, <2>1, SameLogs
<1>6. ASSUME NEW p \in Paths, Mount(p) PROVE HistoryInv'
    <2>1. /\ Save("known", known')
          /\ UNCHANGED <<worker, slot, queue, completed, file, sound, written, user, validating,
                         dialogs, history>>
        BY <1>6 DEF Mount, Remember
    <2> QED BY <1>1, <1>2, <2>1, KnownKeeps
<1>7. ASSUME NEW p, StartVm(p, TRUE) \/ StartVm(p, FALSE),
             UNCHANGED <<history, sound, written>>
      PROVE  Logs'
    BY <1>1, <1>7, KnownKeeps DEF StartVm, Remember
<1>8. ASSUME NEW p \in Paths, RequestVm(p) PROVE HistoryInv'
    <2>1. UNCHANGED <<worker, slot, queue, completed, file, sound, written, user, validating, history>>
        BY <1>8 DEF RequestVm
    <2>2. CASE StartVm(p, FALSE) /\ UNCHANGED dialogs
        BY <1>2, <1>7, <2>1, <2>2
    <2>3. CASE dialogs' = {On("boot", p)} /\ ListStays
        BY <1>1, <1>2, <2>1, <2>3, DialogPaths, SameLogs
    <2> QED BY <1>8, <2>2, <2>3 DEF RequestVm
<1>9. CASE AnswerBoot
    <2>1. PICK d \in dialogs :
              /\ Close(d)
              /\ \/ StartVm(d.paths[1], \E id \in Listed : session[id].path = d.paths[1])
                 \/ \E id \in Listed : Listed = {id} /\ StartVm(session[id].path, FALSE)
              /\ NotVm /\ UNCHANGED intents /\ UiRest
        BY <1>9 DEF AnswerBoot
    <2>2. Logs'
        BY <1>1, <2>1, KnownKeeps DEF StartVm, Remember
    <2> QED BY <1>2, <2>1, <2>2 DEF Close
<1>10. CASE SessionRow
    <2>1. UNCHANGED <<worker, slot, queue, completed, file, sound, written, user, validating, dialogs,
                      history>>
        BY <1>10 DEF SessionRow
    <2>2. Logs'
        <3>1. CASE \E id \in Listed : StartVm(session[id].path, FALSE)
            BY <1>1, <2>1, <3>1, KnownKeeps DEF StartVm, Remember
        <3>2. CASE UNCHANGED saved
            BY <1>1, <2>1, <3>2, SameLogs
        <3> QED BY <1>10, <3>1, <3>2 DEF SessionRow
    <2> QED BY <1>2, <2>1, <2>2
<1>11. CASE VmWorks \/ CloseOrphan
    <2>1. UNCHANGED <<worker, slot, queue, completed, file, sound, written, user, validating, dialogs,
                      history, saved>>
        BY <1>11 DEF VmWorks, CloseOrphan
    <2> QED BY <1>1, <1>2, <2>1, SameLogs
<1> QED BY <1>3, <1>4, <1>5, <1>6, <1>8, <1>9, <1>10, <1>11

\* Every thread ends with the process; what was saved is what is loaded again.
LEMMA EndsKeeps ==
    ASSUME HistoryInv, NEW how, NEW delete, NEW off, ProcessEnds(how, delete, off)
    PROVE  HistoryInv'
<1>1. /\ slot' = 0 /\ queue' = <<>> /\ completed' = NoResult /\ dialogs' = {}
      /\ validating' = "none" /\ user' = user
      /\ UNCHANGED <<file, sound, written, history, saved>>
    BY DEF ProcessEnds, catalogVars
<1> DEFINE ws == [i \in Starts |-> IF Live(i) \/ worker[i].pc = "queued"
                                   THEN Over(i, "killed") ELSE Over(i, worker[i].pc)]
<1>2. worker' = ws
    BY DEF ProcessEnds
<1>3. ASSUME NEW i \in Starts PROVE Honest(ws[i], i, sound, written)
    <2>1. CASE Live(i) \/ worker[i].pc = "queued"
        BY <2>1, OverHonest
    <2>2. CASE ~(Live(i) \/ worker[i].pc = "queued")
        <3>1. worker[i].pc \notin {"queued", "start", "capture", "verify"}
            BY <2>2 DEF Live
        <3> QED BY <2>2, <3>1, OverHonest
    <2> QED BY <2>1, <2>2
<1>4. AllHonest(ws, sound, written)
    BY <1>3 DEF AllHonest
<1> HIDE DEF ws
<1>5. Offered' /\ Asked'
    BY <1>1 DEF Offered, Asked, NoResult, HistoryInv
<1>6. Logs' /\ FilesTrue'
    BY <1>1, SameLogs, SameFiles DEF HistoryInv
<1> QED BY <1>1, <1>2, <1>4, <1>5, <1>6, NoneWaits DEF HistoryInv

\* The next start loads what was saved.
LEMMA RestartKeeps == ASSUME HistoryInv, Restart PROVE HistoryInv'
<1>1. /\ UNCHANGED <<worker, slot, queue, completed, file, sound, written, user, validating, dialogs>>
      /\ history' = saved.history /\ saved' = [saved EXCEPT !.known = known']
    BY DEF Restart, LoadCatalog, jobVars
<1>2. Asked'
    BY <1>1 DEF HistoryInv, Asked
<1>3. Logs
    BY DEF HistoryInv
<1>4. DOMAIN saved' = {"history", "known"} /\ saved'.history = saved.history
    BY <1>1, <1>3 DEF Logs
<1>5. Logs'
    BY <1>1, <1>3, <1>4 DEF Logs
<1> QED BY <1>1, <1>2, <1>5, RestKeeps

\* The first start.
LEMMA StartsTrue == ASSUME Init PROVE HistoryInv
<1>1. /\ worker = [i \in Starts |-> NoWorker] /\ slot = 0 /\ queue = <<>> /\ completed = NoResult
      /\ file = [p \in Paths |-> IF p \in user.files THEN File(0, TRUE) ELSE NoFile]
      /\ written = {0} /\ history = <<>> /\ saved = [history |-> <<>>, known |-> user.files]
      /\ user \in Users /\ validating = "none" /\ dialogs = {}
    BY DEF Init, JobsInit, CatalogInit
<1>2. ASSUME NEW i \in Starts PROVE Honest(worker[i], i, sound, written)
    BY <1>1 DEF Honest, NoWorker, WorkerFields
<1>3. AllHonest(worker, sound, written)
    BY <1>1, <1>2 DEF AllHonest
<1>4. FilesTrue
    BY <1>1 DEF FilesTrue, File, NoFile
<1>5. Offered /\ Asked
    BY <1>1 DEF Offered, Asked, NoResult
<1>6. LogTrue(<<>>, sound, written)
    <2> DEFINE R == {}
    <2>1. <<>> \in Seq(R) /\ \A r \in R : True(r, sound, written)
        OBVIOUS
    <2> HIDE DEF R
    <2> QED BY <2>1 DEF LogTrue
<1>7. Logs
    BY <1>1, <1>6 DEF Logs
<1> QED BY <1>1, <1>3, <1>4, <1>5, <1>7, NoneWaits DEF HistoryInv

\* The thread of the window reads the state of an Administrator: nothing of the jobs.
LEMMA ReadsApart ==
    ASSUME Reads
    PROVE  UNCHANGED <<catalogVars, jobVars, mountVars, vmVars, dialogs, validating, user>>
BY DEF Reads

\* Every step of the application.
LEMMA HistoryStep == ASSUME HistoryInv, [Next]_vars PROVE HistoryInv'
<1>1. ASSUME NEW i \in Starts, Works(i) \/ Dies(i) PROVE HistoryInv'
    BY <1>1, WorkKeeps, ToolKeeps DEF Works, Dies
<1>2. CASE Polls \/ JobClick
    BY <1>2, PollKeeps, ClickKeeps DEF Polls, JobClick
<1>3. CASE PressClose
    <2>1. CASE ProcessEnds("closed", TRUE, FALSE)
        BY <2>1, EndsKeeps
    <2>2. CASE /\ dialogs' = dialogs \cup {CloseDialog} /\ OnlyUi
               /\ UNCHANGED validating /\ UiRest
        <3>1. CloseDialog.paths \in Seq(Paths)
            BY DialogPaths DEF CloseDialog
        <3>2. Asked'
            BY <2>2, <3>1, AskedStays DEF HistoryInv, UiRest
        <3> QED BY <2>2, <3>2, QuietKeeps DEF OnlyUi
    <2> QED BY <1>3, <2>1, <2>2 DEF PressClose
<1>4. CASE RestartToUpdate \/ Crash
    BY <1>4, EndsKeeps DEF RestartToUpdate, Crash
<1>5. CASE ConfirmClose
    <2>1. PICK off : ProcessEnds("closed", TRUE, off)
        BY <1>5 DEF ConfirmClose
    <2> QED BY <2>1, EndsKeeps
<1>6. CASE Restart
    BY <1>6, RestartKeeps
<1>7. CASE UNCHANGED vars
    <2>1. Asked'
        BY <1>7 DEF HistoryInv, Asked, vars, uiVars
    <2> QED BY <1>7, <2>1, QuietKeeps DEF vars
<1>8. CASE Reads
    <2>1. Asked'
        BY <1>8, ReadsApart DEF HistoryInv, Asked
    <2> QED BY <1>8, <2>1, ReadsApart, QuietKeeps
<1> QED BY <1>1, <1>2, <1>3, <1>4, <1>5, <1>6, <1>7, <1>8, JobKeeps, DialogKeeps, ListKeeps DEF Next

\* Hence of every run.
LEMMA HistoryInvHolds == Spec => []HistoryInv
<1>1. Init => HistoryInv
    BY StartsTrue
<1>2. HistoryInv /\ [Next]_vars => HistoryInv'
    BY HistoryStep
<1> QED BY <1>1, <1>2, PTL DEF Spec

\* Whatever is backed up, verified, cancelled, queued, killed and started again, with any
\* number of jobs and any user: what the history says was verified is as captured, what it
\* says was backed up was finalized.
THEOREM RecordsTheorem == Spec => []RecordsAreTrue
<1>1. ASSUME HistoryInv PROVE RecordsAreTrue
    <2>1. \A k \in DOMAIN history : True(history[k], sound, written)
        BY <1>1, LogElement DEF HistoryInv, Logs
    <2> QED BY <2>1 DEF RecordsAreTrue, True
<1>2. HistoryInv => RecordsAreTrue
    BY <1>1
<1> QED BY <1>2, HistoryInvHolds, PTL

--------------------------------------------------------------------------------
(* No finalized backup is lost but to a job the user agreed should replace it, for
   any number of jobs, disks of a run, cancels, kills and restarts. *)

\* Workers that will still create or finish a file.
Begun == {"queued", "start", "capture"}
Writing(i) == worker[i].kind = "backup" /\ worker[i].pc \in Begun
Ahead == {queue[a] : a \in 1 .. Len(queue)}

\* Each of them is the job of the window or waits in its queue; no two have a file in
\* common; and the file of each is not finalized, unless it was to be replaced.
Files ==
    /\ \A i \in Starts : Writing(i) => i = slot \/ i \in Ahead
    /\ \A i, j \in Starts : Writing(i) /\ Writing(j) /\ i # j => worker[i].path # worker[j].path
    /\ \A i \in Starts : Writing(i) /\ (worker[i].pc = "capture" \/ ~worker[i].asked) =>
           ~Opens(worker[i].path)
\* A queue belongs to the backup that runs.
Running == queue # <<>> => slot \in Starts /\ worker[slot].kind = "backup"
\* While a backup runs nothing waits on the screen that would start another job.
Shut == queue # <<>> \/ (\E i \in Starts : Writing(i)) =>
            validating = "none" /\ dialogs \subseteq {CloseDialog}
\* The question before an overwrite: nothing runs, and nothing else waits.
Held ==
    \A d \in dialogs : d.kind = "overwrite" =>
        /\ slot = 0 /\ queue = <<>> /\ validating = "none" /\ completed = NoResult
        /\ dialogs \subseteq {d, CloseDialog}
        /\ \A a, b \in DOMAIN d.paths : d.paths[a] = d.paths[b] => a = b
ClobberInv == Files /\ Running /\ Shut /\ Held

\* What the property asks of a step.
Spares ==
    \A p \in Paths : Opens(p) /\ file'[p] # file[p] =>
        file'[p].img \in {i \in Starts : worker[i].asked} /\ ~file'[p].whole

\* A step that writes no file.
LEMMA SameFileSpares == ASSUME file' = file PROVE Spares
BY DEF Spares

-----------------------------------------------------------------------------
\* With no job nothing is written, with none in the queue at most by the one that runs.
LEMMA NothingRuns ==
    ASSUME HistoryInv, ClobberInv, slot = 0
    PROVE  queue = <<>> /\ \A i \in Starts : ~Writing(i)
<1>1. 0 \notin Starts
    BY DEF Starts
<1>2. queue = <<>>
    BY <1>1 DEF ClobberInv, Running
<1>3. Ahead = {}
    BY <1>2 DEF Ahead
<1> QED BY <1>1, <1>2, <1>3 DEF ClobberInv, Files

\* Who has answered writes no more.
LEMMA AnsweredWritesNot == ASSUME Ready PROVE ~Writing(slot)
BY DEF Ready, Answered, Writing, Begun

\* Who is in the queue has not begun.
LEMMA AheadWaits ==
    ASSUME HistoryInv, NEW i \in Ahead
    PROVE  i \in Starts /\ worker[i].pc = "queued"
BY ElementOfSeq DEF HistoryInv, Waiting, Ahead

\* Workers that go on writing have the file they had, and it is as little finalized.
GoesOn(i) ==
    /\ Writing(i) /\ worker'[i].path = worker[i].path /\ worker'[i].asked = worker[i].asked
    /\ worker'[i].pc = "capture" => worker[i].pc = "capture" \/ ~file'[worker[i].path].whole
    /\ ~Opens(worker[i].path) => ~file'[worker[i].path].whole

\* So the files are as the invariant says, when all who write after a step go on.
LEMMA FilesKeep ==
    ASSUME ClobberInv, \A i \in Starts : Writing(i)' => GoesOn(i) /\ (i = slot' \/ i \in Ahead')
    PROVE  Files'
<1>1. \A i, j \in Starts : Writing(i)' /\ Writing(j)' /\ i # j => worker'[i].path # worker'[j].path
    BY DEF ClobberInv, Files, GoesOn
<1>2. ASSUME NEW i \in Starts, Writing(i)', worker'[i].pc = "capture" \/ ~worker'[i].asked
      PROVE  ~file'[worker[i].path].whole /\ worker'[i].path = worker[i].path
    BY <1>2 DEF ClobberInv, Files, GoesOn
<1>3. \A i \in Starts : Writing(i)' /\ (worker'[i].pc = "capture" \/ ~worker'[i].asked) =>
          ~file'[worker'[i].path].whole
    BY <1>2
<1> QED BY <1>1, <1>2, <1>3 DEF Files, Opens

\* Nothing appears on the screen, and no job that was not there.
LEMMA ScreenKeeps ==
    ASSUME ClobberInv, \A i \in Starts : Writing(i)' => Writing(i),
           queue' # <<>> => queue # <<>>,
           dialogs' \subseteq dialogs, validating' = validating
    PROVE  Shut'
BY DEF ClobberInv, Shut

\* Nor does a question before an overwrite appear.
LEMMA HeldKeeps ==
    ASSUME ClobberInv, dialogs' \subseteq dialogs \cup {CloseDialog},
           UNCHANGED <<slot, queue, validating, completed>>
    PROVE  Held'
<1>1. CloseDialog.kind # "overwrite"
    BY DEF CloseDialog, Dialog
<1>2. ASSUME NEW d \in dialogs', d.kind = "overwrite" PROVE d \in dialogs
    BY <1>1, <1>2
<1> QED BY <1>2 DEF ClobberInv, Held

\* Steps of one worker that leave the window alone.
LEMMA WorkerKeeps ==
    ASSUME HistoryInv, ClobberInv, NEW i \in Starts, NEW x, worker' = [worker EXCEPT ![i] = x],
           x.kind = worker[i].kind,
           x.kind = "backup" /\ x.pc \in Begun =>
               /\ Writing(i) /\ x.path = worker[i].path /\ x.asked = worker[i].asked
               /\ x.pc = "capture" => worker[i].pc = "capture" \/ ~file'[x.path].whole
               /\ ~Opens(x.path) => ~file'[x.path].whole,
           \A j \in Starts \ {i} : Writing(j) /\ ~Opens(worker[j].path) => ~file'[worker[j].path].whole,
           UNCHANGED <<slot, queue, completed, validating, dialogs>>
    PROVE  ClobberInv'
<1>1. worker'[i] = x /\ \A j \in Starts \ {i} : worker'[j] = worker[j]
    BY DEF HistoryInv, AllHonest
<1>2. ASSUME NEW j \in Starts, Writing(j)' PROVE GoesOn(j)
    <2>1. CASE j = i
        <3>1. x.kind = "backup" /\ x.pc \in Begun
            BY <1>1, <1>2, <2>1 DEF Writing
        <3> QED BY <1>1, <2>1, <3>1 DEF GoesOn, Opens
    <2>2. CASE j # i
        <3>1. worker'[j] = worker[j]
            BY <1>1, <2>2
        <3>2. Writing(j)
            BY <1>2, <3>1 DEF Writing
        <3> QED BY <2>2, <3>1, <3>2 DEF GoesOn
    <2> QED BY <2>1, <2>2
<1>3. \A j \in Starts : Writing(j)' => Writing(j)
    BY <1>2 DEF GoesOn
<1>4. Files'
    <2>1. Ahead' = Ahead
        BY DEF Ahead
    <2>2. \A j \in Starts : Writing(j) => j = slot \/ j \in Ahead
        BY DEF ClobberInv, Files
    <2> QED BY <1>2, <1>3, <2>1, <2>2, FilesKeep
<1>5. Running'
    BY <1>1 DEF ClobberInv, Running
<1>6. Shut' /\ Held'
    BY <1>3, ScreenKeeps, HeldKeeps
<1> QED BY <1>4, <1>5, <1>6 DEF ClobberInv

\* The steps of backups, verifies, restores and clones, and their panics.
LEMMA WorkSpares ==
    ASSUME HistoryInv, ClobberInv, NEW i \in Starts, WorkerStep(i) \/ WorkerPanics(i), NotJobs
    PROVE  ClobberInv' /\ Spares
<1> DEFINE w == worker[i]
<1>1. DOMAIN w = WorkerFields /\ DOMAIN file = Paths
    BY DEF HistoryInv, AllHonest, Honest, FilesTrue
<1>2. UNCHANGED <<slot, queue, completed, validating, dialogs>>
    BY DEF NotJobs, uiVars, WorkerStep, BackupStart, BackupCapture, Verify, BackupCleanup, OtherWork,
           WorkerPanics
<1>3. ASSUME NEW pc, NEW res, Ends(i, pc, res), pc \notin Begun,
             \A j \in Starts \ {i} : Writing(j) /\ ~Opens(worker[j].path) => ~file'[worker[j].path].whole
      PROVE  ClobberInv'
    <2> DEFINE x == [w EXCEPT !.pc = pc, !.res = res]
    <2>1. worker' = [worker EXCEPT ![i] = x]
        BY <1>3 DEF Ends
    <2>2. x.pc = pc /\ x.kind = w.kind
        BY <1>1, PcResFields
    <2> HIDE DEF x
    <2> QED BY <1>2, <1>3, <2>1, <2>2, WorkerKeeps
<1>4. ASSUME NEW pc, To(i, pc), pc \notin Begun,
             \A j \in Starts \ {i} : Writing(j) /\ ~Opens(worker[j].path) => ~file'[worker[j].path].whole
      PROVE  ClobberInv'
    <2> DEFINE x == [w EXCEPT !.pc = pc]
    <2>1. worker' = [worker EXCEPT ![i] = x]
        BY <1>4 DEF To
    <2>2. x.pc = pc /\ x.kind = w.kind
        BY <1>1, PcFields
    <2> HIDE DEF x
    <2> QED BY <1>2, <1>4, <2>1, <2>2, WorkerKeeps
<1>5. file' = file =>
          \A j \in Starts \ {i} : Writing(j) /\ ~Opens(worker[j].path) => ~file'[worker[j].path].whole
    BY DEF Opens
\* A write to the file of i is none to that of another that still writes.
<1>6. ASSUME NEW v, file' = [file EXCEPT ![w.path] = v], Writing(i)
      PROVE  \A j \in Starts \ {i} : Writing(j) /\ ~Opens(worker[j].path) => ~file'[worker[j].path].whole
    <2>1. ASSUME NEW j \in Starts \ {i}, Writing(j) PROVE file'[worker[j].path] = file[worker[j].path]
        <3>1. worker[j].path # w.path
            BY <1>6, <2>1 DEF ClobberInv, Files
        <3>2. worker[j].path \in Paths
            BY <2>1 DEF HistoryInv, AllHonest, Honest, Writing, Begun
        <3> QED BY <1>1, <1>6, <3>1, <3>2
    <2> QED BY <2>1 DEF Opens
<1>7. {"cleanup", "sent", "verify", "panicked"} \cap Begun = {}
    BY DEF Begun
<1>8. CASE BackupStart(i)
    <2>1. CASE \E res \in Stops(i) : Ends(i, "cleanup", res) /\ UNCHANGED file
        BY <1>3, <1>5, <1>7, <2>1, SameFileSpares
    <2>2. CASE /\ file' = [file EXCEPT ![worker[i].path] = File(i, FALSE)]
               /\ worker' = [worker EXCEPT ![i].pc = "capture", ![i].img = i]
        <3> DEFINE x == [w EXCEPT !.pc = "capture", !.img = i]
        <3>1. worker' = [worker EXCEPT ![i] = x]
            BY <2>2
        <3>2. /\ x.pc = "capture" /\ x.kind = w.kind /\ x.path = w.path /\ x.asked = w.asked
            BY <1>1, PcImgFields
        <3> HIDE DEF x
        <3>3. Writing(i) /\ w.pc = "start" /\ w.path \in Paths
            BY <1>8 DEF BackupStart, Writing, Begun, HistoryInv, AllHonest, Honest
        <3>4. ~file'[w.path].whole
            BY <1>1, <2>2, <3>3 DEF Opens, File
        <3>5. ~file'[x.path].whole
            BY <3>2, <3>4 DEF Opens
        <3>6. ClobberInv'
            BY <1>2, <1>6, <2>2, <3>1, <3>2, <3>3, <3>5, WorkerKeeps
        <3>7. ~w.asked => ~Opens(w.path)
            BY <3>3 DEF ClobberInv, Files
        <3>8. Spares
            BY <1>1, <2>2, <3>3, <3>7 DEF Spares, Opens, File
        <3> QED BY <3>6, <3>8
    <2> QED BY <1>8, <2>1, <2>2 DEF BackupStart
<1>9. CASE BackupCapture(i)
    <2>1. CASE \E res \in Stops(i) : Ends(i, "cleanup", res) /\ UNCHANGED <<file, sound, written>>
        BY <1>3, <1>5, <1>7, <2>1, SameFileSpares
    <2>2. CASE /\ file' = [file EXCEPT ![worker[i].path] = File(i, TRUE)]
               /\ IF worker[i].deep THEN To(i, "verify") ELSE Ends(i, "cleanup", "ok")
        <3>1. Writing(i) /\ w.pc = "capture" /\ w.path \in Paths
            BY <1>9 DEF BackupCapture, Writing, Begun, HistoryInv, AllHonest, Honest
        <3>2. ~Opens(w.path)
            BY <3>1 DEF ClobberInv, Files
        <3>3. Spares
            BY <1>1, <2>2, <3>1, <3>2 DEF Spares
        <3>4. ClobberInv'
            BY <1>3, <1>4, <1>6, <1>7, <2>2, <3>1
        <3> QED BY <3>3, <3>4
    <2> QED BY <1>9, <2>1, <2>2 DEF BackupCapture
<1>10. CASE Verify(i)
    <2>0. PICK end \in {"cleanup", "sent"} :
              \E res, img :
                  worker' = [worker EXCEPT ![i].pc = end, ![i].res = res, ![i].img = img]
        BY <1>10 DEF Verify
    <2>1. PICK res, img :
              worker' = [worker EXCEPT ![i].pc = end, ![i].res = res, ![i].img = img]
        BY <2>0
    <2> DEFINE x == [w EXCEPT !.pc = end, !.res = res, !.img = img]
    <2>2. worker' = [worker EXCEPT ![i] = x] /\ file' = file
        BY <1>10, <2>1 DEF Verify, catalogVars
    <2>3. x.pc = end /\ x.kind = w.kind
        BY <1>1, PcResImgFields
    <2> HIDE DEF x
    <2>4. ClobberInv'
        BY <1>2, <1>5, <1>7, <2>2, <2>3, WorkerKeeps
    <2> QED BY <2>2, <2>4, SameFileSpares
<1>11. CASE BackupCleanup(i)
    <2>1. CASE UNCHANGED file
        BY <1>4, <1>5, <1>7, <1>11, <2>1, SameFileSpares DEF BackupCleanup
    <2>2. CASE Discards(i) /\ file' = [file EXCEPT ![worker[i].path] = NoFile]
        <3>1. Spares
            BY <1>1, <2>2 DEF Discards, Spares
        <3>2. \A p : ~Opens(p) /\ p \in Paths => ~file'[p].whole
            BY <1>1, <2>2 DEF Opens, NoFile
        <3>3. \A j \in Starts : Writing(j) => worker[j].path \in Paths
            BY DEF HistoryInv, AllHonest, Honest, Writing, Begun
        <3>4. \A j \in Starts \ {i} : Writing(j) /\ ~Opens(worker[j].path) => ~file'[worker[j].path].whole
            BY <1>1, <2>2, <3>3 DEF Opens, NoFile
        <3> QED BY <1>4, <1>7, <1>11, <3>1, <3>4 DEF BackupCleanup
    <2> QED BY <1>11, <2>1, <2>2 DEF BackupCleanup
<1>12. CASE OtherWork(i) \/ WorkerPanics(i)
    <2>1. (\E res : Ends(i, "sent", res) \/ Ends(i, "panicked", res)) /\ file' = file
        BY <1>12 DEF OtherWork, WorkerPanics, catalogVars
    <2> QED BY <1>3, <1>5, <1>7, <2>1, SameFileSpares
<1> QED BY <1>8, <1>9, <1>10, <1>11, <1>12 DEF WorkerStep

\* The steps of the Windows tools, and their panics: they touch no backup.
LEMMA ToolSpares ==
    ASSUME HistoryInv, ClobberInv, NEW i \in Starts, ToolStep(i) \/ ToolPanics(i), NotTools
    PROVE  ClobberInv' /\ Spares
<1> DEFINE w == worker[i]
<1>1. w.kind \in Tools /\ ToolFrame
    BY ToolForm
<1>2. PICK pc, res : To(i, pc) \/ Ends(i, pc, res)
    BY ToolForm
<1>3. DOMAIN w = WorkerFields
    BY DEF HistoryInv, AllHonest, Honest
<1>4. PICK x : worker' = [worker EXCEPT ![i] = x] /\ x.kind = w.kind
    <2>1. CASE To(i, pc)
        <3> DEFINE y == [w EXCEPT !.pc = pc]
        <3>1. worker' = [worker EXCEPT ![i] = y] /\ y.kind = w.kind
            BY <1>3, <2>1, PcFields DEF To
        <3> HIDE DEF y
        <3> QED BY <3>1
    <2>2. CASE Ends(i, pc, res)
        <3> DEFINE y == [w EXCEPT !.pc = pc, !.res = res]
        <3>1. worker' = [worker EXCEPT ![i] = y]
            BY <2>2 DEF Ends
        <3>2. y.kind = w.kind
            BY <1>3, PcResFields
        <3> HIDE DEF y
        <3> QED BY <3>1, <3>2
    <2> QED BY <1>2, <2>1, <2>2
<1>5. UNCHANGED <<file, slot, queue, completed, validating, dialogs>>
    BY <1>1 DEF ToolFrame, NotTools, catalogVars, uiVars
<1>6. x.kind # "backup"
    BY <1>1, <1>4 DEF Tools
<1>7. \A j \in Starts \ {i} : Writing(j) /\ ~Opens(worker[j].path) => ~file'[worker[j].path].whole
    BY <1>5 DEF Opens
<1> HIDE DEF w
<1>8. ClobberInv'
    BY <1>4, <1>5, <1>6, <1>7, WorkerKeeps DEF w
<1> QED BY <1>5, <1>8, SameFileSpares

-----------------------------------------------------------------------------
(* The window: what makes the invariant hold again. *)

\* The question of the close button is one of its own.
LEMMA Closing == CloseDialog.kind = "close"
BY DEF CloseDialog, Dialog

\* Nothing to say of a question that is not asked.
LEMMA NoOverwrite ==
    ASSUME \A d \in dialogs' : d.kind # "overwrite"
    PROVE  Held'
BY DEF Held

\* Nothing is written after the step and nothing waits.
LEMMA NothingWritten ==
    ASSUME queue' = <<>>, \A i \in Starts : ~Writing(i)', Held'
    PROVE  ClobberInv'
BY DEF ClobberInv, Files, Running, Shut

\* Workers and files of which nothing changes.
LEMMA SameJobs ==
    ASSUME ClobberInv, UNCHANGED <<worker, slot, queue, file>>
    PROVE  Files' /\ Running' /\ \A i \in Starts : Writing(i)' = Writing(i)
<1>1. \A i \in Starts : Writing(i)' = Writing(i)
    BY DEF Writing
<1>2. Ahead' = Ahead
    BY DEF Ahead
<1>3. Files'
    BY <1>1, <1>2 DEF ClobberInv, Files, Opens
<1>4. Running'
    BY DEF ClobberInv, Running
<1> QED BY <1>1, <1>3, <1>4

\* Nothing changes but that questions go, or that of the close button comes.
LEMMA SameScreen ==
    ASSUME ClobberInv, UNCHANGED <<worker, slot, queue, file, completed, validating>>,
           dialogs' \subseteq dialogs \cup {CloseDialog}
    PROVE  ClobberInv'
<1>1. Files' /\ Running' /\ \A i \in Starts : Writing(i)' = Writing(i)
    BY SameJobs
<1>2. Shut'
    BY <1>1 DEF ClobberInv, Shut
<1> QED BY <1>1, <1>2, HeldKeeps DEF ClobberInv

\* A job is running: nothing asks whether to overwrite.
LEMMA BusyAsksNot ==
    ASSUME ClobberInv, slot # 0 \/ completed # NoResult \/ validating # "none"
    PROVE  \A d \in dialogs : d.kind # "overwrite"
BY DEF ClobberInv, Held

\* A page that takes a click: no job, no dialog.
LEMMA PageIsFree ==
    ASSUME HistoryInv, ClobberInv, PageLive
    PROVE  /\ slot = 0 /\ dialogs = {} /\ completed = NoResult
           /\ queue = <<>> /\ \A i \in Starts : ~Writing(i)
BY NothingRuns DEF PageLive, ModalOpen

\* A question other than those two: no job, and none of those that overwrites.
LEMMA QuestionIsFree ==
    ASSUME ClobberInv, NEW d \in dialogs, d.kind \notin {"close", "overwrite"}
    PROVE  /\ queue = <<>> /\ \A i \in Starts : ~Writing(i)
           /\ \A e \in dialogs : e.kind # "overwrite"
<1>1. d # CloseDialog
    BY Closing
<1>2. queue = <<>> /\ \A i \in Starts : ~Writing(i)
    BY <1>1 DEF ClobberInv, Shut
<1>3. ASSUME NEW e \in dialogs, e.kind = "overwrite" PROVE FALSE
    <2>1. dialogs \subseteq {e, CloseDialog}
        BY <1>3 DEF ClobberInv, Held
    <2> QED BY <1>1, <1>3, <2>1
<1> QED BY <1>2, <1>3

\* Steps that only put up a dialog, when nothing runs.
LEMMA QuestionKeeps ==
    ASSUME ClobberInv, UNCHANGED <<worker, slot, queue, file>>, queue = <<>>,
           \A i \in Starts : ~Writing(i), \A d \in dialogs' : d.kind # "overwrite"
    PROVE  ClobberInv'
<1>1. \A i \in Starts : ~Writing(i)'
    BY SameJobs
<1> QED BY <1>1, NoOverwrite, NothingWritten

\* poll_job: the next disk of a queue begins, or the queue is gone.
LEMMA PollSpares ==
    ASSUME HistoryInv, ClobberInv, PollJob, NotJobs
    PROVE  ClobberInv' /\ Spares
<1>1. Ready /\ file' = file /\ UNCHANGED <<dialogs, validating>>
    BY DEF PollJob, TakeFollowUp, TakeNext, TakeLast, TakeError, NotJobs, uiVars
<1> DEFINE w == worker[slot]
           x == Over(slot, w.pc)
<1>2. slot \in Starts /\ DOMAIN worker = Starts
    BY <1>1, TakenOk DEF HistoryInv, AllHonest
<1>3. x.pc = w.pc /\ w.pc \notin Begun
    BY <1>1 DEF Ready, Answered, Begun, Over, NoWorker
<1>4. Taken(slot) = [worker EXCEPT ![slot] = x]
    BY DEF Taken
<1>5. DOMAIN Taken(slot) = Starts
    BY <1>2 DEF Taken
<1> HIDE DEF x
<1>6. /\ Taken(slot)[slot].pc \notin Begun
      /\ \A i \in Starts \ {slot} : Taken(slot)[i] = worker[i]
    BY <1>2, <1>3, <1>4
<1>7. \A d \in dialogs' : d.kind # "overwrite"
    BY <1>1, BusyAsksNot DEF Ready
<1>8. ASSUME worker' = Taken(slot), queue = <<>>, queue' = <<>> PROVE ClobberInv'
    <2>1. Ahead = {}
        BY <1>8 DEF Ahead
    <2>2. ASSUME NEW i \in Starts, Writing(i)' PROVE FALSE
        <3>1. i # slot
            BY <1>6, <1>8, <2>2 DEF Writing
        <3>2. Writing(i)
            BY <1>6, <1>8, <2>2, <3>1 DEF Writing
        <3> QED BY <2>1, <3>1, <3>2 DEF ClobberInv, Files
    <2> QED BY <1>7, <1>8, <2>2, NoOverwrite, NothingWritten
<1>9. CASE TakeFollowUp
    <2>1. w.kind = "verify" /\ worker' = Taken(slot) /\ queue' = queue
        BY <1>9 DEF TakeFollowUp
    <2>2. queue = <<>>
        BY <2>1 DEF ClobberInv, Running
    <2> QED BY <1>1, <1>8, <2>1, <2>2, SameFileSpares
<1>10. CASE TakeLast
    BY <1>1, <1>8, <1>10, SameFileSpares DEF TakeLast
<1>11. CASE TakeError
    <2>1. worker' = DropQueue(Taken(slot)) /\ queue' = <<>>
        BY <1>11 DEF TakeError
    <2>2. ASSUME NEW i \in Starts, Writing(i)' PROVE FALSE
        <3>1. worker'[i] = IF Taken(slot)[i].pc = "queued" THEN Over(i, "killed")
                           ELSE Taken(slot)[i]
            BY <2>1 DEF DropQueue
        <3>2. Over(i, "killed").pc \notin Begun
            BY DEF Over, NoWorker, Begun
        <3>3. worker'[i] = Taken(slot)[i] /\ Taken(slot)[i].pc # "queued"
            BY <2>2, <3>1, <3>2 DEF Writing
        <3>4. i # slot /\ Writing(i) /\ worker[i].pc # "queued"
            BY <1>6, <2>2, <3>3 DEF Writing
        <3>5. i \in Ahead
            BY <3>4 DEF ClobberInv, Files
        <3> QED BY <3>4, <3>5, AheadWaits
    <2> QED BY <1>1, <1>7, <2>1, <2>2, NoOverwrite, NothingWritten, SameFileSpares
<1>12. CASE TakeNext
    <2> DEFINE h == Head(queue)
               y == [Taken(slot)[h] EXCEPT !.pc = "start"]
    <2>1. /\ worker' = [Taken(slot) EXCEPT ![h] = y] /\ slot' = h /\ queue' = Tail(queue)
          /\ queue # <<>> /\ completed' = completed
        BY <1>12 DEF TakeNext
    <2>2. /\ h \in Starts /\ Tail(queue) \in Seq(Starts) /\ Len(Tail(queue)) = Len(queue) - 1
          /\ \A a \in 1 .. Len(Tail(queue)) : Tail(queue)[a] = queue[a + 1]
          /\ Len(queue) \in Nat \ {0} /\ h = queue[1]
        BY <2>1, HeadTailProperties, EmptySeq DEF HistoryInv, Waiting
    <2>3. h \in Ahead
        BY <2>2 DEF Ahead
    <2>4. worker[h].pc = "queued" /\ h # slot
        BY <1>1, <2>3, AheadWaits DEF Ready, Answered
    <2>5. worker[h].kind = "backup" /\ DOMAIN worker[h] = WorkerFields /\ Taken(slot)[h] = worker[h]
        BY <1>6, <2>2, <2>4 DEF HistoryInv, AllHonest, Honest
    <2>6. /\ y.pc = "start" /\ y.kind = "backup" /\ y.path = worker[h].path
          /\ y.asked = worker[h].asked
        BY <2>5, PcFields
    <2> HIDE DEF y
    <2>7. worker'[h] = y /\ \A i \in Starts \ {h} : worker'[i] = Taken(slot)[i]
        BY <1>5, <2>1, <2>2
    <2>8. \A i \in Ahead : i = h \/ i \in Ahead'
        <3>1. ASSUME NEW a \in 1 .. Len(queue), a # 1 PROVE queue[a] \in Ahead'
            <4>1. a - 1 \in 1 .. Len(Tail(queue)) /\ a = (a - 1) + 1
                BY <2>2, <3>1
            <4>2. Tail(queue)[a - 1] = queue[a]
                BY <2>2, <4>1
            <4> QED BY <2>1, <4>1, <4>2 DEF Ahead
        <3> QED BY <2>2, <3>1 DEF Ahead
    <2>9. ASSUME NEW i \in Starts, Writing(i)' PROVE GoesOn(i) /\ (i = slot' \/ i \in Ahead')
        <3>1. CASE i = h
            <4>1. Writing(i)
                BY <2>4, <2>5, <3>1 DEF Writing, Begun
            <4> QED BY <1>1, <2>1, <2>6, <2>7, <3>1, <4>1 DEF GoesOn, Opens
        <3>2. CASE i # h
            <4>1. worker'[i] = Taken(slot)[i]
                BY <2>7, <3>2
            <4>2. i # slot
                BY <1>6, <2>9, <4>1 DEF Writing
            <4>3. worker'[i] = worker[i]
                BY <1>6, <4>1, <4>2
            <4>4. Writing(i)
                BY <2>9, <4>3 DEF Writing
            <4>5. i \in Ahead'
                BY <2>8, <3>2, <4>2, <4>4 DEF ClobberInv, Files
            <4> QED BY <1>1, <4>3, <4>4, <4>5 DEF GoesOn, Opens
        <3> QED BY <3>1, <3>2
    <2>10. Files'
        BY <2>9, FilesKeep
    <2>11. Running'
        BY <2>1, <2>2, <2>6, <2>7 DEF Running
    <2>12. Shut' /\ Held'
        BY <1>1, <1>7, <2>1, NoOverwrite DEF ClobberInv, Shut
    <2> QED BY <1>1, <2>10, <2>11, <2>12, SameFileSpares DEF ClobberInv
<1> QED BY <1>9, <1>10, <1>11, <1>12 DEF PollJob

\* Cancel, "Verify?" and Close.
LEMMA ClickSpares ==
    ASSUME HistoryInv, ClobberInv, CancelJob \/ StartCompletedVerify \/ CloseResult, NotJobs
    PROVE  ClobberInv' /\ Spares
<1>1. UNCHANGED <<file, dialogs, validating>>
    BY DEF CancelJob, StartCompletedVerify, CloseResult, NotJobs, uiVars, catalogVars
<1>2. Spares
    BY <1>1, SameFileSpares
<1>3. CASE CancelJob
    <2> DEFINE ws == DropQueue(worker)
               x == [ws[slot] EXCEPT !.cancel = worker[slot].kind \notin Tools]
    <2>1. /\ worker' = [ws EXCEPT ![slot] = x] /\ slot \in Starts /\ slot # 0
          /\ queue' = <<>> /\ UNCHANGED <<slot, completed>>
        BY <1>3 DEF CancelJob, HistoryInv
    <2>2. DOMAIN ws = Starts /\ DOMAIN ws[slot] = WorkerFields
        BY <2>1, DropOk DEF HistoryInv, AllHonest, Honest
    <2>3. \A i \in Starts : ws[i] = IF worker[i].pc = "queued" THEN Over(i, "killed") ELSE worker[i]
        BY DEF DropQueue
    <2>4. \A i : Over(i, "killed").pc \notin Begun
        BY DEF Over, NoWorker, Begun
    <2> HIDE DEF ws
    <2>5. /\ x.pc = ws[slot].pc /\ x.kind = ws[slot].kind /\ x.path = ws[slot].path
          /\ x.asked = ws[slot].asked
        BY <2>2, CancelFields
    <2> HIDE DEF x
    <2>6. worker'[slot] = x /\ \A i \in Starts \ {slot} : worker'[i] = ws[i]
        BY <2>1, <2>2
    <2>7. ASSUME NEW i \in Starts, Writing(i)'
          PROVE  /\ Writing(i) /\ worker[i].pc # "queued" /\ worker'[i].path = worker[i].path
                 /\ worker'[i].asked = worker[i].asked /\ worker'[i].pc = worker[i].pc
        <3>1. CASE i = slot
            <4>1. ws[i].pc \in Begun /\ ws[i].kind = "backup"
                BY <2>5, <2>6, <2>7, <3>1 DEF Writing
            <4>2. ws[i] = worker[i] /\ worker[i].pc # "queued"
                BY <2>3, <2>4, <4>1
            <4> QED BY <2>5, <2>6, <3>1, <4>1, <4>2 DEF Writing
        <3>2. CASE i # slot
            <4>1. ws[i].pc \in Begun /\ worker'[i] = ws[i]
                BY <2>6, <2>7, <3>2 DEF Writing
            <4>2. ws[i] = worker[i] /\ worker[i].pc # "queued"
                BY <2>3, <2>4, <4>1
            <4> QED BY <2>7, <4>1, <4>2 DEF Writing
        <3> QED BY <3>1, <3>2
    <2>8. ASSUME NEW i \in Starts, Writing(i)' PROVE GoesOn(i) /\ (i = slot' \/ i \in Ahead')
        <3>1. i = slot
            BY <2>7, <2>8, AheadWaits DEF ClobberInv, Files
        <3> QED BY <1>1, <2>1, <2>7, <2>8, <3>1 DEF GoesOn, Opens
    <2>9. Files' /\ Running'
        BY <2>1, <2>8, FilesKeep DEF Running
    <2>10. Shut'
        BY <1>1, <2>1, <2>7, ScreenKeeps
    <2>11. Held'
        BY <1>1, <2>1, BusyAsksNot, NoOverwrite
    <2> QED BY <1>2, <2>9, <2>10, <2>11 DEF ClobberInv
<1>4. CASE StartCompletedVerify
    <2> DEFINE x == Worker("verify", completed.path, TRUE, "verify")
    <2>1. /\ worker' = [worker EXCEPT ![NextStart] = x] /\ slot = 0
          /\ completed.offer # 0 /\ UNCHANGED queue
        BY <1>4 DEF StartCompletedVerify
    <2>2. completed # NoResult
        BY <2>1 DEF NoResult
    <2>3. x.kind = "verify"
        BY DEF Worker, NoWorker
    <2> HIDE DEF x
    <2>4. queue = <<>> /\ \A i \in Starts : ~Writing(i)
        BY <2>1, NothingRuns
    <2>5. \A i \in Starts : ~Writing(i)'
        BY <2>1, <2>3, <2>4 DEF Writing, HistoryInv, AllHonest
    <2> QED BY <1>1, <1>2, <2>1, <2>2, <2>4, <2>5, BusyAsksNot, NoOverwrite, NothingWritten
<1>5. CASE CloseResult
    <2>1. UNCHANGED <<worker, slot, queue>> /\ slot = 0 /\ completed # NoResult
        BY <1>5 DEF CloseResult
    <2> QED BY <1>1, <1>2, <2>1, BusyAsksNot, NothingRuns, QuestionKeeps
<1> QED BY <1>3, <1>4, <1>5

-----------------------------------------------------------------------------
(* A job is started. *)

\* A backup run begins: of files that do not exist, or of those the user was asked about.
LEMMA LaunchSpares ==
    ASSUME HistoryInv, ClobberInv, NEW paths \in Seq(Paths), NEW deep, NEW asked,
           LaunchQueue(paths, deep, asked), HistoryInv', slot = 0,
           \A a, b \in DOMAIN paths : paths[a] = paths[b] => a = b,
           ~asked => \A a \in DOMAIN paths : ~Exists(paths[a]),
           validating' = "none", dialogs' \subseteq {CloseDialog}
    PROVE  ClobberInv' /\ Spares
<1> DEFINE first == NextStart
           last == first + Len(paths) - 1
           job(i) == [Worker("backup", paths[i - first + 1], deep,
                             IF i = first THEN "start" ELSE "queued") EXCEPT !.asked = asked]
<1>1. /\ worker' = [i \in Starts |-> IF i \in first .. last THEN job(i) ELSE worker[i]]
      /\ slot' = first /\ queue' = [j \in 1 .. Len(paths) - 1 |-> first + j]
      /\ file' = file /\ Unused # {} /\ last \in Starts
    BY DEF LaunchQueue, Room, catalogVars
<1>2. first \in Starts /\ Starts \subseteq Nat /\ Len(paths) \in Nat /\ DOMAIN paths = 1 .. Len(paths)
      /\ DOMAIN queue' = 1 .. Len(paths) - 1
    BY <1>1, NextUnused, JobsAssumption, LenProperties DEF Unused, Starts
<1>3. \A i : /\ job(i).kind = "backup" /\ job(i).path = paths[i - first + 1]
             /\ job(i).asked = asked /\ job(i).pc = IF i = first THEN "start" ELSE "queued"
    BY DEF Worker, NoWorker
<1>4. \A i \in Starts : ~Writing(i)
    BY NothingRuns
<1>5. \A i \in Starts : worker'[i] = IF i \in first .. last THEN job(i) ELSE worker[i]
    BY <1>1
<1>6. \A j \in 1 .. Len(paths) - 1 : queue'[j] = first + j
    BY <1>1
<1> HIDE DEF job, first
<1>7. ASSUME NEW i \in Starts, Writing(i)'
      PROVE  /\ i \in first .. last /\ i - first + 1 \in DOMAIN paths
             /\ worker'[i].path = paths[i - first + 1]
             /\ worker'[i].asked = asked /\ worker'[i].pc # "capture"
    <2>1. i \in first .. last /\ worker'[i] = job(i)
        BY <1>4, <1>5, <1>7 DEF Writing
    <2> QED BY <1>2, <1>3, <2>1
<1>8. Len(queue') \in Nat /\ DOMAIN queue' = 1 .. Len(queue')
    BY LenProperties DEF HistoryInv, Waiting
<1>9. ASSUME NEW i \in Starts, Writing(i)' PROVE i = slot' \/ i \in Ahead'
    <2>1. i \in first .. last
        BY <1>7, <1>9
    <2>2. CASE i # first
        <3>1. i - first \in 1 .. Len(paths) - 1 /\ first + (i - first) = i
            BY <1>2, <2>1, <2>2
        <3>2. queue'[i - first] = i /\ i - first \in 1 .. Len(queue')
            BY <1>2, <1>6, <1>8, <3>1
        <3> QED BY <3>2 DEF Ahead
    <2> QED BY <1>1, <2>2
<1>10. ASSUME NEW i \in Starts, NEW j \in Starts, Writing(i)', Writing(j)', i # j
       PROVE  worker'[i].path # worker'[j].path
    <2>1. i - first + 1 # j - first + 1
        BY <1>2, <1>10
    <2> QED BY <1>7, <1>10, <2>1
<1>11. ASSUME NEW i \in Starts, Writing(i)', worker'[i].pc = "capture" \/ ~worker'[i].asked
       PROVE  ~file'[worker'[i].path].whole
    <2>1. ~Exists(worker'[i].path)
        BY <1>7, <1>11
    <2> QED BY <1>1, <2>1 DEF Exists, NoFile
<1>12. Files'
    BY <1>9, <1>10, <1>11 DEF Files, Opens
<1>13. Running'
    <2>1. ASSUME queue' # <<>> PROVE worker'[first].kind = "backup"
        <3>1. Len(queue') # 0
            BY <2>1, EmptySeq DEF HistoryInv, Waiting
        <3>2. 1 \in 1 .. Len(paths) - 1
            BY <1>2, <1>8, <3>1
        <3>3. first \in first .. last
            BY <1>2, <3>2
        <3> QED BY <1>2, <1>3, <1>5, <3>3
    <2> QED BY <1>1, <1>2, <2>1 DEF Running
<1>14. Shut'
    BY DEF Shut
<1>15. Held'
    BY Closing, NoOverwrite
<1> QED BY <1>1, <1>12, <1>13, <1>14, <1>15, SameFileSpares DEF ClobberInv

\* Any job but a backup.
LEMMA SlotSpares ==
    ASSUME HistoryInv, ClobberInv, NEW x, TakeSlot(x), x.kind # "backup",
           queue = <<>>, \A i \in Starts : ~Writing(i),
           \A d \in dialogs' : d.kind # "overwrite"
    PROVE  ClobberInv' /\ Spares
<1>1. worker' = [worker EXCEPT ![NextStart] = x] /\ file' = file /\ queue' = queue
    BY DEF TakeSlot, catalogVars
<1>2. \A i \in Starts : ~Writing(i)'
    BY <1>1 DEF Writing, HistoryInv, AllHonest
<1> QED BY <1>1, <1>2, NoOverwrite, NothingWritten, SameFileSpares

\* The clicks that start a job, and the question before.
LEMMA JobSpares ==
    ASSUME HistoryInv, ClobberInv, HistoryInv',
           \/ \E paths \in user.outputs, deep \in user.deep : StartBackup(paths, deep)
           \/ ConfirmOverwrite \/ ConfirmDisk
           \/ \E p \in Paths : StartVerify(p)
           \/ \E t \in Tools : ConfirmTool(t)
    PROVE  ClobberInv' /\ Spares
<1>1. ASSUME NEW paths \in user.outputs, NEW deep, StartBackup(paths, deep)
      PROVE  ClobberInv' /\ Spares
    <2>1. /\ paths \in Seq(Paths)
          /\ \A a, b \in DOMAIN paths : paths[a] = paths[b] => a = b
        BY UsersAssumption DEF HistoryInv, Asked
    <2>2. PageLive /\ validating = "none" /\ validating' = "none"
        BY <1>1 DEF StartBackup, StartLive, Busy
    <2>3. /\ slot = 0 /\ dialogs = {} /\ completed = NoResult
          /\ queue = <<>> /\ \A i \in Starts : ~Writing(i)
        BY <2>2, PageIsFree
    <2>4. CASE /\ \A i \in DOMAIN paths : ~Exists(paths[i])
               /\ LaunchQueue(paths, deep, FALSE)
               /\ UNCHANGED dialogs
        BY <2>1, <2>2, <2>3, <2>4, LaunchSpares
    <2>5. CASE /\ dialogs' = {[Dialog("overwrite") EXCEPT !.paths = paths, !.deep = deep]}
               /\ OnlyUi
        <3>1. UNCHANGED <<worker, slot, queue, file, completed>>
            BY <2>5 DEF OnlyUi, catalogVars, jobVars
        <3>2. Files' /\ Running' /\ \A i \in Starts : Writing(i)' = Writing(i)
            BY <3>1, SameJobs
        <3>3. \A d \in dialogs' : d.paths = paths
            BY <2>5 DEF Dialog
        <3>4. Held'
            BY <2>1, <2>2, <2>3, <2>5, <3>1, <3>3 DEF Held
        <3>5. Shut'
            BY <2>3, <3>1, <3>2 DEF Shut
        <3> QED BY <3>1, <3>2, <3>4, <3>5, SameFileSpares DEF ClobberInv
    <2> QED BY <1>1, <2>4, <2>5 DEF StartBackup
<1>2. CASE ConfirmOverwrite
    <2>1. PICK d \in dialogs : /\ d.kind = "overwrite" /\ Close(d)
                               /\ LaunchQueue(d.paths, d.deep, TRUE) /\ UNCHANGED validating
        BY <1>2 DEF ConfirmOverwrite
    <2>2. /\ slot = 0 /\ validating' = "none" /\ dialogs' \subseteq {CloseDialog}
          /\ \A a, b \in DOMAIN d.paths : d.paths[a] = d.paths[b] => a = b
        BY <2>1 DEF ClobberInv, Held, Close
    <2>3. d.paths \in Seq(Paths)
        BY <2>1 DEF HistoryInv, Asked
    <2> QED BY <2>1, <2>2, <2>3, LaunchSpares
<1>3. CASE ConfirmDisk
    <2>1. PICK d \in dialogs :
              /\ d.kind \in {"restore", "clone"} /\ Close(d)
              /\ TakeSlot(Worker(d.kind, IF d.paths = <<>> THEN "none" ELSE d.paths[1],
                                 FALSE, "work"))
        BY <1>3 DEF ConfirmDisk
    <2>2. /\ queue = <<>> /\ \A i \in Starts : ~Writing(i)
          /\ \A e \in dialogs' : e.kind # "overwrite"
        BY <2>1, QuestionIsFree DEF Close
    <2> DEFINE x == Worker(d.kind, IF d.paths = <<>> THEN "none" ELSE d.paths[1], FALSE, "work")
    <2>3. TakeSlot(x)
        BY <2>1
    <2>4. x.kind = d.kind
        BY DEF Worker, NoWorker
    <2> HIDE DEF x
    <2>5. x.kind # "backup"
        BY <2>1, <2>4
    <2> QED BY <2>2, <2>3, <2>5, SlotSpares
<1>4. ASSUME NEW p \in Paths, StartVerify(p) PROVE ClobberInv' /\ Spares
    <2>1. PageLive /\ TakeSlot(Worker("verify", p, TRUE, "verify")) /\ UNCHANGED dialogs
        BY <1>4 DEF StartVerify, StartLive
    <2>2. queue = <<>> /\ (\A i \in Starts : ~Writing(i)) /\ dialogs' = {}
        BY <2>1, PageIsFree
    <2> DEFINE x == Worker("verify", p, TRUE, "verify")
    <2>3. TakeSlot(x)
        BY <2>1
    <2>4. x.kind = "verify"
        BY DEF Worker, NoWorker
    <2> HIDE DEF x
    <2> QED BY <2>2, <2>3, <2>4, SlotSpares
<1>5. ASSUME NEW t \in Tools, ConfirmTool(t) PROVE ClobberInv' /\ Spares
    <2>1. PICK d \in dialogs :
              /\ d \in {Confirmation(t, b) : b \in BOOLEAN}
              /\ Close(d) /\ TakeSlot(Worker(t, "none", d.deep, "detect"))
        BY <1>5 DEF ConfirmTool
    <2>2. d.kind = "confirm"
        BY <2>1 DEF Confirmation, Dialog
    <2>3. /\ queue = <<>> /\ \A i \in Starts : ~Writing(i)
          /\ \A e \in dialogs' : e.kind # "overwrite"
        BY <2>1, <2>2, QuestionIsFree DEF Close
    <2> DEFINE x == Worker(t, "none", d.deep, "detect")
    <2>4. TakeSlot(x)
        BY <2>1
    <2>5. x.kind = t
        BY DEF Worker, NoWorker
    <2> HIDE DEF x
    <2>6. x.kind # "backup"
        BY <2>5 DEF Tools
    <2> QED BY <2>3, <2>4, <2>6, SlotSpares
<1> QED BY <1>1, <1>2, <1>3, <1>4, <1>5

-----------------------------------------------------------------------------
(* No job is started. *)

\* The clicks that put up a dialog or take one down.
LEMMA DialogSpares ==
    ASSUME HistoryInv, ClobberInv,
           \/ StartClone \/ ValidationEnds \/ CancelDialog
           \/ \E p \in Paths : StartRestore(p)
           \/ \E t \in Tools : OpenTool(t)
           \/ StartBootRepair \/ StartResetHello \/ StartAdminToggle
    PROVE  ClobberInv' /\ Spares
<1>1. UNCHANGED <<worker, slot, queue, file, completed>>
    BY DEF StartClone, ValidationEnds, CancelDialog, StartRestore, OpenTool, StartBootRepair,
           StartResetHello, StartAdminToggle, StartTool, OnlyUi, catalogVars, jobVars
<1>2. Spares
    BY <1>1, SameFileSpares
<1>3. CASE StartClone
    <2>1. PageLive /\ \A d \in dialogs' : d.kind # "overwrite"
        BY <1>3 DEF StartClone, StartLive, Dialog
    <2> QED BY <1>1, <1>2, <2>1, PageIsFree, QuestionKeeps
<1>4. CASE ValidationEnds
    <2>1. /\ validating # "none"
          /\ \A d \in dialogs' : d \in dialogs \/ d.kind = "restore"
        BY <1>4 DEF ValidationEnds, On, Dialog
    <2>2. queue = <<>> /\ \A i \in Starts : ~Writing(i)
        BY <2>1 DEF ClobberInv, Shut
    <2> QED BY <1>1, <1>2, <2>1, <2>2, BusyAsksNot, QuestionKeeps
<1>5. CASE CancelDialog
    <2>1. dialogs' \subseteq dialogs /\ validating' = validating
        BY <1>5 DEF CancelDialog, Close
    <2> QED BY <1>1, <1>2, <2>1, SameScreen
<1>6. CASE \E p \in Paths : StartRestore(p)
    <2>1. PageLive /\ dialogs' = dialogs
        BY <1>6 DEF StartRestore, StartLive
    <2> QED BY <1>1, <1>2, <2>1, PageIsFree, QuestionKeeps
<1>7. CASE \E t \in Tools : OpenTool(t)
    <2>1. PageLive /\ \A d \in dialogs' : d.kind # "overwrite"
        BY <1>7 DEF OpenTool, Picker, Dialog
    <2> QED BY <1>1, <1>2, <2>1, PageIsFree, QuestionKeeps
<1>8. ASSUME NEW t, NEW b, StartTool(t, b) PROVE ClobberInv'
    <2>1. Picker(t) \in dialogs /\ dialogs' = (dialogs \ {Picker(t)}) \cup {Confirmation(t, b)}
        BY <1>8 DEF StartTool
    <2>2. Picker(t).kind = "pick" /\ Confirmation(t, b).kind = "confirm"
        BY DEF Picker, Confirmation, Dialog
    <2>3. /\ queue = <<>> /\ \A i \in Starts : ~Writing(i)
          /\ \A e \in dialogs' : e.kind # "overwrite"
        BY <2>1, <2>2, QuestionIsFree
    <2> QED BY <1>1, <2>3, QuestionKeeps
<1>9. CASE StartBootRepair \/ StartResetHello
    BY <1>2, <1>8, <1>9 DEF StartBootRepair, StartResetHello
<1>10. CASE StartAdminToggle
    <2>1. PICK b : StartTool("admin", b)
        BY <1>10 DEF StartAdminToggle
    <2> QED BY <1>2, <1>8, <2>1
<1> QED BY <1>3, <1>4, <1>5, <1>6, <1>7, <1>9, <1>10

\* Lists, mounts and virtual machines.
LEMMA ListSpares ==
    ASSUME HistoryInv, ClobberInv,
           \/ DeleteRecord \/ Refresh \/ MountClick \/ DriveUse
           \/ \E p \in Paths : Mount(p) \/ RequestVm(p)
           \/ AnswerBoot \/ SessionRow \/ VmWorks \/ CloseOrphan
    PROVE  ClobberInv' /\ Spares
<1> USE DEF NotCatalog, NotMounts, NotVm, UiRest, jobVars
<1>1. ASSUME UNCHANGED <<worker, slot, queue, completed, file, validating>>, dialogs' \subseteq dialogs
      PROVE  ClobberInv' /\ Spares
    BY <1>1, SameScreen, SameFileSpares
<1>2. CASE DeleteRecord \/ Refresh
    <2>1. file' = file
        BY <1>2 DEF DeleteRecord, Refresh, RemoveRecord, ReconcileKnown
    <2> QED BY <1>1, <1>2, <2>1 DEF DeleteRecord, Refresh
<1>3. CASE MountClick \/ DriveUse
    BY <1>1, <1>3 DEF MountClick, DriveUse
<1>4. CASE \E p \in Paths : Mount(p)
    BY <1>1, <1>4 DEF Mount
<1>5. ASSUME NEW p \in Paths, RequestVm(p) PROVE ClobberInv' /\ Spares
    <2>1. UNCHANGED <<worker, slot, queue, completed, file, validating>> /\ PageLive
          /\ \A d \in dialogs' : d \in dialogs \/ d.kind = "boot"
        BY <1>5 DEF RequestVm, StartLive, On, Dialog
    <2> QED BY <2>1, PageIsFree, QuestionKeeps, SameFileSpares
<1>6. CASE AnswerBoot
    <2>1. dialogs' \subseteq dialogs
        BY <1>6 DEF AnswerBoot, Close
    <2> QED BY <1>1, <1>6, <2>1 DEF AnswerBoot
<1>7. CASE SessionRow
    BY <1>1, <1>7 DEF SessionRow
<1>8. CASE VmWorks \/ CloseOrphan
    BY <1>1, <1>8 DEF VmWorks, CloseOrphan
<1> QED BY <1>2, <1>3, <1>4, <1>5, <1>6, <1>7, <1>8

\* The process goes, and the threads with it.
LEMMA EndsSpares ==
    ASSUME NEW how, NEW delete, NEW off, ProcessEnds(how, delete, off)
    PROVE  ClobberInv' /\ Spares
<1>1. /\ queue' = <<>> /\ dialogs' = {} /\ file' = file
      /\ worker' = [i \in Starts |-> IF Live(i) \/ worker[i].pc = "queued"
                                     THEN Over(i, "killed") ELSE Over(i, worker[i].pc)]
    BY DEF ProcessEnds, catalogVars
<1>2. \A i, pc : Over(i, pc).pc = pc
    BY DEF Over, NoWorker
<1>3. ASSUME NEW i \in Starts PROVE ~Writing(i)'
    <2>1. worker'[i].pc \notin Begun
        BY <1>1, <1>2 DEF Live, Begun
    <2> QED BY <2>1 DEF Writing
<1> QED BY <1>1, <1>3, NoOverwrite, NothingWritten, SameFileSpares

\* Every step of the application.
LEMMA ClobberStep == ASSUME HistoryInv, ClobberInv, [Next]_vars PROVE ClobberInv' /\ Spares
<1>1. HistoryInv'
    BY HistoryStep
<1>2. ASSUME NEW i \in Starts, Works(i) \/ Dies(i) PROVE ClobberInv' /\ Spares
    BY <1>2, WorkSpares, ToolSpares DEF Works, Dies
<1>3. CASE Polls \/ JobClick
    BY <1>3, PollSpares, ClickSpares DEF Polls, JobClick
<1>4. CASE PressClose
    <2>1. CASE ProcessEnds("closed", TRUE, FALSE)
        BY <2>1, EndsSpares
    <2>2. CASE dialogs' = dialogs \cup {CloseDialog} /\ OnlyUi /\ UNCHANGED validating
        <3>1. UNCHANGED <<worker, slot, queue, file, completed>>
            BY <2>2 DEF OnlyUi, catalogVars, jobVars
        <3> QED BY <2>2, <3>1, SameScreen, SameFileSpares
    <2> QED BY <1>4, <2>1, <2>2 DEF PressClose
<1>5. CASE RestartToUpdate \/ Crash
    BY <1>5, EndsSpares DEF RestartToUpdate, Crash
<1>6. CASE ConfirmClose
    <2>1. PICK off : ProcessEnds("closed", TRUE, off)
        BY <1>6 DEF ConfirmClose
    <2> QED BY <2>1, EndsSpares
<1>7. CASE Restart
    <2>1. UNCHANGED <<worker, slot, queue, file, completed, dialogs, validating>>
        BY <1>7 DEF Restart, LoadCatalog, jobVars
    <2> QED BY <2>1, SameScreen, SameFileSpares
<1>8. CASE UNCHANGED vars
    <2>1. UNCHANGED <<worker, slot, queue, file, completed, dialogs, validating>>
        BY <1>8 DEF vars, catalogVars, jobVars, uiVars
    <2> QED BY <2>1, SameScreen, SameFileSpares
<1>9. CASE Reads
    <2>1. UNCHANGED <<worker, slot, queue, file, completed, dialogs, validating>>
        BY <1>9, ReadsApart DEF catalogVars, jobVars
    <2> QED BY <2>1, SameScreen, SameFileSpares
<1> QED BY <1>1, <1>2, <1>3, <1>4, <1>5, <1>6, <1>7, <1>8, <1>9, JobSpares, DialogSpares, ListSpares DEF Next

\* The first start.
LEMMA StartsFree == ASSUME Init PROVE ClobberInv
<1>1. worker = [i \in Starts |-> NoWorker] /\ queue = <<>> /\ dialogs = {}
    BY DEF Init, JobsInit
<1>2. \A i \in Starts : ~Writing(i)
    BY <1>1 DEF Writing, NoWorker
<1> QED BY <1>1, <1>2 DEF ClobberInv, Files, Running, Shut, Held

\* Whatever is backed up, queued, cancelled, killed and started again, with any number of
\* jobs and any user: a file that opens as a backup is changed by one thing only, a job that
\* the user agreed should replace it, and that makes it one that does not open.
THEOREM ClobberTheorem == Spec => NothingClobbered
<1>1. Init => ClobberInv
    BY StartsFree
<1>2. HistoryInv /\ ClobberInv /\ [Next]_vars => ClobberInv' /\ [Spares]_vars
    BY ClobberStep
<1>3. Spares => \A p \in Paths : Opens(p) /\ file'[p] # file[p] =>
           file'[p].img \in {i \in Starts : worker[i].asked} /\ ~file'[p].whole
    BY DEF Spares
<1> QED BY <1>1, <1>2, <1>3, HistoryInvHolds, PTL DEF Spec, NothingClobbered

-----------------------------------------------------------------------------
(* What a step does to the workers: they are used in order, keep their kind, and the
   tools move by their own steps only. *)

Used(i) == worker[i].pc # "none"
\* Numbers are used in order, and a tool begins at its first place.
UsedInOrder ==
    /\ \A i, j \in Starts : i < j /\ Used(j) => Used(i)
    /\ \A i \in Starts : worker[i].kind \in Tools => worker[i].pc \notin {"none", "verify"}

\* The process ends.
GoesDown == app # "down" /\ app' = "down"
\* A step that moves no tool, but may start one, or cut it off with the process.
Steady(i) ==
    /\ Used(i) => Used(i)' /\ worker'[i].kind = worker[i].kind
    /\ worker[i].kind \in Tools =>
           /\ worker'[i].pc = worker[i].pc \/ (worker'[i].pc = "killed" /\ GoesDown)
           /\ worker'[i].res = "ok" => worker[i].res = "ok"
    /\ worker'[i].kind \in Tools => worker[i].kind \in Tools \/ worker'[i].pc = "detect"
    /\ ~Used(i) /\ Used(i)' => \A j \in Starts : j < i => Used(j)'
AllSteady == \A i \in Starts : Steady(i)
NoneBegins == \A i \in Starts : Writing(i)' => Writing(i)

\* Such a step keeps the order.
LEMMA SteadyInOrder == ASSUME UsedInOrder, AllSteady PROVE UsedInOrder'
<1>1. ASSUME NEW i \in Starts, NEW j \in Starts, i < j, Used(j)' PROVE Used(i)'
    BY <1>1 DEF UsedInOrder, AllSteady, Steady
<1>2. ASSUME NEW i \in Starts, worker'[i].kind \in Tools PROVE worker'[i].pc \notin {"none", "verify"}
    <2>1. CASE worker[i].kind \in Tools
        BY <1>2, <2>1 DEF UsedInOrder, AllSteady, Steady
    <2> QED BY <1>2, <2>1 DEF AllSteady, Steady
<1> QED BY <1>1, <1>2 DEF UsedInOrder

\* No worker changes.
LEMMA SameSteady == ASSUME worker' = worker PROVE AllSteady /\ NoneBegins
BY DEF AllSteady, Steady, NoneBegins, Used, Writing

\* One worker in use, and not a tool, becomes x.
LEMMA OneSteady ==
    ASSUME HistoryInv, NEW i \in Starts, NEW x, worker' = [worker EXCEPT ![i] = x], Used(i),
           x.kind = worker[i].kind, x.kind \notin Tools, x.pc # "none",
           x.kind = "backup" /\ x.pc \in Begun => Writing(i)
    PROVE  AllSteady /\ NoneBegins
<1>1. worker'[i] = x /\ \A j \in Starts \ {i} : worker'[j] = worker[j]
    BY DEF HistoryInv, AllHonest
<1>2. Steady(i) /\ (Writing(i)' => Writing(i))
    BY <1>1 DEF Steady, Writing, Used
<1>3. \A j \in Starts \ {i} : Steady(j) /\ (Writing(j)' => Writing(j))
    BY <1>1 DEF Steady, Writing, Used
<1> QED BY <1>2, <1>3 DEF AllSteady, NoneBegins

\* Backups, verifies, restores and clones.
LEMMA WorkSteady ==
    ASSUME HistoryInv, UsedInOrder, NEW i \in Starts, WorkerStep(i) \/ WorkerPanics(i)
    PROVE  AllSteady /\ NoneBegins
<1> DEFINE w == worker[i]
<1>1. DOMAIN w = WorkerFields
    BY DEF HistoryInv, AllHonest, Honest
<1>2. w.kind \notin Tools /\ Used(i)
    <2>1. CASE Verify(i)
        BY <2>1 DEF Verify, UsedInOrder, Used
    <2>2. CASE BackupStart(i) \/ BackupCapture(i) \/ BackupCleanup(i)
        BY <2>2 DEF BackupStart, BackupCapture, BackupCleanup, Tools, Used
    <2>3. CASE OtherWork(i)
        BY <2>3 DEF OtherWork, Tools, Used
    <2>4. CASE WorkerPanics(i)
        BY <2>4 DEF WorkerPanics, Live, Used
    <2> QED BY <2>1, <2>2, <2>3, <2>4 DEF WorkerStep
<1>3. ASSUME NEW pc \in {"cleanup", "sent", "verify", "panicked"}, NEW res,
             To(i, pc) \/ Ends(i, pc, res)
      PROVE  AllSteady /\ NoneBegins
    <2>0. pc # "none" /\ pc \notin Begun
        BY DEF Begun
    <2>1. CASE To(i, pc)
        <3> DEFINE x == [w EXCEPT !.pc = pc]
        <3>1. worker' = [worker EXCEPT ![i] = x]
            BY <2>1 DEF To
        <3>2. x.pc = pc /\ x.kind = w.kind
            BY <1>1, PcFields
        <3> HIDE DEF x
        <3> QED BY <1>2, <2>0, <3>1, <3>2, OneSteady
    <2>2. CASE Ends(i, pc, res)
        <3> DEFINE x == [w EXCEPT !.pc = pc, !.res = res]
        <3>1. worker' = [worker EXCEPT ![i] = x]
            BY <2>2 DEF Ends
        <3>2. x.pc = pc /\ x.kind = w.kind
            BY <1>1, PcResFields
        <3> HIDE DEF x
        <3> QED BY <1>2, <2>0, <3>1, <3>2, OneSteady
    <2> QED BY <1>3, <2>1, <2>2
<1>4. CASE BackupStart(i)
    <2>1. CASE \E res \in Stops(i) : Ends(i, "cleanup", res)
        BY <1>3, <2>1
    <2>2. CASE worker' = [worker EXCEPT ![i].pc = "capture", ![i].img = i]
        <3> DEFINE x == [w EXCEPT !.pc = "capture", !.img = i]
        <3>1. worker' = [worker EXCEPT ![i] = x]
            BY <2>2
        <3>2. x.pc = "capture" /\ x.kind = w.kind
            BY <1>1, PcImgFields
        <3>3. Writing(i)
            BY <1>4 DEF BackupStart, Writing, Begun
        <3> HIDE DEF x
        <3> QED BY <1>2, <3>1, <3>2, <3>3, OneSteady
    <2> QED BY <1>4, <2>1, <2>2 DEF BackupStart
<1>5. CASE BackupCapture(i)
    BY <1>3, <1>5 DEF BackupCapture
<1>6. CASE Verify(i)
    <2>0. PICK end \in {"cleanup", "sent"} :
              \E res, img :
                  worker' = [worker EXCEPT ![i].pc = end, ![i].res = res, ![i].img = img]
        BY <1>6 DEF Verify
    <2>1. PICK res, img :
              worker' = [worker EXCEPT ![i].pc = end, ![i].res = res, ![i].img = img]
        BY <2>0
    <2> DEFINE x == [w EXCEPT !.pc = end, !.res = res, !.img = img]
    <2>2. worker' = [worker EXCEPT ![i] = x]
        BY <2>1
    <2>3. x.pc = end /\ x.kind = w.kind
        BY <1>1, PcResImgFields
    <2> HIDE DEF x
    <2>4. x.pc # "none" /\ x.pc \notin Begun
        BY <2>3 DEF Begun
    <2> QED BY <1>2, <2>2, <2>3, <2>4, OneSteady
<1>7. CASE BackupCleanup(i) \/ OtherWork(i) \/ WorkerPanics(i)
    BY <1>3, <1>7 DEF BackupCleanup, OtherWork, WorkerPanics
<1> QED BY <1>4, <1>5, <1>6, <1>7 DEF WorkerStep

\* An answer that was taken: nothing is left of it but who gave it.
TakenAt(i, x) == x.kind = worker[i].kind /\ x.pc = worker[i].pc /\ x.res = "none"
\* What Over leaves of a worker.
LEMMA OverTaken == ASSUME NEW i PROVE TakenAt(i, Over(i, worker[i].pc))
BY DEF TakenAt, Over, NoWorker

\* Answers, cancels and the parked result move no tool and begin no backup.
LEMMA PollSteady ==
    ASSUME HistoryInv, UsedInOrder, PollJob \/ CancelJob \/ CloseResult
    PROVE  AllSteady /\ NoneBegins
<1>0. DOMAIN worker = Starts /\ \A i \in Starts : DOMAIN worker[i] = WorkerFields
    BY DEF HistoryInv, AllHonest, Honest
\* The taken answer, then those of the queue that end with it.
<1>1. ASSUME Ready
      PROVE  /\ DOMAIN Taken(slot) = Starts
             /\ \A i \in Starts \ {slot} : Taken(slot)[i] = worker[i]
             /\ slot \in Starts => TakenAt(slot, Taken(slot)[slot])
    BY <1>0, OverTaken DEF Taken
<1>2. \A i \in Starts : worker[i].pc = "queued" => worker[i].kind = "backup"
    BY DEF HistoryInv, AllHonest, Honest
<1>3. ASSUME NEW i \in Starts, worker'[i] = worker[i] PROVE Steady(i) /\ (Writing(i)' => Writing(i))
    BY <1>3 DEF Steady, Used, Writing
<1>4. ASSUME NEW i \in Starts, TakenAt(i, worker'[i]) PROVE Steady(i) /\ (Writing(i)' => Writing(i))
    BY <1>4 DEF Steady, Used, Writing, TakenAt
<1>5. ASSUME NEW i \in Starts, worker[i].pc = "queued", worker'[i].kind = worker[i].kind,
             worker'[i].pc \in {"killed", "start"}
      PROVE  Steady(i) /\ (Writing(i)' => Writing(i))
    BY <1>2, <1>5 DEF Steady, Used, Writing, Begun, Tools
<1>6. CASE TakeFollowUp \/ TakeLast
    <2>1. Ready /\ worker' = Taken(slot)
        BY <1>6 DEF TakeFollowUp, TakeLast
    <2> QED BY <1>1, <1>3, <1>4, <2>1 DEF AllSteady, NoneBegins
<1>7. CASE TakeNext
    <2> DEFINE h == Head(queue)
    <2>1. Ready /\ queue # <<>> /\ worker' = [Taken(slot) EXCEPT ![h].pc = "start"]
        BY <1>7 DEF TakeNext
    <2>2. h \in Starts /\ worker[h].pc = "queued" /\ h # slot
        <3>1. queue \in Seq(Starts) /\ 1 \in 1 .. Len(queue) /\ h = queue[1]
            BY <2>1, EmptySeq, LenProperties DEF HistoryInv, Waiting
        <3>2. h \in Ahead
            BY <3>1 DEF Ahead
        <3> QED BY <2>1, <3>2, AheadWaits DEF Ready, Answered
    <2> HIDE DEF h
    <2>3. Taken(slot)[h] = worker[h]
        BY <1>1, <2>1, <2>2
    <2>4. worker'[h].pc = "start" /\ worker'[h].kind = worker[h].kind
        BY <1>0, <1>1, <2>1, <2>2, <2>3 DEF WorkerFields
    <2>5. \A i \in Starts \ {h} : worker'[i] = Taken(slot)[i]
        BY <2>1
    <2>6. ASSUME NEW i \in Starts PROVE Steady(i) /\ (Writing(i)' => Writing(i))
        BY <1>1, <1>3, <1>4, <1>5, <2>1, <2>2, <2>4, <2>5
    <2> QED BY <2>6 DEF AllSteady, NoneBegins
<1>8. ASSUME NEW v, NEW i \in Starts
      PROVE  DropQueue(v)[i] = IF v[i].pc = "queued" THEN Over(i, "killed") ELSE v[i]
    BY DEF DropQueue
<1>9. \A i : Over(i, "killed").kind = worker[i].kind /\ Over(i, "killed").pc = "killed"
    BY DEF Over, NoWorker
<1>10. CASE TakeError
    <2>1. Ready /\ worker' = DropQueue(Taken(slot))
        BY <1>10 DEF TakeError
    <2>2. ASSUME NEW i \in Starts PROVE Steady(i) /\ (Writing(i)' => Writing(i))
        <3>1. CASE i = slot
            <4>1. TakenAt(i, Taken(slot)[i]) /\ worker[i].pc # "queued"
                BY <1>1, <2>1, <3>1 DEF Ready, Answered
            <4>2. worker'[i] = Taken(slot)[i]
                BY <1>8, <2>1, <4>1 DEF TakenAt
            <4> QED BY <1>4, <4>1, <4>2
        <3>2. CASE i # slot
            BY <1>1, <1>3, <1>5, <1>8, <1>9, <2>1, <3>2
        <3> QED BY <3>1, <3>2
    <2> QED BY <2>2 DEF AllSteady, NoneBegins
<1>11. CASE CancelJob
    <2> DEFINE flag == worker[slot].kind \notin Tools
    <2>1. worker' = [DropQueue(worker) EXCEPT ![slot].cancel = flag] /\ DOMAIN DropQueue(worker) = Starts
        BY <1>11 DEF CancelJob, DropQueue
    <2> HIDE DEF flag
    <2>2. ASSUME NEW i \in Starts PROVE Steady(i) /\ (Writing(i)' => Writing(i))
        <3>1. CASE i # slot
            <4>1. worker'[i] = DropQueue(worker)[i]
                BY <2>1, <3>1
            <4> QED BY <1>3, <1>5, <1>8, <1>9, <4>1
        <3>2. CASE i = slot
            <4> DEFINE d == DropQueue(worker)[i]
            <4>1. worker'[i] = [d EXCEPT !.cancel = flag]
                BY <2>1, <3>2
            <4>2. CASE worker[i].pc = "queued"
                <5>1. d = Over(i, "killed")
                    BY <1>8, <4>2
                <5>2. worker'[i].kind = worker[i].kind /\ worker'[i].pc = "killed"
                    BY <4>1, <5>1 DEF Over, NoWorker
                <5> QED BY <1>5, <4>2, <5>2
            <4>3. CASE worker[i].pc # "queued"
                <5>1. d = worker[i]
                    BY <1>8, <4>3
                <5>2. /\ worker'[i].kind = worker[i].kind /\ worker'[i].pc = worker[i].pc
                      /\ worker'[i].res = worker[i].res
                    BY <1>0, <4>1, <5>1 DEF WorkerFields
                <5> QED BY <5>2 DEF Steady, Used, Writing
            <4> QED BY <4>2, <4>3
        <3> QED BY <3>1, <3>2
    <2> QED BY <2>2 DEF AllSteady, NoneBegins
<1>12. CASE CloseResult
    BY <1>12, SameSteady DEF CloseResult
<1> QED BY <1>6, <1>7, <1>10, <1>11, <1>12 DEF PollJob

\* The first unused number, and those from it on.
LEMMA FirstUnused ==
    ASSUME HistoryInv, Unused # {}
    PROVE  /\ NextStart \in Starts /\ ~Used(NextStart)
           /\ \A j \in Starts : j < NextStart => Used(j)
<1>1. PICK i \in Unused : \A j \in Unused : i <= j
    <2>1. Unused \subseteq Nat
        BY JobsAssumption DEF Unused, Starts
    <2>2. PICK i \in Unused : \A j \in Unused : ~(<<j, i>> \in OpToRel(<, Nat))
        BY <2>1, NatLessThanWellFounded, WFMin
    <2>3. \A j \in Unused : ~(j < i)
        BY <2>1, <2>2, Zenon DEF OpToRel
    <2> QED BY <2>1, <2>3
<1>2. NextStart \in Unused /\ \A j \in Unused : NextStart <= j
    BY <1>1 DEF NextStart
<1>3. Starts \subseteq Nat
    BY JobsAssumption DEF Starts
<1> QED BY <1>2, <1>3 DEF Unused, Used

\* It gets a worker, and no backup.
LEMMA FreshSteady ==
    ASSUME HistoryInv, Unused # {}, NEW x, worker' = [worker EXCEPT ![NextStart] = x],
           x.kind # "backup", x.pc # "none", x.kind \in Tools => x.pc = "detect", UsedInOrder
    PROVE  AllSteady /\ NoneBegins
<1>1. PICK n \in Starts : n = NextStart /\ ~Used(n) /\ \A j \in Starts : j < n => Used(j)
    BY FirstUnused
<1>2. worker'[n] = x /\ \A j \in Starts \ {n} : worker'[j] = worker[j]
    BY <1>1 DEF HistoryInv, AllHonest
<1>3. worker[n].kind \notin Tools
    BY <1>1 DEF UsedInOrder, Used
<1>4. Starts \subseteq Nat
    BY JobsAssumption DEF Starts
<1>5. \A j \in Starts : j < n => Used(j)'
    BY <1>1, <1>2, <1>4 DEF Used
<1>6. Steady(n) /\ ~Writing(n)'
    BY <1>1, <1>2, <1>3, <1>5 DEF Steady, Used, Writing
<1>7. \A j \in Starts \ {n} : Steady(j) /\ (Writing(j)' => Writing(j))
    BY <1>2 DEF Steady, Used, Writing
<1> QED BY <1>6, <1>7 DEF AllSteady, NoneBegins

\* Nor does the start of any other job.
LEMMA SlotSteady ==
    ASSUME HistoryInv, UsedInOrder, NEW kind, NEW path, NEW deep, NEW pc,
           kind # "backup", pc # "none", kind \in Tools => pc = "detect",
           \/ TakeSlot(Worker(kind, path, deep, pc))
           \/ Unused # {} /\ worker' = [worker EXCEPT ![NextStart] = Worker(kind, path, deep, pc)]
    PROVE  AllSteady /\ NoneBegins
<1> DEFINE x == Worker(kind, path, deep, pc)
<1>1. Unused # {} /\ worker' = [worker EXCEPT ![NextStart] = x]
    BY DEF TakeSlot, Room
<1>2. x.kind = kind /\ x.pc = pc
    BY NewFields
<1> HIDE DEF x
<1> QED BY <1>1, <1>2, FreshSteady

\* The disks of a backup run get the numbers from it on, none of which is in use.
LEMMA QueueSteady ==
    ASSUME HistoryInv, UsedInOrder, NEW paths \in Seq(Paths), NEW deep, NEW asked,
           LaunchQueue(paths, deep, asked)
    PROVE  AllSteady
<1> DEFINE first == NextStart
           last == first + Len(paths) - 1
           job(i) == [Worker("backup", paths[i - first + 1], deep,
                             IF i = first THEN "start" ELSE "queued") EXCEPT !.asked = asked]
<1>1. /\ worker' = [i \in Starts |-> IF i \in first .. last THEN job(i) ELSE worker[i]]
      /\ Unused # {} /\ last \in Starts
    BY DEF LaunchQueue, Room
<1>2. first \in Starts /\ ~Used(first) /\ \A j \in Starts : j < first => Used(j)
    BY <1>1, FirstUnused
<1>3. \A i : job(i).kind = "backup" /\ job(i).pc \in {"start", "queued"}
    BY DEF Worker, NoWorker
<1>4. Starts \subseteq Nat /\ last \in Nat
    BY <1>1, JobsAssumption DEF Starts
<1> HIDE DEF job, first, last
<1>5. \A i \in Starts : worker'[i] = IF i \in first .. last THEN job(i) ELSE worker[i]
    BY <1>1
<1>6. \A i \in Starts : i \in first .. last => ~Used(i) /\ Used(i)' /\ worker'[i].kind = "backup"
    <2>1. ASSUME NEW i \in Starts, i \in first .. last PROVE ~Used(i)
        <3>1. i = first \/ first < i
            BY <1>2, <1>4, <2>1
        <3> QED BY <1>2, <3>1 DEF UsedInOrder
    <2> QED BY <1>3, <1>5, <2>1 DEF Used
<1>7. ASSUME NEW i \in Starts, i \in first .. last PROVE Steady(i)
    <2>1. ASSUME NEW j \in Starts, j < i PROVE Used(j)'
        <3>1. j < first \/ j \in first .. last
            BY <1>2, <1>4, <1>7, <2>1
        <3>2. j < first => j \notin first .. last
            BY <1>2, <1>4
        <3> QED BY <1>2, <1>5, <1>6, <3>1, <3>2 DEF Used
    <2>2. worker[i].kind \notin Tools /\ worker'[i].kind \notin Tools
        BY <1>6, <1>7 DEF UsedInOrder, Used, Tools
    <2> QED BY <1>6, <1>7, <2>1, <2>2 DEF Steady
<1>8. ASSUME NEW i \in Starts, i \notin first .. last PROVE Steady(i)
    BY <1>5, <1>8 DEF Steady, Used
<1> QED BY <1>7, <1>8 DEF AllSteady

\* Every thread is cut off.
LEMMA EndSteady ==
    ASSUME HistoryInv, NEW how, NEW delete, NEW off, ProcessEnds(how, delete, off), app # "down"
    PROVE  AllSteady /\ NoneBegins
<1>1. worker' = [i \in Starts |-> IF Live(i) \/ worker[i].pc = "queued"
                                  THEN Over(i, "killed") ELSE Over(i, worker[i].pc)]
    BY DEF ProcessEnds
<1>2. ASSUME NEW i \in Starts
      PROVE  /\ worker'[i].kind = worker[i].kind /\ worker'[i].res = "none"
             /\ worker'[i].pc = IF Live(i) \/ worker[i].pc = "queued" THEN "killed" ELSE worker[i].pc
    BY <1>1 DEF Over, NoWorker
<1>3. GoesDown
    BY DEF ProcessEnds, GoesDown
<1>4. ASSUME NEW i \in Starts PROVE Steady(i) /\ (Writing(i)' => Writing(i))
    BY <1>2, <1>3 DEF Steady, Used, Writing, Begun, Live
<1> QED BY <1>4 DEF AllSteady, NoneBegins

\* A tool takes a step, or panics.
LEMMA ToolMoves ==
    ASSUME HistoryInv, UsedInOrder, NEW i \in Starts, ToolStep(i) \/ ToolPanics(i)
    PROVE  UsedInOrder' /\ NoneBegins
<1>1. WorkerShape
    BY DEF WorkerShape, HistoryInv, AllHonest, Honest, WorkerFields
<1>2. worker[i].kind \in Tools /\ ToolFrame /\ Used(i)
    BY ToolForm DEF UsedInOrder, Used
<1>3. ASSUME NEW pc, NEW res, pc \notin {"none", "verify"}, To(i, pc) \/ Ends(i, pc, res)
      PROVE  UsedInOrder' /\ NoneBegins
    <2>1. worker'[i].pc = pc /\ worker'[i].kind = worker[i].kind
          /\ \A j \in Starts \ {i} : worker'[j] = worker[j]
        BY <1>1, <1>3, ToFields, EndsFields
    <2>2. \A j \in Starts : Used(j)' = Used(j)
        BY <1>2, <1>3, <2>1 DEF Used
    <2>3. NoneBegins
        BY <1>2, <2>1 DEF NoneBegins, Writing, Tools
    <2> QED BY <1>3, <2>1, <2>2, <2>3 DEF UsedInOrder
<1>4. PICK pc, res : pc \notin {"none", "verify"} /\ (To(i, pc) \/ Ends(i, pc, res))
    BY ToolForm
<1> QED BY <1>3, <1>4


\* The steps that launch a backup run, those of the tools, the end of the process, and all
\* the others.
Launches == StartLive \/ \E d \in dialogs : d.kind = "overwrite"
Moves(i) == (ToolStep(i) \/ ToolPanics(i)) /\ NotTools
\* Every step is one of them.
LEMMA WorkersMove ==
    ASSUME HistoryInv, UsedInOrder, [Next]_vars
    PROVE  \/ AllSteady /\ win' = win /\ (app' = app \/ app = "down") /\ (NoneBegins \/ Launches)
           \/ AllSteady /\ ToolsKilled /\ NoneBegins
           \/ Reads
           \/ \E i \in Starts : Moves(i)
<1> DEFINE Rest == AllSteady /\ win' = win /\ (app' = app \/ app = "down") /\ (NoneBegins \/ Launches)
           Ends0 == AllSteady /\ ToolsKilled /\ NoneBegins
<1> USE DEF Intends, UiRest
<1>1. ASSUME NEW i \in Starts, Works(i) \/ Dies(i) PROVE Rest \/ Moves(i)
    BY <1>1, WorkSteady DEF Works, Dies, Moves, NotJobs, uiVars
<1>2. CASE Polls \/ JobClick
    <2>1. CASE StartCompletedVerify /\ NotJobs
        <3>1. /\ Unused # {} /\ win' = win /\ app' = app
              /\ worker' = [worker EXCEPT ![NextStart] = Worker("verify", completed.path, TRUE, "verify")]
            BY <2>1 DEF StartCompletedVerify, NotJobs, uiVars
        <3>2. "verify" \notin Tools
            BY DEF Tools
        <3>3. AllSteady /\ NoneBegins
            BY <3>1, <3>2, SlotSteady
        <3> QED BY <3>1, <3>3
    <2> QED BY <1>2, <2>1, PollSteady DEF Polls, JobClick, NotJobs, uiVars
<1>3. ASSUME NEW paths \in user.outputs, NEW deep, StartBackup(paths, deep) PROVE Rest
    <2>0. app' = app
        BY <1>3 DEF StartBackup
    <2>1. paths \in Seq(Paths)
        BY UsersAssumption DEF HistoryInv, Asked
    <2>2. CASE LaunchQueue(paths, deep, FALSE)
        BY <1>3, <2>0, <2>1, <2>2, QueueSteady DEF StartBackup, Launches, LaunchQueue
    <2>3. CASE OnlyUi
        BY <2>0, <2>3, SameSteady DEF OnlyUi, jobVars
    <2> QED BY <1>3, <2>2, <2>3 DEF StartBackup
<1>4. CASE ConfirmOverwrite
    <2>1. PICK d \in dialogs : d.kind = "overwrite" /\ LaunchQueue(d.paths, d.deep, TRUE) /\ app' = app
        BY <1>4 DEF ConfirmOverwrite
    <2>2. d.paths \in Seq(Paths)
        BY DEF HistoryInv, Asked
    <2> QED BY <2>1, <2>2, QueueSteady DEF Launches, LaunchQueue
<1>5. CASE ConfirmDisk
    <2>1. PICK d \in dialogs :
              /\ d.kind \in {"restore", "clone"} /\ app' = app
              /\ TakeSlot(Worker(d.kind, IF d.paths = <<>> THEN "none" ELSE d.paths[1],
                                 FALSE, "work"))
        BY <1>5 DEF ConfirmDisk
    <2>2. d.kind # "backup" /\ d.kind \notin Tools /\ "work" # "none"
        BY <2>1 DEF Tools
    <2>3. AllSteady /\ NoneBegins
        BY <2>1, <2>2, SlotSteady
    <2> QED BY <2>1, <2>3 DEF TakeSlot
<1>6. ASSUME NEW p \in Paths, StartVerify(p) PROVE Rest
    <2>1. TakeSlot(Worker("verify", p, TRUE, "verify")) /\ "verify" \notin Tools /\ app' = app
        BY <1>6 DEF StartVerify, Tools
    <2>2. AllSteady /\ NoneBegins
        BY <2>1, SlotSteady
    <2> QED BY <2>1, <2>2 DEF TakeSlot
<1>7. ASSUME NEW t \in Tools, ConfirmTool(t) PROVE Rest
    <2>1. PICK d \in dialogs : TakeSlot(Worker(t, "none", d.deep, "detect")) /\ app' = app
        BY <1>7 DEF ConfirmTool
    <2>2. t # "backup" /\ "detect" # "none"
        BY DEF Tools
    <2>3. AllSteady /\ NoneBegins
        BY <2>1, <2>2, SlotSteady
    <2> QED BY <2>1, <2>3 DEF TakeSlot
<1>8. CASE \/ StartClone \/ ValidationEnds \/ CancelDialog
           \/ \E p \in Paths : StartRestore(p)
           \/ \E t \in Tools : OpenTool(t)
           \/ StartBootRepair \/ StartResetHello \/ StartAdminToggle
    <2>1. OnlyUi /\ app' = app
        BY <1>8 DEF StartClone, ValidationEnds, CancelDialog, StartRestore, OpenTool, StartBootRepair,
                    StartResetHello, StartAdminToggle, StartTool
    <2> QED BY <2>1, SameSteady DEF OnlyUi, jobVars
<1>9. CASE \/ DeleteRecord \/ Refresh \/ MountClick \/ DriveUse
           \/ \E p \in Paths : Mount(p) \/ RequestVm(p)
           \/ AnswerBoot \/ SessionRow \/ VmWorks \/ CloseOrphan
    <2>1. UNCHANGED <<worker, win>> /\ app' = app
        BY <1>9 DEF DeleteRecord, Refresh, MountClick, DriveUse, Mount, RequestVm, AnswerBoot,
                    SessionRow, VmWorks, CloseOrphan, NotCatalog, NotMounts, NotVm, jobVars
    <2> QED BY <2>1, SameSteady
<1>10. ASSUME NEW how, NEW delete, NEW off, ProcessEnds(how, delete, off), app # "down" PROVE Ends0
    BY <1>10, EndSteady DEF ProcessEnds
<1>11. CASE PressClose \/ RestartToUpdate \/ ConfirmClose \/ Crash
    <2>1. CASE OnlyUi /\ UiRest
        BY <2>1, SameSteady DEF OnlyUi, jobVars
    <2> QED BY <1>10, <1>11, <2>1 DEF PressClose, RestartToUpdate, ConfirmClose, Crash
<1>12. CASE Restart \/ UNCHANGED vars
    <2>1. UNCHANGED <<worker, win>> /\ (app' = app \/ app = "down")
        BY <1>12 DEF Restart, vars, jobVars, uiVars
    <2> QED BY <2>1, SameSteady
<1> HIDE DEF Rest, Ends0
<1> DEFINE One == Rest \/ Ends0 \/ Reads \/ \E i \in Starts : Moves(i)
<1>13. CASE \E i \in Starts : Works(i) \/ Dies(i)
    <2>1. One
        BY <1>1, <1>13
    <2> QED BY <2>1 DEF Rest, Ends0
<1>14. CASE \E paths \in user.outputs, deep \in user.deep : StartBackup(paths, deep)
    <2>1. Rest
        BY <1>3, <1>14
    <2> QED BY <2>1 DEF Rest
<1>15. CASE \/ \E p \in Paths : StartVerify(p)
            \/ \E t \in Tools : ConfirmTool(t)
    <2>1. Rest
        BY <1>6, <1>7, <1>15
    <2> QED BY <2>1 DEF Rest
<1>16. Next =>
           \/ \E i \in Starts : Works(i) \/ Dies(i)
           \/ \E paths \in user.outputs, deep \in user.deep : StartBackup(paths, deep)
           \/ \E p \in Paths : StartVerify(p)
           \/ \E t \in Tools : ConfirmTool(t)
           \/ Polls \/ JobClick \/ ConfirmOverwrite \/ ConfirmDisk \/ Reads
           \/ StartClone \/ ValidationEnds \/ CancelDialog
           \/ \E p \in Paths : StartRestore(p)
           \/ \E t \in Tools : OpenTool(t)
           \/ StartBootRepair \/ StartResetHello \/ StartAdminToggle
           \/ DeleteRecord \/ Refresh \/ MountClick \/ DriveUse
           \/ \E p \in Paths : Mount(p) \/ RequestVm(p)
           \/ AnswerBoot \/ SessionRow \/ VmWorks \/ CloseOrphan
           \/ PressClose \/ RestartToUpdate \/ ConfirmClose \/ Crash \/ Restart
    BY DEF Next
<1>17. \/ AllSteady /\ win' = win /\ (app' = app \/ app = "down") /\ (NoneBegins \/ Launches)
       \/ AllSteady /\ ToolsKilled /\ NoneBegins
       \/ Reads
       \/ \E i \in Starts : Moves(i)
    BY <1>2, <1>4, <1>5, <1>8, <1>9, <1>11, <1>12, <1>13, <1>14, <1>15, <1>16 DEF Rest, Ends0
<1> QED BY <1>17

\* So numbers are used in order after every step.
LEMMA OrderStep == ASSUME HistoryInv, UsedInOrder, [Next]_vars PROVE UsedInOrder'
<1>1. ASSUME NEW i \in Starts, Moves(i) PROVE UsedInOrder'
    BY <1>1, ToolMoves DEF Moves
<1>2. ASSUME Reads PROVE UsedInOrder'
    BY <1>2, ReadsApart, SameSteady, SteadyInOrder DEF jobVars
<1> QED BY <1>1, <1>2, WorkersMove, SteadyInOrder

-----------------------------------------------------------------------------
(* What the tools leave behind. *)

\* Who answers for a temporary letter, and for the stopped service.
HoldsLetter(i) == worker[i].kind = "boot" /\ worker[i].pc \in Mid \cup {"drop"}
HoldsService(i) == worker[i].kind = "hello" /\ worker[i].pc \in {"remove", "start"}
\* Who will unload the hive, and who has a key of it open: a worker, or the window (0).
HiveUsers == {0} \cup Starts
Holding(u) == \/ u = 0 /\ app \in {"open", "use", "unload"}
              \/ u \in Starts /\ worker[u].kind = "admin" /\ worker[u].pc \in {"open", "use", "unload"}
Using(u) == \/ u = 0 /\ app = "use"
            \/ u \in Starts /\ worker[u].kind = "admin" /\ worker[u].pc = "use"

\* Each worker answers for its own letters.  The service of a system that runs is stopped
\* by a worker that is there to start it.  An unloaded hive has no key open; a loaded one
\* has somebody to unload it, and so has each of its keys.
LettersOwed == \A i \in Starts : win.letters[i] # {} => HoldsLetter(i)
ServiceOwed == win.service = "stopped" => win.inst.live /\ \E i \in Starts : HoldsService(i)
HiveOwed == /\ win.hive = "out" => win.keys = {}
            /\ win.hive = "in" => /\ \E u \in HiveUsers : Holding(u)
                                  /\ \A u \in win.keys : u \in HiveUsers /\ Using(u)
LeftInv == LettersOwed /\ ServiceOwed /\ HiveOwed

\* Who holds something goes on holding it while no tool moves.
LEMMA SteadyHolds ==
    ASSUME UsedInOrder, LeftInv, AllSteady, win' = win, app' = app \/ app = "down"
    PROVE  LeftInv'
<1>0. ~GoesDown
    BY DEF GoesDown
<1>1. ASSUME NEW i \in Starts, worker[i].kind \in Tools
      PROVE  worker'[i].kind = worker[i].kind /\ worker'[i].pc = worker[i].pc
    BY <1>0, <1>1 DEF UsedInOrder, AllSteady, Steady, Used
<1>2. \A i \in Starts : HoldsLetter(i) => HoldsLetter(i)'
    BY <1>1 DEF HoldsLetter, Tools
<1>3. \A i \in Starts : HoldsService(i) => HoldsService(i)'
    BY <1>1 DEF HoldsService, Tools
<1>4. \A u : (Holding(u) => Holding(u)') /\ (Using(u) => Using(u)')
    BY <1>1 DEF Holding, Using, Tools
<1>5. LettersOwed'
    BY <1>2 DEF LeftInv, LettersOwed
<1>6. ServiceOwed'
    BY <1>3 DEF LeftInv, ServiceOwed
<1>7. HiveOwed'
    BY <1>4 DEF LeftInv, HiveOwed
<1> QED BY <1>5, <1>6, <1>7 DEF LeftInv

\* The end of the process: nothing is owed any more.
LEMMA KillHolds == ASSUME WinShape, ToolsKilled PROVE LeftInv'
BY KillOnly DEF LeftInv, LettersOwed, ServiceOwed, HiveOwed

\* A worker moves, and nothing of the letters but perhaps its own.
LEMMA LettersMove ==
    ASSUME LettersOwed, NEW i \in Starts,
           \A j \in Starts \ {i} : worker'[j] = worker[j] /\ win'.letters[j] = win.letters[j],
           win'.letters[i] # {} => HoldsLetter(i)'
    PROVE  LettersOwed'
<1>1. \A j \in Starts \ {i} : HoldsLetter(j)' = HoldsLetter(j)
    BY DEF HoldsLetter
<1> QED BY <1>1 DEF LettersOwed

\* A worker moves that is no boot repair.
LEMMA LettersKept ==
    ASSUME LettersOwed, NEW i \in Starts, \A j \in Starts \ {i} : worker'[j] = worker[j],
           worker[i].kind # "boot", win'.letters = win.letters
    PROVE  LettersOwed'
<1>1. win.letters[i] = {}
    BY DEF LettersOwed, HoldsLetter
<1> QED BY <1>1, LettersMove

\* A worker moves and does not touch the service.
LEMMA ServiceKept ==
    ASSUME ServiceOwed, NEW i \in Starts, \A j \in Starts \ {i} : worker'[j] = worker[j],
           ~HoldsService(i) \/ HoldsService(i)', win'.service = win.service, win'.inst = win.inst
    PROVE  ServiceOwed'
<1>1. \A j \in Starts \ {i} : HoldsService(j)' = HoldsService(j)
    BY DEF HoldsService
<1> QED BY <1>1 DEF ServiceOwed

\* User u of the hive takes a step of any kind.
LEMMA HiveKept ==
    ASSUME WinShape, HiveOwed, NEW u \in HiveUsers,
           \A v \in HiveUsers \ {u} : Holding(v)' = Holding(v) /\ Using(v)' = Using(v),
           \/ win'.hive = win.hive /\ win'.keys = win.keys /\ ~Using(u)
                 /\ (~Holding(u) \/ Holding(u)')
           \/ UnloadLeftover /\ ~Holding(u) /\ ~Using(u)
           \/ LoadHive /\ Holding(u)'
           \/ OpenKey(u) /\ Holding(u)' /\ Using(u)'
           \/ win'.hive = win.hive /\ win'.keys = win.keys \ {u} /\ Holding(u)'
           \/ UnloadHive /\ ~Using(u)
           \/ win'.keys = win.keys /\ win'.hive # "in" /\ (win'.hive = "out" => win.hive = "out")
    PROVE  HiveOwed'
<1> USE DEF WinShape, WinFields
<1>0. \A v : Using(v) => Holding(v)
    BY DEF Using, Holding
<1>1. ~Using(u) /\ win.hive = "in" => u \notin win.keys
    BY DEF HiveOwed
<1>2. CASE win'.hive = win.hive /\ win'.keys = win.keys /\ ~Using(u) /\ (~Holding(u) \/ Holding(u)')
    BY <1>1, <1>2 DEF HiveOwed
<1>3. CASE UnloadLeftover /\ ~Holding(u) /\ ~Using(u)
    <2>1. \/ win'.hive = win.hive /\ win'.keys = win.keys
          \/ win'.hive = "out" /\ win'.keys = {}
        BY <1>3 DEF UnloadLeftover
    <2> QED BY <1>1, <1>3, <2>1 DEF HiveOwed
<1>4. CASE LoadHive /\ Holding(u)'
    <2>1. win.hive = "out" /\ win'.hive = "in" /\ win'.keys = win.keys
        BY <1>4 DEF LoadHive
    <2> QED BY <1>4, <2>1 DEF HiveOwed
<1>5. CASE OpenKey(u) /\ Holding(u)' /\ Using(u)'
    <2>1. win.hive # "out" /\ win'.hive = win.hive /\ win'.keys = win.keys \cup {u}
        BY <1>5 DEF OpenKey
    <2> QED BY <1>5, <2>1 DEF HiveOwed
<1>6. CASE win'.hive = win.hive /\ win'.keys = win.keys \ {u} /\ Holding(u)'
    BY <1>6 DEF HiveOwed
<1>7. CASE UnloadHive /\ ~Using(u)
    <2>1. CASE UNCHANGED win /\ (win.keys # {} \/ win.hive = "out")
        <3>1. win.keys # {} \/ win.hive = "out"
            BY <2>1
        <3>2. ASSUME win.hive = "in"
              PROVE  /\ \E v \in HiveUsers : Holding(v)'
                     /\ \A v \in win.keys : v \in HiveUsers /\ Using(v)'
            <4>1. \A v \in win.keys : v \in HiveUsers \ {u} /\ Using(v)
                BY <1>1, <1>7, <3>2 DEF HiveOwed
            <4>2. PICK v : v \in win.keys
                BY <3>1, <3>2
            <4> QED BY <1>0, <4>1, <4>2
        <3> QED BY <2>1, <3>2 DEF HiveOwed
    <2>2. CASE win.keys = {} /\ win'.keys = {} /\ win'.hive # "in"
        BY <2>2 DEF HiveOwed
    <2>3. ASSUME NEW hive \in {"out", "left"}, win.keys = {}, win' = [win EXCEPT !.hive = hive]
          PROVE  win'.keys = {} /\ win'.hive # "in"
        BY <2>3
    <2> QED BY <1>7, <2>1, <2>2, <2>3 DEF UnloadHive
<1>8. CASE win'.keys = win.keys /\ win'.hive # "in" /\ (win'.hive = "out" => win.hive = "out")
    BY <1>8 DEF HiveOwed
<1> QED BY <1>2, <1>3, <1>4, <1>5, <1>6, <1>7, <1>8

\* A worker that has nothing to do with the hive takes a step.
LEMMA HiveApart ==
    ASSUME WinShape, HiveOwed, NEW i \in Starts, \A j \in Starts \ {i} : worker'[j] = worker[j],
           worker'[i].kind = worker[i].kind, worker[i].kind # "admin", app' = app,
           win'.hive = win.hive, win'.keys = win.keys
    PROVE  HiveOwed'
<1>1. i \in HiveUsers /\ i # 0 /\ ~Using(i) /\ ~Holding(i)
    BY JobsAssumption DEF HiveUsers, Using, Holding, Starts
<1>2. \A v \in HiveUsers \ {i} : Holding(v)' = Holding(v) /\ Using(v)' = Using(v)
    BY DEF HiveUsers, Holding, Using
<1> QED BY <1>1, <1>2, HiveKept

\* The thread of the window reads the state of an Administrator.
LEMMA ReadsHold == ASSUME WinShape, LeftInv, Reads PROVE LeftInv'
<1>1. worker' = worker /\ 0 \in HiveUsers /\ 0 \notin Starts
    BY JobsAssumption DEF Reads, jobVars, HiveUsers, Starts
<1>2. Only(HiveFields)
    <2>1. ASSUME UnloadLeftover \/ LoadHive \/ OpenKey(0) \/ UnloadHive PROVE Only(HiveFields)
        BY <2>1, HiveOnly
    <2>2. ASSUME win' = win \/ win' = [win EXCEPT !.keys = @ \ {0}] PROVE Only(HiveFields)
        BY <2>2 DEF WinShape, Only, WinFields, HiveFields
    <2> QED BY <2>1, <2>2 DEF Reads, ReadAdmin, ReadStep
<1>3. win'.letters = win.letters /\ win'.service = win.service /\ win'.inst = win.inst
    BY <1>2 DEF Only, WinFields, HiveFields
<1>4. \A v \in HiveUsers \ {0} : Holding(v)' = Holding(v) /\ Using(v)' = Using(v)
    BY <1>1 DEF HiveUsers, Holding, Using
<1>5. /\ Holding(0) <=> app \in {"open", "use", "unload"}
      /\ Using(0) <=> app = "use"
      /\ Holding(0)' <=> app' \in {"open", "use", "unload"}
      /\ Using(0)' <=> app' = "use"
    BY <1>1 DEF Holding, Using
<1>6. LettersOwed' /\ ServiceOwed'
    BY <1>1, <1>3 DEF LeftInv, LettersOwed, ServiceOwed, HoldsLetter, HoldsService
<1>7. \/ win'.hive = win.hive /\ win'.keys = win.keys /\ ~Using(0) /\ (~Holding(0) \/ Holding(0)')
      \/ UnloadLeftover /\ ~Holding(0) /\ ~Using(0)
      \/ LoadHive /\ Holding(0)'
      \/ OpenKey(0) /\ Holding(0)' /\ Using(0)'
      \/ win'.hive = win.hive /\ win'.keys = win.keys \ {0} /\ Holding(0)'
      \/ UnloadHive /\ ~Using(0)
    <2>1. CASE ReadAdmin
        BY <1>5, <2>1 DEF ReadAdmin
    <2>2. CASE app = "use" /\ win' = [win EXCEPT !.keys = @ \ {0}] /\ app' = "unload"
        BY <1>5, <2>2 DEF WinShape, WinFields
    <2>3. CASE ReadStep /\ ~(app = "use")
        BY <1>5, <2>3 DEF ReadStep, AfterOpen
    <2> QED BY <2>1, <2>2, <2>3 DEF Reads, ReadStep
<1>8. HiveOwed'
    BY <1>1, <1>4, <1>7, HiveKept DEF LeftInv
<1> QED BY <1>6, <1>8 DEF LeftInv

\* What the steps of a boot repair change, and the place they lead to.
LEMMA BootSteps ==
    ASSUME WorkerShape, WinShape, LeftInv, NEW i \in Starts, worker[i].kind = "boot",
           ToolStep(i) \/ ToolPanics(i)
    PROVE  /\ Only(BootFields \cup {"letters", "stuck", "active"})
           /\ \A j \in Starts \ {i} : win'.letters[j] = win.letters[j]
           /\ win'.letters[i] # {} => worker'[i].pc \in Mid \cup {"drop"}
<1> DEFINE F == BootFields \cup {"letters", "stuck", "active"}
           Good == /\ Only(F) /\ \A j \in Starts \ {i} : win'.letters[j] = win.letters[j]
                   /\ win'.letters[i] # {} => worker'[i].pc \in Mid \cup {"drop"}
<1>1. ASSUME NEW fs, Only(fs), fs \subseteq F \ {"letters"}
      PROVE  Only(F) /\ win'.letters = win.letters
    BY <1>1 DEF Only, WinFields, BootFields
<1>2. ASSUME win' = win PROVE Only({})
    BY <1>2 DEF WinShape, Only
<1>3. ASSUME NEW pc \in Mid \cup {"drop"}, NEW res, To(i, pc) \/ Ends(i, pc, res),
             NEW fs, Only(fs), fs \subseteq F \ {"letters"}
      PROVE  Good
    BY <1>1, <1>3, ToFields, EndsFields
<1>4. ASSUME NEW own, win'.letters = [win.letters EXCEPT ![i] = own], Only(F),
             NEW pc \in Mid \cup {"drop"}, To(i, pc)
      PROVE  Good
    BY <1>4, ToFields DEF WinShape
<1> SUFFICES Good
    BY DEF Good
<1> HIDE DEF Good
<1>5. {"active", "syslet", "bootsect", "look", "lookLog", "unlink", "unlinkLog", "rename",
       "renameLog", "bcdboot", "drop"} \subseteq Mid \cup {"drop"}
    BY DEF Mid, Before, After
<1>6. {} \subseteq F \ {"letters"} /\ {"store"} \subseteq F \ {"letters"} /\ {"bak"} \subseteq F \ {"letters"}
      /\ {"store", "bak"} \subseteq F \ {"letters"} /\ {"active"} \subseteq F \ {"letters"}
    BY DEF BootFields
<1>7. ASSUME Fails(i, "drop") PROVE Good
    BY <1>2, <1>3, <1>5, <1>6, <1>7 DEF Fails
<1>8. CASE Detect(i)
    <2>1. win.letters[i] = {} /\ win' = win
        BY <1>8 DEF Detect, Fails, LeftInv, LettersOwed, HoldsLetter, Mid, Before, After
    <2> QED BY <1>1, <1>2, <1>6, <2>1 DEF Good
<1>9. CASE BootLetter(i)
    <2>1. CASE \E own : /\ win' = [win EXCEPT !.letters[i] = own, !.repairs = @ + 1,
                                            !.crowded = @ \cup Crowd(i)]
                        /\ To(i, AfterLetter)
        <3>1. PICK own : win' = [win EXCEPT !.letters[i] = own, !.repairs = @ + 1,
                                            !.crowded = @ \cup Crowd(i)]
            BY <2>1
        <3>2. Only(F) /\ win'.letters = [win.letters EXCEPT ![i] = own]
            BY <3>1 DEF Only, WinShape, WinFields, BootFields
        <3> QED BY <1>4, <1>5, <2>1, <3>2 DEF AfterLetter
    <2> QED BY <1>7, <1>9, <2>1 DEF BootLetter
<1>10. CASE BootActive(i)
    <2>1. CASE win' = [win EXCEPT !.active = TRUE] /\ To(i, "syslet")
        <3>1. Only({"active"})
            BY <2>1, EditOnly DEF WinFields
        <3> QED BY <1>3, <1>5, <1>6, <2>1, <3>1
    <2> QED BY <1>7, <1>10, <2>1 DEF BootActive
<1>11. CASE BootSysLetter(i)
    <2>1. CASE /\ \E own \in Letters(i, "sys", 1) : win' = [win EXCEPT !.letters[i] = own]
               /\ To(i, IF win.inst.uefi THEN "look" ELSE "bootsect")
        <3>1. PICK own : win' = [win EXCEPT !.letters[i] = own]
            BY <2>1
        <3>2. Only(F) /\ win'.letters = [win.letters EXCEPT ![i] = own]
            BY <3>1 DEF Only, WinShape, WinFields
        <3> QED BY <1>4, <1>5, <2>1, <3>2
    <2> QED BY <1>7, <1>11, <2>1 DEF BootSysLetter
<1>12. CASE Bootsect(i)
    BY <1>2, <1>3, <1>5, <1>6, <1>7, <1>12 DEF Bootsect
<1>13. CASE \E n \in Stores : ClearStore(i, n)
    <2>1. PICK n \in Stores : ClearStore(i, n)
        BY <1>13
    <2>2. {UnlinkAt[n], RenameAt[n], ClearNext(n)} \subseteq Mid \cup {"drop"}
        BY <1>5 DEF Stores, UnlinkAt, RenameAt, ClearNext
    <2>3. CASE ClearLook(i, n)
        BY <1>2, <1>3, <1>6, <2>2, <2>3 DEF ClearLook
    <2>4. CASE ClearUnlink(i, n)
        <3>1. PICK left : win' = [win EXCEPT !.bak[n] = left]
            BY <2>4 DEF ClearUnlink
        <3>2. Only({"bak"})
            BY <3>1, BakFields
        <3> QED BY <1>3, <1>6, <2>2, <2>4, <3>2 DEF ClearUnlink
    <2>5. CASE ClearRename(i, n)
        BY <1>3, <1>6, <1>7, <2>2, <2>5, AsideFields DEF ClearRename
    <2> QED BY <2>1, <2>3, <2>4, <2>5 DEF ClearStore
<1>14. CASE Bcdboot(i)
    <2>1. PICK x : win' = [win EXCEPT !.store["BCD"] = x]
        BY <1>14 DEF Bcdboot
    <2>2. Only({"store"})
        BY <2>1, StoreFields
    <2> QED BY <1>3, <1>5, <1>6, <1>14, <2>2 DEF Bcdboot
<1>15. ASSUME DropLetters(i) PROVE Good
    <2>1. Only({"letters", "stuck"}) /\ win'.letters[i] = {}
          /\ \A j \in Starts \ {i} : win'.letters[j] = win.letters[j]
        BY <1>15, LettersGo
    <2> QED BY <2>1 DEF Good, Only
<1>16. CASE BootDrop(i) \/ ToolPanics(i)
    BY <1>15, <1>16 DEF BootDrop, ToolPanics
<1>17. ~HelloStop(i) /\ ~HelloRemove(i) /\ ~HelloStart(i) /\ ~AdminLive(i) /\ ~AdminLeftover(i)
       /\ ~AdminLoad(i) /\ ~AdminOpen(i) /\ ~AdminUse(i) /\ ~AdminUnload(i)
    BY DEF HelloStop, HelloRemove, HelloStart, AdminLive, AdminLeftover, AdminLoad, AdminOpen,
           AdminUse, AdminUnload, Tool
<1> QED BY <1>8, <1>9, <1>10, <1>11, <1>12, <1>13, <1>14, <1>16, <1>17 DEF ToolStep

\* What the steps of a Windows Hello reset change; it starts what it stopped.
LEMMA HelloSteps ==
    ASSUME WorkerShape, WinShape, ServiceOwed, NEW i \in Starts, worker[i].kind = "hello",
           ToolStep(i) \/ ToolPanics(i), \A j \in Starts \ {i} : worker'[j] = worker[j],
           worker'[i].kind = worker[i].kind
    PROVE  Only({"service", "ngc"}) /\ ServiceOwed'
<1> USE DEF Tool, Fails
<1>1. ASSUME win' = win PROVE Only({"service", "ngc"}) /\ win'.service = win.service /\ win'.inst = win.inst
    BY <1>1 DEF WinShape, Only
<1>2. ASSUME NEW x, win' = [win EXCEPT !.service = x]
      PROVE  Only({"service", "ngc"}) /\ win'.service = x /\ win'.inst = win.inst
    BY <1>2 DEF WinShape, Only, WinFields
<1>3. CASE Detect(i)
    <2>1. ~HoldsService(i) /\ win' = win
        BY <1>3 DEF Detect, HoldsService
    <2> QED BY <1>1, <2>1, ServiceKept
<1>4. CASE HelloStop(i)
    <2>0. ~HoldsService(i)
        BY <1>4 DEF HelloStop, HoldsService
    <2>1. CASE win.inst.live /\ win' = [win EXCEPT !.service = "stopped"] /\ To(i, "remove")
        <3>1. HoldsService(i)'
            BY <2>1, ToFields DEF HoldsService
        <3> QED BY <1>2, <2>1, <3>1 DEF ServiceOwed
    <2> QED BY <1>1, <1>4, <2>0, <2>1, ServiceKept DEF HelloStop
<1>5. CASE HelloRemove(i)
    <2>1. PICK gone : win' = [win EXCEPT !.ngc = ~gone] /\ \E res : Ends(i, "start", res)
        BY <1>5 DEF HelloRemove
    <2>2. Only({"service", "ngc"}) /\ win'.service = win.service /\ win'.inst = win.inst
        BY <2>1 DEF WinShape, Only, WinFields
    <2>3. HoldsService(i)'
        BY <2>1, EndsFields DEF HoldsService
    <2> QED BY <2>2, <2>3, ServiceKept
<1>6. CASE HelloStart(i)
    <2>1. CASE win.service = "stopped" /\ win' = [win EXCEPT !.service = "left"]
        BY <1>2, <2>1 DEF ServiceOwed
    <2>2. CASE win' = [win EXCEPT !.service = IF win.inst.live THEN "running" ELSE @]
        <3> DEFINE x == IF win.inst.live THEN "running" ELSE win.service
        <3>1. win' = [win EXCEPT !.service = x] /\ x # "stopped"
            BY <2>2 DEF ServiceOwed
        <3> HIDE DEF x
        <3> QED BY <1>2, <3>1 DEF ServiceOwed
    <2> QED BY <1>6, <2>1, <2>2 DEF HelloStart
<1>7. CASE ToolPanics(i)
    <2> DEFINE x == IF win.service = "stopped" THEN "left" ELSE win.service
    <2>1. win' = [win EXCEPT !.service = x] /\ x # "stopped"
        BY <1>7 DEF ToolPanics
    <2> HIDE DEF x
    <2> QED BY <1>2, <2>1 DEF ServiceOwed
<1>8. ~BootLetter(i) /\ ~BootActive(i) /\ ~BootSysLetter(i) /\ ~Bootsect(i) /\ ~Bcdboot(i)
      /\ ~BootDrop(i) /\ \A n \in Stores : ~ClearStore(i, n)
    BY DEF BootLetter, BootActive, BootSysLetter, Bootsect, Bcdboot, BootDrop, ClearStore,
           ClearLook, ClearUnlink, ClearRename
<1>9. ~AdminLive(i) /\ ~AdminLeftover(i) /\ ~AdminLoad(i) /\ ~AdminOpen(i) /\ ~AdminUse(i)
      /\ ~AdminUnload(i)
    BY DEF AdminLive, AdminLeftover, AdminLoad, AdminOpen, AdminUse, AdminUnload
<1> QED BY <1>3, <1>4, <1>5, <1>6, <1>7, <1>8, <1>9 DEF ToolStep

\* What the steps of an Administrator toggle change; it unloads what it loaded, unless
\* another one has a key open, who will.
LEMMA AdminSteps ==
    ASSUME WorkerShape, WinShape, HiveOwed, NEW i \in Starts, worker[i].kind = "admin",
           ToolStep(i) \/ ToolPanics(i), \A j \in Starts \ {i} : worker'[j] = worker[j],
           worker'[i].kind = worker[i].kind, app' = app
    PROVE  Only(HiveFields) /\ HiveOwed'
<1> USE DEF Tool
<1>0. i \in HiveUsers /\ i # 0
    BY JobsAssumption DEF HiveUsers, Starts
<1>1. \A v \in HiveUsers \ {i} : Holding(v)' = Holding(v) /\ Using(v)' = Using(v)
    BY DEF HiveUsers, Holding, Using
<1>2. /\ Holding(i) <=> worker[i].pc \in {"open", "use", "unload"}
      /\ Using(i) <=> worker[i].pc = "use"
      /\ Holding(i)' <=> worker'[i].pc \in {"open", "use", "unload"}
      /\ Using(i)' <=> worker'[i].pc = "use"
      /\ AtHive(i) <=> worker[i].pc \in {"open", "use", "unload"}
    BY <1>0 DEF Holding, Using, AtHive
<1>3. ASSUME NEW pc, NEW res, To(i, pc) \/ Ends(i, pc, res) PROVE worker'[i].pc = pc
    BY <1>3, ToFields, EndsFields
<1>4. ASSUME UnloadLeftover \/ LoadHive \/ OpenKey(i) \/ UnloadHive PROVE Only(HiveFields)
    BY <1>4, HiveOnly
<1>5. ASSUME win' = win PROVE Only(HiveFields) /\ win'.hive = win.hive /\ win'.keys = win.keys
    BY <1>5 DEF WinShape, Only
<1>6. ASSUME win' = win, worker[i].pc # "use", ~Holding(i) \/ Holding(i)'
      PROVE  Only(HiveFields) /\ HiveOwed'
    BY <1>0, <1>1, <1>2, <1>5, <1>6, HiveKept
<1>7. CASE Detect(i)
    BY <1>2, <1>6, <1>7 DEF Detect, Fails
<1>8. CASE AdminLive(i)
    <2>1. CASE win' = [win EXCEPT !.admin = worker[i].deep]
        <3>1. Only(HiveFields) /\ win'.hive = win.hive /\ win'.keys = win.keys
            BY <2>1 DEF WinShape, Only, WinFields, HiveFields
        <3> QED BY <1>0, <1>1, <1>2, <1>8, <3>1, HiveKept DEF AdminLive
    <2> QED BY <1>2, <1>6, <1>8, <2>1 DEF AdminLive, Fails
<1>9. CASE AdminLeftover(i)
    <2>1. CASE UnloadLeftover
        BY <1>0, <1>1, <1>2, <1>4, <1>9, <2>1, HiveKept DEF AdminLeftover
    <2> QED BY <1>2, <1>6, <1>9, <2>1 DEF AdminLeftover, Fails
<1>10. CASE AdminLoad(i)
    <2>1. CASE LoadHive /\ To(i, "open")
        BY <1>0, <1>1, <1>2, <1>3, <1>4, <2>1, HiveKept
    <2> QED BY <1>2, <1>6, <1>10, <2>1 DEF AdminLoad, Fails
<1>11. CASE AdminOpen(i)
    <2>1. CASE OpenKey(i) /\ To(i, AfterOpen(TRUE))
        <3>1. worker'[i].pc = "use"
            BY <1>3, <2>1 DEF AfterOpen
        <3> QED BY <1>0, <1>1, <1>2, <1>4, <2>1, <3>1, HiveKept
    <2>2. CASE Fails(i, AfterOpen(FALSE))
        <3>1. worker'[i].pc = "unload" /\ win' = win /\ worker[i].pc # "use"
            BY <1>3, <1>11, <2>2 DEF AfterOpen, Fails, AdminOpen
        <3> QED BY <1>2, <1>6, <3>1
    <2> QED BY <1>11, <2>1, <2>2 DEF AdminOpen
<1>12. CASE AdminUse(i)
    <2>1. /\ \/ win' = [win EXCEPT !.keys = @ \ {i}]
             \/ win' = [win EXCEPT !.keys = @ \ {i}, !.admin = worker[i].deep]
          /\ \E res : Ends(i, "unload", res)
        BY <1>12 DEF AdminUse
    <2>2. Only(HiveFields) /\ win'.hive = win.hive /\ win'.keys = win.keys \ {i}
        BY <2>1 DEF WinShape, Only, WinFields, HiveFields
    <2>3. Holding(i)'
        BY <1>2, <1>3, <2>1
    <2> QED BY <1>0, <1>1, <2>2, <2>3, HiveKept
<1>13. CASE AdminUnload(i)
    BY <1>0, <1>1, <1>2, <1>4, <1>13, HiveKept DEF AdminUnload
<1>14. CASE ToolPanics(i)
    <2> DEFINE x == IF AtHive(i) /\ win.hive = "in" THEN "left" ELSE win.hive
    <2>1. win' = [win EXCEPT !.hive = x]
        BY <1>14 DEF ToolPanics
    <2>2. /\ AtHive(i) => x # "in" /\ (x = "out" => win.hive = "out")
          /\ ~AtHive(i) => x = win.hive
        OBVIOUS
    <2> HIDE DEF x
    <2>3. Only(HiveFields) /\ win'.hive = x /\ win'.keys = win.keys
        BY <2>1 DEF WinShape, Only, WinFields, HiveFields
    <2> QED BY <1>0, <1>1, <1>2, <2>2, <2>3, HiveKept
<1>15. ~BootLetter(i) /\ ~BootActive(i) /\ ~BootSysLetter(i) /\ ~Bootsect(i) /\ ~Bcdboot(i)
      /\ ~BootDrop(i) /\ \A n \in Stores : ~ClearStore(i, n)
    BY DEF BootLetter, BootActive, BootSysLetter, Bootsect, Bcdboot, BootDrop, ClearStore,
           ClearLook, ClearUnlink, ClearRename
<1>16. ~HelloStop(i) /\ ~HelloRemove(i) /\ ~HelloStart(i)
    BY DEF HelloStop, HelloRemove, HelloStart
<1> QED BY <1>7, <1>8, <1>9, <1>10, <1>11, <1>12, <1>13, <1>14, <1>15, <1>16 DEF ToolStep

\* Hence every step of a tool.
LEMMA ToolHolds ==
    ASSUME WorkerShape, WinShape, LeftInv, NEW i \in Starts, ToolStep(i) \/ ToolPanics(i), NotTools
    PROVE  LeftInv'
<1>1. PICK pc, res : To(i, pc) \/ Ends(i, pc, res)
    BY ToolForm
<1>2. (\A j \in Starts \ {i} : worker'[j] = worker[j]) /\ worker'[i].kind = worker[i].kind
    BY <1>1, ToFields, EndsFields
<1>3. app' = app /\ worker[i].kind \in Tools
    BY ToolForm DEF NotTools, uiVars
<1>4. CASE worker[i].kind = "boot"
    <2>1. /\ Only(BootFields \cup {"letters", "stuck", "active"})
          /\ \A j \in Starts \ {i} : win'.letters[j] = win.letters[j]
          /\ win'.letters[i] # {} => worker'[i].pc \in Mid \cup {"drop"}
        BY <1>4, BootSteps
    <2>2. /\ win'.service = win.service /\ win'.inst = win.inst
          /\ win'.hive = win.hive /\ win'.keys = win.keys
        BY <2>1 DEF Only, WinFields, BootFields
    <2>3. LettersOwed'
        BY <1>2, <1>4, <2>1, LettersMove DEF LeftInv, HoldsLetter
    <2>4. ServiceOwed'
        BY <1>2, <1>4, <2>2, ServiceKept DEF LeftInv, HoldsService
    <2>5. HiveOwed'
        BY <1>2, <1>3, <1>4, <2>2, HiveApart DEF LeftInv
    <2> QED BY <2>3, <2>4, <2>5 DEF LeftInv
<1>5. CASE worker[i].kind = "hello"
    <2>1. Only({"service", "ngc"}) /\ ServiceOwed'
        BY <1>2, <1>5, HelloSteps DEF LeftInv
    <2>2. win'.letters = win.letters /\ win'.hive = win.hive /\ win'.keys = win.keys
        BY <2>1 DEF Only, WinFields
    <2>3. LettersOwed'
        BY <1>2, <1>5, <2>2, LettersKept DEF LeftInv
    <2>4. HiveOwed'
        BY <1>2, <1>3, <1>5, <2>2, HiveApart DEF LeftInv
    <2> QED BY <2>1, <2>3, <2>4 DEF LeftInv
<1>6. CASE worker[i].kind = "admin"
    <2>1. Only(HiveFields) /\ HiveOwed'
        BY <1>2, <1>3, <1>6, AdminSteps DEF LeftInv
    <2>2. win'.letters = win.letters /\ win'.service = win.service /\ win'.inst = win.inst
        BY <2>1 DEF Only, WinFields, HiveFields
    <2>3. LettersOwed'
        BY <1>2, <1>6, <2>2, LettersKept DEF LeftInv
    <2>4. ServiceOwed'
        BY <1>2, <1>6, <2>2, ServiceKept DEF LeftInv, HoldsService
    <2> QED BY <2>1, <2>3, <2>4 DEF LeftInv
<1> QED BY <1>3, <1>4, <1>5, <1>6 DEF Tools

-----------------------------------------------------------------------------
(* What a boot repair that succeeds has rebuilt. *)

\* Two repairs at work are known to have met; one that met none took the store away,
\* and its log, before it goes on.
Alone(i) == Repairing(i) /\ i \notin win.crowded
RebuildInv ==
    /\ \A i, j \in Starts : i # j /\ Repairing(i) /\ Repairing(j) => i \in win.crowded
    /\ \A i \in Starts : Alone(i) /\ worker[i].pc \in After => Bcd = "none"
    /\ \A i \in Starts : Alone(i) /\ worker[i].pc = "bcdboot" => win.store["LOG"] = "none"

\* While no tool moves, no repair begins or goes on.
LEMMA SteadyRebuilds ==
    ASSUME UsedInOrder, RebuildInv, AllSteady, win'.store = win.store, win'.crowded = win.crowded
    PROVE  RebuildInv'
<1>1. ASSUME NEW i \in Starts, Repairing(i)' PROVE Repairing(i) /\ worker'[i].pc = worker[i].pc
    <2>1. worker'[i].kind \in Tools /\ worker'[i].pc \notin {"detect", "killed"}
        BY <1>1 DEF Repairing, Tools, Mid, Before, After
    <2>2. worker[i].kind \in Tools /\ Used(i)
        BY <2>1 DEF AllSteady, Steady, UsedInOrder, Used
    <2> QED BY <1>1, <2>1, <2>2 DEF AllSteady, Steady, Repairing
<1> QED BY <1>1 DEF RebuildInv, Alone, Bcd

\* A step of tool i that begins no repair.
LEMMA MoveRebuilds ==
    ASSUME RebuildInv, NEW i \in Starts, \A j \in Starts \ {i} : worker'[j] = worker[j],
           win'.crowded = win.crowded, Repairing(i)' => Repairing(i),
           win'.store = win.store \/ Repairing(i),
           Alone(i) /\ worker'[i].pc \in After => Bcd' = "none",
           Alone(i) /\ worker'[i].pc = "bcdboot" => win'.store["LOG"] = "none"
    PROVE  RebuildInv'
<1>1. \A j \in Starts \ {i} : Repairing(j)' = Repairing(j)
    BY DEF Repairing
<1>2. \A j \in Starts : Repairing(j)' => Repairing(j)
    BY <1>1
<1>3. \A j \in Starts : Alone(j)' => Alone(j)
    BY <1>2 DEF Alone
<1>4. \A j \in Starts \ {i} : Alone(j) => win'.store = win.store
    BY DEF RebuildInv, Alone
<1>5. \A k, j \in Starts : k # j /\ Repairing(k)' /\ Repairing(j)' => k \in win'.crowded
    BY <1>2 DEF RebuildInv
<1>6. ASSUME NEW j \in Starts, Alone(j)', worker'[j].pc \in After PROVE Bcd' = "none"
    BY <1>3, <1>4, <1>6 DEF RebuildInv, Bcd
<1>7. ASSUME NEW j \in Starts, Alone(j)', worker'[j].pc = "bcdboot" PROVE win'.store["LOG"] = "none"
    BY <1>3, <1>4, <1>7 DEF RebuildInv
<1> QED BY <1>5, <1>6, <1>7 DEF RebuildInv

\* One begins: whoever is at work knows, and so does it.
LEMMA BeginRebuilds ==
    ASSUME RebuildInv, NEW i \in Starts, \A j \in Starts \ {i} : worker'[j] = worker[j],
           win'.store = win.store, win'.crowded = win.crowded \cup Crowd(i),
           worker'[i].pc \notin After
    PROVE  RebuildInv'
<1>1. \A j \in Starts \ {i} : Repairing(j) => j \in Crowd(i) /\ i \in Crowd(i)
    BY DEF Repairing, Crowd, Live, Mid, Before, After
<1>2. \A j \in Starts \ {i} : Repairing(j)' = Repairing(j) /\ (Alone(j)' => Alone(j))
    BY DEF Repairing, Alone
<1>3. \A k, j \in Starts : k # j /\ Repairing(k)' /\ Repairing(j)' => k \in win'.crowded
    BY <1>1, <1>2 DEF RebuildInv
<1>4. "bcdboot" \in After
    BY DEF After
<1>5. ASSUME NEW j \in Starts, Alone(j)', worker'[j].pc \in After PROVE Bcd' = "none"
    BY <1>2, <1>5 DEF RebuildInv, Bcd
<1>6. ASSUME NEW j \in Starts, Alone(j)', worker'[j].pc = "bcdboot" PROVE win'.store["LOG"] = "none"
    BY <1>2, <1>4, <1>6 DEF RebuildInv
<1> QED BY <1>3, <1>5, <1>6 DEF RebuildInv

\* The steps of each tool.
LEMMA ToolRebuilds ==
    ASSUME WorkerShape, WinShape, RebuildInv, NEW i \in Starts, ToolStep(i) \/ ToolPanics(i)
    PROVE  RebuildInv'
<1> USE DEF Tool
<1>1. ASSUME NEW pc, NEW res, To(i, pc) \/ Ends(i, pc, res)
      PROVE  /\ \A j \in Starts \ {i} : worker'[j] = worker[j]
             /\ worker'[i].pc = pc /\ worker'[i].kind = worker[i].kind
    BY <1>1, ToFields, EndsFields
<1>2. \A j \in Starts \ {i} : worker'[j] = worker[j]
    BY <1>1, ToolForm
\* Of steps that lead to a place before the store is aside, or out of a repair.
<1>3. ASSUME NEW pc, NEW res, To(i, pc) \/ Ends(i, pc, res), pc \notin After,
             Repairing(i) \/ pc \notin Mid, win'.crowded = win.crowded,
             win'.store = win.store \/ Repairing(i)
      PROVE  RebuildInv'
    <2>1. worker'[i].pc = pc /\ worker'[i].kind = worker[i].kind
        BY <1>1, <1>3
    <2>2. Repairing(i)' => Repairing(i)
        BY <1>3, <2>1 DEF Repairing
    <2>3. worker'[i].pc # "bcdboot"
        BY <1>3, <2>1 DEF After
    <2> QED BY <1>2, <1>3, <2>1, <2>2, <2>3, MoveRebuilds
<1>4. /\ "drop" \notin Mid /\ "drop" \notin After /\ After \subseteq Mid
      /\ {"active", "syslet", "bootsect", "look", "unlink", "rename"} \cap After = {}
      /\ {"active", "syslet", "bootsect", "look", "unlink", "rename", "bcdboot",
          "lookLog", "unlinkLog", "renameLog"} \subseteq Mid
      /\ {"lookLog", "unlinkLog", "renameLog", "bcdboot"} = After
    BY DEF Mid, Before, After
<1>5. ASSUME Fails(i, "drop") PROVE RebuildInv'
    BY <1>3, <1>4, <1>5 DEF Fails
<1>6. CASE Detect(i)
    <2>1. PICK pc \in {"sent", "letter", "stop", "set", "leftover"} :
              (To(i, pc) \/ Ends(i, pc, "failed")) /\ UNCHANGED win
        BY <1>6 DEF Detect, Fails
    <2>2. pc \notin Mid /\ pc \notin After
        BY DEF Mid, Before, After
    <2> QED BY <1>3, <2>1, <2>2
<1>7. CASE BootLetter(i)
    <2>1. CASE \E own : /\ win' = [win EXCEPT !.letters[i] = own, !.repairs = @ + 1,
                                            !.crowded = @ \cup Crowd(i)]
                        /\ To(i, AfterLetter)
        <3>1. win'.store = win.store /\ win'.crowded = win.crowded \cup Crowd(i)
            BY <2>1 DEF WinShape, WinFields
        <3>2. worker'[i].pc \notin After
            BY <1>1, <1>4, <2>1 DEF AfterLetter
        <3> QED BY <1>2, <3>1, <3>2, BeginRebuilds
    <2> QED BY <1>5, <1>7, <2>1 DEF BootLetter
<1>8. CASE BootActive(i)
    <2>1. CASE win' = [win EXCEPT !.active = TRUE] /\ To(i, "syslet")
        <3>1. win'.store = win.store /\ win'.crowded = win.crowded
            BY <2>1 DEF WinShape, WinFields
        <3>2. Repairing(i)
            BY <1>4, <1>8 DEF BootActive, Repairing
        <3> QED BY <1>3, <1>4, <2>1, <3>1, <3>2
    <2> QED BY <1>5, <1>8, <2>1 DEF BootActive
<1>9. CASE BootSysLetter(i)
    <2>1. CASE /\ \E own \in Letters(i, "sys", 1) : win' = [win EXCEPT !.letters[i] = own]
               /\ To(i, IF win.inst.uefi THEN "look" ELSE "bootsect")
        <3>1. win'.store = win.store /\ win'.crowded = win.crowded
            BY <2>1 DEF WinShape, WinFields
        <3>2. Repairing(i)
            BY <1>4, <1>9 DEF BootSysLetter, Repairing
        <3>3. PICK pc \in {"look", "bootsect"} : To(i, pc)
            BY <2>1
        <3> QED BY <1>3, <1>4, <3>1, <3>2, <3>3
    <2> QED BY <1>5, <1>9, <2>1 DEF BootSysLetter
<1>10. CASE Bootsect(i)
    <2>1. CASE To(i, "look") /\ UNCHANGED win
        <3>1. Repairing(i)
            BY <1>4, <1>10 DEF Bootsect, Repairing
        <3> QED BY <1>3, <1>4, <2>1, <3>1
    <2> QED BY <1>5, <1>10, <2>1 DEF Bootsect
<1>11. CASE ClearStore(i, "BCD")
    <2>0. "BCD" \in Stores /\ LookAt["BCD"] = "look" /\ UnlinkAt["BCD"] = "unlink"
          /\ RenameAt["BCD"] = "rename" /\ ClearNext("BCD") = "lookLog"
        BY DEF Stores, LookAt, UnlinkAt, RenameAt, ClearNext
    <2>1. Repairing(i)
        BY <1>4, <1>11, <2>0 DEF ClearStore, ClearLook, ClearUnlink, ClearRename, Repairing
    <2>2. ASSUME To(i, "lookLog"), Bcd' = "none", win'.crowded = win.crowded PROVE RebuildInv'
        <3>1. worker'[i].pc = "lookLog" /\ worker'[i].kind = worker[i].kind
            BY <1>1, <2>2
        <3> QED BY <1>2, <2>1, <2>2, <3>1, MoveRebuilds
    <2>3. CASE ClearLook(i, "BCD")
        <3>1. CASE win.store["BCD"] = "none"
            BY <2>0, <2>2, <2>3, <3>1 DEF ClearLook, Bcd
        <3>2. CASE win.store["BCD"] # "none"
            BY <1>3, <1>4, <2>0, <2>1, <2>3, <3>2 DEF ClearLook
        <3> QED BY <3>1, <3>2
    <2>4. CASE ClearUnlink(i, "BCD")
        <3>1. PICK x : win' = [win EXCEPT !.bak["BCD"] = x]
            BY <2>4 DEF ClearUnlink
        <3>2. win'.crowded = win.crowded
            BY <2>0, <3>1, BakFields
        <3> QED BY <1>3, <1>4, <2>0, <2>1, <2>4, <3>2 DEF ClearUnlink
    <2>5. CASE ClearRename(i, "BCD")
        <3>1. CASE win' = Aside("BCD") /\ To(i, ClearNext("BCD"))
            <4>1. Bcd' = "none" /\ win'.crowded = win.crowded
                BY <2>0, <3>1, AsideFields
            <4> QED BY <2>0, <2>2, <3>1, <4>1
        <3> QED BY <1>5, <2>5, <3>1 DEF ClearRename
    <2> QED BY <1>11, <2>3, <2>4, <2>5 DEF ClearStore
<1>12. CASE ClearStore(i, "LOG")
    <2>0. "LOG" \in Stores /\ LookAt["LOG"] = "lookLog" /\ UnlinkAt["LOG"] = "unlinkLog"
          /\ RenameAt["LOG"] = "renameLog" /\ ClearNext("LOG") = "bcdboot" /\ "LOG" # "BCD"
        BY DEF Stores, LookAt, UnlinkAt, RenameAt, ClearNext
    <2>1. Repairing(i) /\ worker[i].pc \in After /\ worker[i].pc # "bcdboot"
        BY <1>4, <1>12, <2>0 DEF ClearStore, ClearLook, ClearUnlink, ClearRename, Repairing
    <2>2. Alone(i) => Bcd = "none"
        BY <2>1 DEF RebuildInv
    <2>3. ASSUME NEW pc, To(i, pc), pc # "bcdboot", Bcd' = Bcd, win'.crowded = win.crowded
          PROVE  RebuildInv'
        <3>1. worker'[i].pc = pc /\ worker'[i].kind = worker[i].kind
            BY <1>1, <2>3
        <3> QED BY <1>2, <2>1, <2>2, <2>3, <3>1, MoveRebuilds
    <2>4. ASSUME To(i, "bcdboot"), Bcd' = Bcd, win'.crowded = win.crowded, win'.store["LOG"] = "none"
          PROVE  RebuildInv'
        BY <1>2, <2>1, <2>2, <2>4, MoveRebuilds
    <2>5. CASE ClearLook(i, "LOG")
        <3>1. CASE win.store["LOG"] = "none"
            BY <2>0, <2>4, <2>5, <3>1 DEF ClearLook, Bcd
        <3>2. CASE win.store["LOG"] # "none"
            BY <2>0, <2>3, <2>5, <3>2 DEF ClearLook, Bcd
        <3> QED BY <3>1, <3>2
    <2>6. CASE ClearUnlink(i, "LOG")
        <3>1. PICK x : win' = [win EXCEPT !.bak["LOG"] = x]
            BY <2>6 DEF ClearUnlink
        <3>2. win'.crowded = win.crowded /\ Bcd' = Bcd
            BY <2>0, <3>1, BakFields
        <3> QED BY <2>0, <2>3, <2>6, <3>2 DEF ClearUnlink
    <2>7. CASE ClearRename(i, "LOG")
        <3>1. CASE win' = Aside("LOG") /\ To(i, ClearNext("LOG"))
            <4>1. Bcd' = Bcd /\ win'.crowded = win.crowded
                BY <2>0, <3>1, AsideFields
            <4>2. win'.store["LOG"] = "none"
                BY <2>0, <3>1 DEF Aside, WinShape, WinFields
            <4> QED BY <2>0, <2>4, <3>1, <4>1, <4>2
        <3> QED BY <1>5, <2>7, <3>1 DEF ClearRename
    <2> QED BY <1>12, <2>5, <2>6, <2>7 DEF ClearStore
<1>13. CASE Bcdboot(i)
    <2>1. PICK x : win' = [win EXCEPT !.store["BCD"] = x]
        BY <1>13 DEF Bcdboot
    <2>2. win'.crowded = win.crowded
        BY <2>1, StoreFields
    <2>3. Repairing(i)
        BY <1>4, <1>13 DEF Bcdboot, Repairing
    <2> QED BY <1>3, <1>4, <1>13, <2>2, <2>3 DEF Bcdboot
<1>14. CASE \/ BootDrop(i) \/ HelloStop(i) \/ HelloRemove(i) \/ HelloStart(i)
            \/ AdminLive(i) \/ AdminLeftover(i) \/ AdminLoad(i) \/ AdminOpen(i)
            \/ AdminUse(i) \/ AdminUnload(i) \/ ToolPanics(i)
    <2>1. win'.store = win.store /\ win'.crowded = win.crowded
        BY <1>14, OtherTools DEF Aloof
    <2>2. PICK pc \in {"sent", "remove", "start", "load", "open", "use", "unload", "panicked"},
               res \in {"ok", "failed"} :
              To(i, pc) \/ Ends(i, pc, res)
        <3>1. CASE BootDrop(i) \/ HelloStop(i) \/ HelloRemove(i) \/ HelloStart(i)
            BY <3>1 DEF BootDrop, HelloStop, HelloRemove, HelloStart, Fails
        <3>2. CASE AdminLive(i) \/ AdminLeftover(i) \/ AdminLoad(i) \/ AdminOpen(i)
            BY <3>2 DEF AdminLive, AdminLeftover, AdminLoad, AdminOpen, AfterOpen, Fails
        <3>3. CASE AdminUse(i) \/ AdminUnload(i) \/ ToolPanics(i)
            BY <3>3 DEF AdminUse, AdminUnload, ToolPanics
        <3> QED BY <1>14, <3>1, <3>2, <3>3
    <2>3. pc \notin Mid /\ pc \notin After
        BY DEF Mid, Before, After
    <2> QED BY <1>3, <2>1, <2>2, <2>3
<1> QED BY <1>6, <1>7, <1>8, <1>9, <1>10, <1>11, <1>12, <1>13, <1>14 DEF ToolStep, Stores

\* What the property asks of a step.
Rebuilds ==
    \A i \in Starts :
        /\ worker[i].kind = "boot" /\ worker[i].res # "ok" /\ worker'[i].res = "ok"
        /\ i \notin win.crowded
        => win'.store = [BCD |-> "fresh", LOG |-> "none"]

\* The only step of a repair that makes it a success is bcdboot's.
LEMMA SuccessIsBcdboot ==
    ASSUME HistoryInv, NEW i \in Starts, ToolStep(i) \/ ToolPanics(i), worker[i].kind = "boot",
           worker[i].res # "ok", worker'[i].res = "ok"
    PROVE  /\ Bcdboot(i)
           /\ win' = [win EXCEPT !.store["BCD"] = IF @ = "none" THEN "fresh" ELSE "merged"]
<1> DEFINE w == worker[i]
<1>0. DOMAIN worker = Starts /\ DOMAIN w = WorkerFields
    BY DEF HistoryInv, AllHonest, Honest
<1>1. ASSUME NEW pc, To(i, pc) PROVE FALSE
    <2> DEFINE x == [w EXCEPT !.pc = pc]
    <2>1. worker'[i] = x
        BY <1>0, <1>1 DEF To
    <2>2. x.res = w.res
        BY <1>0, PcFields
    <2> QED BY <2>1, <2>2
<1>2. ASSUME NEW pc, Ends(i, pc, "failed") PROVE FALSE
    <2> DEFINE x == [w EXCEPT !.pc = pc, !.res = "failed"]
    <2>1. worker'[i] = x
        BY <1>0, <1>2 DEF Ends
    <2>2. x.res = "failed"
        BY <1>0, PcResFields
    <2> QED BY <2>1, <2>2
<1> USE DEF Tool, Fails
<1>3. ~Detect(i) /\ ~BootLetter(i) /\ ~BootActive(i)
    BY <1>1, <1>2 DEF Detect, BootLetter, BootActive
<1>4. ~BootSysLetter(i) /\ ~Bootsect(i) /\ ~BootDrop(i) /\ ~ToolPanics(i)
    BY <1>1, <1>2 DEF BootSysLetter, Bootsect, BootDrop, ToolPanics
<1>5. \A n \in Stores : ~ClearStore(i, n)
    BY <1>1, <1>2 DEF ClearStore, ClearLook, ClearUnlink, ClearRename
<1>6. ~HelloStop(i) /\ ~HelloRemove(i) /\ ~HelloStart(i)
    BY DEF HelloStop, HelloRemove, HelloStart
<1>7. ~AdminLive(i) /\ ~AdminLeftover(i) /\ ~AdminLoad(i) /\ ~AdminOpen(i) /\ ~AdminUse(i)
      /\ ~AdminUnload(i)
    BY DEF AdminLive, AdminLeftover, AdminLoad, AdminOpen, AdminUse, AdminUnload
<1>8. Bcdboot(i)
    BY <1>3, <1>4, <1>5, <1>6, <1>7 DEF ToolStep
<1> QED BY <1>2, <1>8 DEF Bcdboot

\* A repair that met no other finds both the store and its log gone when bcdboot is done.
LEMMA ToolSucceeds ==
    ASSUME HistoryInv, WinShape, RebuildInv, NEW k \in Starts, ToolStep(k) \/ ToolPanics(k)
    PROVE  Rebuilds
<1> SUFFICES ASSUME NEW i \in Starts, worker[i].kind = "boot", worker[i].res # "ok",
                    worker'[i].res = "ok", i \notin win.crowded
             PROVE  win'.store = [BCD |-> "fresh", LOG |-> "none"]
    BY DEF Rebuilds
<1>1. WorkerShape
    BY DEF WorkerShape, HistoryInv, AllHonest, Honest, WorkerFields
<1>2. \A j \in Starts \ {k} : worker'[j] = worker[j]
    BY <1>1, ToFields, EndsFields, ToolForm
<1>3. i = k
    BY <1>2
<1>4. Bcdboot(i) /\ win' = [win EXCEPT !.store["BCD"] = IF @ = "none" THEN "fresh" ELSE "merged"]
    BY <1>3, SuccessIsBcdboot
<1>5. Bcd = "none" /\ win.store["LOG"] = "none"
    BY <1>4 DEF Bcdboot, Tool, RebuildInv, Alone, Repairing, Mid, After
<1>6. win' = [win EXCEPT !.store["BCD"] = "fresh"]
    BY <1>4, <1>5 DEF Bcd
<1>7. win'.store = [win.store EXCEPT !["BCD"] = "fresh"]
    BY <1>6 DEF WinShape, WinFields
<1>8. win'.store = [n \in Stores |-> IF n = "BCD" THEN "fresh" ELSE "none"]
    BY <1>5, <1>7 DEF WinShape, Stores
<1> QED BY <1>8 DEF Stores

\* The first start.
LEMMA BeginsClean == ASSUME Init PROVE UsedInOrder /\ LeftInv /\ RebuildInv
<1>1. /\ worker = [i \in Starts |-> NoWorker] /\ win.letters = [i \in Starts |-> {}]
      /\ win.service = "running" /\ win.hive = "out" /\ win.keys = {}
    BY DEF Init, JobsInit, InstallInit
<1>2. \A i \in Starts : worker[i].kind = "none" /\ worker[i].pc = "none"
    BY <1>1 DEF NoWorker
<1> QED BY <1>1, <1>2 DEF UsedInOrder, Used, Tools, LeftInv, LettersOwed, ServiceOwed, HiveOwed,
                          RebuildInv, Alone, Repairing

\* Every step of the application.
LEMMA ToolsStep ==
    ASSUME BootInv, HistoryInv, UsedInOrder, LeftInv, RebuildInv, [Next]_vars
    PROVE  LeftInv' /\ RebuildInv' /\ Rebuilds
<1>1. WorkerShape /\ WinShape
    BY DEF BootInv
<1>2. ASSUME AllSteady PROVE Rebuilds
    BY <1>2 DEF AllSteady, Steady, Rebuilds, Tools
<1>3. ASSUME NEW i \in Starts, Moves(i) PROVE LeftInv' /\ RebuildInv' /\ Rebuilds
    BY <1>1, <1>3, ToolHolds, ToolRebuilds, ToolSucceeds DEF Moves
<1>4. CASE AllSteady /\ win' = win /\ (app' = app \/ app = "down")
    BY <1>2, <1>4, SteadyHolds, SteadyRebuilds
<1>5. CASE AllSteady /\ ToolsKilled
    <2>1. win'.store = win.store /\ win'.crowded = win.crowded
        BY <1>1, <1>5, KillOnly DEF Aloof
    <2> QED BY <1>1, <1>2, <1>5, <2>1, KillHolds, SteadyRebuilds
<1>6. CASE Reads
    <2>1. AllSteady /\ win'.store = win.store /\ win'.crowded = win.crowded
        BY <1>1, <1>6, ReadsAloof, SameSteady DEF Aloof
    <2> QED BY <1>1, <1>2, <1>6, <2>1, ReadsHold, SteadyRebuilds
<1> QED BY <1>3, <1>4, <1>5, <1>6, WorkersMove

\* Hence of every run.
LEMMA ToolsInvHolds == Spec => [](UsedInOrder /\ LeftInv /\ RebuildInv)
<1>1. HistoryInv /\ UsedInOrder /\ [Next]_vars => UsedInOrder'
    BY OrderStep
<1>2. BootInv /\ HistoryInv /\ UsedInOrder /\ LeftInv /\ RebuildInv /\ [Next]_vars =>
          LeftInv' /\ RebuildInv'
    BY ToolsStep
<1>3. Init => UsedInOrder /\ LeftInv /\ RebuildInv
    BY BeginsClean
<1> QED BY <1>1, <1>2, <1>3, BootInvHolds, HistoryInvHolds, PTL DEF Spec

\* Whatever tools run one after another or at once, fail at whatever step, panic or are
\* killed, and however often the state of an Administrator is read meanwhile: whoever is to
\* give back a temporary drive letter, a stopped service or the loaded hive is at work.
THEOREM LeftTheorem == Spec => []NothingLeftBehind
<1>1. ASSUME LeftInv PROVE NothingLeftBehind
    <2>1. \A i \in Starts : win.letters[i] # {} => worker[i].kind = "boot" /\ Live(i)
        BY <1>1 DEF LeftInv, LettersOwed, HoldsLetter, Live, Mid, Before, After
    <2>2. win.service = "stopped" => \E i \in Starts : worker[i].kind = "hello" /\ Live(i)
        BY <1>1 DEF LeftInv, ServiceOwed, HoldsService, Live
    <2>3. win.hive = "in" => app \in {"open", "use", "unload"} \/ \E i \in Starts : AtHive(i)
        BY <1>1 DEF LeftInv, HiveOwed, Holding, AtHive
    <2> QED BY <2>1, <2>2, <2>3 DEF NothingLeftBehind
<1>2. LeftInv => NothingLeftBehind
    BY <1>1
<1> QED BY <1>2, ToolsInvHolds, PTL

\* On any machine: a boot repair that reports success, and did not run into another one,
\* has built its store from nothing and left no log of the old one beside it.
THEOREM RebuildTheorem == Spec => RepairRebuilds
<1>1. BootInv /\ HistoryInv /\ UsedInOrder /\ LeftInv /\ RebuildInv /\ [Next]_vars => [Rebuilds]_vars
    BY ToolsStep
<1>2. Rebuilds => \A i \in Starts :
          /\ worker[i].kind = "boot" /\ worker[i].res # "ok" /\ worker'[i].res = "ok"
          /\ i \notin win.crowded
          => win'.store = [BCD |-> "fresh", LOG |-> "none"]
    BY DEF Rebuilds
<1> QED BY <1>1, <1>2, ToolsInvHolds, BootInvHolds, HistoryInvHolds, PTL DEF Spec, RepairRebuilds

-----------------------------------------------------------------------------
(* The disk a guest sees. *)

\* A guest runs, is being booted, or the user is asked how to boot one.
Booting == vm.pc # "none" \/ \E d \in dialogs : d.kind = "boot"
\* Meanwhile nothing writes a backup, and nothing waits that would.
Quiet ==
    /\ Booting => /\ \A i \in Starts : ~Writing(i)
                  /\ \A d \in dialogs : d.kind # "overwrite"
    /\ \A d \in dialogs : d.kind = "boot" => d.paths[1] \in Paths
\* Sessions and overlays, by their fields; an overlay lies on its own session's image.
SessionsOk(f) == \A id \in DOMAIN f : DOMAIN f[id] = {"path", "state"} /\ f[id].path \in Paths
OverlaysOk(f) == \A id \in DOMAIN f : DOMAIN f[id] = {"base", "torn"} /\ f[id].base = id
Kept == SessionsOk(session) /\ OverlaysOk(overlay)
\* The boot thread: the file it was given still holds the image that it began with, what
\* it serves is that image, and its session and overlay are there when it needs them.
Boot ==
    /\ DOMAIN vm = {"pc", "path", "id", "serves", "resuming", "launches"}
    /\ vm.pc # "none" => vm.path \in Paths /\ Opens(vm.path) /\ file[vm.path].img = vm.id
    /\ vm.pc \in {"overlay", "mark", "launch", "run"} => vm.serves = vm.id
    /\ vm.pc \in {"serve", "overlay"} /\ vm.resuming => vm.id \in DOMAIN overlay
    /\ vm.pc \in {"mark", "launch", "run"} => vm.id \in DOMAIN overlay
    /\ vm.pc \in {"serve", "overlay", "mark", "launch", "run", "teardown"} => vm.id \in DOMAIN session
    /\ guest # -1 => vm.pc = "run" /\ guest = vm.id
GuestInv == Quiet /\ Kept /\ Boot

\* While no backup is written, a file that opens stays what it is.
LEMMA FileStays ==
    ASSUME HistoryInv, ClobberInv, [Next]_vars, \A i \in Starts : ~Writing(i)
    PROVE  \A p \in Paths : Opens(p) => file'[p] = file[p]
<1>1. ASSUME file' = file PROVE \A p \in Paths : Opens(p) => file'[p] = file[p]
    BY <1>1
<1>2. ASSUME NEW i \in Starts, WorkerStep(i) PROVE \A p \in Paths : Opens(p) => file'[p] = file[p]
    <2>1. ~BackupStart(i) /\ ~BackupCapture(i)
        BY DEF Writing, Begun, BackupStart, BackupCapture
    <2>2. CASE BackupCleanup(i)
        <3>1. CASE file' = [file EXCEPT ![worker[i].path] = NoFile] /\ Discards(i)
            BY <3>1 DEF Discards, HistoryInv, FilesTrue
        <3> QED BY <1>1, <2>2, <3>1 DEF BackupCleanup
    <2>3. CASE Verify(i) \/ OtherWork(i)
        BY <1>1, <2>3 DEF Verify, OtherWork, catalogVars
    <2> QED BY <1>2, <2>1, <2>2, <2>3 DEF WorkerStep
<1>3. ASSUME NEW i \in Starts, Works(i) \/ Dies(i) PROVE WorkerStep(i) \/ file' = file
    <2>1. CASE ToolStep(i) \/ ToolPanics(i)
        BY <2>1, ToolForm DEF ToolFrame, catalogVars
    <2>2. CASE WorkerPanics(i)
        BY <2>2 DEF WorkerPanics, catalogVars
    <2> QED BY <1>3, <2>1, <2>2 DEF Works, Dies
<1>4. CASE Polls \/ JobClick
    BY <1>1, <1>4 DEF Polls, JobClick, PollJob, TakeFollowUp, TakeNext, TakeLast, TakeError, CancelJob,
                      StartCompletedVerify, CloseResult, catalogVars
<1>5. CASE \/ \E paths \in user.outputs, deep \in user.deep : StartBackup(paths, deep)
           \/ ConfirmOverwrite \/ ConfirmDisk
           \/ \E p \in Paths : StartVerify(p)
           \/ \E t \in Tools : ConfirmTool(t)
    <2>1. file' = file
        BY <1>5 DEF StartBackup, ConfirmOverwrite, ConfirmDisk, StartVerify, ConfirmTool, TakeSlot,
                    LaunchQueue, OnlyUi, catalogVars
    <2> QED BY <1>1, <2>1
<1>6. CASE \/ StartClone \/ ValidationEnds \/ CancelDialog
           \/ \E p \in Paths : StartRestore(p)
           \/ \E t \in Tools : OpenTool(t)
           \/ StartBootRepair \/ StartResetHello \/ StartAdminToggle
    <2>1. OnlyUi
        BY <1>6 DEF StartClone, ValidationEnds, CancelDialog, StartRestore, OpenTool, StartBootRepair,
                    StartResetHello, StartAdminToggle, StartTool
    <2> QED BY <1>1, <2>1 DEF OnlyUi, catalogVars
<1>7. CASE \/ DeleteRecord \/ Refresh \/ MountClick \/ DriveUse
           \/ \E p \in Paths : Mount(p) \/ RequestVm(p)
           \/ AnswerBoot \/ SessionRow \/ VmWorks \/ CloseOrphan
    <2>1. file' = file
        BY <1>7 DEF DeleteRecord, Refresh, MountClick, DriveUse, Mount, RequestVm, AnswerBoot, RemoveRecord,
                    ReconcileKnown, SessionRow, VmWorks, CloseOrphan, NotMounts, NotVm
    <2> QED BY <1>1, <2>1
<1>8. CASE PressClose \/ RestartToUpdate \/ ConfirmClose \/ Crash
    <2>1. file' = file
        BY <1>8 DEF PressClose, RestartToUpdate, ConfirmClose, Crash, ProcessEnds, OnlyUi, catalogVars
    <2> QED BY <1>1, <2>1
<1>9. CASE Restart \/ Reads \/ UNCHANGED vars
    <2>1. file' = file
        BY <1>9 DEF Restart, Reads, LoadCatalog, vars, catalogVars
    <2> QED BY <1>1, <2>1
<1> QED BY <1>1, <1>2, <1>3, <1>4, <1>5, <1>6, <1>7, <1>8, <1>9 DEF Next

\* While a guest is booted no backup begins, nor is the user asked about one.
LEMMA StaysQuiet ==
    ASSUME HistoryInv, ClobberInv, UsedInOrder, GuestInv, [Next]_vars, Booting
    PROVE  \A i \in Starts : ~Writing(i)'
<1>1. ~Launches
    <2>1. ~StartLive
        BY DEF Booting, StartLive, PageLive, VmRunning, ModalOpen
    <2> QED BY <2>1 DEF GuestInv, Quiet, Launches
<1>2. \A i \in Starts : ~Writing(i)
    BY DEF GuestInv, Quiet
<1>3. ASSUME NEW i \in Starts, Moves(i) PROVE NoneBegins
    BY <1>3, ToolMoves DEF Moves
<1>4. ASSUME Reads PROVE NoneBegins
    BY <1>4, ReadsApart, SameSteady DEF jobVars
<1> QED BY <1>1, <1>2, <1>3, <1>4, WorkersMove DEF NoneBegins

\* Steps that leave the guests alone and ask nothing that matters to them.
LEMMA OtherGuest ==
    ASSUME HistoryInv, ClobberInv, UsedInOrder, GuestInv, [Next]_vars,
           UNCHANGED <<session, overlay, vm, guest>>,
           \A d \in dialogs' : d \in dialogs \/ d.kind \notin {"boot", "overwrite"}
    PROVE  GuestInv'
<1>1. Booting' => Booting
    BY DEF Booting
<1>2. Quiet'
    BY <1>1, StaysQuiet DEF GuestInv, Quiet
<1>3. Kept'
    BY DEF GuestInv, Kept
<1>4. vm.pc # "none" => vm.path \in Paths /\ Opens(vm.path)' /\ file'[vm.path].img = vm.id
    <2>1. ASSUME vm.pc # "none" PROVE \A i \in Starts : ~Writing(i)
        BY <2>1 DEF GuestInv, Quiet, Booting
    <2>2. ASSUME vm.pc # "none" PROVE file'[vm.path] = file[vm.path]
        BY <2>1, <2>2, FileStays DEF GuestInv, Boot
    <2> QED BY <2>2 DEF GuestInv, Boot, Opens
<1>5. Boot'
    BY <1>4 DEF GuestInv, Boot
<1> QED BY <1>2, <1>3, <1>5 DEF GuestInv

\* With no guest and no question about one only the sessions matter.
LEMMA NoGuest ==
    ASSUME Kept', vm'.pc = "none", DOMAIN vm' = DOMAIN NoVm, guest' = -1,
           \A d \in dialogs' : d.kind # "boot"
    PROVE  GuestInv'
<1>1. DOMAIN vm' = {"pc", "path", "id", "serves", "resuming", "launches"}
    BY DEF NoVm
<1>2. Boot'
    BY <1>1 DEF Boot
<1>3. Quiet'
    BY DEF Quiet, Booting
<1> QED BY <1>2, <1>3 DEF GuestInv

\* Functions with one entry more, one less, and an entry of another state.
LEMMA SessionsStayOk ==
    ASSUME NEW f, SessionsOk(f), NEW k
    PROVE  /\ SessionsOk(Without(f, k))
           /\ \A p \in Paths : \A s : SessionsOk(Put(f, k, [path |-> p, state |-> s]))
           /\ \A s : LET g == [f EXCEPT ![k].state = s] IN SessionsOk(g) /\ DOMAIN g = DOMAIN f
<1>1. SessionsOk(Without(f, k))
    BY DEF Without, SessionsOk
<1>2. ASSUME NEW p \in Paths, NEW s PROVE SessionsOk(Put(f, k, [path |-> p, state |-> s]))
    <2> DEFINE v == [path |-> p, state |-> s]
    <2>1. DOMAIN v = {"path", "state"} /\ v.path = p
        OBVIOUS
    <2> HIDE DEF v
    <2>2. ASSUME NEW x \in DOMAIN Put(f, k, v)
          PROVE  DOMAIN Put(f, k, v)[x] = {"path", "state"} /\ Put(f, k, v)[x].path \in Paths
        <3>1. x = k \/ (x # k /\ x \in DOMAIN f)
            BY <2>2 DEF Put
        <3>2. Put(f, k, v)[x] = IF x = k THEN v ELSE f[x]
            BY <2>2, <3>1 DEF Put
        <3> QED BY <2>1, <3>1, <3>2 DEF SessionsOk
    <2>3. SessionsOk(Put(f, k, v))
        BY <2>2 DEF SessionsOk
    <2> QED BY <2>3 DEF v
<1>3. ASSUME NEW s PROVE LET g == [f EXCEPT ![k].state = s] IN SessionsOk(g) /\ DOMAIN g = DOMAIN f
    <2> DEFINE g == [f EXCEPT ![k].state = s]
    <2>1. DOMAIN g = DOMAIN f /\ \A x \in DOMAIN f : DOMAIN g[x] = DOMAIN f[x] /\ g[x].path = f[x].path
        BY DEF SessionsOk
    <2> HIDE DEF g
    <2>2. SessionsOk(g) /\ DOMAIN g = DOMAIN f
        BY <2>1 DEF SessionsOk
    <2> QED BY <2>2 DEF g
<1> QED BY <1>1, <1>2, <1>3

\* So do overlays.
LEMMA OverlaysStayOk ==
    ASSUME NEW f, OverlaysOk(f), NEW k
    PROVE  /\ OverlaysOk(Without(f, k))
           /\ \A t : OverlaysOk(Put(f, k, [base |-> k, torn |-> t]))
           /\ \A t : OverlaysOk([f EXCEPT ![k].torn = t])
<1>1. OverlaysOk(Without(f, k))
    BY DEF Without, OverlaysOk
<1>2. ASSUME NEW t PROVE OverlaysOk(Put(f, k, [base |-> k, torn |-> t]))
    <2> DEFINE v == [base |-> k, torn |-> t]
    <2>1. DOMAIN v = {"base", "torn"} /\ v.base = k
        OBVIOUS
    <2> HIDE DEF v
    <2>2. ASSUME NEW x \in DOMAIN Put(f, k, v)
          PROVE  DOMAIN Put(f, k, v)[x] = {"base", "torn"} /\ Put(f, k, v)[x].base = x
        <3>1. x = k \/ (x # k /\ x \in DOMAIN f)
            BY <2>2 DEF Put
        <3>2. Put(f, k, v)[x] = IF x = k THEN v ELSE f[x]
            BY <2>2, <3>1 DEF Put
        <3> QED BY <2>1, <3>1, <3>2 DEF OverlaysOk
    <2>3. OverlaysOk(Put(f, k, v))
        BY <2>2 DEF OverlaysOk
    <2> QED BY <2>3 DEF v
<1>3. ASSUME NEW t PROVE OverlaysOk([f EXCEPT ![k].torn = t])
    <2> DEFINE g == [f EXCEPT ![k].torn = t]
    <2>1. DOMAIN g = DOMAIN f /\ \A x \in DOMAIN f : DOMAIN g[x] = DOMAIN f[x] /\ g[x].base = f[x].base
        BY DEF OverlaysOk
    <2> HIDE DEF g
    <2>2. OverlaysOk(g)
        BY <2>1 DEF OverlaysOk
    <2> QED BY <2>2 DEF g
<1> QED BY <1>1, <1>2, <1>3

\* A guest is about to be booted from the file at p.
LEMMA BootBegins ==
    ASSUME GuestInv, NEW p \in Paths, NEW fresh, StartVm(p, fresh), file' = file,
           \A i \in Starts : ~Writing(i)',
           \A d \in dialogs' : d.kind # "overwrite" /\ (d.kind = "boot" => d.paths[1] \in Paths)
    PROVE  GuestInv'
<1> DEFINE x == [NoVm EXCEPT !.pc = IF fresh THEN "openFresh" ELSE "open", !.path = p,
                             !.id = SessionOf(p)]
<1>1. vm' = x /\ Opens(p) /\ UNCHANGED <<session, overlay, guest>>
    BY DEF StartVm
<1>2. /\ DOMAIN x = {"pc", "path", "id", "serves", "resuming", "launches"}
      /\ x.pc \in {"openFresh", "open"} /\ x.path = p /\ x.id = file[p].img
    BY DEF NoVm, SessionOf
<1>3. guest = -1
    BY DEF StartVm, VmRunning, GuestInv, Boot
<1> HIDE DEF x
<1>4. Boot'
    BY <1>1, <1>2, <1>3 DEF Boot, Opens
<1>5. Kept'
    BY <1>1 DEF GuestInv, Kept
<1> QED BY <1>4, <1>5 DEF GuestInv, Quiet

\* The clicks that ask for a guest, and a session thrown away.
LEMMA AskedGuest ==
    ASSUME HistoryInv, ClobberInv, UsedInOrder, GuestInv, [Next]_vars,
           (\E p \in Paths : RequestVm(p)) \/ AnswerBoot \/ SessionRow
    PROVE  GuestInv'
<1>1. worker' = worker /\ file' = file
    BY DEF RequestVm, AnswerBoot, SessionRow, NotVm, jobVars
<1>2. (\A i \in Starts : ~Writing(i)) => \A i \in Starts : ~Writing(i)'
    BY <1>1 DEF Writing
<1>3. ASSUME NEW p \in Paths, RequestVm(p) PROVE GuestInv'
    <2>1. PageLive
        BY <1>3 DEF RequestVm, StartLive
    <2>2. dialogs = {} /\ \A i \in Starts : ~Writing(i)'
        BY <1>2, <2>1, PageIsFree
    <2>3. CASE StartVm(p, FALSE) /\ UNCHANGED dialogs
        BY <1>1, <2>2, <2>3, BootBegins
    <2>4. CASE dialogs' = {On("boot", p)} /\ UNCHANGED vmVars
        <3>1. \A d \in dialogs' : d.kind = "boot" /\ d.paths[1] = p
            BY <2>4 DEF On, Dialog
        <3>2. Quiet'
            BY <2>2, <3>1 DEF Quiet
        <3>3. vm.pc = "none"
            BY <2>1 DEF PageLive, VmRunning
        <3> QED BY <2>4, <3>2, <3>3 DEF GuestInv, Kept, Boot, vmVars
    <2> QED BY <1>3, <2>3, <2>4 DEF RequestVm
<1>4. CASE AnswerBoot
    <2>1. PICK d \in dialogs :
              /\ d.kind = "boot" /\ Close(d)
              /\ \/ \E fresh : StartVm(d.paths[1], fresh)
                 \/ \E id \in Listed : StartVm(session[id].path, FALSE)
        BY <1>4 DEF AnswerBoot
    <2>2. d.paths[1] \in Paths /\ \A i \in Starts : ~Writing(i)'
        BY <1>2, <2>1 DEF GuestInv, Quiet, Booting
    <2>3. \A id \in Listed : session[id].path \in Paths
        BY DEF Listed, GuestInv, Kept, SessionsOk
    <2>4. \A e \in dialogs' : e.kind # "overwrite" /\ (e.kind = "boot" => e.paths[1] \in Paths)
        BY <2>1 DEF Close, GuestInv, Quiet, Booting
    <2>5. PICK p \in Paths : \E fresh : StartVm(p, fresh)
        BY <2>1, <2>2, <2>3
    <2> QED BY <1>1, <2>2, <2>4, <2>5, BootBegins
<1>5. CASE SessionRow
    <2>1. PageLive /\ UNCHANGED dialogs
        BY <1>5 DEF SessionRow
    <2>2. dialogs' = {} /\ \A i \in Starts : ~Writing(i)'
        BY <1>2, <2>1, PageIsFree
    <2>3. PICK id \in Listed :
              StartVm(session[id].path, FALSE) \/ DiscardSession(session[id].path)
        BY <1>5 DEF SessionRow
    <2>4. session[id].path \in Paths
        BY DEF Listed, GuestInv, Kept, SessionsOk
    <2>5. CASE StartVm(session[id].path, FALSE)
        BY <1>1, <2>2, <2>4, <2>5, BootBegins
    <2>6. CASE DiscardSession(session[id].path)
        <3> DEFINE k == SessionOf(session[id].path)
        <3>1. /\ vm' = vm /\ guest' = guest
              /\ session' \in {session, Without(session, k)}
              /\ overlay' \in {overlay, Without(overlay, k)}
            BY <2>6 DEF DiscardSession
        <3> HIDE DEF k
        <3>2. Kept'
            BY <3>1, SessionsStayOk, OverlaysStayOk DEF GuestInv, Kept
        <3>3. vm.pc = "none" /\ guest = -1
            BY <2>1 DEF PageLive, VmRunning, GuestInv, Boot
        <3>4. DOMAIN vm = DOMAIN NoVm
            BY DEF GuestInv, Boot, NoVm
        <3> QED BY <2>2, <3>1, <3>2, <3>3, <3>4, NoGuest
    <2> QED BY <2>3, <2>5, <2>6
<1> QED BY <1>3, <1>4, <1>5

\* The boot thread and the guest take a step.
LEMMA GuestWorks ==
    ASSUME HistoryInv, ClobberInv, UsedInOrder, GuestInv, [Next]_vars, VmWorks
    PROVE  GuestInv'
<1>1. file' = file /\ UNCHANGED dialogs /\ vm.pc # "none"
    BY DEF VmWorks, NotVm, VmThread, OpenSession, ServeBackup, MakeOverlay, MarkBooting, Launch,
           Teardown, GuestEnds, PollVm
<1>2. Quiet'
    <2>1. Booting /\ \A i \in Starts : ~Writing(i)'
        BY <1>1, StaysQuiet DEF Booting
    <2> QED BY <1>1, <2>1 DEF GuestInv, Quiet
<1>3. vm.path \in Paths /\ file'[vm.path].whole /\ file'[vm.path].img = vm.id
    BY <1>1 DEF GuestInv, Boot, Opens
<1> USE DEF GuestInv, Boot, Kept, Opens
\* The guest does not run yet, or no more.
<1>4. ASSUME NEW pc, vm' = [vm EXCEPT !.pc = pc, !.serves = -1], pc \in {"done"}, guest' = guest, guest = -1
      PROVE  Boot'
    BY <1>3, <1>4
<1>5. vm.pc # "run" => guest = -1
    BY DEF Boot
<1>6. CASE OpenSession
    <2> DEFINE id == vm.id
               kept == IF vm.pc = "openFresh" THEN Without(overlay, id) ELSE overlay
    <2>1. guest' = guest /\ guest = -1
        BY <1>5, <1>6 DEF OpenSession
    <2>2. CASE VmFails /\ UNCHANGED <<session, overlay>>
        BY <1>2, <1>4, <2>1, <2>2 DEF VmFails
    <2>3. CASE /\ session' = IF HasSession(id) THEN session
                             ELSE Put(session, id, [path |-> vm.path, state |-> "clean"])
               /\ overlay' = kept
               /\ vm' = [vm EXCEPT !.pc = "serve", !.resuming = id \in DOMAIN kept]
        <3>1. Kept'
            BY <1>3, <2>3, SessionsStayOk, OverlaysStayOk
        <3>2. id \in DOMAIN session'
            BY <2>3 DEF HasSession, Put
        <3>3. Boot'
            BY <1>3, <2>1, <2>3, <3>2
        <3> QED BY <1>2, <3>1, <3>3
    <2> QED BY <1>6, <2>2, <2>3 DEF OpenSession
<1>7. CASE ServeBackup
    <2>1. guest' = guest /\ guest = -1 /\ UNCHANGED <<session, overlay>>
        BY <1>5, <1>7 DEF ServeBackup
    <2>2. CASE VmFails
        BY <1>2, <1>4, <2>1, <2>2 DEF VmFails
    <2>3. CASE vm' = [vm EXCEPT !.pc = "overlay", !.serves = file[vm.path].img]
        <3>1. file[vm.path].img = vm.id /\ vm.pc = "serve"
            BY <1>1, <1>3, <1>7 DEF ServeBackup
        <3>2. Boot'
            BY <1>3, <2>1, <2>3, <3>1
        <3> QED BY <1>2, <2>1, <3>2
    <2> QED BY <1>7, <2>2, <2>3 DEF ServeBackup
<1>8. CASE MakeOverlay
    <2>1. guest' = guest /\ guest = -1 /\ UNCHANGED session /\ vm.pc = "overlay"
        BY <1>5, <1>8 DEF MakeOverlay
    <2>2. CASE VmFails /\ UNCHANGED overlay
        BY <1>2, <1>4, <2>1, <2>2 DEF VmFails
    <2>3. CASE /\ VmTo("mark")
               /\ overlay' = IF vm.resuming THEN overlay
                             ELSE Put(overlay, vm.id, [base |-> vm.serves, torn |-> FALSE])
        <3>0. vm.serves = vm.id
            BY <2>1
        <3>a. vm.id \in DOMAIN overlay'
            BY <2>1, <2>3 DEF Put
        <3>1. Kept' /\ vm.id \in DOMAIN overlay'
            BY <2>1, <2>3, <3>0, <3>a, OverlaysStayOk
        <3>2. Boot'
            BY <1>3, <2>1, <2>3, <3>1 DEF VmTo
        <3> QED BY <1>2, <3>1, <3>2
    <2> QED BY <1>8, <2>2, <2>3 DEF MakeOverlay
<1>9. ASSUME NEW x, session' = [session EXCEPT ![vm.id].state = x], overlay' = overlay
      PROVE  Kept' /\ DOMAIN session' = DOMAIN session
    BY <1>9, SessionsStayOk
<1>10. CASE MarkBooting
    <2>1. guest' = guest /\ guest = -1 /\ UNCHANGED overlay /\ vm.pc = "mark"
        BY <1>5, <1>10 DEF MarkBooting
    <2>2. CASE VmFails /\ UNCHANGED session
        BY <1>2, <1>4, <2>1, <2>2 DEF VmFails
    <2>3. CASE session' = [session EXCEPT ![vm.id].state = "dirty"] /\ VmTo("launch")
        <3>1. Kept' /\ DOMAIN session' = DOMAIN session
            BY <1>9, <2>1, <2>3
        <3>2. Boot'
            BY <1>3, <2>1, <2>3, <3>1 DEF VmTo
        <3> QED BY <1>2, <3>1, <3>2
    <2> QED BY <1>10, <2>2, <2>3 DEF MarkBooting
<1>11. CASE Launch
    <2>1. UNCHANGED <<session, overlay>> /\ guest = -1 /\ vm.pc = "launch"
        BY <1>5, <1>11 DEF Launch
    <2>2. CASE VmFails /\ UNCHANGED guest
        BY <1>2, <1>4, <2>1, <2>2 DEF VmFails
    <2>3. CASE guest' = vm.id /\ vm' = [vm EXCEPT !.pc = "run", !.launches = @ + 1]
        <3>1. Boot'
            BY <1>3, <2>1, <2>3
        <3> QED BY <1>2, <2>1, <3>1
    <2>4. CASE VmTo("teardown") /\ UNCHANGED guest
        <3>1. Boot'
            BY <1>3, <2>1, <2>4 DEF VmTo
        <3> QED BY <1>2, <2>1, <3>1
    <2> QED BY <1>11, <2>2, <2>3, <2>4 DEF Launch
<1>12. CASE GuestEnds
    <2>1. UNCHANGED <<session, overlay>> /\ guest' = -1 /\ vm.pc = "run"
        BY <1>12 DEF GuestEnds
    <2>2. PICK pc \in {"teardown", "launch"} : VmTo(pc)
        BY <1>12 DEF GuestEnds
    <2>3. Boot'
        BY <1>3, <2>1, <2>2 DEF VmTo
    <2> QED BY <1>2, <2>1, <2>3
<1>13. CASE Teardown
    <2>1. /\ guest' = guest /\ guest = -1 /\ UNCHANGED overlay
          /\ vm' = [vm EXCEPT !.pc = "done", !.serves = -1]
          /\ session' \in {session, [session EXCEPT ![vm.id].state = "clean"]}
        BY <1>5, <1>13 DEF Teardown
    <2>2. Kept'
        BY <1>9, <2>1
    <2> QED BY <1>2, <1>4, <2>1, <2>2
<1>14. CASE PollVm
    <2>1. guest = -1 /\ UNCHANGED <<session, overlay, guest>> /\ vm' = NoVm
        BY <1>5, <1>14 DEF PollVm
    <2>2. Boot'
        BY <2>1 DEF NoVm
    <2> QED BY <1>2, <2>1, <2>2
<1> QED BY <1>6, <1>7, <1>8, <1>10, <1>11, <1>12, <1>13, <1>14 DEF VmWorks, VmThread

\* The process goes, and leaves the guest behind or not.
LEMMA GuestLeft ==
    ASSUME GuestInv, NEW how, NEW delete, NEW off, ProcessEnds(how, delete, off)
    PROVE  GuestInv'
<1>1. dialogs' = {} /\ VmDies(off)
    BY DEF ProcessEnds
<1>2. guest' = -1 /\ vm' = NoVm
    BY <1>1 DEF VmDies
<1>3. PICK left : /\ left # -1 => left = guest
                  /\ \/ overlay' = overlay
                     \/ left # -1 /\ overlay' = [overlay EXCEPT ![left].torn = TRUE]
    BY <1>1 DEF VmDies
<1>4. OverlaysOk(overlay')
    BY <1>3, OverlaysStayOk DEF GuestInv, Kept
<1>5. SessionsOk(session')
    BY <1>1, SessionsStayOk DEF VmDies, GuestInv, Kept
<1> QED BY <1>1, <1>2, <1>4, <1>5, NoGuest DEF Kept, NoVm

\* Every step of the application.
LEMMA GuestStep ==
    ASSUME HistoryInv, ClobberInv, UsedInOrder, GuestInv, [Next]_vars
    PROVE  GuestInv'
<1>1. ASSUME NEW i \in Starts, Works(i) \/ Dies(i) PROVE GuestInv'
    <2>1. UNCHANGED <<session, overlay, vm, guest, dialogs>>
        BY <1>1 DEF Works, Dies, NotJobs, NotTools, vmVars, uiVars
    <2> QED BY <2>1, OtherGuest
<1>2. CASE Polls \/ JobClick
    <2>1. UNCHANGED <<session, overlay, vm, guest, dialogs>>
        BY <1>2 DEF Polls, JobClick, NotJobs, vmVars, uiVars
    <2> QED BY <2>1, OtherGuest
<1>3. ASSUME NEW paths \in user.outputs, NEW deep, StartBackup(paths, deep) PROVE GuestInv'
    <2>1. PageLive /\ UNCHANGED <<session, overlay, vm, guest>>
        BY <1>3 DEF StartBackup, StartLive, LaunchQueue, OnlyUi, vmVars
    <2>2. dialogs = {}
        BY <2>1, PageIsFree
    <2>3. \A d \in dialogs' : d.kind # "boot"
        BY <1>3, <2>2 DEF StartBackup, Dialog
    <2>4. vm.pc = "none" /\ guest = -1 /\ DOMAIN vm = DOMAIN NoVm
        BY <2>1 DEF PageLive, VmRunning, GuestInv, Boot, NoVm
    <2> QED BY <2>1, <2>3, <2>4, NoGuest DEF GuestInv, Kept
<1>4. CASE \/ ConfirmOverwrite \/ ConfirmDisk
           \/ \E p \in Paths : StartVerify(p)
           \/ \E t \in Tools : ConfirmTool(t)
    <2>1. UNCHANGED <<session, overlay, vm, guest>> /\ dialogs' \subseteq dialogs
        BY <1>4 DEF ConfirmOverwrite, ConfirmDisk, StartVerify, ConfirmTool, TakeSlot, LaunchQueue, Close, vmVars
    <2> QED BY <2>1, OtherGuest
<1>5. CASE \/ StartClone \/ ValidationEnds \/ CancelDialog
           \/ \E p \in Paths : StartRestore(p)
           \/ \E t \in Tools : OpenTool(t)
    <2>1. /\ OnlyUi
          /\ \/ dialogs' \subseteq dialogs
             \/ \E p : dialogs' = dialogs \cup {On("restore", p)}
             \/ \E t : dialogs' = {Picker(t)}
             \/ dialogs' = {Dialog("clone")}
        BY <1>5 DEF StartClone, ValidationEnds, CancelDialog, StartRestore, OpenTool, Close
    <2>2. \A d \in dialogs' : d \in dialogs \/ d.kind \notin {"boot", "overwrite"}
        BY <2>1 DEF On, Picker, Dialog
    <2> QED BY <2>1, <2>2, OtherGuest DEF OnlyUi, vmVars
<1>6. CASE StartBootRepair \/ StartResetHello \/ StartAdminToggle
    <2>1. PICK t, b : StartTool(t, b)
        BY <1>6 DEF StartBootRepair, StartResetHello, StartAdminToggle
    <2>2. \A d \in dialogs' : d \in dialogs \/ d.kind \notin {"boot", "overwrite"}
        BY <2>1 DEF StartTool, Confirmation, Dialog
    <2> QED BY <2>1, <2>2, OtherGuest DEF StartTool, OnlyUi, vmVars
<1>7. CASE \/ DeleteRecord \/ Refresh \/ MountClick \/ DriveUse
           \/ \E p \in Paths : Mount(p)
           \/ CloseOrphan
    <2>1. UNCHANGED <<session, overlay, vm, guest, dialogs>>
        BY <1>7 DEF DeleteRecord, Refresh, MountClick, DriveUse, Mount, CloseOrphan, OrphanEnds, NotCatalog,
                    NotMounts, vmVars
    <2> QED BY <2>1, OtherGuest
<1>8. CASE PressClose \/ RestartToUpdate \/ ConfirmClose \/ Crash
    <2>1. CASE dialogs' = dialogs \cup {CloseDialog} /\ OnlyUi
        <3>1. \A d \in dialogs' : d \in dialogs \/ d.kind \notin {"boot", "overwrite"}
            BY <2>1 DEF CloseDialog, Dialog
        <3> QED BY <2>1, <3>1, OtherGuest DEF OnlyUi, vmVars
    <2> QED BY <1>8, <2>1, GuestLeft DEF PressClose, RestartToUpdate, ConfirmClose, Crash
<1>9. CASE Restart \/ Reads \/ UNCHANGED vars
    <2>1. UNCHANGED <<session, overlay, vm, guest, dialogs>>
        BY <1>9 DEF Restart, Reads, vars, vmVars, uiVars
    <2> QED BY <2>1, OtherGuest
<1> QED BY <1>1, <1>2, <1>3, <1>4, <1>5, <1>6, <1>7, <1>8, <1>9, AskedGuest, GuestWorks DEF Next

\* The first start.
LEMMA StartsWithoutGuest == ASSUME Init PROVE GuestInv
<1>1. /\ session = <<>> /\ overlay = <<>> /\ vm = NoVm /\ guest = -1 /\ dialogs = {}
    BY DEF Init, VmInit
<1>2. Quiet
    BY <1>1 DEF Quiet, Booting, NoVm
<1>3. Kept
    BY <1>1 DEF Kept, SessionsOk, OverlaysOk
<1>4. Boot
    BY <1>1 DEF Boot, NoVm
<1> QED BY <1>2, <1>3, <1>4 DEF GuestInv

\* Hence of every run.
LEMMA ClobberInvHolds == Spec => []ClobberInv
<1>1. Init => ClobberInv
    BY StartsFree
<1>2. HistoryInv /\ ClobberInv /\ [Next]_vars => ClobberInv'
    BY ClobberStep
<1> QED BY <1>1, <1>2, HistoryInvHolds, PTL DEF Spec

\* Whatever backups replace whatever files, however guests end, sessions are kept, resumed
\* and thrown away, and the application is killed: the overlay under a running guest lies
\* on the very image that is served to it.
THEOREM GuestTheorem == Spec => []GuestSeesItsBase
<1>1. Init => GuestInv
    BY StartsWithoutGuest
<1>2. HistoryInv /\ ClobberInv /\ UsedInOrder /\ GuestInv /\ [Next]_vars => GuestInv'
    BY GuestStep
<1>3. GuestInv => GuestSeesItsBase
    BY DEF GuestInv, Kept, OverlaysOk, Boot, GuestSeesItsBase
<1> QED BY <1>1, <1>2, <1>3, HistoryInvHolds, ClobberInvHolds, ToolsInvHolds, PTL DEF Spec

-----------------------------------------------------------------------------
(* Drives that can be written to. *)

\* What the property asks of a step.
Discarded ==
    \A p \in Paths : mount'[p].mode = "rw" /\ mount'[p] # mount[p] =>
        /\ child'[mount'[p].img] = "fresh"
        /\ \A q \in Paths \ {p} : mount'[q] # mount'[p]
\* A writable drive has its child, and has it for itself; without the process none is there.
DriveRecords ==
    /\ DOMAIN mount = Paths
    /\ \A p \in Paths : mount[p] = [mode |-> mount[p].mode, img |-> mount[p].img]
ChildrenThere == \A p \in Paths : mount[p].mode = "rw" => mount[p].img \in DOMAIN child
Unshared == \A p, q \in Paths : p # q /\ mount[p].mode = "rw" => mount[q] # mount[p]
DrivesGone == app = "down" => \A p \in Paths : mount[p] = NoMount
DriveInv == DriveRecords /\ ChildrenThere /\ Unshared /\ DrivesGone
MountStep == DriveInv' /\ Discarded

\* The drives stay, and so do the children of those that can be written to.
LEMMA DrivesStay ==
    ASSUME DriveInv, mount' = mount, DOMAIN child \subseteq DOMAIN child', app' = app \/ app' # "down"
    PROVE  MountStep
<1>1. DriveRecords' /\ ChildrenThere' /\ Unshared' /\ DrivesGone'
    BY DEF DriveInv, DriveRecords, ChildrenThere, Unshared, DrivesGone
<1> QED BY <1>1 DEF DriveInv, MountStep, Discarded

\* No drive is left.
LEMMA NoDrives ==
    ASSUME DOMAIN mount' = Paths, \A p \in Paths : mount'[p] = NoMount
    PROVE  MountStep
<1>1. NoMount = [mode |-> "no", img |-> -1] /\ NoMount.mode = "no" /\ NoMount.img = -1
    BY DEF NoMount
<1> HIDE DEF NoMount
<1>2. DriveRecords' /\ ChildrenThere' /\ Unshared' /\ DrivesGone'
    BY <1>1 DEF DriveRecords, ChildrenThere, Unshared, DrivesGone
<1> QED BY <1>1, <1>2 DEF DriveInv, MountStep, Discarded

\* One drive comes, goes, or becomes read-only; the children of the others stay.
LEMMA OneDrive ==
    ASSUME DriveInv, app = "up", app' = app, NEW p \in Paths, NEW mode, NEW img, mode # "rw",
           mount' = [mount EXCEPT ![p] = [mode |-> mode, img |-> img]],
           \A q \in Paths \ {p} : mount[q].mode = "rw" => mount[q].img \in DOMAIN child'
    PROVE  MountStep
<1> DEFINE v == [mode |-> mode, img |-> img]
<1>1. DOMAIN mount' = Paths /\ mount'[p] = v /\ \A q \in Paths \ {p} : mount'[q] = mount[q]
    BY DEF DriveInv, DriveRecords
<1>2. v.mode = mode /\ v.img = img /\ v = [mode |-> v.mode, img |-> v.img]
    OBVIOUS
<1> HIDE DEF v
<1>3. DriveRecords'
    BY <1>1, <1>2 DEF DriveInv, DriveRecords
<1>4. ChildrenThere'
    BY <1>1, <1>2 DEF ChildrenThere
<1>5. Unshared'
    BY <1>1, <1>2 DEF DriveInv, Unshared
<1>6. DrivesGone'
    BY DEF DrivesGone
<1>7. Discarded
    BY <1>1, <1>2 DEF Discarded
<1> QED BY <1>3, <1>4, <1>5, <1>6, <1>7 DEF DriveInv, MountStep

\* What is left of the children when one was removed, and created: it was not there, hence
\* it is nobody's.
LEMMA ChildCreated ==
    ASSUME DriveInv, NEW id
    PROVE  /\ \A files \in Unlinked(id) : \A q \in Paths :
                  mount[q].mode = "rw" => mount[q].img \in DOMAIN files
           /\ \A files \in WithChild(id) :
                  /\ files[id] = "fresh" /\ id \in DOMAIN files
                  /\ \A q \in Paths : mount[q].mode = "rw" =>
                         mount[q].img # id /\ mount[q].img \in DOMAIN files
<1>0. ASSUME NEW q \in Paths, mount[q].mode = "rw", mount[q].img = id
      PROVE  OnChild(id) # {} /\ id \in DOMAIN child
    <2>1. mount[q] = [mode |-> "rw", img |-> id]
        BY <1>0 DEF DriveInv, DriveRecords
    <2> QED BY <1>0, <2>1 DEF OnChild, DriveInv, ChildrenThere
<1>1. ASSUME NEW files \in Unlinked(id), NEW q \in Paths, mount[q].mode = "rw"
      PROVE  mount[q].img \in DOMAIN files
    <2>1. mount[q].img \in DOMAIN child
        BY <1>1 DEF DriveInv, ChildrenThere
    <2>2. files = child \/ (OnChild(id) = {} /\ files = NoChild(id))
        BY <1>1 DEF Unlinked
    <2> QED BY <1>0, <1>1, <2>1, <2>2 DEF NoChild
<1>2. ASSUME NEW files \in WithChild(id)
      PROVE  /\ files[id] = "fresh" /\ id \in DOMAIN files
             /\ \A q \in Paths : mount[q].mode = "rw" =>
                    mount[q].img # id /\ mount[q].img \in DOMAIN files
    <2>1. PICK before \in Unlinked(id) : files \in Created(id, before)
        BY <1>2 DEF WithChild
    <2>2. id \notin DOMAIN before /\ files = Put(before, id, "fresh")
        BY <2>1 DEF Created
    <2>3. files[id] = "fresh" /\ DOMAIN files = DOMAIN before \cup {id}
        BY <2>2 DEF Put
    <2>4. \A q \in Paths : mount[q].mode = "rw" => mount[q].img \in DOMAIN before
        BY <1>1, <2>1
    <2> QED BY <2>2, <2>3, <2>4
<1> QED BY <1>1, <1>2

\* The first start.
LEMMA NoDrivesAtFirst == ASSUME Init PROVE DriveInv
<1>1. DOMAIN mount = Paths /\ \A p \in Paths : mount[p] = NoMount
    BY DEF Init, MountsInit
<1>2. NoMount = [mode |-> "no", img |-> -1] /\ NoMount.mode = "no" /\ NoMount.img = -1
    BY DEF NoMount
<1> HIDE DEF NoMount
<1> QED BY <1>1, <1>2 DEF DriveInv, DriveRecords, ChildrenThere, Unshared, DrivesGone

\* The clicks on mounts.
LEMMA ClicksMount ==
    ASSUME DriveInv, app = "up", app' = app, NEW p \in Paths,
           StartMount(p) \/ PerformEnableWrite(p) \/ Unmount(p)
    PROVE  MountStep
<1> DEFINE id == file[p].img
<1>0. \A q \in Paths : mount[q].mode = "rw" => mount[q].img \in DOMAIN child
    BY DEF DriveInv, ChildrenThere
<1>1. CASE StartMount(p)
    <2>1. child' = child /\ mount' = As(p, "ro")
        BY <1>1 DEF StartMount
    <2> QED BY <1>0, <2>1, OneDrive DEF As
<1>2. CASE Unmount(p)
    <2>1. mount' = [mount EXCEPT ![p] = NoMount]
        BY <1>2 DEF Unmount
    <2>2. child' = child \/ (mount[p].mode = "rw" /\ child' = NoChild(mount[p].img))
        BY <1>2 DEF Unmount
    <2>3. ASSUME NEW q \in Paths \ {p}, mount[q].mode = "rw" PROVE mount[q].img \in DOMAIN child'
        <3>1. mount[p].mode = "rw" => mount[q].img # mount[p].img
            BY <2>3 DEF DriveInv, Unshared, DriveRecords
        <3> QED BY <1>0, <2>2, <2>3, <3>1 DEF NoChild
    <2> QED BY <2>1, <2>3, OneDrive DEF NoMount
<1>3. CASE PerformEnableWrite(p)
    <2>0. mount[p].mode = "ro"
        BY <1>3 DEF PerformEnableWrite
    <2>1. CASE mount' = As(p, "rw") /\ child' \in WithChild(id)
        <3> DEFINE v == [mode |-> "rw", img |-> id]
        <3>1. DOMAIN mount' = Paths /\ mount'[p] = v /\ \A q \in Paths \ {p} : mount'[q] = mount[q]
            BY <2>1 DEF As, DriveInv, DriveRecords
        <3>2. v.mode = "rw" /\ v.img = id
            OBVIOUS
        <3>a. v = [mode |-> v.mode, img |-> v.img]
            OBVIOUS
        <3> HIDE DEF v
        <3>3. /\ child'[id] = "fresh" /\ id \in DOMAIN child'
              /\ \A q \in Paths : mount[q].mode = "rw" =>
                     mount[q].img # id /\ mount[q].img \in DOMAIN child'
            BY <2>1, ChildCreated
        <3>4. \A q \in Paths \ {p} : mount'[q] # v
            BY <3>1, <3>2, <3>3
        <3>5. DriveRecords'
            BY <3>1, <3>a DEF DriveInv, DriveRecords
        <3>6. ChildrenThere'
            BY <3>1, <3>2, <3>3 DEF ChildrenThere
        <3>7. Unshared'
            BY <3>1, <3>2, <3>4 DEF DriveInv, Unshared
        <3>8. DrivesGone'
            BY DEF DrivesGone
        <3>9. Discarded
            BY <3>1, <3>2, <3>3, <3>4 DEF Discarded
        <3> QED BY <3>5, <3>6, <3>7, <3>8, <3>9 DEF DriveInv, MountStep
    <2>2. CASE /\ child' \in {child} \cup Unlinked(id) \cup WithChild(id)
               /\ mount' = As(p, "ro") \/ mount' = [mount EXCEPT ![p] = NoMount]
        <3>1. \A q \in Paths : mount[q].mode = "rw" => mount[q].img \in DOMAIN child'
            BY <1>0, <2>2, ChildCreated
        <3> QED BY <2>2, <3>1, OneDrive DEF As, NoMount
    <2> QED BY <1>3, <2>1, <2>2 DEF PerformEnableWrite
<1> QED BY <1>1, <1>2, <1>3

\* Every step of the application.
LEMMA EveryMountStep == ASSUME DriveInv, [Next]_vars PROVE MountStep
<1>1. ASSUME UNCHANGED <<mount, child>>, app' = app \/ app' # "down" PROVE MountStep
    BY <1>1, DrivesStay
<1>2. CASE \/ \E i \in Starts : Works(i) \/ Dies(i)
           \/ Polls \/ JobClick
    BY <1>1, <1>2 DEF Works, Dies, Polls, JobClick, NotJobs, NotTools, mountVars, uiVars
<1>3. CASE \/ \E paths \in user.outputs, deep \in user.deep : StartBackup(paths, deep)
           \/ ConfirmOverwrite \/ ConfirmDisk
           \/ \E p \in Paths : StartVerify(p)
           \/ \E t \in Tools : ConfirmTool(t)
    <2>1. UNCHANGED <<mount, child>> /\ app' = app
        BY <1>3 DEF StartBackup, ConfirmOverwrite, ConfirmDisk, StartVerify, ConfirmTool, TakeSlot,
                    LaunchQueue, OnlyUi, Intends, UiRest, mountVars
    <2> QED BY <1>1, <2>1
<1>4. CASE \/ StartClone \/ ValidationEnds \/ CancelDialog
           \/ \E p \in Paths : StartRestore(p)
           \/ \E t \in Tools : OpenTool(t)
           \/ StartBootRepair \/ StartResetHello \/ StartAdminToggle
    <2>1. OnlyUi /\ app' = app
        BY <1>4 DEF StartClone, ValidationEnds, CancelDialog, StartRestore, OpenTool, StartBootRepair,
                    StartResetHello, StartAdminToggle, StartTool, Intends, UiRest
    <2> QED BY <1>1, <2>1 DEF OnlyUi, mountVars
<1>5. CASE \/ DeleteRecord \/ Refresh
           \/ \E p \in Paths : RequestVm(p)
           \/ AnswerBoot \/ SessionRow \/ VmWorks \/ CloseOrphan
    <2>1. UNCHANGED <<mount, child>> /\ app' = app
        BY <1>5 DEF DeleteRecord, Refresh, RequestVm, AnswerBoot, SessionRow, VmWorks, CloseOrphan,
                    NotCatalog, NotVm, Intends, UiRest, mountVars
    <2> QED BY <1>1, <2>1
<1>6. CASE \E p \in Paths : Mount(p)
    BY <1>6, ClicksMount DEF Mount, StartLive, PageLive, Intends, UiRest
<1>7. CASE MountClick
    BY <1>7, ClicksMount DEF MountClick, StartLive, PageLive, UiRest
<1>8. CASE DriveUse
    <2>1. PICK p \in Paths : mount' = mount /\ child' = Put(child, mount[p].img, "written")
        BY <1>8 DEF DriveUse, WriteDrive
    <2>2. DOMAIN child \subseteq DOMAIN child' /\ app' = app
        BY <1>8, <2>1 DEF Put, DriveUse, UiRest
    <2> QED BY <2>1, <2>2, DrivesStay
<1>9. CASE PressClose \/ RestartToUpdate \/ ConfirmClose \/ Crash
    <2>1. CASE OnlyUi /\ UiRest
        BY <1>1, <2>1 DEF OnlyUi, UiRest, mountVars
    <2>2. ASSUME NEW how, NEW delete, NEW off, ProcessEnds(how, delete, off) PROVE MountStep
        BY <2>2, NoDrives DEF ProcessEnds, AllUnmounted
    <2> QED BY <1>9, <2>1, <2>2 DEF PressClose, RestartToUpdate, ConfirmClose, Crash
<1>10. CASE Restart
    <2>1. mount' = mount /\ app = "down"
        BY <1>10 DEF Restart, SweepChildren
    <2>2. DOMAIN mount' = Paths /\ \A p \in Paths : mount'[p] = NoMount
        BY <2>1 DEF DriveInv, DriveRecords, DrivesGone
    <2> QED BY <2>2, NoDrives
<1>11. CASE Reads
    <2>1. UNCHANGED <<mount, child>> /\ app' # "down"
        BY <1>11 DEF Reads, ReadAdmin, ReadStep, AfterOpen, mountVars
    <2> QED BY <1>1, <2>1
<1>12. CASE UNCHANGED vars
    BY <1>1, <1>12 DEF vars, mountVars, uiVars
<1> QED BY <1>2, <1>3, <1>4, <1>5, <1>6, <1>7, <1>8, <1>9, <1>10, <1>11, <1>12 DEF Next

\* Whatever was written to earlier mounts, whichever removal of a child or making of a new
\* one failed, and through crashes and restarts: a drive that becomes writable starts from
\* a new child, which is no other drive's.
THEOREM DiscardTheorem == Spec => WritesAreDiscarded
<1>1. Init => DriveInv
    BY NoDrivesAtFirst
<1>2. DriveInv /\ [Next]_vars => DriveInv' /\ [Discarded]_vars
    BY EveryMountStep DEF MountStep
<1>3. Discarded => \A p \in Paths : mount'[p].mode = "rw" /\ mount'[p] # mount[p] =>
           /\ child'[mount'[p].img] = "fresh"
           /\ \A q \in Paths \ {p} : mount'[q] # mount'[p]
    BY DEF Discarded
<1> QED BY <1>1, <1>2, <1>3, PTL DEF Spec, WritesAreDiscarded
=============================================================================
