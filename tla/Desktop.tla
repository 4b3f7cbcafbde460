-------------------------------- MODULE Desktop --------------------------------
(* The GUI process (main.rs): which click is live when, the dialogs that park what
   it asked for, closing, dying and starting again.  Pages are inert while a modal
   is up (modal_open) and while a VM runs; the Start buttons and most pages also
   while the app is busy.  Those two are not the same, and the dialogs that start
   a job look at neither. *)
EXTENDS WindowsTools, Mounts, VmSessions

\* Of a user: the features used, the backups that are there, whether new ones are to be
\* verified, the files of one backup run (one per disk, in disk order), the clicks that
\* begin something, the kind of Windows on the machine.
CONSTANTS Users, MaxExits     \* MaxExits: times the process ends, however
\* suffix_path names each file of a run by the index of its disk.
ASSUME UsersAssumption ==
    \A u \in Users :
        /\ u.files \subseteq Paths
        /\ \A paths \in u.outputs :
              /\ paths \in Seq(Paths)
              /\ \A a, b \in DOMAIN paths : paths[a] = paths[b] => a = b

VARIABLES dialogs,     \* the pending_* dialogs and active_utility on screen
          validating,  \* path of restore_validation, "none" if there is none
          app,         \* "up" | "down" | which call its thread is in, of those that
                       \* read the state of an Administrator (ReadAdmin)
          bye,         \* how the process ended: "no" | "closed" | "crashed"
          user, intents, exits

uiVars == <<dialogs, validating, app, bye, user, intents, exits>>
vars == <<catalogVars, jobVars, win, mountVars, vmVars, uiVars>>

Dialog(kind) == [kind |-> kind, paths |-> <<>>, deep |-> FALSE, tool |-> "none"]
On(kind, p) == [Dialog(kind) EXCEPT !.paths = <<p>>]
\* The pick of a tool, and its confirmation.
Picker(t) == [Dialog("pick") EXCEPT !.tool = t]
Confirmation(t, enable) == [Dialog("confirm") EXCEPT !.tool = t, !.deep = enable]
CloseDialog == Dialog("close")
Close(d) == dialogs' = dialogs \ {d}

Init ==
    /\ user \in Users /\ win = InstallInit(user.on) /\ failing = user.failing
    /\ CatalogInit(user.files) /\ JobsInit /\ MountsInit /\ VmInit
    /\ dialogs = {} /\ validating = "none" /\ app = "up" /\ bye = "no"
    /\ intents = 0 /\ exits = 0

Busy == slot # 0 \/ queue # <<>> \/ validating # "none"
ModalOpen == slot # 0 \/ completed # NoResult \/ dialogs # {}
\* A page other than Virtualize takes clicks; its Start button is live, too.
PageLive == app = "up" /\ ~ModalOpen /\ ~VmRunning
StartLive == PageLive /\ ~Busy

\* The frames: what a click leaves alone.
UiRest == UNCHANGED <<app, bye, user, exits>>
OnlyUi == UNCHANGED <<catalogVars, jobVars, win, mountVars, vmVars>>
Intends(feature) ==
    /\ feature \in user.uses /\ intents < user.clicks
    /\ intents' = intents + 1
    /\ UiRest

--------------------------------------------------------------------------------
(* Jobs *)

Room(n) == Unused # {} /\ NextStart + n - 1 \in Starts
\* launch_backup_queue: the first disk starts, the others wait.
LaunchQueue(paths, deep, asked) ==
    LET first == NextStart
        job(i) == [Worker("backup", paths[i - first + 1], deep,
                          IF i = first THEN "start" ELSE "queued") EXCEPT !.asked = asked]
        last == first + Len(paths) - 1
    IN  /\ Room(Len(paths))
        /\ worker' = [i \in Starts |-> IF i \in first .. last THEN job(i) ELSE worker[i]]
        /\ slot' = first
        /\ queue' = [j \in 1 .. Len(paths) - 1 |-> first + j]
        /\ multi' = (Len(paths) > 1)
        /\ completed' = NoResult
        /\ UNCHANGED <<catalogVars, win, mountVars, vmVars>>

StartBackup(paths, deep) ==
    /\ StartLive /\ Room(Len(paths)) /\ Intends("backup")
    /\ \/ /\ \A i \in DOMAIN paths : ~Exists(paths[i])
          /\ LaunchQueue(paths, deep, FALSE)
          /\ UNCHANGED dialogs
       \/ /\ \E i \in DOMAIN paths : Exists(paths[i])
          /\ dialogs' = {[Dialog("overwrite") EXCEPT !.paths = paths, !.deep = deep]}
          /\ OnlyUi
    /\ UNCHANGED validating

ConfirmOverwrite ==
    \E d \in dialogs :
        /\ d.kind = "overwrite" /\ app = "up"
        /\ Close(d)
        /\ LaunchQueue(d.paths, d.deep, TRUE)
        /\ UNCHANGED <<validating, intents>> /\ UiRest

\* A worker takes the place of whatever App::job and App::completed held.
TakeSlot(w) ==
    /\ Room(1)
    /\ worker' = [worker EXCEPT ![NextStart] = w]
    /\ slot' = NextStart
    /\ completed' = NoResult
    /\ UNCHANGED <<catalogVars, queue, multi, win, mountVars, vmVars>>

\* The shield of a row: start_verify_path.  The row's file may be gone.
StartVerify(p) ==
    /\ StartLive /\ p \in known /\ Exists(p) /\ Intends("verify")
    /\ TakeSlot(Worker("verify", p, TRUE, "verify"))
    /\ UNCHANGED <<dialogs, validating>>

\* start_restore: the plan is checked by a thread, no modal is up meanwhile.
StartRestore(p) ==
    /\ StartLive /\ p \in known /\ Opens(p) /\ Room(1) /\ Intends("restore")
    /\ validating' = p
    /\ OnlyUi /\ UNCHANGED dialogs

\* poll_restore_validation: a dialog, or why not.
ValidationEnds ==
    /\ app = "up" /\ validating # "none"
    /\ validating' = "none"
    /\ \/ Opens(validating) /\ dialogs' = dialogs \cup {On("restore", validating)}
       \/ UNCHANGED dialogs
    /\ OnlyUi /\ UNCHANGED intents /\ UiRest

StartClone ==
    /\ StartLive /\ Room(1) /\ Intends("clone")
    /\ dialogs' = {Dialog("clone")}
    /\ OnlyUi /\ UNCHANGED validating

ConfirmDisk ==
    \E d \in dialogs :
        /\ d.kind \in {"restore", "clone"} /\ app = "up"
        /\ Close(d)
        /\ TakeSlot(Worker(d.kind, IF d.paths = <<>> THEN "none" ELSE d.paths[1],
                           FALSE, "work"))
        /\ UNCHANGED <<validating, intents>> /\ UiRest

\* Utilities: a card opens its picker, the picker's button its confirmation.
OpenTool(t) ==
    /\ PageLive /\ Room(1) /\ Intends(t)
    /\ dialogs' = {Picker(t)}
    /\ OnlyUi /\ UNCHANGED validating
StartTool(t, enable) ==
    /\ app = "up" /\ Picker(t) \in dialogs
    /\ dialogs' = (dialogs \ {Picker(t)}) \cup {Confirmation(t, enable)}
    /\ OnlyUi /\ UNCHANGED <<validating, intents>> /\ UiRest
\* Of the installations that plan_boot_repair accepts.
StartBootRepair == StartTool("boot", FALSE)
\* plan_reset refuses a volume without a letter.
StartResetHello == Lettered /\ StartTool("hello", FALSE)
\* The opposite of the state on the screen, which may be that of an earlier read.
StartAdminToggle ==
    Reachable("admin") /\ \E enable \in BOOLEAN : StartTool("admin", enable)
\* query_state_offline, whenever the picker has no state to show: the thread of the
\* window does nothing else until it returns.
ReadAdmin ==
    /\ app = "up" /\ Picker("admin") \in dialogs
    /\ Lettered /\ ~win.inst.live
    /\ app' = "leftover" /\ UNCHANGED win
ReadStep ==
    \/ app = "leftover" /\ UnloadLeftover /\ app' = "load"
    \/ app = "load" /\ LoadHive /\ app' = "open"
    \/ app = "open" /\ OpenKey(0) /\ app' = AfterOpen(TRUE)
    \/ app = "open" /\ UNCHANGED win /\ app' = AfterOpen(FALSE)
    \/ app = "use" /\ win' = [win EXCEPT !.keys = @ \ {0}] /\ app' = "unload"
    \/ app = "unload" /\ UnloadHive /\ app' = "up"
    \/ app \in {"leftover", "load"} /\ UNCHANGED win /\ app' = "up"
Reads == /\ ReadAdmin \/ ReadStep
         /\ UNCHANGED <<catalogVars, jobVars, mountVars, vmVars, dialogs, validating, bye,
                        user, intents, exits>>
ConfirmTool(t) ==
    \E d \in dialogs :
        /\ d \in {Confirmation(t, b) : b \in BOOLEAN} /\ app = "up"
        /\ Close(d)
        /\ TakeSlot(Worker(t, "none", d.deep, "detect"))
        /\ UNCHANGED <<validating, intents>> /\ UiRest

\* Cancel or "Keep Open" on any of them.
CancelDialog ==
    /\ app = "up"
    /\ \E d \in dialogs : Close(d)
    /\ OnlyUi /\ UNCHANGED <<validating, intents>> /\ UiRest

NotJobs == UNCHANGED <<win, mountVars, vmVars, uiVars>>
NotTools == UNCHANGED <<mountVars, vmVars, uiVars>>
Works(i) == \/ WorkerStep(i) /\ NotJobs
            \/ ToolStep(i) /\ NotTools
Polls == app = "up" /\ PollJob /\ NotJobs
Dies(i) == \/ WorkerPanics(i) /\ NotJobs
           \/ ToolPanics(i) /\ NotTools
JobClick == app = "up" /\ (CancelJob \/ StartCompletedVerify \/ CloseResult) /\ NotJobs

--------------------------------------------------------------------------------
(* The catalog, mounts, virtual machines *)

NotCatalog == UNCHANGED <<jobVars, win, mountVars, vmVars, dialogs, validating>>
\* The pending_history_delete dialog: nothing can happen under it.
DeleteRecord ==
    /\ StartLive /\ Intends("history")
    /\ \E k \in DOMAIN history : RemoveRecord(k)
    /\ NotCatalog
Refresh == StartLive /\ Intends("refresh") /\ ReconcileKnown /\ NotCatalog

NotMounts == UNCHANGED <<file, sound, written, history, jobVars, win, vmVars,
                         dialogs, validating>>
ListStays == UNCHANGED <<known, saved, failing>>
Mount(p) == StartLive /\ Intends("mount") /\ StartMount(p) /\ Remember(p)
            /\ NotMounts
\* The pending_enable_write dialog: nothing can happen under it, either.
MountClick ==
    /\ StartLive
    /\ \E p \in Paths : PerformEnableWrite(p) \/ Unmount(p)
    /\ NotMounts /\ ListStays /\ UNCHANGED intents /\ UiRest
DriveUse == /\ \E p \in Paths : WriteDrive(p)
            /\ NotMounts /\ ListStays /\ UNCHANGED intents /\ UiRest

NotVm == UNCHANGED <<file, sound, written, history, jobVars, win, mountVars, validating>>
\* request_start_vm: at once, or after the question what to do with the saved sessions.
RequestVm(p) ==
    /\ StartLive /\ Opens(p) /\ Intends("vm")
    /\ IF Listed = {} THEN StartVm(p, FALSE) /\ UNCHANGED dialogs
       ELSE dialogs' = {On("boot", p)} /\ ListStays /\ UNCHANGED vmVars
    /\ NotVm
\* The answer.  For a file that no longer opens start_vm declines: that is a cancel.
AnswerBoot ==
    \E d \in dialogs :
        /\ d.kind = "boot" /\ app = "up"
        /\ Close(d)
        /\ \/ StartVm(d.paths[1], \E id \in Listed : session[id].path = d.paths[1])
           \/ \E id \in Listed : Listed = {id} /\ StartVm(session[id].path, FALSE)
        /\ NotVm /\ UNCHANGED intents /\ UiRest
\* The rows of the saved sessions, live whatever the app is busy with.
SessionRow ==
    /\ PageLive /\ Intends("vm")
    /\ \E id \in Listed : \/ StartVm(session[id].path, FALSE)
                          \/ DiscardSession(session[id].path) /\ ListStays
    /\ NotVm /\ UNCHANGED dialogs
VmWorks == /\ \/ app # "down" /\ (VmThread \/ GuestEnds)
              \/ app = "up" /\ PollVm
           /\ NotVm /\ ListStays /\ UNCHANGED <<dialogs, intents>> /\ UiRest
CloseOrphan == OrphanEnds /\ NotVm /\ ListStays /\ UNCHANGED <<dialogs, intents>> /\ UiRest

--------------------------------------------------------------------------------
(* The process *)

WillHold == AnythingMounted \/ VmRunning

\* The process goes, and every thread with it, wherever it is.
ProcessEnds(how, delete, poweredOff) ==
    /\ exits < MaxExits /\ exits' = exits + 1
    /\ app' = "down" /\ bye' = how
    /\ worker' = [i \in Starts |-> IF Live(i) \/ worker[i].pc = "queued"
                                   THEN Over(i, "killed") ELSE Over(i, worker[i].pc)]
    /\ slot' = 0 /\ queue' = <<>> /\ multi' = FALSE /\ completed' = NoResult
    /\ dialogs' = {} /\ validating' = "none"
    /\ AllUnmounted(delete)
    /\ VmDies(poweredOff)
    /\ ToolsKilled
    /\ UNCHANGED <<catalogVars, user, intents>>

\* CloseRequested, from the X: held for the dialog once, when something would go.
PressClose ==
    /\ app = "up" /\ "close" \in user.uses
    /\ IF WillHold /\ CloseDialog \notin dialogs
       THEN /\ intents < user.clicks /\ intents' = intents + 1
            /\ dialogs' = dialogs \cup {CloseDialog}
            /\ OnlyUi /\ UNCHANGED validating /\ UiRest
       ELSE ProcessEnds("closed", TRUE, FALSE)
\* "Restart to update": ViewportCommand::Close, which is never held.
RestartToUpdate ==
    /\ app = "up" /\ "close" \in user.uses /\ ~ModalOpen
    /\ ProcessEnds("closed", TRUE, FALSE)
\* "Power Off & Close"; a dialog that has nothing left to warn about closes, too.
ConfirmClose ==
    /\ app = "up" /\ CloseDialog \in dialogs
    /\ \E off \in {PortKnown, FALSE} : ProcessEnds("closed", TRUE, off)
\* Ended from outside.
Crash == app # "down" /\ "kill" \in user.uses /\ ProcessEnds("crashed", FALSE, FALSE)

\* main and App::new.
Restart ==
    /\ app = "down"
    /\ LoadCatalog /\ SweepChildren
    /\ app' = "up" /\ bye' = "no"
    /\ UNCHANGED <<jobVars, win, vmVars, dialogs, validating, user, intents, exits>>

Next ==
    \/ \E paths \in user.outputs, deep \in user.deep : StartBackup(paths, deep)
    \/ ConfirmOverwrite \/ StartClone \/ ConfirmDisk \/ ValidationEnds \/ CancelDialog
    \/ \E p \in Paths : StartVerify(p) \/ StartRestore(p) \/ Mount(p) \/ RequestVm(p)
    \/ \E t \in Tools : OpenTool(t) \/ ConfirmTool(t)
    \/ StartBootRepair \/ StartResetHello \/ StartAdminToggle \/ Reads
    \/ \E i \in Starts : Works(i) \/ Dies(i)
    \/ Polls \/ JobClick \/ DeleteRecord \/ Refresh \/ MountClick \/ DriveUse
    \/ AnswerBoot \/ SessionRow \/ VmWorks \/ CloseOrphan
    \/ PressClose \/ RestartToUpdate \/ ConfirmClose \/ Crash \/ Restart

Spec == Init /\ [][Next]_vars
\* Threads are scheduled, calls of Windows return, and the window paints while a job
\* runs, polling first in every frame; nobody has to click.
FairSpec == /\ Spec
            /\ \A i \in Starts : WF_vars(Works(i))
            /\ WF_vars(ReadStep /\ Reads)
            /\ SF_vars(Polls)

--------------------------------------------------------------------------------
\* A finalized backup is touched by one thing only: the start of a backup job the
\* user agreed should replace it.  Neither a cancelled or failing job, whenever the
\* cancel arrives, nor a kill, takes an image that was complete.
NothingClobbered ==
    [][\A p \in Paths : Opens(p) /\ file'[p] # file[p] =>
           file'[p].img \in {i \in Starts : worker[i].asked} /\ ~file'[p].whole]_vars

\* What the history claims is true: an image recorded as verified is as captured, one
\* recorded as backed up was finalized.  Records outlive queues, cancels, restarts.
RecordsAreTrue ==
    \A k \in DOMAIN history :
        history[k].outcome = "ok" =>
            /\ history[k].kind = "verify" => history[k].img \in sound
            /\ history[k].kind = "backup" => history[k].img \in written

\* A job that was started is over one day, whichever way its thread went: the modal
\* that blocks the window cannot stay for ever.
JobsEnd == slot # 0 ~> slot = 0

\* While no repair runs into another, a boot repair never leaves a machine without a
\* boot store, not even when the process dies in it: the store or the one set aside is
\* there; after one repair, the old one.
WayBack ==
    win.crowded = {} =>
        /\ win.store["BCD"] # "none" \/ win.bak["BCD"] # "none"
        /\ win.repairs <= 1 => "old" \in {win.store["BCD"], win.bak["BCD"]}

\* What the comment on clear_existing_bcd promises of every repair: a way back.
BakIsLeft == win.store["BCD"] # "none" \/ win.bak["BCD"] # "none"

\* A repair that reports success built its store from nothing, and no log of the old
\* one is left to be replayed over it - unless another repair ran at the same time.
RepairRebuilds ==
    [][\A i \in Starts :
           /\ worker[i].kind = "boot" /\ worker[i].res # "ok" /\ worker'[i].res = "ok"
           /\ i \notin win.crowded
           => win'.store = [BCD |-> "fresh", LOG |-> "none"]]_vars

\* No tool ends owing something, whatever others do to the same machine meanwhile: a
\* temporary letter, a stopped service and a loaded hive have somebody at work who will
\* give them back, unless Windows refused that or the thread was cut off ("left").  Of
\* several users of the hive it is the last one with a key that must get to unload it.
NothingLeftBehind ==
    /\ \A i \in Starts : win.letters[i] # {} => worker[i].kind = "boot" /\ Live(i)
    /\ win.service = "stopped" => \E i \in Starts : worker[i].kind = "hello" /\ Live(i)
    /\ win.hive = "in" => \/ app \in {"open", "use", "unload"}
                          \/ \E i \in Starts : AtHive(i)

\* The overlay under a running guest lies on the very image that is served to it, also
\* when the backup at that path is another one than when the session was made.
GuestSeesItsBase == guest # -1 => overlay[guest].base = vm.serves

\* A drive that becomes writable shows the backup, and what is written to it no other
\* drive shows: its child holds no write of an earlier mount, not of one whose clean-up
\* failed, not of one before a crash, and is not the child of a mounted copy.
WritesAreDiscarded ==
    [][\A p \in Paths : mount'[p].mode = "rw" /\ mount'[p] # mount[p] =>
           /\ child'[mount'[p].img] = "fresh"
           /\ \A q \in Paths \ {p} : mount'[q] # mount'[p]]_vars

\* No guest is left running when the application was closed in the ordinary way.
NoOrphanGuest == bye = "closed" => orphans = {}
=============================================================================
