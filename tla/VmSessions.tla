----------------------------- MODULE VmSessions -----------------------------
(* Booting a backup in QEMU (phoenix-vm).  A session is a directory named by the
   backup's id that keeps an overlay with the guest's writes; the backup is served
   by a helper process while the guest runs.  One thread boots (boot.rs) and the
   GUI waits for its answer (App::vm_run). *)
EXTENDS Catalog

CONSTANT MaxLaunches     \* MAX_RELAUNCHES
ASSUME VmAssumption == MaxLaunches \in Nat

VARIABLES session,  \* id -> session.json: the backup's path, "clean" | "dirty" | "torn"
          overlay,  \* id -> the image under the overlay, and whether a crash tore it
          vm,       \* the boot thread and App::vm_run
          guest,    \* the session of the QEMU the thread waits for, -1 = none runs
          orphans,  \* sessions of QEMUs whose application is gone
          port      \* ids whose qmp.port is there
vmVars == <<session, overlay, vm, guest, orphans, port>>

NoVm == [pc |-> "none", path |-> "none", id |-> -1, serves |-> -1, resuming |-> FALSE,
         launches |-> 0]
VmInit == /\ session = << >> /\ overlay = << >> /\ port = {}
          /\ vm = NoVm /\ guest = -1 /\ orphans = {}
VmRunning == vm.pc # "none"
HasSession(id) == id \in DOMAIN session
\* list_all_sessions skips what it cannot parse.
Listed == {id \in DOMAIN session : session[id].state # "torn"}
Without(f, id) == [k \in DOMAIN f \ {id} |-> f[k]]
\* Mutant: sessions are not told apart by the image their backup holds.
SessionOfPath(p) == 0
\* The key of a session: the backup_id in the header of the file.
SessionOf(p) == file[p].img

--------------------------------------------------------------------------------
\* start_vm: the file must open; leftovers of dead helpers are swept; the thread runs.
StartVm(p, fresh) ==
    /\ ~VmRunning /\ Opens(p)
    /\ Remember(p)
    /\ vm' = [NoVm EXCEPT !.pc = IF fresh THEN "openFresh" ELSE "open", !.path = p,
                          !.id = SessionOf(p)]
    /\ UNCHANGED <<session, overlay, guest, orphans, port>>

VmFails == vm' = [vm EXCEPT !.pc = "done", !.serves = -1]
VmTo(pc) == vm' = [vm EXCEPT !.pc = pc]

\* SessionManager::open_or_create: an unreadable session.json is an error; a fresh
\* boot throws the overlay away.
OpenSession ==
    /\ vm.pc \in {"open", "openFresh"}
    /\ LET id == vm.id
           kept == IF vm.pc = "openFresh" THEN Without(overlay, id) ELSE overlay
       IN  \/ /\ HasSession(id) /\ id \notin Listed /\ VmFails
              /\ UNCHANGED <<session, overlay>>
           \/ /\ HasSession(id) => id \in Listed
              /\ session' = IF HasSession(id) THEN session
                             ELSE Put(session, id, [path |-> vm.path, state |-> "clean"])
              /\ overlay' = kept
              /\ vm' = [vm EXCEPT !.pc = "serve", !.resuming = id \in DOMAIN kept]
    /\ UNCHANGED <<guest, orphans, port>>

\* spawn_serve: the helper opens the file itself and reports READY, or does not.
ServeBackup ==
    /\ vm.pc = "serve"
    /\ \/ VmFails
       \/ /\ Opens(vm.path)
          /\ vm' = [vm EXCEPT !.pc = "overlay", !.serves = file[vm.path].img]
    /\ UNCHANGED <<session, overlay, guest, orphans, port>>

\* Firmware and overlay: a new one over the served image, unless one is resumed.
MakeOverlay ==
    /\ vm.pc = "overlay"
    /\ \/ VmFails /\ UNCHANGED overlay
       \/ /\ VmTo("mark")
          /\ overlay' = IF vm.resuming THEN overlay
                        ELSE Put(overlay, vm.id, [base |-> vm.serves, torn |-> FALSE])
    /\ UNCHANGED <<session, guest, orphans, port>>

\* mark_booting, then qmp.port (an error of which is ignored), then the launch.
MarkBooting ==
    /\ vm.pc = "mark"
    /\ \/ VmFails /\ UNCHANGED <<session, port>>
       \/ /\ session' = [session EXCEPT ![vm.id].state = "dirty"]
          /\ VmTo("launch")
          /\ port' \in {port, port \cup {vm.id}}
    /\ UNCHANGED <<overlay, guest, orphans>>

\* QEMU starts, or cannot be spawned (the thread leaves by `?`, the port file stays),
\* or ends at once because another process holds the overlay.
Launch ==
    /\ vm.pc = "launch"
    /\ \/ VmFails /\ UNCHANGED guest
       \/ /\ vm.id \notin orphans
          /\ guest' = vm.id
          /\ vm' = [vm EXCEPT !.pc = "run", !.launches = @ + 1]
       \/ vm.id \in orphans /\ VmTo("teardown") /\ UNCHANGED guest
    /\ UNCHANGED <<session, overlay, orphans, port>>

\* The guest ends: shut down, stopped, crashed.  A reset that WHPX cannot do ends
\* QEMU too (the watchdog sees to it): it is launched again, some times.
GuestEnds ==
    /\ vm.pc = "run"
    /\ guest' = -1
    /\ VmTo("teardown") \/ (vm.launches < MaxLaunches /\ VmTo("launch"))
    /\ UNCHANGED <<session, overlay, orphans, port>>

\* Teardown, however the guest ended: the helper is stopped, the port file removed,
\* the session marked clean (or not: an error of the save is returned).
Teardown ==
    /\ vm.pc = "teardown"
    /\ vm' = [vm EXCEPT !.pc = "done", !.serves = -1]
    /\ port' = port \ {vm.id}
    /\ session' \in {session, [session EXCEPT ![vm.id].state = "clean"]}
    /\ UNCHANGED <<overlay, guest, orphans>>

\* ui_virtualize takes the answer of the thread.
PollVm ==
    /\ vm.pc = "done"
    /\ vm' = NoVm
    /\ UNCHANGED <<session, overlay, guest, orphans, port>>

VmThread == OpenSession \/ ServeBackup \/ MakeOverlay \/ MarkBooting \/ Launch \/ Teardown

\* running_vm_qmp_port: the file of the session that the backup's path names now.
PortKnown == VmRunning /\ Opens(vm.path) /\ file[vm.path].img \in port

\* SessionManager::discard of the session whose backup the row's path opens as now: the
\* directory goes, or only some of it.
DiscardSession(p) ==
    /\ Opens(p) /\ HasSession(SessionOf(p))
    /\ \/ /\ session' = Without(session, SessionOf(p))
          /\ overlay' \in {overlay, Without(overlay, SessionOf(p))}
          /\ port' = port \ {SessionOf(p)}
       \/ UNCHANGED <<session, port>> /\ overlay' = Without(overlay, SessionOf(p))
    /\ UNCHANGED <<vm, guest, orphans>>

--------------------------------------------------------------------------------
\* power_off_vm_now: QMP quit, if the port is found.  The process goes: the helper
\* goes with it (its stdin is closed), a QEMU that was not told to quit does not.  Its
\* last write may be torn, and so may be a session.json that was being rewritten.
VmDies(poweredOff) ==
    LET left == IF poweredOff THEN -1 ELSE guest IN
    /\ guest' = -1
    /\ orphans' = orphans \cup ({left} \ {-1})
    /\ vm' = NoVm
    /\ overlay' \in {overlay} \cup
           (IF left # -1 THEN {[overlay EXCEPT ![left].torn = TRUE]} ELSE {})
    /\ session' \in {session} \cup
           (IF vm.pc \in {"mark", "teardown"} THEN {[session EXCEPT ![vm.id].state = "torn"]} ELSE {})
    /\ UNCHANGED port
\* The user closes a QEMU window that was left behind.
OrphanEnds ==
    \E id \in orphans :
        /\ orphans' = orphans \ {id}
        /\ UNCHANGED <<session, overlay, vm, guest, port>>
=============================================================================
