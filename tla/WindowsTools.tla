---------------------------- MODULE WindowsTools ----------------------------
(* The three tools for an installed Windows, run by worker threads: rebuild its
   boot files (bootrepair.rs), reset Windows Hello (winhello.rs), switch the
   built-in Administrator (winadmin.rs).  Each step is one call of Windows that
   may fail, and the thread may die between any two. *)
EXTENDS Jobs

VARIABLE win        \* the installation and the machine around it

\* `inst` tells of what kind it is: live, uefi, lettered (its volume has a drive
\* letter).  `store` is the boot directory, `bak` the .bak files beside it.  `letters`
\* are the temporary ones each worker has to take back, `stuck` those that stay for
\* good; of `hive` and `service` that is "left".  `keys`: who has a key of the hive open.
\* Ghosts: the repairs begun, and those that ran into another one.
Stores == {"BCD", "LOG"}
InstallInit(inst) ==
    [inst |-> inst, store |-> [n \in Stores |-> "old"], bak |-> [n \in Stores |-> "none"],
     letters |-> [i \in Starts |-> {}], stuck |-> {}, active |-> inst.uefi,
     service |-> "running", ngc |-> TRUE, hive |-> "out", keys |-> {}, admin |-> FALSE,
     repairs |-> 0, crowded |-> {}]

Tool(i, kind, pc) == worker[i].kind = kind /\ worker[i].pc = pc
ToolFrame == UNCHANGED <<catalogVars, slot, queue, multi, completed>>
Fails(i, pc) == Ends(i, pc, "failed") /\ UNCHANGED win

\* What goes by path needs a drive letter, be it the temporary one of a repair; a boot
\* repair assigns one, and the Administrator of the running system is reached without.
Lettered == \/ win.inst.lettered \/ "src" \in win.stuck
            \/ \E i \in Starts : "src" \in win.letters[i]
Reachable(t) == Lettered \/ t = "boot" \/ (t = "admin" /\ win.inst.live)
\* The worker finds the installation again by its indices; it may be gone.
Detect(i) ==
    /\ worker[i].kind \in Tools /\ worker[i].pc = "detect"
    /\ \/ Fails(i, "sent")
       \/ /\ Reachable(worker[i].kind)
          /\ To(i, CASE worker[i].kind = "boot" -> "letter"
                     [] worker[i].kind = "hello" -> "stop"
                     [] OTHER -> IF win.inst.live THEN "set" ELSE "leftover")
          /\ UNCHANGED win
    /\ ToolFrame

--------------------------------------------------------------------------------
\* execute_boot_repair.  A letter for the Windows volume, then (BIOS) the active
\* flag, a letter for the system partition, (BIOS) bootsect, the old store moved
\* aside, bcdboot.  The guards take the temporary letters back on every way out.
AfterLetter == IF win.inst.uefi THEN "syslet" ELSE "active"
Crowd(i) == LET others == {j \in Starts \ {i} : worker[j].kind = "boot" /\ Live(j)}
            IN  IF others = {} THEN {} ELSE others \cup {i}
\* ensure_letter: a letter of its own, or none when one was seen with the disks: the
\* volume's, or that of another repair, which may be gone since.
Letters(i, vol, begun) ==
    {win.letters[i] \cup {vol}} \cup (IF win.repairs > begun THEN {win.letters[i]} ELSE {})
BootLetter(i) ==
    /\ Tool(i, "boot", "letter")
    /\ \/ /\ ~win.inst.lettered
          /\ Fails(i, "drop")
       \/ /\ \E own \in IF win.inst.lettered THEN {{}} ELSE Letters(i, "src", 0) :
                 win' = [win EXCEPT !.letters[i] = own, !.repairs = @ + 1,
                                    !.crowded = @ \cup Crowd(i)]
          /\ To(i, AfterLetter)
    /\ ToolFrame
BootActive(i) ==
    /\ Tool(i, "boot", "active")
    /\ \/ ~win.active /\ Fails(i, "drop")
       \/ win' = [win EXCEPT !.active = TRUE] /\ To(i, "syslet")
    /\ ToolFrame
BootSysLetter(i) ==
    /\ Tool(i, "boot", "syslet")
    /\ \/ Fails(i, "drop")
       \/ /\ \E own \in Letters(i, "sys", 1) : win' = [win EXCEPT !.letters[i] = own]
          /\ To(i, IF win.inst.uefi THEN "look" ELSE "bootsect")
    /\ ToolFrame
Bootsect(i) ==
    /\ Tool(i, "boot", "bootsect")
    /\ \/ Fails(i, "drop")
       \/ To(i, "look") /\ UNCHANGED win
    /\ ToolFrame

\* Mutant: a store is deleted instead of renamed.
AsideDeletes(n) == [win EXCEPT !.bak[n] = "none", !.store[n] = "none"]
\* clear_existing_bcd: the store first, its logs after it.  Is it there?  Then its .bak
\* is removed, if that can be, and it is renamed to that - if it is still there.
LookAt == [BCD |-> "look", LOG |-> "lookLog"]
UnlinkAt == [BCD |-> "unlink", LOG |-> "unlinkLog"]
RenameAt == [BCD |-> "rename", LOG |-> "renameLog"]
Aside(n) == [win EXCEPT !.bak[n] = win.store[n], !.store[n] = "none"]
\* Mutant: the logs of the hive stay where they are.
ClearNextNoLogs(n) == "bcdboot"
ClearNext(n) == IF n = "BCD" THEN "lookLog" ELSE "bcdboot"
ClearLook(i, n) ==
    /\ Tool(i, "boot", LookAt[n])
    /\ To(i, IF win.store[n] = "none" THEN ClearNext(n) ELSE UnlinkAt[n])
    /\ UNCHANGED win /\ ToolFrame
ClearUnlink(i, n) ==
    /\ Tool(i, "boot", UnlinkAt[n])
    /\ \E left \in {win.bak[n], "none"} : win' = [win EXCEPT !.bak[n] = left]
    /\ To(i, RenameAt[n])
    /\ ToolFrame
ClearRename(i, n) ==
    /\ Tool(i, "boot", RenameAt[n])
    /\ \/ win.store[n] # "none" /\ win' = Aside(n) /\ To(i, ClearNext(n))
       \/ Fails(i, "drop")
    /\ ToolFrame
ClearStore(i, n) == ClearLook(i, n) \/ ClearUnlink(i, n) \/ ClearRename(i, n)
\* bcdboot merges into a store that is there and creates one that is not.
Bcdboot(i) ==
    /\ Tool(i, "boot", "bcdboot")
    /\ \/ /\ win' = [win EXCEPT !.store["BCD"] = IF @ = "none" THEN "fresh" ELSE "merged"]
          /\ Ends(i, "drop", "ok")
       \/ /\ \E left \in {win.store["BCD"], "partial"} :
                 win' = [win EXCEPT !.store["BCD"] = left]
          /\ Ends(i, "drop", "failed")
    /\ ToolFrame
\* TempLetter::drop of its letters; nobody looks whether Windows removes them.
DropLetters(i) ==
    \E kept \in SUBSET win.letters[i] :
        win' = [win EXCEPT !.letters[i] = {}, !.stuck = @ \cup kept]
BootDrop(i) ==
    /\ Tool(i, "boot", "drop")
    /\ DropLetters(i)
    /\ To(i, "sent")
    /\ ToolFrame

\* execute_reset: nothing to reset is an error; the service is stopped around the
\* removal on the live system, and started again if the folder is still there too.
HelloStop(i) ==
    /\ Tool(i, "hello", "stop")
    /\ \/ ~win.ngc /\ Fails(i, "sent")
       \/ /\ win.ngc /\ win.inst.live
          /\ win' = [win EXCEPT !.service = "stopped"] /\ To(i, "remove")
       \/ win.ngc /\ To(i, "remove") /\ UNCHANGED win
    /\ ToolFrame
HelloRemove(i) ==
    /\ Tool(i, "hello", "remove")
    /\ \E gone \in BOOLEAN :
          /\ win' = [win EXCEPT !.ngc = ~gone]
          /\ Ends(i, "start", IF gone THEN "ok" ELSE "failed")
    /\ ToolFrame
HelloStart(i) ==
    /\ Tool(i, "hello", "start")
    /\ \/ win' = [win EXCEPT !.service = IF win.inst.live THEN "running" ELSE @]
       \/ win.service = "stopped" /\ win' = [win EXCEPT !.service = "left"]
    /\ To(i, "sent")
    /\ ToolFrame

--------------------------------------------------------------------------------
\* with_admin_user_key, call by call, in a worker or in the thread of the window
\* (user 0): all of them load the hive under the same name.  Whatever is loaded there
\* is unloaded first, if that can be: not while somebody has a key of it open.
UnloadLeftover ==
    win' \in {win} \cup IF win.keys = {} THEN {[win EXCEPT !.hive = "out"]} ELSE {}
LoadHive == win.hive = "out" /\ win' = [win EXCEPT !.hive = "in"]
OpenKey(u) == win.hive # "out" /\ win' = [win EXCEPT !.keys = @ \cup {u}]
\* Mutant: a key that does not open is returned as an error at once.
AfterOpenBails(opened) == IF opened THEN "use" ELSE "sent"
AfterOpen(opened) == IF opened THEN "use" ELSE "unload"
\* The unload at the end, of which nobody hears when Windows refuses it.
UnloadHive ==
    IF win.keys # {} \/ win.hive = "out" THEN UNCHANGED win
    ELSE \E hive \in {"out", "left"} : win' = [win EXCEPT !.hive = hive]

\* execute_set: PowerShell on the live system; offline one bit in the SAM hive.
AdminLive(i) ==
    /\ Tool(i, "admin", "set")
    /\ \/ Fails(i, "sent")
       \/ win' = [win EXCEPT !.admin = worker[i].deep] /\ Ends(i, "sent", "ok")
    /\ ToolFrame
AdminLeftover(i) ==
    /\ Tool(i, "admin", "leftover")
    /\ \/ Fails(i, "sent")
       \/ UnloadLeftover /\ To(i, "load")
    /\ ToolFrame
AdminLoad(i) ==
    /\ Tool(i, "admin", "load")
    /\ \/ Fails(i, "sent")
       \/ LoadHive /\ To(i, "open")
    /\ ToolFrame
AdminOpen(i) ==
    /\ Tool(i, "admin", "open")
    /\ \/ Fails(i, AfterOpen(FALSE))
       \/ OpenKey(i) /\ To(i, AfterOpen(TRUE))
    /\ ToolFrame
AdminUse(i) ==
    /\ Tool(i, "admin", "use")
    /\ \/ win' = [win EXCEPT !.keys = @ \ {i}] /\ Ends(i, "unload", "failed")
       \/ /\ win' = [win EXCEPT !.keys = @ \ {i}, !.admin = worker[i].deep]
          /\ Ends(i, "unload", "ok")
    /\ ToolFrame
AdminUnload(i) ==
    /\ Tool(i, "admin", "unload")
    /\ UnloadHive
    /\ To(i, "sent")
    /\ ToolFrame
AtHive(i) == worker[i].kind = "admin" /\ worker[i].pc \in {"open", "use", "unload"}

--------------------------------------------------------------------------------
ToolStep(i) == \/ Detect(i) \/ BootLetter(i) \/ BootActive(i) \/ BootSysLetter(i)
               \/ Bootsect(i) \/ (\E n \in Stores : ClearStore(i, n)) \/ Bcdboot(i)
               \/ BootDrop(i) \/ HelloStop(i) \/ HelloRemove(i) \/ HelloStart(i)
               \/ AdminLive(i) \/ AdminLeftover(i) \/ AdminLoad(i) \/ AdminOpen(i)
               \/ AdminUse(i) \/ AdminUnload(i)

\* Unwinding drops the letters; nothing restarts the service, closes a key or unloads
\* the hive.
ToolPanics(i) ==
    /\ Live(i) /\ worker[i].kind \in Tools
    /\ Ends(i, "panicked", "failed")
    /\ \/ worker[i].kind = "boot" /\ DropLetters(i)
       \/ /\ worker[i].kind = "hello"
          /\ win' = [win EXCEPT !.service = IF @ = "stopped" THEN "left" ELSE @]
       \/ /\ worker[i].kind = "admin"
          /\ win' = [win EXCEPT !.hive = IF AtHive(i) /\ @ = "in" THEN "left" ELSE @]
    /\ ToolFrame
\* The process ends: nothing is given back, but Windows closes the keys.
ToolsKilled ==
    win' = [win EXCEPT !.letters = [i \in Starts |-> {}],
                       !.stuck = @ \cup UNION {win.letters[i] : i \in Starts},
                       !.service = IF @ = "stopped" THEN "left" ELSE @,
                       !.hive = IF @ = "in" THEN "left" ELSE @, !.keys = {}]
=============================================================================
