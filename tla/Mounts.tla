------------------------------- MODULE Mounts -------------------------------
(* Backups mounted as drives (App::mounts, phoenix-mount).  A mount is made and
   taken down on the UI thread in one go; a writable one serves the backup as the
   parent of a differencing child in the scratch directory, named by the backup's
   id, which is where every write goes. *)
EXTENDS Catalog

VARIABLES mount,    \* path -> how it is mounted and the image it was opened with
          child     \* the child-<id>.avhdx files: id -> "fresh" | "written"
mountVars == <<mount, child>>

NoMount == [mode |-> "no", img |-> -1]
Mounted(p) == mount[p] # NoMount
AnythingMounted == \E p \in Paths : Mounted(p)
As(p, mode) == [mount EXCEPT ![p] = [mode |-> mode, img |-> file[p].img]]
MountsInit == mount = [p \in Paths |-> NoMount] /\ child = << >>
NoChild(id) == [k \in DOMAIN child \ {id} |-> child[k]]

\* start_mount: refused for a backup that is mounted, fails for one that does not open.
StartMount(p) ==
    /\ ~Mounted(p) /\ Opens(p)
    /\ mount' = As(p, "ro")
    /\ UNCHANGED child

\* A program writes to a drive of a writable mount.
WriteDrive(p) ==
    /\ mount[p].mode = "rw"
    /\ child' = Put(child, mount[p].img, "written")
    /\ child' # child
    /\ UNCHANGED mount

\* Dropping a mount detaches it; a writable one also deletes its child, if it can.
Unmount(p) ==
    /\ Mounted(p)
    /\ mount' = [mount EXCEPT ![p] = NoMount]
    /\ child' \in {child} \cup (IF mount[p].mode = "rw" THEN {NoChild(mount[p].img)} ELSE {})

\* remove_file of a child, best effort, and not while a drive is attached to it.
OnChild(id) == {p \in Paths : mount[p] = [mode |-> "rw", img |-> id]}
Unlinked(id) == {child} \cup IF OnChild(id) = {} THEN {NoChild(id)} ELSE {}
\* Mutant: the virtual disk is opened when there is one of that name.
CreatedOrOpened(id, files) == {IF id \in DOMAIN files THEN files ELSE Put(files, id, "fresh")}
\* CreateVirtualDisk fails over a file that is there.
Created(id, files) == IF id \in DOMAIN files THEN {} ELSE {Put(files, id, "fresh")}
WithChild(id) == UNION {Created(id, files) : files \in Unlinked(id)}

\* perform_enable_write: eject the read-only mount, remove a stale child, create one,
\* attach it by its name, expose the partitions.  A child that cannot be attached is
\* removed if it can be, one that cannot be exposed stays.  If any of it fails the
\* backup is mounted read-only again, and if that fails too it is not.
PerformEnableWrite(p) ==
    LET id == file[p].img IN
    /\ mount[p].mode = "ro"
    /\ \/ /\ Opens(p)
          /\ child' \in WithChild(id)
          /\ mount' = As(p, "rw")
       \/ /\ child' \in {child} \cup IF Opens(p) THEN Unlinked(id) \cup WithChild(id) ELSE {}
          /\ \/ Opens(p) /\ mount' = As(p, "ro")
             \/ mount' = [mount EXCEPT ![p] = NoMount]

\* unmount_all, and what a process that dies takes with it: the drives go, a child
\* that nobody deletes, or that cannot be deleted, stays.
AllUnmounted(delete) ==
    /\ mount' = [p \in Paths |-> NoMount]
    /\ \E gone \in SUBSET {id \in DOMAIN child : delete /\ OnChild(id) # {}} :
           child' = [id \in DOMAIN child \ gone |-> child[id]]
\* cleanup_leaked_mounts at the start, as far as it gets.
SweepChildren ==
    /\ \E kept \in SUBSET DOMAIN child : child' = [id \in kept |-> child[id]]
    /\ UNCHANGED mount
=============================================================================
