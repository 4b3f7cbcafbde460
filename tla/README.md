# TLA+ models of Phoenix Simulacra

Phoenix Simulacra images, restores, clones, mounts and boots Windows disks. Its
one file format is the `.phnx` backup: for every partition the used sectors, cut
into chunks that are hashed (BLAKE3) and compressed (zstd). This directory holds
specifications of the parts on which the trust in such an image, and in the disk
that is made from it, rests, the TLC configurations that model-check them, and
proofs checked by TLAPS.

`PROJECT.json` is the machine-readable side: components, runs, the lines of code
behind every definition, deliberate slips that each property must notice,
disagreements between code and documentation, and the list of hazards.

Contents: 1 inventory, 2 modules, 3 runs, 4 findings, 5 proofs, 6 abstractions,
7 not modelled, 8 open plan.

## 1. Inventory of the system

Paths are `src/<crate>/src/<file>.rs` in the repository.

| Component | State | Operations | Hard parts | Correct when |
|---|---|---|---|---|
| Encode pipeline (`phoenix-core` `pipeline`, `PartitionStreamWriter` in `container`) | two bounded channels, reorder buffer, error slot, `failed` flag, next number, offset, chunk table | `set_extent`, `write_chunk`/`submit`, `finish`, drop | workers finish in any order, die, fail; cancel in the middle; full channels | file layout equals a serial loop's; success means complete; nobody blocks for ever; nobody writes after the answer |
| Decode pipeline (`pipeline`, `process_chunks_parallel`) | two channels, reorder buffer, the consumer's target | reader, workers, consumer, scope join, serial path | early return while threads are blocked; damaged chunks; cancel | target holds an in-order prefix; errors are real; it returns |
| `.phnx` container (`container`) | the file, the writer's offset and index, the reader's tables | create, begin/finish stream, finalize; open, verify | several structures at computed offsets, patched late; crash between writes; cut or changed bytes | what opens is whole, what verifies decodes to the plan |
| Capture loops and raw restore (`phoenix-capture` `ntfs`, `raw`, `fat`, `reader`) | extents, position in them | read, chunk, place, trim, relocate | short reads; targets smaller than the source | every used block comes back to its place |
| Capture planning (`ntfs`, `fat`, `refs`, `reader::try_volume_bitmap`) | bitmap being assembled | bitmap or FAT to extents | paged answers, fall-backs, last clusters | extents cover every cluster in use |
| Backup run (`backup`, `phoenix-vss`) | per partition: plan, lock, shadow, frozen flag; manifest; destination | plan, lock, snapshot, capture, finalize, verify | the rest of Windows writes meanwhile; shadow reads tear | the image is one instant, the verification proves it |
| Layout editor (`phoenix-gui` `restore_layout`, `phoenix-restore` `plan`, `layout_edit`) | planned slots, table style, reinit and full-disk flags | drop, gap drop, move, resize, delete, blank, style, reset, entire disk | alignment at boundaries, tight layouts, MBR limits | whatever the user does, the plan passes the engines' checks |
| Restore run (`phoenix-restore` `restore`, `partition_table`, `grow`) | target disk, its table, volume locks | check, wipe or lock, stream, plant table, online, extend | failures between phases; mounted volumes | no table over missing data; a refusal costs nothing |
| Clone (`phoenix-clone`) | as backup and restore, without a file | check, freeze all, clear, stream, plant | the union of both | what is kept survives; sources are frozen before the target is touched |
| Shrink planner (`phoenix-restore` `relocation`, `phoenix-core` `relocation`, `phoenix-capture` `ntfs_preflight`) | map of moved clusters, records to place anew | pack, split, simulate, re-plan, evict | moving data makes records overflow, which moves more | no cluster is lost or placed twice; planning ends |
| Metadata rewrite (`ntfs_meta`, `ntfs`, `fat`, `sector_convert`) | MFT records, `$Bitmap`, `$LogFile`, `$MFTMirr`, boot sector | dry run, rewrite, resize, convert | the table is moved by the map it is rewritten with | every file reads back through the new boot sector |
| Mounted image (`phoenix-mount` `chunkstore`) | LRU cache, readahead position | `read_at` | arbitrary reads over gaps, uneven chunks, failing chunks | reads give captured bytes or an error |
| Mount sessions (`active`, `winfsp_mount`, `attach`, `letters`) | attached disks, differencing children | mount, enable writes, unmount, sweep | clean-up that fails, kills, names shared by mounts | writes never come back |
| VM sessions (`phoenix-vm`) | `session.json`, overlay, `qmp.port`, guest | open, serve, boot, discard, resume, stop | crash while running or saving; a backup replaced under its session | a guest sees the image its overlay was made over |
| History and known backups (`appdata`) | JSON files, in memory and on disk | load, append, remove, reconcile, save | failing saves, crash | what is recorded is true |
| Windows tools (`bootrepair`, `winhello`, `winadmin`) | boot store, letters, service, hive of an installation | repair, reset, toggle | each step may fail, the process may die between two | there is always a boot store; nothing temporary stays |
| GUI jobs and window (`phoenix-gui` `main`, `job`, `vm_panel`) | job slot, queue, parked result, dialogs | start, confirm, poll, cancel, close, restart | threads that panic, cancels that come late, dialogs over running jobs | every job ends once, with a true record, and takes no finished backup with it |
| CLI, launcher, installer, updater, partition byte reader, disk enumeration | - | - | external tools | not modelled |

How they interact. `run_backup` plans and freezes each partition, then drives one
`PartitionStreamWriter` per partition; each chunk goes through the encode
pipeline into the file that `PhnxWriter` lays out; `finalize` closes the file
and the run verifies it, against the source or in the file. The layout editor is
the plan of both a restore and a clone ("the map IS the plan"). A restore opens
the file with `PhnxReader` and streams it through the decode pipeline into
`restore_raw`'s closure, which writes the target partition, relocating what a
shrunk NTFS volume has behind its new end; then the metadata is rewritten and
the boot sector resized. A full verification uses the same pipeline with a
closure that only counts. A mount or a VM boot reads the same file at random
through `ChunkStore`. All of them run as background jobs of the GUI, one slot
and one queue for all, with a one-shot channel back to the window; a cancel is a
flag that each of them looks at between chunks.

## 2. Modules

| Module | Models | Lines of code |
|---|---|---|
| `OrderedStream` | what a partition stream promises: accepted, stored in order, complete or failed | contract of `EncodePipeline` |
| `EncodePipeline` | the parallel engine behind it | `pipeline.rs` 99-346, `container.rs` 605-670 |
| `RestoreStream` | chunking at capture, parallel decode, placement at restore | `ntfs.rs` 30-66, `pipeline.rs` 375-470, `raw.rs` 27-201 |
| `Backup` | `run_backup` beside the rest of Windows | `backup.rs` 97-973, `reader.rs` 265-328, `vss/lib.rs` |
| `PhnxContainer` | the file, its writer, crashes and damage, its reader and verifier | `container.rs` 83-1203 |
| `ChunkStore` | reads of a mounted image | `chunkstore.rs` 20-422 |
| `DiskLayout` | arithmetic of places, drags and full-disk layouts | `layout_edit.rs`, `plan.rs` of restore and clone |
| `LayoutEditor` (extends `DiskLayout`) | every edit of the target layout | `restore_layout.rs`, `restore_panel.rs`, `clone_panel.rs`, `disk_map.rs` |
| `TargetDisk` (extends `LayoutEditor`) | the target disk and the steps both runs take on it | `partition_table.rs`, `disk.rs` |
| `RestoreRun`, `CloneRun` (extend `TargetDisk`) | the two runs | `restore.rs`; `clone/lib.rs`, `clone/plan.rs` |
| `DiskJobs` (extends both runs) | one job from the editor to the end | |
| `VolumeImage` | capture planning of one volume | `fat.rs`, `refs.rs`, `ntfs.rs`, `reader.rs` |
| `ShrinkPlan` (extends `VolumeImage`) | the shrink planner | `restore/relocation.rs`, `core/relocation.rs`, `ntfs_preflight.rs` |
| `VolumeRestore` (extends `ShrinkPlan`) | the volume written, its metadata rewritten, resized, converted | `ntfs_meta.rs`, `ntfs.rs`, `fat.rs`, `sector_convert.rs` |
| `Catalog` | backup files on disk, history and known backups | `appdata.rs`, parts of `main.rs` |
| `Jobs` (extends `Catalog`) | worker threads, poll, records, queue | `job.rs`, `main.rs` 1793-2129 |
| `WindowsTools` (extends `Jobs`) | boot repair, Hello reset, administrator toggle | `bootrepair.rs`, `winhello.rs`, `winadmin.rs` |
| `Mounts` (extends `Catalog`) | backups mounted as drives | `winfsp_mount.rs`, `active.rs`, parts of `main.rs` |
| `VmSessions` (extends `Catalog`) | booting a backup | `phoenix-vm`, parts of `main.rs` |
| `Desktop` (extends the last three) | the window: which click is live when, closing, dying, starting again | `main.rs` |
| `EncodePipelineProofs`, `RestoreStreamProofs`, `BackupProofs`, `DiskJobsProofs`, `ShrinkPlanProofs`, `DesktopProofs`, `ChunkStoreProofs`, `PhnxContainerProofs` | theorems | |
| `MC*` | constants of the instances TLC checks | |

Four families, which meet at their boundaries rather than in one product, which
would be too large to say anything. `Backup` treats a stream as "each block read
is the block recorded", which is what `EncodePipeline` guarantees
(`StreamMatchesSerial`, `FinishOkComplete`); `PhnxContainer` treats it as chunks
appended in order, same guarantee; `RestoreStream` and `ChunkStore` take a file
that `PhnxContainer` says decodes to its plan (`FullVerifyProves`) and add
chunks that have gone bad since. `DiskJobs` streams a partition block by block,
as `RestoreStream` shows it arrives (`TargetIsPrefix`), and takes of a shrunk
NTFS partition only that its data gets places below the end (`PlanIsSound`);
`VolumeRestore` is that one partition in detail. `Desktop` takes each of those
jobs as a thread that takes its time and ends in any way it can end, and is
about what surrounds them.

### EncodePipeline

State is the state of the code: `caller` is the program counter of the capture
thread, `wpc`/`wjob` and `vpc`/`vjob` those of the workers and the writer with
the message each holds, `jobs` and `done` the channels, `pending` the `BTreeMap`,
`failed`/`error` the shared flag and slot. Each action is one step between two
points where threads can interleave. An error is two steps (`EncodeError`, then
`WorkerFlag`), because other threads can run between the `get_or_insert` and the
`store`. Taking a job is one step because the receiver's mutex is held only
inside `recv`. `Cancel` also stands for a read error of the source: both make
the owner drop the stream. `WorkerDies` is a panic while hashing or compressing.
The payload is left out; a chunk is its number and its place, and `CompLen`
gives each a different compressed length, so that a chunk out of turn shows in
the offsets. `submitted` is a history variable.

### RestoreStream

A volume is a row of blocks; a captured block is named by its source block, so
"the right data in the right place" is `target[Goes(p)] = p`. The capture part
repeats the loop of `capture_ntfs` (raw and FAT capture have the same loop over
other extents); `ReadLengths` says what a read may return. Between the two
parts `quality` gives every chunk a fate: good, unreadable, not decompressing,
or decompressing to other bytes. The restore part is `process_chunks_parallel`
with the closure of `restore_raw`: place by stride, map through the relocation,
trim at `max_bytes`, write. A write that fails leaves some first part of the chunk. A
worker's panic is a panic of the scope's caller (`JoinScope`).

### Backup

Each partition is a function of blocks to versions. The rest of Windows opens
files (not on a locked volume), writes through them, closes them; a write may
allocate. `plan`, `frozen` and the reader's source (`shadow` or the disk) are
those of `PreparedPartition`. `LockRefused` counts the attempts of
`lock_volume`. A partition is one of five kinds, by how the code reads and
freezes it: lettered, ESP, without a letter, BitLocker-locked, bare (no volume).
`Read` lets a shadow device return torn bytes, the case `backup.rs` 801-843
re-reads for. `asOf` and `atEnd` are history: the volume at the moment it was
locked or snapshotted, and the source when the stream ended.

### PhnxContainer

The file is a sequence of cells, one per structure the reader parses as a whole.
Sizes that matter for layout are kept: the stream head is one cell followed by
its extents, the index has room for `Reserve` entries, a chunk has one or more
cells. `finalize_inner` is four actions, one per write; `Crash` may come between
any two writes (and stands for a run that gives up). On the closed file `Cut`
loses the tail and `Rot` changes a cell to zeros, noise, an older value of a
patched field, or another number. The reader's checks follow `open`,
`read_stream_header`, `verify_structure`, and the full verification.

### ChunkStore

One action per way round the loop of `read_at`: past the end, between
partitions, free space, an extent without a chunk, a chunk. The cache is a map
and an order list as in the code. `load_chunk` and `prefetch_chunk` are operators from a
store to the stores they may leave. What a read of the file gives (good, garbled,
failed) is chosen at each access. The store sits behind a mutex in both of its
users, so reads do not interleave.

### LayoutEditor, DiskLayout

A slot of the planned layout knows the live partition it descends from and the
source mapped into it. Each handler is an action with its early returns:
`ApplyDrop`, `ApplyGapDrop`, `DeleteSelected`, `BlankLayout`, `ResetLayout`,
`MoveSlot`, `ResizeLeft`, `ResizeRight`, `ApplyFullDisk` (restore) and
`SeedFullDiskClone`, `ClearFullDisk`, with the pointer, the grab offset and the
snap distance as inputs. Places are counted in blocks of the fine alignment.
`DiskLayout` has the candidates (clamping between obstacles, aligning up or down,
snapping), the packing of a full disk with its tight second try, and the growing
of the main NTFS partition, as operators.

### TargetDisk, RestoreRun, CloneRun, DiskJobs

`content` is what each block of the target holds, `table` the partition table as
a set of slots, `locked` the live volumes under guard, `todo` the slots still to
stream, taken in the order of their places (`Turn`, the sort of `to_restore_plan`). `Stream` writes the blocks of a slot in order and stops at the first
write that Windows denies (a block of a mounted, unguarded volume), that the disk
cannot take, or after which an error or a cancel comes. `RestoreRun` follows
`run_restore`: checks, then wipe or a lock per slot at its turn, streaming (a ReFS
cut is refused only there), the guards of deleted volumes, the table.
`CloneRun` follows `run_clone`: checks, all sources frozen, then wipe or all
locks, streaming, the table. A cancel is seen between partitions and between
writes. `DiskJobs` puts the editor in front, so that the layouts that are run are
exactly those a user can make.

### VolumeImage, ShrinkPlan, VolumeRestore

One volume, cluster by cluster. `VolumeImage` is capture planning: NTFS and ReFS
ask the driver for the bitmap and get it in pages of whole bytes of any length;
the probe at the end may be rejected, the request may fail (then every cluster is
captured); FAT and exFAT walk their tables.

`ShrinkPlan` is the planner. `place` is the map as a function of clusters; its
entries are the maximal runs of it. `FitPlans` starts it, `PlacePiece` takes the
pieces largest first, whole where one free run holds them, else split over the
largest runs. `SimulateOverflows` asks `plan_record_fit` for every record and
queues those whose run list would not fit; `ReplanWhole` moves one of them into
one free run, `ReplanEvicting` takes a window from whatever was placed there and
places that anew; passes are bounded.

`VolumeRestore` writes the data through the map and then is
`rewrite_metadata_after_relocation` call by call: dry run over all records,
records, `$Bitmap`, `$LogFile`, `$MFTMirr`, pointers of the boot sector, then the
resize of NTFS, FAT or exFAT, then the conversion to sectors of 512 bytes. A
record is the list of clusters it names; a cluster of the image is named by its
number at the source, so "the file is back" is that the record, found through
boot sector and record 0, names clusters that hold what it named before.

### Catalog, Jobs, WindowsTools, Mounts, VmSessions, Desktop

An image is named by the number of the job that wrote it, which stands for its
`backup_id`. `Catalog` has the files, the history, the known backups, and what of
both is on disk; a save may fail, and what is remembered then differs from what
is loaded after a restart.

`Jobs` is a thread per start with its program counter, the slot `App::job`, the
queue, the parked result. The poll takes an answer in one of four ways
(`TakeFollowUp`, `TakeNext`, `TakeLast`, `TakeError`), each with the records it
appends. `SawVerify` is a choice where `poll_job` may or may not have seen the
last step start.

`WindowsTools` is one action per call that changes something or decides, each with
its failure exit, and `ToolPanics`, where only drop guards run. Several tools may be at
work on the machine. `clear_existing_bcd` looks for a file, unlinks its `.bak`, which may
fail, and renames it, in three steps (`ClearLook`, `ClearUnlink`, `ClearRename`), so that two
repairs can meet between any two. A temporary letter may stay when Windows does
not remove it (`stuck`), and a later repair may be using it. The hive is unloaded, loaded,
opened, used and unloaded in steps of their own; it cannot be unloaded while anyone has
a key of it open, and the last unload may fail ("left"). The picker of the Administrator
tool goes through the same calls in the thread of the window (`ReadAdmin`, `ReadStep`),
which does nothing else meanwhile: `app` says where it is.

`Mounts` and `VmSessions` are the mount and boot life cycles; `VmThread` is `boot` step
by step. Enabling writes (`PerformEnableWrite`) is one step, since the thread of the
window does it in one go and nothing of it is seen before it is over; within it,
each call may fail: the old child cannot be removed (`Unlinked`), the new one cannot be made,
which is so wherever a file of that name is left (`Created`), it cannot be attached or
exposed, and then the backup is mounted read-only again or not at all. A kill in the middle
leaves what a failure leaves: a child that nobody uses.

`Desktop` decides what is live: `ModalOpen` and `Busy` are the code's, and differ;
dialogs that confirm a job look at neither. `PressClose`, `RestartToUpdate`,
`ConfirmClose` and `Crash` end the process with every thread in it
(`ProcessEnds`), `Restart` is `App::new` with its sweeps.

## 3. Runs

Each property is also checked against a plausible slip in the code (a dropped
guard, a missing reset, a swapped order) that it must notice; they are the
definitions marked "Mutant" or "Slip" in the modules and listed in
`PROJECT.json`. Each module's type invariant, where it has one, is stated in the
module; it is not among the properties of a run.

| Run | Configuration | Bounds | Shows |
|---|---|---|---|
| `encode` | `EncodePipeline.cfg` | 2 workers, either or both may die, channels of 1, 4 chunks, 2 extents | `StreamMatchesSerial`, `FinishOkComplete`, `OnlyDeathIsUnexplained`; `CallsReturn`; refinement of `OrderedStream` (`ImplementsStream`) |
| `restore_stream` | `RestoreStream.cfg` | 10 blocks onto 9, chunks of 2, up to 5 chunks in 3 extents, 2 workers, 1 damaged chunk | `TargetIsPrefix`, `RestoredFaithfully`; `RestoreReturns` |
| `restore_placement` | `RestorePlacement.cfg` | one extent of 5 blocks, reads may be short | violation of `RestoredFaithfully` |
| `backup` | `Backup.cfg` | 2 partitions of 2 blocks, 3 pairs of kinds, 2 lock attempts, 1 write, 2 torn reads, 1 rotten block | `LetteredIsOneInstant`, `ShadowIsWhole`, `VerifiedIsOneInstant`, `UncomparedIsIntact`; `RunReturns` |
| `backup_plan_gap` | `BackupPlanGap.cfg` | 1 partition, 5 lock attempts | violation of `LockedIsWhole` |
| `container` | `PhnxContainer.cfg` | 2 partitions, 3 plans, chunks of 1 or 2 cells, 1 changed cell besides a cut | `NothingOverwritten`, `OpenIsWhole`, `FullVerifyProves` |
| `chunk_store` | `ChunkStore.cfg` | 12 sectors, 2 partitions, 4 chunks, cache of 2, reads of up to 6 | `ReadsAreFaithful`, `MostRecentKept`; `ReadsReturn` |
| `disk_jobs` | `DiskJobs.cfg` | target of 12 blocks with 2 mounted partitions, FAT, NTFS and ReFS sources, 3 edits, then a restore or a clone | `EditorPlansPass`, `PreservedIntact`, `TableIsHonest`, `RefusedUntouched`, `CloneNeverDenied`; `RunReturns` |
| `clone_shrink` | `CloneShrink.cfg` | a FAT source with data at its end, 2 edits, a clone | violation of `PreservedIntact` |
| `volume_restore` | `VolumeRestore.cfg` | NTFS volumes of 16 to 18 clusters with 6 records, laid out in hundreds of ways, onto 11 to 18; small FAT, exFAT and ReFS volumes; 3 passes | `CaptureIsWhole`, `PlanIsSound`, `PreflightHolds`, `FilesReadBack`, `MetadataAgrees`, `GeometryMounts`; `PlanReturns` |
| `volume_tail` | `VolumeTail.cfg` | the same, without the condition on the last cluster | violation of `ShrunkFilesReadBack` |
| `desktop` | `Desktop.cfg` | 14 users with 1 to 4 clicks that start something, 3 machines, 2 paths, 3 workers, history of 2, 1 failing save, 1 end of the process, 2 launches of a guest | `RecordsAreTrue`, `WayBack`, `NothingLeftBehind`, `GuestSeesItsBase`; `NothingClobbered`, `RepairRebuilds`, `WritesAreDiscarded`; `JobsEnd` |

Four more configurations reproduce counterexamples that section 4 describes and
are not among the runs: `ContainerTables.cfg` (`MCPhnxContainer`,
`VerifyCatchesMetadata`), `RestoreLocks.cfg` (`MCDiskJobs`, `NeverDenied`),
`VmClose.cfg` (`MCDesktop`, `NoOrphanGuest`) and `TwoRepairs.cfg` (`MCDesktop`,
`BakIsLeft`).

Why these bounds are enough to mean something. With channels of one slot the
five places a chunk can be (job channel, worker, result channel, writer, buffer)
are all full with four chunks, so every blocking and every reordering happens;
real capacities are twice the number of workers and only postpone it. Five
chunks are what it takes for the decode reader to stay blocked on a full channel
after the consumer has left. One damaged chunk is enough because the first error
ends a restore. In `Backup` two partitions are needed because one is held while
the other is prepared or read; one write already separates before from after;
two torn reads are the smallest number that separates the torn block that is caught from
the one that is not. In `PhnxContainer` two partitions make regions neighbours.
In `ChunkStore` the disk has a gap before, between and behind the partitions,
free sectors on both sides of an extent, chunks of different lengths and an
extent whose chunks stop short; the cache is smaller than the number of chunks.
In `DiskJobs` a gap lies behind each live partition, sizes are off the
alignment, the MBR reaches less far than the disk and has one entry; three
edits suffice for a deletion, a drop into what it left and a move, and a full-disk
layout of the three sources has to cut the last one. In `VolumeRestore` the loose
volumes have the MFT in two places and a file in three; the tight ones leave free
runs of 3, 1 and 1 for pieces of 3 and 2 clusters, so that splits overflow
records, are re-planned, and evict. In `Desktop` each user has the features that
meet each other: what replaces a backup with what uses it, what runs beside a
restore's validation, what is cut off by the end of the process. Two repairs at once, and
a toggle beside a read of the same hive, take a user with a restore under check and two
tools; two writable mounts that compete for one child take two paths with one image.

Deadlock is checked in the other runs, where a finished run loops in an action
that says so. It is off in `disk_jobs`, `clone_shrink`,
`volume_restore`, `volume_tail` and `desktop`: there a job that is over, or a
user without clicks left, has nothing more to do; that they get there is
`RunReturns`, `PlanReturns` and `JobsEnd`.

### Fairness

Weak fairness, but for one action, and only for the program's own threads: a thread that can
run is run by the scheduler, and a thread inside a hash, a compression, a read
or a write comes back. In `EncodePipeline` the capture thread owes nothing while
a stream is open; once it blocks in `send` or in a join it is fair that the
call completes when it can. `DiskJobs` and `VolumeRestore` have one thread.
`Desktop` assumes it of every worker (`Works(i)`) and of the calls in which the thread of the
window reads the state of an Administrator (`ReadStep`). It assumes strong fairness of the
window's poll (`Polls`): each frame polls before it draws (`draw`, `main.rs` 2296), so between two such
reads, which a picker can start again and again, there is always a poll.
Nothing is assumed of clicks, answers to dialogs and guests. Nothing is assumed of the environment: no process
needs to close its files, no user needs to cancel, no device needs to fail or
recover. `Backup`'s `RunReturns` therefore holds although a volume may stay busy
for ever.

## 4. Where code, documentation and intent disagree

With a run:

* `restore_placement`: restore places chunks by a fixed stride (`raw.rs` 160-161),
  while mount and verification accumulate lengths because reads may be short
  (`chunkstore.rs` 33-37, `backup.rs` 691-696). After a short read a restore
  misplaces data and reports success.
* `backup_plan_gap`: a volume is planned before it is locked and not again when
  the lock is granted (`backup.rs` 274-289); a block allocated in between is
  missing from an image that verifies as "image == the frozen source". The
  order is deliberate (the bitmap query fails on some locked volumes), the gap is
  not mentioned, and `docs/BACKUP.md` 122-123 describes the other order.
* `clone_shrink`: a FAT or exFAT source may be dropped into a slot of its used
  size, and `ClonePlan::validate` compares only sizes (`clone/plan.rs` 137 ff.);
  extents keep their offsets and are not cut, so data behind the slot lands in a
  partition that should survive. A restore of the same layout is refused.
* `volume_tail`: the planner uses the last cluster of a shrunk NTFS partition,
  the resize puts it outside of the volume and writes the spare boot sector over
  its last sector (`restore/relocation.rs` 82-83, `ntfs.rs` 316-322).

With a configuration that is not a run:

* `RestoreLocks.cfg`: a partial restore locks the volume of the live partition a
  slot descends from (`restore.rs` 434-453), and those of deleted partitions
  only after all data is written (620). Delete a live partition, drop a source
  where it lay: the restore is denied half way. The clone locks everything first
  (`CloneNeverDenied`).
* `ContainerTables.cfg`: a change of the extent table passes every verification,
  though `container.rs` 856-858 says metadata corruption is always detected.
* `VmClose.cfg`: "Restart to update" (`main.rs` 2388-2400), a second close while
  the dialog is up, or a session without a readable `qmp.port` ends the process
  and leaves QEMU running without its disk; `docs/VIRTUALIZATION.md` 253 and
  `main.rs` 2892-2897 say the guest is powered off.
* `TwoRepairs.cfg`: a second boot repair can be confirmed while one runs (the next list says
  how). B finds the store; A removes the old `.bak` and renames the store to it; B removes that
  `.bak`, and its rename fails: neither the store nor a copy is left, though the comment on
  `clear_existing_bcd` (`bootrepair.rs` 523-525) promises "a way back if a repair
  makes things worse".

Met while modelling, in the models as they are, without a property of their own:

* The reorder buffer of the encode pipeline is not bounded by the channel
  capacities that `pipeline.rs` 27-31 relies on (`MemoryBounded` in the module is
  false).
* A full-disk layout cuts its last partition whatever it is; a ReFS one is then
  refused at its turn, after the target was wiped (`restore.rs` 524).
* Growing the main NTFS partition sets its size to the room left, which may be
  less than it was, even zero (`plan.rs` 610).
* A partial restore onto a GPT whose disk GUID is unknown reports success with
  the table untouched (`restore.rs` 590-640). `MCDiskJobs` has a disk with a GUID.
* The layout is rebuilt only when index or size of the target change
  (`restore_layout.rs` 232): partitions made meanwhile leave slots with old places.
* The clone has no preflight for the four entries and the reach of an MBR;
  `validate_layout` does not look at the backup GPT; a rewrite of an MBR in place
  drops active flag and type.
* A FAT16 resize takes the number of the backup boot sector from label bytes; an
  exFAT resize with 4096-byte sectors panics; a FAT or exFAT volume that grows
  keeps tables sized for the source, though a comment says only a shrink touches
  the boot sector. `$MFTMirr` is rewritten as if contiguous.
* A restore's validation makes the app busy without a modal, Utilities does not
  look at busy, and every confirm overwrites `App::job`: two jobs can run and the
  first is never recorded (`main.rs` 2453-2463). `RepairRebuilds` leaves repairs
  out that ran into another one, and `WayBack` promises nothing once that has happened;
  repeated failing repairs also lose the original boot store, which is why `WayBack`
  promises the old one only after one.
* A repair takes a letter it saw with the disks as one of the volume's own; it may be the
  temporary one of another repair. Nobody looks whether a temporary letter went
  (`bootrepair.rs` 462). A hive that cannot be unloaded is a line in the log (`winadmin.rs` 362-365).
* A child that can be attached but not exposed stays on the scratch disk, against the comment
  "On any failure past this point, delete the orphaned child" (`winfsp_mount.rs` 634-653);
  the next attempt removes it, or fails.
* The shield of a backup goes by path, so it stays green when the file is
  replaced; plan caches go by path, too; a mounted backup can be overwritten.
* A cancel that meets the end of a disk of a queue drops the rest of it; only the last
  output of a queue is remembered before a refresh; unfinished files of failed
  (not cancelled) backups stay.
* Which Windows is "live" goes by disk only, so a second installation on the
  system disk counts as the running one.
* A session is marked clean however its guest ended; a discard that fails half
  way leaves an overlay that the next boot takes as clean; a torn `session.json`
  strands it; Discard and Resume look the session up by what the file holds now.
* The index is written into a reserve for 128 partitions without a check; a
  changed chunk count underflows a subtraction (`container.rs` 798); a shadow
  that Windows made but did not report is never deleted (`vss/lib.rs` 184).

## 5. What is proved

| Theorem | Module | Statement |
|---|---|---|
| `EncodeTypeCorrect` | `EncodePipelineProofs` | `Spec => []TypeOK` |
| `EncodeStreamMatchesSerial` | `EncodePipelineProofs` | `Spec => []StreamMatchesSerial` |
| `EncodeFinishOkComplete` | `EncodePipelineProofs` | `Spec => []FinishOkComplete` |
| `EncodeImplementsStream` | `EncodePipelineProofs` | `Spec => ImplementsStream` (the safety refinement) |
| `EditorTheorem` | `DiskJobsProofs` | `Spec => []EditorPlansPass` |
| `RefusedTheorem` | `DiskJobsProofs` | `Spec => []RefusedUntouched` |
| `PlanSoundTheorem` | `ShrinkPlanProofs` | `Spec => []PlanIsSound` |
| `EncodeOnlyDeathIsUnexplained` | `EncodePipelineProofs` | `Spec => []OnlyDeathIsUnexplained` |
| `StreamInvariant` | `RestoreStreamProofs` | `Spec => []StreamInv`, with full reads |
| `TargetTheorem` | `RestoreStreamProofs` | `Spec => []TargetIsPrefix`, with full reads |
| `FaithfulTheorem` | `RestoreStreamProofs` | `Spec => []RestoredFaithfully`, with full reads |
| `BackupInvariant` | `BackupProofs` | `Spec => []BackupInv` |
| `LetteredTheorem` | `BackupProofs` | `Spec => []LetteredIsOneInstant` |
| `ShadowTheorem` | `BackupProofs` | `Spec => []ShadowIsWhole` |
| `VerifiedTheorem` | `BackupProofs` | `Spec => []VerifiedIsOneInstant` |
| `UncomparedTheorem` | `BackupProofs` | `Spec => []UncomparedIsIntact` |
| `DiskInvariant` | `DiskJobsProofs` | `Spec => []DiskInv`, if `ClonedInFront` |
| `PreservedTheorem` | `DiskJobsProofs` | `Spec => []PreservedIntact`, if `ClonedInFront` |
| `HonestTheorem` | `DiskJobsProofs` | `Spec => []TableIsHonest`, if `ClonedInFront` and `GuidKnown` |
| `CloneNeverDeniedTheorem` | `DiskJobsProofs` | `Spec => []CloneNeverDenied`, if `ClonedInFront` |
| `CaptureTheorem` | `ShrinkPlanProofs` | `Spec => []CaptureIsWhole` |
| `GeometryTheorem` | `ShrinkPlanProofs` | `Spec => []GeometryMounts` |
| `RebuildInvariant` | `ShrinkPlanProofs` | `Spec => [](SoundInv /\ RebuildInv)` |
| `PreflightTheorem` | `ShrinkPlanProofs` | `Spec => []PreflightHolds` |
| `MetadataTheorem` | `ShrinkPlanProofs` | `Spec => []MetadataAgrees` |
| `FilesTheorem` | `ShrinkPlanProofs` | `Spec => []FilesReadBack`, if `LabelOutside` |
| `WayBackTheorem` | `DesktopProofs` | `Spec => []WayBack` |
| `RecordsTheorem` | `DesktopProofs` | `Spec => []RecordsAreTrue` |
| `ClobberTheorem` | `DesktopProofs` | `Spec => NothingClobbered` (an action property) |
| `LeftTheorem` | `DesktopProofs` | `Spec => []NothingLeftBehind` |
| `RebuildTheorem` | `DesktopProofs` | `Spec => RepairRebuilds` (an action property) |
| `GuestTheorem` | `DesktopProofs` | `Spec => []GuestSeesItsBase` |
| `DiscardTheorem` | `DesktopProofs` | `Spec => WritesAreDiscarded` (an action property) |
| `ReadTheorem` | `ChunkStoreProofs` | `Spec => []ReadsAreFaithful` |
| `RecentTheorem` | `ChunkStoreProofs` | `Spec => []MostRecentKept` |
| `ContainerInvariant` | `PhnxContainerProofs` | `Spec => []ContainerInv` |
| `OverwrittenTheorem` | `PhnxContainerProofs` | `Spec => NothingOverwritten` (an action property) |
| `OpenTheorem` | `PhnxContainerProofs` | `Spec => []OpenIsWhole` |
| `ProvesTheorem` | `PhnxContainerProofs` | `Spec => []FullVerifyProves` |

All hold for every value of the constants that the named assumptions allow. Each
of them is evaluated by TLC in a run of its module, so it is satisfied by an instance:

* `EncodeAssumption`: any finite set of workers, not empty, any of which may
  die, any channel capacities and bounds. `RestoreAssumption`: any volume, extent lists,
  chunk size, workers, channels, and relocation maps that send no two blocks to
  one place. `BackupAssumption`: any finite row of partitions, any blocks.
* `LayoutAssumption`, `TargetAssumption`, `SourceAssumption`, `FullDiskAssumption`:
  any live table that is itself sound, any sources whose data lies within them,
  any alignment, any number of edits, full-disk layouts in whole blocks.
* `JobsAssumption`, `PassesAssumption` and `VolumesAssumption` of the volume modules: any
  volumes, any target, any number of passes. An NTFS volume is in order (`NtfsOk`): no
  two files share a cluster, what is used is what the records and the boot
  sector name, the MFT has a record for each file and no holes, `$MFTMirr` has
  one cluster, and sectors divide clusters.
* `CatalogAssumption`, `JobsAssumption` of `Jobs` and `UsersAssumption`: any number of
  starts, any users, as long as the disks of one backup run go to different
  files, which `suffix_path` sees to.
* `ChunkStoreAssumption`, `ChunksAssumption`: any disk whose partitions, and in each its
  extents, lie in order and apart, the chunks of an extent not longer than it (they may
  stop short); any cache of at least one chunk.
* `ContainerAssumption`: any plans in disk order, as every planner of `phoenix-capture` makes
  them, any lengths of compressed chunks, an index with room for all partitions, and
  any number of changed cells.

Four theorems are conditional, and the condition is where the code has a gap that
a run shows. *Full reads* (`ShortReads = FALSE`): with a short read the stride of a
restore misplaces data (`restore_placement`). `ClonedInFront`: a source that is not
NTFS or ReFS has its data in front; else a clone into a smaller slot overwrites
what follows (`clone_shrink`). `GuidKnown`: on a GPT disk whose GUID is not known a
partial restore reports success with the old table (section 4). `LabelOutside`:
the number a FAT16 resize reads from the label bytes names no cluster in use
(section 4). `DiskJobs.cfg`, `RestoreStream.cfg` and `VolumeRestore.cfg` satisfy them.

The encode pipeline. That the table equals the submissions does not follow from itself:
the writer trusts a number it finds in the buffer. `StreamInv` adds that a job
with number `s`, wherever it is, is the `s`-th submission, and that the table
has exactly `next` rows. `FinishOkComplete` needs to know that nothing is left
behind when the last thread is joined: `Phases` ties the program counters
together (a joined worker is gone, a gone worker holds nothing, an exited writer
has emptied the channel, a stream past its intake sends nothing), and `Apart` says that no
two places hold the same number, so that a table of full length leaves nothing
in flight even if the writer stopped with a non-empty buffer. The conjunction
`EncodeInv == StreamInv /\ Apart /\ Phases /\ FinishOkComplete` is inductive,
relative to `TypeOK`. The refinement proof
maps every commit to `Store`, every send to `Accept`, the last join to `Complete`
or `Abort`, and everything else to a stutter; `Complete` is where `EncodeInv` is
needed.

No false blame. The pipeline answers "a worker died" when it finds no parked error.
That this is true needs a claim about every way to end: `BlameInv` says that whoever
met an error has parked it before it raises the flag or leaves (`Parked`), that a
worker left only because the intake was closed and its channel empty (`Departed`), and
that as long as nobody failed or died no number is missing (`NoneMissing`: every
submission is in the table or in some hand), so the writer cannot end short.

A restored stream. `StreamInv` has three parts. `CaptureInv`: with full reads only
the last chunk of an extent is short, so the stride of the restore and the
lengths of the capture give the same place, and once the image is closed each used
block is in a chunk. `PipeInv`: every message is what reading and decoding its chunk
gives, the reorder buffer holds chunks ahead of `next`, and while nobody gave up
or died none is lost between channels, so a consumer that runs dry has had them all.
`TargetIsPrefix` itself is the third part; its step needs that the relocation map is
injective, because a later chunk must not land on what an earlier one wrote.

A backup is one instant. What is read is compared with what was so when the volume was
frozen, many steps and other partitions ago. `BackupInv` says, per partition, that
from the freeze on the lock keeps the volume as it was or the shadow holds what
it was (`Held`), that the run gives up neither before it has compared what it read
(`Kept`), and so that each block read is of that instant (`Taken`) and the end of the
stream sees the same (`Ended`). A BitLocker-locked source, which nothing freezes but
which is compared, is argued by versions: they only grow (`Numbered`), so a block that
reads the same twice did not change in between. `Compared` and `Hashed` carry what a
verification has found to the return of the run.

The editor. `EditorInv` says of a partial layout that slots are finitely many, lie
below the usable end, apart from each other, and on an MBR are not too many. It
is the property with types; the work is in the lemmas about `DiskLayout`: that a
clamped and aligned candidate stays between its obstacles, that a gap is free,
that what is deleted leaves the rest apart.

The refusal. `UntouchedInv` adds that nothing is written before the run has
accepted its plan and, for a clone, frozen its sources; a refusal comes from
those phases only.

A run on the target. `DiskInv` joins the editor's invariant with `RunInv`: what a
slot may be (`SlotInv`), what the checks of the engine have established and which
therefore holds at every later step (`PlanInv`: the layout is sound, used data fits,
every placed block lands within its slot), how far the run is (`StepInv`: the
table is the old one, or empty after a wipe, until all is streamed; what is no
longer to do is complete; a clone holds all locks in its way), and the claims
themselves (`KeptOld`, `HonestTable`). That a streamed slot leaves the others alone is
`LayoutSound`: slots are apart, and data lands inside of its own. A shrunk NTFS slot is
given some placement below its end; that there is one is a lemma about cardinalities.

The shrink plan. `SoundInv` says, while a plan is made for an image that holds
every cluster in use: every place lies in the free space below the new end, no
two clusters share one, the clusters past the end are exactly those placed and
those in a piece still to place, pieces do not overlap, and the pieces to place
are not more than the free clusters that are left, so room never runs out. That
last part is about cardinalities and needs the lemmas on runs (`RunsApart`,
`RunsCover`) and on placing side by side (`SideBySideOk`).

The capture. `CaptureInv` says of the paging that the bitmap below the next page
is known; the pages are any whole bytes, so the step is arithmetic on where one ends.

The geometry. The size patches round, the conversion multiplies: `GeometryInv` keeps
cluster size, an upper bound of the sector count and the exact one of FAT, in products
and quotients of constants that are not numbers. `DivBound`, `DivUnique` and `MultiplesOrdered`
are the lemmas by which the provers, which are weak at such products, follow.

The rebuilt volume. `RebuildInv`, relative to `SoundInv`, says in which phase what is
written: every cluster of the image has a place of its own (`Lands`), the disk holds
there what it should (`DiskIs`, but for what a size patch strikes: the last cluster and
the FAT16 label, `Struck`), which records were relocated, what bitmap and mirror hold
(`TablesAre`), and where the boot sector points (`PointersAre`). Rewriting while
reading is sound because relocating a run list twice is relocating it once
(`RelocatedOnce`) and the table can be read through record 0 all the time
(`AllReadable`). That a plan never overflows later is that the simulation judged
the same map the dry run judges, which `RebuildInv` carries across the stream.

The boot repair. What a repair has seen a call ago need not be so now, so the claim
rests on who else may be at it. `BootInv` says, as long as no repair has run into another
(`Orderly`): at most one worker is in a repair; a repair that has found the store still has it
when it unlinks the `.bak` and when it renames; and so the store and the one set aside are never
both gone. With no repair begun the old store is in its place; with one, where the worker
stands tells where it is (`OneRepair`): in its place up to the rename, aside after it.
Steps are sorted into those that put no worker into a repair (`Calm`: all of jobs,
windows, closing and dying) and touch no store (`Aloof`), and those of a repair.
Nothing is assumed of users, machines and the number of workers.

The history. A record is written when a window takes an answer, long after the
work it tells of, so `HistoryInv` follows the claim from its origin: a worker is
`Honest` (it says "ok" only with an image that was finalized and, if it verified,
is as captured; before it has begun it has no outcome; while it captures, its
image is its own number), the disks that wait have all not begun and stand in
order (so that starting one disturbs no other), a finalized file holds a finalized
image (so that a verify of any path tells of one), and both the list in memory and
the one on disk are true, since a restart takes the second for the first. What
was true of an image stays true: the sets of sound and of finalized images only
grow.

No backup lost. The step that could clobber is the truncation at the start of a
capture, long after the click that asked whether the file exists.
`ClobberInv`, on top of `HistoryInv`, says what must not happen in between: every
worker that will still write is the job of the window or in its queue, no two
have a file in common, and the file of each is not finalized unless the user
agreed (`Files`); a queue belongs to a backup that runs (`Running`), while there is one
no dialog or validation waits that would start another job (`Shut`), and while the
question before an overwrite waits nothing runs and nothing else waits (`Held`).
The last two are where the guards of `main.rs` that are not the same everywhere
(`ModalOpen`, `Busy`) are shown to be enough together.

What tools leave. `UsedInOrder` says that a worker keeps its kind and that numbers are
used in order, so a new start never takes the place of a tool. `LeftInv` is about who owes
what. Each worker answers for its own letters (`LettersOwed`), the service for which there is
one who will start it (`ServiceOwed`). The hive is shared by name: any user may load it,
another may unload it under the hands of the first, or find it loaded. `HiveOwed` says
that an unloaded hive has no key open, that a loaded one has someone on the way to
unload it, the thread of the window included, and that each key belongs to one who has yet to
close it: as long as an unload is refused because of a key, its owner is still to come, and the
last of them finds no key open. That is why the key must be closed before the unload on
every way out, and why a tool that returned early when a key does not open would
leave the hive. `RebuildInv` adds that of two repairs at work both are known to have met
(`crowded`), and that one that met none has no store and no log before `bcdboot`.

The disk of a guest. Sessions go by image, but the boot thread is given a path, and takes
many steps from the question to the running guest. `GuestInv` says that meanwhile no
backup is written and no question to overwrite waits (`Quiet`, where `ClobberInv`
supplies that a live job keeps the boot button shut), so the file at the path still holds
the image the boot began with (`Boot`), and that an overlay lies on the image of its own session
(`Kept`), also one that an earlier process left.

Writable drives. Whether a drive that becomes writable shows old writes depends on what is
in the scratch directory by then and on which drives lie on it. `DriveInv` says that the child
of every writable drive is there (`ChildrenThere`) and that no other drive has the same
(`Unshared`): the child of a drive in use can be neither removed nor made anew, so a copy of the
backup mounted beside it stays read-only; without the process there are no drives, so
the sweep at the start, as far as it gets, takes no child away from one (`DrivesGone`).
A child that no clean-up could remove makes the creation fail. So the argument rests on two
things known of Windows (section 6), not on any of the removals, which are all best effort.

Reads of a mounted image. `ReadInv` says of the read being served that the buffer is
a prefix of what should come: that each sector is in at most one partition, extent and
chunk (`OneOwner`, `OneHolder`), and so what the code finds by searching is what the
property defines by place, is a lemma about the disk; two chunks of an extent are apart
because one begins where the sum of those before it ends (`ChunksApart`). That sum is a
recursive function over the slots. TLAPS gives such a function as a choice, so it is
first shown by induction that there is one (`SumsExist`), then what it computes
(`BeforeIs`). The cache: `StoreOk` says that the order list is the end of the history of
uses, nothing twice, that it lists what the cache holds, and that this is good. It
holds of every store an access may leave, prefetches included.

The container. `Layout` says that while the writer runs the file ends at or before the
place of the next write, the room for the index is empty until the index is written, and the
head of the open stream is where it will be patched; each write is behind the end,
in that room, or a patch of one cell. `Footers` says that a footer is the last cell of a
finished file and no other: nothing but `WriteFooter` makes one, and damage does
not, so what opens was finished and not cut, and its hashes are of what was
written. `RecordsAre` follows a stream chunk by chunk: its records are in order and
hold the plan up to where capture is (`Recorded`). The full verification then needs
no count: each row that parses has a length, damage does not change it to none, the
cells there hash to the record with the row's number, and there are as many rows as
records. So what the rows decode to is what was recorded. The proof does not use that
`verify_structure` checks coverage: that check is not what makes the contents right, nor does it
protect the extents on the stored side (`ContainerTables.cfg`, section 4).

Only model-checked: all liveness (`CallsReturn`, `RestoreReturns`, `RunReturns`,
`ReadsReturn`, `PlanReturns`, `JobsEnd`), since fairness and ENABLED are
beyond the prover. Every invariant and every action property that a passing run checks has a
theorem. The library's induction theorems take an operator as a parameter, which the
installed provers cannot instantiate; where an induction on a
number is needed it is done over a set, by the least counterexample.
What a fold computes for every input is not proved: the one fold left is `Total` of
`PhnxContainer`, on which no theorem depends.

## 6. Abstractions

* A chunk in `Backup` is one block, and a version never comes back, so two
  reads agree exactly when nothing was written between them.
* A hash is the value it covers: collisions do not exist.
* Bytes of one structure never parse as another. Stored numbers are natural
  numbers: the underflow of `container.rs` 798 on a corrupted count is a file
  that does not parse.
* A shadow Windows made but did not report is no shadow to `Backup`.
* The FAT and exFAT planners are, in `Backup`, the same choice as the NTFS one:
  the allocated blocks, or all of them.
* `Backup` looks at a cancel during the image verification per partition, the
  code per chunk.
* Damage in `RestoreStream` does not change between the read of a chunk and the
  end of the restore.
* In `DiskJobs` the live table does not change while the user edits; an NTFS
  shrink places data somewhere free below the end; bringing the disk online and
  extending volumes never fail a run; entries of the table have a place and a
  source, not a type, flags or a GUID.
* In `VolumeRestore` the room of an MFT record is counted in runs, not in bytes;
  every record is small enough to lie in one cluster; attribute lists and
  records that do not parse are left out; free runs of equal length may be taken
  in any order.
* In `Desktop` a click and what it does are one step of the window's thread; the
  dialogs that delete a history row and that enable writes, under which nothing
  can happen, are one step with their answer; the inside of a verify, restore or clone is
  its outcome.
* Of Windows it is assumed that a virtual disk that is attached cannot be deleted, that
  `CreateVirtualDisk` fails where a file of that name is, that a hive is not unloaded
  while a key of it is open, and that the keys of a process are closed when it ends.
* The state that the Administrator picker shows may be that of an earlier read: either switch
  can be asked for. The state is read whenever the picker is up, not only when it is stale.
* The cancel flag of a tool is not kept, since no tool looks at it. The three logs of a boot
  store are one.

## 7. Not modelled

Version 1 files, quick (sampled) verification, progress figures; the byte layout
of boot sectors, MFT records, GPT, MBR, VHD and VHDX structures; the search for
the smallest target in `infeasible_error`; the partition byte reader
(`partreader.rs`), which has no case `ChunkStore` lacks; enumeration and
classification of disks; settings and old schemas; the command line of QEMU,
acceleration probing, network link and shares; downloads and the updater; drawing;
the CLI, launcher, installer and system tests. They hold no state that several
actors change, or are calls of external programs.

Within modelled components: two processes of the application at once (they share
the temporary names of `appdata.rs` 457 and of mounts), the served name that two mounts
of copies of one backup share (they do share their child in `Mounts`), and a junction that a VM start sweeps under another
process. `Desktop` has one process; the application's own single-instance guard
makes the second rare, not impossible (the CLI mounts and boots, too).

## 8. Open plan

Theorems worth proving next: the refinements of the specifications below, step by step,
as `EncodeImplementsStream` is.

Abstract specifications worth stating: a restored partition as an atomic
copy that either completes or leaves a prefix, implemented by `RestoreStream`;
a backup as a snapshot taken at one instant, implemented by `Backup` for
lettered volumes.
