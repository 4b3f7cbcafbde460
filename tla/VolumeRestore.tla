--------------------------- MODULE VolumeRestore ---------------------------
(* A volume written to its new partition and made to mount there: the stream,
   then, for an NTFS shrink, the rewrite of everything that names clusters
   (phoenix-capture/src/ntfs_meta.rs), the size in the boot sector (ntfs.rs,
   fat.rs) and the change to 512-byte sectors (sector_convert.rs). *)
EXTENDS ShrinkPlan

CONSTANTS
    RecordsPerCluster,  \* MFT records of a cluster
    MirrorRecords,      \* records $MFTMirr repeats
    LabelCluster        \* where the label bytes of a FAT16 boot sector point
ASSUME MirrorAssumption ==
    /\ RecordsPerCluster \in Nat \ {0} /\ MirrorRecords \in 1..RecordsPerCluster
    /\ LabelCluster \in Nat

(* An NTFS volume in order: what is used is the boot sector's cluster and what
   the records name, none of it twice, none behind the counted sectors; the MFT
   and its mirror, of one cluster, have no holes, and the MFT has every record. *)
NtfsOk(v) ==
    /\ {Mft, Mirror, Log, Bits} \subseteq DOMAIN v.runs /\ DOMAIN v.runs \subseteq Nat
    /\ v.used = {Boot} \cup ((UNION {Range(v.runs[r]) : r \in DOMAIN v.runs}) \ {Sparse})
    /\ v.used \subseteq 0..(v.size - 2)
    /\ \A r, q \in DOMAIN v.runs : r # q => Range(v.runs[r]) \cap Range(v.runs[q]) \subseteq {Sparse}
    /\ \A r \in DOMAIN v.runs : r \div RecordsPerCluster + 1 \in DOMAIN v.runs[Mft]
    /\ DOMAIN v.runs[Mirror] = {1}
    /\ Sparse \notin Range(v.runs[Mft]) \cup Range(v.runs[Mirror])
ASSUME VolumesAssumption ==
    \A j \in Jobs : /\ ClusterLbas % j.vol.bps = 0
                    /\ j.vol.fs = "ntfs" => NtfsOk(j.vol)

VARIABLES
    disk,       \* cluster of the new partition -> the source cluster whose bytes it has
    rec,        \* MFT record -> its runs, as they are on the new partition
    bits,       \* clusters the $Bitmap there marks
    mirror,     \* the records $MFTMirr repeats
    boot        \* fields of the boot sector
imageVars == <<disk, rec, bits, mirror, boot>>
vars == <<job, phase, captureVars, planVars, imageVars>>

Old == -2           \* what the target held before
LogBlank == -3      \* 0xFF
BootCopy == -4
MirrorCopy == -5

PartitionLbas == Target * ClusterLbas
SourceBoot(v) ==
    [bps |-> v.bps, spc |-> ClusterLbas \div v.bps,
     total |-> IF v.fs = "ntfs" THEN TotalSectors(v.size * ClusterLbas, v.bps)
                                ELSE (v.size * ClusterLbas) \div v.bps,
     mft |-> IF v.fs = "ntfs" THEN v.runs[Mft][1] ELSE 0,
     mirror |-> IF v.fs = "ntfs" THEN v.runs[Mirror][1] ELSE 0]

Init ==
    /\ job \in Jobs /\ phase = "plan"
    /\ nextLcn = 0 /\ marked = {} /\ captured = {}
    /\ place = [c \in {} |-> 0] /\ todo = {} /\ rest = {} /\ mode = "pack"
    /\ before = [c \in {} |-> 0] /\ queue = {} /\ pass = 0 /\ improved = FALSE
    /\ disk = [c \in 0..(job.target - 1) |-> Old]
    /\ rec = job.vol.runs /\ bits = job.vol.used
    /\ mirror = [r \in DOMAIN job.vol.runs \cap 0..(MirrorRecords - 1) |-> job.vol.runs[r]]
    /\ boot = SourceBoot(job.vol)

------------------------------------------------------------------------------
(* The stream.  RestoreStream has its threads, cuts and failures.  More data than
   the partition holds (PartitionTooSmall) was refused by the planner already. *)

LandingOn(c) == {s \in captured : Translate(s) = c}
\* The extents go out in order: of two clusters in one place the later stays.
LastOf(S) == CHOOSE s \in S : \A t \in S : t <= s
Stream ==
    /\ phase = "stream"
    /\ disk' = [c \in DOMAIN disk |-> IF LandingOn(c) = {} THEN disk[c] ELSE LastOf(LandingOn(c))]
    /\ phase' = IF IsKind("ntfs") THEN (IF Shrinking THEN "records" ELSE "size")
                ELSE IF IsKind("refs") THEN "convert" ELSE "size"
    /\ UNCHANGED <<job, captureVars, planVars, rec, bits, mirror, boot>>

------------------------------------------------------------------------------
(* rewrite_metadata_after_relocation.  The MFT is found through record 0. *)

TargetMft == Relocate(rec[Mft])
\* A record that does not read back as one ("FILE") is passed over.
Holds(mft, r) ==
    LET k == r \div RecordsPerCluster + 1
    IN  k \in DOMAIN mft /\ mft[k] \in DOMAIN disk /\ disk[mft[k]] = Vol.runs[Mft][k]
Readable(r) == Holds(TargetMft, r)
NamedBy(r) == Range(Relocate(rec[r])) \ {Sparse}

\* The dry run goes over every record before one is written.
Outgrown == {r \in Records : Readable(r) /\ NeededRuns(rec[r], Vol.cuts[r]) > Vol.room[r]}
DryRun(rewritten) ==
    IF Outgrown # {} THEN phase' = "overflow" /\ UNCHANGED rec
                     ELSE phase' = "bits" /\ rec' = rewritten
\* Mutant: the records of the file system itself keep their runs.
RewriteFileRecords ==
    /\ phase = "records"
    /\ DryRun([r \in Records |->
                  IF r > Bits /\ Readable(r) THEN Relocate(rec[r]) ELSE rec[r]])
    /\ UNCHANGED <<job, captureVars, planVars, disk, bits, mirror, boot>>
RewriteRecords ==
    /\ phase = "records"
    /\ DryRun([r \in Records |-> IF Readable(r) THEN Relocate(rec[r]) ELSE rec[r]])
    /\ UNCHANGED <<job, captureVars, planVars, disk, bits, mirror, boot>>

\* Mutant: the clusters that were moved are not marked where they went.
TruncateBitmap ==
    /\ phase = "bits"
    /\ bits' = IF Readable(Bits) THEN bits \cap 0..SafeMax ELSE bits
    /\ phase' = "log"
    /\ UNCHANGED <<job, captureVars, planVars, disk, rec, mirror, boot>>
RewriteBitmap ==
    /\ phase = "bits"
    /\ bits' = IF Readable(Bits) THEN (bits \cap 0..SafeMax) \cup Placed(place) ELSE bits
    /\ phase' = "log"
    /\ UNCHANGED <<job, captureVars, planVars, disk, rec, mirror, boot>>

StampLog ==
    /\ phase = "log"
    /\ disk' = [c \in DOMAIN disk |->
                   IF Readable(Log) /\ c \in NamedBy(Log) THEN LogBlank ELSE disk[c]]
    /\ phase' = "mirror"
    /\ UNCHANGED <<job, captureVars, planVars, rec, bits, mirror, boot>>

RewriteMirror ==
    /\ phase = "mirror"
    /\ mirror' = [r \in DOMAIN mirror |-> IF Readable(r) THEN rec[r] ELSE mirror[r]]
    /\ disk' = IF Translate(boot.mirror) \in DOMAIN disk
               THEN [disk EXCEPT ![Translate(boot.mirror)] = MirrorCopy] ELSE disk
    /\ phase' = "pointers"
    /\ UNCHANGED <<job, captureVars, planVars, rec, bits, boot>>

UpdatePointers ==
    /\ phase = "pointers"
    /\ boot' = [boot EXCEPT !.mft = Translate(@), !.mirror = Translate(@)]
    /\ phase' = "size"
    /\ UNCHANGED <<job, captureVars, planVars, disk, rec, bits, mirror>>

------------------------------------------------------------------------------
(* The size of the partition in the boot sector. *)

\* patch_ntfs_size: a larger partition keeps the old size (Windows extends it
\* later), a smaller one gets a copy of the boot sector in its last sector.
PatchNtfs ==
    /\ phase = "size" /\ IsKind("ntfs")
    /\ LET total == TotalSectors(PartitionLbas, boot.bps)
       IN  IF total < boot.total
           THEN /\ boot' = [boot EXCEPT !.total = total]
                /\ disk' = [disk EXCEPT ![SafeMax] = BootCopy]
           ELSE UNCHANGED <<boot, disk>>
    /\ phase' = "convert"
    /\ UNCHANGED <<job, captureVars, planVars, rec, bits, mirror>>

\* patch_fat_size, whose backup sector number FAT16 has no field for: what is
\* read there is text of the label.
PatchFat ==
    /\ phase = "size" /\ Vol.fs \in {"fat16", "fat32"}
    /\ LET total == PartitionLbas \div boot.bps
       IN  IF total = boot.total THEN UNCHANGED <<boot, disk>>
           ELSE /\ boot' = [boot EXCEPT !.total = total]
                /\ disk' = IF IsKind("fat16") /\ LabelCluster \in DOMAIN disk
                           THEN [disk EXCEPT ![LabelCluster] = BootCopy] ELSE disk
    /\ phase' = "convert"
    /\ UNCHANGED <<job, captureVars, planVars, rec, bits, mirror>>

\* patch_exfat_size takes the checksum over 11 sectors of a buffer of 11 * 512
\* bytes, a panic on larger sectors.
PatchExfat ==
    /\ phase = "size" /\ IsKind("exfat")
    /\ LET total == PartitionLbas \div boot.bps
       IN  IF total = boot.total THEN phase' = "convert" /\ UNCHANGED boot
           ELSE IF Target <= Vol.head \/ boot.bps > 1 THEN phase' = "failed" /\ UNCHANGED boot
           ELSE phase' = "convert" /\ boot' = [boot EXCEPT !.total = total]
    /\ UNCHANGED <<job, captureVars, planVars, disk, rec, bits, mirror>>

------------------------------------------------------------------------------
(* apply_sector_conversion: NTFS and FAT32 boot sectors of larger sectors. *)

Convertible == job.convert /\ Vol.fs \in {"ntfs", "fat32"} /\ boot.bps > 1
Unconverted ==
    /\ phase = "convert" /\ ~Convertible
    /\ phase' = "done"
    /\ UNCHANGED <<job, captureVars, planVars, imageVars>>
\* A field that is too narrow for its new value is found out only now.
ConvertOverflows ==
    /\ phase = "convert" /\ Convertible
    /\ phase' = "failed"
    /\ UNCHANGED <<job, captureVars, planVars, imageVars>>
\* Mutant: the sectors of a cluster are not scaled.
ConvertSectors ==
    /\ phase = "convert" /\ Convertible
    /\ boot' = [boot EXCEPT !.bps = 1, !.total = @ * boot.bps]
    /\ disk' = disk
    /\ phase' = "done"
    /\ UNCHANGED <<job, captureVars, planVars, rec, bits, mirror>>
Convert ==
    /\ phase = "convert" /\ Convertible
    /\ boot' = [boot EXCEPT !.bps = 1, !.spc = @ * boot.bps, !.total = @ * boot.bps]
    /\ disk' = IF IsKind("ntfs")
               THEN [disk EXCEPT ![(boot.total * boot.bps) \div ClusterLbas] = BootCopy] ELSE disk
    /\ phase' = "done"
    /\ UNCHANGED <<job, captureVars, planVars, rec, bits, mirror>>

ImageNext ==
    \/ Stream
    \/ RewriteRecords \/ RewriteBitmap \/ StampLog \/ RewriteMirror
    \/ UpdatePointers \/ PatchNtfs \/ PatchFat \/ PatchExfat
    \/ Unconverted \/ ConvertOverflows \/ Convert
Capturing == CaptureNext /\ UNCHANGED <<planVars, imageVars>>
Planning == PlanNext /\ UNCHANGED imageVars
Next == Capturing \/ Planning \/ ImageNext
Spec == Init /\ [][Next]_vars /\ WF_vars(Next)

------------------------------------------------------------------------------
(* Properties. *)

Planned == phase \notin {"plan", "bitmap", "fit"} /\ IsKind("ntfs") /\ Shrinking
WholeImage == Vol.used \subseteq captured

\* Whatever pages the driver answers in, every cluster in use is in the image;
\* only the last Reserve ones a driver did not report may be missing.
CaptureIsWhole ==
    phase \notin {"plan", "bitmap"} =>
        \A c \in Vol.used :
            c \in captured \/ (Vol.fs \in {"ntfs", "refs"} /\ c + Reserve >= TotalClusters)

\* Through packing, splitting, re-planning and eviction, every cluster past the
\* new end has exactly one place or waits for one, no two share a place, none
\* lies over data that stays or past the end, and room never runs out.
PlanIsSound ==
    (Planned /\ WholeImage) =>
        /\ \A c \in DOMAIN place : place[c] \in FreeBelow
        /\ \A c, d \in DOMAIN place : place[c] = place[d] => c = d
        /\ phase # "refused" => DOMAIN place \cup Unplaced = Above
        /\ DOMAIN place \cap Unplaced = {}
        /\ phase # "bug"

\* A plan that passed the simulation is never found not to fit after the data
\* was written: planner, dry run and rewrite agree on every record.
PreflightHolds == phase # "overflow"

\* A reader of the new volume: boot sector, record 0, the record, its runs.
RecordZero == boot.mft \in DOMAIN disk /\ disk[boot.mft] = Vol.runs[Mft][1]
Bytes(r, c) == IF r = Log /\ Shrinking THEN LogBlank
               ELSE IF r = Mirror /\ Shrinking THEN MirrorCopy ELSE c
SameBytes(r, src, dst) ==
    IF src = Sparse THEN dst = Sparse ELSE dst \in DOMAIN disk /\ disk[dst] = Bytes(r, src)
FileIsBack(r) ==
    /\ Holds(rec[Mft], r)
    /\ \A i \in DOMAIN Vol.runs[r] : SameBytes(r, Vol.runs[r][i], rec[r][i])
LastClusterFree == Shrinking => SafeMax \notin Kept \cup Placed(place)
Done == phase = "done" /\ WholeImage
\* A volume whose restore ended well gives back every file: found through its own
\* boot sector, table and run lists, each cluster holds the bytes it held.  Of an
\* NTFS shrink, when the planner left the last cluster free; and of a FAT
\* volume, where the label points outside of it.
FilesReadBack ==
    (Done /\ LastClusterFree) =>
        IF IsKind("ntfs")
        THEN RecordZero /\ \A r \in Records : FileIsBack(r)
        ELSE \A c \in Vol.used : c \in DOMAIN disk /\ disk[c] = c

\* The same without that condition, as the planner and patch_ntfs_size promise.
ShrunkFilesReadBack ==
    (Done /\ IsKind("ntfs")) => RecordZero /\ \A r \in Records : FileIsBack(r)

\* The $Bitmap of a shrunk volume marks every cluster some file or the boot sector
\* has, and no other when the image held no other; $MFTMirr repeats the records.
MetadataAgrees ==
    (Done /\ IsKind("ntfs") /\ Shrinking) =>
        LET used == (UNION {NamedBy(r) : r \in Records}) \cup {Boot}
        IN  /\ used \subseteq bits
            /\ captured = Vol.used => bits = used
            /\ \A r \in DOMAIN mirror : mirror[r] = rec[r]
            /\ LastClusterFree => disk[boot.mirror] = MirrorCopy

\* The boot sector that is left describes the partition the volume lies in, in
\* whole sectors, with the clusters it had: Windows mounts it.
GeometryMounts ==
    Done => /\ boot.spc * boot.bps = ClusterLbas
            /\ boot.total * boot.bps <= PartitionLbas
            /\ Vol.fs \in {"fat16", "fat32", "exfat"} =>
                   boot.total * boot.bps = PartitionLbas
            /\ Convertible => boot.bps = 1

\* Planning ends, whatever records disturb each other, and so does the restore.
PlanReturns == <>(phase \in {"refused", "failed", "overflow", "bug", "done"})
=============================================================================
