---------------------------- MODULE VolumeImage ----------------------------
(* One volume from capture planning to restore: which clusters are used
   (phoenix-capture's fat.rs, ntfs.rs, refs.rs and the paged FSCTL bitmap of
   reader.rs).  Places are cluster numbers; boot sector fields are counted in
   units of 512 bytes (one Lba). *)
EXTENDS Integers, FiniteSets, Sequences, SequencesExt

CONSTANTS
    Jobs,           \* [vol, target, convert]: a volume, the clusters of its new
                    \* partition, and whether its sectors become 512 bytes
    ClusterLbas,    \* Lbas of a cluster
    PageClusters,   \* clusters one byte of the bitmap describes
    Reserve         \* FS_TRAILING_RESERVE

Boot == 0           \* the cluster of the boot sector
Sparse == -1
Kinds == {"ntfs", "refs", "fat16", "fat32", "exfat"}
Mft == 0
Mirror == 1
Log == 2
Bits == 3

(* A volume has a kind, the clusters of its partition, the Lbas of a sector, the
   clusters before its heap (FAT only), the clusters in use, and, on NTFS, the
   clusters each MFT record names, in file order, where its runs start, and the
   most runs the record has room for. *)
VolumeOk(v) ==
    /\ v.fs \in Kinds /\ v.size \in Nat /\ v.head \in Nat /\ v.bps \in Nat \ {0}
    /\ v.used \subseteq 0..(v.size - 1)
    /\ \A r \in DOMAIN v.runs : Range(v.runs[r]) \subseteq v.used \cup {Sparse}
ASSUME JobsAssumption ==
    /\ \A j \in Jobs : VolumeOk(j.vol) /\ j.target \in Nat \ {0} /\ j.convert \in BOOLEAN
    /\ ClusterLbas \in Nat \ {0} /\ PageClusters \in Nat \ {0} /\ Reserve \in Nat

VARIABLES job, phase,
    nextLcn,        \* first cluster the bitmap is still unknown of
    marked,         \* clusters the bitmap read so far shows in use
    captured        \* the clusters of the image's extents
captureVars == <<nextLcn, marked, captured>>

Vol == job.vol
Target == job.target
Shrinking == Target < Vol.size
IsKind(k) == Vol.fs = k

\* TotalSectors is one less than the partition has: the last one holds a copy of
\* the boot sector.  ReFS counts them all.
TotalSectors(lbas, bps) == lbas \div bps - 1
TotalClusters ==
    IF IsKind("ntfs")
    THEN (TotalSectors(Vol.size * ClusterLbas, Vol.bps) * Vol.bps) \div ClusterLbas
    ELSE Vol.size

\* What the extents of a plan cover; a plan is never empty.
Covering(S) == IF S = {} THEN {Boot} ELSE S

\* The reserved sectors and tables before the heap, and the clusters the file
\* allocation table, or the allocation bitmap of exFAT, gives as used.
HeapPlan ==
    /\ captured' = Covering(0..(Vol.head - 1) \cup Vol.used)
    /\ phase' = "fit"
    /\ UNCHANGED <<job, nextLcn, marked>>
PlanFat == phase = "plan" /\ Vol.fs \in {"fat16", "fat32"} /\ HeapPlan
PlanExfat == phase = "plan" /\ IsKind("exfat") /\ HeapPlan

\* The other two ask the driver, for as many clusters as the boot sector counts.
PlanNtfs ==
    /\ phase = "plan" /\ IsKind("ntfs")
    /\ phase' = "bitmap"
    /\ UNCHANGED <<job, captureVars>>
PlanRefs ==
    /\ phase = "plan" /\ IsKind("refs")
    /\ phase' = "bitmap"
    /\ UNCHANGED <<job, captureVars>>

\* One FSCTL_GET_VOLUME_BITMAP: whole bytes from where the last one stopped, as
\* many as the driver cares to give.
LastPage(end) == end + Reserve >= TotalClusters
\* Mutant: the page that starts the read is dropped when a second one follows.
ReadBitmapLastOnly ==
    /\ phase = "bitmap"
    /\ \E bytes \in 1..((TotalClusters - nextLcn + PageClusters - 1) \div PageClusters) :
         LET end == nextLcn + bytes * PageClusters
             seen == Vol.used \cap nextLcn..(end - 1) \cap 0..(TotalClusters - 1)
         IN  /\ marked' = seen
             /\ nextLcn' = end
             /\ IF LastPage(end)
                THEN phase' = "fit" /\ captured' = Covering(seen)
                ELSE UNCHANGED <<phase, captured>>
    /\ UNCHANGED job
ReadBitmap ==
    /\ phase = "bitmap"
    /\ \E bytes \in 1..((TotalClusters - nextLcn + PageClusters - 1) \div PageClusters) :
         LET end == nextLcn + bytes * PageClusters
             seen == marked \cup (Vol.used \cap nextLcn..(end - 1) \cap 0..(TotalClusters - 1))
         IN  /\ marked' = seen
             /\ nextLcn' = end
             /\ IF LastPage(end)
                THEN phase' = "fit" /\ captured' = Covering(seen)
                ELSE UNCHANGED <<phase, captured>>
    /\ UNCHANGED job
\* A rejected probe at the end keeps what was read; any other error captures all.
BitmapRejected ==
    /\ phase = "bitmap" /\ nextLcn + Reserve >= TotalClusters
    /\ captured' = Covering(marked)
    /\ phase' = "fit"
    /\ UNCHANGED <<job, nextLcn, marked>>
BitmapUnavailable ==
    /\ phase = "bitmap"
    /\ captured' = Covering(0..(TotalClusters - 1))
    /\ phase' = "fit"
    /\ UNCHANGED <<job, nextLcn, marked>>

CaptureNext ==
    \/ PlanFat \/ PlanExfat \/ PlanNtfs \/ PlanRefs
    \/ ReadBitmap \/ BitmapRejected \/ BitmapUnavailable
=============================================================================
