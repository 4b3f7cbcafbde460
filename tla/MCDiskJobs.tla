----------------------------- MODULE MCDiskJobs -----------------------------
(* A GPT target of twelve blocks, an alignment of two, with two mounted
   partitions and a gap behind each.  The sources: a FAT partition with its data
   in front, an NTFS partition with data at its end, and a ReFS partition that a
   full-disk restore onto this target has to cut. *)
EXTENDS DiskJobs

Part(start, size, fs, mounted) ==
    [start |-> start, size |-> size, fs |-> fs, mounted |-> mounted]
Disk(second) == [size |-> 12, gpt |-> TRUE, guid |-> TRUE,
                 parts |-> <<Part(2, 3, "ntfs", TRUE), second>>]
TwoLive == Disk(Part(6, 2, "ntfs", TRUE))
\* The second one holds a filesystem Windows does not know: nothing guards it.
ForeignBehind == Disk(Part(6, 2, "other", FALSE))
From(start, size, fs, data) == [start |-> start, size |-> size, fs |-> fs, data |-> data]
ThreeKinds == [gpt |-> TRUE,
               parts |-> <<From(2, 3, "fat", {0, 1}), From(6, 5, "ntfs", {0, 4}),
                           From(12, 4, "refs", {0})>>]
\* A FAT partition whose data is scattered up to its end.
ScatteredFat == [gpt |-> TRUE, parts |-> <<From(2, 5, "fat", {0, 4})>>]

RestoreOnly == {"restore"}
CloneOnly == {"clone"}
Both == {"restore", "clone"}
=============================================================================
