-------------------------- MODULE MCVolumeRestore --------------------------
(* NTFS volumes: loose ones of 16 clusters, 11 used, the MFT in two places and a
   file in three, with two gaps anywhere; tight ones whose free space below the
   new end (runs of 3, 1 and 1) is just enough for two pieces of 3 and 2 clusters
   beyond it, whoever owns them.  And small FAT and ReFS volumes. *)
EXTENDS VolumeRestore

CONSTANTS Targets, Slacks

Free == -1
\* Cluster by cluster, the record that owns it; cluster 0 is the boot sector's.
Orders == {
    <<0, 0, 1, 2, 3, 4, 5, 4, 5, 4>>,
    <<0, 1, 2, 3, 4, 5, 4, 5, 4, 0>>,
    <<4, 5, 4, 2, 4, 5, 3, 1, 0, 0>>,
    <<5, 5, 4, 4, 0, 4, 3, 2, 1, 0>>,
    <<4, 2, 4, 3, 4, 5, 0, 1, 5, 0>>}
Gaps == {{a, a + 1, b, b + 1} : <<a, b>> \in {x \in (1..13) \X (1..13) : x[1] + 1 < x[2]}}
Loose(o, g) == [c \in 1..14 |-> IF c \in g THEN Free ELSE o[c - Cardinality({x \in g : x < c})]]
Tight(a) == <<0, 0, Free, Free, Free, 1, Free, 2, Free, 3, a[1], a[2], a[3], Free, a[4], a[5]>>

NtfsVolume(owner, slack, bps) ==
    LET owned == [r \in 0..5 |-> SetToSortSeq({c \in DOMAIN owner : owner[c] = r}, <)]
        runs == [r \in 0..5 |-> IF r = 5 THEN Append(owned[r], Sparse) ELSE owned[r]]
        cuts == [r \in 0..5 |->
                    {i \in DOMAIN runs[r] : i = 1 \/ runs[r][i] # runs[r][i - 1] + 1}]
    IN  [fs |-> "ntfs", size |-> Len(owner) + 2, bps |-> bps, head |-> 0,
         used |-> {0} \cup {c \in DOMAIN owner : owner[c] # Free}, runs |-> runs, cuts |-> cuts,
         room |-> [r \in 0..5 |-> Cardinality(cuts[r]) + slack]]
OtherVolume(fs, size, head, used, bps) ==
    [fs |-> fs, size |-> size, bps |-> bps, head |-> head, used |-> used,
     runs |-> <<>>, cuts |-> <<>>, room |-> <<>>]
Job(v, t, convert) == [vol |-> v, target |-> t, convert |-> convert]

MCJobs ==
    {Job(NtfsVolume(Loose(o, g), s, 1), t, FALSE) :
        o \in Orders, g \in Gaps, s \in Slacks, t \in Targets}
    \cup {Job(NtfsVolume(Tight(a), s, 1), t, FALSE) :
              a \in [1..5 -> {0, 4, 5}], s \in Slacks, t \in {11, 12}}
    \cup {Job(NtfsVolume(Loose(o, {1, 2, 7, 8}), 0, 2), t, c) :
              o \in Orders, t \in {15, 16, 18}, c \in BOOLEAN}
    \cup {Job(OtherVolume(fs, 8, 2, u, b), t, c) :
              fs \in {"fat16", "fat32", "exfat"}, u \in SUBSET {2, 4, 6}, b \in {1, 2},
              t \in {2, 6, 8, 10}, c \in BOOLEAN}
    \cup {Job(OtherVolume("refs", n, 0, {0, n - 1}, 2), t, FALSE) : n \in {3, 9}, t \in {8, 9, 12}}
=============================================================================
