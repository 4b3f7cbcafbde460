----------------------------- MODULE ChunkStore -----------------------------
(* phoenix-mount's ChunkStore: a backup served as a flat disk, one read at a
   time.  A read walks the disk from its offset: zeros past the end, between
   partitions and in space no extent covers; elsewhere the chunk that covers
   the offset, taken from an LRU cache or decompressed and hashed, with the next
   chunk fetched ahead when the walk looks sequential.

   The disk is counted in sectors.  A chunk is named by its slot <<partition,
   extent, number>>, which stands for its offset in the file.  Reading a chunk
   back may fail, or give other bytes than were written, at any time. *)
EXTENDS Naturals, Sequences, FiniteSetsExt, SequencesExt

CONSTANTS
    Disk,      \* the synthesized disk: its total size and its partitions
    MaxRead,   \* bound: sectors one read asks for
    CacheCap   \* cache_cap

\* A partition's place on the disk and its extents, each a run of sectors; `lens` are
\* the lengths of the extent's chunks, in stream order.
ExtentType == [start : Nat, count : Nat, lens : Seq(Nat)]
DiskType == [total : Nat,
             parts : Seq([offset : Nat, size : Nat, extents : Seq(ExtentType)])]

ASSUME ChunkStoreAssumption ==
    /\ Disk \in DiskType
    /\ \A p, q \in DOMAIN Disk.parts :
          p < q => Disk.parts[p].offset + Disk.parts[p].size <= Disk.parts[q].offset
    /\ \A p \in DOMAIN Disk.parts :
          LET part == Disk.parts[p]
              list == part.extents
          IN /\ part.offset + part.size <= Disk.total
             /\ \A d, e \in DOMAIN list : d < e => list[d].start + list[d].count <= list[e].start
             /\ \A e \in DOMAIN list : list[e].start + list[e].count <= part.size
    /\ MaxRead \in Nat \ {0} /\ CacheCap \in Nat \ {0}

VARIABLES
    cache,   \* cached chunks: slot to "good" or "garbled" bytes
    order,   \* cache_order: slots, least recently used first
    last,    \* last_chunk_slot: <<>> or <<slot>>
    read,    \* the read being served: its offset and length
    buf,     \* the bytes filled so far
    result,  \* what read_at returned, or "busy"
    failed,  \* history: the slots whose loading failed during this read
    uses     \* history: every slot ever cached, by its last use

vars == <<cache, order, last, read, buf, result, failed, uses>>

Zero == <<0, 0>>           \* a sector that was never captured
Garbage == <<0, 1>>        \* bytes nobody wrote

Part(p) == Disk.parts[p]
Slots == UNION {UNION {{<<p, e, c>> : c \in DOMAIN Part(p).extents[e].lens} :
                       e \in DOMAIN Part(p).extents} : p \in DOMAIN Disk.parts}
Extent(s) == Part(s[1]).extents[s[2]]
Length == [s \in Slots |-> Extent(s).lens[s[3]]]

\* Where a chunk begins in its extent: where the one before it ends.
Previous(s) == <<s[1], s[2], s[3] - 1>>
Before[s \in Slots] == IF s[3] = 1 THEN 0 ELSE Before[Previous(s)] + Length[Previous(s)]
\* An extent may promise more than its chunks hold, but not less.
ASSUME ChunksAssumption == \A s \in Slots : Before[s] + Length[s] <= Extent(s).count

\* Mutant: every chunk begins a full stride, the first one's length, further on.
ChunkStartByStride == [s \in Slots |-> (s[3] - 1) * Extent(s).lens[1]]
\* Chunks can be any length: one begins where those before it end.
ChunkStart == Before

\* The partition, and in it the extent, that sector a of the disk lies in.
Within(x, start, size) == x >= start /\ x < start + size
Owners == [a \in 0 .. Disk.total + MaxRead |->
    {p \in DOMAIN Disk.parts : Within(a, Part(p).offset, Part(p).size)}]
Covering == [a \in DOMAIN Owners |->
    UNION {{<<p, e>> : e \in {d \in DOMAIN Part(p).extents :
        Within(a, Part(p).offset + Part(p).extents[d].start, Part(p).extents[d].count)}} :
           p \in Owners[a]}]
\* The chunk slot that holds it.
Holding == [a \in DOMAIN Owners |->
    {s \in Slots : /\ <<s[1], s[2]>> \in Covering[a]
                   /\ Within(a, Part(s[1]).offset + Extent(s).start + ChunkStart[s], Length[s])}]

\* What the disk should read at sector a: the captured sector, named by partition
\* and place in it, where an extent covers it.
Expected(a) ==
    IF Covering[a] = {} THEN Zero
    ELSE LET p == CHOOSE q \in Owners[a] : TRUE IN <<p, a - Part(p).offset>>

\* The sectors chunk s holds, when its bytes are good.
GoodBytes == [s \in Slots |->
    [i \in 1 .. Length[s] |-> <<s[1], Extent(s).start + Before[s] + i - 1>>]]
Bytes(s, quality) ==
    IF quality = "good" THEN GoodBytes[s] ELSE [i \in 1 .. Length[s] |-> Garbage]

Init ==
    /\ cache = <<>> /\ order = <<>> /\ last = <<>>
    /\ read = [offset |-> 0, len |-> 0] /\ buf = <<>> /\ result = "ok"
    /\ failed = {} /\ uses = <<>>

-----------------------------------------------------------------------------
Request ==
    /\ result # "busy"
    /\ \E offset \in 0 .. Disk.total, len \in 1 .. MaxRead :
          read' = [offset |-> offset, len |-> len]
    /\ buf' = <<>> /\ result' = "busy" /\ failed' = {}
    /\ UNCHANGED <<cache, order, last, uses>>

here == read.offset + Len(buf)
left == read.len - Len(buf)
Fill(values) ==
    /\ buf' = buf \o values
    /\ result' = IF Len(values) = left THEN "ok" ELSE "busy"
Zeros(n) == [i \in 1 .. n |-> Zero]

\* Past the end of the disk the rest stays zero.
PastEnd ==
    /\ result = "busy" /\ here >= Disk.total
    /\ Fill(Zeros(left))
    /\ UNCHANGED <<cache, order, last, read, failed, uses>>

\* Between partitions: on to the next one, or to the end of the disk.
BetweenPartitions ==
    /\ result = "busy" /\ here < Disk.total /\ Owners[here] = {}
    /\ LET later == {Part(p).offset : p \in DOMAIN Disk.parts} \ (0 .. here)
           next == IF later = {} THEN Disk.total ELSE Min(later)
       IN Fill(Zeros(Min({next - here, left})))
    /\ UNCHANGED <<cache, order, last, read, failed, uses>>

\* read_within_partition, in the partition that owns the sector.
InPartition == result = "busy" /\ here < Disk.total /\ Owners[here] # {}
OwnerHere == Part(CHOOSE p \in Owners[here] : TRUE)
PartLeft == OwnerHere.offset + OwnerHere.size - here
ExtentsAhead == {OwnerHere.offset + OwnerHere.extents[e].start - here :
                    e \in DOMAIN OwnerHere.extents} \intersect (1 .. PartLeft)

\* Mutant: to the next extent; where none is left, not a sector further.
GapLengthToExtent == IF ExtentsAhead = {} THEN 0 ELSE Min(ExtentsAhead)
\* To the next extent, or to the end of the partition.
GapLength == IF ExtentsAhead = {} THEN PartLeft ELSE Min(ExtentsAhead)

FreeSpace ==
    /\ InPartition /\ Covering[here] = {}
    /\ Fill(Zeros(Min({left, PartLeft, GapLength})))
    /\ last' = <<>>
    /\ UNCHANGED <<cache, order, read, failed, uses>>

\* The extent promises more than its chunks hold.
NotCovered ==
    /\ InPartition /\ Covering[here] # {} /\ Holding[here] = {}
    /\ result' = "error"
    /\ UNCHANGED <<cache, order, last, read, buf, failed, uses>>

-----------------------------------------------------------------------------
(* The cache, as a record of its variables. *)

Store == [cache |-> cache, order |-> order, uses |-> uses]
\* s, taken out where it last is, goes to the end.
Moved(s, list) ==
    LET at == {i \in DOMAIN list : list[i] = s}
    IN  Append(IF at = {} THEN list ELSE RemoveAt(list, Max(at)), s)

\* Mutant: first in, first out, as the cache once was.
TouchedNot(st, s) == [st EXCEPT !.uses = Moved(s, @)]
\* touch: a hit makes the chunk the most recently used.
Touched(st, s) ==
    [cache |-> st.cache, order |-> Moved(s, st.order), uses |-> Moved(s, st.uses)]

\* A full cache gives up its least recently used chunk for the new one.
Inserted(st, s, quality) ==
    LET kept == IF Len(st.order) >= CacheCap THEN Tail(st.order) ELSE st.order
    IN [cache |-> [t \in ToSet(kept) \union {s} |->
                      IF t = s THEN quality ELSE st.cache[t]],
        order |-> Append(kept, s), uses |-> Moved(s, st.uses)]

\* What read_chunk may give, and what of it hashes to the manifest's record.
Fetched == {"good", "garbled", "failed"}
Hashes(q) == q = "good"

\* load_chunk: the stores it may leave, and whether the chunk was got.
Load(st, s) ==
    IF s \in DOMAIN st.cache THEN {[st |-> Touched(st, s), got |-> TRUE]}
    ELSE {IF Hashes(q) THEN [st |-> Inserted(st, s, q), got |-> TRUE]
          ELSE [st |-> st, got |-> FALSE] : q \in Fetched}

\* prefetch_chunk: what is cached stays where it is, what fails is forgotten.
Prefetch(st, s) ==
    IF s \in DOMAIN st.cache THEN {st}
    ELSE {IF Hashes(q) THEN Inserted(st, s, q) ELSE st : q \in Fetched}

\* The second of two neighbouring chunks in a row: fetch the one behind it.
Ahead(s) == last = <<Previous(s)>> /\ s[3] < Len(Extent(s).lens)

ReadChunk ==
    /\ InPartition /\ Holding[here] # {}
    /\ LET s == CHOOSE t \in Holding[here] : TRUE
           next == <<s[1], s[2], s[3] + 1>>
           skip == here - Part(s[1]).offset - Extent(s).start - ChunkStart[s]
       IN \E loaded \in Load(Store, s) :
             IF loaded.got
             THEN \E st \in IF Ahead(s) THEN Prefetch(loaded.st, next) ELSE {loaded.st} :
                     /\ cache' = st.cache /\ order' = st.order /\ uses' = st.uses
                     /\ last' = <<s>>
                     /\ Fill(SubSeq(Bytes(s, loaded.st.cache[s]), skip + 1,
                                    Min({skip + left, skip + PartLeft, Length[s]})))
                     /\ UNCHANGED failed
             ELSE /\ result' = "error"
                  /\ failed' = failed \union {s}
                  /\ UNCHANGED <<cache, order, uses, last, buf>>
    /\ UNCHANGED read

-----------------------------------------------------------------------------
Serve == PastEnd \/ BetweenPartitions \/ FreeSpace \/ NotCovered \/ ReadChunk
Next == Request \/ Serve
Spec == Init /\ [][Next]_vars
\* A read once taken up is served to its end by its thread.
FairSpec == Spec /\ WF_vars(Serve)

-----------------------------------------------------------------------------
(* Properties. *)

TypeOK ==
    /\ order \in Seq(Slots) /\ Len(order) <= CacheCap
    /\ ToSet(order) = DOMAIN cache
    /\ \A s \in DOMAIN cache : cache[s] \in {"good", "garbled"}
    /\ last = <<>> \/ \E s \in Slots : last = <<s>>
    /\ read.offset \in 0 .. Disk.total /\ read.len \in 0 .. MaxRead
    /\ Len(buf) <= read.len
    /\ result \in {"busy", "ok", "error"}
    /\ failed \subseteq Slots

\* Whatever is cached, evicted, fetched ahead or damaged meanwhile, a read that
\* succeeds gives exactly the captured sectors, and zeros elsewhere; it fails only
\* for a sector it asks for and has come to, whose chunk could not be had or whose
\* extent has none for it, never for a chunk fetched ahead.
ReadsAreFaithful ==
    /\ result = "ok" =>
          buf = [i \in 1 .. read.len |-> Expected(read.offset + i - 1)]
    /\ result = "error" =>
          /\ left > 0
          /\ Covering[here] # {} /\ Holding[here] \subseteq failed

\* The cache is a true LRU: it holds the most recently used of all the chunks
\* ever cached, in that order, each once.
MostRecentKept ==
    /\ Len(order) = Min({CacheCap, Len(uses)})
    /\ order = SubSeq(uses, Len(uses) - Len(order) + 1, Len(uses))

\* However the extents, the chunks and the read fall, serving it ends.
ReadsReturn == result = "busy" ~> result # "busy"
=============================================================================
