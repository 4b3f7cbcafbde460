---------------------------- MODULE PhnxContainer ----------------------------
(* The .phnx file: what PhnxWriter lays down and in which order, what is left
   after a crash, a power cut or bit rot, and what PhnxReader accepts.

   The file is a sequence of cells, one per structure the reader parses as a
   whole: header, index entry, stream head, extent, piece of a compressed
   chunk, row of a chunk table, manifest, footer.  Offsets count cells and are
   0-based, as in the code.  A checksum is modelled by the value it covers, so
   it holds exactly when that value is unchanged. *)
EXTENDS Integers, Sequences, FiniteSetsExt

CONSTANTS
    Parts,          \* the partitions of a backup are 1 .. Parts
    Reserve,        \* INDEX_TABLE_RESERVE: index entries the layout has room for
    ExtentTables,   \* sequences of extents a partition may be planned as: in disk order
    Packed,         \* lengths a compressed chunk may have
    MaxDamage       \* bound: cells that crash, power cut or rot may change

Extents == [start : Nat, count : Nat \ {0}]

ASSUME ContainerAssumption ==
    /\ Parts \in Nat \ {0}
    /\ Reserve \in Nat /\ Parts <= Reserve
    /\ \A t \in ExtentTables : /\ t \in Seq(Extents)
                               /\ \A x, y \in DOMAIN t : x < y => t[x].start + t[x].count <= t[y].start
    /\ Packed \subseteq Nat \ {0}
    /\ MaxDamage \in Nat

VARIABLES
    file,     \* the cells of the file
    at,       \* PhnxWriter.current_offset
    entries,  \* PhnxWriter.index_entries
    phase,    \* which call the writer is in, or "closed"
    stream,   \* PartitionStreamWriter: offset, plan, and where capture is in it
    rows,     \* EncodeOutput.chunk_indices of the open stream
    records,  \* records[p]: the manifest's chunk records of partition p
    tables,   \* history: [extents, rows] of every finished stream
    crashed,  \* history: the writer never finished
    cut,      \* history: the closed file lost its tail
    rotted    \* history: how many cells of the closed file were changed

harm == <<crashed, cut, rotted>>
vars == <<file, at, entries, phase, stream, rows, records, tables, harm>>

-----------------------------------------------------------------------------
(* Cells. *)

Hole == [is |-> "hole"]      \* never written: zeros
Junk == [is |-> "junk"]      \* changed bytes
HeaderCell(count) == [is |-> "header", count |-> count]
EntryCell(off, len) == [is |-> "entry", off |-> off, len |-> len]
HeadCell(extents, chunks) == [is |-> "head", extents |-> extents, chunks |-> chunks]
ExtentCell(e) == [is |-> "extent", start |-> e.start, count |-> e.count]
BlobCell(data, piece, of) == [is |-> "blob", data |-> data, piece |-> piece, of |-> of]
RowCell(r) == [is |-> "row", off |-> r.off, clen |-> r.clen, ulen |-> r.ulen, ext |-> r.ext]
ManifestCell(recs) == [is |-> "manifest", records |-> recs]
FooterCell(moff, mhash, icount, total, ihash) ==
    [is |-> "footer", moff |-> moff, mhash |-> mhash, icount |-> icount,
     total |-> total, ihash |-> ihash]

\* A seek and a write: past the end, the gap reads as zeros.
Put(f, off, cells) ==
    [i \in 1 .. Max({Len(f), off + Len(cells)}) |->
        IF i - off \in DOMAIN cells THEN cells[i - off]
        ELSE IF i <= Len(f) THEN f[i] ELSE Hole]

\* The cells off .. off + n - 1, or <<>> when they are not all in the file.
Get(f, off, n) ==
    IF off >= 0 /\ n >= 0 /\ off + n <= Len(f) THEN SubSeq(f, off + 1, off + n) ELSE <<>>

Map(s, Op(_)) == [i \in DOMAIN s |-> Op(s[i])]
Total(S, Op(_)) == MapThenSumSet(Op, S)

-----------------------------------------------------------------------------
(* The writer. *)

NoStream == [off |-> 0, plan |-> <<>>, ext |-> 1, filled |-> 0]

Init ==
    /\ file = <<>> /\ at = 0 /\ entries = <<>> /\ phase = "create"
    /\ stream = NoStream /\ rows = <<>> /\ records = <<>> /\ tables = <<>>
    /\ crashed = FALSE /\ cut = FALSE /\ rotted = 0

\* create_inner: a header that counts no partitions, then room for the index.
Create ==
    /\ phase = "create"
    /\ file' = Put(<<>>, 0, <<HeaderCell(0)>>)
    /\ at' = 1 + Reserve
    /\ phase' = "between"
    /\ UNCHANGED <<entries, stream, rows, records, tables, harm>>

\* Mutant: the header size an earlier version had, which ends inside the extents.
HeadSizeShort(plan) == Len(plan)
HeadSize(plan) == 1 + Len(plan)

\* begin_partition_stream_inner: the head, its chunk count yet unknown, and the
\* extents; chunk data starts behind them.
BeginStream ==
    /\ phase = "between" /\ Len(entries) < Parts
    /\ \E plan \in ExtentTables :
          /\ file' = Put(file, at, <<HeadCell(Len(plan), 0)>> \o Map(plan, ExtentCell))
          /\ at' = at + HeadSize(plan)
          /\ stream' = [off |-> at, plan |-> plan, ext |-> 1, filled |-> 0]
    /\ entries' = Append(entries, EntryCell(at, 0))
    /\ rows' = <<>>
    /\ records' = Append(records, <<>>)
    /\ phase' = "stream"
    /\ UNCHANGED <<tables, harm>>

\* The next bytes of the plan, as many as one read returned: never across the
\* end of an extent.  The pipeline appends them compressed and records them.
WriteChunk ==
    /\ phase = "stream" /\ stream.ext <= Len(stream.plan)
    /\ LET e == stream.plan[stream.ext]
           p == Len(entries)
       IN \E ulen \in 1 .. e.count - stream.filled, clen \in Packed :
             LET data == [part |-> p, from |-> e.start + stream.filled, len |-> ulen]
             IN /\ file' = Put(file, at, [j \in 1 .. clen |-> BlobCell(data, j, clen)])
                /\ at' = at + clen
                /\ rows' = Append(rows, [off |-> at, clen |-> clen, ulen |-> ulen,
                                         ext |-> stream.ext])
                /\ records' = [records EXCEPT ![p] = Append(@, data)]
                /\ stream' = IF stream.filled + ulen = e.count
                             THEN [stream EXCEPT !.ext = @ + 1, !.filled = 0]
                             ELSE [stream EXCEPT !.filled = @ + ulen]
    /\ UNCHANGED <<entries, phase, tables, harm>>

\* finish_inner: the chunk table behind the data, the count in the head, the
\* length in the index entry.
FinishStream ==
    /\ phase = "stream" /\ stream.ext > Len(stream.plan)
    /\ file' = Put(Put(file, at, Map(rows, RowCell)),
                   stream.off, <<HeadCell(Len(stream.plan), Len(rows))>>)
    /\ at' = at + Len(rows)
    /\ entries' = [entries EXCEPT ![Len(entries)].len = at + Len(rows) - stream.off]
    /\ tables' = Append(tables, [extents |-> stream.plan, rows |-> rows])
    /\ phase' = "between"
    /\ UNCHANGED <<stream, rows, records, harm>>

\* finalize_inner, one file write at a time: a crash may come between any two.
WriteManifest ==
    /\ phase = "between" /\ Len(entries) = Parts
    /\ file' = Put(file, at, <<ManifestCell(records)>>)
    /\ at' = at + 1
    /\ phase' = "index"
    /\ UNCHANGED <<entries, stream, rows, records, tables, harm>>

WriteIndex ==
    /\ phase = "index"
    /\ file' = Put(file, 1, entries)
    /\ phase' = "header"
    /\ UNCHANGED <<at, entries, stream, rows, records, tables, harm>>

PatchHeader ==
    /\ phase = "header"
    /\ file' = Put(file, 0, <<HeaderCell(Len(entries))>>)
    /\ phase' = "footer"
    /\ UNCHANGED <<at, entries, stream, rows, records, tables, harm>>

WriteFooter ==
    /\ phase = "footer"
    /\ file' = Put(file, at, <<FooterCell(at - 1, ManifestCell(records), Len(entries),
                                          at + 1, entries)>>)
    /\ phase' = "closed"
    /\ UNCHANGED <<at, entries, stream, rows, records, tables, harm>>

\* The process dies, or the run gives up on an error: the writes made stay.
Crash ==
    /\ phase # "closed"
    /\ phase' = "closed"
    /\ crashed' = TRUE
    /\ UNCHANGED <<file, at, entries, stream, rows, records, tables, cut, rotted>>

-----------------------------------------------------------------------------
(* What happens to the bytes of a file nobody writes any more. *)

\* The tail is lost: a copy broke off, or the length was never flushed.
Cut ==
    /\ phase = "closed" /\ ~cut
    /\ \E n \in 0 .. Len(file) - 1 : file' = SubSeq(file, 1, n)
    /\ cut' = TRUE
    /\ UNCHANGED <<at, entries, phase, stream, rows, records, tables, crashed, rotted>>

\* What a cell may read as afterwards: zeros or noise; what it was before a
\* later patch that did not reach the disk; or, for numbers, other numbers.
Changed(c) ==
    {Hole, Junk} \union
    CASE c.is = "header" -> {HeaderCell(0)}
      [] c.is = "entry"  -> {[c EXCEPT !.off = @ + 1], [c EXCEPT !.len = @ + 1]}
      [] c.is = "head"   -> {[c EXCEPT !.chunks = 0], [c EXCEPT !.extents = @ - 1]}
      [] c.is = "extent" -> {[c EXCEPT !.start = @ + 1], [c EXCEPT !.count = @ + 1]}
      [] c.is = "row"    -> {[c EXCEPT !.off = @ + 1], [c EXCEPT !.ulen = @ + 1],
                             [c EXCEPT !.ext = @ + 1]}
      [] OTHER           -> {}

Rot ==
    /\ phase = "closed" /\ rotted < MaxDamage
    /\ \E i \in DOMAIN file :
          /\ file[i] # Hole
          /\ \E c \in Changed(file[i]) : file' = [file EXCEPT ![i] = c]
    /\ rotted' = rotted + 1
    /\ UNCHANGED <<at, entries, phase, stream, rows, records, tables, crashed, cut>>

-----------------------------------------------------------------------------
(* The reader.  Bytes of one structure never parse as another. *)

\* Mutant: the index is read but not hashed, as version 1 had it.
OpensUnhashedIndex(f) ==
    /\ f # <<>> /\ f[1].is = "header" /\ f[Len(f)].is = "footer"
    /\ LET foot == f[Len(f)]
       IN /\ foot.total = Len(f)
          /\ Get(f, foot.moff, 1) = <<foot.mhash>>
          /\ \A i \in 2 .. foot.icount + 1 : f[i].is = "entry"
\* PhnxReader::open: header CRC, footer CRC, length, manifest and index hashes.
Opens(f) ==
    /\ f # <<>> /\ f[1].is = "header" /\ f[Len(f)].is = "footer"
    /\ LET foot == f[Len(f)]
       IN /\ foot.total = Len(f)
          /\ Get(f, foot.moff, 1) = <<foot.mhash>>
          /\ Get(f, 1, foot.icount) = foot.ihash

Manifest(f) == f[Len(f)].mhash.records
Index(f) == Get(f, 1, f[Len(f)].icount)

\* read_stream_header: the extents behind the head, the rows at the end of the
\* stream; <<>> when they do not parse.
AllAre(cells, n, kind) == Len(cells) = n /\ \A i \in DOMAIN cells : cells[i].is = kind
StreamHeader(f, e) ==
    LET head == Get(f, e.off, 1)
    IN IF ~AllAre(head, 1, "head") THEN <<>>
       ELSE LET extents == Get(f, e.off + 1, head[1].extents)
                table == Get(f, e.off + e.len - head[1].chunks, head[1].chunks)
            IN IF AllAre(extents, head[1].extents, "extent")
                  /\ AllAre(table, head[1].chunks, "row")
               THEN <<[extents |-> extents, rows |-> table]>> ELSE <<>>

\* verify_structure, for one partition.
Covers(s) ==
    \A x \in DOMAIN s.extents :
        Total({i \in DOMAIN s.rows : s.rows[i].ext = x}, LAMBDA i : s.rows[i].ulen)
            = s.extents[x].count
Disjoint(extents) ==
    \A x, y \in DOMAIN extents :
        x # y => \/ extents[x].start + extents[x].count <= extents[y].start
                 \/ extents[y].start + extents[y].count <= extents[x].start
InDataRegion(s, e, bound) ==
    \A i \in DOMAIN s.rows :
        LET r == s.rows[i]
        IN /\ r.ext \in DOMAIN s.extents
           /\ r.off >= e.off + HeadSize(s.extents)
           /\ r.off + r.clen <= e.off + e.len - Len(s.rows)
           /\ r.off + r.clen <= bound
StructureOk(f, k) ==
    LET e == Index(f)[k]
        parsed == StreamHeader(f, e)
    IN /\ parsed # <<>>
       /\ LET s == parsed[1]
          IN /\ Len(s.rows) = Len(Manifest(f)[k])
             /\ InDataRegion(s, e, f[Len(f)].moff)
             /\ Covers(s)
             /\ Disjoint(s.extents)

\* Mutant: it decompresses, and the hash is not compared.
ChunkOkUnhashed(f, r, record) ==
    LET cells == Get(f, r.off, r.clen)
    IN /\ AllAre(cells, r.clen, "blob")
       /\ cells = [j \in 1 .. r.clen |-> BlobCell(cells[1].data, j, r.clen)]
       /\ r.ulen = cells[1].data.len
\* A chunk decompresses to the length of its row and hashes to its record.
ChunkOk(f, r, record) ==
    LET cells == Get(f, r.off, r.clen)
    IN /\ cells = [j \in 1 .. r.clen |-> BlobCell(record, j, r.clen)]
       /\ r.ulen = record.len

\* The chunks a row points at, decoded; what a restore of the partition reads.
Decoded(f, r) == f[r.off + 1].data
Rows(f, k) == StreamHeader(f, Index(f)[k])[1].rows

\* verify_all: the structure, then every chunk.
FullVerify(f) ==
    /\ Opens(f)
    /\ \A k \in DOMAIN Index(f) :
          /\ StructureOk(f, k)
          /\ \A i \in DOMAIN Rows(f, k) : ChunkOk(f, Rows(f, k)[i], Manifest(f)[k][i])

-----------------------------------------------------------------------------
Done == phase = "closed" /\ UNCHANGED vars

Next ==
    \/ Create \/ BeginStream \/ WriteChunk \/ FinishStream
    \/ WriteManifest \/ WriteIndex \/ PatchHeader \/ WriteFooter
    \/ Crash \/ Cut \/ Rot \/ Done

Spec == Init /\ [][Next]_vars

-----------------------------------------------------------------------------
(* Properties. *)

Phases == {"create", "between", "stream", "index", "header", "footer", "closed"}
TypeOK ==
    /\ at \in Nat
    /\ phase \in Phases
    /\ \A i \in DOMAIN file : file[i].is \in {"hole", "junk", "header", "entry", "head",
                                             "extent", "blob", "row", "manifest", "footer"}
    /\ \A i \in DOMAIN entries : entries[i].off \in Nat /\ entries[i].len \in Nat
    /\ Len(entries) <= Parts /\ Len(records) = Len(entries) /\ Len(tables) <= Len(entries)
    /\ stream.off \in Nat /\ stream.ext \in 1 .. Len(stream.plan) + 1
    /\ stream.ext <= Len(stream.plan) => stream.filled < stream.plan[stream.ext].count
    /\ crashed \in BOOLEAN /\ cut \in BOOLEAN /\ rotted \in 0 .. MaxDamage

\* The regions of the file never overlap: until the file is closed no write
\* changes a cell already written, but for the two counts patched on purpose.
NothingOverwritten ==
    [][ phase # "closed" =>
            \A i \in DOMAIN file :
                file[i].is \in {"hole", "header", "head"} \/ file'[i] = file[i] ]_vars

\* open accepts only what finalize completed and nothing shortened, and then
\* with the index and the manifest that were written, whatever was changed.
OpenIsWhole ==
    phase = "closed" /\ Opens(file) =>
        /\ ~crashed /\ ~cut
        /\ Index(file) = entries /\ Manifest(file) = records

\* The full verification proves the contents: if it passes, decoding the rows
\* in order yields every sector that was planned, once, in disk order.
FullVerifyProves ==
    phase = "closed" /\ FullVerify(file) =>
        \A k \in 1 .. Parts :
            LET plan == tables[k].extents
                read == [i \in DOMAIN Rows(file, k) |-> Decoded(file, Rows(file, k)[i])]
            IN /\ \A i \in DOMAIN read : read[i].part = k
               /\ \A i \in DOMAIN read : i > 1 => read[i - 1].from + read[i - 1].len
                                                  <= read[i].from
               /\ UNION {read[i].from .. read[i].from + read[i].len - 1 : i \in DOMAIN read}
                  = UNION {plan[x].start .. plan[x].start + plan[x].count - 1 :
                           x \in DOMAIN plan}

\* What the code says of verification, "truncation and metadata corruption are
\* always detected": a file that passes has the extents that were written.
VerifyCatchesMetadata ==
    phase = "closed" /\ FullVerify(file) =>
        \A k \in 1 .. Parts :
            StreamHeader(file, Index(file)[k])[1].extents = Map(tables[k].extents, ExtentCell)
=============================================================================
