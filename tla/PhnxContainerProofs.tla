------------------------ MODULE PhnxContainerProofs ------------------------
(* What holds of the file for any number of partitions, any plans, any lengths of
   chunks, a crash at any write, and any damage: no write of the writer falls on what is
   already written, a file that opens is a whole one, and one that passes the full
   verification reads as what was captured. *)
EXTENDS PhnxContainer, SequenceTheorems, TLAPS

-----------------------------------------------------------------------------
(* The cells there are. *)

Row == [off : Nat, clen : Nat \ {0}, ulen : Nat, ext : Nat]
Data == [part : Nat, from : Nat, len : Nat]

EntryCells == [is : {"entry"}, off : Nat, len : Nat]
HeadCells == [is : {"head"}, extents : Int, chunks : Nat]
RowCells == [is : {"row"}, off : Nat, clen : Nat \ {0}, ulen : Nat, ext : Nat]
ManifestCells == [is : {"manifest"}, records : Seq(Seq(Data))]
FooterCells == [is : {"footer"}, moff : Nat, mhash : ManifestCells, icount : Nat,
                total : Nat, ihash : Seq(EntryCells)]
Cells ==
    {Hole, Junk} \cup [is : {"header"}, count : Nat] \cup EntryCells \cup HeadCells
    \cup [is : {"extent"}, start : Nat, count : Nat]
    \cup [is : {"blob"}, data : Data, piece : Nat, of : Nat]
    \cup RowCells \cup ManifestCells \cup FooterCells

-----------------------------------------------------------------------------
(* The invariant. *)

Ordered(plan) ==
    \A x, y \in DOMAIN plan : x < y => plan[x].start + plan[x].count <= plan[y].start

Typed ==
    /\ file \in Seq(Cells) /\ at \in Nat /\ phase \in Phases
    /\ entries \in Seq(EntryCells) /\ Len(entries) <= Parts
    /\ stream \in [off : Nat, plan : Seq(Extents), ext : Nat \ {0}, filled : Nat]
    /\ rows \in Seq(Row)
    /\ records \in Seq(Seq(Data)) /\ Len(records) = Len(entries)
    /\ tables \in Seq([extents : Seq(Extents), rows : Seq(Row)])
    /\ crashed \in BOOLEAN /\ cut \in BOOLEAN

\* While the writer runs the file ends where it will write next, the header is in
\* front, the room for the index is free until the index is written, and the head of
\* the open stream is where it will be patched.
Layout ==
    /\ phase = "create" => file = <<>> /\ at = 0
    /\ phase \notin {"create", "closed"} =>
          /\ 1 + Reserve <= at /\ Len(file) \in 1 .. at /\ file[1].is = "header"
          /\ phase \notin {"header", "footer"} =>
                \A i \in DOMAIN file : i > 1 /\ i <= 1 + Reserve => file[i] = Hole
    /\ phase = "stream" =>
          /\ stream.off >= 1 + Reserve /\ stream.off + 1 <= Len(file)
          /\ file[stream.off + 1].is = "head"
    /\ phase = "closed" => Len(file) <= at + 1

\* A footer is the last thing written, only by a writer that finished.
Footers ==
    /\ \A i \in DOMAIN file : file[i].is = "footer" =>
          /\ phase = "closed" /\ ~crashed /\ ~cut /\ i = at + 1
          /\ file[i] = FooterCell(at - 1, ManifestCell(records), Len(entries), at + 1, entries)
    /\ crashed \/ cut => phase = "closed"

\* The sectors that some chunks hold, and those of a plan up to a place in it.
Sectors(recs) == UNION {recs[i].from .. recs[i].from + recs[i].len - 1 : i \in DOMAIN recs}
Front(plan, x, filled) ==
    UNION {plan[y].start .. plan[y].start + (IF y < x THEN plan[y].count ELSE filled) - 1 :
           y \in {z \in DOMAIN plan : z <= x}}

\* Chunks of partition k: in order, and exactly the plan up to that place.
Recorded(recs, k, plan, x, filled) ==
    /\ \A i \in DOMAIN recs : recs[i].part = k
    /\ \A i \in DOMAIN recs : i > 1 => recs[i - 1].from + recs[i - 1].len <= recs[i].from
    /\ Sectors(recs) = Front(plan, x, filled)
    /\ x \in DOMAIN plan =>
          \A i \in DOMAIN recs : recs[i].from + recs[i].len <= plan[x].start + filled

RecordsAre ==
    /\ phase \in {"create", "between"} => Len(entries) = Len(tables)
    /\ phase = "stream" =>
          /\ Len(entries) = Len(tables) + 1
          /\ stream.ext \in 1 .. Len(stream.plan) + 1 /\ Ordered(stream.plan)
          /\ stream.ext \in DOMAIN stream.plan => stream.filled < stream.plan[stream.ext].count
          /\ Recorded(records[Len(entries)], Len(entries), stream.plan, stream.ext, stream.filled)
    /\ phase \in {"index", "header", "footer"} \/ (phase = "closed" /\ ~crashed) =>
          Len(entries) = Parts /\ Len(tables) = Parts
    /\ Len(tables) <= Len(entries)
    /\ \A k \in 1 .. Len(tables) :
          Recorded(records[k], k, tables[k].extents, Len(tables[k].extents) + 1, 0)

ContainerInv == Typed /\ Layout /\ Footers /\ RecordsAre

-----------------------------------------------------------------------------
(* Cells and how the file changes. *)

\* Every cell says what it is.
LEMMA CellsSay ==
    ASSUME NEW c \in Cells
    PROVE  "is" \in DOMAIN c
BY DEF Cells, Hole, Junk, EntryCells, HeadCells, RowCells, ManifestCells, FooterCells

\* Of a kind there are only the cells of that kind.
LEMMA KindIs ==
    ASSUME NEW c \in Cells
    PROVE  /\ c.is = "row" => c \in RowCells
           /\ c.is = "head" => c \in HeadCells
           /\ c.is = "entry" => c \in EntryCells
           /\ c.is = "footer" => c \in FooterCells
           /\ c.is = "header" => c \in [is : {"header"}, count : Nat]
           /\ c.is = "extent" => c \in [is : {"extent"}, start : Nat, count : Nat]
<1>1. Hole.is = "hole" /\ Junk.is = "junk"
    BY DEF Hole, Junk
<1> QED
    BY <1>1 DEF Cells, EntryCells, HeadCells, RowCells, ManifestCells, FooterCells

\* What the writer makes are cells, each of its kind.
LEMMA MadeAreCells ==
    /\ Hole \in Cells /\ Junk \in Cells
    /\ \A n \in Nat : HeaderCell(n) \in Cells /\ HeaderCell(n).is = "header"
    /\ \A o, l \in Nat : EntryCell(o, l) \in EntryCells /\ EntryCell(o, l).is = "entry"
    /\ \A x, n \in Nat : HeadCell(x, n) \in Cells /\ HeadCell(x, n).is = "head"
    /\ \A e \in Extents : ExtentCell(e) \in Cells /\ ExtentCell(e).is = "extent"
    /\ \A d \in Data, p, n \in Nat : BlobCell(d, p, n) \in Cells /\ BlobCell(d, p, n).is = "blob"
    /\ \A r \in Row : RowCell(r) \in Cells /\ RowCell(r).is = "row"
    /\ \A recs \in Seq(Seq(Data)) :
          ManifestCell(recs) \in ManifestCells /\ ManifestCell(recs).is = "manifest"
    /\ \A m, n, t \in Nat, h \in ManifestCells, x \in Seq(EntryCells) :
          FooterCell(m, h, n, t, x) \in Cells /\ FooterCell(m, h, n, t, x).is = "footer"
    /\ EntryCells \subseteq Cells /\ ManifestCells \subseteq Cells
<1>1. Hole \in Cells /\ Junk \in Cells
    BY DEF Cells
<1>2. \A n \in Nat : HeaderCell(n) \in Cells /\ HeaderCell(n).is = "header"
    BY DEF HeaderCell, Cells
<1>3. \A o, l \in Nat : EntryCell(o, l) \in EntryCells /\ EntryCell(o, l).is = "entry"
    BY DEF EntryCell, EntryCells
<1>4. \A x, n \in Nat : HeadCell(x, n) \in Cells /\ HeadCell(x, n).is = "head"
    BY DEF HeadCell, HeadCells, Cells
<1>5. \A e \in Extents : ExtentCell(e) \in Cells /\ ExtentCell(e).is = "extent"
    BY DEF ExtentCell, Extents, Cells
<1>6. \A d \in Data, p, n \in Nat : BlobCell(d, p, n) \in Cells /\ BlobCell(d, p, n).is = "blob"
    BY DEF BlobCell, Cells
<1>7. \A r \in Row : RowCell(r) \in Cells /\ RowCell(r).is = "row"
    BY DEF RowCell, Row, RowCells, Cells
<1>8. \A recs \in Seq(Seq(Data)) :
          ManifestCell(recs) \in ManifestCells /\ ManifestCell(recs).is = "manifest"
    BY DEF ManifestCell, ManifestCells
<1>9. \A m, n, t \in Nat, h \in ManifestCells, x \in Seq(EntryCells) :
          FooterCell(m, h, n, t, x) \in Cells /\ FooterCell(m, h, n, t, x).is = "footer"
    BY DEF FooterCell, FooterCells, Cells
<1>10. EntryCells \subseteq Cells /\ ManifestCells \subseteq Cells
    BY DEF Cells
<1> QED BY <1>1, <1>2, <1>3, <1>4, <1>5, <1>6, <1>7, <1>8, <1>9, <1>10

\* What a write leaves: what is written where it is written, else what was there, and
\* zeros in a gap.
Written(g, f, off, cells) ==
    /\ g \in Seq(Cells)
    /\ Len(g) = IF off + Len(cells) > Len(f) THEN off + Len(cells) ELSE Len(f)
    /\ \A i \in 1 .. Len(g) :
          /\ off < i /\ i <= off + Len(cells) => g[i] = cells[i - off]
          /\ i <= off \/ off + Len(cells) < i => g[i] = IF i <= Len(f) THEN f[i] ELSE Hole
\* A write at or behind the end, and a write of one cell inside.
Appended(g, f, off, cells) ==
    /\ g \in Seq(Cells) /\ Len(g) = off + Len(cells)
    /\ \A i \in 1 .. Len(f) : g[i] = f[i]
    /\ \A i \in Len(f) + 1 .. off : g[i] = Hole
    /\ \A i \in off + 1 .. off + Len(cells) : g[i] = cells[i - off]
Patched(g, f, off, c) ==
    /\ g \in Seq(Cells) /\ Len(g) = Len(f) /\ g[off + 1] = c
    /\ \A i \in 1 .. Len(f) : i # off + 1 => g[i] = f[i]

\* That is what the file is after a write.
LEMMA PutIs ==
    ASSUME NEW f \in Seq(Cells), NEW off \in Nat, NEW cells \in Seq(Cells)
    PROVE  Written(Put(f, off, cells), f, off, cells)
<1> DEFINE n == IF off + Len(cells) > Len(f) THEN off + Len(cells) ELSE Len(f)
<1>1. Len(f) \in Nat /\ Len(cells) \in Nat /\ DOMAIN cells = 1 .. Len(cells) /\ n \in Nat
    OBVIOUS
<1>2. Max({Len(f), off + Len(cells)}) = n
    BY <1>1 DEF Max
<1> DEFINE g == [i \in 1 .. n |-> IF i - off \in DOMAIN cells THEN cells[i - off]
                                  ELSE IF i <= Len(f) THEN f[i] ELSE Hole]
<1>3. Put(f, off, cells) = g
    BY <1>2 DEF Put
<1> HIDE DEF n
<1>4. \A i \in 1 .. n : g[i] \in Cells
    <2> SUFFICES ASSUME NEW i \in 1 .. n PROVE g[i] \in Cells
        OBVIOUS
    <2>1. i - off \in DOMAIN cells => cells[i - off] \in Cells
        BY <1>1
    <2>2. i <= Len(f) => f[i] \in Cells
        BY <1>1
    <2> QED BY <2>1, <2>2, MadeAreCells
<1>5. g \in Seq(Cells) /\ Len(g) = n
    BY <1>1, <1>4
<1>6. ASSUME NEW i \in 1 .. n
      PROVE  /\ off < i /\ i <= off + Len(cells) => g[i] = cells[i - off]
             /\ i <= off \/ off + Len(cells) < i => g[i] = IF i <= Len(f) THEN f[i] ELSE Hole
    <2>1. (i - off \in DOMAIN cells) <=> (off < i /\ i <= off + Len(cells))
        BY <1>1
    <2> QED BY <2>1, <1>1
<1> HIDE DEF g
<1> QED BY <1>3, <1>5, <1>6 DEF n, Written

\* What a read returns: the cells at that place, or nothing.
LEMMA GetIs ==
    ASSUME NEW f \in Seq(Cells), NEW off \in Int, NEW n \in Int
    PROVE  /\ Get(f, off, n) \in Seq(Cells)
           /\ off >= 0 /\ n >= 0 /\ off + n <= Len(f) =>
                 /\ Len(Get(f, off, n)) = n
                 /\ \A i \in 1 .. n : Get(f, off, n)[i] = f[off + i]
           /\ ~(off >= 0 /\ n >= 0 /\ off + n <= Len(f)) => Get(f, off, n) = <<>>
<1>1. CASE off >= 0 /\ n >= 0 /\ off + n <= Len(f)
    <2> DEFINE g == SubSeq(f, off + 1, off + n)
    <2>1. Get(f, off, n) = g
        BY <1>1 DEF Get
    <2>2. g \in Seq(Cells) /\ Len(g) = n /\ \A i \in 1 .. n : g[i] = f[off + i]
        <3>1. g \in Seq(Cells)
            BY <1>1
        <3>2. Len(g) = n
            BY <1>1
        <3>3. ASSUME NEW i \in 1 .. n PROVE g[i] = f[off + i]
            BY <1>1
        <3> QED BY <3>1, <3>2, <3>3
    <2> QED BY <1>1, <2>1, <2>2
<1>2. CASE ~(off >= 0 /\ n >= 0 /\ off + n <= Len(f))
    BY <1>2 DEF Get
<1> QED BY <1>1, <1>2

\* Damage makes cells of cells, makes no footer, and of what it changes keeps the kind.
LEMMA ChangedIs ==
    ASSUME NEW c \in Cells, NEW d \in Changed(c)
    PROVE  d \in Cells /\ d.is # "footer"
<1>1. d \in {Hole, Junk} => d \in Cells /\ d.is # "footer"
    BY MadeAreCells DEF Hole, Junk
<1>2. CASE c.is = "header" /\ d = HeaderCell(0)
    BY <1>2, MadeAreCells
<1>3. CASE c.is = "entry" /\ d \in {[c EXCEPT !.off = @ + 1], [c EXCEPT !.len = @ + 1]}
    BY <1>3, KindIs DEF EntryCells, Cells
<1>4. CASE c.is = "head" /\ d \in {[c EXCEPT !.chunks = 0], [c EXCEPT !.extents = @ - 1]}
    BY <1>4, KindIs DEF HeadCells, Cells
<1>5. CASE c.is = "extent" /\ d \in {[c EXCEPT !.start = @ + 1], [c EXCEPT !.count = @ + 1]}
    BY <1>5, KindIs DEF Cells
<1>6. CASE c.is = "row" /\ d \in {[c EXCEPT !.off = @ + 1], [c EXCEPT !.ulen = @ + 1],
                                  [c EXCEPT !.ext = @ + 1]}
    BY <1>6, KindIs DEF RowCells, Cells
<1> QED BY <1>1, <1>2, <1>3, <1>4, <1>5, <1>6 DEF Changed

\* A write at or behind the end leaves all cells there are; between is a gap.
LEMMA AppendedIs ==
    ASSUME NEW f \in Seq(Cells), NEW off \in Nat, NEW cells \in Seq(Cells), Len(f) <= off,
           NEW g, g = Put(f, off, cells)
    PROVE  Appended(g, f, off, cells)
<1>1. Len(f) \in Nat /\ Len(cells) \in Nat
    OBVIOUS
<1>0. Written(g, f, off, cells)
    BY PutIs
<1>2. /\ g \in Seq(Cells)
      /\ Len(g) = IF off + Len(cells) > Len(f) THEN off + Len(cells) ELSE Len(f)
      /\ \A i \in 1 .. Len(g) :
            /\ off < i /\ i <= off + Len(cells) => g[i] = cells[i - off]
            /\ i <= off \/ off + Len(cells) < i =>
                  g[i] = IF i <= Len(f) THEN f[i] ELSE Hole
    BY <1>0 DEF Written
<1>3. Len(g) = off + Len(cells)
    BY <1>1, <1>2
<1>4. ASSUME NEW i \in 1 .. Len(f) PROVE g[i] = f[i]
    BY <1>1, <1>2, <1>3
<1>5. ASSUME NEW i \in Len(f) + 1 .. off PROVE g[i] = Hole
    BY <1>1, <1>2, <1>3
<1>6. ASSUME NEW i \in off + 1 .. off + Len(cells) PROVE g[i] = cells[i - off]
    BY <1>1, <1>2, <1>3
<1> QED BY <1>2, <1>3, <1>4, <1>5, <1>6 DEF Appended

\* A write of one cell inside changes that cell.
LEMMA PatchedIs ==
    ASSUME NEW f \in Seq(Cells), NEW off \in Nat, NEW c \in Cells, off < Len(f),
           NEW g, g = Put(f, off, <<c>>)
    PROVE  Patched(g, f, off, c)
<1>1. Len(f) \in Nat /\ <<c>> \in Seq(Cells) /\ Len(<<c>>) = 1 /\ <<c>>[1] = c
    OBVIOUS
<1>2. /\ g \in Seq(Cells)
      /\ Len(g) = IF off + 1 > Len(f) THEN off + 1 ELSE Len(f)
      /\ \A i \in 1 .. Len(g) :
            /\ off < i /\ i <= off + 1 => g[i] = <<c>>[i - off]
            /\ i <= off \/ off + 1 < i => g[i] = IF i <= Len(f) THEN f[i] ELSE Hole
    <2>1. PICK w \in Seq(Cells) : w = <<c>>
        BY <1>1
    <2>2. Written(g, f, off, w)
        BY <2>1, PutIs
    <2>3. Len(w) = 1
        BY <1>1, <2>1
    <2>4. /\ g \in Seq(Cells)
          /\ Len(g) = IF off + 1 > Len(f) THEN off + 1 ELSE Len(f)
          /\ \A i \in 1 .. Len(g) :
                /\ off < i /\ i <= off + 1 => g[i] = w[i - off]
                /\ i <= off \/ off + 1 < i => g[i] = IF i <= Len(f) THEN f[i] ELSE Hole
        BY <2>2, <2>3 DEF Written
    <2> QED BY <2>1, <2>4
<1>3. Len(g) = Len(f)
    BY <1>1, <1>2
<1>4. g[off + 1] = c
    <2>1. off + 1 - off = 1 /\ off + 1 \in 1 .. Len(g)
        BY <1>1, <1>3
    <2> QED BY <1>1, <1>2, <2>1
<1>5. ASSUME NEW i \in 1 .. Len(f), i # off + 1 PROVE g[i] = f[i]
    BY <1>1, <1>2, <1>3, <1>5
<1> QED BY <1>2, <1>3, <1>4, <1>5 DEF Patched

\* Making a cell of each member of a sequence makes a sequence of cells.
LEMMA MappedCells ==
    /\ \A plan \in Seq(Extents) :
          /\ Map(plan, ExtentCell) \in Seq(Cells) /\ Len(Map(plan, ExtentCell)) = Len(plan)
          /\ \A i \in 1 .. Len(plan) : Map(plan, ExtentCell)[i].is = "extent"
    /\ \A list \in Seq(Row) :
          /\ Map(list, RowCell) \in Seq(Cells) /\ Len(Map(list, RowCell)) = Len(list)
          /\ \A i \in 1 .. Len(list) : Map(list, RowCell)[i].is = "row"
<1>1. ASSUME NEW plan \in Seq(Extents)
      PROVE  /\ Map(plan, ExtentCell) \in Seq(Cells) /\ Len(Map(plan, ExtentCell)) = Len(plan)
             /\ \A i \in 1 .. Len(plan) : Map(plan, ExtentCell)[i].is = "extent"
    <2>1. Map(plan, ExtentCell) = [i \in 1 .. Len(plan) |-> ExtentCell(plan[i])]
        BY DEF Map
    <2>2. \A i \in 1 .. Len(plan) : ExtentCell(plan[i]) \in Cells /\ ExtentCell(plan[i]).is = "extent"
        BY MadeAreCells
    <2> QED BY <2>1, <2>2
<1>2. ASSUME NEW list \in Seq(Row)
      PROVE  /\ Map(list, RowCell) \in Seq(Cells) /\ Len(Map(list, RowCell)) = Len(list)
             /\ \A i \in 1 .. Len(list) : Map(list, RowCell)[i].is = "row"
    <2>1. Map(list, RowCell) = [i \in 1 .. Len(list) |-> RowCell(list[i])]
        BY DEF Map
    <2>2. \A i \in 1 .. Len(list) : RowCell(list[i]) \in Cells /\ RowCell(list[i]).is = "row"
        BY MadeAreCells
    <2> QED BY <2>1, <2>2
<1> QED BY <1>1, <1>2

-----------------------------------------------------------------------------
(* What the chunks of a stream hold. *)

\* An extent of a plan has numbers.
LEMMA AnExtent ==
    ASSUME NEW plan \in Seq(Extents), NEW x \in DOMAIN plan
    PROVE  x \in Nat /\ plan[x].start \in Nat /\ plan[x].count \in Nat
<1>1. plan[x] \in Extents
    OBVIOUS
<1> QED BY <1>1 DEF Extents

\* At the start of a plan nothing is held and nothing is due.
LEMMA RecordedStart ==
    ASSUME NEW plan \in Seq(Extents), NEW k
    PROVE  Recorded(<<>>, k, plan, 1, 0)
<1>1. Sectors(<<>>) = {}
    BY DEF Sectors
<1>2. ASSUME NEW y \in {z \in DOMAIN plan : z <= 1}
      PROVE  plan[y].start .. plan[y].start + (IF y < 1 THEN plan[y].count ELSE 0) - 1 = {}
    <2>1. y = 1 /\ plan[y] \in Extents
        OBVIOUS
    <2> QED BY <2>1 DEF Extents
<1>3. Front(plan, 1, 0) = {}
    BY <1>2 DEF Front
<1>4. DOMAIN <<>> = {}
    OBVIOUS
<1>5. \A x \in DOMAIN <<>> : FALSE
    BY <1>4
<1> QED BY <1>1, <1>3, <1>5 DEF Recorded

\* Past the end of the plan all of it is due.
LEMMA FrontAll ==
    ASSUME NEW plan \in Seq(Extents), NEW n
    PROVE  Front(plan, Len(plan) + 1, n)
               = UNION {plan[x].start .. plan[x].start + plan[x].count - 1 : x \in DOMAIN plan}
<1>1. {z \in DOMAIN plan : z <= Len(plan) + 1} = DOMAIN plan
    OBVIOUS
<1>2. \A y \in DOMAIN plan : (IF y < Len(plan) + 1 THEN plan[y].count ELSE n) = plan[y].count
    OBVIOUS
<1> QED BY <1>1, <1>2 DEF Front

\* When an extent is through, its whole is due and nothing of the next.
LEMMA FrontNext ==
    ASSUME NEW plan \in Seq(Extents), NEW x \in DOMAIN plan
    PROVE  Front(plan, x + 1, 0) = Front(plan, x, plan[x].count)
<1> DEFINE New(y) == plan[y].start .. plan[y].start + (IF y < x + 1 THEN plan[y].count ELSE 0) - 1
           Old(y) == plan[y].start .. plan[y].start + (IF y < x THEN plan[y].count ELSE plan[x].count) - 1
<1>1. x \in Nat /\ DOMAIN plan \subseteq Nat
    OBVIOUS
<1>2. ASSUME NEW y \in DOMAIN plan, y <= x PROVE New(y) = Old(y)
    BY <1>1, <1>2
<1>3. ASSUME NEW y \in DOMAIN plan, y <= x + 1, ~(y <= x) PROVE New(y) = {}
    <2>1. y = x + 1 /\ plan[y].start \in Nat
        BY <1>1, <1>3, AnExtent
    <2> QED BY <2>1, <1>1
<1>4. \A y \in DOMAIN plan : y <= x => y <= x + 1
    BY <1>1
<1>5. Front(plan, x + 1, 0) = UNION {New(y) : y \in {z \in DOMAIN plan : z <= x + 1}}
    BY DEF Front
<1>6. Front(plan, x, plan[x].count) = UNION {Old(y) : y \in {z \in DOMAIN plan : z <= x}}
    BY DEF Front
<1> HIDE DEF New, Old
<1> QED BY <1>2, <1>3, <1>4, <1>5, <1>6

\* More of an extent adds just those sectors.
LEMMA FrontGrows ==
    ASSUME NEW plan \in Seq(Extents), NEW x \in DOMAIN plan, NEW n \in Nat, NEW m \in Nat
    PROVE  Front(plan, x, n + m)
               = Front(plan, x, n) \cup (plan[x].start + n .. plan[x].start + n + m - 1)
<1> DEFINE New(y) == plan[y].start .. plan[y].start + (IF y < x THEN plan[y].count ELSE n + m) - 1
           Old(y) == plan[y].start .. plan[y].start + (IF y < x THEN plan[y].count ELSE n) - 1
           More == plan[x].start + n .. plan[x].start + n + m - 1
           Some == {z \in DOMAIN plan : z <= x}
<1>1. x \in Nat /\ DOMAIN plan \subseteq Nat /\ x \in Some
    OBVIOUS
<1>2. ASSUME NEW y \in Some, y # x PROVE New(y) = Old(y)
    BY <1>1, <1>2
<1>3. New(x) = Old(x) \cup More
    <2>1. plan[x].start \in Nat
        BY AnExtent
    <2> QED BY <2>1, <1>1
<1>4. Front(plan, x, n + m) = UNION {New(y) : y \in Some}
    BY DEF Front
<1>5. Front(plan, x, n) = UNION {Old(y) : y \in Some}
    BY DEF Front
<1> HIDE DEF New, Old, More, Some
<1> QED BY <1>1, <1>2, <1>3, <1>4, <1>5 DEF More

\* A chunk more holds its sectors more.
LEMMA SectorsGrow ==
    ASSUME NEW recs \in Seq(Data), NEW d \in Data
    PROVE  Sectors(Append(recs, d)) = Sectors(recs) \cup (d.from .. d.from + d.len - 1)
<1> DEFINE more == Append(recs, d)
<1>1. DOMAIN more = 1 .. Len(recs) + 1 /\ DOMAIN recs = 1 .. Len(recs) /\ Len(recs) \in Nat
      /\ \A i \in 1 .. Len(recs) : more[i] = recs[i]
    OBVIOUS
<1>2. more[Len(recs) + 1] = d
    OBVIOUS
<1> HIDE DEF more
<1> DEFINE New(i) == more[i].from .. more[i].from + more[i].len - 1
           Old(i) == recs[i].from .. recs[i].from + recs[i].len - 1
<1>3. \A i \in DOMAIN recs : i \in DOMAIN more /\ New(i) = Old(i)
    BY <1>1
<1>4. Len(recs) + 1 \in DOMAIN more /\ New(Len(recs) + 1) = d.from .. d.from + d.len - 1
    BY <1>1, <1>2
<1>5. \A i \in DOMAIN more : i \in DOMAIN recs \/ i = Len(recs) + 1
    BY <1>1
<1>6. Sectors(more) = UNION {New(i) : i \in DOMAIN more} /\ Sectors(recs) = UNION {Old(i) : i \in DOMAIN recs}
    BY DEF Sectors
<1> HIDE DEF New, Old
<1>7. Sectors(more) = Sectors(recs) \cup (d.from .. d.from + d.len - 1)
    BY <1>3, <1>4, <1>5, <1>6
<1> QED BY <1>7 DEF more

\* One chunk more, as many sectors as one read gave, keeps the record of a stream.
LEMMA RecordedMore ==
    ASSUME NEW plan \in Seq(Extents), Ordered(plan), NEW k \in Nat, NEW recs \in Seq(Data),
           NEW x \in DOMAIN plan, NEW n \in Nat, NEW ulen \in Nat, n + ulen <= plan[x].count,
           Recorded(recs, k, plan, x, n),
           NEW d, d = [part |-> k, from |-> plan[x].start + n, len |-> ulen]
    PROVE  /\ d \in Data /\ Append(recs, d) \in Seq(Data)
           /\ Recorded(Append(recs, d), k, plan, x, n + ulen)
           /\ n + ulen = plan[x].count => Recorded(Append(recs, d), k, plan, x + 1, 0)
<1> DEFINE more == Append(recs, d)
<1>0. plan[x].start \in Nat /\ plan[x].count \in Nat /\ x \in Nat
    BY AnExtent
<1>1. d \in Data /\ d.part = k /\ d.from = plan[x].start + n /\ d.len = ulen
    BY <1>0 DEF Data
<1>2. /\ more \in Seq(Data) /\ Len(more) = Len(recs) + 1 /\ more[Len(recs) + 1] = d
      /\ \A i \in 1 .. Len(recs) : more[i] = recs[i]
    BY <1>1
<1>3. DOMAIN recs = 1 .. Len(recs) /\ Len(recs) \in Nat
    OBVIOUS
<1>4. Sectors(more) = Sectors(recs) \cup (d.from .. d.from + d.len - 1)
    BY <1>1, SectorsGrow
<1> HIDE DEF more
<1>5. DOMAIN more = 1 .. Len(recs) + 1
    BY <1>2, <1>3
<1>6. \A i \in DOMAIN more : more[i].part = k
    <2> SUFFICES ASSUME NEW i \in DOMAIN more PROVE more[i].part = k
        OBVIOUS
    <2>1. i \in 1 .. Len(recs) \/ i = Len(recs) + 1
        BY <1>3, <1>5
    <2> QED BY <1>1, <1>2, <1>3, <2>1 DEF Recorded
<1>7. \A i \in DOMAIN recs : recs[i].from + recs[i].len <= plan[x].start + n
    BY DEF Recorded
<1>8. \A i \in DOMAIN more : i > 1 => more[i - 1].from + more[i - 1].len <= more[i].from
    <2> SUFFICES ASSUME NEW i \in DOMAIN more, i > 1
                 PROVE  more[i - 1].from + more[i - 1].len <= more[i].from
        OBVIOUS
    <2>1. i - 1 \in 1 .. Len(recs)
        BY <1>3, <1>5
    <2>2. CASE i \in 1 .. Len(recs)
        <3>1. more[i] = recs[i] /\ more[i - 1] = recs[i - 1]
            BY <1>2, <2>1, <2>2
        <3> QED BY <1>3, <2>2, <3>1 DEF Recorded
    <2>3. CASE i = Len(recs) + 1
        <3>1. more[i] = d /\ more[i - 1] = recs[i - 1]
            BY <1>2, <2>1, <2>3
        <3> QED BY <1>1, <1>3, <1>7, <2>1, <3>1
    <2> QED BY <1>3, <1>5, <2>2, <2>3
<1>9. Sectors(more) = Front(plan, x, n + ulen)
    <2>1. Front(plan, x, n + ulen)
              = Front(plan, x, n) \cup (plan[x].start + n .. plan[x].start + n + ulen - 1)
        <3>1. x \in DOMAIN plan /\ n \in Nat /\ ulen \in Nat /\ plan \in Seq(Extents)
            OBVIOUS
        <3>2. \A y \in DOMAIN plan : \A a, b \in Nat :
                 Front(plan, y, a + b) = Front(plan, y, a) \cup (plan[y].start + a .. plan[y].start + a + b - 1)
            BY <3>1, FrontGrows
        <3> QED BY <3>1, <3>2
    <2> QED BY <1>1, <1>4, <2>1 DEF Recorded
<1>10. \A i \in DOMAIN more : /\ more[i].from \in Nat /\ more[i].len \in Nat
                             /\ more[i].from + more[i].len <= plan[x].start + (n + ulen)
    <2> SUFFICES ASSUME NEW i \in DOMAIN more
                 PROVE  /\ more[i].from \in Nat /\ more[i].len \in Nat
                        /\ more[i].from + more[i].len <= plan[x].start + (n + ulen)
        OBVIOUS
    <2>1. more[i] \in Data
        BY <1>2, <1>3, <1>5
    <2>2. more[i].from \in Nat /\ more[i].len \in Nat
        BY <2>1 DEF Data
    <2>3. CASE i \in 1 .. Len(recs)
        <3>1. more[i] = recs[i] /\ recs[i].from + recs[i].len <= plan[x].start + n
            BY <1>2, <1>3, <1>7, <2>3
        <3>2. more[i].from + more[i].len <= plan[x].start + n
            BY <3>1
        <3> QED BY <1>0, <2>2, <3>2
    <2>4. CASE i = Len(recs) + 1
        BY <1>0, <1>1, <1>2, <2>2, <2>4
    <2> QED BY <1>3, <1>5, <2>2, <2>3, <2>4
<1>11. Recorded(more, k, plan, x, n + ulen)
    BY <1>6, <1>8, <1>9, <1>10 DEF Recorded
<1>12. ASSUME n + ulen = plan[x].count PROVE Recorded(more, k, plan, x + 1, 0)
    <2>1. Sectors(more) = Front(plan, x + 1, 0)
        BY <1>9, <1>12, FrontNext
    <2>2. ASSUME x + 1 \in DOMAIN plan, NEW i \in DOMAIN more
          PROVE  more[i].from + more[i].len <= plan[x + 1].start + 0
        <3>0. x < x + 1
            BY <1>0
        <3>1. plan[x].start + plan[x].count <= plan[x + 1].start /\ plan[x + 1].start \in Nat
            BY <2>2, <3>0, AnExtent DEF Ordered
        <3>2. more[i].from + more[i].len <= plan[x].start + plan[x].count
            BY <1>10, <1>12
        <3>3. more[i].from \in Nat /\ more[i].len \in Nat
            BY <1>10, <2>2
        <3>4. PICK a \in Nat : a = plan[x + 1].start
            BY <3>1
        <3>7. PICK b \in Nat : b = plan[x].start + plan[x].count
            BY <1>0
        <3>8. PICK c \in Nat : c = more[i].from + more[i].len
            BY <3>3
        <3>9. b <= a
            BY <3>1, <3>4, <3>7
        <3>10. c <= b
            BY <3>2, <3>7, <3>8
        <3>5. more[i].from + more[i].len <= a
            BY <3>8, <3>9, <3>10
        <3>6. a + 0 = a
            OBVIOUS
        <3> QED BY <3>4, <3>5, <3>6
    <2> QED BY <1>6, <1>8, <2>1, <2>2 DEF Recorded
<1> QED BY <1>1, <1>2, <1>11, <1>12 DEF more

-----------------------------------------------------------------------------
(* The steps. *)

\* While the writer runs, a cell that is changed was a gap, or is patched on purpose.
Clean ==
    phase # "closed" =>
        \A i \in DOMAIN file : file[i].is \in {"hole", "header", "head"} \/ file'[i] = file[i]

\* The numbers of an instance, and what its plans are.
LEMMA Numbers ==
    /\ Parts \in Nat \ {0} /\ Reserve \in Nat /\ Parts <= Reserve
    /\ Packed \subseteq Nat \ {0}
    /\ \A t \in ExtentTables : t \in Seq(Extents) /\ Ordered(t)
BY ContainerAssumption DEF Ordered

\* A hole is no header, head or footer.
LEMMA HoleIs == Hole.is = "hole" /\ Junk.is = "junk"
BY DEF Hole, Junk

\* At the start nothing is written.
LEMMA ContainerInit == Init => ContainerInv
<1> SUFFICES ASSUME Init PROVE ContainerInv
    OBVIOUS
<1> USE DEF Init
<1>1. Len(file) = 0 /\ DOMAIN file = {} /\ Len(entries) = 0 /\ Len(records) = 0 /\ Len(tables) = 0
    OBVIOUS
<1>2. Typed
    <2>1. NoStream \in [off : Nat, plan : Seq(Extents), ext : Nat \ {0}, filled : Nat]
        BY DEF NoStream
    <2>2. phase \in Phases
        BY DEF Phases
    <2>3. /\ file \in Seq(Cells) /\ entries \in Seq(EntryCells) /\ rows \in Seq(Row)
          /\ records \in Seq(Seq(Data)) /\ tables \in Seq([extents : Seq(Extents), rows : Seq(Row)])
        OBVIOUS
    <2>4. Len(entries) <= Parts /\ Len(records) = Len(entries)
        BY <1>1, Numbers
    <2>5. at \in Nat /\ stream = NoStream /\ crashed \in BOOLEAN /\ cut \in BOOLEAN
        OBVIOUS
    <2> HIDE DEF Init
    <2> QED BY <2>1, <2>2, <2>3, <2>4, <2>5 DEF Typed
<1>3. Layout
    BY DEF Layout
<1>4. Footers
    BY <1>1 DEF Footers
<1>5. RecordsAre
    BY <1>1 DEF RecordsAre
<1> QED BY <1>2, <1>3, <1>4, <1>5 DEF ContainerInv

\* Creating the file writes a header into it.
LEMMA CreateKeeps ==
    ASSUME ContainerInv, Create
    PROVE  ContainerInv' /\ Clean
<1> USE DEF ContainerInv
<1>1. file = <<>> /\ at = 0 /\ phase = "create" /\ phase' = "between" /\ at' = 1 + Reserve
    BY DEF Create, Layout
<1>2. HeaderCell(0) \in Cells /\ HeaderCell(0).is = "header"
    BY MadeAreCells
<1>3. Len(file) = 0 /\ DOMAIN file = {} /\ file \in Seq(Cells) /\ file' = Put(file, 0, <<HeaderCell(0)>>)
    BY <1>1 DEF Create
<1> DEFINE w == <<HeaderCell(0)>>
<1>4. w \in Seq(Cells) /\ Len(w) = 1 /\ w[1] = HeaderCell(0)
    BY <1>2
<1>5. file' \in Seq(Cells) /\ Len(file') = 1 /\ file'[1] = HeaderCell(0)
    <2>1. file' = Put(file, 0, w)
        BY <1>3
    <2> HIDE DEF w
    <2>2. PICK off \in Nat : off = 0
        OBVIOUS
    <2>3. file' = Put(file, off, w) /\ Len(file) <= off
        BY <1>3, <2>1, <2>2
    <2>4. /\ file' \in Seq(Cells) /\ Len(file') = off + Len(w)
          /\ \A i \in off + 1 .. off + Len(w) : file'[i] = w[i - off]
        <3>1. Appended(file', file, off, w)
            BY <1>3, <1>4, <2>3, AppendedIs
        <3> QED BY <3>1 DEF Appended
    <2> QED BY <1>4, <2>2, <2>4
<1>6. DOMAIN file' = {1}
    BY <1>5
<1>7. UNCHANGED <<entries, stream, rows, records, tables, crashed, cut>>
    BY DEF Create, harm
<1>8. Typed'
    BY <1>1, <1>5, <1>7, Numbers DEF Typed, Phases
<1>9. Layout'
    BY <1>1, <1>2, <1>5, <1>6, Numbers DEF Layout
<1>10. Footers'
    BY <1>1, <1>2, <1>5, <1>6, <1>7 DEF Footers
<1>11. RecordsAre'
    BY <1>1, <1>7 DEF RecordsAre
<1>12. Clean
    BY <1>3 DEF Clean
<1> QED BY <1>8, <1>9, <1>10, <1>11, <1>12

\* A new stream goes behind what is there, its head first.
LEMMA BeginStreamKeeps ==
    ASSUME ContainerInv, BeginStream
    PROVE  ContainerInv' /\ Clean
<1> USE DEF ContainerInv
<1>1. phase = "between" /\ phase' = "stream" /\ Len(entries) < Parts
    BY DEF BeginStream
<1>2. PICK plan \in ExtentTables :
          /\ file' = Put(file, at, <<HeadCell(Len(plan), 0)>> \o Map(plan, ExtentCell))
          /\ at' = at + HeadSize(plan)
          /\ stream' = [off |-> at, plan |-> plan, ext |-> 1, filled |-> 0]
    BY DEF BeginStream
<1>3. plan \in Seq(Extents) /\ Ordered(plan) /\ Len(plan) \in Nat
    BY Numbers
<1>4. /\ file \in Seq(Cells) /\ Len(file) \in 1 .. at /\ at \in Nat /\ 1 + Reserve <= at /\ Reserve \in Nat
      /\ file[1].is = "header" /\ Len(file) \in Nat /\ DOMAIN file = 1 .. Len(file)
      /\ \A i \in DOMAIN file : i > 1 /\ i <= 1 + Reserve => file[i] = Hole
    BY <1>1, Numbers DEF Typed, Layout
<1> DEFINE head == <<HeadCell(Len(plan), 0)>>
           rest == Map(plan, ExtentCell)
           w == head \o rest
<1>5. /\ w \in Seq(Cells) /\ Len(w) = 1 + Len(plan) /\ w[1].is = "head"
      /\ \A i \in 1 .. Len(w) : w[i].is \in {"head", "extent"}
    <2>1. HeadCell(Len(plan), 0) \in Cells /\ HeadCell(Len(plan), 0).is = "head"
        BY <1>3, MadeAreCells
    <2>2. head \in Seq(Cells) /\ Len(head) = 1 /\ head[1].is = "head"
        BY <2>1
    <2>3. /\ rest \in Seq(Cells) /\ Len(rest) = Len(plan)
          /\ \A i \in 1 .. Len(plan) : rest[i].is = "extent"
        BY <1>3, MappedCells
    <2> HIDE DEF head, rest
    <2>4. /\ w \in Seq(Cells) /\ Len(w) = Len(head) + Len(rest)
          /\ \A i \in 1 .. Len(head) + Len(rest) :
                w[i] = IF i <= Len(head) THEN head[i] ELSE rest[i - Len(head)]
        <3>0. head \in Seq(Cells) /\ rest \in Seq(Cells)
            BY <2>2, <2>3
        <3>1. head \o rest \in Seq(Cells)
            BY <3>0, ConcatProperties
        <3>2. Len(head \o rest) = Len(head) + Len(rest)
            BY <3>0, ConcatProperties
        <3>3. \A i \in 1 .. Len(head) + Len(rest) :
                (head \o rest)[i] = IF i <= Len(head) THEN head[i] ELSE rest[i - Len(head)]
            BY <3>0, ConcatProperties
        <3> QED BY <3>1, <3>2, <3>3
    <2> HIDE DEF w
    <2>5. w[1] = head[1]
        BY <1>3, <2>2, <2>3, <2>4
    <2>6. ASSUME NEW i \in 1 .. 1 + Len(plan) PROVE w[i].is \in {"head", "extent"}
        <3>1. CASE i = 1
            BY <2>2, <2>5, <3>1
        <3>2. CASE i # 1
            <4>1. w[i] = rest[i - 1] /\ i - 1 \in 1 .. Len(plan)
                BY <1>3, <2>2, <2>3, <2>4, <3>2
            <4> QED BY <2>3, <4>1
        <3> QED BY <1>3, <3>1, <3>2
    <2> QED BY <2>2, <2>3, <2>4, <2>5, <2>6
<1>6. file' = Put(file, at, w)
    BY <1>2
<1> HIDE DEF w, head, rest
<1>7. /\ file' \in Seq(Cells) /\ Len(file') = at + 1 + Len(plan)
      /\ \A i \in 1 .. Len(file) : file'[i] = file[i]
      /\ \A i \in Len(file) + 1 .. at : file'[i] = Hole
      /\ \A i \in at + 1 .. Len(file') : file'[i] = w[i - at]
    <2>1. /\ file' \in Seq(Cells) /\ Len(file') = at + Len(w)
          /\ \A i \in 1 .. Len(file) : file'[i] = file[i]
          /\ \A i \in Len(file) + 1 .. at : file'[i] = Hole
          /\ \A i \in at + 1 .. at + Len(w) : file'[i] = w[i - at]
        <3>1. Len(file) <= at
            BY <1>4
        <3>2. Appended(file', file, at, w)
            BY <1>4, <1>5, <1>6, <3>1, AppendedIs
        <3> QED BY <3>2 DEF Appended
    <2>2. at + Len(w) = at + 1 + Len(plan)
        BY <1>3, <1>4, <1>5
    <2> QED BY <2>1, <2>2
<1>8. at' = at + 1 + Len(plan) /\ at' \in Nat
    BY <1>2, <1>3, <1>4 DEF HeadSize
<1>9. /\ entries' = Append(entries, EntryCell(at, 0)) /\ rows' = <<>>
      /\ records' = Append(records, <<>>) /\ UNCHANGED <<tables, crashed, cut>>
    BY DEF BeginStream, harm
<1>10. /\ entries' \in Seq(EntryCells) /\ Len(entries') = Len(entries) + 1
       /\ records' \in Seq(Seq(Data)) /\ Len(records') = Len(records) + 1
       /\ \A k \in 1 .. Len(records) : records'[k] = records[k]
       /\ records'[Len(records) + 1] = <<>>
    <2>1. EntryCell(at, 0) \in EntryCells
        BY <1>4, MadeAreCells
    <2>2. entries \in Seq(EntryCells) /\ records \in Seq(Seq(Data))
        BY DEF Typed
    <2>3. entries' \in Seq(EntryCells) /\ Len(entries') = Len(entries) + 1
        BY <1>9, <2>1, <2>2
    <2>4. <<>> \in Seq(Data)
        OBVIOUS
    <2> QED BY <1>9, <2>2, <2>3, <2>4
<1>11. DOMAIN file' = 1 .. at + 1 + Len(plan)
    BY <1>7
<1>12. \A i \in DOMAIN file' : i \in 1 .. Len(file) \/ i \in Len(file) + 1 .. at \/ i \in at + 1 .. Len(file')
    BY <1>3, <1>4, <1>7, <1>11
<1>13. Typed'
    <2>1. stream' \in [off : Nat, plan : Seq(Extents), ext : Nat \ {0}, filled : Nat]
        BY <1>2, <1>3, <1>4
    <2>2. Len(entries') <= Parts /\ Len(records') = Len(entries')
        BY <1>1, <1>10, Numbers DEF Typed
    <2>3. rows' \in Seq(Row)
        BY <1>9
    <2> QED BY <1>1, <1>7, <1>8, <1>9, <1>10, <2>1, <2>2, <2>3 DEF Typed, Phases
<1>14. Layout'
    <2>1. file'[1].is = "header"
        BY <1>4, <1>7
    <2>2. ASSUME NEW i \in DOMAIN file', i > 1, i <= 1 + Reserve PROVE file'[i] = Hole
        BY <1>4, <1>7, <1>12, <2>2
    <2>3. Len(file') \in 1 .. at' /\ 1 + Reserve <= at'
        BY <1>3, <1>4, <1>7, <1>8
    <2>4. stream'.off = at /\ at + 1 <= Len(file') /\ file'[at + 1].is = "head"
        <3>1. at + 1 \in at + 1 .. Len(file') /\ at + 1 - at = 1
            BY <1>3, <1>4, <1>7
        <3>2. file'[at + 1] = w[1]
            <4>1. PICK j \in Nat : j = at + 1
                BY <1>4
            <4>2. file'[j] = w[j - at] /\ j - at = 1
                BY <1>4, <1>7, <3>1, <4>1
            <4> QED BY <4>1, <4>2
        <3>3. stream'.off = at
            BY <1>2
        <3>4. at + 1 <= Len(file')
            BY <1>3, <1>4, <1>7
        <3> QED BY <1>5, <3>2, <3>3, <3>4
    <2> QED BY <1>1, <1>4, <2>1, <2>2, <2>3, <2>4 DEF Layout
<1>15. Footers'
    <2>1. ASSUME NEW i \in DOMAIN file' PROVE file'[i].is # "footer"
        <3>1. CASE i \in 1 .. Len(file)
            BY <1>1, <1>4, <1>7, <3>1 DEF Footers
        <3>2. CASE i \in Len(file) + 1 .. at
            BY <1>7, <3>2, HoleIs
        <3>3. CASE i \in at + 1 .. Len(file')
            <4>1. i - at \in 1 .. Len(w)
                BY <1>3, <1>4, <1>5, <1>7, <3>3
            <4> QED BY <1>5, <1>7, <3>3, <4>1
        <3> QED BY <1>12, <3>1, <3>2, <3>3
    <2>2. ~crashed' /\ ~cut'
        BY <1>1, <1>9 DEF Footers, Typed
    <2> QED BY <2>1, <2>2 DEF Footers
<1>16. RecordsAre'
    <2>1. Len(entries) = Len(tables) /\ Len(records) = Len(entries) /\ Len(tables) \in Nat
        BY <1>1 DEF RecordsAre, Typed
    <2>2. stream'.plan = plan /\ stream'.ext = 1 /\ stream'.filled = 0
        BY <1>2
    <2>3. Recorded(<<>>, Len(entries'), plan, 1, 0)
        BY <1>3, RecordedStart
    <2>4. records'[Len(entries')] = <<>>
        BY <1>10, <2>1
    <2>5. 1 \in DOMAIN plan => 0 < plan[1].count
        <3>1. ASSUME 1 \in DOMAIN plan PROVE 0 < plan[1].count
            <4>1. plan[1] \in Extents
                BY <1>3, <3>1
            <4> QED BY <4>1 DEF Extents
        <3> QED BY <3>1
    <2>6. \A k \in 1 .. Len(tables) :
             Recorded(records'[k], k, tables[k].extents, Len(tables[k].extents) + 1, 0)
        BY <1>10, <2>1 DEF RecordsAre
    <2>7. 1 \in 1 .. Len(plan) + 1
        BY <1>3
    <2>8. Len(entries') = Len(tables') + 1 /\ Len(tables') <= Len(entries')
        BY <1>9, <1>10, <2>1
    <2> QED BY <1>1, <1>3, <1>9, <2>2, <2>3, <2>4, <2>5, <2>6, <2>7, <2>8 DEF RecordsAre
<1>17. Clean
    BY <1>4, <1>7 DEF Clean
<1> QED BY <1>13, <1>14, <1>15, <1>16, <1>17

\* Where capture is in a plan changes, the plan and its place do not.
LEMMA StreamMoved ==
    ASSUME NEW s \in [off : Nat, plan : Seq(Extents), ext : Nat \ {0}, filled : Nat],
           NEW x \in Nat \ {0}, NEW n \in Nat, NEW t,
           \/ t = [s EXCEPT !.ext = x, !.filled = n]
           \/ t = [s EXCEPT !.filled = n] /\ x = s.ext
    PROVE  /\ t \in [off : Nat, plan : Seq(Extents), ext : Nat \ {0}, filled : Nat]
           /\ t.plan = s.plan /\ t.off = s.off /\ t.ext = x /\ t.filled = n
OBVIOUS

\* A chunk goes behind what is there, its row and its record at the end of theirs.
LEMMA WriteChunkKeeps ==
    ASSUME ContainerInv, WriteChunk
    PROVE  ContainerInv' /\ Clean
<1> USE DEF ContainerInv
<1> DEFINE e == stream.plan[stream.ext]
           p == Len(entries)
<1>1. /\ phase = "stream" /\ phase' = "stream" /\ stream.ext <= Len(stream.plan)
      /\ UNCHANGED <<entries, tables, crashed, cut>>
    BY DEF WriteChunk, harm
<1>2. PICK ulen \in 1 .. e.count - stream.filled, clen \in Packed :
          LET data == [part |-> p, from |-> e.start + stream.filled, len |-> ulen]
          IN  /\ file' = Put(file, at, [j \in 1 .. clen |-> BlobCell(data, j, clen)])
              /\ at' = at + clen
              /\ rows' = Append(rows, [off |-> at, clen |-> clen, ulen |-> ulen, ext |-> stream.ext])
              /\ records' = [records EXCEPT ![p] = Append(@, data)]
              /\ stream' = IF stream.filled + ulen = e.count
                           THEN [stream EXCEPT !.ext = @ + 1, !.filled = 0]
                           ELSE [stream EXCEPT !.filled = @ + ulen]
    BY DEF WriteChunk
<1> DEFINE data == [part |-> p, from |-> e.start + stream.filled, len |-> ulen]
           w == [j \in 1 .. clen |-> BlobCell(data, j, clen)]
<1>3. /\ file' = Put(file, at, w) /\ at' = at + clen
      /\ rows' = Append(rows, [off |-> at, clen |-> clen, ulen |-> ulen, ext |-> stream.ext])
      /\ records' = [records EXCEPT ![p] = Append(@, data)]
      /\ stream' = IF stream.filled + ulen = e.count
                   THEN [stream EXCEPT !.ext = @ + 1, !.filled = 0]
                   ELSE [stream EXCEPT !.filled = @ + ulen]
    BY <1>2
<1>4. /\ stream \in [off : Nat, plan : Seq(Extents), ext : Nat \ {0}, filled : Nat]
      /\ stream.plan \in Seq(Extents) /\ stream.ext \in DOMAIN stream.plan /\ Len(stream.plan) \in Nat
      /\ stream.ext \in Nat /\ stream.filled \in Nat /\ Ordered(stream.plan)
      /\ p \in Nat /\ p >= 1 /\ p = Len(tables) + 1 /\ Len(tables) \in Nat
      /\ records \in Seq(Seq(Data)) /\ Len(records) = p /\ p \in DOMAIN records
      /\ Recorded(records[p], p, stream.plan, stream.ext, stream.filled)
    <2>1. stream \in [off : Nat, plan : Seq(Extents), ext : Nat \ {0}, filled : Nat]
        BY DEF Typed
    <2>2. stream.plan \in Seq(Extents) /\ stream.ext \in Nat \ {0} /\ stream.filled \in Nat
        BY <2>1
    <2>3. stream.ext \in DOMAIN stream.plan /\ Len(stream.plan) \in Nat
        BY <1>1, <2>2
    <2>4. records \in Seq(Seq(Data)) /\ Len(records) = p /\ p \in Nat /\ Len(tables) \in Nat
        BY DEF Typed
    <2>5. p = Len(tables) + 1 /\ Ordered(stream.plan)
          /\ Recorded(records[p], p, stream.plan, stream.ext, stream.filled)
        BY <1>1 DEF RecordsAre
    <2>6. p >= 1 /\ p \in DOMAIN records
        BY <2>4, <2>5
    <2> QED BY <2>1, <2>2, <2>3, <2>4, <2>5, <2>6
<1>5. e.start \in Nat /\ e.count \in Nat
    BY <1>4, AnExtent
<1>6. /\ ulen \in Nat /\ ulen >= 1 /\ stream.filled + ulen <= e.count
      /\ clen \in Nat \ {0}
    BY <1>4, <1>5, Numbers
<1>7. /\ data \in Data /\ records[p] \in Seq(Data)
      /\ Append(records[p], data) \in Seq(Data)
      /\ Recorded(Append(records[p], data), p, stream.plan, stream.ext, stream.filled + ulen)
      /\ stream.filled + ulen = e.count =>
            Recorded(Append(records[p], data), p, stream.plan, stream.ext + 1, 0)
    <2>1. records[p] \in Seq(Data)
        BY <1>4
    <2> HIDE DEF p
    <2> QED BY <1>4, <1>6, <2>1, RecordedMore
<1>8. /\ w \in Seq(Cells) /\ Len(w) = clen /\ \A i \in 1 .. Len(w) : w[i].is = "blob"
    <2>1. \A j \in 1 .. clen : BlobCell(data, j, clen) \in Cells /\ BlobCell(data, j, clen).is = "blob"
        BY <1>6, <1>7, MadeAreCells
    <2> HIDE DEF data
    <2> QED BY <1>6, <2>1
<1> HIDE DEF w, data, e
<1>9. /\ file \in Seq(Cells) /\ Len(file) \in 1 .. at /\ at \in Nat /\ 1 + Reserve <= at /\ Reserve \in Nat
      /\ file[1].is = "header" /\ Len(file) \in Nat /\ DOMAIN file = 1 .. Len(file)
      /\ \A i \in DOMAIN file : i > 1 /\ i <= 1 + Reserve => file[i] = Hole
    BY <1>1, Numbers DEF Typed, Layout
<1>10. /\ file' \in Seq(Cells) /\ Len(file') = at + clen
       /\ \A i \in 1 .. Len(file) : file'[i] = file[i]
       /\ \A i \in Len(file) + 1 .. at : file'[i] = Hole
       /\ \A i \in at + 1 .. at + clen : file'[i] = w[i - at]
    <2>1. Len(file) <= at
        BY <1>9
    <2>2. Appended(file', file, at, w)
        BY <1>3, <1>8, <1>9, <2>1, AppendedIs
    <2> QED BY <1>8, <2>2 DEF Appended
<1>11. DOMAIN file' = 1 .. at + clen
    BY <1>10
<1>12. \A i \in DOMAIN file' : i \in 1 .. Len(file) \/ i \in Len(file) + 1 .. at \/ i \in at + 1 .. at + clen
    BY <1>6, <1>9, <1>11
<1>13. /\ stream' \in [off : Nat, plan : Seq(Extents), ext : Nat \ {0}, filled : Nat]
       /\ stream'.plan = stream.plan /\ stream'.off = stream.off
       /\ stream.filled + ulen = e.count => stream'.ext = stream.ext + 1 /\ stream'.filled = 0
       /\ stream.filled + ulen # e.count =>
             stream'.ext = stream.ext /\ stream'.filled = stream.filled + ulen
    <2>1. CASE stream.filled + ulen = e.count
        <3>1. PICK x \in Nat \ {0}, n \in Nat : x = stream.ext + 1 /\ n = 0
            BY <1>4
        <3>2. stream' = [stream EXCEPT !.ext = x, !.filled = n]
            BY <1>3, <2>1, <3>1
        <3>3. /\ stream' \in [off : Nat, plan : Seq(Extents), ext : Nat \ {0}, filled : Nat]
              /\ stream'.plan = stream.plan /\ stream'.off = stream.off
              /\ stream'.ext = x /\ stream'.filled = n
            BY <1>4, <3>2, StreamMoved
        <3> QED BY <2>1, <3>1, <3>3
    <2>2. CASE stream.filled + ulen # e.count
        <3>1. PICK x \in Nat \ {0}, n \in Nat : x = stream.ext /\ n = stream.filled + ulen
            BY <1>4, <1>6
        <3>2. stream' = [stream EXCEPT !.filled = n]
            BY <1>3, <2>2, <3>1
        <3>3. /\ stream' \in [off : Nat, plan : Seq(Extents), ext : Nat \ {0}, filled : Nat]
              /\ stream'.plan = stream.plan /\ stream'.off = stream.off
              /\ stream'.ext = x /\ stream'.filled = n
            BY <1>4, <3>1, <3>2, StreamMoved
        <3> QED BY <2>2, <3>1, <3>3
    <2> QED BY <2>1, <2>2
<1>14. /\ records' \in Seq(Seq(Data)) /\ Len(records') = p
       /\ records'[p] = Append(records[p], data)
       /\ \A k \in 1 .. p : k # p => records'[k] = records[k]
    <2> HIDE DEF p
    <2> QED BY <1>3, <1>4, <1>7
<1>15. Typed'
    <2>1. at' \in Nat
        BY <1>3, <1>6, <1>9
    <2>2. rows' \in Seq(Row)
        <3>1. [off |-> at, clen |-> clen, ulen |-> ulen, ext |-> stream.ext] \in Row
            BY <1>4, <1>6, <1>9 DEF Row
        <3>2. rows \in Seq(Row)
            BY DEF Typed
        <3> QED BY <1>3, <3>1, <3>2
    <2> QED BY <1>1, <1>10, <1>13, <1>14, <2>1, <2>2 DEF Typed, Phases
<1>16. Layout'
    <2>1. file'[1].is = "header"
        BY <1>9, <1>10
    <2>2. ASSUME NEW i \in DOMAIN file', i > 1, i <= 1 + Reserve PROVE file'[i] = Hole
        BY <1>9, <1>10, <1>12, <2>2
    <2>3. Len(file') \in 1 .. at' /\ 1 + Reserve <= at'
        BY <1>3, <1>6, <1>9, <1>10
    <2>4. /\ stream'.off >= 1 + Reserve /\ stream'.off + 1 <= Len(file')
          /\ file'[stream'.off + 1].is = "head"
        <3>1. stream.off >= 1 + Reserve /\ stream.off + 1 <= Len(file) /\ file[stream.off + 1].is = "head"
            BY <1>1 DEF Layout
        <3>2. PICK j \in Nat : j = stream.off + 1
            BY <1>4
        <3>3. j \in 1 .. Len(file)
            BY <1>4, <1>9, <3>1, <3>2
        <3>4. file'[j].is = "head" /\ j <= Len(file')
            BY <1>6, <1>9, <1>10, <3>1, <3>2, <3>3
        <3> QED BY <1>13, <3>1, <3>2, <3>4
    <2> QED BY <1>1, <2>1, <2>2, <2>3, <2>4 DEF Layout
<1>17. Footers'
    <2>1. ASSUME NEW i \in DOMAIN file' PROVE file'[i].is # "footer"
        <3>1. CASE i \in 1 .. Len(file)
            BY <1>1, <1>9, <1>10, <3>1 DEF Footers
        <3>2. CASE i \in Len(file) + 1 .. at
            BY <1>10, <3>2, HoleIs
        <3>3. CASE i \in at + 1 .. at + clen
            <4>1. i - at \in 1 .. Len(w)
                BY <1>6, <1>8, <1>9, <3>3
            <4> QED BY <1>8, <1>10, <3>3, <4>1
        <3> QED BY <1>12, <3>1, <3>2, <3>3
    <2>2. ~crashed' /\ ~cut'
        BY <1>1 DEF Footers, Typed
    <2> QED BY <2>1, <2>2 DEF Footers
<1>18. RecordsAre'
    <2>1. \A k \in 1 .. Len(tables) :
             Recorded(records'[k], k, tables[k].extents, Len(tables[k].extents) + 1, 0)
        <3> SUFFICES ASSUME NEW k \in 1 .. Len(tables)
                     PROVE  Recorded(records'[k], k, tables[k].extents, Len(tables[k].extents) + 1, 0)
            OBVIOUS
        <3>1. k \in 1 .. p /\ k # p
            BY <1>4
        <3> QED BY <1>14, <3>1 DEF RecordsAre
    <2>2. CASE stream.filled + ulen = e.count
        <3>1. stream'.ext = stream.ext + 1 /\ stream'.filled = 0
            BY <1>13, <2>2
        <3>2. stream'.ext \in 1 .. Len(stream.plan) + 1
            BY <1>4, <3>1
        <3>3. stream'.ext \in DOMAIN stream.plan => stream'.filled < stream.plan[stream'.ext].count
            <4>1. ASSUME stream'.ext \in DOMAIN stream.plan
                  PROVE  stream'.filled < stream.plan[stream'.ext].count
                <5>1. stream.plan[stream'.ext] \in Extents
                    BY <1>4, <4>1
                <5> QED BY <3>1, <5>1 DEF Extents
            <4> QED BY <4>1
        <3>4. Recorded(records'[p], p, stream.plan, stream'.ext, stream'.filled)
            BY <1>7, <1>14, <2>2, <3>1
        <3> QED BY <1>1, <1>4, <1>13, <2>1, <3>2, <3>3, <3>4 DEF RecordsAre
    <2>3. CASE stream.filled + ulen # e.count
        <3>1. stream'.ext = stream.ext /\ stream'.filled = stream.filled + ulen
            BY <1>13, <2>3
        <3>2. stream'.ext \in 1 .. Len(stream.plan) + 1
            BY <1>4, <3>1
        <3>3. stream'.filled < stream.plan[stream'.ext].count
            <4>1. stream.filled + ulen < e.count
                <5>1. PICK m \in Nat : m = e.count
                    BY <1>5
                <5>2. PICK n \in Nat : n = stream.filled + ulen
                    BY <1>4, <1>6
                <5>3. n <= m /\ n # m
                    BY <1>6, <2>3, <5>1, <5>2
                <5> QED BY <5>1, <5>2, <5>3
            <4>2. e = stream.plan[stream'.ext]
                BY <3>1 DEF e
            <4> QED BY <3>1, <4>1, <4>2
        <3>4. Recorded(records'[p], p, stream.plan, stream'.ext, stream'.filled)
            BY <1>7, <1>14, <3>1
        <3> QED BY <1>1, <1>4, <1>13, <2>1, <3>2, <3>3, <3>4 DEF RecordsAre
    <2> QED BY <2>2, <2>3
<1>19. Clean
    BY <1>9, <1>10 DEF Clean
<1> QED BY <1>15, <1>16, <1>17, <1>18, <1>19

\* Finishing a stream puts the rows behind the data and its count into the head.
LEMMA FinishStreamKeeps ==
    ASSUME ContainerInv, FinishStream
    PROVE  ContainerInv' /\ Clean
<1> USE DEF ContainerInv
<1> DEFINE w == Map(rows, RowCell)
           h == HeadCell(Len(stream.plan), Len(rows))
           g == Put(file, at, w)
           p == Len(entries)
<1>1. /\ phase = "stream" /\ phase' = "between" /\ stream.ext > Len(stream.plan)
      /\ UNCHANGED <<stream, rows, records, crashed, cut>>
    BY DEF FinishStream, harm
<1>2. /\ file' = Put(g, stream.off, <<h>>) /\ at' = at + Len(rows)
      /\ entries' = [entries EXCEPT ![p].len = at + Len(rows) - stream.off]
      /\ tables' = Append(tables, [extents |-> stream.plan, rows |-> rows])
    BY DEF FinishStream
<1>3. /\ file \in Seq(Cells) /\ Len(file) \in 1 .. at /\ at \in Nat /\ 1 + Reserve <= at /\ Reserve \in Nat
      /\ file[1].is = "header" /\ Len(file) \in Nat /\ DOMAIN file = 1 .. Len(file)
      /\ \A i \in DOMAIN file : i > 1 /\ i <= 1 + Reserve => file[i] = Hole
    BY <1>1, Numbers DEF Typed, Layout
<1>4. /\ stream.off \in Nat /\ stream.plan \in Seq(Extents) /\ stream.ext \in Nat /\ Len(stream.plan) \in Nat
      /\ rows \in Seq(Row) /\ Len(rows) \in Nat
    <2>1. stream \in [off : Nat, plan : Seq(Extents), ext : Nat \ {0}, filled : Nat]
        BY DEF Typed
    <2>2. rows \in Seq(Row)
        BY DEF Typed
    <2> QED BY <2>1, <2>2
<1>5. /\ stream.off >= 1 + Reserve /\ stream.off + 1 <= Len(file) /\ file[stream.off + 1].is = "head"
    BY <1>1 DEF Layout
<1>6. w \in Seq(Cells) /\ Len(w) = Len(rows) /\ \A i \in 1 .. Len(w) : w[i].is = "row"
    BY <1>4, MappedCells
<1>7. h \in Cells /\ h.is = "head"
    BY <1>4, MadeAreCells
<1>8. /\ g \in Seq(Cells) /\ Len(g) = at + Len(rows)
      /\ \A i \in 1 .. Len(file) : g[i] = file[i]
      /\ \A i \in Len(file) + 1 .. at : g[i] = Hole
      /\ \A i \in at + 1 .. at + Len(rows) : g[i] = w[i - at]
    <2>1. Len(file) <= at
        BY <1>3
    <2> HIDE DEF w
    <2>2. Appended(g, file, at, w)
        BY <1>3, <1>6, <2>1, AppendedIs
    <2> HIDE DEF g
    <2> QED BY <1>6, <2>2 DEF Appended
<1> HIDE DEF w, h, g
<1>9. /\ file' \in Seq(Cells) /\ Len(file') = Len(g) /\ file'[stream.off + 1] = h
      /\ \A i \in 1 .. Len(g) : i # stream.off + 1 => file'[i] = g[i]
    <2>1. stream.off < Len(g)
        BY <1>3, <1>4, <1>5, <1>8
    <2>2. Patched(file', g, stream.off, h)
        BY <1>2, <1>4, <1>7, <1>8, <2>1, PatchedIs
    <2> QED BY <2>2 DEF Patched
<1>10. DOMAIN file' = 1 .. at + Len(rows) /\ Len(file') = at + Len(rows)
    BY <1>8, <1>9
<1>11. \A i \in DOMAIN file' : /\ i \in 1 .. Len(g)
                               /\ i \in 1 .. Len(file) \/ i \in Len(file) + 1 .. at \/ i \in at + 1 .. at + Len(rows)
    BY <1>3, <1>4, <1>8, <1>10
<1>12. /\ entries \in Seq(EntryCells) /\ p \in Nat /\ p = Len(tables) + 1 /\ Len(tables) \in Nat
       /\ records \in Seq(Seq(Data)) /\ Len(records) = p /\ p <= Parts
       /\ tables \in Seq([extents : Seq(Extents), rows : Seq(Row)])
    BY <1>1 DEF Typed, RecordsAre
<1>13. entries' \in Seq(EntryCells) /\ Len(entries') = Len(entries)
    <2>1. p \in DOMAIN entries
        BY <1>12
    <2>2. entries[p] \in EntryCells
        BY <1>12, <2>1
    <2>3. PICK n \in Nat : n = at + Len(rows) - stream.off
        BY <1>3, <1>4, <1>5
    <2>4. entries' = [entries EXCEPT ![p] = [entries[p] EXCEPT !.len = n]]
        BY <1>2, <2>3
    <2>5. [entries[p] EXCEPT !.len = n] \in EntryCells
        BY <2>2 DEF EntryCells
    <2> HIDE DEF p
    <2> QED BY <1>12, <2>1, <2>4, <2>5
<1>14. /\ tables' \in Seq([extents : Seq(Extents), rows : Seq(Row)]) /\ Len(tables') = p
       /\ \A k \in 1 .. Len(tables) : tables'[k] = tables[k]
       /\ tables'[p] = [extents |-> stream.plan, rows |-> rows]
    <2>1. [extents |-> stream.plan, rows |-> rows] \in [extents : Seq(Extents), rows : Seq(Row)]
        BY <1>4
    <2> HIDE DEF p
    <2> QED BY <1>2, <1>12, <2>1
<1>15. Typed'
    <2>1. at' \in Nat
        BY <1>2, <1>3, <1>4
    <2> QED BY <1>1, <1>9, <1>13, <1>14, <2>1 DEF Typed, Phases
<1>16. Layout'
    <2>1. 1 # stream.off + 1
        BY <1>3, <1>4, <1>5
    <2>2. file'[1].is = "header"
        BY <1>3, <1>4, <1>8, <1>9, <2>1
    <2>3. ASSUME NEW i \in DOMAIN file', i > 1, i <= 1 + Reserve PROVE file'[i] = Hole
        <3>1. i # stream.off + 1 /\ i \in 1 .. at
            BY <1>3, <1>4, <1>5, <1>10, <2>3
        <3>2. file'[i] = g[i]
            BY <1>9, <1>11, <3>1
        <3> QED BY <1>3, <1>8, <2>3, <3>1, <3>2
    <2>4. Len(file') \in 1 .. at' /\ 1 + Reserve <= at'
        BY <1>2, <1>3, <1>4, <1>10
    <2> QED BY <1>1, <2>2, <2>3, <2>4 DEF Layout
<1>17. Footers'
    <2>1. ASSUME NEW i \in DOMAIN file' PROVE file'[i].is # "footer"
        <3>1. CASE i = stream.off + 1
            BY <1>7, <1>9, <3>1
        <3>2. CASE i # stream.off + 1
            <4>0. file'[i] = g[i]
                BY <1>9, <1>11, <3>2
            <4>1. CASE i \in 1 .. Len(file)
                BY <1>1, <1>3, <1>8, <4>0, <4>1 DEF Footers
            <4>2. CASE i \in Len(file) + 1 .. at
                BY <1>8, <4>0, <4>2, HoleIs
            <4>3. CASE i \in at + 1 .. at + Len(rows)
                <5>1. i - at \in 1 .. Len(w)
                    BY <1>3, <1>4, <1>6, <4>3
                <5> QED BY <1>6, <1>8, <4>0, <4>3, <5>1
            <4> QED BY <1>11, <4>1, <4>2, <4>3
        <3> QED BY <3>1, <3>2
    <2>2. ~crashed' /\ ~cut'
        BY <1>1 DEF Footers, Typed
    <2> QED BY <2>1, <2>2 DEF Footers
<1>18. RecordsAre'
    <2>1. Recorded(records[p], p, stream.plan, Len(stream.plan) + 1, 0)
        <3>1. /\ Recorded(records[p], p, stream.plan, stream.ext, stream.filled)
              /\ stream.ext \in 1 .. Len(stream.plan) + 1
            BY <1>1 DEF RecordsAre
        <3>2. stream.ext = Len(stream.plan) + 1
            BY <1>1, <1>4, <3>1
        <3>3. Front(stream.plan, Len(stream.plan) + 1, stream.filled)
                  = Front(stream.plan, Len(stream.plan) + 1, 0)
            BY <1>4, FrontAll
        <3>4. Len(stream.plan) + 1 \notin DOMAIN stream.plan
            BY <1>4
        <3> QED BY <3>1, <3>2, <3>3, <3>4 DEF Recorded
    <2>2. ASSUME NEW k \in 1 .. Len(tables')
          PROVE  Recorded(records[k], k, tables'[k].extents, Len(tables'[k].extents) + 1, 0)
        <3>1. CASE k = p
            <4>1. tables'[k].extents = stream.plan
                BY <1>14, <3>1
            <4> QED BY <2>1, <3>1, <4>1
        <3>2. CASE k # p
            <4>1. k \in 1 .. Len(tables)
                BY <1>12, <1>14, <3>2
            <4> QED BY <1>14, <4>1 DEF RecordsAre
        <3> QED BY <3>1, <3>2
    <2> HIDE DEF p
    <2>3. Len(entries') = Len(tables')
        BY <1>13, <1>14 DEF p
    <2>4. Len(tables') <= Len(entries')
        BY <1>12, <1>14, <2>3
    <2> QED BY <1>1, <2>2, <2>3, <2>4 DEF RecordsAre
<1>19. Clean
    <2> SUFFICES ASSUME NEW i \in DOMAIN file
                 PROVE  file[i].is \in {"hole", "header", "head"} \/ file'[i] = file[i]
        BY DEF Clean
    <2>1. i \in 1 .. Len(g) /\ g[i] = file[i]
        BY <1>3, <1>4, <1>8
    <2> QED BY <1>5, <1>9, <2>1
<1> QED BY <1>15, <1>16, <1>17, <1>18, <1>19

\* The manifest goes behind all streams.
LEMMA WriteManifestKeeps ==
    ASSUME ContainerInv, WriteManifest
    PROVE  ContainerInv' /\ Clean
<1> USE DEF ContainerInv
<1> DEFINE c == ManifestCell(records)
           w == <<c>>
<1>1. /\ phase = "between" /\ phase' = "index" /\ Len(entries) = Parts
      /\ UNCHANGED <<entries, stream, rows, records, tables, crashed, cut>>
      /\ file' = Put(file, at, w) /\ at' = at + 1
    BY DEF WriteManifest, harm
<1>2. /\ file \in Seq(Cells) /\ Len(file) \in 1 .. at /\ at \in Nat /\ 1 + Reserve <= at /\ Reserve \in Nat
      /\ file[1].is = "header" /\ Len(file) \in Nat /\ DOMAIN file = 1 .. Len(file)
      /\ \A i \in DOMAIN file : i > 1 /\ i <= 1 + Reserve => file[i] = Hole
    BY <1>1, Numbers DEF Typed, Layout
<1>3. c \in Cells /\ c.is = "manifest"
    BY MadeAreCells DEF Typed
<1>4. w \in Seq(Cells) /\ Len(w) = 1 /\ w[1] = c
    BY <1>3
<1> HIDE DEF w
<1>5. /\ file' \in Seq(Cells) /\ Len(file') = at + 1
      /\ \A i \in 1 .. Len(file) : file'[i] = file[i]
      /\ \A i \in Len(file) + 1 .. at : file'[i] = Hole
      /\ file'[at + 1] = c
    <2>1. Len(file) <= at
        BY <1>2
    <2>2. Appended(file', file, at, w)
        BY <1>1, <1>2, <1>4, <2>1, AppendedIs
    <2>3. PICK j \in Nat : j = at + 1
        BY <1>2
    <2>4. j \in at + 1 .. at + 1 /\ j - at = 1
        BY <1>2, <2>3
    <2>5. file'[j] = c
        BY <1>4, <2>2, <2>4 DEF Appended
    <2> QED BY <1>4, <2>2, <2>3, <2>5 DEF Appended
<1> HIDE DEF c
<1>6. \A i \in DOMAIN file' : i \in 1 .. Len(file) \/ i \in Len(file) + 1 .. at \/ i = at + 1
    BY <1>2, <1>5
<1>7. Typed'
    BY <1>1, <1>2, <1>5 DEF Typed, Phases
<1>8. Layout'
    <2>1. ASSUME NEW i \in DOMAIN file', i > 1, i <= 1 + Reserve PROVE file'[i] = Hole
        BY <1>2, <1>5, <1>6, <2>1
    <2>2. file'[1].is = "header" /\ Len(file') \in 1 .. at' /\ 1 + Reserve <= at'
        BY <1>1, <1>2, <1>5
    <2> QED BY <1>1, <2>1, <2>2 DEF Layout
<1>9. Footers'
    <2>1. ASSUME NEW i \in DOMAIN file' PROVE file'[i].is # "footer"
        <3>1. CASE i \in 1 .. Len(file)
            BY <1>1, <1>2, <1>5, <3>1 DEF Footers
        <3>2. CASE i \in Len(file) + 1 .. at
            BY <1>5, <3>2, HoleIs
        <3>3. CASE i = at + 1
            BY <1>3, <1>5, <3>3
        <3> QED BY <1>6, <3>1, <3>2, <3>3
    <2>2. ~crashed' /\ ~cut'
        BY <1>1 DEF Footers, Typed
    <2> QED BY <2>1, <2>2 DEF Footers
<1>10. RecordsAre'
    BY <1>1 DEF RecordsAre
<1>11. Clean
    BY <1>2, <1>5 DEF Clean
<1> QED BY <1>7, <1>8, <1>9, <1>10, <1>11

\* The index goes where room was left for it.
LEMMA WriteIndexKeeps ==
    ASSUME ContainerInv, WriteIndex
    PROVE  ContainerInv' /\ Clean
<1> USE DEF ContainerInv
<1>1. /\ phase = "index" /\ phase' = "header" /\ file' = Put(file, 1, entries)
      /\ UNCHANGED <<at, entries, stream, rows, records, tables, crashed, cut>>
    BY DEF WriteIndex, harm
<1>2. /\ file \in Seq(Cells) /\ Len(file) \in 1 .. at /\ at \in Nat /\ 1 + Reserve <= at /\ Reserve \in Nat
      /\ file[1].is = "header" /\ Len(file) \in Nat /\ DOMAIN file = 1 .. Len(file)
      /\ \A i \in DOMAIN file : i > 1 /\ i <= 1 + Reserve => file[i] = Hole
    BY <1>1, Numbers DEF Typed, Layout
<1>3. /\ entries \in Seq(EntryCells) /\ Len(entries) \in Nat /\ Len(entries) <= Reserve
      /\ \A i \in 1 .. Len(entries) : entries[i].is = "entry"
    <2>1. entries \in Seq(EntryCells) /\ Len(entries) <= Parts /\ Len(entries) \in Nat
        BY DEF Typed
    <2>2. \A i \in 1 .. Len(entries) : entries[i] \in EntryCells
        BY <2>1
    <2> QED BY <2>1, <2>2, Numbers DEF EntryCells
<1>4. entries \in Seq(Cells)
    BY <1>3, MadeAreCells
<1>5. /\ file' \in Seq(Cells)
      /\ Len(file') = IF 1 + Len(entries) > Len(file) THEN 1 + Len(entries) ELSE Len(file)
      /\ \A i \in 1 .. Len(file') :
            /\ 1 < i /\ i <= 1 + Len(entries) => file'[i] = entries[i - 1]
            /\ i <= 1 \/ 1 + Len(entries) < i => file'[i] = IF i <= Len(file) THEN file[i] ELSE Hole
    <2>1. PICK off \in Nat : off = 1
        OBVIOUS
    <2>2. Written(file', file, off, entries)
        BY <1>1, <1>2, <1>4, <2>1, PutIs
    <2> QED BY <2>1, <2>2 DEF Written
<1>6. DOMAIN file' = 1 .. Len(file') /\ Len(file') \in Nat
    BY <1>5
<1>7. Typed'
    BY <1>1, <1>5 DEF Typed, Phases
<1>8. Layout'
    <2>1. Len(file') \in 1 .. at'
        BY <1>1, <1>2, <1>3, <1>5
    <2>2. file'[1].is = "header"
        <3>1. 1 \in 1 .. Len(file') /\ 1 <= Len(file)
            BY <1>2, <1>3, <1>5
        <3> QED BY <1>2, <1>5, <3>1
    <2> QED BY <1>1, <1>2, <2>1, <2>2 DEF Layout
<1>9. Footers'
    <2>1. ASSUME NEW i \in DOMAIN file' PROVE file'[i].is # "footer"
        <3>1. CASE 1 < i /\ i <= 1 + Len(entries)
            <4>1. i - 1 \in 1 .. Len(entries)
                BY <1>3, <1>6, <3>1
            <4> QED BY <1>3, <1>5, <1>6, <3>1, <4>1
        <3>2. CASE ~(1 < i /\ i <= 1 + Len(entries))
            <4>1. file'[i] = IF i <= Len(file) THEN file[i] ELSE Hole
                BY <1>3, <1>5, <1>6, <3>2
            <4>2. i <= Len(file) => i \in DOMAIN file
                BY <1>2, <1>6
            <4> QED BY <1>1, <4>1, <4>2, HoleIs DEF Footers
        <3> QED BY <3>1, <3>2
    <2>2. ~crashed' /\ ~cut'
        BY <1>1 DEF Footers, Typed
    <2> QED BY <2>1, <2>2 DEF Footers
<1>10. RecordsAre'
    BY <1>1 DEF RecordsAre
<1>11. Clean
    <2> SUFFICES ASSUME NEW i \in DOMAIN file
                 PROVE  file[i].is \in {"hole", "header", "head"} \/ file'[i] = file[i]
        BY DEF Clean
    <2>1. i \in 1 .. Len(file') /\ i <= Len(file)
        BY <1>2, <1>3, <1>5
    <2>2. CASE 1 < i /\ i <= 1 + Len(entries)
        <3>1. file[i] = Hole
            BY <1>2, <1>3, <1>1, <2>2 DEF Layout
        <3> QED BY <3>1, HoleIs
    <2>3. CASE ~(1 < i /\ i <= 1 + Len(entries))
        BY <1>3, <1>5, <2>1, <2>3
    <2> QED BY <2>2, <2>3
<1> QED BY <1>7, <1>8, <1>9, <1>10, <1>11

\* The count of partitions is patched into the header.
LEMMA PatchHeaderKeeps ==
    ASSUME ContainerInv, PatchHeader
    PROVE  ContainerInv' /\ Clean
<1> USE DEF ContainerInv
<1> DEFINE c == HeaderCell(Len(entries))
<1>1. /\ phase = "header" /\ phase' = "footer" /\ file' = Put(file, 0, <<c>>)
      /\ UNCHANGED <<at, entries, stream, rows, records, tables, crashed, cut>>
    BY DEF PatchHeader, harm
<1>2. /\ file \in Seq(Cells) /\ Len(file) \in 1 .. at /\ at \in Nat /\ 1 + Reserve <= at
      /\ file[1].is = "header" /\ Len(file) \in Nat /\ DOMAIN file = 1 .. Len(file)
    BY <1>1, Numbers DEF Typed, Layout
<1>3. c \in Cells /\ c.is = "header"
    BY MadeAreCells DEF Typed
<1> HIDE DEF c
<1>4. /\ file' \in Seq(Cells) /\ Len(file') = Len(file) /\ file'[1] = c
      /\ \A i \in 1 .. Len(file) : i # 1 => file'[i] = file[i]
    <2>1. PICK off \in Nat : off = 0
        OBVIOUS
    <2>2. off < Len(file)
        BY <1>2, <2>1
    <2>3. Patched(file', file, off, c)
        BY <1>1, <1>2, <1>3, <2>1, <2>2, PatchedIs
    <2>4. off + 1 = 1
        BY <2>1
    <2> QED BY <2>3, <2>4 DEF Patched
<1>5. DOMAIN file' = DOMAIN file
    BY <1>2, <1>4
<1>6. Typed'
    BY <1>1, <1>4 DEF Typed, Phases
<1>7. Layout'
    BY <1>1, <1>2, <1>3, <1>4 DEF Layout
<1>8. Footers'
    BY <1>1, <1>2, <1>3, <1>4, <1>5 DEF Footers, Typed
<1>9. RecordsAre'
    BY <1>1 DEF RecordsAre
<1>10. Clean
    BY <1>2, <1>4 DEF Clean
<1> QED BY <1>6, <1>7, <1>8, <1>9, <1>10

\* The footer goes behind everything: the file is whole.
LEMMA WriteFooterKeeps ==
    ASSUME ContainerInv, WriteFooter
    PROVE  ContainerInv' /\ Clean
<1> USE DEF ContainerInv
<1> DEFINE c == FooterCell(at - 1, ManifestCell(records), Len(entries), at + 1, entries)
           w == <<c>>
<1>1. /\ phase = "footer" /\ phase' = "closed" /\ file' = Put(file, at, w)
      /\ UNCHANGED <<at, entries, stream, rows, records, tables, crashed, cut>>
    BY DEF WriteFooter, harm
<1>2. /\ file \in Seq(Cells) /\ Len(file) \in 1 .. at /\ at \in Nat /\ at >= 1
      /\ Len(file) \in Nat /\ DOMAIN file = 1 .. Len(file)
    BY <1>1, Numbers DEF Typed, Layout
<1>3. c \in Cells /\ c.is = "footer"
    <2>1. at - 1 \in Nat /\ at + 1 \in Nat /\ Len(entries) \in Nat
        BY <1>2 DEF Typed
    <2>2. ManifestCell(records) \in ManifestCells
        BY MadeAreCells DEF Typed
    <2>3. entries \in Seq(EntryCells)
        BY DEF Typed
    <2> QED BY <2>1, <2>2, <2>3, MadeAreCells
<1>4. w \in Seq(Cells) /\ Len(w) = 1 /\ w[1] = c
    BY <1>3
<1> HIDE DEF w
<1>5. /\ file' \in Seq(Cells) /\ Len(file') = at + 1
      /\ \A i \in 1 .. Len(file) : file'[i] = file[i]
      /\ \A i \in Len(file) + 1 .. at : file'[i] = Hole
      /\ file'[at + 1] = c
    <2>1. Len(file) <= at
        BY <1>2
    <2>2. Appended(file', file, at, w)
        BY <1>1, <1>2, <1>4, <2>1, AppendedIs
    <2>3. PICK j \in Nat : j = at + 1
        BY <1>2
    <2>4. j \in at + 1 .. at + 1 /\ j - at = 1
        BY <1>2, <2>3
    <2>5. file'[j] = c
        BY <1>4, <2>2, <2>4 DEF Appended
    <2> QED BY <1>4, <2>2, <2>3, <2>5 DEF Appended
<1>6. \A i \in DOMAIN file' : i \in 1 .. Len(file) \/ i \in Len(file) + 1 .. at \/ i = at + 1
    BY <1>2, <1>5
<1>7. Typed'
    BY <1>1, <1>5 DEF Typed, Phases
<1>8. Layout'
    BY <1>1, <1>2, <1>5 DEF Layout
<1>9. Footers'
    <2>1. ~crashed /\ ~cut
        BY <1>1 DEF Footers, Typed
    <2>2. ASSUME NEW i \in DOMAIN file', file'[i].is = "footer" PROVE i = at + 1
        <3>1. CASE i \in 1 .. Len(file)
            BY <1>1, <1>2, <1>5, <2>2, <3>1 DEF Footers
        <3>2. CASE i \in Len(file) + 1 .. at
            BY <1>5, <2>2, <3>2, HoleIs
        <3> QED BY <1>6, <3>1, <3>2
    <2>3. file'[at + 1] = FooterCell(at' - 1, ManifestCell(records'), Len(entries'), at' + 1, entries')
        BY <1>1, <1>5
    <2> HIDE DEF c
    <2>4. ASSUME NEW i \in DOMAIN file', file'[i].is = "footer"
          PROVE  /\ phase' = "closed" /\ ~crashed' /\ ~cut' /\ i = at' + 1
                 /\ file'[i] = FooterCell(at' - 1, ManifestCell(records'), Len(entries'), at' + 1, entries')
        BY <1>1, <2>1, <2>2, <2>3, <2>4
    <2>5. crashed' \/ cut' => phase' = "closed"
        BY <1>1
    <2> QED BY <2>4, <2>5 DEF Footers
<1>10. RecordsAre'
    BY <1>1 DEF RecordsAre
<1>11. Clean
    BY <1>2, <1>5 DEF Clean
<1> QED BY <1>7, <1>8, <1>9, <1>10, <1>11

\* A crash leaves what was written.
LEMMA CrashKeeps ==
    ASSUME ContainerInv, Crash
    PROVE  ContainerInv' /\ Clean
<1> USE DEF ContainerInv
<1>1. /\ phase # "closed" /\ phase' = "closed" /\ crashed' = TRUE
      /\ UNCHANGED <<file, at, entries, stream, rows, records, tables, cut>>
    BY DEF Crash
<1>2. Typed'
    BY <1>1 DEF Typed, Phases
<1>3. Layout'
    <2>1. phase = "create" => Len(file) = 0 /\ at = 0
        BY DEF Layout
    <2>2. phase # "create" => Len(file) \in 1 .. at /\ at \in Nat
        BY <1>1 DEF Layout, Typed
    <2> QED BY <1>1, <2>1, <2>2 DEF Layout
<1>4. Footers'
    BY <1>1 DEF Footers
<1>5. RecordsAre'
    BY <1>1 DEF RecordsAre
<1>6. Clean
    BY <1>1 DEF Clean
<1> QED BY <1>2, <1>3, <1>4, <1>5, <1>6

\* What is left of a cut file has no footer.
LEMMA CutKeeps ==
    ASSUME ContainerInv, Cut
    PROVE  ContainerInv' /\ Clean
<1> USE DEF ContainerInv
<1>1. /\ phase = "closed" /\ phase' = "closed" /\ cut' = TRUE
      /\ UNCHANGED <<at, entries, stream, rows, records, tables, crashed>>
    BY DEF Cut
<1>2. PICK n \in 0 .. Len(file) - 1 : file' = SubSeq(file, 1, n)
    BY DEF Cut
<1>3. file \in Seq(Cells) /\ Len(file) \in Nat /\ Len(file) <= at + 1 /\ at \in Nat
    BY <1>1 DEF Typed, Layout
<1>4. /\ file' \in Seq(Cells) /\ Len(file') = n /\ n < Len(file) /\ n \in Nat
      /\ \A i \in 1 .. n : file'[i] = file[i]
    BY <1>2, <1>3
<1>5. Typed'
    BY <1>1, <1>4 DEF Typed, Phases
<1>6. Layout'
    BY <1>1, <1>3, <1>4 DEF Layout
<1>7. Footers'
    <2>1. ASSUME NEW i \in DOMAIN file' PROVE file'[i].is # "footer"
        <3>1. i \in 1 .. n /\ i \in DOMAIN file /\ file'[i] = file[i] /\ i # at + 1
            BY <1>3, <1>4
        <3> QED BY <3>1 DEF Footers
    <2> QED BY <1>1, <2>1 DEF Footers
<1>8. RecordsAre'
    BY <1>1 DEF RecordsAre
<1>9. Clean
    BY <1>1 DEF Clean
<1> QED BY <1>5, <1>6, <1>7, <1>8, <1>9

\* Rot makes no footer.
LEMMA RotKeeps ==
    ASSUME ContainerInv, Rot
    PROVE  ContainerInv' /\ Clean
<1> USE DEF ContainerInv
<1>1. /\ phase = "closed" /\ phase' = "closed"
      /\ UNCHANGED <<at, entries, stream, rows, records, tables, crashed, cut>>
    BY DEF Rot
<1>2. PICK k \in DOMAIN file : \E c \in Changed(file[k]) : file' = [file EXCEPT ![k] = c]
    BY DEF Rot
<1> PICK c \in Changed(file[k]) : file' = [file EXCEPT ![k] = c]
    BY <1>2
<1>3. file \in Seq(Cells) /\ Len(file) \in Nat /\ Len(file) <= at + 1 /\ file[k] \in Cells
    BY <1>1 DEF Typed, Layout
<1>4. c \in Cells /\ c.is # "footer"
    BY <1>3, ChangedIs
<1>5. /\ file' \in Seq(Cells) /\ Len(file') = Len(file) /\ file'[k] = c /\ DOMAIN file' = DOMAIN file
      /\ \A i \in DOMAIN file : i # k => file'[i] = file[i]
    BY <1>3, <1>4
<1>6. Typed'
    BY <1>1, <1>5 DEF Typed, Phases
<1>7. Layout'
    BY <1>1, <1>3, <1>5 DEF Layout
<1>8. Footers'
    BY <1>1, <1>4, <1>5 DEF Footers
<1>9. RecordsAre'
    BY <1>1 DEF RecordsAre
<1>10. Clean
    BY <1>1 DEF Clean
<1> QED BY <1>6, <1>7, <1>8, <1>9, <1>10

-----------------------------------------------------------------------------
(* The theorems. *)

\* Every step keeps the invariant and overwrites nothing.
LEMMA ContainerStep ==
    ASSUME ContainerInv, [Next]_vars
    PROVE  ContainerInv' /\ (Clean \/ UNCHANGED vars)
<1>1. CASE UNCHANGED vars
    <2>1. UNCHANGED <<file, at, entries, phase, stream, rows, records, tables, crashed, cut>>
        BY <1>1 DEF vars, harm
    <2> QED BY <1>1, <2>1 DEF ContainerInv, Typed, Layout, Footers, RecordsAre
<1>2. CASE Next
    <2>1. CASE Done
        BY <1>1, <2>1 DEF Done
    <2> QED
        BY <1>2, <2>1, CreateKeeps, BeginStreamKeeps, WriteChunkKeeps, FinishStreamKeeps,
           WriteManifestKeeps, WriteIndexKeeps, PatchHeaderKeeps, WriteFooterKeeps,
           CrashKeeps, CutKeeps, RotKeeps DEF Next
<1> QED BY <1>1, <1>2

\* Throughout: the cells have their types, the regions of the file are apart while it is
\* written, a footer is the last cell of a whole file only, and the manifest's records
\* are the plan of each stream, chunk by chunk.
THEOREM ContainerInvariant == Spec => []ContainerInv
<1>1. Init => ContainerInv
    BY ContainerInit
<1>2. ContainerInv /\ [Next]_vars => ContainerInv'
    BY ContainerStep
<1> QED BY <1>1, <1>2, PTL DEF Spec

\* No write of the writer falls on anything already written, but the two counts patched
\* on purpose and the gaps left for it: as `container.rs` computes its offsets.
THEOREM OverwrittenTheorem == Spec => NothingOverwritten
<1>1. Init => ContainerInv
    BY ContainerInit
<1>2. ContainerInv /\ [Next]_vars => ContainerInv'
    BY ContainerStep
<1>3. ContainerInv /\ [Next]_vars =>
         [phase # "closed" =>
            \A i \in DOMAIN file :
                file[i].is \in {"hole", "header", "head"} \/ file'[i] = file[i]]_vars
    BY ContainerStep DEF Clean
<1> QED BY <1>1, <1>2, <1>3, PTL DEF Spec, NothingOverwritten

\* A file that opens was finished, is not cut, and its index and manifest are the ones
\* that were written.
LEMMA OpenedIs ==
    ASSUME ContainerInv
    PROVE  /\ OpenIsWhole
           /\ Opens(file) => Index(file) = entries /\ Manifest(file) = records /\ ~crashed
                             /\ phase = "closed"
<1> SUFFICES ASSUME Opens(file)
             PROVE  /\ phase = "closed" /\ ~crashed /\ ~cut
                    /\ Index(file) = entries /\ Manifest(file) = records
    BY DEF OpenIsWhole
<1> DEFINE foot == file[Len(file)]
<1>1. /\ file # <<>> /\ foot.is = "footer"
      /\ Get(file, 1, foot.icount) = foot.ihash
    BY DEF Opens
<1>2. file \in Seq(Cells)
    BY DEF ContainerInv, Typed
<1>3. Len(file) \in DOMAIN file
    BY <1>1, <1>2
<1>4. /\ phase = "closed" /\ ~crashed /\ ~cut
      /\ foot = FooterCell(at - 1, ManifestCell(records), Len(entries), at + 1, entries)
    BY <1>1, <1>3 DEF ContainerInv, Footers
<1>5. foot.ihash = entries /\ foot.mhash.records = records
    BY <1>4 DEF FooterCell, ManifestCell
<1>6. Index(file) = entries
    BY <1>1, <1>5 DEF Index
<1>7. Manifest(file) = records
    BY <1>5 DEF Manifest
<1> QED BY <1>4, <1>6, <1>7

\* `PhnxReader::open` accepts only what `finalize` completed and nothing shortened, and
\* reads from it the index and the manifest that were written, whatever was changed.
THEOREM OpenTheorem == Spec => []OpenIsWhole
<1>1. ContainerInv => OpenIsWhole
    BY OpenedIs
<1> QED BY <1>1, ContainerInvariant, PTL

\* What parses as the rows of a stream are rows.
LEMMA RowsParse ==
    ASSUME NEW f \in Seq(Cells), NEW e \in EntryCells, StreamHeader(f, e) # <<>>
    PROVE  StreamHeader(f, e)[1].rows \in Seq(RowCells)
<1> DEFINE head == Get(f, e.off, 1)
           n == head[1].chunks
           table == Get(f, e.off + e.len - n, n)
           extents == Get(f, e.off + 1, head[1].extents)
<1>1. e.off \in Nat /\ e.len \in Nat
    BY DEF EntryCells
<1>2. AllAre(head, 1, "head") /\ AllAre(table, n, "row")
      /\ StreamHeader(f, e) = <<[extents |-> extents, rows |-> table]>>
    BY DEF StreamHeader
<1>3. head \in Seq(Cells)
    BY <1>1, GetIs
<1>4. n \in Nat
    <2> HIDE DEF head
    <2>1. Len(head) = 1 /\ 1 \in DOMAIN head /\ head[1].is = "head"
        BY <1>2, <1>3 DEF AllAre
    <2>2. head[1] \in HeadCells
        BY <1>3, <2>1, KindIs
    <2> QED BY <2>2 DEF HeadCells
<1> HIDE DEF n
<1>5. table \in Seq(Cells)
    BY <1>1, <1>4, GetIs
<1>6. \A i \in DOMAIN table : table[i] \in RowCells
    <2> HIDE DEF table
    <2> SUFFICES ASSUME NEW i \in DOMAIN table PROVE table[i] \in RowCells
        OBVIOUS
    <2>1. table[i] \in Cells /\ table[i].is = "row"
        BY <1>2, <1>5 DEF AllAre
    <2> QED BY <2>1, KindIs
<1>7. table \in Seq(RowCells)
    <2> HIDE DEF table
    <2> QED BY <1>5, <1>6
<1>8. StreamHeader(f, e)[1].rows = table
    <2> HIDE DEF table, extents
    <2> QED BY <1>2
<1> QED BY <1>7, <1>8

\* A chunk that passes decodes to its record.
LEMMA ChunkDecodes ==
    ASSUME NEW f \in Seq(Cells), NEW r \in RowCells, NEW record, ChunkOk(f, r, record)
    PROVE  Decoded(f, r) = record
<1>1. r.off \in Nat /\ r.clen \in Nat /\ r.clen >= 1
    BY DEF RowCells
<1> DEFINE cells == Get(f, r.off, r.clen)
<1>2. cells = [j \in 1 .. r.clen |-> BlobCell(record, j, r.clen)]
    BY DEF ChunkOk
<1>3. 1 \in 1 .. r.clen
    BY <1>1
<1>4. cells[1] = BlobCell(record, 1, r.clen) /\ 1 \in DOMAIN cells
    BY <1>2, <1>3
<1>5. cells # <<>>
    BY <1>4
<1>6. \A i \in 1 .. r.clen : cells[i] = f[r.off + i]
    BY <1>1, <1>5, GetIs
<1>7. f[r.off + 1] = BlobCell(record, 1, r.clen)
    BY <1>3, <1>4, <1>6
<1> QED BY <1>7 DEF Decoded, BlobCell

\* A file that passes the full verification decodes to its records, row by row.
LEMMA VerifiedDecodes ==
    ASSUME ContainerInv, FullVerify(file), NEW k \in 1 .. Parts
    PROVE  LET read == [i \in DOMAIN Rows(file, k) |-> Decoded(file, Rows(file, k)[i])]
           IN  read = records[k] /\ records[k] \in Seq(Data) /\ k \in 1 .. Len(tables)
<1>1. Index(file) = entries /\ Manifest(file) = records /\ ~crashed /\ phase = "closed"
    BY OpenedIs DEF FullVerify
<1>2. /\ Len(entries) = Parts /\ Len(tables) = Parts /\ entries \in Seq(EntryCells)
      /\ records \in Seq(Seq(Data)) /\ Len(records) = Parts /\ file \in Seq(Cells)
    BY <1>1 DEF ContainerInv, RecordsAre, Typed
<1>3. k \in DOMAIN entries /\ k \in DOMAIN records /\ k \in 1 .. Len(tables)
    BY <1>2
<1>4. records[k] \in Seq(Data) /\ entries[k] \in EntryCells
    BY <1>2, <1>3
<1> DEFINE list == Rows(file, k)
<1>5. /\ StructureOk(file, k)
      /\ \A i \in DOMAIN list : ChunkOk(file, list[i], records[k][i])
    BY <1>1, <1>3 DEF FullVerify
<1>6. StreamHeader(file, entries[k]) # <<>> /\ list = StreamHeader(file, entries[k])[1].rows
      /\ Len(list) = Len(records[k])
    BY <1>1, <1>5 DEF StructureOk, Rows
<1>7. list \in Seq(RowCells)
    BY <1>2, <1>4, <1>6, RowsParse
<1> HIDE DEF list
<1>8. DOMAIN list = DOMAIN records[k]
    BY <1>4, <1>6, <1>7
<1>9. \A i \in DOMAIN list : Decoded(file, list[i]) = records[k][i]
    BY <1>2, <1>5, <1>7, ChunkDecodes
<1>10. [i \in DOMAIN list |-> Decoded(file, list[i])] = records[k]
    BY <1>4, <1>8, <1>9
<1> QED BY <1>3, <1>4, <1>10 DEF list

\* The full verification of `container.rs` proves the contents: what passes decodes, row
\* by row, to every sector that was planned, once, in disk order, whatever was changed.
THEOREM ProvesTheorem == Spec => []FullVerifyProves
<1>1. ContainerInv => FullVerifyProves
    <2> SUFFICES ASSUME ContainerInv, FullVerify(file), NEW k \in 1 .. Parts
                 PROVE  LET plan == tables[k].extents
                            read == [i \in DOMAIN Rows(file, k) |-> Decoded(file, Rows(file, k)[i])]
                        IN /\ \A i \in DOMAIN read : read[i].part = k
                           /\ \A i \in DOMAIN read : i > 1 => read[i - 1].from + read[i - 1].len
                                                              <= read[i].from
                           /\ UNION {read[i].from .. read[i].from + read[i].len - 1 : i \in DOMAIN read}
                              = UNION {plan[x].start .. plan[x].start + plan[x].count - 1 :
                                       x \in DOMAIN plan}
        BY DEF FullVerifyProves
    <2> DEFINE plan == tables[k].extents
               read == [i \in DOMAIN Rows(file, k) |-> Decoded(file, Rows(file, k)[i])]
    <2>1. read = records[k] /\ k \in 1 .. Len(tables)
        BY VerifiedDecodes
    <2> HIDE DEF read
    <2>2. Recorded(read, k, plan, Len(plan) + 1, 0)
        BY <2>1 DEF ContainerInv, RecordsAre
    <2>3. plan \in Seq(Extents)
        <3>1. tables \in Seq([extents : Seq(Extents), rows : Seq(Row)])
            BY DEF ContainerInv, Typed
        <3>2. k \in DOMAIN tables
            BY <2>1, <3>1
        <3> DEFINE kinds == [extents : Seq(Extents), rows : Seq(Row)]
        <3>3. tables \in Seq(kinds)
            BY <3>1
        <3> HIDE DEF kinds
        <3>4. tables[k] \in kinds
            BY <3>2, <3>3
        <3> QED BY <3>4 DEF kinds
    <2> HIDE DEF plan
    <2>4. Front(plan, Len(plan) + 1, 0)
              = UNION {plan[x].start .. plan[x].start + plan[x].count - 1 : x \in DOMAIN plan}
        BY <2>3, FrontAll
    <2>5. UNION {read[i].from .. read[i].from + read[i].len - 1 : i \in DOMAIN read}
              = UNION {plan[x].start .. plan[x].start + plan[x].count - 1 : x \in DOMAIN plan}
        BY <2>2, <2>4 DEF Recorded, Sectors
    <2>6. /\ \A i \in DOMAIN read : read[i].part = k
          /\ \A i \in DOMAIN read : i > 1 => read[i - 1].from + read[i - 1].len <= read[i].from
        BY <2>2 DEF Recorded
    <2> QED BY <2>5, <2>6 DEF plan, read
<1> QED BY <1>1, ContainerInvariant, PTL
=============================================================================
