-------------------------- MODULE ShrinkPlanProofs --------------------------
(* The plan of a shrink is sound for every volume, target and bound: no cluster
   past the new end is lost, none shares a place, none lands on data, and the
   packer never runs out of room. What a restore then makes of the volume: an image
   with every used cluster, a boot sector that describes the partition, tables that
   agree, and files that read back what they held. *)
EXTENDS VolumeRestore, FiniteSetTheorems, TLAPS

------------------------------------------------------------------------------
(* Runs of a set of clusters. *)

\* Every run lies inside the set it was taken from and is not empty.
LEMMA RunsInside ==
    ASSUME NEW S \in SUBSET Int, NEW r \in Runs(S)
    PROVE  /\ r.lcn \in S /\ r.len \in Nat \ {0}
           /\ Interval(r) \subseteq S
           /\ r.lcn - 1 \notin S /\ r.lcn + r.len \notin S
<1>1. PICK x \in Starts(S) \X Ends(S) :
          x[1] <= x[2] /\ x[1]..x[2] \subseteq S /\ r = RunAt(x[1], x[2] - x[1] + 1)
    BY DEF Runs
<1>2. x[1] \in S /\ x[1] - 1 \notin S /\ x[2] \in S /\ x[2] + 1 \notin S
    BY <1>1 DEF Starts, Ends
<1>3. PICK b \in S, e \in S : x[1] = b /\ x[2] = e
    BY <1>2
<1>4. r.lcn = b /\ r.len = e - b + 1
    BY <1>1, <1>3 DEF RunAt
<1>5. b \in Int /\ e \in Int /\ b <= e
    BY <1>1, <1>3
<1>6. r.len \in Nat \ {0} /\ r.lcn + r.len - 1 = e /\ r.lcn + r.len = e + 1
    BY <1>4, <1>5
<1> QED BY <1>1, <1>2, <1>3, <1>4, <1>6 DEF Interval

\* Two different runs of a set share no cluster.
LEMMA RunsApart ==
    ASSUME NEW S \in SUBSET Int, NEW r \in Runs(S), NEW q \in Runs(S),
           NEW c, c \in Interval(r), c \in Interval(q)
    PROVE  r = q
<1>1. /\ r.lcn \in Int /\ r.len \in Nat /\ Interval(r) \subseteq S
      /\ r.lcn - 1 \notin S /\ r.lcn + r.len \notin S
    BY RunsInside
<1>2. /\ q.lcn \in Int /\ q.len \in Nat /\ Interval(q) \subseteq S
      /\ q.lcn - 1 \notin S /\ q.lcn + q.len \notin S
    BY RunsInside
<1>3. /\ c \in Int /\ r.lcn <= c /\ c <= r.lcn + r.len - 1
      /\ q.lcn <= c /\ c <= q.lcn + q.len - 1
    BY <1>1, <1>2 DEF Interval
<1>4. ~(r.lcn < q.lcn) /\ ~(q.lcn < r.lcn)
    BY <1>1, <1>2, <1>3 DEF Interval
<1>5. r.lcn = q.lcn
    BY <1>1, <1>2, <1>4
<1>6. ~(r.lcn + r.len < q.lcn + q.len) /\ ~(q.lcn + q.len < r.lcn + r.len)
    BY <1>1, <1>2, <1>3 DEF Interval
<1>7. r.len = q.len
    BY <1>1, <1>2, <1>5, <1>6
<1>8. r = RunAt(r.lcn, r.len) /\ q = RunAt(q.lcn, q.len)
    BY DEF Runs, RunAt
<1> QED BY <1>5, <1>7, <1>8

\* A non-empty set of natural numbers has a least element.
LEMMA Least ==
    ASSUME NEW T \in SUBSET Nat, T # {}
    PROVE  \E n \in T : \A m \in T : n <= m
<1> DEFINE R == OpToRel(<, Nat)
<1>1. IsWellFoundedOn(R, Nat)
    BY NatLessThanWellFounded
<1>2. \E n \in T : \A m \in T : ~(<<m, n>> \in R)
    <2> HIDE DEF R
    <2> QED BY <1>1, WFMin
<1>3. PICK n \in T : \A m \in T : ~(<<m, n>> \in R)
    BY <1>2
<1>4. ASSUME NEW m \in T PROVE n <= m
    <2>1. <<m, n>> \in Nat \X Nat /\ ~(<<m, n>> \in R)
        BY <1>3
    <2>2. ~(m < n)
        BY <2>1 DEF OpToRel
    <2> QED BY <2>2
<1> QED BY <1>3, <1>4

\* Every cluster of a bounded set lies in one of its runs.
LEMMA RunsCover ==
    ASSUME NEW M \in Nat, NEW S \in SUBSET (0..M), NEW c \in S
    PROVE  \E r \in Runs(S) : c \in Interval(r)
<1> DEFINE Down == {n \in Nat : c - n - 1 \notin S}
           Up == {n \in Nat : c + n + 1 \notin S}
<1>1. c \in Nat /\ c <= M
    OBVIOUS
<1>2. c \in Down /\ M \in Up
    BY <1>1
<1>3. PICK d \in Down : \A m \in Down : d <= m
    BY <1>2, Least
<1>4. PICK u \in Up : \A m \in Up : u <= m
    BY <1>2, Least
<1> DEFINE b == c - d
           e == c + u
<1>5. b \in Int /\ e \in Int /\ b <= c /\ c <= e /\ b - 1 \notin S /\ e + 1 \notin S
    BY <1>1, <1>3, <1>4
<1>6. ASSUME NEW x \in b..e PROVE x \in S
    <2>1. CASE x = c
        BY <2>1
    <2>2. CASE x < c
        <3>1. c - x - 1 \in Nat /\ c - x - 1 < d
            BY <2>2, <1>1, <1>3, <1>5
        <3>2. c - x - 1 \notin Down
            BY <3>1, <1>3
        <3>3. c - (c - x - 1) - 1 = x
            BY <1>1, <1>5
        <3> QED BY <3>1, <3>2, <3>3
    <2>3. CASE x > c
        <3>1. x - c - 1 \in Nat /\ x - c - 1 < u
            BY <2>3, <1>1, <1>4, <1>5
        <3>2. x - c - 1 \notin Up
            <4>1. u \in Nat /\ \A m \in Up : u <= m
                BY <1>4
            <4>2. ~(u <= x - c - 1)
                BY <3>1, <4>1, <1>1, <1>5
            <4> HIDE DEF Up
            <4> QED BY <4>1, <4>2
        <3>3. c + (x - c - 1) + 1 = x
            BY <1>1, <1>5
        <3> QED BY <3>1, <3>2, <3>3
    <2> QED BY <2>1, <2>2, <2>3, <1>1, <1>5
<1>7. b \in S /\ e \in S
    BY <1>5, <1>6
<1>8. b \in Starts(S) /\ e \in Ends(S)
    BY <1>5, <1>7 DEF Starts, Ends
<1>9. RunAt(b, e - b + 1) \in Runs(S)
    <2>1. <<b, e>> \in {y \in Starts(S) \X Ends(S) : y[1] <= y[2] /\ y[1]..y[2] \subseteq S}
        <3>1. b <= e /\ b..e \subseteq S
            BY <1>5, <1>6
        <3> HIDE DEF b, e
        <3> QED BY <3>1, <1>8
    <2>2. RunAt(b, e - b + 1) = RunAt(<<b, e>>[1], <<b, e>>[2] - <<b, e>>[1] + 1)
        OBVIOUS
    <2> HIDE DEF b, e
    <2> QED BY <2>1, <2>2 DEF Runs
<1>10. c \in Interval(RunAt(b, e - b + 1))
    <2> HIDE DEF b, e
    <2> QED BY <1>1, <1>5 DEF Interval, RunAt
<1> QED BY <1>9, <1>10

\* The place of a cluster among those of a finite set.
LEMMA Rank ==
    ASSUME NEW A \in SUBSET Int, IsFiniteSet(A), NEW c \in A
    PROVE  /\ Cardinality({d \in A : d < c}) \in Nat
           /\ Cardinality({d \in A : d < c}) < Cardinality(A)
           /\ \A x \in A : c < x => Cardinality({d \in A : d < c}) < Cardinality({d \in A : d < x})
<1>1. ASSUME NEW B \in SUBSET A, NEW D \in SUBSET B, NEW x \in B, x \notin D
      PROVE  Cardinality(D) \in Nat /\ Cardinality(D) < Cardinality(B)
    <2>1. IsFiniteSet(B)
        BY FS_Subset
    <2>2. /\ IsFiniteSet(D) /\ Cardinality(D) <= Cardinality(B)
          /\ Cardinality(B) = Cardinality(D) => B = D
        BY <2>1, FS_Subset
    <2>3. Cardinality(B) \in Nat /\ Cardinality(D) \in Nat
        BY <2>1, <2>2, FS_CardinalityType
    <2> QED BY <1>1, <2>2, <2>3
<1>2. Cardinality({d \in A : d < c}) \in Nat /\ Cardinality({d \in A : d < c}) < Cardinality(A)
    BY <1>1
<1>3. ASSUME NEW x \in A, c < x
      PROVE  Cardinality({d \in A : d < c}) < Cardinality({d \in A : d < x})
    <2>1. ASSUME NEW d \in A, d < c PROVE d < x
        <3>1. d \in Int /\ c \in Int /\ x \in Int
            OBVIOUS
        <3> QED BY <1>3, <2>1, <3>1
    <2>2. c \in {d \in A : d < x} /\ c \notin {d \in A : d < c}
        BY <1>3
    <2> QED BY <1>1, <2>1, <2>2
<1> QED BY <1>2, <1>3
------------------------------------------------------------------------------
(* Maps: functions from clusters past the end into the free space, no two to one
   place. *)

MapOk(m) ==
    /\ DOMAIN m \subseteq Above
    /\ \A c \in DOMAIN m : m[c] \in FreeBelow
    /\ \A c, d \in DOMAIN m : m[c] = m[d] => c = d

\* A map from which some clusters are taken is still a map, and says the same of the rest.
LEMMA WithoutOk ==
    ASSUME NEW m, MapOk(m), NEW X
    PROVE  /\ MapOk(Without(m, X)) /\ DOMAIN Without(m, X) = DOMAIN m \ X
           /\ \A c \in DOMAIN m \ X : Without(m, X)[c] = m[c]
<1>1. DOMAIN Without(m, X) = DOMAIN m \ X /\ \A c \in DOMAIN m \ X : Without(m, X)[c] = m[c]
    BY DEF Without
<1> QED BY <1>1 DEF MapOk

\* An interval moved into the pool keeps the map sound.
LEMMA MovedOk ==
    ASSUME NEW m, MapOk(m), NEW r, r.lcn \in Nat, r.len \in Nat, NEW dst \in Nat,
           Interval(r) \subseteq Above, Interval(r) \cap DOMAIN m = {},
           dst..(dst + r.len - 1) \subseteq Pool(m)
    PROVE  MapOk(Moved(m, r, dst)) /\ DOMAIN Moved(m, r, dst) = DOMAIN m \cup Interval(r)
<1> DEFINE n == Moved(m, r, dst)
<1>1. DOMAIN n = DOMAIN m \cup Interval(r)
    BY DEF Moved
<1>2. /\ \A c \in Interval(r) : n[c] = dst + (c - r.lcn)
      /\ \A c \in DOMAIN m : n[c] = m[c]
    BY DEF Moved
<1>3. ASSUME NEW c \in Interval(r)
      PROVE  c \in Int /\ n[c] \in Pool(m)
    <2>1. c \in Int /\ r.lcn <= c /\ c <= r.lcn + r.len - 1
        BY DEF Interval
    <2>2. dst + (c - r.lcn) \in dst..(dst + r.len - 1)
        BY <2>1
    <2> HIDE DEF n
    <2> QED BY <2>1, <2>2, <1>2
<1>4. ASSUME NEW c \in Interval(r), NEW d \in Interval(r), n[c] = n[d] PROVE c = d
    <2> HIDE DEF n
    <2>1. c \in Int /\ d \in Int
        BY <1>3
    <2>2. dst + (c - r.lcn) = dst + (d - r.lcn)
        BY <1>2, <1>4
    <2> QED BY <2>1, <2>2
<1>5. ASSUME NEW c \in Interval(r), NEW d \in DOMAIN m PROVE n[c] # n[d]
    <2> HIDE DEF n
    <2>1. n[d] \in Placed(m)
        BY <1>2 DEF Placed
    <2> QED BY <2>1, <1>3 DEF Pool
<1>6. \A c \in DOMAIN n : n[c] \in FreeBelow
    BY <1>1, <1>2, <1>3 DEF MapOk, Pool
<1>7. \A c, d \in DOMAIN n : n[c] = n[d] => c = d
    <2> HIDE DEF n
    <2> QED BY <1>1, <1>2, <1>4, <1>5 DEF MapOk
<1> HIDE DEF n
<1>8. MapOk(n)
    BY <1>1, <1>6, <1>7 DEF MapOk
<1> QED BY <1>1, <1>8 DEF n

\* The clusters of a set put side by side into the pool keep the map sound.
LEMMA SideBySideOk ==
    ASSUME NEW m, MapOk(m), NEW A \in SUBSET Above, A \subseteq Int, IsFiniteSet(A),
           A \cap DOMAIN m = {}, NEW dst \in Nat,
           dst..(dst + Cardinality(A) - 1) \subseteq Pool(m)
    PROVE  MapOk(SideBySide(m, A, dst)) /\ DOMAIN SideBySide(m, A, dst) = DOMAIN m \cup A
<1> DEFINE n == SideBySide(m, A, dst)
           Below(c) == Cardinality({d \in A : d < c})
<1>1. DOMAIN n = DOMAIN m \cup A
    BY DEF SideBySide
<1>2. /\ \A c \in A : n[c] = dst + Below(c)
      /\ \A c \in DOMAIN m : n[c] = m[c]
    BY DEF SideBySide
<1>3. /\ \A c \in A : Below(c) \in Nat /\ Below(c) < Cardinality(A)
      /\ \A c, d \in A : c < d => Below(c) < Below(d)
    BY Rank
<1>4. Cardinality(A) \in Nat
    BY FS_CardinalityType
<1> HIDE DEF n, Below
<1>5. ASSUME NEW c \in A PROVE n[c] \in Pool(m)
    <2>1. dst + Below(c) \in dst..(dst + Cardinality(A) - 1)
        BY <1>3, <1>4
    <2> QED BY <2>1, <1>2
<1>6. ASSUME NEW c \in A, NEW d \in A, n[c] = n[d] PROVE c = d
    <2>1. Below(c) = Below(d)
        BY <1>2, <1>3, <1>6
    <2>2. c \in Int /\ d \in Int
        OBVIOUS
    <2> QED BY <2>1, <2>2, <1>3
<1>7. ASSUME NEW c \in A, NEW d \in DOMAIN m PROVE n[c] # n[d]
    <2>1. n[d] \in Placed(m)
        BY <1>2 DEF Placed
    <2> QED BY <2>1, <1>5 DEF Pool
<1>8. \A c \in DOMAIN n : n[c] \in FreeBelow
    BY <1>1, <1>2, <1>5 DEF MapOk, Pool
<1>9. \A c, d \in DOMAIN n : n[c] = n[d] => c = d
    BY <1>1, <1>2, <1>6, <1>7 DEF MapOk
<1>10. MapOk(n)
    BY <1>1, <1>8, <1>9 DEF MapOk
<1> QED BY <1>1, <1>10 DEF n

------------------------------------------------------------------------------
(* The inductive invariant. *)

Bounded == \E M \in Nat : captured \subseteq 0..M
\* Nothing is planned before the fit is known.
Blank == place = [c \in {} |-> 0] /\ todo = {} /\ rest = {}
Pieces == todo \cup rest
PiecesOk ==
    /\ \A p \in Pieces : p.lcn \in Nat /\ p.len \in Nat \ {0}
    /\ \A p, q \in Pieces : p # q => Interval(p) \cap Interval(q) = {}
    /\ rest # {} => \E p \in rest : rest = {p}
    /\ rest \cap todo = {}
Covered == DOMAIN place \cup Unplaced = Above /\ DOMAIN place \cap Unplaced = {}
Working ==
    /\ PiecesOk /\ Covered
    /\ Cardinality(Above) <= Cardinality(FreeBelow)
Sound ==
    /\ MapOk(place) /\ phase # "bug"
    /\ DOMAIN place \cap Unplaced = {}
    /\ phase # "refused" => Working
    /\ phase # "place" => todo = {} /\ rest = {}
SoundInv ==
    /\ job \in Jobs /\ Bounded /\ marked \subseteq Vol.used /\ queue \subseteq Records
    /\ phase \in {"plan", "bitmap", "fit"} => Blank
    /\ (Planned /\ WholeImage) => Sound

\* What the assumptions and the bound say of the sets the planner works on.
LEMMA SetFacts ==
    ASSUME job \in Jobs, Bounded
    PROVE  /\ Target \in Nat \ {0} /\ SafeMax \in Nat
           /\ Above \subseteq Nat /\ FreeBelow \subseteq Nat
           /\ IsFiniteSet(Above) /\ IsFiniteSet(FreeBelow)
           /\ \E M \in Nat : Above \subseteq 0..M
<1>1. Target \in Nat \ {0}
    BY JobsAssumption DEF Target
<1>2. SafeMax \in Nat
    BY <1>1 DEF SafeMax
<1>3. PICK M \in Nat : captured \subseteq 0..M
    BY DEF Bounded
<1>4. IsFiniteSet(0..M) /\ IsFiniteSet(0..SafeMax)
    BY <1>2, FS_Interval
<1>5. Above \subseteq 0..M /\ FreeBelow \subseteq 0..SafeMax
    BY <1>3 DEF Above, FreeBelow
<1>6. IsFiniteSet(Above) /\ IsFiniteSet(FreeBelow)
    BY <1>4, <1>5, FS_Subset
<1>7. Above \subseteq Nat /\ FreeBelow \subseteq Nat
    BY <1>2, <1>5
<1>8. \E N \in Nat : Above \subseteq 0..N
    BY <1>5
<1> QED BY <1>1, <1>2, <1>6, <1>7, <1>8

\* While a cluster waits for a place, the pool is not empty.
LEMMA RoomLeft ==
    ASSUME job \in Jobs, Bounded, MapOk(place), Working, Unplaced # {}
    PROVE  Pool(place) # {}
<1>1. SUFFICES ASSUME Pool(place) = {} PROVE FALSE
    OBVIOUS
<1>2. IsFiniteSet(Above) /\ IsFiniteSet(FreeBelow)
    BY SetFacts
<1>3. DOMAIN place \subseteq Above /\ DOMAIN place # Above
    BY DEF Working, Covered
<1>4. /\ IsFiniteSet(DOMAIN place)
      /\ Cardinality(DOMAIN place) <= Cardinality(Above)
      /\ Cardinality(DOMAIN place) # Cardinality(Above)
    BY <1>2, <1>3, FS_Subset
<1>5. \A x \in FreeBelow : \E c \in DOMAIN place : place[c] = x
    BY <1>1 DEF Pool, Placed
<1> DEFINE f == [c \in DOMAIN place |-> place[c]]
<1>6. f \in Surjection(DOMAIN place, FreeBelow)
    BY <1>5 DEF MapOk, Surjection, Range
<1>7. Cardinality(FreeBelow) <= Cardinality(DOMAIN place)
    <2> HIDE DEF f
    <2> QED BY <1>4, <1>6, FS_Surjection
<1>8. /\ Cardinality(DOMAIN place) \in Nat /\ Cardinality(Above) \in Nat
      /\ Cardinality(FreeBelow) \in Nat
    BY <1>2, <1>4, FS_CardinalityType
<1> QED BY <1>4, <1>7, <1>8 DEF Working

\* A change of the map and the pieces alone keeps the rest of the invariant.
LEMMA Steady ==
    ASSUME job' = job, captured' = captured
    PROVE  /\ Above' = Above /\ FreeBelow' = FreeBelow /\ Target' = Target
           /\ Shrinking' = Shrinking /\ Bounded' = Bounded /\ WholeImage' = WholeImage
           /\ Vol' = Vol /\ Records' = Records /\ IsKind("ntfs")' = IsKind("ntfs")
BY DEF Records, Above, FreeBelow, Kept, SafeMax, Target, Vol, Shrinking, Bounded, WholeImage, IsKind

\* The pieces that the runs of a set of clusters make.
LEMMA RunPieces ==
    ASSUME NEW M \in Nat, NEW S \in SUBSET (0..M)
    PROVE  /\ \A p \in Runs(S) : p.lcn \in Nat /\ p.len \in Nat \ {0}
           /\ \A p, q \in Runs(S) : p # q => Interval(p) \cap Interval(q) = {}
           /\ UNION {Interval(r) : r \in Runs(S)} = S
<1>1. S \in SUBSET Int /\ S \subseteq Nat
    OBVIOUS
<1>2. \A p \in Runs(S) : p.lcn \in Nat /\ p.len \in Nat \ {0} /\ Interval(p) \subseteq S
    BY <1>1, RunsInside
<1>3. ASSUME NEW p \in Runs(S), NEW q \in Runs(S), p # q
      PROVE  Interval(p) \cap Interval(q) = {}
    BY <1>1, <1>3, RunsApart
<1>4. \A c \in S : \E r \in Runs(S) : c \in Interval(r)
    BY RunsCover
<1> QED BY <1>2, <1>3, <1>4

\* The capacity check sets every cluster past the new end to be placed.
LEMMA FitPlansKeeps ==
    ASSUME SoundInv, FitPlans
    PROVE  SoundInv'
<1>1. job' = job /\ captured' = captured /\ marked' = marked /\ place' = place /\ queue' = queue
      /\ phase = "fit" /\ phase' = "place" /\ todo' = Runs(Above) /\ rest' = {}
      /\ Cardinality(Above) <= Cardinality(FreeBelow)
    BY DEF FitPlans, captureVars
<1>2. place = [c \in {} |-> 0]
    BY <1>1 DEF SoundInv, Blank
<1>3. PICK M \in Nat : Above \subseteq 0..M
    BY SetFacts DEF SoundInv
<1>4. /\ \A p \in Runs(Above) : p.lcn \in Nat /\ p.len \in Nat \ {0}
      /\ \A p, q \in Runs(Above) : p # q => Interval(p) \cap Interval(q) = {}
      /\ UNION {Interval(r) : r \in Runs(Above)} = Above
    BY <1>3, RunPieces
<1>5. Unplaced' = Above
    BY <1>1, <1>4 DEF Unplaced
<1>6. DOMAIN place' = {}
    BY <1>1, <1>2
<1>7. PiecesOk'
    BY <1>1, <1>4 DEF PiecesOk, Pieces
<1>8. Above' = Above /\ FreeBelow' = FreeBelow /\ Bounded' = Bounded
    BY <1>1, Steady
<1>9. Sound'
    BY <1>1, <1>5, <1>6, <1>7, <1>8 DEF Sound, MapOk, Working, Covered
<1> QED BY <1>1, <1>8, <1>9, Steady DEF SoundInv

\* A piece, or the beginning of it, put into a run of the pool.
LEMMA PutInKeeps ==
    ASSUME SoundInv, Planned, WholeImage, phase = "place",
           job' = job, captured' = captured, marked' = marked, queue' = queue,
           NEW p \in NextPiece, NEW room \in Runs(Pool(place)), PutIn(p, room)
    PROVE  SoundInv'
<1> DEFINE take == IF p.len <= room.len THEN p.len ELSE room.len
           head == RunAt(p.lcn, take)
           tail == RunAt(p.lcn + take, p.len - take)
<1>1. /\ job \in Jobs /\ Bounded /\ MapOk(place) /\ PiecesOk /\ Covered
      /\ Cardinality(Above) <= Cardinality(FreeBelow)
    BY DEF SoundInv, Sound, Working
<1>2. p \in Pieces
    BY DEF NextPiece, Pieces
<1>3. p.lcn \in Nat /\ p.len \in Nat \ {0}
    BY <1>1, <1>2 DEF PiecesOk
<1>4. Pool(place) \in SUBSET Nat /\ Pool(place) \in SUBSET Int
    BY <1>1, SetFacts DEF Pool
<1>5. /\ room.lcn \in Nat /\ room.len \in Nat \ {0}
      /\ room.lcn..(room.lcn + room.len - 1) \subseteq Pool(place)
    BY <1>4, RunsInside DEF Interval
<1>6. take \in Nat \ {0} /\ take <= p.len /\ take <= room.len
    BY <1>3, <1>5
<1>7. /\ place' = Moved(place, head, room.lcn)
      /\ rest' = IF take < p.len THEN {tail} ELSE {}
      /\ todo' = todo \ {p} /\ phase' = phase
    BY DEF PutIn
<1> HIDE DEF take
<1>8. /\ head.lcn = p.lcn /\ head.len = take
      /\ tail.lcn = p.lcn + take /\ tail.len = p.len - take
    BY DEF RunAt
<1> HIDE DEF head, tail
<1>9. Interval(p) = p.lcn..(p.lcn + p.len - 1)
    BY DEF Interval
<1>10. Interval(head) \subseteq Interval(p)
    BY <1>3, <1>6, <1>8 DEF Interval
<1>11. take < p.len => Interval(tail) = Interval(p) \ Interval(head)
    BY <1>3, <1>6, <1>8 DEF Interval
<1>12. ~(take < p.len) => Interval(head) = Interval(p)
    BY <1>3, <1>6, <1>8 DEF Interval
<1>13. Interval(p) \subseteq Unplaced
    BY <1>2 DEF Unplaced, Pieces
<1>14. Interval(head) \subseteq Above /\ Interval(head) \cap DOMAIN place = {}
    BY <1>1, <1>10, <1>13 DEF Covered
<1>15. room.lcn..(room.lcn + head.len - 1) \subseteq Pool(place)
    BY <1>5, <1>6, <1>8
<1>16. MapOk(place)' /\ DOMAIN place' = DOMAIN place \cup Interval(head)
    <2>1. /\ MapOk(Moved(place, head, room.lcn))
          /\ DOMAIN Moved(place, head, room.lcn) = DOMAIN place \cup Interval(head)
        BY <1>1, <1>3, <1>5, <1>6, <1>8, <1>14, <1>15, MovedOk
    <2> QED BY <2>1, <1>7, Steady DEF MapOk
<1>17. Pieces' = (Pieces \ {p}) \cup rest'
    <2>1. CASE rest # {}
        BY <2>1, <1>1, <1>7 DEF NextPiece, PiecesOk, Pieces
    <2>2. CASE rest = {}
        BY <2>2, <1>7 DEF NextPiece, Pieces
    <2> QED BY <2>1, <2>2
<1>18. \A q \in Pieces \ {p} : Interval(q) \cap Interval(p) = {}
    BY <1>1, <1>2 DEF PiecesOk
<1>19. Unplaced' = Unplaced \ Interval(head)
    <2>1. \A c : c \in Unplaced <=> \E q \in Pieces : c \in Interval(q)
        BY DEF Unplaced, Pieces
    <2>2. \A c : c \in Unplaced' <=> \E q \in Pieces' : c \in Interval(q)
        BY DEF Unplaced, Pieces
    <2>3. \A c : (\E q \in rest' : c \in Interval(q)) <=> c \in Interval(p) \ Interval(head)
        <3>1. CASE take < p.len
            BY <3>1, <1>7, <1>11
        <3>2. CASE ~(take < p.len)
            BY <3>2, <1>7, <1>12
        <3> QED BY <3>1, <3>2
    <2>4. ASSUME NEW c PROVE c \in Unplaced' <=> c \in Unplaced \ Interval(head)
        <3>1. c \in Unplaced <=> (c \in Interval(p) \/ \E q \in Pieces \ {p} : c \in Interval(q))
            BY <2>1, <1>2
        <3>2. c \in Unplaced' <=> (c \in Interval(p) \ Interval(head)
                                     \/ \E q \in Pieces \ {p} : c \in Interval(q))
            BY <2>2, <2>3, <1>17
        <3>3. (\E q \in Pieces \ {p} : c \in Interval(q)) => c \notin Interval(p)
            BY <1>18
        <3> QED BY <3>1, <3>2, <3>3, <1>10
    <2> QED BY <2>4
<1>20. Covered'
    BY <1>1, <1>13, <1>10, <1>16, <1>19, Steady DEF Covered
<1>21. PiecesOk'
    <2>1. \A q \in rest' : q = tail /\ take < p.len
        BY <1>7
    <2>2. take < p.len => tail.lcn \in Nat /\ tail.len \in Nat \ {0}
        BY <1>3, <1>6, <1>8
    <2>3. take < p.len => Interval(tail) \subseteq Interval(p) /\ tail.lcn \in Interval(tail)
        BY <2>2, <1>11 DEF Interval
    <2>4. \A q \in Pieces' : q.lcn \in Nat /\ q.len \in Nat \ {0}
        BY <1>1, <1>17, <2>1, <2>2 DEF PiecesOk
    <2>5. \A q, r \in Pieces' : q # r => Interval(q) \cap Interval(r) = {}
        <3> SUFFICES ASSUME NEW q \in Pieces', NEW r \in Pieces', q # r
                     PROVE  Interval(q) \cap Interval(r) = {}
            OBVIOUS
        <3>1. CASE q \in Pieces \ {p} /\ r \in Pieces \ {p}
            BY <3>1, <1>1 DEF PiecesOk
        <3>2. CASE q \in rest' /\ r \in Pieces \ {p}
            BY <3>2, <2>1, <2>3, <1>18
        <3>3. CASE q \in Pieces \ {p} /\ r \in rest'
            BY <3>3, <2>1, <2>3, <1>18
        <3>4. CASE q \in rest' /\ r \in rest'
            BY <3>4, <2>1
        <3> QED BY <3>1, <3>2, <3>3, <3>4, <1>17
    <2>6. rest' # {} => \E q \in rest' : rest' = {q}
        BY <1>7
    <2>7. rest' \cap todo' = {}
        <3>1. ASSUME take < p.len, tail \in todo' PROVE FALSE
            <4>1. tail \in Pieces \ {p}
                BY <3>1, <1>7 DEF Pieces
            <4> QED BY <4>1, <3>1, <2>3, <1>18
        <3> QED BY <3>1, <2>1
    <2> QED BY <2>4, <2>5, <2>6, <2>7 DEF PiecesOk
<1>22. Sound'
    BY <1>1, <1>7, <1>16, <1>20, <1>21, Steady DEF Sound, Working, Covered
<1>23. /\ phase' = "place" /\ Bounded' /\ job' \in Jobs /\ marked' \subseteq Vol.used
       /\ queue' \subseteq Records
    BY <1>1, <1>7, Steady DEF SoundInv
<1> QED BY <1>22, <1>23, Steady DEF SoundInv

\* Placing one piece in a gap gives each of its clusters a place nobody has.
LEMMA PlacePieceKeeps ==
    ASSUME SoundInv, Planned, WholeImage, PlacePiece
    PROVE  SoundInv'
<1>1. job' = job /\ captured' = captured /\ marked' = marked /\ queue' = queue /\ phase = "place"
    BY DEF PlacePiece, captureVars
<1>2. PICK p \in NextPiece :
          IF Pool(place) = {} THEN OutOfRoom ELSE \E room \in Room(p.len) : PutIn(p, room)
    BY DEF PlacePiece
<1>3. job \in Jobs /\ Bounded /\ MapOk(place) /\ Working
    BY <1>1 DEF SoundInv, Sound
<1>4. Pool(place) # {}
    <2>1. p \in Pieces /\ p.lcn \in Nat /\ p.len \in Nat \ {0}
        BY <1>3 DEF NextPiece, Pieces, Working, PiecesOk
    <2>2. p.lcn \in Interval(p)
        BY <2>1 DEF Interval
    <2>3. Unplaced # {}
        BY <2>1, <2>2 DEF Unplaced, Pieces
    <2> QED BY <1>3, <2>3, RoomLeft
<1>5. PICK room \in Room(p.len) : PutIn(p, room)
    BY <1>2, <1>4
<1>6. room \in Runs(Pool(place))
    BY DEF Room, BestFit, Largest
<1> QED BY <1>1, <1>5, <1>6, PutInKeeps

\* A step that leaves the map and the pieces alone keeps the rest.
LEMMA SameMapKeeps ==
    ASSUME SoundInv, job' = job, captured' = captured, marked' = marked,
           place' = place, todo' = todo, rest' = rest, queue' \subseteq Records,
           phase \notin {"plan", "bitmap", "fit", "refused"},
           phase' \notin {"plan", "bitmap", "fit"},
           (Planned /\ WholeImage) =>
               phase' # "bug" /\ (phase' = "place" \/ (todo = {} /\ rest = {}))
    PROVE  SoundInv'
<1>1. /\ Above' = Above /\ FreeBelow' = FreeBelow /\ Bounded' = Bounded /\ Vol' = Vol
      /\ WholeImage' = WholeImage /\ Records' = Records
    BY Steady
<1>2. Planned' => Planned
    BY Steady DEF Planned
<1>3. Unplaced' = Unplaced /\ Pieces' = Pieces
    BY DEF Unplaced, Pieces
<1>4. ASSUME Planned, WholeImage PROVE Sound'
    <2>1. MapOk(place) /\ DOMAIN place \cap Unplaced = {} /\ Working
        BY <1>4 DEF SoundInv, Sound
    <2>2. MapOk(place)'
        BY <2>1, <1>1 DEF MapOk
    <2>3. Working'
        BY <2>1, <1>1, <1>3 DEF Working, PiecesOk, Covered
    <2> QED BY <2>1, <2>2, <2>3, <1>3, <1>4 DEF Sound
<1> QED BY <1>1, <1>2, <1>4 DEF SoundInv

\* The clusters of a record past the new end are among those to move.
LEMMA AboveOfOk ==
    ASSUME job \in Jobs, Bounded, WholeImage, NEW r \in Records
    PROVE  /\ AboveOf(r) \subseteq Above /\ AboveOf(r) \subseteq Int
           /\ IsFiniteSet(AboveOf(r)) /\ Cardinality(AboveOf(r)) \in Nat
<1>1. SafeMax \in Nat /\ Above \subseteq Nat /\ IsFiniteSet(Above)
    BY SetFacts
<1>2. Range(Vol.runs[r]) \subseteq Vol.used \cup {Sparse}
    BY JobsAssumption DEF VolumeOk, Vol, Records
<1>3. AboveOf(r) \subseteq Above
    BY <1>1, <1>2 DEF AboveOf, Above, WholeImage, Sparse
<1>4. IsFiniteSet(AboveOf(r)) /\ Cardinality(AboveOf(r)) \in Nat
    BY <1>1, <1>3, FS_Subset, FS_CardinalityType
<1>5. AboveOf(r) \subseteq Int
    <2>1. \A n \in Nat : n \in Int
        OBVIOUS
    <2> QED BY <1>1, <1>3, <2>1
<1> QED BY <1>3, <1>4, <1>5

\* A record's clusters put into one free run.
LEMMA ReplanWholeKeeps ==
    ASSUME SoundInv, Planned, WholeImage, ReplanWhole
    PROVE  SoundInv'
<1>1. /\ job' = job /\ captured' = captured /\ marked' = marked /\ phase = "replan"
      /\ phase' = phase /\ todo' = todo /\ rest' = rest
    BY DEF ReplanWhole, captureVars
<1>0. PICK r \in queue : \E x \in BestFit(Pool(Without(place, AboveOf(r))), Cardinality(AboveOf(r))) :
          /\ place' = SideBySide(Without(place, AboveOf(r)), AboveOf(r), x.lcn)
          /\ queue' = queue \ {r}
    BY DEF ReplanWhole
<1>2. PICK room \in BestFit(Pool(Without(place, AboveOf(r))), Cardinality(AboveOf(r))) :
          /\ place' = SideBySide(Without(place, AboveOf(r)), AboveOf(r), room.lcn)
          /\ queue' = queue \ {r}
    BY <1>0
<1> DEFINE A == AboveOf(r)
           m == Without(place, A)
<1>3. /\ job \in Jobs /\ Bounded /\ MapOk(place) /\ PiecesOk /\ Covered /\ r \in Records
      /\ todo = {} /\ rest = {} /\ Cardinality(Above) <= Cardinality(FreeBelow)
    BY <1>1 DEF SoundInv, Sound, Working
<1>4. A \subseteq Above /\ A \subseteq Int /\ IsFiniteSet(A) /\ Cardinality(A) \in Nat
    BY <1>3, AboveOfOk
<1>5. Unplaced = {} /\ DOMAIN place = Above
    BY <1>3 DEF Unplaced, Covered
<1>6. MapOk(m) /\ DOMAIN m = Above \ A
    BY <1>3, <1>5, WithoutOk DEF Without
<1>7. Pool(m) \in SUBSET Int /\ Pool(m) \subseteq Nat
    BY <1>3, SetFacts DEF Pool
<1> HIDE DEF A
<1>8. room \in Runs(Pool(m)) /\ room.len >= Cardinality(A)
    BY <1>2 DEF BestFit, A
<1>9. room.lcn \in Nat /\ room.len \in Nat \ {0} /\ Interval(room) \subseteq Pool(m)
    BY <1>7, <1>8, RunsInside
<1>10. room.lcn..(room.lcn + Cardinality(A) - 1) \subseteq Pool(m)
    BY <1>4, <1>8, <1>9 DEF Interval
<1> HIDE DEF m
<1>11. MapOk(SideBySide(m, A, room.lcn)) /\ DOMAIN SideBySide(m, A, room.lcn) = DOMAIN m \cup A
    BY <1>4, <1>6, <1>9, <1>10, SideBySideOk
<1>12. place' = SideBySide(m, A, room.lcn)
    BY <1>2 DEF m, A
<1>13. DOMAIN place' = Above
    BY <1>4, <1>6, <1>11, <1>12
<1>14. /\ Above' = Above /\ FreeBelow' = FreeBelow /\ Bounded' = Bounded /\ Vol' = Vol
       /\ Records' = Records
    BY <1>1, Steady
<1>15. MapOk(place)'
    BY <1>11, <1>12, <1>14 DEF MapOk
<1>16. Unplaced' = {} /\ PiecesOk'
    BY <1>1, <1>3 DEF Unplaced, PiecesOk, Pieces
<1>17. Sound'
    BY <1>1, <1>3, <1>13, <1>14, <1>15, <1>16 DEF Sound, Working, Covered
<1> QED BY <1>1, <1>2, <1>14, <1>17 DEF SoundInv

\* A record's clusters put into a run of the free space as it was at first; what
\* was placed there becomes pieces again.
LEMMA ReplanEvictingKeeps ==
    ASSUME SoundInv, Planned, WholeImage, ReplanEvicting
    PROVE  SoundInv'
<1>1. /\ job' = job /\ captured' = captured /\ marked' = marked /\ phase = "replan"
      /\ phase' = "place"
    BY DEF ReplanEvicting, captureVars
<1>2. PICK r \in queue : \E x \in BestFit(FreeBelow, Cardinality(AboveOf(r))) :
          /\ place' = SideBySide(Without(place, AboveOf(r) \cup Evicted(r, x)), AboveOf(r), x.lcn)
          /\ todo' = Runs(Evicted(r, x)) /\ rest' = {} /\ queue' = queue \ {r}
    BY DEF ReplanEvicting
<1>3. PICK w \in BestFit(FreeBelow, Cardinality(AboveOf(r))) :
          /\ place' = SideBySide(Without(place, AboveOf(r) \cup Evicted(r, w)), AboveOf(r), w.lcn)
          /\ todo' = Runs(Evicted(r, w)) /\ rest' = {} /\ queue' = queue \ {r}
    BY <1>2
<1> DEFINE A == AboveOf(r)
           E == Evicted(r, w)
           m == Without(place, A \cup E)
           window == w.lcn..(w.lcn + Cardinality(A) - 1)
<1>4. /\ job \in Jobs /\ Bounded /\ MapOk(place) /\ Covered /\ r \in Records
      /\ todo = {} /\ rest = {} /\ Cardinality(Above) <= Cardinality(FreeBelow)
    BY <1>1 DEF SoundInv, Sound, Working
<1>5. A \subseteq Above /\ A \subseteq Int /\ IsFiniteSet(A) /\ Cardinality(A) \in Nat
    BY <1>4, AboveOfOk
<1>6. DOMAIN place = Above
    BY <1>4 DEF Unplaced, Covered
<1>7. E \subseteq Above /\ E \cap A = {}
    BY <1>6 DEF Evicted
<1>8. E = {c \in DOMAIN place \ A : place[c] \in window}
    BY DEF Evicted
<1> HIDE DEF A, E
<1>9. MapOk(m) /\ DOMAIN m = Above \ (A \cup E) /\ \A c \in DOMAIN m : m[c] = place[c]
    <2>1. /\ MapOk(m) /\ DOMAIN m = DOMAIN place \ (A \cup E)
          /\ \A c \in DOMAIN place \ (A \cup E) : m[c] = place[c]
        BY <1>4, WithoutOk
    <2> HIDE DEF m
    <2> QED BY <2>1, <1>6
<1>10. w \in Runs(FreeBelow) /\ w.len >= Cardinality(A)
    BY DEF BestFit, A
<1>11. FreeBelow \in SUBSET Int /\ FreeBelow \subseteq Nat
    BY <1>4, SetFacts
<1>12. w.lcn \in Nat /\ w.len \in Nat \ {0} /\ Interval(w) \subseteq FreeBelow
    BY <1>10, <1>11, RunsInside
<1>13. window \subseteq FreeBelow
    BY <1>5, <1>10, <1>12 DEF Interval
<1> HIDE DEF m, window
<1>14. window \subseteq Pool(m)
    BY <1>6, <1>8, <1>9, <1>13 DEF Pool, Placed
<1>15. MapOk(SideBySide(m, A, w.lcn)) /\ DOMAIN SideBySide(m, A, w.lcn) = DOMAIN m \cup A
    <2>1. w.lcn..(w.lcn + Cardinality(A) - 1) \subseteq Pool(m) /\ A \cap DOMAIN m = {}
        BY <1>9, <1>14 DEF window
    <2> QED BY <2>1, <1>5, <1>9, <1>12, SideBySideOk
<1>16. place' = SideBySide(m, A, w.lcn) /\ todo' = Runs(E)
    BY <1>3 DEF m, A, E
<1>17. DOMAIN place' = Above \ E
    BY <1>5, <1>7, <1>9, <1>15, <1>16
<1>18. PICK M \in Nat : E \subseteq 0..M
    BY <1>4, <1>7, SetFacts
<1>19. /\ \A p \in Runs(E) : p.lcn \in Nat /\ p.len \in Nat \ {0}
       /\ \A p, q \in Runs(E) : p # q => Interval(p) \cap Interval(q) = {}
       /\ UNION {Interval(p) : p \in Runs(E)} = E
    BY <1>18, RunPieces
<1>20. /\ Above' = Above /\ FreeBelow' = FreeBelow /\ Bounded' = Bounded /\ Vol' = Vol
       /\ Records' = Records
    BY <1>1, Steady
<1>21. MapOk(place)'
    BY <1>15, <1>16, <1>20 DEF MapOk
<1>22. Unplaced' = E /\ PiecesOk'
    BY <1>3, <1>16, <1>19 DEF Unplaced, PiecesOk, Pieces
<1>23. Sound'
    BY <1>1, <1>4, <1>7, <1>17, <1>20, <1>21, <1>22 DEF Sound, Working, Covered
<1> QED BY <1>1, <1>3, <1>20, <1>23 DEF SoundInv

\* Before the fit is known there is neither a map nor a piece.
LEMMA CaptureKeeps ==
    ASSUME SoundInv, CaptureNext, UNCHANGED planVars
    PROVE  SoundInv'
<1>1. /\ job' = job /\ phase \in {"plan", "bitmap"} /\ phase' \in {"fit", "bitmap"}
      /\ place' = place /\ todo' = todo /\ rest' = rest /\ queue' = queue
    BY DEF CaptureNext, PlanFat, PlanExfat, PlanNtfs, PlanRefs, HeapPlan, ReadBitmap,
        BitmapRejected, BitmapUnavailable,
           captureVars, planVars
<1>2. job \in Jobs /\ Bounded /\ marked \subseteq Vol.used /\ queue \subseteq Records /\ Blank
    BY <1>1 DEF SoundInv
<1>3. /\ Vol.size \in Nat /\ Vol.head \in Nat /\ Vol.bps \in Nat \ {0}
      /\ Vol.used \subseteq 0..(Vol.size - 1)
      /\ ClusterLbas \in Nat \ {0}
    BY <1>2, JobsAssumption DEF VolumeOk, Vol
<1>4. TotalClusters \in Int
    <2>1. /\ Vol.size * ClusterLbas \in Int
          /\ \A x \in Int, y \in Nat \ {0} : x \div y \in Int
          /\ \A x, y \in Int : x * y \in Int
        BY <1>3
    <2> DEFINE b == Vol.bps
               l == Vol.size * ClusterLbas
    <2>2. l \div b - 1 \in Int /\ b \in Int
        <3>1. l \in Int /\ b \in Nat \ {0}
            BY <1>3, <2>1
        <3> HIDE DEF b, l
        <3> QED BY <2>1, <3>1
    <2>3. TotalSectors(l, b) \in Int
        BY <2>2 DEF TotalSectors
    <2> DEFINE t == TotalSectors(l, b)
    <2>4. (t * b) \div ClusterLbas \in Int
        <3> HIDE DEF t, b
        <3>1. t * b \in Int
            BY <2>1, <2>2, <2>3 DEF t
        <3> QED BY <3>1, <2>1, <1>3
    <2> QED BY <2>4, <1>3 DEF TotalClusters
<1>5. marked' \subseteq Vol.used
    BY <1>2 DEF CaptureNext, PlanFat, PlanExfat, PlanNtfs, PlanRefs, HeapPlan, ReadBitmap,
                BitmapRejected, BitmapUnavailable, captureVars
<1>6. Bounded'
    <2> DEFINE Bnd(S) == \E M \in Nat : S \subseteq 0..M
    <2>1. \A S : S \subseteq Vol.used => Bnd(Covering(S))
        <3>1. \A S : S \subseteq Vol.used => Covering(S) \subseteq 0..Vol.size
            <4>1. 0..(Vol.size - 1) \subseteq 0..Vol.size /\ Boot \in 0..Vol.size
                BY <1>3 DEF Boot
            <4> QED BY <4>1, <1>3 DEF Covering
        <3> QED BY <3>1, <1>3
    <2>2. Bnd(Covering(0..(Vol.head - 1) \cup Vol.used))
        <3>1. 0..(Vol.head - 1) \cup Vol.used \subseteq 0..(Vol.head + Vol.size)
            BY <1>3
        <3>2. Vol.head + Vol.size \in Nat /\ Boot \in 0..(Vol.head + Vol.size)
            BY <1>3 DEF Boot
        <3> QED BY <3>1, <3>2 DEF Covering
    <2>3. Bnd(Covering(0..(TotalClusters - 1)))
        <3>1. CASE TotalClusters > 0
            <4>1. TotalClusters - 1 \in Nat
                BY <3>1, <1>4
            <4>2. 0 \in 0..(TotalClusters - 1)
                BY <4>1
            <4>3. Covering(0..(TotalClusters - 1)) = 0..(TotalClusters - 1)
                BY <4>2 DEF Covering
            <4> QED BY <4>1, <4>3
        <3>2. CASE ~(TotalClusters > 0)
            <4>1. 0..(TotalClusters - 1) = {}
                BY <3>2, <1>4
            <4>2. {Boot} \subseteq 0..0 /\ 0 \in Nat
                BY DEF Boot
            <4> QED BY <4>1, <4>2 DEF Covering
        <3> QED BY <3>1, <3>2
    <2>4. CASE PlanFat \/ PlanExfat
        BY <2>4, <2>2 DEF PlanFat, PlanExfat, HeapPlan, Bounded
    <2>5. CASE PlanNtfs \/ PlanRefs
        BY <2>5, <1>2 DEF PlanNtfs, PlanRefs, Bounded, captureVars
    <2>6. CASE ReadBitmap
        <3>1. captured' = captured \/ \E S : S \subseteq Vol.used /\ captured' = Covering(S)
            BY <2>6, <1>2 DEF ReadBitmap
        <3> QED BY <3>1, <2>1, <1>2 DEF Bounded
    <2>7. CASE BitmapRejected
        BY <2>7, <2>1, <1>2 DEF BitmapRejected, Bounded
    <2>8. CASE BitmapUnavailable
        BY <2>8, <2>3 DEF BitmapUnavailable, Bounded
    <2> QED BY <2>4, <2>5, <2>6, <2>7, <2>8 DEF CaptureNext
<1>7. Vol' = Vol /\ Records' = Records
    BY <1>1 DEF Vol, Records
<1> QED BY <1>1, <1>2, <1>5, <1>6, <1>7 DEF SoundInv, Blank, Planned

\* Where nothing is promised, nothing has to be kept.
LEMMA OtherwiseKeeps ==
    ASSUME SoundInv, job' = job, captured' = captured, marked' = marked,
           queue' \subseteq Records, phase \notin {"plan", "bitmap", "fit"},
           phase' \notin {"plan", "bitmap", "fit"}, ~(Planned /\ WholeImage)
    PROVE  SoundInv'
<1>1. /\ Bounded' = Bounded /\ Vol' = Vol /\ WholeImage' = WholeImage /\ Records' = Records
    BY Steady
<1>2. Planned' => Planned
    BY Steady DEF Planned
<1> QED BY <1>1, <1>2 DEF SoundInv

\* The two ways out of the fit that make no map.
LEMMA FitEndsKeeps ==
    ASSUME SoundInv, FitWithoutPlan \/ FitRefuses
    PROVE  SoundInv'
<1>1. /\ job' = job /\ captured' = captured /\ marked' = marked /\ place' = place
      /\ todo' = todo /\ rest' = rest /\ queue' = queue /\ phase = "fit"
      /\ phase' \in {"stream", "refused"}
      /\ phase' = "stream" => ~(IsKind("ntfs") /\ Shrinking)
    BY DEF FitWithoutPlan, FitRefuses, Refuse, captureVars, planVars
<1>2. Blank
    BY <1>1 DEF SoundInv
<1>3. /\ Bounded' = Bounded /\ Vol' = Vol /\ Records' = Records /\ Shrinking' = Shrinking
      /\ IsKind("ntfs")' = IsKind("ntfs")
    BY <1>1, Steady
<1>4. Planned' => phase' = "refused"
    BY <1>1, <1>3 DEF Planned
<1>5. DOMAIN place' = {}
    BY <1>1, <1>2 DEF Blank
<1>6. phase' = "refused" => Sound'
    BY <1>1, <1>2, <1>5 DEF Sound, MapOk, Blank
<1> QED BY <1>1, <1>3, <1>4, <1>6 DEF SoundInv

\* Every step of the planner.
LEMMA PlanKeeps ==
    ASSUME SoundInv, PlanNext
    PROVE  SoundInv'
<1>1. CASE FitWithoutPlan \/ FitRefuses
    BY <1>1, FitEndsKeeps
<1>2. CASE FitPlans
    BY <1>2, FitPlansKeeps
<1>3. CASE PlacePiece
    <2>1. /\ job' = job /\ captured' = captured /\ marked' = marked /\ queue' = queue
          /\ phase = "place"
        BY <1>3 DEF PlacePiece, captureVars
    <2>2. phase' \in {"bug", "replan", "place"}
        BY <1>3, <2>1 DEF PlacePiece, OutOfRoom, PutIn
    <2>3. CASE Planned /\ WholeImage
        BY <1>3, <2>3, PlacePieceKeeps
    <2>4. CASE ~(Planned /\ WholeImage)
        <3>1. queue' \subseteq Records
            BY <2>1 DEF SoundInv
        <3> QED BY <2>1, <2>2, <2>4, <3>1, OtherwiseKeeps
    <2> QED BY <2>3, <2>4
<1>4. CASE PlacedAll
    <2>1. /\ job' = job /\ captured' = captured /\ marked' = marked /\ place' = place
          /\ todo' = todo /\ rest' = rest /\ queue' = queue /\ todo = {} /\ rest = {}
          /\ phase = "place" /\ phase' \in {"simulate", "replan"}
        BY <1>4 DEF PlacedAll, captureVars
    <2>2. queue' \subseteq Records
        BY <2>1 DEF SoundInv
    <2> QED BY <2>1, <2>2, SameMapKeeps
<1>5. CASE SimulateFits
    <2>1. /\ job' = job /\ captured' = captured /\ marked' = marked /\ place' = place
          /\ todo' = todo /\ rest' = rest /\ queue' = queue
          /\ phase = "simulate" /\ phase' = IF VerifyMap THEN "stream" ELSE "bug"
        BY <1>5 DEF SimulateFits, captureVars, planVars
    <2>2. ASSUME Planned, WholeImage PROVE VerifyMap /\ todo = {} /\ rest = {}
        <3>1. MapOk(place) /\ Covered /\ todo = {} /\ rest = {}
            BY <2>1, <2>2 DEF SoundInv, Sound, Working
        <3>2. DOMAIN place = Above
            BY <3>1 DEF Covered, Unplaced
        <3>3. \A c \in DOMAIN place : c > SafeMax
            BY <3>2 DEF Above
        <3> QED BY <3>1, <3>2, <3>3 DEF MapOk, VerifyMap
    <2>3. queue' \subseteq Records
        BY <2>1 DEF SoundInv
    <2> QED BY <2>1, <2>2, <2>3, SameMapKeeps
<1>6. CASE SimulateOverflows \/ SimulateGivesUp \/ ReplanStuck \/ PassEnds
    <2>1. /\ job' = job /\ captured' = captured /\ marked' = marked /\ place' = place
          /\ todo' = todo /\ rest' = rest
          /\ phase \in {"simulate", "replan"} /\ phase' \in {"simulate", "replan", "refused"}
        BY <1>6 DEF SimulateOverflows, SimulateGivesUp, Refuse, ReplanStuck, PassEnds,
                    captureVars, planVars
    <2>2. queue' \subseteq Records
        BY <1>6 DEF SoundInv, SimulateOverflows, SimulateGivesUp, Refuse, ReplanStuck, PassEnds,
                    planVars, Overflows
    <2>3. (Planned /\ WholeImage) => todo = {} /\ rest = {}
        BY <2>1 DEF SoundInv, Sound
    <2> QED BY <2>1, <2>2, <2>3, SameMapKeeps
<1>7. CASE ReplanWhole \/ ReplanEvicting
    <2>1. /\ job' = job /\ captured' = captured /\ marked' = marked
          /\ phase = "replan" /\ phase' \in {"replan", "place"}
        BY <1>7 DEF ReplanWhole, ReplanEvicting, captureVars
    <2>2. queue' \subseteq Records
        BY <1>7 DEF SoundInv, ReplanWhole, ReplanEvicting
    <2>3. CASE Planned /\ WholeImage
        BY <1>7, <2>3, ReplanWholeKeeps, ReplanEvictingKeeps
    <2>4. CASE ~(Planned /\ WholeImage)
        BY <2>1, <2>2, <2>4, OtherwiseKeeps
    <2> QED BY <2>3, <2>4
<1> QED BY <1>1, <1>2, <1>3, <1>4, <1>5, <1>6, <1>7 DEF PlanNext

\* Neither the stream nor the rewrite touches the plan.
LEMMA ImageKeeps ==
    ASSUME SoundInv, ImageNext
    PROVE  SoundInv'
<1>1. /\ job' = job /\ captured' = captured /\ marked' = marked /\ place' = place
      /\ todo' = todo /\ rest' = rest /\ queue' = queue
    BY DEF ImageNext, Stream, RewriteRecords, RewriteBitmap, StampLog, RewriteMirror,
           UpdatePointers, PatchNtfs, PatchFat, PatchExfat, Unconverted, ConvertOverflows,
           Convert, captureVars, planVars
<1>2. phase \in {"stream", "records", "bits", "log", "mirror", "pointers", "size", "convert"}
    BY DEF ImageNext, Stream, RewriteRecords, RewriteBitmap, StampLog, RewriteMirror,
           UpdatePointers, PatchNtfs, PatchFat, PatchExfat, Unconverted, ConvertOverflows, Convert
<1>3. phase' \in {"records", "bits", "log", "mirror", "pointers", "size", "convert",
                  "overflow", "failed", "done"}
    BY DEF ImageNext, Stream, RewriteRecords, DryRun, RewriteBitmap, StampLog, RewriteMirror,
           UpdatePointers, PatchNtfs, PatchFat, PatchExfat, Unconverted, ConvertOverflows, Convert
<1>4. queue' \subseteq Records
    BY <1>1 DEF SoundInv
<1>5. (Planned /\ WholeImage) => todo = {} /\ rest = {}
    BY <1>2 DEF SoundInv, Sound
<1> QED BY <1>1, <1>2, <1>3, <1>4, <1>5, SameMapKeeps

\* The plan is sound at every step, for every volume, target and number of passes.
LEMMA SoundInvariant == Spec => []SoundInv
<1>1. Init => SoundInv
    <2> SUFFICES ASSUME Init PROVE SoundInv
        OBVIOUS
    <2>1. /\ job \in Jobs /\ captured = {} /\ marked = {} /\ queue = {} /\ phase = "plan"
          /\ Blank
        BY DEF Init, Blank
    <2>2. Bounded
        BY <2>1 DEF Bounded
    <2> QED BY <2>1, <2>2 DEF SoundInv, Planned
<1>2. SoundInv /\ [Next]_vars => SoundInv'
    <2> SUFFICES ASSUME SoundInv, [Next]_vars PROVE SoundInv'
        OBVIOUS
    <2>1. CASE Capturing
        BY <2>1, CaptureKeeps DEF Capturing
    <2>2. CASE Planning
        BY <2>2, PlanKeeps DEF Planning
    <2>3. CASE ImageNext
        BY <2>3, ImageKeeps
    <2>4. CASE UNCHANGED vars
        <3>1. /\ job' = job /\ captured' = captured /\ marked' = marked /\ place' = place
              /\ todo' = todo /\ rest' = rest /\ queue' = queue /\ phase' = phase
            BY <2>4 DEF vars, captureVars, planVars
        <3>2. /\ Above' = Above /\ FreeBelow' = FreeBelow /\ Bounded' = Bounded /\ Vol' = Vol
              /\ WholeImage' = WholeImage /\ Records' = Records
            BY <3>1, Steady
        <3>3. Planned' = Planned
            BY <3>1, Steady DEF Planned
        <3>4. Unplaced' = Unplaced /\ Pieces' = Pieces /\ (MapOk(place)' <=> MapOk(place))
            BY <3>1, <3>2 DEF Unplaced, Pieces, MapOk
        <3>5. Sound => Sound'
            BY <3>1, <3>2, <3>4 DEF Sound, Working, PiecesOk, Covered
        <3> QED BY <3>1, <3>2, <3>3, <3>5 DEF SoundInv, Blank
    <2> QED BY <2>1, <2>2, <2>3, <2>4 DEF Next
<1> QED BY <1>1, <1>2, PTL DEF Spec

\* attempt_plan and its helpers: for every volume, target, bitmap paging and bound
\* on passes, no cluster past the new end is lost or doubled by packing, splitting,
\* re-planning and eviction, none lands on data or past the end, and room never
\* runs out.
THEOREM PlanSoundTheorem == Spec => []PlanIsSound
<1>1. SoundInv => PlanIsSound
    BY DEF SoundInv, Sound, MapOk, Working, Covered, PlanIsSound
<1> QED BY <1>1, SoundInvariant, PTL
------------------------------------------------------------------------------
(* Arithmetic: whole sectors of a cluster, whole clusters of a partition. *)

\* The quotient is the largest whole number that fits.
LEMMA DivBound ==
    ASSUME NEW a \in Int, NEW b \in Nat \ {0}
    PROVE  (a \div b) \in Int /\ (a \div b) * b <= a /\ a < (a \div b) * b + b
BY SMT

\* Multiples of b that are less than one b apart are in order.
LEMMA MultiplesOrdered ==
    ASSUME NEW x \in Int, NEW y \in Int, NEW b \in Nat \ {0}, x * b < y * b + b
    PROVE  x <= y
<1>1. SUFFICES ASSUME x >= y + 1 PROVE FALSE
    OBVIOUS
<1>2. PICK d \in Nat : x = y + 1 + d
    <2>1. x - y - 1 \in Nat /\ x = y + 1 + (x - y - 1)
        BY <1>1
    <2> QED BY <2>1
<1>3. d * b >= 0
    OBVIOUS
<1>4. x * b = y * b + b + d * b
    BY <1>2, SMT
<1>5. x * b \in Int /\ y * b \in Int /\ d * b \in Int
    OBVIOUS
<1> QED BY <1>3, <1>4, <1>5

\* Only one number fits as the quotient does.
LEMMA DivUnique ==
    ASSUME NEW a \in Int, NEW b \in Nat \ {0}, NEW q \in Int, q * b <= a, a < q * b + b
    PROVE  a \div b = q
<1> DEFINE d == a \div b
<1>1. d \in Int /\ d * b <= a /\ a < d * b + b
    BY DivBound
<1> HIDE DEF d
<1>2. d * b < q * b + b /\ q * b < d * b + b
    BY <1>1
<1>3. d <= q /\ q <= d
    BY <1>1, <1>2, MultiplesOrdered
<1> QED BY <1>1, <1>3 DEF d

\* A number that divides evenly is its quotient times the divisor.
LEMMA ModExact ==
    ASSUME NEW a \in Int, NEW b \in Nat \ {0}, a % b = 0
    PROVE  (a \div b) \in Int /\ (a \div b) * b = a
BY SMT

\* A product divided by a factor is the other one.
LEMMA DivExact ==
    ASSUME NEW a \in Int, NEW b \in Nat \ {0}
    PROVE  (a * b) \div b = a
<1>1. a * b \in Int
    OBVIOUS
<1> QED BY <1>1, DivUnique

\* Multiplying keeps the order.
LEMMA TimesMonotone ==
    ASSUME NEW a \in Int, NEW b \in Int, a <= b, NEW c \in Nat
    PROVE  a * c <= b * c
<1>1. PICK d \in Nat : b = a + d
    <2>1. b - a \in Nat /\ b = a + (b - a)
        OBVIOUS
    <2> QED BY <2>1
<1>2. b * c = a * c + d * c /\ d * c >= 0
    BY <1>1, SMT
<1>3. a * c \in Int /\ b * c \in Int /\ d * c \in Int
    OBVIOUS
<1> QED BY <1>2, <1>3

------------------------------------------------------------------------------
(* The image has every cluster in use. *)

NtfsShrink == IsKind("ntfs") /\ Shrinking
\* The bitmap read so far shows what is used up to where it stopped.
CaptureInv ==
    /\ job \in Jobs /\ nextLcn \in Nat
    /\ phase = "plan" => nextLcn = 0
    /\ phase = "bitmap" =>
          /\ Vol.fs \in {"ntfs", "refs"}
          /\ \A c \in Vol.used : c < nextLcn /\ c < TotalClusters => c \in marked
    /\ CaptureIsWhole

\* What the assumptions say of the volume of a job.
LEMMA VolumeFacts ==
    ASSUME job \in Jobs
    PROVE  /\ Vol.size \in Nat /\ Vol.bps \in Nat \ {0} /\ Vol.head \in Nat
           /\ Vol.used \subseteq 0..(Vol.size - 1) /\ Vol.fs \in Kinds
           /\ Target \in Nat \ {0} /\ ClusterLbas \in Nat \ {0} /\ PageClusters \in Nat \ {0}
           /\ Reserve \in Nat /\ ClusterLbas % Vol.bps = 0 /\ job.convert \in BOOLEAN
           /\ \A r \in Records : Range(Vol.runs[r]) \subseteq Vol.used \cup {Sparse}
BY JobsAssumption, VolumesAssumption DEF VolumeOk, Vol, Target, Records

\* The clusters of a volume are counted.
LEMMA TotalClustersInt == ASSUME job \in Jobs PROVE TotalClusters \in Int
<1>1. /\ Vol.size \in Nat /\ Vol.bps \in Nat \ {0} /\ ClusterLbas \in Nat \ {0}
    BY VolumeFacts
<1>2. Vol.size * ClusterLbas \in Int
    BY <1>1
<1>3. TotalSectors(Vol.size * ClusterLbas, Vol.bps) \in Int
    BY <1>1, <1>2, DivBound DEF TotalSectors
<1>4. TotalSectors(Vol.size * ClusterLbas, Vol.bps) * Vol.bps \in Int
    BY <1>1, <1>3
<1>5. ((TotalSectors(Vol.size * ClusterLbas, Vol.bps) * Vol.bps) \div ClusterLbas) \in Int
    BY <1>1, <1>4, DivBound
<1> QED BY <1>1, <1>5 DEF TotalClusters

\* A step that leaves volume and image alone, after the capture, keeps it.
LEMMA CaptureStays ==
    ASSUME CaptureInv, job' = job, captured' = captured, nextLcn' = nextLcn, marked' = marked,
           phase' = phase \/ (phase \notin {"plan", "bitmap"} /\ phase' \notin {"plan", "bitmap"})
    PROVE  CaptureInv'
<1>1. Vol' = Vol
    BY DEF Vol
<1>2. TotalClusters' = TotalClusters
    BY <1>1 DEF TotalClusters, IsKind
<1> QED BY <1>1, <1>2 DEF CaptureInv, CaptureIsWhole

\* No page, probe or fall-back of the capture skips a cluster in use.
LEMMA CaptureStep ==
    ASSUME CaptureInv, CaptureNext
    PROVE  CaptureInv'
<1> USE DEF Covering
<1>1. job \in Jobs /\ job' = job
    BY DEF CaptureInv, CaptureNext, PlanFat, PlanExfat, HeapPlan, PlanNtfs, PlanRefs, ReadBitmap,
           BitmapRejected, BitmapUnavailable
<1>2. Vol' = Vol
    BY <1>1 DEF Vol
<1>3. TotalClusters' = TotalClusters /\ TotalClusters \in Int
    BY <1>1, <1>2, TotalClustersInt DEF TotalClusters, IsKind
<1>4. Vol.used \subseteq Nat /\ Reserve \in Nat /\ PageClusters \in Nat
    BY <1>1, VolumeFacts
<1>5. nextLcn \in Nat
    BY DEF CaptureInv
<1>6. CASE PlanFat \/ PlanExfat
    <2>1. captured' = Covering(0..(Vol.head - 1) \cup Vol.used) /\ phase' = "fit" /\ nextLcn' = nextLcn
        BY <1>6 DEF PlanFat, PlanExfat, HeapPlan
    <2>2. Vol.used \subseteq captured'
        BY <2>1
    <2> QED BY <1>1, <1>2, <1>5, <2>1, <2>2 DEF CaptureInv, CaptureIsWhole
<1>7. CASE PlanNtfs \/ PlanRefs
    <2>1. /\ phase' = "bitmap" /\ nextLcn' = nextLcn /\ marked' = marked /\ phase = "plan"
          /\ Vol.fs \in {"ntfs", "refs"}
        BY <1>7 DEF PlanNtfs, PlanRefs, captureVars, IsKind
    <2>2. nextLcn = 0
        BY <2>1 DEF CaptureInv
    <2>3. \A c \in Vol.used : ~(c < nextLcn)
        BY <2>2, <1>4
    <2> QED BY <1>1, <1>2, <1>3, <1>5, <2>1, <2>3 DEF CaptureInv, CaptureIsWhole
<1>8. CASE ReadBitmap
    <2>1. PICK bytes \in 1..((TotalClusters - nextLcn + PageClusters - 1) \div PageClusters) :
            LET end == nextLcn + bytes * PageClusters
                seen == marked \cup (Vol.used \cap nextLcn..(end - 1) \cap 0..(TotalClusters - 1))
            IN  /\ marked' = seen
                /\ nextLcn' = end
                /\ IF LastPage(end)
                   THEN phase' = "fit" /\ captured' = Covering(seen)
                   ELSE UNCHANGED <<phase, captured>>
        BY <1>8 DEF ReadBitmap
    <2>2. bytes \in Nat
        BY <2>1
    <2>3. bytes * PageClusters \in Nat
        BY <2>2, <1>4
    <2> DEFINE end == nextLcn + bytes * PageClusters
    <2>4. end \in Nat
        BY <2>3, <1>5
    <2>5. /\ marked' = marked \cup (Vol.used \cap nextLcn..(end - 1) \cap 0..(TotalClusters - 1))
          /\ nextLcn' = end /\ phase = "bitmap" /\ phase' \in {"bitmap", "fit"}
          /\ phase' = "fit" => end + Reserve >= TotalClusters /\ marked' \subseteq captured'
        BY <2>1, <1>8 DEF ReadBitmap, LastPage
    <2> HIDE DEF end
    <2>6. \A c \in Vol.used : c < nextLcn /\ c < TotalClusters => c \in marked
        BY <2>5 DEF CaptureInv
    <2>7. ASSUME NEW c \in Vol.used, c < end, c < TotalClusters PROVE c \in marked'
        <3>1. c \in Nat
            BY <1>4
        <3>2. CASE c < nextLcn
            BY <3>2, <2>5, <2>6, <2>7
        <3>3. CASE ~(c < nextLcn)
            <4>1. c \in nextLcn..(end - 1) /\ c \in 0..(TotalClusters - 1)
                BY <3>1, <3>3, <2>4, <2>7, <1>3, <1>5
            <4> QED BY <4>1, <2>5
        <3> QED BY <3>2, <3>3
    <2>8. ASSUME phase' = "fit", NEW c \in Vol.used
          PROVE  c \in captured' \/ c + Reserve >= TotalClusters
        <3>1. c \in Nat /\ end + Reserve >= TotalClusters
            BY <1>4, <2>5, <2>8
        <3>2. c < end /\ c < TotalClusters => c \in captured'
            BY <2>5, <2>7, <2>8
        <3> QED BY <3>1, <3>2, <2>4, <1>3, <1>4
    <2>9. Vol.fs \in {"ntfs", "refs"}
        BY <2>5 DEF CaptureInv
    <2> QED BY <1>1, <1>2, <1>3, <2>4, <2>5, <2>7, <2>8, <2>9 DEF CaptureInv, CaptureIsWhole
<1>9. CASE BitmapRejected \/ BitmapUnavailable
    <2>1. /\ phase = "bitmap" /\ phase' = "fit" /\ nextLcn' = nextLcn
          /\ \/ nextLcn + Reserve >= TotalClusters /\ marked \subseteq captured'
             \/ 0..(TotalClusters - 1) \subseteq captured'
        BY <1>9 DEF BitmapRejected, BitmapUnavailable
    <2>2. /\ \A c \in Vol.used : c < nextLcn /\ c < TotalClusters => c \in marked
          /\ Vol.fs \in {"ntfs", "refs"}
        BY <2>1 DEF CaptureInv
    <2>3. ASSUME NEW c \in Vol.used PROVE c \in captured' \/ c + Reserve >= TotalClusters
        <3>1. c \in Nat
            BY <1>4
        <3>2. CASE c < TotalClusters
            <4>1. c \in 0..(TotalClusters - 1)
                BY <3>1, <3>2, <1>3
            <4>2. CASE c < nextLcn
                BY <4>1, <4>2, <2>1, <2>2, <3>1, <1>3, <1>4, <1>5
            <4>3. CASE ~(c < nextLcn)
                <5>1. nextLcn + Reserve >= TotalClusters => c + Reserve >= TotalClusters
                    BY <4>3, <3>1, <1>3, <1>4, <1>5
                <5> QED BY <5>1, <4>1, <2>1
            <4> QED BY <4>2, <4>3
        <3>3. CASE ~(c < TotalClusters)
            BY <3>1, <3>3, <1>3, <1>4
        <3> QED BY <3>2, <3>3
    <2> QED BY <1>1, <1>2, <1>3, <1>5, <2>1, <2>2, <2>3 DEF CaptureInv, CaptureIsWhole
<1> QED BY <1>6, <1>7, <1>8, <1>9 DEF CaptureNext

\* What every step of the planner leaves alone, and where it leads.
LEMMA PlanSteps ==
    ASSUME PlanNext
    PROVE  /\ job' = job /\ captured' = captured /\ nextLcn' = nextLcn /\ marked' = marked
           /\ phase \in {"fit", "place", "simulate", "replan"}
           /\ phase' \in {"place", "simulate", "replan", "stream", "refused", "bug"}
           /\ phase = "fit" =>
                 /\ place' = place
                 /\ \/ phase' = "refused"
                    \/ phase' = "place" /\ NtfsShrink /\ ~job.convert
                    \/ /\ phase' = "stream" /\ ~NtfsShrink
                       /\ Shrinking => ~IsKind("refs") /\ captured \subseteq 0..SafeMax
           /\ phase # "fit" /\ phase' = "stream" =>
                 Overflows = {} /\ place' = place /\ todo' = todo /\ rest' = rest
<1>1. CASE FitWithoutPlan \/ FitRefuses \/ FitPlans
    BY <1>1 DEF FitWithoutPlan, FitRefuses, FitPlans, Refuse, captureVars, planVars, NtfsShrink
<1>2. CASE PlacePiece \/ PlacedAll
    BY <1>2 DEF PlacePiece, PlacedAll, OutOfRoom, PutIn, captureVars
<1>3. CASE SimulateFits
    BY <1>3 DEF SimulateFits, captureVars, planVars
<1>4. CASE SimulateOverflows \/ SimulateGivesUp
    BY <1>4 DEF SimulateOverflows, SimulateGivesUp, Refuse, captureVars, planVars
<1>5. CASE ReplanWhole \/ ReplanEvicting \/ ReplanStuck \/ PassEnds
    BY <1>5 DEF ReplanWhole, ReplanEvicting, ReplanStuck, PassEnds, captureVars, planVars
<1> QED BY <1>1, <1>2, <1>3, <1>4, <1>5 DEF PlanNext

Rewriting == {"records", "bits", "log", "mirror", "pointers"}

\* And every step on the target.
LEMMA ImageSteps ==
    ASSUME ImageNext
    PROVE  /\ job' = job /\ captured' = captured /\ nextLcn' = nextLcn /\ marked' = marked
           /\ place' = place
           /\ phase \in {"stream", "size", "convert"} \cup Rewriting
           /\ phase' \in {"overflow", "failed", "size", "convert", "done"} \cup Rewriting
BY DEF ImageNext, Stream, RewriteRecords, DryRun, RewriteBitmap, StampLog, RewriteMirror,
       UpdatePointers, PatchNtfs, PatchFat, PatchExfat, Unconverted, ConvertOverflows, Convert,
       captureVars, planVars, Rewriting

\* The FSCTL bitmap and its paging, the FAT and exFAT chains: whatever the pages the
\* driver answers in, for any volume, the image has every cluster in use, save
\* among the last ones (Reserve) of an NTFS or ReFS volume.
THEOREM CaptureTheorem == Spec => []CaptureIsWhole
<1>1. Init => CaptureInv
    BY DEF Init, CaptureInv, CaptureIsWhole
<1>2. CaptureInv /\ [Next]_vars => CaptureInv'
    <2> SUFFICES ASSUME CaptureInv, [Next]_vars PROVE CaptureInv'
        OBVIOUS
    <2>1. CASE Capturing
        BY <2>1, CaptureStep DEF Capturing
    <2>2. CASE Planning
        BY <2>2, PlanSteps, CaptureStays DEF Planning
    <2>3. CASE ImageNext
        <3>1. phase \notin {"plan", "bitmap"} /\ phase' \notin {"plan", "bitmap"}
            BY <2>3, ImageSteps DEF Rewriting
        <3> QED BY <2>3, <3>1, ImageSteps, CaptureStays
    <2>4. CASE UNCHANGED vars
        BY <2>4, CaptureStays DEF vars, captureVars
    <2> QED BY <2>1, <2>2, <2>3, <2>4 DEF Next
<1>3. CaptureInv => CaptureIsWhole
    BY DEF CaptureInv
<1> QED BY <1>1, <1>2, <1>3, PTL DEF Spec

------------------------------------------------------------------------------
(* The boot sector describes its partition. *)

Unsized ==
    {"plan", "bitmap", "fit", "place", "simulate", "replan", "stream", "refused", "bug", "size"}
              \cup Rewriting
BootFields == {"bps", "spc", "total", "mft", "mirror"}
\* Sectors and clusters agree throughout; the size is the source's until it is
\* patched and the partition's from then on.
GeometryInv ==
    /\ job \in Jobs /\ DOMAIN boot = BootFields
    /\ boot.bps \in Nat \ {0} /\ boot.spc \in Int /\ boot.total \in Int
    /\ boot.spc * boot.bps = ClusterLbas
    /\ phase \in {"place", "simulate", "replan"} \cup Rewriting => NtfsShrink
    /\ phase \in Unsized => boot.bps = Vol.bps /\ boot.total = SourceBoot(Vol).total
    /\ (phase = "stream" /\ IsKind("refs")) => ~Shrinking
    /\ phase \in {"convert", "done"} =>
          /\ boot.total * boot.bps <= PartitionLbas
          /\ Vol.fs \in {"fat16", "fat32", "exfat"} => boot.total * boot.bps = PartitionLbas
    /\ phase = "done" => ~Convertible

\* The boot sector starts as the one of the source.
LEMMA GeometryInit == ASSUME Init PROVE GeometryInv
<1>1. job \in Jobs /\ phase = "plan" /\ boot = SourceBoot(Vol)
    BY DEF Init, Vol
<1>2. /\ Vol.size \in Nat /\ Vol.bps \in Nat \ {0} /\ ClusterLbas \in Nat \ {0}
      /\ ClusterLbas % Vol.bps = 0 /\ ClusterLbas \in Int
    BY <1>1, VolumeFacts
<1>3. (ClusterLbas \div Vol.bps) \in Int /\ (ClusterLbas \div Vol.bps) * Vol.bps = ClusterLbas
    BY <1>2, ModExact
<1>4. Vol.size * ClusterLbas \in Int
    BY <1>2
<1>5. ((Vol.size * ClusterLbas) \div Vol.bps) \in Int
    BY <1>2, <1>4, DivBound
<1>6. boot.bps = Vol.bps /\ boot.spc = ClusterLbas \div Vol.bps /\ boot.total \in Int
    BY <1>1, <1>5 DEF SourceBoot, TotalSectors
<1>7. DOMAIN boot = BootFields
    BY <1>1 DEF SourceBoot, BootFields
<1> QED BY <1>1, <1>2, <1>3, <1>6, <1>7 DEF GeometryInv, Rewriting

\* Whole clusters are whole sectors.
LEMMA WholeSectors ==
    ASSUME job \in Jobs, NEW n \in Nat
    PROVE  /\ ((n * ClusterLbas) \div Vol.bps) \in Int
           /\ ((n * ClusterLbas) \div Vol.bps) * Vol.bps = n * ClusterLbas
<1>1. /\ Vol.bps \in Nat \ {0} /\ ClusterLbas \in Nat \ {0} /\ ClusterLbas % Vol.bps = 0
      /\ ClusterLbas \in Int
    BY VolumeFacts
<1> DEFINE k == ClusterLbas \div Vol.bps
<1>2. k \in Int /\ k * Vol.bps = ClusterLbas
    BY <1>1, ModExact
<1> HIDE DEF k
<1>3. n * k \in Int
    BY <1>2
<1>4. n * (k * Vol.bps) = (n * k) * Vol.bps
    BY <1>1, <1>2, SMT
<1>5. n * ClusterLbas = (n * k) * Vol.bps
    BY <1>2, <1>4
<1>6. ((n * k) * Vol.bps) \div Vol.bps = n * k
    BY <1>1, <1>3, DivExact
<1> QED BY <1>3, <1>5, <1>6

\* What the patches of the size may leave: no more sectors than the partition has.
LEMMA SizeFits ==
    ASSUME job \in Jobs
    PROVE  /\ (PartitionLbas \div Vol.bps) \in Int
           /\ (PartitionLbas \div Vol.bps) * Vol.bps = PartitionLbas
           /\ TotalSectors(PartitionLbas, Vol.bps) \in Int
           /\ \A t \in Int : t <= TotalSectors(PartitionLbas, Vol.bps) => t * Vol.bps <= PartitionLbas
           /\ ~Shrinking => ((Vol.size * ClusterLbas) \div Vol.bps) * Vol.bps <= PartitionLbas
<1>1. /\ Vol.size \in Nat /\ Vol.bps \in Nat \ {0} /\ ClusterLbas \in Nat \ {0}
      /\ Target \in Nat \ {0}
    BY VolumeFacts
<1> DEFINE q == PartitionLbas \div Vol.bps
<1>2. q \in Int /\ q * Vol.bps = PartitionLbas
    BY <1>1, WholeSectors DEF PartitionLbas
<1>3. TotalSectors(PartitionLbas, Vol.bps) = q - 1
    BY DEF TotalSectors
<1> HIDE DEF q
<1>4. ASSUME NEW t \in Int, t <= q - 1 PROVE t * Vol.bps <= PartitionLbas
    <2>1. t <= q
        BY <1>2, <1>4
    <2> QED BY <2>1, <1>1, <1>2, TimesMonotone
<1>5. ASSUME ~Shrinking
      PROVE  ((Vol.size * ClusterLbas) \div Vol.bps) * Vol.bps <= PartitionLbas
    <2>1. Vol.size <= Target
        BY <1>1, <1>5 DEF Shrinking
    <2>2. Vol.size * ClusterLbas <= PartitionLbas
        BY <2>1, <1>1, TimesMonotone DEF PartitionLbas
    <2>3. Vol.size * ClusterLbas \in Int
        BY <1>1
    <2> QED BY <2>2, <1>1, WholeSectors
<1> QED BY <1>2, <1>3, <1>4, <1>5 DEF q

\* What the geometry is made of does not change.
LEMMA GeometryFrame ==
    ASSUME job' = job
    PROVE  /\ Vol' = Vol /\ Target' = Target /\ Shrinking' = Shrinking
           /\ NtfsShrink' = NtfsShrink /\ PartitionLbas' = PartitionLbas
           /\ SourceBoot(Vol)' = SourceBoot(Vol)
           /\ \A k : (Vol.fs = k)' = (Vol.fs = k)
           /\ IsKind("ntfs")' = IsKind("ntfs") /\ IsKind("refs")' = IsKind("refs")
BY DEF Vol, Target, Shrinking, NtfsShrink, PartitionLbas, SourceBoot, IsKind, TotalSectors

\* A step that leaves the boot sector alone, and does not come to the size.
LEMMA GeometryStays ==
    ASSUME GeometryInv, job' = job, boot' = boot,
           phase' \in {"place", "simulate", "replan"} \cup Rewriting => NtfsShrink,
           phase' \in Unsized => phase \in Unsized,
           (phase' = "stream" /\ IsKind("refs")) => ~Shrinking,
           phase' \in {"convert", "done"} => phase' = phase
    PROVE  GeometryInv'
BY GeometryFrame DEF GeometryInv, Convertible, IsKind

\* The size patches and the conversion keep the boot sector within the partition.
LEMMA GeometryStep ==
    ASSUME GeometryInv, [Next]_vars
    PROVE  GeometryInv'
<1>0. "bps" \in DOMAIN boot /\ "spc" \in DOMAIN boot /\ "total" \in DOMAIN boot
    BY DEF GeometryInv, BootFields
<1>1. CASE Capturing
    <2>1. /\ job' = job /\ boot' = boot
          /\ phase \in {"plan", "bitmap"} /\ phase' \in {"bitmap", "fit"}
        BY <1>1 DEF Capturing, imageVars, CaptureNext, PlanFat, PlanExfat, HeapPlan, PlanNtfs,
                    PlanRefs, ReadBitmap, BitmapRejected, BitmapUnavailable
    <2> QED BY <2>1, GeometryStays DEF Unsized, Rewriting
<1>2. CASE Planning
    <2>1. /\ job' = job /\ boot' = boot
          /\ phase \in {"fit", "place", "simulate", "replan"}
          /\ phase' \in {"place", "simulate", "replan", "stream", "refused", "bug"}
          /\ phase = "fit" => phase' = "refused" \/ NtfsShrink
                              \/ (phase' = "stream" /\ (Shrinking => ~IsKind("refs")))
        BY <1>2, PlanSteps DEF Planning, imageVars
    <2>2. phase # "fit" => NtfsShrink
        BY <2>1 DEF GeometryInv
    <2>3. NtfsShrink => ~IsKind("refs")
        BY DEF NtfsShrink, IsKind
    <2>4. (phase' = "stream" /\ IsKind("refs")) => ~Shrinking
        BY <2>1, <2>2, <2>3
    <2>5. phase' \in {"place", "simulate", "replan"} \cup Rewriting => NtfsShrink
        BY <2>1, <2>2 DEF Rewriting
    <2> QED BY <2>1, <2>4, <2>5, GeometryStays DEF Unsized, Rewriting
<1>3. CASE Stream
    <2>1. /\ job' = job /\ boot' = boot /\ phase = "stream"
          /\ phase' = IF IsKind("ntfs") THEN (IF Shrinking THEN "records" ELSE "size")
                      ELSE IF IsKind("refs") THEN "convert" ELSE "size"
        BY <1>3 DEF Stream
    <2>2. CASE IsKind("refs")
        <3>1. phase' = "convert"
            BY <2>1, <2>2 DEF IsKind
        <3>2. ~Shrinking /\ job \in Jobs /\ boot.bps = Vol.bps /\ boot.total = SourceBoot(Vol).total
            BY <2>1, <2>2 DEF GeometryInv, Unsized
        <3>3. boot.total = (Vol.size * ClusterLbas) \div Vol.bps
            BY <3>2, <2>2 DEF SourceBoot, IsKind
        <3>4. boot.total * boot.bps <= PartitionLbas
            BY <3>2, <3>3, SizeFits
        <3> QED BY <2>1, <2>2, <3>1, <3>2, <3>4, GeometryFrame DEF GeometryInv, IsKind, Unsized,
                   Rewriting
    <2>3. CASE ~IsKind("refs")
        <3>1. phase' \in {"records", "size"} /\ (phase' = "records" => NtfsShrink)
            BY <2>1, <2>3 DEF NtfsShrink
        <3> QED BY <2>1, <3>1, GeometryStays DEF Unsized, Rewriting
    <2> QED BY <2>2, <2>3
<1>4. CASE RewriteRecords \/ RewriteBitmap \/ StampLog \/ RewriteMirror
    <2>1. /\ job' = job /\ boot' = boot /\ phase \in Rewriting
          /\ phase' \in {"overflow", "bits", "log", "mirror", "pointers"}
        BY <1>4 DEF RewriteRecords, DryRun, RewriteBitmap, StampLog, RewriteMirror, Rewriting
    <2>2. NtfsShrink
        BY <2>1 DEF GeometryInv
    <2> QED BY <2>1, <2>2, GeometryStays DEF Unsized, Rewriting
<1>5. CASE UpdatePointers
    <2>1. /\ job' = job /\ phase = "pointers" /\ phase' = "size"
          /\ boot'.bps = boot.bps /\ boot'.spc = boot.spc /\ boot'.total = boot.total
          /\ DOMAIN boot' = DOMAIN boot
        BY <1>5, <1>0 DEF UpdatePointers, GeometryInv
    <2> QED BY <2>1, GeometryFrame DEF GeometryInv, Unsized, Rewriting
<1>6. CASE PatchNtfs
    <2>1. /\ job' = job /\ phase = "size" /\ phase' = "convert" /\ IsKind("ntfs")
          /\ IF TotalSectors(PartitionLbas, boot.bps) < boot.total
             THEN boot' = [boot EXCEPT !.total = TotalSectors(PartitionLbas, boot.bps)]
             ELSE boot' = boot
        BY <1>6 DEF PatchNtfs
    <2>2. boot.bps = Vol.bps /\ boot.total \in Int /\ job \in Jobs /\ boot.bps \in Nat \ {0}
        BY <2>1 DEF GeometryInv, Unsized
    <2>3. TotalSectors(PartitionLbas, boot.bps) \in Int
        BY <2>2, SizeFits
    <2>4. /\ boot'.bps = boot.bps /\ boot'.spc = boot.spc /\ DOMAIN boot' = DOMAIN boot
          /\ boot'.total \in Int /\ boot'.total <= TotalSectors(PartitionLbas, boot.bps)
        <3>1. CASE TotalSectors(PartitionLbas, boot.bps) < boot.total
            BY <3>1, <2>1, <2>2, <2>3, <1>0
        <3>2. CASE ~(TotalSectors(PartitionLbas, boot.bps) < boot.total)
            BY <3>2, <2>1, <2>2, <2>3
        <3> QED BY <3>1, <3>2
    <2>5. boot'.total * boot'.bps <= PartitionLbas
        BY <2>2, <2>4, SizeFits
    <2>6. Vol.fs \notin {"fat16", "fat32", "exfat"}
        BY <2>1 DEF IsKind
    <2> QED BY <2>1, <2>4, <2>5, <2>6, GeometryFrame DEF GeometryInv, Unsized, Rewriting, IsKind
<1>7. CASE PatchFat \/ PatchExfat
    <2>1. /\ job' = job /\ phase = "size" /\ phase' \in {"convert", "failed"}
          /\ Vol.fs \in {"fat16", "fat32", "exfat"}
          /\ \/ boot' = [boot EXCEPT !.total = PartitionLbas \div boot.bps]
             \/ boot' = boot /\ (phase' = "convert" => boot.total = PartitionLbas \div boot.bps)
        BY <1>7 DEF PatchFat, PatchExfat, IsKind
    <2>2. boot.bps = Vol.bps /\ boot.total \in Int /\ job \in Jobs /\ boot.bps \in Nat \ {0}
        BY <2>1 DEF GeometryInv, Unsized
    <2>3. /\ (PartitionLbas \div boot.bps) \in Int
          /\ (PartitionLbas \div boot.bps) * boot.bps = PartitionLbas
        BY <2>2, SizeFits
    <2>4. /\ boot'.bps = boot.bps /\ boot'.spc = boot.spc /\ boot'.total \in Int
          /\ DOMAIN boot' = DOMAIN boot
          /\ phase' = "convert" => boot'.total = PartitionLbas \div boot.bps
        BY <2>1, <2>2, <2>3, <1>0
    <2>5. phase' = "convert" => boot'.total * boot'.bps = PartitionLbas
        BY <2>3, <2>4
    <2>6. PartitionLbas <= PartitionLbas
        <3>1. PartitionLbas \in Int
            BY <2>2, VolumeFacts DEF PartitionLbas
        <3> QED BY <3>1
    <2> QED BY <2>1, <2>4, <2>5, <2>6, GeometryFrame DEF GeometryInv, Unsized, Rewriting
<1>8. CASE Unconverted \/ ConvertOverflows
    <2>1. job' = job /\ boot' = boot /\ phase = "convert" /\ (phase' = "done" => ~Convertible)
          /\ phase' \in {"done", "failed"}
        BY <1>8 DEF Unconverted, ConvertOverflows, imageVars
    <2> QED BY <2>1, GeometryFrame DEF GeometryInv, Convertible, Unsized, Rewriting
<1>9. CASE Convert
    <2>1. /\ job' = job /\ phase = "convert" /\ phase' = "done"
          /\ boot' = [boot EXCEPT !.bps = 1, !.spc = @ * boot.bps, !.total = @ * boot.bps]
        BY <1>9 DEF Convert
    <2>2. /\ boot'.bps = 1 /\ boot'.spc = boot.spc * boot.bps
          /\ boot'.total = boot.total * boot.bps /\ DOMAIN boot' = DOMAIN boot
        BY <2>1, <1>0
    <2>3. /\ boot.bps \in Nat \ {0} /\ boot.spc \in Int /\ boot.total \in Int
          /\ boot.spc * boot.bps = ClusterLbas /\ boot.total * boot.bps <= PartitionLbas
          /\ Vol.fs \in {"fat16", "fat32", "exfat"} => boot.total * boot.bps = PartitionLbas
        BY <2>1 DEF GeometryInv
    <2>4. boot.spc * boot.bps \in Int /\ boot.total * boot.bps \in Int
        BY <2>3
    <2>5. /\ boot'.spc * boot'.bps = boot.spc * boot.bps
          /\ boot'.total * boot'.bps = boot.total * boot.bps
        BY <2>2, <2>4
    <2>6. ~Convertible'
        BY <2>2 DEF Convertible
    <2> QED BY <2>1, <2>2, <2>3, <2>4, <2>5, <2>6, GeometryFrame DEF GeometryInv, Unsized, Rewriting
<1>10. CASE UNCHANGED vars
    <2>1. job' = job /\ boot' = boot /\ phase' = phase
        BY <1>10 DEF vars, imageVars
    <2> QED BY <2>1, GeometryFrame DEF GeometryInv, Convertible, IsKind
<1> QED BY <1>1, <1>2, <1>3, <1>4, <1>5, <1>6, <1>7, <1>8, <1>9, <1>10 DEF Next, ImageNext

\* The patches of the boot sector's size and the sector conversion, for every
\* volume, cluster and partition size: what a restore leaves describes the
\* partition, in whole sectors, with the clusters the volume had.
THEOREM GeometryTheorem == Spec => []GeometryMounts
<1>1. Init => GeometryInv
    BY GeometryInit
<1>2. GeometryInv /\ [Next]_vars => GeometryInv'
    BY GeometryStep
<1>3. GeometryInv => GeometryMounts
    BY DEF GeometryInv, GeometryMounts, Done, Convertible
<1> QED BY <1>1, <1>2, <1>3, PTL DEF Spec

------------------------------------------------------------------------------
(* The rewritten volume: where each cluster in use lies after the stream, and
   what the tables that name clusters say, phase by phase. *)

Untouched == {"plan", "bitmap", "fit", "place", "simulate", "replan", "stream", "refused", "bug"}
Pointed == {"size", "convert", "done"}
Mirrored == {"pointers"} \cup Pointed
Stamped == {"mirror"} \cup Mirrored
MarkedThen == {"log"} \cup Stamped
Recorded == {"bits"} \cup MarkedThen
OnTarget == {"records"} \cup Recorded

NewRuns == [r \in Records |-> Relocate(Vol.runs[r])]
NewBits == (Vol.used \cap 0..SafeMax) \cup Placed(place)

\* What lies where a cluster in use went, and what the size patch may have put there.
Content(s) ==
    IF NtfsShrink /\ phase \in Stamped /\ s \in Range(Vol.runs[Log]) THEN LogBlank
    ELSE IF NtfsShrink /\ phase \in Mirrored /\ s = Vol.runs[Mirror][1] THEN MirrorCopy
    ELSE s
Struck(s) ==
    /\ phase \in {"convert", "done"}
    /\ \/ NtfsShrink /\ Translate(s) = SafeMax
       \/ IsKind("fat16") /\ s = LabelCluster

DiskIs == \A s \in Vol.used : Struck(s) \/ disk[Translate(s)] = Content(s)
TablesAre ==
    /\ rec = IF NtfsShrink /\ phase \in Recorded THEN NewRuns ELSE Vol.runs
    /\ bits = IF NtfsShrink /\ phase \in MarkedThen THEN NewBits ELSE Vol.used
    /\ NtfsShrink /\ phase \in Mirrored => \A r \in DOMAIN mirror : mirror[r] = rec[r]
PointersAre ==
    IsKind("ntfs") =>
        IF NtfsShrink /\ phase \in Pointed
        THEN boot.mft = Translate(Vol.runs[Mft][1]) /\ boot.mirror = Translate(Vol.runs[Mirror][1])
        ELSE boot.mft = Vol.runs[Mft][1] /\ boot.mirror = Vol.runs[Mirror][1]

RebuildInv ==
    /\ DOMAIN disk = 0..SafeMax
    /\ DOMAIN mirror = Records \cap 0..(MirrorRecords - 1)
    /\ phase \in {"place", "simulate", "replan"} \cup Rewriting => NtfsShrink
    /\ NtfsShrink /\ phase \in {"stream", "records"} => Overflows = {}
    /\ phase # "overflow"
    /\ ~NtfsShrink => DOMAIN place = {}
    /\ NtfsShrink /\ phase \notin {"plan", "bitmap", "fit", "refused"} => ~job.convert
    /\ Shrinking /\ ~IsKind("ntfs") /\ phase \in {"stream"} \cup OnTarget =>
          captured \subseteq 0..SafeMax
    /\ phase \in Untouched => rec = Vol.runs /\ bits = Vol.used /\ boot = SourceBoot(Vol)
    /\ phase = "records" => rec = Vol.runs
    /\ IsKind("ntfs") /\ ~Shrinking /\ phase \in {"size", "convert"} =>
          boot.total = SourceBoot(Vol).total /\ boot.bps = Vol.bps
    /\ DOMAIN boot = BootFields
    /\ WholeImage /\ phase \in OnTarget => DiskIs /\ TablesAre /\ PointersAre

\* Every cluster of the image has a place of its own on the target.
Lands ==
    /\ \A s \in Vol.used : Translate(s) \in 0..SafeMax /\ Translate(Translate(s)) = Translate(s)
    /\ \A s, t \in captured : Translate(s) = Translate(t) => s = t

\* A sound plan for a whole image gives every cluster a place of its own.
LEMMA LandsWhole ==
    ASSUME SoundInv, RebuildInv, WholeImage, phase \in {"stream"} \cup OnTarget
    PROVE  Lands
<1>1. job \in Jobs
    BY DEF SoundInv
<1>2. /\ Target \in Nat \ {0} /\ SafeMax \in Nat /\ SafeMax = Target - 1
      /\ Above \subseteq Nat /\ FreeBelow \subseteq Nat
    BY <1>1, SetFacts DEF SoundInv, SafeMax
<1>3. Vol.used \subseteq 0..(Vol.size - 1) /\ Vol.size \in Nat
    BY <1>1, VolumeFacts
<1>4. captured \subseteq Nat
    BY DEF SoundInv, Bounded
<1>5. Vol.used \subseteq captured
    BY DEF WholeImage
<1>6. CASE NtfsShrink
    <2>1. Planned
        BY <1>6 DEF Planned, NtfsShrink, OnTarget, Recorded, MarkedThen, Stamped, Mirrored, Pointed
    <2>2. Sound /\ phase # "place" /\ phase # "refused"
        BY <2>1 DEF SoundInv, OnTarget, Recorded, MarkedThen, Stamped, Mirrored, Pointed
    <2>3. DOMAIN place = Above /\ MapOk(place)
        BY <2>2 DEF Sound, Working, Covered, Unplaced
    <2>4. \A s \in captured : s \in Above <=> s > SafeMax
        BY DEF Above
    <2>5. \A s \in captured \ Above : s \in Kept /\ s \in 0..SafeMax /\ Translate(s) = s
        BY <1>2, <1>4, <2>3, <2>4 DEF Kept, Translate
    <2>6. \A s \in Above : Translate(s) = place[s] /\ place[s] \in FreeBelow
        BY <2>3 DEF MapOk, Translate
    <2>7. \A c \in FreeBelow : c \in 0..SafeMax /\ c \notin Kept /\ Translate(c) = c
        <3>1. \A c \in 0..SafeMax : ~(c > SafeMax)
            BY <1>2
        <3> QED BY <3>1, <2>3 DEF FreeBelow, Translate, Above
    <2>8. \A s \in captured : Translate(s) \in 0..SafeMax /\ Translate(Translate(s)) = Translate(s)
        BY <2>5, <2>6, <2>7
    <2>9. ASSUME NEW s \in captured, NEW t \in captured, Translate(s) = Translate(t) PROVE s = t
        <3>1. CASE s \in Above /\ t \in Above
            BY <3>1, <2>3, <2>6, <2>9 DEF MapOk
        <3>2. CASE s \in Above /\ t \notin Above
            BY <3>2, <2>5, <2>6, <2>7, <2>9
        <3>3. CASE s \notin Above /\ t \in Above
            BY <3>3, <2>5, <2>6, <2>7, <2>9
        <3>4. CASE s \notin Above /\ t \notin Above
            BY <3>4, <2>5, <2>9
        <3> QED BY <3>1, <3>2, <3>3, <3>4
    <2> QED BY <2>8, <2>9, <1>5 DEF Lands
<1>7. CASE ~NtfsShrink
    <2>1. \A c : Translate(c) = c
        BY <1>7 DEF RebuildInv, Translate
    <2>2. Vol.used \subseteq 0..SafeMax
        <3>1. CASE Shrinking
            BY <3>1, <1>5, <1>7 DEF RebuildInv, NtfsShrink
        <3>2. CASE ~Shrinking
            BY <3>2, <1>2, <1>3 DEF Shrinking
        <3> QED BY <3>1, <3>2
    <2> QED BY <2>1, <2>2 DEF Lands
<1> QED BY <1>6, <1>7

\* What the assumptions say of an NTFS volume.
LEMMA NtfsFacts ==
    ASSUME job \in Jobs, IsKind("ntfs")
    PROVE  /\ {Mft, Mirror, Log, Bits} \subseteq Records /\ Records \subseteq Nat
           /\ Vol.used = {Boot} \cup ((UNION {Range(Vol.runs[r]) : r \in Records}) \ {Sparse})
           /\ Vol.used \subseteq 0..(Vol.size - 2) /\ Sparse \notin Vol.used
           /\ \A r, q \in Records : r # q =>
                 Range(Vol.runs[r]) \cap Range(Vol.runs[q]) \subseteq {Sparse}
           /\ \A r \in Records : r \div RecordsPerCluster + 1 \in DOMAIN Vol.runs[Mft]
           /\ 1 \in DOMAIN Vol.runs[Mft] /\ DOMAIN Vol.runs[Mirror] = {1}
           /\ Sparse \notin Range(Vol.runs[Mft]) /\ Vol.runs[Mirror][1] \in Vol.used
           /\ \A r \in Records : \A i \in DOMAIN Vol.runs[r] :
                 Vol.runs[r][i] = Sparse \/ Vol.runs[r][i] \in Vol.used
           /\ \A k \in DOMAIN Vol.runs[Mft] : Vol.runs[Mft][k] \in Vol.used
<1>1. NtfsOk(Vol)
    BY VolumesAssumption DEF Vol, IsKind
<1>2. {Mft, Mirror, Log, Bits} \subseteq Records /\ Records \subseteq Nat
    BY <1>1 DEF NtfsOk, Records
<1>3. Vol.used = {Boot} \cup ((UNION {Range(Vol.runs[r]) : r \in Records}) \ {Sparse})
    BY <1>1 DEF NtfsOk, Records
<1>4. Vol.used \subseteq 0..(Vol.size - 2) /\ Vol.size \in Nat
    BY <1>1, VolumeFacts DEF NtfsOk
<1>5. Sparse \notin Vol.used
    BY <1>4 DEF Sparse
<1>6. \A r, q \in Records : r # q => Range(Vol.runs[r]) \cap Range(Vol.runs[q]) \subseteq {Sparse}
    BY <1>1 DEF NtfsOk, Records
<1>7. \A r \in Records : r \div RecordsPerCluster + 1 \in DOMAIN Vol.runs[Mft]
    BY <1>1 DEF NtfsOk, Records
<1>8. 0 \div RecordsPerCluster = 0
    BY MirrorAssumption, DivUnique
<1>9. 1 \in DOMAIN Vol.runs[Mft]
    BY <1>2, <1>7, <1>8 DEF Mft
<1>10. DOMAIN Vol.runs[Mirror] = {1} /\ Sparse \notin Range(Vol.runs[Mft]) \cup Range(Vol.runs[Mirror])
    BY <1>1 DEF NtfsOk
<1>11. \A r \in Records : \A i \in DOMAIN Vol.runs[r] :
          Vol.runs[r][i] = Sparse \/ Vol.runs[r][i] \in Vol.used
    <2>1. \A r \in Records : Range(Vol.runs[r]) \subseteq Vol.used \cup {Sparse}
        BY VolumeFacts
    <2>2. ASSUME NEW r \in Records, NEW i \in DOMAIN Vol.runs[r]
          PROVE  Vol.runs[r][i] \in Range(Vol.runs[r])
        BY DEF Range
    <2> QED BY <2>1, <2>2
<1>12. Vol.runs[Mirror][1] \in Vol.used
    BY <1>2, <1>10, <1>11 DEF Range
<1>13. \A k \in DOMAIN Vol.runs[Mft] : Vol.runs[Mft][k] \in Vol.used
    BY <1>2, <1>10, <1>11 DEF Range
<1> QED BY <1>2, <1>3, <1>4, <1>5, <1>6, <1>7, <1>9, <1>10, <1>11, <1>12, <1>13

\* A run list relocated twice is as relocated once; what it names afterwards are
\* the places of its clusters.
LEMMA RelocatedOnce ==
    ASSUME job \in Jobs, IsKind("ntfs"), Lands, NEW r \in Records
    PROVE  /\ DOMAIN Relocate(Vol.runs[r]) = DOMAIN Vol.runs[r]
           /\ \A i \in DOMAIN Vol.runs[r] :
                 Relocate(Vol.runs[r])[i] = IF Vol.runs[r][i] = Sparse THEN Sparse
                                            ELSE Translate(Vol.runs[r][i])
           /\ Relocate(Relocate(Vol.runs[r])) = Relocate(Vol.runs[r])
           /\ Range(Relocate(Vol.runs[r])) \ {Sparse} =
                 {Translate(s) : s \in Range(Vol.runs[r]) \ {Sparse}}
<1> DEFINE x == Vol.runs[r]
           y == Relocate(x)
<1>1. /\ DOMAIN y = DOMAIN x
      /\ \A i \in DOMAIN x : y[i] = IF x[i] = Sparse THEN Sparse ELSE Translate(x[i])
    BY DEF Relocate
<1>2. \A i \in DOMAIN x : x[i] = Sparse \/ x[i] \in Vol.used
    BY NtfsFacts
<1>3. Sparse \notin 0..SafeMax
    BY DEF Sparse
<1> HIDE DEF x
<1>4. \A s \in Vol.used : Translate(s) # Sparse /\ Translate(Translate(s)) = Translate(s)
    BY <1>3 DEF Lands
<1>5. Relocate(y) = [i \in DOMAIN y |-> IF y[i] = Sparse THEN Sparse ELSE Translate(y[i])]
    BY DEF Relocate
<1>6. \A i \in DOMAIN x : (IF y[i] = Sparse THEN Sparse ELSE Translate(y[i])) = y[i]
    BY <1>1, <1>2, <1>4
<1>7. y = [i \in DOMAIN x |-> y[i]]
    BY DEF Relocate
<1> HIDE DEF y
<1>8. Relocate(y) = y
    BY <1>1, <1>5, <1>6, <1>7
<1>9. Range(y) \ {Sparse} = {Translate(s) : s \in Range(x) \ {Sparse}}
    <2>1. ASSUME NEW c \in Range(y) \ {Sparse} PROVE \E s \in Range(x) \ {Sparse} : c = Translate(s)
        BY <1>1, <2>1 DEF Range
    <2>2. ASSUME NEW s \in Range(x) \ {Sparse} PROVE Translate(s) \in Range(y) \ {Sparse}
        <3>1. PICK i \in DOMAIN x : s = x[i]
            BY DEF Range
        <3>2. y[i] = Translate(s) /\ i \in DOMAIN y /\ Translate(s) # Sparse
            BY <3>1, <1>1, <1>2, <1>4
        <3> QED BY <3>2 DEF Range
    <2> QED BY <2>1, <2>2
<1> QED BY <1>1, <1>8, <1>9 DEF x, y

\* The MFT can be read through record 0 as long as its clusters are where they went.
LEMMA AllReadable ==
    ASSUME SoundInv, RebuildInv, WholeImage, phase \in Rewriting, NEW r \in Records
    PROVE  Readable(r)
<1>1. job \in Jobs
    BY DEF SoundInv
<1>2. phase \in OnTarget /\ NtfsShrink /\ IsKind("ntfs")
    BY DEF RebuildInv, NtfsShrink, Rewriting, OnTarget, Recorded, MarkedThen, Stamped, Mirrored
<1>3. Lands /\ DiskIs /\ TablesAre /\ DOMAIN disk = 0..SafeMax
    BY <1>2, LandsWhole DEF RebuildInv
<1>4. Mft \in Records
    BY <1>1, <1>2, NtfsFacts
<1>5. rec[Mft] = Vol.runs[Mft] \/ rec[Mft] = Relocate(Vol.runs[Mft])
    BY <1>3, <1>4 DEF TablesAre, NewRuns
<1>6. TargetMft = Relocate(Vol.runs[Mft])
    BY <1>1, <1>2, <1>3, <1>4, <1>5, RelocatedOnce DEF TargetMft
<1> DEFINE k == r \div RecordsPerCluster + 1
           m == Vol.runs[Mft][k]
<1>7. k \in DOMAIN Vol.runs[Mft] /\ m \in Vol.used /\ m # Sparse
    BY <1>1, <1>2, NtfsFacts
<1>8. k \in DOMAIN TargetMft /\ TargetMft[k] = Translate(m)
    <2> HIDE DEF k
    <2> QED BY <1>1, <1>2, <1>3, <1>4, <1>6, <1>7, RelocatedOnce
<1>9. m \in Range(Vol.runs[Mft]) /\ Mft # Log /\ Mft # Mirror /\ Log \in Records /\ Mirror \in Records
    BY <1>1, <1>2, <1>7, NtfsFacts DEF Range, Mft, Log, Mirror
<1>10. m \notin Range(Vol.runs[Log]) /\ m # Vol.runs[Mirror][1]
    <2>1. Vol.runs[Mirror][1] \in Range(Vol.runs[Mirror])
        BY <1>1, <1>2, NtfsFacts DEF Range
    <2>2. \A q \in Records : q # Mft => m \notin Range(Vol.runs[q])
        <3> HIDE DEF m
        <3> QED BY <1>1, <1>2, <1>4, <1>7, <1>9, NtfsFacts
    <2> QED BY <2>1, <2>2, <1>9
<1> HIDE DEF m
<1>11. Content(m) = m /\ ~Struck(m)
    BY <1>10 DEF Content, Struck, Rewriting
<1>12. disk[Translate(m)] = m /\ Translate(m) \in DOMAIN disk
    BY <1>3, <1>7, <1>11 DEF DiskIs, Lands
<1> QED BY <1>8, <1>12 DEF Readable, Holds, m

\* Before anything is written the target has nothing to account for.
LEMMA RebuildInit == ASSUME Init PROVE RebuildInv
<1>1. /\ job \in Jobs /\ phase = "plan" /\ boot = SourceBoot(Vol) /\ rec = Vol.runs
      /\ bits = Vol.used /\ DOMAIN place = {} /\ DOMAIN disk = 0..SafeMax
      /\ DOMAIN mirror = Records \cap 0..(MirrorRecords - 1)
    BY DEF Init, Vol, SafeMax, Target, Records
<1>2. DOMAIN boot = BootFields
    BY <1>1 DEF SourceBoot, BootFields
<1> QED BY <1>1, <1>2 DEF RebuildInv, Rewriting, OnTarget, Recorded, MarkedThen, Stamped,
           Mirrored, Pointed, Untouched

\* What the rebuilt volume is described by, as long as image and plan stay.
LEMMA RebuildFrame ==
    ASSUME job' = job, captured' = captured
    PROVE  /\ Vol' = Vol /\ Target' = Target /\ SafeMax' = SafeMax /\ Shrinking' = Shrinking
           /\ NtfsShrink' = NtfsShrink /\ Records' = Records /\ WholeImage' = WholeImage
           /\ SourceBoot(Vol)' = SourceBoot(Vol)
           /\ IsKind("ntfs")' = IsKind("ntfs") /\ IsKind("fat16")' = IsKind("fat16")
           /\ place' = place => /\ \A c : (Translate(c))' = Translate(c)
                                /\ NewRuns' = NewRuns /\ NewBits' = NewBits
                                /\ Overflows' = Overflows
<1>1. Vol' = Vol /\ Target' = Target /\ SafeMax' = SafeMax /\ Records' = Records
    BY DEF Vol, Target, SafeMax, Records
<1>2. Shrinking' = Shrinking /\ IsKind("ntfs")' = IsKind("ntfs") /\ IsKind("fat16")' = IsKind("fat16")
    BY <1>1 DEF Shrinking, IsKind
<1>3. NtfsShrink' = NtfsShrink /\ WholeImage' = WholeImage
    BY <1>1, <1>2 DEF NtfsShrink, WholeImage
<1>4. SourceBoot(Vol)' = SourceBoot(Vol)
    BY <1>1 DEF SourceBoot, TotalSectors
<1>5. ASSUME place' = place
      PROVE  /\ \A c : (Translate(c))' = Translate(c)
             /\ NewRuns' = NewRuns /\ NewBits' = NewBits /\ Overflows' = Overflows
    <2>1. \A c : (Translate(c))' = Translate(c)
        BY <1>5 DEF Translate
    <2>2. NewRuns' = NewRuns
        BY <1>1, <1>5 DEF NewRuns, Relocate, Translate
    <2>3. NewBits' = NewBits
        BY <1>1, <1>5 DEF NewBits, Placed
    <2>4. Overflows' = Overflows
        BY <1>1, <1>5 DEF Overflows, NeededRuns, Translate
    <2> QED BY <2>1, <2>2, <2>3, <2>4
<1> QED BY <1>1, <1>2, <1>3, <1>4, <1>5

\* Capture and planning touch nothing on the target.
LEMMA RebuildEarly ==
    ASSUME SoundInv, RebuildInv, Capturing \/ Planning
    PROVE  RebuildInv'
<1>1. UNCHANGED imageVars /\ job' = job
    BY PlanSteps DEF Capturing, Planning, CaptureNext, PlanFat, PlanExfat, HeapPlan, PlanNtfs,
                     PlanRefs, ReadBitmap, BitmapRejected, BitmapUnavailable
<1>2. /\ disk' = disk /\ rec' = rec /\ bits' = bits /\ mirror' = mirror /\ boot' = boot
    BY <1>1 DEF imageVars
<1>3. /\ Vol' = Vol /\ SafeMax' = SafeMax /\ Records' = Records /\ NtfsShrink' = NtfsShrink
      /\ SourceBoot(Vol)' = SourceBoot(Vol) /\ Shrinking' = Shrinking
      /\ IsKind("ntfs")' = IsKind("ntfs")
    BY <1>1 DEF Vol, SafeMax, Target, Records, NtfsShrink, Shrinking, IsKind, SourceBoot, TotalSectors
<1>4. CASE Capturing
    <2>1. /\ phase \in {"plan", "bitmap"} /\ phase' \in {"bitmap", "fit"} /\ place' = place
        BY <1>4 DEF Capturing, planVars, CaptureNext, PlanFat, PlanExfat, HeapPlan, PlanNtfs,
                    PlanRefs, ReadBitmap, BitmapRejected, BitmapUnavailable
    <2> QED BY <1>1, <1>2, <1>3, <2>1 DEF RebuildInv, Rewriting, OnTarget, Recorded, MarkedThen,
               Stamped, Mirrored, Pointed, Untouched
<1>5. CASE Planning
    <2>1. /\ captured' = captured /\ phase \in {"fit", "place", "simulate", "replan"}
          /\ phase' \in {"place", "simulate", "replan", "stream", "refused", "bug"}
          /\ phase = "fit" =>
                /\ place' = place
                /\ \/ phase' = "refused"
                   \/ phase' = "place" /\ NtfsShrink /\ ~job.convert
                   \/ /\ phase' = "stream" /\ ~NtfsShrink
                      /\ Shrinking => ~IsKind("refs") /\ captured \subseteq 0..SafeMax
          /\ phase # "fit" /\ phase' = "stream" => Overflows = {} /\ place' = place
        BY <1>5, PlanSteps DEF Planning
    <2>2. phase # "fit" => NtfsShrink /\ ~job.convert
        BY <2>1 DEF RebuildInv
    <2>3. /\ NtfsShrink /\ phase' = "stream" => Overflows' = {}
          /\ ~NtfsShrink => DOMAIN place' = {}
          /\ NtfsShrink /\ phase' # "refused" => ~job.convert
          /\ Shrinking /\ ~IsKind("ntfs") /\ phase' = "stream" => captured \subseteq 0..SafeMax
          /\ phase' \in {"place", "simulate", "replan"} => NtfsShrink
        BY <2>1, <2>2, <1>1, RebuildFrame DEF RebuildInv, NtfsShrink
    <2>4. /\ phase \in Untouched /\ phase' \in Untouched
          /\ phase' \notin {"plan", "bitmap", "fit"} \cup Rewriting \cup OnTarget
          /\ phase' \notin {"records", "size", "convert", "overflow"}
        BY <2>1 DEF Untouched, Rewriting, OnTarget, Recorded, MarkedThen, Stamped, Mirrored, Pointed
    <2> QED BY <1>1, <1>2, <1>3, <2>1, <2>3, <2>4 DEF RebuildInv
<1> QED BY <1>4, <1>5

\* The stream puts every cluster of the image to its place.
LEMMA RebuildStream ==
    ASSUME SoundInv, RebuildInv, Stream
    PROVE  RebuildInv'
<1>1. /\ job' = job /\ captured' = captured /\ place' = place /\ phase = "stream"
      /\ rec' = rec /\ bits' = bits /\ mirror' = mirror /\ boot' = boot
      /\ disk' = [c \in DOMAIN disk |->
                     IF LandingOn(c) = {} THEN disk[c] ELSE LastOf(LandingOn(c))]
      /\ phase' = IF IsKind("ntfs") THEN (IF Shrinking THEN "records" ELSE "size")
                  ELSE IF IsKind("refs") THEN "convert" ELSE "size"
    BY DEF Stream, captureVars, planVars
<1>2. /\ Vol' = Vol /\ SafeMax' = SafeMax /\ Records' = Records /\ NtfsShrink' = NtfsShrink
      /\ SourceBoot(Vol)' = SourceBoot(Vol) /\ Shrinking' = Shrinking
      /\ IsKind("ntfs")' = IsKind("ntfs") /\ WholeImage' = WholeImage /\ Overflows' = Overflows
      /\ \A c : (Translate(c))' = Translate(c)
    BY <1>1, RebuildFrame
<1>3. /\ phase' \in {"records", "size", "convert"} /\ phase' \in OnTarget
      /\ phase' \notin Stamped \ {"size", "convert"}
      /\ NtfsShrink <=> phase' = "records"
      /\ phase' \notin Untouched /\ phase' \notin {"place", "simulate", "replan", "overflow"}
      /\ phase' \in Rewriting => phase' = "records"
      /\ IsKind("ntfs") => phase' # "convert"
      /\ phase' # "records" => ~NtfsShrink
    BY <1>1 DEF OnTarget, Recorded, MarkedThen, Stamped, Mirrored, Pointed, Untouched, Rewriting,
                NtfsShrink
<1>4. rec = Vol.runs /\ bits = Vol.used /\ boot = SourceBoot(Vol) /\ DOMAIN disk = 0..SafeMax
    BY <1>1 DEF RebuildInv, Untouched
<1>5. DOMAIN disk' = 0..SafeMax
    BY <1>1, <1>4
<1>6. ASSUME WholeImage PROVE DiskIs' /\ TablesAre' /\ PointersAre'
    <2>1. Lands /\ Vol.used \subseteq captured
        BY <1>1, <1>6, LandsWhole DEF WholeImage
    <2>2. ASSUME NEW s \in Vol.used PROVE disk'[Translate(s)] = s
        <3>1. Translate(s) \in DOMAIN disk
            BY <2>1, <1>4 DEF Lands
        <3>2. LandingOn(Translate(s)) = {s}
            BY <2>1 DEF Lands, LandingOn
        <3>3. s \in Int
            BY VolumeFacts DEF SoundInv
        <3>4. LastOf({s}) = s
            BY <3>3 DEF LastOf
        <3> QED BY <3>1, <3>2, <3>4, <1>1
    <2>3. \A s : (Content(s))' = s
        BY <1>2, <1>3 DEF Content, Stamped, Mirrored, Pointed
    <2>4. DiskIs'
        BY <2>2, <2>3, <1>2 DEF DiskIs
    <2>5. TablesAre'
        BY <1>1, <1>2, <1>3, <1>4 DEF TablesAre, Recorded, MarkedThen, Stamped, Mirrored, Pointed
    <2>6. PointersAre'
        BY <1>1, <1>2, <1>3, <1>4 DEF PointersAre, Pointed, SourceBoot, IsKind
    <2> QED BY <2>4, <2>5, <2>6
<1>7. /\ ~NtfsShrink => DOMAIN place = {} 
      /\ NtfsShrink => ~job.convert
      /\ NtfsShrink => Overflows = {}
      /\ Shrinking /\ ~IsKind("ntfs") => captured \subseteq 0..SafeMax
      /\ DOMAIN mirror = Records \cap 0..(MirrorRecords - 1) /\ DOMAIN boot = BootFields
    BY <1>1 DEF RebuildInv
<1>8. boot.total = SourceBoot(Vol).total /\ boot.bps = Vol.bps
    BY <1>4 DEF SourceBoot
<1> QED BY <1>1, <1>2, <1>3, <1>4, <1>5, <1>6, <1>7, <1>8 DEF RebuildInv

\* Where a run list lies on the target: only its own clusters' places.
LEMMA NamedPlaces ==
    ASSUME job \in Jobs, IsKind("ntfs"), WholeImage, Lands, NEW r \in Records,
           rec[r] = Relocate(Vol.runs[r])
    PROVE  /\ NamedBy(r) = {Translate(s) : s \in Range(Vol.runs[r]) \ {Sparse}}
           /\ \A s \in Vol.used : Translate(s) \in NamedBy(r) <=> s \in Range(Vol.runs[r])
<1>1. NamedBy(r) = {Translate(s) : s \in Range(Vol.runs[r]) \ {Sparse}}
    BY RelocatedOnce DEF NamedBy
<1>2. Range(Vol.runs[r]) \ {Sparse} \subseteq Vol.used /\ Vol.used \subseteq captured
    BY VolumeFacts DEF WholeImage
<1>3. Sparse \notin Vol.used
    BY NtfsFacts
<1>4. ASSUME NEW s \in Vol.used
      PROVE  Translate(s) \in NamedBy(r) <=> s \in Range(Vol.runs[r])
    <2>1. s # Sparse
        BY <1>3
    <2>2. ASSUME NEW t \in Range(Vol.runs[r]) \ {Sparse}, Translate(s) = Translate(t) PROVE s = t
        BY <1>2, <2>2 DEF Lands
    <2> QED BY <1>1, <2>1, <2>2
<1> QED BY <1>1, <1>4

\* A step of the rewrite keeps what does not depend on the image being whole.
LEMMA RewriteKeeps ==
    ASSUME RebuildInv, job' = job, captured' = captured, place' = place,
           phase \in Rewriting, phase' \in {"bits", "log", "mirror", "pointers", "size"},
           DOMAIN disk' = DOMAIN disk, DOMAIN mirror' = DOMAIN mirror, DOMAIN boot' = DOMAIN boot,
           WholeImage => DiskIs' /\ TablesAre' /\ PointersAre'
    PROVE  RebuildInv'
<1>1. /\ Vol' = Vol /\ SafeMax' = SafeMax /\ Records' = Records /\ NtfsShrink' = NtfsShrink
      /\ SourceBoot(Vol)' = SourceBoot(Vol) /\ Shrinking' = Shrinking
      /\ IsKind("ntfs")' = IsKind("ntfs") /\ WholeImage' = WholeImage
    BY RebuildFrame
<1>2. NtfsShrink /\ ~job.convert
    BY DEF RebuildInv, Rewriting
<1>3. IsKind("ntfs") /\ Shrinking
    BY <1>2 DEF NtfsShrink
<1>4. phase' \notin Untouched /\ phase' \notin {"records", "stream", "overflow"}
    BY DEF Untouched
<1>5. /\ DOMAIN disk = 0..SafeMax /\ DOMAIN mirror = Records \cap 0..(MirrorRecords - 1)
      /\ DOMAIN boot = BootFields
    BY DEF RebuildInv
<1> QED BY <1>1, <1>2, <1>3, <1>4, <1>5 DEF RebuildInv

\* What holds at every step of the rewrite of a whole image.
LEMMA RewriteFacts ==
    ASSUME SoundInv, RebuildInv, WholeImage, phase \in Rewriting
    PROVE  /\ job \in Jobs /\ IsKind("ntfs") /\ Shrinking /\ NtfsShrink
           /\ Lands /\ DiskIs /\ TablesAre /\ PointersAre
           /\ DOMAIN disk = 0..SafeMax /\ DOMAIN mirror \subseteq Records
           /\ \A s \in Vol.used : disk[Translate(s)] = Content(s)
           /\ \A r \in Records : Readable(r)
<1>1. phase \in OnTarget
    BY DEF Rewriting, OnTarget, Recorded, MarkedThen, Stamped, Mirrored
<1>2. job \in Jobs /\ NtfsShrink /\ IsKind("ntfs") /\ Shrinking
    BY DEF SoundInv, RebuildInv, NtfsShrink, Rewriting
<1>3. Lands /\ DiskIs /\ TablesAre /\ PointersAre
    BY <1>1, LandsWhole DEF RebuildInv
<1>4. \A s : ~Struck(s)
    BY DEF Struck, Rewriting
<1>5. DOMAIN disk = 0..SafeMax /\ DOMAIN mirror \subseteq Records
    BY DEF RebuildInv
<1> QED BY <1>1, <1>2, <1>3, <1>4, <1>5, AllReadable DEF DiskIs

\* Rewriting the records relocates every run list once, and only moved lists change.
LEMMA RebuildRecords ==
    ASSUME SoundInv, RebuildInv, RewriteRecords
    PROVE  RebuildInv'
<1>1. /\ job' = job /\ captured' = captured /\ place' = place /\ phase = "records"
      /\ disk' = disk /\ bits' = bits /\ mirror' = mirror /\ boot' = boot
      /\ DryRun([r \in Records |-> IF Readable(r) THEN Relocate(rec[r]) ELSE rec[r]])
    BY DEF RewriteRecords, captureVars, planVars
<1>2. Overflows = {} /\ rec = Vol.runs /\ NtfsShrink
    BY <1>1 DEF RebuildInv, Rewriting
<1>3. Outgrown = {}
    BY <1>2 DEF Outgrown, Overflows
<1>4. phase' = "bits" /\ rec' = [r \in Records |-> IF Readable(r) THEN Relocate(rec[r]) ELSE rec[r]]
    BY <1>1, <1>3 DEF DryRun
<1>5. phase \in Rewriting
    BY <1>1 DEF Rewriting
<1>6. ASSUME WholeImage PROVE DiskIs' /\ TablesAre' /\ PointersAre'
    <2>1. /\ DiskIs /\ TablesAre /\ PointersAre /\ \A r \in Records : Readable(r)
        BY <1>5, <1>6, RewriteFacts
    <2>2. rec' = NewRuns
        BY <2>1, <1>2, <1>4 DEF NewRuns
    <2>3. /\ Vol' = Vol /\ SafeMax' = SafeMax /\ NtfsShrink' = NtfsShrink /\ NewRuns' = NewRuns
          /\ IsKind("ntfs")' = IsKind("ntfs") /\ IsKind("fat16")' = IsKind("fat16")
          /\ \A c : (Translate(c))' = Translate(c)
        BY <1>1, RebuildFrame
    <2>4. \A s : (Content(s))' = Content(s) /\ Struck(s)' = Struck(s)
        BY <1>1, <1>4, <2>3 DEF Content, Struck, Stamped, Mirrored, Pointed
    <2>5. DiskIs'
        BY <1>1, <2>1, <2>3, <2>4 DEF DiskIs
    <2>6. TablesAre'
        BY <1>1, <1>2, <1>4, <2>1, <2>2, <2>3
           DEF TablesAre, Recorded, MarkedThen, Stamped, Mirrored, Pointed
    <2>7. PointersAre'
        BY <1>1, <1>4, <2>1, <2>3 DEF PointersAre, Pointed
    <2> QED BY <2>5, <2>6, <2>7
<1> QED BY <1>1, <1>4, <1>5, <1>6, RewriteKeeps

\* Rewriting $Bitmap marks the places the plan gave.
LEMMA RebuildBitmap ==
    ASSUME SoundInv, RebuildInv, RewriteBitmap
    PROVE  RebuildInv'
<1>1. /\ job' = job /\ captured' = captured /\ place' = place /\ phase = "bits" /\ phase' = "log"
      /\ disk' = disk /\ rec' = rec /\ mirror' = mirror /\ boot' = boot
      /\ bits' = IF Readable(Bits) THEN (bits \cap 0..SafeMax) \cup Placed(place) ELSE bits
    BY DEF RewriteBitmap, captureVars, planVars
<1>2. phase \in Rewriting
    BY <1>1 DEF Rewriting
<1>3. ASSUME WholeImage PROVE DiskIs' /\ TablesAre' /\ PointersAre'
    <2>1. /\ job \in Jobs /\ IsKind("ntfs") /\ NtfsShrink
          /\ DiskIs /\ TablesAre /\ PointersAre /\ \A r \in Records : Readable(r)
        BY <1>2, <1>3, RewriteFacts
    <2>2. Readable(Bits)
        BY <2>1, NtfsFacts
    <2>3. bits = Vol.used /\ bits' = NewBits
        BY <1>1, <2>1, <2>2 DEF TablesAre, NewBits, MarkedThen, Stamped, Mirrored, Pointed
    <2>4. /\ Vol' = Vol /\ SafeMax' = SafeMax /\ NtfsShrink' = NtfsShrink /\ NewRuns' = NewRuns
          /\ IsKind("ntfs")' = IsKind("ntfs") /\ IsKind("fat16")' = IsKind("fat16")
          /\ NewBits' = NewBits /\ \A c : (Translate(c))' = Translate(c)
        BY <1>1, RebuildFrame
    <2>5. \A s : (Content(s))' = Content(s) /\ Struck(s)' = Struck(s)
        BY <1>1, <2>4 DEF Content, Struck, Stamped, Mirrored, Pointed
    <2>6. DiskIs'
        BY <1>1, <2>1, <2>4, <2>5 DEF DiskIs
    <2>7. TablesAre'
        BY <1>1, <2>1, <2>3, <2>4 DEF TablesAre, Recorded, MarkedThen, Stamped, Mirrored, Pointed
    <2>8. PointersAre'
        BY <1>1, <2>1, <2>4 DEF PointersAre, Pointed
    <2> QED BY <2>6, <2>7, <2>8
<1> QED BY <1>1, <1>2, <1>3, RewriteKeeps

\* Stamping $LogFile overwrites no place but its own.
LEMMA RebuildLog ==
    ASSUME SoundInv, RebuildInv, StampLog
    PROVE  RebuildInv'
<1>1. /\ job' = job /\ captured' = captured /\ place' = place /\ phase = "log" /\ phase' = "mirror"
      /\ rec' = rec /\ bits' = bits /\ mirror' = mirror /\ boot' = boot
      /\ disk' = [c \in DOMAIN disk |->
                     IF Readable(Log) /\ c \in NamedBy(Log) THEN LogBlank ELSE disk[c]]
    BY DEF StampLog, captureVars, planVars
<1>2. phase \in Rewriting
    BY <1>1 DEF Rewriting
<1>3. ASSUME WholeImage PROVE DiskIs' /\ TablesAre' /\ PointersAre'
    <2>1. /\ job \in Jobs /\ IsKind("ntfs") /\ NtfsShrink /\ Lands
          /\ DOMAIN disk = 0..SafeMax /\ TablesAre /\ PointersAre
          /\ \A s \in Vol.used : disk[Translate(s)] = Content(s)
          /\ \A r \in Records : Readable(r)
        BY <1>2, <1>3, RewriteFacts
    <2>2. Log \in Records /\ Readable(Log)
        BY <2>1, NtfsFacts
    <2>3. rec[Log] = Relocate(Vol.runs[Log])
        BY <1>1, <2>1, <2>2 DEF TablesAre, NewRuns, Recorded, MarkedThen
    <2>4. \A s \in Vol.used : Translate(s) \in NamedBy(Log) <=> s \in Range(Vol.runs[Log])
        BY <1>3, <2>1, <2>2, <2>3, NamedPlaces
    <2>5. /\ Vol' = Vol /\ SafeMax' = SafeMax /\ NtfsShrink' = NtfsShrink /\ NewRuns' = NewRuns
          /\ IsKind("ntfs")' = IsKind("ntfs") /\ IsKind("fat16")' = IsKind("fat16")
          /\ NewBits' = NewBits /\ \A c : (Translate(c))' = Translate(c)
        BY <1>1, RebuildFrame
    <2>6. /\ \A s : Content(s) = s
          /\ \A s : (Content(s))' = IF s \in Range(Vol.runs[Log]) THEN LogBlank ELSE s
        BY <1>1, <2>1, <2>5 DEF Content, Stamped, Mirrored, Pointed
    <2>7. \A s \in Vol.used : disk'[Translate(s)] = (Content(s))'
        <3>1. \A s \in Vol.used : Translate(s) \in DOMAIN disk
            BY <2>1 DEF Lands
        <3> QED BY <1>1, <2>1, <2>2, <2>4, <2>6, <3>1
    <2>8. DiskIs'
        BY <2>5, <2>7 DEF DiskIs
    <2>9. TablesAre'
        BY <1>1, <2>1, <2>5 DEF TablesAre, Recorded, MarkedThen, Stamped, Mirrored, Pointed
    <2>10. PointersAre'
        BY <1>1, <2>1, <2>5 DEF PointersAre, Pointed
    <2> QED BY <2>8, <2>9, <2>10
<1>4. DOMAIN disk' = DOMAIN disk
    BY <1>1
<1> QED BY <1>1, <1>2, <1>3, <1>4, RewriteKeeps

\* Copying the first records into $MFTMirr overwrites no place but its own.
LEMMA RebuildMirror ==
    ASSUME SoundInv, RebuildInv, RewriteMirror
    PROVE  RebuildInv'
<1>1. /\ job' = job /\ captured' = captured /\ place' = place
      /\ phase = "mirror" /\ phase' = "pointers"
      /\ rec' = rec /\ bits' = bits /\ boot' = boot
      /\ mirror' = [r \in DOMAIN mirror |-> IF Readable(r) THEN rec[r] ELSE mirror[r]]
      /\ disk' = IF Translate(boot.mirror) \in DOMAIN disk
                 THEN [disk EXCEPT ![Translate(boot.mirror)] = MirrorCopy] ELSE disk
    BY DEF RewriteMirror, captureVars, planVars
<1>2. phase \in Rewriting
    BY <1>1 DEF Rewriting
<1>3. ASSUME WholeImage PROVE DiskIs' /\ TablesAre' /\ PointersAre'
    <2>1. /\ job \in Jobs /\ IsKind("ntfs") /\ NtfsShrink /\ Lands
          /\ DOMAIN disk = 0..SafeMax /\ TablesAre /\ PointersAre /\ DOMAIN mirror \subseteq Records
          /\ \A s \in Vol.used : disk[Translate(s)] = Content(s)
          /\ \A r \in Records : Readable(r)
        BY <1>2, <1>3, RewriteFacts
    <2> DEFINE m == Vol.runs[Mirror][1]
    <2>2. boot.mirror = m /\ m \in Vol.used /\ Vol.used \subseteq captured
        BY <1>1, <1>3, <2>1, NtfsFacts DEF PointersAre, Pointed, WholeImage
    <2>3. m \notin Range(Vol.runs[Log])
        <3>1. m \in Range(Vol.runs[Mirror]) /\ m # Sparse
            BY <2>1, NtfsFacts DEF Range
        <3>2. Mirror \in Records /\ Log \in Records /\ Mirror # Log
            BY <2>1, NtfsFacts DEF Mirror, Log
        <3> HIDE DEF m
        <3> QED BY <2>1, <3>1, <3>2, NtfsFacts
    <2>4. /\ Vol' = Vol /\ SafeMax' = SafeMax /\ NtfsShrink' = NtfsShrink /\ NewRuns' = NewRuns
          /\ IsKind("ntfs")' = IsKind("ntfs") /\ IsKind("fat16")' = IsKind("fat16")
          /\ NewBits' = NewBits /\ \A c : (Translate(c))' = Translate(c)
        BY <1>1, RebuildFrame
    <2>5. /\ \A s : Content(s) = IF s \in Range(Vol.runs[Log]) THEN LogBlank ELSE s
          /\ \A s : (Content(s))' = IF s \in Range(Vol.runs[Log]) THEN LogBlank
                                    ELSE IF s = m THEN MirrorCopy ELSE s
        BY <1>1, <2>1, <2>4 DEF Content, Stamped, Mirrored, Pointed
    <2> HIDE DEF m
    <2>6. Translate(m) \in DOMAIN disk
        BY <2>1, <2>2 DEF Lands
    <2>7. ASSUME NEW s \in Vol.used PROVE disk'[Translate(s)] = (Content(s))'
        <3>1. Translate(s) \in DOMAIN disk
            BY <2>1 DEF Lands
        <3>2. disk' = [disk EXCEPT ![Translate(m)] = MirrorCopy]
            BY <1>1, <2>2, <2>6
        <3>3. CASE s = m
            BY <3>2, <3>3, <2>3, <2>5, <2>6
        <3>4. CASE s # m
            <4>1. Translate(s) # Translate(m)
                BY <3>4, <2>1, <2>2 DEF Lands
            <4>2. disk'[Translate(s)] = disk[Translate(s)]
                BY <3>1, <3>2, <4>1
            <4> QED BY <4>2, <3>4, <2>1, <2>5
        <3> QED BY <3>3, <3>4
    <2>8. DiskIs'
        BY <2>4, <2>7 DEF DiskIs
    <2>9. \A r \in DOMAIN mirror' : mirror'[r] = rec'[r]
        BY <1>1, <2>1
    <2>10. TablesAre'
        BY <1>1, <2>1, <2>4, <2>9 DEF TablesAre, Recorded, MarkedThen, Stamped, Mirrored, Pointed
    <2>11. PointersAre'
        BY <1>1, <2>1, <2>4 DEF PointersAre, Pointed
    <2> QED BY <2>8, <2>10, <2>11
<1>4. DOMAIN disk' = DOMAIN disk /\ DOMAIN mirror' = DOMAIN mirror
    BY <1>1
<1> QED BY <1>1, <1>2, <1>3, <1>4, RewriteKeeps

\* The boot sector pointers follow the table and its mirror to their places.
LEMMA RebuildPointers ==
    ASSUME SoundInv, RebuildInv, UpdatePointers
    PROVE  RebuildInv'
<1>1. /\ job' = job /\ captured' = captured /\ place' = place
      /\ phase = "pointers" /\ phase' = "size"
      /\ rec' = rec /\ bits' = bits /\ mirror' = mirror /\ disk' = disk
      /\ boot' = [boot EXCEPT !.mft = Translate(@), !.mirror = Translate(@)]
    BY DEF UpdatePointers, captureVars, planVars
<1>2. phase \in Rewriting
    BY <1>1 DEF Rewriting
<1>3. "mft" \in DOMAIN boot /\ "mirror" \in DOMAIN boot
    BY DEF RebuildInv, BootFields
<1>4. /\ boot'.mft = Translate(boot.mft) /\ boot'.mirror = Translate(boot.mirror)
      /\ DOMAIN boot' = DOMAIN boot
    BY <1>1, <1>3
<1>5. ASSUME WholeImage PROVE DiskIs' /\ TablesAre' /\ PointersAre'
    <2>1. /\ NtfsShrink /\ DiskIs /\ TablesAre /\ PointersAre
          /\ \A s \in Vol.used : disk[Translate(s)] = Content(s)
        BY <1>2, <1>5, RewriteFacts
    <2>2. /\ Vol' = Vol /\ SafeMax' = SafeMax /\ NtfsShrink' = NtfsShrink /\ NewRuns' = NewRuns
          /\ IsKind("ntfs")' = IsKind("ntfs") /\ IsKind("fat16")' = IsKind("fat16")
          /\ NewBits' = NewBits /\ \A c : (Translate(c))' = Translate(c)
        BY <1>1, RebuildFrame
    <2>3. \A s : (Content(s))' = Content(s)
        BY <1>1, <2>2 DEF Content, Stamped, Mirrored, Pointed
    <2>4. DiskIs'
        BY <1>1, <2>1, <2>2, <2>3 DEF DiskIs
    <2>5. TablesAre'
        BY <1>1, <2>1, <2>2 DEF TablesAre, Recorded, MarkedThen, Stamped, Mirrored, Pointed
    <2>6. PointersAre'
        BY <1>1, <1>4, <2>1, <2>2 DEF PointersAre, Pointed
    <2> QED BY <2>4, <2>5, <2>6
<1> QED BY <1>1, <1>2, <1>4, <1>5, RewriteKeeps

\* A step of the size or of the sectors keeps what it does not touch.
LEMMA TailKeeps ==
    ASSUME RebuildInv, job' = job, captured' = captured, place' = place,
           rec' = rec, bits' = bits, mirror' = mirror,
           phase \in {"size", "convert"}, phase' \in {"convert", "done", "failed"},
           DOMAIN disk' = DOMAIN disk, DOMAIN boot' = DOMAIN boot,
           boot'.mft = boot.mft, boot'.mirror = boot.mirror,
           IsKind("ntfs") /\ ~Shrinking /\ phase' = "convert" =>
               boot'.total = boot.total /\ boot'.bps = boot.bps,
           WholeImage /\ phase' # "failed" => DiskIs'
    PROVE  RebuildInv'
<1>1. /\ Vol' = Vol /\ SafeMax' = SafeMax /\ Records' = Records /\ NtfsShrink' = NtfsShrink
      /\ SourceBoot(Vol)' = SourceBoot(Vol) /\ Shrinking' = Shrinking
      /\ IsKind("ntfs")' = IsKind("ntfs") /\ WholeImage' = WholeImage
      /\ NewRuns' = NewRuns /\ NewBits' = NewBits /\ \A c : (Translate(c))' = Translate(c)
    BY RebuildFrame
<1>2. /\ phase \in OnTarget /\ phase \in Pointed /\ phase \in Mirrored /\ phase \in MarkedThen
      /\ phase \in Recorded
    BY DEF OnTarget, Recorded, MarkedThen, Stamped, Mirrored, Pointed
<1>3. /\ phase' \in OnTarget => phase' # "failed"
      /\ phase' # "failed" => phase' \in Pointed /\ phase' \in Mirrored /\ phase' \in MarkedThen
                               /\ phase' \in Recorded
      /\ phase' \notin Untouched /\ phase' \notin Rewriting \cup {"place", "simulate", "replan"}
      /\ phase' \notin {"records", "stream", "overflow", "size"}
    BY DEF OnTarget, Recorded, MarkedThen, Stamped, Mirrored, Pointed, Untouched, Rewriting
<1>4. ASSUME WholeImage, phase' # "failed" PROVE TablesAre' /\ PointersAre'
    <2>1. TablesAre /\ PointersAre
        BY <1>2, <1>4 DEF RebuildInv
    <2>2. TablesAre'
        BY <1>1, <1>2, <1>3, <1>4, <2>1 DEF TablesAre
    <2>3. PointersAre'
        BY <1>1, <1>2, <1>3, <1>4, <2>1 DEF PointersAre
    <2> QED BY <2>2, <2>3
<1>5. /\ DOMAIN disk = 0..SafeMax /\ DOMAIN mirror = Records \cap 0..(MirrorRecords - 1)
      /\ DOMAIN boot = BootFields /\ ~NtfsShrink => DOMAIN place = {}
      /\ NtfsShrink => ~job.convert
      /\ Shrinking /\ ~IsKind("ntfs") => captured \subseteq 0..SafeMax
      /\ IsKind("ntfs") /\ ~Shrinking => boot.total = SourceBoot(Vol).total /\ boot.bps = Vol.bps
    BY <1>2 DEF RebuildInv
<1> QED BY <1>1, <1>3, <1>4, <1>5 DEF RebuildInv

\* What lies on the target does not change in the tail, save where the size patch writes.
LEMMA TailDisk ==
    ASSUME SoundInv, RebuildInv, WholeImage, job' = job, captured' = captured, place' = place,
           phase \in {"size", "convert"}, phase' \in {"convert", "done"},
           \A s \in Vol.used : (Struck(s))' \/ disk'[Translate(s)] = disk[Translate(s)]
    PROVE  DiskIs'
<1>1. /\ Vol' = Vol /\ SafeMax' = SafeMax /\ NtfsShrink' = NtfsShrink
      /\ IsKind("ntfs")' = IsKind("ntfs") /\ IsKind("fat16")' = IsKind("fat16")
      /\ \A c : (Translate(c))' = Translate(c)
    BY RebuildFrame
<1>2. DiskIs
    BY DEF RebuildInv, OnTarget, Recorded, MarkedThen, Stamped, Mirrored, Pointed
<1>3. \A s : (Content(s))' = Content(s)
    BY <1>1 DEF Content, Stamped, Mirrored, Pointed
<1>4. \A s : Struck(s) => (Struck(s))'
    BY <1>1 DEF Struck
<1> QED BY <1>1, <1>2, <1>3, <1>4 DEF DiskIs

\* An NTFS volume that does not shrink keeps its size: the partition has as many
\* sectors at least.
LEMMA KeepsSize ==
    ASSUME job \in Jobs, IsKind("ntfs"), ~Shrinking
    PROVE  /\ SourceBoot(Vol).total \in Int
           /\ ~(TotalSectors(PartitionLbas, Vol.bps) < SourceBoot(Vol).total)
<1>1. /\ Vol.size \in Nat /\ Vol.bps \in Nat \ {0} /\ ClusterLbas \in Nat \ {0}
      /\ Target \in Nat \ {0}
    BY VolumeFacts
<1> DEFINE p == (Vol.size * ClusterLbas) \div Vol.bps
           q == PartitionLbas \div Vol.bps
<1>2. p \in Int /\ p * Vol.bps = Vol.size * ClusterLbas
    BY <1>1, WholeSectors
<1>3. q \in Int /\ q * Vol.bps = PartitionLbas
    BY <1>1, WholeSectors DEF PartitionLbas
<1>4. Vol.size <= Target
    BY <1>1 DEF Shrinking
<1>5. Vol.size * ClusterLbas <= PartitionLbas
    BY <1>1, <1>4, TimesMonotone DEF PartitionLbas
<1>6. SourceBoot(Vol).total = p - 1 /\ TotalSectors(PartitionLbas, Vol.bps) = q - 1
    BY DEF SourceBoot, IsKind, TotalSectors
<1> HIDE DEF p, q
<1>7. p * Vol.bps < q * Vol.bps + Vol.bps
    <2>1. p * Vol.bps \in Int /\ q * Vol.bps \in Int
        BY <1>1, <1>2, <1>3
    <2> QED BY <1>1, <1>2, <1>3, <1>5, <2>1
<1>8. p <= q
    BY <1>1, <1>2, <1>3, <1>7, MultiplesOrdered
<1> QED BY <1>2, <1>3, <1>6, <1>8

\* The size patch overwrites at most the last cluster, and the label of a FAT16 volume.
LEMMA RebuildSize ==
    ASSUME SoundInv, RebuildInv, PatchNtfs \/ PatchFat \/ PatchExfat
    PROVE  RebuildInv'
<1>1. /\ job' = job /\ captured' = captured /\ place' = place /\ phase = "size"
      /\ phase' \in {"convert", "failed"} /\ rec' = rec /\ bits' = bits /\ mirror' = mirror
    BY DEF PatchNtfs, PatchFat, PatchExfat, captureVars, planVars
<1>2. job \in Jobs /\ DOMAIN boot = BootFields /\ DOMAIN disk = 0..SafeMax
    BY DEF SoundInv, RebuildInv
<1>3. SafeMax \in Nat
    BY <1>2, SetFacts DEF SoundInv
<1>4. WholeImage => Lands
    BY <1>1, LandsWhole DEF OnTarget, Recorded, MarkedThen, Stamped, Mirrored, Pointed
<1>5. /\ SafeMax' = SafeMax /\ NtfsShrink' = NtfsShrink /\ IsKind("fat16")' = IsKind("fat16")
      /\ \A c : (Translate(c))' = Translate(c)
    BY <1>1, RebuildFrame
<1>9. phase' = "convert" => \A s : (Struck(s))' <=>
          (NtfsShrink /\ Translate(s) = SafeMax) \/ (IsKind("fat16") /\ s = LabelCluster)
    BY <1>5 DEF Struck
<1>6. /\ DOMAIN boot' = DOMAIN boot /\ boot'.mft = boot.mft /\ boot'.mirror = boot.mirror
      /\ DOMAIN disk' = DOMAIN disk
    <2>1. boot' = boot \/ \E t : boot' = [boot EXCEPT !.total = t]
        BY DEF PatchNtfs, PatchFat, PatchExfat
    <2>2. disk' = disk \/ \E c : disk' = [disk EXCEPT ![c] = BootCopy]
        BY DEF PatchNtfs, PatchFat, PatchExfat
    <2>3. DOMAIN disk' = DOMAIN disk
        BY <2>2
    <2>4. "mft" \in DOMAIN boot /\ "mirror" \in DOMAIN boot
        BY <1>2 DEF BootFields
    <2>5. DOMAIN boot' = DOMAIN boot /\ boot'.mft = boot.mft /\ boot'.mirror = boot.mirror
        BY <2>1, <2>4
    <2> QED BY <2>3, <2>5
<1>7. CASE PatchNtfs
    <2>1. IsKind("ntfs") /\ phase' = "convert"
        BY <1>7 DEF PatchNtfs
    <2>2. ASSUME ~Shrinking PROVE boot' = boot /\ disk' = disk
        <3>1. boot.total = SourceBoot(Vol).total /\ boot.bps = Vol.bps
            BY <1>1, <2>1, <2>2 DEF RebuildInv
        <3>2. ~(TotalSectors(PartitionLbas, boot.bps) < boot.total)
            BY <1>2, <2>1, <2>2, <3>1, KeepsSize
        <3> QED BY <1>7, <3>2 DEF PatchNtfs
    <2>3. ASSUME WholeImage PROVE DiskIs'
        <3>1. ASSUME NEW s \in Vol.used
              PROVE  (Struck(s))' \/ disk'[Translate(s)] = disk[Translate(s)]
            <4>1. CASE ~Shrinking
                BY <4>1, <2>2
            <4>2. CASE Shrinking /\ Translate(s) = SafeMax
                <5>1. NtfsShrink
                    BY <4>2, <2>1 DEF NtfsShrink
                <5> QED BY <5>1, <4>2, <2>1, <1>9
            <4>3. CASE Translate(s) # SafeMax
                <5>1. Translate(s) \in DOMAIN disk
                    BY <1>2, <1>4, <2>3 DEF Lands
                <5> QED BY <5>1, <4>3, <1>7 DEF PatchNtfs
            <4> QED BY <4>1, <4>2, <4>3
        <3> QED BY <1>1, <2>1, <2>3, <3>1, TailDisk
    <2> QED BY <1>1, <1>6, <2>1, <2>2, <2>3, TailKeeps
<1>8. CASE PatchFat \/ PatchExfat
    <2>1. /\ ~IsKind("ntfs")
          /\ disk' = disk \/ (IsKind("fat16") /\ disk' = [disk EXCEPT ![LabelCluster] = BootCopy])
        BY <1>8 DEF PatchFat, PatchExfat, IsKind
    <2>2. \A s : Translate(s) = s
        BY <2>1 DEF RebuildInv, NtfsShrink, Translate
    <2>3. ASSUME WholeImage, phase' # "failed" PROVE DiskIs'
        <3>1. phase' = "convert"
            BY <1>1, <2>3
        <3>2. ASSUME NEW s \in Vol.used
              PROVE  (Struck(s))' \/ disk'[Translate(s)] = disk[Translate(s)]
            <4>1. s \in DOMAIN disk
                BY <1>2, <1>4, <2>2, <2>3 DEF Lands
            <4> QED BY <4>1, <2>1, <2>2, <3>1, <1>9
        <3> QED BY <1>1, <2>3, <3>1, <3>2, TailDisk
    <2> QED BY <1>1, <1>6, <2>1, <2>3, TailKeeps
<1> QED BY <1>7, <1>8

\* The last sector counted before a conversion lies behind all clusters in use.
LEMMA SpareBehind ==
    ASSUME job \in Jobs, IsKind("ntfs"), NEW t, t = SourceBoot(Vol).total
    PROVE  /\ (t * Vol.bps) \div ClusterLbas = Vol.size - 1
           /\ Vol.size - 1 \notin Vol.used
<1>1. /\ Vol.size \in Nat /\ Vol.bps \in Nat \ {0} /\ ClusterLbas \in Nat \ {0}
      /\ ClusterLbas \in Int /\ ClusterLbas % Vol.bps = 0
    BY VolumeFacts
<1>2. Vol.used \subseteq 0..(Vol.size - 2)
    BY NtfsFacts
<1> DEFINE p == (Vol.size * ClusterLbas) \div Vol.bps
           k == ClusterLbas \div Vol.bps
           n == Vol.size - 1
<1>3. p \in Int /\ p * Vol.bps = Vol.size * ClusterLbas
    BY <1>1, WholeSectors
<1>4. k \in Int /\ k * Vol.bps = ClusterLbas
    BY <1>1, ModExact
<1>5. t = p - 1
    BY DEF SourceBoot, IsKind, TotalSectors
<1>6. n \in Int /\ Vol.size = n + 1
    BY <1>1
<1> HIDE DEF p, k, n
<1>7. 0 * Vol.bps < k * Vol.bps
    BY <1>1, <1>4
<1>8. Vol.bps <= ClusterLbas
    <2>1. k >= 1
        <3>1. ~(k <= 0)
            <4>1. ASSUME k <= 0 PROVE FALSE
                <5>1. k * Vol.bps <= 0 * Vol.bps
                    BY <4>1, <1>1, <1>4, TimesMonotone
                <5> QED BY <5>1, <1>1, <1>4
            <4> QED BY <4>1
        <3> QED BY <3>1, <1>4
    <2>2. 1 * Vol.bps <= k * Vol.bps
        BY <2>1, <1>1, <1>4, TimesMonotone
    <2> QED BY <2>2, <1>1, <1>4
<1>9. t * Vol.bps = p * Vol.bps - Vol.bps
    BY <1>1, <1>3, <1>5, SMT
<1>10. Vol.size * ClusterLbas = n * ClusterLbas + ClusterLbas
    BY <1>1, <1>6, SMT
<1>11. n * ClusterLbas \in Int /\ p * Vol.bps \in Int /\ t * Vol.bps \in Int
    BY <1>1, <1>3, <1>5, <1>6
<1>12. n * ClusterLbas <= t * Vol.bps /\ t * Vol.bps < n * ClusterLbas + ClusterLbas
    BY <1>1, <1>3, <1>8, <1>9, <1>10, <1>11
<1>13. (t * Vol.bps) \div ClusterLbas = n
    BY <1>1, <1>6, <1>11, <1>12, DivUnique
<1> QED BY <1>1, <1>2, <1>13 DEF n

\* The conversion of the sectors overwrites no cluster in use.
LEMMA RebuildConvert ==
    ASSUME SoundInv, RebuildInv, Unconverted \/ ConvertOverflows \/ Convert
    PROVE  RebuildInv'
<1>1. /\ job' = job /\ captured' = captured /\ place' = place /\ phase = "convert"
      /\ phase' \in {"done", "failed"} /\ rec' = rec /\ bits' = bits /\ mirror' = mirror
    BY DEF Unconverted, ConvertOverflows, Convert, captureVars, planVars, imageVars
<1>2. job \in Jobs /\ DOMAIN boot = BootFields /\ DOMAIN disk = 0..SafeMax
    BY DEF SoundInv, RebuildInv
<1>3. CASE Unconverted \/ ConvertOverflows
    <2>1. boot' = boot /\ disk' = disk
        BY <1>3 DEF Unconverted, ConvertOverflows, imageVars
    <2>2. WholeImage /\ phase' # "failed" => DiskIs'
        BY <1>1, <2>1, TailDisk
    <2> QED BY <1>1, <2>1, <2>2, TailKeeps
<1>4. CASE Convert
    <2>1. /\ boot' = [boot EXCEPT !.bps = 1, !.spc = @ * boot.bps, !.total = @ * boot.bps]
          /\ disk' = IF IsKind("ntfs")
                     THEN [disk EXCEPT ![(boot.total * boot.bps) \div ClusterLbas] = BootCopy] ELSE disk
          /\ job.convert /\ phase' = "done"
        BY <1>4 DEF Convert, Convertible
    <2>2. DOMAIN boot' = DOMAIN boot /\ boot'.mft = boot.mft /\ boot'.mirror = boot.mirror
        BY <2>1
    <2>3. DOMAIN disk' = DOMAIN disk
        BY <2>1
    <2>4. ASSUME WholeImage PROVE DiskIs'
        <3>1. ~NtfsShrink
            BY <1>1, <2>1 DEF RebuildInv
        <3>2. \A s : Translate(s) = s
            BY <3>1 DEF RebuildInv, Translate
        <3>3. CASE IsKind("ntfs")
            <4>1. boot.total = SourceBoot(Vol).total /\ boot.bps = Vol.bps
                BY <1>1, <3>1, <3>3 DEF RebuildInv, NtfsShrink
            <4>2. ((boot.total * boot.bps) \div ClusterLbas) \notin Vol.used
                BY <1>2, <3>3, <4>1, SpareBehind
            <4>3. \A s \in Vol.used : disk'[Translate(s)] = disk[Translate(s)]
                BY <2>1, <3>2, <3>3, <4>2
            <4> QED BY <1>1, <2>1, <2>4, <4>3, TailDisk
        <3>4. CASE ~IsKind("ntfs")
            BY <1>1, <2>1, <2>4, <3>4, TailDisk
        <3> QED BY <3>3, <3>4
    <2> QED BY <1>1, <2>1, <2>2, <2>3, <2>4, TailKeeps
<1> QED BY <1>3, <1>4

\* Where the planner left the last cluster free, the size patch strikes nothing.
LEMMA NotStruck ==
    ASSUME SoundInv, RebuildInv, WholeImage, NtfsShrink, LastClusterFree, phase = "done",
           NEW s \in Vol.used
    PROVE  ~Struck(s)
<1>1. Planned
    BY DEF Planned, NtfsShrink
<1>2. DOMAIN place = Above
    BY <1>1 DEF SoundInv, Sound, Working, Covered, Unplaced
<1>3. s \in captured /\ SafeMax \notin Kept \cup Placed(place) /\ ~IsKind("fat16")
    BY DEF WholeImage, LastClusterFree, NtfsShrink, IsKind
<1>4. Translate(s) \in Kept \cup Placed(place)
    BY <1>2, <1>3 DEF Translate, Kept, Placed
<1> QED BY <1>3, <1>4 DEF Struck

\* The number a FAT16 boot sector shows in the place of a backup sector is that of
\* no cluster in use.
LabelOutside == \A j \in Jobs : LabelCluster \notin j.vol.used

\* Every step of capture, plan, stream, rewrite and tail keeps the accounting.
LEMMA RebuildStep ==
    ASSUME SoundInv, RebuildInv, [Next]_vars
    PROVE  RebuildInv'
<1>1. CASE Capturing \/ Planning
    BY <1>1, RebuildEarly
<1>2. CASE Stream
    BY <1>2, RebuildStream
<1>3. CASE RewriteRecords
    BY <1>3, RebuildRecords
<1>4. CASE RewriteBitmap
    BY <1>4, RebuildBitmap
<1>5. CASE StampLog
    BY <1>5, RebuildLog
<1>6. CASE RewriteMirror
    BY <1>6, RebuildMirror
<1>7. CASE UpdatePointers
    BY <1>7, RebuildPointers
<1>8. CASE PatchNtfs \/ PatchFat \/ PatchExfat
    BY <1>8, RebuildSize
<1>9. CASE Unconverted \/ ConvertOverflows \/ Convert
    BY <1>9, RebuildConvert
<1>10. CASE UNCHANGED vars
    <2>1. /\ job' = job /\ captured' = captured /\ place' = place /\ phase' = phase
          /\ disk' = disk /\ rec' = rec /\ bits' = bits /\ mirror' = mirror /\ boot' = boot
        BY <1>10 DEF vars, captureVars, planVars, imageVars
    <2>2. /\ Vol' = Vol /\ SafeMax' = SafeMax /\ Records' = Records /\ NtfsShrink' = NtfsShrink
          /\ SourceBoot(Vol)' = SourceBoot(Vol) /\ Shrinking' = Shrinking
          /\ IsKind("ntfs")' = IsKind("ntfs") /\ IsKind("fat16")' = IsKind("fat16")
          /\ WholeImage' = WholeImage /\ Overflows' = Overflows
          /\ NewRuns' = NewRuns /\ NewBits' = NewBits /\ \A c : (Translate(c))' = Translate(c)
        BY <2>1, RebuildFrame
    <2>3. \A s : ((Struck(s))' <=> Struck(s)) /\ (Content(s))' = Content(s)
        BY <2>1, <2>2 DEF Struck, Content
    <2>4. DiskIs => DiskIs'
        BY <2>1, <2>2, <2>3 DEF DiskIs
    <2>5. (TablesAre => TablesAre') /\ (PointersAre => PointersAre')
        BY <2>1, <2>2 DEF TablesAre, PointersAre
    <2> QED BY <2>1, <2>2, <2>4, <2>5 DEF RebuildInv
<1> QED BY <1>1, <1>2, <1>3, <1>4, <1>5, <1>6, <1>7, <1>8, <1>9, <1>10 DEF Next, ImageNext

\* The accounting of a rebuilt volume is inductive beside the soundness of its plan:
\* for every volume, target and plan, each phase leaves what the next one reads.
THEOREM RebuildInvariant == Spec => [](SoundInv /\ RebuildInv)
<1>1. Spec => []SoundInv
    BY SoundInvariant
<1>2. Init => RebuildInv
    BY RebuildInit
<1>3. SoundInv /\ RebuildInv /\ [Next]_vars => RebuildInv'
    BY RebuildStep
<1> QED BY <1>1, <1>2, <1>3, PTL DEF Spec

\* The preflight and the dry run: a plan whose simulation found room in every
\* record is never found not to fit after the data was written.
THEOREM PreflightTheorem == Spec => []PreflightHolds
<1>1. RebuildInv => PreflightHolds
    BY DEF RebuildInv, PreflightHolds
<1> QED BY <1>1, RebuildInvariant, PTL

\* What a finished shrink has written in its tables.
LEMMA MetadataWhole ==
    ASSUME SoundInv, RebuildInv
    PROVE  MetadataAgrees
<1> SUFFICES ASSUME Done, IsKind("ntfs"), Shrinking
             PROVE  LET used == (UNION {NamedBy(r) : r \in Records}) \cup {Boot}
                    IN  /\ used \subseteq bits
                        /\ captured = Vol.used => bits = used
                        /\ \A r \in DOMAIN mirror : mirror[r] = rec[r]
                        /\ LastClusterFree => disk[boot.mirror] = MirrorCopy
    BY DEF MetadataAgrees
<1>1. job \in Jobs /\ NtfsShrink /\ WholeImage /\ phase = "done" /\ phase \in OnTarget
    BY DEF SoundInv, NtfsShrink, Done, OnTarget, Recorded, MarkedThen, Stamped, Mirrored, Pointed
<1>2. /\ phase \in Recorded /\ phase \in MarkedThen /\ phase \in Stamped
      /\ phase \in Mirrored /\ phase \in Pointed
    BY <1>1 DEF Recorded, MarkedThen, Stamped, Mirrored, Pointed
<1>3. Lands /\ DiskIs /\ TablesAre /\ PointersAre
    BY <1>1, LandsWhole DEF RebuildInv
<1>4. /\ rec = NewRuns /\ bits = NewBits /\ \A r \in DOMAIN mirror : mirror[r] = rec[r]
      /\ boot.mirror = Translate(Vol.runs[Mirror][1])
    BY <1>1, <1>2, <1>3 DEF TablesAre, PointersAre
<1>5. \A r \in Records : NamedBy(r) = {Translate(s) : s \in Range(Vol.runs[r]) \ {Sparse}}
    BY <1>1, <1>3, <1>4, NamedPlaces DEF NewRuns
<1>6. /\ Vol.used = {Boot} \cup ((UNION {Range(Vol.runs[r]) : r \in Records}) \ {Sparse})
      /\ Mirror \in Records /\ Log \in Records
    BY <1>1, NtfsFacts
<1>7. SafeMax \in Nat
    BY <1>1, SetFacts DEF SoundInv
<1>8. DOMAIN place = Above
    <2>1. Planned /\ phase # "place" /\ phase # "refused"
        BY <1>1 DEF Planned, NtfsShrink
    <2>2. Sound
        BY <1>1, <2>1 DEF SoundInv
    <2> QED BY <2>1, <2>2 DEF Sound, Working, Covered, Unplaced
<1>9. Vol.used \subseteq captured /\ captured \subseteq Nat
    BY <1>1 DEF WholeImage, SoundInv, Bounded
<1>10. ASSUME NEW s \in Vol.used PROVE Translate(s) \in bits
    <2>1. CASE s \in Above
        BY <2>1, <1>4, <1>8 DEF NewBits, Placed, Translate
    <2>2. CASE s \notin Above
        <3>1. s \in captured /\ s \in Nat
            BY <1>9
        <3>2. ~(s > SafeMax)
            BY <2>2, <3>1 DEF Above
        <3>3. s \in 0..SafeMax
            BY <3>1, <3>2, <1>7
        <3> QED BY <3>3, <2>2, <1>4, <1>8 DEF NewBits, Translate
    <2> QED BY <2>1, <2>2
<1>11. Boot \in Vol.used /\ Translate(Boot) = Boot
    <2>1. Boot \notin Above
        BY <1>7 DEF Above, Boot
    <2> QED BY <2>1, <1>6, <1>8 DEF Translate
<1>18. /\ \A s \in Vol.used : s = Boot \/ \E r \in Records : s \in Range(Vol.runs[r]) \ {Sparse}
       /\ \A r \in Records : Range(Vol.runs[r]) \ {Sparse} \subseteq Vol.used
    <2>1. \A X, Y : X = {Boot} \cup ((UNION {Range(Vol.runs[r]) : r \in Records}) \ {Sparse}) =>
              /\ \A s \in X : s = Boot \/ \E r \in Records : s \in Range(Vol.runs[r]) \ {Sparse}
              /\ \A r \in Records : Range(Vol.runs[r]) \ {Sparse} \subseteq X
        BY Zenon
    <2> QED BY <2>1, <1>6, Zenon
<1> DEFINE used == (UNION {NamedBy(r) : r \in Records}) \cup {Boot}
<1>19. /\ Boot \in used
       /\ \A r \in Records : NamedBy(r) \subseteq used
       /\ \A c \in used : c = Boot \/ \E r \in Records : c \in NamedBy(r)
    BY Zenon
<1> HIDE DEF used
<1>12. ASSUME NEW s \in Vol.used PROVE Translate(s) \in used
    <2>1. CASE s = Boot
        BY <2>1, <1>11, <1>19
    <2>2. CASE s # Boot
        <3>1. PICK r \in Records : s \in Range(Vol.runs[r]) \ {Sparse}
            BY <2>2, <1>18
        <3>2. Translate(s) \in NamedBy(r)
            BY <3>1, <1>5
        <3> QED BY <3>2, <1>19
    <2> QED BY <2>1, <2>2
<1>13. used \subseteq bits
    <2>1. ASSUME NEW r \in Records, NEW c \in NamedBy(r) PROVE c \in bits
        <3>1. PICK s \in Range(Vol.runs[r]) \ {Sparse} : c = Translate(s)
            BY <1>5
        <3>2. s \in Vol.used
            BY <3>1, <1>18
        <3> QED BY <3>1, <3>2, <1>10
    <2>2. Boot \in bits
        BY <1>6, <1>10, <1>11
    <2> QED BY <2>1, <2>2, <1>19
<1>14. ASSUME captured = Vol.used PROVE bits \subseteq used
    <2>1. ASSUME NEW c \in Vol.used \cap 0..SafeMax PROVE c \in used
        <3>1. c \notin Above
            BY <1>7 DEF Above
        <3>2. Translate(c) = c
            BY <3>1, <1>8 DEF Translate
        <3> QED BY <3>2, <1>12
    <2>2. ASSUME NEW c \in Placed(place) PROVE c \in used
        <3>1. PICK s \in DOMAIN place : c = place[s]
            BY DEF Placed
        <3>2. s \in Vol.used /\ Translate(s) = c
            BY <3>1, <1>8, <1>14 DEF Above, Translate
        <3> QED BY <3>2, <1>12
    <2> QED BY <2>1, <2>2, <1>4 DEF NewBits
<1>15. ASSUME LastClusterFree PROVE disk[boot.mirror] = MirrorCopy
    <2> DEFINE m == Vol.runs[Mirror][1]
    <2>1. m \in Vol.used /\ m \in Range(Vol.runs[Mirror]) /\ m # Sparse /\ Mirror # Log
        BY <1>1, NtfsFacts DEF Range, Mirror, Log
    <2>2. m \notin Range(Vol.runs[Log])
        <3> HIDE DEF m
        <3> QED BY <2>1, <1>1, <1>6, NtfsFacts
    <2>3. Content(m) = MirrorCopy
        BY <2>2, <1>1, <1>2 DEF Content
    <2>4. ~Struck(m)
        BY <2>1, <1>1, <1>15, NotStruck
    <2> QED BY <2>1, <2>3, <2>4, <1>3, <1>4 DEF DiskIs
<1> QED BY <1>4, <1>13, <1>14, <1>15 DEF used

\* rewrite_metadata_after_relocation: at the end of an NTFS shrink the $Bitmap marks
\* what the records and the boot sector have, $MFTMirr repeats the records, and the
\* mirror lies where the boot sector says.
THEOREM MetadataTheorem == Spec => []MetadataAgrees
<1>1. SoundInv /\ RebuildInv => MetadataAgrees
    BY MetadataWhole
<1> QED BY <1>1, RebuildInvariant, PTL

\* What a finished restore gives back.
LEMMA FilesWhole ==
    ASSUME LabelOutside, SoundInv, RebuildInv
    PROVE  FilesReadBack
<1> SUFFICES ASSUME Done, LastClusterFree
             PROVE  IF IsKind("ntfs")
                    THEN RecordZero /\ \A r \in Records : FileIsBack(r)
                    ELSE \A c \in Vol.used : c \in DOMAIN disk /\ disk[c] = c
    BY DEF FilesReadBack
<1>1. job \in Jobs /\ WholeImage /\ phase = "done" /\ phase \in OnTarget
    BY DEF SoundInv, Done, OnTarget, Recorded, MarkedThen, Stamped, Mirrored, Pointed
<1>2. /\ phase \in Recorded /\ phase \in MarkedThen /\ phase \in Stamped
      /\ phase \in Mirrored /\ phase \in Pointed
    BY <1>1 DEF Recorded, MarkedThen, Stamped, Mirrored, Pointed
<1>3. Lands /\ DiskIs /\ TablesAre /\ PointersAre /\ DOMAIN disk = 0..SafeMax
    BY <1>1, LandsWhole DEF RebuildInv
<1>4. \A s \in Vol.used : ~Struck(s)
    <2>1. IsKind("fat16") => LabelCluster \notin Vol.used
        BY <1>1 DEF LabelOutside, Vol
    <2>2. NtfsShrink => \A s \in Vol.used : ~Struck(s)
        BY <1>1, NotStruck
    <2> QED BY <2>1, <2>2 DEF Struck
<1>5. \A s \in Vol.used : Translate(s) \in DOMAIN disk /\ disk[Translate(s)] = Content(s)
    BY <1>3, <1>4 DEF DiskIs, Lands
<1>6. CASE ~IsKind("ntfs")
    <2>1. \A s : Translate(s) = s /\ Content(s) = s
        BY <1>6 DEF RebuildInv, Translate, Content, NtfsShrink
    <2> QED BY <2>1, <1>5, <1>6
<1>7. CASE IsKind("ntfs")
    <2>1. /\ Mft \in Records /\ Mirror \in Records /\ Log \in Records
          /\ Mft # Log /\ Mft # Mirror /\ Mirror # Log
        BY <1>1, <1>7, NtfsFacts DEF Mft, Mirror, Log
    <2>2. NtfsShrink <=> Shrinking
        BY <1>7 DEF NtfsShrink
    \* The run lists name the places of the clusters they named.
    <2>3. \A r \in Records :
             /\ DOMAIN rec[r] = DOMAIN Vol.runs[r]
             /\ \A i \in DOMAIN Vol.runs[r] :
                   rec[r][i] = IF Vol.runs[r][i] = Sparse THEN Sparse
                               ELSE Translate(Vol.runs[r][i])
        <3>1. CASE NtfsShrink
            <4>1. \A r \in Records : rec[r] = Relocate(Vol.runs[r])
                BY <3>1, <1>2, <1>3 DEF TablesAre, NewRuns
            <4> QED BY <4>1, <1>1, <1>3, <1>7, RelocatedOnce
        <3>2. CASE ~NtfsShrink
            <4>1. rec = Vol.runs /\ \A s : Translate(s) = s
                BY <3>2, <1>3 DEF TablesAre, RebuildInv, Translate
            <4> QED BY <4>1
        <3> QED BY <3>1, <3>2
    \* A cluster of one record is no cluster of another.
    <2>4. ASSUME NEW r \in Records, NEW s \in Range(Vol.runs[r]), s # Sparse
          PROVE  s \in Vol.used /\ Content(s) = Bytes(r, s)
        <3>1. s \in Vol.used
            BY <1>1, <2>4, VolumeFacts
        <3>2. \A q \in Records : s \in Range(Vol.runs[q]) => q = r
            BY <1>1, <1>7, <2>4, NtfsFacts
        <3>3. s \in Range(Vol.runs[Log]) <=> r = Log
            BY <2>1, <3>2
        <3>4. s = Vol.runs[Mirror][1] <=> r = Mirror
            <4>1. DOMAIN Vol.runs[Mirror] = {1}
                BY <1>1, <1>7, NtfsFacts
            <4>2. Range(Vol.runs[Mirror]) = {Vol.runs[Mirror][1]}
                BY <4>1 DEF Range
            <4> QED BY <4>2, <2>1, <3>2
        <3> QED BY <3>1, <3>3, <3>4, <1>2, <2>2 DEF Content, Bytes
    <2>5. \A k \in DOMAIN Vol.runs[Mft] :
             /\ k \in DOMAIN rec[Mft] /\ rec[Mft][k] \in DOMAIN disk
             /\ disk[rec[Mft][k]] = Vol.runs[Mft][k]
        <3> SUFFICES ASSUME NEW k \in DOMAIN Vol.runs[Mft]
                     PROVE  /\ k \in DOMAIN rec[Mft] /\ rec[Mft][k] \in DOMAIN disk
                            /\ disk[rec[Mft][k]] = Vol.runs[Mft][k]
            OBVIOUS
        <3> DEFINE m == Vol.runs[Mft][k]
        <3>1. m \in Range(Vol.runs[Mft]) /\ m # Sparse
            BY <1>1, <1>7, NtfsFacts DEF Range
        <3>2. m \in Vol.used /\ Content(m) = m
            <4> HIDE DEF m
            <4> QED BY <2>1, <2>4, <3>1 DEF Bytes
        <3>3. k \in DOMAIN rec[Mft] /\ rec[Mft][k] = Translate(m)
            BY <2>1, <2>3, <3>1
        <3> HIDE DEF m
        <3>4. rec[Mft][k] \in DOMAIN disk /\ disk[rec[Mft][k]] = m
            BY <1>5, <3>2, <3>3
        <3> QED BY <3>3, <3>4 DEF m
    <2>6. RecordZero
        <3>1. 1 \in DOMAIN Vol.runs[Mft] /\ Vol.runs[Mft][1] # Sparse
            BY <1>1, <1>7, NtfsFacts DEF Range
        <3>2. boot.mft = rec[Mft][1]
            <4>1. rec[Mft][1] = Translate(Vol.runs[Mft][1])
                BY <2>1, <2>3, <3>1
            <4>2. CASE NtfsShrink
                BY <4>1, <4>2, <1>2, <1>3, <1>7 DEF PointersAre
            <4>3. CASE ~NtfsShrink
                <5>1. Translate(Vol.runs[Mft][1]) = Vol.runs[Mft][1]
                    BY <4>3 DEF RebuildInv, Translate
                <5> QED BY <4>1, <4>3, <5>1, <1>3, <1>7 DEF PointersAre
            <4> QED BY <4>2, <4>3
        <3> QED BY <2>5, <3>1, <3>2 DEF RecordZero
    <2>7. ASSUME NEW r \in Records PROVE FileIsBack(r)
        <3>1. Holds(rec[Mft], r)
            <4>1. r \div RecordsPerCluster + 1 \in DOMAIN Vol.runs[Mft]
                BY <1>1, <1>7, NtfsFacts
            <4> QED BY <2>5, <4>1 DEF Holds
        <3>2. ASSUME NEW i \in DOMAIN Vol.runs[r]
              PROVE  SameBytes(r, Vol.runs[r][i], rec[r][i])
            <4> DEFINE s == Vol.runs[r][i]
            <4>1. rec[r][i] = IF s = Sparse THEN Sparse ELSE Translate(s)
                BY <2>3
            <4>2. s \in Range(Vol.runs[r])
                BY DEF Range
            <4> HIDE DEF s
            <4>3. s # Sparse => s \in Vol.used /\ Content(s) = Bytes(r, s)
                BY <4>2, <2>4
            <4>4. SameBytes(r, s, rec[r][i])
                BY <4>1, <4>3, <1>5 DEF SameBytes
            <4> QED BY <4>4 DEF s
        <3> QED BY <3>1, <3>2 DEF FileIsBack
    <2> QED BY <2>6, <2>7, <1>7
<1> QED BY <1>6, <1>7

\* The whole restore of a volume of any kind to a partition of any size: from its
\* own boot sector, table and run lists every file reads back what it held, if the
\* planner left the last cluster of an NTFS shrink free, and the label of a FAT16
\* volume is not taken for the place of a cluster in use.
THEOREM FilesTheorem ==
    ASSUME LabelOutside
    PROVE  Spec => []FilesReadBack
<1>1. SoundInv /\ RebuildInv => FilesReadBack
    BY FilesWhole
<1> QED BY <1>1, RebuildInvariant, PTL
=============================================================================
