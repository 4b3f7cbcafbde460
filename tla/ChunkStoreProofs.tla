-------------------------- MODULE ChunkStoreProofs --------------------------
(* What holds of a mounted image for any disk of partitions, extents and chunks, any
   size of the cache and of the reads, and whatever chunks fail to load: every read is
   faithful, and the cache is a true LRU. *)
EXTENDS ChunkStore, SequenceTheorems, WellFoundedInduction, TLAPS

-----------------------------------------------------------------------------
(* Sequences without repetition, and what taking one element to the end does. *)

Distinct(list) == \A i, j \in DOMAIN list : list[i] = list[j] => i = j
\* The last of `long`, as many as `short` has.
IsEnd(short, long) ==
    /\ Len(short) <= Len(long)
    /\ \A i \in 1 .. Len(short) : short[i] = long[Len(long) - Len(short) + i]

\* What is not there is added.
LEMMA MovedNew ==
    ASSUME NEW list, NEW s, \A i \in DOMAIN list : list[i] # s
    PROVE  Moved(s, list) = Append(list, s)
BY DEF Moved

\* What is there once is taken out where it is.
LEMMA MovedOut ==
    ASSUME NEW list \in Seq(Slots), Distinct(list), NEW k \in 1 .. Len(list)
    PROVE  LET m == Moved(list[k], list)
           IN  /\ m \in Seq(Slots) /\ Len(m) = Len(list)
               /\ \A i \in 1 .. Len(list) :
                     m[i] = IF i < k THEN list[i] ELSE IF i < Len(list) THEN list[i + 1] ELSE list[k]
<1> DEFINE at == {i \in DOMAIN list : list[i] = list[k]}
<1>1. DOMAIN list = 1 .. Len(list)
    OBVIOUS
<1>2. at = {k}
    BY <1>1 DEF Distinct
<1>3. Max({k}) = k
    BY DEF Max
<1>4. Moved(list[k], list) = Append(RemoveAt(list, k), list[k])
    BY <1>2, <1>3 DEF Moved
<1> DEFINE cut == RemoveAt(list, k)
<1>5. /\ cut \in Seq(Slots) /\ Len(cut) = Len(list) - 1
      /\ \A i \in 1 .. Len(cut) : cut[i] = IF i < k THEN list[i] ELSE list[i + 1]
    <2> DEFINE front == SubSeq(list, 1, k - 1)
               back == SubSeq(list, k + 1, Len(list))
    <2>1. front \in Seq(Slots) /\ Len(front) = k - 1 /\ \A i \in 1 .. k - 1 : front[i] = list[i]
        OBVIOUS
    <2>2. /\ back \in Seq(Slots) /\ Len(back) = Len(list) - k
          /\ \A i \in 1 .. Len(list) - k : back[i] = list[k + i]
        OBVIOUS
    <2>3. cut = front \o back
        BY DEF RemoveAt
    <2> HIDE DEF front, back, cut
    <2>4. /\ cut \in Seq(Slots) /\ Len(cut) = Len(front) + Len(back)
          /\ \A i \in 1 .. Len(cut) :
                cut[i] = IF i <= Len(front) THEN front[i] ELSE back[i - Len(front)]
        <3>1. /\ front \o back \in Seq(Slots) /\ Len(front \o back) = Len(front) + Len(back)
              /\ \A i \in 1 .. Len(front) + Len(back) :
                    (front \o back)[i] = IF i <= Len(front) THEN front[i] ELSE back[i - Len(front)]
            BY <2>1, <2>2, ConcatProperties
        <3> QED BY <2>3, <3>1
    <2>5. Len(cut) = Len(list) - 1
        BY <2>1, <2>2, <2>4
    <2>6. ASSUME NEW i \in 1 .. Len(cut) PROVE cut[i] = IF i < k THEN list[i] ELSE list[i + 1]
        <3>1. CASE i < k
            <4>1. i \in 1 .. k - 1 /\ i <= Len(front)
                BY <2>1, <3>1
            <4> QED BY <2>1, <2>4, <3>1, <4>1
        <3>2. CASE i >= k
            <4>1. i - (k - 1) \in 1 .. Len(list) - k /\ ~(i <= k - 1)
                BY <2>5, <3>2
            <4>2. k + (i - (k - 1)) = i + 1
                BY <3>2
            <4> QED BY <2>1, <2>2, <2>4, <4>1, <4>2
        <3> QED BY <3>1, <3>2
    <2> QED BY <2>4, <2>5, <2>6
<1> HIDE DEF cut
<1>6. list[k] \in Slots
    OBVIOUS
<1>7. Moved(list[k], list) = Append(cut, list[k])
    BY <1>4 DEF cut
<1> QED BY <1>5, <1>6, <1>7

\* Nothing is doubled.
LEMMA MovedDistinct ==
    ASSUME NEW list \in Seq(Slots), Distinct(list), NEW s \in Slots
    PROVE  /\ Moved(s, list) \in Seq(Slots) /\ Distinct(Moved(s, list))
           /\ ToSet(Moved(s, list)) = ToSet(list) \cup {s}
           /\ Len(Moved(s, list)) = IF s \in ToSet(list) THEN Len(list) ELSE Len(list) + 1
<1> DEFINE m == Moved(s, list)
<1>1. CASE s \notin ToSet(list)
    <2>1. m = Append(list, s)
        BY <1>1, MovedNew DEF ToSet
    <2>2. m \in Seq(Slots) /\ Len(m) = Len(list) + 1 /\ m[Len(m)] = s
          /\ \A i \in 1 .. Len(list) : m[i] = list[i]
        BY <2>1
    <2> HIDE DEF m
    <2>3. DOMAIN m = 1 .. Len(m) /\ DOMAIN list = 1 .. Len(list)
        BY <2>2
    <2>4. Distinct(m)
        BY <1>1, <2>2, <2>3 DEF Distinct, ToSet
    <2>5. ToSet(m) = ToSet(list) \cup {s}
        <3>1. ASSUME NEW i \in DOMAIN m PROVE m[i] \in ToSet(list) \cup {s}
            BY <2>2, <2>3 DEF ToSet
        <3>2. ASSUME NEW i \in DOMAIN list PROVE list[i] \in ToSet(m)
            <4>1. i \in DOMAIN m /\ m[i] = list[i]
                BY <2>2, <2>3
            <4> QED BY <4>1 DEF ToSet
        <3>3. s \in ToSet(m)
            BY <2>2, <2>3 DEF ToSet
        <3> QED BY <3>1, <3>2, <3>3 DEF ToSet
    <2> QED BY <1>1, <2>2, <2>4, <2>5 DEF m
<1>2. CASE s \in ToSet(list)
    <2>1. PICK k \in 1 .. Len(list) : list[k] = s
        BY <1>2 DEF ToSet
    <2>2. /\ m \in Seq(Slots) /\ Len(m) = Len(list)
          /\ \A i \in 1 .. Len(list) :
                m[i] = IF i < k THEN list[i] ELSE IF i < Len(list) THEN list[i + 1] ELSE list[k]
        BY <2>1, MovedOut
    <2> HIDE DEF m
    <2>3. DOMAIN m = 1 .. Len(list) /\ DOMAIN list = 1 .. Len(list)
        BY <2>2
    <2>4. Distinct(m)
        <3> DEFINE from(i) == IF i < k THEN i ELSE IF i < Len(list) THEN i + 1 ELSE k
        <3>1. ASSUME NEW i \in 1 .. Len(list) PROVE from(i) \in 1 .. Len(list) /\ m[i] = list[from(i)]
            BY <2>2
        <3>2. ASSUME NEW i \in 1 .. Len(list), NEW j \in 1 .. Len(list), from(i) = from(j)
              PROVE  i = j
            BY <3>2
        <3> HIDE DEF from
        <3> QED BY <2>3, <3>1, <3>2 DEF Distinct
    <2>5. ToSet(m) = ToSet(list)
        <3>1. ASSUME NEW i \in 1 .. Len(list) PROVE m[i] \in ToSet(list)
            <4>1. PICK j \in 1 .. Len(list) : m[i] = list[j]
                BY <2>2
            <4> QED BY <2>3, <4>1 DEF ToSet
        <3>2. ASSUME NEW i \in 1 .. Len(list) PROVE list[i] \in ToSet(m)
            <4>1. PICK j \in 1 .. Len(list) : m[j] = list[i]
                <5>1. CASE i < k
                    BY <2>2, <5>1
                <5>2. CASE i = k
                    <6>1. m[Len(list)] = list[k]
                        BY <2>2
                    <6> QED BY <5>2, <6>1
                <5>3. CASE i > k
                    <6>1. i - 1 \in 1 .. Len(list) /\ m[i - 1] = list[i]
                        BY <2>2, <5>3
                    <6> QED BY <6>1
                <5> QED BY <5>1, <5>2, <5>3
            <4> QED BY <2>3, <4>1 DEF ToSet
        <3> QED BY <2>3, <3>1, <3>2 DEF ToSet
    <2> QED BY <1>2, <2>2, <2>4, <2>5 DEF m
<1> QED BY <1>1, <1>2
-----------------------------------------------------------------------------
(* The cache. *)

\* The store's order is the end of all uses, as long as the cache allows; what is cached
\* is what the order lists, and is good.
StoreOk(c, o, u) ==
    /\ o \in Seq(Slots) /\ Distinct(o)
    /\ u \in Seq(Slots) /\ Distinct(u)
    /\ Len(o) <= CacheCap /\ (Len(o) = CacheCap \/ Len(o) = Len(u))
    /\ IsEnd(o, u)
    /\ DOMAIN c = ToSet(o) /\ \A s \in DOMAIN c : c[s] = "good"

\* A chunk that is touched stays in the cache, as the last used.
LEMMA TouchedOk ==
    ASSUME NEW c, NEW o, NEW u, StoreOk(c, o, u), NEW s \in DOMAIN c
    PROVE  StoreOk(c, Moved(s, o), Moved(s, u))
<1>1. /\ o \in Seq(Slots) /\ Distinct(o) /\ u \in Seq(Slots) /\ Distinct(u)
      /\ s \in ToSet(o) /\ IsEnd(o, u)
    BY DEF StoreOk
<1>2. PICK k \in 1 .. Len(o) : o[k] = s
    BY <1>1 DEF ToSet
<1> DEFINE d == Len(u) - Len(o)
<1>3. d \in Nat /\ d + k \in 1 .. Len(u) /\ u[d + k] = s
    BY <1>1, <1>2 DEF IsEnd
<1> DEFINE p == Moved(s, o)
           q == Moved(s, u)
<1>4. Len(p) = Len(o) /\ \A i \in 1 .. Len(o) :
          p[i] = IF i < k THEN o[i] ELSE IF i < Len(o) THEN o[i + 1] ELSE o[k]
    BY <1>1, <1>2, MovedOut
<1>5. Len(q) = Len(u) /\ \A i \in 1 .. Len(u) :
          q[i] = IF i < d + k THEN u[i] ELSE IF i < Len(u) THEN u[i + 1] ELSE u[d + k]
    BY <1>1, <1>3, MovedOut
<1>6. s \in Slots /\ s \in ToSet(u)
    <2>1. s \in Slots
        BY <1>1, <1>2
    <2> QED BY <1>1, <1>3, <2>1 DEF ToSet
<1>7. /\ p \in Seq(Slots) /\ Distinct(p) /\ ToSet(p) = ToSet(o)
      /\ q \in Seq(Slots) /\ Distinct(q)
    <2>1. p \in Seq(Slots) /\ Distinct(p) /\ ToSet(p) = ToSet(o) \cup {s}
        BY <1>1, <1>6, MovedDistinct
    <2>2. q \in Seq(Slots) /\ Distinct(q)
        BY <1>1, <1>6, MovedDistinct
    <2>3. ToSet(o) \cup {s} = ToSet(o)
        BY <1>1
    <2> QED BY <2>1, <2>2, <2>3
<1> HIDE DEF p, q
<1>8. IsEnd(p, q)
    <2>1. ASSUME NEW i \in 1 .. Len(o) PROVE p[i] = q[d + i]
        <3>1. d + i \in 1 .. Len(u) /\ o[i] = u[d + i]
            BY <1>1, <1>3 DEF IsEnd
        <3>2. ASSUME i < Len(o) PROVE d + i < Len(u) /\ o[i + 1] = u[d + i + 1]
            <4>1. i + 1 \in 1 .. Len(o) /\ Len(u) - Len(o) + (i + 1) = d + i + 1
                BY <1>1, <3>2
            <4> QED BY <1>1, <1>3, <3>2, <4>1 DEF IsEnd
        <3>3. CASE i < k
            BY <1>2, <1>3, <1>4, <1>5, <3>1, <3>3
        <3>4. CASE ~(i < k) /\ i < Len(o)
            <4>1. p[i] = o[i + 1]
                BY <1>4, <3>4
            <4>2. d + i < Len(u) /\ o[i + 1] = u[d + i + 1]
                BY <3>2, <3>4
            <4>3. ~(d + i < d + k)
                BY <1>3, <3>4
            <4>4. q[d + i] = u[d + i + 1]
                BY <1>5, <3>1, <4>2, <4>3
            <4> QED BY <4>1, <4>2, <4>4
        <3>5. CASE ~(i < k) /\ ~(i < Len(o))
            BY <1>2, <1>3, <1>4, <1>5, <3>1, <3>5
        <3> QED BY <3>3, <3>4, <3>5
    <2> QED BY <1>1, <1>4, <1>5, <2>1 DEF IsEnd
<1> QED BY <1>4, <1>5, <1>7, <1>8 DEF StoreOk, p, q

\* The least of two numbers.
LEMMA MinOfTwo ==
    ASSUME NEW a \in Nat, NEW b \in Nat
    PROVE  Min({a, b}) = IF a <= b THEN a ELSE b
BY DEF Min

\* A chunk that is new to the cache goes in as the last used, for the one used longest ago.
LEMMA InsertedOk ==
    ASSUME NEW c, NEW o, NEW u, StoreOk(c, o, u), NEW s \in Slots, s \notin DOMAIN c
    PROVE  LET st == Inserted([cache |-> c, order |-> o, uses |-> u], s, "good")
           IN  StoreOk(st.cache, st.order, st.uses) /\ st.cache[s] = "good"
<1>1. /\ o \in Seq(Slots) /\ Distinct(o) /\ u \in Seq(Slots) /\ Distinct(u)
      /\ Len(o) <= CacheCap /\ (Len(o) = CacheCap \/ Len(o) = Len(u))
      /\ DOMAIN c = ToSet(o) /\ s \notin ToSet(o) /\ IsEnd(o, u)
      /\ \A t \in DOMAIN c : c[t] = "good"
    BY DEF StoreOk
<1>2. CacheCap \in Nat /\ CacheCap > 0
    BY ChunkStoreAssumption
<1> DEFINE full == Len(o) >= CacheCap
           kept == IF full THEN Tail(o) ELSE o
           p == Append(kept, s)
           q == Moved(s, u)
           n == IF full THEN 1 ELSE 0
<1>0. n \in {0, 1} /\ (full => n = 1) /\ (~full => n = 0)
    OBVIOUS
<1>3. /\ kept \in Seq(Slots) /\ Len(kept) = Len(o) - n
      /\ \A i \in 1 .. Len(o) - n : kept[i] = o[i + n]
    BY <1>1, <1>2
<1>4. ToSet(kept) \subseteq ToSet(o)
    BY <1>1, <1>3 DEF ToSet
<1>5. Distinct(kept)
    <2>1. DOMAIN kept = 1 .. Len(o) - n
        BY <1>3
    <2>2. ASSUME NEW i \in DOMAIN kept, NEW j \in DOMAIN kept, kept[i] = kept[j] PROVE i = j
        <3>1. i + n \in DOMAIN o /\ j + n \in DOMAIN o /\ i \in Nat /\ j \in Nat
            BY <1>1, <2>1
        <3>2. o[i + n] = o[j + n]
            BY <1>3, <2>1, <2>2
        <3>3. i + n = j + n
            BY <1>1, <3>1, <3>2 DEF Distinct
        <3> QED BY <3>1, <3>3
    <2> QED BY <2>2 DEF Distinct
<1>6. p = Moved(s, kept)
    BY <1>1, <1>4, MovedNew DEF ToSet
<1>7. p \in Seq(Slots) /\ Distinct(p) /\ ToSet(p) = ToSet(kept) \cup {s}
    BY <1>3, <1>5, <1>6, MovedDistinct
<1>8. Len(p) = Len(o) - n + 1 /\ p[Len(p)] = s /\ \A i \in 1 .. Len(o) - n : p[i] = o[i + n]
    BY <1>3
<1>9. q \in Seq(Slots) /\ Distinct(q)
      /\ Len(q) = IF s \in ToSet(u) THEN Len(u) ELSE Len(u) + 1
    BY <1>1, MovedDistinct
<1>10. Len(o) \in Nat /\ Len(u) \in Nat /\ Len(o) <= Len(u)
    BY <1>1 DEF IsEnd
<1>11. Len(p) <= CacheCap /\ (Len(p) = CacheCap \/ Len(p) = Len(q)) /\ IsEnd(p, q)
    <2> DEFINE d == Len(u) - Len(o)
    <2>1. ASSUME NEW i \in 1 .. Len(o) PROVE o[i] = u[d + i]
        BY <1>1 DEF IsEnd
    <2>2. CASE s \notin ToSet(u)
        <3>1. q = Append(u, s)
            BY <2>2, MovedNew DEF ToSet
        <3>2. Len(q) = Len(u) + 1 /\ q[Len(q)] = s /\ \A i \in 1 .. Len(u) : q[i] = u[i]
            BY <1>1, <3>1
        <3> HIDE DEF p, q, kept, n
        <3>3. ASSUME NEW i \in 1 .. Len(p) PROVE p[i] = q[Len(q) - Len(p) + i]
            <4>1. CASE i = Len(p)
                BY <1>8, <1>10, <3>2, <4>1
            <4>2. CASE i < Len(p)
                <5>1. i \in 1 .. Len(o) - n /\ i + n \in 1 .. Len(o)
                    BY <1>0, <1>8, <1>10, <4>2
                <5>2. Len(q) - Len(p) + i = d + (i + n) /\ d + (i + n) \in 1 .. Len(u)
                    BY <1>0, <1>8, <1>10, <3>2, <5>1
                <5> QED BY <1>8, <2>1, <3>2, <5>1, <5>2
            <4> QED BY <1>8, <1>10, <4>1, <4>2
        <3>4. Len(p) <= Len(q) /\ Len(p) <= CacheCap /\ (Len(p) = CacheCap \/ Len(p) = Len(q))
            BY <1>0, <1>1, <1>2, <1>8, <1>10, <3>2
        <3> QED BY <3>3, <3>4 DEF IsEnd
    <2>3. CASE s \in ToSet(u)
        <3>1. PICK k \in 1 .. Len(u) : u[k] = s
            BY <1>1, <2>3 DEF ToSet
        <3>2. k <= d
            <4>1. SUFFICES ASSUME k > d PROVE FALSE
                BY <1>10, <3>1
            <4>2. k - d \in 1 .. Len(o) /\ d + (k - d) = k
                BY <1>10, <3>1, <4>1
            <4>3. o[k - d] = s /\ k - d \in DOMAIN o
                BY <1>1, <2>1, <3>1, <4>2
            <4> QED BY <1>1, <4>3 DEF ToSet
        <3>3. full /\ n = 1 /\ Len(o) = CacheCap
            BY <1>1, <1>2, <1>10, <3>1, <3>2
        <3>4. Len(q) = Len(u) /\ \A i \in 1 .. Len(u) :
                  q[i] = IF i < k THEN u[i] ELSE IF i < Len(u) THEN u[i + 1] ELSE u[k]
            BY <1>1, <3>1, MovedOut
        <3> HIDE DEF p, q, kept
        <3>5. Len(p) = Len(o)
            BY <1>8, <1>10, <3>3
        <3>6. ASSUME NEW i \in 1 .. Len(p) PROVE p[i] = q[Len(q) - Len(p) + i]
            <4>1. CASE i = Len(p)
                BY <1>8, <1>10, <3>1, <3>4, <3>5, <4>1
            <4>2. CASE i < Len(p)
                <5>1. i \in 1 .. Len(o) - n /\ i + 1 \in 1 .. Len(o)
                    BY <1>10, <3>3, <3>5, <4>2
                <5>2. /\ d + i \in 1 .. Len(u) /\ ~(d + i < k) /\ d + i < Len(u)
                      /\ Len(q) - Len(p) + i = d + i
                    BY <1>10, <3>1, <3>2, <3>4, <3>5, <4>2
                <5>3. p[i] = o[i + 1] /\ o[i + 1] = u[d + (i + 1)] /\ q[d + i] = u[d + i + 1]
                    BY <1>8, <2>1, <3>3, <3>4, <5>1, <5>2
                <5>4. d + (i + 1) = d + i + 1
                    BY <1>10, <5>1
                <5> QED BY <5>2, <5>3, <5>4
            <4> QED BY <1>10, <3>5, <4>1, <4>2
        <3> QED BY <1>10, <3>3, <3>4, <3>5, <3>6 DEF IsEnd
    <2> QED BY <2>2, <2>3
<1> DEFINE cc == [t \in ToSet(kept) \union {s} |-> IF t = s THEN "good" ELSE c[t]]
<1>12. DOMAIN cc = ToSet(p) /\ cc[s] = "good" /\ \A t \in DOMAIN cc : cc[t] = "good"
    BY <1>1, <1>4, <1>7
<1>13. Inserted([cache |-> c, order |-> o, uses |-> u], s, "good") =
           [cache |-> cc, order |-> p, uses |-> q]
    BY DEF Inserted
<1> HIDE DEF cc, p, q, kept
<1>14. StoreOk(cc, p, q)
    BY <1>7, <1>9, <1>11, <1>12 DEF StoreOk
<1> QED BY <1>12, <1>13, <1>14
\* What a store is, as a record.
IsStore(st) ==
    /\ st = [cache |-> st.cache, order |-> st.order, uses |-> st.uses]
    /\ StoreOk(st.cache, st.order, st.uses)

\* A hit.
LEMMA TouchedStore ==
    ASSUME NEW st, IsStore(st), NEW s \in DOMAIN st.cache
    PROVE  IsStore(Touched(st, s)) /\ Touched(st, s).cache = st.cache
<1> DEFINE c == st.cache
           o == st.order
           u == st.uses
<1>1. st = [cache |-> c, order |-> o, uses |-> u] /\ StoreOk(c, o, u)
    BY DEF IsStore
<1>2. Touched(st, s) = [cache |-> c, order |-> Moved(s, o), uses |-> Moved(s, u)]
    BY DEF Touched
<1>3. StoreOk(c, Moved(s, o), Moved(s, u))
    BY <1>1, TouchedOk
<1> QED BY <1>2, <1>3 DEF IsStore

\* A miss that was loaded.
LEMMA InsertedStore ==
    ASSUME NEW st, IsStore(st), NEW s \in Slots, s \notin DOMAIN st.cache
    PROVE  IsStore(Inserted(st, s, "good")) /\ Inserted(st, s, "good").cache[s] = "good"
<1> DEFINE c == st.cache
           o == st.order
           u == st.uses
           new == Inserted(st, s, "good")
<1>1. st = [cache |-> c, order |-> o, uses |-> u] /\ StoreOk(c, o, u)
    BY DEF IsStore
<1>2. new = Inserted([cache |-> c, order |-> o, uses |-> u], s, "good")
    BY <1>1
<1>3. StoreOk(new.cache, new.order, new.uses) /\ new.cache[s] = "good"
    <2> HIDE DEF c, o, u
    <2>1. s \notin DOMAIN c
        BY DEF c
    <2> HIDE DEF new
    <2> QED BY <1>1, <1>2, <2>1, InsertedOk
<1>4. new = [cache |-> new.cache, order |-> new.order, uses |-> new.uses]
    BY DEF Inserted
<1> QED BY <1>3, <1>4 DEF IsStore

\* load_chunk leaves a good store, and what it gives is good.
LEMMA LoadStore ==
    ASSUME NEW st, IsStore(st), NEW s \in Slots, NEW loaded \in Load(st, s)
    PROVE  /\ IsStore(loaded.st)
           /\ loaded.got => s \in DOMAIN loaded.st.cache /\ loaded.st.cache[s] = "good"
           /\ loaded.got \in BOOLEAN
<1>1. CASE s \in DOMAIN st.cache
    <2>1. loaded = [st |-> Touched(st, s), got |-> TRUE]
        BY <1>1 DEF Load
    <2>2. st.cache[s] = "good"
        BY <1>1 DEF IsStore, StoreOk
    <2> QED BY <1>1, <2>1, <2>2, TouchedStore
<1>2. CASE s \notin DOMAIN st.cache
    <2>1. PICK q \in Fetched : loaded = IF Hashes(q) THEN [st |-> Inserted(st, s, q), got |-> TRUE]
                                        ELSE [st |-> st, got |-> FALSE]
        BY <1>2 DEF Load
    <2>2. CASE q = "good"
        <3>1. loaded = [st |-> Inserted(st, s, "good"), got |-> TRUE]
            BY <2>1, <2>2 DEF Hashes
        <3>2. IsStore(Inserted(st, s, "good")) /\ Inserted(st, s, "good").cache[s] = "good"
            BY <1>2, InsertedStore
        <3>3. s \in DOMAIN Inserted(st, s, "good").cache
            BY DEF Inserted
        <3> QED BY <3>1, <3>2, <3>3
    <2>3. CASE q # "good"
        BY <2>1, <2>3 DEF Hashes
    <2> QED BY <2>2, <2>3
<1> QED BY <1>1, <1>2

\* So does prefetch_chunk.
LEMMA PrefetchStore ==
    ASSUME NEW st, IsStore(st), NEW s \in Slots, NEW new \in Prefetch(st, s)
    PROVE  IsStore(new)
<1>1. CASE s \in DOMAIN st.cache
    BY <1>1 DEF Prefetch
<1>2. CASE s \notin DOMAIN st.cache
    <2>1. PICK q \in Fetched : new = IF Hashes(q) THEN Inserted(st, s, q) ELSE st
        BY <1>2 DEF Prefetch
    <2> QED BY <1>2, <2>1, InsertedStore DEF Hashes
<1> QED BY <1>1, <1>2

-----------------------------------------------------------------------------
(* Where chunks begin. *)

\* A non-empty set of natural numbers has a least element, which Min gives.
LEMMA Least ==
    ASSUME NEW T \in SUBSET Nat, T # {}
    PROVE  Min(T) \in T /\ \A m \in T : Min(T) <= m
<1> DEFINE R == OpToRel(<, Nat)
<1>1. IsWellFoundedOn(R, Nat)
    BY NatLessThanWellFounded
<1>2. \E n \in T : \A m \in T : ~(<<m, n>> \in R)
    <2> HIDE DEF R
    <2> QED BY <1>1, WFMin
<1>3. PICK n \in T : \A m \in T : ~(<<m, n>> \in R)
    BY <1>2
<1>4. ASSUME NEW m \in T PROVE n =< m
    <2>1. <<m, n>> \in Nat \X Nat /\ ~(<<m, n>> \in R)
        BY <1>3
    <2>2. ~(m < n)
        BY <2>1 DEF OpToRel
    <2> QED BY <2>2
<1> QED BY <1>4 DEF Min

\* The parts of the disk by their types.
LEMMA DiskTypes ==
    /\ Disk.total \in Nat /\ MaxRead \in Nat /\ Len(Disk.parts) \in Nat
    /\ DOMAIN Disk.parts = 1 .. Len(Disk.parts)
    /\ \A p \in DOMAIN Disk.parts :
          /\ Part(p).offset \in Nat /\ Part(p).size \in Nat
          /\ Part(p).offset + Part(p).size <= Disk.total
          /\ Len(Part(p).extents) \in Nat /\ DOMAIN Part(p).extents = 1 .. Len(Part(p).extents)
          /\ \A e \in DOMAIN Part(p).extents :
                /\ Part(p).extents[e].start \in Nat /\ Part(p).extents[e].count \in Nat
                /\ Part(p).extents[e].lens \in Seq(Nat)
                /\ Part(p).extents[e].start + Part(p).extents[e].count <= Part(p).size
<1> DEFINE Parts == [offset : Nat, size : Nat, extents : Seq(ExtentType)]
<1>1. Disk.total \in Nat /\ MaxRead \in Nat /\ Disk.parts \in Seq(Parts)
    BY ChunkStoreAssumption DEF DiskType
<1>2. ASSUME NEW p \in DOMAIN Disk.parts
      PROVE  /\ Part(p).offset \in Nat /\ Part(p).size \in Nat
             /\ Part(p).extents \in Seq(ExtentType)
    <2>1. Disk.parts[p] \in Parts
        <3> HIDE DEF Parts
        <3> QED BY <1>1
    <2> QED BY <2>1 DEF Part
<1>3. ASSUME NEW p \in DOMAIN Disk.parts, NEW e \in DOMAIN Part(p).extents
      PROVE  /\ Part(p).extents[e].start \in Nat /\ Part(p).extents[e].count \in Nat
             /\ Part(p).extents[e].lens \in Seq(Nat)
    <2>1. Part(p).extents[e] \in ExtentType
        BY <1>2
    <2> QED BY <2>1 DEF ExtentType
<1>4. ASSUME NEW p \in DOMAIN Disk.parts
      PROVE  /\ Part(p).offset + Part(p).size <= Disk.total
             /\ \A e \in DOMAIN Part(p).extents :
                   Part(p).extents[e].start + Part(p).extents[e].count <= Part(p).size
    BY ChunkStoreAssumption DEF Part
<1>5. \A p \in DOMAIN Disk.parts :
          Len(Part(p).extents) \in Nat /\ DOMAIN Part(p).extents = 1 .. Len(Part(p).extents)
    BY <1>2
<1>6. Len(Disk.parts) \in Nat /\ DOMAIN Disk.parts = 1 .. Len(Disk.parts)
    <2> HIDE DEF Parts
    <2> QED BY <1>1
<1> HIDE DEF Parts
<1>7. ASSUME NEW p \in DOMAIN Disk.parts
      PROVE  /\ Part(p).offset \in Nat /\ Part(p).size \in Nat
             /\ Part(p).offset + Part(p).size <= Disk.total
             /\ Len(Part(p).extents) \in Nat
             /\ DOMAIN Part(p).extents = 1 .. Len(Part(p).extents)
             /\ \A e \in DOMAIN Part(p).extents :
                   /\ Part(p).extents[e].start \in Nat /\ Part(p).extents[e].count \in Nat
                   /\ Part(p).extents[e].lens \in Seq(Nat)
                   /\ Part(p).extents[e].start + Part(p).extents[e].count <= Part(p).size
    <2>1. \A e \in DOMAIN Part(p).extents :
             /\ Part(p).extents[e].start \in Nat /\ Part(p).extents[e].count \in Nat
             /\ Part(p).extents[e].lens \in Seq(Nat)
             /\ Part(p).extents[e].start + Part(p).extents[e].count <= Part(p).size
        BY <1>3, <1>4
    <2> QED BY <1>2, <1>4, <1>5, <2>1
<1> QED BY <1>1, <1>6, <1>7

\* A slot is a partition, an extent of it and a chunk of that.
LEMMA SlotForm ==
    \A s : s \in Slots <=>
        \E p \in DOMAIN Disk.parts : \E e \in DOMAIN Part(p).extents :
            \E c \in DOMAIN Part(p).extents[e].lens : s = <<p, e, c>>
BY DEF Slots

\* The slot before another.
LEMMA PreviousSlot ==
    ASSUME NEW s \in Slots
    PROVE  /\ s[1] \in DOMAIN Disk.parts /\ s[2] \in DOMAIN Part(s[1]).extents
           /\ s[3] \in 1 .. Len(Extent(s).lens) /\ s = <<s[1], s[2], s[3]>>
           /\ Extent(s).lens \in Seq(Nat) /\ Length[s] \in Nat /\ Length[s] = Extent(s).lens[s[3]]
           /\ s[3] # 1 => Previous(s) \in Slots /\ Extent(Previous(s)) = Extent(s)
<1>1. PICK p \in DOMAIN Disk.parts : \E e \in DOMAIN Part(p).extents :
          \E c \in DOMAIN Part(p).extents[e].lens : s = <<p, e, c>>
    BY SlotForm
<1>2. PICK e \in DOMAIN Part(p).extents : \E c \in DOMAIN Part(p).extents[e].lens : s = <<p, e, c>>
    BY <1>1
<1>3. PICK c \in DOMAIN Part(p).extents[e].lens : s = <<p, e, c>>
    BY <1>2
<1>4. s[1] = p /\ s[2] = e /\ s[3] = c /\ Extent(s) = Part(p).extents[e]
    BY <1>3 DEF Extent
<1>5. Extent(s).lens \in Seq(Nat)
    BY <1>4, DiskTypes
<1>6. s[3] \in 1 .. Len(Extent(s).lens)
    BY <1>4, <1>5
<1>7. Length[s] \in Nat /\ Length[s] = Extent(s).lens[s[3]]
    BY <1>5, <1>6 DEF Length
<1>8. ASSUME s[3] # 1 PROVE Previous(s) \in Slots /\ Extent(Previous(s)) = Extent(s)
    <2>1. c - 1 \in DOMAIN Part(p).extents[e].lens
        BY <1>4, <1>5, <1>6, <1>8
    <2>2. Previous(s) = <<p, e, c - 1>>
        BY <1>4 DEF Previous
    <2>3. Previous(s) \in Slots
        BY <2>1, <2>2, SlotForm
    <2> QED BY <1>4, <2>2, <2>3 DEF Extent
<1> QED BY <1>3, <1>4, <1>5, <1>6, <1>7, <1>8

\* g adds up the first n of some lengths.
Adds(g, lens, n) ==
    g \in [1 .. n -> Nat] /\ \A c \in 1 .. n : g[c] = IF c = 1 THEN 0 ELSE g[c - 1] + lens[c - 1]

\* For any lengths there is such a function.
LEMMA SumsExist ==
    ASSUME NEW lens \in Seq(Nat), NEW n \in 0 .. Len(lens)
    PROVE  \E g : Adds(g, lens, n)
<1> DEFINE T == {m \in Nat : m <= Len(lens) /\ ~ \E g : Adds(g, lens, m)}
<1>1. SUFFICES ASSUME T # {} PROVE FALSE
    OBVIOUS
<1>2. PICK m \in T : \A k \in T : m <= k
    <2> HIDE DEF T
    <2>1. T \subseteq Nat
        BY DEF T
    <2> QED BY <1>1, <2>1, Least
<1>3. CASE m = 0
    <2>1. Adds([c \in 1 .. 0 |-> 0], lens, 0)
        BY DEF Adds
    <2> QED BY <1>3, <2>1
<1>4. CASE m # 0
    <2>1. m - 1 \in Nat /\ m - 1 <= Len(lens) /\ m - 1 \notin T
        BY <1>2, <1>4
    <2>2. PICK g : Adds(g, lens, m - 1)
        BY <2>1
    <2> DEFINE h == [c \in 1 .. m |-> IF c = 1 THEN 0 ELSE g[c - 1] + lens[c - 1]]
    <2>3. ASSUME NEW c \in 1 .. m, c # 1 PROVE g[c - 1] \in Nat /\ lens[c - 1] \in Nat
        <3>1. c - 1 \in 1 .. m - 1 /\ c - 1 \in 1 .. Len(lens)
            BY <1>2, <2>1, <2>3
        <3> QED BY <2>2, <3>1 DEF Adds
    <2>4. h \in [1 .. m -> Nat]
        BY <2>3
    <2>5. ASSUME NEW c \in 1 .. m - 1 PROVE h[c] = g[c]
        <3>1. c \in 1 .. m
            BY <2>1
        <3> QED BY <2>2, <3>1 DEF Adds
    <2>6. ASSUME NEW c \in 1 .. m PROVE h[c] = IF c = 1 THEN 0 ELSE h[c - 1] + lens[c - 1]
        <3>1. CASE c # 1
            <4>1. c - 1 \in 1 .. m - 1
                BY <2>1, <3>1
            <4> QED BY <2>5, <3>1, <4>1
        <3> QED BY <3>1
    <2>7. Adds(h, lens, m)
        BY <2>4, <2>6 DEF Adds
    <2> QED BY <2>7
<1> QED BY <1>3, <1>4

\* So Before is what its definition says.
LEMMA BeforeIs ==
    \A s \in Slots :
        Before[s] = IF s[3] = 1 THEN 0 ELSE Before[Previous(s)] + Length[Previous(s)]
<1> DEFINE G(lens) == CHOOSE g : Adds(g, lens, Len(lens))
           F == [s \in Slots |-> G(Extent(s).lens)[s[3]]]
<1>1. ASSUME NEW s \in Slots
      PROVE  F[s] = IF s[3] = 1 THEN 0 ELSE F[Previous(s)] + Length[Previous(s)]
    <2> DEFINE lens == Extent(s).lens
    <2>1. lens \in Seq(Nat) /\ s[3] \in 1 .. Len(lens)
        BY PreviousSlot
    <2>2. Adds(G(lens), lens, Len(lens))
        <3>1. \E g : Adds(g, lens, Len(lens))
            BY <2>1, SumsExist
        <3> QED BY <3>1
    <2> HIDE DEF G
    <2>3. G(lens)[s[3]] = IF s[3] = 1 THEN 0 ELSE G(lens)[s[3] - 1] + lens[s[3] - 1]
        BY <2>1, <2>2 DEF Adds
    <2>4. ASSUME s[3] # 1 PROVE F[Previous(s)] = G(lens)[s[3] - 1] /\ Length[Previous(s)] = lens[s[3] - 1]
        <3>1. Previous(s) \in Slots /\ Extent(Previous(s)) = Extent(s)
            BY <2>4, PreviousSlot
        <3>2. Previous(s)[3] = s[3] - 1
            BY DEF Previous
        <3>3. Length[Previous(s)] = Extent(Previous(s)).lens[Previous(s)[3]]
            BY <3>1, PreviousSlot
        <3> QED BY <3>1, <3>2, <3>3
    <2>5. F[s] = G(lens)[s[3]]
        OBVIOUS
    <2> QED BY <2>3, <2>4, <2>5
<1>2. F = [s \in Slots |-> IF s[3] = 1 THEN 0 ELSE F[Previous(s)] + Length[Previous(s)]]
    <2> HIDE DEF G
    <2>1. F = [s \in Slots |-> F[s]]
        OBVIOUS
    <2> QED BY <1>1, <2>1
<1> HIDE DEF F
<1>3. \E f : f = [s \in Slots |-> IF s[3] = 1 THEN 0 ELSE f[Previous(s)] + Length[Previous(s)]]
    BY <1>2
<1>4. Before = [s \in Slots |-> IF s[3] = 1 THEN 0 ELSE Before[Previous(s)] + Length[Previous(s)]]
    BY <1>3 DEF Before
<1> QED BY <1>4
\* Places in an extent are numbers.
LEMMA BeforeNat == \A s \in Slots : Before[s] \in Nat
<1> SUFFICES ASSUME NEW r \in Slots, Before[r] \notin Nat PROVE FALSE
    OBVIOUS
<1> DEFINE T == {n \in Nat : \E s \in Slots : s[3] = n /\ Before[s] \notin Nat}
<1>1. T \subseteq Nat /\ r[3] \in T
    BY PreviousSlot
<1>2. PICK n \in T : \A m \in T : n <= m
    <2> HIDE DEF T
    <2> QED BY <1>1, Least
<1>3. PICK s \in Slots : s[3] = n /\ Before[s] \notin Nat
    BY <1>2
<1>4. CASE s[3] = 1
    BY <1>3, <1>4, BeforeIs
<1>5. CASE s[3] # 1
    <2>1. Previous(s) \in Slots /\ s[3] \in Nat /\ s[3] >= 1
        BY <1>5, PreviousSlot
    <2>2. Previous(s)[3] = s[3] - 1
        BY DEF Previous
    <2>3. Before[Previous(s)] \in Nat
        <3>1. s[3] - 1 \notin T
            BY <1>2, <1>3, <2>1
        <3>2. s[3] - 1 \in Nat
            BY <2>1
        <3> QED BY <2>1, <2>2, <3>1, <3>2
    <2>4. Length[Previous(s)] \in Nat
        BY <2>1, PreviousSlot
    <2>5. Before[s] = Before[Previous(s)] + Length[Previous(s)]
        BY <1>5, BeforeIs
    <2> QED BY <1>3, <2>3, <2>4, <2>5
<1> QED BY <1>4, <1>5

\* Two chunks of one extent do not overlap: the later one begins behind the earlier one.
LEMMA ChunksApart ==
    ASSUME NEW s \in Slots, NEW t \in Slots, s[1] = t[1], s[2] = t[2], s[3] < t[3]
    PROVE  Before[s] + Length[s] <= Before[t]
<1> DEFINE Bad(u) == /\ u \in Slots /\ s[1] = u[1] /\ s[2] = u[2] /\ s[3] < u[3]
                     /\ ~(Before[s] + Length[s] <= Before[u])
           T == {n \in Nat : \E u : Bad(u) /\ u[3] = n}
<1> SUFFICES ASSUME Bad(t) PROVE FALSE
    OBVIOUS
<1>1. T \subseteq Nat /\ t[3] \in T
    BY PreviousSlot
<1>2. PICK n \in T : \A m \in T : n <= m
    <2> HIDE DEF T
    <2> QED BY <1>1, Least
<1>3. PICK u : Bad(u) /\ u[3] = n
    BY <1>2
<1> DEFINE v == Previous(u)
<1>4. /\ u \in Slots /\ s[1] = u[1] /\ s[2] = u[2] /\ s[3] < u[3]
      /\ ~(Before[s] + Length[s] <= Before[u])
    BY <1>3
<1>5. s[3] \in Nat /\ s[3] >= 1 /\ u[3] \in Nat /\ s = <<s[1], s[2], s[3]>> /\ u = <<u[1], u[2], u[3]>>
    BY <1>4, PreviousSlot
<1>6. v \in Slots /\ v[1] = u[1] /\ v[2] = u[2] /\ v[3] = u[3] - 1
    BY <1>4, <1>5, PreviousSlot DEF Previous
<1>7. Before[u] = Before[v] + Length[v]
    BY <1>4, <1>5, BeforeIs
<1>8. /\ Before[v] \in Nat /\ Length[v] \in Nat /\ Before[s] \in Nat /\ Length[s] \in Nat
    BY <1>6, BeforeNat, PreviousSlot
<1> HIDE DEF v
<1>9. CASE v[3] = s[3]
    <2>1. v = s
        <3>1. v = <<v[1], v[2], v[3]>>
            BY <1>6, PreviousSlot
        <3> QED BY <1>4, <1>5, <1>6, <1>9, <3>1
    <2> QED BY <1>4, <1>7, <1>8, <2>1
<1>10. CASE v[3] # s[3]
    <2>1. s[3] < v[3] /\ v[3] \in Nat
        BY <1>4, <1>5, <1>6, <1>10
    <2>2. ~Bad(v)
        <3>1. v[3] < n
            BY <1>3, <1>5, <1>6
        <3>2. v[3] \notin T
            <4> HIDE DEF T
            <4>1. n \in Nat
                BY <1>1
            <4> QED BY <1>2, <2>1, <3>1, <4>1
        <3> QED BY <2>1, <3>2
    <2>3. Before[s] + Length[s] <= Before[v]
        BY <1>4, <1>6, <2>1, <2>2
    <2> QED BY <1>4, <1>7, <1>8, <2>3
<1> QED BY <1>9, <1>10

-----------------------------------------------------------------------------
(* What lies at a sector. *)

Sectors == 0 .. Disk.total + MaxRead

\* Which partition owns a sector.
LEMMA OwnerIs ==
    ASSUME NEW a \in Sectors, NEW p
    PROVE  p \in Owners[a] <=>
               p \in DOMAIN Disk.parts /\ Part(p).offset <= a /\ a < Part(p).offset + Part(p).size
<1>1. Owners[a] = {q \in DOMAIN Disk.parts : Within(a, Part(q).offset, Part(q).size)}
    BY DEF Owners, Sectors
<1>2. \A q \in DOMAIN Disk.parts : Part(q).offset \in Nat /\ a \in Nat
    BY DiskTypes DEF Sectors
<1> QED BY <1>1, <1>2 DEF Within

\* Which extent covers it.
LEMMA CoverIs ==
    ASSUME NEW a \in Sectors, NEW p, NEW e
    PROVE  <<p, e>> \in Covering[a] <=>
               /\ p \in Owners[a] /\ e \in DOMAIN Part(p).extents
               /\ Part(p).offset + Part(p).extents[e].start <= a
               /\ a < Part(p).offset + Part(p).extents[e].start + Part(p).extents[e].count
<1>1. a \in DOMAIN Owners
    BY DEF Owners, Sectors
<1>2. Covering[a] = UNION {{<<q, d>> : d \in {f \in DOMAIN Part(q).extents :
          Within(a, Part(q).offset + Part(q).extents[f].start, Part(q).extents[f].count)}} :
              q \in Owners[a]}
    BY <1>1 DEF Covering
<1>3. <<p, e>> \in Covering[a] <=>
          /\ p \in Owners[a] /\ e \in DOMAIN Part(p).extents
          /\ Within(a, Part(p).offset + Part(p).extents[e].start, Part(p).extents[e].count)
    BY <1>2
<1>4. ASSUME p \in Owners[a], e \in DOMAIN Part(p).extents
      PROVE  Part(p).offset \in Nat /\ Part(p).extents[e].start \in Nat /\ a \in Nat
    <2>1. p \in DOMAIN Disk.parts
        BY <1>4, OwnerIs
    <2> QED BY <1>4, <2>1, DiskTypes DEF Sectors
<1> QED BY <1>3, <1>4 DEF Within

\* What covers a sector is an extent of a partition.
LEMMA CoverForm ==
    ASSUME NEW a \in Sectors, Covering[a] # {}
    PROVE  \E p, e : <<p, e>> \in Covering[a]
<1>1. a \in DOMAIN Owners
    BY DEF Owners, Sectors
<1>2. Covering[a] = UNION {{<<q, d>> : d \in {f \in DOMAIN Part(q).extents :
          Within(a, Part(q).offset + Part(q).extents[f].start, Part(q).extents[f].count)}} :
              q \in Owners[a]}
    BY <1>1 DEF Covering
<1> QED BY <1>2

\* Which chunk holds it.
LEMMA HolderIs ==
    ASSUME NEW a \in Sectors, NEW s
    PROVE  s \in Holding[a] <=>
               /\ s \in Slots /\ <<s[1], s[2]>> \in Covering[a]
               /\ Part(s[1]).offset + Extent(s).start + Before[s] <= a
               /\ a < Part(s[1]).offset + Extent(s).start + Before[s] + Length[s]
<1>1. a \in DOMAIN Owners
    BY DEF Owners, Sectors
<1>2. Holding[a] = {t \in Slots : /\ <<t[1], t[2]>> \in Covering[a]
                                  /\ Within(a, Part(t[1]).offset + Extent(t).start + Before[t],
                                            Length[t])}
    BY <1>1 DEF Holding, ChunkStart
<1>3. ASSUME s \in Slots
      PROVE  Part(s[1]).offset + Extent(s).start + Before[s] \in Nat /\ a \in Nat
    <2>1. Part(s[1]).offset \in Nat /\ Extent(s).start \in Nat
        BY <1>3, PreviousSlot, DiskTypes DEF Extent
    <2>2. Before[s] \in Nat
        BY <1>3, BeforeNat
    <2> QED BY <2>1, <2>2 DEF Sectors
<1> QED BY <1>2, <1>3 DEF Within

\* Partitions are apart, so a sector has at most one owner.
LEMMA OneOwner ==
    ASSUME NEW a \in Sectors, NEW p \in Owners[a], NEW q \in Owners[a]
    PROVE  p = q
<1>1. /\ p \in DOMAIN Disk.parts /\ Part(p).offset <= a /\ a < Part(p).offset + Part(p).size
      /\ q \in DOMAIN Disk.parts /\ Part(q).offset <= a /\ a < Part(q).offset + Part(q).size
    BY OwnerIs
<1>2. /\ p \in Nat /\ q \in Nat /\ a \in Nat
      /\ Part(p).offset \in Nat /\ Part(p).size \in Nat
      /\ Part(q).offset \in Nat /\ Part(q).size \in Nat
    BY <1>1, DiskTypes DEF Sectors
<1>3. /\ p < q => Part(p).offset + Part(p).size <= Part(q).offset
      /\ q < p => Part(q).offset + Part(q).size <= Part(p).offset
    BY <1>1, ChunkStoreAssumption DEF Part
<1> QED BY <1>1, <1>2, <1>3

\* So are extents, and chunks within them: a sector is held by at most one chunk.
LEMMA OneHolder ==
    ASSUME NEW a \in Sectors, NEW s \in Holding[a], NEW t \in Holding[a]
    PROVE  s = t
<1>1. /\ s \in Slots /\ <<s[1], s[2]>> \in Covering[a]
      /\ Part(s[1]).offset + Extent(s).start + Before[s] <= a
      /\ a < Part(s[1]).offset + Extent(s).start + Before[s] + Length[s]
    BY HolderIs
<1>2. /\ t \in Slots /\ <<t[1], t[2]>> \in Covering[a]
      /\ Part(t[1]).offset + Extent(t).start + Before[t] <= a
      /\ a < Part(t[1]).offset + Extent(t).start + Before[t] + Length[t]
    BY HolderIs
<1>3. s[1] \in Owners[a] /\ t[1] \in Owners[a]
    BY <1>1, <1>2, CoverIs
<1>4. s[1] = t[1]
    BY <1>3, OneOwner
<1>5. /\ s = <<s[1], s[2], s[3]>> /\ t = <<t[1], t[2], t[3]>>
      /\ s[1] \in DOMAIN Disk.parts /\ s[3] \in Nat /\ t[3] \in Nat
      /\ s[2] \in DOMAIN Part(s[1]).extents /\ t[2] \in DOMAIN Part(s[1]).extents
      /\ Length[s] \in Nat /\ Length[t] \in Nat
    BY <1>1, <1>2, <1>4, PreviousSlot
<1>6. s[2] = t[2]
    <2> DEFINE list == Part(s[1]).extents
    <2>1. /\ s[2] < t[2] => list[s[2]].start + list[s[2]].count <= list[t[2]].start
          /\ t[2] < s[2] => list[t[2]].start + list[t[2]].count <= list[s[2]].start
        BY <1>5, ChunkStoreAssumption DEF Part
    <2>2. /\ Part(s[1]).offset \in Nat /\ s[2] \in Nat /\ t[2] \in Nat /\ a \in Nat
          /\ list[s[2]].start \in Nat /\ list[s[2]].count \in Nat
          /\ list[t[2]].start \in Nat /\ list[t[2]].count \in Nat
        <3>1. Part(s[1]).offset \in Nat /\ a \in Nat
            BY <1>5, DiskTypes DEF Sectors
        <3>2. s[2] \in Nat /\ t[2] \in Nat
            <4>1. DOMAIN list = 1 .. Len(list) /\ Len(list) \in Nat
                BY <1>5, DiskTypes
            <4> HIDE DEF list
            <4> QED BY <1>5, <4>1 DEF list
        <3>3. /\ list[s[2]].start \in Nat /\ list[s[2]].count \in Nat
              /\ list[t[2]].start \in Nat /\ list[t[2]].count \in Nat
            BY <1>5, DiskTypes
        <3> QED BY <3>1, <3>2, <3>3
    <2>3. /\ Part(s[1]).offset + list[s[2]].start <= a
          /\ a < Part(s[1]).offset + list[s[2]].start + list[s[2]].count
          /\ Part(s[1]).offset + list[t[2]].start <= a
          /\ a < Part(s[1]).offset + list[t[2]].start + list[t[2]].count
        BY <1>1, <1>2, <1>4, CoverIs
    <2> HIDE DEF list
    <2> QED BY <2>1, <2>2, <2>3
<1>7. s[3] = t[3]
    <2>1. Extent(s) = Extent(t) /\ Extent(s).start \in Nat /\ Part(s[1]).offset \in Nat /\ a \in Nat
        BY <1>4, <1>5, <1>6, DiskTypes DEF Extent, Sectors
    <2>2. Before[s] \in Nat /\ Before[t] \in Nat
        BY <1>1, <1>2, BeforeNat
    <2>3. /\ s[3] < t[3] => Before[s] + Length[s] <= Before[t]
          /\ t[3] < s[3] => Before[t] + Length[t] <= Before[s]
        BY <1>1, <1>2, <1>4, <1>6, ChunksApart
    <2> QED BY <1>1, <1>2, <1>4, <1>5, <2>1, <2>2, <2>3
<1> QED BY <1>4, <1>5, <1>6, <1>7

\* A sector that no extent covers should read as zero.
LEMMA ExpectedZero == ASSUME NEW a, Covering[a] = {} PROVE Expected(a) = Zero
BY DEF Expected

\* One that an extent of p covers should read as the sector of p at that place.
LEMMA ExpectedData ==
    ASSUME NEW a \in Sectors, NEW p, NEW e, <<p, e>> \in Covering[a]
    PROVE  Expected(a) = <<p, a - Part(p).offset>>
<1>1. p \in Owners[a]
    BY CoverIs
<1>2. (CHOOSE q \in Owners[a] : TRUE) = p
    BY <1>1, OneOwner
<1> QED BY <1>2 DEF Expected
-----------------------------------------------------------------------------
(* A read. *)

Sector == Nat \X Nat

\* What a read has filled is what lies there; it goes on until it has all it asked for, and
\* fails only at a sector an extent covers, with every chunk that holds it known to fail.
ReadInv ==
    /\ read \in [offset : 0 .. Disk.total, len : 0 .. MaxRead]
    /\ buf \in Seq(Sector) /\ Len(buf) <= read.len
    /\ \A i \in 1 .. Len(buf) : buf[i] = Expected(read.offset + i - 1)
    /\ result \in {"busy", "ok", "error"}
    /\ result = "busy" => Len(buf) < read.len
    /\ result = "ok" => Len(buf) = read.len
    /\ result = "error" => /\ Len(buf) < read.len
                           /\ Covering[here] # {} /\ Holding[here] \subseteq failed

\* Where the read is, in numbers.
LEMMA HereIs ==
    ASSUME ReadInv
    PROVE  /\ here = read.offset + Len(buf) /\ left = read.len - Len(buf)
           /\ read.offset \in Nat /\ read.len \in Nat /\ Len(buf) \in Nat
           /\ here \in Nat /\ left \in Nat
           /\ \A n \in 0 .. left - 1 : here + n \in Sectors
<1>1. /\ read.offset \in 0 .. Disk.total /\ read.len \in 0 .. MaxRead /\ Len(buf) \in Nat
      /\ Len(buf) <= read.len
    BY DEF ReadInv
<1>2. Disk.total \in Nat /\ MaxRead \in Nat
    BY DiskTypes
<1>3. here = read.offset + Len(buf) /\ left = read.len - Len(buf)
    BY DEF here, left
<1>4. here \in Nat /\ left \in Nat
    BY <1>1, <1>2, <1>3
<1>5. ASSUME NEW n \in 0 .. left - 1 PROVE here + n \in Sectors
    <2>1. n \in Nat /\ n < left
        BY <1>4
    <2>2. here + n \in Nat /\ here + n <= Disk.total + MaxRead
        <3>1. read.offset <= Disk.total /\ read.len <= MaxRead /\ read.offset \in Nat /\ read.len \in Nat
            BY <1>1, <1>2
        <3>2. here + n < read.offset + read.len
            BY <1>1, <1>3, <2>1, <3>1
        <3> QED BY <1>2, <1>4, <2>1, <3>1, <3>2
    <2> QED BY <1>2, <2>2 DEF Sectors
<1> QED BY <1>1, <1>2, <1>3, <1>4, <1>5

\* Filling in what lies there keeps all of this.
LEMMA FillOk ==
    ASSUME ReadInv, result = "busy", read' = read,
           NEW v \in Seq(Sector), Len(v) <= left,
           \A i \in 1 .. Len(v) : v[i] = Expected(here + i - 1), Fill(v)
    PROVE  ReadInv'
<1>1. /\ here = read.offset + Len(buf) /\ left = read.len - Len(buf)
      /\ read.offset \in Nat /\ read.len \in Nat /\ Len(buf) \in Nat /\ Len(v) \in Nat
    BY HereIs
<1>2. /\ buf \in Seq(Sector) /\ \A i \in 1 .. Len(buf) : buf[i] = Expected(read.offset + i - 1)
    BY DEF ReadInv
<1>3. buf' = buf \o v /\ result' = IF Len(v) = left THEN "ok" ELSE "busy"
    BY DEF Fill
<1>4. /\ buf' \in Seq(Sector) /\ Len(buf') = Len(buf) + Len(v)
      /\ \A i \in 1 .. Len(buf) + Len(v) :
            buf'[i] = IF i <= Len(buf) THEN buf[i] ELSE v[i - Len(buf)]
    <2> HIDE DEF Sector
    <2>1. /\ buf \o v \in Seq(Sector) /\ Len(buf \o v) = Len(buf) + Len(v)
          /\ \A i \in 1 .. Len(buf) + Len(v) :
                (buf \o v)[i] = IF i <= Len(buf) THEN buf[i] ELSE v[i - Len(buf)]
        BY <1>2, ConcatProperties
    <2> QED BY <1>3, <2>1
<1>5. ASSUME NEW i \in 1 .. Len(buf') PROVE buf'[i] = Expected(read.offset + i - 1)
    <2>1. CASE i <= Len(buf)
        <3>1. i \in 1 .. Len(buf) /\ i \in 1 .. Len(buf) + Len(v)
            BY <1>1, <1>4, <2>1
        <3> QED BY <1>2, <1>4, <2>1, <3>1
    <2>2. CASE ~(i <= Len(buf))
        <3>1. i - Len(buf) \in 1 .. Len(v) /\ here + (i - Len(buf)) - 1 = read.offset + i - 1
            BY <1>1, <1>4, <2>2
        <3> QED BY <1>1, <1>4, <2>2, <3>1
    <2> QED BY <2>1, <2>2
<1>6. /\ Len(buf') <= read.len
      /\ result' = "busy" => Len(buf') < read.len
      /\ result' = "ok" => Len(buf') = read.len
      /\ result' \in {"busy", "ok"}
    <2>1. Len(buf') = Len(buf) + Len(v) /\ Len(v) <= read.len - Len(buf)
        BY <1>1, <1>4
    <2>2. CASE Len(v) = left
        BY <1>1, <1>3, <2>1, <2>2
    <2>3. CASE Len(v) # left
        BY <1>1, <1>3, <2>1, <2>3
    <2> QED BY <2>2, <2>3
<1>7. /\ read' \in [offset : 0 .. Disk.total, len : 0 .. MaxRead]
      /\ Len(buf') <= read'.len
      /\ \A i \in 1 .. Len(buf') : buf'[i] = Expected(read'.offset + i - 1)
    BY <1>5, <1>6 DEF ReadInv
<1> QED BY <1>4, <1>6, <1>7 DEF ReadInv

\* Zeros, where nothing covers the next sectors.
LEMMA ZerosOk ==
    ASSUME ReadInv, result = "busy", read' = read,
           NEW n \in 0 .. left, \A k \in 0 .. n - 1 : Covering[here + k] = {}, Fill(Zeros(n))
    PROVE  ReadInv'
<1>1. n \in Nat /\ here \in Nat /\ left \in Nat
    BY HereIs
<1>2. Zeros(n) \in Seq(Sector) /\ Len(Zeros(n)) = n /\ \A i \in 1 .. n : Zeros(n)[i] = Zero
    BY <1>1 DEF Zeros, Zero, Sector
<1>3. ASSUME NEW i \in 1 .. n PROVE Zeros(n)[i] = Expected(here + i - 1)
    <2>1. i - 1 \in 0 .. n - 1 /\ here + (i - 1) = here + i - 1
        BY <1>1
    <2> QED BY <1>2, <2>1, ExpectedZero
<1> QED BY <1>1, <1>2, <1>3, FillOk

\* Nothing covers a sector that no partition owns.
LEMMA NotOwned ==
    ASSUME NEW a \in Sectors, Owners[a] = {}
    PROVE  Covering[a] = {}
BY CoverForm, CoverIs

\* A new read begins with nothing.
LEMMA RequestOk == ASSUME Request PROVE ReadInv'
<1>1. PICK offset \in 0 .. Disk.total, len \in 1 .. MaxRead : read' = [offset |-> offset, len |-> len]
    BY DEF Request
<1>2. buf' = <<>> /\ result' = "busy"
    BY DEF Request
<1>3. MaxRead \in Nat
    BY DiskTypes
<1>4. read'.len = len /\ len >= 1 /\ len \in Nat
    BY <1>1, <1>3
<1>5. read' \in [offset : 0 .. Disk.total, len : 0 .. MaxRead]
    BY <1>1, <1>3
<1>6. Len(buf') = 0 /\ buf' \in Seq(Sector)
    BY <1>2
<1> QED BY <1>2, <1>4, <1>5, <1>6 DEF ReadInv

\* Behind the disk no partition lies.
LEMMA PastEndOk == ASSUME ReadInv, PastEnd PROVE ReadInv'
<1>1. /\ result = "busy" /\ here >= Disk.total /\ Fill(Zeros(left)) /\ read' = read
    BY DEF PastEnd
<1>2. here \in Nat /\ left \in Nat /\ \A n \in 0 .. left - 1 : here + n \in Sectors
    BY HereIs
<1>3. ASSUME NEW k \in 0 .. left - 1 PROVE Covering[here + k] = {}
    <2>1. here + k \in Sectors /\ here + k >= Disk.total /\ Disk.total \in Nat
        BY <1>1, <1>2, DiskTypes
    <2>2. ASSUME NEW p \in Owners[here + k] PROVE FALSE
        <3>1. p \in DOMAIN Disk.parts /\ here + k < Part(p).offset + Part(p).size
            BY <2>1, OwnerIs
        <3>2. /\ Part(p).offset \in Nat /\ Part(p).size \in Nat
              /\ Part(p).offset + Part(p).size <= Disk.total
            BY <3>1, DiskTypes
        <3> QED BY <1>2, <2>1, <3>1, <3>2
    <2> QED BY <2>1, <2>2, NotOwned
<1> QED BY <1>1, <1>2, <1>3, ZerosOk

\* A gap ends before the next partition.
LEMMA BetweenOk == ASSUME ReadInv, BetweenPartitions PROVE ReadInv'
<1> DEFINE later == {Part(p).offset : p \in DOMAIN Disk.parts} \ (0 .. here)
           next == IF later = {} THEN Disk.total ELSE Min(later)
           n == Min({next - here, left})
<1>1. /\ result = "busy" /\ here < Disk.total /\ Owners[here] = {} /\ Fill(Zeros(n)) /\ read' = read
    BY DEF BetweenPartitions
<1>2. /\ here \in Nat /\ left \in Nat /\ Disk.total \in Nat
      /\ \A k \in 0 .. left - 1 : here + k \in Sectors
    BY HereIs, DiskTypes
<1>3. later \subseteq Nat
    BY DiskTypes
<1>4. next \in Nat /\ next > here /\ \A m \in later : next <= m
    <2>1. CASE later = {}
        BY <1>1, <1>2, <2>1
    <2>2. CASE later # {}
        <3>1. Min(later) \in later /\ \A m \in later : Min(later) <= m
            <4> HIDE DEF later
            <4> QED BY <1>3, <2>2, Least
        <3>2. Min(later) \in Nat /\ Min(later) > here
            BY <1>2, <1>3, <3>1
        <3> QED BY <2>2, <3>1, <3>2
    <2> QED BY <2>1, <2>2
<1> HIDE DEF next
<1>5. n \in Nat /\ n <= next - here /\ n <= left
    <2>1. next - here \in Nat
        BY <1>2, <1>4
    <2> QED BY <1>2, <2>1, MinOfTwo
<1> HIDE DEF n
<1>6. ASSUME NEW k \in 0 .. n - 1 PROVE Covering[here + k] = {}
    <2>1. k \in Nat /\ k < left /\ k < next - here
        BY <1>2, <1>4, <1>5
    <2>2. here + k \in Sectors /\ here \in Sectors
        <3>1. k \in 0 .. left - 1 /\ 0 \in 0 .. left - 1
            BY <1>2, <2>1
        <3> QED BY <1>2, <3>1
    <2>3. ASSUME NEW p \in Owners[here + k] PROVE FALSE
        <3>1. /\ p \in DOMAIN Disk.parts /\ Part(p).offset <= here + k
              /\ here + k < Part(p).offset + Part(p).size
            BY <2>2, OwnerIs
        <3>2. Part(p).offset \in Nat /\ Part(p).size \in Nat
            BY <3>1, DiskTypes
        <3>3. CASE Part(p).offset <= here
            <4>1. p \in Owners[here]
                BY <1>2, <2>1, <2>2, <3>1, <3>2, <3>3, OwnerIs
            <4> QED BY <1>1, <4>1
        <3>4. CASE Part(p).offset > here
            <4>1. Part(p).offset \in later
                BY <1>2, <3>1, <3>2, <3>4
            <4> QED BY <1>2, <1>4, <2>1, <3>1, <3>2, <4>1
        <3> QED BY <1>2, <3>2, <3>3, <3>4
    <2> QED BY <2>2, <2>3, NotOwned
<1> QED BY <1>1, <1>2, <1>5, <1>6, ZerosOk

\* The partition that owns the sector the read is at.
LEMMA OwnerNow ==
    ASSUME ReadInv, InPartition
    PROVE  \E p \in Owners[here] :
              /\ p \in DOMAIN Disk.parts /\ OwnerHere = Part(p) /\ here \in Sectors
              /\ Part(p).offset <= here /\ PartLeft \in Nat /\ PartLeft > 0
              /\ PartLeft = Part(p).offset + Part(p).size - here
<1> DEFINE p == CHOOSE q \in Owners[here] : TRUE
<1>1. result = "busy" /\ Owners[here] # {}
    BY DEF InPartition
<1>2. p \in Owners[here]
    BY <1>1
<1>3. here \in Sectors /\ here \in Nat
    <2>1. left \in Nat /\ left > 0
        BY <1>1, HereIs DEF ReadInv
    <2>2. 0 \in 0 .. left - 1
        BY <2>1
    <2>3. here + 0 \in Sectors /\ here \in Nat
        BY <2>2, HereIs
    <2> QED BY <2>3
<1> HIDE DEF p
<1>4. p \in DOMAIN Disk.parts /\ Part(p).offset <= here /\ here < Part(p).offset + Part(p).size
    BY <1>2, <1>3, OwnerIs
<1>5. Part(p).offset \in Nat /\ Part(p).size \in Nat
    BY <1>4, DiskTypes
<1>6. OwnerHere = Part(p) /\ PartLeft = Part(p).offset + Part(p).size - here
    BY DEF OwnerHere, PartLeft, p
<1> QED BY <1>2, <1>3, <1>4, <1>5, <1>6

\* The least of three numbers.
LEMMA MinOfThree ==
    ASSUME NEW a \in Nat, NEW b \in Nat, NEW c \in Nat
    PROVE  /\ Min({a, b, c}) \in Nat /\ Min({a, b, c}) \in {a, b, c}
           /\ Min({a, b, c}) <= a /\ Min({a, b, c}) <= b /\ Min({a, b, c}) <= c
<1>1. {a, b, c} \subseteq Nat /\ {a, b, c} # {}
    OBVIOUS
<1>2. Min({a, b, c}) \in {a, b, c} /\ \A m \in {a, b, c} : Min({a, b, c}) <= m
    BY <1>1, Least
<1> QED BY <1>2

\* Free space ends before the next extent, and with its partition.
LEMMA FreeOk == ASSUME ReadInv, FreeSpace PROVE ReadInv'
<1>1. InPartition /\ Covering[here] = {} /\ Fill(Zeros(Min({left, PartLeft, GapLength}))) /\ read' = read
    BY DEF FreeSpace
<1>2. PICK p \in Owners[here] :
          /\ p \in DOMAIN Disk.parts /\ OwnerHere = Part(p) /\ here \in Sectors
          /\ Part(p).offset <= here /\ PartLeft \in Nat /\ PartLeft > 0
          /\ PartLeft = Part(p).offset + Part(p).size - here
    BY <1>1, OwnerNow
<1>3. /\ here \in Nat /\ left \in Nat /\ \A k \in 0 .. left - 1 : here + k \in Sectors
      /\ Part(p).offset \in Nat /\ Part(p).size \in Nat /\ result = "busy"
    BY <1>1, <1>2, HereIs, DiskTypes DEF InPartition
<1>4. GapLength \in Nat /\ \A m \in ExtentsAhead : GapLength <= m
    <2>1. ExtentsAhead \subseteq Nat
        BY <1>2 DEF ExtentsAhead
    <2>2. CASE ExtentsAhead = {}
        BY <1>2, <2>2 DEF GapLength
    <2>3. CASE ExtentsAhead # {}
        <3>1. Min(ExtentsAhead) \in ExtentsAhead /\ \A m \in ExtentsAhead : Min(ExtentsAhead) <= m
            BY <2>1, <2>3, Least
        <3> QED BY <2>1, <2>3, <3>1 DEF GapLength
    <2> QED BY <2>2, <2>3
<1> DEFINE n == Min({left, PartLeft, GapLength})
<1>5. n \in Nat /\ n <= left /\ n <= PartLeft /\ n <= GapLength
    BY <1>2, <1>3, <1>4, MinOfThree
<1> HIDE DEF n
<1>6. ASSUME NEW k \in 0 .. n - 1 PROVE Covering[here + k] = {}
    <2>1. k \in Nat /\ k < left /\ k < PartLeft /\ k < GapLength
        BY <1>2, <1>3, <1>4, <1>5
    <2>2. here + k \in Sectors
        <3>1. k \in 0 .. left - 1
            BY <1>3, <2>1
        <3> QED BY <1>3, <3>1
    <2>3. p \in Owners[here + k]
        BY <1>2, <1>3, <2>1, <2>2, OwnerIs
    <2>4. ASSUME NEW q, NEW e, <<q, e>> \in Covering[here + k] PROVE FALSE
        <3>1. q = p
            <4>1. q \in Owners[here + k]
                BY <2>2, <2>4, CoverIs
            <4> QED BY <2>2, <2>3, <4>1, OneOwner
        <3> DEFINE start == Part(p).extents[e].start
                   count == Part(p).extents[e].count
        <3>2. /\ e \in DOMAIN Part(p).extents
              /\ Part(p).offset + start <= here + k /\ here + k < Part(p).offset + start + count
            BY <2>2, <2>4, <3>1, CoverIs
        <3>3. start \in Nat /\ count \in Nat
            BY <1>2, <3>2, DiskTypes
        <3> HIDE DEF start, count
        <3>4. CASE Part(p).offset + start <= here
            <4>1. <<p, e>> \in Covering[here]
                BY <1>2, <1>3, <2>1, <3>2, <3>3, <3>4, CoverIs DEF start, count
            <4> QED BY <1>1, <4>1
        <3>5. CASE Part(p).offset + start > here
            <4>1. Part(p).offset + start - here \in 1 .. PartLeft
                BY <1>2, <1>3, <2>1, <3>2, <3>3, <3>5
            <4>2. Part(p).offset + start - here \in ExtentsAhead
                BY <1>2, <3>2, <4>1 DEF ExtentsAhead, start
            <4> QED BY <1>3, <1>4, <2>1, <3>2, <3>3, <4>2
        <3> QED BY <1>3, <3>3, <3>4, <3>5
    <2> QED BY <2>2, <2>4, CoverForm
<1>7. n \in 0 .. left /\ Fill(Zeros(n))
    BY <1>1, <1>3, <1>5 DEF n
<1> QED BY <1>1, <1>3, <1>6, <1>7, ZerosOk

\* Where no chunk holds the sector, none had to be loaded.
LEMMA NotCoveredOk == ASSUME ReadInv, NotCovered PROVE ReadInv'
<1>1. /\ result = "busy" /\ Covering[here] # {} /\ Holding[here] = {} /\ result' = "error"
      /\ read' = read /\ buf' = buf /\ failed' = failed
    BY DEF NotCovered, InPartition
<1>2. here' = here
    BY <1>1 DEF here
<1> QED BY <1>1, <1>2 DEF ReadInv
\* The sectors a chunk gives are those the read asks for.
LEMMA ChunkBytes ==
    ASSUME ReadInv, InPartition, NEW s \in Holding[here], NEW n,
           n = Min({here - Part(s[1]).offset - Extent(s).start - ChunkStart[s] + left,
                    here - Part(s[1]).offset - Extent(s).start - ChunkStart[s] + PartLeft,
                    Length[s]})
    PROVE  LET skip == here - Part(s[1]).offset - Extent(s).start - ChunkStart[s]
               v == SubSeq(GoodBytes[s], skip + 1, n)
           IN  /\ v \in Seq(Sector) /\ Len(v) <= left
               /\ \A i \in 1 .. Len(v) : v[i] = Expected(here + i - 1)
<1> DEFINE off == Part(s[1]).offset
           start == Extent(s).start
           skip == here - off - start - ChunkStart[s]
           v == SubSeq(GoodBytes[s], skip + 1, n)
<1>1. PICK p \in Owners[here] :
          /\ p \in DOMAIN Disk.parts /\ OwnerHere = Part(p) /\ here \in Sectors
          /\ Part(p).offset <= here /\ PartLeft \in Nat /\ PartLeft > 0
          /\ PartLeft = Part(p).offset + Part(p).size - here
    BY OwnerNow
<1>2. /\ here \in Nat /\ left \in Nat /\ left > 0 /\ \A k \in 0 .. left - 1 : here + k \in Sectors
    BY HereIs DEF InPartition, ReadInv
<1>3. /\ s \in Slots /\ <<s[1], s[2]>> \in Covering[here]
      /\ off + start + Before[s] <= here /\ here < off + start + Before[s] + Length[s]
    BY <1>1, HolderIs
<1>4. /\ s[1] \in DOMAIN Disk.parts /\ s[2] \in DOMAIN Part(s[1]).extents
      /\ Length[s] \in Nat /\ Before[s] \in Nat /\ Extent(s) = Part(s[1]).extents[s[2]]
    BY <1>3, PreviousSlot, BeforeNat DEF Extent
<1>5. s[1] = p
    BY <1>1, <1>3, CoverIs, OneOwner
<1>6. off \in Nat /\ Part(p).size \in Nat /\ start \in Nat /\ Extent(s).count \in Nat
      /\ start + Extent(s).count <= Part(p).size /\ p \in Nat
    BY <1>4, <1>5, DiskTypes
<1>7. ChunkStart[s] = Before[s] /\ Before[s] + Length[s] <= Extent(s).count
    BY <1>3, ChunksAssumption DEF ChunkStart
<1> HIDE DEF off, start
<1>8. skip = here - off - start - Before[s] /\ skip \in Nat /\ skip < Length[s]
    BY <1>2, <1>3, <1>4, <1>6, <1>7
<1>9. n \in Nat /\ n <= skip + left /\ n <= skip + PartLeft /\ n <= Length[s] /\ n > skip
    <2>1. skip + left \in Nat /\ skip + PartLeft \in Nat /\ Length[s] \in Nat
        BY <1>1, <1>2, <1>4, <1>8
    <2>2. n = Min({skip + left, skip + PartLeft, Length[s]})
        BY DEF off, start
    <2> HIDE DEF skip
    <2>3. /\ n \in Nat /\ n \in {skip + left, skip + PartLeft, Length[s]}
          /\ n <= skip + left /\ n <= skip + PartLeft /\ n <= Length[s]
        BY <2>1, <2>2, MinOfThree
    <2> QED BY <1>1, <1>2, <1>8, <2>3
<1> HIDE DEF skip
<1>10. /\ GoodBytes[s] \in Seq(Sector) /\ Len(GoodBytes[s]) = Length[s]
       /\ \A i \in 1 .. Length[s] : GoodBytes[s][i] = <<p, start + Before[s] + i - 1>>
    <2>1. GoodBytes[s] = [i \in 1 .. Length[s] |-> <<s[1], start + Before[s] + i - 1>>]
        BY <1>3 DEF GoodBytes, start
    <2>2. ASSUME NEW i \in 1 .. Length[s] PROVE <<p, start + Before[s] + i - 1>> \in Sector
        BY <1>4, <1>6, <2>2 DEF Sector
    <2> QED BY <1>4, <1>5, <2>1, <2>2
<1>11. /\ v \in Seq(Sector) /\ Len(v) = n - skip
       /\ \A i \in 1 .. n - skip : v[i] = GoodBytes[s][skip + i]
    <2> DEFINE good == GoodBytes[s]
    <2>1. good \in Seq(Sector) /\ Len(good) = Length[s]
        BY <1>10
    <2> HIDE DEF Sector, good
    <2>2. skip + 1 \in 1 .. Len(good) + 1 /\ n \in 1 - 1 .. Len(good)
        BY <1>4, <1>8, <1>9, <2>1
    <2>3. PICK m : m = skip + 1
        OBVIOUS
    <2>4. m \in Int /\ n \in Int /\ \A i \in m .. n : good[i] \in Sector
        <3>1. ASSUME NEW i \in m .. n PROVE good[i] \in Sector
            <4>1. i \in 1 .. Len(good)
                BY <1>8, <2>2, <2>3
            <4> QED BY <2>1, <4>1
        <3>2. m \in Int /\ n \in Int
            BY <1>8, <1>9, <2>3
        <3>3. \A i \in m .. n : good[i] \in Sector
            BY <3>1, Zenon
        <3> QED BY <3>2, <3>3, Zenon
    <2> DEFINE w == SubSeq(good, m, n)
    <2>5. /\ w \in Seq(Sector) /\ Len(w) = (IF m <= n THEN n - m + 1 ELSE 0)
          /\ \A i \in 1 .. n - m + 1 : w[i] = good[m + i - 1]
        <3>1. w \in Seq(Sector)
            BY <2>4, SubSeqProperties
        <3>2. Len(w) = (IF m <= n THEN n - m + 1 ELSE 0)
            BY <2>4, SubSeqProperties
        <3>3. \A i \in 1 .. n - m + 1 : w[i] = good[m + i - 1]
            BY <2>4, SubSeqProperties
        <3> QED BY <3>1, <3>2, <3>3
    <2>6. v = w
        BY <2>3 DEF v, good
    <2> HIDE DEF w
    <2>7. Len(w) = n - skip
        BY <1>8, <1>9, <2>3, <2>5
    <2>8. ASSUME NEW i \in 1 .. n - skip PROVE w[i] = good[skip + i]
        <3>1. i \in 1 .. n - m + 1 /\ m + i - 1 = skip + i
            BY <1>8, <1>9, <2>3
        <3> QED BY <2>5, <3>1
    <2> QED BY <2>5, <2>6, <2>7, <2>8 DEF good
<1> HIDE DEF v
<1>12. ASSUME NEW i \in 1 .. n - skip PROVE v[i] = Expected(here + i - 1)
    <2>1. i \in Nat /\ i >= 1 /\ i <= n - skip /\ skip + i \in 1 .. Length[s]
        BY <1>4, <1>8, <1>9
    <2>2. v[i] = <<p, start + Before[s] + (skip + i) - 1>>
        BY <1>10, <1>11, <2>1
    <2>3. here + i - 1 \in Sectors
        <3>1. i - 1 \in 0 .. left - 1 /\ here + (i - 1) = here + i - 1
            BY <1>2, <1>8, <1>9, <2>1
        <3> QED BY <1>2, <3>1
    <2>4. p \in Owners[here + i - 1]
        <3>1. here + i - 1 < off + Part(p).size /\ off <= here + i - 1
            BY <1>1, <1>2, <1>5, <1>6, <1>8, <1>9, <2>1 DEF off
        <3> QED BY <1>1, <1>5, <2>3, <3>1, OwnerIs DEF off
    <2>5. <<p, s[2]>> \in Covering[here + i - 1]
        <3>1. off + start <= here + i - 1 /\ here + i - 1 < off + start + Extent(s).count
            BY <1>2, <1>3, <1>4, <1>6, <1>7, <1>8, <1>9, <2>1
        <3> QED BY <1>4, <1>5, <2>3, <2>4, <3>1, CoverIs DEF off, start
    <2>6. Expected(here + i - 1) = <<p, here + i - 1 - off>>
        <3>1. Expected(here + i - 1) = <<p, here + i - 1 - Part(p).offset>>
            <4>1. PICK a : a = here + i - 1
                OBVIOUS
            <4>2. a \in Sectors /\ <<p, s[2]>> \in Covering[a]
                BY <2>3, <2>5, <4>1
            <4>3. Expected(a) = <<p, a - Part(p).offset>>
                BY <4>2, ExpectedData
            <4>4. Expected(here + i - 1) = Expected(a)
                BY <4>1
            <4>5. a - Part(p).offset = here + i - 1 - Part(p).offset
                <5>1. here \in Nat /\ i \in Int /\ Part(p).offset \in Nat
                    BY <1>1, <1>2, <2>1, DiskTypes
                <5> QED BY <4>1, <5>1
            <4> QED BY <4>3, <4>4, <4>5
        <3> QED BY <1>5, <3>1 DEF off
    <2>7. start + Before[s] + (skip + i) - 1 = here + i - 1 - off
        BY <1>2, <1>4, <1>6, <1>8, <2>1
    <2> QED BY <2>2, <2>6, <2>7
<1>13. Len(v) <= left
    BY <1>2, <1>8, <1>9, <1>11
<1> QED BY <1>11, <1>12, <1>13 DEF v, skip, off, start

\* A chunk is had, from the cache or from the file, or the read fails for its own chunk.
LEMMA ChunkRead ==
    ASSUME ReadInv, StoreOk(cache, order, uses), ReadChunk
    PROVE  ReadInv' /\ StoreOk(cache', order', uses')
<1> DEFINE s == CHOOSE t \in Holding[here] : TRUE
           skip == here - Part(s[1]).offset - Extent(s).start - ChunkStart[s]
           n == Min({skip + left, skip + PartLeft, Length[s]})
<1>1. /\ InPartition /\ Holding[here] # {} /\ read' = read
      /\ \E loaded \in Load(Store, s) :
            IF loaded.got
            THEN \E st \in IF Ahead(s) THEN Prefetch(loaded.st, <<s[1], s[2], s[3] + 1>>)
                           ELSE {loaded.st} :
                    /\ cache' = st.cache /\ order' = st.order /\ uses' = st.uses
                    /\ Fill(SubSeq(Bytes(s, loaded.st.cache[s]), skip + 1, n))
            ELSE /\ result' = "error" /\ failed' = failed \union {s}
                 /\ UNCHANGED <<cache, order, uses, last, buf>>
    BY DEF ReadChunk
<1>2. s \in Holding[here] /\ result = "busy"
    BY <1>1 DEF InPartition
<1> HIDE DEF s, skip, n
<1>3. here \in Sectors
    BY <1>1, OwnerNow
<1>4. s \in Slots
    BY <1>2, <1>3, HolderIs
<1>5. IsStore(Store)
    BY DEF IsStore, Store
<1>6. PICK loaded \in Load(Store, s) :
            IF loaded.got
            THEN \E st \in IF Ahead(s) THEN Prefetch(loaded.st, <<s[1], s[2], s[3] + 1>>)
                           ELSE {loaded.st} :
                    /\ cache' = st.cache /\ order' = st.order /\ uses' = st.uses
                    /\ Fill(SubSeq(Bytes(s, loaded.st.cache[s]), skip + 1, n))
            ELSE /\ result' = "error" /\ failed' = failed \union {s}
                 /\ UNCHANGED <<cache, order, uses, last, buf>>
    BY <1>1
<1>7. /\ IsStore(loaded.st) /\ loaded.got \in BOOLEAN
      /\ loaded.got => s \in DOMAIN loaded.st.cache /\ loaded.st.cache[s] = "good"
    BY <1>4, <1>5, LoadStore
<1>8. CASE loaded.got
    <2>1. PICK st \in IF Ahead(s) THEN Prefetch(loaded.st, <<s[1], s[2], s[3] + 1>>)
                      ELSE {loaded.st} :
              /\ cache' = st.cache /\ order' = st.order /\ uses' = st.uses
              /\ Fill(SubSeq(Bytes(s, loaded.st.cache[s]), skip + 1, n))
        BY <1>6, <1>8
    <2>2. IsStore(st)
        <3>1. CASE Ahead(s)
            <4> DEFINE next == <<s[1], s[2], s[3] + 1>>
            <4>1. /\ s[1] \in DOMAIN Disk.parts /\ s[2] \in DOMAIN Part(s[1]).extents
                  /\ Extent(s).lens \in Seq(Nat) /\ s[3] \in 1 .. Len(Extent(s).lens)
                BY <1>4, PreviousSlot
            <4>2. s[3] + 1 \in DOMAIN Part(s[1]).extents[s[2]].lens
                BY <3>1, <4>1 DEF Ahead, Extent
            <4>3. next \in Slots
                BY <4>1, <4>2, SlotForm
            <4>4. st \in Prefetch(loaded.st, next)
                BY <2>1, <3>1
            <4> HIDE DEF next
            <4> QED BY <1>7, <4>3, <4>4, PrefetchStore
        <3>2. CASE ~Ahead(s)
            BY <1>7, <2>1, <3>2
        <3> QED BY <3>1, <3>2
    <2>3. StoreOk(cache', order', uses')
        BY <2>1, <2>2 DEF IsStore
    <2> DEFINE v == SubSeq(GoodBytes[s], skip + 1, n)
    <2>4. Fill(v)
        BY <1>7, <1>8, <2>1 DEF Bytes
    <2>5. v \in Seq(Sector) /\ Len(v) <= left /\ \A i \in 1 .. Len(v) : v[i] = Expected(here + i - 1)
        BY <1>1, <1>2, ChunkBytes DEF skip, n
    <2> HIDE DEF v
    <2> QED BY <1>1, <1>2, <2>3, <2>4, <2>5, FillOk
<1>9. CASE ~loaded.got
    <2>1. /\ result' = "error" /\ failed' = failed \union {s} /\ buf' = buf
          /\ UNCHANGED <<cache, order, uses>>
        BY <1>6, <1>9
    <2>2. here' = here
        BY <1>1, <2>1 DEF here
    <2>3. Holding[here] \subseteq {s}
        BY <1>2, <1>3, OneHolder
    <2>4. Covering[here] # {}
        BY <1>2, <1>3, HolderIs
    <2> QED BY <1>1, <1>2, <2>1, <2>2, <2>3, <2>4 DEF ReadInv
<1> QED BY <1>7, <1>8, <1>9

-----------------------------------------------------------------------------
(* The theorems. *)

ChunkStoreInv == ReadInv /\ StoreOk(cache, order, uses)

\* Every read and every step of one keeps the invariant.
LEMMA ChunkStoreStep == ASSUME ChunkStoreInv, [Next]_vars PROVE ChunkStoreInv'
<1> USE DEF ChunkStoreInv
<1>1. ASSUME UNCHANGED <<cache, order, uses>>, ReadInv' PROVE ChunkStoreInv'
    BY <1>1
<1>2. CASE Request
    BY <1>1, <1>2, RequestOk DEF Request
<1>3. CASE PastEnd
    BY <1>1, <1>3, PastEndOk DEF PastEnd
<1>4. CASE BetweenPartitions
    BY <1>1, <1>4, BetweenOk DEF BetweenPartitions
<1>5. CASE FreeSpace
    BY <1>1, <1>5, FreeOk DEF FreeSpace
<1>6. CASE NotCovered
    BY <1>1, <1>6, NotCoveredOk DEF NotCovered
<1>7. CASE ReadChunk
    BY <1>7, ChunkRead
<1>8. CASE UNCHANGED vars
    <2>1. UNCHANGED <<cache, order, uses, read, buf, result, failed>>
        BY <1>8 DEF vars
    <2>2. ReadInv'
        BY <2>1 DEF ReadInv, here
    <2> QED BY <1>1, <2>1, <2>2
<1> QED BY <1>2, <1>3, <1>4, <1>5, <1>6, <1>7, <1>8 DEF Next, Serve

\* The first state: an empty cache, and an empty read that is done.
LEMMA ChunkStoreStart == ASSUME Init PROVE ChunkStoreInv
<1>1. /\ cache = <<>> /\ order = <<>> /\ read = [offset |-> 0, len |-> 0] /\ buf = <<>>
      /\ result = "ok" /\ uses = <<>>
    BY DEF Init
<1>2. Disk.total \in Nat /\ MaxRead \in Nat /\ CacheCap \in Nat
    BY DiskTypes, ChunkStoreAssumption
<1>3. ReadInv
    BY <1>1, <1>2 DEF ReadInv
<1>4. StoreOk(cache, order, uses)
    BY <1>1, <1>2 DEF StoreOk, Distinct, IsEnd, ToSet
<1> QED BY <1>3, <1>4 DEF ChunkStoreInv

\* Hence it holds of every run.
LEMMA ChunkStoreInvHolds == Spec => []ChunkStoreInv
<1>1. Init => ChunkStoreInv
    BY ChunkStoreStart
<1>2. ChunkStoreInv /\ [Next]_vars => ChunkStoreInv'
    BY ChunkStoreStep
<1> QED BY <1>1, <1>2, PTL DEF Spec

\* For any disk, any reads and any chunks that fail, at any time: a read that succeeds gives
\* exactly the captured sectors, and zeros elsewhere, and one that fails does so at a sector
\* it asks for, whose own chunk could not be had.
THEOREM ReadTheorem == Spec => []ReadsAreFaithful
<1>1. ASSUME ChunkStoreInv PROVE ReadsAreFaithful
    <2>1. ReadInv
        BY <1>1 DEF ChunkStoreInv
    <2>2. /\ read.offset \in Nat /\ read.len \in Nat /\ Len(buf) \in Nat
          /\ left = read.len - Len(buf)
        BY <2>1, HereIs
    <2>3. ASSUME result = "ok"
          PROVE  buf = [i \in 1 .. read.len |-> Expected(read.offset + i - 1)]
        <3>1. /\ buf \in Seq(Sector) /\ Len(buf) = read.len
              /\ \A i \in 1 .. Len(buf) : buf[i] = Expected(read.offset + i - 1)
            BY <2>1, <2>3 DEF ReadInv
        <3>2. buf = [i \in 1 .. Len(buf) |-> buf[i]]
            BY <3>1
        <3> QED BY <3>1, <3>2
    <2> QED BY <2>1, <2>2, <2>3 DEF ReadsAreFaithful, ReadInv
<1> QED BY <1>1, ChunkStoreInvHolds, PTL

\* For any size of the cache and any order of reads, hits, misses and readahead: it holds
\* the most recently used of all chunks ever cached, in that order, each once.
THEOREM RecentTheorem == Spec => []MostRecentKept
<1>1. ASSUME ChunkStoreInv PROVE MostRecentKept
    <2>1. /\ order \in Seq(Slots) /\ uses \in Seq(Slots) /\ Len(order) <= CacheCap
          /\ (Len(order) = CacheCap \/ Len(order) = Len(uses)) /\ IsEnd(order, uses)
        BY <1>1 DEF ChunkStoreInv, StoreOk
    <2>2. CacheCap \in Nat /\ Len(order) \in Nat /\ Len(uses) \in Nat /\ Len(order) <= Len(uses)
        BY <2>1, ChunkStoreAssumption DEF IsEnd
    <2>3. Len(order) = Min({CacheCap, Len(uses)})
        BY <2>1, <2>2, MinOfTwo
    <2> DEFINE d == Len(uses) - Len(order)
               end == SubSeq(uses, d + 1, Len(uses))
    <2>4. d \in Nat /\ d <= Len(uses)
        BY <2>2
    <2>5. /\ end \in Seq(Slots) /\ Len(end) = Len(order)
          /\ \A i \in 1 .. Len(order) : end[i] = uses[d + i]
        BY <2>1, <2>2, <2>4
    <2> HIDE DEF end
    <2>6. order = end
        <3>1. \A i \in 1 .. Len(order) : order[i] = end[i]
            BY <2>1, <2>5 DEF IsEnd
        <3> QED BY <2>1, <2>5, <3>1, SeqEqual
    <2> QED BY <2>3, <2>6 DEF MostRecentKept, end
<1> QED BY <1>1, ChunkStoreInvHolds, PTL
=============================================================================
