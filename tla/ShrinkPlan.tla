----------------------------- MODULE ShrinkPlan -----------------------------
(* Planning an NTFS shrink (phoenix-restore/src/relocation.rs with
   phoenix-capture/src/ntfs_preflight.rs): every used cluster past the new end
   gets a place in free space before it, and the run lists that follow must fit
   their MFT records.  A map is a function of clusters; its entries, and the runs
   of the free space, are the maximal intervals of the sets used here. *)
EXTENDS VolumeImage

CONSTANT MaxPasses  \* MAX_REPLAN_PASSES
ASSUME PassesAssumption == MaxPasses \in Nat

VARIABLES
    place,      \* the relocation map
    todo,       \* pieces that still need a place
    rest,       \* what is left of a piece that did not fit whole (at most one)
    mode,       \* "pack" the volume, or "scatter" what was evicted
    before,     \* the map to go back to when an eviction fails
    queue,      \* records that overflow, still to be re-planned in this pass
    pass, improved
planVars == <<place, todo, rest, mode, before, queue, pass, improved>>

SafeMax == Target - 1
Above == {c \in captured : c > SafeMax}
Kept == captured \ Above
FreeBelow == (0..SafeMax) \ Kept
Placed(m) == {m[c] : c \in DOMAIN m}
Pool(m) == FreeBelow \ Placed(m)
Translate(c) == IF c \in DOMAIN place THEN place[c] ELSE c

\* An interval of clusters, and the maximal ones of a set.
Interval(r) == r.lcn..(r.lcn + r.len - 1)
RunAt(lcn, len) == [lcn |-> lcn, len |-> len]
Starts(S) == {c \in S : c - 1 \notin S}
Ends(S) == {c \in S : c + 1 \notin S}
Runs(S) ==
    {RunAt(x[1], x[2] - x[1] + 1) :
        x \in {y \in Starts(S) \X Ends(S) : y[1] <= y[2] /\ y[1]..y[2] \subseteq S}}
\* Smallest run of at least n clusters, and the largest; the lowest of equals.
BestFit(S, n) ==
    LET fits == {r \in Runs(S) : r.len >= n}
    IN  {r \in fits : \A q \in fits : r.len < q.len \/ (r.len = q.len /\ r.lcn <= q.lcn)}
Largest(S) ==
    {r \in Runs(S) : \A q \in Runs(S) : r.len > q.len \/ (r.len = q.len /\ r.lcn <= q.lcn)}

Unplaced == UNION {Interval(r) : r \in todo \cup rest}
Without(m, S) == [c \in DOMAIN m \ S |-> m[c]]
Moved(m, r, dst) ==
    [c \in DOMAIN m \cup Interval(r) |-> IF c \in Interval(r) THEN dst + (c - r.lcn) ELSE m[c]]
\* The clusters of S, in order, side by side from dst.
SideBySide(m, S, dst) ==
    [c \in DOMAIN m \cup S |->
        IF c \in S THEN dst + Cardinality({d \in S : d < c}) ELSE m[c]]

------------------------------------------------------------------------------
(* A record names its clusters in file order; a run list breaks at the record's
   cuts and wherever two clusters of a run stop being neighbours.  A record's
   attribute is grown, never shrunk. *)

Relocate(cs) == [i \in DOMAIN cs |-> IF cs[i] = Sparse THEN Sparse ELSE Translate(cs[i])]
NeededRuns(cs, cuts) ==
    Cardinality({i \in DOMAIN cs :
        i \in cuts \/ (cs[i] # Sparse /\ Translate(cs[i]) # Translate(cs[i - 1]) + 1)})
Records == DOMAIN Vol.runs
Overflows == {r \in Records : NeededRuns(Vol.runs[r], Vol.cuts[r]) > Vol.room[r]}
AboveOf(r) == {c \in Range(Vol.runs[r]) : c > SafeMax}

------------------------------------------------------------------------------
(* validate_extents_fit and the capacity check. *)

Refuse == phase' = "refused" /\ UNCHANGED <<job, captureVars, planVars>>
FitWithoutPlan ==
    /\ phase = "fit" /\ ~(IsKind("ntfs") /\ Shrinking)
    /\ ~Shrinking \/ (~IsKind("refs") /\ captured \subseteq 0..SafeMax)
    /\ phase' = "stream"
    /\ UNCHANGED <<job, captureVars, planVars>>
\* Data past the end, ReFS, or a request to convert sectors as well.
FitRefuses ==
    /\ phase = "fit" /\ Shrinking
    /\ \/ ~IsKind("ntfs") /\ (IsKind("refs") \/ ~(captured \subseteq 0..SafeMax))
       \/ IsKind("ntfs") /\ (Target < 2 \/ Cardinality(Above) > Cardinality(FreeBelow))
       \/ job.convert
    /\ Refuse
FitPlans ==
    /\ phase = "fit" /\ IsKind("ntfs") /\ Shrinking /\ ~job.convert
    /\ Target >= 2 /\ Cardinality(Above) <= Cardinality(FreeBelow)
    /\ todo' = Runs(Above) /\ rest' = {} /\ mode' = "pack"
    /\ phase' = "place"
    /\ UNCHANGED <<job, captureVars, place, before, queue, pass, improved>>

\* pack_pieces goes from the longest piece down, assign_scattered in order.
First(p) ==
    \A q \in todo : IF mode = "pack" THEN p.len > q.len \/ (p.len = q.len /\ p.lcn <= q.lcn)
                                     ELSE p.lcn <= q.lcn
NextPiece == IF rest # {} THEN rest ELSE {p \in todo : First(p)}
Room(n) ==
    IF (rest = {} \/ mode = "scatter") /\ BestFit(Pool(place), n) # {}
    THEN BestFit(Pool(place), n)
    ELSE Largest(Pool(place))
\* The free space ran out: a bug when packing, no way out for an eviction.
OutOfRoom ==
    /\ IF mode = "pack" THEN phase' = "bug" /\ UNCHANGED place
                        ELSE phase' = "replan" /\ place' = before
    /\ todo' = {} /\ rest' = {}
PutIn(p, room) ==
    LET take == IF p.len <= room.len THEN p.len ELSE room.len
    IN  /\ place' = Moved(place, RunAt(p.lcn, take), room.lcn)
        /\ rest' = IF take < p.len THEN {RunAt(p.lcn + take, p.len - take)} ELSE {}
        /\ todo' = todo \ {p}
        /\ UNCHANGED phase
\* Mutant: room is looked for in the free space as it was at first.
PlacePieceAnywhere ==
    /\ phase = "place"
    /\ \E p \in NextPiece :
         IF FreeBelow = {} THEN OutOfRoom ELSE \E room \in Largest(FreeBelow) : PutIn(p, room)
    /\ UNCHANGED <<job, captureVars, mode, before, queue, pass, improved>>
PlacePiece ==
    /\ phase = "place"
    /\ \E p \in NextPiece :
         IF Pool(place) = {} THEN OutOfRoom ELSE \E room \in Room(p.len) : PutIn(p, room)
    /\ UNCHANGED <<job, captureVars, mode, before, queue, pass, improved>>
PlacedAll ==
    /\ phase = "place" /\ todo = {} /\ rest = {}
    /\ phase' = IF mode = "pack" THEN "simulate" ELSE "replan"
    /\ IF mode = "pack" THEN UNCHANGED improved
       ELSE \E recut \in BOOLEAN : improved' = (improved \/ place # before \/ recut)
    /\ UNCHANGED <<job, captureVars, place, todo, rest, mode, before, queue, pass>>

------------------------------------------------------------------------------
(* attempt_plan: simulate the rewrite of every record, re-plan those that
   overflow, and again. *)

VerifyMap ==
    /\ \A c \in DOMAIN place : c > SafeMax /\ place[c] \in FreeBelow
    /\ \A c, d \in DOMAIN place : place[c] = place[d] => c = d
    /\ Cardinality(DOMAIN place) = Cardinality(Above)

\* Mutant: only the records of the file system itself are looked at.
SimulateFitsMetadata ==
    /\ phase = "simulate" /\ Overflows \cap 0..Bits = {}
    /\ phase' = IF VerifyMap THEN "stream" ELSE "bug"
    /\ UNCHANGED <<job, captureVars, planVars>>
SimulateFits ==
    /\ phase = "simulate" /\ Overflows = {}
    /\ phase' = IF VerifyMap THEN "stream" ELSE "bug"
    /\ UNCHANGED <<job, captureVars, planVars>>
\* Mutant: passes are not counted.
SimulateOverflowsForever ==
    /\ phase = "simulate" /\ Overflows # {}
    /\ queue' = Overflows /\ improved' = FALSE
    /\ phase' = "replan"
    /\ UNCHANGED <<job, captureVars, place, todo, rest, mode, before, pass>>
SimulateOverflows ==
    /\ phase = "simulate" /\ Overflows # {} /\ pass < MaxPasses
    /\ queue' = Overflows /\ improved' = FALSE /\ pass' = pass + 1
    /\ phase' = "replan"
    /\ UNCHANGED <<job, captureVars, place, todo, rest, mode, before>>
SimulateGivesUp ==
    /\ phase = "simulate" /\ Overflows # {} /\ pass = MaxPasses
    /\ Refuse

\* The code compares lists of entries: the same map cut in other entries (recut)
\* counts as progress.
\* replan_record, for the first record of the queue: release its places and
\* look for a run that holds all of its clusters.
FirstQueued(r) == r \in queue /\ \A q \in queue : r <= q
ReplanWhole ==
    /\ phase = "replan"
    /\ \E r \in queue : \E room \in BestFit(Pool(Without(place, AboveOf(r))),
                                            Cardinality(AboveOf(r))) :
         /\ FirstQueued(r) /\ AboveOf(r) # {}
         /\ place' = SideBySide(Without(place, AboveOf(r)), AboveOf(r), room.lcn)
         /\ \E recut \in BOOLEAN : improved' = (improved \/ place' # place \/ recut)
         /\ queue' = queue \ {r}
    /\ UNCHANGED <<job, phase, captureVars, todo, rest, mode, before, pass>>
\* Or take one from whatever was placed there, which needs another place then.
CanMove(r) == AboveOf(r) # {} /\ BestFit(Pool(Without(place, AboveOf(r))), Cardinality(AboveOf(r))) # {}
Evicted(r, w) ==
    {c \in DOMAIN place \ AboveOf(r) : place[c] \in w.lcn..(w.lcn + Cardinality(AboveOf(r)) - 1)}
ReplanEvicting ==
    /\ phase = "replan"
    /\ \E r \in queue : \E w \in BestFit(FreeBelow, Cardinality(AboveOf(r))) :
         /\ FirstQueued(r) /\ AboveOf(r) # {} /\ ~CanMove(r)
         /\ before' = place
         /\ place' = SideBySide(Without(place, AboveOf(r) \cup Evicted(r, w)), AboveOf(r), w.lcn)
         /\ todo' = Runs(Evicted(r, w)) /\ rest' = {}
         /\ queue' = queue \ {r}
    /\ mode' = "scatter"
    /\ phase' = "place"
    /\ UNCHANGED <<job, captureVars, pass, improved>>
ReplanStuck ==
    /\ phase = "replan"
    /\ \E r \in queue :
         /\ FirstQueued(r)
         /\ AboveOf(r) = {} \/ (~CanMove(r) /\ BestFit(FreeBelow, Cardinality(AboveOf(r))) = {})
         /\ queue' = queue \ {r}
    /\ UNCHANGED <<job, phase, captureVars, place, todo, rest, mode, before, pass, improved>>
PassEnds ==
    /\ phase = "replan" /\ queue = {}
    /\ phase' = IF improved THEN "simulate" ELSE "refused"
    /\ UNCHANGED <<job, captureVars, planVars>>

PlanNext ==
    \/ FitWithoutPlan \/ FitRefuses \/ FitPlans
    \/ PlacePiece \/ PlacedAll
    \/ SimulateFits \/ SimulateOverflows \/ SimulateGivesUp
    \/ ReplanWhole \/ ReplanEvicting \/ ReplanStuck \/ PassEnds
=============================================================================
