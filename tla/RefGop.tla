------------------------------- MODULE RefGop -------------------------------
(***************************************************************************)
(* The encoder's reference management, ref_gop.rs: which of the eight      *)
(* buffers a coded frame refreshes (get_refresh_frame_flags) and which     *)
(* buffer each of its seven named references reads (get_ref_frames).       *)
(*                                                                         *)
(* The two functions are pure; what drives them is the coding order of a   *)
(* group of pictures, which the port leaves to its caller.  It is modelled *)
(* here as any order in which a frame is coded ahead of display between    *)
(* the next frame to show and the nearest one already coded ahead, one     *)
(* pyramid level below it, and is later shown by an overlay.               *)
(***************************************************************************)
EXTENDS Integers, Sequences, FiniteSets, FiniteSetsExt, SequencesExt

CONSTANTS
  MaxOrder,    (* Bound: the last display order coded.                      *)
  MaxLayers,   (* The pyramid level of a leaf; inner frames are above it.   *)
  MaxAhead,    (* Bound: how far ahead of display a frame is coded.         *)
  Parallel     (* TRUE: a frame may be coded in parallel with the last one. *)

ASSUME RefGopAssumption ==
  /\ MaxOrder \in Nat /\ MaxAhead \in Nat
  /\ MaxLayers \in Nat \ {0}
  /\ Parallel \in BOOLEAN

Slots == 0 .. 7                       (* REF_FRAMES                         *)
LowLevelFrames == 5                   (* LOW_LEVEL_FRAMES_TR                *)
Orders == 0 .. MaxOrder
Levels == 1 .. MaxLayers

Empty == [lev |-> -1, ord |-> -1]     (* RefFrameMapPair::EMPTY             *)

(* LAST_SLOT .. ALTREF_SLOT, in their order; EXTREF_SLOT is only zero-filled. *)
Names == <<"LAST", "LAST2", "LAST3", "GOLDEN", "BWDREF", "ALTREF2", "ALTREF">>
Named == ToSet(Names)
Unset == -1

-----------------------------------------------------------------------------
(* Which buffer to refresh                                                 *)

Occupied(pairs) == {i \in Slots : pairs[i].ord # -1}

FirstOldest(pairs, S) ==
  CHOOSE i \in S : \A j \in S :
    \/ pairs[i].ord < pairs[j].ord
    \/ pairs[i].ord = pairs[j].ord /\ i <= j

(* Mutants: three past frames are kept, not two; a far future frame is not
   told from an old one. *)
EvictableKeepsThree(pairs, protected, cur) ==
  {i \in Occupied(pairs) : pairs[i].ord <= cur - 4 /\ pairs[i].ord \notin protected}
EvictableFarthest(pairs, protected, cur) ==
  {i \in Occupied(pairs) : /\ pairs[i].ord <= cur - 3 \/ pairs[i].ord > cur
                           /\ pairs[i].ord \notin protected}
Evictable(pairs, protected, cur) ==
  {i \in Occupied(pairs) : pairs[i].ord <= cur - 3 /\ pairs[i].ord \notin protected}

(* Mutant: level-1 frames go first. *)
RefreshIdxBaseFirst(pairs, updateArf, protected, cur) ==
  LET arfs == {i \in Evictable(pairs, protected, cur) : pairs[i].lev = 1}
      others == Evictable(pairs, protected, cur) \ arfs
  IN IF arfs # {} THEN FirstOldest(pairs, arfs)
     ELSE IF others # {} THEN FirstOldest(pairs, others)
     ELSE -1
(* The slot to overwrite when none is free; -1 when every frame is kept. *)
RefreshIdx(pairs, updateArf, protected, cur) ==
  LET arfs == {i \in Evictable(pairs, protected, cur) : pairs[i].lev = 1}
      others == Evictable(pairs, protected, cur) \ arfs
  IN IF updateArf /\ Cardinality(arfs) > 2 THEN FirstOldest(pairs, arfs)
     ELSE IF others # {} THEN FirstOldest(pairs, others)
     ELSE IF arfs # {} THEN FirstOldest(pairs, arfs)
     ELSE -1

(* refresh_frame_flags as a set of slots; {-1} for None. *)
RefreshFrameFlags(pairs, reset, showExisting, type, protected, cur) ==
  LET free == Slots \ Occupied(pairs) IN
  IF reset THEN Slots
  ELSE IF showExisting \/ type \in {"Overlay", "IntnlOverlay"} THEN {}
  ELSE IF free # {} THEN {Min(free)}
  ELSE {RefreshIdx(pairs, type = "Arf", protected, cur)}

-----------------------------------------------------------------------------
(* Which buffer each named reference reads                                 *)

Rank(rank, S, i) == Cardinality({j \in S : rank[j] < rank[i]})

(* The buffer of S whose turn it is to be given name n, as a set. *)
Turn(map, names, S, rank, n) ==
  LET position == [k \in DOMAIN names |-> k]
      open == {k \in DOMAIN names : map[names[k]] = Unset}
  IN {i \in S : \E k \in open :
        names[k] = n /\ Rank(position, open, k) = Rank(rank, S, i)}

(* Gives the open names, in order, the buffers of S, lowest rank first. *)
Fill(map, names, S, rank) ==
  [n \in Named |-> LET turn == Turn(map, names, S, rank, n)
                  IN IF map[n] = Unset /\ turn # {} THEN Min(turn) ELSE map[n]]

(* Mutant: a buffer given a name stays on offer. *)
GivenStaysFree(map, filled) == {}
Given(map, filled) == {filled[n] : n \in {m \in Named : map[m] # filled[m]}}

(* Every order once, at its first buffer. *)
BufferMap(pairs) ==
  {i \in Occupied(pairs) :
     \A j \in Occupied(pairs) : pairs[j].ord = pairs[i].ord => i <= j}

(* Mutant: the exclusion does not mark its buffers used. *)
TakenIgnoresParallel(parallel, excluded, shown) == shown
(* The buffers used when the walk ends: the exclusion overwrites the mark. *)
Taken(parallel, excluded, shown) == IF parallel THEN excluded ELSE shown

ZeroFilled(map) == [n \in Named |-> IF map[n] = Unset THEN 0 ELSE map[n]]

Dist(frame, cur) == IF frame.ord < cur THEN cur - frame.ord ELSE frame.ord - cur

(* Mutant: the nearest buffer is left out. *)
LeftBeforeNearest(f, g, cur) ==
  \/ Dist(f, cur) < Dist(g, cur)
  \/ Dist(f, cur) = Dist(g, cur) /\ f.ord <= g.ord
LeftBefore(f, g, cur) ==
  \/ Dist(f, cur) > Dist(g, cur)
  \/ Dist(f, cur) = Dist(g, cur) /\ f.ord <= g.ord

(* unmapped_ref: the buffer left out when there are eight, as a set. *)
Unmapped(pairs, bufs, used, low, minLevel, cur) ==
  LET cands == {i \in bufs \ used :
                  /\ pairs[i].lev # minLevel \/ Cardinality(low) >= LowLevelFrames
                  /\ Dist(pairs[i], cur) > 0}
  IN IF Cardinality(bufs) <= 7 \/ cands = {} THEN {}
     ELSE {CHOOSE i \in cands : \A j \in cands : LeftBefore(pairs[i], pairs[j], cur)}

(* Gives names to the free buffers: the past ones LAST to LAST3, newest first,
   the future ones BWDREF to ALTREF, oldest first, and the rest what names are
   left, past ones from LAST on, future ones from ALTREF back. *)
Allotted(pairs, cur, m1, free1) ==
  LET older == [i \in Slots |-> pairs[i].ord]
      newer == [i \in Slots |-> -pairs[i].ord]
      past == {i \in free1 : pairs[i].ord < cur}
      future == {i \in free1 : pairs[i].ord > cur}
      m2 == Fill(m1, <<"LAST", "LAST2", "LAST3">>, past, newer)
      free2 == free1 \ Given(m1, m2)
      m3 == Fill(m2, <<"BWDREF", "ALTREF2", "ALTREF">>, free2 \cap future, older)
      free3 == free2 \ Given(m2, m3)
      m4 == Fill(m3, Names, free3 \cap past, newer)
      free4 == free3 \ Given(m3, m4)
  IN Fill(m4, Reverse(Names), free4 \ past, newer)

(* remapped_ref_idx.  excluded: the buffers parallel_skip matches, or {}. *)
RefFrames(pairs, cur, parallel, excluded) ==
  LET bufs == BufferMap(pairs)
      Newest(S) == {i \in S : \A j \in S : pairs[j].ord <= pairs[i].ord}
      minLevel == IF bufs = {} THEN 6 ELSE Min({6} \cup {pairs[i].lev : i \in bufs})
      low == {i \in bufs : pairs[i].lev = minLevel}
      shown == {i \in bufs \ low : pairs[i].ord = cur}
      golden == IF low = bufs THEN {} ELSE Newest({i \in low : pairs[i].ord < cur})
      altref == IF low = bufs THEN {} ELSE Newest({i \in low : pairs[i].ord > cur})
      byLevel == [n \in Named |->
               IF n = "BWDREF" /\ shown # {} THEN Min(shown)
               ELSE IF n = "GOLDEN" /\ golden # {} THEN Min(golden)
               ELSE IF n = "ALTREF" /\ altref # {} THEN Min(altref)
               ELSE Unset]
      used == Taken(parallel, bufs \cap excluded, shown) \cup golden \cup altref
      left == IF bufs \cap excluded # {} THEN {}
              ELSE Unmapped(pairs, bufs, used, low, minLevel, cur)
  IN ZeroFilled(Allotted(pairs, cur, byLevel, bufs \ (used \cup left)))

-----------------------------------------------------------------------------
(* Coding order                                                            *)

VARIABLES
  pairs,     (* ref_frame_map_pairs: what each slot holds.                  *)
  next,      (* The display order of the next frame to show.                *)
  ahead,     (* The frames coded ahead of display and not shown yet.        *)
  last,      (* The frame coded last.                                       *)
  coding     (* The planned frame, its references and its refresh; or Idle. *)

vars == <<pairs, next, ahead, last, coding>>

Idle == [type |-> "none"]

(* A frame held in every slot is reported at the first; the others are free. *)
OnlyHolds(frame) == [i \in Slots |-> IF i = 0 THEN frame ELSE Empty]

Init ==
  /\ pairs = OnlyHolds([lev |-> 1, ord |-> 0])
  /\ next = 1
  /\ ahead = {}
  /\ last = [type |-> "Kf", ord |-> 0]
  /\ coding = Idle

(* skip_frame_refresh: what a parallel frame may not overwrite. *)
SkipLists == {{}} \cup (IF Parallel THEN {{last.ord}} ELSE {})

(* The buffers not to reference: the inner frame a parallel one runs with. *)
Exclusions(type) ==
  {{}} \cup (IF Parallel /\ last.type = "IntnlArf" /\ type \in {"IntnlArf", "Lf"}
              THEN {{i \in Slots : pairs[i].ord = last.ord}} ELSE {})

(* Chooses the references, then the refresh, of the frame to code. *)
Plan(type, ord, lev) ==
  /\ coding = Idle
  /\ ord <= MaxOrder
  /\ \E spared \in SkipLists, excluded \in Exclusions(type) :
       coding' = [type |-> type, ord |-> ord, lev |-> lev, excluded |-> excluded,
                  refs |-> RefFrames(pairs, ord, excluded # {}, excluded),
                  mask |-> RefreshFrameFlags(pairs, type = "Kf", FALSE, type, spared, ord)]
  /\ UNCHANGED <<pairs, next, ahead, last>>

(* Display orders count from the last KEY frame. *)
PlanKey == ahead = {} /\ Plan("Kf", 0, 1)

PlanArf ==
  /\ ahead = {}
  /\ \E ord \in next + 1 .. next + MaxAhead : Plan("Arf", ord, 1)

(* Between the next frame to show and the nearest one coded ahead. *)
PlanIntnlArf ==
  \E after \in ahead :
    /\ \A f \in ahead : after.ord <= f.ord
    /\ after.lev + 1 < MaxLayers
    /\ \E ord \in next + 1 .. after.ord - 1 : Plan("IntnlArf", ord, after.lev + 1)

PlanLeaf ==
  /\ \A f \in ahead : f.ord # next
  /\ Plan("Lf", next, MaxLayers)

PlanOverlay ==
  \E f \in ahead :
    /\ f.ord = next
    /\ Plan(IF f.lev = 1 THEN "Overlay" ELSE "IntnlOverlay", next, f.lev)

(* The frame is coded and refreshes its slots. *)
Code ==
  LET frame == [lev |-> coding.lev, ord |-> coding.ord]
      shown == coding.type \notin {"Arf", "IntnlArf"}
  IN /\ coding # Idle /\ -1 \notin coding.mask
     /\ pairs' = IF coding.mask = Slots THEN OnlyHolds(frame)
                 ELSE [i \in Slots |-> IF i \in coding.mask THEN frame ELSE pairs[i]]
     /\ ahead' = IF shown THEN {f \in ahead : f.ord # coding.ord}
                 ELSE ahead \cup {frame}
     /\ next' = IF shown THEN coding.ord + 1 ELSE next
     /\ last' = [type |-> coding.type, ord |-> coding.ord]
     /\ coding' = Idle

Next == PlanKey \/ PlanArf \/ PlanIntnlArf \/ PlanLeaf \/ PlanOverlay \/ Code

Spec == Init /\ [][Next]_vars

-----------------------------------------------------------------------------

Held == [lev : Levels, ord : Orders]
Types == {"Kf", "Lf", "Arf", "Overlay", "IntnlOverlay", "IntnlArf"}

(* Every slot is empty or whole; a plan names buffers only. *)
TypeOK ==
  /\ pairs \in [Slots -> Held \cup {Empty}]
  /\ next \in 1 .. MaxOrder + 1
  /\ ahead \subseteq Held
  /\ last.type \in Types /\ last.ord \in Orders
  /\ coding # Idle =>
       /\ coding.type \in Types
       /\ coding.refs \in [Named -> Slots]
       /\ coding.mask \subseteq Slots \cup {-1}

Planned == coding # Idle
PlannedRefs == {coding.refs[n] : n \in Named}

(* Some slot can always be refreshed: the shift by -1, which the port
   declines, is never reached. *)
SlotFound == Planned => -1 \notin coding.mask

(* A frame coded ahead of display keeps its buffer until it is shown. *)
FutureKept == \A f \in ahead : \E i \in Slots : pairs[i] = f

(* The pyramid never loses its base: a level-1 frame is always held. *)
BaseKept == \E i \in Slots : pairs[i].lev = 1

(* No reference is wasted: an inter frame reads as many different frames as
   are held and not excluded, up to the seven names. *)
RefsDistinct ==
  Planned =>
    LET usable == BufferMap(pairs) \ coding.excluded IN
    Cardinality(PlannedRefs) = Min({7, Cardinality(usable)})

(* The frame left out of eight is no nearer than any inner frame that is read,
   and it is of the base level only when five frames of that level are held. *)
FarthestLeftOut ==
  Planned =>
    LET usable == BufferMap(pairs) \ coding.excluded
        low == {i \in usable : pairs[i].lev = 1}
    IN \A i \in usable \ PlannedRefs :
         /\ pairs[i].lev = 1 => Cardinality(low) >= LowLevelFrames
         /\ \A j \in usable :
              pairs[j].lev # 1 => Dist(pairs[j], coding.ord) <= Dist(pairs[i], coding.ord)

(* A frame never reads the one it is coded in parallel with. *)
ExclusionHonoured == Planned => PlannedRefs \cap coding.excluded = {}

(* What get_ref_frames makes of eight buffers and seven names: no reference is
   wasted, the frame left out is a far one, a parallel frame is never read. *)
ReferencesWellChosen == RefsDistinct /\ FarthestLeftOut /\ ExclusionHonoured

(* The comment of refresh_idx: "Keep future frames and the three closest
   previous frames in output order." *)
ThreeClosestKept ==
  Planned =>
    \A s \in coding.mask \cap Occupied(pairs) :
      coding.type # "Kf" =>
        Cardinality({i \in BufferMap(pairs) :
           pairs[i].ord > pairs[s].ord /\ pairs[i].ord < coding.ord}) >= 3
=============================================================================
