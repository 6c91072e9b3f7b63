---------------------------- MODULE RefGop_proofs ----------------------------
(***************************************************************************)
(* The encoder's references, for groups of pictures of any length and      *)
(* depth: a frame coded ahead of display keeps its buffer, a level-1 frame *)
(* is always held, a slot can always be refreshed, and the seven names are *)
(* well spent.  Inv adds to FutureKept what a plan has fixed by the time   *)
(* its frame is coded; Pyramid says what is held and coded ahead;          *)
(* SlotsFilled and RefsPlanned, what the references are chosen from.       *)
(***************************************************************************)
EXTENDS RefGop, FiniteSetTheorems, WellFoundedInduction, TLAPS

Frame == [lev : Int, ord : Int]

PlanSound ==
  coding # Idle =>
    /\ coding.ord \in Nat /\ coding.lev \in Int
    /\ coding.mask \subseteq Slots \cup {-1}
    /\ coding.mask = Slots => ahead = {}
    /\ \A i \in coding.mask \cap Slots, f \in ahead : pairs[i] # f
    /\ coding.type \in {"Arf", "IntnlArf"} => coding.mask # {}
    /\ coding.type \notin {"Arf", "IntnlArf"} =>
         \A f \in ahead : f.ord # coding.ord => f.ord > coding.ord
    /\ coding.type \in {"Arf", "IntnlArf"} => coding.ord >= next

Inv ==
  /\ pairs \in [Slots -> Frame]
  /\ \A i \in Slots : pairs[i].ord >= -1
  /\ next \in Nat
  /\ ahead \subseteq Frame
  /\ \A f \in ahead : f.ord >= next
  /\ FutureKept
  /\ PlanSound

-----------------------------------------------------------------------------

(* The least element of a set of naturals. *)
LEMMA Least ==
  ASSUME NEW T \in SUBSET Nat, T # {}
  PROVE  \E x \in T : \A y \in T : x <= y
<1>1. \E x \in T : \A y \in T : ~ (<<y, x>> \in OpToRel(<, Nat))
  BY WFMin, NatLessThanWellFounded, Zenon
<1>2. PICK x \in T : \A y \in T : ~ (<<y, x>> \in OpToRel(<, Nat))
  BY <1>1
<1>3. \A y \in T : ~ (y < x)
  BY <1>2 DEF OpToRel
<1> QED BY <1>3

(* The first of the oldest frames of some slots is one of these slots. *)
LEMMA FirstOldestIn ==
  ASSUME NEW prs \in [Slots -> Frame], NEW S \in SUBSET Slots, S # {},
         \A i \in S : prs[i].ord >= -1
  PROVE  FirstOldest(prs, S) \in S
<1> DEFINE Key(i) == 8 * (prs[i].ord + 1) + i
<1>1. \A i \in S : i \in 0 .. 7 /\ prs[i].ord \in Int /\ prs[i].ord >= -1
  BY DEF Slots, Frame
<1>2. \A i \in S : Key(i) \in Nat
  BY <1>1
<1>3. {Key(i) : i \in S} \in SUBSET Nat /\ {Key(i) : i \in S} # {}
  BY <1>2
<1>4. PICK x \in {Key(i) : i \in S} : \A y \in {Key(i) : i \in S} : x <= y
  BY <1>3, Least
<1>5. PICK i \in S : x = Key(i)
  BY <1>4
<1>6. \A j \in S : Key(i) <= Key(j)
  BY <1>4, <1>5
<1>7. \A j \in S : \/ prs[i].ord < prs[j].ord
                   \/ prs[i].ord = prs[j].ord /\ i <= j
  BY <1>1, <1>6
<1> QED BY <1>7 DEF FirstOldest

(* A slot is overwritten only when its frame is three or more frames old. *)
LEMMA RefreshIdxSpares ==
  ASSUME NEW prs \in [Slots -> Frame], NEW updateArf \in BOOLEAN, NEW spared,
         NEW cur \in Int, \A i \in Slots : prs[i].ord >= -1
  PROVE  LET s == RefreshIdx(prs, updateArf, spared, cur) IN
         s = -1 \/ (s \in Slots /\ prs[s].ord <= cur - 3)
<1> DEFINE E == Evictable(prs, spared, cur)
           arfs == {i \in E : prs[i].lev = 1}
<1>1. E \subseteq Slots /\ \A i \in E : prs[i].ord <= cur - 3
  BY DEF Evictable, Occupied
<1>2. \A S \in SUBSET E : S # {} => FirstOldest(prs, S) \in S
  BY <1>1, FirstOldestIn
<1>3. Cardinality(arfs) > 2 => arfs # {}
  BY FS_EmptySet
<1>4. CASE updateArf /\ Cardinality(arfs) > 2
  <2>1. RefreshIdx(prs, updateArf, spared, cur) = FirstOldest(prs, arfs)
    BY <1>4 DEF RefreshIdx
  <2> QED BY <2>1, <1>1, <1>2, <1>3, <1>4
<1>5. CASE ~ (updateArf /\ Cardinality(arfs) > 2) /\ E \ arfs # {}
  <2>1. RefreshIdx(prs, updateArf, spared, cur) = FirstOldest(prs, E \ arfs)
    BY <1>5 DEF RefreshIdx
  <2> QED BY <2>1, <1>1, <1>2, <1>5
<1>6. CASE ~ (updateArf /\ Cardinality(arfs) > 2) /\ E \ arfs = {} /\ arfs # {}
  <2>1. RefreshIdx(prs, updateArf, spared, cur) = FirstOldest(prs, arfs)
    BY <1>6 DEF RefreshIdx
  <2> QED BY <2>1, <1>1, <1>2, <1>6
<1>7. CASE ~ (updateArf /\ Cardinality(arfs) > 2) /\ E \ arfs = {} /\ arfs = {}
  BY <1>7 DEF RefreshIdx
<1> QED BY <1>4, <1>5, <1>6, <1>7

(* The refresh of a frame other than a KEY frame: at most one slot, and one
   that is free or whose frame is old; exactly one for a frame coded ahead. *)
LEMMA FlagsSpare ==
  ASSUME NEW prs \in [Slots -> Frame], NEW type, NEW spared, NEW cur \in Int,
         \A i \in Slots : prs[i].ord >= -1
  PROVE  LET mask == RefreshFrameFlags(prs, FALSE, FALSE, type, spared, cur) IN
         /\ mask \subseteq Slots \cup {-1}
         /\ mask # Slots
         /\ \A i \in mask \cap Slots : prs[i].ord = -1 \/ prs[i].ord <= cur - 3
         /\ type \in {"Arf", "IntnlArf"} => mask # {}
         /\ type \in {"Overlay", "IntnlOverlay"} => mask = {}
<1> DEFINE mask == RefreshFrameFlags(prs, FALSE, FALSE, type, spared, cur)
           free == Slots \ Occupied(prs)
<1>0. 0 \in Slots /\ 1 \in Slots
  BY DEF Slots
<1>1. CASE type \in {"Overlay", "IntnlOverlay"}
  <2>1. mask = {}
    BY <1>1 DEF RefreshFrameFlags
  <2>2. type \notin {"Arf", "IntnlArf"}
    BY <1>1
  <2> QED BY <2>1, <2>2, <1>0
<1>2. CASE type \notin {"Overlay", "IntnlOverlay"} /\ free # {}
  <2>1. mask = {Min(free)}
    BY <1>2 DEF RefreshFrameFlags
  <2>2. Min(free) \in free
    <3>1. free \in SUBSET Nat
      BY DEF Slots
    <3>2. PICK x \in free : \A y \in free : x <= y
      BY <3>1, <1>2, Least
    <3> QED BY <3>2 DEF Min
  <2>3. \A i \in free : i \in Slots /\ prs[i].ord = -1
    BY DEF Occupied
  <2> DEFINE s == Min(free)
  <2>4. s \in Slots /\ prs[s].ord = -1
    BY <2>2, <2>3
  <2>5. mask = {s}
    BY <2>1
  <2> HIDE DEF s, free, mask
  <2>6. mask # Slots
    BY <2>5, <1>0
  <2>7. mask \subseteq Slots \cup {-1} /\ mask # {}
    BY <2>4, <2>5
  <2>8. \A i \in mask \cap Slots : prs[i].ord = -1 \/ prs[i].ord <= cur - 3
    BY <2>4, <2>5
  <2> QED BY <2>6, <2>7, <2>8, <1>2 DEF mask
<1>3. CASE type \notin {"Overlay", "IntnlOverlay"} /\ free = {}
  <2> DEFINE s == RefreshIdx(prs, type = "Arf", spared, cur)
  <2>1. mask = {s}
    BY <1>3 DEF RefreshFrameFlags
  <2>2. (type = "Arf") \in BOOLEAN
    OBVIOUS
  <2>3. s = -1 \/ (s \in Slots /\ prs[s].ord <= cur - 3)
    BY <2>2, RefreshIdxSpares
  <2> HIDE DEF s, mask
  <2>4. mask # Slots
    BY <2>1, <1>0
  <2>5. mask \subseteq Slots \cup {-1} /\ mask # {}
    BY <2>1, <2>3
  <2>6. \A i \in mask \cap Slots : prs[i].ord = -1 \/ prs[i].ord <= cur - 3
    <3> SUFFICES ASSUME NEW i \in mask \cap Slots
                 PROVE  prs[i].ord = -1 \/ prs[i].ord <= cur - 3
      OBVIOUS
    <3>1. i = s /\ i # -1
      BY <2>1 DEF Slots
    <3> QED BY <3>1, <2>3
  <2> QED BY <2>4, <2>5, <2>6, <1>3 DEF mask
<1> QED BY <1>1, <1>2, <1>3

-----------------------------------------------------------------------------

LEMMA InvInit == Init => Inv
<1> SUFFICES ASSUME Init PROVE Inv
  OBVIOUS
<1>1. pairs \in [Slots -> Frame] /\ \A i \in Slots : pairs[i].ord >= -1
  BY DEF Init, OnlyHolds, Empty, Frame
<1>2. next \in Nat /\ ahead = {}
  BY DEF Init
<1>3. PlanSound
  BY DEF Init, PlanSound
<1> QED BY <1>1, <1>2, <1>3 DEF Inv, FutureKept

(* What any plan leaves alone. *)
LEMMA PlanFrame ==
  ASSUME Inv, NEW type, NEW ord, NEW lev, Plan(type, ord, lev), PlanSound'
  PROVE  Inv'
<1>1. UNCHANGED <<pairs, next, ahead>>
  BY DEF Plan
<1> QED BY <1>1 DEF Inv, FutureKept

(* A plan for a frame that is not a KEY frame is sound when the frame is not
   after a frame of ahead, or there is none. *)
LEMMA PlanInterSound ==
  ASSUME Inv, NEW type, type # "Kf", NEW ord \in Nat, NEW lev \in Int,
         Plan(type, ord, lev),
         type \in {"Overlay", "IntnlOverlay"} \/ \A f \in ahead : f.ord >= ord,
         type \notin {"Arf", "IntnlArf"} =>
           \A f \in ahead : f.ord # ord => f.ord > ord,
         type \in {"Arf", "IntnlArf"} => ord >= next
  PROVE  PlanSound'
<1>1. PICK spared \in SkipLists, excluded \in Exclusions(type) :
        coding' = [type |-> type, ord |-> ord, lev |-> lev, excluded |-> excluded,
                   refs |-> RefFrames(pairs, ord, excluded # {}, excluded),
                   mask |-> RefreshFrameFlags(pairs, type = "Kf", FALSE, type, spared, ord)]
  BY DEF Plan
<1>2. (type = "Kf") = FALSE
  OBVIOUS
<1> DEFINE mask == RefreshFrameFlags(pairs, FALSE, FALSE, type, spared, ord)
<1>3. coding'.type = type /\ coding'.ord = ord /\ coding'.lev = lev /\ coding'.mask = mask
  BY <1>1, <1>2
<1>4. /\ mask \subseteq Slots \cup {-1}
      /\ mask # Slots
      /\ \A i \in mask \cap Slots : pairs[i].ord = -1 \/ pairs[i].ord <= ord - 3
      /\ type \in {"Arf", "IntnlArf"} => mask # {}
      /\ type \in {"Overlay", "IntnlOverlay"} => mask = {}
  <2>1. /\ pairs \in [Slots -> Frame] /\ ord \in Int
        /\ \A i \in Slots : pairs[i].ord >= -1
    BY DEF Inv
  <2> QED BY <2>1, FlagsSpare
<1> HIDE DEF mask
<1>5. pairs' = pairs /\ ahead' = ahead /\ next' = next
  BY DEF Plan
<1>6. \A i \in mask \cap Slots, f \in ahead : pairs[i] # f
  <2> SUFFICES ASSUME NEW i \in mask \cap Slots, NEW f \in ahead, pairs[i] = f
               PROVE  FALSE
    OBVIOUS
  <2>1. type \notin {"Overlay", "IntnlOverlay"}
    BY <1>4
  <2>2. f.ord >= ord /\ f.ord >= next /\ f.ord \in Int /\ next \in Nat
    BY <2>1 DEF Inv, Frame
  <2>3. f.ord = -1 \/ f.ord <= ord - 3
    BY <1>4
  <2> QED BY <2>2, <2>3
<1> QED BY <1>3, <1>4, <1>5, <1>6 DEF PlanSound

LEMMA PlanKeySound == Inv /\ PlanKey => Inv'
<1> SUFFICES ASSUME Inv, PlanKey PROVE Inv'
  OBVIOUS
<1>1. ahead = {} /\ Plan("Kf", 0, 1)
  BY DEF PlanKey
<1>2. coding'.type = "Kf" /\ coding'.ord = 0 /\ coding'.lev = 1 /\ coding'.mask = Slots
  BY <1>1 DEF Plan, RefreshFrameFlags
<1>3. ahead' = {}
  BY <1>1 DEF Plan
<1>4. PlanSound'
  BY <1>2, <1>3 DEF PlanSound
<1> QED BY <1>1, <1>4, PlanFrame

LEMMA PlanArfSound == Inv /\ PlanArf => Inv'
<1> SUFFICES ASSUME Inv, PlanArf PROVE Inv'
  OBVIOUS
<1>1. PICK ord \in next + 1 .. next + MaxAhead : ahead = {} /\ Plan("Arf", ord, 1)
  BY DEF PlanArf
<1>2. ord \in Nat /\ ord >= next
  BY RefGopAssumption DEF RefGopAssumption, Inv
<1>3. PlanSound'
  BY <1>1, <1>2, PlanInterSound
<1> QED BY <1>1, <1>3, PlanFrame

LEMMA PlanIntnlArfSound == Inv /\ PlanIntnlArf => Inv'
<1> SUFFICES ASSUME Inv, PlanIntnlArf PROVE Inv'
  OBVIOUS
<1>1. PICK after \in ahead :
        /\ \A f \in ahead : after.ord <= f.ord
        /\ \E ord \in next + 1 .. after.ord - 1 : Plan("IntnlArf", ord, after.lev + 1)
  BY DEF PlanIntnlArf
<1>2. PICK ord \in next + 1 .. after.ord - 1 : Plan("IntnlArf", ord, after.lev + 1)
  BY <1>1
<1>3. after.lev + 1 \in Int /\ after.ord \in Int /\ next \in Nat
      /\ \A f \in ahead : f.ord \in Int
  BY DEF Inv, Frame
<1>4. ord \in Nat /\ ord >= next /\ \A f \in ahead : f.ord >= ord
  BY <1>1, <1>3
<1>5. PlanSound'
  BY <1>2, <1>3, <1>4, PlanInterSound
<1> QED BY <1>2, <1>5, PlanFrame

LEMMA PlanLeafSound == Inv /\ PlanLeaf => Inv'
<1> SUFFICES ASSUME Inv, PlanLeaf PROVE Inv'
  OBVIOUS
<1>1. (\A f \in ahead : f.ord # next) /\ Plan("Lf", next, MaxLayers)
  BY DEF PlanLeaf
<1>2. next \in Nat /\ MaxLayers \in Int
  BY RefGopAssumption DEF RefGopAssumption, Inv
<1>3. \A f \in ahead : f.ord >= next /\ f.ord > next
  BY <1>1, <1>2 DEF Inv, Frame
<1>4. PlanSound'
  BY <1>1, <1>2, <1>3, PlanInterSound
<1> QED BY <1>1, <1>4, PlanFrame

LEMMA PlanOverlaySound == Inv /\ PlanOverlay => Inv'
<1> SUFFICES ASSUME Inv, PlanOverlay PROVE Inv'
  OBVIOUS
<1>1. PICK f \in ahead :
        Plan(IF f.lev = 1 THEN "Overlay" ELSE "IntnlOverlay", next, f.lev)
  BY DEF PlanOverlay
<1> DEFINE type == IF f.lev = 1 THEN "Overlay" ELSE "IntnlOverlay"
<1>2. type \in {"Overlay", "IntnlOverlay"} /\ Plan(type, next, f.lev)
  BY <1>1
<1> HIDE DEF type
<1>3. next \in Nat /\ f.lev \in Int
  BY DEF Inv, Frame
<1>4. \A g \in ahead : g.ord # next => g.ord > next
  BY <1>3 DEF Inv, Frame
<1>5. PlanSound'
  BY <1>2, <1>3, <1>4, PlanInterSound
<1> QED BY <1>2, <1>5, PlanFrame

-----------------------------------------------------------------------------

LEMMA CodeSound == Inv /\ Code => Inv'
<1> SUFFICES ASSUME Inv, Code PROVE Inv'
  OBVIOUS
<1> DEFINE frame == [lev |-> coding.lev, ord |-> coding.ord]
           inner == coding.type \in {"Arf", "IntnlArf"}
<1>1. /\ coding # Idle /\ -1 \notin coding.mask
      /\ pairs' = IF coding.mask = Slots THEN OnlyHolds(frame)
                  ELSE [i \in Slots |-> IF i \in coding.mask THEN frame ELSE pairs[i]]
      /\ ~inner => ahead' = {f \in ahead : f.ord # coding.ord} /\ next' = coding.ord + 1
      /\ inner => ahead' = ahead \cup {frame} /\ next' = next
      /\ coding' = Idle
  BY DEF Code
<1>2. /\ coding.ord \in Nat /\ coding.lev \in Int
      /\ coding.mask \subseteq Slots
      /\ coding.mask = Slots => ahead = {}
      /\ \A i \in coding.mask, f \in ahead : pairs[i] # f
      /\ inner => coding.mask # {} /\ coding.ord >= next
      /\ ~inner => \A f \in ahead : f.ord # coding.ord => f.ord > coding.ord
  BY <1>1 DEF Inv, PlanSound
<1>3. frame \in Frame /\ frame.ord \in Nat /\ frame.ord = coding.ord
  BY <1>2 DEF Frame
<1> HIDE DEF frame
<1>4. 0 \in Slots /\ Empty \in Frame /\ Empty.ord = -1
  BY DEF Slots, Empty, Frame
<1>5. pairs' \in [Slots -> Frame] /\ \A i \in Slots : pairs'[i].ord >= -1
  <2>1. CASE coding.mask = Slots
    BY <2>1, <1>1, <1>3, <1>4 DEF OnlyHolds
  <2>2. CASE coding.mask # Slots
    BY <2>2, <1>1, <1>3 DEF Inv
  <2> QED BY <2>1, <2>2
<1>6. next' \in Nat /\ ahead' \subseteq Frame /\ \A f \in ahead' : f.ord >= next'
  <2>0. next \in Nat /\ ahead \subseteq Frame /\ \A f \in ahead : f.ord \in Int /\ f.ord >= next
    BY DEF Inv, Frame
  <2>1. CASE inner
    BY <2>0, <2>1, <1>1, <1>2, <1>3
  <2>2. CASE ~inner
    BY <2>0, <2>2, <1>1, <1>2
  <2> QED BY <2>1, <2>2
<1>7. \A f \in ahead' : \E i \in Slots : pairs'[i] = f
  <2> SUFFICES ASSUME NEW f \in ahead' PROVE \E i \in Slots : pairs'[i] = f
    OBVIOUS
  <2>1. f \in ahead \/ (inner /\ f = frame)
    BY <1>1
  <2>2. CASE f \in ahead
    <3>1. PICK i \in Slots : pairs[i] = f
      BY <2>2 DEF Inv, FutureKept
    <3>2. i \notin coding.mask /\ coding.mask # Slots
      BY <3>1, <2>2, <1>2
    <3> QED BY <3>1, <3>2, <1>1
  <2>3. CASE inner /\ f = frame
    <3>1. PICK i \in coding.mask : i \in Slots
      BY <2>3, <1>2
    <3>2. CASE coding.mask = Slots
      BY <3>2, <2>3, <1>1, <1>4 DEF OnlyHolds
    <3>3. CASE coding.mask # Slots
      BY <3>1, <3>3, <2>3, <1>1
    <3> QED BY <3>2, <3>3
  <2> QED BY <2>1, <2>2, <2>3
<1>8. PlanSound'
  BY <1>1 DEF PlanSound
<1> QED BY <1>5, <1>6, <1>7, <1>8 DEF Inv, FutureKept

(* A frame coded ahead of display keeps its buffer until its overlay shows it,
   whatever the pyramid, the parallel frames and the lists of spared orders. *)
THEOREM FutureFramesKept == Spec => []FutureKept
<1>1. Init => Inv
  BY InvInit
<1>2. Inv /\ [Next]_vars => Inv'
  <2> SUFFICES ASSUME Inv, [Next]_vars PROVE Inv'
    OBVIOUS
  <2>1. CASE PlanKey
    BY <2>1, PlanKeySound
  <2>2. CASE PlanArf
    BY <2>2, PlanArfSound
  <2>3. CASE PlanIntnlArf
    BY <2>3, PlanIntnlArfSound
  <2>4. CASE PlanLeaf
    BY <2>4, PlanLeafSound
  <2>5. CASE PlanOverlay
    BY <2>5, PlanOverlaySound
  <2>6. CASE Code
    BY <2>6, CodeSound
  <2>7. CASE UNCHANGED vars
    BY <2>7 DEF vars, Inv, FutureKept, PlanSound
  <2> QED BY <2>1, <2>2, <2>3, <2>4, <2>5, <2>6, <2>7 DEF Next
<1>3. Inv => FutureKept
  BY DEF Inv
<1> QED BY <1>1, <1>2, <1>3, PTL DEF Spec

-----------------------------------------------------------------------------
(* A slot for every frame, and the base of the pyramid                     *)

(* A plan other than a KEY frame's refreshes one slot at most, an overlay's
   none; it fixes an order that no slot holds yet, and it leaves a level-1 frame
   in a slot. *)
PlanFits ==
  coding # Idle =>
    /\ coding.type = "Kf" =>
         coding.mask = Slots /\ coding.ord = 0 /\ coding.lev = 1 /\ ahead = {}
    /\ coding.type # "Kf" => \A s, t \in coding.mask : s = t
    /\ coding.type \in {"Overlay", "IntnlOverlay"} => coding.mask = {}
    /\ coding.type \notin {"Kf", "Overlay", "IntnlOverlay"} =>
         \A f \in ahead : f.ord # coding.ord
    /\ coding.type \in {"Arf", "IntnlArf"} =>
         /\ coding.ord > next /\ coding.lev >= 1
         /\ coding.lev = 1 \/ coding.lev < MaxLayers
         /\ ahead = {} => coding.lev = 1
         /\ \A f \in ahead : f.ord > coding.ord /\ f.lev < coding.lev
    /\ coding.type \notin {"Kf", "Arf", "IntnlArf"} => coding.ord = next
    /\ -1 \notin coding.mask =>
         \/ coding.lev = 1 /\ coding.mask # {}
         \/ \E i \in Slots \ coding.mask : pairs[i].lev = 1

(* No order is held twice; what is held has been shown or is coded ahead; the
   frames coded ahead are one to a level, deeper ones first to be shown, down
   from a frame of level 1. *)
Pyramid ==
  /\ \A i, j \in Slots : pairs[i].ord = pairs[j].ord /\ pairs[i].ord # -1 => i = j
  /\ \A i \in Slots : pairs[i].ord = -1 => pairs[i] = Empty
  /\ \A i \in Slots : pairs[i].ord < next \/ pairs[i] \in ahead
  /\ \A f \in ahead : f.lev >= 1 /\ (f.lev = 1 \/ f.lev < MaxLayers)
  /\ \A f, g \in ahead : f.ord = g.ord => f = g
  /\ \A f, g \in ahead : f.ord < g.ord => f.lev > g.lev
  /\ ahead # {} => \E f \in ahead : f.lev = 1
  /\ last.ord \in Int /\ last.ord >= next - 1
  /\ BaseKept
  /\ PlanFits

(* The slot found is one that may be overwritten; when it is not to update an
   ARF it holds a level-1 frame only if all that may be overwritten do. *)
LEMMA RefreshIdxFinds ==
  ASSUME NEW prs \in [Slots -> Frame], NEW updateArf \in BOOLEAN, NEW spared,
         NEW cur \in Int, \A i \in Slots : prs[i].ord >= -1
  PROVE  LET E == Evictable(prs, spared, cur)
             s == RefreshIdx(prs, updateArf, spared, cur) IN
         /\ E # {} => s \in E
         /\ E = {} => s = -1
         /\ E # {} /\ ~updateArf => prs[s].lev # 1 \/ \A i \in E : prs[i].lev = 1
<1> DEFINE E == Evictable(prs, spared, cur)
           arfs == {i \in E : prs[i].lev = 1}
           s == RefreshIdx(prs, updateArf, spared, cur)
<1>1. E \subseteq Slots
  BY DEF Evictable, Occupied
<1>2. \A S \in SUBSET E : S # {} => FirstOldest(prs, S) \in S
  BY <1>1, FirstOldestIn
<1>3. Cardinality(arfs) > 2 => arfs # {}
  BY FS_EmptySet
<1>4. /\ updateArf /\ Cardinality(arfs) > 2 => s = FirstOldest(prs, arfs)
      /\ ~ (updateArf /\ Cardinality(arfs) > 2) =>
           /\ E \ arfs # {} => s = FirstOldest(prs, E \ arfs)
           /\ E \ arfs = {} => s = IF arfs # {} THEN FirstOldest(prs, arfs) ELSE -1
  BY Zenon DEF RefreshIdx
<1>8. /\ arfs \in SUBSET E /\ E \ arfs \in SUBSET E
      /\ \A i \in E : i \in arfs <=> prs[i].lev = 1
  OBVIOUS
<1> HIDE DEF E, s, arfs
<1>5. CASE updateArf /\ Cardinality(arfs) > 2
  <2>1. s \in arfs
    BY <1>2, <1>3, <1>4, <1>5, <1>8, Zenon
  <2> QED BY <1>5, <1>8, <2>1 DEF E, s
<1>6. CASE ~ (updateArf /\ Cardinality(arfs) > 2) /\ E \ arfs # {}
  <2>1. s \in E \ arfs
    BY <1>2, <1>4, <1>6, <1>8, Zenon
  <2> QED BY <1>8, <2>1 DEF E, s
<1>7. CASE ~ (updateArf /\ Cardinality(arfs) > 2) /\ E \ arfs = {}
  <2>1. (\A i \in E : prs[i].lev = 1) /\ arfs = E
    BY <1>7, <1>8
  <2>2. E # {} => s = FirstOldest(prs, E)
    BY <1>4, <1>7, <2>1, Zenon
  <2>3. E = {} => s = -1
    BY <1>4, <1>7, <2>1, Zenon
  <2> QED BY <1>2, <2>1, <2>2, <2>3 DEF E, s
<1> QED BY <1>5, <1>6, <1>7 DEF E, s

(* Eight slots do not fit in seven places. *)
LEMMA Crowded ==
  ASSUME NEW f \in [Slots -> 1 .. 7]
  PROVE  \E i, j \in Slots : i # j /\ f[i] = f[j]
<1>1. \A m, n \in Int :
        IsFiniteSet(m .. n) /\ Cardinality(m .. n) = IF m > n THEN 0 ELSE n - m + 1
  BY FS_Interval, Zenon
<1>2. IsFiniteSet(0 .. 7) /\ Cardinality(0 .. 7) = 8
  <2>1. IsFiniteSet(0 .. 7) /\ Cardinality(0 .. 7) = IF 0 > 7 THEN 0 ELSE 7 - 0 + 1
    BY <1>1, 0 \in Int, 7 \in Int, Zenon
  <2> QED BY <2>1
<1>3. IsFiniteSet(1 .. 7) /\ Cardinality(1 .. 7) = 7
  <2>1. IsFiniteSet(1 .. 7) /\ Cardinality(1 .. 7) = IF 1 > 7 THEN 0 ELSE 7 - 1 + 1
    BY <1>1, 1 \in Int, 7 \in Int, Zenon
  <2> QED BY <2>1
<1>4. \A S, T : IsFiniteSet(S) /\ IsFiniteSet(T) /\ Cardinality(T) < Cardinality(S)
                 => \A g \in [S -> T] : \E x, y \in S : x # y /\ g[x] = g[y]
  BY FS_PigeonHole, Zenon
<1>5. Cardinality(1 .. 7) < Cardinality(Slots) /\ IsFiniteSet(Slots)
  BY <1>2, <1>3 DEF Slots
<1> QED BY <1>3, <1>4, <1>5

(* Eight slots are more than two past orders and one frame of each inner level
   can fill. *)
LEMMA EightAreTooMany ==
  ASSUME Inv, Pyramid, MaxLayers <= 6, NEW a, NEW b
  PROVE  \E i \in Slots : \/ pairs[i].ord \notin {a, b, -1} /\ pairs[i] \notin ahead
                          \/ pairs[i].ord = -1
<1> SUFFICES ASSUME \A i \in Slots : pairs[i].ord # -1
                      /\ (pairs[i].ord \in {a, b} \/ pairs[i] \in ahead)
             PROVE  FALSE
  OBVIOUS
<1> DEFINE key == [i \in Slots |-> IF pairs[i] \in ahead THEN pairs[i].lev
                                   ELSE IF pairs[i].ord = a THEN 6 ELSE 7]
<1>1. \A f \in ahead : f.lev \in 1 .. 5
  <2>1. \A f \in ahead : f.lev \in Int /\ f.lev >= 1 /\ (f.lev = 1 \/ f.lev < MaxLayers)
    BY DEF Inv, Frame, Pyramid
  <2> QED BY <2>1, RefGopAssumption
<1>2. key \in [Slots -> 1 .. 7]
  <2>1. \A i \in Slots : key[i] \in 1 .. 7
    BY <1>1
  <2> QED BY <2>1
<1>3. \A i \in Slots : key[i] = IF pairs[i] \in ahead THEN pairs[i].lev
                               ELSE IF pairs[i].ord = a THEN 6 ELSE 7
  OBVIOUS
<1> HIDE DEF key
<1>4. \E i, j \in Slots : i # j /\ key[i] = key[j]
  BY <1>2, Crowded
<1>6. PICK i \in Slots, j \in Slots : i # j /\ key[i] = key[j]
  BY <1>4
<1>7. pairs[i].ord # pairs[j].ord
  BY <1>6 DEF Pyramid
<1>8. CASE pairs[i] \in ahead /\ pairs[j] \in ahead
  <2>1. pairs[i].lev = pairs[j].lev /\ pairs[i].lev \in Int
    BY <1>1, <1>3, <1>6, <1>8
  <2>2. pairs[i].ord \in Int /\ pairs[j].ord \in Int
    BY DEF Inv, Frame
  <2>3. pairs[i].ord < pairs[j].ord \/ pairs[j].ord < pairs[i].ord
    BY <1>7, <2>2
  <2>4. pairs[i].lev > pairs[j].lev \/ pairs[j].lev > pairs[i].lev
    BY <1>8, <2>3 DEF Pyramid
  <2> QED BY <2>1, <2>4
<1>9. CASE pairs[i] \notin ahead /\ pairs[j] \notin ahead
  BY <1>3, <1>6, <1>7, <1>9
<1>10. CASE pairs[i] \in ahead /\ pairs[j] \notin ahead
  <2>1. key[i] \in 1 .. 5 /\ key[j] \in {6, 7}
    BY <1>1, <1>3, <1>10
  <2> QED BY <1>6, <2>1
<1>11. CASE pairs[i] \notin ahead /\ pairs[j] \in ahead
  <2>1. key[j] \in 1 .. 5 /\ key[i] \in {6, 7}
    BY <1>1, <1>3, <1>11
  <2> QED BY <1>6, <2>1
<1> QED BY <1>8, <1>9, <1>10, <1>11

(* So when every slot is full, one of them may be overwritten. *)
LEMMA SomeEvictable ==
  ASSUME Inv, Pyramid, MaxLayers <= 6, NEW spared \in SkipLists, NEW cur \in Int,
         cur >= next, Occupied(pairs) = Slots
  PROVE  Evictable(pairs, spared, cur) # {}
<1> DEFINE b == IF cur = next THEN next - 2 ELSE last.ord
<1>1. /\ next \in Int /\ last.ord \in Int /\ last.ord >= next - 1
      /\ \A i \in Slots : pairs[i].ord \in Int /\ pairs[i].ord # -1
      /\ \A i \in Slots : pairs[i].ord < next \/ pairs[i] \in ahead
  BY DEF Inv, Frame, Pyramid, Occupied
<1>2. PICK i \in Slots : pairs[i].ord \notin {next - 1, b, -1} /\ pairs[i] \notin ahead
  BY <1>1, EightAreTooMany
<1>3. \A n \in spared : n = last.ord
  BY DEF SkipLists
<1>4. pairs[i].ord <= cur - 3 /\ pairs[i].ord \notin spared
  <2>1. pairs[i].ord < next - 1
    BY <1>1, <1>2
  <2>2. CASE cur = next
    BY <1>1, <1>2, <1>3, <2>1, <2>2
  <2>3. CASE cur # next
    BY <1>1, <1>2, <1>3, <2>1, <2>3
  <2> QED BY <2>2, <2>3
<1>5. i \in Evictable(pairs, spared, cur)
  BY <1>4 DEF Evictable
<1> QED BY <1>5

(* A frame that is coded refreshes one slot: a free one, or the one found. *)
OneSlot(mask, prs, type, spared, cur) ==
  \E s : /\ mask = {s}
         /\ \/ s \in Slots /\ prs[s].ord = -1
            \/ /\ Occupied(prs) = Slots
               /\ \E arf \in BOOLEAN : /\ type # "Arf" => arf = FALSE
                                       /\ s = RefreshIdx(prs, arf, spared, cur)

LEMMA FlagsOne ==
  ASSUME NEW prs \in [Slots -> Frame], NEW type, NEW spared, NEW cur \in Int,
         type \notin {"Overlay", "IntnlOverlay"}
  PROVE  OneSlot(RefreshFrameFlags(prs, FALSE, FALSE, type, spared, cur),
                 prs, type, spared, cur)
<1> DEFINE free == Slots \ Occupied(prs)
<1>1. type \notin {"Overlay", "IntnlOverlay"}
  OBVIOUS
<1>2. CASE free # {}
  <2>1. Min(free) \in free
    <3>1. free \in SUBSET Nat
      BY DEF Slots
    <3>2. PICK x \in free : \A y \in free : x <= y
      BY <3>1, <1>2, Least
    <3> QED BY <3>2 DEF Min
  <2>2. RefreshFrameFlags(prs, FALSE, FALSE, type, spared, cur) = {Min(free)}
    BY <1>1, <1>2 DEF RefreshFrameFlags
  <2> HIDE DEF free
  <2>3. \A i \in free : i \in Slots /\ prs[i].ord = -1
    BY DEF free, Occupied
  <2> QED BY <2>1, <2>2, <2>3, Zenon DEF OneSlot
<1>3. CASE free = {}
  <2>1. RefreshFrameFlags(prs, FALSE, FALSE, type, spared, cur)
          = {RefreshIdx(prs, type = "Arf", spared, cur)}
    BY <1>1, <1>3 DEF RefreshFrameFlags
  <2>2. Occupied(prs) = Slots
    BY <1>3 DEF Occupied
  <2>3. (type = "Arf") \in BOOLEAN /\ (type # "Arf" => (type = "Arf") = FALSE)
    OBVIOUS
  <2> QED BY <2>1, <2>2, <2>3, Zenon DEF OneSlot
<1> QED BY <1>2, <1>3

LEMMA PlanFields ==
  ASSUME NEW type, NEW ord, NEW lev, Plan(type, ord, lev)
  PROVE  /\ coding'.type = type /\ coding'.ord = ord /\ coding'.lev = lev
         /\ UNCHANGED <<pairs, next, ahead, last>>
         /\ coding' # Idle
         /\ \E spared \in SkipLists :
              coding'.mask = RefreshFrameFlags(pairs, type = "Kf", FALSE, type, spared, ord)
<1>1. PICK spared \in SkipLists, excluded \in Exclusions(type) :
        coding' = [type |-> type, ord |-> ord, lev |-> lev, excluded |-> excluded,
                   refs |-> RefFrames(pairs, ord, excluded # {}, excluded),
                   mask |-> RefreshFrameFlags(pairs, type = "Kf", FALSE, type, spared, ord)]
  BY DEF Plan
<1>2. coding' # Idle
  BY <1>1 DEF Idle
<1> QED BY <1>1, <1>2 DEF Plan

LEMMA PlanPyramid ==
  ASSUME Pyramid, NEW type, NEW ord, NEW lev, Plan(type, ord, lev), PlanFits'
  PROVE  Pyramid'
<1>1. UNCHANGED <<pairs, next, ahead, last>>
  BY DEF Plan
<1> QED BY <1>1 DEF Pyramid, BaseKept

(* A leaf coded when nothing is ahead of display never evicts the only level-1
   frame: no more than the last two frames shown are kept for being recent, so
   six more could go, and a level-1 frame goes only if all six are. *)
LEMMA LeafKeepsBase ==
  ASSUME Inv, Pyramid, ahead = {}, NEW spared \in SkipLists, NEW s,
         \/ s \in Slots /\ pairs[s].ord = -1
         \/ s # -1 /\ Occupied(pairs) = Slots /\ s = RefreshIdx(pairs, FALSE, spared, next)
  PROVE  \E i \in Slots \ {s} : pairs[i].lev = 1
<1>1. PICK base \in Slots : pairs[base].lev = 1
  BY DEF Pyramid, BaseKept
<1>2. /\ pairs \in [Slots -> Frame] /\ \A i \in Slots : pairs[i].ord >= -1
      /\ \A i \in Slots : pairs[i].ord \in Int
      /\ next \in Int /\ last.ord \in Int /\ last.ord >= next - 1
      /\ \A i \in Slots : pairs[i].ord < next
  BY DEF Inv, Frame, Pyramid
<1>3. CASE s \in Slots /\ pairs[s].ord = -1
  <2>1. pairs[s].lev = -1
    BY <1>3 DEF Pyramid, Empty
  <2> QED BY <1>1, <2>1
<1>4. CASE s # -1 /\ Occupied(pairs) = Slots /\ s = RefreshIdx(pairs, FALSE, spared, next)
  <2> DEFINE E == Evictable(pairs, spared, next)
  <2>1. s \in E /\ (pairs[s].lev # 1 \/ \A i \in E : pairs[i].lev = 1)
    <3>1. /\ E # {} => s \in E
          /\ E = {} => s = -1
          /\ E # {} => pairs[s].lev # 1 \/ \A i \in E : pairs[i].lev = 1
      BY <1>2, <1>4, RefreshIdxFinds
    <3> QED BY <1>4, <3>1
  <2>2. CASE pairs[s].lev # 1
    BY <1>1, <2>2
  <2>3. ASSUME \A i \in E : i = s PROVE FALSE
    <3>1. \A i \in Slots : i # s /\ pairs[i].ord # -1 =>
            pairs[i].ord = next - 1 \/ pairs[i].ord = next - 2
      <4>1. \A n \in spared : n = last.ord
        BY DEF SkipLists
      <4> SUFFICES ASSUME NEW i \in Slots, i # s, pairs[i].ord # -1
                   PROVE  pairs[i].ord = next - 1 \/ pairs[i].ord = next - 2
        OBVIOUS
      <4>2. i \notin Evictable(pairs, spared, next)
        BY <2>3
      <4>3. pairs[i].ord > next - 3 \/ pairs[i].ord = last.ord
        BY <1>2, <4>1, <4>2 DEF Evictable, Occupied
      <4> QED BY <1>2, <4>3
    <3>2. \A i \in Slots : pairs[i].ord # -1
      BY <1>4 DEF Occupied
    <3>3. \E x, y, z \in Slots \ {s} : x # y /\ y # z /\ x # z
      <4>1. {0, 1, 2, 3} \subseteq Slots
        BY DEF Slots
      <4>2. CASE s = 0
        BY <4>1, <4>2, 1 \in Slots \ {s}, 2 \in Slots \ {s}, 3 \in Slots \ {s}
      <4>3. CASE s = 1
        BY <4>1, <4>3, 0 \in Slots \ {s}, 2 \in Slots \ {s}, 3 \in Slots \ {s}
      <4>4. CASE s = 2
        BY <4>1, <4>4, 0 \in Slots \ {s}, 1 \in Slots \ {s}, 3 \in Slots \ {s}
      <4>5. CASE s \notin {0, 1, 2}
        BY <4>1, <4>5, 0 \in Slots \ {s}, 1 \in Slots \ {s}, 2 \in Slots \ {s}
      <4> QED BY <4>2, <4>3, <4>4, <4>5
    <3>4. PICK x \in Slots \ {s}, y \in Slots \ {s}, z \in Slots \ {s} :
            x # y /\ y # z /\ x # z
      BY <3>3
    <3>5. /\ pairs[x].ord # pairs[y].ord /\ pairs[y].ord # pairs[z].ord
          /\ pairs[x].ord # pairs[z].ord
      BY <3>2, <3>4 DEF Pyramid
    <3> QED BY <1>2, <3>1, <3>2, <3>4, <3>5
  <2>4. CASE \A i \in E : pairs[i].lev = 1
    <3>1. PICK i \in E : i # s
      BY <2>3
    <3>2. i \in Slots
      BY <3>1 DEF Evictable, Occupied
    <3> QED BY <2>4, <3>1, <3>2
  <2> QED BY <2>1, <2>2, <2>4
<1> QED BY <1>3, <1>4

(* What a plan for a frame that is coded, not shown again, owes the pyramid. *)
LEMMA PlanCodedFits ==
  ASSUME Inv, Pyramid, NEW type \in {"Lf", "Arf", "IntnlArf"}, NEW ord \in Nat,
         NEW lev \in Int, Plan(type, ord, lev), PlanSound',
         \A f \in ahead : f.ord # ord,
         type = "Lf" => ord = next,
         type # "Lf" => /\ ord > next /\ lev >= 1 /\ (lev = 1 \/ lev < MaxLayers)
                        /\ ahead = {} => lev = 1
                        /\ \A f \in ahead : f.ord > ord /\ f.lev < lev
  PROVE  PlanFits'
<1>1. PICK spared \in SkipLists :
        coding'.mask = RefreshFrameFlags(pairs, type = "Kf", FALSE, type, spared, ord)
  BY PlanFields
<1>2. /\ coding'.type = type /\ coding'.ord = ord /\ coding'.lev = lev
      /\ UNCHANGED <<pairs, next, ahead>> /\ coding' # Idle
  BY PlanFields
<1>3. pairs \in [Slots -> Frame] /\ ord \in Int
  BY DEF Inv
<1>4. (type = "Kf") = FALSE
  OBVIOUS
<1>5. PICK s : /\ coding'.mask = {s}
               /\ \/ s \in Slots /\ pairs[s].ord = -1
                  \/ /\ Occupied(pairs) = Slots
                     /\ \E arf \in BOOLEAN : /\ type # "Arf" => arf = FALSE
                                             /\ s = RefreshIdx(pairs, arf, spared, ord)
  <2>1. coding'.mask = RefreshFrameFlags(pairs, FALSE, FALSE, type, spared, ord)
    <3>1. (type = "Kf") = FALSE =>
            RefreshFrameFlags(pairs, type = "Kf", FALSE, type, spared, ord)
              = RefreshFrameFlags(pairs, FALSE, FALSE, type, spared, ord)
      BY DEF RefreshFrameFlags
    <3> QED BY <1>1, <1>4, <3>1
  <2>2. OneSlot(coding'.mask, pairs, type, spared, ord)
    <3>1. type \notin {"Overlay", "IntnlOverlay"}
      OBVIOUS
    <3> QED BY <1>3, <2>1, <3>1, FlagsOne
  <2> QED BY <2>2, Zenon DEF OneSlot
<1>6. s # -1 => (lev = 1 \/ \E i \in Slots \ {s} : pairs[i].lev = 1)
  <2>1. CASE ahead = {} /\ type = "Lf"
    <3>1. type # "Arf" /\ ord = next
      BY <2>1
    <3>2. s # -1 => \/ s \in Slots /\ pairs[s].ord = -1
                    \/ /\ s # -1 /\ Occupied(pairs) = Slots
                       /\ s = RefreshIdx(pairs, FALSE, spared, next)
      BY <1>5, <3>1, Zenon
    <3> QED BY <2>1, <3>2, LeafKeepsBase
  <2>2. CASE ahead # {}
    <3>1. PICK f \in ahead : f.lev = 1
      BY <2>2 DEF Pyramid
    <3>2. PICK i \in Slots : pairs[i] = f
      BY DEF Inv, FutureKept
    <3>3. i # s
      BY <1>2, <1>5, <3>2 DEF PlanSound
    <3> QED BY <3>1, <3>2, <3>3
  <2>3. CASE ahead = {} /\ type # "Lf"
    BY <2>3
  <2> QED BY <2>1, <2>2, <2>3
<1> QED BY <1>2, <1>5, <1>6 DEF PlanFits

LEMMA PlansKeepPyramid ==
  ASSUME Inv, Pyramid, Inv', PlanKey \/ PlanArf \/ PlanIntnlArf \/ PlanLeaf \/ PlanOverlay
  PROVE  Pyramid'
<1>1. PlanSound'
  BY DEF Inv
<1>2. next \in Nat /\ \A f \in ahead : f.ord \in Int /\ f.lev \in Int /\ f.ord >= next
  BY DEF Inv, Frame
<1>3. CASE PlanKey
  <2>1. ahead = {} /\ Plan("Kf", 0, 1)
    BY <1>3 DEF PlanKey
  <2>2. coding'.type = "Kf" /\ coding'.ord = 0 /\ coding'.lev = 1 /\ coding'.mask = Slots
    BY <2>1 DEF Plan, RefreshFrameFlags
  <2>3. ahead' = {} /\ 0 \in Slots
    BY <2>1 DEF Plan, Slots
  <2>4. PlanFits'
    BY <2>2, <2>3 DEF PlanFits
  <2> QED BY <2>1, <2>4, PlanPyramid
<1>4. CASE PlanArf
  <2>1. PICK ord \in next + 1 .. next + MaxAhead : ahead = {} /\ Plan("Arf", ord, 1)
    BY <1>4 DEF PlanArf
  <2>2. ord \in Nat /\ ord > next
    BY <1>2, <2>1, RefGopAssumption
  <2>3. PlanFits'
    BY <1>1, <2>1, <2>2, PlanCodedFits
  <2> QED BY <2>1, <2>3, PlanPyramid
<1>5. CASE PlanIntnlArf
  <2>1. PICK after \in ahead :
          /\ \A f \in ahead : after.ord <= f.ord
          /\ after.lev + 1 < MaxLayers
          /\ \E ord \in next + 1 .. after.ord - 1 : Plan("IntnlArf", ord, after.lev + 1)
    BY <1>5 DEF PlanIntnlArf
  <2>2. PICK ord \in next + 1 .. after.ord - 1 : Plan("IntnlArf", ord, after.lev + 1)
    BY <2>1
  <2>3. ord \in Nat /\ ord > next /\ after.lev \in Int /\ after.lev >= 1
    BY <1>2, <2>1, <2>2 DEF Pyramid
  <2>4. \A f \in ahead : f.ord > ord /\ f.lev < after.lev + 1
    <3> SUFFICES ASSUME NEW f \in ahead PROVE f.ord > ord /\ f.lev < after.lev + 1
      OBVIOUS
    <3>1. f.ord > ord
      BY <1>2, <2>1, <2>2
    <3>2. CASE f.ord = after.ord
      BY <1>2, <3>1, <3>2 DEF Pyramid
    <3>3. CASE f.ord > after.ord
      BY <1>2, <3>1, <3>3 DEF Pyramid
    <3> QED BY <1>2, <2>1, <3>2, <3>3
  <2>5. \A f \in ahead : f.ord # ord
    BY <1>2, <2>3, <2>4
  <2>6. PlanFits'
    BY <1>1, <2>1, <2>2, <2>3, <2>4, <2>5, PlanCodedFits
  <2> QED BY <2>2, <2>6, PlanPyramid
<1>6. CASE PlanLeaf
  <2>1. (\A f \in ahead : f.ord # next) /\ Plan("Lf", next, MaxLayers)
    BY <1>6 DEF PlanLeaf
  <2>2. MaxLayers \in Int
    BY RefGopAssumption
  <2>3. PlanFits'
    BY <1>1, <1>2, <2>1, <2>2, PlanCodedFits
  <2> QED BY <2>1, <2>3, PlanPyramid
<1>7. CASE PlanOverlay
  <2>1. PICK f \in ahead :
          Plan(IF f.lev = 1 THEN "Overlay" ELSE "IntnlOverlay", next, f.lev)
    BY <1>7 DEF PlanOverlay
  <2> DEFINE type == IF f.lev = 1 THEN "Overlay" ELSE "IntnlOverlay"
  <2>2. type \in {"Overlay", "IntnlOverlay"} /\ Plan(type, next, f.lev)
    BY <2>1
  <2> HIDE DEF type
  <2>3. PICK spared \in SkipLists :
          coding'.mask = RefreshFrameFlags(pairs, type = "Kf", FALSE, type, spared, next)
    BY <2>2, PlanFields
  <2>4. (type = "Kf") = FALSE
    BY <2>2
  <2>5. coding'.mask = {}
    BY <2>2, <2>3, <2>4 DEF RefreshFrameFlags
  <2>6. /\ coding'.type = type /\ coding'.ord = next
        /\ UNCHANGED <<pairs, next, ahead>>
    BY <2>2, PlanFields
  <2>7. \E i \in Slots \ coding'.mask : pairs'[i].lev = 1
    BY <2>5, <2>6 DEF Pyramid, BaseKept
  <2>8. PlanFits'
    BY <2>2, <2>5, <2>6, <2>7 DEF PlanFits
  <2> QED BY <2>2, <2>8, PlanPyramid
<1> QED BY <1>3, <1>4, <1>5, <1>6, <1>7

(* What coding a planned frame does, with the planned fields spelled out. *)
LEMMA CodeFields ==
  ASSUME Inv, Pyramid, Code
  PROVE  LET frame == [lev |-> coding.lev, ord |-> coding.ord]
             inner == coding.type \in {"Arf", "IntnlArf"} IN
         /\ coding.mask = Slots => pairs' = OnlyHolds(frame)
         /\ coding.mask # Slots =>
              pairs' = [i \in Slots |-> IF i \in coding.mask THEN frame ELSE pairs[i]]
         /\ inner => ahead' = ahead \cup {frame} /\ next' = next
         /\ ~inner => /\ ahead' = {f \in ahead : f.ord # coding.ord}
                      /\ next' = coding.ord + 1
         /\ last'.ord = coding.ord
         /\ PlanFits'
         /\ frame \in Frame /\ frame.ord = coding.ord /\ frame.lev = coding.lev
         /\ coding.ord \in Nat /\ coding.lev \in Int /\ next \in Nat
         /\ coding.mask \subseteq Slots /\ coding # Idle /\ -1 \notin coding.mask
         /\ \A f \in ahead : f.ord \in Int /\ f.lev \in Int /\ f.ord >= next
         /\ \A i \in Slots : pairs[i].ord \in Int /\ pairs[i].ord >= -1
         /\ inner => coding.mask # {}
<1>1. coding # Idle /\ -1 \notin coding.mask /\ coding' = Idle
  BY DEF Code
<1>2. /\ coding.ord \in Nat /\ coding.lev \in Int
      /\ coding.mask \subseteq Slots
      /\ coding.type \in {"Arf", "IntnlArf"} => coding.mask # {}
  BY <1>1 DEF Inv, PlanSound
<1>3. PlanFits'
  BY <1>1 DEF PlanFits
<1>4. [lev |-> coding.lev, ord |-> coding.ord] \in Frame
  BY <1>2 DEF Frame
<1>5. /\ next \in Nat
      /\ \A f \in ahead : f.ord \in Int /\ f.lev \in Int /\ f.ord >= next
      /\ \A i \in Slots : pairs[i].ord \in Int /\ pairs[i].ord >= -1
  BY DEF Inv, Frame
<1> QED BY <1>1, <1>2, <1>3, <1>4, <1>5 DEF Code

(* A KEY frame starts the pyramid over. *)
LEMMA KeyKeepsPyramid ==
  ASSUME Inv, Pyramid, Code, coding.type = "Kf"
  PROVE  Pyramid'
<1> DEFINE frame == [lev |-> coding.lev, ord |-> coding.ord]
<1>1. /\ coding.mask = Slots /\ coding.ord = 0 /\ coding.lev = 1 /\ ahead = {}
      /\ coding.type \notin {"Arf", "IntnlArf"}
  BY CodeFields DEF Pyramid, PlanFits
<1>2. /\ pairs' = OnlyHolds(frame) /\ ahead' = {} /\ next' = 1 /\ last'.ord = 0
      /\ PlanFits'
  BY <1>1, CodeFields
<1>3. /\ pairs'[0] = frame /\ frame.ord = 0 /\ frame.lev = 1 /\ 0 \in Slots
      /\ \A i \in Slots : i # 0 => pairs'[i] = Empty
      /\ Empty.ord = -1
  BY <1>1, <1>2 DEF OnlyHolds, Slots, Empty
<1> HIDE DEF frame
<1>4. BaseKept'
  BY <1>3 DEF BaseKept
<1> QED BY <1>2, <1>3, <1>4 DEF Pyramid

(* Showing a frame again only takes it out of ahead. *)
LEMMA OverlayKeepsPyramid ==
  ASSUME Inv, Pyramid, Code, coding.type \in {"Overlay", "IntnlOverlay"}
  PROVE  Pyramid'
<1>1. /\ coding.mask = {} /\ coding.ord = next
      /\ coding.type \notin {"Arf", "IntnlArf"}
  BY CodeFields DEF Pyramid, PlanFits
<1>2. 0 \in Slots
  BY DEF Slots
<1>3. /\ \A i \in Slots : pairs'[i] = pairs[i]
      /\ ahead' = {f \in ahead : f.ord # next} /\ next' = next + 1
      /\ last'.ord = next /\ PlanFits' /\ next \in Nat
      /\ \A f \in ahead : f.ord \in Int /\ f.lev \in Int /\ f.ord >= next
      /\ \A i \in Slots : pairs[i].ord \in Int
  BY <1>1, <1>2, CodeFields
<1>4. \A i \in Slots : pairs'[i].ord < next' \/ pairs'[i] \in ahead'
  BY <1>3 DEF Pyramid
<1>5. ahead' # {} => \E f \in ahead' : f.lev = 1
  <2> SUFFICES ASSUME NEW g \in ahead' PROVE \E f \in ahead' : f.lev = 1
    OBVIOUS
  <2>1. PICK b \in ahead : b.lev = 1
    BY <1>3 DEF Pyramid
  <2>2. CASE b.ord = next
    <3>1. g \in ahead /\ b.ord < g.ord
      BY <1>3, <2>2
    <3>2. b.lev > g.lev /\ g.lev >= 1
      BY <3>1 DEF Pyramid
    <3> QED BY <1>3, <2>1, <3>1, <3>2
  <2> QED BY <1>3, <2>1, <2>2
<1>6. BaseKept'
  BY <1>3 DEF Pyramid, BaseKept
<1> QED BY <1>3, <1>4, <1>5, <1>6 DEF Pyramid

(* A frame that is coded takes one slot, under an order that is held nowhere. *)
LEMMA CodedKeepsPyramid ==
  ASSUME Inv, Pyramid, Code, coding.type \notin {"Kf", "Overlay", "IntnlOverlay"}
  PROVE  Pyramid'
<1> DEFINE frame == [lev |-> coding.lev, ord |-> coding.ord]
           inner == coding.type \in {"Arf", "IntnlArf"}
<1>1. /\ \A s, t \in coding.mask : s = t
      /\ \A f \in ahead : f.ord # coding.ord
      /\ ~inner => coding.ord = next
      /\ \/ coding.lev = 1 /\ coding.mask # {}
         \/ \E i \in Slots \ coding.mask : pairs[i].lev = 1
  BY CodeFields DEF Pyramid, PlanFits
<1>2. inner => /\ coding.ord > next /\ coding.lev >= 1
               /\ coding.lev = 1 \/ coding.lev < MaxLayers
               /\ ahead = {} => coding.lev = 1
               /\ \A f \in ahead : f.ord > coding.ord /\ f.lev < coding.lev
  BY CodeFields DEF Pyramid, PlanFits
<1>3. coding.mask # Slots
  <2>1. 0 \in Slots /\ 1 \in Slots
    BY DEF Slots
  <2> QED BY <1>1, <2>1
<1>4. /\ \A i \in Slots : pairs'[i] = IF i \in coding.mask THEN frame ELSE pairs[i]
      /\ inner => ahead' = ahead \cup {frame} /\ next' = next
      /\ ~inner => /\ ahead' = {f \in ahead : f.ord # coding.ord}
                   /\ next' = coding.ord + 1
      /\ last'.ord = coding.ord /\ PlanFits'
      /\ frame.ord = coding.ord /\ frame.lev = coding.lev
      /\ coding.ord \in Nat /\ coding.lev \in Int /\ next \in Nat
      /\ coding.mask \subseteq Slots
      /\ \A f \in ahead : f.ord \in Int /\ f.lev \in Int /\ f.ord >= next
      /\ \A i \in Slots : pairs[i].ord \in Int
  BY <1>3, CodeFields
<1> HIDE DEF frame, inner
<1>5. ~inner => ahead' = ahead
  BY <1>1, <1>4
<1>6. \A i \in Slots : pairs[i].ord # coding.ord
  BY <1>1, <1>2, <1>4 DEF Pyramid
<1>7. \A i, j \in Slots : pairs'[i].ord = pairs'[j].ord /\ pairs'[i].ord # -1 => i = j
  BY <1>1, <1>4, <1>6 DEF Pyramid
<1>8. /\ \A i \in Slots : pairs'[i].ord = -1 => pairs'[i] = Empty
      /\ \A i \in Slots : pairs'[i].ord < next' \/ pairs'[i] \in ahead'
  BY <1>1, <1>4, <1>5 DEF Pyramid
<1>9. \A f \in ahead' : f \in ahead \/ (inner /\ f = frame)
  BY <1>4, <1>5
<1>10. /\ \A f \in ahead' : f.lev >= 1 /\ (f.lev = 1 \/ f.lev < MaxLayers)
       /\ \A f, g \in ahead' : f.ord = g.ord => f = g
  BY <1>1, <1>2, <1>4, <1>9 DEF Pyramid
<1>11. \A f, g \in ahead' : f.ord < g.ord => f.lev > g.lev
  BY <1>2, <1>4, <1>9 DEF Pyramid
<1>12. ahead' # {} => \E f \in ahead' : f.lev = 1
  BY <1>2, <1>4, <1>5 DEF Pyramid
<1>13. last'.ord \in Int /\ last'.ord >= next' - 1
  BY <1>1, <1>2, <1>4
<1>14. BaseKept'
  BY <1>1, <1>4 DEF BaseKept
<1> QED BY <1>4, <1>7, <1>8, <1>10, <1>11, <1>12, <1>13, <1>14 DEF Pyramid

(* Every step keeps the pyramid. *)
LEMMA PyramidStep == Inv /\ Pyramid /\ [Next]_vars /\ Inv' => Pyramid'
<1> SUFFICES ASSUME Inv, Pyramid, [Next]_vars, Inv' PROVE Pyramid'
  OBVIOUS
<1>1. CASE PlanKey \/ PlanArf \/ PlanIntnlArf \/ PlanLeaf \/ PlanOverlay
  BY <1>1, PlansKeepPyramid
<1>2. CASE Code
  BY <1>2, KeyKeepsPyramid, OverlayKeepsPyramid, CodedKeepsPyramid
<1>3. CASE UNCHANGED vars
  BY <1>3 DEF vars, Pyramid, BaseKept, PlanFits
<1> QED BY <1>1, <1>2, <1>3 DEF Next

LEMMA PyramidInit == Init => Pyramid
<1> SUFFICES ASSUME Init PROVE Pyramid
  OBVIOUS
<1>1. /\ pairs[0] = [lev |-> 1, ord |-> 0] /\ 0 \in Slots
      /\ \A i \in Slots : i # 0 => pairs[i] = Empty
      /\ Empty.ord = -1
      /\ next = 1 /\ ahead = {} /\ last.ord = 0
  BY DEF Init, OnlyHolds, Slots, Empty
<1>2. PlanFits
  BY DEF Init, PlanFits
<1>3. BaseKept
  BY <1>1 DEF BaseKept
<1> QED BY <1>1, <1>2, <1>3 DEF Pyramid

(* The invariant of every step, from the lemmas of FutureFramesKept. *)
LEMMA InvStep == Inv /\ [Next]_vars => Inv'
<1> SUFFICES ASSUME Inv, [Next]_vars PROVE Inv'
  OBVIOUS
<1>1. CASE UNCHANGED vars
  BY <1>1 DEF vars, Inv, FutureKept, PlanSound
<1> QED BY <1>1, PlanKeySound, PlanArfSound, PlanIntnlArfSound, PlanLeafSound,
           PlanOverlaySound, CodeSound DEF Next

(* Whatever is coded, some buffer holds a level-1 frame: refreshing never takes
   the last one (refresh_idx). *)
THEOREM BaseAlwaysKept == Spec => []BaseKept
<1>1. Init => Inv /\ Pyramid
  BY InvInit, PyramidInit
<1>2. Inv /\ Pyramid /\ [Next]_vars => Inv' /\ Pyramid'
  BY InvStep, PyramidStep
<1>3. Pyramid => BaseKept
  BY DEF Pyramid
<1> QED BY <1>1, <1>2, <1>3, PTL DEF Spec

(* A frame not yet shown finds a slot: one that is free, or one to overwrite. *)
LEMMA CodedFindsSlot ==
  ASSUME Inv, Pyramid, MaxLayers <= 6, NEW type, NEW ord \in Int, NEW lev,
         type \notin {"Kf", "Overlay", "IntnlOverlay"}, ord >= next,
         Plan(type, ord, lev)
  PROVE  SlotFound'
<1>1. PICK spared \in SkipLists :
        coding'.mask = RefreshFrameFlags(pairs, type = "Kf", FALSE, type, spared, ord)
  BY PlanFields
<1>2. coding'.mask = RefreshFrameFlags(pairs, FALSE, FALSE, type, spared, ord)
  <2>1. (type = "Kf") = FALSE
    OBVIOUS
  <2>2. (type = "Kf") = FALSE =>
          RefreshFrameFlags(pairs, type = "Kf", FALSE, type, spared, ord)
            = RefreshFrameFlags(pairs, FALSE, FALSE, type, spared, ord)
    BY DEF RefreshFrameFlags
  <2> QED BY <1>1, <2>1, <2>2
<1>3. /\ pairs \in [Slots -> Frame] /\ \A i \in Slots : pairs[i].ord >= -1
      /\ type \notin {"Overlay", "IntnlOverlay"}
  BY DEF Inv
<1>4. OneSlot(coding'.mask, pairs, type, spared, ord)
  BY <1>2, <1>3, FlagsOne
<1>5. PICK s : /\ coding'.mask = {s}
               /\ \/ s \in Slots /\ pairs[s].ord = -1
                  \/ /\ Occupied(pairs) = Slots
                     /\ \E arf \in BOOLEAN : /\ type # "Arf" => arf = FALSE
                                             /\ s = RefreshIdx(pairs, arf, spared, ord)
  BY <1>4, Zenon DEF OneSlot
<1>6. s \in Slots
  <2> SUFFICES ASSUME Occupied(pairs) = Slots, NEW arf \in BOOLEAN,
                      s = RefreshIdx(pairs, arf, spared, ord)
               PROVE  s \in Slots
    BY <1>5
  <2> DEFINE E == Evictable(pairs, spared, ord)
  <2>1. E # {}
    BY SomeEvictable
  <2>2. E # {} => s \in E
    BY <1>3, RefreshIdxFinds
  <2>3. E \subseteq Slots
    BY DEF Evictable, Occupied
  <2> QED BY <2>1, <2>2, <2>3
<1>7. -1 \notin coding'.mask
  BY <1>5, <1>6 DEF Slots
<1> QED BY <1>7 DEF SlotFound

LEMMA SlotFoundStep ==
  ASSUME Inv, Pyramid, SlotFound, MaxLayers <= 6, [Next]_vars, Pyramid'
  PROVE  SlotFound'
<1>1. /\ next \in Nat /\ MaxAhead \in Nat
      /\ \A f \in ahead : f.ord \in Int /\ f.lev \in Int
  BY RefGopAssumption DEF Inv, Frame
<1>2. CASE PlanKey
  <2>1. coding'.mask = Slots
    BY <1>2 DEF PlanKey, Plan, RefreshFrameFlags
  <2> QED BY <2>1 DEF SlotFound, Slots
<1>3. CASE PlanArf
  <2>1. PICK ord \in next + 1 .. next + MaxAhead : Plan("Arf", ord, 1)
    BY <1>3 DEF PlanArf
  <2>2. ord \in Int /\ ord >= next
    BY <1>1, <2>1
  <2> QED BY <2>1, <2>2, CodedFindsSlot
<1>4. CASE PlanIntnlArf
  <2>1. PICK after \in ahead :
          \E ord \in next + 1 .. after.ord - 1 : Plan("IntnlArf", ord, after.lev + 1)
    BY <1>4 DEF PlanIntnlArf
  <2>2. PICK ord \in next + 1 .. after.ord - 1 : Plan("IntnlArf", ord, after.lev + 1)
    BY <2>1
  <2>3. ord \in Int /\ ord >= next
    BY <1>1, <2>1, <2>2
  <2> QED BY <2>2, <2>3, CodedFindsSlot
<1>5. CASE PlanLeaf
  <2>1. Plan("Lf", next, MaxLayers) /\ next \in Int /\ next >= next
    BY <1>1, <1>5 DEF PlanLeaf
  <2> QED BY <2>1, CodedFindsSlot
<1>6. CASE PlanOverlay
  <2>1. PICK f \in ahead :
          Plan(IF f.lev = 1 THEN "Overlay" ELSE "IntnlOverlay", next, f.lev)
    BY <1>6 DEF PlanOverlay
  <2> DEFINE type == IF f.lev = 1 THEN "Overlay" ELSE "IntnlOverlay"
  <2>2. type \in {"Overlay", "IntnlOverlay"} /\ Plan(type, next, f.lev)
    BY <2>1
  <2> HIDE DEF type
  <2>3. coding'.type \in {"Overlay", "IntnlOverlay"} /\ coding' # Idle
    BY <2>2, PlanFields
  <2>4. coding'.mask = {}
    BY <2>3 DEF Pyramid, PlanFits
  <2> QED BY <2>4 DEF SlotFound
<1>7. CASE Code
  BY <1>7 DEF Code, SlotFound, Planned
<1>8. CASE UNCHANGED vars
  BY <1>8 DEF vars, SlotFound, Planned
<1> QED BY <1>2, <1>3, <1>4, <1>5, <1>6, <1>7, <1>8 DEF Next

(* Some slot can always be refreshed, in a pyramid no deeper than the encoder
   builds (MAX_ARF_LAYERS is 6): the two last frames shown, the frame coded last
   and one frame of each inner level never fill the eight slots, so the shift by
   -1 that the port declines is never reached. *)
THEOREM SlotAlwaysFound == MaxLayers <= 6 => (Spec => []SlotFound)
<1> SUFFICES ASSUME MaxLayers <= 6 PROVE Spec => []SlotFound
  OBVIOUS
<1>1. Init => Inv /\ Pyramid /\ SlotFound
  <2>1. Init => SlotFound
    BY DEF Init, SlotFound, Planned
  <2> QED BY <2>1, InvInit, PyramidInit
<1>2. Inv /\ Pyramid /\ SlotFound /\ [Next]_vars => Inv' /\ Pyramid' /\ SlotFound'
  BY InvStep, PyramidStep, SlotFoundStep
<1> QED BY <1>1, <1>2, PTL DEF Spec

-----------------------------------------------------------------------------
(* The references of a plan: get_ref_frames gives names to buffers one list at *)
(* a time.  What is kept throughout is that names set are set to different     *)
(* buffers, and that these and the buffers not given yet are the ones to read. *)

(* The ranks of the members of a finite set, by different integers, are the
   numbers from 0. *)
LEMMA Ranks ==
  ASSUME NEW S, IsFiniteSet(S), NEW rank, \A i \in S : rank[i] \in Int,
         \A i, j \in S : rank[i] = rank[j] => i = j
  PROVE  /\ \A i \in S : Rank(rank, S, i) \in 0 .. Cardinality(S) - 1
         /\ \A i, j \in S : Rank(rank, S, i) = Rank(rank, S, j) => i = j
         /\ \A k \in 0 .. Cardinality(S) - 1 : \E i \in S : Rank(rank, S, i) = k
<1> DEFINE Below(i) == {j \in S : rank[j] < rank[i]}
           n == Cardinality(S)
<1>1. n \in Nat
  BY FS_CardinalityType
<1>2. \A T \in SUBSET S : /\ IsFiniteSet(T) /\ Cardinality(T) \in Nat /\ Cardinality(T) <= n
                          /\ Cardinality(T) = n => S = T
  BY FS_Subset, FS_CardinalityType
<1>3. \A i : Rank(rank, S, i) = Cardinality(Below(i))
  BY DEF Rank
<1>4. \A i \in S : Rank(rank, S, i) \in 0 .. n - 1
  <2> SUFFICES ASSUME NEW i \in S PROVE Cardinality(Below(i)) \in 0 .. n - 1
    BY <1>3
  <2>1. Below(i) \in SUBSET S /\ i \notin Below(i)
    OBVIOUS
  <2>2. Below(i) # S
    BY <2>1
  <2> HIDE DEF Below, n
  <2>3. Cardinality(Below(i)) \in Nat /\ Cardinality(Below(i)) <= n /\ Cardinality(Below(i)) # n
    BY <1>2, <2>1, <2>2
  <2> QED BY <1>1, <2>3
<1>5. \A i, j \in S : rank[i] < rank[j] => Rank(rank, S, i) < Rank(rank, S, j)
  <2> SUFFICES ASSUME NEW i \in S, NEW j \in S, rank[i] < rank[j]
               PROVE  Rank(rank, S, i) < Rank(rank, S, j)
    OBVIOUS
  <2>1. i \in Below(j) /\ i \notin Below(i) /\ Below(i) \cup {i} \subseteq Below(j)
        /\ Below(i) \in SUBSET S /\ Below(j) \in SUBSET S
    OBVIOUS
  <2> HIDE DEF Below, n
  <2>2. IsFiniteSet(Below(i)) /\ IsFiniteSet(Below(j)) /\ Cardinality(Below(i)) \in Nat
    BY <1>2, <2>1
  <2>3. Cardinality(Below(i) \cup {i}) = Cardinality(Below(i)) + 1
    BY <2>1, <2>2, FS_AddElement
  <2>4. Cardinality(Below(i) \cup {i}) <= Cardinality(Below(j))
    BY <2>1, <2>2, FS_Subset
  <2>5. Cardinality(Below(j)) \in Nat
    BY <1>2, <2>1
  <2> QED BY <1>3, <2>2, <2>3, <2>4, <2>5
<1>6. \A i, j \in S : Rank(rank, S, i) = Rank(rank, S, j) => i = j
  <2> SUFFICES ASSUME NEW i \in S, NEW j \in S, Rank(rank, S, i) = Rank(rank, S, j)
               PROVE  rank[i] = rank[j]
    OBVIOUS
  <2>1. Rank(rank, S, i) \in Int /\ rank[i] \in Int /\ rank[j] \in Int
    BY <1>1, <1>4
  <2> QED BY <1>5, <2>1
<1>7. \A k \in 0 .. n - 1 : \E i \in S : Rank(rank, S, i) = k
  <2> DEFINE R == [i \in S |-> Rank(rank, S, i)]
  <2> HIDE DEF n
  <2>1. R \in Injection(S, 0 .. n - 1)
    BY <1>4, <1>6 DEF Injection, IsInjective
  <2>2. IsFiniteSet(0 .. n - 1) /\ Cardinality(0 .. n - 1) = n
    <3>1. 0 \in Int /\ n - 1 \in Int
      BY <1>1
    <3>2. /\ IsFiniteSet(0 .. n - 1)
          /\ Cardinality(0 .. n - 1) = IF 0 > n - 1 THEN 0 ELSE (n - 1) - 0 + 1
      BY <3>1, FS_Interval
    <3> QED BY <1>1, <3>2
  <2> HIDE DEF R
  <2>3. R \in Surjection(S, 0 .. n - 1)
    BY <2>1, <2>2, FS_Injection DEF n
  <2> QED BY <2>3 DEF R, Surjection
<1> QED BY <1>4, <1>6, <1>7

LEMMA NamedAre ==
  Named = {"LAST", "LAST2", "LAST3", "GOLDEN", "BWDREF", "ALTREF2", "ALTREF"}
BY DEF Named, Names, ToSet

(* Sequences of names, each at most once. *)
NameLists == {s \in Seq(Named) : \A k, l \in DOMAIN s : s[k] = s[l] => k = l}

(* Filling keeps the names that are set, sets others to buffers of S, no two of them
   to the same, and ends when the names or the buffers run out. *)
Filled(map, names, S, f) ==
  /\ f \in [Named -> Slots \cup {Unset}]
  /\ \A n \in Named : map[n] # Unset => f[n] = map[n]
  /\ \A n \in Named : f[n] # map[n] => f[n] \in S
  /\ \A m, n \in Named : f[m] # map[m] /\ f[n] # map[n] /\ f[m] = f[n] => m = n
  /\ \/ \A k \in DOMAIN names : f[names[k]] # Unset
     \/ \A i \in S : \E n \in Named : f[n] # map[n] /\ f[n] = i

LEMMA FillIs ==
  ASSUME NEW map \in [Named -> Slots \cup {Unset}], NEW names \in NameLists,
         NEW S \in SUBSET Slots, NEW rank \in [Slots -> Int],
         \A i, j \in S : rank[i] = rank[j] => i = j
  PROVE  Filled(map, names, S, Fill(map, names, S, rank))
<1> DEFINE f == Fill(map, names, S, rank)
           position == [k \in DOMAIN names |-> k]
           open == {k \in DOMAIN names : map[names[k]] = Unset}
           T(k) == Rank(position, open, k)
           P(i) == Rank(rank, S, i)
           U(n) == Turn(map, names, S, rank, n)
<1>1. f = [n \in Named |-> IF map[n] = Unset /\ U(n) # {} THEN Min(U(n)) ELSE map[n]]
  BY DEF Fill
<1>0. \A n : U(n) = {i \in S : \E k \in open : names[k] = n /\ T(k) = P(i)}
  BY DEF Turn
<1>2. IsFiniteSet(S) /\ S \subseteq Slots /\ Unset \notin Slots
  <2>1. IsFiniteSet(Slots)
    BY 0 \in Int, 7 \in Int, FS_Interval DEF Slots
  <2>2. IsFiniteSet(S)
    BY <2>1, FS_Subset
  <2> QED BY <2>2 DEF Slots, Unset
<1>3. IsFiniteSet(open) /\ open \subseteq DOMAIN names /\ DOMAIN names \subseteq Int
  <2>1. Len(names) \in Nat /\ DOMAIN names = 1 .. Len(names)
    BY DEF NameLists
  <2>2. IsFiniteSet(DOMAIN names)
    BY <2>1, 1 \in Int, FS_Interval
  <2>3. open \in SUBSET DOMAIN names
    OBVIOUS
  <2> HIDE DEF open
  <2> QED BY <2>1, <2>2, <2>3, FS_Subset
<1>4. /\ \A k \in open : T(k) \in 0 .. Cardinality(open) - 1
      /\ \A k, l \in open : T(k) = T(l) => k = l
      /\ \A r \in 0 .. Cardinality(open) - 1 : \E k \in open : T(k) = r
  <2>1. /\ \A k \in open : position[k] \in Int
        /\ \A k, l \in open : position[k] = position[l] => k = l
    BY <1>3
  <2> HIDE DEF open, position
  <2> QED BY <1>3, <2>1, Ranks
<1>5. /\ \A i \in S : P(i) \in 0 .. Cardinality(S) - 1
      /\ \A i, j \in S : P(i) = P(j) => i = j
      /\ \A r \in 0 .. Cardinality(S) - 1 : \E i \in S : P(i) = r
  BY <1>2, Ranks
<1>6. \A k, l \in DOMAIN names : names[k] = names[l] => k = l
  BY DEF NameLists
<1>7. \A k \in DOMAIN names : names[k] \in Named
  BY DEF NameLists
<1>8. Cardinality(open) \in Nat /\ Cardinality(S) \in Nat
  BY <1>2, <1>3, FS_CardinalityType
<1>9. \A k \in open : map[names[k]] = Unset
  OBVIOUS
<1>10. \A k \in DOMAIN names : k \notin open => map[names[k]] # Unset
  OBVIOUS
<1> HIDE DEF open, position, T, P
<1> HIDE DEF U, f
<1>11. \A n \in Named : U(n) # {} => map[n] = Unset /\ f[n] \in U(n) /\ f[n] \in S
  <2> SUFFICES ASSUME NEW n \in Named, U(n) # {}
               PROVE  map[n] = Unset /\ f[n] \in U(n) /\ f[n] \in S
    OBVIOUS
  <2>1. U(n) \subseteq S /\ map[n] = Unset
    BY <1>0, <1>9
  <2>2. Min(U(n)) \in U(n)
    <3>1. U(n) \in SUBSET Nat
      <4>1. \A i \in S : i \in Nat
        BY DEF Slots
      <4> QED BY <2>1, <4>1
    <3>2. PICK x \in U(n) : \A y \in U(n) : x <= y
      BY <3>1, Least
    <3> QED BY <3>2 DEF Min
  <2> QED BY <1>1, <2>1, <2>2
<1>12. \A n \in Named : U(n) = {} => f[n] = map[n]
  BY <1>1
<1>13. \A n \in Named : f[n] # map[n] => U(n) # {}
  BY <1>12
<1>14. f \in [Named -> Slots \cup {Unset}]
  <2>1. \A n \in Named : f[n] \in Slots \cup {Unset}
    BY <1>2, <1>11, <1>12
  <2>2. DOMAIN f = Named /\ f = [n \in Named |-> f[n]]
    BY <1>1
  <2> QED BY <2>1, <2>2
<1>15. ASSUME NEW m \in Named, NEW n \in Named, f[m] # map[m], f[n] # map[n], f[m] = f[n]
       PROVE  m = n
  <2>1. PICK k \in open : names[k] = m /\ T(k) = P(f[m])
    BY <1>0, <1>11, <1>13, <1>15
  <2>2. PICK l \in open : names[l] = n /\ T(l) = P(f[n])
    BY <1>0, <1>11, <1>13, <1>15
  <2>3. k = l
    BY <1>4, <1>15, <2>1, <2>2
  <2> QED BY <2>1, <2>2, <2>3
<1>16. ASSUME NEW k \in open, NEW i \in S, T(k) = P(i)
       PROVE  f[names[k]] = i /\ f[names[k]] # map[names[k]]
  <2> DEFINE n == names[k]
  <2>1. n \in Named /\ i \in U(n)
    BY <1>0, <1>3, <1>7, <1>16
  <2>2. f[n] \in U(n) /\ map[n] = Unset
    BY <1>11, <2>1
  <2>3. PICK l \in open : names[l] = n /\ T(l) = P(f[n])
    BY <1>0, <2>2
  <2>4. l = k
    BY <1>3, <1>6, <2>3
  <2>5. f[n] = i
    BY <1>5, <1>11, <1>16, <2>1, <2>2, <2>3, <2>4
  <2> QED BY <1>2, <2>2, <2>5
<1>17. CASE Cardinality(open) <= Cardinality(S)
  <2>1. \A k \in DOMAIN names : f[names[k]] # Unset
    <3> SUFFICES ASSUME NEW k \in DOMAIN names PROVE f[names[k]] # Unset
      OBVIOUS
    <3>1. CASE k \in open
      <4>1. T(k) \in 0 .. Cardinality(S) - 1
        BY <1>4, <1>8, <1>17, <3>1
      <4>2. PICK i \in S : P(i) = T(k)
        BY <1>5, <4>1
      <4> QED BY <1>2, <1>16, <3>1, <4>2
    <3>2. CASE k \notin open
      BY <1>7, <1>10, <1>11, <1>12, <3>2
    <3> QED BY <3>1, <3>2
  <2>2. Filled(map, names, S, f)
    BY <1>11, <1>12, <1>13, <1>14, <1>15, <2>1 DEF Filled
  <2> QED BY <2>2 DEF f
<1>18. CASE Cardinality(S) < Cardinality(open)
  <2>1. \A i \in S : \E n \in Named : f[n] # map[n] /\ f[n] = i
    <3> SUFFICES ASSUME NEW i \in S PROVE \E n \in Named : f[n] # map[n] /\ f[n] = i
      OBVIOUS
    <3>1. P(i) \in 0 .. Cardinality(open) - 1
      BY <1>5, <1>8, <1>18
    <3>2. PICK k \in open : T(k) = P(i)
      BY <1>4, <3>1
    <3> QED BY <1>3, <1>7, <1>16, <3>2
  <2>2. Filled(map, names, S, f)
    BY <1>11, <1>12, <1>13, <1>14, <1>15, <2>1 DEF Filled
  <2> QED BY <2>2 DEF f
<1> QED BY <1>8, <1>17, <1>18

(* Names and buffers while they are allotted: the names set are set to different
   buffers, none of them still free, and these and the free ones make up pool. *)
Filling(map, free, pool) ==
  /\ map \in [Named -> Slots \cup {Unset}]
  /\ \A m, n \in Named : map[m] = map[n] /\ map[m] # Unset => m = n
  /\ \A n \in Named : map[n] \notin free
  /\ \A i \in Slots : i \in pool <=> i \in free \/ \E n \in Named : map[n] = i

Step(map, names, S, free, pool, f, rest) ==
  /\ rest \in SUBSET free /\ Filling(f, rest, pool)
  /\ \A n \in Named : map[n] # Unset => f[n] = map[n]
  /\ (\A k \in DOMAIN names : f[names[k]] # Unset) \/ rest \cap S = {}

LEMMA FillStep ==
  ASSUME NEW map \in [Named -> Slots \cup {Unset}], NEW free \in SUBSET Slots,
         NEW pool \in SUBSET Slots, Filling(map, free, pool),
         NEW names \in NameLists, NEW S \in SUBSET free, NEW rank \in [Slots -> Int],
         \A i, j \in S : rank[i] = rank[j] => i = j
  PROVE  Step(map, names, S, free, pool, Fill(map, names, S, rank),
              free \ Given(map, Fill(map, names, S, rank)))
<1> DEFINE f == Fill(map, names, S, rank)
           rest == free \ Given(map, f)
<1>1. /\ map \in [Named -> Slots \cup {Unset}] /\ S \in SUBSET Slots /\ Unset \notin Slots
      /\ \A m, n \in Named : map[m] = map[n] /\ map[m] # Unset => m = n
      /\ \A n \in Named : map[n] \notin free
      /\ \A i \in Slots : i \in pool <=> i \in free \/ \E n \in Named : map[n] = i
  BY DEF Filling, Slots, Unset
<1>2. /\ f \in [Named -> Slots \cup {Unset}]
      /\ \A n \in Named : map[n] # Unset => f[n] = map[n]
      /\ \A n \in Named : f[n] # map[n] => f[n] \in S
      /\ \A m, n \in Named : f[m] # map[m] /\ f[n] # map[n] /\ f[m] = f[n] => m = n
      /\ \/ \A k \in DOMAIN names : f[names[k]] # Unset
         \/ \A i \in S : \E n \in Named : f[n] # map[n] /\ f[n] = i
  <2>1. Filled(map, names, S, f)
    BY <1>1, FillIs
  <2> HIDE DEF f
  <2> QED BY <2>1 DEF Filled
<1>3. \A i : i \in rest <=> i \in free /\ ~\E n \in Named : map[n] # f[n] /\ f[n] = i
  BY DEF Given
<1> HIDE DEF f, rest
<1>4. \A m, n \in Named : f[m] = f[n] /\ f[m] # Unset => m = n
  BY <1>1, <1>2
<1>5. \A n \in Named : f[n] \notin rest
  BY <1>1, <1>2, <1>3
<1>6. ASSUME NEW i \in Slots
      PROVE  i \in pool <=> i \in rest \/ \E n \in Named : f[n] = i
  <2>1. ASSUME i \in pool PROVE i \in rest \/ \E n \in Named : f[n] = i
    BY <1>1, <1>2, <1>3, <2>1
  <2>2. ASSUME i \in rest PROVE i \in pool
    BY <1>1, <1>3, <2>2
  <2>3. ASSUME NEW n \in Named, f[n] = i PROVE i \in pool
    BY <1>1, <1>2, <2>3
  <2> QED BY <2>1, <2>2, <2>3
<1>7. (\A k \in DOMAIN names : f[names[k]] # Unset) \/ rest \cap S = {}
  BY <1>2, <1>3
<1>8. rest \in SUBSET free
  BY <1>3
<1> QED BY <1>2, <1>4, <1>5, <1>6, <1>7, <1>8 DEF Filling, Step, f, rest

(* The three name lists of get_ref_frames, and the backward one. *)
LEMMA ListsAre ==
  /\ <<"LAST", "LAST2", "LAST3">> \in NameLists
  /\ <<"BWDREF", "ALTREF2", "ALTREF">> \in NameLists
  /\ Names \in NameLists /\ Reverse(Names) \in NameLists
  /\ \A n \in Named : \E k \in DOMAIN Names : Names[k] = n
  /\ \A n \in Named : \E k \in DOMAIN Reverse(Names) : Reverse(Names)[k] = n
<1>1. Reverse(Names) = <<"ALTREF", "ALTREF2", "BWDREF", "GOLDEN", "LAST3", "LAST2", "LAST">>
  BY DEF Reverse, Names
<1>2. /\ <<"LAST", "LAST2", "LAST3">> \in NameLists
      /\ <<"BWDREF", "ALTREF2", "ALTREF">> \in NameLists
  BY NamedAre DEF NameLists
<1>3. Names \in NameLists /\ Reverse(Names) \in NameLists
  <2> DEFINE R == Reverse(Names)
  <2>1. R = <<"ALTREF", "ALTREF2", "BWDREF", "GOLDEN", "LAST3", "LAST2", "LAST">>
    BY <1>1
  <2> HIDE DEF R
  <2>2. R \in NameLists
    BY <2>1, NamedAre DEF NameLists
  <2>3. Names \in NameLists
    BY NamedAre DEF NameLists, Names
  <2> QED BY <2>2, <2>3 DEF R
<1>4. \A n \in Named : \E k \in DOMAIN Names : Names[k] = n
  BY NamedAre DEF Names
<1>5. \A n \in Named : \E k \in DOMAIN Reverse(Names) : Reverse(Names)[k] = n
  <2> DEFINE R == Reverse(Names)
  <2>1. R = <<"ALTREF", "ALTREF2", "BWDREF", "GOLDEN", "LAST3", "LAST2", "LAST">>
    BY <1>1
  <2> HIDE DEF R
  <2>2. \A n \in Named : \E k \in DOMAIN R : R[k] = n
    BY <2>1, NamedAre
  <2> QED BY <2>2 DEF R
<1> QED BY <1>2, <1>3, <1>4, <1>5

OrdersDiffer(prs, S) == \A i, j \in S : prs[i].ord = prs[j].ord => i = j

(* When the walks are over, every name is set or every buffer of the pool is read. *)
LEMMA AllottedIs ==
  ASSUME NEW prs \in [Slots -> Frame], NEW cur \in Int, NEW m1, NEW free1 \in SUBSET Slots,
         NEW pool \in SUBSET Slots, Filling(m1, free1, pool), OrdersDiffer(prs, free1),
         NEW f, f = Allotted(prs, cur, m1, free1)
  PROVE  /\ f \in [Named -> Slots \cup {Unset}]
         /\ \A m, n \in Named : f[m] = f[n] /\ f[m] # Unset => m = n
         /\ \A n \in Named : f[n] # Unset => f[n] \in pool
         /\ (\A n \in Named : f[n] # Unset) \/ \A i \in pool \cap Slots : \E n \in Named : f[n] = i
<1> DEFINE older == [i \in Slots |-> prs[i].ord]
           newer == [i \in Slots |-> -prs[i].ord]
           past == {i \in free1 : prs[i].ord < cur}
           future == {i \in free1 : prs[i].ord > cur}
           m2 == Fill(m1, <<"LAST", "LAST2", "LAST3">>, past, newer)
           free2 == free1 \ Given(m1, m2)
           m3 == Fill(m2, <<"BWDREF", "ALTREF2", "ALTREF">>, free2 \cap future, older)
           free3 == free2 \ Given(m2, m3)
           m4 == Fill(m3, Names, free3 \cap past, newer)
           free4 == free3 \ Given(m3, m4)
           m5 == Fill(m4, Reverse(Names), free4 \ past, newer)
           free5 == free4 \ Given(m4, m5)
<1>1. f = m5
  BY DEF Allotted
<1>2. /\ older \in [Slots -> Int] /\ newer \in [Slots -> Int]
      /\ \A i, j \in free1 : older[i] = older[j] => i = j
      /\ \A i, j \in free1 : newer[i] = newer[j] => i = j
  <2>1. \A i \in Slots : older[i] = prs[i].ord /\ newer[i] = -prs[i].ord /\ prs[i].ord \in Int
    BY DEF Frame
  <2>2. older \in [Slots -> Int] /\ newer \in [Slots -> Int]
    BY <2>1
  <2> HIDE DEF older, newer
  <2> QED BY <2>1, <2>2 DEF OrdersDiffer
<1>3. past \in SUBSET free1 /\ future \in SUBSET free1
  OBVIOUS
<1> HIDE DEF older, newer, past, future
<1>4. /\ m2 \in [Named -> Slots \cup {Unset}] /\ free2 \in SUBSET free1 /\ Filling(m2, free2, pool)
  <2>1. \A i, j \in past : newer[i] = newer[j] => i = j
    BY <1>2, <1>3
  <2>2. m1 \in [Named -> Slots \cup {Unset}]
    BY DEF Filling
  <2>3. Step(m1, <<"LAST", "LAST2", "LAST3">>, past, free1, pool, m2, free2)
    BY <1>2, <1>3, <2>1, <2>2, ListsAre, FillStep
  <2> HIDE DEF m2, free2
  <2> QED BY <2>3 DEF Step, Filling
<1>5. /\ m3 \in [Named -> Slots \cup {Unset}] /\ free3 \in SUBSET free2 /\ Filling(m3, free3, pool)
  <2> HIDE DEF m2, free2
  <2>1. /\ free2 \cap future \in SUBSET free2 /\ free2 \in SUBSET Slots
        /\ \A i, j \in free2 \cap future : older[i] = older[j] => i = j
    BY <1>2, <1>3, <1>4
  <2>2. Step(m2, <<"BWDREF", "ALTREF2", "ALTREF">>, free2 \cap future, free2, pool, m3, free3)
    BY <1>2, <1>4, <2>1, ListsAre, FillStep
  <2> HIDE DEF m3, free3
  <2> QED BY <2>2 DEF Step, Filling
<1>6. /\ m4 \in [Named -> Slots \cup {Unset}] /\ free4 \in SUBSET free3 /\ Filling(m4, free4, pool)
      /\ (\A n \in Named : m4[n] # Unset) \/ free4 \cap past = {}
  <2> HIDE DEF m2, free2, m3, free3
  <2>1. /\ free3 \cap past \in SUBSET free3 /\ free3 \in SUBSET Slots
        /\ \A i, j \in free3 \cap past : newer[i] = newer[j] => i = j
    BY <1>2, <1>3, <1>4, <1>5
  <2>2. Step(m3, Names, free3 \cap past, free3, pool, m4, free4)
    BY <1>2, <1>5, <2>1, ListsAre, FillStep
  <2>3. \A n \in Named : \E k \in DOMAIN Names : Names[k] = n
    BY ListsAre
  <2> HIDE DEF m4, free4
  <2> QED BY <2>2, <2>3 DEF Step, Filling
<1>7. /\ m5 \in [Named -> Slots \cup {Unset}] /\ free5 \in SUBSET free4 /\ Filling(m5, free5, pool)
      /\ \A n \in Named : m4[n] # Unset => m5[n] = m4[n]
      /\ (\A n \in Named : m5[n] # Unset) \/ free5 \cap (free4 \ past) = {}
  <2> HIDE DEF m2, free2, m3, free3, m4, free4
  <2>1. /\ free4 \ past \in SUBSET free4 /\ free4 \in SUBSET Slots
        /\ \A i, j \in free4 \ past : newer[i] = newer[j] => i = j
    BY <1>2, <1>3, <1>4, <1>5, <1>6
  <2>2. Step(m4, Reverse(Names), free4 \ past, free4, pool, m5, free5)
    BY <1>2, <1>6, <2>1, ListsAre, FillStep
  <2>3. \A n \in Named : \E k \in DOMAIN Reverse(Names) : Reverse(Names)[k] = n
    BY ListsAre
  <2> HIDE DEF m5, free5
  <2> QED BY <2>2, <2>3 DEF Step, Filling
<1> HIDE DEF m2, free2, m3, free3, m4, free4, m5, free5
<1>8. (\A n \in Named : m5[n] # Unset) \/ free5 = {}
  BY <1>6, <1>7
<1>9. /\ m5 \in [Named -> Slots \cup {Unset}]
      /\ \A m, n \in Named : m5[m] = m5[n] /\ m5[m] # Unset => m = n
      /\ \A i \in Slots : i \in pool <=> i \in free5 \/ \E n \in Named : m5[n] = i
  BY <1>7 DEF Filling
<1> QED BY <1>1, <1>8, <1>9

(* What is held when references are chosen: no order twice, no empty frame of a
   level, some frame of level 1, and a frame in the first slot. *)
Buffers(prs) ==
  /\ prs \in [Slots -> Frame]
  /\ \A i, j \in Slots : prs[i].ord = prs[j].ord /\ prs[i].ord # -1 => i = j
  /\ \A i \in Slots : prs[i].ord = -1 \/ prs[i].lev >= 1
  /\ \E i \in Slots : prs[i].lev = 1 /\ prs[i].ord # -1
  /\ prs[0].ord # -1

(* What a parallel frame may not read: one inner frame, never that of its own
   order, nor the one in the first slot while slots are empty. *)
Excludes(prs, cur, excluded) ==
  \/ excluded = {}
  \/ \E e \in Slots : /\ excluded = {e} /\ prs[e].ord # -1 /\ prs[e].lev # 1
                      /\ \A i \in Slots : prs[i].ord # cur
                      /\ Occupied(prs) = Slots \/ e # 0

(* No two buffers hold the same order, so every buffer held is offered. *)
LEMMA AllOffered ==
  ASSUME NEW prs, Buffers(prs)
  PROVE  BufferMap(prs) = Occupied(prs)
<1>1. \A i \in Occupied(prs) : i \in Slots /\ prs[i].ord # -1 /\ i <= i
  BY DEF Occupied, Slots
<1>2. \A i, j \in Occupied(prs) : prs[j].ord = prs[i].ord => i = j
  BY <1>1 DEF Buffers
<1> QED BY <1>1, <1>2 DEF BufferMap

(* The least of a singleton, and of levels of which one is 1. *)
LEMMA MinOne ==
  ASSUME NEW i \in Int PROVE Min({i}) = i
BY DEF Min

LEMMA MinLevelOne ==
  ASSUME NEW T \in SUBSET Nat, 1 \in T, \A t \in T : t >= 1
  PROVE  Min({6} \cup T) = 1
<1> DEFINE S == {6} \cup T
<1>1. 1 \in S /\ \A y \in S : y \in Nat /\ 1 <= y
  OBVIOUS
<1> HIDE DEF S
<1>2. Min(S) \in S /\ \A y \in S : Min(S) <= y
  BY <1>1 DEF Min
<1>3. Min(S) = 1
  BY <1>1, <1>2
<1> QED BY <1>3 DEF S

(* The farthest buffer can be named, whatever its order. *)
LEMMA FarthestChosen ==
  ASSUME NEW prs \in [Slots -> Frame], NEW C \in SUBSET Slots, C # {}, NEW cur \in Int
  PROVE  LET x == CHOOSE i \in C : \A j \in C : LeftBefore(prs[i], prs[j], cur) IN
         x \in C /\ \A j \in C : Dist(prs[j], cur) <= Dist(prs[x], cur)
<1> DEFINE d(i) == Dist(prs[i], cur)
           key(i) == 2 * d(i) + (IF prs[i].ord < cur THEN 1 ELSE 0)
<1>1. \A i \in Slots : prs[i].ord \in Int /\ d(i) \in Nat /\ key(i) \in Nat
  <2> SUFFICES ASSUME NEW i \in Slots PROVE prs[i].ord \in Int /\ d(i) \in Nat /\ key(i) \in Nat
    OBVIOUS
  <2>1. prs[i].ord \in Int
    BY DEF Frame
  <2>2. d(i) \in Nat
    BY <2>1 DEF Dist
  <2> HIDE DEF d
  <2> QED BY <2>1, <2>2
<1>2. \A i, j \in Slots : key(j) <= key(i) => LeftBefore(prs[i], prs[j], cur)
  <2> SUFFICES ASSUME NEW i \in Slots, NEW j \in Slots, key(j) <= key(i)
               PROVE  LeftBefore(prs[i], prs[j], cur)
    OBVIOUS
  <2> QED BY <1>1 DEF LeftBefore, Dist
<1>3. \E i \in C : \A j \in C : key(j) <= key(i)
  <2> DEFINE b == key(0) + key(1) + key(2) + key(3) + key(4) + key(5) + key(6) + key(7)
  <2>1. /\ 0 \in Slots /\ 1 \in Slots /\ 2 \in Slots /\ 3 \in Slots
        /\ 4 \in Slots /\ 5 \in Slots /\ 6 \in Slots /\ 7 \in Slots
        /\ \A i \in Slots : i \in {0, 1, 2, 3, 4, 5, 6, 7}
    BY DEF Slots
  <2>2. \A i \in Slots : key(i) \in Nat
    BY <1>1
  <2> HIDE DEF key
  <2>3. \A i \in Slots : b - key(i) \in Nat
    BY <2>1, <2>2
  <2>4. b \in Nat
    BY <2>1, <2>2
  <2> HIDE DEF b
  <2> DEFINE T == {b - key(i) : i \in C}
  <2>5. T \in SUBSET Nat /\ T # {}
    BY <2>3
  <2>6. PICK t \in T : \A u \in T : t <= u
    BY <2>5, Least
  <2>7. PICK i \in C : t = b - key(i)
    BY <2>6
  <2>8. \A j \in C : b - key(i) <= b - key(j)
    BY <2>6, <2>7
  <2>9. i \in Slots /\ \A j \in C : j \in Slots
    OBVIOUS
  <2>10. \A j \in C : key(j) <= key(i)
    BY <2>2, <2>4, <2>8, <2>9
  <2> QED BY <2>10
<1>4. \E i \in C : \A j \in C : LeftBefore(prs[i], prs[j], cur)
  BY <1>2, <1>3
<1> DEFINE x == CHOOSE i \in C : \A j \in C : LeftBefore(prs[i], prs[j], cur)
<1>5. x \in C /\ \A j \in C : LeftBefore(prs[x], prs[j], cur)
  BY <1>4
<1> HIDE DEF x
<1>6. \A j \in C : d(j) <= d(x)
  BY <1>1, <1>5 DEF LeftBefore
<1> QED BY <1>5, <1>6 DEF x

(* The buffer left out is out of eight, when none is excluded; it is the farthest
   of the inner ones, and of level 1 only when five are. *)
LeftOut(prs, cur, excluded, left) ==
  \/ left = {} /\ (excluded # {} \/ Occupied(prs) # Slots)
  \/ \E x \in Slots :
       /\ left = {x} /\ excluded = {} /\ Occupied(prs) = Slots
       /\ prs[x].lev = 1 => Cardinality({i \in Slots : prs[i].lev = 1}) >= LowLevelFrames
       /\ \A j \in Slots : prs[j].lev # 1 => Dist(prs[j], cur) <= Dist(prs[x], cur)

LEMMA SlotsAre == /\ IsFiniteSet(Slots) /\ Cardinality(Slots) = 8
                  /\ \A S \in SUBSET Slots : /\ IsFiniteSet(S) /\ Cardinality(S) \in Nat
                                             /\ Cardinality(S) <= 8
                                             /\ Cardinality(S) = 8 => S = Slots
<1>1. IsFiniteSet(Slots) /\ Cardinality(Slots) = 8
  <2>1. IsFiniteSet(0 .. 7) /\ Cardinality(0 .. 7) = IF 0 > 7 THEN 0 ELSE 7 - 0 + 1
    BY 0 \in Int, 7 \in Int, FS_Interval, Zenon
  <2> QED BY <2>1 DEF Slots
<1>2. \A S \in SUBSET Slots : /\ IsFiniteSet(S) /\ Cardinality(S) <= Cardinality(Slots)
                              /\ Cardinality(S) = Cardinality(Slots) => S = Slots
  BY <1>1, FS_Subset
<1>3. \A S \in SUBSET Slots : Cardinality(S) \in Nat
  BY <1>2, FS_CardinalityType
<1> QED BY <1>1, <1>2, <1>3

(* All but two buffers in use are in use for being of the order coded. *)
FewNear(prs, used, cur) ==
  \E g \in Int, a \in Int : \A i \in used : i = g \/ i = a \/ prs[i].ord = cur

Offered(prs, low, used, cur) ==
  {i \in Slots \ used : /\ prs[i].lev # 1 \/ Cardinality(low) >= LowLevelFrames
                        /\ Dist(prs[i], cur) > 0}

(* With eight buffers and none excluded there is one to leave out: either five
   are of level 1 and three of eight are not in use for being near, or an inner
   one is of another order. *)
LEMMA SomeLeftOut ==
  ASSUME NEW prs \in [Slots -> Frame], Buffers(prs), NEW cur \in Int, Occupied(prs) = Slots,
         NEW low \in SUBSET Slots, \A i \in Slots : prs[i].lev = 1 => i \in low,
         NEW used \in SUBSET Slots,
         FewNear(prs, used, cur)
  PROVE  Offered(prs, low, used, cur) # {}
<1> SUFFICES ASSUME ~ \E i \in Slots : /\ ~ (prs[i].lev = 1 /\ Cardinality(low) < 5)
                                       /\ i \notin used /\ prs[i].ord # cur
             PROVE  FALSE
  <2>1. low \in SUBSET Slots
    OBVIOUS
  <2>2. Cardinality(low) \in Nat
    BY <2>1, SlotsAre
  <2>3. \A i \in Slots : prs[i].ord # cur => Dist(prs[i], cur) > 0
    <3> SUFFICES ASSUME NEW i \in Slots, prs[i].ord # cur PROVE Dist(prs[i], cur) > 0
      OBVIOUS
    <3>1. prs[i].ord \in Int
      BY DEF Buffers, Frame
    <3> QED BY <3>1 DEF Dist
  <2>4. PICK i \in Slots : /\ ~ (prs[i].lev = 1 /\ Cardinality(low) < 5)
                           /\ i \notin used /\ prs[i].ord # cur
    OBVIOUS
  <2>5. prs[i].lev # 1 \/ Cardinality(low) >= LowLevelFrames
    BY <2>2, <2>4 DEF LowLevelFrames
  <2>6. i \in Slots \ used /\ Dist(prs[i], cur) > 0
    BY <2>3, <2>4
  <2> QED BY <2>5, <2>6 DEF Offered
<1>1. \A i, j \in Slots : prs[i].ord = prs[j].ord => i = j
  BY DEF Buffers, Occupied
<1>5. PICK g \in Int, a \in Int : \A i \in used : i = g \/ i = a \/ prs[i].ord = cur
  BY DEF FewNear
<1>2. PICK c : \A i \in Slots : prs[i].ord = cur => i = c
  BY <1>1
<1>3. CASE Cardinality(low) >= 5
  <2>1. low \in SUBSET Slots
    OBVIOUS
  <2>2. Cardinality(low) \in Nat
    BY <2>1, SlotsAre
  <2>3. \A i \in Slots : i = g \/ i = a \/ i = c
    <3>1. ~ (Cardinality(low) < 5)
      BY <1>3, <2>2
    <3>2. \A i \in Slots : i \in used \/ prs[i].ord = cur
      BY <3>1
    <3> QED BY <1>2, <1>5, <3>2
  <2>4. 0 \in Slots /\ 1 \in Slots /\ 2 \in Slots /\ 3 \in Slots
    BY DEF Slots
  <2> QED BY <2>3, <2>4
<1>4. CASE ~ (Cardinality(low) >= 5)
  <2>1. IsFiniteSet(low) /\ Cardinality(low) \in Nat
    <3>1. low \in SUBSET Slots
      OBVIOUS
    <3> QED BY <3>1, SlotsAre
  <2>2. \A S, x : IsFiniteSet(S) /\ Cardinality(S) \in Nat =>
          /\ IsFiniteSet(S \cup {x}) /\ Cardinality(S \cup {x}) \in Nat
          /\ Cardinality(S \cup {x}) <= Cardinality(S) + 1
    <3> SUFFICES ASSUME NEW S, NEW x, IsFiniteSet(S), Cardinality(S) \in Nat
                 PROVE  /\ IsFiniteSet(S \cup {x}) /\ Cardinality(S \cup {x}) \in Nat
                        /\ Cardinality(S \cup {x}) <= Cardinality(S) + 1
      OBVIOUS
    <3>1. /\ IsFiniteSet(S \cup {x})
          /\ Cardinality(S \cup {x}) = IF x \in S THEN Cardinality(S) ELSE Cardinality(S) + 1
      BY FS_AddElement
    <3> QED BY <3>1
  <2> DEFINE one == low \cup {g}
             two == one \cup {a}
             all == two \cup {c}
  <2>3. \A i \in Slots : i \in low \/ i = g \/ i = a \/ i = c
    BY <1>2, <1>5
  <2>4. Slots \in SUBSET all
    BY <2>3
  <2>5. IsFiniteSet(one) /\ Cardinality(one) \in Nat /\ Cardinality(one) <= Cardinality(low) + 1
    BY <2>1, <2>2
  <2> HIDE DEF one
  <2>6. IsFiniteSet(two) /\ Cardinality(two) \in Nat /\ Cardinality(two) <= Cardinality(one) + 1
    BY <2>2, <2>5
  <2> HIDE DEF two
  <2>7. IsFiniteSet(all) /\ Cardinality(all) \in Nat /\ Cardinality(all) <= Cardinality(two) + 1
    BY <2>2, <2>6
  <2> HIDE DEF all
  <2>8. Cardinality(Slots) <= Cardinality(all)
    BY <2>4, <2>7, FS_Subset
  <2> QED BY <1>4, <2>1, <2>5, <2>6, <2>7, <2>8, SlotsAre
<1> QED BY <1>3, <1>4

(* The buffers names are given to: the ones held, less the excluded and the one
   left out; every name has a buffer of its own, or every buffer is read. *)
Reads(prs, cur, excluded, refs) ==
  \E map \in [Named -> Slots \cup {Unset}], left \in SUBSET Slots :
    /\ refs = ZeroFilled(map) /\ LeftOut(prs, cur, excluded, left)
    /\ \A m, n \in Named : map[m] = map[n] /\ map[m] # Unset => m = n
    /\ \A n \in Named : map[n] # Unset =>
         map[n] \in Occupied(prs) \ (excluded \cup left)
    /\ \/ \A n \in Named : map[n] # Unset
       \/ \A i \in Occupied(prs) \ (excluded \cup left) : \E n \in Named : map[n] = i

LEMMA RefFramesRead ==
  ASSUME NEW prs, Buffers(prs), NEW cur \in Int, NEW excluded,
         Excludes(prs, cur, excluded)
  PROVE  Reads(prs, cur, excluded, RefFrames(prs, cur, excluded # {}, excluded))
<1> DEFINE bufs == BufferMap(prs)
           Newest(S) == {i \in S : \A j \in S : prs[j].ord <= prs[i].ord}
           minLevel == IF bufs = {} THEN 6 ELSE Min({6} \cup {prs[i].lev : i \in bufs})
           low == {i \in bufs : prs[i].lev = minLevel}
           shown == {i \in bufs \ low : prs[i].ord = cur}
           golden == IF low = bufs THEN {} ELSE Newest({i \in low : prs[i].ord < cur})
           altref == IF low = bufs THEN {} ELSE Newest({i \in low : prs[i].ord > cur})
           byLevel == [n \in Named |->
               IF n = "BWDREF" /\ shown # {} THEN Min(shown)
               ELSE IF n = "GOLDEN" /\ golden # {} THEN Min(golden)
               ELSE IF n = "ALTREF" /\ altref # {} THEN Min(altref)
               ELSE Unset]
           used == Taken(excluded # {}, bufs \cap excluded, shown) \cup golden \cup altref
           left == IF bufs \cap excluded # {} THEN {}
                   ELSE Unmapped(prs, bufs, used, low, minLevel, cur)
           free == bufs \ (used \cup left)
<1>1. RefFrames(prs, cur, excluded # {}, excluded)
        = ZeroFilled(Allotted(prs, cur, byLevel, free))
  BY DEF RefFrames
<1>2. /\ prs \in [Slots -> Frame] /\ \A i \in Slots : prs[i].ord \in Int /\ prs[i].lev \in Int
      /\ bufs = Occupied(prs) /\ bufs \in SUBSET Slots
      /\ \A i \in bufs : prs[i].ord # -1 /\ prs[i].lev >= 1
      /\ \A i, j \in bufs : prs[i].ord = prs[j].ord => i = j
      /\ \E i \in bufs : prs[i].lev = 1
  BY AllOffered DEF Buffers, Occupied, Frame
<1> HIDE DEF bufs
<1>3. minLevel = 1
  <2> DEFINE T == {prs[i].lev : i \in bufs}
  <2>1. T \in SUBSET Nat /\ 1 \in T /\ (\A t \in T : t >= 1) /\ bufs # {}
    BY <1>2
  <2>2. Min({6} \cup T) = 1
    <3> HIDE DEF T
    <3> QED BY <2>1, MinLevelOne
  <2> QED BY <2>1, <2>2
<1> HIDE DEF minLevel
<1>4. low = {i \in bufs : prs[i].lev = 1}
  BY <1>3
<1> HIDE DEF low
<1>5. \A S \in SUBSET bufs : \A i, j \in Newest(S) : i \in S /\ i = j
  BY <1>2
<1>6. /\ golden \in SUBSET {i \in low : prs[i].ord < cur} /\ \A i, j \in golden : i = j
      /\ altref \in SUBSET {i \in low : prs[i].ord > cur} /\ \A i, j \in altref : i = j
  <2>1. /\ {i \in low : prs[i].ord < cur} \in SUBSET bufs
        /\ {i \in low : prs[i].ord > cur} \in SUBSET bufs
    BY <1>4
  <2> QED BY <1>5, <2>1
<1>7. shown \in SUBSET {i \in bufs : prs[i].ord = cur} /\ \A i, j \in shown : i = j
  BY <1>2
<1>8. \A S \in SUBSET bufs : (\A i, j \in S : i = j) /\ S # {} => S = {Min(S)} /\ Min(S) \in S
  <2> SUFFICES ASSUME NEW S \in SUBSET bufs, NEW i \in S, \A j \in S : i = j
               PROVE  S = {Min(S)} /\ Min(S) \in S
    OBVIOUS
  <2>1. S = {i}
    OBVIOUS
  <2>3. i \in Slots
    BY <1>2
  <2>4. i \in Int
    BY <2>3 DEF Slots
  <2>2. Min({i}) = i
    BY <2>4, MinOne
  <2> QED BY <2>1, <2>2
<1>9. golden \in SUBSET bufs /\ altref \in SUBSET bufs /\ shown \in SUBSET bufs
  BY <1>4, <1>6, <1>7
<1> HIDE DEF golden, altref, shown
<1>10. /\ golden # {} => golden = {Min(golden)} /\ Min(golden) \in Slots
       /\ altref # {} => altref = {Min(altref)} /\ Min(altref) \in Slots
       /\ shown # {} => shown = {Min(shown)} /\ Min(shown) \in Slots
       /\ Unset \notin Slots
  <2>1. Unset \notin Slots
    BY DEF Slots, Unset
  <2> QED BY <1>2, <1>6, <1>7, <1>8, <1>9, <2>1
<1>11. /\ byLevel \in [Named -> Slots \cup {Unset}]
       /\ \A n \in Named : byLevel[n] # Unset =>
            \/ n = "BWDREF" /\ shown = {byLevel[n]}
            \/ n = "GOLDEN" /\ golden = {byLevel[n]}
            \/ n = "ALTREF" /\ altref = {byLevel[n]}
       /\ \A i \in shown \cup golden \cup altref : \E n \in Named : byLevel[n] = i
  <2>1. \A n \in Named : byLevel[n] = IF n = "BWDREF" /\ shown # {} THEN Min(shown)
                                     ELSE IF n = "GOLDEN" /\ golden # {} THEN Min(golden)
                                     ELSE IF n = "ALTREF" /\ altref # {} THEN Min(altref)
                                     ELSE Unset
    OBVIOUS
  <2>2. "BWDREF" \in Named /\ "GOLDEN" \in Named /\ "ALTREF" \in Named
    BY NamedAre
  <2>3. \A n \in Named : byLevel[n] \in Slots \cup {Unset}
    BY <1>10, <2>1
  <2>4. byLevel \in [Named -> Slots \cup {Unset}]
    BY <2>3
  <2> HIDE DEF byLevel
  <2>5. \A n \in Named : byLevel[n] # Unset =>
            \/ n = "BWDREF" /\ shown = {byLevel[n]}
            \/ n = "GOLDEN" /\ golden = {byLevel[n]}
            \/ n = "ALTREF" /\ altref = {byLevel[n]}
    BY <1>10, <2>1
  <2>6. /\ shown # {} => byLevel["BWDREF"] = Min(shown)
        /\ golden # {} => byLevel["GOLDEN"] = Min(golden)
        /\ altref # {} => byLevel["ALTREF"] = Min(altref)
    BY <2>1, <2>2
  <2>7. \A i \in shown \cup golden \cup altref : \E n \in Named : byLevel[n] = i
    BY <1>10, <2>2, <2>6
  <2> QED BY <2>4, <2>5, <2>7
<1> HIDE DEF byLevel
<1> DEFINE near == shown \cup golden \cup altref
           Parted == /\ LeftOut(prs, cur, excluded, left) /\ left \in SUBSET Slots
                     /\ near \in SUBSET used
                     /\ \A i \in Slots : i \in bufs \ (excluded \cup left)
                                            <=> i \in bufs \ (used \cup left) \/ i \in near
<1>12. ASSUME excluded # {} PROVE Parted
  <2>1. PICK e \in Slots : /\ excluded = {e} /\ prs[e].ord # -1 /\ prs[e].lev # 1
                           /\ \A i \in Slots : prs[i].ord # cur
                           /\ Occupied(prs) = Slots \/ e # 0
    BY <1>12 DEF Excludes
  <2>2. e \in bufs /\ bufs \cap excluded = {e}
    BY <1>2, <2>1 DEF Occupied
  <2>3. left = {}
    BY <2>2
  <2>8. shown = {}
    BY <1>2, <1>7, <2>1
  <2>4. used = {e} \cup golden \cup altref
    BY <1>12, <2>2 DEF Taken
  <2>5. LeftOut(prs, cur, excluded, left)
    BY <1>12, <2>3 DEF LeftOut
  <2>6. e \notin golden \cup altref
    BY <1>4, <1>6, <2>1
  <2> HIDE DEF used, left
  <2>7. near \in SUBSET used
    BY <2>4, <2>8
  <2>9. \A i \in Slots : i \in bufs \ (excluded \cup left)
                          <=> i \in bufs \ (used \cup left) \/ i \in near
    BY <1>9, <2>1, <2>3, <2>4, <2>6, <2>8
  <2> QED BY <2>3, <2>5, <2>7, <2>9
<1>13. ASSUME excluded = {} PROVE Parted
  <2>1. used = shown \cup golden \cup altref
    BY <1>13 DEF Taken
  <2>2. left = Unmapped(prs, bufs, used, low, 1, cur)
    BY <1>3, <1>13
  <2> HIDE DEF used, left
  <2> DEFINE cands == {i \in bufs \ used :
                  /\ prs[i].lev # 1 \/ Cardinality(low) >= LowLevelFrames
                  /\ Dist(prs[i], cur) > 0}
             x == CHOOSE i \in cands : \A j \in cands : LeftBefore(prs[i], prs[j], cur)
  <2>3. left = IF Cardinality(bufs) <= 7 \/ cands = {} THEN {} ELSE {x}
    BY <2>2 DEF Unmapped
  <2>4. cands \in SUBSET Slots
    BY <1>2
  <2>5. cands # {} => x \in cands /\ \A j \in cands : Dist(prs[j], cur) <= Dist(prs[x], cur)
    <3> HIDE DEF cands
    <3> QED BY <1>2, <2>4, FarthestChosen
  <2> HIDE DEF x
  <2>6. CASE Cardinality(bufs) <= 7
    <3>1. left = {} /\ bufs # Slots
      BY <2>3, <2>6, SlotsAre
    <3>2. LeftOut(prs, cur, excluded, left)
      BY <1>2, <3>1 DEF LeftOut
    <3> QED BY <1>9, <1>13, <2>1, <3>1, <3>2
  <2>7. CASE ~ (Cardinality(bufs) <= 7)
    <3>1. bufs = Slots
      <4>1. Cardinality(bufs) \in Nat /\ Cardinality(bufs) <= 8
            /\ (Cardinality(bufs) = 8 => bufs = Slots)
        BY <1>2, SlotsAre
      <4> QED BY <2>7, <4>1
    <3>2. FewNear(prs, used, cur)
      <4>1. PICK g \in Int : \A i \in golden : i = g
        BY <1>6, <1>9, <3>1 DEF Slots
      <4>2. PICK a \in Int : \A i \in altref : i = a
        BY <1>6, <1>9, <3>1 DEF Slots
      <4> QED BY <1>7, <2>1, <4>1, <4>2 DEF FewNear
    <3>3. low = {i \in Slots : prs[i].lev = 1} /\ Occupied(prs) = Slots /\ used \in SUBSET Slots
      BY <1>2, <1>4, <1>9, <2>1, <3>1
    <3>4. cands # {}
      <4>1. low \in SUBSET Slots /\ \A i \in Slots : prs[i].lev = 1 => i \in low
        BY <3>3
      <4>2. Offered(prs, low, used, cur) # {}
        BY <1>2, <3>2, <3>3, <4>1, SomeLeftOut
      <4> QED BY <3>1, <4>2 DEF Offered
    <3>5. /\ left = {x} /\ x \in Slots /\ x \notin used
          /\ prs[x].lev # 1 \/ Cardinality(low) >= LowLevelFrames
      BY <2>3, <2>4, <2>5, <2>7, <3>4
    <3>6. ASSUME NEW j \in Slots, prs[j].lev # 1 PROVE Dist(prs[j], cur) <= Dist(prs[x], cur)
      <4>1. Dist(prs[x], cur) > 0 /\ Dist(prs[x], cur) \in Int
        <5>1. prs[x].ord \in Int
          BY <1>2, <3>5
        <5> QED BY <2>5, <3>4, <5>1 DEF Dist
      <4>2. CASE j \in cands
        BY <2>5, <3>4, <4>2
      <4>3. CASE Dist(prs[j], cur) > 0 /\ j \notin cands
        <5>1. j \in used
          BY <3>1, <3>6, <4>3
        <5>2. prs[j].ord = cur
          BY <1>4, <1>6, <1>7, <2>1, <3>6, <5>1
        <5> QED BY <1>2, <4>3, <5>2 DEF Dist
      <4>4. CASE ~ (Dist(prs[j], cur) > 0)
        <5>1. prs[j].ord \in Int
          BY <1>2
        <5>2. Dist(prs[j], cur) \in Int
          BY <5>1 DEF Dist
        <5> QED BY <4>1, <4>4, <5>2
      <4> QED BY <4>2, <4>3, <4>4
    <3> HIDE DEF cands
    <3>7. LeftOut(prs, cur, excluded, left)
      BY <1>13, <3>3, <3>5, <3>6 DEF LeftOut
    <3> QED BY <1>9, <1>13, <2>1, <3>1, <3>5, <3>7
  <2> QED BY <2>6, <2>7
<1>14. Parted
  BY <1>12, <1>13
<1> HIDE DEF used, left
<1> DEFINE pool == bufs \ (excluded \cup left)
<1>15. Filling(byLevel, free, pool)
  <2>1. \A m, n \in Named : byLevel[m] = byLevel[n] /\ byLevel[m] # Unset => m = n
    <3> SUFFICES ASSUME NEW m \in Named, NEW n \in Named, byLevel[m] = byLevel[n],
                        byLevel[m] # Unset
                 PROVE  m = n
      OBVIOUS
    <3>1. \A i \in shown \cup golden \cup altref : prs[i].ord \in Int
      BY <1>2, <1>9
    <3> QED BY <1>6, <1>7, <1>11, <3>1
  <2>2. \A n \in Named : byLevel[n] # Unset => byLevel[n] \in near
    BY <1>11
  <2>3. \A n \in Named : byLevel[n] \notin free
    BY <1>2, <1>10, <1>14, <2>2
  <2>4. \A i \in Slots : i \in pool <=> i \in free \/ \E n \in Named : byLevel[n] = i
    BY <1>10, <1>11, <1>14, <2>2
  <2> QED BY <1>11, <2>1, <2>3, <2>4 DEF Filling
<1>16. free \in SUBSET Slots /\ pool \in SUBSET Slots /\ OrdersDiffer(prs, free)
  BY <1>2 DEF OrdersDiffer
<1> DEFINE map == Allotted(prs, cur, byLevel, free)
<1> HIDE DEF pool, free
<1>17. /\ map \in [Named -> Slots \cup {Unset}]
       /\ \A m, n \in Named : map[m] = map[n] /\ map[m] # Unset => m = n
       /\ \A n \in Named : map[n] # Unset => map[n] \in pool
       /\ \/ \A n \in Named : map[n] # Unset
          \/ \A i \in pool \cap Slots : \E n \in Named : map[n] = i
  BY <1>2, <1>15, <1>16, AllottedIs
<1>18. pool = Occupied(prs) \ (excluded \cup left) /\ pool \cap Slots = pool
  BY <1>2, <1>16 DEF pool
<1> HIDE DEF map
<1>19. RefFrames(prs, cur, excluded # {}, excluded) = ZeroFilled(map)
  BY <1>1 DEF map, free
<1> QED BY <1>14, <1>17, <1>18, <1>19 DEF Reads

LEMMA NamesAreSeven == IsFiniteSet(Named) /\ Cardinality(Named) = 7
<1> DEFINE n1 == {"LAST"}
           n2 == n1 \cup {"LAST2"}
           n3 == n2 \cup {"LAST3"}
           n4 == n3 \cup {"GOLDEN"}
           n5 == n4 \cup {"BWDREF"}
           n6 == n5 \cup {"ALTREF2"}
           n7 == n6 \cup {"ALTREF"}
<1>1. \A S, x : IsFiniteSet(S) /\ x \notin S =>
        IsFiniteSet(S \cup {x}) /\ Cardinality(S \cup {x}) = Cardinality(S) + 1
  BY FS_AddElement
<1>2. /\ "LAST2" \notin n1 /\ "LAST3" \notin n2 /\ "GOLDEN" \notin n3
      /\ "BWDREF" \notin n4 /\ "ALTREF2" \notin n5 /\ "ALTREF" \notin n6
  OBVIOUS
<1>3. Named = n7
  BY NamedAre
<1>4. IsFiniteSet(n1) /\ Cardinality(n1) = 1
  BY FS_Singleton
<1> HIDE DEF n1
<1>5. IsFiniteSet(n2) /\ Cardinality(n2) = 2
  BY <1>1, <1>2, <1>4
<1> HIDE DEF n2
<1>6. IsFiniteSet(n3) /\ Cardinality(n3) = 3
  BY <1>1, <1>2, <1>5
<1> HIDE DEF n3
<1>7. IsFiniteSet(n4) /\ Cardinality(n4) = 4
  BY <1>1, <1>2, <1>6
<1> HIDE DEF n4
<1>8. IsFiniteSet(n5) /\ Cardinality(n5) = 5
  BY <1>1, <1>2, <1>7
<1> HIDE DEF n5
<1>9. IsFiniteSet(n6) /\ Cardinality(n6) = 6
  BY <1>1, <1>2, <1>8
<1> HIDE DEF n6
<1>10. IsFiniteSet(n7) /\ Cardinality(n7) = 7
  BY <1>1, <1>2, <1>9
<1> QED BY <1>3, <1>10

LEMMA MinSeven ==
  ASSUME NEW k \in Nat
  PROVE  Min({7, k}) = IF k < 7 THEN k ELSE 7
<1> DEFINE S == {7, k}
           x == IF k < 7 THEN k ELSE 7
<1>1. x \in S /\ x \in Nat /\ \A y \in S : y \in Nat /\ x <= y
  OBVIOUS
<1> HIDE DEF S, x
<1>2. Min(S) \in S /\ \A y \in S : Min(S) <= y
  BY <1>1 DEF Min
<1>3. Min(S) = x
  <2> DEFINE m == Min(S)
  <2>1. m \in S /\ m <= x
    BY <1>1, <1>2
  <2> HIDE DEF m
  <2>2. m \in Nat /\ x <= m /\ x \in Nat
    BY <1>1, <2>1
  <2>3. m = x
    BY <2>1, <2>2
  <2> QED BY <2>3 DEF m
<1> QED BY <1>3 DEF S, x

(* What the references read, as ReferencesWellChosen says it. *)
WellRead(prs, cur, excluded, refs) ==
  LET read == {refs[n] : n \in Named}
      usable == BufferMap(prs) \ excluded
      low == {i \in usable : prs[i].lev = 1}
  IN /\ Cardinality(read) = Min({7, Cardinality(usable)})
     /\ \A i \in usable \ read :
          /\ prs[i].lev = 1 => Cardinality(low) >= LowLevelFrames
          /\ \A j \in usable : prs[j].lev # 1 => Dist(prs[j], cur) <= Dist(prs[i], cur)
     /\ read \cap excluded = {}

LEMMA ReadsWell ==
  ASSUME NEW prs \in [Slots -> Frame], Buffers(prs), NEW cur \in Int, NEW excluded,
         Excludes(prs, cur, excluded), NEW refs, Reads(prs, cur, excluded, refs)
  PROVE  WellRead(prs, cur, excluded, refs)
<1> DEFINE read == {refs[n] : n \in Named}
           usable == BufferMap(prs) \ excluded
           low == {i \in usable : prs[i].lev = 1}
<1>1. PICK map \in [Named -> Slots \cup {Unset}], left \in SUBSET Slots :
        /\ refs = ZeroFilled(map) /\ LeftOut(prs, cur, excluded, left)
        /\ \A m, n \in Named : map[m] = map[n] /\ map[m] # Unset => m = n
        /\ \A n \in Named : map[n] # Unset =>
             map[n] \in Occupied(prs) \ (excluded \cup left)
        /\ \/ \A n \in Named : map[n] # Unset
           \/ \A i \in Occupied(prs) \ (excluded \cup left) : \E n \in Named : map[n] = i
  BY DEF Reads
<1> DEFINE pool == usable \ left
<1>2. /\ BufferMap(prs) = Occupied(prs) /\ Occupied(prs) \in SUBSET Slots
      /\ pool = Occupied(prs) \ (excluded \cup left)
  BY AllOffered DEF Occupied
<1>3. /\ usable \in SUBSET Slots /\ pool \in SUBSET Slots /\ pool \in SUBSET usable
      /\ pool \cap excluded = {}
  BY <1>2
<1>4. \A x \in Slots : IsFiniteSet(Slots \ {x}) /\ Cardinality(Slots \ {x}) = 7
  <2> SUFFICES ASSUME NEW x \in Slots PROVE IsFiniteSet(Slots \ {x}) /\ Cardinality(Slots \ {x}) = 7
    OBVIOUS
  <2>1. /\ IsFiniteSet(Slots \ {x})
        /\ Cardinality(Slots \ {x}) = IF x \in Slots THEN Cardinality(Slots) - 1
                                     ELSE Cardinality(Slots)
    BY SlotsAre, FS_RemoveElement
  <2> QED BY <2>1, SlotsAre
<1>5. \A n \in Named : refs[n] = IF map[n] = Unset THEN 0 ELSE map[n]
  BY <1>1 DEF ZeroFilled
<1>6. CASE \A n \in Named : map[n] # Unset
  <2>1. read = {map[n] : n \in Named} /\ read \in SUBSET pool
    BY <1>1, <1>2, <1>5, <1>6
  <2>2. IsFiniteSet(read) /\ Cardinality(read) = 7
    <3>1. map \in Bijection(Named, read)
      <4> HIDE DEF read
      <4>1. map \in [Named -> read]
        BY <2>1
      <4>2. \A m, n \in Named : map[m] = map[n] => m = n
        BY <1>1, <1>6
      <4>3. \A t \in read : \E n \in Named : map[n] = t
        BY <2>1
      <4> QED BY <4>1, <4>2, <4>3 DEF Bijection, Injection, Surjection, IsInjective
    <3> HIDE DEF read
    <3>2. ExistsBijection(Named, read)
      BY <3>1 DEF ExistsBijection
    <3> QED BY <3>2, NamesAreSeven, FS_Bijection
  <2>3. read \in SUBSET usable
    BY <1>3, <2>1
  <2> HIDE DEF read
  <2>4. Cardinality(usable) \in Nat /\ Cardinality(usable) >= 7 /\ IsFiniteSet(usable)
        /\ Cardinality(usable) <= 8 /\ (Cardinality(usable) = 8 => usable = Slots)
    <3> HIDE DEF usable
    <3>1. Cardinality(usable) \in Nat /\ IsFiniteSet(usable)
          /\ Cardinality(usable) <= 8 /\ (Cardinality(usable) = 8 => usable = Slots)
      BY <1>3, SlotsAre
    <3>2. Cardinality(read) <= Cardinality(usable)
      BY <2>3, <3>1, FS_Subset
    <3> QED BY <2>2, <3>1, <3>2
  <2>5. Cardinality(read) = Min({7, Cardinality(usable)})
    <3>1. Min({7, Cardinality(usable)}) = 7
      <4> DEFINE k == Cardinality(usable)
      <4>1. k \in Nat /\ k >= 7
        BY <2>4
      <4> HIDE DEF k
      <4>2. Min({7, k}) = 7
        BY <4>1, MinSeven
      <4> QED BY <4>2 DEF k
    <3> QED BY <2>2, <3>1
  <2>6. read \cap excluded = {}
    BY <1>3, <2>1
  <2>7. ASSUME left = {}, excluded # {} \/ Occupied(prs) # Slots
        PROVE  read = usable
    <3>1. usable # Slots
      <4>1. CASE Occupied(prs) # Slots
        BY <1>2, <4>1
      <4>2. CASE excluded # {}
        BY <4>2 DEF Excludes
      <4> QED BY <2>7, <4>1, <4>2
    <3>2. Cardinality(read) = Cardinality(usable)
      BY <2>2, <2>4, <3>1
    <3> HIDE DEF usable
    <3> QED BY <2>3, <2>4, <3>2, FS_Subset
  <2>8. ASSUME NEW x \in Slots, left = {x}, excluded = {}, Occupied(prs) = Slots
        PROVE  usable = Slots /\ usable \ read = {x}
    <3>1. usable = Slots /\ pool = Slots \ {x}
      BY <1>2, <2>8
    <3>2. read = Slots \ {x}
      <4>1. read \in SUBSET (Slots \ {x})
        BY <2>1, <3>1
      <4> QED BY <1>4, <2>2, <4>1, FS_Subset
    <3> QED BY <3>1, <3>2
  <2>9. ASSUME NEW i \in usable \ read
        PROVE  /\ prs[i].lev = 1 => Cardinality(low) >= LowLevelFrames
               /\ \A j \in usable : prs[j].lev # 1 => Dist(prs[j], cur) <= Dist(prs[i], cur)
    <3>1. PICK x \in Slots :
            /\ left = {x} /\ excluded = {} /\ Occupied(prs) = Slots
            /\ prs[x].lev = 1 => Cardinality({k \in Slots : prs[k].lev = 1}) >= LowLevelFrames
            /\ \A j \in Slots : prs[j].lev # 1 => Dist(prs[j], cur) <= Dist(prs[x], cur)
      BY <1>1, <2>7, <2>9 DEF LeftOut
    <3>2. usable = Slots /\ i = x
      BY <2>8, <2>9, <3>1
    <3>3. low = {k \in Slots : prs[k].lev = 1}
      BY <3>2
    <3> QED BY <3>1, <3>2, <3>3
  <2> HIDE DEF usable, low
  <2> QED BY <2>5, <2>6, <2>9 DEF WellRead, read, usable, low
<1>7. CASE \E n \in Named : map[n] = Unset
  <2>1. PICK u \in Named : map[u] = Unset
    BY <1>7
  <2>2. \A i \in pool : \E n \in Named : map[n] = i
    BY <1>1, <1>2, <2>1
  <2>3. pool = {map[n] : n \in {m \in Named : map[m] # Unset}}
    <3>1. Unset \notin Slots
      BY DEF Slots, Unset
    <3> QED BY <1>1, <1>2, <1>3, <2>2, <3>1
  <2>4. Cardinality(pool) <= 6 /\ Cardinality(pool) \in Nat
    <3> DEFINE N == {m \in Named : map[m] # Unset}
               g == [m \in N |-> map[m]]
    <3>1. N \in SUBSET Named /\ u \notin N
      BY <2>1
    <3>2. IsFiniteSet(N) /\ Cardinality(N) \in Nat /\ Cardinality(N) <= 6
      <4> HIDE DEF N
      <4>1. IsFiniteSet(N) /\ Cardinality(N) <= 7 /\ (Cardinality(N) = 7 => N = Named)
        BY <3>1, NamesAreSeven, FS_Subset
      <4>2. Cardinality(N) \in Nat
        BY <4>1, FS_CardinalityType
      <4> QED BY <2>1, <3>1, <4>1, <4>2
    <3>3. g \in Surjection(N, pool)
      <4>1. \A m \in N : g[m] \in pool
        BY <2>3
      <4>2. \A i \in pool : \E m \in N : g[m] = i
        BY <2>3
      <4> HIDE DEF N, pool
      <4> QED BY <4>1, <4>2 DEF Surjection
    <3> HIDE DEF g, N, pool
    <3>4. Cardinality(pool) <= Cardinality(N)
      BY <3>2, <3>3, FS_Surjection
    <3>5. Cardinality(pool) \in Nat
      BY <1>3, SlotsAre
    <3> QED BY <3>2, <3>4, <3>5
  <2>5. left = {} /\ pool = usable
    <3> SUFFICES ASSUME left # {} PROVE FALSE
      OBVIOUS
    <3>1. PICK x \in Slots : left = {x} /\ excluded = {} /\ Occupied(prs) = Slots
      BY <1>1 DEF LeftOut
    <3>2. pool = Slots \ {x}
      BY <1>2, <3>1
    <3> QED BY <1>4, <2>4, <3>2
  <2>6. 0 \in usable
    <3>1. 0 \in Occupied(prs)
      BY DEF Buffers, Occupied, Slots
    <3>2. 0 \notin excluded
      <4> SUFFICES ASSUME 0 \in excluded PROVE FALSE
        OBVIOUS
      <4>1. excluded = {0} /\ Occupied(prs) = Slots
        BY DEF Excludes
      <4>2. pool = Slots \ {0} /\ 0 \in Slots
        BY <1>2, <2>5, <4>1 DEF Slots
      <4> QED BY <1>4, <2>4, <4>2
    <3> QED BY <1>2, <3>1, <3>2
  <2>7. read = usable
    <3>1. \A t \in read : t \in usable
      BY <1>1, <1>2, <1>5, <2>5, <2>6
    <3>2. \A t \in usable : t \in read
      <4>1. Unset \notin Slots
        BY DEF Slots, Unset
      <4> QED BY <1>3, <1>5, <2>2, <2>5, <4>1
    <3> QED BY <3>1, <3>2
  <2>8. Cardinality(read) = Min({7, Cardinality(usable)})
    <3> DEFINE k == Cardinality(usable)
    <3>1. k \in Nat /\ k < 7
      BY <2>4, <2>5
    <3>2. Cardinality(read) = k
      BY <2>7
    <3> HIDE DEF k
    <3>3. Min({7, k}) = k
      BY <3>1, MinSeven
    <3> QED BY <3>2, <3>3 DEF k
  <2>9. read \cap excluded = {} /\ usable \ read = {}
    BY <1>2, <2>7
  <2> HIDE DEF usable, low, read
  <2> QED BY <2>8, <2>9 DEF WellRead, read, usable, low
<1> QED BY <1>6, <1>7

(* What is held has a level; slots are empty only since the KEY frame in the
   first one; an inner frame coded last is not of level 1. *)
SlotsFilled ==
  /\ \A i \in Slots : pairs[i].ord = -1 \/ pairs[i].lev >= 1
  /\ Occupied(pairs) # Slots => pairs[0].ord = 0
  /\ pairs[0].ord # -1
  /\ last.type = "IntnlArf" =>
       last.ord > 0 /\ \A i \in Slots : pairs[i].ord = last.ord => pairs[i].lev # 1

(* A plan's references are chosen from what is held; what it excludes is the
   inner frame coded last; it overwrites a frame only when no slot is empty. *)
RefsPlanned ==
  coding # Idle =>
    /\ coding.refs = RefFrames(pairs, coding.ord, coding.excluded # {}, coding.excluded)
    /\ \/ coding.excluded = {}
       \/ /\ last.type = "IntnlArf" /\ coding.type \in {"IntnlArf", "Lf"}
          /\ coding.excluded = {i \in Slots : pairs[i].ord = last.ord}
    /\ coding.lev >= 1
    /\ coding.type = "IntnlArf" => coding.lev # 1
    /\ coding.type # "Kf" =>
         \A i \in coding.mask \cap Slots : pairs[i].ord = -1 \/ Occupied(pairs) = Slots

(* What a plan fixes besides its slot. *)
LEMMA PlanChoice ==
  ASSUME NEW type, NEW ord, NEW lev, Plan(type, ord, lev)
  PROVE  /\ coding'.refs = RefFrames(pairs, ord, coding'.excluded # {}, coding'.excluded)
         /\ coding'.excluded \in Exclusions(type)
<1>1. PICK spared \in SkipLists, excluded \in Exclusions(type) :
        coding' = [type |-> type, ord |-> ord, lev |-> lev, excluded |-> excluded,
                   refs |-> RefFrames(pairs, ord, excluded # {}, excluded),
                   mask |-> RefreshFrameFlags(pairs, type = "Kf", FALSE, type, spared, ord)]
  BY DEF Plan
<1> QED BY <1>1

LEMMA PlanChosen ==
  ASSUME Inv, SlotsFilled, NEW type, NEW ord \in Int, NEW lev \in Int, Plan(type, ord, lev),
         lev >= 1, type = "IntnlArf" => lev # 1
  PROVE  SlotsFilled' /\ RefsPlanned'
<1>1. /\ coding'.refs = RefFrames(pairs, ord, coding'.excluded # {}, coding'.excluded)
      /\ coding'.excluded \in Exclusions(type)
  BY PlanChoice
<1>2. /\ coding'.type = type /\ coding'.ord = ord /\ coding'.lev = lev
      /\ UNCHANGED <<pairs, next, ahead, last>>
  BY PlanFields
<1>3. SlotsFilled'
  BY <1>2 DEF SlotsFilled, Occupied
<1>4. \/ coding'.excluded = {}
      \/ /\ last.type = "IntnlArf" /\ type \in {"IntnlArf", "Lf"}
         /\ coding'.excluded = {i \in Slots : pairs[i].ord = last.ord}
  BY <1>1 DEF Exclusions
<1>5. ASSUME type # "Kf"
      PROVE  \A i \in coding'.mask \cap Slots : pairs[i].ord = -1 \/ Occupied(pairs) = Slots
  <2>1. PICK spared \in SkipLists :
          coding'.mask = RefreshFrameFlags(pairs, type = "Kf", FALSE, type, spared, ord)
    BY PlanFields
  <2>2. coding'.mask = RefreshFrameFlags(pairs, FALSE, FALSE, type, spared, ord)
    <3>1. (type = "Kf") = FALSE
      BY <1>5
    <3>2. (type = "Kf") = FALSE =>
            RefreshFrameFlags(pairs, type = "Kf", FALSE, type, spared, ord)
              = RefreshFrameFlags(pairs, FALSE, FALSE, type, spared, ord)
      BY DEF RefreshFrameFlags
    <3> QED BY <2>1, <3>1, <3>2
  <2>3. CASE type \in {"Overlay", "IntnlOverlay"}
    <3>1. coding'.mask = {}
      BY <2>2, <2>3 DEF RefreshFrameFlags
    <3> QED BY <3>1
  <2>4. CASE type \notin {"Overlay", "IntnlOverlay"}
    <3>1. pairs \in [Slots -> Frame]
      BY DEF Inv
    <3>2. OneSlot(coding'.mask, pairs, type, spared, ord)
      BY <2>2, <2>4, <3>1, FlagsOne
    <3>3. \E s : coding'.mask = {s} /\ (pairs[s].ord = -1 \/ Occupied(pairs) = Slots)
      BY <3>2, Zenon DEF OneSlot
    <3> QED BY <3>3
  <2> QED BY <2>3, <2>4
<1>6. RefsPlanned'
  <2>1. Occupied(pairs)' = Occupied(pairs)
    BY <1>2 DEF Occupied
  <2>2. RefFrames(pairs', coding'.ord, coding'.excluded # {}, coding'.excluded)
          = RefFrames(pairs, ord, coding'.excluded # {}, coding'.excluded)
    BY <1>2, Zenon
  <2>3. coding'.refs = RefFrames(pairs', coding'.ord, coding'.excluded # {}, coding'.excluded)
    BY <1>1, <2>2, Zenon
  <2> QED BY <1>2, <1>4, <1>5, <2>1, <2>3 DEF RefsPlanned
<1> QED BY <1>3, <1>6

LEMMA ChoiceInit == Init => SlotsFilled /\ RefsPlanned
<1> SUFFICES ASSUME Init PROVE SlotsFilled /\ RefsPlanned
  OBVIOUS
<1>1. /\ pairs[0] = [lev |-> 1, ord |-> 0] /\ 0 \in Slots
      /\ \A i \in Slots : i # 0 => pairs[i] = Empty
      /\ Empty.ord = -1 /\ last.type = "Kf"
  BY DEF Init, OnlyHolds, Slots, Empty
<1>2. SlotsFilled
  BY <1>1 DEF SlotsFilled
<1>3. RefsPlanned
  BY DEF Init, RefsPlanned
<1> QED BY <1>2, <1>3

LEMMA PlansChoose ==
  ASSUME Inv, Pyramid, SlotsFilled,
         PlanKey \/ PlanArf \/ PlanIntnlArf \/ PlanLeaf \/ PlanOverlay
  PROVE  SlotsFilled' /\ RefsPlanned'
<1>1. /\ next \in Nat /\ MaxAhead \in Nat /\ MaxLayers \in Nat /\ MaxLayers >= 1
      /\ \A f \in ahead : f.ord \in Int /\ f.lev \in Int /\ f.lev >= 1
  BY RefGopAssumption DEF Inv, Frame, Pyramid
<1>2. CASE PlanKey
  <2>1. Plan("Kf", 0, 1)
    BY <1>2 DEF PlanKey
  <2> QED BY <2>1, PlanChosen
<1>3. CASE PlanArf
  <2>1. PICK ord \in next + 1 .. next + MaxAhead : Plan("Arf", ord, 1)
    BY <1>3 DEF PlanArf
  <2> QED BY <1>1, <2>1, PlanChosen
<1>4. CASE PlanIntnlArf
  <2>1. PICK after \in ahead :
          \E ord \in next + 1 .. after.ord - 1 : Plan("IntnlArf", ord, after.lev + 1)
    BY <1>4 DEF PlanIntnlArf
  <2>2. PICK ord \in next + 1 .. after.ord - 1 : Plan("IntnlArf", ord, after.lev + 1)
    BY <2>1
  <2> DEFINE lev == after.lev + 1
  <2>3. ord \in Int /\ lev \in Int /\ lev >= 1 /\ lev # 1
    BY <1>1, <2>1, <2>2
  <2>4. Plan("IntnlArf", ord, lev)
    BY <2>2
  <2> HIDE DEF lev
  <2> QED BY <2>3, <2>4, PlanChosen
<1>5. CASE PlanLeaf
  <2>1. Plan("Lf", next, MaxLayers)
    BY <1>5 DEF PlanLeaf
  <2>2. next \in Int /\ MaxLayers \in Int
    BY <1>1
  <2> QED BY <1>1, <2>1, <2>2, PlanChosen
<1>6. CASE PlanOverlay
  <2>1. PICK f \in ahead :
          Plan(IF f.lev = 1 THEN "Overlay" ELSE "IntnlOverlay", next, f.lev)
    BY <1>6 DEF PlanOverlay
  <2> DEFINE type == IF f.lev = 1 THEN "Overlay" ELSE "IntnlOverlay"
  <2>2. type # "IntnlArf" /\ Plan(type, next, f.lev)
    BY <2>1
  <2> HIDE DEF type
  <2>3. next \in Int /\ f.lev \in Int /\ f.lev >= 1
    BY <1>1
  <2> QED BY <2>2, <2>3, PlanChosen
<1> QED BY <1>2, <1>3, <1>4, <1>5, <1>6

(* Coding fills a slot before it overwrites one. *)
LEMMA CodeFills ==
  ASSUME Inv, Pyramid, SlotsFilled, RefsPlanned, Code
  PROVE  SlotsFilled' /\ RefsPlanned'
<1> DEFINE frame == [lev |-> coding.lev, ord |-> coding.ord]
<1>1. /\ coding.mask = Slots => pairs' = OnlyHolds(frame)
      /\ coding.mask # Slots =>
           pairs' = [i \in Slots |-> IF i \in coding.mask THEN frame ELSE pairs[i]]
      /\ frame.ord = coding.ord /\ frame.lev = coding.lev
      /\ coding.ord \in Nat /\ coding.lev \in Int
      /\ coding.mask \subseteq Slots /\ coding # Idle
      /\ \A i \in Slots : pairs[i].ord \in Int /\ pairs[i].ord >= -1
  BY CodeFields
<1>2. last' = [type |-> coding.type, ord |-> coding.ord] /\ coding' = Idle
  BY DEF Code
<1> HIDE DEF frame
<1>3. RefsPlanned'
  BY <1>2 DEF RefsPlanned
<1>4. /\ coding.lev >= 1 /\ (coding.type = "IntnlArf" => coding.lev # 1)
      /\ coding.type # "Kf" =>
           \A i \in coding.mask : pairs[i].ord = -1 \/ Occupied(pairs) = Slots
  BY <1>1 DEF RefsPlanned
<1>5. 0 \in Slots /\ 1 \in Slots /\ Empty.ord = -1
  BY DEF Slots, Empty
<1>6. CASE coding.type = "Kf"
  <2>1. coding.mask = Slots /\ coding.ord = 0
    BY <1>1, <1>6 DEF Pyramid, PlanFits
  <2>2. pairs'[0] = frame /\ \A i \in Slots : i # 0 => pairs'[i] = Empty
    BY <1>1, <1>5, <2>1 DEF OnlyHolds
  <2>3. last'.type # "IntnlArf"
    BY <1>2, <1>6
  <2>4. SlotsFilled'
    BY <1>1, <1>4, <1>5, <2>1, <2>2, <2>3 DEF SlotsFilled
  <2> QED BY <1>3, <2>4
<1>7. CASE coding.type # "Kf"
  <2>1. \A s, t \in coding.mask : s = t
    BY <1>1, <1>7 DEF Pyramid, PlanFits
  <2>2. coding.mask # Slots
    BY <1>5, <2>1
  <2>3. \A i \in Slots : pairs'[i] = IF i \in coding.mask THEN frame ELSE pairs[i]
    BY <1>1, <2>2
  <2>4. \A i \in Slots : pairs'[i].ord = -1 \/ pairs'[i].lev >= 1
    BY <1>1, <1>4, <2>3 DEF SlotsFilled
  <2>5. pairs'[0].ord # -1
    BY <1>1, <1>5, <2>3 DEF SlotsFilled
  <2>6. Occupied(pairs') # Slots => pairs'[0].ord = 0
    <3>1. ASSUME Occupied(pairs) = Slots PROVE Occupied(pairs') = Slots
      <4>1. \A i \in Slots : pairs'[i].ord # -1
        BY <1>1, <2>3, <3>1 DEF Occupied
      <4> QED BY <4>1 DEF Occupied
    <3>2. ASSUME Occupied(pairs) # Slots PROVE pairs'[0].ord = 0
      <4>1. 0 \notin coding.mask
        BY <1>4, <1>7, <3>2 DEF SlotsFilled
      <4> QED BY <1>5, <2>3, <3>2, <4>1 DEF SlotsFilled
    <3> QED BY <3>1, <3>2
  <2>7. last'.type = "IntnlArf" =>
          last'.ord > 0 /\ \A i \in Slots : pairs'[i].ord = last'.ord => pairs'[i].lev # 1
    <3> SUFFICES ASSUME coding.type = "IntnlArf"
                 PROVE  /\ coding.ord > 0
                        /\ \A i \in Slots : pairs'[i].ord = coding.ord => pairs'[i].lev # 1
      BY <1>2
    <3>1. coding.ord > next /\ next \in Nat /\ \A f \in ahead : f.ord # coding.ord
      BY <1>1 DEF Pyramid, PlanFits, Inv
    <3>2. \A i \in Slots : pairs[i].ord # coding.ord
      BY <1>1, <3>1 DEF Pyramid
    <3> QED BY <1>1, <1>4, <2>3, <3>1, <3>2
  <2>8. SlotsFilled'
    <3>1. Occupied(pairs)' = Occupied(pairs')
      BY DEF Occupied
    <3> QED BY <2>4, <2>5, <2>6, <2>7, <3>1 DEF SlotsFilled
  <2> QED BY <1>3, <2>8
<1> QED BY <1>6, <1>7

LEMMA ChoiceStep ==
  ASSUME Inv, Pyramid, SlotsFilled, RefsPlanned, [Next]_vars
  PROVE  SlotsFilled' /\ RefsPlanned'
<1>1. CASE PlanKey \/ PlanArf \/ PlanIntnlArf \/ PlanLeaf \/ PlanOverlay
  BY <1>1, PlansChoose
<1>2. CASE Code
  BY <1>2, CodeFills
<1>3. CASE UNCHANGED vars
  BY <1>3 DEF vars, SlotsFilled, RefsPlanned, Occupied
<1> QED BY <1>1, <1>2, <1>3 DEF Next

(* The references of a plan are well chosen. *)
LEMMA PlanReadsWell ==
  ASSUME Inv, Pyramid, SlotsFilled, RefsPlanned, coding # Idle
  PROVE  WellRead(pairs, coding.ord, coding.excluded, coding.refs)
<1>1. pairs \in [Slots -> Frame] /\ coding.ord \in Int /\ next \in Int
  BY DEF Inv, PlanSound
<1>2. Buffers(pairs)
  <2>1. \E i \in Slots : pairs[i].lev = 1 /\ pairs[i].ord # -1
    BY DEF Pyramid, BaseKept, Empty
  <2> QED BY <1>1, <2>1 DEF Buffers, Pyramid, SlotsFilled
<1>3. Excludes(pairs, coding.ord, coding.excluded)
  <2>1. CASE coding.excluded = {}
    BY <2>1 DEF Excludes
  <2>2. CASE coding.excluded # {}
    <3>1. /\ last.type = "IntnlArf" /\ coding.type \in {"IntnlArf", "Lf"}
          /\ coding.excluded = {i \in Slots : pairs[i].ord = last.ord}
      BY <2>2 DEF RefsPlanned
    <3>2. last.ord > 0 /\ last.ord \in Int
      BY <3>1 DEF SlotsFilled, Pyramid
    <3>3. PICK e \in Slots : pairs[e].ord = last.ord
      BY <2>2, <3>1
    <3>4. coding.excluded = {e}
      BY <3>1, <3>2, <3>3 DEF Pyramid
    <3>5. pairs[e].ord # -1 /\ pairs[e].lev # 1
      BY <3>1, <3>2, <3>3 DEF SlotsFilled
    <3>6. \A i \in Slots : pairs[i].ord # coding.ord
      <4>1. coding.ord >= next /\ \A f \in ahead : f.ord # coding.ord
        BY <1>1, <3>1 DEF Pyramid, PlanFits
      <4>2. \A i \in Slots : pairs[i].ord \in Int
        BY <1>1 DEF Frame
      <4> QED BY <1>1, <4>1, <4>2 DEF Pyramid
    <3>7. Occupied(pairs) = Slots \/ e # 0
      BY <3>2, <3>3 DEF SlotsFilled
    <3> QED BY <3>4, <3>5, <3>6, <3>7 DEF Excludes
  <2> QED BY <2>1, <2>2
<1>4. Reads(pairs, coding.ord, coding.excluded, coding.refs)
  <2>1. coding.refs = RefFrames(pairs, coding.ord, coding.excluded # {}, coding.excluded)
    BY DEF RefsPlanned
  <2>2. Reads(pairs, coding.ord, coding.excluded,
              RefFrames(pairs, coding.ord, coding.excluded # {}, coding.excluded))
    BY <1>1, <1>2, <1>3, RefFramesRead
  <2> QED BY <2>1, <2>2
<1> QED BY <1>1, <1>2, <1>3, <1>4, ReadsWell

(* What get_ref_frames chooses, whatever the coding order: as many different
   frames as are held and not excluded, up to seven; the one left out of eight
   no nearer than an inner frame that is read, and of level 1 only when five are;
   never the frame a parallel one is coded with. *)
THEOREM ReferencesAlwaysWellChosen == Spec => []ReferencesWellChosen
<1>1. Init => Inv /\ Pyramid /\ SlotsFilled /\ RefsPlanned
  BY InvInit, PyramidInit, ChoiceInit
<1>2. Inv /\ Pyramid /\ SlotsFilled /\ RefsPlanned /\ [Next]_vars
        => Inv' /\ Pyramid' /\ SlotsFilled' /\ RefsPlanned'
  BY InvStep, PyramidStep, ChoiceStep
<1>3. Inv /\ Pyramid /\ SlotsFilled /\ RefsPlanned => ReferencesWellChosen
  <2> SUFFICES ASSUME Inv, Pyramid, SlotsFilled, RefsPlanned, coding # Idle
               PROVE  RefsDistinct /\ FarthestLeftOut /\ ExclusionHonoured
    BY DEF ReferencesWellChosen, RefsDistinct, FarthestLeftOut, ExclusionHonoured, Planned
  <2>1. WellRead(pairs, coding.ord, coding.excluded, coding.refs)
    BY PlanReadsWell
  <2> QED BY <2>1, Zenon DEF WellRead, RefsDistinct, FarthestLeftOut, ExclusionHonoured, PlannedRefs
<1> QED BY <1>1, <1>2, <1>3, PTL DEF Spec

=============================================================================
