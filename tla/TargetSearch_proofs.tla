------------------------ MODULE TargetSearch_proofs ------------------------
(* Theorems about TargetSearch, for every domain of quantizer indices, every
   set of curves, target, tolerances and budgets. *)
EXTENDS TargetSearch, FiniteSetTheorems, FunctionTheorems, TLAPS

(* The midpoint of a bracket lies in the bracket. *)
LEMMA MidpointInBracket ==
  ASSUME NEW l \in Nat, NEW h \in Nat, l <= h
  PROVE  Midpoint(l, h) \in Nat /\ l <= Midpoint(l, h) /\ Midpoint(l, h) <= h
BY SMT DEF Midpoint

(* Whatever the scores, the bracket stays inside the index domain, never
   crosses, and holds the next index to try: the u8 arithmetic of the code
   never wraps. *)
THEOREM TypeCorrect == Spec => []TypeOK
<1> USE TargetAssumption DEF Q
<1>1. Init => TypeOK
  <2> SUFFICES ASSUME Init PROVE TypeOK
    OBVIOUS
  <2>1. PICK a \in Q, b \in Q, t \in Tolerances, k \in Budgets :
          /\ opt = [min_qindex |-> a, max_qindex |-> b,
                    tolerance |-> t, max_encodes |-> k]
          /\ lo = SmallerOf(a, b)
          /\ hi = LargerOf(a, b)
    BY DEF Init
  <2>2. lo \in Q /\ hi \in Q /\ lo <= hi
    BY <2>1 DEF SmallerOf, LargerOf
  <2>3. qi \in Q /\ lo <= qi /\ qi <= hi
    <3>1. CASE qi = Midpoint(lo, hi)
      BY <3>1, <2>2, MidpointInBracket
    <3>2. CASE \E seed \in Q : qi = SmallerOf(LargerOf(seed, lo), hi)
      BY <3>2, <2>2 DEF SmallerOf, LargerOf
    <3>3. QED
      BY <3>1, <3>2 DEF Init
  <2>4. QED
    BY <2>1, <2>2, <2>3 DEF Init, TypeOK
<1>2. TypeOK /\ [Next]_vars => TypeOK'
  <2> SUFFICES ASSUME TypeOK, [Next]_vars PROVE TypeOK'
    OBVIOUS
  <2>1. CASE Trial
    <3>1. curve[qi] \in Int
      BY DEF TypeOK
    <3>2. best' \in [qindex : Q, score : Int, converged : BOOLEAN]
      BY <2>1, <3>1 DEF Trial, TypeOK, Candidate, InBand
    <3>3. /\ lo' \in Q /\ hi' \in Q /\ qi' \in Q
          /\ lo' <= qi' /\ qi' <= hi'
      <4>1. CASE StopInBand /\ UNCHANGED <<lo, hi, qi>>
        BY <4>1 DEF TypeOK
      <4>2. CASE /\ lo' = NarrowedLo
                 /\ hi' = NarrowedHi
                 /\ qi' = IF lo' >= hi' THEN lo' ELSE Midpoint(lo', hi')
        <5>1. lo' \in Q /\ hi' \in Q /\ lo' <= hi'
          BY <4>2, <3>1 DEF TypeOK, NarrowedLo, NarrowedHi, SmallerOf, LargerOf
        <5>2. QED
          BY <4>2, <5>1, MidpointInBracket
      <4>3. QED
        BY <2>1, <4>1, <4>2 DEF Trial
    <3>4. QED
      BY <2>1, <3>2, <3>3 DEF Trial, TypeOK, Spent
  <2>2. CASE TrialFails
    BY <2>2 DEF TrialFails, TypeOK
  <2>3. CASE UNCHANGED vars
    BY <2>3 DEF vars, TypeOK
  <2>4. QED
    BY <2>1, <2>2, <2>3 DEF Next
<1>3. QED
  BY <1>1, <1>2, PTL DEF Spec

-----------------------------------------------------------------------------

(* What makes BestIsClosest inductive: nothing is tried before the first trial,
   and the flag kept with the best trial is that trial's own. *)
ClosestInv ==
  /\ used = 0 => tried = {}
  /\ BestIsClosest
  /\ used > 0 => (best.converged <=> InBand(best.score))

LEMMA DistanceIsNat ==
  ASSUME NEW s \in Int
  PROVE  Distance(s) \in Nat
BY TargetAssumption DEF Distance

(* The search answers with the closest of the trials it ran, on every curve,
   monotone or not, and after any number of trials. *)
THEOREM ReturnsClosestTrial == Spec => [](BestIsClosest /\ ConvergedIffHit)
<1>1. Init => ClosestInv
  BY DEF Init, ClosestInv, BestIsClosest
<1>2. TypeOK /\ ClosestInv /\ [Next]_vars => ClosestInv'
  <2> SUFFICES ASSUME TypeOK, ClosestInv, [Next]_vars PROVE ClosestInv'
    OBVIOUS
  <2>1. CASE Trial
    <3>1. /\ used' > 0 /\ used' \in Nat
          /\ tried' = tried \cup {qi}
          /\ curve' = curve /\ opt' = opt
          /\ best' = IF Better THEN Candidate ELSE best
      BY <2>1 DEF Trial, TypeOK, Spent
    <3>2. \A q \in tried \cup {qi} : Distance(curve[q]) \in Nat
      BY DistanceIsNat, TargetAssumption DEF TypeOK
    <3>3. CASE Better
      <4>1. best' = [qindex |-> qi, score |-> curve[qi],
                     converged |-> InBand(curve[qi])]
        BY <3>1, <3>3 DEF Candidate
      <4>2. \A q \in tried : Distance(curve[qi]) <= Distance(curve[q])
        BY <3>3, <3>2 DEF Better, ClosestInv, BestIsClosest, TypeOK
      <4>3. \A q \in tried' : Distance(best'.score) <= Distance(curve'[q])
        BY <4>1, <4>2, <3>1, <3>2
      <4>4. BestIsClosest'
        BY <4>1, <4>3, <3>1 DEF BestIsClosest
      <4>5. InBand(best.score)' <=> InBand(curve[qi])
        <5>1. best'.score = curve[qi]
          BY <4>1
        <5>2. QED
          BY <5>1, <3>1 DEF InBand, Distance
      <4>6. best'.converged <=> InBand(best.score)'
        BY <4>1, <4>5, Zenon
      <4>7. used' # 0
        BY <3>1
      <4>8. QED
        BY <4>4, <4>6, <4>7, Zenon DEF ClosestInv
    <3>4. CASE ~Better
      <4>1. best' = best /\ used > 0
        BY <3>1, <3>4 DEF Better, TypeOK
      <4>2. Distance(best.score) <= Distance(curve[qi])
        BY <3>4, <3>2, DistanceIsNat DEF Better, TypeOK
      <4>3. \A q \in tried' : Distance(best'.score) <= Distance(curve'[q])
        BY <4>1, <4>2, <3>1 DEF ClosestInv, BestIsClosest
      <4>4. QED
        BY <4>1, <4>3, <3>1 DEF ClosestInv, BestIsClosest, InBand, Distance
    <3>5. QED
      BY <3>3, <3>4
  <2>2. CASE TrialFails
    BY <2>2 DEF TrialFails, ClosestInv, BestIsClosest, InBand, Distance
  <2>3. CASE UNCHANGED vars
    BY <2>3 DEF vars, ClosestInv, BestIsClosest, InBand, Distance
  <2>4. QED
    BY <2>1, <2>2, <2>3 DEF Next
<1>3. TypeOK /\ ClosestInv => BestIsClosest /\ ConvergedIffHit
  <2> SUFFICES ASSUME TypeOK, ClosestInv, used > 0
               PROVE  best.converged <=> \E q \in tried : InBand(curve[q])
    BY DEF ClosestInv, ConvergedIffHit
  <2>1. \A q \in tried : Distance(best.score) <= Distance(curve[q])
    BY DEF ClosestInv, BestIsClosest
  <2>2. /\ best.qindex \in tried /\ best.score = curve[best.qindex]
        /\ best.converged <=> InBand(best.score)
    BY DEF ClosestInv, BestIsClosest
  <2>3. \A q \in tried : Distance(curve[q]) \in Nat
    BY DistanceIsNat, TargetAssumption DEF TypeOK
  <2>4. opt.tolerance \in Nat
    BY TargetAssumption DEF TypeOK
  <2>5. QED
    BY <2>1, <2>2, <2>3, <2>4 DEF InBand
<1>4. QED
  BY <1>1, <1>2, <1>3, TypeCorrect, PTL DEF Spec

-----------------------------------------------------------------------------

(* On a monotone curve no index is ever cut off that could still have won: the
   bracket argument of the search, for every curve and every bounds. *)
THEOREM BracketSound == Spec => []BracketKeepsBest
<1> USE TargetAssumption DEF Q
<1>1. Init => BracketKeepsBest
  BY DEF Init, BracketKeepsBest, Bounds
<1>2. TypeOK /\ BracketKeepsBest /\ [Next]_vars => BracketKeepsBest'
  <2> SUFFICES ASSUME TypeOK, BracketKeepsBest, [Next]_vars
               PROVE  BracketKeepsBest'
    OBVIOUS
  <2>1. CASE Trial
    <3>1. curve' = curve /\ opt' = opt /\ tried' = tried \cup {qi}
      BY <2>1 DEF Trial
    <3>2. Bounds' = Bounds
      BY <3>1 DEF Bounds
    <3>3. CASE UNCHANGED <<lo, hi, qi>>
      BY <3>1, <3>2, <3>3 DEF BracketKeepsBest, NonIncreasing, Distance
    <3>4. CASE lo' = NarrowedLo /\ hi' = NarrowedHi
      <4> SUFFICES ASSUME NonIncreasing(curve), NEW q \in Bounds, q \notin lo' .. hi'
                   PROVE  \E t \in tried' : Distance(curve[t]) <= Distance(curve[q])
        BY <3>1, <3>2 DEF BracketKeepsBest, NonIncreasing, Distance
      <4>1. q \in Q
        BY DEF Bounds, TypeOK, SmallerOf, LargerOf
      <4>2. CASE q \notin lo .. hi
        BY <4>2, <3>1 DEF BracketKeepsBest
      <4>3. CASE q \in lo .. hi
        <5>1. curve[qi] \in Int /\ curve[q] \in Int
          BY <4>1 DEF TypeOK
        <5>2. CASE curve[qi] < Target
          <6>1. qi <= q
            BY <5>2, <4>3, <4>1, <3>4
               DEF NarrowedLo, NarrowedHi, SmallerOf, LargerOf, TypeOK
          <6>2. curve[q] <= curve[qi]
            BY <6>1, <4>1 DEF NonIncreasing, TypeOK
          <6>3. QED
            BY <6>2, <5>1, <5>2, <3>1 DEF Distance
        <5>3. CASE ~(curve[qi] < Target)
          <6>1. q <= qi
            BY <5>3, <4>3, <4>1, <3>4
               DEF NarrowedLo, NarrowedHi, SmallerOf, LargerOf, TypeOK
          <6>2. curve[qi] <= curve[q]
            BY <6>1, <4>1 DEF NonIncreasing, TypeOK
          <6>3. QED
            BY <6>2, <5>1, <5>3, <3>1 DEF Distance
        <5>4. QED
          BY <5>2, <5>3
      <4>4. QED
        BY <4>2, <4>3
    <3>5. QED
      BY <2>1, <3>3, <3>4 DEF Trial
  <2>2. CASE TrialFails
    BY <2>2 DEF TrialFails, BracketKeepsBest, Bounds, NonIncreasing, Distance
  <2>3. CASE UNCHANGED vars
    BY <2>3 DEF vars, BracketKeepsBest, Bounds, NonIncreasing, Distance
  <2>4. QED
    BY <2>1, <2>2, <2>3 DEF Next
<1>3. QED
  BY <1>1, <1>2, TypeCorrect, PTL DEF Spec

-----------------------------------------------------------------------------

(* The three ways out of the loop. *)
StopReason ==
  status = "ok" =>
    \/ used >= Budget
    \/ opt.tolerance > 0 /\ \E q \in tried : InBand(curve[q])
    \/ lo >= hi /\ best.qindex = lo

LEMMA StopReasonInv == Spec => []StopReason
<1>1. Init => StopReason
  BY DEF Init, StopReason
<1>2. StopReason /\ [Next]_vars => StopReason'
  <2> SUFFICES ASSUME StopReason, [Next]_vars PROVE StopReason'
    OBVIOUS
  <2>1. CASE Trial
    <3>1. /\ curve' = curve /\ opt' = opt
          /\ tried' = tried \cup {qi}
      BY <2>1 DEF Trial
    <3>2. CASE StopInBand
      BY <3>1, <3>2 DEF StopReason, StopInBand, InBand, Distance
    <3>3. CASE status' = IF CollapsedOnBest \/ used' >= Budget
                           THEN "ok" ELSE "searching"
      BY <3>1, <3>3 DEF StopReason, CollapsedOnBest, Budget
    <3>4. QED
      BY <2>1, <3>2, <3>3 DEF Trial
  <2>2. CASE TrialFails
    BY <2>2 DEF TrialFails, StopReason
  <2>3. CASE UNCHANGED vars
    BY <2>3 DEF vars, StopReason, Budget, InBand, Distance
  <2>4. QED
    BY <2>1, <2>2, <2>3 DEF Next
<1>3. QED
  BY <1>1, <1>2, PTL DEF Spec

(* Giving up before the budget is spent never costs quality on a monotone
   curve: the collapsed-bracket break returns the best index of the bounds. *)
THEOREM EarlyStopOptimal == Spec => []EarlyStopIsOptimal
<1>1. TypeOK /\ BestIsClosest /\ ConvergedIffHit /\ BracketKeepsBest /\ StopReason
        /\ (used = 0 => status # "ok") => EarlyStopIsOptimal
  <2> SUFFICES ASSUME TypeOK, BestIsClosest, ConvergedIffHit, BracketKeepsBest,
                      StopReason, used = 0 => status # "ok",
                      NonIncreasing(curve), status = "ok",
                      used < Budget, ~StoppedInBand
               PROVE  Optimal
    BY DEF EarlyStopIsOptimal
  <2> USE TargetAssumption DEF Q
  <2>1. used > 0
    BY DEF TypeOK
  <2>2. lo = hi /\ best.qindex = lo
    <3>1. Budget \in Int
      <4>1. opt.max_encodes \in Budgets
        BY DEF TypeOK
      <4>2. opt.max_encodes \in Nat
        BY <4>1
      <4>3. QED
        BY <4>2 DEF Budget, LargerOf
    <3>2. ~(used >= Budget)
      BY <3>1 DEF TypeOK
    <3>3. ~(opt.tolerance > 0 /\ \E q \in tried : InBand(curve[q]))
      BY <2>1 DEF ConvergedIffHit, StoppedInBand
    <3>4. lo >= hi /\ best.qindex = lo
      BY <3>2, <3>3 DEF StopReason
    <3>5. QED
      BY <3>4 DEF TypeOK
  <2>3. best.score = curve[best.qindex]
        /\ \A q \in tried : Distance(best.score) <= Distance(curve[q])
    BY <2>1 DEF BestIsClosest
  <2>4. \A q \in Q : Distance(curve[q]) \in Nat
    BY DistanceIsNat DEF TypeOK
  <2>5. ASSUME NEW q \in Bounds
        PROVE  Distance(best.score) <= Distance(curve[q])
    <3>1. q \in Q /\ lo \in Q
      BY DEF Bounds, TypeOK, SmallerOf, LargerOf
    <3>2. CASE q = lo
      BY <3>2, <3>1, <2>2, <2>3, <2>4
    <3>3. CASE q # lo
      <4>1. q \notin lo .. hi
        BY <3>1, <3>3, <2>2
      <4>2. PICK t \in tried : Distance(curve[t]) <= Distance(curve[q])
        BY <4>1 DEF BracketKeepsBest
      <4>3. Distance(best.score) <= Distance(curve[t])
        BY <2>3
      <4>4. best.qindex \in Q /\ t \in Q
        BY DEF TypeOK
      <4>5. QED
        BY <4>2, <4>3, <4>4, <3>1, <2>3, <2>4
    <3>4. QED
      BY <3>2, <3>3
  <2>6. QED
    BY <2>5 DEF Optimal
<1>2. Init => (used = 0 => status # "ok")
  BY DEF Init
<1>3. TypeOK /\ (used = 0 => status # "ok") /\ [Next]_vars
        => (used = 0 => status # "ok")'
  BY DEF TypeOK, Next, Trial, TrialFails, vars, Spent
<1>4. QED
  BY <1>1, <1>2, <1>3, TypeCorrect, ReturnsClosestTrial, BracketSound,
     StopReasonInv, PTL DEF Spec

-----------------------------------------------------------------------------

(* A power of two counts the subsets of an interval. *)
LEMMA PowerCounts ==
  ASSUME NEW n \in Nat
  PROVE  /\ IsFiniteSet(SUBSET (1 .. n)) /\ Cardinality(SUBSET (1 .. n)) = 2 ^ n
         /\ 2 ^ n \in Nat
<1>1. IsFiniteSet(1 .. n) /\ Cardinality(1 .. n) = n
  BY FS_Interval
<1>2. IsFiniteSet(SUBSET (1 .. n)) /\ Cardinality(SUBSET (1 .. n)) = 2 ^ Cardinality(1 .. n)
  BY <1>1, FS_SUBSET, Zenon
<1> QED BY <1>1, <1>2, FS_CardinalityType

(* One more exponent, twice the power: half of those subsets hold the new index. *)
LEMMA PowerDoubles ==
  ASSUME NEW n \in Nat
  PROVE  2 ^ (n + 1) = 2 * 2 ^ n
<1> DEFINE A == 1 .. n
           x == n + 1
           With == {B \cup {x} : B \in SUBSET A}
           f == [B \in SUBSET A |-> B \cup {x}]
<1>1. /\ IsFiniteSet(SUBSET A) /\ Cardinality(SUBSET A) = 2 ^ n /\ 2 ^ n \in Nat
      /\ Cardinality(SUBSET (1 .. n + 1)) = 2 ^ (n + 1)
  BY PowerCounts
<1>2. x \notin A /\ 1 .. n + 1 = A \cup {x}
  OBVIOUS
<1> HIDE DEF A, x
<1>3. SUBSET (A \cup {x}) = (SUBSET A) \cup With
  <2>1. ASSUME NEW B \in SUBSET (A \cup {x}) PROVE B \in (SUBSET A) \cup With
    <3>1. CASE x \in B
      <4>1. B \ {x} \in SUBSET A /\ B = (B \ {x}) \cup {x}
        BY <3>1
      <4> QED BY <4>1
    <3>2. CASE x \notin B
      BY <3>2
    <3> QED BY <3>1, <3>2
  <2>2. With \subseteq SUBSET (A \cup {x})
    OBVIOUS
  <2>3. SUBSET A \subseteq SUBSET (A \cup {x})
    OBVIOUS
  <2> HIDE DEF With
  <2> QED BY <2>1, <2>2, <2>3
<1>4. ExistsBijection(SUBSET A, With)
  <2>1. f \in [SUBSET A -> With]
    OBVIOUS
  <2>2. ASSUME NEW B \in SUBSET A, NEW C \in SUBSET A, f[B] = f[C] PROVE B = C
    BY <1>2, <2>2
  <2>3. f \in Injection(SUBSET A, With)
    BY <2>1, <2>2, Fun_IsInj, Zenon
  <2>4. f \in Surjection(SUBSET A, With)
    BY <2>1, Zenon DEF Surjection
  <2> QED BY <2>3, <2>4, Zenon DEF Bijection, ExistsBijection
<1>5. IsFiniteSet(With) /\ Cardinality(With) = 2 ^ n
  BY <1>1, <1>4, FS_Bijection
<1>6. (SUBSET A) \cap With = {}
  BY <1>2
<1>7. Cardinality((SUBSET A) \cap With) = 0
  BY <1>6, FS_EmptySet, Zenon
<1> HIDE DEF With
<1>8. Cardinality((SUBSET A) \cup With)
        = Cardinality(SUBSET A) + Cardinality(With) - Cardinality((SUBSET A) \cap With)
  BY <1>1, <1>5, FS_Union
<1>9. Cardinality((SUBSET A) \cup With) = 2 ^ (n + 1)
  BY <1>1, <1>2, <1>3
<1> QED BY <1>1, <1>5, <1>7, <1>8, <1>9
(* The halving argument.  The seed may be anywhere, so the first trial is only
   good for one index; every later one is tried at the midpoint and halves the
   bracket, until the bracket is a single index that was tried. *)
BoundsSize == (LargerOf(opt.min_qindex, opt.max_qindex)
                 - SmallerOf(opt.min_qindex, opt.max_qindex)) + 1
Width      == (hi - lo) + 1
Exhausted  == lo = hi /\ lo \in tried
HitBand    == opt.tolerance > 0 /\ \E q \in tried : InBand(curve[q])

HalvingInv ==
  /\ used = 0 => /\ status # "ok"
                 /\ lo = SmallerOf(opt.min_qindex, opt.max_qindex)
                 /\ hi = LargerOf(opt.min_qindex, opt.max_qindex)
  /\ used > 0 /\ status = "searching" => qi = Midpoint(lo, hi)
  /\ used > 0 /\ ~HitBand =>
       Exhausted \/ Width * 2 ^ (used - 1) <= BoundsSize - 1

LEMMA BoundsCounted ==
  ASSUME TypeOK
  PROVE  IsFiniteSet(Bounds) /\ Cardinality(Bounds) = BoundsSize
         /\ BoundsSize \in Nat \ {0}
<1>1. /\ SmallerOf(opt.min_qindex, opt.max_qindex) \in Int
      /\ LargerOf(opt.min_qindex, opt.max_qindex) \in Int
      /\ SmallerOf(opt.min_qindex, opt.max_qindex)
           <= LargerOf(opt.min_qindex, opt.max_qindex)
  BY TargetAssumption DEF TypeOK, Q, SmallerOf, LargerOf
<1> DEFINE a == SmallerOf(opt.min_qindex, opt.max_qindex)
           b == LargerOf(opt.min_qindex, opt.max_qindex)
<1> HIDE DEF a, b
<1>2. a \in Int /\ b \in Int /\ a <= b
  BY <1>1 DEF a, b
<1>3. IsFiniteSet(a .. b) /\ Cardinality(a .. b) = IF a > b THEN 0 ELSE (b - a) + 1
  BY <1>2, FS_Interval
<1>4. Bounds = a .. b /\ BoundsSize = (b - a) + 1
  BY DEF Bounds, BoundsSize, a, b
<1>5. QED
  BY <1>2, <1>3, <1>4

(* What one trial outside the band does to the bracket. *)
LEMMA TrialNarrows ==
  ASSUME TypeOK, lo' = NarrowedLo, hi' = NarrowedHi, tried' = tried \cup {qi}
  PROVE  \/ Exhausted'
         \/ Width' <= Width - 1
            /\ (qi = Midpoint(lo, hi) => Width' + Width' <= Width)
<1>1. curve[qi] \in Int /\ Target \in Int /\ lo \in Int /\ hi \in Int /\ qi \in Int
      /\ lo <= qi /\ qi <= hi
  BY TargetAssumption DEF TypeOK, Q
<1>2. qi = Midpoint(lo, hi) =>
        (qi - lo) + (qi - lo) <= hi - lo /\ (hi - qi) + (hi - qi) <= (hi - lo) + 1
  BY <1>1 DEF Midpoint
<1>3. CASE curve[qi] < Target
  <2>1. lo' = lo /\ hi' = LargerOf(qi - 1, lo)
    BY <1>3 DEF NarrowedLo, NarrowedHi
  <2>2. CASE qi = lo
    BY <2>1, <2>2, <1>1 DEF LargerOf, Exhausted
  <2>3. CASE qi # lo
    <3>1. hi' = qi - 1
      BY <2>1, <2>3, <1>1 DEF LargerOf
    <3>2. QED
      BY <3>1, <2>1, <1>1, <1>2 DEF Width
  <2>4. QED
    BY <2>2, <2>3
<1>4. CASE ~(curve[qi] < Target)
  <2>1. hi' = hi /\ lo' = SmallerOf(qi + 1, hi)
    BY <1>4 DEF NarrowedLo, NarrowedHi
  <2>2. CASE qi = hi
    BY <2>1, <2>2, <1>1 DEF SmallerOf, Exhausted
  <2>3. CASE qi # hi
    <3>1. lo' = qi + 1
      BY <2>1, <2>3, <1>1 DEF SmallerOf
    <3>2. QED
      BY <3>1, <2>1, <1>1, <1>2 DEF Width
  <2>4. QED
    BY <2>2, <2>3
<1>5. QED
  BY <1>3, <1>4

(* A bracket that is exhausted stays so: its one index is tried again. *)
LEMMA ExhaustedStays ==
  ASSUME TypeOK, Exhausted, lo' = NarrowedLo, hi' = NarrowedHi,
         tried' = tried \cup {qi}
  PROVE  Exhausted'
<1>1. lo \in Int /\ hi \in Int /\ qi \in Int /\ lo <= qi /\ qi <= hi /\ lo = hi
      /\ lo \in tried
  BY TargetAssumption DEF TypeOK, Q, Exhausted
<1>2. lo' = lo /\ hi' = hi
  BY <1>1 DEF NarrowedLo, NarrowedHi, SmallerOf, LargerOf
<1>3. QED
  BY <1>1, <1>2 DEF Exhausted

LEMMA HalvedProduct ==
  ASSUME NEW v \in Nat, NEW w \in Nat, NEW p \in Nat, v + v <= w
  PROVE  v * (2 * p) <= w * p
<1>1. PICK d \in Nat : w = (v + v) + d
  <2>1. w - (v + v) \in Nat /\ w = (v + v) + (w - (v + v))
    OBVIOUS
  <2>2. QED
    BY <2>1
<1>2. w * p = v * (2 * p) + d * p
  BY <1>1
<1>3. d * p \in Nat /\ v * (2 * p) \in Int
  OBVIOUS
<1>4. QED
  BY <1>2, <1>3

LEMMA HalvingInvariant == Spec => []HalvingInv
<1> USE TargetAssumption DEF Q
<1>1. Init => HalvingInv
  BY DEF Init, HalvingInv, SmallerOf, LargerOf
<1>2. TypeOK /\ HalvingInv /\ [Next]_vars => HalvingInv'
  <2> SUFFICES ASSUME TypeOK, HalvingInv, [Next]_vars PROVE HalvingInv'
    OBVIOUS
  <2>1. CASE Trial
    <3>1. /\ used' = used + 1 /\ used \in Nat /\ used' > 0 /\ used' # 0
          /\ used' - 1 = used /\ curve' = curve /\ opt' = opt
          /\ tried' = tried \cup {qi} /\ status = "searching"
      BY <2>1 DEF Trial, TypeOK, Spent
    <3>2. BoundsSize' = BoundsSize /\ BoundsSize \in Nat \ {0}
      BY <3>1, BoundsCounted DEF BoundsSize
    <3>3. HitBand => HitBand'
      BY <3>1 DEF HitBand, InBand, Distance
    <3>4. CASE StopInBand /\ status' = "ok"
      <4>1. HitBand'
        BY <3>1, <3>4 DEF HitBand, StopInBand, InBand, Distance
      <4>2. QED
        BY <3>1, <3>4, <4>1 DEF HalvingInv
    <3>5. CASE /\ lo' = NarrowedLo
               /\ hi' = NarrowedHi
               /\ qi' = IF lo' >= hi' THEN lo' ELSE Midpoint(lo', hi')
      <4>1. lo' \in Int /\ hi' \in Int /\ lo' <= hi' /\ Width \in Nat /\ Width' \in Nat
        BY <3>5 DEF TypeOK, NarrowedLo, NarrowedHi, SmallerOf, LargerOf, Width
      <4>2. qi' = Midpoint(lo', hi')
        BY <3>5, <4>1 DEF Midpoint
      <4>3. ASSUME ~HitBand'
            PROVE  Exhausted' \/ Width' * 2 ^ used <= BoundsSize - 1
        <5>1. CASE used = 0
          <6>1. Width = BoundsSize
            BY <5>1 DEF HalvingInv, Width, BoundsSize
          <6>2. Exhausted' \/ Width' <= BoundsSize - 1
            BY <6>1, <3>5, <3>1, TrialNarrows
          <6>3. 2 ^ used = 1
            BY <5>1
          <6>4. Width' * 2 ^ used = Width'
            BY <6>3, <4>1
          <6>5. QED
            BY <6>2, <6>4
        <5>2. CASE used > 0
          <6>1. Exhausted \/ Width * 2 ^ (used - 1) <= BoundsSize - 1
            BY <5>2, <4>3, <3>3 DEF HalvingInv
          <6>2. CASE Exhausted
            BY <6>2, <3>1, <3>5, ExhaustedStays
          <6>3. CASE Width * 2 ^ (used - 1) <= BoundsSize - 1
            <7>1. qi = Midpoint(lo, hi)
              BY <5>2, <3>1 DEF HalvingInv
            <7>2. Exhausted' \/ Width' + Width' <= Width
              BY <7>1, <3>1, <3>5, TrialNarrows
            <7>3. used - 1 \in Nat /\ (used - 1) + 1 = used
              BY <5>2, <3>1
            <7>4. 2 ^ (used - 1) \in Nat /\ 2 ^ used = 2 * 2 ^ (used - 1)
              BY <7>3, PowerCounts, PowerDoubles
            <7>5. Width' + Width' <= Width =>
                    Width' * (2 * 2 ^ (used - 1)) <= Width * 2 ^ (used - 1)
              BY <7>4, <4>1, HalvedProduct, Zenon
            <7>6. Width' + Width' <= Width =>
                    Width' * 2 ^ used <= BoundsSize - 1
              <8> DEFINE p == 2 ^ (used - 1)
              <8>1. /\ p \in Nat /\ 2 ^ used = 2 * p
                    /\ Width' + Width' <= Width => Width' * (2 * p) <= Width * p
                    /\ Width * p <= BoundsSize - 1
                BY <7>4, <7>5, <6>3
              <8>2. Width' * (2 * p) \in Int /\ Width * p \in Int
                BY <8>1, <4>1
              <8> HIDE DEF p
              <8>3. QED
                BY <8>1, <8>2, <3>2
            <7>7. QED
              BY <7>2, <7>6
          <6>4. QED
            BY <6>1, <6>2, <6>3
        <5>3. QED
          BY <5>1, <5>2, <3>1
      <4>4. QED
        BY <4>2, <4>3, <3>1, <3>2 DEF HalvingInv
    <3>6. QED
      BY <2>1, <3>4, <3>5 DEF Trial
  <2>2. CASE TrialFails
    BY <2>2 DEF TrialFails, TypeOK, HalvingInv, Exhausted, Width, BoundsSize,
                HitBand, InBand, Distance
  <2>3. CASE UNCHANGED vars
    BY <2>3 DEF vars, HalvingInv, Exhausted, Width, BoundsSize, HitBand, InBand,
                Distance
  <2>4. QED
    BY <2>1, <2>2, <2>3 DEF Next
<1>3. QED
  BY <1>1, <1>2, TypeCorrect, PTL DEF Spec

(* The doc's logarithmic budget: on a monotone curve, a search that was allowed
   k trials after the seed, over bounds of at most 2^k indices, answers with the
   closest of them, wherever the seed was and whatever the scores. *)
THEOREM LogarithmicBudget == Spec => []LogBudgetSuffices
<1>1. TypeOK /\ BestIsClosest /\ ConvergedIffHit /\ BracketKeepsBest /\ HalvingInv
        => LogBudgetSuffices
  <2> SUFFICES ASSUME TypeOK, BestIsClosest, ConvergedIffHit, BracketKeepsBest,
                      HalvingInv, NonIncreasing(curve), status = "ok",
                      2 ^ (used - 1) >= Cardinality(Bounds), ~StoppedInBand
               PROVE  Optimal
    BY DEF LogBudgetSuffices
  <2> USE TargetAssumption DEF Q
  <2>1. used > 0 /\ used - 1 \in Nat
    BY DEF TypeOK, HalvingInv
  <2>2. ~HitBand
    BY <2>1 DEF ConvergedIffHit, StoppedInBand, HitBand
  <2>3. Exhausted
    <3>1. Exhausted \/ Width * 2 ^ (used - 1) <= BoundsSize - 1
      BY <2>1, <2>2 DEF HalvingInv
    <3> DEFINE p == 2 ^ (used - 1)
    <3>2. p \in Nat /\ p >= BoundsSize /\ BoundsSize \in Nat \ {0}
      BY <2>1, PowerCounts, BoundsCounted
    <3>3. Width \in Nat \ {0}
      BY DEF TypeOK, Width
    <3> HIDE DEF p
    <3>4. p <= Width * p
      <4>1. Width - 1 \in Nat /\ Width * p = (Width - 1) * p + p
        BY <3>2, <3>3
      <4>2. (Width - 1) * p \in Nat
        BY <4>1, <3>2
      <4>3. QED
        BY <4>1, <4>2, <3>2
    <3>5. Width * p \in Nat
      BY <3>2, <3>3
    <3>6. ~(Width * p <= BoundsSize - 1)
      BY <3>2, <3>4, <3>5
    <3>7. QED
      BY <3>1, <3>6 DEF p
  <2>4. best.score \in Int /\ \A q \in Q : curve[q] \in Int
    BY DEF TypeOK
  <2>5. /\ Distance(best.score) \in Nat
        /\ \A q \in Q : Distance(curve[q]) \in Nat
    BY <2>4, DistanceIsNat
  <2>6. ASSUME NEW q \in Bounds
        PROVE  Distance(best.score) <= Distance(curve[q])
    <3>1. q \in Q /\ lo \in Q
      BY DEF Bounds, TypeOK, SmallerOf, LargerOf
    <3>2. PICK t \in tried : Distance(curve[t]) <= Distance(curve[q])
      <4>1. CASE q = lo
        <5>1. lo \in tried /\ Distance(curve[lo]) <= Distance(curve[q])
          BY <4>1, <2>3, <2>5, <3>1 DEF Exhausted
        <5>2. QED
          BY <5>1
      <4>2. CASE q # lo
        <5>1. q \notin lo .. hi
          BY <4>2, <2>3, <3>1 DEF Exhausted
        <5>2. QED
          BY <5>1 DEF BracketKeepsBest
      <4>3. QED
        BY <4>1, <4>2
    <3>3. Distance(best.score) <= Distance(curve[t]) /\ t \in Q
      BY <2>1 DEF BestIsClosest, TypeOK
    <3>4. QED
      BY <3>1, <3>2, <3>3, <2>5
  <2>7. QED
    BY <2>6 DEF Optimal
<1>2. QED
  BY <1>1, TypeCorrect, ReturnsClosestTrial, BracketSound, HalvingInvariant, PTL

=============================================================================
