-------------------------- MODULE OrderHints_proofs --------------------------
(***************************************************************************)
(* The skip-mode scan agrees with its definition for every width of the    *)
(* order hints, every number of references and every order they come in.   *)
(***************************************************************************)
EXTENDS OrderHints, FiniteSetTheorems, TLAPS

-----------------------------------------------------------------------------
(* Wrapped distances                                                       *)

(* Division of a number less than two halves away from 0. *)
LEMMA Quarters ==
  ASSUME NEW h \in Nat \ {0}, NEW d \in Int, -2 * h < d, d < 2 * h
  PROVE  (d % h) - h * ((d \div h) % 2) =
           IF d >= h THEN d - 2 * h ELSE IF d < -h THEN d + 2 * h ELSE d
<1> DEFINE q == d \div h
           r == d % h
<1>1. q \in Int /\ r \in 0 .. h - 1 /\ d = h * q + r
  OBVIOUS
<1>2. q \in -2 .. 1
  BY <1>1
<1>3. /\ q = -2 => d < -h /\ r = d + 2 * h
      /\ q = -1 => -h <= d /\ d < 0 /\ r = d + h
      /\ q = 0 => 0 <= d /\ d < h /\ r = d
      /\ q = 1 => h <= d /\ r = d - h
  BY <1>1, <1>2
<1>4. QED
  BY <1>2, <1>3

(* The distance between two hints is their difference, brought within half the
   range. *)
Brought(d) ==
  IF d >= Half THEN d - 2 * Half ELSE IF d < -Half THEN d + 2 * Half ELSE d

LEMMA DistIsBrought ==
  ASSUME NEW a \in Hints, NEW b \in Hints
  PROVE  RelativeDist(a, b) = Brought(a - b)
<1> USE HintAssumption
<1>1. a - b \in Int /\ -2 * Half < a - b /\ a - b < 2 * Half
  BY DEF Hints
<1>2. QED
  BY <1>1, Quarters DEF RelativeDist, Brought

LEMMA AheadIsBrought ==
  ASSUME cur \in Hints, NEW a \in Hints
  PROVE  /\ Ahead(a) = Brought(a - cur)
         /\ Ahead(a) \in Int /\ -Half <= Ahead(a) /\ Ahead(a) < Half
<1> USE HintAssumption
<1> DEFINE d == (a - cur + 2 * Half) % (2 * Half)
<1>1. d = IF a - cur >= 0 THEN a - cur ELSE a - cur + 2 * Half
  BY DEF Hints
<1>2. Ahead(a) = IF d < Half THEN d ELSE d - 2 * Half
  BY DEF Ahead
<1>3. QED
  BY <1>1, <1>2 DEF Hints, Brought

(* A hint's distance to another follows from how far both are ahead. *)
LEMMA DistFromAhead ==
  ASSUME cur \in Hints, NEW a \in Hints, NEW b \in Hints
  PROVE  /\ RelativeDist(a, b) = Brought(Ahead(a) - Ahead(b))
         /\ Ahead(a) = Ahead(b) => a = b
<1> USE HintAssumption
<1>1. /\ Ahead(a) = Brought(a - cur) /\ Ahead(b) = Brought(b - cur)
      /\ RelativeDist(a, b) = Brought(a - b)
  BY AheadIsBrought, DistIsBrought
<1>2. QED
  BY <1>1 DEF Brought, Hints

(* What the comparisons of the scan say of how far ahead the hints are. *)
LEMMA DistSigns ==
  ASSUME cur \in Hints, NEW a \in Hints, NEW b \in Hints
  PROVE  /\ RelativeDist(a, cur) = Ahead(a)
         /\ Ahead(a) < 0 /\ Ahead(b) < 0 =>
              (RelativeDist(a, b) > 0 <=> Ahead(a) > Ahead(b))
         /\ Ahead(a) > 0 /\ Ahead(b) > 0 =>
              (RelativeDist(a, b) < 0 <=> Ahead(a) < Ahead(b))
         /\ Ahead(a) <= 0 /\ Ahead(b) < 0 /\ Ahead(b) # -Half =>
              (RelativeDist(a, b) < 0 <=> Ahead(a) < Ahead(b))
<1> USE HintAssumption
<1>1. /\ Ahead(a) \in Int /\ -Half <= Ahead(a) /\ Ahead(a) < Half
      /\ Ahead(b) \in Int /\ -Half <= Ahead(b) /\ Ahead(b) < Half
      /\ RelativeDist(a, b) = Brought(Ahead(a) - Ahead(b))
  BY AheadIsBrought, DistFromAhead
<1>2. RelativeDist(a, cur) = Ahead(a)
  BY AheadIsBrought, DistIsBrought
<1>3. QED
  BY <1>1, <1>2 DEF Brought

-----------------------------------------------------------------------------
(* The first loop                                                          *)

(* f is the nearest hint of S before, or b after, the current frame. *)
NearestPast(f, S) ==
  \/ f = {} /\ \A y \in S : ~(Ahead(y) < 0)
  \/ \E x \in S : /\ f = {x} /\ Ahead(x) < 0
                  /\ \A y \in S : Ahead(y) < 0 => Ahead(y) <= Ahead(x)
NearestFuture(b, S) ==
  \/ b = {} /\ \A y \in S : ~(Ahead(y) > 0)
  \/ \E x \in S : /\ b = {x} /\ Ahead(x) > 0
                  /\ \A y \in S : Ahead(y) > 0 => Ahead(x) <= Ahead(y)

LEMMA PastStep ==
  ASSUME cur \in Hints, NEW S \in SUBSET Hints, NEW o \in Optional(Hints), NEW f,
         NearestPast(f, S)
  PROVE  NearestPast(IF \E oh \in o : RelativeDist(oh, cur) < 0 /\ NearerBefore(oh, f)
                       THEN o ELSE f, S \cup o)
<1>1. ASSUME NEW a \in Hints, NEW b \in Hints
      PROVE  /\ Ahead(a) \in Int
             /\ RelativeDist(a, cur) = Ahead(a)
             /\ Ahead(a) < 0 /\ Ahead(b) < 0 =>
                  (RelativeDist(a, b) > 0 <=> Ahead(a) > Ahead(b))
  BY AheadIsBrought, DistSigns
<1>2. CASE o = {}
  BY <1>2 DEF NearestPast
<1>3. ASSUME NEW oh \in Hints, o = {oh} PROVE NearestPast(IF RelativeDist(oh, cur) < 0 /\ NearerBefore(oh, f) THEN o ELSE f, S \cup o)
  <2>1. CASE f = {} /\ \A y \in S : ~(Ahead(y) < 0)
    BY <1>1, <1>3, <2>1 DEF NearestPast, NearerBefore
  <2>2. ASSUME NEW x \in S, f = {x}, Ahead(x) < 0, \A y \in S : Ahead(y) < 0 => Ahead(y) <= Ahead(x)
        PROVE  NearestPast(IF RelativeDist(oh, cur) < 0 /\ NearerBefore(oh, f) THEN o ELSE f, S \cup o)
    BY <1>1, <1>3, <2>2 DEF NearestPast, NearerBefore
  <2>3. QED
    BY <2>1, <2>2 DEF NearestPast
<1>4. QED
  BY <1>2, <1>3 DEF Optional

LEMMA FutureStep ==
  ASSUME cur \in Hints, NEW S \in SUBSET Hints, NEW o \in Optional(Hints), NEW b,
         NearestFuture(b, S)
  PROVE  NearestFuture(IF \E oh \in o : RelativeDist(oh, cur) > 0 /\ NearerAfter(oh, b)
                         THEN o ELSE b, S \cup o)
<1>1. ASSUME NEW a \in Hints, NEW c \in Hints
      PROVE  /\ Ahead(a) \in Int
             /\ RelativeDist(a, cur) = Ahead(a)
             /\ Ahead(a) > 0 /\ Ahead(c) > 0 =>
                  (RelativeDist(a, c) < 0 <=> Ahead(a) < Ahead(c))
  BY AheadIsBrought, DistSigns
<1>2. CASE o = {}
  BY <1>2 DEF NearestFuture
<1>3. ASSUME NEW oh \in Hints, o = {oh} PROVE NearestFuture(IF RelativeDist(oh, cur) > 0 /\ NearerAfter(oh, b) THEN o ELSE b, S \cup o)
  <2>1. CASE b = {} /\ \A y \in S : ~(Ahead(y) > 0)
    BY <1>1, <1>3, <2>1 DEF NearestFuture, NearerAfter
  <2>2. ASSUME NEW x \in S, b = {x}, Ahead(x) > 0, \A y \in S : Ahead(y) > 0 => Ahead(x) <= Ahead(y)
        PROVE  NearestFuture(IF RelativeDist(oh, cur) > 0 /\ NearerAfter(oh, b) THEN o ELSE b, S \cup o)
    BY <1>1, <1>3, <2>2 DEF NearestFuture, NearerAfter
  <2>3. QED
    BY <2>1, <2>2 DEF NearestFuture
<1>4. QED
  BY <1>2, <1>3 DEF Optional

-----------------------------------------------------------------------------
(* The invariant                                                           *)

Seen == UNION {refs[r] : r \in 1 .. i - 1}
BeforeFwd(oh) == \A f \in fwd : RelativeDist(oh, f) < 0

(* The first loop, and what it leaves for the second. *)
NearestKnown ==
  IF phase = "nearest"
    THEN NearestPast(fwd, Seen) /\ NearestFuture(bwd, Seen) /\ second = {}
    ELSE NearestPast(fwd, BoundHints) /\ NearestFuture(bwd, BoundHints)

(* The second loop, and the answer. *)
SecondKnown ==
  /\ phase = "second" =>
       /\ fwd # {} /\ bwd = {}
       /\ second # {} <=> \E oh \in Seen : BeforeFwd(oh)
  /\ phase = "allowed" =>
       fwd # {} /\ (bwd # {} \/ \E oh \in BoundHints : BeforeFwd(oh))
  /\ phase = "refused" =>
       fwd = {} \/ (bwd = {} /\ \A oh \in BoundHints : ~BeforeFwd(oh))

ScanInv ==
  /\ TypeOK
  /\ ~enabled => phase = "refused"
  /\ enabled => NearestKnown /\ SecondKnown

(* The hints seen grow by one reference at a time, up to all of them. *)
LEMMA SeenGrows ==
  ASSUME TypeOK
  PROVE  /\ Seen \in SUBSET Hints /\ BoundHints \in SUBSET Hints
         /\ i = 1 => Seen = {}
         /\ i > NumRefs => Seen = BoundHints
         /\ i <= NumRefs /\ i' = i + 1 /\ refs' = refs =>
              refs[i] \in Optional(Hints) /\ Seen' = Seen \cup refs[i]
<1> USE HintAssumption
<1>1. \A r \in Refs : refs[r] \in Optional(Hints) /\ refs[r] \subseteq Hints
  BY DEF TypeOK, Optional
<1>2. i \in 1 .. NumRefs + 1
  BY DEF TypeOK
<1>3. Seen \in SUBSET Hints /\ BoundHints \in SUBSET Hints
  BY <1>1, <1>2 DEF Seen, BoundHints, Refs
<1>4. i = 1 => Seen = {}
  BY DEF Seen
<1>5. i > NumRefs => Seen = BoundHints
  BY <1>2 DEF Seen, BoundHints, Refs
<1>6. ASSUME i <= NumRefs, i' = i + 1, refs' = refs
      PROVE  refs[i] \in Optional(Hints) /\ Seen' = Seen \cup refs[i]
  <2>1. i \in Refs /\ 1 .. i' - 1 = (1 .. i - 1) \cup {i}
    BY <1>2, <1>6 DEF Refs
  <2>2. Seen' = UNION {refs[r] : r \in 1 .. i' - 1}
    BY <1>6 DEF Seen
  <2>3. QED
    BY <1>1, <2>1, <2>2 DEF Seen
<1>7. QED
  BY <1>3, <1>4, <1>5, <1>6

LEMMA ScanInitially == Init => ScanInv
<1> SUFFICES ASSUME Init PROVE ScanInv
  OBVIOUS
<1>1. TypeOK
  BY HintAssumption DEF Init, TypeOK, Optional
<1>2. Seen = {}
  BY DEF Init, Seen
<1>3. enabled => NearestKnown /\ SecondKnown
  BY <1>2 DEF Init, NearestKnown, SecondKnown, NearestPast, NearestFuture
<1>4. QED
  BY <1>1, <1>3 DEF Init, ScanInv

LEMMA NearestPreserved ==
  ASSUME ScanInv, ScanNearest
  PROVE  ScanInv'
<1> USE DEF ScanNearest
<1>1. enabled /\ cur \in Hints /\ UNCHANGED <<enabled, cur, refs, second, phase>>
  BY DEF ScanInv, TypeOK
<1>2. /\ Seen \in SUBSET Hints /\ refs[i] \in Optional(Hints)
      /\ Seen' = Seen \cup refs[i]
  BY SeenGrows DEF ScanInv
<1>3. NearestPast(fwd, Seen) /\ NearestFuture(bwd, Seen) /\ second = {}
  BY <1>1 DEF ScanInv, NearestKnown
<1>4. NearestPast(fwd', Seen')
  BY <1>1, <1>2, <1>3, PastStep
<1>5. NearestFuture(bwd', Seen')
  BY <1>1, <1>2, <1>3, FutureStep
<1>6. TypeOK'
  BY <1>2, HintAssumption DEF ScanInv, TypeOK
<1>7. NearestPast(fwd, Seen)' /\ NearestFuture(bwd, Seen)'
  BY <1>1, <1>4, <1>5 DEF NearestPast, NearestFuture, Ahead
<1>8. QED
  BY <1>1, <1>3, <1>6, <1>7 DEF ScanInv, NearestKnown, SecondKnown

LEMMA SecondPreserved ==
  ASSUME ScanInv, ScanSecond
  PROVE  ScanInv'
<1> USE DEF ScanSecond
<1>1. enabled /\ UNCHANGED <<enabled, cur, refs, fwd, bwd, phase>>
  BY DEF ScanInv
<1>2. refs[i] \in Optional(Hints) /\ Seen' = Seen \cup refs[i]
  BY SeenGrows DEF ScanInv
<1>3. second # {} <=> \E oh \in Seen : BeforeFwd(oh)
  BY <1>1 DEF ScanInv, SecondKnown
<1>4. second' # {} <=> \E oh \in Seen' : BeforeFwd(oh)
  BY <1>2, <1>3 DEF BeforeFwd, NearerBefore, Optional
<1>5. TypeOK'
  BY <1>2, HintAssumption DEF ScanInv, TypeOK
<1>6. NearestKnown'
  BY <1>1 DEF ScanInv, NearestKnown, NearestPast, NearestFuture, BoundHints, Ahead
<1>7. SecondKnown'
  BY <1>1, <1>4 DEF ScanInv, SecondKnown, BeforeFwd
<1>8. QED
  BY <1>1, <1>5, <1>6, <1>7 DEF ScanInv

LEMMA DecisionsPreserve ==
  ASSUME ScanInv, DecideSides \/ DecideSecond
  PROVE  ScanInv'
<1>1. enabled /\ UNCHANGED <<enabled, cur, refs, fwd, bwd, second>> /\ i > NumRefs
  BY DEF ScanInv, DecideSides, DecideSecond
<1>2. Seen = BoundHints
  BY <1>1, SeenGrows DEF ScanInv
<1>3. TypeOK'
  BY HintAssumption DEF ScanInv, TypeOK, DecideSides, DecideSecond, Decided
<1>4. NearestKnown'
  BY <1>1, <1>2 DEF ScanInv, NearestKnown, NearestPast, NearestFuture, BoundHints, Ahead,
                    DecideSides, DecideSecond, Decided
<1>5. CASE DecideSides
  <2>1. second = {} /\ Seen' = {}
    BY <1>5 DEF ScanInv, NearestKnown, DecideSides, Seen
  <2>2. SecondKnown'
    BY <1>1, <1>5, <2>1 DEF DecideSides, Decided, SecondKnown
  <2>3. QED
    BY <1>1, <1>3, <1>4, <2>2 DEF ScanInv
<1>6. CASE DecideSecond
  <2>1. SecondKnown'
    BY <1>1, <1>2, <1>6 DEF ScanInv, DecideSecond, SecondKnown, BeforeFwd, BoundHints
  <2>2. QED
    BY <1>1, <1>3, <1>4, <2>1 DEF ScanInv
<1>7. QED
  BY <1>5, <1>6

LEMMA ScanPreserved == ScanInv /\ [Next]_vars => ScanInv'
<1> SUFFICES ASSUME ScanInv, [Next]_vars PROVE ScanInv'
  OBVIOUS
<1>1. CASE ScanNearest
  BY <1>1, NearestPreserved
<1>2. CASE DecideSides \/ DecideSecond
  BY <1>2, DecisionsPreserve
<1>3. CASE ScanSecond
  BY <1>3, SecondPreserved
<1>4. CASE UNCHANGED vars
  BY <1>4 DEF vars, ScanInv, TypeOK, NearestKnown, SecondKnown, NearestPast, NearestFuture,
              Seen, BoundHints, BeforeFwd, Ahead
<1>5. QED
  BY <1>1, <1>2, <1>3, <1>4 DEF Next

LEMMA ScanInvariant == Spec => []ScanInv
BY ScanInitially, ScanPreserved, PTL DEF Spec

-----------------------------------------------------------------------------
(* The theorems                                                            *)

(* The scan ends with the nearest hint on each side, for every width of the
   hints and every order of the references. *)
THEOREM NearestFoundAlways == Spec => []NearestFound
<1>1. ASSUME ScanInv PROVE NearestFound
  <2>1. SUFFICES ASSUME phase # "nearest", enabled
        PROVE  /\ fwd = {oh \in Past : \A p \in Past : Ahead(p) <= Ahead(oh)}
               /\ bwd = {oh \in Future : \A p \in Future : Ahead(oh) <= Ahead(p)}
    BY DEF NearestFound
  <2>2. NearestPast(fwd, BoundHints) /\ NearestFuture(bwd, BoundHints)
    BY <1>1, <2>1 DEF ScanInv, NearestKnown
  <2>3. /\ BoundHints \in SUBSET Hints
        /\ \A a, b \in BoundHints : Ahead(a) \in Int /\ (Ahead(a) = Ahead(b) => a = b)
    BY <1>1, SeenGrows, AheadIsBrought, DistFromAhead DEF ScanInv, TypeOK
  <2>4. fwd = {oh \in Past : \A p \in Past : Ahead(p) <= Ahead(oh)}
    BY <2>2, <2>3 DEF NearestPast, Past
  <2>5. bwd = {oh \in Future : \A p \in Future : Ahead(oh) <= Ahead(p)}
    BY <2>2, <2>3 DEF NearestFuture, Future
  <2>6. QED
    BY <2>4, <2>5
<1>2. QED
  BY <1>1, ScanInvariant, PTL

(* Two hints of the past, or one: the question of the second loop. *)
LEMMA PastCounted ==
  ASSUME TypeOK, NoneOpposite, NearestPast(fwd, BoundHints), fwd # {}, Future = {}
  PROVE  (\E oh \in BoundHints : BeforeFwd(oh)) <=> Cardinality(Past) >= 2
<1> USE HintAssumption
<1>1. /\ BoundHints \in SUBSET Hints /\ cur \in Hints
      /\ IsFiniteSet(Past) /\ Cardinality(Past) \in Nat
  <2>1. BoundHints \in SUBSET Hints /\ cur \in Hints
    BY SeenGrows DEF TypeOK
  <2>2. IsFiniteSet(Hints)
    BY FS_Interval DEF Hints
  <2>3. Past \in SUBSET Hints
    BY <2>1 DEF Past
  <2>4. QED
    BY <2>1, <2>2, <2>3, FS_Subset, FS_CardinalityType
<1>2. PICK x \in BoundHints : /\ fwd = {x} /\ Ahead(x) < 0
                              /\ \A y \in BoundHints : Ahead(y) < 0 => Ahead(y) <= Ahead(x)
  BY DEF NearestPast
<1>3. ASSUME NEW y \in BoundHints
      PROVE  /\ Ahead(y) \in Int /\ Ahead(y) <= 0
             /\ BeforeFwd(y) <=> Ahead(y) < Ahead(x)
             /\ Ahead(y) = Ahead(x) => y = x
  <2>1. Ahead(y) \in Int /\ (Ahead(y) = Ahead(x) => y = x) /\ Ahead(x) \in Int
    BY <1>1, AheadIsBrought, DistFromAhead
  <2>2. Ahead(y) <= 0
    BY <2>1 DEF Future
  <2>3. RelativeDist(y, x) < 0 <=> Ahead(y) < Ahead(x)
    BY <1>1, <1>2, <2>2, DistSigns DEF NoneOpposite
  <2>4. QED
    BY <1>2, <2>1, <2>2, <2>3 DEF BeforeFwd
<1>4. x \in Past
  BY <1>2 DEF Past
<1>5. ASSUME NEW y \in BoundHints, BeforeFwd(y) PROVE Cardinality(Past) >= 2
  <2>1. y \in Past /\ y # x
    BY <1>2, <1>3, <1>5 DEF Past
  <2>2. {x} \cup {y} \in SUBSET Past
    BY <1>4, <2>1
  <2>3. Cardinality({x} \cup {y}) = 2
    <3>1. IsFiniteSet({x}) /\ Cardinality({x}) = 1 /\ y \notin {x}
      BY <2>1, FS_Singleton
    <3>2. Cardinality({x} \cup {y}) = IF y \in {x} THEN Cardinality({x}) ELSE Cardinality({x}) + 1
      BY <3>1, FS_AddElement
    <3>3. QED
      BY <3>1, <3>2
  <2>4. Cardinality({x} \cup {y}) <= Cardinality(Past)
    BY <1>1, <2>2, FS_Subset
  <2>5. QED
    BY <1>1, <2>3, <2>4
<1>6. ASSUME \A y \in BoundHints : ~BeforeFwd(y) PROVE ~(Cardinality(Past) >= 2)
  <2>1. \A y \in Past : y = x
    BY <1>2, <1>3, <1>6 DEF Past
  <2>2. Past = {x}
    BY <1>4, <2>1
  <2>3. QED
    BY <2>2, FS_Singleton
<1>7. QED
  BY <1>5, <1>6

(* Unless a reference is exactly half the range away, skip mode is allowed when,
   and only when, the references lie on both sides of the frame or two of them
   before it: for every width of the hints, every number of references and every
   order of the slots. *)
THEOREM SkipModeCorrect == Spec => []SkipModeAsDefined
<1>1. ASSUME ScanInv PROVE SkipModeAsDefined
  <2>1. SUFFICES ASSUME Answered, NoneOpposite PROVE phase = "allowed" <=> SkipModeRefs
    BY DEF SkipModeAsDefined
  <2>2. CASE ~enabled
    BY <1>1, <2>2 DEF ScanInv, SkipModeRefs
  <2>3. CASE enabled
    <3>1. /\ NearestPast(fwd, BoundHints) /\ NearestFuture(bwd, BoundHints) /\ SecondKnown
      BY <1>1, <2>1, <2>3 DEF ScanInv, NearestKnown, Answered
    <3>2. /\ fwd = {} <=> Past = {}
          /\ bwd = {} <=> Future = {}
      BY <3>1 DEF NearestPast, NearestFuture, Past, Future
    <3>3. fwd # {} /\ bwd = {} =>
            ((\E oh \in BoundHints : BeforeFwd(oh)) <=> Cardinality(Past) >= 2)
      BY <1>1, <2>1, <3>1, <3>2, PastCounted DEF ScanInv
    <3>4. phase = "allowed" <=>
            fwd # {} /\ (bwd # {} \/ \E oh \in BoundHints : BeforeFwd(oh))
      BY <2>1, <3>1 DEF Answered, SecondKnown
    <3>5. QED
      BY <2>3, <3>2, <3>3, <3>4 DEF SkipModeRefs
  <2>4. QED
    BY <1>1, <2>2, <2>3 DEF ScanInv, TypeOK
<1>2. QED
  BY <1>1, ScanInvariant, PTL
=============================================================================
