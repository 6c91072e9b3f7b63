---------------------------- MODULE TargetSearch ----------------------------
(***************************************************************************)
(* search_target_qindex of the aom-target crate: a bracketed search for    *)
(* the quantizer index whose encode scores closest to a quality target.    *)
(*                                                                         *)
(* The trial closure (encode, decode, judge) is the function `curve`: the  *)
(* encoder is deterministic, so one quantizer index has one score.  Scores *)
(* are integers: the search only compares their distances to the target.   *)
(* A trial may also return an error.                                       *)
(***************************************************************************)
EXTENDS Integers, FiniteSets

CONSTANTS
  MaxQ,       (* Largest quantizer index (255 in the code).                *)
  Curves,     (* The score curves considered, functions from Q to Int.     *)
  Target,     (* The score searched for.                                   *)
  Tolerances, (* The half-widths of the acceptance band; 0 is census mode. *)
  Budgets     (* The values of max_encodes.                                *)

Q == 0 .. MaxQ

ASSUME TargetAssumption ==
  /\ MaxQ \in Nat
  /\ Curves \subseteq [Q -> Int]
  /\ Target \in Int
  /\ Tolerances \subseteq Nat
  /\ Budgets \subseteq Nat

VARIABLES
  curve,      (* The trial closure.                                        *)
  opt,        (* TargetOptions, with the start index already resolved.     *)
  lo, hi,     (* The bracket.                                              *)
  qi,         (* The next quantizer index to try.                          *)
  used,       (* Trials spent; best is None exactly while used = 0.        *)
  best,       (* The best trial seen.                                      *)
  status,     (* "searching", "ok" (returned a result) or "err".           *)
  tried       (* History: the quantizer indices tried so far.              *)

vars == <<curve, opt, lo, hi, qi, used, best, status, tried>>

SmallerOf(a, b) == IF a <= b THEN a ELSE b
LargerOf(a, b)  == IF a >= b THEN a ELSE b

(* Mutant: a linear scan from the low end. *)
MidpointLinear(l, h) == l
Midpoint(l, h) == l + (h - l) \div 2

Distance(s)     == IF s >= Target THEN s - Target ELSE Target - s
InBand(s)       == Distance(s) <= opt.tolerance

(* max_encodes.max(1): a budget of zero still runs one trial. *)
Budget == LargerOf(opt.max_encodes, 1)

(***************************************************************************)
(* The bounds may be given in either order; the seed, or the midpoint when *)
(* there is none, is clamped into them.                                    *)
(***************************************************************************)
Init ==
  /\ curve \in Curves
  /\ \E a, b \in Q, t \in Tolerances, k \in Budgets :
       /\ opt = [min_qindex |-> a, max_qindex |-> b,
                 tolerance |-> t, max_encodes |-> k]
       /\ lo = SmallerOf(a, b)
       /\ hi = LargerOf(a, b)
  /\ \/ qi = Midpoint(lo, hi)
     \/ \E seed \in Q : qi = SmallerOf(LargerOf(seed, lo), hi)
  /\ used = 0
  /\ best = [qindex |-> qi, score |-> 0, converged |-> FALSE]
  /\ status = "searching"
  /\ tried = {}

(* Mutant: the edge of the band does not count. *)
CandidateStrictBand ==
  [qindex |-> qi, score |-> curve[qi],
   converged |-> Distance(curve[qi]) < opt.tolerance]
Candidate ==
  [qindex |-> qi, score |-> curve[qi], converged |-> InBand(curve[qi])]

(* Mutant: the last trial wins. *)
BetterAlways == TRUE
Better == used = 0 \/ Distance(curve[qi]) < Distance(best.score)

(* Mutant: only trials that improve on the best are charged. *)
SpentOnImprovement == IF Better THEN used + 1 ELSE used
Spent == used + 1

StopInBand == InBand(curve[qi]) /\ opt.tolerance > 0

(* Mutants: one index too many is cut off; the tried index is kept. *)
NarrowedLoSkipsOne == IF curve[qi] < Target THEN lo ELSE SmallerOf(qi + 2, hi)
NarrowedLoKeepsTried == IF curve[qi] < Target THEN lo ELSE qi

(* A score below the target asks for a finer quantizer, else a coarser one. *)
NarrowedLo == IF curve[qi] < Target THEN lo ELSE SmallerOf(qi + 1, hi)
NarrowedHi == IF curve[qi] < Target THEN LargerOf(qi - 1, lo) ELSE hi

(* Mutant: a collapsed bracket ends the search, tried or not. *)
CollapsedAnywhere == lo' >= hi'
CollapsedOnBest == lo' >= hi' /\ best'.qindex = lo'

(***************************************************************************)
(* One turn of the loop: the trial, the best-so-far, and either the break  *)
(* in the band, or the narrowed bracket with its own break once it has     *)
(* collapsed on the best trial.  The loop test follows.                    *)
(***************************************************************************)
Trial ==
  /\ status = "searching"
  /\ used' = Spent
  /\ tried' = tried \cup {qi}
  /\ best' = IF Better THEN Candidate ELSE best
  /\ \/ /\ StopInBand
        /\ status' = "ok"
        /\ UNCHANGED <<lo, hi, qi>>
     \/ /\ ~StopInBand
        /\ lo' = NarrowedLo
        /\ hi' = NarrowedHi
        /\ qi' = IF lo' >= hi' THEN lo' ELSE Midpoint(lo', hi')
        /\ status' = IF CollapsedOnBest \/ used' >= Budget THEN "ok" ELSE "searching"
  /\ UNCHANGED <<curve, opt>>

(* The trial closure failed: the `?` drops everything found so far. *)
TrialFails ==
  /\ status = "searching"
  /\ status' = "err"
  /\ UNCHANGED <<curve, opt, lo, hi, qi, used, best, tried>>

Next == Trial \/ TrialFails

(* The loop runs on the caller's thread: unless a trial fails first, the next
   turn is taken. *)
Spec == Init /\ [][Next]_vars /\ WF_vars(Trial)

-----------------------------------------------------------------------------

TypeOK ==
  /\ curve \in Curves
  /\ opt \in [min_qindex : Q, max_qindex : Q,
              tolerance : Tolerances, max_encodes : Budgets]
  /\ lo \in Q /\ hi \in Q /\ qi \in Q
  /\ lo <= qi /\ qi <= hi
  /\ used \in Nat
  /\ best \in [qindex : Q, score : Int, converged : BOOLEAN]
  /\ status \in {"searching", "ok", "err"}
  /\ tried \in SUBSET Q

(* The search returns a trial it really ran, and none of the trials it ran
   scored closer to the target ("the best trial seen, never an un-encoded
   interpolation"). *)
BestIsClosest ==
  used > 0 =>
    /\ best.qindex \in tried
    /\ best.score = curve[best.qindex]
    /\ \A q \in tried : Distance(best.score) <= Distance(curve[q])

(* `converged` is the doc's "iff some trial landed inside the band", although
   the code only ever looks at the best trial's own flag. *)
ConvergedIffHit ==
  used > 0 => (best.converged <=> \E q \in tried : InBand(curve[q]))

(* The search assumes scores never rise with the quantizer index. *)
NonIncreasing(f) == \A p, q \in Q : p <= q => f[q] <= f[p]

Bounds == SmallerOf(opt.min_qindex, opt.max_qindex)
            .. LargerOf(opt.min_qindex, opt.max_qindex)

Optimal == \A q \in Bounds : Distance(best.score) <= Distance(curve[q])

(* On a monotone curve the bracket never cuts off the answer: every index of
   the caller's bounds that is outside the bracket is matched or beaten by a
   trial that was run, saturating ends included. *)
BracketKeepsBest ==
  NonIncreasing(curve) =>
    \A q \in Bounds \ (lo .. hi) :
      \E t \in tried : Distance(curve[t]) <= Distance(curve[q])

StoppedInBand == opt.tolerance > 0 /\ best.converged

(* Leaving the loop before the budget is spent, outside the band, is only done
   when no index of the bounds would have scored closer: the second break, on
   the collapsed bracket, loses nothing. *)
EarlyStopIsOptimal ==
  /\ NonIncreasing(curve)
  /\ status = "ok"
  /\ used < Budget
  /\ ~StoppedInBand
  => Optimal

(* A logarithmic budget is enough: k trials after the seed find the closest
   index of any bounds of at most 2^k indices, whatever the seed. *)
LogBudgetSuffices ==
  /\ NonIncreasing(curve)
  /\ status = "ok"
  /\ 2 ^ (used - 1) >= Cardinality(Bounds)
  /\ ~StoppedInBand
  => Optimal

(* Every search returns, with a result or with the trial's error. *)
SearchReturns == <>(status # "searching")

=============================================================================
