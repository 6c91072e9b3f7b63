--------------------------------- MODULE Cdf ---------------------------------
(***************************************************************************)
(* The adaptive symbol contexts, entropy/cdf.rs: a context holds the       *)
(* inverse cumulative frequencies of n symbols, ending in 0, and counts    *)
(* the symbols it has seen; every symbol moves it towards that symbol.     *)
(* Both ends of the range coder divide their range by a context.           *)
(***************************************************************************)
EXTENDS Integers

CONSTANTS
  Top,       (* CDF_PROB_TOP: 2^15 in the code.                             *)
  BaseRate,  (* The first shift of an adaptation: 4 in the code.            *)
  RBits,     (* Bits of the coder's range: 16.                              *)
  ProbShift, (* EC_PROB_SHIFT: 6.                                           *)
  MinProb    (* EC_MIN_PROB: 4.                                             *)

ASSUME CdfAssumption ==
  /\ Top \in Nat \ {0}
  /\ BaseRate \in Nat \ {0}
  /\ RBits \in Nat /\ ProbShift \in Nat /\ MinProb \in Nat

Half(x, times) == x \div 2 ^ times

Rate(n, count) == BaseRate + Half(count, 4) + (IF n > 3 THEN 1 ELSE 0)

(* Mutant: symbols before the coded one move by too much. *)
GrownPast(c, rate) == c + Half(Top + Half(Top, 1) - c, rate)
Grown(c, rate) == c + Half(Top - c, rate)
Shrunk(c, rate) == c - Half(c, rate)

(* update_cdf: a context is [icdf, n, count]; the last entry stays 0. *)
UpdateCdf(cdf, val) ==
  LET rate == Rate(cdf.n, cdf.count) IN
  [icdf |-> [i \in 0 .. cdf.n - 1 |->
               IF i = cdf.n - 1 THEN cdf.icdf[i]
               ELSE IF i < val THEN Grown(cdf.icdf[i], rate)
               ELSE Shrunk(cdf.icdf[i], rate)],
   n |-> cdf.n,
   count |-> IF cdf.count < 32 THEN cdf.count + 1 ELSE cdf.count]

(* What the coder needs of a context: the frequencies are in order, all below
   Top (the coder takes Top for "no symbol before this one") and end in 0. *)
Legal(cdf) ==
  /\ cdf.icdf[cdf.n - 1] = 0
  /\ \A i \in 0 .. cdf.n - 1 : cdf.icdf[i] \in 0 .. Top - 1
  /\ \A i \in 1 .. cdf.n - 1 : cdf.icdf[i] <= cdf.icdf[i - 1]

-----------------------------------------------------------------------------

(* Mutant: the floor of a probability is forgotten. *)
SplitNoFloor(r, f, above) ==
  Half(Half(r, RBits \div 2) * Half(f, ProbShift), RBits - 1 - RBits \div 2 - ProbShift)
(* Where the range r is split for the inverse frequency f. *)
Split(r, f, above) ==
  Half(Half(r, RBits \div 2) * Half(f, ProbShift), RBits - 1 - RBits \div 2 - ProbShift)
    + MinProb * above

(* A symbol's part of the range r: from Lower up to, not with, Upper. *)
Lower(r, cdf, s) == Split(r, cdf.icdf[s], cdf.n - 1 - s)
Upper(r, cdf, s) == IF s = 0 THEN r ELSE Lower(r, cdf, s - 1)
=============================================================================
