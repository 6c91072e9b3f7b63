----------------------------- MODULE OrderHints -----------------------------
(***************************************************************************)
(* Order hints of the decoder, frame.rs: the wrapped distance between two  *)
(* frames in display order, and the scan over the bound references that    *)
(* decides whether a frame may use skip mode (skip_mode_refs_allowed).     *)
(*                                                                         *)
(* An optional value is a set of at most one element.                      *)
(***************************************************************************)
EXTENDS Integers, Sequences, FiniteSets

CONSTANTS
  Half,      (* 2^(bits - 1): half the range of an order hint.              *)
  NumRefs    (* References bound (7 in the code).                           *)

ASSUME HintAssumption == Half \in Nat \ {0} /\ NumRefs \in Nat

Hints == 0 .. 2 * Half - 1
Refs == 1 .. NumRefs

(* get_relative_dist: (diff & (m - 1)) - (diff & m) for m a power of two. *)
RelativeDist(a, b) ==
  LET diff == a - b IN (diff % Half) - Half * ((diff \div Half) % 2)

VARIABLES
  enabled,   (* The sequence has order hints.                               *)
  cur,       (* The order hint of the current frame.                        *)
  refs,      (* The order hints of the bound references: {} when unbound.   *)
  fwd, bwd,  (* The nearest hints before and after the current frame.       *)
  second,    (* The nearest hint before fwd.                                *)
  i,         (* The reference the scan is at.                               *)
  phase      (* "nearest", "second", "allowed" or "refused".                *)

vars == <<enabled, cur, refs, fwd, bwd, second, i, phase>>

Optional(S) == {{}} \cup {{x} : x \in S}

Init ==
  /\ enabled \in BOOLEAN
  /\ cur \in Hints
  /\ refs \in [Refs -> Optional(Hints)]
  /\ fwd = {} /\ bwd = {} /\ second = {}
  /\ i = 1
  /\ phase = IF enabled THEN "nearest" ELSE "refused"

(* Mutant: the last hint seen is kept, not the nearest. *)
NearerBeforeLatest(oh, best) == TRUE
NearerBefore(oh, best) == \A b \in best : RelativeDist(oh, b) > 0
NearerAfter(oh, best) == \A b \in best : RelativeDist(oh, b) < 0

(* One turn of the first loop. *)
ScanNearest ==
  /\ phase = "nearest" /\ i <= NumRefs
  /\ fwd' = IF \E oh \in refs[i] : RelativeDist(oh, cur) < 0 /\ NearerBefore(oh, fwd)
              THEN refs[i] ELSE fwd
  /\ bwd' = IF \E oh \in refs[i] : RelativeDist(oh, cur) > 0 /\ NearerAfter(oh, bwd)
              THEN refs[i] ELSE bwd
  /\ i' = i + 1
  /\ UNCHANGED <<enabled, cur, refs, second, phase>>

(* Mutant: one side is enough. *)
DecidedOnOneSide == IF fwd # {} THEN "allowed" ELSE "refused"
(* Both sides, or only the past, or not even that. *)
Decided ==
  IF fwd = {} THEN "refused" ELSE IF bwd # {} THEN "allowed" ELSE "second"

DecideSides ==
  /\ phase = "nearest" /\ i > NumRefs
  /\ phase' = Decided
  /\ i' = 1
  /\ UNCHANGED <<enabled, cur, refs, fwd, bwd, second>>

(* One turn of the second loop: the nearest hint before fwd. *)
ScanSecond ==
  /\ phase = "second" /\ i <= NumRefs
  /\ second' = IF \E oh \in refs[i] : /\ \A f \in fwd : RelativeDist(oh, f) < 0
                                      /\ NearerBefore(oh, second)
                 THEN refs[i] ELSE second
  /\ i' = i + 1
  /\ UNCHANGED <<enabled, cur, refs, fwd, bwd, phase>>

DecideSecond ==
  /\ phase = "second" /\ i > NumRefs
  /\ phase' = IF second # {} THEN "allowed" ELSE "refused"
  /\ UNCHANGED <<enabled, cur, refs, fwd, bwd, second, i>>

Next == ScanNearest \/ DecideSides \/ ScanSecond \/ DecideSecond

Spec == Init /\ [][Next]_vars

-----------------------------------------------------------------------------

TypeOK ==
  /\ enabled \in BOOLEAN
  /\ cur \in Hints
  /\ refs \in [Refs -> Optional(Hints)]
  /\ fwd \in Optional(Hints) /\ bwd \in Optional(Hints) /\ second \in Optional(Hints)
  /\ i \in 1 .. NumRefs + 1
  /\ phase \in {"nearest", "second", "allowed", "refused"}

BoundHints == UNION {refs[r] : r \in Refs}

(* How far a hint is ahead of the current frame, the short way round. *)
Ahead(oh) ==
  LET d == (oh - cur + 2 * Half) % (2 * Half)
  IN IF d < Half THEN d ELSE d - 2 * Half

Past == {oh \in BoundHints : Ahead(oh) < 0}
Future == {oh \in BoundHints : Ahead(oh) > 0}

(* What skip mode needs, whatever the order of the references. *)
SkipModeRefs ==
  enabled /\ Past # {} /\ (Future # {} \/ Cardinality(Past) >= 2)

Answered == phase \in {"allowed", "refused"}

(* No reference is exactly half the range away: such a hint is before the
   current frame, and the current frame is before it. *)
NoneOpposite == \A oh \in BoundHints : Ahead(oh) # -Half

(* The scan, which compares wrapped distances between references as it goes,
   answers what the definition over all of them says. *)
SkipModeAsDefined ==
  Answered /\ NoneOpposite => (phase = "allowed" <=> SkipModeRefs)

(* Once both sides are known the pair is the nearest on each, hints that wrap
   included: the order the references are bound in does not matter. *)
NearestFound ==
  phase # "nearest" /\ enabled =>
    /\ fwd = {oh \in Past : \A p \in Past : Ahead(p) <= Ahead(oh)}
    /\ bwd = {oh \in Future : \A p \in Future : Ahead(oh) <= Ahead(p)}

=============================================================================
