--------------------------- MODULE MCTargetSearch ---------------------------
(* Five quantizer indices, every curve of two score levels (monotone or
   not), plus every non-increasing curve of five levels. *)
EXTENDS TargetSearch

MCMaxQ == 4
MCTarget == 10

MCCurves ==
  [0 .. MCMaxQ -> {8, 11}] \cup
  {f \in [0 .. MCMaxQ -> 8 .. 12] : \A q \in 1 .. MCMaxQ : f[q] <= f[q - 1]}

=============================================================================
