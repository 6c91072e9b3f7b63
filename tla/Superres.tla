------------------------------ MODULE Superres ------------------------------
(***************************************************************************)
(* The horizontal upscale between CDEF and loop restoration, one pass per  *)
(* tile column: the sampling position is kept in fixed point relative to   *)
(* the column, and its fraction is carried from one column to the next.    *)
(***************************************************************************)
EXTENDS FrameGeometry

CONSTANT SubpelBits  (* RS_SCALE_SUBPEL_BITS (14).                          *)

ASSUME SubpelAssumption == SubpelBits \in Nat \ {0}

VARIABLES
  srPc,      (* "off", "column", "done".                                    *)
  srPlane,   (* The plane.                                                  *)
  column,    (* The tile column.                                            *)
  x0qn,      (* The position of its first output sample, in 1/One samples   *)
             (* from its first input sample.                                *)
  written    (* By output sample of the plane: the positions it was         *)
             (* computed from, in 1/One samples of the frame.               *)

upscaleVars == <<srPlane, column, x0qn, written>>
srVars == <<srPc, upscaleVars>>

One == 2 ^ SubpelBits

InLength(p) == (CodedFrameWidth + SsX(p)) \div (1 + SsX(p))
OutLength(p) == PlaneWidth(p)

(* The quotient of two integers the way the hardware truncates it. *)
Quot(a, b) == IF a >= 0 THEN a \div b ELSE -((-a) \div b)

Step(in, out) == (in * One + out \div 2) \div out

FirstX(in, out) ==
  LET err == out * Step(in, out) - in * One
  IN (Quot(-((out - in) * (One \div 2)) + out \div 2, out) + One \div 128
        - Quot(err, 2)) % One

(* The tile columns' first samples, and the mode-info grid's end. *)
TileX(p, j) ==
  (IF j < Len(frame.tiles) THEN frame.tiles[j + 1] ELSE MiCols) * (4 \div (1 + SsX(p)))
TileCols == Len(frame.tiles)

(* Mutant: the last column's end is rounded like the others'. *)
UpscaledXRounded(p, j) == (TileX(p, j) * frame.denom) \div 8
UpscaledX(p, j) ==
  IF j = TileCols THEN OutLength(p) ELSE (TileX(p, j) * frame.denom) \div 8

SuperresIdle ==
  srPlane = 0 /\ column = 0 /\ x0qn = 0 /\ written = <<>>

UpscalePlane(p) ==
  /\ srPlane' = p /\ column' = 0
  /\ x0qn' = FirstX(InLength(p), OutLength(p))
  /\ written' = [x \in 0 .. OutLength(p) - 1 |-> <<>>]

SuperresStart ==
  /\ srPc = "off"
  /\ srPc' = "column"
  /\ UpscalePlane(0)

(* Mutant: every column starts at the frame's first position. *)
SuperresColumnNoCarry ==
  /\ srPc = "column" /\ column < TileCols
  /\ LET p == srPlane
         step == Step(InLength(p), OutLength(p))
         from == UpscaledX(p, column)
         to == UpscaledX(p, column + 1)
     IN written' = [x \in DOMAIN written |->
                      IF x \in from .. to - 1
                      THEN Append(written[x],
                                  TileX(p, column) * One + x0qn + (x - from) * step)
                      ELSE written[x]]
  /\ column' = column + 1
  /\ UNCHANGED <<srPc, srPlane, x0qn>>

SuperresColumn ==
  /\ srPc = "column" /\ column < TileCols
  /\ LET p == srPlane
         step == Step(InLength(p), OutLength(p))
         from == UpscaledX(p, column)
         to == UpscaledX(p, column + 1)
     IN /\ written' = [x \in DOMAIN written |->
                         IF x \in from .. to - 1
                         THEN Append(written[x],
                                     TileX(p, column) * One + x0qn + (x - from) * step)
                         ELSE written[x]]
        /\ x0qn' = x0qn + (to - from) * step
                     - (TileX(p, column + 1) - TileX(p, column)) * One
  /\ column' = column + 1
  /\ UNCHANGED <<srPc, srPlane>>

SuperresNext ==
  /\ srPc = "column" /\ column = TileCols
  /\ IF srPlane + 1 \in Planes
     THEN UpscalePlane(srPlane + 1) /\ srPc' = srPc
     ELSE /\ srPc' = "done"
          /\ srPlane' = 0 /\ column' = 0 /\ x0qn' = 0 /\ written' = <<>>

-----------------------------------------------------------------------------
(* The tile columns leave no trace in where the plane is sampled: every    *)
(* output sample is taken once, at the position it would be taken at with  *)
(* a single tile column.  The samples themselves are not modelled.         *)
TileColumnsInvisible ==
  srPc = "column" /\ column = TileCols =>
    LET in == InLength(srPlane)
        out == OutLength(srPlane)
    IN \A x \in 0 .. out - 1 :
         written[x] = <<FirstX(in, out) + x * Step(in, out)>>
=============================================================================
