--------------------------- MODULE FrameGeometry ---------------------------
(***************************************************************************)
(* What the post filters of aom-decode know of the frame they filter: the  *)
(* header's sizes and gates, and the grids derived from them.  A pixel is  *)
(* four to the mode-info cell and eight to the unit CDEF filters, as in    *)
(* the code; the 64-pixel filter block is a constant, so that small frames *)
(* have several.                                                           *)
(***************************************************************************)
EXTENDS Integers, Sequences

CONSTANTS
  BlockPx,     (* Of a filter block and of a restoration stripe (64).       *)
  Frames       (* The frames to filter: records                             *)
               (*   w, h     crop size in the upscaled domain               *)
               (*   denom    SuperresDenom, 8 when unscaled                 *)
               (*   ssx, ssy chroma subsampling                             *)
               (*   mono     a luma plane only                              *)
               (*   hbd      samples of more than 8 bits (ReconPlane)       *)
               (*   levels   by plane: the deblocking level is not zero     *)
               (*   cdef     the header codes a CDEF strength               *)
               (*   lr       by plane: frame_restoration_type is not NONE   *)
               (*   usize    by plane: restoration unit size                *)
               (*   tiles    the tile columns' first mode-info columns      *)

(* Sizes round up to whole units of two mode-info cells. *)
MiDim(px) == 2 * ((px + 7) \div 8)

CodedWidth(f) ==
  IF f.denom > 8 THEN (f.w * 8 + f.denom \div 2) \div f.denom ELSE f.w

(* Tile columns begin on superblocks, the first at 0. *)
TilesOK(f) ==
  /\ f.tiles \in Seq(Nat) /\ f.tiles # <<>> /\ f.tiles[1] = 0
  /\ \A j \in DOMAIN f.tiles :
       /\ f.tiles[j] % 2 = 0 /\ f.tiles[j] < MiDim(CodedWidth(f))
       /\ j + 1 \in DOMAIN f.tiles => f.tiles[j] < f.tiles[j + 1]

(* A restoration unit is made of whole stripes, at most a filter block high. *)
UnitsOK(f) ==
  \A p \in 1 .. 3 :
    f.lr[p] => /\ f.usize[p] \in Nat \ {0}
               /\ f.usize[p] % (BlockPx \div (IF p > 1 THEN 1 + f.ssy ELSE 1)) = 0

ASSUME GeometryAssumption ==
  /\ BlockPx \in Nat /\ BlockPx % 8 = 0 /\ BlockPx > 0
  /\ \A f \in Frames :
       /\ f.w \in Nat \ {0} /\ f.h \in Nat \ {0} /\ f.denom \in 8 .. 16
       /\ f.ssx \in {0, 1} /\ f.ssy \in {0, 1}
       /\ {f.mono, f.hbd, f.cdef} \subseteq BOOLEAN
       /\ {f.levels, f.lr} \subseteq [1 .. 3 -> BOOLEAN]
       /\ UnitsOK(f) /\ TilesOK(f)

VARIABLE frame

Planes == IF frame.mono THEN {0} ELSE 0 .. 2

SsX(p) == IF p > 0 THEN frame.ssx ELSE 0
SsY(p) == IF p > 0 THEN frame.ssy ELSE 0

SuperresScaled == frame.denom > 8

CodedFrameWidth == CodedWidth(frame)

MiRows == MiDim(frame.h)
MiCols == MiDim(CodedFrameWidth)

(* A plane's crop size in the upscaled domain. *)
PlaneWidth(p)  == (frame.w + SsX(p)) \div (1 + SsX(p))
PlaneHeight(p) == (frame.h + SsY(p)) \div (1 + SsY(p))

(* A buffer, function f, over what was there before, function g. *)
Over(f, g) ==
  [x \in DOMAIN f \union DOMAIN g |-> IF x \in DOMAIN f THEN f[x] ELSE g[x]]
=============================================================================
