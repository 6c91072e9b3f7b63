---------------------------- MODULE Restoration ----------------------------
(***************************************************************************)
(* Loop restoration: the restoration units the tiles code, superblock by   *)
(* superblock, and the frame walk of aom-dsp that filters a plane unit by  *)
(* unit, stripe by stripe.  Around a stripe the working copy of the plane  *)
(* is overwritten with context rows saved from before CDEF, and put back   *)
(* once the stripe is filtered.                                            *)
(*                                                                         *)
(* Rows are pixels.  Along a row the model keeps two cells to a unit, its  *)
(* left and its right part, and one beyond either edge of the plane: the   *)
(* context of a unit reaches one cell to either side.  A sample stands for *)
(* the plane it comes from, its row and its cell.                          *)
(***************************************************************************)
EXTENDS FrameGeometry, FiniteSets

CONSTANTS
  UnitOffset,  (* RESTORATION_UNIT_OFFSET (8).                              *)
  MibSize      (* Superblock size in mode-info cells (16 or 32).            *)

ASSUME RestorationAssumption ==
  /\ UnitOffset \in Nat /\ UnitOffset % 2 = 0
  /\ UnitOffset >= 2 /\ BlockPx > UnitOffset + 4
  /\ MibSize \in Nat /\ MibSize % 2 = 0 /\ MibSize > 0

VARIABLES
  sbRow, sbCol, (* The superblock being parsed, in mode-info cells.         *)
  read,         (* By plane and unit: how often its parameters were read.   *)
  lrPc,         (* "off", "plane", "row", "setup", "filter", "done",        *)
                (* "stopped".                                               *)
  lrPlane,      (* The plane.                                               *)
  y0, rowNumber,(* The row of units: its first row before the offset, and   *)
                (* its number.                                              *)
  x0,           (* The unit's column.                                       *)
  stripe,       (* First row of the stripe in the unit.                     *)
  above, below, (* By stripe: the two rows saved for either side of it.     *)
  work,         (* The padded working copy, by row and cell.                *)
  kept,         (* The rows of the working copy the stripe's context hides. *)
  dst           (* By row and unit column: the units that wrote the row.    *)

parseVars == <<sbRow, sbCol, read>>
planeVars == <<lrPlane, y0, rowNumber, x0, stripe, above, below, work, kept, dst>>
lrVars == <<lrPc, planeVars>>

UnitSize(p) == frame.usize[p + 1]
Restored == {p \in Planes : frame.lr[p + 1]}
CountUnits(size, extent) ==
  IF extent + size \div 2 < size THEN 1 ELSE (extent + size \div 2) \div size
HorzUnits(p) == CountUnits(UnitSize(p), PlaneWidth(p))
VertUnits(p) == CountUnits(UnitSize(p), PlaneHeight(p))
UnitsOf(p) == 0 .. HorzUnits(p) * VertUnits(p) - 1

-----------------------------------------------------------------------------
(* Mutant: the coded grid is taken for the upscaled one. *)
CornersXUnscaled(p, col) ==
  LET corner(mi) == (mi * (4 \div (1 + SsX(p))) + UnitSize(p) - 1) \div UnitSize(p)
      last == corner(col + MibSize)
  IN corner(col) .. (IF last < HorzUnits(p) THEN last ELSE HorzUnits(p)) - 1
(* The units whose corner lies in a superblock: the superblock is on the   *)
(* coded grid, the units on the upscaled one.                              *)
CornersX(p, col) ==
  LET num == (4 \div (1 + SsX(p))) * (IF SuperresScaled THEN frame.denom ELSE 1)
      den == UnitSize(p) * (IF SuperresScaled THEN 8 ELSE 1)
      corner(mi) == (mi * num + den - 1) \div den
      last == corner(col + MibSize)
  IN corner(col) .. (IF last < HorzUnits(p) THEN last ELSE HorzUnits(p)) - 1

CornersY(p, row) ==
  LET corner(mi) == (mi * (4 \div (1 + SsY(p))) + UnitSize(p) - 1) \div UnitSize(p)
      last == corner(row + MibSize)
  IN corner(row) .. (IF last < VertUnits(p) THEN last ELSE VertUnits(p)) - 1

UnitsRead(p) ==
  {rrow * HorzUnits(p) + rcol : rrow \in CornersY(p, sbRow), rcol \in CornersX(p, sbCol)}

ParseInit ==
  /\ sbRow = 0 /\ sbCol = 0
  /\ read = [p \in Restored |-> [u \in UnitsOf(p) |-> 0]]

Parsed == sbRow >= MiRows

(* Every superblock reads its units before its first partition. *)
ParseSuperblock ==
  /\ ~Parsed
  /\ read' = [p \in Restored |->
                [u \in UnitsOf(p) |-> read[p][u] + IF u \in UnitsRead(p) THEN 1 ELSE 0]]
  /\ IF sbCol + MibSize < MiCols
     THEN sbCol' = sbCol + MibSize /\ sbRow' = sbRow
     ELSE sbCol' = 0 /\ sbRow' = sbRow + MibSize

-----------------------------------------------------------------------------
Height == PlaneHeight(lrPlane)
Cells == 0 .. 2 * HorzUnits(lrPlane) - 1
Padded == -1 .. 2 * HorzUnits(lrPlane)
Border == 3                                (* RESTORATION_BORDER *)
StripeHeight == BlockPx \div (1 + SsY(lrPlane))
Voffset == UnitOffset \div (1 + SsY(lrPlane))

ToFrame(c) == IF c < 0 THEN 0 ELSE IF c \in Cells THEN c ELSE c - 1
Clamp(r, h) == IF r < 0 THEN 0 ELSE IF r < h THEN r ELSE h - 1

(* A row of a plane, its outermost samples repeated beyond its edges. *)
RowOf(source, r) == [c \in Padded |-> <<source, r, ToFrame(c)>>]

(* save_boundary_lines: stripes begin UnitOffset rows early.  The rows     *)
(* across an internal boundary come from the plane before CDEF, two or     *)
(* the one there is twice; those at the frame's edges from the plane now.  *)
StripeCount == 1 + (PlaneHeight(lrPlane) - 1 + Voffset) \div StripeHeight
(* The slots allocated are counted on the luma plane, for every plane. *)
NumStripes == (UnitOffset + 4 * MiRows + BlockPx - 1) \div BlockPx
FirstRow(s) == IF s = 0 THEN 0 ELSE s * StripeHeight - Voffset
EndRow(s) == IF FirstRow(s + 1) < Height THEN FirstRow(s + 1) ELSE Height

(* Mutant: the context is saved after CDEF. *)
SavedPairLate(row) ==
  <<RowOf("current", row), RowOf("current", Clamp(row + 1, Height))>>

SavedPair(row) ==
  <<RowOf("deblocked", row), RowOf("deblocked", Clamp(row + 1, Height))>>

SaveAbove(s) ==
  IF s > 0 THEN SavedPair(FirstRow(s) - 2)
           ELSE <<RowOf("current", 0), RowOf("current", 0)>>

SaveBelow(s) ==
  IF EndRow(s) < Height THEN SavedPair(EndRow(s))
  ELSE <<RowOf("current", Height - 1), RowOf("current", Height - 1)>>

Unsaved == [i \in 1 .. 2 |-> [c \in Padded |-> <<"zeroed", 0, 0>>]]

RestorationIdle ==
  /\ lrPlane = 0 /\ y0 = 0 /\ rowNumber = 0 /\ x0 = 0 /\ stripe = 0
  /\ above = <<>> /\ below = <<>> /\ work = <<>> /\ kept = <<>> /\ dst = <<>>

RestorationDrop ==
  /\ y0' = 0 /\ rowNumber' = 0 /\ x0' = 0 /\ stripe' = 0
  /\ above' = <<>> /\ below' = <<>> /\ work' = <<>> /\ kept' = <<>> /\ dst' = <<>>

RestorationStart ==
  /\ lrPc = "off"
  /\ lrPc' = "plane"
  /\ UNCHANGED planeVars

SkipRestoredPlane ==
  /\ lrPc = "plane" /\ lrPlane \in Planes /\ lrPlane \notin Restored
  /\ lrPlane' = lrPlane + 1
  /\ UNCHANGED <<lrPc, y0, rowNumber, x0, stripe, above, below, work, kept, dst>>

RestorationReturn ==
  /\ lrPc = "plane" /\ lrPlane \notin Planes
  /\ lrPc' = "done"
  /\ lrPlane' = 0 /\ RestorationDrop

(* The token is polled at each plane and at each row of units. *)
RestorationCancel ==
  /\ \/ lrPc = "plane" /\ lrPlane \in Restored
     \/ lrPc = "row" /\ y0 < Height
  /\ lrPc' = "stopped"
  /\ lrPlane' = 0 /\ RestorationDrop

StagePlane(optimized) ==
  /\ lrPc = "plane" /\ lrPlane \in Restored
  /\ lrPc' = "row"
  /\ above' = [s \in 0 .. StripeCount - 1 |-> IF optimized THEN Unsaved ELSE SaveAbove(s)]
  /\ below' = [s \in 0 .. StripeCount - 1 |-> IF optimized THEN Unsaved ELSE SaveBelow(s)]
  /\ work' = [r \in -Border .. Height - 1 + Border |-> RowOf("current", Clamp(r, Height))]
  /\ dst' = [r \in 0 .. Height - 1 |-> [j \in 0 .. HorzUnits(lrPlane) - 1 |-> <<>>]]
  /\ y0' = 0 /\ rowNumber' = 0 /\ x0' = 0 /\ stripe' = 0
  /\ UNCHANGED <<lrPlane, kept>>

-----------------------------------------------------------------------------
(* The last unit takes what is left below one and a half units. *)
UnitExtent(left) ==
  IF left < (UnitSize(lrPlane) * 3) \div 2 THEN left ELSE UnitSize(lrPlane)

UnitHeight == UnitExtent(Height - y0)
VStart == IF y0 < Voffset THEN 0 ELSE y0 - Voffset
(* Mutant: a row of units ends where its blocks do. *)
VEndUnshifted == y0 + UnitHeight
VEnd == y0 + UnitHeight - IF y0 + UnitHeight < Height THEN Voffset ELSE 0
UnitColumn == x0 \div UnitSize(lrPlane)
UnitIdx == rowNumber * HorzUnits(lrPlane) + UnitColumn
NextX == x0 + UnitExtent(PlaneWidth(lrPlane) - x0)

BeginUnitRow ==
  /\ lrPc = "row" /\ y0 < Height
  /\ lrPc' = "setup"
  /\ x0' = 0 /\ stripe' = VStart
  /\ UNCHANGED <<lrPlane, y0, rowNumber, above, below, work, kept, dst>>

FinishPlane ==
  /\ lrPc = "row" /\ y0 >= Height
  /\ lrPc' = "plane" /\ lrPlane' = lrPlane + 1
  /\ RestorationDrop

Written(rows) ==
  [r \in DOMAIN dst |->
     IF r \in rows THEN [dst[r] EXCEPT ![UnitColumn] = Append(@, UnitIdx)] ELSE dst[r]]

(* On to the next unit of the row, or to the next row of units. *)
NextUnit ==
  IF NextX < PlaneWidth(lrPlane)
  THEN /\ x0' = NextX /\ stripe' = VStart /\ lrPc' = "setup"
       /\ UNCHANGED <<y0, rowNumber>>
  ELSE /\ y0' = y0 + UnitHeight /\ rowNumber' = rowNumber + 1
       /\ lrPc' = "row" /\ x0' = 0 /\ stripe' = 0

(* A unit of type NONE is copied, in one piece. *)
CopyUnit ==
  /\ lrPc = "setup" /\ stripe = VStart
  /\ dst' = Written(VStart .. VEnd - 1)
  /\ NextUnit
  /\ UNCHANGED <<lrPlane, above, below, work, kept>>

FirstStripe == stripe = 0
NominalHeight(s) == StripeHeight - IF s = 0 THEN Voffset ELSE 0
FrameStripe == (stripe + Voffset) \div StripeHeight
StripeRows ==
  IF NominalHeight(FrameStripe) < VEnd - stripe THEN NominalHeight(FrameStripe)
                                                ELSE VEnd - stripe
StripeEnd == stripe + StripeRows
CopyAbove == ~FirstStripe
CopyBelow ==
  stripe + StripeHeight - (IF FirstStripe THEN Voffset ELSE 0) < Height

(* The unit's columns and the context columns to either side of them. *)
Line == 2 * UnitColumn - 1 .. 2 * UnitColumn + 2

(* The rows a stripe's context replaces, and what replaces each of them:   *)
(* the two saved rows as 0, 0, 1 above and 0, 1, 1 below, or, optimized,   *)
(* the second row out in the place of the third.                           *)
ContextRows(optimized) ==
  IF optimized
  THEN Over([r \in IF CopyAbove THEN {stripe - 3} ELSE {} |-> work[stripe - 2]],
            [r \in IF CopyBelow THEN {StripeEnd + 2} ELSE {} |-> work[StripeEnd + 1]])
  ELSE Over([r \in IF CopyAbove THEN stripe - 3 .. stripe - 1 ELSE {} |->
               above[FrameStripe][IF r = stripe - 1 THEN 2 ELSE 1]],
            [r \in IF CopyBelow THEN StripeEnd .. StripeEnd + 2 ELSE {} |->
               below[FrameStripe][IF r = StripeEnd THEN 1 ELSE 2]])

Overlay(rows) ==
  [r \in DOMAIN work |->
     IF r \in DOMAIN rows THEN Over([c \in Line |-> rows[r][c]], work[r]) ELSE work[r]]

SetupStripe(optimized) ==
  /\ lrPc = "setup"
  /\ work' = Overlay(ContextRows(optimized))
  /\ kept' = [r \in DOMAIN ContextRows(optimized) |-> work[r]]
  /\ lrPc' = "filter"
  /\ UNCHANGED <<lrPlane, y0, rowNumber, x0, stripe, above, below, dst>>

(* Mutant: the rows are not put back. *)
FilterStripeKeepsContext ==
  /\ lrPc = "filter"
  /\ dst' = Written(stripe .. StripeEnd - 1)
  /\ kept' = <<>>
  /\ IF StripeEnd < VEnd
     THEN stripe' = StripeEnd /\ lrPc' = "setup" /\ UNCHANGED <<x0, y0, rowNumber>>
     ELSE NextUnit
  /\ UNCHANGED <<lrPlane, above, below, work>>

(* The stripe is filtered and the rows its context hid are put back. *)
FilterStripe ==
  /\ lrPc = "filter"
  /\ dst' = Written(stripe .. StripeEnd - 1)
  /\ work' = Overlay(kept)
  /\ kept' = <<>>
  /\ IF StripeEnd < VEnd
     THEN stripe' = StripeEnd /\ lrPc' = "setup" /\ UNCHANGED <<x0, y0, rowNumber>>
     ELSE NextUnit
  /\ UNCHANGED <<lrPlane, above, below>>

RestorationStep(optimized) ==
  \/ SkipRestoredPlane \/ StagePlane(optimized) \/ BeginUnitRow \/ FinishPlane
  \/ CopyUnit \/ SetupStripe(optimized) \/ FilterStripe

-----------------------------------------------------------------------------
(* The parameters of every restoration unit are read exactly once, by the  *)
(* superblock its corner lies in, whatever the unit size, the subsampling  *)
(* and the horizontal scaling between the coded and the upscaled grid.     *)
UnitsReadOnce ==
  Parsed => \A p \in Restored : \A u \in UnitsOf(p) : read[p][u] = 1

(* No plane has more stripes than slots.                                    *)
SlotsSuffice == lrPc \in {"setup", "filter"} => FrameStripe < NumStripes

(* While a stripe is filtered, the rows above and below it show what the   *)
(* format says: across a stripe boundary two rows of the frame before CDEF *)
(* (of the frame itself when neither CDEF nor superres ran), the outer one *)
(* repeated; across the frame's edge its first or last row; and its own    *)
(* rows are those of the frame, whatever earlier stripes put around them.  *)
StripeSeesItsContext(optimized) ==
  lrPc = "filter" =>
    \A r \in stripe - 3 .. StripeEnd + 2, c \in Line :
      LET outside == (r < stripe /\ stripe > 0) \/ (r >= StripeEnd /\ StripeEnd < Height)
          nearest == IF r < stripe - 2 THEN stripe - 2
                     ELSE IF r > StripeEnd + 1 THEN StripeEnd + 1 ELSE r
      IN work[r][c] =
           <<IF outside /\ ~optimized THEN "deblocked" ELSE "current",
             Clamp(IF outside THEN nearest ELSE r, Height), ToFrame(c)>>

(* When a plane is done, every row of every unit column was written once,  *)
(* by the unit the format assigns to it: units begin UnitOffset rows above *)
(* the multiples of their size, and the last one also takes what is left.  *)
RowsFilteredOnce ==
  lrPc = "row" /\ y0 >= Height =>
    \A r \in 0 .. Height - 1, j \in 0 .. HorzUnits(lrPlane) - 1 :
      LET urow == (r + Voffset) \div UnitSize(lrPlane)
          last == VertUnits(lrPlane) - 1
      IN dst[r][j] = <<(IF urow < last THEN urow ELSE last) * HorzUnits(lrPlane) + j>>
=============================================================================
