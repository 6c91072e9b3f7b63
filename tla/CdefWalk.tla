------------------------------ MODULE CdefWalk ------------------------------
(***************************************************************************)
(* The in-place CDEF frame walk of aom-dsp.  The filter of a block reads a *)
(* border around it that must still hold the pixels from before CDEF,      *)
(* while the block's neighbours to the left and above were overwritten     *)
(* already: rows are kept in ping-pong line buffers, columns in a column   *)
(* buffer, and per plane a flag says whether the block to the left was     *)
(* filtered.                                                               *)
(*                                                                         *)
(* A sample of the model is an 8x8 unit, filtered whole or not at all, and *)
(* a border is one unit wide; it stands for its row, its column and        *)
(* whether CDEF has overwritten it.                                        *)
(***************************************************************************)
EXTENDS FrameGeometry, FiniteSets

VARIABLES
  cdefPc,    (* "off", "row", "unit", "plane", "filter", "done", "stopped". *)
  fbr, fbc,  (* The filter block.                                           *)
  plane,     (* The plane of the block being prepared or filtered.          *)
  strength,  (* The block's strengths: by plane type, is it nonzero.        *)
  dlist,     (* The block's units that are not skipped.                     *)
  pix,       (* By plane: the units CDEF has overwritten.                   *)
  linebuf,   (* By plane and slot (0, 1: top, 2: bottom): a row.            *)
  colbuf,    (* By plane: the previous block's right column.                *)
  src,       (* The block with its border, as the filter reads it.          *)
  cdefLeft,  (* By plane: the block to the left was filtered.               *)
  dir        (* By unit of the block: the direction found for it.           *)

walkVars == <<fbr, fbc, plane, strength, dlist, pix, linebuf, colbuf, src,
              cdefLeft, dir>>
cdefVars == <<cdefPc, walkVars>>

Fb == BlockPx \div 8                       (* Units along a filter block. *)
UnitRows == MiRows \div 2
UnitCols == MiCols \div 2
Nvfb == (UnitRows + Fb - 1) \div Fb
Nhfb == (UnitCols + Fb - 1) \div Fb

VeryLarge == <<"outside">>                 (* CDEF_VERY_LARGE *)
Zeroed == <<"zeroed">>                     (* A work buffer's first content. *)
Sample(p, r, c) == <<r, c, IF <<r, c>> \in pix[p] THEN "after" ELSE "before">>

Window == (-1 .. Fb) \X (-1 .. Fb)
HSize == IF UnitCols - Fb * fbc < Fb THEN UnitCols - Fb * fbc ELSE Fb
VSize == IF UnitRows - Fb * fbr < Fb THEN UnitRows - Fb * fbr ELSE Fb
LastRow == fbr = Nvfb - 1
LastCol == fbc = Nhfb - 1
Rend == IF LastRow THEN VSize ELSE VSize + 1

NoDir == [unit |-> <<>>, remaps |-> 0]
(* Chroma subsampled along one axis only sees its directions converted. *)
Skewed == frame.ssx # frame.ssy

CdefIdle ==
  /\ fbr = 0 /\ fbc = 0 /\ plane = 0
  /\ strength = <<FALSE, FALSE>> /\ dlist = {}
  /\ pix = [p \in 0 .. 2 |-> {}]
  /\ linebuf = <<>> /\ colbuf = <<>> /\ src = <<>> /\ cdefLeft = <<>> /\ dir = <<>>

(* The walk allocates its buffers; nothing is filtered yet. *)
CdefStart ==
  /\ cdefPc = "off"
  /\ cdefPc' = "row"
  /\ fbr' = 0 /\ fbc' = 0 /\ plane' = 0
  /\ strength' = <<FALSE, FALSE>> /\ dlist' = {}
  /\ pix' = [p \in Planes |-> {}]
  /\ linebuf' = [p \in Planes |-> [s \in 0 .. 2 |-> [c \in 0 .. UnitCols - 1 |-> Zeroed]]]
  /\ colbuf' = [p \in Planes |-> [r \in -1 .. Fb |-> Zeroed]]
  /\ src' = [x \in Window |-> Zeroed]
  /\ cdefLeft' = [p \in Planes |-> TRUE]
  /\ dir' = [x \in (0 .. Fb - 1) \X (0 .. Fb - 1) |-> NoDir]

(* ... and drops them on return: the frame is the caller's again. *)
CdefDrop ==
  /\ fbr' = 0 /\ fbc' = 0 /\ plane' = 0
  /\ strength' = <<FALSE, FALSE>> /\ dlist' = {}
  /\ pix' = [p \in 0 .. 2 |-> {}]
  /\ linebuf' = <<>> /\ colbuf' = <<>> /\ src' = <<>> /\ cdefLeft' = <<>> /\ dir' = <<>>

-----------------------------------------------------------------------------
(* A row of filter blocks begins with a poll of the stop token. *)
CdefCancel ==
  /\ cdefPc = "row" /\ fbr < Nvfb
  /\ cdefPc' = "stopped"
  /\ CdefDrop

(* A row of units, as the line buffers keep it. *)
SavedRow(p, r) == [c \in 0 .. UnitCols - 1 |-> Sample(p, r, c)]

(* Mutant: a single slot for the rows above. *)
SaveLinesOneSlot(p) ==
  IF LastRow THEN linebuf[p]
  ELSE [linebuf[p] EXCEPT ![(fbr + 1) % 2] = SavedRow(p, Fb * (fbr + 1) - 1),
                          ![2] = SavedRow(p, Fb * (fbr + 1))]
SaveLines(p) ==
  IF LastRow THEN linebuf[p]
  ELSE [linebuf[p] EXCEPT ![fbr % 2] = SavedRow(p, Fb * (fbr + 1) - 1),
                          ![2] = SavedRow(p, Fb * (fbr + 1))]

CdefInitRow ==
  /\ cdefPc = "row" /\ fbr < Nvfb
  /\ linebuf' = [p \in Planes |-> SaveLines(p)]
  /\ cdefLeft' = [p \in Planes |-> TRUE]
  /\ dir' = [x \in (0 .. Fb - 1) \X (0 .. Fb - 1) |-> NoDir]
  /\ fbc' = 0
  /\ cdefPc' = "unit"
  /\ UNCHANGED <<fbr, plane, strength, dlist, pix, colbuf, src>>

CdefReturn ==
  /\ cdefPc = "row" /\ fbr = Nvfb
  /\ cdefPc' = "done"
  /\ CdefDrop

NextBlock ==
  IF LastCol THEN cdefPc' = "row" /\ fbr' = fbr + 1 /\ fbc' = fbc
             ELSE cdefPc' = "unit" /\ fbc' = fbc + 1 /\ fbr' = fbr

(* Mutant: a skipped block leaves the flags of the one before. *)
CdefSkipBlockKeepsLeft ==
  /\ cdefPc = "unit"
  /\ NextBlock
  /\ UNCHANGED <<plane, strength, dlist, pix, linebuf, colbuf, src, cdefLeft, dir>>
(* No strength was coded, both are zero, or every unit is skipped. *)
CdefSkipBlock ==
  /\ cdefPc = "unit"
  /\ cdefLeft' = [p \in Planes |-> FALSE]
  /\ NextBlock
  /\ UNCHANGED <<plane, strength, dlist, pix, linebuf, colbuf, src, dir>>

(* The lists of units a block may have: all of them, or its last one. *)
Dlists == {(0 .. VSize - 1) \X (0 .. HSize - 1), {<<VSize - 1, HSize - 1>>}}

CdefSelectBlock ==
  /\ cdefPc = "unit"
  /\ \E st \in [1 .. 2 -> BOOLEAN], dl \in Dlists :
       /\ st[1] \/ st[2]
       /\ frame.mono => ~st[2]
       /\ strength' = st /\ dlist' = dl
  /\ plane' = 0
  /\ cdefPc' = "plane"
  /\ UNCHANGED <<fbr, fbc, pix, linebuf, colbuf, src, cdefLeft, dir>>

(* Mutant: luma without strength does not run either. *)
PlaneRunsIfStrong(p) == IF p = 0 THEN strength[1] ELSE strength[2]
(* Luma always runs, for its directions; chroma without strength does not. *)
PlaneRuns(p) == p = 0 \/ strength[2]

NextPlane(p) ==
  IF p + 1 \in Planes
  THEN plane' = p + 1 /\ cdefPc' = "plane" /\ UNCHANGED <<fbr, fbc>>
  ELSE plane' = 0 /\ NextBlock

CdefSkipPlane ==
  /\ cdefPc = "plane" /\ ~PlaneRuns(plane)
  /\ cdefLeft' = [cdefLeft EXCEPT ![plane] = FALSE]
  /\ NextPlane(plane)
  /\ UNCHANGED <<strength, dlist, pix, linebuf, colbuf, src, dir>>

-----------------------------------------------------------------------------
(* prepare_fb: the block from the plane, with its right column unless the  *)
(* frame ends there, and with its left column only when the block to the   *)
(* left was not filtered.                                                  *)
PlaneColumns(p) == (IF cdefLeft[p] THEN 0 ELSE -1) .. (IF LastCol THEN HSize - 1 ELSE HSize)

Body(p) ==
  [x \in (0 .. VSize - 1) \X PlaneColumns(p) |->
     Sample(p, Fb * fbr + x[1], Fb * fbc + x[2])]

(* The corners of a border row lie in the blocks beside this one. *)
Beside(c) == (c < 0 => fbc > 0) /\ (c >= HSize => ~LastCol)

BorderRow(p, row, slot, inFrame) ==
  [x \in {row} \X (-1 .. HSize) |->
     IF inFrame /\ Beside(x[2]) THEN linebuf[p][slot][Fb * fbc + x[2]] ELSE VeryLarge]

FromLeft(p) ==
  IF cdefLeft[p] THEN [x \in (-1 .. Rend - 1) \X {-1} |-> colbuf[p][x[1]]]
                 ELSE <<>>

Primed(p) ==
  Over(FromLeft(p),
    Over(BorderRow(p, -1, (fbr + 1) % 2, fbr > 0),
      Over(BorderRow(p, VSize, 2, ~LastRow),
        Over(Body(p), src))))

SaveColumn(p) == Over([r \in -1 .. Rend - 1 |-> Primed(p)[<<r, HSize - 1>>]], colbuf[p])

(* Mutant: the left edge is not filled. *)
FrameSidesRightOnly == IF LastCol \/ Fb * (fbc + 1) = UnitCols THEN {HSize} ELSE {}
FrameSides ==
  (IF fbc = 0 THEN {-1} ELSE {})
    \union (IF LastCol \/ Fb * (fbc + 1) = UnitCols THEN {HSize} ELSE {})

CdefPrepare ==
  /\ cdefPc = "plane" /\ PlaneRuns(plane)
  /\ src' = Over([x \in (-1 .. VSize) \X FrameSides |-> VeryLarge], Primed(plane))
  /\ colbuf' = [colbuf EXCEPT ![plane] = SaveColumn(plane)]
  /\ cdefPc' = "filter"
  /\ UNCHANGED <<fbr, fbc, plane, strength, dlist, pix, linebuf, cdefLeft, dir>>

(* Mutant: both chroma planes convert them. *)
DirectionsConvertedTwice ==
  CASE plane = 0 -> Over([x \in dlist |-> [unit |-> <<fbr, fbc>>, remaps |-> 0]], dir)
    [] plane > 0 /\ Skewed -> Over([x \in dlist |-> [dir[x] EXCEPT !.remaps = @ + 1]], dir)
    [] OTHER -> dir
(* Luma finds the directions; the first chroma plane converts them. *)
Directions ==
  CASE plane = 0 -> Over([x \in dlist |-> [unit |-> <<fbr, fbc>>, remaps |-> 0]], dir)
    [] plane = 1 /\ Skewed -> Over([x \in dlist |-> [dir[x] EXCEPT !.remaps = @ + 1]], dir)
    [] OTHER -> dir

CdefFilter ==
  /\ cdefPc = "filter"
  /\ dir' = Directions
  /\ pix' = [pix EXCEPT ![plane] =
               @ \union {<<Fb * fbr + x[1], Fb * fbc + x[2]>> : x \in dlist}]
  /\ cdefLeft' = [cdefLeft EXCEPT ![plane] = TRUE]
  /\ NextPlane(plane)
  /\ UNCHANGED <<strength, dlist, linebuf, colbuf, src>>

CdefStep ==
  \/ CdefInitRow \/ CdefSkipBlock \/ CdefSelectBlock \/ CdefSkipPlane
  \/ CdefPrepare \/ CdefFilter

-----------------------------------------------------------------------------
InFrame(r, c) == r \in 0 .. UnitRows - 1 /\ c \in 0 .. UnitCols - 1

(* The filter never sees a pixel CDEF has overwritten: when it runs, the   *)
(* block and the whole border around it hold the deblocked pixels at their *)
(* places, and the very large value exactly outside the frame.             *)
CdefReadsDeblocked ==
  cdefPc = "filter" =>
    \A x \in (-1 .. VSize) \X (-1 .. HSize) :
      LET r == Fb * fbr + x[1]
          c == Fb * fbc + x[2] IN
      src[x] = IF InFrame(r, c) THEN <<r, c, "before">> ELSE VeryLarge

(* The directions chroma filters along are those luma found in this very   *)
(* block, converted once when the subsampling is skewed: the second chroma *)
(* plane uses the first one's conversion.                                  *)
DirectionsOfThisBlock ==
  cdefPc = "filter" /\ plane > 0 =>
    \A x \in dlist :
      Directions[x] = [unit |-> <<fbr, fbc>>, remaps |-> IF Skewed THEN 1 ELSE 0]
=============================================================================
