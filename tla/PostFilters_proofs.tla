-------------------------- MODULE PostFilters_proofs --------------------------
(***************************************************************************)
(* The post filters, for frames, filter blocks, stripes and restoration    *)
(* units of every size.                                                    *)
(***************************************************************************)
EXTENDS PostFilters, FiniteSetTheorems, TLAPS

-----------------------------------------------------------------------------
(* Division                                                                *)

LEMMA Divided ==
  ASSUME NEW a \in Int, NEW b \in Nat \ {0}
  PROVE  /\ a \div b \in Int /\ a % b \in 0 .. b - 1
         /\ a = b * (a \div b) + (a % b)
         /\ b * (a \div b) <= a /\ a < b * (a \div b) + b
OBVIOUS

(* Rounding up: the number of pieces of size b that cover a. *)
LEMMA Pieces ==
  ASSUME NEW a \in Nat \ {0}, NEW b \in Nat \ {0}
  PROVE  /\ (a + b - 1) \div b \in Nat \ {0}
         /\ a <= b * ((a + b - 1) \div b)
         /\ b * ((a + b - 1) \div b) - b < a
<1> DEFINE n == a + b - 1
           q == n \div b
<1>1. n \in Int /\ n >= b
  OBVIOUS
<1>2. q \in Int /\ b * q <= n /\ n < b * q + b
  BY <1>1, Divided
<1>3. q > 0
  <2>1. SUFFICES ASSUME q <= 0 PROVE FALSE
    BY <1>2
  <2>2. b * q <= 0
    BY <2>1, <1>2
  <2>3. QED
    BY <2>2, <1>1, <1>2
<1>4. QED
  BY <1>1, <1>2, <1>3

-----------------------------------------------------------------------------
(* The frame's grids                                                       *)

LEMMA FrameFields ==
  ASSUME frame \in Frames
  PROVE  /\ frame.w \in Nat \ {0} /\ frame.h \in Nat \ {0} /\ frame.denom \in 8 .. 16
         /\ frame.ssx \in {0, 1} /\ frame.ssy \in {0, 1}
         /\ frame.mono \in BOOLEAN /\ frame.hbd \in BOOLEAN /\ frame.cdef \in BOOLEAN
         /\ frame.levels \in [1 .. 3 -> BOOLEAN] /\ frame.lr \in [1 .. 3 -> BOOLEAN]
         /\ UnitsOK(frame) /\ TilesOK(frame)
BY GeometryAssumption

LEMMA CodedWidthPositive ==
  ASSUME frame \in Frames
  PROVE  CodedFrameWidth \in Nat \ {0}
<1>1. frame.w \in Nat \ {0} /\ frame.denom \in 8 .. 16
  BY FrameFields
<1> DEFINE d == frame.denom
           n == frame.w * 8 + d \div 2
<1>2. d \in Nat \ {0} /\ n \in Int /\ n >= d
  BY <1>1
<1>3. n \div d \in Int /\ n < d * (n \div d) + d
  BY <1>2, Divided
<1>4. n \div d > 0
  <2>1. SUFFICES ASSUME n \div d <= 0 PROVE FALSE
    BY <1>3
  <2> DEFINE q == n \div d
  <2>2. d * q <= 0
    BY <2>1, <1>2, <1>3
  <2>3. QED
    BY <2>2, <1>2, <1>3
<1>5. QED
  BY <1>1, <1>3, <1>4 DEF CodedFrameWidth, CodedWidth

LEMMA MiDimPositive ==
  ASSUME NEW px \in Nat \ {0}
  PROVE  /\ MiDim(px) \in Nat \ {0} /\ MiDim(px) % 2 = 0 /\ MiDim(px) \div 2 \in Nat \ {0}
         /\ 4 * MiDim(px) >= px /\ 4 * MiDim(px) < px + 8
BY DEF MiDim

LEMMA UnitGrid ==
  ASSUME frame \in Frames
  PROVE  /\ Fb \in Nat \ {0}
         /\ UnitRows \in Nat \ {0} /\ UnitCols \in Nat \ {0}
         /\ Nvfb \in Nat \ {0} /\ Nhfb \in Nat \ {0}
         /\ UnitRows <= Fb * Nvfb /\ Fb * Nvfb - Fb < UnitRows
         /\ UnitCols <= Fb * Nhfb /\ Fb * Nhfb - Fb < UnitCols
<1>1. Fb \in Nat \ {0}
  BY GeometryAssumption DEF Fb
<1>2. UnitRows \in Nat \ {0}
  BY FrameFields, MiDimPositive DEF UnitRows, MiRows
<1>3. UnitCols \in Nat \ {0}
  BY CodedWidthPositive, MiDimPositive DEF UnitCols, MiCols
<1>4. QED
  BY <1>1, <1>2, <1>3, Pieces DEF Nvfb, Nhfb

-----------------------------------------------------------------------------
(* CDEF: the walk's buffers                                                *)

Walking == cdefPc \in {"row", "unit", "plane", "filter"}
InRow == cdefPc \in {"unit", "plane", "filter"}

(* What the filter must find at a unit: it, as CDEF found it, or the outside. *)
Deblocked(r, c) == IF InFrame(r, c) THEN <<r, c, "before">> ELSE VeryLarge

DeblockedRow(r) == [c \in 0 .. UnitCols - 1 |-> <<r, c, "before">>]

(* CDEF has overwritten nothing at or after block b of row i. *)
Untouched(S, i, b) ==
  \A x \in S : /\ x \in Int \X Int
               /\ \/ x[1] < Fb * i
                  \/ x[1] < Fb * i + Fb /\ x[2] < Fb * b

(* The line buffers hold the last row of units above row i of blocks, and the
   first one below it. *)
TopOK(buf, i) ==
  i \in 1 .. Nvfb - 1 =>
    \A p \in Planes, c \in 0 .. UnitCols - 1 :
      buf[p][(i + 1) % 2][c] = <<Fb * i - 1, c, "before">>
BottomOK(buf, i) ==
  i + 1 < Nvfb =>
    \A p \in Planes, c \in 0 .. UnitCols - 1 :
      buf[p][2][c] = <<Fb * i + Fb, c, "before">>

(* The column buffer holds column k next to row i of blocks, corners included. *)
ColumnOK(column_, i, k) ==
  \A r \in -1 .. Fb : Fb * i + r < UnitRows => column_[r] = Deblocked(Fb * i + r, k)

(* The flag of the block to the left of block b tells where its last column is:
   in the column buffer, or still in the plane. *)
LeftOK(left, column_, S, i, b) ==
  b \in 1 .. Nhfb - 1 =>
    IF left THEN ColumnOK(column_, i, Fb * b - 1)
            ELSE \A x \in S : x[1] >= Fb * i => x[2] # Fb * b - 1

(* The block a plane comes to next. *)
Doing(p) == IF p < plane THEN fbc + 1 ELSE fbc

CdefTypes ==
  /\ fbr \in 0 .. Nvfb /\ plane \in Planes
  /\ InRow => fbr < Nvfb /\ fbc \in 0 .. Nhfb - 1
  /\ cdefPc \in {"row", "unit"} => plane = 0
  /\ cdefPc \in {"plane", "filter"} => dlist \subseteq (0 .. VSize - 1) \X (0 .. HSize - 1)
  /\ DOMAIN pix = Planes
  /\ DOMAIN linebuf = Planes /\ \A p \in Planes : DOMAIN linebuf[p] = 0 .. 2
  /\ DOMAIN colbuf = Planes
  /\ cdefLeft \in [Planes -> BOOLEAN]

(* What the walk has overwritten, and what its buffers hold of it. *)
CdefBuffers ==
  /\ TopOK(linebuf, fbr)
  /\ cdefPc = "row" => \A p \in Planes : Untouched(pix[p], fbr, 0)
  /\ InRow =>
       /\ TopOK(linebuf, fbr + 1) /\ BottomOK(linebuf, fbr)
       /\ \A p \in Planes :
            /\ Untouched(pix[p], fbr, Doing(p))
            /\ ~(cdefPc = "filter" /\ p = plane) =>
                 LeftOK(cdefLeft[p], colbuf[p], pix[p], fbr, Doing(p))
  /\ cdefPc = "filter" /\ ~LastCol => ColumnOK(colbuf[plane], fbr, Fb * fbc + Fb - 1)

(* The directions a chroma plane finds. *)
CdefDirections ==
  cdefPc \in {"plane", "filter"} /\ plane > 0 /\ strength[2] =>
    \A x \in dlist :
      dir[x] = [unit |-> <<fbr, fbc>>, remaps |-> IF plane = 2 /\ Skewed THEN 1 ELSE 0]

CdefInv ==
  /\ frame \in Frames
  /\ cdefPc \in {"off", "row", "unit", "plane", "filter", "done", "stopped"}
  /\ cdefPc = "filter" => PlaneRuns(plane)
  /\ Walking => CdefTypes /\ CdefBuffers /\ CdefDirections
  /\ CdefReadsDeblocked

-----------------------------------------------------------------------------
(* CDEF: the invariant is kept                                             *)

LEMMA Further ==
  ASSUME NEW f \in Nat \ {0}, NEW i \in Int, NEW j \in Int, i < j
  PROVE  f * i \in Int /\ f * j \in Int /\ f * i + f <= f * j
<1> DEFINE k == j - i - 1
<1>1. k \in Nat /\ j = i + k + 1
  OBVIOUS
<1>2. f * k \in Nat
  BY <1>1
<1>3. f * j = f * i + f * k + f
  BY <1>1
<1>4. QED
  BY <1>2, <1>3

LEMMA BlockRows ==
  ASSUME frame \in Frames, fbr \in 0 .. Nvfb - 1
  PROVE  /\ Fb * fbr \in Nat /\ VSize \in 1 .. Fb
         /\ Fb * (fbr + 1) = Fb * fbr + Fb
         /\ LastRow => Fb * fbr + VSize = UnitRows
         /\ ~LastRow => VSize = Fb /\ Fb * fbr + Fb < UnitRows
         /\ fbr > 0 => Fb <= Fb * fbr
         /\ Fb * fbr < UnitRows
<1> DEFINE i == fbr
           n == Nvfb
           f == Fb
           u == UnitRows
<1>1. /\ f \in Nat \ {0} /\ u \in Nat \ {0} /\ n \in Nat \ {0}
      /\ u <= f * n /\ f * n - f < u /\ i \in 0 .. n - 1
  BY UnitGrid
<1>2. f * i \in Nat /\ f * (i + 1) = f * i + f /\ f * n \in Int
  BY <1>1
<1>3. i < n - 1 => f * i + f <= f * n - f
  <2>1. ASSUME i < n - 1 PROVE f * i + f <= f * (n - 1) /\ f * (n - 1) = f * n - f
    BY <1>1, <2>1, Further
  <2>2. QED
    BY <2>1
<1>4. i = n - 1 => f * i = f * n - f
  BY <1>1
<1>5. i > 0 => f <= f * i
  <2>1. ASSUME i > 0 PROVE f * 0 + f <= f * i
    BY <1>1, <2>1, Further
  <2>2. QED
    BY <2>1, <1>1
<1>6. VSize = (IF u - f * i < f THEN u - f * i ELSE f) /\ (LastRow <=> i = n - 1)
  BY DEF VSize, LastRow
<1> HIDE DEF i, n, f, u
<1>7. f * i < u
  BY <1>1, <1>2, <1>3, <1>4
<1>8. QED
  BY <1>1, <1>2, <1>3, <1>4, <1>5, <1>6, <1>7 DEF i, n, f, u

LEMMA BlockCols ==
  ASSUME frame \in Frames, fbc \in 0 .. Nhfb - 1
  PROVE  /\ Fb * fbc \in Nat /\ HSize \in 1 .. Fb
         /\ Fb * (fbc + 1) = Fb * fbc + Fb
         /\ LastCol => Fb * fbc + HSize = UnitCols
         /\ ~LastCol => HSize = Fb /\ Fb * fbc + Fb < UnitCols
         /\ fbc > 0 => Fb <= Fb * fbc
<1> DEFINE i == fbc
           n == Nhfb
           f == Fb
           u == UnitCols
<1>1. /\ f \in Nat \ {0} /\ u \in Nat \ {0} /\ n \in Nat \ {0}
      /\ u <= f * n /\ f * n - f < u /\ i \in 0 .. n - 1
  BY UnitGrid
<1>2. f * i \in Nat /\ f * (i + 1) = f * i + f /\ f * n \in Int
  BY <1>1
<1>3. i < n - 1 => f * i + f <= f * n - f
  <2>1. ASSUME i < n - 1 PROVE f * i + f <= f * (n - 1) /\ f * (n - 1) = f * n - f
    BY <1>1, <2>1, Further
  <2>2. QED
    BY <2>1
<1>4. i = n - 1 => f * i = f * n - f
  BY <1>1
<1>5. i > 0 => f <= f * i
  <2>1. ASSUME i > 0 PROVE f * 0 + f <= f * i
    BY <1>1, <2>1, Further
  <2>2. QED
    BY <2>1, <1>1
<1>6. HSize = (IF u - f * i < f THEN u - f * i ELSE f) /\ (LastCol <=> i = n - 1)
  BY DEF HSize, LastCol
<1> HIDE DEF i, n, f, u
<1>7. QED
  BY <1>1, <1>2, <1>3, <1>4, <1>5, <1>6 DEF i, n, f, u

(* The frame stays; what is derived from it alone does too. *)
LEMMA SameFrame ==
  ASSUME UNCHANGED frame
  PROVE  /\ Planes' = Planes /\ UnitRows' = UnitRows /\ UnitCols' = UnitCols
         /\ Nvfb' = Nvfb /\ Nhfb' = Nhfb /\ Skewed' = Skewed
         /\ \A r, c : Deblocked(r, c)' = Deblocked(r, c)
BY DEF Planes, UnitRows, UnitCols, Nvfb, Nhfb, Skewed, Fb, MiRows, MiCols,
       CodedFrameWidth, InFrame, Deblocked

LEMMA PlaneNumbers == ASSUME frame \in Frames
                      PROVE  Planes \subseteq 0 .. 2 /\ 0 \in Planes /\ \A p \in Planes : p > 0 => p - 1 \in Planes
BY DEF Planes

(* The invariant after a step, of the same frame. *)
LEMMA TypesAfter ==
  ASSUME UNCHANGED frame, fbr' \in 0 .. Nvfb, plane' \in Planes,
         cdefPc' \in {"unit", "plane", "filter"} => fbr' < Nvfb /\ fbc' \in 0 .. Nhfb - 1,
         cdefPc' \in {"row", "unit"} => plane' = 0,
         cdefPc' \in {"plane", "filter"} =>
           dlist' \subseteq (0 .. VSize' - 1) \X (0 .. HSize' - 1),
         DOMAIN pix' = Planes, DOMAIN linebuf' = Planes,
         \A p \in Planes : DOMAIN linebuf'[p] = 0 .. 2,
         DOMAIN colbuf' = Planes, cdefLeft' \in [Planes -> BOOLEAN]
  PROVE  CdefTypes'
<1>1. /\ Planes' = Planes /\ Nvfb' = Nvfb /\ Nhfb' = Nhfb
  BY SameFrame
<1>2. QED
  BY <1>1 DEF CdefTypes, InRow

LEMMA BuffersAfter ==
  ASSUME UNCHANGED frame, TopOK(linebuf', fbr'),
         cdefPc' = "row" => \A p \in Planes : Untouched(pix'[p], fbr', 0),
         cdefPc' \in {"unit", "plane", "filter"} =>
           /\ TopOK(linebuf', fbr' + 1) /\ BottomOK(linebuf', fbr')
           /\ \A p \in Planes :
                LET b == IF p < plane' THEN fbc' + 1 ELSE fbc' IN
                /\ Untouched(pix'[p], fbr', b)
                /\ ~(cdefPc' = "filter" /\ p = plane') =>
                     LeftOK(cdefLeft'[p], colbuf'[p], pix'[p], fbr', b),
         cdefPc' = "filter" /\ fbc' # Nhfb - 1 =>
           ColumnOK(colbuf'[plane'], fbr', Fb * fbc' + Fb - 1)
  PROVE  CdefBuffers'
<1>1. TopOK(linebuf, fbr)'
  BY SameFrame DEF TopOK
<1>2. cdefPc' = "row" => (\A p \in Planes : Untouched(pix[p], fbr, 0))'
  BY SameFrame DEF Untouched
<1>3. InRow' => TopOK(linebuf, fbr + 1)' /\ BottomOK(linebuf, fbr)'
  BY SameFrame DEF TopOK, BottomOK, InRow
<1>4. ASSUME InRow', NEW p \in Planes
      PROVE  /\ Untouched(pix[p], fbr, Doing(p))'
             /\ ~(cdefPc' = "filter" /\ p = plane') =>
                  LeftOK(cdefLeft[p], colbuf[p], pix[p], fbr, Doing(p))'
  <2> DEFINE b == IF p < plane' THEN fbc' + 1 ELSE fbc'
  <2>1. Doing(p)' = b
    BY DEF Doing
  <2>2. /\ Untouched(pix'[p], fbr', b)
        /\ ~(cdefPc' = "filter" /\ p = plane') => LeftOK(cdefLeft'[p], colbuf'[p], pix'[p], fbr', b)
    BY <1>4 DEF InRow
  <2> HIDE DEF b
  <2>3. QED
    BY <2>1, <2>2, SameFrame DEF Untouched, LeftOK, ColumnOK
<1>5. (cdefPc = "filter" /\ ~LastCol => ColumnOK(colbuf[plane], fbr, Fb * fbc + Fb - 1))'
  BY SameFrame DEF ColumnOK, LastCol
<1>6. QED
  BY <1>1, <1>2, <1>3, <1>4, <1>5, SameFrame DEF CdefBuffers

LEMMA CdefStarts == CdefInv /\ CdefStart /\ UNCHANGED frame => CdefInv'
<1> SUFFICES ASSUME CdefInv, CdefStart, UNCHANGED frame PROVE CdefInv'
  OBVIOUS
<1>1. frame \in Frames
  BY DEF CdefInv
<1>2. cdefPc' = "row" /\ fbr' = 0 /\ plane' = 0
  BY DEF CdefStart
<1>3. CdefTypes'
  <2>1. 0 \in 0 .. Nvfb /\ 0 \in Planes
    BY <1>1, UnitGrid, PlaneNumbers
  <2>2. /\ DOMAIN pix' = Planes /\ DOMAIN linebuf' = Planes /\ DOMAIN colbuf' = Planes
        /\ cdefLeft' \in [Planes -> BOOLEAN] /\ \A p \in Planes : DOMAIN linebuf'[p] = 0 .. 2
    BY DEF CdefStart
  <2>3. QED
    BY <1>2, <2>1, <2>2, TypesAfter
<1>4. CdefBuffers'
  <2>1. TopOK(linebuf', fbr')
    BY <1>2 DEF TopOK
  <2>2. \A p \in Planes : Untouched(pix'[p], fbr', 0)
    BY DEF CdefStart, Untouched
  <2>3. QED
    BY <1>2, <2>1, <2>2, BuffersAfter
<1>5. QED
  BY <1>1, <1>2, <1>3, <1>4 DEF CdefInv, CdefDirections, CdefReadsDeblocked

(* A return or a stop drops the buffers. *)
LEMMA CdefEnds ==
  CdefInv /\ (CdefReturn \/ CdefCancel) /\ UNCHANGED frame => CdefInv'
BY DEF CdefInv, CdefReturn, CdefCancel, Walking, CdefReadsDeblocked

LEMMA UntouchedFurther ==
  ASSUME frame \in Frames, NEW S, NEW i \in Nat, NEW b \in Nat, Untouched(S, i, b)
  PROVE  Untouched(S, i, b + 1)
<1>1. Fb * (b + 1) = Fb * b + Fb /\ Fb \in Nat /\ Fb * b \in Nat
  BY UnitGrid
<1>2. QED
  BY <1>1 DEF Untouched

LEMMA CdefRow ==
  CdefInv /\ CdefInitRow /\ UNCHANGED frame => CdefInv'
<1> SUFFICES ASSUME CdefInv, CdefInitRow, UNCHANGED frame PROVE CdefInv'
  OBVIOUS
<1>1. frame \in Frames /\ CdefTypes /\ TopOK(linebuf, fbr)
      /\ \A p \in Planes : Untouched(pix[p], fbr, 0)
  BY DEF CdefInv, CdefInitRow, CdefBuffers, Walking
<1>2. /\ cdefPc = "row" /\ fbr \in 0 .. Nvfb - 1 /\ cdefPc' = "unit" /\ fbr' = fbr /\ fbc' = 0
      /\ plane = 0 /\ plane' = 0 /\ pix' = pix /\ strength' = strength /\ dlist' = dlist
      /\ colbuf' = colbuf
      /\ linebuf' = [p \in Planes |-> SaveLines(p)]
      /\ cdefLeft' = [p \in Planes |-> TRUE]
  BY <1>1, UnitGrid DEF CdefInitRow, CdefTypes
<1> DEFINE i == fbr
<1>3. Fb * i \in Nat /\ Fb * (i + 1) = Fb * i + Fb /\ Fb \in Nat \ {0}
  BY <1>1, <1>2, BlockRows, UnitGrid
<1>4. ASSUME NEW p \in Planes, NEW r \in Int, r >= Fb * i
      PROVE  SavedRow(p, r) = DeblockedRow(r)
  <2>1. \A c \in 0 .. UnitCols - 1 : <<r, c>> \notin pix[p]
    <3>1. SUFFICES ASSUME NEW c \in 0 .. UnitCols - 1, <<r, c>> \in pix[p] PROVE FALSE
      OBVIOUS
    <3>2. r < Fb * i \/ c < Fb * 0
      BY <1>1, <3>1 DEF Untouched
    <3>3. QED
      BY <3>2, <1>3, <1>4, UnitGrid, <1>1
  <2>2. QED
    BY <2>1 DEF SavedRow, Sample, DeblockedRow
<1>5. ASSUME NEW p \in Planes
      PROVE  /\ DOMAIN linebuf'[p] = 0 .. 2
             /\ linebuf'[p][(i + 1) % 2] = linebuf[p][(i + 1) % 2]
             /\ i + 1 < Nvfb => /\ linebuf'[p][i % 2] = DeblockedRow(Fb * i + Fb - 1)
                                /\ linebuf'[p][2] = DeblockedRow(Fb * i + Fb)
  <2>1. DOMAIN linebuf[p] = 0 .. 2 /\ linebuf'[p] = SaveLines(p)
    BY <1>1, <1>2 DEF CdefTypes
  <2>2. i % 2 \in 0 .. 1 /\ (i + 1) % 2 \in 0 .. 1 /\ i % 2 # (i + 1) % 2
    BY <1>2, <1>1, UnitGrid
  <2>3. CASE LastRow
    BY <2>1, <2>3, <1>2, <1>1, UnitGrid DEF SaveLines, LastRow
  <2>4. CASE ~LastRow
    <3>1. linebuf'[p] = [linebuf[p] EXCEPT ![i % 2] = SavedRow(p, Fb * (i + 1) - 1),
                                           ![2] = SavedRow(p, Fb * (i + 1))]
      BY <2>1, <2>4 DEF SaveLines
    <3>2. /\ SavedRow(p, Fb * (i + 1) - 1) = DeblockedRow(Fb * i + Fb - 1)
          /\ SavedRow(p, Fb * (i + 1)) = DeblockedRow(Fb * i + Fb)
      <4>1. /\ Fb * i + Fb - 1 \in Int /\ Fb * i + Fb - 1 >= Fb * i
            /\ Fb * i + Fb \in Int /\ Fb * i + Fb >= Fb * i
        BY <1>3
      <4>2. QED
        BY <1>3, <1>4, <4>1
    <3>3. QED
      BY <2>1, <2>2, <3>1, <3>2
  <2>5. QED
    BY <2>3, <2>4
<1>6. CdefTypes'
  <2>1. 0 \in 0 .. Nhfb - 1 /\ fbr < Nvfb /\ fbr \in 0 .. Nvfb
    BY <1>1, <1>2, UnitGrid
  <2>2. /\ DOMAIN pix' = Planes /\ DOMAIN linebuf' = Planes /\ DOMAIN colbuf' = Planes
        /\ cdefLeft' \in [Planes -> BOOLEAN] /\ \A p \in Planes : DOMAIN linebuf'[p] = 0 .. 2
        /\ plane \in Planes
    BY <1>1, <1>2, <1>5 DEF CdefTypes
  <2>3. QED
    BY <1>2, <2>1, <2>2, TypesAfter
<1>7. TopOK(linebuf', fbr')
  <2>1. SUFFICES ASSUME i \in 1 .. Nvfb - 1, NEW p \in Planes, NEW c \in 0 .. UnitCols - 1
                 PROVE  linebuf'[p][(i + 1) % 2][c] = <<Fb * i - 1, c, "before">>
    BY <1>2 DEF TopOK
  <2>2. linebuf[p][(i + 1) % 2][c] = <<Fb * i - 1, c, "before">>
    BY <1>1, <2>1 DEF TopOK
  <2>3. QED
    BY <1>5, <2>2
<1>8. TopOK(linebuf', fbr' + 1)
  <2>1. SUFFICES ASSUME i + 1 \in 1 .. Nvfb - 1, NEW p \in Planes, NEW c \in 0 .. UnitCols - 1
                 PROVE  linebuf'[p][(i + 1 + 1) % 2][c] = <<Fb * (i + 1) - 1, c, "before">>
    BY <1>2 DEF TopOK
  <2>2. (i + 1 + 1) % 2 = i % 2
    BY <1>2, <1>1, UnitGrid
  <2>3. linebuf'[p][i % 2] = DeblockedRow(Fb * i + Fb - 1) /\ Fb * (i + 1) - 1 = Fb * i + Fb - 1
    BY <1>1, <1>2, <1>3, <1>5, <2>1, UnitGrid
  <2>4. QED
    BY <2>1, <2>2, <2>3 DEF DeblockedRow
<1>9. BottomOK(linebuf', fbr')
  BY <1>1, <1>2, <1>5, UnitGrid DEF BottomOK, DeblockedRow
<1>10. CdefBuffers'
  <2>1. \A p \in Planes : Untouched(pix'[p], fbr', 0)
    BY <1>1, <1>2
  <2>2. \A p \in Planes : LeftOK(cdefLeft'[p], colbuf'[p], pix'[p], fbr', 0)
    BY DEF LeftOK
  <2>3. \A p \in Planes : ~(p < 0)
    BY <1>1, PlaneNumbers
  <2>4. QED
    BY <1>2, <1>7, <1>8, <1>9, <2>1, <2>2, <2>3, BuffersAfter
<1>11. QED
  BY <1>1, <1>2, <1>6, <1>10 DEF CdefInv, CdefDirections, CdefReadsDeblocked

(* The step that ends a block: every plane has come past it. *)
LEMMA BlockDone ==
  ASSUME CdefInv, InRow, UNCHANGED frame, NextBlock, plane' = 0, linebuf' = linebuf,
         DOMAIN pix' = Planes, DOMAIN colbuf' = Planes, cdefLeft' \in [Planes -> BOOLEAN],
         \A p \in Planes :
           /\ Untouched(pix'[p], fbr, fbc + 1)
           /\ LeftOK(cdefLeft'[p], colbuf'[p], pix'[p], fbr, fbc + 1)
  PROVE  CdefInv'
<1>1. /\ frame \in Frames /\ CdefTypes /\ TopOK(linebuf, fbr) /\ TopOK(linebuf, fbr + 1)
      /\ BottomOK(linebuf, fbr) /\ fbr \in 0 .. Nvfb - 1 /\ fbc \in 0 .. Nhfb - 1
  BY UnitGrid DEF CdefInv, Walking, InRow, CdefBuffers, CdefTypes
<1>2. /\ Nvfb \in Nat \ {0} /\ Nhfb \in Nat \ {0} /\ Fb \in Nat \ {0} /\ 0 \in Planes
      /\ \A p \in Planes : ~(p < 0)
  BY <1>1, UnitGrid, PlaneNumbers
<1>3. \A p \in Planes : DOMAIN linebuf'[p] = 0 .. 2
  BY <1>1 DEF CdefTypes
<1>4. DOMAIN linebuf' = Planes
  BY <1>1 DEF CdefTypes
<1>5. CASE LastCol
  <2>1. cdefPc' = "row" /\ fbr' = fbr + 1 /\ fbr + 1 \in 0 .. Nvfb
    BY <1>1, <1>2, <1>5 DEF NextBlock
  <2>2. CdefTypes'
    BY <1>2, <1>3, <1>4, <2>1, TypesAfter
  <2>3. \A p \in Planes : Untouched(pix'[p], fbr', 0)
    <3>1. Fb * fbr \in Nat /\ Fb * (fbr + 1) = Fb * fbr + Fb
      BY <1>1, BlockRows
    <3>2. QED
      BY <3>1, <2>1, <1>2 DEF Untouched
  <2>4. CdefBuffers'
    BY <1>1, <2>1, <2>3, BuffersAfter
  <2>5. QED
    BY <1>1, <2>1, <2>2, <2>4 DEF CdefInv, CdefDirections, CdefReadsDeblocked
<1>6. CASE ~LastCol
  <2>1. /\ cdefPc' = "unit" /\ fbr' = fbr /\ fbc' = fbc + 1 /\ fbc + 1 \in 0 .. Nhfb - 1
        /\ fbr < Nvfb /\ fbr \in 0 .. Nvfb
    BY <1>1, <1>2, <1>6 DEF NextBlock, LastCol
  <2>2. CdefTypes'
    BY <1>2, <1>3, <1>4, <2>1, TypesAfter
  <2>3. CdefBuffers'
    BY <1>1, <1>2, <2>1, BuffersAfter
  <2>4. QED
    BY <1>1, <2>1, <2>2, <2>3 DEF CdefInv, CdefDirections, CdefReadsDeblocked
<1>7. QED
  BY <1>5, <1>6

(* The step that ends a plane of a block. *)
LEMMA PlaneDone ==
  ASSUME CdefInv, cdefPc \in {"plane", "filter"}, UNCHANGED frame, NextPlane(plane),
         linebuf' = linebuf, strength' = strength, dlist' = dlist,
         DOMAIN pix' = Planes, DOMAIN colbuf' = Planes, cdefLeft' \in [Planes -> BOOLEAN],
         \A p \in Planes \ {plane} :
           pix'[p] = pix[p] /\ cdefLeft'[p] = cdefLeft[p] /\ colbuf'[p] = colbuf[p],
         Untouched(pix'[plane], fbr, fbc + 1),
         LeftOK(cdefLeft'[plane], colbuf'[plane], pix'[plane], fbr, fbc + 1),
         plane + 1 \in Planes /\ strength[2] =>
           \A x \in dlist :
             dir'[x] = [unit |-> <<fbr, fbc>>, remaps |-> IF plane = 1 /\ Skewed THEN 1 ELSE 0]
  PROVE  CdefInv'
<1>1. /\ frame \in Frames /\ CdefTypes /\ TopOK(linebuf, fbr) /\ TopOK(linebuf, fbr + 1)
      /\ BottomOK(linebuf, fbr) /\ fbr \in 0 .. Nvfb /\ fbr < Nvfb /\ fbc \in 0 .. Nhfb - 1
      /\ plane \in Planes /\ InRow
  BY DEF CdefInv, Walking, InRow, CdefBuffers, CdefTypes
<1>2. /\ plane \in 0 .. 2 /\ \A p \in Planes : p \in 0 .. 2
  BY <1>1, PlaneNumbers
<1>3. ASSUME NEW p \in Planes, p # plane
      PROVE  LET b == IF p < plane THEN fbc + 1 ELSE fbc IN
             Untouched(pix'[p], fbr, b) /\ LeftOK(cdefLeft'[p], colbuf'[p], pix'[p], fbr, b)
  BY <1>1, <1>3 DEF CdefInv, CdefBuffers, Walking, Doing
<1>4. CASE plane + 1 \in Planes
  <2>1. /\ plane' = plane + 1 /\ cdefPc' = "plane" /\ fbr' = fbr /\ fbc' = fbc
    BY <1>4 DEF NextPlane
  <2>2. VSize' = VSize /\ HSize' = HSize
    BY <2>1, SameFrame DEF VSize, HSize
  <2>3. CdefTypes'
    <3>1. /\ dlist \subseteq (0 .. VSize - 1) \X (0 .. HSize - 1)
          /\ DOMAIN linebuf' = Planes /\ \A p \in Planes : DOMAIN linebuf'[p] = 0 .. 2
      BY <1>1 DEF CdefTypes
    <3>2. QED
      BY <1>1, <1>4, <2>1, <2>2, <3>1, TypesAfter
  <2>4. ASSUME NEW p \in Planes
        PROVE  LET b == IF p < plane' THEN fbc' + 1 ELSE fbc' IN
               Untouched(pix'[p], fbr', b) /\ LeftOK(cdefLeft'[p], colbuf'[p], pix'[p], fbr', b)
    <3>1. CASE p = plane
      BY <3>1, <2>1, <1>2
    <3>2. CASE p # plane
      <4>1. p < plane <=> p < plane'
        BY <2>1, <1>2, <3>2
      <4>2. QED
        BY <1>3, <2>1, <3>2, <4>1
    <3>3. QED
      BY <3>1, <3>2
  <2>5. CdefBuffers'
    BY <1>1, <2>1, <2>4, BuffersAfter
  <2>6. CdefDirections'
    BY <2>1, <1>2, <1>4, SameFrame DEF CdefDirections
  <2>7. QED
    BY <1>1, <2>1, <2>3, <2>5, <2>6 DEF CdefInv, CdefReadsDeblocked
<1>5. CASE plane + 1 \notin Planes
  <2>1. plane' = 0 /\ NextBlock
    BY <1>5 DEF NextPlane
  <2>2. ASSUME NEW p \in Planes, p # plane
        PROVE  p < plane
    BY <1>1, <1>2, <1>5, <2>2 DEF Planes
  <2>3. ASSUME NEW p \in Planes
        PROVE  /\ Untouched(pix'[p], fbr, fbc + 1)
               /\ LeftOK(cdefLeft'[p], colbuf'[p], pix'[p], fbr, fbc + 1)
    <3>1. CASE p = plane
      BY <3>1
    <3>2. CASE p # plane
      BY <1>3, <2>2, <3>2
    <3>3. QED
      BY <3>1, <3>2
  <2>4. QED
    BY <1>1, <2>1, <2>3, BlockDone
<1>6. QED
  BY <1>4, <1>5

(* A block that is passed over is behind all planes, in the plane still. *)
LEMMA PassedOver ==
  ASSUME frame \in Frames, NEW S, NEW i \in Nat, NEW b \in Nat, Untouched(S, i, b), NEW column_
  PROVE  Untouched(S, i, b + 1) /\ LeftOK(FALSE, column_, S, i, b + 1)
<1>1. Fb * (b + 1) = Fb * b + Fb /\ Fb \in Nat \ {0} /\ Fb * b \in Nat /\ Fb * i \in Nat
  BY UnitGrid
<1>2. QED
  BY <1>1, UntouchedFurther DEF Untouched, LeftOK

LEMMA CdefSkip ==
  CdefInv /\ (CdefSkipBlock \/ CdefSkipPlane) /\ UNCHANGED frame => CdefInv'
<1> SUFFICES ASSUME CdefInv, CdefSkipBlock \/ CdefSkipPlane, UNCHANGED frame PROVE CdefInv'
  OBVIOUS
<1>1. /\ frame \in Frames /\ InRow /\ Walking /\ CdefTypes /\ CdefBuffers
      /\ cdefPc \in {"unit", "plane"} /\ plane \in Planes
      /\ fbr \in Nat /\ fbc \in Nat
  BY UnitGrid DEF CdefInv, CdefSkipBlock, CdefSkipPlane, InRow, Walking, CdefTypes
<1>2. \A p \in Planes : Untouched(pix[p], fbr, Doing(p))
  BY <1>1 DEF CdefBuffers
<1>3. CASE CdefSkipBlock
  <2>1. /\ NextBlock /\ plane' = 0 /\ linebuf' = linebuf /\ pix' = pix /\ colbuf' = colbuf
        /\ cdefLeft' = [p \in Planes |-> FALSE] /\ cdefPc = "unit" /\ plane = 0
    BY <1>1, <1>3 DEF CdefSkipBlock, CdefTypes
  <2>2. ASSUME NEW p \in Planes
        PROVE  /\ Untouched(pix'[p], fbr, fbc + 1)
               /\ LeftOK(cdefLeft'[p], colbuf'[p], pix'[p], fbr, fbc + 1)
    <3>1. Untouched(pix[p], fbr, fbc)
      BY <1>1, <1>2, <2>1, PlaneNumbers DEF Doing
    <3>2. QED
      BY <1>1, <2>1, <3>1, PassedOver
  <2>3. QED
    BY <1>1, <2>1, <2>2, BlockDone DEF CdefTypes
<1>4. CASE CdefSkipPlane
  <2>1. /\ NextPlane(plane) /\ linebuf' = linebuf /\ pix' = pix /\ colbuf' = colbuf
        /\ cdefLeft' = [cdefLeft EXCEPT ![plane] = FALSE] /\ cdefPc = "plane"
        /\ strength' = strength /\ dlist' = dlist /\ dir' = dir /\ ~PlaneRuns(plane)
    BY <1>4 DEF CdefSkipPlane
  <2>2. cdefLeft' \in [Planes -> BOOLEAN] /\ cdefLeft'[plane] = FALSE
        /\ \A p \in Planes \ {plane} : cdefLeft'[p] = cdefLeft[p]
    BY <1>1, <2>1 DEF CdefTypes
  <2>3. Untouched(pix[plane], fbr, fbc)
    BY <1>1, <1>2, PlaneNumbers DEF Doing
  <2>4. Untouched(pix[plane], fbr, fbc + 1) /\ LeftOK(FALSE, colbuf[plane], pix[plane], fbr, fbc + 1)
    BY <1>1, <2>3, PassedOver
  <2>5. ~strength[2]
    BY <2>1 DEF PlaneRuns
  <2>6. DOMAIN pix' = Planes /\ DOMAIN colbuf' = Planes
    BY <1>1, <2>1 DEF CdefTypes
  <2>7. QED
    BY <2>1, <2>2, <2>4, <2>5, <2>6, PlaneDone
<1>5. QED
  BY <1>3, <1>4

LEMMA CdefSelect ==
  CdefInv /\ CdefSelectBlock /\ UNCHANGED frame => CdefInv'
<1> SUFFICES ASSUME CdefInv, CdefSelectBlock, UNCHANGED frame PROVE CdefInv'
  OBVIOUS
<1>1. /\ cdefPc = "unit" /\ cdefPc' = "plane" /\ plane' = 0 /\ fbr' = fbr /\ fbc' = fbc
      /\ pix' = pix /\ linebuf' = linebuf /\ colbuf' = colbuf /\ cdefLeft' = cdefLeft
      /\ dlist' \in Dlists
  BY DEF CdefSelectBlock
<1>2. /\ frame \in Frames /\ InRow /\ CdefTypes /\ CdefBuffers
      /\ plane = 0 /\ fbr \in 0 .. Nvfb - 1 /\ fbc \in 0 .. Nhfb - 1
  BY <1>1, UnitGrid DEF CdefInv, InRow, Walking, CdefTypes
<1>3. VSize' = VSize /\ HSize' = HSize
  BY <1>1, SameFrame DEF VSize, HSize
<1>4. dlist' \subseteq (0 .. VSize - 1) \X (0 .. HSize - 1)
  <2>1. VSize \in 1 .. Fb /\ HSize \in 1 .. Fb
    BY <1>2, BlockRows, BlockCols
  <2>2. VSize \in Nat \ {0} /\ HSize \in Nat \ {0}
    BY <1>2, <2>1, UnitGrid
  <2>3. QED
    BY <1>1, <2>2 DEF Dlists
<1>5. CdefTypes'
  BY <1>1, <1>2, <1>3, <1>4, UnitGrid, TypesAfter DEF CdefTypes
<1>6. CdefBuffers'
  BY <1>1, <1>2, BuffersAfter DEF CdefBuffers, Doing
<1>7. QED
  BY <1>1, <1>2, <1>5, <1>6 DEF CdefInv, CdefDirections, CdefReadsDeblocked

(* One buffer over another. *)
LEMMA OverIs ==
  \A f, g, x : /\ x \in DOMAIN f => x \in DOMAIN Over(f, g) /\ Over(f, g)[x] = f[x]
               /\ x \in DOMAIN g /\ x \notin DOMAIN f =>
                    x \in DOMAIN Over(f, g) /\ Over(f, g)[x] = g[x]
BY DEF Over

LEMMA CdefFiltered ==
  CdefInv /\ CdefFilter /\ UNCHANGED frame => CdefInv'
<1> SUFFICES ASSUME CdefInv, CdefFilter, UNCHANGED frame PROVE CdefInv'
  OBVIOUS
<1>1. /\ cdefPc = "filter" /\ NextPlane(plane) /\ dir' = Directions
      /\ pix' = [pix EXCEPT ![plane] =
                   @ \union {<<Fb * fbr + x[1], Fb * fbc + x[2]>> : x \in dlist}]
      /\ cdefLeft' = [cdefLeft EXCEPT ![plane] = TRUE]
      /\ strength' = strength /\ dlist' = dlist /\ linebuf' = linebuf /\ colbuf' = colbuf
  BY DEF CdefFilter
<1>2. /\ frame \in Frames /\ InRow /\ CdefTypes /\ CdefBuffers /\ CdefDirections
      /\ PlaneRuns(plane)
      /\ fbr \in 0 .. Nvfb - 1 /\ fbc \in 0 .. Nhfb - 1 /\ plane \in Planes
      /\ dlist \subseteq (0 .. VSize - 1) \X (0 .. HSize - 1)
  BY <1>1, UnitGrid DEF CdefInv, InRow, Walking, CdefTypes
<1>3. /\ Fb \in Nat \ {0} /\ Fb * fbr \in Nat /\ Fb * fbc \in Nat
      /\ VSize \in 1 .. Fb /\ HSize \in 1 .. Fb
      /\ Fb * (fbc + 1) = Fb * fbc + Fb
  BY <1>2, UnitGrid, BlockRows, BlockCols
<1>4. /\ DOMAIN pix' = Planes /\ DOMAIN colbuf' = Planes /\ cdefLeft' \in [Planes -> BOOLEAN]
      /\ cdefLeft'[plane] = TRUE
      /\ pix'[plane] = pix[plane] \union {<<Fb * fbr + x[1], Fb * fbc + x[2]>> : x \in dlist}
      /\ \A p \in Planes \ {plane} : pix'[p] = pix[p] /\ cdefLeft'[p] = cdefLeft[p]
  BY <1>1, <1>2 DEF CdefTypes
<1>5. Untouched(pix'[plane], fbr, fbc + 1)
  <2>1. Untouched(pix[plane], fbr, fbc)
    BY <1>2, <1>1, PlaneNumbers DEF CdefBuffers, Doing
  <2>2. fbr \in Nat /\ fbc \in Nat
    BY <1>2, UnitGrid
  <2>3. Untouched(pix[plane], fbr, fbc + 1)
    BY <1>2, <2>1, <2>2, UntouchedFurther
  <2>4. ASSUME NEW x \in dlist
        PROVE  /\ <<Fb * fbr + x[1], Fb * fbc + x[2]>> \in Int \X Int
               /\ Fb * fbr + x[1] < Fb * fbr + Fb
               /\ Fb * fbc + x[2] < Fb * (fbc + 1)
    <3>1. x[1] \in 0 .. VSize - 1 /\ x[2] \in 0 .. HSize - 1
      BY <1>2
    <3>2. QED
      BY <1>3, <3>1
  <2>5. QED
    BY <1>4, <2>3, <2>4 DEF Untouched
<1>6. LeftOK(cdefLeft'[plane], colbuf'[plane], pix'[plane], fbr, fbc + 1)
  <2>1. SUFFICES ASSUME fbc + 1 \in 1 .. Nhfb - 1
                 PROVE  ColumnOK(colbuf[plane], fbr, Fb * (fbc + 1) - 1)
    BY <1>1, <1>4 DEF LeftOK
  <2>2. ~LastCol
    BY <2>1, <1>2, UnitGrid DEF LastCol
  <2>3. ColumnOK(colbuf[plane], fbr, Fb * fbc + Fb - 1)
    BY <1>1, <1>2, <2>2 DEF CdefBuffers
  <2>4. QED
    BY <1>3, <2>3
<1>7. ASSUME plane + 1 \in Planes, strength[2], NEW x \in dlist
      PROVE  dir'[x] = [unit |-> <<fbr, fbc>>, remaps |-> IF plane = 1 /\ Skewed THEN 1 ELSE 0]
  <2>1. plane \in {0, 1}
    BY <1>2, <1>7, PlaneNumbers
  <2>2. CASE plane = 0
    <3>1. dir' = Over([y \in dlist |-> [unit |-> <<fbr, fbc>>, remaps |-> 0]], dir)
      BY <1>1, <2>2 DEF Directions
    <3> DEFINE found == [y \in dlist |-> [unit |-> <<fbr, fbc>>, remaps |-> 0]]
    <3>2. x \in DOMAIN found /\ found[x] = [unit |-> <<fbr, fbc>>, remaps |-> 0]
      BY <1>7
    <3>3. dir' = Over(found, dir)
      BY <3>1
    <3> HIDE DEF found
    <3>4. Over(found, dir)[x] = found[x]
      BY <3>2, OverIs
    <3>5. QED
      BY <2>2, <3>2, <3>3, <3>4
  <2>3. CASE plane = 1
    <3>1. dir[x] = [unit |-> <<fbr, fbc>>, remaps |-> 0]
      BY <1>1, <1>2, <1>7, <2>3 DEF CdefDirections
    <3>2. CASE Skewed
      <4>1. dir' = Over([y \in dlist |-> [dir[y] EXCEPT !.remaps = @ + 1]], dir)
        BY <1>1, <2>3, <3>2 DEF Directions
      <4> DEFINE turned == [y \in dlist |-> [dir[y] EXCEPT !.remaps = @ + 1]]
      <4>a. x \in DOMAIN turned /\ turned[x] = [dir[x] EXCEPT !.remaps = @ + 1]
        BY <1>7
      <4>b. dir' = Over(turned, dir)
        BY <4>1
      <4> HIDE DEF turned
      <4>c. Over(turned, dir)[x] = turned[x]
        BY <4>a, OverIs
      <4>2. dir'[x] = [dir[x] EXCEPT !.remaps = @ + 1]
        BY <4>a, <4>b, <4>c
      <4>3. QED
        BY <2>3, <3>1, <3>2, <4>2
    <3>3. CASE ~Skewed
      BY <1>1, <2>3, <3>1, <3>3 DEF Directions
    <3>4. QED
      BY <3>2, <3>3
  <2>4. QED
    BY <2>1, <2>2, <2>3
<1>8. QED
  BY <1>1, <1>4, <1>5, <1>6, <1>7, PlaneDone

(* The filter's view, before the frame's sides are made: every unit of the block
   and of its border is the deblocked one of its place, wherever it comes from. *)
LEMMA PrimedIs ==
  ASSUME CdefInv, cdefPc = "plane", NEW x \in (-1 .. VSize) \X (-1 .. HSize),
         x[2] = -1 => fbc > 0, x[2] = HSize => ~LastCol
  PROVE  /\ x \in DOMAIN Primed(plane)
         /\ Primed(plane)[x] = Deblocked(Fb * fbr + x[1], Fb * fbc + x[2])
<1> DEFINE p == plane
           R == Fb * fbr
           C == Fb * fbc
           left == FromLeft(p)
           top == BorderRow(p, -1, (fbr + 1) % 2, fbr > 0)
           bottom == BorderRow(p, VSize, 2, ~LastRow)
           body == Body(p)
<1>1. /\ frame \in Frames /\ CdefTypes /\ CdefBuffers /\ plane \in Planes
      /\ fbr \in 0 .. Nvfb - 1 /\ fbc \in 0 .. Nhfb - 1
  BY UnitGrid DEF CdefInv, InRow, Walking, CdefTypes
<1>2. /\ Fb \in Nat \ {0} /\ R \in Nat /\ C \in Nat
      /\ VSize \in 1 .. Fb /\ HSize \in 1 .. Fb
      /\ LastRow => R + VSize = UnitRows
      /\ ~LastRow => VSize = Fb /\ R + Fb < UnitRows
      /\ LastCol => C + HSize = UnitCols
      /\ ~LastCol => HSize = Fb /\ C + Fb < UnitCols
      /\ fbr > 0 => Fb <= R
      /\ fbc > 0 => Fb <= C
      /\ UnitRows \in Nat /\ UnitCols \in Nat /\ Nvfb \in Nat /\ Nhfb \in Nat
      /\ fbr \in Nat /\ fbc \in Nat
  BY <1>1, UnitGrid, BlockRows, BlockCols
<1>3. /\ x = <<x[1], x[2]>> /\ x[1] \in -1 .. VSize /\ x[2] \in -1 .. HSize
      /\ x[1] \in Int /\ x[2] \in Int
  BY <1>2
<1>4. C + x[2] \in 0 .. UnitCols - 1 /\ Beside(x[2])
  BY <1>2, <1>3 DEF Beside
<1>5. Primed(p) = Over(left, Over(top, Over(bottom, Over(body, src))))
  BY DEF Primed
<1>6. /\ DOMAIN top = {-1} \X (-1 .. HSize) /\ DOMAIN bottom = {VSize} \X (-1 .. HSize)
      /\ DOMAIN body = (0 .. VSize - 1) \X PlaneColumns(p)
      /\ DOMAIN left = IF cdefLeft[p] THEN (-1 .. Rend - 1) \X {-1} ELSE {}
  BY DEF BorderRow, Body, FromLeft
<1>7. ASSUME x \in DOMAIN left PROVE left[x] = Deblocked(R + x[1], C + x[2])
  <2>1. cdefLeft[p] /\ x[1] \in -1 .. Rend - 1 /\ x[2] = -1 /\ left[x] = colbuf[p][x[1]]
    BY <1>6, <1>7 DEF FromLeft
  <2>2. fbc \in 1 .. Nhfb - 1
    BY <1>1, <1>2, <2>1
  <2>3. LeftOK(cdefLeft[p], colbuf[p], pix[p], fbr, fbc)
    BY <1>1, <1>2, PlaneNumbers DEF CdefBuffers, InRow, Doing
  <2>4. ColumnOK(colbuf[p], fbr, C - 1)
    BY <2>1, <2>2, <2>3 DEF LeftOK
  <2>5. x[1] \in -1 .. Fb /\ R + x[1] < UnitRows
    BY <1>2, <1>3, <2>1 DEF Rend
  <2>6. C - 1 = C + x[2]
    BY <2>1, <1>2
  <2>7. QED
    BY <2>1, <2>4, <2>5, <2>6 DEF ColumnOK
<1>8. ASSUME x \in DOMAIN top PROVE top[x] = Deblocked(R + x[1], C + x[2])
  <2>1. x[1] = -1 /\ top[x] = IF fbr > 0 THEN linebuf[p][(fbr + 1) % 2][C + x[2]] ELSE VeryLarge
    BY <1>4, <1>6, <1>8 DEF BorderRow
  <2>2. CASE fbr > 0
    <3>1. fbr \in 1 .. Nvfb - 1 /\ TopOK(linebuf, fbr)
      BY <1>1, <1>2, <2>2 DEF CdefBuffers
    <3>2. linebuf[p][(fbr + 1) % 2][C + x[2]] = <<R - 1, C + x[2], "before">>
      BY <1>1, <1>4, <3>1 DEF TopOK
    <3>3. R + x[1] = R - 1 /\ R - 1 \in 0 .. UnitRows - 1
      BY <1>2, <2>1, <2>2
    <3>4. QED
      BY <1>4, <2>1, <2>2, <3>2, <3>3 DEF Deblocked, InFrame
  <2>3. CASE ~(fbr > 0)
    <3>1. R = 0
      BY <1>2, <2>3
    <3>2. R + x[1] \notin 0 .. UnitRows - 1
      BY <3>1, <1>2, <2>1
    <3>3. QED
      BY <2>1, <2>3, <3>2 DEF Deblocked, InFrame
  <2>4. QED
    BY <2>2, <2>3
<1>9. ASSUME x \in DOMAIN bottom PROVE bottom[x] = Deblocked(R + x[1], C + x[2])
  <2>1. x[1] = VSize /\ bottom[x] = IF ~LastRow THEN linebuf[p][2][C + x[2]] ELSE VeryLarge
    BY <1>4, <1>6, <1>9 DEF BorderRow
  <2>2. CASE ~LastRow
    <3>1. fbr + 1 < Nvfb /\ BottomOK(linebuf, fbr)
      BY <1>1, <1>2, <2>2 DEF CdefBuffers, InRow, LastRow
    <3>2. linebuf[p][2][C + x[2]] = <<R + Fb, C + x[2], "before">>
      BY <1>1, <1>4, <3>1 DEF BottomOK
    <3>3. R + x[1] = R + Fb /\ R + Fb \in 0 .. UnitRows - 1
      BY <1>2, <2>1, <2>2
    <3>4. QED
      BY <1>4, <2>1, <2>2, <3>2, <3>3 DEF Deblocked, InFrame
  <2>3. CASE LastRow
    <3>1. R + x[1] \notin 0 .. UnitRows - 1
      BY <1>2, <2>1, <2>3
    <3>2. QED
      BY <2>1, <2>3, <3>1 DEF Deblocked, InFrame
  <2>4. QED
    BY <2>2, <2>3
<1>10. ASSUME x \in DOMAIN body PROVE body[x] = Deblocked(R + x[1], C + x[2])
  <2>1. /\ x[1] \in 0 .. VSize - 1 /\ x[2] \in PlaneColumns(p)
        /\ body[x] = Sample(p, R + x[1], C + x[2])
    BY <1>6, <1>10 DEF Body
  <2>2. <<R + x[1], C + x[2]>> \notin pix[p]
    <3>1. SUFFICES ASSUME <<R + x[1], C + x[2]>> \in pix[p] PROVE FALSE
      OBVIOUS
    <3>2. Untouched(pix[p], fbr, fbc) /\ LeftOK(cdefLeft[p], colbuf[p], pix[p], fbr, fbc)
      BY <1>1, <1>2, PlaneNumbers DEF CdefBuffers, InRow, Doing
    <3>3. R + x[1] < R \/ C + x[2] < C
      BY <3>1, <3>2 DEF Untouched
    <3>4. x[2] = -1
      BY <3>3, <1>2, <1>3, <2>1
    <3>5. ~cdefLeft[p] /\ fbc \in 1 .. Nhfb - 1
      BY <3>4, <2>1, <1>1, <1>2 DEF PlaneColumns
    <3>6. R + x[1] >= R => C + x[2] # C - 1
      BY <3>1, <3>2, <3>5 DEF LeftOK
    <3>7. QED
      BY <3>4, <3>6, <1>2, <2>1
  <2>3. R + x[1] \in 0 .. UnitRows - 1
    BY <1>2, <2>1
  <2>4. QED
    BY <1>4, <2>1, <2>2, <2>3 DEF Sample, Deblocked, InFrame
<1>11. x \in DOMAIN left \/ x \in DOMAIN top \/ x \in DOMAIN bottom \/ x \in DOMAIN body
  <2>1. ASSUME x[1] \in 0 .. VSize - 1, ~(cdefLeft[p] /\ x[2] = -1)
        PROVE  x[2] \in PlaneColumns(p)
    <3>1. cdefLeft[p] \in BOOLEAN /\ LastCol \in BOOLEAN
      BY <1>1 DEF CdefTypes, LastCol
    <3>2. x[2] = HSize => ~LastCol
      OBVIOUS
    <3>3. cdefLeft[p] => x[2] >= 0
      BY <1>3, <2>1
    <3>4. LastCol => x[2] <= HSize - 1
      BY <1>2, <1>3, <3>2
    <3>5. QED
      BY <1>2, <1>3, <3>1, <3>3, <3>4 DEF PlaneColumns
  <2>2. ASSUME x[1] \in 0 .. VSize - 1
        PROVE  x[1] \in -1 .. Rend - 1
    BY <1>2, <2>2 DEF Rend
  <2>3. x[1] = -1 \/ x[1] = VSize \/ x[1] \in 0 .. VSize - 1
    BY <1>2, <1>3
  <2>4. CASE x[1] = -1
    BY <1>3, <1>6, <2>4
  <2>5. CASE x[1] = VSize
    BY <1>3, <1>6, <2>5
  <2>6. CASE x[1] \in 0 .. VSize - 1 /\ cdefLeft[p] /\ x[2] = -1
    BY <1>3, <1>6, <2>2, <2>6
  <2>7. CASE x[1] \in 0 .. VSize - 1 /\ ~(cdefLeft[p] /\ x[2] = -1)
    BY <1>3, <1>6, <2>1, <2>7
  <2>8. QED
    BY <2>3, <2>4, <2>5, <2>6, <2>7
<1> HIDE DEF left, top, bottom, body
<1> DEFINE s3 == Over(body, src)
           s2 == Over(bottom, s3)
           s1 == Over(top, s2)
           s0 == Over(left, s1)
<1>12. x \in DOMAIN body => x \in DOMAIN s3 /\ s3[x] = body[x]
  BY OverIs
<1>13. Primed(p) = s0
  BY <1>5
<1> HIDE DEF s3
<1>14. /\ x \in DOMAIN bottom => x \in DOMAIN s2 /\ s2[x] = bottom[x]
       /\ x \in DOMAIN s3 /\ x \notin DOMAIN bottom => x \in DOMAIN s2 /\ s2[x] = s3[x]
  BY OverIs
<1> HIDE DEF s2
<1>15. /\ x \in DOMAIN top => x \in DOMAIN s1 /\ s1[x] = top[x]
       /\ x \in DOMAIN s2 /\ x \notin DOMAIN top => x \in DOMAIN s1 /\ s1[x] = s2[x]
  BY OverIs
<1> HIDE DEF s1
<1>16. /\ x \in DOMAIN left => x \in DOMAIN s0 /\ s0[x] = left[x]
       /\ x \in DOMAIN s1 /\ x \notin DOMAIN left => x \in DOMAIN s0 /\ s0[x] = s1[x]
  BY OverIs
<1> HIDE DEF s0
<1>17. QED
  BY <1>7, <1>8, <1>9, <1>10, <1>11, <1>12, <1>13, <1>14, <1>15, <1>16

LEMMA CdefPrepared ==
  CdefInv /\ CdefPrepare /\ UNCHANGED frame => CdefInv'
<1> SUFFICES ASSUME CdefInv, CdefPrepare, UNCHANGED frame PROVE CdefInv'
  OBVIOUS
<1>1. /\ cdefPc = "plane" /\ PlaneRuns(plane) /\ cdefPc' = "filter"
      /\ src' = Over([x \in (-1 .. VSize) \X FrameSides |-> VeryLarge], Primed(plane))
      /\ colbuf' = [colbuf EXCEPT ![plane] = SaveColumn(plane)]
      /\ fbr' = fbr /\ fbc' = fbc /\ plane' = plane /\ strength' = strength /\ dlist' = dlist
      /\ pix' = pix /\ linebuf' = linebuf /\ cdefLeft' = cdefLeft /\ dir' = dir
  BY DEF CdefPrepare
<1>2. /\ frame \in Frames /\ InRow /\ CdefTypes /\ CdefBuffers /\ CdefDirections
      /\ fbr \in 0 .. Nvfb - 1 /\ fbc \in 0 .. Nhfb - 1 /\ plane \in Planes
  BY <1>1, UnitGrid DEF CdefInv, InRow, Walking, CdefTypes
<1>3. /\ Fb \in Nat \ {0} /\ Fb * fbr \in Nat /\ Fb * fbc \in Nat
      /\ VSize \in 1 .. Fb /\ HSize \in 1 .. Fb
      /\ Fb * (fbc + 1) = Fb * fbc + Fb
      /\ LastRow => Fb * fbr + VSize = UnitRows
      /\ ~LastRow => VSize = Fb /\ Fb * fbr + Fb < UnitRows
      /\ LastCol => Fb * fbc + HSize = UnitCols
      /\ ~LastCol => HSize = Fb /\ Fb * fbc + Fb < UnitCols
      /\ UnitRows \in Nat /\ UnitCols \in Nat /\ Nhfb \in Nat /\ fbc \in Nat
      /\ fbc > 0 => Fb <= Fb * fbc
  BY <1>2, UnitGrid, BlockRows, BlockCols
<1>4. VSize' = VSize /\ HSize' = HSize
  BY <1>1, SameFrame DEF VSize, HSize
<1>5. /\ -1 \in FrameSides <=> fbc = 0
      /\ HSize \in FrameSides <=> LastCol
      /\ \A c \in FrameSides : c = -1 \/ c = HSize
  BY <1>3 DEF FrameSides
<1>6. ASSUME NEW x \in (-1 .. VSize) \X (-1 .. HSize)
      PROVE  src'[x] = Deblocked(Fb * fbr + x[1], Fb * fbc + x[2])
  <2> DEFINE sides == [y \in (-1 .. VSize) \X FrameSides |-> VeryLarge]
  <2>1. x = <<x[1], x[2]>> /\ x[1] \in -1 .. VSize /\ x[2] \in -1 .. HSize
    BY <1>3
  <2>2. CASE x[2] \in FrameSides
    <3>1. x \in DOMAIN sides /\ sides[x] = VeryLarge
      BY <2>1, <2>2
    <3>2. src' = Over(sides, Primed(plane))
      BY <1>1
    <3> HIDE DEF sides
    <3>3. src'[x] = VeryLarge
      BY <3>1, <3>2, OverIs
    <3>4. Fb * fbc + x[2] \notin 0 .. UnitCols - 1
      <4>1. (x[2] = -1 /\ fbc = 0) \/ (x[2] = HSize /\ LastCol)
        BY <1>5, <2>2
      <4>2. CASE x[2] = -1 /\ fbc = 0
        <5>1. Fb * fbc = 0
          BY <1>3, <4>2
        <5>2. QED
          BY <5>1, <4>2
      <4>3. CASE x[2] = HSize /\ LastCol
        <5>1. Fb * fbc + x[2] = UnitCols
          BY <1>3, <4>3
        <5>2. QED
          BY <1>3, <5>1
      <4>4. QED
        BY <4>1, <4>2, <4>3
    <3>5. QED
      BY <3>3, <3>4 DEF Deblocked, InFrame
  <2>3. CASE x[2] \notin FrameSides
    <3>1. /\ x[2] = -1 => fbc > 0
          /\ x[2] = HSize => ~LastCol
      BY <1>3, <1>5, <2>3
    <3>2. /\ x \in DOMAIN Primed(plane)
          /\ Primed(plane)[x] = Deblocked(Fb * fbr + x[1], Fb * fbc + x[2])
      BY <1>1, <3>1, PrimedIs
    <3>4. x \notin DOMAIN sides
      BY <2>1, <2>3
    <3>5. src' = Over(sides, Primed(plane))
      BY <1>1
    <3> HIDE DEF sides
    <3>6. QED
      BY <3>2, <3>4, <3>5, OverIs
  <2>4. QED
    BY <2>2, <2>3
<1>7. CdefReadsDeblocked'
  BY <1>1, <1>4, <1>6, SameFrame DEF CdefReadsDeblocked, Deblocked, InFrame
<1>8. ~LastCol => ColumnOK(colbuf'[plane], fbr, Fb * fbc + Fb - 1)
  <2>1. SUFFICES ASSUME ~LastCol, NEW r \in -1 .. Fb, Fb * fbr + r < UnitRows
                 PROVE  colbuf'[plane][r] = Deblocked(Fb * fbr + r, Fb * fbc + Fb - 1)
    BY DEF ColumnOK
  <2> DEFINE saved == [q \in -1 .. Rend - 1 |-> Primed(plane)[<<q, HSize - 1>>]]
  <2>2. colbuf'[plane] = Over(saved, colbuf[plane])
    BY <1>1, <1>2 DEF SaveColumn, CdefTypes
  <2>3. r \in -1 .. Rend - 1 /\ r \in -1 .. VSize
    BY <1>3, <2>1 DEF Rend
  <2>4. r \in DOMAIN saved /\ saved[r] = Primed(plane)[<<r, HSize - 1>>]
    BY <2>3
  <2> DEFINE x == <<r, HSize - 1>>
  <2>5. /\ x \in (-1 .. VSize) \X (-1 .. HSize) /\ x[1] = r /\ x[2] = HSize - 1
        /\ x[2] # -1 /\ x[2] # HSize
    BY <1>3, <2>3
  <2> HIDE DEF x
  <2>6. Primed(plane)[x] = Deblocked(Fb * fbr + x[1], Fb * fbc + x[2])
    BY <1>1, <2>5, PrimedIs
  <2>7. Fb * fbc + x[2] = Fb * fbc + Fb - 1
    BY <1>3, <2>1, <2>5
  <2> HIDE DEF saved
  <2>8. colbuf'[plane][r] = saved[r]
    BY <2>2, <2>4, OverIs
  <2>9. QED
    BY <2>4, <2>5, <2>6, <2>7, <2>8 DEF x
<1>9. CdefTypes'
  <2>1. /\ dlist \subseteq (0 .. VSize - 1) \X (0 .. HSize - 1) /\ fbr \in 0 .. Nvfb /\ fbr < Nvfb
        /\ DOMAIN pix = Planes /\ DOMAIN linebuf = Planes /\ DOMAIN colbuf' = Planes
        /\ cdefLeft \in [Planes -> BOOLEAN]
        /\ \A p \in Planes : DOMAIN linebuf[p] = 0 .. 2
    BY <1>1, <1>2 DEF CdefTypes, InRow
  <2>2. QED
    BY <1>1, <1>2, <1>4, <2>1, TypesAfter
<1>10. CdefBuffers'
  <2>1. ASSUME NEW p \in Planes
        PROVE  LET b == IF p < plane THEN fbc + 1 ELSE fbc IN
               /\ Untouched(pix[p], fbr, b)
               /\ p # plane => LeftOK(cdefLeft[p], colbuf'[p], pix[p], fbr, b)
    BY <1>1, <1>2 DEF CdefBuffers, Doing, CdefTypes
  <2>2. TopOK(linebuf, fbr) /\ TopOK(linebuf, fbr + 1) /\ BottomOK(linebuf, fbr)
    BY <1>2 DEF CdefBuffers
  <2>3. QED
    BY <1>1, <1>8, <2>1, <2>2, BuffersAfter DEF LastCol
<1>11. CdefDirections' /\ PlaneRuns(plane)'
  BY <1>1, <1>2, SameFrame DEF CdefDirections, PlaneRuns
<1>12. QED
  BY <1>1, <1>2, <1>7, <1>9, <1>10, <1>11 DEF CdefInv

CdefStays == cdefPc' = cdefPc /\ walkVars' = walkVars

LEMMA CdefUnmoved ==
  CdefInv /\ CdefStays /\ UNCHANGED frame => CdefInv'
<1> SUFFICES ASSUME CdefInv, CdefStays, UNCHANGED frame PROVE CdefInv'
  OBVIOUS
<1>1. /\ cdefPc' = cdefPc /\ fbr' = fbr /\ fbc' = fbc /\ plane' = plane /\ strength' = strength
      /\ dlist' = dlist /\ pix' = pix /\ linebuf' = linebuf /\ colbuf' = colbuf /\ src' = src
      /\ cdefLeft' = cdefLeft /\ dir' = dir
  BY DEF CdefStays, walkVars
<1>2. VSize' = VSize /\ HSize' = HSize /\ LastCol' = LastCol
  BY <1>1, SameFrame DEF VSize, HSize, LastCol
<1>3. CdefReadsDeblocked'
  BY <1>1, <1>2, SameFrame DEF CdefInv, CdefReadsDeblocked, Deblocked, InFrame
<1>4. Walking => CdefTypes' /\ CdefBuffers' /\ CdefDirections'
  <2> SUFFICES ASSUME Walking PROVE CdefTypes' /\ CdefBuffers' /\ CdefDirections'
    OBVIOUS
  <2>1. CdefTypes /\ CdefBuffers /\ CdefDirections
    BY DEF CdefInv
  <2>2. CdefTypes'
    BY <1>1, <1>2, <2>1, SameFrame DEF CdefTypes, InRow
  <2>3. CdefBuffers'
    <3>1. TopOK(linebuf, fbr)
      BY <2>1 DEF CdefBuffers
    <3>2. cdefPc = "row" => \A p \in Planes : Untouched(pix[p], fbr, 0)
      BY <2>1 DEF CdefBuffers
    <3>3. ASSUME InRow
          PROVE  /\ TopOK(linebuf, fbr + 1) /\ BottomOK(linebuf, fbr)
                 /\ \A p \in Planes :
                      LET b == IF p < plane THEN fbc + 1 ELSE fbc IN
                      /\ Untouched(pix[p], fbr, b)
                      /\ ~(cdefPc = "filter" /\ p = plane) =>
                           LeftOK(cdefLeft[p], colbuf[p], pix[p], fbr, b)
      BY <2>1, <3>3 DEF CdefBuffers, Doing
    <3>4. cdefPc = "filter" /\ fbc # Nhfb - 1 => ColumnOK(colbuf[plane], fbr, Fb * fbc + Fb - 1)
      BY <2>1 DEF CdefBuffers, LastCol
    <3>5. QED
      BY <1>1, <3>1, <3>2, <3>3, <3>4, BuffersAfter DEF InRow
  <2>4. CdefDirections'
    BY <1>1, <2>1, SameFrame DEF CdefDirections
  <2>5. QED
    BY <2>2, <2>3, <2>4
<1>5. Walking' = Walking /\ PlaneRuns(plane)' = PlaneRuns(plane)
  BY <1>1 DEF Walking, PlaneRuns
<1>6. QED
  BY <1>1, <1>3, <1>4, <1>5 DEF CdefInv

-----------------------------------------------------------------------------
(* CDEF: the theorem                                                       *)

LEMMA CdefInvInit == Init => CdefInv
BY DEF Init, CdefInv, Walking, CdefReadsDeblocked

LEMMA FrameStays == [Next]_vars => UNCHANGED frame
BY DEF Next, vars, ReadUnits, BeginCdef, CdefInWalk, CancelCdef, EndCdef, BeginSuperres,
       SuperresInWalk, BeginRestoration, RestorationInWalk, CancelRestoration,
       EndRestoration, Returned

LEMMA CdefInvNext == CdefInv /\ [Next]_vars => CdefInv'
<1> SUFFICES ASSUME CdefInv, [Next]_vars PROVE CdefInv'
  OBVIOUS
<1>1. UNCHANGED frame
  BY FrameStays
<1>2. \/ CdefStays
      \/ CdefStart \/ CdefCancel \/ CdefReturn \/ CdefStep
  BY DEF Next, vars, cdefVars, CdefStays, ReadUnits, BeginCdef, CdefInWalk, CancelCdef, EndCdef,
         BeginSuperres, SuperresInWalk, BeginRestoration, RestorationInWalk, CancelRestoration,
         EndRestoration, Returned
<1>3. QED
  BY <1>1, <1>2, CdefUnmoved, CdefStarts, CdefEnds, CdefRow, CdefSkip, CdefSelect,
     CdefPrepared, CdefFiltered DEF CdefStep

(* CDEF never reads a pixel it has overwritten, nor a direction found in another
   block: at every filter call of cdef_fb the block and its border are the
   deblocked ones, and the outside exactly beyond the frame; the directions of a
   chroma plane are those of its own block, converted once. *)
THEOREM CdefInputsHold == Spec => []CdefInputs
<1>1. CdefInv => CdefInputs
  <2> SUFFICES ASSUME CdefInv, cdefPc = "filter", plane > 0, NEW x \in dlist
               PROVE  Directions[x] = [unit |-> <<fbr, fbc>>, remaps |-> IF Skewed THEN 1 ELSE 0]
    BY DEF CdefInv, CdefInputs, DirectionsOfThisBlock
  <2>1. strength[2] /\ plane \in Planes /\ frame \in Frames
    <3>1. plane \in Planes /\ PlaneRuns(plane) /\ frame \in Frames
      BY DEF CdefInv, Walking, CdefTypes
    <3>2. plane # 0
      BY <3>1, PlaneNumbers
    <3>3. QED
      BY <3>1, <3>2 DEF PlaneRuns
  <2>2. plane \in {1, 2}
    BY <2>1, PlaneNumbers
  <2>3. dir[x] = [unit |-> <<fbr, fbc>>, remaps |-> IF plane = 2 /\ Skewed THEN 1 ELSE 0]
    BY <2>1 DEF CdefInv, Walking, CdefDirections
  <2>4. CASE plane = 1 /\ Skewed
    <3> DEFINE turned == [y \in dlist |-> [dir[y] EXCEPT !.remaps = @ + 1]]
    <3>1. x \in DOMAIN turned /\ turned[x] = [dir[x] EXCEPT !.remaps = @ + 1]
      OBVIOUS
    <3>2. Directions = Over(turned, dir)
      BY <2>4 DEF Directions
    <3> HIDE DEF turned
    <3>3. Directions[x] = [dir[x] EXCEPT !.remaps = @ + 1]
      BY <3>1, <3>2, OverIs
    <3>4. QED
      BY <2>3, <2>4, <3>3
  <2>5. CASE ~(plane = 1 /\ Skewed)
    <3>1. Directions = dir
      BY <2>2, <2>5 DEF Directions
    <3>2. QED
      BY <2>2, <2>3, <2>5, <3>1
  <2>6. QED
    BY <2>4, <2>5
<1>2. QED
  BY <1>1, CdefInvInit, CdefInvNext, PTL DEF Spec

-----------------------------------------------------------------------------
(* The pipeline: what its planes and the snapshot have been through        *)

LabelSeq == Seq({"deblock", "cdef", "superres", "restoration"})

LEMMA AppendIs ==
  \A S : \A s \in Seq(S), l \in S : Append(s, l) = s \o <<l>>
<1> SUFFICES ASSUME NEW S, NEW s \in Seq(S), NEW l \in S PROVE Append(s, l) = s \o <<l>>
  OBVIOUS
<1>1. Append(s, l) \in Seq(S) /\ s \o <<l>> \in Seq(S)
  OBVIOUS
<1>2. Len(Append(s, l)) = Len(s \o <<l>>)
  OBVIOUS
<1>3. \A i \in 1 .. Len(s) + 1 : Append(s, l)[i] = (s \o <<l>>)[i]
  OBVIOUS
<1>4. QED
  BY <1>1, <1>2, <1>3

LEMMA SingleLabel == \A S : \A l \in S : <<l>> \in Seq(S) /\ <<>> \in Seq(S)
OBVIOUS

LEMMA Joined == \A S : \A s, t \in Seq(S) : s \o <<>> = s /\ s \o t \in Seq(S)
OBVIOUS

LEMMA LabelsJoined ==
  ASSUME NEW s \in LabelSeq
  PROVE  /\ s \o <<>> = s /\ \A t \in LabelSeq : s \o t \in LabelSeq
         /\ Append(s, "cdef") = s \o <<"cdef">>
         /\ Append(s, "superres") = s \o <<"superres">>
         /\ Append(s, "restoration") = s \o <<"restoration">>
BY AppendIs, Joined DEF LabelSeq

Histories(s, m, r) ==
  /\ s \in {"tiles", "begin", "deblock"} => r = [p \in Planes |-> <<>>]
  /\ s = "deblock" => DoDeblock
  /\ s \in {"gate", "take", "cdef"} => r = [p \in Planes |-> DeblockLabel(p)]
  /\ s \in {"take", "cdef", "put"} => frame.cdef
  /\ s = "put" => r = [p \in Planes |-> IF p < m THEN DeblockLabel(p) \o CdefLabel ELSE DeblockLabel(p)]
  /\ s \in {"scale", "scaling"} => r = [p \in Planes |-> DeblockLabel(p) \o CdefLabel] /\ DoSuperres
  /\ s \in {"restore", "restoring"} =>
       r = [p \in Planes |-> DeblockLabel(p) \o CdefLabel \o SuperresLabel]
  /\ s = "restoring" => DoLr
  /\ s = "done" => r = [p \in Planes |-> DeblockLabel(p) \o CdefLabel \o SuperresLabel \o LrLabel(p)]

(* Only a cut-short pipeline leaves a plane in pieces, none leaves it out. *)
Stores(s, m, h) ==
  /\ h \in [Planes -> {"here", "taken", "partial"}]
  /\ \/ s \in {"tiles", "begin", "gate", "scale", "restore", "done"}
     \/ s \in {"take", "cdef", "put"} /\ ~frame.hbd
     => h = Here
  /\ s = "put" => \A p \in Planes : p < m => h[p] = "here"
  /\ s = "stopped" => \A p \in Planes : h[p] # "taken"

(* The snapshot is the frame's history less CDEF. *)
Snapshot(s, k) ==
  /\ s \in {"take", "cdef", "put", "scale", "scaling"} =>
       k = IF DoLr /\ ~OptimizedLr THEN [p \in Planes |-> DeblockLabel(p)] ELSE <<>>
  /\ s \in {"restore", "restoring"} =>
       k = IF DoLr /\ ~OptimizedLr THEN [p \in Planes |-> DeblockLabel(p) \o SuperresLabel] ELSE <<>>

Stages == {"tiles", "begin", "deblock", "gate", "take", "cdef", "put", "scale", "scaling",
           "restore", "restoring", "done", "stopped"}

PipeFacts(s, m, h, r, k) ==
  /\ s \in Stages /\ m \in Nat /\ (s = "put" => m \in 0 .. 3)
  /\ Histories(s, m, r) /\ Stores(s, m, h) /\ Snapshot(s, k)

PipeInv == frame \in Frames /\ PipeFacts(stage, moved, store, recon, preCdef)

LEMMA PipeAfter ==
  ASSUME frame \in Frames, UNCHANGED frame, PipeFacts(stage', moved', store', recon', preCdef')
  PROVE  PipeInv'
<1>1. /\ Planes' = Planes /\ DoDeblock' = DoDeblock /\ DoSuperres' = DoSuperres
      /\ CdefLabel' = CdefLabel /\ SuperresLabel' = SuperresLabel /\ Here' = Here
      /\ frame.cdef' = frame.cdef /\ frame.hbd' = frame.hbd
  BY DEF Planes, DoDeblock, DoSuperres, SuperresScaled, CdefLabel, SuperresLabel, Here
<1>2. DoLr' = DoLr /\ OptimizedLr' = OptimizedLr
  BY <1>1 DEF DoLr, Restored, OptimizedLr
<1>3. \A p : DeblockLabel(p)' = DeblockLabel(p) /\ LrLabel(p)' = LrLabel(p)
  BY <1>1 DEF DeblockLabel, LrLabel
<1>4. Histories(stage, moved, recon)'
  BY <1>1, <1>2, <1>3 DEF Histories, PipeFacts
<1>5. Stores(stage, moved, store)'
  BY <1>1 DEF Stores, PipeFacts
<1>6. Snapshot(stage, preCdef)'
  BY <1>1, <1>2, <1>3 DEF Snapshot, PipeFacts
<1>7. QED
  BY <1>4, <1>5, <1>6 DEF PipeInv, PipeFacts

LEMMA PipeInvInit == Init => PipeInv
BY DEF Init, PipeInv, PipeFacts, Histories, Stores, Snapshot, Stages, Here

LEMMA Labels ==
  ASSUME frame \in Frames
  PROVE  /\ \A p : DeblockLabel(p) \in LabelSeq /\ LrLabel(p) \in LabelSeq
         /\ CdefLabel \in LabelSeq /\ SuperresLabel \in LabelSeq
         /\ \A p : ~DoDeblock => DeblockLabel(p) = <<>>
         /\ CdefLabel = IF frame.cdef THEN <<"cdef">> ELSE <<>>
         /\ SuperresLabel = IF DoSuperres THEN <<"superres">> ELSE <<>>
<1>1. /\ <<"deblock">> \in LabelSeq /\ <<"cdef">> \in LabelSeq
      /\ <<"superres">> \in LabelSeq /\ <<"restoration">> \in LabelSeq
      /\ <<>> \in LabelSeq
  BY SingleLabel DEF LabelSeq
<1>2. \A p : DeblockLabel(p) = <<"deblock">> \/ DeblockLabel(p) = <<>>
  BY DEF DeblockLabel
<1>3. \A p : LrLabel(p) = <<"restoration">> \/ LrLabel(p) = <<>>
  BY DEF LrLabel
<1>4. /\ CdefLabel = IF frame.cdef THEN <<"cdef">> ELSE <<>>
      /\ SuperresLabel = IF DoSuperres THEN <<"superres">> ELSE <<>>
  BY DEF CdefLabel, SuperresLabel, DoSuperres, SuperresScaled
<1>5. \A p : ~DoDeblock => DeblockLabel(p) = <<>>
  BY DEF DeblockLabel
<1>6. QED
  BY <1>1, <1>2, <1>3, <1>4, <1>5

LEMMA PlaneSequence ==
  ASSUME frame \in Frames, NEW m \in Nat
  PROVE  m \notin Planes => \A p \in Planes : p < m
BY DEF Planes

PipeStays == stage' = stage /\ moved' = moved /\ store' = store /\ recon' = recon /\ preCdef' = preCdef

LEMMA PipeUnmoved == PipeInv /\ PipeStays /\ UNCHANGED frame => PipeInv'
BY PipeAfter DEF PipeInv, PipeStays

(* Deblocking. *)
LEMMA PipeDeblock ==
  ASSUME PipeInv, UNCHANGED frame,
         \/ TilesDone \/ BeginDeblock \/ SkipDeblock \/ FilterEdges \/ SkipEdges
         \/ CancelDeblock \/ DeblockDone
  PROVE  PipeInv'
<1>1. frame \in Frames /\ PipeFacts(stage, moved, store, recon, preCdef)
  BY DEF PipeInv
<1>2. store' \in [Planes -> {"here", "taken", "partial"}] /\ moved' = moved /\ preCdef' = preCdef
  BY <1>1 DEF PipeFacts, Stores, TilesDone, BeginDeblock, SkipDeblock, FilterEdges, SkipEdges,
              CancelDeblock, DeblockDone, Taken, Here
<1>3. CASE TilesDone \/ BeginDeblock \/ FilterEdges \/ SkipEdges
  BY <1>1, <1>2, <1>3, PipeAfter
     DEF PipeFacts, Histories, Stores, Snapshot, Stages, TilesDone, BeginDeblock, FilterEdges, SkipEdges
<1>4. CASE CancelDeblock
  BY <1>1, <1>2, <1>4, PipeAfter
     DEF PipeFacts, Histories, Stores, Snapshot, Stages, CancelDeblock, Here
<1>5. CASE SkipDeblock
  BY <1>1, <1>2, <1>5, Labels, PipeAfter
     DEF PipeFacts, Histories, Stores, Snapshot, Stages, SkipDeblock
<1>6. CASE DeblockDone
  <2>1. /\ stage = "deblock" /\ stage' = "gate" /\ store' = Here
        /\ recon' = ThroughStage("deblock", {p \in Planes : frame.levels[p + 1]})
    BY <1>6 DEF DeblockDone
  <2>2. recon = [p \in Planes |-> <<>>] /\ DoDeblock
    BY <1>1, <2>1 DEF PipeFacts, Histories
  <2>3. recon' = [p \in Planes |-> DeblockLabel(p)]
    <3>1. Append(<<>>, "deblock") = <<"deblock">>
      OBVIOUS
    <3>2. QED
      BY <2>1, <2>2, <3>1 DEF ThroughStage, DeblockLabel
  <2>4. QED
    BY <1>1, <1>2, <2>1, <2>3, PipeAfter DEF PipeFacts, Histories, Stores, Snapshot, Stages
<1>7. QED
  BY <1>3, <1>4, <1>5, <1>6

(* Between deblocking and superres. *)
LEMMA PipeCdef ==
  ASSUME PipeInv, UNCHANGED frame,
         \/ Gate \/ TakeForCdef \/ CancelTake \/ BeginCdef \/ CancelCdef \/ EndCdef
         \/ PutAfterCdef \/ CancelPut \/ CdefPut
  PROVE  PipeInv'
<1>1. frame \in Frames /\ PipeFacts(stage, moved, store, recon, preCdef)
  BY DEF PipeInv
<1>2. /\ DOMAIN store = Planes /\ moved \in Nat
      /\ store \in [Planes -> {"here", "taken", "partial"}]
  BY <1>1 DEF PipeFacts, Stores
<1>3. CASE Gate
  <2>1. /\ stage = "gate" /\ store' = store /\ recon' = recon /\ moved' = 0
        /\ preCdef' = IF DoLr /\ ~OptimizedLr THEN recon ELSE <<>>
        /\ stage' = IF frame.cdef THEN "take" ELSE IF DoSuperres THEN "scale" ELSE "restore"
    BY <1>3 DEF Gate
  <2>2. recon = [p \in Planes |-> DeblockLabel(p)] /\ store = Here
    BY <1>1, <2>1 DEF PipeFacts, Histories, Stores
  <2>3. CASE frame.cdef
    BY <1>1, <1>2, <2>1, <2>2, <2>3, PipeAfter DEF PipeFacts, Histories, Stores, Snapshot, Stages
  <2>4. CASE ~frame.cdef /\ DoSuperres
    <3>1. recon = [p \in Planes |-> DeblockLabel(p) \o CdefLabel]
      BY <1>1, <2>2, <2>4, Labels, LabelsJoined
    <3>2. stage' = "scale"
      BY <2>1, <2>4
    <3>3. QED
      BY <1>1, <1>2, <2>1, <2>2, <2>4, <3>1, <3>2, PipeAfter
         DEF PipeFacts, Histories, Stores, Snapshot, Stages
  <2>5. CASE ~frame.cdef /\ ~DoSuperres
    <3>0. \A p \in Planes : DeblockLabel(p) \o CdefLabel \o SuperresLabel = DeblockLabel(p)
      <4>1. CdefLabel = <<>> /\ SuperresLabel = <<>> /\ \A p \in Planes : DeblockLabel(p) \in LabelSeq
        BY <1>1, <2>5, Labels
      <4>2. \A p \in Planes : DeblockLabel(p) \o <<>> = DeblockLabel(p)
        BY <4>1, LabelsJoined
      <4>3. QED
        BY <4>1, <4>2
    <3>1. recon = [p \in Planes |-> DeblockLabel(p) \o CdefLabel \o SuperresLabel]
      BY <2>2, <3>0
    <3>2. stage' = "restore" /\ preCdef' = <<>> /\ OptimizedLr
      BY <2>1, <2>5 DEF OptimizedLr
    <3>3. QED
      BY <1>1, <1>2, <2>1, <2>2, <2>5, <3>1, <3>2, PipeAfter
         DEF PipeFacts, Histories, Stores, Snapshot, Stages
  <2>6. QED
    BY <2>3, <2>4, <2>5
<1>4. CASE TakeForCdef
  <2>1. /\ stage = "take" /\ stage' = "take" /\ recon' = recon /\ preCdef' = preCdef
        /\ moved' = moved + 1 /\ store' = [store EXCEPT ![moved] = Taken[moved]]
        /\ moved \in Planes
    BY <1>4 DEF TakeForCdef
  <2>2. ~frame.hbd => store' = Here
    <3>1. ~frame.hbd => store = Here
      BY <1>1, <2>1 DEF PipeFacts, Stores
    <3>2. QED
      BY <2>1, <3>1 DEF Taken, Here
  <2>3. store' \in [Planes -> {"here", "taken", "partial"}]
    BY <1>2, <2>1 DEF Taken
  <2>4. QED
    BY <1>1, <1>2, <2>1, <2>2, <2>3, PipeAfter DEF PipeFacts, Histories, Stores, Snapshot, Stages
<1>5. CASE CancelTake
  <2>1. store = Here
    BY <1>1, <1>5 DEF PipeFacts, Stores, CancelTake
  <2>2. QED
    BY <1>1, <1>2, <1>5, <2>1, PipeAfter
       DEF PipeFacts, Histories, Stores, Snapshot, Stages, CancelTake, Here
<1>6. CASE BeginCdef
  BY <1>1, <1>2, <1>6, PipeAfter DEF PipeFacts, Histories, Stores, Snapshot, Stages, BeginCdef
<1>7. CASE CancelCdef
  BY <1>1, <1>2, <1>7, PipeAfter
     DEF PipeFacts, Histories, Stores, Snapshot, Stages, CancelCdef, Here
<1>8. CASE EndCdef
  <2>1. /\ stage = "cdef" /\ stage' = "put" /\ moved' = 0
        /\ store' = store /\ recon' = recon /\ preCdef' = preCdef
    BY <1>8 DEF EndCdef
  <2>2. \A p \in Planes : ~(p < 0)
    BY <1>1, PlaneNumbers
  <2>3. recon = [p \in Planes |-> DeblockLabel(p)]
    BY <1>1, <2>1 DEF PipeFacts, Histories
  <2>4. recon' = [p \in Planes |-> IF p < 0 THEN DeblockLabel(p) \o CdefLabel ELSE DeblockLabel(p)]
    BY <2>1, <2>2, <2>3
  <2>5. QED
    BY <1>1, <1>2, <2>1, <2>2, <2>4, PipeAfter
       DEF PipeFacts, Histories, Stores, Snapshot, Stages
<1>9. CASE PutAfterCdef
  <2>1. /\ stage = "put" /\ stage' = "put" /\ moved \in Planes /\ moved' = moved + 1
        /\ store' = [store EXCEPT ![moved] = "here"]
        /\ recon' = ThroughStage("cdef", {moved}) /\ preCdef' = preCdef
    BY <1>9 DEF PutAfterCdef
  <2>2. /\ recon = [p \in Planes |-> IF p < moved THEN DeblockLabel(p) \o CdefLabel ELSE DeblockLabel(p)]
        /\ \A p \in Planes : p < moved => store[p] = "here"
        /\ frame.cdef /\ (~frame.hbd => store = Here)
    BY <1>1, <2>1 DEF PipeFacts, Histories, Stores
  <2>3. /\ moved \in 0 .. 2 /\ \A p \in Planes : p \in 0 .. 2
        /\ \A p \in Planes : p < moved + 1 <=> p < moved \/ p = moved
    BY <1>1, <2>1, PlaneNumbers
  <2>4. recon' = [p \in Planes |-> IF p < moved + 1 THEN DeblockLabel(p) \o CdefLabel ELSE DeblockLabel(p)]
    <3>1. Append(DeblockLabel(moved), "cdef") = DeblockLabel(moved) \o CdefLabel
      BY <1>1, <2>2, Labels, LabelsJoined
    <3>2. ~(moved < moved)
      BY <2>3
    <3>3. recon' = [p \in Planes |-> IF p = moved THEN Append(recon[p], "cdef") ELSE recon[p]]
      BY <2>1 DEF ThroughStage
    <3>4. QED
      BY <2>2, <2>3, <3>1, <3>2, <3>3
  <2>5. /\ store' \in [Planes -> {"here", "taken", "partial"}]
        /\ \A p \in Planes : p < moved + 1 => store'[p] = "here"
        /\ ~frame.hbd => store' = Here
    BY <1>2, <2>1, <2>2, <2>3 DEF Here
  <2>6. moved + 1 \in Nat /\ moved + 1 \in 0 .. 3
    BY <2>3
  <2>7. QED
    BY <1>1, <2>1, <2>2, <2>4, <2>5, <2>6, PipeAfter
       DEF PipeFacts, Histories, Stores, Snapshot, Stages
<1>10. CASE CancelPut
  <2>1. store = Here /\ store' = [store EXCEPT ![moved] = "partial"] /\ stage' = "stopped"
        /\ moved' = moved
    BY <1>1, <1>10 DEF PipeFacts, Stores, CancelPut
  <2>2. /\ store' \in [Planes -> {"here", "taken", "partial"}]
        /\ \A p \in Planes : store'[p] # "taken"
    BY <1>2, <2>1 DEF Here
  <2>3. QED
    BY <1>1, <1>2, <2>1, <2>2, PipeAfter DEF PipeFacts, Histories, Stores, Snapshot, Stages
<1>11. CASE CdefPut
  <2>1. /\ stage = "put" /\ moved \notin Planes
        /\ stage' = IF DoSuperres THEN "scale" ELSE "restore"
        /\ moved' = moved /\ store' = store /\ recon' = recon /\ preCdef' = preCdef
    BY <1>11 DEF CdefPut
  <2>2. \A p \in Planes : p < moved
    BY <1>1, <1>2, <2>1, PlaneSequence
  <2>3. store = Here
    BY <1>1, <2>1, <2>2 DEF PipeFacts, Stores, Here
  <2>4. recon = [p \in Planes |-> DeblockLabel(p) \o CdefLabel]
    BY <1>1, <2>1, <2>2 DEF PipeFacts, Histories
  <2>5. preCdef = IF DoLr /\ ~OptimizedLr THEN [p \in Planes |-> DeblockLabel(p)] ELSE <<>>
    BY <1>1, <2>1 DEF PipeFacts, Snapshot
  <2>6. CASE DoSuperres
    BY <1>1, <1>2, <2>1, <2>3, <2>4, <2>5, <2>6, PipeAfter
       DEF PipeFacts, Histories, Stores, Snapshot, Stages
  <2>7. CASE ~DoSuperres
    <3>1. recon = [p \in Planes |-> DeblockLabel(p) \o CdefLabel \o SuperresLabel]
      BY <1>1, <2>4, <2>7, Labels, LabelsJoined
    <3>2. [p \in Planes |-> DeblockLabel(p)] = [p \in Planes |-> DeblockLabel(p) \o SuperresLabel]
      BY <1>1, <2>7, Labels, LabelsJoined
    <3>3. preCdef = IF DoLr /\ ~OptimizedLr THEN [p \in Planes |-> DeblockLabel(p) \o SuperresLabel] ELSE <<>>
      BY <2>5, <3>2
    <3>4. stage' = "restore"
      BY <2>1, <2>7
    <3>5. QED
      BY <1>1, <1>2, <2>1, <2>3, <3>1, <3>3, <3>4, PipeAfter
         DEF PipeFacts, Histories, Stores, Snapshot, Stages
  <2>8. QED
    BY <2>6, <2>7
<1>12. QED
  BY <1>3, <1>4, <1>5, <1>6, <1>7, <1>8, <1>9, <1>10, <1>11

(* Superres, restoration and the stops in between. *)
LEMMA PipeRest ==
  ASSUME PipeInv, UNCHANGED frame,
         \/ BeginSuperres \/ EndSuperres \/ SkipRestoration \/ BeginRestoration
         \/ CancelRestoration \/ EndRestoration
         \/ Cancel("begin") \/ Cancel("gate") \/ Cancel("scale") \/ Cancel("restore")
  PROVE  PipeInv'
<1>1. frame \in Frames /\ PipeFacts(stage, moved, store, recon, preCdef)
  BY DEF PipeInv
<1>2. /\ moved \in Nat /\ store \in [Planes -> {"here", "taken", "partial"}]
      /\ Taken \in [Planes -> {"here", "taken", "partial"}]
      /\ Here \in [Planes -> {"here", "taken", "partial"}]
  BY <1>1 DEF PipeFacts, Stores, Taken, Here
<1>3. CASE BeginSuperres \/ BeginRestoration \/ CancelRestoration
  <2>1. /\ moved' = moved /\ recon' = recon /\ preCdef' = preCdef /\ (store' = Taken \/ store' = Here)
        /\ \/ stage = "scale" /\ stage' = "scaling"
           \/ stage = "restore" /\ stage' = "restoring" /\ DoLr
           \/ stage' = "stopped" /\ store' = Here
    BY <1>3 DEF BeginSuperres, BeginRestoration, CancelRestoration
  <2>2. \A p \in Planes : Here[p] # "taken"
    BY DEF Here
  <2>3. QED
    BY <1>1, <1>2, <2>1, <2>2, PipeAfter DEF PipeFacts, Histories, Stores, Snapshot, Stages
<1>4. CASE Cancel("begin") \/ Cancel("gate") \/ Cancel("scale") \/ Cancel("restore")
  <2>1. /\ moved' = moved /\ recon' = recon /\ preCdef' = preCdef /\ store' = store
        /\ stage' = "stopped" /\ stage \in {"begin", "gate", "scale", "restore"}
    BY <1>4 DEF Cancel
  <2>2. \A p \in Planes : store[p] # "taken"
    BY <1>1, <2>1 DEF PipeFacts, Stores, Here
  <2>3. QED
    BY <1>1, <1>2, <2>1, <2>2, PipeAfter DEF PipeFacts, Histories, Stores, Snapshot, Stages
<1>5. CASE EndSuperres
  <2>1. /\ stage = "scaling" /\ stage' = "restore" /\ store' = Here /\ moved' = moved
        /\ recon' = ThroughStage("superres", Planes)
        /\ preCdef' = IF preCdef = <<>> THEN <<>>
                      ELSE [p \in Planes |-> Append(preCdef[p], "superres")]
    BY <1>5 DEF EndSuperres
  <2>2. /\ recon = [p \in Planes |-> DeblockLabel(p) \o CdefLabel] /\ DoSuperres
        /\ preCdef = IF DoLr /\ ~OptimizedLr THEN [p \in Planes |-> DeblockLabel(p)] ELSE <<>>
    BY <1>1, <2>1 DEF PipeFacts, Histories, Snapshot
  <2>3. ASSUME NEW p \in Planes
        PROVE  /\ Append(DeblockLabel(p) \o CdefLabel, "superres")
                    = DeblockLabel(p) \o CdefLabel \o SuperresLabel
               /\ Append(DeblockLabel(p), "superres") = DeblockLabel(p) \o SuperresLabel
    BY <1>1, <2>2, Labels, LabelsJoined
  <2>4. recon' = [p \in Planes |-> DeblockLabel(p) \o CdefLabel \o SuperresLabel]
    BY <2>1, <2>2, <2>3 DEF ThroughStage
  <2>5. [p \in Planes |-> DeblockLabel(p)] # <<>>
    <3>1. DOMAIN [p \in Planes |-> DeblockLabel(p)] = Planes /\ 0 \in Planes
      BY <1>1, PlaneNumbers
    <3>2. 0 \notin DOMAIN <<>>
      OBVIOUS
    <3>3. QED
      BY <3>1, <3>2
  <2>6. preCdef' = IF DoLr /\ ~OptimizedLr
                   THEN [p \in Planes |-> DeblockLabel(p) \o SuperresLabel] ELSE <<>>
    BY <2>1, <2>2, <2>3, <2>5
  <2>7. QED
    BY <1>1, <1>2, <2>1, <2>4, <2>6, PipeAfter DEF PipeFacts, Histories, Stores, Snapshot, Stages
<1>6. CASE SkipRestoration \/ EndRestoration
  <2>1. /\ moved' = moved /\ preCdef' = preCdef /\ stage' = "done"
        /\ stage \in {"restore", "restoring"}
        /\ \/ store' = store /\ stage = "restore"
           \/ store' = Here
        /\ \/ recon' = recon /\ ~DoLr
           \/ recon' = ThroughStage("restoration", Restored)
    BY <1>6 DEF SkipRestoration, EndRestoration
  <2>2. recon = [p \in Planes |-> DeblockLabel(p) \o CdefLabel \o SuperresLabel]
    BY <1>1, <2>1 DEF PipeFacts, Histories
  <2>3. store' = Here
    BY <1>1, <2>1 DEF PipeFacts, Stores
  <2>4. recon' = [p \in Planes |-> IF frame.lr[p + 1] THEN Append(recon[p], "restoration") ELSE recon[p]]
    <3>1. CASE recon' = recon /\ ~DoLr
      <4>1. \A p \in Planes : ~frame.lr[p + 1]
        BY <3>1 DEF DoLr, Restored
      <4>2. QED
        BY <3>1, <2>2, <4>1
    <3>2. CASE recon' = ThroughStage("restoration", Restored)
      BY <3>2 DEF ThroughStage, Restored
    <3>3. QED
      BY <2>1, <3>1, <3>2
  <2>5. ASSUME NEW p \in Planes
        PROVE  recon'[p] = DeblockLabel(p) \o CdefLabel \o SuperresLabel \o LrLabel(p)
    <3>1. DeblockLabel(p) \o CdefLabel \in LabelSeq
      BY <1>1, Labels, LabelsJoined
    <3>2. DeblockLabel(p) \o CdefLabel \o SuperresLabel \in LabelSeq
      BY <1>1, <3>1, Labels, LabelsJoined
    <3>3. recon[p] \in LabelSeq /\ recon[p] = DeblockLabel(p) \o CdefLabel \o SuperresLabel
      BY <2>2, <3>2
    <3>4. CASE frame.lr[p + 1]
      BY <2>4, <3>3, <3>4, LabelsJoined DEF LrLabel
    <3>5. CASE ~frame.lr[p + 1]
      BY <2>4, <3>3, <3>5, LabelsJoined DEF LrLabel
    <3>6. QED
      BY <3>4, <3>5
  <2>6. recon' = [p \in Planes |-> DeblockLabel(p) \o CdefLabel \o SuperresLabel \o LrLabel(p)]
    BY <2>4, <2>5
  <2>7. QED
    BY <1>1, <1>2, <2>1, <2>3, <2>6, PipeAfter DEF PipeFacts, Histories, Stores, Snapshot, Stages
<1>7. QED
  BY <1>3, <1>4, <1>5, <1>6

LEMMA PipeInvNext == PipeInv /\ [Next]_vars => PipeInv'
<1> SUFFICES ASSUME PipeInv, [Next]_vars PROVE PipeInv'
  OBVIOUS
<1>1. UNCHANGED frame
  BY FrameStays
<1>2. CASE PipeStep
  BY <1>1, <1>2, PipeDeblock, PipeCdef, PipeRest DEF PipeStep
<1>3. CASE BeginCdef \/ CancelCdef \/ EndCdef
  BY <1>1, <1>3, PipeCdef
<1>4. CASE BeginSuperres \/ BeginRestoration \/ CancelRestoration \/ EndRestoration
  BY <1>1, <1>4, PipeRest
<1>5. CASE UNCHANGED pipeVars
  BY <1>1, <1>5, PipeUnmoved DEF pipeVars, PipeStays
<1>6. QED
  BY <1>2, <1>3, <1>4, <1>5
     DEF Next, vars, ReadUnits, CdefInWalk, SuperresInWalk, RestorationInWalk, Returned

-----------------------------------------------------------------------------
(* Deblocking: the order of the edges                                      *)

(* The raster of the strips, their planes and directions and blocks: what lies
   behind is filtered, and no horizontal edge ahead is. *)
EdgeTypes(e) ==
  /\ e.strip \in Nat /\ e.plane \in 0 .. 3 /\ e.dir \in {0, 1} /\ e.block \in 0 .. BlockCount - 1
  /\ DOMAIN e = {"strip", "plane", "dir", "block", "vert", "horz"}
  /\ DOMAIN e.vert = 0 .. 2 /\ DOMAIN e.horz = 0 .. 2

VertDone(e) ==
  \A p \in Planes, s \in 0 .. e.strip, k \in 0 .. BlockCount - 1 :
    /\ frame.levels[p + 1]
    /\ \/ s < e.strip
       \/ s = e.strip /\ p < e.plane
       \/ s = e.strip /\ p = e.plane /\ (e.dir = 1 \/ k < e.block)
    => <<s, k>> \in e.vert[p]

HorzDone(e) ==
  \A p \in Planes : \A b \in e.horz[p] :
    /\ b \in Nat \X (0 .. BlockCount - 1) /\ frame.levels[p + 1]
    /\ \/ b[1] < e.strip
       \/ b[1] = e.strip /\ p < e.plane
       \/ b[1] = e.strip /\ p = e.plane /\ e.dir = 1

(* Between planes the walk is at a first block, of the vertical edges. *)
Between(e) ==
  (e.plane \in Planes => ~frame.levels[e.plane + 1]) => e.dir = 0 /\ e.block = 0

EdgeInv ==
  /\ frame \in Frames
  /\ EdgeTypes(edges) /\ VertDone(edges) /\ HorzDone(edges) /\ Between(edges)

LEMMA BlocksPositive == ASSUME frame \in Frames PROVE BlockCount \in Nat \ {0}
<1>1. MiCols \in Nat \ {0}
  BY CodedWidthPositive, MiDimPositive DEF MiCols
<1>2. StripMi \in Nat \ {0}
  BY GeometryAssumption DEF StripMi
<1>3. QED
  BY <1>1, <1>2, Pieces DEF BlockCount

LEMMA EdgeAfter ==
  ASSUME frame \in Frames, UNCHANGED frame,
         EdgeTypes(edges'), VertDone(edges'), HorzDone(edges'), Between(edges')
  PROVE  EdgeInv'
<1>1. Planes' = Planes /\ BlockCount' = BlockCount
  BY DEF Planes, BlockCount, MiCols, CodedFrameWidth
<1>2. QED
  BY <1>1 DEF EdgeInv, EdgeTypes, VertDone, HorzDone, Between

LEMMA EdgesStart ==
  ASSUME frame \in Frames
  PROVE  EdgeTypes(NoEdges) /\ VertDone(NoEdges) /\ HorzDone(NoEdges) /\ Between(NoEdges)
<1>1. BlockCount \in Nat \ {0} /\ Planes \subseteq 0 .. 2
  BY BlocksPositive, PlaneNumbers
<1>2. /\ NoEdges.strip = 0 /\ NoEdges.plane = 0 /\ NoEdges.dir = 0 /\ NoEdges.block = 0
      /\ NoEdges.vert = [p \in 0 .. 2 |-> {}] /\ NoEdges.horz = [p \in 0 .. 2 |-> {}]
      /\ DOMAIN NoEdges = {"strip", "plane", "dir", "block", "vert", "horz"}
  BY DEF NoEdges
<1>3. EdgeTypes(NoEdges)
  BY <1>1, <1>2 DEF EdgeTypes
<1>4. VertDone(NoEdges)
  <2>1. \A p \in Planes : p \in 0 .. 2
    BY <1>1
  <2>2. \A p \in Planes, s \in 0 .. 0, k \in 0 .. BlockCount - 1 :
          ~(s < 0) /\ ~(p < 0) /\ ~(k < 0)
    BY <1>1, <2>1
  <2>3. QED
    BY <1>2, <2>2 DEF VertDone
<1>5. HorzDone(NoEdges)
  BY <1>1, <1>2 DEF HorzDone
<1>6. Between(NoEdges)
  BY <1>2 DEF Between
<1>7. QED
  BY <1>3, <1>4, <1>5, <1>6

(* A block's edges of one direction. *)
LEMMA EdgesFiltered ==
  ASSUME EdgeInv, FilterEdges, UNCHANGED frame
  PROVE  EdgeInv'
<1> DEFINE e == edges
           f == edges'
           B == BlockCount
           P == Planes
           S == e.strip
           q == e.plane
           k == e.block
           here == <<S, k>>
<1>1. /\ frame \in Frames /\ EdgeTypes(e) /\ VertDone(e) /\ HorzDone(e)
      /\ B \in Nat \ {0} /\ P \subseteq 0 .. 2
  BY BlocksPositive, PlaneNumbers DEF EdgeInv
<1>2. /\ q \in P /\ frame.levels[q + 1]
      /\ f = [e EXCEPT
               !.vert[q] = @ \union (IF e.dir = 0 THEN {here} ELSE {}),
               !.horz[q] = @ \union (IF e.dir = 1 THEN {here} ELSE {}),
               !.block = (@ + 1) % B,
               !.dir = IF k = B - 1 THEN 1 - @ ELSE @,
               !.plane = IF k = B - 1 /\ e.dir = 1 THEN @ + 1 ELSE @]
  BY DEF FilterEdges
<1>3. /\ S \in Nat /\ q \in 0 .. 2 /\ e.dir \in {0, 1} /\ k \in 0 .. B - 1
      /\ DOMAIN e = {"strip", "plane", "dir", "block", "vert", "horz"}
      /\ DOMAIN e.vert = 0 .. 2 /\ DOMAIN e.horz = 0 .. 2
  BY <1>1, <1>2 DEF EdgeTypes
<1>4. /\ DOMAIN f = {"strip", "plane", "dir", "block", "vert", "horz"}
      /\ f.strip = S
      /\ f.plane = IF k = B - 1 /\ e.dir = 1 THEN q + 1 ELSE q
      /\ f.dir = IF k = B - 1 THEN 1 - e.dir ELSE e.dir
      /\ f.block = (k + 1) % B
      /\ f.vert = [e.vert EXCEPT ![q] = @ \union (IF e.dir = 0 THEN {here} ELSE {})]
      /\ f.horz = [e.horz EXCEPT ![q] = @ \union (IF e.dir = 1 THEN {here} ELSE {})]
  BY <1>2, <1>3
<1>5. f.block = IF k = B - 1 THEN 0 ELSE k + 1
  <2>1. k = B - 1 => (k + 1) % B = 0
    BY <1>1, <1>3
  <2>2. k # B - 1 => (k + 1) % B = k + 1
    BY <1>1, <1>3
  <2>3. QED
    BY <1>4, <2>1, <2>2
<1>6. /\ DOMAIN f.vert = 0 .. 2 /\ DOMAIN f.horz = 0 .. 2
      /\ \A p \in P : p # q => f.vert[p] = e.vert[p] /\ f.horz[p] = e.horz[p]
      /\ f.vert[q] = e.vert[q] \union (IF e.dir = 0 THEN {here} ELSE {})
      /\ f.horz[q] = e.horz[q] \union (IF e.dir = 1 THEN {here} ELSE {})
  BY <1>1, <1>3, <1>4
<1> HIDE DEF f, e, B, P, S, q, k, here
<1>7. EdgeTypes(f)
  BY <1>1, <1>3, <1>4, <1>5, <1>6 DEF EdgeTypes, B
<1>8. VertDone(f)
  <2>1. SUFFICES ASSUME NEW p \in P, NEW s \in 0 .. S, NEW j \in 0 .. B - 1,
                        frame.levels[p + 1],
                        \/ s < S
                        \/ s = S /\ p < f.plane
                        \/ s = S /\ p = f.plane /\ (f.dir = 1 \/ j < f.block)
                 PROVE  <<s, j>> \in f.vert[p]
    BY <1>4 DEF VertDone, P, B
  <2>2. ASSUME \/ s < S
               \/ s = S /\ p < q
               \/ s = S /\ p = q /\ (e.dir = 1 \/ j < k)
        PROVE  <<s, j>> \in e.vert[p]
    BY <1>1, <2>1, <2>2 DEF VertDone, P, B, S, q, k
  <2>3. e.vert[p] \subseteq f.vert[p]
    BY <1>6, <2>1
  <2>4. ~(s < S) => s = S
    BY <1>3, <2>1
  <2>5. CASE s < S
    BY <2>2, <2>3, <2>5
  <2>6. CASE s = S /\ p # q
    <3>1. p \in 0 .. 2
      BY <1>1, <2>1
    <3>2. p < q
      <4>1. ~(s < S) /\ f.plane \in {q, q + 1}
        BY <1>3, <1>4, <2>6
      <4>2. p <= f.plane
        BY <1>3, <2>1, <3>1, <4>1
      <4>3. p = f.plane => f.plane = q
        <5>1. f.plane = q + 1 => f.dir = 0 /\ f.block = 0
          BY <1>3, <1>4, <1>5
        <5>2. ~(j < 0)
          BY <1>1, <2>1
        <5>3. QED
          BY <1>3, <2>1, <3>1, <4>1, <5>1, <5>2
      <4>4. QED
        BY <1>3, <2>6, <3>1, <4>1, <4>2, <4>3
    <3>3. QED
      BY <2>2, <2>3, <2>6, <3>2
  <2>7. CASE s = S /\ p = q
    <3>1. e.dir = 1 \/ j < k \/ j = k
      BY <1>1, <1>3, <1>4, <1>5, <2>1, <2>7
    <3>2. CASE e.dir = 1 \/ j < k
      BY <2>2, <2>3, <2>7, <3>2
    <3>3. CASE e.dir = 0 /\ j = k
      BY <1>6, <2>7, <3>3 DEF here
    <3>4. QED
      BY <1>3, <3>1, <3>2, <3>3
  <2>8. QED
    BY <2>4, <2>5, <2>6, <2>7
<1>9. HorzDone(f)
  <2>1. SUFFICES ASSUME NEW p \in P, NEW b \in f.horz[p]
                 PROVE  /\ b \in Nat \X (0 .. B - 1) /\ frame.levels[p + 1]
                        /\ \/ b[1] < S
                           \/ b[1] = S /\ p < f.plane
                           \/ b[1] = S /\ p = f.plane /\ f.dir = 1
    BY <1>4 DEF HorzDone, P, B
  <2>2. \/ b \in e.horz[p]
        \/ b = here /\ p = q /\ e.dir = 1
    BY <1>6, <2>1
  <2>3. CASE b \in e.horz[p]
    <3>1. /\ b \in Nat \X (0 .. B - 1) /\ frame.levels[p + 1]
          /\ \/ b[1] < S
             \/ b[1] = S /\ p < q
             \/ b[1] = S /\ p = q /\ e.dir = 1
      BY <1>1, <2>1, <2>3 DEF HorzDone, P, B, S, q
    <3>2. p \in 0 .. 2
      BY <1>1, <2>1
    <3>3. /\ p < q => p < f.plane
          /\ p = q /\ e.dir = 1 => (p < f.plane \/ (p = f.plane /\ f.dir = 1))
      BY <1>3, <1>4, <3>2
    <3>4. QED
      BY <3>1, <3>3
  <2>4. CASE b = here /\ p = q /\ e.dir = 1
    <3>1. b \in Nat \X (0 .. B - 1) /\ b[1] = S
      BY <1>3, <2>4 DEF here
    <3>2. p < f.plane \/ (p = f.plane /\ f.dir = 1)
      BY <1>3, <1>4, <2>4
    <3>3. QED
      BY <1>2, <2>4, <3>1, <3>2
  <2>5. QED
    BY <2>2, <2>3, <2>4
<1>10. Between(f)
  BY <1>2, <1>3, <1>4, <1>5 DEF Between, P
<1>11. QED
  BY <1>1, <1>7, <1>8, <1>9, <1>10, EdgeAfter DEF f

(* A plane without a deblocking level, or the end of a strip. *)
LEMMA EdgesSkipped ==
  ASSUME EdgeInv, SkipEdges, UNCHANGED frame
  PROVE  EdgeInv'
<1> DEFINE e == edges
           f == edges'
           B == BlockCount
           P == Planes
           S == e.strip
           q == e.plane
<1>1. /\ frame \in Frames /\ EdgeTypes(e) /\ VertDone(e) /\ HorzDone(e) /\ Between(e)
      /\ B \in Nat \ {0} /\ P \subseteq 0 .. 2
  BY BlocksPositive, PlaneNumbers DEF EdgeInv
<1>2. IF q \in P
      THEN ~frame.levels[q + 1] /\ f = [e EXCEPT !.plane = @ + 1]
      ELSE f = [e EXCEPT !.plane = 0, !.strip = @ + 1]
  BY DEF SkipEdges
<1>3. /\ S \in Nat /\ q \in 0 .. 3
      /\ DOMAIN e = {"strip", "plane", "dir", "block", "vert", "horz"}
      /\ e.dir = 0 /\ e.block = 0
  BY <1>1, <1>2 DEF EdgeTypes, Between
<1>4. /\ DOMAIN f = {"strip", "plane", "dir", "block", "vert", "horz"}
      /\ f.dir = 0 /\ f.block = 0 /\ f.vert = e.vert /\ f.horz = e.horz
      /\ IF q \in P THEN f.plane = q + 1 /\ f.strip = S ELSE f.plane = 0 /\ f.strip = S + 1
  BY <1>2, <1>3
<1>5. q \notin P => \A p \in P : p < q
  BY <1>3, <1>1, PlaneSequence
<1>6. \A p \in P : p \in 0 .. 2
  BY <1>1
<1>7. q \in P => ~frame.levels[q + 1]
  BY <1>2
<1> HIDE DEF f, e, B, P, S, q
<1>8. EdgeTypes(f)
  BY <1>1, <1>3, <1>4, <1>6 DEF EdgeTypes, B, S, q
<1>9. VertDone(f)
  <2>1. SUFFICES ASSUME NEW p \in P, NEW s \in 0 .. f.strip, NEW j \in 0 .. B - 1,
                        frame.levels[p + 1],
                        \/ s < f.strip
                        \/ s = f.strip /\ p < f.plane
                        \/ s = f.strip /\ p = f.plane /\ (f.dir = 1 \/ j < f.block)
                 PROVE  <<s, j>> \in e.vert[p]
    BY <1>4 DEF VertDone, P, B
  <2>2. p # q \/ q \notin P
    BY <1>7, <2>1
  <2>3. ~(j < f.block) /\ f.dir # 1
    BY <1>1, <1>4, <2>1
  <2>4. s \in 0 .. S /\ (s < S \/ (s = S /\ p < q))
    <3>1. CASE q \in P
      BY <1>3, <1>4, <1>6, <2>1, <2>2, <2>3, <3>1
    <3>2. CASE q \notin P
      <4>1. f.strip = S + 1 /\ ~(p < f.plane)
        BY <1>4, <1>6, <3>2
      <4>2. s < S + 1 /\ s \in Nat
        BY <1>3, <2>1, <2>3, <4>1
      <4>3. QED
        BY <1>3, <1>5, <3>2, <4>2
    <3>3. QED
      BY <3>1, <3>2
  <2>5. QED
    BY <1>1, <2>1, <2>4 DEF VertDone, P, B, S, q
<1>10. HorzDone(f)
  <2>1. SUFFICES ASSUME NEW p \in P, NEW b \in e.horz[p]
                 PROVE  /\ b \in Nat \X (0 .. B - 1) /\ frame.levels[p + 1]
                        /\ \/ b[1] < f.strip
                           \/ b[1] = f.strip /\ p < f.plane
                           \/ b[1] = f.strip /\ p = f.plane /\ f.dir = 1
    BY <1>4 DEF HorzDone, P, B
  <2>2. /\ b \in Nat \X (0 .. B - 1) /\ frame.levels[p + 1]
        /\ \/ b[1] < S
           \/ b[1] = S /\ p < q
    BY <1>1, <1>3, <2>1 DEF HorzDone, P, B, S, q
  <2>3. b[1] < f.strip \/ (b[1] = f.strip /\ p < f.plane)
    <3>1. b[1] \in Nat /\ p \in 0 .. 2
      BY <1>6, <2>2
    <3>2. CASE q \in P
      BY <1>3, <1>4, <2>2, <3>1, <3>2
    <3>3. CASE q \notin P
      BY <1>3, <1>4, <2>2, <3>1, <3>3
    <3>4. QED
      BY <3>2, <3>3
  <2>4. QED
    BY <2>2, <2>3
<1>11. Between(f)
  BY <1>4 DEF Between
<1>12. QED
  BY <1>1, <1>8, <1>9, <1>10, <1>11, EdgeAfter DEF f

LEMMA EdgeInvInit == Init => EdgeInv
BY EdgesStart DEF Init, EdgeInv

LEMMA EdgeInvNext == EdgeInv /\ [Next]_vars => EdgeInv'
<1> SUFFICES ASSUME EdgeInv, [Next]_vars PROVE EdgeInv'
  OBVIOUS
<1>1. UNCHANGED frame /\ frame \in Frames
  BY FrameStays DEF EdgeInv
<1>2. CASE FilterEdges
  BY <1>1, <1>2, EdgesFiltered
<1>3. CASE SkipEdges
  BY <1>1, <1>3, EdgesSkipped
<1>4. CASE edges' = edges
  BY <1>1, <1>4, EdgeAfter DEF EdgeInv
<1>5. CASE edges' = NoEdges
  BY <1>1, <1>5, EdgesStart, EdgeAfter
<1>6. edges' = edges \/ edges' = NoEdges \/ FilterEdges \/ SkipEdges
  BY DEF Next, PipeStep, vars, pipeVars, ReadUnits, BeginCdef, CdefInWalk, CancelCdef, EndCdef,
         BeginSuperres, SuperresInWalk, BeginRestoration, RestorationInWalk, CancelRestoration,
         EndRestoration, Returned, TilesDone, BeginDeblock, SkipDeblock, CancelDeblock,
         DeblockDone, Gate, TakeForCdef, CancelTake, PutAfterCdef, CancelPut, CdefPut,
         EndSuperres, SkipRestoration, Cancel
<1>7. QED
  BY <1>2, <1>3, <1>4, <1>5, <1>6

LEMMA EdgesInOrder == EdgeInv => VerticalEdgesFirst
<1> SUFFICES ASSUME EdgeInv, NEW p \in Planes, NEW b \in edges.horz[p],
                    NEW v \in {b[1] - 1, b[1]} \X {b[2], b[2] + 1},
                    v[1] >= 0, v[2] < BlockCount
             PROVE  v \in edges.vert[p]
  BY DEF VerticalEdgesFirst
<1>1. /\ frame \in Frames /\ BlockCount \in Nat /\ edges.strip \in Nat
      /\ edges.plane \in 0 .. 3 /\ VertDone(edges)
  BY BlocksPositive DEF EdgeInv, EdgeTypes
<1>2. /\ b[1] \in Nat /\ b[2] \in 0 .. BlockCount - 1 /\ frame.levels[p + 1]
      /\ \/ b[1] < edges.strip
         \/ b[1] = edges.strip /\ p < edges.plane
         \/ b[1] = edges.strip /\ p = edges.plane /\ edges.dir = 1
  BY DEF EdgeInv, HorzDone
<1>3. v = <<v[1], v[2]>> /\ v[1] \in {b[1] - 1, b[1]} /\ v[2] \in {b[2], b[2] + 1}
  OBVIOUS
<1>4. /\ v[1] \in 0 .. edges.strip /\ v[2] \in 0 .. BlockCount - 1
      /\ \/ v[1] < edges.strip
         \/ v[1] = edges.strip /\ p < edges.plane
         \/ v[1] = edges.strip /\ p = edges.plane /\ edges.dir = 1
  BY <1>1, <1>2, <1>3
<1>5. QED
  BY <1>1, <1>2, <1>3, <1>4 DEF VertDone

(* The frame is filtered in the format's order: no horizontal edge before the
   vertical edges that reach its samples; a finished frame is whole and has been
   through the stages its header calls for, once and in order; and no plane stays
   taken out, however the pipeline ends. *)
THEOREM FrameFilteredHolds == Spec => []FrameFiltered
<1>1. PipeInv /\ EdgeInv => FrameFiltered
  <2> SUFFICES ASSUME PipeInv, EdgeInv PROVE FrameFiltered
    OBVIOUS
  <2>1. VerticalEdgesFirst
    BY EdgesInOrder
  <2>2. ASSUME stage = "done", NEW p \in Planes
        PROVE  /\ store[p] = "here"
               /\ recon[p] = DeblockLabel(p) \o CdefLabel \o SuperresLabel \o LrLabel(p)
    BY <2>2 DEF PipeInv, PipeFacts, Histories, Stores, Here
  <2>3. ASSUME stage = "stopped", NEW p \in Planes
        PROVE  store[p] # "taken"
    BY <2>3 DEF PipeInv, PipeFacts, Stores
  <2>4. QED
    BY <2>1, <2>2, <2>3 DEF FrameFiltered
<1>2. QED
  BY <1>1, PipeInvInit, PipeInvNext, EdgeInvInit, EdgeInvNext, PTL DEF Spec

-----------------------------------------------------------------------------
(* Superres: the tile columns                                              *)

LEMMA OneIs == One \in Nat \ {0}
<1> DEFINE S == SUBSET (1 .. SubpelBits)
<1>1. SubpelBits \in Nat
  BY SubpelAssumption
<1>2. IsFiniteSet(1 .. SubpelBits) /\ Cardinality(1 .. SubpelBits) = SubpelBits
  BY <1>1, FS_Interval
<1>3. IsFiniteSet(S) /\ Cardinality(S) = 2 ^ Cardinality(1 .. SubpelBits)
  BY <1>2, FS_SUBSET, Zenon
<1>4. Cardinality(S) \in Nat /\ Cardinality(S) # 0
  <2>1. S # {}
    OBVIOUS
  <2> HIDE DEF S
  <2>2. QED
    BY <1>3, <2>1, FS_CardinalityType, FS_EmptySet
<1>5. QED
  BY <1>2, <1>3, <1>4 DEF One

LEMMA PlaneSizes ==
  ASSUME frame \in Frames, NEW p \in Planes
  PROVE  /\ SsX(p) \in {0, 1} /\ SsY(p) \in {0, 1}
         /\ PlaneWidth(p) \in Nat \ {0} /\ PlaneHeight(p) \in Nat \ {0}
         /\ InLength(p) \in Nat \ {0} /\ OutLength(p) \in Nat \ {0}
<1>1. SsX(p) \in {0, 1} /\ SsY(p) \in {0, 1} /\ frame.w \in Nat \ {0} /\ frame.h \in Nat \ {0}
  BY FrameFields DEF SsX, SsY
<1>2. CodedFrameWidth \in Nat \ {0}
  BY CodedWidthPositive
<1>3. \A a \in Nat \ {0} : \A s \in {0, 1} : (a + s) \div (1 + s) \in Nat \ {0}
  OBVIOUS
<1>4. QED
  BY <1>1, <1>2, <1>3 DEF PlaneWidth, PlaneHeight, InLength, OutLength

LEMMA QuotIs == \A a \in Int, b \in Nat \ {0} : Quot(a, b) \in Int
BY Divided DEF Quot

LEMMA StepsAre ==
  ASSUME NEW in \in Nat \ {0}, NEW out \in Nat \ {0}
  PROVE  Step(in, out) \in Int /\ FirstX(in, out) \in Int
<1>1. One \in Nat \ {0} /\ in * One \in Nat /\ out \div 2 \in Nat
  BY OneIs
<1>2. Step(in, out) \in Int
  BY <1>1, Divided DEF Step
<1>3. Step(in, out) * out \in Int /\ out * Step(in, out) \in Int
  BY <1>2
<1> DEFINE err == out * Step(in, out) - in * One
           turn == -((out - in) * (One \div 2)) + out \div 2
<1>4. err \in Int
  BY <1>1, <1>3
<1>5. One \div 2 \in Int /\ One \div 128 \in Int
  BY <1>1
<1>6. turn \in Int
  BY <1>1, <1>5
<1> HIDE DEF err, turn
<1>7. Quot(turn, out) \in Int /\ Quot(err, 2) \in Int
  BY <1>4, <1>6, QuotIs
<1> DEFINE first == Quot(turn, out) + One \div 128 - Quot(err, 2)
<1>8. first \in Int
  BY <1>5, <1>7
<1>9. FirstX(in, out) = first % One
  BY DEF FirstX, err, turn
<1> HIDE DEF first
<1>10. QED
  BY <1>1, <1>2, <1>8, <1>9, Divided

LEMMA Scaled ==
  ASSUME NEW a \in Int, NEW b \in Int, NEW n \in Nat, a <= b
  PROVE  a * n <= b * n
<1> DEFINE k == b - a
<1>1. k \in Nat /\ b = a + k
  OBVIOUS
<1>2. k * n \in Nat /\ b * n = a * n + k * n
  BY <1>1
<1>3. QED
  BY <1>2

(* The columns of an upscaled plane follow each other. *)
LEMMA TileColumns ==
  ASSUME frame \in Frames, NEW p \in Planes
  PROVE  /\ TileCols \in Nat \ {0} /\ TileX(p, 0) = 0 /\ UpscaledX(p, 0) = 0
         /\ \A j \in 0 .. TileCols : TileX(p, j) \in Nat /\ UpscaledX(p, j) \in Nat
         /\ UpscaledX(p, TileCols) = OutLength(p)
         /\ \A j \in 0 .. TileCols - 2 : UpscaledX(p, j) <= UpscaledX(p, j + 1)
<1> DEFINE t == frame.tiles
           c == 4 \div (1 + SsX(p))
           d == frame.denom
<1>1. /\ t \in Seq(Nat) /\ t # <<>> /\ t[1] = 0 /\ d \in Nat
      /\ \A j \in DOMAIN t : j + 1 \in DOMAIN t => t[j] < t[j + 1]
  BY FrameFields DEF TilesOK
<1>2. TileCols \in Nat \ {0} /\ TileCols = Len(t) /\ DOMAIN t = 1 .. Len(t)
  BY <1>1 DEF TileCols
<1>3. c \in Nat /\ MiCols \in Nat /\ OutLength(p) \in Nat
  <2>1. SsX(p) \in {0, 1} /\ OutLength(p) \in Nat
    BY PlaneSizes
  <2>2. MiCols \in Nat
    BY CodedWidthPositive, MiDimPositive DEF MiCols
  <2>3. QED
    BY <2>1, <2>2
<1>4. \A j \in 0 .. TileCols : TileX(p, j) = (IF j < Len(t) THEN t[j + 1] ELSE MiCols) * c
  BY DEF TileX
<1> HIDE DEF t, c, d
<1>5. \A j \in 0 .. TileCols : j < Len(t) => t[j + 1] \in Nat
  BY <1>1, <1>2
<1>6. \A a, b \in Nat : a * b \in Nat
  OBVIOUS
<1>7. ASSUME NEW j \in 0 .. TileCols PROVE TileX(p, j) \in Nat
  <2> DEFINE first == IF j < Len(t) THEN t[j + 1] ELSE MiCols
  <2>1. first \in Nat
    BY <1>3, <1>5
  <2>2. TileX(p, j) = first * c
    BY <1>4
  <2> HIDE DEF first
  <2>3. QED
    BY <1>3, <1>6, <2>1, <2>2
<1>8. \A j \in 0 .. TileCols : j # TileCols => UpscaledX(p, j) = (TileX(p, j) * d) \div 8
  BY DEF UpscaledX, d
<1>9. \A a \in Nat : a \div 8 \in Nat
  OBVIOUS
<1>10. \A j \in 0 .. TileCols : UpscaledX(p, j) \in Nat
  BY <1>1, <1>3, <1>6, <1>7, <1>8, <1>9 DEF UpscaledX
<1>11. TileX(p, 0) = 0
  <2>1. 0 \in 0 .. TileCols /\ 0 < Len(t) /\ t[0 + 1] = 0
    BY <1>1, <1>2
  <2>2. TileX(p, 0) = 0 * c
    BY <1>4, <2>1
  <2>3. QED
    BY <1>3, <2>2
<1>12. UpscaledX(p, 0) = 0
  <2>1. UpscaledX(p, 0) = (0 * d) \div 8
    BY <1>2, <1>8, <1>11
  <2>2. QED
    BY <1>1, <2>1
<1>13. UpscaledX(p, TileCols) = OutLength(p)
  BY DEF UpscaledX
<1>14. ASSUME NEW j \in 0 .. TileCols - 2
       PROVE  UpscaledX(p, j) <= UpscaledX(p, j + 1)
  <2> DEFINE i == j + 1
             a == TileX(p, j) * d
             b == TileX(p, i) * d
  <2>1. /\ j \in 0 .. TileCols /\ i \in 0 .. TileCols /\ j # TileCols /\ i # TileCols
        /\ j < Len(t) /\ i < Len(t) /\ i \in 1 .. Len(t) /\ i + 1 \in 1 .. Len(t)
    BY <1>2
  <2>2. TileX(p, j) = t[i] * c /\ TileX(p, i) = t[i + 1] * c
    BY <1>4, <2>1
  <2>3. t[i] \in Nat /\ t[i + 1] \in Nat /\ t[i] <= t[i + 1]
    <3>1. t[i] \in Nat
      BY <1>5, <2>1
    <3>2. t[i + 1] \in Nat
      BY <1>5, <2>1
    <3> HIDE DEF i
    <3>3. t[i] < t[i + 1]
      BY <1>1, <1>2, <2>1
    <3>4. QED
      BY <3>1, <3>2, <3>3
  <2>4. TileX(p, j) <= TileX(p, i)
    BY <1>3, <2>2, <2>3, Scaled
  <2>5. a \in Nat /\ b \in Nat /\ a <= b
    BY <1>1, <1>6, <1>7, <2>1, <2>4, Scaled
  <2>6. UpscaledX(p, j) = a \div 8 /\ UpscaledX(p, i) = b \div 8
    BY <1>8, <2>1
  <2> HIDE DEF a, b
  <2>7. a \div 8 <= b \div 8
    BY <2>5
  <2>8. QED
    BY <2>6, <2>7
<1>15. QED
  BY <1>2, <1>7, <1>10, <1>11, <1>12, <1>13, <1>14

(* The columns behind the current one are written, each sample at the position it
   has in a plane of a single column; the current one begins where it would there. *)
Upscaled(p, j, x0_, w) ==
  LET in == InLength(p)
      out == OutLength(p)
  IN /\ TileX(p, j) * One + x0_ = FirstX(in, out) + UpscaledX(p, j) * Step(in, out)
     /\ x0_ \in Int
     /\ w = [x \in 0 .. out - 1 |-> IF x < UpscaledX(p, j)
                                    THEN <<FirstX(in, out) + x * Step(in, out)>> ELSE <<>>]

SuperresInv ==
  /\ frame \in Frames
  /\ srPc = "column" =>
       /\ srPlane \in Planes /\ column \in 0 .. TileCols
       /\ Upscaled(srPlane, column, x0qn, written)

LEMMA SuperresAfter ==
  ASSUME frame \in Frames, UNCHANGED frame,
         srPc' = "column" =>
           /\ srPlane' \in Planes /\ column' \in 0 .. TileCols
           /\ Upscaled(srPlane', column', x0qn', written')
  PROVE  SuperresInv'
<1>1. Planes' = Planes /\ TileCols' = TileCols
  BY DEF Planes, TileCols
<1>2. /\ InLength(srPlane)' = InLength(srPlane') /\ OutLength(srPlane)' = OutLength(srPlane')
      /\ TileX(srPlane, column)' = TileX(srPlane', column')
      /\ UpscaledX(srPlane, column)' = UpscaledX(srPlane', column')
  BY DEF InLength, OutLength, TileX, UpscaledX, TileCols, PlaneWidth, SsX, CodedFrameWidth, MiCols
<1>3. Upscaled(srPlane, column, x0qn, written)' <=> Upscaled(srPlane', column', x0qn', written')
  BY <1>2 DEF Upscaled
<1>4. QED
  BY <1>1, <1>3 DEF SuperresInv

LEMMA PlaneUpscaled ==
  ASSUME frame \in Frames, UNCHANGED frame, NEW p \in Planes, UpscalePlane(p)
  PROVE  SuperresInv'
<1> DEFINE in == InLength(p)
           out == OutLength(p)
<1>1. in \in Nat \ {0} /\ out \in Nat \ {0} /\ One \in Nat
  BY PlaneSizes, OneIs
<1>2. Step(in, out) \in Int /\ FirstX(in, out) \in Int
  BY <1>1, StepsAre
<1>3. TileCols \in Nat \ {0} /\ TileX(p, 0) = 0 /\ UpscaledX(p, 0) = 0
  BY TileColumns
<1>4. /\ srPlane' = p /\ column' = 0 /\ x0qn' = FirstX(in, out)
      /\ written' = [x \in 0 .. out - 1 |-> <<>>]
  BY DEF UpscalePlane
<1>5. Upscaled(p, 0, FirstX(in, out), written')
  <2>1. \A x \in 0 .. out - 1 : ~(x < 0)
    BY <1>1
  <2>2. written' = [x \in 0 .. out - 1 |-> IF x < UpscaledX(p, 0)
                                           THEN <<FirstX(in, out) + x * Step(in, out)>> ELSE <<>>]
    BY <1>3, <1>4, <2>1
  <2>3. TileX(p, 0) * One + FirstX(in, out) = FirstX(in, out) + UpscaledX(p, 0) * Step(in, out)
    BY <1>1, <1>2, <1>3
  <2>4. QED
    BY <1>2, <2>2, <2>3 DEF Upscaled
<1>6. QED
  BY <1>3, <1>4, <1>5, SuperresAfter

LEMMA ColumnUpscaled ==
  ASSUME SuperresInv, UNCHANGED frame, SuperresColumn
  PROVE  SuperresInv'
<1> DEFINE p == srPlane
           in == InLength(p)
           out == OutLength(p)
           step == Step(in, out)
           first == FirstX(in, out)
           from == UpscaledX(p, column)
           to == UpscaledX(p, column + 1)
           start == TileX(p, column)
           next == TileX(p, column + 1)
<1>1. /\ frame \in Frames /\ p \in Planes /\ column \in 0 .. TileCols - 1
      /\ Upscaled(p, column, x0qn, written)
  BY TileColumns DEF SuperresInv, SuperresColumn
<1>2. /\ srPlane' = p /\ column' = column + 1
      /\ written' = [x \in DOMAIN written |->
                       IF x \in from .. to - 1
                       THEN Append(written[x], start * One + x0qn + (x - from) * step)
                       ELSE written[x]]
      /\ x0qn' = x0qn + (to - from) * step - (next - start) * One
  BY DEF SuperresColumn
<1>3. /\ out \in Nat \ {0} /\ One \in Nat /\ step \in Int /\ first \in Int /\ x0qn \in Int
      /\ start * One + x0qn = first + from * step
      /\ written = [x \in 0 .. out - 1 |-> IF x < from THEN <<first + x * step>> ELSE <<>>]
  BY <1>1, PlaneSizes, OneIs, StepsAre DEF Upscaled
<1>4. column + 1 \in 0 .. TileCols /\ column \in 0 .. TileCols /\ TileCols \in Nat
  BY <1>1, TileColumns
<1>5. from \in Nat /\ to \in Nat /\ start \in Nat /\ next \in Nat
  BY <1>1, <1>4, TileColumns
<1>6. from <= to \/ to = out
  <2>1. CASE column + 1 = TileCols
    BY <1>1, <2>1, TileColumns
  <2>2. CASE column + 1 # TileCols
    <3>1. column \in 0 .. TileCols - 2
      BY <1>1, <1>4, <2>2
    <3>2. QED
      BY <1>1, <3>1, TileColumns
  <2>3. QED
    BY <2>1, <2>2
<1> HIDE DEF p, in, out, step, first, from, to, start, next
<1>7. next * One + x0qn' = first + to * step /\ x0qn' \in Int
  <2> DEFINE a == start * One
             b == next * One
             c == from * step
             d == to * step
  <2>1. a \in Int /\ b \in Int /\ c \in Int /\ d \in Int
    BY <1>3, <1>5
  <2>2. (to - from) * step = d - c /\ (next - start) * One = b - a
    BY <1>3, <1>5
  <2>3. x0qn' = x0qn + (d - c) - (b - a) /\ a + x0qn = first + c
    BY <1>2, <1>3, <2>2
  <2> HIDE DEF a, b, c, d
  <2>4. b + x0qn' = first + d /\ x0qn' \in Int
    BY <1>3, <2>1, <2>3
  <2>5. QED
    BY <2>4 DEF b, d
<1>8. written' = [x \in 0 .. out - 1 |-> IF x < to THEN <<first + x * step>> ELSE <<>>]
  <2>1. ASSUME NEW x \in 0 .. out - 1
        PROVE  written'[x] = IF x < to THEN <<first + x * step>> ELSE <<>>
    <3>1. x \in Nat
      BY <1>3
    <3>2. CASE x < from
      <4>1. ~(x \in from .. to - 1) /\ x < to
        BY <1>3, <1>5, <1>6, <3>1, <3>2
      <4>2. written'[x] = written[x]
        BY <1>2, <1>3, <4>1
      <4>3. QED
        BY <1>3, <3>2, <4>1, <4>2
    <3>3. CASE ~(x < from) /\ x < to
      <4>1. x \in from .. to - 1
        BY <1>5, <3>1, <3>3
      <4>2. written[x] = <<>>
        BY <1>3, <3>3
      <4>3. written'[x] = Append(<<>>, start * One + x0qn + (x - from) * step)
        BY <1>2, <1>3, <4>1, <4>2
      <4>4. start * One + x0qn + (x - from) * step = first + x * step
        <5>1. (x - from) * step = x * step - from * step
          BY <1>3, <1>5, <3>1
        <5> DEFINE c == from * step
                   e == x * step
                   a == start * One
        <5>2. c \in Int /\ e \in Int /\ a \in Int
          BY <1>3, <1>5, <3>1
        <5>3. a + x0qn = first + c /\ (x - from) * step = e - c
          BY <1>3, <5>1
        <5> HIDE DEF a, c, e
        <5>4. a + x0qn + (e - c) = first + e
          BY <1>3, <5>2, <5>3
        <5>5. QED
          BY <5>3, <5>4 DEF a, e
      <4>5. \A y : Append(<<>>, y) = <<y>>
        OBVIOUS
      <4>6. QED
        BY <3>3, <4>3, <4>4, <4>5
    <3>4. CASE ~(x < from) /\ ~(x < to)
      <4>1. ~(x \in from .. to - 1)
        BY <1>5, <3>1, <3>4
      <4>2. QED
        BY <1>2, <1>3, <3>4, <4>1
    <3>5. QED
      BY <3>2, <3>3, <3>4
  <2>2. DOMAIN written' = 0 .. out - 1 /\ written' = [x \in 0 .. out - 1 |-> written'[x]]
    BY <1>2, <1>3
  <2>3. QED
    BY <2>1, <2>2
<1>9. Upscaled(p, column + 1, x0qn', written')
  BY <1>7, <1>8 DEF Upscaled, in, out, step, first, to, next
<1>10. QED
  BY <1>1, <1>2, <1>4, <1>9, SuperresAfter DEF p

LEMMA SuperresInvInit == Init => SuperresInv
BY DEF Init, SuperresInv

LEMMA SuperresInvNext == SuperresInv /\ [Next]_vars => SuperresInv'
<1> SUFFICES ASSUME SuperresInv, [Next]_vars PROVE SuperresInv'
  OBVIOUS
<1>1. UNCHANGED frame /\ frame \in Frames
  BY FrameStays DEF SuperresInv
<1>2. CASE SuperresStart
  <2>1. 0 \in Planes
    BY <1>1, PlaneNumbers
  <2>2. QED
    BY <1>1, <1>2, <2>1, PlaneUpscaled DEF SuperresStart
<1>3. CASE SuperresColumn
  BY <1>1, <1>3, ColumnUpscaled
<1>4. CASE SuperresNext
  <2>1. CASE srPlane + 1 \in Planes
    BY <1>1, <1>4, <2>1, PlaneUpscaled DEF SuperresNext
  <2>2. CASE srPlane + 1 \notin Planes
    <3>1. srPc' = "done"
      BY <1>4, <2>2 DEF SuperresNext
    <3>2. QED
      BY <1>1, <3>1, SuperresAfter
  <2>3. QED
    BY <2>1, <2>2
<1>5. CASE UNCHANGED srVars
  <2>1. /\ srPc' = srPc /\ srPlane' = srPlane /\ column' = column /\ x0qn' = x0qn
        /\ written' = written
    BY <1>5 DEF srVars, upscaleVars
  <2>2. QED
    BY <1>1, <2>1, SuperresAfter DEF SuperresInv
<1>6. QED
  BY <1>2, <1>3, <1>4, <1>5
     DEF Next, vars, ReadUnits, BeginCdef, CdefInWalk, CancelCdef, EndCdef, BeginSuperres,
         SuperresInWalk, BeginRestoration, RestorationInWalk, CancelRestoration,
         EndRestoration, Returned

(* The tile columns leave no trace in where a plane is sampled: upscale_plane
   takes every sample of the upscaled plane once, at the position it would have in
   a frame of one column, for every frame width, denominator, subsampling and set
   of tile columns.  The samples and the borders of a column are not part of it. *)
THEOREM TileColumnsInvisibleHolds == Spec => []TileColumnsInvisible
<1>1. SuperresInv => TileColumnsInvisible
  <2> SUFFICES ASSUME SuperresInv, srPc = "column", column = TileCols,
                      NEW x \in 0 .. OutLength(srPlane) - 1
               PROVE  written[x] = <<FirstX(InLength(srPlane), OutLength(srPlane))
                                     + x * Step(InLength(srPlane), OutLength(srPlane))>>
    BY DEF TileColumnsInvisible
  <2> DEFINE out == OutLength(srPlane)
  <2>1. frame \in Frames /\ srPlane \in Planes /\ Upscaled(srPlane, column, x0qn, written)
    BY DEF SuperresInv
  <2>2. UpscaledX(srPlane, column) = out /\ out \in Nat
    BY <2>1, TileColumns, PlaneSizes
  <2>3. x < out
    BY <2>2
  <2>4. QED
    BY <2>1, <2>2, <2>3 DEF Upscaled
<1>2. QED
  BY <1>1, SuperresInvInit, SuperresInvNext, PTL DEF Spec

-----------------------------------------------------------------------------
(* Loop restoration: the units, the stripes and their context              *)

(* Unit k of size n along an extent of E begins at y. *)
UnitAt(n, E, k, y) ==
  k \in Nat /\ y \in Nat /\ y = k * n /\ y < E /\ (k = 0 \/ (k + 1) * n <= E + n \div 2)

(* The rows of the unit that begins at row y, and the stripe at row st of it. *)
StartOf(y) == IF y < Voffset THEN 0 ELSE y - Voffset
EndOf(y) == y + UnitExtent(Height - y) - IF y + UnitExtent(Height - y) < Height THEN Voffset ELSE 0
BoundaryOf(st) == st + StripeHeight - IF st = 0 THEN Voffset ELSE 0
OnStripe(r) == (r + Voffset) % StripeHeight = 0
StripeAt(y, st) == st \in StartOf(y) .. EndOf(y) - 1 /\ (st = 0 \/ OnStripe(st))
StripeEndOf(st) == IF BoundaryOf(st) < Height THEN BoundaryOf(st) ELSE Height

ColumnAt(x) == x \div UnitSize(lrPlane)
LineOf(x) == 2 * ColumnAt(x) - 1 .. 2 * ColumnAt(x) + 2

FreshRows == [r \in -Border .. Height - 1 + Border |-> RowOf("current", Clamp(r, Height))]
SavedAbove == [s \in 0 .. StripeCount - 1 |-> IF OptimizedLr THEN Unsaved ELSE SaveAbove(s)]
SavedBelow == [s \in 0 .. StripeCount - 1 |-> IF OptimizedLr THEN Unsaved ELSE SaveBelow(s)]

(* The unit that row r belongs to, in unit column j. *)
Owner(r, j) ==
  LET urow == (r + Voffset) \div UnitSize(lrPlane)
      last == VertUnits(lrPlane) - 1
  IN (IF urow < last THEN urow ELSE last) * HorzUnits(lrPlane) + j

(* The rows written: all of those above the unit row, and, of its own, those of
   the unit columns before column u and, in column u, those above row st. *)
WrittenTo(d, first, end, u, st) ==
  d = [r \in 0 .. Height - 1 |-> [j \in 0 .. HorzUnits(lrPlane) - 1 |->
         IF r < first \/ (r < end /\ (j < u \/ (j = u /\ r < st)))
         THEN <<Owner(r, j)>> ELSE <<>>]]

(* The context of the stripe at row st, in the columns of the unit at x. *)
Outside(st, r) ==
  (r < st /\ st > 0) \/ (r >= StripeEndOf(st) /\ StripeEndOf(st) < Height)
NearestRow(st, r) ==
  IF r < st - 2 THEN st - 2
  ELSE IF r > StripeEndOf(st) + 1 THEN StripeEndOf(st) + 1 ELSE r
ContextRow(st, r) ==
  RowOf(IF Outside(st, r) /\ ~OptimizedLr THEN "deblocked" ELSE "current",
        Clamp(IF Outside(st, r) THEN NearestRow(st, r) ELSE r, Height))
ContextShown(x, st, w) ==
  \A r \in st - 3 .. StripeEndOf(st) + 2, c \in LineOf(x) : w[r][c] = ContextRow(st, r)[c]

(* The working copy is the frame but for the rows that are kept. *)
PutBack(x, w, kp) ==
  /\ DOMAIN w = DOMAIN FreshRows
  /\ \A r \in DOMAIN FreshRows :
       IF r \in DOMAIN kp
       THEN /\ DOMAIN w[r] = Padded /\ kp[r] = FreshRows[r]
            /\ \A c \in Padded : c \notin LineOf(x) => w[r][c] = FreshRows[r][c]
       ELSE w[r] = FreshRows[r]

LrFacts(pc, y, k, x, st, ab, be, w, kp, d) ==
  /\ pc \in {"row", "setup", "filter"} =>
       lrPlane \in Restored /\ ab = SavedAbove /\ be = SavedBelow
  /\ pc \in {"row", "setup"} => w = FreshRows
  /\ pc = "row" =>
       \/ UnitAt(UnitSize(lrPlane), Height, k, y) /\ WrittenTo(d, StartOf(y), 0, 0, 0)
       \/ y = Height /\ WrittenTo(d, Height, 0, 0, 0)
  /\ pc \in {"setup", "filter"} =>
       /\ UnitAt(UnitSize(lrPlane), Height, k, y)
       /\ UnitAt(UnitSize(lrPlane), PlaneWidth(lrPlane), ColumnAt(x), x)
       /\ StripeAt(y, st)
       /\ WrittenTo(d, StartOf(y), EndOf(y), ColumnAt(x), st)
  /\ pc = "filter" => ContextShown(x, st, w) /\ PutBack(x, w, kp)

LrInv ==
  /\ frame \in Frames /\ lrPlane \in Nat
  /\ lrPc \in {"off", "plane", "row", "setup", "filter", "done", "stopped"}
  /\ LrFacts(lrPc, y0, rowNumber, x0, stripe, above, below, work, kept, dst)

(* Multiples. *)
LEMMA DivUnique ==
  ASSUME NEW b \in Nat \ {0}, NEW q \in Int, NEW r \in 0 .. b - 1
  PROVE  (b * q + r) \div b = q /\ (b * q + r) % b = r
<1> DEFINE a == b * q + r
           d == a \div b
<1>1. a \in Int /\ b * q \in Int
  OBVIOUS
<1>2. d \in Int /\ b * d \in Int /\ a % b \in 0 .. b - 1 /\ a = b * d + (a % b)
  BY <1>1, Divided
<1>3. ~(d < q)
  <2>1. SUFFICES ASSUME d < q PROVE FALSE
    OBVIOUS
  <2>2. b * d + b <= b * q
    BY <1>2, <2>1, Further
  <2> HIDE DEF d
  <2>3. QED
    BY <1>1, <1>2, <2>2
<1>4. ~(q < d)
  <2>1. SUFFICES ASSUME q < d PROVE FALSE
    OBVIOUS
  <2>2. b * q + b <= b * d
    BY <1>2, <2>1, Further
  <2> HIDE DEF d
  <2>3. QED
    BY <1>1, <1>2, <2>2
<1>5. d = q
  BY <1>2, <1>3, <1>4
<1>6. b * d = b * q
  BY <1>5
<1> HIDE DEF d
<1>7. a % b = r
  BY <1>1, <1>2, <1>6
<1>8. QED
  BY <1>5, <1>7 DEF d

LEMMA MultipleOf ==
  ASSUME NEW b \in Nat \ {0}, NEW a \in Int, a % b = 0
  PROVE  a \div b \in Int /\ a = b * (a \div b)
<1>1. a \div b \in Int /\ a = b * (a \div b) + (a % b) /\ b * (a \div b) \in Int
  BY Divided
<1>2. QED
  BY <1>1

LEMMA MultipleIs ==
  ASSUME NEW b \in Nat \ {0}, NEW q \in Int
  PROVE  b * q \in Int /\ (b * q) % b = 0
<1>1. 0 \in 0 .. b - 1 /\ b * q \in Int /\ b * q + 0 = b * q
  OBVIOUS
<1>2. (b * q + 0) % b = 0
  BY <1>1, DivUnique
<1>3. QED
  BY <1>1, <1>2

LEMMA Multiples ==
  ASSUME NEW b \in Nat \ {0}, NEW a \in Int, NEW c \in Int, a % b = 0, c % b = 0
  PROVE  (a + c) % b = 0 /\ (a - c) % b = 0 /\ (a < c => a + b <= c)
<1> DEFINE i == a \div b
           j == c \div b
<1>1. i \in Int /\ a = b * i
  BY MultipleOf
<1>2. j \in Int /\ c = b * j
  BY MultipleOf
<1> HIDE DEF i, j
<1>3. a + c = b * (i + j) /\ a - c = b * (i - j) /\ i + j \in Int /\ i - j \in Int
  BY <1>1, <1>2
<1>4. a < c => a + b <= c
  <2>1. SUFFICES ASSUME a < c PROVE a + b <= c
    OBVIOUS
  <2>2. i < j
    <3>1. SUFFICES ASSUME j <= i PROVE FALSE
      BY <1>1, <1>2
    <3>2. j * b <= i * b
      BY <1>1, <1>2, <3>1, Scaled
    <3>3. QED
      BY <1>1, <1>2, <2>1, <3>2
  <2>3. b * i + b <= b * j
    BY <1>1, <1>2, <2>2, Further
  <2>4. QED
    BY <1>1, <1>2, <2>3
<1>5. (a + c) % b = 0
  <2>1. (b * (i + j)) % b = 0
    BY <1>3, MultipleIs
  <2>2. QED
    BY <1>3, <2>1
<1>6. (a - c) % b = 0
  <2>1. (b * (i - j)) % b = 0
    BY <1>3, MultipleIs
  <2>2. QED
    BY <1>3, <2>1
<1>7. QED
  BY <1>4, <1>5, <1>6

LEMMA MultipleTimes ==
  ASSUME NEW b \in Nat \ {0}, NEW n \in Nat, NEW k \in Nat, n % b = 0
  PROVE  (k * n) % b = 0
<1> DEFINE i == n \div b
<1>1. i \in Int /\ n = b * i
  BY MultipleOf
<1> HIDE DEF i
<1>2. k * n = b * (k * i) /\ k * i \in Int
  BY <1>1
<1>3. (b * (k * i)) % b = 0
  BY <1>2, MultipleIs
<1>4. QED
  BY <1>2, <1>3

(* A restoration unit is made of whole stripes, on every plane. *)
LEMMA UnitGeometry ==
  ASSUME frame \in Frames, NEW p \in Restored
  PROVE  /\ p \in Planes /\ PlaneHeight(p) \in Nat \ {0} /\ PlaneWidth(p) \in Nat \ {0}
         /\ UnitSize(p) \in Nat \ {0} /\ UnitSize(p) % 2 = 0 /\ UnitSize(p) >= 4
         /\ UnitSize(p) % (BlockPx \div (1 + SsY(p))) = 0
         /\ UnitSize(p) >= BlockPx \div (1 + SsY(p))
<1> DEFINE n == UnitSize(p)
           s == BlockPx \div (1 + SsY(p))
<1>1. p \in Planes /\ frame.lr[p + 1] /\ p \in 0 .. 2
  BY PlaneNumbers DEF Restored
<1>2. SsY(p) \in {0, 1} /\ PlaneHeight(p) \in Nat \ {0} /\ PlaneWidth(p) \in Nat \ {0}
  BY <1>1, PlaneSizes
<1>3. s \in Nat \ {0} /\ s >= 4 /\ s % 2 = 0
  BY <1>2, GeometryAssumption, RestorationAssumption
<1>4. n \in Nat \ {0} /\ n % s = 0
  <2>1. /\ p + 1 \in 1 .. 3
        /\ frame.usize[p + 1] \in Nat \ {0}
        /\ frame.usize[p + 1] % (BlockPx \div (IF p + 1 > 1 THEN 1 + frame.ssy ELSE 1)) = 0
    BY <1>1, FrameFields DEF UnitsOK
  <2>2. (IF p + 1 > 1 THEN 1 + frame.ssy ELSE 1) = 1 + SsY(p)
    BY <1>1 DEF SsY
  <2>3. QED
    BY <2>1, <2>2 DEF UnitSize
<1>5. n >= s /\ n % 2 = 0
  <2> DEFINE i == n \div s
             j == s \div 2
  <2> HIDE DEF n, s
  <2>1. i \in Int /\ n = s * i
    BY <1>3, <1>4, MultipleOf
  <2>2. j \in Int /\ s = 2 * j
    BY <1>3
  <2> HIDE DEF i, j
  <2>3. i >= 1
    <3>1. SUFFICES ASSUME i <= 0 PROVE FALSE
      BY <2>1
    <3>2. i * s <= 0 * s
      BY <1>3, <2>1, <3>1, Scaled
    <3>3. QED
      BY <1>3, <1>4, <2>1, <3>2
  <2>4. 1 * s <= i * s
    BY <1>3, <2>1, <2>3, Scaled
  <2>5. n = 2 * (j * i) /\ j * i \in Int
    BY <2>1, <2>2
  <2>6. n % 2 = 0
    BY <2>5, MultipleIs
  <2>7. QED
    BY <1>3, <1>4, <2>1, <2>4, <2>6
<1>6. QED
  BY <1>1, <1>2, <1>3, <1>4, <1>5

LEMMA LrGeometry ==
  ASSUME frame \in Frames, lrPlane \in Restored
  PROVE  /\ lrPlane \in Planes
         /\ Height \in Nat \ {0} /\ PlaneWidth(lrPlane) \in Nat \ {0}
         /\ StripeHeight \in Nat \ {0} /\ Voffset \in Nat \ {0} /\ StripeHeight > Voffset + 2
         /\ UnitSize(lrPlane) \in Nat \ {0} /\ UnitSize(lrPlane) % StripeHeight = 0
         /\ UnitSize(lrPlane) >= StripeHeight /\ UnitSize(lrPlane) % 2 = 0
<1>1. lrPlane \in Planes /\ SsY(lrPlane) \in {0, 1}
  BY UnitGeometry, PlaneSizes
<1>2. StripeHeight \in Nat \ {0} /\ Voffset \in Nat \ {0} /\ StripeHeight > Voffset + 2
  BY <1>1, GeometryAssumption, RestorationAssumption DEF StripeHeight, Voffset
<1>3. QED
  BY <1>1, <1>2, UnitGeometry DEF Height, StripeHeight

(* The units along an extent are counted right: unit k is the last one just when
   less than one and a half units are left. *)
LEMMA UnitsAlong ==
  ASSUME NEW n \in Nat \ {0}, NEW E \in Nat \ {0}, NEW k \in Nat, NEW y \in Nat, n % 2 = 0, UnitAt(n, E, k, y)
  PROVE  /\ CountUnits(n, E) \in Nat \ {0}
         /\ y \in Nat /\ k \in 0 .. CountUnits(n, E) - 1 /\ y \div n = k
         /\ E - y < (n * 3) \div 2 => k = CountUnits(n, E) - 1
         /\ ~(E - y < (n * 3) \div 2) =>
              k < CountUnits(n, E) - 1 /\ y + n < E /\ UnitAt(n, E, k + 1, y + n)
<1> DEFINE h == n \div 2
           q == (E + h) \div n
           c == CountUnits(n, E)
<1>1. /\ k \in Nat /\ y = k * n /\ y < E /\ (k = 0 \/ (k + 1) * n <= E + h)
  BY DEF UnitAt
<1>2. h \in Nat \ {0} /\ n = 2 * h /\ (n * 3) \div 2 = 3 * h
  OBVIOUS
<1>3. /\ y \in Nat /\ n * k = y /\ (k + 1) * n = y + n /\ n * (k + 1) = y + n
      /\ (k + 2) * n = y + 2 * n /\ n * (k + 2) = y + 2 * n
  BY <1>1
<1>4. q \in Int /\ n * q \in Int /\ n * q <= E + h /\ E + h < n * q + n
  <2>1. E + h \in Int
    BY <1>2
  <2> HIDE DEF h
  <2>2. \A a \in Int : /\ a \div n \in Int /\ n * (a \div n) \in Int
                      /\ n * (a \div n) <= a /\ a < n * (a \div n) + n
    BY Divided
  <2>3. QED
    BY <2>1, <2>2
<1>5. c = IF E + h < n THEN 1 ELSE q
  BY DEF CountUnits
<1>6. y \div n = k
  <2>1. 0 \in 0 .. n - 1 /\ n * k + 0 = y /\ k \in Int
    BY <1>1, <1>3
  <2>2. (n * k + 0) \div n = k
    BY <2>1, DivUnique
  <2>3. QED
    BY <2>1, <2>2
<1> HIDE DEF h, q, c
<1>7. y + n <= E + h => k + 1 <= q
  <2>1. SUFFICES ASSUME q < k + 1, y + n <= E + h PROVE FALSE
    BY <1>1, <1>4
  <2>2. n * q + n <= n * (k + 1)
    BY <1>1, <1>4, <2>1, Further
  <2>3. QED
    BY <1>2, <1>3, <1>4, <2>1, <2>2
<1>8. E + h < y + 2 * n => q < k + 2
  <2>1. SUFFICES ASSUME k + 2 <= q, E + h < y + 2 * n PROVE FALSE
    BY <1>1, <1>4
  <2>2. (k + 2) * n <= q * n
    BY <1>1, <1>4, <2>1, Scaled
  <2>3. q * n = n * q
    BY <1>4
  <2>4. QED
    BY <1>2, <1>3, <1>4, <2>1, <2>2, <2>3
<1>9. y + 2 * n <= E + h => k + 2 <= q
  <2>1. SUFFICES ASSUME q < k + 2, y + 2 * n <= E + h PROVE FALSE
    BY <1>1, <1>4
  <2>2. n * q + n <= n * (k + 2)
    BY <1>1, <1>4, <2>1, Further
  <2>3. QED
    BY <1>2, <1>3, <1>4, <2>1, <2>2
<1>10. c \in Nat \ {0} /\ k <= c - 1
  <2>1. CASE k = 0
    <3>1. y = 0
      BY <1>1, <2>1
    <3>2. QED
      BY <1>4, <1>5, <1>7, <2>1, <3>1, <1>2
  <2>2. CASE k # 0
    BY <1>1, <1>2, <1>3, <1>4, <1>5, <1>7, <2>2
  <2>3. QED
    BY <2>1, <2>2
<1>11. ASSUME E - y < 3 * h PROVE k = c - 1
  <2>1. E + h < y + 2 * n
    BY <1>2, <1>3, <1>11
  <2>2. QED
    BY <1>1, <1>4, <1>5, <1>8, <1>10, <2>1, <1>2
<1>12. ASSUME ~(E - y < 3 * h) PROVE k < c - 1 /\ y + n < E /\ UnitAt(n, E, k + 1, y + n)
  <2>1. y + 2 * n <= E + h /\ y + n < E
    BY <1>2, <1>3, <1>12
  <2>2. k < c - 1
    BY <1>1, <1>3, <1>5, <1>4, <1>9, <2>1, <1>2
  <2>3. (k + 1) * n = y + n /\ (k + 1 + 1) * n <= E + n \div 2
    BY <1>1, <1>3, <2>1 DEF h
  <2>4. QED
    BY <1>1, <2>1, <2>2, <2>3 DEF UnitAt
<1>13. QED
  BY <1>1, <1>2, <1>3, <1>6, <1>10, <1>11, <1>12 DEF c

(* The stripes of a unit row: where the frame, the row of units and the stripe end. *)
LEMMA RowEnds ==
  ASSUME frame \in Frames, lrPlane \in Restored, NEW k \in Nat, NEW y \in Nat,
         UnitAt(UnitSize(lrPlane), Height, k, y)
  PROVE  /\ k \in 0 .. VertUnits(lrPlane) - 1 /\ VertUnits(lrPlane) \in Nat \ {0} /\ y < Height
         /\ StartOf(y) \in Nat /\ EndOf(y) \in Nat /\ StartOf(y) < EndOf(y) /\ EndOf(y) <= Height
         /\ StartOf(y) = 0 \/ OnStripe(StartOf(y))
         /\ k = 0 => StartOf(y) = 0
         /\ k > 0 => StartOf(y) = y - Voffset /\ y > Voffset
         /\ \/ /\ EndOf(y) = Height /\ k = VertUnits(lrPlane) - 1
               /\ y + UnitExtent(Height - y) = Height
            \/ /\ k < VertUnits(lrPlane) - 1
               /\ y + UnitExtent(Height - y) = y + UnitSize(lrPlane)
               /\ UnitAt(UnitSize(lrPlane), Height, k + 1, y + UnitSize(lrPlane))
               /\ EndOf(y) = StartOf(y + UnitSize(lrPlane))
               /\ EndOf(y) + Voffset = y + UnitSize(lrPlane)
               /\ OnStripe(EndOf(y)) /\ EndOf(y) < Height
<1> DEFINE n == UnitSize(lrPlane)
           H == Height
           s == StripeHeight
           v == Voffset
           V == VertUnits(lrPlane)
           e == UnitExtent(H - y)
           last == H - y < (n * 3) \div 2
           next == UnitAt(n, H, k + 1, y + n)
<1>1. /\ H \in Nat \ {0} /\ s \in Nat \ {0} /\ v \in Nat \ {0} /\ s > v + 2
      /\ n \in Nat \ {0} /\ n >= s /\ lrPlane \in Planes
  BY LrGeometry
<1>2. n % s = 0 /\ n % 2 = 0
  BY LrGeometry
<1>3. CountUnits(n, H) = V
  BY DEF VertUnits, Height
<1>4. y = k * n /\ y < H
  BY DEF UnitAt
<1>5. /\ e = IF last THEN H - y ELSE n
      /\ EndOf(y) = y + e - (IF y + e < H THEN v ELSE 0)
      /\ StartOf(y) = IF y < v THEN 0 ELSE y - v
      /\ StartOf(y + n) = IF y + n < v THEN 0 ELSE (y + n) - v
  BY DEF UnitExtent, EndOf, StartOf
<1>6. UnitAt(n, H, k, y)
  OBVIOUS
<1> HIDE DEF n, H, V, s, v, e
<1>7. CountUnits(n, H) \in Nat \ {0} /\ k \in 0 .. CountUnits(n, H) - 1
  BY <1>1, <1>2, <1>6, UnitsAlong
<1>8. last => k = CountUnits(n, H) - 1
  BY <1>1, <1>2, <1>6, UnitsAlong
<1>9. ~last => k < CountUnits(n, H) - 1 /\ y + n < H /\ next
  BY <1>1, <1>2, <1>6, UnitsAlong
<1> HIDE DEF last, next
<1>10. /\ V \in Nat \ {0} /\ k \in 0 .. V - 1 /\ (last => k = V - 1)
       /\ ~last => k < V - 1 /\ y + n < H /\ next
  BY <1>3, <1>7, <1>8, <1>9
<1>11. y % s = 0
  BY <1>1, <1>2, <1>4, MultipleTimes DEF s
<1>12. (y + n) % s = 0
  <2>1. y \in Int /\ n \in Int /\ s \in Nat \ {0} /\ n % s = 0
    BY <1>1, <1>2
  <2>2. QED
    BY <2>1, <1>11, Multiples
<1>13. (k = 0 => y = 0) /\ (k > 0 => y >= n)
  <2>1. k > 0 => 1 * n <= k * n
    BY <1>1, Scaled
  <2>2. QED
    BY <1>1, <1>4, <2>1
<1>14. /\ StartOf(y) \in Nat /\ StartOf(y) < H /\ StartOf(y) <= y
       /\ (k = 0 => StartOf(y) = 0) /\ (k > 0 => StartOf(y) = y - v /\ y > v)
  <2>1. y < H
    BY <1>4
  <2>2. QED
    BY <1>1, <1>5, <1>13, <2>1
<1>15. StartOf(y) = 0 \/ OnStripe(StartOf(y))
  <2>1. k > 0 => StartOf(y) + v = y
    BY <1>1, <1>14
  <2>2. QED
    BY <1>10, <1>11, <1>14, <2>1 DEF OnStripe, s, v
<1>16. ASSUME last PROVE EndOf(y) = H /\ k = V - 1 /\ y + e = H
  BY <1>1, <1>5, <1>10, <1>16
<1>17. ASSUME ~last
       PROVE  /\ k < V - 1 /\ y + e = y + n /\ next /\ EndOf(y) = StartOf(y + n)
              /\ EndOf(y) + v = y + n /\ OnStripe(EndOf(y)) /\ EndOf(y) < H
              /\ EndOf(y) \in Nat /\ StartOf(y) < EndOf(y)
  <2>1. /\ k < V - 1 /\ y + e = y + n /\ next /\ EndOf(y) = StartOf(y + n)
        /\ EndOf(y) + v = y + n /\ EndOf(y) < H
        /\ EndOf(y) \in Nat /\ StartOf(y) < EndOf(y)
    BY <1>1, <1>5, <1>10, <1>14, <1>17
  <2>2. OnStripe(EndOf(y))
    BY <1>12, <2>1 DEF OnStripe, s, v
  <2>3. QED
    BY <2>1, <2>2
<1>18. EndOf(y) \in Nat /\ StartOf(y) < EndOf(y) /\ EndOf(y) <= H
  BY <1>1, <1>14, <1>16, <1>17
<1>19. \/ EndOf(y) = H /\ k = V - 1 /\ y + e = H
       \/ /\ k < V - 1 /\ y + e = y + n /\ next /\ EndOf(y) = StartOf(y + n)
          /\ EndOf(y) + v = y + n /\ OnStripe(EndOf(y)) /\ EndOf(y) < H
  BY <1>16, <1>17
<1>20. y < H
  BY <1>4
<1>21. QED
  BY <1>10, <1>14, <1>15, <1>18, <1>19, <1>20 DEF n, H, V, s, v, e, next

(* A stripe ends where the next one begins, or where its unit does. *)
LEMMA StripeEnds ==
  ASSUME frame \in Frames, lrPlane \in Restored, NEW k \in Nat, NEW y \in Nat, NEW st \in Nat,
         UnitAt(UnitSize(lrPlane), Height, k, y), StripeAt(y, st)
  PROVE  /\ st < Height /\ BoundaryOf(st) \in Nat /\ BoundaryOf(st) > st + 2
         /\ st > 0 => st > 2
         /\ EndOf(y) < Height => BoundaryOf(st) <= EndOf(y)
         /\ StripeEndOf(st) \in Nat /\ StripeEndOf(st) > st /\ StripeEndOf(st) <= EndOf(y)
         /\ StripeEndOf(st) <= Height
         /\ StripeEndOf(st) < EndOf(y) => StripeAt(y, StripeEndOf(st))
<1> DEFINE H == Height
           s == StripeHeight
           v == Voffset
           e == EndOf(y)
           b == BoundaryOf(st)
<1>1. /\ H \in Nat \ {0} /\ s \in Nat \ {0} /\ v \in Nat \ {0} /\ s > v + 2
  BY LrGeometry
<1>2. /\ StartOf(y) \in Nat /\ e \in Nat /\ StartOf(y) < e /\ e <= H /\ (e = H \/ OnStripe(e))
  BY RowEnds
<1>3. st \in Nat /\ StartOf(y) <= st /\ st < e /\ (st = 0 \/ OnStripe(st))
  BY <1>2 DEF StripeAt
<1>4. b = st + s - (IF st = 0 THEN v ELSE 0)
  BY DEF BoundaryOf
<1>5. /\ OnStripe(e) => (e + v) % s = 0
      /\ OnStripe(st) => (st + v) % s = 0
      /\ (b + v) % s = 0 => OnStripe(b)
  BY DEF OnStripe
<1>6. StripeEndOf(st) = IF b < H THEN b ELSE H
  BY DEF StripeEndOf
<1> HIDE DEF H, s, v, e, b
<1>7. s % s = 0 /\ 0 % s = 0
  <2>1. (s * 1) % s = 0 /\ (s * 0) % s = 0
    BY <1>1, MultipleIs
  <2>2. s * 1 = s /\ s * 0 = 0
    BY <1>1
  <2>3. QED
    BY <2>1, <2>2
<1>8. b \in Nat /\ b > st + 2
  BY <1>1, <1>3, <1>4
<1>9. st > 0 => st + v >= s
  <2>1. SUFFICES ASSUME st > 0 PROVE st + v >= s
    OBVIOUS
  <2>2. (st + v) % s = 0
    BY <1>3, <1>5, <2>1
  <2>3. 0 < st + v /\ 0 \in Int /\ st + v \in Int
    BY <1>1, <1>3, <2>1
  <2>4. 0 + s <= st + v
    BY <1>1, <1>7, <2>2, <2>3, Multiples
  <2>5. QED
    BY <1>1, <2>4
<1>10. OnStripe(b)
  <2>1. CASE st = 0
    <3>1. b + v = s
      BY <1>1, <1>4, <2>1
    <3>2. QED
      BY <1>5, <1>7, <3>1
  <2>2. CASE st # 0
    <3>1. b + v = (st + v) + s
      BY <1>1, <1>3, <1>4, <2>2
    <3>2. (st + v) % s = 0 /\ st + v \in Int /\ s \in Int
      BY <1>1, <1>3, <1>5, <2>2
    <3>3. ((st + v) + s) % s = 0
      BY <1>1, <1>7, <3>2, Multiples
    <3>4. QED
      BY <1>5, <3>1, <3>3
  <2>3. QED
    BY <2>1, <2>2
<1>11. e < H => b <= e
  <2>1. SUFFICES ASSUME e < H PROVE b <= e
    OBVIOUS
  <2>2. (e + v) % s = 0 /\ e + v \in Int
    BY <1>1, <1>2, <1>5, <2>1
  <2>3. CASE st = 0
    <3>1. 0 < e + v /\ 0 \in Int
      BY <1>1, <1>2, <1>3
    <3>2. 0 + s <= e + v
      BY <1>1, <1>7, <2>2, <3>1, Multiples
    <3>3. QED
      BY <1>1, <1>2, <1>4, <2>3, <3>2
  <2>4. CASE st # 0
    <3>1. st + v < e + v /\ st + v \in Int /\ (st + v) % s = 0
      BY <1>1, <1>2, <1>3, <1>5, <2>4
    <3>2. (st + v) + s <= e + v
      BY <1>1, <2>2, <3>1, Multiples
    <3>3. QED
      BY <1>1, <1>2, <1>3, <1>4, <2>4, <3>2
  <2>5. QED
    BY <2>3, <2>4
<1>12. /\ StripeEndOf(st) \in Nat /\ StripeEndOf(st) > st /\ StripeEndOf(st) <= e
       /\ StripeEndOf(st) <= H /\ (StripeEndOf(st) < e => StripeEndOf(st) = b)
  BY <1>1, <1>2, <1>3, <1>6, <1>8, <1>11
<1>13. StripeEndOf(st) < e => StripeAt(y, StripeEndOf(st))
  <2>1. SUFFICES ASSUME StripeEndOf(st) < e PROVE StripeAt(y, b)
    BY <1>12
  <2>2. b \in StartOf(y) .. e - 1
    BY <1>2, <1>3, <1>8, <1>12, <2>1
  <2>3. QED
    BY <1>10, <2>2 DEF StripeAt, e
<1>14. st < H /\ (st > 0 => st > 2)
  BY <1>1, <1>2, <1>3, <1>9
<1>15. QED
  BY <1>8, <1>11, <1>12, <1>13, <1>14 DEF H, e, b

(* The number of a stripe, and the rows the save numbers give it. *)
StripeOf(st) == (st + Voffset) \div StripeHeight

LEMMA StripeNumber ==
  ASSUME frame \in Frames, lrPlane \in Restored, NEW st \in Nat, st < Height,
         st = 0 \/ OnStripe(st)
  PROVE  /\ StripeOf(st) \in 0 .. StripeCount - 1
         /\ StripeOf(st) = 0 <=> st = 0
         /\ st > 0 => FirstRow(StripeOf(st)) = st
         /\ FirstRow(StripeOf(st) + 1) = BoundaryOf(st)
         /\ NominalHeight(StripeOf(st)) = BoundaryOf(st) - st
         /\ EndRow(StripeOf(st)) = StripeEndOf(st)
<1> DEFINE H == Height
           s == StripeHeight
           v == Voffset
           q == StripeOf(st)
           c == (H - 1 + v) \div s
<1>1. /\ H \in Nat \ {0} /\ s \in Nat \ {0} /\ v \in Nat \ {0} /\ s > v + 2
  BY LrGeometry
<1>2. q = (st + v) \div s /\ StripeCount = 1 + c
  BY DEF StripeOf, StripeCount, Height
<1>3. \A a \in Int : /\ a \div s \in Int /\ s * (a \div s) \in Int
                     /\ s * (a \div s) <= a /\ a < s * (a \div s) + s
  BY <1>1, Divided
<1>4. OnStripe(st) => (st + v) % s = 0
  BY DEF OnStripe
<1>5. /\ BoundaryOf(st) = st + s - (IF st = 0 THEN v ELSE 0)
      /\ FirstRow(q) = (IF q = 0 THEN 0 ELSE q * s - v)
      /\ FirstRow(q + 1) = (IF q + 1 = 0 THEN 0 ELSE (q + 1) * s - v)
      /\ NominalHeight(q) = s - IF q = 0 THEN v ELSE 0
      /\ EndRow(q) = (IF FirstRow(q + 1) < H THEN FirstRow(q + 1) ELSE H)
      /\ StripeEndOf(st) = IF BoundaryOf(st) < H THEN BoundaryOf(st) ELSE H
  BY DEF BoundaryOf, FirstRow, NominalHeight, EndRow, StripeEndOf
<1>6. H = Height
  OBVIOUS
<1> HIDE DEF H, s, v
<1>7. st + v \in Int /\ H - 1 + v \in Int /\ st + v <= H - 1 + v
  BY <1>1, <1>6
<1>8. q \in Int /\ s * q <= st + v /\ st + v < s * q + s /\ s * q \in Int
  BY <1>2, <1>3, <1>7
<1>9. c \in Int /\ s * c \in Int /\ H - 1 + v < s * c + s
  BY <1>3, <1>7
<1> HIDE DEF q, c
<1>10. q <= c
  <2>1. SUFFICES ASSUME c < q PROVE FALSE
    BY <1>8, <1>9
  <2>2. s * c + s <= s * q
    BY <1>1, <1>8, <1>9, <2>1, Further
  <2>3. QED
    BY <1>7, <1>8, <1>9, <2>2, <1>1
<1>11. CASE st = 0
  <2>1. q = 0
    <3>1. ~(q < 0)
      <4>1. SUFFICES ASSUME q < 0 PROVE FALSE
        OBVIOUS
      <4>2. s * q + s <= s * 0 /\ s * 0 = 0
        BY <1>1, <1>8, <4>1, Further
      <4>3. QED
        BY <1>1, <1>8, <1>11, <4>2
    <3>2. ~(0 < q)
      <4>1. SUFFICES ASSUME 0 < q PROVE FALSE
        OBVIOUS
      <4>2. s * 0 + s <= s * q /\ s * 0 = 0
        BY <1>1, <1>8, <4>1, Further
      <4>3. QED
        BY <1>1, <1>8, <1>11, <4>2
    <3>3. QED
      BY <1>8, <3>1, <3>2
  <2>2. (q + 1) * s = s
    BY <1>1, <2>1
  <2>3. FirstRow(q + 1) = BoundaryOf(st) /\ NominalHeight(q) = BoundaryOf(st) - st
    BY <1>1, <1>5, <1>11, <2>1, <2>2
  <2>4. q \in 0 .. StripeCount - 1
    BY <1>2, <1>9, <1>10, <2>1
  <2>5. EndRow(q) = StripeEndOf(st)
    BY <1>5, <2>3
  <2>6. QED
    BY <1>11, <2>1, <2>3, <2>4, <2>5 DEF q
<1>12. CASE st # 0
  <2>1. (st + v) % s = 0
    BY <1>4, <1>12
  <2>2. st + v = s * q
    BY <1>1, <1>2, <1>7, <2>1, MultipleOf
  <2>3. q > 0
    <3>1. SUFFICES ASSUME q <= 0 PROVE FALSE
      BY <1>8
    <3>2. q * s <= 0 * s /\ q * s = s * q /\ 0 * s = 0
      BY <1>1, <1>8, <3>1, Scaled
    <3>3. QED
      BY <1>1, <1>12, <2>2, <3>2
  <2>4. q * s = st + v /\ (q + 1) * s = (st + v) + s
    BY <1>1, <1>8, <2>2
  <2>5. /\ FirstRow(q) = st /\ FirstRow(q + 1) = BoundaryOf(st)
        /\ NominalHeight(q) = BoundaryOf(st) - st
    BY <1>1, <1>5, <1>8, <1>12, <2>3, <2>4
  <2>6. q \in 0 .. StripeCount - 1
    BY <1>2, <1>8, <1>9, <1>10, <2>3
  <2>7. EndRow(q) = StripeEndOf(st)
    BY <1>5, <2>5
  <2>8. QED
    BY <1>8, <1>12, <2>3, <2>5, <2>6, <2>7 DEF q
<1>13. QED
  BY <1>11, <1>12

(* What the plane and the frame determine stays while they do. *)
LEMMA SamePlane ==
  ASSUME UNCHANGED <<frame, lrPlane>>
  PROVE  /\ Restored' = Restored /\ UnitSize(lrPlane)' = UnitSize(lrPlane)
         /\ Height' = Height /\ PlaneWidth(lrPlane)' = PlaneWidth(lrPlane)
         /\ HorzUnits(lrPlane)' = HorzUnits(lrPlane) /\ VertUnits(lrPlane)' = VertUnits(lrPlane)
         /\ StripeHeight' = StripeHeight /\ Voffset' = Voffset /\ OptimizedLr' = OptimizedLr
BY DEF Restored, UnitSize, Height, PlaneWidth, PlaneHeight, HorzUnits, VertUnits, CountUnits,
       StripeHeight, Voffset, OptimizedLr, SsX, SsY, Planes, DoSuperres, SuperresScaled

LEMMA SameRows ==
  ASSUME UNCHANGED <<frame, lrPlane>>
  PROVE  /\ Padded' = Padded /\ \A c : ToFrame(c)' = ToFrame(c)
         /\ FreshRows' = FreshRows /\ SavedAbove' = SavedAbove /\ SavedBelow' = SavedBelow
<1>1. Padded' = Padded /\ Cells' = Cells
  BY SamePlane DEF Padded, Cells
<1>2. \A c : ToFrame(c)' = ToFrame(c)
  BY <1>1 DEF ToFrame
<1>3. \A t, r : RowOf(t, r)' = RowOf(t, r)
  BY <1>1, <1>2 DEF RowOf
<1>4. FreshRows' = FreshRows
  BY <1>3, SamePlane DEF FreshRows, Clamp, Border
<1>5. StripeCount' = StripeCount
  BY SamePlane DEF StripeCount, Height
<1>6. \A s : FirstRow(s)' = FirstRow(s)
  BY SamePlane DEF FirstRow
<1>7. \A s : EndRow(s)' = EndRow(s)
  BY <1>6, SamePlane DEF EndRow
<1>8. \A r : SavedPair(r)' = SavedPair(r)
  BY <1>3, SamePlane DEF SavedPair, Clamp
<1>9. \A s : SaveAbove(s)' = SaveAbove(s)
  BY <1>3, <1>6, <1>8, SamePlane DEF SaveAbove
<1>10. \A s : SaveBelow(s)' = SaveBelow(s)
  BY <1>3, <1>7, <1>8, SamePlane DEF SaveBelow
<1>11. Unsaved' = Unsaved
  BY <1>1 DEF Unsaved
<1>12. SavedAbove' = SavedAbove /\ SavedBelow' = SavedBelow
  BY <1>5, <1>9, <1>10, <1>11, SamePlane DEF SavedAbove, SavedBelow
<1>13. QED
  BY <1>1, <1>2, <1>4, <1>12

LEMMA LrAfter ==
  ASSUME frame \in Frames, lrPlane \in Nat, UNCHANGED <<frame, lrPlane>>,
         lrPc' \in {"off", "plane", "row", "setup", "filter", "done", "stopped"},
         LrFacts(lrPc', y0', rowNumber', x0', stripe', above', below', work', kept', dst')
  PROVE  LrInv'
<1>1. \A n, E, k, y : UnitAt(n, E, k, y)' = UnitAt(n, E, k, y)
  BY DEF UnitAt
<1>2. \A y : UnitExtent(y)' = UnitExtent(y)
  BY SamePlane DEF UnitExtent
<1>3. \A y : StartOf(y)' = StartOf(y)
  BY SamePlane DEF StartOf
<1>4. \A y : EndOf(y)' = EndOf(y)
  BY SamePlane, <1>2 DEF EndOf
<1>5. \A st : BoundaryOf(st)' = BoundaryOf(st)
  BY SamePlane DEF BoundaryOf
<1>6. \A st : StripeEndOf(st)' = StripeEndOf(st)
  BY SamePlane, <1>5 DEF StripeEndOf
<1>7. \A r : OnStripe(r)' = OnStripe(r)
  BY SamePlane DEF OnStripe
<1>8. \A y, st : StripeAt(y, st)' = StripeAt(y, st)
  BY <1>3, <1>4, <1>7 DEF StripeAt
<1>9. \A r, j : Owner(r, j)' = Owner(r, j)
  BY SamePlane DEF Owner
<1>10. \A x : ColumnAt(x)' = ColumnAt(x)
  BY SamePlane DEF ColumnAt
<1>11. \A x : LineOf(x)' = LineOf(x)
  BY <1>10 DEF LineOf
<1>12. \A st, r : ContextRow(st, r)' = ContextRow(st, r)
  BY <1>6, SamePlane, SameRows DEF ContextRow, Outside, NearestRow, Clamp, RowOf
<1>13. (lrPc \in {"row", "setup", "filter"} =>
         lrPlane \in Restored /\ above = SavedAbove /\ below = SavedBelow)'
  BY SamePlane, SameRows DEF LrFacts
<1>14. (lrPc \in {"row", "setup"} => work = FreshRows)'
  BY SamePlane, SameRows DEF LrFacts
<1>15. (lrPc = "row" =>
         \/ /\ UnitAt(UnitSize(lrPlane), Height, rowNumber, y0)
            /\ WrittenTo(dst, StartOf(y0), 0, 0, 0)
         \/ y0 = Height /\ WrittenTo(dst, Height, 0, 0, 0))'
  BY <1>1, <1>3, <1>9, SamePlane DEF LrFacts, WrittenTo
<1>16. (lrPc \in {"setup", "filter"} =>
         /\ UnitAt(UnitSize(lrPlane), Height, rowNumber, y0)
         /\ UnitAt(UnitSize(lrPlane), PlaneWidth(lrPlane), ColumnAt(x0), x0)
         /\ StripeAt(y0, stripe))'
  BY <1>1, <1>8, <1>10, SamePlane DEF LrFacts
<1>17. (lrPc \in {"setup", "filter"} =>
          WrittenTo(dst, StartOf(y0), EndOf(y0), ColumnAt(x0), stripe))'
  BY <1>3, <1>4, <1>9, <1>10, SamePlane DEF LrFacts, WrittenTo
<1>18. (lrPc = "filter" => ContextShown(x0, stripe, work))'
  BY <1>6, <1>11, <1>12, SamePlane, SameRows DEF LrFacts, ContextShown
<1>19. (lrPc = "filter" => PutBack(x0, work, kept))'
  BY <1>11, SamePlane, SameRows DEF LrFacts, PutBack
<1>20. QED
  BY <1>13, <1>14, <1>15, <1>16, <1>17, <1>18, <1>19 DEF LrInv, LrFacts

(* The rows of a unit row belong to its units. *)
LEMMA OwnerIs ==
  ASSUME frame \in Frames, lrPlane \in Restored, NEW k \in Nat, NEW y \in Nat,
         UnitAt(UnitSize(lrPlane), Height, k, y), NEW r \in StartOf(y) .. EndOf(y) - 1, NEW j
  PROVE  Owner(r, j) = k * HorzUnits(lrPlane) + j
<1> DEFINE n == UnitSize(lrPlane)
           H == Height
           v == Voffset
           V == VertUnits(lrPlane)
           urow == (r + v) \div n
<1>1. H \in Nat \ {0} /\ v \in Nat \ {0} /\ n \in Nat \ {0}
  BY LrGeometry
<1>2. y = k * n
  BY DEF UnitAt
<1>3. Owner(r, j) = (IF urow < V - 1 THEN urow ELSE V - 1) * HorzUnits(lrPlane) + j
  BY DEF Owner
<1>4. /\ k \in 0 .. V - 1 /\ V \in Nat \ {0} /\ y < H
      /\ StartOf(y) \in Nat /\ EndOf(y) \in Nat
      /\ k = 0 => StartOf(y) = 0
      /\ k > 0 => StartOf(y) = y - v /\ y > v
      /\ k = V - 1 \/ (k < V - 1 /\ EndOf(y) + v = y + n)
  BY RowEnds
<1>5. r \in Nat /\ StartOf(y) <= r /\ r < EndOf(y)
  BY <1>4
<1> HIDE DEF n, H, v, V
<1>6. r + v \in Int /\ n * k = y
  BY <1>1, <1>2, <1>5
<1>7. urow \in Int /\ n * urow \in Int /\ n * urow <= r + v /\ r + v < n * urow + n
  <2>1. \A a \in Int : /\ a \div n \in Int /\ n * (a \div n) \in Int
                       /\ n * (a \div n) <= a /\ a < n * (a \div n) + n
    BY <1>1, Divided
  <2>2. QED
    BY <1>6, <2>1
<1> HIDE DEF urow
<1>8. y <= r + v
  <2>1. k = 0 => y = 0
    BY <1>1, <1>2
  <2>2. QED
    BY <1>1, <1>4, <1>5, <2>1
<1>9. k <= urow
  <2>1. SUFFICES ASSUME urow < k PROVE FALSE
    BY <1>7
  <2>2. n * urow + n <= n * k
    BY <1>1, <1>7, <2>1, Further
  <2>3. QED
    BY <1>1, <1>6, <1>7, <1>8, <2>2
<1>10. CASE k = V - 1
  <2>1. (IF urow < V - 1 THEN urow ELSE V - 1) = k
    BY <1>4, <1>7, <1>9, <1>10
  <2>2. QED
    BY <1>3, <2>1
<1>11. CASE k < V - 1 /\ EndOf(y) + v = y + n
  <2>1. r + v < y + n
    BY <1>1, <1>4, <1>5, <1>11
  <2>2. urow <= k
    <3>1. SUFFICES ASSUME k < urow PROVE FALSE
      BY <1>7
    <3>2. n * k + n <= n * urow
      BY <1>1, <1>7, <3>1, Further
    <3>3. QED
      BY <1>1, <1>6, <1>7, <2>1, <3>2
  <2>3. (IF urow < V - 1 THEN urow ELSE V - 1) = k
    BY <1>4, <1>7, <1>9, <1>11, <2>2
  <2>4. QED
    BY <1>3, <2>3
<1>12. QED
  BY <1>4, <1>10, <1>11

(* A unit writes the rows of a stripe, or all its rows. *)
LEMMA RowsWritten ==
  ASSUME frame \in Frames, lrPlane \in Restored,
         UnitAt(UnitSize(lrPlane), Height, rowNumber, y0),
         UnitAt(UnitSize(lrPlane), PlaneWidth(lrPlane), UnitColumn, x0),
         StripeAt(y0, stripe),
         WrittenTo(dst, StartOf(y0), EndOf(y0), UnitColumn, stripe),
         NEW e \in Nat, stripe <= e, e <= EndOf(y0)
  PROVE  WrittenTo(Written(stripe .. e - 1), StartOf(y0), EndOf(y0), UnitColumn, e)
<1> DEFINE H == Height
           U == HorzUnits(lrPlane)
           u == UnitColumn
           S == StartOf(y0)
           E == EndOf(y0)
           value(r, j, t) == IF r < S \/ (r < E /\ (j < u \/ (j = u /\ r < t)))
                             THEN <<Owner(r, j)>> ELSE <<>>
<1>1. rowNumber \in Nat /\ y0 \in Nat /\ u \in Nat
  BY DEF UnitAt
<1>2. S \in Nat /\ E \in Nat /\ E <= H /\ H \in Nat
  BY <1>1, RowEnds, LrGeometry
<1>3. stripe \in Nat /\ S <= stripe /\ stripe < E
  BY <1>2 DEF StripeAt
<1>4. dst = [r \in 0 .. H - 1 |-> [j \in 0 .. U - 1 |-> value(r, j, stripe)]]
  BY DEF WrittenTo
<1>5. Written(stripe .. e - 1) =
        [r \in 0 .. H - 1 |->
           IF r \in stripe .. e - 1 THEN [dst[r] EXCEPT ![u] = Append(@, UnitIdx)] ELSE dst[r]]
  BY <1>4 DEF Written
<1>6. ASSUME NEW r \in 0 .. H - 1
      PROVE  (IF r \in stripe .. e - 1 THEN [dst[r] EXCEPT ![u] = Append(@, UnitIdx)] ELSE dst[r])
               = [j \in 0 .. U - 1 |-> value(r, j, e)]
  <2>1. dst[r] = [j \in 0 .. U - 1 |-> value(r, j, stripe)]
    BY <1>4
  <2>2. CASE r \in stripe .. e - 1
    <3>1. /\ r \in S .. E - 1 /\ ~(r < S) /\ r < E /\ ~(r < stripe) /\ r < e
      BY <1>2, <1>3, <2>2
    <3>2. Owner(r, u) = UnitIdx
      BY <1>1, <3>1, OwnerIs DEF UnitIdx
    <3>3. \A j \in 0 .. U - 1 : j # u => value(r, j, e) = value(r, j, stripe)
      BY <3>1
    <3>4. u \in 0 .. U - 1 => dst[r][u] = <<>> /\ value(r, u, e) = <<UnitIdx>>
      BY <1>1, <2>1, <3>1, <3>2
    <3>5. Append(<<>>, UnitIdx) = <<UnitIdx>>
      OBVIOUS
    <3> HIDE DEF value
    <3>6. [dst[r] EXCEPT ![u] = Append(@, UnitIdx)] = [j \in 0 .. U - 1 |-> value(r, j, e)]
      BY <2>1, <3>3, <3>4, <3>5
    <3>7. QED
      BY <2>2, <3>6
  <2>3. CASE r \notin stripe .. e - 1
    <3>1. r < stripe <=> r < e
      BY <1>2, <1>3, <2>3
    <3>2. \A j : value(r, j, e) = value(r, j, stripe)
      BY <3>1
    <3> HIDE DEF value
    <3>3. QED
      BY <2>1, <2>3, <3>2
  <2>4. QED
    BY <2>2, <2>3
<1>7. Written(stripe .. e - 1) = [r \in 0 .. H - 1 |-> [j \in 0 .. U - 1 |-> value(r, j, e)]]
  <2> HIDE DEF value
  <2>1. QED
    BY <1>5, <1>6
<1>8. QED
  BY <1>7 DEF WrittenTo

(* The same rows, counted on: the next column, and the next row of units. *)
LEMMA WrittenOn ==
  ASSUME frame \in Frames, lrPlane \in Restored, NEW d, NEW S \in Nat, NEW E \in Nat, S <= E,
         NEW u \in Nat, WrittenTo(d, S, E, u, E), HorzUnits(lrPlane) \in Nat
  PROVE  /\ WrittenTo(d, S, E, u + 1, S)
         /\ u = HorzUnits(lrPlane) - 1 => WrittenTo(d, E, 0, 0, 0)
<1> DEFINE H == Height
           U == HorzUnits(lrPlane)
           value(r, j, f, e, c, t) == IF r < f \/ (r < e /\ (j < c \/ (j = c /\ r < t)))
                                      THEN <<Owner(r, j)>> ELSE <<>>
<1>1. d = [r \in 0 .. H - 1 |-> [j \in 0 .. U - 1 |-> value(r, j, S, E, u, E)]]
  BY DEF WrittenTo
<1>2. H \in Nat /\ U \in Nat
  BY LrGeometry
<1>3. \A r \in 0 .. H - 1, j \in 0 .. U - 1 :
         value(r, j, S, E, u, E) = value(r, j, S, E, u + 1, S)
  BY <1>2
<1>4. u = U - 1 => \A r \in 0 .. H - 1, j \in 0 .. U - 1 :
         value(r, j, S, E, u, E) = value(r, j, E, 0, 0, 0)
  BY <1>2
<1> HIDE DEF value
<1>5. d = [r \in 0 .. H - 1 |-> [j \in 0 .. U - 1 |-> value(r, j, S, E, u + 1, S)]]
  BY <1>1, <1>3
<1>6. u = U - 1 => d = [r \in 0 .. H - 1 |-> [j \in 0 .. U - 1 |-> value(r, j, E, 0, 0, 0)]]
  BY <1>1, <1>4
<1>7. QED
  BY <1>5, <1>6 DEF WrittenTo, value

LEMMA WrittenFrom ==
  ASSUME frame \in Frames, lrPlane \in Restored, NEW d, NEW S \in Nat, NEW E \in Nat,
         HorzUnits(lrPlane) \in Nat
  PROVE  WrittenTo(d, S, 0, 0, 0) => WrittenTo(d, S, E, 0, S)
<1> DEFINE H == Height
           U == HorzUnits(lrPlane)
           value(r, j, f, e, c, t) == IF r < f \/ (r < e /\ (j < c \/ (j = c /\ r < t)))
                                      THEN <<Owner(r, j)>> ELSE <<>>
<1>1. WrittenTo(d, S, 0, 0, 0) =>
        d = [r \in 0 .. H - 1 |-> [j \in 0 .. U - 1 |-> value(r, j, S, 0, 0, 0)]]
  BY DEF WrittenTo
<1>2. H \in Nat /\ U \in Nat
  BY LrGeometry
<1>3. \A r \in 0 .. H - 1, j \in 0 .. U - 1 :
         value(r, j, S, 0, 0, 0) = value(r, j, S, E, 0, S)
  BY <1>2
<1> HIDE DEF value
<1>4. WrittenTo(d, S, 0, 0, 0) =>
        d = [r \in 0 .. H - 1 |-> [j \in 0 .. U - 1 |-> value(r, j, S, E, 0, S)]]
  BY <1>1, <1>3
<1>5. QED
  BY <1>4 DEF WrittenTo, value

(* The columns of a unit, its context included, are columns of the working copy. *)
LEMMA LineInside ==
  ASSUME frame \in Frames, lrPlane \in Restored, NEW c \in Nat, NEW x \in Nat,
         UnitAt(UnitSize(lrPlane), PlaneWidth(lrPlane), c, x)
  PROVE  /\ HorzUnits(lrPlane) \in Nat \ {0} /\ c \in 0 .. HorzUnits(lrPlane) - 1
         /\ ColumnAt(x) = c /\ LineOf(x) = 2 * c - 1 .. 2 * c + 2 /\ LineOf(x) \subseteq Padded
         /\ \/ c = HorzUnits(lrPlane) - 1
               /\ x + UnitExtent(PlaneWidth(lrPlane) - x) = PlaneWidth(lrPlane)
            \/ /\ x + UnitExtent(PlaneWidth(lrPlane) - x) = x + UnitSize(lrPlane)
               /\ x + UnitSize(lrPlane) < PlaneWidth(lrPlane)
               /\ UnitAt(UnitSize(lrPlane), PlaneWidth(lrPlane), c + 1, x + UnitSize(lrPlane))
<1> DEFINE n == UnitSize(lrPlane)
           W == PlaneWidth(lrPlane)
           U == HorzUnits(lrPlane)
           last == W - x < (n * 3) \div 2
           next == UnitAt(n, W, c + 1, x + n)
           e == UnitExtent(W - x)
<1>1. W \in Nat \ {0} /\ n \in Nat \ {0} /\ n % 2 = 0
  BY LrGeometry
<1>2. CountUnits(n, W) = U /\ e = IF last THEN W - x ELSE n
  BY DEF HorzUnits, UnitExtent
<1>3. x < W /\ UnitAt(n, W, c, x)
  BY DEF UnitAt
<1> HIDE DEF n, W, U, e
<1>4. CountUnits(n, W) \in Nat \ {0} /\ c \in 0 .. CountUnits(n, W) - 1
  BY <1>1, <1>3, UnitsAlong
<1>5. x \div n = c
  BY <1>1, <1>3, UnitsAlong
<1>6. last => c = CountUnits(n, W) - 1
  BY <1>1, <1>3, UnitsAlong
<1>7. ~last => x + n < W /\ next
  BY <1>1, <1>3, UnitsAlong
<1> HIDE DEF last, next
<1>8. \/ c = U - 1 /\ x + e = W
      \/ x + e = x + n /\ x + n < W /\ next
  BY <1>1, <1>2, <1>3, <1>6, <1>7
<1>9. ColumnAt(x) = c
  BY <1>5 DEF ColumnAt, n
<1>10. LineOf(x) = 2 * c - 1 .. 2 * c + 2 /\ Padded = -1 .. 2 * U
  BY <1>9 DEF LineOf, Padded, U
<1>11. U \in Nat \ {0} /\ c \in 0 .. U - 1
  BY <1>2, <1>4
<1>12. LineOf(x) \subseteq Padded
  BY <1>10, <1>11
<1>13. QED
  BY <1>8, <1>9, <1>10, <1>11, <1>12 DEF n, W, U, e, next

LEMMA FreshIs ==
  ASSUME frame \in Frames, lrPlane \in Restored
  PROVE  /\ DOMAIN FreshRows = -3 .. Height + 2
         /\ \A r \in -3 .. Height + 2 :
              FreshRows[r] = RowOf("current", Clamp(r, Height)) /\ DOMAIN FreshRows[r] = Padded
<1>1. Height \in Nat \ {0} /\ Border = 3
  BY LrGeometry DEF Border
<1>2. -Border = -3 /\ Height - 1 + Border = Height + 2
  BY <1>1
<1>3. \A t, r : DOMAIN RowOf(t, r) = Padded
  BY DEF RowOf
<1>4. QED
  BY <1>2, <1>3 DEF FreshRows

(* The stripe that is set up or filtered. *)
AtStripe ==
  /\ frame \in Frames /\ lrPlane \in Restored
  /\ UnitAt(UnitSize(lrPlane), Height, rowNumber, y0) /\ StripeAt(y0, stripe)
  /\ UnitAt(UnitSize(lrPlane), PlaneWidth(lrPlane), UnitColumn, x0)

LEMMA StripeIs ==
  ASSUME AtStripe
  PROVE  /\ y0 \in Nat /\ rowNumber \in Nat /\ x0 \in Nat /\ stripe \in Nat
         /\ VStart = StartOf(y0) /\ VEnd = EndOf(y0)
         /\ FrameStripe = StripeOf(stripe) /\ StripeEnd = StripeEndOf(stripe)
         /\ CopyAbove <=> stripe > 0
         /\ CopyBelow <=> StripeEndOf(stripe) < Height
         /\ UnitColumn \in Nat /\ Line = LineOf(x0) /\ Line \subseteq Padded
<1>1. y0 \in Nat /\ rowNumber \in Nat /\ x0 \in Nat /\ UnitColumn \in Nat
  BY DEF AtStripe, UnitAt
<1>2. VStart = StartOf(y0) /\ VEnd = EndOf(y0)
  BY DEF VStart, VEnd, StartOf, EndOf, UnitHeight
<1>3. stripe \in Nat
  <2>1. StartOf(y0) \in Nat /\ EndOf(y0) \in Nat
    BY <1>1, RowEnds DEF AtStripe
  <2>2. QED
    BY <2>1 DEF AtStripe, StripeAt
<1>4. /\ stripe < Height /\ BoundaryOf(stripe) \in Nat
      /\ StripeEndOf(stripe) \in Nat /\ StripeEndOf(stripe) <= EndOf(y0)
      /\ EndOf(y0) < Height => BoundaryOf(stripe) <= EndOf(y0)
  BY <1>1, <1>3, StripeEnds DEF AtStripe
<1>5. EndOf(y0) \in Nat /\ EndOf(y0) <= Height
  BY <1>1, RowEnds DEF AtStripe
<1>6. FrameStripe = StripeOf(stripe)
  BY DEF FrameStripe, StripeOf
<1>7. NominalHeight(FrameStripe) = BoundaryOf(stripe) - stripe
  BY <1>3, <1>4, <1>6, StripeNumber DEF AtStripe, StripeAt
<1>8. Height \in Nat
  BY LrGeometry DEF AtStripe
<1>9. StripeEndOf(stripe) = IF BoundaryOf(stripe) < Height THEN BoundaryOf(stripe) ELSE Height
  BY DEF StripeEndOf
<1>10. StripeEnd = IF BoundaryOf(stripe) - stripe < EndOf(y0) - stripe
                   THEN stripe + (BoundaryOf(stripe) - stripe)
                   ELSE stripe + (EndOf(y0) - stripe)
  BY <1>2, <1>7 DEF StripeEnd, StripeRows
<1>11. StripeEnd = StripeEndOf(stripe)
  BY <1>3, <1>4, <1>5, <1>8, <1>9, <1>10
<1>12. CopyBelow <=> BoundaryOf(stripe) < Height
  BY DEF CopyBelow, BoundaryOf, FirstStripe
<1>13. CopyAbove <=> stripe > 0
  BY <1>3 DEF CopyAbove, FirstStripe
<1>14. Line = LineOf(x0)
  BY DEF Line, LineOf, UnitColumn, ColumnAt
<1>15. LineOf(x0) \subseteq Padded
  BY <1>1, LineInside DEF AtStripe
<1>16. QED
  BY <1>1, <1>2, <1>3, <1>4, <1>6, <1>8, <1>9, <1>11, <1>12, <1>13, <1>14, <1>15

(* What a stripe's context is made of. *)
LEMMA ContextIs ==
  ASSUME AtStripe, above = SavedAbove, below = SavedBelow, work = FreshRows
  PROVE  /\ DOMAIN ContextRows(OptimizedLr) \subseteq -3 .. Height + 2
         /\ \A r \in DOMAIN ContextRows(OptimizedLr) :
              ContextRows(OptimizedLr)[r] = ContextRow(stripe, r)
         /\ \A r \in (stripe - 3 .. StripeEnd + 2) \ DOMAIN ContextRows(OptimizedLr) :
              FreshRows[r] = ContextRow(stripe, r)
<1> DEFINE st == stripe
           E == StripeEnd
           H == Height
<1>1. /\ st \in Nat /\ E = StripeEndOf(st) /\ (CopyAbove <=> st > 0) /\ (CopyBelow <=> E < H)
      /\ FrameStripe = StripeOf(st)
  BY StripeIs
<1>2. /\ st \in Nat /\ E \in Nat /\ E > st /\ E <= H /\ H \in Nat \ {0} /\ (st > 0 => st > 2) /\ st < H
  BY StripeIs, StripeEnds, LrGeometry DEF AtStripe
<1>3. /\ DOMAIN FreshRows = -3 .. H + 2
      /\ \A r \in -3 .. H + 2 : FreshRows[r] = RowOf("current", Clamp(r, H))
  BY FreshIs DEF AtStripe
<1>4. /\ \A r : Outside(st, r) <=> (r < st /\ st > 0) \/ (r >= E /\ E < H)
      /\ \A r : NearestRow(st, r) =
                  IF r < st - 2 THEN st - 2 ELSE IF r > E + 1 THEN E + 1 ELSE r
      /\ \A r : ContextRow(st, r) =
                  RowOf(IF Outside(st, r) /\ ~OptimizedLr THEN "deblocked" ELSE "current",
                        Clamp(IF Outside(st, r) THEN NearestRow(st, r) ELSE r, H))
  BY <1>1 DEF Outside, NearestRow, ContextRow
<1>5. \A r : Clamp(r, H) = IF r < 0 THEN 0 ELSE IF r < H THEN r ELSE H - 1
  BY DEF Clamp
<1> HIDE DEF st, E, H
<1>6. CASE OptimizedLr
  <2> DEFINE F == [r \in IF CopyAbove THEN {st - 3} ELSE {} |-> work[st - 2]]
             G == [r \in IF CopyBelow THEN {E + 2} ELSE {} |-> work[E + 1]]
             A == IF st > 0 THEN {st - 3} ELSE {}
             B == IF E < H THEN {E + 2} ELSE {}
  <2>1. ContextRows(OptimizedLr) = Over(F, G)
    BY <1>6 DEF ContextRows, st, E
  <2>2. F = [r \in A |-> FreshRows[st - 2]] /\ G = [r \in B |-> FreshRows[E + 1]]
    BY <1>1
  <2>3. DOMAIN F = A /\ DOMAIN G = B
    BY <2>2
  <2>4. \A r \in A : F[r] = FreshRows[st - 2]
    BY <2>2
  <2>5. \A r \in B : G[r] = FreshRows[E + 1]
    BY <2>2
  <2> HIDE DEF F, G
  <2>6. /\ DOMAIN ContextRows(OptimizedLr) = A \union B
        /\ \A r \in A \union B : ContextRows(OptimizedLr)[r] = IF r \in A THEN F[r] ELSE G[r]
    <3>1. /\ DOMAIN Over(F, G) = DOMAIN F \union DOMAIN G
          /\ \A r \in DOMAIN F \union DOMAIN G :
               Over(F, G)[r] = IF r \in DOMAIN F THEN F[r] ELSE G[r]
      BY DEF Over
    <3> HIDE DEF A, B
    <3>2. QED
      BY <2>1, <2>3, <3>1
  <2>7. A \union B \subseteq -3 .. H + 2
    BY <1>2
  <2>8. ASSUME NEW r \in A PROVE FreshRows[st - 2] = ContextRow(st, r)
    <3>1. r = st - 3 /\ st > 2 /\ st - 2 \in -3 .. H + 2
      BY <1>2, <2>8
    <3>2. Outside(st, r) /\ NearestRow(st, r) = st - 2
      BY <1>2, <1>4, <3>1
    <3>3. ContextRow(st, r) = RowOf("current", Clamp(st - 2, H))
      BY <1>4, <1>6, <3>2
    <3>4. QED
      BY <1>3, <3>1, <3>3
  <2>9. ASSUME NEW r \in B PROVE FreshRows[E + 1] = ContextRow(st, r)
    <3>1. r = E + 2 /\ E < H /\ E + 1 \in -3 .. H + 2
      BY <1>2, <2>9
    <3>2. Outside(st, r) /\ NearestRow(st, r) = E + 1
      BY <1>2, <1>4, <3>1
    <3>3. ContextRow(st, r) = RowOf("current", Clamp(E + 1, H))
      BY <1>4, <1>6, <3>2
    <3>4. QED
      BY <1>3, <3>1, <3>3
  <2>10. ASSUME NEW r \in (st - 3 .. E + 2) \ (A \union B)
         PROVE  FreshRows[r] = ContextRow(st, r)
    <3>1. r \in -3 .. H + 2 /\ r \in st - 3 .. E + 2
      BY <1>2, <2>10
    <3>2. (IF Outside(st, r) THEN NearestRow(st, r) ELSE r) = r
      BY <1>2, <1>4, <3>1, <2>10
    <3>3. ContextRow(st, r) = RowOf("current", Clamp(r, H))
      BY <1>4, <1>6, <3>2
    <3>4. QED
      BY <1>3, <3>1, <3>3
  <2> HIDE DEF A, B
  <2>11. QED
    BY <2>4, <2>5, <2>6, <2>7, <2>8, <2>9, <2>10 DEF st, E, H
<1>7. CASE ~OptimizedLr
  <2> DEFINE A == IF st > 0 THEN st - 3 .. st - 1 ELSE {}
             B == IF E < H THEN E .. E + 2 ELSE {}
             q == StripeOf(st)
             F == [r \in IF CopyAbove THEN st - 3 .. st - 1 ELSE {} |->
                     above[FrameStripe][IF r = st - 1 THEN 2 ELSE 1]]
             G == [r \in IF CopyBelow THEN E .. E + 2 ELSE {} |->
                     below[FrameStripe][IF r = E THEN 1 ELSE 2]]
  <2>1. ContextRows(OptimizedLr) = Over(F, G)
    BY <1>7 DEF ContextRows, st, E
  <2>2. /\ q \in 0 .. StripeCount - 1 /\ (q = 0 <=> st = 0)
        /\ (st > 0 => FirstRow(q) = st) /\ EndRow(q) = E
    BY <1>1, <1>2, StripeNumber DEF AtStripe, StripeAt, st, H
  <2>3. above[q] = SaveAbove(q) /\ below[q] = SaveBelow(q)
    BY <1>7, <2>2 DEF SavedAbove, SavedBelow
  <2>4. st > 0 => above[q] = SavedPair(st - 2)
    <3>1. st > 0 => q > 0
      BY <1>1, <2>2
    <3>2. QED
      BY <2>2, <2>3, <3>1 DEF SaveAbove
  <2>5. E < H => below[q] = SavedPair(E)
    BY <2>2, <2>3 DEF SaveBelow, H
  <2>6. \A r : /\ SavedPair(r)[1] = RowOf("deblocked", r)
               /\ SavedPair(r)[2] = RowOf("deblocked", Clamp(r + 1, H))
    BY DEF SavedPair, H
  <2>7. DOMAIN F = A /\ DOMAIN G = B
    BY <1>1
  <2>8. /\ \A r \in A : F[r] = above[q][IF r = st - 1 THEN 2 ELSE 1]
        /\ \A r \in B : G[r] = below[q][IF r = E THEN 1 ELSE 2]
    BY <1>1
  <2> HIDE DEF F, G
  <2>9. /\ DOMAIN ContextRows(OptimizedLr) = A \union B
        /\ \A r \in A \union B : ContextRows(OptimizedLr)[r] = IF r \in A THEN F[r] ELSE G[r]
    <3>1. /\ DOMAIN Over(F, G) = DOMAIN F \union DOMAIN G
          /\ \A r \in DOMAIN F \union DOMAIN G :
               Over(F, G)[r] = IF r \in DOMAIN F THEN F[r] ELSE G[r]
      BY DEF Over
    <3> HIDE DEF A, B
    <3>2. QED
      BY <2>1, <2>7, <3>1
  <2>10. A \union B \subseteq -3 .. H + 2
    BY <1>2
  <2> HIDE DEF q
  <2>11. ASSUME NEW r \in A PROVE F[r] = ContextRow(st, r)
    <3>1. r \in st - 3 .. st - 1 /\ st > 2 /\ st < H
      BY <1>2, <2>11
    <3>2. Outside(st, r) /\ NearestRow(st, r) = IF r < st - 2 THEN st - 2 ELSE r
      BY <1>2, <1>4, <3>1
    <3>3. ContextRow(st, r) = RowOf("deblocked", Clamp(IF r < st - 2 THEN st - 2 ELSE r, H))
      BY <1>4, <1>7, <3>2
    <3>4. CASE r = st - 1
      <4>1. ContextRow(st, r) = RowOf("deblocked", Clamp(st - 1, H))
        BY <1>2, <3>1, <3>3, <3>4
      <4>2. F[r] = RowOf("deblocked", Clamp(st - 2 + 1, H)) /\ st - 2 + 1 = st - 1
        BY <1>2, <2>4, <2>6, <2>8, <3>1, <3>4
      <4>3. QED
        BY <4>1, <4>2
    <3>5. CASE r # st - 1
      <4>1. ContextRow(st, r) = RowOf("deblocked", Clamp(st - 2, H))
        <5>1. (IF r < st - 2 THEN st - 2 ELSE r) = st - 2
          BY <1>2, <3>1, <3>5
        <5>2. QED
          BY <3>3, <5>1
      <4>2. Clamp(st - 2, H) = st - 2
        BY <1>2, <1>5, <3>1
      <4>3. F[r] = RowOf("deblocked", st - 2)
        BY <1>2, <2>4, <2>6, <2>8, <3>1, <3>5
      <4>4. QED
        BY <4>1, <4>2, <4>3
    <3>6. QED
      BY <3>4, <3>5
  <2>12. ASSUME NEW r \in B PROVE G[r] = ContextRow(st, r) /\ r \notin A
    <3>1. r \in E .. E + 2 /\ E < H
      BY <1>2, <2>12
    <3>2. Outside(st, r) /\ NearestRow(st, r) = IF r > E + 1 THEN E + 1 ELSE r
      BY <1>2, <1>4, <3>1
    <3>3. ContextRow(st, r) = RowOf("deblocked", Clamp(IF r > E + 1 THEN E + 1 ELSE r, H))
      BY <1>4, <1>7, <3>2
    <3>4. CASE r = E
      <4>1. ContextRow(st, r) = RowOf("deblocked", Clamp(E, H)) /\ Clamp(E, H) = E
        BY <1>2, <1>5, <3>1, <3>3, <3>4
      <4>2. G[r] = RowOf("deblocked", E)
        BY <2>5, <2>6, <2>8, <3>1, <3>4
      <4>3. QED
        BY <1>2, <3>1, <4>1, <4>2
    <3>5. CASE r # E
      <4>1. (IF r > E + 1 THEN E + 1 ELSE r) = E + 1
        BY <1>2, <3>1, <3>5
      <4>2. ContextRow(st, r) = RowOf("deblocked", Clamp(E + 1, H))
        BY <3>3, <4>1
      <4>3. G[r] = RowOf("deblocked", Clamp(E + 1, H))
        BY <2>5, <2>6, <2>8, <3>1, <3>5
      <4>4. QED
        BY <1>2, <3>1, <4>2, <4>3
    <3>6. QED
      BY <3>4, <3>5
  <2>13. ASSUME NEW r \in (st - 3 .. E + 2) \ (A \union B)
         PROVE  FreshRows[r] = ContextRow(st, r)
    <3>1. r \in -3 .. H + 2 /\ r \in st - 3 .. E + 2
      BY <1>2, <2>13
    <3>2. ~Outside(st, r)
      BY <1>2, <1>4, <3>1, <2>13
    <3>3. ContextRow(st, r) = RowOf("current", Clamp(r, H))
      BY <1>4, <3>2
    <3>4. QED
      BY <1>3, <3>1, <3>3
  <2> HIDE DEF A, B
  <2>14. QED
    BY <2>9, <2>10, <2>11, <2>12, <2>13 DEF st, E, H
<1>8. QED
  BY <1>6, <1>7

(* setup_processing_stripe_boundary shows the stripe its context, and keeps the rows. *)
LEMMA ContextSet ==
  ASSUME AtStripe, above = SavedAbove, below = SavedBelow, work = FreshRows
  PROVE  /\ ContextShown(x0, stripe, Overlay(ContextRows(OptimizedLr)))
         /\ PutBack(x0, Overlay(ContextRows(OptimizedLr)),
                    [r \in DOMAIN ContextRows(OptimizedLr) |-> work[r]])
<1> DEFINE rows == ContextRows(OptimizedLr)
           w == Overlay(rows)
           D == DOMAIN rows
           E == StripeEndOf(stripe)
           shown(r) == [c \in Line |-> rows[r][c]]
<1>1. /\ D \subseteq -3 .. Height + 2
      /\ \A r \in D : rows[r] = ContextRow(stripe, r)
      /\ \A r \in (stripe - 3 .. StripeEnd + 2) \ D : FreshRows[r] = ContextRow(stripe, r)
  BY ContextIs
<1>2. DOMAIN FreshRows = -3 .. Height + 2 /\ \A r \in -3 .. Height + 2 : DOMAIN FreshRows[r] = Padded
  BY FreshIs DEF AtStripe
<1>3. Line = LineOf(x0) /\ LineOf(x0) \subseteq Padded
  BY StripeIs
<1>4. StripeEnd = E /\ stripe \in Nat /\ E \in Nat /\ E <= Height /\ Height \in Nat
  BY StripeIs, StripeEnds, LrGeometry DEF AtStripe
<1>5. w = [r \in DOMAIN FreshRows |->
             IF r \in D THEN Over(shown(r), FreshRows[r]) ELSE FreshRows[r]]
  BY DEF Overlay
<1> HIDE DEF rows, E
<1>6. ASSUME NEW r \in D
      PROVE  /\ r \in DOMAIN FreshRows /\ DOMAIN w[r] = Padded
             /\ \A c \in LineOf(x0) : w[r][c] = ContextRow(stripe, r)[c]
             /\ \A c \in Padded : c \notin LineOf(x0) => w[r][c] = FreshRows[r][c]
  <2> DEFINE f == shown(r)
             g == FreshRows[r]
  <2>1. r \in DOMAIN FreshRows /\ w[r] = Over(f, g)
    BY <1>1, <1>2, <1>5
  <2>2. DOMAIN f = LineOf(x0) /\ \A c \in LineOf(x0) : f[c] = ContextRow(stripe, r)[c]
    BY <1>1, <1>3
  <2>3. DOMAIN g = Padded
    BY <1>2, <2>1
  <2> HIDE DEF f
  <2>4. /\ DOMAIN Over(f, g) = LineOf(x0) \union Padded
        /\ \A c \in LineOf(x0) : Over(f, g)[c] = f[c]
        /\ \A c \in Padded : c \notin LineOf(x0) => Over(f, g)[c] = g[c]
    <3> HIDE DEF g
    <3>1. QED
      BY <2>2, <2>3 DEF Over
  <2>5. LineOf(x0) \union Padded = Padded
    BY <1>3
  <2>6. QED
    BY <2>1, <2>2, <2>4, <2>5
<1>7. \A r \in DOMAIN FreshRows \ D : w[r] = FreshRows[r]
  BY <1>5
<1>8. DOMAIN w = DOMAIN FreshRows
  BY <1>5
<1> HIDE DEF w
<1>9. ContextShown(x0, stripe, w)
  <2> SUFFICES ASSUME NEW r \in stripe - 3 .. E + 2, NEW c \in LineOf(x0)
               PROVE  w[r][c] = ContextRow(stripe, r)[c]
    BY DEF ContextShown, E
  <2>1. r \in -3 .. Height + 2
    BY <1>4
  <2>2. CASE r \in D
    BY <1>6, <2>2
  <2>3. CASE r \notin D
    BY <1>1, <1>2, <1>4, <1>7, <2>1, <2>3
  <2>4. QED
    BY <2>2, <2>3
<1>10. PutBack(x0, w, [r \in D |-> work[r]])
  BY <1>6, <1>7, <1>8 DEF PutBack
<1>11. QED
  BY <1>9, <1>10 DEF rows, w

(* restore_processing_stripe_boundary makes the working copy the frame's again. *)
LEMMA ContextPutBack ==
  ASSUME AtStripe, PutBack(x0, work, kept)
  PROVE  Overlay(kept) = FreshRows
<1> DEFINE w == Overlay(kept)
           shown(r) == [c \in Line |-> kept[r][c]]
<1>1. DOMAIN FreshRows = -3 .. Height + 2
  BY FreshIs DEF AtStripe
<1>2. \A r \in DOMAIN FreshRows : FreshRows[r] = RowOf("current", Clamp(r, Height))
  BY <1>1, FreshIs DEF AtStripe
<1>3. Line = LineOf(x0) /\ LineOf(x0) \subseteq Padded
  BY StripeIs
<1>4. w = [r \in DOMAIN FreshRows |->
             IF r \in DOMAIN kept THEN Over(shown(r), work[r]) ELSE work[r]]
  BY DEF Overlay, PutBack
<1>5. ASSUME NEW r \in DOMAIN FreshRows, r \in DOMAIN kept
      PROVE  Over(shown(r), work[r]) = FreshRows[r]
  <2> DEFINE f == shown(r)
             g == work[r]
             h == FreshRows[r]
  <2>1. /\ DOMAIN g = Padded /\ kept[r] = h
        /\ \A c \in Padded : c \notin LineOf(x0) => g[c] = h[c]
    BY <1>5 DEF PutBack
  <2>2. DOMAIN f = LineOf(x0) /\ \A c \in LineOf(x0) : f[c] = h[c]
    BY <1>3, <2>1
  <2>3. h = [c \in Padded |-> h[c]]
    BY <1>2 DEF RowOf
  <2> HIDE DEF f, g, h
  <2>4. Over(f, g) = [c \in LineOf(x0) \union Padded |-> IF c \in LineOf(x0) THEN f[c] ELSE g[c]]
    BY <2>1, <2>2 DEF Over
  <2>5. LineOf(x0) \union Padded = Padded
    BY <1>3
  <2>6. Over(f, g) = [c \in Padded |-> h[c]]
    BY <2>1, <2>2, <2>4, <2>5
  <2>7. QED
    BY <2>3, <2>6 DEF f, g, h
<1>6. \A r \in DOMAIN FreshRows : r \notin DOMAIN kept => work[r] = FreshRows[r]
  BY DEF PutBack
<1>7. FreshRows = [r \in DOMAIN FreshRows |-> FreshRows[r]]
  BY DEF FreshRows
<1>8. w = [r \in DOMAIN FreshRows |-> FreshRows[r]]
  BY <1>4, <1>5, <1>6
<1>9. QED
  BY <1>7, <1>8

-----------------------------------------------------------------------------
(* Loop restoration: the invariant is kept                                 *)

LEMMA LrIdle ==
  ASSUME frame \in Frames, UNCHANGED frame, lrPlane' \in Nat,
         lrPc' \in {"off", "plane", "done", "stopped"}
  PROVE  LrInv'
BY DEF LrInv, LrFacts

LEMMA LrAt ==
  ASSUME LrInv, lrPc \in {"setup", "filter"}
  PROVE  /\ AtStripe /\ above = SavedAbove /\ below = SavedBelow
         /\ WrittenTo(dst, StartOf(y0), EndOf(y0), UnitColumn, stripe)
         /\ lrPc = "setup" => work = FreshRows
         /\ lrPc = "filter" => ContextShown(x0, stripe, work) /\ PutBack(x0, work, kept)
BY DEF LrInv, LrFacts, AtStripe, UnitColumn, ColumnAt

(* On from a unit all of whose rows are written. *)
LEMMA NextUnitIs ==
  ASSUME AtStripe, above = SavedAbove, below = SavedBelow, lrPlane \in Nat,
         UNCHANGED <<frame, lrPlane, above, below>>, work' = FreshRows,
         WrittenTo(dst', StartOf(y0), EndOf(y0), UnitColumn, EndOf(y0)), NextUnit
  PROVE  LrInv'
<1> DEFINE n == UnitSize(lrPlane)
           W == PlaneWidth(lrPlane)
           H == Height
           U == HorzUnits(lrPlane)
           S == StartOf(y0)
           E == EndOf(y0)
           u == UnitColumn
<1>1. /\ y0 \in Nat /\ rowNumber \in Nat /\ x0 \in Nat /\ u \in Nat
      /\ frame \in Frames /\ lrPlane \in Restored
      /\ UnitAt(n, H, rowNumber, y0) /\ UnitAt(n, W, u, x0)
  BY StripeIs DEF AtStripe
<1>2. W \in Nat \ {0} /\ H \in Nat \ {0} /\ n \in Nat \ {0}
  BY <1>1, LrGeometry
<1>3. /\ U \in Nat \ {0} /\ u \in 0 .. U - 1
      /\ \/ u = U - 1 /\ NextX = W
         \/ NextX = x0 + n /\ x0 + n < W /\ UnitAt(n, W, u + 1, x0 + n)
  BY <1>1, LineInside DEF NextX
<1>4. /\ S \in Nat /\ E \in Nat /\ S < E /\ (S = 0 \/ OnStripe(S))
      /\ \/ E = H /\ y0 + UnitHeight = H
         \/ /\ y0 + UnitHeight = y0 + n /\ UnitAt(n, H, rowNumber + 1, y0 + n)
            /\ E = StartOf(y0 + n)
  BY <1>1, RowEnds DEF UnitHeight
<1>5. WrittenTo(dst', S, E, u + 1, S) /\ (u = U - 1 => WrittenTo(dst', E, 0, 0, 0))
  BY <1>1, <1>3, <1>4, WrittenOn
<1>6. VStart = S
  BY StripeIs
<1>7. CASE NextX < W
  <2>1. x0' = NextX /\ stripe' = S /\ lrPc' = "setup" /\ UNCHANGED <<y0, rowNumber>>
    BY <1>6, <1>7 DEF NextUnit
  <2>2. x0' = x0 + n /\ UnitAt(n, W, u + 1, x0')
    BY <1>2, <1>3, <1>7, <2>1
  <2>3. ColumnAt(x0') = u + 1
    <3>1. u + 1 \in Nat /\ x0 + n \in Nat
      BY <1>1, <1>2
    <3>2. QED
      BY <1>1, <2>2, <3>1, LineInside
  <2>4. StripeAt(y0', stripe')
    BY <1>4, <2>1 DEF StripeAt
  <2>5. WrittenTo(dst', StartOf(y0'), EndOf(y0'), ColumnAt(x0'), stripe')
    BY <1>5, <2>1, <2>3
  <2>6. UnitAt(n, H, rowNumber', y0') /\ UnitAt(n, W, ColumnAt(x0'), x0')
    BY <1>1, <2>1, <2>2, <2>3
  <2>7. LrFacts(lrPc', y0', rowNumber', x0', stripe', above', below', work', kept', dst')
    BY <1>1, <2>1, <2>4, <2>5, <2>6 DEF LrFacts
  <2>8. QED
    BY <1>1, <2>1, <2>7, LrAfter
<1>8. CASE ~(NextX < W)
  <2>1. y0' = y0 + UnitHeight /\ rowNumber' = rowNumber + 1 /\ lrPc' = "row"
    BY <1>8 DEF NextUnit
  <2>2. u = U - 1
    BY <1>2, <1>3, <1>8
  <2>3. \/ UnitAt(n, H, rowNumber', y0') /\ WrittenTo(dst', StartOf(y0'), 0, 0, 0)
        \/ y0' = H /\ WrittenTo(dst', H, 0, 0, 0)
    BY <1>4, <1>5, <2>1, <2>2
  <2>4. LrFacts(lrPc', y0', rowNumber', x0', stripe', above', below', work', kept', dst')
    BY <1>1, <2>1, <2>3 DEF LrFacts
  <2>5. QED
    BY <1>1, <2>1, <2>4, LrAfter
<1>9. QED
  BY <1>7, <1>8

LEMMA LrRows ==
  ASSUME LrInv, UNCHANGED frame, BeginUnitRow \/ StagePlane(OptimizedLr)
  PROVE  LrInv'
<1>1. frame \in Frames /\ lrPlane \in Nat
  BY DEF LrInv
<1>2. CASE BeginUnitRow
  <2>1. /\ lrPlane \in Restored /\ above = SavedAbove /\ below = SavedBelow /\ work = FreshRows
        /\ lrPc = "row" /\ y0 < Height
    BY <1>2 DEF LrInv, LrFacts, BeginUnitRow
  <2>2. Height \in Nat /\ PlaneWidth(lrPlane) \in Nat \ {0} /\ UnitSize(lrPlane) \in Nat \ {0}
    BY <1>1, <2>1, LrGeometry
  <2>3. UnitAt(UnitSize(lrPlane), Height, rowNumber, y0) /\ WrittenTo(dst, StartOf(y0), 0, 0, 0)
    BY <2>1, <2>2 DEF LrInv, LrFacts
  <2>4. rowNumber \in Nat /\ y0 \in Nat
    BY <2>3 DEF UnitAt
  <2>5. /\ lrPc' = "setup" /\ x0' = 0 /\ stripe' = StartOf(y0)
        /\ UNCHANGED <<lrPlane, y0, rowNumber, above, below, work, kept, dst>>
    BY <1>2 DEF BeginUnitRow, VStart, StartOf
  <2>6. UnitAt(UnitSize(lrPlane), PlaneWidth(lrPlane), 0, 0)
    BY <2>2 DEF UnitAt
  <2>7. ColumnAt(0) = 0 /\ HorzUnits(lrPlane) \in Nat
    BY <1>1, <2>1, <2>6, LineInside
  <2>8. /\ StartOf(y0) \in Nat /\ EndOf(y0) \in Nat /\ StripeAt(y0, StartOf(y0))
    BY <1>1, <2>1, <2>3, <2>4, RowEnds DEF StripeAt
  <2>9. WrittenTo(dst, StartOf(y0), EndOf(y0), 0, StartOf(y0))
    BY <1>1, <2>1, <2>3, <2>7, <2>8, WrittenFrom
  <2>10. LrFacts(lrPc', y0', rowNumber', x0', stripe', above', below', work', kept', dst')
    BY <2>1, <2>3, <2>5, <2>6, <2>7, <2>8, <2>9 DEF LrFacts
  <2>11. QED
    BY <1>1, <2>5, <2>10, LrAfter
<1>3. CASE StagePlane(OptimizedLr)
  <2>1. /\ lrPlane \in Restored /\ lrPc' = "row" /\ y0' = 0 /\ rowNumber' = 0
        /\ UNCHANGED <<lrPlane, kept>>
        /\ above' = SavedAbove /\ below' = SavedBelow /\ work' = FreshRows
    BY <1>3 DEF StagePlane, SavedAbove, SavedBelow, FreshRows
  <2>2. dst' = [r \in 0 .. Height - 1 |-> [j \in 0 .. HorzUnits(lrPlane) - 1 |-> <<>>]]
    BY <1>3 DEF StagePlane
  <2>3. Height \in Nat \ {0} /\ Voffset \in Nat \ {0} /\ UnitSize(lrPlane) \in Nat \ {0}
    BY <1>1, <2>1, LrGeometry
  <2>4. UnitAt(UnitSize(lrPlane), Height, 0, 0)
    BY <2>3 DEF UnitAt
  <2>5. StartOf(0) = 0
    BY <2>3 DEF StartOf
  <2>6. WrittenTo(dst', 0, 0, 0, 0)
    <3>1. \A r \in 0 .. Height - 1, j \in 0 .. HorzUnits(lrPlane) - 1 :
            (IF r < 0 \/ (r < 0 /\ (j < 0 \/ (j = 0 /\ r < 0))) THEN <<Owner(r, j)>> ELSE <<>>) = <<>>
      BY <2>3
    <3>2. QED
      BY <2>2, <3>1 DEF WrittenTo
  <2>7. LrFacts(lrPc', y0', rowNumber', x0', stripe', above', below', work', kept', dst')
    BY <2>1, <2>4, <2>5, <2>6 DEF LrFacts
  <2>8. QED
    BY <1>1, <2>1, <2>7, LrAfter
<1>4. QED
  BY <1>2, <1>3

LEMMA LrStripes ==
  ASSUME LrInv, UNCHANGED frame, CopyUnit \/ SetupStripe(OptimizedLr) \/ FilterStripe
  PROVE  LrInv'
<1>1. frame \in Frames /\ lrPlane \in Nat
  BY DEF LrInv
<1>2. /\ AtStripe /\ above = SavedAbove /\ below = SavedBelow
      /\ WrittenTo(dst, StartOf(y0), EndOf(y0), UnitColumn, stripe)
      /\ lrPc = "setup" => work = FreshRows
      /\ lrPc = "filter" => ContextShown(x0, stripe, work) /\ PutBack(x0, work, kept)
  BY LrAt DEF CopyUnit, SetupStripe, FilterStripe
<1>3. /\ UnitAt(UnitSize(lrPlane), Height, rowNumber, y0) /\ StripeAt(y0, stripe)
      /\ UnitAt(UnitSize(lrPlane), PlaneWidth(lrPlane), UnitColumn, x0)
      /\ lrPlane \in Restored
  BY <1>2 DEF AtStripe
<1>4. /\ y0 \in Nat /\ rowNumber \in Nat /\ x0 \in Nat /\ stripe \in Nat
      /\ VStart = StartOf(y0) /\ VEnd = EndOf(y0) /\ StripeEnd = StripeEndOf(stripe)
      /\ UnitColumn = ColumnAt(x0)
  BY <1>2, StripeIs DEF UnitColumn, ColumnAt
<1>5. /\ StartOf(y0) \in Nat /\ EndOf(y0) \in Nat /\ StartOf(y0) < EndOf(y0)
  BY <1>1, <1>3, <1>4, RowEnds
<1>6. /\ StripeEnd \in Nat /\ stripe < StripeEnd /\ StripeEnd <= EndOf(y0)
      /\ StripeEnd < EndOf(y0) => StripeAt(y0, StripeEnd)
  BY <1>1, <1>3, <1>4, StripeEnds
<1>7. stripe < EndOf(y0)
  BY <1>3, <1>5 DEF StripeAt
<1>8. CASE CopyUnit
  <2>1. /\ lrPc = "setup" /\ stripe = StartOf(y0) /\ NextUnit
        /\ dst' = Written(stripe .. EndOf(y0) - 1)
        /\ UNCHANGED <<lrPlane, above, below, work, kept>>
    BY <1>4, <1>8 DEF CopyUnit
  <2>2. WrittenTo(dst', StartOf(y0), EndOf(y0), UnitColumn, EndOf(y0))
    BY <1>1, <1>2, <1>3, <1>5, <1>7, <2>1, RowsWritten
  <2>3. QED
    BY <1>1, <1>2, <2>1, <2>2, NextUnitIs
<1>9. CASE SetupStripe(OptimizedLr)
  <2>1. /\ lrPc = "setup" /\ lrPc' = "filter"
        /\ work' = Overlay(ContextRows(OptimizedLr))
        /\ kept' = [r \in DOMAIN ContextRows(OptimizedLr) |-> work[r]]
        /\ UNCHANGED <<lrPlane, y0, rowNumber, x0, stripe, above, below, dst>>
    BY <1>9 DEF SetupStripe
  <2>2. ContextShown(x0, stripe, work') /\ PutBack(x0, work', kept')
    BY <1>2, <2>1, ContextSet
  <2>3. LrFacts(lrPc', y0', rowNumber', x0', stripe', above', below', work', kept', dst')
    BY <1>2, <1>3, <1>4, <2>1, <2>2 DEF LrFacts
  <2>4. QED
    BY <1>1, <2>1, <2>3, LrAfter
<1>10. CASE FilterStripe
  <2>1. /\ lrPc = "filter" /\ dst' = Written(stripe .. StripeEnd - 1) /\ work' = Overlay(kept)
        /\ UNCHANGED <<lrPlane, above, below>>
        /\ IF StripeEnd < EndOf(y0)
           THEN stripe' = StripeEnd /\ lrPc' = "setup" /\ UNCHANGED <<x0, y0, rowNumber>>
           ELSE NextUnit
    BY <1>4, <1>10 DEF FilterStripe
  <2>2. work' = FreshRows
    BY <1>2, <2>1, ContextPutBack
  <2>3. WrittenTo(dst', StartOf(y0), EndOf(y0), UnitColumn, StripeEnd)
    BY <1>1, <1>2, <1>3, <1>4, <1>6, <2>1, RowsWritten
  <2>4. CASE StripeEnd < EndOf(y0)
    <3>1. /\ stripe' = StripeEnd /\ lrPc' = "setup" /\ UNCHANGED <<x0, y0, rowNumber>>
          /\ StripeAt(y0, StripeEnd)
      BY <1>6, <2>1, <2>4
    <3>2. LrFacts(lrPc', y0', rowNumber', x0', stripe', above', below', work', kept', dst')
      BY <1>2, <1>3, <1>4, <2>1, <2>2, <2>3, <3>1 DEF LrFacts
    <3>3. QED
      BY <1>1, <2>1, <3>1, <3>2, LrAfter
  <2>5. CASE ~(StripeEnd < EndOf(y0))
    <3>1. StripeEnd = EndOf(y0) /\ NextUnit
      BY <1>5, <1>6, <2>1, <2>5
    <3>2. QED
      BY <1>1, <1>2, <2>1, <2>2, <2>3, <3>1, NextUnitIs
  <2>6. QED
    BY <2>4, <2>5
<1>11. QED
  BY <1>8, <1>9, <1>10

LEMMA LrInvInit == Init => LrInv
BY DEF Init, LrInv, LrFacts, RestorationIdle

LEMMA LrInvNext == LrInv /\ [Next]_vars => LrInv'
<1> SUFFICES ASSUME LrInv, [Next]_vars PROVE LrInv'
  OBVIOUS
<1>1. UNCHANGED frame /\ frame \in Frames /\ lrPlane \in Nat
  BY FrameStays DEF LrInv
<1>2. CASE BeginUnitRow \/ StagePlane(OptimizedLr)
  BY <1>1, <1>2, LrRows
<1>3. CASE CopyUnit \/ SetupStripe(OptimizedLr) \/ FilterStripe
  BY <1>1, <1>3, LrStripes
<1>4. CASE \/ SkipRestoredPlane \/ FinishPlane \/ RestorationStart \/ RestorationReturn
           \/ RestorationCancel
  <2>1. lrPlane' \in Nat /\ lrPc' \in {"off", "plane", "done", "stopped"}
    BY <1>1, <1>4 DEF SkipRestoredPlane, FinishPlane, RestorationStart, RestorationReturn,
                      RestorationCancel, planeVars
  <2>2. QED
    BY <1>1, <2>1, LrIdle
<1>5. CASE UNCHANGED lrVars
  <2>1. /\ lrPc' = lrPc /\ lrPlane' = lrPlane /\ y0' = y0 /\ rowNumber' = rowNumber /\ x0' = x0
        /\ stripe' = stripe /\ above' = above /\ below' = below /\ work' = work
        /\ kept' = kept /\ dst' = dst
    BY <1>5 DEF lrVars, planeVars
  <2>2. LrFacts(lrPc', y0', rowNumber', x0', stripe', above', below', work', kept', dst')
    BY <2>1 DEF LrInv
  <2>3. QED
    BY <1>1, <2>1, <2>2, LrAfter DEF LrInv
<1>6. QED
  BY <1>2, <1>3, <1>4, <1>5
     DEF Next, vars, ReadUnits, BeginCdef, CdefInWalk, CancelCdef, EndCdef, BeginSuperres,
         SuperresInWalk, BeginRestoration, RestorationInWalk, RestorationStep,
         CancelRestoration, EndRestoration, Returned

(* The slots, counted on the luma plane, are enough for the stripes of any plane. *)
LEMMA SlotsEnough ==
  ASSUME frame \in Frames, lrPlane \in Restored, NEW st \in Nat, st < Height,
         st = 0 \/ OnStripe(st)
  PROVE  StripeOf(st) < NumStripes
<1> DEFINE B == BlockPx
           U == UnitOffset
           s == StripeHeight
           v == Voffset
           y == SsY(lrPlane)
           m == 1 + y
           q == StripeOf(st)
           a == U + 4 * MiRows
           N == NumStripes
<1>1. /\ B \in Nat /\ B > 0 /\ B % 8 = 0 /\ U \in Nat /\ U % 2 = 0 /\ y \in {0, 1}
      /\ s = B \div m /\ v = U \div m
  BY LrGeometry, PlaneSizes, GeometryAssumption, RestorationAssumption DEF StripeHeight, Voffset
<1>2. m * s = B /\ m * v = U /\ s \in Nat \ {0} /\ v \in Nat
  BY <1>1
<1>3. /\ frame.h \in Nat \ {0} /\ MiRows \in Nat \ {0} /\ 4 * MiRows >= frame.h
  BY FrameFields, MiDimPositive DEF MiRows
<1>4. Height = (frame.h + y) \div m
  BY DEF Height, PlaneHeight
<1>5. Height \in Nat \ {0}
  BY LrGeometry
<1>6. m * (Height - 1) <= frame.h - 1
  BY <1>1, <1>3, <1>4
<1>7. q = (st + v) \div s /\ st + v \in Int
  BY <1>2 DEF StripeOf
<1>8. a \in Nat \ {0} /\ N = (a + B - 1) \div B
  BY <1>1, <1>3 DEF NumStripes
<1> HIDE DEF B, U, s, v, y, q, a, N
<1>9. q \in Int /\ s * q \in Int /\ s * q <= st + v
  BY <1>2, <1>7, Divided
<1>10. N \in Nat \ {0} /\ a <= B * N /\ B * N \in Int
  BY <1>1, <1>8, Pieces
<1>11. B * q = m * (s * q) /\ B * q \in Int
  BY <1>1, <1>2, <1>9
<1>12. m * (s * q) <= m * (Height - 1) + U
  BY <1>1, <1>2, <1>5, <1>9
<1>13. B * q < B * N
  <2>1. a = U + 4 * MiRows
    BY DEF a, U
  <2>2. QED
    BY <1>1, <1>3, <1>5, <1>6, <1>10, <1>11, <1>12, <2>1
<1>14. q < N
  <2>1. SUFFICES ASSUME N <= q PROVE FALSE
    BY <1>9, <1>10
  <2>2. N * B <= q * B /\ N * B = B * N /\ q * B = B * q
    BY <1>1, <1>9, <1>10, <2>1, Scaled
  <2>3. QED
    BY <1>10, <1>11, <1>13, <2>2
<1>15. QED
  BY <1>14 DEF q, N

(* A stripe is restored between the rows the format prescribes, from a snapshot with
   the history of the frame less CDEF; no context rows are lost for want of a slot. *)
THEOREM RestorationContextHolds == Spec => []RestorationContext
<1>1. LrInv /\ PipeInv => RestorationContext
  <2> SUFFICES ASSUME LrInv, PipeInv PROVE RestorationContext
    OBVIOUS
  <2>1. SlotsSuffice
    <3>1. SUFFICES ASSUME lrPc \in {"setup", "filter"} PROVE FrameStripe < NumStripes
      BY DEF SlotsSuffice
    <3>2. AtStripe
      BY <3>1, LrAt
    <3>3. stripe \in Nat /\ y0 \in Nat /\ rowNumber \in Nat /\ FrameStripe = StripeOf(stripe)
      BY <3>2, StripeIs
    <3>4. stripe < Height /\ (stripe = 0 \/ OnStripe(stripe))
      BY <3>2, <3>3, StripeEnds DEF AtStripe, StripeAt
    <3>5. QED
      BY <3>2, <3>3, <3>4, SlotsEnough DEF AtStripe
  <2>2. StripeSeesItsContext(OptimizedLr)
    <3> SUFFICES ASSUME lrPc = "filter", NEW r \in stripe - 3 .. StripeEnd + 2, NEW c \in Line
                 PROVE  work[r][c] =
                          <<IF Outside(stripe, r) /\ ~OptimizedLr THEN "deblocked" ELSE "current",
                            Clamp(IF Outside(stripe, r) THEN NearestRow(stripe, r) ELSE r, Height),
                            ToFrame(c)>>
      <4>1. ASSUME lrPc = "filter" PROVE StripeEnd = StripeEndOf(stripe)
        BY <4>1, LrAt, StripeIs
      <4>2. QED
        BY <4>1 DEF StripeSeesItsContext, Outside, NearestRow
    <3>1. AtStripe /\ ContextShown(x0, stripe, work)
      BY LrAt
    <3>2. StripeEnd = StripeEndOf(stripe) /\ c \in LineOf(x0) /\ c \in Padded
      BY <3>1, StripeIs
    <3>3. work[r][c] = ContextRow(stripe, r)[c]
      BY <3>1, <3>2 DEF ContextShown
    <3>4. \A t, i : RowOf(t, i)[c] = <<t, i, ToFrame(c)>>
      BY <3>2 DEF RowOf
    <3>5. QED
      BY <3>3, <3>4 DEF ContextRow
  <2>3. ASSUME stage = "restoring", NEW p \in Planes
        PROVE  (IF preCdef = <<>> THEN recon[p] ELSE preCdef[p])
                 = DeblockLabel(p) \o SuperresLabel
    <3>1. /\ frame \in Frames /\ DoLr
          /\ recon[p] = DeblockLabel(p) \o CdefLabel \o SuperresLabel
          /\ preCdef = IF DoLr /\ ~OptimizedLr
                       THEN [r \in Planes |-> DeblockLabel(r) \o SuperresLabel] ELSE <<>>
      BY <2>3 DEF PipeInv, PipeFacts, Histories, Snapshot
    <3>2. CASE OptimizedLr
      <4>1. CdefLabel = <<>> /\ SuperresLabel = <<>> /\ DeblockLabel(p) \in LabelSeq
        BY <3>1, <3>2, Labels DEF OptimizedLr
      <4>2. DeblockLabel(p) \o <<>> = DeblockLabel(p)
        BY <4>1, LabelsJoined
      <4>3. QED
        BY <3>1, <3>2, <4>1, <4>2
    <3>3. CASE ~OptimizedLr
      <4>1. preCdef[p] = DeblockLabel(p) \o SuperresLabel /\ DOMAIN preCdef = Planes
        BY <3>1, <3>3
      <4>2. preCdef # <<>>
        BY <4>1
      <4>3. QED
        BY <4>1, <4>2
    <3>4. QED
      BY <3>2, <3>3
  <2>4. QED
    BY <2>1, <2>2, <2>3 DEF RestorationContext
<1>2. QED
  BY <1>1, LrInvInit, LrInvNext, PipeInvInit, PipeInvNext, PTL DEF Spec

-----------------------------------------------------------------------------
(* The tiles: every unit's parameters are read once                        *)

CornerY(p, mi) == (mi * (4 \div (1 + SsY(p))) + UnitSize(p) - 1) \div UnitSize(p)
ScaleNum(p) == (4 \div (1 + SsX(p))) * (IF SuperresScaled THEN frame.denom ELSE 1)
ScaleDen(p) == UnitSize(p) * (IF SuperresScaled THEN 8 ELSE 1)
CornerX(p, mi) == (mi * ScaleNum(p) + ScaleDen(p) - 1) \div ScaleDen(p)

(* The units read before the superblock at row and col: those of the rows of
   superblocks above, and those to the left in its own. *)
SeenAt(p, rr, cc, row, col) ==
  rr < CornerY(p, row) \/ (rr < CornerY(p, row + MibSize) /\ cc < CornerX(p, col))
SeenBefore(row, col) ==
  [p \in Restored |->
     [u \in UnitsOf(p) |->
        IF SeenAt(p, u \div HorzUnits(p), u % HorzUnits(p), row, col) THEN 1 ELSE 0]]

ParseInv ==
  /\ frame \in Frames /\ sbRow \in Nat /\ sbCol \in Nat
  /\ Parsed => sbCol = 0
  /\ read = SeenBefore(sbRow, sbCol)

LEMMA DivMonotone ==
  ASSUME NEW b \in Nat \ {0}, NEW i \in Int, NEW j \in Int, i <= j
  PROVE  i \div b \in Int /\ j \div b \in Int /\ i \div b <= j \div b
<1> DEFINE q == i \div b
           r == j \div b
<1>1. q \in Int /\ b * q \in Int /\ b * q <= i
  BY Divided
<1>2. r \in Int /\ b * r \in Int /\ j < b * r + b
  BY Divided
<1> HIDE DEF q, r
<1>3. q <= r
  <2>1. SUFFICES ASSUME r < q PROVE FALSE
    BY <1>1, <1>2
  <2>2. b * r + b <= b * q
    BY <1>1, <1>2, <2>1, Further
  <2>3. QED
    BY <1>1, <1>2, <2>2
<1>4. QED
  BY <1>1, <1>2, <1>3 DEF q, r

(* Corners in mode-info cells that reach the extent, up to half a unit, find all
   its units; k scales the cells' grid to the extent's. *)
LEMMA UnitsCovered ==
  ASSUME NEW n \in Nat \ {0}, n % 2 = 0, NEW W \in Nat \ {0}, NEW k \in Nat \ {0},
         NEW Y \in Nat \ {0}, k * (W - n \div 2) < Y
  PROVE  CountUnits(n, W) <= (Y + n * k - 1) \div (n * k)
<1> DEFINE h == n \div 2
           b == n * k
           C == (Y + b - 1) \div b
           V == CountUnits(n, W)
           q == (W + h) \div n
<1>1. h \in Nat /\ n = 2 * h
  OBVIOUS
<1>2. b \in Nat \ {0}
  OBVIOUS
<1>3. V = IF W + h < n THEN 1 ELSE q
  BY DEF CountUnits
<1>4. k * (W - h) < Y
  OBVIOUS
<1> HIDE DEF b, h
<1>5. C \in Nat \ {0} /\ Y <= b * C
  BY <1>2, Pieces
<1>6. q \in Int /\ n * q \in Int /\ n * q <= W + h
  <2>1. W + h \in Int
    BY <1>1
  <2>2. \A a \in Int : a \div n \in Int /\ n * (a \div n) \in Int /\ n * (a \div n) <= a
    BY Divided
  <2>3. QED
    BY <2>1, <2>2
<1> HIDE DEF C, q, V
<1>7. b * C = (n * C) * k /\ n * C \in Int
  BY <1>5 DEF b
<1>8. W - h < n * C
  <2>1. SUFFICES ASSUME n * C <= W - h PROVE FALSE
    BY <1>1, <1>7
  <2>2. (n * C) * k <= (W - h) * k
    BY <1>1, <1>7, <2>1, Scaled
  <2>3. (W - h) * k = k * (W - h) /\ k * (W - h) \in Int
    BY <1>1
  <2>4. b * C \in Int
    BY <1>7, <1>5, <1>2
  <2>5. QED
    BY <1>4, <1>5, <1>7, <2>2, <2>3, <2>4
<1>9. q <= C
  <2>1. SUFFICES ASSUME C < q PROVE FALSE
    BY <1>5, <1>6
  <2>2. n * C + n <= n * q
    BY <1>5, <1>6, <2>1, Further
  <2>3. QED
    BY <1>1, <1>6, <1>7, <1>8, <2>2
<1>10. QED
  BY <1>3, <1>5, <1>9 DEF V, C, b

LEMMA RowCorners ==
  ASSUME frame \in Frames, NEW p \in Restored
  PROVE  /\ VertUnits(p) \in Nat /\ CornerY(p, 0) = 0
         /\ \A mi \in Nat : /\ CornerY(p, mi) \in Nat
                            /\ CornerY(p, mi) <= CornerY(p, mi + MibSize)
                            /\ mi >= MiRows => VertUnits(p) <= CornerY(p, mi)
<1> DEFINE n == UnitSize(p)
           y == SsY(p)
           a == 4 \div (1 + y)
           H == PlaneHeight(p)
           M == MibSize
           corner(i) == (i + n - 1) \div n
<1>1. /\ n \in Nat \ {0} /\ n % 2 = 0 /\ n >= 4 /\ H \in Nat \ {0} /\ y \in {0, 1}
  BY UnitGeometry, PlaneSizes
<1>2. a \in {2, 4} /\ (1 + y) * a = 4
  BY <1>1
<1>3. M \in Nat
  BY RestorationAssumption
<1>4. frame.h \in Nat \ {0} /\ MiRows \in Nat \ {0} /\ 4 * MiRows >= frame.h
  BY FrameFields, MiDimPositive DEF MiRows
<1>5. H <= MiRows * a
  BY <1>1, <1>2, <1>4 DEF PlaneHeight
<1>6. \A mi : CornerY(p, mi) = corner(mi * a)
  BY DEF CornerY
<1>7. VertUnits(p) = CountUnits(n, H)
  BY DEF VertUnits
<1> HIDE DEF n, a, H, M
<1>8. corner(0) = 0
  <2>1. n - 1 \in 0 .. n - 1 /\ n * 0 + (n - 1) = 0 + n - 1 /\ 0 \in Int
    BY <1>1
  <2>2. (n * 0 + (n - 1)) \div n = 0
    BY <1>1, <2>1, DivUnique
  <2>3. QED
    BY <2>1, <2>2
<1>9. \A i, j \in Nat : i <= j => corner(i) \in Int /\ corner(j) \in Int /\ corner(i) <= corner(j)
  BY <1>1, DivMonotone
<1>10. \A i \in Nat : n * 1 = n /\ corner(i) = (i + n * 1 - 1) \div (n * 1)
  BY <1>1
<1> HIDE DEF corner
<1>11. ASSUME NEW mi \in Nat
       PROVE  /\ CornerY(p, mi) \in Nat /\ CornerY(p, mi) <= CornerY(p, mi + M)
              /\ mi >= MiRows => VertUnits(p) <= CornerY(p, mi)
  <2>1. mi * a \in Nat /\ (mi + M) * a \in Nat
    BY <1>2, <1>3
  <2>2. 0 <= mi * a /\ mi * a <= (mi + M) * a
    BY <1>2, <1>3, <2>1, Scaled
  <2>3. CornerY(p, mi) \in Nat /\ CornerY(p, mi) <= CornerY(p, mi + M)
    <3>1. corner(0) <= corner(mi * a) /\ corner(mi * a) \in Int
      BY <1>9, <2>1, <2>2
    <3>2. corner(mi * a) <= corner((mi + M) * a)
      BY <1>9, <2>1, <2>2
    <3>3. QED
      BY <1>6, <1>8, <3>1, <3>2
  <2>4. ASSUME mi >= MiRows PROVE VertUnits(p) <= CornerY(p, mi)
    <3> DEFINE Y == mi * a
    <3>1. MiRows * a <= Y
      BY <1>2, <1>4, <2>4, Scaled
    <3>2. Y \in Nat /\ MiRows * a \in Nat
      BY <1>2, <1>4, <2>1
    <3> HIDE DEF Y
    <3>3. Y \in Nat \ {0} /\ 1 * (H - n \div 2) < Y
      BY <1>1, <1>5, <3>1, <3>2
    <3>4. \A k \in Nat \ {0} : k * (H - n \div 2) < Y =>
            CountUnits(n, H) <= (Y + n * k - 1) \div (n * k)
      BY <1>1, <3>3, UnitsCovered
    <3>5. CountUnits(n, H) <= (Y + n * 1 - 1) \div (n * 1)
      BY <3>3, <3>4
    <3>6. QED
      BY <1>6, <1>7, <1>10, <3>2, <3>5 DEF Y
  <2>5. QED
    BY <2>3, <2>4
<1>12. CountUnits(n, H) \in Nat
  <2>1. UnitAt(n, H, 0, 0)
    BY <1>1 DEF UnitAt
  <2>2. QED
    BY <1>1, <2>1, UnitsAlong
<1>13. CornerY(p, 0) = 0
  <2>1. 0 * a = 0
    BY <1>2
  <2>2. QED
    BY <1>6, <1>8, <2>1
<1>14. QED
  BY <1>7, <1>11, <1>12, <1>13 DEF M

LEMMA ColumnCorners ==
  ASSUME frame \in Frames, NEW p \in Restored
  PROVE  /\ HorzUnits(p) \in Nat \ {0} /\ CornerX(p, 0) = 0
         /\ \A mi \in Nat : /\ CornerX(p, mi) \in Nat
                            /\ CornerX(p, mi) <= CornerX(p, mi + MibSize)
                            /\ mi >= MiCols => HorzUnits(p) <= CornerX(p, mi)
<1> DEFINE n == UnitSize(p)
           x == SsX(p)
           a == 4 \div (1 + x)
           W == PlaneWidth(p)
           M == MibSize
           w == frame.w
           d == IF SuperresScaled THEN frame.denom ELSE 1
           k == IF SuperresScaled THEN 8 ELSE 1
           c == CodedFrameWidth
           num == ScaleNum(p)
           den == ScaleDen(p)
           corner(i) == (i + den - 1) \div den
<1>1. /\ n \in Nat \ {0} /\ n % 2 = 0 /\ n >= 4 /\ W \in Nat \ {0} /\ x \in {0, 1}
  BY UnitGeometry, PlaneSizes
<1>2. a \in {2, 4} /\ (1 + x) * a = 4
  BY <1>1
<1>3. M \in Nat
  BY RestorationAssumption
<1>4. w \in Nat \ {0} /\ MiCols \in Nat \ {0} /\ 4 * MiCols >= c /\ c \in Nat \ {0}
  BY FrameFields, CodedWidthPositive, MiDimPositive DEF MiCols
<1>5. /\ d \in Nat \ {0} /\ k \in Nat \ {0} /\ ((d = 1 /\ k = 1) \/ (d \in 9 .. 16 /\ k = 8))
      /\ num = a * d /\ den = n * k
  BY FrameFields DEF SuperresScaled, ScaleNum, ScaleDen
<1>6. num \in Nat \ {0} /\ den \in Nat \ {0}
  <2> HIDE DEF n, a, d, k, num, den
  <2>1. a * d \in Nat \ {0} /\ n * k \in Nat \ {0}
    BY <1>1, <1>2, <1>5
  <2>2. QED
    BY <1>5, <2>1
<1>7. \A mi : CornerX(p, mi) = corner(mi * num)
  BY DEF CornerX
<1>8. HorzUnits(p) = CountUnits(n, W)
  BY DEF HorzUnits
<1>9. k * w - 7 <= c * d
  <2>1. CASE SuperresScaled
    <3>1. c = (w * 8 + d \div 2) \div d /\ d \in 9 .. 16 /\ k = 8
      BY <1>5, <2>1 DEF CodedFrameWidth, CodedWidth, SuperresScaled
    <3> DEFINE t == w * 8 + d \div 2
    <3>2. t \in Int /\ t - d + 1 >= 8 * w - 7
      BY <1>4, <3>1
    <3> HIDE DEF t, d, c, k
    <3>3. t < d * (t \div d) + d
      <4>1. d \in Nat \ {0}
        BY <3>1
      <4>2. \A i \in Int : i < d * (i \div d) + d
        BY <4>1, Divided
      <4>3. QED
        BY <3>2, <4>2
    <3>4. c = t \div d /\ d * c = c * d /\ c * d \in Int
      BY <1>4, <1>5, <3>1 DEF t
    <3>5. t < c * d + d
      BY <3>3, <3>4
    <3> DEFINE z == c * d
    <3>6. z \in Int /\ t < z + d /\ d \in 9 .. 16 /\ k = 8
      BY <3>1, <3>4, <3>5
    <3> HIDE DEF z
    <3>7. k * w - 7 <= z
      BY <1>4, <3>2, <3>6
    <3>8. QED
      BY <3>7 DEF z
  <2>2. CASE ~SuperresScaled
    <3>1. c = w /\ d = 1 /\ k = 1
      BY <2>2 DEF CodedFrameWidth, CodedWidth, SuperresScaled
    <3>2. QED
      BY <1>4, <3>1
  <2>3. QED
    BY <2>1, <2>2
<1>10. (1 + x) * W <= w + x
  BY <1>1, <1>4 DEF PlaneWidth
<1>11. k = 1 => c = w /\ d = 1
  BY <1>5 DEF CodedFrameWidth, CodedWidth, SuperresScaled
<1> HIDE DEF n, x, a, W, M, w, d, k, c, num, den
<1>12. k * (W - n \div 2) < MiCols * num
  <2> DEFINE e == MiCols * d
             z == c * d
  <2>1. /\ MiCols * num = a * e /\ e \in Nat /\ z \in Nat
    BY <1>2, <1>4, <1>5
  <2>2. z <= 4 * e
    <3>1. c * d <= (4 * MiCols) * d
      BY <1>4, <1>5, Scaled
    <3>2. (4 * MiCols) * d = 4 * e
      BY <1>4, <1>5
    <3>3. QED
      BY <3>1, <3>2
  <2> HIDE DEF e
  <2>3. CASE k = 1
    <3>1. z = w
      BY <1>4, <1>11, <2>3
    <3> HIDE DEF z
    <3>2. QED
      BY <1>1, <1>2, <1>4, <1>10, <2>1, <2>2, <2>3, <3>1
  <2>4. CASE k = 8
    <3>1. 8 * w - 7 <= z
      BY <1>9, <2>4
    <3> HIDE DEF z
    <3>2. QED
      BY <1>1, <1>2, <1>4, <1>10, <2>1, <2>2, <2>4, <3>1
  <2>5. QED
    BY <1>5, <2>3, <2>4
<1>13. corner(0) = 0
  <2>1. den - 1 \in 0 .. den - 1 /\ den * 0 + (den - 1) = 0 + den - 1 /\ 0 \in Int
    BY <1>6
  <2>2. (den * 0 + (den - 1)) \div den = 0
    BY <1>6, <2>1, DivUnique
  <2>3. QED
    BY <2>1, <2>2
<1>14. \A i, j \in Nat : i <= j => corner(i) \in Int /\ corner(j) \in Int /\ corner(i) <= corner(j)
  BY <1>6, DivMonotone
<1>15. \A i : corner(i) = (i + n * k - 1) \div (n * k)
  BY <1>5
<1> HIDE DEF corner
<1>16. ASSUME NEW mi \in Nat
       PROVE  /\ CornerX(p, mi) \in Nat /\ CornerX(p, mi) <= CornerX(p, mi + M)
              /\ mi >= MiCols => HorzUnits(p) <= CornerX(p, mi)
  <2>1. mi * num \in Nat /\ (mi + M) * num \in Nat
    BY <1>3, <1>6
  <2>2. 0 <= mi * num /\ mi * num <= (mi + M) * num
    BY <1>3, <1>6, <2>1, Scaled
  <2>3. CornerX(p, mi) \in Nat /\ CornerX(p, mi) <= CornerX(p, mi + M)
    <3>1. corner(0) <= corner(mi * num) /\ corner(mi * num) \in Int
      BY <1>14, <2>1, <2>2
    <3>2. corner(mi * num) <= corner((mi + M) * num)
      BY <1>14, <2>1, <2>2
    <3>3. QED
      BY <1>7, <1>13, <3>1, <3>2
  <2>4. ASSUME mi >= MiCols PROVE HorzUnits(p) <= CornerX(p, mi)
    <3> DEFINE Y == mi * num
    <3>1. MiCols * num <= Y
      BY <1>4, <1>6, <2>4, Scaled
    <3>2. Y \in Nat /\ MiCols * num \in Nat /\ MiCols * num > 0
      BY <1>4, <1>6, <2>1
    <3> DEFINE r == k * (W - n \div 2)
               z == MiCols * num
    <3>3. r \in Int /\ r < z
      BY <1>1, <1>5, <1>12
    <3> HIDE DEF Y, r, z
    <3>4. Y \in Nat \ {0} /\ r < Y
      BY <3>1, <3>2, <3>3 DEF z
    <3>5. CountUnits(n, W) <= (Y + n * k - 1) \div (n * k)
      BY <1>1, <1>5, <3>4, UnitsCovered DEF r
    <3>6. QED
      BY <1>7, <1>8, <1>15, <3>5 DEF Y
  <2>5. QED
    BY <2>3, <2>4
<1>17. CountUnits(n, W) \in Nat \ {0}
  <2>1. UnitAt(n, W, 0, 0)
    BY <1>1 DEF UnitAt
  <2>2. QED
    BY <1>1, <2>1, UnitsAlong
<1>18. CornerX(p, 0) = 0
  <2>1. 0 * num = 0
    BY <1>6
  <2>2. QED
    BY <1>7, <1>13, <2>1
<1>19. QED
  BY <1>8, <1>16, <1>17, <1>18 DEF M

LEMMA UnitPlace ==
  ASSUME frame \in Frames, NEW p \in Restored, NEW u \in UnitsOf(p)
  PROVE  /\ u \div HorzUnits(p) \in 0 .. VertUnits(p) - 1
         /\ u % HorzUnits(p) \in 0 .. HorzUnits(p) - 1
         /\ u = (u \div HorzUnits(p)) * HorzUnits(p) + (u % HorzUnits(p))
<1> DEFINE U == HorzUnits(p)
           V == VertUnits(p)
           q == u \div U
           r == u % U
<1>1. U \in Nat \ {0} /\ V \in Nat
  BY RowCorners, ColumnCorners
<1>2. u \in 0 .. U * V - 1
  BY DEF UnitsOf
<1> HIDE DEF U, V
<1>3. u \in Int /\ u >= 0 /\ u < U * V /\ U * V \in Int
  BY <1>1, <1>2
<1>4. /\ q \in Int /\ U * q \in Int /\ r \in 0 .. U - 1 /\ u = U * q + r
      /\ U * q <= u /\ u < U * q + U
  BY <1>1, <1>3, Divided
<1> HIDE DEF q, r
<1>5. q < V
  <2>1. SUFFICES ASSUME V <= q PROVE FALSE
    BY <1>1, <1>4
  <2>2. V * U <= q * U
    BY <1>1, <1>4, <2>1, Scaled
  <2>3. V * U = U * V /\ q * U = U * q
    BY <1>1, <1>4
  <2>4. QED
    BY <1>3, <1>4, <2>2, <2>3
<1>6. q >= 0
  <2>1. SUFFICES ASSUME q < 0 PROVE FALSE
    BY <1>4
  <2>2. U * q + U <= U * 0
    BY <1>1, <1>4, <2>1, Further
  <2>3. QED
    BY <1>1, <1>3, <1>4, <2>2
<1>7. q * U = U * q
  BY <1>1, <1>4
<1>8. QED
  BY <1>1, <1>4, <1>5, <1>6, <1>7 DEF q, r, U, V

(* A superblock reads the units whose corner it holds. *)
LEMMA UnitReadIs ==
  ASSUME frame \in Frames, sbRow \in Nat, sbCol \in Nat, NEW p \in Restored, NEW u \in UnitsOf(p)
  PROVE  u \in UnitsRead(p) <=>
           /\ CornerY(p, sbRow) <= u \div HorzUnits(p)
           /\ u \div HorzUnits(p) < CornerY(p, sbRow + MibSize)
           /\ CornerX(p, sbCol) <= u % HorzUnits(p)
           /\ u % HorzUnits(p) < CornerX(p, sbCol + MibSize)
<1> DEFINE U == HorzUnits(p)
           V == VertUnits(p)
           q == u \div U
           r == u % U
           yl == CornerY(p, sbRow)
           yh == CornerY(p, sbRow + MibSize)
           xl == CornerX(p, sbCol)
           xh == CornerX(p, sbCol + MibSize)
<1>1. U \in Nat \ {0} /\ V \in Nat
  BY RowCorners, ColumnCorners
<1>2. sbRow + MibSize \in Nat /\ sbCol + MibSize \in Nat
  BY RestorationAssumption
<1>3. yl \in Nat /\ yh \in Nat
  BY <1>2, RowCorners
<1>4. xl \in Nat /\ xh \in Nat
  BY <1>2, ColumnCorners
<1>5. q \in 0 .. V - 1 /\ r \in 0 .. U - 1 /\ u = q * U + r
  BY UnitPlace
<1>6. CornersY(p, sbRow) = yl .. (IF yh < V THEN yh ELSE V) - 1
  BY DEF CornersY, CornerY
<1>7. CornersX(p, sbCol) = xl .. (IF xh < U THEN xh ELSE U) - 1
  BY DEF CornersX, CornerX, ScaleNum, ScaleDen
<1>8. UnitsRead(p) = {rrow * U + rcol : rrow \in CornersY(p, sbRow), rcol \in CornersX(p, sbCol)}
  BY DEF UnitsRead
<1>9. \A rrow \in Int, rcol \in 0 .. U - 1 : u = rrow * U + rcol => q = rrow /\ r = rcol
  <2> HIDE DEF U
  <2>1. SUFFICES ASSUME NEW rrow \in Int, NEW rcol \in 0 .. U - 1, u = rrow * U + rcol
                 PROVE  q = rrow /\ r = rcol
    OBVIOUS
  <2>2. u = U * rrow + rcol
    BY <1>1, <2>1
  <2>3. (U * rrow + rcol) \div U = rrow /\ (U * rrow + rcol) % U = rcol
    BY <1>1, DivUnique
  <2>4. QED
    BY <2>2, <2>3
<1> HIDE DEF U, V, q, r, yl, yh, xl, xh
<1>10. ASSUME u \in UnitsRead(p) PROVE yl <= q /\ q < yh /\ xl <= r /\ r < xh
  <2>1. PICK rrow \in CornersY(p, sbRow), rcol \in CornersX(p, sbCol) : u = rrow * U + rcol
    BY <1>8, <1>10
  <2>2. rrow \in Int /\ yl <= rrow /\ rrow < yh
    BY <1>1, <1>3, <1>6
  <2>3. rcol \in 0 .. U - 1 /\ xl <= rcol /\ rcol < xh
    BY <1>1, <1>4, <1>7
  <2>4. q = rrow /\ r = rcol
    BY <1>9, <2>1, <2>2, <2>3
  <2>5. QED
    BY <2>2, <2>3, <2>4
<1>11. ASSUME yl <= q, q < yh, xl <= r, r < xh PROVE u \in UnitsRead(p)
  <2>1. q \in CornersY(p, sbRow)
    BY <1>1, <1>3, <1>5, <1>6, <1>11
  <2>2. r \in CornersX(p, sbCol)
    BY <1>1, <1>4, <1>5, <1>7, <1>11
  <2>3. QED
    BY <1>5, <1>8, <2>1, <2>2
<1>12. QED
  BY <1>10, <1>11 DEF U, V, q, r, yl, yh, xl, xh

LEMMA ParseAfter ==
  ASSUME frame \in Frames, UNCHANGED frame, sbRow' \in Nat, sbCol' \in Nat,
         sbRow' >= MiRows => sbCol' = 0, read' = SeenBefore(sbRow', sbCol')
  PROVE  ParseInv'
<1>1. Restored' = Restored
  BY DEF Restored, Planes
<1>2. \A p : HorzUnits(p)' = HorzUnits(p) /\ VertUnits(p)' = VertUnits(p) /\ UnitSize(p)' = UnitSize(p)
  BY DEF HorzUnits, VertUnits, UnitSize, PlaneWidth, PlaneHeight, SsX, SsY
<1>3. \A p : UnitsOf(p)' = UnitsOf(p)
  BY <1>2 DEF UnitsOf
<1>4. \A p, mi : CornerY(p, mi)' = CornerY(p, mi)
  BY <1>2 DEF CornerY, SsY
<1>5. \A p : ScaleNum(p)' = ScaleNum(p) /\ ScaleDen(p)' = ScaleDen(p)
  BY <1>2 DEF ScaleNum, ScaleDen, SsX, SuperresScaled
<1>6. \A p, mi : CornerX(p, mi)' = CornerX(p, mi)
  BY <1>5 DEF CornerX
<1>7. \A p, rr, cc, row, col : SeenAt(p, rr, cc, row, col)' = SeenAt(p, rr, cc, row, col)
  BY <1>4, <1>6 DEF SeenAt
<1>8. \A row, col : SeenBefore(row, col)' = SeenBefore(row, col)
  BY <1>1, <1>2, <1>3, <1>7 DEF SeenBefore
<1>9. MiRows' = MiRows
  BY DEF MiRows
<1>10. QED
  BY <1>8, <1>9 DEF ParseInv, Parsed

LEMMA ParseInvInit == Init => ParseInv
<1> SUFFICES ASSUME Init PROVE ParseInv
  OBVIOUS
<1>1. frame \in Frames /\ sbRow = 0 /\ sbCol = 0
      /\ read = [p \in Restored |-> [u \in UnitsOf(p) |-> 0]]
  BY DEF Init, ParseInit
<1>2. ASSUME NEW p \in Restored, NEW u \in UnitsOf(p)
      PROVE  ~SeenAt(p, u \div HorzUnits(p), u % HorzUnits(p), 0, 0)
  <2>1. CornerY(p, 0) = 0 /\ CornerX(p, 0) = 0
    BY <1>1, RowCorners, ColumnCorners
  <2>2. u \div HorzUnits(p) \in Nat /\ u % HorzUnits(p) \in Nat
    <3>1. /\ u \div HorzUnits(p) \in 0 .. VertUnits(p) - 1
          /\ u % HorzUnits(p) \in 0 .. HorzUnits(p) - 1
      BY <1>1, UnitPlace
    <3>2. QED
      BY <3>1
  <2> DEFINE q == u \div HorzUnits(p)
             r == u % HorzUnits(p)
  <2> HIDE DEF q, r
  <2>3. ~SeenAt(p, q, r, 0, 0)
    <3>1. q \in Nat /\ r \in Nat
      BY <2>2 DEF q, r
    <3>2. QED
      BY <2>1, <3>1 DEF SeenAt
  <2>4. QED
    BY <2>3 DEF q, r
<1>3. SeenBefore(0, 0) = [p \in Restored |-> [u \in UnitsOf(p) |-> 0]]
  BY <1>2 DEF SeenBefore
<1>4. QED
  BY <1>1, <1>3 DEF ParseInv

(* A superblock adds its units to those seen, none of them twice. *)
LEMMA SuperblockSees ==
  ASSUME ParseInv, ParseSuperblock
  PROVE  read' = SeenBefore(sbRow, sbCol + MibSize)
<1> DEFINE M == MibSize
<1>1. /\ frame \in Frames /\ sbRow \in Nat /\ sbCol \in Nat /\ read = SeenBefore(sbRow, sbCol)
      /\ read' = [p \in Restored |->
                    [u \in UnitsOf(p) |-> read[p][u] + IF u \in UnitsRead(p) THEN 1 ELSE 0]]
  BY DEF ParseInv, ParseSuperblock
<1>2. M \in Nat /\ sbRow + M \in Nat /\ sbCol + M \in Nat
  BY <1>1, RestorationAssumption
<1>3. ASSUME NEW p \in Restored, NEW u \in UnitsOf(p)
      PROVE  read[p][u] + (IF u \in UnitsRead(p) THEN 1 ELSE 0)
               = IF SeenAt(p, u \div HorzUnits(p), u % HorzUnits(p), sbRow, sbCol + M)
                 THEN 1 ELSE 0
  <2> DEFINE q == u \div HorzUnits(p)
             r == u % HorzUnits(p)
             yl == CornerY(p, sbRow)
             yh == CornerY(p, sbRow + M)
             xl == CornerX(p, sbCol)
             xh == CornerX(p, sbCol + M)
  <2>1. read[p][u] = IF SeenAt(p, q, r, sbRow, sbCol) THEN 1 ELSE 0
    BY <1>1 DEF SeenBefore
  <2>2. u \in UnitsRead(p) <=> yl <= q /\ q < yh /\ xl <= r /\ r < xh
    BY <1>1, UnitReadIs
  <2>3. yl \in Nat /\ yh \in Nat /\ yl <= yh
    BY <1>1, <1>2, RowCorners
  <2>4. xl \in Nat /\ xh \in Nat /\ xl <= xh
    BY <1>1, <1>2, ColumnCorners
  <2>5. q \in Int /\ r \in Int
    <3>1. q \in 0 .. VertUnits(p) - 1 /\ r \in 0 .. HorzUnits(p) - 1
      BY <1>1, UnitPlace
    <3>2. QED
      BY <3>1
  <2>6. SeenAt(p, q, r, sbRow, sbCol) <=> q < yl \/ (q < yh /\ r < xl)
    BY DEF SeenAt
  <2>7. SeenAt(p, q, r, sbRow, sbCol + M) <=> q < yl \/ (q < yh /\ r < xh)
    BY DEF SeenAt
  <2> HIDE DEF q, r, yl, yh, xl, xh
  <2>8. QED
    <3>1. (IF SeenAt(p, q, r, sbRow, sbCol) THEN 1 ELSE 0) + (IF u \in UnitsRead(p) THEN 1 ELSE 0)
            = IF SeenAt(p, q, r, sbRow, sbCol + M) THEN 1 ELSE 0
      BY <2>2, <2>3, <2>4, <2>5, <2>6, <2>7
    <3>2. QED
      BY <2>1, <3>1 DEF q, r
<1>4. QED
  BY <1>1, <1>3 DEF SeenBefore

(* A row of superblocks is done when its last column is: the next row begins with
   every unit above it seen. *)
LEMMA RowSeen ==
  ASSUME frame \in Frames, NEW row \in Nat, NEW col \in Nat, col >= MiCols
  PROVE  SeenBefore(row, col) = SeenBefore(row + MibSize, 0)
<1> DEFINE M == MibSize
<1>1. M \in Nat /\ row + M \in Nat
  BY RestorationAssumption
<1>2. ASSUME NEW p \in Restored, NEW u \in UnitsOf(p)
      PROVE  SeenAt(p, u \div HorzUnits(p), u % HorzUnits(p), row, col)
               <=> SeenAt(p, u \div HorzUnits(p), u % HorzUnits(p), row + M, 0)
  <2> DEFINE q == u \div HorzUnits(p)
             r == u % HorzUnits(p)
             U == HorzUnits(p)
             V == VertUnits(p)
  <2>1. CornerY(p, row) \in Nat /\ CornerY(p, row + M) \in Nat /\ CornerY(p, row) <= CornerY(p, row + M)
    BY <1>1, RowCorners
  <2>2. U \in Nat /\ CornerX(p, 0) = 0 /\ CornerX(p, col) \in Nat /\ U <= CornerX(p, col)
    BY ColumnCorners
  <2>3. q \in 0 .. V - 1 /\ r \in 0 .. U - 1
    BY UnitPlace
  <2> HIDE DEF q, r, U, V
  <2>4. q \in Int /\ r \in Int /\ r >= 0 /\ r < U
    BY <2>2, <2>3
  <2>5. SeenAt(p, q, r, row, col) <=> SeenAt(p, q, r, row + M, 0)
    BY <2>1, <2>2, <2>4 DEF SeenAt
  <2>6. QED
    BY <2>5 DEF q, r
<1>3. QED
  BY <1>2 DEF SeenBefore

LEMMA ParseInvNext == ParseInv /\ [Next]_vars => ParseInv'
<1> SUFFICES ASSUME ParseInv, [Next]_vars PROVE ParseInv'
  OBVIOUS
<1>1. UNCHANGED frame /\ frame \in Frames /\ sbRow \in Nat /\ sbCol \in Nat
  BY FrameStays DEF ParseInv
<1>2. CASE ParseSuperblock
  <2>1. MibSize \in Nat /\ MiRows \in Int /\ MiCols \in Int
    BY <1>1, RestorationAssumption, FrameFields, CodedWidthPositive, MiDimPositive DEF MiRows, MiCols
  <2>2. ~(sbRow >= MiRows) /\ read' = SeenBefore(sbRow, sbCol + MibSize)
    BY <1>2, SuperblockSees DEF ParseSuperblock, Parsed
  <2>3. CASE sbCol + MibSize < MiCols
    <3>1. sbCol' = sbCol + MibSize /\ sbRow' = sbRow
      BY <1>2, <2>3 DEF ParseSuperblock
    <3>2. sbRow' \in Nat /\ sbCol' \in Nat /\ (sbRow' >= MiRows => sbCol' = 0)
          /\ read' = SeenBefore(sbRow', sbCol')
      BY <1>1, <2>1, <2>2, <3>1
    <3>3. QED
      BY <1>1, <3>2, ParseAfter
  <2>4. CASE ~(sbCol + MibSize < MiCols)
    <3>1. sbCol' = 0 /\ sbRow' = sbRow + MibSize
      BY <1>2, <2>4 DEF ParseSuperblock
    <3>2. SeenBefore(sbRow, sbCol + MibSize) = SeenBefore(sbRow + MibSize, 0)
      BY <1>1, <2>1, <2>4, RowSeen
    <3>3. sbRow' \in Nat /\ sbCol' \in Nat /\ (sbRow' >= MiRows => sbCol' = 0)
          /\ read' = SeenBefore(sbRow', sbCol')
      BY <1>1, <2>1, <2>2, <3>1, <3>2
    <3>4. QED
      BY <1>1, <3>3, ParseAfter
  <2>5. QED
    BY <2>3, <2>4
<1>3. CASE UNCHANGED parseVars
  <2>1. sbRow' = sbRow /\ sbCol' = sbCol /\ read' = read
    BY <1>3 DEF parseVars
  <2>2. sbRow' \in Nat /\ sbCol' \in Nat /\ (sbRow' >= MiRows => sbCol' = 0)
        /\ read' = SeenBefore(sbRow', sbCol')
    BY <1>1, <2>1 DEF ParseInv, Parsed
  <2>3. QED
    BY <1>1, <2>2, ParseAfter
<1>4. QED
  BY <1>2, <1>3
     DEF Next, vars, ReadUnits, BeginCdef, CdefInWalk, CancelCdef, EndCdef, BeginSuperres,
         SuperresInWalk, BeginRestoration, RestorationInWalk, CancelRestoration,
         EndRestoration, Returned

(* Every restoration unit's parameters are read by exactly one superblock, and of
   a plane the walk has finished every row of every unit column was written once,
   by the unit it belongs to: UnitsOnce, of lr_unit_corners and the frame walk,
   for every frame, unit size, subsampling and superres scale.  ParseInv says
   which units the superblocks before the current one have read; LrInv which rows
   the units before the current one have written. *)
THEOREM UnitsOnceHolds == Spec => []UnitsOnce
<1>1. ParseInv => UnitsReadOnce
  <2> SUFFICES ASSUME ParseInv, Parsed, NEW p \in Restored, NEW u \in UnitsOf(p)
               PROVE  read[p][u] = 1
    BY DEF UnitsReadOnce
  <2>1. /\ frame \in Frames /\ sbRow \in Nat /\ sbCol \in Nat /\ sbRow >= MiRows
        /\ read = SeenBefore(sbRow, sbCol)
    BY DEF ParseInv, Parsed
  <2>2. CornerY(p, sbRow) \in Nat /\ VertUnits(p) \in Nat /\ VertUnits(p) <= CornerY(p, sbRow)
    BY <2>1, RowCorners
  <2> DEFINE q == u \div HorzUnits(p)
             r == u % HorzUnits(p)
  <2>3. q \in 0 .. VertUnits(p) - 1
    BY <2>1, UnitPlace
  <2>4. read[p][u] = IF SeenAt(p, q, r, sbRow, sbCol) THEN 1 ELSE 0
    BY <2>1 DEF SeenBefore
  <2> HIDE DEF q, r
  <2>5. q < CornerY(p, sbRow)
    BY <2>2, <2>3
  <2>6. QED
    BY <2>4, <2>5 DEF SeenAt
<1>2. LrInv => RowsFilteredOnce
  <2> SUFFICES ASSUME LrInv, lrPc = "row", y0 >= Height,
                      NEW i \in 0 .. Height - 1, NEW j \in 0 .. HorzUnits(lrPlane) - 1
               PROVE  dst[i][j] = <<Owner(i, j)>>
    BY DEF RowsFilteredOnce, Owner
  <2>1. frame \in Frames /\ lrPlane \in Restored
    BY DEF LrInv, LrFacts
  <2>2. Height \in Nat
    BY <2>1, LrGeometry
  <2>3. \A n, k : UnitAt(n, Height, k, y0) => y0 \in Nat /\ y0 < Height
    BY <2>2 DEF UnitAt
  <2>4. \/ UnitAt(UnitSize(lrPlane), Height, rowNumber, y0)
        \/ y0 = Height /\ WrittenTo(dst, Height, 0, 0, 0)
    BY DEF LrInv, LrFacts
  <2>5. WrittenTo(dst, Height, 0, 0, 0)
    BY <2>2, <2>3, <2>4
  <2>6. i < Height
    BY <2>2
  <2>7. QED
    BY <2>5, <2>6 DEF WrittenTo
<1>3. ParseInv /\ LrInv => UnitsOnce
  BY <1>1, <1>2 DEF UnitsOnce
<1>4. QED
  BY <1>3, LrInvInit, LrInvNext, ParseInvInit, ParseInvNext, PTL DEF Spec

=============================================================================
