------------------------------ MODULE TileWalk ------------------------------
(***************************************************************************)
(* The decoder's walk of one frame's tiles: decode_frame_tiles_kf_ctx (and *)
(* its inter twin), decode_one_tile and the recursion of decode_partition, *)
(* with the state that outlives a block: the partition contexts above and  *)
(* to the left, the CDEF strengths already coded in the superblock, the    *)
(* tile's adapted symbol contexts, the corrupt and cancelled marks and the *)
(* list of decoded blocks the post filters read.                           *)
(*                                                                         *)
(* The recursion is a list of calls still to make, `todo`.  Positions and  *)
(* sizes are in mode-info units of 4 pixels.  A block's syntax is its      *)
(* position, its size, whether it skips and whether it reads a CDEF        *)
(* strength; frames are neither lossless nor intra-block-copied, for those *)
(* read no strength at all.  The restoration units read at a superblock's  *)
(* root are in module Restoration.                                         *)
(***************************************************************************)
EXTENDS Integers, Sequences, FiniteSets

CONSTANTS
  UnitMi,     (* Side of a CDEF unit and of BLOCK_64X64 (16 in the code).   *)
  Frames      (* The frames to decode: rows, cols and mib (the superblock's *)
              (* side), ssx and ssy, tiles, saveTile (context_update_tile_  *)
              (* id), token (the caller gave a stop token), bad (a block's  *)
              (* syntax may be out of range), skips (blocks may skip) and   *)
              (* parts (bound: the partitions not the plainest, in all).    *)

InTile(t, row, col) == row \in t.top .. t.bottom - 1 /\ col \in t.left .. t.right - 1

(* The tiles share the frame out: none is empty, each cell is in one. *)
TilesShareOut(f) ==
  /\ \A i \in DOMAIN f.tiles :
       f.tiles[i].top < f.tiles[i].bottom /\ f.tiles[i].left < f.tiles[i].right
  /\ \A row \in 0 .. f.rows - 1, col \in 0 .. f.cols - 1 :
       \E i \in DOMAIN f.tiles :
         \A j \in DOMAIN f.tiles : InTile(f.tiles[j], row, col) <=> j = i

FrameOK(f) ==
  /\ f.rows \in Nat /\ f.cols \in Nat /\ f.rows % 2 = 0 /\ f.cols % 2 = 0
  /\ f.mib \in {UnitMi, 2 * UnitMi} /\ f.parts \in Nat /\ f.skips \in BOOLEAN
  /\ f.ssx \in {0, 1} /\ f.ssy \in {0, 1}
  /\ f.tiles \in Seq([top : Nat, bottom : Nat, left : Nat, right : Nat])
  /\ \A i \in DOMAIN f.tiles :
       /\ f.tiles[i].bottom <= f.rows /\ f.tiles[i].right <= f.cols
       /\ f.tiles[i].top % f.mib = 0 /\ f.tiles[i].left % f.mib = 0
       /\ f.tiles[i].bottom % f.mib = 0 \/ f.tiles[i].bottom = f.rows
       /\ f.tiles[i].right % f.mib = 0 \/ f.tiles[i].right = f.cols
  /\ TilesShareOut(f)

ASSUME WalkAssumption ==
  /\ UnitMi \in {4, 8, 16}
  /\ \A f \in Frames : FrameOK(f)

VARIABLES
  frame,       (* The frame's geometry, tiles, save tile, stop token...     *)
  pc,          (* "tiles", "row", "walk" or "done".                         *)
  tile,        (* The tile it is at.                                        *)
  sbRow, sbCol,(* The superblock it is at.                                  *)
  todo,        (* The calls the recursion has still to make, first first.   *)
  above,       (* above_p, by column.                                       *)
  left,        (* left_p, by row in a superblock of the largest size.       *)
  transmitted, (* cdef_transmitted, by unit of the superblock.              *)
  blocks,      (* The blocks decoded, in order.                             *)
  adapted,     (* The tiles whose symbols have adapted the symbol contexts. *)
  saved,       (* The contexts kept for later frames, as adapted.           *)
  corrupt, cancelled,
  fired,       (* The caller's stop token has fired.                        *)
  late,        (* The rows of superblocks with a block decoded since.       *)
  parts        (* Bound: the partitions still to be chosen freely.          *)

tileVars == <<tile, sbRow, sbCol, adapted, saved>>
contextVars == <<above, left>>
blockVars == <<transmitted, blocks, late>>
endVars == <<corrupt, cancelled>>
vars == <<frame, pc, tileVars, todo, contextVars, blockVars, endVars, fired, parts>>

LargestMi == 2 * UnitMi
Tile == frame.tiles[tile]
AlignedRight == Tile.left + ((Tile.right - Tile.left + frame.mib - 1) \div frame.mib) * frame.mib

-----------------------------------------------------------------------------
(* The sizes a partition of a square of `size` gives, and its blocks.      *)
Halved == {"HORZ", "HORZ_A", "HORZ_B"}
Sided == {"VERT", "VERT_A", "VERT_B"}

Subsize(size, p) ==
  CASE p = "NONE" -> [w |-> size, h |-> size]
    [] p = "SPLIT" -> [w |-> size \div 2, h |-> size \div 2]
    [] p \in Halved -> [w |-> size, h |-> size \div 2]
    [] p \in Sided -> [w |-> size \div 2, h |-> size]
    [] p = "HORZ_4" -> [w |-> size, h |-> size \div 4]
    [] p = "VERT_4" -> [w |-> size \div 4, h |-> size]

(* The symbols a square of `size` can code: no extended partition at 8x8,  *)
(* no 4:1 at 128x128.                                                      *)
Symbols(size) ==
  {"NONE", "HORZ", "VERT", "SPLIT"}
    \union (IF size > 2 THEN {"HORZ_A", "HORZ_B", "VERT_A", "VERT_B"} ELSE {})
    \union (IF size > 2 /\ size < LargestMi THEN {"HORZ_4", "VERT_4"} ELSE {})

(* Mutant: a square whose lower half starts at the frame's last row plus   *)
(* one is taken to have rows there.                                        *)
HasRowsOneMore(row, size) == row + size \div 2 <= frame.rows
HasRows(row, size) == row + size \div 2 < frame.rows
HasCols(col, size) == col + size \div 2 < frame.cols

Partitions(row, col, size) ==
  IF size = 1 THEN {"NONE"}
  ELSE IF HasRows(row, size)
       THEN IF HasCols(col, size) THEN Symbols(size) ELSE {"VERT", "SPLIT"}
       ELSE IF HasCols(col, size) THEN {"HORZ", "SPLIT"} ELSE {"SPLIT"}

(* The bound: a partition other than NONE, or than the alike one at an     *)
(* edge, uses one of the free choices.                                     *)
Plain(p, row, col, size) ==
  \/ p = "NONE"
  \/ p = "HORZ" /\ ~HasRows(row, size)
  \/ p = "VERT" /\ ~HasCols(col, size)
  \/ ~HasRows(row, size) /\ ~HasCols(col, size)

NodeCall(row, col, size) == [do |-> "node", row |-> row, col |-> col, size |-> size]
BlockCall(row, col, sub, p) ==
  [do |-> "block", row |-> row, col |-> col, w |-> sub.w, h |-> sub.h, part |-> p]
StampCall(row, col, size, p) ==
  [do |-> "stamp", row |-> row, col |-> col, size |-> size, part |-> p]

Calls(row, col, size, p) ==
  LET hbs == size \div 2
      quarter == size \div 4
      sub == Subsize(size, p)
      half == Subsize(size, "SPLIT")
      B(r, c, s) == BlockCall(r, c, s, p)
      InFrame(r, c) == IF r < frame.rows /\ c < frame.cols THEN <<B(r, c, sub)>> ELSE <<>>
  IN CASE p = "NONE" -> <<B(row, col, sub)>>
       [] p = "HORZ" -> <<B(row, col, sub)>> \o
            IF HasRows(row, size) THEN <<B(row + hbs, col, sub)>> ELSE <<>>
       [] p = "VERT" -> <<B(row, col, sub)>> \o
            IF HasCols(col, size) THEN <<B(row, col + hbs, sub)>> ELSE <<>>
       [] p = "SPLIT" -> <<NodeCall(row, col, hbs), NodeCall(row, col + hbs, hbs),
                           NodeCall(row + hbs, col, hbs), NodeCall(row + hbs, col + hbs, hbs)>>
       [] p = "HORZ_A" -> <<B(row, col, half), B(row, col + hbs, half), B(row + hbs, col, sub)>>
       [] p = "HORZ_B" -> <<B(row, col, sub), B(row + hbs, col, half), B(row + hbs, col + hbs, half)>>
       [] p = "VERT_A" -> <<B(row, col, half), B(row + hbs, col, half), B(row, col + hbs, sub)>>
       [] p = "VERT_B" -> <<B(row, col, sub), B(row, col + hbs, half), B(row + hbs, col + hbs, half)>>
       [] p = "HORZ_4" -> InFrame(row, col) \o InFrame(row + quarter, col)
            \o InFrame(row + 2 * quarter, col) \o InFrame(row + 3 * quarter, col)
       [] p = "VERT_4" -> InFrame(row, col) \o InFrame(row, col + quarter)
            \o InFrame(row, col + 2 * quarter) \o InFrame(row, col + 3 * quarter)

-----------------------------------------------------------------------------
(* The partition contexts: a byte with a bit for each square larger than   *)
(* the block that stamped it.                                              *)
ContextByte(length) == LargestMi - length
ContextBit(byte, size) == (byte \div (size \div 2)) % 2
LeftSlot(row) == row % LargestMi

(* Where update_partition_context writes: at a position, the bytes of one  *)
(* size over the extent of another.                                        *)
Stamp(row, col, of, over) == [row |-> row, col |-> col, of |-> of, over |-> over]

(* Mutant: the parts of a HORZ_A or HORZ_B leave one stamp over the whole. *)
StampsHorzBOnce(row, col, size, p) ==
  LET whole == [w |-> size, h |-> size]
      sub == Subsize(size, p)
  IN IF p \in {"HORZ_A", "HORZ_B"} THEN <<Stamp(row, col, sub, whole)>>
     ELSE IF p = "SPLIT" /\ size > 2 THEN <<>> ELSE <<Stamp(row, col, sub, whole)>>

Stamps(row, col, size, p) ==
  LET hbs == size \div 2
      whole == [w |-> size, h |-> size]
      sub == Subsize(size, p)
      half == Subsize(size, "SPLIT")
  IN CASE p = "SPLIT" -> IF size = 2 THEN <<Stamp(row, col, sub, whole)>> ELSE <<>>
       [] p \in {"NONE", "HORZ", "VERT", "HORZ_4", "VERT_4"} -> <<Stamp(row, col, sub, whole)>>
       [] p = "HORZ_A" -> <<Stamp(row, col, half, sub), Stamp(row + hbs, col, sub, sub)>>
       [] p = "HORZ_B" -> <<Stamp(row, col, sub, sub), Stamp(row + hbs, col, half, sub)>>
       [] p = "VERT_A" -> <<Stamp(row, col, half, sub), Stamp(row, col + hbs, sub, sub)>>
       [] p = "VERT_B" -> <<Stamp(row, col, sub, sub), Stamp(row, col + hbs, half, sub)>>

(* The bytes after the stamps: at each place the last stamp over it holds. *)
LastOf(indices) == CHOOSE i \in indices : \A j \in indices : j <= i

StampedAbove(stamps) ==
  [x \in DOMAIN above |->
     LET over == {i \in DOMAIN stamps :
                    x \in stamps[i].col .. stamps[i].col + stamps[i].over.w - 1}
     IN IF over = {} THEN above[x] ELSE ContextByte(stamps[LastOf(over)].of.w)]

StampedLeft(stamps) ==
  [y \in DOMAIN left |->
     LET over == {i \in DOMAIN stamps :
                    y - LeftSlot(stamps[i].row) \in 0 .. stamps[i].over.h - 1}
     IN IF over = {} THEN left[y] ELSE ContextByte(stamps[LastOf(over)].of.h)]

-----------------------------------------------------------------------------
(* What a block reads of its surroundings, relative to its tile.           *)

(* Mutant: a block is taken to have a left neighbour wherever the frame    *)
(* has one.                                                                *)
LeftAvailableInFrame(col) == col > 0
UpAvailable(row) == row > Tile.top
LeftAvailable(col) == col > Tile.left

Inside(row, col) == InTile(Tile, row, col)

(* mvref_has_top_right: has the block at the top-right corner been decoded?*)
(* Bit(x, bs) is x & bs, for a power of two.                               *)
Bit(x, bs) == (x \div bs) % 2 = 1

(* The size the loop stops at: `bs` doubled while the column has its bit   *)
(* and the next larger square is not its parent's lower right quarter.     *)
Refused(call, bs) ==
  /\ bs < frame.mib /\ Bit(call.col % frame.mib, bs)
  /\ Bit(call.col % frame.mib, 2 * bs) /\ Bit(call.row % frame.mib, 2 * bs)
Climbs(call, bs) ==
  bs < frame.mib /\ Bit(call.col % frame.mib, bs) /\ ~Refused(call, bs)
Sizes == {1, 2, 4, 8, 16, 32}
LastSize(call, start) ==
  CHOOSE bs \in Sizes :
    /\ bs >= start /\ ~Climbs(call, bs)
    /\ \A s \in Sizes : s >= start /\ s < bs => Climbs(call, s)

(* Mutant: the last rule is tried at the size the loop started from. *)
HasTopRightFirstSize(call) ==
  LET row == call.row % frame.mib
      col == call.col % frame.mib
      start == IF call.w > call.h THEN call.w ELSE call.h
      last == LastSize(call, start)
      square == ~(Bit(row, start) /\ Bit(col, start)) /\ ~Refused(call, last)
  IN /\ start <= UnitMi
     /\ CASE call.w < call.h -> square \/ (call.col + call.w) % call.h # 0
          [] call.w > call.h -> square /\ call.row % call.w = 0
          [] OTHER -> square

HasTopRight(call) ==
  LET row == call.row % frame.mib
      col == call.col % frame.mib
      start == IF call.w > call.h THEN call.w ELSE call.h
      last == LastSize(call, start)
      square == ~(Bit(row, start) /\ Bit(col, start)) /\ ~Refused(call, last)
  IN /\ start <= UnitMi
     /\ CASE call.w < call.h -> square \/ (call.col + call.w) % call.h # 0
          [] call.w > call.h -> square /\ call.row % call.w = 0
          [] OTHER -> square /\ ~(call.part = "VERT_A" /\ Bit(row, last))

(* find_inter_mv_refs: the rows above (the columns to the left) it scans,   *)
(* as distances: the nearest, then two on every second one, within the     *)
(* tile.  A block one cell long at an odd position is one cell off the     *)
(* grid of 8x8 that the further ones keep to.                              *)
OffGrid(x, length) == length = 1 /\ x % 2 = 1
Adjust(x, length) == IF OffGrid(x, length) THEN 1 ELSE 0

(* Mutant: the tile's edge does not end the scans. *)
ReachPastTile(x, length, start) ==
  IF x = start THEN 0 ELSE (IF length = 1 THEN 4 ELSE 6) - Adjust(x, length)
Reach(x, length, start) ==
  LET far == (IF length = 1 THEN 4 ELSE 6) - Adjust(x, length)
  IN IF far < x - start THEN far ELSE x - start
Distances(x, length, start) ==
  {d \in {1, 3 - Adjust(x, length), 5 - Adjust(x, length)} : d <= Reach(x, length, start)}

(* scan_row_mbmi and scan_col_mbmi: where along a row (a column) there may *)
(* be a candidate.  A further one is looked at for one unit of CDEF at the *)
(* most, from the second cell of each 8x8 on; the nearest one is walked    *)
(* whole by find_samples and has_overlappable_neighbors.  How far a step   *)
(* goes depends on the candidate: every place it can reach is here.        *)
Strides(x, length, distance, edge) ==
  {i \in 0 .. length - 1 : x + i < edge /\ (distance > 1 => i < UnitMi /\ i % 2 = 0)}

(* Mutant: from the second cell, even where a block is off the grid. *)
AlongShifted(x, length, distance, edge) ==
  {x + i + (IF distance > 1 THEN 1 ELSE 0) : i \in Strides(x, length, distance, edge)}
Along(x, length, distance, edge) ==
  LET shift == IF distance > 1 /\ ~OffGrid(x, length) THEN 1 ELSE 0
  IN {x + i + shift : i \in Strides(x, length, distance, edge)}

ScannedRows(call) ==
  UNION {{call.row - d} \X Along(call.col, call.w, d, frame.cols) :
           d \in Distances(call.row, call.h, Tile.top)}
ScannedCols(call) ==
  UNION {Along(call.row, call.h, d, frame.rows) \X {call.col - d} :
           d \in Distances(call.col, call.w, Tile.left)}

(* The cells a block's contexts (those directly above and to the left) and *)
(* its motion-vector predictors read: the rows and columns scanned and the *)
(* two corners.                                                            *)
CellsRead(call) ==
  (IF UpAvailable(call.row) THEN {<<call.row - 1, call.col>>} ELSE {})
    \union (IF LeftAvailable(call.col) THEN {<<call.row, call.col - 1>>} ELSE {})
    \union ScannedRows(call) \union ScannedCols(call)
    \union (IF Inside(call.row - 1, call.col - 1)
            THEN {<<call.row - 1, call.col - 1>>} ELSE {})
    \union (IF HasTopRight(call) /\ Inside(call.row - 1, call.col + call.w)
            THEN {<<call.row - 1, call.col + call.w>>} ELSE {})

(* is_chroma_reference, and the chroma samples such a block carries: from  *)
(* the even position of its group, at least one.                           *)
(* Mutant: any block with an odd length carries its group's samples. *)
ChromaReferenceAny(b) ==
  b.h % 2 = 0 \/ b.w % 2 = 0 \/ b.row % 2 = 1 \/ b.col % 2 = 1
ChromaReference(b) ==
  /\ b.row % 2 = 1 \/ b.h % 2 = 0 \/ frame.ssy = 0
  /\ b.col % 2 = 1 \/ b.w % 2 = 0 \/ frame.ssx = 0
PlaneStart(x, length, ss) == IF ss = 1 THEN (x - IF length = 1 THEN x % 2 ELSE 0) \div 2 ELSE x
PlaneLength(length, ss) == IF ss = 1 /\ length > 1 THEN length \div 2 ELSE length

(* The sizes whose chroma block does not exist: portrait ones in 4:2:2.    *)
InvalidChroma(sub) == frame.ssx = 1 /\ frame.ssy = 0 /\ sub.h > sub.w

-----------------------------------------------------------------------------
(* CDEF strengths. *)

(* The slot of cdef_transmitted a block's strength is noted in. *)
UnitIndex(row, col) ==
  IF frame.mib = LargestMi
  THEN (IF Bit(col, UnitMi) THEN 1 ELSE 0) + 2 * (IF Bit(row, UnitMi) THEN 1 ELSE 0)
  ELSE 0

NotTransmitted == [i \in 0 .. 3 |-> FALSE]

(* Mutant: the flags are cleared for a tile's first superblock only. *)
TransmittedByTile(row, col) ==
  IF row = Tile.top /\ col = Tile.left THEN NotTransmitted ELSE transmitted
TransmittedBefore(row, col) ==
  IF row % frame.mib = 0 /\ col % frame.mib = 0 THEN NotTransmitted ELSE transmitted

(* apply_cdef_stop's table: the block whose strength a unit is filtered    *)
(* with, 0 for none.  A block of several units stamps every one of them.   *)
UnitsOf(b) ==
  (b.row \div UnitMi .. (b.row + b.h - 1) \div UnitMi)
    \X (b.col \div UnitMi .. (b.col + b.w - 1) \div UnitMi)
(* Mutant: only the unit of its upper left corner. *)
StrengthOfCorner(u) ==
  LET hits == {i \in DOMAIN blocks : blocks[i].strength
                 /\ u = <<blocks[i].row \div UnitMi, blocks[i].col \div UnitMi>>}
  IN IF hits = {} THEN 0 ELSE LastOf(hits)
UnitStrength(u) ==
  LET hits == {i \in DOMAIN blocks : blocks[i].strength /\ u \in UnitsOf(blocks[i])}
  IN IF hits = {} THEN 0 ELSE LastOf(hits)

-----------------------------------------------------------------------------
Init ==
  /\ frame \in Frames
  /\ pc = "tiles" /\ tile = 1 /\ sbRow = 0 /\ sbCol = 0
  /\ todo = <<>>
  /\ above = [c \in 0 .. frame.cols + frame.mib - 1 |-> 0]
  /\ left = [r \in 0 .. LargestMi - 1 |-> 0]
  /\ transmitted = NotTransmitted
  /\ blocks = <<>>
  /\ adapted = {} /\ saved = {}
  /\ corrupt = FALSE /\ cancelled = FALSE
  /\ fired = FALSE /\ late = {}
  /\ parts = frame.parts

(* The caller's token fires, at any time, and stays fired. *)
FireStop ==
  /\ frame.token /\ ~fired /\ pc # "done"
  /\ fired' = TRUE
  /\ UNCHANGED <<frame, pc, tileVars, todo, contextVars, blockVars, endVars, parts>>

(* start_tile, after the poll between tiles: this tile's columns of the    *)
(* contexts above are zeroed and its symbol contexts are the frame's own.  *)
(* Mutant: the contexts above are left as the tile above left them. *)
AboveKept == above
AboveZeroed ==
  [c \in DOMAIN above |-> IF c \in Tile.left .. AlignedRight - 1 THEN 0 ELSE above[c]]

(* Mutant: the symbol contexts of the tile before carry over. *)
ContextsCarried == adapted
ContextsLoaded == {}

StartTile ==
  /\ pc = "tiles" /\ tile <= Len(frame.tiles) /\ ~fired
  /\ pc' = "row"
  /\ sbRow' = Tile.top
  /\ above' = AboveZeroed
  /\ adapted' = ContextsLoaded
  /\ UNCHANGED <<frame, tile, sbCol, saved, todo, left, blockVars, endVars, fired, parts>>

CancelAtTile ==
  /\ pc = "tiles" /\ tile <= Len(frame.tiles) /\ fired
  /\ cancelled' = TRUE
  /\ pc' = "done"
  /\ UNCHANGED <<frame, tileVars, todo, contextVars, blockVars, corrupt, fired, parts>>

TilesDone ==
  /\ pc = "tiles" /\ tile > Len(frame.tiles)
  /\ pc' = "done"
  /\ UNCHANGED <<frame, tileVars, todo, contextVars, blockVars, endVars, fired, parts>>

(* The tile is over, however it ended: the frame may save its contexts. *)
EndTile ==
  /\ pc' = "tiles"
  /\ tile' = tile + 1
  /\ saved' = IF tile = frame.saveTile THEN adapted ELSE saved
  /\ UNCHANGED <<sbRow, sbCol, adapted>>

(* A row of superblocks: the poll, the contexts to the left, the first     *)
(* superblock.                                                             *)
(* Mutant: the contexts to the left are left as the row above left them. *)
LeftKept == left
LeftZeroed == [r \in DOMAIN left |-> 0]

(* Mutant: no poll between the rows. *)
StopNever == FALSE
StopPolled == fired

StartRow ==
  /\ pc = "row" /\ sbRow < Tile.bottom /\ ~StopPolled
  /\ pc' = "walk"
  /\ sbCol' = Tile.left
  /\ left' = LeftZeroed
  /\ todo' = <<NodeCall(sbRow, Tile.left, frame.mib)>>
  /\ UNCHANGED <<frame, tile, sbRow, adapted, saved, above, blockVars, endVars, fired, parts>>

CancelAtRow ==
  /\ pc = "row" /\ sbRow < Tile.bottom /\ StopPolled
  /\ cancelled' = TRUE
  /\ EndTile
  /\ UNCHANGED <<frame, todo, contextVars, blockVars, corrupt, fired, parts>>

RowsDone ==
  /\ pc = "row" /\ sbRow >= Tile.bottom
  /\ EndTile
  /\ UNCHANGED <<frame, todo, contextVars, blockVars, endVars, fired, parts>>

(* The recursion is back from a superblock. *)
NextSuperblock ==
  /\ pc = "walk" /\ todo = <<>> /\ ~corrupt
  /\ IF sbCol + frame.mib < Tile.right
     THEN /\ sbCol' = sbCol + frame.mib
          /\ todo' = <<NodeCall(sbRow, sbCol', frame.mib)>>
          /\ UNCHANGED <<pc, sbRow>>
     ELSE /\ pc' = "row" /\ sbRow' = sbRow + frame.mib
          /\ UNCHANGED <<sbCol, todo>>
  /\ UNCHANGED <<frame, tile, adapted, saved, contextVars, blockVars, endVars, fired, parts>>

GiveUp ==
  /\ pc = "walk" /\ todo = <<>> /\ corrupt
  /\ EndTile
  /\ UNCHANGED <<frame, todo, contextVars, blockVars, endVars, fired, parts>>

-----------------------------------------------------------------------------
Call == Head(todo)
At(do) == pc = "walk" /\ todo # <<>> /\ Call.do = do
OutOfFrame == Call.row >= frame.rows \/ Call.col >= frame.cols

(* decode_partition returns at once: poisoned, or outside the frame.       *)
SkipNode ==
  /\ At("node") /\ (corrupt \/ OutOfFrame)
  /\ todo' = Tail(todo)
  /\ UNCHANGED <<frame, pc, tileVars, contextVars, blockVars, endVars, fired, parts>>

(* A symbol adapts the tile's contexts only where rows and columns remain. *)
Adapting(size) == size > 1 /\ HasRows(Call.row, size) /\ HasCols(Call.col, size)

ReadPartition ==
  /\ At("node") /\ ~corrupt /\ ~OutOfFrame
  /\ \E p \in Partitions(Call.row, Call.col, Call.size) :
       /\ Plain(p, Call.row, Call.col, Call.size) \/ parts > 0
       /\ parts' = IF Plain(p, Call.row, Call.col, Call.size) THEN parts ELSE parts - 1
       /\ adapted' = IF Adapting(Call.size) THEN adapted \union {tile} ELSE adapted
       /\ IF InvalidChroma(Subsize(Call.size, p))
          THEN corrupt' = TRUE /\ todo' = Tail(todo)
          ELSE /\ todo' = Calls(Call.row, Call.col, Call.size, p)
                            \o <<StampCall(Call.row, Call.col, Call.size, p)>> \o Tail(todo)
               /\ UNCHANGED corrupt
  /\ UNCHANGED <<frame, pc, tile, sbRow, sbCol, saved, contextVars, blockVars,
                 cancelled, fired>>

(* update_ext_partition_context, when the calls of the node have returned.  *)
StampContext ==
  /\ At("stamp")
  /\ LET stamps == IF Call.size > 1
                   THEN Stamps(Call.row, Call.col, Call.size, Call.part) ELSE <<>>
     IN above' = StampedAbove(stamps) /\ left' = StampedLeft(stamps)
  /\ todo' = Tail(todo)
  /\ UNCHANGED <<frame, pc, tileVars, blockVars, endVars, fired, parts>>

SkipBlock ==
  /\ At("block") /\ corrupt
  /\ todo' = Tail(todo)
  /\ UNCHANGED <<frame, pc, tileVars, contextVars, blockVars, endVars, fired, parts>>

(* A block's syntax out of range marks the frame corrupt. *)
CorruptBlock ==
  /\ At("block") /\ ~corrupt /\ frame.bad
  /\ corrupt' = TRUE
  /\ todo' = Tail(todo)
  /\ UNCHANGED <<frame, pc, tileVars, contextVars, blockVars, cancelled, fired, parts>>

(* decode_block: the first block of a unit that does not skip reads the    *)
(* unit's strength.  Once it is read, whether a block skips matters no     *)
(* more: only the blocks before it are tried both ways.                    *)
DecodeBlock ==
  /\ At("block") /\ ~corrupt
  /\ \E skip \in {FALSE, frame.skips} :
       LET before == TransmittedBefore(Call.row, Call.col)
           index == UnitIndex(Call.row, Call.col)
           reads == ~before[index] /\ ~skip
       IN /\ before[index] => ~skip
          /\ transmitted' = IF reads THEN [before EXCEPT ![index] = TRUE] ELSE before
          /\ blocks' = Append(blocks,
               [row |-> Call.row, col |-> Call.col, w |-> Call.w, h |-> Call.h,
                tile |-> tile, skip |-> skip, strength |-> reads])
  /\ late' = IF fired THEN late \union {<<tile, sbRow>>} ELSE late
  /\ adapted' = adapted \union {tile}
  /\ todo' = Tail(todo)
  /\ UNCHANGED <<frame, pc, tile, sbRow, sbCol, saved, contextVars, endVars, fired, parts>>

Returned == pc = "done" /\ UNCHANGED vars

Next ==
  \/ FireStop
  \/ StartTile \/ CancelAtTile \/ TilesDone
  \/ StartRow \/ CancelAtRow \/ RowsDone \/ NextSuperblock \/ GiveUp
  \/ SkipNode \/ ReadPartition \/ StampContext
  \/ SkipBlock \/ CorruptBlock \/ DecodeBlock
  \/ Returned

Spec == Init /\ [][Next]_vars

-----------------------------------------------------------------------------
Decoded == pc = "done" /\ ~corrupt /\ ~cancelled
Covers(b, row, col) == row \in b.row .. b.row + b.h - 1 /\ col \in b.col .. b.col + b.w - 1
CoversChroma(b, row, col) ==
  LET top == PlaneStart(b.row, b.h, frame.ssy)
      start == PlaneStart(b.col, b.w, frame.ssx)
  IN /\ ChromaReference(b)
     /\ row \in top .. top + PlaneLength(b.h, frame.ssy) - 1
     /\ col \in start .. start + PlaneLength(b.w, frame.ssx) - 1
Once(P(_)) == Cardinality({i \in DOMAIN blocks : P(blocks[i])}) = 1

(* No block starts outside the frame.                                      *)
BlocksStartInFrame ==
  \A i \in DOMAIN blocks : blocks[i].row < frame.rows /\ blocks[i].col < frame.cols

(* A frame whose tiles are all decoded has every cell of the mode-info     *)
(* grid in exactly one block, whatever the partitions and however the      *)
(* frame's edge clips them, and every chroma sample group in exactly one   *)
(* block that is a chroma reference, for each subsampling.  No block       *)
(* starts outside the frame.                                               *)
EveryCellOnce ==
  Decoded =>
    /\ BlocksStartInFrame
    /\ \A r \in 0 .. frame.rows - 1, c \in 0 .. frame.cols - 1 :
         LET Over(b) == Covers(b, r, c) IN Once(Over)
    /\ \A r \in 0 .. frame.rows \div (1 + frame.ssy) - 1,
          c \in 0 .. frame.cols \div (1 + frame.ssx) - 1 :
         LET Over(b) == CoversChroma(b, r, c) IN Once(Over)

(* The symbol contexts have been adapted by the tile at hand alone, those  *)
(* saved for later frames by the tile that the header names.               *)
SymbolContextsOfTile ==
  /\ pc = "walk" => adapted \subseteq {tile}
  /\ saved \subseteq {frame.saveTile}

(* When a partition is read, each bit of its context says whether the      *)
(* block over the cell above (to the left), if that cell is in the tile,   *)
(* is narrower (lower) than the square; and the symbol contexts have been  *)
(* adapted by this tile alone, as are those saved for later frames.        *)
BlockOver(row, col) == CHOOSE i \in DOMAIN blocks : Covers(blocks[i], row, col)
ContextsOfTile ==
  /\ At("node") /\ ~corrupt /\ ~OutOfFrame /\ Call.size > 1 =>
       /\ (ContextBit(above[Call.col], Call.size) = 1) <=>
            /\ Call.row > Tile.top
            /\ blocks[BlockOver(Call.row - 1, Call.col)].w < Call.size
       /\ (ContextBit(left[LeftSlot(Call.row)], Call.size) = 1) <=>
            /\ Call.col > Tile.left
            /\ blocks[BlockOver(Call.row, Call.col - 1)].h < Call.size
  /\ SymbolContextsOfTile

(* Every cell a block's contexts and motion-vector predictors read, in the *)
(* rows above, the columns to the left and at the two corners, is of a     *)
(* block already decoded in its tile.                                      *)
ReadsDecoded ==
  At("block") /\ ~corrupt =>
    \A cell \in CellsRead(Call) :
      \E i \in DOMAIN blocks : blocks[i].tile = tile /\ Covers(blocks[i], cell[1], cell[2])

(* Every unit with a block that does not skip is filtered with a strength  *)
(* read inside it or by the one block that covers it, the only one read    *)
(* there; a unit whose blocks all skip has none.                           *)
Units == (0 .. (frame.rows - 1) \div UnitMi) \X (0 .. (frame.cols - 1) \div UnitMi)
StrengthsRead ==
  Decoded =>
    \A u \in Units :
      LET here == {i \in DOMAIN blocks : u \in UnitsOf(blocks[i])}
          read == {i \in here : blocks[i].strength}
      IN IF \A i \in here : blocks[i].skip
         THEN UnitStrength(u) = 0
         ELSE read = {UnitStrength(u)}

(* A fired stop token is answered within one row of superblocks, and a     *)
(* frame that is decoded in full was not decoded past it by more.          *)
StopWithinRow == Cardinality(late) <= 1
=============================================================================
