--------------------------- MODULE TileWalk_proofs ---------------------------
(***************************************************************************)
(* Theorems about TileWalk for frames of any size, any tiles and any       *)
(* number of partitions: how soon the stop token is answered, whose        *)
(* symbols have adapted the contexts a later frame inherits, that the      *)
(* blocks cover every cell of the frame once, that what a block reads of   *)
(* its surroundings has been decoded, which strength a CDEF unit is        *)
(* filtered with, and what the contexts a partition is read with tell.     *)
(***************************************************************************)
EXTENDS TileWalk, FiniteSetTheorems, SequenceTheorems, TLAPS

(* No row is entered once the token has fired, so the only row with a      *)
(* block decoded since is the one the walk was in.                         *)
LateInv ==
  /\ ~fired => late = {}
  /\ pc = "walk" => late \subseteq {<<tile, sbRow>>}
  /\ \E row : late \subseteq {row}

(* The stop token ends a decode within the row of superblocks it fires in: *)
(* decode_one_tile polls it before each row and the tile loop before each  *)
(* tile.                                                                   *)
THEOREM StopAnswered == Spec => []StopWithinRow
<1>1. Init => LateInv
  BY DEF Init, LateInv
<1>2. LateInv /\ [Next]_vars => LateInv'
  <2> SUFFICES ASSUME LateInv, [Next]_vars PROVE LateInv'
    OBVIOUS
  <2>1. CASE FireStop
    BY <2>1 DEF FireStop, LateInv, tileVars, blockVars
  <2>2. CASE StartTile \/ CancelAtTile \/ TilesDone
    BY <2>2 DEF StartTile, CancelAtTile, TilesDone, LateInv, tileVars, blockVars
  <2>3. CASE StartRow
    <3>1. late' = {}
      BY <2>3 DEF StartRow, StopPolled, blockVars, LateInv
    <3> QED  BY <3>1 DEF LateInv
  <2>4. CASE CancelAtRow \/ RowsDone \/ GiveUp
    BY <2>4 DEF CancelAtRow, RowsDone, GiveUp, EndTile, LateInv, blockVars
  <2>5. CASE NextSuperblock
    <3>1. late' = late /\ fired' = fired
          /\ (pc' = "walk" => pc = "walk" /\ tile' = tile /\ sbRow' = sbRow)
      BY <2>5 DEF NextSuperblock, blockVars
    <3> QED  BY <3>1 DEF LateInv
  <2>6. CASE SkipNode \/ StampContext \/ SkipBlock \/ CorruptBlock
    BY <2>6 DEF SkipNode, StampContext, SkipBlock, CorruptBlock, LateInv, tileVars, blockVars
  <2>7. CASE ReadPartition
    BY <2>7 DEF ReadPartition, LateInv, blockVars
  <2>8. CASE DecodeBlock
    <3>1. /\ pc = "walk"
          /\ late' = IF fired THEN late \union {<<tile, sbRow>>} ELSE late
          /\ UNCHANGED <<pc, tile, sbRow, fired>>
      BY <2>8 DEF DecodeBlock, At
    <3>2. late' \subseteq {<<tile, sbRow>>} /\ (~fired => late' = {})
      BY <3>1 DEF LateInv
    <3> QED  BY <3>1, <3>2 DEF LateInv
  <2>9. CASE Returned \/ UNCHANGED vars
    BY <2>9 DEF Returned, vars, tileVars, blockVars, LateInv
  <2> QED
    BY <2>1, <2>2, <2>3, <2>4, <2>5, <2>6, <2>7, <2>8, <2>9 DEF Next
<1>3. LateInv => StopWithinRow
  <2> SUFFICES ASSUME NEW row, late \subseteq {row} PROVE Cardinality(late) <= 1
    BY DEF LateInv, StopWithinRow
  <2>1. IsFiniteSet({row}) /\ Cardinality({row}) = 1
    BY FS_Singleton
  <2>2. IsFiniteSet(late) /\ Cardinality(late) <= Cardinality({row})
    BY <2>1, FS_Subset
  <2> QED  BY <2>1, <2>2
<1> QED
  BY <1>1, <1>2, <1>3, PTL DEF Spec

-----------------------------------------------------------------------------
(* start_tile loads the frame's own contexts, and a tile's end alone may   *)
(* save what the tile has adapted.                                         *)
SymbolInv ==
  /\ pc \in {"row", "walk"} => adapted \subseteq {tile}
  /\ saved \subseteq {frame.saveTile}

LEMMA SymbolStep == SymbolInv /\ [Next]_vars => SymbolInv'
<1> SUFFICES ASSUME SymbolInv, [Next]_vars PROVE SymbolInv'
  OBVIOUS
<1>1. CASE FireStop \/ CancelAtTile \/ TilesDone
  BY <1>1 DEF FireStop, CancelAtTile, TilesDone, SymbolInv, tileVars
<1>2. CASE StartTile
  BY <1>2 DEF StartTile, ContextsLoaded, SymbolInv
<1>3. CASE StartRow \/ NextSuperblock
  BY <1>3 DEF StartRow, NextSuperblock, SymbolInv
<1>4. CASE CancelAtRow \/ RowsDone \/ GiveUp
  <2>1. /\ pc \in {"row", "walk"} /\ pc' = "tiles" /\ frame' = frame
        /\ saved' = IF tile = frame.saveTile THEN adapted ELSE saved
    BY <1>4 DEF CancelAtRow, RowsDone, GiveUp, EndTile
  <2> QED  BY <2>1 DEF SymbolInv
<1>5. CASE SkipNode \/ StampContext \/ SkipBlock \/ CorruptBlock
  BY <1>5 DEF SkipNode, StampContext, SkipBlock, CorruptBlock, SymbolInv, tileVars
<1>6. CASE ReadPartition \/ DecodeBlock
  <2>1. /\ pc = "walk" /\ UNCHANGED <<frame, pc, tile, saved>>
        /\ adapted' \subseteq adapted \union {tile}
    BY <1>6 DEF ReadPartition, DecodeBlock, At
  <2> QED  BY <2>1 DEF SymbolInv
<1>7. CASE Returned \/ UNCHANGED vars
  BY <1>7 DEF Returned, vars, tileVars, SymbolInv
<1> QED
  BY <1>1, <1>2, <1>3, <1>4, <1>5, <1>6, <1>7 DEF Next

(* For any tiles, the contexts a later frame inherits have been adapted by *)
(* the tile that context_update_tile_id names and by no other.             *)
THEOREM ContextsOfNamedTile == Spec => []SymbolContextsOfTile
<1>1. Init => SymbolInv
  BY DEF Init, SymbolInv
<1>2. SymbolInv /\ [Next]_vars => SymbolInv'
  BY SymbolStep
<1>3. SymbolInv => SymbolContextsOfTile
  BY DEF SymbolInv, SymbolContextsOfTile
<1> QED
  BY <1>1, <1>2, <1>3, PTL DEF Spec

-----------------------------------------------------------------------------
(* The squares the recursion visits.  A length is one cell or even, from   *)
(* an even position: what chroma needs of a block.                         *)
Squares == {1, 2, 4, 8, 16, 32}
EvenLength(x, length) == length = 1 \/ (length % 2 = 0 /\ x % 2 = 0)

(* The calls of the recursion, a block's in the frame.                     *)
PartitionTypes ==
  {"NONE", "HORZ", "VERT", "SPLIT", "HORZ_A", "HORZ_B", "VERT_A", "VERT_B", "HORZ_4", "VERT_4"}
NodeCalls ==
  {n \in [do : {"node"}, row : Nat, col : Nat, size : Squares] :
     EvenLength(n.row, n.size) /\ EvenLength(n.col, n.size)}
StampCalls == [do : {"stamp"}, row : Nat, col : Nat, size : Nat, part : PartitionTypes]
BlockCalls ==
  {b \in [do : {"block"}, row : Nat, col : Nat, w : Nat, h : Nat, part : PartitionTypes] :
     /\ b.row < frame.rows /\ b.col < frame.cols
     /\ EvenLength(b.row, b.h) /\ EvenLength(b.col, b.w)}
AnyCall == NodeCalls \union StampCalls \union BlockCalls
Decodeds ==
  {b \in [row : Nat, col : Nat, w : Nat, h : Nat, tile : Nat, skip : BOOLEAN, strength : BOOLEAN] :
     /\ b.row < frame.rows /\ b.col < frame.cols
     /\ EvenLength(b.row, b.h) /\ EvenLength(b.col, b.w)}

LEMMA SubsizeValues ==
  ASSUME NEW size
  PROVE  /\ Subsize(size, "NONE") = [w |-> size, h |-> size]
         /\ Subsize(size, "SPLIT") = [w |-> size \div 2, h |-> size \div 2]
         /\ \A p \in Halved : Subsize(size, p) = [w |-> size, h |-> size \div 2]
         /\ \A p \in Sided : Subsize(size, p) = [w |-> size \div 2, h |-> size]
         /\ Subsize(size, "HORZ_4") = [w |-> size, h |-> size \div 4]
         /\ Subsize(size, "VERT_4") = [w |-> size \div 4, h |-> size]
<1>1. Subsize(size, "NONE") = [w |-> size, h |-> size]
  BY DEF Subsize, Halved, Sided
<1>2. Subsize(size, "SPLIT") = [w |-> size \div 2, h |-> size \div 2]
  BY DEF Subsize, Halved, Sided
<1>3. \A p \in Halved : Subsize(size, p) = [w |-> size, h |-> size \div 2]
  BY DEF Subsize, Halved, Sided
<1>4. \A p \in Sided : Subsize(size, p) = [w |-> size \div 2, h |-> size]
  BY DEF Subsize, Halved, Sided
<1>5. Subsize(size, "HORZ_4") = [w |-> size, h |-> size \div 4]
  BY DEF Subsize, Halved, Sided
<1>6. Subsize(size, "VERT_4") = [w |-> size \div 4, h |-> size]
  BY DEF Subsize, Halved, Sided
<1> QED  BY <1>1, <1>2, <1>3, <1>4, <1>5, <1>6

LEMMA SubsizeType ==
  ASSUME NEW size \in Nat, NEW row, NEW col, NEW p \in Partitions(row, col, size)
  PROVE  p \in PartitionTypes /\ Subsize(size, p) \in [w : Nat, h : Nat]
<1>1. p \in PartitionTypes
  BY DEF Partitions, Symbols, PartitionTypes
<1>3. p \in Halved \/ p \in Sided \/ p \in {"NONE", "SPLIT", "HORZ_4", "VERT_4"}
  BY <1>1 DEF Halved, Sided, PartitionTypes
<1>2. PICK half \in Nat, quarter \in Nat : half = size \div 2 /\ quarter = size \div 4
  OBVIOUS
<1>4. Subsize(size, p) \in {[w |-> size, h |-> size], [w |-> half, h |-> half],
                            [w |-> size, h |-> half], [w |-> half, h |-> size],
                            [w |-> size, h |-> quarter], [w |-> quarter, h |-> size]}
  BY <1>2, <1>3, SubsizeValues
<1> QED
  BY <1>1, <1>4

LEMMA FourParts ==
  ASSUME NEW S, NEW a \in Seq(S), NEW b \in Seq(S), NEW c \in Seq(S), NEW d \in Seq(S)
  PROVE  a \o b \o c \o d \in Seq(S)
<1>1. a \o b \in Seq(S)
  OBVIOUS
<1>2. (a \o b) \o c \in Seq(S)
  BY <1>1
<1> QED  BY <1>2

(* The halves and quarters of a square, and where they start. *)
LEMMA PartsEven ==
  ASSUME NEW size \in Squares, NEW x \in Nat, EvenLength(x, size), size # 1,
         NEW hbs, hbs = size \div 2, NEW quarter, quarter = size \div 4
  PROVE  /\ hbs \in Squares
         /\ EvenLength(x, hbs) /\ EvenLength(x + hbs, hbs)
         /\ size # 2 => /\ EvenLength(x, quarter) /\ EvenLength(x + quarter, quarter)
                        /\ EvenLength(x + 2 * quarter, quarter)
                        /\ EvenLength(x + 3 * quarter, quarter)
<1>1. /\ size \in {2, 4, 8, 16, 32} /\ x % 2 = 0
      /\ size % 2 = 0
  BY DEF Squares, EvenLength
<1>2. \A n \in Nat : (x + 2 * n) % 2 = 0
  BY <1>1
<1>3. CASE size = 2
  BY <1>3 DEF EvenLength, Squares
<1>4. CASE size # 2
  <2>1. PICK n \in Nat : hbs = 2 * n /\ hbs \in Squares /\ hbs % 2 = 0
    <3>1. \/ hbs = 2 * 1 \/ hbs = 2 * 2 \/ hbs = 2 * 4 \/ hbs = 2 * 8
      BY <1>1, <1>4
    <3> QED BY <3>1 DEF Squares
  <2>2. EvenLength(x, hbs) /\ EvenLength(x + hbs, hbs)
    BY <1>1, <1>2, <2>1 DEF EvenLength
  <2>3. quarter = 1 \/ \E m \in Nat : quarter = 2 * m /\ quarter % 2 = 0
    <3>1. \/ quarter = 1 \/ quarter = 2 * 1 \/ quarter = 2 * 2 \/ quarter = 2 * 4
      BY <1>1, <1>4
    <3> QED BY <3>1
  <2>4. ASSUME NEW m \in Nat, quarter = 2 * m, quarter % 2 = 0
        PROVE  /\ EvenLength(x, quarter) /\ EvenLength(x + quarter, quarter)
               /\ EvenLength(x + 2 * quarter, quarter)
               /\ EvenLength(x + 3 * quarter, quarter)
    <3>1. quarter = 2 * m /\ 2 * quarter = 2 * (2 * m) /\ 3 * quarter = 2 * (3 * m)
      BY <2>4
    <3>2. /\ (x + quarter) % 2 = 0 /\ (x + 2 * quarter) % 2 = 0
          /\ (x + 3 * quarter) % 2 = 0
      BY <1>2, <3>1
    <3> QED BY <1>1, <2>4, <3>2 DEF EvenLength
  <2> QED BY <1>4, <2>1, <2>2, <2>3, <2>4 DEF EvenLength
<1> QED BY <1>3, <1>4

(* decode_partition's calls for the parts of a square that starts in the   *)
(* frame: the second half is called only where the frame goes on, or where *)
(* the syntax allows no partition that has none there.                     *)
LEMMA CallsStartInFrame ==
  ASSUME frame.rows \in Nat, frame.cols \in Nat, NEW size \in Squares,
         NEW row \in Nat, row < frame.rows, EvenLength(row, size),
         NEW col \in Nat, col < frame.cols, EvenLength(col, size),
         NEW p \in Partitions(row, col, size)
  PROVE  Calls(row, col, size, p) \in Seq(AnyCall)
<1> DEFINE hbs == size \div 2
           quarter == size \div 4
           sub == Subsize(size, p)
           half == Subsize(size, "SPLIT")
           InFrame(r, c) == IF r < frame.rows /\ c < frame.cols
                            THEN <<BlockCall(r, c, sub, p)>> ELSE <<>>
<1>1. /\ hbs \in Nat /\ quarter \in Nat /\ p \in PartitionTypes
      /\ sub \in [w : Nat, h : Nat] /\ half \in [w : Nat, h : Nat]
      /\ half.w = hbs /\ half.h = hbs
  <2>1. hbs \in Nat /\ quarter \in Nat /\ size \in Nat
    BY DEF Squares
  <2>2. half = [w |-> hbs, h |-> hbs]
    BY SubsizeValues
  <2> QED  BY <2>1, <2>2, SubsizeType
<1>13. /\ p # "NONE" => size # 1
       /\ p \in {"HORZ_4", "VERT_4"} => size # 1 /\ size # 2
  BY DEF Partitions, Symbols, Squares
<1>14. /\ size # 1 => /\ hbs \in Squares
                      /\ EvenLength(row, hbs) /\ EvenLength(row + hbs, hbs)
                      /\ EvenLength(col, hbs) /\ EvenLength(col + hbs, hbs)
       /\ size # 1 /\ size # 2 =>
            /\ EvenLength(row, quarter) /\ EvenLength(row + quarter, quarter)
            /\ EvenLength(row + 2 * quarter, quarter)
            /\ EvenLength(row + 3 * quarter, quarter)
            /\ EvenLength(col, quarter) /\ EvenLength(col + quarter, quarter)
            /\ EvenLength(col + 2 * quarter, quarter)
            /\ EvenLength(col + 3 * quarter, quarter)
  BY PartsEven
<1>2. ASSUME NEW r \in Nat, NEW c \in Nat, NEW s \in [w : Nat, h : Nat],
             r < frame.rows, c < frame.cols, EvenLength(r, s.h), EvenLength(c, s.w)
      PROVE  BlockCall(r, c, s, p) \in AnyCall
  <2> DEFINE b == BlockCall(r, c, s, p)
  <2>1. /\ b \in [do : {"block"}, row : Nat, col : Nat, w : Nat, h : Nat, part : PartitionTypes]
        /\ b.row = r /\ b.col = c /\ b.w = s.w /\ b.h = s.h
    BY <1>1 DEF BlockCall
  <2> HIDE DEF b
  <2>2. b \in BlockCalls
    BY <1>2, <2>1 DEF BlockCalls
  <2> QED BY <2>2 DEF AnyCall, b
<1>3. ASSUME NEW r \in Nat, NEW c \in Nat, hbs \in Squares,
             EvenLength(r, hbs), EvenLength(c, hbs)
      PROVE  NodeCall(r, c, hbs) \in AnyCall
  BY <1>3 DEF NodeCall, AnyCall, NodeCalls
<1>4. ASSUME NEW r \in Nat, NEW c \in Nat, EvenLength(r, sub.h), EvenLength(c, sub.w)
      PROVE  InFrame(r, c) \in Seq(AnyCall)
  BY <1>1, <1>2, <1>4
<1>5. p = "NONE" \/ p = "SPLIT" \/ p = "HORZ" \/ p = "VERT"
      \/ p \in {"HORZ_A", "HORZ_B", "VERT_A", "VERT_B"} \/ p = "HORZ_4" \/ p = "VERT_4"
  BY DEF Partitions, Symbols
<1> HIDE DEF hbs, quarter, sub, half, InFrame
<1>6. CASE p = "NONE"
  <2>1. /\ Calls(row, col, size, p) = <<BlockCall(row, col, sub, p)>>
        /\ sub.w = size /\ sub.h = size
    BY <1>6, SubsizeValues DEF Calls, sub
  <2> QED  BY <2>1, <1>1, <1>2
<1>7. CASE p = "SPLIT"
  <2>1. Calls(row, col, size, p)
          = <<NodeCall(row, col, hbs), NodeCall(row, col + hbs, hbs),
              NodeCall(row + hbs, col, hbs), NodeCall(row + hbs, col + hbs, hbs)>>
    BY <1>7 DEF Calls, hbs
  <2>2. row + hbs \in Nat /\ col + hbs \in Nat /\ size # 1
    BY <1>1, <1>13, <1>7
  <2> QED  BY <2>1, <2>2, <1>14, <1>3
<1>8. CASE p = "HORZ"
  <2>1. /\ Calls(row, col, size, p)
             = <<BlockCall(row, col, sub, p)>>
                 \o IF HasRows(row, size) THEN <<BlockCall(row + hbs, col, sub, p)>> ELSE <<>>
        /\ sub.w = size /\ sub.h = hbs
    BY <1>8, SubsizeValues DEF Calls, hbs, sub, Halved
  <2>2. HasRows(row, size) => row + hbs \in Nat /\ row + hbs < frame.rows
    BY <1>1 DEF HasRows, hbs
  <2>3. /\ BlockCall(row, col, sub, p) \in AnyCall
        /\ HasRows(row, size) => BlockCall(row + hbs, col, sub, p) \in AnyCall
    BY <2>1, <2>2, <1>13, <1>1, <1>2, <1>8, <1>14
  <2> QED  BY <2>1, <2>3
<1>9. CASE p = "VERT"
  <2>1. /\ Calls(row, col, size, p)
             = <<BlockCall(row, col, sub, p)>>
                 \o IF HasCols(col, size) THEN <<BlockCall(row, col + hbs, sub, p)>> ELSE <<>>
        /\ sub.w = hbs /\ sub.h = size
    BY <1>9, SubsizeValues DEF Calls, hbs, sub, Sided
  <2>2. HasCols(col, size) => col + hbs \in Nat /\ col + hbs < frame.cols
    BY <1>1 DEF HasCols, hbs
  <2>3. /\ BlockCall(row, col, sub, p) \in AnyCall
        /\ HasCols(col, size) => BlockCall(row, col + hbs, sub, p) \in AnyCall
    BY <2>1, <2>2, <1>13, <1>1, <1>2, <1>9, <1>14
  <2> QED  BY <2>1, <2>3
<1>10. CASE p \in {"HORZ_A", "HORZ_B", "VERT_A", "VERT_B"}
  <2>1. /\ row + hbs \in Nat /\ col + hbs \in Nat
        /\ row + hbs < frame.rows /\ col + hbs < frame.cols
        /\ size # 1
    BY <1>10, <1>13, <1>1 DEF Partitions, HasRows, HasCols, hbs
  <2>2. /\ BlockCall(row, col, half, p) \in AnyCall
        /\ BlockCall(row, col + hbs, half, p) \in AnyCall
        /\ BlockCall(row + hbs, col, half, p) \in AnyCall
        /\ BlockCall(row + hbs, col + hbs, half, p) \in AnyCall
    BY <2>1, <1>1, <1>2, <1>14
  <2>3. CASE p \in {"HORZ_A", "HORZ_B"}
    <3>1. sub.w = size /\ sub.h = hbs
      BY <2>3, SubsizeValues DEF sub, hbs, Halved
    <3>2. /\ BlockCall(row, col, sub, p) \in AnyCall
          /\ BlockCall(row + hbs, col, sub, p) \in AnyCall
      BY <2>1, <3>1, <1>1, <1>2, <1>14
    <3>3. \E a, b, c \in AnyCall : Calls(row, col, size, p) = <<a, b, c>>
      BY <2>2, <2>3, <3>2 DEF Calls, hbs, sub, half
    <3> QED BY <3>3
  <2>4. CASE p \in {"VERT_A", "VERT_B"}
    <3>1. sub.w = hbs /\ sub.h = size
      BY <2>4, SubsizeValues DEF sub, hbs, Sided
    <3>2. /\ BlockCall(row, col, sub, p) \in AnyCall
          /\ BlockCall(row, col + hbs, sub, p) \in AnyCall
      BY <2>1, <3>1, <1>1, <1>2, <1>14
    <3>3. \E a, b, c \in AnyCall : Calls(row, col, size, p) = <<a, b, c>>
      BY <2>2, <2>4, <3>2 DEF Calls, hbs, sub, half
    <3> QED BY <3>3
  <2> QED  BY <1>10, <2>3, <2>4
<1>11. CASE p = "HORZ_4"
  <2>1. /\ Calls(row, col, size, p)
             = InFrame(row, col) \o InFrame(row + quarter, col)
                 \o InFrame(row + 2 * quarter, col) \o InFrame(row + 3 * quarter, col)
        /\ sub.w = size /\ sub.h = quarter
    BY <1>11, SubsizeValues DEF Calls, quarter, sub, InFrame
  <2>2. /\ row + quarter \in Nat /\ row + 2 * quarter \in Nat /\ row + 3 * quarter \in Nat
        /\ size # 1 /\ size # 2
    BY <1>13, <1>1, <1>11
  <2>3. /\ InFrame(row, col) \in Seq(AnyCall)
        /\ InFrame(row + quarter, col) \in Seq(AnyCall)
        /\ InFrame(row + 2 * quarter, col) \in Seq(AnyCall)
        /\ InFrame(row + 3 * quarter, col) \in Seq(AnyCall)
    BY <2>1, <2>2, <1>4, <1>14
  <2> QED  BY <2>1, <2>3, FourParts
<1>12. CASE p = "VERT_4"
  <2>1. /\ Calls(row, col, size, p)
             = InFrame(row, col) \o InFrame(row, col + quarter)
                 \o InFrame(row, col + 2 * quarter) \o InFrame(row, col + 3 * quarter)
        /\ sub.w = quarter /\ sub.h = size
    BY <1>12, SubsizeValues DEF Calls, quarter, sub, InFrame
  <2>2. /\ col + quarter \in Nat /\ col + 2 * quarter \in Nat /\ col + 3 * quarter \in Nat
        /\ size # 1 /\ size # 2
    BY <1>13, <1>1, <1>12
  <2>3. /\ InFrame(row, col) \in Seq(AnyCall)
        /\ InFrame(row, col + quarter) \in Seq(AnyCall)
        /\ InFrame(row, col + 2 * quarter) \in Seq(AnyCall)
        /\ InFrame(row, col + 3 * quarter) \in Seq(AnyCall)
    BY <2>1, <2>2, <1>4, <1>14
  <2> QED  BY <2>1, <2>3, FourParts
<1> QED
  BY <1>5, <1>6, <1>7, <1>8, <1>9, <1>10, <1>11, <1>12

-----------------------------------------------------------------------------
(* Where the walk is: at a superblock of its tile, on the superblock grid. *)
WalkPlace ==
  /\ pc \in {"row", "walk"} =>
       tile \in DOMAIN frame.tiles /\ sbRow % frame.mib = 0 /\ sbRow >= Tile.top
  /\ pc = "walk" =>
       /\ sbRow < Tile.bottom /\ sbCol % frame.mib = 0
       /\ sbCol >= Tile.left /\ sbCol < Tile.right
  /\ pc # "walk" => todo = <<>>
  /\ pc = "done" /\ ~cancelled => tile > Len(frame.tiles)

(* The walk's calls and blocks, all of them in the frame.                  *)
WalkInv ==
  /\ frame \in Frames
  /\ tile \in Nat \ {0} /\ sbRow \in Nat /\ sbCol \in Nat
  /\ WalkPlace
  /\ todo \in Seq(AnyCall)
  /\ blocks \in Seq(Decodeds)

LEMMA FrameTypes ==
  ASSUME WalkInv
  PROVE  /\ frame.rows \in Nat /\ frame.cols \in Nat /\ frame.mib \in Nat
         /\ frame.skips \in BOOLEAN
         /\ frame.tiles \in Seq([top : Nat, bottom : Nat, left : Nat, right : Nat])
<1>1. FrameOK(frame) /\ UnitMi \in {4, 8, 16}
  BY WalkAssumption DEF WalkInv
<1>2. frame.mib \in Nat
  BY <1>1 DEF FrameOK
<1> QED  BY <1>1, <1>2 DEF FrameOK

LEMMA WalkInit == Init => WalkInv
  BY DEF Init, WalkInv, WalkPlace

(* The tile at hand: in the frame, not empty, on the superblock grid. *)
LEMMA TileTypes ==
  ASSUME WalkInv, tile \in DOMAIN frame.tiles
  PROVE  /\ Tile.top \in Nat /\ Tile.bottom \in Nat /\ Tile.left \in Nat /\ Tile.right \in Nat
         /\ Tile.top < Tile.bottom /\ Tile.left < Tile.right
         /\ Tile.bottom <= frame.rows /\ Tile.right <= frame.cols
         /\ Tile.top % frame.mib = 0 /\ Tile.left % frame.mib = 0
         /\ Tile.bottom % frame.mib = 0 \/ Tile.bottom = frame.rows
         /\ Tile.right % frame.mib = 0 \/ Tile.right = frame.cols
<1>1. FrameOK(frame)
  BY WalkAssumption DEF WalkInv
<1>2. frame.tiles[tile] \in [top : Nat, bottom : Nat, left : Nat, right : Nat]
  <2>1. frame.tiles \in Seq([top : Nat, bottom : Nat, left : Nat, right : Nat])
    BY <1>1 DEF FrameOK
  <2>2. tile \in 1 .. Len(frame.tiles)
    BY <2>1, LenProperties
  <2> QED BY <2>1, <2>2, ElementOfSeq
<1> QED BY <1>1, <1>2 DEF FrameOK, TilesShareOut, Tile

LEMMA MibValues ==
  ASSUME WalkInv
  PROVE  frame.mib \in {4, 8, 16, 32} /\ frame.mib \in Squares
<1>1. FrameOK(frame) /\ UnitMi \in {4, 8, 16}
  BY WalkAssumption DEF WalkInv
<1> QED BY <1>1 DEF FrameOK, Squares

(* Steps of one superblock stay on the superblock grid. *)
LEMMA GridStep ==
  ASSUME NEW mib \in {4, 8, 16, 32}, NEW a \in Nat, a % mib = 0
  PROVE  /\ (a + mib) % mib = 0 /\ a % 2 = 0 /\ mib % 2 = 0
         /\ \A b \in Nat : b % mib = 0 /\ a < b => a + mib <= b
<1>1. CASE mib = 4
  BY <1>1
<1>2. CASE mib = 8
  BY <1>2
<1>3. CASE mib = 16
  BY <1>3
<1>4. CASE mib = 32
  BY <1>4
<1> QED BY <1>1, <1>2, <1>3, <1>4

LEMMA PlaceStep == WalkInv /\ [Next]_vars => WalkPlace'
<1> SUFFICES ASSUME WalkInv, [Next]_vars PROVE WalkPlace'
  OBVIOUS
<1>1. /\ WalkPlace /\ frame.mib \in Nat /\ sbRow \in Nat /\ sbCol \in Nat
      /\ frame.mib \in {4, 8, 16, 32}
      /\ frame.tiles \in Seq([top : Nat, bottom : Nat, left : Nat, right : Nat])
  BY FrameTypes, MibValues DEF WalkInv
<1>2. CASE FireStop \/ CancelAtTile \/ TilesDone \/ Returned \/ UNCHANGED vars
  BY <1>1, <1>2 DEF FireStop, CancelAtTile, TilesDone, Returned, vars, tileVars, blockVars,
     endVars, WalkPlace, Tile, WalkInv
<1>3. CASE StartTile
  <2>1. /\ pc' = "row" /\ sbRow' = Tile.top /\ UNCHANGED <<frame, tile, todo>>
        /\ pc = "tiles" /\ tile <= Len(frame.tiles) /\ tile \in Nat \ {0}
    BY <1>3 DEF StartTile, WalkInv
  <2>2. tile \in DOMAIN frame.tiles
    BY <1>1, <2>1
  <2>3. Tile.top \in Nat /\ Tile.top % frame.mib = 0
    BY <2>2, TileTypes
  <2> QED BY <1>1, <2>1, <2>2, <2>3 DEF WalkPlace, Tile
<1>4. CASE StartRow
  <2>1. /\ pc = "row" /\ pc' = "walk" /\ sbRow < Tile.bottom /\ sbCol' = Tile.left
        /\ UNCHANGED <<frame, tile, sbRow>>
    BY <1>4 DEF StartRow
  <2>2. Tile.left \in Nat /\ Tile.left % frame.mib = 0 /\ Tile.left < Tile.right
    BY <1>1, <2>1, TileTypes DEF WalkPlace
  <2> QED BY <1>1, <2>1, <2>2 DEF WalkPlace, Tile
<1>5. CASE CancelAtRow \/ RowsDone \/ GiveUp
  <2>1. pc' = "tiles" /\ todo' = todo /\ todo = <<>>
    BY <1>1, <1>5 DEF CancelAtRow, RowsDone, GiveUp, EndTile, WalkPlace
  <2> QED BY <2>1 DEF WalkPlace
<1>6. CASE NextSuperblock
  <2>1. /\ pc = "walk" /\ todo = <<>> /\ UNCHANGED <<frame, tile>>
        /\ \/ /\ pc' = "walk" /\ sbRow' = sbRow /\ sbCol' = sbCol + frame.mib
              /\ sbCol + frame.mib < Tile.right
           \/ pc' = "row" /\ sbRow' = sbRow + frame.mib /\ todo' = todo
    BY <1>6 DEF NextSuperblock
  <2>2. /\ sbRow % frame.mib = 0 /\ sbRow >= Tile.top /\ tile \in DOMAIN frame.tiles
        /\ sbRow < Tile.bottom /\ sbCol % frame.mib = 0 /\ sbCol >= Tile.left
    BY <1>1, <2>1 DEF WalkPlace
  <2>3. (sbRow + frame.mib) % frame.mib = 0 /\ (sbCol + frame.mib) % frame.mib = 0
    BY <1>1, <2>2, GridStep
  <2>4. Tile' = Tile /\ Tile.top \in Nat /\ Tile.left \in Nat
    BY <2>1, <2>2, TileTypes DEF Tile
  <2>5. CASE pc' = "walk" /\ sbRow' = sbRow /\ sbCol' = sbCol + frame.mib
             /\ sbCol + frame.mib < Tile.right
    BY <1>1, <2>1, <2>2, <2>3, <2>4, <2>5 DEF WalkPlace
  <2>6. CASE pc' = "row" /\ sbRow' = sbRow + frame.mib /\ todo' = todo
    BY <1>1, <2>1, <2>2, <2>3, <2>4, <2>6 DEF WalkPlace
  <2> QED BY <2>1, <2>5, <2>6
<1>7. CASE SkipNode \/ StampContext \/ SkipBlock \/ CorruptBlock
           \/ ReadPartition \/ DecodeBlock
  <2>1. pc = "walk" /\ UNCHANGED <<frame, pc, tile, sbRow, sbCol>>
    BY <1>7 DEF SkipNode, StampContext, SkipBlock, CorruptBlock, ReadPartition,
       DecodeBlock, At, tileVars
  <2> QED BY <1>1, <2>1 DEF WalkPlace, Tile
<1> QED
  BY <1>2, <1>3, <1>4, <1>5, <1>6, <1>7 DEF Next

(* A square on the superblock grid is even, wherever it starts.            *)
LEMMA RootCalls ==
  ASSUME WalkInv, NEW row \in Nat, NEW col \in Nat,
         row % frame.mib = 0, col % frame.mib = 0
  PROVE  NodeCall(row, col, frame.mib) \in NodeCalls
<1>1. frame.mib \in Squares /\ frame.mib % 2 = 0 /\ row % 2 = 0 /\ col % 2 = 0
  BY MibValues, GridStep
<1>2. EvenLength(row, frame.mib) /\ EvenLength(col, frame.mib)
  BY <1>1 DEF EvenLength
<1> QED BY <1>1, <1>2 DEF NodeCall, NodeCalls

(* The call at the head of the list, by its kind. *)
LEMMA CallTypes ==
  ASSUME WalkInv, todo # <<>>
  PROVE  /\ Tail(todo) \in Seq(AnyCall) /\ Call \in AnyCall
         /\ Call.do = "node" => Call \in NodeCalls
         /\ Call.do = "stamp" => Call \in StampCalls
         /\ Call.do = "block" => Call \in BlockCalls
         /\ Call.row \in Nat /\ Call.col \in Nat
<1>1. Call \in AnyCall /\ Tail(todo) \in Seq(AnyCall)
  BY DEF Call, WalkInv
<1>2. \/ Call \in NodeCalls /\ Call.do = "node"
      \/ Call \in StampCalls /\ Call.do = "stamp"
      \/ Call \in BlockCalls /\ Call.do = "block"
  BY <1>1 DEF AnyCall, NodeCalls, StampCalls, BlockCalls
<1>3. Call.row \in Nat /\ Call.col \in Nat
  BY <1>2 DEF NodeCalls, StampCalls, BlockCalls
<1> QED BY <1>1, <1>2, <1>3

LEMMA WalkStep == WalkInv /\ [Next]_vars => WalkInv'
<1> SUFFICES ASSUME WalkInv, [Next]_vars PROVE WalkInv'
  OBVIOUS
<1>1. /\ frame.rows \in Nat /\ frame.cols \in Nat /\ frame.mib \in Nat
      /\ frame.skips \in BOOLEAN
      /\ frame.tiles \in Seq([top : Nat, bottom : Nat, left : Nat, right : Nat])
      /\ frame \in Frames /\ tile \in Nat \ {0} /\ sbRow \in Nat /\ sbCol \in Nat
      /\ todo \in Seq(AnyCall) /\ blocks \in Seq(Decodeds)
      /\ WalkPlace
  BY FrameTypes DEF WalkInv
<1>10. WalkPlace'
  BY PlaceStep
<1>11. ASSUME frame' = frame, tile' \in Nat \ {0}, sbRow' \in Nat, sbCol' \in Nat,
              todo' \in Seq(AnyCall), blocks' \in Seq(Decodeds)
       PROVE  WalkInv'
  <2>1. AnyCall' = AnyCall /\ Decodeds' = Decodeds
    BY <1>11 DEF AnyCall, BlockCalls, Decodeds
  <2> QED BY <1>1, <1>10, <1>11, <2>1 DEF WalkInv
<1>2. CASE FireStop \/ CancelAtTile \/ TilesDone \/ Returned \/ UNCHANGED vars
  <2>1. UNCHANGED <<frame, tile, sbRow, sbCol, todo, blocks>>
    BY <1>2 DEF FireStop, CancelAtTile, TilesDone, Returned, vars, tileVars, blockVars
  <2> QED BY <1>1, <1>11, <2>1
<1>3. CASE StartTile
  <2>1. /\ tile \in DOMAIN frame.tiles /\ sbRow' = Tile.top
        /\ UNCHANGED <<frame, tile, sbCol, todo, blocks>>
    BY <1>3, <1>1 DEF StartTile, blockVars
  <2>2. Tile.top \in Nat
    BY <2>1, TileTypes
  <2> QED  BY <1>1, <1>11, <2>1, <2>2
<1>4. CASE StartRow
  <2>1. /\ tile \in DOMAIN frame.tiles /\ sbRow % frame.mib = 0
        /\ UNCHANGED <<frame, tile, sbRow, blocks>> /\ sbCol' = Tile.left
        /\ todo' = <<NodeCall(sbRow, Tile.left, frame.mib)>>
    BY <1>4, <1>1 DEF StartRow, WalkPlace, blockVars
  <2>2. Tile.left \in Nat /\ Tile.left % frame.mib = 0
    BY <2>1, TileTypes
  <2>3. NodeCall(sbRow, Tile.left, frame.mib) \in AnyCall
    BY <2>1, <2>2, <1>1, RootCalls DEF AnyCall
  <2> QED  BY <1>1, <1>11, <2>1, <2>2, <2>3
<1>5. CASE CancelAtRow \/ RowsDone \/ GiveUp
  <2>1. UNCHANGED <<frame, sbRow, sbCol, todo, blocks>> /\ tile' = tile + 1
    BY <1>5 DEF CancelAtRow, RowsDone, GiveUp, EndTile, blockVars
  <2> QED  BY <1>1, <1>11, <2>1
<1>6. CASE NextSuperblock
  <2>1. /\ UNCHANGED <<frame, tile, blocks>> /\ pc = "walk"
        /\ \/ /\ sbCol' = sbCol + frame.mib /\ sbRow' = sbRow
              /\ todo' = <<NodeCall(sbRow, sbCol + frame.mib, frame.mib)>>
           \/ sbRow' = sbRow + frame.mib /\ UNCHANGED <<sbCol, todo>>
    BY <1>6 DEF NextSuperblock, blockVars
  <2>2. /\ sbRow % frame.mib = 0 /\ (sbCol + frame.mib) % frame.mib = 0
        /\ sbRow + frame.mib \in Nat /\ sbCol + frame.mib \in Nat
    <3>1. sbRow % frame.mib = 0 /\ sbCol % frame.mib = 0
      BY <1>1, <2>1 DEF WalkPlace
    <3>2. (sbCol + frame.mib) % frame.mib = 0
      BY <1>1, <3>1, MibValues, GridStep
    <3> QED BY <1>1, <3>1, <3>2
  <2>3. NodeCall(sbRow, sbCol + frame.mib, frame.mib) \in AnyCall
    BY <1>1, <2>2, RootCalls DEF AnyCall
  <2>4. <<NodeCall(sbRow, sbCol + frame.mib, frame.mib)>> \in Seq(AnyCall)
    BY <2>3
  <2>5. todo' \in Seq(AnyCall) /\ sbRow' \in Nat /\ sbCol' \in Nat
    BY <1>1, <2>1, <2>2, <2>4, Zenon
  <2> QED  BY <1>1, <1>11, <2>1, <2>5
<1>7. CASE SkipNode \/ StampContext \/ SkipBlock \/ CorruptBlock
  <2>1. UNCHANGED <<frame, tile, sbRow, sbCol, blocks>>
        /\ todo # <<>> /\ todo' = Tail(todo)
    BY <1>7 DEF SkipNode, StampContext, SkipBlock, CorruptBlock, At, tileVars, blockVars
  <2> QED  BY <1>1, <1>11, <2>1, CallTypes
<1>8. CASE ReadPartition
  <2>1. PICK p \in Partitions(Call.row, Call.col, Call.size) :
          IF InvalidChroma(Subsize(Call.size, p)) THEN todo' = Tail(todo)
          ELSE todo' = Calls(Call.row, Call.col, Call.size, p)
                         \o <<StampCall(Call.row, Call.col, Call.size, p)>> \o Tail(todo)
    BY <1>8 DEF ReadPartition
  <2>2. /\ todo # <<>> /\ Call.do = "node" /\ ~OutOfFrame
        /\ UNCHANGED <<frame, tile, sbRow, sbCol, blocks>>
    BY <1>8 DEF ReadPartition, At, blockVars
  <2>3. Call \in NodeCalls /\ Tail(todo) \in Seq(AnyCall)
    BY <2>2, CallTypes
  <2>4. /\ Call.row \in Nat /\ Call.col \in Nat /\ Call.size \in Squares
        /\ EvenLength(Call.row, Call.size) /\ EvenLength(Call.col, Call.size)
        /\ Call.row < frame.rows /\ Call.col < frame.cols
    BY <1>1, <2>2, <2>3 DEF NodeCalls, OutOfFrame
  <2>5. Calls(Call.row, Call.col, Call.size, p) \in Seq(AnyCall)
    BY <2>4, <1>1, CallsStartInFrame
  <2>6. StampCall(Call.row, Call.col, Call.size, p) \in AnyCall
    <3>1. Call.size \in Nat
      BY <2>4 DEF Squares
    <3> QED BY <2>4, <3>1, SubsizeType DEF StampCall, StampCalls, AnyCall
  <2>7. todo' \in Seq(AnyCall)
    <3>1. <<StampCall(Call.row, Call.col, Call.size, p)>> \in Seq(AnyCall)
      BY <2>6
    <3>2. Calls(Call.row, Call.col, Call.size, p)
            \o <<StampCall(Call.row, Call.col, Call.size, p)>> \in Seq(AnyCall)
      BY <2>5, <3>1
    <3>3. Calls(Call.row, Call.col, Call.size, p)
            \o <<StampCall(Call.row, Call.col, Call.size, p)>> \o Tail(todo) \in Seq(AnyCall)
      BY <2>3, <3>2
    <3> QED  BY <2>1, <2>3, <3>3
  <2> QED  BY <1>1, <1>11, <2>2, <2>7
<1>9. CASE DecodeBlock
  <2>1. PICK skip \in {FALSE, frame.skips}, strength \in BOOLEAN :
          blocks' = Append(blocks,
            [row |-> Call.row, col |-> Call.col, w |-> Call.w, h |-> Call.h,
             tile |-> tile, skip |-> skip, strength |-> strength])
    BY <1>9 DEF DecodeBlock
  <2>2. /\ todo # <<>> /\ Call.do = "block" /\ todo' = Tail(todo)
        /\ UNCHANGED <<frame, tile, sbRow, sbCol>>
    BY <1>9 DEF DecodeBlock, At
  <2>3. Call \in BlockCalls /\ Tail(todo) \in Seq(AnyCall)
    BY <2>2, CallTypes
  <2>4. [row |-> Call.row, col |-> Call.col, w |-> Call.w, h |-> Call.h,
         tile |-> tile, skip |-> skip, strength |-> strength] \in Decodeds
    <3>1. /\ Call.row \in Nat /\ Call.col \in Nat /\ Call.w \in Nat /\ Call.h \in Nat
          /\ Call.row < frame.rows /\ Call.col < frame.cols
          /\ EvenLength(Call.row, Call.h) /\ EvenLength(Call.col, Call.w)
      BY <2>3 DEF BlockCalls
    <3>2. skip \in BOOLEAN /\ tile \in Nat
      BY <1>1
    <3> QED  BY <3>1, <3>2, <2>1 DEF Decodeds
  <2>5. blocks' \in Seq(Decodeds)
    BY <1>1, <2>1, <2>4
  <2> QED  BY <1>1, <1>11, <2>2, <2>3, <2>5
<1> QED
  BY <1>2, <1>3, <1>4, <1>5, <1>6, <1>7, <1>8, <1>9 DEF Next

(* Whatever the partitions, the tiles and the size of the frame, no block  *)
(* starts outside the frame: the recursion stops at its edge, and the      *)
(* partitions coded there leave no part beyond it.                         *)
THEOREM NoBlockOutside == Spec => []BlocksStartInFrame
<1>1. WalkInv => BlocksStartInFrame
  BY DEF WalkInv, BlocksStartInFrame, Decodeds
<1> QED
  BY <1>1, WalkInit, WalkStep, PTL DEF Spec

-----------------------------------------------------------------------------
(* Every cell in one block.  A cell is over a call when the call's square  *)
(* or block holds it; a list of calls holds it singly when one call does.  *)
Over(call, row, col) ==
  \/ /\ call.do = "node"
     /\ row \in call.row .. call.row + call.size - 1
     /\ col \in call.col .. call.col + call.size - 1
  \/ call.do = "block" /\ Covers(call, row, col)
Called(calls, row, col) == \E k \in DOMAIN calls : Over(calls[k], row, col)
Singly(calls, row, col) ==
  \A k, l \in DOMAIN calls :
    Over(calls[k], row, col) /\ Over(calls[l], row, col) => k = l

(* Lists of calls with no cell in common are joined to one that holds each *)
(* cell singly.                                                            *)
LEMMA JoinCalls ==
  ASSUME NEW S, NEW s \in Seq(S), NEW t \in Seq(S), NEW row, NEW col,
         Singly(s, row, col), Singly(t, row, col),
         ~ (Called(s, row, col) /\ Called(t, row, col))
  PROVE  /\ s \o t \in Seq(S)
         /\ Singly(s \o t, row, col)
         /\ Called(s \o t, row, col) <=> Called(s, row, col) \/ Called(t, row, col)
<1>1. PICK n \in Nat, m \in Nat :
        /\ n = Len(s) /\ m = Len(t)
        /\ DOMAIN s = 1 .. n /\ DOMAIN t = 1 .. m /\ DOMAIN (s \o t) = 1 .. n + m
  BY ConcatProperties, LenProperties
<1>2. /\ \A k \in 1 .. n : (s \o t)[k] = s[k]
      /\ \A k \in n + 1 .. n + m : (s \o t)[k] = t[k - n]
  BY <1>1
<1>3. \A k \in 1 .. n + m : k \in 1 .. n \/ (k \in n + 1 .. n + m /\ k - n \in 1 .. m)
  OBVIOUS
<1>4. Called(s \o t, row, col) => Called(s, row, col) \/ Called(t, row, col)
  BY <1>1, <1>2, <1>3 DEF Called
<1>5. Called(s, row, col) => Called(s \o t, row, col)
  BY <1>1, <1>2 DEF Called
<1>6. Called(t, row, col) => Called(s \o t, row, col)
  <2> SUFFICES ASSUME NEW k \in 1 .. m, Over(t[k], row, col)
               PROVE  Called(s \o t, row, col)
    BY <1>1 DEF Called
  <2>1. k + n \in n + 1 .. n + m /\ (k + n) - n = k /\ k + n \in 1 .. n + m
    OBVIOUS
  <2>2. Over((s \o t)[k + n], row, col)
    BY <1>2, <2>1
  <2> QED BY <1>1, <2>1, <2>2 DEF Called
<1>7. ASSUME NEW k \in 1 .. n + m, NEW l \in 1 .. n + m,
             Over((s \o t)[k], row, col), Over((s \o t)[l], row, col)
      PROVE  k = l
  <2>1. CASE k \in 1 .. n /\ l \in 1 .. n
    BY <1>1, <1>2, <1>7, <2>1 DEF Singly
  <2>2. CASE k \in n + 1 .. n + m /\ l \in n + 1 .. n + m
    <3>1. k - n \in 1 .. m /\ l - n \in 1 .. m
      BY <2>2
    <3>2. Over(t[k - n], row, col) /\ Over(t[l - n], row, col)
      BY <1>2, <1>7, <2>2
    <3>3. k - n = l - n
      BY <1>1, <3>1, <3>2 DEF Singly
    <3> QED BY <3>3
  <2>3. ASSUME NEW i \in 1 .. n, NEW j \in n + 1 .. n + m,
               Over((s \o t)[i], row, col), Over((s \o t)[j], row, col)
        PROVE  FALSE
    <3>1. Called(s, row, col)
      BY <1>1, <1>2, <2>3 DEF Called
    <3>2. j - n \in 1 .. m /\ Over(t[j - n], row, col)
      <4>1. j - n \in 1 .. m
        OBVIOUS
      <4>2. (s \o t)[j] = t[j - n]
        BY <1>2
      <4> QED BY <2>3, <4>1, <4>2
    <3>3. Called(t, row, col)
      BY <1>1, <3>2 DEF Called
    <3> QED BY <3>1, <3>3
  <2> QED BY <1>3, <1>7, <2>1, <2>2, <2>3
<1> QED BY <1>1, <1>4, <1>5, <1>6, <1>7 DEF Singly

LEMMA OneCall ==
  ASSUME NEW S, NEW e \in S, NEW row, NEW col
  PROVE  /\ <<e>> \in Seq(S) /\ Singly(<<e>>, row, col)
         /\ Called(<<e>>, row, col) <=> Over(e, row, col)
<1>1. DOMAIN <<e>> = {1} /\ <<e>>[1] = e
  OBVIOUS
<1> QED BY <1>1 DEF Singly, Called

(* A part that is called only where it is needed. *)
LEMMA PartCall ==
  ASSUME NEW S, NEW e, NEW needed \in BOOLEAN, needed => e \in S, NEW row, NEW col,
         Over(e, row, col) => needed,
         NEW s, s = IF needed THEN <<e>> ELSE <<>>
  PROVE  /\ s \in Seq(S) /\ Singly(s, row, col)
         /\ Called(s, row, col) <=> Over(e, row, col)
<1>1. CASE needed
  BY <1>1, OneCall
<1>2. CASE ~needed
  <2>1. s = <<>> /\ DOMAIN s = {}
    BY <1>2
  <2> QED BY <1>2, <2>1 DEF Singly, Called
<1> QED BY <1>1, <1>2

LEMMA JoinFour ==
  ASSUME NEW S, NEW a \in Seq(S), NEW b \in Seq(S), NEW c \in Seq(S), NEW d \in Seq(S),
         NEW row, NEW col,
         Singly(a, row, col), Singly(b, row, col), Singly(c, row, col), Singly(d, row, col),
         Called(a, row, col) =>
           ~Called(b, row, col) /\ ~Called(c, row, col) /\ ~Called(d, row, col),
         Called(b, row, col) => ~Called(c, row, col) /\ ~Called(d, row, col),
         Called(c, row, col) => ~Called(d, row, col)
  PROVE  /\ Singly(a \o b \o c \o d, row, col)
         /\ Called(a \o b \o c \o d, row, col) <=>
              \/ Called(a, row, col) \/ Called(b, row, col)
              \/ Called(c, row, col) \/ Called(d, row, col)
<1>1. PICK ab : ab = a \o b
  OBVIOUS
<1>2. /\ ab \in Seq(S) /\ Singly(ab, row, col)
      /\ Called(ab, row, col) <=> Called(a, row, col) \/ Called(b, row, col)
  BY <1>1, JoinCalls
<1>3. PICK abc : abc = ab \o c
  OBVIOUS
<1>4. /\ abc \in Seq(S) /\ Singly(abc, row, col)
      /\ Called(abc, row, col) <=> Called(ab, row, col) \/ Called(c, row, col)
  <2>1. ~ (Called(ab, row, col) /\ Called(c, row, col))
    BY <1>2
  <2> QED BY <1>2, <1>3, <2>1, JoinCalls
<1>5. /\ Singly(abc \o d, row, col)
      /\ Called(abc \o d, row, col) <=> Called(abc, row, col) \/ Called(d, row, col)
  <2>1. ~ (Called(abc, row, col) /\ Called(d, row, col))
    BY <1>2, <1>4
  <2> QED BY <1>4, <2>1, JoinCalls
<1> QED BY <1>1, <1>2, <1>3, <1>4, <1>5

(* Up to four parts, each called only where it is needed. *)
LEMMA FourNeeded ==
  ASSUME NEW e1, NEW e2, NEW e3, NEW e4, NEW a, NEW b, NEW c, NEW d, NEW row, NEW col,
         Over(e1, row, col) => ~Over(e2, row, col) /\ ~Over(e3, row, col)
                                 /\ ~Over(e4, row, col),
         Over(e2, row, col) => ~Over(e3, row, col) /\ ~Over(e4, row, col),
         Over(e3, row, col) => ~Over(e4, row, col),
         a = <<e1>> \/ (a = <<>> /\ ~Over(e1, row, col)),
         b = <<e2>> \/ (b = <<>> /\ ~Over(e2, row, col)),
         c = <<e3>> \/ (c = <<>> /\ ~Over(e3, row, col)),
         d = <<e4>> \/ (d = <<>> /\ ~Over(e4, row, col))
  PROVE  /\ Singly(a \o b \o c \o d, row, col)
         /\ Called(a \o b \o c \o d, row, col) <=>
              \/ Over(e1, row, col) \/ Over(e2, row, col)
              \/ Over(e3, row, col) \/ Over(e4, row, col)
<1> DEFINE S == {e1, e2, e3, e4}
<1>1. e1 \in S /\ e2 \in S /\ e3 \in S /\ e4 \in S
  OBVIOUS
<1> HIDE DEF S
<1>2. ASSUME NEW e \in S, NEW s, s = <<e>> \/ (s = <<>> /\ ~Over(e, row, col))
      PROVE  /\ s \in Seq(S) /\ Singly(s, row, col)
             /\ Called(s, row, col) <=> Over(e, row, col)
  <2>1. CASE s = <<e>>
    BY <2>1, OneCall
  <2>2. CASE s = <<>> /\ ~Over(e, row, col)
    <3>1. DOMAIN s = {} /\ s \in Seq(S)
      BY <2>2
    <3> QED BY <2>2, <3>1 DEF Singly, Called
  <2> QED BY <1>2, <2>1, <2>2
<1>3. /\ a \in Seq(S) /\ Singly(a, row, col)
      /\ Called(a, row, col) <=> Over(e1, row, col)
  BY <1>1, <1>2
<1>4. /\ b \in Seq(S) /\ Singly(b, row, col)
      /\ Called(b, row, col) <=> Over(e2, row, col)
  BY <1>1, <1>2
<1>5. /\ c \in Seq(S) /\ Singly(c, row, col)
      /\ Called(c, row, col) <=> Over(e3, row, col)
  BY <1>1, <1>2
<1>6. /\ d \in Seq(S) /\ Singly(d, row, col)
      /\ Called(d, row, col) <=> Over(e4, row, col)
  BY <1>1, <1>2
<1>7. /\ Singly(a \o b \o c \o d, row, col)
      /\ Called(a \o b \o c \o d, row, col) <=>
           \/ Called(a, row, col) \/ Called(b, row, col)
           \/ Called(c, row, col) \/ Called(d, row, col)
  BY <1>3, <1>4, <1>5, <1>6, JoinFour
<1> QED BY <1>3, <1>4, <1>5, <1>6, <1>7

LEMMA TwoParts ==
  ASSUME NEW e1, NEW e2, NEW n2 \in BOOLEAN, NEW row, NEW col,
         Over(e1, row, col) => ~Over(e2, row, col), Over(e2, row, col) => n2
  PROVE  LET s == <<e1>> \o IF n2 THEN <<e2>> ELSE <<>> IN
         /\ Singly(s, row, col)
         /\ Called(s, row, col) <=> Over(e1, row, col) \/ Over(e2, row, col)
<1> DEFINE S == {e1, e2}
<1>1. PICK a, b : a = <<e1>> /\ b = IF n2 THEN <<e2>> ELSE <<>>
  OBVIOUS
<1>2. e1 \in S /\ e2 \in S
  OBVIOUS
<1> HIDE DEF S
<1>3. /\ a \in Seq(S) /\ Singly(a, row, col)
      /\ Called(a, row, col) <=> Over(e1, row, col)
  BY <1>1, <1>2, OneCall
<1>4. /\ b \in Seq(S) /\ Singly(b, row, col)
      /\ Called(b, row, col) <=> Over(e2, row, col)
  BY <1>1, <1>2, PartCall
<1>5. /\ Singly(a \o b, row, col)
      /\ Called(a \o b, row, col) <=> Called(a, row, col) \/ Called(b, row, col)
  BY <1>3, <1>4, JoinCalls
<1> QED BY <1>1, <1>3, <1>4, <1>5

LEMMA ThreeParts ==
  ASSUME NEW e1, NEW e2, NEW e3, NEW row, NEW col,
         Over(e1, row, col) => ~Over(e2, row, col) /\ ~Over(e3, row, col),
         Over(e2, row, col) => ~Over(e3, row, col)
  PROVE  LET s == <<e1, e2, e3>> IN
         /\ Singly(s, row, col)
         /\ Called(s, row, col) <=>
              Over(e1, row, col) \/ Over(e2, row, col) \/ Over(e3, row, col)
<1> DEFINE s == <<e1, e2, e3>>
<1>1. DOMAIN s = {1, 2, 3} /\ s[1] = e1 /\ s[2] = e2 /\ s[3] = e3
  OBVIOUS
<1> HIDE DEF s
<1>2. Singly(s, row, col)
  BY <1>1 DEF Singly
<1>3. Called(s, row, col) <=>
        Over(e1, row, col) \/ Over(e2, row, col) \/ Over(e3, row, col)
  BY <1>1 DEF Called
<1> QED BY <1>2, <1>3 DEF s

LEMMA FourSquares ==
  ASSUME NEW e1, NEW e2, NEW e3, NEW e4, NEW row, NEW col,
         Over(e1, row, col) => ~Over(e2, row, col) /\ ~Over(e3, row, col)
                                 /\ ~Over(e4, row, col),
         Over(e2, row, col) => ~Over(e3, row, col) /\ ~Over(e4, row, col),
         Over(e3, row, col) => ~Over(e4, row, col)
  PROVE  LET s == <<e1, e2, e3, e4>> IN
         /\ Singly(s, row, col)
         /\ Called(s, row, col) <=> \/ Over(e1, row, col) \/ Over(e2, row, col)
                                    \/ Over(e3, row, col) \/ Over(e4, row, col)
<1> DEFINE s == <<e1, e2, e3, e4>>
<1>1. DOMAIN s = {1, 2, 3, 4} /\ s[1] = e1 /\ s[2] = e2 /\ s[3] = e3 /\ s[4] = e4
  OBVIOUS
<1> HIDE DEF s
<1>2. Singly(s, row, col)
  BY <1>1 DEF Singly
<1>3. Called(s, row, col) <=> \/ Over(e1, row, col) \/ Over(e2, row, col)
                              \/ Over(e3, row, col) \/ Over(e4, row, col)
  BY <1>1 DEF Called
<1> QED BY <1>2, <1>3 DEF s

(* The cells of a rectangle. *)
InRect(r, c, top, start, h, w) ==
  r >= top /\ r < top + h /\ c >= start /\ c < start + w

LEMMA OverBlock ==
  ASSUME NEW r \in Int, NEW c \in Int, NEW row \in Int, NEW col \in Int,
         NEW sub \in [w : Nat, h : Nat], NEW p
  PROVE  Over(BlockCall(row, col, sub, p), r, c) <=> InRect(r, c, row, col, sub.h, sub.w)
<1> DEFINE b == BlockCall(row, col, sub, p)
<1>1. b.do = "block" /\ b.row = row /\ b.col = col /\ b.w = sub.w /\ b.h = sub.h
  BY DEF BlockCall
<1>2. sub.w \in Nat /\ sub.h \in Nat
  OBVIOUS
<1> HIDE DEF b
<1>3. Over(b, r, c) <=> InRect(r, c, row, col, sub.h, sub.w)
  BY <1>1, <1>2 DEF Over, Covers, InRect
<1> QED BY <1>3 DEF b

LEMMA OverNode ==
  ASSUME NEW r \in Int, NEW c \in Int, NEW row \in Int, NEW col \in Int, NEW size \in Nat
  PROVE  Over(NodeCall(row, col, size), r, c) <=> InRect(r, c, row, col, size, size)
<1> DEFINE n == NodeCall(row, col, size)
<1>1. n.do = "node" /\ n.row = row /\ n.col = col /\ n.size = size
  BY DEF NodeCall
<1> HIDE DEF n
<1>2. Over(n, r, c) <=> InRect(r, c, row, col, size, size)
  BY <1>1 DEF Over, InRect
<1> QED BY <1>2 DEF n

(* A partition shares its square out: of the square's cells in the frame   *)
(* each is in one part, and no part has a cell outside the square.         *)
LEMMA CallsCover ==
  ASSUME frame.rows \in Nat, frame.cols \in Nat, NEW size \in Squares,
         NEW row \in Nat, NEW col \in Nat, NEW p \in Partitions(row, col, size),
         NEW r \in Nat, r < frame.rows, NEW c \in Nat, c < frame.cols
  PROVE  /\ Singly(Calls(row, col, size, p), r, c)
         /\ Called(Calls(row, col, size, p), r, c) <=> InRect(r, c, row, col, size, size)
<1> DEFINE hbs == size \div 2
           quarter == size \div 4
           sub == Subsize(size, p)
           half == Subsize(size, "SPLIT")
           At2(a, b) == BlockCall(a, b, sub, p)
           InFrame(a, b) == IF a < frame.rows /\ b < frame.cols THEN <<At2(a, b)>> ELSE <<>>
<1>1. /\ hbs \in Nat /\ quarter \in Nat /\ size \in Nat
      /\ size # 1 => size = 2 * hbs
      /\ size # 1 /\ size # 2 => hbs = 2 * quarter
  BY DEF Squares
<1>2. half = [w |-> hbs, h |-> hbs] /\ sub \in [w : Nat, h : Nat]
  BY <1>1, SubsizeValues, SubsizeType
<1>3. \A a, b \in Nat, s \in [w : Nat, h : Nat] :
        Over(BlockCall(a, b, s, p), r, c) <=> InRect(r, c, a, b, s.h, s.w)
  <2> SUFFICES ASSUME NEW a \in Nat, NEW b \in Nat, NEW s \in [w : Nat, h : Nat]
               PROVE  Over(BlockCall(a, b, s, p), r, c) <=> InRect(r, c, a, b, s.h, s.w)
    OBVIOUS
  <2>1. a \in Int /\ b \in Int /\ r \in Int /\ c \in Int
    OBVIOUS
  <2> QED BY <2>1, OverBlock, Zenon
<1>4. \A a, b \in Nat : Over(NodeCall(a, b, hbs), r, c) <=> InRect(r, c, a, b, hbs, hbs)
  <2> SUFFICES ASSUME NEW a \in Nat, NEW b \in Nat
               PROVE  Over(NodeCall(a, b, hbs), r, c) <=> InRect(r, c, a, b, hbs, hbs)
    OBVIOUS
  <2>1. a \in Int /\ b \in Int /\ r \in Int /\ c \in Int /\ hbs \in Nat
    BY <1>1
  <2> QED BY <2>1, OverNode, Zenon
<1>5. p = "NONE" \/ p = "SPLIT" \/ p = "HORZ" \/ p = "VERT"
      \/ p \in {"HORZ_A", "HORZ_B", "VERT_A", "VERT_B"} \/ p = "HORZ_4" \/ p = "VERT_4"
  BY DEF Partitions, Symbols
<1>6. /\ p # "NONE" => size # 1
      /\ p \in {"HORZ_4", "VERT_4"} => size # 1 /\ size # 2
  BY DEF Partitions, Symbols, Squares
<1> HIDE DEF hbs, quarter, sub, half
<1>7. CASE p = "NONE"
  <2>1. Calls(row, col, size, p) = <<At2(row, col)>> /\ sub = [w |-> size, h |-> size]
    BY <1>7, SubsizeValues DEF Calls, sub
  <2>2. Over(At2(row, col), r, c) <=> InRect(r, c, row, col, size, size)
    BY <1>2, <1>3, <2>1
  <2> HIDE DEF At2
  <2> QED BY <2>1, <2>2, OneCall
<1>8. CASE p = "SPLIT"
  <2> DEFINE e1 == NodeCall(row, col, hbs)
             e2 == NodeCall(row, col + hbs, hbs)
             e3 == NodeCall(row + hbs, col, hbs)
             e4 == NodeCall(row + hbs, col + hbs, hbs)
  <2>1. Calls(row, col, size, p) = <<e1, e2, e3, e4>>
    BY <1>8 DEF Calls, hbs
  <2>2. row + hbs \in Nat /\ col + hbs \in Nat
    BY <1>1
  <2>3. /\ Over(e1, r, c) <=> InRect(r, c, row, col, hbs, hbs)
        /\ Over(e2, r, c) <=> InRect(r, c, row, col + hbs, hbs, hbs)
        /\ Over(e3, r, c) <=> InRect(r, c, row + hbs, col, hbs, hbs)
        /\ Over(e4, r, c) <=> InRect(r, c, row + hbs, col + hbs, hbs, hbs)
    BY <1>4, <2>2
  <2> HIDE DEF e1, e2, e3, e4
  <2>4. size = 2 * hbs
    BY <1>1, <1>6, <1>8
  <2>5. /\ Over(e1, r, c) => ~Over(e2, r, c) /\ ~Over(e3, r, c) /\ ~Over(e4, r, c)
        /\ Over(e2, r, c) => ~Over(e3, r, c) /\ ~Over(e4, r, c)
        /\ Over(e3, r, c) => ~Over(e4, r, c)
    BY <1>1, <2>3 DEF InRect
  <2>6. InRect(r, c, row, col, size, size) <=>
          \/ Over(e1, r, c) \/ Over(e2, r, c) \/ Over(e3, r, c) \/ Over(e4, r, c)
    BY <1>1, <2>3, <2>4 DEF InRect
  <2>7. /\ Singly(<<e1, e2, e3, e4>>, r, c)
        /\ Called(<<e1, e2, e3, e4>>, r, c) <=>
             \/ Over(e1, r, c) \/ Over(e2, r, c) \/ Over(e3, r, c) \/ Over(e4, r, c)
    BY <2>5, FourSquares
  <2> QED BY <2>1, <2>6, <2>7
<1>9. CASE p = "HORZ"
  <2> DEFINE e1 == At2(row, col)
             e2 == At2(row + hbs, col)
  <2>1. /\ Calls(row, col, size, p)
             = <<e1>> \o IF HasRows(row, size) THEN <<e2>> ELSE <<>>
        /\ sub = [w |-> size, h |-> hbs]
    BY <1>9, SubsizeValues DEF Calls, hbs, sub, Halved
  <2>2. row + hbs \in Nat /\ size = 2 * hbs
    BY <1>1, <1>6, <1>9
  <2>3. /\ Over(e1, r, c) <=> InRect(r, c, row, col, hbs, size)
        /\ Over(e2, r, c) <=> InRect(r, c, row + hbs, col, hbs, size)
    BY <1>2, <1>3, <2>1, <2>2
  <2> HIDE DEF e1, e2
  <2>4. /\ Over(e1, r, c) => ~Over(e2, r, c)
        /\ Over(e2, r, c) => HasRows(row, size)
        /\ InRect(r, c, row, col, size, size) <=> Over(e1, r, c) \/ Over(e2, r, c)
    BY <1>1, <2>2, <2>3 DEF InRect, HasRows, hbs
  <2>5. HasRows(row, size) \in BOOLEAN
    BY DEF HasRows
  <2>6. /\ Singly(<<e1>> \o IF HasRows(row, size) THEN <<e2>> ELSE <<>>, r, c)
        /\ Called(<<e1>> \o IF HasRows(row, size) THEN <<e2>> ELSE <<>>, r, c)
             <=> Over(e1, r, c) \/ Over(e2, r, c)
    BY <2>4, <2>5, TwoParts
  <2> QED BY <2>1, <2>4, <2>6
<1>10. CASE p = "VERT"
  <2> DEFINE e1 == At2(row, col)
             e2 == At2(row, col + hbs)
  <2>1. /\ Calls(row, col, size, p)
             = <<e1>> \o IF HasCols(col, size) THEN <<e2>> ELSE <<>>
        /\ sub = [w |-> hbs, h |-> size]
    BY <1>10, SubsizeValues DEF Calls, hbs, sub, Sided
  <2>2. col + hbs \in Nat /\ size = 2 * hbs
    BY <1>1, <1>6, <1>10
  <2>3. /\ Over(e1, r, c) <=> InRect(r, c, row, col, size, hbs)
        /\ Over(e2, r, c) <=> InRect(r, c, row, col + hbs, size, hbs)
    BY <1>2, <1>3, <2>1, <2>2
  <2> HIDE DEF e1, e2
  <2>4. /\ Over(e1, r, c) => ~Over(e2, r, c)
        /\ Over(e2, r, c) => HasCols(col, size)
        /\ InRect(r, c, row, col, size, size) <=> Over(e1, r, c) \/ Over(e2, r, c)
    BY <1>1, <2>2, <2>3 DEF InRect, HasCols, hbs
  <2>5. HasCols(col, size) \in BOOLEAN
    BY DEF HasCols
  <2>6. /\ Singly(<<e1>> \o IF HasCols(col, size) THEN <<e2>> ELSE <<>>, r, c)
        /\ Called(<<e1>> \o IF HasCols(col, size) THEN <<e2>> ELSE <<>>, r, c)
             <=> Over(e1, r, c) \/ Over(e2, r, c)
    BY <2>4, <2>5, TwoParts
  <2> QED BY <2>1, <2>4, <2>6
<1>11. CASE p \in {"HORZ_A", "HORZ_B", "VERT_A", "VERT_B"}
  <2>1. /\ row + hbs \in Nat /\ col + hbs \in Nat /\ size = 2 * hbs
        /\ half \in [w : Nat, h : Nat]
    BY <1>1, <1>2, <1>6, <1>11
  <2>2. PICK e1, e2, e3 :
          /\ Calls(row, col, size, p) = <<e1, e2, e3>>
          /\ Over(e1, r, c) => ~Over(e2, r, c) /\ ~Over(e3, r, c)
          /\ Over(e2, r, c) => ~Over(e3, r, c)
          /\ InRect(r, c, row, col, size, size) <=>
               Over(e1, r, c) \/ Over(e2, r, c) \/ Over(e3, r, c)
    <3> DEFINE Shared(e1, e2, e3) ==
          /\ Over(e1, r, c) => ~Over(e2, r, c) /\ ~Over(e3, r, c)
          /\ Over(e2, r, c) => ~Over(e3, r, c)
          /\ InRect(r, c, row, col, size, size) <=>
               Over(e1, r, c) \/ Over(e2, r, c) \/ Over(e3, r, c)
    <3>1. CASE p = "HORZ_A"
      <4> DEFINE e1 == BlockCall(row, col, half, p)
                 e2 == BlockCall(row, col + hbs, half, p)
                 e3 == BlockCall(row + hbs, col, sub, p)
      <4>1. Calls(row, col, size, p) = <<e1, e2, e3>> /\ sub = [w |-> size, h |-> hbs]
        BY <3>1, SubsizeValues DEF Calls, hbs, sub, half, Halved
      <4>2. /\ Over(e1, r, c) <=> InRect(r, c, row, col, hbs, hbs)
            /\ Over(e2, r, c) <=> InRect(r, c, row, col + hbs, hbs, hbs)
            /\ Over(e3, r, c) <=> InRect(r, c, row + hbs, col, hbs, size)
        BY <1>2, <1>3, <2>1, <4>1
      <4> HIDE DEF e1, e2, e3
      <4>3. Shared(e1, e2, e3)
        BY <1>1, <2>1, <4>2 DEF InRect
      <4> QED BY <4>1, <4>3, Zenon
    <3>2. CASE p = "HORZ_B"
      <4> DEFINE e1 == BlockCall(row, col, sub, p)
                 e2 == BlockCall(row + hbs, col, half, p)
                 e3 == BlockCall(row + hbs, col + hbs, half, p)
      <4>1. Calls(row, col, size, p) = <<e1, e2, e3>> /\ sub = [w |-> size, h |-> hbs]
        BY <3>2, SubsizeValues DEF Calls, hbs, sub, half, Halved
      <4>2. /\ Over(e1, r, c) <=> InRect(r, c, row, col, hbs, size)
            /\ Over(e2, r, c) <=> InRect(r, c, row + hbs, col, hbs, hbs)
            /\ Over(e3, r, c) <=> InRect(r, c, row + hbs, col + hbs, hbs, hbs)
        BY <1>2, <1>3, <2>1, <4>1
      <4> HIDE DEF e1, e2, e3
      <4>3. Shared(e1, e2, e3)
        BY <1>1, <2>1, <4>2 DEF InRect
      <4> QED BY <4>1, <4>3, Zenon
    <3>3. CASE p = "VERT_A"
      <4> DEFINE e1 == BlockCall(row, col, half, p)
                 e2 == BlockCall(row + hbs, col, half, p)
                 e3 == BlockCall(row, col + hbs, sub, p)
      <4>1. Calls(row, col, size, p) = <<e1, e2, e3>> /\ sub = [w |-> hbs, h |-> size]
        BY <3>3, SubsizeValues DEF Calls, hbs, sub, half, Sided
      <4>2. /\ Over(e1, r, c) <=> InRect(r, c, row, col, hbs, hbs)
            /\ Over(e2, r, c) <=> InRect(r, c, row + hbs, col, hbs, hbs)
            /\ Over(e3, r, c) <=> InRect(r, c, row, col + hbs, size, hbs)
        BY <1>2, <1>3, <2>1, <4>1
      <4> HIDE DEF e1, e2, e3
      <4>3. Shared(e1, e2, e3)
        BY <1>1, <2>1, <4>2 DEF InRect
      <4> QED BY <4>1, <4>3, Zenon
    <3>4. CASE p = "VERT_B"
      <4> DEFINE e1 == BlockCall(row, col, sub, p)
                 e2 == BlockCall(row, col + hbs, half, p)
                 e3 == BlockCall(row + hbs, col + hbs, half, p)
      <4>1. Calls(row, col, size, p) = <<e1, e2, e3>> /\ sub = [w |-> hbs, h |-> size]
        BY <3>4, SubsizeValues DEF Calls, hbs, sub, half, Sided
      <4>2. /\ Over(e1, r, c) <=> InRect(r, c, row, col, size, hbs)
            /\ Over(e2, r, c) <=> InRect(r, c, row, col + hbs, hbs, hbs)
            /\ Over(e3, r, c) <=> InRect(r, c, row + hbs, col + hbs, hbs, hbs)
        BY <1>2, <1>3, <2>1, <4>1
      <4> HIDE DEF e1, e2, e3
      <4>3. Shared(e1, e2, e3)
        BY <1>1, <2>1, <4>2 DEF InRect
      <4> QED BY <4>1, <4>3, Zenon
    <3> QED BY <1>11, <3>1, <3>2, <3>3, <3>4
  <2> QED BY <2>2, ThreeParts
<1>12. CASE p = "HORZ_4"
  <2> DEFINE e1 == At2(row, col)
             e2 == At2(row + quarter, col)
             e3 == At2(row + 2 * quarter, col)
             e4 == At2(row + 3 * quarter, col)
             n1 == row < frame.rows /\ col < frame.cols
             n2 == row + quarter < frame.rows /\ col < frame.cols
             n3 == row + 2 * quarter < frame.rows /\ col < frame.cols
             n4 == row + 3 * quarter < frame.rows /\ col < frame.cols
             s1 == IF n1 THEN <<e1>> ELSE <<>>
             s2 == IF n2 THEN <<e2>> ELSE <<>>
             s3 == IF n3 THEN <<e3>> ELSE <<>>
             s4 == IF n4 THEN <<e4>> ELSE <<>>
  <2>1. Calls(row, col, size, p) = s1 \o s2 \o s3 \o s4 /\ sub = [w |-> size, h |-> quarter]
    BY <1>12, SubsizeValues DEF Calls, quarter, sub
  <2>2. /\ row + quarter \in Nat /\ row + 2 * quarter \in Nat /\ row + 3 * quarter \in Nat
        /\ size = 4 * quarter
    BY <1>1, <1>6, <1>12
  <2>3. /\ Over(e1, r, c) <=> InRect(r, c, row, col, quarter, size)
        /\ Over(e2, r, c) <=> InRect(r, c, row + quarter, col, quarter, size)
        /\ Over(e3, r, c) <=> InRect(r, c, row + 2 * quarter, col, quarter, size)
        /\ Over(e4, r, c) <=> InRect(r, c, row + 3 * quarter, col, quarter, size)
    BY <1>2, <1>3, <2>1, <2>2
  <2> HIDE DEF e1, e2, e3, e4
  <2>4. /\ Over(e1, r, c) =>
             n1 /\ ~Over(e2, r, c) /\ ~Over(e3, r, c) /\ ~Over(e4, r, c)
        /\ Over(e2, r, c) => n2 /\ ~Over(e3, r, c) /\ ~Over(e4, r, c)
        /\ Over(e3, r, c) => n3 /\ ~Over(e4, r, c)
        /\ Over(e4, r, c) => n4
    BY <1>1, <2>2, <2>3 DEF InRect
  <2>5. InRect(r, c, row, col, size, size) <=>
          \/ Over(e1, r, c) \/ Over(e2, r, c) \/ Over(e3, r, c) \/ Over(e4, r, c)
    BY <1>1, <2>2, <2>3 DEF InRect
  <2>6. /\ s1 = <<e1>> \/ (s1 = <<>> /\ ~Over(e1, r, c))
        /\ s2 = <<e2>> \/ (s2 = <<>> /\ ~Over(e2, r, c))
        /\ s3 = <<e3>> \/ (s3 = <<>> /\ ~Over(e3, r, c))
        /\ s4 = <<e4>> \/ (s4 = <<>> /\ ~Over(e4, r, c))
    <3> HIDE DEF n1, n2, n3, n4
    <3> QED BY <2>4
  <2> HIDE DEF s1, s2, s3, s4
  <2>7. /\ Singly(s1 \o s2 \o s3 \o s4, r, c)
        /\ Called(s1 \o s2 \o s3 \o s4, r, c) <=>
             \/ Over(e1, r, c) \/ Over(e2, r, c) \/ Over(e3, r, c) \/ Over(e4, r, c)
    <3>1. /\ Over(e1, r, c) => ~Over(e2, r, c) /\ ~Over(e3, r, c) /\ ~Over(e4, r, c)
          /\ Over(e2, r, c) => ~Over(e3, r, c) /\ ~Over(e4, r, c)
          /\ Over(e3, r, c) => ~Over(e4, r, c)
      BY <2>4
    <3> QED BY <2>6, <3>1, FourNeeded
  <2> QED BY <2>1, <2>5, <2>7
<1>13. CASE p = "VERT_4"
  <2> DEFINE e1 == At2(row, col)
             e2 == At2(row, col + quarter)
             e3 == At2(row, col + 2 * quarter)
             e4 == At2(row, col + 3 * quarter)
             n1 == row < frame.rows /\ col < frame.cols
             n2 == row < frame.rows /\ col + quarter < frame.cols
             n3 == row < frame.rows /\ col + 2 * quarter < frame.cols
             n4 == row < frame.rows /\ col + 3 * quarter < frame.cols
             s1 == IF n1 THEN <<e1>> ELSE <<>>
             s2 == IF n2 THEN <<e2>> ELSE <<>>
             s3 == IF n3 THEN <<e3>> ELSE <<>>
             s4 == IF n4 THEN <<e4>> ELSE <<>>
  <2>1. Calls(row, col, size, p) = s1 \o s2 \o s3 \o s4 /\ sub = [w |-> quarter, h |-> size]
    BY <1>13, SubsizeValues DEF Calls, quarter, sub
  <2>2. /\ col + quarter \in Nat /\ col + 2 * quarter \in Nat /\ col + 3 * quarter \in Nat
        /\ size = 4 * quarter
    BY <1>1, <1>6, <1>13
  <2>3. /\ Over(e1, r, c) <=> InRect(r, c, row, col, size, quarter)
        /\ Over(e2, r, c) <=> InRect(r, c, row, col + quarter, size, quarter)
        /\ Over(e3, r, c) <=> InRect(r, c, row, col + 2 * quarter, size, quarter)
        /\ Over(e4, r, c) <=> InRect(r, c, row, col + 3 * quarter, size, quarter)
    BY <1>2, <1>3, <2>1, <2>2
  <2> HIDE DEF e1, e2, e3, e4
  <2>4. /\ Over(e1, r, c) =>
             n1 /\ ~Over(e2, r, c) /\ ~Over(e3, r, c) /\ ~Over(e4, r, c)
        /\ Over(e2, r, c) => n2 /\ ~Over(e3, r, c) /\ ~Over(e4, r, c)
        /\ Over(e3, r, c) => n3 /\ ~Over(e4, r, c)
        /\ Over(e4, r, c) => n4
    BY <1>1, <2>2, <2>3 DEF InRect
  <2>5. InRect(r, c, row, col, size, size) <=>
          \/ Over(e1, r, c) \/ Over(e2, r, c) \/ Over(e3, r, c) \/ Over(e4, r, c)
    BY <1>1, <2>2, <2>3 DEF InRect
  <2>6. /\ s1 = <<e1>> \/ (s1 = <<>> /\ ~Over(e1, r, c))
        /\ s2 = <<e2>> \/ (s2 = <<>> /\ ~Over(e2, r, c))
        /\ s3 = <<e3>> \/ (s3 = <<>> /\ ~Over(e3, r, c))
        /\ s4 = <<e4>> \/ (s4 = <<>> /\ ~Over(e4, r, c))
    <3> HIDE DEF n1, n2, n3, n4
    <3> QED BY <2>4
  <2> HIDE DEF s1, s2, s3, s4
  <2>7. /\ Singly(s1 \o s2 \o s3 \o s4, r, c)
        /\ Called(s1 \o s2 \o s3 \o s4, r, c) <=>
             \/ Over(e1, r, c) \/ Over(e2, r, c) \/ Over(e3, r, c) \/ Over(e4, r, c)
    <3>1. /\ Over(e1, r, c) => ~Over(e2, r, c) /\ ~Over(e3, r, c) /\ ~Over(e4, r, c)
          /\ Over(e2, r, c) => ~Over(e3, r, c) /\ ~Over(e4, r, c)
          /\ Over(e3, r, c) => ~Over(e4, r, c)
      BY <2>4
    <3> QED BY <2>6, <3>1, FourNeeded
  <2> QED BY <2>1, <2>5, <2>7
<1> QED
  BY <1>5, <1>7, <1>8, <1>9, <1>10, <1>11, <1>12, <1>13

-----------------------------------------------------------------------------
(* What becomes of a cell: it is in a tile or a superblock still to come,  *)
(* over a call still to make, or in a block, and in one of them alone.     *)
Later(row, col) ==
  \E i \in DOMAIN frame.tiles : i > tile /\ InTile(frame.tiles[i], row, col)
InHand(row, col) == tile \in DOMAIN frame.tiles /\ InTile(Tile, row, col)
Waits(row, col) ==
  \/ pc = "tiles"
  \/ pc = "row" /\ row >= sbRow
  \/ /\ pc = "walk"
     /\ row >= sbRow + frame.mib \/ (row >= sbRow /\ col >= sbCol + frame.mib)
Ahead(row, col) == Later(row, col) \/ (InHand(row, col) /\ Waits(row, col))

Blocked(row, col) == \E k \in DOMAIN blocks : Covers(blocks[k], row, col)
BlockedOnce(row, col) ==
  \A k, l \in DOMAIN blocks :
    Covers(blocks[k], row, col) /\ Covers(blocks[l], row, col) => k = l

Owned(row, col) ==
  /\ Singly(todo, row, col)
  /\ BlockedOnce(row, col)
  /\ ~ (Called(todo, row, col) /\ Blocked(row, col))
  /\ Ahead(row, col) <=> ~Called(todo, row, col) /\ ~Blocked(row, col)

CellsInv ==
  ~corrupt /\ ~cancelled =>
    \A row \in 0 .. frame.rows - 1, col \in 0 .. frame.cols - 1 : Owned(row, col)

(* The list without its first call. *)
LEMMA FirstCall ==
  ASSUME NEW S, NEW s \in Seq(S), s # <<>>, NEW row, NEW col
  PROVE  /\ Called(s, row, col) <=> Over(Head(s), row, col) \/ Called(Tail(s), row, col)
         /\ Singly(s, row, col) =>
              /\ Singly(Tail(s), row, col)
              /\ ~ (Over(Head(s), row, col) /\ Called(Tail(s), row, col))
<1>1. PICK n \in Nat : n = Len(s)
  BY LenProperties
<1>2. /\ n >= 1 /\ DOMAIN s = 1 .. n /\ DOMAIN Tail(s) = 1 .. n - 1
      /\ Head(s) = s[1] /\ \A k \in 1 .. n - 1 : Tail(s)[k] = s[k + 1]
  BY <1>1, HeadTailProperties, EmptySeq, LenProperties
<1>3. \A k \in 1 .. n : k = 1 \/ (k - 1 \in 1 .. n - 1 /\ (k - 1) + 1 = k)
  OBVIOUS
<1>4. Called(s, row, col) => Over(Head(s), row, col) \/ Called(Tail(s), row, col)
  <2> SUFFICES ASSUME NEW k \in 1 .. n, Over(s[k], row, col), k # 1
               PROVE  Called(Tail(s), row, col)
    BY <1>2 DEF Called
  <2>1. k - 1 \in 1 .. n - 1 /\ Tail(s)[k - 1] = s[k]
    BY <1>2, <1>3
  <2> QED BY <1>2, <2>1 DEF Called
<1>5. Over(Head(s), row, col) => Called(s, row, col)
  BY <1>2 DEF Called
<1>6. ASSUME NEW k \in 1 .. n - 1
      PROVE  k + 1 \in 1 .. n /\ k + 1 # 1 /\ Tail(s)[k] = s[k + 1]
  BY <1>2
<1>7. Called(Tail(s), row, col) => Called(s, row, col)
  BY <1>2, <1>6 DEF Called
<1>8. ASSUME Singly(s, row, col)
      PROVE  /\ Singly(Tail(s), row, col)
             /\ ~ (Over(Head(s), row, col) /\ Called(Tail(s), row, col))
  <2>1. ASSUME NEW k \in 1 .. n - 1, NEW l \in 1 .. n - 1,
               Over(Tail(s)[k], row, col), Over(Tail(s)[l], row, col)
        PROVE  k = l
    <3>1. k + 1 = l + 1
      BY <1>2, <1>6, <1>8, <2>1 DEF Singly
    <3> QED BY <3>1
  <2>2. ASSUME NEW k \in 1 .. n - 1, Over(Tail(s)[k], row, col), Over(Head(s), row, col)
        PROVE  FALSE
    <3>1. k + 1 = 1
      BY <1>2, <1>6, <1>8, <2>2 DEF Singly
    <3> QED BY <3>1
  <2> QED BY <1>2, <2>1, <2>2 DEF Singly, Called
<1> QED BY <1>4, <1>5, <1>7, <1>8

LEMMA NoCalls ==
  ASSUME NEW row, NEW col
  PROVE  Singly(<<>>, row, col) /\ ~Called(<<>>, row, col)
<1>1. DOMAIN <<>> = {}
  OBVIOUS
<1> QED BY <1>1 DEF Singly, Called

(* A cell of the frame is in one tile. *)
LEMMA CellInTile ==
  ASSUME WalkInv, NEW row \in 0 .. frame.rows - 1, NEW col \in 0 .. frame.cols - 1
  PROVE  /\ \E i \in DOMAIN frame.tiles : InTile(frame.tiles[i], row, col)
         /\ InHand(row, col) => ~Later(row, col)
<1>1. \E i \in DOMAIN frame.tiles :
        \A j \in DOMAIN frame.tiles : InTile(frame.tiles[j], row, col) <=> j = i
  BY WalkAssumption DEF WalkInv, FrameOK, TilesShareOut
<1>2. PICK i \in DOMAIN frame.tiles :
        \A j \in DOMAIN frame.tiles : InTile(frame.tiles[j], row, col) <=> j = i
  BY <1>1
<1>3. ASSUME InHand(row, col), Later(row, col) PROVE FALSE
  <2>1. tile = i
    BY <1>2, <1>3 DEF InHand, Tile
  <2>2. PICK j \in DOMAIN frame.tiles : j > tile /\ InTile(frame.tiles[j], row, col)
    BY <1>3 DEF Later
  <2>3. tile \in Nat
    BY DEF WalkInv
  <2> QED BY <1>2, <2>1, <2>2, <2>3
<1> QED BY <1>2, <1>3

(* A superblock of a tile: its cells in the frame are the tile's own.      *)
LEMMA RootCells ==
  ASSUME WalkInv, tile \in DOMAIN frame.tiles,
         NEW top \in Nat, top % frame.mib = 0, Tile.top <= top, top < Tile.bottom,
         NEW start \in Nat, start % frame.mib = 0, Tile.left <= start, start < Tile.right,
         NEW row \in 0 .. frame.rows - 1, NEW col \in 0 .. frame.cols - 1
  PROVE  /\ Over(NodeCall(top, start, frame.mib), row, col) <=>
              InRect(row, col, top, start, frame.mib, frame.mib)
         /\ InRect(row, col, top, start, frame.mib, frame.mib) => InTile(Tile, row, col)
<1>1. /\ Tile.top \in Nat /\ Tile.bottom \in Nat /\ Tile.left \in Nat /\ Tile.right \in Nat
      /\ Tile.bottom % frame.mib = 0 \/ Tile.bottom = frame.rows
      /\ Tile.right % frame.mib = 0 \/ Tile.right = frame.cols
      /\ frame.rows \in Nat /\ frame.cols \in Nat /\ frame.mib \in Nat
  BY TileTypes, FrameTypes
<1>2. /\ row \in Int /\ col \in Int /\ top \in Int /\ start \in Int
      /\ row < frame.rows /\ col < frame.cols
  BY <1>1
<1>3. Over(NodeCall(top, start, frame.mib), row, col) <=>
        InRect(row, col, top, start, frame.mib, frame.mib)
  BY <1>1, <1>2, OverNode, Zenon
<1>4. /\ top + frame.mib <= Tile.bottom \/ Tile.bottom = frame.rows
      /\ start + frame.mib <= Tile.right \/ Tile.right = frame.cols
  BY <1>1, MibValues, GridStep
<1>5. InRect(row, col, top, start, frame.mib, frame.mib) =>
        /\ row >= Tile.top /\ row < Tile.bottom
        /\ col >= Tile.left /\ col < Tile.right
  BY <1>1, <1>2, <1>4 DEF InRect
<1> QED BY <1>1, <1>2, <1>3, <1>5 DEF InTile

(* The first superblock of a row: of the cells that wait for this row and  *)
(* the ones below, its own are called.                                     *)
LEMMA FirstOfRow ==
  ASSUME WalkInv, NEW row \in 0 .. frame.rows - 1, NEW col \in 0 .. frame.cols - 1,
         Owned(row, col), StartRow
  PROVE  Owned(row, col)'
<1>1. /\ pc = "row" /\ pc' = "walk" /\ sbRow < Tile.bottom /\ sbCol' = Tile.left
      /\ todo' = <<NodeCall(sbRow, Tile.left, frame.mib)>>
      /\ UNCHANGED <<frame, tile, sbRow, blocks>>
  BY DEF StartRow, blockVars
<1>2. /\ tile \in DOMAIN frame.tiles /\ sbRow \in Nat
      /\ sbRow % frame.mib = 0 /\ Tile.top <= sbRow /\ todo = <<>>
  <2>1. /\ tile \in DOMAIN frame.tiles /\ sbRow \in Nat
        /\ sbRow % frame.mib = 0 /\ sbRow >= Tile.top /\ todo = <<>>
    BY <1>1 DEF WalkInv, WalkPlace
  <2>2. Tile.top \in Nat
    BY <2>1, TileTypes
  <2> QED BY <2>1, <2>2
<1>3. /\ Tile.left \in Nat /\ Tile.left % frame.mib = 0 /\ Tile.left < Tile.right
      /\ Tile.left <= Tile.left /\ frame.mib \in Nat /\ frame.rows \in Nat /\ frame.cols \in Nat
  BY <1>2, TileTypes, FrameTypes
<1> DEFINE root == NodeCall(sbRow, Tile.left, frame.mib)
           inRoot == InRect(row, col, sbRow, Tile.left, frame.mib, frame.mib)
<1>4. (Over(root, row, col) <=> inRoot) /\ (inRoot => InTile(Tile, row, col))
  BY <1>1, <1>2, <1>3, RootCells
<1>5. /\ Singly(<<root>>, row, col)
      /\ Called(<<root>>, row, col) <=> Over(root, row, col)
  BY OneCall
<1>6. /\ ~Called(todo, row, col)
      /\ Ahead(row, col) <=> ~Blocked(row, col)
      /\ BlockedOnce(row, col)
  BY <1>2, NoCalls DEF Owned
<1>7. /\ Later(row, col)' <=> Later(row, col)
      /\ InHand(row, col)' <=> InTile(Tile, row, col)
      /\ InHand(row, col) <=> InTile(Tile, row, col)
      /\ Blocked(row, col)' <=> Blocked(row, col)
      /\ BlockedOnce(row, col)'
  BY <1>1, <1>2, <1>6 DEF Later, InHand, Blocked, BlockedOnce, Tile
<1>8. InTile(Tile, row, col) =>
        /\ Waits(row, col) <=> row >= sbRow
        /\ Waits(row, col)' <=> row >= sbRow /\ ~inRoot
  <2>1. /\ Waits(row, col) <=> row >= sbRow
        /\ Waits(row, col)' <=>
             row >= sbRow + frame.mib \/ (row >= sbRow /\ col >= Tile.left + frame.mib)
    BY <1>1 DEF Waits
  <2>2. InTile(Tile, row, col) => col >= Tile.left
    BY <1>3, <1>2, TileTypes DEF InTile
  <2>3. row \in Int /\ col \in Int
    BY <1>3
  <2>4. col >= Tile.left =>
          ((row >= sbRow + frame.mib \/ (row >= sbRow /\ col >= Tile.left + frame.mib))
             <=> (row >= sbRow /\ ~inRoot))
    <3>1. \A i, j, top, start \in Int, m \in Nat :
            j >= start =>
              ((i >= top + m \/ (i >= top /\ j >= start + m))
                 <=> (i >= top /\ ~InRect(i, j, top, start, m, m)))
      BY DEF InRect
    <3>2. sbRow \in Int /\ Tile.left \in Int /\ frame.mib \in Nat
      BY <1>2, <1>3
    <3> QED BY <2>3, <3>1, <3>2, Zenon
  <2> HIDE DEF inRoot
  <2> QED BY <2>1, <2>2, <2>4
<1>9. inRoot => row >= sbRow
  BY DEF InRect
<1>10. InHand(row, col) => ~Later(row, col)
  BY CellInTile
<1>11. /\ Singly(todo, row, col)'
       /\ Called(todo, row, col)' <=> inRoot
  BY <1>1, <1>4, <1>5
<1> HIDE DEF inRoot, root
<1>12. /\ Ahead(row, col)' <=>
            \/ Later(row, col)
            \/ InTile(Tile, row, col) /\ row >= sbRow /\ ~inRoot
       /\ Ahead(row, col) <=> Later(row, col) \/ (InTile(Tile, row, col) /\ row >= sbRow)
  BY <1>7, <1>8 DEF Ahead
<1> QED BY <1>4, <1>6, <1>7, <1>9, <1>10, <1>11, <1>12 DEF Owned

(* The next superblock of a row, or the row below. *)
LEMMA NextOfRow ==
  ASSUME WalkInv, NEW row \in 0 .. frame.rows - 1, NEW col \in 0 .. frame.cols - 1,
         Owned(row, col), NextSuperblock
  PROVE  Owned(row, col)'
<1>1. /\ pc = "walk" /\ todo = <<>>
      /\ UNCHANGED <<frame, tile, blocks>>
      /\ IF sbCol + frame.mib < Tile.right
         THEN /\ pc' = "walk" /\ sbCol' = sbCol + frame.mib /\ sbRow' = sbRow
              /\ todo' = <<NodeCall(sbRow, sbCol + frame.mib, frame.mib)>>
         ELSE pc' = "row" /\ sbRow' = sbRow + frame.mib /\ todo' = todo
  BY DEF NextSuperblock, blockVars
<1>2. /\ tile \in DOMAIN frame.tiles /\ sbRow \in Nat /\ sbCol \in Nat
      /\ sbRow % frame.mib = 0 /\ sbCol % frame.mib = 0
      /\ sbRow >= Tile.top /\ sbRow < Tile.bottom /\ sbCol >= Tile.left
  BY <1>1 DEF WalkInv, WalkPlace
<1>3. /\ Tile.top \in Nat /\ Tile.left \in Nat /\ Tile.bottom \in Nat /\ Tile.right \in Nat
      /\ frame.mib \in Nat /\ row \in Int /\ col \in Int
      /\ sbRow \in Int /\ sbCol + frame.mib \in Nat /\ sbCol + frame.mib \in Int
      /\ Tile.left <= sbCol + frame.mib /\ Tile.top <= sbRow
  <2>1. /\ Tile.top \in Nat /\ Tile.left \in Nat /\ Tile.bottom \in Nat /\ Tile.right \in Nat
        /\ frame.mib \in Nat
    BY <1>2, TileTypes, FrameTypes
  <2>2. /\ sbRow \in Nat /\ sbCol \in Nat /\ sbRow >= Tile.top /\ sbCol >= Tile.left
    BY <1>2
  <2> QED BY <2>1, <2>2
<1>4. /\ ~Called(todo, row, col)
      /\ Ahead(row, col) <=> ~Blocked(row, col)
      /\ BlockedOnce(row, col)
  BY <1>1, NoCalls DEF Owned
<1>5. /\ Later(row, col)' <=> Later(row, col)
      /\ InHand(row, col)' <=> InTile(Tile, row, col)
      /\ InHand(row, col) <=> InTile(Tile, row, col)
      /\ Blocked(row, col)' <=> Blocked(row, col)
      /\ BlockedOnce(row, col)'
  BY <1>1, <1>2, <1>4 DEF Later, InHand, Blocked, BlockedOnce, Tile
<1>6. InHand(row, col) => ~Later(row, col)
  BY CellInTile
<1>7. Waits(row, col) <=>
        row >= sbRow + frame.mib \/ (row >= sbRow /\ col >= sbCol + frame.mib)
  BY <1>1 DEF Waits
<1>8. CASE sbCol + frame.mib < Tile.right
  <2> DEFINE root == NodeCall(sbRow, sbCol + frame.mib, frame.mib)
             inRoot == InRect(row, col, sbRow, sbCol + frame.mib, frame.mib, frame.mib)
  <2>1. (Over(root, row, col) <=> inRoot) /\ (inRoot => InTile(Tile, row, col))
    <3>1. (sbCol + frame.mib) % frame.mib = 0
      BY <1>2, MibValues, GridStep
    <3> QED BY <1>2, <1>3, <1>8, <3>1, RootCells
  <2>2. /\ Singly(<<root>>, row, col)
        /\ Called(<<root>>, row, col) <=> Over(root, row, col)
    BY OneCall
  <2>3. /\ pc' = "walk" /\ sbCol' = sbCol + frame.mib /\ sbRow' = sbRow
        /\ todo' = <<root>> /\ frame' = frame
    BY <1>1, <1>8
  <2>4. /\ Singly(todo, row, col)'
        /\ Called(todo, row, col)' <=> inRoot
    BY <2>1, <2>2, <2>3
  <2>5. Waits(row, col)' <=>
          \/ row >= sbRow + frame.mib
          \/ row >= sbRow /\ col >= (sbCol + frame.mib) + frame.mib
    BY <2>3 DEF Waits
  <2>6. Waits(row, col)' <=> Waits(row, col) /\ ~inRoot
    <3>1. \A i, j, top, start \in Int, m \in Nat :
            (i >= top + m \/ (i >= top /\ j >= start + m))
              <=> ((i >= top + m \/ (i >= top /\ j >= start))
                     /\ ~InRect(i, j, top, start, m, m))
      BY DEF InRect
    <3>2. \/ row >= sbRow + frame.mib
          \/ row >= sbRow /\ col >= (sbCol + frame.mib) + frame.mib
          <=> /\ row >= sbRow + frame.mib \/ (row >= sbRow /\ col >= sbCol + frame.mib)
              /\ ~inRoot
      BY <1>3, <3>1, Zenon
    <3> HIDE DEF inRoot
    <3> QED BY <1>7, <2>5, <3>2
  <2>7. inRoot => Waits(row, col)
    BY <1>3, <1>7 DEF InRect
  <2> HIDE DEF inRoot, root
  <2>8. /\ Ahead(row, col)' <=>
             Later(row, col) \/ (InTile(Tile, row, col) /\ Waits(row, col) /\ ~inRoot)
        /\ Ahead(row, col) <=> Later(row, col) \/ (InTile(Tile, row, col) /\ Waits(row, col))
    BY <1>5, <2>6 DEF Ahead
  <2> QED BY <1>4, <1>5, <1>6, <2>1, <2>4, <2>7, <2>8 DEF Owned
<1>9. CASE ~(sbCol + frame.mib < Tile.right)
  <2>1. pc' = "row" /\ sbRow' = sbRow + frame.mib /\ todo' = todo /\ todo = <<>>
    BY <1>1, <1>9
  <2>2. InTile(Tile, row, col) => col < sbCol + frame.mib
    BY <1>3, <1>9 DEF InTile
  <2>3. Waits(row, col)' <=> row >= sbRow + frame.mib
    BY <2>1 DEF Waits
  <2>4. InTile(Tile, row, col) => (Waits(row, col) <=> row >= sbRow + frame.mib)
    <3>1. col < sbCol + frame.mib => ~(col >= sbCol + frame.mib)
      BY <1>3
    <3> QED BY <1>7, <2>2, <3>1, Zenon
  <2>5. Ahead(row, col)' <=> Ahead(row, col)
    BY <1>5, <2>3, <2>4 DEF Ahead
  <2>6. Singly(todo, row, col)' /\ ~Called(todo, row, col)'
    BY <2>1, NoCalls
  <2> QED BY <1>4, <1>5, <2>5, <2>6 DEF Owned
<1> QED BY <1>8, <1>9

(* A step that stays at its superblock and leaves the blocks, and for the  *)
(* cell the calls, as they were.                                           *)
LEMMA SameOwner ==
  ASSUME WalkInv, NEW row \in 0 .. frame.rows - 1, NEW col \in 0 .. frame.cols - 1,
         Owned(row, col), UNCHANGED <<frame, pc, tile, sbRow, sbCol, blocks>>,
         Singly(todo, row, col)',
         Called(todo, row, col)' <=> Called(todo, row, col)
  PROVE  Owned(row, col)'
<1>1. /\ Ahead(row, col)' <=> Ahead(row, col)
      /\ Blocked(row, col)' <=> Blocked(row, col)
      /\ BlockedOnce(row, col)' <=> BlockedOnce(row, col)
  BY DEF Ahead, Later, InHand, Waits, Blocked, BlockedOnce, Tile
<1> QED BY <1>1 DEF Owned

(* decode_partition replaces a square of the frame by its parts. *)
LEMMA PartsOwn ==
  ASSUME WalkInv, NEW row \in 0 .. frame.rows - 1, NEW col \in 0 .. frame.cols - 1,
         Owned(row, col), ReadPartition, ~corrupt'
  PROVE  Owned(row, col)'
<1>1. /\ todo # <<>> /\ Call.do = "node" /\ ~OutOfFrame
      /\ UNCHANGED <<frame, pc, tile, sbRow, sbCol, blocks>>
  BY DEF ReadPartition, At, blockVars
<1>2. /\ Call \in NodeCalls /\ Tail(todo) \in Seq(AnyCall) /\ todo \in Seq(AnyCall)
      /\ Call = Head(todo)
  BY <1>1, CallTypes DEF WalkInv, Call
<1>3. PICK top \in Nat, start \in Nat, size \in Squares :
        /\ Call = NodeCall(top, start, size)
        /\ Call.row = top /\ Call.col = start /\ Call.size = size
        /\ EvenLength(top, size) /\ EvenLength(start, size)
  BY <1>2 DEF NodeCalls, NodeCall
<1>4. PICK p \in Partitions(top, start, size) :
        todo' = Calls(top, start, size, p) \o <<StampCall(top, start, size, p)>> \o Tail(todo)
  <2>1. \E p \in Partitions(Call.row, Call.col, Call.size) :
          todo' = Calls(Call.row, Call.col, Call.size, p)
                    \o <<StampCall(Call.row, Call.col, Call.size, p)>> \o Tail(todo)
    BY DEF ReadPartition
  <2>2. Call.row = top /\ Call.col = start /\ Call.size = size
    BY <1>3
  <2> QED BY <2>1, <2>2
<1>5. /\ frame.rows \in Nat /\ frame.cols \in Nat
      /\ row \in Nat /\ row < frame.rows /\ col \in Nat /\ col < frame.cols
      /\ row \in Int /\ col \in Int /\ top \in Int /\ start \in Int /\ size \in Nat
  BY FrameTypes DEF Squares
<1>6. top < frame.rows /\ start < frame.cols
  <2>1. ~ (top >= frame.rows) /\ ~ (start >= frame.cols)
    BY <1>1, <1>3, Zenon DEF OutOfFrame
  <2> QED BY <1>5, <2>1
<1>7. PICK calls : calls = Calls(top, start, size, p)
  OBVIOUS
<1>8. /\ calls \in Seq(AnyCall) /\ Singly(calls, row, col)
      /\ Called(calls, row, col) <=> InRect(row, col, top, start, size, size)
  <2>1. calls \in Seq(AnyCall)
    BY <1>3, <1>5, <1>6, <1>7, CallsStartInFrame
  <2>2. /\ Singly(Calls(top, start, size, p), row, col)
        /\ Called(Calls(top, start, size, p), row, col) <=>
             InRect(row, col, top, start, size, size)
    BY <1>5, CallsCover
  <2> QED BY <1>7, <2>1, <2>2
<1>9. InRect(row, col, top, start, size, size) <=> Over(Head(todo), row, col)
  <2>1. Over(NodeCall(top, start, size), row, col) <=>
          InRect(row, col, top, start, size, size)
    BY <1>5, OverNode, Zenon
  <2>2. Head(todo) = NodeCall(top, start, size)
    BY <1>2, <1>3
  <2> QED BY <2>1, <2>2
<1>10. PICK rest : rest = Tail(todo)
  OBVIOUS
<1>11. /\ rest \in Seq(AnyCall) /\ Singly(rest, row, col)
       /\ Called(todo, row, col) <=> Over(Head(todo), row, col) \/ Called(rest, row, col)
       /\ ~ (Over(Head(todo), row, col) /\ Called(rest, row, col))
  BY <1>1, <1>2, <1>10, FirstCall DEF Owned
<1>12. PICK stamp : stamp = StampCall(top, start, size, p)
  OBVIOUS
<1>13. /\ <<stamp>> \in Seq(AnyCall) /\ Singly(<<stamp>>, row, col)
       /\ ~Called(<<stamp>>, row, col)
  <2>1. stamp \in AnyCall
    BY <1>5, <1>12, SubsizeType DEF StampCall, StampCalls, AnyCall
  <2>2. ~Over(stamp, row, col)
    BY <1>12 DEF StampCall, Over
  <2> QED BY <2>1, <2>2, OneCall
<1>14. PICK one : one = <<stamp>>
  OBVIOUS
<1>15. PICK stamped : stamped = calls \o one
  OBVIOUS
<1>16. /\ stamped \in Seq(AnyCall) /\ Singly(stamped, row, col)
       /\ Called(stamped, row, col) <=> Called(calls, row, col)
  <2>1. /\ one \in Seq(AnyCall) /\ Singly(one, row, col) /\ ~Called(one, row, col)
    BY <1>13, <1>14
  <2> QED BY <1>8, <1>15, <2>1, JoinCalls
<1>17. ~ (Called(stamped, row, col) /\ Called(rest, row, col))
  BY <1>8, <1>9, <1>11, <1>16
<1>18. /\ Singly(stamped \o rest, row, col)
       /\ Called(stamped \o rest, row, col) <=>
            Called(stamped, row, col) \/ Called(rest, row, col)
  BY <1>11, <1>16, <1>17, JoinCalls
<1>19. todo' = stamped \o rest
  BY <1>4, <1>7, <1>10, <1>12, <1>14, <1>15, Zenon
<1>20. /\ Singly(todo, row, col)'
       /\ Called(todo, row, col)' <=> Called(todo, row, col)
  BY <1>8, <1>9, <1>11, <1>16, <1>18, <1>19
<1> QED BY <1>1, <1>20, SameOwner

(* decode_block: the block takes its cells over from the call.             *)
LEMMA BlockOwns ==
  ASSUME WalkInv, NEW row \in 0 .. frame.rows - 1, NEW col \in 0 .. frame.cols - 1,
         Owned(row, col), DecodeBlock
  PROVE  Owned(row, col)'
<1>1. /\ todo # <<>> /\ Call.do = "block" /\ todo' = Tail(todo)
      /\ UNCHANGED <<frame, pc, tile, sbRow, sbCol>>
  BY DEF DecodeBlock, At
<1>2. PICK b :
        /\ blocks' = Append(blocks, b)
        /\ b.row = Call.row /\ b.col = Call.col /\ b.w = Call.w /\ b.h = Call.h
  <2>1. PICK skip \in {FALSE, frame.skips}, strength \in BOOLEAN :
          blocks' = Append(blocks,
            [row |-> Call.row, col |-> Call.col, w |-> Call.w, h |-> Call.h,
             tile |-> tile, skip |-> skip, strength |-> strength])
    BY DEF DecodeBlock
  <2> DEFINE made == [row |-> Call.row, col |-> Call.col, w |-> Call.w, h |-> Call.h,
                      tile |-> tile, skip |-> skip, strength |-> strength]
  <2>2. made.row = Call.row /\ made.col = Call.col /\ made.w = Call.w /\ made.h = Call.h
    OBVIOUS
  <2>3. blocks' = Append(blocks, made)
    BY <2>1
  <2> HIDE DEF made
  <2> QED BY <2>2, <2>3
<1>3. Covers(b, row, col) <=> Over(Head(todo), row, col)
  BY <1>1, <1>2 DEF Covers, Over, Call
<1>4. PICK n \in Nat :
        /\ DOMAIN blocks = 1 .. n /\ DOMAIN blocks' = 1 .. n + 1
        /\ \A k \in 1 .. n : blocks'[k] = blocks[k]
        /\ blocks'[n + 1] = b
  <2>1. blocks \in Seq(Decodeds)
    BY DEF WalkInv
  <2>2. PICK n \in Nat : n = Len(blocks) /\ DOMAIN blocks = 1 .. n
    BY <2>1, LenProperties
  <2>3. /\ DOMAIN Append(blocks, b) = 1 .. n + 1
        /\ \A k \in 1 .. n : Append(blocks, b)[k] = blocks[k]
        /\ Append(blocks, b)[n + 1] = b
    BY <2>1, <2>2
  <2> QED BY <1>2, <2>2, <2>3
<1>5. /\ todo \in Seq(AnyCall)
      /\ Singly(Tail(todo), row, col)
      /\ Called(todo, row, col) <=>
           Over(Head(todo), row, col) \/ Called(Tail(todo), row, col)
      /\ ~ (Over(Head(todo), row, col) /\ Called(Tail(todo), row, col))
  BY <1>1, FirstCall DEF Owned, WalkInv
<1>6. /\ Singly(todo, row, col)'
      /\ Called(todo, row, col)' <=> Called(Tail(todo), row, col)
  BY <1>1, <1>5
<1>7. 1 .. n + 1 = (1 .. n) \union {n + 1} /\ n + 1 \notin 1 .. n
  OBVIOUS
<1>8. Blocked(row, col)' <=> Blocked(row, col) \/ Covers(b, row, col)
  BY <1>4, <1>7 DEF Blocked
<1>9. ~ (Blocked(row, col) /\ Covers(b, row, col)) => BlockedOnce(row, col)'
  <2> SUFFICES ASSUME ~ (Blocked(row, col) /\ Covers(b, row, col)),
                      NEW k \in 1 .. n + 1, NEW l \in 1 .. n + 1,
                      Covers(blocks'[k], row, col), Covers(blocks'[l], row, col)
               PROVE  k = l
    BY <1>4 DEF BlockedOnce
  <2>1. CASE k \in 1 .. n /\ l \in 1 .. n
    BY <1>4, <2>1 DEF Owned, BlockedOnce
  <2>2. ASSUME NEW i \in 1 .. n, Covers(blocks'[i], row, col),
               Covers(blocks'[n + 1], row, col)
        PROVE  FALSE
    BY <1>4, <2>2 DEF Blocked
  <2> QED BY <1>7, <2>1, <2>2
<1>10. Ahead(row, col)' <=> Ahead(row, col)
  BY <1>1 DEF Ahead, Later, InHand, Waits, Tile
<1> QED BY <1>3, <1>5, <1>6, <1>8, <1>9, <1>10 DEF Owned

LEMMA CellsInit == Init => CellsInv
<1> SUFFICES ASSUME Init, NEW row \in 0 .. frame.rows - 1, NEW col \in 0 .. frame.cols - 1
             PROVE  Owned(row, col)
  BY DEF CellsInv
<1>1. WalkInv /\ pc = "tiles" /\ tile = 1 /\ todo = <<>> /\ blocks = <<>>
  BY WalkInit DEF Init
<1>2. Singly(todo, row, col) /\ ~Called(todo, row, col)
  BY <1>1, NoCalls
<1>3. BlockedOnce(row, col) /\ ~Blocked(row, col)
  <2>1. DOMAIN blocks = {}
    BY <1>1
  <2> QED BY <2>1 DEF BlockedOnce, Blocked
<1>4. Ahead(row, col)
  <2>1. frame.tiles \in Seq([top : Nat, bottom : Nat, left : Nat, right : Nat])
    BY <1>1, FrameTypes
  <2>2. PICK i \in DOMAIN frame.tiles : InTile(frame.tiles[i], row, col)
    BY <1>1, CellInTile
  <2>3. i \in Nat /\ i >= 1
    <3>1. DOMAIN frame.tiles = 1 .. Len(frame.tiles)
      BY <2>1, LenProperties
    <3> QED BY <3>1
  <2>4. i = tile \/ i > tile
    BY <1>1, <2>3
  <2> QED BY <1>1, <2>2, <2>4 DEF Ahead, Later, InHand, Waits, Tile
<1> QED BY <1>2, <1>3, <1>4 DEF Owned

(* Between tiles and rows no call is left and no cell changes hands.       *)
LEMMA BetweenRows ==
  ASSUME WalkInv, NEW row \in 0 .. frame.rows - 1, NEW col \in 0 .. frame.cols - 1,
         Owned(row, col), StartTile \/ TilesDone \/ RowsDone
  PROVE  Owned(row, col)'
<1>1. /\ pc # "walk" /\ pc' # "walk" /\ todo = <<>> /\ todo' = <<>>
      /\ UNCHANGED <<frame, blocks>>
  BY DEF StartTile, TilesDone, RowsDone, EndTile, blockVars, WalkInv, WalkPlace
<1>2. /\ ~Called(todo, row, col) /\ Singly(todo, row, col)'
      /\ ~Called(todo, row, col)'
  BY <1>1, NoCalls
<1>3. /\ Blocked(row, col)' <=> Blocked(row, col)
      /\ BlockedOnce(row, col)' <=> BlockedOnce(row, col)
  BY <1>1 DEF Blocked, BlockedOnce
<1>4. /\ frame.tiles \in Seq([top : Nat, bottom : Nat, left : Nat, right : Nat])
      /\ DOMAIN frame.tiles = 1 .. Len(frame.tiles) /\ Len(frame.tiles) \in Nat
      /\ tile \in Nat \ {0} /\ row \in Int /\ frame.rows \in Nat
  BY FrameTypes, LenProperties DEF WalkInv
<1>5. CASE StartTile
  <2>1. /\ pc = "tiles" /\ pc' = "row" /\ tile' = tile /\ sbRow' = Tile.top
        /\ tile \in DOMAIN frame.tiles
    BY <1>4, <1>5 DEF StartTile
  <2>2. InHand(row, col) => row >= Tile.top
    BY <1>4, <2>1, TileTypes DEF InHand, InTile
  <2>3. /\ Waits(row, col) /\ (Waits(row, col)' <=> row >= Tile.top)
        /\ Later(row, col)' <=> Later(row, col)
        /\ InHand(row, col)' <=> InHand(row, col)
    BY <1>1, <2>1 DEF Waits, Later, InHand, Tile
  <2>4. Ahead(row, col)' <=> Ahead(row, col)
    BY <2>2, <2>3 DEF Ahead
  <2> QED BY <1>2, <1>3, <2>4 DEF Owned
<1>6. CASE TilesDone
  <2>1. tile' = tile /\ tile > Len(frame.tiles)
    BY <1>6 DEF TilesDone, tileVars
  <2>2. tile \notin DOMAIN frame.tiles
    BY <1>4, <2>1
  <2>3. /\ ~InHand(row, col) /\ ~InHand(row, col)'
        /\ Later(row, col)' <=> Later(row, col)
    BY <1>1, <2>1, <2>2 DEF InHand, Later
  <2>4. Ahead(row, col)' <=> Ahead(row, col)
    BY <2>3 DEF Ahead
  <2> QED BY <1>2, <1>3, <2>4 DEF Owned
<1>7. CASE RowsDone
  <2>1. /\ pc = "row" /\ pc' = "tiles" /\ tile' = tile + 1 /\ sbRow >= Tile.bottom
        /\ sbRow \in Nat /\ tile \in DOMAIN frame.tiles
    BY <1>7 DEF RowsDone, EndTile, WalkInv, WalkPlace
  <2>2. ~ (InHand(row, col) /\ Waits(row, col))
    <3>1. Tile.bottom \in Nat /\ Tile.top \in Nat
      BY <2>1, TileTypes
    <3>2. Waits(row, col) => row >= sbRow
      BY <2>1 DEF Waits
    <3>3. InHand(row, col) => row < Tile.bottom
      BY <1>4, <3>1 DEF InHand, InTile
    <3>4. row < Tile.bottom => ~ (row >= sbRow)
      BY <1>4, <2>1, <3>1
    <3> QED BY <3>2, <3>3, <3>4
  <2>3. Waits(row, col)'
    BY <2>1 DEF Waits
  <2>4. Later(row, col) <=> Later(row, col)' \/ InHand(row, col)'
    <3>1. \A i \in DOMAIN frame.tiles : (i > tile) <=> (i > tile + 1 \/ i = tile + 1)
      <4>1. \A i, t \in Int : (i > t) <=> (i > t + 1 \/ i = t + 1)
        OBVIOUS
      <4>2. tile \in Int /\ \A i \in DOMAIN frame.tiles : i \in Int
        BY <1>4
      <4> QED BY <4>1, <4>2, Zenon
    <3>2. /\ Later(row, col)' <=>
               \E i \in DOMAIN frame.tiles : i > tile + 1 /\ InTile(frame.tiles[i], row, col)
          /\ InHand(row, col)' <=> tile + 1 \in DOMAIN frame.tiles
                                     /\ InTile(frame.tiles[tile + 1], row, col)
      BY <1>1, <2>1 DEF Later, InHand, Tile
    <3> QED BY <3>1, <3>2 DEF Later
  <2>5. Ahead(row, col)' <=> Ahead(row, col)
    BY <2>2, <2>3, <2>4 DEF Ahead
  <2> QED BY <1>2, <1>3, <2>5 DEF Owned
<1> QED BY <1>5, <1>6, <1>7

LEMMA CellsStep == WalkInv /\ CellsInv /\ [Next]_vars => CellsInv'
<1> SUFFICES ASSUME WalkInv, CellsInv, [Next]_vars, ~corrupt', ~cancelled',
                    NEW row \in 0 .. frame'.rows - 1, NEW col \in 0 .. frame'.cols - 1
             PROVE  Owned(row, col)'
  BY DEF CellsInv
<1>1. frame' = frame
  BY DEF Next, FireStop, StartTile, CancelAtTile, TilesDone, StartRow, CancelAtRow, RowsDone,
     NextSuperblock, GiveUp, SkipNode, ReadPartition, StampContext, SkipBlock, CorruptBlock,
     DecodeBlock, Returned, vars
<1>2. ~corrupt /\ ~cancelled
  <2>1. CASE CancelAtTile \/ CancelAtRow
    BY <2>1 DEF CancelAtTile, CancelAtRow
  <2>2. CASE ReadPartition \/ CorruptBlock
    <3>1. ~corrupt /\ cancelled' = cancelled
      BY <2>2 DEF ReadPartition, CorruptBlock
    <3> QED BY <3>1
  <2>3. CASE FireStop \/ StartTile \/ TilesDone \/ StartRow \/ RowsDone \/ NextSuperblock \/ GiveUp
             \/ SkipNode \/ StampContext \/ SkipBlock \/ DecodeBlock \/ Returned \/ UNCHANGED vars
    <3>1. corrupt' = corrupt /\ cancelled' = cancelled
      BY <2>3 DEF FireStop, StartTile, TilesDone, StartRow, RowsDone, NextSuperblock, GiveUp,
         SkipNode, StampContext, SkipBlock, DecodeBlock, Returned, vars, endVars
    <3> QED BY <3>1
  <2> QED BY <2>1, <2>2, <2>3 DEF Next
<1>3. /\ row \in 0 .. frame.rows - 1 /\ col \in 0 .. frame.cols - 1
      /\ Owned(row, col)
  BY <1>1, <1>2 DEF CellsInv
<1>4. CASE FireStop \/ Returned \/ UNCHANGED vars
  <2>1. UNCHANGED <<frame, pc, tile, sbRow, sbCol, blocks, todo>>
    BY <1>4 DEF FireStop, Returned, vars, tileVars, blockVars
  <2>2. Singly(todo, row, col)' /\ (Called(todo, row, col)' <=> Called(todo, row, col))
    BY <1>3, <2>1 DEF Owned
  <2> QED BY <1>3, <2>1, <2>2, SameOwner
<1>5. CASE StartTile \/ TilesDone \/ RowsDone
  BY <1>3, <1>5, BetweenRows
<1>6. CASE StartRow
  BY <1>3, <1>6, FirstOfRow
<1>7. CASE NextSuperblock
  BY <1>3, <1>7, NextOfRow
<1>8. CASE SkipNode \/ StampContext
  <2>1. /\ todo # <<>> /\ todo' = Tail(todo)
        /\ UNCHANGED <<frame, pc, tile, sbRow, sbCol, blocks>>
    BY <1>8 DEF SkipNode, StampContext, At, tileVars, blockVars
  <2>2. /\ todo \in Seq(AnyCall) /\ frame.rows \in Nat /\ frame.cols \in Nat
        /\ row < frame.rows /\ col < frame.cols /\ row \in Int /\ col \in Int
    <3>1. todo \in Seq(AnyCall) /\ frame.rows \in Nat /\ frame.cols \in Nat
      BY FrameTypes DEF WalkInv
    <3> QED BY <1>3, <3>1
  <2>3. ~Over(Head(todo), row, col)
    <3>1. CASE SkipNode
      <4>1. Call.do = "node" /\ OutOfFrame
        BY <1>2, <3>1 DEF SkipNode, At
      <4>2. PICK top \in Nat, start \in Nat, size \in Squares :
              Call.row = top /\ Call.col = start /\ Call.size = size
        BY <2>1, <4>1, CallTypes DEF NodeCalls
      <4>3. top >= frame.rows \/ start >= frame.cols
        BY <4>1, <4>2 DEF OutOfFrame
      <4>4. size \in Nat
        BY DEF Squares
      <4>5. ~ (row \in top .. top + size - 1 /\ col \in start .. start + size - 1)
        BY <2>2, <4>3, <4>4
      <4> QED BY <4>1, <4>2, <4>5 DEF Over, Call
    <3>2. CASE StampContext
      BY <3>2 DEF StampContext, At, Over, Call
    <3> QED BY <1>8, <3>1, <3>2
  <2>4. Singly(Tail(todo), row, col) /\ (Called(Tail(todo), row, col) <=> Called(todo, row, col))
    BY <1>3, <2>1, <2>2, <2>3, FirstCall DEF Owned
  <2>5. Singly(todo, row, col)' /\ (Called(todo, row, col)' <=> Called(todo, row, col))
    BY <2>1, <2>4
  <2> QED BY <1>3, <2>1, <2>5, SameOwner
<1>9. CASE ReadPartition
  BY <1>3, <1>9, PartsOwn
<1>10. CASE DecodeBlock
  BY <1>3, <1>10, BlockOwns
<1>11. CASE CancelAtTile \/ CancelAtRow \/ GiveUp \/ SkipBlock \/ CorruptBlock
  BY <1>2, <1>11 DEF CancelAtTile, CancelAtRow, GiveUp, SkipBlock, CorruptBlock
<1> QED
  BY <1>4, <1>5, <1>6, <1>7, <1>8, <1>9, <1>10, <1>11 DEF Next

-----------------------------------------------------------------------------
(* The chroma sample groups.  Of the cells a group stands for, it is in    *)
(* the chroma of the block that holds the last one, and of no other.       *)
LastCell(x, ss) == IF ss = 1 THEN 2 * x + 1 ELSE x

LEMMA LastCellInFrame ==
  ASSUME NEW cells \in Nat, cells % 2 = 0, NEW ss \in {0, 1},
         NEW group \in 0 .. cells \div (1 + ss) - 1
  PROVE  group \in Nat /\ LastCell(group, ss) \in 0 .. cells - 1
<1>1. PICK m \in Nat : cells = 2 * m
  OBVIOUS
<1>2. CASE ss = 0
  <2>1. cells \div (1 + ss) = cells
    BY <1>2
  <2> QED BY <1>2, <2>1 DEF LastCell
<1>3. CASE ss = 1
  <2>1. cells \div (1 + ss) = m
    BY <1>1, <1>3
  <2>2. group \in 0 .. m - 1
    BY <2>1
  <2> QED BY <1>1, <1>3, <2>2 DEF LastCell
<1> QED BY <1>2, <1>3

LEMMA ChromaOfLine ==
  ASSUME NEW x \in Nat, NEW length \in Nat, EvenLength(x, length),
         NEW ss \in {0, 1}, NEW group \in Nat
  PROVE  (/\ x % 2 = 1 \/ length % 2 = 0 \/ ss = 0
          /\ group \in PlaneStart(x, length, ss)
                         .. PlaneStart(x, length, ss) + PlaneLength(length, ss) - 1)
           <=> LastCell(group, ss) \in x .. x + length - 1
<1>1. CASE ss = 0
  BY <1>1 DEF PlaneStart, PlaneLength, LastCell
<1>2. CASE ss = 1 /\ length = 1
  <2>1. /\ PlaneStart(x, length, ss) = (x - (x % 2)) \div 2 /\ PlaneLength(length, ss) = 1
        /\ LastCell(group, ss) = 2 * group + 1
    BY <1>2 DEF PlaneStart, PlaneLength, LastCell
  <2>2. x % 2 = 1 => (group = (x - (x % 2)) \div 2 <=> 2 * group + 1 = x)
    OBVIOUS
  <2>3. 2 * group + 1 = x => x % 2 = 1
    OBVIOUS
  <2>4. (x - (x % 2)) \div 2 \in Nat
    OBVIOUS
  <2>5. /\ group \in (x - (x % 2)) \div 2 .. (x - (x % 2)) \div 2 + 1 - 1
             <=> group = (x - (x % 2)) \div 2
        /\ 2 * group + 1 \in x .. x + 1 - 1 <=> 2 * group + 1 = x
    BY <2>4
  <2> QED BY <1>2, <2>1, <2>2, <2>3, <2>5
<1>3. CASE ss = 1 /\ length # 1
  <2>1. length % 2 = 0 /\ x % 2 = 0
    BY <1>3 DEF EvenLength
  <2>2. PICK m \in Nat, n \in Nat : x = 2 * m /\ length = 2 * n
    BY <2>1
  <2>3. /\ PlaneStart(x, length, ss) = m /\ PlaneLength(length, ss) = n
        /\ LastCell(group, ss) = 2 * group + 1
    BY <1>3, <2>2 DEF PlaneStart, PlaneLength, LastCell
  <2>4. group \in m .. m + n - 1 <=> 2 * group + 1 \in 2 * m .. 2 * m + 2 * n - 1
    OBVIOUS
  <2> QED BY <2>1, <2>2, <2>3, <2>4
<1> QED BY <1>1, <1>2, <1>3

LEMMA ChromaOfBlock ==
  ASSUME WalkInv, NEW b \in Decodeds, NEW row \in Nat, NEW col \in Nat
  PROVE  CoversChroma(b, row, col)
           <=> Covers(b, LastCell(row, frame.ssy), LastCell(col, frame.ssx))
<1>1. /\ frame.ssx \in {0, 1} /\ frame.ssy \in {0, 1}
      /\ b.row \in Nat /\ b.h \in Nat /\ b.col \in Nat /\ b.w \in Nat
      /\ EvenLength(b.row, b.h) /\ EvenLength(b.col, b.w)
  BY WalkAssumption DEF WalkInv, FrameOK, Decodeds
<1>2. (/\ b.row % 2 = 1 \/ b.h % 2 = 0 \/ frame.ssy = 0
       /\ row \in PlaneStart(b.row, b.h, frame.ssy)
                    .. PlaneStart(b.row, b.h, frame.ssy) + PlaneLength(b.h, frame.ssy) - 1)
        <=> LastCell(row, frame.ssy) \in b.row .. b.row + b.h - 1
  BY <1>1, ChromaOfLine
<1>3. (/\ b.col % 2 = 1 \/ b.w % 2 = 0 \/ frame.ssx = 0
       /\ col \in PlaneStart(b.col, b.w, frame.ssx)
                    .. PlaneStart(b.col, b.w, frame.ssx) + PlaneLength(b.w, frame.ssx) - 1)
        <=> LastCell(col, frame.ssx) \in b.col .. b.col + b.w - 1
  BY <1>1, ChromaOfLine
<1> QED BY <1>2, <1>3, Zenon DEF CoversChroma, Covers, ChromaReference

(* A cell's one block. *)
LEMMA OneBlock ==
  ASSUME WalkInv, CellsInv, Decoded,
         NEW row \in 0 .. frame.rows - 1, NEW col \in 0 .. frame.cols - 1
  PROVE  \E k \in DOMAIN blocks :
           \A l \in DOMAIN blocks : Covers(blocks[l], row, col) <=> l = k
<1>1. Owned(row, col)
  BY DEF CellsInv, Decoded
<1>2. todo = <<>> /\ tile > Len(frame.tiles) /\ tile \in Nat
  BY DEF WalkInv, WalkPlace, Decoded
<1>3. ~Called(todo, row, col)
  BY <1>2, NoCalls
<1>4. ~Ahead(row, col)
  <2>1. DOMAIN frame.tiles = 1 .. Len(frame.tiles) /\ Len(frame.tiles) \in Nat
    BY FrameTypes, LenProperties
  <2>2. \A i \in DOMAIN frame.tiles : ~(i > tile) /\ i # tile
    BY <1>2, <2>1
  <2> QED BY <2>2 DEF Ahead, Later, InHand
<1> QED BY <1>1, <1>3, <1>4 DEF Owned, Blocked, BlockedOnce

(* Of the blocks a predicate picks one out. *)
IsOnly(k, Hits) == \A l : l \in Hits <=> l = k

LEMMA OnceIndex ==
  ASSUME NEW k, NEW Hits, IsOnly(k, Hits)
  PROVE  Cardinality(Hits) = 1
<1>1. Hits = {k}
  BY DEF IsOnly
<1> QED BY <1>1, FS_Singleton

(* Whatever the partitions, the tiles, the subsampling and the size of the *)
(* frame, a frame decoded to the end has every cell of its mode-info grid  *)
(* in exactly one block, and every chroma sample group in exactly one      *)
(* block that is a chroma reference.                                       *)
THEOREM EachCellInOneBlock == Spec => []EveryCellOnce
<1>1. WalkInv /\ CellsInv => EveryCellOnce
  <2> SUFFICES ASSUME WalkInv, CellsInv, Decoded PROVE EveryCellOnce
    BY DEF EveryCellOnce
  <2>1. BlocksStartInFrame
    BY DEF WalkInv, BlocksStartInFrame, Decodeds
  <2>2. ASSUME NEW row \in 0 .. frame.rows - 1, NEW col \in 0 .. frame.cols - 1
        PROVE  Cardinality({i \in DOMAIN blocks : Covers(blocks[i], row, col)}) = 1
    <3>1. PICK k \in DOMAIN blocks :
            \A l \in DOMAIN blocks : Covers(blocks[l], row, col) <=> l = k
      BY OneBlock
    <3> DEFINE Hits == {i \in DOMAIN blocks : Covers(blocks[i], row, col)}
    <3>2. IsOnly(k, Hits)
      BY <3>1 DEF IsOnly
    <3> HIDE DEF Hits
    <3>3. Cardinality(Hits) = 1
      BY <3>2, OnceIndex, Zenon
    <3> QED BY <3>3 DEF Hits
  <2>3. ASSUME NEW row \in 0 .. frame.rows \div (1 + frame.ssy) - 1,
               NEW col \in 0 .. frame.cols \div (1 + frame.ssx) - 1
        PROVE  Cardinality({i \in DOMAIN blocks : CoversChroma(blocks[i], row, col)}) = 1
    <3>1. /\ frame.rows \in Nat /\ frame.cols \in Nat
          /\ frame.rows % 2 = 0 /\ frame.cols % 2 = 0
          /\ frame.ssx \in {0, 1} /\ frame.ssy \in {0, 1}
      BY WalkAssumption DEF WalkInv, FrameOK
    <3>2. row \in Nat /\ LastCell(row, frame.ssy) \in 0 .. frame.rows - 1
      BY <3>1, LastCellInFrame
    <3>3. col \in Nat /\ LastCell(col, frame.ssx) \in 0 .. frame.cols - 1
      BY <3>1, LastCellInFrame
    <3>4. PICK k \in DOMAIN blocks :
            \A l \in DOMAIN blocks :
              Covers(blocks[l], LastCell(row, frame.ssy), LastCell(col, frame.ssx)) <=> l = k
      BY <3>2, <3>3, OneBlock
    <3>5. \A l \in DOMAIN blocks : blocks[l] \in Decodeds
      BY DEF WalkInv
    <3>6. \A l \in DOMAIN blocks : CoversChroma(blocks[l], row, col) <=> l = k
      BY <3>2, <3>3, <3>4, <3>5, ChromaOfBlock
    <3> DEFINE Hits == {i \in DOMAIN blocks : CoversChroma(blocks[i], row, col)}
    <3>7. IsOnly(k, Hits)
      BY <3>6 DEF IsOnly
    <3> HIDE DEF Hits
    <3>8. Cardinality(Hits) = 1
      BY <3>7, OnceIndex, Zenon
    <3> QED BY <3>8 DEF Hits
  <2> QED BY <2>1, <2>2, <2>3 DEF EveryCellOnce, Once
<1> QED
  BY <1>1, WalkInit, WalkStep, CellsInit, CellsStep, PTL DEF Spec

-----------------------------------------------------------------------------
(* The order of the calls.  A call keeps to a square, on the grid of its   *)
(* own lengths; of two calls the later one is behind the earlier one, or   *)
(* behind a square of the grid that the earlier one keeps to: it begins    *)
(* not above it and no further to the left than it is high, and below it   *)
(* or to the right of it.  The one exception is the right half of a        *)
(* VERT_A, that begins one square above the square before it.              *)
High(call) == IF call.do = "node" THEN call.size ELSE call.h
Wide(call) == IF call.do = "node" THEN call.size ELSE call.w
Aligned(x, length) == length \in Squares /\ x % length = 0
Keeps(call, top, start, size) ==
  /\ top <= call.row /\ call.row + High(call) <= top + size
  /\ start <= call.col /\ call.col + Wide(call) <= start + size
OnGrid(call) == Aligned(call.row, High(call)) /\ Aligned(call.col, Wide(call))
Kept(top, start, size) ==
  {call \in AnyCall : call.do # "stamp" => OnGrid(call) /\ Keeps(call, top, start, size)}

Behind(call, top, start, high, wide) ==
  /\ call.row >= top /\ call.col + high >= start
  /\ call.row >= top + high \/ call.col >= start + wide
OutOfSquare(call, other) ==
  \E top, start \in Nat, size \in Squares :
    /\ size <= frame.mib /\ Aligned(top, size) /\ Aligned(start, size)
    /\ Keeps(call, top, start, size) /\ Behind(other, top, start, size, size)
RightHalf(call, other) ==
  /\ call.do = "block" /\ call.part = "VERT_A" /\ call.w = call.h /\ call.h < frame.mib
  /\ Bit(call.row, call.h) /\ ~Bit(call.col, call.h)
  /\ other.col >= call.col + call.w /\ other.row + call.h >= call.row
InOrder(call, other) ==
  call.do # "stamp" /\ other.do # "stamp" =>
    \/ Behind(other, call.row, call.col, High(call), Wide(call))
    \/ OutOfSquare(call, other)
    \/ RightHalf(call, other)
Ordered(calls) == \A k, l \in DOMAIN calls : k < l => InOrder(calls[k], calls[l])
AllInOrder(calls, others) ==
  \A k \in DOMAIN calls, l \in DOMAIN others : InOrder(calls[k], others[l])

LEMMA JoinOrdered ==
  ASSUME NEW S, NEW s \in Seq(S), NEW t \in Seq(S),
         Ordered(s), Ordered(t), AllInOrder(s, t)
  PROVE  s \o t \in Seq(S) /\ Ordered(s \o t)
<1>1. PICK n \in Nat, m \in Nat :
        /\ n = Len(s) /\ m = Len(t)
        /\ DOMAIN s = 1 .. n /\ DOMAIN t = 1 .. m /\ DOMAIN (s \o t) = 1 .. n + m
  BY ConcatProperties, LenProperties
<1>2. /\ \A k \in 1 .. n : (s \o t)[k] = s[k]
      /\ \A k \in n + 1 .. n + m : (s \o t)[k] = t[k - n]
  BY <1>1
<1>3. ASSUME NEW k \in 1 .. n + m, NEW l \in 1 .. n + m, k < l
      PROVE  InOrder((s \o t)[k], (s \o t)[l])
  <2>1. CASE l \in 1 .. n
    <3>1. k \in 1 .. n
      BY <1>3, <2>1
    <3> QED BY <1>1, <1>2, <1>3, <2>1, <3>1 DEF Ordered
  <2>2. CASE k \in n + 1 .. n + m
    <3>1. k - n \in 1 .. m /\ l - n \in 1 .. m /\ k - n < l - n /\ l \in n + 1 .. n + m
      BY <1>3, <2>2
    <3>2. InOrder(t[k - n], t[l - n])
      BY <1>1, <3>1 DEF Ordered
    <3> QED BY <1>2, <2>2, <3>1, <3>2
  <2>3. CASE k \in 1 .. n /\ l \in n + 1 .. n + m
    <3>1. l - n \in 1 .. m
      BY <2>3
    <3>2. InOrder(s[k], t[l - n])
      BY <1>1, <2>3, <3>1 DEF AllInOrder
    <3> QED BY <1>2, <2>3, <3>2
  <2>4. l \in 1 .. n \/ k \in n + 1 .. n + m \/ (k \in 1 .. n /\ l \in n + 1 .. n + m)
    BY <1>3
  <2> QED BY <2>1, <2>2, <2>3, <2>4
<1>4. Ordered(s \o t)
  BY <1>1, <1>3 DEF Ordered
<1>5. s \o t \in Seq(S)
  OBVIOUS
<1> QED BY <1>4, <1>5

LEMMA JoinAllInOrder ==
  ASSUME NEW S, NEW s \in Seq(S), NEW t \in Seq(S), NEW u,
         AllInOrder(s, u), AllInOrder(t, u)
  PROVE  AllInOrder(s \o t, u)
<1>1. PICK n \in Nat, m \in Nat :
        /\ n = Len(s) /\ m = Len(t)
        /\ DOMAIN s = 1 .. n /\ DOMAIN t = 1 .. m /\ DOMAIN (s \o t) = 1 .. n + m
  BY ConcatProperties, LenProperties
<1>2. /\ \A k \in 1 .. n : (s \o t)[k] = s[k]
      /\ \A k \in n + 1 .. n + m : (s \o t)[k] = t[k - n]
  BY <1>1
<1>3. ASSUME NEW k \in 1 .. n + m, NEW l \in DOMAIN u PROVE InOrder((s \o t)[k], u[l])
  <2>1. CASE k \in 1 .. n
    BY <1>1, <1>2, <2>1 DEF AllInOrder
  <2>2. CASE k \in n + 1 .. n + m
    <3>1. k - n \in 1 .. m
      BY <2>2
    <3>2. InOrder(t[k - n], u[l])
      BY <1>1, <3>1 DEF AllInOrder
    <3> QED BY <1>2, <2>2, <3>2
  <2>3. k \in 1 .. n \/ k \in n + 1 .. n + m
    OBVIOUS
  <2> QED BY <2>1, <2>2, <2>3
<1> QED BY <1>1, <1>3 DEF AllInOrder

LEMMA TailOrdered ==
  ASSUME NEW S, NEW s \in Seq(S), s # <<>>, Ordered(s)
  PROVE  /\ Ordered(Tail(s))
         /\ \A l \in DOMAIN Tail(s) : InOrder(Head(s), Tail(s)[l])
<1>1. PICK n \in Nat : n = Len(s)
  BY LenProperties
<1>2. /\ n >= 1 /\ DOMAIN s = 1 .. n /\ DOMAIN Tail(s) = 1 .. n - 1
      /\ Head(s) = s[1] /\ \A k \in 1 .. n - 1 : Tail(s)[k] = s[k + 1]
  BY <1>1, HeadTailProperties, EmptySeq, LenProperties
<1>3. ASSUME NEW k \in 1 .. n - 1 PROVE k + 1 \in 1 .. n /\ Tail(s)[k] = s[k + 1] /\ 1 < k + 1
  BY <1>2
<1>4. ASSUME NEW k \in 1 .. n - 1, NEW l \in 1 .. n - 1, k < l
      PROVE  InOrder(Tail(s)[k], Tail(s)[l])
  <2>1. k + 1 < l + 1
    BY <1>4
  <2> QED BY <1>2, <1>3, <2>1 DEF Ordered
<1>5. ASSUME NEW l \in 1 .. n - 1 PROVE InOrder(Head(s), Tail(s)[l])
  BY <1>2, <1>3 DEF Ordered
<1> QED BY <1>2, <1>4, <1>5 DEF Ordered

(* The parts of a square, called where they are needed, in order. *)
LEMMA FourOrdered ==
  ASSUME NEW e1, NEW e2, NEW e3, NEW e4, NEW a, NEW b, NEW c, NEW d,
         InOrder(e1, e2), InOrder(e1, e3), InOrder(e1, e4),
         InOrder(e2, e3), InOrder(e2, e4), InOrder(e3, e4),
         a \in {<<e1>>, <<>>}, b \in {<<e2>>, <<>>}, c \in {<<e3>>, <<>>}, d \in {<<e4>>, <<>>}
  PROVE  a \o b \o c \o d \in Seq({e1, e2, e3, e4}) /\ Ordered(a \o b \o c \o d)
<1> DEFINE S == {e1, e2, e3, e4}
<1>1. e1 \in S /\ e2 \in S /\ e3 \in S /\ e4 \in S
  OBVIOUS
<1> HIDE DEF S
<1>2. ASSUME NEW e \in S, NEW s \in {<<e>>, <<>>}
      PROVE  /\ s \in Seq(S) /\ Ordered(s)
             /\ \A k \in DOMAIN s : k = 1 /\ s[k] = e
  <2>1. CASE s = <<e>>
    <3>1. s \in Seq(S) /\ DOMAIN s = {1} /\ s[1] = e
      BY <2>1
    <3> QED BY <3>1 DEF Ordered
  <2>2. CASE s = <<>>
    <3>1. s \in Seq(S) /\ DOMAIN s = {}
      BY <2>2
    <3> QED BY <3>1 DEF Ordered
  <2> QED BY <2>1, <2>2
<1>3. /\ a \in Seq(S) /\ Ordered(a) /\ \A k \in DOMAIN a : a[k] = e1
      /\ b \in Seq(S) /\ Ordered(b) /\ \A k \in DOMAIN b : b[k] = e2
      /\ c \in Seq(S) /\ Ordered(c) /\ \A k \in DOMAIN c : c[k] = e3
      /\ d \in Seq(S) /\ Ordered(d) /\ \A k \in DOMAIN d : d[k] = e4
  BY <1>1, <1>2
<1>4. /\ AllInOrder(a, b) /\ AllInOrder(a, c) /\ AllInOrder(a, d)
      /\ AllInOrder(b, c) /\ AllInOrder(b, d) /\ AllInOrder(c, d)
  BY <1>3 DEF AllInOrder
<1>5. PICK ab : ab = a \o b
  OBVIOUS
<1>6. ab \in Seq(S) /\ Ordered(ab) /\ AllInOrder(ab, c) /\ AllInOrder(ab, d)
  BY <1>3, <1>4, <1>5, JoinOrdered, JoinAllInOrder
<1>7. PICK abc : abc = ab \o c
  OBVIOUS
<1>8. abc \in Seq(S) /\ Ordered(abc) /\ AllInOrder(abc, d)
  BY <1>3, <1>4, <1>6, <1>7, JoinOrdered, JoinAllInOrder
<1>9. abc \o d \in Seq(S) /\ Ordered(abc \o d)
  BY <1>3, <1>8, JoinOrdered
<1> QED BY <1>5, <1>7, <1>9 DEF S

LEMMA TwoOrdered ==
  ASSUME NEW e1, NEW e2, InOrder(e1, e2), NEW b \in {<<e2>>, <<>>}
  PROVE  <<e1>> \o b \in Seq({e1, e2}) /\ Ordered(<<e1>> \o b)
<1> DEFINE S == {e1, e2}
<1>1. e1 \in S /\ e2 \in S
  OBVIOUS
<1> HIDE DEF S
<1>2. PICK a : a = <<e1>>
  OBVIOUS
<1>3. a \in Seq(S) /\ DOMAIN a = {1} /\ a[1] = e1
  BY <1>1, <1>2
<1>4. /\ b \in Seq(S) /\ \A k \in DOMAIN b : b[k] = e2 /\ k = 1
  <2>1. CASE b = <<e2>>
    <3>1. b \in Seq(S) /\ DOMAIN b = {1} /\ b[1] = e2
      BY <1>1, <2>1
    <3> QED BY <3>1
  <2>2. CASE b = <<>>
    <3>1. b \in Seq(S) /\ DOMAIN b = {}
      BY <2>2
    <3> QED BY <3>1
  <2> QED BY <2>1, <2>2
<1>5. Ordered(a) /\ Ordered(b) /\ AllInOrder(a, b)
  BY <1>3, <1>4 DEF Ordered, AllInOrder
<1>6. a \o b \in Seq(S) /\ Ordered(a \o b)
  BY <1>3, <1>4, <1>5, JoinOrdered
<1> QED BY <1>2, <1>6 DEF S

LEMMA TupleOrdered ==
  ASSUME NEW e1, NEW e2, NEW e3, NEW e4,
         InOrder(e1, e2), InOrder(e1, e3), InOrder(e2, e3)
  PROVE  /\ <<e1, e2, e3>> \in Seq({e1, e2, e3}) /\ Ordered(<<e1, e2, e3>>)
         /\ InOrder(e1, e4) /\ InOrder(e2, e4) /\ InOrder(e3, e4) =>
              <<e1, e2, e3, e4>> \in Seq({e1, e2, e3, e4}) /\ Ordered(<<e1, e2, e3, e4>>)
<1>1. /\ <<e1, e2, e3>> \in Seq({e1, e2, e3})
      /\ <<e1, e2, e3, e4>> \in Seq({e1, e2, e3, e4})
  OBVIOUS
<1>2. Ordered(<<e1, e2, e3>>)
  <2> DEFINE s == <<e1, e2, e3>>
  <2>1. DOMAIN s = {1, 2, 3} /\ s[1] = e1 /\ s[2] = e2 /\ s[3] = e3
    OBVIOUS
  <2> HIDE DEF s
  <2>2. Ordered(s)
    BY <2>1 DEF Ordered
  <2> QED BY <2>2 DEF s
<1>3. ASSUME InOrder(e1, e4), InOrder(e2, e4), InOrder(e3, e4)
      PROVE  Ordered(<<e1, e2, e3, e4>>)
  <2> DEFINE s == <<e1, e2, e3, e4>>
  <2>1. DOMAIN s = {1, 2, 3, 4} /\ s[1] = e1 /\ s[2] = e2 /\ s[3] = e3 /\ s[4] = e4
    OBVIOUS
  <2> HIDE DEF s
  <2>2. Ordered(s)
    BY <1>3, <2>1 DEF Ordered
  <2> QED BY <2>2 DEF s
<1> QED BY <1>1, <1>2, <1>3

LEMMA PartsAligned ==
  ASSUME NEW size \in Squares, NEW x \in Nat, x % size = 0, size # 1,
         NEW hbs, hbs = size \div 2, NEW quarter, quarter = size \div 4
  PROVE  /\ Aligned(x, size) /\ Aligned(x, hbs) /\ Aligned(x + hbs, hbs)
         /\ ~Bit(x, hbs) /\ Bit(x + hbs, hbs)
         /\ size # 2 => /\ Aligned(x, quarter) /\ Aligned(x + quarter, quarter)
                        /\ Aligned(x + 2 * quarter, quarter)
                        /\ Aligned(x + 3 * quarter, quarter)
<1>1. CASE size = 2
  BY <1>1 DEF Squares, Aligned, Bit
<1>2. CASE size = 4
  BY <1>2 DEF Squares, Aligned, Bit
<1>3. CASE size = 8
  BY <1>3 DEF Squares, Aligned, Bit
<1>4. CASE size = 16
  BY <1>4 DEF Squares, Aligned, Bit
<1>5. CASE size = 32
  BY <1>5 DEF Squares, Aligned, Bit
<1> QED BY <1>1, <1>2, <1>3, <1>4, <1>5 DEF Squares

(* The parts of a square keep to it, and are called in order. *)
PartsFit(calls, row, col, size) ==
  calls \in Seq(Kept(row, col, size)) /\ Ordered(calls)

LEMMA PartsFitting ==
  ASSUME NEW S, NEW row, NEW col, NEW size,
         NEW calls \in Seq(AnyCall), calls \in Seq(S), Ordered(calls),
         \A e \in S : OnGrid(e) /\ Keeps(e, row, col, size)
  PROVE  PartsFit(calls, row, col, size)
<1>1. PICK n \in Nat : n = Len(calls) /\ DOMAIN calls = 1 .. n
  BY LenProperties
<1>2. \A k \in 1 .. n : calls[k] \in AnyCall /\ calls[k] \in S
  BY <1>1, ElementOfSeq
<1>3. \A k \in 1 .. n : calls[k] \in Kept(row, col, size)
  BY <1>2 DEF Kept
<1>4. calls \in Seq(Kept(row, col, size))
  BY <1>1, <1>3, SeqDef
<1> QED BY <1>4 DEF PartsFit

(* A part of a square: where it begins, its lengths. *)
PartOf(e, a, b, high, wide, row, col, size) ==
  /\ OnGrid(e) /\ Keeps(e, row, col, size)
  /\ e.row = a /\ e.col = b /\ High(e) = high /\ Wide(e) = wide
Fitting(a, b, high, wide, row, col, size) ==
  /\ Aligned(a, high) /\ Aligned(b, wide)
  /\ row <= a /\ a + high <= row + size /\ col <= b /\ b + wide <= col + size

LEMMA BlockFits ==
  ASSUME NEW a, NEW b, NEW sub, NEW p, NEW high, NEW wide, NEW row, NEW col, NEW size,
         sub.h = high, sub.w = wide, Fitting(a, b, high, wide, row, col, size)
  PROVE  PartOf(BlockCall(a, b, sub, p), a, b, high, wide, row, col, size)
<1> DEFINE e == BlockCall(a, b, sub, p)
<1>1. /\ e.do = "block" /\ e.row = a /\ e.col = b /\ e.h = high /\ e.w = wide
  BY DEF BlockCall
<1> HIDE DEF e
<1>2. High(e) = high /\ Wide(e) = wide
  BY <1>1 DEF High, Wide
<1>3. PartOf(e, a, b, high, wide, row, col, size)
  BY <1>1, <1>2 DEF OnGrid, Keeps, PartOf, Fitting
<1> QED BY <1>3 DEF e

LEMMA NodeFits ==
  ASSUME NEW a, NEW b, NEW hbs, NEW row, NEW col, NEW size,
         Fitting(a, b, hbs, hbs, row, col, size)
  PROVE  PartOf(NodeCall(a, b, hbs), a, b, hbs, hbs, row, col, size)
<1> DEFINE e == NodeCall(a, b, hbs)
<1>1. e.do = "node" /\ e.row = a /\ e.col = b /\ e.size = hbs
  BY DEF NodeCall
<1> HIDE DEF e
<1>2. High(e) = hbs /\ Wide(e) = hbs
  BY <1>1 DEF High, Wide
<1>3. PartOf(e, a, b, hbs, hbs, row, col, size)
  BY <1>1, <1>2 DEF OnGrid, Keeps, PartOf, Fitting
<1> QED BY <1>3 DEF e

LEMMA BehindInOrder ==
  ASSUME NEW call, NEW other, Behind(other, call.row, call.col, High(call), Wide(call))
  PROVE  InOrder(call, other)
BY DEF InOrder

LEMMA CallsInOrder ==
  ASSUME frame.rows \in Nat, frame.cols \in Nat,
         NEW size \in Squares, size <= frame.mib, frame.mib \in Nat,
         NEW row \in Nat, row < frame.rows, row % size = 0, EvenLength(row, size),
         NEW col \in Nat, col < frame.cols, col % size = 0, EvenLength(col, size),
         NEW p \in Partitions(row, col, size)
  PROVE  PartsFit(Calls(row, col, size, p), row, col, size)
<1> DEFINE hbs == size \div 2
           quarter == size \div 4
           sub == Subsize(size, p)
           half == Subsize(size, "SPLIT")
           At2(a, b) == BlockCall(a, b, sub, p)
           InFrame(a, b) == IF a < frame.rows /\ b < frame.cols THEN <<At2(a, b)>> ELSE <<>>
<1>0. Calls(row, col, size, p) \in Seq(AnyCall)
  BY CallsStartInFrame
<1>1. /\ hbs \in Nat /\ quarter \in Nat /\ size \in Nat
      /\ size # 1 => size = 2 * hbs
      /\ size # 1 /\ size # 2 => hbs = 2 * quarter
  BY DEF Squares
<1>2. half = [w |-> hbs, h |-> hbs] /\ sub \in [w : Nat, h : Nat]
  BY <1>1, SubsizeValues, SubsizeType
<1>3. p = "NONE" \/ p = "SPLIT" \/ p = "HORZ" \/ p = "VERT"
      \/ p \in {"HORZ_A", "HORZ_B", "VERT_A", "VERT_B"} \/ p = "HORZ_4" \/ p = "VERT_4"
  BY DEF Partitions, Symbols
<1>4. /\ p # "NONE" => size # 1
      /\ p \in {"HORZ_4", "VERT_4"} => size # 1 /\ size # 2
  BY DEF Partitions, Symbols, Squares
<1>5. Aligned(row, size) /\ Aligned(col, size)
  BY DEF Aligned
<1>6. ASSUME size # 1
      PROVE  /\ Aligned(row, hbs) /\ Aligned(row + hbs, hbs)
             /\ Aligned(col, hbs) /\ Aligned(col + hbs, hbs)
             /\ ~Bit(col, hbs) /\ Bit(row + hbs, hbs)
             /\ size # 2 => /\ Aligned(row, quarter) /\ Aligned(row + quarter, quarter)
                            /\ Aligned(row + 2 * quarter, quarter)
                            /\ Aligned(row + 3 * quarter, quarter)
                            /\ Aligned(col, quarter) /\ Aligned(col + quarter, quarter)
                            /\ Aligned(col + 2 * quarter, quarter)
                            /\ Aligned(col + 3 * quarter, quarter)
  BY <1>6, PartsAligned
<1> HIDE DEF hbs, quarter, sub, half
<1>7. CASE p = "NONE"
  <2> DEFINE e1 == At2(row, col)
  <2>1. Calls(row, col, size, p) = <<e1>> /\ sub = [w |-> size, h |-> size]
    BY <1>7, SubsizeValues DEF Calls, sub
  <2>2. sub.h = size /\ sub.w = size
    BY <2>1
  <2>3. Fitting(row, col, size, size, row, col, size)
    BY <1>1, <1>5 DEF Fitting
  <2>4. PartOf(e1, row, col, size, size, row, col, size)
    BY <2>2, <2>3, BlockFits
  <2> HIDE DEF e1
  <2>5. PICK S : S = {e1}
    OBVIOUS
  <2>6. <<e1>> \in Seq(S) /\ DOMAIN <<e1>> = {1}
    BY <2>5
  <2>7. Ordered(<<e1>>)
    BY <2>6 DEF Ordered
  <2>8. \A e \in S : OnGrid(e) /\ Keeps(e, row, col, size)
    BY <2>4, <2>5 DEF PartOf
  <2> QED BY <1>0, <2>1, <2>6, <2>7, <2>8, PartsFitting
<1>8. CASE p = "SPLIT"
  <2> DEFINE e1 == NodeCall(row, col, hbs)
             e2 == NodeCall(row, col + hbs, hbs)
             e3 == NodeCall(row + hbs, col, hbs)
             e4 == NodeCall(row + hbs, col + hbs, hbs)
  <2>1. Calls(row, col, size, p) = <<e1, e2, e3, e4>>
    BY <1>8 DEF Calls, hbs
  <2>2. row + hbs \in Nat /\ col + hbs \in Nat /\ size = 2 * hbs
    BY <1>1, <1>4, <1>8
  <2>3. /\ Fitting(row, col, hbs, hbs, row, col, size)
        /\ Fitting(row, col + hbs, hbs, hbs, row, col, size)
        /\ Fitting(row + hbs, col, hbs, hbs, row, col, size)
        /\ Fitting(row + hbs, col + hbs, hbs, hbs, row, col, size)
    BY <1>1, <1>4, <1>6, <1>8, <2>2 DEF Fitting
  <2>4. /\ PartOf(e1, row, col, hbs, hbs, row, col, size)
        /\ PartOf(e2, row, col + hbs, hbs, hbs, row, col, size)
        /\ PartOf(e3, row + hbs, col, hbs, hbs, row, col, size)
        /\ PartOf(e4, row + hbs, col + hbs, hbs, hbs, row, col, size)
    BY <2>3, NodeFits
  <2> HIDE DEF e1, e2, e3, e4
  <2>7. /\ Behind(e2, e1.row, e1.col, High(e1), Wide(e1))
        /\ Behind(e3, e1.row, e1.col, High(e1), Wide(e1))
        /\ Behind(e4, e1.row, e1.col, High(e1), Wide(e1))
        /\ Behind(e3, e2.row, e2.col, High(e2), Wide(e2))
        /\ Behind(e4, e2.row, e2.col, High(e2), Wide(e2))
        /\ Behind(e4, e3.row, e3.col, High(e3), Wide(e3))
    BY <1>1, <2>4 DEF Behind, PartOf
  <2>5. PICK S : S = {e1, e2, e3, e4}
    OBVIOUS
  <2>8. /\ <<e1, e2, e3, e4>> \in Seq(S) /\ Ordered(<<e1, e2, e3, e4>>)
    BY <2>5, <2>7, BehindInOrder, TupleOrdered
  <2>9. \A e \in S : OnGrid(e) /\ Keeps(e, row, col, size)
    BY <2>4, <2>5 DEF PartOf
  <2> QED BY <1>0, <2>1, <2>8, <2>9, PartsFitting
<1>9. CASE p = "HORZ"
  <2> DEFINE e1 == At2(row, col)
             e2 == At2(row + hbs, col)
  <2>1. /\ Calls(row, col, size, p)
             = <<e1>> \o IF HasRows(row, size) THEN <<e2>> ELSE <<>>
        /\ sub = [w |-> size, h |-> hbs]
    BY <1>9, SubsizeValues DEF Calls, hbs, sub, Halved
  <2>2. row + hbs \in Nat /\ size = 2 * hbs /\ sub.h = hbs /\ sub.w = size
    BY <1>1, <1>4, <1>9, <2>1
  <2>3. /\ Fitting(row, col, hbs, size, row, col, size)
        /\ Fitting(row + hbs, col, hbs, size, row, col, size)
    BY <1>1, <1>4, <1>5, <1>6, <1>9, <2>2 DEF Fitting
  <2>4. /\ PartOf(e1, row, col, hbs, size, row, col, size)
        /\ PartOf(e2, row + hbs, col, hbs, size, row, col, size)
    BY <2>2, <2>3, BlockFits
  <2> HIDE DEF e1, e2
  <2>5. Behind(e2, e1.row, e1.col, High(e1), Wide(e1))
    BY <1>1, <2>4 DEF Behind, PartOf
  <2>6. PICK b : b = IF HasRows(row, size) THEN <<e2>> ELSE <<>>
    OBVIOUS
  <2>7. b \in {<<e2>>, <<>>}
    BY <2>6
  <2>10. PICK S : S = {e1, e2}
    OBVIOUS
  <2>8. <<e1>> \o b \in Seq(S) /\ Ordered(<<e1>> \o b)
    BY <2>5, <2>7, <2>10, BehindInOrder, TwoOrdered
  <2>9. \A e \in S : OnGrid(e) /\ Keeps(e, row, col, size)
    BY <2>4, <2>10 DEF PartOf
  <2>11. Calls(row, col, size, p) = <<e1>> \o b
    BY <2>1, <2>6, Zenon
  <2> QED BY <1>0, <2>8, <2>9, <2>11, PartsFitting
<1>10. CASE p = "VERT"
  <2> DEFINE e1 == At2(row, col)
             e2 == At2(row, col + hbs)
  <2>1. /\ Calls(row, col, size, p)
             = <<e1>> \o IF HasCols(col, size) THEN <<e2>> ELSE <<>>
        /\ sub = [w |-> hbs, h |-> size]
    BY <1>10, SubsizeValues DEF Calls, hbs, sub, Sided
  <2>2. col + hbs \in Nat /\ size = 2 * hbs /\ sub.h = size /\ sub.w = hbs
    BY <1>1, <1>4, <1>10, <2>1
  <2>3. /\ Fitting(row, col, size, hbs, row, col, size)
        /\ Fitting(row, col + hbs, size, hbs, row, col, size)
    BY <1>1, <1>4, <1>5, <1>6, <1>10, <2>2 DEF Fitting
  <2>4. /\ PartOf(e1, row, col, size, hbs, row, col, size)
        /\ PartOf(e2, row, col + hbs, size, hbs, row, col, size)
    BY <2>2, <2>3, BlockFits
  <2> HIDE DEF e1, e2
  <2>5. Behind(e2, e1.row, e1.col, High(e1), Wide(e1))
    BY <1>1, <2>4 DEF Behind, PartOf
  <2>6. PICK b : b = IF HasCols(col, size) THEN <<e2>> ELSE <<>>
    OBVIOUS
  <2>7. b \in {<<e2>>, <<>>}
    BY <2>6
  <2>10. PICK S : S = {e1, e2}
    OBVIOUS
  <2>8. <<e1>> \o b \in Seq(S) /\ Ordered(<<e1>> \o b)
    BY <2>5, <2>7, <2>10, BehindInOrder, TwoOrdered
  <2>9. \A e \in S : OnGrid(e) /\ Keeps(e, row, col, size)
    BY <2>4, <2>10 DEF PartOf
  <2>11. Calls(row, col, size, p) = <<e1>> \o b
    BY <2>1, <2>6, Zenon
  <2> QED BY <1>0, <2>8, <2>9, <2>11, PartsFitting
<1>11. CASE p \in {"HORZ_A", "HORZ_B", "VERT_A", "VERT_B"}
  <2>1. /\ row + hbs \in Nat /\ col + hbs \in Nat /\ size = 2 * hbs /\ size # 1
        /\ half.h = hbs /\ half.w = hbs
    BY <1>1, <1>2, <1>4, <1>11
  <2>2. /\ Fitting(row, col, hbs, hbs, row, col, size)
        /\ Fitting(row, col + hbs, hbs, hbs, row, col, size)
        /\ Fitting(row + hbs, col, hbs, hbs, row, col, size)
        /\ Fitting(row + hbs, col + hbs, hbs, hbs, row, col, size)
        /\ Fitting(row, col, hbs, size, row, col, size)
        /\ Fitting(row + hbs, col, hbs, size, row, col, size)
        /\ Fitting(row, col, size, hbs, row, col, size)
        /\ Fitting(row, col + hbs, size, hbs, row, col, size)
    BY <1>1, <1>5, <1>6, <2>1 DEF Fitting
  <2>3. ASSUME NEW e1, NEW e2, NEW e3, Calls(row, col, size, p) = <<e1, e2, e3>>,
               InOrder(e1, e2), InOrder(e1, e3), InOrder(e2, e3),
               \A e \in {e1, e2, e3} : OnGrid(e) /\ Keeps(e, row, col, size)
        PROVE  PartsFit(Calls(row, col, size, p), row, col, size)
    <3>1. PICK S : S = {e1, e2, e3}
      OBVIOUS
    <3>2. <<e1, e2, e3>> \in Seq(S) /\ Ordered(<<e1, e2, e3>>)
      BY <2>3, <3>1, TupleOrdered
    <3>3. \A e \in S : OnGrid(e) /\ Keeps(e, row, col, size)
      BY <2>3, <3>1
    <3> QED BY <1>0, <2>3, <3>2, <3>3, PartsFitting
  <2>4. CASE p = "HORZ_A"
    <3> DEFINE e1 == BlockCall(row, col, half, p)
               e2 == BlockCall(row, col + hbs, half, p)
               e3 == At2(row + hbs, col)
    <3>1. Calls(row, col, size, p) = <<e1, e2, e3>> /\ sub = [w |-> size, h |-> hbs]
      BY <2>4, SubsizeValues DEF Calls, hbs, sub, half, Halved
    <3>2. sub.w = size /\ sub.h = hbs
      BY <3>1
    <3>3. /\ PartOf(e1, row, col, hbs, hbs, row, col, size)
          /\ PartOf(e2, row, col + hbs, hbs, hbs, row, col, size)
          /\ PartOf(e3, row + hbs, col, hbs, size, row, col, size)
      BY <2>1, <2>2, <3>2, BlockFits
    <3> HIDE DEF e1, e2, e3
    <3>4. /\ Behind(e2, e1.row, e1.col, High(e1), Wide(e1))
          /\ Behind(e3, e1.row, e1.col, High(e1), Wide(e1))
          /\ Behind(e3, e2.row, e2.col, High(e2), Wide(e2))
      BY <1>1, <3>3 DEF Behind, PartOf
    <3>5. \A e \in {e1, e2, e3} : OnGrid(e) /\ Keeps(e, row, col, size)
      BY <3>3 DEF PartOf
    <3> QED BY <2>3, <3>1, <3>4, <3>5, BehindInOrder
  <2>5. CASE p = "HORZ_B"
    <3> DEFINE e1 == At2(row, col)
               e2 == BlockCall(row + hbs, col, half, p)
               e3 == BlockCall(row + hbs, col + hbs, half, p)
    <3>1. Calls(row, col, size, p) = <<e1, e2, e3>> /\ sub = [w |-> size, h |-> hbs]
      BY <2>5, SubsizeValues DEF Calls, hbs, sub, half, Halved
    <3>2. sub.w = size /\ sub.h = hbs
      BY <3>1
    <3>3. /\ PartOf(e1, row, col, hbs, size, row, col, size)
          /\ PartOf(e2, row + hbs, col, hbs, hbs, row, col, size)
          /\ PartOf(e3, row + hbs, col + hbs, hbs, hbs, row, col, size)
      BY <2>1, <2>2, <3>2, BlockFits
    <3> HIDE DEF e1, e2, e3
    <3>4. /\ Behind(e2, e1.row, e1.col, High(e1), Wide(e1))
          /\ Behind(e3, e1.row, e1.col, High(e1), Wide(e1))
          /\ Behind(e3, e2.row, e2.col, High(e2), Wide(e2))
      BY <1>1, <3>3 DEF Behind, PartOf
    <3>5. \A e \in {e1, e2, e3} : OnGrid(e) /\ Keeps(e, row, col, size)
      BY <3>3 DEF PartOf
    <3> QED BY <2>3, <3>1, <3>4, <3>5, BehindInOrder
  <2>6. CASE p = "VERT_A"
    <3> DEFINE e1 == BlockCall(row, col, half, p)
               e2 == BlockCall(row + hbs, col, half, p)
               e3 == At2(row, col + hbs)
    <3>1. Calls(row, col, size, p) = <<e1, e2, e3>> /\ sub = [w |-> hbs, h |-> size]
      BY <2>6, SubsizeValues DEF Calls, hbs, sub, half, Sided
    <3>2. sub.w = hbs /\ sub.h = size
      BY <3>1
    <3>3. /\ PartOf(e1, row, col, hbs, hbs, row, col, size)
          /\ PartOf(e2, row + hbs, col, hbs, hbs, row, col, size)
          /\ PartOf(e3, row, col + hbs, size, hbs, row, col, size)
      BY <2>1, <2>2, <3>2, BlockFits
    <3>4. e2.do = "block" /\ e2.part = "VERT_A" /\ e2.w = hbs /\ e2.h = hbs
      BY <2>1, <2>6 DEF BlockCall
    <3> HIDE DEF e1, e2, e3
    <3>5. /\ Behind(e2, e1.row, e1.col, High(e1), Wide(e1))
          /\ Behind(e3, e1.row, e1.col, High(e1), Wide(e1))
      BY <1>1, <3>3 DEF Behind, PartOf
    <3>6. RightHalf(e2, e3)
      <4>1. hbs < frame.mib
        <5>1. size > 0
          BY DEF Squares
        <5> QED BY <1>1, <2>1, <5>1
      <4> QED BY <1>1, <1>6, <2>1, <3>3, <3>4, <4>1 DEF RightHalf, PartOf
    <3>7. InOrder(e2, e3)
      BY <3>6 DEF InOrder
    <3>8. \A e \in {e1, e2, e3} : OnGrid(e) /\ Keeps(e, row, col, size)
      BY <3>3 DEF PartOf
    <3> QED BY <2>3, <3>1, <3>5, <3>7, <3>8, BehindInOrder
  <2>7. CASE p = "VERT_B"
    <3> DEFINE e1 == At2(row, col)
               e2 == BlockCall(row, col + hbs, half, p)
               e3 == BlockCall(row + hbs, col + hbs, half, p)
    <3>1. Calls(row, col, size, p) = <<e1, e2, e3>> /\ sub = [w |-> hbs, h |-> size]
      BY <2>7, SubsizeValues DEF Calls, hbs, sub, half, Sided
    <3>2. sub.w = hbs /\ sub.h = size
      BY <3>1
    <3>3. /\ PartOf(e1, row, col, size, hbs, row, col, size)
          /\ PartOf(e2, row, col + hbs, hbs, hbs, row, col, size)
          /\ PartOf(e3, row + hbs, col + hbs, hbs, hbs, row, col, size)
      BY <2>1, <2>2, <3>2, BlockFits
    <3> HIDE DEF e1, e2, e3
    <3>4. /\ Behind(e2, e1.row, e1.col, High(e1), Wide(e1))
          /\ Behind(e3, e1.row, e1.col, High(e1), Wide(e1))
          /\ Behind(e3, e2.row, e2.col, High(e2), Wide(e2))
      BY <1>1, <3>3 DEF Behind, PartOf
    <3>5. \A e \in {e1, e2, e3} : OnGrid(e) /\ Keeps(e, row, col, size)
      BY <3>3 DEF PartOf
    <3> QED BY <2>3, <3>1, <3>4, <3>5, BehindInOrder
  <2> QED BY <1>11, <2>4, <2>5, <2>6, <2>7
<1>12. ASSUME NEW e1, NEW e2, NEW e3, NEW e4,
              NEW a \in {<<e1>>, <<>>}, NEW b \in {<<e2>>, <<>>},
              NEW c \in {<<e3>>, <<>>}, NEW d \in {<<e4>>, <<>>},
              Calls(row, col, size, p) = a \o b \o c \o d,
              Behind(e2, e1.row, e1.col, High(e1), Wide(e1)),
              Behind(e3, e1.row, e1.col, High(e1), Wide(e1)),
              Behind(e4, e1.row, e1.col, High(e1), Wide(e1)),
              Behind(e3, e2.row, e2.col, High(e2), Wide(e2)),
              Behind(e4, e2.row, e2.col, High(e2), Wide(e2)),
              Behind(e4, e3.row, e3.col, High(e3), Wide(e3)),
              OnGrid(e1), Keeps(e1, row, col, size), OnGrid(e2), Keeps(e2, row, col, size),
              OnGrid(e3), Keeps(e3, row, col, size), OnGrid(e4), Keeps(e4, row, col, size)
       PROVE  PartsFit(Calls(row, col, size, p), row, col, size)
  <2>1. PICK S : S = {e1, e2, e3, e4}
    OBVIOUS
  <2>2. /\ InOrder(e1, e2) /\ InOrder(e1, e3) /\ InOrder(e1, e4)
        /\ InOrder(e2, e3) /\ InOrder(e2, e4) /\ InOrder(e3, e4)
    BY <1>12, BehindInOrder
  <2>3. a \o b \o c \o d \in Seq(S) /\ Ordered(a \o b \o c \o d)
    BY <2>1, <2>2, FourOrdered
  <2>4. \A e \in S : OnGrid(e) /\ Keeps(e, row, col, size)
    BY <1>12, <2>1
  <2> QED BY <1>0, <1>12, <2>3, <2>4, PartsFitting
<1>13. CASE p = "HORZ_4"
  <2> DEFINE e1 == At2(row, col)
             e2 == At2(row + quarter, col)
             e3 == At2(row + 2 * quarter, col)
             e4 == At2(row + 3 * quarter, col)
  <2>1. /\ Calls(row, col, size, p)
             = InFrame(row, col) \o InFrame(row + quarter, col)
                 \o InFrame(row + 2 * quarter, col) \o InFrame(row + 3 * quarter, col)
        /\ sub = [w |-> size, h |-> quarter]
    BY <1>13, SubsizeValues DEF Calls, quarter, sub, Halved, Sided
  <2>2. /\ size = 4 * quarter /\ size # 1 /\ size # 2
        /\ sub.w = size /\ sub.h = quarter
    BY <1>1, <1>4, <1>13, <2>1
  <2>3. /\ Fitting(row, col, quarter, size, row, col, size)
        /\ Fitting(row + quarter, col, quarter, size, row, col, size)
        /\ Fitting(row + 2 * quarter, col, quarter, size, row, col, size)
        /\ Fitting(row + 3 * quarter, col, quarter, size, row, col, size)
    BY <1>1, <1>5, <1>6, <2>2 DEF Fitting
  <2>4. /\ PartOf(e1, row, col, quarter, size, row, col, size)
        /\ PartOf(e2, row + quarter, col, quarter, size, row, col, size)
        /\ PartOf(e3, row + 2 * quarter, col, quarter, size, row, col, size)
        /\ PartOf(e4, row + 3 * quarter, col, quarter, size, row, col, size)
    BY <2>2, <2>3, BlockFits
  <2>5. /\ InFrame(row, col) \in {<<e1>>, <<>>}
        /\ InFrame(row + quarter, col) \in {<<e2>>, <<>>}
        /\ InFrame(row + 2 * quarter, col) \in {<<e3>>, <<>>}
        /\ InFrame(row + 3 * quarter, col) \in {<<e4>>, <<>>}
    OBVIOUS
  <2> HIDE DEF e1, e2, e3, e4, InFrame
  <2>6. /\ Behind(e2, e1.row, e1.col, High(e1), Wide(e1))
        /\ Behind(e3, e1.row, e1.col, High(e1), Wide(e1))
        /\ Behind(e4, e1.row, e1.col, High(e1), Wide(e1))
        /\ Behind(e3, e2.row, e2.col, High(e2), Wide(e2))
        /\ Behind(e4, e2.row, e2.col, High(e2), Wide(e2))
        /\ Behind(e4, e3.row, e3.col, High(e3), Wide(e3))
    BY <1>1, <2>4 DEF Behind, PartOf
  <2>7. /\ OnGrid(e1) /\ Keeps(e1, row, col, size) /\ OnGrid(e2) /\ Keeps(e2, row, col, size)
        /\ OnGrid(e3) /\ Keeps(e3, row, col, size) /\ OnGrid(e4) /\ Keeps(e4, row, col, size)
    BY <2>4 DEF PartOf
  <2>8. PICK a, b, c, d :
          /\ a = InFrame(row, col) /\ b = InFrame(row + quarter, col)
          /\ c = InFrame(row + 2 * quarter, col) /\ d = InFrame(row + 3 * quarter, col)
    OBVIOUS
  <2>9. /\ a \in {<<e1>>, <<>>} /\ b \in {<<e2>>, <<>>}
        /\ c \in {<<e3>>, <<>>} /\ d \in {<<e4>>, <<>>}
    BY <2>5, <2>8, Zenon
  <2>10. Calls(row, col, size, p) = a \o b \o c \o d
    BY <2>1, <2>8, Zenon
  <2> QED BY <1>12, <2>6, <2>7, <2>9, <2>10, ZenonT(60)
<1>14. CASE p = "VERT_4"
  <2> DEFINE e1 == At2(row, col)
             e2 == At2(row, col + quarter)
             e3 == At2(row, col + 2 * quarter)
             e4 == At2(row, col + 3 * quarter)
  <2>1. /\ Calls(row, col, size, p)
             = InFrame(row, col) \o InFrame(row, col + quarter)
                 \o InFrame(row, col + 2 * quarter) \o InFrame(row, col + 3 * quarter)
        /\ sub = [w |-> quarter, h |-> size]
    BY <1>14, SubsizeValues DEF Calls, quarter, sub, Halved, Sided
  <2>2. /\ size = 4 * quarter /\ size # 1 /\ size # 2
        /\ sub.w = quarter /\ sub.h = size
    BY <1>1, <1>4, <1>14, <2>1
  <2>3. /\ Fitting(row, col, size, quarter, row, col, size)
        /\ Fitting(row, col + quarter, size, quarter, row, col, size)
        /\ Fitting(row, col + 2 * quarter, size, quarter, row, col, size)
        /\ Fitting(row, col + 3 * quarter, size, quarter, row, col, size)
    BY <1>1, <1>5, <1>6, <2>2 DEF Fitting
  <2>4. /\ PartOf(e1, row, col, size, quarter, row, col, size)
        /\ PartOf(e2, row, col + quarter, size, quarter, row, col, size)
        /\ PartOf(e3, row, col + 2 * quarter, size, quarter, row, col, size)
        /\ PartOf(e4, row, col + 3 * quarter, size, quarter, row, col, size)
    BY <2>2, <2>3, BlockFits
  <2>5. /\ InFrame(row, col) \in {<<e1>>, <<>>}
        /\ InFrame(row, col + quarter) \in {<<e2>>, <<>>}
        /\ InFrame(row, col + 2 * quarter) \in {<<e3>>, <<>>}
        /\ InFrame(row, col + 3 * quarter) \in {<<e4>>, <<>>}
    OBVIOUS
  <2> HIDE DEF e1, e2, e3, e4, InFrame
  <2>6. /\ Behind(e2, e1.row, e1.col, High(e1), Wide(e1))
        /\ Behind(e3, e1.row, e1.col, High(e1), Wide(e1))
        /\ Behind(e4, e1.row, e1.col, High(e1), Wide(e1))
        /\ Behind(e3, e2.row, e2.col, High(e2), Wide(e2))
        /\ Behind(e4, e2.row, e2.col, High(e2), Wide(e2))
        /\ Behind(e4, e3.row, e3.col, High(e3), Wide(e3))
    BY <1>1, <2>4 DEF Behind, PartOf
  <2>7. /\ OnGrid(e1) /\ Keeps(e1, row, col, size) /\ OnGrid(e2) /\ Keeps(e2, row, col, size)
        /\ OnGrid(e3) /\ Keeps(e3, row, col, size) /\ OnGrid(e4) /\ Keeps(e4, row, col, size)
    BY <2>4 DEF PartOf
  <2>8. PICK a, b, c, d :
          /\ a = InFrame(row, col) /\ b = InFrame(row, col + quarter)
          /\ c = InFrame(row, col + 2 * quarter) /\ d = InFrame(row, col + 3 * quarter)
    OBVIOUS
  <2>9. /\ a \in {<<e1>>, <<>>} /\ b \in {<<e2>>, <<>>}
        /\ c \in {<<e3>>, <<>>} /\ d \in {<<e4>>, <<>>}
    BY <2>5, <2>8, Zenon
  <2>10. Calls(row, col, size, p) = a \o b \o c \o d
    BY <2>1, <2>8, Zenon
  <2> QED BY <1>12, <2>6, <2>7, <2>9, <2>10, ZenonT(60)
<1> QED
  BY <1>3, <1>7, <1>8, <1>9, <1>10, <1>11, <1>13, <1>14


(* The order of the calls still to make, in the superblock at hand.        *)
OrderInv == pc = "walk" => PartsFit(todo, sbRow, sbCol, frame.mib)

(* What keeps to a part keeps to the whole.                                *)
LEMMA KeptInside ==
  ASSUME NEW row \in Nat, NEW col \in Nat, NEW size \in Nat,
         NEW top \in Nat, NEW start \in Nat, NEW mib \in Nat,
         top <= row, row + size <= top + mib, start <= col, col + size <= start + mib
  PROVE  Kept(row, col, size) \subseteq Kept(top, start, mib)
<1> SUFFICES ASSUME NEW e \in Kept(row, col, size) PROVE e \in Kept(top, start, mib)
  OBVIOUS
<1>1. CASE e.do = "stamp"
  BY <1>1 DEF Kept
<1>2. CASE e.do # "stamp"
  <2>1. e \in AnyCall /\ OnGrid(e) /\ Keeps(e, row, col, size)
    BY <1>2 DEF Kept
  <2>2. e.row \in Nat /\ e.col \in Nat /\ High(e) \in Nat /\ Wide(e) \in Nat
    BY <1>2, <2>1 DEF AnyCall, NodeCalls, BlockCalls, StampCalls, High, Wide, Squares
  <2>3. Keeps(e, top, start, mib)
    BY <2>1, <2>2 DEF Keeps
  <2> QED BY <2>1, <2>3 DEF Kept
<1> QED BY <1>1, <1>2

(* A call that is behind a square is behind each of its parts.             *)
LEMMA PartInOrder ==
  ASSUME frame.mib \in Nat, NEW node \in NodeCalls, OnGrid(node), node.size <= frame.mib,
         NEW other, InOrder(node, other),
         NEW e \in Kept(node.row, node.col, node.size)
  PROVE  InOrder(e, other)
<1> SUFFICES ASSUME e.do # "stamp", other.do # "stamp" PROVE OutOfSquare(e, other)
  BY DEF InOrder
<1>1. /\ node.do = "node" /\ node.row \in Nat /\ node.col \in Nat /\ node.size \in Squares
      /\ High(node) = node.size /\ Wide(node) = node.size
  BY DEF NodeCalls, High, Wide
<1>2. Keeps(e, node.row, node.col, node.size) /\ e \in AnyCall
  BY DEF Kept
<1>3. CASE Behind(other, node.row, node.col, High(node), Wide(node))
  <2>1. Aligned(node.row, node.size) /\ Aligned(node.col, node.size)
    BY <1>1 DEF OnGrid
  <2> QED BY <1>1, <1>2, <1>3, <2>1 DEF OutOfSquare
<1>4. CASE OutOfSquare(node, other)
  <2>1. PICK top \in Nat, start \in Nat, size \in Squares :
          /\ size <= frame.mib /\ Aligned(top, size) /\ Aligned(start, size)
          /\ Keeps(node, top, start, size) /\ Behind(other, top, start, size, size)
    BY <1>4 DEF OutOfSquare
  <2>2. e.row \in Nat /\ e.col \in Nat /\ High(e) \in Nat /\ Wide(e) \in Nat
    BY <1>2 DEF AnyCall, NodeCalls, BlockCalls, StampCalls, High, Wide, Squares
  <2>3. size \in Nat /\ node.size \in Nat
    BY <1>1 DEF Squares
  <2>4. Keeps(e, top, start, size)
    BY <1>1, <1>2, <2>1, <2>2, <2>3 DEF Keeps
  <2> QED BY <2>1, <2>4 DEF OutOfSquare
<1>5. ~RightHalf(node, other)
  BY <1>1 DEF RightHalf
<1> QED BY <1>1, <1>3, <1>4, <1>5 DEF InOrder

LEMMA StampsInOrder ==
  ASSUME NEW stamp, stamp.do = "stamp"
  PROVE  /\ Ordered(<<stamp>>)
         /\ \A calls : AllInOrder(calls, <<stamp>>) /\ AllInOrder(<<stamp>>, calls)
<1>1. DOMAIN <<stamp>> = {1} /\ <<stamp>>[1] = stamp
  OBVIOUS
<1>2. PICK s : s = <<stamp>>
  OBVIOUS
<1>3. Ordered(s) /\ \A calls : AllInOrder(calls, s) /\ AllInOrder(s, calls)
  BY <1>1, <1>2 DEF Ordered, AllInOrder, InOrder
<1> QED BY <1>2, <1>3

(* After a step the order is judged by the same frame. *)
LEMMA OrderAfter ==
  ASSUME frame' = frame, PartsFit(todo', sbRow', sbCol', frame.mib)
  PROVE  OrderInv'
<1>1. /\ todo' \in Seq(Kept(sbRow', sbCol', frame.mib))
      /\ \A k, l \in DOMAIN todo' : k < l => InOrder(todo'[k], todo'[l])
  BY DEF PartsFit, Ordered
<1>2. Kept(sbRow, sbCol, frame.mib)' = Kept(sbRow', sbCol', frame.mib)
  BY DEF Kept, AnyCall, BlockCalls
<1>3. \A call, other : InOrder(call, other) => InOrder(call, other)'
  BY DEF InOrder, OutOfSquare, RightHalf
<1>4. Ordered(todo)'
  BY <1>1, <1>3 DEF Ordered
<1> QED BY <1>1, <1>2, <1>4 DEF OrderInv, PartsFit

LEMMA PartsInOrder ==
  ASSUME WalkInv, OrderInv, ReadPartition
  PROVE  OrderInv'
<1>1. /\ todo # <<>> /\ Call.do = "node" /\ ~OutOfFrame /\ pc = "walk"
      /\ UNCHANGED <<frame, pc, tile, sbRow, sbCol, blocks>>
  BY DEF ReadPartition, At, blockVars
<1>2. /\ Call \in NodeCalls /\ Tail(todo) \in Seq(AnyCall) /\ todo \in Seq(AnyCall)
      /\ Call = Head(todo)
  BY <1>1, CallTypes DEF WalkInv, Call
<1>3. PICK row \in Nat, col \in Nat, size \in Squares :
        /\ Call = NodeCall(row, col, size)
        /\ Call.row = row /\ Call.col = col /\ Call.size = size
        /\ EvenLength(row, size) /\ EvenLength(col, size)
  BY <1>2 DEF NodeCalls, NodeCall
<1>4. /\ frame.rows \in Nat /\ frame.cols \in Nat /\ frame.mib \in Nat /\ size \in Nat
      /\ sbRow \in Nat /\ sbCol \in Nat
  BY FrameTypes DEF WalkInv, Squares
<1>5. row < frame.rows /\ col < frame.cols
  <2>1. ~ (row >= frame.rows) /\ ~ (col >= frame.cols)
    BY <1>1, <1>3, Zenon DEF OutOfFrame
  <2> QED BY <1>4, <2>1
<1>6. PICK rest : rest = Tail(todo)
  OBVIOUS
<1>7. /\ todo \in Seq(Kept(sbRow, sbCol, frame.mib)) /\ Ordered(todo)
  BY <1>1 DEF OrderInv, PartsFit
<1>8. /\ Call \in Kept(sbRow, sbCol, frame.mib)
      /\ rest \in Seq(Kept(sbRow, sbCol, frame.mib))
  BY <1>1, <1>2, <1>6, <1>7
<1>9. /\ Ordered(rest) /\ \A l \in DOMAIN rest : InOrder(Call, rest[l])
  BY <1>1, <1>2, <1>6, <1>7, TailOrdered
<1>10. OnGrid(Call) /\ Keeps(Call, sbRow, sbCol, frame.mib)
       /\ High(Call) = size /\ Wide(Call) = size
  BY <1>1, <1>3, <1>8 DEF Kept, High, Wide
<1>11. /\ row % size = 0 /\ col % size = 0
       /\ sbRow <= row /\ row + size <= sbRow + frame.mib
       /\ sbCol <= col /\ col + size <= sbCol + frame.mib
       /\ size <= frame.mib
  <2>1. /\ row % size = 0 /\ col % size = 0
        /\ sbRow <= row /\ row + size <= sbRow + frame.mib
        /\ sbCol <= col /\ col + size <= sbCol + frame.mib
    BY <1>3, <1>10 DEF OnGrid, Keeps, Aligned
  <2> QED BY <1>4, <2>1
<1>12. CASE todo' = rest
  <2>1. PartsFit(rest, sbRow, sbCol, frame.mib)
    BY <1>8, <1>9 DEF PartsFit
  <2> QED BY <1>1, <1>12, <2>1, OrderAfter
<1>13. ASSUME NEW p \in Partitions(row, col, size),
              todo' = Calls(row, col, size, p) \o <<StampCall(row, col, size, p)>> \o rest
       PROVE  OrderInv'
  <2>1. PICK calls : calls = Calls(row, col, size, p)
    OBVIOUS
  <2>2. PartsFit(calls, row, col, size)
    BY <1>3, <1>4, <1>5, <1>11, <2>1, CallsInOrder
  <2>3. PICK stamp : stamp = StampCall(row, col, size, p)
    OBVIOUS
  <2>4. stamp.do = "stamp" /\ stamp \in Kept(sbRow, sbCol, frame.mib)
    <3>1. stamp.do = "stamp"
      BY <2>3 DEF StampCall
    <3>2. stamp \in AnyCall
      BY <1>4, <2>3, SubsizeType DEF StampCall, StampCalls, AnyCall
    <3> QED BY <3>1, <3>2 DEF Kept
  <2>5. PICK n \in Nat : n = Len(calls) /\ DOMAIN calls = 1 .. n
    BY <2>2, LenProperties DEF PartsFit
  <2>6. \A k \in 1 .. n : calls[k] \in Kept(row, col, size)
    BY <2>2, <2>5, ElementOfSeq DEF PartsFit
  <2>7. \A k \in 1 .. n : calls[k] \in Kept(sbRow, sbCol, frame.mib)
    <3>1. PICK mib : mib = frame.mib
      OBVIOUS
    <3>2. /\ sbRow <= row /\ row + size <= sbRow + mib
          /\ sbCol <= col /\ col + size <= sbCol + mib
      BY <1>11, <3>1
    <3>3. mib \in Nat /\ sbRow \in Nat /\ sbCol \in Nat
      BY <1>4, <3>1
    <3>4. Kept(row, col, size) \subseteq Kept(sbRow, sbCol, mib)
      BY <1>4, <3>2, <3>3, KeptInside
    <3>5. Kept(row, col, size) \subseteq Kept(sbRow, sbCol, frame.mib)
      BY <3>1, <3>4, Zenon
    <3> QED BY <2>6, <3>5
  <2>8. calls \in Seq(Kept(sbRow, sbCol, frame.mib))
    BY <2>2, <2>5, <2>7, SeqDef DEF PartsFit
  <2>9. AllInOrder(calls, rest)
    <3> SUFFICES ASSUME NEW k \in 1 .. n, NEW l \in DOMAIN rest
                 PROVE  InOrder(calls[k], rest[l])
      BY <2>5 DEF AllInOrder
    <3>1. calls[k] \in Kept(Call.row, Call.col, Call.size)
      BY <1>3, <2>6
    <3>2. Call.size <= frame.mib
      BY <1>3, <1>11
    <3> QED BY <1>2, <1>4, <1>9, <1>10, <3>1, <3>2, PartInOrder
  <2>10. PICK one : one = <<stamp>>
    OBVIOUS
  <2>11. /\ one \in Seq(Kept(sbRow, sbCol, frame.mib)) /\ Ordered(one)
         /\ AllInOrder(calls, one) /\ AllInOrder(one, rest)
    <3>1. one \in Seq(Kept(sbRow, sbCol, frame.mib))
      BY <2>4, <2>10
    <3> QED BY <2>4, <2>10, <3>1, StampsInOrder
  <2>12. PICK first : first = calls \o one
    OBVIOUS
  <2>13. /\ first \in Seq(Kept(sbRow, sbCol, frame.mib)) /\ Ordered(first)
         /\ AllInOrder(first, rest)
    BY <2>2, <2>8, <2>9, <2>11, <2>12, JoinOrdered, JoinAllInOrder DEF PartsFit
  <2>14. PartsFit(first \o rest, sbRow, sbCol, frame.mib)
    BY <1>8, <1>9, <2>13, JoinOrdered DEF PartsFit
  <2>15. todo' = first \o rest
    BY <1>13, <2>1, <2>3, <2>10, <2>12, Zenon
  <2> QED BY <1>1, <2>14, <2>15, OrderAfter
<1>14. PICK p \in Partitions(row, col, size) :
         \/ todo' = rest
         \/ todo' = Calls(row, col, size, p) \o <<StampCall(row, col, size, p)>> \o rest
  <2>1. \E p \in Partitions(Call.row, Call.col, Call.size) :
          \/ todo' = Tail(todo)
          \/ todo' = Calls(Call.row, Call.col, Call.size, p)
                       \o <<StampCall(Call.row, Call.col, Call.size, p)>> \o Tail(todo)
    BY DEF ReadPartition
  <2>2. Call.row = row /\ Call.col = col /\ Call.size = size
    BY <1>3
  <2> QED BY <1>6, <2>1, <2>2
<1> QED BY <1>12, <1>13, <1>14

LEMMA RootInOrder ==
  ASSUME WalkInv, NEW row \in Nat, NEW col \in Nat,
         row % frame.mib = 0, col % frame.mib = 0
  PROVE  PartsFit(<<NodeCall(row, col, frame.mib)>>, row, col, frame.mib)
<1> DEFINE e == NodeCall(row, col, frame.mib)
<1>1. frame.mib \in Nat /\ frame.mib \in Squares /\ e \in NodeCalls
  BY FrameTypes, MibValues, RootCalls
<1>2. Fitting(row, col, frame.mib, frame.mib, row, col, frame.mib)
  BY <1>1 DEF Fitting, Aligned
<1>3. OnGrid(e) /\ Keeps(e, row, col, frame.mib)
  BY <1>2, NodeFits DEF PartOf
<1> HIDE DEF e
<1>4. e \in Kept(row, col, frame.mib)
  BY <1>1, <1>3 DEF Kept, AnyCall
<1>5. <<e>> \in Seq(Kept(row, col, frame.mib)) /\ DOMAIN <<e>> = {1}
  BY <1>4
<1>6. PartsFit(<<e>>, row, col, frame.mib)
  BY <1>5 DEF PartsFit, Ordered
<1> QED BY <1>6 DEF e

LEMMA OrderInit == Init => OrderInv
  BY DEF Init, OrderInv

LEMMA OrderStep == WalkInv /\ OrderInv /\ [Next]_vars => OrderInv'
<1> SUFFICES ASSUME WalkInv, OrderInv, [Next]_vars PROVE OrderInv'
  OBVIOUS
<1>1. frame.mib \in Nat /\ sbRow \in Nat /\ sbCol \in Nat
  BY FrameTypes DEF WalkInv
<1>2. CASE FireStop \/ Returned \/ UNCHANGED vars
  <2>1. UNCHANGED <<frame, pc, sbRow, sbCol, todo>>
    BY <1>2 DEF FireStop, Returned, vars, tileVars
  <2>2. CASE pc = "walk"
    BY <2>1, <2>2, OrderAfter DEF OrderInv
  <2>3. CASE pc # "walk"
    BY <2>1, <2>3 DEF OrderInv
  <2> QED BY <2>2, <2>3
<1>3. CASE CancelAtTile \/ TilesDone \/ StartTile \/ CancelAtRow \/ RowsDone \/ GiveUp
  <2>1. pc' # "walk"
    BY <1>3 DEF CancelAtTile, TilesDone, StartTile, CancelAtRow, RowsDone, GiveUp, EndTile
  <2> QED BY <2>1 DEF OrderInv
<1>4. CASE StartRow
  <2>1. /\ pc = "row" /\ sbRow' = sbRow /\ sbCol' = Tile.left /\ frame' = frame
        /\ todo' = <<NodeCall(sbRow, Tile.left, frame.mib)>>
    BY <1>4 DEF StartRow
  <2>2. /\ sbRow % frame.mib = 0 /\ Tile.left \in Nat /\ Tile.left % frame.mib = 0
    BY <2>1, TileTypes DEF WalkInv, WalkPlace
  <2>3. PartsFit(<<NodeCall(sbRow, Tile.left, frame.mib)>>, sbRow, Tile.left, frame.mib)
    BY <1>1, <2>2, RootInOrder
  <2>4. PartsFit(todo', sbRow', sbCol', frame.mib)
    BY <2>1, <2>3, Zenon
  <2> QED BY <2>1, <2>4, OrderAfter
<1>5. CASE NextSuperblock
  <2>1. /\ pc = "walk" /\ frame' = frame
        /\ \/ /\ sbCol' = sbCol + frame.mib /\ sbRow' = sbRow
              /\ todo' = <<NodeCall(sbRow, sbCol + frame.mib, frame.mib)>>
           \/ pc' = "row"
    BY <1>5 DEF NextSuperblock
  <2>2. CASE pc' = "row"
    BY <2>2 DEF OrderInv
  <2>3. CASE /\ sbCol' = sbCol + frame.mib /\ sbRow' = sbRow
             /\ todo' = <<NodeCall(sbRow, sbCol + frame.mib, frame.mib)>>
    <3>1. sbRow % frame.mib = 0 /\ (sbCol + frame.mib) % frame.mib = 0
      <4>1. sbRow % frame.mib = 0 /\ sbCol % frame.mib = 0
        BY <2>1 DEF WalkInv, WalkPlace
      <4> QED BY <1>1, <4>1, MibValues, GridStep
    <3>2. PICK col \in Nat : col = sbCol + frame.mib
      BY <1>1
    <3>3. PartsFit(<<NodeCall(sbRow, col, frame.mib)>>, sbRow, col, frame.mib)
      BY <1>1, <3>1, <3>2, RootInOrder
    <3>4. PartsFit(todo', sbRow', sbCol', frame.mib)
      BY <2>3, <3>2, <3>3, Zenon
    <3> QED BY <2>1, <3>4, OrderAfter
  <2> QED BY <2>1, <2>2, <2>3
<1>6. CASE SkipNode \/ StampContext \/ SkipBlock \/ CorruptBlock \/ DecodeBlock
  <2>1. /\ todo # <<>> /\ todo' = Tail(todo) /\ pc = "walk"
        /\ UNCHANGED <<frame, sbRow, sbCol>>
    BY <1>6 DEF SkipNode, StampContext, SkipBlock, CorruptBlock, DecodeBlock, At, tileVars
  <2>2. todo \in Seq(Kept(sbRow, sbCol, frame.mib)) /\ Ordered(todo)
    BY <2>1 DEF OrderInv, PartsFit
  <2>3. Tail(todo) \in Seq(Kept(sbRow, sbCol, frame.mib)) /\ Ordered(Tail(todo))
    BY <2>1, <2>2, TailOrdered
  <2>4. PartsFit(todo', sbRow', sbCol', frame.mib)
    BY <2>1, <2>3 DEF PartsFit
  <2> QED BY <2>1, <2>4, OrderAfter
<1>7. CASE ReadPartition
  BY <1>7, PartsInOrder
<1> QED BY <1>2, <1>3, <1>4, <1>5, <1>6, <1>7 DEF Next


-----------------------------------------------------------------------------
(* Where the decoded blocks lie: on the grid of their own lengths, and in  *)
(* the tile they name.                                                     *)
Lies(b) ==
  /\ Aligned(b.row, b.h) /\ Aligned(b.col, b.w)
  /\ b.tile \in DOMAIN frame.tiles
  /\ \A row \in 0 .. frame.rows - 1, col \in 0 .. frame.cols - 1 :
       Covers(b, row, col) => InTile(frame.tiles[b.tile], row, col)
BlocksLie == \A k \in DOMAIN blocks : Lies(blocks[k])

(* The block that decode_block appends. *)
Made(b) ==
  /\ b.row = Call.row /\ b.col = Call.col /\ b.w = Call.w /\ b.h = Call.h /\ b.tile = tile
  /\ LET before == TransmittedBefore(Call.row, Call.col)
         index == UnitIndex(Call.row, Call.col)
     IN /\ b.strength = (~before[index] /\ ~b.skip)
        /\ before[index] => ~b.skip
        /\ transmitted' = IF b.strength THEN [before EXCEPT ![index] = TRUE] ELSE before

LEMMA BlockMade ==
  ASSUME WalkInv, DecodeBlock
  PROVE  /\ todo # <<>> /\ Call.do = "block" /\ Call = Head(todo) /\ Call \in BlockCalls
         /\ pc = "walk" /\ ~corrupt /\ todo' = Tail(todo)
         /\ UNCHANGED <<frame, pc, tile, sbRow, sbCol, corrupt, cancelled>>
         /\ \E b \in Decodeds, n \in Nat :
              /\ Made(b) /\ blocks' = Append(blocks, b)
              /\ n = Len(blocks) /\ DOMAIN blocks = 1 .. n /\ DOMAIN blocks' = 1 .. n + 1
              /\ \A k \in 1 .. n : blocks'[k] = blocks[k]
              /\ blocks'[n + 1] = b
<1>1. /\ todo # <<>> /\ Call.do = "block" /\ todo' = Tail(todo) /\ pc = "walk" /\ ~corrupt
      /\ UNCHANGED <<frame, pc, tile, sbRow, sbCol, corrupt, cancelled>>
  BY DEF DecodeBlock, At, endVars
<1>2. Call \in BlockCalls /\ Call = Head(todo)
  BY <1>1, CallTypes DEF Call
<1>3. PICK b : Made(b) /\ blocks' = Append(blocks, b) /\ b \in Decodeds
  <2>1. PICK skip \in {FALSE, frame.skips}, strength \in BOOLEAN :
          LET before == TransmittedBefore(Call.row, Call.col)
              index == UnitIndex(Call.row, Call.col)
          IN /\ strength = (~before[index] /\ ~skip)
             /\ before[index] => ~skip
             /\ transmitted' = IF strength THEN [before EXCEPT ![index] = TRUE] ELSE before
             /\ blocks' = Append(blocks,
                  [row |-> Call.row, col |-> Call.col, w |-> Call.w, h |-> Call.h,
                   tile |-> tile, skip |-> skip, strength |-> strength])
    BY DEF DecodeBlock
  <2>2. skip \in BOOLEAN /\ tile \in Nat
    BY <2>1, FrameTypes DEF WalkInv
  <2> DEFINE made == [row |-> Call.row, col |-> Call.col, w |-> Call.w, h |-> Call.h,
                      tile |-> tile, skip |-> skip, strength |-> strength]
  <2>3. /\ made.row = Call.row /\ made.col = Call.col /\ made.w = Call.w /\ made.h = Call.h
        /\ made.tile = tile /\ made.skip = skip /\ made.strength = strength
    OBVIOUS
  <2>4. blocks' = Append(blocks, made)
    BY <2>1
  <2>5. made \in Decodeds
    <3>1. /\ Call.row \in Nat /\ Call.col \in Nat /\ Call.w \in Nat /\ Call.h \in Nat
          /\ Call.row < frame.rows /\ Call.col < frame.cols
          /\ EvenLength(Call.row, Call.h) /\ EvenLength(Call.col, Call.w)
      BY <1>2 DEF BlockCalls
    <3> QED BY <2>2, <3>1 DEF Decodeds
  <2> HIDE DEF made
  <2>6. Made(made)
    BY <2>1, <2>3 DEF Made
  <2> QED BY <2>4, <2>5, <2>6
<1>4. PICK n \in Nat : n = Len(blocks) /\ DOMAIN blocks = 1 .. n
  BY LenProperties DEF WalkInv
<1>5. /\ DOMAIN Append(blocks, b) = 1 .. n + 1
      /\ \A k \in 1 .. n : Append(blocks, b)[k] = blocks[k]
      /\ Append(blocks, b)[n + 1] = b
  BY <1>3, <1>4 DEF WalkInv
<1> QED BY <1>1, <1>2, <1>3, <1>4, <1>5

LEMMA LiesAfter ==
  ASSUME frame' = frame, BlocksLie, blocks' = blocks
  PROVE  BlocksLie'
BY DEF BlocksLie, Lies

(* The call at hand keeps to the superblock at hand, and so to its tile.   *)
LEMMA CallKept ==
  ASSUME WalkInv, OrderInv, pc = "walk", todo # <<>>, Call.do # "stamp"
  PROVE  /\ OnGrid(Call) /\ Keeps(Call, sbRow, sbCol, frame.mib)
         /\ tile \in DOMAIN frame.tiles
         /\ \A row \in 0 .. frame.rows - 1, col \in 0 .. frame.cols - 1 :
              InRect(row, col, sbRow, sbCol, frame.mib, frame.mib) => InTile(Tile, row, col)
<1>1. Call \in Kept(sbRow, sbCol, frame.mib)
  BY DEF OrderInv, PartsFit, Call
<1>2. /\ tile \in DOMAIN frame.tiles /\ sbRow % frame.mib = 0 /\ sbRow >= Tile.top
      /\ sbRow < Tile.bottom /\ sbCol % frame.mib = 0
      /\ sbCol >= Tile.left /\ sbCol < Tile.right /\ sbRow \in Nat /\ sbCol \in Nat
  BY DEF WalkInv, WalkPlace
<1>3. Tile.top <= sbRow /\ Tile.left <= sbCol
  BY <1>2, TileTypes
<1>4. ASSUME NEW row \in 0 .. frame.rows - 1, NEW col \in 0 .. frame.cols - 1
      PROVE  InRect(row, col, sbRow, sbCol, frame.mib, frame.mib) => InTile(Tile, row, col)
  BY <1>2, <1>3, RootCells
<1> QED BY <1>1, <1>2, <1>4 DEF Kept

LEMMA LieStep == WalkInv /\ OrderInv /\ BlocksLie /\ [Next]_vars => BlocksLie'
<1> SUFFICES ASSUME WalkInv, OrderInv, BlocksLie, [Next]_vars PROVE BlocksLie'
  OBVIOUS
<1>1. CASE DecodeBlock
  <2>1. PICK b \in Decodeds, n \in Nat :
          /\ Made(b) /\ frame' = frame
          /\ DOMAIN blocks = 1 .. n /\ DOMAIN blocks' = 1 .. n + 1
          /\ \A k \in 1 .. n : blocks'[k] = blocks[k]
          /\ blocks'[n + 1] = b
    BY <1>1, BlockMade
  <2>2. /\ todo # <<>> /\ Call.do = "block" /\ pc = "walk" /\ Call \in BlockCalls
    BY <1>1, BlockMade
  <2>3. /\ OnGrid(Call) /\ Keeps(Call, sbRow, sbCol, frame.mib) /\ tile \in DOMAIN frame.tiles
        /\ \A row \in 0 .. frame.rows - 1, col \in 0 .. frame.cols - 1 :
             InRect(row, col, sbRow, sbCol, frame.mib, frame.mib) => InTile(Tile, row, col)
    BY <2>2, CallKept
  <2>4. /\ High(Call) = b.h /\ Wide(Call) = b.w /\ b.row = Call.row /\ b.col = Call.col
        /\ b.tile = tile
    BY <2>1, <2>2 DEF High, Wide, Made
  <2>5. Aligned(b.row, b.h) /\ Aligned(b.col, b.w)
    BY <2>3, <2>4 DEF OnGrid
  <2>6. ASSUME NEW row \in 0 .. frame.rows - 1, NEW col \in 0 .. frame.cols - 1,
               Covers(b, row, col)
        PROVE  InTile(frame.tiles[b.tile], row, col)
    <3>1. /\ b.row \in Nat /\ b.col \in Nat /\ b.h \in Nat /\ b.w \in Nat
          /\ sbRow \in Nat /\ sbCol \in Nat /\ frame.mib \in Nat /\ row \in Int /\ col \in Int
          /\ frame.rows \in Nat /\ frame.cols \in Nat
      BY FrameTypes DEF Decodeds, WalkInv
    <3>2. InRect(row, col, sbRow, sbCol, frame.mib, frame.mib)
      BY <2>3, <2>4, <2>6, <3>1 DEF Keeps, Covers, InRect
    <3> QED BY <2>3, <2>4, <3>2 DEF Tile
  <2>7. Lies(b)
    BY <2>3, <2>4, <2>5, <2>6 DEF Lies
  <2>8. \A k \in 1 .. n + 1 : k = n + 1 \/ k \in 1 .. n
    OBVIOUS
  <2>9. \A k \in 1 .. n + 1 : Lies(blocks'[k])
    BY <2>1, <2>7, <2>8 DEF BlocksLie
  <2> QED BY <2>1, <2>9 DEF BlocksLie, Lies
<1>2. CASE ~DecodeBlock
  <2>1. blocks' = blocks /\ frame' = frame
    BY <1>2 DEF Next, FireStop, StartTile, CancelAtTile, TilesDone, StartRow, CancelAtRow,
       RowsDone, NextSuperblock, GiveUp, SkipNode, ReadPartition, StampContext, SkipBlock,
       CorruptBlock, Returned, vars, blockVars
  <2> QED BY <2>1, LiesAfter
<1> QED BY <1>1, <1>2


-----------------------------------------------------------------------------
(* mvref_has_top_right.  A block at the right edge of a square, not at its *)
(* top, has no top-right corner there: the loop over its sizes ends at a   *)
(* square that is refused.                                                 *)
LEMMA ModOfMod ==
  ASSUME NEW x \in Nat, NEW mib \in {4, 8, 16, 32}, NEW size \in Squares, size <= mib
  PROVE  (x % mib) % size = x % size
<1>1. CASE mib = 4
  BY <1>1 DEF Squares
<1>2. CASE mib = 8
  BY <1>2 DEF Squares
<1>3. CASE mib = 16
  <2>1. CASE size \in {1, 2, 4}
    BY <1>3, <2>1
  <2>2. CASE size \in {8, 16}
    BY <1>3, <2>2
  <2> QED BY <1>3, <2>1, <2>2 DEF Squares
<1>4. CASE mib = 32
  <2>1. CASE size \in {1, 2, 4}
    BY <1>4, <2>1
  <2>2. CASE size \in {8, 16, 32}
    BY <1>4, <2>2
  <2> QED BY <1>4, <2>1, <2>2 DEF Squares
<1> QED BY <1>1, <1>2, <1>3, <1>4

LEMMA FromSquare ==
  ASSUME NEW x \in Nat, NEW top \in Nat, NEW size \in Squares, top % size = 0,
         top <= x, x < top + size
  PROVE  x % size = x - top
<1>1. CASE size \in {1, 2}
  BY <1>1
<1>2. CASE size \in {4, 8}
  BY <1>2
<1>3. CASE size \in {16, 32}
  BY <1>3
<1> QED BY <1>1, <1>2, <1>3 DEF Squares

LEMMA LowestBit ==
  ASSUME NEW x \in Nat, NEW size \in Squares, NEW bs \in Squares, bs < size,
         x % size # 0, x % bs = 0
  PROVE  \E s \in Squares : bs <= s /\ s < size /\ Bit(x, s) /\ x % s = 0
<1>1. \A s \in {1, 2, 4, 8, 16} : x % s = 0 => Bit(x, s) \/ x % (2 * s) = 0
  <2>1. x % 1 = 0 => Bit(x, 1) \/ x % 2 = 0
    BY DEF Bit
  <2>2. x % 2 = 0 => Bit(x, 2) \/ x % 4 = 0
    BY DEF Bit
  <2>3. x % 4 = 0 => Bit(x, 4) \/ x % 8 = 0
    BY DEF Bit
  <2>4. x % 8 = 0 => Bit(x, 8) \/ x % 16 = 0
    BY DEF Bit
  <2>5. x % 16 = 0 => Bit(x, 16) \/ x % 32 = 0
    BY DEF Bit
  <2> QED BY <2>1, <2>2, <2>3, <2>4, <2>5
<1> DEFINE Found(s) == bs <= s /\ s < size /\ Bit(x, s) /\ x % s = 0
<1>2. SUFFICES ASSUME \A s \in Squares : ~Found(s) PROVE FALSE
  OBVIOUS
<1>3. \A s \in {1, 2, 4, 8, 16} : bs <= s /\ s < size /\ x % s = 0 => x % (2 * s) = 0
  BY <1>1, <1>2 DEF Squares
<1> HIDE DEF Found
<1>4. /\ bs <= 1 /\ 1 < size /\ x % 1 = 0 => x % 2 = 0
      /\ bs <= 2 /\ 2 < size /\ x % 2 = 0 => x % 4 = 0
      /\ bs <= 4 /\ 4 < size /\ x % 4 = 0 => x % 8 = 0
      /\ bs <= 8 /\ 8 < size /\ x % 8 = 0 => x % 16 = 0
      /\ bs <= 16 /\ 16 < size /\ x % 16 = 0 => x % 32 = 0
  BY <1>3
<1>5. CASE bs = 1
  BY <1>4, <1>5 DEF Squares
<1>6. CASE bs = 2
  BY <1>4, <1>6 DEF Squares
<1>7. CASE bs = 4
  BY <1>4, <1>7 DEF Squares
<1>8. CASE bs = 8
  BY <1>4, <1>8 DEF Squares
<1>9. CASE bs = 16
  BY <1>4, <1>9 DEF Squares
<1> QED BY <1>5, <1>6, <1>7, <1>8, <1>9 DEF Squares

LEMMA UpperBits ==
  ASSUME NEW x \in Nat, NEW size \in Squares, NEW w \in Squares, NEW t \in Squares,
         x % size = size - w, w <= t, t < size
  PROVE  Bit(x, t)
<1>1. CASE size = 2
  BY <1>1 DEF Squares, Bit
<1>2. CASE size = 4
  <2>1. CASE t = 1
    BY <1>2, <2>1 DEF Squares, Bit
  <2>2. CASE t = 2
    BY <1>2, <2>2 DEF Squares, Bit
  <2> QED BY <1>2, <2>1, <2>2 DEF Squares
<1>3. CASE size = 8
  <2>1. CASE t = 1
    BY <1>3, <2>1 DEF Squares, Bit
  <2>2. CASE t = 2
    BY <1>3, <2>2 DEF Squares, Bit
  <2>3. CASE t = 4
    BY <1>3, <2>3 DEF Squares, Bit
  <2> QED BY <1>3, <2>1, <2>2, <2>3 DEF Squares
<1>4. CASE size = 16
  <2>1. CASE t = 1
    BY <1>4, <2>1 DEF Squares, Bit
  <2>2. CASE t = 2
    BY <1>4, <2>2 DEF Squares, Bit
  <2>3. CASE t = 4
    BY <1>4, <2>3 DEF Squares, Bit
  <2>4. CASE t = 8
    BY <1>4, <2>4 DEF Squares, Bit
  <2> QED BY <1>4, <2>1, <2>2, <2>3, <2>4 DEF Squares
<1>5. CASE size = 32
  <2>1. CASE t = 1
    BY <1>5, <2>1 DEF Squares, Bit
  <2>2. CASE t = 2
    BY <1>5, <2>2 DEF Squares, Bit
  <2>3. CASE t = 4
    BY <1>5, <2>3 DEF Squares, Bit
  <2>4. CASE t = 8
    BY <1>5, <2>4 DEF Squares, Bit
  <2>5. CASE t = 16
    BY <1>5, <2>5 DEF Squares, Bit
  <2> QED BY <1>5, <2>1, <2>2, <2>3, <2>4, <2>5 DEF Squares
<1> QED BY <1>1, <1>2, <1>3, <1>4, <1>5 DEF Squares

LEMMA LastSizeIs ==
  ASSUME NEW call, NEW start \in Squares, NEW b \in Squares, b >= start, ~Climbs(call, b),
         \A s \in Squares : s >= start /\ s < b => Climbs(call, s)
  PROVE  LastSize(call, start) = b
<1> DEFINE IsLast(bs) == /\ bs >= start /\ ~Climbs(call, bs)
                         /\ \A s \in Sizes : s >= start /\ s < bs => Climbs(call, s)
<1>1. Sizes = Squares /\ \A s \in Squares : s \in Nat
  BY DEF Sizes, Squares
<1>2. b \in Sizes /\ IsLast(b)
  BY <1>1
<1>3. ASSUME NEW c \in Sizes, IsLast(c) PROVE c = b
  <2>1. ~ (c < b) /\ ~ (b < c)
    BY <1>1, <1>2, <1>3
  <2> QED BY <1>1, <2>1
<1>4. LastSize(call, start) = CHOOSE bs \in Sizes : IsLast(bs)
  BY DEF LastSize
<1> QED BY <1>2, <1>3, <1>4


(* The square the loop starts from, and whether the top-right corner is    *)
(* found there before the rules for oblong blocks.                         *)
Longer(call) == IF call.w > call.h THEN call.w ELSE call.h
SquareHas(call) ==
  /\ ~ (Bit(call.row % frame.mib, Longer(call)) /\ Bit(call.col % frame.mib, Longer(call)))
  /\ ~Refused(call, LastSize(call, Longer(call)))

LEMMA TopRightRules ==
  ASSUME NEW call, HasTopRight(call)
  PROVE  /\ call.w < call.h => SquareHas(call) \/ (call.col + call.w) % call.h # 0
         /\ call.w > call.h => SquareHas(call) /\ call.row % call.w = 0
         /\ ~ (call.w < call.h) /\ ~ (call.w > call.h) =>
              /\ SquareHas(call)
              /\ ~ (call.part = "VERT_A"
                      /\ Bit(call.row % frame.mib, LastSize(call, Longer(call))))
<1> DEFINE row == call.row % frame.mib
           col == call.col % frame.mib
           start == IF call.w > call.h THEN call.w ELSE call.h
           last == LastSize(call, start)
           square == ~(Bit(row, start) /\ Bit(col, start)) /\ ~Refused(call, last)
<1>1. (CASE call.w < call.h -> square \/ (call.col + call.w) % call.h # 0
         [] call.w > call.h -> square /\ call.row % call.w = 0
         [] OTHER -> square /\ ~(call.part = "VERT_A" /\ Bit(row, last)))
  BY DEF HasTopRight
<1>2. square = SquareHas(call) /\ last = LastSize(call, Longer(call))
  BY DEF SquareHas, Longer
<1> HIDE DEF square, last
<1>3. /\ call.w < call.h => square \/ (call.col + call.w) % call.h # 0
      /\ call.w > call.h => square /\ call.row % call.w = 0
      /\ ~ (call.w < call.h) /\ ~ (call.w > call.h) =>
           square /\ ~(call.part = "VERT_A" /\ Bit(row, last))
  <2>1. CASE call.w < call.h
    BY <1>1, <2>1
  <2>2. CASE call.w > call.h /\ ~ (call.w < call.h)
    BY <1>1, <2>2
  <2>3. CASE ~ (call.w > call.h) /\ ~ (call.w < call.h)
    BY <1>1, <2>3
  <2> QED BY <2>1, <2>2, <2>3
<1> QED BY <1>2, <1>3

(* The right edge of a square: the column has every bit from the block's   *)
(* width up, the row has one, and the loop climbs to the one below it.     *)
LEMMA LoopRefused ==
  ASSUME NEW call, frame.mib \in {4, 8, 16, 32}, call.row \in Nat, call.col \in Nat,
         NEW size \in Squares, size <= frame.mib,
         NEW w \in Squares, NEW bs \in Squares, w <= bs, bs < size, bs = Longer(call),
         call.row % bs = 0, call.row % size # 0, call.col % size = size - w
  PROVE  ~SquareHas(call)
<1>1. PICK mib \in {4, 8, 16, 32} : mib = frame.mib /\ size <= mib
  OBVIOUS
<1>2. PICK row \in Nat, col \in Nat : row = call.row % mib /\ col = call.col % mib
  BY <1>1
<1>3. \A s \in Squares : s <= mib => row % s = call.row % s /\ col % s = call.col % s
  BY <1>2, ModOfMod
<1>4. row % bs = 0 /\ row % size # 0 /\ col % size = size - w
  <2>1. bs <= mib
    BY <1>1 DEF Squares
  <2> QED BY <1>1, <1>3, <2>1
<1>5. PICK s \in Squares : bs <= s /\ s < size /\ Bit(row, s) /\ row % s = 0
  BY <1>4, LowestBit
<1>6. ASSUME NEW t \in Squares, bs <= t, t < size PROVE Bit(col, t)
  <2>1. w <= t
    BY <1>6 DEF Squares
  <2> QED BY <1>4, <1>6, <2>1, UpperBits
<1>7. CASE s = bs
  <2>1. Bit(row, bs) /\ Bit(col, bs)
    BY <1>5, <1>6, <1>7
  <2> QED BY <1>1, <1>2, <2>1 DEF SquareHas
<1>8. CASE s # bs
  <2>1. PICK b \in Squares : s = 2 * b /\ bs <= b
    <3>1. s \in {2, 4, 8, 16}
      BY <1>5, <1>8 DEF Squares
    <3>2. s = 2 * 1 \/ s = 2 * 2 \/ s = 2 * 4 \/ s = 2 * 8
      BY <3>1
    <3> QED BY <1>5, <1>8, <3>2 DEF Squares
  <2>2. /\ \A t \in Squares : t \in Nat
        /\ b < mib /\ b < size
    BY <1>1, <1>5, <2>1 DEF Squares
  <2>3. Bit(col, b) /\ Bit(col, 2 * b) /\ Bit(row, 2 * b)
    BY <1>5, <1>6, <2>1, <2>2
  <2>4. Refused(call, b)
    BY <1>1, <1>2, <2>2, <2>3 DEF Refused
  <2>5. ASSUME NEW t \in Squares, t >= bs, t < b PROVE Climbs(call, t)
    <3>1. t < mib /\ t < size /\ bs <= t
      BY <1>1, <2>2, <2>5
    <3>2. Bit(col, t)
      BY <1>6, <3>1
    <3>3. ~Bit(row, 2 * t)
      <4>1. row % s = 0 /\ s \in {2, 4, 8, 16} /\ 2 * t < s /\ t \in {1, 2, 4, 8}
        BY <1>5, <2>1, <2>2, <2>5 DEF Squares
      <4>2. CASE s \in {2, 4}
        BY <4>1, <4>2 DEF Bit
      <4>3. CASE s = 8
        BY <4>1, <4>3 DEF Bit
      <4>4. CASE s = 16
        BY <4>1, <4>4 DEF Bit
      <4> QED BY <4>1, <4>2, <4>3, <4>4
    <3> QED BY <1>1, <1>2, <3>1, <3>2, <3>3 DEF Climbs, Refused
  <2>6. LastSize(call, bs) = b
    BY <2>1, <2>2, <2>4, <2>5, LastSizeIs DEF Climbs
  <2> QED BY <2>4, <2>6 DEF SquareHas
<1> QED BY <1>7, <1>8

LEMMA NoneAtRightEdge ==
  ASSUME frame.mib \in {4, 8, 16, 32}, NEW call, call.do = "block", OnGrid(call),
         call.row \in Nat, call.col \in Nat,
         NEW size \in Squares, size <= frame.mib, NEW top \in Nat, NEW start \in Nat,
         Aligned(top, size), Aligned(start, size), Keeps(call, top, start, size),
         top < call.row, call.col + call.w = start + size
  PROVE  ~HasTopRight(call)
<1>1. PICK w \in Squares, h \in Squares : w = call.w /\ h = call.h
  BY DEF OnGrid, Aligned, High, Wide
<1>2. PICK row \in Nat, col \in Nat : row = call.row /\ col = call.col
  OBVIOUS
<1>3. /\ row % h = 0 /\ col % w = 0 /\ top % size = 0 /\ start % size = 0
      /\ top < row /\ row + h <= top + size /\ start <= col /\ col + w = start + size
      /\ size \in Nat /\ w \in Nat /\ h \in Nat /\ h > 0 /\ w > 0
  BY <1>1, <1>2 DEF OnGrid, Aligned, High, Wide, Keeps, Squares
<1>4. row % size = row - top /\ col % size = col - start
  <2>1. top <= row /\ row < top + size /\ start <= col /\ col < start + size
    BY <1>3
  <2> QED BY <1>3, <2>1, FromSquare
<1>5. row % size # 0 /\ col % size = size - w
  BY <1>3, <1>4
<1>6. h < size /\ w <= size
  BY <1>3
<1>7. Longer(call) = IF w > h THEN w ELSE h
  BY <1>1 DEF Longer
<1>8. ASSUME HasTopRight(call), w > h PROVE FALSE
  <2>1. SquareHas(call)
    BY <1>1, <1>8, TopRightRules
  <2>2. row % w = 0
    BY <1>1, <1>2, <1>8, TopRightRules
  <2>3. w < size
    BY <1>3, <1>5, <1>6, <2>2
  <2>4. ~SquareHas(call)
    <3>1. w <= w
      BY <1>3
    <3> QED BY <1>2, <1>5, <1>7, <1>8, <2>2, <2>3, <3>1, LoopRefused
  <2> QED BY <2>1, <2>4
<1>9. ASSUME ~ (w > h) PROVE ~SquareHas(call)
  <2>1. w <= h /\ h = Longer(call)
    BY <1>3, <1>7, <1>9
  <2> QED BY <1>2, <1>3, <1>5, <1>6, <2>1, LoopRefused
<1>10. (col + w) % h = 0
  <2>1. PICK n \in Nat : n = start + size
    BY <1>3
  <2>2. n % size = 0
    BY <1>3, <2>1 DEF Squares
  <2>3. n % h = 0
    <3>1. CASE h = 1
      BY <3>1
    <3>2. CASE h = 2
      BY <1>6, <2>2, <3>2 DEF Squares
    <3>3. CASE h = 4
      BY <1>6, <2>2, <3>3 DEF Squares
    <3>4. CASE h = 8
      BY <1>6, <2>2, <3>4 DEF Squares
    <3>5. CASE h = 16
      BY <1>6, <2>2, <3>5 DEF Squares
    <3> QED BY <1>6, <3>1, <3>2, <3>3, <3>4, <3>5 DEF Squares
  <2> QED BY <1>3, <2>1, <2>3
<1> QED BY <1>1, <1>2, <1>8, <1>9, <1>10, TopRightRules

(* The second square of a VERT_A has none either: the right half comes     *)
(* after it.                                                               *)
LEMMA NoneInVertA ==
  ASSUME frame.mib \in {4, 8, 16, 32}, NEW call, NEW other, RightHalf(call, other),
         OnGrid(call), call.row \in Nat, call.col \in Nat
  PROVE  ~HasTopRight(call)
<1>1. PICK h \in Squares :
        /\ call.do = "block" /\ call.part = "VERT_A" /\ h = call.w /\ h = call.h
        /\ h < frame.mib /\ Bit(call.row, h) /\ ~Bit(call.col, h)
  BY DEF RightHalf, OnGrid, Aligned, High, Wide
<1>2. PICK row \in Nat, col \in Nat, mib \in {4, 8, 16, 32} :
        row = call.row /\ col = call.col /\ mib = frame.mib
  OBVIOUS
<1>3. \A x \in Nat : Bit(x % mib, h) <=> Bit(x, h)
  <2> SUFFICES ASSUME NEW x \in Nat PROVE Bit(x % mib, h) <=> Bit(x, h)
    OBVIOUS
  <2>1. h < mib
    BY <1>1, <1>2
  <2>2. CASE mib = 4
    BY <2>1, <2>2 DEF Squares, Bit
  <2>3. CASE mib = 8
    BY <2>1, <2>3 DEF Squares, Bit
  <2>4. CASE mib = 16
    BY <2>1, <2>4 DEF Squares, Bit
  <2>5. CASE mib = 32
    BY <2>1, <2>5 DEF Squares, Bit
  <2> QED BY <2>2, <2>3, <2>4, <2>5
<1>4. Bit(row % mib, h) /\ ~Bit(col % mib, h)
  BY <1>1, <1>2, <1>3
<1>5. ~Climbs(call, h)
  BY <1>2, <1>4 DEF Climbs
<1>6. \A s \in Squares : s \in Nat
  BY DEF Squares
<1>7. h >= h /\ \A s \in Squares : ~ (s >= h /\ s < h)
  BY <1>6
<1>8. LastSize(call, h) = h
  BY <1>5, <1>7, LastSizeIs
<1>9. Longer(call) = h /\ ~ (call.w < call.h) /\ ~ (call.w > call.h)
  BY <1>1, <1>6 DEF Longer
<1> QED BY <1>1, <1>2, <1>4, <1>8, <1>9, TopRightRules


-----------------------------------------------------------------------------
(* A cancelled frame walks no row again.                                   *)
CancelInv == cancelled => fired /\ pc \notin {"row", "walk"}

LEMMA CancelStep == CancelInv /\ [Next]_vars => CancelInv'
<1> SUFFICES ASSUME CancelInv, [Next]_vars PROVE CancelInv'
  OBVIOUS
<1>1. CASE FireStop \/ Returned \/ UNCHANGED vars
  BY <1>1 DEF FireStop, Returned, vars, endVars, CancelInv
<1>2. CASE CancelAtTile \/ CancelAtRow
  BY <1>2 DEF CancelAtTile, CancelAtRow, EndTile, StopPolled, CancelInv
<1>3. CASE StartTile \/ TilesDone
  BY <1>3 DEF StartTile, TilesDone, endVars, CancelInv
<1>4. CASE StartRow \/ RowsDone \/ NextSuperblock \/ GiveUp
  BY <1>4 DEF StartRow, RowsDone, NextSuperblock, GiveUp, endVars, CancelInv
<1>5. CASE SkipNode \/ ReadPartition \/ StampContext \/ SkipBlock \/ CorruptBlock \/ DecodeBlock
  BY <1>5 DEF SkipNode, ReadPartition, StampContext, SkipBlock, CorruptBlock, DecodeBlock, At,
     endVars, CancelInv
<1> QED BY <1>1, <1>2, <1>3, <1>4, <1>5 DEF Next

(* A cell of the tile that no superblock and no call still holds is in a   *)
(* block of the tile.                                                      *)
LEMMA DecodedThere ==
  ASSUME WalkInv, CellsInv, BlocksLie, pc = "walk", todo # <<>>, ~corrupt, ~cancelled,
         NEW row \in 0 .. frame.rows - 1, NEW col \in 0 .. frame.cols - 1,
         Inside(row, col), ~Waits(row, col),
         ~Over(Call, row, col), ~Called(Tail(todo), row, col)
  PROVE  \E k \in DOMAIN blocks : blocks[k].tile = tile /\ Covers(blocks[k], row, col)
<1>1. tile \in DOMAIN frame.tiles
  BY DEF WalkInv, WalkPlace
<1>2. InHand(row, col)
  BY <1>1 DEF InHand, Inside
<1>3. ~Ahead(row, col)
  BY <1>2, CellInTile DEF Ahead
<1>4. ~Called(todo, row, col)
  BY FirstCall DEF WalkInv, Call
<1>5. Blocked(row, col)
  BY <1>3, <1>4 DEF CellsInv, Owned
<1>6. PICK k \in DOMAIN blocks : Covers(blocks[k], row, col)
  BY <1>5 DEF Blocked
<1>7. blocks[k].tile \in DOMAIN frame.tiles /\ InTile(frame.tiles[blocks[k].tile], row, col)
  BY <1>6 DEF BlocksLie, Lies
<1>8. blocks[k].tile = tile
  <2>1. FrameOK(frame)
    BY WalkAssumption DEF WalkInv
  <2>2. PICK i \in DOMAIN frame.tiles :
          \A j \in DOMAIN frame.tiles : InTile(frame.tiles[j], row, col) <=> j = i
    BY <2>1 DEF FrameOK, TilesShareOut
  <2> QED BY <1>1, <1>7, <2>2 DEF Inside, Tile
<1> QED BY <1>6, <1>8

(* No later call is over a cell above or to the left of the block at hand  *)
(* or of its last row and column.                                          *)
LEMMA NotOverBefore ==
  ASSUME frame.mib \in Nat, NEW call \in BlockCalls, NEW other \in AnyCall, InOrder(call, other),
         NEW row \in Int, NEW col \in Int,
         row < call.row + call.h, col < call.col + call.w
  PROVE  ~Over(other, row, col)
<1>1. CASE other.do = "stamp"
  BY <1>1 DEF Over
<1>2. CASE other.do # "stamp"
  <2>1. /\ call.do = "block" /\ High(call) = call.h /\ Wide(call) = call.w
        /\ call.row \in Nat /\ call.col \in Nat /\ call.h \in Nat /\ call.w \in Nat
        /\ other.row \in Nat /\ other.col \in Nat
    BY <1>2 DEF BlockCalls, AnyCall, NodeCalls, StampCalls, High, Wide
  <2>2. Over(other, row, col) => other.row <= row /\ other.col <= col
    BY <2>1 DEF Over, Covers
  <2>3. CASE Behind(other, call.row, call.col, High(call), Wide(call))
    BY <2>1, <2>2, <2>3 DEF Behind
  <2>4. CASE OutOfSquare(call, other)
    <3>1. PICK top \in Nat, start \in Nat, size \in Squares :
            Keeps(call, top, start, size) /\ Behind(other, top, start, size, size)
      BY <2>4 DEF OutOfSquare
    <3>2. size \in Nat
      BY DEF Squares
    <3> QED BY <2>1, <2>2, <3>1, <3>2 DEF Keeps, Behind
  <2>5. CASE RightHalf(call, other)
    BY <2>1, <2>2, <2>5 DEF RightHalf
  <2>6. call.do # "stamp"
    BY <2>1
  <2> QED BY <1>2, <2>3, <2>4, <2>5, <2>6 DEF InOrder
<1> QED BY <1>1, <1>2

(* Nor over its top-right corner, where mvref_has_top_right finds one.     *)
LEMMA NotOverTopRight ==
  ASSUME WalkInv, NEW call \in BlockCalls, OnGrid(call), HasTopRight(call),
         NEW other \in AnyCall, InOrder(call, other)
  PROVE  ~Over(other, call.row - 1, call.col + call.w)
<1>1. CASE other.do = "stamp"
  BY <1>1 DEF Over
<1>2. CASE other.do # "stamp"
  <2>1. /\ call.do = "block" /\ High(call) = call.h /\ Wide(call) = call.w
        /\ call.row \in Nat /\ call.col \in Nat /\ call.h \in Nat /\ call.w \in Nat
        /\ other.row \in Nat /\ other.col \in Nat /\ call.do # "stamp"
    BY <1>2 DEF BlockCalls, AnyCall, NodeCalls, StampCalls, High, Wide
  <2>2. SUFFICES ASSUME other.row <= call.row - 1, other.col <= call.col + call.w PROVE FALSE
    BY <2>1 DEF Over, Covers
  <2>3. frame.mib \in {4, 8, 16, 32}
    BY MibValues
  <2>4. ~Behind(other, call.row, call.col, High(call), Wide(call))
    BY <2>1, <2>2 DEF Behind
  <2>5. ~RightHalf(call, other)
    BY <2>1, <2>3, NoneInVertA
  <2>6. ASSUME OutOfSquare(call, other) PROVE FALSE
    <3>1. PICK top \in Nat, start \in Nat, size \in Squares :
            /\ size <= frame.mib /\ Aligned(top, size) /\ Aligned(start, size)
            /\ Keeps(call, top, start, size) /\ Behind(other, top, start, size, size)
      BY <2>6 DEF OutOfSquare
    <3>2. size \in Nat
      BY DEF Squares
    <3>3. top < call.row /\ call.col + call.w = start + size
      BY <2>1, <2>2, <3>1, <3>2 DEF Keeps, Behind
    <3> QED BY <2>1, <2>3, <3>1, <3>3, NoneAtRightEdge
  <2> QED BY <1>2, <2>1, <2>4, <2>5, <2>6 DEF InOrder
<1> QED BY <1>1, <1>2

(* Nor, two rows above it or more, over the other column of its 8x8.       *)
LEMMA NotOverRight ==
  ASSUME frame.mib \in Nat, NEW call \in BlockCalls, NEW other \in AnyCall, InOrder(call, other),
         call.w = 1, call.col % 2 = 0, NEW row \in Int, row + 2 <= call.row
  PROVE  ~Over(other, row, call.col + 1)
<1>1. CASE other.do = "stamp"
  BY <1>1 DEF Over
<1>2. CASE other.do # "stamp"
  <2>1. /\ call.do = "block" /\ High(call) = call.h /\ Wide(call) = call.w
        /\ call.row \in Nat /\ call.col \in Nat /\ call.h \in Nat /\ call.w \in Nat
        /\ other.row \in Nat /\ other.col \in Nat /\ call.do # "stamp"
    BY <1>2 DEF BlockCalls, AnyCall, NodeCalls, StampCalls, High, Wide
  <2>2. SUFFICES ASSUME other.row <= row, other.col <= call.col + 1 PROVE FALSE
    BY <2>1 DEF Over, Covers
  <2>3. ~Behind(other, call.row, call.col, High(call), Wide(call))
    BY <2>1, <2>2 DEF Behind
  <2>4. ~RightHalf(call, other)
    BY <2>1, <2>2 DEF RightHalf
  <2>5. ASSUME OutOfSquare(call, other) PROVE FALSE
    <3>1. PICK top \in Nat, start \in Nat, size \in Squares :
            /\ Aligned(start, size)
            /\ Keeps(call, top, start, size) /\ Behind(other, top, start, size, size)
      BY <2>5 DEF OutOfSquare
    <3>2. size \in Nat
      BY DEF Squares
    <3>3. start + size = call.col + 1 /\ size # 1
      BY <2>1, <2>2, <3>1, <3>2 DEF Keeps, Behind
    <3>4. start % 2 = 0 /\ size % 2 = 0
      BY <3>1, <3>3 DEF Aligned, Squares
    <3> QED BY <2>1, <3>2, <3>3, <3>4
  <2> QED BY <1>2, <2>1, <2>3, <2>4, <2>5 DEF InOrder
<1> QED BY <1>1, <1>2

(* Nor, two columns to the left or more, over the other row of its 8x8.    *)
LEMMA NotOverBelow ==
  ASSUME frame.mib \in Nat, NEW call \in BlockCalls, NEW other \in AnyCall, InOrder(call, other),
         OnGrid(call), call.h = 1, call.row % 2 = 0, NEW col \in Int, col + 2 <= call.col
  PROVE  ~Over(other, call.row + 1, col)
<1>1. CASE other.do = "stamp"
  BY <1>1 DEF Over
<1>2. CASE other.do # "stamp"
  <2>1. /\ call.do = "block" /\ High(call) = call.h /\ Wide(call) = call.w
        /\ call.row \in Nat /\ call.col \in Nat /\ call.h \in Nat /\ call.w \in Nat
        /\ other.row \in Nat /\ other.col \in Nat /\ call.do # "stamp"
    BY <1>2 DEF BlockCalls, AnyCall, NodeCalls, StampCalls, High, Wide
  <2>2. SUFFICES ASSUME other.row <= call.row + 1, other.col <= col PROVE FALSE
    BY <2>1 DEF Over, Covers
  <2>3. ~Behind(other, call.row, call.col, High(call), Wide(call))
    BY <2>1, <2>2 DEF Behind
  <2>4. ~RightHalf(call, other)
    BY <2>1, <2>2 DEF RightHalf
  <2>5. ASSUME OutOfSquare(call, other) PROVE FALSE
    <3>1. PICK top \in Nat, start \in Nat, size \in Squares :
            /\ Aligned(top, size)
            /\ Keeps(call, top, start, size) /\ Behind(other, top, start, size, size)
      BY <2>5 DEF OutOfSquare
    <3>2. size \in Nat
      BY DEF Squares
    <3>3. start <= call.col /\ call.col < start + size /\ top <= call.row
          /\ call.row + 1 <= top + size /\ other.row >= top /\ other.col + size >= start
          /\ (other.row >= top + size \/ other.col >= start + size)
      <4>1. call.w > 0
        BY <2>1 DEF OnGrid, Aligned, Squares
      <4> QED BY <2>1, <3>1, <3>2, <4>1 DEF Keeps, Behind
    <3>4. top + size = call.row + 1 /\ size # 1
      BY <2>1, <2>2, <3>2, <3>3
    <3>5. top % 2 = 0 /\ size % 2 = 0
      BY <3>1, <3>4 DEF Aligned, Squares
    <3> QED BY <2>1, <3>2, <3>4, <3>5
  <2> QED BY <1>2, <2>1, <2>3, <2>4, <2>5 DEF InOrder
<1> QED BY <1>1, <1>2

(* A scan's distance keeps it to the tile, its places to the block, but    *)
(* for a block one cell long on the grid of 8x8: there a further scan      *)
(* looks at the second cell of the 8x8.                                    *)
LEMMA DistanceReaches ==
  ASSUME NEW x \in Nat, NEW length, NEW start \in Nat, start <= x,
         NEW d \in Distances(x, length, start)
  PROVE  d \in Nat /\ d >= 1 /\ start <= x - d
<1>1. d \in 1 .. 5 /\ d <= Reach(x, length, start)
  BY DEF Distances, Adjust
<1>2. Reach(x, length, start) <= x - start
  BY DEF Reach, Adjust
<1>3. Reach(x, length, start) \in Int
  BY DEF Reach, Adjust
<1> QED BY <1>1, <1>2, <1>3

LEMMA AlongPlace ==
  ASSUME NEW x \in Nat, NEW length \in Squares, x % length = 0,
         NEW edge \in Nat, edge % 2 = 0, x < edge, NEW d \in Nat, d >= 1,
         NEW y \in Along(x, length, d, edge)
  PROVE  /\ y \in Nat /\ x <= y /\ y < edge
         /\ y < x + length \/ (length = 1 /\ x % 2 = 0 /\ y = x + 1 /\ d >= 2)
<1>1. PICK i \in Strides(x, length, d, edge) :
        y = x + i + (IF d > 1 /\ ~OffGrid(x, length) THEN 1 ELSE 0)
  BY DEF Along
<1>2. i \in Nat /\ i < length /\ x + i < edge /\ (d > 1 => i % 2 = 0)
  BY DEF Strides, Squares
<1>3. CASE d = 1
  <2>1. y = x + i /\ length \in Nat
    BY <1>1, <1>2, <1>3 DEF Squares, OffGrid
  <2> QED BY <1>2, <2>1
<1>4. CASE d > 1 /\ length = 1
  <2>1. i = 0
    BY <1>2, <1>4
  <2>2. CASE x % 2 = 1
    BY <1>1, <1>4, <2>1, <2>2 DEF OffGrid
  <2>3. CASE x % 2 = 0
    <3>1. y = x + 1
      BY <1>1, <1>4, <2>1, <2>3 DEF OffGrid
    <3> QED BY <1>4, <2>3, <3>1
  <2> QED BY <2>2, <2>3
<1>5. CASE d > 1 /\ length # 1
  <2>1. y = x + i + 1
    BY <1>1, <1>5 DEF OffGrid
  <2>2. length % 2 = 0 /\ x % 2 = 0 /\ i % 2 = 0 /\ length \in Nat
    BY <1>2, <1>5 DEF Squares
  <2> QED BY <1>2, <2>1, <2>2
<1> QED BY <1>3, <1>4, <1>5

(* Each cell a block reads is in a block of its tile already.              *)
LEMMA ReadCellDecoded ==
  ASSUME WalkInv, CellsInv, OrderInv, BlocksLie, CancelInv, At("block"), ~corrupt,
         NEW row, NEW col, <<row, col>> \in CellsRead(Call)
  PROVE  \E k \in DOMAIN blocks : blocks[k].tile = tile /\ Covers(blocks[k], row, col)
<1>1. /\ pc = "walk" /\ todo # <<>> /\ Call.do = "block" /\ ~cancelled
      /\ Call \in BlockCalls /\ Call = Head(todo)
  BY CallTypes DEF At, CancelInv, Call
<1>2. PICK top \in Nat, start \in Nat, h \in Nat, w \in Nat :
        top = Call.row /\ start = Call.col /\ h = Call.h /\ w = Call.w
  BY <1>1 DEF BlockCalls
<1>3. PICK mib \in Nat, rows \in Nat, cols \in Nat :
        mib = frame.mib /\ rows = frame.rows /\ cols = frame.cols
  BY FrameTypes
<1>4. /\ OnGrid(Call) /\ tile \in DOMAIN frame.tiles
      /\ Keeps(Call, sbRow, sbCol, frame.mib) /\ High(Call) = h /\ Wide(Call) = w
      /\ \A r \in 0 .. frame.rows - 1, c \in 0 .. frame.cols - 1 :
           InRect(r, c, sbRow, sbCol, frame.mib, frame.mib) => InTile(Tile, r, c)
  BY <1>1, <1>2, CallKept DEF High, Wide
<1>5. /\ sbRow \in Nat /\ sbCol \in Nat
      /\ Tile.top \in Nat /\ Tile.left \in Nat /\ Tile.bottom \in Nat /\ Tile.right \in Nat
      /\ Tile.bottom <= rows /\ Tile.right <= cols
  BY <1>3, <1>4, TileTypes DEF WalkInv
<1>6. /\ sbRow <= top /\ top + h <= sbRow + mib /\ sbCol <= start /\ start + w <= sbCol + mib
      /\ h \in Squares /\ w \in Squares /\ top < rows /\ start < cols
  BY <1>1, <1>2, <1>3, <1>4 DEF Keeps, OnGrid, Aligned, BlockCalls
<1>7. h > 0 /\ w > 0
  BY <1>6 DEF Squares
<1>8. /\ Tile.top <= top /\ top < Tile.bottom /\ Tile.left <= start /\ start < Tile.right
  <2>1. top \in 0 .. rows - 1 /\ start \in 0 .. cols - 1
    BY <1>2, <1>3, <1>6
  <2>2. InRect(top, start, sbRow, sbCol, mib, mib)
    BY <1>2, <1>3, <1>5, <1>6, <1>7 DEF InRect
  <2>3. InTile(Tile, top, start)
    BY <1>3, <1>4, <2>1, <2>2, Zenon
  <2> QED BY <1>2, <1>5, <2>3 DEF InTile
<1>9. \A l \in DOMAIN Tail(todo) :
        InOrder(Call, Tail(todo)[l]) /\ Tail(todo)[l] \in AnyCall
  <2>1. todo \in Seq(Kept(sbRow, sbCol, frame.mib)) /\ Ordered(todo)
    BY <1>1 DEF OrderInv, PartsFit
  <2>2. \A l \in DOMAIN Tail(todo) : InOrder(Head(todo), Tail(todo)[l])
    BY <1>1, <2>1, TailOrdered
  <2>3. Tail(todo) \in Seq(AnyCall)
    BY <1>1, CallTypes
  <2>4. \A l \in DOMAIN Tail(todo) : Tail(todo)[l] \in AnyCall
    BY <2>3
  <2> QED BY <1>1, <2>2, <2>4
<1>10. \A r, c \in Int : Over(Call, r, c) => r >= top /\ c >= start
  <2>1. PICK b : b = Call
    OBVIOUS
  <2>2. b.do = "block" /\ b.row = top /\ b.col = start /\ b.h = h /\ b.w = w
    BY <1>1, <1>2, <2>1
  <2>3. \A r, c \in Int : Over(b, r, c) => r >= top /\ c >= start
    BY <2>2 DEF Over, Covers
  <2> QED BY <2>1, <2>3
<1>11. Waits(row, col) => row >= sbRow + mib \/ (row >= sbRow /\ col >= sbCol + mib)
  BY <1>1, <1>3, Zenon DEF Waits
<1>12. ASSUME row \in Int, col \in Int, Inside(row, col), row < top \/ col < start,
              row < sbRow + mib, row < sbRow \/ col < sbCol + mib,
              \A l \in DOMAIN Tail(todo) : ~Over(Tail(todo)[l], row, col)
       PROVE  \E k \in DOMAIN blocks : blocks[k].tile = tile /\ Covers(blocks[k], row, col)
  <2>1. row \in 0 .. rows - 1 /\ col \in 0 .. cols - 1
    <3>1. /\ row \in Int /\ Tile.top <= row /\ row <= Tile.bottom - 1
          /\ col \in Int /\ Tile.left <= col /\ col <= Tile.right - 1
      BY <1>12 DEF Inside, InTile
    <3> QED BY <1>5, <3>1
  <2>2. ~Called(Tail(todo), row, col)
    BY <1>12 DEF Called
  <2>3. ~Over(Call, row, col)
    BY <1>10, <1>12
  <2>4. ~Waits(row, col)
    BY <1>5, <1>11, <1>12
  <2> QED BY <1>1, <1>3, <1>12, <2>1, <2>2, <2>3, <2>4, DecodedThere
<1>13. ASSUME row \in Int, col \in Int, Inside(row, col), row < top \/ col < start,
              row < top + h, col < start + w
       PROVE  \E k \in DOMAIN blocks : blocks[k].tile = tile /\ Covers(blocks[k], row, col)
  <2>1. \A l \in DOMAIN Tail(todo) : ~Over(Tail(todo)[l], row, col)
    BY <1>1, <1>2, <1>3, <1>9, <1>13, NotOverBefore
  <2>2. row < sbRow + mib /\ col < sbCol + mib
    BY <1>5, <1>6, <1>7, <1>13
  <2> QED BY <1>12, <1>13, <2>1, <2>2
<1>14. ASSUME row = top - 1, col = start + w, Inside(row, col), HasTopRight(Call)
       PROVE  \E k \in DOMAIN blocks : blocks[k].tile = tile /\ Covers(blocks[k], row, col)
  <2>1. \A l \in DOMAIN Tail(todo) : ~Over(Tail(todo)[l], row, col)
    BY <1>1, <1>2, <1>4, <1>9, <1>14, NotOverTopRight
  <2>2. ~ (sbRow < top /\ start + w = sbCol + mib)
    <3>1. /\ sbRow % frame.mib = 0 /\ sbCol % frame.mib = 0 /\ frame.mib \in Squares
          /\ frame.mib \in {4, 8, 16, 32} /\ frame.mib <= frame.mib
      BY <1>1, <1>3, MibValues DEF WalkInv, WalkPlace
    <3>2. Aligned(sbRow, frame.mib) /\ Aligned(sbCol, frame.mib)
      BY <3>1 DEF Aligned
    <3> QED BY <1>1, <1>2, <1>3, <1>4, <1>5, <1>14, <3>1, <3>2, NoneAtRightEdge
  <2>3. row \in Int /\ col \in Int /\ row < top /\ row < sbRow + mib
        /\ (row < sbRow \/ col < sbCol + mib)
    BY <1>5, <1>6, <1>7, <1>14, <2>2
  <2> QED BY <1>12, <1>14, <2>1, <2>3
(* The grid: superblocks and the frame's edges are even. *)
<1>15. /\ rows % 2 = 0 /\ cols % 2 = 0
       /\ (sbRow + mib) % 2 = 0 /\ (sbCol + mib) % 2 = 0
       /\ top % h = 0 /\ start % w = 0
  <2>1. FrameOK(frame) /\ UnitMi \in {4, 8, 16}
    BY WalkAssumption DEF WalkInv
  <2>2. mib \in {4, 8, 16, 32} /\ sbRow % mib = 0 /\ sbCol % mib = 0
    BY <1>1, <1>3, MibValues DEF WalkInv, WalkPlace
  <2>3. (sbRow + mib) % 2 = 0 /\ (sbCol + mib) % 2 = 0
    <3>1. sbRow % 2 = 0 /\ sbCol % 2 = 0 /\ mib % 2 = 0
      BY <1>5, <2>2, GridStep
    <3> QED BY <1>3, <1>5, <3>1
  <2>4. top % h = 0 /\ start % w = 0
    BY <1>2, <1>4 DEF OnGrid, Aligned
  <2> QED BY <1>3, <2>1, <2>3, <2>4 DEF FrameOK
<1>16. ASSUME <<row, col>> \in ScannedRows(Call)
       PROVE  \E k \in DOMAIN blocks : blocks[k].tile = tile /\ Covers(blocks[k], row, col)
  <2>1. PICK d \in Distances(top, h, Tile.top) :
          row = top - d /\ col \in Along(start, w, d, cols)
    BY <1>2, <1>3, <1>16 DEF ScannedRows
  <2>2. d \in Nat /\ d >= 1 /\ Tile.top <= top - d
    BY <1>5, <1>8, <2>1, DistanceReaches
  <2>3. /\ col \in Nat /\ start <= col /\ col < cols
        /\ col < start + w \/ (w = 1 /\ start % 2 = 0 /\ col = start + 1 /\ d >= 2)
    BY <1>6, <1>15, <2>1, <2>2, AlongPlace
  <2>4. col < sbCol + mib
    BY <1>3, <1>5, <1>6, <1>15, <2>3
  <2>5. InTile(Tile, top, col)
    <3>1. top \in 0 .. rows - 1 /\ col \in 0 .. cols - 1
      BY <1>2, <1>3, <1>6, <2>3
    <3>2. InRect(top, col, sbRow, sbCol, mib, mib)
      BY <1>2, <1>3, <1>5, <1>6, <1>7, <2>3, <2>4 DEF InRect
    <3> QED BY <1>3, <1>4, <3>1, <3>2, Zenon
  <2>6. row \in Int /\ row < top /\ Inside(row, col)
    BY <1>2, <1>5, <1>8, <2>1, <2>2, <2>5 DEF Inside, InTile
  <2>7. CASE col < start + w
    BY <1>2, <1>7, <1>13, <2>3, <2>6, <2>7
  <2>8. CASE w = 1 /\ start % 2 = 0 /\ col = start + 1 /\ d >= 2
    <3>1. row + 2 <= top
      BY <1>2, <2>1, <2>2, <2>8
    <3>2. \A l \in DOMAIN Tail(todo) : ~Over(Tail(todo)[l], row, start + 1)
      BY <1>1, <1>2, <1>3, <1>9, <2>6, <2>8, <3>1, NotOverRight
    <3>3. row < sbRow + mib
      BY <1>5, <1>6, <1>7, <2>6
    <3> QED BY <1>12, <2>3, <2>4, <2>6, <2>8, <3>2, <3>3
  <2> QED BY <2>3, <2>7, <2>8
<1>17. ASSUME <<row, col>> \in ScannedCols(Call)
       PROVE  \E k \in DOMAIN blocks : blocks[k].tile = tile /\ Covers(blocks[k], row, col)
  <2>1. PICK d \in Distances(start, w, Tile.left) :
          col = start - d /\ row \in Along(top, h, d, rows)
    BY <1>2, <1>3, <1>17 DEF ScannedCols
  <2>2. d \in Nat /\ d >= 1 /\ Tile.left <= start - d
    BY <1>5, <1>8, <2>1, DistanceReaches
  <2>3. /\ row \in Nat /\ top <= row /\ row < rows
        /\ row < top + h \/ (h = 1 /\ top % 2 = 0 /\ row = top + 1 /\ d >= 2)
    BY <1>6, <1>15, <2>1, <2>2, AlongPlace
  <2>4. row < sbRow + mib
    BY <1>3, <1>5, <1>6, <1>15, <2>3
  <2>5. InTile(Tile, row, start)
    <3>1. row \in 0 .. rows - 1 /\ start \in 0 .. cols - 1
      BY <1>2, <1>3, <1>6, <2>3
    <3>2. InRect(row, start, sbRow, sbCol, mib, mib)
      BY <1>2, <1>3, <1>5, <1>6, <1>7, <2>3, <2>4 DEF InRect
    <3> QED BY <1>3, <1>4, <3>1, <3>2, Zenon
  <2>6. col \in Int /\ col < start /\ Inside(row, col)
    BY <1>2, <1>5, <1>8, <2>1, <2>2, <2>5 DEF Inside, InTile
  <2>7. CASE row < top + h
    BY <1>2, <1>7, <1>13, <2>3, <2>6, <2>7
  <2>8. CASE h = 1 /\ top % 2 = 0 /\ row = top + 1 /\ d >= 2
    <3>1. col + 2 <= start
      BY <1>2, <2>1, <2>2, <2>8
    <3>2. \A l \in DOMAIN Tail(todo) : ~Over(Tail(todo)[l], top + 1, col)
      BY <1>1, <1>2, <1>3, <1>4, <1>9, <2>6, <2>8, <3>1, NotOverBelow
    <3>3. col < sbCol + mib
      BY <1>5, <1>6, <1>7, <2>6
    <3> QED BY <1>12, <2>3, <2>4, <2>6, <2>8, <3>2, <3>3
  <2> QED BY <2>3, <2>7, <2>8
<1>18. \/ row = top - 1 /\ col = start /\ UpAvailable(top)
       \/ row = top /\ col = start - 1 /\ LeftAvailable(start)
       \/ <<row, col>> \in ScannedRows(Call) \/ <<row, col>> \in ScannedCols(Call)
       \/ row = top - 1 /\ col = start - 1 /\ Inside(row, col)
       \/ row = top - 1 /\ col = start + w /\ Inside(row, col) /\ HasTopRight(Call)
  BY <1>2 DEF CellsRead
<1>19. /\ UpAvailable(top) => Inside(top - 1, start)
       /\ LeftAvailable(start) => Inside(top, start - 1)
  BY <1>5, <1>8 DEF Inside, InTile, UpAvailable, LeftAvailable
<1>20. CASE \/ row = top - 1 /\ col = start /\ UpAvailable(top)
            \/ row = top /\ col = start - 1 /\ LeftAvailable(start)
            \/ row = top - 1 /\ col = start - 1 /\ Inside(row, col)
  <2>1. row \in Int /\ col \in Int /\ (row < top \/ col < start) /\ row < top + h /\ col < start + w
    BY <1>7, <1>20
  <2> QED BY <1>13, <1>19, <1>20, <2>1
<1> QED BY <1>14, <1>16, <1>17, <1>18, <1>20

(* Whatever the partitions, a block's contexts and the scans of its        *)
(* motion-vector predictors read no cell that is not in a block decoded    *)
(* before in the same tile: not in the rows above, up to five away, where a *)
(* scan may look one cell past a narrow block, not in the columns to the   *)
(* left, where it may look one cell below a low one, and not at the        *)
(* top-right corner that mvref_has_top_right grants.                       *)
THEOREM ReadsOnlyDecoded == Spec => []ReadsDecoded
<1>1. Init => WalkInv /\ CellsInv /\ OrderInv /\ BlocksLie /\ CancelInv
  <2>1. Init => BlocksLie
    <3>1. DOMAIN <<>> = {}
      OBVIOUS
    <3> QED BY <3>1 DEF Init, BlocksLie
  <2> QED BY <2>1, WalkInit, CellsInit, OrderInit DEF Init, CancelInv
<1>2. WalkInv /\ CellsInv /\ OrderInv /\ BlocksLie /\ CancelInv /\ [Next]_vars
        => (WalkInv /\ CellsInv /\ OrderInv /\ BlocksLie /\ CancelInv)'
  BY WalkStep, CellsStep, OrderStep, LieStep, CancelStep
<1>3. WalkInv /\ CellsInv /\ OrderInv /\ BlocksLie /\ CancelInv => ReadsDecoded
  <2> SUFFICES ASSUME WalkInv, CellsInv, OrderInv, BlocksLie, CancelInv, At("block"), ~corrupt,
                      NEW cell \in CellsRead(Call)
               PROVE  \E i \in DOMAIN blocks :
                        blocks[i].tile = tile /\ Covers(blocks[i], cell[1], cell[2])
    BY DEF ReadsDecoded
  <2>1. PICK row, col : cell = <<row, col>>
    <3>1. \A S, T : \A x \in S \X T : \E a, b : x = <<a, b>>
      OBVIOUS
    <3>2. cell \in ScannedRows(Call) => \E a, b : cell = <<a, b>>
      BY <3>1 DEF ScannedRows
    <3>3. cell \in ScannedCols(Call) => \E a, b : cell = <<a, b>>
      BY <3>1 DEF ScannedCols
    <3> QED BY <3>2, <3>3 DEF CellsRead
  <2>2. cell[1] = row /\ cell[2] = col
    BY <2>1
  <2> QED BY <2>1, <2>2, ReadCellDecoded
<1> QED BY <1>1, <1>2, <1>3, PTL DEF Spec

-----------------------------------------------------------------------------
(* The lengths of the calls: no longer than the largest superblock, and a  *)
(* block that reaches beyond a CDEF unit one way spans units the other.    *)
Spanning(high, wide) ==
  /\ high <= LargestMi /\ wide <= LargestMi
  /\ high > UnitMi => wide >= UnitMi
  /\ wide > UnitMi => high >= UnitMi
Spans(call) == call.do = "block" => Spanning(call.h, call.w)
SpanInv == \A k \in DOMAIN todo : Spans(todo[k])

(* The parts of a square, by partition: blocks of its size, blocks of half *)
(* the square's on one side of it, or half squares.                        *)
LEMMA PartsFrom ==
  ASSUME NEW size \in Squares, NEW row \in Nat, NEW col \in Nat, NEW p \in PartitionTypes,
         NEW S,
         p \notin {"SPLIT", "HORZ_B", "VERT_B"} =>
           \A a, b \in Nat : BlockCall(a, b, Subsize(size, p), p) \in S,
         p \in {"HORZ_B", "VERT_B"} => BlockCall(row, col, Subsize(size, p), p) \in S,
         p = "HORZ_A" => \A b \in Nat : BlockCall(row, b, Subsize(size, "SPLIT"), p) \in S,
         p = "HORZ_B" =>
           \A b \in Nat : BlockCall(row + size \div 2, b, Subsize(size, "SPLIT"), p) \in S,
         p = "VERT_A" => \A a \in Nat : BlockCall(a, col, Subsize(size, "SPLIT"), p) \in S,
         p = "VERT_B" =>
           \A a \in Nat : BlockCall(a, col + size \div 2, Subsize(size, "SPLIT"), p) \in S,
         p = "SPLIT" => \A a, b \in Nat : NodeCall(a, b, size \div 2) \in S
  PROVE  Calls(row, col, size, p) \in Seq(S)
<1> DEFINE hbs == size \div 2
           quarter == size \div 4
           sub == Subsize(size, p)
           half == Subsize(size, "SPLIT")
           InFrame(a, b) == IF a < frame.rows /\ b < frame.cols
                            THEN <<BlockCall(a, b, sub, p)>> ELSE <<>>
<1>1. hbs \in Nat /\ quarter \in Nat
  BY DEF Squares
<1>2. /\ row + hbs \in Nat /\ col + hbs \in Nat
      /\ row + quarter \in Nat /\ row + 2 * quarter \in Nat /\ row + 3 * quarter \in Nat
      /\ col + quarter \in Nat /\ col + 2 * quarter \in Nat /\ col + 3 * quarter \in Nat
  BY <1>1
<1>3. p \in {"HORZ_4", "VERT_4"} => \A a, b \in Nat : InFrame(a, b) \in Seq(S)
  OBVIOUS
<1>4. CASE p = "HORZ_4"
  <2>1. /\ InFrame(row, col) \in Seq(S) /\ InFrame(row + quarter, col) \in Seq(S)
        /\ InFrame(row + 2 * quarter, col) \in Seq(S)
        /\ InFrame(row + 3 * quarter, col) \in Seq(S)
    BY <1>2, <1>3, <1>4
  <2>2. Calls(row, col, size, p) = InFrame(row, col) \o InFrame(row + quarter, col)
               \o InFrame(row + 2 * quarter, col) \o InFrame(row + 3 * quarter, col)
    BY <1>4 DEF Calls
  <2> HIDE DEF InFrame
  <2> QED BY <2>1, <2>2, FourParts
<1>5. CASE p = "VERT_4"
  <2>1. /\ InFrame(row, col) \in Seq(S) /\ InFrame(row, col + quarter) \in Seq(S)
        /\ InFrame(row, col + 2 * quarter) \in Seq(S)
        /\ InFrame(row, col + 3 * quarter) \in Seq(S)
    BY <1>2, <1>3, <1>5
  <2>2. Calls(row, col, size, p) = InFrame(row, col) \o InFrame(row, col + quarter)
               \o InFrame(row, col + 2 * quarter) \o InFrame(row, col + 3 * quarter)
    BY <1>5 DEF Calls
  <2> HIDE DEF InFrame
  <2> QED BY <2>1, <2>2, FourParts
<1>6. PICK b1, b2, b3 :
        /\ b1 = BlockCall(row, col, sub, p) /\ b2 = BlockCall(row + hbs, col, sub, p)
        /\ b3 = BlockCall(row, col + hbs, sub, p)
  OBVIOUS
<1>7. PICK c1, c2, c3, c4 :
        /\ c1 = BlockCall(row, col, half, p) /\ c2 = BlockCall(row, col + hbs, half, p)
        /\ c3 = BlockCall(row + hbs, col, half, p)
        /\ c4 = BlockCall(row + hbs, col + hbs, half, p)
  OBVIOUS
<1>8. PICK n1, n2, n3, n4 :
        /\ n1 = NodeCall(row, col, hbs) /\ n2 = NodeCall(row, col + hbs, hbs)
        /\ n3 = NodeCall(row + hbs, col, hbs) /\ n4 = NodeCall(row + hbs, col + hbs, hbs)
  OBVIOUS
<1>20. /\ p # "SPLIT" => b1 \in S
       /\ p \notin {"SPLIT", "HORZ_B", "VERT_B"} => b2 \in S /\ b3 \in S
       /\ p = "SPLIT" => n1 \in S /\ n2 \in S /\ n3 \in S /\ n4 \in S
  BY <1>2, <1>6, <1>8
<1>21. /\ p = "HORZ_A" => c1 \in S /\ c2 \in S
       /\ p = "HORZ_B" => c3 \in S /\ c4 \in S
       /\ p = "VERT_A" => c1 \in S /\ c3 \in S
       /\ p = "VERT_B" => c2 \in S /\ c4 \in S
  BY <1>2, <1>7
<1>9. /\ p \notin {"SPLIT", "HORZ_B", "VERT_B"} =>
           <<b1>> \in Seq(S) /\ <<b2>> \in Seq(S) /\ <<b3>> \in Seq(S)
      /\ <<>> \in Seq(S)
      /\ p = "SPLIT" => <<n1, n2, n3, n4>> \in Seq(S)
      /\ p = "HORZ_A" => <<c1, c2, b2>> \in Seq(S)
      /\ p = "HORZ_B" => <<b1, c3, c4>> \in Seq(S)
      /\ p = "VERT_A" => <<c1, c3, b3>> \in Seq(S)
      /\ p = "VERT_B" => <<b1, c2, c4>> \in Seq(S)
  BY <1>20, <1>21
<1>10. /\ p = "NONE" => Calls(row, col, size, p) = <<b1>>
       /\ p = "SPLIT" => Calls(row, col, size, p) = <<n1, n2, n3, n4>>
  BY <1>6, <1>8 DEF Calls
<1>11. /\ p = "HORZ_A" => Calls(row, col, size, p) = <<c1, c2, b2>>
       /\ p = "HORZ_B" => Calls(row, col, size, p) = <<b1, c3, c4>>
  BY <1>6, <1>7 DEF Calls
<1>12. /\ p = "VERT_A" => Calls(row, col, size, p) = <<c1, c3, b3>>
       /\ p = "VERT_B" => Calls(row, col, size, p) = <<b1, c2, c4>>
  BY <1>6, <1>7 DEF Calls
<1>13. p = "HORZ" => Calls(row, col, size, p) =
                       <<b1>> \o IF HasRows(row, size) THEN <<b2>> ELSE <<>>
  BY <1>6 DEF Calls
<1>14. p = "VERT" => Calls(row, col, size, p) =
                       <<b1>> \o IF HasCols(col, size) THEN <<b3>> ELSE <<>>
  BY <1>6 DEF Calls
<1> HIDE DEF hbs, quarter, sub, half, InFrame
<1>15. PICK calls : calls = Calls(row, col, size, p)
  OBVIOUS
<1>16. CASE p \in {"HORZ", "VERT"}
  <2>1. PICK b \in {<<b2>>, <<b3>>, <<>>} : calls = <<b1>> \o b
    BY <1>13, <1>14, <1>15, <1>16
  <2>2. <<b1>> \in Seq(S) /\ b \in Seq(S)
    BY <1>9, <1>16, <2>1
  <2>3. \A x, y \in Seq(S) : x \o y \in Seq(S)
    OBVIOUS
  <2>4. calls \in Seq(S)
    BY <2>1, <2>2, <2>3, Zenon
  <2> QED BY <1>15, <2>4
<1>17. CASE p \in {"NONE", "SPLIT"}
  BY <1>9, <1>10, <1>17
<1>18. CASE p \in {"HORZ_A", "HORZ_B", "VERT_A", "VERT_B"}
  BY <1>9, <1>11, <1>12, <1>18
<1> QED BY <1>4, <1>5, <1>16, <1>17, <1>18 DEF PartitionTypes

(* The parts of a square are blocks of the partition's size or of half the *)
(* square's, or half squares.                                              *)
LEMMA CallsFrom ==
  ASSUME NEW size \in Squares, NEW row \in Nat, NEW col \in Nat, NEW p \in PartitionTypes,
         NEW S,
         \A a, b \in Nat : BlockCall(a, b, Subsize(size, p), p) \in S,
         \A a, b \in Nat : BlockCall(a, b, Subsize(size, "SPLIT"), p) \in S,
         \A a, b \in Nat : NodeCall(a, b, size \div 2) \in S
  PROVE  Calls(row, col, size, p) \in Seq(S)
<1>1. row + size \div 2 \in Nat /\ col + size \div 2 \in Nat
  BY DEF Squares
<1> QED BY <1>1, PartsFrom


(* No partition gives a part so long and thin that it is in two units one *)
(* way and in less than one the other.                                     *)
LEMMA SubsizeSpans ==
  ASSUME UnitMi \in {4, 8, 16}, NEW size \in Squares, size <= LargestMi,
         NEW row, NEW col, NEW p \in Partitions(row, col, size),
         NEW sub, sub = Subsize(size, p), NEW half, half = Subsize(size, "SPLIT")
  PROVE  Spanning(sub.h, sub.w) /\ Spanning(half.h, half.w)
<1>1. PICK hbs \in Nat, quarter \in Nat : hbs = size \div 2 /\ quarter = size \div 4
  BY DEF Squares
<1>2. /\ size \in Nat /\ hbs <= UnitMi /\ quarter <= hbs /\ hbs <= size
      /\ size # 1 => size = 2 * hbs
  BY <1>1 DEF Squares, LargestMi
<1>3. size > UnitMi => size = LargestMi /\ hbs = UnitMi
  BY <1>1 DEF Squares, LargestMi
<1>4. p \in Halved \/ p \in Sided \/ p \in {"NONE", "SPLIT", "HORZ_4", "VERT_4"}
  BY DEF Partitions, Symbols, Halved, Sided
<1>5. p \in {"HORZ_4", "VERT_4"} => size < LargestMi
  BY DEF Partitions, Symbols
<1>6. half = [w |-> hbs, h |-> hbs]
  BY <1>1, SubsizeValues
<1>7. sub \in {[w |-> size, h |-> size], [w |-> hbs, h |-> hbs],
               [w |-> size, h |-> hbs], [w |-> hbs, h |-> size]}
        \/ (size < LargestMi
              /\ sub \in {[w |-> size, h |-> quarter], [w |-> quarter, h |-> size]})
  BY <1>1, <1>4, <1>5, SubsizeValues
<1>8. half.h = hbs /\ half.w = hbs
  BY <1>6
<1>9. \/ sub.h = size /\ sub.w = size
      \/ sub.h = hbs /\ sub.w = hbs
      \/ sub.h = hbs /\ sub.w = size
      \/ sub.h = size /\ sub.w = hbs
      \/ size < LargestMi /\ sub.h = quarter /\ sub.w = size
      \/ size < LargestMi /\ sub.h = size /\ sub.w = quarter
  BY <1>7
<1>10. LargestMi = 2 * UnitMi
  BY DEF LargestMi
<1> QED BY <1>2, <1>3, <1>8, <1>9, <1>10 DEF Spanning

(* The parts of a square span what the square does. *)
LEMMA PartsSpan ==
  ASSUME WalkInv, OrderInv, SpanInv, ReadPartition
  PROVE  SpanInv'
<1>1. /\ todo # <<>> /\ Call.do = "node" /\ pc = "walk" /\ ~OutOfFrame
  BY DEF ReadPartition, At
<1>2. /\ Call \in NodeCalls /\ Tail(todo) \in Seq(AnyCall) /\ todo \in Seq(AnyCall)
      /\ Call = Head(todo) /\ todo \in Seq(Kept(sbRow, sbCol, frame.mib))
  BY <1>1, CallTypes DEF WalkInv, Call, OrderInv, PartsFit
<1>3. PICK row \in Nat, col \in Nat, size \in Squares :
        Call.row = row /\ Call.col = col /\ Call.size = size
  BY <1>2 DEF NodeCalls
<1>4. UnitMi \in {4, 8, 16} /\ size \in Nat /\ size <= LargestMi
  <2>1. PICK mib \in Nat : mib = frame.mib /\ mib <= LargestMi /\ UnitMi \in {4, 8, 16}
    BY WalkAssumption DEF WalkInv, FrameOK, LargestMi
  <2>2. Keeps(Call, sbRow, sbCol, mib) /\ High(Call) = size
    BY <1>1, <1>2, <1>3, <2>1 DEF Kept, High
  <2>3. sbRow <= row /\ row + size <= sbRow + mib /\ sbRow \in Nat /\ size \in Nat
    BY <1>3, <2>2 DEF Keeps, WalkInv, Squares
  <2> QED BY <2>1, <2>3 DEF LargestMi
<1>5. PICK n \in Nat : n = Len(todo) /\ DOMAIN todo = 1 .. n /\ DOMAIN Tail(todo) = 1 .. n - 1
                       /\ \A k \in 1 .. n - 1 : Tail(todo)[k] = todo[k + 1]
  BY <1>1, <1>2, LenProperties, HeadTailProperties
<1>6. \A k \in DOMAIN Tail(todo) : Spans(Tail(todo)[k])
  <2>1. \A k \in 1 .. n - 1 : k + 1 \in 1 .. n
    OBVIOUS
  <2> QED BY <1>5, <2>1 DEF SpanInv
<1>7. CASE todo' = Tail(todo)
  BY <1>6, <1>7 DEF SpanInv
<1>8. ASSUME NEW p \in Partitions(row, col, size),
             todo' = Calls(row, col, size, p) \o <<StampCall(row, col, size, p)>> \o Tail(todo)
      PROVE  SpanInv'
  <2> DEFINE sub == Subsize(size, p)
             half == Subsize(size, "SPLIT")
             Subs == {BlockCall(a, b, sub, p) : a, b \in Nat}
             Halves == {BlockCall(a, b, half, p) : a, b \in Nat}
             Nodes == {NodeCall(a, b, size \div 2) : a, b \in Nat}
             Rest == {Tail(todo)[k] : k \in 1 .. n - 1}
             Stamped == {StampCall(row, col, size, p)}
             S == Subs \union Halves \union Nodes \union Rest \union Stamped
  <2>1. Spanning(sub.h, sub.w) /\ Spanning(half.h, half.w) /\ p \in PartitionTypes
    BY <1>4, SubsizeSpans, SubsizeType
  <2>2. \A e : ~ (e.do = "block") => Spans(e)
    BY DEF Spans
  <2>3. ASSUME NEW a, NEW b, NEW s, Spanning(s.h, s.w) PROVE Spans(BlockCall(a, b, s, p))
    BY <2>3 DEF BlockCall, Spans
  <2> HIDE DEF sub, half
  <2>4. (\A a, b \in Nat : BlockCall(a, b, sub, p) \in Subs) /\ \A e \in Subs : Spans(e)
    <3>1. \A a, b \in Nat : Spans(BlockCall(a, b, sub, p))
      BY <2>1, <2>3
    <3> QED BY <3>1
  <2>5. (\A a, b \in Nat : BlockCall(a, b, half, p) \in Halves) /\ \A e \in Halves : Spans(e)
    <3>1. \A a, b \in Nat : Spans(BlockCall(a, b, half, p))
      BY <2>1, <2>3
    <3> QED BY <3>1
  <2>6. /\ \A a, b \in Nat : NodeCall(a, b, size \div 2) \in Nodes
         /\ \A e \in Nodes : Spans(e)
    <3>1. PICK hbs : hbs = size \div 2
      OBVIOUS
    <3>2. \A a, b \in Nat : ~ (NodeCall(a, b, hbs).do = "block")
      BY DEF NodeCall
    <3>3. \A a, b \in Nat : Spans(NodeCall(a, b, hbs))
      BY <2>2, <3>2, Zenon
    <3> QED BY <3>1, <3>3
  <2>7. (\A k \in 1 .. n - 1 : Tail(todo)[k] \in Rest) /\ \A e \in Rest : Spans(e)
    BY <1>5, <1>6
  <2>8. StampCall(row, col, size, p) \in Stamped /\ \A e \in Stamped : Spans(e)
    <3>1. ~ (StampCall(row, col, size, p).do = "block")
      BY DEF StampCall
    <3> QED BY <2>2, <3>1
  <2> HIDE DEF Subs, Halves, Nodes, Rest, Stamped
  <2>9. \A e \in S : Spans(e)
    BY <2>4, <2>5, <2>6, <2>7, <2>8
  <2>10. /\ \A a, b \in Nat : BlockCall(a, b, Subsize(size, p), p) \in S
         /\ \A a, b \in Nat : BlockCall(a, b, Subsize(size, "SPLIT"), p) \in S
         /\ \A a, b \in Nat : NodeCall(a, b, size \div 2) \in S
         /\ StampCall(row, col, size, p) \in S
         /\ \A k \in 1 .. n - 1 : Tail(todo)[k] \in S
    BY <2>4, <2>5, <2>6, <2>7, <2>8 DEF sub, half
  <2> HIDE DEF S
  <2>11. Calls(row, col, size, p) \in Seq(S)
    BY <2>1, <2>10, CallsFrom
  <2>12. <<StampCall(row, col, size, p)>> \in Seq(S)
    BY <2>10
  <2>13. Tail(todo) \in Seq(S)
    <3>1. PICK rest : rest = Tail(todo)
      OBVIOUS
    <3>2. PICK m \in Nat : m = Len(rest) /\ DOMAIN rest = 1 .. m
      BY <1>2, <3>1, LenProperties
    <3>3. \A k \in 1 .. m : rest[k] \in S
      BY <1>5, <2>10, <3>1, <3>2
    <3>4. rest \in Seq(AnyCall)
      BY <1>2, <3>1
    <3>5. rest \in Seq(S)
      BY <3>2, <3>3, <3>4, SeqDef
    <3> QED BY <3>1, <3>5
  <2>14. todo' \in Seq(S)
    BY <1>8, <2>11, <2>12, <2>13, ConcatProperties
  <2>15. \A k \in DOMAIN todo' : todo'[k] \in S
    BY <2>14
  <2> QED BY <2>9, <2>15 DEF SpanInv, Spans
<1>9. \E p \in Partitions(row, col, size) :
        \/ todo' = Tail(todo)
        \/ todo' = Calls(row, col, size, p) \o <<StampCall(row, col, size, p)>> \o Tail(todo)
  <2>1. \E p \in Partitions(Call.row, Call.col, Call.size) :
          \/ todo' = Tail(todo)
          \/ todo' = Calls(Call.row, Call.col, Call.size, p)
                       \o <<StampCall(Call.row, Call.col, Call.size, p)>> \o Tail(todo)
    BY DEF ReadPartition
  <2> QED BY <1>3, <2>1
<1> QED BY <1>7, <1>8, <1>9

LEMMA SpanStep == WalkInv /\ OrderInv /\ SpanInv /\ [Next]_vars => SpanInv'
<1> SUFFICES ASSUME WalkInv, OrderInv, SpanInv, [Next]_vars PROVE SpanInv'
  OBVIOUS
<1>1. CASE FireStop \/ Returned \/ UNCHANGED vars \/ StartTile \/ CancelAtTile \/ TilesDone
             \/ CancelAtRow \/ RowsDone \/ GiveUp
  <2>1. todo' = todo
    BY <1>1 DEF FireStop, Returned, vars, StartTile, CancelAtTile, TilesDone, CancelAtRow,
       RowsDone, GiveUp
  <2> QED BY <2>1 DEF SpanInv, Spans
<1>2. CASE StartRow \/ NextSuperblock
  <2>1. todo' = todo \/ \E e : todo' = <<e>> /\ e.do = "node"
    BY <1>2 DEF StartRow, NextSuperblock, NodeCall
  <2>2. ASSUME NEW e, e.do = "node", todo' = <<e>> PROVE \A k \in DOMAIN todo' : Spans(todo'[k])
    BY <2>2 DEF Spans
  <2> QED BY <2>1, <2>2 DEF SpanInv, Spans
<1>3. CASE SkipNode \/ StampContext \/ SkipBlock \/ CorruptBlock \/ DecodeBlock
  <2>1. todo # <<>> /\ todo' = Tail(todo) /\ todo \in Seq(AnyCall)
    BY <1>3 DEF SkipNode, StampContext, SkipBlock, CorruptBlock, DecodeBlock, At, WalkInv
  <2>2. PICK n \in Nat : n = Len(todo) /\ DOMAIN todo = 1 .. n /\ DOMAIN Tail(todo) = 1 .. n - 1
                         /\ \A k \in 1 .. n - 1 : Tail(todo)[k] = todo[k + 1]
    BY <2>1, LenProperties, HeadTailProperties
  <2>3. \A k \in 1 .. n - 1 : k + 1 \in 1 .. n
    OBVIOUS
  <2> QED BY <2>1, <2>2, <2>3 DEF SpanInv, Spans
<1>4. CASE ReadPartition
  BY <1>4, PartsSpan
<1> QED BY <1>1, <1>2, <1>3, <1>4 DEF Next


-----------------------------------------------------------------------------
(* The strengths of the units, by the units the blocks begin in.  A block  *)
(* that does not skip has a strength read in its unit, by one block alone; *)
(* of the superblock at hand, once it is begun, cdef_transmitted says      *)
(* whether it has been read.                                               *)
SameUnit(row, col, r, c) == row \div UnitMi = r \div UnitMi /\ col \div UnitMi = c \div UnitMi
StrengthAt(row, col) ==
  \E k \in DOMAIN blocks :
    blocks[k].strength /\ SameUnit(blocks[k].row, blocks[k].col, row, col)
InSuperblock(row, col) == InRect(row, col, sbRow, sbCol, frame.mib, frame.mib)
Strengths ==
  /\ \A k \in DOMAIN blocks :
       /\ Spanning(blocks[k].h, blocks[k].w)
       /\ blocks[k].strength => ~blocks[k].skip
       /\ ~blocks[k].skip => StrengthAt(blocks[k].row, blocks[k].col)
  /\ \A k, l \in DOMAIN blocks :
       blocks[k].strength /\ blocks[l].strength
         /\ SameUnit(blocks[k].row, blocks[k].col, blocks[l].row, blocks[l].col)
           => k = l
Unbegun == \A k \in DOMAIN blocks : ~InSuperblock(blocks[k].row, blocks[k].col)
Noted ==
  \A row, col \in Nat :
    InSuperblock(row, col) => (transmitted[UnitIndex(row, col)] <=> StrengthAt(row, col))
StrengthInv ==
  /\ transmitted \in [0 .. 3 -> BOOLEAN]
  /\ Strengths
  /\ pc = "walk" /\ ~corrupt /\ ~cancelled =>
       IF Blocked(sbRow, sbCol) THEN Noted ELSE Unbegun

(* Cells of one unit, or of two units of a superblock, on a line. *)
LEMMA UnitsOfLine ==
  ASSUME NEW unit \in {4, 8, 16}, NEW x \in Nat, NEW y \in Nat, NEW from \in Nat
  PROVE  /\ from % unit = 0 /\ from <= x /\ x < from + unit /\ from <= y /\ y < from + unit =>
              x \div unit = y \div unit
         /\ from % (2 * unit) = 0 /\ from <= x /\ x < from + 2 * unit
              /\ from <= y /\ y < from + 2 * unit =>
              (((x \div unit) % 2 = 1 <=> (y \div unit) % 2 = 1) <=> x \div unit = y \div unit)
<1>1. CASE unit = 4
  BY <1>1
<1>2. CASE unit = 8
  BY <1>2
<1>3. CASE unit = 16
  BY <1>3
<1> QED BY <1>1, <1>2, <1>3

(* The units of a superblock have different slots of cdef_transmitted. *)
LEMMA IndexOfUnit ==
  ASSUME WalkInv, pc = "walk", NEW row \in Nat, NEW col \in Nat, NEW r \in Nat, NEW c \in Nat,
         InSuperblock(row, col), InSuperblock(r, c)
  PROVE  /\ UnitIndex(row, col) \in 0 .. 3
         /\ UnitIndex(row, col) = UnitIndex(r, c) <=> SameUnit(row, col, r, c)
<1>1. PICK unit \in {4, 8, 16}, mib \in Nat :
        unit = UnitMi /\ mib = frame.mib /\ mib \in {unit, 2 * unit}
  BY WalkAssumption DEF WalkInv, FrameOK
<1>2. sbRow \in Nat /\ sbCol \in Nat /\ sbRow % mib = 0 /\ sbCol % mib = 0
  BY <1>1 DEF WalkInv, WalkPlace
<1>3. /\ sbRow <= row /\ row < sbRow + mib /\ sbRow <= r /\ r < sbRow + mib
      /\ sbCol <= col /\ col < sbCol + mib /\ sbCol <= c /\ c < sbCol + mib
  BY <1>1, <1>2 DEF InSuperblock, InRect
<1>4. CASE mib = unit
  <2>1. row \div unit = r \div unit /\ col \div unit = c \div unit
    BY <1>2, <1>3, <1>4, UnitsOfLine
  <2>2. frame.mib # LargestMi
    BY <1>1, <1>4 DEF LargestMi
  <2> QED BY <1>1, <2>1, <2>2 DEF UnitIndex, SameUnit
<1>5. CASE mib = 2 * unit
  <2>1. /\ (Bit(row, unit) <=> Bit(r, unit)) <=> row \div unit = r \div unit
        /\ (Bit(col, unit) <=> Bit(c, unit)) <=> col \div unit = c \div unit
    <3>1. /\ sbRow % (2 * unit) = 0 /\ sbCol % (2 * unit) = 0
          /\ sbRow <= row /\ row < sbRow + 2 * unit /\ sbRow <= r /\ r < sbRow + 2 * unit
          /\ sbCol <= col /\ col < sbCol + 2 * unit /\ sbCol <= c /\ c < sbCol + 2 * unit
      BY <1>2, <1>3, <1>5, Zenon
    <3>2. /\ ((row \div unit) % 2 = 1 <=> (r \div unit) % 2 = 1) <=> row \div unit = r \div unit
          /\ ((col \div unit) % 2 = 1 <=> (c \div unit) % 2 = 1) <=> col \div unit = c \div unit
      BY <1>2, <3>1, UnitsOfLine, Zenon
    <3> QED BY <3>2, Zenon DEF Bit
  <2>2. frame.mib = LargestMi
    BY <1>1, <1>5 DEF LargestMi
  <2>3. /\ UnitIndex(row, col) =
             (IF Bit(col, unit) THEN 1 ELSE 0) + 2 * (IF Bit(row, unit) THEN 1 ELSE 0)
        /\ UnitIndex(r, c) =
             (IF Bit(c, unit) THEN 1 ELSE 0) + 2 * (IF Bit(r, unit) THEN 1 ELSE 0)
    BY <1>1, <2>2, Zenon DEF UnitIndex
  <2>4. /\ UnitIndex(row, col) \in 0 .. 3
        /\ UnitIndex(row, col) = UnitIndex(r, c) <=>
             (Bit(row, unit) <=> Bit(r, unit)) /\ (Bit(col, unit) <=> Bit(c, unit))
    BY <2>3
  <2> QED BY <1>1, <2>1, <2>4 DEF SameUnit
<1> QED BY <1>1, <1>4, <1>5

(* A unit with a cell in the superblock is in it. *)
LEMMA UnitInSuperblock ==
  ASSUME WalkInv, pc = "walk", NEW row \in Nat, NEW col \in Nat, NEW r \in Nat, NEW c \in Nat,
         InSuperblock(r, c), SameUnit(row, col, r, c)
  PROVE  InSuperblock(row, col)
<1>1. PICK unit \in {4, 8, 16}, mib \in Nat :
        unit = UnitMi /\ mib = frame.mib /\ mib \in {unit, 2 * unit}
  BY WalkAssumption DEF WalkInv, FrameOK
<1>2. sbRow \in Nat /\ sbCol \in Nat /\ sbRow % mib = 0 /\ sbCol % mib = 0
  BY <1>1 DEF WalkInv, WalkPlace
<1>3. sbRow <= r /\ r < sbRow + mib /\ sbCol <= c /\ c < sbCol + mib
  BY <1>1, <1>2 DEF InSuperblock, InRect
<1>4. row \div unit = r \div unit /\ col \div unit = c \div unit
  BY <1>1 DEF SameUnit
<1>5. ASSUME NEW x \in Nat, NEW y \in Nat, NEW from \in Nat, from % mib = 0,
             from <= y, y < from + mib, x \div unit = y \div unit
      PROVE  from <= x /\ x < from + mib
  <2>1. CASE unit = 4
    BY <1>1, <1>5, <2>1
  <2>2. CASE unit = 8
    BY <1>1, <1>5, <2>2
  <2>3. CASE unit = 16
    BY <1>1, <1>5, <2>3
  <2> QED BY <2>1, <2>2, <2>3
<1>6. sbRow <= row /\ row < sbRow + mib /\ sbCol <= col /\ col < sbCol + mib
  BY <1>2, <1>3, <1>4, <1>5, Zenon
<1> QED BY <1>1, <1>2, <1>6, Zenon DEF InSuperblock, InRect

(* A superblock has no blocks while its root is still to be called. *)
Fresh ==
  pc = "walk" /\ ~corrupt /\ ~cancelled /\ todo = <<NodeCall(sbRow, sbCol, frame.mib)>>
    => ~Blocked(sbRow, sbCol) /\ Unbegun

LEMMA FreshHolds == WalkInv /\ CellsInv /\ BlocksLie => Fresh
<1> SUFFICES ASSUME WalkInv, CellsInv, BlocksLie, pc = "walk", ~corrupt, ~cancelled,
                    todo = <<NodeCall(sbRow, sbCol, frame.mib)>>
             PROVE  ~Blocked(sbRow, sbCol) /\ Unbegun
  BY DEF Fresh
<1>1. /\ tile \in DOMAIN frame.tiles /\ sbRow \in Nat /\ sbCol \in Nat
      /\ sbRow % frame.mib = 0 /\ sbCol % frame.mib = 0
      /\ sbRow >= Tile.top /\ sbRow < Tile.bottom /\ sbCol >= Tile.left /\ sbCol < Tile.right
  BY DEF WalkInv, WalkPlace
<1>2. /\ Tile.top \in Nat /\ Tile.bottom \in Nat /\ Tile.left \in Nat /\ Tile.right \in Nat
      /\ Tile.bottom <= frame.rows /\ Tile.right <= frame.cols
      /\ frame.rows \in Nat /\ frame.cols \in Nat
  BY <1>1, TileTypes, FrameTypes
<1>3. ASSUME NEW row \in 0 .. frame.rows - 1, NEW col \in 0 .. frame.cols - 1,
             InSuperblock(row, col)
      PROVE  ~Blocked(row, col)
  <2>1. Over(NodeCall(sbRow, sbCol, frame.mib), row, col)
    <3>1. Tile.top <= sbRow /\ Tile.left <= sbCol
      BY <1>1, <1>2
    <3> QED BY <1>1, <1>3, <3>1, RootCells DEF InSuperblock
  <2>2. DOMAIN todo = {1} /\ todo[1] = NodeCall(sbRow, sbCol, frame.mib)
    OBVIOUS
  <2>3. Called(todo, row, col)
    BY <2>1, <2>2 DEF Called
  <2> QED BY <2>3 DEF CellsInv, Owned
<1>4. ~Blocked(sbRow, sbCol)
  <2>1. sbRow \in 0 .. frame.rows - 1 /\ sbCol \in 0 .. frame.cols - 1
    BY <1>1, <1>2
  <2>2. InSuperblock(sbRow, sbCol)
    <3>1. frame.mib \in {4, 8, 16, 32}
      BY MibValues
    <3>2. PICK mib \in Nat : mib = frame.mib /\ mib > 0
      BY <3>1
    <3> QED BY <1>1, <3>2 DEF InSuperblock, InRect
  <2> QED BY <1>3, <2>1, <2>2
<1>5. ASSUME NEW k \in DOMAIN blocks PROVE ~InSuperblock(blocks[k].row, blocks[k].col)
  <2>1. /\ blocks[k] \in Decodeds
    BY DEF WalkInv
  <2>2. PICK row \in 0 .. frame.rows - 1, col \in 0 .. frame.cols - 1 :
          row = blocks[k].row /\ col = blocks[k].col
    BY <1>2, <2>1 DEF Decodeds
  <2>3. Covers(blocks[k], row, col)
    <3>1. blocks[k].h \in Nat /\ blocks[k].w \in Nat /\ blocks[k].h > 0 /\ blocks[k].w > 0
      BY DEF BlocksLie, Lies, Aligned, Squares
    <3> QED BY <2>2, <3>1 DEF Covers
  <2> QED BY <1>3, <2>2, <2>3 DEF Blocked
<1> QED BY <1>4, <1>5 DEF Unbegun


(* What decode_block finds noted: of each unit of the superblock, whether  *)
(* it has a strength.                                                      *)
LEMMA NotedBefore ==
  ASSUME WalkInv, CellsInv, OrderInv, BlocksLie, StrengthInv, CancelInv, At("block"), ~corrupt
  PROVE  LET before == TransmittedBefore(Call.row, Call.col)
         IN /\ before \in [0 .. 3 -> BOOLEAN]
            /\ InSuperblock(Call.row, Call.col)
            /\ \A row, col \in Nat :
                 InSuperblock(row, col) => (before[UnitIndex(row, col)] <=> StrengthAt(row, col))
            /\ ~Blocked(sbRow, sbCol) => Call.row = sbRow /\ Call.col = sbCol
<1>1. /\ pc = "walk" /\ todo # <<>> /\ Call.do = "block" /\ ~cancelled
      /\ Call \in BlockCalls /\ Call = Head(todo)
  BY CallTypes DEF At, CancelInv, Call
<1>2. PICK row \in Nat, col \in Nat, h \in Nat, w \in Nat :
        row = Call.row /\ col = Call.col /\ h = Call.h /\ w = Call.w
  BY <1>1 DEF BlockCalls
<1>3. PICK mib \in Squares : mib = frame.mib /\ mib \in Nat
  BY MibValues DEF Squares
<1>4. /\ OnGrid(Call) /\ Keeps(Call, sbRow, sbCol, frame.mib) /\ High(Call) = h /\ Wide(Call) = w
  BY <1>1, <1>2, CallKept DEF High, Wide
<1>5. /\ sbRow \in Nat /\ sbCol \in Nat /\ sbRow % mib = 0 /\ sbCol % mib = 0
      /\ sbRow <= row /\ row + h <= sbRow + mib /\ sbCol <= col /\ col + w <= sbCol + mib
      /\ h \in Squares /\ w \in Squares
  BY <1>1, <1>2, <1>3, <1>4 DEF Keeps, OnGrid, Aligned, WalkInv, WalkPlace
<1>6. h > 0 /\ w > 0
  BY <1>5 DEF Squares
<1>7. row < sbRow + mib /\ col < sbCol + mib
  BY <1>5, <1>6
<1>8. InSuperblock(row, col)
  BY <1>3, <1>5, <1>7, Zenon DEF InSuperblock, InRect
<1>9. /\ row % mib = row - sbRow /\ col % mib = col - sbCol
  BY <1>3, <1>5, <1>7, FromSquare
<1>10. TransmittedBefore(row, col) =
         IF row = sbRow /\ col = sbCol THEN NotTransmitted ELSE transmitted
  <2>1. row % mib = 0 /\ col % mib = 0 <=> row = sbRow /\ col = sbCol
    BY <1>5, <1>9
  <2>2. TransmittedBefore(row, col) =
          IF row % mib = 0 /\ col % mib = 0 THEN NotTransmitted ELSE transmitted
    BY <1>3 DEF TransmittedBefore
  <2> QED BY <2>1, <2>2
<1>11. sbRow \in 0 .. frame.rows - 1 /\ sbCol \in 0 .. frame.cols - 1
  <2>1. tile \in DOMAIN frame.tiles /\ sbRow < Tile.bottom /\ sbCol < Tile.right
    BY <1>1 DEF WalkInv, WalkPlace
  <2>2. /\ Tile.bottom <= frame.rows /\ Tile.right <= frame.cols
        /\ Tile.bottom \in Nat /\ Tile.right \in Nat /\ frame.rows \in Nat /\ frame.cols \in Nat
    BY <2>1, TileTypes, FrameTypes
  <2> QED BY <1>5, <2>1, <2>2
<1>12. Over(Call, sbRow, sbCol) <=> row = sbRow /\ col = sbCol
  <2>1. PICK b : b = Call
    OBVIOUS
  <2>2. b.do = "block" /\ b.row = row /\ b.col = col /\ b.h = h /\ b.w = w
    BY <1>1, <1>2, <2>1
  <2>3. Over(b, sbRow, sbCol) <=> row = sbRow /\ col = sbCol
    BY <1>5, <1>6, <2>2 DEF Over, Covers
  <2> QED BY <2>1, <2>3
<1>13. Owned(sbRow, sbCol)
  BY <1>1, <1>11 DEF CellsInv
<1>14. Called(todo, sbRow, sbCol) <=>
         Over(Call, sbRow, sbCol) \/ Called(Tail(todo), sbRow, sbCol)
  BY <1>1, FirstCall DEF WalkInv
<1>15. CASE Blocked(sbRow, sbCol)
  <2>1. ~Over(Call, sbRow, sbCol)
    BY <1>13, <1>14, <1>15 DEF Owned
  <2>2. TransmittedBefore(row, col) = transmitted
    BY <1>10, <1>12, <2>1
  <2>3. Noted /\ transmitted \in [0 .. 3 -> BOOLEAN]
    BY <1>1, <1>15 DEF StrengthInv
  <2> QED BY <1>2, <1>8, <1>15, <2>2, <2>3 DEF Noted
<1>16. CASE ~Blocked(sbRow, sbCol)
  <2>1. ~Ahead(sbRow, sbCol)
    <3>1. tile \in DOMAIN frame.tiles /\ Inside(sbRow, sbCol)
      <4>1. /\ tile \in DOMAIN frame.tiles /\ sbRow >= Tile.top /\ sbRow < Tile.bottom
            /\ sbCol >= Tile.left /\ sbCol < Tile.right
        BY <1>1 DEF WalkInv, WalkPlace
      <4>2. /\ Tile.top \in Nat /\ Tile.bottom \in Nat
            /\ Tile.left \in Nat /\ Tile.right \in Nat
        BY <4>1, TileTypes
      <4> QED BY <1>5, <4>1, <4>2 DEF Inside, InTile
    <3>2. ~Later(sbRow, sbCol)
      BY <1>11, <3>1, CellInTile DEF InHand, Inside
    <3>3. ~ (sbRow >= sbRow + mib) /\ ~ (sbCol >= sbCol + mib)
      BY <1>3, <1>5, <1>7
    <3>4. ~Waits(sbRow, sbCol)
      BY <1>1, <1>3, <3>3, Zenon DEF Waits
    <3> QED BY <3>2, <3>4 DEF Ahead
  <2>2. ~Called(Tail(todo), sbRow, sbCol)
    <3>1. todo \in Seq(Kept(sbRow, sbCol, frame.mib)) /\ Ordered(todo)
      BY <1>1 DEF OrderInv, PartsFit
    <3>2. \A l \in DOMAIN Tail(todo) : InOrder(Head(todo), Tail(todo)[l])
      BY <1>1, <3>1, TailOrdered
    <3>3. \A l \in DOMAIN Tail(todo) : Tail(todo)[l] \in AnyCall
      BY <1>1, CallTypes
    <3>4. /\ sbRow < Call.row + Call.h /\ sbCol < Call.col + Call.w
          /\ sbRow \in Int /\ sbCol \in Int /\ frame.mib \in Nat
      BY <1>2, <1>3, <1>5, <1>6
    <3>5. \A l \in DOMAIN Tail(todo) :
            InOrder(Call, Tail(todo)[l]) /\ Tail(todo)[l] \in AnyCall
      BY <1>1, <3>2, <3>3
    <3>6. \A l \in DOMAIN Tail(todo) : ~Over(Tail(todo)[l], sbRow, sbCol)
      BY <1>1, <3>4, <3>5, NotOverBefore
    <3> QED BY <3>6 DEF Called
  <2>3. row = sbRow /\ col = sbCol
    BY <1>12, <1>13, <1>14, <1>16, <2>1, <2>2 DEF Owned
  <2>4. TransmittedBefore(row, col) = NotTransmitted
    BY <1>10, <2>3
  <2>5. Unbegun
    BY <1>1, <1>16 DEF StrengthInv
  <2>6. ASSUME NEW r \in Nat, NEW c \in Nat, InSuperblock(r, c)
        PROVE  /\ UnitIndex(r, c) \in 0 .. 3 /\ ~StrengthAt(r, c)
    <3>1. UnitIndex(r, c) \in 0 .. 3
      BY <1>1, <2>6, IndexOfUnit
    <3>2. ASSUME NEW k \in DOMAIN blocks,
                 SameUnit(blocks[k].row, blocks[k].col, r, c)
          PROVE  FALSE
      <4>1. ~InSuperblock(blocks[k].row, blocks[k].col)
        BY <2>5 DEF Unbegun
      <4>2. blocks[k].row \in Nat /\ blocks[k].col \in Nat
        BY DEF WalkInv, Decodeds
      <4> QED BY <1>1, <2>6, <3>2, <4>1, <4>2, UnitInSuperblock
    <3> QED BY <3>1, <3>2 DEF StrengthAt
  <2>7. \A i \in 0 .. 3 : ~NotTransmitted[i]
    BY DEF NotTransmitted
  <2>8. NotTransmitted \in [0 .. 3 -> BOOLEAN]
    BY DEF NotTransmitted
  <2> QED BY <1>2, <1>8, <2>3, <2>4, <2>6, <2>7, <2>8
<1> QED BY <1>15, <1>16


(* decode_block reads the strength of a unit for the first block in it     *)
(* that does not skip, and notes it.                                       *)
LEMMA BlockStrength ==
  ASSUME WalkInv, CellsInv, OrderInv, BlocksLie, SpanInv, StrengthInv, CancelInv, DecodeBlock
  PROVE  StrengthInv'
<1>1. /\ todo # <<>> /\ Call.do = "block" /\ Call = Head(todo) /\ Call \in BlockCalls
      /\ pc = "walk" /\ ~corrupt /\ UNCHANGED <<frame, pc, sbRow, sbCol, corrupt, cancelled>>
  BY BlockMade
<1>2. PICK b \in Decodeds, n \in Nat :
        /\ Made(b)
        /\ DOMAIN blocks = 1 .. n /\ DOMAIN blocks' = 1 .. n + 1
        /\ \A k \in 1 .. n : blocks'[k] = blocks[k]
        /\ blocks'[n + 1] = b
  BY BlockMade
<1>3. PICK row \in Nat, col \in Nat :
        row = Call.row /\ col = Call.col /\ row = b.row /\ col = b.col
  BY <1>2 DEF Made, Decodeds
<1>4. PICK before \in [0 .. 3 -> BOOLEAN] :
        /\ before = TransmittedBefore(Call.row, Call.col)
        /\ InSuperblock(row, col)
        /\ \A r, c \in Nat :
             InSuperblock(r, c) => (before[UnitIndex(r, c)] <=> StrengthAt(r, c))
        /\ ~Blocked(sbRow, sbCol) => row = sbRow /\ col = sbCol
  <2>1. At("block")
    BY <1>1 DEF At
  <2> QED BY <1>1, <1>3, <2>1, NotedBefore
<1>5. PICK index \in 0 .. 3 : index = UnitIndex(row, col)
  BY <1>1, <1>4, IndexOfUnit
<1>6. /\ b.strength = (~before[index] /\ ~b.skip)
      /\ before[index] => ~b.skip
      /\ transmitted' = IF b.strength THEN [before EXCEPT ![index] = TRUE] ELSE before
      /\ b.strength \in BOOLEAN /\ b.skip \in BOOLEAN
  BY <1>2, <1>3, <1>4, <1>5 DEF Made, Decodeds
<1>7. before[index] <=> StrengthAt(row, col)
  BY <1>4, <1>5
<1>8. \A k \in 1 .. n + 1 : k \in 1 .. n \/ k = n + 1
  OBVIOUS
<1>9. n + 1 \in 1 .. n + 1 /\ \A k \in 1 .. n : k \in 1 .. n + 1
  OBVIOUS
<1> DEFINE ReadAt(r, c) ==
             \E k \in 1 .. n + 1 :
               blocks'[k].strength /\ SameUnit(blocks'[k].row, blocks'[k].col, r, c)
<1>10. \A r, c : ReadAt(r, c) <=> StrengthAt(r, c) \/ (b.strength /\ SameUnit(row, col, r, c))
  <2> SUFFICES ASSUME NEW r, NEW c
               PROVE  ReadAt(r, c) <=>
                        StrengthAt(r, c) \/ (b.strength /\ SameUnit(row, col, r, c))
    OBVIOUS
  <2>1. StrengthAt(r, c) <=>
          \E k \in 1 .. n : blocks[k].strength /\ SameUnit(blocks[k].row, blocks[k].col, r, c)
    BY <1>2 DEF StrengthAt
  <2> QED BY <1>2, <1>3, <1>8, <1>9, <2>1
<1>11. transmitted' \in [0 .. 3 -> BOOLEAN]
  BY <1>4, <1>6
<1>12. Strengths'
  <2>1. ASSUME NEW k \in 1 .. n + 1
        PROVE  /\ Spanning(blocks'[k].h, blocks'[k].w)
               /\ blocks'[k].strength => ~blocks'[k].skip
               /\ ~blocks'[k].skip => ReadAt(blocks'[k].row, blocks'[k].col)
    <3>1. CASE k \in 1 .. n
      <4> HIDE DEF ReadAt
      <4>1. k \in DOMAIN blocks /\ blocks'[k] = blocks[k]
        BY <1>2, <3>1
      <4> QED BY <1>10, <4>1 DEF StrengthInv, Strengths
    <3>2. CASE k = n + 1
      <4>1. Spanning(b.h, b.w)
        <5>1. b.h = Call.h /\ b.w = Call.w
          BY <1>2 DEF Made
        <5>2. Spans(Call)
          <6>1. 1 \in DOMAIN todo /\ Call = todo[1]
            BY <1>1 DEF WalkInv
          <6> QED BY <6>1 DEF SpanInv
        <5> QED BY <1>1, <5>1, <5>2 DEF Spans
      <4>2. SameUnit(row, col, row, col)
        BY DEF SameUnit
      <4> HIDE DEF ReadAt
      <4>3. ~b.skip => ReadAt(row, col)
        BY <1>6, <1>7, <1>10, <4>2
      <4> QED BY <1>2, <1>3, <1>6, <3>2, <4>1, <4>3
    <3> QED BY <1>8, <3>1, <3>2
  <2>2. ASSUME NEW k \in 1 .. n, b.strength, blocks[k].strength,
               SameUnit(blocks[k].row, blocks[k].col, row, col)
        PROVE  FALSE
    BY <1>2, <1>6, <1>7, <2>2 DEF StrengthAt
  <2>3. ASSUME NEW k \in 1 .. n + 1, NEW l \in 1 .. n + 1,
               blocks'[k].strength, blocks'[l].strength,
               SameUnit(blocks'[k].row, blocks'[k].col, blocks'[l].row, blocks'[l].col)
        PROVE  k = l
    <3>1. CASE k \in 1 .. n /\ l \in 1 .. n
      BY <1>2, <2>3, <3>1 DEF StrengthInv, Strengths
    <3>2. CASE k \in 1 .. n /\ l = n + 1
      BY <1>2, <1>3, <2>2, <2>3, <3>2
    <3>3. CASE k = n + 1 /\ l \in 1 .. n
      <4>1. SameUnit(blocks[l].row, blocks[l].col, row, col)
        BY <1>2, <1>3, <2>3, <3>3 DEF SameUnit
      <4> QED BY <1>2, <2>2, <2>3, <3>3, <4>1
    <3> QED BY <1>8, <3>1, <3>2, <3>3
  <2>4. \A k \in DOMAIN blocks' :
          /\ Spanning(blocks'[k].h, blocks'[k].w)
          /\ blocks'[k].strength => ~blocks'[k].skip
          /\ ~blocks'[k].skip => ReadAt(blocks'[k].row, blocks'[k].col)
    BY <1>2, <2>1
  <2>5. \A k, l \in DOMAIN blocks' :
          blocks'[k].strength /\ blocks'[l].strength
            /\ SameUnit(blocks'[k].row, blocks'[k].col, blocks'[l].row, blocks'[l].col)
              => k = l
    BY <1>2, <2>3
  <2>6. 1 .. n + 1 = DOMAIN blocks'
    BY <1>2
  <2> QED BY <2>4, <2>5, <2>6, Zenon DEF Strengths, StrengthAt
<1>13. ASSUME ~corrupt', ~cancelled' PROVE Blocked(sbRow, sbCol)' /\ Noted'
  <2>1. Blocked(sbRow, sbCol)'
    <3>1. CASE Blocked(sbRow, sbCol)
      BY <1>1, <1>2, <1>9, <3>1 DEF Blocked
    <3>2. CASE ~Blocked(sbRow, sbCol)
      <4>1. b.row = sbRow /\ b.col = sbCol
        BY <1>3, <1>4, <3>2
      <4>2. /\ OnGrid(Call) /\ High(Call) = Call.h /\ Wide(Call) = Call.w
            /\ b.h = Call.h /\ b.w = Call.w
        BY <1>1, <1>2, CallKept DEF High, Wide, Made
      <4>3. b.h \in Squares /\ b.w \in Squares /\ sbRow \in Nat /\ sbCol \in Nat
        BY <4>2 DEF OnGrid, Aligned, WalkInv
      <4>4. b.h \in Nat /\ b.w \in Nat /\ b.h > 0 /\ b.w > 0
        BY <4>3 DEF Squares
      <4>5. Covers(b, sbRow, sbCol)
        BY <4>1, <4>3, <4>4 DEF Covers
      <4> QED BY <1>1, <1>2, <1>9, <4>5 DEF Blocked
    <3> QED BY <3>1, <3>2
  <2>2. ASSUME NEW r \in Nat, NEW c \in Nat, InSuperblock(r, c)
        PROVE  transmitted'[UnitIndex(r, c)] <=> StrengthAt(r, c)'
    <3>1. PICK i \in 0 .. 3 : i = UnitIndex(r, c) /\ (index = i <=> SameUnit(row, col, r, c))
      BY <1>1, <1>4, <1>5, <2>2, IndexOfUnit
    <3>2. before[i] <=> StrengthAt(r, c)
      BY <1>4, <2>2, <3>1
    <3>3. transmitted'[i] <=> before[i] \/ (b.strength /\ i = index)
      BY <1>4, <1>6
    <3>4. ReadAt(r, c) <=> StrengthAt(r, c)'
      BY <1>2 DEF StrengthAt, SameUnit
    <3> HIDE DEF ReadAt
    <3> QED BY <1>10, <3>1, <3>2, <3>3, <3>4
  <2>3. \A r, c : InSuperblock(r, c)' <=> InSuperblock(r, c)
    BY <1>1 DEF InSuperblock, InRect
  <2>4. \A r, c : UnitIndex(r, c)' = UnitIndex(r, c)
    BY <1>1 DEF UnitIndex
  <2> QED BY <2>1, <2>2, <2>3, <2>4 DEF Noted
<1> QED BY <1>11, <1>12, <1>13 DEF StrengthInv

(* The strengths read stay noted, one to a unit, whatever the step. *)
LEMMA StrengthStep ==
  ASSUME WalkInv, CellsInv, OrderInv, BlocksLie, SpanInv, StrengthInv, CancelInv,
         [Next]_vars, Fresh'
  PROVE  StrengthInv'
<1>1. CASE DecodeBlock
  BY <1>1, BlockStrength
<1>2. CASE ~DecodeBlock
  <2>1. UNCHANGED <<frame, blocks, transmitted>>
    BY <1>2 DEF Next, FireStop, StartTile, CancelAtTile, TilesDone, StartRow, CancelAtRow,
       RowsDone, NextSuperblock, GiveUp, SkipNode, ReadPartition, StampContext, SkipBlock,
       CorruptBlock, Returned, vars, blockVars
  <2>2. \A r, c : StrengthAt(r, c)' <=> StrengthAt(r, c)
    BY <2>1 DEF StrengthAt
  <2>3. Strengths'
    BY <2>1, <2>2 DEF StrengthInv, Strengths
  <2>4. ASSUME pc' = "walk", ~corrupt', ~cancelled'
        PROVE  (IF Blocked(sbRow, sbCol) THEN Noted ELSE Unbegun)'
    <3>1. CASE todo' = <<NodeCall(sbRow', sbCol', frame'.mib)>>
      BY <2>4, <3>1 DEF Fresh
    <3>2. CASE UNCHANGED <<pc, sbRow, sbCol>> /\ ~corrupt /\ ~cancelled
      <4>1. IF Blocked(sbRow, sbCol) THEN Noted ELSE Unbegun
        BY <2>4, <3>2 DEF StrengthInv
      <4>2. /\ Blocked(sbRow, sbCol)' <=> Blocked(sbRow, sbCol)
            /\ \A r, c : InSuperblock(r, c)' <=> InSuperblock(r, c)
            /\ \A r, c : UnitIndex(r, c)' = UnitIndex(r, c)
        BY <2>1, <3>2 DEF Blocked, InSuperblock, InRect, UnitIndex
      <4>3. Noted => Noted'
        BY <2>1, <2>2, <4>2 DEF Noted
      <4>4. Unbegun => Unbegun'
        BY <2>1, <4>2 DEF Unbegun
      <4> QED BY <4>1, <4>2, <4>3, <4>4
    <3>3. \/ todo' = <<NodeCall(sbRow', sbCol', frame'.mib)>>
          \/ UNCHANGED <<pc, sbRow, sbCol>> /\ ~corrupt /\ ~cancelled
      <4>1. CASE StartRow \/ NextSuperblock
        <5>1. todo' = <<NodeCall(sbRow', sbCol', frame.mib)>>
          BY <2>4, <4>1 DEF StartRow, NextSuperblock
        <5> QED BY <2>1, <5>1
      <4>2. CASE FireStop \/ SkipNode \/ StampContext \/ SkipBlock \/ Returned \/ UNCHANGED vars
        BY <2>4, <4>2 DEF FireStop, SkipNode, StampContext, SkipBlock, Returned, vars,
           tileVars, endVars
      <4>3. CASE ReadPartition \/ CorruptBlock
        BY <2>4, <4>3 DEF ReadPartition, CorruptBlock, tileVars, At
      <4>4. ~ (StartTile \/ CancelAtTile \/ TilesDone \/ CancelAtRow \/ RowsDone \/ GiveUp)
        BY <2>4 DEF StartTile, CancelAtTile, TilesDone, CancelAtRow, RowsDone, GiveUp, EndTile
      <4> QED BY <1>2, <4>1, <4>2, <4>3, <4>4 DEF Next
    <3> QED BY <3>1, <3>2, <3>3
  <2> QED BY <2>1, <2>3, <2>4 DEF StrengthInv
<1> QED BY <1>1, <1>2


UnitOfLength(unit, x, length, k) ==
  /\ k \in Nat
  /\ length <= unit => k = x \div unit
  /\ length >= unit => \A y \in Nat : y \div unit = k => x <= y /\ y < x + length
  /\ (k * unit) \div unit = k
  /\ x \div unit = k \/ (x <= k * unit /\ k * unit < x + length)

(* The units a block's rows (columns) are in: one that it begins in, or    *)
(* two that it fills.                                                      *)
LEMMA UnitsOfLengths ==
  ASSUME NEW unit \in {4, 8, 16}, NEW x \in Nat, NEW length \in Squares, length <= 2 * unit,
         x % length = 0, NEW k \in x \div unit .. (x + length - 1) \div unit
  PROVE  UnitOfLength(unit, x, length, k)
<1> USE DEF UnitOfLength
<1>1. CASE unit = 4
  <2>1. length \in {1, 2, 4, 8}
    BY <1>1 DEF Squares
  <2>2. CASE length \in {1, 2}
    BY <1>1, <2>2
  <2>3. CASE length = 4
    BY <1>1, <2>3
  <2>4. CASE length = 8
    BY <1>1, <2>4
  <2> QED BY <2>1, <2>2, <2>3, <2>4
<1>2. CASE unit = 8
  <2>1. length \in {1, 2, 4, 8, 16}
    BY <1>2 DEF Squares
  <2>2. CASE length \in {1, 2}
    BY <1>2, <2>2
  <2>3. CASE length = 4
    BY <1>2, <2>3
  <2>4. CASE length = 8
    BY <1>2, <2>4
  <2>5. CASE length = 16
    BY <1>2, <2>5
  <2> QED BY <2>1, <2>2, <2>3, <2>4, <2>5
<1>3. CASE unit = 16
  <2>1. length \in {1, 2, 4, 8, 16, 32}
    BY DEF Squares
  <2>2. CASE length \in {1, 2}
    BY <1>3, <2>2
  <2>3. CASE length = 4
    BY <1>3, <2>3
  <2>4. CASE length = 8
    BY <1>3, <2>4
  <2>5. CASE length = 16
    BY <1>3, <2>5
  <2>6. CASE length = 32
    BY <1>3, <2>6
  <2> QED BY <2>1, <2>2, <2>3, <2>4, <2>5, <2>6
<1> QED BY <1>1, <1>2, <1>3

(* A block in several units fills them; another begins in its unit.        *)
Several(b) == b.h > UnitMi \/ b.w > UnitMi

(* A block in a unit fills it or begins in it, and has a cell of the frame *)
(* there.                                                                  *)
LEMMA BlockInUnit ==
  ASSUME WalkInv, BlocksLie, StrengthInv, NEW i \in DOMAIN blocks,
         NEW k \in 0 .. (frame.rows - 1) \div UnitMi, NEW l \in 0 .. (frame.cols - 1) \div UnitMi,
         <<k, l>> \in UnitsOf(blocks[i])
  PROVE  /\ Several(blocks[i]) =>
              \A row, col \in Nat :
                row \div UnitMi = k /\ col \div UnitMi = l => Covers(blocks[i], row, col)
         /\ ~Several(blocks[i]) =>
              blocks[i].row \div UnitMi = k /\ blocks[i].col \div UnitMi = l
         /\ \E row \in 0 .. frame.rows - 1, col \in 0 .. frame.cols - 1 :
              row \div UnitMi = k /\ col \div UnitMi = l /\ Covers(blocks[i], row, col)
<1>1. PICK unit \in {4, 8, 16} : unit = UnitMi /\ LargestMi = 2 * unit
  BY WalkAssumption DEF LargestMi
<1>2. PICK rows \in Nat, cols \in Nat : rows = frame.rows /\ cols = frame.cols
  BY FrameTypes
<1>3. PICK b \in Decodeds : b = blocks[i]
  BY DEF WalkInv
<1>4. PICK top \in Nat, start \in Nat, h \in Squares, w \in Squares :
        /\ top = b.row /\ start = b.col /\ h = b.h /\ w = b.w
        /\ top % h = 0 /\ start % w = 0 /\ top < rows /\ start < cols
  BY <1>2, <1>3 DEF BlocksLie, Lies, Aligned, Decodeds
<1>5. /\ h \in Nat /\ w \in Nat /\ h > 0 /\ w > 0
      /\ h <= 2 * unit /\ w <= 2 * unit
      /\ h > unit => w >= unit
      /\ w > unit => h >= unit
  BY <1>1, <1>3, <1>4 DEF StrengthInv, Strengths, Spanning, Squares
<1>6. /\ k \in top \div unit .. (top + h - 1) \div unit
      /\ l \in start \div unit .. (start + w - 1) \div unit
  BY <1>1, <1>3, <1>4 DEF UnitsOf
<1>7. /\ k \in Nat
      /\ h <= unit => k = top \div unit
      /\ h >= unit => \A y \in Nat : y \div unit = k => top <= y /\ y < top + h
      /\ (k * unit) \div unit = k
      /\ top \div unit = k \/ (top <= k * unit /\ k * unit < top + h)
  <2>1. /\ unit \in {4, 8, 16} /\ top \in Nat /\ h \in Squares
        /\ h <= 2 * unit /\ top % h = 0
        /\ k \in top \div unit .. (top + h - 1) \div unit
    BY <1>4, <1>5, <1>6
  <2>2. UnitOfLength(unit, top, h, k)
    BY <2>1, UnitsOfLengths, ZenonT(60)
  <2> QED BY <2>2, Zenon DEF UnitOfLength
<1>8. /\ l \in Nat
      /\ w <= unit => l = start \div unit
      /\ w >= unit => \A y \in Nat : y \div unit = l => start <= y /\ y < start + w
      /\ (l * unit) \div unit = l
      /\ start \div unit = l \/ (start <= l * unit /\ l * unit < start + w)
  <2>1. /\ unit \in {4, 8, 16} /\ start \in Nat /\ w \in Squares
        /\ w <= 2 * unit /\ start % w = 0
        /\ l \in start \div unit .. (start + w - 1) \div unit
    BY <1>4, <1>5, <1>6
  <2>2. UnitOfLength(unit, start, w, l)
    BY <2>1, UnitsOfLengths, ZenonT(60)
  <2> QED BY <2>2, Zenon DEF UnitOfLength
<1>9. \A y, x \in Int :
        Covers(b, y, x) <=> top <= y /\ y < top + h /\ start <= x /\ x < start + w
  BY <1>4, <1>5 DEF Covers
<1>10. Several(b) <=> h > unit \/ w > unit
  BY <1>1, <1>4 DEF Several
<1>11. ASSUME Several(b), NEW row \in Nat, NEW col \in Nat,
              row \div unit = k, col \div unit = l
       PROVE  Covers(b, row, col)
  <2>1. h >= unit /\ w >= unit
    BY <1>5, <1>10, <1>11
  <2>2. top <= row /\ row < top + h /\ start <= col /\ col < start + w
    BY <1>7, <1>8, <1>11, <2>1, Zenon
  <2> QED BY <1>9, <2>2
<1>12. ~Several(b) => top \div unit = k /\ start \div unit = l
  <2>1. ~Several(b) => h <= unit /\ w <= unit
    BY <1>5, <1>10
  <2> QED BY <1>7, <1>8, <2>1, Zenon
<1>13. PICK row \in 0 .. rows - 1 : row \div unit = k /\ top <= row /\ row < top + h
  <2>1. k * unit <= rows - 1
    <3>1. k <= (rows - 1) \div unit /\ rows - 1 \in Nat /\ k \in Nat
      BY <1>1, <1>2, <1>4, <1>7
    <3>2. CASE unit = 4
      BY <3>1, <3>2
    <3>3. CASE unit = 8
      BY <3>1, <3>3
    <3>4. CASE unit = 16
      BY <3>1, <3>4
    <3> QED BY <3>2, <3>3, <3>4
  <2>2. CASE top \div unit = k
    <3>1. top \in 0 .. rows - 1 /\ top <= top /\ top < top + h
      BY <1>4, <1>5
    <3> QED BY <2>2, <3>1
  <2>3. CASE top <= k * unit /\ k * unit < top + h
    <3>1. PICK y \in Nat : y = k * unit
      BY <1>7
    <3>2. y \in 0 .. rows - 1
      BY <2>1, <3>1
    <3> QED BY <1>7, <2>3, <3>1, <3>2
  <2> QED BY <1>7, <2>2, <2>3
<1>14. PICK col \in 0 .. cols - 1 : col \div unit = l /\ start <= col /\ col < start + w
  <2>1. l * unit <= cols - 1
    <3>1. l <= (cols - 1) \div unit /\ cols - 1 \in Nat /\ l \in Nat
      BY <1>1, <1>2, <1>4, <1>8
    <3>2. CASE unit = 4
      BY <3>1, <3>2
    <3>3. CASE unit = 8
      BY <3>1, <3>3
    <3>4. CASE unit = 16
      BY <3>1, <3>4
    <3> QED BY <3>2, <3>3, <3>4
  <2>2. CASE start \div unit = l
    <3>1. start \in 0 .. cols - 1 /\ start <= start /\ start < start + w
      BY <1>4, <1>5
    <3> QED BY <2>2, <3>1
  <2>3. CASE start <= l * unit /\ l * unit < start + w
    <3>1. PICK y \in Nat : y = l * unit
      BY <1>8
    <3>2. y \in 0 .. cols - 1
      BY <2>1, <3>1
    <3> QED BY <1>8, <2>3, <3>1, <3>2
  <2> QED BY <1>8, <2>2, <2>3
<1>15. Covers(b, row, col)
  BY <1>9, <1>13, <1>14
<1> QED BY <1>1, <1>2, <1>3, <1>4, <1>11, <1>12, <1>13, <1>14, <1>15

(* A block in several units is alone in each of them. *)
LEMMA AloneInUnit ==
  ASSUME WalkInv, CellsInv, BlocksLie, StrengthInv, Decoded,
         NEW i \in DOMAIN blocks, NEW j \in DOMAIN blocks,
         NEW k \in 0 .. (frame.rows - 1) \div UnitMi, NEW l \in 0 .. (frame.cols - 1) \div UnitMi,
         <<k, l>> \in UnitsOf(blocks[i]), <<k, l>> \in UnitsOf(blocks[j]), Several(blocks[j])
  PROVE  i = j
<1>1. PICK row \in 0 .. frame.rows - 1, col \in 0 .. frame.cols - 1 :
        row \div UnitMi = k /\ col \div UnitMi = l /\ Covers(blocks[i], row, col)
  BY BlockInUnit
<1>2. row \in Nat /\ col \in Nat
  BY FrameTypes
<1>3. Covers(blocks[j], row, col)
  BY <1>1, <1>2, BlockInUnit
<1> QED BY <1>1, <1>3, OneBlock

(* A block is in the unit it begins in. *)
LEMMA CornerUnit ==
  ASSUME WalkInv, BlocksLie, NEW i \in DOMAIN blocks
  PROVE  /\ blocks[i].row \in Nat /\ blocks[i].col \in Nat
         /\ blocks[i].row \div UnitMi \in 0 .. (frame.rows - 1) \div UnitMi
         /\ blocks[i].col \div UnitMi \in 0 .. (frame.cols - 1) \div UnitMi
         /\ <<blocks[i].row \div UnitMi, blocks[i].col \div UnitMi>> \in UnitsOf(blocks[i])
<1>1. PICK unit \in {4, 8, 16} : unit = UnitMi
  BY WalkAssumption
<1>2. PICK b \in Decodeds : b = blocks[i]
  BY DEF WalkInv
<1>3. PICK rows \in Nat, cols \in Nat : rows = frame.rows /\ cols = frame.cols
  BY FrameTypes
<1>4. PICK row \in Nat, col \in Nat, h \in Squares, w \in Squares :
        row = b.row /\ col = b.col /\ h = b.h /\ w = b.w /\ row < rows /\ col < cols
  BY <1>2, <1>3 DEF BlocksLie, Lies, Aligned, Decodeds
<1>5. h \in Nat /\ w \in Nat /\ h > 0 /\ w > 0
  BY DEF Squares
<1>6. ASSUME NEW x \in Nat, NEW length \in Nat, length > 0, NEW end \in Nat, x < end
      PROVE  /\ x \div unit \in 0 .. (end - 1) \div unit
             /\ x \div unit \in x \div unit .. (x + length - 1) \div unit
  <2>1. x <= end - 1 /\ x <= x + length - 1 /\ end - 1 \in Nat /\ x + length - 1 \in Nat
    BY <1>6
  <2>2. \A a, c \in Nat : a <= c => a \div unit <= c \div unit /\ a \div unit \in Nat
                                    /\ c \div unit \in Nat
    <3>1. CASE unit = 4
      BY <3>1
    <3>2. CASE unit = 8
      BY <3>2
    <3>3. CASE unit = 16
      BY <3>3
    <3> QED BY <3>1, <3>2, <3>3
  <2>3. PICK a \in Nat, c \in Nat, d \in Nat :
          /\ a = x \div unit /\ c = (end - 1) \div unit /\ d = (x + length - 1) \div unit
          /\ a <= c /\ a <= d
    BY <2>1, <2>2
  <2>4. a \in 0 .. c /\ a \in a .. d
    BY <2>3
  <2> QED BY <2>3, <2>4
<1>7. /\ row \div unit \in 0 .. (rows - 1) \div unit
      /\ row \div unit \in row \div unit .. (row + h - 1) \div unit
  BY <1>4, <1>5, <1>6
<1>8. /\ col \div unit \in 0 .. (cols - 1) \div unit
      /\ col \div unit \in col \div unit .. (col + w - 1) \div unit
  BY <1>4, <1>5, <1>6
<1>9. <<row \div unit, col \div unit>> \in UnitsOf(b)
  BY <1>1, <1>4, <1>7, <1>8, Zenon DEF UnitsOf
<1> QED BY <1>1, <1>2, <1>3, <1>4, <1>7, <1>8, <1>9


LEMMA StrengthInit == Init => SpanInv /\ StrengthInv
<1> SUFFICES ASSUME Init PROVE SpanInv /\ StrengthInv
  OBVIOUS
<1>1. /\ todo = <<>> /\ blocks = <<>> /\ pc # "walk"
      /\ transmitted \in [0 .. 3 -> BOOLEAN]
  BY DEF Init, NotTransmitted
<1>2. DOMAIN todo = {} /\ DOMAIN blocks = {}
  BY <1>1
<1> QED BY <1>1, <1>2 DEF SpanInv, StrengthInv, Strengths

(* The one block whose strength is read in a unit of a decoded frame.      *)
LEMMA OneStrength ==
  ASSUME WalkInv, CellsInv, BlocksLie, StrengthInv, Decoded,
         NEW k \in 0 .. (frame.rows - 1) \div UnitMi, NEW l \in 0 .. (frame.cols - 1) \div UnitMi,
         NEW i \in DOMAIN blocks, <<k, l>> \in UnitsOf(blocks[i]), ~blocks[i].skip
  PROVE  \E j \in DOMAIN blocks :
           \A m \in DOMAIN blocks :
             blocks[m].strength /\ <<k, l>> \in UnitsOf(blocks[m]) <=> m = j
<1>1. PICK j \in DOMAIN blocks :
        blocks[j].strength /\ SameUnit(blocks[j].row, blocks[j].col, blocks[i].row, blocks[i].col)
  BY DEF StrengthInv, Strengths, StrengthAt
<1>2. ASSUME NEW m \in DOMAIN blocks, <<k, l>> \in UnitsOf(blocks[m]), Several(blocks[m])
      PROVE  /\ i = m /\ j = m
             /\ \A n \in DOMAIN blocks : <<k, l>> \in UnitsOf(blocks[n]) => n = m
  <2>1. \A n \in DOMAIN blocks : <<k, l>> \in UnitsOf(blocks[n]) => n = m
    BY <1>2, AloneInUnit
  <2>2. i = m
    BY <2>1
  <2>3. PICK a, b : a = blocks[m].row \div UnitMi /\ b = blocks[m].col \div UnitMi
    OBVIOUS
  <2>4. /\ a \in 0 .. (frame.rows - 1) \div UnitMi /\ b \in 0 .. (frame.cols - 1) \div UnitMi
        /\ <<a, b>> \in UnitsOf(blocks[m])
    BY <1>2, <2>3, CornerUnit
  <2>5. <<a, b>> \in UnitsOf(blocks[j])
    BY <1>1, <2>2, <2>3, CornerUnit DEF SameUnit
  <2>6. j = m
    BY <1>2, <2>4, <2>5, AloneInUnit
  <2> QED BY <2>1, <2>2, <2>6
<1>3. CASE \E m \in DOMAIN blocks : <<k, l>> \in UnitsOf(blocks[m]) /\ Several(blocks[m])
  <2>1. PICK m \in DOMAIN blocks : <<k, l>> \in UnitsOf(blocks[m]) /\ Several(blocks[m])
    BY <1>3
  <2>2. j = m /\ \A n \in DOMAIN blocks : <<k, l>> \in UnitsOf(blocks[n]) => n = m
    BY <1>2, <2>1
  <2> QED BY <1>1, <2>1, <2>2
<1>4. CASE \A m \in DOMAIN blocks : <<k, l>> \in UnitsOf(blocks[m]) => ~Several(blocks[m])
  <2>1. ASSUME NEW m \in DOMAIN blocks, <<k, l>> \in UnitsOf(blocks[m])
        PROVE  blocks[m].row \div UnitMi = k /\ blocks[m].col \div UnitMi = l
    BY <1>4, <2>1, BlockInUnit
  <2>2. blocks[j].row \div UnitMi = k /\ blocks[j].col \div UnitMi = l
    BY <1>1, <2>1 DEF SameUnit
  <2>3. <<k, l>> \in UnitsOf(blocks[j])
    BY <2>2, CornerUnit
  <2>4. ASSUME NEW m \in DOMAIN blocks, blocks[m].strength, <<k, l>> \in UnitsOf(blocks[m])
        PROVE  m = j
    <3>1. SameUnit(blocks[m].row, blocks[m].col, blocks[j].row, blocks[j].col)
      BY <2>1, <2>2, <2>4 DEF SameUnit
    <3> QED BY <1>1, <2>4, <3>1 DEF StrengthInv, Strengths
  <2> QED BY <1>1, <2>3, <2>4
<1> QED BY <1>3, <1>4

(* The strength a unit is filtered with, from the blocks of the unit.      *)
LEMMA StrengthOfUnit ==
  ASSUME WalkInv, CellsInv, BlocksLie, StrengthInv, Decoded,
         NEW k \in 0 .. (frame.rows - 1) \div UnitMi, NEW l \in 0 .. (frame.cols - 1) \div UnitMi
  PROVE  LET here == {i \in DOMAIN blocks : <<k, l>> \in UnitsOf(blocks[i])}
             read == {i \in here : blocks[i].strength}
         IN IF \A i \in here : blocks[i].skip
            THEN UnitStrength(<<k, l>>) = 0
            ELSE read = {UnitStrength(<<k, l>>)}
<1> DEFINE here == {i \in DOMAIN blocks : <<k, l>> \in UnitsOf(blocks[i])}
           hits == {i \in DOMAIN blocks : blocks[i].strength /\ <<k, l>> \in UnitsOf(blocks[i])}
<1>1. UnitStrength(<<k, l>>) = IF hits = {} THEN 0 ELSE LastOf(hits)
  BY DEF UnitStrength
<1>2. hits = {i \in here : blocks[i].strength}
  OBVIOUS
<1>3. CASE \A i \in here : blocks[i].skip
  <2>1. hits = {}
    BY <1>3 DEF StrengthInv, Strengths
  <2> QED BY <1>1, <1>3, <2>1
<1>4. CASE \E i \in here : ~blocks[i].skip
  <2>1. PICK j \in DOMAIN blocks :
          \A m \in DOMAIN blocks :
            blocks[m].strength /\ <<k, l>> \in UnitsOf(blocks[m]) <=> m = j
    BY <1>4, OneStrength
  <2>2. hits = {j}
    BY <2>1
  <2>3. j \in Nat
    <3>1. DOMAIN blocks = 1 .. Len(blocks)
      BY LenProperties DEF WalkInv
    <3> QED BY <3>1
  <2>4. LastOf(hits) = j
    BY <2>2, <2>3 DEF LastOf
  <2> QED BY <1>1, <1>2, <1>4, <2>2, <2>4
<1> QED BY <1>3, <1>4

(* Every unit with a block that does not skip is filtered with the one     *)
(* strength read for it, in it or by the one block that covers it: a       *)
(* block's strength (read_cdef) is noted in cdef_transmitted by its unit   *)
(* of the superblock at hand, in whatever order the partitions put the     *)
(* blocks.                                                                 *)
THEOREM StrengthsAlwaysRead == Spec => []StrengthsRead
<1> DEFINE Inv == /\ WalkInv /\ CellsInv /\ OrderInv /\ BlocksLie /\ CancelInv
                  /\ SpanInv /\ StrengthInv
<1>1. Init => Inv
  <2>1. Init => BlocksLie
    <3>1. DOMAIN <<>> = {}
      OBVIOUS
    <3> QED BY <3>1 DEF Init, BlocksLie
  <2> QED BY <2>1, WalkInit, CellsInit, OrderInit, StrengthInit DEF Init, CancelInv
<1>2. WalkInv /\ CellsInv /\ OrderInv /\ BlocksLie /\ CancelInv /\ SpanInv /\ [Next]_vars
        => (WalkInv /\ CellsInv /\ OrderInv /\ BlocksLie /\ CancelInv /\ SpanInv)'
  BY WalkStep, CellsStep, OrderStep, LieStep, CancelStep, SpanStep
<1>3. Inv /\ [Next]_vars /\ Fresh' => StrengthInv'
  BY StrengthStep
<1>4. Inv => StrengthsRead
  <2> SUFFICES ASSUME WalkInv, CellsInv, BlocksLie, StrengthInv, Decoded, NEW u \in Units
               PROVE  LET here == {i \in DOMAIN blocks : u \in UnitsOf(blocks[i])}
                          read == {i \in here : blocks[i].strength}
                      IN IF \A i \in here : blocks[i].skip
                         THEN UnitStrength(u) = 0
                         ELSE read = {UnitStrength(u)}
    BY DEF StrengthsRead
  <2>1. PICK k \in 0 .. (frame.rows - 1) \div UnitMi, l \in 0 .. (frame.cols - 1) \div UnitMi :
          u = <<k, l>>
    BY DEF Units
  <2> QED BY <2>1, StrengthOfUnit
<1> QED BY <1>1, <1>2, <1>3, <1>4, FreshHolds, PTL DEF Spec

-----------------------------------------------------------------------------
(* The contexts.  The one square whose blocks are being decoded, and whose *)
(* stamp is still to come: update_ext_partition_context writes there, a    *)
(* SPLIT of more than 8x8 leaves it to the parts.                          *)
Writes(call) == call.do = "stamp" /\ call.size > 1 /\ (call.part = "SPLIT" => call.size = 2)
InSquare(call, row, col) == InRect(row, col, call.row, call.col, call.size, call.size)
Pending(row, col) == \E k \in DOMAIN todo : Writes(todo[k]) /\ InSquare(todo[k], row, col)

(* The width that a square's stamps leave above what is below it, and the  *)
(* height that they leave to the left of what is to its right.             *)
DueWidth(call) == IF call.part = "HORZ_B" THEN call.size \div 2 ELSE Subsize(call.size, call.part).w
DueHeight(call) ==
  IF call.part = "VERT_B" THEN call.size \div 2 ELSE Subsize(call.size, call.part).h
Due(row, col, high, wide, stamp) ==
  /\ row + high >= stamp.row + stamp.size => wide = DueWidth(stamp)
  /\ col + wide >= stamp.col + stamp.size => high = DueHeight(stamp)

(* A call that ends in a block: of the stamp's square, with its lengths.   *)
Ending(call) == call.do = "block" \/ (call.do = "node" /\ call.size = 1)
PartOfStamp(call, stamp) ==
  /\ Due(call.row, call.col, High(call), Wide(call), stamp)
  /\ Keeps(call, stamp.row, stamp.col, stamp.size)
StampPlaced(stamp) ==
  /\ stamp.size \in Squares /\ stamp.row \in Nat /\ stamp.col \in Nat
  /\ stamp.part \in PartitionTypes
  /\ sbRow <= stamp.row /\ stamp.row + stamp.size <= sbRow + frame.mib
  /\ sbCol <= stamp.col /\ stamp.col + stamp.size <= sbCol + frame.mib
  /\ stamp.row < frame.rows /\ stamp.col < frame.cols
Below(stamp, row, col) ==
  col >= stamp.col /\ col < stamp.col + stamp.size /\ row >= stamp.row + stamp.size
Beside(stamp, row, col) ==
  row >= stamp.row /\ row < stamp.row + stamp.size /\ col >= stamp.col + stamp.size
StampDue(calls, done, k) ==
  /\ StampPlaced(calls[k])
  /\ \A j \in DOMAIN calls :
       j < k => /\ ~Writes(calls[j])
                /\ calls[j].do # "stamp" => Ending(calls[j]) /\ PartOfStamp(calls[j], calls[k])
  /\ \A row \in 0 .. frame.rows - 1, col \in 0 .. frame.cols - 1 :
       /\ InSquare(calls[k], row, col) =>
            /\ \A j \in DOMAIN calls : j > k => ~Over(calls[j], row, col)
            /\ \A i \in DOMAIN done :
                 Covers(done[i], row, col) =>
                   Due(done[i].row, done[i].col, done[i].h, done[i].w, calls[k])
       /\ Inside(row, col) /\ (Below(calls[k], row, col) \/ Beside(calls[k], row, col)) =>
            \A i \in DOMAIN done : ~Covers(done[i], row, col)
DuesMet(calls, done) ==
  /\ \A k \in DOMAIN calls : Writes(calls[k]) => StampDue(calls, done, k)
  /\ \A j \in DOMAIN calls :
       Ending(calls[j]) => \E k \in DOMAIN calls : k > j /\ Writes(calls[k])
Walking == pc \in {"row", "walk"} /\ ~corrupt /\ ~cancelled
StampsDue == Walking => DuesMet(todo, blocks)

(* The cells decoded in a tile have no gaps above them or to their left.   *)
NoGaps ==
  Walking =>
    \A row, r \in Tile.top .. Tile.bottom - 1, col, c \in Tile.left .. Tile.right - 1 :
      /\ Blocked(row, col) /\ r <= row => Blocked(r, col)
      /\ Blocked(row, col) /\ c <= col => Blocked(row, c)

(* What the contexts hold above and to the left of what is still to come.  *)
AboveAt(col) ==
  /\ ~Blocked(Tile.top, col) => above[col] = 0
  /\ \A row \in Tile.top .. Tile.bottom - 1, i \in DOMAIN blocks :
       Covers(blocks[i], row, col) /\ ~Pending(row, col)
         /\ row + 1 < Tile.bottom /\ ~Blocked(row + 1, col)
           => above[col] = ContextByte(blocks[i].w)
LeftAt(row) ==
  /\ ~Blocked(row, Tile.left) => left[LeftSlot(row)] = 0
  /\ \A col \in Tile.left .. Tile.right - 1, i \in DOMAIN blocks :
       Covers(blocks[i], row, col) /\ ~Pending(row, col)
         /\ col + 1 < Tile.right /\ ~Blocked(row, col + 1)
           => left[LeftSlot(row)] = ContextByte(blocks[i].h)
AboveInv == Walking => \A col \in Tile.left .. Tile.right - 1 : AboveAt(col)
RowsAtHand == {row \in sbRow .. sbRow + frame.mib - 1 : row < Tile.bottom}
LeftInv == Walking /\ pc = "walk" => \A row \in RowsAtHand : LeftAt(row)
ContextDomains ==
  /\ DOMAIN above = 0 .. frame.cols + frame.mib - 1
  /\ DOMAIN left = 0 .. LargestMi - 1

(* A byte of the contexts tells the squares larger than the block that     *)
(* left it, and zero none.                                                 *)
LEMMA BitOfByte ==
  ASSUME UnitMi \in {4, 8, 16}, NEW length \in Squares, length <= LargestMi,
         NEW size \in Squares, size # 1, size <= LargestMi
  PROVE  /\ ContextBit(ContextByte(length), size) = 1 <=> length < size
         /\ ContextBit(0, size) # 1
<1> USE DEF ContextBit, ContextByte, LargestMi
<1>1. ContextBit(0, size) # 1
  <2>1. CASE size = 2
    BY <2>1
  <2>2. CASE size = 4
    BY <2>2
  <2>3. CASE size = 8
    BY <2>3
  <2>4. CASE size = 16
    BY <2>4
  <2>5. CASE size = 32
    BY <2>5
  <2> QED BY <2>1, <2>2, <2>3, <2>4, <2>5 DEF Squares
<1>2. CASE size = 2
  BY <1>2 DEF Squares
<1>3. CASE size = 4
  BY <1>3 DEF Squares
<1>4. CASE size = 8
  BY <1>4 DEF Squares
<1>5. CASE size = 16
  BY <1>5 DEF Squares
<1>6. CASE size = 32
  BY <1>6 DEF Squares
<1> QED BY <1>1, <1>2, <1>3, <1>4, <1>5, <1>6 DEF Squares

(* The rows of a superblock have their slots one after the other.          *)
LEMMA SlotOfRow ==
  ASSUME WalkInv, pc = "walk", NEW row \in Nat, sbRow <= row, row < sbRow + frame.mib
  PROVE  /\ LeftSlot(row) = LeftSlot(sbRow) + (row - sbRow)
         /\ LeftSlot(sbRow) \in Nat /\ LeftSlot(row) \in 0 .. LargestMi - 1
<1>1. PICK unit \in {4, 8, 16}, mib \in Nat :
        /\ unit = UnitMi /\ mib = frame.mib /\ mib \in {unit, 2 * unit}
        /\ LargestMi = 2 * unit
  BY WalkAssumption DEF WalkInv, FrameOK, LargestMi
<1>2. sbRow \in Nat /\ sbRow % mib = 0 /\ row < sbRow + mib
  BY <1>1 DEF WalkInv, WalkPlace
<1>3. CASE unit = 4
  <2>1. \A y \in Nat : LeftSlot(y) = y % 8
    BY <1>1, <1>3 DEF LeftSlot
  <2>2. \A x \in Nat : x % 8 \in Nat /\ x % 8 < 8
    OBVIOUS
  <2>3. ASSUME NEW x \in Nat, x % 4 = 0, NEW y \in Nat, x <= y, y < x + 4
        PROVE  y % 8 = (x % 8) + (y - x)
    <3>1. PICK q \in Nat, z \in Nat : x = 8 * q + z /\ (z = 0 \/ z = 4)
      <4>1. x % 8 \in {0, 4} /\ x = 8 * (x \div 8) + (x % 8)
        BY <2>3
      <4>2. x \div 8 \in Nat /\ x % 8 \in Nat
        OBVIOUS
      <4> QED BY <4>1, <4>2
    <3>2. PICK d \in Nat : d = y - x /\ d < 4 /\ z + d < 8 /\ y = 8 * q + (z + d)
      BY <2>3, <3>1
    <3>3. (8 * q + z) % 8 = z /\ (8 * q + (z + d)) % 8 = z + d
      BY <3>1, <3>2
    <3> QED BY <3>1, <3>2, <3>3
  <2>4. ASSUME NEW x \in Nat, x % 8 = 0, NEW y \in Nat, x <= y, y < x + 8
        PROVE  y % 8 = (x % 8) + (y - x)
    BY <2>4
  <2>5. row % 8 = (sbRow % 8) + (row - sbRow)
    <3>1. CASE mib = 4
      <4>1. sbRow % 4 = 0 /\ sbRow \in Nat /\ row < sbRow + 4
        BY <1>2, <3>1
      <4> QED BY <2>3, <4>1
    <3>2. CASE mib = 8
      <4>1. sbRow % 8 = 0 /\ sbRow \in Nat /\ row < sbRow + 8
        BY <1>2, <3>2
      <4> QED BY <2>4, <4>1
    <3> QED BY <1>1, <1>3, <3>1, <3>2
  <2>6. LeftSlot(row) = LeftSlot(sbRow) + (row - sbRow)
    BY <1>2, <2>1, <2>5
  <2>7. LeftSlot(sbRow) \in Nat /\ LeftSlot(row) \in Nat /\ LeftSlot(row) < 8
    BY <1>2, <2>1, <2>2
  <2>8. LargestMi = 8
    BY <1>1, <1>3
  <2> QED BY <2>6, <2>7, <2>8
<1>4. CASE unit = 8
  <2>1. \A y \in Nat : LeftSlot(y) = y % 16
    BY <1>1, <1>4 DEF LeftSlot
  <2>2. \A x \in Nat : x % 16 \in Nat /\ x % 16 < 16
    OBVIOUS
  <2>3. ASSUME NEW x \in Nat, x % 8 = 0, NEW y \in Nat, x <= y, y < x + 8
        PROVE  y % 16 = (x % 16) + (y - x)
    <3>1. PICK q \in Nat, z \in Nat : x = 16 * q + z /\ (z = 0 \/ z = 8)
      <4>1. x % 16 \in {0, 8} /\ x = 16 * (x \div 16) + (x % 16)
        BY <2>3
      <4>2. x \div 16 \in Nat /\ x % 16 \in Nat
        OBVIOUS
      <4> QED BY <4>1, <4>2
    <3>2. PICK d \in Nat : d = y - x /\ d < 8 /\ z + d < 16 /\ y = 16 * q + (z + d)
      BY <2>3, <3>1
    <3>3. (16 * q + z) % 16 = z /\ (16 * q + (z + d)) % 16 = z + d
      BY <3>1, <3>2
    <3> QED BY <3>1, <3>2, <3>3
  <2>4. ASSUME NEW x \in Nat, x % 16 = 0, NEW y \in Nat, x <= y, y < x + 16
        PROVE  y % 16 = (x % 16) + (y - x)
    BY <2>4
  <2>5. row % 16 = (sbRow % 16) + (row - sbRow)
    <3>1. CASE mib = 8
      <4>1. sbRow % 8 = 0 /\ sbRow \in Nat /\ row < sbRow + 8
        BY <1>2, <3>1
      <4> QED BY <2>3, <4>1
    <3>2. CASE mib = 16
      <4>1. sbRow % 16 = 0 /\ sbRow \in Nat /\ row < sbRow + 16
        BY <1>2, <3>2
      <4> QED BY <2>4, <4>1
    <3> QED BY <1>1, <1>4, <3>1, <3>2
  <2>6. LeftSlot(row) = LeftSlot(sbRow) + (row - sbRow)
    BY <1>2, <2>1, <2>5
  <2>7. LeftSlot(sbRow) \in Nat /\ LeftSlot(row) \in Nat /\ LeftSlot(row) < 16
    BY <1>2, <2>1, <2>2
  <2>8. LargestMi = 16
    BY <1>1, <1>4
  <2> QED BY <2>6, <2>7, <2>8
<1>5. CASE unit = 16
  <2>1. \A y \in Nat : LeftSlot(y) = y % 32
    BY <1>1, <1>5 DEF LeftSlot
  <2>2. \A x \in Nat : x % 32 \in Nat /\ x % 32 < 32
    OBVIOUS
  <2>3. ASSUME NEW x \in Nat, x % 16 = 0, NEW y \in Nat, x <= y, y < x + 16
        PROVE  y % 32 = (x % 32) + (y - x)
    <3>1. PICK q \in Nat, z \in Nat : x = 32 * q + z /\ (z = 0 \/ z = 16)
      <4>1. x % 32 \in {0, 16} /\ x = 32 * (x \div 32) + (x % 32)
        BY <2>3
      <4>2. x \div 32 \in Nat /\ x % 32 \in Nat
        OBVIOUS
      <4> QED BY <4>1, <4>2
    <3>2. PICK d \in Nat : d = y - x /\ d < 16 /\ z + d < 32 /\ y = 32 * q + (z + d)
      BY <2>3, <3>1
    <3>3. (32 * q + z) % 32 = z /\ (32 * q + (z + d)) % 32 = z + d
      BY <3>1, <3>2
    <3> QED BY <3>1, <3>2, <3>3
  <2>4. ASSUME NEW x \in Nat, x % 32 = 0, NEW y \in Nat, x <= y, y < x + 32
        PROVE  y % 32 = (x % 32) + (y - x)
    BY <2>4
  <2>5. row % 32 = (sbRow % 32) + (row - sbRow)
    <3>1. CASE mib = 16
      <4>1. sbRow % 16 = 0 /\ sbRow \in Nat /\ row < sbRow + 16
        BY <1>2, <3>1
      <4> QED BY <2>3, <4>1
    <3>2. CASE mib = 32
      <4>1. sbRow % 32 = 0 /\ sbRow \in Nat /\ row < sbRow + 32
        BY <1>2, <3>2
      <4> QED BY <2>4, <4>1
    <3> QED BY <1>1, <1>5, <3>1, <3>2
  <2>6. LeftSlot(row) = LeftSlot(sbRow) + (row - sbRow)
    BY <1>2, <2>1, <2>5
  <2>7. LeftSlot(sbRow) \in Nat /\ LeftSlot(row) \in Nat /\ LeftSlot(row) < 32
    BY <1>2, <2>1, <2>2
  <2>8. LargestMi = 32
    BY <1>1, <1>5
  <2> QED BY <2>6, <2>7, <2>8
<1> QED BY <1>3, <1>4, <1>5

(* One stamp, and two of which the second has the last word.               *)
LEMMA LastStamp ==
  /\ LastOf({1}) = 1 /\ LastOf({2}) = 2 /\ LastOf({1, 2}) = 2
BY DEF LastOf

LEMMA OneStampAbove ==
  ASSUME NEW a, NEW x \in DOMAIN above
  PROVE  StampedAbove(<<a>>)[x] =
           IF x \in a.col .. a.col + a.over.w - 1 THEN ContextByte(a.of.w) ELSE above[x]
<1>1. PICK s : s = <<a>>
  OBVIOUS
<1>2. DOMAIN s = {1} /\ s[1] = a
  BY <1>1
<1>3. PICK over : over = {i \in DOMAIN s : x \in s[i].col .. s[i].col + s[i].over.w - 1}
  OBVIOUS
<1>4. StampedAbove(s)[x] = IF over = {} THEN above[x] ELSE ContextByte(s[LastOf(over)].of.w)
  BY <1>3 DEF StampedAbove
<1>5. CASE x \in a.col .. a.col + a.over.w - 1
  <2>1. over = {1}
    BY <1>2, <1>3, <1>5
  <2>2. ContextByte(s[LastOf(over)].of.w) = ContextByte(a.of.w) /\ over # {}
    BY <1>2, <2>1, LastStamp
  <2> QED BY <1>1, <1>4, <1>5, <2>2
<1>6. CASE x \notin a.col .. a.col + a.over.w - 1
  <2>1. over = {}
    BY <1>2, <1>3, <1>6
  <2> QED BY <1>1, <1>4, <1>6, <2>1
<1> QED BY <1>5, <1>6

LEMMA TwoStampsAbove ==
  ASSUME NEW a, NEW b, NEW x \in DOMAIN above
  PROVE  StampedAbove(<<a, b>>)[x] =
           IF x \in b.col .. b.col + b.over.w - 1 THEN ContextByte(b.of.w)
           ELSE IF x \in a.col .. a.col + a.over.w - 1 THEN ContextByte(a.of.w)
           ELSE above[x]
<1>1. PICK s : s = <<a, b>>
  OBVIOUS
<1>2. DOMAIN s = {1, 2} /\ s[1] = a /\ s[2] = b
  BY <1>1
<1>3. PICK over : over = {i \in DOMAIN s : x \in s[i].col .. s[i].col + s[i].over.w - 1}
  OBVIOUS
<1>4. StampedAbove(s)[x] = IF over = {} THEN above[x] ELSE ContextByte(s[LastOf(over)].of.w)
  BY <1>3 DEF StampedAbove
<1>5. CASE x \in b.col .. b.col + b.over.w - 1
  <2>1. over = {2} \/ over = {1, 2}
    BY <1>2, <1>3, <1>5
  <2>2. ContextByte(s[LastOf(over)].of.w) = ContextByte(b.of.w) /\ over # {}
    BY <1>2, <2>1, LastStamp
  <2> QED BY <1>1, <1>4, <1>5, <2>2
<1>6. CASE x \notin b.col .. b.col + b.over.w - 1 /\ x \in a.col .. a.col + a.over.w - 1
  <2>1. over = {1}
    BY <1>2, <1>3, <1>6
  <2>2. ContextByte(s[LastOf(over)].of.w) = ContextByte(a.of.w) /\ over # {}
    BY <1>2, <2>1, LastStamp
  <2> QED BY <1>1, <1>4, <1>6, <2>2
<1>7. CASE x \notin b.col .. b.col + b.over.w - 1 /\ x \notin a.col .. a.col + a.over.w - 1
  <2>1. over = {}
    BY <1>2, <1>3, <1>7
  <2> QED BY <1>1, <1>4, <1>7, <2>1
<1> QED BY <1>5, <1>6, <1>7

LEMMA OneStampLeft ==
  ASSUME NEW a, NEW y \in DOMAIN left
  PROVE  StampedLeft(<<a>>)[y] =
           IF y - LeftSlot(a.row) \in 0 .. a.over.h - 1 THEN ContextByte(a.of.h) ELSE left[y]
<1>1. PICK s : s = <<a>>
  OBVIOUS
<1>2. DOMAIN s = {1} /\ s[1] = a
  BY <1>1
<1>3. PICK over : over = {i \in DOMAIN s : y - LeftSlot(s[i].row) \in 0 .. s[i].over.h - 1}
  OBVIOUS
<1>4. StampedLeft(s)[y] = IF over = {} THEN left[y] ELSE ContextByte(s[LastOf(over)].of.h)
  BY <1>3 DEF StampedLeft
<1>5. CASE y - LeftSlot(a.row) \in 0 .. a.over.h - 1
  <2>1. over = {1}
    BY <1>2, <1>3, <1>5
  <2>2. ContextByte(s[LastOf(over)].of.h) = ContextByte(a.of.h) /\ over # {}
    BY <1>2, <2>1, LastStamp
  <2> QED BY <1>1, <1>4, <1>5, <2>2
<1>6. CASE y - LeftSlot(a.row) \notin 0 .. a.over.h - 1
  <2>1. over = {}
    BY <1>2, <1>3, <1>6
  <2> QED BY <1>1, <1>4, <1>6, <2>1
<1> QED BY <1>5, <1>6

LEMMA TwoStampsLeft ==
  ASSUME NEW a, NEW b, NEW y \in DOMAIN left
  PROVE  StampedLeft(<<a, b>>)[y] =
           IF y - LeftSlot(b.row) \in 0 .. b.over.h - 1 THEN ContextByte(b.of.h)
           ELSE IF y - LeftSlot(a.row) \in 0 .. a.over.h - 1 THEN ContextByte(a.of.h)
           ELSE left[y]
<1>1. PICK s : s = <<a, b>>
  OBVIOUS
<1>2. DOMAIN s = {1, 2} /\ s[1] = a /\ s[2] = b
  BY <1>1
<1>3. PICK over : over = {i \in DOMAIN s : y - LeftSlot(s[i].row) \in 0 .. s[i].over.h - 1}
  OBVIOUS
<1>4. StampedLeft(s)[y] = IF over = {} THEN left[y] ELSE ContextByte(s[LastOf(over)].of.h)
  BY <1>3 DEF StampedLeft
<1>5. CASE y - LeftSlot(b.row) \in 0 .. b.over.h - 1
  <2>1. over = {2} \/ over = {1, 2}
    BY <1>2, <1>3, <1>5
  <2>2. ContextByte(s[LastOf(over)].of.h) = ContextByte(b.of.h) /\ over # {}
    BY <1>2, <2>1, LastStamp
  <2> QED BY <1>1, <1>4, <1>5, <2>2
<1>6. CASE y - LeftSlot(b.row) \notin 0 .. b.over.h - 1 /\ y - LeftSlot(a.row) \in 0 .. a.over.h - 1
  <2>1. over = {1}
    BY <1>2, <1>3, <1>6
  <2>2. ContextByte(s[LastOf(over)].of.h) = ContextByte(a.of.h) /\ over # {}
    BY <1>2, <2>1, LastStamp
  <2> QED BY <1>1, <1>4, <1>6, <2>2
<1>7. CASE y - LeftSlot(b.row) \notin 0 .. b.over.h - 1 /\ y - LeftSlot(a.row) \notin 0 .. a.over.h - 1
  <2>1. over = {}
    BY <1>2, <1>3, <1>7
  <2> QED BY <1>1, <1>4, <1>7, <2>1
<1> QED BY <1>5, <1>6, <1>7

(* The stamps of a square, by its partition: one over the whole, two over  *)
(* its upper and lower halves, two over its left and right ones.           *)
AsStamped(stamps, row, col, size, p, hbs, quarter) ==
  LET whole == [w |-> size, h |-> size]
      lower == [w |-> size, h |-> hbs]
      right == [w |-> hbs, h |-> size]
      half == [w |-> hbs, h |-> hbs]
  IN /\ p = "NONE" => stamps = <<Stamp(row, col, whole, whole)>>
     /\ p = "SPLIT" => stamps = <<Stamp(row, col, half, whole)>>
     /\ p = "HORZ" => stamps = <<Stamp(row, col, lower, whole)>>
     /\ p = "VERT" => stamps = <<Stamp(row, col, right, whole)>>
     /\ p = "HORZ_4" => stamps = <<Stamp(row, col, [w |-> size, h |-> quarter], whole)>>
     /\ p = "VERT_4" => stamps = <<Stamp(row, col, [w |-> quarter, h |-> size], whole)>>
     /\ p = "HORZ_A" =>
          stamps = <<Stamp(row, col, half, lower), Stamp(row + hbs, col, lower, lower)>>
     /\ p = "HORZ_B" =>
          stamps = <<Stamp(row, col, lower, lower), Stamp(row + hbs, col, half, lower)>>
     /\ p = "VERT_A" =>
          stamps = <<Stamp(row, col, half, right), Stamp(row, col + hbs, right, right)>>
     /\ p = "VERT_B" =>
          stamps = <<Stamp(row, col, right, right), Stamp(row, col + hbs, half, right)>>

LEMMA StampsOfSquare ==
  ASSUME NEW row, NEW col, NEW size, NEW p \in PartitionTypes, p = "SPLIT" => size = 2,
         NEW hbs, hbs = size \div 2, NEW quarter, quarter = size \div 4,
         NEW stamps, stamps = Stamps(row, col, size, p)
  PROVE  AsStamped(stamps, row, col, size, p, hbs, quarter)
<1> USE DEF AsStamped
<1>1. Subsize(size, "NONE") = [w |-> size, h |-> size]
  BY SubsizeValues
<1>2. Subsize(size, "SPLIT") = [w |-> hbs, h |-> hbs]
  BY SubsizeValues
<1>3. /\ Subsize(size, "HORZ") = [w |-> size, h |-> hbs]
      /\ Subsize(size, "HORZ_A") = [w |-> size, h |-> hbs]
      /\ Subsize(size, "HORZ_B") = [w |-> size, h |-> hbs]
  BY SubsizeValues DEF Halved
<1>4. /\ Subsize(size, "VERT") = [w |-> hbs, h |-> size]
      /\ Subsize(size, "VERT_A") = [w |-> hbs, h |-> size]
      /\ Subsize(size, "VERT_B") = [w |-> hbs, h |-> size]
  BY SubsizeValues DEF Sided
<1>5. /\ Subsize(size, "HORZ_4") = [w |-> size, h |-> quarter]
      /\ Subsize(size, "VERT_4") = [w |-> quarter, h |-> size]
  BY SubsizeValues
<1>6. CASE p \in {"NONE", "SPLIT", "HORZ", "VERT", "HORZ_4", "VERT_4"}
  BY <1>1, <1>2, <1>3, <1>4, <1>5, <1>6 DEF Stamps
<1>7. CASE p = "HORZ_A"
  BY <1>2, <1>3, <1>7 DEF Stamps
<1>8. CASE p = "HORZ_B"
  BY <1>2, <1>3, <1>8 DEF Stamps
<1>9. CASE p = "VERT_A"
  BY <1>2, <1>4, <1>9 DEF Stamps
<1>10. CASE p = "VERT_B"
  BY <1>2, <1>4, <1>10 DEF Stamps
<1> QED BY <1>6, <1>7, <1>8, <1>9, <1>10 DEF PartitionTypes

(* The lengths a square leaves, by its partition.                          *)
LEMMA DueLengths ==
  ASSUME NEW stamp, NEW size, size = stamp.size, NEW p \in PartitionTypes, p = stamp.part,
         NEW hbs, hbs = size \div 2, NEW quarter, quarter = size \div 4
  PROVE  /\ p \in {"NONE", "HORZ", "HORZ_A", "HORZ_4"} => DueWidth(stamp) = size
         /\ p \in {"SPLIT", "VERT", "HORZ_B", "VERT_A", "VERT_B"} => DueWidth(stamp) = hbs
         /\ p = "VERT_4" => DueWidth(stamp) = quarter
         /\ p \in {"NONE", "VERT", "VERT_A", "VERT_4"} => DueHeight(stamp) = size
         /\ p \in {"SPLIT", "HORZ", "HORZ_A", "HORZ_B", "VERT_B"} => DueHeight(stamp) = hbs
         /\ p = "HORZ_4" => DueHeight(stamp) = quarter
<1>1. Subsize(size, "NONE") = [w |-> size, h |-> size]
  BY SubsizeValues
<1>2. Subsize(size, "SPLIT") = [w |-> hbs, h |-> hbs]
  BY SubsizeValues
<1>3. \A q \in Halved : Subsize(size, q) = [w |-> size, h |-> hbs]
  BY SubsizeValues
<1>4. \A q \in Sided : Subsize(size, q) = [w |-> hbs, h |-> size]
  BY SubsizeValues
<1>5. /\ Subsize(size, "HORZ_4") = [w |-> size, h |-> quarter]
      /\ Subsize(size, "VERT_4") = [w |-> quarter, h |-> size]
  BY SubsizeValues
<1>6. /\ p \in {"NONE", "HORZ", "HORZ_A", "HORZ_4"} => DueWidth(stamp) = size
      /\ p \in {"SPLIT", "VERT", "HORZ_B", "VERT_A", "VERT_B"} => DueWidth(stamp) = hbs
      /\ p = "VERT_4" => DueWidth(stamp) = quarter
  BY <1>1, <1>2, <1>3, <1>4, <1>5 DEF DueWidth, Halved, Sided
<1>7. /\ p \in {"NONE", "VERT", "VERT_A", "VERT_4"} => DueHeight(stamp) = size
      /\ p \in {"SPLIT", "HORZ", "HORZ_A", "HORZ_B", "VERT_B"} => DueHeight(stamp) = hbs
      /\ p = "HORZ_4" => DueHeight(stamp) = quarter
  BY <1>1, <1>2, <1>3, <1>4, <1>5 DEF DueHeight, Halved, Sided
<1> QED BY <1>6, <1>7

LEMMA StampsAbove ==
  ASSUME NEW row \in Nat, NEW col \in Nat, NEW size \in Squares, size # 1,
         NEW p \in PartitionTypes, p = "SPLIT" => size = 2,
         NEW stamp, stamp.size = size, stamp.part = p,
         NEW x \in DOMAIN above, x \in Nat
  PROVE  StampedAbove(Stamps(row, col, size, p))[x] =
           IF col <= x /\ x < col + size THEN ContextByte(DueWidth(stamp)) ELSE above[x]
<1>1. PICK hbs \in Nat, quarter \in Nat : hbs = size \div 2 /\ quarter = size \div 4 /\ size = 2 * hbs
  BY DEF Squares
<1>2. PICK stamps : stamps = Stamps(row, col, size, p)
  OBVIOUS
<1>0. AsStamped(stamps, row, col, size, p, hbs, quarter)
  BY <1>1, <1>2, StampsOfSquare
<1>3. PICK due : due = DueWidth(stamp)
  OBVIOUS
<1>4. SUFFICES StampedAbove(stamps)[x] =
                 IF col <= x /\ x < col + size THEN ContextByte(due) ELSE above[x]
  BY <1>2, <1>3
<1>5. /\ p \in {"NONE", "HORZ", "HORZ_A", "HORZ_4"} => due = size
      /\ p \in {"SPLIT", "VERT", "HORZ_B", "VERT_A", "VERT_B"} => due = hbs
      /\ p = "VERT_4" => due = quarter
  BY <1>1, <1>3, DueLengths
<1>6. ASSUME NEW s, stamps = <<s>>, s.col = col, s.of.w = due, s.over.w = size
      PROVE  StampedAbove(stamps)[x] =
               IF col <= x /\ x < col + size THEN ContextByte(due) ELSE above[x]
  BY <1>1, <1>6, OneStampAbove
<1>7. ASSUME NEW s, NEW t, stamps = <<s, t>>, s.col = col, t.col = col, t.of.w = due,
             s.over.w = size, t.over.w = size
      PROVE  StampedAbove(stamps)[x] =
               IF col <= x /\ x < col + size THEN ContextByte(due) ELSE above[x]
  BY <1>1, <1>7, TwoStampsAbove
<1>8. ASSUME NEW s, NEW t, stamps = <<s, t>>, s.col = col, t.col = col + hbs,
             s.of.w = due, t.of.w = due, s.over.w = hbs, t.over.w = hbs
      PROVE  StampedAbove(stamps)[x] =
               IF col <= x /\ x < col + size THEN ContextByte(due) ELSE above[x]
  BY <1>1, <1>8, TwoStampsAbove
<1> DEFINE whole == [w |-> size, h |-> size]
           lower == [w |-> size, h |-> hbs]
           right == [w |-> hbs, h |-> size]
           half == [w |-> hbs, h |-> hbs]
<1>9. ASSUME NEW of, stamps = <<Stamp(row, col, of, whole)>>, of.w = due
      PROVE  StampedAbove(stamps)[x] =
               IF col <= x /\ x < col + size THEN ContextByte(due) ELSE above[x]
  <2>1. PICK s : s = Stamp(row, col, of, whole)
    OBVIOUS
  <2>2. s.col = col /\ s.of.w = due /\ s.over.w = size
    BY <1>9, <2>1 DEF Stamp
  <2> QED BY <1>6, <1>9, <2>1, <2>2
<1>10. ASSUME NEW of, NEW second, second.w = due,
              stamps = <<Stamp(row, col, of, lower), Stamp(row + hbs, col, second, lower)>>
       PROVE  StampedAbove(stamps)[x] =
                IF col <= x /\ x < col + size THEN ContextByte(due) ELSE above[x]
  <2>1. PICK s, t : s = Stamp(row, col, of, lower) /\ t = Stamp(row + hbs, col, second, lower)
    OBVIOUS
  <2>2. s.col = col /\ s.over.w = size /\ t.col = col /\ t.of.w = due /\ t.over.w = size
    BY <1>10, <2>1 DEF Stamp
  <2>3. stamps = <<s, t>>
    BY <1>10, <2>1
  <2> QED BY <1>7, <2>2, <2>3
<1>11. ASSUME NEW of, NEW second, of.w = due, second.w = due,
              stamps = <<Stamp(row, col, of, right), Stamp(row, col + hbs, second, right)>>
       PROVE  StampedAbove(stamps)[x] =
                IF col <= x /\ x < col + size THEN ContextByte(due) ELSE above[x]
  <2>1. PICK s, t : s = Stamp(row, col, of, right) /\ t = Stamp(row, col + hbs, second, right)
    OBVIOUS
  <2>2. /\ s.col = col /\ s.of.w = due /\ s.over.w = hbs
        /\ t.col = col + hbs /\ t.of.w = due /\ t.over.w = hbs
    BY <1>11, <2>1 DEF Stamp
  <2>3. stamps = <<s, t>>
    BY <1>11, <2>1
  <2> QED BY <1>8, <2>2, <2>3
<1>12. /\ p = "NONE" => stamps = <<Stamp(row, col, whole, whole)>> /\ whole.w = due
       /\ p = "SPLIT" => stamps = <<Stamp(row, col, half, whole)>> /\ half.w = due
       /\ p = "HORZ" => stamps = <<Stamp(row, col, lower, whole)>> /\ lower.w = due
       /\ p = "VERT" => stamps = <<Stamp(row, col, right, whole)>> /\ right.w = due
  BY <1>0, <1>5 DEF AsStamped
<1>13. /\ p = "HORZ_4" => \E of : stamps = <<Stamp(row, col, of, whole)>> /\ of.w = due
       /\ p = "VERT_4" => \E of : stamps = <<Stamp(row, col, of, whole)>> /\ of.w = due
  <2>1. PICK a, b : a = [w |-> size, h |-> quarter] /\ b = [w |-> quarter, h |-> size]
    OBVIOUS
  <2>2. /\ p = "HORZ_4" => stamps = <<Stamp(row, col, a, whole)>>
        /\ p = "VERT_4" => stamps = <<Stamp(row, col, b, whole)>>
    BY <1>0, <2>1 DEF AsStamped
  <2>3. (p = "HORZ_4" => a.w = due) /\ (p = "VERT_4" => b.w = due)
    BY <1>5, <2>1
  <2> QED BY <2>2, <2>3
<1>14. /\ p = "HORZ_A" =>
            /\ stamps = <<Stamp(row, col, half, lower), Stamp(row + hbs, col, lower, lower)>>
            /\ lower.w = due
       /\ p = "HORZ_B" =>
            /\ stamps = <<Stamp(row, col, lower, lower), Stamp(row + hbs, col, half, lower)>>
            /\ half.w = due
       /\ p = "VERT_A" =>
            /\ stamps = <<Stamp(row, col, half, right), Stamp(row, col + hbs, right, right)>>
            /\ half.w = due /\ right.w = due
       /\ p = "VERT_B" =>
            /\ stamps = <<Stamp(row, col, right, right), Stamp(row, col + hbs, half, right)>>
            /\ half.w = due /\ right.w = due
  <2>1. /\ p = "HORZ_A" =>
             stamps = <<Stamp(row, col, half, lower), Stamp(row + hbs, col, lower, lower)>>
        /\ p = "HORZ_B" =>
             stamps = <<Stamp(row, col, lower, lower), Stamp(row + hbs, col, half, lower)>>
        /\ p = "VERT_A" =>
             stamps = <<Stamp(row, col, half, right), Stamp(row, col + hbs, right, right)>>
        /\ p = "VERT_B" =>
             stamps = <<Stamp(row, col, right, right), Stamp(row, col + hbs, half, right)>>
    BY <1>0 DEF AsStamped
  <2>2. lower.w = size /\ half.w = hbs /\ right.w = hbs
    OBVIOUS
  <2> QED BY <1>5, <2>1, <2>2
<1> HIDE DEF whole, lower, right, half
<1>15. CASE p \in {"NONE", "SPLIT", "HORZ", "VERT", "HORZ_4", "VERT_4"}
  BY <1>9, <1>12, <1>13, <1>15
<1>16. CASE p \in {"HORZ_A", "HORZ_B"}
  BY <1>10, <1>14, <1>16
<1>17. CASE p \in {"VERT_A", "VERT_B"}
  BY <1>11, <1>14, <1>17
<1> QED BY <1>15, <1>16, <1>17 DEF PartitionTypes

LEMMA StampsLeft ==
  ASSUME WalkInv, pc = "walk", DOMAIN left = 0 .. LargestMi - 1,
         NEW row \in Nat, NEW col \in Nat, NEW size \in Squares, size # 1,
         sbRow <= row, row + size <= sbRow + frame.mib,
         NEW p \in PartitionTypes, p = "SPLIT" => size = 2,
         NEW stamp, stamp.size = size, stamp.part = p,
         NEW y \in Nat, sbRow <= y, y < sbRow + frame.mib
  PROVE  StampedLeft(Stamps(row, col, size, p))[LeftSlot(y)] =
           IF row <= y /\ y < row + size THEN ContextByte(DueHeight(stamp)) ELSE left[LeftSlot(y)]
<1>1. PICK hbs \in Nat, quarter \in Nat : hbs = size \div 2 /\ quarter = size \div 4 /\ size = 2 * hbs
                                  /\ hbs > 0
  BY DEF Squares
<1>2. PICK stamps : stamps = Stamps(row, col, size, p)
  OBVIOUS
<1>3. PICK due : due = DueHeight(stamp)
  OBVIOUS
<1>4. AsStamped(stamps, row, col, size, p, hbs, quarter)
  BY <1>1, <1>2, StampsOfSquare
<1>5. /\ p \in {"NONE", "VERT", "VERT_A", "VERT_4"} => due = size
      /\ p \in {"SPLIT", "HORZ", "HORZ_A", "HORZ_B", "VERT_B"} => due = hbs
      /\ p = "HORZ_4" => due = quarter
  BY <1>1, <1>3, DueLengths
<1>20. PICK mib \in Nat : mib = frame.mib
  BY FrameTypes
<1>21. PICK base \in Nat : base = LeftSlot(sbRow)
  <2>1. sbRow \in Nat /\ sbRow <= sbRow /\ sbRow < sbRow + frame.mib
    BY <1>20 DEF WalkInv
  <2> QED BY <2>1, SlotOfRow
<1>22. sbRow \in Nat
  BY DEF WalkInv
<1>23. ASSUME NEW r \in Nat, sbRow <= r, r < sbRow + mib
       PROVE  LeftSlot(r) = base + (r - sbRow)
  <2>1. r < sbRow + frame.mib
    BY <1>20, <1>23
  <2> QED BY <1>21, <1>23, <2>1, SlotOfRow
<1>24. /\ row + hbs \in Nat /\ sbRow <= row + hbs /\ row + hbs < sbRow + mib
       /\ row < sbRow + mib /\ y < sbRow + mib
  <2>1. row + size <= sbRow + mib /\ y < sbRow + mib
    BY <1>20, Zenon
  <2> QED BY <1>1, <1>22, <2>1
<1>25. /\ LeftSlot(y) = base + (y - sbRow) /\ LeftSlot(row) = base + (row - sbRow)
       /\ LeftSlot(row + hbs) = base + ((row + hbs) - sbRow)
  BY <1>23, <1>24
<1>26. LeftSlot(y) \in DOMAIN left
  BY SlotOfRow
<1>6. PICK slot, first, middle :
        slot = LeftSlot(y) /\ first = LeftSlot(row) /\ middle = LeftSlot(row + hbs)
  OBVIOUS
<1>28. slot \in DOMAIN left
  BY <1>6, <1>26
<1>27. slot - first = y - row /\ slot - middle = y - (row + hbs)
  <2>1. /\ slot = base + (y - sbRow) /\ first = base + (row - sbRow)
        /\ middle = base + ((row + hbs) - sbRow)
    BY <1>6, <1>25
  <2> QED BY <1>1, <1>22, <2>1
<1>0. /\ slot - first \in 0 .. size - 1 <=> row <= y /\ y < row + size
      /\ slot - first \in 0 .. hbs - 1 <=> row <= y /\ y < row + hbs
      /\ slot - middle \in 0 .. hbs - 1 <=> row + hbs <= y /\ y < row + size
  <2>1. /\ y - row \in 0 .. size - 1 <=> row <= y /\ y < row + size
        /\ y - row \in 0 .. hbs - 1 <=> row <= y /\ y < row + hbs
        /\ y - (row + hbs) \in 0 .. hbs - 1 <=> row + hbs <= y /\ y < row + size
    BY <1>1
  <2> QED BY <1>27, <2>1
<1>7. SUFFICES StampedLeft(stamps)[slot] =
                 IF row <= y /\ y < row + size THEN ContextByte(due) ELSE left[slot]
  BY <1>2, <1>3, <1>6
<1>8. ASSUME NEW s, stamps = <<s>>, s.row = row, s.of.h = due, s.over.h = size
      PROVE  StampedLeft(stamps)[slot] =
               IF row <= y /\ y < row + size THEN ContextByte(due) ELSE left[slot]
  <2>1. slot - LeftSlot(s.row) \in 0 .. s.over.h - 1 <=> row <= y /\ y < row + size
    BY <1>0, <1>6, <1>8, Zenon
  <2> QED BY <1>8, <1>28, <2>1, OneStampLeft
<1>9. ASSUME NEW s, NEW t, stamps = <<s, t>>, s.row = row, t.row = row, t.of.h = due,
             s.over.h = size, t.over.h = size
      PROVE  StampedLeft(stamps)[slot] =
               IF row <= y /\ y < row + size THEN ContextByte(due) ELSE left[slot]
  <2>1. /\ slot - LeftSlot(s.row) \in 0 .. s.over.h - 1 <=> row <= y /\ y < row + size
        /\ slot - LeftSlot(t.row) \in 0 .. t.over.h - 1 <=> row <= y /\ y < row + size
    BY <1>0, <1>6, <1>9, Zenon
  <2> QED BY <1>9, <1>28, <2>1, TwoStampsLeft
<1>10. ASSUME NEW s, NEW t, stamps = <<s, t>>, s.row = row, t.row = row + hbs,
              s.of.h = due, t.of.h = due, s.over.h = hbs, t.over.h = hbs
       PROVE  StampedLeft(stamps)[slot] =
                IF row <= y /\ y < row + size THEN ContextByte(due) ELSE left[slot]
  <2>1. /\ slot - LeftSlot(s.row) \in 0 .. s.over.h - 1 <=> row <= y /\ y < row + hbs
        /\ slot - LeftSlot(t.row) \in 0 .. t.over.h - 1 <=> row + hbs <= y /\ y < row + size
    BY <1>0, <1>6, <1>10, Zenon
  <2>2. row <= y /\ y < row + size <=>
          (row <= y /\ y < row + hbs) \/ (row + hbs <= y /\ y < row + size)
    BY <1>1
  <2>3. StampedLeft(<<s, t>>)[slot] =
           IF slot - LeftSlot(t.row) \in 0 .. t.over.h - 1 THEN ContextByte(t.of.h)
           ELSE IF slot - LeftSlot(s.row) \in 0 .. s.over.h - 1 THEN ContextByte(s.of.h)
           ELSE left[slot]
    BY <1>28, TwoStampsLeft
  <2> QED BY <1>10, <2>1, <2>2, <2>3
<1> DEFINE whole == [w |-> size, h |-> size]
           lower == [w |-> size, h |-> hbs]
           right == [w |-> hbs, h |-> size]
           half == [w |-> hbs, h |-> hbs]
<1>11. ASSUME NEW of, stamps = <<Stamp(row, col, of, whole)>>, of.h = due
       PROVE  StampedLeft(stamps)[slot] =
                IF row <= y /\ y < row + size THEN ContextByte(due) ELSE left[slot]
  <2>1. PICK s : s = Stamp(row, col, of, whole)
    OBVIOUS
  <2>2. s.row = row /\ s.of.h = due /\ s.over.h = size
    BY <1>11, <2>1 DEF Stamp
  <2> QED BY <1>8, <1>11, <2>1, <2>2
<1>12. ASSUME NEW of, NEW second, second.h = due, NEW a, a = col + hbs,
              stamps = <<Stamp(row, col, of, right), Stamp(row, a, second, right)>>
       PROVE  StampedLeft(stamps)[slot] =
                IF row <= y /\ y < row + size THEN ContextByte(due) ELSE left[slot]
  <2>1. PICK s, t : s = Stamp(row, col, of, right) /\ t = Stamp(row, a, second, right)
    OBVIOUS
  <2>2. s.row = row /\ s.over.h = size /\ t.row = row /\ t.of.h = due /\ t.over.h = size
    BY <1>12, <2>1 DEF Stamp
  <2>3. stamps = <<s, t>>
    BY <1>12, <2>1
  <2> QED BY <1>9, <2>2, <2>3
<1>13. ASSUME NEW of, NEW second, of.h = due, second.h = due,
              stamps = <<Stamp(row, col, of, lower), Stamp(row + hbs, col, second, lower)>>
       PROVE  StampedLeft(stamps)[slot] =
                IF row <= y /\ y < row + size THEN ContextByte(due) ELSE left[slot]
  <2>1. PICK s, t : s = Stamp(row, col, of, lower) /\ t = Stamp(row + hbs, col, second, lower)
    OBVIOUS
  <2>2. /\ s.row = row /\ s.of.h = due /\ s.over.h = hbs
        /\ t.row = row + hbs /\ t.of.h = due /\ t.over.h = hbs
    BY <1>13, <2>1 DEF Stamp
  <2>3. stamps = <<s, t>>
    BY <1>13, <2>1
  <2> QED BY <1>10, <2>2, <2>3
<1>14. /\ p = "NONE" => stamps = <<Stamp(row, col, whole, whole)>> /\ whole.h = due
       /\ p = "SPLIT" => stamps = <<Stamp(row, col, half, whole)>> /\ half.h = due
       /\ p = "HORZ" => stamps = <<Stamp(row, col, lower, whole)>> /\ lower.h = due
       /\ p = "VERT" => stamps = <<Stamp(row, col, right, whole)>> /\ right.h = due
  BY <1>4, <1>5 DEF AsStamped
<1>15. /\ p = "HORZ_4" => \E of : stamps = <<Stamp(row, col, of, whole)>> /\ of.h = due
       /\ p = "VERT_4" => \E of : stamps = <<Stamp(row, col, of, whole)>> /\ of.h = due
  <2>1. PICK a, b : a = [w |-> size, h |-> quarter] /\ b = [w |-> quarter, h |-> size]
    OBVIOUS
  <2>2. /\ p = "HORZ_4" => stamps = <<Stamp(row, col, a, whole)>>
        /\ p = "VERT_4" => stamps = <<Stamp(row, col, b, whole)>>
    BY <1>4, <2>1 DEF AsStamped
  <2>3. (p = "HORZ_4" => a.h = due) /\ (p = "VERT_4" => b.h = due)
    BY <1>5, <2>1
  <2> QED BY <2>2, <2>3
<1>16. /\ p = "HORZ_A" =>
            /\ stamps = <<Stamp(row, col, half, lower), Stamp(row + hbs, col, lower, lower)>>
            /\ half.h = due /\ lower.h = due
       /\ p = "HORZ_B" =>
            /\ stamps = <<Stamp(row, col, lower, lower), Stamp(row + hbs, col, half, lower)>>
            /\ lower.h = due /\ half.h = due
       /\ p = "VERT_A" =>
            /\ stamps = <<Stamp(row, col, half, right), Stamp(row, col + hbs, right, right)>>
            /\ right.h = due
       /\ p = "VERT_B" =>
            /\ stamps = <<Stamp(row, col, right, right), Stamp(row, col + hbs, half, right)>>
            /\ half.h = due
  <2>1. /\ p = "HORZ_A" =>
             stamps = <<Stamp(row, col, half, lower), Stamp(row + hbs, col, lower, lower)>>
        /\ p = "HORZ_B" =>
             stamps = <<Stamp(row, col, lower, lower), Stamp(row + hbs, col, half, lower)>>
        /\ p = "VERT_A" =>
             stamps = <<Stamp(row, col, half, right), Stamp(row, col + hbs, right, right)>>
        /\ p = "VERT_B" =>
             stamps = <<Stamp(row, col, right, right), Stamp(row, col + hbs, half, right)>>
    BY <1>4 DEF AsStamped
  <2>2. lower.h = hbs /\ half.h = hbs /\ right.h = size
    OBVIOUS
  <2> QED BY <1>5, <2>1, <2>2
<1> HIDE DEF whole, lower, right, half
<1>17. CASE p \in {"NONE", "SPLIT", "HORZ", "VERT", "HORZ_4", "VERT_4"}
  BY <1>11, <1>14, <1>15, <1>17
<1>18. CASE p \in {"HORZ_A", "HORZ_B"}
  BY <1>13, <1>16, <1>18
<1>19. CASE p \in {"VERT_A", "VERT_B"}
  BY <1>12, <1>16, <1>19
<1> QED BY <1>17, <1>18, <1>19 DEF PartitionTypes

(* A stamp that writes nothing leaves the contexts as they were.           *)
LEMMA NoStamps ==
  /\ \A x \in DOMAIN above : StampedAbove(<<>>)[x] = above[x]
  /\ \A y \in DOMAIN left : StampedLeft(<<>>)[y] = left[y]
<1>1. PICK s : s = <<>>
  OBVIOUS
<1>2. DOMAIN s = {}
  BY <1>1
<1>3. /\ \A x : {i \in DOMAIN s : x \in s[i].col .. s[i].col + s[i].over.w - 1} = {}
      /\ \A y : {i \in DOMAIN s : y - LeftSlot(s[i].row) \in 0 .. s[i].over.h - 1} = {}
  BY <1>2
<1>4. StampedAbove(s) = [x \in DOMAIN above |-> above[x]]
  BY <1>3 DEF StampedAbove
<1>5. StampedLeft(s) = [y \in DOMAIN left |-> left[y]]
  BY <1>3 DEF StampedLeft
<1> QED BY <1>1, <1>4, <1>5

LEMMA StampedDomains ==
  ASSUME NEW s
  PROVE  DOMAIN StampedAbove(s) = DOMAIN above /\ DOMAIN StampedLeft(s) = DOMAIN left
BY DEF StampedAbove, StampedLeft

(* Where the call at hand is, unless it is a stamp.                        *)
LEMMA CallPlace ==
  ASSUME WalkInv, OrderInv, pc = "walk", todo # <<>>, Call.do # "stamp"
  PROVE  \E top, start, h, w, mib \in Nat :
           /\ top = Call.row /\ start = Call.col /\ h = High(Call) /\ w = Wide(Call)
           /\ mib = frame.mib /\ h \in Squares /\ w \in Squares /\ h > 0 /\ w > 0
           /\ sbRow \in Nat /\ sbCol \in Nat
           /\ sbRow <= top /\ top + h <= sbRow + mib /\ sbCol <= start /\ start + w <= sbCol + mib
           /\ Call \in AnyCall /\ Call = Head(todo) /\ tile \in DOMAIN frame.tiles
<1>1. Call \in AnyCall /\ Call = Head(todo) /\ Call.row \in Nat /\ Call.col \in Nat
  BY CallTypes DEF Call
<1>2. PICK mib \in Nat : mib = frame.mib
  BY FrameTypes
<1>3. OnGrid(Call) /\ Keeps(Call, sbRow, sbCol, mib) /\ tile \in DOMAIN frame.tiles
  BY <1>2, CallKept, Zenon
<1>4. PICK h \in Squares, w \in Squares : h = High(Call) /\ w = Wide(Call)
  BY <1>3 DEF OnGrid, Aligned
<1>5. h \in Nat /\ w \in Nat /\ h > 0 /\ w > 0
  BY DEF Squares
<1>6. PICK top \in Nat, start \in Nat : top = Call.row /\ start = Call.col
  BY <1>1
<1>7. sbRow <= top /\ top + h <= sbRow + mib /\ sbCol <= start /\ start + w <= sbCol + mib
  BY <1>3, <1>4, <1>6 DEF Keeps
<1>8. sbRow \in Nat /\ sbCol \in Nat
  BY DEF WalkInv
<1> QED BY <1>1, <1>2, <1>3, <1>4, <1>5, <1>6, <1>7, <1>8

(* A call later in the order is over no cell above or to the left of the   *)
(* last row and column of an earlier one.                                  *)
LEMMA NoneOverBefore ==
  ASSUME NEW call \in AnyCall, call.do # "stamp", NEW other \in AnyCall, InOrder(call, other),
         NEW h \in Nat, NEW w \in Nat, h = High(call), w = Wide(call),
         NEW row \in Int, NEW col \in Int, row < call.row + h, col < call.col + w
  PROVE  ~Over(other, row, col)
<1>1. CASE other.do = "stamp"
  BY <1>1 DEF Over
<1>2. CASE other.do # "stamp"
  <2>1. /\ call.row \in Nat /\ call.col \in Nat /\ other.row \in Nat /\ other.col \in Nat
    BY <1>2 DEF BlockCalls, AnyCall, NodeCalls, StampCalls
  <2>2. Over(other, row, col) => other.row <= row /\ other.col <= col
    <3>1. \/ other.do = "node" /\ other.size \in Nat
          \/ other.do = "block" /\ other.h \in Nat /\ other.w \in Nat
      BY <1>2 DEF BlockCalls, AnyCall, NodeCalls, StampCalls, Squares
    <3> QED BY <2>1, <3>1 DEF Over, Covers
  <2>3. CASE Behind(other, call.row, call.col, High(call), Wide(call))
    BY <2>1, <2>2, <2>3 DEF Behind
  <2>4. CASE OutOfSquare(call, other)
    <3>1. PICK top \in Nat, start \in Nat, size \in Squares :
            Keeps(call, top, start, size) /\ Behind(other, top, start, size, size)
      BY <2>4 DEF OutOfSquare
    <3>2. size \in Nat
      BY DEF Squares
    <3> QED BY <2>1, <2>2, <3>1, <3>2 DEF Keeps, Behind
  <2>5. CASE RightHalf(call, other)
    <3>1. w = call.w
      BY <2>5 DEF RightHalf, Wide
    <3> QED BY <2>1, <2>2, <2>5, <3>1 DEF RightHalf
  <2> QED BY <1>2, <2>3, <2>4, <2>5 DEF InOrder
<1> QED BY <1>1, <1>2

(* What is above or to the left of the call at hand has been decoded.      *)
LEMMA BlockedBefore ==
  ASSUME WalkInv, CellsInv, OrderInv, BlocksLie, pc = "walk", todo # <<>>, Call.do # "stamp",
         ~corrupt, ~cancelled,
         NEW row \in 0 .. frame.rows - 1, NEW col \in 0 .. frame.cols - 1, Inside(row, col),
         NEW h \in Nat, NEW w \in Nat, h = High(Call), w = Wide(Call),
         row < Call.row + h, col < Call.col + w, ~Over(Call, row, col)
  PROVE  Blocked(row, col)
<1>0. PICK top, start, high, wide, mib \in Nat :
        /\ top = Call.row /\ start = Call.col /\ high = High(Call) /\ wide = Wide(Call)
        /\ mib = frame.mib /\ high \in Squares /\ wide \in Squares /\ high > 0 /\ wide > 0
        /\ sbRow \in Nat /\ sbCol \in Nat
        /\ sbRow <= top /\ top + high <= sbRow + mib /\ sbCol <= start /\ start + wide <= sbCol + mib
        /\ Call \in AnyCall /\ Call = Head(todo) /\ tile \in DOMAIN frame.tiles
  BY CallPlace
<1>1. /\ top = Call.row /\ start = Call.col /\ mib = frame.mib
      /\ sbRow \in Nat /\ sbCol \in Nat
      /\ top + h <= sbRow + mib /\ start + w <= sbCol + mib
      /\ Call \in AnyCall /\ Call = Head(todo) /\ row < top + h /\ col < start + w
  BY <1>0, Zenon
<1>2. row \in Int /\ col \in Int
  BY FrameTypes
<1>5. /\ sbRow \in Nat /\ sbCol \in Nat /\ top + h <= sbRow + mib /\ start + w <= sbCol + mib
      /\ row < top + h /\ col < start + w
  BY <1>1
<1>6. \A x \in Int, t, n, s, m \in Nat : x < t + n /\ t + n <= s + m => ~ (x >= s + m)
  OBVIOUS
<1>3. ~Called(Tail(todo), row, col)
  <2>1. todo \in Seq(Kept(sbRow, sbCol, frame.mib)) /\ Ordered(todo)
    BY DEF OrderInv, PartsFit
  <2>2. \A l \in DOMAIN Tail(todo) : InOrder(Call, Tail(todo)[l])
    BY <1>1, <2>1, TailOrdered
  <2>3. Tail(todo) \in Seq(AnyCall)
    BY CallTypes
  <2>4. \A l \in DOMAIN Tail(todo) : Tail(todo)[l] \in AnyCall
    BY <2>3
  <2>5. \A l \in DOMAIN Tail(todo) : ~Over(Tail(todo)[l], row, col)
    BY <1>1, <1>2, <2>2, <2>4, NoneOverBefore
  <2> QED BY <2>5 DEF Called
<1>4. ~Waits(row, col)
  <2>2. Waits(row, col) => row >= sbRow + mib \/ (row >= sbRow /\ col >= sbCol + mib)
    BY <1>1, Zenon DEF Waits
  <2>3. ~ (row >= sbRow + mib) /\ ~ (col >= sbCol + mib)
    BY <1>2, <1>5, <1>6, Zenon
  <2> QED BY <2>2, <2>3
<1> QED BY <1>3, <1>4, DecodedThere DEF Blocked

(* What the call at hand is over is still to be decoded.                   *)
LEMMA CallUnblocked ==
  ASSUME WalkInv, CellsInv, pc = "walk", todo # <<>>, ~corrupt, ~cancelled,
         NEW row \in 0 .. frame.rows - 1, NEW col \in 0 .. frame.cols - 1, Over(Call, row, col)
  PROVE  ~Blocked(row, col) /\ ~Called(Tail(todo), row, col)
<1>1. Owned(row, col)
  BY DEF CellsInv
<1>2. todo \in Seq(AnyCall) /\ Call = Head(todo)
  BY DEF WalkInv, Call
<1>3. Called(todo, row, col) /\ ~Called(Tail(todo), row, col)
  BY <1>1, <1>2, FirstCall DEF Owned
<1> QED BY <1>1, <1>3 DEF Owned

(* What waits in the tile is still to be decoded.                          *)
LEMMA WaitsUnblocked ==
  ASSUME CellsInv, ~corrupt, ~cancelled, tile \in DOMAIN frame.tiles,
         NEW row \in 0 .. frame.rows - 1, NEW col \in 0 .. frame.cols - 1,
         Inside(row, col), Waits(row, col)
  PROVE  ~Blocked(row, col)
<1>1. Owned(row, col)
  BY DEF CellsInv
<1>2. Ahead(row, col)
  BY DEF Ahead, InHand, Inside
<1> QED BY <1>1, <1>2 DEF Owned

(* The calls after the first.                                              *)
LEMMA TailShifts ==
  ASSUME NEW S, NEW s \in Seq(S), s # <<>>
  PROVE  /\ \A k \in DOMAIN Tail(s) :
              k \in Nat \ {0} /\ k + 1 \in DOMAIN s /\ Tail(s)[k] = s[k + 1]
         /\ \A k \in DOMAIN s : k \in Nat \ {0}
         /\ \A k \in DOMAIN s : k # 1 => k - 1 \in DOMAIN Tail(s) /\ Tail(s)[k - 1] = s[k]
         /\ 1 \in DOMAIN s /\ Head(s) = s[1]
<1>1. PICK n \in Nat : n = Len(s) /\ DOMAIN s = 1 .. n
  BY LenProperties
<1>2. n # 0
  BY <1>1
<1>3. Len(Tail(s)) = n - 1 /\ Tail(s) \in Seq(S)
  BY <1>1, <1>2
<1>4. DOMAIN Tail(s) = 1 .. n - 1
  BY <1>3, LenProperties
<1>5. \A k \in 1 .. n - 1 : Tail(s)[k] = s[k + 1]
  BY <1>1, <1>2
<1> QED BY <1>1, <1>2, <1>4, <1>5

(* The calls that a stamp waits for: they end in blocks of the lengths it  *)
(* leaves.                                                                 *)
AnyEnd ==
  [do : {"block"}, row : Nat, col : Nat, w : Nat, h : Nat, part : PartitionTypes]
    \union [do : {"node"}, row : Nat, col : Nat, size : Nat]
DueParts(stamp) ==
  {e \in AnyEnd : Ending(e) /\ Due(e.row, e.col, High(e), Wide(e), stamp)}

LEMMA BlockDue ==
  ASSUME NEW a \in Nat, NEW b \in Nat, NEW sub, NEW h \in Nat, NEW w \in Nat,
         sub = [w |-> w, h |-> h], NEW p \in PartitionTypes, NEW stamp, Due(a, b, h, w, stamp)
  PROVE  BlockCall(a, b, sub, p) \in DueParts(stamp)
<1>1. PICK e : e = BlockCall(a, b, sub, p)
  OBVIOUS
<1>2. /\ e.do = "block" /\ e.row = a /\ e.col = b /\ e.w = w /\ e.h = h
      /\ e \in [do : {"block"}, row : Nat, col : Nat, w : Nat, h : Nat, part : PartitionTypes]
  BY <1>1 DEF BlockCall
<1>3. High(e) = h /\ Wide(e) = w
  BY <1>2 DEF High, Wide
<1>4. e \in AnyEnd /\ Ending(e) /\ Due(e.row, e.col, High(e), Wide(e), stamp)
  BY <1>2, <1>3 DEF AnyEnd, Ending
<1> QED BY <1>1, <1>4 DEF DueParts

LEMMA PartsDue ==
  ASSUME NEW size \in Squares, size # 1, NEW row \in Nat, NEW col \in Nat,
         NEW p \in PartitionTypes, p = "SPLIT" => size = 2,
         NEW stamp, stamp.row = row, stamp.col = col, stamp.size = size, stamp.part = p
  PROVE  Calls(row, col, size, p) \in Seq(DueParts(stamp))
<1>1. PICK hbs \in Nat, quarter \in Nat :
        hbs = size \div 2 /\ quarter = size \div 4 /\ size = 2 * hbs /\ hbs > 0 /\ size \in Nat
  BY DEF Squares
<1>2. PICK dw, dh : dw = DueWidth(stamp) /\ dh = DueHeight(stamp)
  OBVIOUS
<1>3. /\ p \in {"NONE", "HORZ", "HORZ_A", "HORZ_4"} => dw = size
      /\ p \in {"SPLIT", "VERT", "HORZ_B", "VERT_A", "VERT_B"} => dw = hbs
      /\ p = "VERT_4" => dw = quarter
      /\ p \in {"NONE", "VERT", "VERT_A", "VERT_4"} => dh = size
      /\ p \in {"SPLIT", "HORZ", "HORZ_A", "HORZ_B", "VERT_B"} => dh = hbs
      /\ p = "HORZ_4" => dh = quarter
  BY <1>1, <1>2, DueLengths
<1>4. \A a, b, h, w \in Nat :
        Due(a, b, h, w, stamp) <=> /\ a + h >= row + size => w = dw
                                   /\ b + w >= col + size => h = dh
  BY <1>2 DEF Due
<1>5. PICK sub, half : sub = Subsize(size, p) /\ half = Subsize(size, "SPLIT")
  OBVIOUS
<1>6. half = [w |-> hbs, h |-> hbs]
  BY <1>1, <1>5, SubsizeValues
<1>7. PICK w \in Nat, h \in Nat :
        /\ sub = [w |-> w, h |-> h]
        /\ p \in {"NONE", "HORZ", "HORZ_A", "HORZ_B", "HORZ_4"} => w = size
        /\ p \in {"SPLIT", "VERT", "VERT_A", "VERT_B"} => w = hbs
        /\ p = "VERT_4" => w = quarter
        /\ p \in {"NONE", "VERT", "VERT_A", "VERT_B", "VERT_4"} => h = size
        /\ p \in {"SPLIT", "HORZ", "HORZ_A", "HORZ_B"} => h = hbs
        /\ p = "HORZ_4" => h = quarter
  <2>1. CASE p \in {"NONE", "SPLIT"}
    BY <1>1, <1>5, <2>1, SubsizeValues
  <2>2. CASE p \in Halved
    BY <1>1, <1>5, <2>2, SubsizeValues DEF Halved
  <2>3. CASE p \in Sided
    BY <1>1, <1>5, <2>3, SubsizeValues DEF Sided
  <2>4. CASE p \in {"HORZ_4", "VERT_4"}
    BY <1>1, <1>5, <2>4, SubsizeValues
  <2> QED BY <2>1, <2>2, <2>3, <2>4 DEF PartitionTypes, Halved, Sided
<1>8. ASSUME p \notin {"SPLIT", "HORZ_B", "VERT_B"}, NEW a \in Nat, NEW b \in Nat
      PROVE  BlockCall(a, b, sub, p) \in DueParts(stamp)
  <2>1. w = dw /\ h = dh
    BY <1>3, <1>7, <1>8 DEF PartitionTypes
  <2>2. Due(a, b, h, w, stamp)
    BY <1>4, <2>1
  <2> QED BY <1>7, <2>2, BlockDue
<1>9. p \in {"HORZ_B", "VERT_B"} => BlockCall(row, col, sub, p) \in DueParts(stamp)
  <2> SUFFICES ASSUME p \in {"HORZ_B", "VERT_B"} PROVE BlockCall(row, col, sub, p) \in DueParts(stamp)
    OBVIOUS
  <2>1. CASE p = "HORZ_B"
    <3>1. w = size /\ h = hbs /\ dw = hbs /\ dh = hbs
      BY <1>3, <1>7, <2>1
    <3>2. ~ (row + h >= row + size)
      BY <1>1, <3>1
    <3>3. Due(row, col, h, w, stamp)
      BY <1>4, <3>1, <3>2
    <3> QED BY <1>7, <3>3, BlockDue
  <2>2. CASE p = "VERT_B"
    <3>1. w = hbs /\ h = size /\ dw = hbs /\ dh = hbs
      BY <1>3, <1>7, <2>2
    <3>2. ~ (col + w >= col + size)
      BY <1>1, <3>1
    <3>3. Due(row, col, h, w, stamp)
      BY <1>4, <3>1, <3>2
    <3> QED BY <1>7, <3>3, BlockDue
  <2> QED BY <2>1, <2>2
<1>10. ASSUME NEW a \in Nat, NEW b \in Nat,
              a + hbs >= row + size => dw = hbs, b + hbs >= col + size => dh = hbs
       PROVE  BlockCall(a, b, half, p) \in DueParts(stamp)
  <2>1. Due(a, b, hbs, hbs, stamp)
    BY <1>4, <1>10
  <2> QED BY <1>6, <2>1, BlockDue
<1>11. p = "HORZ_A" => \A b \in Nat : BlockCall(row, b, half, p) \in DueParts(stamp)
  <2> SUFFICES ASSUME p = "HORZ_A", NEW b \in Nat
               PROVE  BlockCall(row, b, half, p) \in DueParts(stamp)
    OBVIOUS
  <2>1. ~ (row + hbs >= row + size) /\ dh = hbs
    BY <1>1, <1>3
  <2> QED BY <1>10, <2>1
<1>12. p = "HORZ_B" => \A b \in Nat : BlockCall(row + hbs, b, half, p) \in DueParts(stamp)
  <2> SUFFICES ASSUME p = "HORZ_B", NEW b \in Nat
               PROVE  BlockCall(row + hbs, b, half, p) \in DueParts(stamp)
    OBVIOUS
  <2>1. dw = hbs /\ dh = hbs /\ row + hbs \in Nat
    BY <1>1, <1>3
  <2> QED BY <1>10, <2>1
<1>13. p = "VERT_A" => \A a \in Nat : BlockCall(a, col, half, p) \in DueParts(stamp)
  <2> SUFFICES ASSUME p = "VERT_A", NEW a \in Nat
               PROVE  BlockCall(a, col, half, p) \in DueParts(stamp)
    OBVIOUS
  <2>1. ~ (col + hbs >= col + size) /\ dw = hbs
    BY <1>1, <1>3
  <2> QED BY <1>10, <2>1
<1>14. p = "VERT_B" => \A a \in Nat : BlockCall(a, col + hbs, half, p) \in DueParts(stamp)
  <2> SUFFICES ASSUME p = "VERT_B", NEW a \in Nat
               PROVE  BlockCall(a, col + hbs, half, p) \in DueParts(stamp)
    OBVIOUS
  <2>1. dw = hbs /\ dh = hbs /\ col + hbs \in Nat
    BY <1>1, <1>3
  <2> QED BY <1>10, <2>1
<1>15. p = "SPLIT" => \A a, b \in Nat : NodeCall(a, b, hbs) \in DueParts(stamp)
  <2> SUFFICES ASSUME p = "SPLIT", NEW a \in Nat, NEW b \in Nat
               PROVE  NodeCall(a, b, hbs) \in DueParts(stamp)
    OBVIOUS
  <2>1. hbs = 1 /\ dw = 1 /\ dh = 1
    BY <1>1, <1>3
  <2>2. PICK e : e = NodeCall(a, b, hbs)
    OBVIOUS
  <2>3. /\ e.do = "node" /\ e.row = a /\ e.col = b /\ e.size = 1
        /\ e \in [do : {"node"}, row : Nat, col : Nat, size : Nat]
    BY <2>1, <2>2 DEF NodeCall
  <2>4. High(e) = 1 /\ Wide(e) = 1
    BY <2>3 DEF High, Wide
  <2>5. Due(a, b, 1, 1, stamp)
    BY <1>4, <2>1
  <2>6. e \in AnyEnd /\ Ending(e) /\ Due(e.row, e.col, High(e), Wide(e), stamp)
    BY <2>3, <2>4, <2>5 DEF AnyEnd, Ending
  <2> QED BY <2>2, <2>6 DEF DueParts
<1> QED BY <1>1, <1>5, <1>8, <1>9, <1>11, <1>12, <1>13, <1>14, <1>15, PartsFrom

LEMMA DuesOfTail ==
  ASSUME NEW S, NEW calls \in Seq(S), calls # <<>>, NEW done, DuesMet(calls, done)
  PROVE  DuesMet(Tail(calls), done)
<1>1. PICK t : t = Tail(calls)
  OBVIOUS
<1>2. /\ \A k \in DOMAIN t : k \in Nat \ {0} /\ k + 1 \in DOMAIN calls /\ t[k] = calls[k + 1]
      /\ \A k \in DOMAIN calls : k \in Nat \ {0}
      /\ \A k \in DOMAIN calls : k # 1 => k - 1 \in DOMAIN t /\ t[k - 1] = calls[k]
  BY <1>1, TailShifts
<1>3. ASSUME NEW k \in DOMAIN t, Writes(t[k])
      PROVE  StampDue(t, done, k)
  <2>1. StampDue(calls, done, k + 1)
    BY <1>2, <1>3 DEF DuesMet
  <2>2. \A j \in DOMAIN t : (j < k => j + 1 < k + 1) /\ (j > k => j + 1 > k + 1)
    BY <1>2
  <2>3. \A j \in DOMAIN t :
          j < k => /\ ~Writes(t[j])
                   /\ t[j].do # "stamp" => Ending(t[j]) /\ PartOfStamp(t[j], t[k])
    BY <1>2, <2>1, <2>2 DEF StampDue
  <2>4. \A row \in 0 .. frame.rows - 1, col \in 0 .. frame.cols - 1 :
          InSquare(t[k], row, col) => \A j \in DOMAIN t : j > k => ~Over(t[j], row, col)
    BY <1>2, <2>1, <2>2 DEF StampDue
  <2> QED BY <1>2, <2>1, <2>3, <2>4 DEF StampDue
<1>4. ASSUME NEW j \in DOMAIN t, Ending(t[j])
      PROVE  \E k \in DOMAIN t : k > j /\ Writes(t[k])
  <2>1. PICK k \in DOMAIN calls : k > j + 1 /\ Writes(calls[k])
    BY <1>2, <1>4 DEF DuesMet
  <2>2. k - 1 \in DOMAIN t /\ t[k - 1] = calls[k] /\ k - 1 > j
    BY <1>2, <2>1
  <2> QED BY <2>1, <2>2
<1> QED BY <1>1, <1>3, <1>4 DEF DuesMet

LEMMA CoversCell ==
  ASSUME NEW b, NEW row \in Int, NEW col \in Int,
         NEW top \in Nat, NEW start \in Nat, NEW h \in Nat, NEW w \in Nat,
         b.row = top, b.col = start, b.h = h, b.w = w
  PROVE  Covers(b, row, col) <=>
           top <= row /\ row < top + h /\ start <= col /\ col < start + w
BY DEF Covers

(* The block at hand is decoded: it has the lengths of the stamp to come.  *)
LEMMA DuesOfBlock ==
  ASSUME WalkInv, todo # <<>>, Call \in BlockCalls, DuesMet(todo, blocks),
         NEW n \in Nat, DOMAIN blocks = 1 .. n, NEW done, DOMAIN done = 1 .. n + 1,
         \A k \in 1 .. n : done[k] = blocks[k], NEW b, done[n + 1] = b,
         b.row = Call.row, b.col = Call.col, b.w = Call.w, b.h = Call.h
  PROVE  DuesMet(Tail(todo), done)
<1>1. PICK t, call : t = Tail(todo) /\ call = Call
  OBVIOUS
<1>2. /\ \A k \in DOMAIN t : k \in Nat \ {0} /\ k + 1 \in DOMAIN todo /\ t[k] = todo[k + 1]
      /\ 1 \in DOMAIN todo /\ todo[1] = call
  BY <1>1, TailShifts DEF WalkInv, Call
<1>3. DuesMet(t, blocks)
  BY <1>1, DuesOfTail DEF WalkInv
<1>4. /\ call.do = "block" /\ High(call) = b.h /\ Wide(call) = b.w
      /\ b.row \in Nat /\ b.col \in Nat /\ b.h \in Nat /\ b.w \in Nat
      /\ call.row = b.row /\ call.col = b.col
  BY <1>1 DEF BlockCalls, High, Wide
<1>5. ASSUME NEW k \in DOMAIN t, Writes(t[k])
      PROVE  StampDue(t, done, k)
  <2>1. PICK stamp : stamp = t[k]
    OBVIOUS
  <2>2. StampDue(t, blocks, k)
    BY <1>3, <1>5 DEF DuesMet
  <2>3. StampDue(todo, blocks, k + 1) /\ todo[k + 1] = stamp /\ 1 < k + 1
    BY <1>2, <1>5, <2>1 DEF DuesMet
  <2>4. PartOfStamp(call, stamp)
    BY <1>2, <1>4, <2>3 DEF StampDue
  <2>5. /\ Due(b.row, b.col, b.h, b.w, stamp)
        /\ stamp.row <= b.row /\ b.row + b.h <= stamp.row + stamp.size
        /\ stamp.col <= b.col /\ b.col + b.w <= stamp.col + stamp.size
    BY <1>4, <2>4 DEF PartOfStamp, Keeps
  <2>6. stamp.row \in Nat /\ stamp.col \in Nat /\ stamp.size \in Nat
    BY <2>1, <2>2 DEF StampDue, StampPlaced, Squares
  <2>7. ASSUME NEW row \in Int, NEW col \in Int, Covers(b, row, col)
        PROVE  ~Below(stamp, row, col) /\ ~Beside(stamp, row, col)
    <3>1. PICK top \in Nat, start \in Nat, h \in Nat, w \in Nat :
            b.row = top /\ b.col = start /\ b.h = h /\ b.w = w
      BY <1>4
    <3>2. PICK y \in Nat, x \in Nat, size \in Nat :
            y = stamp.row /\ x = stamp.col /\ size = stamp.size
      BY <2>6
    <3>3. row < top + h /\ col < start + w
      BY <2>7, <3>1, CoversCell
    <3>4. top + h <= y + size /\ start + w <= x + size
      BY <2>5, <3>1, <3>2, Zenon
    <3>5. \A r, s, l, q, e \in Int : r < s + l /\ s + l <= q + e => ~ (r >= q + e)
      OBVIOUS
    <3>6. /\ row \in Int /\ col \in Int /\ top \in Int /\ start \in Int /\ h \in Int
          /\ w \in Int /\ y \in Int /\ x \in Int /\ size \in Int
      BY <3>1, <3>2
    <3>7. ~ (row >= y + size) /\ ~ (col >= x + size)
      BY <3>3, <3>4, <3>5, <3>6, Zenon
    <3> QED BY <3>2, <3>7, Zenon DEF Below, Beside
  <2>8. \A row \in 0 .. frame.rows - 1, col \in 0 .. frame.cols - 1 : row \in Int /\ col \in Int
    OBVIOUS
  <2>9. \A i \in DOMAIN done : (i \in DOMAIN blocks /\ done[i] = blocks[i]) \/ done[i] = b
    OBVIOUS
  <2>10. \A row \in 0 .. frame.rows - 1, col \in 0 .. frame.cols - 1 :
           /\ InSquare(t[k], row, col) =>
                \A i \in DOMAIN done :
                  Covers(done[i], row, col) =>
                    Due(done[i].row, done[i].col, done[i].h, done[i].w, t[k])
           /\ Inside(row, col) /\ (Below(t[k], row, col) \/ Beside(t[k], row, col)) =>
                \A i \in DOMAIN done : ~Covers(done[i], row, col)
    BY <2>1, <2>2, <2>5, <2>7, <2>8, <2>9 DEF StampDue
  <2> QED BY <2>2, <2>10 DEF StampDue
<1> QED BY <1>1, <1>3, <1>5 DEF DuesMet

(* The calls of two lists put one after the other.                         *)
Joined(s, t, n, m, f) ==
  /\ Len(f) = n + m /\ DOMAIN f = 1 .. n + m
  /\ DOMAIN s = 1 .. n /\ DOMAIN t = 1 .. m
  /\ \A k \in 1 .. n : f[k] = s[k]
  /\ \A k \in 1 .. m : f[n + k] = t[k]

LEMMA JoinedAt ==
  ASSUME NEW S, NEW s \in Seq(S), NEW t \in Seq(S),
         NEW n \in Nat, n = Len(s), NEW m \in Nat, m = Len(t), NEW f, f = s \o t
  PROVE  f \in Seq(S) /\ Joined(s, t, n, m, f)
<1>1. DOMAIN s = 1 .. n /\ DOMAIN t = 1 .. m /\ DOMAIN (s \o t) = 1 .. n + m
  BY ConcatProperties, LenProperties
<1>2. /\ \A k \in 1 .. n : (s \o t)[k] = s[k]
      /\ \A k \in n + 1 .. n + m : (s \o t)[k] = t[k - n]
  BY <1>1
<1>3. ASSUME NEW k \in 1 .. m PROVE n + k \in n + 1 .. n + m /\ (n + k) - n = k
  OBVIOUS
<1>4. \A k \in 1 .. m : (s \o t)[n + k] = t[k]
  <2> SUFFICES ASSUME NEW k \in 1 .. m PROVE (s \o t)[n + k] = t[k]
    OBVIOUS
  <2>1. (s \o t)[n + k] = t[(n + k) - n]
    BY <1>2, <1>3, Zenon
  <2> QED BY <1>3, <2>1, Zenon
<1>5. s \o t \in Seq(S) /\ Len(s \o t) = n + m
  BY ConcatProperties
<1> QED BY <1>1, <1>2, <1>4, <1>5, Zenon DEF Joined

(* The calls that a partition puts before the others.                      *)
LEMMA InsertedCalls ==
  ASSUME NEW S, NEW a \in Seq(S), NEW e \in S, NEW t \in Seq(S), NEW s, s = a \o <<e>> \o t,
         NEW m \in Nat, m = Len(a), NEW n \in Nat, n = Len(t)
  PROVE  /\ DOMAIN a = 1 .. m /\ DOMAIN t = 1 .. n /\ DOMAIN s = 1 .. m + 1 + n
         /\ \A k \in 1 .. m : s[k] = a[k]
         /\ s[m + 1] = e
         /\ \A k \in 1 .. n : s[m + 1 + k] = t[k]
<1>1. PICK one : one = <<e>>
  OBVIOUS
<1>2. one \in Seq(S) /\ Len(one) = 1 /\ one[1] = e
  BY <1>1
<1>3. PICK f : f = a \o one
  OBVIOUS
<1>4. /\ f \in Seq(S) /\ Len(f) = m + 1 /\ DOMAIN a = 1 .. m
      /\ \A k \in 1 .. m : f[k] = a[k]
      /\ \A k \in 1 .. 1 : f[m + k] = one[k]
  <2>1. 1 \in Nat /\ 1 = Len(one)
    BY <1>2
  <2>2. f \in Seq(S) /\ Joined(a, one, m, 1, f)
    BY <1>2, <1>3, <2>1, JoinedAt, Zenon
  <2> QED BY <2>2, Zenon DEF Joined
<1>5. s = f \o t
  BY <1>1, <1>3
<1>6. PICK l \in Nat : l = m + 1
  OBVIOUS
<1>7. /\ DOMAIN t = 1 .. n /\ DOMAIN s = 1 .. l + n
      /\ \A k \in 1 .. l : s[k] = f[k]
      /\ \A k \in 1 .. n : s[l + k] = t[k]
  <2>1. l = Len(f)
    BY <1>4, <1>6
  <2>2. Joined(f, t, l, n, s)
    BY <1>4, <1>5, <2>1, JoinedAt, Zenon
  <2> QED BY <2>2, Zenon DEF Joined
<1>8. \A k \in 1 .. m : k \in 1 .. l
  BY <1>6
<1>9. \A k \in 1 .. m : s[k] = a[k]
  BY <1>4, <1>7, <1>8
<1>10. s[m + 1] = e
  <2>1. 1 \in 1 .. 1 /\ m + 1 \in 1 .. l
    BY <1>6
  <2>2. f[m + 1] = one[1] /\ s[m + 1] = f[m + 1]
    BY <1>4, <1>7, <2>1, Zenon
  <2> QED BY <1>2, <2>2
<1> QED BY <1>4, <1>6, <1>7, <1>9, <1>10, Zenon

(* What decode_partition leaves to call, when the node at hand is read as  *)
(* a partition `p`: its parts, its stamp and the rest.                     *)
Replaced(next, calls, stamp, m, n) ==
  /\ DOMAIN calls = 1 .. m /\ DOMAIN Tail(todo) = 1 .. n /\ DOMAIN next = 1 .. m + 1 + n
  /\ \A k \in 1 .. m : next[k] = calls[k]
  /\ next[m + 1] = stamp
  /\ \A k \in 1 .. n : next[m + 1 + k] = Tail(todo)[k]

LEMMA ReplacedIndex ==
  ASSUME NEW m \in Nat, NEW n \in Nat, NEW k \in 1 .. m + 1 + n
  PROVE  \/ k \in 1 .. m /\ k < m + 1
         \/ k = m + 1
         \/ k - (m + 1) \in 1 .. n /\ k > m + 1 /\ m + 1 + (k - (m + 1)) = k
OBVIOUS

(* An 8x8's quarter: the block takes the node's place.                     *)
LEMMA DuesOfSmall ==
  ASSUME WalkInv, pc = "walk", todo # <<>>, DuesMet(todo, blocks),
         NEW top \in Nat, NEW start \in Nat, Call = NodeCall(top, start, 1),
         NEW calls, calls = Calls(top, start, 1, "NONE"),
         NEW stamp, stamp = StampCall(top, start, 1, "NONE"),
         NEW next, NEW m \in Nat, NEW n \in Nat, Replaced(next, calls, stamp, m, n)
  PROVE  DuesMet(next, blocks)
<1>1. /\ \A k \in DOMAIN Tail(todo) :
            k \in Nat \ {0} /\ k + 1 \in DOMAIN todo /\ Tail(todo)[k] = todo[k + 1]
      /\ \A k \in DOMAIN todo : k \in Nat \ {0}
      /\ \A k \in DOMAIN todo : k # 1 => k - 1 \in DOMAIN Tail(todo) /\ Tail(todo)[k - 1] = todo[k]
      /\ 1 \in DOMAIN todo /\ Head(todo) = todo[1]
  BY TailShifts DEF WalkInv
<1>2. PICK b : b = BlockCall(top, start, [w |-> 1, h |-> 1], "NONE")
  OBVIOUS
<1>3. calls = <<b>> /\ m = 1
  <2>1. calls = <<b>>
    BY <1>2, SubsizeValues DEF Calls
  <2>2. DOMAIN <<b>> = {1}
    OBVIOUS
  <2>3. 1 .. m = {1}
    <3>1. DOMAIN calls = 1 .. m
      BY Zenon DEF Replaced
    <3> QED BY <2>1, <2>2, <3>1, Zenon
  <2> QED BY <2>1, <2>3
<1>4. /\ ~Writes(b) /\ Ending(b) /\ b.row = top /\ b.col = start /\ High(b) = 1 /\ Wide(b) = 1
      /\ b.do # "stamp" /\ stamp.do = "stamp" /\ ~Writes(stamp) /\ ~Ending(stamp)
  BY <1>2 DEF BlockCall, StampCall, Writes, Ending, High, Wide
<1>5. PICK call : call = Call
  OBVIOUS
<1>6. /\ call = todo[1] /\ call.do = "node" /\ call.row = top /\ call.col = start
      /\ High(call) = 1 /\ Wide(call) = 1 /\ Ending(call)
  BY <1>1, <1>5 DEF Call, NodeCall, High, Wide, Ending
<1>7. DOMAIN next = 1 .. 2 + n /\ next[1] = b /\ next[2] = stamp
  BY <1>3 DEF Replaced
<1>8. \A k \in DOMAIN next :
        \/ k = 1 \/ k = 2
        \/ k > 2 /\ k - 1 \in DOMAIN todo /\ k - 1 > 1 /\ next[k] = todo[k - 1]
  <2> SUFFICES ASSUME NEW k \in 1 .. 2 + n, k # 1, k # 2
               PROVE  k > 2 /\ k - 1 \in DOMAIN todo /\ k - 1 > 1 /\ next[k] = todo[k - 1]
    BY <1>7
  <2>1. k > 2 /\ k - 2 \in 1 .. n /\ (k - 2) + 1 = k - 1 /\ 1 + 1 + (k - 2) = k /\ k - 1 > 1
    OBVIOUS
  <2>2. DOMAIN Tail(todo) = 1 .. n /\ next[1 + 1 + (k - 2)] = Tail(todo)[k - 2]
    BY <1>3, <2>1 DEF Replaced
  <2>3. k - 1 \in DOMAIN todo /\ Tail(todo)[k - 2] = todo[k - 1]
    BY <1>1, <2>1, <2>2
  <2> QED BY <2>1, <2>2, <2>3
<1>9. \A k \in DOMAIN todo : k > 1 => k + 1 \in DOMAIN next /\ next[k + 1] = todo[k] /\ k \in Nat
  <2> SUFFICES ASSUME NEW k \in DOMAIN todo, k > 1
               PROVE  k + 1 \in DOMAIN next /\ next[k + 1] = todo[k] /\ k \in Nat
    OBVIOUS
  <2>1. k \in Nat /\ k - 1 \in 1 .. n /\ Tail(todo)[k - 1] = todo[k]
    BY <1>1 DEF Replaced
  <2>2. 1 + 1 + (k - 1) = k + 1 /\ k + 1 \in 1 .. 2 + n
    <3>1. \A l, i \in Int : l - 1 \in 1 .. i => 1 + 1 + (l - 1) = l + 1 /\ l + 1 \in 1 .. 2 + i
      OBVIOUS
    <3>2. k \in Int /\ n \in Int
      BY <2>1
    <3> QED BY <2>1, <3>1, <3>2, Zenon
  <2>3. next[1 + 1 + (k - 1)] = Tail(todo)[k - 1]
    BY <1>3, <2>1 DEF Replaced
  <2> QED BY <1>7, <2>1, <2>2, <2>3
<1>10. ASSUME NEW k \in DOMAIN next, Writes(next[k])
       PROVE  StampDue(next, blocks, k)
  <2>1. k > 2 /\ k - 1 \in DOMAIN todo /\ k - 1 > 1 /\ next[k] = todo[k - 1] /\ k \in Nat
    BY <1>4, <1>7, <1>8, <1>10
  <2>2. StampDue(todo, blocks, k - 1)
    BY <1>10, <2>1 DEF DuesMet
  <2>3. PartOfStamp(call, next[k])
    BY <1>1, <1>6, <2>1, <2>2 DEF StampDue
  <2>4. PartOfStamp(b, next[k])
    BY <1>4, <1>6, <2>3 DEF PartOfStamp, Due, Keeps
  <2>5. ASSUME NEW j \in DOMAIN next, j < k
        PROVE  /\ ~Writes(next[j])
               /\ next[j].do # "stamp" => Ending(next[j]) /\ PartOfStamp(next[j], next[k])
    <3>1. CASE j = 1
      BY <1>4, <1>7, <2>4, <3>1
    <3>2. CASE j = 2
      BY <1>4, <1>7, <3>2
    <3>3. CASE j > 2 /\ j - 1 \in DOMAIN todo /\ next[j] = todo[j - 1]
      <4>1. j - 1 < k - 1
        BY <1>7, <2>1, <2>5
      <4> QED BY <2>1, <2>2, <3>3, <4>1 DEF StampDue
    <3> QED BY <1>8, <3>1, <3>2, <3>3
  <2>6. ASSUME NEW j \in DOMAIN next, j > k
        PROVE  j - 1 \in DOMAIN todo /\ j - 1 > k - 1 /\ next[j] = todo[j - 1]
    <3>1. j # 1 /\ j # 2 /\ j - 1 > k - 1
      BY <1>7, <2>1, <2>6
    <3> QED BY <1>8, <3>1
  <2>7. \A row \in 0 .. frame.rows - 1, col \in 0 .. frame.cols - 1 :
          InSquare(next[k], row, col) => \A j \in DOMAIN next : j > k => ~Over(next[j], row, col)
    BY <2>1, <2>2, <2>6 DEF StampDue
  <2> QED BY <2>1, <2>2, <2>5, <2>7 DEF StampDue
<1>11. ASSUME NEW j \in DOMAIN next, Ending(next[j])
       PROVE  \E k \in DOMAIN next : k > j /\ Writes(next[k])
  <2>1. j \in Nat
    BY <1>7
  <2>2. PICK i \in DOMAIN todo : i \in Nat /\ i >= 1 /\ i + 1 >= j /\ Ending(todo[i])
    <3>1. CASE j = 1
      BY <1>1, <1>6, <3>1
    <3>2. CASE j > 2 /\ j - 1 \in DOMAIN todo /\ next[j] = todo[j - 1]
      BY <1>11, <2>1, <3>2
    <3> QED BY <1>4, <1>7, <1>8, <1>11, <3>1, <3>2
  <2>3. PICK k \in DOMAIN todo : k > i /\ Writes(todo[k])
    BY <2>2 DEF DuesMet
  <2>4. k \in Nat /\ k > 1 /\ k + 1 > j
    BY <1>1, <2>1, <2>2, <2>3
  <2> QED BY <1>9, <2>3, <2>4
<1> QED BY <1>10, <1>11 DEF DuesMet

(* While a square larger than 8x8's quarter is to be read, no stamp is due *)
(* before its own.                                                         *)
LEMMA NoneDue ==
  ASSUME DuesMet(todo, blocks), 1 \in DOMAIN todo, \A k \in DOMAIN todo : k \in Nat \ {0},
         todo[1].do = "node", todo[1].size # 1, NEW k \in DOMAIN todo
  PROVE  ~Writes(todo[k]) /\ ~Ending(todo[k])
<1>1. ASSUME NEW l \in DOMAIN todo, Writes(todo[l]) PROVE FALSE
  <2>1. l # 1 /\ todo[1].do # "stamp" /\ ~Ending(todo[1])
    BY <1>1 DEF Writes, Ending
  <2>2. 1 < l
    BY <2>1
  <2> QED BY <1>1, <2>1, <2>2 DEF DuesMet, StampDue
<1> QED BY <1>1 DEF DuesMet

(* The cells of the node at hand wait for it, and so do those below it and *)
(* to its right.                                                           *)
LEMMA NodeCellsWait ==
  ASSUME WalkInv, CellsInv, OrderInv, NoGaps, pc = "walk", todo # <<>>, ~corrupt, ~cancelled,
         NEW top \in Nat, NEW start \in Nat, NEW size \in Squares,
         Call = NodeCall(top, start, size), top < frame.rows, start < frame.cols,
         NEW stamp, stamp.row = top, stamp.col = start, stamp.size = size,
         NEW row \in 0 .. frame.rows - 1, NEW col \in 0 .. frame.cols - 1
  PROVE  /\ InSquare(stamp, row, col) => ~Blocked(row, col) /\ ~Called(Tail(todo), row, col)
         /\ Inside(row, col) /\ (Below(stamp, row, col) \/ Beside(stamp, row, col)) =>
              ~Blocked(row, col)
<1>1. /\ row \in Int /\ col \in Int /\ row \in Nat /\ col \in Nat
      /\ top \in Int /\ start \in Int /\ size \in Nat /\ size > 0
      /\ frame.rows \in Nat /\ frame.cols \in Nat
  BY FrameTypes DEF Squares
<1>2. \A r, c \in Int : Over(Call, r, c) <=> InRect(r, c, top, start, size, size)
  BY <1>1, OverNode, Zenon
<1>3. ASSUME NEW r \in 0 .. frame.rows - 1, NEW c \in 0 .. frame.cols - 1,
             InRect(r, c, top, start, size, size)
      PROVE  ~Blocked(r, c) /\ ~Called(Tail(todo), r, c)
  <2>1. r \in Int /\ c \in Int
    OBVIOUS
  <2> QED BY <1>2, <1>3, <2>1, CallUnblocked
<1>4. PICK upper \in Nat, lower \in Nat, leftmost \in Nat, rightmost \in Nat,
           rows \in Nat, cols \in Nat :
        /\ upper = Tile.top /\ lower = Tile.bottom /\ leftmost = Tile.left /\ rightmost = Tile.right
        /\ rows = frame.rows /\ cols = frame.cols /\ lower <= rows /\ rightmost <= cols
        /\ sbRow >= upper /\ sbCol >= leftmost /\ sbRow \in Nat /\ sbCol \in Nat
  BY <1>1, TileTypes DEF WalkInv, WalkPlace
<1>5. upper <= top /\ leftmost <= start /\ top < rows /\ start < cols
  <2>1. Call.do # "stamp" /\ Call.row = top /\ Call.col = start
    BY DEF NodeCall
  <2>2. sbRow <= top /\ sbCol <= start
    BY <2>1, CallPlace
  <2>3. \A a, b, c \in Int : b >= a /\ b <= c => a <= c
    OBVIOUS
  <2>4. upper \in Int /\ leftmost \in Int /\ sbRow \in Int /\ sbCol \in Int
    <3>1. \A x \in Nat : x \in Int
      OBVIOUS
    <3> QED BY <1>4, <3>1, Zenon
  <2> QED BY <1>1, <1>4, <2>2, <2>3, <2>4, Zenon
<1>6. /\ Inside(row, col) =>
           upper <= row /\ row < lower /\ leftmost <= col /\ col < rightmost
      /\ Below(stamp, row, col) => start <= col /\ col < start + size /\ top + size <= row
      /\ Beside(stamp, row, col) => top <= row /\ row < top + size /\ start + size <= col
  <2>1. /\ Inside(row, col) => row \in upper .. lower - 1 /\ col \in leftmost .. rightmost - 1
        /\ Below(stamp, row, col) => col >= start /\ col < start + size /\ row >= top + size
        /\ Beside(stamp, row, col) => row >= top /\ row < top + size /\ col >= start + size
    BY <1>4, Zenon DEF Below, Beside, Inside, InTile
  <2>2. \A x, y, k \in Int : /\ x \in y .. k - 1 => y <= x /\ x < k
                             /\ x >= y => y <= x
    OBVIOUS
  <2> QED BY <1>1, <1>4, <2>1, <2>2
<1>7. /\ \A x, y, k \in Int : y <= x /\ x < k => x \in y .. k - 1
      /\ upper \in Int /\ lower \in Int /\ leftmost \in Int /\ rightmost \in Int
  OBVIOUS
<1>8. ASSUME Inside(row, col), Below(stamp, row, col), Blocked(row, col)
      PROVE  FALSE
  <2>1. /\ upper <= row /\ row < lower /\ leftmost <= col /\ col < rightmost
        /\ start <= col /\ col < start + size /\ top + size <= row
    BY <1>6, <1>8, Zenon
  <2>2. top <= row /\ top < lower /\ top < top + size
    BY <1>1, <1>4, <2>1
  <2>3. /\ row \in Tile.top .. Tile.bottom - 1 /\ top \in Tile.top .. Tile.bottom - 1
        /\ col \in Tile.left .. Tile.right - 1
    BY <1>1, <1>4, <1>5, <1>7, <2>1, <2>2, Zenon
  <2>4. Blocked(top, col)
    BY <1>8, <2>2, <2>3, Zenon DEF NoGaps, Walking
  <2>5. InRect(top, col, top, start, size, size)
    BY <1>1, <2>1, <2>2 DEF InRect
  <2>6. top \in 0 .. frame.rows - 1
    BY <1>1
  <2> QED BY <1>3, <2>4, <2>5, <2>6
<1>9. ASSUME Inside(row, col), Beside(stamp, row, col), Blocked(row, col)
      PROVE  FALSE
  <2>1. /\ upper <= row /\ row < lower /\ leftmost <= col /\ col < rightmost
        /\ top <= row /\ row < top + size /\ start + size <= col
    BY <1>6, <1>9, Zenon
  <2>2. start <= col /\ start < rightmost /\ start < start + size
    BY <1>1, <1>4, <2>1
  <2>3. /\ row \in Tile.top .. Tile.bottom - 1 /\ start \in Tile.left .. Tile.right - 1
        /\ col \in Tile.left .. Tile.right - 1
    BY <1>1, <1>4, <1>5, <1>7, <2>1, <2>2, Zenon
  <2>4. Blocked(row, start)
    BY <1>9, <2>2, <2>3, Zenon DEF NoGaps, Walking
  <2>5. InRect(row, start, top, start, size, size)
    BY <1>1, <2>1, <2>2 DEF InRect
  <2>6. start \in 0 .. frame.cols - 1
    BY <1>1
  <2> QED BY <1>3, <2>4, <2>5, <2>6
<1>10. InSquare(stamp, row, col) => InRect(row, col, top, start, size, size)
  BY DEF InSquare
<1> QED BY <1>3, <1>8, <1>9, <1>10

(* A square larger than 8x8's quarter: its own stamp comes due with its    *)
(* parts, or, when it is split further, none does.                         *)
LEMMA DuesOfLarge ==
  ASSUME WalkInv, CellsInv, OrderInv, NoGaps, pc = "walk", todo # <<>>, ~corrupt, ~cancelled,
         DuesMet(todo, blocks),
         NEW top \in Nat, NEW start \in Nat, NEW size \in Squares, size # 1,
         Call = NodeCall(top, start, size), top < frame.rows, start < frame.cols,
         NEW p \in PartitionTypes, NEW calls, calls = Calls(top, start, size, p),
         PartsFit(calls, top, start, size), 
         NEW stamp, stamp = StampCall(top, start, size, p),
         NEW next, NEW m \in Nat, NEW n \in Nat, Replaced(next, calls, stamp, m, n)
  PROVE  DuesMet(next, blocks)
<1>1. /\ \A k \in DOMAIN Tail(todo) : k + 1 \in DOMAIN todo /\ Tail(todo)[k] = todo[k + 1]
      /\ \A k \in DOMAIN todo : k \in Nat \ {0}
      /\ 1 \in DOMAIN todo /\ Call = todo[1]
  BY TailShifts DEF WalkInv, Call
<1>2. todo[1].do = "node" /\ todo[1].size # 1
  BY <1>1 DEF NodeCall
<1>3. \A k \in DOMAIN Tail(todo) : ~Writes(Tail(todo)[k]) /\ ~Ending(Tail(todo)[k])
  BY <1>1, <1>2, NoneDue
<1>4. /\ stamp.do = "stamp" /\ stamp.row = top /\ stamp.col = start /\ stamp.size = size
      /\ stamp.part = p /\ ~Ending(stamp)
  BY DEF StampCall, Ending
<1>5. size \in Nat /\ size > 1
  BY DEF Squares
<1>6. /\ \A k \in 1 .. m : next[k] = calls[k]
      /\ next[m + 1] = stamp /\ DOMAIN next = 1 .. m + 1 + n /\ DOMAIN calls = 1 .. m
      /\ \A k \in 1 .. n : next[m + 1 + k] = Tail(todo)[k] /\ k \in DOMAIN Tail(todo)
  BY DEF Replaced
<1>7. \A k \in DOMAIN next :
        \/ k \in 1 .. m /\ k < m + 1
        \/ k = m + 1
        \/ /\ k > m + 1
           /\ \E l \in DOMAIN Tail(todo) : next[k] = Tail(todo)[l]
  <2> SUFFICES ASSUME NEW k \in 1 .. m + 1 + n, ~ (k \in 1 .. m /\ k < m + 1), k # m + 1
               PROVE  k > m + 1 /\ \E l \in DOMAIN Tail(todo) : next[k] = Tail(todo)[l]
    BY <1>6, Zenon
  <2>1. k - (m + 1) \in 1 .. n /\ k > m + 1 /\ m + 1 + (k - (m + 1)) = k
    BY ReplacedIndex, Zenon
  <2>2. next[m + 1 + (k - (m + 1))] = Tail(todo)[k - (m + 1)] /\ k - (m + 1) \in DOMAIN Tail(todo)
    BY <1>6, <2>1, Zenon
  <2> QED BY <2>1, <2>2
<1>8. CASE p = "SPLIT" /\ size # 2
  <2>1. \A k \in 1 .. m : ~Writes(calls[k]) /\ ~Ending(calls[k])
    <3>1. PICK hbs : hbs = size \div 2
      OBVIOUS
    <3>2. hbs # 1
      BY <1>8, <3>1 DEF Squares
    <3>3. \A a, b : ~Writes(NodeCall(a, b, hbs)) /\ ~Ending(NodeCall(a, b, hbs))
      BY <3>2 DEF NodeCall, Writes, Ending
    <3>4. calls = <<NodeCall(top, start, hbs), NodeCall(top, start + hbs, hbs),
                    NodeCall(top + hbs, start, hbs), NodeCall(top + hbs, start + hbs, hbs)>>
      BY <1>8, <3>1 DEF Calls
    <3>5. \A k \in DOMAIN calls : \E a, b : calls[k] = NodeCall(a, b, hbs)
      BY <3>4
    <3> QED BY <1>6, <3>3, <3>5
  <2>2. ~Writes(stamp)
    BY <1>4, <1>8 DEF Writes
  <2>3. \A k \in DOMAIN next : ~Writes(next[k]) /\ ~Ending(next[k])
    BY <1>3, <1>4, <1>6, <1>7, <2>1, <2>2
  <2> QED BY <2>3 DEF DuesMet
<1>9. CASE p = "SPLIT" => size = 2
  <2>1. Writes(stamp)
    BY <1>4, <1>5, <1>9 DEF Writes
  <2>2. \A k \in 1 .. m : calls[k] \in DueParts(stamp)
    <3>1. calls \in Seq(DueParts(stamp))
      BY <1>4, <1>9, PartsDue
    <3> QED BY <1>6, <3>1, ElementOfSeq
  <2>3. \A k \in 1 .. m : calls[k] \in Kept(top, start, size)
    <3>1. calls \in Seq(Kept(top, start, size))
      BY DEF PartsFit
    <3> QED BY <1>6, <3>1
  <2>4. \A k \in 1 .. m :
          /\ Ending(calls[k]) /\ ~Writes(calls[k]) /\ calls[k].do # "stamp"
          /\ PartOfStamp(calls[k], stamp)
    <3> SUFFICES ASSUME NEW e, e \in DueParts(stamp), e \in Kept(top, start, size)
                 PROVE  /\ Ending(e) /\ ~Writes(e) /\ e.do # "stamp"
                        /\ PartOfStamp(e, stamp)
      BY <2>2, <2>3
    <3>1. Ending(e) /\ Due(e.row, e.col, High(e), Wide(e), stamp)
      BY DEF DueParts
    <3>2. e.do # "stamp" /\ ~Writes(e)
      BY <3>1 DEF Ending, Writes
    <3>3. Keeps(e, top, start, size)
      BY <3>2 DEF Kept
    <3> QED BY <1>4, <3>1, <3>2, <3>3 DEF PartOfStamp
  <2>5. \A k \in DOMAIN next : Writes(next[k]) => k = m + 1
    BY <1>3, <1>6, <1>7, <2>4
  <2>6. \A j \in DOMAIN next : Ending(next[j]) => j < m + 1
    BY <1>3, <1>4, <1>6, <1>7, <2>4
  <2>7. m + 1 \in DOMAIN next
    BY <1>6
  <2>8. StampPlaced(stamp)
    <3>1. Call.do # "stamp" /\ Call.row = top /\ Call.col = start /\ High(Call) = size
          /\ Wide(Call) = size
      BY DEF NodeCall, High, Wide
    <3>2. /\ sbRow <= top /\ top + size <= sbRow + frame.mib
          /\ sbCol <= start /\ start + size <= sbCol + frame.mib
      BY <3>1, CallPlace
    <3> QED BY <1>4, <3>2, Zenon DEF StampPlaced
  <2>9. ASSUME NEW row \in 0 .. frame.rows - 1, NEW col \in 0 .. frame.cols - 1
        PROVE  /\ InSquare(stamp, row, col) =>
                    /\ \A j \in DOMAIN next : j > m + 1 => ~Over(next[j], row, col)
                    /\ \A i \in DOMAIN blocks : ~Covers(blocks[i], row, col)
               /\ Inside(row, col) /\ (Below(stamp, row, col) \/ Beside(stamp, row, col)) =>
                    \A i \in DOMAIN blocks : ~Covers(blocks[i], row, col)
    <3>1. /\ InSquare(stamp, row, col) => ~Blocked(row, col) /\ ~Called(Tail(todo), row, col)
          /\ Inside(row, col) /\ (Below(stamp, row, col) \/ Beside(stamp, row, col)) =>
               ~Blocked(row, col)
      BY <1>4, NodeCellsWait
    <3>2. ~Called(Tail(todo), row, col) =>
            \A j \in DOMAIN next : j > m + 1 => ~Over(next[j], row, col)
      <4>1. \A j \in DOMAIN next :
              j > m + 1 => \E l \in DOMAIN Tail(todo) : next[j] = Tail(todo)[l]
        BY <1>6, <1>7
      <4> QED BY <4>1, Zenon DEF Called
    <3> QED BY <3>1, <3>2, Zenon DEF Blocked
  <2>10. StampDue(next, blocks, m + 1)
    <3>1. ASSUME NEW j \in DOMAIN next, j < m + 1
          PROVE  /\ ~Writes(next[j])
                 /\ next[j].do # "stamp" => Ending(next[j]) /\ PartOfStamp(next[j], stamp)
      <4>1. j \in 1 .. m
        BY <1>6, <3>1
      <4> QED BY <1>6, <2>4, <4>1, Zenon
    <3> QED BY <1>6, <2>8, <2>9, <3>1, Zenon DEF StampDue
  <2> QED BY <1>6, <2>1, <2>5, <2>6, <2>7, <2>10 DEF DuesMet
<1> QED BY <1>8, <1>9

(* The partition read puts its parts and its stamp before the rest.        *)
ReadAs(top, start, size, p, m, n) ==
  /\ Call = NodeCall(top, start, size) /\ EvenLength(top, size) /\ EvenLength(start, size)
  /\ top < frame.rows /\ start < frame.cols
  /\ Replaced(todo', Calls(top, start, size, p), StampCall(top, start, size, p), m, n)

LEMMA ReadReplaces ==
  ASSUME WalkInv, ReadPartition, ~corrupt'
  PROVE  \E top \in Nat, start \in Nat, size \in Squares :
           \E p \in Partitions(top, start, size), m \in Nat, n \in Nat :
             p \in PartitionTypes /\ ReadAs(top, start, size, p, m, n)
<1>1. /\ todo # <<>> /\ Call.do = "node" /\ ~OutOfFrame /\ pc = "walk"
  BY DEF ReadPartition, At
<1>2. Call \in NodeCalls /\ Tail(todo) \in Seq(AnyCall)
  BY <1>1, CallTypes
<1>3. PICK top \in Nat, start \in Nat, size \in Squares :
        /\ Call = NodeCall(top, start, size)
        /\ Call.row = top /\ Call.col = start /\ Call.size = size
        /\ EvenLength(top, size) /\ EvenLength(start, size)
  BY <1>2 DEF NodeCalls, NodeCall
<1>4. PICK p \in Partitions(top, start, size) :
        todo' = Calls(top, start, size, p) \o <<StampCall(top, start, size, p)>> \o Tail(todo)
  <2>1. \E p \in Partitions(Call.row, Call.col, Call.size) :
          todo' = Calls(Call.row, Call.col, Call.size, p)
                    \o <<StampCall(Call.row, Call.col, Call.size, p)>> \o Tail(todo)
    BY DEF ReadPartition
  <2>2. Call.row = top /\ Call.col = start /\ Call.size = size
    BY <1>3
  <2> QED BY <2>1, <2>2
<1>5. frame.rows \in Nat /\ frame.cols \in Nat /\ frame.mib \in Nat /\ size \in Nat
  BY FrameTypes DEF Squares
<1>6. top < frame.rows /\ start < frame.cols
  <2>1. ~ (top >= frame.rows) /\ ~ (start >= frame.cols)
    BY <1>1, <1>3, Zenon DEF OutOfFrame
  <2> QED BY <1>5, <2>1
<1>7. PICK calls, stamp, rest, next :
        /\ calls = Calls(top, start, size, p) /\ stamp = StampCall(top, start, size, p)
        /\ rest = Tail(todo) /\ next = todo'
  OBVIOUS
<1>8. p \in PartitionTypes
  BY <1>5, SubsizeType
<1>9. calls \in Seq(AnyCall) /\ rest \in Seq(AnyCall) /\ stamp \in AnyCall
  <2>1. calls \in Seq(AnyCall)
    BY <1>3, <1>5, <1>6, <1>7, CallsStartInFrame
  <2>2. stamp \in AnyCall
    BY <1>5, <1>7, <1>8 DEF StampCall, StampCalls, AnyCall
  <2> QED BY <1>2, <1>7, <2>1, <2>2
<1>10. PICK m \in Nat, n \in Nat : m = Len(calls) /\ n = Len(rest)
  BY <1>9, LenProperties
<1>11. next = calls \o <<stamp>> \o rest
  BY <1>4, <1>7, Zenon
<1>12. /\ DOMAIN calls = 1 .. m /\ DOMAIN rest = 1 .. n /\ DOMAIN next = 1 .. m + 1 + n
       /\ \A k \in 1 .. m : next[k] = calls[k]
       /\ next[m + 1] = stamp
       /\ \A k \in 1 .. n : next[m + 1 + k] = rest[k]
  BY <1>9, <1>10, <1>11, InsertedCalls
<1>13. Replaced(next, calls, stamp, m, n)
  BY <1>7, <1>12, Zenon DEF Replaced
<1>14. ReadAs(top, start, size, p, m, n)
  BY <1>3, <1>6, <1>7, <1>13, Zenon DEF ReadAs
<1> QED BY <1>8, <1>14, Zenon

LEMMA DuesOfRead ==
  ASSUME WalkInv, CellsInv, OrderInv, NoGaps, ReadPartition, ~corrupt', ~cancelled,
         DuesMet(todo, blocks)
  PROVE  DuesMet(todo', blocks)
<1>1. /\ todo # <<>> /\ pc = "walk" /\ ~corrupt
  BY DEF ReadPartition, At
<1>2. PICK top \in Nat, start \in Nat, size \in Squares :
        \E p \in Partitions(top, start, size), m \in Nat, n \in Nat :
          p \in PartitionTypes /\ ReadAs(top, start, size, p, m, n)
  BY ReadReplaces
<1>3. PICK p \in Partitions(top, start, size), m \in Nat, n \in Nat :
        p \in PartitionTypes /\ ReadAs(top, start, size, p, m, n)
  BY <1>2
<1>4. PICK calls, stamp, next :
        /\ calls = Calls(top, start, size, p) /\ stamp = StampCall(top, start, size, p)
        /\ next = todo'
  OBVIOUS
<1>5. /\ Call = NodeCall(top, start, size) /\ EvenLength(top, size) /\ EvenLength(start, size)
      /\ top < frame.rows /\ start < frame.cols
      /\ Replaced(next, calls, stamp, m, n)
  BY <1>3, <1>4, Zenon DEF ReadAs
<1>6. frame.rows \in Nat /\ frame.cols \in Nat /\ frame.mib \in Nat /\ size \in Nat
  BY FrameTypes DEF Squares
<1>7. /\ Call.do = "node" /\ Call.do # "stamp" /\ Call.row = top /\ Call.col = start
      /\ Call.size = size
  BY <1>5 DEF NodeCall
<1>8. CASE size = 1
  <2>1. p = "NONE"
    BY <1>8 DEF Partitions
  <2>2. /\ Call = NodeCall(top, start, 1) /\ calls = Calls(top, start, 1, "NONE")
        /\ stamp = StampCall(top, start, 1, "NONE")
    BY <1>4, <1>5, <1>8, <2>1
  <2>3. DuesMet(next, blocks)
    BY <1>1, <1>5, <2>2, DuesOfSmall
  <2> QED BY <1>4, <2>3
<1>9. CASE size # 1
  <2>1. /\ top % size = 0 /\ start % size = 0 /\ size <= frame.mib
    <3>1. OnGrid(Call) /\ Keeps(Call, sbRow, sbCol, frame.mib) /\ High(Call) = size
          /\ Wide(Call) = size
      BY <1>1, <1>7, CallKept DEF High, Wide
    <3>2. top % size = 0 /\ start % size = 0
      BY <1>7, <3>1 DEF OnGrid, Aligned
    <3>3. sbRow <= top /\ top + size <= sbRow + frame.mib
      BY <1>7, <3>1 DEF Keeps
    <3>4. \A x, y, k, l \in Int : x <= y /\ y + k <= x + l => k <= l
      OBVIOUS
    <3>5. sbRow \in Int /\ top \in Int /\ size \in Int /\ frame.mib \in Int
      BY <1>6 DEF WalkInv
    <3> QED BY <3>2, <3>3, <3>4, <3>5, Zenon
  <2>2. PartsFit(calls, top, start, size)
    BY <1>4, <1>5, <1>6, <2>1, CallsInOrder
  <2>3. DuesMet(next, blocks)
    BY <1>1, <1>3, <1>4, <1>5, <1>9, <2>2, DuesOfLarge
  <2> QED BY <1>4, <2>3
<1> QED BY <1>8, <1>9

(* After a step the dues are judged at the same superblock.                *)
LEMMA DuesAfter ==
  ASSUME UNCHANGED <<frame, tile, sbRow, sbCol>>, DuesMet(todo', blocks')
  PROVE  DuesMet(todo, blocks)'
<1>1. \A stamp : StampPlaced(stamp) => StampPlaced(stamp)'
  BY DEF StampPlaced
<1>2. \A row, col : Inside(row, col)' <=> Inside(row, col)
  BY DEF Inside, Tile
<1>3. \A k : StampDue(todo', blocks', k) => StampDue(todo, blocks, k)'
  BY <1>1, <1>2 DEF StampDue
<1> QED BY <1>3 DEF DuesMet

LEMMA NoDues ==
  ASSUME \A k \in DOMAIN todo' : todo'[k].do = "node" /\ todo'[k].size # 1
  PROVE  DuesMet(todo, blocks)'
BY DEF DuesMet, Writes, Ending

LEMMA StampsStep ==
  ASSUME WalkInv, CellsInv, OrderInv, StampsDue, NoGaps, [Next]_vars
  PROVE  StampsDue'
<1>1. CASE FireStop \/ Returned \/ UNCHANGED vars
  <2>1. UNCHANGED <<frame, pc, tile, sbRow, sbCol, todo, blocks, corrupt, cancelled>>
    BY <1>1 DEF FireStop, Returned, vars, tileVars, blockVars, endVars
  <2>2. CASE Walking
    <3>1. DuesMet(todo', blocks')
      BY <2>1, <2>2 DEF StampsDue
    <3> QED BY <2>1, <3>1, DuesAfter DEF StampsDue
  <2>3. CASE ~Walking
    BY <2>1, <2>3 DEF StampsDue, Walking
  <2> QED BY <2>2, <2>3
<1>2. CASE StartTile
  <2>1. todo' = <<>>
    BY <1>2 DEF StartTile, WalkInv, WalkPlace
  <2>2. \A k \in DOMAIN todo' : todo'[k].do = "node" /\ todo'[k].size # 1
    BY <2>1
  <2> QED BY <2>2, NoDues DEF StampsDue
<1>3. CASE CancelAtTile \/ TilesDone \/ CancelAtRow \/ RowsDone \/ GiveUp
  <2>1. pc' \notin {"row", "walk"}
    BY <1>3 DEF CancelAtTile, TilesDone, CancelAtRow, RowsDone, GiveUp, EndTile
  <2> QED BY <2>1 DEF StampsDue, Walking
<1>4. CASE StartRow \/ NextSuperblock
  <2>1. todo' = <<>> \/ \E row, col : todo' = <<NodeCall(row, col, frame.mib)>>
    BY <1>4 DEF StartRow, NextSuperblock
  <2>2. frame.mib # 1
    BY MibValues
  <2>3. \A row, col :
          NodeCall(row, col, frame.mib).do = "node" /\ NodeCall(row, col, frame.mib).size # 1
    BY <2>2 DEF NodeCall
  <2>4. \A k \in DOMAIN todo' : todo'[k].do = "node" /\ todo'[k].size # 1
    <3>1. CASE todo' = <<>>
      BY <3>1
    <3>2. ASSUME NEW e, todo' = <<e>>, e.do = "node", e.size # 1
          PROVE  \A k \in DOMAIN todo' : todo'[k].do = "node" /\ todo'[k].size # 1
      BY <3>2
    <3> QED BY <2>1, <2>3, <3>1, <3>2
  <2> QED BY <2>4, NoDues DEF StampsDue
<1>5. CASE SkipNode \/ StampContext
  <2>1. /\ todo # <<>> /\ todo' = Tail(todo) /\ pc = "walk"
        /\ UNCHANGED <<frame, pc, tile, sbRow, sbCol, blocks, corrupt, cancelled>>
    BY <1>5 DEF SkipNode, StampContext, At, tileVars, blockVars, endVars
  <2>2. CASE Walking
    <3>1. DuesMet(todo', blocks)
      BY <2>1, <2>2, DuesOfTail DEF StampsDue, WalkInv
    <3> QED BY <2>1, <3>1, DuesAfter DEF StampsDue
  <2>3. CASE ~Walking
    BY <2>1, <2>3 DEF StampsDue, Walking
  <2> QED BY <2>2, <2>3
<1>6. CASE SkipBlock \/ CorruptBlock
  <2>1. corrupt'
    BY <1>6 DEF SkipBlock, CorruptBlock, endVars
  <2> QED BY <2>1 DEF StampsDue, Walking
<1>7. CASE DecodeBlock
  <2>1. /\ todo # <<>> /\ Call \in BlockCalls /\ pc = "walk" /\ ~corrupt /\ todo' = Tail(todo)
        /\ UNCHANGED <<frame, pc, tile, sbRow, sbCol, corrupt, cancelled>>
    BY <1>7, BlockMade
  <2>2. PICK b \in Decodeds, n \in Nat :
          /\ Made(b) /\ DOMAIN blocks = 1 .. n /\ DOMAIN blocks' = 1 .. n + 1
          /\ \A k \in 1 .. n : blocks'[k] = blocks[k]
          /\ blocks'[n + 1] = b
    BY <1>7, BlockMade
  <2>3. CASE cancelled
    BY <2>1, <2>3 DEF StampsDue, Walking
  <2>4. CASE ~cancelled
    <3>1. DuesMet(todo, blocks)
      BY <2>1, <2>4 DEF StampsDue, Walking
    <3>2. b.row = Call.row /\ b.col = Call.col /\ b.w = Call.w /\ b.h = Call.h
      BY <2>2 DEF Made
    <3>3. PICK done : done = blocks'
      OBVIOUS
    <3>4. DuesMet(Tail(todo), done)
      BY <2>1, <2>2, <3>1, <3>2, <3>3, DuesOfBlock
    <3>5. DuesMet(todo', blocks')
      BY <2>1, <3>3, <3>4
    <3> QED BY <2>1, <3>5, DuesAfter DEF StampsDue
  <2> QED BY <2>3, <2>4
<1>8. CASE ReadPartition
  <2>1. UNCHANGED <<frame, pc, tile, sbRow, sbCol, blocks, cancelled>> /\ pc = "walk"
        /\ ~corrupt
    BY <1>8 DEF ReadPartition, At, blockVars
  <2>2. CASE corrupt' \/ cancelled
    BY <2>1, <2>2 DEF StampsDue, Walking
  <2>3. CASE ~corrupt' /\ ~cancelled
    <3>1. DuesMet(todo, blocks)
      BY <2>1, <2>3 DEF StampsDue, Walking
    <3>2. DuesMet(todo', blocks)
      BY <1>8, <2>3, <3>1, DuesOfRead
    <3> QED BY <2>1, <3>2, DuesAfter DEF StampsDue
  <2> QED BY <2>2, <2>3
<1> QED BY <1>1, <1>2, <1>3, <1>4, <1>5, <1>6, <1>7, <1>8 DEF Next

LEMMA DomainsStep ==
  ASSUME WalkInv, ContextDomains, [Next]_vars
  PROVE  ContextDomains'
<1>1. frame' = frame
  BY DEF Next, FireStop, StartTile, CancelAtTile, TilesDone, StartRow, CancelAtRow, RowsDone,
     NextSuperblock, GiveUp, SkipNode, ReadPartition, StampContext, SkipBlock, CorruptBlock,
     DecodeBlock, Returned, vars
<1>2. DOMAIN above' = DOMAIN above /\ DOMAIN left' = DOMAIN left
  <2>1. CASE StampContext
    BY <2>1, StampedDomains DEF StampContext
  <2>2. CASE StartTile
    BY <2>2 DEF StartTile, AboveZeroed
  <2>3. CASE StartRow
    BY <2>3 DEF StartRow, LeftZeroed
  <2>4. CASE UNCHANGED <<above, left>>
    BY <2>4
  <2>5. ~StampContext /\ ~StartTile /\ ~StartRow => UNCHANGED <<above, left>>
    BY DEF Next, FireStop, CancelAtTile, TilesDone, CancelAtRow, RowsDone,
       NextSuperblock, GiveUp, SkipNode, ReadPartition, SkipBlock, CorruptBlock,
       DecodeBlock, Returned, vars, contextVars
  <2> QED BY <2>1, <2>2, <2>3, <2>4, <2>5
<1> QED BY <1>1, <1>2 DEF ContextDomains

(* What a step keeps, when the walk goes on after it in the same tile.     *)
LEMMA WalkingOn ==
  ASSUME [Next]_vars, Walking', ~StartTile
  PROVE  /\ Walking /\ UNCHANGED <<frame, tile, corrupt, cancelled>>
         /\ blocks' = blocks \/ DecodeBlock
<1>1. pc' \in {"row", "walk"} /\ ~corrupt' /\ ~cancelled'
  BY DEF Walking
<1>2. CASE FireStop \/ Returned \/ UNCHANGED vars
  BY <1>1, <1>2 DEF FireStop, Returned, vars, tileVars, blockVars, endVars, Walking
<1>3. ~ (CancelAtTile \/ TilesDone \/ CancelAtRow \/ RowsDone \/ GiveUp)
  BY <1>1 DEF CancelAtTile, TilesDone, CancelAtRow, RowsDone, GiveUp, EndTile
<1>4. CASE StartRow \/ NextSuperblock
  BY <1>1, <1>4 DEF StartRow, NextSuperblock, blockVars, endVars, Walking
<1>5. CASE SkipNode \/ StampContext \/ SkipBlock
  BY <1>1, <1>5 DEF SkipNode, StampContext, SkipBlock, At, tileVars, blockVars, endVars, Walking
<1>6. CASE ReadPartition
  BY <1>1, <1>6 DEF ReadPartition, At, blockVars, Walking
<1>7. CASE DecodeBlock
  BY <1>1, <1>7 DEF DecodeBlock, At, endVars, Walking
<1>8. ~CorruptBlock
  BY <1>1 DEF CorruptBlock
<1> QED BY <1>2, <1>3, <1>4, <1>5, <1>6, <1>7, <1>8 DEF Next

(* The cells of the tile at hand are in the frame.                         *)
LEMMA TileInFrame ==
  ASSUME WalkInv, tile \in DOMAIN frame.tiles
  PROVE  /\ \A row \in Tile.top .. Tile.bottom - 1, col \in Tile.left .. Tile.right - 1 :
              /\ row \in 0 .. frame.rows - 1 /\ col \in 0 .. frame.cols - 1 /\ Inside(row, col)
         /\ Tile.top \in Tile.top .. Tile.bottom - 1 /\ Tile.left \in Tile.left .. Tile.right - 1
<1>1. PICK upper \in Nat, lower \in Nat, leftmost \in Nat, rightmost \in Nat,
           rows \in Nat, cols \in Nat :
        /\ upper = Tile.top /\ lower = Tile.bottom /\ leftmost = Tile.left /\ rightmost = Tile.right
        /\ rows = frame.rows /\ cols = frame.cols /\ lower <= rows /\ rightmost <= cols
        /\ upper < lower /\ leftmost < rightmost
  BY TileTypes, FrameTypes
<1>2. /\ \A row \in upper .. lower - 1 : row \in 0 .. rows - 1
      /\ \A col \in leftmost .. rightmost - 1 : col \in 0 .. cols - 1
      /\ upper \in upper .. lower - 1 /\ leftmost \in leftmost .. rightmost - 1
  BY <1>1
<1> QED BY <1>1, <1>2, Zenon DEF Inside, InTile

LEMMA WalkingTile ==
  ASSUME WalkInv, Walking
  PROVE  tile \in DOMAIN frame.tiles
BY DEF WalkInv, WalkPlace, Walking

(* A tile that begins has none of its cells decoded.                       *)
LEMMA TileBegins ==
  ASSUME WalkInv, CellsInv, StartTile, ~corrupt', ~cancelled'
  PROVE  /\ UNCHANGED <<frame, tile, todo, blocks>> /\ pc' = "row"
         /\ tile \in DOMAIN frame.tiles /\ todo = <<>> /\ above' = AboveZeroed
         /\ \A row \in Tile.top .. Tile.bottom - 1, col \in Tile.left .. Tile.right - 1 :
              ~Blocked(row, col)
<1>1. /\ UNCHANGED <<frame, tile, todo, blocks, corrupt, cancelled>> /\ pc = "tiles" /\ pc' = "row"
      /\ tile <= Len(frame.tiles) /\ above' = AboveZeroed
  BY DEF StartTile, blockVars, endVars
<1>2. tile \in DOMAIN frame.tiles
  <2>1. PICK n \in Nat : n = Len(frame.tiles) /\ DOMAIN frame.tiles = 1 .. n
    BY FrameTypes, LenProperties
  <2>2. tile \in Nat \ {0} /\ tile <= n
    BY <1>1, <2>1 DEF WalkInv
  <2> QED BY <2>1, <2>2
<1>3. todo = <<>>
  BY <1>1 DEF WalkInv, WalkPlace
<1>4. ASSUME NEW row \in Tile.top .. Tile.bottom - 1, NEW col \in Tile.left .. Tile.right - 1
      PROVE  ~Blocked(row, col)
  <2>1. row \in 0 .. frame.rows - 1 /\ col \in 0 .. frame.cols - 1
    BY <1>2, TileInFrame
  <2>2. Inside(row, col) /\ Waits(row, col)
    BY <1>1 DEF Inside, InTile, Waits
  <2> QED BY <1>1, <1>2, <2>1, <2>2, WaitsUnblocked
<1> QED BY <1>1, <1>2, <1>3, <1>4

(* The block decoded adds its cells to those decoded.                      *)
LEMMA BlockAdds ==
  ASSUME WalkInv, DecodeBlock
  PROVE  \A row, col : Blocked(row, col)' <=> Blocked(row, col) \/ Over(Call, row, col)
<1>1. PICK b \in Decodeds, n \in Nat :
        /\ Made(b) /\ DOMAIN blocks = 1 .. n /\ DOMAIN blocks' = 1 .. n + 1
        /\ \A k \in 1 .. n : blocks'[k] = blocks[k]
        /\ blocks'[n + 1] = b
  BY BlockMade
<1>2. Call.do = "block"
  BY BlockMade
<1>3. \A row, col : Covers(b, row, col) <=> Over(Call, row, col)
  BY <1>1, <1>2 DEF Made, Covers, Over
<1>4. \A k \in 1 .. n + 1 : k \in 1 .. n \/ k = n + 1
  OBVIOUS
<1>5. (\A k \in 1 .. n : k \in 1 .. n + 1) /\ n + 1 \in 1 .. n + 1
  OBVIOUS
<1>6. \A row, col :
        (\E k \in 1 .. n + 1 : Covers(blocks'[k], row, col)) <=>
          (\E k \in 1 .. n : Covers(blocks[k], row, col)) \/ Covers(b, row, col)
  BY <1>1, <1>4, <1>5
<1> QED BY <1>1, <1>3, <1>6, Zenon DEF Blocked

LEMMA GapsStep ==
  ASSUME WalkInv, CellsInv, OrderInv, BlocksLie, NoGaps, [Next]_vars
  PROVE  NoGaps'
<1> SUFFICES ASSUME Walking' PROVE NoGaps'
  BY DEF NoGaps
<1>1. CASE StartTile
  <2>1. ~corrupt' /\ ~cancelled'
    BY DEF Walking
  <2>2. /\ UNCHANGED <<frame, tile, blocks>>
        /\ \A row \in Tile.top .. Tile.bottom - 1, col \in Tile.left .. Tile.right - 1 :
             ~Blocked(row, col)
    BY <1>1, <2>1, TileBegins
  <2> QED BY <2>2 DEF NoGaps, Blocked, Tile
<1>2. CASE ~StartTile
  <2>1. /\ Walking /\ UNCHANGED <<frame, tile, corrupt, cancelled>>
        /\ blocks' = blocks \/ DecodeBlock
    BY <1>2, WalkingOn
  <2>2. CASE blocks' = blocks
    BY <2>1, <2>2 DEF NoGaps, Blocked, Tile
  <2>3. CASE DecodeBlock
    <3>1. \A row, col : Blocked(row, col)' <=> Blocked(row, col) \/ Over(Call, row, col)
      BY <2>3, BlockAdds
    <3>2. /\ todo # <<>> /\ Call.do = "block" /\ Call.do # "stamp" /\ pc = "walk"
          /\ ~corrupt /\ ~cancelled
      BY <2>1, <2>3, BlockMade DEF Walking
    <3>3. PICK top \in Nat, start \in Nat, h \in Nat, w \in Nat :
            top = Call.row /\ start = Call.col /\ h = High(Call) /\ w = Wide(Call)
      BY <3>2, CallPlace
    <3>4. High(Call) = Call.h /\ Wide(Call) = Call.w
      BY <3>2 DEF High, Wide
    <3>5. \A row \in Int, col \in Int :
            Over(Call, row, col) <=>
              top <= row /\ row < top + h /\ start <= col /\ col < start + w
      <4>1. \A row \in Int, col \in Int :
              Covers(Call, row, col) <=>
                top <= row /\ row < top + h /\ start <= col /\ col < start + w
        BY <3>3, <3>4, CoversCell
      <4> QED BY <3>2, <4>1 DEF Over
    <3>6. /\ Tile' = Tile
          /\ tile \in DOMAIN frame.tiles
      BY <2>1, WalkingTile DEF Tile
    <3>7. ASSUME NEW row \in Tile.top .. Tile.bottom - 1, NEW col \in Tile.left .. Tile.right - 1,
                 row < top + h, col < start + w
          PROVE  Blocked(row, col)'
      <4>1. row \in 0 .. frame.rows - 1 /\ col \in 0 .. frame.cols - 1 /\ Inside(row, col)
        BY <3>6, TileInFrame
      <4>2. CASE ~Over(Call, row, col)
        <5>1. Blocked(row, col)
          BY <3>2, <3>3, <3>7, <4>1, <4>2, BlockedBefore
        <5> QED BY <3>1, <5>1
      <4> QED BY <3>1, <4>2
    <3>8. ASSUME NEW row \in Tile.top .. Tile.bottom - 1, NEW r \in Tile.top .. Tile.bottom - 1,
                 NEW col \in Tile.left .. Tile.right - 1, NEW c \in Tile.left .. Tile.right - 1,
                 Blocked(row, col)'
          PROVE  (r <= row => Blocked(r, col)') /\ (c <= col => Blocked(row, c)')
      <4>1. CASE Blocked(row, col)
        <5>1. (r <= row => Blocked(r, col)) /\ (c <= col => Blocked(row, c))
          BY <2>1, <4>1 DEF NoGaps
        <5> QED BY <3>1, <5>1
      <4>2. CASE Over(Call, row, col)
        <5>1. row \in Int /\ col \in Int /\ r \in Int /\ c \in Int
          OBVIOUS
        <5>2. row < top + h /\ col < start + w
          BY <3>5, <4>2, <5>1, Zenon
        <5>3. (r <= row => r < top + h) /\ (c <= col => c < start + w)
          BY <5>1, <5>2
        <5> QED BY <3>7, <5>2, <5>3
      <4> QED BY <3>1, <3>8, <4>1, <4>2
    <3> QED BY <3>6, <3>8 DEF NoGaps
  <2> QED BY <2>1, <2>2, <2>3
<1> QED BY <1>1, <1>2

LEMMA StampAtHand ==
  ASSUME WalkInv, StampsDue, Walking, todo # <<>>, Writes(Call)
  PROVE  /\ Call.do = "stamp" /\ 1 \in DOMAIN todo /\ todo[1] = Call
         /\ \A k \in DOMAIN todo : k # 1 => k > 1
         /\ StampDue(todo, blocks, 1) /\ StampPlaced(Call)
<1>1. 1 \in DOMAIN todo /\ todo[1] = Call /\ \A k \in DOMAIN todo : k \in Nat \ {0}
  BY TailShifts DEF WalkInv, Call
<1>2. StampDue(todo, blocks, 1)
  BY <1>1 DEF StampsDue, DuesMet
<1>3. StampPlaced(Call)
  BY <1>1, <1>2 DEF StampDue
<1>4. \A k \in DOMAIN todo : k # 1 => k > 1
  BY <1>1
<1> QED BY <1>1, <1>2, <1>3, <1>4 DEF Writes

(* When a square is stamped all of its cells in the frame are decoded.     *)
LEMMA SquareBlocked ==
  ASSUME WalkInv, CellsInv, StampsDue, Walking, pc = "walk", todo # <<>>, Writes(Call),
         NEW row \in 0 .. frame.rows - 1, NEW col \in 0 .. frame.cols - 1,
         InSquare(Call, row, col)
  PROVE  Blocked(row, col) /\ Inside(row, col)
<1>1. /\ Call.do = "stamp" /\ 1 \in DOMAIN todo /\ todo[1] = Call
      /\ \A k \in DOMAIN todo : k # 1 => k > 1
      /\ StampDue(todo, blocks, 1) /\ StampPlaced(Call)
  BY StampAtHand
<1>2. ~Called(todo, row, col)
  <2>1. ~Over(Call, row, col)
    BY <1>1 DEF Over
  <2>2. \A k \in DOMAIN todo : k > 1 => ~Over(todo[k], row, col)
    BY <1>1 DEF StampDue
  <2> QED BY <1>1, <2>1, <2>2 DEF Called
<1>3. PICK top \in Nat, start \in Nat, size \in Nat, mib \in Nat, y \in Nat, x \in Nat :
        /\ top = Call.row /\ start = Call.col /\ size = Call.size /\ mib = frame.mib
        /\ y = sbRow /\ x = sbCol
        /\ y <= top /\ top + size <= y + mib /\ x <= start /\ start + size <= x + mib
  BY <1>1, FrameTypes DEF StampPlaced, Squares, WalkInv
<1>4. /\ row \in Int /\ col \in Int
      /\ top <= row /\ row < top + size /\ start <= col /\ col < start + size
  <2>1. InRect(row, col, top, start, size, size)
    BY <1>3, Zenon DEF InSquare
  <2> QED BY <2>1 DEF InRect
<1>5. /\ y <= row /\ row < y + mib /\ ~ (row >= y + mib)
      /\ x <= col /\ col < x + mib /\ ~ (col >= x + mib)
  <2>1. /\ \A a, b, c \in Int : a <= b /\ b <= c => a <= c
        /\ \A a, b, c \in Int : a < b /\ b <= c => a < c /\ ~ (a >= c)
        /\ \A a, b \in Int : a + b \in Int
    OBVIOUS
  <2>2. \A a \in Nat : a \in Int
    OBVIOUS
  <2>3. /\ top \in Int /\ start \in Int /\ size \in Int /\ mib \in Int /\ y \in Int /\ x \in Int
    BY <2>2
  <2>4. /\ y <= top /\ top + size <= y + mib /\ x <= start /\ start + size <= x + mib
        /\ top + size \in Int /\ y + mib \in Int /\ start + size \in Int /\ x + mib \in Int
    BY <1>3, <2>1, <2>3, Zenon
  <2>5. y <= row /\ x <= col
    BY <1>4, <2>1, <2>3, <2>4, Zenon
  <2>6. row < y + mib /\ ~ (row >= y + mib)
    BY <1>4, <2>1, <2>4, Zenon
  <2>7. col < x + mib /\ ~ (col >= x + mib)
    BY <1>4, <2>1, <2>4, Zenon
  <2> QED BY <2>5, <2>6, <2>7
<1>6. InRect(row, col, sbRow, sbCol, frame.mib, frame.mib)
  <2>1. InRect(row, col, y, x, mib, mib)
    BY <1>3, <1>4, <1>5 DEF InRect
  <2> QED BY <1>3, <2>1, Zenon
<1>7. tile \in DOMAIN frame.tiles /\ InTile(Tile, row, col)
  <2>1. /\ tile \in DOMAIN frame.tiles
        /\ sbRow \in Nat /\ sbRow % frame.mib = 0 /\ sbRow >= Tile.top /\ sbRow < Tile.bottom
        /\ sbCol \in Nat /\ sbCol % frame.mib = 0 /\ sbCol >= Tile.left /\ sbCol < Tile.right
    BY DEF WalkInv, WalkPlace
  <2>2. Tile.top <= sbRow /\ Tile.left <= sbCol
    <3>1. Tile.top \in Nat /\ Tile.left \in Nat
      BY <2>1, TileTypes
    <3>2. \A a, b \in Nat : b >= a => a <= b
      OBVIOUS
    <3> QED BY <2>1, <3>1, <3>2, Zenon
  <2> QED BY <1>6, <2>1, <2>2, RootCells
<1>8. ~Ahead(row, col)
  <2>1. ~Later(row, col)
    BY <1>7, CellInTile DEF InHand
  <2>2. ~Waits(row, col)
    BY <1>3, <1>5, Zenon DEF Waits
  <2> QED BY <2>1, <2>2 DEF Ahead
<1>9. Owned(row, col)
  BY DEF CellsInv, Walking
<1> QED BY <1>2, <1>7, <1>8, <1>9 DEF Owned, Inside

(* Once the call at hand has returned what is pending is the rest's.       *)
LEMMA PendingTail ==
  ASSUME WalkInv, todo # <<>>, todo' = Tail(todo), NEW row, NEW col,
         Pending(row, col), ~ (Writes(Call) /\ InSquare(Call, row, col))
  PROVE  Pending(row, col)'
<1>1. PICK k \in DOMAIN todo : Writes(todo[k]) /\ InSquare(todo[k], row, col)
  BY DEF Pending
<1>2. k # 1
  BY <1>1, TailShifts DEF WalkInv, Call
<1>3. k - 1 \in DOMAIN Tail(todo) /\ Tail(todo)[k - 1] = todo[k]
  BY <1>2, TailShifts DEF WalkInv
<1>4. PICK l, t : l = k - 1 /\ t = Tail(todo)
  OBVIOUS
<1>5. l \in DOMAIN t /\ Writes(t[l]) /\ InSquare(t[l], row, col) /\ todo' = t
  BY <1>1, <1>3, <1>4
<1>6. l \in DOMAIN todo' /\ Writes(todo'[l]) /\ InSquare(todo'[l], row, col)
  BY <1>5
<1> QED BY <1>6 DEF Pending

(* The rows that a square's stamp stands for, below its last one nothing.  *)
LEMMA LastRowOfSquare ==
  ASSUME WalkInv, CellsInv, StampsDue, NoGaps, Walking, pc = "walk", todo # <<>>, Writes(Call),
         NEW top \in Nat, NEW start \in Nat, NEW size \in Nat, size > 0,
         top = Call.row, start = Call.col, size = Call.size,
         NEW col \in Tile.left .. Tile.right - 1, start <= col, col < start + size
  PROVE  /\ Blocked(Tile.top, col)
         /\ \A row \in Tile.top .. Tile.bottom - 1, i \in DOMAIN blocks :
              Covers(blocks[i], row, col) /\ row + 1 < Tile.bottom /\ ~Blocked(row + 1, col)
                => blocks[i].w = DueWidth(Call)
<1>1. /\ Call.do = "stamp" /\ 1 \in DOMAIN todo /\ todo[1] = Call
      /\ StampDue(todo, blocks, 1) /\ StampPlaced(Call)
  BY StampAtHand
<1>2. tile \in DOMAIN frame.tiles
  BY WalkingTile
<1>3. PICK upper \in Nat, lower \in Nat, rows \in Nat :
        /\ upper = Tile.top /\ lower = Tile.bottom /\ rows = frame.rows /\ lower <= rows
        /\ top < rows
  BY <1>1, <1>2, TileTypes, FrameTypes DEF StampPlaced
<1>4. \A r \in Int : top <= r /\ r < top + size /\ r < rows => Blocked(r, col) /\ Inside(r, col)
  <2> SUFFICES ASSUME NEW r \in Int, top <= r, r < top + size, r < rows
               PROVE  Blocked(r, col) /\ Inside(r, col)
    OBVIOUS
  <2>1. r \in 0 .. rows - 1
    BY <1>3
  <2>2. col \in 0 .. frame.cols - 1 /\ col \in Int
    BY <1>2, TileInFrame
  <2>3. InRect(r, col, top, start, size, size)
    BY <2>2 DEF InRect
  <2>4. InSquare(Call, r, col)
    BY <2>3, Zenon DEF InSquare
  <2> QED BY <1>3, <2>1, <2>2, <2>4, SquareBlocked
<1>5. Blocked(top, col) /\ Inside(top, col)
  <2>1. \A a, k \in Nat : k > 0 => a \in Int /\ a <= a /\ a < a + k
    OBVIOUS
  <2> QED BY <1>3, <1>4, <2>1, Zenon
<1>6. top \in Tile.top .. Tile.bottom - 1 /\ Tile.top \in Tile.top .. Tile.bottom - 1
      /\ Tile.top <= top
  <2>1. top \in upper .. lower - 1
    BY <1>3, <1>5 DEF Inside, InTile
  <2>2. upper \in upper .. lower - 1 /\ upper <= top
    BY <2>1
  <2> QED BY <1>3, <2>1, <2>2, Zenon
<1>7. Blocked(Tile.top, col)
  BY <1>5, <1>6, Zenon DEF NoGaps
<1>8. ASSUME NEW row \in Tile.top .. Tile.bottom - 1, NEW i \in DOMAIN blocks,
             Covers(blocks[i], row, col), row + 1 < Tile.bottom, ~Blocked(row + 1, col)
      PROVE  blocks[i].w = DueWidth(Call)
  <2>1. /\ row \in Int /\ upper <= row /\ row + 1 < lower /\ row \in upper .. lower - 1
        /\ row + 1 \in Tile.top .. Tile.bottom - 1
    <3>1. row \in upper .. lower - 1 /\ row + 1 < lower
      BY <1>3, <1>8, Zenon
    <3>2. row \in Int /\ upper <= row /\ row + 1 \in upper .. lower - 1
      BY <3>1
    <3> QED BY <1>3, <3>1, <3>2, Zenon
  <2>2. ~ (row + 1 <= top)
    BY <1>5, <1>6, <1>8, <2>1 DEF NoGaps
  <2>3. ~ (row >= top + size)
    <3>1. row >= top + size => Below(Call, row, col)
      <4>1. col >= start
        BY <1>2, TileInFrame
      <4> QED BY <4>1, Zenon DEF Below
    <3>2. row \in 0 .. frame.rows - 1 /\ col \in 0 .. frame.cols - 1 /\ Inside(row, col)
      BY <1>2, TileInFrame
    <3> QED BY <1>1, <1>8, <3>1, <3>2 DEF StampDue
  <2>4. ~ (row + 1 < top + size)
    <3>1. /\ \A r \in Int : r + 1 \in Int
          /\ \A a, b \in Int : ~ (b <= a) => a <= b
          /\ \A a, b, c \in Int : a < b /\ b <= c => a < c
      OBVIOUS
    <3>2. lower \in Int /\ rows \in Int /\ top \in Int
      OBVIOUS
    <3>3. row + 1 \in Int
      BY <2>1, <3>1, Zenon
    <3>4. top <= row + 1
      BY <2>2, <3>1, <3>2, <3>3, Zenon
    <3>5. row + 1 < rows
      BY <1>3, <2>1, <3>1, <3>2, <3>3, Zenon
    <3> QED BY <1>4, <1>8, <3>3, <3>4, <3>5, Zenon
  <2>5. row >= top /\ row < top + size /\ row + 1 = top + size
    <3>1. \A r, k, n \in Int : ~ (r + 1 <= k) /\ ~ (r >= k + n) /\ ~ (r + 1 < k + n)
                               => r >= k /\ r < k + n /\ r + 1 = k + n
      OBVIOUS
    <3>2. top \in Int /\ size \in Int
      OBVIOUS
    <3> QED BY <2>1, <2>2, <2>3, <2>4, <3>1, <3>2, Zenon
  <2>6. row \in 0 .. frame.rows - 1 /\ col \in 0 .. frame.cols - 1 /\ col >= start
    BY <1>2, TileInFrame
  <2>7. InSquare(Call, row, col)
    <3>1. InRect(row, col, top, start, size, size)
      BY <2>5, <2>6 DEF InRect
    <3> QED BY <3>1, Zenon DEF InSquare
  <2>8. Due(blocks[i].row, blocks[i].col, blocks[i].h, blocks[i].w, Call)
    BY <1>1, <1>8, <2>6, <2>7 DEF StampDue
  <2>9. blocks[i].row + blocks[i].h >= Call.row + Call.size
    <3>1. blocks[i].row \in Nat /\ blocks[i].h \in Nat
      BY DEF WalkInv, Decodeds
    <3>2. PICK r \in Nat, h \in Nat : r = blocks[i].row /\ h = blocks[i].h
      BY <3>1
    <3>3. row \in r .. r + h - 1
      BY <1>8, <3>2, Zenon DEF Covers
    <3>4. r + h >= top + size
      BY <2>1, <2>5, <3>3
    <3> QED BY <3>2, <3>4, Zenon
  <2> QED BY <2>8, <2>9 DEF Due
<1> QED BY <1>7, <1>8

(* The columns that a square's stamp stands for, right of its last one     *)
(* nothing.                                                                *)
LEMMA LastColOfSquare ==
  ASSUME WalkInv, CellsInv, StampsDue, NoGaps, Walking, pc = "walk", todo # <<>>, Writes(Call),
         NEW top \in Nat, NEW start \in Nat, NEW size \in Nat, size > 0,
         top = Call.row, start = Call.col, size = Call.size,
         NEW row \in Tile.top .. Tile.bottom - 1, top <= row, row < top + size
  PROVE  /\ Blocked(row, Tile.left)
         /\ \A col \in Tile.left .. Tile.right - 1, i \in DOMAIN blocks :
              Covers(blocks[i], row, col) /\ col + 1 < Tile.right /\ ~Blocked(row, col + 1)
                => blocks[i].h = DueHeight(Call)
<1>1. /\ Call.do = "stamp" /\ 1 \in DOMAIN todo /\ todo[1] = Call
      /\ StampDue(todo, blocks, 1) /\ StampPlaced(Call)
  BY StampAtHand
<1>2. tile \in DOMAIN frame.tiles
  BY WalkingTile
<1>3. PICK upper \in Nat, lower \in Nat, cols \in Nat :
        /\ upper = Tile.left /\ lower = Tile.right /\ cols = frame.cols /\ lower <= cols
        /\ start < cols
  BY <1>1, <1>2, TileTypes, FrameTypes DEF StampPlaced
<1>4. \A c \in Int : start <= c /\ c < start + size /\ c < cols =>
        Blocked(row, c) /\ Inside(row, c)
  <2> SUFFICES ASSUME NEW c \in Int, start <= c, c < start + size, c < cols
               PROVE  Blocked(row, c) /\ Inside(row, c)
    OBVIOUS
  <2>1. c \in 0 .. cols - 1
    BY <1>3
  <2>2. row \in 0 .. frame.rows - 1 /\ row \in Int
    BY <1>2, TileInFrame
  <2>3. InRect(row, c, top, start, size, size)
    BY <2>2 DEF InRect
  <2>4. InSquare(Call, row, c)
    BY <2>3, Zenon DEF InSquare
  <2> QED BY <1>3, <2>1, <2>2, <2>4, SquareBlocked
<1>5. Blocked(row, start) /\ Inside(row, start)
  <2>1. \A a, k \in Nat : k > 0 => a \in Int /\ a <= a /\ a < a + k
    OBVIOUS
  <2> QED BY <1>3, <1>4, <2>1, Zenon
<1>6. start \in Tile.left .. Tile.right - 1 /\ Tile.left \in Tile.left .. Tile.right - 1
      /\ Tile.left <= start
  <2>1. start \in upper .. lower - 1
    BY <1>3, <1>5 DEF Inside, InTile
  <2>2. upper \in upper .. lower - 1 /\ upper <= start
    BY <2>1
  <2> QED BY <1>3, <2>1, <2>2, Zenon
<1>7. Blocked(row, Tile.left)
  BY <1>5, <1>6, Zenon DEF NoGaps
<1>8. ASSUME NEW col \in Tile.left .. Tile.right - 1, NEW i \in DOMAIN blocks,
             Covers(blocks[i], row, col), col + 1 < Tile.right, ~Blocked(row, col + 1)
      PROVE  blocks[i].h = DueHeight(Call)
  <2>1. /\ col \in Int /\ upper <= col /\ col + 1 < lower /\ col \in upper .. lower - 1
        /\ col + 1 \in Tile.left .. Tile.right - 1
    <3>1. col \in upper .. lower - 1 /\ col + 1 < lower
      BY <1>3, <1>8, Zenon
    <3>2. col \in Int /\ upper <= col /\ col + 1 \in upper .. lower - 1
      BY <3>1
    <3> QED BY <1>3, <3>1, <3>2, Zenon
  <2>2. ~ (col + 1 <= start)
    BY <1>5, <1>6, <1>8, <2>1 DEF NoGaps
  <2>3. ~ (col >= start + size)
    <3>1. col >= start + size => Beside(Call, row, col)
      <4>1. row >= top
        BY <1>2, TileInFrame
      <4> QED BY <4>1, Zenon DEF Beside
    <3>2. row \in 0 .. frame.rows - 1 /\ col \in 0 .. frame.cols - 1 /\ Inside(row, col)
      BY <1>2, TileInFrame
    <3> QED BY <1>1, <1>8, <3>1, <3>2 DEF StampDue
  <2>4. ~ (col + 1 < start + size)
    <3>1. /\ \A r \in Int : r + 1 \in Int
          /\ \A a, b \in Int : ~ (b <= a) => a <= b
          /\ \A a, b, c \in Int : a < b /\ b <= c => a < c
      OBVIOUS
    <3>2. lower \in Int /\ cols \in Int /\ start \in Int
      OBVIOUS
    <3>3. col + 1 \in Int
      BY <2>1, <3>1, Zenon
    <3>4. start <= col + 1
      BY <2>2, <3>1, <3>2, <3>3, Zenon
    <3>5. col + 1 < cols
      BY <1>3, <2>1, <3>1, <3>2, <3>3, Zenon
    <3> QED BY <1>4, <1>8, <3>3, <3>4, <3>5, Zenon
  <2>5. col >= start /\ col < start + size /\ col + 1 = start + size
    <3>1. \A r, k, n \in Int : ~ (r + 1 <= k) /\ ~ (r >= k + n) /\ ~ (r + 1 < k + n)
                               => r >= k /\ r < k + n /\ r + 1 = k + n
      OBVIOUS
    <3>2. start \in Int /\ size \in Int
      OBVIOUS
    <3> QED BY <2>1, <2>2, <2>3, <2>4, <3>1, <3>2, Zenon
  <2>6. row \in 0 .. frame.rows - 1 /\ col \in 0 .. frame.cols - 1 /\ row >= top
    BY <1>2, TileInFrame
  <2>7. InSquare(Call, row, col)
    <3>1. InRect(row, col, top, start, size, size)
      BY <2>5, <2>6 DEF InRect
    <3> QED BY <3>1, Zenon DEF InSquare
  <2>8. Due(blocks[i].row, blocks[i].col, blocks[i].h, blocks[i].w, Call)
    BY <1>1, <1>8, <2>6, <2>7 DEF StampDue
  <2>9. blocks[i].col + blocks[i].w >= Call.col + Call.size
    <3>1. blocks[i].col \in Nat /\ blocks[i].w \in Nat
      BY DEF WalkInv, Decodeds
    <3>2. PICK r \in Nat, h \in Nat : r = blocks[i].col /\ h = blocks[i].w
      BY <3>1
    <3>3. col \in r .. r + h - 1
      BY <1>8, <3>2, Zenon DEF Covers
    <3>4. r + h >= start + size
      BY <2>1, <2>5, <3>3
    <3> QED BY <3>2, <3>4, Zenon
  <2> QED BY <2>8, <2>9 DEF Due
<1> QED BY <1>7, <1>8

(* What is pending stays so through every step of the walk but a stamp of  *)
(* its square.                                                             *)
LEMMA PendingRead ==
  ASSUME WalkInv, ReadPartition, ~corrupt', NEW row, NEW col, Pending(row, col)
  PROVE  Pending(row, col)'
<1>1. PICK top \in Nat, start \in Nat, size \in Squares :
        \E p \in Partitions(top, start, size), m \in Nat, n \in Nat :
          p \in PartitionTypes /\ ReadAs(top, start, size, p, m, n)
  BY ReadReplaces
<1>2. PICK p \in Partitions(top, start, size), m \in Nat, n \in Nat :
        ReadAs(top, start, size, p, m, n)
  BY <1>1
<1>3. PICK next : next = todo'
  OBVIOUS
<1>4. /\ Call.do = "node" /\ DOMAIN Tail(todo) = 1 .. n /\ DOMAIN next = 1 .. m + 1 + n
      /\ \A k \in 1 .. n : next[m + 1 + k] = Tail(todo)[k]
  BY <1>2, <1>3 DEF ReadAs, Replaced, NodeCall
<1>5. PICK k \in DOMAIN todo : Writes(todo[k]) /\ InSquare(todo[k], row, col)
  BY DEF Pending
<1>6. todo # <<>>
  BY DEF ReadPartition, At
<1>7. k # 1
  BY <1>4, <1>5, <1>6, TailShifts DEF WalkInv, Call, Writes
<1>8. k - 1 \in 1 .. n /\ Tail(todo)[k - 1] = todo[k]
  BY <1>4, <1>6, <1>7, TailShifts DEF WalkInv
<1>9. PICK l \in 1 .. n : Tail(todo)[l] = todo[k]
  BY <1>8
<1>10. m + 1 + l \in DOMAIN next /\ next[m + 1 + l] = todo[k]
  <2>1. m + 1 + l \in 1 .. m + 1 + n
    OBVIOUS
  <2> QED BY <1>4, <1>9, <2>1
<1>11. PICK j : j = m + 1 + l
  OBVIOUS
<1>12. j \in DOMAIN todo' /\ Writes(todo'[j]) /\ InSquare(todo'[j], row, col)
  BY <1>3, <1>5, <1>10, <1>11
<1> QED BY <1>12 DEF Pending

LEMMA PendingKept ==
  ASSUME WalkInv, [Next]_vars, Walking', pc \in {"row", "walk"}, ~StampContext,
         NEW row, NEW col, Pending(row, col)
  PROVE  Pending(row, col)'
<1>1. CASE FireStop \/ Returned \/ UNCHANGED vars \/ StartTile
  <2>1. todo' = todo
    BY <1>1 DEF FireStop, Returned, vars, StartTile
  <2> QED BY <2>1 DEF Pending
<1>2. ~ (CancelAtTile \/ TilesDone \/ CancelAtRow \/ RowsDone \/ GiveUp \/ CorruptBlock)
  BY DEF CancelAtTile, TilesDone, CancelAtRow, RowsDone, GiveUp, EndTile, CorruptBlock, Walking
<1>3. ~ (StartRow \/ NextSuperblock)
  <2>1. todo # <<>>
    BY DEF Pending
  <2> QED BY <2>1 DEF StartRow, NextSuperblock, WalkInv, WalkPlace
<1>4. CASE SkipNode \/ SkipBlock \/ DecodeBlock
  <2>1. todo # <<>> /\ todo' = Tail(todo) /\ (Call.do = "node" \/ Call.do = "block")
    BY <1>4 DEF SkipNode, SkipBlock, DecodeBlock, At
  <2>2. ~Writes(Call)
    BY <2>1 DEF Writes
  <2> QED BY <2>1, <2>2, PendingTail
<1>5. CASE ReadPartition
  BY <1>5, PendingRead DEF Walking
<1> QED BY <1>1, <1>2, <1>3, <1>4, <1>5 DEF Next

(* The contexts change where a tile or a row begins, and at a stamp.       *)
LEMMA ContextsKept ==
  ASSUME [Next]_vars, ~StampContext
  PROVE  /\ ~StartTile => above' = above
         /\ ~StartRow => left' = left
BY DEF Next, FireStop, StartTile, CancelAtTile, TilesDone, StartRow, CancelAtRow, RowsDone,
   NextSuperblock, GiveUp, SkipNode, ReadPartition, SkipBlock, CorruptBlock,
   DecodeBlock, Returned, vars, contextVars

(* A block is decoded while the stamp of its square is still to come.      *)
LEMMA BlockPending ==
  ASSUME WalkInv, StampsDue, Walking, DecodeBlock,
         NEW row \in Int, NEW col \in Int, Over(Call, row, col)
  PROVE  Pending(row, col)'
<1>1. todo # <<>> /\ Call.do = "block" /\ Call \in BlockCalls /\ todo' = Tail(todo)
  BY BlockMade
<1>2. 1 \in DOMAIN todo /\ todo[1] = Call /\ \A k \in DOMAIN todo : k \in Nat \ {0}
  BY <1>1, TailShifts DEF WalkInv, Call
<1>3. Ending(todo[1])
  BY <1>1, <1>2 DEF Ending
<1>4. PICK k \in DOMAIN todo : k > 1 /\ Writes(todo[k])
  BY <1>2, <1>3 DEF StampsDue, DuesMet
<1>5. StampDue(todo, blocks, k)
  BY <1>4 DEF StampsDue, DuesMet
<1>6. PartOfStamp(Call, todo[k]) /\ StampPlaced(todo[k])
  BY <1>1, <1>2, <1>4, <1>5 DEF StampDue
<1>7. InSquare(todo[k], row, col)
  <2>1. PICK y \in Nat, x \in Nat, size \in Nat :
          y = todo[k].row /\ x = todo[k].col /\ size = todo[k].size
    BY <1>6 DEF StampPlaced, Squares
  <2>2. PICK top \in Nat, start \in Nat, h \in Nat, w \in Nat :
          /\ top = Call.row /\ start = Call.col /\ h = Call.h /\ w = Call.w
          /\ h = High(Call) /\ w = Wide(Call)
    BY <1>1 DEF BlockCalls, High, Wide
  <2>3. y <= top /\ top + h <= y + size /\ x <= start /\ start + w <= x + size
    BY <1>6, <2>1, <2>2, Zenon DEF PartOfStamp, Keeps
  <2>4. top <= row /\ row < top + h /\ start <= col /\ col < start + w
    <3>1. Covers(Call, row, col)
      BY <1>1 DEF Over
    <3> QED BY <2>2, <3>1, CoversCell
  <2>5. \A a, b, k1, n, r \in Int : a <= b /\ b + k1 <= a + n /\ b <= r /\ r < b + k1
                                   => r >= a /\ r < a + n
    OBVIOUS
  <2>6. /\ y \in Int /\ x \in Int /\ size \in Int /\ top \in Int /\ start \in Int
        /\ h \in Int /\ w \in Int
    OBVIOUS
  <2>7. InRect(row, col, y, x, size, size)
    <3>1. row >= y /\ row < y + size
      BY <2>3, <2>4, <2>5, <2>6
    <3>2. col >= x /\ col < x + size
      BY <2>3, <2>4, <2>5, <2>6
    <3> QED BY <3>1, <3>2 DEF InRect
  <2> QED BY <2>1, <2>7, Zenon DEF InSquare
<1>8. Pending(row, col)
  BY <1>4, <1>7 DEF Pending
<1> QED BY <1>1, <1>8, PendingTail DEF Writes

LEMMA RoundsUp ==
  ASSUME NEW length \in Nat, NEW mib \in {4, 8, 16, 32}
  PROVE  length <= ((length + mib - 1) \div mib) * mib
<1>1. CASE mib = 4
  BY <1>1
<1>2. CASE mib = 8
  BY <1>2
<1>3. CASE mib = 16
  BY <1>3
<1>4. CASE mib = 32
  BY <1>4
<1> QED BY <1>1, <1>2, <1>3, <1>4

(* The bytes that a tile's start clears are those over its columns.        *)
LEMMA TileZeroed ==
  ASSUME WalkInv, ContextDomains, tile \in DOMAIN frame.tiles,
         NEW col \in Tile.left .. Tile.right - 1
  PROVE  col \in DOMAIN above /\ AboveZeroed[col] = 0
<1>1. PICK from \in Nat, to \in Nat, cols \in Nat, mib \in {4, 8, 16, 32} :
        from = Tile.left /\ to = Tile.right /\ cols = frame.cols /\ mib = frame.mib
          /\ to <= cols /\ from < to
  <2>1. frame.mib \in {4, 8, 16, 32}
    BY WalkAssumption DEF WalkInv, FrameOK
  <2> QED BY <2>1, TileTypes, FrameTypes
<1>2. col \in from .. to - 1
  BY <1>1
<1>3. PICK length \in Nat : length = to - from
  BY <1>1
<1>4. PICK aligned \in Int : aligned = ((length + mib - 1) \div mib) * mib
  OBVIOUS
<1>5. length <= aligned
  BY <1>4, RoundsUp
<1>6. col \in from .. from + aligned - 1
  BY <1>2, <1>3, <1>5
<1>7. AlignedRight = from + aligned
  <2>1. Tile.right - Tile.left = length
    BY <1>1, <1>3
  <2> QED BY <1>1, <1>4, <2>1, Zenon DEF AlignedRight
<1>8. col \in Tile.left .. AlignedRight - 1
  BY <1>1, <1>6, <1>7
<1>9. col \in DOMAIN above
  <2>1. col \in 0 .. cols + mib - 1
    BY <1>1, <1>2
  <2> QED BY <1>1, <2>1 DEF ContextDomains
<1> QED BY <1>8, <1>9 DEF AboveZeroed

(* A column of the contexts above, after a step that leaves its byte, what *)
(* is pending and the blocks.                                              *)
LEMMA AboveKeeps ==
  ASSUME NEW col, AboveAt(col), Tile' = Tile, above'[col] = above[col], blocks' = blocks,
         \A row \in Tile.top .. Tile.bottom - 1 : Pending(row, col) => Pending(row, col)'
  PROVE  AboveAt(col)'
<1>1. \A row, c : Blocked(row, c)' <=> Blocked(row, c)
  BY DEF Blocked
<1> QED BY <1>1 DEF AboveAt

(* ... or appends a block, whose own stamp is pending.                     *)
LEMMA AboveDecodes ==
  ASSUME WalkInv, StampsDue, Walking, DecodeBlock, NEW col \in Int, AboveAt(col),
         Tile' = Tile, above' = above, Tile.top \in Int,
         \A row \in Tile.top .. Tile.bottom - 1 : Pending(row, col) => Pending(row, col)'
  PROVE  AboveAt(col)'
<1>1. PICK b \in Decodeds, n \in Nat :
        /\ Made(b) /\ DOMAIN blocks = 1 .. n /\ DOMAIN blocks' = 1 .. n + 1
        /\ \A k \in 1 .. n : blocks'[k] = blocks[k]
        /\ blocks'[n + 1] = b
  BY BlockMade
<1>2. \A row, c : Blocked(row, c)' <=> Blocked(row, c) \/ Over(Call, row, c)
  BY BlockAdds
<1>3. ~Blocked(Tile.top, col)' => above'[col] = 0
  BY <1>2 DEF AboveAt
<1>4. ASSUME NEW row \in Tile.top .. Tile.bottom - 1, NEW i \in 1 .. n + 1,
             Covers(blocks'[i], row, col), ~Pending(row, col)',
             row + 1 < Tile.bottom, ~Blocked(row + 1, col)'
      PROVE  above'[col] = ContextByte(blocks'[i].w)
  <2>1. i # n + 1
    <3> SUFFICES ASSUME i = n + 1 PROVE FALSE
      OBVIOUS
    <3>1. Covers(b, row, col)
      BY <1>1, <1>4
    <3>2. Call.do = "block"
      BY BlockMade
    <3>3. Over(Call, row, col)
      BY <1>1, <3>1, <3>2 DEF Made, Covers, Over
    <3> QED BY <1>4, <3>3, BlockPending
  <2>2. i \in 1 .. n
    BY <2>1
  <2>3. Covers(blocks[i], row, col) /\ ~Pending(row, col) /\ ~Blocked(row + 1, col)
    BY <1>1, <1>2, <1>4, <2>2
  <2>4. above[col] = ContextByte(blocks[i].w)
    BY <1>1, <1>4, <2>2, <2>3 DEF AboveAt
  <2> QED BY <1>1, <2>2, <2>4
<1>5. \A row \in Tile.top .. Tile.bottom - 1, i \in DOMAIN blocks' :
        Covers(blocks'[i], row, col) /\ ~Pending(row, col)'
          /\ row + 1 < Tile.bottom /\ ~Blocked(row + 1, col)'
            => above'[col] = ContextByte(blocks'[i].w)
  BY <1>1, <1>4
<1> QED BY <1>3, <1>5 DEF AboveAt, Blocked

(* A stamp that writes nothing leaves the contexts as they are.            *)
LEMMA StampsNothing ==
  ASSUME WalkInv, StampContext, ~Writes(Call)
  PROVE  /\ \A x \in DOMAIN above : above'[x] = above[x]
         /\ \A y \in DOMAIN left : left'[y] = left[y]
<1>1. Call.do = "stamp" /\ Call \in StampCalls
  <2>1. Call \in AnyCall /\ Call.do = "stamp"
    BY DEF StampContext, At, WalkInv, Call
  <2> QED BY <2>1 DEF AnyCall, NodeCalls, BlockCalls
<1>2. PICK row, col, size, p : row = Call.row /\ col = Call.col /\ size = Call.size /\ p = Call.part
  OBVIOUS
<1>3. PICK stamps : stamps = IF size > 1 THEN Stamps(row, col, size, p) ELSE <<>>
  OBVIOUS
<1>4. above' = StampedAbove(stamps) /\ left' = StampedLeft(stamps)
  BY <1>2, <1>3 DEF StampContext
<1>5. stamps = <<>>
  <2>1. CASE size > 1
    <3>1. p = "SPLIT" /\ size # 2
      BY <1>1, <1>2, <2>1 DEF Writes
    <3>2. Stamps(row, col, size, p) = <<>>
      BY <3>1 DEF Stamps
    <3> QED BY <1>3, <2>1, <3>2
  <2> QED BY <1>3, <2>1
<1> QED BY <1>4, <1>5, NoStamps

(* A stamp that writes.                                                    *)
LEMMA StampAt ==
  ASSUME WalkInv, StampsDue, Walking, StampContext, Writes(Call)
  PROVE  \E row \in Nat, col \in Nat, size \in Squares, p \in PartitionTypes :
           /\ row = Call.row /\ col = Call.col /\ size = Call.size /\ p = Call.part
           /\ size # 1 /\ (p = "SPLIT" => size = 2)
           /\ sbRow <= row /\ row + size <= sbRow + frame.mib
           /\ above' = StampedAbove(Stamps(row, col, size, p))
           /\ left' = StampedLeft(Stamps(row, col, size, p))
<1>1. todo # <<>> /\ StampPlaced(Call)
  <2>1. todo # <<>>
    BY DEF StampContext, At
  <2> QED BY <2>1, StampAtHand
<1>2. PICK row \in Nat, col \in Nat, size \in Squares, p \in PartitionTypes :
        row = Call.row /\ col = Call.col /\ size = Call.size /\ p = Call.part
  BY <1>1 DEF StampPlaced
<1>3. size > 1 /\ size # 1 /\ (p = "SPLIT" => size = 2)
  <2>1. size > 1 /\ (p = "SPLIT" => size = 2)
    BY <1>2 DEF Writes
  <2> QED BY <2>1 DEF Squares
<1>4. sbRow <= row /\ row + size <= sbRow + frame.mib
  BY <1>1, <1>2 DEF StampPlaced
<1>5. /\ above' = StampedAbove(Stamps(row, col, size, p))
      /\ left' = StampedLeft(Stamps(row, col, size, p))
  BY <1>2, <1>3 DEF StampContext
<1> QED BY <1>2, <1>3, <1>4, <1>5

(* What is pending, after a stamp, outside the square stamped.             *)
LEMMA PendingStamped ==
  ASSUME WalkInv, StampContext, NEW row, NEW col, Pending(row, col),
         ~ (Writes(Call) /\ InSquare(Call, row, col))
  PROVE  Pending(row, col)'
BY PendingTail DEF StampContext, At

LEMMA AboveStamps ==
  ASSUME WalkInv, CellsInv, StampsDue, NoGaps, ContextDomains, Walking, StampContext,
         NEW col \in Tile.left .. Tile.right - 1, AboveAt(col)
  PROVE  AboveAt(col)'
<1>1. /\ todo # <<>> /\ pc = "walk" /\ Tile' = Tile /\ blocks' = blocks
      /\ tile \in DOMAIN frame.tiles
  BY WalkingTile DEF StampContext, At, tileVars, blockVars, Tile
<1>2. col \in DOMAIN above /\ col \in Nat
  <2>1. col \in DOMAIN above
    BY <1>1, TileZeroed
  <2>2. PICK n \in Int : DOMAIN above = 0 .. n
    <3>1. frame.cols + frame.mib - 1 \in Int
      BY FrameTypes
    <3> QED BY <3>1 DEF ContextDomains
  <2> QED BY <2>1, <2>2
<1>3. CASE ~Writes(Call)
  <2>1. above'[col] = above[col]
    BY <1>2, <1>3, StampsNothing
  <2>2. \A row \in Tile.top .. Tile.bottom - 1 : Pending(row, col) => Pending(row, col)'
    BY <1>3, PendingStamped
  <2> QED BY <1>1, <2>1, <2>2, AboveKeeps
<1>4. CASE Writes(Call)
  <2>1. PICK row \in Nat, start \in Nat, size \in Squares, p \in PartitionTypes :
          /\ row = Call.row /\ start = Call.col /\ size = Call.size /\ p = Call.part
          /\ size # 1 /\ (p = "SPLIT" => size = 2)
          /\ above' = StampedAbove(Stamps(row, start, size, p))
    BY <1>4, StampAt
  <2>2. StampedAbove(Stamps(row, start, size, p))[col] =
          IF start <= col /\ col < start + size THEN ContextByte(DueWidth(Call)) ELSE above[col]
    BY <1>2, <2>1, StampsAbove
  <2>3. CASE ~ (start <= col /\ col < start + size)
    <3>1. above'[col] = above[col]
      BY <2>1, <2>2, <2>3
    <3>2. \A r : ~InSquare(Call, r, col)
      <4>1. col >= start <=> start <= col
        BY <1>2
      <4> QED BY <2>1, <2>3, <4>1, Zenon DEF InSquare, InRect
    <3>3. \A r \in Tile.top .. Tile.bottom - 1 : Pending(r, col) => Pending(r, col)'
      BY <3>2, PendingStamped
    <3> QED BY <1>1, <3>1, <3>3, AboveKeeps
  <2>4. CASE start <= col /\ col < start + size
    <3>1. above'[col] = ContextByte(DueWidth(Call))
      BY <2>1, <2>2, <2>4
    <3>2. size \in Nat /\ size > 0
      BY <2>1 DEF Squares
    <3>3. /\ Blocked(Tile.top, col)
          /\ \A r \in Tile.top .. Tile.bottom - 1, i \in DOMAIN blocks :
               Covers(blocks[i], r, col) /\ r + 1 < Tile.bottom /\ ~Blocked(r + 1, col)
                 => blocks[i].w = DueWidth(Call)
      BY <1>1, <1>4, <2>1, <2>4, <3>2, LastRowOfSquare
    <3>4. \A r, c : Blocked(r, c)' <=> Blocked(r, c)
      BY <1>1 DEF Blocked
    <3> QED BY <1>1, <3>1, <3>3, <3>4 DEF AboveAt
  <2> QED BY <2>3, <2>4
<1> QED BY <1>3, <1>4

LEMMA AboveStep ==
  ASSUME WalkInv, CellsInv, StampsDue, NoGaps, ContextDomains, AboveInv, [Next]_vars
  PROVE  AboveInv'
<1> SUFFICES ASSUME Walking' PROVE AboveInv'
  BY DEF AboveInv
<1>1. CASE StartTile
  <2>1. ~corrupt' /\ ~cancelled'
    BY DEF Walking
  <2>2. /\ UNCHANGED <<frame, tile, blocks>> /\ tile \in DOMAIN frame.tiles
        /\ above' = AboveZeroed
        /\ \A row \in Tile.top .. Tile.bottom - 1, col \in Tile.left .. Tile.right - 1 :
             ~Blocked(row, col)
    BY <1>1, <2>1, TileBegins
  <2>3. Tile' = Tile /\ \A r, c : Blocked(r, c)' <=> Blocked(r, c)
    BY <2>2 DEF Tile, Blocked
  <2>4. ASSUME NEW col \in Tile.left .. Tile.right - 1 PROVE AboveAt(col)'
    <3>1. above'[col] = 0
      BY <2>2, TileZeroed
    <3>2. \A row \in Tile.top .. Tile.bottom - 1, i \in DOMAIN blocks :
            ~Covers(blocks[i], row, col)
      BY <2>2 DEF Blocked
    <3> QED BY <2>2, <2>3, <3>1, <3>2 DEF AboveAt
  <2> QED BY <2>3, <2>4 DEF AboveInv
<1>2. CASE ~StartTile
  <2>1. /\ Walking /\ UNCHANGED <<frame, tile, corrupt, cancelled>>
        /\ blocks' = blocks \/ DecodeBlock
    BY <1>2, WalkingOn
  <2>2. Tile' = Tile /\ tile \in DOMAIN frame.tiles
    BY <2>1, WalkingTile DEF Tile
  <2>3. ASSUME NEW col \in Tile.left .. Tile.right - 1 PROVE AboveAt(col)'
    <3>1. AboveAt(col)
      BY <2>1 DEF AboveInv
    <3>2. CASE StampContext
      BY <2>1, <3>1, <3>2, AboveStamps
    <3>3. CASE ~StampContext
      <4>1. above' = above
        BY <1>2, <3>3, ContextsKept
      <4>2. \A row \in Tile.top .. Tile.bottom - 1 : Pending(row, col) => Pending(row, col)'
        BY <2>1, <3>3, PendingKept DEF Walking
      <4>3. CASE blocks' = blocks
        BY <2>2, <3>1, <4>1, <4>2, <4>3, AboveKeeps
      <4>4. CASE DecodeBlock
        <5>1. col \in Int /\ Tile.top \in Int
          BY <2>2, TileTypes
        <5> QED BY <2>1, <2>2, <3>1, <4>1, <4>2, <4>4, <5>1, AboveDecodes
      <4> QED BY <2>1, <4>3, <4>4
    <3> QED BY <3>2, <3>3
  <2> QED BY <2>2, <2>3 DEF AboveInv
<1> QED BY <1>1, <1>2

(* The rows of the superblock at hand are rows of the tile.                *)
LEMMA RowsOfTile ==
  ASSUME WalkInv, tile \in DOMAIN frame.tiles, sbRow >= Tile.top
  PROVE  RowsAtHand \subseteq Tile.top .. Tile.bottom - 1
<1>1. PICK from \in Nat, to \in Nat, mib \in Nat, upper \in Nat :
        from = Tile.top /\ to = Tile.bottom /\ mib = frame.mib /\ upper = sbRow /\ upper >= from
  BY TileTypes, FrameTypes DEF WalkInv
<1>2. ASSUME NEW row \in upper .. upper + mib - 1, row < to PROVE row \in from .. to - 1
  BY <1>1, <1>2
<1> QED BY <1>1, <1>2, Zenon DEF RowsAtHand

LEMMA SlotInLeft ==
  ASSUME WalkInv, ContextDomains, NEW row \in Nat
  PROVE  LeftSlot(row) \in DOMAIN left
<1>1. ASSUME NEW unit \in {4, 8, 16} PROVE row % (2 * unit) \in 0 .. 2 * unit - 1
  <2>1. CASE unit = 4
    BY <2>1
  <2>2. CASE unit = 8
    BY <2>2
  <2>3. CASE unit = 16
    BY <2>3
  <2> QED BY <1>1, <2>1, <2>2, <2>3
<1>2. UnitMi \in {4, 8, 16}
  BY WalkAssumption
<1> QED BY <1>1, <1>2 DEF LeftSlot, LargestMi, ContextDomains

(* A row of the contexts to the left, after a step that leaves its byte,   *)
(* what is pending and the blocks, or appends a block.                     *)
LEMMA LeftKeeps ==
  ASSUME NEW row, LeftAt(row), Tile' = Tile, left'[LeftSlot(row)] = left[LeftSlot(row)],
         blocks' = blocks,
         \A col \in Tile.left .. Tile.right - 1 : Pending(row, col) => Pending(row, col)'
  PROVE  LeftAt(row)'
<1>1. \A r, c : Blocked(r, c)' <=> Blocked(r, c)
  BY DEF Blocked
<1>2. LeftSlot(row)' = LeftSlot(row)
  BY DEF LeftSlot
<1> QED BY <1>1, <1>2 DEF LeftAt

LEMMA LeftDecodes ==
  ASSUME WalkInv, StampsDue, Walking, DecodeBlock, NEW row \in Int, LeftAt(row),
         Tile' = Tile, left' = left, Tile.left \in Int,
         \A col \in Tile.left .. Tile.right - 1 : Pending(row, col) => Pending(row, col)'
  PROVE  LeftAt(row)'
<1>1. PICK b \in Decodeds, n \in Nat :
        /\ Made(b) /\ DOMAIN blocks = 1 .. n /\ DOMAIN blocks' = 1 .. n + 1
        /\ \A k \in 1 .. n : blocks'[k] = blocks[k]
        /\ blocks'[n + 1] = b
  BY BlockMade
<1>2. \A r, c : Blocked(r, c)' <=> Blocked(r, c) \/ Over(Call, r, c)
  BY BlockAdds
<1>3. ~Blocked(row, Tile.left)' => left'[LeftSlot(row)] = 0
  BY <1>2 DEF LeftAt
<1>4. ASSUME NEW col \in Tile.left .. Tile.right - 1, NEW i \in 1 .. n + 1,
             Covers(blocks'[i], row, col), ~Pending(row, col)',
             col + 1 < Tile.right, ~Blocked(row, col + 1)'
      PROVE  left'[LeftSlot(row)] = ContextByte(blocks'[i].h)
  <2>1. i # n + 1
    <3> SUFFICES ASSUME i = n + 1 PROVE FALSE
      OBVIOUS
    <3>1. Covers(b, row, col)
      BY <1>1, <1>4
    <3>2. Call.do = "block"
      BY BlockMade
    <3>3. Over(Call, row, col)
      BY <1>1, <3>1, <3>2 DEF Made, Covers, Over
    <3> QED BY <1>4, <3>3, BlockPending
  <2>2. i \in 1 .. n
    BY <2>1
  <2>3. Covers(blocks[i], row, col) /\ ~Pending(row, col) /\ ~Blocked(row, col + 1)
    BY <1>1, <1>2, <1>4, <2>2
  <2>4. left[LeftSlot(row)] = ContextByte(blocks[i].h)
    BY <1>1, <1>4, <2>2, <2>3 DEF LeftAt
  <2> QED BY <1>1, <2>2, <2>4
<1>5. \A col \in Tile.left .. Tile.right - 1, i \in DOMAIN blocks' :
        Covers(blocks'[i], row, col) /\ ~Pending(row, col)'
          /\ col + 1 < Tile.right /\ ~Blocked(row, col + 1)'
            => left'[LeftSlot(row)] = ContextByte(blocks'[i].h)
  BY <1>1, <1>4
<1>6. LeftSlot(row)' = LeftSlot(row)
  BY DEF LeftSlot
<1> QED BY <1>3, <1>5, <1>6 DEF LeftAt, Blocked

LEMMA LeftStamps ==
  ASSUME WalkInv, CellsInv, StampsDue, NoGaps, ContextDomains, Walking, StampContext,
         NEW row \in RowsAtHand, LeftAt(row)
  PROVE  LeftAt(row)'
<1>1. /\ todo # <<>> /\ pc = "walk" /\ Tile' = Tile /\ blocks' = blocks
      /\ tile \in DOMAIN frame.tiles /\ LeftSlot(row)' = LeftSlot(row)
  BY WalkingTile DEF StampContext, At, tileVars, blockVars, Tile, LeftSlot
<1>2. row \in Tile.top .. Tile.bottom - 1
  BY <1>1, RowsOfTile DEF WalkInv, WalkPlace
<1>3. row \in Nat /\ sbRow <= row /\ row < sbRow + frame.mib
  <2>1. PICK upper \in Nat, mib \in Nat : upper = sbRow /\ mib = frame.mib
    BY FrameTypes DEF WalkInv
  <2>2. row \in upper .. upper + mib - 1
    BY <2>1 DEF RowsAtHand
  <2>3. row \in Nat /\ upper <= row /\ row < upper + mib
    BY <2>2
  <2> QED BY <2>1, <2>3
<1>4. LeftSlot(row) \in DOMAIN left
  BY <1>3, SlotInLeft
<1>5. CASE ~Writes(Call)
  <2>1. left'[LeftSlot(row)] = left[LeftSlot(row)]
    BY <1>4, <1>5, StampsNothing
  <2>2. \A col \in Tile.left .. Tile.right - 1 : Pending(row, col) => Pending(row, col)'
    BY <1>5, PendingStamped
  <2> QED BY <1>1, <2>1, <2>2, LeftKeeps
<1>6. CASE Writes(Call)
  <2>1. PICK top \in Nat, start \in Nat, size \in Squares, p \in PartitionTypes :
          /\ top = Call.row /\ start = Call.col /\ size = Call.size /\ p = Call.part
          /\ size # 1 /\ (p = "SPLIT" => size = 2)
          /\ sbRow <= top /\ top + size <= sbRow + frame.mib
          /\ left' = StampedLeft(Stamps(top, start, size, p))
    BY <1>6, StampAt
  <2>2. StampedLeft(Stamps(top, start, size, p))[LeftSlot(row)] =
          IF top <= row /\ row < top + size THEN ContextByte(DueHeight(Call))
                                            ELSE left[LeftSlot(row)]
    <3>1. DOMAIN left = 0 .. LargestMi - 1
      BY DEF ContextDomains
    <3> QED BY <1>1, <1>3, <2>1, <3>1, StampsLeft
  <2>3. CASE ~ (top <= row /\ row < top + size)
    <3>1. left'[LeftSlot(row)] = left[LeftSlot(row)]
      BY <2>1, <2>2, <2>3
    <3>2. \A c : ~InSquare(Call, row, c)
      <4>1. row >= top <=> top <= row
        BY <1>3
      <4> QED BY <2>1, <2>3, <4>1, Zenon DEF InSquare, InRect
    <3>3. \A c \in Tile.left .. Tile.right - 1 : Pending(row, c) => Pending(row, c)'
      BY <3>2, PendingStamped
    <3> QED BY <1>1, <3>1, <3>3, LeftKeeps
  <2>4. CASE top <= row /\ row < top + size
    <3>1. left'[LeftSlot(row)] = ContextByte(DueHeight(Call))
      BY <2>1, <2>2, <2>4
    <3>2. size \in Nat /\ size > 0
      BY <2>1 DEF Squares
    <3>3. /\ Blocked(row, Tile.left)
          /\ \A c \in Tile.left .. Tile.right - 1, i \in DOMAIN blocks :
               Covers(blocks[i], row, c) /\ c + 1 < Tile.right /\ ~Blocked(row, c + 1)
                 => blocks[i].h = DueHeight(Call)
      BY <1>1, <1>2, <1>6, <2>1, <2>4, <3>2, LastColOfSquare
    <3>4. \A r, c : Blocked(r, c)' <=> Blocked(r, c)
      BY <1>1 DEF Blocked
    <3> QED BY <1>1, <3>1, <3>3, <3>4 DEF LeftAt
  <2> QED BY <2>3, <2>4
<1> QED BY <1>5, <1>6

(* A row of superblocks that begins has none of its cells decoded.         *)
LEMMA RowBegins ==
  ASSUME WalkInv, CellsInv, ContextDomains, StartRow, Walking, NEW row \in RowsAtHand
  PROVE  LeftAt(row)'
<1>1. /\ UNCHANGED <<frame, tile, sbRow, blocks>> /\ left' = LeftZeroed /\ pc = "row"
      /\ tile \in DOMAIN frame.tiles /\ sbRow >= Tile.top /\ ~corrupt /\ ~cancelled
  BY DEF StartRow, blockVars, WalkInv, WalkPlace, Walking
<1>2. row \in Tile.top .. Tile.bottom - 1
  BY <1>1, RowsOfTile
<1>3. row \in Nat /\ row >= sbRow
  <2>1. PICK upper \in Nat, mib \in Nat : upper = sbRow /\ mib = frame.mib
    BY FrameTypes DEF WalkInv
  <2>2. row \in upper .. upper + mib - 1
    BY <2>1 DEF RowsAtHand
  <2>3. row \in Nat /\ row >= upper
    BY <2>2
  <2> QED BY <2>1, <2>3
<1>4. ASSUME NEW col \in Tile.left .. Tile.right - 1 PROVE ~Blocked(row, col)
  <2>1. row \in 0 .. frame.rows - 1 /\ col \in 0 .. frame.cols - 1 /\ Inside(row, col)
    BY <1>1, <1>2, TileInFrame
  <2>2. Waits(row, col)
    BY <1>1, <1>3 DEF Waits
  <2> QED BY <1>1, <2>1, <2>2, WaitsUnblocked
<1>5. left'[LeftSlot(row)] = 0
  BY <1>1, <1>3, SlotInLeft DEF LeftZeroed
<1>6. Tile' = Tile /\ LeftSlot(row)' = LeftSlot(row)
  BY <1>1 DEF Tile, LeftSlot
<1>7. \A col \in Tile.left .. Tile.right - 1, i \in DOMAIN blocks : ~Covers(blocks[i], row, col)
  BY <1>4 DEF Blocked
<1> QED BY <1>1, <1>5, <1>6, <1>7 DEF LeftAt

LEMMA LeftStep ==
  ASSUME WalkInv, CellsInv, StampsDue, NoGaps, ContextDomains, LeftInv, [Next]_vars
  PROVE  LeftInv'
<1> SUFFICES ASSUME Walking', pc' = "walk" PROVE LeftInv'
  BY DEF LeftInv
<1>1. ~StartTile
  BY DEF StartTile
<1>2. /\ Walking /\ UNCHANGED <<frame, tile, corrupt, cancelled>>
      /\ blocks' = blocks \/ DecodeBlock
  BY <1>1, WalkingOn
<1>3. sbRow' = sbRow /\ (pc = "walk" \/ StartRow)
  BY <1>1, <1>2 DEF Next, FireStop, StartTile, CancelAtTile, TilesDone, StartRow, CancelAtRow,
     RowsDone, NextSuperblock, GiveUp, EndTile, SkipNode, ReadPartition, SkipBlock, CorruptBlock,
     DecodeBlock, StampContext, At, Returned, vars, tileVars
<1>4. Tile' = Tile /\ tile \in DOMAIN frame.tiles /\ RowsAtHand' = RowsAtHand
  BY <1>2, <1>3, WalkingTile DEF Tile, RowsAtHand
<1>5. ASSUME NEW row \in RowsAtHand PROVE LeftAt(row)'
  <2>1. CASE StartRow
    BY <1>2, <1>5, <2>1, RowBegins
  <2>2. CASE ~StartRow
    <3>1. pc = "walk" /\ LeftAt(row)
      BY <1>2, <1>3, <1>5, <2>2 DEF LeftInv
    <3>2. CASE StampContext
      BY <1>2, <1>5, <3>1, <3>2, LeftStamps
    <3>3. CASE ~StampContext
      <4>1. left' = left
        BY <2>2, <3>3, ContextsKept
      <4>2. \A col \in Tile.left .. Tile.right - 1 : Pending(row, col) => Pending(row, col)'
        BY <3>1, <3>3, PendingKept
      <4>3. CASE blocks' = blocks
        BY <1>4, <3>1, <4>1, <4>2, <4>3, LeftKeeps
      <4>4. CASE DecodeBlock
        <5>1. row \in Int /\ Tile.left \in Int
          <6>1. row \in Tile.top .. Tile.bottom - 1
            BY <1>4, <1>5, <3>1, RowsOfTile DEF WalkInv, WalkPlace
          <6> QED BY <1>4, <6>1, TileTypes
        <5> QED BY <1>2, <1>4, <3>1, <4>1, <4>2, <4>4, <5>1, LeftDecodes
      <4> QED BY <1>2, <4>3, <4>4
    <3> QED BY <3>2, <3>3
  <2> QED BY <2>1, <2>2
<1> QED BY <1>4, <1>5 DEF LeftInv

(* A square about to be read: the cells above it and to its left are       *)
(* decoded if they are in the tile, its own are not, and no stamp is due.  *)
NodeReads(row, col, size) ==
  /\ size # 1 /\ size <= LargestMi
  /\ row \in Tile.top .. Tile.bottom - 1 /\ col \in Tile.left .. Tile.right - 1
  /\ row \in RowsAtHand
  /\ ~Blocked(row, col)
  /\ row > Tile.top => Blocked(row - 1, col)
  /\ col > Tile.left => Blocked(row, col - 1)

LEMMA NodeAtHand ==
  ASSUME WalkInv, CellsInv, OrderInv, BlocksLie, CancelInv, StampsDue,
         At("node"), ~corrupt, ~OutOfFrame, Call.size > 1
  PROVE  /\ Walking /\ pc = "walk" /\ \A r, c : ~Pending(r, c)
         /\ \E row \in Nat, col \in Nat, size \in Squares :
              row = Call.row /\ col = Call.col /\ size = Call.size /\ NodeReads(row, col, size)
<1>1. /\ pc = "walk" /\ todo # <<>> /\ Call.do = "node" /\ Call.do # "stamp"
      /\ ~corrupt /\ ~cancelled
  BY DEF At, CancelInv
<1>2. PICK row \in Nat, col \in Nat, size \in Squares :
        row = Call.row /\ col = Call.col /\ size = Call.size
  <2>1. Call \in AnyCall
    BY <1>1, CallPlace
  <2>2. Call \in NodeCalls
    BY <1>1, <2>1 DEF AnyCall, StampCalls, BlockCalls
  <2> QED BY <2>2 DEF NodeCalls
<1>3. size # 1 /\ size > 1 /\ size \in Nat /\ High(Call) = size /\ Wide(Call) = size
  BY <1>1, <1>2 DEF High, Wide, Squares
<1>4. Walking /\ DuesMet(todo, blocks)
  BY <1>1 DEF Walking, StampsDue
<1>5. \A r, c : ~Pending(r, c)
  <2>1. 1 \in DOMAIN todo /\ todo[1] = Call /\ \A k \in DOMAIN todo : k \in Nat \ {0}
    BY <1>1, TailShifts DEF WalkInv, Call
  <2>2. \A k \in DOMAIN todo : ~Writes(todo[k])
    BY <1>1, <1>2, <1>3, <1>4, <2>1, NoneDue
  <2> QED BY <2>2 DEF Pending
<1>6. PICK rows \in Nat, cols \in Nat, mib \in Nat, upper \in Nat, leftmost \in Nat,
           sr \in Nat, sc \in Nat :
        /\ rows = frame.rows /\ cols = frame.cols /\ mib = frame.mib
        /\ upper = Tile.top /\ leftmost = Tile.left /\ sr = sbRow /\ sc = sbCol
        /\ sr >= upper /\ sc >= leftmost /\ tile \in DOMAIN frame.tiles
  BY <1>1, FrameTypes, TileTypes DEF WalkInv, WalkPlace
<1>7. row < rows /\ col < cols
  BY <1>2, <1>6 DEF OutOfFrame
<1>8. row \in 0 .. frame.rows - 1 /\ col \in 0 .. frame.cols - 1
  BY <1>6, <1>7
<1>9. sr <= row /\ row + size <= sr + mib /\ sc <= col /\ col + size <= sc + mib
  BY <1>1, <1>2, <1>3, <1>6, CallKept DEF Keeps
<1>10. InRect(row, col, sr, sc, mib, mib) /\ row \in sr .. sr + mib - 1 /\ size <= mib
  BY <1>3, <1>9 DEF InRect
<1>11. Inside(row, col)
  BY <1>1, <1>6, <1>8, <1>10, CallKept DEF Inside
<1>12. row \in Tile.top .. Tile.bottom - 1 /\ col \in Tile.left .. Tile.right - 1
  BY <1>11 DEF Inside, InTile
<1>13. row \in RowsAtHand
  <2>1. row < Tile.bottom
    <3>1. Tile.bottom \in Nat /\ Tile.top \in Nat
      BY <1>6, TileTypes
    <3> QED BY <1>12, <3>1
  <2> QED BY <1>6, <1>10, <2>1 DEF RowsAtHand
<1>14. size <= LargestMi
  <2>1. mib <= LargestMi /\ LargestMi \in Nat
    <3>1. PICK unit \in {4, 8, 16} : unit = UnitMi
      BY WalkAssumption
    <3>2. mib \in {unit, 2 * unit}
      BY <1>6, <3>1, WalkAssumption DEF WalkInv, FrameOK
    <3>3. mib <= 2 * unit /\ 2 * unit \in Nat
      BY <3>2
    <3> QED BY <3>1, <3>3 DEF LargestMi
  <2> QED BY <1>3, <1>10, <2>1
<1>15. \A r \in Int, c \in Int :
         Over(Call, r, c) <=> row <= r /\ r < row + size /\ col <= c /\ c < col + size
  <2>1. \A r \in Int, c \in Int :
          Over(Call, r, c) <=> r \in row .. row + size - 1 /\ c \in col .. col + size - 1
    BY <1>1, <1>2, Zenon DEF Over
  <2>2. \A x, k \in Int : \A n \in Nat : x \in k .. k + n - 1 <=> k <= x /\ x < k + n
    OBVIOUS
  <2>3. row \in Int /\ col \in Int /\ size \in Nat
    BY <1>3
  <2> QED BY <2>1, <2>2, <2>3, Zenon
<1>16. ~Blocked(row, col)
  <2>1. Over(Call, row, col)
    <3>1. row \in Int /\ col \in Int /\ row <= row /\ row < row + size /\ col <= col
            /\ col < col + size
      BY <1>3
    <3> QED BY <1>15, <3>1
  <2> QED BY <1>1, <1>8, <2>1, CallUnblocked
<1>17. ASSUME row > Tile.top PROVE Blocked(row - 1, col)
  <2>1. row - 1 \in Tile.top .. Tile.bottom - 1
    <3>1. Tile.bottom \in Nat /\ Tile.top \in Nat
      BY <1>6, TileTypes
    <3> QED BY <1>12, <1>17, <3>1
  <2>2. row - 1 \in 0 .. frame.rows - 1 /\ Inside(row - 1, col)
    BY <1>6, <1>12, <2>1, TileInFrame
  <2>3. row - 1 \in Int /\ col \in Int /\ ~ (row <= row - 1) /\ row - 1 < row + size
          /\ col < col + size
    BY <1>3
  <2>4. ~Over(Call, row - 1, col)
    BY <1>15, <2>3
  <2> QED BY <1>1, <1>2, <1>3, <1>8, <2>2, <2>3, <2>4, BlockedBefore
<1>18. ASSUME col > Tile.left PROVE Blocked(row, col - 1)
  <2>1. col - 1 \in Tile.left .. Tile.right - 1
    <3>1. Tile.right \in Nat /\ Tile.left \in Nat
      BY <1>6, TileTypes
    <3> QED BY <1>12, <1>18, <3>1
  <2>2. col - 1 \in 0 .. frame.cols - 1 /\ Inside(row, col - 1)
    BY <1>6, <1>12, <2>1, TileInFrame
  <2>3. col - 1 \in Int /\ row \in Int /\ ~ (col <= col - 1) /\ col - 1 < col + size
          /\ row < row + size
    BY <1>3
  <2>4. ~Over(Call, row, col - 1)
    BY <1>15, <2>3
  <2> QED BY <1>1, <1>2, <1>3, <1>8, <2>2, <2>3, <2>4, BlockedBefore
<1>19. NodeReads(row, col, size)
  BY <1>3, <1>12, <1>13, <1>14, <1>16, <1>17, <1>18 DEF NodeReads
<1> QED BY <1>1, <1>2, <1>4, <1>5, <1>19

LEMMA BlockOverIs ==
  ASSUME WalkInv, BlocksLie, StrengthInv, NEW row, NEW col, Blocked(row, col)
  PROVE  \E i \in DOMAIN blocks :
           /\ i = BlockOver(row, col) /\ Covers(blocks[i], row, col)
           /\ blocks[i].w \in Squares /\ blocks[i].w <= LargestMi
           /\ blocks[i].h \in Squares /\ blocks[i].h <= LargestMi
<1>1. /\ BlockOver(row, col) \in DOMAIN blocks
      /\ Covers(blocks[BlockOver(row, col)], row, col)
  BY DEF Blocked, BlockOver
<1>2. PICK i \in DOMAIN blocks : i = BlockOver(row, col)
  BY <1>1
<1>3. Lies(blocks[i]) /\ Spanning(blocks[i].h, blocks[i].w)
  BY <1>2 DEF BlocksLie, StrengthInv, Strengths
<1> QED BY <1>1, <1>2, <1>3 DEF Lies, Aligned, Spanning

(* The bits that such a square is read with.                               *)
LEMMA AboveBit ==
  ASSUME WalkInv, BlocksLie, StrengthInv, AboveInv, Walking,
         \A r, c : ~Pending(r, c),
         NEW row \in Nat, NEW col \in Nat, NEW size \in Squares, NodeReads(row, col, size)
  PROVE  ContextBit(above[col], size) = 1 <=>
           row > Tile.top /\ blocks[BlockOver(row - 1, col)].w < size
<1>1. AboveAt(col) /\ ~Blocked(row, col) /\ size # 1 /\ size <= LargestMi
      /\ UnitMi \in {4, 8, 16}
  BY WalkAssumption DEF AboveInv, NodeReads
<1>2. PICK upper \in Nat, lower \in Nat :
        upper = Tile.top /\ lower = Tile.bottom /\ row \in upper .. lower - 1
  BY TileTypes, WalkingTile DEF NodeReads
<1>3. CASE row = upper
  <2>1. above[col] = 0
    BY <1>1, <1>2, <1>3 DEF AboveAt
  <2>2. 1 \in Squares /\ 1 <= LargestMi
    BY <1>1 DEF Squares, LargestMi
  <2>3. ContextBit(0, size) # 1
    BY <1>1, <2>2, BitOfByte
  <2>4. ~ (row > upper)
    BY <1>3
  <2> QED BY <1>2, <2>1, <2>3, <2>4
<1>4. CASE row # upper
  <2>1. row > upper /\ row - 1 \in upper .. lower - 1 /\ (row - 1) + 1 = row /\ row < lower
    BY <1>2, <1>4
  <2>2. Blocked(row - 1, col)
    BY <1>2, <2>1 DEF NodeReads
  <2>3. PICK i \in DOMAIN blocks :
          /\ i = BlockOver(row - 1, col) /\ Covers(blocks[i], row - 1, col)
          /\ blocks[i].w \in Squares /\ blocks[i].w <= LargestMi
    BY <2>2, BlockOverIs
  <2>4. above[col] = ContextByte(blocks[i].w)
    BY <1>1, <1>2, <2>1, <2>3 DEF AboveAt
  <2>5. ContextBit(ContextByte(blocks[i].w), size) = 1 <=> blocks[i].w < size
    BY <1>1, <2>3, BitOfByte
  <2> QED BY <1>2, <2>1, <2>3, <2>4, <2>5
<1> QED BY <1>3, <1>4

LEMMA LeftBit ==
  ASSUME WalkInv, BlocksLie, StrengthInv, LeftInv, Walking, pc = "walk",
         \A r, c : ~Pending(r, c),
         NEW row \in Nat, NEW col \in Nat, NEW size \in Squares, NodeReads(row, col, size)
  PROVE  ContextBit(left[LeftSlot(row)], size) = 1 <=>
           col > Tile.left /\ blocks[BlockOver(row, col - 1)].h < size
<1>1. LeftAt(row) /\ ~Blocked(row, col) /\ size # 1 /\ size <= LargestMi
      /\ UnitMi \in {4, 8, 16}
  BY WalkAssumption DEF LeftInv, NodeReads
<1>2. PICK upper \in Nat, lower \in Nat :
        upper = Tile.left /\ lower = Tile.right /\ col \in upper .. lower - 1
  BY TileTypes, WalkingTile DEF NodeReads
<1>3. CASE col = upper
  <2>1. left[LeftSlot(row)] = 0
    BY <1>1, <1>2, <1>3 DEF LeftAt
  <2>2. 1 \in Squares /\ 1 <= LargestMi
    BY <1>1 DEF Squares, LargestMi
  <2>3. ContextBit(0, size) # 1
    BY <1>1, <2>2, BitOfByte
  <2>4. ~ (col > upper)
    BY <1>3
  <2> QED BY <1>2, <2>1, <2>3, <2>4
<1>4. CASE col # upper
  <2>1. col > upper /\ col - 1 \in upper .. lower - 1 /\ (col - 1) + 1 = col /\ col < lower
    BY <1>2, <1>4
  <2>2. Blocked(row, col - 1)
    BY <1>2, <2>1 DEF NodeReads
  <2>3. PICK i \in DOMAIN blocks :
          /\ i = BlockOver(row, col - 1) /\ Covers(blocks[i], row, col - 1)
          /\ blocks[i].h \in Squares /\ blocks[i].h <= LargestMi
    BY <2>2, BlockOverIs
  <2>4. left[LeftSlot(row)] = ContextByte(blocks[i].h)
    BY <1>1, <1>2, <2>1, <2>3 DEF LeftAt
  <2>5. ContextBit(ContextByte(blocks[i].h), size) = 1 <=> blocks[i].h < size
    BY <1>1, <2>3, BitOfByte
  <2> QED BY <1>2, <2>1, <2>3, <2>4, <2>5
<1> QED BY <1>3, <1>4

LEMMA ContextsRight ==
  ASSUME WalkInv, CellsInv, OrderInv, BlocksLie, CancelInv, StrengthInv, StampsDue,
         AboveInv, LeftInv, SymbolInv
  PROVE  ContextsOfTile
<1>1. SymbolContextsOfTile
  BY DEF SymbolInv, SymbolContextsOfTile
<1>2. ASSUME At("node"), ~corrupt, ~OutOfFrame, Call.size > 1
      PROVE  /\ (ContextBit(above[Call.col], Call.size) = 1) <=>
                  /\ Call.row > Tile.top
                  /\ blocks[BlockOver(Call.row - 1, Call.col)].w < Call.size
             /\ (ContextBit(left[LeftSlot(Call.row)], Call.size) = 1) <=>
                  /\ Call.col > Tile.left
                  /\ blocks[BlockOver(Call.row, Call.col - 1)].h < Call.size
  <2>1. Walking /\ pc = "walk" /\ \A r, c : ~Pending(r, c)
    BY <1>2, NodeAtHand
  <2>2. PICK row \in Nat, col \in Nat, size \in Squares :
          row = Call.row /\ col = Call.col /\ size = Call.size /\ NodeReads(row, col, size)
    BY <1>2, NodeAtHand
  <2>3. ContextBit(above[col], size) = 1 <=>
           row > Tile.top /\ blocks[BlockOver(row - 1, col)].w < size
    BY <2>1, <2>2, AboveBit
  <2>4. ContextBit(left[LeftSlot(row)], size) = 1 <=>
           col > Tile.left /\ blocks[BlockOver(row, col - 1)].h < size
    BY <2>1, <2>2, LeftBit
  <2> QED BY <2>2, <2>3, <2>4
<1> QED BY <1>1, <1>2 DEF ContextsOfTile

(* For any frames and tiles, whatever the partitions: each bit of the      *)
(* context a partition is read with says whether the block over the cell   *)
(* above (to the left), if the tile has one, is narrower (lower) than the  *)
(* square, and nothing of another tile; the symbol contexts are the        *)
(* tile's own too.  What the bytes hold is known only for cells whose      *)
(* stamps have been made and with nothing decoded past them (AboveInv,     *)
(* LeftInv), which the pending stamps (StampsDue) and the order of the     *)
(* walk (NoGaps) show to be all that a partition's context reads.          *)
THEOREM ContextsAlwaysOfTile == Spec => []ContextsOfTile
<1> DEFINE Known == /\ WalkInv /\ CellsInv /\ OrderInv /\ BlocksLie /\ CancelInv
                    /\ SpanInv /\ SymbolInv
           Held == ContextDomains /\ StampsDue /\ NoGaps /\ AboveInv /\ LeftInv
<1>1. Init => Known /\ StrengthInv /\ Held
  <2> SUFFICES ASSUME Init PROVE Known /\ StrengthInv /\ Held
    OBVIOUS
  <2>1. BlocksLie
    <3>1. DOMAIN <<>> = {}
      OBVIOUS
    <3> QED BY <3>1 DEF Init, BlocksLie
  <2>2. Held
    BY DEF Init, ContextDomains, StampsDue, NoGaps, AboveInv, LeftInv, Walking
  <2> QED BY <2>1, <2>2, WalkInit, CellsInit, OrderInit, StrengthInit DEF Init, CancelInv, SymbolInv
<1>2. Known /\ [Next]_vars => Known'
  BY WalkStep, CellsStep, OrderStep, LieStep, CancelStep, SpanStep, SymbolStep
<1>3. Known /\ StrengthInv /\ [Next]_vars /\ Fresh' => StrengthInv'
  BY StrengthStep
<1>4. Known /\ Held /\ [Next]_vars => Held'
  BY DomainsStep, StampsStep, GapsStep, AboveStep, LeftStep
<1>5. Known /\ StrengthInv /\ Held => ContextsOfTile
  BY ContextsRight
<1>6. Known => Fresh
  BY FreshHolds
<1> QED BY <1>1, <1>2, <1>3, <1>4, <1>5, <1>6, PTL DEF Spec

=============================================================================
