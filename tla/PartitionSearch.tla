-------------------------- MODULE PartitionSearch --------------------------
(***************************************************************************)
(* The encoder's partition search of one superblock,                       *)
(* rd_pick_partition_real: a recursion that tries the partitions of a      *)
(* square one after the other on the live state - mode grid, reconstructed *)
(* pixels, contexts above and to the left - and encodes the winner before  *)
(* its later siblings are looked at.  Every candidate writes that state;   *)
(* contexts are restored after it, the grid and the pixels are not.        *)
(*                                                                         *)
(* Cells are of the smallest block size searched.  What is computed is     *)
(* left out: a block is known by the trial that picked its mode, and it    *)
(* carries what that trial read around it.  The prunes and the early       *)
(* termination are a free choice of the partitions a square tries, and a   *)
(* rate-distortion cost is whether the trial still fits its budget.  A     *)
(* square whose budget is unlimited has no cost to exceed.                 *)
(***************************************************************************)
EXTENDS Integers, Sequences, FiniteSets, SequencesExt, FiniteSetsExt

CONSTANTS
  Searches    (* The searches: rows and cols of the frame from the super-   *)
              (* block on, sbSize, maxSize (max_partition_size), eight (the *)
              (* size of BLOCK_8X8) and types, the partitions enabled.      *)

ASSUME SearchAssumption ==
  \A s \in Searches :
    /\ s.sbSize \in {2, 4, 8} /\ s.maxSize \in {1, 2, 4, 8}
    /\ s.eight \in {1, 2}
    /\ s.rows \in 1 .. s.sbSize /\ s.rows % s.eight = 0
    /\ s.cols \in 1 .. s.sbSize /\ s.cols % s.eight = 0

VARIABLES
  search,     (* The search under way.                                      *)
  stack,      (* The calls of the recursion, the root first.                *)
  mem,        (* The live state: grid and recon by cell, the entropy and    *)
              (* transform-size contexts (above, left) and the partition    *)
              (* contexts (pabove, pleft) by column and row.                *)
  winner      (* The root's tree; NoTree while it searches.                 *)

vars == <<search, stack, mem, winner>>

Outside == <<"outside">>       (* Whatever was there before the superblock. *)
NoLeaf == [id |-> <<>>]
Failed == 4 + 1                (* A child of a SPLIT was not found. *)

(* A tree is its blocks and its squares, each in coding order. *)
NoTree == [blocks |-> <<>>, squares |-> <<>>]
Found(t) == t # NoTree
Joined(t, u) == [blocks |-> t.blocks \o u.blocks, squares |-> t.squares \o u.squares]

Order == <<"NONE", "SPLIT", "HORZ", "VERT", "HORZ_A", "HORZ_B", "VERT_A", "VERT_B",
           "HORZ_4", "VERT_4">>
AB == {"HORZ_A", "HORZ_B", "VERT_A", "VERT_B"}
FourWay == {"HORZ_4", "VERT_4"}

InFrame(b) == b.row < search.rows /\ b.col < search.cols
Rows(b) == b.row .. Min({b.row + b.h, search.rows}) - 1
Cols(b) == b.col .. Min({b.col + b.w, search.cols}) - 1
Cover(b) == Rows(b) \X Cols(b)
Frame == (0 .. search.rows - 1) \X (0 .. search.cols - 1)
(* A block's or a square's part of a context array, past the frame or not. *)
Across(b) == b.col .. b.col + b.w - 1
Down(b) == b.row .. b.row + b.h - 1

-----------------------------------------------------------------------------
(* The partitions a square may try, and their blocks.                      *)
HasRows(n) == n.row + n.w \div 2 < search.rows
HasCols(n) == n.col + n.w \div 2 < search.cols

Possible(n) ==
  LET inner == HasRows(n) /\ HasCols(n)
  IN IF n.w > search.maxSize THEN {"SPLIT"}
     ELSE IF n.w = 1 THEN {"NONE"}
     ELSE search.types \intersect
          ((IF inner THEN {"NONE"} ELSE {}) \union {"SPLIT"}
           \union (IF HasCols(n) THEN {"HORZ"} ELSE {})
           \union (IF HasRows(n) THEN {"VERT"} ELSE {})
           \union (IF inner /\ n.w > search.eight THEN AB ELSE {})
           \union (IF inner /\ n.w >= 4 THEN FourWay ELSE {}))

(* The partitions of a set, in the order the search tries them. *)
InOrder(types) == SelectSeq(Order, LAMBDA t : t \in types)

(* A square tries NONE or SPLIT among others, SPLIT where it cannot be NONE. *)
Plans(n) ==
  {InOrder(types) : types \in
    {ts \in SUBSET Possible(n) :
       IF "NONE" \in Possible(n) THEN ts \intersect {"NONE", "SPLIT"} # {} ELSE "SPLIT" \in ts}}

Blocks(n, type) ==
  LET s == n.w
      h == s \div 2
      q == s \div 4
      B(r, c, hh, ww) == [row |-> n.row + r, col |-> n.col + c, h |-> hh, w |-> ww]
      all == CASE type = "NONE" -> <<B(0, 0, s, s)>>
               [] type = "HORZ" -> <<B(0, 0, h, s), B(h, 0, h, s)>>
               [] type = "VERT" -> <<B(0, 0, s, h), B(0, h, s, h)>>
               [] type = "HORZ_A" -> <<B(0, 0, h, h), B(0, h, h, h), B(h, 0, h, s)>>
               [] type = "HORZ_B" -> <<B(0, 0, h, s), B(h, 0, h, h), B(h, h, h, h)>>
               [] type = "VERT_A" -> <<B(0, 0, h, h), B(h, 0, h, h), B(0, h, s, h)>>
               [] type = "VERT_B" -> <<B(0, 0, s, h), B(0, h, h, h), B(h, h, h, h)>>
               [] type = "HORZ_4" -> [i \in 1 .. 4 |-> B(q * (i - 1), 0, q, s)]
               [] type = "VERT_4" -> [i \in 1 .. 4 |-> B(0, q * (i - 1), s, q)]
  IN SelectSeq(all, InFrame)

Child(n, idx) ==
  [row |-> n.row + (idx \div 2) * (n.w \div 2), col |-> n.col + (idx % 2) * (n.w \div 2),
   h |-> n.w \div 2, w |-> n.w \div 2]

-----------------------------------------------------------------------------
(* Writing and reading the live state.                                     *)

(* An array after marks, each a span and who wrote it, in order. *)
Written(old, marks) ==
  [k \in DOMAIN old |->
     LET writers == {i \in DOMAIN marks : k \in marks[i].span}
     IN IF writers = {} THEN old[k] ELSE marks[Max(writers)].by]

(* Only squares of 8x8 and more have a partition symbol, and a SPLIT stamps *)
(* its context at 8x8 alone.                                               *)
HasSymbol(n) == n.w >= search.eight
Stamps(s) == HasSymbol(s) /\ (s.type # "SPLIT" \/ s.w = search.eight)

(* encode_sb_dry and stamp_grid_from_tree: a tree's blocks and squares are *)
(* written over the live state.                                            *)
Encoded(m, tree) ==
  LET bs == tree.blocks
      ss == SelectSeq(tree.squares, Stamps)
      name(s) == <<s.row, s.col, s.w, s.type>>
      cells == [i \in DOMAIN bs |-> [span |-> Cover(bs[i]), by |-> bs[i].id]]
  IN [grid |-> Written(m.grid, cells),
      recon |-> Written(m.recon, cells),
      above |-> Written(m.above, [i \in DOMAIN bs |-> [span |-> Across(bs[i]), by |-> bs[i].id]]),
      left |-> Written(m.left, [i \in DOMAIN bs |-> [span |-> Down(bs[i]), by |-> bs[i].id]]),
      pabove |-> Written(m.pabove, [i \in DOMAIN ss |-> [span |-> Across(ss[i]), by |-> name(ss[i])]]),
      pleft |-> Written(m.pleft, [i \in DOMAIN ss |-> [span |-> Down(ss[i]), by |-> name(ss[i])]])]

(* A leaf search leaves trial pixels where its block is. *)
Trialled(m, b, id) ==
  [m EXCEPT !.recon = Written(@, <<[span |-> Cover(b), by |-> <<"trial", id>>]>>)]

(* What is read around a block, given the cells coded before it. *)
Around(b) ==
  ({b.row - 1} \X (b.col - 1 .. b.col + b.w + b.h - 1))
    \union ((b.row - 1 .. b.row + b.w + b.h - 1) \X {b.col - 1})

View(m, b, coded) ==
  [cells |-> [p \in Around(b) \intersect coded |-> <<m.grid[p], m.recon[p]>>],
   above |-> [c \in Cols(b) |-> m.above[c]],
   left |-> [r \in Rows(b) |-> m.left[r]]]

(* partition_plane_context reads at the square's origin. *)
SymbolView(m, n) == IF HasSymbol(n) THEN <<m.pabove[n.col], m.pleft[n.row]>> ELSE <<>>

(* Mutant: the contexts to the left are forgotten. *)
RestoredAbove(m, n) ==
  LET back(old, now, span) == [k \in DOMAIN now |-> IF k \in span THEN old[k] ELSE now[k]]
  IN [m EXCEPT !.above = back(n.saved.above, @, Across(n)),
               !.pabove = back(n.saved.pabove, @, Across(n))]
(* restore_context: the contexts of a square's columns and rows as saved.  *)
Restored(m, n) ==
  LET back(old, now, span) == [k \in DOMAIN now |-> IF k \in span THEN old[k] ELSE now[k]]
  IN [m EXCEPT !.above = back(n.saved.above, @, Across(n)),
               !.left = back(n.saved.left, @, Down(n)),
               !.pabove = back(n.saved.pabove, @, Across(n)),
               !.pleft = back(n.saved.pleft, @, Down(n))]

-----------------------------------------------------------------------------
(* The recursion's frames.                                                 *)
Top == stack[Len(stack)]
Below == SubSeq(stack, 1, Len(stack) - 1)
CoveredBy(blocks) == UNION {Cover(blocks[i]) : i \in DOMAIN blocks}
(* The cells whose blocks the calls under way have settled. *)
Settled == UNION {CoveredBy(stack[i].kids.blocks) : i \in DOMAIN stack}

Call(sq, idx, unlimited, plan) ==
  [row |-> sq.row, col |-> sq.col, h |-> sq.h, w |-> sq.w, idx |-> idx,
   unlimited |-> unlimited,      (* No budget: the best so far costs nothing to beat. *)
   plan |-> plan,                (* The partitions still to try. *)
   best |-> NoTree,
   child |-> 0, kids |-> NoTree, (* The SPLIT under way. *)
   split |-> <<NoLeaf, NoLeaf>>, (* split_child_leaf_for_reuse *)
   rect |-> <<NoLeaf, NoLeaf>>,  (* rect_sub0_for_reuse *)
   saw |-> SymbolView(mem, sq),
   saved |-> [above |-> mem.above, left |-> mem.left, pabove |-> mem.pabove, pleft |-> mem.pleft]]

(* Anything fits an unlimited budget: no finite best, at this call or above. *)
Unlimited(n) == n.unlimited /\ ~Found(n.best)

Square(n, type) == [row |-> n.row, col |-> n.col, h |-> n.h, w |-> n.w, type |-> type, saw |-> n.saw]
Tree(n, type, blocks) == [blocks |-> blocks, squares |-> <<Square(n, type)>>]
SplitTree(n) == Joined(Tree(n, "SPLIT", <<>>), n.kids)

(* The trial an extended partition takes over instead of a search. *)
(* Mutant: the second quarter of HORZ_A is taken over without the first. *)
ReusedAlone(n, type, i) ==
  CASE type \in {"HORZ_A", "VERT_A"} /\ i = 1 -> n.split[1]
    [] type = "HORZ_A" /\ i = 2 -> n.split[2]
    [] type = "HORZ_B" /\ i = 1 -> n.rect[1]
    [] type = "VERT_B" /\ i = 1 -> n.rect[2]
    [] OTHER -> NoLeaf
Reused(n, type, i) ==
  CASE type \in {"HORZ_A", "VERT_A"} /\ i = 1 -> n.split[1]
    [] type = "HORZ_A" /\ i = 2 /\ n.split[1] # NoLeaf -> n.split[2]
    [] type = "HORZ_B" /\ i = 1 -> n.rect[1]
    [] type = "VERT_B" /\ i = 1 -> n.rect[2]
    [] OTHER -> NoLeaf
(* The captures are made when they can be taken over; a block with a       *)
(* palette or with chroma from luma never is.                              *)
Capturable(n, types) == \E i \in DOMAIN n.plan : n.plan[i] \in types

-----------------------------------------------------------------------------
(* Trying a partition: its blocks in turn, each on what the ones before    *)
(* have left, `fit` of them within the budget.                             *)

(* Mutant: the next block is searched before this one is written down. *)
NeverEncodes(type, i, count) == FALSE
(* A 4-way strip that is last only because the frame ends is encoded too. *)
EncodesAfter(type, i, count) == i < (IF type \in FourWay THEN 4 ELSE count)

Tried(n, type, fit) ==
  LET bs == Blocks(n, type)
      after[i \in 0 .. Min({fit + 1, Len(bs)})] ==
        IF i = 0 THEN [mem |-> mem, got |-> <<>>]
        ELSE LET prev == after[i - 1]
                 b == bs[i]
                 coded == Settled \union CoveredBy(prev.got)
                 reuse == Reused(n, type, i)
                 fresh == [row |-> b.row, col |-> b.col, h |-> b.h, w |-> b.w,
                           id |-> <<n.row, n.col, n.w, type, i>>,
                           saw |-> View(prev.mem, b, coded)]
                 leaf == IF reuse # NoLeaf THEN reuse ELSE fresh
                 seen == IF reuse # NoLeaf THEN prev.mem ELSE Trialled(prev.mem, b, leaf.id)
             IN [mem |-> IF i <= fit /\ EncodesAfter(type, i, Len(bs))
                         THEN Encoded(seen, [blocks |-> <<leaf>>, squares |-> <<>>])
                         ELSE seen,
                 got |-> Append(prev.got, leaf)]
  IN after[Min({fit + 1, Len(bs)})]

TryPartition ==
  /\ stack # <<>> /\ Top.plan # <<>>
  /\ LET n == Top
         type == Head(n.plan)
         count == Len(Blocks(n, type))
     IN /\ type # "SPLIT"
        /\ \E fit \in IF Unlimited(n) THEN {count} ELSE 0 .. count :
             LET tried == Tried(n, type, fit)
                 rect == CASE type = "HORZ" -> 1 [] type = "VERT" -> 2 [] OTHER -> 0
             IN /\ mem' = Restored(tried.mem, n)
                /\ \E plain \in BOOLEAN :
                     /\ plain => /\ rect # 0 /\ count = 2 /\ fit > 0
                                 /\ Capturable(n, {<<"HORZ_B", "VERT_B">>[rect]})
                     /\ stack' = Append(Below,
                          [n EXCEPT !.plan = Tail(@),
                                    !.best = IF fit = count THEN Tree(n, type, tried.got) ELSE @,
                                    !.rect = IF plain THEN [@ EXCEPT ![rect] = tried.got[1]] ELSE @])
        /\ UNCHANGED <<search, winner>>

-----------------------------------------------------------------------------
(* SPLIT: the children in turn, while their sum fits; those outside the    *)
(* frame are passed over.                                                  *)
Splitting == stack # <<>> /\ Top.plan # <<>> /\ Head(Top.plan) = "SPLIT"
NextChild(n) == Min({i \in n.child .. 3 : InFrame(Child(n, i))} \union {4})

SplitInto ==
  /\ Splitting /\ Top.child < 4 /\ NextChild(Top) < 4
  /\ LET idx == NextChild(Top)
         square == Child(Top, idx)
     IN \E plan \in Plans(square) :
          stack' = Append(stack, Call(square, idx, Unlimited(Top), plan))
  /\ UNCHANGED <<search, mem, winner>>

(* The child returns at once: its budget is negative. *)
SplitRefused ==
  /\ Splitting /\ Top.child < 4 /\ NextChild(Top) < 4 /\ ~Unlimited(Top)
  /\ stack' = Append(Below, [Top EXCEPT !.child = Failed])
  /\ UNCHANGED <<search, mem, winner>>

(* Mutant: the contexts are restored whatever the size. *)
AlwaysRestores(n) == TRUE
(* Between the largest partition and the superblock a square does not      *)
(* encode its winner: its children have, and their contexts stay.          *)
SplitRestores(n) == n.w <= search.maxSize \/ n.w = search.sbSize

SplitEnded ==
  /\ Splitting
  /\ LET n == Top
         complete == n.child < Failed /\ NextChild(n) = 4
     IN /\ complete \/ n.child = Failed \/ ~Unlimited(n)
        /\ \E fits \in BOOLEAN :
             /\ fits => complete
             /\ complete /\ Unlimited(n) => fits
             /\ stack' = Append(Below,
                  [n EXCEPT !.plan = Tail(@), !.child = 0, !.kids = NoTree,
                            !.best = IF fits THEN SplitTree(n) ELSE @])
        /\ mem' = IF SplitRestores(n) THEN Restored(mem, n) ELSE mem
  /\ UNCHANGED <<search, winner>>

(* Mutant: the last child is never encoded, its parent will do it. *)
EncodesButLast(n) == n.w = search.sbSize \/ (n.w <= search.maxSize /\ n.idx # 3)
(* The superblock's winner is encoded for good; another's is for the       *)
(* siblings after it, or for all when no larger square will do it.         *)
Encodes(n) ==
  \/ n.w = search.sbSize
  \/ /\ n.w <= search.maxSize
     /\ \/ n.idx # 3
        \/ n.w = search.maxSize /\ search.sbSize \div 2 # search.maxSize

(* A square returns its tree. *)
SquareDone ==
  /\ stack # <<>> /\ Top.plan = <<>>
  /\ LET n == Top
         found == Found(n.best)
         parent == Below[Len(Below)]
     IN /\ mem' = IF found /\ Encodes(n) THEN Encoded(mem, n.best) ELSE mem
        /\ IF Len(stack) = 1 THEN winner' = n.best /\ stack' = <<>>
           ELSE /\ UNCHANGED winner
                /\ \E plain \in BOOLEAN :
                     /\ plain => /\ found /\ n.idx < 2 /\ n.best.squares[1].type = "NONE"
                                 /\ Capturable(parent, {"HORZ_A", "VERT_A"})
                     /\ stack' = Append(SubSeq(Below, 1, Len(Below) - 1),
                          [parent EXCEPT !.child = IF found THEN n.idx + 1 ELSE Failed,
                                         !.kids = IF found THEN Joined(@, n.best) ELSE @,
                                         !.split = IF plain THEN [@ EXCEPT ![n.idx + 1] = n.best.blocks[1]]
                                                   ELSE @])
  /\ UNCHANGED search

(* The caller has the tree; nothing more is searched. *)
Returned == stack = <<>> /\ UNCHANGED vars

-----------------------------------------------------------------------------
Fresh(s) ==
  [grid |-> [p \in (0 .. s.rows - 1) \X (0 .. s.cols - 1) |-> Outside],
   recon |-> [p \in (0 .. s.rows - 1) \X (0 .. s.cols - 1) |-> Outside],
   above |-> [c \in 0 .. s.sbSize - 1 |-> Outside],
   left |-> [r \in 0 .. s.sbSize - 1 |-> Outside],
   pabove |-> [c \in 0 .. s.sbSize - 1 |-> Outside],
   pleft |-> [r \in 0 .. s.sbSize - 1 |-> Outside]]

Init ==
  /\ search \in Searches
  /\ mem = Fresh(search)
  /\ winner = NoTree
  /\ LET root == [row |-> 0, col |-> 0, h |-> search.sbSize, w |-> search.sbSize]
     IN \E plan \in Plans(root) : stack = <<Call(root, 0, TRUE, plan)>>

Next == TryPartition \/ SplitInto \/ SplitRefused \/ SplitEnded \/ SquareDone \/ Returned

Spec == Init /\ [][Next]_vars

-----------------------------------------------------------------------------
(* What the walk of the winner holds before its block i, or its square j:  *)
(* the state the decoder will have there.                                  *)
BeforeBlock(i) ==
  Encoded(Fresh(search), [blocks |-> SubSeq(winner.blocks, 1, i - 1), squares |-> <<>>])
BeforeSquare(j) ==
  Encoded(Fresh(search), [blocks |-> <<>>, squares |-> SubSeq(winner.squares, 1, j - 1)])

(* Every block of the winner was chosen on the neighbours, the pixels and  *)
(* the contexts it will be decoded with, and every partition symbol was    *)
(* priced in the context it will be coded in - whatever the candidates     *)
(* tried in between have left on the grid and in the frame.                *)
WinnerSawWinners ==
  stack = <<>> =>
    /\ \A i \in DOMAIN winner.blocks :
         LET b == winner.blocks[i]
         IN b.saw = View(BeforeBlock(i), b, CoveredBy(SubSeq(winner.blocks, 1, i - 1)))
    /\ \A j \in DOMAIN winner.squares :
         LET s == winner.squares[j] IN s.saw = SymbolView(BeforeSquare(j), s)

(* The search finds a tree, whose blocks cover the superblock's part of    *)
(* the frame once, and leaves of all it tried that tree alone: its modes   *)
(* on the grid, its pixels, its contexts for the next superblock.          *)
SearchLeavesWinner ==
  stack = <<>> =>
    /\ Found(winner)
    /\ CoveredBy(winner.blocks) = Frame
    /\ \A i, j \in DOMAIN winner.blocks :
         i # j => Cover(winner.blocks[i]) \intersect Cover(winner.blocks[j]) = {}
    /\ mem = Encoded(Fresh(search), winner)
=============================================================================
