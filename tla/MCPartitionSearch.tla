------------------------- MODULE MCPartitionSearch -------------------------
(***************************************************************************)
(* Superblocks of 4 by 4 cells (squares of three sizes) and of 8 by 8 of   *)
(* which a part is in the frame.  Few partitions are enabled at a time,    *)
(* each together with those it takes trials over from.                     *)
(***************************************************************************)
EXTENDS PartitionSearch

Whole(eight, types) ==
  [rows |-> 4, cols |-> 4, sbSize |-> 4, maxSize |-> 4, eight |-> eight,
   types |-> {"NONE", "SPLIT"} \union types]

(* Every partition of the superblock, over children of 8x8 that may split  *)
(* once more.                                                              *)
Rooted ==
  {Whole(2, ts) : ts \in {{"HORZ", "HORZ_B"}, {"VERT", "VERT_B"}, {"HORZ_A"}, {"VERT_A"},
                          {"HORZ_4"}, {"VERT_4"}}}

(* An extended partition at two sizes. *)
Nested == {Whole(1, {"HORZ_A"})}

(* Squares above the largest partition, which never encode themselves. *)
Capped ==
  {[Whole(1, {"HORZ"}) EXCEPT !.maxSize = m] : m \in {1, 2}}
  \union {[Whole(1, {}) EXCEPT !.sbSize = 8, !.rows = d[1], !.cols = d[2], !.maxSize = d[3]] :
            d \in {<<4, 8, 2>>, <<8, 4, 4>>, <<8, 8, 1>>}}

(* The frame ends in the superblock: one block of two, strips cut away. *)
Edged ==
  {[Whole(1, ts) EXCEPT !.rows = d[1], !.cols = d[2]] :
     ts \in {{"HORZ", "HORZ_4"}, {"VERT", "VERT_4"}},
     d \in {<<3, 4>>, <<4, 3>>, <<3, 3>>, <<1, 4>>, <<2, 3>>}}

MCSearches == Rooted \union Nested \union Capped \union Edged
=============================================================================
