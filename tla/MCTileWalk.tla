----------------------------- MODULE MCTileWalk -----------------------------
(***************************************************************************)
(* Frames of one to four superblocks, with units of 8 mode-info cells:     *)
(* superblocks of one unit and of four, edges that cut a square at each of *)
(* its quarters, tiles by columns and by rows, three chroma layouts.       *)
(***************************************************************************)
EXTENDS TileWalk

TileAt(top, bottom, left0, right) ==
  [top |-> top, bottom |-> bottom, left |-> left0, right |-> right]

Whole(rows, cols, mib, n) ==
  [rows |-> rows, cols |-> cols, mib |-> mib, ssx |-> 1, ssy |-> 1,
   tiles |-> <<TileAt(0, rows, 0, cols)>>, saveTile |-> 1,
   token |-> FALSE, bad |-> FALSE, skips |-> FALSE, parts |-> n]

(* Every tree of a square of 16 pixels, and one superblock whole and cut,  *)
(* in each chroma layout.                                                  *)
Single ==
  {[Whole(d[1], d[2], 8, d[3]) EXCEPT !.ssx = s[1], !.ssy = s[2]] :
     d \in {<<4, 4, 5>>, <<8, 8, 3>>, <<6, 8, 3>>, <<8, 6, 3>>, <<2, 6, 3>>},
     s \in {<<0, 0>>, <<1, 0>>, <<1, 1>>}}

(* Superblocks of four units whose blocks may skip, whole and cut, and two *)
(* of one unit.                                                            *)
Skipped ==
  {[Whole(d[1], d[2], d[3], d[4]) EXCEPT !.skips = TRUE] :
     d \in {<<16, 16, 16, 2>>, <<12, 16, 16, 2>>, <<14, 10, 16, 2>>, <<8, 16, 8, 2>>}}

(* Two tiles, side by side and one above the other, saving either. *)
Tiled ==
  {[Whole(8, 16, 8, 2) EXCEPT !.tiles = <<TileAt(0, 8, 0, 8), TileAt(0, 8, 8, 16)>>,
                               !.saveTile = s] : s \in {1, 2}}
  \union {[Whole(14, 8, 8, 2) EXCEPT !.tiles = <<TileAt(0, 8, 0, 8), TileAt(8, 14, 0, 8)>>,
                                      !.saveTile = 2]}

(* Several rows and columns of superblocks in a tile, a stop token, syntax *)
(* that may be out of range.                                               *)
Stopped ==
  {[Whole(16, 10, 8, 1) EXCEPT !.token = TRUE, !.bad = b] : b \in BOOLEAN}
  \union {[Whole(24, 4, 8, 1) EXCEPT !.token = TRUE, !.bad = TRUE, !.saveTile = 2,
             !.tiles = <<TileAt(0, 16, 0, 4), TileAt(16, 24, 0, 4)>>]}

MCFrames == Single \union Skipped \union Tiled \union Stopped
=============================================================================
