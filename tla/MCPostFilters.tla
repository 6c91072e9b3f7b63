--------------------------- MODULE MCPostFilters ---------------------------
(***************************************************************************)
(* The frames TLC sends through the post filters, with filter blocks and   *)
(* stripes of 16 pixels: frames of up to three by three filter blocks for  *)
(* CDEF, frames of every height and several widths for restoration, and    *)
(* small frames for which every combination of the header's gates is tried.*)
(***************************************************************************)
EXTENDS PostFilters

None == <<FALSE, FALSE, FALSE>>
All == <<TRUE, TRUE, TRUE>>

Frame(w, h) ==
  [w |-> w, h |-> h, denom |-> 8, ssx |-> 1, ssy |-> 1, mono |-> FALSE,
   hbd |-> FALSE, levels |-> None, cdef |-> FALSE, lr |-> None,
   usize |-> <<16, 8, 8>>, tiles |-> <<0>>]

(* Frames for CDEF: tall and wide, with an incomplete last filter block. *)
CdefFrames ==
  {[Frame(d[1], d[2]) EXCEPT !.cdef = TRUE, !.mono = d[3], !.ssx = d[4], !.ssy = d[5]] :
     d \in {<<40, 40, TRUE, 1, 1>>, <<40, 17, FALSE, 1, 0>>, <<32, 32, FALSE, 1, 1>>}}

(* Frames for restoration: every height, one to three units across, both   *)
(* arms, with units of one and of two stripes.                             *)
RestorationFrames ==
  {[Frame(w, h) EXCEPT !.lr = <<TRUE, TRUE, FALSE>>, !.ssy = s, !.usize = u, !.denom = d] :
     w \in {12, 41}, h \in 1 .. 54, s \in {0, 1},
     u \in {<<16, 16, 16>>, <<32, 16, 16>>}, d \in {8, 11}}

(* Small frames through every combination of the gates. *)
GateFrames ==
  {[Frame(15, 18) EXCEPT !.levels = l, !.cdef = c, !.denom = d, !.lr = r,
                         !.hbd = b, !.mono = m] :
     l \in {None, <<TRUE, FALSE, TRUE>>, All}, c \in BOOLEAN, d \in {8, 16},
     r \in {None, <<FALSE, TRUE, TRUE>>}, b \in BOOLEAN, m \in BOOLEAN}

(* Frames of several deblocking blocks and tile columns. *)
WideFrames ==
  {[Frame(w, 40) EXCEPT !.levels = All, !.denom = d, !.lr = All, !.tiles = t,
                        !.usize = <<32, 32, 32>>] :
     w \in {70, 99}, d \in 9 .. 16, t \in {<<0>>, <<0, 4>>, <<0, 4, 8>>}}

MCFrames == CdefFrames \union RestorationFrames \union GateFrames \union WideFrames
=============================================================================
