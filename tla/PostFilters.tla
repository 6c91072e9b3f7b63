---------------------------- MODULE PostFilters ----------------------------
(***************************************************************************)
(* run_post_filters: from the reconstruction the tiles left to the frame   *)
(* that is cropped and shown - deblocking, CDEF, superres and loop         *)
(* restoration, each only when the header calls for it.  Three stages work *)
(* on 16-bit planes moved out of the frame and put back; a stop token may  *)
(* end the pipeline between and inside the stages.                         *)
(*                                                                         *)
(* CdefWalk, Superres and Restoration are the stages' walks; this module   *)
(* adds deblocking, the moves of the planes and the snapshot taken before  *)
(* CDEF.  A plane's content is the sequence of stages it has been through. *)
(***************************************************************************)
EXTENDS CdefWalk, Superres, Restoration

VARIABLES
  stage,     (* The stage, or how the pipeline ended: "done", "stopped".    *)
  moved,     (* In a stage that moves the planes one by one: the next one.  *)
  store,     (* By plane: "here", "taken" or, cut short by the stop token,  *)
             (* "partial".                                                  *)
  recon,     (* By plane: the stages it has been through.                   *)
  preCdef,   (* The snapshot's planes, <<>> when there is none.             *)
  edges      (* Deblocking: the strip, plane, direction and block it is at, *)
             (* and by plane and direction the blocks it has filtered.      *)

pipeVars == <<stage, moved, store, recon, preCdef, edges>>
vars == <<frame, parseVars, pipeVars, cdefVars, srVars, lrVars>>

DoDeblock == frame.levels[1]
DoSuperres == SuperresScaled
DoLr == Restored # {}
OptimizedLr == ~frame.cdef /\ ~DoSuperres

StripMi == BlockPx \div 2                  (* MAX_MIB_SIZE (32) *)
StripCount == (MiRows + StripMi - 1) \div StripMi
BlockCount == (MiCols + StripMi - 1) \div StripMi
NoEdges == [strip |-> 0, plane |-> 0, dir |-> 0, block |-> 0,
            vert |-> [p \in 0 .. 2 |-> {}], horz |-> [p \in 0 .. 2 |-> {}]]

Init ==
  /\ frame \in Frames
  /\ ParseInit
  /\ stage = "tiles"
  /\ moved = 0
  /\ store = [p \in Planes |-> "here"]
  /\ recon = [p \in Planes |-> <<>>]
  /\ preCdef = <<>>
  /\ edges = NoEdges
  /\ cdefPc = "off" /\ CdefIdle
  /\ srPc = "off" /\ SuperresIdle
  /\ lrPc = "off" /\ RestorationIdle

(* A poll of the stop token, fired, at a stage of the pipeline itself. *)
Cancel(at) ==
  /\ stage = at
  /\ stage' = "stopped"
  /\ UNCHANGED <<moved, store, recon, preCdef, edges>>

ThroughStage(label, planes) ==
  [p \in Planes |-> IF p \in planes THEN Append(recon[p], label) ELSE recon[p]]

(* take_wide moves the wide planes out; of 8-bit planes it makes copies. *)
Taken == [p \in Planes |-> IF frame.hbd THEN "taken" ELSE store[p]]
Here == [p \in Planes |-> "here"]

-----------------------------------------------------------------------------
ReadUnits ==
  /\ stage = "tiles" /\ ParseSuperblock
  /\ UNCHANGED <<frame, pipeVars, cdefVars, srVars, lrVars>>

TilesDone ==
  /\ stage = "tiles" /\ Parsed
  /\ stage' = "begin"
  /\ UNCHANGED <<moved, store, recon, preCdef, edges>>

BeginDeblock ==
  /\ stage = "begin" /\ DoDeblock
  /\ stage' = "deblock"
  /\ store' = Taken
  /\ edges' = NoEdges
  /\ UNCHANGED <<moved, recon, preCdef>>

SkipDeblock ==
  /\ stage = "begin" /\ ~DoDeblock
  /\ stage' = "gate"
  /\ UNCHANGED <<moved, store, recon, preCdef, edges>>

(* The strip's planes in turn: all its vertical edges, then all its        *)
(* horizontal ones, block by block.                                        *)
AtStrip == edges.plane = 0 /\ edges.dir = 0 /\ edges.block = 0

(* Mutant: each block's vertical edges, then its horizontal ones. *)
FilterEdgesByBlock ==
  /\ stage = "deblock" /\ edges.strip < StripCount
  /\ edges.plane \in Planes /\ frame.levels[edges.plane + 1]
  /\ edges' =
       [edges EXCEPT
          !.vert[edges.plane] = @ \union {<<edges.strip, edges.block>>},
          !.horz[edges.plane] = @ \union {<<edges.strip, edges.block>>},
          !.block = (@ + 1) % BlockCount,
          !.plane = IF edges.block = BlockCount - 1 THEN @ + 1 ELSE @]
  /\ UNCHANGED <<stage, moved, store, recon, preCdef>>

FilterEdges ==
  /\ stage = "deblock" /\ edges.strip < StripCount
  /\ edges.plane \in Planes /\ frame.levels[edges.plane + 1]
  /\ edges' =
       [edges EXCEPT
          !.vert[edges.plane] = @ \union
             IF edges.dir = 0 THEN {<<edges.strip, edges.block>>} ELSE {},
          !.horz[edges.plane] = @ \union
             IF edges.dir = 1 THEN {<<edges.strip, edges.block>>} ELSE {},
          !.block = (@ + 1) % BlockCount,
          !.dir = IF edges.block = BlockCount - 1 THEN 1 - @ ELSE @,
          !.plane = IF edges.block = BlockCount - 1 /\ edges.dir = 1 THEN @ + 1 ELSE @]
  /\ UNCHANGED <<stage, moved, store, recon, preCdef>>

SkipEdges ==
  /\ stage = "deblock" /\ edges.strip < StripCount
  /\ IF edges.plane \in Planes
     THEN ~frame.levels[edges.plane + 1] /\ edges' = [edges EXCEPT !.plane = @ + 1]
     ELSE edges' = [edges EXCEPT !.plane = 0, !.strip = @ + 1]
  /\ UNCHANGED <<stage, moved, store, recon, preCdef>>

(* Polled at every strip; the planes are put back before the stop returns. *)
CancelDeblock ==
  /\ stage = "deblock" /\ edges.strip < StripCount /\ AtStrip
  /\ stage' = "stopped"
  /\ store' = Here
  /\ edges' = NoEdges
  /\ UNCHANGED <<moved, recon, preCdef>>

DeblockDone ==
  /\ stage = "deblock" /\ edges.strip = StripCount
  /\ stage' = "gate"
  /\ store' = Here
  /\ recon' = ThroughStage("deblock", {p \in Planes : frame.levels[p + 1]})
  /\ edges' = NoEdges
  /\ UNCHANGED <<moved, preCdef>>

-----------------------------------------------------------------------------
Gate ==
  /\ stage = "gate"
  /\ preCdef' = IF DoLr /\ ~OptimizedLr THEN recon ELSE <<>>
  /\ stage' = IF frame.cdef THEN "take" ELSE IF DoSuperres THEN "scale" ELSE "restore"
  /\ moved' = 0
  /\ UNCHANGED <<store, recon, edges>>

(* CDEF moves the planes one after the other; the copies of 8-bit planes   *)
(* are polled.                                                             *)
TakeForCdef ==
  /\ stage = "take" /\ moved \in Planes
  /\ store' = [store EXCEPT ![moved] = Taken[moved]]
  /\ moved' = moved + 1
  /\ UNCHANGED <<stage, recon, preCdef, edges>>

CancelTake ==
  /\ stage = "take" /\ moved \in Planes /\ ~frame.hbd
  /\ stage' = "stopped"
  /\ UNCHANGED <<moved, store, recon, preCdef, edges>>

BeginCdef ==
  /\ stage = "take" /\ moved \notin Planes
  /\ stage' = "cdef"
  /\ CdefStart
  /\ UNCHANGED <<frame, parseVars, moved, store, recon, preCdef, edges, srVars, lrVars>>

CdefInWalk ==
  /\ stage = "cdef" /\ CdefStep
  /\ UNCHANGED <<frame, parseVars, pipeVars, srVars, lrVars>>

(* Mutant: the stop is returned at once. *)
CancelCdefAtOnce ==
  /\ stage = "cdef" /\ CdefCancel
  /\ stage' = "stopped"
  /\ UNCHANGED <<frame, parseVars, moved, store, recon, preCdef, edges, srVars, lrVars>>
(* A cancelled walk puts the partly filtered planes back. *)
CancelCdef ==
  /\ stage = "cdef" /\ CdefCancel
  /\ stage' = "stopped"
  /\ store' = Here
  /\ UNCHANGED <<frame, parseVars, moved, recon, preCdef, edges, srVars, lrVars>>

EndCdef ==
  /\ stage = "cdef" /\ CdefReturn
  /\ stage' = "put" /\ moved' = 0
  /\ UNCHANGED <<frame, parseVars, store, recon, preCdef, edges, srVars, lrVars>>

PutAfterCdef ==
  /\ stage = "put" /\ moved \in Planes
  /\ store' = [store EXCEPT ![moved] = "here"]
  /\ recon' = ThroughStage("cdef", {moved})
  /\ moved' = moved + 1
  /\ UNCHANGED <<stage, preCdef, edges>>

CancelPut ==
  /\ stage = "put" /\ moved \in Planes /\ ~frame.hbd
  /\ store' = [store EXCEPT ![moved] = "partial"]
  /\ stage' = "stopped"
  /\ UNCHANGED <<moved, recon, preCdef, edges>>

(* Mutant: restoration follows CDEF. *)
CdefPutThenRestore ==
  /\ stage = "put" /\ moved \notin Planes
  /\ stage' = "restore"
  /\ UNCHANGED <<moved, store, recon, preCdef, edges>>
CdefPut ==
  /\ stage = "put" /\ moved \notin Planes
  /\ stage' = IF DoSuperres THEN "scale" ELSE "restore"
  /\ UNCHANGED <<moved, store, recon, preCdef, edges>>

-----------------------------------------------------------------------------
BeginSuperres ==
  /\ stage = "scale" /\ SuperresStart
  /\ stage' = "scaling"
  /\ store' = Taken
  /\ UNCHANGED <<frame, parseVars, moved, recon, preCdef, edges, cdefVars, lrVars>>

SuperresInWalk ==
  /\ stage = "scaling" /\ srPc = "column"
  /\ (SuperresColumn \/ SuperresNext)
  /\ UNCHANGED <<frame, parseVars, pipeVars, cdefVars, lrVars>>

(* Mutant: only the frame is upscaled. *)
EndSuperresFrameOnly ==
  /\ stage = "scaling" /\ srPc = "done"
  /\ stage' = "restore"
  /\ store' = Here
  /\ recon' = ThroughStage("superres", Planes)
  /\ UNCHANGED <<moved, preCdef, edges>>
(* The snapshot is upscaled along with the frame. *)
EndSuperres ==
  /\ stage = "scaling" /\ srPc = "done"
  /\ stage' = "restore"
  /\ store' = Here
  /\ recon' = ThroughStage("superres", Planes)
  /\ preCdef' = IF preCdef = <<>> THEN <<>>
                ELSE [p \in Planes |-> Append(preCdef[p], "superres")]
  /\ UNCHANGED <<moved, edges>>

SkipRestoration ==
  /\ stage = "restore" /\ ~DoLr
  /\ stage' = "done"
  /\ UNCHANGED <<moved, store, recon, preCdef, edges>>

BeginRestoration ==
  /\ stage = "restore" /\ DoLr
  /\ RestorationStart
  /\ stage' = "restoring"
  /\ store' = Taken
  /\ UNCHANGED <<frame, parseVars, moved, recon, preCdef, edges, cdefVars, srVars>>

RestorationInWalk ==
  /\ stage = "restoring" /\ RestorationStep(OptimizedLr)
  /\ UNCHANGED <<frame, parseVars, pipeVars, cdefVars, srVars>>

CancelRestoration ==
  /\ stage = "restoring" /\ RestorationCancel
  /\ stage' = "stopped"
  /\ store' = Here
  /\ UNCHANGED <<frame, parseVars, moved, recon, preCdef, edges, cdefVars, srVars>>

EndRestoration ==
  /\ stage = "restoring" /\ RestorationReturn
  /\ stage' = "done"
  /\ store' = Here
  /\ recon' = ThroughStage("restoration", Restored)
  /\ UNCHANGED <<frame, parseVars, moved, preCdef, edges, cdefVars, srVars>>

Returned ==
  /\ stage \in {"done", "stopped"}
  /\ UNCHANGED vars

(* The steps of the pipeline itself, between the stages' walks. *)
PipeStep ==
  \/ TilesDone \/ BeginDeblock \/ SkipDeblock \/ FilterEdges \/ SkipEdges
  \/ CancelDeblock \/ DeblockDone \/ Gate \/ TakeForCdef \/ CancelTake
  \/ PutAfterCdef \/ CancelPut \/ CdefPut \/ EndSuperres \/ SkipRestoration
  \/ Cancel("begin") \/ Cancel("gate")
  \/ DoSuperres /\ Cancel("scale")
  \/ DoLr /\ Cancel("restore")

Next ==
  \/ PipeStep /\ UNCHANGED <<frame, parseVars, cdefVars, srVars, lrVars>>
  \/ ReadUnits
  \/ BeginCdef \/ CdefInWalk \/ CancelCdef \/ EndCdef
  \/ BeginSuperres \/ SuperresInWalk
  \/ BeginRestoration \/ RestorationInWalk \/ CancelRestoration \/ EndRestoration
  \/ Returned

Spec == Init /\ [][Next]_vars

-----------------------------------------------------------------------------
(* What the stages the header calls for leave in the history of a plane. *)
DeblockLabel(p) == IF DoDeblock /\ frame.levels[p + 1] THEN <<"deblock">> ELSE <<>>
CdefLabel == IF frame.cdef THEN <<"cdef">> ELSE <<>>
SuperresLabel == IF frame.denom > 8 THEN <<"superres">> ELSE <<>>
LrLabel(p) == IF frame.lr[p + 1] THEN <<"restoration">> ELSE <<>>

(* CDEF filters each block from deblocked pixels and along directions      *)
(* found in it: neither reads what an earlier block left behind.           *)
CdefInputs == CdefReadsDeblocked /\ DirectionsOfThisBlock

(* Every restoration unit's parameters are read once by the tiles, and     *)
(* every row of the plane is then filtered once, by the unit it belongs to.*)
UnitsOnce == UnitsReadOnce /\ RowsFilteredOnce

(* A stripe is restored between the rows the format prescribes, and those  *)
(* rows have the history of the frame less CDEF: the snapshot was taken    *)
(* after deblocking and upscaled when the frame was; without a snapshot    *)
(* the frame's own rows do.  The rows kept for a stripe have a slot.       *)
RestorationContext ==
  /\ SlotsSuffice
  /\ StripeSeesItsContext(OptimizedLr)
  /\ stage = "restoring" =>
       \A p \in Planes :
         (IF preCdef = <<>> THEN recon[p] ELSE preCdef[p])
           = DeblockLabel(p) \o SuperresLabel

(* No horizontal edge is filtered before the vertical edges whose filters  *)
(* reach its samples: those of its own block, of the block to the right,   *)
(* and of the two above.                                                   *)
VerticalEdgesFirst ==
  \A p \in Planes : \A b \in edges.horz[p] :
    {v \in {b[1] - 1, b[1]} \X {b[2], b[2] + 1} :
       v[1] >= 0 /\ v[2] < BlockCount} \subseteq edges.vert[p]

(* The frame is filtered in the format's order.  Within deblocking, the    *)
(* edges are; a frame that leaves the pipeline is whole, and each of its   *)
(* planes went through the stages the header calls for, once and in order; *)
(* and however the pipeline ends, no plane stays taken out.                *)
FrameFiltered ==
  /\ VerticalEdgesFirst
  /\ stage = "done" =>
       \A p \in Planes :
         /\ store[p] = "here"
         /\ recon[p] = DeblockLabel(p) \o CdefLabel \o SuperresLabel \o LrLabel(p)
  /\ stage = "stopped" => \A p \in Planes : store[p] # "taken"
=============================================================================
