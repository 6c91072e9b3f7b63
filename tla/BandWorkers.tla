---------------------------- MODULE BandWorkers ----------------------------
(***************************************************************************)
(* The multi-worker KEY-frame encode of aom-encode: phase 1 searches every *)
(* tile, phase 2 packs every tile, each through par::map_workers.  The     *)
(* planes are cut into one band per tile row; the workers draw bands from  *)
(* a cursor under a mutex, push (tile index, result) pairs to a vector of  *)
(* their own, and the caller merges the vectors once all have returned.    *)
(*                                                                         *)
(* A tile's tree or payload is the tile it was computed from.  Workers run *)
(* in any order and at any speed (OS threads, or tasks of a rayon pool).   *)
(* The stop token is polled at every superblock: the poll that matters is  *)
(* the tile's last, after which the tile completes.                        *)
(***************************************************************************)
EXTENDS Integers, FiniteSets

CONSTANTS
  NWorkers,  (* Workers of a phase: threads, at most one per tile row.      *)
  Bands,     (* Tile rows, one band each (n_tr).                            *)
  Cols,      (* Tile columns (n_tc).                                        *)
  Panics     (* TRUE: a worker may panic.                                   *)

ASSUME BandAssumption ==
  /\ NWorkers \in Nat \ {0}
  /\ Bands \in Nat \ {0}
  /\ Cols \in Nat \ {0}
  /\ Panics \in BOOLEAN

Workers == 0 .. NWorkers - 1
Indices == 0 .. Bands * Cols - 1
TileNames == (0 .. Bands - 1) \X (0 .. Cols - 1)

VARIABLES
  phase,     (* "search", then "pack".                                      *)
  cursor,    (* The next band the shared iterators yield; Bands: exhausted. *)
  pc,        (* Of a worker: "claim", "poll", "work", or how it returned:   *)
             (* "done", "stopped" (Err) or "panicked".                      *)
  band, col, (* Of a worker: the tile it is at.                             *)
  out,       (* Of a worker: the results it has pushed.                     *)
  trees,     (* frame_trees: by tile index, <<>> for None.                  *)
  payloads,  (* tile_payloads: by tile index, <<>> for none.                *)
  status,    (* "running", "ok", "cancelled", "panicked" or "uncovered".    *)
  stop       (* The stop token has fired.                                   *)

vars == <<phase, cursor, pc, band, col, out, trees, payloads, status, stop>>

NoTiles == [idx \in Indices |-> <<>>]

Init ==
  /\ phase = "search"
  /\ cursor = 0
  /\ pc = [w \in Workers |-> "claim"]
  /\ band = [w \in Workers |-> 0]
  /\ col = [w \in Workers |-> 0]
  /\ out = [w \in Workers |-> {}]
  /\ trees = NoTiles
  /\ payloads = NoTiles
  /\ status = "running"
  /\ stop = FALSE

-----------------------------------------------------------------------------
(* A worker                                                                *)

(* Mutants: the cursor starts over; it skips a band. *)
AdvancedWrap(b) == (b + 1) % Bands
AdvancedByTwo(b) == b + 2
Advanced(b) == b + 1

(* The three band iterators advance together, under the lock. *)
Claim(w) ==
  /\ status = "running" /\ pc[w] = "claim"
  /\ \/ /\ cursor < Bands
        /\ band' = [band EXCEPT ![w] = cursor]
        /\ col' = [col EXCEPT ![w] = 0]
        /\ cursor' = Advanced(cursor)
        /\ pc' = [pc EXCEPT ![w] = "poll"]
     \/ /\ cursor >= Bands
        /\ pc' = [pc EXCEPT ![w] = "done"]
        /\ UNCHANGED <<band, col, cursor>>
  /\ UNCHANGED <<phase, out, trees, payloads, status, stop>>

(* The poll of the stop token at the tile's last superblock. *)
Poll(w) ==
  /\ status = "running" /\ pc[w] = "poll"
  /\ pc' = [pc EXCEPT ![w] = IF stop THEN "stopped" ELSE "work"]
  /\ UNCHANGED <<phase, cursor, band, col, out, trees, payloads, status, stop>>

(* Mutant: the index a column-major grid would have. *)
IndexColumnMajor(tr, tc) == tc * Bands + tr
Index(tr, tc) == tr * Cols + tc

(* The tile is coded; the row's next tile, or the next band, follows. *)
FinishTile(w) ==
  /\ status = "running" /\ pc[w] = "work"
  /\ out' = [out EXCEPT ![w] =
               @ \cup {[idx |-> Index(band[w], col[w]), tile |-> <<band[w], col[w]>>]}]
  /\ \/ /\ col[w] + 1 < Cols
        /\ col' = [col EXCEPT ![w] = @ + 1]
        /\ pc' = [pc EXCEPT ![w] = "poll"]
     \/ /\ col[w] + 1 = Cols
        /\ pc' = [pc EXCEPT ![w] = "claim"]
        /\ UNCHANGED col
  /\ UNCHANGED <<phase, cursor, band, trees, payloads, status, stop>>

(* A panic unwinds the worker alone, never inside the lock. *)
Panic(w) ==
  /\ Panics
  /\ status = "running" /\ pc[w] \in {"poll", "work"}
  /\ pc' = [pc EXCEPT ![w] = "panicked"]
  /\ UNCHANGED <<phase, cursor, band, col, out, trees, payloads, status, stop>>

-----------------------------------------------------------------------------
(* The calling thread                                                      *)

(* Mutant: the caller goes on once one worker has drained the cursor. *)
JoinedFirst == \E w \in Workers : pc[w] = "done"
(* Every worker has returned: the scope ends no earlier, panic or not. *)
Joined == \A w \in Workers : pc[w] \in {"done", "stopped", "panicked"}

Results == UNION {out[w] : w \in Workers}

(* The merge, keyed on the tile index. *)
Merged == [idx \in Indices |->
  IF \E r \in Results : r.idx = idx
    THEN (CHOOSE r \in Results : r.idx = idx).tile
    ELSE <<>>]

(* Mutant: a stopped worker's results are dropped, and the merge goes on. *)
FailureIgnoresStop == {"panicked"} \cap {pc[w] : w \in Workers}
Failure == {"panicked", "stopped"} \cap {pc[w] : w \in Workers}

(* A panic is resumed first; else the first Err is returned. *)
CollectFailure ==
  /\ status = "running" /\ Joined
  /\ Failure # {}
  /\ status' = IF "panicked" \in Failure THEN "panicked" ELSE "cancelled"
  /\ UNCHANGED <<phase, cursor, pc, band, col, out, trees, payloads, stop>>

(* Every superblock must have its tree before the second phase starts. *)
CollectTrees ==
  LET covered == \A idx \in Indices : Merged[idx] # <<>> IN
  /\ status = "running" /\ phase = "search" /\ Joined
  /\ Failure = {}
  /\ trees' = Merged
  /\ status' = IF covered THEN status ELSE "uncovered"
  /\ phase' = "pack"
  /\ cursor' = 0
  /\ pc' = [w \in Workers |-> "claim"]
  /\ out' = [w \in Workers |-> {}]
  /\ UNCHANGED <<band, col, payloads, stop>>

CollectPayloads ==
  /\ status = "running" /\ phase = "pack" /\ Joined
  /\ Failure = {}
  /\ payloads' = Merged
  /\ status' = "ok"
  /\ UNCHANGED <<phase, cursor, pc, band, col, out, trees, stop>>

(* Another thread asks the encode to stop; the token stays fired. *)
RequestStop ==
  /\ ~stop
  /\ stop' = TRUE
  /\ UNCHANGED <<phase, cursor, pc, band, col, out, trees, payloads, status>>

Work(w) == Claim(w) \/ Poll(w) \/ FinishTile(w)
Collect == CollectFailure \/ CollectTrees \/ CollectPayloads

Next ==
  \/ \E w \in Workers : Work(w) \/ Panic(w)
  \/ Collect
  \/ RequestStop

(* Every worker is a thread, or a task its pool runs in the end; the caller
   wakes up when they have all returned. *)
Spec ==
  /\ Init /\ [][Next]_vars
  /\ \A w \in Workers : WF_vars(Work(w))
  /\ WF_vars(Collect)

-----------------------------------------------------------------------------

Result == [idx : Indices, tile : TileNames]

TypeOK ==
  /\ phase \in {"search", "pack"}
  /\ cursor \in 0 .. Bands
  /\ pc \in [Workers -> {"claim", "poll", "work", "done", "stopped", "panicked"}]
  /\ band \in [Workers -> 0 .. Bands - 1]
  /\ col \in [Workers -> 0 .. Cols - 1]
  /\ out \in [Workers -> SUBSET Result]
  /\ trees \in [Indices -> TileNames \cup {<<>>}]
  /\ payloads \in [Indices -> TileNames \cup {<<>>}]
  /\ status \in {"running", "ok", "cancelled", "panicked", "uncovered"}
  /\ stop \in BOOLEAN

(* The `&mut` slices are disjoint: no two workers are ever in the same band,
   and none is in a band another worker has already coded a tile of. *)
BandsExclusive ==
  \A v, w \in Workers :
    v # w /\ pc[v] \in {"poll", "work"} =>
      /\ pc[w] \in {"poll", "work"} => band[v] # band[w]
      /\ \A r \in out[w] : r.tile[1] # band[v]

(* No superblock is left without a tree: the InternalInvariant error of the
   code is unreachable. *)
NeverUncovered == status # "uncovered"

(* The output does not depend on the schedule: an encode that succeeds has
   every tile's payload at the tile's own index, packed after every tile was
   searched. *)
OutputInTileOrder ==
  status = "ok" =>
    \A tr \in 0 .. Bands - 1, tc \in 0 .. Cols - 1 :
      /\ payloads[tr * Cols + tc] = <<tr, tc>>
      /\ trees[tr * Cols + tc] = <<tr, tc>>

(* Whatever the schedule, the cancellations and the panics, the encode is the
   two atomic passes of the contract. *)
Contract == INSTANCE BandContract
ContractSpec == Contract!Spec

(* Every encode returns, even when some of the workers panic or stop. *)
EncodeReturns == <>(status # "running")

=============================================================================
