----------------------------- MODULE GridBands -----------------------------
(***************************************************************************)
(* build_lf_mi_grid_mt, lf_search.rs: the loop-filter grid of a frame is   *)
(* built by several workers.  Each has a fixed chunk of consecutive        *)
(* superblock rows and takes their slices, one at a time, from a vector    *)
(* under a mutex; a slice that is not there is a panic.                    *)
(***************************************************************************)
EXTENDS Integers, FiniteSets

CONSTANTS
  Rows,      (* Superblock rows (n_sb_rows).                                *)
  Asked      (* The workers asked for.                                      *)

ASSUME GridAssumption == Rows \in Nat /\ Rows >= 2 /\ Asked \in Nat /\ Asked >= 2

AllRows == 0 .. Rows - 1

(* workers.min(n_sb_rows) *)
NumWorkers == IF Asked <= Rows THEN Asked ELSE Rows
GridWorkers == 0 .. NumWorkers - 1

Per == Rows \div NumWorkers
Rem == Rows % NumWorkers

(* Mutant: the larger chunks of the workers before are not made room for. *)
StartEven(w) == w * Per
(* Worker w's chunk: from Start(w), Take(w) rows. *)
Start(w) == w * Per + (IF w <= Rem THEN w ELSE Rem)

(* Mutant: the remainder goes to nobody. *)
TakeFloor(w) == Per
Take(w) == Per + (IF w < Rem THEN 1 ELSE 0)

VARIABLES
  done,      (* Rows each worker has finished.                              *)
  holds,     (* The row a worker holds the slice of: {} or {row}.           *)
  slices,    (* The rows whose slice is still in the vector.                *)
  stamped,   (* The rows whose cells are filled in.                         *)
  panicked   (* The workers that found no slice.                            *)

gridVars == <<done, holds, slices, stamped, panicked>>

GridInit ==
  /\ done = [w \in GridWorkers |-> 0]
  /\ holds = [w \in GridWorkers |-> {}]
  /\ slices = AllRows
  /\ stamped = {}
  /\ panicked = {}

NextRow(w) == Start(w) + done[w]

Working(w) == w \notin panicked /\ done[w] < Take(w)

(* The slice of the next row is taken, under the lock: "one band per SB row". *)
TakeSlice(w) ==
  /\ Working(w) /\ holds[w] = {}
  /\ holds' = [holds EXCEPT ![w] = {NextRow(w)} \cap slices]
  /\ panicked' = IF NextRow(w) \in slices THEN panicked ELSE panicked \cup {w}
  /\ slices' = slices \ {NextRow(w)}
  /\ UNCHANGED <<done, stamped>>

(* Every tree of the row is stamped into the slice. *)
StampRow(w) ==
  /\ holds[w] # {}
  /\ stamped' = stamped \cup holds[w]
  /\ holds' = [holds EXCEPT ![w] = {}]
  /\ done' = [done EXCEPT ![w] = @ + 1]
  /\ UNCHANGED <<slices, panicked>>

GridNext == \E w \in GridWorkers : TakeSlice(w) \/ StampRow(w)

GridSpec == GridInit /\ [][GridNext]_gridVars

-----------------------------------------------------------------------------

GridTypeOK ==
  /\ done \in [GridWorkers -> Nat]
  /\ holds \in [GridWorkers -> SUBSET AllRows]
  /\ slices \subseteq AllRows /\ stamped \subseteq AllRows
  /\ panicked \subseteq GridWorkers

(* No worker is ever without its slice, whatever the order the workers come in:
   the `expect` never fires. *)
SliceFound == panicked = {}

(* When the last worker has returned, no row has kept its defaults. *)
GridComplete == (\A w \in GridWorkers : ~Working(w)) => stamped = AllRows

=============================================================================
