---------------------------- MODULE BandContract ----------------------------
(***************************************************************************)
(* What the banded encode of a KEY frame promises whatever the number of   *)
(* workers and their schedule: the search of every tile, then the packing  *)
(* of every tile, each as if in one step, each tile at its own index; or   *)
(* nothing, when the caller's stop token fired or a worker panicked.       *)
(***************************************************************************)
EXTENDS Integers

CONSTANTS Bands, Cols

Tile(idx) == <<idx \div Cols, idx % Cols>>
AllTiles == [idx \in 0 .. Bands * Cols - 1 |-> Tile(idx)]
NoTiles == [idx \in 0 .. Bands * Cols - 1 |-> <<>>]

VARIABLES trees, payloads, status, stop

vars == <<trees, payloads, status, stop>>

Init ==
  /\ trees = NoTiles
  /\ payloads = NoTiles
  /\ status = "running"
  /\ stop = FALSE

Search ==
  /\ status = "running" /\ trees = NoTiles
  /\ trees' = AllTiles
  /\ UNCHANGED <<payloads, status, stop>>

Pack ==
  /\ status = "running" /\ trees = AllTiles
  /\ payloads' = AllTiles
  /\ status' = "ok"
  /\ UNCHANGED <<trees, stop>>

Fail ==
  /\ status = "running"
  /\ status' \in (IF stop THEN {"cancelled", "panicked"} ELSE {"panicked"})
  /\ UNCHANGED <<trees, payloads, stop>>

RequestStop ==
  /\ ~stop
  /\ stop' = TRUE
  /\ UNCHANGED <<trees, payloads, status>>

Next == Search \/ Pack \/ Fail \/ RequestStop

Spec == Init /\ [][Next]_vars

=============================================================================
