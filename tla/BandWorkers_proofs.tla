------------------------- MODULE BandWorkers_proofs -------------------------
(***************************************************************************)
(* The workers of the KEY-frame encode.  First BandWorkers, for every      *)
(* number of workers, bands and tile columns; then GridBands, whose chunks *)
(* are a partition of the grid's rows for every number of rows and         *)
(* workers: hence no worker misses a slice, and the grid they leave is     *)
(* whole.                                                                  *)
(***************************************************************************)
EXTENDS BandWorkers, GridBands, TLAPS

-----------------------------------------------------------------------------
(* The bands                                                               *)

Active(w) == pc[w] \in {"poll", "work"}

(* The bands of active workers have been drawn from the cursor, and by nobody
   else. *)
Held ==
  /\ \A w \in Workers : Active(w) => band[w] < cursor
  /\ \A v, w \in Workers : v # w /\ Active(v) /\ Active(w) => band[v] # band[w]

(* A result sits at the index of its tile; its band was drawn, and no active
   worker but its owner is in that band. *)
Pushed ==
  \A w \in Workers : \A r \in out[w] :
    /\ r.idx = Index(r.tile[1], r.tile[2])
    /\ r.tile[1] < cursor
    /\ \A v \in Workers : v # w /\ Active(v) => band[v] # r.tile[1]

(* A tile of a drawn band has been coded, or is still ahead of the worker in
   its band, or was given up by a worker that did not return normally. *)
Accounted(b, c) ==
  \/ \E w \in Workers : [idx |-> Index(b, c), tile |-> <<b, c>>] \in out[w]
  \/ \E w \in Workers : Active(w) /\ band[w] = b /\ col[w] <= c
  \/ \E w \in Workers : pc[w] \in {"stopped", "panicked"}

Progress ==
  /\ \A b \in 0 .. Bands - 1, c \in 0 .. Cols - 1 : b < cursor => Accounted(b, c)
  /\ \A w \in Workers : pc[w] = "done" => cursor = Bands

InOrder(f) == \A tr \in 0 .. Bands - 1, tc \in 0 .. Cols - 1 : f[Index(tr, tc)] = <<tr, tc>>

(* What the merges have left behind. *)
MergedBefore ==
  /\ phase = "pack" => InOrder(trees)
  /\ status = "ok" => phase = "pack" /\ InOrder(payloads)
  /\ status # "uncovered"

BandInv == TypeOK /\ Held /\ Pushed /\ Progress /\ MergedBefore

-----------------------------------------------------------------------------
(* Tile indices                                                            *)

LEMMA IndexInRange ==
  ASSUME NEW tr \in 0 .. Bands - 1, NEW tc \in 0 .. Cols - 1
  PROVE  Index(tr, tc) \in Indices
<1> USE BandAssumption
<1>1. tr * Cols \in Nat /\ (Bands - 1 - tr) * Cols >= 0
  BY SMT
<1>2. (Bands - 1 - tr) * Cols = Bands * Cols - Cols - tr * Cols
  BY SMT
<1>3. QED
  BY <1>1, <1>2, SMT DEF Index, Indices

LEMMA IndexInjective ==
  ASSUME NEW t1 \in 0 .. Bands - 1, NEW c1 \in 0 .. Cols - 1,
         NEW t2 \in 0 .. Bands - 1, NEW c2 \in 0 .. Cols - 1,
         Index(t1, c1) = Index(t2, c2)
  PROVE  t1 = t2 /\ c1 = c2
<1> USE BandAssumption
<1>1. ASSUME NEW a \in Nat, NEW b \in Nat, a < b,
             NEW x \in 0 .. Cols - 1, NEW y \in 0 .. Cols - 1
      PROVE  a * Cols + x # b * Cols + y
  <2>1. (b - a - 1) * Cols >= 0
    BY <1>1, SMT
  <2>2. (b - a - 1) * Cols = b * Cols - a * Cols - Cols
    BY <1>1, SMT
  <2>3. QED
    BY <1>1, <2>1, <2>2, SMT
<1>2. t1 = t2
  BY <1>1 DEF Index
<1>3. QED
  BY <1>2 DEF Index

LEMMA IndexOnto ==
  ASSUME NEW idx \in Indices
  PROVE  /\ idx \div Cols \in 0 .. Bands - 1
         /\ idx % Cols \in 0 .. Cols - 1
         /\ idx = Index(idx \div Cols, idx % Cols)
<1> USE BandAssumption
<1> DEFINE tr == idx \div Cols
           tc == idx % Cols
<1>1. idx \in Nat /\ idx < Bands * Cols
  BY SMT DEF Indices
<1>2. tr \in Nat /\ tc \in 0 .. Cols - 1 /\ idx = tr * Cols + tc
  BY <1>1, SMT
<1>3. tr < Bands
  <2>1. ASSUME tr >= Bands PROVE FALSE
    <3>1. (tr - Bands) * Cols >= 0
      BY <1>2, <2>1, SMT
    <3>2. (tr - Bands) * Cols = tr * Cols - Bands * Cols
      BY <1>2, SMT
    <3>3. QED
      BY <1>1, <1>2, <3>1, <3>2, SMT
  <2>2. QED
    BY <1>2, <2>1
<1>4. tr \in 0 .. Bands - 1 /\ tc \in 0 .. Cols - 1
  BY <1>2, <1>3
<1>5. idx = Index(tr, tc)
  BY <1>2 DEF Index
<1>6. QED
  BY <1>4, <1>5

-----------------------------------------------------------------------------
(* Merging                                                                 *)

(* Whatever the results are, the merge keeps its shape. *)
LEMMA MergedTyped ==
  ASSUME out \in [Workers -> SUBSET Result]
  PROVE  Merged \in [Indices -> TileNames \cup {<<>>}]
<1>1. \A r \in Results : r.tile \in TileNames
  BY DEF Results, Result
<1>2. QED
  BY <1>1 DEF Merged

(* Once every worker has returned normally, the results are those of all the
   tiles, and the merge puts each at its own index. *)
LEMMA MergedComplete ==
  ASSUME BandInv, Joined, Failure = {}
  PROVE  /\ InOrder(Merged)
         /\ \A idx \in Indices : Merged[idx] # <<>>
<1>1. \A w \in Workers : pc[w] = "done"
  BY DEF Joined, Failure
<1>2. 0 \in Workers
  BY BandAssumption DEF Workers
<1>3. cursor = Bands
  BY <1>1, <1>2 DEF BandInv, Progress
<1>4. ASSUME NEW tr \in 0 .. Bands - 1, NEW tc \in 0 .. Cols - 1
      PROVE  Merged[Index(tr, tc)] = <<tr, tc>>
  <2>1. tr < cursor
    BY <1>3, BandAssumption
  <2>2. PICK w \in Workers : [idx |-> Index(tr, tc), tile |-> <<tr, tc>>] \in out[w]
    BY <1>1, <2>1 DEF BandInv, Progress, Accounted, Active
  <2>3. \E r \in Results : r.idx = Index(tr, tc)
    BY <2>2 DEF Results
  <2>4. ASSUME NEW r \in Results, r.idx = Index(tr, tc) PROVE r.tile = <<tr, tc>>
    <3>1. PICK v \in Workers : r \in out[v]
      BY DEF Results
    <3>2. r \in Result /\ r.idx = Index(r.tile[1], r.tile[2])
      BY <3>1 DEF BandInv, TypeOK, Pushed
    <3>3. PICK a \in 0 .. Bands - 1, b \in 0 .. Cols - 1 : r.tile = <<a, b>>
      BY <3>2 DEF Result, TileNames
    <3>4. Index(a, b) = Index(tr, tc)
      BY <2>4, <3>2, <3>3
    <3>5. a = tr /\ b = tc
      BY <3>4, IndexInjective
    <3>6. QED
      BY <3>3, <3>5
  <2>5. Index(tr, tc) \in Indices
    BY IndexInRange
  <2>6. QED
    BY <2>3, <2>4, <2>5 DEF Merged
<1>5. InOrder(Merged)
  BY <1>4 DEF InOrder
<1>6. \A idx \in Indices : Merged[idx] # <<>>
  BY <1>4, IndexOnto
<1>7. QED
  BY <1>5, <1>6

-----------------------------------------------------------------------------
(* The invariant                                                           *)

LEMMA BandInitially == Init => BandInv
<1> SUFFICES ASSUME Init PROVE BandInv
  OBVIOUS
<1> USE BandAssumption DEF Init
<1>1. TypeOK
  <2>1. band \in [Workers -> 0 .. Bands - 1] /\ col \in [Workers -> 0 .. Cols - 1]
    OBVIOUS
  <2>2. out \in [Workers -> SUBSET Result]
    OBVIOUS
  <2>3. trees \in [Indices -> TileNames \cup {<<>>}]
        /\ payloads \in [Indices -> TileNames \cup {<<>>}]
    BY DEF NoTiles
  <2>4. pc \in [Workers -> {"claim", "poll", "work", "done", "stopped", "panicked"}]
    OBVIOUS
  <2>5. cursor \in 0 .. Bands
    OBVIOUS
  <2>6. QED
    BY <2>1, <2>2, <2>3, <2>4, <2>5, Zenon DEF TypeOK
<1>2. Held /\ Pushed /\ Progress
  BY DEF Held, Pushed, Progress, Active
<1>3. MergedBefore
  BY DEF MergedBefore
<1>4. QED
  BY <1>1, <1>2, <1>3 DEF BandInv

LEMMA ClaimPreserves ==
  ASSUME BandInv, NEW w \in Workers, Claim(w)
  PROVE  BandInv'
<1> USE BandAssumption DEF BandInv
<1>1. CASE /\ cursor < Bands
           /\ band' = [band EXCEPT ![w] = cursor]
           /\ col' = [col EXCEPT ![w] = 0]
           /\ cursor' = Advanced(cursor)
           /\ pc' = [pc EXCEPT ![w] = "poll"]
  <2>1. cursor' = cursor + 1 /\ cursor \in Nat /\ pc[w] = "claim"
    BY <1>1 DEF Advanced, Claim, TypeOK
  <2>2. TypeOK'
    BY <1>1, <2>1 DEF Claim, TypeOK
  <2>3. \A v \in Workers : v # w => pc'[v] = pc[v] /\ band'[v] = band[v] /\ col'[v] = col[v]
    BY <1>1 DEF TypeOK
  <2>4. pc'[w] = "poll" /\ band'[w] = cursor /\ col'[w] = 0 /\ out' = out
    BY <1>1 DEF Claim, TypeOK
  <2>5. Held'
    <3>1. \A v \in Workers : band[v] \in Nat
      BY DEF TypeOK
    <3>2. \A v \in Workers : Active(v) /\ v # w => Active(v)' /\ band'[v] < cursor
      BY <2>1, <2>3, <3>1 DEF Held, Active
    <3>3. \A v \in Workers : v # w => (Active(v)' <=> Active(v))
      BY <2>3 DEF Active
    <3>4. QED
      BY <2>1, <2>3, <2>4, <3>1, <3>2, <3>3 DEF Held
  <2>6. Pushed'
    <3>1. \A v \in Workers : \A r \in out[v] : r.tile[1] \in Nat /\ r.tile[1] < cursor
      BY DEF TypeOK, Result, TileNames, Pushed
    <3>2. \A v \in Workers : v # w => (Active(v)' <=> Active(v))
      BY <2>3 DEF Active
    <3>3. QED
      BY <2>1, <2>3, <2>4, <3>1, <3>2 DEF Pushed
  <2>7. Progress'
    <3>1. ASSUME NEW b \in 0 .. Bands - 1, NEW c \in 0 .. Cols - 1, b < cursor'
          PROVE  Accounted(b, c)'
      <4>1. CASE b = cursor
        BY <2>4, <4>1 DEF Accounted, Active
      <4>2. CASE b # cursor
        <5>1. b < cursor
          BY <2>1, <3>1, <4>2
        <5>2. Accounted(b, c)
          BY <5>1 DEF Progress
        <5>3. QED
          BY <2>1, <2>3, <2>4, <5>2 DEF Accounted, Active
      <4>3. QED
        BY <4>1, <4>2
    <3>2. \A v \in Workers : pc'[v] # "done"
      BY <1>1, <2>1, <2>3, <2>4 DEF Progress
    <3>3. QED
      BY <3>1, <3>2 DEF Progress
  <2>8. MergedBefore'
    BY <1>1 DEF Claim, MergedBefore, InOrder
  <2>9. QED
    BY <2>2, <2>5, <2>6, <2>7, <2>8
<1>2. CASE /\ cursor >= Bands
           /\ pc' = [pc EXCEPT ![w] = "done"]
           /\ UNCHANGED <<band, col, cursor>>
  <2>1. cursor = Bands /\ pc[w] = "claim"
    BY <1>2 DEF TypeOK, Claim
  <2>2. TypeOK'
    BY <1>2 DEF Claim, TypeOK
  <2>3. \A v \in Workers : v # w => pc'[v] = pc[v]
    BY <1>2 DEF TypeOK
  <2>4. pc'[w] = "done" /\ out' = out
    BY <1>2 DEF Claim, TypeOK
  <2>5. Held' /\ Pushed'
    BY <1>2, <2>3, <2>4 DEF Held, Pushed, Active
  <2>6. Progress'
    BY <1>2, <2>1, <2>3, <2>4 DEF Progress, Accounted, Active
  <2>7. MergedBefore'
    BY <1>2 DEF Claim, MergedBefore, InOrder
  <2>8. QED
    BY <2>2, <2>5, <2>6, <2>7
<1>3. QED
  BY <1>1, <1>2 DEF Claim

(* A worker that polls, stops or panics keeps its band and its results. *)
LEMMA StaysOrLeaves ==
  ASSUME BandInv, NEW w \in Workers, Active(w),
         NEW next \in {"poll", "work", "stopped", "panicked"},
         pc' = [pc EXCEPT ![w] = next],
         UNCHANGED <<phase, cursor, band, col, out, trees, payloads, status, stop>>
  PROVE  BandInv'
<1> USE DEF BandInv
<1>1. TypeOK'
  BY DEF TypeOK
<1>2. pc'[w] = next /\ \A v \in Workers : v # w => pc'[v] = pc[v]
  BY DEF TypeOK
<1>3. \A v \in Workers : Active(v)' => Active(v)
  BY <1>2 DEF Active
<1>4. Held' /\ Pushed'
  BY <1>3 DEF Held, Pushed
<1>5. Progress'
  <2>1. ASSUME NEW b \in 0 .. Bands - 1, NEW c \in 0 .. Cols - 1, b < cursor
        PROVE  Accounted(b, c)'
    <3>1. Accounted(b, c)
      BY <2>1 DEF Progress
    <3>2. CASE next \in {"poll", "work"}
      <4>1. \A v \in Workers : Active(v) => Active(v)'
        BY <1>2, <3>2 DEF Active
      <4>2. \A v \in Workers : pc[v] \in {"stopped", "panicked"}
                              => pc'[v] \in {"stopped", "panicked"}
        BY <1>2 DEF Active
      <4>3. QED
        BY <3>1, <4>1, <4>2 DEF Accounted
    <3>3. CASE next \in {"stopped", "panicked"}
      BY <1>2, <3>3 DEF Accounted
    <3>4. QED
      BY <3>2, <3>3
  <2>2. \A v \in Workers : pc'[v] = "done" => pc[v] = "done"
    BY <1>2
  <2>3. QED
    BY <2>1, <2>2 DEF Progress
<1>6. MergedBefore'
  BY DEF MergedBefore, InOrder
<1>7. QED
  BY <1>1, <1>4, <1>5, <1>6

LEMMA FinishTilePreserves ==
  ASSUME BandInv, NEW w \in Workers, FinishTile(w)
  PROVE  BandInv'
<1> USE BandAssumption DEF BandInv
<1> DEFINE b0 == band[w]
           c0 == col[w]
           coded == [idx |-> Index(b0, c0), tile |-> <<b0, c0>>]
<1>1. /\ b0 \in 0 .. Bands - 1 /\ c0 \in 0 .. Cols - 1 /\ pc[w] = "work"
      /\ b0 < cursor
  BY DEF TypeOK, FinishTile, Held, Active
<1>2. coded \in Result
  BY <1>1, IndexInRange DEF Result, TileNames
<1>3. out' = [out EXCEPT ![w] = out[w] \cup {coded}]
      /\ UNCHANGED <<phase, cursor, band, trees, payloads, status, stop>>
  BY DEF FinishTile
<1>4. \/ c0 + 1 < Cols /\ col' = [col EXCEPT ![w] = c0 + 1]
        /\ pc' = [pc EXCEPT ![w] = "poll"]
      \/ c0 + 1 = Cols /\ col' = col /\ pc' = [pc EXCEPT ![w] = "claim"]
  BY DEF FinishTile
<1>5. TypeOK'
  <2>1. out' \in [Workers -> SUBSET Result]
    BY <1>2, <1>3 DEF TypeOK
  <2>2. col' \in [Workers -> 0 .. Cols - 1]
    <3>1. c0 + 1 < Cols => c0 + 1 \in 0 .. Cols - 1
      BY <1>1
    <3>2. col \in [Workers -> 0 .. Cols - 1]
      BY DEF TypeOK
    <3>3. QED
      BY <1>4, <3>1, <3>2, Zenon
  <2>3. pc' \in [Workers -> {"claim", "poll", "work", "done", "stopped", "panicked"}]
    BY <1>4 DEF TypeOK
  <2>4. QED
    BY <1>3, <2>1, <2>2, <2>3, Zenon DEF TypeOK
<1>6. \A v \in Workers : v # w => pc'[v] = pc[v] /\ col'[v] = col[v] /\ out'[v] = out[v]
  BY <1>3, <1>4 DEF TypeOK
<1>7. pc'[w] \in {"poll", "claim"} /\ out'[w] = out[w] \cup {coded}
  BY <1>3, <1>4 DEF TypeOK
<1>8. \A v \in Workers : Active(v)' => Active(v)
  BY <1>1, <1>6, <1>7 DEF Active
<1>9. Held'
  BY <1>3, <1>8 DEF Held
<1>10. Pushed'
  <2>1. ASSUME NEW v \in Workers, NEW r \in out'[v]
        PROVE  /\ r.idx = Index(r.tile[1], r.tile[2])
               /\ r.tile[1] < cursor
               /\ \A u \in Workers : u # v /\ Active(u)' => band[u] # r.tile[1]
    <3>1. CASE r \in out[v]
      BY <1>8, <3>1 DEF Pushed
    <3>2. CASE r \notin out[v]
      <4>1. v = w /\ r = coded
        BY <1>6, <1>7, <3>2
      <4>2. Active(w)
        BY <1>1 DEF Active
      <4>3. \A u \in Workers : u # w /\ Active(u)' => band[u] # b0
        BY <1>8, <4>2 DEF Held
      <4>4. QED
        BY <1>1, <4>1, <4>3
    <3>3. QED
      BY <3>1, <3>2
  <2>2. QED
    BY <1>3, <2>1 DEF Pushed
<1>11. Progress'
  <2>1. ASSUME NEW b \in 0 .. Bands - 1, NEW c \in 0 .. Cols - 1, b < cursor
        PROVE  Accounted(b, c)'
    <3>1. Accounted(b, c)
      BY <2>1 DEF Progress
    <3>2. CASE \E v \in Workers : [idx |-> Index(b, c), tile |-> <<b, c>>] \in out[v]
      BY <1>6, <1>7, <3>2 DEF Accounted
    <3>3. CASE \E v \in Workers : pc[v] \in {"stopped", "panicked"}
      BY <1>1, <1>6, <3>3 DEF Accounted
    <3>4. CASE \E v \in Workers : Active(v) /\ band[v] = b /\ col[v] <= c
      <4>1. PICK v \in Workers : Active(v) /\ band[v] = b /\ col[v] <= c
        BY <3>4
      <4>2. CASE v # w
        BY <1>3, <1>6, <4>1, <4>2 DEF Accounted, Active
      <4>3. CASE v = w /\ c = c0
        BY <1>7, <4>1, <4>3 DEF Accounted
      <4>4. CASE v = w /\ c # c0
        <5>1. c0 + 1 <= c /\ c0 + 1 < Cols
          BY <1>1, <4>1, <4>4
        <5>2. col'[w] = c0 + 1 /\ pc'[w] = "poll"
          BY <1>1, <1>4, <5>1 DEF TypeOK
        <5>3. QED
          BY <1>3, <4>1, <4>4, <5>1, <5>2 DEF Accounted, Active
      <4>5. QED
        BY <4>2, <4>3, <4>4
    <3>5. QED
      BY <3>1, <3>2, <3>3, <3>4 DEF Accounted
  <2>2. \A v \in Workers : pc'[v] = "done" => pc[v] = "done"
    BY <1>6, <1>7
  <2>3. QED
    BY <1>3, <2>1, <2>2 DEF Progress
<1>12. MergedBefore'
  BY <1>3 DEF MergedBefore, InOrder
<1>13. QED
  BY <1>5, <1>9, <1>10, <1>11, <1>12

LEMMA CollectPreserves ==
  ASSUME BandInv, Collect
  PROVE  BandInv'
<1> USE BandAssumption DEF BandInv
<1>1. Merged \in [Indices -> TileNames \cup {<<>>}]
  BY MergedTyped DEF TypeOK
<1>2. CASE CollectFailure
  <2>1. TypeOK'
    BY <1>2 DEF CollectFailure, TypeOK
  <2>2. Held' /\ Pushed'
    BY <1>2 DEF CollectFailure, Held, Pushed, Active
  <2>3. Progress'
    BY <1>2 DEF CollectFailure, Progress, Accounted, Active
  <2>4. MergedBefore'
    BY <1>2 DEF CollectFailure, MergedBefore, InOrder
  <2>5. QED
    BY <2>1, <2>2, <2>3, <2>4
<1>3. CASE CollectTrees
  <2>1. InOrder(Merged) /\ \A idx \in Indices : Merged[idx] # <<>>
    BY <1>3, MergedComplete DEF CollectTrees
  <2>2. /\ trees' = Merged /\ status' = status /\ status = "running"
        /\ phase' = "pack" /\ cursor' = 0
        /\ pc' = [w \in Workers |-> "claim"]
        /\ out' = [w \in Workers |-> {}]
        /\ UNCHANGED <<band, col, payloads, stop>>
    BY <1>3, <2>1 DEF CollectTrees
  <2>3. TypeOK'
    <3>1. cursor' \in 0 .. Bands
      BY <2>2
    <3>2. out' \in [Workers -> SUBSET Result]
      BY <2>2
    <3>3. QED
      BY <1>1, <2>2, <3>1, <3>2 DEF TypeOK
  <2>4. Held' /\ Pushed' /\ Progress'
    BY <2>2 DEF Held, Pushed, Progress, Active
  <2>5. MergedBefore'
    BY <2>1, <2>2 DEF MergedBefore, InOrder
  <2>6. QED
    BY <2>3, <2>4, <2>5
<1>4. CASE CollectPayloads
  <2>1. InOrder(Merged)
    BY <1>4, MergedComplete DEF CollectPayloads
  <2>2. TypeOK'
    BY <1>1, <1>4 DEF CollectPayloads, TypeOK
  <2>3. Held' /\ Pushed'
    BY <1>4 DEF CollectPayloads, Held, Pushed, Active
  <2>4. Progress'
    BY <1>4 DEF CollectPayloads, Progress, Accounted, Active
  <2>5. MergedBefore'
    BY <1>4, <2>1 DEF CollectPayloads, MergedBefore, InOrder
  <2>6. QED
    BY <2>2, <2>3, <2>4, <2>5
<1>5. QED
  BY <1>2, <1>3, <1>4 DEF Collect

LEMMA BandPreserved == BandInv /\ [Next]_vars => BandInv'
<1> SUFFICES ASSUME BandInv, [Next]_vars PROVE BandInv'
  OBVIOUS
<1>1. ASSUME NEW w \in Workers, Claim(w) PROVE BandInv'
  BY <1>1, ClaimPreserves
<1>2. ASSUME NEW w \in Workers, Poll(w) PROVE BandInv'
  <2>1. Active(w)
    BY <1>2 DEF Poll, Active
  <2>2. (IF stop THEN "stopped" ELSE "work") \in {"poll", "work", "stopped", "panicked"}
    OBVIOUS
  <2>3. QED
    BY <1>2, <2>1, <2>2, StaysOrLeaves DEF Poll
<1>3. ASSUME NEW w \in Workers, FinishTile(w) PROVE BandInv'
  BY <1>3, FinishTilePreserves
<1>4. ASSUME NEW w \in Workers, Panic(w) PROVE BandInv'
  <2>1. Active(w)
    BY <1>4 DEF Panic, Active
  <2>2. QED
    BY <1>4, <2>1, StaysOrLeaves DEF Panic
<1>5. CASE Collect
  BY <1>5, CollectPreserves
<1>6. CASE RequestStop \/ UNCHANGED vars
  <2>1. UNCHANGED <<phase, cursor, pc, band, col, out, trees, payloads, status>>
        /\ stop' \in BOOLEAN
    BY <1>6 DEF RequestStop, vars, BandInv, TypeOK
  <2>2. TypeOK'
    BY <2>1 DEF BandInv, TypeOK
  <2>3. Held' /\ Pushed' /\ Progress' /\ MergedBefore'
    BY <2>1 DEF BandInv, Held, Pushed, Progress, Accounted, Active,
                MergedBefore, InOrder
  <2>4. QED
    BY <2>2, <2>3 DEF BandInv
<1>7. QED
  BY <1>1, <1>2, <1>3, <1>4, <1>5, <1>6 DEF Next, Work

LEMMA BandInvariant == Spec => []BandInv
BY BandInitially, BandPreserved, PTL DEF Spec

-----------------------------------------------------------------------------
(* The theorems                                                            *)

(* The state keeps its shape whatever the schedule. *)
THEOREM TypeCorrect == Spec => []TypeOK
<1>1. BandInv => TypeOK
  BY DEF BandInv
<1>2. QED
  BY <1>1, BandInvariant, PTL

(* No two workers ever share a band, or enter one that was already drawn. *)
THEOREM BandsAreExclusive == Spec => []BandsExclusive
<1>1. BandInv => BandsExclusive
  BY DEF BandInv, Held, Pushed, Active, BandsExclusive
<1>2. QED
  BY <1>1, BandInvariant, PTL

(* The InternalInvariant error of the merge is unreachable. *)
THEOREM EverySuperblockCovered == Spec => []NeverUncovered
<1>1. BandInv => NeverUncovered
  BY DEF BandInv, MergedBefore, NeverUncovered
<1>2. QED
  BY <1>1, BandInvariant, PTL

(* A successful encode holds every tile at its own index, whatever the number of
   workers and whatever their schedule. *)
THEOREM OutputDeterministic == Spec => []OutputInTileOrder
<1>1. BandInv => OutputInTileOrder
  BY DEF BandInv, MergedBefore, InOrder, Index, OutputInTileOrder
<1>2. QED
  BY <1>1, BandInvariant, PTL

-----------------------------------------------------------------------------
(* Refinement                                                              *)

RefinementInv ==
  /\ BandInv
  /\ phase = "search" => trees = NoTiles
  /\ \A w \in Workers : pc[w] = "stopped" => stop

LEMMA RefinementInvariant == Spec => []RefinementInv
<1>1. Init => RefinementInv
  <2>1. ASSUME Init PROVE RefinementInv
    <3>1. \A w \in Workers : pc[w] # "stopped"
      BY <2>1 DEF Init
    <3>2. QED
      BY <2>1, <3>1, BandInitially DEF Init, RefinementInv
  <2>2. QED
    BY <2>1
<1>2. RefinementInv /\ [Next]_vars => RefinementInv'
  <2> SUFFICES ASSUME RefinementInv, [Next]_vars PROVE RefinementInv'
    OBVIOUS
  <2> USE DEF RefinementInv
  <2>1. BandInv'
    BY BandPreserved
  <2>2. phase' = "search" => trees' = NoTiles'
    <3>1. NoTiles' = NoTiles
      BY DEF NoTiles, Indices
    <3>2. (UNCHANGED <<phase, trees>>) \/ phase' = "pack"
      BY DEF Next, Work, Claim, Poll, FinishTile, Panic, Collect, CollectFailure,
             CollectTrees, CollectPayloads, RequestStop, vars
    <3>3. QED
      BY <3>1, <3>2
  <2>3. \A w \in Workers : pc'[w] = "stopped" => stop'
    <3>1. stop => stop'
      BY DEF Next, Work, Claim, Poll, FinishTile, Panic, Collect, CollectFailure,
             CollectTrees, CollectPayloads, RequestStop, vars
    <3>2. ASSUME NEW w \in Workers, pc'[w] = "stopped", pc[w] # "stopped"
          PROVE  stop'
      <4>1. PICK v \in Workers : Poll(v)
        BY <3>2 DEF Next, Work, Claim, FinishTile, Panic, Collect, CollectFailure,
             CollectTrees, CollectPayloads, RequestStop, vars, BandInv, TypeOK
      <4>2. QED
        BY <3>2, <4>1 DEF Poll, BandInv, TypeOK
    <3>3. QED
      BY <3>1, <3>2
  <2>4. QED
    BY <2>1, <2>2, <2>3
<1>3. QED
  BY <1>1, <1>2, PTL DEF Spec

LEMMA InOrderIsAll ==
  ASSUME NEW f \in [Indices -> TileNames \cup {<<>>}], InOrder(f)
  PROVE  f = Contract!AllTiles
<1>1. \A idx \in Indices : f[idx] = <<idx \div Cols, idx % Cols>>
  BY IndexOnto DEF InOrder
<1>2. QED
  BY <1>1 DEF Contract!AllTiles, Contract!Tile, Indices

(* One step of the workers or of the caller is one step, or none, of the
   contract. *)
LEMMA BandStepRefines == RefinementInv /\ [Next]_vars => [Contract!Next]_(Contract!vars)
<1> SUFFICES ASSUME RefinementInv, [Next]_vars PROVE [Contract!Next]_(Contract!vars)
  OBVIOUS
<1> USE DEF RefinementInv
<1>1. Contract!NoTiles = NoTiles
  BY DEF Contract!NoTiles, NoTiles, Indices
<1>2. ASSUME NEW w \in Workers, Work(w) \/ Panic(w) PROVE UNCHANGED Contract!vars
  BY <1>2 DEF Work, Claim, Poll, FinishTile, Panic, Contract!vars
<1>3. CASE CollectFailure
  <2>1. "panicked" \notin Failure => stop
    BY <1>3 DEF CollectFailure, Failure
  <2>2. Contract!Fail
    BY <1>3, <2>1 DEF CollectFailure, Contract!Fail
  <2>3. QED
    BY <2>2 DEF Contract!Next
<1>4. CASE CollectTrees
  <2>1. InOrder(Merged) /\ \A idx \in Indices : Merged[idx] # <<>>
    BY <1>4, MergedComplete DEF CollectTrees
  <2>2. Merged = Contract!AllTiles
    BY <2>1, MergedTyped, InOrderIsAll DEF BandInv, TypeOK
  <2>3. Contract!Search
    BY <1>1, <1>4, <2>1, <2>2 DEF CollectTrees, Contract!Search
  <2>4. QED
    BY <2>3 DEF Contract!Next
<1>5. CASE CollectPayloads
  <2>1. InOrder(Merged)
    BY <1>5, MergedComplete DEF CollectPayloads
  <2>2. Merged = Contract!AllTiles
    BY <2>1, MergedTyped, InOrderIsAll DEF BandInv, TypeOK
  <2>3. trees = Contract!AllTiles
    BY <1>5, InOrderIsAll DEF CollectPayloads, BandInv, TypeOK, MergedBefore
  <2>4. Contract!Pack
    BY <1>5, <2>2, <2>3 DEF CollectPayloads, Contract!Pack
  <2>5. QED
    BY <2>4 DEF Contract!Next
<1>6. CASE RequestStop
  BY <1>6 DEF RequestStop, Contract!Next, Contract!RequestStop
<1>7. CASE UNCHANGED vars
  BY <1>7 DEF vars, Contract!vars
<1>8. QED
  BY <1>2, <1>3, <1>4, <1>5, <1>6, <1>7 DEF Next, Collect

(* The banded encode is the two atomic passes of the contract. *)
THEOREM BandsImplementContract == Spec => ContractSpec
<1>1. Init => Contract!Init
  BY DEF Init, Contract!Init, NoTiles, Contract!NoTiles, Indices
<1>2. QED
  BY <1>1, BandStepRefines, RefinementInvariant, PTL DEF Spec, ContractSpec, Contract!Spec

-----------------------------------------------------------------------------
(* The chunks                                                              *)

LEMMA Division ==
  /\ NumWorkers \in Nat \ {0} /\ NumWorkers <= Rows
  /\ Per \in Nat \ {0} /\ Rem \in 0 .. NumWorkers - 1
  /\ Rows = NumWorkers * Per + Rem
<1> USE GridAssumption
<1>1. NumWorkers \in Nat \ {0} /\ NumWorkers <= Rows
  BY DEF NumWorkers
<1>2. ASSUME NEW n \in Nat \ {0}, n <= Rows
      PROVE  /\ Rows \div n \in Nat \ {0} /\ Rows % n \in 0 .. n - 1
             /\ Rows = n * (Rows \div n) + (Rows % n)
  <2>1. Rows \div n \in Int /\ Rows % n \in 0 .. n - 1 /\ Rows = n * (Rows \div n) + (Rows % n)
    BY <1>2
  <2>2. ASSUME Rows \div n <= 0 PROVE FALSE
    <3> DEFINE q == Rows \div n
    <3>1. n * q <= 0
      BY <1>2, <2>1, <2>2, SMT
    <3>2. QED
      BY <1>2, <2>1, <3>1
  <2>3. QED
    BY <2>1, <2>2
<1>3. QED
  BY <1>1, <1>2 DEF Per, Rem

(* Consecutive chunks: each starts where the one before ends. *)
LEMMA ChunksFollow ==
  ASSUME NEW w \in GridWorkers
  PROVE  /\ Start(w) \in Nat /\ Take(w) \in Nat
         /\ Start(w + 1) = Start(w) + Take(w)
<1>1. w \in Nat /\ Per \in Nat /\ Rem \in Nat
  BY Division DEF GridWorkers
<1>2. w * Per \in Nat /\ (w + 1) * Per = w * Per + Per
  BY <1>1, SMT
<1>3. QED
  BY <1>1, <1>2 DEF Start, Take

LEMMA ChunksOrdered ==
  ASSUME NEW v \in GridWorkers, NEW w \in 0 .. NumWorkers, v < w
  PROVE  Start(v) + Take(v) <= Start(w)
<1>1. /\ v \in Nat /\ w \in Nat /\ Per \in Nat /\ Rem \in Nat
  BY Division DEF GridWorkers
<1>2. (w - v - 1) * Per >= 0
  BY <1>1, SMT
<1>3. /\ (w - v - 1) * Per = w * Per - v * Per - Per
      /\ w * Per \in Nat /\ v * Per \in Nat
  BY <1>1, SMT
<1>4. QED
  BY <1>1, <1>2, <1>3 DEF Start, Take

LEMMA ChunkInGrid ==
  ASSUME NEW w \in GridWorkers
  PROVE  Start(w) + Take(w) <= Rows
<1>1. NumWorkers \in 0 .. NumWorkers /\ w < NumWorkers /\ Start(NumWorkers) = Rows
  BY Division DEF GridWorkers, Start
<1>2. QED
  BY <1>1, ChunksOrdered

(* Euclid, for the two halves of the next lemma. *)
LEMMA Quotient ==
  ASSUME NEW x \in Nat, NEW d \in Nat \ {0}
  PROVE  \E q \in Nat : q * d <= x /\ x < q * d + d
<1>1. /\ x \div d \in Nat /\ x % d \in 0 .. d - 1
      /\ x = d * (x \div d) + (x % d)
  BY SMT
<1>2. (x \div d) * d = d * (x \div d) /\ d * (x \div d) \in Int
  BY <1>1, SMT
<1> DEFINE q == x \div d
<1>3. q \in Nat /\ q * d <= x /\ x < q * d + d
  <2>1. q \in Nat /\ q * d \in Int /\ x = q * d + (x % d)
    BY <1>1, <1>2
  <2>2. x % d \in 0 .. d - 1
    BY <1>1
  <2> HIDE DEF q
  <2> DEFINE p == q * d
             m == x % d
  <2>3. p \in Int /\ x = p + m /\ m \in 0 .. d - 1
    BY <2>1, <2>2
  <2> HIDE DEF p, m
  <2>4. p <= x /\ x < p + d
    BY <2>3
  <2>5. QED
    BY <2>1, <2>4 DEF p
<1>4. QED
  BY <1>3

(* Every row is in some worker's chunk: in one of the larger ones, which come
   first, or in one of the rest. *)
LEMMA EveryRowInChunk ==
  ASSUME NEW r \in AllRows
  PROVE  \E w \in GridWorkers : Start(w) <= r /\ r < Start(w) + Take(w)
<1> USE GridAssumption
<1>1. /\ r \in Nat /\ r < Rows /\ Per \in Nat \ {0} /\ Rem \in 0 .. NumWorkers - 1
      /\ NumWorkers \in Nat /\ Rows = NumWorkers * Per + Rem
  BY Division DEF AllRows
<1>2. /\ Rem * (Per + 1) \in Nat /\ Rem * Per \in Nat
      /\ Rem * (Per + 1) = Rem * Per + Rem
  BY <1>1, SMT
<1>3. CASE r < Rem * (Per + 1)
  <2>1. PICK w \in Nat : w * (Per + 1) <= r /\ r < w * (Per + 1) + (Per + 1)
    BY <1>1, Quotient, Per + 1 \in Nat \ {0}
  <2>2. w * (Per + 1) = w * Per + w /\ w * Per \in Nat
    BY <1>1, <2>1, SMT
  <2>3. w < Rem
    <3>1. ASSUME w >= Rem PROVE FALSE
      <4>1. (w - Rem) * (Per + 1) >= 0
        BY <1>1, <3>1, SMT
      <4>2. (w - Rem) * (Per + 1) = w * (Per + 1) - Rem * (Per + 1)
        BY <1>1, SMT
      <4>3. QED
        BY <1>1, <1>2, <1>3, <2>1, <2>2, <4>1, <4>2
    <3>2. QED
      BY <1>1, <3>1
  <2>4. w \in GridWorkers
    BY <1>1, <2>3 DEF GridWorkers
  <2>5. Start(w) = w * Per + w /\ Take(w) = Per + 1
    BY <1>1, <2>3 DEF Start, Take
  <2>6. QED
    BY <1>1, <2>1, <2>2, <2>4, <2>5
<1>4. CASE r >= Rem * (Per + 1)
  <2>1. PICK q \in Nat : /\ q * Per <= r - Rem * (Per + 1)
                         /\ r - Rem * (Per + 1) < q * Per + Per
    BY <1>1, <1>2, <1>4, Quotient, r - Rem * (Per + 1) \in Nat
  <2>2. q * Per \in Nat /\ NumWorkers * Per \in Nat /\ (Rem + q) * Per = Rem * Per + q * Per
    BY <1>1, SMT
  <2>3. Rem + q < NumWorkers
    <3>1. ASSUME Rem + q >= NumWorkers PROVE FALSE
      <4>1. (Rem + q - NumWorkers) * Per >= 0
        BY <1>1, <3>1, SMT
      <4>2. (Rem + q - NumWorkers) * Per = Rem * Per + q * Per - NumWorkers * Per
        BY <1>1, SMT
      <4>3. QED
        BY <1>1, <1>2, <2>1, <2>2, <4>1, <4>2
    <3>2. QED
      BY <1>1, <3>1
  <2>4. Rem + q \in GridWorkers
    BY <1>1, <2>3 DEF GridWorkers
  <2>5. Start(Rem + q) = (Rem + q) * Per + Rem /\ Take(Rem + q) = Per
    BY <1>1 DEF Start, Take
  <2>6. Start(Rem + q) <= r /\ r < Start(Rem + q) + Take(Rem + q)
    BY <1>1, <1>2, <2>1, <2>2, <2>5
  <2>7. QED
    BY <2>4, <2>6
<1>5. QED
  BY <1>1, <1>2, <1>3, <1>4

-----------------------------------------------------------------------------
(* The invariant                                                           *)

Chunk(w) == Start(w) .. Start(w) + Take(w) - 1

(* The rows a worker still has to stamp are in the vector or in its hands, the
   ones it has passed are filled in. *)
GridInv ==
  /\ GridTypeOK
  /\ panicked = {}
  /\ \A w \in GridWorkers :
       /\ done[w] <= Take(w)
       /\ holds[w] = {} \/ (holds[w] = {NextRow(w)} /\ done[w] < Take(w))
       /\ \A r \in Chunk(w) :
            /\ r < NextRow(w) => r \in stamped
            /\ r >= NextRow(w) => r \in slices \cup holds[w]

LEMMA ChunksDisjoint ==
  ASSUME NEW v \in GridWorkers, NEW w \in GridWorkers, v # w
  PROVE  Chunk(v) \cap Chunk(w) = {}
<1>1. v \in 0 .. NumWorkers /\ w \in 0 .. NumWorkers /\ v \in Int /\ w \in Int
  BY Division DEF GridWorkers
<1>2. /\ Start(v) \in Nat /\ Take(v) \in Nat
      /\ Start(w) \in Nat /\ Take(w) \in Nat
  BY ChunksFollow
<1>3. Start(v) + Take(v) <= Start(w) \/ Start(w) + Take(w) <= Start(v)
  <2>1. CASE v < w
    BY <1>1, <2>1, ChunksOrdered
  <2>2. CASE w < v
    BY <1>1, <2>2, ChunksOrdered
  <2>3. QED
    BY <1>1, <2>1, <2>2
<1>4. QED
  BY <1>2, <1>3 DEF Chunk

LEMMA ChunkRows ==
  ASSUME NEW w \in GridWorkers
  PROVE  Chunk(w) \subseteq AllRows
<1>1. Start(w) \in Nat /\ Take(w) \in Nat /\ Start(w) + Take(w) <= Rows
  BY ChunksFollow, ChunkInGrid
<1>2. QED
  BY <1>1, GridAssumption DEF Chunk, AllRows

LEMMA GridInitially == GridInit => GridInv
<1> SUFFICES ASSUME GridInit PROVE GridInv
  OBVIOUS
<1>1. GridTypeOK /\ panicked = {}
  BY DEF GridInit, GridTypeOK
<1>2. ASSUME NEW w \in GridWorkers
      PROVE  /\ done[w] = 0 /\ holds[w] = {} /\ NextRow(w) = Start(w)
             /\ Start(w) \in Nat /\ Take(w) \in Nat
  BY <1>2, ChunksFollow DEF GridInit, NextRow
<1>3. ASSUME NEW w \in GridWorkers, NEW r \in Chunk(w)
      PROVE  ~(r < NextRow(w)) /\ r \in slices
  <2>1. r \in slices
    BY ChunkRows DEF GridInit
  <2>2. QED
    BY <1>2, <2>1 DEF Chunk
<1>4. QED
  BY <1>1, <1>2, <1>3 DEF GridInv

LEMMA TakeKeeps ==
  ASSUME GridInv, NEW w \in GridWorkers, TakeSlice(w)
  PROVE  GridInv'
<1>1. /\ Start(w) \in Nat /\ Take(w) \in Nat /\ done[w] \in Nat
      /\ done[w] < Take(w) /\ holds[w] = {}
  BY ChunksFollow DEF GridInv, GridTypeOK, TakeSlice, Working
<1>2. NextRow(w) \in Chunk(w) /\ NextRow(w) \in Nat
  BY <1>1 DEF NextRow, Chunk
<1>3. NextRow(w) \in slices /\ NextRow(w) \in AllRows
  BY <1>1, <1>2, ChunkRows DEF GridInv
<1>4. /\ holds' = [holds EXCEPT ![w] = {NextRow(w)}] /\ panicked' = {}
      /\ slices' = slices \ {NextRow(w)} /\ done' = done /\ stamped' = stamped
  <2>1. {NextRow(w)} \cap slices = {NextRow(w)}
    BY <1>3
  <2>2. QED
    BY <1>3, <2>1 DEF TakeSlice, GridInv
<1>5. GridTypeOK'
  BY <1>3, <1>4 DEF GridInv, GridTypeOK
<1>6. ASSUME NEW v \in GridWorkers
      PROVE  /\ NextRow(v)' = NextRow(v)
             /\ holds'[v] = IF v = w THEN {NextRow(w)} ELSE holds[v]
  BY <1>4 DEF NextRow, GridInv, GridTypeOK
<1>7. ASSUME NEW v \in GridWorkers, NEW r \in Chunk(v)
      PROVE  /\ r < NextRow(v) => r \in stamped'
             /\ r >= NextRow(v) => r \in slices' \cup holds'[v]
  <2>1. /\ r < NextRow(v) => r \in stamped
        /\ r >= NextRow(v) => r \in slices \cup holds[v]
    BY DEF GridInv
  <2>2. v # w => r # NextRow(w)
    BY <1>2, ChunksDisjoint
  <2>3. QED
    BY <1>1, <1>4, <1>6, <2>1, <2>2
<1>8. QED
  BY <1>1, <1>4, <1>5, <1>6, <1>7 DEF GridInv, Chunk

LEMMA StampKeeps ==
  ASSUME GridInv, NEW w \in GridWorkers, StampRow(w)
  PROVE  GridInv'
<1>1. /\ Start(w) \in Nat /\ Take(w) \in Nat /\ done[w] \in Nat
      /\ done[w] < Take(w) /\ holds[w] = {NextRow(w)} /\ NextRow(w) \in Nat
  BY ChunksFollow DEF GridInv, GridTypeOK, StampRow, NextRow
<1>2. /\ stamped' = stamped \cup {NextRow(w)} /\ holds' = [holds EXCEPT ![w] = {}]
      /\ done' = [done EXCEPT ![w] = @ + 1] /\ slices' = slices /\ panicked' = {}
  BY <1>1 DEF StampRow, GridInv
<1>3. NextRow(w) \in AllRows
  <2>1. NextRow(w) \in Chunk(w)
    BY <1>1 DEF NextRow, Chunk
  <2>2. QED
    BY <2>1, ChunkRows
<1>4. GridTypeOK'
  BY <1>1, <1>2, <1>3 DEF GridInv, GridTypeOK
<1>5. ASSUME NEW v \in GridWorkers, v # w
      PROVE  /\ NextRow(v)' = NextRow(v) /\ holds'[v] = holds[v] /\ done'[v] = done[v]
  BY <1>2, <1>5 DEF NextRow, GridInv, GridTypeOK
<1>6. /\ NextRow(w)' = NextRow(w) + 1 /\ holds'[w] = {} /\ done'[w] = done[w] + 1
  BY <1>1, <1>2 DEF NextRow, GridInv, GridTypeOK
<1>7. ASSUME NEW v \in GridWorkers
      PROVE  /\ done'[v] <= Take(v)
             /\ holds'[v] = {} \/ (holds'[v] = {NextRow(v)'} /\ done'[v] < Take(v))
  BY <1>1, <1>5, <1>6 DEF GridInv
<1>8. ASSUME NEW v \in GridWorkers, NEW r \in Chunk(v)
      PROVE  /\ r < NextRow(v)' => r \in stamped'
             /\ r >= NextRow(v)' => r \in slices' \cup holds'[v]
  <2>1. /\ r < NextRow(v) => r \in stamped
        /\ r >= NextRow(v) => r \in slices \cup holds[v]
    BY DEF GridInv
  <2>2. r \in Int
    BY ChunkRows, GridAssumption DEF AllRows
  <2>3. CASE v # w
    BY <1>2, <1>5, <2>1, <2>3
  <2>4. CASE v = w
    <3>1. r < NextRow(w) + 1 => r < NextRow(w) \/ r = NextRow(w)
      BY <1>1, <2>2
    <3>2. r >= NextRow(w) + 1 => r >= NextRow(w) /\ r # NextRow(w)
      BY <1>1, <2>2
    <3>3. QED
      BY <1>1, <1>2, <1>6, <2>1, <2>4, <3>1, <3>2
  <2>5. QED
    BY <2>3, <2>4
<1>9. QED
  BY <1>2, <1>4, <1>7, <1>8 DEF GridInv, Chunk

(* The invariant holds throughout, for any number of rows and of workers. *)
THEOREM GridInvariant == GridSpec => []GridInv
<1>1. GridInv /\ [GridNext]_gridVars => GridInv'
  <2> SUFFICES ASSUME GridInv, [GridNext]_gridVars PROVE GridInv'
    OBVIOUS
  <2>1. CASE GridNext
    BY <2>1, TakeKeeps, StampKeeps DEF GridNext
  <2>2. CASE UNCHANGED gridVars
    BY <2>2 DEF gridVars, GridInv, GridTypeOK, NextRow, Chunk
  <2>3. QED
    BY <2>1, <2>2
<1>2. QED
  BY <1>1, GridInitially, PTL DEF GridSpec

(* No order of the workers makes `expect("one band per SB row")` fire. *)
THEOREM SliceAlwaysFound == GridSpec => []SliceFound
<1>1. GridInv => SliceFound
  BY DEF GridInv, SliceFound
<1>2. QED
  BY <1>1, GridInvariant, PTL

(* The grid the last worker leaves has every row filled in. *)
THEOREM GridAlwaysComplete == GridSpec => []GridComplete
<1>1. GridInv => GridComplete
  <2> SUFFICES ASSUME GridInv, \A w \in GridWorkers : ~Working(w)
               PROVE  stamped = AllRows
    BY DEF GridComplete
  <2>1. ASSUME NEW r \in AllRows PROVE r \in stamped
    <3>1. PICK w \in GridWorkers : Start(w) <= r /\ r < Start(w) + Take(w)
      BY EveryRowInChunk
    <3>2. /\ Start(w) \in Nat /\ Take(w) \in Nat /\ done[w] \in Nat /\ r \in Int
          /\ done[w] >= Take(w)
      BY ChunksFollow, GridAssumption DEF GridInv, GridTypeOK, Working, AllRows
    <3>3. r \in Chunk(w) /\ r < NextRow(w)
      BY <3>1, <3>2 DEF Chunk, NextRow
    <3>4. QED
      BY <3>3 DEF GridInv
  <2>2. QED
    BY <2>1 DEF GridInv, GridTypeOK
<1>2. QED
  BY <1>1, GridInvariant, PTL

=============================================================================
