-------------------------- MODULE DecoderContract --------------------------
(***************************************************************************)
(* What decode_frames promises: frames are decoded one at a time, each in  *)
(* one atomic step against the reference slots as they are in that step,   *)
(* and the caller gets all the output or none of it.  Sequence headers,    *)
(* the split between a header and its tiles, decode stages and the stop    *)
(* token are invisible at this level.                                      *)
(***************************************************************************)
EXTENDS Integers, Sequences

CONSTANTS Slots, NumRefs, Sizes

Refs == 1 .. NumRefs

VARIABLES
  slots,    (* The frame each reference slot holds, or Empty.              *)
  out,      (* The output so far.                                          *)
  status,   (* "decoding", then "ok", "error" or "cancelled".              *)
  count     (* Frames decoded.                                             *)

vars == <<slots, out, status, count>>

Empty == [id |-> 0, key |-> FALSE, showable |-> FALSE, size |-> 0,
          roots |-> {}, ctx |-> 0]

Init ==
  /\ slots = [s \in Slots |-> Empty]
  /\ out = <<>>
  /\ status = "decoding"
  /\ count = 0

Store(f, refresh, show) ==
  /\ slots' = [s \in Slots |-> IF s \in refresh THEN f ELSE slots[s]]
  /\ out' = IF show THEN Append(out, [id |-> f.id, by |-> "decode", key |-> f.key])
                    ELSE out
  /\ count' = count + 1
  /\ UNCHANGED status

(* A KEY frame depends on itself alone; shown, it takes every slot. *)
DecodeKey ==
  /\ status = "decoding"
  /\ \E size \in Sizes, show, showable, adapted \in BOOLEAN, refresh \in SUBSET Slots :
       /\ show => refresh = Slots /\ ~showable
       /\ Store([id |-> count + 1, key |-> TRUE, showable |-> showable,
                 size |-> size, roots |-> {count + 1},
                 ctx |-> IF adapted THEN count + 1 ELSE 0], refresh, show)

(* An inter frame depends on what its references depend on, and starts from
   the entropy tables of its primary reference. *)
DecodeInter ==
  /\ status = "decoding"
  /\ \E size \in Sizes, show, showable, adapted \in BOOLEAN, refresh \in SUBSET Slots,
        refs \in [Refs -> Slots], primary \in 0 .. NumRefs :
       /\ show => showable
       /\ \E r \in Refs : slots[refs[r]] # Empty
       /\ primary # 0 => slots[refs[primary]] # Empty
       /\ Store([id |-> count + 1, key |-> FALSE, showable |-> showable,
                 size |-> size,
                 roots |-> UNION {slots[refs[r]].roots : r \in Refs},
                 ctx |-> IF adapted THEN count + 1
                         ELSE IF primary = 0 THEN 0
                         ELSE slots[refs[primary]].ctx], refresh, show)

ShowStored ==
  /\ status = "decoding"
  /\ \E s \in Slots :
       /\ slots[s] # Empty /\ ~slots[s].key /\ slots[s].showable
       /\ out' = Append(out, [id |-> slots[s].id, by |-> "existing", key |-> FALSE])
  /\ UNCHANGED <<slots, status, count>>

Finish ==
  /\ status = "decoding"
  /\ \/ status' \in {"error", "cancelled"}
     \/ out # <<>> /\ status' = "ok"
  /\ UNCHANGED <<slots, out, count>>

Next == DecodeKey \/ DecodeInter \/ ShowStored \/ Finish

Spec == Init /\ [][Next]_vars

=============================================================================
