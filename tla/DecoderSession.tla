--------------------------- MODULE DecoderSession ---------------------------
(***************************************************************************)
(* decode_frames_with of the aom-decode crate: the walk over the OBUs of a *)
(* stream, the decoded-picture buffer, and the caller's stop token.        *)
(*                                                                         *)
(* A stream is whatever the environment sends next, one OBU at a time.  A  *)
(* frame header is its syntax (the constant Headers); pixels are left out, *)
(* and what a decoded frame was computed FROM is kept instead: `roots` are *)
(* the KEY frames it depends on, `ctx` the frame whose adapted entropy     *)
(* tables it saved (0: the defaults).  Frames are numbered by the header   *)
(* parse they come from.                                                   *)
(*                                                                         *)
(* Another thread may fire the stop token between any two steps.           *)
(***************************************************************************)
EXTENDS Integers, Sequences, FiniteSets

CONSTANTS
  Slots,      (* Reference slots (8 in the code).                          *)
  NumRefs,    (* References an inter frame binds (7: LAST to ALTREF).      *)
  Headers,    (* Frame-header syntax the stream may carry.                 *)
  Sizes,      (* Frame sizes a sequence header may declare.                *)
  MaxSize,    (* The caller's DecodeLimits, as one size.                   *)
  MaxObus,    (* Bound: OBUs in the stream.                                *)
  Conformant  (* TRUE: only the tile group may follow a frame header.      *)

Refs == 1 .. NumRefs

(* PRIMARY_REF_NONE is 0 here; show-existing headers are an action below. *)
HeaderSyntax ==
  [type : {"key", "inter", "other"}, show : BOOLEAN, showable : BOOLEAN,
   errorResilient : BOOLEAN, refresh : SUBSET Slots, refs : [Refs -> Slots],
   primary : 0 .. NumRefs, saveCtx : BOOLEAN]

ASSUME SessionAssumption ==
  /\ NumRefs \in Nat \ {0}
  /\ Headers \subseteq HeaderSyntax
  /\ Sizes \subseteq Nat \ {0}
  /\ MaxSize \in Nat
  /\ MaxObus \in Nat
  /\ Conformant \in BOOLEAN

VARIABLES
  seq,      (* Size declared by the latest sequence header, 0 before any.  *)
  pending,  (* pending_header: empty, or the header awaiting its tiles.    *)
  slots,    (* ref_frame_map: the frame each slot holds, or Empty.         *)
  out,      (* The frames to return, in output order.                      *)
  work,     (* Empty, or the frame being decoded and its next stage.       *)
  status,   (* "decoding", "ok", "error" or "cancelled".                   *)
  stop,     (* The stop token has fired.                                   *)
  parses,   (* Frame headers parsed so far: the last frame number given.   *)
  obus,     (* OBUs read so far.                                           *)
  lastKey   (* History: the last shown KEY frame decoded, 0 before any.    *)

vars == <<seq, pending, slots, out, work, status, stop, parses, obus, lastKey>>

Empty == [id |-> 0, key |-> FALSE, showable |-> FALSE, size |-> 0,
          roots |-> {}, ctx |-> 0]

Init ==
  /\ seq = 0
  /\ pending = {}
  /\ slots = [s \in Slots |-> Empty]
  /\ out = <<>>
  /\ work = {}
  /\ status = "decoding"
  /\ stop = FALSE
  /\ parses = 0
  /\ obus = 0
  /\ lastKey = 0

-----------------------------------------------------------------------------
(* Headers                                                                 *)

(* Mutant: a shown KEY frame keeps the coded refresh mask. *)
PrefixCodedRefresh(h) ==
  [h EXCEPT !.showable = IF h.show THEN h.type # "key" ELSE @,
            !.primary = IF h.type # "inter" \/ h.errorResilient THEN 0 ELSE @]

(***************************************************************************)
(* What the prefix reader infers instead of reading: a shown KEY (or a     *)
(* switch frame) refreshes every slot, a shown frame is showable unless it *)
(* is KEY, and only an inter frame that is not error-resilient reads a     *)
(* primary.                                                                *)
(***************************************************************************)
Prefix(h) ==
  [h EXCEPT !.refresh = IF h.type = "key" /\ h.show THEN Slots ELSE @,
            !.showable = IF h.show THEN h.type # "key" ELSE @,
            !.primary = IF h.type # "inter" \/ h.errorResilient THEN 0 ELSE @]

Bind(h) == [r \in Refs |-> slots[h.refs[r]]]

BoundRoots(b) == UNION {b[r].roots : r \in Refs}

(* The primary reference, when one is named, is a filled slot. *)
PrimaryBound(h) == h.primary # 0 => Bind(h)[h.primary] # Empty

(* A reference is usable when it is at most twice as large and at most 16
   times as small as the frame; an inter frame needs one. *)
ValidScale(ref, size) == 2 * size >= ref /\ size <= 16 * ref
SomeValidRef(b, size) ==
  \E r \in Refs : b[r] # Empty /\ ValidScale(b[r].size, size)

(***************************************************************************)
(* The parsed header: the syntax, the size of the sequence it was parsed   *)
(* under, and what the reference slots lent to the parse: the deltas and   *)
(* global motion of the primary, the sizes and order hints of all.         *)
(***************************************************************************)
Parsed(h) ==
  LET p == Prefix(h) IN
  [hdr |-> p, id |-> parses + 1, size |-> seq,
   lent |-> IF p.type = "inter" THEN Bind(p) ELSE [r \in Refs |-> Empty]]

ReadyForObu == status = "decoding" /\ work = {} /\ obus < MaxObus

(* Every header parse, probe included, starts from a sequence header and
   checks its maximum dimensions against the caller's limits. *)
SequenceUsable == seq # 0 /\ seq <= MaxSize

HeaderParses(h) ==
  /\ SequenceUsable
  /\ h.type \in {"key", "inter"}
  /\ PrimaryBound(Prefix(h))

-----------------------------------------------------------------------------
(* The OBU loop                                                            *)

MayInterleave == Conformant => pending = {}

SequenceHeader(size) ==
  /\ ReadyForObu /\ MayInterleave
  /\ seq' = size
  /\ obus' = obus + 1
  /\ UNCHANGED <<pending, slots, out, work, status, stop, parses, lastKey>>

(* Temporal delimiter, metadata, padding. *)
SkippedObu ==
  /\ ReadyForObu
  /\ obus' = obus + 1
  /\ UNCHANGED <<seq, pending, slots, out, work, status, stop, parses, lastKey>>

(* An earlier header still waiting for its tiles is overwritten. *)
FrameHeader(h) ==
  /\ ReadyForObu /\ MayInterleave
  /\ HeaderParses(h)
  /\ pending' = {Parsed(h)}
  /\ parses' = parses + 1
  /\ obus' = obus + 1
  /\ UNCHANGED <<seq, slots, out, work, status, stop, lastKey>>

(* Mutant: a KEY frame may be shown again. *)
CanShowAnyStored(f) == f # Empty
CanShow(f) == f # Empty /\ ~f.key /\ f.showable

ShowExisting(s) ==
  /\ ReadyForObu /\ MayInterleave
  /\ SequenceUsable
  /\ CanShow(slots[s])
  /\ out' = Append(out, [id |-> slots[s].id, by |-> "existing",
                         key |-> slots[s].key])
  /\ obus' = obus + 1
  /\ UNCHANGED <<seq, pending, slots, work, status, stop, parses, lastKey>>

(* decode_frame_and_install up to the tile decode: the references are bound
   again, now; an inter frame with no usable reference is refused. *)
BeginFrame(p) ==
  LET bound == IF p.hdr.type = "inter" THEN Bind(p.hdr)
                                       ELSE [r \in Refs |-> Empty] IN
  /\ PrimaryBound(p.hdr)
  /\ p.hdr.type = "inter" => SomeValidRef(bound, p.size)
  /\ work' = {[frame |-> p, bound |-> bound, stage |-> "tiles"]}

FrameObu(h) ==
  /\ ReadyForObu /\ MayInterleave
  /\ HeaderParses(h)
  /\ BeginFrame(Parsed(h))
  /\ parses' = parses + 1
  /\ obus' = obus + 1
  /\ UNCHANGED <<seq, pending, slots, out, status, stop, lastKey>>

(* Mutant: the header stays in place after its tile group. *)
PendingKept == pending
PendingTaken == {}

TileGroup ==
  /\ ReadyForObu
  /\ seq # 0
  /\ \E p \in pending : BeginFrame(p)
  /\ pending' = PendingTaken
  /\ obus' = obus + 1
  /\ UNCHANGED <<seq, slots, out, status, stop, parses, lastKey>>

(***************************************************************************)
(* Everything that makes the walk return an error between frames: a bad or *)
(* truncated OBU, an unsupported type, feature or frame type, a limit, an  *)
(* empty slot, a tile group with no header.  Any OBU may be such an OBU.   *)
(***************************************************************************)
ObuRejected ==
  /\ ReadyForObu
  /\ status' = "error"
  /\ UNCHANGED <<seq, pending, slots, out, work, stop, parses, obus, lastKey>>

(* The data is used up; a stream without a frame to show is an error. *)
EndOfStream ==
  /\ status = "decoding" /\ work = {}
  /\ status' = IF out = <<>> THEN "error" ELSE "ok"
  /\ UNCHANGED <<seq, pending, slots, out, work, stop, parses, obus, lastKey>>

-----------------------------------------------------------------------------
(* One frame                                                               *)

(* Mutant: the crop and grain passes are not polled. *)
PolledNotGrain == {"tiles", "filters"}
PolledStages == {"tiles", "filters", "grain"}
(* Mutant: a finished frame starts over. *)
NextStageLoops == [tiles |-> "filters", filters |-> "grain", grain |-> "tiles"]
NextStage == [tiles |-> "filters", filters |-> "grain", grain |-> "install"]

(* Tile decode, post filters, crop and grain: each polls the stop token on
   entry and inside, and runs on only when the token has not fired. *)
RunStage ==
  /\ status = "decoding"
  /\ \E w \in work :
       /\ w.stage \in DOMAIN NextStage
       /\ w.stage \in PolledStages => ~stop
       /\ work' = {[w EXCEPT !.stage = NextStage[w.stage]]}
  /\ UNCHANGED <<seq, pending, slots, out, status, stop, parses, obus, lastKey>>

StageCancelled ==
  /\ status = "decoding"
  /\ stop
  /\ \E w \in work : w.stage \in PolledStages
  /\ status' = "cancelled"
  /\ UNCHANGED <<seq, pending, slots, out, work, stop, parses, obus, lastKey>>

(* Truncated, corrupt or unsupported tile data. *)
TilesRejected ==
  /\ status = "decoding"
  /\ \E w \in work : w.stage = "tiles"
  /\ status' = "error"
  /\ UNCHANGED <<seq, pending, slots, out, work, stop, parses, obus, lastKey>>

(* The adapted tables, or the ones the frame started from. *)
SavedCtx(w) ==
  IF w.frame.hdr.saveCtx THEN w.frame.id
  ELSE IF w.frame.hdr.primary = 0 THEN 0
  ELSE w.bound[w.frame.hdr.primary].ctx

Decoded(w) ==
  [id |-> w.frame.id, key |-> w.frame.hdr.type = "key",
   showable |-> w.frame.hdr.showable, size |-> w.frame.size,
   roots |-> IF w.frame.hdr.type = "key" THEN {w.frame.id}
             ELSE BoundRoots(w.bound) \cup BoundRoots(w.frame.lent),
   ctx |-> SavedCtx(w)]

(* Mutant: a KEY frame empties the slots it does not refresh. *)
StoredFlush(s, f, refresh) ==
  IF s \in refresh THEN f ELSE IF f.key THEN Empty ELSE slots[s]
Stored(s, f, refresh) == IF s \in refresh THEN f ELSE slots[s]

(* Every refreshed slot gets the frame, and a shown frame is output. *)
Install ==
  /\ status = "decoding"
  /\ \E w \in work :
       LET f == Decoded(w)
           h == w.frame.hdr IN
       /\ w.stage = "install"
       /\ slots' = [s \in Slots |-> Stored(s, f, h.refresh)]
       /\ out' = IF h.show
                   THEN Append(out, [id |-> f.id, by |-> "decode", key |-> f.key])
                   ELSE out
       /\ lastKey' = IF f.key /\ h.show THEN f.id ELSE lastKey
  /\ work' = {}
  /\ UNCHANGED <<seq, pending, status, stop, parses, obus>>

(* Another thread asks the decode to stop; the token stays fired. *)
RequestStop ==
  /\ ~stop
  /\ stop' = TRUE
  /\ UNCHANGED <<seq, pending, slots, out, work, status, parses, obus, lastKey>>

Decode ==
  \/ \E size \in Sizes : SequenceHeader(size)
  \/ SkippedObu
  \/ \E h \in Headers : FrameHeader(h) \/ FrameObu(h)
  \/ \E s \in Slots : ShowExisting(s)
  \/ TileGroup
  \/ ObuRejected
  \/ EndOfStream
  \/ RunStage
  \/ StageCancelled
  \/ TilesRejected
  \/ Install

Next == Decode \/ RequestStop

(* The decode runs on its caller's thread, which keeps running. *)
Spec == Init /\ [][Next]_vars /\ WF_vars(Decode)

-----------------------------------------------------------------------------
(* Properties                                                              *)

Frame == [id : Nat, key : BOOLEAN, showable : BOOLEAN, size : Nat,
          roots : SUBSET Nat, ctx : Nat]
ParsedHeader == [hdr : HeaderSyntax, id : Nat, size : Nat, lent : [Refs -> Frame]]
Stages == {"tiles", "filters", "grain", "install"}
FrameInFlight == [frame : ParsedHeader, bound : [Refs -> Frame], stage : Stages]
Shown == [id : Nat, by : {"decode", "existing"}, key : BOOLEAN]

TypeOK ==
  /\ seq \in Sizes \cup {0}
  /\ pending \in SUBSET ParsedHeader
  /\ slots \in [Slots -> Frame]
  /\ out \in Seq(Shown)
  /\ work \in SUBSET FrameInFlight
  /\ status \in {"decoding", "ok", "error", "cancelled"}
  /\ stop \in BOOLEAN
  /\ parses \in Nat /\ obus \in Nat /\ lastKey \in Nat

(* The primary reference a waiting header was parsed against cannot disappear
   before its tiles arrive, whatever comes between them: the second "names an
   empty reference slot" test, at decode time, never fires on a header that
   passed the first. *)
PrimaryStillBound ==
  \A p \in pending : PrimaryBound(p.hdr)

(* No header is decoded twice: a frame number is output by at most one decode,
   even when headers, whole frames and tile groups come in any order. *)
DecodedOnce ==
  \A i, j \in DOMAIN out :
    out[i].by = "decode" /\ out[j].by = "decode" /\ out[i].id = out[j].id => i = j

(* Once the token has fired, the frame in flight is neither stored nor shown
   unless it had already passed its last poll. *)
StopKeepsFrameOut ==
  [][(stop /\ \E w \in work : w.stage # "install")
       => slots' = slots /\ out' = out /\ status' # "ok"
          /\ \A w \in work' : w.stage # "install"]_vars

(* Every decode returns. *)
DecodeReturns == <>(status # "decoding")

(* The references of a frame are looked up twice, when its header is parsed and
   when its tiles come, and other OBUs may come between.  Whatever they are, the
   second look-up finds the frame the first one found, or one whose header came
   later in the stream: never an emptied slot, an older frame, or the frame
   itself. *)
SameOrLater(found, parsed) ==
  \A r \in Refs : found[r] = parsed.lent[r] \/ found[r].id > parsed.id
SecondLookupNotOlder ==
  /\ \A p \in pending : p.hdr.type = "inter" => SameOrLater(Bind(p.hdr), p)
  /\ \A w \in work : w.frame.hdr.type = "inter" => SameOrLater(w.bound, w.frame)

(* A whole frame may be decoded, and come out, while an earlier header still
   waits for its tiles; but no frame comes out before two earlier headers, since
   one header waits at most and it waits for one tile group. *)
CameOutBefore(i, j) ==
  /\ i < j
  /\ out[i].by = "decode" /\ out[j].by = "decode"
  /\ out[j].id < out[i].id
OvertakesOne ==
  \A i, j, k \in DOMAIN out : CameOutBefore(i, j) /\ CameOutBefore(i, k) => j = k

(* A shown KEY frame is a clean entry point: no slot depends, by prediction or
   through its entropy tables, on anything older than the last one. *)
RandomAccess ==
  \A s \in Slots :
    slots[s] # Empty =>
      /\ \A k \in slots[s].roots : k >= lastKey
      /\ slots[s].ctx = 0 \/ slots[s].ctx >= lastKey

(* The walk implements the contract: atomic frames, all or nothing. *)
Contract ==
  INSTANCE DecoderContract WITH
    count <- IF pending = {} /\ work = {} THEN parses ELSE parses - 1
ContractSpec == Contract!Spec

=============================================================================
