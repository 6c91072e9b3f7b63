----------------------- MODULE DecoderSession_proofs -----------------------
(* Theorems about DecoderSession, for every number of reference slots and
   references, every set of headers, and streams of every length. *)
EXTENDS DecoderSession, TLAPS

(* The inferred fields of a header keep it a header. *)
LEMMA PrefixTyped ==
  ASSUME NEW h \in HeaderSyntax
  PROVE  /\ Prefix(h) \in HeaderSyntax
         /\ Prefix(h).type = h.type
         /\ Prefix(h).show = h.show
         /\ Prefix(h).saveCtx = h.saveCtx
<1>1. \A f \in HeaderSyntax, m \in SUBSET Slots, b \in BOOLEAN, n \in 0 .. NumRefs :
        [f EXCEPT !.refresh = m, !.showable = b, !.primary = n] \in HeaderSyntax
  BY Zenon DEF HeaderSyntax
<1>2. (IF h.type = "key" /\ h.show THEN Slots ELSE h.refresh) \in SUBSET Slots
  BY DEF HeaderSyntax
<1>3. (IF h.show THEN h.type # "key" ELSE h.showable) \in BOOLEAN
  BY Zenon DEF HeaderSyntax
<1>4. (IF h.type # "inter" \/ h.errorResilient THEN 0 ELSE h.primary) \in 0 .. NumRefs
  BY SessionAssumption DEF HeaderSyntax
<1>5. Prefix(h) \in HeaderSyntax
  BY <1>1, <1>2, <1>3, <1>4, Zenon DEF Prefix
<1>6. QED
  BY <1>5, Zenon DEF Prefix, HeaderSyntax

(* What the prefix reader infers of a KEY frame. *)
LEMMA PrefixOfKey ==
  ASSUME NEW h \in HeaderSyntax, h.type = "key"
  PROVE  /\ Prefix(h).primary = 0
         /\ h.show => Prefix(h).refresh = Slots
BY Zenon DEF Prefix, HeaderSyntax

LEMMA EmptyTyped == Empty \in Frame
BY DEF Empty, Frame

LEMMA BindTyped ==
  ASSUME slots \in [Slots -> Frame], NEW h \in HeaderSyntax
  PROVE  Bind(h) \in [Refs -> Frame]
<1>1. \A r \in Refs : slots[h.refs[r]] \in Frame
  BY DEF HeaderSyntax
<1>2. QED
  BY <1>1 DEF Bind

LEMMA ParsedTyped ==
  ASSUME TypeOK, NEW h \in Headers
  PROVE  Parsed(h) \in ParsedHeader
<1>1. h \in HeaderSyntax
  BY SessionAssumption
<1>2. Prefix(h) \in HeaderSyntax
  BY <1>1, PrefixTyped
<1>3. Bind(Prefix(h)) \in [Refs -> Frame]
  BY <1>2, BindTyped DEF TypeOK
<1>4. [r \in Refs |-> Empty] \in [Refs -> Frame]
  BY EmptyTyped
<1>5. seq \in Nat /\ parses + 1 \in Nat
  BY SessionAssumption DEF TypeOK
<1>6. QED
  BY <1>2, <1>3, <1>4, <1>5, Zenon DEF Parsed, ParsedHeader

LEMMA DecodedTyped ==
  ASSUME NEW w \in FrameInFlight
  PROVE  Decoded(w) \in Frame
<1>1. /\ w.frame \in ParsedHeader /\ w.bound \in [Refs -> Frame]
      /\ w.frame.hdr \in HeaderSyntax
      /\ w.frame.lent \in [Refs -> Frame]
      /\ w.frame.id \in Nat /\ w.frame.size \in Nat
  BY Zenon DEF FrameInFlight, ParsedHeader
<1>2. /\ BoundRoots(w.bound) \in SUBSET Nat
      /\ BoundRoots(w.frame.lent) \in SUBSET Nat
  BY <1>1 DEF BoundRoots, Frame
<1>3. SavedCtx(w) \in Nat
  <2>1. ASSUME w.frame.hdr.primary # 0
        PROVE  w.bound[w.frame.hdr.primary].ctx \in Nat
    <3>1. w.frame.hdr.primary \in Refs
      BY <1>1, <2>1, SessionAssumption DEF HeaderSyntax, Refs
    <3>2. w.bound[w.frame.hdr.primary] \in Frame
      BY <1>1, <3>1
    <3>3. QED
      BY <3>2 DEF Frame
  <2>2. QED
    BY <1>1, <2>1 DEF SavedCtx
<1>4. (w.frame.hdr.type = "key") \in BOOLEAN /\ w.frame.hdr.showable \in BOOLEAN
  BY <1>1, Zenon DEF HeaderSyntax
<1>5. (IF w.frame.hdr.type = "key" THEN {w.frame.id}
       ELSE BoundRoots(w.bound) \cup BoundRoots(w.frame.lent)) \in SUBSET Nat
  BY <1>1, <1>2
<1>6. QED
  BY <1>1, <1>3, <1>4, <1>5, Zenon DEF Decoded, Frame

LEMMA BeginFrameTyped ==
  ASSUME TypeOK, NEW p \in ParsedHeader, BeginFrame(p)
  PROVE  work' \in SUBSET FrameInFlight
<1> DEFINE b == IF p.hdr.type = "inter" THEN Bind(p.hdr) ELSE [r \in Refs |-> Empty]
<1>1. p.hdr \in HeaderSyntax
  BY DEF ParsedHeader
<1>2. Bind(p.hdr) \in [Refs -> Frame]
  BY <1>1, BindTyped DEF TypeOK
<1>3. b \in [Refs -> Frame]
  BY <1>2, EmptyTyped
<1>4. work' = {[frame |-> p, bound |-> b, stage |-> "tiles"]}
  BY Zenon DEF BeginFrame
<1>5. [frame |-> p, bound |-> b, stage |-> "tiles"] \in FrameInFlight
  BY <1>3, Zenon DEF FrameInFlight, Stages
<1>6. QED
  BY <1>4, <1>5

(* The state keeps its shape: in particular a frame only ever moves through the
   declared stages, and every stored frame is a whole one. *)
LEMMA TypeInitially == Init => TypeOK
<1>1. ASSUME Init PROVE TypeOK
  <2>1. slots \in [Slots -> Frame]
    BY <1>1, EmptyTyped DEF Init
  <2>2. out \in Seq(Shown)
    BY <1>1 DEF Init
  <2>3. QED
    BY <1>1, <2>1, <2>2 DEF Init, TypeOK
<1>2. QED
  BY <1>1

LEMMA TypePreserved == TypeOK /\ [Next]_vars => TypeOK'
<1> SUFFICES ASSUME TypeOK, [Next]_vars PROVE TypeOK'
  OBVIOUS
<1> USE SessionAssumption
<1>1. ASSUME NEW size \in Sizes, SequenceHeader(size) PROVE TypeOK'
  BY <1>1 DEF SequenceHeader, TypeOK, ReadyForObu
<1>2. CASE SkippedObu
  BY <1>2 DEF SkippedObu, TypeOK
<1>3. ASSUME NEW h \in Headers, FrameHeader(h) PROVE TypeOK'
  <2>1. Parsed(h) \in ParsedHeader
    BY ParsedTyped
  <2>2. pending' \in SUBSET ParsedHeader
    BY <1>3, <2>1 DEF FrameHeader
  <2>3. QED
    BY <1>3, <2>2 DEF FrameHeader, TypeOK
<1>4. ASSUME NEW h \in Headers, FrameObu(h) PROVE TypeOK'
  <2>1. Parsed(h) \in ParsedHeader
    BY ParsedTyped
  <2>2. work' \in SUBSET FrameInFlight
    BY <1>4, <2>1, BeginFrameTyped DEF FrameObu
  <2>3. QED
    BY <1>4, <2>2 DEF FrameObu, TypeOK
<1>5. ASSUME NEW s \in Slots, ShowExisting(s) PROVE TypeOK'
  <2>1. slots[s] \in Frame
    BY DEF TypeOK
  <2>2. [id |-> slots[s].id, by |-> "existing", key |-> slots[s].key] \in Shown
    BY <2>1, Zenon DEF Frame, Shown
  <2>3. out' \in Seq(Shown)
    BY <1>5, <2>2 DEF ShowExisting, TypeOK
  <2>4. QED
    BY <1>5, <2>3 DEF ShowExisting, TypeOK
<1>6. CASE TileGroup
  <2>1. PICK p \in pending : BeginFrame(p)
    BY <1>6 DEF TileGroup
  <2>2. work' \in SUBSET FrameInFlight
    BY <2>1, BeginFrameTyped DEF TypeOK
  <2>3. QED
    BY <1>6, <2>2 DEF TileGroup, PendingTaken, TypeOK
<1>7. CASE ObuRejected
  BY <1>7 DEF ObuRejected, TypeOK
<1>8. CASE EndOfStream
  BY <1>8 DEF EndOfStream, TypeOK
<1>9. CASE RunStage
  <2>1. PICK w \in work : /\ w.stage \in DOMAIN NextStage
                          /\ work' = {[w EXCEPT !.stage = NextStage[w.stage]]}
    BY <1>9 DEF RunStage
  <2>2. w \in FrameInFlight
    BY DEF TypeOK
  <2>3. NextStage[w.stage] \in Stages
    BY <2>1 DEF NextStage, Stages
  <2>4. [w EXCEPT !.stage = NextStage[w.stage]] \in FrameInFlight
    BY <2>2, <2>3, Zenon DEF FrameInFlight
  <2>5. QED
    BY <1>9, <2>1, <2>4 DEF RunStage, TypeOK
<1>10. CASE StageCancelled
  BY <1>10 DEF StageCancelled, TypeOK
<1>11. CASE TilesRejected
  BY <1>11 DEF TilesRejected, TypeOK
<1>12. CASE Install
  <2>1. PICK w \in work :
          /\ slots' = [s \in Slots |-> Stored(s, Decoded(w), w.frame.hdr.refresh)]
          /\ out' = IF w.frame.hdr.show
                      THEN Append(out, [id |-> Decoded(w).id, by |-> "decode",
                                        key |-> Decoded(w).key])
                      ELSE out
          /\ lastKey' = IF Decoded(w).key /\ w.frame.hdr.show
                          THEN Decoded(w).id ELSE lastKey
    BY <1>12, Zenon DEF Install
  <2>2. Decoded(w) \in Frame
    BY DecodedTyped DEF TypeOK
  <2>3. slots' \in [Slots -> Frame]
    BY <2>1, <2>2 DEF Stored, TypeOK
  <2>4. [id |-> Decoded(w).id, by |-> "decode", key |-> Decoded(w).key] \in Shown
    BY <2>2, Zenon DEF Frame, Shown
  <2>5. out' \in Seq(Shown)
    BY <2>1, <2>4 DEF TypeOK
  <2>6. lastKey' \in Nat
    BY <2>1, <2>2 DEF TypeOK, Frame
  <2>7. QED
    BY <1>12, <2>3, <2>5, <2>6 DEF Install, TypeOK
<1>13. CASE RequestStop
  BY <1>13 DEF RequestStop, TypeOK
<1>14. CASE UNCHANGED vars
  BY <1>14 DEF vars, TypeOK
<1>15. QED
  BY <1>1, <1>2, <1>3, <1>4, <1>5, <1>6, <1>7, <1>8, <1>9, <1>10, <1>11,
     <1>12, <1>13, <1>14 DEF Next, Decode

THEOREM TypeCorrect == Spec => []TypeOK
BY TypeInitially, TypePreserved, PTL DEF Spec

-----------------------------------------------------------------------------
(* The primary reference of a waiting header                               *)

(* Frame numbers start at 1, so that no decoded frame can be mistaken for the
   empty slot. *)
Numbered ==
  /\ \A p \in pending : p.id >= 1
  /\ \A w \in work : w.frame.id >= 1

PrimaryInv == TypeOK /\ Numbered /\ PrimaryStillBound

LEMMA PrimaryPreserved == PrimaryInv /\ [Next]_vars => Numbered' /\ PrimaryStillBound'
<1> SUFFICES ASSUME PrimaryInv, [Next]_vars PROVE Numbered' /\ PrimaryStillBound'
  OBVIOUS
<1> USE DEF PrimaryInv, Numbered
(* Only Install writes a slot. *)
<1>1. ASSUME UNCHANGED slots, \A p \in pending' : p \in pending
      PROVE  PrimaryStillBound'
  BY <1>1 DEF PrimaryStillBound, PrimaryBound, Bind
<1>2. ASSUME NEW h \in Headers PROVE Parsed(h).id >= 1
  BY DEF Parsed, TypeOK
<1>3. ASSUME NEW size \in Sizes, SequenceHeader(size)
      PROVE  Numbered' /\ PrimaryStillBound'
  BY <1>1, <1>3 DEF SequenceHeader
<1>4. CASE SkippedObu
  BY <1>1, <1>4 DEF SkippedObu
<1>5. ASSUME NEW h \in Headers, FrameHeader(h)
      PROVE  Numbered' /\ PrimaryStillBound'
  <2>1. Parsed(h).hdr = Prefix(h)
    BY DEF Parsed
  <2>2. PrimaryBound(Parsed(h).hdr)
    BY <1>5, <2>1 DEF FrameHeader, HeaderParses
  <2>3. PrimaryStillBound'
    BY <1>5, <2>2 DEF FrameHeader, PrimaryStillBound, PrimaryBound, Bind
  <2>4. QED
    BY <1>2, <1>5, <2>3 DEF FrameHeader
<1>6. ASSUME NEW h \in Headers, FrameObu(h)
      PROVE  Numbered' /\ PrimaryStillBound'
  <2>1. \A w \in work' : w.frame = Parsed(h)
    BY <1>6 DEF FrameObu, BeginFrame
  <2>2. QED
    BY <1>1, <1>2, <1>6, <2>1 DEF FrameObu
<1>7. ASSUME NEW s \in Slots, ShowExisting(s)
      PROVE  Numbered' /\ PrimaryStillBound'
  BY <1>1, <1>7 DEF ShowExisting
<1>8. CASE TileGroup
  <2>1. \A w \in work' : w.frame \in pending
    BY <1>8 DEF TileGroup, BeginFrame
  <2>2. QED
    BY <1>1, <1>8, <2>1 DEF TileGroup, PendingTaken
<1>9. CASE ObuRejected
  BY <1>1, <1>9 DEF ObuRejected
<1>10. CASE EndOfStream
  BY <1>1, <1>10 DEF EndOfStream
<1>11. CASE RunStage
  <2>1. \A w \in work' : \E v \in work : w.frame = v.frame
    BY <1>11 DEF RunStage, TypeOK, FrameInFlight
  <2>2. QED
    BY <1>1, <1>11, <2>1 DEF RunStage
<1>12. CASE StageCancelled
  BY <1>1, <1>12 DEF StageCancelled
<1>13. CASE TilesRejected
  BY <1>1, <1>13 DEF TilesRejected
<1>14. CASE Install
  <2>1. PICK w \in work :
          slots' = [s \in Slots |-> Stored(s, Decoded(w), w.frame.hdr.refresh)]
    BY <1>14, Zenon DEF Install
  <2>2. Decoded(w) # Empty
    BY DEF Decoded, Empty
  <2>3. \A s \in Slots : slots[s] # Empty => slots'[s] # Empty
    BY <2>1, <2>2 DEF Stored
  <2>4. ASSUME NEW p \in pending PROVE PrimaryBound(p.hdr)'
    <3>1. p.hdr \in HeaderSyntax
      BY DEF TypeOK, ParsedHeader
    <3>2. p.hdr.primary # 0 => p.hdr.primary \in Refs
      BY <3>1, SessionAssumption DEF HeaderSyntax, Refs
    <3>3. p.hdr.refs \in [Refs -> Slots]
      BY <3>1 DEF HeaderSyntax
    <3>4. PrimaryBound(p.hdr)
      BY DEF PrimaryStillBound
    <3>5. QED
      BY <2>3, <3>2, <3>3, <3>4 DEF PrimaryBound, Bind
  <2>5. PrimaryStillBound'
    BY <1>14, <2>4 DEF Install, PrimaryStillBound
  <2>6. QED
    BY <1>14, <2>5 DEF Install
<1>15. CASE RequestStop
  BY <1>1, <1>15 DEF RequestStop
<1>16. CASE UNCHANGED vars
  BY <1>1, <1>16 DEF vars
<1>17. QED
  BY <1>3, <1>4, <1>5, <1>6, <1>7, <1>8, <1>9, <1>10, <1>11, <1>12, <1>13,
     <1>14, <1>15, <1>16 DEF Next, Decode

(* A waiting header's primary reference never disappears, whatever OBUs come
   between the header and its tile group. *)
THEOREM PrimaryNeverLost == Spec => []PrimaryStillBound
<1>1. Init => PrimaryInv
  BY TypeInitially DEF Init, PrimaryInv, Numbered, PrimaryStillBound
<1>2. PrimaryInv /\ [Next]_vars => PrimaryInv'
  BY TypePreserved, PrimaryPreserved DEF PrimaryInv
<1>3. PrimaryInv => PrimaryStillBound
  BY DEF PrimaryInv
<1>4. QED
  BY <1>1, <1>2, <1>3, PTL DEF Spec

-----------------------------------------------------------------------------
(* The stop token                                                          *)

(* One frame is in flight at most, and none is left behind by a walk that
   succeeded. *)
OneInFlight ==
  /\ \A v, w \in work : v = w
  /\ status = "ok" => work = {}

LEMMA OneInFlightPreserved == OneInFlight /\ [Next]_vars => OneInFlight'
<1> SUFFICES ASSUME OneInFlight, [Next]_vars PROVE OneInFlight'
  OBVIOUS
<1> USE DEF OneInFlight
<1>1. ASSUME NEW size \in Sizes, SequenceHeader(size) PROVE OneInFlight'
  BY <1>1 DEF SequenceHeader
<1>2. ASSUME NEW h \in Headers, FrameHeader(h) PROVE OneInFlight'
  BY <1>2 DEF FrameHeader
<1>3. ASSUME NEW h \in Headers, FrameObu(h) PROVE OneInFlight'
  BY <1>3, Zenon DEF FrameObu, BeginFrame, ReadyForObu
<1>4. ASSUME NEW s \in Slots, ShowExisting(s) PROVE OneInFlight'
  BY <1>4 DEF ShowExisting
<1>5. CASE TileGroup
  BY <1>5, Zenon DEF TileGroup, BeginFrame, ReadyForObu
<1>6. CASE RunStage
  BY <1>6, Zenon DEF RunStage
<1>7. CASE SkippedObu \/ ObuRejected \/ EndOfStream
  BY <1>7 DEF SkippedObu, ObuRejected, EndOfStream, ReadyForObu
<1>8. CASE StageCancelled \/ TilesRejected \/ Install
  BY <1>8, Zenon DEF StageCancelled, TilesRejected, Install
<1>9. CASE RequestStop \/ UNCHANGED vars
  BY <1>9 DEF RequestStop, vars
<1>10. QED
  BY <1>1, <1>2, <1>3, <1>4, <1>5, <1>6, <1>7, <1>8, <1>9 DEF Next, Decode

(* A step that starts with the token fired and a poll still ahead of the frame
   in flight stores nothing, shows nothing and does not end well. *)
LEMMA StopStep ==
  ASSUME TypeOK, OneInFlight, [Next]_vars,
         stop, NEW w \in work, w.stage # "install"
  PROVE  /\ slots' = slots /\ out' = out /\ status' # "ok"
         /\ \A v \in work' : v.stage # "install"
<1> USE DEF OneInFlight
<1>1. work = {w} /\ status # "ok"
  BY Zenon
<1>2. w.stage \in PolledStages
  BY DEF TypeOK, FrameInFlight, Stages, PolledStages
<1>3. ~ReadyForObu
  BY <1>1 DEF ReadyForObu
<1>4. ~RunStage
  BY <1>1, <1>2, Zenon DEF RunStage
<1>5. ~EndOfStream
  BY <1>1 DEF EndOfStream
<1>6. ~Install
  BY <1>1, Zenon DEF Install
<1>7. CASE StageCancelled \/ TilesRejected
  BY <1>1, <1>7 DEF StageCancelled, TilesRejected
<1>8. CASE RequestStop \/ UNCHANGED vars
  BY <1>1, <1>8 DEF RequestStop, vars
<1>9. QED
  BY <1>3, <1>4, <1>5, <1>6, <1>7, <1>8, Zenon
  DEF Next, Decode, SequenceHeader, SkippedObu, FrameHeader, FrameObu,
      ShowExisting, TileGroup, ObuRejected

(* Once the token has fired, the frame in flight is neither stored nor shown
   unless it had already passed its last poll. *)
THEOREM StopKeepsFrameOutHolds == Spec => StopKeepsFrameOut
<1>1. Init => OneInFlight
  BY DEF Init, OneInFlight
<1>2. TypeOK /\ OneInFlight /\ [Next]_vars
        => [(stop /\ \E w \in work : w.stage # "install")
              => slots' = slots /\ out' = out /\ status' # "ok"
                 /\ \A w \in work' : w.stage # "install"]_vars
  BY StopStep, Zenon
<1>3. QED
  BY <1>1, <1>2, TypeInitially, TypePreserved, OneInFlightPreserved, PTL
  DEF Spec, StopKeepsFrameOut

-----------------------------------------------------------------------------
(* Random access                                                           *)

(* A frame that depends on nothing older than the KEY frame k. *)
Clean(f, k) ==
  /\ \A root \in f.roots : root >= k
  /\ f.ctx = 0 \/ f.ctx >= k

(* A parsed header numbered in k .. n, whose borrowed references are clean, and
   which has the inferred fields if it is a KEY. *)
CleanHeader(p, k, n) ==
  /\ k <= p.id /\ p.id <= n
  /\ \A r \in Refs : Clean(p.lent[r], k)
  /\ p.hdr.type = "key" => /\ p.hdr.primary = 0
                           /\ p.hdr.show => p.hdr.refresh = Slots

(* RandomAccess is not inductive: a slot is written from a frame in flight,
   whose references were looked up when its header was parsed and again when
   its tiles came.  Neither may outlive a shown KEY frame, which holds because
   nothing waits while a frame is in flight. *)
EntryInv ==
  /\ lastKey <= parses
  /\ \A s \in Slots : Clean(slots[s], lastKey)
  /\ \A p \in pending : CleanHeader(p, lastKey, parses)
  /\ \A w \in work : /\ CleanHeader(w.frame, lastKey, parses)
                      /\ \A r \in Refs : Clean(w.bound[r], lastKey)
  /\ work # {} => pending = {}

LEMMA EmptyClean ==
  ASSUME NEW k \in Nat
  PROVE  Clean(Empty, k)
BY DEF Clean, Empty

LEMMA BindClean ==
  ASSUME NEW h \in HeaderSyntax, NEW k \in Nat, \A s \in Slots : Clean(slots[s], k)
  PROVE  \A r \in Refs : Clean(Bind(h)[r], k)
BY DEF Bind, HeaderSyntax

LEMMA ParsedClean ==
  ASSUME TypeOK, EntryInv, NEW h \in Headers
  PROVE  CleanHeader(Parsed(h), lastKey, parses + 1)
<1>1. h \in HeaderSyntax /\ Prefix(h) \in HeaderSyntax /\ Prefix(h).type = h.type
      /\ Prefix(h).show = h.show
  BY SessionAssumption, PrefixTyped
<1> DEFINE p == Parsed(h)
<1>2. p.hdr = Prefix(h) /\ p.id = parses + 1
      /\ p.lent = IF Prefix(h).type = "inter" THEN Bind(Prefix(h))
                  ELSE [r \in Refs |-> Empty]
  BY DEF Parsed
<1>3. \A r \in Refs : Clean(p.lent[r], lastKey)
  BY <1>1, <1>2, EmptyClean, BindClean DEF EntryInv, TypeOK
<1>4. p.hdr.type = "key" => p.hdr.primary = 0 /\ (p.hdr.show => p.hdr.refresh = Slots)
  BY <1>1, <1>2, PrefixOfKey
<1>5. QED
  BY <1>2, <1>3, <1>4 DEF CleanHeader, EntryInv, TypeOK

LEMMA BeginFrameClean ==
  ASSUME TypeOK, EntryInv, NEW p \in ParsedHeader, BeginFrame(p)
  PROVE  \A w \in work' : /\ w.frame = p
                          /\ \A r \in Refs : Clean(w.bound[r], lastKey)
<1> DEFINE b == IF p.hdr.type = "inter" THEN Bind(p.hdr) ELSE [r \in Refs |-> Empty]
<1>1. p.hdr \in HeaderSyntax
  BY DEF ParsedHeader
<1>2. \A r \in Refs : Clean(b[r], lastKey)
  BY <1>1, EmptyClean, BindClean DEF EntryInv, TypeOK
<1>3. work' = {[frame |-> p, bound |-> b, stage |-> "tiles"]}
  BY Zenon DEF BeginFrame
<1>4. QED
  BY <1>2, <1>3

(* A decoded frame is clean, and starts a new era if it is a KEY. *)
LEMMA DecodedClean ==
  ASSUME TypeOK, EntryInv, NEW w \in work
  PROVE  /\ Clean(Decoded(w), lastKey)
         /\ w.frame.hdr.type = "key" => Clean(Decoded(w), w.frame.id)
<1>1. /\ w \in FrameInFlight /\ w.frame \in ParsedHeader
      /\ w.frame.hdr \in HeaderSyntax
      /\ w.frame.id \in Nat
  BY DEF TypeOK, FrameInFlight, ParsedHeader
<1>2. /\ CleanHeader(w.frame, lastKey, parses)
      /\ \A r \in Refs : Clean(w.bound[r], lastKey)
  BY DEF EntryInv
<1> DEFINE f == Decoded(w)
<1>3. /\ f.roots = IF w.frame.hdr.type = "key" THEN {w.frame.id}
                   ELSE BoundRoots(w.bound) \cup BoundRoots(w.frame.lent)
      /\ f.ctx = SavedCtx(w)
  BY DEF Decoded
<1>4. CASE w.frame.hdr.type = "key"
  <2>1. w.frame.hdr.primary = 0 /\ w.frame.id >= lastKey
    BY <1>1, <1>2, <1>4 DEF CleanHeader, TypeOK
  <2>2. f.ctx = 0 \/ f.ctx = w.frame.id
    BY <1>3, <2>1 DEF SavedCtx
  <2>3. f.roots = {w.frame.id}
    BY <1>3, <1>4
  <2>4. QED
    BY <1>1, <2>1, <2>2, <2>3 DEF Clean
<1>5. CASE w.frame.hdr.type # "key"
  <2>1. \A root \in f.roots : root >= lastKey
    BY <1>2, <1>3, <1>5 DEF BoundRoots, CleanHeader, Clean
  <2>2. f.ctx = 0 \/ f.ctx >= lastKey
    <3>1. w.frame.hdr.primary # 0 => w.frame.hdr.primary \in Refs
      BY <1>1, SessionAssumption DEF HeaderSyntax, Refs
    <3>2. QED
      BY <1>1, <1>2, <1>3, <3>1 DEF SavedCtx, CleanHeader, Clean, TypeOK
  <2>3. QED
    BY <1>5, <2>1, <2>2 DEF Clean
<1>6. QED
  BY <1>4, <1>5

LEMMA EntryPreserved ==
  ASSUME Conformant, TypeOK, EntryInv, [Next]_vars
  PROVE  EntryInv'
<1> USE DEF EntryInv
(* Reading another header only makes room for its number. *)
<1>1. \A p : CleanHeader(p, lastKey, parses) /\ p.id \in Nat
                => CleanHeader(p, lastKey, parses + 1)
  BY DEF CleanHeader, TypeOK
<1>2. \A p \in pending : p.id \in Nat
  BY DEF TypeOK, ParsedHeader
<1>3. lastKey \in Nat /\ parses \in Nat
  BY DEF TypeOK
<1>4. ASSUME UNCHANGED <<slots, parses, lastKey, pending>>,
             work' = work
      PROVE  EntryInv'
  BY <1>4
<1>5. ASSUME NEW size \in Sizes, SequenceHeader(size) PROVE EntryInv'
  BY <1>4, <1>5 DEF SequenceHeader
<1>6. ASSUME NEW h \in Headers, FrameHeader(h) PROVE EntryInv'
  <2>1. CleanHeader(Parsed(h), lastKey, parses + 1)
    BY ParsedClean
  <2>2. work = {}
    BY <1>6 DEF FrameHeader, ReadyForObu
  <2>3. QED
    BY <1>3, <1>6, <2>1, <2>2 DEF FrameHeader
<1>7. ASSUME NEW h \in Headers, FrameObu(h) PROVE EntryInv'
  <2>1. CleanHeader(Parsed(h), lastKey, parses + 1)
    BY ParsedClean
  <2>2. \A w \in work' : w.frame = Parsed(h) /\ \A r \in Refs : Clean(w.bound[r], lastKey)
    BY <1>7, ParsedTyped, BeginFrameClean DEF FrameObu
  <2>3. pending = {}
    BY <1>7 DEF FrameObu, MayInterleave
  <2>4. QED
    BY <1>3, <1>7, <2>1, <2>2, <2>3 DEF FrameObu
<1>8. ASSUME NEW s \in Slots, ShowExisting(s) PROVE EntryInv'
  BY <1>4, <1>8 DEF ShowExisting
<1>9. CASE TileGroup
  <2>1. PICK p \in pending : BeginFrame(p)
    BY <1>9 DEF TileGroup
  <2>2. \A w \in work' : w.frame = p /\ \A r \in Refs : Clean(w.bound[r], lastKey)
    BY <2>1, BeginFrameClean DEF TypeOK
  <2>3. QED
    BY <1>9, <2>2 DEF TileGroup, PendingTaken
<1>10. CASE SkippedObu \/ ObuRejected \/ EndOfStream
  BY <1>4, <1>10 DEF SkippedObu, ObuRejected, EndOfStream
<1>11. CASE StageCancelled \/ TilesRejected \/ RequestStop \/ UNCHANGED vars
  BY <1>4, <1>11 DEF StageCancelled, TilesRejected, RequestStop, vars
<1>12. CASE RunStage
  <2>1. \A w \in work' : \E v \in work : w.frame = v.frame /\ w.bound = v.bound
    BY <1>12 DEF RunStage, TypeOK, FrameInFlight
  <2>2. work # {}
    BY <1>12 DEF RunStage
  <2>3. QED
    BY <1>12, <2>1, <2>2 DEF RunStage
<1>13. CASE Install
  <2>1. PICK w \in work :
          /\ slots' = [s \in Slots |-> Stored(s, Decoded(w), w.frame.hdr.refresh)]
          /\ lastKey' = IF Decoded(w).key /\ w.frame.hdr.show
                          THEN Decoded(w).id ELSE lastKey
    BY <1>13, Zenon DEF Install
  <2>2. pending' = {} /\ work' = {} /\ parses' = parses
    BY <1>13, <2>1 DEF Install
  <2>3. Decoded(w).id = w.frame.id /\ (Decoded(w).key <=> w.frame.hdr.type = "key")
    BY Zenon DEF Decoded
  <2>4. CleanHeader(w.frame, lastKey, parses)
    OBVIOUS
  <2>5. /\ Clean(Decoded(w), lastKey)
        /\ w.frame.hdr.type = "key" => Clean(Decoded(w), w.frame.id)
    BY DecodedClean
  <2>6. CASE w.frame.hdr.type = "key" /\ w.frame.hdr.show
    <3>1. lastKey' = w.frame.id
      BY <2>1, <2>3, <2>6, Zenon
    <3>2. \A s \in Slots : slots'[s] = Decoded(w)
      BY <2>1, <2>4, <2>6 DEF CleanHeader, Stored
    <3>3. lastKey' <= parses'
      BY <2>2, <2>4, <3>1 DEF CleanHeader
    <3>4. \A s \in Slots : Clean(slots'[s], lastKey')
      BY <2>5, <2>6, <3>1, <3>2
    <3>5. QED
      BY <2>2, <3>3, <3>4
  <2>7. CASE ~(w.frame.hdr.type = "key" /\ w.frame.hdr.show)
    <3>1. lastKey' = lastKey
      BY <2>1, <2>3, <2>7, Zenon
    <3>2. \A s \in Slots : slots'[s] \in {Decoded(w), slots[s]}
      BY <2>1 DEF Stored
    <3>3. \A s \in Slots : Clean(slots'[s], lastKey')
      BY <2>5, <3>1, <3>2
    <3>4. QED
      BY <2>2, <3>1, <3>3
  <2>8. QED
    BY <2>6, <2>7
<1>14. QED
  BY <1>5, <1>6, <1>7, <1>8, <1>9, <1>10, <1>11, <1>12, <1>13 DEF Next, Decode

(* In a conformant stream a shown KEY frame is a clean entry point: no slot
   depends, by prediction or through its entropy tables, on an older frame. *)
THEOREM ShownKeyIsEntryPoint == Conformant => (Spec => []RandomAccess)
<1> SUFFICES ASSUME Conformant PROVE Spec => []RandomAccess
  OBVIOUS
<1>1. Init => EntryInv
  <2>1. ASSUME Init PROVE EntryInv
    <3>1. Clean(Empty, 0)
      BY EmptyClean
    <3>2. QED
      BY <2>1, <3>1 DEF Init, EntryInv
  <2>2. QED
    BY <2>1
<1>2. TypeOK /\ EntryInv /\ [Next]_vars => EntryInv'
  BY EntryPreserved
<1>3. EntryInv => RandomAccess
  BY DEF EntryInv, RandomAccess, Clean
<1>4. QED
  BY <1>1, <1>2, <1>3, TypeInitially, TypePreserved, PTL DEF Spec

-----------------------------------------------------------------------------
(* Each header is decoded once                                             *)

DecodedIds == {out[i].id : i \in {j \in DOMAIN out : out[j].by = "decode"}}

(* The number of a header is in one place: waiting, in flight, or output. *)
OnceInv ==
  /\ \A p \in pending : p.id <= parses
  /\ \A w \in work : w.frame.id <= parses
  /\ \A n \in DecodedIds : n <= parses
  /\ \A p \in pending, w \in work : p.id # w.frame.id
  /\ \A p \in pending : p.id \notin DecodedIds
  /\ \A w \in work : w.frame.id \notin DecodedIds
  /\ DecodedOnce

(* One more output of frame f. *)
LEMMA OneMoreOutput ==
  ASSUME TypeOK, NEW e \in Shown, out' = Append(out, e)
  PROVE  /\ DecodedIds' = DecodedIds \cup (IF e.by = "decode" THEN {e.id} ELSE {})
         /\ DecodedOnce /\ (e.by = "decode" => e.id \notin DecodedIds) => DecodedOnce'
<1>1. /\ out \in Seq(Shown)
      /\ DOMAIN out = 1 .. Len(out) /\ DOMAIN out' = 1 .. Len(out) + 1
      /\ Len(out) \in Nat
      /\ \A i \in DOMAIN out : out'[i] = out[i]
      /\ out'[Len(out) + 1] = e
  BY DEF TypeOK
<1>2. DecodedIds' = DecodedIds \cup (IF e.by = "decode" THEN {e.id} ELSE {})
  <2>1. ASSUME NEW n \in DecodedIds'
        PROVE  n \in DecodedIds \cup (IF e.by = "decode" THEN {e.id} ELSE {})
    <3>1. PICK i \in DOMAIN out' : out'[i].by = "decode" /\ n = out'[i].id
      BY <2>1 DEF DecodedIds
    <3>2. CASE i = Len(out) + 1
      BY <1>1, <3>1, <3>2
    <3>3. CASE i # Len(out) + 1
      <4>1. i \in DOMAIN out
        BY <1>1, <3>1, <3>3
      <4>2. QED
        BY <1>1, <3>1, <4>1 DEF DecodedIds
    <3>4. QED
      BY <3>2, <3>3
  <2>2. ASSUME NEW n \in DecodedIds
        PROVE  n \in DecodedIds'
    <3>1. PICK i \in DOMAIN out : out[i].by = "decode" /\ n = out[i].id
      BY <2>2 DEF DecodedIds
    <3>2. i \in DOMAIN out' /\ out'[i] = out[i]
      BY <1>1, <3>1
    <3>3. QED
      BY <3>1, <3>2 DEF DecodedIds
  <2>3. e.by = "decode" => e.id \in DecodedIds'
    <3>1. Len(out) + 1 \in DOMAIN out'
      BY <1>1
    <3>2. QED
      BY <1>1, <3>1 DEF DecodedIds
  <2>4. QED
    BY <2>1, <2>2, <2>3
<1>3. ASSUME DecodedOnce, e.by = "decode" => e.id \notin DecodedIds
      PROVE  DecodedOnce'
  <2>1. SUFFICES ASSUME NEW i \in DOMAIN out', NEW j \in DOMAIN out',
                        out'[i].by = "decode", out'[j].by = "decode",
                        out'[i].id = out'[j].id, i # j
                 PROVE  FALSE
    BY Zenon DEF DecodedOnce
  <2>2. CASE i \in DOMAIN out /\ j \in DOMAIN out
    BY <1>1, <1>3, <2>1, <2>2 DEF DecodedOnce
  <2>3. ASSUME NEW k \in DOMAIN out, out[k].by = "decode", e.by = "decode"
        PROVE  out[k].id # e.id
    BY <1>3, <2>3 DEF DecodedIds
  <2>4. CASE i \notin DOMAIN out
    <3>1. i = Len(out) + 1 /\ j \in DOMAIN out
      BY <1>1, <2>1, <2>4
    <3>2. QED
      BY <1>1, <2>1, <2>3, <3>1
  <2>5. CASE j \notin DOMAIN out
    <3>1. j = Len(out) + 1 /\ i \in DOMAIN out
      BY <1>1, <2>1, <2>5
    <3>2. QED
      BY <1>1, <2>1, <2>3, <3>1
  <2>6. QED
    BY <2>2, <2>4, <2>5
<1>4. QED
  BY <1>2, <1>3

LEMMA OncePreserved ==
  ASSUME TypeOK, OnceInv, [Next]_vars
  PROVE  OnceInv'
<1> USE DEF OnceInv
<1>1. /\ \A p \in pending : p.id \in Nat
      /\ \A w \in work : w.frame.id \in Nat
      /\ \A n \in DecodedIds : n \in Nat
      /\ parses \in Nat
  <2>1. \A i \in DOMAIN out : out[i] \in Shown
    BY DEF TypeOK
  <2>2. QED
    BY <2>1 DEF TypeOK, ParsedHeader, FrameInFlight, DecodedIds, Shown
(* Most steps output nothing and start nothing new. *)
<1>2. ASSUME out' = out PROVE DecodedIds' = DecodedIds /\ DecodedOnce'
  BY <1>2 DEF DecodedIds, DecodedOnce
<1>3. ASSUME out' = out, parses' = parses, pending' = pending, work' = work
      PROVE  OnceInv'
  BY <1>2, <1>3
<1>4. \A h \in Headers : Parsed(h).id = parses + 1
  BY DEF Parsed
<1>5. ASSUME NEW size \in Sizes, SequenceHeader(size) PROVE OnceInv'
  BY <1>3, <1>5 DEF SequenceHeader
<1>6. ASSUME NEW h \in Headers, FrameHeader(h) PROVE OnceInv'
  <2>1. /\ pending' = {Parsed(h)} /\ parses' = parses + 1 /\ out' = out
        /\ work' = work /\ Parsed(h).id = parses + 1
    BY <1>4, <1>6 DEF FrameHeader
  <2>2. QED
    BY <1>1, <1>2, <2>1
<1>7. ASSUME NEW h \in Headers, FrameObu(h) PROVE OnceInv'
  <2>1. /\ pending' = pending /\ parses' = parses + 1 /\ out' = out
        /\ \A w \in work' : w.frame.id = parses + 1
    BY <1>4, <1>7 DEF FrameObu, BeginFrame
  <2>2. QED
    BY <1>1, <1>2, <2>1
<1>8. ASSUME NEW s \in Slots, ShowExisting(s) PROVE OnceInv'
  <2> DEFINE e == [id |-> slots[s].id, by |-> "existing", key |-> slots[s].key]
  <2>1. e \in Shown
    BY DEF Shown, TypeOK, Frame
  <2>2. out' = Append(out, e) /\ UNCHANGED <<parses, pending, work>>
    BY <1>8 DEF ShowExisting
  <2>3. DecodedIds' = DecodedIds /\ DecodedOnce'
    BY <2>1, <2>2, OneMoreOutput
  <2>4. QED
    BY <2>2, <2>3
<1>9. CASE TileGroup
  <2>1. PICK p \in pending : \A w \in work' : w.frame = p
    BY <1>9 DEF TileGroup, BeginFrame
  <2>2. pending' = {} /\ parses' = parses /\ out' = out
    BY <1>9 DEF TileGroup, PendingTaken
  <2>3. QED
    BY <1>2, <2>1, <2>2
<1>10. CASE SkippedObu \/ ObuRejected \/ EndOfStream
  BY <1>3, <1>10 DEF SkippedObu, ObuRejected, EndOfStream
<1>11. CASE StageCancelled \/ TilesRejected \/ RequestStop \/ UNCHANGED vars
  BY <1>3, <1>11 DEF StageCancelled, TilesRejected, RequestStop, vars
<1>12. CASE RunStage
  <2>1. \A w \in work' : \E v \in work : w.frame = v.frame
    BY <1>12 DEF RunStage, TypeOK, FrameInFlight
  <2>2. pending' = pending /\ parses' = parses /\ out' = out
    BY <1>12 DEF RunStage
  <2>3. QED
    BY <1>2, <2>1, <2>2
<1>13. CASE Install
  <2> DEFINE e(w) == [id |-> Decoded(w).id, by |-> "decode", key |-> Decoded(w).key]
  <2>1. PICK w \in work :
          out' = IF w.frame.hdr.show THEN Append(out, e(w)) ELSE out
    BY <1>13, Zenon DEF Install
  <2>2. pending' = pending /\ work' = {} /\ parses' = parses
    BY <1>13 DEF Install
  <2>3. CASE ~w.frame.hdr.show
    BY <1>2, <2>1, <2>2, <2>3
  <2>4. CASE w.frame.hdr.show
    <3>1. Decoded(w) \in Frame
      BY DecodedTyped DEF TypeOK
    <3>2. e(w) \in Shown /\ e(w).by = "decode"
      BY <3>1 DEF Shown, Frame
    <3>3. e(w).id = w.frame.id
      BY DEF Decoded
    <3>4. DecodedIds' = DecodedIds \cup {w.frame.id} /\ DecodedOnce'
      <4> HIDE DEF e
      <4> QED  BY <2>1, <2>4, <3>2, <3>3, OneMoreOutput
    <3>5. QED
      BY <2>2, <3>4
  <2>5. QED
    BY <2>3, <2>4
<1>14. QED
  BY <1>5, <1>6, <1>7, <1>8, <1>9, <1>10, <1>11, <1>12, <1>13 DEF Next, Decode

(* Whatever the order of headers, whole frames and tile groups, conformant or
   not, no header's frame is decoded and output twice. *)
THEOREM NoHeaderDecodedTwice == Spec => []DecodedOnce
<1>1. Init => OnceInv
  BY DEF Init, OnceInv, DecodedIds, DecodedOnce
<1>2. TypeOK /\ OnceInv /\ [Next]_vars => OnceInv'
  BY OncePreserved
<1>3. OnceInv => DecodedOnce
  BY DEF OnceInv
<1>4. QED
  BY <1>1, <1>2, <1>3, TypeInitially, TypePreserved, PTL DEF Spec

-----------------------------------------------------------------------------
(* A header that waits while whole frames are decoded                      *)

(* One header waits at most, and a frame in flight beside it is of a later
   header: it came as one OBU while the header waited. *)
WaitingInv ==
  /\ \A p, q \in pending : p = q
  /\ \A p \in pending, w \in work : w.frame.id > p.id

LEMMA WaitingPreserved ==
  ASSUME TypeOK, OnceInv, WaitingInv, [Next]_vars
  PROVE  WaitingInv'
<1> USE DEF WaitingInv
<1>1. ASSUME UNCHANGED <<pending, work>> PROVE WaitingInv'
  BY <1>1
<1>2. ASSUME NEW size \in Sizes, SequenceHeader(size) PROVE WaitingInv'
  BY <1>1, <1>2 DEF SequenceHeader
<1>3. ASSUME NEW h \in Headers, FrameHeader(h) PROVE WaitingInv'
  <2>1. pending' = {Parsed(h)} /\ work' = {}
    BY <1>3 DEF FrameHeader, ReadyForObu
  <2>2. QED
    BY <2>1
<1>4. ASSUME NEW h \in Headers, FrameObu(h) PROVE WaitingInv'
  <2>1. pending' = pending /\ \A w \in work' : w.frame.id = parses + 1
    BY <1>4 DEF FrameObu, BeginFrame, Parsed
  <2>2. \A p \in pending : p.id \in Nat /\ p.id <= parses /\ parses \in Nat
    BY DEF TypeOK, ParsedHeader, OnceInv
  <2>3. QED
    BY <2>1, <2>2
<1>5. ASSUME NEW s \in Slots, ShowExisting(s) PROVE WaitingInv'
  BY <1>1, <1>5 DEF ShowExisting
<1>6. CASE TileGroup
  BY <1>6 DEF TileGroup, PendingTaken
<1>7. CASE SkippedObu \/ ObuRejected \/ EndOfStream
  BY <1>1, <1>7 DEF SkippedObu, ObuRejected, EndOfStream
<1>8. CASE StageCancelled \/ TilesRejected \/ RequestStop \/ UNCHANGED vars
  BY <1>1, <1>8 DEF StageCancelled, TilesRejected, RequestStop, vars
<1>9. CASE RunStage
  <2>1. \A w \in work' : \E v \in work : w.frame = v.frame
    BY <1>9 DEF RunStage, TypeOK, FrameInFlight
  <2>2. QED
    BY <1>9, <2>1 DEF RunStage
<1>10. CASE Install
  BY <1>10 DEF Install
<1>11. QED
  BY <1>2, <1>3, <1>4, <1>5, <1>6, <1>7, <1>8, <1>9, <1>10 DEF Next, Decode

(* The references found when a frame begins are the ones its slots hold. *)
LEMMA BegunSameOrLater ==
  ASSUME NEW p, BeginFrame(p), p.hdr.type = "inter" => SameOrLater(Bind(p.hdr), p)
  PROVE  \A w \in work' : w.frame.hdr.type = "inter" => SameOrLater(w.bound, w.frame)
<1> DEFINE b == IF p.hdr.type = "inter" THEN Bind(p.hdr) ELSE [r \in Refs |-> Empty]
<1>1. work' = {[frame |-> p, bound |-> b, stage |-> "tiles"]}
  BY Zenon DEF BeginFrame
<1>2. ASSUME NEW w \in work', w.frame.hdr.type = "inter"
      PROVE  SameOrLater(w.bound, w.frame)
  <2>1. w.frame = p /\ w.bound = b
    BY <1>1
  <2>2. QED
    BY <1>2, <2>1, Zenon
<1>3. QED
  BY <1>2

(* A header is parsed with what the slots hold. *)
LEMMA ParsedSame ==
  ASSUME NEW h
  PROVE  LET p == Parsed(h) IN p.hdr.type = "inter" => SameOrLater(Bind(p.hdr), p)
<1>1. Parsed(h).hdr = Prefix(h)
  BY DEF Parsed
<1>2. ASSUME Prefix(h).type = "inter" PROVE Parsed(h).lent = Bind(Prefix(h))
  BY <1>2 DEF Parsed
<1>3. QED
  BY <1>1, <1>2 DEF SameOrLater

LEMMA SecondLookupPreserved ==
  ASSUME TypeOK, WaitingInv, SecondLookupNotOlder, [Next]_vars
  PROVE  SecondLookupNotOlder'
<1> USE DEF SecondLookupNotOlder
(* Only Install writes a slot. *)
<1>1. ASSUME UNCHANGED slots
      PROVE  \A p : SameOrLater(Bind(p.hdr), p)' <=> SameOrLater(Bind(p.hdr), p)
  BY <1>1 DEF SameOrLater, Bind
<1>2. ASSUME UNCHANGED <<slots, pending, work>> PROVE SecondLookupNotOlder'
  BY <1>2 DEF SameOrLater, Bind
<1>3. ASSUME NEW size \in Sizes, SequenceHeader(size) PROVE SecondLookupNotOlder'
  BY <1>2, <1>3 DEF SequenceHeader
<1>4. ASSUME NEW h \in Headers, FrameHeader(h) PROVE SecondLookupNotOlder'
  <2>1. pending' = {Parsed(h)} /\ work' = {} /\ slots' = slots
    BY <1>4 DEF FrameHeader, ReadyForObu
  <2>2. PICK p : p = Parsed(h)
    OBVIOUS
  <2>3. p.hdr.type = "inter" => SameOrLater(Bind(p.hdr), p)
    BY <2>2, ParsedSame
  <2>4. p.hdr.type = "inter" => SameOrLater(Bind(p.hdr), p)'
    BY <1>1, <2>1, <2>3
  <2>5. QED
    BY <2>1, <2>2, <2>4
<1>5. ASSUME NEW h \in Headers, FrameObu(h) PROVE SecondLookupNotOlder'
  <2>1. pending' = pending /\ slots' = slots
    BY <1>5 DEF FrameObu
  <2>2. \A w \in work' : w.frame.hdr.type = "inter" => SameOrLater(w.bound, w.frame)
    BY <1>5, ParsedSame, BegunSameOrLater DEF FrameObu
  <2>3. QED
    BY <1>1, <2>1, <2>2 DEF SameOrLater
<1>6. ASSUME NEW s \in Slots, ShowExisting(s) PROVE SecondLookupNotOlder'
  BY <1>2, <1>6 DEF ShowExisting
<1>7. CASE TileGroup
  <2>1. PICK p \in pending : BeginFrame(p)
    BY <1>7 DEF TileGroup
  <2>2. \A w \in work' : w.frame.hdr.type = "inter" => SameOrLater(w.bound, w.frame)
    BY <2>1, BegunSameOrLater
  <2>3. QED
    BY <1>7, <2>2 DEF TileGroup, PendingTaken, SameOrLater
<1>8. CASE SkippedObu \/ ObuRejected \/ EndOfStream
  BY <1>2, <1>8 DEF SkippedObu, ObuRejected, EndOfStream
<1>9. CASE StageCancelled \/ TilesRejected \/ RequestStop \/ UNCHANGED vars
  BY <1>2, <1>9 DEF StageCancelled, TilesRejected, RequestStop, vars
<1>10. CASE RunStage
  <2>1. \A w \in work' : \E v \in work : w.frame = v.frame /\ w.bound = v.bound
    BY <1>10 DEF RunStage, TypeOK, FrameInFlight
  <2>2. UNCHANGED <<slots, pending>>
    BY <1>10 DEF RunStage
  <2>3. QED
    BY <1>1, <2>1, <2>2 DEF SameOrLater
(* A slot is overwritten by a frame whose header came after the one waiting. *)
<1>11. CASE Install
  <2>1. PICK w \in work :
          slots' = [s \in Slots |-> Stored(s, Decoded(w), w.frame.hdr.refresh)]
    BY <1>11, Zenon DEF Install
  <2>2. pending' = pending /\ work' = {}
    BY <1>11 DEF Install
  <2>3. ASSUME NEW p \in pending, p.hdr.type = "inter", NEW r \in Refs
        PROVE  slots'[p.hdr.refs[r]] = p.lent[r] \/ slots'[p.hdr.refs[r]].id > p.id
    <3>1. p.hdr.refs[r] \in Slots
      BY DEF TypeOK, ParsedHeader, HeaderSyntax
    <3>2. slots'[p.hdr.refs[r]] \in {Decoded(w), slots[p.hdr.refs[r]]}
      BY <2>1, <3>1 DEF Stored
    <3>3. Decoded(w).id > p.id
      BY DEF Decoded, WaitingInv
    <3>4. slots[p.hdr.refs[r]] = p.lent[r] \/ slots[p.hdr.refs[r]].id > p.id
      BY <2>3 DEF SameOrLater, Bind
    <3>5. QED
      BY <3>2, <3>3, <3>4
  <2>4. QED
    BY <2>2, <2>3 DEF SameOrLater, Bind
<1>12. QED
  BY <1>3, <1>4, <1>5, <1>6, <1>7, <1>8, <1>9, <1>10, <1>11 DEF Next, Decode

LEMMA OnceAndWaiting == Spec => [](TypeOK /\ OnceInv /\ WaitingInv)
<1>1. Init => OnceInv /\ WaitingInv
  BY DEF Init, OnceInv, WaitingInv, DecodedIds, DecodedOnce
<1>2. TypeOK /\ OnceInv /\ WaitingInv /\ [Next]_vars => OnceInv' /\ WaitingInv'
  BY OncePreserved, WaitingPreserved
<1>3. QED
  BY <1>1, <1>2, TypeInitially, TypePreserved, PTL DEF Spec

(* With OBUs in any order: what decode_frame_and_install looks up again is what
   the header was parsed against, or a frame whose header came later. *)
THEOREM SecondLookupHolds == Spec => []SecondLookupNotOlder
<1>1. Init => SecondLookupNotOlder
  BY DEF Init, SecondLookupNotOlder
<1>2. TypeOK /\ WaitingInv /\ SecondLookupNotOlder /\ [Next]_vars
        => SecondLookupNotOlder'
  BY SecondLookupPreserved
<1>3. QED
  BY <1>1, <1>2, OnceAndWaiting, PTL DEF Spec

(* The outputs of decodes. *)
DecodedAt == {i \in DOMAIN out : out[i].by = "decode"}

(* A frame that came out before an earlier header's leaves no other such header
   behind, waiting or in flight; and while a header waits, the frame in flight
   is of a later header than every frame that has come out. *)
OrderInv ==
  /\ OvertakesOne
  /\ \A i, j \in DOMAIN out :
       CameOutBefore(i, j) => /\ \A p \in pending : p.id > out[i].id
                              /\ \A w \in work : w.frame.id > out[i].id
  /\ pending # {} => \A i \in DecodedAt, w \in work : w.frame.id > out[i].id

LEMMA OrderTyped ==
  ASSUME TypeOK
  PROVE  /\ parses \in Nat
         /\ \A i \in DOMAIN out : out[i].id \in Nat /\ i \in Nat
         /\ \A p \in pending : p.id \in Nat
         /\ \A w \in work : w.frame.id \in Nat
<1>1. \A i \in DOMAIN out : out[i] \in Shown /\ i \in Nat
  BY DEF TypeOK
<1>2. QED
  BY <1>1 DEF TypeOK, Shown, ParsedHeader, FrameInFlight

(* One more output e: it comes after every other, so it overtakes none, and is
   overtaken by those of a greater number. *)
LEMMA OrderExtended ==
  ASSUME TypeOK, OrderInv, NEW e \in Shown, out' = Append(out, e),
         e.by = "decode" =>
           \A i, j \in DOMAIN out : CameOutBefore(i, j) => out[i].id < e.id
  PROVE  /\ OvertakesOne'
         /\ \A i, j \in DOMAIN out' :
              CameOutBefore(i, j)' =>
                /\ i \in DOMAIN out /\ out'[i] = out[i]
                /\ \/ j \in DOMAIN out /\ CameOutBefore(i, j)
                   \/ e.by = "decode" /\ e.id < out[i].id
                /\ i \in DecodedAt
<1>1. /\ DOMAIN out = 1 .. Len(out) /\ DOMAIN out' = 1 .. Len(out) + 1
      /\ Len(out) \in Nat
      /\ \A i \in DOMAIN out : out'[i] = out[i]
      /\ out'[Len(out) + 1] = e
  BY DEF TypeOK
<1>2. ASSUME NEW i \in DOMAIN out', NEW j \in DOMAIN out', CameOutBefore(i, j)'
      PROVE  /\ i \in DOMAIN out /\ out'[i] = out[i]
             /\ i \in DecodedAt
             /\ \/ j \in DOMAIN out /\ CameOutBefore(i, j)
                \/ j = Len(out) + 1 /\ e.by = "decode" /\ e.id < out[i].id
  <2>1. /\ i < j /\ out'[i].by = "decode" /\ out'[j].by = "decode"
        /\ out'[j].id < out'[i].id
    BY <1>2 DEF CameOutBefore
  <2>2. i \in DOMAIN out /\ out'[i] = out[i]
    BY <1>1, <2>1
  <2>3. i \in DecodedAt
    BY <2>1, <2>2 DEF DecodedAt
  <2>4. CASE j \in DOMAIN out
    <3>1. out'[j] = out[j]
      BY <1>1, <2>4
    <3>2. CameOutBefore(i, j)
      BY <2>1, <2>2, <3>1 DEF CameOutBefore
    <3>3. QED
      BY <2>2, <2>3, <2>4, <3>2
  <2>5. CASE j \notin DOMAIN out
    <3>1. j = Len(out) + 1 /\ out'[j] = e
      BY <1>1, <2>5
    <3>2. QED
      BY <2>1, <2>2, <2>3, <3>1
  <2>6. QED
    BY <2>4, <2>5
<1>3. OvertakesOne'
  <2>1. SUFFICES ASSUME NEW i \in DOMAIN out', NEW j \in DOMAIN out',
                        NEW k \in DOMAIN out',
                        CameOutBefore(i, j)', CameOutBefore(i, k)'
                 PROVE  j = k
    BY Zenon DEF OvertakesOne
  <2>2. /\ i \in DOMAIN out
        /\ \/ j \in DOMAIN out /\ CameOutBefore(i, j)
           \/ j = Len(out) + 1 /\ e.by = "decode" /\ e.id < out[i].id
        /\ \/ k \in DOMAIN out /\ CameOutBefore(i, k)
           \/ k = Len(out) + 1 /\ e.by = "decode" /\ e.id < out[i].id
    BY <1>2, <2>1
  <2>3. CASE \E m \in DOMAIN out : CameOutBefore(i, m)
    <3>1. e.by = "decode" => out[i].id < e.id
      BY <2>2, <2>3
    <3>2. out[i].id \in Nat /\ e.id \in Nat
      BY <2>2, OrderTyped DEF Shown
    <3>3. CameOutBefore(i, j) /\ CameOutBefore(i, k) /\ j \in DOMAIN out /\ k \in DOMAIN out
      BY <2>2, <3>1, <3>2
    <3>4. QED
      BY <2>2, <3>3 DEF OrderInv, OvertakesOne
  <2>4. CASE ~ \E m \in DOMAIN out : CameOutBefore(i, m)
    BY <2>2, <2>4
  <2>5. QED
    BY <2>3, <2>4
<1>4. QED
  BY <1>2, <1>3

LEMMA OrderPreserved ==
  ASSUME TypeOK, OnceInv, WaitingInv, OrderInv, [Next]_vars
  PROVE  OrderInv'
<1> USE DEF OrderInv
<1>1. /\ parses \in Nat
      /\ \A i \in DOMAIN out : out[i].id \in Nat /\ i \in Nat
      /\ \A p \in pending : p.id \in Nat
      /\ \A w \in work : w.frame.id \in Nat
  BY OrderTyped
<1>2. \A i \in DecodedAt : out[i].id <= parses
  BY DEF DecodedAt, DecodedIds, OnceInv
<1>3. \A i, j \in DOMAIN out : CameOutBefore(i, j) => i \in DecodedAt
  BY DEF CameOutBefore, DecodedAt
<1>4. ASSUME out' = out
      PROVE  /\ OvertakesOne' /\ DecodedAt' = DecodedAt
             /\ \A i, j : CameOutBefore(i, j)' <=> CameOutBefore(i, j)
  BY <1>4 DEF OvertakesOne, CameOutBefore, DecodedAt
<1>5. ASSUME UNCHANGED <<out, pending, work>> PROVE OrderInv'
  BY <1>4, <1>5
<1>6. ASSUME NEW size \in Sizes, SequenceHeader(size) PROVE OrderInv'
  BY <1>5, <1>6 DEF SequenceHeader
<1>7. ASSUME NEW h \in Headers, FrameHeader(h) PROVE OrderInv'
  <2>1. /\ \A p \in pending' : p.id = parses + 1
        /\ work' = {} /\ out' = out
    BY <1>7 DEF FrameHeader, ReadyForObu, Parsed
  <2>2. QED
    BY <1>1, <1>2, <1>3, <1>4, <2>1
<1>8. ASSUME NEW h \in Headers, FrameObu(h) PROVE OrderInv'
  <2>1. /\ \A w \in work' : w.frame.id = parses + 1
        /\ pending' = pending /\ out' = out
    BY <1>8 DEF FrameObu, BeginFrame, Parsed
  <2>2. QED
    BY <1>1, <1>2, <1>3, <1>4, <2>1 DEF DecodedAt
<1>9. ASSUME NEW s \in Slots, ShowExisting(s) PROVE OrderInv'
  <2> DEFINE e == [id |-> slots[s].id, by |-> "existing", key |-> slots[s].key]
  <2>1. e \in Shown
    BY DEF Shown, TypeOK, Frame
  <2>2. out' = Append(out, e) /\ UNCHANGED <<pending, work>> /\ work = {}
    BY <1>9 DEF ShowExisting, ReadyForObu
  <2>3. /\ OvertakesOne'
        /\ \A i, j \in DOMAIN out' :
             CameOutBefore(i, j)' =>
               /\ i \in DOMAIN out /\ out'[i] = out[i]
               /\ \/ j \in DOMAIN out /\ CameOutBefore(i, j)
                  \/ e.by = "decode" /\ e.id < out[i].id
               /\ i \in DecodedAt
    <3> HIDE DEF e
    <3>1. e.by = "existing"
      BY DEF e
    <3>2. QED
      BY <2>1, <2>2, <3>1, OrderExtended
  <2>4. \A i, j \in DOMAIN out' : CameOutBefore(i, j)' =>
          \A p \in pending : p.id > out'[i].id
    <3>1. ASSUME NEW i \in DOMAIN out', NEW j \in DOMAIN out', CameOutBefore(i, j)',
                 NEW p \in pending
          PROVE  p.id > out'[i].id
      <4>1. /\ i \in DOMAIN out /\ out'[i] = out[i]
            /\ j \in DOMAIN out /\ CameOutBefore(i, j)
        BY <2>3, <3>1
      <4>2. QED
        BY <3>1, <4>1
    <3>2. QED
      BY <3>1
  <2>5. QED
    BY <2>2, <2>3, <2>4
<1>10. CASE TileGroup
  <2>1. PICK p \in pending : \A w \in work' : w.frame = p
    BY <1>10 DEF TileGroup, BeginFrame
  <2>2. pending' = {} /\ out' = out
    BY <1>10 DEF TileGroup, PendingTaken
  <2>3. QED
    BY <1>4, <2>1, <2>2
<1>11. CASE SkippedObu \/ ObuRejected \/ EndOfStream
  BY <1>5, <1>11 DEF SkippedObu, ObuRejected, EndOfStream
<1>12. CASE StageCancelled \/ TilesRejected \/ RequestStop \/ UNCHANGED vars
  BY <1>5, <1>12 DEF StageCancelled, TilesRejected, RequestStop, vars
<1>13. CASE RunStage
  <2>1. \A w \in work' : \E v \in work : w.frame = v.frame
    BY <1>13 DEF RunStage, TypeOK, FrameInFlight
  <2>2. pending' = pending /\ out' = out
    BY <1>13 DEF RunStage
  <2>3. QED
    BY <1>4, <2>1, <2>2
<1>14. CASE Install
  <2> DEFINE e(w) == [id |-> Decoded(w).id, by |-> "decode", key |-> Decoded(w).key]
  <2>1. PICK w \in work :
          out' = IF w.frame.hdr.show THEN Append(out, e(w)) ELSE out
    BY <1>14, Zenon DEF Install
  <2>2. pending' = pending /\ work' = {}
    BY <1>14 DEF Install
  <2>3. CASE ~w.frame.hdr.show
    <3>1. out' = out
      BY <2>1, <2>3, Zenon
    <3>2. QED
      BY <1>4, <2>2, <3>1
  <2>4. CASE w.frame.hdr.show
    <3>1. Decoded(w) \in Frame
      BY DecodedTyped DEF TypeOK
    <3>2. PICK f : f = e(w)
      OBVIOUS
    <3>3. f \in Shown /\ f.by = "decode" /\ f.id = w.frame.id
      BY <3>1, <3>2 DEF Shown, Frame, Decoded
    <3>4. out' = Append(out, f)
      BY <2>1, <2>4, <3>2, Zenon
    <3>5. \A i, j \in DOMAIN out : CameOutBefore(i, j) => out[i].id < f.id
      BY <1>1, <3>3
    <3>6. /\ OvertakesOne'
          /\ \A i, j \in DOMAIN out' :
               CameOutBefore(i, j)' =>
                 /\ i \in DOMAIN out /\ out'[i] = out[i]
                 /\ (j \in DOMAIN out /\ CameOutBefore(i, j)) \/ f.id < out[i].id
                 /\ i \in DecodedAt
      <4> HIDE DEF OrderInv
      <4> QED  BY <3>3, <3>4, <3>5, OrderExtended
    <3>7. ASSUME NEW i \in DOMAIN out', NEW j \in DOMAIN out', CameOutBefore(i, j)',
                 NEW p \in pending
          PROVE  p.id > out'[i].id
      <4>1. /\ i \in DOMAIN out /\ out'[i] = out[i] /\ i \in DecodedAt
            /\ (j \in DOMAIN out /\ CameOutBefore(i, j)) \/ f.id < out[i].id
        BY <3>6, <3>7
      <4>2. w.frame.id > out[i].id
        BY <3>7, <4>1
      <4>3. j \in DOMAIN out /\ CameOutBefore(i, j)
        BY <1>1, <3>3, <4>1, <4>2
      <4>4. QED
        BY <3>7, <4>1, <4>3
    <3>8. QED
      BY <2>2, <3>6, <3>7
  <2>5. QED
    BY <2>3, <2>4
<1>15. QED
  BY <1>6, <1>7, <1>8, <1>9, <1>10, <1>11, <1>12, <1>13, <1>14 DEF Next, Decode

(* With OBUs in any order: no frame comes out before two earlier headers. *)
THEOREM OvertakesOneHolds == Spec => []OvertakesOne
<1>1. Init => OrderInv
  BY DEF Init, OrderInv, OvertakesOne, DecodedAt
<1>2. TypeOK /\ OnceInv /\ WaitingInv /\ OrderInv /\ [Next]_vars => OrderInv'
  BY OrderPreserved
<1>3. OrderInv => OvertakesOne
  BY DEF OrderInv
<1>4. QED
  BY <1>1, <1>2, <1>3, OnceAndWaiting, PTL DEF Spec

-----------------------------------------------------------------------------
(* The contract                                                            *)

(* What the prefix reader makes sure of. *)
Inferred(h) ==
  /\ h.type \in {"key", "inter"}
  /\ h.type = "key" => h.primary = 0 /\ (h.show => h.refresh = Slots /\ ~h.showable)
  /\ h.type = "inter" /\ h.show => h.showable

NoRefs == [r \in Refs |-> Empty]
Lent(h) == IF h.type = "inter" THEN Bind(h) ELSE NoRefs

(* A header that waits, or is in flight, is the last one parsed, and the slots
   and the sequence are still what they were when it was parsed: nothing else
   may come between a header and its tiles, and nothing is stored while a frame
   is in flight.  So the second look-up finds what the first one found. *)
Latest(p) ==
  /\ p.id = parses
  /\ p.size = seq /\ p.size \in Sizes
  /\ p.lent = Lent(p.hdr)
  /\ Inferred(p.hdr)

Count == IF pending = {} /\ work = {} THEN parses ELSE parses - 1

SequentialInv ==
  /\ \A p \in pending : Latest(p)
  /\ \A w \in work :
       /\ Latest(w.frame)
       /\ w.bound = w.frame.lent
       /\ PrimaryBound(w.frame.hdr)
       /\ w.frame.hdr.type = "inter" => \E r \in Refs : w.bound[r] # Empty
  /\ work # {} => pending = {}
  /\ parses = 0 => pending = {} /\ work = {}
  /\ \A n \in DecodedIds : n <= Count

LEMMA PrefixInferred ==
  ASSUME NEW h \in HeaderSyntax, HeaderParses(h)
  PROVE  Inferred(Prefix(h))
<1>1. /\ Prefix(h).type = h.type /\ Prefix(h).show = h.show
      /\ h.type \in {"key", "inter"}
  BY PrefixTyped DEF HeaderParses
<1>2. h.show => (Prefix(h).showable <=> h.type # "key")
  BY Zenon DEF Prefix, HeaderSyntax
<1>3. h.type = "key" => Prefix(h).primary = 0 /\ (h.show => Prefix(h).refresh = Slots)
  BY PrefixOfKey
<1>4. QED
  BY <1>1, <1>2, <1>3 DEF Inferred

LEMMA ParsedLatest ==
  ASSUME TypeOK, NEW h \in Headers, HeaderParses(h)
  PROVE  LET p == Parsed(h) IN
         /\ p.id = parses + 1 /\ p.size = seq /\ seq \in Sizes
         /\ p.lent = Lent(p.hdr) /\ Inferred(p.hdr) /\ PrimaryBound(p.hdr)
<1>1. Inferred(Prefix(h)) /\ PrimaryBound(Prefix(h))
  BY SessionAssumption, PrefixInferred DEF HeaderParses
<1>2. seq \in Sizes
  BY DEF HeaderParses, SequenceUsable, TypeOK
<1>3. QED
  BY <1>1, <1>2 DEF Parsed, Lent, NoRefs

LEMMA BegunBound ==
  ASSUME NEW p, BeginFrame(p)
  PROVE  /\ PrimaryBound(p.hdr)
         /\ \A w \in work' :
              /\ w.frame = p /\ w.bound = Lent(p.hdr)
              /\ p.hdr.type = "inter" => \E r \in Refs : w.bound[r] # Empty
<1>1. PrimaryBound(p.hdr)
  BY DEF BeginFrame
<1>2. work' = {[frame |-> p, bound |-> Lent(p.hdr), stage |-> "tiles"]}
  BY Zenon DEF BeginFrame, Lent, NoRefs
<1>3. p.hdr.type = "inter" => \E r \in Refs : Lent(p.hdr)[r] # Empty
  BY Zenon DEF BeginFrame, SomeValidRef, Lent, NoRefs
<1>4. QED
  BY <1>1, <1>2, <1>3

LEMMA SequentialPreserved ==
  ASSUME Conformant, TypeOK, OneInFlight, SequentialInv, [Next]_vars
  PROVE  SequentialInv'
<1> USE DEF SequentialInv
<1>1. parses \in Nat
  BY DEF TypeOK
<1>2. \A n \in DecodedIds : n \in Nat
  <2>1. \A i \in DOMAIN out : out[i] \in Shown
    BY DEF TypeOK
  <2>2. QED
    BY <2>1 DEF DecodedIds, Shown
<1>3. ASSUME out' = out
      PROVE  DecodedIds' = DecodedIds
  BY <1>3 DEF DecodedIds
(* What is said of a header reads the slots, the sequence and the number of
   headers alone. *)
<1>4. ASSUME UNCHANGED <<slots, seq, parses>>
      PROVE  /\ \A p : Latest(p) => Latest(p)'
             /\ \A h : PrimaryBound(h) => PrimaryBound(h)'
  BY <1>4 DEF Latest, Lent, Bind, PrimaryBound, Inferred, NoRefs
<1>5. ASSUME UNCHANGED <<slots, seq, parses, out, pending, work>>
      PROVE  SequentialInv'
  BY <1>3, <1>4, <1>5 DEF Count
<1>6. ASSUME NEW size \in Sizes, SequenceHeader(size) PROVE SequentialInv'
  <2>1. pending = {} /\ work = {} /\ UNCHANGED <<parses, out, pending, work>>
    BY <1>6 DEF SequenceHeader, MayInterleave, ReadyForObu
  <2>2. QED
    BY <1>3, <2>1 DEF Count
<1>7. ASSUME NEW h \in Headers, FrameHeader(h) PROVE SequentialInv'
  <2>0. PICK p : p = Parsed(h)
    OBVIOUS
  <2>1. /\ pending = {} /\ work = {} /\ work' = work /\ pending' = {p}
        /\ parses' = parses + 1 /\ UNCHANGED <<slots, seq, out>>
    BY <1>7, <2>0 DEF FrameHeader, MayInterleave, ReadyForObu
  <2>2. Latest(p)'
    <3>1. /\ p.id = parses + 1 /\ p.size = seq /\ seq \in Sizes
          /\ p.lent = Lent(p.hdr) /\ Inferred(p.hdr)
      BY <1>7, <2>0, ParsedLatest DEF FrameHeader
    <3>2. QED
      BY <2>1, <3>1 DEF Latest, Lent, Bind, Inferred, NoRefs
  <2>3. Count = parses /\ Count' = parses
    BY <1>1, <2>1 DEF Count
  <2>4. QED
    BY <1>1, <1>3, <2>1, <2>2, <2>3
<1>8. ASSUME NEW h \in Headers, FrameObu(h) PROVE SequentialInv'
  <2>0. PICK p : p = Parsed(h)
    OBVIOUS
  <2>1. /\ pending = {} /\ work = {} /\ pending' = pending
        /\ parses' = parses + 1 /\ UNCHANGED <<slots, seq, out>>
    BY <1>8 DEF FrameObu, MayInterleave, ReadyForObu
  <2>2. Latest(p)' /\ p.lent = Lent(p.hdr)
    <3>1. /\ p.id = parses + 1 /\ p.size = seq /\ seq \in Sizes
          /\ p.lent = Lent(p.hdr) /\ Inferred(p.hdr)
      BY <1>8, <2>0, ParsedLatest DEF FrameObu
    <3>2. QED
      BY <2>1, <3>1 DEF Latest, Lent, Bind, Inferred, NoRefs
  <2>3. /\ PrimaryBound(p.hdr)'
        /\ \A w \in work' :
             /\ w.frame = p /\ w.bound = Lent(p.hdr)
             /\ p.hdr.type = "inter" => \E r \in Refs : w.bound[r] # Empty
    <3>1. BeginFrame(p)
      BY <1>8, <2>0 DEF FrameObu
    <3>2. QED
      BY <2>1, <3>1, BegunBound DEF PrimaryBound, Bind
  <2>4. work' # {}
    BY <1>8, Zenon DEF FrameObu, BeginFrame
  <2>5. Count = parses /\ Count' = parses
    BY <1>1, <2>1, <2>4 DEF Count
  <2>6. QED
    BY <1>1, <1>3, <2>1, <2>2, <2>3, <2>5
<1>9. ASSUME NEW s \in Slots, ShowExisting(s) PROVE SequentialInv'
  <2> DEFINE e == [id |-> slots[s].id, by |-> "existing", key |-> slots[s].key]
  <2>1. e \in Shown
    BY DEF Shown, TypeOK, Frame
  <2>2. out' = Append(out, e) /\ UNCHANGED <<slots, seq, parses, pending, work>>
    BY <1>9 DEF ShowExisting
  <2>3. DecodedIds' = DecodedIds
    BY <2>1, <2>2, OneMoreOutput
  <2>4. QED
    BY <1>4, <2>2, <2>3 DEF Count
<1>10. CASE TileGroup
  <2>1. PICK p \in pending : BeginFrame(p)
    BY <1>10 DEF TileGroup
  <2>2. pending' = {} /\ work = {} /\ UNCHANGED <<slots, seq, parses, out>>
    BY <1>10 DEF TileGroup, PendingTaken, ReadyForObu
  <2>3. /\ PrimaryBound(p.hdr)'
        /\ \A w \in work' :
             /\ w.frame = p /\ w.bound = Lent(p.hdr)
             /\ p.hdr.type = "inter" => \E r \in Refs : w.bound[r] # Empty
    BY <1>4, <2>1, <2>2, BegunBound
  <2>4. work' # {}
    BY <2>1, Zenon DEF BeginFrame
  <2>5. Count' = Count /\ parses # 0
    BY <2>1, <2>2, <2>4 DEF Count
  <2>6. Latest(p)' /\ p.lent = Lent(p.hdr)
    BY <1>4, <2>2 DEF Latest
  <2>7. QED
    BY <1>3, <2>2, <2>3, <2>5, <2>6
<1>11. CASE SkippedObu \/ ObuRejected \/ EndOfStream
  BY <1>5, <1>11 DEF SkippedObu, ObuRejected, EndOfStream
<1>12. CASE StageCancelled \/ TilesRejected \/ RequestStop \/ UNCHANGED vars
  BY <1>5, <1>12 DEF StageCancelled, TilesRejected, RequestStop, vars
<1>13. CASE RunStage
  <2>1. \A w \in work' : \E v \in work : w.frame = v.frame /\ w.bound = v.bound
    BY <1>13 DEF RunStage, TypeOK, FrameInFlight
  <2>2. work # {} /\ UNCHANGED <<slots, seq, parses, out, pending>>
    BY <1>13 DEF RunStage
  <2>3. work' # {}
    BY <1>13, Zenon DEF RunStage
  <2>4. Count' = Count
    BY <2>2, <2>3 DEF Count
  <2>5. QED
    BY <1>3, <1>4, <2>1, <2>2, <2>4
<1>14. CASE Install
  <2> DEFINE e(w) == [id |-> Decoded(w).id, by |-> "decode", key |-> Decoded(w).key]
  <2>1. PICK w \in work :
          out' = IF w.frame.hdr.show THEN Append(out, e(w)) ELSE out
    BY <1>14, Zenon DEF Install
  <2>2. pending' = {} /\ work' = {} /\ parses' = parses
    BY <1>14, <2>1 DEF Install
  <2>3. Count = parses - 1 /\ Count' = parses
    BY <2>1, <2>2 DEF Count
  <2>4. \A n \in DecodedIds : n < parses
    BY <1>1, <1>2, <2>3
  <2>5. CASE ~w.frame.hdr.show
    <3>1. DecodedIds' = DecodedIds
      BY <1>3, <2>1, <2>5, Zenon
    <3>2. \A n \in DecodedIds' : n <= Count'
      BY <1>1, <1>2, <2>3, <2>4, <3>1
    <3>3. QED
      BY <2>2, <3>1, <3>2, Zenon
  <2>6. CASE w.frame.hdr.show
    <3>1. Decoded(w) \in Frame
      BY DecodedTyped DEF TypeOK
    <3>2. e(w) \in Shown /\ e(w).by = "decode"
      BY <3>1 DEF Shown, Frame
    <3>3. e(w).id = parses
      BY DEF Decoded, Latest
    <3>4. DecodedIds' = DecodedIds \cup {parses}
      <4> HIDE DEF e
      <4> QED  BY <2>1, <2>4, <2>6, <3>2, <3>3, OneMoreOutput
    <3>5. \A n \in DecodedIds' : n <= Count'
      BY <1>1, <1>2, <2>3, <2>4, <3>4
    <3>6. QED
      BY <2>2, <3>4, <3>5, Zenon
  <2>7. QED
    BY <2>5, <2>6
<1>15. QED
  BY <1>6, <1>7, <1>8, <1>9, <1>10, <1>11, <1>12, <1>13, <1>14 DEF Next, Decode

LEMMA SequentialInvariant ==
  ASSUME Conformant
  PROVE  Spec => [](TypeOK /\ OneInFlight /\ SequentialInv)
<1>1. Init => OneInFlight /\ SequentialInv
  BY DEF Init, OneInFlight, SequentialInv, DecodedIds, Count
<1>2. TypeOK /\ OneInFlight /\ SequentialInv /\ [Next]_vars => SequentialInv'
  BY SequentialPreserved
<1>3. QED
  BY <1>1, <1>2, TypeInitially, TypePreserved, OneInFlightPreserved, PTL DEF Spec

(* Nothing is visible of a step that ends no decode and stores no frame. *)
LEMMA InvisibleStep ==
  ASSUME UNCHANGED <<slots, out, status>>, Count' = Count
  PROVE  UNCHANGED Contract!vars
BY DEF Contract!vars, Count

(* Installing a KEY frame is one DecodeKey of the contract, installing an inter
   frame one DecodeInter: the references bound when its tiles came are those
   the slots hold now. *)
LEMMA InstallRefines ==
  ASSUME TypeOK, OneInFlight, SequentialInv, Install
  PROVE  Contract!Next
<1> DEFINE e(w) == [id |-> Decoded(w).id, by |-> "decode", key |-> Decoded(w).key]
<1>1. PICK w \in work :
        /\ slots' = [s \in Slots |-> Stored(s, Decoded(w), w.frame.hdr.refresh)]
        /\ out' = IF w.frame.hdr.show THEN Append(out, e(w)) ELSE out
  BY Zenon DEF Install
<1>2. /\ status = "decoding" /\ status' = status
      /\ pending' = {} /\ pending = {} /\ work' = {} /\ work # {} /\ parses' = parses
  BY <1>1 DEF Install, SequentialInv
<1> DEFINE h == w.frame.hdr
           c == IF pending = {} /\ work = {} THEN parses ELSE parses - 1
<1>3. /\ w \in FrameInFlight /\ w.frame \in ParsedHeader /\ h \in HeaderSyntax
      /\ w.bound \in [Refs -> Frame]
  BY DEF TypeOK, FrameInFlight, ParsedHeader
<1>4. /\ h.show \in BOOLEAN /\ h.showable \in BOOLEAN /\ h.saveCtx \in BOOLEAN
      /\ h.refresh \in SUBSET Slots /\ h.refs \in [Refs -> Slots]
      /\ h.primary \in 0 .. NumRefs
  BY <1>3, Zenon DEF HeaderSyntax
<1>5. /\ w.frame.id = parses /\ w.frame.size \in Sizes
      /\ Inferred(h) /\ w.bound = Lent(h) /\ w.frame.lent = Lent(h)
      /\ PrimaryBound(h)
      /\ h.type = "inter" => \E r \in Refs : w.bound[r] # Empty
  BY DEF SequentialInv, Latest
<1>6. parses = c + 1 /\ c' = c + 1
  <2>1. parses \in Nat
    BY DEF TypeOK
  <2>2. QED
    BY <1>2, <2>1
<1>7. /\ Decoded(w).id = c + 1 /\ Decoded(w).showable = h.showable
      /\ Decoded(w).size = w.frame.size
      /\ Decoded(w).key = (h.type = "key")
  BY <1>5, <1>6, Zenon DEF Decoded
<1> HIDE DEF c
<1>8. ASSUME NEW f, f = Decoded(w)
      PROVE  /\ slots' = [s \in Slots |-> IF s \in h.refresh THEN f ELSE slots[s]]
             /\ out' = IF h.show
                         THEN Append(out, [id |-> f.id, by |-> "decode", key |-> f.key])
                         ELSE out
             /\ c' = c + 1
             /\ UNCHANGED status
  BY <1>1, <1>2, <1>6, <1>8 DEF Stored
<1>9. ASSUME NEW f, f = Decoded(w)
      PROVE  Contract!Store(f, h.refresh, h.show)
  BY <1>8, <1>9 DEF Contract!Store, c
<1>10. CASE h.type = "key"
  <2>1. h.primary = 0 /\ (h.show => h.refresh = Slots /\ ~h.showable)
    BY <1>5, <1>10 DEF Inferred
  <2>2. SavedCtx(w) = IF h.saveCtx THEN c + 1 ELSE 0
    BY <1>5, <1>6, <2>1 DEF SavedCtx
  <2> DEFINE f == [id |-> c + 1, key |-> TRUE, showable |-> h.showable,
                   size |-> w.frame.size, roots |-> {c + 1},
                   ctx |-> IF h.saveCtx THEN c + 1 ELSE 0]
  <2>3. f = Decoded(w)
    <3>1. Decoded(w) = [id |-> c + 1, key |-> h.type = "key",
                        showable |-> h.showable, size |-> w.frame.size,
                        roots |-> {c + 1}, ctx |-> SavedCtx(w)]
      BY <1>5, <1>6, <1>10, Zenon DEF Decoded
    <3>2. (h.type = "key") = TRUE
      BY <1>10
    <3>3. QED
      BY <2>2, <3>1, <3>2, Zenon
  <2>4. Contract!Store(f, h.refresh, h.show)
    BY <1>9, <2>3
  <2>5. Contract!DecodeKey
    <3> DEFINE Step(size, show, showable, adapted, refresh) ==
          /\ show => refresh = Slots /\ ~showable
          /\ Contract!Store([id |-> c + 1, key |-> TRUE, showable |-> showable,
                             size |-> size, roots |-> {c + 1},
                             ctx |-> IF adapted THEN c + 1 ELSE 0], refresh, show)
    <3>1. Step(w.frame.size, h.show, h.showable, h.saveCtx, h.refresh)
      BY <2>1, <2>4
    <3> HIDE DEF Step
    <3>2. \E size \in Sizes, show, showable, adapted \in BOOLEAN,
             refresh \in SUBSET Slots : Step(size, show, showable, adapted, refresh)
      BY <1>4, <1>5, <3>1
    <3>3. QED
      BY <1>2, <3>2, Zenon DEF Contract!DecodeKey, c, Step
  <2>6. QED
    BY <2>5 DEF Contract!Next
<1>11. CASE h.type = "inter"
  <2>1. /\ w.bound = [r \in Refs |-> slots[h.refs[r]]] /\ w.frame.lent = w.bound
        /\ h.show => h.showable
        /\ \E r \in Refs : slots[h.refs[r]] # Empty
    BY <1>5, <1>11 DEF Inferred, Lent, Bind
  <2>2. h.primary # 0 => h.primary \in Refs
    BY <1>4, SessionAssumption DEF Refs
  <2>3. h.primary # 0 => slots[h.refs[h.primary]] # Empty
    BY <1>5, <2>1, <2>2 DEF PrimaryBound, Bind
  <2>4. SavedCtx(w) = IF h.saveCtx THEN c + 1
                      ELSE IF h.primary = 0 THEN 0 ELSE slots[h.refs[h.primary]].ctx
    BY <1>5, <1>6, <2>1, <2>2 DEF SavedCtx
  <2>5. BoundRoots(w.bound) \cup BoundRoots(w.frame.lent)
          = UNION {slots[h.refs[r]].roots : r \in Refs}
    BY <2>1 DEF BoundRoots
  <2> DEFINE f == [id |-> c + 1, key |-> FALSE, showable |-> h.showable,
                   size |-> w.frame.size,
                   roots |-> UNION {slots[h.refs[r]].roots : r \in Refs},
                   ctx |-> IF h.saveCtx THEN c + 1
                           ELSE IF h.primary = 0 THEN 0
                           ELSE slots[h.refs[h.primary]].ctx]
  <2>6. f = Decoded(w)
    <3>1. Decoded(w) = [id |-> c + 1, key |-> h.type = "key",
                        showable |-> h.showable, size |-> w.frame.size,
                        roots |-> UNION {slots[h.refs[r]].roots : r \in Refs},
                        ctx |-> SavedCtx(w)]
      <4>1. h.type # "key"
        BY <1>11
      <4>2. QED
        BY <1>5, <1>6, <2>5, <4>1, Zenon DEF Decoded
    <3>2. (h.type = "key") = FALSE
      BY <1>11
    <3>3. QED
      BY <2>4, <3>1, <3>2, Zenon
  <2>7. Contract!Store(f, h.refresh, h.show)
    BY <1>9, <2>6
  <2>8. Contract!DecodeInter
    <3> DEFINE Step(size, show, showable, adapted, refresh, refs, primary) ==
          /\ show => showable
          /\ \E r \in Refs : slots[refs[r]] # Empty
          /\ primary # 0 => slots[refs[primary]] # Empty
          /\ Contract!Store([id |-> c + 1, key |-> FALSE, showable |-> showable,
                             size |-> size,
                             roots |-> UNION {slots[refs[r]].roots : r \in Refs},
                             ctx |-> IF adapted THEN c + 1
                                     ELSE IF primary = 0 THEN 0
                                     ELSE slots[refs[primary]].ctx], refresh, show)
    <3>1. Step(w.frame.size, h.show, h.showable, h.saveCtx, h.refresh, h.refs, h.primary)
      BY <2>1, <2>3, <2>7, Zenon
    <3> HIDE DEF Step
    <3>2. \E size \in Sizes, show, showable, adapted \in BOOLEAN,
             refresh \in SUBSET Slots, refs \in [Refs -> Slots],
             primary \in 0 .. NumRefs :
             Step(size, show, showable, adapted, refresh, refs, primary)
      BY <1>4, <1>5, <3>1, Zenon
    <3>3. QED
      BY <1>2, <3>2, Zenon
      DEF Contract!DecodeInter, c, Step, Contract!Refs, Refs, Contract!Empty, Empty
  <2>9. QED
    BY <2>8 DEF Contract!Next
<1>12. QED
  BY <1>5, <1>10, <1>11 DEF Inferred

LEMMA SessionStepRefines ==
  ASSUME Conformant, TypeOK, OneInFlight, SequentialInv, [Next]_vars
  PROVE  [Contract!Next]_(Contract!vars)
<1> USE DEF SequentialInv
<1>1. parses \in Nat
  BY DEF TypeOK
<1>2. ASSUME NEW size \in Sizes, SequenceHeader(size) PROVE UNCHANGED Contract!vars
  BY <1>2, InvisibleStep DEF SequenceHeader, Count
<1>3. ASSUME NEW h \in Headers, FrameHeader(h) PROVE UNCHANGED Contract!vars
  <2>1. /\ pending = {} /\ work = {} /\ pending' # {} /\ parses' = parses + 1
        /\ UNCHANGED <<slots, out, status>>
    BY <1>3 DEF FrameHeader, MayInterleave, ReadyForObu
  <2>2. Count = parses /\ Count' = parses
    BY <1>1, <2>1 DEF Count
  <2>3. QED
    BY <2>1, <2>2, InvisibleStep
<1>4. ASSUME NEW h \in Headers, FrameObu(h) PROVE UNCHANGED Contract!vars
  <2>1. /\ pending = {} /\ work = {} /\ parses' = parses + 1
        /\ UNCHANGED <<slots, out, status>>
    BY <1>4 DEF FrameObu, MayInterleave, ReadyForObu
  <2>2. work' # {}
    BY <1>4, Zenon DEF FrameObu, BeginFrame
  <2>3. Count = parses /\ Count' = parses
    BY <1>1, <2>1, <2>2 DEF Count
  <2>4. QED
    BY <2>1, <2>3, InvisibleStep
<1>5. ASSUME NEW s \in Slots, ShowExisting(s) PROVE Contract!Next
  <2>1. /\ status = "decoding" /\ UNCHANGED <<slots, status>> /\ Count' = Count
        /\ CanShow(slots[s])
        /\ out' = Append(out, [id |-> slots[s].id, by |-> "existing", key |-> slots[s].key])
    BY <1>5 DEF ShowExisting, ReadyForObu, Count
  <2>2. slots[s].key = FALSE
    <3>1. slots[s].key \in BOOLEAN
      BY DEF TypeOK, Frame
    <3>2. QED
      BY <2>1, <3>1 DEF CanShow
  <2>3. Contract!Empty = Empty
    BY DEF Contract!Empty, Empty
  <2>4. Contract!ShowStored
    BY <2>1, <2>2, <2>3 DEF Contract!ShowStored, CanShow, Count
  <2>5. QED
    BY <2>4 DEF Contract!Next
<1>6. CASE TileGroup
  <2>1. pending # {} /\ pending' = {} /\ UNCHANGED <<slots, out, status, parses>>
    BY <1>6 DEF TileGroup, PendingTaken
  <2>2. work' # {}
    BY <1>6, Zenon DEF TileGroup, BeginFrame
  <2>3. Count' = Count
    BY <2>1, <2>2 DEF Count
  <2>4. QED
    BY <2>1, <2>3, InvisibleStep
<1>7. CASE SkippedObu \/ RequestStop \/ UNCHANGED vars
  <2>1. UNCHANGED <<slots, out, status, pending, work, parses>>
    BY <1>7 DEF SkippedObu, RequestStop, vars
  <2>2. QED
    BY <2>1, InvisibleStep DEF Count
<1>8. CASE ObuRejected \/ EndOfStream \/ StageCancelled \/ TilesRejected
  <2>1. /\ status = "decoding" /\ UNCHANGED <<slots, out>> /\ Count' = Count
        /\ status' \in {"error", "cancelled"} \/ (out # <<>> /\ status' = "ok")
    BY <1>8 DEF ObuRejected, EndOfStream, StageCancelled, TilesRejected, ReadyForObu, Count
  <2>2. Contract!Finish
    BY <2>1 DEF Contract!Finish, Count
  <2>3. QED
    BY <2>2 DEF Contract!Next
<1>9. CASE RunStage
  <2>1. work # {} /\ UNCHANGED <<slots, out, status, pending, parses>>
    BY <1>9 DEF RunStage
  <2>2. work' # {}
    BY <1>9, Zenon DEF RunStage
  <2>3. QED
    BY <2>1, <2>2, InvisibleStep DEF Count
<1>10. CASE Install
  BY <1>10, InstallRefines
<1>11. QED
  BY <1>2, <1>3, <1>4, <1>5, <1>6, <1>7, <1>8, <1>9, <1>10 DEF Next, Decode

(* In a conformant stream the walk over the OBUs, with its split between header
   and tiles, its stages and its stop token, implements the contract: each frame
   is decoded in one atomic step against the slots as they are in that step. *)
THEOREM WalkImplementsContract == Conformant => (Spec => ContractSpec)
<1> SUFFICES ASSUME Conformant PROVE Spec => ContractSpec
  OBVIOUS
<1>1. Init => Contract!Init
  BY DEF Init, Contract!Init, Empty, Contract!Empty
<1>2. TypeOK /\ OneInFlight /\ SequentialInv /\ [Next]_vars
        => [Contract!Next]_(Contract!vars)
  BY SessionStepRefines
<1>3. QED
  BY <1>1, <1>2, SequentialInvariant, PTL DEF Spec, ContractSpec, Contract!Spec

=============================================================================
