# zenav1-aom: models and proofs

TLA+ models of the stateful core of zenav1-aom, a Rust reimplementation of the
libaom AV1 codec, with TLC runs on small instances and TLAPS proofs for every
value of the constants. `PROJECT.json` holds the machine-readable side of this
file: components, runs, mutants, the map from definitions to source lines,
hazards and theorems.

Run a model with `tlc -config X.cfg M`, check a proof with `tlapm M_proofs.tla`.

## 1. The system

Most of the repository is arithmetic on pixels and coefficients, held byte for
byte to the C library by differential tests. What tests reach badly is the code
around it that keeps state over a sequence of calls, or shares it between
threads. These are its parts.

| Component | State it keeps | Operations | What is hard | What makes it correct |
|---|---|---|---|---|
| Decoder session, `aom-decode/src/frame.rs`: `decode_frames_with` | sequence header, one pending frame header, 8 reference slots, output list | sequence header, frame header, tile group, OBU_FRAME, show-existing, end of data; stop token polled between stages | a header waits while other OBUs change the slots it was parsed against; cancellation from another thread in the middle of a frame; errors after frames were output | a frame is decoded at most once, with what it was parsed against or a later frame, and comes out before one earlier header at most; a cancelled frame leaves no trace; a shown KEY frame is a clean entry point |
| Order hints, same file: `get_relative_dist`, `skip_mode_refs_allowed` | the nearest hints found so far | one scan, sometimes a second | hints wrap | the answer does not depend on the order of the references |
| Post filters, `run_post_filters` of the same file, with the walks of `aom-dsp/src/{loopfilter,cdef,restore}/frame.rs` and `aom-decode/src/{superres,plane}.rs` | planes moved out of the frame and put back, saved rows and columns of the CDEF walk, stripe context rows, the snapshot taken before CDEF | deblock, CDEF, superres, loop restoration, each of them optional; stop polls between and inside the stages | filters that work in place and need what they have overwritten; superblocks, filter blocks, stripes and units on different grids; tile columns in superres; a stop in mid-stage | every sample is filtered once, from the neighbours the format names; the planes come back however a stage ends |
| Tile walk, `aom-decode/src/lib.rs`: `decode_one_tile`, `decode_partition` | partition contexts above and to the left, symbol contexts, CDEF strengths read in the superblock, the list of blocks, the corrupt and cancelled marks | start a tile, start a row of superblocks, read a partition, decode a block, stamp its contexts | contexts that outlive what wrote them, edges that clip a partition, availability computed from positions, one strength for several units | each cell and chroma group in one block; what is read was decoded in the same tile; a stop is answered within a row |
| Range coder, `aom-dsp/src/entropy/{enc,dec,cdf}.rs` | registers, bytes, adapted contexts on both ends | write and read a symbol or bit, flush, open, refill | carries into bytes already out; two refill paths; the end of the data; adaptation over long tiles | what is read is what was written; no register overflows |
| Parallel KEY-frame encode, `aom-encode/src/key_frame.rs`, `aom-dsp/src/par.rs`, the polls of `pack.rs` | a shared cursor of tile-row bands, per-worker results | claim a band, code a tile, merge, in two phases | any schedule, a stop or a panic in one worker | each band once, the same output for every schedule, errors not lost, every encode returns |
| Loop-filter grid, `aom-encode/src/lf_search.rs`: `build_lf_mi_grid_mt` | a vector of slices under a mutex | take a slice, fill it | an uneven static partition | no slice is missing, no row left out |
| Partition search, `aom-encode/src/partition_pick.rs`, `encode_sb.rs` | the mode grid, the reconstructed pixels and four context arrays, live while candidates are tried; trials kept to be taken over | try a partition, descend into a SPLIT, restore contexts, encode the winner | grid and pixels are never put back; the encode of a winner is skipped where a larger square will do it; extended partitions take over trials made for others | every block that wins was chosen on what it will be decoded with, and the winner alone is left |
| Reference management, `aom-encode/src/ref_gop.rs` | 8 (level, order) pairs | choose a slot to overwrite, map 7 names to slots | full buffers, frames coded ahead of display, frames coded in parallel | a slot can always be found, no frame is lost before its overlay, the names read as many different frames as are held and leave out a far one |
| Quality-target search, `aom-target/src/search.rs` | bracket, best trial, budget | one trial | clamps at the ends, early exits | the result is the closest trial, and it was right to stop |

How they interact: the decoder session parses a header against the slots,
decodes tiles (each a walk over a range decoder), runs the post filters and
installs the frame. The encoder's KEY-frame path runs its workers, whose tiles
the partition search decides and the range coder packs. The target search
calls an encode through a closure. Reference management is a library for a
coding order its caller sets. All shared state is
reached through `aom_dsp::par::map_workers` (scoped threads, an `enough::Stop`
token) or not at all.

The rest - the syntax inside a block, pixel kernels, the mode search of a leaf,
filter searches, rate control, resize and denoise, benchmarks - is listed in
`PROJECT.json` with the reason it is not modelled: no state between calls,
floating-point heuristics, or data a model checker cannot enumerate.

## 2. The modules

| Module | Models | Composes with |
|---|---|---|
| `TargetSearch` (`MCTargetSearch`) | `search_target_qindex` over any score function, one action per loop turn | |
| `DecoderSession` (`MCDecoderSession`) | the OBU walk, the slots, the stages of a frame, the stop token | implements `DecoderContract`: a stream is a list of atomic frames |
| `FrameGeometry` | a frame's sizes, planes and units | extended by the walks below |
| `CdefWalk` | the CDEF walk of a frame: one action per filter block and plane | extends `FrameGeometry` |
| `Restoration` | which superblock reads a restoration unit, the saved stripe rows, the filter walk | extends `FrameGeometry` |
| `Superres` | the upscaling of a plane, tile column by tile column | extends `FrameGeometry` |
| `PostFilters` (`MCPostFilters`, `PostFilters_proofs`) | the pipeline: gates, moves of planes, deblocking, snapshot, stop polls | extends the three walks |
| `TileWalk` (`MCTileWalk`, `TileWalk_proofs`) | tiles, superblocks, the recursion over partitions, contexts and marks | |
| `PartitionSearch` (`MCPartitionSearch`) | the encoder's recursion over partitions on its live state | |
| `OrderHints` | the wrapped distance and the scan of skip mode, one action per loop turn | |
| `BandWorkers` | `NWorkers` threads, the cursor, both phases, panics, stop | implements `BandContract`: two atomic passes or one failure |
| `GridBands` | the chunks of the grid's workers and the slices they take | |
| `RefGop` | `refresh_idx`, `get_refresh_frame_flags`, `get_ref_frames`, driven by the coding order of a pyramid | |
| `Cdf` | adaptation, and the split of a range by a context | used by `SymbolCoder` |
| `SymbolCoder` (`MCSymbolCoder`) | both ends of the coder, with carry, flush and the two refills | |
| `*_proofs` | theorems and their proofs, one module per component; `BandWorkers_proofs` has those of `GridBands` too | extend the component's module |

Reading them beside the code:

* **`DecoderSession`.** One action is one OBU (`SequenceHeader`, `FrameHeader`,
  `ShowExisting`, `FrameObu`, `TileGroup`, `SkippedObu`, `ObuRejected`) or one
  stage of the frame in flight (`RunStage`, `TilesRejected`, `StageCancelled`,
  `Install`). `slots`, `pending` and `out` are `ref_frame_map`,
  `pending_header` and `frames`. Pixels are left out; a frame carries what it
  was computed *from*: the KEY frames it depends on (`roots`) and whose adapted
  tables it holds (`ctx`). That is what tells a right decode from one against
  the wrong buffers.
* **`BandWorkers`.** `Claim` is the closure that advances the three band
  iterators together under one lock, `Poll` the check of the stop token at a
  tile's last superblock, `FinishTile` the tile pushed to the worker's own
  results, `Panic` an unwinding worker. The `Collect...` actions are the
  caller behind `map_workers`, which joins every thread before it looks at any
  result.
* **`RefGop`.** `Plan...` chooses the next frame's type, level and order as a
  pyramid would and computes the mask and the names; `Code` stores it. The
  functions are the code's; the driver is external: `ref_gop.rs` is not yet
  called by the encoder, and the driver stands for the coding order of the C
  encoder its comments describe.
* **`PostFilters` and its walks.** Samples are left out. A sample of a plane is
  a cell that says which stages it has been through; a filter's step records
  where each cell it reads came from (the frame, a saved row or column, a
  border marked as absent, a row saved before CDEF), and the properties compare
  that with what the format names. `CdefWalk` follows `cdef_frame_generic`
  down to `prepare_fb` and `filter_fb`; `Restoration` follows
  `loop_restoration_filter_frame_stop` down to the swap of context rows in
  `filter_unit`, and `lr_corners_in_sb` for the units a superblock reads.
  `Cancel...` actions are the polls.
* **`TileWalk`.** The recursion of `decode_partition` is a list of the calls
  still to make. `StampContext` is `update_ext_partition_context`, reached when
  a node's calls have returned; `SkipNode` and `SkipBlock` are the early
  returns of a poisoned frame and of a square outside it. `CellsRead` is what a
  block reads of the blocks around it: the cells above and to the left its
  contexts come from, and what `find_inter_mv_refs` (as `find_dv_ref_mvs`) looks
  at: up to three rows above and three columns to the left, the furthest five cells
  away, and the two corners. How far a scan steps, and whether it is cut short
  once enough was found, depends on the candidates; every place it may look at is
  in the set. The loops that fill up the list of candidates, `find_samples` and
  `has_overlappable_neighbors` walk the nearest row and column and look at the
  same corners. What prediction itself reads (samples, the neighbours of a chroma
  group, earlier frames) is not in it.
* **`PartitionSearch`.** `stack` holds the calls of `rd_pick_partition_real`,
  `mem` the live arrays. `TryPartition` is one of the stages NONE, HORZ/VERT,
  extended and 4-way, from its first leaf search to `restore_context`;
  `SplitInto`, `SplitRefused` and `SplitEnded` are the SPLIT stage; `SquareDone`
  is the encode of the winner and the return. A block carries what its trial
  read around it (`saw`), which is what a wrong restore or reuse would falsify.
  Costs are a choice of how many blocks fit the budget.
* **`SymbolCoder`.** Registers keep their widths as constants. The sliding
  window of the decoder is an integer modulo `2^Window`.
* **`TargetSearch`, `OrderHints`, `GridBands`.** Loop counters are variables, a
  turn of the loop is a step.

An operator with a comment "Mutant" is a wrong form of the one below it. It is
used by no behaviour; replacing the right form by it makes a property fail,
which `PROJECT.json` ("mutants") lists for every property.

## 3. The runs

| Run | Shows | Bounds, and why they are enough |
|---|---|---|
| `target_search` | `BestIsClosest`, `BracketKeepsBest`, `EarlyStopIsOptimal`, `LogBudgetSuffices`, `SearchReturns` | 5 indices of 256, all two-level curves (monotone or not) and all non-increasing five-level ones: a bracket of five shrinks through every shape (odd, even, one, crossed) |
| `decoder_conformant` | `RandomAccess`, `ContractSpec`, for streams whose tile group follows its header | 2 slots, 2 references, 5 OBUs: a KEY frame, two frames on top of it, a re-show and a second KEY |
| `decoder_any_order` | `PrimaryStillBound`, `DecodedOnce`, `SecondLookupNotOlder`, `OvertakesOne`, `StopKeepsFrameOut`, `DecodeReturns`, with OBUs in any order and a stop at any step | same; a header, an OBU_FRAME over its references and then its tile group fit in five OBUs |
| `order_hints` | `SkipModeAsDefined`, `NearestFound` | 3-bit hints, 4 references: every wrap, with two references on each side |
| `band_workers` | `BandsExclusive`, `NeverUncovered`, `ContractSpec` (the output of every schedule is the contract's), `EncodeReturns` | 3 workers, 3 tile rows, 2 columns: a worker without a band, one with two, races for the last |
| `grid_bands` | `SliceFound`, `GridComplete` | 11 rows, 4 workers: quotient 2, remainder 3 |
| `ref_gop_deep` | `SlotFound`, `FutureKept`, `ReferencesWellChosen`, `BaseKept` | display orders 0-9, six levels, seven frames ahead: all eight buffers full, with frames coded in parallel, level-1 frames past the two that are spared |
| `ref_gop_three_closest` | finding: two closest frames are kept, not three | as deep |
| `symbol_coder` | `ContextsLegal`, `ReadIsWritten`, `RegistersContained` | half-size registers (8-bit range, 4-bit bytes, 20-bit window), 6 items: carries ripple, both refills are taken, reading goes past the last byte |
| `post_filters` | `CdefInputs`, `UnitsOnce`, `RestorationContext`, `TileColumnsInvisible`, `FrameFiltered` | filter blocks and stripes of 16 pixels for 64, stripes shifted by 2 for 8, so that a frame of 54 rows has what one of 216 has; up to three by three filter blocks (a block with neighbours on all sides), every height from 1 to 54, every combination of the header's gates, denominators 8 to 16, up to three tile columns, a stop at every poll |
| `tile_walk` | `EveryCellOnce`, `ContextsOfTile`, `ReadsDecoded`, `StrengthsRead`, `StopWithinRow` | units of 8 cells for 16, superblocks of one unit and of four, edges that cut a square at each quarter, two tiles beside or above each other (the scans end at the edge between them), three chroma layouts; `parts` bounds the partitions that are not the plainest: every tree of a 16x16, every two or three choices of a superblock |
| `partition_search` | `WinnerSawWinners`, `SearchLeavesWinner` | superblocks of 4 by 4 cells (squares of three sizes: a winner is encoded at each level, skipped at each level) and of 8 by 8 partly in the frame; largest partition 1, 2 and 4; few partitions enabled at a time, each with those it takes trials over from |

`tile_walk`, `post_filters` and `partition_search` check that nothing is stuck
before the walk returns (`Returned` keeps the end state). Deadlock is not
checked in the others, which end when the function returns.

### Assumptions about scheduling

* `TargetSearch`: weak fairness of `Trial`. The loop runs on the caller's own
  thread and the closure returns; a closure that fails takes `TrialFails`.
* `DecoderSession`: weak fairness of `Decode`, the caller's thread. `RequestStop`
  (another thread) has none: a stop may never come.
* `BandWorkers`: weak fairness of each worker's `Work` and of `Collect`. A worker
  is an operating-system thread with a finite loop and no lock that is held
  over a tile; `Panic` and `RequestStop` have none.

The other modules state no liveness: their loops are bounded by construction,
and a stop is a safety property there (`StopWithinRow`, `FrameFiltered`).

### Findings

* The comment in `refresh_idx` promises the three closest previous frames; the
  guard keeps two (`ref_gop_three_closest`).

Two more differences between docs and code are noted here without a run.
`TargetOptions::tolerance` says zero "spends the full budget (census mode)",
but the break on a collapsed bracket fires whatever the tolerance. The doc of
`decode_frames` describes an envelope narrower than the frames it now decodes.

One boundary is documented and is not a finding: a reference exactly half
the hint range away is before the current frame *and* after it, and the second
scan of `skip_mode_refs_allowed` may then count a reference with the current
frame's own hint. `SkipModeAsDefined` sets such references apart
(`NoneOpposite`); `SkipModeCorrect` proves it for all the others.

## 4. The proofs

Each proof module states its theorems as `Spec => []P`, from the assumptions
named in the component's module and nothing else.

* **`TargetSearch_proofs`** (any index domain, curve, budget, tolerance).
  `TypeCorrect`; `ReturnsClosestTrial`; `BracketSound`: on a non-increasing
  curve every index outside the bracket is matched or beaten by a trial;
  `EarlyStopOptimal`: leaving outside the band is only done with an optimal
  result. `BestIsClosest` is not inductive as it stands: the proof carries the
  tie between `best`, its flag and the set of tried indices (`ClosestInv`) and
  why the search stopped (`StopReason`). `LogarithmicBudget`: with k trials after
  the seed, bounds of at most 2^k indices are always searched to the closest
  one. Its invariant (`HalvingInv`) is that after the first trial the width
  times 2^(used - 1) stays below the number of indices: the first trial, wherever
  the seed was, removes at least one index, each later one at least half.
* **`DecoderSession_proofs`** (any slots, references, headers, sizes, order of
  OBUs). `TypeCorrect`. `PrimaryNeverLost` needs that a slot once filled is never
  emptied, so a reference bound at the parse is bound at the decode; for that a
  frame in flight must have a number of its own (`Numbered`, part of
  `PrimaryInv`). `StopKeepsFrameOutHolds` rests on there being one frame in flight
  (`OneInFlight`). `NoHeaderDecodedTwice` holds for any order of OBUs: a number
  that was output is neither pending nor in flight (`OnceInv`). So do the next
  two, about a header that waits while whole frames are decoded.
  `SecondLookupHolds`: what the references are found to be at the decode is what
  they were at the parse, or a frame whose header came later, since a frame in
  flight while a header waits came after it (`WaitingInv`). `OvertakesOneHolds`:
  a frame that has come out before an earlier header's leaves no second such
  header waiting or in flight (`OrderInv`). The last two assume `Conformant`: a
  tile group follows its header with nothing between.
  `ShownKeyIsEntryPoint` rests on no slot, pending header or frame in flight
  reaching past the last entry point (`EntryInv`), `WalkImplementsContract` on
  `SequentialInv`: a header that waits or is in flight is the last one parsed, and
  the slots and the sequence are what they were at its parse. The refinement
  mapping keeps slots, output and status and hides what waits or is in flight;
  only `Install`, the re-show and the end of the walk are steps of the contract.
* **`BandWorkers_proofs`** (any number of workers, rows and columns). The
  invariant `BandInv` says that no band is held twice (`Held`), that a
  result sits at its tile's index and nobody else is in its band (`Pushed`), that
  no tile is forgotten (`Progress`: a tile of a band drawn
  from the cursor is coded, still to come, or given up) and what the merges left
  (`MergedBefore`); from it exclusiveness, full cover and output order.
  `BandsImplementContract` maps every step to a step of `BandContract` or a
  stutter (`RefinementInv`: a worker stops only after a request). The grid's
  workers (`GridBands`) are in the same module: their chunks are consecutive,
  disjoint and cover the rows, which is division with remainder, done by hand
  because the solver does not do it with a variable divisor. From there
  `SliceAlwaysFound` and `GridAlwaysComplete`.
* **`OrderHints_proofs`** (any hint width, any number of references).
  `NearestFoundAlways` and `SkipModeCorrect`: the invariant says what the two
  nearest are over the references seen so far, in terms of the signed distance
  from the current frame; the lemma behind it is that wrapped distances between
  two hints on the same side agree with the difference of their distances.
* **`RefGop_proofs`** (any length; any depth, but for `SlotAlwaysFound`). `FutureFramesKept`:
  `refresh_idx` never gives up a frame later than the one being coded, and the
  invariant (`Inv`) says that every frame coded ahead is later, still held, and not
  in a slot the planned frame refreshes (`PlanSound`). `BaseAlwaysKept` and
  `SlotAlwaysFound` add the shape of the pyramid (`Pyramid`): no order is held
  twice, the frames coded ahead are one to a level, the deepest shown first, down
  from one of level 1, and a plan refreshes one slot (`PlanFits`). A slot can be
  refreshed because the last shown, the frame coded last and one frame of each
  inner level are fewer than eight; that is where `MaxLayers <= 6`, the encoder's
  `MAX_ARF_LAYERS`, is needed: at seven they may fill the buffers.
  `ReferencesAlwaysWellChosen` follows the seven names of `get_ref_frames` as they
  are given out. After every pass (`Filling`) no slot has two names, and a slot of
  the map is still free or named, so seven names miss at most one of eight
  buffers; the passes before the last take the near frames and the low level, so
  what is missed is far (`FarthestLeftOut`). It needs what a plan was made from
  (`RefsPlanned`) and that empty slots are used first (`SlotsFilled`). It does not
  promise that the nearest past frame is read, which the code does not give on
  every long sequence.
* **`PostFilters_proofs`** (frames, filter blocks, stripes and restoration units of
  any size). What is assumed of a frame (`GeometryAssumption`) is what its header
  gives. Tile columns start at multiples of a superblock, so of two cells
  (`TilesOK`). A restoration unit is 64, 128 or 256 pixels, halved at most once
  for chroma, so it is made of whole stripes (`UnitsOK`).
  `CdefInputsHold`: CDEF filters each block from deblocked pixels. `CdefInv` says
  which cells are still untouched, and that the saved row and column
  (`LeftOK`, `ColumnOK`) hold what the walk has overwritten since; the
  directions chroma uses are those found on luma in the same filter block, turned
  once for 4:2:2 (`CdefDirections`).
  `FrameFilteredHolds`: `PipeInv` gives, stage by stage, which filters a plane has
  been through, which planes are out of the frame and what the snapshot holds;
  `EdgeInv` gives the order of edges: a horizontal edge is only filtered when
  both vertical edges beside it are, strip by strip.
  `TileColumnsInvisibleHolds`: a tile column of a superres plane starts at the
  position that a plane in one piece would have there (`SuperresInv`), so every
  output sample is taken at the same position. It is about positions alone: the
  samples around a position, and the border `upscale_plane` puts beside a column
  for the taps that reach over its ends, are not modelled.
  `RestorationContextHolds`: the rows above and below a stripe are swapped for
  the saved ones before the unit is filtered and put back after it. `LrInv` says
  what the plane's rows, the saved rows and the kept ones hold in between; no
  plane has more stripes than the slots counted on luma.
  `UnitsOnceHolds`: the units read before a superblock are those above and to the
  left of the corners `lr_corners_in_sb` computes for it (`ParseInv`). The corner
  after one superblock is the corner before the next, and the last one is past
  the last unit, for every subsampling and superres scale.
* **`TileWalk_proofs`** (frames, tiles and superblocks of any size, any number
  of partitions). `StopAnswered`: once the token has fired no row of
  superblocks is entered, so the only row with a block decoded since is the one
  the walk was in (`LateInv`). `ContextsOfNamedTile`: the symbol contexts a
  later frame inherits come from the tile the header names and no other
  (`SymbolInv`). `NoBlockOutside`: every call still to make for a block is in
  the frame (`WalkInv`), since the parts of a square that starts in the frame
  do (`CallsStartInFrame`). `EachCellInOneBlock`: a cell of the frame is in a tile
  or superblock still to come, below one call still to make, or in one block, and
  never in two of these (`CellsInv`); the step from a square to its parts is
  `CallsCover`, one case per partition. It assumes what the frame header gives:
  the tiles share the frame out (`TilesShareOut`) on superblock boundaries.
  `ReadsOnlyDecoded`: every cell of `CellsRead` (the cells beside a block, the rows
  and columns scanned for motion vectors, the corners) is of a block decoded
  before in the same tile. The calls still to make are in an order (`OrderInv`):
  of two calls, the later one is below or to the right of the earlier, or of a
  square that the earlier is in. From it, what is up-left of a call and in its
  tile has been decoded, and a row above a call is decoded along its whole width
  (`NotOverRight`), a column to its left along its height (`NotOverBelow`). The
  further rows and columns are looked at one cell on, which is past the end of a
  block one cell long only where the block is off the grid of 8x8 and the scan
  is not shifted (`AlongPlace`). VERT_A is the one partition whose second block
  has a third beside it that reaches above it (`RightHalf`), and the code refuses
  it the corner. The
  loop of `mvref_has_top_right` over sizes is followed by lemmas on the bits of a
  position; `BlocksLie` says that blocks are on the grid of their own lengths and
  in the tile they name.
  `StrengthsAlwaysRead`: a CDEF unit with a block that does not skip has one
  strength, read by the first such block. In the superblock at hand the flags of
  `cdef_transmitted` are those of the units with a strength (`Noted`, part of
  `StrengthInv`), and a block longer than a unit one way is at least as long as
  one the other way (`SpanInv`), so that it fills the units it is in and none of
  them waits for another block.
  `ContextsAlwaysOfTile`: the bit a partition is read with tells whether the block
  above (to the left), if the tile has one, is narrower (lower) than the square.
  The bytes are not always those of the blocks: a square's are written when its
  last part returns, and only the parts on its lower and right edges still matter
  then. `AboveInv` and `LeftInv` say what a byte holds where the stamp has
  been made and nothing is decoded past the block yet. `StampsDue` says that
  a block's stamp is the next to be written, that the lengths it will write are
  those of the blocks on the square's edges, and that nothing below or beside the
  square is decoded before; so at a node no stamp is pending (`NoneDue`).
  `NoGaps`: what is decoded of a tile has no hole above it or to its left, so the
  block over the cell above is the last one in its column. The two stamps of the
  uneven partitions come to one length each way over the whole square, which
  `StampsAbove` and `StampsLeft` prove, the latter for the slots of `left_p`, which
  wrap at the largest superblock.
* **`SymbolCoder_proofs`** (registers of any width that `CoderAssumption` admits, the
  code's 16, 8 and 64 bits among them; any legal contexts; any number of items).
  `AdaptationKeepsLegal` and `EverySymbolHasRange` are about one update and one
  split. `RoundTrip`, `NumberStaysInside` and `ContextsStayLegal` share one
  inductive invariant (`CoderInv`), along this argument.
  The encoder stands for a number, the bytes put out followed by `low`, and an
  interval above it of `rng`. `Prefixes` gives the number that the first bytes of
  a buffer spell, `TopOf` the end of the interval, `EncOK` says the interval
  stays below 1 and below the carry bit that `low` keeps. A carry into bytes
  that are all full would take the number past 1, so none is lost
  (`NeverRunsOff`); each symbol leaves the same interval whether bytes are put
  out or not (`NormalizedOK`, `SymbolEncoded`). The flush picks a number inside the
  interval for any bits after it (`Flushed`). What the two ends have in common is
  a sequence of marks, one per item (`Trace`): the interval's end and range and
  the context. The flushed number lies inside the interval of every mark
  (`AllWithin`). At the reader `dif + 1` is the distance from the bytes read so far
  to the end of the mark's interval, with ones below them (`DecMid`): xoring
  bytes onto ones subtracts them (`XorTakesAway`), so the byte loop and the wide
  load give the same (`RefillBytesOK`, `RefillWideOK`), and running out of bytes
  reads as zeros (`RefillEmpty`). The scan then finds the symbol whose part of the
  interval the number is in, which is the one written (`ScanFinds`), and the
  reader stands at the next mark (`DecodedOK`).

`TypeCorrect` of three modules, `OutputDeterministic`, `ContextsOfNamedTile`,
`NoBlockOutside` and the two theorems about one update and one split are about
definitions that no run lists; a run of `BandWorkers` shows output order through
its contract.

The theorems of the library on induction over data take an operator as a
parameter, which these provers cannot instantiate. Where a recursive function or
a sum of powers has to be followed step by step, the proofs use a set instead:
the least member of what fails (`LeastMember`, from the well-foundedness of the
naturals) and, from it, `SetInduction`.

Left to TLC: liveness, which is out of the prover's reach; and
`WinnerSawWinners` and `SearchLeavesWinner` of the partition search, where what a
square leaves behind is a recursive function of the tree of its winners: what
that function computes for every tree is induction over data.

## 5. What is not modelled, and the plan

Built so far, in this order: target search, decoder session, band workers,
reference management, range coder, order hints, grid workers, post filters,
tile walk, partition search.

What the models of the last three leave out:

* Post filters: the arithmetic of the filters, film grain (a copy of the output),
  and the parse order of restoration units among the other syntax: the units of
  a frame are read superblock by superblock in raster order over the frame.
* Tile walk: what a block reads beyond its geometry, its skip and its CDEF
  strength; the coefficient and mode contexts; what is found in the cells the
  motion-vector scans look at, and the motion field of earlier frames; lossless and intra-block-copied frames, which
  read no strength.
* Partition search: what a leaf search computes, the prunes and early
  termination (any set of partitions may be tried), mode caches and source
  variance, rate and distortion (any number of blocks may fit the budget); the
  searches that follow a partitioning they are given.

Next:

1. `TileWalk`: the coefficient contexts and their reset by skipped blocks.
2. `PartitionSearch`: the prunes and the searches that follow a partitioning they
   are given.
3. `RefGop`: external overrides.
4. Rate control: the buffer level and the clamps of `ratectrl_update.rs`, over
   integer sizes.
5. OBU framing: `leb128`, trailing bits, tile-group sizes, as functions over
   short byte strings against their inverse.
6. The motion field: the choice of its three references and their projection.

Hazards no property covers: a re-shown frame is cloned without a poll of the
stop token (`frame.rs:1108`); a score that is not a number is kept as the best
when it comes first (`search.rs:83`). Three more are known and out of the
models' reach: the allocation probe frees its reservation before the real
allocations (`config.rs:209`), the choice of kernels is pinned once per process
(`dispatch/mod.rs:100`), and the motion field's counter of references goes below
zero (`frame.rs:1361`).

Out of reach and not planned: the mode search inside a leaf, whose correctness is
equality with the C encoder; floating-point models; pixel kernels.
