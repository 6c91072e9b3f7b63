----------------------------- MODULE SymbolCoder -----------------------------
(***************************************************************************)
(* The range coder both ends share, entropy/{enc,dec,cdf}.rs: a tile's     *)
(* symbols and bits are written, the encoder is flushed, and the bytes are *)
(* read back by the decoder with contexts that started equal.              *)
(*                                                                         *)
(* The registers keep their wrap-around but their widths are constants:    *)
(* the code's values, given below, do not fit TLC's integers.              *)
(***************************************************************************)
EXTENDS Cdf, Sequences, FiniteSetsExt

CONSTANTS
  ByteBits,   (* Bits of a byte: 8.                                         *)
  Window,     (* Bits of low and of dif: 64.                                *)
  LotsOfBits, (* OD_EC_LOTS_OF_BITS: 0x4000.                                *)
  Contexts,   (* The contexts a tile may start with.                        *)
  MaxItems    (* Bound: items written.                                      *)

(* A context as the code stores it: at least one symbol, a count that stops. *)
Stored(cdf) ==
  /\ cdf.n \in Nat \ {0} /\ cdf.count \in 0 .. 32
  /\ cdf = [icdf |-> [i \in 0 .. cdf.n - 1 |-> cdf.icdf[i]],
            n |-> cdf.n, count |-> cdf.count]

ASSUME CoderAssumption ==
  /\ ByteBits \in Nat \ {0} /\ Window \in Nat
  /\ LotsOfBits \in Nat /\ MaxItems \in Nat
  /\ Top = 2 ^ (RBits - 1) /\ ProbShift < RBits - RBits \div 2
  /\ RBits > ByteBits + 1 /\ Window % ByteBits = 0
  /\ Window > 2 * RBits
  /\ MinProb > 0 /\ MinProb < 2 ^ ProbShift
  /\ \A cdf \in Contexts :
       Stored(cdf) /\ Legal(cdf) /\ MinProb * (cdf.n - 1) < 2 ^ ProbShift

ByteMax == 2 ^ ByteBits - 1
Wrap(x) == x % 2 ^ Window

(* The exclusive or of two words, bit by bit. *)
Xor(x, y) ==
  LET bit(w, k) == Half(w, k) % 2
      low[k \in 0 .. Window] ==
        IF k = 0 THEN 0
        ELSE low[k - 1] + 2 ^ (k - 1) * ((bit(x, k - 1) + bit(y, k - 1)) % 2)
  IN low[Window]

(* The bit length, and the shift that makes a range full again. *)
Ilog(x) == Min({k \in 1 .. RBits : x < 2 ^ k})
Deficit(rng) == RBits - Ilog(rng)

VARIABLES
  items,    (* What has been written, in order.                             *)
  adapts,   (* allow_update_cdf, the same at both ends.                     *)
  start,    (* The context both ends start from.                            *)
  enc,      (* OdEcEnc: [buf, low, rng, cnt].                               *)
  lost,     (* A carry has run off the start of the buffer.                 *)
  wctx,     (* The writer's context.                                        *)
  dec,      (* OdEcDec: [pos, dif, rng, cnt].                               *)
  rctx,     (* The reader's context.                                        *)
  got,      (* What has been read.                                          *)
  phase     (* "write", "flushed", then "read".                             *)

vars == <<items, adapts, start, enc, lost, wctx, dec, rctx, got, phase>>

-----------------------------------------------------------------------------
(* The encoder                                                             *)

Bytes(x, n) == [i \in 1 .. n |-> Half(x, (n - i) * ByteBits) % 2 ^ ByteBits]

(* Mutant: a carry stops at the last byte. *)
CarriedOnce(buf) ==
  [i \in DOMAIN buf |-> IF i = Len(buf) THEN (buf[i] + 1) % 2 ^ ByteBits ELSE buf[i]]
(* propagate_carry_bwd: full bytes become 0 up to the first that is not. *)
Carried(buf) ==
  LET stop == Max({0} \cup {i \in DOMAIN buf : buf[i] # ByteMax}) IN
  [i \in DOMAIN buf |-> IF i < stop THEN buf[i] ELSE IF i = stop THEN buf[i] + 1 ELSE 0]

CarryOut(output, n) == Half(output, n * ByteBits) % 2 = 1

Emitted(buf, output, n) ==
  (IF CarryOut(output, n) THEN Carried(buf) ELSE buf) \o Bytes(output, n)

(* The carry has nowhere to go: the code would index before the buffer. *)
RunsOff(buf, output, n) ==
  CarryOut(output, n) /\ \A i \in DOMAIN buf : buf[i] = ByteMax

(* Mutant: the bytes put out stay in low. *)
KeptAll(low, c) == low
Kept(low, c) == low % 2 ^ c

(* od_ec_enc_normalize: [next |-> the encoder, lost |-> the carry ran off]. *)
Normalized(e, low, rng) ==
  LET d == Deficit(rng)
      s == e.cnt + d
      room == RBits + ByteBits
      n == s \div ByteBits + 1
      c == e.cnt + room - n * ByteBits
      output == Half(low, c)
  IN IF s < Window - room
     THEN [next |-> [buf |-> e.buf, low |-> Wrap(low * 2 ^ d), rng |-> rng * 2 ^ d,
                     cnt |-> s],
           lost |-> FALSE]
     ELSE [next |-> [buf |-> Emitted(e.buf, output, n),
                     low |-> Wrap(Kept(low, c) * 2 ^ d),
                     rng |-> rng * 2 ^ d,
                     cnt |-> c + d - room],
           lost |-> RunsOff(e.buf, output, n)]

(* od_ec_encode_q15; fl is Top when no symbol comes before s. *)
Encoded(e, fl, fh, s, n) ==
  LET u == Split(e.rng, fl, n - s)
      v == Split(e.rng, fh, n - 1 - s)
  IN IF fl < Top THEN Normalized(e, Wrap(e.low + e.rng - u), u - v)
     ELSE Normalized(e, e.low, e.rng - v)

EncodedSymbol(e, cdf, s) ==
  Encoded(e, IF s > 0 THEN cdf.icdf[s - 1] ELSE Top, cdf.icdf[s], s, cdf.n)

(* write_bit's probability; encode_bool_q15 is the two-symbol case. *)
HalfProb == [icdf |-> [i \in 0 .. 1 |-> IF i = 0 THEN Top \div 2 ELSE 0], n |-> 2, count |-> 0]

(* Mutant: the flush rounds up one step too far. *)
FlushValueFarther(low) ==
  LET m == 2 ^ (RBits - 2) IN ((low + m - 1) \div m) * m + 2 * m
(* od_ec_enc_done: the shortest bytes that decode whatever follows them. *)
FlushValue(low) ==
  LET m == 2 ^ (RBits - 2)
      up == ((low + m - 1) \div m) * m
  IN IF (up \div m) % 2 = 1 THEN up ELSE up + m

FlushBytes(e) == (e.cnt + ByteBits + 2 + ByteBits - 1) \div ByteBits
FlushOutput(e) == Half(FlushValue(e.low), e.cnt + RBits - (FlushBytes(e) - 1) * ByteBits)

-----------------------------------------------------------------------------
(* The decoder                                                             *)

Buf == enc.buf

Deficiency(d) == Window - (ByteBits + 1) - (d.cnt + RBits - 1)

(* The byte loop: as many bytes as fit and remain, xored onto the ones. *)
RefillByBytes(d) ==
  LET s == Deficiency(d)
      fit == IF s < 0 THEN 0 ELSE s \div ByteBits + 1
      n == Min({fit, Len(Buf) - d.pos})
      loaded[k \in 0 .. n] ==
        IF k = 0 THEN d.dif
        ELSE Xor(loaded[k - 1], Buf[d.pos + k] * 2 ^ (s - (k - 1) * ByteBits))
  IN [pos |-> d.pos + n, dif |-> loaded[n], rng |-> d.rng,
      cnt |-> IF d.pos + n >= Len(Buf) THEN LotsOfBits ELSE d.cnt + n * ByteBits]

(* Mutant: the wide load takes one byte too many. *)
WideBytesOneMore(d) == Deficiency(d) \div ByteBits + 2
WideBytes(d) == Deficiency(d) \div ByteBits + 1

(* The whole window loaded at once, masked to the bytes that fit. *)
RefillWide(d) ==
  LET s == Deficiency(d)
      k == WideBytes(d)
      all == Window \div ByteBits
      raw[i \in 0 .. k] == IF i = 0 THEN 0 ELSE raw[i - 1] * 2 ^ ByteBits + Buf[d.pos + i]
      masked == raw[k] * 2 ^ ((all - k) * ByteBits)
  IN [pos |-> d.pos + k, dif |-> Xor(d.dif, Half(masked, Window - ByteBits - s)),
      rng |-> d.rng, cnt |-> d.cnt + k * ByteBits]

CanLoadWide(d) == Deficiency(d) >= 0 /\ Len(Buf) - d.pos >= Window \div ByteBits

Refilled(d) == IF CanLoadWide(d) THEN RefillWide(d) ELSE RefillByBytes(d)

(* od_ec_dec_normalize *)
Shifted(d, dif, rng) ==
  LET k == Deficit(rng)
  IN [pos |-> d.pos, dif |-> Wrap(Wrap((dif + 1) * 2 ^ k) - 1), rng |-> rng * 2 ^ k,
      cnt |-> d.cnt - k]

NormalizedDec(d, dif, rng) ==
  LET s == Shifted(d, dif, rng) IN IF s.cnt < 0 THEN Refilled(s) ELSE s

(* od_ec_decode_cdf_q15's scan: the first symbol whose split is not above. *)
Scanned(d, cdf) ==
  LET c == Half(d.dif, Window - RBits) IN
  Min({s \in 0 .. cdf.n - 1 : c >= Lower(d.rng, cdf, s)})

Decoded(d, cdf) ==
  LET s == Scanned(d, cdf)
      v == Lower(d.rng, cdf, s)
  IN NormalizedDec(d, d.dif - v * 2 ^ (Window - RBits), Upper(d.rng, cdf, s) - v)

FreshDec ==
  [pos |-> 0, dif |-> 2 ^ (Window - 1) - 1, rng |-> 2 ^ (RBits - 1), cnt |-> -(RBits - 1)]

-----------------------------------------------------------------------------
(* A tile                                                                  *)

FreshEnc == [buf |-> <<>>, low |-> 0, rng |-> 2 ^ (RBits - 1), cnt |-> -(ByteBits + 1)]

Init ==
  /\ items = <<>> /\ got = <<>>
  /\ adapts \in BOOLEAN
  /\ start \in Contexts
  /\ enc = FreshEnc
  /\ lost = FALSE
  /\ wctx = start
  /\ dec = FreshDec
  /\ rctx = start
  /\ phase = "write"

(* Mutant: the writer adapts whatever the flag. *)
AdaptedAlways(ctx, s) == UpdateCdf(ctx, s)
Adapted(ctx, s) == IF adapts THEN UpdateCdf(ctx, s) ELSE ctx

Writes(normalized, kind, val) ==
  /\ phase = "write" /\ Len(items) < MaxItems
  /\ enc' = normalized.next
  /\ lost' = (lost \/ normalized.lost)
  /\ items' = Append(items, [kind |-> kind, val |-> val])
  /\ UNCHANGED <<adapts, start, dec, rctx, got, phase>>

(* write_symbol *)
WriteSymbol ==
  \E s \in 0 .. wctx.n - 1 :
    /\ Writes(EncodedSymbol(enc, wctx, s), "symbol", s)
    /\ wctx' = Adapted(wctx, s)

(* write_bit *)
WriteBit ==
  \E b \in 0 .. 1 :
    /\ Writes(EncodedSymbol(enc, HalfProb, b), "bit", b)
    /\ UNCHANGED wctx

(* The tile's bytes are taken. *)
Done ==
  LET output == FlushOutput(enc)
      n == FlushBytes(enc)
  IN /\ phase = "write"
     /\ enc' = [buf |-> Emitted(enc.buf, output, n), low |-> enc.low,
                rng |-> enc.rng, cnt |-> enc.cnt]
     /\ lost' = (lost \/ RunsOff(enc.buf, output, n))
     /\ phase' = "flushed"
     /\ UNCHANGED <<items, adapts, start, wctx, dec, rctx, got>>

(* OdEcDec::new over these bytes. *)
Open ==
  /\ phase = "flushed"
  /\ dec' = Refilled(FreshDec)
  /\ phase' = "read"
  /\ UNCHANGED <<items, adapts, start, enc, lost, wctx, rctx, got>>

(* The reader knows what kind comes next from the syntax. *)
Reads(kind, cdf) ==
  /\ phase = "read" /\ Len(got) < Len(items)
  /\ items[Len(got) + 1].kind = kind
  /\ dec' = Decoded(dec, cdf)
  /\ got' = Append(got, [kind |-> kind, val |-> Scanned(dec, cdf)])
  /\ UNCHANGED <<items, adapts, start, enc, lost, wctx, phase>>

(* read_symbol *)
ReadSymbol ==
  /\ Reads("symbol", rctx)
  /\ rctx' = IF adapts THEN UpdateCdf(rctx, Scanned(dec, rctx)) ELSE rctx

(* read_bit *)
ReadBit == Reads("bit", HalfProb) /\ UNCHANGED rctx

Next == WriteSymbol \/ WriteBit \/ Done \/ Open \/ ReadSymbol \/ ReadBit

Spec == Init /\ [][Next]_vars

-----------------------------------------------------------------------------

FullRange == 2 ^ (RBits - 1) .. 2 ^ RBits - 1

(* The registers keep their widths, and both ranges stay full. *)
TypeOK ==
  /\ \A i \in DOMAIN enc.buf : enc.buf[i] \in 0 .. ByteMax
  /\ enc.low \in 0 .. 2 ^ Window - 1 /\ enc.rng \in FullRange
  /\ enc.cnt \in -(ByteBits + 1) .. Window - RBits - ByteBits - 1
  /\ dec.pos \in 0 .. Len(enc.buf)
  /\ dec.dif \in 0 .. 2 ^ Window - 1 /\ dec.rng \in FullRange
  /\ dec.cnt \in -(RBits - 1) .. LotsOfBits

(* Adaptation never makes a context the coder cannot split by: no frequency
   reaches Top, which the encoder reads as "no symbol before". *)
ContextsLegal == Legal(wctx) /\ Legal(rctx)

(* What is read is what was written, from the first item to the last, past
   the point where the bytes have run out; and the contexts of the two ends
   agree once everything is read. *)
ReadIsWritten ==
  /\ \A i \in DOMAIN got : got[i] = items[i]
  /\ Len(got) = Len(items) => rctx = wctx

(* A carry always finds a byte to stop at: propagate_carry_bwd never indexes
   before the buffer. *)
CarryContained == ~lost

(* The encoder's interval fits its register with the one carry bit it keeps:
   low never wraps. *)
LowFits == enc.low + enc.rng <= 2 ^ (enc.cnt + RBits + ByteBits + 1)

(* Neither end of the encoder's number runs out of its storage: the carry
   stays in the bytes put out, low stays in its register. *)
RegistersContained == CarryContained /\ LowFits

=============================================================================
