----------------------------- MODULE RangeDecoder -----------------------------
(***************************************************************************)
(* The range decoder that reads the compressed header of a VP9 frame       *)
(* (va-driver/src/vpx_rac.h, vpx_rac.c, vp9.c), and the decoder of the VP9  *)
(* specification it stands for.  The driver's works on sixteen bits ahead,  *)
(* scaled by 2^16, and fetches two bytes at a time; the specification's     *)
(* takes each bit from the frame when it needs it.                          *)
(***************************************************************************)
EXTENDS Integers, FiniteSetsExt, SequencesExt

\* vpx_rac_norm_shift: how far `high` is from its eighth bit.
NormShift(high) == IF high = 0 THEN 8 ELSE Min({s \in 0 .. 7 : high * 2 ^ s >= 128})

\* struct vpx_rac; `next` is the index of the byte `buffer` points at.
RacInit(bytes) ==
  [high |-> 255, bits |-> -16, next |-> 4,
   code |-> bytes[1] * 65536 + bytes[2] * 256 + bytes[3]]

\* Mutant of RacRenorm: the next bytes are fetched one bit too late.
RacRenormLate(c, bytes) ==
  LET shift == NormShift(c.high)
      bits  == c.bits + shift
      more  == bits > 0 /\ c.next < Len(bytes)
  IN [high |-> c.high * 2 ^ shift,
      bits |-> IF more THEN bits - 16 ELSE bits,
      next |-> IF more THEN c.next + 2 ELSE c.next,
      code |-> c.code * 2 ^ shift
                 + (IF more THEN (bytes[c.next] * 256 + bytes[c.next + 1]) * 2 ^ bits ELSE 0)]

RacRenorm(c, bytes) ==
  LET shift   == NormShift(c.high)
      bits    == c.bits + shift
      code    == c.code * 2 ^ shift
      Byte(i) == IF i <= Len(bytes) THEN bytes[i] ELSE 0
      fetched == (Byte(c.next) * 256 + Byte(c.next + 1)) * 2 ^ bits
      scaled  == [c EXCEPT !.high = @ * 2 ^ shift, !.bits = bits, !.code = code]
  IN IF bits >= 0 /\ c.next <= Len(bytes)
     THEN [scaled EXCEPT !.code = @ + fetched, !.bits = bits - 16,
                         !.next = Min({@ + 2, Len(bytes) + 1})]
     ELSE scaled

\* What the calls ask for: a bit that is 0 with a probability of prob/256, or
\* one that is as likely 0 as 1.
Even == 0

\* The interval of a 0.
LowOf(high, prob) ==
  IF prob = Even THEN (high + 1) \div 2 ELSE 1 + ((high - 1) * prob) \div 256

\* What is left of the interval after a 1, and after a 0.
RacAbove(r, low) ==
  [high |-> r.high - low, bits |-> r.bits, next |-> r.next, code |-> r.code - low * 65536]

RacBelow(r, low) == [high |-> low, bits |-> r.bits, next |-> r.next, code |-> r.code]

\* vpx_rac_get_prob_branchy and vp89_rac_get: the bit, and the decoder after it.
RacGet(c, bytes, prob) ==
  LET r   == RacRenorm(c, bytes)
      low == LowOf(r.high, prob)
  IN IF r.code >= low * 65536 THEN [bit |-> 1, rac |-> RacAbove(r, low)]
     ELSE [bit |-> 0, rac |-> RacBelow(r, low)]

\* The bits that calls with these probabilities return.
RacStep(bytes, acc, prob) ==
  LET got == RacGet(acc.rac, bytes, prob)
  IN [rac |-> got.rac, bits |-> Append(acc.bits, got.bit)]

RacBits(rac, bytes, probs) ==
  FoldLeft(LAMBDA acc, prob : RacStep(bytes, acc, prob),
           [rac |-> rac, bits |-> << >>], probs).bits

\* vp9_fill_compressed_hdr gives up on a header without three bytes, or whose
\* first bit is not 0.
Refused == <<-1>>

CompressedBits(bytes, probs) ==
  IF Len(bytes) < 3 THEN Refused
  ELSE LET marker == RacGet(RacInit(bytes), bytes, 128)
       IN IF marker.bit = 1 THEN Refused ELSE RacBits(marker.rac, bytes, probs)

-----------------------------------------------------------------------------
(* The VP9 specification, 9.2: BoolValue, BoolRange, and the next bit.     *)

FrameBit(bytes, n) ==
  IF n \div 8 < Len(bytes) THEN (bytes[n \div 8 + 1] \div 2 ^ (7 - (n % 8))) % 2 ELSE 0

Short(range) == CHOOSE n \in 0 .. 7 : range * 2 ^ n \in 128 .. 255

NextBit(bytes, d) ==
  [range |-> d.range * 2, next |-> d.next + 1,
   value |-> d.value * 2 + FrameBit(bytes, d.next), bits |-> d.bits]

Widen(bytes, d) ==
  FoldLeft(LAMBDA e, k : NextBit(bytes, e), d, [k \in 1 .. Short(d.range) |-> k])

Below(d, split) ==
  [range |-> split, next |-> d.next, value |-> d.value, bits |-> Append(d.bits, 0)]

Above(d, split) ==
  [range |-> d.range - split, next |-> d.next, value |-> d.value - split,
   bits |-> Append(d.bits, 1)]

ReadBool(bytes, d, prob) ==
  LET split == 1 + ((d.range - 1) * (IF prob = Even THEN 128 ELSE prob)) \div 256
  IN Widen(bytes, IF d.value < split THEN Below(d, split) ELSE Above(d, split))

BoolBits(bytes, probs) ==
  FoldLeft(LAMBDA d, prob : ReadBool(bytes, d, prob),
           [value |-> bytes[1], range |-> 255, next |-> 8, bits |-> << >>], probs).bits

-----------------------------------------------------------------------------
(* vp9_read_prob_delta: a delta's index has a prefix that says its length. *)

DeltaTable == 255   \* entries of inv_map_table

\* What each prefix and the bits after it lead to, "last" the extra bit of the
\* longest form.
DeltaIndex(prefix, value, last) ==
  CASE prefix = 0 -> value
    [] prefix = 1 -> value + 16
    [] prefix = 2 -> value + 32
    [] OTHER      -> (IF value >= 65 THEN value * 2 - 65 + last ELSE value) + 64

DeltaForms ==
  {form \in (0 .. 3) \X (0 .. 127) \X {0, 1} :
     /\ form[2] < <<16, 16, 32, 128>>[form[1] + 1]
     /\ form[3] = 1 => form[1] = 3 /\ form[2] >= 65}

\* Every form is an entry of the table, and every entry but the two that share
\* their value has one form.
DeltasCover ==
  \A d \in 0 .. DeltaTable - 1 :
    Cardinality({f \in DeltaForms : DeltaIndex(f[1], f[2], f[3]) = d}) = 1
=============================================================================
