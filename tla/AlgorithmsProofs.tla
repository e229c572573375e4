--------------------------- MODULE AlgorithmsProofs ---------------------------
(***************************************************************************)
(* What Algorithms promises of the driver's pure functions, for every input *)
(* the driver can be given: the depth of a pool and the ladder it backs off *)
(* on, AV1's tiles and its references for skip mode, the framing of a       *)
(* picture, the range decoder, the headers of VP9, the devices that are     *)
(* opened and the configs that are made.  Where a function loops over data  *)
(* of any length, its loop is first unfolded into the values it takes, in   *)
(* turn (LoopProofs).                                                      *)
(***************************************************************************)
EXTENDS Algorithms, LoopProofs, SequenceTheorems

-----------------------------------------------------------------------------
(* Numbers.                                                                *)

\* A quotient is the integer that its divisor says.
LEMMA Quotient ==
  ASSUME NEW a \in Int, NEW b \in Nat \ {0}
  PROVE  /\ a \div b \in Int
         /\ (a \div b) * b <= a
         /\ a < (a \div b + 1) * b
  BY Z3

LEMMA TimesMonotone ==
  ASSUME NEW m \in Int, NEW n \in Int, NEW b \in Nat, m <= n
  PROVE  m * b \in Int /\ m * b <= n * b
  BY Z3

LEMMA QuotientBelow ==
  ASSUME NEW a \in Int, NEW b \in Nat \ {0}, NEW c \in Nat, a < c * b
  PROVE  a \div b < c
<1>1. SUFFICES ASSUME c <= a \div b PROVE FALSE
  BY Quotient
<1>2. c * b <= (a \div b) * b
  BY <1>1, Quotient, TimesMonotone
<1> QED
  BY <1>2, Quotient, Z3

\* Rounded up: the least c for which c times b is enough for a.
LEMMA RoundedUp ==
  ASSUME NEW a \in Nat \ {0}, NEW b \in Nat \ {0}, NEW c, c = (a + b - 1) \div b
  PROVE  /\ c \in Nat \ {0}
         /\ a <= c * b
         /\ \A d \in Nat : a <= d * b => c <= d
<1>1. c \in Int /\ c * b <= a + b - 1 /\ a + b - 1 < (c + 1) * b
  BY Quotient
<1>2. (c + 1) * b = c * b + b /\ c * b \in Int
  BY <1>1, Z3
<1>3. a <= c * b
  BY <1>1, <1>2
<1>4. c > 0
  <2> SUFFICES ASSUME c <= 0 PROVE FALSE
    BY <1>1
  <2>1. c * b <= 0 * b
    BY <1>1, TimesMonotone
  <2> QED
    BY <1>3, <1>2, <2>1
<1>5. ASSUME NEW d \in Nat, a <= d * b PROVE c <= d
  <2> SUFFICES ASSUME d + 1 <= c PROVE FALSE
    BY <1>1
  <2>1. (d + 1) * b <= c * b
    BY <1>1, TimesMonotone
  <2>2. (d + 1) * b = d * b + b /\ d * b \in Nat
    BY Z3
  <2> QED
    BY <1>1, <1>2, <1>5, <2>1, <2>2
<1> QED
  BY <1>1, <1>3, <1>4, <1>5

LEMMA MinOfTwo ==
  ASSUME NEW a \in Int, NEW b \in Int
  PROVE  Min({a, b}) = IF a <= b THEN a ELSE b
  BY DEF Min

\* The powers of two that a number of tiles is rounded up to.
PowerTable == {<<0, 1>>, <<1, 2>>, <<2, 4>>, <<3, 8>>, <<4, 16>>, <<5, 32>>, <<6, 64>>, <<7, 128>>}

TwoTo(k) == 2 ^ k

LEMMA PowersTabled == \A k \in 0 .. 7 : <<k, 2 ^ k>> \in PowerTable
<1>1. /\ TwoTo(0) = 1 /\ TwoTo(1) = 2 /\ TwoTo(2) = 4 /\ TwoTo(3) = 8
      /\ TwoTo(4) = 16 /\ TwoTo(5) = 32 /\ TwoTo(6) = 64 /\ TwoTo(7) = 128
  BY DEF TwoTo
<1>7. \A k \in 0 .. 7 : k \in {0, 1, 2, 3, 4, 5, 6, 7}
  OBVIOUS
<1>2. SUFFICES ASSUME NEW k \in {0, 1, 2, 3, 4, 5, 6, 7} PROVE <<k, 2 ^ k>> \in PowerTable
  BY <1>7, Zenon
<1> DEFINE v == TwoTo(k)
<1>3. CASE k \in {0, 1, 2, 3}
  <2>1. \/ k = 0 /\ v = 1
        \/ k = 1 /\ v = 2
        \/ k = 2 /\ v = 4
        \/ k = 3 /\ v = 8
    BY <1>1, <1>3 DEF v
  <2> HIDE DEF v
  <2>2. <<k, v>> \in PowerTable
    BY <2>1 DEF PowerTable
  <2> QED
    BY <2>2 DEF v, TwoTo
<1>4. CASE k \in {4, 5, 6, 7}
  <2>1. \/ k = 4 /\ v = 16
        \/ k = 5 /\ v = 32
        \/ k = 6 /\ v = 64
        \/ k = 7 /\ v = 128
    BY <1>1, <1>4
  <2> HIDE DEF v
  <2>2. <<k, v>> \in PowerTable
    BY <2>1 DEF PowerTable
  <2> QED
    BY <2>2 DEF v, TwoTo
<1> QED
  BY <1>3, <1>4

LEMMA PowersGrow ==
  ASSUME NEW j \in 0 .. 7, NEW k \in 0 .. 7
  PROVE  /\ 2 ^ k \in Nat \ {0}
         /\ k <= 6 => 2 ^ k <= 64
         /\ j <= k => 2 ^ j <= 2 ^ k
<1>1. \A a, b : <<j, a>> \in PowerTable /\ <<k, b>> \in PowerTable =>
        /\ b \in Nat \ {0}
        /\ k <= 6 => b <= 64
        /\ j <= k => a <= b
  BY DEF PowerTable
<1> QED
  BY <1>1, PowersTabled, Zenon

-----------------------------------------------------------------------------
(* Pools.                                                                  *)

LEMMA BytesTyped ==
  ASSUME NEW width \in Nat, NEW height \in Nat, NEW bpp \in Nat
  PROVE  /\ FrameBytes(width, height, bpp) \in Nat
         /\ Av1MvBytes(width, height) \in Nat
         /\ PrivateBytes(width, height, bpp) \in Nat
<1>1. FrameBytes(width, height, bpp) \in Nat
  <2> DEFINE bits == width * height * bpp
  <2>1. bits \in Nat
    BY Z3
  <2>2. bits \div 8 \in Nat
    <3> HIDE DEF bits
    <3> QED BY <2>1
  <2> QED BY <2>2 DEF FrameBytes
<1>2. Av1MvBytes(width, height) \in Nat
  <2>1. (width + 63) \div 64 \in Nat /\ (height + 63) \div 64 \in Nat
    OBVIOUS
  <2> DEFINE w == (width + 63) \div 64
             h == (height + 63) \div 64
  <2>2. w * h \in Nat
    <3> HIDE DEF w, h
    <3> QED BY <2>1 DEF w, h
  <2>3. w * h * 384 * 2 + 512 \in Nat
    <3> DEFINE p == w * h
    <3>1. p \in Nat BY <2>2
    <3> HIDE DEF p
    <3> QED BY <3>1 DEF p
  <2> QED BY <2>3 DEF Av1MvBytes
<1> QED
  BY <1>1, <1>2 DEF PrivateBytes, Av1References

\* pool_depth for a picture of any size, AV1's own frames charged or not.
LEMMA Depths ==
  ASSUME NEW width \in Nat, NEW height \in Nat, NEW bpp \in Nat, NEW av1 \in BOOLEAN
  PROVE  IsPoolDepth(PoolDepth(width, height, bpp, av1), width, height, bpp, av1)
<1> DEFINE L     == Limits(av1)
           frame == FrameBytes(width, height, bpp)
           room  == FramesBudget(width, height, bpp, av1)
           depth == PoolDepth(width, height, bpp, av1)
<1>1. /\ frame \in Nat /\ room \in Int
      /\ L.min \in Nat /\ L.max \in Nat /\ L.min < L.max /\ L.budget \in Nat
  BY BytesTyped, SMT DEF Limits, FramesBudget, Av1References, MiB
<1>2. SUFFICES ASSUME frame > 0
               PROVE  /\ depth \in L.min .. L.max
                      /\ depth > L.min => depth * frame <= room
                      /\ depth < L.max => room \div (depth + 1) < frame
  BY DEF IsPoolDepth
<1>3. CASE NoRoom(width, height, bpp, av1)
  <2>1. depth = L.min
    BY <1>2, <1>3 DEF PoolDepth
  <2>2. room <= 0
    <3>1. PrivateBytes(width, height, bpp) \in Nat
      BY BytesTyped
    <3>2. /\ PrivateBytes(width, height, bpp) >= L.budget
          /\ room = L.budget - PrivateBytes(width, height, bpp)
      BY <1>3, Zenon DEF NoRoom, FramesBudget
    <3> HIDE DEF room, L
    <3> QED
      BY <1>1, <3>1, <3>2
  <2> HIDE DEF room, frame, depth, L
  <2>3. room < frame * (depth + 1)
    BY <1>1, <1>2, <2>1, <2>2, Z3
  <2>4. room \div (depth + 1) < frame
    BY <1>1, <1>2, <2>1, <2>3, QuotientBelow
  <2> QED BY <1>1, <2>1, <2>4
<1>4. CASE ~NoRoom(width, height, bpp, av1)
  <2> DEFINE q == room \div frame
  <2>1. /\ q \in Int /\ q * frame <= room /\ room < (q + 1) * frame
    <3> HIDE DEF room, frame
    <3> QED BY <1>1, <1>2, Quotient
  <2>2. depth = IF q < L.min THEN L.min ELSE IF q > L.max THEN L.max ELSE q
    BY <1>2, <1>4 DEF PoolDepth
  <2> HIDE DEF room, frame, depth, L, q
  <2>3. depth \in L.min .. L.max
    BY <1>1, <2>1, <2>2
  <2>4. ASSUME depth > L.min PROVE depth * frame <= room
    <3>1. depth <= q
      BY <1>1, <2>1, <2>2, <2>4
    <3> QED BY <1>1, <2>1, <2>3, <3>1, TimesMonotone
  <2>5. ASSUME depth < L.max PROVE room \div (depth + 1) < frame
    <3>1. q + 1 <= depth + 1
      BY <1>1, <2>1, <2>2, <2>5
    <3>2. (q + 1) * frame <= (depth + 1) * frame
      BY <1>1, <2>1, <2>3, <3>1, TimesMonotone
    <3>3. room < frame * (depth + 1)
      BY <1>1, <2>1, <2>3, <3>2, Z3
    <3> QED BY <1>1, <2>3, <3>3, QuotientBelow
  <2> QED BY <2>3, <2>4, <2>5
<1> QED
  BY <1>3, <1>4

\* The ladder of request_buffers_backoff has no gap of a half or more.
LEMMA Ladders == 
  ASSUME NEW room \in Nat, NEW want \in 0 .. 64
  PROVE  IsBackoff(Backoff(want, 0 .. room), want, room)
  BY MinOfTwo, SMTT(40) DEF IsBackoff, Backoff, Ladder, PoolFloor, Min

-----------------------------------------------------------------------------
(* Tiles.                                                                  *)

\* The least power of two that holds n tiles is at most another that does.
LEMMA LeastPower ==
  ASSUME NEW n \in Nat, NEW log2 \in 0 .. 6, n <= 2 ^ log2
  PROVE  /\ TileLog2(n) \in 0 .. 6
         /\ 2 ^ TileLog2(n) \in Nat \ {0}
         /\ 2 ^ log2 \in Nat \ {0}
         /\ n <= 2 ^ TileLog2(n)
         /\ 2 ^ TileLog2(n) <= 2 ^ log2
<1> DEFINE enough == {k \in 0 .. 7 : 2 ^ k >= n}
<1>1. \E k \in enough : \A j \in enough : k <= j
  <2>1. log2 \in enough
    BY PowersGrow
  <2>2. enough \subseteq 0 .. 7
    OBVIOUS
  <2> HIDE DEF enough
  <2> QED BY <2>1, <2>2
<1>2. TileLog2(n) \in enough /\ \A j \in enough : TileLog2(n) <= j
  <2> HIDE DEF enough
  <2>1. TileLog2(n) = Min(enough)
    BY DEF TileLog2, enough
  <2> QED
    BY <1>1, <2>1 DEF Min
<1>3. log2 \in enough
  BY PowersGrow
<1>4. TileLog2(n) \in 0 .. log2 /\ n <= 2 ^ TileLog2(n)
  BY <1>2, <1>3
<1> DEFINE k == TileLog2(n)
<1>5. 2 ^ k \in Nat \ {0} /\ 2 ^ log2 \in Nat \ {0} /\ 2 ^ k <= 2 ^ log2
  <2>1. k \in 0 .. log2
    BY <1>4
  <2>2. k \in 0 .. 7 /\ log2 \in 0 .. 7 /\ k <= log2
    BY <2>1
  <2> HIDE DEF k
  <2> QED
    BY <2>2, PowersGrow, Zenon
<1> QED
  BY <1>4, <1>5

\* Tiles of the size that the encoder's logarithm gives come back from their
\* number alone: a smaller power of two that still holds them gives the same size.
LEMMA TilesAgree ==
  ASSUME NEW sbs \in Nat \ {0}, NEW log2 \in 0 .. 6
  PROVE  UniformTiles(sbs, Len(CodedTiles(sbs, log2))) = CodedTiles(sbs, log2)
<1> DEFINE p    == 2 ^ log2
           step == (sbs + p - 1) \div p
           n    == (sbs + step - 1) \div step
           q    == 2 ^ TileLog2(n)
           back == (sbs + q - 1) \div q
<1>1. p \in Nat \ {0} /\ p <= 64
  <2>1. log2 \in 0 .. 7 /\ log2 <= 6
    OBVIOUS
  <2> QED BY <2>1, PowersGrow, Zenon
<1>2. step \in Nat \ {0} /\ sbs <= step * p /\ \A d \in Nat : sbs <= d * p => step <= d
  <2> HIDE DEF p
  <2> QED BY <1>1, RoundedUp
<1>3. n \in Nat \ {0} /\ sbs <= n * step /\ \A d \in Nat : sbs <= d * step => n <= d
  <2> HIDE DEF step
  <2> QED BY <1>2, RoundedUp
<1>4. n <= p
  <2> HIDE DEF n, step, p
  <2>1. sbs <= p * step
    BY <1>1, <1>2, Z3
  <2> QED
    BY <1>1, <1>3, <2>1
<1>5. q \in Nat \ {0} /\ n <= q /\ q <= p
  <2> HIDE DEF n
  <2> QED BY <1>3, <1>4, LeastPower
<1>6. back \in Nat \ {0} /\ sbs <= back * q /\ \A d \in Nat : sbs <= d * q => back <= d
  <2>1. q \in Nat \ {0}
    BY <1>5
  <2> HIDE DEF q
  <2> QED BY <2>1, RoundedUp
<1>7. back = step
  <2> HIDE DEF n, step, p, q, back
  <2>1. n * step <= q * step /\ q * step = step * q
    BY <1>2, <1>3, <1>5, TimesMonotone, Z3
  <2>2. q * back <= p * back /\ q * back = back * q /\ p * back = back * p
    BY <1>1, <1>5, <1>6, TimesMonotone, Z3
  <2>3. n * step \in Nat /\ q * step \in Nat /\ q * back \in Nat /\ p * back \in Nat
    BY <1>1, <1>2, <1>3, <1>5, <1>6, Z3
  <2>4. back <= step
    BY <1>2, <1>3, <1>6, <2>1, <2>3
  <2>5. step <= back
    BY <1>2, <1>6, <2>2, <2>3
  <2> QED
    BY <1>2, <1>6, <2>4, <2>5
<1>8. CodedTiles(sbs, log2) = [k \in 1 .. n |-> Min({step, sbs - (k-1) * step})]
  BY DEF CodedTiles
<1>9. Len(CodedTiles(sbs, log2)) = n
  <2> HIDE DEF n, step
  <2> QED BY <1>3, <1>8
<1>10. UniformTiles(sbs, n) = [k \in 1 .. Min({MaxTileCols, (sbs + back - 1) \div back}) |->
                                 Min({back, sbs - (k-1) * back})]
  <2> HIDE DEF n
  <2> QED BY <1>3 DEF UniformTiles
<1>11. Min({MaxTileCols, n}) = n
  <2> HIDE DEF n, p
  <2> QED BY <1>1, <1>3, <1>4, MinOfTwo DEF MaxTileCols
<1> QED
  <2>1. (sbs + back - 1) \div back = n
    <3> HIDE DEF back, step
    <3> QED BY <1>7
  <2> HIDE DEF back, step, n
  <2> QED BY <1>7, <1>8, <1>9, <1>10, <1>11, <2>1

LEMMA Superblocks ==
  ASSUME NEW pixels \in Nat \ {0}, NEW sb128 \in BOOLEAN
  PROVE  SbCount(pixels, sb128) \in Nat \ {0}
<1> DEFINE sb == IF sb128 THEN 32 ELSE 16
           mi == 2 * ((pixels + 7) \div 8)
<1>1. mi \in Nat \ {0}
  OBVIOUS
<1>2. sb \in Nat \ {0}
  OBVIOUS
<1> HIDE DEF mi, sb
<1>3. (mi + sb - 1) \div sb \in Nat \ {0}
  BY <1>1, <1>2, RoundedUp
<1> QED
  BY <1>3 DEF SbCount, mi, sb

-----------------------------------------------------------------------------
(* Devices.                                                                *)

\* What is found is of the highest rank, and something is when anything may be.
LEMMA BestIsBest ==
  ASSUME NEW dev, NEW n \in Nat, DOMAIN dev = 1 .. n, NEW rank \in [1 .. n -> {0, 1, 2, 3}],
         NEW b, b = Best(dev, rank)
  PROVE  /\ b = 0 => \A k \in DOMAIN dev : dev[k].opens => rank[k] = 0
         /\ b # 0 => /\ b \in DOMAIN dev /\ dev[b].opens /\ rank[b] > 0
                     /\ \A k \in DOMAIN dev : dev[k].opens => rank[k] <= rank[b]
<1> DEFINE good == {k \in DOMAIN dev : dev[k].opens /\ rank[k] > 0}
           best == {k \in good : \A j \in good : rank[j] <= rank[k]}
<1>1. /\ 1 .. n \subseteq Nat /\ 0 \notin 1 .. n /\ good \subseteq 1 .. n
      /\ \A k \in 1 .. n : rank[k] \in {0, 1, 2, 3}
  OBVIOUS
<1>2. b = IF good = {} THEN 0 ELSE Min(best)
  BY Zenon DEF Best
<1>3. \A k \in DOMAIN dev : k \in good <=> dev[k].opens /\ rank[k] > 0
  OBVIOUS
<1>4. CASE good = {}
  <2> HIDE DEF good
  <2> QED BY <1>1, <1>2, <1>3, <1>4
<1>5. CASE good # {}
  <2> HIDE DEF good
  <2>1. \E k \in good : \A j \in good : rank[j] <= rank[k]
    <3>1. \A k \in good : rank[k] \in {1, 2, 3}
      BY <1>1, <1>3
    <3>2. CASE \E k \in good : rank[k] = 3
      BY <3>1, <3>2
    <3>3. CASE ~(\E k \in good : rank[k] = 3) /\ \E k \in good : rank[k] = 2
      BY <3>1, <3>3
    <3>4. CASE ~(\E k \in good : rank[k] \in {2, 3})
      BY <1>5, <3>1, <3>4
    <3> QED BY <3>2, <3>3, <3>4
  <2>2. best \subseteq Nat /\ best # {}
    BY <1>1, <2>1
  <2>3. b \in best
    <3> HIDE DEF best
    <3> QED BY <1>2, <1>5, <2>2, LeastOf
  <2>4. b \in good /\ (\A j \in good : rank[j] <= rank[b])
    BY <2>3
  <2> QED
    BY <1>1, <1>3, <2>4
<1> QED
  BY <1>4, <1>5

LEMMA MediaFound ==
  ASSUME NEW media, NEW n \in Nat, DOMAIN media = 1 .. n, NEW bus
  PROVE  IF \E m \in DOMAIN media : media[m].bus = bus
         THEN \E m \in DOMAIN media : media[m].bus = bus /\ MediaNode(media, bus) = media[m].path
         ELSE MediaNode(media, bus) = NoPath
<1> DEFINE same == {k \in DOMAIN media : media[k].bus = bus}
<1>1. MediaNode(media, bus) = IF same = {} THEN NoPath ELSE media[Min(same)].path
  BY Zenon DEF MediaNode
<1>2. same \subseteq Nat
  <2>1. 1 .. n \subseteq Nat
    OBVIOUS
  <2> QED BY <2>1
<1>3. same # {} => Min(same) \in same
  <2> HIDE DEF same
  <2> QED BY <1>2, LeastOf
<1> QED
  BY <1>1, <1>3, Zenon

LEMMA RanksTyped ==
  \A node, wanted, formats, name :
    /\ RankDecoder(node, wanted, formats, name) \in {0, 1, 2, 3}
    /\ RankEncoder(node, wanted) \in {0, 1, 2, 3}
  BY Zenon DEF RankDecoder, RankEncoder

\* Without a path from the environment the block of that name ranks highest.
LEMMA DecoderIsOwn ==
  ASSUME NEW dev, NEW media, IsMachine(dev, media), NEW env,
         env.video = NoPath, env.media = NoPath,
         NEW formats, NEW name \in {"rkvdec", "av1"},
         NEW pair, pair = OpenDecoder(dev, media, env, formats, name)
  PROVE  IsOwn(pair, dev, media, name, formats) /\ IsReal(pair, dev, formats)
<1> DEFINE rank == [j \in DOMAIN dev |-> RankDecoder(dev[j], env.video, formats, name)]
           k    == Best(dev, rank)
           m    == MediaNode(media, dev[k].bus)
<1>1. pair = IF k = 0 THEN <<NoPath, NoPath>>
             ELSE IF m \notin {media[j].path : j \in DOMAIN media} THEN <<NoPath, NoPath>>
             ELSE <<dev[k].path, m>>
  BY Zenon DEF OpenDecoder
<1>2. rank \in [DOMAIN dev -> {0, 1, 2, 3}]
  BY RanksTyped
<1>3. \A j \in DOMAIN dev : dev[j].opens =>
        /\ rank[j] > 0 <=> Decodes(dev[j], formats)
        /\ rank[j] = 2 <=> Decodes(dev[j], formats) /\ dev[j].name = name
        /\ rank[j] \in {0, 1, 2}
  <2> SUFFICES ASSUME NEW j \in DOMAIN dev, dev[j].opens
               PROVE  /\ rank[j] > 0 <=> Decodes(dev[j], formats)
                      /\ rank[j] = 2 <=> Decodes(dev[j], formats) /\ dev[j].name = name
                      /\ rank[j] \in {0, 1, 2}
    BY Zenon
  <2>1. dev[j].path # env.video
    BY DEF IsMachine
  <2>2. rank[j] = IF ~dev[j].streams \/ dev[j].output \cap formats = {} THEN 0
                  ELSE IF dev[j].name = name THEN 2 ELSE 1
    BY <2>1, Zenon DEF RankDecoder
  <2> HIDE DEF rank
  <2> QED
    BY <2>2 DEF Decodes
<1> HIDE DEF rank
<1>4. /\ k = 0 => \A j \in DOMAIN dev : dev[j].opens => rank[j] = 0
      /\ k # 0 => /\ k \in DOMAIN dev /\ dev[k].opens /\ rank[k] > 0
                  /\ \A j \in DOMAIN dev : dev[j].opens => rank[j] <= rank[k]
  BY <1>2, BestIsBest DEF IsMachine
<1> HIDE DEF k
<1>5. IF \E i \in DOMAIN media : media[i].bus = dev[k].bus
      THEN \E i \in DOMAIN media : media[i].bus = dev[k].bus /\ m = media[i].path
      ELSE m = NoPath /\ m \notin {media[j].path : j \in DOMAIN media}
  BY MediaFound DEF IsMachine
<1> HIDE DEF m
<1>6. IsReal(pair, dev, formats)
  <2> SUFFICES ASSUME pair[1] # NoPath
               PROVE  \E j \in DOMAIN dev : dev[j].path = pair[1] /\ Decodes(dev[j], formats)
    BY DEF IsReal
  <2>1. k # 0 /\ pair = <<dev[k].path, m>>
    BY <1>1
  <2> QED
    BY <1>3, <1>4, <2>1
<1>7. IsOwn(pair, dev, media, name, formats)
  <2> SUFFICES ASSUME NEW j \in DOMAIN dev, Decodes(dev[j], formats), dev[j].name = name
               PROVE  IF \E i \in DOMAIN media : media[i].bus = dev[j].bus
                      THEN \E i \in DOMAIN media :
                             media[i].bus = dev[j].bus /\ pair = <<dev[j].path, media[i].path>>
                      ELSE pair = <<NoPath, NoPath>>
    BY Zenon DEF IsOwn
  <2>1. dev[j].opens /\ rank[j] = 2
    BY <1>3 DEF Decodes
  <2>2. k # 0 /\ rank[k] = 2
    BY <1>3, <1>4, <2>1
  <2>3. k = j
    <3>1. dev[k].name = name /\ dev[k].opens /\ k \in DOMAIN dev
      BY <1>3, <1>4, <2>2
    <3> QED
      BY <2>1, <3>1 DEF IsMachine
  <2> QED
    BY <1>1, <1>5, <2>2, <2>3
<1> QED
  BY <1>6, <1>7

LEMMA EnvironmentWins ==
  ASSUME NEW dev, NEW media, IsMachine(dev, media), NEW env,
         env.video # NoPath, NEW formats, NEW name,
         NEW j \in DOMAIN dev, dev[j].opens, dev[j].path = env.video,
         OpenDecoder(dev, media, env, formats, name)[1] # NoPath
  PROVE  OpenDecoder(dev, media, env, formats, name)[1] = env.video
<1> DEFINE rank == [i \in DOMAIN dev |-> RankDecoder(dev[i], env.video, formats, name)]
           k    == Best(dev, rank)
<1>1. \/ OpenDecoder(dev, media, env, formats, name) = <<NoPath, NoPath>>
      \/ \E m : OpenDecoder(dev, media, env, formats, name) = <<dev[k].path, m>>
  BY Zenon DEF OpenDecoder
<1>2. rank \in [DOMAIN dev -> {0, 1, 2, 3}]
  BY RanksTyped
<1>3. \A i \in DOMAIN dev : rank[i] = 3 <=> dev[i].path = env.video
  BY DEF RankDecoder
<1> HIDE DEF rank
<1>4. k \in DOMAIN dev /\ rank[j] <= rank[k]
  BY <1>2, <1>3, BestIsBest DEF IsMachine
<1> HIDE DEF k
<1>5. rank[k] = 3
  BY <1>2, <1>3, <1>4
<1> QED
  BY <1>1, <1>3, <1>4, <1>5

LEMMA EncoderIsOwn ==
  ASSUME NEW dev, NEW media, IsMachine(dev, media),
         NEW path, path = FindEncoder(dev, NoPath)
  PROVE  /\ \A k \in DOMAIN dev : Encodes(dev[k]) /\ dev[k].name = "VEPU580" =>
              path = dev[k].path
         /\ path # NoPath => \E k \in DOMAIN dev : dev[k].path = path /\ Encodes(dev[k])
<1> DEFINE rank == [j \in DOMAIN dev |-> RankEncoder(dev[j], NoPath)]
           k    == Best(dev, rank)
<1>1. path = IF k = 0 THEN NoPath ELSE dev[k].path
  BY Zenon DEF FindEncoder
<1>2. rank \in [DOMAIN dev -> {0, 1, 2, 3}]
  BY RanksTyped
<1>3. \A j \in DOMAIN dev : dev[j].opens =>
        /\ rank[j] > 0 <=> Encodes(dev[j])
        /\ rank[j] = 2 <=> Encodes(dev[j]) /\ dev[j].name = "VEPU580"
        /\ rank[j] \in {0, 1, 2}
  <2> SUFFICES ASSUME NEW j \in DOMAIN dev, dev[j].opens
               PROVE  /\ rank[j] > 0 <=> Encodes(dev[j])
                      /\ rank[j] = 2 <=> Encodes(dev[j]) /\ dev[j].name = "VEPU580"
                      /\ rank[j] \in {0, 1, 2}
    BY Zenon
  <2>1. dev[j].path # NoPath
    BY DEF IsMachine
  <2>2. rank[j] = IF ~dev[j].streams \/ "H264" \notin dev[j].capture THEN 0
                  ELSE IF dev[j].name = "VEPU580" THEN 2 ELSE 1
    BY <2>1, Zenon DEF RankEncoder
  <2> HIDE DEF rank
  <2> QED
    BY <2>2 DEF Encodes
<1> HIDE DEF rank
<1>4. /\ k = 0 => \A j \in DOMAIN dev : dev[j].opens => rank[j] = 0
      /\ k # 0 => /\ k \in DOMAIN dev /\ dev[k].opens /\ rank[k] > 0
                  /\ \A j \in DOMAIN dev : dev[j].opens => rank[j] <= rank[k]
  BY <1>2, BestIsBest, SMTT(40) DEF IsMachine
<1> HIDE DEF k
<1>5. ASSUME NEW j \in DOMAIN dev, Encodes(dev[j]), dev[j].name = "VEPU580"
      PROVE  path = dev[j].path
  <2>1. dev[j].opens /\ rank[j] = 2
    BY <1>3, <1>5 DEF Encodes
  <2>2. k # 0 /\ rank[k] = 2
    BY <1>3, <1>4, <2>1
  <2>3. dev[k].name = "VEPU580" /\ dev[k].opens /\ k \in DOMAIN dev
    BY <1>3, <1>4, <2>2
  <2>4. k = j
    BY <1>5, <2>1, <2>3 DEF IsMachine
  <2> QED
    BY <1>1, <2>2, <2>4
<1>6. ASSUME path # NoPath
      PROVE  \E j \in DOMAIN dev : dev[j].path = path /\ Encodes(dev[j])
  BY <1>1, <1>3, <1>4, <1>6
<1> QED
  BY <1>5, <1>6

-----------------------------------------------------------------------------
(* Configs.                                                                *)

\* The loop of RequestCreateConfig over the attributes that it looks at.
KeptRecords(A, R) == [ok : BOOLEAN, ended : BOOLEAN, rt : R, others : Seq(A)]

LEMMA KeepTyped ==
  ASSUME NEW A, NEW R, \A a \in A : a[2] \in R,
         NEW c \in KeptRecords(A, R), NEW a \in A, NEW profile
  PROVE  KeepAttribute(profile, c, a) \in KeptRecords(A, R)
<1>1. Offered(profile, a[2]) \in BOOLEAN /\ a[2] \in R
  BY DEF Offered
<1>2. Append(c.others, a) \in Seq(A)
  BY DEF KeptRecords
<1> QED
  BY <1>1, <1>2 DEF KeepAttribute, KeptRecords

\* What the config is after each attribute, and in the end.
Keeping(profile, kept) ==
  FoldLeft(LAMBDA c, a : KeepAttribute(profile, c, a), NoAttributes, kept)

IsKeeping(h, profile, kept) ==
  /\ h[0] = NoAttributes
  /\ \A k \in 1 .. Len(kept) : h[k] = KeepAttribute(profile, h[k-1], kept[k])
  /\ Keeping(profile, kept) = h[Len(kept)]

LEMMA AttributesKeptInTurn ==
  ASSUME NEW A, NEW kept \in Seq(A), NEW profile,
         NEW R, {"YUV420"} \in R, \A a \in A : a[2] \in R
  PROVE  \E h : IsKeeping(h, profile, kept)
<1> DEFINE n == Len(kept)
           S == KeptRecords(A, R)
           step == [p \in (1 .. n) \X S |-> KeepAttribute(profile, p[2], kept[p[1]])]
           Body(g) == [s \in SUBSET (DOMAIN kept) |->
                         IF s = {} THEN NoAttributes
                         ELSE KeepAttribute(profile, g[s \ {Max(s)}], kept[Max(s)])]
<1>1. n \in Nat /\ DOMAIN kept = 1 .. n /\ \A k \in 1 .. n : kept[k] \in A
  OBVIOUS
<1>2. NoAttributes \in S
  BY DEF NoAttributes, KeptRecords
<1>3. ASSUME NEW c \in S, NEW a \in A PROVE KeepAttribute(profile, c, a) \in S
  BY KeepTyped
<1>4. step \in [(1 .. n) \X S -> S]
  <2> HIDE DEF S, n
  <2> QED
    BY <1>1, <1>3
<1>5. PICK g \in [SUBSET (1 .. n) -> S] : IsFold(g, n, NoAttributes, step)
  <2>1. \E g \in [SUBSET (1 .. n) -> S] : IsFold(g, n, NoAttributes, step)
    <3> HIDE DEF S, n, step
    <3> QED
      BY <1>1, <1>2, <1>4, FoldExists
  <2> QED
    BY <2>1
<1>6. g = Body(g)
  <2>1. ASSUME NEW s \in SUBSET (1 .. n), s # {}
        PROVE  step[<<Max(s), g[s \ {Max(s)}]>>] = KeepAttribute(profile, g[s \ {Max(s)}], kept[Max(s)])
    <3>1. Max(s) \in 1 .. n /\ g[s \ {Max(s)}] \in S
      <4> HIDE DEF S, n
      <4> QED
        BY <1>1, <1>5, <2>1, GreatestOf
    <3> HIDE DEF S, n
    <3> QED
      BY <3>1
  <2> HIDE DEF S, n, step
  <2> QED
    BY <1>1, <1>5, <2>1 DEF IsFold
<1> DEFINE it == CHOOSE f : f = Body(f)
<1>7. it = Body(it)
  <2> HIDE DEF Body
  <2> QED
    BY <1>6
<1>8. Keeping(profile, kept) = it[DOMAIN kept]
  BY DEF Keeping, FoldLeft, MapThenFoldSet
<1> DEFINE h == [k \in 0 .. n |-> it[1 .. k]]
<1>9. h[0] = NoAttributes
  <2>1. 1 .. 0 = {} /\ {} \in SUBSET DOMAIN kept /\ 0 \in 0 .. n
    BY <1>1
  <2> HIDE DEF it
  <2> QED
    BY <1>7, <2>1
<1>10. ASSUME NEW k \in 1 .. n PROVE h[k] = KeepAttribute(profile, h[k-1], kept[k])
  <2>1. /\ Max(1 .. k) = k /\ (1 .. k) \ {Max(1 .. k)} = 1 .. k-1
        /\ 1 .. k \in SUBSET DOMAIN kept /\ 1 .. k # {} /\ k \in 0 .. n /\ k - 1 \in 0 .. n
    BY <1>1, GreatestUpTo
  <2> HIDE DEF it, n
  <2> QED
    BY <1>7, <2>1
<1>11. h[n] = it[DOMAIN kept]
  <2> HIDE DEF it
  <2> QED
    BY <1>1
<1> HIDE DEF h, it, n
<1> QED
  BY <1>8, <1>9, <1>10, <1>11 DEF n, IsKeeping

\* After k attributes the config has what they say, in their order; the loop
\* ends early only at the last of as many as are looked at, none a format.
KeptOf(profile, kept, k, c) ==
  LET formats == {i \in 1 .. k : kept[i][1] = "RTFormat"}
      others  == (1 .. k) \ formats
  IN /\ c.ok <=> \A i \in formats : Offered(profile, kept[i][2])
     /\ c.ok => IF formats = {} THEN c.rt = {"YUV420"} ELSE c.rt = kept[Max(formats)][2]
     /\ c.ok /\ ~c.ended => /\ c.others = Chosen(kept, others)
                            /\ Cardinality(others) <= MaxConfigAttributes - 1
     /\ c.ok /\ c.ended => /\ k = MaxConfigAttributes /\ formats = {}
                           /\ c.others = Chosen(kept, 1 .. k-1)

LEMMA KeptStep ==
  ASSUME NEW A, NEW kept \in Seq(A), NEW profile, Len(kept) <= MaxConfigAttributes,
         NEW k \in 1 .. Len(kept), NEW R, NEW c \in KeptRecords(A, R),
         KeptOf(profile, kept, k - 1, c)
  PROVE  KeptOf(profile, kept, k, KeepAttribute(profile, c, kept[k]))
<1> DEFINE formats(m) == {i \in 1 .. m : kept[i][1] = "RTFormat"}
           others(m)  == (1 .. m) \ formats(m)
           d == KeepAttribute(profile, c, kept[k])
<1>1. k \in Nat /\ k - 1 \in Nat /\ 1 .. k = (1 .. k-1) \cup {k} /\ k \notin 1 .. k-1
      /\ MaxConfigAttributes \in Nat /\ k <= MaxConfigAttributes
  BY CapabilitiesAssumption
<1>2. /\ c.ok <=> \A i \in formats(k-1) : Offered(profile, kept[i][2])
      /\ c.ok => IF formats(k-1) = {} THEN c.rt = {"YUV420"}
                 ELSE c.rt = kept[Max(formats(k-1))][2]
      /\ c.ok /\ ~c.ended => /\ c.others = Chosen(kept, others(k-1))
                             /\ Cardinality(others(k-1)) <= MaxConfigAttributes - 1
      /\ c.ok /\ c.ended => /\ k - 1 = MaxConfigAttributes /\ formats(k-1) = {}
                            /\ c.others = Chosen(kept, 1 .. k-1-1)
  BY DEF KeptOf
<1>3. SUFFICES
        /\ d.ok <=> \A i \in formats(k) : Offered(profile, kept[i][2])
        /\ d.ok => IF formats(k) = {} THEN d.rt = {"YUV420"} ELSE d.rt = kept[Max(formats(k))][2]
        /\ d.ok /\ ~d.ended => /\ d.others = Chosen(kept, others(k))
                               /\ Cardinality(others(k)) <= MaxConfigAttributes - 1
        /\ d.ok /\ d.ended => /\ k = MaxConfigAttributes /\ formats(k) = {}
                              /\ d.others = Chosen(kept, 1 .. k-1)
  BY DEF KeptOf
<1>4. c.ok \in BOOLEAN /\ c.ended \in BOOLEAN /\ c.others \in Seq(A)
      /\ c = [ok |-> c.ok, ended |-> c.ended, rt |-> c.rt, others |-> c.others]
  BY DEF KeptRecords
<1>5. ~(c.ok /\ c.ended)
  BY <1>1, <1>2
<1>6. CASE ~c.ok
  <2>1. d = c
    BY <1>6 DEF KeepAttribute
  <2>2. formats(k-1) \subseteq formats(k)
    BY <1>1
  <2> HIDE DEF d, formats, others
  <2> QED
    BY <1>2, <1>4, <1>6, <2>1, <2>2
<1>7. CASE c.ok /\ ~c.ended /\ kept[k][1] = "RTFormat"
  <2>1. formats(k) = formats(k-1) \cup {k} /\ others(k) = others(k-1)
    BY <1>1, <1>7
  <2>2. Max(formats(k)) = k
    <3>1. k \in formats(k) /\ \A y \in formats(k) : k >= y
      BY <1>7, <1>1
    <3>2. \A x \in formats(k) : (\A y \in formats(k) : x >= y) => x = k
      BY <1>7, <1>1
    <3> HIDE DEF formats
    <3> QED
      BY <3>1, <3>2 DEF Max
  <2>3. d = [c EXCEPT !.ok = Offered(profile, kept[k][2]), !.rt = kept[k][2]]
    BY <1>7 DEF KeepAttribute
  <2>4. /\ d.ok = Offered(profile, kept[k][2]) /\ d.rt = kept[k][2]
        /\ d.ended = c.ended /\ d.others = c.others
    BY <1>4, <2>3
  <2>5. Offered(profile, kept[k][2]) \in BOOLEAN
    BY DEF Offered
  <2> HIDE DEF d, formats, others
  <2> QED
    BY <1>2, <1>7, <2>1, <2>2, <2>4, <2>5
<1>8. CASE c.ok /\ ~c.ended /\ kept[k][1] # "RTFormat"
  <2>1. formats(k) = formats(k-1) /\ others(k) = others(k-1) \cup {k}
    BY <1>1, <1>8
  <2>2. others(k-1) \in SUBSET (1 .. k-1) /\ k - 1 + 1 = k
    BY <1>1
  <2> DEFINE m == Cardinality(others(k-1))
  <2>3. /\ Cardinality(others(k)) = m + 1 /\ m \in Nat /\ Len(c.others) = m
        /\ Chosen(kept, others(k)) = Append(c.others, kept[k])
    <3> HIDE DEF others, formats
    <3>1. /\ Cardinality(others(k-1) \cup {k-1+1}) = m + 1 /\ m \in Nat
          /\ Len(Chosen(kept, others(k-1))) = m
          /\ Chosen(kept, others(k-1) \cup {k-1+1})
               = Append(Chosen(kept, others(k-1)), kept[k-1+1])
      BY <1>1, <2>2, LaterInOrder
    <3> QED
      BY <1>2, <1>8, <2>1, <2>2, <3>1
  <2>4. CASE 1 + m >= MaxConfigAttributes
    <3>1. d = [c EXCEPT !.ended = TRUE]
      BY <1>8, <2>3, <2>4 DEF KeepAttribute
    <3>2. d.ok = c.ok /\ d.rt = c.rt /\ d.others = c.others /\ d.ended
      BY <1>4, <3>1
    <3>3. m <= k - 1 /\ (m = k - 1 => others(k-1) = 1 .. k-1)
      <4>1. IsFiniteSet(1 .. k-1) /\ Cardinality(1 .. k-1) = k - 1
        <5>1. /\ IsFiniteSet(1 .. k-1)
              /\ Cardinality(1 .. k-1) = IF 1 > k-1 THEN 0 ELSE k-1-1+1
          BY <1>1, FS_Interval
        <5> QED
          BY <1>1, <5>1
      <4> HIDE DEF others
      <4> QED
        BY <2>2, <4>1, FS_Subset
    <3>4. k = MaxConfigAttributes /\ others(k-1) = 1 .. k-1
      <4> HIDE DEF others, formats, m
      <4> QED
        BY <1>1, <2>3, <2>4, <3>3
    <3>5. formats(k) = {}
      BY <1>8, <3>4, <1>1
    <3>6. formats(k-1) = {}
      BY <2>1, <3>5
    <3> HIDE DEF d, formats, others
    <3> QED
      BY <1>2, <1>8, <2>1, <3>2, <3>4, <3>5, <3>6
  <2>5. CASE ~(1 + m >= MaxConfigAttributes)
    <3>1. d = [c EXCEPT !.others = Append(@, kept[k])]
      BY <1>8, <2>3, <2>5 DEF KeepAttribute
    <3>2. d.ok = c.ok /\ d.rt = c.rt /\ d.others = Append(c.others, kept[k]) /\ ~d.ended
      BY <1>4, <1>8, <3>1
    <3>3. Cardinality(others(k)) <= MaxConfigAttributes - 1
      BY <1>1, <2>3, <2>5
    <3> HIDE DEF d, formats, others, m
    <3> QED
      BY <1>2, <1>8, <2>1, <2>3, <3>2, <3>3
  <2> QED
    BY <2>4, <2>5
<1> QED
  BY <1>4, <1>5, <1>6, <1>7, <1>8

LEMMA FrontOfAppend ==
  ASSUME NEW A, NEW s \in Seq(A), NEW x \in A
  PROVE  SubSeq(Append(s, x), 1, Len(s)) = s
<1> DEFINE n == Len(s)
           t == Append(s, x)
           u == SubSeq(t, 1, n)
<1>1. n \in Nat /\ t \in Seq(A) /\ Len(t) = n + 1 /\ \A i \in 1 .. n : t[i] = s[i]
  OBVIOUS
<1> HIDE DEF t, n
<1>2. Len(u) = n /\ u \in Seq(A) /\ \A i \in 1 .. n : u[i] = t[i]
  BY <1>1
<1>3. \A i \in 1 .. n : u[i] = s[i]
  BY <1>1, <1>2
<1> HIDE DEF u
<1> QED
  BY <1>2, <1>3, SeqEqual DEF n, t, u

LEMMA AllKept ==
  ASSUME NEW A, NEW kept \in Seq(A), NEW profile, Len(kept) <= MaxConfigAttributes
  PROVE  KeptOf(profile, kept, Len(kept), Keeping(profile, kept))
<1> DEFINE n    == Len(kept)
           R    == {{"YUV420"}} \cup {a[2] : a \in A}
           fold == Keeping(profile, kept)
           Z    == KeptRecords(A, R)
<1>1. n \in Nat /\ \A k \in 1 .. n : kept[k] \in A
  OBVIOUS
<1>2. {"YUV420"} \in R /\ \A a \in A : a[2] \in R
  OBVIOUS
<1> HIDE DEF R
<1>3. PICK h : IsKeeping(h, profile, kept)
  BY <1>2, AttributesKeptInTurn
<1>4. /\ h[0] = NoAttributes
      /\ \A k \in 1 .. n : h[k] = KeepAttribute(profile, h[k-1], kept[k])
      /\ fold = h[n]
  BY <1>3 DEF IsKeeping
<1> HIDE DEF n, fold
<1> DEFINE T == {k \in 0 .. n : h[k] \in Z /\ KeptOf(profile, kept, k, h[k])}
<1>5. 0 \in T
  <2>1. NoAttributes \in Z
    BY <1>2 DEF NoAttributes, KeptRecords
  <2>2. 1 .. 0 = {} /\ Chosen(kept, {}) = << >> /\ Cardinality({}) = 0
    BY NothingInOrder, FS_EmptySet DEF Chosen
  <2>3. KeptOf(profile, kept, 0, NoAttributes)
    BY <2>2, CapabilitiesAssumption DEF KeptOf, NoAttributes
  <2>4. 0 \in 0 .. n
    BY <1>1
  <2> HIDE DEF Z
  <2> QED
    BY <1>4, <2>1, <2>3, <2>4
<1>6. \A k \in 1 .. n : k - 1 \in T => k \in T
  <2> SUFFICES ASSUME NEW k \in 1 .. n, k - 1 \in T PROVE k \in T
    OBVIOUS
  <2>1. h[k-1] \in Z /\ KeptOf(profile, kept, k - 1, h[k-1]) /\ kept[k] \in A /\ k \in 0 .. n
    <3> HIDE DEF Z
    <3> QED
      BY <1>1
  <2>2. h[k] = KeepAttribute(profile, h[k-1], kept[k])
    BY <1>4
  <2>3. h[k] \in Z
    BY <1>2, <2>1, <2>2, KeepTyped
  <2>4. KeptOf(profile, kept, k, h[k])
    BY <2>1, <2>2, KeptStep DEF n
  <2> HIDE DEF Z
  <2> QED
    BY <2>1, <2>3, <2>4
<1>7. 0 .. n \subseteq T
  <2> HIDE DEF T
  <2> QED
    BY <1>1, <1>5, <1>6, InductionUpTo
<1>8. n \in 0 .. n
  BY <1>1
<1>9. KeptOf(profile, kept, n, h[n])
  <2> HIDE DEF Z
  <2> QED
    BY <1>7, <1>8
<1> QED
  BY <1>4, <1>9 DEF n, fold

LEMMA ConfigHonoured ==
  ASSUME NEW A, NEW attributes \in Seq(A), NEW has, NEW profile, NEW entrypoint
  PROVE  IsHonoured(CreateConfig(has, profile, entrypoint, attributes),
                    has, profile, entrypoint, attributes)
<1> DEFINE m       == Min({Len(attributes), MaxConfigAttributes})
           kept    == SubSeq(attributes, 1, m)
           n       == Len(kept)
           formats == {k \in 1 .. n : kept[k][1] = "RTFormat"}
           others  == (1 .. n) \ formats
           told    == GetRtFormats(has, profile, entrypoint)
           fold    == Keeping(profile, kept)
           made    == CreateConfig(has, profile, entrypoint, attributes)
<1>1. /\ m \in 0 .. Len(attributes) /\ m <= MaxConfigAttributes /\ MaxConfigAttributes \in Nat \ {0}
  BY CapabilitiesAssumption, MinOfTwo
<1>2. /\ kept \in Seq(A) /\ n = m /\ n \in Nat /\ DOMAIN kept = 1 .. n
      /\ \A k \in 1 .. n : kept[k] \in A
  <2> HIDE DEF m
  <2> QED
    BY <1>1
<1> HIDE DEF kept, n, m, fold
<1>7. KeptOf(profile, kept, n, fold)
  <2>1. Len(kept) <= MaxConfigAttributes
    BY <1>1, <1>2 DEF n
  <2> QED
    BY <1>2, <2>1, AllKept DEF n, fold
<1>8. made = IF ~Creatable(has, profile, entrypoint) \/ ~fold.ok THEN Refusal
             ELSE [ok |-> TRUE, rt |-> fold.rt, others |-> fold.others]
  BY DEF CreateConfig, Keeping, kept, m, fold
<1>9. Creatable(has, profile, entrypoint) => told = RtFormats(profile)
  BY DEF Creatable, GetRtFormats, FormatOf, RtFormats, H264Profiles
<1>10. profile \in QueryProfiles(has) /\ entrypoint \in QueryEntrypoints(has, profile)
       => Creatable(has, profile, entrypoint)
  BY DEF QueryProfiles, QueryEntrypoints, Creatable, VaProfiles, H264Profiles
<1> HIDE DEF made, told
<1>11. /\ fold.ok <=> \A i \in formats : Offered(profile, kept[i][2])
       /\ fold.ok => IF formats = {} THEN fold.rt = {"YUV420"} ELSE fold.rt = kept[Max(formats)][2]
       /\ fold.ok /\ ~fold.ended => /\ fold.others = Chosen(kept, others)
                                    /\ Cardinality(others) <= MaxConfigAttributes - 1
       /\ fold.ok /\ fold.ended => /\ n = MaxConfigAttributes /\ formats = {}
                                   /\ fold.others = Chosen(kept, 1 .. n-1)
  BY <1>7 DEF KeptOf
<1>12. ASSUME profile \in QueryProfiles(has), entrypoint \in QueryEntrypoints(has, profile),
              \A k \in formats : kept[k][2] # {} /\ kept[k][2] \subseteq told
       PROVE  made.ok
  <2>1. fold.ok /\ Creatable(has, profile, entrypoint)
    BY <1>9, <1>10, <1>11, <1>12 DEF Offered
  <2> QED
    BY <1>8, <2>1
<1>13. ASSUME made.ok
       PROVE  /\ formats # {} => made.rt = kept[Max(formats)][2]
              /\ made.rt \subseteq told /\ made.rt # {}
              /\ made.others = SubSeq(Chosen(kept, others), 1,
                                     Min({Len(Chosen(kept, others)), MaxConfigAttributes - 1}))
  <2>1. fold.ok /\ told = RtFormats(profile) /\ made.rt = fold.rt /\ made.others = fold.others
    BY <1>8, <1>9, <1>13 DEF Refusal
  <2>2. formats # {} => made.rt = kept[Max(formats)][2]
    BY <1>11, <2>1
  <2>3. made.rt \subseteq told /\ made.rt # {}
    <3>1. CASE formats = {}
      BY <1>11, <2>1, <3>1 DEF RtFormats
    <3>2. CASE formats # {}
      <4>1. Max(formats) \in formats
        <5>1. formats \in SUBSET (1 .. n)
          OBVIOUS
        <5> HIDE DEF formats
        <5> QED
          BY <1>2, <3>2, <5>1, GreatestOf
      <4> HIDE DEF formats
      <4> QED
        BY <1>11, <2>1, <2>2, <3>2, <4>1 DEF Offered
    <3> QED
      BY <3>1, <3>2
  <2> DEFINE list == Chosen(kept, others)
             c == Cardinality(others)
  <2>4. c \in Nat /\ Len(list) = c /\ list \in Seq({kept[i] : i \in others})
    <3>1. others \in SUBSET (1 .. n)
      OBVIOUS
    <3> HIDE DEF others
    <3> QED
      BY <1>2, <3>1, LaterInOrder
  <2>5. made.others = SubSeq(list, 1, Min({Len(list), MaxConfigAttributes - 1}))
    <3>1. CASE ~fold.ended
      <4>1. fold.others = list /\ c <= MaxConfigAttributes - 1
        BY <1>11, <2>1, <3>1
      <4>2. Min({Len(list), MaxConfigAttributes - 1}) = Len(list)
        BY <1>1, <2>4, <4>1, MinOfTwo
      <4>3. SubSeq(list, 1, Len(list)) = list
        BY <2>4, SubSeqFull
      <4> QED
        BY <2>1, <4>1, <4>2, <4>3
    <3>2. CASE fold.ended
      <4>1. n = MaxConfigAttributes /\ formats = {} /\ fold.others = Chosen(kept, 1 .. n-1)
        BY <1>11, <2>1, <3>2
      <4>2. others = (1 .. n-1) \cup {n-1+1} /\ n - 1 \in Nat /\ 1 .. n-1 \in SUBSET (1 .. n-1)
        BY <1>1, <1>2, <4>1
      <4> DEFINE front == Chosen(kept, 1 .. n-1)
      <4>3. /\ list = Append(front, kept[n-1+1])
            /\ front \in Seq({kept[i] : i \in 1 .. n-1}) /\ Len(front) = Cardinality(1 .. n-1)
        <5> HIDE DEF others
        <5> QED
          BY <4>2, LaterInOrder
      <4>4. Len(front) = n - 1
        <5>1. Cardinality(1 .. n-1) = IF 1 > n-1 THEN 0 ELSE n-1-1+1
          <6>1. 1 \in Int /\ n - 1 \in Int
            BY <4>2
          <6> QED
            BY <6>1, FS_Interval
        <5> QED
          BY <4>2, <4>3, <5>1
      <4>5. front \in Seq(A) /\ kept[n-1+1] \in A
        <5>1. {kept[i] : i \in 1 .. n-1} \subseteq A
          BY <1>2
        <5>2. n - 1 + 1 \in 1 .. n
          BY <4>2
        <5> HIDE DEF front
        <5> QED
          BY <1>2, <4>3, <5>1, <5>2
      <4> HIDE DEF front, list
      <4>6. Len(list) = n /\ SubSeq(list, 1, n-1) = front
        <5> DEFINE last == kept[n-1+1]
        <5>1. list = Append(front, last) /\ last \in A /\ Len(front) = n - 1
          BY <4>3, <4>4, <4>5
        <5> HIDE DEF last
        <5>2. Len(list) = n - 1 + 1 /\ SubSeq(list, 1, n-1) = front
          BY <4>2, <4>5, <5>1, FrontOfAppend
        <5> QED
          BY <1>2, <5>2
      <4>7. Min({Len(list), MaxConfigAttributes - 1}) = n - 1
        BY <1>1, <4>1, <4>6, MinOfTwo
      <4> QED
        BY <2>1, <4>1, <4>6, <4>7 DEF front
    <3> QED
      BY <3>1, <3>2
  <2> QED
    BY <2>2, <2>3, <2>5
<1> QED
  <2> HIDE DEF formats
  <2>1. DOMAIN kept = 1 .. n
    BY <1>2
  <2> QED
    BY <1>12, <1>13, <2>1 DEF IsHonoured, kept, m, formats, told, made

-----------------------------------------------------------------------------
(* Distances.                                                              *)

HalfRanges == {1, 2, 4, 8, 16, 32, 64, 128}

LEMMA HalfRange ==
  ASSUME NEW bits \in 1 .. 8
  PROVE  2 ^ (bits-1) \in HalfRanges /\ 2 ^ bits = 2 * 2 ^ (bits-1)
<1>1. bits \in {1, 2, 3, 4, 5, 6, 7, 8}
  OBVIOUS
<1>2. CASE bits = 1
  <2>1. bits - 1 = 0 /\ 2 ^ 0 = 1 /\ 2 ^ 1 = 2
    BY <1>2
  <2> QED
    BY <1>2, <2>1 DEF HalfRanges
<1>3. CASE bits = 2
  <2>1. bits - 1 = 1 /\ 2 ^ 1 = 2 /\ 2 ^ 2 = 4
    BY <1>3
  <2> QED
    BY <1>3, <2>1 DEF HalfRanges
<1>4. CASE bits = 3
  <2>1. bits - 1 = 2 /\ 2 ^ 2 = 4 /\ 2 ^ 3 = 8
    BY <1>4
  <2> QED
    BY <1>4, <2>1 DEF HalfRanges
<1>5. CASE bits = 4
  <2>1. bits - 1 = 3 /\ 2 ^ 3 = 8 /\ 2 ^ 4 = 16
    BY <1>5
  <2> QED
    BY <1>5, <2>1 DEF HalfRanges
<1>6. CASE bits = 5
  <2>1. bits - 1 = 4 /\ 2 ^ 4 = 16 /\ 2 ^ 5 = 32
    BY <1>6
  <2> QED
    BY <1>6, <2>1 DEF HalfRanges
<1>7. CASE bits = 6
  <2>1. bits - 1 = 5 /\ 2 ^ 5 = 32 /\ 2 ^ 6 = 64
    BY <1>7
  <2> QED
    BY <1>7, <2>1 DEF HalfRanges
<1>8. CASE bits = 7
  <2>1. bits - 1 = 6 /\ 2 ^ 6 = 64 /\ 2 ^ 7 = 128
    BY <1>8
  <2> QED
    BY <1>8, <2>1 DEF HalfRanges
<1>9. CASE bits = 8
  <2>1. bits - 1 = 7 /\ 2 ^ 7 = 128 /\ 2 ^ 8 = 256
    BY <1>9
  <2> QED
    BY <1>9, <2>1 DEF HalfRanges
<1> QED
  BY <1>1, <1>2, <1>3, <1>4, <1>5, <1>6, <1>7, <1>8, <1>9

\* What is a whole range apart is the same, and there is one distance for it.
WholeRanges(m, x) == x % (2 * m) = 0

LEMMA Wraps ==
  ASSUME NEW m \in HalfRanges, NEW x \in Int, NEW y \in Int, NEW d \in Int, NEW e \in Int,
         WholeRanges(m, x - d), WholeRanges(m, y - e)
  PROVE  /\ WholeRanges(m, x - y - (d - e))
         /\ x = y /\ d \in -m .. m-1 /\ e \in -m .. m-1 => d = e
<1>1. CASE m = 1
  BY <1>1 DEF WholeRanges
<1>2. CASE m = 2
  BY <1>2 DEF WholeRanges
<1>3. CASE m = 4
  BY <1>3 DEF WholeRanges
<1>4. CASE m = 8
  BY <1>4 DEF WholeRanges
<1>5. CASE m = 16
  BY <1>5 DEF WholeRanges
<1>6. CASE m = 32
  BY <1>6 DEF WholeRanges
<1>7. CASE m = 64
  BY <1>7 DEF WholeRanges
<1>8. CASE m = 128
  <2> DEFINE a == x - d  b == y - e  p == a \div 256  q == b \div 256
  <2>1. a = 256 * p /\ b = 256 * q /\ p \in Int /\ q \in Int
    <3>1. a \in Int /\ b \in Int
      OBVIOUS
    <3>2. a % 256 = 0 /\ b % 256 = 0
      BY <1>8 DEF WholeRanges
    <3> HIDE DEF a, b
    <3> QED
      BY <3>1, <3>2
  <2> HIDE DEF p, q
  <2>2. x - y - (d - e) = 256 * (p - q)
    <3> DEFINE u == 256 * p  v == 256 * q
    <3>1. x - d = u /\ y - e = v /\ u \in Int /\ v \in Int /\ u - v = 256 * (p - q)
      BY <2>1
    <3> HIDE DEF u, v
    <3>2. x - y - (d - e) = u - v
      BY <3>1
    <3> QED
      BY <3>1, <3>2
  <2>3. x = y /\ d \in -128 .. 127 /\ e \in -128 .. 127 => d = e
    BY <2>1, <2>2, SMTT(40)
  <2> DEFINE z == x - y - (d - e)
  <2>4. z \in Int /\ z = 256 * (p - q)
    BY <2>2
  <2> HIDE DEF z
  <2>5. z % 256 = 0
    BY <2>1, <2>4
  <2>6. WholeRanges(m, z)
    BY <1>8, <2>5 DEF WholeRanges
  <2> QED
    BY <1>8, <2>3, <2>6 DEF z
<1> QED
  BY <1>1, <1>2, <1>3, <1>4, <1>5, <1>6, <1>7, <1>8 DEF HalfRanges

LEMMA Unwraps ==
  ASSUME NEW m \in HalfRanges, NEW x \in Int, NEW diff, diff = x % (2 * m),
         NEW d, d = (diff % m) - (IF diff >= m THEN m ELSE 0)
  PROVE  d \in -m .. m-1 /\ WholeRanges(m, x - d)
<1>1. CASE m = 1
  BY <1>1 DEF WholeRanges
<1>2. CASE m = 2
  BY <1>2 DEF WholeRanges
<1>3. CASE m = 4
  BY <1>3 DEF WholeRanges
<1>4. CASE m = 8
  BY <1>4 DEF WholeRanges
<1>5. CASE m = 16
  BY <1>5 DEF WholeRanges
<1>6. CASE m = 32
  BY <1>6 DEF WholeRanges
<1>7. CASE m = 64
  BY <1>7 DEF WholeRanges
<1>8. CASE m = 128
  BY <1>8 DEF WholeRanges
<1> QED
  BY <1>1, <1>2, <1>3, <1>4, <1>5, <1>6, <1>7, <1>8 DEF HalfRanges

LEMMA OneDistance ==
  ASSUME NEW m \in HalfRanges, NEW x \in Int, NEW d \in -m .. m-1, NEW e \in -m .. m-1,
         WholeRanges(m, x - d), WholeRanges(m, x - e)
  PROVE  d = e
<1>1. d \in Int /\ e \in Int
  BY DEF HalfRanges
<1> QED
  BY <1>1, Wraps

\* The bits compute the distance, and distances subtract while they are within
\* half the range.
LEMMA DistanceOfBits ==
  ASSUME NEW bits \in 1 .. 8, NEW m, m = 2 ^ (bits-1), NEW a \in Int, NEW b \in Int
  PROVE  /\ m \in HalfRanges /\ m \in Nat \ {0} /\ 2 ^ bits = 2 * m
         /\ RelativeDist(bits, a, b) \in -m .. m-1 /\ RelativeDist(bits, a, b) \in Int
         /\ WholeRanges(m, a - b - RelativeDist(bits, a, b))
<1>1. m \in HalfRanges /\ 2 ^ bits = 2 * m
  BY HalfRange, Zenon
<1>2. m \in Nat \ {0}
  BY <1>1 DEF HalfRanges
<1> DEFINE diff == (a - b) % (2 * m)
           d == (diff % m) - (IF diff >= m THEN m ELSE 0)
<1>3. RelativeDist(bits, a, b) = d
  BY DEF RelativeDist
<1>4. a - b \in Int
  OBVIOUS
<1>5. d \in -m .. m-1 /\ WholeRanges(m, a - b - d)
  BY <1>1, <1>4, Unwraps
<1> HIDE DEF d
<1> QED
  BY <1>1, <1>2, <1>3, <1>5

LEMMA Distances ==
  ASSUME NEW bits \in 1 .. 8, NEW a \in Int, NEW b \in Int, NEW m, m = 2 ^ (bits-1)
  PROVE  /\ m \in Nat \ {0} /\ RelativeDist(bits, a, b) \in -m .. m-1
         /\ Away(bits, a, b) = RelativeDist(bits, a, b)
<1> DEFINE r == RelativeDist(bits, a, b)
<1>1. /\ m \in HalfRanges /\ 2 ^ bits = 2 * m /\ m \in Nat \ {0}
      /\ r \in -m .. m-1 /\ r \in Int /\ WholeRanges(m, a - b - r)
  BY DistanceOfBits
<1>2. \A d \in -m .. m-1 : WholeRanges(m, a - b - d) => d = r
  <2> SUFFICES ASSUME NEW d \in -m .. m-1, WholeRanges(m, a - b - d) PROVE d = r
    OBVIOUS
  <2>1. a - b \in Int
    OBVIOUS
  <2> HIDE DEF r
  <2> QED
    BY <1>1, <2>1, OneDistance
<1>3. Away(bits, a, b) = CHOOSE d \in -m .. m-1 : WholeRanges(m, a - b - d)
  BY <1>1 DEF Away, WholeRanges
<1> HIDE DEF r
<1>4. Away(bits, a, b) = r
  BY <1>1, <1>2, <1>3
<1> QED
  BY <1>1, <1>4 DEF r

LEMMA DistancesSubtract ==
  ASSUME NEW bits \in 1 .. 8, NEW a \in Int, NEW b \in Int, NEW c \in Int,
         NEW m, m = 2 ^ (bits-1),
         RelativeDist(bits, a, c) - RelativeDist(bits, b, c) \in -m .. m-1
  PROVE  RelativeDist(bits, a, b) = RelativeDist(bits, a, c) - RelativeDist(bits, b, c)
<1> DEFINE p == RelativeDist(bits, a, c)
           q == RelativeDist(bits, b, c)
           r == RelativeDist(bits, a, b)
           x == a - c
           y == b - c
<1>1. m \in HalfRanges /\ m \in Nat \ {0}
  BY DistanceOfBits
<1>2. /\ p \in Int /\ q \in Int /\ r \in -m .. m-1
      /\ WholeRanges(m, x - p) /\ WholeRanges(m, y - q) /\ WholeRanges(m, a - b - r)
  BY DistanceOfBits
<1>3. /\ x \in Int /\ y \in Int /\ x - y = a - b /\ a - b \in Int /\ p - q \in -m .. m-1
  OBVIOUS
<1> HIDE DEF p, q, r, x, y
<1>4. WholeRanges(m, x - y - (p - q))
  BY <1>1, <1>2, <1>3, Wraps
<1>5. WholeRanges(m, a - b - (p - q))
  BY <1>3, <1>4
<1>6. r = p - q
  BY <1>1, <1>2, <1>3, <1>5, OneDistance
<1> QED
  BY <1>6 DEF p, q, r

-----------------------------------------------------------------------------
(* The nearest references.                                                 *)

\* i is the first among the positions S of those with the greatest value.
IsFirstGreatest(i, S, v) ==
  IF S = {} THEN i = 0
  ELSE i \in S /\ \A j \in S : v[j] <= v[i] /\ (j < i => v[j] < v[i])

LEMMA FirstGreatestSoFar ==
  ASSUME NEW n \in Nat, NEW v \in [1 .. n -> Int], NEW T \in SUBSET (1 .. n),
         NEW k \in 1 .. n, NEW i, IsFirstGreatest(i, T \cap (1 .. k-1), v)
  PROVE  /\ k \notin T => IsFirstGreatest(i, T \cap (1 .. k), v)
         /\ k \in T => IsFirstGreatest(IF i = 0 \/ v[k] > v[i] THEN k ELSE i, T \cap (1 .. k), v)
         /\ i = 0 \/ (i \in T /\ i \in 1 .. k-1)
<1>1. /\ k \notin T => T \cap (1 .. k) = T \cap (1 .. k-1)
      /\ k \in T => T \cap (1 .. k) = (T \cap (1 .. k-1)) \cup {k}
      /\ \A j \in T \cap (1 .. k-1) : j < k /\ j \in 1 .. n /\ j # 0
  OBVIOUS
<1> DEFINE S == T \cap (1 .. k-1)
<1>2. i = 0 \/ (i \in T /\ i \in 1 .. k-1)
  BY DEF IsFirstGreatest
<1>3. ASSUME k \in T
      PROVE  IsFirstGreatest(IF i = 0 \/ v[k] > v[i] THEN k ELSE i, S \cup {k}, v)
  <2>1. v[k] \in Int /\ \A j \in S : v[j] \in Int /\ j < k /\ j \in Int /\ j # 0
    BY <1>1
  <2>2. k \in Int /\ k # 0
    OBVIOUS
  <2> HIDE DEF S
  <2>3. CASE S = {}
    <3>1. i = 0
      BY <2>3 DEF IsFirstGreatest, S
    <3> QED
      BY <2>1, <2>2, <2>3, <3>1 DEF IsFirstGreatest
  <2>4. CASE S # {}
    <3>1. i \in S /\ \A j \in S : v[j] <= v[i] /\ (j < i => v[j] < v[i])
      BY <2>4 DEF IsFirstGreatest, S
    <3>2. CASE v[k] > v[i]
      <4>1. \A j \in S : v[j] < v[k]
        BY <2>1, <3>1, <3>2
      <4> QED
        BY <2>1, <2>2, <3>2, <4>1, SMTT(40) DEF IsFirstGreatest
    <3>3. CASE ~(v[k] > v[i])
      <4>1. v[k] <= v[i] /\ ~(k < i)
        BY <2>1, <2>2, <3>1, <3>3
      <4> QED
        BY <2>1, <2>2, <3>1, <3>3, <4>1 DEF IsFirstGreatest
    <3> QED
      BY <3>2, <3>3
  <2> QED
    BY <2>3, <2>4
<1> QED
  BY <1>1, <1>2, <1>3

LEMMA SquaresGrow ==
  ASSUME NEW x \in Int, NEW y \in Int, x > 0, y > 0
  PROVE  x * x <= y * y <=> x <= y
<1>1. x <= y => x * x <= y * y
  BY Z3
<1>2. y < x => y * y < x * x
  BY Z3
<1>3. x * x \in Int /\ y * y \in Int
  BY Z3
<1> QED
  BY <1>1, <1>2, <1>3

OnOneSide(S, away, v) == \A j \in S : v[j] < 0 /\ (v[j] = away[j] \/ v[j] = -away[j])

\* Among distances of one sign the first nearest is the least of those whose
\* squares are least.
LEMMA NearestIsFirst ==
  ASSUME NEW n \in Nat, NEW away \in [1 .. n -> Int], NEW v \in [1 .. n -> Int],
         NEW S \in SUBSET (1 .. n), S # {}, NEW i, IsFirstGreatest(i, S, v),
         OnOneSide(S, away, v)
  PROVE  Min({x \in S : \A y \in S : away[x] * away[x] <= away[y] * away[y]}) = i
<1> DEFINE near == {x \in S : \A y \in S : away[x] * away[x] <= away[y] * away[y]}
<1>1. i \in S /\ \A j \in S : v[j] <= v[i] /\ (j < i => v[j] < v[i])
  BY DEF IsFirstGreatest
<1>2. ASSUME NEW x \in S, NEW y \in S
      PROVE  away[x] * away[x] <= away[y] * away[y] <=> v[y] <= v[x]
  <2>1. /\ v[x] \in Int /\ v[y] \in Int /\ -v[x] > 0 /\ -v[y] > 0
        /\ away[x] \in Int /\ away[y] \in Int
        /\ (v[x] = away[x] \/ v[x] = -away[x]) /\ (v[y] = away[y] \/ v[y] = -away[y])
    BY DEF OnOneSide
  <2>2. ASSUME NEW a \in Int, NEW b \in Int, b = a \/ b = -a PROVE a * a = (-b) * (-b)
    <3>1. CASE b = a
      BY <3>1, Z3
    <3>2. CASE b = -a
      BY <3>2, Z3
    <3> QED
      BY <2>2, <3>1, <3>2
  <2>3. away[x] * away[x] = (-v[x]) * (-v[x]) /\ away[y] * away[y] = (-v[y]) * (-v[y])
    BY <2>1, <2>2
  <2>4. (-v[x]) * (-v[x]) <= (-v[y]) * (-v[y]) <=> -v[x] <= -v[y]
    <3>1. -v[x] \in Int /\ -v[y] \in Int
      BY <2>1, SMTT(40)
    <3> QED
      BY <2>1, <3>1, SquaresGrow, Zenon
  <2>5. -v[x] <= -v[y] <=> v[y] <= v[x]
    <3> DEFINE a == v[x]  b == v[y]
    <3>1. a \in Int /\ b \in Int
      BY <2>1
    <3> HIDE DEF a, b
    <3>2. -a <= -b <=> b <= a
      BY <3>1
    <3> QED
      BY <3>2 DEF a, b
  <2> QED
    BY <2>3, <2>4, <2>5, Zenon
<1>3. i \in near
  BY <1>1, <1>2
<1>4. \A x \in near : i <= x
  <2> SUFFICES ASSUME NEW x \in near PROVE i <= x
    OBVIOUS
  <2>1. x \in S /\ v[i] <= v[x]
    BY <1>1, <1>2
  <2>2. x \in Int /\ i \in Int /\ v[x] \in Int /\ v[i] \in Int
    BY <1>1, <2>1
  <2> QED
    BY <1>1, <2>1, <2>2
<1> HIDE DEF near
<1>5. \A x \in near : x \in Int
  BY DEF near
<1>6. Min(near) = i
  BY <1>3, <1>4, <1>5 DEF Min
<1> QED
  BY <1>6 DEF near

-----------------------------------------------------------------------------
(* The passes over the references.                                         *)

IsNearing(h, bits, hints, hint) ==
  /\ h[0] = [fwd |-> 0, bwd |-> 0]
  /\ \A k \in 1 .. Len(hints) : h[k] = Nearer(bits, hints, hint, h[k-1], k)
  /\ ForwardBackward(bits, hints, hint) = h[Len(hints)]

LEMMA NearerInTurn ==
  ASSUME NEW bits, NEW A, NEW hints \in Seq(A), NEW hint
  PROVE  \E h : IsNearing(h, bits, hints, hint)
<1> DEFINE n == Len(hints)
           list == [i \in DOMAIN hints |-> i]
           S == [fwd : 0 .. n, bwd : 0 .. n]
           base == [fwd |-> 0, bwd |-> 0]
           step == [p \in (1 .. n) \X S |-> Nearer(bits, hints, hint, p[2], list[p[1]])]
           Body(g) == [s \in SUBSET (DOMAIN list) |->
                         IF s = {} THEN base ELSE Nearer(bits, hints, hint, g[s \ {Max(s)}], list[Max(s)])]
<1>1. n \in Nat /\ DOMAIN list = 1 .. n /\ \A k \in 1 .. n : list[k] = k
  OBVIOUS
<1>2. base \in S
  BY <1>1
<1>3. ASSUME NEW c \in S, NEW k \in 1 .. n PROVE Nearer(bits, hints, hint, c, list[k]) \in S
  BY <1>3, <1>1 DEF Nearer
<1>5. PICK g \in [SUBSET (1 .. n) -> S] : IsFold(g, n, base, step)
  <2>1. \E g \in [SUBSET (1 .. n) -> S] : IsFold(g, n, base, step)
    <3>1. step \in [(1 .. n) \X S -> S]
      <4> HIDE DEF S, n, list
      <4> QED
        BY <1>1, <1>3
    <3> HIDE DEF S, n, base, step
    <3> QED
      BY <1>1, <1>2, <3>1, FoldExists
  <2> QED
    BY <2>1
<1>6. g = Body(g)
  <2>1. ASSUME NEW s \in SUBSET (1 .. n), s # {}
        PROVE  step[<<Max(s), g[s \ {Max(s)}]>>] = Nearer(bits, hints, hint, g[s \ {Max(s)}], list[Max(s)])
    <3>1. Max(s) \in 1 .. n /\ g[s \ {Max(s)}] \in S
      <4> HIDE DEF S, n, list
      <4> QED
        BY <1>1, <1>5, <2>1, GreatestOf
    <3> HIDE DEF S, n, list
    <3> QED
      BY <3>1
  <2> HIDE DEF S, n, step, base, list
  <2> QED
    BY <1>1, <1>5, <2>1 DEF IsFold
<1> DEFINE it == CHOOSE f : f = Body(f)
<1>7. it = Body(it)
  <2> HIDE DEF Body
  <2> QED
    BY <1>6
<1>8. ForwardBackward(bits, hints, hint) = it[DOMAIN list]
  BY DEF ForwardBackward, FoldLeft, MapThenFoldSet
<1> DEFINE h == [k \in 0 .. n |-> it[1 .. k]]
<1>9. h[0] = base
  <2>1. 1 .. 0 = {} /\ {} \in SUBSET DOMAIN list /\ 0 \in 0 .. n
    BY <1>1
  <2> HIDE DEF it, list
  <2> QED
    BY <1>7, <2>1
<1>10. ASSUME NEW k \in 1 .. n PROVE h[k] = Nearer(bits, hints, hint, h[k-1], list[k])
  <2>1. /\ Max(1 .. k) = k /\ (1 .. k) \ {Max(1 .. k)} = 1 .. k-1
        /\ 1 .. k \in SUBSET DOMAIN list /\ 1 .. k # {} /\ k \in 0 .. n /\ k - 1 \in 0 .. n
    BY <1>1, GreatestUpTo
  <2> HIDE DEF it, n, list
  <2> QED
    BY <1>7, <2>1
<1>11. h[n] = it[DOMAIN list]
  <2> HIDE DEF it, list
  <2> QED
    BY <1>1
<1> HIDE DEF h, it, n, list
<1> QED
  BY <1>1, <1>8, <1>9, <1>10, <1>11 DEF n, list, IsNearing

IsNearingSecond(h, bits, hints, forward) ==
  /\ h[0] = 0
  /\ \A k \in 1 .. Len(hints) : h[k] = NearerSecond(bits, hints, forward, h[k-1], k)
  /\ SecondForward(bits, hints, forward) = h[Len(hints)]

LEMMA SecondInTurn ==
  ASSUME NEW bits, NEW A, NEW hints \in Seq(A), NEW forward
  PROVE  \E h : IsNearingSecond(h, bits, hints, forward)
<1> DEFINE n == Len(hints)
           list == [i \in DOMAIN hints |-> i]
           S == 0 .. n
           base == 0
           step == [p \in (1 .. n) \X S |-> NearerSecond(bits, hints, forward, p[2], list[p[1]])]
           Body(g) == [s \in SUBSET (DOMAIN list) |->
                         IF s = {} THEN base ELSE NearerSecond(bits, hints, forward, g[s \ {Max(s)}], list[Max(s)])]
<1>1. n \in Nat /\ DOMAIN list = 1 .. n /\ \A k \in 1 .. n : list[k] = k
  OBVIOUS
<1>2. base \in S
  BY <1>1
<1>3. ASSUME NEW c \in S, NEW k \in 1 .. n PROVE NearerSecond(bits, hints, forward, c, list[k]) \in S
  BY <1>3, <1>1 DEF NearerSecond
<1>5. PICK g \in [SUBSET (1 .. n) -> S] : IsFold(g, n, base, step)
  <2>1. \E g \in [SUBSET (1 .. n) -> S] : IsFold(g, n, base, step)
    <3>1. step \in [(1 .. n) \X S -> S]
      <4> HIDE DEF S, n, list
      <4> QED
        BY <1>1, <1>3
    <3> HIDE DEF S, n, base, step
    <3> QED
      BY <1>1, <1>2, <3>1, FoldExists
  <2> QED
    BY <2>1
<1>6. g = Body(g)
  <2>1. ASSUME NEW s \in SUBSET (1 .. n), s # {}
        PROVE  step[<<Max(s), g[s \ {Max(s)}]>>] = NearerSecond(bits, hints, forward, g[s \ {Max(s)}], list[Max(s)])
    <3>1. Max(s) \in 1 .. n /\ g[s \ {Max(s)}] \in S
      <4> HIDE DEF S, n, list
      <4> QED
        BY <1>1, <1>5, <2>1, GreatestOf
    <3> HIDE DEF S, n, list
    <3> QED
      BY <3>1
  <2> HIDE DEF S, n, step, base, list
  <2> QED
    BY <1>1, <1>5, <2>1 DEF IsFold
<1> DEFINE it == CHOOSE f : f = Body(f)
<1>7. it = Body(it)
  <2> HIDE DEF Body
  <2> QED
    BY <1>6
<1>8. SecondForward(bits, hints, forward) = it[DOMAIN list]
  BY DEF SecondForward, FoldLeft, MapThenFoldSet
<1> DEFINE h == [k \in 0 .. n |-> it[1 .. k]]
<1>9. h[0] = base
  <2>1. 1 .. 0 = {} /\ {} \in SUBSET DOMAIN list /\ 0 \in 0 .. n
    BY <1>1
  <2> HIDE DEF it, list
  <2> QED
    BY <1>7, <2>1
<1>10. ASSUME NEW k \in 1 .. n PROVE h[k] = NearerSecond(bits, hints, forward, h[k-1], list[k])
  <2>1. /\ Max(1 .. k) = k /\ (1 .. k) \ {Max(1 .. k)} = 1 .. k-1
        /\ 1 .. k \in SUBSET DOMAIN list /\ 1 .. k # {} /\ k \in 0 .. n /\ k - 1 \in 0 .. n
    BY <1>1, GreatestUpTo
  <2> HIDE DEF it, n, list
  <2> QED
    BY <1>7, <2>1
<1>11. h[n] = it[DOMAIN list]
  <2> HIDE DEF it, list
  <2> QED
    BY <1>1
<1> HIDE DEF h, it, n, list
<1> QED
  BY <1>1, <1>8, <1>9, <1>10, <1>11 DEF n, list, IsNearingSecond

-----------------------------------------------------------------------------
(* Skip mode.                                                              *)

\* Without hints no reference is before or after the frame.
LEMMA NoHints ==
  ASSUME NEW A, NEW hints \in Seq(A), NEW hint
  PROVE  ForwardBackward(0, hints, hint) = [fwd |-> 0, bwd |-> 0]
<1> DEFINE n == Len(hints)
           none == [fwd |-> 0, bwd |-> 0]
<1>1. n \in Nat
  OBVIOUS
<1>2. PICK h : IsNearing(h, 0, hints, hint)
  BY NearerInTurn
<1>3. /\ h[0] = none
      /\ \A k \in 1 .. n : h[k] = Nearer(0, hints, hint, h[k-1], k)
      /\ ForwardBackward(0, hints, hint) = h[n]
  BY <1>2 DEF IsNearing
<1>4. \A c, k : Nearer(0, hints, hint, c, k) = c
  BY DEF Nearer, RelativeDist
<1> DEFINE T == {k \in 0 .. n : h[k] = none}
<1> HIDE DEF n, none
<1>5. 0 \in T /\ \A k \in 1 .. n : k - 1 \in T => k \in T
  BY <1>1, <1>3, <1>4
<1>6. 0 .. n \subseteq T
  <2> HIDE DEF T
  <2> QED
    BY <1>1, <1>5, InductionUpTo
<1>7. n \in 0 .. n
  BY <1>1
<1> QED
  BY <1>3, <1>6, <1>7 DEF none

\* How far the references are from the frame, and what the bits say of it.
Past(n, away)   == {i \in 1 .. n : away[i] < 0}
Future(n, away) == {i \in 1 .. n : away[i] > 0}

AreDistances(bits, hints, hint, away) ==
  LET n == Len(hints)
  IN /\ away \in [1 .. n -> Int]
     /\ \A i \in 1 .. n : /\ away[i] = RelativeDist(bits, hints[i], hint)
                          /\ away[i] = Away(bits, hints[i], hint)
     /\ \A i, j \in 1 .. n :
          \/ away[i] < 0 /\ away[j] < 0
          \/ away[i] > 0 /\ away[j] > 0
          \/ away[i] = 0 /\ away[j] < 0
          => RelativeDist(bits, hints[i], hints[j]) = away[i] - away[j]

LEMMA DistancesInRange ==
  ASSUME NEW bits \in 1 .. 8, NEW hints \in Seq(Nat), NEW hint \in Nat,
         HintsInRange(bits, hints, hint)
  PROVE  AreDistances(bits, hints, hint, [i \in 1 .. Len(hints) |-> Away(bits, hints[i], hint)])
<1> DEFINE n == Len(hints)
           away == [i \in 1 .. n |-> Away(bits, hints[i], hint)]
           m == 2 ^ (bits - 1)
<1>1. n \in Nat /\ DOMAIN hints = 1 .. n /\ hint \in Int /\ \A i \in 1 .. n : hints[i] \in Int
  OBVIOUS
<1> HIDE DEF n
<1>2. ASSUME NEW i \in 1 .. n
      PROVE  /\ m \in Nat \ {0} /\ away[i] \in -m .. m-1 /\ away[i] > -m
             /\ away[i] = RelativeDist(bits, hints[i], hint)
             /\ away[i] = Away(bits, hints[i], hint)
  <2>1. /\ m \in Nat \ {0} /\ RelativeDist(bits, hints[i], hint) \in -m .. m-1
        /\ Away(bits, hints[i], hint) = RelativeDist(bits, hints[i], hint)
    <3> HIDE DEF m
    <3> QED
      BY <1>1, Distances DEF m
  <2>2. Away(bits, hints[i], hint) > -m
    BY <1>1 DEF HintsInRange
  <2>3. away[i] = Away(bits, hints[i], hint)
    BY Zenon
  <2> HIDE DEF m, away
  <2>4. away[i] > -m
    BY ONLY <2>2, <2>3, ZenonT(30)
  <2>5. away[i] \in -m .. m-1 /\ away[i] = RelativeDist(bits, hints[i], hint)
    BY ONLY <2>1, <2>3, ZenonT(30)
  <2> QED
    BY <2>1, <2>3, <2>4, <2>5, Zenon
<1>3. ASSUME NEW i \in 1 .. n, NEW j \in 1 .. n, away[i] - away[j] \in -m .. m-1
      PROVE  RelativeDist(bits, hints[i], hints[j]) = away[i] - away[j]
  <2>1. /\ away[i] = RelativeDist(bits, hints[i], hint)
        /\ away[j] = RelativeDist(bits, hints[j], hint)
    BY <1>2
  <2>2. hints[i] \in Int /\ hints[j] \in Int
    BY <1>1
  <2> HIDE DEF away
  <2>3. RelativeDist(bits, hints[i], hint) - RelativeDist(bits, hints[j], hint) \in -m .. m-1
    BY <1>3, <2>1
  <2>4. RelativeDist(bits, hints[i], hints[j])
          = RelativeDist(bits, hints[i], hint) - RelativeDist(bits, hints[j], hint)
    BY <1>1, <2>2, <2>3, DistancesSubtract
  <2> QED
    BY <2>1, <2>4
<1> HIDE DEF away
<1>4. ASSUME NEW i \in 1 .. n, NEW j \in 1 .. n,
             \/ away[i] < 0 /\ away[j] < 0
             \/ away[i] > 0 /\ away[j] > 0
             \/ away[i] = 0 /\ away[j] < 0
      PROVE  RelativeDist(bits, hints[i], hints[j]) = away[i] - away[j]
  <2>1. /\ m \in Nat \ {0} /\ away[i] \in -m .. m-1 /\ away[i] > -m
        /\ away[j] \in -m .. m-1 /\ away[j] > -m
    BY <1>2
  <2> HIDE DEF m
  <2>2. away[i] - away[j] \in -m .. m-1
    <3> DEFINE x == away[i]  y == away[j]
    <3>1. /\ m \in Nat \ {0} /\ x \in -m .. m-1 /\ x > -m /\ y \in -m .. m-1 /\ y > -m
          /\ (x < 0 /\ y < 0) \/ (x > 0 /\ y > 0) \/ (x = 0 /\ y < 0)
      BY <1>4, <2>1
    <3> HIDE DEF x, y
    <3>2. x - y \in -m .. m-1
      BY <3>1
    <3> QED
      BY <3>2 DEF x, y
  <2> QED
    BY <1>3, <2>2 DEF m
<1>5. away \in [1 .. n -> Int]
  <2>1. \A i \in 1 .. n : away[i] \in Int
    <3> SUFFICES ASSUME NEW i \in 1 .. n PROVE away[i] \in Int
      OBVIOUS
    <3>1. m \in Nat \ {0} /\ away[i] \in -m .. m-1
      BY <1>2
    <3> HIDE DEF m
    <3> QED
      BY <3>1
  <2> QED
    BY <2>1 DEF away
<1>6. AreDistances(bits, hints, hint, away)
  BY <1>2, <1>4, <1>5 DEF AreDistances, n
<1> QED
  BY <1>6 DEF away, n

\* The first pass finds the first of the nearest on each side.
LEMMA FirstPass ==
  ASSUME NEW bits, NEW hints \in Seq(Nat), NEW hint, NEW away,
         AreDistances(bits, hints, hint, away)
  PROVE  LET n == Len(hints)
             found == ForwardBackward(bits, hints, hint)
         IN /\ IsFirstGreatest(found.fwd, Past(n, away), away)
            /\ IsFirstGreatest(found.bwd, Future(n, away), [i \in 1 .. n |-> -away[i]])
<1> DEFINE n == Len(hints)
           found == ForwardBackward(bits, hints, hint)
           past == Past(n, away)
           future == Future(n, away)
           back == [i \in 1 .. n |-> -away[i]]
           S == [fwd : 0 .. n, bwd : 0 .. n]
<1>1. n \in Nat
  OBVIOUS
<1>2. /\ away \in [1 .. n -> Int]
      /\ \A i \in 1 .. n : away[i] = RelativeDist(bits, hints[i], hint)
      /\ \A i, j \in 1 .. n :
          \/ away[i] < 0 /\ away[j] < 0
          \/ away[i] > 0 /\ away[j] > 0
          => RelativeDist(bits, hints[i], hints[j]) = away[i] - away[j]
  BY DEF AreDistances
<1>3. PICK h : IsNearing(h, bits, hints, hint)
  BY NearerInTurn
<1>4. /\ h[0] = [fwd |-> 0, bwd |-> 0]
      /\ \A k \in 1 .. n : h[k] = Nearer(bits, hints, hint, h[k-1], k)
      /\ found = h[n]
  BY <1>3 DEF IsNearing
<1> HIDE DEF n, found
<1>5. /\ past \in SUBSET (1 .. n) /\ future \in SUBSET (1 .. n)
      /\ \A i \in 1 .. n : (i \in past <=> away[i] < 0) /\ (i \in future <=> away[i] > 0)
      /\ back \in [1 .. n -> Int] /\ \A i \in 1 .. n : back[i] = -away[i]
  BY <1>2 DEF Past, Future
<1> HIDE DEF past, future, back
<1> DEFINE Inv(k, c) == /\ c \in S
                        /\ IsFirstGreatest(c.fwd, past \cap (1 .. k), away)
                        /\ IsFirstGreatest(c.bwd, future \cap (1 .. k), back)
           T == {k \in 0 .. n : Inv(k, h[k])}
<1>6. 0 \in T
  <2>1. past \cap (1 .. 0) = {} /\ future \cap (1 .. 0) = {} /\ 0 \in 0 .. n
    BY <1>1
  <2>2. h[0] \in S /\ h[0].fwd = 0 /\ h[0].bwd = 0
    BY <1>4, <2>1
  <2> QED
    BY <2>1, <2>2 DEF IsFirstGreatest
<1>7. \A k \in 1 .. n : k - 1 \in T => k \in T
  <2> SUFFICES ASSUME NEW k \in 1 .. n, k - 1 \in T PROVE k \in T
    OBVIOUS
  <2> DEFINE c == h[k-1]
             d == h[k]
  <2>1. /\ c \in S
        /\ IsFirstGreatest(c.fwd, past \cap (1 .. k-1), away)
        /\ IsFirstGreatest(c.bwd, future \cap (1 .. k-1), back)
    OBVIOUS
  <2>2. d = Nearer(bits, hints, hint, c, k)
    BY <1>4
  <2> HIDE DEF c, d, T
  <2>3. /\ k \notin past => IsFirstGreatest(c.fwd, past \cap (1 .. k), away)
        /\ k \in past => IsFirstGreatest(IF c.fwd = 0 \/ away[k] > away[c.fwd] THEN k ELSE c.fwd,
                                         past \cap (1 .. k), away)
        /\ c.fwd = 0 \/ (c.fwd \in past /\ c.fwd \in 1 .. k-1)
    BY <1>1, <1>2, <1>5, <2>1, FirstGreatestSoFar
  <2>4. /\ k \notin future => IsFirstGreatest(c.bwd, future \cap (1 .. k), back)
        /\ k \in future => IsFirstGreatest(IF c.bwd = 0 \/ back[k] > back[c.bwd] THEN k ELSE c.bwd,
                                           future \cap (1 .. k), back)
        /\ c.bwd = 0 \/ (c.bwd \in future /\ c.bwd \in 1 .. k-1)
    BY <1>1, <1>2, <1>5, <2>1, FirstGreatestSoFar
  <2>5. away[k] \in Int /\ RelativeDist(bits, hints[k], hint) = away[k]
    BY <1>2
  <2>6. ASSUME k \in past PROVE Inv(k, h[k])
    <3>1. away[k] < 0 /\ k \notin future
      BY <1>5, <2>5, <2>6
    <3>2. c.fwd # 0 => (RelativeDist(bits, hints[k], hints[c.fwd]) > 0 <=> away[k] > away[c.fwd])
      <4> SUFFICES ASSUME c.fwd # 0
                   PROVE  RelativeDist(bits, hints[k], hints[c.fwd]) > 0 <=> away[k] > away[c.fwd]
        OBVIOUS
      <4>1. c.fwd \in 1 .. n /\ away[c.fwd] < 0 /\ away[c.fwd] \in Int
        BY <1>1, <1>2, <1>5, <2>3
      <4>2. RelativeDist(bits, hints[k], hints[c.fwd]) = away[k] - away[c.fwd]
        BY <1>2, <3>1, <4>1
      <4> QED
        BY <2>5, <4>1, <4>2
    <3>3. d = IF c.fwd = 0 \/ away[k] > away[c.fwd] THEN [c EXCEPT !.fwd = k] ELSE c
      BY <2>2, <2>5, <3>1, <3>2 DEF Nearer
    <3>4. d \in S /\ d.bwd = c.bwd
          /\ d.fwd = IF c.fwd = 0 \/ away[k] > away[c.fwd] THEN k ELSE c.fwd
      BY <1>1, <2>1, <3>3
    <3>5. Inv(k, d)
      BY <2>3, <2>4, <2>6, <3>1, <3>4
    <3> QED
      BY <3>5 DEF d
  <2>7. ASSUME k \in future PROVE Inv(k, h[k])
    <3>1. away[k] > 0 /\ k \notin past
      BY <1>5, <2>5, <2>7
    <3>2. c.bwd # 0 => (RelativeDist(bits, hints[k], hints[c.bwd]) < 0 <=> back[k] > back[c.bwd])
      <4> SUFFICES ASSUME c.bwd # 0
                   PROVE  RelativeDist(bits, hints[k], hints[c.bwd]) < 0 <=> back[k] > back[c.bwd]
        OBVIOUS
      <4>1. c.bwd \in 1 .. n /\ away[c.bwd] > 0 /\ away[c.bwd] \in Int
        BY <1>1, <1>2, <1>5, <2>4
      <4>2. RelativeDist(bits, hints[k], hints[c.bwd]) = away[k] - away[c.bwd]
        BY <1>2, <3>1, <4>1
      <4>3. back[k] = -away[k] /\ back[c.bwd] = -away[c.bwd]
        BY <1>5, <4>1
      <4> QED
        BY <2>5, <4>1, <4>2, <4>3, SMTT(40)
    <3>3. d = IF c.bwd = 0 \/ back[k] > back[c.bwd] THEN [c EXCEPT !.bwd = k] ELSE c
      BY <2>2, <2>5, <3>1, <3>2 DEF Nearer
    <3>4. d \in S /\ d.fwd = c.fwd
          /\ d.bwd = IF c.bwd = 0 \/ back[k] > back[c.bwd] THEN k ELSE c.bwd
      BY <1>1, <2>1, <3>3
    <3>5. Inv(k, d)
      BY <2>3, <2>4, <2>7, <3>1, <3>4
    <3> QED
      BY <3>5 DEF d
  <2>8. ASSUME k \notin past, k \notin future PROVE Inv(k, h[k])
    <3>1. d = c
      BY <1>5, <2>2, <2>5, <2>8 DEF Nearer
    <3>2. Inv(k, d)
      BY <2>1, <2>3, <2>4, <2>8, <3>1
    <3> QED
      BY <3>2 DEF d
  <2>9. Inv(k, h[k]) /\ k \in 0 .. n
    BY <1>1, <2>6, <2>7, <2>8
  <2> HIDE DEF Inv
  <2> QED
    BY <2>9 DEF T
<1>8. Inv(n, found)
  <2>1. 0 .. n \subseteq T
    <3> HIDE DEF T
    <3> QED
      BY <1>1, <1>6, <1>7, InductionUpTo
  <2>2. n \in 0 .. n
    BY <1>1
  <2> QED
    BY <1>4, <2>1, <2>2
<1>9. past \cap (1 .. n) = past /\ future \cap (1 .. n) = future
  BY <1>5
<1> QED
  BY <1>8, <1>9 DEF n, found, past, future, back

\* The second pass, if nothing is after the frame, finds the first of the
\* nearest that are farther back.
LEMMA SecondPass ==
  ASSUME NEW bits, NEW hints \in Seq(Nat), NEW hint, NEW away,
         AreDistances(bits, hints, hint, away),
         Future(Len(hints), away) = {}, NEW forward \in Past(Len(hints), away)
  PROVE  IsFirstGreatest(SecondForward(bits, hints, forward),
                         {i \in Past(Len(hints), away) : away[i] < away[forward]}, away)
<1> DEFINE n == Len(hints)
           second == SecondForward(bits, hints, forward)
           farther == {i \in Past(n, away) : away[i] < away[forward]}
<1>1. n \in Nat
  OBVIOUS
<1>2. /\ away \in [1 .. n -> Int]
      /\ \A i, j \in 1 .. n :
          \/ away[i] < 0 /\ away[j] < 0
          \/ away[i] = 0 /\ away[j] < 0
          => RelativeDist(bits, hints[i], hints[j]) = away[i] - away[j]
  BY DEF AreDistances
<1>3. PICK h : IsNearingSecond(h, bits, hints, forward)
  BY SecondInTurn
<1>4. /\ h[0] = 0
      /\ \A k \in 1 .. n : h[k] = NearerSecond(bits, hints, forward, h[k-1], k)
      /\ second = h[n]
  BY <1>3 DEF IsNearingSecond
<1>5. /\ forward \in 1 .. n /\ away[forward] \in Int /\ away[forward] < 0
      /\ \A i \in 1 .. n : away[i] \in Int /\ (away[i] < 0 \/ away[i] = 0)
  <2>1. forward \in 1 .. n /\ away[forward] < 0
    BY DEF Past
  <2>2. \A i \in 1 .. n : away[i] \in Int
    BY <1>2
  <2>3. \A i \in 1 .. n : ~(away[i] > 0)
    BY DEF Future
  <2>4. ASSUME NEW i \in 1 .. n PROVE away[i] < 0 \/ away[i] = 0
    <3> DEFINE x == away[i]
    <3>1. x \in Int /\ ~(x > 0)
      BY <2>2, <2>3
    <3> HIDE DEF x
    <3>2. x < 0 \/ x = 0
      BY <3>1
    <3> QED
      BY <3>2 DEF x
  <2> QED
    BY <2>1, <2>2, <2>4
<1>6. /\ farther \in SUBSET (1 .. n)
      /\ \A i \in 1 .. n : i \in farther <=> away[i] < away[forward]
      /\ \A i \in farther : away[i] < 0
  BY <1>5 DEF Past
<1> HIDE DEF n, second, farther
<1> DEFINE T == {k \in 0 .. n : IsFirstGreatest(h[k], farther \cap (1 .. k), away)}
<1>7. 0 \in T
  <2>1. farther \cap (1 .. 0) = {} /\ 0 \in 0 .. n
    BY <1>1
  <2> QED
    BY <1>4, <2>1 DEF IsFirstGreatest
<1>8. \A k \in 1 .. n : k - 1 \in T => k \in T
  <2> SUFFICES ASSUME NEW k \in 1 .. n, k - 1 \in T PROVE k \in T
    OBVIOUS
  <2> DEFINE c == h[k-1]
  <2>1. IsFirstGreatest(c, farther \cap (1 .. k-1), away)
    OBVIOUS
  <2>2. h[k] = NearerSecond(bits, hints, forward, c, k)
    BY <1>4
  <2> HIDE DEF c
  <2>3. /\ k \notin farther => IsFirstGreatest(c, farther \cap (1 .. k), away)
        /\ k \in farther => IsFirstGreatest(IF c = 0 \/ away[k] > away[c] THEN k ELSE c,
                                            farther \cap (1 .. k), away)
        /\ c = 0 \/ (c \in farther /\ c \in 1 .. k-1)
    BY <1>1, <1>2, <1>6, <2>1, FirstGreatestSoFar
  <2>4. RelativeDist(bits, hints[k], hints[forward]) < 0 <=> k \in farther
    <3>1. RelativeDist(bits, hints[k], hints[forward]) = away[k] - away[forward]
      BY <1>2, <1>5
    <3> QED
      BY <1>5, <1>6, <3>1
  <2>5. ASSUME k \in farther, c # 0
        PROVE  RelativeDist(bits, hints[k], hints[c]) > 0 <=> away[k] > away[c]
    <3>1. c \in 1 .. n /\ away[c] < 0 /\ away[k] < 0 /\ away[c] \in Int /\ away[k] \in Int
      BY <1>1, <1>5, <1>6, <2>3, <2>5
    <3>2. RelativeDist(bits, hints[k], hints[c]) = away[k] - away[c]
      BY <1>2, <3>1
    <3> QED
      BY <3>1, <3>2
  <2>6. h[k] = IF k \in farther /\ (c = 0 \/ away[k] > away[c]) THEN k ELSE c
    BY <2>2, <2>4, <2>5 DEF NearerSecond
  <2>7. IsFirstGreatest(h[k], farther \cap (1 .. k), away) /\ k \in 0 .. n
    BY <1>1, <2>3, <2>6
  <2> QED
    BY <2>7
<1>9. 0 .. n \subseteq T
  <2> HIDE DEF T
  <2> QED
    BY <1>1, <1>7, <1>8, InductionUpTo
<1>10. n \in 0 .. n /\ farther \cap (1 .. n) = farther
  <2>1. n \in 0 .. n
    BY <1>1
  <2>2. farther \cap (1 .. n) = farther
    BY <1>6
  <2> QED
    BY <2>1, <2>2
<1>11. IsFirstGreatest(second, farther, away)
  BY <1>4, <1>9, <1>10
<1> QED
  BY <1>11 DEF n, second, farther

LEMMA SkipModeRight ==
  ASSUME NEW bits \in 0 .. 8, NEW hints \in Seq(Nat), NEW hint \in Nat,
         HintsInRange(bits, hints, hint)
  PROVE  IsSkipModeFrames(SkipModeFrames(bits, hints, hint), bits, hints, hint)
<1> DEFINE pair == SkipModeFrames(bits, hints, hint)
           found == ForwardBackward(bits, hints, hint)
           other == IF found.fwd = 0 THEN 0
                    ELSE IF found.bwd # 0 THEN found.bwd
                    ELSE SecondForward(bits, hints, found.fwd)
<1>1. pair = IF other = 0 THEN <<0, 0>> ELSE <<Min({found.fwd, other}), Max({found.fwd, other})>>
  BY DEF SkipModeFrames
<1>2. CASE bits = 0
  <2>1. found.fwd = 0
    BY <1>2, NoHints
  <2> QED
    BY <1>1, <1>2, <2>1 DEF IsSkipModeFrames
<1>3. ASSUME bits # 0 PROVE IsSkipModeFrames(pair, bits, hints, hint)
  <2> DEFINE n == Len(hints)
             away == [i \in 1 .. n |-> Away(bits, hints[i], hint)]
             back == [i \in 1 .. n |-> -away[i]]
             past == Past(n, away)
             future == Future(n, away)
             Nearest(S) == Min({x \in S : \A y \in S : away[x] * away[x] <= away[y] * away[y]})
             farther == {i \in past : away[i] < away[Nearest(past)]}
             others == IF future # {} THEN future ELSE farther
  <2>1. bits \in 1 .. 8
    BY <1>3
  <2>2. AreDistances(bits, hints, hint, away)
    BY <2>1, DistancesInRange
  <2>3. n \in Nat /\ DOMAIN hints = 1 .. n
    OBVIOUS
  <2>4. away \in [1 .. n -> Int] /\ \A i \in 1 .. n : away[i] = Away(bits, hints[i], hint)
    BY <2>2 DEF AreDistances
  <2> HIDE DEF away
  <2>5. IsFirstGreatest(found.fwd, past, away) /\ IsFirstGreatest(found.bwd, future, back)
    BY <2>2, FirstPass
  <2>6. /\ past \in SUBSET (1 .. n) /\ future \in SUBSET (1 .. n) /\ back \in [1 .. n -> Int]
        /\ \A i \in past : away[i] < 0
        /\ \A i \in future : back[i] < 0 /\ back[i] = -away[i]
        /\ 0 \notin past /\ 0 \notin future
    <3>1. past \in SUBSET (1 .. n) /\ \A i \in past : away[i] < 0
      BY DEF Past
    <3>2. future \in SUBSET (1 .. n) /\ \A i \in future : away[i] > 0
      BY DEF Future
    <3>3. back \in [1 .. n -> Int] /\ \A i \in 1 .. n : back[i] = -away[i]
      BY <2>4
    <3> HIDE DEF past, future, back
    <3>4. \A i \in future : back[i] < 0 /\ back[i] = -away[i]
      <4> SUFFICES ASSUME NEW i \in future PROVE back[i] < 0 /\ back[i] = -away[i]
        OBVIOUS
      <4>1. i \in 1 .. n /\ away[i] > 0
        BY <3>2, Zenon
      <4>2. away[i] \in Int
        BY <2>4, <4>1
      <4>3. back[i] = -away[i]
        BY <3>3, <4>1, Zenon
      <4> DEFINE x == away[i]
      <4> HIDE DEF x
      <4>4. -x < 0
        BY <4>1, <4>2 DEF x
      <4> QED
        BY <4>3, <4>4, Zenon DEF x
    <3>5. 0 \notin 1 .. n
      BY <2>3
    <3> QED
      BY <3>1, <3>2, <3>3, <3>4, <3>5
  <2> HIDE DEF n, back
  <2>7. IsSkipModeFrames(pair, bits, hints, hint)
          <=> IF past = {} \/ others = {} THEN pair = <<0, 0>>
              ELSE pair = <<Min({Nearest(past), Nearest(others)}),
                            Max({Nearest(past), Nearest(others)})>>
    BY <1>3, <2>3, ZenonT(60) DEF IsSkipModeFrames, away, Past, Future
  <2> HIDE DEF pair, found, past, future
  <2>8. CASE past = {}
    <3>1. found.fwd = 0
      BY <2>5, <2>8 DEF IsFirstGreatest
    <3> QED
      BY <1>1, <2>7, <2>8, <3>1
  <2>9. CASE past # {}
    <3>1. found.fwd \in past /\ found.fwd # 0
      BY <2>5, <2>6, <2>9 DEF IsFirstGreatest
    <3>2. Nearest(past) = found.fwd
      <4>1. OnOneSide(past, away, away)
        BY <2>6 DEF OnOneSide
      <4> QED
        BY <2>3, <2>4, <2>5, <2>6, <2>9, <4>1, NearestIsFirst
    <3> HIDE DEF Nearest
    <3>3. CASE future # {}
      <4>1. found.bwd \in future /\ found.bwd # 0
        BY <2>5, <2>6, <3>3 DEF IsFirstGreatest
      <4>2. Nearest(future) = found.bwd
        <5>1. /\ n \in Nat /\ away \in [1 .. n -> Int] /\ back \in [1 .. n -> Int]
              /\ future \in SUBSET (1 .. n) /\ IsFirstGreatest(found.bwd, future, back)
          BY <2>3, <2>4, <2>5, <2>6
        <5>2. OnOneSide(future, away, back)
          BY <2>6 DEF OnOneSide
        <5> QED
          BY <3>3, <5>1, <5>2, NearestIsFirst DEF Nearest
      <4> QED
        BY <1>1, <2>7, <2>9, <3>1, <3>2, <3>3, <4>1, <4>2
    <3>4. CASE future = {}
      <4>1. found.bwd = 0 /\ other = SecondForward(bits, hints, found.fwd)
        BY <2>5, <3>1, <3>4 DEF IsFirstGreatest
      <4>2. IsFirstGreatest(other, farther, away)
        <5>1. farther = {i \in Past(n, away) : away[i] < away[found.fwd]}
          BY <3>2 DEF past
        <5> HIDE DEF farther, other
        <5> QED
          BY <2>2, <3>1, <3>4, <4>1, <5>1, SecondPass DEF past, future, n
      <4> HIDE DEF other
      <4>3. farther \in SUBSET (1 .. n) /\ 0 \notin farther /\ \A i \in farther : away[i] < 0
        BY <2>6
      <4> HIDE DEF farther
      <4>4. CASE farther = {}
        <5>1. other = 0
          BY <4>2, <4>4 DEF IsFirstGreatest
        <5> QED
          BY <1>1, <2>7, <3>4, <4>4, <5>1
      <4>5. CASE farther # {}
        <5>1. other # 0
          BY <4>2, <4>3, <4>5 DEF IsFirstGreatest
        <5>2. Nearest(farther) = other
          <6>1. OnOneSide(farther, away, away)
            BY <4>3 DEF OnOneSide
          <6> QED
            BY <2>3, <2>4, <4>2, <4>3, <4>5, <6>1, NearestIsFirst DEF Nearest
        <5> QED
          BY <1>1, <2>7, <2>9, <3>2, <3>4, <4>5, <5>1, <5>2
      <4> QED
        BY <4>4, <4>5
    <3> QED
      BY <3>3, <3>4
  <2> QED
    BY <2>8, <2>9
<1> QED
  BY <1>2, <1>3

-----------------------------------------------------------------------------
(* The framed picture.                                                     *)

\* What there is in the buffer after each unit, and how much.
IsFraming(h, units, size) ==
  /\ h[0] = << >>
  /\ \A k \in 1 .. Len(units) : h[k] = StoreBuffer(h[k-1], units[k], size)
  /\ Framed(units, size) = h[Len(units)]

LEMMA FramedInTurn ==
  ASSUME NEW U, NEW units \in Seq(U), U \subseteq Seq(0 .. 255), NEW size
  PROVE  \E h : IsFraming(h, units, size)
<1> DEFINE n == Len(units)
           list == units
           S == Seq(0 .. 255)
           base == << >>
           step == [p \in (1 .. n) \X S |-> StoreBuffer(p[2], list[p[1]], size)]
           Body(g) == [s \in SUBSET (DOMAIN list) |->
                         IF s = {} THEN base ELSE StoreBuffer(g[s \ {Max(s)}], list[Max(s)], size)]
<1>1. n \in Nat /\ DOMAIN list = 1 .. n /\ \A k \in 1 .. n : list[k] \in S
  OBVIOUS
<1>2. base \in S
  OBVIOUS
<1>3. ASSUME NEW c \in S, NEW k \in 1 .. n PROVE StoreBuffer(c, list[k], size) \in S
  <2>1. StartCode \in S
    BY DEF StartCode
  <2>2. list[k] \in S
    BY <1>1
  <2>3. c \o StartCode \in S
    BY <2>1
  <2>4. c \o StartCode \o list[k] \in S
    BY <2>2, <2>3
  <2> QED
    BY <2>4 DEF StoreBuffer
<1>5. PICK g \in [SUBSET (1 .. n) -> S] : IsFold(g, n, base, step)
  <2>1. \E g \in [SUBSET (1 .. n) -> S] : IsFold(g, n, base, step)
    <3>1. step \in [(1 .. n) \X S -> S]
      <4> HIDE DEF S, n, list
      <4> QED
        BY <1>1, <1>3
    <3> HIDE DEF S, n, base, step
    <3> QED
      BY <1>1, <1>2, <3>1, FoldExists
  <2> QED
    BY <2>1
<1>6. g = Body(g)
  <2>1. ASSUME NEW s \in SUBSET (1 .. n), s # {}
        PROVE  step[<<Max(s), g[s \ {Max(s)}]>>] = StoreBuffer(g[s \ {Max(s)}], list[Max(s)], size)
    <3>1. Max(s) \in 1 .. n /\ g[s \ {Max(s)}] \in S
      <4> HIDE DEF S, n, list
      <4> QED
        BY <1>1, <1>5, <2>1, GreatestOf
    <3> HIDE DEF S, n, list
    <3> QED
      BY <3>1
  <2> HIDE DEF S, n, step, base, list
  <2> QED
    BY <1>1, <1>5, <2>1 DEF IsFold
<1> DEFINE it == CHOOSE f : f = Body(f)
<1>7. it = Body(it)
  <2> HIDE DEF Body
  <2> QED
    BY <1>6
<1>8. Framed(units, size) = it[DOMAIN list]
  BY DEF Framed, FoldLeft, MapThenFoldSet
<1> DEFINE h == [k \in 0 .. n |-> it[1 .. k]]
<1>9. h[0] = base
  <2>1. 1 .. 0 = {} /\ {} \in SUBSET DOMAIN list /\ 0 \in 0 .. n
    BY <1>1
  <2> HIDE DEF it, list
  <2> QED
    BY <1>7, <2>1
<1>10. ASSUME NEW k \in 1 .. n PROVE h[k] = StoreBuffer(h[k-1], list[k], size)
  <2>1. /\ Max(1 .. k) = k /\ (1 .. k) \ {Max(1 .. k)} = 1 .. k-1
        /\ 1 .. k \in SUBSET DOMAIN list /\ 1 .. k # {} /\ k \in 0 .. n /\ k - 1 \in 0 .. n
    BY <1>1, GreatestUpTo, SMTT(40)
  <2> HIDE DEF it, n, list
  <2> QED
    BY <1>7, <2>1
<1>11. h[n] = it[DOMAIN list]
  <2> HIDE DEF it, list
  <2> QED
    BY <1>1
<1> HIDE DEF h, it, n, list
<1> QED
  BY <1>1, <1>8, <1>9, <1>10, <1>11 DEF n, list, IsFraming

IsSizing(h, units) ==
  /\ h[0] = 0
  /\ \A k \in 1 .. Len(units) : h[k] = h[k-1] + Len(StartCode) + Len(units[k])
  /\ FramedSize(units) = h[Len(units)]

LEMMA SizesInTurn ==
  ASSUME NEW U, NEW units \in Seq(U), \A u \in U : Len(u) \in Nat
  PROVE  \E h : IsSizing(h, units)
<1> DEFINE n == Len(units)
           list == units
           S == Nat
           base == 0
           step == [p \in (1 .. n) \X S |-> p[2] + Len(StartCode) + Len(list[p[1]])]
           Body(g) == [s \in SUBSET (DOMAIN list) |->
                         IF s = {} THEN base ELSE g[s \ {Max(s)}] + Len(StartCode) + Len(list[Max(s)])]
<1>1. n \in Nat /\ DOMAIN list = 1 .. n /\ \A k \in 1 .. n : Len(list[k]) \in Nat
  OBVIOUS
<1>2. base \in S
  OBVIOUS
<1>3. ASSUME NEW c \in S, NEW k \in 1 .. n PROVE c + Len(StartCode) + Len(list[k]) \in S
  <2>1. Len(StartCode) = 4
    BY DEF StartCode
  <2> HIDE DEF list
  <2> QED
    BY <1>1, <2>1
<1>5. PICK g \in [SUBSET (1 .. n) -> S] : IsFold(g, n, base, step)
  <2>1. \E g \in [SUBSET (1 .. n) -> S] : IsFold(g, n, base, step)
    <3>1. step \in [(1 .. n) \X S -> S]
      <4> HIDE DEF S, n, list
      <4> QED
        BY <1>1, <1>3
    <3> HIDE DEF S, n, base, step
    <3> QED
      BY <1>1, <1>2, <3>1, FoldExists
  <2> QED
    BY <2>1
<1>6. g = Body(g)
  <2>1. ASSUME NEW s \in SUBSET (1 .. n), s # {}
        PROVE  step[<<Max(s), g[s \ {Max(s)}]>>] = g[s \ {Max(s)}] + Len(StartCode) + Len(list[Max(s)])
    <3>1. Max(s) \in 1 .. n /\ g[s \ {Max(s)}] \in S
      <4> HIDE DEF S, n, list
      <4> QED
        BY <1>1, <1>5, <2>1, GreatestOf
    <3> HIDE DEF S, n, list
    <3> QED
      BY <3>1
  <2> HIDE DEF S, n, step, base, list
  <2> QED
    BY <1>1, <1>5, <2>1 DEF IsFold
<1> DEFINE it == CHOOSE f : f = Body(f)
<1>7. it = Body(it)
  <2> HIDE DEF Body
  <2> QED
    BY <1>6
<1>8. FramedSize(units) = it[DOMAIN list]
  BY DEF FramedSize, FoldLeft, MapThenFoldSet
<1> DEFINE h == [k \in 0 .. n |-> it[1 .. k]]
<1>9. h[0] = base
  <2>1. 1 .. 0 = {} /\ {} \in SUBSET DOMAIN list /\ 0 \in 0 .. n
    BY <1>1
  <2> HIDE DEF it, list
  <2> QED
    BY <1>7, <2>1
<1>10. ASSUME NEW k \in 1 .. n PROVE h[k] = h[k-1] + Len(StartCode) + Len(list[k])
  <2>1. /\ Max(1 .. k) = k /\ (1 .. k) \ {Max(1 .. k)} = 1 .. k-1
        /\ 1 .. k \in SUBSET DOMAIN list /\ 1 .. k # {} /\ k \in 0 .. n /\ k - 1 \in 0 .. n
    BY <1>1, GreatestUpTo
  <2> HIDE DEF it, n, list
  <2> QED
    BY <1>7, <2>1
<1>11. h[n] = it[DOMAIN list]
  <2> HIDE DEF it, list
  <2> QED
    BY <1>1
<1> HIDE DEF h, it, n, list
<1> QED
  BY <1>1, <1>8, <1>9, <1>10, <1>11 DEF n, list, IsSizing

\* Where the units begin in the buffer: zeros are followed by a byte below 3 at
\* the start codes and nowhere else, and the last byte is not zero.
IsLayout(data, units, k, at) ==
  /\ data \in Seq(0 .. 255)
  /\ IF k > 0 THEN Len(data) > 0 /\ data[Len(data)] # 0 ELSE Len(data) = 0
  /\ \A j \in 1 .. k :
       /\ at[j] + 5 <= Len(data)
       /\ data[at[j] + 1] = 0 /\ data[at[j] + 2] = 0 /\ data[at[j] + 3] = 0
       /\ data[at[j] + 4] = 1 /\ data[at[j] + 5] = units[j][1]
  /\ \A i \in 1 .. Len(data) - 2 :
       data[i] = 0 /\ data[i+1] = 0 /\ data[i+2] < 3
         => \E j \in 1 .. k : i = at[j] + 1 \/ i = at[j] + 2

IsJoin(r, s, t) ==
  /\ Len(r) = Len(s) + Len(t)
  /\ \A i \in 1 .. Len(s) : r[i] = s[i]
  /\ \A i \in 1 .. Len(t) : r[Len(s) + i] = t[i]

LEMMA Joined ==
  ASSUME NEW A, NEW s \in Seq(A), NEW t \in Seq(A)
  PROVE  s \o t \in Seq(A) /\ Len(s) \in Nat /\ Len(t) \in Nat /\ IsJoin(s \o t, s, t)
<1> DEFINE m == Len(s)
           n == Len(t)
           r == s \o t
<1>1. m \in Nat /\ n \in Nat /\ r \in Seq(A) /\ Len(r) = m + n
  OBVIOUS
<1>2. \A i \in 1 .. m + n : r[i] = IF i <= m THEN s[i] ELSE t[i - m]
  BY ConcatProperties
<1> HIDE DEF m, n, r
<1>3. ASSUME NEW i \in 1 .. m PROVE r[i] = s[i]
  <2>1. i \in 1 .. m + n /\ i <= m
    BY <1>1
  <2> QED
    BY <1>2, <2>1
<1>4. ASSUME NEW i \in 1 .. n PROVE r[m + i] = t[i]
  <2>1. m + i \in 1 .. m + n /\ ~(m + i <= m) /\ m + i - m = i
    BY <1>1
  <2>2. r[m + i] = t[m + i - m]
    BY <1>1, <1>2, <2>1
  <2> QED
    BY <2>1, <2>2
<1> QED
  BY <1>1, <1>3, <1>4 DEF IsJoin, m, n, r

IsStored(e, d, u) ==
  LET m == Len(d)
      n == Len(u)
  IN /\ e \in Seq(0 .. 255) /\ Len(e) = m + 4 + n
     /\ \A i \in 1 .. m : e[i] = d[i]
     /\ e[m+1] = 0 /\ e[m+2] = 0 /\ e[m+3] = 0 /\ e[m+4] = 1
     /\ \A i \in 1 .. n : e[m + 4 + i] = u[i]

LEMMA Stored ==
  ASSUME NEW d \in Seq(0 .. 255), NEW u \in Seq(0 .. 255)
  PROVE  IsStored(d \o StartCode \o u, d, u)
<1> DEFINE m == Len(d)
           n == Len(u)
           e == d \o StartCode \o u
<1> DEFINE c == d \o StartCode
           B == 0 .. 255
<1>1. /\ StartCode \in Seq(B) /\ Len(StartCode) = 4
      /\ StartCode[1] = 0 /\ StartCode[2] = 0 /\ StartCode[3] = 0 /\ StartCode[4] = 1
  BY DEF StartCode
<1> HIDE DEF B
<1>2. /\ c \in Seq(B) /\ Len(c) = m + 4 /\ m \in Nat
      /\ \A i \in 1 .. m : c[i] = d[i]
      /\ \A i \in 1 .. 4 : c[m + i] = StartCode[i]
  <2>1. d \in Seq(B)
    BY DEF B
  <2>2. c \in Seq(B) /\ Len(d) \in Nat /\ IsJoin(c, d, StartCode)
    BY <1>1, <2>1, Joined
  <2> HIDE DEF c
  <2> QED
    BY <1>1, <2>2 DEF IsJoin
<1> HIDE DEF c
<1>3. /\ c \o u \in Seq(B) /\ Len(c \o u) = m + 4 + n /\ n \in Nat
      /\ \A i \in 1 .. m + 4 : (c \o u)[i] = c[i]
      /\ \A i \in 1 .. n : (c \o u)[m + 4 + i] = u[i]
  <2>1. u \in Seq(B)
    BY DEF B
  <2>2. c \o u \in Seq(B) /\ Len(u) \in Nat /\ IsJoin(c \o u, c, u)
    BY <1>2, <2>1, Joined
  <2> QED
    BY <1>2, <2>2 DEF IsJoin
<1>4. e = c \o u
  BY DEF c
<1>5. /\ m + 1 \in 1 .. m + 4 /\ m + 2 \in 1 .. m + 4 /\ m + 3 \in 1 .. m + 4 /\ m + 4 \in 1 .. m + 4
      /\ \A i \in 1 .. m : i \in 1 .. m + 4
      /\ 1 \in 1 .. 4 /\ 2 \in 1 .. 4 /\ 3 \in 1 .. 4 /\ 4 \in 1 .. 4
  BY <1>2
<1>6. \A i \in 1 .. m : e[i] = d[i]
  BY <1>2, <1>3, <1>4, <1>5
<1>7. e[m+1] = 0 /\ e[m+2] = 0 /\ e[m+3] = 0 /\ e[m+4] = 1
  BY <1>1, <1>2, <1>3, <1>4, <1>5, SMTT(40)
<1>8. /\ e \in Seq(0 .. 255) /\ Len(e) = m + 4 + n
      /\ \A i \in 1 .. n : e[m + 4 + i] = u[i]
  BY <1>3, <1>4 DEF B
<1> HIDE DEF m, n, e
<1>9. IsStored(e, d, u)
  BY <1>6, <1>7, <1>8 DEF IsStored, m, n
<1> QED
  BY <1>9 DEF e

LEMMA LayoutGrows ==
  ASSUME NEW units \in Seq(Seq(0 .. 255) \ {<< >>}), NEW k \in 1 .. Len(units),
         IsUnit(units[k]), NEW at \in [1 .. Len(units) -> Nat], NEW d, at[k] = Len(d),
         IsLayout(d, units, k - 1, at)
  PROVE  IsLayout(d \o StartCode \o units[k], units, k, at)
<1> DEFINE u == units[k]
           e == d \o StartCode \o u
           m == Len(d)
           n == Len(u)
<1>1. /\ u \in Seq(0 .. 255) /\ u # << >> /\ n \in Nat /\ n > 0 /\ k \in Nat
      /\ u[n] # 0 /\ \A i \in 1 .. n - 2 : u[i] = 0 /\ u[i+1] = 0 => u[i+2] >= 3
      /\ \A i \in 1 .. n : u[i] \in 0 .. 255
  <2>1. u \in Seq(0 .. 255) /\ u # << >> /\ k \in Nat
    OBVIOUS
  <2> HIDE DEF u
  <2>2. n \in Nat /\ n > 0
    BY <2>1, EmptySeq
  <2>4. \A i \in 1 .. n : u[i] \in 0 .. 255
    BY <2>1, ElementOfSeq
  <2>3. u[n] # 0 /\ \A i \in 1 .. n - 2 : u[i] = 0 /\ u[i+1] = 0 => u[i+2] >= 3
    BY DEF IsUnit, u
  <2> QED
    BY <2>1, <2>2, <2>3, <2>4
<1>2. /\ d \in Seq(0 .. 255) /\ m \in Nat
      /\ IF k - 1 > 0 THEN m > 0 /\ d[m] # 0 ELSE m = 0
      /\ \A j \in 1 .. k-1 :
           /\ at[j] + 5 <= m
           /\ d[at[j] + 1] = 0 /\ d[at[j] + 2] = 0 /\ d[at[j] + 3] = 0
           /\ d[at[j] + 4] = 1 /\ d[at[j] + 5] = units[j][1]
      /\ \A i \in 1 .. m - 2 :
           d[i] = 0 /\ d[i+1] = 0 /\ d[i+2] < 3
             => \E j \in 1 .. k-1 : i = at[j] + 1 \/ i = at[j] + 2
  BY DEF IsLayout
<1>3. /\ e \in Seq(0 .. 255) /\ Len(e) = m + 4 + n
      /\ \A i \in 1 .. m : e[i] = d[i]
      /\ e[m+1] = 0 /\ e[m+2] = 0 /\ e[m+3] = 0 /\ e[m+4] = 1
      /\ \A i \in 1 .. n : e[m + 4 + i] = u[i]
  <2> HIDE DEF u
  <2>1. IsStored(e, d, u)
    BY <1>1, <1>2, Stored
  <2> HIDE DEF e
  <2> QED
    BY <2>1 DEF IsStored
<1>4. at[k] = m /\ \A j \in 1 .. k : at[j] \in Nat
  <2>1. \A j \in 1 .. k : j \in 1 .. Len(units)
    OBVIOUS
  <2> QED
    BY <2>1
<1> HIDE DEF e, m, n, u
<1>5. Len(e) > 0 /\ e[Len(e)] # 0
  <2>1. n \in 1 .. n /\ Len(e) = m + 4 + n
    BY <1>1, <1>3
  <2>2. e[Len(e)] = u[n]
    BY <1>3, <2>1
  <2> QED
    BY <1>1, <1>2, <1>3, <2>2
<1>6. ASSUME NEW j \in 1 .. k
      PROVE  /\ at[j] + 5 <= Len(e)
             /\ e[at[j] + 1] = 0 /\ e[at[j] + 2] = 0 /\ e[at[j] + 3] = 0
             /\ e[at[j] + 4] = 1 /\ e[at[j] + 5] = units[j][1]
  <2>1. CASE j = k
    <3>1. 1 \in 1 .. n /\ e[m + 4 + 1] = u[1] /\ m + 4 + 1 = m + 5
      <4>1. 1 \in 1 .. n
        BY <1>1
      <4>2. e[m + 4 + 1] = u[1]
        BY <1>3, <4>1
      <4>3. m + 4 + 1 = m + 5
        <5>1. m \in Nat
          BY <1>4
        <5> QED
          BY <5>1
      <4> QED
        BY <4>1, <4>2, <4>3
    <3> QED
      BY <1>1, <1>2, <1>3, <1>4, <2>1, <3>1 DEF u
  <2>2. CASE j # k
    <3>1. j \in 1 .. k-1 /\ at[j] \in Nat
      BY <1>1, <1>4, <2>2
    <3>2. /\ at[j] + 5 <= m
          /\ d[at[j] + 1] = 0 /\ d[at[j] + 2] = 0 /\ d[at[j] + 3] = 0
          /\ d[at[j] + 4] = 1 /\ d[at[j] + 5] = units[j][1]
      BY <1>2, <3>1
    <3>3. /\ at[j] + 1 \in 1 .. m /\ at[j] + 2 \in 1 .. m /\ at[j] + 3 \in 1 .. m
          /\ at[j] + 4 \in 1 .. m /\ at[j] + 5 \in 1 .. m
      <4>1. m \in Nat /\ at[j] \in Nat /\ at[j] + 5 <= m
        BY <1>2, <3>1, <3>2
      <4>2. ASSUME NEW a \in Nat, NEW b \in Nat, a + 5 <= b
            PROVE  /\ a + 1 \in 1 .. b /\ a + 2 \in 1 .. b /\ a + 3 \in 1 .. b
                   /\ a + 4 \in 1 .. b /\ a + 5 \in 1 .. b
        BY <4>2
      <4> HIDE DEF m
      <4> QED
        BY <4>1, <4>2
    <3>4. at[j] + 5 <= Len(e)
      <4>1. /\ m \in Nat /\ n \in Nat /\ at[j] \in Nat /\ at[j] + 5 <= m
            /\ Len(e) = m + 4 + n
        BY <1>1, <1>2, <1>3, <3>1, <3>2
      <4> QED
        BY <4>1
    <3> QED
      BY <1>3, <3>2, <3>3, <3>4
  <2> QED
    BY <2>1, <2>2
<1>7. ASSUME NEW i \in 1 .. Len(e) - 2, e[i] = 0, e[i+1] = 0, e[i+2] < 3
      PROVE  \E j \in 1 .. k : i = at[j] + 1 \/ i = at[j] + 2
  <2>1. i \in Nat /\ i > 0 /\ i + 2 <= m + 4 + n /\ k \in 1 .. k
    BY <1>1, <1>2, <1>3
  <2> DEFINE Starts == \E j \in 1 .. k : i = at[j] + 1 \/ i = at[j] + 2
  <2>2. ASSUME i <= m - 2 PROVE Starts
    <3>1. i \in 1 .. m - 2 /\ i \in 1 .. m /\ i + 1 \in 1 .. m /\ i + 2 \in 1 .. m
      BY <1>2, <2>1, <2>2
    <3>2. d[i] = 0 /\ d[i+1] = 0 /\ d[i+2] < 3
      BY <1>3, <1>7, <3>1, ZenonT(60)
    <3>3. PICK j \in 1 .. k-1 : i = at[j] + 1 \/ i = at[j] + 2
      BY <1>2, <3>1, <3>2
    <3>4. j \in 1 .. k
      BY <1>1
    <3> QED
      BY <3>3, <3>4
  <2>3. ASSUME i = m - 1 \/ i = m PROVE Starts
    <3>1. m > 0 /\ m \in 1 .. m /\ e[m] = 0
      BY <1>2, <1>7, <2>1, <2>3, SMTT(40)
    <3>2. d[m] = 0
      BY <1>3, <3>1
    <3>3. k - 1 > 0
      BY <1>2, <3>1
    <3> QED
      BY <1>2, <3>2, <3>3
  <2>4. ASSUME i = m + 1 \/ i = m + 2 PROVE Starts
    BY <1>4, <2>1, <2>4
  <2>5. ASSUME i = m + 3 PROVE Starts
    <3>1. e[m+4] = 0
      BY <1>2, <1>7, <2>5
    <3> QED
      BY <1>3, <3>1, SMTT(40)
  <2>6. ASSUME i = m + 4 PROVE Starts
    BY <1>3, <1>7, <2>6, SMTT(40)
  <2>7. ASSUME i > m + 4 PROVE Starts
    <3> DEFINE p == i - m - 4
    <3>1. /\ p \in 1 .. n - 2 /\ p \in 1 .. n /\ p + 1 \in 1 .. n /\ p + 2 \in 1 .. n
          /\ i = m + 4 + p /\ i + 1 = m + 4 + (p + 1) /\ i + 2 = m + 4 + (p + 2)
      BY <1>1, <1>2, <2>1, <2>7
    <3> HIDE DEF p
    <3>2. u[p] = 0 /\ u[p+1] = 0 /\ u[p+2] < 3
      <4>1. e[i] = u[p] /\ e[i+1] = u[p+1] /\ e[i+2] = u[p+2]
        BY <1>3, <3>1
      <4> QED
        BY <1>7, <4>1
    <3>3. u[p+2] >= 3 /\ u[p+2] \in 0 .. 255
      BY <1>1, <3>1, <3>2, ZenonT(60)
    <3>4. FALSE
      <4> DEFINE z == u[p+2]
      <4>1. z < 3 /\ z >= 3 /\ z \in 0 .. 255
        BY <3>2, <3>3
      <4> HIDE DEF z
      <4> QED
        BY <4>1
    <3> QED
      BY <3>4
  <2> HIDE DEF Starts
  <2>8. \/ i <= m - 2
        \/ i = m - 1 \/ i = m
        \/ i = m + 1 \/ i = m + 2
        \/ i = m + 3
        \/ i = m + 4
        \/ i > m + 4
    <3>1. i \in Nat /\ m \in Nat
      BY <1>2, <2>1
    <3> QED
      BY <3>1
  <2>9. Starts
    BY <2>2, <2>3, <2>4, <2>5, <2>6, <2>7, <2>8
  <2> QED
    BY <2>9 DEF Starts
<1>8. IsLayout(e, units, k, at)
  BY <1>1, <1>3, <1>5, <1>6, <1>7 DEF IsLayout
<1> QED
  BY <1>8 DEF e, u

\* Where each unit begins.
IsLaidOut(at, units, size) ==
  /\ at \in [1 .. Len(units) -> Nat]
  /\ \A i, j \in 1 .. Len(units) : i < j => at[i] + 5 <= at[j]
  /\ IsLayout(Framed(units, size), units, Len(units), at)

LEMMA SizesGrow ==
  ASSUME NEW n \in Nat, NEW w, w[0] = 0, NEW len \in [1 .. n -> Nat \ {0}],
         \A k \in 1 .. n : w[k] = w[k-1] + 4 + len[k]
  PROVE  \A k \in 0 .. n : w[k] \in Nat /\ \A i \in 0 .. n : i < k => w[i] + 5 <= w[k]
<1> DEFINE T == {k \in 0 .. n : w[k] \in Nat
                   /\ \A i \in 0 .. n : i < k => w[i] \in Nat /\ w[i] + 5 <= w[k]}
<1>1. 0 \in T
  OBVIOUS
<1>2. \A k \in 1 .. n : k - 1 \in T => k \in T
  <2> SUFFICES ASSUME NEW k \in 1 .. n, k - 1 \in T PROVE k \in T
    OBVIOUS
  <2> DEFINE a == w[k-1]
  <2>1. a \in Nat /\ \A i \in 0 .. n : i < k - 1 => w[i] \in Nat /\ w[i] + 5 <= a
    OBVIOUS
  <2> HIDE DEF a, T
  <2>2. w[k] = a + 4 + len[k] /\ len[k] \in Nat \ {0}
    BY DEF a
  <2>3. w[k] \in Nat /\ a + 5 <= w[k] /\ k \in 0 .. n
    BY <2>1, <2>2
  <2>4. ASSUME NEW i \in 0 .. n, i < k PROVE w[i] \in Nat /\ w[i] + 5 <= w[k]
    <3>1. CASE i = k - 1
      BY <2>1, <2>3, <3>1 DEF a
    <3>2. CASE i # k - 1
      <4>1. i < k - 1
        BY <2>4, <3>2
      <4> DEFINE x == w[i]  z == w[k]
      <4>2. x \in Nat /\ x + 5 <= a
        BY <2>1, <4>1
      <4>3. a \in Nat /\ z \in Nat /\ a + 5 <= z
        BY <2>1, <2>3
      <4> HIDE DEF x, z
      <4>4. x \in Nat /\ x + 5 <= z
        BY <4>2, <4>3
      <4> QED
        BY <4>4 DEF x, z
    <3> QED
      BY <3>1, <3>2
  <2> QED
    BY <2>3, <2>4 DEF T
<1>3. 0 .. n \subseteq T
  <2> HIDE DEF T
  <2> QED
    BY <1>1, <1>2, InductionUpTo
<1> QED
  BY <1>3

LEMMA FramedLayout ==
  ASSUME NEW units, NEW size \in Nat, IsPicture(units, size)
  PROVE  \E at : IsLaidOut(at, units, size)
<1> DEFINE U == Seq(0 .. 255) \ {<< >>}
           n == Len(units)
<1>1. /\ units \in Seq(U) /\ FramedSize(units) <= size /\ n \in Nat
      /\ \A k \in 1 .. n : units[k] \in U /\ Len(units[k]) \in Nat \ {0} /\ IsUnit(units[k])
  <2>1. units \in Seq(U) /\ FramedSize(units) <= size /\ DOMAIN units = 1 .. n /\ n \in Nat
        /\ \A k \in DOMAIN units : IsUnit(units[k])
    BY DEF IsPicture
  <2>2. \A k \in 1 .. n : units[k] \in U
    BY <2>1, ElementOfSeq
  <2>3. \A u \in U : Len(u) \in Nat \ {0}
    BY EmptySeq
  <2> HIDE DEF U
  <2> QED
    BY <2>1, <2>2, <2>3
<1>2. U \subseteq Seq(0 .. 255) /\ \A u \in U : Len(u) \in Nat
  OBVIOUS
<1>3. PICK h : IsFraming(h, units, size)
  <2> HIDE DEF U
  <2> QED
    BY <1>1, <1>2, FramedInTurn
<1>4. PICK w : IsSizing(w, units)
  <2> HIDE DEF U
  <2> QED
    BY <1>1, <1>2, SizesInTurn
<1> HIDE DEF n
<1>5. /\ h[0] = << >>
      /\ \A k \in 1 .. n : h[k] = StoreBuffer(h[k-1], units[k], size)
      /\ Framed(units, size) = h[n]
  BY <1>3 DEF IsFraming, n
<1>6. /\ w[0] = 0
      /\ \A k \in 1 .. n : w[k] = w[k-1] + 4 + Len(units[k])
      /\ FramedSize(units) = w[n]
  <2>1. Len(StartCode) = 4
    BY DEF StartCode
  <2> QED
    BY <1>4, <2>1 DEF IsSizing, n
<1>7. \A k \in 0 .. n : w[k] \in Nat /\ \A i \in 0 .. n : i < k => w[i] + 5 <= w[k]
  <2> DEFINE len == [k \in 1 .. n |-> Len(units[k])]
  <2>1. len \in [1 .. n -> Nat \ {0}]
    BY <1>1
  <2>2. \A k \in 1 .. n : w[k] = w[k-1] + 4 + len[k]
    BY <1>6
  <2> HIDE DEF len
  <2> QED
    BY <1>1, <1>6, <2>1, <2>2, SizesGrow, ZenonT(60)
<1>8. \A k \in 0 .. n : w[k] <= size
  <2> SUFFICES ASSUME NEW k \in 0 .. n PROVE w[k] <= size
    OBVIOUS
  <2>1. n \in 0 .. n /\ w[n] <= size /\ w[n] \in Nat /\ w[k] \in Nat
    BY <1>1, <1>6, <1>7
  <2>2. k = n \/ k < n
    BY <1>1
  <2>3. k < n => w[k] + 5 <= w[n]
    BY <1>7, <2>1
  <2> QED
    BY <2>1, <2>2, <2>3
<1> DEFINE at == [j \in 1 .. n |-> w[j-1]]
<1>9. /\ at \in [1 .. n -> Nat]
      /\ \A i, j \in 1 .. n : i < j => at[i] + 5 <= at[j]
  <2>1. \A j \in 1 .. n : j - 1 \in 0 .. n
    BY <1>1
  <2>2. \A i, j \in 1 .. n : i < j => i - 1 < j - 1
    BY <1>1
  <2> QED
    BY <1>7, <2>1, <2>2
<1>10. \A j \in 1 .. n : at[j] = w[j-1]
  OBVIOUS
<1> HIDE DEF at
<1> DEFINE T == {k \in 0 .. n : Len(h[k]) = w[k] /\ IsLayout(h[k], units, k, at)}
<1>11. 0 \in T
  <2>1. IsLayout(<< >>, units, 0, at)
    BY DEF IsLayout
  <2>2. Len(<< >>) = 0 /\ 0 \in 0 .. n
    BY <1>1
  <2> QED
    BY <1>5, <1>6, <2>1, <2>2
<1>12. \A k \in 1 .. n : k - 1 \in T => k \in T
  <2> SUFFICES ASSUME NEW k \in 1 .. n, k - 1 \in T PROVE k \in T
    OBVIOUS
  <2> DEFINE d == h[k-1]
             u == units[k]
  <2>1. Len(d) = w[k-1] /\ IsLayout(d, units, k - 1, at)
    OBVIOUS
  <2>2. /\ h[k] = StoreBuffer(d, u, size) /\ w[k] = w[k-1] + 4 + Len(u)
        /\ w[k] <= size /\ k \in 0 .. n
    BY <1>1, <1>5, <1>6, <1>8
  <2>3. u \in Seq(0 .. 255) /\ IsUnit(u)
    BY <1>1
  <2>4. d \in Seq(0 .. 255)
    BY <2>1 DEF IsLayout
  <2>5. IsLayout(d \o StartCode \o u, units, k, at)
    BY <1>1, <1>9, <1>10, <2>1, <2>3, LayoutGrows, ZenonT(60) DEF n
  <2> HIDE DEF d, u
  <2>6. Len(d \o StartCode \o u) = Len(d) + 4 + Len(u)
    BY <2>3, <2>4, Stored DEF IsStored
  <2>7. Len(d) + Len(StartCode) + Len(u) = w[k]
    <3>1. Len(StartCode) = 4
      BY DEF StartCode
    <3> QED
      BY <2>1, <2>2, <3>1
  <2>8. w[k] \in Nat
    BY <1>7, <2>2
  <2>9. h[k] = d \o StartCode \o u
    BY <2>2, <2>7, <2>8 DEF StoreBuffer
  <2> QED
    BY <2>1, <2>2, <2>5, <2>6, <2>9
<1>13. 0 .. n \subseteq T
  <2> HIDE DEF T
  <2> QED
    BY <1>1, <1>11, <1>12, InductionUpTo
<1>14. n \in 0 .. n
  BY <1>1
<1>15. IsLaidOut(at, units, size)
  BY <1>5, <1>9, <1>13, <1>14 DEF IsLaidOut, n
<1> QED
  BY <1>15

\* In the framed picture a unit is found where one begins and nowhere else.
IsFound(d, units, at) ==
  /\ \A j \in 1 .. Len(units) :
       /\ at[j] + 1 \in DOMAIN d /\ at[j] + 2 \in DOMAIN d
       /\ UnitAt(d, at[j] + 1) = at[j] + 5 /\ UnitAt(d, at[j] + 2) = at[j] + 5
       /\ d[at[j] + 5] = units[j][1] /\ at[j] + 5 # 0
  /\ \A i \in DOMAIN d : UnitAt(d, i) # 0 =>
       \E j \in 1 .. Len(units) : i = at[j] + 1 \/ i = at[j] + 2
  /\ at \in [1 .. Len(units) -> Nat]
  /\ \A i, j \in 1 .. Len(units) : i < j => at[i] + 5 <= at[j]
  /\ DOMAIN d \subseteq Nat

LEMMA UnitsFound ==
  ASSUME NEW units \in Seq(Seq(0 .. 255) \ {<< >>}), NEW size \in Nat, NEW at,
         IsLaidOut(at, units, size)
  PROVE  IsFound(Framed(units, size), units, at)
<1> DEFINE d == Framed(units, size)
           n == Len(units)
<1>1. IsLayout(d, units, n, at) /\ at \in [1 .. n -> Nat]
      /\ \A i, j \in 1 .. n : i < j => at[i] + 5 <= at[j]
  BY DEF IsLaidOut
<1>2. d \in Seq(0 .. 255) /\ n \in Nat
  BY <1>1 DEF IsLayout
<1>3. /\ \A j \in 1 .. n :
           /\ at[j] + 5 <= Len(d)
           /\ d[at[j] + 1] = 0 /\ d[at[j] + 2] = 0 /\ d[at[j] + 3] = 0
           /\ d[at[j] + 4] = 1 /\ d[at[j] + 5] = units[j][1]
      /\ \A i \in 1 .. Len(d) - 2 :
           d[i] = 0 /\ d[i+1] = 0 /\ d[i+2] < 3 => \E j \in 1 .. n : i = at[j] + 1 \/ i = at[j] + 2
  BY <1>1 DEF IsLayout
<1> HIDE DEF d, n
<1>4. Len(d) \in Nat /\ DOMAIN d = 1 .. Len(d)
  BY <1>2
<1>5. ASSUME NEW j \in 1 .. n
      PROVE  /\ at[j] + 1 \in DOMAIN d /\ at[j] + 2 \in DOMAIN d
             /\ UnitAt(d, at[j] + 1) = at[j] + 5 /\ UnitAt(d, at[j] + 2) = at[j] + 5
             /\ d[at[j] + 5] = units[j][1] /\ at[j] + 5 # 0
  <2> DEFINE p == at[j]
  <2>1. p \in Nat /\ p + 5 <= Len(d)
    BY <1>1, <1>3
  <2>2. /\ d[p + 1] = 0 /\ d[p + 2] = 0 /\ d[p + 3] = 0
        /\ d[p + 4] = 1 /\ d[p + 5] = units[j][1]
    BY <1>3
  <2> HIDE DEF p
  <2>3. /\ p + 1 + 1 = p + 2 /\ p + 1 + 2 = p + 3 /\ p + 1 + 3 = p + 4 /\ p + 1 + 4 = p + 5
        /\ p + 2 + 1 = p + 3 /\ p + 2 + 2 = p + 4 /\ p + 2 + 3 = p + 5
        /\ p + 1 \in 1 .. Len(d) /\ p + 2 \in 1 .. Len(d)
        /\ ~(p + 4 > Len(d)) /\ ~(p + 5 > Len(d)) /\ p + 5 <= Len(d) /\ p + 5 # 0
    BY <1>4, <2>1
  <2>4. UnitAt(d, p + 1) = p + 5
    BY <2>2, <2>3 DEF UnitAt
  <2>5. UnitAt(d, p + 2) = p + 5
    BY <2>2, <2>3 DEF UnitAt
  <2> QED
    BY <1>4, <2>2, <2>3, <2>4, <2>5 DEF p
<1>6. ASSUME NEW i \in DOMAIN d, UnitAt(d, i) # 0
      PROVE  \E j \in 1 .. n : i = at[j] + 1 \/ i = at[j] + 2
  <2>1. /\ i + 3 <= Len(d) /\ d[i] = 0 /\ d[i+1] = 0
        /\ d[i+2] = 1 \/ d[i+2] = 0
    BY <1>4, <1>6 DEF UnitAt
  <2>2. i \in 1 .. Len(d) - 2 /\ d[i+2] < 3
    BY <1>4, <2>1
  <2> QED
    BY <1>3, <2>1, <2>2
<1>7. DOMAIN d \subseteq Nat
  BY <1>4
<1>8. IsFound(d, units, at)
  BY <1>1, <1>5, <1>6, <1>7 DEF IsFound, n
<1> QED
  BY <1>8 DEF d

\* The first place where a unit of these types is found is that of the first of
\* them.
Places(d, types) == {i \in DOMAIN d : UnitAt(d, i) # 0 /\ d[UnitAt(d, i)] \in types}
OfTypes(units, types) == {k \in DOMAIN units : units[k][1] \in types}

LEMMA FirstOfTypes ==
  ASSUME NEW units \in Seq(Seq(0 .. 255) \ {<< >>}), NEW d, NEW at, NEW types,
         IsFound(d, units, at)
  PROVE  /\ Places(d, types) = {} <=> OfTypes(units, types) = {}
         /\ OfTypes(units, types) # {} =>
              d[UnitAt(d, Min(Places(d, types)))] = units[Min(OfTypes(units, types))][1]
<1> DEFINE n == Len(units)
           P == Places(d, types)
           S == OfTypes(units, types)
<1>1. n \in Nat /\ DOMAIN units = 1 .. n
  OBVIOUS
<1>2. /\ \A j \in 1 .. n :
           /\ at[j] + 1 \in DOMAIN d /\ at[j] + 2 \in DOMAIN d
           /\ UnitAt(d, at[j] + 1) = at[j] + 5 /\ UnitAt(d, at[j] + 2) = at[j] + 5
           /\ d[at[j] + 5] = units[j][1] /\ at[j] + 5 # 0
      /\ \A i \in DOMAIN d : UnitAt(d, i) # 0 =>
           \E j \in 1 .. n : i = at[j] + 1 \/ i = at[j] + 2
      /\ at \in [1 .. n -> Nat]
      /\ \A i, j \in 1 .. n : i < j => at[i] + 5 <= at[j]
      /\ DOMAIN d \subseteq Nat
  BY DEF IsFound
<1>3. /\ \A k : k \in S <=> k \in 1 .. n /\ units[k][1] \in types
      /\ \A i : i \in P <=> i \in DOMAIN d /\ UnitAt(d, i) # 0 /\ d[UnitAt(d, i)] \in types
  BY <1>1 DEF OfTypes, Places
<1> HIDE DEF n, P, S
<1>4. ASSUME NEW k \in S PROVE at[k] + 1 \in P
  BY <1>2, <1>3, ZenonT(60)
<1>5. ASSUME NEW i \in P
      PROVE  \E k \in S : i = at[k] + 1 \/ i = at[k] + 2
  <2>1. PICK j \in 1 .. n : i = at[j] + 1 \/ i = at[j] + 2
    BY <1>2, <1>3
  <2>2. UnitAt(d, i) = at[j] + 5 /\ d[at[j] + 5] = units[j][1]
    BY <1>2, <2>1
  <2>3. j \in S
    BY <1>3, <2>2
  <2> QED
    BY <2>1, <2>3
<1>6. P = {} <=> S = {}
  BY <1>4, <1>5
<1>7. ASSUME S # {} PROVE d[UnitAt(d, Min(P))] = units[Min(S)][1]
  <2>1. S \subseteq Nat /\ P \subseteq Nat /\ P # {}
    <3>1. 1 .. n \subseteq Nat
      BY <1>1
    <3>2. S \subseteq 1 .. n /\ P \subseteq DOMAIN d
      BY <1>3
    <3> QED
      BY <1>2, <1>6, <1>7, <3>1, <3>2
  <2>2. Min(S) \in S /\ \A k \in S : Min(S) <= k
    BY <1>7, <2>1, LeastOf
  <2>3. Min(P) \in P /\ \A i \in P : Min(P) <= i
    BY <2>1, LeastOf
  <2> DEFINE f == Min(S)
             m == Min(P)
  <2>4. /\ f \in S /\ (\A k \in S : f <= k) /\ m \in P /\ \A i \in P : m <= i
    BY <2>2, <2>3
  <2> HIDE DEF f, m
  <2>5. PICK k \in S : m = at[k] + 1 \/ m = at[k] + 2
    BY <1>5, <2>4
  <2>6. f = k
    <3> SUFFICES ASSUME f # k PROVE FALSE
      OBVIOUS
    <3>1. f < k /\ f \in 1 .. n /\ k \in 1 .. n
      BY <1>3, <2>1, <2>4
    <3>2. at[f] + 5 <= at[k] /\ at[f] \in Nat /\ at[k] \in Nat
      BY <1>2, <3>1
    <3>3. m <= at[f] + 1
      BY <1>4, <2>4
    <3> QED
      BY <2>5, <3>2, <3>3
  <2>7. k \in 1 .. n
    BY <1>3
  <2>8. UnitAt(d, m) = at[k] + 5 /\ d[at[k] + 5] = units[k][1]
    BY <1>2, <2>5, <2>7
  <2> QED
    BY <2>6, <2>8 DEF f, m
<1> QED
  BY <1>6, <1>7 DEF P, S

\* Both searches for the first slice, for any units that fit the buffer.
LEMMA SliceFound ==
  ASSUME NEW units, NEW size \in Nat, IsPicture(units, size)
  PROVE  LET d    == Framed(units, size)
             byte == FirstSlice(units, HevcSlice, -1)
         IN /\ H264Header(d) = FirstSlice(units, H264Slice, 0)
            /\ HevcSliceType(d) = IF byte = -1 THEN 255 ELSE HevcType(byte)
<1> DEFINE d == Framed(units, size)
<1>1. units \in Seq(Seq(0 .. 255) \ {<< >>}) /\ Len(units) \in Nat
      /\ DOMAIN units = 1 .. Len(units)
  BY DEF IsPicture
<1>2. PICK at : IsLaidOut(at, units, size)
  BY FramedLayout
<1>3. IsFound(d, units, at)
  BY <1>1, <1>2, UnitsFound
<1>4. /\ Len(d) \in Nat
      /\ Len(units) = 0 => Len(d) = 0
      /\ Len(units) > 0 => Len(d) >= 5
  <2>1. IsLayout(d, units, Len(units), at) /\ at \in [1 .. Len(units) -> Nat]
    BY <1>2 DEF IsLaidOut
  <2> HIDE DEF d
  <2>2. /\ d \in Seq(0 .. 255)
        /\ Len(units) = 0 => Len(d) = 0
        /\ \A j \in 1 .. Len(units) : at[j] + 5 <= Len(d)
    <3>1. /\ d \in Seq(0 .. 255)
          /\ IF Len(units) > 0 THEN Len(d) > 0 /\ d[Len(d)] # 0 ELSE Len(d) = 0
          /\ \A j \in 1 .. Len(units) : at[j] + 5 <= Len(d)
      BY <2>1, Zenon DEF IsLayout
    <3>2. Len(units) = 0 => ~(Len(units) > 0)
      OBVIOUS
    <3> QED
      BY <3>1, <3>2, Zenon
  <2>3. Len(d) \in Nat
    BY <2>2
  <2>4. ASSUME Len(units) > 0 PROVE Len(d) >= 5
    <3>1. 1 \in 1 .. Len(units)
      BY <1>1, <2>4
    <3>2. at[1] \in Nat /\ at[1] + 5 <= Len(d)
      BY <2>1, <2>2, <3>1
    <3> QED
      BY <2>3, <3>2
  <2> QED
    BY <2>2, <2>3, <2>4
<1> HIDE DEF d
<1> DEFINE avc  == {b \in 0 .. 255 : H264Slice(b)}
           hevc == {b \in 0 .. 255 : HevcSlice(b)}
<1>5. \A k \in DOMAIN units : units[k][1] \in 0 .. 255
  <2> SUFFICES ASSUME NEW k \in DOMAIN units PROVE units[k][1] \in 0 .. 255
    OBVIOUS
  <2> DEFINE u == units[k]
  <2>1. u \in Seq(0 .. 255) /\ u # << >>
    BY <1>1
  <2> HIDE DEF u
  <2>2. Len(u) \in Nat /\ Len(u) > 0
    BY <2>1, EmptySeq
  <2>3. u[1] \in 0 .. 255
    <3>1. 1 \in 1 .. Len(u)
      BY <2>2
    <3> QED
      BY <2>1, <3>1, ElementOfSeq
  <2> QED
    BY <2>3 DEF u
<1>6. \A i \in DOMAIN d : UnitAt(d, i) # 0 => d[UnitAt(d, i)] \in 0 .. 255
  <2> SUFFICES ASSUME NEW i \in DOMAIN d, UnitAt(d, i) # 0 PROVE d[UnitAt(d, i)] \in 0 .. 255
    OBVIOUS
  <2>1. PICK j \in 1 .. Len(units) : i = at[j] + 1 \/ i = at[j] + 2
    BY <1>3 DEF IsFound
  <2>2. UnitAt(d, i) = at[j] + 5 /\ d[at[j] + 5] = units[j][1]
    BY <1>3, <2>1 DEF IsFound
  <2> QED
    BY <1>1, <1>5, <2>2
<1>7. /\ Places(d, avc) = {i \in DOMAIN d : UnitAt(d, i) # 0 /\ H264Slice(d[UnitAt(d, i)])}
      /\ Places(d, hevc) = {i \in DOMAIN d : UnitAt(d, i) # 0 /\ HevcSlice(d[UnitAt(d, i)])}
  BY <1>6 DEF Places
<1>8. /\ OfTypes(units, avc) = {k \in DOMAIN units : H264Slice(units[k][1])}
      /\ OfTypes(units, hevc) = {k \in DOMAIN units : HevcSlice(units[k][1])}
  BY <1>5 DEF OfTypes
<1> HIDE DEF avc, hevc
<1>9. \A types : /\ Places(d, types) = {} <=> OfTypes(units, types) = {}
                 /\ OfTypes(units, types) # {} =>
                      d[UnitAt(d, Min(Places(d, types)))] = units[Min(OfTypes(units, types))][1]
  BY <1>1, <1>3, FirstOfTypes
<1>10. FirstUnit(d, H264Slice, 0) = FirstSlice(units, H264Slice, 0)
  BY <1>7, <1>8, <1>9, Zenon DEF FirstUnit, FirstSlice
<1>11. FirstUnit(d, HevcSlice, -1) = FirstSlice(units, HevcSlice, -1)
  BY <1>7, <1>8, <1>9, Zenon DEF FirstUnit, FirstSlice
<1>12. Len(units) = 0 => /\ FirstSlice(units, H264Slice, 0) = 0
                         /\ FirstSlice(units, HevcSlice, -1) = -1
  <2>1. Len(units) = 0 => DOMAIN units = {}
    BY <1>1
  <2> QED
    BY <2>1, Zenon DEF FirstSlice
<1>13. H264Header(d) = FirstSlice(units, H264Slice, 0)
  <2>1. CASE Len(units) = 0
    <3>1. Len(d) < 4
      BY <1>4, <2>1
    <3> QED
      BY <1>12, <2>1, <3>1, Zenon DEF H264Header
  <2>2. CASE Len(units) > 0
    <3>1. ~(Len(d) < 4)
      BY <1>4, <2>2
    <3> QED
      BY <1>10, <3>1, Zenon DEF H264Header
  <2> QED
    BY <1>1, <2>1, <2>2
<1> DEFINE byte == FirstSlice(units, HevcSlice, -1)
<1>14. HevcSliceType(d) = IF byte = -1 THEN 255 ELSE HevcType(byte)
  <2>1. CASE Len(units) = 0
    <3>1. Len(d) < 5
      BY <1>4, <2>1
    <3> QED
      BY <1>12, <2>1, <3>1, Zenon DEF HevcSliceType
  <2>2. CASE Len(units) > 0
    <3>1. ~(Len(d) < 5)
      BY <1>4, <2>2
    <3> QED
      BY <1>11, <3>1, Zenon DEF HevcSliceType
  <2> QED
    BY <1>1, <2>1, <2>2
<1> QED
  BY <1>13, <1>14, Zenon DEF d

-----------------------------------------------------------------------------
(* A tile group.                                                           *)

Entries == [offset : Nat, size : Nat]
Groups  == [data : Seq(Nat \X Nat), tiles : Seq(Entries)]

LEMMA Filled ==
  ASSUME NEW n \in Nat, NEW i \in Nat
  PROVE  /\ Filler(n) \in Seq(Nat \X Nat) /\ Len(Filler(n)) = n
         /\ TileData(i, n) \in Seq(Nat \X Nat) /\ Len(TileData(i, n)) = n
         /\ \A p \in 1 .. n : TileData(i, n)[p] = <<i, p>>
<1>1. Filler(n) \in [1 .. n -> Nat \X Nat] /\ TileData(i, n) \in [1 .. n -> Nat \X Nat]
  BY DEF Filler, TileData
<1> QED
  BY <1>1 DEF TileData

\* How wide the size is that precedes a tile.
FieldOf(width, sizes, i) == IF i < Len(sizes) THEN width ELSE 0

IsTileWritten(r, g, width, sizes, i) ==
  LET m == Len(g.data) + FieldOf(width, sizes, i)
      n == Len(g.tiles)
  IN /\ r \in Groups
     /\ Len(r.data) = m + sizes[i]
     /\ \A p \in 1 .. Len(g.data) : r.data[p] = g.data[p]
     /\ \A p \in 1 .. sizes[i] : r.data[m + p] = <<i, p>>
     /\ Len(r.tiles) = n + 1
     /\ \A j \in 1 .. n : r.tiles[j] = g.tiles[j]
     /\ r.tiles[n + 1] = [offset |-> m, size |-> sizes[i]]

LEMMA TileWritten ==
  ASSUME NEW width \in Nat, NEW sizes \in Seq(Nat), NEW i \in 1 .. Len(sizes), NEW g \in Groups
  PROVE  IsTileWritten(WriteTile(width, sizes, g, i), g, width, sizes, i)
<1> DEFINE r == WriteTile(width, sizes, g, i)
           f == FieldOf(width, sizes, i)
           n == sizes[i]
           d == g.data
           t == g.tiles
           D == Nat \X Nat
           x == Filler(f)
           y == TileData(i, n)
           e == [offset |-> Len(d) + f, size |-> n]
<1>1. f \in Nat /\ n \in Nat /\ d \in Seq(D) /\ t \in Seq(Entries) /\ i \in Nat
      /\ Len(d) \in Nat /\ Len(t) \in Nat
  BY DEF FieldOf, Groups
<1>2. r = [data |-> d \o x \o y, tiles |-> Append(t, e)]
  BY DEF WriteTile, FieldOf
<1>3. /\ x \in Seq(D) /\ Len(x) = f
      /\ y \in Seq(D) /\ Len(y) = n /\ \A p \in 1 .. n : y[p] = <<i, p>>
  <2> HIDE DEF f, n
  <2> QED
    BY <1>1, Filled
<1>4. e \in Entries
  <2> HIDE DEF f, n, d
  <2> QED
    BY <1>1 DEF Entries
<1> HIDE DEF D, f, n, x, y, d, t, r
<1>5. d \o x \in Seq(D) /\ IsJoin(d \o x, d, x) /\ d \o x \o y \in Seq(D) /\ IsJoin(d \o x \o y, d \o x, y)
  BY <1>1, <1>3, Joined
<1>6. /\ Len(d \o x) = Len(d) + f
      /\ \A p \in 1 .. Len(d) : (d \o x)[p] = d[p]
      /\ Len(d \o x \o y) = Len(d) + f + n
      /\ \A p \in 1 .. Len(d) + f : (d \o x \o y)[p] = (d \o x)[p]
      /\ \A p \in 1 .. n : (d \o x \o y)[Len(d) + f + p] = y[p]
  <2> DEFINE c == d \o x
             z == c \o y
  <2>1. c \in Seq(D) /\ IsJoin(c, d, x) /\ z \in Seq(D) /\ IsJoin(z, c, y)
    BY <1>5
  <2> HIDE DEF c, z
  <2>2. /\ Len(c) = Len(d) + f
        /\ \A p \in 1 .. Len(d) : c[p] = d[p]
        /\ Len(z) = Len(d) + f + n
        /\ \A p \in 1 .. Len(d) + f : z[p] = c[p]
        /\ \A p \in 1 .. n : z[Len(d) + f + p] = y[p]
    BY <1>1, <1>3, <2>1 DEF IsJoin
  <2> QED
    BY <2>2 DEF c, z
<1>7. \A p \in 1 .. Len(d) : (d \o x \o y)[p] = d[p]
  <2>1. \A p \in 1 .. Len(d) : p \in 1 .. Len(d) + f
    BY <1>1
  <2> QED
    BY <1>6, <2>1
<1>8. /\ Append(t, e) \in Seq(Entries) /\ Len(Append(t, e)) = Len(t) + 1
      /\ \A j \in 1 .. Len(t) : Append(t, e)[j] = t[j]
      /\ Append(t, e)[Len(t) + 1] = e
  <2> HIDE DEF e
  <2> QED
    BY <1>1, <1>4, AppendProperties
<1> DEFINE a == d \o x \o y
           b == Append(t, e)
<1>9. /\ a \in Seq(D) /\ Len(a) = Len(d) + f + n
      /\ \A p \in 1 .. Len(d) : a[p] = d[p]
      /\ \A p \in 1 .. n : a[Len(d) + f + p] = <<i, p>>
      /\ b \in Seq(Entries) /\ Len(b) = Len(t) + 1
      /\ \A j \in 1 .. Len(t) : b[j] = t[j]
      /\ b[Len(t) + 1] = e
  BY <1>3, <1>5, <1>6, <1>7, <1>8
<1>10. r.data = a /\ r.tiles = b /\ r = [data |-> a, tiles |-> b]
  BY <1>2
<1> HIDE DEF a, b, e
<1>11. r \in Groups
  BY <1>9, <1>10 DEF Groups, D
<1>12. IsTileWritten(r, g, width, sizes, i)
  BY <1>9, <1>10, <1>11 DEF IsTileWritten, f, n, d, t, e
<1> QED
  BY <1>12 DEF r

IsGrouping(h, header, width, sizes) ==
  /\ h[0] = [data |-> Filler(header), tiles |-> << >>]
  /\ \A k \in 1 .. Len(sizes) : h[k] = WriteTile(width, sizes, h[k-1], k)
  /\ TileGroup(header, width, sizes) = h[Len(sizes)]

LEMMA GroupInTurn ==
  ASSUME NEW header \in Nat, NEW width \in Nat, NEW sizes \in Seq(Nat)
  PROVE  \E h : IsGrouping(h, header, width, sizes)
<1> DEFINE n == Len(sizes)
           list == [i \in DOMAIN sizes |-> i]
           S == Groups
           base == [data |-> Filler(header), tiles |-> << >>]
           step == [p \in (1 .. n) \X S |-> WriteTile(width, sizes, p[2], list[p[1]])]
           Body(g) == [s \in SUBSET (DOMAIN list) |->
                         IF s = {} THEN base ELSE WriteTile(width, sizes, g[s \ {Max(s)}], list[Max(s)])]
<1>1. n \in Nat /\ DOMAIN list = 1 .. n /\ \A k \in 1 .. n : list[k] = k
  OBVIOUS
<1>2. base \in S
  <2>1. Filler(header) \in Seq(Nat \X Nat)
    BY Filled
  <2> QED
    BY <2>1 DEF Groups
<1>3. ASSUME NEW c \in S, NEW k \in 1 .. n PROVE WriteTile(width, sizes, c, list[k]) \in S
  <2>1. list[k] = k
    BY <1>1
  <2> HIDE DEF list
  <2>2. IsTileWritten(WriteTile(width, sizes, c, k), c, width, sizes, k)
    BY TileWritten
  <2> QED
    BY <2>1, <2>2 DEF IsTileWritten
<1>5. PICK g \in [SUBSET (1 .. n) -> S] : IsFold(g, n, base, step)
  <2>1. \E g \in [SUBSET (1 .. n) -> S] : IsFold(g, n, base, step)
    <3>1. step \in [(1 .. n) \X S -> S]
      <4> HIDE DEF S, n, list
      <4> QED
        BY <1>1, <1>3
    <3> HIDE DEF S, n, base, step
    <3> QED
      BY <1>1, <1>2, <3>1, FoldExists
  <2> QED
    BY <2>1
<1>6. g = Body(g)
  <2>1. ASSUME NEW s \in SUBSET (1 .. n), s # {}
        PROVE  step[<<Max(s), g[s \ {Max(s)}]>>] = WriteTile(width, sizes, g[s \ {Max(s)}], list[Max(s)])
    <3>1. Max(s) \in 1 .. n /\ g[s \ {Max(s)}] \in S
      <4> HIDE DEF S, n, list
      <4> QED
        BY <1>1, <1>5, <2>1, GreatestOf
    <3> HIDE DEF S, n, list
    <3> QED
      BY <3>1
  <2> HIDE DEF S, n, step, base, list
  <2> QED
    BY <1>1, <1>5, <2>1 DEF IsFold
<1> DEFINE it == CHOOSE f : f = Body(f)
<1>7. it = Body(it)
  <2> HIDE DEF Body
  <2> QED
    BY <1>6
<1>8. TileGroup(header, width, sizes) = it[DOMAIN list]
  BY DEF TileGroup, FoldLeft, MapThenFoldSet
<1> DEFINE h == [k \in 0 .. n |-> it[1 .. k]]
<1>9. h[0] = base
  <2>1. 1 .. 0 = {} /\ {} \in SUBSET DOMAIN list /\ 0 \in 0 .. n
    BY <1>1
  <2> HIDE DEF it, list
  <2> QED
    BY <1>7, <2>1
<1>10. ASSUME NEW k \in 1 .. n PROVE h[k] = WriteTile(width, sizes, h[k-1], list[k])
  <2>1. /\ Max(1 .. k) = k /\ (1 .. k) \ {Max(1 .. k)} = 1 .. k-1
        /\ 1 .. k \in SUBSET DOMAIN list /\ 1 .. k # {} /\ k \in 0 .. n /\ k - 1 \in 0 .. n
    BY <1>1, GreatestUpTo
  <2> HIDE DEF it, n, list
  <2> QED
    BY <1>7, <2>1
<1>11. h[n] = it[DOMAIN list]
  <2> HIDE DEF it, list
  <2> QED
    BY <1>1
<1> HIDE DEF h, it, n, list
<1> QED
  BY <1>1, <1>8, <1>9, <1>10, <1>11 DEF n, list, IsGrouping

\* Each tile lies where its entry says, behind the one before and the size that
\* separates them.
IsGroup(g, k, header, width, sizes) ==
  /\ g \in Groups
  /\ Len(g.tiles) = k
  /\ Len(g.data) = IF k = 0 THEN header ELSE g.tiles[k].offset + sizes[k]
  /\ \A j \in 1 .. k :
       /\ g.tiles[j].offset \in Nat
       /\ g.tiles[j].size = sizes[j]
       /\ g.tiles[1].offset <= g.tiles[j].offset
       /\ g.tiles[j].offset + sizes[j] <= Len(g.data)
       /\ \A p \in 1 .. sizes[j] : g.data[g.tiles[j].offset + p] = <<j, p>>
       /\ j > 1 => g.tiles[j].offset
                     = g.tiles[j-1].offset + sizes[j-1] + FieldOf(width, sizes, j)

LEMMA GroupGrows ==
  ASSUME NEW header \in Nat, NEW width \in Nat, NEW sizes \in Seq(Nat),
         NEW k \in 1 .. Len(sizes), NEW g, IsGroup(g, k - 1, header, width, sizes)
  PROVE  IsGroup(WriteTile(width, sizes, g, k), k, header, width, sizes)
<1> DEFINE r == WriteTile(width, sizes, g, k)
           f == FieldOf(width, sizes, k)
           m == Len(g.data)
<1>1. /\ k \in Nat /\ k > 0 /\ f \in Nat
      /\ \A j \in 1 .. k : sizes[j] \in Nat
  BY DEF FieldOf
<1>2. /\ g \in Groups /\ Len(g.tiles) = k - 1
      /\ m = IF k - 1 = 0 THEN header ELSE g.tiles[k-1].offset + sizes[k-1]
      /\ \A j \in 1 .. k-1 :
           /\ g.tiles[j].offset \in Nat
           /\ g.tiles[j].size = sizes[j]
           /\ g.tiles[1].offset <= g.tiles[j].offset
           /\ g.tiles[j].offset + sizes[j] <= m
           /\ \A p \in 1 .. sizes[j] : g.data[g.tiles[j].offset + p] = <<j, p>>
           /\ j > 1 => g.tiles[j].offset
                         = g.tiles[j-1].offset + sizes[j-1] + FieldOf(width, sizes, j)
  BY DEF IsGroup
<1>3. IsTileWritten(r, g, width, sizes, k)
  BY <1>2, TileWritten
<1>4. m \in Nat
  BY <1>2 DEF Groups
<1> HIDE DEF r, m, f
<1>5. /\ r \in Groups
      /\ Len(r.data) = m + f + sizes[k]
      /\ \A p \in 1 .. m : r.data[p] = g.data[p]
      /\ \A p \in 1 .. sizes[k] : r.data[m + f + p] = <<k, p>>
      /\ Len(r.tiles) = k
      /\ \A j \in 1 .. k-1 : r.tiles[j] = g.tiles[j]
      /\ r.tiles[k] = [offset |-> m + f, size |-> sizes[k]]
  <2>1. Len(g.tiles) + 1 = k /\ Len(g.tiles) = k - 1
    BY <1>1, <1>2
  <2> QED
    BY <1>3, <2>1 DEF IsTileWritten, m, f
<1>6. r.tiles[k].offset = m + f /\ r.tiles[k].size = sizes[k] /\ sizes[k] \in Nat
  BY <1>1, <1>5
<1>7. ASSUME NEW j \in 1 .. k
      PROVE  /\ r.tiles[j].offset \in Nat
             /\ r.tiles[j].size = sizes[j]
             /\ r.tiles[1].offset <= r.tiles[j].offset
             /\ r.tiles[j].offset + sizes[j] <= Len(r.data)
             /\ \A p \in 1 .. sizes[j] : r.data[r.tiles[j].offset + p] = <<j, p>>
             /\ j > 1 => r.tiles[j].offset
                           = r.tiles[j-1].offset + sizes[j-1] + FieldOf(width, sizes, j)
  <2>1. CASE j = k
    <3>1. r.tiles[1].offset <= m + f
      <4>1. CASE k = 1
        BY <1>1, <1>4, <1>6, <4>1
      <4>2. CASE k > 1
        <5>1. 1 \in 1 .. k-1 /\ sizes[1] \in Nat
          BY <1>1, <4>2
        <5>2. r.tiles[1] = g.tiles[1] /\ g.tiles[1].offset \in Nat /\ g.tiles[1].offset + sizes[1] <= m
          BY <1>2, <1>5, <5>1
        <5> QED
          BY <1>1, <1>4, <5>1, <5>2, SMTT(40)
      <4> QED
        BY <1>1, <4>1, <4>2
    <3>2. k > 1 => m + f = r.tiles[k-1].offset + sizes[k-1] + f
      <4> SUFFICES ASSUME k > 1 PROVE m + f = r.tiles[k-1].offset + sizes[k-1] + f
        OBVIOUS
      <4>1. k - 1 \in 1 .. k-1 /\ k - 1 # 0
        BY <1>1
      <4>2. m = g.tiles[k-1].offset + sizes[k-1] /\ r.tiles[k-1] = g.tiles[k-1]
        BY <1>2, <1>5, <4>1
      <4> QED
        BY <4>2
    <3>3. m + f \in Nat
      BY <1>1, <1>4
    <3>4. m + f + sizes[k] <= Len(r.data)
      BY <1>1, <1>4, <1>5, <1>6
    <3>5. k > 1 => m + f = r.tiles[k-1].offset + sizes[k-1] + FieldOf(width, sizes, k)
      BY <3>2 DEF f
    <3> QED
      BY <1>5, <1>6, <2>1, <3>1, <3>3, <3>4, <3>5
  <2>2. CASE j # k
    <3>1. j \in 1 .. k-1 /\ 1 \in 1 .. k-1 /\ j \in Nat
      BY <1>1, <2>2
    <3>2. r.tiles[j] = g.tiles[j] /\ r.tiles[1] = g.tiles[1]
      BY <1>5, <3>1
    <3>3. /\ g.tiles[j].offset \in Nat /\ sizes[j] \in Nat
          /\ g.tiles[j].size = sizes[j]
          /\ g.tiles[1].offset <= g.tiles[j].offset
          /\ g.tiles[j].offset + sizes[j] <= m
      BY <1>1, <1>2, <3>1
    <3>7. \A p \in 1 .. sizes[j] : g.data[g.tiles[j].offset + p] = <<j, p>>
      BY <1>2, <3>1, Zenon
    <3>4. g.tiles[j].offset + sizes[j] <= Len(r.data)
      <4> DEFINE a == g.tiles[j].offset  b == sizes[j]  q == a + b
      <4>3. a \in Nat /\ b \in Nat /\ a + b <= m
        BY <3>3, Zenon
      <4> HIDE DEF a, b
      <4>1. q \in Nat /\ q <= m
        BY <4>3
      <4> HIDE DEF q
      <4>2. q <= m + f + sizes[k]
        BY <1>1, <1>4, <1>6, <4>1
      <4> QED
        BY <1>5, <4>2 DEF q, a, b
    <3>5. \A p \in 1 .. sizes[j] : r.data[g.tiles[j].offset + p] = <<j, p>>
      <4> SUFFICES ASSUME NEW p \in 1 .. sizes[j] PROVE r.data[g.tiles[j].offset + p] = <<j, p>>
        OBVIOUS
      <4> DEFINE q == g.tiles[j].offset
      <4>1. q \in Nat /\ q + sizes[j] <= m /\ sizes[j] \in Nat
        BY <3>3
      <4>3. g.data[q + p] = <<j, p>>
        BY <3>7
      <4> HIDE DEF q
      <4>2. q + p \in 1 .. m
        <5> DEFINE s == sizes[j]
        <5>1. p \in 1 .. s /\ s \in Nat /\ q + s <= m /\ m \in Nat
          BY <1>4, <4>1
        <5> HIDE DEF s
        <5> QED
          BY <4>1, <5>1
      <4> QED
        BY <1>5, <4>2, <4>3 DEF q
    <3>6. j > 1 => g.tiles[j].offset
                     = r.tiles[j-1].offset + sizes[j-1] + FieldOf(width, sizes, j)
      <4> SUFFICES ASSUME j > 1
                   PROVE  g.tiles[j].offset
                            = r.tiles[j-1].offset + sizes[j-1] + FieldOf(width, sizes, j)
        OBVIOUS
      <4>1. j - 1 \in 1 .. k-1
        BY <1>1, <3>1
      <4>2. r.tiles[j-1] = g.tiles[j-1]
        BY <1>5, <4>1
      <4> QED
        BY <1>2, <3>1, <4>2
    <3> QED
      BY <3>2, <3>3, <3>4, <3>5, <3>6
  <2> QED
    BY <2>1, <2>2
<1>8. Len(r.data) = IF k = 0 THEN header ELSE r.tiles[k].offset + sizes[k]
  BY <1>1, <1>5, <1>6
<1>9. IsGroup(r, k, header, width, sizes)
  BY <1>5, <1>7, <1>8 DEF IsGroup
<1> QED
  BY <1>9 DEF r

LEMMA GroupWritten ==
  ASSUME NEW header \in Nat, NEW width \in Nat, NEW sizes \in Seq(Nat)
  PROVE  IsGroup(TileGroup(header, width, sizes), Len(sizes), header, width, sizes)
<1> DEFINE n == Len(sizes)
<1>1. n \in Nat
  OBVIOUS
<1>2. PICK h : IsGrouping(h, header, width, sizes)
  BY GroupInTurn
<1>3. /\ h[0] = [data |-> Filler(header), tiles |-> << >>]
      /\ \A k \in 1 .. n : h[k] = WriteTile(width, sizes, h[k-1], k)
      /\ TileGroup(header, width, sizes) = h[n]
  BY <1>2 DEF IsGrouping
<1> DEFINE T == {k \in 0 .. n : IsGroup(h[k], k, header, width, sizes)}
<1>4. 0 \in T
  <2>1. Filler(header) \in Seq(Nat \X Nat) /\ Len(Filler(header)) = header
    BY Filled
  <2>2. h[0] \in Groups /\ h[0].data = Filler(header) /\ h[0].tiles = << >> /\ 0 \in 0 .. n
    BY <1>1, <1>3, <2>1 DEF Groups
  <2>3. Len(<< >>) = 0
    OBVIOUS
  <2>4. IsGroup(h[0], 0, header, width, sizes)
    BY <2>1, <2>2, <2>3 DEF IsGroup
  <2> QED
    BY <2>2, <2>4
<1>5. \A k \in 1 .. n : k - 1 \in T => k \in T
  <2> SUFFICES ASSUME NEW k \in 1 .. n, k - 1 \in T PROVE k \in T
    OBVIOUS
  <2>1. IsGroup(h[k-1], k - 1, header, width, sizes)
    OBVIOUS
  <2>2. IsGroup(h[k], k, header, width, sizes)
    BY <1>3, <2>1, GroupGrows
  <2>3. k \in 0 .. n
    OBVIOUS
  <2> QED
    BY <2>2, <2>3
<1>6. 0 .. n \subseteq T
  <2> HIDE DEF T, n
  <2> QED
    BY <1>1, <1>4, <1>5, InductionUpTo
<1>7. n \in 0 .. n
  BY <1>1
<1> QED
  BY <1>3, <1>6, <1>7

\* The part of a list from one position to another.
IsPart(r, s, m, n) ==
  /\ Len(r) = n - m + 1
  /\ \A p \in 1 .. n - m + 1 : r[p] = s[m + p - 1]

LEMMA PartOf ==
  ASSUME NEW A, NEW s \in Seq(A), NEW m \in Nat, NEW n \in Nat, m <= n + 1, n <= Len(s), m > 0
  PROVE  SubSeq(s, m, n) \in Seq(A) /\ IsPart(SubSeq(s, m, n), s, m, n)
<1>1. \A i \in m .. n : s[i] \in A
  <2> SUFFICES ASSUME NEW i \in m .. n PROVE s[i] \in A
    OBVIOUS
  <2>1. i \in 1 .. Len(s)
    OBVIOUS
  <2> QED
    BY <2>1, ElementOfSeq
<1>2. /\ SubSeq(s, m, n) \in Seq(A)
      /\ Len(SubSeq(s, m, n)) = IF m <= n THEN n - m + 1 ELSE 0
      /\ \A i \in 1 .. n - m + 1 : SubSeq(s, m, n)[i] = s[m + i - 1]
  BY <1>1, SubSeqProperties
<1>3. (IF m <= n THEN n - m + 1 ELSE 0) = n - m + 1
  OBVIOUS
<1> QED
  BY <1>2, <1>3 DEF IsPart

\* What the driver tells the hardware of a tile group.
Told(group) ==
  [width   |-> TileSizeBytes(group.tiles),
   entries |-> TileEntries(group.tiles, Len(group.data)),
   data    |-> CodedData(group.data, group.tiles)]

TilesTold(told, width, sizes) ==
  /\ told.entries[1].offset < 16
  /\ \A k \in DOMAIN told.entries :
       SubSeq(told.data, told.entries[k].offset + 1,
              told.entries[k].offset + told.entries[k].size) = TileData(k, sizes[k])
  /\ Len(told.entries) > 2 => told.width = width

\* What is left before the first tile of what is dropped up to a multiple of 16.
LEMMA Rebased ==
  ASSUME NEW tiles, NEW size \in Nat, tiles[1].offset \in Nat, tiles[1].offset <= size
  PROVE  /\ Rebase(tiles, size) \in Nat
         /\ Rebase(tiles, size) <= tiles[1].offset
         /\ tiles[1].offset - Rebase(tiles, size) < 16
<1> DEFINE q == tiles[1].offset
           down == q - (q % 16)
<1>1. q \in Nat /\ q <= size
  OBVIOUS
<1>2. q % 16 \in 0 .. 15 /\ q % 16 <= q
  <2> HIDE DEF q
  <2> QED
    BY <1>1
<1>3. Rebase(tiles, size) = IF down > 0 /\ down <= size THEN down ELSE 0
  BY DEF Rebase
<1> DEFINE z == q % 16
<1>4. z \in 0 .. 15 /\ z <= q /\ down = q - z
  BY <1>2
<1> HIDE DEF q, z, down
<1> QED
  BY <1>1, <1>3, <1>4 DEF q

LEMMA GapsAreFields ==
  ASSUME NEW header \in Nat, NEW width \in 1 .. 4, NEW sizes \in Seq(Nat), NEW g,
         IsGroup(g, Len(sizes), header, width, sizes), Len(sizes) > 2
  PROVE  TileSizeBytes(g.tiles) = width
<1> DEFINE n == Len(sizes)
           t == g.tiles
           Gap(i) == t[i+1].offset - (t[i].offset + t[i].size)
           found == {i \in 1 .. Len(t) - 1 : Gap(i) \in 1 .. 4}
<1>1. n \in Nat /\ n > 2 /\ width \in Nat
  OBVIOUS
<1>2. /\ Len(t) = n
      /\ \A j \in 1 .. n :
           /\ t[j].offset \in Nat
           /\ t[j].size = sizes[j] /\ sizes[j] \in Nat
           /\ j > 1 => t[j].offset = t[j-1].offset + sizes[j-1] + FieldOf(width, sizes, j)
  <2>1. /\ Len(t) = n
        /\ \A j \in 1 .. n :
             /\ t[j].offset \in Nat
             /\ t[j].size = sizes[j]
             /\ j > 1 => t[j].offset = t[j-1].offset + sizes[j-1] + FieldOf(width, sizes, j)
    BY Zenon DEF IsGroup
  <2>2. \A j \in 1 .. n : sizes[j] \in Nat
    OBVIOUS
  <2> QED
    BY <2>1, <2>2, Zenon
<1>3. TileSizeBytes(t) = IF found = {} THEN 4 ELSE Gap(Min(found))
  BY DEF TileSizeBytes
<1>4. Gap(1) = width
  <2>1. 1 \in 1 .. n /\ 2 \in 1 .. n /\ 2 > 1 /\ 2 - 1 = 1 /\ 1 + 1 = 2
    BY <1>1
  <2>2. /\ t[1].offset \in Nat /\ t[1].size = sizes[1] /\ sizes[1] \in Nat /\ t[2].offset \in Nat
        /\ t[2].offset = t[1].offset + sizes[1] + FieldOf(width, sizes, 2)
    BY <1>2, <2>1
  <2>3. FieldOf(width, sizes, 2) = width
    BY <1>1 DEF FieldOf
  <2> QED
    BY <1>1, <2>1, <2>2, <2>3, SMTT(40)
<1>5. 1 \in found
  <2>1. 1 \in 1 .. Len(t) - 1
    BY <1>1, <1>2
  <2> QED
    BY <1>4, <2>1
<1>6. found \subseteq Nat /\ \A i \in found : 1 <= i
  <2>1. found \subseteq 1 .. n - 1
    BY <1>2
  <2>2. 1 .. n - 1 \subseteq Nat /\ \A i \in 1 .. n - 1 : 1 <= i
    BY <1>1
  <2> QED
    BY <2>1, <2>2
<1> HIDE DEF found
<1>7. Min(found) = 1
  <2>1. Min(found) \in found /\ \A i \in found : Min(found) <= i
    BY <1>5, <1>6, LeastOf
  <2> DEFINE m == Min(found)
  <2>2. m \in Nat /\ 1 <= m /\ m <= 1
    BY <1>5, <1>6, <2>1
  <2> HIDE DEF m
  <2>3. m = 1
    BY <2>2
  <2> QED
    BY <2>3 DEF m
<1> QED
  BY <1>3, <1>4, <1>5, <1>7

\* Where the tiles of a group are told to lie, they do.
LEMMA GroupTold ==
  ASSUME NEW header \in Nat, NEW width \in 1 .. 4, NEW sizes \in Seq(Nat) \ {<< >>}
  PROVE  TilesTold(Told(TileGroup(header, width, sizes)), width, sizes)
<1> DEFINE g == TileGroup(header, width, sizes)
           n == Len(sizes)
           t == g.tiles
           d == g.data
           down == Rebase(t, Len(d))
           told == Told(g)
<1>1. n \in Nat /\ n > 0 /\ width \in Nat /\ sizes \in Seq(Nat) /\ 1 \in 1 .. n
      /\ \A j \in 1 .. n : sizes[j] \in Nat
  <2>1. n \in Nat /\ n > 0
    BY EmptySeq
  <2> QED
    BY <2>1
<1>2. IsGroup(g, n, header, width, sizes)
  BY <1>1, GroupWritten
<1>3. /\ d \in Seq(Nat \X Nat) /\ t \in Seq(Entries) /\ Len(d) \in Nat
      /\ Len(t) = n /\ DOMAIN t = 1 .. n
      /\ \A j \in 1 .. n :
           /\ t[j].offset \in Nat
           /\ t[j].size = sizes[j]
           /\ t[1].offset <= t[j].offset
           /\ t[j].offset + sizes[j] <= Len(d)
           /\ \A p \in 1 .. sizes[j] : d[t[j].offset + p] = <<j, p>>
  BY <1>2, SMTT(40) DEF IsGroup, Groups
<1>4. down \in Nat /\ down <= t[1].offset /\ t[1].offset - down < 16
  <2>1. t[1].offset \in Nat /\ t[1].offset + sizes[1] <= Len(d) /\ sizes[1] \in Nat
    BY <1>1, <1>3
  <2>2. t[1].offset <= Len(d)
    BY <1>3, <2>1
  <2> HIDE DEF t, d
  <2> QED
    BY <1>3, <2>1, <2>2, Rebased
<1>5. /\ told.entries = [i \in DOMAIN t |-> [offset |-> t[i].offset - down, size |-> t[i].size]]
      /\ told.data = SubSeq(d, down + 1, Len(d))
      /\ told.width = TileSizeBytes(t)
  BY DEF Told, TileEntries, CodedData
<1>6. Len(told.entries) > 2 => told.width = width
  <2>1. Len(told.entries) = n
    BY <1>1, <1>3, <1>5
  <2>2. n > 2 => TileSizeBytes(g.tiles) = width
    <3> HIDE DEF g
    <3> QED
      BY <1>1, <1>2, GapsAreFields
  <2> QED
    BY <1>5, <2>1, <2>2
<1> HIDE DEF g, t, d, n, down, told
<1>7. told.data \in Seq(Nat \X Nat) /\ IsPart(told.data, d, down + 1, Len(d))
  <2>1. down + 1 \in Nat /\ down + 1 <= Len(d) + 1 /\ down + 1 > 0 /\ Len(d) <= Len(d)
    <3>1. t[1].offset \in Nat /\ sizes[1] \in Nat /\ t[1].offset + sizes[1] <= Len(d)
      BY <1>1, <1>3
    <3> QED
      BY <1>3, <1>4, <3>1, SMTT(40)
  <2> QED
    BY <1>3, <1>5, <2>1, PartOf
<1>8. /\ Len(told.data) = Len(d) - down
      /\ \A p \in 1 .. Len(d) - down : told.data[p] = d[down + p]
  <2>1. Len(d) - (down + 1) + 1 = Len(d) - down
    BY <1>3, <1>4
  <2>2. ASSUME NEW p \in 1 .. Len(d) - down PROVE down + 1 + p - 1 = down + p
    BY <1>3, <1>4
  <2> QED
    BY <1>7, <2>1, <2>2 DEF IsPart
<1>9. ASSUME NEW k \in 1 .. n
      PROVE  SubSeq(told.data, told.entries[k].offset + 1,
                    told.entries[k].offset + told.entries[k].size) = TileData(k, sizes[k])
  <2> DEFINE o == t[k].offset
             z == sizes[k]
             c == told.data
             r == SubSeq(c, o - down + 1, o - down + z)
  <2>1. /\ o \in Nat /\ z \in Nat /\ t[1].offset <= o /\ o + z <= Len(d) /\ t[1].offset \in Nat
        /\ \A p \in 1 .. z : d[o + p] = <<k, p>>
    BY <1>1, <1>3
  <2>2. told.entries[k].offset = o - down /\ told.entries[k].size = z
    BY <1>3, <1>5
  <2> HIDE DEF o, z
  <2>3. /\ o - down + 1 \in Nat /\ o - down + z \in Nat /\ o - down + 1 <= o - down + z + 1
        /\ o - down + z <= Len(c) /\ o - down + 1 > 0
    <3> DEFINE f == t[1].offset  l == Len(d)  y == Len(c)
    <3>1. /\ o \in Nat /\ z \in Nat /\ f \in Nat /\ f <= o /\ o + z <= l
          /\ down \in Nat /\ down <= f /\ l \in Nat /\ y = l - down
      BY <1>3, <1>4, <1>8, <2>1
    <3> HIDE DEF f, l, y
    <3>2. /\ o - down + 1 \in Nat /\ o - down + z \in Nat /\ o - down + 1 <= o - down + z + 1
          /\ o - down + z <= y /\ o - down + 1 > 0
      BY <3>1
    <3> QED
      BY <3>2 DEF y
  <2>4. r \in Seq(Nat \X Nat) /\ IsPart(r, c, o - down + 1, o - down + z)
    <3> HIDE DEF c
    <3> QED
      BY <1>7, <2>3, PartOf DEF c
  <2>5. TileData(k, z) \in Seq(Nat \X Nat) /\ Len(TileData(k, z)) = z
        /\ \A p \in 1 .. z : TileData(k, z)[p] = <<k, p>>
    <3>1. k \in Nat
      BY <1>1
    <3> QED
      BY <2>1, <3>1, Filled
  <2> HIDE DEF r
  <2>6. Len(r) = z
    BY <1>4, <2>1, <2>4 DEF IsPart
  <2>7. ASSUME NEW p \in 1 .. z PROVE r[p] = <<k, p>>
    <3>1. p \in 1 .. (o - down + z) - (o - down + 1) + 1
      BY <1>4, <2>1
    <3>2. o - down + 1 + p - 1 = o - down + p
      BY <1>4, <2>1
    <3>3. r[p] = c[o - down + p]
      BY <2>4, <3>1, <3>2 DEF IsPart
    <3>4. o - down + p \in 1 .. Len(d) - down /\ down + (o - down + p) = o + p
      <4> DEFINE f == t[1].offset  l == Len(d)
      <4>1. /\ o \in Nat /\ z \in Nat /\ f \in Nat /\ f <= o /\ o + z <= l
            /\ down \in Nat /\ down <= f /\ l \in Nat
        BY <1>3, <1>4, <2>1
      <4> HIDE DEF f, l
      <4>2. o - down + p \in 1 .. l - down /\ down + (o - down + p) = o + p
        BY <4>1
      <4> QED
        BY <4>2 DEF l
    <3>5. c[o - down + p] = d[o + p]
      BY <1>8, <3>4
    <3> QED
      BY <2>1, <3>3, <3>5
  <2>8. r = TileData(k, z)
    <3>1. \A p \in 1 .. Len(r) : r[p] = TileData(k, z)[p]
      BY <2>5, <2>6, <2>7
    <3> QED
      BY <2>4, <2>5, <2>6, <3>1, SeqEqual
  <2> QED
    BY <2>2, <2>8 DEF r, z
<1>10. DOMAIN told.entries = 1 .. n
  BY <1>3, <1>5
<1>11. told.entries[1].offset < 16
  BY <1>1, <1>3, <1>4, <1>5
<1> QED
  BY <1>6, <1>9, <1>10, <1>11 DEF TilesTold, told, g

-----------------------------------------------------------------------------
(* Powers of two, and what a stream's first bits are as a number.          *)

IsPower(P) ==
  /\ P \in [Nat -> Nat \ {0}]
  /\ P[0] = 1
  /\ \A k \in Nat : P[k+1] = 2 * P[k]

LEMMA PowerExists == \E P : IsPower(P)
<1> DEFINE S == Nat \ {0}
           step == [p \in Nat \X S |-> 2 * p[2]]
<1>1. step \in [Nat \X S -> S]
  OBVIOUS
<1>2. 1 \in S
  OBVIOUS
<1>3. Runs(S, 1, step) # {}
  <2> HIDE DEF S, step
  <2> QED
    BY <1>1, <1>2, Iterates
<1>4. PICK P \in Runs(S, 1, step) : TRUE
  BY <1>3
<1>5. P \in [Nat -> S] /\ P[0] = 1 /\ \A n \in Nat : P[n+1] = step[<<n, P[n]>>]
  BY DEF Runs
<1>6. ASSUME NEW n \in Nat PROVE P[n+1] = 2 * P[n]
  <2>1. P[n] \in S
    BY <1>5
  <2>2. step[<<n, P[n]>>] = 2 * P[n]
    BY <2>1
  <2> QED
    BY <1>5, <2>2
<1>7. IsPower(P)
  BY <1>5, <1>6 DEF IsPower
<1> QED
  BY <1>7

LEMMA PowersAdd ==
  ASSUME NEW P, IsPower(P), NEW i \in Nat, NEW j \in Nat
  PROVE  P[i+j] = P[i] * P[j]
<1>1. P[0] = 1 /\ \A k \in Nat : P[k] \in Nat /\ P[k+1] = 2 * P[k]
  BY DEF IsPower
<1> DEFINE T == {k \in Nat : P[i+k] = P[i] * P[k]}
<1>2. 0 \in T
  <2>1. i + 0 = i /\ P[i] \in Nat
    BY <1>1
  <2>2. P[i] * 1 = P[i]
    BY <2>1
  <2> QED
    BY <1>1, <2>1, <2>2
<1>3. \A k \in Nat : k \in T => k + 1 \in T
  <2> SUFFICES ASSUME NEW k \in Nat, k \in T PROVE P[i+(k+1)] = P[i] * P[k+1]
    OBVIOUS
  <2>1. i + (k+1) = (i+k) + 1 /\ i + k \in Nat
    OBVIOUS
  <2>2. P[(i+k)+1] = 2 * P[i+k] /\ P[k+1] = 2 * P[k] /\ P[i+k] = P[i] * P[k]
    BY <1>1, <2>1
  <2> DEFINE a == P[i]  b == P[k]
  <2>3. a \in Nat /\ b \in Nat
    BY <1>1
  <2>4. 2 * (a * b) = a * (2 * b)
    <3> HIDE DEF a, b
    <3> QED
      BY <2>3
  <2> QED
    BY <2>1, <2>2, <2>4
<1>4. Nat \subseteq T
  <2> HIDE DEF T
  <2> QED
    BY <1>2, <1>3, Induction
<1> QED
  BY <1>4

\* The powers the decoders use.
LEMMA SmallPowers ==
  ASSUME NEW P, IsPower(P)
  PROVE  \A k \in 0 .. 7 : 2 ^ k = P[k]
<1>1. P[0] = 1 /\ \A k \in Nat : P[k+1] = 2 * P[k]
  BY DEF IsPower
<1>2. /\ P[0+1] = 2 * P[0] /\ P[1+1] = 2 * P[1] /\ P[2+1] = 2 * P[2] /\ P[3+1] = 2 * P[3]
      /\ P[4+1] = 2 * P[4] /\ P[5+1] = 2 * P[5] /\ P[6+1] = 2 * P[6]
  BY <1>1
<1>3. /\ P[0] = 1 /\ P[1] = 2 /\ P[2] = 4 /\ P[3] = 8 /\ P[4] = 16 /\ P[5] = 32
      /\ P[6] = 64 /\ P[7] = 128
  BY <1>1, <1>2
<1>4. ASSUME NEW k \in 0 .. 7 PROVE 2 ^ k = P[k]
  <2>1. <<k, 2 ^ k>> \in PowerTable
    BY PowersTabled
  <2>2. \A x : <<k, x>> \in PowerTable => x = P[k]
    BY <1>3 DEF PowerTable
  <2> QED
    BY <2>1, <2>2, Zenon
<1> QED
  BY <1>4

LEMMA PowerValues ==
  ASSUME NEW P, IsPower(P)
  PROVE  P[0] = 1 /\ P[1] = 2 /\ P[7] = 128 /\ P[8] = 256 /\ P[16] = 65536
<1>1. P[0] = 1 /\ \A k \in Nat : P[k+1] = 2 * P[k]
  BY DEF IsPower
<1>2. /\ P[0+1] = 2 * P[0] /\ P[1+1] = 2 * P[1] /\ P[2+1] = 2 * P[2] /\ P[3+1] = 2 * P[3]
      /\ P[4+1] = 2 * P[4] /\ P[5+1] = 2 * P[5] /\ P[6+1] = 2 * P[6] /\ P[7+1] = 2 * P[7]
  BY <1>1
<1>3. P[0] = 1 /\ P[1] = 2 /\ P[7] = 128 /\ P[8] = 256
  BY <1>1, <1>2
<1>4. P[8+8] = P[8] * P[8]
  BY PowersAdd, Zenon
<1> QED
  BY <1>3, <1>4

ByteAt(bytes, i) == IF i <= Len(bytes) THEN bytes[i] ELSE 0

\* T[n] is the number that the first n bits of a frame make, which has nothing
\* but zeros behind its end.
IsFirstBits(T, bytes) ==
  /\ T \in [Nat -> Nat]
  /\ T[0] = 0
  /\ \A n \in Nat : T[n+1] = 2 * T[n] + FrameBit(bytes, n)

\* Bit j of a byte, from the highest.
LEMMA BitOfByte ==
  ASSUME NEW b \in 0 .. 255
  PROVE  /\ \A j \in 0 .. 7 : (b \div 2 ^ (7 - j)) % 2 \in {0, 1}
         /\ b = 128 * ((b \div 128) % 2) + 64 * ((b \div 64) % 2) + 32 * ((b \div 32) % 2)
                  + 16 * ((b \div 16) % 2) + 8 * ((b \div 8) % 2) + 4 * ((b \div 4) % 2)
                  + 2 * ((b \div 2) % 2) + (b % 2)
<1>1. ASSUME NEW j \in 0 .. 7 PROVE (b \div 2 ^ (7 - j)) % 2 \in {0, 1}
  <2>1. 7 - j \in 0 .. 7
    OBVIOUS
  <2>2. 2 ^ (7 - j) \in Nat \ {0}
    BY <2>1, PowersGrow
  <2> DEFINE q == b \div 2 ^ (7 - j)
  <2>3. q \in Int
    BY <2>2, Quotient
  <2> HIDE DEF q
  <2>4. q % 2 \in {0, 1}
    BY <2>3
  <2> QED
    BY <2>4 DEF q
<1>2. b = 128 * ((b \div 128) % 2) + 64 * ((b \div 64) % 2) + 32 * ((b \div 32) % 2)
            + 16 * ((b \div 16) % 2) + 8 * ((b \div 8) % 2) + 4 * ((b \div 4) % 2)
            + 2 * ((b \div 2) % 2) + (b % 2)
  BY SMT
<1> QED
  BY <1>1, <1>2

LEMMA FrameBits ==
  ASSUME NEW bytes \in Seq(0 .. 255), NEW n \in Nat
  PROVE  /\ FrameBit(bytes, n) \in {0, 1}
         /\ n >= 8 * Len(bytes) => FrameBit(bytes, n) = 0
<1> DEFINE k == n \div 8
           j == n % 8
<1>1. k \in Nat /\ j \in 0 .. 7 /\ n = 8 * k + j
  OBVIOUS
<1>2. FrameBit(bytes, n) = IF k < Len(bytes) THEN (bytes[k+1] \div 2 ^ (7 - j)) % 2 ELSE 0
  BY DEF FrameBit
<1> HIDE DEF k, j
<1>3. FrameBit(bytes, n) \in {0, 1}
  <2>1. CASE k < Len(bytes)
    <3>1. k + 1 \in 1 .. Len(bytes)
      BY <1>1, <2>1
    <3>2. bytes[k+1] \in 0 .. 255
      BY <3>1, ElementOfSeq
    <3>3. (bytes[k+1] \div 2 ^ (7 - j)) % 2 \in {0, 1}
      BY <1>1, <3>2, BitOfByte
    <3> QED
      BY <1>2, <2>1, <3>3
  <2>2. CASE ~(k < Len(bytes))
    BY <1>2, <2>2
  <2> QED
    BY <2>1, <2>2
<1>4. ASSUME n >= 8 * Len(bytes) PROVE FrameBit(bytes, n) = 0
  <2>1. ~(k < Len(bytes))
    BY <1>1, <1>4
  <2> QED
    BY <1>2, <2>1
<1> QED
  BY <1>3, <1>4

LEMMA PrefixExists ==
  ASSUME NEW bytes \in Seq(0 .. 255)
  PROVE  \E T : IsFirstBits(T, bytes)
<1> DEFINE step == [p \in Nat \X Nat |-> 2 * p[2] + FrameBit(bytes, p[1])]
<1>1. step \in [Nat \X Nat -> Nat]
  <2> SUFFICES ASSUME NEW p \in Nat \X Nat PROVE 2 * p[2] + FrameBit(bytes, p[1]) \in Nat
    OBVIOUS
  <2>1. FrameBit(bytes, p[1]) \in {0, 1} /\ p[2] \in Nat
    BY FrameBits
  <2> QED
    BY <2>1
<1>3. Runs(Nat, 0, step) # {}
  <2> HIDE DEF step
  <2> QED
    BY <1>1, Iterates
<1>4. PICK T \in Runs(Nat, 0, step) : TRUE
  BY <1>3
<1>5. T \in [Nat -> Nat] /\ T[0] = 0 /\ \A n \in Nat : T[n+1] = step[<<n, T[n]>>]
  BY DEF Runs
<1>6. ASSUME NEW n \in Nat PROVE T[n+1] = 2 * T[n] + FrameBit(bytes, n)
  <2>1. T[n] \in Nat
    BY <1>5
  <2>2. step[<<n, T[n]>>] = 2 * T[n] + FrameBit(bytes, n)
    BY <2>1
  <2> QED
    BY <1>5, <2>2
<1>7. IsFirstBits(T, bytes)
  BY <1>5, <1>6 DEF IsFirstBits
<1> QED
  BY <1>7

\* Eight bits are a byte.
LEMMA PrefixOfByte ==
  ASSUME NEW bytes \in Seq(0 .. 255), NEW T, IsFirstBits(T, bytes), NEW k \in Nat
  PROVE  /\ T[8 * k + 8] = 256 * T[8 * k] + ByteAt(bytes, k + 1)
         /\ ByteAt(bytes, k + 1) \in 0 .. 255
<1> DEFINE b == ByteAt(bytes, k + 1)
<1>1. b \in 0 .. 255
  <2>1. CASE k + 1 <= Len(bytes)
    <3>1. k + 1 \in 1 .. Len(bytes)
      BY <2>1
    <3>2. bytes[k+1] \in 0 .. 255
      BY <3>1, ElementOfSeq
    <3> QED
      BY <2>1, <3>2 DEF ByteAt
  <2>2. CASE ~(k + 1 <= Len(bytes))
    BY <2>2 DEF ByteAt
  <2> QED
    BY <2>1, <2>2
<1>2. ASSUME NEW j \in 0 .. 7 PROVE FrameBit(bytes, 8 * k + j) = (b \div 2 ^ (7 - j)) % 2
  <2>1. (8 * k + j) \div 8 = k /\ (8 * k + j) % 8 = j
    OBVIOUS
  <2>2. FrameBit(bytes, 8 * k + j) =
          IF k < Len(bytes) THEN (bytes[k+1] \div 2 ^ (7 - j)) % 2 ELSE 0
    BY <2>1 DEF FrameBit
  <2>3. CASE k < Len(bytes)
    <3>1. k + 1 <= Len(bytes)
      BY <2>3
    <3> QED
      BY <2>2, <2>3, <3>1 DEF ByteAt
  <2>4. CASE ~(k < Len(bytes))
    <3>1. ~(k + 1 <= Len(bytes))
      BY <2>4
    <3>2. b = 0 /\ FrameBit(bytes, 8 * k + j) = 0
      BY <2>2, <2>4, <3>1 DEF ByteAt
    <3>3. (0 \div 2 ^ (7 - j)) % 2 = 0
      <4> DEFINE p == 2 ^ (7 - j)
      <4>1. p \in Nat \ {0}
        <5>1. 7 - j \in 0 .. 7
          OBVIOUS
        <5> QED
          BY <5>1, PowersGrow
      <4> HIDE DEF p
      <4>2. 0 \div p = 0
        BY <4>1, Z3
      <4>3. (0 \div p) % 2 = 0
        BY <4>2
      <4> QED
        BY <4>3 DEF p
    <3> QED
      BY <3>2, <3>3
  <2> QED
    BY <2>3, <2>4
<1> HIDE DEF b
<1>3. /\ 2 ^ 0 = 1 /\ 2 ^ 1 = 2 /\ 2 ^ 2 = 4 /\ 2 ^ 3 = 8
      /\ 2 ^ 4 = 16 /\ 2 ^ 5 = 32 /\ 2 ^ 6 = 64 /\ 2 ^ 7 = 128
  OBVIOUS
<1> DEFINE m == 8 * k
<1>4. /\ FrameBit(bytes, m + 0) = (b \div 128) % 2 /\ FrameBit(bytes, m + 1) = (b \div 64) % 2
      /\ FrameBit(bytes, m + 2) = (b \div 32) % 2 /\ FrameBit(bytes, m + 3) = (b \div 16) % 2
      /\ FrameBit(bytes, m + 4) = (b \div 8) % 2 /\ FrameBit(bytes, m + 5) = (b \div 4) % 2
      /\ FrameBit(bytes, m + 6) = (b \div 2) % 2 /\ FrameBit(bytes, m + 7) = (b \div 1) % 2
  <2>1. /\ 0 \in 0 .. 7 /\ 1 \in 0 .. 7 /\ 2 \in 0 .. 7 /\ 3 \in 0 .. 7
        /\ 4 \in 0 .. 7 /\ 5 \in 0 .. 7 /\ 6 \in 0 .. 7 /\ 7 \in 0 .. 7
        /\ 7 - 0 = 7 /\ 7 - 1 = 6 /\ 7 - 2 = 5 /\ 7 - 3 = 4 /\ 7 - 4 = 3 /\ 7 - 5 = 2
        /\ 7 - 6 = 1 /\ 7 - 7 = 0
    OBVIOUS
  <2>2. FrameBit(bytes, m + 0) = (b \div 2 ^ 7) % 2 /\ FrameBit(bytes, m + 1) = (b \div 2 ^ 6) % 2
    BY <1>2, <2>1
  <2>3. FrameBit(bytes, m + 2) = (b \div 2 ^ 5) % 2 /\ FrameBit(bytes, m + 3) = (b \div 2 ^ 4) % 2
    BY <1>2, <2>1
  <2>4. FrameBit(bytes, m + 4) = (b \div 2 ^ 3) % 2 /\ FrameBit(bytes, m + 5) = (b \div 2 ^ 2) % 2
    BY <1>2, <2>1
  <2>5. FrameBit(bytes, m + 6) = (b \div 2 ^ 1) % 2 /\ FrameBit(bytes, m + 7) = (b \div 2 ^ 0) % 2
    BY <1>2, <2>1
  <2> QED
    BY <1>3, <2>2, <2>3, <2>4, <2>5
<1>5. m \in Nat
  OBVIOUS
<1>13. \A n \in Nat : T[n] \in Nat /\ T[n+1] = 2 * T[n] + FrameBit(bytes, n)
  BY DEF IsFirstBits
<1> HIDE DEF m
<1>6. ASSUME NEW j \in 0 .. 7 PROVE T[m + j + 1] = 2 * T[m + j] + FrameBit(bytes, m + j)
  <2>1. m + j \in Nat
    BY <1>5
  <2> QED
    BY <1>13, <2>1
<1>7. /\ m + 0 + 1 = m + 1 /\ m + 1 + 1 = m + 2 /\ m + 2 + 1 = m + 3 /\ m + 3 + 1 = m + 4
      /\ m + 4 + 1 = m + 5 /\ m + 5 + 1 = m + 6 /\ m + 6 + 1 = m + 7 /\ m + 7 + 1 = m + 8
      /\ m + 0 = m /\ T[m] \in Nat /\ b \div 1 = b
  BY <1>1, <1>5, <1>13
<1>8. /\ (b \div 128) % 2 \in Int /\ (b \div 64) % 2 \in Int /\ (b \div 32) % 2 \in Int
      /\ (b \div 16) % 2 \in Int /\ (b \div 8) % 2 \in Int /\ (b \div 4) % 2 \in Int
      /\ (b \div 2) % 2 \in Int /\ b % 2 \in Int
  BY <1>1
<1> DEFINE b7 == (b \div 128) % 2  b6 == (b \div 64) % 2  b5 == (b \div 32) % 2
           b4 == (b \div 16) % 2   b3 == (b \div 8) % 2   b2 == (b \div 4) % 2
           b1 == (b \div 2) % 2    b0 == b % 2
           t0 == T[m]    t1 == T[m+1]  t2 == T[m+2]  t3 == T[m+3]  t4 == T[m+4]
           t5 == T[m+5]  t6 == T[m+6]  t7 == T[m+7]  t8 == T[m+8]
<1>9. /\ t1 = 2 * t0 + b7 /\ t2 = 2 * t1 + b6 /\ t3 = 2 * t2 + b5 /\ t4 = 2 * t3 + b4
      /\ t5 = 2 * t4 + b3 /\ t6 = 2 * t5 + b2 /\ t7 = 2 * t6 + b1 /\ t8 = 2 * t7 + b0
  <2>1. /\ T[m + 0 + 1] = 2 * T[m + 0] + FrameBit(bytes, m + 0)
        /\ T[m + 1 + 1] = 2 * T[m + 1] + FrameBit(bytes, m + 1)
        /\ T[m + 2 + 1] = 2 * T[m + 2] + FrameBit(bytes, m + 2)
        /\ T[m + 3 + 1] = 2 * T[m + 3] + FrameBit(bytes, m + 3)
    BY <1>6
  <2>2. /\ T[m + 4 + 1] = 2 * T[m + 4] + FrameBit(bytes, m + 4)
        /\ T[m + 5 + 1] = 2 * T[m + 5] + FrameBit(bytes, m + 5)
        /\ T[m + 6 + 1] = 2 * T[m + 6] + FrameBit(bytes, m + 6)
        /\ T[m + 7 + 1] = 2 * T[m + 7] + FrameBit(bytes, m + 7)
    BY <1>6
  <2> QED
    BY <1>4, <1>7, <2>1, <2>2
<1>10. b = 128 * b7 + 64 * b6 + 32 * b5 + 16 * b4 + 8 * b3 + 4 * b2 + 2 * b1 + b0
  BY <1>1, BitOfByte, SMTT(40)
<1>11. b7 \in Int /\ b6 \in Int /\ b5 \in Int /\ b4 \in Int /\ b3 \in Int /\ b2 \in Int
       /\ b1 \in Int /\ b0 \in Int /\ t0 \in Nat
  BY <1>7, <1>8
<1> HIDE DEF b7, b6, b5, b4, b3, b2, b1, b0, t0, t1, t2, t3, t4, t5, t6, t7, t8
<1>12. t8 = 256 * t0 + b
  BY <1>9, <1>10, <1>11
<1> QED
  BY <1>1, <1>12 DEF m, b, t0, t8

\* What is ahead of the first n bits is less than one of their units.
LEMMA PrefixAhead ==
  ASSUME NEW bytes \in Seq(0 .. 255), NEW P, IsPower(P), NEW T, IsFirstBits(T, bytes),
         NEW n \in Nat, NEW j \in Nat
  PROVE  /\ T[n] * P[j] <= T[n+j]
         /\ T[n+j] < (T[n] + 1) * P[j]
         /\ n >= 8 * Len(bytes) => T[n+j] = T[n] * P[j]
<1>1. P[0] = 1 /\ \A k \in Nat : P[k] \in Nat \ {0} /\ P[k+1] = 2 * P[k]
  BY DEF IsPower
<1>2. \A k \in Nat : T[k] \in Nat /\ T[k+1] = 2 * T[k] + FrameBit(bytes, k)
  BY DEF IsFirstBits
<1> DEFINE a == T[n]
           Near == {k \in Nat : /\ a * P[k] <= T[n+k]
                                /\ T[n+k] < (a + 1) * P[k]
                                /\ n >= 8 * Len(bytes) => T[n+k] = a * P[k]}
<1>3. 0 \in Near
  <2>1. a \in Nat /\ n + 0 = n /\ P[0] = 1
    BY <1>1, <1>2
  <2>2. a * 1 = a /\ (a + 1) * 1 = a + 1 /\ a <= a /\ a < a + 1
    <3> HIDE DEF a
    <3> QED
      BY <2>1
  <2> QED
    BY <2>1, <2>2
<1>4. \A k \in Nat : k \in Near => k + 1 \in Near
  <2> SUFFICES ASSUME NEW k \in Nat, k \in Near PROVE k + 1 \in Near
    OBVIOUS
  <2> DEFINE p == P[k]  t == T[n+k]  u == T[n+(k+1)]  f == FrameBit(bytes, n + k)
  <2>1. a \in Nat /\ p \in Nat \ {0} /\ t \in Nat /\ P[k+1] = 2 * p /\ u = 2 * t + f
    <3>1. n + (k+1) = (n+k) + 1 /\ n + k \in Nat
      OBVIOUS
    <3>2. T[(n+k)+1] = 2 * T[n+k] + FrameBit(bytes, n + k)
      BY <1>2, <3>1
    <3> QED
      BY <1>1, <1>2, <3>1, <3>2
  <2>2. f \in {0, 1} /\ (n >= 8 * Len(bytes) => f = 0)
    <3>1. n + k \in Nat /\ Len(bytes) \in Nat /\ (n >= 8 * Len(bytes) => n + k >= 8 * Len(bytes))
      OBVIOUS
    <3> QED
      BY <3>1, FrameBits
  <2>3. a * p <= t /\ t < (a + 1) * p /\ (n >= 8 * Len(bytes) => t = a * p)
    OBVIOUS
  <2> DEFINE long == n >= 8 * Len(bytes)
  <2> HIDE DEF a, p, t, u, f, long
  <2>4. /\ a * (2 * p) = 2 * (a * p) /\ (a + 1) * (2 * p) = 2 * ((a + 1) * p)
        /\ a * p \in Nat /\ (a + 1) * p \in Nat
    BY <2>1
  <2>5. a * (2 * p) <= u /\ u < (a + 1) * (2 * p)
    BY <2>1, <2>2, <2>3, <2>4 DEF long
  <2>6. long => u = a * (2 * p)
    BY <2>1, <2>2, <2>3, <2>4 DEF long
  <2> QED
    BY <2>1, <2>5, <2>6 DEF a, p, u, long
<1>5. Nat \subseteq Near
  <2> HIDE DEF Near
  <2> QED
    BY <1>3, <1>4, Induction
<1> QED
  BY <1>5

-----------------------------------------------------------------------------
(* The two decoders at the same bit.                                       *)

\* Both widen an interval by the same power of two.
LEMMA Shifts ==
  ASSUME NEW P, IsPower(P), NEW range \in 1 .. 255
  PROVE  \E s \in 0 .. 7 : /\ NormShift(range) = s /\ Short(range) = s
                           /\ range * P[s] \in 128 .. 255 /\ 2 ^ s = P[s]
<1> DEFINE S == {s \in 0 .. 7 : range * 2 ^ s >= 128}
           s == Min(S)
<1>1. /\ P[0] = 1 /\ P[7] = 128
      /\ \A k \in 0 .. 7 : 2 ^ k = P[k] /\ P[k] \in Nat
      /\ \A k \in 1 .. 7 : P[k] = 2 * P[k-1] /\ k - 1 \in 0 .. 7
  <2>1. \A k \in Nat : P[k] \in Nat /\ P[k+1] = 2 * P[k]
    BY DEF IsPower
  <2>2. \A k \in 1 .. 7 : k - 1 \in Nat /\ k - 1 + 1 = k
    OBVIOUS
  <2>3. \A k \in 1 .. 7 : P[k] = 2 * P[k-1]
    BY <2>1, <2>2
  <2> QED
    BY <2>1, <2>3, PowerValues, SmallPowers
<1>2. S \subseteq Nat /\ 7 \in S
  BY <1>1
<1>3. s \in S /\ \A k \in S : s <= k
  <2> HIDE DEF S
  <2> QED
    BY <1>2, LeastOf
<1>4. NormShift(range) = s
  BY DEF NormShift
<1> HIDE DEF s
<1>5. s \in 0 .. 7 /\ range * P[s] >= 128 /\ 2 ^ s = P[s] /\ P[s] \in Nat
  BY <1>1, <1>3
<1>6. range * P[s] <= 255
  <2>1. CASE s = 0
    BY <1>1, <2>1
  <2>2. CASE s > 0
    <3>1. s \in 1 .. 7 /\ s - 1 \in 0 .. 7 /\ ~(s <= s - 1)
      BY <1>5, <2>2
    <3>2. ~(range * 2 ^ (s-1) >= 128)
      BY <1>3, <3>1
    <3> DEFINE p == P[s-1]
    <3>3. p \in Nat /\ P[s] = 2 * p /\ ~(range * p >= 128)
      BY <1>1, <3>1, <3>2
    <3> HIDE DEF p
    <3> QED
      BY <3>3
  <2> QED
    BY <1>5, <2>1, <2>2
<1>7. range * P[s] \in 128 .. 255
  <2> DEFINE x == range * P[s]
  <2>1. x \in Nat /\ x >= 128 /\ x <= 255
    BY <1>5, <1>6
  <2> HIDE DEF x
  <2>2. x \in 128 .. 255
    BY <2>1
  <2> QED
    BY <2>2 DEF x
<1>8. ASSUME NEW k \in 0 .. 7, range * 2 ^ k \in 128 .. 255 PROVE k = s
  <2>1. k \in S
    BY <1>8
  <2>2. s <= k
    BY <1>3, <2>1
  <2>3. ASSUME s < k PROVE FALSE
    <3> DEFINE m == k - 1 - s
    <3>1. k \in 1 .. 7 /\ k - 1 \in 0 .. 7 /\ m \in Nat /\ s \in Nat /\ s + m = k - 1
      BY <1>5, <2>3
    <3> HIDE DEF m
    <3>2. P[s + m] = P[s] * P[m]
      BY <3>1, PowersAdd, Zenon
    <3> DEFINE q == P[m]  p == P[s]  y == P[k-1]
    <3>4. q \in Nat \ {0}
      BY <3>1 DEF IsPower
    <3>5. y = p * q /\ P[k] = 2 * y /\ p \in Nat /\ range * p >= 128
      BY <1>1, <1>5, <3>1, <3>2
    <3>6. range * P[k] <= 255
      <4>1. 2 ^ k = P[k]
        BY <1>1
      <4>2. range * P[k] \in 128 .. 255
        BY <1>8, <4>1
      <4> QED
        BY <4>2
    <3> HIDE DEF p, q, y
    <3>7. p * q >= p
      BY <3>4, <3>5
    <3>8. range * y >= range * p
      BY <3>4, <3>5, <3>7, Z3
    <3>9. range * (2 * y) = 2 * (range * y) /\ range * y \in Nat
      BY <3>4, <3>5, Z3
    <3> QED
      BY <3>5, <3>6, <3>8, <3>9
  <2> QED
    BY <1>5, <2>2, <2>3
<1>9. Short(range) = s
  BY <1>1, <1>5, <1>7, <1>8 DEF Short
<1> QED
  BY <1>4, <1>5, <1>7, <1>9

\* The specification's decoder, between two bits.
Bools == [range : Nat, next : Nat, value : Int, bits : Seq({0, 1})]

LEMMA NextBitTyped ==
  ASSUME NEW bytes \in Seq(0 .. 255), NEW d \in Bools
  PROVE  NextBit(bytes, d) \in Bools
<1>1. d.range \in Nat /\ d.next \in Nat /\ d.value \in Int /\ d.bits \in Seq({0, 1})
  BY DEF Bools
<1>2. FrameBit(bytes, d.next) \in {0, 1}
  BY <1>1, FrameBits
<1>3. d.range * 2 \in Nat /\ d.next + 1 \in Nat /\ d.value * 2 + FrameBit(bytes, d.next) \in Int
  BY <1>1, <1>2
<1> QED
  BY <1>1, <1>3 DEF Bools, NextBit

IsWidening(h, bytes, d, m) ==
  /\ h[0] = d
  /\ \A k \in 1 .. m : h[k] = NextBit(bytes, h[k-1])
  /\ Widen(bytes, d) = h[m]

LEMMA WidenInTurn ==
  ASSUME NEW bytes \in Seq(0 .. 255), NEW d \in Bools, NEW m \in Nat, Short(d.range) = m
  PROVE  \E h : IsWidening(h, bytes, d, m)
<1> DEFINE n == m
           list == [k \in 1 .. Short(d.range) |-> k]
           S == Bools
           base == d
           step == [p \in (1 .. n) \X S |-> NextBit(bytes, p[2])]
           Body(g) == [s \in SUBSET (DOMAIN list) |->
                         IF s = {} THEN base ELSE NextBit(bytes, g[s \ {Max(s)}])]
<1>1. n \in Nat /\ DOMAIN list = 1 .. n
  OBVIOUS
<1>2. base \in S
  OBVIOUS
<1>3. ASSUME NEW c \in S, NEW k \in 1 .. n PROVE NextBit(bytes, c) \in S
  BY NextBitTyped
<1>5. PICK g \in [SUBSET (1 .. n) -> S] : IsFold(g, n, base, step)
  <2>1. \E g \in [SUBSET (1 .. n) -> S] : IsFold(g, n, base, step)
    <3>1. step \in [(1 .. n) \X S -> S]
      <4> HIDE DEF S, n, list
      <4> QED
        BY <1>1, <1>3
    <3> HIDE DEF S, n, base, step
    <3> QED
      BY <1>1, <1>2, <3>1, FoldExists
  <2> QED
    BY <2>1
<1>6. g = Body(g)
  <2>1. ASSUME NEW s \in SUBSET (1 .. n), s # {}
        PROVE  step[<<Max(s), g[s \ {Max(s)}]>>] = NextBit(bytes, g[s \ {Max(s)}])
    <3>1. Max(s) \in 1 .. n /\ g[s \ {Max(s)}] \in S
      <4> HIDE DEF S, n, list
      <4> QED
        BY <1>1, <1>5, <2>1, GreatestOf
    <3> HIDE DEF S, n, list
    <3> QED
      BY <3>1
  <2> HIDE DEF S, n, step, base, list
  <2> QED
    BY <1>1, <1>5, <2>1 DEF IsFold
<1> DEFINE it == CHOOSE f : f = Body(f)
<1>7. it = Body(it)
  <2> HIDE DEF Body
  <2> QED
    BY <1>6
<1>8. Widen(bytes, d) = it[DOMAIN list]
  BY DEF Widen, FoldLeft, MapThenFoldSet
<1> DEFINE h == [k \in 0 .. n |-> it[1 .. k]]
<1>9. h[0] = base
  <2>1. 1 .. 0 = {} /\ {} \in SUBSET DOMAIN list /\ 0 \in 0 .. n
    BY <1>1
  <2> HIDE DEF it, list
  <2> QED
    BY <1>7, <2>1
<1>10. ASSUME NEW k \in 1 .. n PROVE h[k] = NextBit(bytes, h[k-1])
  <2>1. /\ Max(1 .. k) = k /\ (1 .. k) \ {Max(1 .. k)} = 1 .. k-1
        /\ 1 .. k \in SUBSET DOMAIN list /\ 1 .. k # {} /\ k \in 0 .. n /\ k - 1 \in 0 .. n
    <3>1. k \in Nat \ {0} /\ k \in 0 .. n /\ k - 1 \in 0 .. n
      OBVIOUS
    <3> HIDE DEF list, it, h, n
    <3>2. Max(1 .. k) = k /\ (1 .. k) \ {Max(1 .. k)} = 1 .. k-1
      BY <3>1, GreatestUpTo
    <3>3. 1 .. k \in SUBSET DOMAIN list /\ 1 .. k # {}
      <4>1. n \in Nat /\ k \in 1 .. n /\ DOMAIN list = 1 .. n
        BY <1>1
      <4>2. 1 .. k \subseteq 1 .. n /\ 1 \in 1 .. k
        BY <4>1
      <4> QED
        BY <4>1, <4>2
    <3> QED
      BY <3>1, <3>2, <3>3
  <2> HIDE DEF it, n, list
  <2> QED
    BY <1>7, <2>1
<1>11. h[n] = it[DOMAIN list]
  <2> HIDE DEF it, list
  <2> QED
    BY <1>1
<1> HIDE DEF h, it, n, list
<1> QED
  BY <1>1, <1>8, <1>9, <1>10, <1>11 DEF n, list, IsWidening

\* What widening does to an interval, and to a value and what precedes it.
IsWidened(w, e, s, P, T) ==
  /\ w \in Bools
  /\ w.range = e.range * P[s]
  /\ w.next = e.next + s
  /\ w.value - T[w.next] = P[s] * (e.value - T[e.next])
  /\ w.bits = e.bits

LEMMA Widened ==
  ASSUME NEW bytes \in Seq(0 .. 255), NEW P, IsPower(P), NEW T, IsFirstBits(T, bytes),
         NEW e \in Bools, NEW s \in Nat, Short(e.range) = s
  PROVE  IsWidened(Widen(bytes, e), e, s, P, T)
<1>1. PICK h : IsWidening(h, bytes, e, s)
  BY WidenInTurn
<1>2. h[0] = e /\ (\A k \in 1 .. s : h[k] = NextBit(bytes, h[k-1])) /\ Widen(bytes, e) = h[s]
  BY <1>1 DEF IsWidening
<1> DEFINE R == {k \in 0 .. s : IsWidened(h[k], e, k, P, T)}
<1>3. P[0] = 1 /\ \A k \in Nat : P[k] \in Nat /\ P[k+1] = 2 * P[k]
  BY DEF IsPower
<1>4. \A k \in Nat : T[k] \in Nat /\ T[k+1] = 2 * T[k] + FrameBit(bytes, k)
  BY DEF IsFirstBits
<1>5. e.range \in Nat /\ e.next \in Nat /\ e.value \in Int /\ e.bits \in Seq({0, 1})
  BY DEF Bools
<1>6. 0 \in R
  <2> DEFINE x == e.value - T[e.next]
  <2>1. x \in Int /\ e.next + 0 = e.next /\ e.range * 1 = e.range
    <3>1. T[e.next] \in Nat
      BY <1>4, <1>5
    <3>2. x \in Int
      BY <1>5, <3>1
    <3>3. e.next + 0 = e.next /\ e.range * 1 = e.range
      BY <1>5
    <3> QED
      BY <3>2, <3>3
  <2>2. 1 * x = x
    <3> HIDE DEF x
    <3> QED
      BY <2>1
  <2>3. IsWidened(e, e, 0, P, T)
    BY <1>3, <2>1, <2>2 DEF IsWidened
  <2> QED
    BY <1>2, <2>3
<1>7. \A k \in 1 .. s : k - 1 \in R => k \in R
  <2> SUFFICES ASSUME NEW k \in 1 .. s, k - 1 \in R PROVE k \in R
    OBVIOUS
  <2> DEFINE g == h[k-1]
             r == h[k]
  <2>1. /\ g \in Bools /\ g.range = e.range * P[k-1] /\ g.next = e.next + (k - 1)
        /\ g.value - T[g.next] = P[k-1] * (e.value - T[e.next]) /\ g.bits = e.bits
    BY DEF IsWidened
  <2>2. r = NextBit(bytes, g)
    BY <1>2
  <2> HIDE DEF g, r
  <2>3. r \in Bools /\ g.next \in Nat /\ g.value \in Int
    BY <2>1, <2>2, NextBitTyped DEF Bools
  <2>4. /\ r.range = g.range * 2 /\ r.next = g.next + 1
        /\ r.value = g.value * 2 + FrameBit(bytes, g.next) /\ r.bits = g.bits
    BY <2>2 DEF NextBit
  <2>5. k - 1 \in Nat /\ k - 1 + 1 = k /\ k \in 0 .. s /\ e.next + (k - 1) + 1 = e.next + k
    BY <1>5
  <2>6. P[k] = 2 * P[k-1] /\ P[k-1] \in Nat
    BY <1>3, <2>5
  <2>7. FrameBit(bytes, g.next) \in {0, 1} /\ T[g.next] \in Nat /\ T[e.next] \in Nat
        /\ T[g.next + 1] = 2 * T[g.next] + FrameBit(bytes, g.next)
    BY <1>4, <1>5, <2>3, FrameBits
  <2> DEFINE p == P[k-1]  x == e.value - T[e.next]  v == g.value  t == T[g.next]
             f == FrameBit(bytes, g.next)  z == e.range
  <2>8. p \in Nat /\ x \in Int /\ v \in Int /\ t \in Nat /\ f \in Int /\ v - t = p * x /\ z \in Nat
    <3>1. p \in Nat /\ v \in Int /\ t \in Nat /\ f \in Int /\ z \in Nat
      BY <1>5, <2>3, <2>6, <2>7
    <3>2. x \in Int
      BY <1>5, <2>7
    <3>3. v - t = p * x
      BY <2>1
    <3> QED
      BY <3>1, <3>2, <3>3
  <2>9. r.value = v * 2 + f /\ T[r.next] = 2 * t + f /\ P[k] = 2 * p /\ r.range = z * p * 2
    BY <2>1, <2>4, <2>6, <2>7
  <2> HIDE DEF p, x, v, t, f, z
  <2>10. v * 2 + f - (2 * t + f) = (2 * p) * x /\ z * p * 2 = z * (2 * p)
    <3>1. (2 * p) * x = 2 * (p * x) /\ p * x \in Int
      BY <2>8
    <3>2. z * p * 2 = z * (2 * p)
      BY <2>8
    <3> QED
      BY <2>8, <3>1, <3>2
  <2>11. r.value - T[r.next] = P[k] * x
    <3>1. r.value - T[r.next] = v * 2 + f - (2 * t + f)
      <4> DEFINE a == r.value  b == T[r.next]
      <4>1. a = v * 2 + f /\ b = 2 * t + f
        BY <2>9
      <4> HIDE DEF a, b
      <4>2. a - b = v * 2 + f - (2 * t + f)
        BY <2>8, <4>1
      <4> QED
        BY <4>2 DEF a, b
    <3>2. P[k] * x = (2 * p) * x
      BY <2>9
    <3> QED
      BY <2>10, <3>1, <3>2, Zenon
  <2>12. r.range = e.range * P[k]
    BY <2>9, <2>10 DEF z
  <2>13. r.next = e.next + k /\ r.bits = e.bits
    BY <2>1, <2>4, <2>5
  <2>14. IsWidened(r, e, k, P, T)
    BY <2>3, <2>11, <2>12, <2>13 DEF IsWidened, x
  <2> QED
    BY <2>5, <2>14 DEF r
<1>8. 0 .. s \subseteq R
  <2> HIDE DEF R
  <2> QED
    BY <1>6, <1>7, InductionUpTo
<1>9. s \in 0 .. s
  OBVIOUS
<1> QED
  BY <1>2, <1>8, <1>9

-----------------------------------------------------------------------------
(* The driver's decoder.                                                   *)

\* It has fetched a bit it has not consumed, or everything.
Racs(bytes) ==
  {c \in [high : 1 .. 255, bits : Int, next : Nat \ {0}, code : Int] :
     c.bits >= -16 /\ c.next <= Len(bytes) + 1 /\ (c.bits < 0 \/ c.next = Len(bytes) + 1)}

\* What a renormalisation by s bits makes of it.
IsRenormed(r, c, bytes, s, P) ==
  LET bits == c.bits + s
      more == bits >= 0 /\ c.next <= Len(bytes)
  IN /\ r.high = c.high * P[s]
     /\ r.bits = IF more THEN bits - 16 ELSE bits
     /\ r.next = IF more THEN (IF c.next = Len(bytes) THEN c.next + 1 ELSE c.next + 2)
                 ELSE c.next
     /\ r.code = IF more
                 THEN c.code * P[s]
                        + (ByteAt(bytes, c.next) * 256 + ByteAt(bytes, c.next + 1)) * P[bits]
                 ELSE c.code * P[s]
     /\ more => bits \in 0 .. 6

\* Scaling by so many bits, the next two bytes fetched when they are due.
Fetched(bytes, i) == ByteAt(bytes, i) * 256 + ByteAt(bytes, i + 1)

RenormBy(c, bytes, s) ==
  LET bits   == c.bits + s
      scaled == [c EXCEPT !.high = @ * 2 ^ s, !.bits = bits, !.code = c.code * 2 ^ s]
  IN IF bits >= 0 /\ c.next <= Len(bytes)
     THEN [scaled EXCEPT !.code = @ + Fetched(bytes, c.next) * 2 ^ bits, !.bits = bits - 16,
                         !.next = Min({@ + 2, Len(bytes) + 1})]
     ELSE scaled

LEMMA RenormIs ==
  ASSUME NEW bytes, NEW c
  PROVE  RacRenorm(c, bytes) = RenormBy(c, bytes, NormShift(c.high))
  BY Zenon DEF RacRenorm, RenormBy, Fetched, ByteAt

LEMMA Renormed ==
  ASSUME NEW bytes \in Seq(0 .. 255), NEW P, IsPower(P), NEW c \in Racs(bytes),
         NEW s \in 0 .. 7, NormShift(c.high) = s, 2 ^ s = P[s]
  PROVE  IsRenormed(RacRenorm(c, bytes), c, bytes, s, P)
<1>10. \A k \in 0 .. 7 : 2 ^ k = P[k]
  BY SmallPowers
<1> DEFINE bits == c.bits + s
           more == bits >= 0 /\ c.next <= Len(bytes)
           r == RacRenorm(c, bytes)
           scaled == [c EXCEPT !.high = @ * 2 ^ s, !.bits = bits, !.code = c.code * 2 ^ s]
           fetched == Fetched(bytes, c.next) * 2 ^ bits
<1>1. /\ c \in [high : 1 .. 255, bits : Int, next : Nat \ {0}, code : Int]
      /\ c.bits >= -16 /\ c.next <= Len(bytes) + 1 /\ (c.bits < 0 \/ c.next = Len(bytes) + 1)
  BY DEF Racs
<1>2. r = IF more THEN [scaled EXCEPT !.code = @ + fetched, !.bits = bits - 16,
                                      !.next = Min({@ + 2, Len(bytes) + 1})]
          ELSE scaled
  <2>1. r = RenormBy(c, bytes, s)
    BY RenormIs, Zenon
  <2> QED
    BY <2>1, Zenon DEF RenormBy
<1>3. /\ scaled.high = c.high * P[s] /\ scaled.bits = bits /\ scaled.next = c.next
      /\ scaled.code = c.code * P[s]
      /\ DOMAIN scaled = {"high", "bits", "next", "code"}
  BY <1>1
<1>4. c.bits \in Int /\ c.next \in Nat \ {0} /\ Len(bytes) \in Nat
  BY <1>1
<1>5. more => bits \in 0 .. 6
  <2> SUFFICES ASSUME more PROVE bits \in 0 .. 6
    OBVIOUS
  <2>1. c.bits < 0
    BY <1>1, <1>4
  <2> QED
    BY <1>4, <2>1, SMTT(40)
<1>6. more => 2 ^ bits = P[bits]
  <2>2. more => bits \in 0 .. 7
    BY <1>5
  <2> HIDE DEF bits, more
  <2> QED
    BY <1>10, <2>2
<1>7. more => Min({c.next + 2, Len(bytes) + 1}) = IF c.next = Len(bytes) THEN c.next + 1 ELSE c.next + 2
  <2> SUFFICES ASSUME c.next <= Len(bytes)
               PROVE  Min({c.next + 2, Len(bytes) + 1})
                        = IF c.next = Len(bytes) THEN c.next + 1 ELSE c.next + 2
    OBVIOUS
  <2>1. Min({c.next + 2, Len(bytes) + 1})
          = IF c.next + 2 <= Len(bytes) + 1 THEN c.next + 2 ELSE Len(bytes) + 1
    <3> DEFINE a == c.next + 2  b == Len(bytes) + 1
    <3>1. a \in Int /\ b \in Int
      BY <1>4
    <3> HIDE DEF a, b
    <3> QED
      BY <3>1, MinOfTwo DEF a, b
  <2> QED
    BY <1>4, <2>1
<1> HIDE DEF bits, scaled, fetched
<1>8. CASE more
  <2>1. r = [scaled EXCEPT !.code = @ + fetched, !.bits = bits - 16,
                           !.next = Min({@ + 2, Len(bytes) + 1})]
    BY <1>2, <1>8
  <2>2. /\ r.high = scaled.high /\ r.bits = bits - 16 /\ r.code = scaled.code + fetched
        /\ r.next = Min({scaled.next + 2, Len(bytes) + 1})
    BY <1>3, <2>1
  <2>3. fetched = (ByteAt(bytes, c.next) * 256 + ByteAt(bytes, c.next + 1)) * P[bits]
    BY <1>6, <1>8 DEF fetched, Fetched
  <2> HIDE DEF r
  <2> QED
    BY <1>3, <1>5, <1>7, <1>8, <2>2, <2>3 DEF IsRenormed, r, bits
<1>9. CASE ~more
  <2>1. r = scaled
    BY <1>2, <1>9
  <2> HIDE DEF r
  <2> QED
    BY <1>3, <1>9, <2>1 DEF IsRenormed, r, bits
<1> QED
  BY <1>8, <1>9

LEMMA ByteTyped ==
  ASSUME NEW bytes \in Seq(0 .. 255), NEW i \in Nat \ {0}
  PROVE  ByteAt(bytes, i) \in 0 .. 255
<1>1. CASE i <= Len(bytes)
  <2>1. i \in 1 .. Len(bytes)
    BY <1>1
  <2>2. bytes[i] \in 0 .. 255
    BY <2>1, ElementOfSeq
  <2> QED
    BY <1>1, <2>2 DEF ByteAt
<1>2. CASE ~(i <= Len(bytes))
  BY <1>2 DEF ByteAt
<1> QED
  BY <1>1, <1>2

LEMMA RenormTyped ==
  ASSUME NEW bytes \in Seq(0 .. 255), NEW P, IsPower(P), NEW c \in Racs(bytes),
         NEW s \in 0 .. 7, c.high * P[s] \in 128 .. 255,
         NEW r, r \in [high : Int, bits : Int, next : Int, code : Int],
         IsRenormed(r, c, bytes, s, P)
  PROVE  r \in Racs(bytes) /\ r.high \in 128 .. 255
<1> DEFINE bits == c.bits + s
           more == bits >= 0 /\ c.next <= Len(bytes)
<1>1. /\ c.bits \in Int /\ c.next \in Nat \ {0} /\ Len(bytes) \in Nat
      /\ c.bits >= -16 /\ c.next <= Len(bytes) + 1 /\ (c.bits < 0 \/ c.next = Len(bytes) + 1)
  BY DEF Racs
<1>2. /\ r.high = c.high * P[s]
      /\ r.bits = IF more THEN bits - 16 ELSE bits
      /\ r.next = IF more THEN (IF c.next = Len(bytes) THEN c.next + 1 ELSE c.next + 2)
                  ELSE c.next
      /\ more => bits \in 0 .. 6
  BY DEF IsRenormed
<1>3. r.high \in 128 .. 255
  BY <1>2
<1>4. /\ r.bits >= -16 /\ r.next \in Nat \ {0} /\ r.next <= Len(bytes) + 1
      /\ r.bits < 0 \/ r.next = Len(bytes) + 1
  <2>1. bits \in Int /\ bits >= -16
    BY <1>1, SMTT(40)
  <2> DEFINE l == Len(bytes)  m == c.next
  <2>2. l \in Nat /\ m \in Nat \ {0} /\ m <= l + 1
    BY <1>1
  <2>3. CASE more
    <3>1. /\ r.bits = bits - 16 /\ bits \in 0 .. 6 /\ m <= l
          /\ r.next = IF m = l THEN m + 1 ELSE m + 2
      BY <1>2, <2>3
    <3> HIDE DEF bits, l, m
    <3>2. r.bits >= -16 /\ r.bits < 0 /\ r.next \in Nat \ {0} /\ r.next <= l + 1
      BY <2>2, <3>1
    <3> QED
      BY <3>2 DEF l
  <2>4. CASE ~more
    <3>1. r.bits = bits /\ r.next = m
      BY <1>2, <2>4
    <3>2. bits < 0 \/ ~(m <= l)
      BY <2>1, <2>4
    <3> HIDE DEF bits, l, m
    <3>3. /\ r.bits >= -16 /\ r.next \in Nat \ {0} /\ r.next <= l + 1
          /\ r.bits < 0 \/ r.next = l + 1
      BY <2>1, <2>2, <3>1, <3>2
    <3> QED
      BY <3>3 DEF l
  <2> QED
    BY <2>3, <2>4
<1>5. r \in [high : 1 .. 255, bits : Int, next : Nat \ {0}, code : Int]
  BY <1>3, <1>4
<1> QED
  BY <1>3, <1>4, <1>5 DEF Racs

LEMMA RenormIsRac ==
  ASSUME NEW bytes \in Seq(0 .. 255), NEW P, IsPower(P), NEW c \in Racs(bytes)
  PROVE  /\ RacRenorm(c, bytes) \in Racs(bytes)
         /\ RacRenorm(c, bytes).high \in 128 .. 255
         /\ \E s \in 0 .. 7 : /\ NormShift(c.high) = s /\ Short(c.high) = s
                              /\ IsRenormed(RacRenorm(c, bytes), c, bytes, s, P)
<1> DEFINE r == RacRenorm(c, bytes)
<1>1. /\ c \in [high : 1 .. 255, bits : Int, next : Nat \ {0}, code : Int]
      /\ c.high \in 1 .. 255 /\ c.code \in Int /\ c.next \in Nat \ {0}
  BY DEF Racs
<1>2. PICK s \in 0 .. 7 : /\ NormShift(c.high) = s /\ Short(c.high) = s
                          /\ c.high * P[s] \in 128 .. 255 /\ 2 ^ s = P[s]
  BY <1>1, Shifts, Zenon
<1>3. IsRenormed(r, c, bytes, s, P)
  BY <1>2, Renormed
<1>4. DOMAIN r = {"high", "bits", "next", "code"} /\ r = [k \in {"high", "bits", "next", "code"} |-> r[k]]
  <2>1. r = RenormBy(c, bytes, s)
    BY <1>2, RenormIs, Zenon
  <2>2. DOMAIN c = {"high", "bits", "next", "code"}
    BY <1>1
  <2> HIDE DEF r
  <2> QED
    BY <2>1, <2>2, Zenon DEF RenormBy
<1> DEFINE bits == c.bits + s
           more == bits >= 0 /\ c.next <= Len(bytes)
           fetched == ByteAt(bytes, c.next) * 256 + ByteAt(bytes, c.next + 1)
<1>5. /\ r.bits = IF more THEN bits - 16 ELSE bits
      /\ r.next = IF more THEN (IF c.next = Len(bytes) THEN c.next + 1 ELSE c.next + 2)
                  ELSE c.next
      /\ r.code = IF more THEN c.code * P[s] + fetched * P[bits] ELSE c.code * P[s]
      /\ r.high = c.high * P[s]
      /\ more => bits \in 0 .. 6
  BY <1>3 DEF IsRenormed
<1>6. /\ c.bits \in Int /\ bits \in Int /\ P[s] \in Nat /\ (more => P[bits] \in Nat)
      /\ fetched \in Nat
  <2>1. ByteAt(bytes, c.next) \in 0 .. 255 /\ ByteAt(bytes, c.next + 1) \in 0 .. 255
    <3>1. c.next + 1 \in Nat \ {0}
      BY <1>1
    <3> QED
      BY <1>1, <3>1, ByteTyped
  <2>2. c.bits \in Int /\ bits \in Int /\ fetched \in Nat
    <3>1. c.bits \in Int
      BY <1>1
    <3> DEFINE x == ByteAt(bytes, c.next)  y == ByteAt(bytes, c.next + 1)
    <3>2. x \in 0 .. 255 /\ y \in 0 .. 255
      BY <2>1
    <3> HIDE DEF x, y
    <3>3. x * 256 + y \in Nat
      BY <3>2
    <3> QED
      BY <3>1, <3>3 DEF x, y
  <2>3. \A k \in Nat : P[k] \in Nat
    BY DEF IsPower
  <2>4. s \in Nat /\ (more => bits \in Nat)
    BY <1>5
  <2> HIDE DEF more, bits
  <2> QED
    BY <2>2, <2>3, <2>4
<1> HIDE DEF r, bits, more, fetched
<1>7. r.high \in Int /\ r.bits \in Int /\ r.next \in Int
  <2>1. r.high \in Int
    <3>1. r.high \in 128 .. 255
      BY <1>2, <1>5, Zenon
    <3> DEFINE y == r.high
    <3>2. y \in 128 .. 255
      BY <3>1
    <3> HIDE DEF y
    <3>3. y \in Int
      BY <3>2
    <3> QED
      BY <3>3 DEF y
  <2>2. r.bits \in Int
    BY <1>5, <1>6
  <2>3. r.next \in Int
    BY <1>1, <1>5
  <2> QED
    BY <2>1, <2>2, <2>3
<1>8. r.code \in Int
  <2> DEFINE a == c.code  p == P[s]  q == P[bits]
  <2>1. a \in Int /\ p \in Nat /\ (more => q \in Nat) /\ fetched \in Nat
    BY <1>1, <1>6
  <2>2. r.code = IF more THEN a * p + fetched * q ELSE a * p
    BY <1>5
  <2> HIDE DEF a, p, q
  <2>3. a * p \in Int /\ (more => fetched * q \in Int)
    BY <2>1
  <2>4. more => a * p + fetched * q \in Int
    BY <2>3
  <2> QED
    BY <2>2, <2>3, <2>4
<1>9. r \in [high : Int, bits : Int, next : Int, code : Int]
  BY <1>4, <1>7, <1>8, SMTT(30)
<1>10. r \in Racs(bytes) /\ r.high \in 128 .. 255
  BY <1>2, <1>3, <1>9, RenormTyped, Zenon
<1> QED
  BY <1>2, <1>3, <1>10 DEF r

\* Both split the interval at the same place, inside it.
LEMMA Splits ==
  ASSUME NEW high \in 128 .. 255, NEW prob \in 0 .. 255
  PROVE  /\ LowOf(high, prob) = 1 + ((high - 1) * (IF prob = Even THEN 128 ELSE prob)) \div 256
         /\ LowOf(high, prob) \in 1 .. high - 1
<1> DEFINE q == IF prob = Even THEN 128 ELSE prob
           h == high - 1
           a == h * q
<1>1. q \in 1 .. 255 /\ h \in Nat \ {0}
  BY DEF Even
<1>2. LowOf(high, prob) = 1 + a \div 256
  <2>1. CASE prob = Even
    <3>1. (high + 1) \div 2 = 1 + ((high - 1) * 128) \div 256
      OBVIOUS
    <3> QED
      BY <2>1, <3>1 DEF LowOf
  <2>2. CASE prob # Even
    BY <2>2 DEF LowOf
  <2> QED
    BY <2>1, <2>2
<1>3. a \in Nat /\ a < h * 256
  <2> HIDE DEF q, h
  <2> QED
    BY <1>1, Z3
<1>4. a \div 256 \in Nat /\ a \div 256 < h
  <2> HIDE DEF a
  <2>1. a \div 256 < h
    BY <1>1, <1>3, QuotientBelow
  <2>2. a \div 256 \in Nat
    BY <1>3
  <2> QED
    BY <2>1, <2>2
<1>5. 1 + a \div 256 \in 1 .. high - 1
  <2> DEFINE z == a \div 256
  <2>1. z \in Nat /\ z < high - 1
    BY <1>4
  <2> HIDE DEF z
  <2>2. 1 + z \in 1 .. high - 1
    BY <2>1
  <2> QED
    BY <2>2 DEF z
<1> QED
  BY <1>2, <1>5

\* The driver's decoder holds the value of the specification's scaled by 2^16,
\* with the bits it has fetched below it: r.bits counts them, back from the next
\* bit of the specification's.
AtSame(r, d, bytes, P, T) ==
  /\ d.next - r.bits \in Nat
  /\ r.code = (d.value - T[d.next]) * 65536 + T[d.next - r.bits] * P[16 + r.bits]
  /\ \/ r.next <= Len(bytes) /\ d.next - r.bits = 8 * (r.next - 1)
     \/ r.next = Len(bytes) + 1 /\ d.next - r.bits >= 8 * Len(bytes)

\* So both compare alike with where the interval is split.
IsOneAlike(r, d, low) == r.code >= low * 65536 <=> d.value >= low

LEMMA Compares ==
  ASSUME NEW bytes \in Seq(0 .. 255), NEW P, IsPower(P), NEW T, IsFirstBits(T, bytes),
         NEW r \in Racs(bytes), NEW d \in Bools, AtSame(r, d, bytes, P, T), NEW low \in Int
  PROVE  IsOneAlike(r, d, low)
<1> DEFINE n == d.next
           b == r.bits
           v == d.value
           t == T[n]
           e == T[n - b]
           q == P[16 + b]
           l == Len(bytes)
<1>1. n \in Nat /\ v \in Int /\ b \in Int /\ b >= -16 /\ n - b \in Nat /\ l \in Nat
  BY DEF Bools, Racs, AtSame
<1>2. (b < 0 \/ r.next = l + 1) /\ (r.next = l + 1 => n - b >= 8 * l)
  BY <1>1 DEF Racs, AtSame
<1>3. r.code = (v - t) * 65536 + e * q
  BY DEF AtSame
<1>4. \A k \in Nat : T[k] \in Nat /\ P[k] \in Nat \ {0}
  BY DEF IsPower, IsFirstBits
<1>5. P[16] = 65536
  BY PowerValues
<1>6. 16 + b \in Nat
  BY <1>1
<1>7. t \in Nat /\ e \in Nat /\ q \in Nat \ {0}
  BY <1>1, <1>4, <1>6
<1> HIDE DEF n, b, v, l
<1>8. t * 65536 <= e * q /\ e * q < (t + 1) * 65536
  <2>1. CASE b < 0
    <3> DEFINE j == -b
               p == P[j]
    <3>1. j \in Nat /\ j + (16 + b) = 16 /\ n + j = n - b
      BY <1>1, <2>1
    <3> HIDE DEF j
    <3>2. T[n] * P[j] <= T[n+j] /\ T[n+j] < (T[n] + 1) * P[j]
      BY <1>1, <3>1, PrefixAhead
    <3>3. t * p <= e /\ e < (t + 1) * p
      BY <3>1, <3>2
    <3>4. P[j + (16 + b)] = P[j] * P[16 + b]
      BY <1>6, <3>1, PowersAdd, Zenon
    <3>5. p * q = 65536 /\ p \in Nat
      BY <1>4, <1>5, <3>1, <3>4
    <3> HIDE DEF t, e, q, p
    <3>6. (t * p) * q <= e * q /\ e * q < ((t + 1) * p) * q
      <4> DEFINE x == t * p  y == (t + 1) * p
      <4>1. x \in Nat /\ y \in Nat /\ x <= e /\ e < y
        BY <1>7, <3>3, <3>5
      <4> HIDE DEF x, y
      <4>2. x * q <= e * q /\ e * q < y * q
        BY <1>7, <4>1, Z3
      <4> QED
        BY <4>2 DEF x, y
    <3>7. (t * p) * q = t * (p * q) /\ ((t + 1) * p) * q = (t + 1) * (p * q)
      BY <1>7, <3>5, Z3
    <3> QED
      BY <3>5, <3>6, <3>7
  <2>2. CASE ~(b < 0)
    <3>1. n - b >= 8 * l /\ b \in Nat /\ n - b \in Nat /\ (n - b) + b = n
      BY <1>1, <1>2, <2>2
    <3> DEFINE m == n - b
    <3>2. m \in Nat /\ m >= 8 * l /\ m + b = n
      BY <3>1
    <3> HIDE DEF m
    <3>3. T[m+b] = T[m] * P[b]
      <4>1. m \in Nat /\ b \in Nat /\ m >= 8 * Len(bytes)
        BY <3>1, <3>2 DEF l
      <4> QED
        BY <4>1, PrefixAhead
    <3>4. P[16+b] = P[16] * P[b]
      BY <3>1, PowersAdd, Zenon
    <3> DEFINE p == P[b]
    <3>5. t = e * p /\ q = 65536 * p /\ p \in Nat
      BY <1>4, <1>5, <3>1, <3>2, <3>3, <3>4 DEF m
    <3> HIDE DEF t, e, q, p
    <3>6. t * 65536 = e * q
      BY <1>7, <3>5, Z3
    <3>7. t * 65536 < (t + 1) * 65536 /\ t * 65536 <= t * 65536
      BY <1>7
    <3> QED
      BY <3>6, <3>7
  <2> QED
    BY <2>1, <2>2
<1> DEFINE a == e * q
           c == r.code
<1>9. c = (v - t) * 65536 + a /\ a \in Nat /\ t * 65536 <= a /\ a < (t + 1) * 65536
  <2>1. a \in Nat
    <3> HIDE DEF e, q
    <3> QED
      BY <1>7
  <2> QED
    BY <1>3, <1>8, <2>1
<1> HIDE DEF a, c, t, e, q
<1>10. c >= low * 65536 <=> v >= low
  <2>1. (v - t) * 65536 = v * 65536 - t * 65536 /\ (t + 1) * 65536 = t * 65536 + 65536
    BY <1>1, <1>7
  <2> QED
    BY <1>1, <1>7, <1>9, <2>1
<1> QED
  BY <1>10 DEF c, v, IsOneAlike

\* Two bytes are fetched into the number of the first bits at once.
LEMMA PrefixOfTwoBytes ==
  ASSUME NEW bytes \in Seq(0 .. 255), NEW T, IsFirstBits(T, bytes), NEW k \in Nat
  PROVE  LET fetched == ByteAt(bytes, k + 1) * 256 + ByteAt(bytes, k + 2)
         IN T[8 * k + 16] = T[8 * k] * 65536 + fetched /\ fetched \in Nat
<1> DEFINE b1 == ByteAt(bytes, k + 1)
           b2 == ByteAt(bytes, k + 2)
           t == T[8 * k]
           u == T[8 * k + 8]
           v == T[8 * k + 16]
<1>1. u = 256 * t + b1 /\ b1 \in 0 .. 255
  BY PrefixOfByte
<1>2. v = 256 * u + b2 /\ b2 \in 0 .. 255
  <2>1. PICK j \in Nat : j = k + 1
    OBVIOUS
  <2>2. T[8 * j + 8] = 256 * T[8 * j] + ByteAt(bytes, j + 1) /\ ByteAt(bytes, j + 1) \in 0 .. 255
    BY PrefixOfByte, SMTT(40)
  <2>3. 8 * j + 8 = 8 * k + 16 /\ 8 * j = 8 * k + 8 /\ j + 1 = k + 2
    BY <2>1
  <2> QED
    BY <2>2, <2>3
<1>3. t \in Nat
  <2>1. 8 * k \in Nat
    OBVIOUS
  <2> QED
    BY <2>1 DEF IsFirstBits
<1> HIDE DEF b1, b2, t, u, v
<1>4. v = t * 65536 + (b1 * 256 + b2) /\ b1 * 256 + b2 \in Nat
  BY <1>1, <1>2, <1>3
<1> QED
  BY <1>4 DEF b1, b2, t, v

\* Both widen the interval alike, the driver fetching two bytes when it has
\* consumed those it had.
LEMMA Renews ==
  ASSUME NEW bytes \in Seq(0 .. 255), NEW P, IsPower(P), NEW T, IsFirstBits(T, bytes),
         NEW c \in Racs(bytes), NEW e \in Bools, AtSame(c, e, bytes, P, T),
         c.high = e.range
  PROVE  /\ AtSame(RacRenorm(c, bytes), Widen(bytes, e), bytes, P, T)
         /\ RacRenorm(c, bytes).high = Widen(bytes, e).range
         /\ Widen(bytes, e) \in Bools
         /\ Widen(bytes, e).bits = e.bits
<1> DEFINE r == RacRenorm(c, bytes)
           w == Widen(bytes, e)
           l == Len(bytes)
<1>1. PICK s \in 0 .. 7 : Short(c.high) = s /\ IsRenormed(r, c, bytes, s, P)
  BY RenormIsRac
<1>2. IsWidened(w, e, s, P, T)
  BY <1>1, Widened
<1>3. /\ w \in Bools /\ w.range = e.range * P[s] /\ w.next = e.next + s
      /\ w.value - T[w.next] = P[s] * (e.value - T[e.next]) /\ w.bits = e.bits
  BY <1>2 DEF IsWidened
<1> DEFINE bits == c.bits + s
           more == bits >= 0 /\ c.next <= Len(bytes)
           fetched == ByteAt(bytes, c.next) * 256 + ByteAt(bytes, c.next + 1)
<1>4. /\ r.high = c.high * P[s]
      /\ r.bits = IF more THEN bits - 16 ELSE bits
      /\ r.next = IF more THEN (IF c.next = Len(bytes) THEN c.next + 1 ELSE c.next + 2)
                  ELSE c.next
      /\ r.code = IF more THEN c.code * P[s] + fetched * P[bits] ELSE c.code * P[s]
      /\ more => bits \in 0 .. 6
  BY <1>1 DEF IsRenormed
<1>5. /\ c.bits \in Int /\ c.bits >= -16 /\ c.next \in Nat \ {0} /\ l \in Nat
      /\ e.next \in Nat /\ e.value \in Int /\ e.next - c.bits \in Nat /\ s \in Nat
  BY SMTT(40) DEF Racs, Bools, AtSame
<1>6. /\ c.code = (e.value - T[e.next]) * 65536 + T[e.next - c.bits] * P[16 + c.bits]
      /\ \/ c.next <= l /\ e.next - c.bits = 8 * (c.next - 1)
         \/ c.next = l + 1 /\ e.next - c.bits >= 8 * l
  BY DEF AtSame
<1>7. \A k \in Nat : T[k] \in Nat /\ P[k] \in Nat \ {0}
  BY DEF IsPower, IsFirstBits
<1> DEFINE x == e.value - T[e.next]
           m == e.next - c.bits
           t == T[m]
           p == P[s]
           q == P[16 + c.bits]
           u == P[16 + bits]
<1>8. x \in Int /\ m \in Nat /\ t \in Nat /\ p \in Nat /\ q \in Nat /\ u \in Nat /\ bits \in Int
      /\ 16 + bits \in Nat
  <2>1. T[e.next] \in Nat /\ T[m] \in Nat
    BY <1>5, <1>7
  <2>2. 16 + c.bits \in Nat /\ 16 + bits \in Nat /\ bits \in Int
    <3> DEFINE b == c.bits
    <3>1. b \in Int /\ b >= -16 /\ s \in Nat
      BY <1>5
    <3> HIDE DEF b
    <3>2. 16 + b \in Nat /\ 16 + (b + s) \in Nat /\ b + s \in Int
      BY <3>1
    <3> QED
      BY <3>2 DEF b
  <2>3. P[s] \in Nat /\ P[16 + c.bits] \in Nat /\ P[16 + bits] \in Nat
    BY <1>5, <1>7, <2>2
  <2>4. x \in Int
    BY <1>5, <2>1
  <2> QED
    BY <1>5, <2>1, <2>2, <2>3, <2>4
<1>9. u = q * p
  <2>1. 16 + c.bits \in Nat /\ (16 + c.bits) + s = 16 + bits
    BY <1>5, SMTT(40)
  <2>2. P[(16 + c.bits) + s] = P[16 + c.bits] * P[s]
    BY <1>5, <2>1, PowersAdd, Zenon
  <2> QED
    BY <2>1, <2>2
<1>10. c.code = x * 65536 + t * q
  BY <1>6
<1>11. c.code * p = (p * x) * 65536 + t * u /\ c.code * p \in Int
  <2> HIDE DEF x, t, p, q, u
  <2>1. (x * 65536 + t * q) * p = (p * x) * 65536 + t * (q * p)
    BY <1>8, Z3
  <2>2. (p * x) * 65536 + t * u \in Int
    <3> DEFINE y == p * x  z == t * u
    <3>1. y \in Int /\ z \in Int
      BY <1>8
    <3> HIDE DEF y, z
    <3>2. y * 65536 + z \in Int
      BY <3>1
    <3> QED
      BY <3>2 DEF y, z
  <2> QED
    BY <1>9, <1>10, <2>1, <2>2
<1>12. w.value - T[w.next] = p * x
  BY <1>3
<1>13. r.high = w.range
  BY <1>3, <1>4
<1>14. CASE ~more
  <2>1. r.bits = bits /\ r.next = c.next /\ r.code = c.code * p
    BY <1>4, <1>14
  <2>2. w.next - r.bits = m
    BY <1>3, <1>5, <2>1
  <2>3. r.code = (w.value - T[w.next]) * 65536 + T[w.next - r.bits] * P[16 + r.bits]
    BY <1>11, <1>12, <2>1, <2>2
  <2>4. m \in Nat
    BY <1>8
  <2> HIDE DEF r, w, x, p, q, u, t, bits
  <2> QED
    BY <1>6, <1>3, <1>13, <2>1, <2>2, <2>3, <2>4 DEF AtSame, r, w
<1>15. CASE more
  <2>1. /\ r.bits = bits - 16 /\ bits \in 0 .. 6 /\ c.next <= l
        /\ r.next = IF c.next = l THEN c.next + 1 ELSE c.next + 2
        /\ r.code = c.code * p + fetched * P[bits]
    BY <1>4, <1>15
  <2> DEFINE k == c.next - 1
             z == P[bits]
  <2>2. m = 8 * k /\ k \in Nat /\ 8 * k + 8 = 8 * (k + 1) /\ 8 * (k + 1) + 8 = m + 16
        /\ k + 1 = c.next /\ k + 1 + 1 = c.next + 1 /\ k + 1 \in Nat
    <3>1. ~(c.next = l + 1)
      BY <1>5, <2>1
    <3>2. m = 8 * k
      BY <1>6, <3>1
    <3>3. k \in Nat /\ k + 1 = c.next
      BY <1>5
    <3> HIDE DEF m, k
    <3>4. 8 * k + 8 = 8 * (k + 1) /\ 8 * (k + 1) + 8 = m + 16 /\ k + 1 \in Nat
      BY <3>2, <3>3
    <3>5. k + 1 + 1 = c.next + 1
      BY <3>3
    <3> QED
      BY <3>2, <3>3, <3>4, <3>5
  <2>3. T[m + 16] = t * 65536 + fetched /\ fetched \in Nat
    <3> HIDE DEF m, k
    <3>1. T[8 * k + 16] = T[8 * k] * 65536 + (ByteAt(bytes, k + 1) * 256 + ByteAt(bytes, k + 2))
          /\ ByteAt(bytes, k + 1) * 256 + ByteAt(bytes, k + 2) \in Nat
      BY <2>2, PrefixOfTwoBytes
    <3>2. 8 * k + 16 = m + 16 /\ 8 * k = m /\ k + 2 = c.next + 1
      BY <2>2
    <3> QED
      BY <2>2, <3>1, <3>2
  <2>4. w.next - r.bits = m + 16 /\ m + 16 \in Nat /\ 16 + r.bits = bits
    <3>1. w.next - r.bits = m + 16 /\ 16 + r.bits = bits
      <4> DEFINE a == e.next  b == c.bits  y == w.next  g == r.bits
      <4>1. a \in Nat /\ b \in Int /\ s \in Nat /\ y = a + s /\ g = b + s - 16
        BY <1>3, <1>5, <2>1, SMTT(40)
      <4> HIDE DEF a, b, y, g
      <4>2. y - g = a - b + 16 /\ 16 + g = b + s
        BY <4>1
      <4> QED
        BY <4>2 DEF a, b, y, g
    <3> HIDE DEF m, bits
    <3> QED
      BY <1>8, <3>1
  <2>5. u = 65536 * z /\ z \in Nat
    <3>1. bits \in Nat
      BY <2>1
    <3> HIDE DEF bits
    <3>2. P[16 + bits] = P[16] * P[bits]
      BY <3>1, PowersAdd, Zenon
    <3>3. P[16] = 65536
      BY PowerValues
    <3>4. P[bits] \in Nat
      BY <1>7, <3>1
    <3> QED
      BY <3>2, <3>3, <3>4
  <2>6. c.code * p + fetched * z = (p * x) * 65536 + (t * 65536 + fetched) * z
    <3> DEFINE y == p * x  f == fetched  a == c.code * p
    <3> HIDE DEF x, t, p, q, u, f, z, y, a
    <3>1. y \in Int /\ f \in Nat /\ a = y * 65536 + t * (65536 * z)
      BY <1>8, <1>11, <2>3, <2>5 DEF y, f, a
    <3>2. a + f * z = y * 65536 + (t * 65536 + f) * z
      BY <1>8, <2>5, <3>1, Z3
    <3> QED
      BY <3>2 DEF y, f, a
  <2>7. r.code = (w.value - T[w.next]) * 65536 + T[w.next - r.bits] * P[16 + r.bits]
    BY <1>12, <2>1, <2>3, <2>4, <2>6
  <2>8. \/ r.next <= l /\ m + 16 = 8 * (r.next - 1)
        \/ r.next = l + 1 /\ m + 16 >= 8 * l
    <3>1. l \in Nat /\ c.next \in Nat /\ c.next <= l
      BY <1>5, <2>1
    <3>2. m = 8 * k /\ k \in Nat /\ k + 1 = c.next
      BY <2>2
    <3>3. r.next = IF c.next = l THEN c.next + 1 ELSE c.next + 2
      BY <2>1
    <3> DEFINE y == c.next
    <3> HIDE DEF m, l, r, k, y
    <3>4. CASE y = l
      <4>1. r.next = l + 1 /\ m + 16 >= 8 * l
        BY <3>1, <3>2, <3>3, <3>4 DEF y
      <4> QED
        BY <4>1
    <3>5. CASE y # l
      <4>1. r.next = y + 2 /\ k + 1 = y /\ y < l
        BY <3>1, <3>2, <3>3, <3>5 DEF y
      <4>2. m + 16 = 8 * (r.next - 1)
        BY <3>2, <4>1
      <4>3. r.next <= l \/ r.next = l + 1
        BY <3>1, <4>1 DEF y
      <4>4. r.next = l + 1 => m + 16 >= 8 * l
        BY <3>1, <4>2
      <4> QED
        BY <4>2, <4>3, <4>4
    <3> QED
      BY <3>4, <3>5
  <2> HIDE DEF r, w, x, p, q, u, t, bits, m
  <2>9. AtSame(r, w, bytes, P, T)
    BY <2>4, <2>7, <2>8 DEF AtSame
  <2> QED
    BY <1>3, <1>13, <2>9 DEF r, w
<1> QED
  BY <1>14, <1>15

\* The interval of a 0, and what each decoder goes on with after its bit.
LEMMA GetIs ==
  ASSUME NEW c, NEW bytes, NEW prob
  PROVE  LET r   == RacRenorm(c, bytes)
             low == LowOf(r.high, prob)
         IN RacGet(c, bytes, prob)
              = IF r.code >= low * 65536 THEN [bit |-> 1, rac |-> RacAbove(r, low)]
                ELSE [bit |-> 0, rac |-> RacBelow(r, low)]
  BY SMT DEF RacGet

LEMMA GetIsRac ==
  ASSUME NEW bytes \in Seq(0 .. 255), NEW c \in Racs(bytes), NEW prob \in 0 .. 255
  PROVE  /\ RacGet(c, bytes, prob).bit \in {0, 1}
         /\ RacGet(c, bytes, prob).rac \in Racs(bytes)
<1> DEFINE r   == RacRenorm(c, bytes)
           low == LowOf(r.high, prob)
           got == RacGet(c, bytes, prob)
           one == RacAbove(r, low)
           zero == RacBelow(r, low)
<1>1. r \in Racs(bytes) /\ r.high \in 128 .. 255
  <2>1. \E P : IsPower(P)
    BY PowerExists
  <2> QED
    BY <2>1, RenormIsRac
<1>2. got = IF r.code >= low * 65536 THEN [bit |-> 1, rac |-> one] ELSE [bit |-> 0, rac |-> zero]
  BY SMTT(30), GetIs
<1> HIDE DEF r
<1>3. low \in 1 .. r.high - 1
  BY <1>1, Splits, ZenonT(60)
<1> HIDE DEF low
<1>4. /\ r \in [high : 1 .. 255, bits : Int, next : Nat \ {0}, code : Int]
      /\ r.bits >= -16 /\ r.next <= Len(bytes) + 1 /\ (r.bits < 0 \/ r.next = Len(bytes) + 1)
  BY <1>1 DEF Racs
<1>5. low \in 1 .. 255 /\ r.high - low \in 1 .. 255 /\ r.code - low * 65536 \in Int
  <2> DEFINE h == r.high  x == r.code
  <2>1. h \in 128 .. 255 /\ x \in Int /\ low \in 1 .. h - 1
    BY <1>1, <1>3, <1>4
  <2> HIDE DEF h, x
  <2>2. low \in 1 .. 255 /\ h - low \in 1 .. 255 /\ x - low * 65536 \in Int
    BY <2>1
  <2> QED
    BY <2>2 DEF h, x
<1>6. one \in Racs(bytes)
  <2>1. one \in [high : 1 .. 255, bits : Int, next : Nat \ {0}, code : Int]
        /\ one.bits = r.bits /\ one.next = r.next
    BY <1>4, <1>5 DEF RacAbove
  <2> HIDE DEF one
  <2> QED
    BY <1>4, <2>1 DEF Racs
<1>7. zero \in Racs(bytes)
  <2>1. zero \in [high : 1 .. 255, bits : Int, next : Nat \ {0}, code : Int]
        /\ zero.bits = r.bits /\ zero.next = r.next
    BY <1>4, <1>5 DEF RacBelow
  <2> HIDE DEF zero
  <2> QED
    BY <1>4, <2>1 DEF Racs
<1> HIDE DEF one, zero, got
<1>8. got.bit \in {0, 1} /\ got.rac \in Racs(bytes)
  BY <1>2, <1>6, <1>7
<1> QED
  BY <1>8 DEF got

\* The specification's decoder once it has widened its interval.
Wide == {d \in Bools : d.range \in 128 .. 255}

LEMMA ReadIs ==
  ASSUME NEW bytes, NEW d, NEW prob
  PROVE  LET split == 1 + ((d.range - 1) * (IF prob = Even THEN 128 ELSE prob)) \div 256
         IN ReadBool(bytes, d, prob)
              = Widen(bytes, IF d.value < split THEN Below(d, split) ELSE Above(d, split))
  BY Zenon DEF ReadBool

\* What is widened after a bit.
IsHalf(e, d, low, bit) ==
  /\ e \in Bools
  /\ e.range \in 1 .. 255
  /\ e.bits = Append(d.bits, bit)
  /\ e.next = d.next
  /\ e.range = IF bit = 1 THEN d.range - low ELSE low
  /\ e.value = IF bit = 1 THEN d.value - low ELSE d.value

LEMMA Halves ==
  ASSUME NEW bytes, NEW d \in Wide, NEW prob \in 0 .. 255, NEW low,
         low = LowOf(d.range, prob)
  PROVE  \E e, bit : /\ ReadBool(bytes, d, prob) = Widen(bytes, e)
                     /\ bit = (IF d.value >= low THEN 1 ELSE 0)
                     /\ IsHalf(e, d, low, bit)
<1> DEFINE zero == Below(d, low)
           one  == Above(d, low)
<1>1. /\ d \in Bools /\ d.range \in 128 .. 255 /\ d.value \in Int /\ d.bits \in Seq({0, 1})
  <2>1. d \in Bools /\ d.range \in 128 .. 255
    BY DEF Wide
  <2>2. d.value \in Int /\ d.bits \in Seq({0, 1})
    BY <2>1 DEF Bools
  <2> QED
    BY <2>1, <2>2
<1>2. /\ low = 1 + ((d.range - 1) * (IF prob = Even THEN 128 ELSE prob)) \div 256
      /\ low \in 1 .. d.range - 1
  BY <1>1, Splits, ZenonT(60)
<1>3. ReadBool(bytes, d, prob) = Widen(bytes, IF d.value < low THEN zero ELSE one)
  BY <1>2, ReadIs, ZenonT(60)
<1>4. /\ low \in Nat /\ low \in 1 .. 255 /\ d.range - low \in 1 .. 255 /\ d.range - low \in Nat
      /\ d.value - low \in Int
      /\ d.value < low <=> ~(d.value >= low)
  <2> DEFINE h == d.range  v == d.value
  <2>1. h \in 128 .. 255 /\ v \in Int /\ low \in 1 .. h - 1
    BY <1>1, <1>2
  <2> HIDE DEF h, v
  <2>2. /\ low \in Nat /\ low \in 1 .. 255 /\ h - low \in 1 .. 255 /\ h - low \in Nat
    <3>1. h \in Nat /\ h <= 255 /\ low \in Nat /\ 1 <= low /\ low <= h - 1
      BY <2>1
    <3> DEFINE g == h - low
    <3>2. g \in Nat /\ 1 <= g /\ g <= 255
      BY <3>1
    <3>3. low \in 1 .. 255
      BY <3>1
    <3> HIDE DEF g
    <3>4. g \in 1 .. 255
      BY <3>2
    <3> QED
      BY <3>1, <3>2, <3>3, <3>4 DEF g
  <2>3. v - low \in Int /\ (v < low <=> ~(v >= low))
    BY <2>1, <2>2
  <2> QED
    BY <2>2, <2>3 DEF h, v
<1>5. Append(d.bits, 0) \in Seq({0, 1}) /\ Append(d.bits, 1) \in Seq({0, 1})
  BY <1>1, AppendProperties
<1>6. IsHalf(zero, d, low, 0)
  <2> DEFINE s == Append(d.bits, 0)
  <2>1. /\ zero.range = low /\ zero.bits = s /\ zero.next = d.next /\ zero.value = d.value
        /\ zero = [range |-> low, next |-> d.next, value |-> d.value, bits |-> s]
    BY DEF Below
  <2>2. s \in Seq({0, 1})
    BY <1>5
  <2> HIDE DEF zero, s
  <2>3. zero \in Bools
    BY <1>1, <1>4, <2>1, <2>2 DEF Bools
  <2> QED
    BY <1>4, <2>1, <2>3 DEF IsHalf, s
<1>7. IsHalf(one, d, low, 1)
  <2> DEFINE s == Append(d.bits, 1)
  <2>1. /\ one.range = d.range - low /\ one.bits = s /\ one.next = d.next
        /\ one.value = d.value - low
        /\ one = [range |-> d.range - low, next |-> d.next, value |-> d.value - low, bits |-> s]
    BY DEF Above
  <2>2. s \in Seq({0, 1})
    BY <1>5
  <2> HIDE DEF one, s
  <2>3. one \in Bools
    BY <1>1, <1>4, <2>1, <2>2 DEF Bools
  <2> QED
    BY <1>4, <2>1, <2>3 DEF IsHalf, s
<1> HIDE DEF zero, one
<1>8. CASE d.value >= low
  BY <1>3, <1>4, <1>7, <1>8
<1>9. CASE ~(d.value >= low)
  BY <1>3, <1>4, <1>6, <1>9
<1> QED
  BY <1>8, <1>9

LEMMA WidenIsWide ==
  ASSUME NEW bytes \in Seq(0 .. 255), NEW e \in Bools, e.range \in 1 .. 255
  PROVE  Widen(bytes, e) \in Wide
<1>1. PICK P : IsPower(P)
  BY PowerExists
<1>2. PICK T : IsFirstBits(T, bytes)
  BY PrefixExists
<1>3. PICK s \in 0 .. 7 : Short(e.range) = s /\ e.range * P[s] \in 128 .. 255
  BY <1>1, Shifts, Zenon
<1>4. s \in Nat
  OBVIOUS
<1>5. IsWidened(Widen(bytes, e), e, s, P, T)
  BY <1>1, <1>2, <1>3, <1>4, Widened
<1> QED
  BY <1>3, <1>5, SMTT(30) DEF IsWidened, Wide

LEMMA ReadIsWide ==
  ASSUME NEW bytes \in Seq(0 .. 255), NEW d \in Wide, NEW prob \in 0 .. 255
  PROVE  ReadBool(bytes, d, prob) \in Wide
<1>1. PICK e, bit : ReadBool(bytes, d, prob) = Widen(bytes, e)
                    /\ IsHalf(e, d, LowOf(d.range, prob), bit)
  BY Halves
<1>2. e \in Bools /\ e.range \in 1 .. 255
  BY <1>1 DEF IsHalf
<1> QED
  BY <1>1, <1>2, WidenIsWide

BoolStart(bytes) == [value |-> bytes[1], range |-> 255, next |-> 8, bits |-> << >>]

LEMMA StartIsWide ==
  ASSUME NEW bytes \in Seq(0 .. 255), bytes # << >>
  PROVE  BoolStart(bytes) \in Wide /\ bytes[1] \in 0 .. 255
<1>1. 1 \in 1 .. Len(bytes)
  BY EmptySeq
<1>2. bytes[1] \in 0 .. 255
  BY <1>1, ElementOfSeq
<1> DEFINE x == bytes[1]
<1> HIDE DEF x
<1>3. x \in Int /\ x \in 0 .. 255
  <2>1. x \in 0 .. 255
    BY <1>2 DEF x
  <2> QED
    BY <2>1
<1>4. [value |-> x, range |-> 255, next |-> 8, bits |-> << >>] \in Wide
  BY <1>3 DEF Wide, Bools
<1> QED
  BY <1>3, <1>4 DEF BoolStart, x

\* The bits a run of each decoder has returned.
IsRacRun(h, rac, bytes, probs) ==
  /\ h[0] = [rac |-> rac, bits |-> << >>]
  /\ \A k \in 1 .. Len(probs) : h[k] = RacStep(bytes, h[k-1], probs[k])
  /\ RacBits(rac, bytes, probs) = h[Len(probs)].bits

LEMMA RacsInTurn ==
  ASSUME NEW bytes \in Seq(0 .. 255), NEW rac \in Racs(bytes), NEW probs \in Seq(0 .. 255)
  PROVE  \E h : IsRacRun(h, rac, bytes, probs)
<1> DEFINE n == Len(probs)
           list == probs
           S == [rac : Racs(bytes), bits : Seq({0, 1})]
           base == [rac |-> rac, bits |-> << >>]
           step == [p \in (1 .. n) \X S |-> RacStep(bytes, p[2], list[p[1]])]
           Body(g) == [s \in SUBSET (DOMAIN list) |->
                         IF s = {} THEN base ELSE RacStep(bytes, g[s \ {Max(s)}], list[Max(s)])]
<1>1. n \in Nat /\ DOMAIN list = 1 .. n /\ \A k \in 1 .. n : list[k] \in 0 .. 255
  <2>1. n \in Nat /\ DOMAIN list = 1 .. n
    OBVIOUS
  <2>2. ASSUME NEW k \in 1 .. n PROVE list[k] \in 0 .. 255
    BY ElementOfSeq
  <2> QED
    BY <2>1, <2>2
<1>2. base \in S
  OBVIOUS
<1>3. ASSUME NEW c \in S, NEW k \in 1 .. n PROVE RacStep(bytes, c, list[k]) \in S
  <2>1. list[k] \in 0 .. 255 /\ c.rac \in Racs(bytes) /\ c.bits \in Seq({0, 1})
    BY <1>1
  <2> DEFINE p == list[k]
             got == RacGet(c.rac, bytes, p)
  <2> HIDE DEF list
  <2>2. got.bit \in {0, 1} /\ got.rac \in Racs(bytes)
    BY <2>1, GetIsRac
  <2>3. RacStep(bytes, c, p) = [rac |-> got.rac, bits |-> Append(c.bits, got.bit)]
    BY DEF RacStep
  <2> HIDE DEF got
  <2>4. Append(c.bits, got.bit) \in Seq({0, 1})
    BY <2>1, <2>2, AppendProperties
  <2> QED
    BY <2>2, <2>3, <2>4
<1>5. PICK g \in [SUBSET (1 .. n) -> S] : IsFold(g, n, base, step)
  <2>1. \E g \in [SUBSET (1 .. n) -> S] : IsFold(g, n, base, step)
    <3>1. step \in [(1 .. n) \X S -> S]
      <4> HIDE DEF S, n, list
      <4> QED
        BY <1>1, <1>3
    <3> HIDE DEF S, n, base, step
    <3> QED
      BY <1>1, <1>2, <3>1, FoldExists
  <2> QED
    BY <2>1
<1>6. g = Body(g)
  <2>1. ASSUME NEW s \in SUBSET (1 .. n), s # {}
        PROVE  step[<<Max(s), g[s \ {Max(s)}]>>] = RacStep(bytes, g[s \ {Max(s)}], list[Max(s)])
    <3>1. Max(s) \in 1 .. n /\ g[s \ {Max(s)}] \in S
      <4> HIDE DEF S, n, list
      <4> QED
        BY <1>1, <1>5, <2>1, GreatestOf
    <3> HIDE DEF S, n, list
    <3> QED
      BY <3>1
  <2> HIDE DEF S, n, step, base, list
  <2> QED
    BY <1>1, <1>5, <2>1 DEF IsFold
<1> DEFINE it == CHOOSE f : f = Body(f)
<1>7. it = Body(it)
  <2> HIDE DEF Body
  <2> QED
    BY <1>6
<1>8. RacBits(rac, bytes, probs) = it[DOMAIN list].bits
  BY DEF RacBits, FoldLeft, MapThenFoldSet
<1> DEFINE h == [k \in 0 .. n |-> it[1 .. k]]
<1>9. h[0] = base
  <2>1. 1 .. 0 = {} /\ {} \in SUBSET DOMAIN list /\ 0 \in 0 .. n
    BY <1>1
  <2> HIDE DEF it, list
  <2> QED
    BY <1>7, <2>1
<1>10. ASSUME NEW k \in 1 .. n PROVE h[k] = RacStep(bytes, h[k-1], list[k])
  <2>1. /\ Max(1 .. k) = k /\ (1 .. k) \ {Max(1 .. k)} = 1 .. k-1
        /\ 1 .. k \in SUBSET DOMAIN list /\ 1 .. k # {} /\ k \in 0 .. n /\ k - 1 \in 0 .. n
    BY <1>1, GreatestUpTo
  <2> HIDE DEF it, n, list
  <2> QED
    BY <1>7, <2>1
<1>11. h[n] = it[DOMAIN list]
  <2> HIDE DEF it, list
  <2> QED
    BY <1>1
<1> HIDE DEF h, it, n, list
<1> QED
  BY <1>1, <1>8, <1>9, <1>10, <1>11 DEF n, list, IsRacRun

IsBoolRun(h, bytes, probs) ==
  /\ h[0] = BoolStart(bytes)
  /\ \A k \in 1 .. Len(probs) : h[k] = ReadBool(bytes, h[k-1], probs[k])
  /\ BoolBits(bytes, probs) = h[Len(probs)].bits

LEMMA BoolsInTurn ==
  ASSUME NEW bytes \in Seq(0 .. 255), bytes # << >>, NEW probs \in Seq(0 .. 255)
  PROVE  \E h : IsBoolRun(h, bytes, probs)
<1> DEFINE n == Len(probs)
           list == probs
           S == Wide
           base == BoolStart(bytes)
           step == [p \in (1 .. n) \X S |-> ReadBool(bytes, p[2], list[p[1]])]
           Body(g) == [s \in SUBSET (DOMAIN list) |->
                         IF s = {} THEN base ELSE ReadBool(bytes, g[s \ {Max(s)}], list[Max(s)])]
<1>1. n \in Nat /\ DOMAIN list = 1 .. n /\ \A k \in 1 .. n : list[k] \in 0 .. 255
  <2>1. n \in Nat /\ DOMAIN list = 1 .. n
    OBVIOUS
  <2>2. ASSUME NEW k \in 1 .. n PROVE list[k] \in 0 .. 255
    BY ElementOfSeq, SMTT(40)
  <2> QED
    BY <2>1, <2>2
<1>2. base \in S
  BY StartIsWide
<1>3. ASSUME NEW c \in S, NEW k \in 1 .. n PROVE ReadBool(bytes, c, list[k]) \in S
  <2>1. list[k] \in 0 .. 255
    BY <1>1
  <2> HIDE DEF list
  <2> QED
    BY <2>1, ReadIsWide
<1>5. PICK g \in [SUBSET (1 .. n) -> S] : IsFold(g, n, base, step)
  <2>1. \E g \in [SUBSET (1 .. n) -> S] : IsFold(g, n, base, step)
    <3>1. step \in [(1 .. n) \X S -> S]
      <4> HIDE DEF S, n, list
      <4> QED
        BY <1>1, <1>3
    <3> HIDE DEF S, n, base, step
    <3> QED
      BY <1>1, <1>2, <3>1, FoldExists
  <2> QED
    BY <2>1
<1>6. g = Body(g)
  <2>1. ASSUME NEW s \in SUBSET (1 .. n), s # {}
        PROVE  step[<<Max(s), g[s \ {Max(s)}]>>] = ReadBool(bytes, g[s \ {Max(s)}], list[Max(s)])
    <3>1. Max(s) \in 1 .. n /\ g[s \ {Max(s)}] \in S
      <4> HIDE DEF S, n, list
      <4> QED
        BY <1>1, <1>5, <2>1, GreatestOf
    <3> HIDE DEF S, n, list
    <3> QED
      BY <3>1
  <2> HIDE DEF S, n, step, base, list
  <2> QED
    BY <1>1, <1>5, <2>1 DEF IsFold
<1> DEFINE it == CHOOSE f : f = Body(f)
<1>7. it = Body(it)
  <2> HIDE DEF Body
  <2> QED
    BY <1>6
<1>8. BoolBits(bytes, probs) = it[DOMAIN list].bits
  BY DEF BoolBits, BoolStart, FoldLeft, MapThenFoldSet
<1> DEFINE h == [k \in 0 .. n |-> it[1 .. k]]
<1>9. h[0] = base
  <2>1. 1 .. 0 = {} /\ {} \in SUBSET DOMAIN list /\ 0 \in 0 .. n
    BY <1>1
  <2> HIDE DEF it, list
  <2> QED
    BY <1>7, <2>1
<1>10. ASSUME NEW k \in 1 .. n PROVE h[k] = ReadBool(bytes, h[k-1], list[k])
  <2>1. /\ Max(1 .. k) = k /\ (1 .. k) \ {Max(1 .. k)} = 1 .. k-1
        /\ 1 .. k \in SUBSET DOMAIN list /\ 1 .. k # {} /\ k \in 0 .. n /\ k - 1 \in 0 .. n
    BY <1>1, GreatestUpTo
  <2> HIDE DEF it, n, list
  <2> QED
    BY <1>7, <2>1
<1>11. h[n] = it[DOMAIN list]
  <2> HIDE DEF it, list
  <2> QED
    BY <1>1
<1> HIDE DEF h, it, n, list
<1> QED
  BY <1>1, <1>8, <1>9, <1>10, <1>11 DEF n, list, IsBoolRun

\* The two decoders between two bits: the driver's has yet to renormalise.
IsTogether(c, d, bytes, P, T) ==
  /\ c \in Racs(bytes)
  /\ d \in Wide
  /\ AtSame(RacRenorm(c, bytes), d, bytes, P, T)
  /\ RacRenorm(c, bytes).high = d.range

\* The half that each goes on with is the same.
LEMMA SameHalf ==
  ASSUME NEW bytes \in Seq(0 .. 255), NEW P, IsPower(P), NEW T, IsFirstBits(T, bytes),
         NEW r \in Racs(bytes), NEW d \in Bools, AtSame(r, d, bytes, P, T), r.high = d.range,
         NEW low \in Int, NEW bit \in {0, 1}, NEW e, IsHalf(e, d, low, bit),
         NEW c, c = IF bit = 1 THEN RacAbove(r, low) ELSE RacBelow(r, low)
  PROVE  AtSame(c, e, bytes, P, T) /\ c.high = e.range
<1>1. /\ c.high = IF bit = 1 THEN r.high - low ELSE low
      /\ c.bits = r.bits /\ c.next = r.next
      /\ c.code = IF bit = 1 THEN r.code - low * 65536 ELSE r.code
  BY DEF RacAbove, RacBelow
<1>2. /\ e.next = d.next
      /\ e.range = IF bit = 1 THEN d.range - low ELSE low
      /\ e.value = IF bit = 1 THEN d.value - low ELSE d.value
  BY DEF IsHalf
<1> DEFINE a == T[d.next - r.bits] * P[16 + r.bits]
           t == T[d.next]
           v == d.value
           x == r.code
<1>3. x = (v - t) * 65536 + a /\ v \in Int /\ t \in Nat /\ x \in Int
  <2>1. x = (v - t) * 65536 + a
    BY DEF AtSame
  <2>2. d.next \in Nat /\ v \in Int /\ x \in Int
    BY DEF Bools, Racs
  <2>3. T[d.next] \in Nat
    BY <2>2 DEF IsFirstBits
  <2> QED
    BY <2>1, <2>2, <2>3
<1> HIDE DEF a, t, v, x
<1>4. bit = 1 => x - low * 65536 = ((v - low) - t) * 65536 + a
  <2>1. ((v - low) - t) * 65536 = (v - t) * 65536 - low * 65536
    BY <1>3
  <2> DEFINE y == (v - t) * 65536  z == low * 65536
  <2>2. y \in Int /\ z \in Int /\ x = y + a
    BY <1>3
  <2> HIDE DEF y, z
  <2>3. a = x - y => x - z = (y - z) + a
    BY <1>3, <2>2
  <2>4. a \in Int => a = x - y
    BY <2>2
  <2>5. a \in Int
    <3>1. d.next - r.bits \in Nat /\ 16 + r.bits \in Nat
      BY SMTT(40) DEF AtSame, Racs
    <3> DEFINE f == T[d.next - r.bits]  g == P[16 + r.bits]
    <3>2. f \in Nat /\ g \in Nat
      BY <3>1 DEF IsPower, IsFirstBits
    <3> HIDE DEF f, g
    <3>3. f * g \in Int
      BY <3>2
    <3> QED
      BY <3>3 DEF a, f, g
  <2> QED
    BY <2>1, <2>3, <2>4, <2>5 DEF y, z
<1>5. c.code = (e.value - T[e.next]) * 65536 + T[e.next - c.bits] * P[16 + c.bits]
  BY <1>1, <1>2, <1>3, <1>4 DEF a, t, v, x
<1>6. AtSame(c, e, bytes, P, T)
  BY <1>1, <1>2, <1>5 DEF AtSame
<1> QED
  BY <1>1, <1>2, <1>6

\* A bit later they are together again, and it is the same bit.
AreStill(got, new, d, bytes, P, T) ==
  /\ IsTogether(got.rac, new, bytes, P, T)
  /\ got.bit \in {0, 1}
  /\ new.bits = Append(d.bits, got.bit)

LEMMA TogetherAgain ==
  ASSUME NEW bytes \in Seq(0 .. 255), NEW P, IsPower(P), NEW T, IsFirstBits(T, bytes),
         NEW c, NEW d, IsTogether(c, d, bytes, P, T), NEW prob \in 0 .. 255
  PROVE  AreStill(RacGet(c, bytes, prob), ReadBool(bytes, d, prob), d, bytes, P, T)
<1> DEFINE r   == RacRenorm(c, bytes)
           low == LowOf(r.high, prob)
           got == RacGet(c, bytes, prob)
           new == ReadBool(bytes, d, prob)
<1>1. c \in Racs(bytes) /\ d \in Wide /\ AtSame(r, d, bytes, P, T) /\ r.high = d.range
  BY DEF IsTogether
<1>2. r \in Racs(bytes) /\ r.high \in 128 .. 255
  BY <1>1, RenormIsRac
<1>3. got = IF r.code >= low * 65536 THEN [bit |-> 1, rac |-> RacAbove(r, low)]
            ELSE [bit |-> 0, rac |-> RacBelow(r, low)]
  BY SMTT(30), GetIs
<1>4. got.bit \in {0, 1} /\ got.rac \in Racs(bytes)
  BY <1>1, GetIsRac
<1>5. low \in Int /\ low = LowOf(d.range, prob)
  <2>1. LowOf(r.high, prob) \in 1 .. r.high - 1
    BY <1>2, Splits, ZenonT(60)
  <2> DEFINE h == r.high
  <2>2. h \in 128 .. 255 /\ low \in 1 .. h - 1
    BY <1>2, <2>1
  <2> HIDE DEF h, low
  <2>3. low \in Int
    BY <2>2
  <2> QED
    BY <1>1, <2>3, SMTT(30) DEF low
<1> HIDE DEF r, low
<1>6. d \in Bools
  BY <1>1 DEF Wide
<1>7. r.code >= low * 65536 <=> d.value >= low
  <2>1. IsOneAlike(r, d, low)
    BY <1>1, <1>2, <1>5, <1>6, Compares
  <2> QED
    BY <2>1 DEF IsOneAlike
<1>8. PICK e, bit : /\ new = Widen(bytes, e)
                    /\ bit = (IF d.value >= low THEN 1 ELSE 0)
                    /\ IsHalf(e, d, low, bit)
  BY <1>1, <1>5, Halves
<1>9. bit = got.bit /\ got.rac = IF bit = 1 THEN RacAbove(r, low) ELSE RacBelow(r, low)
  <2> HIDE DEF got
  <2>1. CASE d.value >= low
    BY <1>3, <1>7, <1>8, <2>1
  <2>2. CASE ~(d.value >= low)
    BY <1>3, <1>7, <1>8, <2>2
  <2> QED
    BY <2>1, <2>2
<1> HIDE DEF got, new
<1>10. AtSame(got.rac, e, bytes, P, T) /\ got.rac.high = e.range
  <2> DEFINE g == got.rac
  <2>1. bit \in {0, 1}
    BY <1>4, <1>9
  <2>2. g = IF bit = 1 THEN RacAbove(r, low) ELSE RacBelow(r, low)
    BY <1>9
  <2>3. low \in Int
    BY <1>5
  <2> HIDE DEF g
  <2> QED
    BY <1>1, <1>2, <1>6, <1>8, <2>1, <2>2, <2>3, SameHalf DEF g
<1>11. e \in Bools /\ e.bits = Append(d.bits, bit)
  BY <1>8 DEF IsHalf
<1>12. /\ AtSame(RacRenorm(got.rac, bytes), new, bytes, P, T)
       /\ RacRenorm(got.rac, bytes).high = new.range
       /\ new.bits = e.bits
  BY <1>4, <1>8, <1>10, <1>11, Renews
<1>13. new \in Wide
  BY <1>1, ReadIsWide DEF new
<1> QED
  BY <1>4, <1>9, <1>11, <1>12, <1>13 DEF IsTogether, AreStill, got, new

\* They start together, with three bytes fetched and one consumed.
LEMMA StartTogether ==
  ASSUME NEW bytes \in Seq(0 .. 255), NEW P, IsPower(P), NEW T, IsFirstBits(T, bytes),
         Len(bytes) >= 3
  PROVE  IsTogether(RacInit(bytes), BoolStart(bytes), bytes, P, T)
<1> DEFINE c == RacInit(bytes)
           e == BoolStart(bytes)
           b1 == bytes[1]
           b2 == bytes[2]
           b3 == bytes[3]
<1>1. bytes # << >> /\ Len(bytes) \in Nat
  OBVIOUS
<1>2. e \in Wide /\ e \in Bools
  BY <1>1, StartIsWide DEF Wide
<1>3. b1 \in 0 .. 255 /\ b2 \in 0 .. 255 /\ b3 \in 0 .. 255
  <2>1. 1 \in 1 .. Len(bytes) /\ 2 \in 1 .. Len(bytes) /\ 3 \in 1 .. Len(bytes)
    BY <1>1
  <2> QED
    BY <2>1, ElementOfSeq, SMTT(40)
<1>4. /\ c.high = 255 /\ c.bits = -16 /\ c.next = 4
      /\ c.code = b1 * 65536 + b2 * 256 + b3
      /\ DOMAIN c = {"high", "bits", "next", "code"}
      /\ c = [high |-> 255, bits |-> -16, next |-> 4, code |-> b1 * 65536 + b2 * 256 + b3]
  BY DEF RacInit
<1>5. b1 * 65536 + b2 * 256 + b3 \in Int
  <2> HIDE DEF b1, b2, b3
  <2> QED
    BY <1>3
<1>6. c \in Racs(bytes)
  <2> DEFINE x == b1 * 65536 + b2 * 256 + b3
  <2>1. x \in Int /\ c = [high |-> 255, bits |-> -16, next |-> 4, code |-> x]
    BY <1>4, <1>5
  <2> HIDE DEF x, c
  <2>2. c \in [high : 1 .. 255, bits : Int, next : Nat \ {0}, code : Int]
    BY <2>1
  <2>3. c.bits >= -16 /\ c.next <= Len(bytes) + 1 /\ c.bits < 0
    BY <1>1, <2>1
  <2> QED
    BY <2>2, <2>3 DEF Racs
<1>7. e.next = 8 /\ e.value = b1 /\ e.range = 255
  BY DEF BoolStart
<1> HIDE DEF c, e
<1>8. T[8] = b1 /\ T[24] = b1 * 65536 + b2 * 256 + b3
  <2>1. T[0] = 0
    BY DEF IsFirstBits
  <2>2. ByteAt(bytes, 1) = b1 /\ ByteAt(bytes, 2) = b2 /\ ByteAt(bytes, 3) = b3
    BY <1>1 DEF ByteAt
  <2>3. /\ T[8 * 0 + 8] = 256 * T[8 * 0] + ByteAt(bytes, 0 + 1)
        /\ T[8 * 1 + 8] = 256 * T[8 * 1] + ByteAt(bytes, 1 + 1)
        /\ T[8 * 2 + 8] = 256 * T[8 * 2] + ByteAt(bytes, 2 + 1)
    <3>1. \A k \in Nat : T[8 * k + 8] = 256 * T[8 * k] + ByteAt(bytes, k + 1)
      BY PrefixOfByte
    <3>2. T[8 * 0 + 8] = 256 * T[8 * 0] + ByteAt(bytes, 0 + 1)
      BY <3>1
    <3>3. T[8 * 1 + 8] = 256 * T[8 * 1] + ByteAt(bytes, 1 + 1)
      BY <3>1
    <3>4. T[8 * 2 + 8] = 256 * T[8 * 2] + ByteAt(bytes, 2 + 1)
      BY <3>1
    <3> QED
      BY <3>2, <3>3, <3>4
  <2> DEFINE y1 == ByteAt(bytes, 0 + 1)  y2 == ByteAt(bytes, 1 + 1)  y3 == ByteAt(bytes, 2 + 1)
  <2>4. y1 = b1 /\ y2 = b2 /\ y3 = b3
    <3>1. 0 + 1 = 1 /\ 1 + 1 = 2 /\ 2 + 1 = 3
      OBVIOUS
    <3> QED
      BY <2>2, <3>1
  <2>5. T[8] = 256 * T[0] + y1 /\ T[16] = 256 * T[8] + y2 /\ T[24] = 256 * T[16] + y3
    <3> HIDE DEF y1, y2, y3
    <3>1. 8 * 0 + 8 = 8 /\ 8 * 0 = 0 /\ 8 * 1 + 8 = 16 /\ 8 * 1 = 8 /\ 8 * 2 + 8 = 24 /\ 8 * 2 = 16
      OBVIOUS
    <3> QED
      BY <2>3, <3>1 DEF y1, y2, y3
  <2> HIDE DEF b1, b2, b3, y1, y2, y3
  <2>6. T[8] = b1
    BY <1>3, <2>1, <2>4, <2>5
  <2>7. T[16] = 256 * b1 + b2
    BY <2>4, <2>5, <2>6
  <2>8. T[24] = 256 * (256 * b1 + b2) + b3
    BY <2>4, <2>5, <2>7
  <2>9. 256 * (256 * b1 + b2) + b3 = b1 * 65536 + b2 * 256 + b3
    BY <1>3
  <2> QED
    BY <2>6, <2>8, <2>9
<1>9. AtSame(c, e, bytes, P, T)
  <2>1. e.next - c.bits = 24 /\ 16 + c.bits = 0 /\ 24 \in Nat
    BY <1>4, <1>7
  <2>2. P[0] = 1
    BY DEF IsPower
  <2> DEFINE x == T[24]
  <2>3. x \in Nat /\ c.code = x
    BY <1>4, <1>8 DEF IsFirstBits
  <2>4. x * 1 = x /\ (b1 - b1) * 65536 + x = x
    <3> HIDE DEF x, b1
    <3> QED
      BY <1>3, <2>3
  <2>5. c.code = (e.value - T[e.next]) * 65536 + T[e.next - c.bits] * P[16 + c.bits]
    BY <1>7, <1>8, <2>1, <2>2, <2>3, <2>4
  <2>6. \/ c.next <= Len(bytes) /\ 24 = 8 * (c.next - 1)
        \/ c.next = Len(bytes) + 1 /\ 24 >= 8 * Len(bytes)
    BY <1>1, <1>4
  <2> QED
    BY <2>1, <2>5, <2>6 DEF AtSame
<1>10. Widen(bytes, e) = e
  <2>1. Short(255) = 0
    <3>1. PICK s \in 0 .. 7 : Short(255) = s /\ 255 * P[s] \in 128 .. 255
      <4>1. 255 \in 1 .. 255
        OBVIOUS
      <4> QED
        BY <4>1, Shifts, ZenonT(60)
    <3>2. CASE s = 0
      BY <3>1, <3>2
    <3>3. CASE s # 0
      <4>1. s - 1 \in Nat /\ s - 1 + 1 = s
        BY <3>3
      <4> DEFINE p == P[s-1]
      <4>2. p \in Nat \ {0} /\ P[s] = 2 * p
        <5>1. P[s-1] \in Nat \ {0} /\ P[s - 1 + 1] = 2 * P[s-1]
          BY <4>1 DEF IsPower
        <5> QED
          BY <4>1, <5>1
      <4>3. 255 * (2 * p) \in 128 .. 255
        BY <3>1, <4>2
      <4> HIDE DEF p
      <4> QED
        BY <4>2, <4>3
    <3> QED
      BY <3>2, <3>3, SMTT(30)
  <2>2. Short(e.range) = 0 /\ 0 \in Nat
    BY <1>7, <2>1
  <2>3. PICK h : IsWidening(h, bytes, e, 0)
    BY <1>2, <2>2, WidenInTurn
  <2> QED
    BY <2>3 DEF IsWidening
<1>11. /\ AtSame(RacRenorm(c, bytes), Widen(bytes, e), bytes, P, T)
       /\ RacRenorm(c, bytes).high = Widen(bytes, e).range
  <2>1. c.high = e.range
    BY <1>4, <1>7
  <2> QED
    BY <1>2, <1>6, <1>9, <2>1, Renews
<1> QED
  BY <1>2, <1>6, <1>10, <1>11 DEF IsTogether, c, e

\* A later bit goes behind all of them.
LEMMA BitBehind ==
  ASSUME NEW s \in Seq({0, 1}), NEW bit \in {0, 1}
  PROVE  /\ Append(<<0>> \o s, bit) = <<0>> \o Append(s, bit)
         /\ Append(s, bit) \in Seq({0, 1})
<1>1. <<0>> \in Seq({0, 1}) /\ <<bit>> \in Seq({0, 1})
  OBVIOUS
<1>2. <<0>> \o s \in Seq({0, 1})
  BY <1>1, ConcatProperties
<1>3. Append(<<0>> \o s, bit) = (<<0>> \o s) \o <<bit>> /\ Append(s, bit) = s \o <<bit>>
  BY <1>2, AppendIsConcat
<1>4. (<<0>> \o s) \o <<bit>> = <<0>> \o (s \o <<bit>>)
  BY <1>1, ConcatAssociative
<1>5. Append(s, bit) \in Seq({0, 1})
  BY AppendProperties
<1> QED
  BY <1>3, <1>4, <1>5

\* And the first bit is what the rest follow.
LEMMA RestOfBits ==
  ASSUME NEW s \in Seq({0, 1})
  PROVE  Tail(<<0>> \o s) = s
<1> DEFINE w == <<0>> \o s
<1>1. <<0>> \in Seq({0, 1}) /\ Len(<<0>>) = 1
  OBVIOUS
<1>2. /\ w \in Seq({0, 1}) /\ Len(w) = 1 + Len(s) /\ Len(s) \in Nat
      /\ \A i \in 1 .. Len(w) : w[i] = IF i <= 1 THEN <<0>>[i] ELSE s[i-1]
  BY <1>1, ConcatProperties
<1> HIDE DEF w
<1>3. w # << >>
  BY <1>2
<1>4. Tail(w) \in Seq({0, 1}) /\ Len(Tail(w)) = Len(s) /\ \A i \in 1 .. Len(s) : Tail(w)[i] = w[i+1]
  BY <1>2, <1>3, HeadTailProperties
<1>5. ASSUME NEW i \in 1 .. Len(s) PROVE Tail(w)[i] = s[i]
  <2>1. i + 1 \in 1 .. Len(w) /\ ~(i + 1 <= 1) /\ i + 1 - 1 = i
    BY <1>2
  <2> QED
    BY <1>2, <1>4, <2>1
<1>6. Tail(w) = s
  BY <1>4, <1>5, SeqEqual
<1> QED
  BY <1>6 DEF w

\* The bits of the compressed header are the specification's.
SpecBits(bytes, probs) ==
  IF Len(bytes) < 3 \/ BoolBits(bytes, <<128>>) = <<1>> THEN Refused
  ELSE Tail(BoolBits(bytes, <<128>> \o probs))

LEMMA BitsAgree ==
  ASSUME NEW bytes \in Seq(0 .. 255), NEW probs \in Seq(0 .. 255)
  PROVE  CompressedBits(bytes, probs) = SpecBits(bytes, probs)
<1>1. CASE Len(bytes) < 3
  BY <1>1 DEF CompressedBits, SpecBits
<1>2. CASE ~(Len(bytes) < 3)
  <2>1. Len(bytes) >= 3 /\ bytes # << >>
    BY <1>2
  <2>2. PICK P : IsPower(P)
    BY PowerExists
  <2>3. PICK T : IsFirstBits(T, bytes)
    BY PrefixExists
  <2> DEFINE marker == RacGet(RacInit(bytes), bytes, 128)
             first  == ReadBool(bytes, BoolStart(bytes), 128)
             n      == Len(probs)
             all    == <<128>> \o probs
  <2>4. IsTogether(RacInit(bytes), BoolStart(bytes), bytes, P, T)
    BY <2>1, <2>2, <2>3, StartTogether
  <2>5. /\ IsTogether(marker.rac, first, bytes, P, T) /\ marker.bit \in {0, 1}
        /\ first.bits = Append(BoolStart(bytes).bits, marker.bit)
    <3>1. 128 \in 0 .. 255
      OBVIOUS
    <3> DEFINE c == RacInit(bytes)  d == BoolStart(bytes)  prob == 128
    <3>2. IsTogether(c, d, bytes, P, T) /\ prob \in 0 .. 255
      BY <2>4, <3>1
    <3> HIDE DEF c, d, prob
    <3>3. AreStill(RacGet(c, bytes, prob), ReadBool(bytes, d, prob), d, bytes, P, T)
      BY <2>2, <2>3, <3>2, TogetherAgain
    <3>4. AreStill(marker, first, d, bytes, P, T)
      BY <3>3 DEF c, d, prob
    <3> HIDE DEF marker, first
    <3> QED
      BY <3>4 DEF AreStill, d
  <2>6. first.bits = <<marker.bit>>
    <3>1. BoolStart(bytes).bits = << >>
      BY DEF BoolStart
    <3> HIDE DEF marker, first
    <3> QED
      BY <2>5, <3>1
  <2>7. CompressedBits(bytes, probs)
          = IF marker.bit = 1 THEN Refused ELSE RacBits(marker.rac, bytes, probs)
    BY <1>2, Zenon DEF CompressedBits
  <2>8. BoolBits(bytes, <<128>>) = first.bits
    <3>1. <<128>> \in Seq(0 .. 255) /\ Len(<<128>>) = 1 /\ <<128>>[1] = 128
      OBVIOUS
    <3>2. PICK g : IsBoolRun(g, bytes, <<128>>)
      BY <2>1, <3>1, BoolsInTurn
    <3>3. g[0] = BoolStart(bytes) /\ g[1] = ReadBool(bytes, g[1-1], <<128>>[1])
          /\ BoolBits(bytes, <<128>>) = g[1].bits
      <4>1. 1 \in 1 .. Len(<<128>>)
        BY <3>1
      <4> QED
        BY <3>1, <3>2, <4>1 DEF IsBoolRun
    <3> QED
      BY <3>1, <3>3
  <2>9. all \in Seq(0 .. 255) /\ Len(all) = n + 1 /\ n \in Nat /\ all[1] = 128
        /\ \A k \in 1 .. n : all[k+1] = probs[k]
    <3>1. <<128>> \in Seq(0 .. 255) /\ Len(<<128>>) = 1 /\ <<128>>[1] = 128
      OBVIOUS
    <3>2. /\ all \in Seq(0 .. 255) /\ Len(all) = 1 + n /\ n \in Nat
          /\ \A i \in 1 .. Len(all) : all[i] = IF i <= 1 THEN <<128>>[i] ELSE probs[i-1]
      BY <3>1, ConcatProperties
    <3> HIDE DEF all, n
    <3>3. 1 \in 1 .. Len(all) /\ all[1] = 128
      BY <3>1, <3>2
    <3>4. ASSUME NEW k \in 1 .. n PROVE all[k+1] = probs[k]
      <4>1. k + 1 \in 1 .. Len(all) /\ ~(k + 1 <= 1) /\ k + 1 - 1 = k
        BY <3>2
      <4> QED
        BY <3>2, <4>1
    <3> QED
      BY <3>2, <3>3, <3>4
  <2>10. CASE marker.bit = 1
    <3>1. BoolBits(bytes, <<128>>) = <<1>>
      BY <2>6, <2>8, <2>10
    <3> QED
      BY <2>7, <2>10, <3>1 DEF SpecBits
  <2>11. CASE marker.bit # 1
    <3>1. marker.bit = 0 /\ BoolBits(bytes, <<128>>) = <<0>> /\ first.bits = <<0>>
      BY <2>5, <2>6, <2>8, <2>11
    <3>2. <<0>>[1] # <<1>>[1]
      OBVIOUS
    <3>3. PICK g : IsBoolRun(g, bytes, all)
      BY <2>1, <2>9, BoolsInTurn
    <3>4. PICK h : IsRacRun(h, marker.rac, bytes, probs)
      <4>1. marker.rac \in Racs(bytes)
        BY <2>5 DEF IsTogether
      <4> QED
        BY <4>1, RacsInTurn
    <3> HIDE DEF all, marker, first
    <3> DEFINE R == {k \in 0 .. n : /\ IsTogether(h[k].rac, g[k+1], bytes, P, T)
                                    /\ h[k].bits \in Seq({0, 1})
                                    /\ g[k+1].bits = <<0>> \o h[k].bits}
    <3>5. /\ h[0] = [rac |-> marker.rac, bits |-> << >>]
          /\ \A k \in 1 .. n : h[k] = RacStep(bytes, h[k-1], probs[k])
          /\ RacBits(marker.rac, bytes, probs) = h[n].bits
      BY <3>4 DEF IsRacRun
    <3>6. /\ g[0] = BoolStart(bytes)
          /\ \A k \in 1 .. n + 1 : g[k] = ReadBool(bytes, g[k-1], all[k])
          /\ BoolBits(bytes, all) = g[n+1].bits
      BY <2>9, <3>3 DEF IsBoolRun
    <3>7. g[1] = first
      <4>1. 1 \in 1 .. n + 1 /\ 1 - 1 = 0
        BY <2>9
      <4> QED
        BY <2>9, <3>6, <4>1 DEF first
    <3>8. 0 \in R
      <4>1. <<0>> \o << >> = <<0>> /\ << >> \in Seq({0, 1}) /\ 0 \in 0 .. n /\ 0 + 1 = 1
        BY <2>9
      <4>2. h[0].rac = marker.rac /\ h[0].bits = << >>
        BY <3>5
      <4> QED
        BY <2>5, <3>1, <3>7, <4>1, <4>2, ZenonT(60)
    <3>9. \A k \in 1 .. n : k - 1 \in R => k \in R
      <4> SUFFICES ASSUME NEW k \in 1 .. n, k - 1 \in R PROVE k \in R
        OBVIOUS
      <4>1. k - 1 + 1 = k /\ k + 1 \in 1 .. n + 1 /\ k + 1 - 1 = k /\ k \in 0 .. n
        BY <2>9
      <4> DEFINE c == h[k-1].rac
                 d == g[k]
                 s == h[k-1].bits
                 prob == probs[k]
                 got == RacGet(c, bytes, prob)
      <4>2. IsTogether(c, d, bytes, P, T) /\ s \in Seq({0, 1}) /\ d.bits = <<0>> \o s
        BY <4>1
      <4>3. prob \in 0 .. 255
        BY ElementOfSeq
      <4>4. g[k+1] = ReadBool(bytes, d, prob)
        BY <2>9, <3>6, <4>1
      <4>5. h[k] = [rac |-> got.rac, bits |-> Append(s, got.bit)]
        BY <3>5, Zenon DEF RacStep
      <4> HIDE DEF R, c, d, s, prob
      <4>6. /\ IsTogether(got.rac, g[k+1], bytes, P, T) /\ got.bit \in {0, 1}
            /\ g[k+1].bits = Append(d.bits, got.bit)
        <5>1. AreStill(RacGet(c, bytes, prob), ReadBool(bytes, d, prob), d, bytes, P, T)
          BY <2>2, <2>3, <4>2, <4>3, TogetherAgain, ZenonT(60)
        <5> HIDE DEF got
        <5>2. AreStill(got, g[k+1], d, bytes, P, T)
          BY <4>4, <5>1 DEF got
        <5> QED
          BY <5>2 DEF AreStill
      <4> HIDE DEF got
      <4>7. g[k+1].bits = <<0>> \o Append(s, got.bit) /\ Append(s, got.bit) \in Seq({0, 1})
        BY <4>2, <4>6, BitBehind
      <4>8. h[k].rac = got.rac /\ h[k].bits = Append(s, got.bit)
        BY <4>5
      <4> QED
        BY <4>1, <4>6, <4>7, <4>8 DEF R
    <3>10. n \in R
      <4>1. 0 .. n \subseteq R
        <5> HIDE DEF R
        <5> QED
          BY <2>9, <3>8, <3>9, InductionUpTo, ZenonT(60)
      <4>2. n \in 0 .. n
        BY <2>9
      <4> QED
        BY <4>1, <4>2
    <3>11. BoolBits(bytes, all) = <<0>> \o h[n].bits /\ h[n].bits \in Seq({0, 1})
      BY <3>6, <3>10
    <3>12. Tail(BoolBits(bytes, all)) = h[n].bits
      BY <3>11, RestOfBits
    <3>13. ~(BoolBits(bytes, <<128>>) = <<1>>)
      BY <3>1, <3>2
    <3> QED
      BY <1>2, <2>7, <3>1, <3>5, <3>12, <3>13, ZenonT(60) DEF all, marker, SpecBits
  <2> QED
    BY <2>10, <2>11
<1> QED
  BY <1>1, <1>2

\* Every entry of the table has one form.
LEMMA DeltasHaveOneForm == DeltasCover
<1> SUFFICES ASSUME NEW d \in 0 .. DeltaTable - 1
             PROVE  Cardinality({f \in DeltaForms : DeltaIndex(f[1], f[2], f[3]) = d}) = 1
  BY Zenon DEF DeltasCover
<1>0. d \in 0 .. 254
  BY DEF DeltaTable
<1> DEFINE form == IF d < 16 THEN <<0, d, 0>> ELSE
                   IF d < 32 THEN <<1, d - 16, 0>> ELSE
                   IF d < 64 THEN <<2, d - 32, 0>> ELSE
                   IF d < 129 THEN <<3, d - 64, 0>> ELSE <<3, (d + 1) \div 2, (d + 1) % 2>>
<1>1. form \in DeltaForms /\ DeltaIndex(form[1], form[2], form[3]) = d
  <2>1. CASE d < 16
    BY <1>0, <2>1 DEF DeltaForms, DeltaIndex
  <2>2. CASE d >= 16 /\ d < 32
    BY <1>0, <2>2 DEF DeltaForms, DeltaIndex
  <2>3. CASE d >= 32 /\ d < 64
    BY <1>0, <2>3 DEF DeltaForms, DeltaIndex
  <2>4. CASE d >= 64 /\ d < 129
    BY <1>0, <2>4 DEF DeltaForms, DeltaIndex
  <2>5. CASE d >= 129
    BY <1>0, <2>5 DEF DeltaForms, DeltaIndex
  <2> QED
    BY <1>0, <2>1, <2>2, <2>3, <2>4, <2>5
<1>2. ASSUME NEW f \in DeltaForms, DeltaIndex(f[1], f[2], f[3]) = d PROVE f = form
  <2>1. f \in (0 .. 3) \X (0 .. 127) \X {0, 1} /\ f = <<f[1], f[2], f[3]>>
    BY DEF DeltaForms
  <2>2. CASE f[1] = 0
    BY <1>0, <1>2, <2>1, <2>2 DEF DeltaForms, DeltaIndex
  <2>3. CASE f[1] = 1
    BY <1>0, <1>2, <2>1, <2>3 DEF DeltaForms, DeltaIndex
  <2>4. CASE f[1] = 2
    BY <1>0, <1>2, <2>1, <2>4 DEF DeltaForms, DeltaIndex
  <2>5. CASE f[1] = 3
    BY <1>0, <1>2, <2>1, <2>5 DEF DeltaForms, DeltaIndex
  <2> QED
    BY <2>1, <2>2, <2>3, <2>4, <2>5
<1> HIDE DEF form
<1>3. {f \in DeltaForms : DeltaIndex(f[1], f[2], f[3]) = d} = {form}
  BY <1>1, <1>2
<1> QED
  BY <1>3, FS_Singleton

-----------------------------------------------------------------------------
(* VP9's headers: lists of fields that are flattened.                      *)

\* The lists up to each, put together.
IsFlattening(h, list, n, S) ==
  /\ h[0] = << >>
  /\ \A k \in 1 .. n : h[k] = h[k-1] \o list[k]
  /\ \A k \in 0 .. n : h[k] \in Seq(S)
  /\ FlattenSeq(list) = h[n]

LEMMA FlattenInTurn ==
  ASSUME NEW S, NEW list \in Seq(Seq(S))
  PROVE  \E h : IsFlattening(h, list, Len(list), S)
<1> DEFINE n == Len(list)
           step == [p \in Nat \X Seq(S) |-> IF p[1] < n THEN p[2] \o list[p[1]+1] ELSE p[2]]
           Body(f) == [i \in 1 .. n |-> IF i = 1 THEN list[i] ELSE f[i-1] \o list[i]]
<1>1. n \in Nat /\ \A k \in 1 .. n : list[k] \in Seq(S)
  <2>1. n \in Nat
    OBVIOUS
  <2>2. ASSUME NEW k \in 1 .. n PROVE list[k] \in Seq(S)
    BY ElementOfSeq
  <2> QED
    BY <2>1, <2>2
<1> HIDE DEF n
<1>2. << >> \in Seq(S)
  BY EmptySeq
<1>3. step \in [Nat \X Seq(S) -> Seq(S)]
  <2>1. ASSUME NEW p \in Nat \X Seq(S), p[1] < n PROVE p[2] \o list[p[1]+1] \in Seq(S)
    <3>1. p[2] \in Seq(S) /\ p[1] + 1 \in 1 .. n
      BY <1>1, <2>1
    <3>2. list[p[1]+1] \in Seq(S)
      BY <1>1, <3>1
    <3> QED
      BY <3>1, <3>2, ConcatProperties
  <2>2. ASSUME NEW p \in Nat \X Seq(S) PROVE p[2] \in Seq(S)
    OBVIOUS
  <2>3. ASSUME NEW p \in Nat \X Seq(S)
        PROVE  (IF p[1] < n THEN p[2] \o list[p[1]+1] ELSE p[2]) \in Seq(S)
    BY <2>1, <2>2
  <2> QED
    BY <2>3
<1>4. PICK r \in Runs(Seq(S), << >>, step) : TRUE
  <2> HIDE DEF step
  <2> QED
    BY <1>2, <1>3, Iterates
<1>5. r \in [Nat -> Seq(S)] /\ r[0] = << >> /\ \A k \in Nat : r[k+1] = step[<<k, r[k]>>]
  <2> HIDE DEF step
  <2> QED
    BY DEF Runs
<1>6. ASSUME NEW k \in 1 .. n PROVE r[k] = r[k-1] \o list[k]
  <2>1. k - 1 \in Nat /\ k - 1 + 1 = k /\ k - 1 < n
    BY <1>1
  <2>2. r[k-1] \in Seq(S)
    BY <1>5, <2>1
  <2>3. step[<<k-1, r[k-1]>>] = r[k-1] \o list[k]
    BY <2>1, <2>2
  <2> HIDE DEF step
  <2>4. r[k-1+1] = step[<<k-1, r[k-1]>>]
    BY <1>5, <2>1
  <2> QED
    BY <2>1, <2>3, <2>4
<1>7. \A x \in Seq(S) : << >> \o x = x
  BY ConcatEmptySeq
<1> DEFINE g == [k \in 1 .. n |-> r[k]]
<1>8. g = Body(g)
  <2>1. ASSUME NEW k \in 1 .. n PROVE g[k] = IF k = 1 THEN list[k] ELSE g[k-1] \o list[k]
    <3>1. CASE k = 1
      <4>1. 1 \in 1 .. n /\ 1 - 1 = 0
        BY <1>1, <3>1
      <4>2. r[1] = r[0] \o list[1]
        BY <1>6, <4>1
      <4>3. list[1] \in Seq(S)
        BY <1>1, <4>1
      <4>4. r[1] = list[1]
        BY <1>5, <1>7, <4>2, <4>3
      <4> QED
        BY <3>1, <4>1, <4>4
    <3>2. CASE k # 1
      <4>1. k - 1 \in 1 .. n
        BY <1>1, <3>2
      <4> QED
        BY <1>6, <3>2, <4>1
    <3> QED
      BY <3>1, <3>2
  <2> HIDE DEF n
  <2> QED
    BY <2>1
<1> DEFINE it == CHOOSE f : f = Body(f)
<1>9. it = Body(it)
  <2> HIDE DEF Body
  <2> QED
    BY <1>8
<1>10. FlattenSeq(list) = IF n = 0 THEN list ELSE it[n]
  BY DEF FlattenSeq, n
<1> HIDE DEF it
<1>11. \A k \in 1 .. n : it[k] = IF k = 1 THEN list[k] ELSE it[k-1] \o list[k]
  BY <1>9
<1> DEFINE h == [k \in 0 .. n |-> IF k = 0 THEN << >> ELSE it[k]]
<1>12. ASSUME NEW k \in 1 .. n PROVE h[k] = h[k-1] \o list[k]
  <2>1. k \in 0 .. n /\ k - 1 \in 0 .. n /\ k # 0
    BY <1>1
  <2>2. CASE k = 1
    <3>1. 1 \in 1 .. n /\ 1 \in 0 .. n /\ 0 \in 0 .. n /\ 1 - 1 = 0
      BY <1>1, <2>2
    <3>2. h[1] = it[1] /\ it[1] = list[1] /\ h[0] = << >>
      BY <1>11, <3>1
    <3>3. list[1] \in Seq(S)
      BY <1>1, <3>1
    <3> HIDE DEF h
    <3> QED
      BY <1>7, <2>2, <3>1, <3>2, <3>3
  <2>3. CASE k # 1
    <3>1. k - 1 # 0
      BY <2>3
    <3>2. h[k] = it[k] /\ h[k-1] = it[k-1]
      BY <2>1, <3>1
    <3> QED
      BY <1>11, <2>3, <3>2
  <2> QED
    BY <2>2, <2>3
<1>13. h[0] = << >>
  BY <1>1
<1>14. FlattenSeq(list) = h[n]
  <2>1. CASE n = 0
    <3>1. list = << >>
      BY <2>1, EmptySeq DEF n
    <3> QED
      BY <1>10, <1>13, <2>1, <3>1
  <2>2. CASE n # 0
    <3>1. n \in 0 .. n
      BY <1>1
    <3> QED
      BY <1>10, <2>2, <3>1
  <2> QED
    BY <2>1, <2>2
<1> HIDE DEF h
<1> DEFINE T == {k \in 0 .. n : h[k] \in Seq(S)}
<1>15. 0 \in T
  <2>1. 0 \in 0 .. n
    BY <1>1
  <2> QED
    BY <1>2, <1>13, <2>1
<1>16. \A k \in 1 .. n : k - 1 \in T => k \in T
  <2> SUFFICES ASSUME NEW k \in 1 .. n, k - 1 \in T PROVE k \in T
    OBVIOUS
  <2>1. h[k-1] \in Seq(S) /\ list[k] \in Seq(S) /\ k \in 0 .. n
    BY <1>1
  <2>2. h[k] \in Seq(S)
    BY <1>12, <2>1, ConcatProperties, ZenonT(60)
  <2> QED
    BY <2>1, <2>2
<1>17. 0 .. n \subseteq T
  <2> HIDE DEF T
  <2> QED
    BY <1>1, <1>15, <1>16, InductionUpTo
<1>18. \A k \in 0 .. n : h[k] \in Seq(S)
  BY <1>17
<1>19. IsFlattening(h, list, n, S)
  BY <1>12, <1>13, <1>14, <1>18 DEF IsFlattening
<1> QED
  BY <1>19 DEF n

LEMMA FlattenTyped ==
  ASSUME NEW S, NEW list \in Seq(Seq(S))
  PROVE  FlattenSeq(list) \in Seq(S)
<1>1. PICK h : IsFlattening(h, list, Len(list), S)
  BY FlattenInTurn
<1>2. Len(list) \in 0 .. Len(list)
  OBVIOUS
<1> QED
  BY <1>1, <1>2 DEF IsFlattening

\* What is put together of two, three or four.
LEMMA FlattenFew ==
  ASSUME NEW S, NEW list \in Seq(Seq(S))
  PROVE  /\ Len(list) = 0 => FlattenSeq(list) = << >>
         /\ Len(list) = 1 => FlattenSeq(list) = list[1]
         /\ Len(list) = 2 => FlattenSeq(list) = list[1] \o list[2]
         /\ Len(list) = 3 => FlattenSeq(list) = list[1] \o list[2] \o list[3]
         /\ Len(list) = 4 => FlattenSeq(list) = list[1] \o list[2] \o list[3] \o list[4]
<1>1. PICK h : IsFlattening(h, list, Len(list), S)
  BY FlattenInTurn
<1> DEFINE n == Len(list)
<1>0. n \in Nat
  OBVIOUS
<1>2. /\ h[0] = << >> /\ FlattenSeq(list) = h[n]
      /\ \A k \in 1 .. n : h[k] = h[k-1] \o list[k]
  BY <1>1 DEF IsFlattening
<1>3. n >= 1 => h[1] = list[1]
  <2> SUFFICES ASSUME n >= 1 PROVE h[1] = list[1]
    OBVIOUS
  <2>1. 1 \in 1 .. n /\ 1 - 1 = 0
    BY <1>0
  <2>2. list[1] \in Seq(S)
    BY <2>1, ElementOfSeq
  <2>3. << >> \o list[1] = list[1]
    BY <2>2, ConcatEmptySeq
  <2> QED
    BY <1>2, <2>1, <2>3
<1> HIDE DEF n
<1>4. n >= 2 => h[2] = h[1] \o list[2]
  <2> SUFFICES ASSUME n >= 2 PROVE h[2] = h[1] \o list[2]
    OBVIOUS
  <2>1. 2 \in 1 .. n /\ 2 - 1 = 1
    BY <1>0
  <2> QED
    BY <1>2, <2>1
<1>5. n >= 3 => h[3] = h[2] \o list[3]
  <2> SUFFICES ASSUME n >= 3 PROVE h[3] = h[2] \o list[3]
    OBVIOUS
  <2>1. 3 \in 1 .. n /\ 3 - 1 = 2
    BY <1>0
  <2> QED
    BY <1>2, <2>1
<1>6. n >= 4 => h[4] = h[3] \o list[4]
  <2> SUFFICES ASSUME n >= 4 PROVE h[4] = h[3] \o list[4]
    OBVIOUS
  <2>1. 4 \in 1 .. n /\ 4 - 1 = 3
    BY <1>0
  <2> QED
    BY <1>2, <2>1
<1>7. n = 0 => FlattenSeq(list) = << >>
  BY <1>2
<1>8. n = 1 => FlattenSeq(list) = list[1]
  BY <1>2, <1>3
<1>9. n >= 2 => h[2] = list[1] \o list[2]
  <2> SUFFICES ASSUME n >= 2 PROVE h[2] = list[1] \o list[2]
    OBVIOUS
  <2>1. n >= 1
    BY <1>0
  <2> QED
    BY <2>1, <1>3, <1>4
<1>10. n >= 3 => h[3] = list[1] \o list[2] \o list[3]
  <2> SUFFICES ASSUME n >= 3 PROVE h[3] = list[1] \o list[2] \o list[3]
    OBVIOUS
  <2>1. n >= 2
    BY <1>0
  <2> QED
    BY <2>1, <1>9, <1>5
<1>11. n >= 4 => h[4] = list[1] \o list[2] \o list[3] \o list[4]
  <2> SUFFICES ASSUME n >= 4 PROVE h[4] = list[1] \o list[2] \o list[3] \o list[4]
    OBVIOUS
  <2>1. n >= 3
    BY <1>0
  <2> QED
    BY <2>1, <1>10, <1>6
<1>12. n = 2 => FlattenSeq(list) = list[1] \o list[2]
  <2> SUFFICES ASSUME n = 2 PROVE FlattenSeq(list) = list[1] \o list[2]
    OBVIOUS
  <2>1. n >= 2 /\ FlattenSeq(list) = h[2]
    BY <1>2
  <2> QED
    BY <2>1, <1>9
<1>13. n = 3 => FlattenSeq(list) = list[1] \o list[2] \o list[3]
  <2> SUFFICES ASSUME n = 3 PROVE FlattenSeq(list) = list[1] \o list[2] \o list[3]
    OBVIOUS
  <2>1. n >= 3 /\ FlattenSeq(list) = h[3]
    BY <1>2
  <2> QED
    BY <2>1, <1>10
<1>14. n = 4 => FlattenSeq(list) = list[1] \o list[2] \o list[3] \o list[4]
  <2> SUFFICES ASSUME n = 4 PROVE FlattenSeq(list) = list[1] \o list[2] \o list[3] \o list[4]
    OBVIOUS
  <2>1. n >= 4 /\ FlattenSeq(list) = h[4]
    BY <1>2
  <2> QED
    BY <2>1, <1>11
<1> QED
  BY <1>7, <1>8, <1>12, <1>13, <1>14 DEF n

\* Of nothing but empty lists.
LEMMA FlattenNothing ==
  ASSUME NEW S, NEW list \in Seq(Seq(S)), \A k \in 1 .. Len(list) : list[k] = << >>
  PROVE  FlattenSeq(list) = << >>
<1> DEFINE n == Len(list)
<1>1. PICK h : IsFlattening(h, list, n, S)
  BY FlattenInTurn
<1>0. n \in Nat
  OBVIOUS
<1>2. /\ h[0] = << >> /\ FlattenSeq(list) = h[n]
      /\ \A k \in 1 .. n : h[k] = h[k-1] \o list[k]
  BY <1>1 DEF IsFlattening
<1>10. \A k \in 1 .. n : list[k] = << >>
  OBVIOUS
<1> HIDE DEF n
<1> DEFINE T == {k \in 0 .. n : h[k] = << >>}
<1>3. 0 \in T
  BY <1>0, <1>2
<1>4. \A k \in 1 .. n : k - 1 \in T => k \in T
  <2> SUFFICES ASSUME NEW k \in 1 .. n, k - 1 \in T PROVE k \in T
    OBVIOUS
  <2>1. h[k-1] = << >> /\ list[k] = << >> /\ k \in 0 .. n
    BY <1>0, <1>10
  <2>2. << >> \o << >> = << >>
    OBVIOUS
  <2> QED
    BY <1>2, <2>1, <2>2
<1>5. 0 .. n \subseteq T
  <2> HIDE DEF T
  <2> QED
    BY <1>0, <1>3, <1>4, InductionUpTo
<1>6. n \in 0 .. n
  BY <1>0
<1> QED
  BY <1>2, <1>5, <1>6

\* Of one more.
LEMMA FlattenLater ==
  ASSUME NEW S, NEW list \in Seq(Seq(S)), NEW more \in Seq(Seq(S)),
         Len(more) = Len(list) + 1, \A k \in 1 .. Len(list) : more[k] = list[k]
  PROVE  FlattenSeq(more) = FlattenSeq(list) \o more[Len(more)]
<1> DEFINE n == Len(list)
<1>1. PICK h : IsFlattening(h, list, n, S)
  BY FlattenInTurn
<1>2. PICK g : IsFlattening(g, more, Len(more), S)
  BY FlattenInTurn
<1>0. n \in Nat /\ Len(more) = n + 1
  OBVIOUS
<1>10. \A k \in 1 .. n : more[k] = list[k]
  OBVIOUS
<1>3. /\ h[0] = << >> /\ FlattenSeq(list) = h[n]
      /\ \A k \in 1 .. n : h[k] = h[k-1] \o list[k]
  BY <1>1 DEF IsFlattening
<1>4. /\ g[0] = << >> /\ FlattenSeq(more) = g[n+1]
      /\ \A k \in 1 .. n + 1 : g[k] = g[k-1] \o more[k]
  <2> HIDE DEF n
  <2> QED
    BY <1>2, <1>0 DEF IsFlattening
<1> HIDE DEF n
<1> DEFINE T == {k \in 0 .. n : g[k] = h[k]}
<1>5. 0 \in T
  BY <1>0, <1>3, <1>4
<1>6. \A k \in 1 .. n : k - 1 \in T => k \in T
  <2> SUFFICES ASSUME NEW k \in 1 .. n, k - 1 \in T PROVE k \in T
    OBVIOUS
  <2>1. h[k-1] = g[k-1] /\ list[k] = more[k] /\ k \in 0 .. n /\ k \in 1 .. n + 1
    BY <1>0, <1>10
  <2> QED
    BY <1>3, <1>4, <2>1
<1>7. 0 .. n \subseteq T
  <2> HIDE DEF T
  <2> QED
    BY <1>0, <1>5, <1>6, InductionUpTo
<1>8. n \in 0 .. n /\ n + 1 \in 1 .. n + 1 /\ n + 1 - 1 = n
  BY <1>0
<1>9. g[n] = h[n]
  BY <1>7, <1>8
<1>11. g[n+1] = g[n] \o more[n+1]
  <2> DEFINE m == n + 1
  <2>1. m \in 1 .. n + 1 /\ m - 1 = n
    BY <1>0
  <2> HIDE DEF m
  <2>2. g[m] = g[m-1] \o more[m]
    BY <1>4, <2>1
  <2>3. g[m] = g[n] \o more[m]
    BY <2>1, <2>2
  <2> QED
    BY <2>3 DEF m
<1> QED
  BY <1>0, <1>3, <1>4, <1>9, <1>11

-----------------------------------------------------------------------------
(* Headers are sequences of fields, put together in whatever groups.       *)

FieldNames ==
  {"render_differs", "render_width", "render_height", "width", "height",
   "found_ref", "update_delta", "level", "sharpness", "delta_enabled",
   "delta_update", "ref_delta", "mode_delta", "base_q_idx", "delta_coded",
   "delta_q", "feature_enabled", "abs_delta", "alt_q", "alt_l", "ref",
   "skip", "prob_coded", "tree_prob", "temporal_update", "pred_prob",
   "segmentation_enabled", "update_map", "update_data", "increment_cols",
   "tile_rows", "increment_rows", "frame_marker", "profile",
   "show_existing_frame", "frame_type", "show_frame", "error_resilient",
   "sync_code", "color_space", "color_range", "intra_only",
   "reset_frame_context", "refresh_flags", "ref_idx", "sign_bias",
   "high_precision_mv", "switchable", "filter", "refresh_context",
   "parallel_mode", "context_idx", "first_partition_size", "inter_mode",
   "interp_filter", "is_inter", "reference_select", "reference_select_2",
   "comp_mode", "single_ref", "comp_ref", "y_mode", "partition", "joint",
   "sign", "classes", "class0_bit", "bits", "class0_fr", "fr", "class0_hp",
   "hp", "tx_mode", "tx_mode_select", "tx8", "tx16", "tx32", "update_coef",
   "coef"}

Headers == Seq(FieldNames \X Nat)

LEMMA HeadersJoined == ASSUME NEW x \in Headers, NEW y \in Headers PROVE x \o y \in Headers
  BY ConcatProperties DEF Headers

LEMMA Nothing ==
  /\ << >> \in Headers
  /\ \A x \in Headers : x \o << >> = x /\ << >> \o x = x
  BY EmptySeq, ConcatEmptySeq DEF Headers

\* A group of fields in a header is one field after another.
IsJoined2(x, a, b) == x \o (a \o b) = x \o a \o b
IsJoined3(x, a, b, c) == x \o (a \o b \o c) = x \o a \o b \o c
IsJoined4(x, a, b, c, d) == x \o (a \o b \o c \o d) = x \o a \o b \o c \o d
IsJoined5(x, a, b, c, d, e) == x \o (a \o b \o c \o d \o e) = x \o a \o b \o c \o d \o e

LEMMA Join2 ==
  ASSUME NEW x \in Headers, NEW a \in Headers, NEW b \in Headers
  PROVE  x \o (a \o b) = x \o a \o b
<1> DEFINE S == FieldNames \X Nat
<1>1. x \in Seq(S) /\ a \in Seq(S) /\ b \in Seq(S)
  BY DEF Headers
<1> HIDE DEF S
<1> QED
  BY <1>1, ConcatAssociative

LEMMA Joined2 ==
  ASSUME NEW x \in Headers, NEW a \in Headers, NEW b \in Headers
  PROVE  IsJoined2(x, a, b)
  BY Join2 DEF IsJoined2

LEMMA Join3 ==
  ASSUME NEW x \in Headers, NEW a \in Headers, NEW b \in Headers, NEW c \in Headers
  PROVE  IsJoined3(x, a, b, c)
<1> DEFINE ab == a \o b
<1>1. ab \in Headers
  BY HeadersJoined
<1> HIDE DEF ab
<1>2. IsJoined2(x, a, b) /\ IsJoined2(x, ab, c)
  BY <1>1, Joined2
<1> QED
  BY <1>2 DEF IsJoined2, IsJoined3, ab

LEMMA Join4 ==
  ASSUME NEW x \in Headers, NEW a \in Headers, NEW b \in Headers, NEW c \in Headers,
         NEW d \in Headers
  PROVE  IsJoined4(x, a, b, c, d)
<1> DEFINE abc == a \o b \o c
<1>1. abc \in Headers
  <2> DEFINE ab == a \o b
  <2>1. ab \in Headers
    BY HeadersJoined
  <2> HIDE DEF ab
  <2>2. ab \o c \in Headers
    BY <2>1, HeadersJoined
  <2> QED
    BY <2>2 DEF ab
<1> HIDE DEF abc
<1>2. IsJoined3(x, a, b, c) /\ IsJoined2(x, abc, d)
  BY <1>1, Join3, Joined2
<1> QED
  BY <1>2 DEF IsJoined2, IsJoined3, IsJoined4, abc

LEMMA Join5 ==
  ASSUME NEW x \in Headers, NEW a \in Headers, NEW b \in Headers, NEW c \in Headers,
         NEW d \in Headers, NEW e \in Headers
  PROVE  IsJoined5(x, a, b, c, d, e)
<1> DEFINE abcd == a \o b \o c \o d
<1>1. abcd \in Headers
  <2> DEFINE ab == a \o b  abc == ab \o c
  <2>1. ab \in Headers
    BY HeadersJoined
  <2> HIDE DEF ab
  <2>2. abc \in Headers
    BY <2>1, HeadersJoined
  <2> HIDE DEF abc
  <2>3. abc \o d \in Headers
    BY <2>2, HeadersJoined
  <2> QED
    BY <2>3 DEF abc, ab
<1> HIDE DEF abcd
<1>2. IsJoined4(x, a, b, c, d) /\ IsJoined2(x, abcd, e)
  BY <1>1, Join4, Joined2
<1> QED
  BY <1>2 DEF IsJoined2, IsJoined4, IsJoined5, abcd

LEMMA FieldTyped ==
  ASSUME NEW name \in FieldNames, NEW w \in Nat
  PROVE  << <<name, w>> >> \in Headers
<1> DEFINE f == <<name, w>>
           Fields == FieldNames \X Nat
<1>1. f \in Fields
  OBVIOUS
<1> HIDE DEF f, Fields
<1>2. <<f>> \in Seq(Fields)
  BY <1>1
<1> QED
  BY <1>2 DEF f, Fields, Headers

LEMMA RowTyped ==
  ASSUME NEW name \in FieldNames, NEW w \in Nat, NEW p
  PROVE  Row(name, w, p) \in Headers
  BY FieldTyped, Nothing DEF Row

LEMMA EachFew ==
  ASSUME NEW n \in Nat, NEW f \in [1 .. n -> Headers]
  PROVE  /\ FlattenSeq(f) \in Headers
         /\ n = 0 => FlattenSeq(f) = << >>
         /\ n = 1 => FlattenSeq(f) = f[1]
         /\ n = 2 => FlattenSeq(f) = f[1] \o f[2]
         /\ n = 3 => FlattenSeq(f) = f[1] \o f[2] \o f[3]
         /\ n = 4 => FlattenSeq(f) = f[1] \o f[2] \o f[3] \o f[4]
         /\ (\A k \in 1 .. n : f[k] = << >>) => FlattenSeq(f) = << >>
<1> DEFINE S == FieldNames \X Nat
<1>0. Headers = Seq(S)
  BY DEF Headers
<1> HIDE DEF S
<1>1. f \in Seq(Headers) /\ Len(f) = n
  <2>1. f \in Seq(Headers) /\ DOMAIN f = 1 .. n
    BY SeqDef
  <2>2. Len(f) = n
    BY <2>1, LenProperties
  <2> QED
    BY <2>1, <2>2
<1>2. f \in Seq(Seq(S))
  BY <1>0, <1>1
<1>3. FlattenSeq(f) \in Seq(S)
  BY <1>2, FlattenTyped
<1>4. (\A k \in 1 .. n : f[k] = << >>) => FlattenSeq(f) = << >>
  BY <1>1, <1>2, FlattenNothing
<1>5. /\ n = 0 => FlattenSeq(f) = << >>
      /\ n = 1 => FlattenSeq(f) = f[1]
      /\ n = 2 => FlattenSeq(f) = f[1] \o f[2]
      /\ n = 3 => FlattenSeq(f) = f[1] \o f[2] \o f[3]
      /\ n = 4 => FlattenSeq(f) = f[1] \o f[2] \o f[3] \o f[4]
  BY <1>1, <1>2, FlattenFew
<1> QED
  BY <1>0, <1>3, <1>4, <1>5

-----------------------------------------------------------------------------
(* The sections of the uncompressed header, as the driver reads them and   *)
(* as the specification writes them.                                       *)

LEMMA PieceTyped ==
  ASSUME NEW name \in FieldNames
  PROVE  Bit(name) \in Headers /\ \A w \in Nat : Bits(name, w) \in Headers
  BY FieldTyped DEF Bit, Bits

LEMMA WhenTyped ==
  ASSUME NEW p \in BOOLEAN, NEW x \in Headers
  PROVE  When(p, x) \in Headers
  BY Nothing DEF When

\* A condition on several fields is one on each.
LEMMA WhenJoined ==
  ASSUME NEW p \in BOOLEAN, NEW x \in Headers, NEW y \in Headers
  PROVE  When(p, x \o y) = When(p, x) \o When(p, y)
<1>1. << >> \o << >> = << >>
  BY Nothing
<1> QED
  BY <1>1 DEF When

\* Flags each with a value, as the driver reads them.
FlaggedRead(n, flag, name, width, set) ==
  Each(n, LAMBDA k : Bit(flag) \o When(k \in set, Bits(name, width)))

LEMMA FlaggedAgree ==
  ASSUME NEW n \in Nat, NEW flag \in FieldNames, NEW name \in FieldNames, NEW width \in Nat,
         NEW present \in BOOLEAN, NEW set
  PROVE  /\ FlaggedRead(n, flag, name, width, set) \in Headers
         /\ Flagged(n, flag, name, width, present, set)
              = When(present, FlaggedRead(n, flag, name, width, set))
         /\ Flagged(n, flag, name, width, present, set) \in Headers
<1> DEFINE f == [k \in 1 .. n |-> Bit(flag) \o When(k \in set, Bits(name, width))]
           g == [k \in 1 .. n |-> Row(flag, 1, present) \o Row(name, width, present /\ k \in set)]
<1>1. ASSUME NEW k \in 1 .. n PROVE Bit(flag) \o When(k \in set, Bits(name, width)) \in Headers
  <2> DEFINE p == k \in set
  <2>1. p \in BOOLEAN
    OBVIOUS
  <2> HIDE DEF p
  <2>2. Bit(flag) \in Headers /\ Bits(name, width) \in Headers
    BY PieceTyped DEF FieldNames
  <2>3. When(p, Bits(name, width)) \in Headers
    BY <2>1, <2>2, WhenTyped
  <2>4. Bit(flag) \o When(p, Bits(name, width)) \in Headers
    BY <2>2, <2>3, HeadersJoined
  <2> QED
    BY <2>4 DEF p
<1>2. f \in [1 .. n -> Headers]
  BY <1>1
<1>3. FlaggedRead(n, flag, name, width, set) = FlattenSeq(f)
  BY DEF FlaggedRead, Each
<1>4. Flagged(n, flag, name, width, present, set) = FlattenSeq(g)
  BY DEF Flagged
<1>5. FlattenSeq(f) \in Headers
  <2> HIDE DEF f
  <2> QED
    BY <1>2, EachFew
<1>6. CASE present
  <2>1. ASSUME NEW k \in 1 .. n PROVE g[k] = f[k]
    BY <1>6 DEF Row, Bit, Bits, When
  <2>2. g = f
    BY <2>1
  <2>3. When(present, FlattenSeq(f)) = FlattenSeq(f)
    BY <1>6 DEF When
  <2> HIDE DEF f, g
  <2> QED
    BY <1>3, <1>4, <1>5, <2>2, <2>3
<1>7. CASE ~present
  <2>1. ASSUME NEW k \in 1 .. n PROVE g[k] = << >>
    <3>1. g[k] = << >> \o << >>
      BY <1>7 DEF Row
    <3>2. << >> \o << >> = << >>
      BY Nothing
    <3> QED
      BY <3>1, <3>2
  <2>2. g \in [1 .. n -> Headers]
    <3>1. << >> \in Headers /\ g = [k \in 1 .. n |-> g[k]]
      BY Nothing
    <3> QED
      BY <2>1, <3>1
  <2>3. FlattenSeq(g) = << >>
    <3> HIDE DEF g
    <3> QED
      BY <2>1, <2>2, EachFew
  <2>4. When(present, FlattenSeq(f)) = << >>
    BY <1>7 DEF When
  <2> HIDE DEF f, g
  <2> QED
    BY <1>3, <1>4, <1>5, <2>3, <2>4, Nothing
<1> QED
  BY <1>6, <1>7

LEMMA LoopFilterAgrees ==
  ASSUME NEW h, IsHeader(h)
  PROVE  LoopFilter(h) = LoopFilterRows(h) /\ LoopFilterRows(h) \in Headers
<1> DEFINE upd == h.lf = "update"
           l == Bits("level", 6)
           s == Bits("sharpness", 3)
           d == Bit("delta_enabled")
           u == When(h.lf # "off", Bit("delta_update"))
           e4 == FlaggedRead(4, "update_delta", "ref_delta", 7, h.deltas)
           e2 == Each(2, LAMBDA k : Bit("update_delta") \o When(k + 4 \in h.deltas, Bits("mode_delta", 7)))
           low == {k - 4 : k \in h.deltas}
           w2 == FlaggedRead(2, "update_delta", "mode_delta", 7, low)
           f4 == Flagged(4, "update_delta", "ref_delta", 7, upd, h.deltas)
           f2 == Flagged(2, "update_delta", "mode_delta", 7, upd, low)
<1> HIDE DEF e2
<1>1. l \in Headers /\ s \in Headers /\ d \in Headers /\ u \in Headers
  <2>1. l \in Headers /\ s \in Headers
    BY PieceTyped DEF FieldNames
  <2>2. d \in Headers
    BY PieceTyped DEF FieldNames
  <2>3. Bit("delta_update") \in Headers
    BY PieceTyped DEF FieldNames
  <2>4. u \in Headers
    BY <2>3, Nothing DEF When
  <2> QED
    BY <2>1, <2>2, <2>4
<1>2. LoopFilter(h) = l \o s \o d \o u \o When(upd, e4 \o e2)
  BY Zenon DEF LoopFilter, FlaggedRead, e2
<1>3. LoopFilterRows(h) = l \o s \o d \o u \o f4 \o f2
  <2>1. /\ Row("level", 6, TRUE) = l /\ Row("sharpness", 3, TRUE) = s
        /\ Row("delta_enabled", 1, TRUE) = d /\ Row("delta_update", 1, h.lf # "off") = u
    BY DEF Row, Bits, Bit, When
  <2> HIDE DEF l, s, d, u
  <2> QED
    BY <2>1 DEF LoopFilterRows
<1>4. e2 = w2
  <2>1. ASSUME NEW k \in 1 .. 2 PROVE (k + 4 \in h.deltas) <=> (k \in low)
    <3>1. h.deltas \subseteq 1 .. 6
      BY DEF IsHeader
    <3>2. ASSUME k + 4 \in h.deltas PROVE k \in low
      <4>1. k = (k + 4) - 4
        OBVIOUS
      <4> QED
        BY <3>2, <4>1
    <3>3. ASSUME k \in low PROVE k + 4 \in h.deltas
      <4>1. PICK j \in h.deltas : k = j - 4
        BY <3>3
      <4>2. j = k + 4
        BY <3>1, <4>1
      <4> QED
        BY <4>1, <4>2
    <3> QED
      BY <3>2, <3>3
  <2>2. ASSUME NEW k \in 1 .. 2
        PROVE  Bit("update_delta") \o When(k + 4 \in h.deltas, Bits("mode_delta", 7))
                 = Bit("update_delta") \o When(k \in low, Bits("mode_delta", 7))
    <3> HIDE DEF low
    <3> QED
      BY <2>1 DEF When
  <2> HIDE DEF low
  <2> QED
    BY <2>2 DEF FlaggedRead, Each, e2
<1>5. upd \in BOOLEAN
  OBVIOUS
<1>11. "update_delta" \in FieldNames /\ "ref_delta" \in FieldNames /\ "mode_delta" \in FieldNames
  BY DEF FieldNames
<1> HIDE DEF upd, low
<1>6. f4 = When(upd, e4) /\ e4 \in Headers /\ f4 \in Headers
  BY <1>5, <1>11, FlaggedAgree
<1>7. f2 = When(upd, w2) /\ w2 \in Headers /\ f2 \in Headers
  BY <1>5, <1>11, FlaggedAgree
<1> HIDE DEF l, s, d, u, e4, e2, w2, f4, f2
<1>8. When(upd, e4 \o e2) = f4 \o f2
  BY <1>4, <1>5, <1>6, <1>7, WhenJoined
<1> DEFINE x == l \o s \o d \o u
<1>9. x \in Headers
  <2>1. l \o s \in Headers
    BY <1>1, HeadersJoined
  <2>2. l \o s \o d \in Headers
    BY <1>1, <2>1, HeadersJoined
  <2> QED
    BY <1>1, <2>2, HeadersJoined
<1> HIDE DEF x
<1>10. x \o (f4 \o f2) = x \o f4 \o f2 /\ x \o f4 \o f2 \in Headers
  <2>1. x \o f4 \in Headers
    BY <1>6, <1>9, HeadersJoined
  <2>2. x \o (f4 \o f2) = x \o f4 \o f2
    <3>1. IsJoined2(x, f4, f2)
      BY <1>6, <1>7, <1>9, Joined2
    <3> QED
      BY <3>1 DEF IsJoined2
  <2>3. x \o f4 \o f2 \in Headers
    BY <1>7, <2>1, HeadersJoined, Zenon
  <2> QED
    BY <2>2, <2>3
<1> QED
  BY <1>2, <1>3, <1>8, <1>10 DEF x

LEMMA QuantizationAgrees ==
  ASSUME NEW h
  PROVE  /\ Quantization(h) = Bits("base_q_idx", 8)
                                \o Flagged(3, "delta_coded", "delta_q", 5, TRUE, h.quant)
         /\ Flagged(3, "delta_coded", "delta_q", 5, TRUE, h.quant) \in Headers
<1> DEFINE e == FlaggedRead(3, "delta_coded", "delta_q", 5, h.quant)
           f == Flagged(3, "delta_coded", "delta_q", 5, TRUE, h.quant)
<1>1. "delta_coded" \in FieldNames /\ "delta_q" \in FieldNames
  BY DEF FieldNames
<1>2. ASSUME NEW yes \in BOOLEAN
      PROVE  /\ Flagged(3, "delta_coded", "delta_q", 5, yes, h.quant) = When(yes, e)
             /\ Flagged(3, "delta_coded", "delta_q", 5, yes, h.quant) \in Headers
  BY <1>1, FlaggedAgree
<1>3. f = When(TRUE, e) /\ f \in Headers
  <2> HIDE DEF e
  <2> QED
    BY <1>2
<1>5. f = e /\ f \in Headers
  BY <1>3 DEF When
<1>6. Quantization(h) = Bits("base_q_idx", 8) \o e
  BY Zenon DEF Quantization, FlaggedRead
<1> QED
  BY <1>5, <1>6

-----------------------------------------------------------------------------
(* Segmentation.                                                           *)

\* The values of one segment, as the driver reads them.
FeatureRead(set, name, width) == Bit("feature_enabled") \o When(name \in set, Bits(name, width))
SegmentRead(set) ==
  FeatureRead(set, "alt_q", 9) \o FeatureRead(set, "alt_l", 7)
    \o FeatureRead(set, "ref", 2) \o FeatureRead(set, "skip", 0)

\* And as the specification writes them, when they are there.
FeatureRow(set, name, width, there) ==
  Row("feature_enabled", 1, there) \o Row(name, width, there /\ name \in set)
SegmentRow(set, there) ==
  FeatureRow(set, "alt_q", 9, there) \o FeatureRow(set, "alt_l", 7, there)
    \o FeatureRow(set, "ref", 2, there) \o FeatureRow(set, "skip", 0, there)

LEMMA FeatureTyped ==
  ASSUME NEW set, NEW name \in FieldNames, NEW width \in Nat
  PROVE  FeatureRead(set, name, width) \in Headers
<1> DEFINE p == name \in set
<1>1. p \in BOOLEAN
  OBVIOUS
<1> HIDE DEF p
<1>2. Bit("feature_enabled") \in Headers
  BY PieceTyped DEF FieldNames
<1>3. Bits(name, width) \in Headers
  BY PieceTyped
<1>4. When(p, Bits(name, width)) \in Headers
  BY <1>1, <1>3, WhenTyped
<1>5. Bit("feature_enabled") \o When(p, Bits(name, width)) \in Headers
  BY <1>2, <1>4, HeadersJoined
<1> QED
  BY <1>5 DEF FeatureRead, p

LEMMA SegmentsAgree ==
  ASSUME NEW set
  PROVE  /\ SegmentRead(set) \in Headers
         /\ SegmentRow(set, TRUE) = SegmentRead(set)
         /\ SegmentRow(set, FALSE) = << >>
<1>1. SegmentRead(set) \in Headers
  <2> DEFINE a == FeatureRead(set, "alt_q", 9)
             b == FeatureRead(set, "alt_l", 7)
             c == FeatureRead(set, "ref", 2)
             d == FeatureRead(set, "skip", 0)
  <2>1. "alt_q" \in FieldNames /\ "alt_l" \in FieldNames /\ "ref" \in FieldNames
        /\ "skip" \in FieldNames
    BY DEF FieldNames
  <2>2. a \in Headers /\ b \in Headers /\ c \in Headers /\ d \in Headers
    BY <2>1, FeatureTyped
  <2>3. SegmentRead(set) = a \o b \o c \o d
    BY DEF SegmentRead
  <2> HIDE DEF a, b, c, d
  <2>4. a \o b \in Headers
    BY <2>2, HeadersJoined
  <2>5. a \o b \o c \in Headers
    BY <2>2, <2>4, HeadersJoined
  <2> QED
    BY <2>2, <2>3, <2>5, HeadersJoined
<1>2. ASSUME NEW name, NEW width
      PROVE  /\ FeatureRow(set, name, width, TRUE) = FeatureRead(set, name, width)
             /\ FeatureRow(set, name, width, FALSE) = << >>
  <2>1. FeatureRow(set, name, width, TRUE) = FeatureRead(set, name, width)
    BY DEF FeatureRow, FeatureRead, Row, Bit, Bits, When
  <2>2. FeatureRow(set, name, width, FALSE) = << >> \o << >>
    BY DEF FeatureRow, Row
  <2>3. << >> \o << >> = << >>
    BY Nothing
  <2> QED
    BY <2>1, <2>2, <2>3
<1>3. SegmentRow(set, TRUE) = SegmentRead(set)
  BY <1>2 DEF SegmentRow, SegmentRead
<1>4. SegmentRow(set, FALSE) = << >>
  <2>1. SegmentRow(set, FALSE) = << >> \o << >> \o << >> \o << >>
    BY <1>2 DEF SegmentRow
  <2>2. << >> \o << >> = << >>
    BY Nothing
  <2> QED
    BY <2>1, <2>2
<1> QED
  BY <1>1, <1>3, <1>4

FeatureRows(h) == FlattenSeq([k \in DOMAIN h.features |-> SegmentRow(h.features[k], h.seg /\ h.data)])
FeaturesRead(h) == FlattenSeq([k \in DOMAIN h.features |-> SegmentRead(h.features[k])])

LEMMA FeaturesAgree ==
  ASSUME NEW h, IsHeader(h)
  PROVE  /\ FeaturesRead(h) \in Headers
         /\ Features(h) = Bit("abs_delta") \o FeaturesRead(h)
         /\ h.seg /\ h.data => FeatureRows(h) = FeaturesRead(h)
         /\ ~(h.seg /\ h.data) => FeatureRows(h) = << >>
<1> DEFINE n == Len(h.features)
           f == [k \in 1 .. n |-> SegmentRead(h.features[k])]
           there == h.seg /\ h.data
           g == [k \in 1 .. n |-> SegmentRow(h.features[k], there)]
<1>1. n \in Nat /\ DOMAIN h.features = 1 .. n
  BY DEF IsHeader
<1>2. FeaturesRead(h) = FlattenSeq(f)
  BY <1>1 DEF FeaturesRead
<1>3. FeatureRows(h) = FlattenSeq(g)
  BY <1>1 DEF FeatureRows
<1>4. Features(h) = Bit("abs_delta") \o FlattenSeq(f)
  BY DEF Features, Each, SegmentRead, FeatureRead
<1> HIDE DEF n
<1>5. f \in [1 .. n -> Headers]
  BY SegmentsAgree
<1>6. FlattenSeq(f) \in Headers
  <2> HIDE DEF f
  <2> QED
    BY <1>1, <1>5, EachFew
<1>7. ASSUME there PROVE FlattenSeq(g) = FlattenSeq(f)
  <2>1. ASSUME NEW k \in 1 .. n PROVE SegmentRow(h.features[k], there) = SegmentRead(h.features[k])
    <3>1. SegmentRow(h.features[k], TRUE) = SegmentRead(h.features[k])
      BY SegmentsAgree
    <3>2. there = TRUE
      BY <1>7
    <3> QED
      BY <3>1, <3>2
  <2> QED
    BY <2>1
<1>8. ASSUME ~there PROVE FlattenSeq(g) = << >>
  <2>1. ASSUME NEW k \in 1 .. n PROVE SegmentRow(h.features[k], there) = << >>
    <3>1. SegmentRow(h.features[k], FALSE) = << >>
      BY SegmentsAgree
    <3>2. there = FALSE
      BY <1>8
    <3> QED
      BY <3>1, <3>2
  <2>2. g \in [1 .. n -> Headers] /\ \A k \in 1 .. n : g[k] = << >>
    BY <2>1, Nothing
  <2> HIDE DEF g
  <2> QED
    BY <1>1, <2>2, EachFew
<1> QED
  BY <1>2, <1>3, <1>4, <1>6, <1>7, <1>8

LEMMA ProbsAgree ==
  ASSUME NEW n \in 0 .. 7, NEW name \in FieldNames, NEW probs \in BOOLEAN
  PROVE  Each(n, LAMBDA k : Bit("prob_coded") \o When(probs, Bits(name, 8)))
           = FlaggedRead(n, "prob_coded", name, 8, IF probs THEN 1 .. 7 ELSE {})
<1> DEFINE all == IF probs THEN 1 .. 7 ELSE {}
<1>1. ASSUME NEW k \in 1 .. n
      PROVE  Bit("prob_coded") \o When(probs, Bits(name, 8))
               = Bit("prob_coded") \o When(k \in all, Bits(name, 8))
  <2>1. probs <=> k \in all
    OBVIOUS
  <2> QED
    BY <2>1 DEF When
<1> QED
  BY <1>1 DEF FlaggedRead, Each

LEMMA SegmentationAgrees ==
  ASSUME NEW h, IsHeader(h), ~SegmentationImplied(h)
  PROVE  Segmentation(h) = SegmentationRows(h) /\ SegmentationRows(h) \in Headers
<1> DEFINE all == IF h.probs THEN 1 .. 7 ELSE {}
           map == h.seg /\ h.map
           told == map /\ h.temporal
           se == Bit("segmentation_enabled")
           um == Bit("update_map")
           tu == Bit("temporal_update")
           ud == Bit("update_data")
           ab == Bit("abs_delta")
           e7 == FlaggedRead(7, "prob_coded", "tree_prob", 8, all)
           e3 == FlaggedRead(3, "prob_coded", "pred_prob", 8, all)
           f7 == Flagged(7, "prob_coded", "tree_prob", 8, map, all)
           f3 == Flagged(3, "prob_coded", "pred_prob", 8, told, all)
           ff == FeatureRows(h)
           fe == FeaturesRead(h)
<1>1. {h.seg, h.map, h.probs, h.temporal, h.data} \subseteq BOOLEAN
  BY DEF IsHeader
<1>2. se \in Headers /\ um \in Headers
  BY PieceTyped DEF FieldNames
<1>3. tu \in Headers /\ ud \in Headers
  BY PieceTyped DEF FieldNames
<1>4. ab \in Headers
  BY PieceTyped DEF FieldNames
<1>5. "prob_coded" \in FieldNames /\ "tree_prob" \in FieldNames /\ "pred_prob" \in FieldNames
  BY DEF FieldNames
<1>6. /\ fe \in Headers /\ Features(h) = ab \o fe
      /\ h.seg /\ h.data => ff = fe
      /\ ~(h.seg /\ h.data) => ff = << >>
  BY FeaturesAgree
<1>7. ff \in Headers
  BY <1>6, Nothing
<1>8. MapProbs(h) = e7 \o tu \o When(h.temporal, e3)
  <2>1. h.probs \in BOOLEAN /\ 7 \in 0 .. 7 /\ 3 \in 0 .. 7
    BY <1>1
  <2>2. Each(7, LAMBDA k : Bit("prob_coded") \o When(h.probs, Bits("tree_prob", 8))) = e7
    BY <2>1, <1>5, ProbsAgree, Zenon
  <2>3. Each(3, LAMBDA k : Bit("prob_coded") \o When(h.probs, Bits("pred_prob", 8))) = e3
    BY <2>1, <1>5, ProbsAgree, Zenon
  <2> QED
    BY <2>2, <2>3, Zenon DEF MapProbs
<1>9. SegmentationRows(h)
        = se \o When(h.seg, um) \o f7 \o When(map, tu) \o f3 \o When(h.seg, ud)
            \o When(h.seg /\ h.data, ab) \o ff
  BY DEF SegmentationRows, Row, Bit, Bits, When, FeatureRows, SegmentRow, FeatureRow
<1>10. Segmentation(h)
         = se \o When(h.seg, um \o When(h.map, MapProbs(h)) \o ud) \o When(h.seg /\ h.data, Features(h))
  <2>1. ~(h.seg /\ (h.frame # "inter" \/ h.er))
    BY DEF SegmentationImplied
  <2> QED
    BY <2>1 DEF Segmentation, When
<1>11. map \in BOOLEAN /\ told \in BOOLEAN /\ (h.seg => (map <=> h.map)) /\ (~h.seg => ~map)
       /\ (told <=> map /\ h.temporal)
  BY <1>1
<1> HIDE DEF map, told, all
<1>12. f7 = When(map, e7) /\ e7 \in Headers /\ f7 \in Headers
  BY <1>5, <1>11, FlaggedAgree
<1>13. f3 = When(told, e3) /\ e3 \in Headers /\ f3 \in Headers
  BY <1>5, <1>11, FlaggedAgree
<1> HIDE DEF se, um, tu, ud, ab, e7, e3, f7, f3, ff, fe
<1>14. \A x \in Headers : x \o << >> = x
  BY Nothing
<1>15. CASE ~h.seg
  <2>1. /\ When(h.seg, um) = << >> /\ f7 = << >> /\ When(map, tu) = << >> /\ f3 = << >>
        /\ When(h.seg, ud) = << >> /\ When(h.seg /\ h.data, ab) = << >> /\ ff = << >>
    BY <1>6, <1>11, <1>12, <1>13, <1>15 DEF When
  <2>2. SegmentationRows(h) = se
    BY <1>2, <1>9, <1>14, <2>1
  <2>3. Segmentation(h) = se \o << >> \o << >>
    BY <1>10, <1>15 DEF When
  <2> QED
    BY <1>2, <1>14, <2>2, <2>3
<1>16. CASE h.seg
  <2> DEFINE t == When(map, tu)
             probs == f7 \o t \o f3
             mid == um \o f7 \o t \o f3 \o ud
             x == se \o um \o f7 \o t \o f3 \o ud
             a == When(h.seg /\ h.data, ab)
  <2>1. t \in Headers
    BY <1>3, <1>11, WhenTyped
  <2>2. When(h.map, MapProbs(h)) = probs
    <3>1. When(h.temporal, e3) = When(told, e3) \/ ~map
      BY <1>11 DEF When
    <3>2. CASE map
      <4>1. t = tu /\ f7 = e7 /\ When(h.temporal, e3) = f3
        BY <1>11, <1>12, <1>13, <3>1, <3>2 DEF When
      <4>2. When(h.map, MapProbs(h)) = MapProbs(h)
        BY <1>11, <1>16, <3>2 DEF When
      <4> HIDE DEF t
      <4> QED
        BY <1>8, <4>1, <4>2
    <3>3. CASE ~map
      <4>1. t = << >> /\ f7 = << >> /\ f3 = << >>
        BY <1>11, <1>12, <1>13, <3>3 DEF When
      <4>2. When(h.map, MapProbs(h)) = << >>
        BY <1>11, <1>16, <3>3 DEF When
      <4>3. << >> \o << >> = << >>
        BY Nothing
      <4> HIDE DEF t
      <4> QED
        BY <4>1, <4>2, <4>3
    <3> QED
      BY <3>2, <3>3
  <2>3. When(h.seg, um) = um /\ When(h.seg, ud) = ud
    BY <1>16 DEF When
  <2>4. When(h.seg, um \o probs \o ud) = um \o probs \o ud
    BY <1>16 DEF When
  <2>5. a \in Headers /\ When(h.seg /\ h.data, Features(h)) = a \o ff
    <3>1. CASE h.seg /\ h.data
      <4>1. a = ab /\ When(h.seg /\ h.data, Features(h)) = Features(h)
        BY <3>1 DEF When
      <4> QED
        BY <1>4, <1>6, <3>1, <4>1
    <3>2. CASE ~(h.seg /\ h.data)
      <4>1. a = << >> /\ When(h.seg /\ h.data, Features(h)) = << >>
        BY <3>2 DEF When
      <4>2. << >> \o << >> = << >> /\ << >> \in Headers
        BY Nothing
      <4> QED
        BY <1>6, <3>2, <4>1, <4>2
    <3> QED
      BY <3>1, <3>2
  <2> HIDE DEF t, a
  <2>12. um \in Headers /\ f7 \in Headers /\ t \in Headers /\ f3 \in Headers
    BY <1>2, <1>12, <1>13, <2>1
  <2>13. se \in Headers /\ ud \in Headers
    BY <1>2, <1>3
  <2>6. um \o probs = um \o f7 \o t \o f3
    <3>1. IsJoined3(um, f7, t, f3)
      BY <2>12, Join3
    <3> QED
      BY <3>1 DEF IsJoined3
  <2>7. se \o mid = x
    <3>1. IsJoined5(se, um, f7, t, f3, ud)
      BY <2>12, <2>13, Join5
    <3> QED
      BY <3>1 DEF IsJoined5
  <2>8. x \in Headers
    <3>1. se \o um \in Headers
      BY <1>2, HeadersJoined
    <3>2. se \o um \o f7 \in Headers
      BY <1>12, <3>1, HeadersJoined
    <3>3. se \o um \o f7 \o t \in Headers
      BY <2>1, <3>2, HeadersJoined
    <3>4. se \o um \o f7 \o t \o f3 \in Headers
      BY <1>13, <3>3, HeadersJoined
    <3> QED
      BY <1>3, <3>4, HeadersJoined
  <2>9. Segmentation(h) = se \o mid \o (a \o ff)
    <3>1. Segmentation(h) = se \o (um \o probs \o ud) \o (a \o ff)
      <4> HIDE DEF probs
      <4> QED
        BY <1>10, <2>2, <2>4, <2>5
    <3> QED
      BY <2>6, <3>1
  <2>10. SegmentationRows(h) = x \o a \o ff
    BY <1>9, <2>3 DEF t, a
  <2> HIDE DEF x, mid
  <2>11. x \o (a \o ff) = x \o a \o ff /\ x \o a \o ff \in Headers
    <3>1. x \o a \in Headers
      BY <2>5, <2>8, HeadersJoined
    <3> QED
      BY <1>7, <2>5, <2>8, <3>1, Join2, HeadersJoined, SMTT(40)
  <2> QED
    BY <2>7, <2>9, <2>10, <2>11
<1> QED
  BY <1>1, <1>15, <1>16

-----------------------------------------------------------------------------
(* Tiles.                                                                  *)

LEMMA WidePowers ==
  ASSUME NEW P, IsPower(P)
  PROVE  \A k \in 0 .. 12 : 2 ^ k = P[k]
<1>1. P[0] = 1 /\ \A k \in Nat : P[k+1] = 2 * P[k]
  BY DEF IsPower
<1>2. /\ P[0+1] = 2 * P[0] /\ P[1+1] = 2 * P[1] /\ P[2+1] = 2 * P[2] /\ P[3+1] = 2 * P[3]
      /\ P[4+1] = 2 * P[4] /\ P[5+1] = 2 * P[5] /\ P[6+1] = 2 * P[6] /\ P[7+1] = 2 * P[7]
      /\ P[8+1] = 2 * P[8] /\ P[9+1] = 2 * P[9] /\ P[10+1] = 2 * P[10] /\ P[11+1] = 2 * P[11]
  BY <1>1
<1>3. P[8] = 256 /\ P[9] = 512 /\ P[10] = 1024 /\ P[11] = 2048 /\ P[12] = 4096
  BY <1>1, <1>2
<1>4. 2 ^ 8 = 256 /\ 2 ^ 9 = 512 /\ 2 ^ 10 = 1024 /\ 2 ^ 11 = 2048 /\ 2 ^ 12 = 4096
  OBVIOUS
<1>5. ASSUME NEW k \in 0 .. 12 PROVE 2 ^ k = P[k]
  <2>1. k \in 0 .. 7 \/ k = 8 \/ k = 9 \/ k = 10 \/ k = 11 \/ k = 12
    OBVIOUS
  <2>2. CASE k \in 0 .. 7
    BY <2>2, SmallPowers
  <2>3. CASE k = 8
    BY <1>3, <1>4, <2>3
  <2>4. CASE k = 9
    BY <1>3, <1>4, <2>4
  <2>5. CASE k = 10
    BY <1>3, <1>4, <2>5
  <2>6. CASE k = 11
    BY <1>3, <1>4, <2>6
  <2>7. CASE k = 12
    BY <1>3, <1>4, <2>7
  <2> QED
    BY <2>1, <2>2, <2>3, <2>4, <2>5, <2>6, <2>7
<1> QED
  BY <1>5

LEMMA PowersTyped ==
  ASSUME NEW P, IsPower(P), NEW k \in 0 .. 12
  PROVE  2 ^ k = P[k] /\ P[k] \in Nat \ {0}
<1>1. 2 ^ k = P[k]
  BY WidePowers
<1>2. P \in [Nat -> Nat \ {0}] /\ k \in Nat
  BY DEF IsPower
<1>3. P[k] \in Nat \ {0}
  BY <1>2
<1> QED
  BY <1>1, <1>3

LEMMA PowersRise ==
  ASSUME NEW P, IsPower(P), NEW j \in Nat, NEW k \in Nat, j <= k
  PROVE  P[j] \in Nat \ {0} /\ P[j] <= P[k] /\ P[k] \in Nat \ {0}
<1>1. P[j] \in Nat \ {0} /\ P[k] \in Nat \ {0} /\ P[k-j] \in Nat \ {0} /\ k - j \in Nat
  BY DEF IsPower
<1>2. P[j+(k-j)] = P[j] * P[k-j]
  BY <1>1, PowersAdd, Zenon
<1>3. j + (k - j) = k
  OBVIOUS
<1> DEFINE a == P[j]  b == P[k-j]
<1>4. a * b >= a
  <2> HIDE DEF a, b
  <2>1. a \in Nat \ {0} /\ b \in Nat \ {0}
    BY <1>1 DEF a, b
  <2> QED
    BY <2>1
<1> QED
  BY <1>1, <1>2, <1>3, <1>4

\* A frame is up to 1024 superblocks across.
IsAcross(sbs) == sbs \in 1 .. 1024

LEMMA SuperblocksAcross ==
  ASSUME NEW width \in 1 .. MaxFrameWidth
  PROVE  IsAcross(SbCols(width))
<1> DEFINE a == (width + 7) \div 8
           b == (a + 7) \div 8
<1>1. a \in Int /\ 8 * a <= width + 7 /\ width + 7 < 8 * a + 8
  BY SMTT(40) DEF MaxFrameWidth
<1>2. width >= 1 /\ width <= 65536 /\ width \in Int
  BY SMTT(40) DEF MaxFrameWidth
<1> HIDE DEF a
<1>3. a >= 1 /\ a <= 8192
  BY <1>1, <1>2
<1>4. b \in Int /\ 8 * b <= a + 7 /\ a + 7 < 8 * b + 8
  BY <1>1
<1> HIDE DEF b
<1>5. b >= 1 /\ b <= 1024
  BY <1>1, <1>3, <1>4
<1> QED
  BY <1>4, <1>5, SMTT(40) DEF IsAcross, SbCols, a, b

\* The least number of tiles across.
LEMMA LeastTilesAgree ==
  ASSUME NEW width \in 1 .. MaxFrameWidth
  PROVE  MinTileLog2(width) = LeastTileLog2(width) /\ MinTileLog2(width) \in 0 .. 10
<1> SUFFICES ASSUME NEW sbs, IsAcross(sbs), SbCols(width) = sbs
             PROVE  MinTileLog2(width) = LeastTileLog2(width) /\ MinTileLog2(width) \in 0 .. 10
  BY SuperblocksAcross, Zenon
<1> SUFFICES ASSUME sbs \in Nat \ {0}
             PROVE  MinTileLog2(width) = LeastTileLog2(width) /\ MinTileLog2(width) \in 0 .. 10
  BY SMT DEF IsAcross
<1> DEFINE S == {k \in 0 .. 10 : 64 * 2 ^ k >= sbs}
           m == Min(S)
           IsLeast(k) == 64 * 2 ^ k >= sbs /\ \A j \in 0 .. k-1 : 64 * 2 ^ j < sbs
<1>1. PICK P : IsPower(P)
  BY PowerExists
<1>2. \A k \in 0 .. 12 : 2 ^ k = P[k] /\ P[k] \in Nat \ {0}
  BY <1>1, PowersTyped, Zenon
<1>3. 10 \in S
  <2>1. 2 ^ 10 = 1024
    OBVIOUS
  <2> QED
    BY <2>1 DEF IsAcross
<1>4. m \in S /\ \A n \in S : m <= n
  <2>1. S \subseteq Nat
    <3>1. \A k \in S : k \in 0 .. 12
      OBVIOUS
    <3> HIDE DEF S
    <3> QED
      BY <3>1
  <2>2. S # {}
    BY <1>3, Zenon
  <2> HIDE DEF S
  <2> QED
    BY <2>1, <2>2, LeastOf, ZenonT(60)
<1>5. MinTileLog2(width) = m
  BY DEF MinTileLog2
<1> HIDE DEF m
<1>6. m \in 0 .. 10 /\ IsLeast(m)
  <2>1. m \in 0 .. 10 /\ 64 * 2 ^ m >= sbs
    BY <1>4
  <2>2. ASSUME NEW j \in 0 .. m-1 PROVE 64 * 2 ^ j < sbs
    <3>1. j \in 0 .. 10 /\ j \notin S /\ ~(m <= j)
      BY <1>4, <2>1
    <3>2. 2 ^ j \in Nat
      <4>1. j \in 0 .. 12
        BY <3>1
      <4> QED
        BY <1>2, <4>1, ZenonT(60)
    <3> QED
      BY <3>1, <3>2
  <2> QED
    BY <2>1, <2>2
<1>7. ASSUME NEW k \in 0 .. 10, IsLeast(k) PROVE k = m
  <2>1. k \in S
    BY <1>7
  <2>2. m <= k
    BY <1>4, <2>1
  <2>3. ASSUME m < k PROVE FALSE
    <3>1. m \in 0 .. k-1
      BY <1>6, <2>3
    <3>2. 64 * 2 ^ m < sbs /\ 64 * 2 ^ m >= sbs /\ 2 ^ m \in Nat
      BY <1>2, <1>6, <1>7, <3>1
    <3> QED
      BY <3>2
  <2> QED
    BY <1>6, <2>2, <2>3
<1>8. LeastTileLog2(width) = m
  <2>1. LeastTileLog2(width) = CHOOSE k \in 0 .. 10 : IsLeast(k)
    BY DEF LeastTileLog2
  <2> HIDE DEF IsLeast
  <2> QED
    BY <1>6, <1>7, <2>1
<1> QED
  BY <1>5, <1>6, <1>8

\* And the most.
LEMMA MostTilesAgree ==
  ASSUME NEW width \in 1 .. MaxFrameWidth
  PROVE  MaxTileLog2(width) = MostTileLog2(width) /\ MaxTileLog2(width) \in Nat
<1> SUFFICES ASSUME NEW sbs, IsAcross(sbs), SbCols(width) = sbs
             PROVE  MaxTileLog2(width) = MostTileLog2(width) /\ MaxTileLog2(width) \in Nat
  BY SuperblocksAcross, Zenon
<1> SUFFICES ASSUME sbs \in Nat \ {0}
             PROVE  MaxTileLog2(width) = MostTileLog2(width) /\ MaxTileLog2(width) \in Nat
  BY SMT DEF IsAcross
<1> DEFINE T == {k \in 1 .. 12 : sbs \div 2 ^ k < 4}
           m == Min(T)
           least == MinTileLog2(width)
           U == {least} \cup {k \in 0 .. 10 : sbs >= 4 * 2 ^ k}
           mx == IF m - 1 >= least THEN m - 1 ELSE least
<1>1. PICK P : IsPower(P)
  BY PowerExists
<1>2. \A k \in 0 .. 12 : 2 ^ k = P[k] /\ P[k] \in Nat \ {0}
  BY <1>1, PowersTyped, ZenonT(60)
<1>3. least = LeastTileLog2(width) /\ least \in 0 .. 10
  BY LeastTilesAgree, Zenon
<1>4. 9 \in T
  <2>1. 2 ^ 9 = 512 /\ sbs \div 512 < 4
    BY DEF IsAcross
  <2> QED
    BY <2>1
<1>5. m \in T /\ \A n \in T : m <= n
  <2>1. T \subseteq Nat
    <3>1. \A k \in T : k \in 0 .. 12
      OBVIOUS
    <3> HIDE DEF T
    <3> QED
      BY <3>1
  <2>2. T # {}
    BY <1>4, Zenon
  <2> HIDE DEF T
  <2> QED
    BY <2>1, <2>2, LeastOf, ZenonT(60)
<1>6. MaxTileLog2(width) = Max({m - 1, least})
  BY DEF MaxTileLog2
<1>7. MostTileLog2(width) = Max(U)
  BY <1>3 DEF MostTileLog2
<1> HIDE DEF m, least
<1>8. m \in 1 .. 9
  <2>1. m \in 1 .. 12 /\ m <= 9
    BY <1>4, <1>5, Zenon
  <2> QED
    BY <2>1
<1>9. Max({m - 1, least}) = mx
  <2>1. mx \in {m - 1, least} /\ \A y \in {m - 1, least} : mx >= y
    BY <1>3, <1>8
  <2>2. \A x \in {m - 1, least} : (\A y \in {m - 1, least} : x >= y) => x = mx
    BY <1>3, <1>8
  <2> HIDE DEF mx
  <2> QED
    BY <2>1, <2>2 DEF Max
<1>10. ASSUME NEW k \in 0 .. 10, sbs >= 4 * 2 ^ k PROVE k <= m - 1
  <2> SUFFICES ASSUME m <= k PROVE FALSE
    BY <1>8
  <2>1. P[m] \in Nat \ {0} /\ P[m] <= P[k] /\ P[k] \in Nat
    <3>1. m \in Nat /\ k \in Nat
      BY <1>8
    <3> QED
      BY <1>1, <3>1, PowersRise
  <2>6. 2 ^ m = P[m] /\ 2 ^ k = P[k]
    <3>1. m \in 0 .. 12 /\ k \in 0 .. 12
      BY <1>8
    <3> QED
      BY <1>2, <3>1, ZenonT(60)
  <2>2. sbs \div 2 ^ m < 4
    BY <1>5
  <2> DEFINE p == P[m]  q == P[k]
  <2>3. sbs >= 4 * q /\ sbs \div p < 4 /\ p \in Nat \ {0} /\ q \in Nat /\ p <= q
    BY <1>10, <2>1, <2>2, <2>6
  <2> HIDE DEF p, q
  <2> DEFINE d == sbs \div p
  <2>4. d \in Int /\ sbs < p * d + p
    BY <2>3
  <2>5. d <= 3 /\ p * d <= p * 3
    <3>1. d <= 3
      BY <2>3, <2>4
    <3> HIDE DEF d
    <3> QED
      BY <2>3, <2>4, <3>1
  <2> HIDE DEF d
  <2> QED
    BY <2>3, <2>4, <2>5
<1>11. m - 1 > 0 => m - 1 \in U
  <2> SUFFICES ASSUME m - 1 > 0 PROVE sbs >= 4 * 2 ^ (m-1) /\ m - 1 \in 0 .. 10
    OBVIOUS
  <2>1. m - 1 \in 1 .. 12 /\ m - 1 \in 0 .. 10 /\ m - 1 \notin T
    BY <1>5, <1>8
  <2> DEFINE p == 2 ^ (m-1)
  <2>2. p \in Nat \ {0}
    <3>1. m - 1 \in 0 .. 12
      BY <2>1
    <3>2. 2 ^ (m-1) = P[m-1] /\ P[m-1] \in Nat \ {0}
      BY <1>2, <3>1, Zenon
    <3> QED
      BY <3>2
  <2>3. ~(sbs \div p < 4)
    BY <2>1
  <2> HIDE DEF p
  <2> DEFINE d == sbs \div p
  <2>4. d \in Int /\ p * d <= sbs /\ d >= 4
    BY <2>2, <2>3
  <2>5. p * 4 <= p * d
    <3> HIDE DEF d
    <3> QED
      BY <2>2, <2>4
  <2> HIDE DEF d
  <2>6. sbs >= 4 * p
    BY <2>2, <2>4, <2>5
  <2> QED
    BY <2>1, <2>6 DEF p
<1>12. Max(U) = mx
  <2>1. mx \in U
    BY <1>3, <1>8, <1>11
  <2>2. ASSUME NEW y \in U PROVE mx >= y
    <3>1. CASE y = least
      BY <1>3, <1>8, <3>1
    <3>2. CASE y # least
      <4>1. y \in 0 .. 10 /\ sbs >= 4 * 2 ^ y
        BY <3>2
      <4>2. y <= m - 1
        BY <1>10, <4>1, Zenon
      <4> QED
        BY <1>3, <1>8, <4>1, <4>2
    <3> QED
      BY <3>1, <3>2
  <2>3. U \subseteq Int /\ mx \in Int
    BY <1>3, <1>8
  <2>4. \A x \in U : (\A y \in U : x >= y) => x = mx
    <3> HIDE DEF U, mx
    <3> QED
      BY <2>1, <2>2, <2>3
  <2> HIDE DEF U, mx
  <2> QED
    BY <2>1, <2>2, <2>4 DEF Max
<1> QED
  BY <1>3, <1>6, <1>7, <1>8, <1>9, <1>12

\* Whether there may be more tiles is coded in one bit after another.
Increments(n) == FlattenSeq([k \in 1 .. n |-> Bit("increment_cols")])

LEMMA IncrementsLater ==
  ASSUME NEW n \in Nat
  PROVE  Increments(n) \in Headers /\ Increments(n+1) = Increments(n) \o Bit("increment_cols")
<1> DEFINE b == Bit("increment_cols")
           f == [k \in 1 .. n |-> b]
           g == [k \in 1 .. n+1 |-> b]
           S == FieldNames \X Nat
<1>1. b \in Headers
  BY PieceTyped DEF FieldNames
<1>2. Headers = Seq(S)
  BY DEF Headers
<1> HIDE DEF b, S
<1>3. f \in [1 .. n -> Headers] /\ g \in [1 .. n+1 -> Headers] /\ n + 1 \in Nat
  BY <1>1
<1>4. FlattenSeq(f) \in Headers
  <2> HIDE DEF f, g
  <2> QED
    BY <1>3, EachFew
<1>5. f \in Seq(Seq(S)) /\ Len(f) = n
  <2>1. f \in Seq(Headers) /\ DOMAIN f = 1 .. n
    BY <1>3, SeqDef
  <2> HIDE DEF f
  <2>2. Len(f) = n
    BY <2>1, LenProperties
  <2> QED
    BY <1>2, <2>1, <2>2
<1>6. g \in Seq(Seq(S)) /\ Len(g) = n + 1
  <2>1. g \in Seq(Headers) /\ DOMAIN g = 1 .. n+1
    BY <1>3, SeqDef
  <2> HIDE DEF g
  <2>2. Len(g) = n + 1
    BY <1>3, <2>1, LenProperties
  <2> QED
    BY <1>2, <2>1, <2>2
<1>7. (\A k \in 1 .. n : g[k] = f[k]) /\ g[n+1] = b
  BY <1>3
<1> HIDE DEF f, g
<1>8. FlattenSeq(g) = FlattenSeq(f) \o g[n+1]
  BY <1>5, <1>6, <1>7, FlattenLater
<1>9. Increments(n) = FlattenSeq(f) /\ Increments(n+1) = FlattenSeq(g)
  BY DEF Increments, f, g, b
<1> QED
  BY <1>4, <1>7, <1>8, <1>9 DEF b

LEMMA TileInfoAgrees ==
  ASSUME NEW h, IsHeader(h)
  PROVE  TileInfo(h) = TileRows(h) /\ TileRows(h) \in Headers
<1> DEFINE least == MinTileLog2(h.width)
           most == MaxTileLog2(h.width)
           n == h.cols - least
           inc == Bit("increment_cols")
           more == When(h.cols < most, inc)
           tr == Bit("tile_rows")
           ir == When(h.rows > 0, Bit("increment_rows"))
<1>1. h.width \in 1 .. MaxFrameWidth /\ h.rows \in 0 .. 2 /\ h.cols \in least .. most
  BY DEF IsHeader
<1>3. least = LeastTileLog2(h.width) /\ least \in 0 .. 10
  BY <1>1, LeastTilesAgree, Zenon
<1>4. most = MostTileLog2(h.width) /\ most \in Nat
  BY <1>1, MostTilesAgree, Zenon
<1>5. inc \in Headers /\ tr \in Headers /\ Bit("increment_rows") \in Headers
  <2>1. inc \in Headers /\ tr \in Headers
    BY PieceTyped DEF FieldNames
  <2>2. Bit("increment_rows") \in Headers
    BY PieceTyped DEF FieldNames
  <2> QED
    BY <2>1, <2>2
<1>6. more \in Headers /\ ir \in Headers
  BY <1>5, Nothing DEF When
<1>7. TileInfo(h) = Increments(n + (IF h.cols < most THEN 1 ELSE 0)) \o tr \o ir
  BY DEF TileInfo, Increments, Each
<1>8. TileRows(h) = Increments(n) \o more \o tr \o ir
  <2>1. FlattenSeq([k \in 1 .. h.cols - LeastTileLog2(h.width) |-> Row("increment_cols", 1, TRUE)])
          = Increments(n)
    <3>1. Row("increment_cols", 1, TRUE) = Bit("increment_cols")
      BY DEF Row, Bit
    <3> QED
      BY <1>3, <3>1 DEF Increments
  <2>2. Row("increment_cols", 1, h.cols < MostTileLog2(h.width)) = more
    BY <1>4 DEF Row, When, Bit
  <2>3. Row("tile_rows", 1, TRUE) = tr
    BY DEF Row, Bit
  <2>4. Row("increment_rows", 1, h.rows # 0) = ir
    <3>1. h.rows # 0 <=> h.rows > 0
      BY <1>1
    <3> QED
      BY <3>1 DEF Row, When, Bit
  <2> HIDE DEF n, more, tr, ir
  <2> QED
    BY <2>1, <2>2, <2>3, <2>4 DEF TileRows
<1>9. n \in Nat
  BY <1>1, <1>3, <1>4
<1> HIDE DEF least, most, n, inc, tr, ir
<1>10. Increments(n) \in Headers /\ Increments(n+1) = Increments(n) \o inc
  BY <1>9, IncrementsLater DEF inc
<1>11. Increments(n + (IF h.cols < most THEN 1 ELSE 0)) = Increments(n) \o more
  <2>1. CASE h.cols < most
    <3>1. more = inc /\ n + (IF h.cols < most THEN 1 ELSE 0) = n + 1
      BY <2>1 DEF When
    <3> HIDE DEF more
    <3> QED
      BY <1>10, <3>1
  <2>2. CASE ~(h.cols < most)
    <3>1. more = << >> /\ n + (IF h.cols < most THEN 1 ELSE 0) = n
      BY <1>9, <2>2 DEF When
    <3> HIDE DEF more
    <3> QED
      BY <1>10, <3>1, Nothing
  <2> QED
    BY <2>1, <2>2
<1> HIDE DEF more
<1>12. Increments(n) \o more \o tr \o ir \in Headers
  <2>1. Increments(n) \o more \in Headers
    BY <1>6, <1>10, HeadersJoined
  <2>2. Increments(n) \o more \o tr \in Headers
    BY <1>5, <2>1, HeadersJoined
  <2> QED
    BY <1>6, <2>2, HeadersJoined
<1> QED
  BY <1>7, <1>8, <1>11, <1>12

-----------------------------------------------------------------------------
(* The part of the header that depends on the type of the frame.           *)

FrameRead(h) ==
  CASE h.frame = "key" ->
         Bits("sync_code", 24) \o Bits("color_space", 3) \o Bit("color_range") \o FrameSize(h)
    [] h.frame # "key" ->
         When(~h.show, Bit("intra_only"))
           \o When(~h.er, Bits("reset_frame_context", 2))
           \o When(h.frame = "intra_only",
                   Bits("sync_code", 24) \o Bits("refresh_flags", 8) \o FrameSize(h))
           \o When(h.frame = "inter",
                   Bits("refresh_flags", 8)
                     \o Each(3, LAMBDA k : Bits("ref_idx", 3) \o Bit("sign_bias"))
                     \o FrameSizeWithRefs(h) \o Bit("high_precision_mv") \o Bit("switchable")
                     \o When(~h.switchable, Bits("filter", 2)))

RenderRows(h) ==
  Bit("render_differs") \o When(h.render, Bits("render_width", 16))
    \o When(h.render, Bits("render_height", 16))

LEMMA RenderAgrees ==
  ASSUME NEW h, IsHeader(h)
  PROVE  RenderSize(h) = RenderRows(h) /\ RenderRows(h) \in Headers
<1> DEFINE d == Bit("render_differs")
           w == Bits("render_width", 16)
           t == Bits("render_height", 16)
<1>1. h.render \in BOOLEAN
  BY DEF IsHeader
<1>2. d \in Headers /\ w \in Headers /\ t \in Headers
  <2>1. d \in Headers
    BY PieceTyped DEF FieldNames
  <2>2. w \in Headers
    BY PieceTyped DEF FieldNames
  <2>3. t \in Headers
    BY PieceTyped DEF FieldNames
  <2> QED
    BY <2>1, <2>2, <2>3
<1>3. RenderSize(h) = d \o When(h.render, w \o t)
  BY DEF RenderSize
<1>4. RenderRows(h) = d \o When(h.render, w) \o When(h.render, t)
  BY DEF RenderRows
<1> HIDE DEF d, w, t
<1> DEFINE rw == When(h.render, w)
           rh == When(h.render, t)
<1>5. rw \in Headers /\ rh \in Headers
  BY <1>1, <1>2, WhenTyped
<1>6. When(h.render, w \o t) = rw \o rh
  BY <1>1, <1>2, WhenJoined
<1> HIDE DEF rw, rh
<1>7. d \o (rw \o rh) = d \o rw \o rh
  BY <1>2, <1>5, Join2, SMTT(40)
<1>8. d \o rw \o rh \in Headers
  <2>1. d \o rw \in Headers
    BY <1>2, <1>5, HeadersJoined
  <2> QED
    BY <1>5, <2>1, HeadersJoined
<1> QED
  BY <1>3, <1>4, <1>6, <1>7, <1>8 DEF rw, rh

\* A size and what follows it.
LEMMA SizesAgree ==
  ASSUME NEW h, IsHeader(h), NEW y \in Headers
  PROVE  /\ y \o FrameSize(h) = y \o Bits("width", 16) \o Bits("height", 16) \o RenderRows(h)
         /\ y \o FrameSize(h) \in Headers
<1> DEFINE w == Bits("width", 16)
           t == Bits("height", 16)
           r == RenderRows(h)
<1>1. RenderSize(h) = r /\ r \in Headers
  BY RenderAgrees
<1>2. w \in Headers /\ t \in Headers
  BY PieceTyped DEF FieldNames
<1>3. FrameSize(h) = w \o t \o r
  BY <1>1 DEF FrameSize
<1> HIDE DEF w, t, r
<1>4. IsJoined3(y, w, t, r)
  BY <1>1, <1>2, Join3
<1>5. y \o w \o t \o r \in Headers
  <2>1. y \o w \in Headers
    BY <1>2, HeadersJoined
  <2>2. y \o w \o t \in Headers
    BY <1>2, <2>1, HeadersJoined
  <2> QED
    BY <1>1, <2>2, HeadersJoined
<1>6. y \o FrameSize(h) = y \o w \o t \o r
  BY <1>3, <1>4 DEF IsJoined3
<1> QED
  BY <1>5, <1>6 DEF w, t, r

\* And with what its render size is made of.
LEMMA RenderFollows ==
  ASSUME NEW h, IsHeader(h), NEW y \in Headers
  PROVE  y \o RenderRows(h)
           = y \o Bit("render_differs") \o When(h.render, Bits("render_width", 16))
               \o When(h.render, Bits("render_height", 16))
<1> DEFINE d == Bit("render_differs")
           w == When(h.render, Bits("render_width", 16))
           t == When(h.render, Bits("render_height", 16))
<1>1. h.render \in BOOLEAN
  BY DEF IsHeader
<1>2. d \in Headers
  BY PieceTyped DEF FieldNames
<1>3. w \in Headers
  <2>1. Bits("render_width", 16) \in Headers
    BY PieceTyped DEF FieldNames
  <2> QED
    BY <1>1, <2>1, WhenTyped
<1>4. t \in Headers
  <2>1. Bits("render_height", 16) \in Headers
    BY PieceTyped DEF FieldNames
  <2> QED
    BY <1>1, <2>1, WhenTyped
<1>5. RenderRows(h) = d \o w \o t
  BY DEF RenderRows
<1> HIDE DEF d, w, t
<1>6. IsJoined3(y, d, w, t)
  BY <1>2, <1>3, <1>4, Join3
<1>7. y \o RenderRows(h) = y \o d \o w \o t
  BY <1>5, <1>6 DEF IsJoined3
<1> QED
  BY <1>7 DEF d, w, t

LEMMA KeyFrameAgrees ==
  ASSUME NEW h, IsHeader(h), h.frame = "key"
  PROVE  FrameRead(h) = FrameRows(h) /\ FrameRows(h) \in Headers
<1> DEFINE none == << >>
           sy == Bits("sync_code", 24)
           cs == Bits("color_space", 3)
           cr == Bit("color_range")
           wd == Bits("width", 16)
           ht == Bits("height", 16)
           rd == Bit("render_differs")
           rw == When(h.render, Bits("render_width", 16))
           rh == When(h.render, Bits("render_height", 16))
           y == sy \o cs \o cr
<1>1. /\ "key" # "inter" /\ "key" # "intra_only"
      /\ h.frame = "key"
  OBVIOUS
<1>2. FrameRows(h) = none \o none \o sy \o cs \o cr \o none \o (none \o none) \o (none \o none)
                       \o (none \o none) \o none \o none \o none \o wd \o ht \o rd \o rw \o rh
                       \o none \o none \o none
  BY <1>1 DEF FrameRows, Row, Bits, Bit, When
<1>3. FrameRead(h) = sy \o cs \o cr \o FrameSize(h)
  BY <1>1, Zenon DEF FrameRead
<1>4. sy \in Headers
  BY PieceTyped DEF FieldNames
<1>5. cs \in Headers
  BY PieceTyped DEF FieldNames
<1>6. cr \in Headers
  BY PieceTyped DEF FieldNames
<1> HIDE DEF sy, cs, cr
<1>7. y \in Headers
  <2>1. sy \o cs \in Headers
    BY <1>4, <1>5, HeadersJoined
  <2> QED
    BY <1>6, <2>1, HeadersJoined
<1>8. y \o FrameSize(h) = y \o wd \o ht \o RenderRows(h) /\ y \o FrameSize(h) \in Headers
  <2> HIDE DEF y
  <2> QED
    BY <1>7, SizesAgree
<1>9. y \o wd \o ht \in Headers
  <2>1. wd \in Headers /\ ht \in Headers
    BY PieceTyped DEF FieldNames
  <2> HIDE DEF y, wd, ht
  <2>2. y \o wd \in Headers
    BY <1>7, <2>1, HeadersJoined
  <2> QED
    BY <2>1, <2>2, HeadersJoined
<1>10. y \o wd \o ht \o RenderRows(h) = y \o wd \o ht \o rd \o rw \o rh
  <2> DEFINE z == y \o wd \o ht
  <2>1. z \in Headers
    BY <1>9
  <2> HIDE DEF z
  <2>2. z \o RenderRows(h) = z \o rd \o rw \o rh
    BY <2>1, RenderFollows
  <2> QED
    BY <2>2 DEF z
<1> HIDE DEF wd, ht, rd, rw, rh
<1>11. /\ none \o none = none /\ none \o sy = sy
       /\ y \o none = y
       /\ \A x \in Headers : x \o none = x
  BY <1>4, <1>7, Nothing
<1> HIDE DEF none
<1>16. none \o none = none /\ none \o sy = sy /\ y \o none = y
  BY <1>11
<1>12. FrameRows(h) = y \o wd \o ht \o rd \o rw \o rh \o none \o none \o none
  <2>1. none \o none \o sy \o cs \o cr = y
    BY <1>16
  <2> HIDE DEF y
  <2>2. y \o none \o (none \o none) \o (none \o none) \o (none \o none) \o none \o none \o none
          = y
    BY <1>16
  <2> QED
    BY <1>2, <2>1, <2>2
<1> DEFINE all == y \o wd \o ht \o rd \o rw \o rh
<1>13. all \in Headers /\ FrameRead(h) = all
  BY <1>3, <1>8, <1>10
<1> HIDE DEF all
<1>14. FrameRows(h) = all \o none \o none \o none
  BY <1>12 DEF all
<1>15. all \o none = all
  BY <1>11, <1>13
<1> QED
  BY <1>13, <1>14, <1>15

\* What an intra frame and an inter frame start with.
LEMMA LeadTyped ==
  ASSUME NEW h, IsHeader(h)
  PROVE  When(~h.show, Bit("intra_only")) \o When(~h.er, Bits("reset_frame_context", 2)) \in Headers
<1> DEFINE io == When(~h.show, Bit("intra_only"))
           rc == When(~h.er, Bits("reset_frame_context", 2))
<1>1. Bit("intra_only") \in Headers
  BY PieceTyped DEF FieldNames
<1>2. Bits("reset_frame_context", 2) \in Headers
  BY PieceTyped DEF FieldNames
<1>3. io \in Headers /\ rc \in Headers
  BY <1>1, <1>2, Nothing DEF When
<1> HIDE DEF io, rc
<1>4. io \o rc \in Headers
  BY <1>3, HeadersJoined
<1> QED
  BY <1>4 DEF io, rc

LEMMA IntraOnlyAgrees ==
  ASSUME NEW h, IsHeader(h), h.frame = "intra_only"
  PROVE  FrameRead(h) = FrameRows(h) /\ FrameRows(h) \in Headers
<1> DEFINE none == << >>
           io == When(~h.show, Bit("intra_only"))
           rc == When(~h.er, Bits("reset_frame_context", 2))
           lead == io \o rc
           sy == Bits("sync_code", 24)
           rf == Bits("refresh_flags", 8)
           wd == Bits("width", 16)
           ht == Bits("height", 16)
           rd == Bit("render_differs")
           rw == When(h.render, Bits("render_width", 16))
           rh == When(h.render, Bits("render_height", 16))
           y == lead \o sy \o rf
<1>1. /\ "intra_only" # "inter" /\ "intra_only" # "key"
      /\ h.frame = "intra_only"
  OBVIOUS
<1>2. FrameRows(h) = io \o rc \o sy \o none \o none \o rf \o (none \o none) \o (none \o none)
                       \o (none \o none) \o none \o none \o none \o wd \o ht \o rd \o rw \o rh
                       \o none \o none \o none
  BY <1>1 DEF FrameRows, Row, Bits, Bit, When
<1>3. FrameRead(h) = lead \o (sy \o rf \o FrameSize(h)) \o none
  BY <1>1, Zenon DEF FrameRead, When
<1>4. sy \in Headers
  BY PieceTyped DEF FieldNames
<1>5. rf \in Headers
  BY PieceTyped DEF FieldNames
<1>6. lead \in Headers
  BY LeadTyped
<1>20. FrameSize(h) \in Headers
  <2>2. wd \in Headers /\ ht \in Headers /\ RenderSize(h) \in Headers
    BY PieceTyped, RenderAgrees DEF FieldNames
  <2>3. wd \o ht \in Headers
    BY <2>2, HeadersJoined
  <2> HIDE DEF wd, ht
  <2>4. wd \o ht \o RenderSize(h) \in Headers
    BY <2>2, <2>3, HeadersJoined
  <2> QED
    BY <2>4 DEF FrameSize, wd, ht
<1> HIDE DEF sy, rf, lead
<1>21. lead \o (sy \o rf \o FrameSize(h)) = y \o FrameSize(h)
  <2>1. IsJoined3(lead, sy, rf, FrameSize(h))
    BY <1>4, <1>5, <1>6, <1>20, Join3
  <2> QED
    BY <2>1 DEF IsJoined3
<1>7. y \in Headers /\ lead \o sy \in Headers
  <2>1. lead \o sy \in Headers
    BY <1>4, <1>6, HeadersJoined
  <2> QED
    BY <1>5, <2>1, HeadersJoined
<1>8. y \o FrameSize(h) = y \o wd \o ht \o RenderRows(h) /\ y \o FrameSize(h) \in Headers
  <2> HIDE DEF y
  <2> QED
    BY <1>7, SizesAgree
<1>9. y \o wd \o ht \in Headers
  <2>1. wd \in Headers /\ ht \in Headers
    BY PieceTyped DEF FieldNames
  <2> HIDE DEF y, wd, ht
  <2>2. y \o wd \in Headers
    BY <1>7, <2>1, HeadersJoined
  <2> QED
    BY <2>1, <2>2, HeadersJoined
<1>10. y \o wd \o ht \o RenderRows(h) = y \o wd \o ht \o rd \o rw \o rh
  <2> DEFINE z == y \o wd \o ht
  <2>1. z \in Headers
    BY <1>9
  <2> HIDE DEF z
  <2>2. z \o RenderRows(h) = z \o rd \o rw \o rh
    BY <2>1, RenderFollows
  <2> QED
    BY <2>2 DEF z
<1> HIDE DEF wd, ht, rd, rw, rh, io, rc
<1> DEFINE s == lead \o sy
<1>11. /\ none \o none = none /\ s \o none = s /\ y \o none = y
       /\ \A x \in Headers : x \o none = x
  BY <1>7, Nothing
<1> HIDE DEF none
<1>16. none \o none = none /\ s \o none = s /\ y \o none = y
  BY <1>11
<1>17. y = s \o rf /\ io \o rc \o sy = s
  BY DEF lead
<1>12. FrameRows(h) = y \o wd \o ht \o rd \o rw \o rh \o none \o none \o none
  <2> HIDE DEF y, s
  <2>1. io \o rc \o sy \o none \o none \o rf = y
    BY <1>16, <1>17
  <2>2. y \o (none \o none) \o (none \o none) \o (none \o none) \o none \o none \o none = y
    BY <1>16
  <2> QED
    BY <1>2, <2>1, <2>2
<1> DEFINE all == y \o wd \o ht \o rd \o rw \o rh
<1>13. all \in Headers /\ y \o FrameSize(h) = all
  BY <1>8, <1>10
<1> HIDE DEF all
<1>14. FrameRows(h) = all \o none \o none \o none
  BY <1>12 DEF all
<1>15. all \o none = all
  BY <1>11, <1>13
<1>18. FrameRead(h) = all \o none
  BY <1>3, <1>13, <1>21
<1> QED
  BY <1>13, <1>14, <1>15, <1>18

\* The references of an inter frame.
LEMMA ReferencesAgree ==
  LET ref == Bits("ref_idx", 3) \o Bit("sign_bias")
  IN /\ Each(3, LAMBDA k : Bits("ref_idx", 3) \o Bit("sign_bias")) = ref \o ref \o ref
     /\ ref \in Headers
<1> DEFINE ref == Bits("ref_idx", 3) \o Bit("sign_bias")
           f == [k \in 1 .. 3 |-> ref]
<1>1. ref \in Headers
  <2>1. Bits("ref_idx", 3) \in Headers
    BY PieceTyped DEF FieldNames
  <2>2. Bit("sign_bias") \in Headers
    BY PieceTyped DEF FieldNames
  <2> QED
    BY <2>1, <2>2, HeadersJoined
<1>2. Each(3, LAMBDA k : Bits("ref_idx", 3) \o Bit("sign_bias")) = FlattenSeq(f)
  BY DEF Each
<1> HIDE DEF ref
<1>3. f \in [1 .. 3 -> Headers] /\ f[1] = ref /\ f[2] = ref /\ f[3] = ref /\ 3 \in Nat
  BY <1>1
<1>4. FlattenSeq(f) = f[1] \o f[2] \o f[3]
  <2> HIDE DEF f
  <2> QED
    BY <1>3, EachFew
<1> QED
  BY <1>1, <1>2, <1>3, <1>4, Zenon DEF ref

\* One flag for each reference that the size may be taken from.
FoundRows(h) ==
  Bit("found_ref") \o When(h.found # 1, Bit("found_ref"))
    \o When(h.found \notin {1, 2}, Bit("found_ref"))

LEMMA FoundAgrees ==
  ASSUME NEW h, IsHeader(h)
  PROVE  /\ Each(IF h.found = 0 THEN 3 ELSE h.found, LAMBDA k : Bit("found_ref")) = FoundRows(h)
         /\ FoundRows(h) \in Headers
<1> DEFINE b == Bit("found_ref")
           n == IF h.found = 0 THEN 3 ELSE h.found
           f == [k \in 1 .. n |-> b]
<1>1. b \in Headers
  BY PieceTyped DEF FieldNames
<1>2. n \in 1 .. 3 /\ h.found \in 0 .. 3
  BY DEF IsHeader
<1>3. Each(IF h.found = 0 THEN 3 ELSE h.found, LAMBDA k : Bit("found_ref")) = FlattenSeq(f)
  BY DEF Each
<1>4. FoundRows(h) = b \o When(h.found # 1, b) \o When(h.found \notin {1, 2}, b)
  BY DEF FoundRows
<1> HIDE DEF b
<1>5. \A x \in Headers : x \o << >> = x
  BY Nothing
<1>6. b \o b \in Headers /\ b \o b \o b \in Headers
  BY <1>1, HeadersJoined
<1>7. (n = 1 <=> h.found = 1) /\ (n = 2 <=> h.found = 2)
  BY <1>2
<1> HIDE DEF n
<1>8. f \in [1 .. n -> Headers] /\ (\A k \in 1 .. n : f[k] = b) /\ n \in Nat
  BY <1>1, <1>2
<1> HIDE DEF f
<1>9. /\ FlattenSeq(f) \in Headers
      /\ n = 1 => FlattenSeq(f) = f[1]
      /\ n = 2 => FlattenSeq(f) = f[1] \o f[2]
      /\ n = 3 => FlattenSeq(f) = f[1] \o f[2] \o f[3]
  BY <1>8, EachFew
<1>10. CASE n = 1
  <2>1. FlattenSeq(f) = b
    BY <1>8, <1>9, <1>10
  <2>2. FoundRows(h) = b \o << >> \o << >>
    BY <1>4, <1>7, <1>10 DEF When
  <2> QED
    BY <1>1, <1>3, <1>5, <2>1, <2>2
<1>11. CASE n = 2
  <2>1. f[1] = b /\ f[2] = b
    BY <1>8, <1>11
  <2>3. When(h.found # 1, b) = b /\ When(h.found \notin {1, 2}, b) = << >>
    BY <1>7, <1>11 DEF When
  <2>2. FoundRows(h) = b \o b \o << >>
    BY <1>4, <2>3
  <2> QED
    BY <1>3, <1>5, <1>6, <1>9, <1>11, <2>1, <2>2
<1>12. CASE n = 3
  <2>1. f[1] = b /\ f[2] = b /\ f[3] = b
    BY <1>8, <1>12
  <2>3. When(h.found # 1, b) = b /\ When(h.found \notin {1, 2}, b) = b
    BY <1>7, <1>12 DEF When
  <2>2. FoundRows(h) = b \o b \o b
    BY <1>4, <2>3
  <2> QED
    BY <1>3, <1>6, <1>9, <1>12, <2>1, <2>2
<1> QED
  BY <1>2, <1>10, <1>11, <1>12

LEMMA InterAgrees ==
  ASSUME NEW h, IsHeader(h), h.frame = "inter"
  PROVE  FrameRead(h) = FrameRows(h) /\ FrameRows(h) \in Headers
<1> DEFINE none == << >>
           io == When(~h.show, Bit("intra_only"))
           rc == When(~h.er, Bits("reset_frame_context", 2))
           lead == io \o rc
           rf == Bits("refresh_flags", 8)
           ref == Bits("ref_idx", 3) \o Bit("sign_bias")
           f1 == Bit("found_ref")
           f2 == When(h.found # 1, Bit("found_ref"))
           f3 == When(h.found \notin {1, 2}, Bit("found_ref"))
           found == FoundRows(h)
           wd == When(h.found = 0, Bits("width", 16))
           ht == When(h.found = 0, Bits("height", 16))
           rd == Bit("render_differs")
           rw == When(h.render, Bits("render_width", 16))
           rh == When(h.render, Bits("render_height", 16))
           r == RenderRows(h)
           hp == Bit("high_precision_mv")
           sw == Bit("switchable")
           fi == When(~h.switchable, Bits("filter", 2))
           q == rf \o (ref \o ref \o ref)
           size == found \o (wd \o ht) \o r
<1>1. /\ "inter" # "intra_only" /\ "inter" # "key"
      /\ h.frame = "inter"
  OBVIOUS
<1>2. FrameRows(h) = io \o rc \o none \o none \o none \o rf \o ref \o ref \o ref \o f1 \o f2 \o f3
                       \o wd \o ht \o rd \o rw \o rh \o hp \o sw \o fi
  BY <1>1 DEF FrameRows, Row, Bits, Bit, When
<1>3. FrameSizeWithRefs(h) = size
  <2>1. Each(IF h.found = 0 THEN 3 ELSE h.found, LAMBDA k : Bit("found_ref")) = found
    BY FoundAgrees
  <2>2. RenderSize(h) = r
    BY RenderAgrees
  <2>3. When(h.found = 0, Bits("width", 16) \o Bits("height", 16)) = wd \o ht
    <3> DEFINE c == h.found = 0
               v == Bits("width", 16)
               u == Bits("height", 16)
    <3>1. c \in BOOLEAN
      OBVIOUS
    <3>2. v \in Headers /\ u \in Headers
      BY PieceTyped DEF FieldNames
    <3> HIDE DEF c, v, u
    <3>3. When(c, v \o u) = When(c, v) \o When(c, u)
      BY <3>1, <3>2, WhenJoined
    <3> QED
      BY <3>3 DEF c, v, u
  <2> HIDE DEF found, wd, ht, r
  <2> QED
    BY <2>1, <2>2, <2>3 DEF FrameSizeWithRefs
<1>4. FrameRead(h) = lead \o none \o (q \o size \o hp \o sw \o fi)
  <2>1. Each(3, LAMBDA k : Bits("ref_idx", 3) \o Bit("sign_bias")) = ref \o ref \o ref
    BY ReferencesAgree, Zenon
  <2> HIDE DEF size, ref, fi, hp, sw, rf, lead
  <2>2. FrameRead(h) = lead \o When(h.frame = "intra_only",
                                    Bits("sync_code", 24) \o Bits("refresh_flags", 8) \o FrameSize(h))
                         \o When(h.frame = "inter", q \o size \o hp \o sw \o fi)
    BY <1>1, <1>3, <2>1, Zenon DEF FrameRead, lead, hp, sw, fi, rf
  <2> HIDE DEF q
  <2> QED
    BY <1>1, <2>2 DEF When
<1>5. lead \in Headers
  BY LeadTyped
<1>6. rf \in Headers
  BY PieceTyped DEF FieldNames
<1>7. ref \in Headers
  BY ReferencesAgree, Zenon
<1>8. f1 \in Headers /\ f2 \in Headers /\ f3 \in Headers
  <2>1. f1 \in Headers
    BY PieceTyped DEF FieldNames
  <2> QED
    BY <2>1, Nothing DEF When
<1>9. wd \in Headers /\ ht \in Headers
  <2>1. Bits("width", 16) \in Headers
    BY PieceTyped DEF FieldNames
  <2>2. Bits("height", 16) \in Headers
    BY PieceTyped DEF FieldNames
  <2> QED
    BY <2>1, <2>2, Nothing DEF When
<1>10. hp \in Headers /\ sw \in Headers
  <2>1. hp \in Headers
    BY PieceTyped DEF FieldNames
  <2>2. sw \in Headers
    BY PieceTyped DEF FieldNames
  <2> QED
    BY <2>1, <2>2
<1>11. fi \in Headers
  <2>1. Bits("filter", 2) \in Headers
    BY PieceTyped DEF FieldNames
  <2> QED
    BY <2>1, Nothing DEF When
<1>12. r \in Headers /\ found \in Headers
  BY RenderAgrees, FoundAgrees
<1>13. found = f1 \o f2 \o f3
  BY DEF FoundRows
<1>14. \A x \in Headers : x \o r = x \o rd \o rw \o rh
  <2> HIDE DEF r, rd, rw, rh
  <2> QED
    BY RenderFollows, Zenon DEF r, rd, rw, rh
<1>15. lead \o none = lead
  BY <1>5, Nothing, SMTT(40)
<1> HIDE DEF lead, rf, ref, f1, f2, f3, found, wd, ht, rd, rw, rh, r, hp, sw, fi
<1>16. FrameRows(h) = lead \o rf \o ref \o ref \o ref \o f1 \o f2 \o f3
                        \o wd \o ht \o rd \o rw \o rh \o hp \o sw \o fi
  <2>1. lead \o none \o none \o none = lead
    BY <1>15
  <2> HIDE DEF none
  <2> QED
    BY <1>2, <2>1 DEF lead
<1> HIDE DEF none
<1> DEFINE x1 == lead \o rf
           x2 == x1 \o ref \o ref \o ref
           x3 == x2 \o f1 \o f2 \o f3
           x4 == x3 \o wd \o ht
           x5 == x4 \o rd \o rw \o rh
           x6 == x5 \o hp \o sw \o fi
           refs == ref \o ref \o ref
<1>17. refs \in Headers /\ x1 \in Headers /\ x1 \o refs = x2 /\ x2 \in Headers
  <2>1. IsJoined3(x1, ref, ref, ref) /\ x1 \in Headers
    <3>1. x1 \in Headers
      BY <1>5, <1>6, HeadersJoined
    <3> HIDE DEF x1
    <3> QED
      BY <1>7, <3>1, Join3
  <2>2. refs \in Headers
    <3>1. ref \o ref \in Headers
      BY <1>7, HeadersJoined
    <3> QED
      BY <1>7, <3>1, HeadersJoined
  <2> HIDE DEF x1
  <2>3. x1 \o refs = x2
    BY <2>1 DEF IsJoined3
  <2> HIDE DEF refs, x2
  <2>4. x2 \in Headers
    BY <2>1, <2>2, <2>3, HeadersJoined
  <2> QED
    BY <2>1, <2>2, <2>3, <2>4
<1> HIDE DEF x2
<1>18. x2 \o found = x3 /\ x3 \in Headers
  <2>1. IsJoined3(x2, f1, f2, f3)
    BY <1>8, <1>17, Join3
  <2>2. x2 \o found = x3
    BY <1>13, <2>1 DEF IsJoined3
  <2> HIDE DEF x3
  <2>3. x3 \in Headers
    BY <1>12, <1>17, <2>2, HeadersJoined
  <2> QED
    BY <2>2, <2>3
<1> HIDE DEF x3
<1>19. x3 \o (wd \o ht) = x4 /\ x4 \in Headers /\ wd \o ht \in Headers
  <2>1. x3 \o (wd \o ht) = x4 /\ wd \o ht \in Headers
    BY <1>9, <1>18, Join2, HeadersJoined
  <2> HIDE DEF x4
  <2>2. x4 \in Headers
    BY <1>18, <2>1, HeadersJoined
  <2> QED
    BY <2>1, <2>2
<1> HIDE DEF x4
<1>20. x4 \o r = x5 /\ x5 \in Headers
  <2>1. x4 \o r = x5
    BY <1>14, <1>19
  <2> HIDE DEF x5
  <2>2. x5 \in Headers
    BY <1>12, <1>19, <2>1, HeadersJoined
  <2> QED
    BY <2>1, <2>2
<1> HIDE DEF x5
<1>21. x6 \in Headers
  <2>1. x5 \o hp \in Headers
    BY <1>10, <1>20, HeadersJoined
  <2>2. x5 \o hp \o sw \in Headers
    BY <1>10, <2>1, HeadersJoined
  <2> QED
    BY <1>11, <2>2, HeadersJoined
<1>22. FrameRows(h) = x6
  BY <1>16 DEF x2, x3, x4, x5
<1> HIDE DEF x6, refs
<1>23. q \in Headers /\ lead \o q = x2
  <2>1. q = rf \o refs
    BY DEF refs
  <2>3. refs \in Headers
    BY <1>17
  <2>2. lead \o (rf \o refs) = x1 \o refs /\ rf \o refs \in Headers
    BY <1>5, <1>6, <2>3, Join2, HeadersJoined
  <2> HIDE DEF q, x1
  <2> QED
    BY <1>17, <2>1, <2>2
<1> HIDE DEF q, x1
<1> DEFINE s == wd \o ht
<1> HIDE DEF s
<1>24. s \in Headers /\ size = found \o s \o r
  BY <1>19 DEF s
<1> HIDE DEF size
<1>25. lead \o (q \o size) = x5 /\ q \o size \in Headers
  <2>1. IsJoined3(q, found, s, r)
    BY <1>12, <1>23, <1>24, Join3
  <2>2. q \o size = q \o found \o s \o r
    BY <1>24, <2>1 DEF IsJoined3
  <2>3. IsJoined4(lead, q, found, s, r)
    BY <1>5, <1>12, <1>23, <1>24, Join4
  <2>4. lead \o (q \o size) = lead \o q \o found \o s \o r
    BY <2>2, <2>3 DEF IsJoined4
  <2>5. x2 \o found \o s \o r = x5
    BY <1>18, <1>19, <1>20 DEF s
  <2>6. q \o found \in Headers
    BY <1>12, <1>23, HeadersJoined
  <2>7. q \o found \o s \in Headers
    BY <1>24, <2>6, HeadersJoined
  <2>8. q \o found \o s \o r \in Headers
    BY <1>12, <2>7, HeadersJoined
  <2> QED
    BY <1>23, <2>2, <2>4, <2>5, <2>8
<1> DEFINE qs == q \o size
<1> HIDE DEF qs
<1>26. lead \o (qs \o hp \o sw \o fi) = x6
  <2>1. qs \in Headers /\ lead \o qs = x5
    BY <1>25 DEF qs
  <2>2. IsJoined4(lead, qs, hp, sw, fi)
    BY <1>5, <1>10, <1>11, <2>1, Join4
  <2> QED
    BY <2>1, <2>2 DEF IsJoined4, x6
<1>27. FrameRead(h) = lead \o (qs \o hp \o sw \o fi)
  BY <1>4, <1>15 DEF qs
<1> QED
  BY <1>21, <1>22, <1>26, <1>27

LEMMA FrameAgrees ==
  ASSUME NEW h, IsHeader(h)
  PROVE  FrameRead(h) = FrameRows(h) /\ FrameRows(h) \in Headers
<1>1. h.frame \in FrameKinds
  BY DEF IsHeader
<1>2. h.frame = "key" \/ h.frame = "intra_only" \/ h.frame = "inter"
  BY <1>1 DEF FrameKinds
<1> QED
  BY <1>2, KeyFrameAgrees, IntraOnlyAgrees, InterAgrees

-----------------------------------------------------------------------------
(* The uncompressed header.                                                *)

Leading ==
  Bits("frame_marker", 2) \o Bits("profile", 2) \o Bit("show_existing_frame")
    \o Bit("frame_type") \o Bit("show_frame") \o Bit("error_resilient")

LEMMA LeadingTyped == Leading \in Headers
<1> DEFINE a == Bits("frame_marker", 2)
           b == Bits("profile", 2)
           c == Bit("show_existing_frame")
           d == Bit("frame_type")
           e == Bit("show_frame")
           f == Bit("error_resilient")
<1>1. a \in Headers
  BY PieceTyped DEF FieldNames
<1>2. b \in Headers
  BY PieceTyped DEF FieldNames
<1>3. c \in Headers
  BY PieceTyped DEF FieldNames
<1>4. d \in Headers
  BY PieceTyped DEF FieldNames
<1>5. e \in Headers
  BY PieceTyped DEF FieldNames
<1>6. f \in Headers
  BY PieceTyped DEF FieldNames
<1>7. Leading = a \o b \o c \o d \o e \o f
  BY DEF Leading
<1> HIDE DEF a, b, c, d, e, f
<1>8. a \o b \in Headers
  BY <1>1, <1>2, HeadersJoined
<1>9. a \o b \o c \in Headers
  BY <1>3, <1>8, HeadersJoined
<1>10. a \o b \o c \o d \in Headers
  BY <1>4, <1>9, HeadersJoined
<1>11. a \o b \o c \o d \o e \in Headers
  BY <1>5, <1>10, HeadersJoined
<1> QED
  BY <1>6, <1>7, <1>11, HeadersJoined

LEMMA UncompressedAgrees ==
  ASSUME NEW h, IsHeader(h), ~SegmentationImplied(h)
  PROVE  UncompressedRead(h) = UncompressedWritten(h)
<1> DEFINE fr == FrameRows(h)
           rc == When(~h.er, Bit("refresh_context"))
           pm == When(~h.er, Bit("parallel_mode"))
           ci == Bits("context_idx", 2)
           lf == LoopFilterRows(h)
           bq == Bits("base_q_idx", 8)
           fl == Flagged(3, "delta_coded", "delta_q", 5, TRUE, h.quant)
           sr == SegmentationRows(h)
           tr == TileRows(h)
           fp == Bits("first_partition_size", 16)
<1>1. fr \in Headers /\ FrameRead(h) = fr
  BY FrameAgrees
<1>2. lf \in Headers /\ LoopFilter(h) = lf
  BY LoopFilterAgrees
<1>3. fl \in Headers /\ Quantization(h) = bq \o fl
  BY QuantizationAgrees
<1>4. Segmentation(h) = sr /\ TileInfo(h) = tr
  BY SegmentationAgrees, TileInfoAgrees
<1>5. rc \in Headers
  <2>1. Bit("refresh_context") \in Headers
    BY PieceTyped DEF FieldNames
  <2> QED
    BY <2>1, Nothing DEF When
<1>6. pm \in Headers
  <2>1. Bit("parallel_mode") \in Headers
    BY PieceTyped DEF FieldNames
  <2> QED
    BY <2>1, Nothing DEF When
<1>7. ci \in Headers /\ bq \in Headers
  <2>1. ci \in Headers
    BY PieceTyped DEF FieldNames
  <2>2. bq \in Headers
    BY PieceTyped DEF FieldNames
  <2> QED
    BY <2>1, <2>2
<1>8. When(~h.er, Bit("refresh_context") \o Bit("parallel_mode")) = rc \o pm
  <2> DEFINE p == ~h.er
             a == Bit("refresh_context")
             b == Bit("parallel_mode")
  <2>1. a \in Headers
    BY PieceTyped DEF FieldNames
  <2>2. b \in Headers
    BY PieceTyped DEF FieldNames
  <2>3. p \in BOOLEAN
    OBVIOUS
  <2> HIDE DEF p, a, b
  <2>4. When(p, a \o b) = When(p, a) \o When(p, b)
    BY <2>1, <2>2, <2>3, WhenJoined
  <2> QED
    BY <2>4 DEF p, a, b
<1>9. UncompressedRead(h) = Leading \o FrameRead(h)
        \o When(~h.er, Bit("refresh_context") \o Bit("parallel_mode"))
        \o ci \o LoopFilter(h) \o Quantization(h) \o Segmentation(h) \o TileInfo(h) \o fp
  <2> HIDE DEF fr, lf, bq, fl, sr, tr
  <2> QED
    BY Zenon DEF UncompressedRead, FrameRead, Leading
<1>10. UncompressedWritten(h) = Leading \o fr \o rc \o pm \o ci \o lf \o bq \o fl \o sr \o tr \o fp
  <2>1. /\ Row("frame_marker", 2, TRUE) = Bits("frame_marker", 2)
        /\ Row("profile", 2, TRUE) = Bits("profile", 2)
        /\ Row("show_existing_frame", 1, TRUE) = Bit("show_existing_frame")
        /\ Row("frame_type", 1, TRUE) = Bit("frame_type")
        /\ Row("show_frame", 1, TRUE) = Bit("show_frame")
        /\ Row("error_resilient", 1, TRUE) = Bit("error_resilient")
    BY DEF Row, Bit, Bits
  <2>2. /\ Row("refresh_context", 1, ~h.er) = rc /\ Row("parallel_mode", 1, ~h.er) = pm
        /\ Row("context_idx", 2, TRUE) = ci /\ Row("base_q_idx", 8, TRUE) = bq
        /\ Row("first_partition_size", 16, TRUE) = fp
    BY DEF Row, Bit, Bits, When
  <2> HIDE DEF rc, pm, ci, bq, fp
  <2> QED
    BY <2>1, <2>2 DEF UncompressedWritten, Leading
<1> HIDE DEF fr, rc, pm, ci, lf, bq, fl, sr, tr, fp
<1> DEFINE x1 == Leading \o fr
           x2 == x1 \o rc \o pm
           x3 == x2 \o ci \o lf
<1>11. x1 \in Headers
  BY <1>1, LeadingTyped, HeadersJoined
<1> HIDE DEF x1
<1>12. x1 \o (rc \o pm) = x2
  BY <1>5, <1>6, <1>11, Join2
<1>13. x2 \in Headers
  <2>1. x1 \o rc \in Headers
    BY <1>5, <1>11, HeadersJoined
  <2> QED
    BY <1>6, <2>1, HeadersJoined
<1> HIDE DEF x2
<1>14. x3 \in Headers
  <2>1. x2 \o ci \in Headers
    BY <1>7, <1>13, HeadersJoined
  <2> QED
    BY <1>2, <2>1, HeadersJoined
<1> HIDE DEF x3
<1>15. x3 \o (bq \o fl) = x3 \o bq \o fl
  BY <1>3, <1>7, <1>14, Join2
<1>16. UncompressedRead(h) = x3 \o (bq \o fl) \o sr \o tr \o fp
  <2>1. UncompressedRead(h) = x1 \o (rc \o pm) \o ci \o lf \o (bq \o fl) \o sr \o tr \o fp
    BY <1>1, <1>2, <1>3, <1>4, <1>8, <1>9 DEF x1
  <2> QED
    BY <1>12, <2>1 DEF x3
<1>17. UncompressedWritten(h) = x3 \o bq \o fl \o sr \o tr \o fp
  BY <1>10 DEF x1, x2, x3
<1> QED
  BY <1>15, <1>16, <1>17

-----------------------------------------------------------------------------
(* The compressed header.                                                  *)

TransformRead(h) ==
  When(~h.lossless, Bits("tx_mode", 2) \o When(h.tx >= 3, Bit("tx_mode_select"))
                      \o When(h.tx = 4, Bits("tx8", 2) \o Bits("tx16", 4) \o Bits("tx32", 6)))
TransformRows(h) ==
  Row("tx_mode", 2, ~h.lossless)
    \o Row("tx_mode_select", 1, ~h.lossless /\ h.tx \in {3, 4})
    \o Row("tx8", 2, h.tx = 4) \o Row("tx16", 4, h.tx = 4) \o Row("tx32", 6, h.tx = 4)

LEMMA TransformAgrees ==
  ASSUME NEW h, IsCompressed(h)
  PROVE  TransformRead(h) = TransformRows(h) /\ TransformRows(h) \in Headers
<1> DEFINE none == << >>
           m == Bits("tx_mode", 2)
           s == Bit("tx_mode_select")
           a == Bits("tx8", 2)
           b == Bits("tx16", 4)
           c == Bits("tx32", 6)
<1>1. h.tx \in 0 .. 4 /\ h.lossless \in BOOLEAN /\ (h.lossless => h.tx = 0)
  BY DEF IsCompressed
<1>2. m \in Headers
  BY PieceTyped DEF FieldNames
<1>3. s \in Headers
  BY PieceTyped DEF FieldNames
<1>4. a \in Headers
  BY PieceTyped DEF FieldNames
<1>5. b \in Headers
  BY PieceTyped DEF FieldNames
<1>6. c \in Headers
  BY PieceTyped DEF FieldNames
<1>7. none \o none = none /\ none \in Headers
  BY Nothing
<1>8. m \o none = m
  BY <1>2, Nothing
<1>9. m \o s \in Headers
  BY <1>2, <1>3, HeadersJoined
<1>10. m \o s \o none = m \o s
  <2> HIDE DEF m, s
  <2> QED
    BY <1>9, Nothing
<1>11. CASE h.lossless
  <2>1. TransformRead(h) = none
    BY <1>11 DEF TransformRead, When
  <2>2. ~(h.tx = 4) /\ h.lossless
    BY <1>1, <1>11
  <2>3. TransformRows(h) = none \o none \o none \o none \o none
    BY <2>2 DEF TransformRows, Row
  <2> HIDE DEF none
  <2> QED
    BY <1>7, <2>1, <2>3
<1>12. CASE ~h.lossless /\ h.tx < 3
  <2>1. ~h.lossless /\ ~(h.tx >= 3) /\ h.tx \notin {3, 4} /\ ~(h.tx = 4)
    BY <1>1, <1>12
  <2>2. TransformRead(h) = m \o none \o none
    BY <2>1 DEF TransformRead, When
  <2>3. TransformRows(h) = m \o none \o none \o none \o none
    BY <2>1 DEF TransformRows, Row, Bits
  <2> HIDE DEF none, m
  <2> QED
    BY <1>2, <1>8, <2>2, <2>3
<1>13. CASE ~h.lossless /\ h.tx = 3
  <2>1. ~h.lossless /\ h.tx >= 3 /\ h.tx \in {3, 4} /\ ~(h.tx = 4)
    BY <1>13
  <2>2. TransformRead(h) = m \o s \o none
    BY <2>1 DEF TransformRead, When
  <2>3. TransformRows(h) = m \o s \o none \o none \o none
    BY <2>1 DEF TransformRows, Row, Bits, Bit
  <2> HIDE DEF none, m, s
  <2> QED
    BY <1>9, <1>10, <2>2, <2>3
<1>14. CASE ~h.lossless /\ h.tx = 4
  <2>1. ~h.lossless /\ h.tx >= 3 /\ h.tx \in {3, 4} /\ h.tx = 4
    BY <1>14
  <2>2. TransformRead(h) = m \o s \o (a \o b \o c)
    BY <2>1 DEF TransformRead, When
  <2>3. TransformRows(h) = m \o s \o a \o b \o c
    BY <2>1 DEF TransformRows, Row, Bits, Bit
  <2> HIDE DEF m, s, a, b, c
  <2> DEFINE x == m \o s
  <2>4. x \in Headers
    BY <1>9
  <2> HIDE DEF x
  <2>5. IsJoined3(x, a, b, c)
    BY <1>4, <1>5, <1>6, <2>4, Join3
  <2>6. x \o a \in Headers
    BY <1>4, <2>4, HeadersJoined
  <2>7. x \o a \o b \in Headers
    BY <1>5, <2>6, HeadersJoined
  <2>8. x \o a \o b \o c \in Headers
    BY <1>6, <2>7, HeadersJoined
  <2> QED
    BY <2>2, <2>3, <2>5, <2>8 DEF IsJoined3, x
<1> QED
  BY <1>1, <1>11, <1>12, <1>13, <1>14

CoefRead(h, k) == Bit("update_coef") \o When(k \in h.coefs, Bits("coef", 396))
CoefsRead(h) == Each(LastTransform(h) + 1, LAMBDA k : CoefRead(h, k))
CoefRow(h, t) ==
  Row("update_coef", 1, t <= h.tx) \o Row("coef", 396, t <= h.tx /\ t+1 \in h.coefs)

LEMMA CoefsAgree ==
  ASSUME NEW h, IsCompressed(h)
  PROVE  /\ CoefsRead(h) = CoefRow(h, 0) \o CoefRow(h, 1) \o CoefRow(h, 2) \o CoefRow(h, 3)
         /\ \A t \in 0 .. 3 : CoefRow(h, t) \in Headers
<1> DEFINE n == LastTransform(h) + 1
           f == [k \in 1 .. n |-> CoefRead(h, k)]
           none == << >>
<1>1. h.tx \in 0 .. 4
  BY DEF IsCompressed
<1>2. n \in 1 .. 4 /\ \A t \in 0 .. 3 : t <= h.tx <=> t < n
  BY <1>1 DEF LastTransform
<1>3. CoefsRead(h) = FlattenSeq(f)
  BY DEF CoefsRead, Each
<1> HIDE DEF n
<1>4. ASSUME NEW k \in 1 .. 4 PROVE CoefRead(h, k) \in Headers
  <2> DEFINE p == k \in h.coefs
             w == Bits("coef", 396)
             u == Bit("update_coef")
  <2>1. u \in Headers
    BY PieceTyped DEF FieldNames
  <2>2. w \in Headers
    BY PieceTyped DEF FieldNames
  <2>3. p \in BOOLEAN
    OBVIOUS
  <2> HIDE DEF p, w, u
  <2>4. When(p, w) \in Headers
    BY <2>2, <2>3, WhenTyped
  <2>5. u \o When(p, w) \in Headers
    BY <2>1, <2>4, HeadersJoined
  <2> QED
    BY <2>5 DEF CoefRead, p, w, u
<1>5. none \o none = none /\ none \in Headers
  BY Nothing
<1>6. ASSUME NEW t \in 0 .. 3
      PROVE  /\ t < n => CoefRow(h, t) = CoefRead(h, t+1)
             /\ ~(t < n) => CoefRow(h, t) = none
             /\ CoefRow(h, t) \in Headers
  <2>1. t <= h.tx <=> t < n
    BY <1>2
  <2>2. ASSUME t < n PROVE CoefRow(h, t) = CoefRead(h, t+1)
    <3>1. t <= h.tx
      BY <2>1, <2>2
    <3> QED
      BY <3>1 DEF CoefRow, CoefRead, Row, Bit, Bits, When
  <2>3. ASSUME ~(t < n) PROVE CoefRow(h, t) = none
    <3>1. ~(t <= h.tx)
      BY <2>1, <2>3
    <3>2. CoefRow(h, t) = none \o none
      BY <3>1 DEF CoefRow, Row
    <3> HIDE DEF none
    <3> QED
      BY <1>5, <3>2
  <2>4. t + 1 \in 1 .. 4
    OBVIOUS
  <2>5. CoefRead(h, t+1) \in Headers
    BY <1>4, <2>4
  <2> QED
    BY <1>5, <2>2, <2>3, <2>5
<1>7. f \in [1 .. n -> Headers] /\ (\A k \in 1 .. n : f[k] = CoefRead(h, k)) /\ n \in Nat
  BY <1>2, <1>4
<1> HIDE DEF f
<1>8. /\ n = 1 => FlattenSeq(f) = f[1]
      /\ n = 2 => FlattenSeq(f) = f[1] \o f[2]
      /\ n = 3 => FlattenSeq(f) = f[1] \o f[2] \o f[3]
      /\ n = 4 => FlattenSeq(f) = f[1] \o f[2] \o f[3] \o f[4]
      /\ FlattenSeq(f) \in Headers
  BY <1>7, EachFew
<1> DEFINE a == CoefRow(h, 0)
           b == CoefRow(h, 1)
           c == CoefRow(h, 2)
           d == CoefRow(h, 3)
<1>9. a \in Headers /\ b \in Headers /\ c \in Headers /\ d \in Headers
  BY <1>6
<1>10. \A t \in 0 .. 3 : t < n => CoefRow(h, t) = f[t+1]
  <2> SUFFICES ASSUME NEW t \in 0 .. 3, t < n PROVE CoefRow(h, t) = f[t+1]
    OBVIOUS
  <2>1. t + 1 \in 1 .. n
    BY <1>2
  <2> QED
    BY <1>6, <1>7, <2>1
<1>11. /\ n >= 1 => a = f[1]
       /\ n >= 2 => b = f[2]
       /\ n >= 3 => c = f[3]
       /\ n >= 4 => d = f[4]
  <2>1. 0 \in 0 .. 3 /\ 1 \in 0 .. 3 /\ 2 \in 0 .. 3 /\ 3 \in 0 .. 3
    OBVIOUS
  <2>2. (0 < n => a = f[0+1]) /\ (1 < n => b = f[1+1]) /\ (2 < n => c = f[2+1]) /\ (3 < n => d = f[3+1])
    BY <1>10, <2>1
  <2> HIDE DEF a, b, c, d
  <2> QED
    BY <1>2, <2>2
<1>12. (~(1 < n) => b = none) /\ (~(2 < n) => c = none) /\ (~(3 < n) => d = none)
  BY <1>6
<1> HIDE DEF a, b, c, d, none
<1>13. \A x \in Headers : x \o none = x
  BY Nothing DEF none
<1>14. a \o b \in Headers
  BY <1>9, HeadersJoined
<1>15. a \o b \o c \in Headers
  BY <1>9, <1>14, HeadersJoined
<1>16. CASE n = 1
  <2>1. b = none /\ c = none /\ d = none /\ FlattenSeq(f) = a
    BY <1>8, <1>11, <1>12, <1>16
  <2>2. a \o none = a
    BY <1>9, <1>13
  <2>3. FlattenSeq(f) = a \o b \o c \o d
    BY <2>1, <2>2
  <2> QED
    BY <1>3, <1>6, <2>3 DEF a, b, c, d
<1>17. CASE n = 2
  <2>4. n >= 1 /\ n >= 2 /\ ~(2 < n) /\ ~(3 < n)
    BY <1>17
  <2>5. a = f[1] /\ b = f[2] /\ FlattenSeq(f) = f[1] \o f[2]
    BY <1>8, <1>11, <1>17, <2>4
  <2>1. c = none /\ d = none /\ FlattenSeq(f) = a \o b
    BY <1>12, <2>4, <2>5
  <2>2. a \o b \o none = a \o b
    BY <1>13, <1>14
  <2>3. FlattenSeq(f) = a \o b \o c \o d
    BY <2>1, <2>2
  <2> QED
    BY <1>3, <1>6, <2>3 DEF a, b, c, d
<1>18. CASE n = 3
  <2>4. n >= 1 /\ n >= 2 /\ n >= 3 /\ ~(3 < n)
    BY <1>18
  <2>5. a = f[1] /\ b = f[2] /\ c = f[3] /\ FlattenSeq(f) = f[1] \o f[2] \o f[3]
    BY <1>8, <1>11, <1>18, <2>4
  <2>1. d = none /\ FlattenSeq(f) = a \o b \o c
    BY <1>12, <2>4, <2>5
  <2>2. a \o b \o c \o none = a \o b \o c
    BY <1>13, <1>15
  <2>3. FlattenSeq(f) = a \o b \o c \o d
    BY <2>1, <2>2
  <2> QED
    BY <1>3, <1>6, <2>3 DEF a, b, c, d
<1>19. CASE n = 4
  <2>4. n >= 1 /\ n >= 2 /\ n >= 3 /\ n >= 4
    BY <1>19
  <2>5. /\ a = f[1] /\ b = f[2] /\ c = f[3] /\ d = f[4]
        /\ FlattenSeq(f) = f[1] \o f[2] \o f[3] \o f[4]
    BY <1>8, <1>11, <1>19, <2>4
  <2>3. FlattenSeq(f) = a \o b \o c \o d
    BY <2>5
  <2> QED
    BY <1>3, <1>6, <2>3 DEF a, b, c, d
<1> QED
  BY <1>2, <1>16, <1>17, <1>18, <1>19

\* What is read twice.
LEMMA Twice ==
  ASSUME NEW x \in Headers
  PROVE  FlattenSeq([k \in 1 .. 2 |-> x]) = x \o x
<1> DEFINE f == [k \in 1 .. 2 |-> x]
<1>1. f \in [1 .. 2 -> Headers] /\ f[1] = x /\ f[2] = x /\ 2 \in Nat
  OBVIOUS
<1>2. FlattenSeq(f) = f[1] \o f[2]
  <2> HIDE DEF f
  <2> QED
    BY <1>1, EachFew
<1> QED
  BY <1>1, <1>2

LEMMA PairTyped ==
  ASSUME NEW n1 \in FieldNames, NEW w1 \in Nat, NEW n2 \in FieldNames, NEW w2 \in Nat
  PROVE  Bits(n1, w1) \o Bits(n2, w2) \in Headers
<1>1. Bits(n1, w1) \in Headers /\ Bits(n2, w2) \in Headers
  BY PieceTyped
<1> QED
  BY <1>1, HeadersJoined

Mv == Bit("sign") \o Bits("classes", 10) \o Bit("class0_bit") \o Bits("bits", 10)
Fr == Bits("class0_fr", 6) \o Bits("fr", 3)
Hp == Bit("class0_hp") \o Bit("hp")

LEMMA VectorsTyped == Mv \in Headers /\ Fr \in Headers /\ Hp \in Headers
<1>1. /\ "sign" \in FieldNames /\ "classes" \in FieldNames /\ "class0_bit" \in FieldNames
      /\ "bits" \in FieldNames
  BY DEF FieldNames
<1>2. "class0_fr" \in FieldNames /\ "fr" \in FieldNames
  BY DEF FieldNames
<1>3. "class0_hp" \in FieldNames /\ "hp" \in FieldNames
  BY DEF FieldNames
<1>4. Bits("sign", 1) \o Bits("classes", 10) \in Headers
  BY <1>1, PairTyped
<1>5. Bits("class0_bit", 1) \in Headers /\ Bits("bits", 10) \in Headers
  BY <1>1, PieceTyped
<1>6. Fr \in Headers
  BY <1>2, PairTyped DEF Fr
<1>7. Bits("class0_hp", 1) \o Bits("hp", 1) \in Headers
  BY <1>3, PairTyped
<1> DEFINE x == Bits("sign", 1) \o Bits("classes", 10)
           y == Bits("class0_bit", 1)
           z == Bits("bits", 10)
<1>8. Mv = x \o y \o z
  BY DEF Mv, Bit, Bits
<1>9. x \o y \o z \in Headers
  <2> HIDE DEF x, y, z
  <2>1. x \o y \in Headers
    BY <1>4, <1>5, HeadersJoined DEF x, y
  <2> QED
    BY <1>5, <2>1, HeadersJoined DEF z
<1>10. Hp = Bits("class0_hp", 1) \o Bits("hp", 1)
  BY DEF Hp, Bit, Bits
<1> QED
  BY <1>6, <1>7, <1>8, <1>9, <1>10

\* Whether blocks may use two references.
CompoundRead(h) ==
  When(h.compound, Bit("reference_select") \o When(h.pred > 0, Bit("reference_select_2"))
                     \o When(h.pred = 2, Bits("comp_mode", 5)))

LEMMA CompoundAgrees ==
  ASSUME NEW h, IsCompressed(h), NEW x \in Headers
  PROVE  /\ x \o CompoundRead(h)
              = x \o When(h.compound, Bit("reference_select"))
                  \o When(h.compound /\ h.pred # 0, Bit("reference_select_2"))
                  \o When(h.compound /\ h.pred = 2, Bits("comp_mode", 5))
         /\ x \o CompoundRead(h) \in Headers
<1> DEFINE none == << >>
           a == Bit("reference_select")
           b == When(h.pred > 0, Bit("reference_select_2"))
           c == When(h.pred = 2, Bits("comp_mode", 5))
<1>1. h.pred \in 0 .. 2 /\ h.compound \in BOOLEAN
  BY DEF IsCompressed
<1>2. a \in Headers
  BY PieceTyped DEF FieldNames
<1>3. b \in Headers
  <2>1. Bit("reference_select_2") \in Headers
    BY PieceTyped DEF FieldNames
  <2> QED
    BY <2>1, Nothing DEF When
<1>4. c \in Headers
  <2>1. Bits("comp_mode", 5) \in Headers
    BY PieceTyped DEF FieldNames
  <2> QED
    BY <2>1, Nothing DEF When
<1>5. CASE h.compound
  <2>1. h.pred > 0 <=> h.pred # 0
    BY <1>1
  <2>2. CompoundRead(h) = a \o b \o c
    BY <1>5 DEF CompoundRead, When
  <2>3. /\ When(h.compound, Bit("reference_select")) = a
        /\ When(h.compound /\ h.pred # 0, Bit("reference_select_2")) = b
        /\ When(h.compound /\ h.pred = 2, Bits("comp_mode", 5)) = c
    BY <1>5, <2>1 DEF When
  <2> HIDE DEF a, b, c
  <2>4. IsJoined3(x, a, b, c)
    BY <1>2, <1>3, <1>4, Join3
  <2>5. x \o a \in Headers
    BY <1>2, HeadersJoined
  <2>6. x \o a \o b \in Headers
    BY <1>3, <2>5, HeadersJoined
  <2>7. x \o a \o b \o c \in Headers
    BY <1>4, <2>6, HeadersJoined
  <2> QED
    BY <2>2, <2>3, <2>4, <2>7 DEF IsJoined3
<1>6. CASE ~h.compound
  <2>1. CompoundRead(h) = none
    BY <1>6 DEF CompoundRead, When
  <2>3. /\ When(h.compound, Bit("reference_select")) = none
        /\ When(h.compound /\ h.pred # 0, Bit("reference_select_2")) = none
        /\ When(h.compound /\ h.pred = 2, Bits("comp_mode", 5)) = none
    BY <1>6 DEF When
  <2>4. x \o none = x
    BY Nothing
  <2> HIDE DEF none
  <2> QED
    BY <2>1, <2>3, <2>4
<1> QED
  BY <1>1, <1>5, <1>6

LEMMA InterProbsAgree ==
  ASSUME NEW h, IsCompressed(h), h.frame = "inter"
  PROVE  InterProbs(h) = InterRows(h) /\ InterRows(h) \in Headers
<1> DEFINE im == Bits("inter_mode", 21)
           fi == When(h.switchable, Bits("interp_filter", 8))
           ii == Bits("is_inter", 4)
           co == CompoundRead(h)
           c1 == When(h.compound, Bit("reference_select"))
           c2 == When(h.compound /\ h.pred # 0, Bit("reference_select_2"))
           c3 == When(h.compound /\ h.pred = 2, Bits("comp_mode", 5))
           sr == When(h.pred # 1, Bits("single_ref", 10))
           cr == When(h.pred # 0, Bits("comp_ref", 5))
           ym == Bits("y_mode", 36)
           pa == Bits("partition", 48)
           jo == Bits("joint", 3)
           hp == When(h.hp, Hp)
<1>1. h.pred \in 0 .. 2 /\ h.hp \in BOOLEAN /\ h.switchable \in BOOLEAN
  BY DEF IsCompressed
<1>2. InterProbs(h) = im \o fi \o ii \o co \o sr \o cr \o ym \o pa \o jo
                        \o (Mv \o Mv) \o (Fr \o Fr) \o (hp \o hp)
  <2>1. /\ Each(2, LAMBDA k : Bit("sign") \o Bits("classes", 10) \o Bit("class0_bit")
                                \o Bits("bits", 10)) = FlattenSeq([k \in 1 .. 2 |-> Mv])
        /\ Each(2, LAMBDA k : Bits("class0_fr", 6) \o Bits("fr", 3)) = FlattenSeq([k \in 1 .. 2 |-> Fr])
        /\ Each(2, LAMBDA k : Bit("class0_hp") \o Bit("hp")) = FlattenSeq([k \in 1 .. 2 |-> Hp])
    BY DEF Each, Mv, Fr, Hp
  <2>2. /\ FlattenSeq([k \in 1 .. 2 |-> Mv]) = Mv \o Mv
        /\ FlattenSeq([k \in 1 .. 2 |-> Fr]) = Fr \o Fr
        /\ FlattenSeq([k \in 1 .. 2 |-> Hp]) = Hp \o Hp
    BY Twice, VectorsTyped
  <2>3. When(h.hp, Hp \o Hp) = hp \o hp
    BY <1>1, VectorsTyped, WhenJoined
  <2> HIDE DEF im, fi, ii, co, sr, cr, ym, pa, jo, hp
  <2>4. InterProbs(h) = im \o fi \o ii \o co \o sr \o cr \o ym \o pa \o jo
                          \o (Mv \o Mv) \o (Fr \o Fr) \o When(h.hp, Hp \o Hp)
    BY <2>1, <2>2, ZenonT(60) DEF InterProbs, CompoundRead, im, fi, ii, co, sr, cr, ym, pa, jo
  <2> QED
    BY <2>3, <2>4
<1>3. InterRows(h) = im \o fi \o ii \o c1 \o c2 \o c3 \o sr \o cr \o ym \o pa \o jo
                       \o Mv \o Mv \o Fr \o Fr \o hp \o hp
  <2>1. /\ Row("inter_mode", 21, h.frame = "inter") = im
        /\ Row("interp_filter", 8, h.frame = "inter" /\ h.switchable) = fi
        /\ Row("is_inter", 4, h.frame = "inter") = ii
        /\ Row("reference_select", 1, h.frame = "inter" /\ h.compound) = c1
        /\ Row("reference_select_2", 1, h.frame = "inter" /\ h.compound /\ h.pred # 0) = c2
        /\ Row("comp_mode", 5, h.frame = "inter" /\ h.compound /\ h.pred = 2) = c3
    BY DEF Row, Bit, Bits, When
  <2>2. /\ Row("single_ref", 10, h.frame = "inter" /\ h.pred \in {0, 2}) = sr
        /\ Row("comp_ref", 5, h.frame = "inter" /\ h.pred \in {1, 2}) = cr
    <3>1. (h.pred \in {0, 2} <=> h.pred # 1) /\ (h.pred \in {1, 2} <=> h.pred # 0)
      BY <1>1
    <3> QED
      BY <3>1 DEF Row, Bit, Bits, When
  <2>3. /\ Row("y_mode", 36, h.frame = "inter") = ym
        /\ Row("partition", 48, h.frame = "inter") = pa
        /\ Row("joint", 3, h.frame = "inter") = jo
    BY DEF Row, Bits
  <2>4. /\ Row("sign", 1, h.frame = "inter") \o Row("classes", 10, h.frame = "inter")
             \o Row("class0_bit", 1, h.frame = "inter") \o Row("bits", 10, h.frame = "inter") = Mv
        /\ Row("class0_fr", 6, h.frame = "inter") \o Row("fr", 3, h.frame = "inter") = Fr
    BY DEF Row, Bit, Bits, Mv, Fr
  <2>5. Row("class0_hp", 1, h.frame = "inter" /\ h.hp) \o Row("hp", 1, h.frame = "inter" /\ h.hp) = hp
    <3>1. << >> \o << >> = << >>
      BY Nothing
    <3> QED
      BY <3>1 DEF Row, Bit, When, Hp
  <2> HIDE DEF im, fi, ii, c1, c2, c3, sr, cr, ym, pa, jo, hp
  <2> QED
    BY <2>1, <2>2, <2>3, <2>4, <2>5, Zenon DEF InterRows
<1>4. im \in Headers
  BY PieceTyped DEF FieldNames
<1>5. fi \in Headers
  <2>1. Bits("interp_filter", 8) \in Headers
    BY PieceTyped DEF FieldNames
  <2> QED
    BY <2>1, Nothing DEF When
<1>6. ii \in Headers
  BY PieceTyped DEF FieldNames
<1>7. sr \in Headers
  <2>1. Bits("single_ref", 10) \in Headers
    BY PieceTyped DEF FieldNames
  <2> QED
    BY <2>1, Nothing DEF When
<1>8. cr \in Headers
  <2>1. Bits("comp_ref", 5) \in Headers
    BY PieceTyped DEF FieldNames
  <2> QED
    BY <2>1, Nothing DEF When
<1>9. ym \in Headers
  BY PieceTyped DEF FieldNames
<1>10. pa \in Headers
  BY PieceTyped DEF FieldNames
<1>11. jo \in Headers
  BY PieceTyped DEF FieldNames
<1>12. hp \in Headers /\ Mv \in Headers /\ Fr \in Headers
  BY <1>1, VectorsTyped, WhenTyped
<1>13. \A x \in Headers : x \o co = x \o c1 \o c2 \o c3 /\ x \o co \in Headers
  BY CompoundAgrees
<1> HIDE DEF im, fi, ii, co, c1, c2, c3, sr, cr, ym, pa, jo, hp
<1> DEFINE x1 == im \o fi \o ii
           x2 == x1 \o c1 \o c2 \o c3
           x3 == x2 \o sr \o cr \o ym \o pa \o jo
           x4 == x3 \o Mv \o Mv
           x5 == x4 \o Fr \o Fr
           x6 == x5 \o hp \o hp
<1>14. x1 \in Headers
  <2>1. im \o fi \in Headers
    BY <1>4, <1>5, HeadersJoined
  <2> QED
    BY <1>6, <2>1, HeadersJoined
<1> HIDE DEF x1
<1>15. x1 \o co = x2 /\ x2 \in Headers
  BY <1>13, <1>14
<1> HIDE DEF x2
<1>16. x3 \in Headers
  <2>1. x2 \o sr \in Headers
    BY <1>7, <1>15, HeadersJoined
  <2>2. x2 \o sr \o cr \in Headers
    BY <1>8, <2>1, HeadersJoined
  <2>3. x2 \o sr \o cr \o ym \in Headers
    BY <1>9, <2>2, HeadersJoined
  <2>4. x2 \o sr \o cr \o ym \o pa \in Headers
    BY <1>10, <2>3, HeadersJoined
  <2> QED
    BY <1>11, <2>4, HeadersJoined
<1> HIDE DEF x3
<1>17. x3 \o (Mv \o Mv) = x4 /\ x4 \in Headers
  <2>1. x3 \o (Mv \o Mv) = x4
    BY <1>12, <1>16, Join2
  <2>2. x3 \o Mv \in Headers
    BY <1>12, <1>16, HeadersJoined
  <2> QED
    BY <1>12, <2>1, <2>2, HeadersJoined
<1> HIDE DEF x4
<1>18. x4 \o (Fr \o Fr) = x5 /\ x5 \in Headers
  <2>1. x4 \o (Fr \o Fr) = x5
    BY <1>12, <1>17, Join2
  <2>2. x4 \o Fr \in Headers
    BY <1>12, <1>17, HeadersJoined
  <2> QED
    BY <1>12, <2>1, <2>2, HeadersJoined
<1> HIDE DEF x5
<1>19. x5 \o (hp \o hp) = x6 /\ x6 \in Headers
  <2>1. x5 \o (hp \o hp) = x6
    BY <1>12, <1>18, Join2
  <2>2. x5 \o hp \in Headers
    BY <1>12, <1>18, HeadersJoined
  <2> QED
    BY <1>12, <2>1, <2>2, HeadersJoined
<1> HIDE DEF x6
<1>20. InterProbs(h) = x6
  BY <1>2, <1>15, <1>17, <1>18, <1>19 DEF x1, x3
<1>21. InterRows(h) = x6
  BY <1>3 DEF x1, x2, x3, x4, x5, x6
<1> QED
  BY <1>19, <1>20, <1>21

LEMMA NoInterRows ==
  ASSUME NEW h, h.frame # "inter"
  PROVE  InterRows(h) = << >>
<1> DEFINE none == << >>
           vec == none \o none \o none \o none
           two == none \o none
<1>1. InterRows(h) = none \o none \o none \o none \o none \o none \o none \o none
                       \o none \o none \o none \o vec \o vec \o two \o two \o two \o two
  BY DEF InterRows, Row
<1>2. none \o none = none
  BY Nothing
<1> HIDE DEF none
<1>3. vec = none /\ two = none
  BY <1>2
<1> HIDE DEF vec, two
<1> QED
  BY <1>1, <1>2, <1>3 DEF none

LEMMA CompressedAgrees ==
  ASSUME NEW h, IsCompressed(h)
  PROVE  CompressedRead(h) = CompressedWritten(h)
<1> DEFINE t == TransformRows(h)
           c0 == CoefRow(h, 0)
           c1 == CoefRow(h, 1)
           c2 == CoefRow(h, 2)
           c3 == CoefRow(h, 3)
           cs == CoefsRead(h)
           sk == Bits("skip", 3)
           in == InterRows(h)
<1>1. t \in Headers /\ TransformRead(h) = t
  BY TransformAgrees
<1>2. cs = c0 \o c1 \o c2 \o c3
  BY CoefsAgree
<1>3. c0 \in Headers /\ c1 \in Headers /\ c2 \in Headers /\ c3 \in Headers
  BY CoefsAgree
<1>4. When(h.frame = "inter", InterProbs(h)) = in
  BY InterProbsAgree, NoInterRows DEF When
<1>5. CompressedRead(h) = TransformRead(h) \o cs \o sk \o When(h.frame = "inter", InterProbs(h))
  BY ZenonT(60) DEF CompressedRead, TransformRead, CoefsRead, CoefRead
<1>6. CompressedWritten(h) = t \o c0 \o c1 \o c2 \o c3 \o sk \o in
  <2>1. Row("skip", 3, TRUE) = sk
    BY DEF Row, Bits
  <2> HIDE DEF sk, in
  <2>2. 0 + 1 = 1 /\ 1 + 1 = 2
    OBVIOUS
  <2> QED
    BY <2>1 DEF CompressedWritten, TransformRows, CoefRow, in
<1> HIDE DEF t, c0, c1, c2, c3, cs, sk, in
<1>7. IsJoined4(t, c0, c1, c2, c3)
  BY <1>1, <1>3, Join4
<1> QED
  BY <1>1, <1>2, <1>4, <1>5, <1>6, <1>7 DEF IsJoined4

-----------------------------------------------------------------------------
(* Each answer is of the question that was asked, and computed.            *)

Computed ==
  /\ Answers("pool", LAMBDA i, depth :
       i \in PoolAsks /\ depth = PoolDepth(i[1], i[2], i[3], i[4]))
  /\ Answers("backoff", LAMBDA i, count :
       i \in BackoffAsks /\ count = Backoff(i[1], 0 .. i[2]))
  /\ Answers("skip", LAMBDA i, pair :
       i \in SkipModeAsks /\ pair = SkipModeFrames(i[1], i[2], i[3]))
  /\ Answers("tiles", LAMBDA i, tiles :
       i \in TileAsks /\ tiles = UniformTiles(SbCount(i[1], i[2]),
                                              Len(CodedTiles(SbCount(i[1], i[2]), i[3]))))
  /\ Answers("group", LAMBDA i, told :
       i \in TileGroupAsks /\ told = Told(TileGroup(i[1], i[2], i[3])))
  /\ Answers("header", LAMBDA h, fields :
       h \in HeaderAsks /\ fields = UncompressedRead(h))
  /\ Answers("compressed", LAMBDA h, fields :
       h \in CompressedAsks /\ fields = CompressedRead(h))
  /\ Answers("range", LAMBDA i, bits :
       i \in RangeAsks /\ bits = CompressedBits(i[1], i[2]))
  /\ Answers("slice", LAMBDA units, told :
       /\ units \in UnitAsks
       /\ told = <<H264Header(Framed(units, SourceSize)),
                   HevcSliceType(Framed(units, SourceSize))>>)
  /\ Answers("machine", LAMBDA i, found :
       i \in MachineAsks /\ found = Machine(i[1], i[2], i[3]))
  /\ Answers("config", LAMBDA i, made :
       i \in ConfigAsks /\ made = CreateConfig(i[1], i[2], i[3], i[4]))

LEMMA AlwaysComputed == Spec => []Computed
<1>1. Init => Computed
  BY DEF Init, Computed, Answers
<1>2. Computed /\ [Next]_vars => Computed'
  <2> SUFFICES ASSUME Computed, [Next]_vars PROVE Computed'
    OBVIOUS
  <2>1. ASSUME asked'[1] = "nothing" PROVE Computed'
    BY <2>1 DEF Computed, Answers
  <2>2. CASE AskPoolDepth
    BY <2>2 DEF Computed, Answers, AskPoolDepth, Ask
  <2>3. CASE AskBackoff
    BY <2>3 DEF Computed, Answers, AskBackoff, Ask
  <2>4. CASE AskSkipMode
    BY <2>4 DEF Computed, Answers, AskSkipMode, Ask
  <2>5. CASE AskTiles
    BY <2>5 DEF Computed, Answers, AskTiles, Ask
  <2>6. CASE AskTileGroup
    BY <2>6 DEF Computed, Answers, AskTileGroup, Ask, Told
  <2>7. CASE AskHeader
    BY <2>7 DEF Computed, Answers, AskHeader, Ask
  <2>8. CASE AskCompressed
    BY <2>8 DEF Computed, Answers, AskCompressed, Ask
  <2>9. CASE AskRangeDecoder
    BY <2>9 DEF Computed, Answers, AskRangeDecoder, Ask
  <2>10. CASE AskFirstSlice
    BY <2>10 DEF Computed, Answers, AskFirstSlice, Ask
  <2>11. CASE AskMachine
    BY <2>11 DEF Computed, Answers, AskMachine, Ask
  <2>12. CASE AskConfig
    BY <2>12 DEF Computed, Answers, AskConfig, Ask
  <2>13. CASE Forget
    BY <2>1, <2>13 DEF Forget
  <2>14. CASE UNCHANGED vars
    BY <2>14 DEF Computed, Answers, vars
  <2> QED
    BY <2>2, <2>3, <2>4, <2>5, <2>6, <2>7, <2>8, <2>9, <2>10, <2>11, <2>12, <2>13, <2>14
       DEF Next
<1> QED
  BY <1>1, <1>2, PTL DEF Spec

\* For pictures of any size a pool has what the codec's references need, and up
\* to its cap it is the largest that fits the memory (pool_depth).
THEOREM PoolsFit == Spec => []PoolFits
<1>1. Computed => PoolFits
  <2> SUFFICES ASSUME Computed, asked[1] = "pool"
               PROVE  IsPoolDepth(answer[2], asked[2][1], asked[2][2], asked[2][3], asked[2][4])
    BY DEF PoolFits, Answers
  <2>1. /\ asked[2][1] \in Nat /\ asked[2][2] \in Nat /\ asked[2][3] \in Nat
        /\ asked[2][4] \in BOOLEAN
        /\ answer[2] = PoolDepth(asked[2][1], asked[2][2], asked[2][3], asked[2][4])
    BY AlgorithmsAssumption DEF Computed, Answers
  <2> QED
    BY <2>1, Depths
<1> QED
  BY <1>1, AlwaysComputed, PTL

\* For any amount of memory a stream starts when the floor fits, with more than
\* half of the buffers there is room for (request_buffers_backoff).
THEOREM BackoffsUseMemory == Spec => []BackoffUsesMemory
<1>1. Computed => BackoffUsesMemory
  <2> SUFFICES ASSUME Computed, asked[1] = "backoff"
               PROVE  IsBackoff(answer[2], asked[2][1], asked[2][2])
    BY DEF BackoffUsesMemory, Answers
  <2>1. /\ asked[2][1] \in 0 .. 64 /\ asked[2][2] \in Nat
        /\ answer[2] = Backoff(asked[2][1], 0 .. asked[2][2])
    BY AlgorithmsAssumption DEF Computed, Answers
  <2> QED
    BY <2>1, Ladders
<1> QED
  BY <1>1, AlwaysComputed, PTL

\* For frames of any width or height and any number of tiles that a bitstream
\* can code, the uniform tiles derived from their number are the encoder's
\* (derive_uniform_tiles).
THEOREM UniformTilesAreRight == Spec => []UniformTilesAreTheEncoders
<1>1. Computed => UniformTilesAreTheEncoders
  <2> SUFFICES ASSUME Computed, asked[1] = "tiles"
               PROVE  answer[2] = CodedTiles(SbCount(asked[2][1], asked[2][2]), asked[2][3])
    BY DEF UniformTilesAreTheEncoders, Answers
  <2> DEFINE sbs == SbCount(asked[2][1], asked[2][2])
  <2>1. /\ asked[2][1] \in Nat \ {0} /\ asked[2][2] \in BOOLEAN /\ asked[2][3] \in 0 .. 6
        /\ answer[2] = UniformTiles(sbs, Len(CodedTiles(sbs, asked[2][3])))
    BY AlgorithmsAssumption DEF Computed, Answers
  <2>2. sbs \in Nat \ {0}
    BY <2>1, Superblocks
  <2> HIDE DEF sbs
  <2> QED
    BY <2>1, <2>2, TilesAgree DEF sbs
<1> QED
  BY <1>1, AlwaysComputed, PTL

\* On any machine, in whatever order /dev lists its nodes, the driver runs on
\* the machine's own blocks and on what the environment names
\* (decoder_device_open_format, encoder_device_find).
THEOREM DevicesAreRight == Spec => []RightDevices
<1>1. Computed => RightDevices
  <2> SUFFICES ASSUME Computed, asked[1] = "machine" PROVE RightDevices
    BY DEF RightDevices, Answers
  <2> DEFINE dev == asked[2][1]  media == asked[2][2]  env == asked[2][3]
             none == [video |-> NoPath, media |-> NoPath]
  <2>1. /\ IsMachine(dev, media)
        /\ answer[2] = Machine(dev, media, env)
    BY AlgorithmsAssumption DEF Computed, Answers
  <2>2. /\ answer[2].decoder = OpenDecoder(dev, media, env, CodedFormats, "rkvdec")
        /\ answer[2].av1 = OpenDecoder(dev, media, none, {"AV1_FRAME"}, "av1")
        /\ answer[2].encoder = FindEncoder(dev, NoPath)
    BY <2>1 DEF Machine
  <2> HIDE DEF dev, media, env
  <2>3. ASSUME env = none
        PROVE  /\ IsOwn(answer[2].decoder, dev, media, "rkvdec", CodedFormats)
               /\ IsReal(answer[2].decoder, dev, CodedFormats)
    <3>1. env.video = NoPath /\ env.media = NoPath
      BY <2>3
    <3> QED
      BY <2>1, <2>2, <3>1, DecoderIsOwn
  <2>4. ASSUME env.video # NoPath, answer[2].decoder[1] # NoPath,
               \E k \in DOMAIN dev : dev[k].opens /\ dev[k].path = env.video
        PROVE  answer[2].decoder[1] = env.video
    BY <2>1, <2>2, <2>4, EnvironmentWins
  <2>5. /\ IsOwn(answer[2].av1, dev, media, "av1", {"AV1_FRAME"})
        /\ IsReal(answer[2].av1, dev, {"AV1_FRAME"})
    <3>1. none.video = NoPath /\ none.media = NoPath
      OBVIOUS
    <3> HIDE DEF none
    <3> QED
      BY <2>1, <2>2, <3>1, DecoderIsOwn
  <2>6. /\ \A k \in DOMAIN dev : Encodes(dev[k]) /\ dev[k].name = "VEPU580" =>
             answer[2].encoder = dev[k].path
        /\ answer[2].encoder # NoPath =>
             \E k \in DOMAIN dev : dev[k].path = answer[2].encoder /\ Encodes(dev[k])
    BY <2>1, <2>2, EncoderIsOwn
  <2> QED
    BY <2>3, <2>4, <2>5, <2>6, Zenon DEF RightDevices, Answers, dev, media, env, none
<1> QED
  BY <1>1, AlwaysComputed, PTL

\* For hints of any width and any number of references the skip mode references
\* are the nearest frames, by distances that wrap (derive_skip_mode_frame).
THEOREM SkipModeNearest == Spec => []SkipModeIsNearest
<1>1. Computed => SkipModeIsNearest
  <2> SUFFICES ASSUME Computed, asked[1] = "skip",
                      HintsInRange(asked[2][1], asked[2][2], asked[2][3])
               PROVE  IsSkipModeFrames(answer[2], asked[2][1], asked[2][2], asked[2][3])
    BY DEF SkipModeIsNearest, Answers
  <2>1. /\ asked[2][1] \in 0 .. 8 /\ asked[2][2] \in Seq(Nat) /\ asked[2][3] \in Nat
        /\ answer[2] = SkipModeFrames(asked[2][1], asked[2][2], asked[2][3])
    BY AlgorithmsAssumption DEF Computed, Answers
  <2> QED
    BY <2>1, SkipModeRight
<1> QED
  BY <1>1, AlwaysComputed, PTL

\* In a tile group of any number of tiles of any sizes, the hardware is told of
\* each tile where it is (fill_tile_info, av1_set_controls); and uniform tiles
\* are the encoder's.
THEOREM TilesRight == Spec => []TilesAreTheEncoders
<1>1. Computed => (asked[1] = "group" => TilesTold(answer[2], asked[2][2], asked[2][3]))
  <2> SUFFICES ASSUME Computed, asked[1] = "group"
               PROVE  TilesTold(answer[2], asked[2][2], asked[2][3])
    OBVIOUS
  <2>1. /\ asked[2][1] \in Nat /\ asked[2][2] \in 1 .. 4 /\ asked[2][3] \in Seq(Nat) \ {<< >>}
        /\ answer[2] = Told(TileGroup(asked[2][1], asked[2][2], asked[2][3]))
    BY AlgorithmsAssumption DEF Computed, Answers
  <2> QED
    BY <2>1, GroupTold
<1>2. Computed /\ UniformTilesAreTheEncoders => TilesAreTheEncoders
  BY <1>1 DEF TilesAreTheEncoders, TilesTold, Answers
<1> QED
  BY <1>2, AlwaysComputed, UniformTilesAreRight, PTL

\* For frames and probabilities of any length the decoder that works ahead
\* returns the specification's bits (vpx_rac_renorm), and every probability
\* delta has its one entry.
THEOREM RangeDecoderRight == Spec => []RangeDecoderIsSpec
<1>1. Computed => RangeDecoderIsSpec
  <2> SUFFICES ASSUME Computed, asked[1] = "range"
               PROVE  answer[2] = SpecBits(asked[2][1], asked[2][2])
    BY DeltasHaveOneForm, Zenon DEF RangeDecoderIsSpec, Answers, SpecBits
  <2>1. /\ asked[2][1] \in Seq(0 .. 255) /\ asked[2][2] \in Seq(0 .. 255)
        /\ answer[2] = CompressedBits(asked[2][1], asked[2][2])
    BY AlgorithmsAssumption DEF Computed, Answers
  <2> QED
    BY <2>1, BitsAgree
<1> QED
  BY <1>1, AlwaysComputed, PTL

\* In any picture that fits its buffer the type of the first slice is found, and
\* never taken from within a unit (first_vcl_nal_header, first_slice_nal_type).
THEOREM FirstSliceFound == Spec => []FirstSliceIsFound
<1>1. Computed => FirstSliceIsFound
  <2> SUFFICES ASSUME Computed, asked[1] = "slice" PROVE FirstSliceIsFound
    BY DEF FirstSliceIsFound, Answers
  <2> DEFINE units == asked[2]  d == Framed(units, SourceSize)
             byte == FirstSlice(units, HevcSlice, -1)
  <2>1. IsPicture(units, SourceSize) /\ SourceSize \in Nat
    BY AlgorithmsAssumption DEF Computed, Answers
  <2>2. answer[2] = <<H264Header(d), HevcSliceType(d)>>
    BY DEF Computed, Answers
  <2>3. /\ H264Header(d) = FirstSlice(units, H264Slice, 0)
        /\ HevcSliceType(d) = IF byte = -1 THEN 255 ELSE HevcType(byte)
    BY <2>1, SliceFound
  <2> HIDE DEF d
  <2> QED
    BY <2>2, <2>3 DEF FirstSliceIsFound, Answers
<1> QED
  BY <1>1, AlwaysComputed, PTL

\* Whatever the machine can do and however many attributes a config is asked for
\* with, it is refused or keeps what it was asked for (RequestCreateConfig).
THEOREM ConfigsHonoured == Spec => []ConfigsAreHonoured
<1>1. Computed => ConfigsAreHonoured
  <2> SUFFICES ASSUME Computed, asked[1] = "config"
               PROVE  IsHonoured(answer[2], asked[2][1], asked[2][2], asked[2][3], asked[2][4])
    BY DEF ConfigsAreHonoured, Answers
  <2>1. /\ asked[2][4] \in Seq(STRING \X SUBSET STRING)
        /\ answer[2] = CreateConfig(asked[2][1], asked[2][2], asked[2][3], asked[2][4])
    BY AlgorithmsAssumption DEF Computed, Answers
  <2> QED
    BY <2>1, ConfigHonoured
<1> QED
  BY <1>1, AlwaysComputed, PTL

\* Every field of every header that is not an intra or error-resilient frame's
\* with segmentation is read from where the encoder wrote it
\* (vp9_parse_uncompressed_header, vp9_fill_compressed_hdr).
THEOREM HeadersRight == Spec => []HeadersAreRead
<1>1. Computed => HeadersAreRead
  <2> SUFFICES ASSUME Computed PROVE HeadersAreRead
    OBVIOUS
  <2>1. ASSUME asked[1] = "header", ~SegmentationImplied(asked[2])
        PROVE  answer[2] = UncompressedWritten(asked[2])
    <3>1. asked[2] \in HeaderAsks /\ answer[2] = UncompressedRead(asked[2])
      BY <2>1 DEF Computed, Answers
    <3>2. IsHeader(asked[2])
      BY <3>1, AlgorithmsAssumption
    <3> QED
      BY <2>1, <3>1, <3>2, UncompressedAgrees
  <2>2. ASSUME asked[1] = "compressed" PROVE answer[2] = CompressedWritten(asked[2])
    <3>1. asked[2] \in CompressedAsks /\ answer[2] = CompressedRead(asked[2])
      BY <2>2 DEF Computed, Answers
    <3>2. IsCompressed(asked[2])
      BY <3>1, AlgorithmsAssumption
    <3> QED
      BY <3>1, <3>2, CompressedAgrees
  <2> QED
    BY <2>1, <2>2 DEF HeadersAreRead, Answers
<1> QED
  BY <1>1, AlwaysComputed, PTL
=============================================================================
