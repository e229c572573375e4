------------------------------ MODULE Av1Geometry ------------------------------
(***************************************************************************)
(* What the driver derives for AV1 because VA-API does not carry it        *)
(* (va-driver/src/av1.c): the skip mode references, the sizes of uniform    *)
(* tiles, the width of the tile size field and where the tiles lie.        *)
(***************************************************************************)
EXTENDS Integers, FiniteSetsExt, SequencesExt

\* Mutant of RelativeDist: the hints are compared as they are.
RelativeDistRaw(bits, a, b) == IF bits = 0 THEN 0 ELSE a - b

\* Specification 5.9.3: the signed distance of two hints in a field of `bits`
\* bits.  diff & (m - 1) is diff % m, and diff & m is the bit above it.
RelativeDist(bits, a, b) ==
  LET m    == 2 ^ (bits - 1)
      diff == (a - b) % (2 * m)
  IN IF bits = 0 THEN 0
     ELSE (diff % m) - (IF diff >= m THEN m ELSE 0)

-----------------------------------------------------------------------------
(* derive_skip_mode_frame: hints[i] is reference i's, 0 stands for "none". *)

\* One pass over the references, keeping the first of the nearest ones before
\* and after the frame.
Nearer(bits, hints, hint, acc, i) ==
  LET D(a, b) == RelativeDist(bits, a, b)
  IN IF /\ D(hints[i], hint) < 0
        /\ acc.fwd = 0 \/ D(hints[i], hints[acc.fwd]) > 0
     THEN [acc EXCEPT !.fwd = i]
     ELSE IF /\ D(hints[i], hint) > 0
             /\ acc.bwd = 0 \/ D(hints[i], hints[acc.bwd]) < 0
     THEN [acc EXCEPT !.bwd = i]
     ELSE acc

ForwardBackward(bits, hints, hint) ==
  FoldLeft(LAMBDA acc, i : Nearer(bits, hints, hint, acc, i),
           [fwd |-> 0, bwd |-> 0], [i \in DOMAIN hints |-> i])

\* The second pass: the nearest of those farther back than `forward`.
NearerSecond(bits, hints, forward, second, i) ==
  LET D(a, b) == RelativeDist(bits, a, b)
  IN IF /\ D(hints[i], hints[forward]) < 0
        /\ second = 0 \/ D(hints[i], hints[second]) > 0
     THEN i ELSE second

SecondForward(bits, hints, forward) ==
  FoldLeft(LAMBDA second, i : NearerSecond(bits, hints, forward, second, i),
           0, [i \in DOMAIN hints |-> i])

\* skip_mode_frame[]: the two references in order, or none.
SkipModeFrames(bits, hints, hint) ==
  LET found == ForwardBackward(bits, hints, hint)
      other == IF found.fwd = 0 THEN 0
               ELSE IF found.bwd # 0 THEN found.bwd
               ELSE SecondForward(bits, hints, found.fwd)
  IN IF other = 0 THEN <<0, 0>>
     ELSE <<Min({found.fwd, other}), Max({found.fwd, other})>>

\* The distance said without bits.  Half the range away is before and after the
\* frame at once; an encoder keeps its hints nearer.
Away(bits, a, b) ==
  CHOOSE d \in -(2 ^ (bits-1)) .. 2 ^ (bits-1) - 1 : (a - b - d) % (2 ^ bits) = 0

HintsInRange(bits, hints, hint) ==
  bits > 0 => \A i \in DOMAIN hints : Away(bits, hints[i], hint) > -(2 ^ (bits-1))

\* Specification 7.20, said of distances: the nearest frame before this one,
\* with the nearest after it or else the next nearest before it.
IsSkipModeFrames(pair, bits, hints, hint) ==
  LET away    == [i \in DOMAIN hints |-> Away(bits, hints[i], hint)]
      past    == {i \in DOMAIN hints : away[i] < 0}
      future  == {i \in DOMAIN hints : away[i] > 0}
      Nearest(S) == Min({i \in S : \A j \in S : away[i] * away[i] <= away[j] * away[j]})
      farther == {i \in past : away[i] < away[Nearest(past)]}
      others  == IF future # {} THEN future ELSE farther
  IN IF bits = 0 \/ past = {} \/ others = {} THEN pair = <<0, 0>>
     ELSE LET two == {Nearest(past), Nearest(others)}
          IN pair = <<Min(two), Max(two)>>

-----------------------------------------------------------------------------
(* Tiles. *)

TileLog2(n) == Min({k \in 0 .. 7 : 2 ^ k >= n})

\* Superblocks across a frame `pixels` wide or high: 4x4 units, in pairs.
SbCount(pixels, sb128) ==
  LET mi == 2 * ((pixels + 7) \div 8)
      sb == IF sb128 THEN 32 ELSE 16
  IN (mi + sb - 1) \div sb

MaxTileCols == 64

\* Mutant of UniformTiles: the superblocks are shared among the tiles evenly.
UniformTilesShared(sbs, tiles) ==
  [k \in 1 .. tiles |-> (sbs * k) \div tiles - (sbs * (k-1)) \div tiles]

\* derive_uniform_tiles, one dimension: the tiles' sizes in superblocks from
\* how many there are, as VA-API tells it.
UniformTiles(sbs, tiles) ==
  LET log2 == TileLog2(tiles)
      step == (sbs + 2 ^ log2 - 1) \div 2 ^ log2
  IN IF tiles = 0 THEN << >>
     ELSE [k \in 1 .. Min({MaxTileCols, (sbs + step - 1) \div step}) |->
             Min({step, sbs - (k-1) * step})]

\* The bitstream says the logarithm; the encoder's tiles follow from it
\* (specification 5.9.15).
CodedTiles(sbs, log2) ==
  LET step == (sbs + 2 ^ log2 - 1) \div 2 ^ log2
  IN [k \in 1 .. (sbs + step - 1) \div step |-> Min({step, sbs - (k-1) * step})]

\* fill_tile_info: the width of the size field from the first gap between two
\* tiles that can be one.
TileSizeBytes(tiles) ==
  LET Gap(i) == tiles[i+1].offset - (tiles[i].offset + tiles[i].size)
      sizes  == {i \in 1 .. Len(tiles) - 1 : Gap(i) \in 1 .. 4}
  IN IF sizes = {} THEN 4 ELSE Gap(Min(sizes))

\* av1_set_controls: the bytes before the first tile, down to a multiple of
\* 16, are dropped.
Rebase(tiles, size) ==
  LET down == tiles[1].offset - (tiles[1].offset % 16)
  IN IF down > 0 /\ down <= size THEN down ELSE 0

TileEntries(tiles, size) ==
  [i \in DOMAIN tiles |->
     [offset |-> tiles[i].offset - Rebase(tiles, size), size |-> tiles[i].size]]

CodedData(data, tiles) ==
  SubSeq(data, Rebase(tiles, Len(data)) + 1, Len(data))

\* A tile group as an encoder writes it into one data buffer: a header, then
\* the tiles, each but the last after its size.
TileData(i, n) == [k \in 1 .. n |-> <<i, k>>]
Filler(n)      == [k \in 1 .. n |-> <<0, 0>>]

WriteTile(width, sizes, acc, i) ==
  LET field == IF i < Len(sizes) THEN width ELSE 0
  IN [data  |-> acc.data \o Filler(field) \o TileData(i, sizes[i]),
      tiles |-> Append(acc.tiles, [offset |-> Len(acc.data) + field, size |-> sizes[i]])]

TileGroup(header, width, sizes) ==
  FoldLeft(LAMBDA acc, i : WriteTile(width, sizes, acc, i),
           [data |-> Filler(header), tiles |-> << >>], [i \in DOMAIN sizes |-> i])
=============================================================================
