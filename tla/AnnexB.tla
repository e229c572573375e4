-------------------------------- MODULE AnnexB --------------------------------
(***************************************************************************)
(* The compressed picture of an H.264 or HEVC stream: the driver frames    *)
(* each NAL unit the client gives it (va-driver/src/picture.c) and looks    *)
(* the type of the first slice up in the result (h264.c, h265.c).          *)
(***************************************************************************)
EXTENDS Integers, FiniteSetsExt, SequencesExt

StartCode == <<0, 0, 0, 1>>

\* Mutant of Framed: only the first unit gets a start code.
FramedOnce(units, size) == StartCode \o FlattenSeq(units)

\* codec_store_buffer: a unit after a start code, if it fits.
StoreBuffer(data, u, size) ==
  IF Len(data) + Len(StartCode) + Len(u) > size THEN data ELSE data \o StartCode \o u

Framed(units, size) == FoldLeft(LAMBDA data, u : StoreBuffer(data, u, size), << >>, units)

\* The place of the unit that a start code at i precedes, of three bytes or
\* four; 0 if none does.
UnitAt(data, i) ==
  IF i + 3 > Len(data) \/ data[i] # 0 \/ data[i+1] # 0 THEN 0
  ELSE IF data[i+2] = 1 THEN i + 3
  ELSE IF data[i+2] = 0 /\ i + 4 <= Len(data) /\ data[i+3] = 1 THEN i + 4
  ELSE 0

\* The first byte of the first unit whose type is a slice's, or `none`.
FirstUnit(data, IsSlice(_), none) ==
  LET places == {i \in DOMAIN data : UnitAt(data, i) # 0 /\ IsSlice(data[UnitAt(data, i)])}
  IN IF places = {} THEN none ELSE data[UnitAt(data, Min(places))]

\* first_vcl_nal_header
H264Slice(byte) == byte % 32 \in 1 .. 5
H264Header(data) == IF Len(data) < 4 THEN 0 ELSE FirstUnit(data, H264Slice, 0)

\* first_slice_nal_type: the type is in bits 6 to 1.
HevcType(byte)  == (byte \div 2) % 64
HevcSlice(byte) == HevcType(byte) <= 31
HevcSliceType(data) ==
  IF Len(data) < 5 THEN 255
  ELSE LET byte == FirstUnit(data, HevcSlice, -1)
       IN IF byte = -1 THEN 255 ELSE HevcType(byte)

-----------------------------------------------------------------------------

\* A unit as an encoder makes it: 00 00 is followed by nothing below 03 in it,
\* and it does not end in 00.
IsUnit(u) ==
  /\ \A i \in 1 .. Len(u) - 2 : u[i] = 0 /\ u[i+1] = 0 => u[i+2] >= 3
  /\ u[Len(u)] # 0

\* Units that fit the buffer.
FramedSize(units) == FoldLeft(LAMBDA n, u : n + Len(StartCode) + Len(u), 0, units)

IsPicture(units, size) ==
  /\ units \in Seq(Seq(0 .. 255) \ {<< >>})
  /\ \A k \in DOMAIN units : IsUnit(units[k])
  /\ FramedSize(units) <= size

\* The header of the first slice among the units themselves.
FirstSlice(units, IsSlice(_), none) ==
  LET slices == {k \in DOMAIN units : IsSlice(units[k][1])}
  IN IF slices = {} THEN none ELSE units[Min(slices)][1]
=============================================================================
