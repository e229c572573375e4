------------------------------ MODULE PoolSizing ------------------------------
(***************************************************************************)
(* How many frame buffers a decode session asks for (va-driver/src/        *)
(* context.c).  The frames come out of one region of contiguous memory of   *)
(* 512 MiB, next to what the AV1 decoder takes for itself.                  *)
(***************************************************************************)
EXTENDS Integers, FiniteSetsExt, SequencesExt

MiB == 1048576

\* hantro_av1_mv_size(): motion vectors are kept per block of 64 by 64.
Av1MvBytes(width, height) ==
  ((width + 63) \div 64) * ((height + 63) \div 64) * 384 * 2 + 512

FrameBytes(width, height, bpp) == (width * height * bpp) \div 8

\* The references and the current frame, which the AV1 decoder holds privately.
Av1References == 9

PrivateBytes(width, height, bpp) ==
  Av1References * (FrameBytes(width, height, bpp) + Av1MvBytes(width, height))

Limits(av1) ==
  IF av1 THEN [min |-> Av1References, max |-> 25, budget |-> 448 * MiB]
         ELSE [min |-> 20, max |-> 64, budget |-> 384 * MiB]

\* What the frames that are handed out may take together.
FramesBudget(width, height, bpp, av1) ==
  Limits(av1).budget - (IF av1 THEN PrivateBytes(width, height, bpp) ELSE 0)

\* The AV1 decoder's own frames leave no room: the least there has to be.
NoRoom(width, height, bpp, av1) ==
  av1 /\ PrivateBytes(width, height, bpp) >= Limits(av1).budget

\* Mutant of PoolDepth: the AV1 decoder's own frames are not charged.
PoolDepthUncharged(width, height, bpp, av1) ==
  LET L     == Limits(av1)
      frame == FrameBytes(width, height, bpp)
  IN IF frame = 0 THEN 64 ELSE Max({L.min, Min({L.max, L.budget \div frame})})

PoolDepth(width, height, bpp, av1) ==
  LET L     == Limits(av1)
      frame == FrameBytes(width, height, bpp)
      depth == FramesBudget(width, height, bpp, av1) \div frame
  IN IF frame = 0 THEN 64
     ELSE IF NoRoom(width, height, bpp, av1) \/ depth < L.min THEN L.min
     ELSE IF depth > L.max THEN L.max
     ELSE depth

\* What a pool has to be given whatever the frames weigh, and what more it may
\* take: each further buffer has to fit the budget, and none that fits is
\* left out.
IsPoolDepth(depth, width, height, bpp, av1) ==
  LET L     == Limits(av1)
      frame == FrameBytes(width, height, bpp)
      room  == FramesBudget(width, height, bpp, av1)
  IN frame > 0 =>
       /\ depth \in L.min .. L.max
       /\ depth > L.min => depth * frame <= room
       /\ depth < L.max => room \div (depth + 1) < frame

-----------------------------------------------------------------------------

Ladder == <<64, 48, 32, 24, 20, 16, 12, 10, 6, 3>>

\* Mutant of Backoff: the loop ends at a size that is not below `want`.
BackoffBreaks(want, granted) ==
  IF want \in granted THEN want
  ELSE IF want > Ladder[1] /\ \E n \in granted : n = Ladder[1] THEN Ladder[1] ELSE -1

\* request_buffers_backoff(): the first size VIDIOC_REQBUFS grants, -1 when it
\* refuses them all.
Backoff(want, granted) ==
  LET lower == {k \in DOMAIN Ladder : Ladder[k] < want /\ Ladder[k] \in granted}
  IN IF want \in granted THEN want
     ELSE IF lower = {} THEN -1 ELSE Ladder[Min(lower)]

\* A pool smaller than this cannot hold a reference and the current frame.
PoolFloor == 3

\* Memory for `room` buffers: a pool is made whenever the floor fits, and more
\* than half of what could have been had is.
IsBackoff(count, want, room) ==
  LET best == Min({want, room})
  IN IF best < PoolFloor THEN count \in {-1, best}
     ELSE count <= best /\ 2 * count > best
=============================================================================
