---------------------------- MODULE EncodedStream ----------------------------
(***************************************************************************)
(* What a client of the encoder may rely on, whatever the device does:     *)
(* vaEndPicture returns, either with an error or with the bitstream of a   *)
(* picture it has submitted, and never with one that it was given before.  *)
(***************************************************************************)
EXTENDS Integers, Sequences

VARIABLES
  calling,  \* a call is in progress
  stream    \* what each call returned: the number of a picture, 0 for an error

Init == calling = FALSE /\ stream = << >>

Call == ~calling /\ calling' = TRUE /\ UNCHANGED stream

Refuse == ~calling /\ stream' = Append(stream, 0) /\ UNCHANGED calling

Return ==
  /\ calling /\ calling' = FALSE
  /\ \E p \in 0 .. Len(stream) + 1 :
       /\ \A k \in 1 .. Len(stream) : p # 0 => stream[k] # p
       /\ stream' = Append(stream, p)

\* The context is destroyed and another one created.
Restart == ~calling /\ stream' = << >> /\ UNCHANGED calling

Next == Restart \/ Call \/ Refuse \/ Return

Spec == Init /\ [][Next]_<<calling, stream>> /\ WF_<<calling, stream>>(Return)
=============================================================================
