----------------------- MODULE ContextParametersProofs -----------------------
(***************************************************************************)
(* For every set of buffers, every device and every capacity: a picture is  *)
(* encoded under the settings its client asked for last, with its headers   *)
(* in front.  For every set of surfaces, number of slots and codec: the     *)
(* device holds every picture that the client may still read, and is told   *)
(* of the ones that the stream means.                                      *)
(***************************************************************************)
EXTENDS ContextParameters, LoopProofs, SequenceTheorems

-----------------------------------------------------------------------------
(* The encoder.                                                            *)

\* What the context remembers is what was asked for, and the device has it or is
\* still as it was opened, with nothing remembered.  A level is set with the first
\* sequence whatever it is, and any other value than a QP is never 0 when it is
\* asked for: these are what make an equal value an applied one.
Remembered ==
  /\ DOMAIN encoder = {"control", "crop", "lacks", "idr"}
  /\ DOMAIN encode.applied = Controls
  /\ encode.seen \in BOOLEAN
  /\ DOMAIN asked \subseteq Controls
  /\ \A id \in DOMAIN asked :
       /\ asked[id] = encode.applied[id]
       /\ id \notin Qps \cup {"level"} => asked[id] # Zero(id)
  /\ "level" \in DOMAIN asked => encode.seen
  /\ \A id \in Controls \ encoder.lacks :
       \/ encoder.control[id] = encode.applied[id]
       \/ /\ encoder.control[id] = Default /\ encode.applied[id] = Zero(id)
          /\ id = "level" => ~encode.seen

\* A picture asks for a 0 only of its QPs, or of the level by the menu's number.
LEMMA WantedAsks ==
  ASSUME NEW p
  PROVE  /\ DOMAIN Wanted(p) \subseteq Controls
         /\ \A id \in DOMAIN Wanted(p) :
              id \notin Qps \cup {"level"} => Wanted(p)[id] # Zero(id)
         /\ "level" \in DOMAIN Wanted(p) <=> p.sequence # None
  <1> DEFINE bitrate == IF p["sequence"] # None /\ p.sequence.bitrate # 0
                          THEN p.sequence.bitrate ELSE p.bitrate
             asks == {id \in Controls :
                        CASE id = "level"     -> p["sequence"] # None
                          [] id = "bitrate"   -> bitrate # 0
                          [] id = "framerate" -> p.framerate[1] # 0
                          [] id \in Qps       -> p["picture"] # None
                          [] OTHER            -> p[id] # 0}
  <1>1. DOMAIN Wanted(p) = asks
    BY DEF Wanted
  <1>2. "level" \in asks <=> p.sequence # None
    BY DEF Controls, Qps
  <1>3. ASSUME NEW id \in asks, id \notin Qps \cup {"level"}
        PROVE  Wanted(p)[id] # Zero(id)
    <2>1. CASE id = "bitrate"
      BY <1>3, <2>1 DEF Wanted, Zero, Qps
    <2>2. CASE id = "framerate"
      BY <1>3, <2>2 DEF Wanted, Zero, Qps, NoRate
    <2>3. CASE id \notin {"bitrate", "framerate"}
      BY <1>3, <2>3 DEF Wanted, Zero, Qps
    <2> QED
      BY <2>1, <2>2, <2>3
  <1> QED
    BY <1>1, <1>2, <1>3

LEMMA RememberedInit == EncodeInit => Remembered
  BY DEF EncodeInit, Remembered, Controls, Qps

LEMMA RememberedApplied ==
  ASSUME Remembered, EncodeApplied
  PROVE  Remembered'
  <1> DEFINE w == Wanted(params)
  <1>1. /\ DOMAIN w \subseteq Controls
        /\ \A id \in DOMAIN w : id \notin Qps \cup {"level"} => w[id] # Zero(id)
        /\ "level" \in DOMAIN w <=> params.sequence # None
    BY WantedAsks
  <1> HIDE DEF w
  <1>2. /\ encode' = [applied |-> Updated(encode.applied, w),
                      seen |-> (encode.seen \/ params.sequence # None)]
        /\ asked' = Updated(asked, w)
        /\ encoder' = [encoder EXCEPT
             !.control = [id \in Controls |->
               IF id \in Changed(w) \ encoder.lacks THEN w[id] ELSE @[id]],
             !.crop = Crop(params), !.idr = Idr(params)]
    BY DEF EncodeApplied, w
  <1>3. /\ DOMAIN encoder' = {"control", "crop", "lacks", "idr"}
        /\ encoder'.lacks = encoder.lacks
        /\ \A id \in Controls : encoder'.control[id] =
             IF id \in Changed(w) \ encoder.lacks THEN w[id] ELSE encoder.control[id]
    BY <1>2 DEF Remembered
  <1>4. /\ DOMAIN encode'.applied = Controls
        /\ \A id \in Controls : encode'.applied[id] =
             IF id \in DOMAIN w THEN w[id] ELSE encode.applied[id]
    BY <1>1, <1>2 DEF Remembered, Updated
  <1>5. /\ encode'.seen \in BOOLEAN
        /\ encode'.seen <=> encode.seen \/ "level" \in DOMAIN w
    BY <1>1, <1>2 DEF Remembered
  <1>6. /\ DOMAIN asked' = DOMAIN asked \cup DOMAIN w
        /\ \A id \in DOMAIN asked' : asked'[id] = IF id \in DOMAIN w THEN w[id] ELSE asked[id]
    BY <1>2 DEF Updated
  <1>7. \A id \in DOMAIN asked' : /\ asked'[id] = encode'.applied[id]
                                  /\ id \notin Qps \cup {"level"} => asked'[id] # Zero(id)
    BY <1>1, <1>4, <1>6 DEF Remembered
  <1>8. ASSUME NEW id \in Controls \ encoder.lacks
        PROVE  \/ encoder'.control[id] = encode'.applied[id]
               \/ /\ encoder'.control[id] = Default /\ encode'.applied[id] = Zero(id)
                  /\ id = "level" => ~encode'.seen
    <2>1. CASE id \in Changed(w)
      BY <1>3, <1>4, <1>8, <2>1 DEF Changed
    <2>2. CASE id \notin Changed(w)
      <3>1. /\ encoder'.control[id] = encoder.control[id]
            /\ encode'.applied[id] = encode.applied[id]
            /\ id = "level" => encode'.seen = encode.seen
        BY <1>3, <1>4, <1>5, <1>8, <2>2 DEF Changed, Remembered
      <3> QED
        BY <1>8, <3>1 DEF Remembered
    <2> QED
      BY <2>1, <2>2
  <1> QED
    BY <1>1, <1>3, <1>4, <1>5, <1>6, <1>7, <1>8 DEF Remembered

LEMMA RememberedNext ==
  ASSUME Remembered, ContextNext \/ UNCHANGED <<vars, encodeVars>>
  PROVE  Remembered'
  <1>1. CASE UNCHANGED encodeVars
    BY <1>1 DEF encodeVars, Remembered
  <1>2. CASE EncodeBegin
    BY <1>2 DEF EncodeBegin, Remembered
  <1>3. ASSUME NEW b \in Buffers, EncodeRender(b)
        PROVE  Remembered'
    BY <1>3 DEF EncodeRender, Remembered
  <1>4. CASE EncodeRefused
    BY <1>4 DEF EncodeRefused, Remembered
  <1>5. CASE EncodeApplied
    BY <1>5, RememberedApplied
  <1> QED
    BY <1>1, <1>2, <1>3, <1>4, <1>5 DEF ContextNext, EncodeNext

\* EncoderRunsAsAsked for all constants: the controls of the device are the ones
\* asked for last (encode_apply_params).
THEOREM EncoderAsAsked == ContextSpec => []EncoderRunsAsAsked
  <1>1. ContextInit => Remembered
    BY RememberedInit DEF ContextInit
  <1>2. Remembered /\ [ContextNext]_<<vars, encodeVars>> => Remembered'
    BY RememberedNext
  <1>3. Remembered => EncoderRunsAsAsked
    BY DEF Remembered, EncoderRunsAsAsked, Zero, Qps
  <1> QED
    BY <1>1, <1>2, <1>3, PTL DEF ContextSpec

-----------------------------------------------------------------------------
(* The decoder.                                                            *)

\* The records keep their fields, and the clock counts.
Shapes ==
  /\ DOMAIN surface = Surfaces
  /\ \A s \in Surfaces : DOMAIN surface[s] = {"live", "mine", "stamp", "hint", "matrix"}
  /\ DOMAIN device = {"streaming", "sequence", "held"}
  /\ DOMAIN device.held = Surfaces
  /\ DOMAIN client = {"slots", "sequence", "vp9", "open", "gap", "lost", "time"}
  /\ DOMAIN client.slots = SlotIndex
  /\ \A i \in SlotIndex : DOMAIN client.slots[i] = {"id", "picture", "hint"}
  /\ client.time \in Nat

\* A slot that can be read names a surface whose timestamp and whose buffer are
\* those of its picture.
SlotKept(i) ==
  LET s == client.slots[i].id
  IN /\ s \in Surfaces /\ surface[s].live
     /\ surface[s].stamp = client.slots[i].picture
     /\ device.held[s] = client.slots[i].picture

\* From vaBeginPicture to vaEndPicture the target is a surface, and none of such a slot.
TargetFree == client.open # "end" => target \in Surfaces \ Protected /\ surface[target].live

Kept == Shapes /\ TargetFree /\ \A i \in Readable : SlotKept(i)

LEMMA KeptInit == Init => Kept
  BY DEF Init, Kept, Shapes, TargetFree, SlotKept, Readable, Fresh, Dead, Idle, NewStream, Empty

\* Nothing happens to the surfaces of the slots, which stay as they are.
LEMMA KeptApart ==
  ASSUME Kept, Shapes', TargetFree', client'.slots = client.slots,
         \A s \in Protected : /\ surface'[s].live = surface[s].live
                             /\ surface'[s].stamp = surface[s].stamp
                             /\ device'.held[s] = device.held[s]
  PROVE  Kept'
  <1>1. Readable' = Readable
    BY DEF Readable, SlotIndex
  <1>2. ASSUME NEW i \in Readable  PROVE SlotKept(i)'
    <2>1. client.slots[i].id \in Protected
      BY DEF Protected
    <2> QED
      BY <2>1 DEF Kept, SlotKept
  <1> QED
    BY <1>1, <1>2 DEF Kept

LEMMA KeptSurfaces ==
  ASSUME Kept, NEW s \in Surfaces, CreateSurface(s) \/ DestroySurface(s)
  PROVE  Kept'
  <1>1. \A q \in Protected : surface[q].live
    BY DEF Kept, SlotKept, Protected
  <1>2. s \notin Protected
    BY <1>1 DEF CreateSurface, DestroySurface
  <1>3. /\ surface' = [surface EXCEPT ![s] = Fresh] \/ surface' = [surface EXCEPT ![s] = Dead]
        /\ device' = device \/ device' = [device EXCEPT !.held[s] = 0]
        /\ client' = client /\ target' = target
    BY DEF CreateSurface, DestroySurface
  <1>4. Shapes'
    BY <1>3 DEF Kept, Shapes, Fresh, Dead, SlotIndex
  <1>5. TargetFree'
    <2>1. s # target \/ surface'[s].live
      BY <1>3 DEF Kept, Shapes, CreateSurface, DestroySurface, Fresh, Dead
    <2>2. client.open # "end" => surface'[target].live
      BY <1>3, <2>1 DEF Kept, Shapes, TargetFree
    <2> QED
      BY <1>3, <2>2 DEF Kept, TargetFree, Protected, Readable, SlotIndex
  <1>6. \A q \in Protected : /\ surface'[q].live = surface[q].live
                            /\ surface'[q].stamp = surface[q].stamp
                            /\ device'.held[q] = device.held[q]
    BY <1>2, <1>3 DEF Kept, Shapes, Protected, SlotKept
  <1> QED
    BY <1>3, <1>4, <1>5, <1>6, KeptApart

LEMMA KeptNewContext ==
  ASSUME Kept, NewContext
  PROVE  Kept'
  <1>1. /\ surface' = [s \in Surfaces |-> [surface[s] EXCEPT !.mine = FALSE]]
        /\ device' = Idle
        /\ client' = [client EXCEPT !.slots = [i \in SlotIndex |-> [@[i] EXCEPT !.picture = 0]],
                                    !.sequence = NoSequence, !.gap = FALSE, !.lost = FALSE]
        /\ client.open = "end"
    BY DEF NewContext
  <1>2. Shapes'
    BY <1>1 DEF Kept, Shapes, Idle, SlotIndex
  <1>3. Readable' = {}
    BY <1>1 DEF Kept, Shapes, Readable, SlotIndex
  <1>4. TargetFree'
    BY <1>1 DEF Kept, Shapes, TargetFree
  <1> QED
    BY <1>2, <1>3, <1>4 DEF Kept

LEMMA KeptBegin ==
  ASSUME Kept, NEW s \in Surfaces, BeginPicture(s)
  PROVE  Kept'
  <1>1. /\ s \notin Protected
        /\ surface' = [surface EXCEPT ![s] =
             [@ EXCEPT !.mine = TRUE, !.hint = IF codec = "av1" THEN 0 ELSE @]]
        /\ device' = device \/ device' = [device EXCEPT !.held[s] = 0]
        /\ target' = s
        /\ client' = [client EXCEPT !.open = "begin"]
    BY DEF BeginPicture
  <1>2. Shapes'
    BY <1>1 DEF Kept, Shapes, SlotIndex
  <1>3. client'.slots = client.slots
    BY <1>1 DEF Kept, Shapes
  <1>4. TargetFree'
    <2>1. surface[s].live
      BY DEF BeginPicture
    <2>2. surface'[s].live
      BY <1>1, <2>1 DEF Kept, Shapes
    <2> QED
      BY <1>1, <1>3, <2>2 DEF TargetFree, Protected, Readable, SlotIndex
  <1>5. \A q \in Protected : /\ surface'[q].live = surface[q].live
                            /\ surface'[q].stamp = surface[q].stamp
                            /\ device'.held[q] = device.held[q]
    BY <1>1 DEF Kept, Shapes, Protected, SlotKept
  <1> QED
    BY <1>2, <1>3, <1>4, <1>5, KeptApart

LEMMA KeptUnuse ==
  ASSUME Kept, NEW i \in SlotIndex, Unuse(i)
  PROVE  Kept'
  <1>1. /\ client' = [client EXCEPT !.slots[i].picture = 0]
        /\ client.open = "end"
        /\ surface' = surface /\ device' = device
    BY DEF Unuse
  <1>2. Shapes'
    BY <1>1 DEF Kept, Shapes, SlotIndex
  <1>3. Readable' = Readable \ {i}
    BY <1>1 DEF Kept, Shapes, Readable, SlotIndex
  <1>4. TargetFree'
    BY <1>1 DEF Kept, Shapes, TargetFree
  <1>5. ASSUME NEW j \in Readable'  PROVE SlotKept(j)'
    <2>1. j \in Readable /\ j # i /\ j \in SlotIndex
      BY <1>3 DEF Readable
    <2>2. client'.slots[j] = client.slots[j]
      BY <1>1, <2>1 DEF Kept, Shapes
    <2> QED
      BY <1>1, <2>1, <2>2 DEF Kept, SlotKept
  <1> QED
    BY <1>2, <1>4, <1>5 DEF Kept

LEMMA KeptRender ==
  ASSUME Kept, NEW p, RenderPicture(p), client.open = "begin"
  PROVE  Kept'
  <1>1. /\ surface' = [surface EXCEPT ![target].matrix = IF p.matrix = FlatMatrix THEN @ ELSE p.matrix]
        /\ device' = device /\ target' = target
        /\ client' = [client EXCEPT !.open = "render", !.sequence = p.sequence,
                                    !.vp9 = IF codec = "vp9" THEN StreamState(@, p) ELSE @]
    BY DEF RenderPicture
  <1>2. target \in Surfaces \ Protected /\ surface[target].live
    BY DEF Kept, TargetFree
  <1>3. Shapes'
    BY <1>1, <1>2 DEF Kept, Shapes, SlotIndex
  <1>4. client'.slots = client.slots
    BY <1>1 DEF Kept, Shapes
  <1>5. TargetFree'
    <2>1. surface'[target].live
      BY <1>1, <1>2 DEF Kept, Shapes
    <2> QED
      BY <1>1, <1>2, <1>4, <2>1 DEF TargetFree, Protected, Readable, SlotIndex
  <1>6. \A q \in Protected : /\ surface'[q].live = surface[q].live
                            /\ surface'[q].stamp = surface[q].stamp
    BY <1>1, <1>2 DEF Kept, Shapes, Protected, SlotKept
  <1> QED
    BY <1>1, <1>3, <1>4, <1>5, <1>6, KeptApart

\* A vaEndPicture that fails may stamp the target, and no more of a surface.
LEMMA KeptFailed ==
  ASSUME Kept, EndRefused \/ EndUnstarted \/ EndUnparsed \/ EndUnsubmitted
  PROVE  Kept'
  <1>1. client.open # "end" /\ target \in Surfaces \ Protected
    BY SMTT(40) DEF Kept, TargetFree, EndRefused, EndUnstarted, EndUnparsed, EndUnsubmitted, Ending
  <1>2. /\ \/ surface' = surface
           \/ surface' = Stamped
           \/ surface' = [Stamped EXCEPT ![target].hint = sent.hint]
        /\ device' \in {device, Begun, [Begun EXCEPT !.streaming = FALSE]}
        /\ \E gap, lost : \E time \in {client.time, client.time + 1} :
             client' = [client EXCEPT !.open = "end", !.gap = gap, !.lost = lost, !.time = time]
    BY DEF EndRefused, EndUnstarted, EndUnparsed, EndUnsubmitted, Ends
  <1>3. /\ client'.slots = client.slots /\ client'.open = "end"
        /\ DOMAIN client' = DOMAIN client
        /\ client'.time \in Nat
    BY <1>2 DEF Kept, Shapes
  <1>4. /\ DOMAIN surface' = Surfaces
        /\ \A s \in Surfaces : DOMAIN surface'[s] = DOMAIN surface[s]
        /\ \A s \in Surfaces \ {target} : surface'[s] = surface[s]
    BY <1>1, <1>2 DEF Kept, Shapes, Stamped
  <1>5. /\ DOMAIN device' = DOMAIN device
        /\ device'.held = device.held
    BY <1>2 DEF Kept, Shapes, Begun
  <1>6. Shapes'
    BY <1>3, <1>4, <1>5 DEF Kept, Shapes, SlotIndex
  <1>7. TargetFree'
    BY <1>3 DEF TargetFree
  <1>8. \A q \in Protected : q \in Surfaces /\ q # target
    BY <1>1 DEF Kept, SlotKept, Protected
  <1> QED
    BY <1>3, <1>4, <1>5, <1>6, <1>7, <1>8, KeptApart

\* A slot that is written names the target, whose buffer holds the new picture.
\* The picture of another is still held: AV1's map names every slot.
LEMMA KeptDecoded ==
  ASSUME Kept, NEW synced \in BOOLEAN, EndDecoded(synced)
  PROVE  Kept'
  <1>1. client.open # "end" /\ target \in Surfaces \ Protected
    BY DEF Kept, TargetFree, EndDecoded, Ending
  <1>2. /\ surface' = [Stamped EXCEPT ![target].hint = IF codec = "av1" THEN sent.hint ELSE @]
        /\ device' = [Begun EXCEPT !.sequence = IF SendsSequence THEN sent.sequence ELSE @,
                                   !.held = Held]
    BY DEF EndDecoded
  <1> DEFINE written(i) ==
        IF synced /\ i \in sent.writes
          THEN [id |-> target, picture |-> client.time + 1, hint |-> sent.hint]
        ELSE IF synced /\ HasDpb /\ sent.kind = "key"
          THEN [client.slots[i] EXCEPT !.picture = 0]
        ELSE client.slots[i]
  <1>3. client' = [client EXCEPT
          !.open = "end", !.time = @ + 1, !.gap = StillMisses,
          !.lost = device.streaming /\ @ /\ ~SendsSequence,
          !.slots = [i \in SlotIndex |-> written(i)]]
    BY DEF EndDecoded, Kept, Shapes
  <1>4. /\ client'.slots = [i \in SlotIndex |-> written(i)] /\ client'.open = "end"
        /\ DOMAIN client' = DOMAIN client
        /\ client'.time \in Nat
    BY <1>3 DEF Kept, Shapes
  <1> HIDE DEF written
  <1>5. \A i \in SlotIndex : DOMAIN written(i) = {"id", "picture", "hint"}
    BY DEF written, Kept, Shapes
  <1>6. /\ DOMAIN surface' = Surfaces
        /\ \A s \in Surfaces : DOMAIN surface'[s] = DOMAIN surface[s]
        /\ \A s \in Surfaces \ {target} : surface'[s] = surface[s]
        /\ surface'[target].live = surface[target].live
        /\ surface'[target].stamp = client.time + 1
    BY <1>1, <1>2 DEF Kept, Shapes, Stamped
  <1>7. DOMAIN device' = DOMAIN device /\ device'.held = Held
    BY <1>2 DEF Kept, Shapes, Begun
  <1>8. DOMAIN Held = Surfaces /\ Held[target] = client.time + 1
    BY <1>1 DEF Held
  <1>9. Shapes'
    BY <1>4, <1>5, <1>6, <1>7, <1>8 DEF Kept, Shapes, SlotIndex
  <1>10. TargetFree'
    BY <1>4 DEF TargetFree
  <1>11. ASSUME NEW i \in Readable
         PROVE  Held[client.slots[i].id] = device.held[client.slots[i].id]
    <2> DEFINE s == client.slots[i].id
               map == Av1Map(Stamped, Ids, sent.reads)
    <2>1. /\ s \in Surfaces /\ s # target /\ surface[s].live
          /\ surface[s].stamp = device.held[s]
      BY <1>1 DEF Kept, SlotKept, Protected
    <2>2. i \in SlotIndex /\ Ids[i] = s
      BY DEF Readable, Ids
    <2>3. Stamped[s] = surface[s]
      BY <2>1 DEF Stamped, Kept, Shapes
    <2>4. map[i] = Stamp(Stamped, s)
      BY <2>2 DEF Av1Map, Ids
    <2>5. s # NoSurface
      BY <2>1, PictureParametersAssumption
    <2>6. map[i] = device.held[s]
      BY <2>1, <2>3, <2>4, <2>5 DEF Stamp, Known
    <2> QED
      BY <2>1, <2>2, <2>6 DEF Held
  <1>12. ASSUME NEW i \in Readable'  PROVE SlotKept(i)'
    <2>1. i \in SlotIndex /\ client'.slots[i] = written(i) /\ written(i).picture # 0
      BY <1>4 DEF Readable, SlotIndex
    <2>2. CASE synced /\ i \in sent.writes
      <3>1. client'.slots[i] = [id |-> target, picture |-> client.time + 1, hint |-> sent.hint]
        BY <2>1, <2>2 DEF written
      <3>2. surface[target].live
        BY <1>1 DEF Kept, TargetFree
      <3>3. surface'[target].live
        BY <1>6, <3>2, Zenon
      <3> QED
        BY <1>1, <1>6, <1>7, <1>8, <3>1, <3>3 DEF SlotKept
    <2>3. CASE ~(synced /\ i \in sent.writes)
      <3>1. written(i) = client.slots[i]
        BY <2>1, <2>3 DEF written, Kept, Shapes
      <3>2. i \in Readable
        BY <2>1, <3>1 DEF Readable
      <3>3. client.slots[i].id \in Surfaces /\ client.slots[i].id # target
        BY <1>1, <3>2 DEF Kept, SlotKept, Protected
      <3> QED
        BY <1>6, <1>7, <1>11, <2>1, <3>1, <3>2, <3>3 DEF Kept, SlotKept
    <2> QED
      BY <2>2, <2>3
  <1> QED
    BY <1>9, <1>10, <1>12 DEF Kept

LEMMA KeptNext ==
  ASSUME Kept, ContextNext \/ UNCHANGED <<vars, encodeVars>>
  PROVE  Kept'
  <1>1. CASE UNCHANGED vars
    BY <1>1 DEF vars, Kept, Shapes, TargetFree, SlotKept, Readable, Protected, SlotIndex
  <1>2. ASSUME NEW s \in Surfaces, CreateSurface(s) \/ DestroySurface(s)
        PROVE  Kept'
    BY <1>2, KeptSurfaces
  <1>3. ASSUME NEW s \in Surfaces, BeginPicture(s)
        PROVE  Kept'
    BY <1>3, KeptBegin
  <1>4. CASE NewContext
    BY <1>4, KeptNewContext
  <1>5. ASSUME NEW i \in SlotIndex, Unuse(i)
        PROVE  Kept'
    BY <1>5, KeptUnuse
  <1>6. ASSUME client.open = "begin", NEW p \in Pictures, RenderPicture(p)
        PROVE  Kept'
    BY <1>6, KeptRender
  <1>7. CASE EndRefused \/ EndUnstarted \/ EndUnparsed \/ EndUnsubmitted
    BY <1>7, KeptFailed
  <1>8. ASSUME NEW synced \in BOOLEAN, EndDecoded(synced)
        PROVE  Kept'
    BY <1>8, KeptDecoded
  <1> QED
    BY <1>1, <1>2, <1>3, <1>4, <1>5, <1>6, <1>7, <1>8 DEF ContextNext, Next

\* ReferencesKept for all constants: no buffer that the client's references need
\* is given up, for a new picture, a surface destroyed or AV1's map (fill_frame).
THEOREM PicturesKept == ContextSpec => []ReferencesKept
  <1>1. ContextInit => Kept
    BY KeptInit DEF ContextInit
  <1>2. Kept /\ [ContextNext]_<<vars, encodeVars>> => Kept'
    BY KeptNext
  <1>3. Kept => ReferencesKept
    BY DEF Kept, SlotKept, ReferencesKept
  <1> QED
    BY <1>1, <1>2, <1>3, PTL DEF ContextSpec

-----------------------------------------------------------------------------
(* The state of the stream.                                                *)

Kinds == {"key", "inter", "resilient"}

\* One VP9 state decodes like the other.
Alike(a, b) == a.deltas = b.deltas /\ a.features = b.features

\* A picture once rendered will be filled from the state that its stream means,
\* and until then the context's state is the stream's; but for a gap.  A context
\* that no header initialised has no picture to read, and so comes to a key picture.
Vp9Follows ==
  /\ DOMAIN context.vp9 = {"initialised", "deltas", "features"}
  /\ DOMAIN client.vp9 = {"initialised", "deltas", "features"}
  /\ Readable # {} => context.vp9.initialised = TRUE
  /\ client.open = "render" =>
       /\ sent.kind \in Kinds
       /\ sent.kind = "inter" => Readable # {}
       /\ ~StillMisses => Alike(Vp9Running(context.vp9, sent), client.vp9)
  /\ client.open # "render" /\ ~client.gap /\ context.vp9.initialised = TRUE =>
       Alike(context.vp9, client.vp9)

\* The sequence that the context takes for sent is the one of the device, which
\* streams; but for one that was lost.
SequenceFollows ==
  context.sent = TRUE =>
    /\ device.streaming = TRUE
    /\ ~client.lost => device.sequence = context.sequence

\* The shapes, and what the two codecs with a state follow.
Follows ==
  /\ codec \in Codecs
  /\ DOMAIN context = {"vp9", "sequence", "sent"}
  /\ codec = "vp9" => Vp9Follows
  /\ codec = "av1" => SequenceFollows
  /\ StateFollowsStream

\* What a picture's header makes of two states is alike when they are, or when it
\* resets them (fill_vp9_frame, fill_loop_filter, fill_segmentation).
LEMMA RunningAlike ==
  ASSUME NEW a, NEW b, NEW p, p.kind \in Kinds,
         DOMAIN a = {"initialised", "deltas", "features"},
         DOMAIN b = {"initialised", "deltas", "features"},
         p.kind = "inter" => a.initialised = TRUE /\ Alike(a, b)
  PROVE  Alike(Vp9Running(a, p), StreamState(b, p))
  <1>1. CASE p.kind = "inter"
    BY <1>1 DEF Alike, Vp9Running, StreamState, Kinds
  <1>2. CASE p.kind # "inter"
    BY <1>2 DEF Alike, Vp9Running, StreamState, Kinds, Vp9Reset
  <1> QED
    BY <1>1, <1>2

LEMMA RunningShape ==
  ASSUME NEW a, NEW p, DOMAIN a = {"initialised", "deltas", "features"}
  PROVE  /\ DOMAIN Vp9Running(a, p) = {"initialised", "deltas", "features"}
         /\ DOMAIN StreamState(a, p) = {"initialised", "deltas", "features"}
         /\ Vp9Running(a, p).initialised = TRUE
  BY DEF Vp9Running, StreamState, Vp9Reset

LEMMA FollowsInit == Init => Follows
  BY DEF Init, Follows, Vp9Follows, SequenceFollows, StateFollowsStream, Readable, NewState,
         NewStream, Empty, Vp9Zero, Vp9Reset, Idle

\* The stream's state changes in vaRenderPicture and vaEndPicture alone.
LEMMA FollowsApart ==
  ASSUME Follows, UNCHANGED <<codec, context, sent>>, job' = NoJob,
         device'.streaming = device.streaming, device'.sequence = device.sequence,
         client'.vp9 = client.vp9, client'.gap = client.gap, client'.lost = client.lost,
         Readable' \subseteq Readable,
         \/ client'.open = client.open /\ Readable' = Readable
         \/ client.open # "render" /\ client'.open # "render"
  PROVE  Follows'
  <1>1. StateFollowsStream'
    BY DEF StateFollowsStream
  <1>2. ASSUME codec = "vp9"  PROVE Vp9Follows'
    <2>1. StillMisses' = StillMisses
      BY DEF StillMisses
    <2> QED
      BY <1>2, <2>1 DEF Follows, Vp9Follows
  <1>3. codec = "av1" => SequenceFollows'
    BY DEF Follows, SequenceFollows
  <1> QED
    BY <1>1, <1>2, <1>3 DEF Follows

LEMMA FollowsNewContext ==
  ASSUME Kept, NewContext, Follows
  PROVE  Follows'
  <1>1. /\ context' = NewState /\ job' = NoJob /\ codec' = codec
        /\ client' = [client EXCEPT !.slots = [i \in SlotIndex |-> [@[i] EXCEPT !.picture = 0]],
                                    !.sequence = NoSequence, !.gap = FALSE, !.lost = FALSE]
        /\ client.open = "end"
    BY DEF NewContext
  <1>2. /\ client'.vp9 = client.vp9 /\ client'.open = "end"
        /\ client'.slots = [i \in SlotIndex |-> [client.slots[i] EXCEPT !.picture = 0]]
    BY <1>1 DEF Kept, Shapes
  <1>3. Readable' = {}
    BY <1>2 DEF Kept, Shapes, Readable, SlotIndex
  <1>4. codec = "vp9" => Vp9Follows'
    BY <1>1, <1>2, <1>3 DEF Follows, Vp9Follows, NewState, Vp9Zero
  <1> QED
    BY <1>1, <1>4 DEF Follows, SequenceFollows, StateFollowsStream, NewState

\* A picture that is rendered resets the state or has pictures to read.
LEMMA FollowsRender ==
  ASSUME Kept, Follows, client.open = "begin", NEW p \in Pictures, RenderPicture(p)
  PROVE  Follows'
  <1>1. /\ sent' = p /\ UNCHANGED <<codec, context, device, job>>
        /\ client' = [client EXCEPT !.open = "render", !.sequence = p.sequence,
                                    !.vp9 = IF codec = "vp9" THEN StreamState(@, p) ELSE @]
    BY DEF RenderPicture
  <1>2. /\ client'.slots = client.slots /\ client'.open = "render"
        /\ client'.gap = client.gap /\ client'.lost = client.lost
        /\ client'.vp9 = IF codec = "vp9" THEN StreamState(client.vp9, p) ELSE client.vp9
    BY <1>1 DEF Kept, Shapes
  <1>3. Readable' = Readable
    BY <1>2 DEF Readable, SlotIndex
  <1>4. ASSUME codec = "vp9"  PROVE Vp9Follows'
    <2>1. p.kind \in Kinds /\ (p.kind = "inter" => p.reads \in Readable \X Readable)
      BY <1>4 DEF Pictures, KeyPictures, InterPictures, Only, Reads, Kinds
    <2>2. p.kind = "inter" => Readable # {}
      BY <2>1
    <2>3. StillMisses' <=> client.gap /\ p.kind = "inter"
      BY <1>1, <1>2 DEF StillMisses
    <2>4. ~StillMisses' => Alike(Vp9Running(context.vp9, p), StreamState(client.vp9, p))
      BY <1>4, <2>1, <2>2, <2>3, RunningAlike DEF Follows, Vp9Follows
    <2>5. DOMAIN StreamState(client.vp9, p) = {"initialised", "deltas", "features"}
      BY <1>4, RunningShape DEF Follows, Vp9Follows
    <2> QED
      BY <1>1, <1>2, <1>3, <1>4, <2>1, <2>2, <2>4, <2>5 DEF Follows, Vp9Follows
  <1>5. codec = "av1" => SequenceFollows'
    BY <1>1, <1>2 DEF Follows, SequenceFollows
  <1> QED
    BY <1>1, <1>4, <1>5 DEF Follows, StateFollowsStream

\* What the controls were filled from, once they are (codec's *_set_controls).
LEMMA FilledFollows ==
  ASSUME Follows, client.open = "render"
  PROVE  /\ DOMAIN Filled = {"vp9", "sequence", "sent"}
         /\ codec = "vp9" =>
              /\ DOMAIN Filled.vp9 = {"initialised", "deltas", "features"}
              /\ Filled.vp9.initialised = TRUE
              /\ ~StillMisses => Alike(Filled.vp9, client.vp9)
         /\ codec = "av1" => Filled.sequence = sent.sequence
         /\ codec \notin {"vp9", "av1"} => Filled = context
  <1>1. DOMAIN context = {"vp9", "sequence", "sent"}
    BY DEF Follows
  <1>2. CASE codec = "vp9"
    <2>1. Filled = [context EXCEPT !.vp9 = Vp9Running(@, sent)]
      BY <1>2 DEF Filled
    <2>2. Filled.vp9 = Vp9Running(context.vp9, sent) /\ DOMAIN Filled = DOMAIN context
      BY <1>1, <2>1
    <2> QED
      BY <1>1, <1>2, <2>2, RunningShape, ZenonT(60) DEF Follows, Vp9Follows
  <1>3. CASE codec = "av1"
    BY <1>1, <1>3 DEF Filled
  <1>4. CASE codec \notin {"vp9", "av1"}
    BY <1>1, <1>4 DEF Filled
  <1> QED
    BY <1>2, <1>3, <1>4

\* The device streams, with the picture's sequence if it was set right now.
LEMMA BegunShape ==
  ASSUME Kept
  PROVE  /\ DOMAIN Begun = {"streaming", "sequence", "held"}
         /\ device.streaming => Begun = device
         /\ ~device.streaming => Begun.streaming = TRUE
         /\ ~device.streaming /\ codec # "vp9" => Begun.sequence = sent.sequence
  BY DEF Begun, Kept, Shapes

LEMMA FollowsFailed ==
  ASSUME Kept, Follows, EndRefused \/ EndUnstarted \/ EndUnparsed \/ EndUnsubmitted
  PROVE  Follows'
  <1> DEFINE ends(gap, lost) ==
        /\ job' = NoJob /\ codec' = codec
        /\ client'.slots = client.slots /\ client'.open = "end" /\ client'.vp9 = client.vp9
        /\ client'.gap = gap /\ client'.lost = lost
  <1>1. \/ ends(IF client.open = "render" THEN Misses ELSE client.gap, client.lost)
             /\ context' = context /\ device' = device
        \/ ends(Misses, client.lost) /\ context' = context /\ client.open = "render"
             /\ (device' = device \/ ~device.streaming)
        \/ ends(Misses, device.streaming /\ client.lost) /\ context' = context
             /\ device' = Begun /\ client.open = "render"
        \/ ends(StillMisses, Loses) /\ context' = Filled
             /\ device' = Begun /\ client.open = "render"
    BY ZenonT(60) DEF EndRefused, EndUnstarted, EndUnparsed, EndUnsubmitted, Ends, Ending, Kept, Shapes
  <1> HIDE DEF ends
  <1>2. Readable' = Readable
    BY <1>1 DEF ends, Readable, SlotIndex
  <1>3. StateFollowsStream' /\ codec' = codec
    BY <1>1 DEF ends, StateFollowsStream
  <1>4. ASSUME codec = "vp9"  PROVE Vp9Follows'
    <2>1. CASE context' = context /\ (client.open = "render" => client'.gap = TRUE)
               /\ (client.open # "render" => client'.gap = client.gap)
      BY <1>1, <1>2, <1>4, <2>1 DEF ends, Follows, Vp9Follows
    <2>2. CASE context' = Filled /\ client'.gap = StillMisses /\ client.open = "render"
      <3>1. /\ client'.vp9 = client.vp9 /\ client'.open = "end"
            /\ DOMAIN client.vp9 = {"initialised", "deltas", "features"}
        BY <1>1, <1>4 DEF ends, Follows, Vp9Follows
      <3>2. /\ DOMAIN Filled.vp9 = {"initialised", "deltas", "features"}
            /\ Filled.vp9.initialised = TRUE
            /\ ~StillMisses => Alike(Filled.vp9, client.vp9)
        BY <1>4, <2>2, FilledFollows
      <3> QED
        BY <2>2, <3>1, <3>2 DEF Vp9Follows
    <2> QED
      BY <1>1, <1>4, <2>1, <2>2 DEF ends, Misses
  <1>5. ASSUME codec = "av1"  PROVE SequenceFollows'
    <2>1. context.sent = TRUE =>
            /\ device.streaming = TRUE
            /\ ~client.lost => device.sequence = context.sequence
      BY <1>5 DEF Follows, SequenceFollows
    <2>2. CASE context' = context /\ client'.lost = client.lost
               /\ (device' = device \/ ~device.streaming)
      BY <2>1, <2>2 DEF SequenceFollows
    <2>3. CASE context' = context /\ device' = Begun
               /\ client'.lost = (device.streaming /\ client.lost)
      BY <2>1, <2>3, BegunShape DEF SequenceFollows
    <2>4. CASE context' = Filled /\ device' = Begun /\ client'.lost = Loses
               /\ client.open = "render"
      <3>1. context'.sequence = sent.sequence
        BY <1>5, <2>4, FilledFollows
      <3>2. CASE ~device.streaming
        BY <1>5, <2>4, <3>1, <3>2, BegunShape DEF SequenceFollows
      <3>3. CASE device.streaming /\ SendsSequence
        BY <2>4, <3>3, BegunShape DEF SequenceFollows, Loses
      <3>4. CASE device.streaming /\ ~SendsSequence
        BY <1>5, <2>1, <2>4, <3>1, <3>4, BegunShape DEF SequenceFollows, Loses, SendsSequence
      <3> QED
        BY <3>2, <3>3, <3>4
    <2> QED
      BY <1>1, <2>2, <2>3, <2>4 DEF ends
  <1>6. DOMAIN context' = {"vp9", "sequence", "sent"}
    BY <1>1, FilledFollows DEF Follows
  <1> QED
    BY <1>3, <1>4, <1>5, <1>6 DEF Follows

\* The picture was decoded under what its controls were filled from.
LEMMA FollowsDecoded ==
  ASSUME Kept, Follows, NEW synced \in BOOLEAN, EndDecoded(synced), ~IsEncoder
  PROVE  Follows'
  <1>1. /\ client.open = "render" /\ context' = Filled /\ codec' = codec
        /\ device' = [Begun EXCEPT !.sequence = IF SendsSequence THEN sent.sequence ELSE @,
                                   !.held = Held]
        /\ job'.state = [meant |-> client.vp9, told |-> context'.vp9, missed |-> StillMisses]
        /\ job'.sequence = [meant |-> sent.sequence, told |-> device'.sequence,
                            lost |-> client'.lost]
    BY DEF EndDecoded, Ending
  <1>2. /\ client'.open = "end" /\ client'.vp9 = client.vp9
        /\ client'.gap = StillMisses
        /\ client'.lost = (device.streaming /\ client.lost /\ ~SendsSequence)
    BY DEF EndDecoded, Kept, Shapes
  <1>3. /\ device'.streaming = Begun.streaming
        /\ device'.sequence = IF SendsSequence THEN sent.sequence ELSE Begun.sequence
    BY <1>1, BegunShape
  <1>4. DOMAIN context' = {"vp9", "sequence", "sent"}
    BY <1>1, FilledFollows
  <1>5. ASSUME codec = "vp9"
        PROVE  Vp9Follows' /\ (~StillMisses => Alike(context'.vp9, client.vp9))
    <2>1. /\ DOMAIN context'.vp9 = {"initialised", "deltas", "features"}
          /\ context'.vp9.initialised = TRUE
          /\ ~StillMisses => Alike(context'.vp9, client.vp9)
      BY <1>1, <1>5, FilledFollows
    <2>2. DOMAIN client.vp9 = {"initialised", "deltas", "features"}
      BY <1>5 DEF Follows, Vp9Follows
    <2> QED
      BY <1>2, <2>1, <2>2 DEF Vp9Follows
  <1>6. ASSUME codec # "vp9"
        PROVE  client'.lost \/ device'.sequence = sent.sequence
    <2>1. CASE SendsSequence
      BY <1>3, <2>1
    <2>2. CASE ~device.streaming
      BY <1>3, <1>6, <2>2, BegunShape
    <2>3. CASE ~SendsSequence /\ device.streaming
      <3>1. codec = "av1"
        BY <1>6, <2>3, ContextParametersAssumption DEF Follows, SendsSequence, IsEncoder
      <3>2. context.sent = TRUE /\ context.sequence = sent.sequence
        BY <2>3, <3>1 DEF SendsSequence
      <3>3. client.lost \/ device.sequence = sent.sequence
        BY <3>1, <3>2 DEF Follows, SequenceFollows
      <3> QED
        BY <1>2, <1>3, <2>3, <3>3, BegunShape
    <2> QED
      BY <2>1, <2>2, <2>3
  <1>7. ASSUME codec = "av1"  PROVE SequenceFollows'
    <2>1. device'.streaming = TRUE
      <3>1. CASE device.streaming
        BY <1>3, <3>1, BegunShape DEF Follows, SequenceFollows
      <3> QED
        BY <1>3, <3>1, BegunShape
    <2>2. context'.sequence = sent.sequence
      BY <1>1, <1>7, FilledFollows
    <2> QED
      BY <1>6, <1>7, <2>1, <2>2 DEF SequenceFollows
  <1>8. StateFollowsStream'
    <2>1. CASE codec = "vp9"
      BY <1>1, <1>5, <2>1 DEF StateFollowsStream, Alike
    <2>2. CASE codec # "vp9"
      BY <1>1, <1>6, <2>2 DEF StateFollowsStream
    <2> QED
      BY <2>1, <2>2
  <1> QED
    BY <1>1, <1>4, <1>5, <1>7, <1>8 DEF Follows

LEMMA FollowsNext ==
  ASSUME Kept, Follows, ContextNext \/ UNCHANGED <<vars, encodeVars>>
  PROVE  Follows'
  <1>1. CASE UNCHANGED vars
    <2>1. Readable' = Readable /\ StillMisses' = StillMisses
      BY <1>1 DEF vars, Readable, SlotIndex, StillMisses
    <2> QED
      BY <1>1, <2>1 DEF vars, Follows, Vp9Follows, SequenceFollows, StateFollowsStream
  <1>2. ASSUME NEW s \in Surfaces, CreateSurface(s) \/ DestroySurface(s) \/ BeginPicture(s)
        PROVE  Follows'
    <2>1. /\ UNCHANGED <<codec, context, sent>> /\ job' = NoJob
          /\ device'.streaming = device.streaming /\ device'.sequence = device.sequence
      BY <1>2 DEF CreateSurface, DestroySurface, BeginPicture, Kept, Shapes
    <2>2. /\ client'.vp9 = client.vp9 /\ client'.gap = client.gap /\ client'.lost = client.lost
          /\ client'.slots = client.slots
          /\ \/ client'.open = client.open
             \/ client.open # "render" /\ client'.open # "render"
      BY <1>2 DEF CreateSurface, DestroySurface, BeginPicture, Kept, Shapes
    <2>3. Readable' = Readable
      BY <2>2 DEF Readable, SlotIndex
    <2> QED
      BY <2>1, <2>2, <2>3, FollowsApart
  <1>3. CASE NewContext
    BY <1>3, FollowsNewContext
  <1>4. ASSUME NEW i \in SlotIndex, Unuse(i)
        PROVE  Follows'
    <2>1. /\ UNCHANGED <<codec, context, sent, device>> /\ job' = NoJob
          /\ client' = [client EXCEPT !.slots[i].picture = 0]
          /\ client.open = "end"
      BY <1>4 DEF Unuse
    <2>2. /\ client'.vp9 = client.vp9 /\ client'.gap = client.gap /\ client'.lost = client.lost
          /\ client'.open = client.open
      BY <2>1 DEF Kept, Shapes
    <2>3. Readable' \subseteq Readable
      BY <2>1 DEF Kept, Shapes, Readable, SlotIndex
    <2> QED
      BY <2>1, <2>2, <2>3, FollowsApart
  <1>5. ASSUME client.open = "begin", NEW p \in Pictures, RenderPicture(p)
        PROVE  Follows'
    BY <1>5, FollowsRender
  <1>6. CASE EndRefused \/ EndUnstarted \/ EndUnparsed \/ EndUnsubmitted
    BY <1>6, FollowsFailed
  <1>7. ASSUME NEW synced \in BOOLEAN, EndDecoded(synced), ~IsEncoder
        PROVE  Follows'
    BY <1>7, FollowsDecoded
  <1> QED
    BY <1>1, <1>2, <1>3, <1>4, <1>5, <1>6, <1>7 DEF ContextNext, Next

\* StateFollowsStream for all constants: failed calls, new contexts and whatever
\* kinds of pictures follow each other do not part the context from its stream,
\* but for the updates and the sequence named there (vp9_state, av1_sequence).
THEOREM StateFollows == ContextSpec => []StateFollowsStream
  <1>1. ContextInit => Kept /\ Follows
    BY KeptInit, FollowsInit DEF ContextInit
  <1>2. Kept /\ Follows /\ [ContextNext]_<<vars, encodeVars>> => (Kept /\ Follows)'
    BY KeptNext, FollowsNext
  <1>3. Follows => StateFollowsStream
    BY DEF Follows
  <1> QED
    BY <1>1, <1>2, <1>3, PTL DEF ContextSpec

-----------------------------------------------------------------------------

LEMMA TwoJoined == ASSUME NEW a, NEW b PROVE <<a>> \o <<b>> = <<a, b>>
<1> DEFINE u == <<a>> \o <<b>>
<1>1. <<a>> \in Seq({a, b}) /\ <<b>> \in Seq({a, b})
  OBVIOUS
<1>2. Len(u) = 2 /\ u \in Seq({a, b}) /\ u[1] = a /\ u[2] = b
  BY <1>1
<1> HIDE DEF u
<1>3. u = [k \in 1 .. 2 |-> u[k]]
  BY <1>2
<1>4. u = <<a, b>>
  BY <1>2, <1>3
<1> QED
  BY <1>4 DEF u

-----------------------------------------------------------------------------
(* The references.                                                         *)

\* Of a surface that can be read the driver remembers the order hint it was
\* decoded with, and that it is of this context's session.
SlotMeant(i) ==
  LET s == client.slots[i].id
  IN /\ surface[s].mine = TRUE
     /\ codec = "av1" => surface[s].hint = client.slots[i].hint

TargetMine == client.open # "end" => surface[target].mine = TRUE

\* Only H.264 has a matrix, and that of the picture is the target's.
MatrixMeant ==
  /\ codec # "h264" => \A s \in Surfaces : surface[s].matrix = FlatMatrix
  /\ client.open = "render" => surface[target].matrix = sent.matrix

ReadsReadable == client.open = "render" => sent.reads = << >> \/ sent.reads \in Reads

Meant ==
  /\ codec \in Codecs
  /\ \A i \in Readable : SlotMeant(i)
  /\ TargetMine
  /\ MatrixMeant
  /\ ReadsReadable
  /\ ReferencesAreMeant

LEMMA MeantInit == Init => Meant
  BY DEF Init, Meant, SlotMeant, TargetMine, MatrixMeant, ReadsReadable, ReferencesAreMeant,
         Readable, Fresh, Dead, NewStream, Empty

\* Nothing happens to the surfaces of the slots, of which some may be given up.
LEMMA MeantApart ==
  ASSUME Meant, codec' = codec, Readable' \subseteq Readable,
         \A i \in Readable' : /\ client'.slots[i].id = client.slots[i].id
                              /\ client'.slots[i].hint = client.slots[i].hint,
         \A s \in Protected : /\ surface'[s].mine = surface[s].mine
                              /\ surface'[s].hint = surface[s].hint
  PROVE  \A i \in Readable' : SlotMeant(i)'
  <1> SUFFICES ASSUME NEW i \in Readable'  PROVE SlotMeant(i)'
    OBVIOUS
  <1>1. client.slots[i].id \in Protected /\ SlotMeant(i)
    BY DEF Protected, Meant
  <1> QED
    BY <1>1 DEF SlotMeant

LEMMA MeantSurfaces ==
  ASSUME Kept, Meant, NEW s \in Surfaces, CreateSurface(s) \/ DestroySurface(s)
  PROVE  Meant'
  <1>1. \A q \in Protected : q \in Surfaces /\ surface[q].live
    BY DEF Kept, SlotKept, Protected
  <1>2. s \notin Protected /\ (client.open # "end" => s # target)
    BY <1>1 DEF CreateSurface, DestroySurface, Kept, TargetFree
  <1>3. /\ surface' = [surface EXCEPT ![s] = Fresh] \/ surface' = [surface EXCEPT ![s] = Dead]
        /\ UNCHANGED <<codec, client, target, sent>> /\ job' = NoJob
    BY DEF CreateSurface, DestroySurface
  <1>4. /\ \A q \in Surfaces \ {s} : surface'[q] = surface[q]
        /\ surface'[s].matrix = FlatMatrix
    BY <1>3 DEF Kept, Shapes, Fresh, Dead
  <1>5. Readable' = Readable
    BY <1>3 DEF Readable, SlotIndex
  <1>6. \A i \in Readable' : SlotMeant(i)'
    <2>1. \A q \in Protected : surface'[q] = surface[q]
      BY <1>1, <1>2, <1>4
    <2> QED
      BY <1>3, <1>5, <2>1, MeantApart
  <1>7. client.open # "end" => surface'[target] = surface[target]
    BY <1>2, <1>4 DEF Kept, TargetFree
  <1>8. TargetMine' /\ MatrixMeant'
    BY <1>3, <1>4, <1>7 DEF Meant, TargetMine, MatrixMeant
  <1>9. ReadsReadable' /\ ReferencesAreMeant'
    <2>1. Reads' = Reads
      BY <1>3, <1>5 DEF Reads, AllReadable
    <2> QED
      BY <1>3, <2>1 DEF Meant, ReadsReadable, ReferencesAreMeant
  <1> QED
    BY <1>3, <1>6, <1>8, <1>9 DEF Meant

\* Between pictures: a new context, or a picture that is no longer referred to.
LEMMA MeantBetween ==
  ASSUME Kept, Meant, NewContext \/ \E i \in SlotIndex : Unuse(i)
  PROVE  Meant'
  <1>1. /\ client.open = "end" /\ client'.open = "end" /\ codec' = codec /\ job' = NoJob
    BY DEF NewContext, Unuse, Kept, Shapes
  <1>2. \A s \in Surfaces : surface'[s].matrix = surface[s].matrix
    BY DEF NewContext, Unuse, Kept, Shapes
  <1>3. \A i \in Readable' : SlotMeant(i)'
    <2>1. CASE NewContext
      <3>1. Readable' = {}
        BY <2>1 DEF NewContext, Kept, Shapes, Readable, SlotIndex
      <3> QED
        BY <3>1
    <2>2. ASSUME NEW j \in SlotIndex, Unuse(j)
          PROVE  \A i \in Readable' : SlotMeant(i)'
      <3>1. client' = [client EXCEPT !.slots[j].picture = 0] /\ surface' = surface
        BY <2>2 DEF Unuse
      <3>2. Readable' = Readable \ {j}
        BY <3>1 DEF Kept, Shapes, Readable, SlotIndex
      <3>3. \A i \in Readable' : client'.slots[i] = client.slots[i]
        BY <3>1, <3>2 DEF Kept, Shapes, Readable
      <3> QED
        BY <1>1, <3>1, <3>2, <3>3, MeantApart
    <2> QED
      BY <2>1, <2>2
  <1> QED
    BY <1>1, <1>2, <1>3 DEF Meant, TargetMine, MatrixMeant, ReadsReadable, ReferencesAreMeant

LEMMA MeantBegin ==
  ASSUME Kept, Meant, NEW s \in Surfaces, BeginPicture(s)
  PROVE  Meant'
  <1>1. /\ s \notin Protected
        /\ surface' = [surface EXCEPT ![s] =
             [@ EXCEPT !.mine = TRUE, !.hint = IF codec = "av1" THEN 0 ELSE @]]
        /\ target' = s /\ codec' = codec /\ job' = NoJob
        /\ client'.open = "begin" /\ client'.slots = client.slots
    BY DEF BeginPicture, Kept, Shapes
  <1>2. /\ \A q \in Surfaces \ {s} : surface'[q] = surface[q]
        /\ surface'[s].mine = TRUE /\ surface'[s].matrix = surface[s].matrix
    BY <1>1 DEF Kept, Shapes
  <1>3. Readable' = Readable
    BY <1>1 DEF Readable, SlotIndex
  <1>4. \A i \in Readable' : SlotMeant(i)'
    <2>1. \A q \in Protected : surface'[q] = surface[q]
      BY <1>1, <1>2 DEF Kept, SlotKept, Protected
    <2> QED
      BY <1>1, <1>3, <2>1, MeantApart
  <1>5. MatrixMeant'
    BY <1>1, <1>2 DEF Meant, MatrixMeant
  <1> QED
    BY <1>1, <1>2, <1>4, <1>5 DEF Meant, TargetMine, ReadsReadable, ReferencesAreMeant

LEMMA MeantRender ==
  ASSUME Kept, Meant, client.open = "begin", NEW p \in Pictures, RenderPicture(p)
  PROVE  Meant'
  <1>1. /\ sent' = p /\ UNCHANGED <<codec, target, job>>
        /\ surface' = [surface EXCEPT ![target].matrix = IF p.matrix = FlatMatrix THEN @ ELSE p.matrix]
        /\ client'.open = "render" /\ client'.slots = client.slots
    BY DEF RenderPicture, Kept, Shapes
  <1>2. target \in Surfaces \ Protected
    BY DEF Kept, TargetFree
  <1>3. /\ \A q \in Surfaces \ {target} : surface'[q] = surface[q]
        /\ surface'[target].mine = surface[target].mine
        /\ surface'[target].matrix = IF p.matrix = FlatMatrix THEN surface[target].matrix ELSE p.matrix
    BY <1>1, <1>2 DEF Kept, Shapes
  <1>4. Readable' = Readable
    BY <1>1 DEF Readable, SlotIndex
  <1>5. \A i \in Readable' : SlotMeant(i)'
    <2>1. \A q \in Protected : surface'[q] = surface[q]
      BY <1>2, <1>3 DEF Kept, SlotKept, Protected
    <2> QED
      BY <1>1, <1>4, <2>1, MeantApart
  <1>6. /\ codec # "h264" => p.matrix = FlatMatrix
        /\ codec = "h264" /\ p.matrix = FlatMatrix => surface[target].matrix = FlatMatrix
        /\ p.reads = << >> \/ p.reads \in Reads
    BY DEF Pictures, KeyPictures, InterPictures, Only
  <1>7. MatrixMeant'
    BY <1>1, <1>2, <1>3, <1>6 DEF Meant, MatrixMeant
  <1>8. ReadsReadable'
    <2>1. Reads' = Reads
      BY <1>1, <1>4 DEF Reads, AllReadable
    <2> QED
      BY <1>1, <1>6, <2>1 DEF ReadsReadable
  <1>9. TargetMine' /\ ReferencesAreMeant'
    BY <1>1, <1>3 DEF Meant, TargetMine, ReferencesAreMeant
  <1> QED
    BY <1>1, <1>5, <1>7, <1>8, <1>9 DEF Meant

LEMMA MeantFailed ==
  ASSUME Kept, Meant, EndRefused \/ EndUnstarted \/ EndUnparsed \/ EndUnsubmitted
  PROVE  Meant'
  <1>1. client.open # "end" /\ target \in Surfaces \ Protected
    BY DEF Kept, TargetFree, EndRefused, EndUnstarted, EndUnparsed, EndUnsubmitted, Ending
  <1>2. /\ \/ surface' = surface
           \/ surface' = Stamped
           \/ surface' = [Stamped EXCEPT ![target].hint = sent.hint]
        /\ client'.open = "end" /\ client'.slots = client.slots
        /\ codec' = codec /\ job' = NoJob
    BY DEF EndRefused, EndUnstarted, EndUnparsed, EndUnsubmitted, Ends, Kept, Shapes
  <1>3. /\ \A q \in Surfaces \ {target} : surface'[q] = surface[q]
        /\ surface'[target].matrix = surface[target].matrix
    BY <1>1, <1>2 DEF Kept, Shapes, Stamped
  <1>4. Readable' = Readable
    BY <1>2 DEF Readable, SlotIndex
  <1>5. \A i \in Readable' : SlotMeant(i)'
    <2>1. \A q \in Protected : surface'[q] = surface[q]
      BY <1>1, <1>3 DEF Kept, SlotKept, Protected
    <2> QED
      BY <1>2, <1>4, <2>1, MeantApart
  <1> QED
    BY <1>2, <1>3, <1>5 DEF Meant, TargetMine, MatrixMeant, ReadsReadable, ReferencesAreMeant

\* What the driver tells of a reference that the client may read: its surface is
\* known, and its timestamp is that of a picture that the device holds.
LEMMA ReferenceFound ==
  ASSUME Kept, Meant, client.open = "render", NEW i \in Readable
  PROVE  /\ i \in SlotIndex /\ client.slots[i].picture # 0
         /\ Ids[i] = client.slots[i].id
         /\ Known(surface, Ids[i]) /\ Known(Stamped, Ids[i])
         /\ Stamp(Stamped, Ids[i]) = client.slots[i].picture
         /\ Vp9Stamp(Stamped, Ids[i]) = client.slots[i].picture
         /\ Found(client.slots[i].picture) = client.slots[i].picture
  <1> DEFINE s == client.slots[i].id
  <1>1. i \in SlotIndex /\ client.slots[i].picture # 0 /\ Ids[i] = s
    BY DEF Readable, Ids
  <1>2. /\ s \in Surfaces /\ surface[s].live
        /\ surface[s].stamp = client.slots[i].picture
        /\ device.held[s] = client.slots[i].picture
        /\ s # target
    BY DEF Kept, SlotKept, TargetFree, Protected
  <1>3. surface[s].mine = TRUE
    BY DEF Meant, SlotMeant
  <1>4. Stamped[s] = surface[s]
    BY <1>2 DEF Stamped, Kept, Shapes
  <1>5. s # NoSurface
    BY <1>2, PictureParametersAssumption
  <1>6. Found(client.slots[i].picture) = client.slots[i].picture
    BY <1>2 DEF Found
  <1>7. Known(surface, s) /\ Known(Stamped, s)
    BY <1>2, <1>4, <1>5 DEF Known
  <1>8. Stamp(Stamped, s) = client.slots[i].picture
    BY <1>2, <1>4, <1>7 DEF Stamp
  <1>9. Vp9Stamp(Stamped, s) = client.slots[i].picture
    BY <1>2, <1>3, <1>4, <1>7 DEF Vp9Stamp
  <1> QED
    BY <1>1, <1>6, <1>7, <1>8, <1>9

\* The DPB of H.264 and HEVC: the pictures that can be read, one in each slot, and
\* no register is lost to an empty one (fill_dpb).
LEMMA DpbIsReadable ==
  ASSUME Kept, Meant, client.open = "render"
  PROVE  LET listed == InOrder(Readable)
             packed == Packed(Entries, Stamped)
             dpb == Dpb(Entries, Stamped)
         IN /\ Readable \in SUBSET (1 .. Slots) /\ Slots \in Nat
            /\ DOMAIN packed = DOMAIN listed /\ DOMAIN dpb = DOMAIN listed
            /\ \A k \in DOMAIN listed :
                 /\ packed[k] = Entries[listed[k]]
                 /\ Found(Register(dpb, k)) = client.slots[listed[k]].picture
  <1> DEFINE listed == InOrder(Readable)
             packed == Packed(Entries, Stamped)
             dpb == Dpb(Entries, Stamped)
  <1>1. Readable \in SUBSET (1 .. Slots) /\ Slots \in Nat
    BY PictureParametersAssumption DEF Readable, SlotIndex
  <1>2. /\ Cardinality(Readable) \in Nat
        /\ DOMAIN listed = 1 .. Cardinality(Readable)
        /\ \A k \in DOMAIN listed : listed[k] \in Readable
    BY <1>1, ListedInOrder
  <1>3. /\ DOMAIN Entries = SlotIndex
        /\ \A i \in SlotIndex : /\ Entries[i].id = Ids[i]
                                /\ Entries[i].invalid = (i \notin Readable /\ Known(surface, Ids[i]))
    BY DEF Entries
  <1>4. \A i \in SlotIndex : Known(Stamped, Ids[i]) => Known(surface, Ids[i])
    <2>1. target \in Surfaces
      BY DEF Kept, TargetFree
    <2>2. \A s : Stamped[s].live => surface[s].live
      <3> SUFFICES ASSUME NEW s, Stamped[s].live PROVE surface[s].live
        OBVIOUS
      <3>1. CASE s \in Surfaces
        BY <2>1, <3>1 DEF Stamped, Kept, Shapes
      <3>2. CASE s \notin Surfaces
        BY <2>1, <3>2 DEF Stamped, Kept, Shapes
      <3> QED
        BY <3>1, <3>2
    <2> QED
      BY <2>2 DEF Known
  <1>5. {i \in DOMAIN Entries : ~Entries[i].invalid /\ Known(Stamped, Entries[i].id)} = Readable
    <2>1. ASSUME NEW i \in Readable
          PROVE  i \in SlotIndex /\ ~Entries[i].invalid /\ Known(Stamped, Entries[i].id)
      BY <1>3, ReferenceFound
    <2>2. ASSUME NEW i \in SlotIndex, ~Entries[i].invalid, Known(Stamped, Entries[i].id)
          PROVE  i \in Readable
      BY <1>3, <1>4, <2>2
    <2> QED
      BY <1>3, <2>1, <2>2
  <1>6. packed = [k \in DOMAIN listed |-> Entries[listed[k]]]
    BY <1>5 DEF Packed, Chosen
  <1>7. dpb = [k \in DOMAIN listed |-> Stamp(Stamped, packed[k].id)]
    BY <1>6 DEF Dpb
  <1>8. ASSUME NEW k \in DOMAIN listed
        PROVE  dpb[k] = client.slots[listed[k]].picture /\ dpb[k] # 0
    <2>1. packed[k].id = Ids[listed[k]]
      BY <1>1, <1>2, <1>3, <1>6 DEF SlotIndex
    <2> QED
      BY <1>2, <1>7, <2>1, ReferenceFound
  <1>9. ASSUME NEW k \in DOMAIN listed
        PROVE  Found(Register(dpb, k)) = client.slots[listed[k]].picture
    <2>1. \A j \in 1 .. k : j \in DOMAIN listed
      BY <1>2
    <2>2. \A j \in 1 .. k : dpb[j] # 0
      BY <1>8, <2>1
    <2>3. Register(dpb, k) = dpb[k]
      BY <1>7, <2>2 DEF Register
    <2> QED
      BY <1>2, <1>8, <2>3, ReferenceFound
  <1> QED
    BY <1>1, <1>6, <1>7, <1>9

\* A list of HEVC's current references that holds one picture names its DPB slot;
\* one that holds none is empty.
LEMMA CurrentIsOne ==
  ASSUME Kept, Meant, client.open = "render", NEW use, NEW i \in Readable,
         \A j \in Readable : Entries[j].use = use <=> j = i
  PROVE  /\ Rank(Readable, i) \in DOMAIN InOrder(Readable)
         /\ InOrder(Readable)[Rank(Readable, i)] = i
         /\ Current(Entries, Stamped, use) = <<Rank(Readable, i)>>
  <1> DEFINE listed == InOrder(Readable)
             packed == Packed(Entries, Stamped)
             m == Rank(Readable, i)
  <1>1. /\ Readable \in SUBSET (1 .. Slots) /\ Slots \in Nat
        /\ DOMAIN packed = DOMAIN listed
        /\ \A k \in DOMAIN listed : packed[k] = Entries[listed[k]]
    BY DpbIsReadable
  <1>2. /\ DOMAIN listed = 1 .. Cardinality(Readable) /\ Cardinality(Readable) \in Nat
        /\ \A k \in DOMAIN listed : listed[k] \in Readable /\ Rank(Readable, listed[k]) = k
        /\ m \in DOMAIN listed /\ listed[m] = i
    BY <1>1, ListedInOrder, ZenonT(60)
  <1>3. {slot \in DOMAIN packed : packed[slot].use = use} = {m}
    <2>1. ASSUME NEW k \in DOMAIN listed PROVE packed[k].use = use <=> k = m
      <3>1. packed[k].use = use <=> listed[k] = i
        BY <1>1, <1>2
      <3>2. listed[k] = i <=> k = m
        BY <1>2
      <3> QED
        BY <3>1, <3>2
    <2> QED
      BY <1>1, <1>2, <2>1
  <1>4. m \in Nat \ {0}
    BY <1>2
  <1>5. Current(Entries, Stamped, use) = InOrder({m})
    BY <1>3 DEF Current
  <1> QED
    BY <1>2, <1>4, <1>5, OneInOrder

LEMMA CurrentIsNone ==
  ASSUME Kept, Meant, client.open = "render", NEW use,
         \A j \in Readable : Entries[j].use # use
  PROVE  Current(Entries, Stamped, use) = << >>
  <1> DEFINE listed == InOrder(Readable)
             packed == Packed(Entries, Stamped)
  <1>1. /\ Readable \in SUBSET (1 .. Slots) /\ Slots \in Nat
        /\ DOMAIN packed = DOMAIN listed
        /\ \A k \in DOMAIN listed : packed[k] = Entries[listed[k]]
    BY DpbIsReadable
  <1>2. \A k \in DOMAIN listed : listed[k] \in Readable
    BY <1>1, ListedInOrder
  <1>3. {slot \in DOMAIN packed : packed[slot].use = use} = {}
    BY <1>1, <1>2
  <1> QED
    BY <1>3, NothingInOrder DEF Current

\* The pictures that a client reads, in the order of its list.
Meaning == [k \in DOMAIN sent.reads |-> client.slots[sent.reads[k]].picture]

LEMMA H264Meant ==
  ASSUME Kept, Meant, client.open = "render", codec = "h264", sent.reads # << >>
  PROVE  References = Meaning
  <1> DEFINE dpb == Dpb(Entries, Stamped)
  <1>1. sent.reads = InOrder(Readable)
    BY DEF Meant, ReadsReadable, Reads, AllReadable
  <1>2. References = [k \in DOMAIN dpb |-> Found(Register(dpb, k))]
    BY DEF References
  <1>3. /\ DOMAIN dpb = DOMAIN sent.reads
        /\ \A k \in DOMAIN sent.reads :
             Found(Register(dpb, k)) = client.slots[sent.reads[k]].picture
    BY <1>1, DpbIsReadable
  <1> QED
    BY <1>2, <1>3 DEF Meaning

LEMMA HevcMeant ==
  ASSUME Kept, Meant, client.open = "render", codec = "hevc", sent.reads # << >>
  PROVE  References = Meaning
  <1> DEFINE dpb == Dpb(Entries, Stamped)
             before == Current(Entries, Stamped, "before")
             after  == Current(Entries, Stamped, "after")
             at(i) == Rank(Readable, i)
  <1>1. References = [k \in DOMAIN (before \o after) |-> Found(Register(dpb, (before \o after)[k]))]
    BY DEF References
  <1>2. /\ DOMAIN InOrder(Readable) = DOMAIN dpb
        /\ \A k \in DOMAIN InOrder(Readable) :
             Found(Register(dpb, k)) = client.slots[InOrder(Readable)[k]].picture
    BY DpbIsReadable
  <1>3. \A j \in Readable : Entries[j].use =
          IF sent.reads[1] = j THEN "before"
          ELSE IF Len(sent.reads) = 2 /\ sent.reads[2] = j THEN "after" ELSE "none"
    BY DEF Entries, Readable
  <1>4. \/ \E i \in Readable : sent.reads = <<i>>
        \/ \E i, j \in Readable : i # j /\ sent.reads = <<i, j>>
    BY DEF Meant, ReadsReadable, Reads
  <1> HIDE DEF dpb, before, after
  <1>5. ASSUME NEW i \in Readable, sent.reads = <<i>>
        PROVE  References = Meaning
    <2>1. \A j \in Readable : /\ Entries[j].use = "before" <=> j = i
                              /\ Entries[j].use # "after"
      BY <1>3, <1>5
    <2>2. /\ before = <<at(i)>> /\ at(i) \in DOMAIN InOrder(Readable)
          /\ InOrder(Readable)[at(i)] = i
      BY <2>1, CurrentIsOne DEF before
    <2>3. after = << >>
      BY <2>1, CurrentIsNone DEF after
    <2> HIDE DEF at
    <2>4. before \o after = <<at(i)>>
      BY <2>2, <2>3
    <2>5. References = [k \in 1 .. 1 |-> Found(Register(dpb, at(i)))]
      BY <1>1, <2>4
    <2>6. Meaning = [k \in 1 .. 1 |-> client.slots[i].picture]
      BY <1>5 DEF Meaning
    <2> QED
      BY <1>2, <2>2, <2>5, <2>6
  <1>6. ASSUME NEW i \in Readable, NEW j \in Readable, i # j, sent.reads = <<i, j>>
        PROVE  References = Meaning
    <2>1. \A n \in Readable : /\ Entries[n].use = "before" <=> n = i
                              /\ Entries[n].use = "after" <=> n = j
      BY <1>3, <1>6
    <2>2. /\ before = <<at(i)>> /\ at(i) \in DOMAIN InOrder(Readable)
          /\ InOrder(Readable)[at(i)] = i
      BY <2>1, CurrentIsOne DEF before
    <2>3. /\ after = <<at(j)>> /\ at(j) \in DOMAIN InOrder(Readable)
          /\ InOrder(Readable)[at(j)] = j
      BY <2>1, CurrentIsOne DEF after
    <2> HIDE DEF at
    <2>4. before \o after = <<at(i), at(j)>>
      BY <2>2, <2>3, TwoJoined
    <2>5. References = [k \in 1 .. 2 |-> Found(Register(dpb, <<at(i), at(j)>>[k]))]
      BY <1>1, <2>4
    <2>6. Meaning = [k \in 1 .. 2 |-> client.slots[<<i, j>>[k]].picture]
      BY <1>6 DEF Meaning
    <2>7. /\ Found(Register(dpb, at(i))) = client.slots[i].picture
          /\ Found(Register(dpb, at(j))) = client.slots[j].picture
      BY <1>2, <2>2, <2>3
    <2>8. \A k \in 1 .. 2 : Found(Register(dpb, <<at(i), at(j)>>[k])) = client.slots[<<i, j>>[k]].picture
      BY <2>7
    <2> QED
      BY <2>5, <2>6, <2>8
  <1> QED
    BY <1>4, <1>5, <1>6

LEMMA Vp9AndAv1Meant ==
  ASSUME Kept, Meant, client.open = "render", codec \in {"vp9", "av1"}, sent.reads # << >>
  PROVE  References = Meaning
  <1> DEFINE map == Av1Map(Stamped, Ids, sent.reads)
  <1>1. sent.reads \in Readable \X Readable
    BY DEF Meant, ReadsReadable, Reads
  <1>2. \A k \in DOMAIN sent.reads : sent.reads[k] \in Readable
    BY <1>1
  <1>3. CASE codec = "vp9"
    <2>1. References = [k \in DOMAIN sent.reads |-> Found(Vp9Stamp(Stamped, Ids[sent.reads[k]]))]
      BY <1>3 DEF References
    <2>2. \A k \in DOMAIN sent.reads :
            Found(Vp9Stamp(Stamped, Ids[sent.reads[k]])) = client.slots[sent.reads[k]].picture
      BY <1>2, ReferenceFound
    <2> QED
      BY <2>1, <2>2 DEF Meaning
  <1>4. CASE codec = "av1"
    <2>1. References = [k \in DOMAIN sent.reads |-> Found(map[sent.reads[k]])]
      BY <1>4 DEF References
    <2>2. \A i \in Readable : map[i] = Stamp(Stamped, Ids[i])
      BY ReferenceFound DEF Av1Map, Ids
    <2>3. \A k \in DOMAIN sent.reads : Found(map[sent.reads[k]]) = client.slots[sent.reads[k]].picture
      BY <1>2, <2>2, ReferenceFound
    <2> QED
      BY <2>1, <2>3 DEF Meaning
  <1> QED
    BY <1>3, <1>4

\* The order hints of AV1's references (order_hints).
LEMMA HintsMeant ==
  ASSUME Kept, Meant, client.open = "render", codec = "av1"
  PROVE  Av1Hints(surface, Ids, sent.reads) =
           [k \in DOMAIN sent.reads |-> client.slots[sent.reads[k]].hint]
  <1>1. \A k \in DOMAIN sent.reads : sent.reads[k] \in Readable
    <2>1. sent.reads = << >> \/ sent.reads \in Readable \X Readable
      BY DEF Meant, ReadsReadable, Reads
    <2> QED
      BY <2>1
  <1>2. ASSUME NEW i \in Readable
        PROVE  Known(surface, Ids[i]) /\ surface[Ids[i]].hint = client.slots[i].hint
    BY ReferenceFound DEF Meant, SlotMeant
  <1> QED
    BY <1>1, <1>2 DEF Av1Hints

LEMMA ReferencesMeant ==
  ASSUME Kept, Meant, client.open = "render", ~IsEncoder
  PROVE  References = Meaning
  <1>1. CASE sent.reads = << >>
    <2>1. References = << >>
      BY <1>1 DEF References
    <2>2. Meaning = << >>
      BY <1>1 DEF Meaning
    <2> QED
      BY <2>1, <2>2
  <1>2. CASE sent.reads # << >>
    <2>1. codec \in {"h264", "hevc", "vp9", "av1"}
      BY ContextParametersAssumption DEF Meant, IsEncoder
    <2> QED
      BY <1>2, <2>1, H264Meant, HevcMeant, Vp9AndAv1Meant
  <1> QED
    BY <1>1, <1>2

\* The picture just decoded was told what it meant, and its surface can be read
\* under the id, the hint and the session that the client's slots now name.
LEMMA MeantDecoded ==
  ASSUME Kept, Meant, NEW synced \in BOOLEAN, EndDecoded(synced), ~IsEncoder
  PROVE  Meant'
  <1>1. client.open = "render" /\ target \in Surfaces \ Protected /\ codec' = codec
    BY DEF Kept, TargetFree, EndDecoded, Ending
  <1>2. surface' = [Stamped EXCEPT ![target].hint = IF codec = "av1" THEN sent.hint ELSE @]
    BY DEF EndDecoded
  <1> DEFINE written(i) ==
        IF synced /\ i \in sent.writes
          THEN [id |-> target, picture |-> client.time + 1, hint |-> sent.hint]
        ELSE IF synced /\ HasDpb /\ sent.kind = "key"
          THEN [client.slots[i] EXCEPT !.picture = 0]
        ELSE client.slots[i]
  <1>3. client'.slots = [i \in SlotIndex |-> written(i)] /\ client'.open = "end"
    BY DEF EndDecoded, Kept, Shapes
  <1>4. /\ \A q \in Surfaces \ {target} : surface'[q] = surface[q]
        /\ surface'[target].matrix = surface[target].matrix
        /\ surface'[target].mine = surface[target].mine
        /\ codec = "av1" => surface'[target].hint = sent.hint
    BY <1>1, <1>2 DEF Kept, Shapes, Stamped
  <1>5. ASSUME NEW i \in Readable'  PROVE SlotMeant(i)'
    <2>1. i \in SlotIndex /\ client'.slots[i] = written(i) /\ written(i).picture # 0
      BY <1>3, <1>5 DEF Readable, SlotIndex
    <2>2. CASE synced /\ i \in sent.writes
      <3>1. client'.slots[i] = [id |-> target, picture |-> client.time + 1, hint |-> sent.hint]
        BY <2>1, <2>2
      <3>2. surface[target].mine = TRUE
        BY <1>1 DEF Meant, TargetMine
      <3> QED
        BY <1>1, <1>4, <3>1, <3>2 DEF SlotMeant
    <2>3. CASE ~(synced /\ i \in sent.writes)
      <3>1. written(i) = client.slots[i]
        BY <2>1, <2>3 DEF Kept, Shapes
      <3>2. i \in Readable
        BY <2>1, <3>1 DEF Readable
      <3>3. client.slots[i].id \in Surfaces /\ client.slots[i].id # target
        BY <1>1, <3>2 DEF Kept, SlotKept, Protected
      <3>4. SlotMeant(i)
        BY <3>2 DEF Meant
      <3> QED
        BY <1>1, <1>4, <2>1, <3>1, <3>3, <3>4 DEF SlotMeant
    <2> QED
      BY <2>2, <2>3
  <1>6. ReferencesAreMeant'
    <2>1. /\ job'.meant = [references |-> Meaning,
                          hints |-> IF codec = "av1"
                                      THEN [k \in DOMAIN sent.reads |->
                                              client.slots[sent.reads[k]].hint] ELSE << >>,
                          matrix |-> sent.matrix]
          /\ job'.told = [references |-> References,
                          hints |-> IF codec = "av1" THEN Av1Hints(surface, Ids, sent.reads)
                                                     ELSE << >>,
                          matrix |-> surface[target].matrix]
      BY DEF EndDecoded, Meaning
    <2>2. References = Meaning
      BY <1>1, ReferencesMeant
    <2>3. surface[target].matrix = sent.matrix
      BY <1>1 DEF Meant, MatrixMeant
    <2>4. codec = "av1" => Av1Hints(surface, Ids, sent.reads) =
                             [k \in DOMAIN sent.reads |-> client.slots[sent.reads[k]].hint]
      BY <1>1, HintsMeant
    <2> QED
      BY <2>1, <2>2, <2>3, <2>4 DEF ReferencesAreMeant
  <1>7. MatrixMeant'
    BY <1>1, <1>3, <1>4 DEF Meant, MatrixMeant
  <1> QED
    BY <1>1, <1>3, <1>5, <1>6, <1>7 DEF Meant, TargetMine, ReadsReadable

LEMMA MeantNext ==
  ASSUME Kept, Meant, ContextNext \/ UNCHANGED <<vars, encodeVars>>
  PROVE  Meant'
  <1>1. CASE UNCHANGED vars
    <2>1. Readable' = Readable
      BY <1>1 DEF vars, Readable, SlotIndex
    <2>2. Reads' = Reads
      BY <1>1, <2>1 DEF vars, Reads, AllReadable
    <2> QED
      BY <1>1, <2>1, <2>2 DEF vars, Meant, SlotMeant, TargetMine, MatrixMeant, ReadsReadable,
                              ReferencesAreMeant
  <1>2. ASSUME NEW s \in Surfaces, CreateSurface(s) \/ DestroySurface(s)
        PROVE  Meant'
    BY <1>2, MeantSurfaces
  <1>3. ASSUME NEW s \in Surfaces, BeginPicture(s)
        PROVE  Meant'
    BY <1>3, MeantBegin
  <1>4. CASE NewContext \/ \E i \in SlotIndex : Unuse(i)
    BY <1>4, MeantBetween
  <1>5. ASSUME client.open = "begin", NEW p \in Pictures, RenderPicture(p)
        PROVE  Meant'
    BY <1>5, MeantRender
  <1>6. CASE EndRefused \/ EndUnstarted \/ EndUnparsed \/ EndUnsubmitted
    BY <1>6, MeantFailed
  <1>7. ASSUME NEW synced \in BOOLEAN, EndDecoded(synced), ~IsEncoder
        PROVE  Meant'
    BY <1>7, MeantDecoded
  <1> QED
    BY <1>1, <1>2, <1>3, <1>4, <1>5, <1>6, <1>7 DEF ContextNext, Next

\* ReferencesAreMeant for all constants: whatever surfaces were created, destroyed
\* or decoded into in between and whatever calls failed, each reference comes to the
\* picture that the stream means (fill_dpb, ref_timestamp_for, fill_frame).
THEOREM ReferencesMeanPictures == ContextSpec => []ReferencesAreMeant
  <1>1. ContextInit => Kept /\ Meant
    BY KeptInit, MeantInit DEF ContextInit
  <1>2. Kept /\ Meant /\ [ContextNext]_<<vars, encodeVars>> => (Kept /\ Meant)'
    BY KeptNext, MeantNext
  <1>3. Meant => ReferencesAreMeant
    BY DEF Meant
  <1> QED
    BY <1>1, <1>2, <1>3, PTL DEF ContextSpec

-----------------------------------------------------------------------------
(* The packed headers.                                                     *)

Smaller(a, b) == IF a <= b THEN a ELSE b

LEMMA MinIsSmaller ==
  ASSUME NEW a \in Int, NEW b \in Int
  PROVE  Min({a, b}) = Smaller(a, b)
  <1>1. Min({a, b}) = CHOOSE x \in {a, b} : \A y \in {a, b} : x <= y
    BY DEF Min
  <1>2. /\ Smaller(a, b) \in {a, b} /\ \A y \in {a, b} : Smaller(a, b) <= y
        /\ \A x \in {a, b} : (\A y \in {a, b} : x <= y) => x = Smaller(a, b)
    BY DEF Smaller
  <1> QED
    BY <1>1, <1>2

\* The pairs as the client sends them: only the last can wait for its data.
Waiting(q) == q # << >> /\ Len(q[Len(q)]) # 2

Shaped(q) ==
  /\ q \in Seq(Seq(Buffers))
  /\ \A k \in 1 .. Len(q) : /\ Len(q[k]) \in {1, 2}
                            /\ k < Len(q) => Len(q[k]) = 2

Answered(q) == IF Waiting(q) THEN Len(q) - 1 ELSE Len(q)

SentOf(q) == IF q = << >> \/ Complete(Last(q)) THEN q ELSE Front(q)

LEMMA SentFacts ==
  ASSUME NEW q, Shaped(q)
  PROVE  /\ Answered(q) \in Nat
         /\ SentOf(q) \in Seq(Seq(Buffers)) /\ Len(SentOf(q)) = Answered(q)
         /\ \A k \in 1 .. Answered(q) : SentOf(q)[k] = q[k] /\ Len(q[k]) = 2
  <1>1. q \in Seq(Seq(Buffers)) /\ Len(q) \in Nat /\ (q # << >> => Len(q) >= 1)
    BY DEF Shaped
  <1>2. CASE ~Waiting(q)
    <2>1. SentOf(q) = q /\ Answered(q) = Len(q)
      BY <1>2 DEF Waiting, SentOf, Answered, Complete, Last
    <2>2. \A k \in 1 .. Len(q) : Len(q[k]) = 2
      <3> SUFFICES ASSUME NEW k \in 1 .. Len(q) PROVE Len(q[k]) = 2
        OBVIOUS
      <3>1. CASE k = Len(q)
        BY <1>1, <1>2, <3>1 DEF Waiting
      <3>2. CASE k < Len(q)
        BY <3>2 DEF Shaped
      <3> QED
        BY <1>1, <3>1, <3>2
    <2> QED
      BY <1>1, <2>1, <2>2
  <1>3. CASE Waiting(q)
    <2>1. SentOf(q) = SubSeq(q, 1, Len(q) - 1) /\ Answered(q) = Len(q) - 1 /\ Len(q) >= 1
      BY <1>1, <1>3 DEF Waiting, SentOf, Answered, Complete, Last, Front
    <2>2. /\ SubSeq(q, 1, Len(q) - 1) \in Seq(Seq(Buffers))
          /\ Len(SubSeq(q, 1, Len(q) - 1)) = Len(q) - 1
          /\ \A k \in 1 .. Len(q) - 1 : SubSeq(q, 1, Len(q) - 1)[k] = q[k]
      <3>1. \A k \in 1 .. Len(q) - 1 : q[k] \in Seq(Buffers)
        BY <1>1
      <3> DEFINE z == Len(q) - 1
                 f == SubSeq(q, 1, z)
      <3>2. z \in Nat
        BY <1>1, <2>1
      <3>m. \A k \in 1 .. z : q[k] \in Seq(Buffers)
        BY <3>1
      <3> HIDE DEF z
      <3>3. /\ f \in Seq(Seq(Buffers))
            /\ Len(f) = IF 1 <= z THEN z - 1 + 1 ELSE 0
            /\ \A k \in 1 .. z - 1 + 1 : f[k] = q[1 + k - 1]
        BY <3>m, <3>2, SubSeqProperties
      <3> HIDE DEF f
      <3>4. Len(f) = z
        BY <3>2, <3>3
      <3>5. \A k \in 1 .. z : f[k] = q[k]
        <4> SUFFICES ASSUME NEW k \in 1 .. z PROVE f[k] = q[k]
          OBVIOUS
        <4>1. k \in 1 .. z - 1 + 1 /\ 1 + k - 1 = k
          BY <3>2
        <4> QED
          BY <3>3, <4>1
      <3> QED
        BY <3>3, <3>4, <3>5 DEF z, f
    <2>3. \A k \in 1 .. Len(q) - 1 : Len(q[k]) = 2
      BY <1>1 DEF Shaped
    <2> QED
      BY <1>1, <2>1, <2>2, <2>3
  <1> QED
    BY <1>2, <1>3

\* What is collected is the first MaxPacked of them, and what waits is the last.
Headers == {Header(a, b) : a \in Buffers, b \in Buffers}

Listed(packed, q) ==
  /\ packed \in Seq(Headers)
  /\ Len(packed) = Smaller(Answered(q), MaxPacked)
  /\ \A k \in 1 .. Len(packed) : packed[k] = Header(q[k][1], q[k][2])

Awaited(q) == IF Waiting(q) THEN q[Len(q)][1] ELSE None

HasHeaders(p) == "packed" \in DOMAIN p /\ "pending" \in DOMAIN p

Collected(p, q) ==
  HasHeaders(p) /\ Shaped(q) /\ p.pending = Awaited(q) /\ Listed(p.packed, q)

HeadersCollected ==
  /\ params # None => coded = None /\ Collected(params, pairs)
  /\ HeadersGoFirst

LEMMA HeadersReset == Collected(Reset, << >>)
  <1>1. /\ Shaped(<< >>) /\ ~Waiting(<< >>) /\ Answered(<< >>) = 0
    BY DEF Shaped, Waiting, Answered
  <1>2. Smaller(0, MaxPacked) = 0
    BY EncodeParametersAssumption DEF Smaller
  <1>3. Listed(<< >>, << >>)
    BY <1>1, <1>2 DEF Listed
  <1>4. Awaited(<< >>) = None
    BY <1>1 DEF Awaited
  <1>5. HasHeaders(Reset) /\ Reset.packed = << >> /\ Reset.pending = None
    BY DEF HasHeaders, Reset
  <1> QED
    BY <1>1, <1>3, <1>4, <1>5 DEF Collected

\* Parameters of a header are announced: those that still wait are given up.
LEMMA HeadersAnnounced ==
  ASSUME NEW p, NEW q, Collected(p, q), NEW b \in Buffers
  PROVE  Collected([p EXCEPT !.pending = b], Append(SentOf(q), <<b>>))
  <1> DEFINE s == SentOf(q)
             r == Append(s, <<b>>)
             p1 == [p EXCEPT !.pending = b]
             n == Answered(q)
  <1>0. HasHeaders(p) /\ Shaped(q) /\ Listed(p.packed, q)
    BY DEF Collected
  <1>1. /\ n \in Nat /\ s \in Seq(Seq(Buffers)) /\ Len(s) = n
        /\ \A k \in 1 .. n : s[k] = q[k] /\ Len(q[k]) = 2
    BY <1>0, SentFacts
  <1>2. <<b>> \in Seq(Buffers) /\ Len(<<b>>) = 1 /\ <<b>>[1] = b
    OBVIOUS
  <1> HIDE DEF n, s
  <1>3. /\ r \in Seq(Seq(Buffers)) /\ Len(r) = n + 1 /\ r # << >>
        /\ r[n + 1] = <<b>>
        /\ \A k \in 1 .. n : r[k] = q[k]
    <2>1. /\ r \in Seq(Seq(Buffers)) /\ r # << >> /\ Len(r) = Len(s) + 1
          /\ \A k \in 1 .. Len(s) : r[k] = s[k]
          /\ r[Len(s) + 1] = <<b>>
      BY <1>1, <1>2, AppendProperties
    <2> HIDE DEF r
    <2> QED
      BY <1>1, <2>1
  <1> HIDE DEF r
  <1>4. Waiting(r) /\ Answered(r) = n /\ Awaited(r) = b
    <2>1. Waiting(r)
      BY <1>2, <1>3 DEF Waiting
    <2> QED
      BY <1>1, <1>2, <1>3, <2>1 DEF Answered, Awaited
  <1>5. Shaped(r)
    <2> SUFFICES ASSUME NEW k \in 1 .. n + 1
                 PROVE  Len(r[k]) \in {1, 2} /\ (k < n + 1 => Len(r[k]) = 2)
      BY <1>3 DEF Shaped
    <2>1. CASE k = n + 1
      <3>1. Len(r[k]) = 1
        BY <1>2, <1>3, <2>1
      <3> QED
        BY <1>1, <2>1, <3>1
    <2>2. CASE k # n + 1
      <3>1. k \in 1 .. n
        BY <1>1, <2>2
      <3>2. Len(r[k]) = 2
        BY <1>1, <1>3, <3>1
      <3> QED
        BY <3>2
    <2> QED
      BY <2>1, <2>2
  <1>6. HasHeaders(p1) /\ p1.pending = b /\ p1.packed = p.packed
    BY <1>0 DEF HasHeaders
  <1> HIDE DEF p1
  <1>7. Listed(p.packed, r)
    <2>1. /\ p.packed \in Seq(Headers) /\ Len(p.packed) = Smaller(n, MaxPacked)
          /\ \A k \in 1 .. Len(p.packed) : p.packed[k] = Header(q[k][1], q[k][2])
      BY <1>0 DEF Listed, n
    <2>2. \A k \in 1 .. Smaller(n, MaxPacked) : k \in 1 .. n
      BY <1>1, EncodeParametersAssumption DEF Smaller
    <2>3. \A k \in 1 .. Len(p.packed) : p.packed[k] = Header(r[k][1], r[k][2])
      BY <1>3, <2>1, <2>2
    <2> QED
      BY <1>4, <2>1, <2>3 DEF Listed
  <1>8. Collected(p1, r)
    BY <1>4, <1>5, <1>6, <1>7 DEF Collected
  <1> QED
    BY <1>8 DEF p1, r, s

\* The data of a header comes, for the parameters that wait.
LEMMA HeadersAnswered ==
  ASSUME NEW p, NEW q, Collected(p, q), NEW b \in Buffers, b.type = "packed_data"
  PROVE  Collected(CollectPacked(p, b),
                   [k \in DOMAIN q |-> IF Complete(q[k]) THEN q[k] ELSE <<q[k][1], b>>])
  <1> DEFINE r == [k \in DOMAIN q |-> IF Complete(q[k]) THEN q[k] ELSE <<q[k][1], b>>]
             m == Len(q)
  <1>0. HasHeaders(p) /\ Shaped(q) /\ p.pending = Awaited(q) /\ Listed(p.packed, q)
    BY DEF Collected
  <1>1. q \in Seq(Seq(Buffers)) /\ m \in Nat /\ DOMAIN q = 1 .. m
    BY <1>0 DEF Shaped
  <1>2. \A k \in 1 .. m : q[k] \in Seq(Buffers) /\ (k < m => Complete(q[k]))
    BY <1>0, <1>1 DEF Shaped, Complete
  <1>m. m = Len(q)
    OBVIOUS
  <1> HIDE DEF m
  <1>3. CASE ~Waiting(q)
    <2>1. ASSUME NEW k \in 1 .. m PROVE Complete(q[k])
      <3>1. CASE k = m
        <4>1. q # << >>
          BY <1>1, <1>m, <3>1
        <4> QED
          BY <1>m, <1>3, <3>1, <4>1 DEF Waiting, Complete
      <3>2. CASE k # m
        BY <1>1, <1>2, <3>2
      <3> QED
        BY <3>1, <3>2
    <2>2. r = [k \in DOMAIN q |-> q[k]]
      BY <1>1, <2>1
    <2>3. [k \in DOMAIN q |-> q[k]] = q
      BY <1>1
    <2>4. p.pending = None
      BY <1>0, <1>3 DEF Awaited
    <2>5. CollectPacked(p, b) = p
      BY <2>4 DEF CollectPacked
    <2> QED
      BY <2>2, <2>3, <2>5
  <1>4. CASE Waiting(q)
    <2> DEFINE a == q[m][1]
               h == Header(a, b)
    <2>1. q # << >> /\ ~Complete(q[m]) /\ p.pending = a
      BY <1>m, <1>0, <1>4 DEF Waiting, Complete, Awaited
    <2>2. m \in 1 .. m /\ m >= 1
      BY <1>1, <1>m, <2>1
    <2>3. Len(q[m]) = 1
      BY <1>m, <1>0, <2>1, <2>2 DEF Shaped, Complete
    <2>4. a \in Buffers /\ a # None
      <3>1. q[m] \in Seq(Buffers)
        BY <1>2, <2>2
      <3>2. a \in Buffers
        BY <2>3, <3>1
      <3> QED
        BY <3>2, BuffersAssumption
    <2>5. r[m] = <<a, b>>
      BY <1>1, <2>1, <2>2
    <2> HIDE DEF a, h
    <2>6. <<a, b>> \in Seq(Buffers) /\ Len(<<a, b>>) = 2 /\ <<a, b>>[1] = a /\ <<a, b>>[2] = b
      BY <2>4
    <2>7. \A k \in 1 .. m : k < m => r[k] = q[k]
      BY <1>1, <1>2
    <2>8. \A k \in 1 .. m : r[k] \in Seq(Buffers) /\ Len(r[k]) = 2
      <3> SUFFICES ASSUME NEW k \in 1 .. m PROVE r[k] \in Seq(Buffers) /\ Len(r[k]) = 2
        OBVIOUS
      <3>1. CASE k = m
        BY <2>5, <2>6, <3>1
      <3>2. CASE k # m
        <4>1. r[k] = q[k] /\ q[k] \in Seq(Buffers) /\ Complete(q[k])
          BY <1>1, <1>2, <2>7, <3>2
        <4> QED
          BY <4>1 DEF Complete
      <3> QED
        BY <3>1, <3>2
    <2>9. r \in Seq(Seq(Buffers)) /\ Len(r) = m
      <3>1. r \in [1 .. m -> Seq(Buffers)]
        BY <1>1, <2>8
      <3> HIDE DEF r
      <3> QED
        BY <1>1, <3>1
    <2> HIDE DEF r
    <2>10. ~Waiting(r) /\ Answered(r) = m /\ Awaited(r) = None /\ Answered(q) = m - 1
      <3>1. ~Waiting(r)
        BY <2>2, <2>8, <2>9 DEF Waiting
      <3> QED
        BY <1>m, <1>4, <2>9, <3>1 DEF Answered, Awaited
    <2>11. Shaped(r)
      BY <2>8, <2>9 DEF Shaped
    <2> DEFINE w == IF Len(p.packed) < MaxPacked THEN Append(p.packed, h) ELSE p.packed
               p1 == [p EXCEPT !.pending = None, !.packed = w]
    <2>12. CollectPacked(p, b) = p1
      BY <2>1, <2>4 DEF CollectPacked, h
    <2>13. HasHeaders(p1) /\ p1.pending = None /\ p1.packed = w
      BY <1>0 DEF HasHeaders
    <2>14. /\ p.packed \in Seq(Headers) /\ Len(p.packed) = Smaller(m - 1, MaxPacked)
           /\ \A k \in 1 .. Len(p.packed) : p.packed[k] = Header(q[k][1], q[k][2])
      BY <1>0, <2>10 DEF Listed
    <2>15. h \in Headers
      BY <2>4 DEF Headers, h
    <2>16. \A k \in 1 .. m - 1 : Header(r[k][1], r[k][2]) = Header(q[k][1], q[k][2])
      <3> SUFFICES ASSUME NEW k \in 1 .. m - 1 PROVE r[k] = q[k]
        OBVIOUS
      <3>1. k \in 1 .. m /\ k < m
        BY <1>1
      <3> QED
        BY <2>7, <3>1
    <2>17. Listed(w, r)
      <3>1. CASE Len(p.packed) < MaxPacked
        <4>1. Len(p.packed) = m - 1 /\ Smaller(m, MaxPacked) = m
          <5>1. m \in Nat /\ MaxPacked \in Nat /\ Smaller(m - 1, MaxPacked) < MaxPacked
            BY <1>1, <2>14, <3>1, EncodeParametersAssumption
          <5>2. Smaller(m - 1, MaxPacked) = m - 1 /\ Smaller(m, MaxPacked) = m
            BY <5>1 DEF Smaller
          <5> QED
            BY <2>14, <5>2
        <4>2. /\ w \in Seq(Headers) /\ Len(w) = m /\ w[m] = h
              /\ \A k \in 1 .. m - 1 : w[k] = p.packed[k]
          <5>1. w = Append(p.packed, h) /\ (m - 1) + 1 = m
            BY <1>1, <3>1
          <5> QED
            BY <2>14, <2>15, <4>1, <5>1, AppendProperties
        <4> HIDE DEF w
        <4>3. h = Header(r[m][1], r[m][2])
          BY <2>5, <2>6 DEF h
        <4>4. ASSUME NEW k \in 1 .. m PROVE w[k] = Header(r[k][1], r[k][2])
          <5>1. CASE k = m
            BY <4>2, <4>3, <5>1
          <5>2. CASE k # m
            <6>1. k \in 1 .. m - 1
              BY <1>1, <5>2
            <6> QED
              BY <2>14, <2>16, <4>1, <4>2, <6>1
          <5> QED
            BY <5>1, <5>2
        <4> QED
          BY <2>10, <4>1, <4>2, <4>4 DEF Listed
      <3>2. CASE ~(Len(p.packed) < MaxPacked)
        <4>1. /\ Len(p.packed) = MaxPacked
              /\ Smaller(m, MaxPacked) = MaxPacked /\ MaxPacked <= m - 1
          <5>1. /\ m \in Nat /\ m >= 1 /\ MaxPacked \in Nat
                /\ ~(Smaller(m - 1, MaxPacked) < MaxPacked)
            BY <1>1, <2>2, <2>14, <3>2, EncodeParametersAssumption
          <5>2. /\ Smaller(m - 1, MaxPacked) = MaxPacked
                /\ Smaller(m, MaxPacked) = MaxPacked /\ MaxPacked <= m - 1
            BY <5>1 DEF Smaller
          <5> QED
            BY <2>14, <5>2
        <4>2. \A k \in 1 .. MaxPacked : k \in 1 .. m - 1
          BY <1>1, <4>1, EncodeParametersAssumption
        <4>3. \A k \in 1 .. MaxPacked : p.packed[k] = Header(r[k][1], r[k][2])
          BY <2>14, <2>16, <4>1, <4>2
        <4>4. w = p.packed
          BY <3>2
        <4> HIDE DEF w
        <4> QED
          BY <2>10, <2>14, <4>1, <4>3, <4>4 DEF Listed
      <3> QED
        BY <3>1, <3>2
    <2> HIDE DEF w, p1
    <2>18. Collected(p1, r)
      BY <2>10, <2>11, <2>13, <2>17 DEF Collected
    <2> QED
      BY <2>12, <2>18 DEF r
  <1> QED
    BY <1>3, <1>4

LEMMA HeadersRendered ==
  ASSUME HeadersCollected, NEW b \in Buffers, EncodeRender(b)
  PROVE  HeadersCollected'
  <1>1. /\ params # None /\ coded = None /\ coded' = None /\ Collected(params, pairs)
        /\ params' = Collect(params, b)
    BY DEF HeadersCollected, EncodeRender
  <1>2. Collected(params', pairs')
    <2>1. CASE b.short
      BY <1>1, <2>1 DEF EncodeRender, Collect
    <2>2. CASE ~b.short /\ b.type \in {"sequence", "picture", "slice"}
      <3>1. params' = [params EXCEPT ![b.type] = b.value] /\ pairs' = pairs
        BY <1>1, <2>2 DEF EncodeRender, Collect
      <3>2. HasHeaders(params)
        BY <1>1 DEF Collected
      <3>3. /\ HasHeaders(params')
            /\ params'.packed = params.packed /\ params'.pending = params.pending
        BY <2>2, <3>1, <3>2 DEF HasHeaders
      <3> QED
        BY <1>1, <3>1, <3>3 DEF Collected
    <2>3. CASE ~b.short /\ b.type \in {"rate_control", "frame_rate"}
      <3>1. params' = CollectMisc(params, b) /\ pairs' = pairs
        BY <1>1, <2>3 DEF EncodeRender, Collect
      <3>2. HasHeaders(params)
        BY <1>1 DEF Collected
      <3>3. /\ HasHeaders(params')
            /\ params'.packed = params.packed /\ params'.pending = params.pending
        BY <3>1, <3>2 DEF HasHeaders, CollectMisc
      <3> QED
        BY <1>1, <3>1, <3>3 DEF Collected
    <2>4. CASE ~b.short /\ b.type = "packed"
      <3>1. params' = [params EXCEPT !.pending = b] /\ pairs' = Append(SentOf(pairs), <<b>>)
        BY <1>1, <2>4 DEF EncodeRender, Collect, CollectPacked, Sent, SentOf
      <3> QED
        BY <1>1, <3>1, HeadersAnnounced
    <2>5. CASE ~b.short /\ b.type = "packed_data"
      <3>1. /\ params' = CollectPacked(params, b)
            /\ pairs' = [k \in DOMAIN pairs |->
                           IF Complete(pairs[k]) THEN pairs[k] ELSE <<pairs[k][1], b>>]
        BY <1>1, <2>5 DEF EncodeRender, Collect
      <3> QED
        BY <1>1, <2>5, <3>1, HeadersAnswered
    <2> QED
      BY <2>1, <2>2, <2>3, <2>4, <2>5, BuffersAssumption
  <1> QED
    BY <1>1, <1>2 DEF HeadersCollected, HeadersGoFirst

LEMMA HeaderFields ==
  ASSUME NEW a, NEW b
  PROVE  /\ Header(a, b).raw = a.raw /\ Header(a, b).bits = a.bits
         /\ Header(a, b).data = b.data /\ Header(a, b).size = b.size
  BY SMTT(40) DEF Header

\* The raw headers are picked from what was collected at the positions at which
\* the client's are raw.
LEMMA HeadersWritten ==
  ASSUME NEW p, Collected(p, pairs)
  PROVE  LET kept == 1 .. Min({Len(Sent), MaxPacked})
             raw  == Chosen(Sent, {k \in kept : Sent[k][1].raw})
         IN Written(p.packed) =
              [k \in DOMAIN raw |->
                 <<raw[k][2].data, Min({(raw[k][1].bits + 7) \div 8, raw[k][2].size})>>]
  <1> DEFINE n == Min({Len(Sent), MaxPacked})
             at == {k \in 1 .. n : Sent[k][1].raw}
             raw == Chosen(Sent, at)
             own == Chosen(p.packed, at)
  <1>1. /\ Len(Sent) \in Nat /\ Len(Sent) = Answered(pairs)
        /\ \A k \in 1 .. Len(Sent) : Sent[k] = pairs[k]
    <2>1. Shaped(pairs) /\ Sent = SentOf(pairs)
      BY DEF Collected, Sent, SentOf
    <2> QED
      BY <2>1, SentFacts
  <1>2. /\ n \in Nat /\ n = Len(p.packed) /\ n <= Len(Sent)
    <2>1. n = Smaller(Len(Sent), MaxPacked)
      BY <1>1, MinIsSmaller, EncodeParametersAssumption
    <2> QED
      BY <1>1, <2>1, EncodeParametersAssumption DEF Collected, Listed, Smaller
  <1> HIDE DEF n
  <1>3. \A k \in 1 .. n : p.packed[k] = Header(Sent[k][1], Sent[k][2])
    <2>1. \A k \in 1 .. n : k \in 1 .. Len(Sent)
      BY <1>1, <1>2
    <2>2. \A k \in 1 .. n : p.packed[k] = Header(pairs[k][1], pairs[k][2])
      BY <1>2 DEF Collected, Listed
    <2> QED
      BY <1>1, <2>1, <2>2
  <1>4. DOMAIN p.packed = 1 .. n
    BY <1>2 DEF Collected, Listed
  <1>5. {k \in DOMAIN p.packed : p.packed[k].raw} = at
    <2>1. ASSUME NEW k \in 1 .. n PROVE p.packed[k].raw = Sent[k][1].raw
      <3>1. p.packed[k] = Header(Sent[k][1], Sent[k][2])
        BY <1>3
      <3> QED
        BY <3>1, HeaderFields
    <2> QED
      BY <1>4, <2>1, Zenon
  <1>6. at \in SUBSET (1 .. n)
    OBVIOUS
  <1> HIDE DEF at
  <1>7. \A k \in DOMAIN InOrder(at) : InOrder(at)[k] \in 1 .. n
    BY <1>2, <1>6, ListedInOrder, ZenonT(60)
  <1>8. /\ DOMAIN own = DOMAIN InOrder(at) /\ DOMAIN raw = DOMAIN InOrder(at)
        /\ \A k \in DOMAIN InOrder(at) : /\ own[k] = p.packed[InOrder(at)[k]]
                                         /\ raw[k] = Sent[InOrder(at)[k]]
    BY DEF Chosen
  <1>9. Written(p.packed) = [k \in DOMAIN own |-> <<own[k].data, Bytes(own[k])>>]
    BY <1>5 DEF Written
  <1> HIDE DEF own, raw
  <1>10. \A k \in DOMAIN InOrder(at) :
           /\ own[k].data = raw[k][2].data
           /\ own[k].bits = raw[k][1].bits
           /\ own[k].size = raw[k][2].size
    <2> SUFFICES ASSUME NEW k \in DOMAIN InOrder(at)
                 PROVE  /\ own[k].data = raw[k][2].data
                        /\ own[k].bits = raw[k][1].bits
                        /\ own[k].size = raw[k][2].size
      OBVIOUS
    <2>1. own[k] = Header(raw[k][1], raw[k][2])
      BY <1>3, <1>7, <1>8
    <2> QED
      BY <2>1, HeaderFields
  <1>11. \A k \in DOMAIN InOrder(at) :
           <<own[k].data, Bytes(own[k])>> =
             <<raw[k][2].data, Min({(raw[k][1].bits + 7) \div 8, raw[k][2].size})>>
    BY <1>10 DEF Bytes
  <1>12. Written(p.packed) =
           [k \in DOMAIN raw |->
              <<raw[k][2].data, Min({(raw[k][1].bits + 7) \div 8, raw[k][2].size})>>]
    BY <1>8, <1>9, <1>11
  <1> QED
    BY <1>12 DEF raw, at, n

LEMMA HeadersNext ==
  ASSUME HeadersCollected, ContextNext \/ UNCHANGED <<vars, encodeVars>>
  PROVE  HeadersCollected'
  <1>1. CASE UNCHANGED encodeVars
    <2>1. params' = params /\ pairs' = pairs /\ coded' = coded
      BY <1>1 DEF encodeVars
    <2>2. Sent' = Sent
      BY <2>1 DEF Sent
    <2>3. HeadersGoFirst' <=> HeadersGoFirst
      BY <2>1, <2>2 DEF HeadersGoFirst
    <2> QED
      BY <2>1, <2>3 DEF HeadersCollected
  <1>2. CASE EncodeBegin
    BY <1>2, HeadersReset DEF EncodeBegin, HeadersCollected, HeadersGoFirst
  <1>3. ASSUME NEW b \in Buffers, EncodeRender(b)
        PROVE  HeadersCollected'
    BY <1>3, HeadersRendered, SMTT(40)
  <1>4. CASE EncodeRefused
    BY <1>4 DEF EncodeRefused, HeadersCollected, HeadersGoFirst, Sent
  <1>5. CASE EncodeApplied
    <2>1. /\ params' = None /\ pairs' = pairs /\ coded' = Written(params.packed)
          /\ Collected(params, pairs)
      BY <1>5 DEF EncodeApplied, HeadersCollected
    <2>2. Sent' = Sent
      BY <2>1, SMTT(40) DEF Sent
    <2>3. HeadersGoFirst'
      BY <2>1, <2>2, HeadersWritten, ZenonT(60) DEF HeadersGoFirst
    <2> QED
      BY <2>1, <2>3 DEF HeadersCollected
  <1> QED
    BY <1>1, <1>2, <1>3, <1>4, <1>5 DEF ContextNext, EncodeNext

\* HeadersGoFirst for all constants: however many headers the client renders, in
\* whatever order with other parameters, and however many of them lack their data,
\* the first MaxPacked stay in its order (encode_collect_packed,
\* encode_append_packed).
THEOREM HeadersInFront == ContextSpec => []HeadersGoFirst
  <1>1. ContextInit => HeadersCollected
    BY DEF ContextInit, EncodeInit, HeadersCollected, HeadersGoFirst
  <1>2. HeadersCollected /\ [ContextNext]_<<vars, encodeVars>> => HeadersCollected'
    BY HeadersNext
  <1>3. HeadersCollected => HeadersGoFirst
    BY DEF HeadersCollected
  <1> QED
    BY <1>1, <1>2, <1>3, PTL DEF ContextSpec
=============================================================================
