--------------------------- MODULE PictureDelivery ---------------------------
(***************************************************************************)
(* What a client may rely on when it decodes: a picture is begun on a      *)
(* surface, submitted, and then shown on that surface -- always, and never *)
(* another picture in its place -- until the client begins the next one    *)
(* there.  A stream submits one picture at a time (vaEndPicture returns    *)
(* when it is decoded).  A picture that is not submitted leaves its        *)
(* surface stuck until it is destroyed.                                    *)
(***************************************************************************)
CONSTANTS Streams, Slots

VARIABLE phase  \* of the picture on each surface of each stream

Init == phase = [x \in Streams |-> [s \in Slots |-> "idle"]]

\* A begun picture is abandoned by the next one.
BeginPicture(x, s) ==
  /\ phase[x][s] \in {"idle", "shown"}
  /\ \A r \in Slots : phase[x][r] # "submitted"
  /\ phase' = [phase EXCEPT ![x] =
       [r \in Slots |-> IF r = s THEN "begun"
                        ELSE IF phase[x][r] = "begun" THEN "stuck"
                        ELSE phase[x][r]]]

Move(x, s, from, to) ==
  phase[x][s] = from /\ phase' = [phase EXCEPT ![x][s] = to]

Submit(x, s)  == Move(x, s, "begun", "submitted")
Abandon(x, s) == Move(x, s, "begun", "stuck")
Show(x, s)    == Move(x, s, "submitted", "shown")

Destroy(x, s) ==
  phase[x][s] # "submitted" /\ phase' = [phase EXCEPT ![x][s] = "idle"]

\* The stream ends: what was shown on its surfaces is gone.
Close(x) ==
  /\ \A r \in Slots : phase[x][r] # "submitted"
  /\ phase' = [phase EXCEPT ![x] =
       [r \in Slots |-> IF phase[x][r] \in {"begun", "stuck"} THEN "stuck"
                        ELSE "idle"]]

Next ==
  \E x \in Streams :
    \/ Close(x)
    \/ \E s \in Slots : \/ BeginPicture(x, s) \/ Submit(x, s) \/ Abandon(x, s)
                        \/ Show(x, s) \/ Destroy(x, s)

Spec ==
  /\ Init /\ [][Next]_phase
  /\ \A x \in Streams, s \in Slots : WF_phase(Show(x, s))
=============================================================================
