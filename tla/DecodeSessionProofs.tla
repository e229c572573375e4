------------------------- MODULE DecodeSessionProofs -------------------------
(***************************************************************************)
(* For every number of contexts, surfaces, codecs and buffers: the         *)
(* variables of DecodeSession keep their types, no V4L2 buffer index is    *)
(* ever shared, or free while a surface uses it, an exported buffer stays, *)
(* and no index is lost but with a broken picture.                         *)
(*                                                                         *)
(* The first part says what each world operator of DecodeSession does to   *)
(* the ownership of indices; the second takes the actions one by one.  The *)
(* third and the fourth do the same for the two action properties, each    *)
(* with a relation between worlds that the helpers compose.                *)
(***************************************************************************)
EXTENDS DecodeSession, BufferPoolProofs

World == [sess : [Sessions -> Session], surf : [Surfaces -> Surface]]

\* BuffersOwned, of any world.
Owned(w) ==
  /\ w \in World
  /\ \A x \in Sessions : PoolOK(w.sess[x].out) /\ PoolOK(w.sess[x].cap)
  /\ \A s \in Surfaces :
       /\ w.surf[s].src # Unassigned =>
            /\ w.surf[s].session \in Sessions
            /\ w.surf[s].src \in Held(w.sess[w.surf[s].session].out)
       /\ w.surf[s].dst # Unassigned =>
            /\ w.surf[s].session \in Sessions
            /\ w.surf[s].dst \in Held(w.sess[w.surf[s].session].cap)
  /\ \A r, s \in Surfaces :
       r # s /\ w.surf[r].session = w.surf[s].session =>
         /\ w.surf[r].src # Unassigned => w.surf[r].src # w.surf[s].src
         /\ w.surf[r].dst # Unassigned => w.surf[r].dst # w.surf[s].dst

\* What a step keeps of the sessions when it programs and starts none.
SameSessions(w, v) ==
  \A y \in Sessions :
    /\ v.sess[y].format = w.sess[y].format
    /\ v.sess[y].streaming = w.sess[y].streaming
    /\ w.sess[y].cap = NoPool => v.sess[y].cap = NoPool

-----------------------------------------------------------------------------
(* The world operators.                                                    *)

\* A queue without buffers has nothing to hand out and nothing handed out.
LEMMA NoPoolFacts == Exhausted(NoPool) /\ Held(NoPool) = {}
BY DEF NoPool, NewPool, Exhausted, Held, Recycled

\* Returning an index, bound or not, to the pool it came from.
LEMMA GiveBackFacts ==
  ASSUME NEW p, PoolOK(p), NEW i, i # Unassigned => i \in Held(p)
  PROVE  PoolOK(GiveBack(p, i)) /\ Held(GiveBack(p, i)) = Held(p) \ {i}
<1>1. CASE i = Unassigned
  <2>1. Unassigned \notin Held(p)
    BY HeldInRange
  <2> QED
    BY <1>1, <2>1 DEF GiveBack
<1>2. CASE i # Unassigned
  BY <1>2, GiveFacts DEF GiveBack
<1> QED
  BY <1>1, <1>2

\* A step that touches neither pools nor bindings keeps ownership.
LEMMA SameBuffers ==
  ASSUME NEW w, Owned(w), NEW v \in World,
         \A x \in Sessions : /\ v.sess[x].out = w.sess[x].out
                             /\ v.sess[x].cap = w.sess[x].cap,
         \A s \in Surfaces : /\ v.surf[s].src = w.surf[s].src
                             /\ v.surf[s].dst = w.surf[s].dst
                             /\ v.surf[s].session = w.surf[s].session
  PROVE  Owned(v)
BY DEF Owned

\* A step that changes the bindings of one surface keeps ownership when every
\* index still bound is still held, and that surface shares none.
LEMMA OneSurfaceOwned ==
  ASSUME NEW w, Owned(w), NEW v \in World, NEW s \in Surfaces,
         \A x \in Sessions : PoolOK(v.sess[x].out) /\ PoolOK(v.sess[x].cap),
         \A r \in Surfaces \ {s} :
           /\ v.surf[r].src = w.surf[r].src
           /\ v.surf[r].dst = w.surf[r].dst
           /\ v.surf[r].session = w.surf[r].session
           /\ w.surf[r].src # Unassigned =>
                w.surf[r].src \in Held(v.sess[w.surf[r].session].out)
           /\ w.surf[r].dst # Unassigned =>
                w.surf[r].dst \in Held(v.sess[w.surf[r].session].cap),
         v.surf[s].src # Unassigned =>
           /\ v.surf[s].session \in Sessions
           /\ v.surf[s].src \in Held(v.sess[v.surf[s].session].out)
           /\ \A r \in Surfaces \ {s} : v.surf[r].session = v.surf[s].session =>
                w.surf[r].src # v.surf[s].src,
         v.surf[s].dst # Unassigned =>
           /\ v.surf[s].session \in Sessions
           /\ v.surf[s].dst \in Held(v.sess[v.surf[s].session].cap)
           /\ \A r \in Surfaces \ {s} : v.surf[r].session = v.surf[s].session =>
                w.surf[r].dst # v.surf[s].dst
  PROVE  Owned(v)
<1>1. \A r \in Surfaces :
        /\ v.surf[r].src # Unassigned =>
             /\ v.surf[r].session \in Sessions
             /\ v.surf[r].src \in Held(v.sess[v.surf[r].session].out)
        /\ v.surf[r].dst # Unassigned =>
             /\ v.surf[r].session \in Sessions
             /\ v.surf[r].dst \in Held(v.sess[v.surf[r].session].cap)
  BY DEF Owned
<1>2. ASSUME NEW r \in Surfaces, NEW t \in Surfaces, r # t,
             v.surf[r].session = v.surf[t].session
      PROVE  /\ v.surf[r].src # Unassigned => v.surf[r].src # v.surf[t].src
             /\ v.surf[r].dst # Unassigned => v.surf[r].dst # v.surf[t].dst
  <2>1. CASE r = s
    <3>1. t \in Surfaces \ {s}
      BY <1>2, <2>1
    <3> QED
      BY <1>2, <2>1, <3>1
  <2>2. CASE t = s
    <3>1. r \in Surfaces \ {s}
      BY <1>2, <2>2
    <3> QED
      BY <1>2, <2>2, <3>1
  <2>3. CASE r # s /\ t # s
    BY <1>2, <2>3 DEF Owned
  <2> QED
    BY <2>1, <2>2, <2>3
<1> QED
  BY <1>1, <1>2 DEF Owned

\* Binding an OUTPUT buffer on a session that is the surface's, or that of a
\* surface without one.
LEMMA BindSourceOwned ==
  ASSUME NEW w, Owned(w), NEW x \in Sessions, NEW s \in Surfaces,
         NEW mapped \in BOOLEAN, w.surf[s].session \in {NoSession, x},
         CanBindSource(w, x, s)
  PROVE  LET b == BindSource(w, x, s, mapped) IN
         /\ Owned(b)
         /\ SameSessions(w, b)
         /\ \A r \in Surfaces \ {s} : b.surf[r] = w.surf[r]
         /\ b.surf[s].live = w.surf[s].live
         /\ b.surf[s].status = w.surf[s].status
         /\ b.surf[s].req = w.surf[s].req
         /\ b.surf[s].dst = w.surf[s].dst
         /\ b.surf[s].session \in {w.surf[s].session, x}
         /\ b.surf[s].src # Unassigned => b.surf[s].session = x
         /\ mapped => b.surf[s].src # Unassigned
<1> USE SessionAssumption, MaxBuffersAssumption
<1>1. PICK b : b = BindSource(w, x, s, mapped)
  OBVIOUS
<1>2. w \in World /\ w.sess \in [Sessions -> Session]
      /\ w.surf \in [Surfaces -> Surface] /\ w.sess[x] \in Session
      /\ w.surf[s] \in Surface
      /\ NoSession \notin Sessions
  BY DEF Owned, World, Sessions
<1>3. CASE w.surf[s].src # Unassigned
  <2>1. b = w
    BY <1>1, <1>3 DEF BindSource
  <2>2. w.surf[s].session = x
    BY <1>2, <1>3 DEF Owned
  <2> QED
    BY <1>1, <1>3, <2>1, <2>2 DEF SameSessions
<1>4. CASE w.surf[s].src = Unassigned
  <2>1. PICK p : p = w.sess[x].out
    OBVIOUS
  <2>2. PoolOK(p) /\ ~Exhausted(p)
    BY <1>4, <2>1 DEF Owned, CanBindSource
  <2>3. PICK q : q = IF mapped THEN Take(p) ELSE TakeAndGiveBack(p)
    OBVIOUS
  <2>4. PICK i : i = IF mapped THEN Candidate(p) ELSE Unassigned
    OBVIOUS
  <2>5. b = [sess |-> [w.sess EXCEPT ![x].out = q],
             surf |-> [w.surf EXCEPT ![s].session = x, ![s].src = i]]
    BY <1>1, <1>4, <2>1, <2>3, <2>4 DEF BindSource
  <2>6. /\ PoolOK(q)
        /\ Held(p) \subseteq Held(q)
        /\ i # Unassigned => i \in Held(q) /\ i \notin Held(p)
    BY <2>2, <2>3, <2>4, TakeFacts, TakeAndGiveBackFacts
  <2>7. /\ mapped => i # Unassigned
        /\ i \in Index
    <3>1. mapped => i \in Held(q)
      BY <2>2, <2>3, <2>4, TakeFacts
    <3>2. mapped => i \in 0 .. MaxBuffers-1 /\ i # Unassigned
      BY <2>6, <3>1, HeldInRange
    <3> QED
      BY <2>4, <3>2 DEF Index
  <2>8. /\ \A y \in Sessions : /\ b.sess[y].format = w.sess[y].format
                               /\ b.sess[y].streaming = w.sess[y].streaming
                               /\ b.sess[y].cap = w.sess[y].cap
                               /\ y # x => b.sess[y].out = w.sess[y].out
        /\ b.sess[x].out = q
        /\ \A r \in Surfaces \ {s} : b.surf[r] = w.surf[r]
        /\ b.surf[s] = [w.surf[s] EXCEPT !.session = x, !.src = i]
    BY <1>2, <2>5 DEF Session
  <2>9. /\ b.surf[s].session = x /\ b.surf[s].src = i
        /\ b.surf[s].dst = w.surf[s].dst
        /\ b.surf[s].live = w.surf[s].live
        /\ b.surf[s].status = w.surf[s].status
        /\ b.surf[s].req = w.surf[s].req
    BY <1>2, <2>8 DEF Surface
  <2>10. b \in World
    <3>1. q \in Pool
      BY <2>6 DEF PoolOK
    <3>2. b.sess \in [Sessions -> Session]
      BY <1>2, <2>5, <3>1 DEF Session
    <3>3. b.surf \in [Surfaces -> Surface]
      BY <1>2, <2>5, <2>7 DEF Surface
    <3> QED
      BY <2>5, <3>2, <3>3 DEF World
  <2>11. Owned(b)
    <3>1. \A y \in Sessions : PoolOK(b.sess[y].out) /\ PoolOK(b.sess[y].cap)
      BY <2>6, <2>8 DEF Owned
    <3>2. \A y \in Sessions : Held(w.sess[y].out) \subseteq Held(b.sess[y].out)
      BY <2>1, <2>6, <2>8
    <3>3. /\ \A r \in Surfaces :
               /\ w.surf[r].src # Unassigned =>
                    /\ w.surf[r].session \in Sessions
                    /\ w.surf[r].src \in Held(w.sess[w.surf[r].session].out)
               /\ w.surf[r].dst # Unassigned =>
                    /\ w.surf[r].session \in Sessions
                    /\ w.surf[r].dst \in Held(w.sess[w.surf[r].session].cap)
          /\ \A r, t \in Surfaces :
               r # t /\ w.surf[r].session = w.surf[t].session =>
                 /\ w.surf[r].src # Unassigned => w.surf[r].src # w.surf[t].src
                 /\ w.surf[r].dst # Unassigned => w.surf[r].dst # w.surf[t].dst
      BY DEF Owned
    <3>4. w.surf[s].dst # Unassigned => w.surf[s].session = x
      BY <1>2, <3>3
    <3>5. \A r \in Surfaces \ {s} :
            /\ b.surf[r].src = w.surf[r].src
            /\ b.surf[r].dst = w.surf[r].dst
            /\ b.surf[r].session = w.surf[r].session
            /\ w.surf[r].src # Unassigned =>
                 w.surf[r].src \in Held(b.sess[w.surf[r].session].out)
            /\ w.surf[r].dst # Unassigned =>
                 w.surf[r].dst \in Held(b.sess[w.surf[r].session].cap)
      BY <2>8, <3>2, <3>3
    <3>6. b.surf[s].src # Unassigned =>
            /\ b.surf[s].session \in Sessions
            /\ b.surf[s].src \in Held(b.sess[b.surf[s].session].out)
            /\ \A r \in Surfaces \ {s} : b.surf[r].session = b.surf[s].session =>
                 w.surf[r].src # b.surf[s].src
      BY <2>1, <2>6, <2>8, <2>9, <3>3
    <3>7. b.surf[s].dst # Unassigned =>
            /\ b.surf[s].session \in Sessions
            /\ b.surf[s].dst \in Held(b.sess[b.surf[s].session].cap)
            /\ \A r \in Surfaces \ {s} : b.surf[r].session = b.surf[s].session =>
                 w.surf[r].dst # b.surf[s].dst
      BY <2>8, <2>9, <3>3, <3>4
    <3> QED
      BY <2>10, <3>1, <3>5, <3>6, <3>7, OneSurfaceOwned
  <2> QED
    BY <1>1, <2>7, <2>8, <2>9, <2>11 DEF SameSessions
<1> QED
  BY <1>3, <1>4

\* Binding a CAPTURE buffer likewise; a failed map leaves the session alone.
LEMMA BindDestinationOwned ==
  ASSUME NEW w, Owned(w), NEW x \in Sessions, NEW s \in Surfaces,
         NEW mapped \in BOOLEAN, w.surf[s].session \in {NoSession, x},
         CanBindDestination(w, x, s)
  PROVE  LET b == BindDestination(w, x, s, mapped) IN
         /\ Owned(b)
         /\ SameSessions(w, b)
         /\ \A r \in Surfaces \ {s} : b.surf[r] = w.surf[r]
         /\ b.surf[s].live = w.surf[s].live
         /\ b.surf[s].status = w.surf[s].status
         /\ b.surf[s].req = w.surf[s].req
         /\ b.surf[s].src = w.surf[s].src
         /\ b.surf[s].session \in {w.surf[s].session, x}
         /\ b.surf[s].dst # Unassigned => b.surf[s].session = x
         /\ mapped => b.surf[s].dst # Unassigned
<1> USE SessionAssumption, MaxBuffersAssumption
<1>1. PICK b : b = BindDestination(w, x, s, mapped)
  OBVIOUS
<1>2. w \in World /\ w.sess \in [Sessions -> Session]
      /\ w.surf \in [Surfaces -> Surface] /\ w.sess[x] \in Session
      /\ w.surf[s] \in Surface
      /\ NoSession \notin Sessions
  BY DEF Owned, World, Sessions
<1>3. CASE w.surf[s].dst # Unassigned
  <2>1. b = w
    BY <1>1, <1>3 DEF BindDestination
  <2>2. w.surf[s].session = x
    BY <1>2, <1>3 DEF Owned
  <2> QED
    BY <1>1, <1>3, <2>1, <2>2 DEF SameSessions
<1>4. CASE w.surf[s].dst = Unassigned
  <2>1. PICK p : p = w.sess[x].cap
    OBVIOUS
  <2>2. PoolOK(p) /\ ~Exhausted(p)
    BY <1>4, <2>1 DEF Owned, CanBindDestination
  <2>3. PICK q : q = IF mapped THEN Take(p) ELSE TakeAndGiveBack(p)
    OBVIOUS
  <2>4. PICK i : i = IF mapped THEN Candidate(p) ELSE Unassigned
    OBVIOUS
  <2>5. PICK e : e = IF mapped THEN x ELSE w.surf[s].session
    OBVIOUS
  <2>6. b = [sess |-> [w.sess EXCEPT ![x].cap = q],
             surf |-> IF mapped
                        THEN [w.surf EXCEPT ![s].session = x, ![s].dst = i]
                        ELSE w.surf]
    BY <1>1, <1>4, <2>1, <2>3, <2>4 DEF BindDestination
  <2>7. /\ PoolOK(q)
        /\ Held(p) \subseteq Held(q)
        /\ i # Unassigned => i \in Held(q) /\ i \notin Held(p)
    BY <2>2, <2>3, <2>4, TakeFacts, TakeAndGiveBackFacts
  <2>8. /\ mapped => i # Unassigned
        /\ i \in Index
    <3>1. mapped => i \in Held(q)
      BY <2>2, <2>3, <2>4, TakeFacts
    <3>2. mapped => i \in 0 .. MaxBuffers-1 /\ i # Unassigned
      BY <2>7, <3>1, HeldInRange
    <3> QED
      BY <2>4, <3>2 DEF Index
  <2>9. /\ \A y \in Sessions : /\ b.sess[y].format = w.sess[y].format
                               /\ b.sess[y].streaming = w.sess[y].streaming
                               /\ b.sess[y].out = w.sess[y].out
                               /\ y # x => b.sess[y].cap = w.sess[y].cap
        /\ b.sess[x].cap = q
        /\ \A r \in Surfaces \ {s} : b.surf[r] = w.surf[r]
        /\ b.surf[s] = [w.surf[s] EXCEPT !.session = e, !.dst = i]
    <3>1. b.sess = [w.sess EXCEPT ![x].cap = q]
      BY <2>6
    <3>2. b.surf = IF mapped
                     THEN [w.surf EXCEPT ![s].session = x, ![s].dst = i]
                     ELSE w.surf
      BY <2>6
    <3>3. /\ \A y \in Sessions : /\ b.sess[y].format = w.sess[y].format
                                 /\ b.sess[y].streaming = w.sess[y].streaming
                                 /\ b.sess[y].out = w.sess[y].out
                                 /\ y # x => b.sess[y].cap = w.sess[y].cap
          /\ b.sess[x].cap = q
      BY <1>2, <1>4, <3>1 DEF Session
    <3>4. \A r \in Surfaces \ {s} : b.surf[r] = w.surf[r]
      BY <1>2, <3>2
    <3>5. b.surf[s] = [w.surf[s] EXCEPT !.session = e, !.dst = i]
      <4>1. CASE mapped
        BY <1>2, <2>5, <3>2, <4>1
      <4>2. CASE ~mapped
        <5>1. /\ b.surf[s] = w.surf[s] /\ e = w.surf[s].session
              /\ i = w.surf[s].dst
          BY <1>4, <2>4, <2>5, <3>2, <4>2
        <5> QED
          BY <1>2, <5>1 DEF Surface
      <4> QED
        BY <4>1, <4>2
    <3> QED
      BY <3>3, <3>4, <3>5
  <2>10. /\ b.surf[s].session = e /\ b.surf[s].dst = i
         /\ b.surf[s].src = w.surf[s].src
         /\ b.surf[s].live = w.surf[s].live
         /\ b.surf[s].status = w.surf[s].status
         /\ b.surf[s].req = w.surf[s].req
    BY <1>2, <2>9 DEF Surface
  <2>11. b \in World
    <3>1. q \in Pool
      BY <2>7 DEF PoolOK
    <3>2. b.sess \in [Sessions -> Session]
      BY <1>2, <2>6, <3>1 DEF Session
    <3>3. b.surf \in [Surfaces -> Surface]
      BY <1>2, <2>4, <2>6, <2>8 DEF Surface
    <3> QED
      BY <2>6, <3>2, <3>3 DEF World
  <2>12. Owned(b)
    <3>1. \A y \in Sessions : PoolOK(b.sess[y].cap) /\ PoolOK(b.sess[y].out)
      BY <2>7, <2>9 DEF Owned
    <3>2. \A y \in Sessions : Held(w.sess[y].cap) \subseteq Held(b.sess[y].cap)
      BY <2>1, <2>7, <2>9
    <3>3. /\ \A r \in Surfaces :
               /\ w.surf[r].dst # Unassigned =>
                    /\ w.surf[r].session \in Sessions
                    /\ w.surf[r].dst \in Held(w.sess[w.surf[r].session].cap)
               /\ w.surf[r].src # Unassigned =>
                    /\ w.surf[r].session \in Sessions
                    /\ w.surf[r].src \in Held(w.sess[w.surf[r].session].out)
          /\ \A r, t \in Surfaces :
               r # t /\ w.surf[r].session = w.surf[t].session =>
                 /\ w.surf[r].dst # Unassigned => w.surf[r].dst # w.surf[t].dst
                 /\ w.surf[r].src # Unassigned => w.surf[r].src # w.surf[t].src
      BY DEF Owned
    <3>4. w.surf[s].src # Unassigned => w.surf[s].session = x
      BY <1>2, <3>3
    <3>5. \A r \in Surfaces \ {s} :
            /\ b.surf[r].dst = w.surf[r].dst
            /\ b.surf[r].src = w.surf[r].src
            /\ b.surf[r].session = w.surf[r].session
            /\ w.surf[r].dst # Unassigned =>
                 w.surf[r].dst \in Held(b.sess[w.surf[r].session].cap)
            /\ w.surf[r].src # Unassigned =>
                 w.surf[r].src \in Held(b.sess[w.surf[r].session].out)
      BY <2>9, <3>2, <3>3
    <3>6. b.surf[s].dst # Unassigned =>
            /\ b.surf[s].session \in Sessions
            /\ b.surf[s].dst \in Held(b.sess[b.surf[s].session].cap)
            /\ \A r \in Surfaces \ {s} : b.surf[r].session = b.surf[s].session =>
                 w.surf[r].dst # b.surf[s].dst
      BY <2>1, <2>4, <2>5, <2>7, <2>9, <2>10, <3>3
    <3>7. b.surf[s].src # Unassigned =>
            /\ b.surf[s].session \in Sessions
            /\ b.surf[s].src \in Held(b.sess[b.surf[s].session].out)
            /\ \A r \in Surfaces \ {s} : b.surf[r].session = b.surf[s].session =>
                 w.surf[r].src # b.surf[s].src
      BY <1>2, <2>5, <2>9, <2>10, <3>3, <3>4
    <3> QED
      BY <2>11, <3>1, <3>5, <3>6, <3>7, OneSurfaceOwned
  <2>13. SameSessions(w, b)
    BY <2>1, <2>2, <2>9, NoPoolFacts DEF SameSessions
  <2> QED
    BY <1>1, <2>4, <2>5, <2>8, <2>9, <2>10, <2>12, <2>13
<1> QED
  BY <1>3, <1>4

\* What a surface holds on the session it names can go back there, and what
\* the other surfaces hold stays held.
LEMMA ReleasedPools ==
  ASSUME NEW w, Owned(w), NEW s \in Surfaces, NEW x \in Sessions,
         w.surf[s].session = x
  PROVE  LET o == GiveBack(w.sess[x].out, w.surf[s].src)
             k == GiveBack(w.sess[x].cap, w.surf[s].dst)
         IN  /\ PoolOK(o) /\ o \in Pool
             /\ PoolOK(k) /\ k \in Pool
             /\ \A r \in Surfaces \ {s} : w.surf[r].session = x =>
                  /\ w.surf[r].src # Unassigned => w.surf[r].src \in Held(o)
                  /\ w.surf[r].dst # Unassigned => w.surf[r].dst \in Held(k)
<1>1. /\ PoolOK(w.sess[x].out) /\ PoolOK(w.sess[x].cap)
      /\ w.surf[s].src # Unassigned => w.surf[s].src \in Held(w.sess[x].out)
      /\ w.surf[s].dst # Unassigned => w.surf[s].dst \in Held(w.sess[x].cap)
      /\ \A r \in Surfaces \ {s} : w.surf[r].session = x =>
           /\ w.surf[r].src # Unassigned =>
                /\ w.surf[r].src \in Held(w.sess[x].out)
                /\ w.surf[r].src # w.surf[s].src
           /\ w.surf[r].dst # Unassigned =>
                /\ w.surf[r].dst \in Held(w.sess[x].cap)
                /\ w.surf[r].dst # w.surf[s].dst
  BY DEF Owned
<1>2. PICK o : o = GiveBack(w.sess[x].out, w.surf[s].src)
  OBVIOUS
<1>3. PICK k : k = GiveBack(w.sess[x].cap, w.surf[s].dst)
  OBVIOUS
<1>4. PoolOK(o) /\ Held(o) = Held(w.sess[x].out) \ {w.surf[s].src}
  BY <1>1, <1>2, GiveBackFacts
<1>5. PoolOK(k) /\ Held(k) = Held(w.sess[x].cap) \ {w.surf[s].dst}
  BY <1>1, <1>3, GiveBackFacts
<1>6. o \in Pool /\ k \in Pool
  BY <1>4, <1>5 DEF PoolOK
<1> QED
  BY <1>1, <1>2, <1>3, <1>4, <1>5, <1>6

\* The OUTPUT buffer of a finished picture goes back.
LEMMA ReleaseSourceOwned ==
  ASSUME NEW w, Owned(w), NEW s \in Surfaces, NEW x \in Sessions,
         w.surf[s].session = x
  PROVE  LET v == ReleaseSource(w, x, s) IN
         /\ Owned(v)
         /\ SameSessions(w, v)
         /\ \A r \in Surfaces \ {s} : v.surf[r] = w.surf[r]
         /\ v.surf[s].live = w.surf[s].live
         /\ v.surf[s].status = w.surf[s].status
         /\ v.surf[s].req = w.surf[s].req
         /\ v.surf[s].session = x
         /\ v.surf[s].src = Unassigned
<1>1. PICK v : v = ReleaseSource(w, x, s)
  OBVIOUS
<1>2. PICK o : o = GiveBack(w.sess[x].out, w.surf[s].src)
  OBVIOUS
<1>3. /\ PoolOK(o) /\ o \in Pool
      /\ \A r \in Surfaces \ {s} : w.surf[r].session = x =>
           (w.surf[r].src # Unassigned => w.surf[r].src \in Held(o))
  BY <1>2, ReleasedPools
<1>4. v = [sess |-> [w.sess EXCEPT ![x].out = o],
           surf |-> [w.surf EXCEPT ![s].src = Unassigned]]
  BY <1>1, <1>2 DEF ReleaseSource
<1>5. w.sess \in [Sessions -> Session] /\ w.surf \in [Surfaces -> Surface]
      /\ Unassigned \in Index
  BY DEF Owned, World, Index
<1>6. /\ \A y \in Sessions : /\ v.sess[y].format = w.sess[y].format
                             /\ v.sess[y].streaming = w.sess[y].streaming
                             /\ v.sess[y].cap = w.sess[y].cap
                             /\ y # x => v.sess[y].out = w.sess[y].out
      /\ v.sess[x].out = o
      /\ \A r \in Surfaces \ {s} : v.surf[r] = w.surf[r]
      /\ v.surf[s].src = Unassigned
      /\ v.surf[s].dst = w.surf[s].dst
      /\ v.surf[s].session = x
      /\ v.surf[s].live = w.surf[s].live
      /\ v.surf[s].status = w.surf[s].status
      /\ v.surf[s].req = w.surf[s].req
  BY <1>4, <1>5 DEF Session, Surface
<1>7. v \in World
  <2>1. v.sess \in [Sessions -> Session]
    BY <1>3, <1>4, <1>5 DEF Session
  <2>2. v.surf \in [Surfaces -> Surface]
    BY <1>4, <1>5 DEF Surface
  <2> QED
    BY <1>4, <2>1, <2>2 DEF World
<1>8. Owned(v)
  <2>1. \A y \in Sessions : PoolOK(v.sess[y].out) /\ PoolOK(v.sess[y].cap)
    BY <1>3, <1>6 DEF Owned
  <2>2. /\ \A r \in Surfaces :
             /\ w.surf[r].src # Unassigned =>
                  /\ w.surf[r].session \in Sessions
                  /\ w.surf[r].src \in Held(w.sess[w.surf[r].session].out)
             /\ w.surf[r].dst # Unassigned =>
                  /\ w.surf[r].session \in Sessions
                  /\ w.surf[r].dst \in Held(w.sess[w.surf[r].session].cap)
        /\ \A r \in Surfaces \ {s} : w.surf[r].session = w.surf[s].session =>
             (w.surf[s].dst # Unassigned => w.surf[r].dst # w.surf[s].dst)
    BY DEF Owned
  <2>3. \A r \in Surfaces \ {s} :
          /\ v.surf[r].src = w.surf[r].src
          /\ v.surf[r].dst = w.surf[r].dst
          /\ v.surf[r].session = w.surf[r].session
          /\ w.surf[r].src # Unassigned =>
               w.surf[r].src \in Held(v.sess[w.surf[r].session].out)
          /\ w.surf[r].dst # Unassigned =>
               w.surf[r].dst \in Held(v.sess[w.surf[r].session].cap)
    BY <1>3, <1>6, <2>2
  <2>4. v.surf[s].dst # Unassigned =>
          /\ v.surf[s].session \in Sessions
          /\ v.surf[s].dst \in Held(v.sess[v.surf[s].session].cap)
          /\ \A r \in Surfaces \ {s} : v.surf[r].session = v.surf[s].session =>
               w.surf[r].dst # v.surf[s].dst
    BY <1>6, <2>2
  <2> QED
    BY <1>6, <1>7, <2>1, <2>3, <2>4, OneSurfaceOwned
<1> QED
  BY <1>1, <1>6, <1>8 DEF SameSessions

\* A destroyed surface leaves nothing of its own behind, whether its indices
\* went back (`back`) or not.
LEMMA DestroyedOwned ==
  ASSUME Owned(Here), NEW s \in Surfaces, NEW back \in BOOLEAN,
         back => surf[s].session \in Sessions,
         NEW v, v = [sess |-> IF back THEN ReleaseBoth(surf[s].session, s)
                                      ELSE sess,
                     surf |-> [surf EXCEPT ![s] = FreeSlot]]
  PROVE  Owned(v) /\ SameSessions(Here, v)
<1>1. /\ sess \in [Sessions -> Session] /\ surf \in [Surfaces -> Surface]
      /\ Here.sess = sess /\ Here.surf = surf
  BY DEF Owned, World, Here
<1>2. /\ FreeSlot \in Surface /\ FreeSlot.src = Unassigned
      /\ FreeSlot.dst = Unassigned
  BY SessionAssumption DEF FreeSlot, FreshSurface, Surface, Index
<1>3. /\ v.surf \in [Surfaces -> Surface]
      /\ \A r \in Surfaces \ {s} : v.surf[r] = surf[r]
      /\ v.surf[s] = FreeSlot
  BY <1>1, <1>2
<1>4. \A r \in Surfaces :
        /\ surf[r].src # Unassigned =>
             /\ surf[r].session \in Sessions
             /\ surf[r].src \in Held(sess[surf[r].session].out)
        /\ surf[r].dst # Unassigned =>
             /\ surf[r].session \in Sessions
             /\ surf[r].dst \in Held(sess[surf[r].session].cap)
  BY <1>1 DEF Owned
<1>5. \A y \in Sessions : PoolOK(sess[y].out) /\ PoolOK(sess[y].cap)
  BY <1>1 DEF Owned
<1>6. /\ v.sess \in [Sessions -> Session]
      /\ SameSessions(Here, v)
      /\ \A y \in Sessions : PoolOK(v.sess[y].out) /\ PoolOK(v.sess[y].cap)
      /\ \A r \in Surfaces \ {s} :
           /\ surf[r].src # Unassigned =>
                surf[r].src \in Held(v.sess[surf[r].session].out)
           /\ surf[r].dst # Unassigned =>
                surf[r].dst \in Held(v.sess[surf[r].session].cap)
  <2>1. CASE ~back
    BY <1>1, <1>4, <1>5, <2>1 DEF SameSessions
  <2>2. CASE back
    <3>1. PICK x \in Sessions : x = surf[s].session
      BY <2>2
    <3>2. PICK o : o = GiveBack(sess[x].out, surf[s].src)
      OBVIOUS
    <3>3. PICK k : k = GiveBack(sess[x].cap, surf[s].dst)
      OBVIOUS
    <3>4. /\ PoolOK(o) /\ o \in Pool /\ PoolOK(k) /\ k \in Pool
          /\ \A r \in Surfaces \ {s} : surf[r].session = x =>
               /\ surf[r].src # Unassigned => surf[r].src \in Held(o)
               /\ surf[r].dst # Unassigned => surf[r].dst \in Held(k)
      BY <1>1, <3>1, <3>2, <3>3, ReleasedPools
    <3>5. v.sess = [sess EXCEPT ![x].out = o, ![x].cap = k]
      BY <2>2, <3>1, <3>2, <3>3 DEF ReleaseBoth
    <3>6. /\ \A y \in Sessions : /\ v.sess[y].format = sess[y].format
                                 /\ v.sess[y].streaming = sess[y].streaming
                                 /\ y # x => v.sess[y] = sess[y]
          /\ v.sess[x].out = o /\ v.sess[x].cap = k
          /\ v.sess \in [Sessions -> Session]
      <4>1. /\ \A y \in Sessions : y # x => v.sess[y] = sess[y]
            /\ v.sess[x] = [sess[x] EXCEPT !.out = o, !.cap = k]
            /\ DOMAIN v.sess = Sessions
            /\ v.sess = [y \in Sessions |-> v.sess[y]]
        BY <1>1, <3>5
      <4>2. sess[x] \in Session
        BY <1>1
      <4>3. /\ v.sess[x] \in Session /\ v.sess[x].format = sess[x].format
            /\ v.sess[x].streaming = sess[x].streaming
            /\ v.sess[x].out = o /\ v.sess[x].cap = k
        BY <3>4, <4>1, <4>2 DEF Session
      <4> QED
        BY <1>1, <4>1, <4>3
    <3>7. sess[x].cap = NoPool => k = NoPool
      BY <1>4, <3>1, <3>3, NoPoolFacts DEF GiveBack
    <3>8. SameSessions(Here, v)
      BY <1>1, <3>6, <3>7 DEF SameSessions
    <3> QED
      BY <1>4, <1>5, <3>4, <3>6, <3>8
  <2> QED
    BY <2>1, <2>2
<1>7. v \in World
  BY <1>3, <1>6 DEF World
<1> QED
  BY <1>1, <1>2, <1>3, <1>6, <1>7, OneSurfaceOwned

\* Opening or closing a session on which nothing is bound.
LEMMA SessionReplaced ==
  ASSUME NEW w, Owned(w), NEW x \in Sessions, NEW f \in Session,
         PoolOK(f.out), PoolOK(f.cap),
         \A s \in Surfaces : w.surf[s].session = x =>
           w.surf[s].src = Unassigned /\ w.surf[s].dst = Unassigned
  PROVE  Owned([sess |-> [w.sess EXCEPT ![x] = f], surf |-> w.surf])
<1>1. PICK v : v = [sess |-> [w.sess EXCEPT ![x] = f], surf |-> w.surf]
  OBVIOUS
<1>2. w.sess \in [Sessions -> Session] /\ w.surf \in [Surfaces -> Surface]
  BY DEF Owned, World
<1>3. /\ v.sess \in [Sessions -> Session] /\ v.surf = w.surf
      /\ \A y \in Sessions : y # x => v.sess[y] = w.sess[y]
      /\ v.sess[x] = f
  BY <1>1, <1>2
<1>4. v \in World
  BY <1>1, <1>2, <1>3 DEF World
<1> QED
  BY <1>1, <1>3, <1>4 DEF Owned

\* A session that was just opened, or just closed, has sound pools.
LEMMA NewSessions ==
  /\ ClosedSession \in Session
  /\ PoolOK(ClosedSession.out) /\ PoolOK(ClosedSession.cap)
  /\ \A f \in Layouts :
       /\ f # "none"
       /\ [ClosedSession EXCEPT !.format = f] \in Session
       /\ PoolOK([ClosedSession EXCEPT !.format = f].out)
       /\ PoolOK([ClosedSession EXCEPT !.format = f].cap)
       /\ [ClosedSession EXCEPT !.format = f].format = f
       /\ \A str \in Streams, nout, ncap \in PoolSizes :
            /\ Programmed(str, f, nout, ncap) \in Session
            /\ PoolOK(Programmed(str, f, nout, ncap).out)
            /\ PoolOK(Programmed(str, f, nout, ncap).cap)
            /\ Programmed(str, f, nout, ncap).format = f
  /\ \A codec \in Codecs, f \in Layouts : LayoutFor(codec, f) \in Layouts
  /\ PoolOK(NoPool) /\ NoPool \in Pool
  /\ \A n \in PoolSizes : PoolOK(NewPool(n)) /\ NewPool(n) \in Pool
<1> USE SessionAssumption
<1>1. 0 \in 0 .. MaxBuffers /\ PoolSizes \subseteq 0 .. MaxBuffers
  BY MaxBuffersAssumption
<1>2. \A n \in 0 .. MaxBuffers : PoolOK(NewPool(n)) /\ NewPool(n) \in Pool
  BY NewPoolFacts DEF PoolOK
<1>3. PoolOK(NoPool) /\ NoPool \in Pool
  BY <1>1, <1>2 DEF NoPool
<1>4. \A codec \in Codecs, f \in Layouts : LayoutFor(codec, f) \in Layouts
  BY DEF LayoutFor
<1>5. /\ ClosedSession \in Session
      /\ PoolOK(ClosedSession.out) /\ PoolOK(ClosedSession.cap)
  BY <1>3 DEF ClosedSession, Session
<1>6. ASSUME NEW f \in Layouts
      PROVE  /\ f # "none"
             /\ [ClosedSession EXCEPT !.format = f] \in Session
             /\ PoolOK([ClosedSession EXCEPT !.format = f].out)
             /\ PoolOK([ClosedSession EXCEPT !.format = f].cap)
             /\ [ClosedSession EXCEPT !.format = f].format = f
  BY <1>3 DEF ClosedSession, Session
<1>7. ASSUME NEW f \in Layouts, NEW str \in Streams,
             NEW nout \in PoolSizes, NEW ncap \in PoolSizes
      PROVE  /\ Programmed(str, f, nout, ncap) \in Session
             /\ PoolOK(Programmed(str, f, nout, ncap).out)
             /\ PoolOK(Programmed(str, f, nout, ncap).cap)
             /\ Programmed(str, f, nout, ncap).format = f
  <2>1. /\ PoolOK(NewPool(nout)) /\ NewPool(nout) \in Pool
        /\ PoolOK(NewPool(ncap)) /\ NewPool(ncap) \in Pool
    BY <1>1, <1>2
  <2> QED
    BY <2>1 DEF Programmed, Session
<1> QED
  BY <1>1, <1>2, <1>3, <1>4, <1>5, <1>6, <1>7

LEMMA ProgrammedFacts ==
  ASSUME NEW str \in Streams, NEW layout \in Layouts,
         NEW nout \in PoolSizes, NEW ncap \in PoolSizes
  PROVE  \E f \in Session :
           /\ f = Programmed(str, layout, nout, ncap)
           /\ PoolOK(f.out) /\ PoolOK(f.cap) /\ f.format # "none"
<1>1. PICK f : f = Programmed(str, layout, nout, ncap)
  OBVIOUS
<1>2. f \in Session /\ PoolOK(f.out) /\ PoolOK(f.cap) /\ f.format = layout
  BY <1>1, NewSessions, ZenonT(60)
<1>3. layout # "none"
  BY NewSessions
<1> QED
  BY <1>1, <1>2, <1>3

\* A surface described anew is bound to what it was.
LEMMA DescriptionOnly ==
  ASSUME NEW w, Owned(w), NEW s \in Surfaces, NEW f \in Layouts,
         NEW v, v = [w EXCEPT !.surf[s].format = f]
  PROVE  /\ Owned(v) /\ v.sess = w.sess
         /\ \A r \in Surfaces : /\ v.surf[r].live = w.surf[r].live
                                /\ v.surf[r].status = w.surf[r].status
                                /\ v.surf[r].req = w.surf[r].req
                                /\ v.surf[r].src = w.surf[r].src
                                /\ v.surf[r].dst = w.surf[r].dst
                                /\ v.surf[r].session = w.surf[r].session
<1>1. /\ w.sess \in [Sessions -> Session] /\ w.surf \in [Surfaces -> Surface]
      /\ w = [sess |-> w.sess, surf |-> w.surf] /\ w.surf[s] \in Surface
  BY DEF Owned, World
<1>2. v = [sess |-> w.sess, surf |-> [w.surf EXCEPT ![s].format = f]]
  BY <1>1
<1>3. [w.surf[s] EXCEPT !.format = f] \in Surface
  BY <1>1 DEF Surface
<1>4. /\ v.sess = w.sess /\ v.surf \in [Surfaces -> Surface]
      /\ \A r \in Surfaces \ {s} : v.surf[r] = w.surf[r]
      /\ v.surf[s] = [w.surf[s] EXCEPT !.format = f]
  BY <1>1, <1>2, <1>3
<1>5. /\ v.surf[s].live = w.surf[s].live
      /\ v.surf[s].status = w.surf[s].status
      /\ v.surf[s].req = w.surf[s].req
      /\ v.surf[s].src = w.surf[s].src
      /\ v.surf[s].dst = w.surf[s].dst
      /\ v.surf[s].session = w.surf[s].session
  BY <1>1, <1>4 DEF Surface
<1>6. v \in World
  <2>1. v = [sess |-> v.sess, surf |-> v.surf]
    BY <1>2
  <2> QED
    BY <1>1, <1>4, <2>1 DEF World
<1>7. \A r \in Surfaces : /\ v.surf[r].live = w.surf[r].live
                          /\ v.surf[r].status = w.surf[r].status
                          /\ v.surf[r].req = w.surf[r].req
                          /\ v.surf[r].src = w.surf[r].src
                          /\ v.surf[r].dst = w.surf[r].dst
                          /\ v.surf[r].session = w.surf[r].session
  BY <1>4, <1>5
<1>8. Owned(v)
  <2>1. \A x \in Sessions : /\ v.sess[x].out = w.sess[x].out
                             /\ v.sess[x].cap = w.sess[x].cap
    BY <1>4
  <2> QED
    BY <1>6, <1>7, <2>1, SameBuffers, ZenonT(60)
<1> QED
  <2>1. v.sess = w.sess
    BY <1>4
  <2> QED
    BY <1>7, <1>8, <2>1

\* The adoption of the probe session: everything bound on it moves along.
LEMMA AdoptOwned ==
  ASSUME NEW h, Owned(h), h.sess = sess, NEW c \in Contexts, NEW s \in Surfaces,
         Adoptable(h, c, s)
  PROVE  LET w == Adopt(h, c, s) IN
         /\ Owned(w)
         /\ w.surf[s].session \in {NoSession, c}
         /\ \A r \in Surfaces :
              /\ w.surf[r].live = h.surf[r].live
              /\ w.surf[r].status = h.surf[r].status
              /\ w.surf[r].req = h.surf[r].req
              /\ w.surf[r].src = h.surf[r].src
              /\ w.surf[r].dst = h.surf[r].dst
              /\ \/ w.surf[r].session = h.surf[r].session
                 \/ h.surf[r].session = Probe /\ w.surf[r].session = c
              /\ w.surf[r].session = Probe =>
                   w.sess[Probe].format = sess[Probe].format
         /\ \A y \in Contexts : w.sess[y] = sess[y] \/ w.sess[y].format # "none"
<1> USE SessionAssumption
<1>1. PICK w : w = Adopt(h, c, s)
  OBVIOUS
<1>2. /\ sess \in [Sessions -> Session] /\ h.surf \in [Surfaces -> Surface]
      /\ c \in Sessions /\ Probe \in Sessions /\ c # Probe
      /\ Contexts \subseteq Sessions /\ NoSession \notin Sessions
  BY DEF Owned, World, Sessions
<1>3. CASE h.surf[s].session # Probe
  BY <1>1, <1>2, <1>3 DEF Adopt, Adoptable
<1>4. CASE h.surf[s].session = Probe
  <2>1. /\ sess[c].out.next = 0 /\ sess[c].cap.next = 0
        /\ sess[Probe].format # "none"
    BY <1>2, <1>4, NewSessions DEF Adoptable, Untouched, Surface
  <2>2. \A r \in Surfaces :
          /\ h.surf[r].src # Unassigned =>
               /\ h.surf[r].session \in Sessions
               /\ h.surf[r].src \in Held(sess[h.surf[r].session].out)
          /\ h.surf[r].dst # Unassigned =>
               /\ h.surf[r].session \in Sessions
               /\ h.surf[r].dst \in Held(sess[h.surf[r].session].cap)
    BY <1>2 DEF Owned
  <2>3. \A y \in Sessions : PoolOK(sess[y].out) /\ PoolOK(sess[y].cap)
    BY <1>2 DEF Owned
  <2>4. \A r \in Surfaces : h.surf[r].session = c =>
          h.surf[r].src = Unassigned /\ h.surf[r].dst = Unassigned
    BY <1>2, <2>1, <2>2, <2>3, HeldInRange
  <2>5. /\ w = [sess |-> w.sess, surf |-> w.surf]
        /\ w.sess = [sess EXCEPT ![c] = sess[Probe], ![Probe] = ClosedSession]
        /\ w.surf = [r \in Surfaces |->
                       IF h.surf[r].session = Probe
                         THEN [h.surf[r] EXCEPT !.session = c] ELSE h.surf[r]]
    BY <1>1, <1>2, <1>4 DEF Adopt
  <2>6. /\ w.sess[c] = sess[Probe] /\ w.sess[Probe] = ClosedSession
        /\ \A y \in Sessions \ {c, Probe} : w.sess[y] = sess[y]
        /\ w.sess \in [Sessions -> Session]
    BY <1>2, <2>5, NewSessions
  <2>7. /\ \A r \in Surfaces :
             /\ w.surf[r].live = h.surf[r].live
             /\ w.surf[r].status = h.surf[r].status
             /\ w.surf[r].req = h.surf[r].req
             /\ w.surf[r].src = h.surf[r].src
             /\ w.surf[r].dst = h.surf[r].dst
             /\ w.surf[r].session =
                  IF h.surf[r].session = Probe THEN c ELSE h.surf[r].session
        /\ w.surf \in [Surfaces -> Surface]
    BY <1>2, <2>5, SMTT(40) DEF Surface
  <2>8. w \in World
    BY <2>5, <2>6, <2>7 DEF World
  <2>9. \A y \in Sessions : PoolOK(w.sess[y].out) /\ PoolOK(w.sess[y].cap)
    BY <1>2, <2>3, <2>6, NewSessions
  <2>10. \A r \in Surfaces :
           /\ w.surf[r].src # Unassigned =>
                /\ w.surf[r].session \in Sessions
                /\ w.surf[r].src \in Held(w.sess[w.surf[r].session].out)
           /\ w.surf[r].dst # Unassigned =>
                /\ w.surf[r].session \in Sessions
                /\ w.surf[r].dst \in Held(w.sess[w.surf[r].session].cap)
    BY <1>2, <2>2, <2>4, <2>6, <2>7
  <2>11. \A r, t \in Surfaces :
           r # t /\ w.surf[r].session = w.surf[t].session =>
             /\ w.surf[r].src # Unassigned => w.surf[r].src # w.surf[t].src
             /\ w.surf[r].dst # Unassigned => w.surf[r].dst # w.surf[t].dst
    <3>1. \A r, t \in Surfaces :
            r # t /\ h.surf[r].session = h.surf[t].session =>
              /\ h.surf[r].src # Unassigned => h.surf[r].src # h.surf[t].src
              /\ h.surf[r].dst # Unassigned => h.surf[r].dst # h.surf[t].dst
      BY <1>2 DEF Owned
    <3> QED
      BY <2>4, <2>7, <3>1
  <2>12. Owned(w)
    BY <2>8, <2>9, <2>10, <2>11 DEF Owned
  <2>13. \A r \in Surfaces :
           /\ \/ w.surf[r].session = h.surf[r].session
              \/ h.surf[r].session = Probe /\ w.surf[r].session = c
           /\ w.surf[r].session # Probe
    BY <1>2, <2>7
  <2>14. \A y \in Contexts : w.sess[y] = sess[y] \/ w.sess[y].format # "none"
    BY <1>2, <2>1, <2>6
  <2>15. w.surf[s].session = c
    BY <1>4, <2>7
  <2> QED
    BY <1>1, <2>7, <2>12, <2>13, <2>14, <2>15
<1> QED
  BY <1>3, <1>4

-----------------------------------------------------------------------------
(* The actions.                                                            *)

\* The inductive invariant.  Ownership alone is not inductive: EndPicture
\* binds on its context's session whatever session the surface names, so the
\* surface must still be the context's (PictureOwned, which in turn needs that
\* only an open picture is waited for); opening or closing a session is
\* harmless only while no surface names it (SessionsAlive).
IInv ==
  /\ TypeOK
  /\ Owned(Here)
  /\ SessionsAlive
  /\ PictureOwned
  /\ WaitIsForPicture

LEMMA NextWorld ==
  ASSUME NEW w, Owned(w), Becomes(w)
  PROVE  /\ Owned(Here)'
         /\ sess' \in [Sessions -> Session]
         /\ surf' \in [Surfaces -> Surface]
<1>1. w \in World
  BY DEF Owned
<1>2. Here' = w
  BY <1>1 DEF World, Here, Becomes
<1>3. Owned(Here)'
  BY <1>2
<1> QED
  BY <1>1, <1>3 DEF World, Becomes

\* Facts every action needs.
LEMMA Basics ==
  ASSUME IInv
  PROVE  /\ live \subseteq Contexts /\ waiting \subseteq live
         /\ stream \in [Contexts -> Streams \cup {NoStream}]
         /\ sess \in [Sessions -> Session]
         /\ surf \in [Surfaces -> Surface]
         /\ target \in [Contexts -> Surfaces \cup {NoSurface}]
         /\ Here.sess = sess /\ Here.surf = surf
         /\ Contexts \subseteq Sessions /\ Probe \in Sessions
         /\ NoSession \notin Sessions /\ Probe \notin Contexts
         /\ NoSurface \notin Surfaces
         /\ \A s \in Surfaces : surf[s].session = NoSession =>
              surf[s].src = Unassigned /\ surf[s].dst = Unassigned
<1>1. \A s \in Surfaces : surf[s].session = NoSession =>
        surf[s].src = Unassigned /\ surf[s].dst = Unassigned
  BY SessionAssumption DEF IInv, Owned, Here, Sessions
<1> QED
  BY <1>1, SessionAssumption DEF IInv, TypeOK, Here, Sessions

\* A context without a layout has no buffers and no streams.
Settled(w) ==
  \A c \in live : w.sess[c].format = "none" =>
    /\ stream[c][1] \in LateBound
    /\ ~w.sess[c].streaming /\ w.sess[c].cap = NoPool

LEMMA SettledHere == IInv => Settled(Here)
BY Basics DEF IInv, SessionsAlive, Settled

LEMMA SettledStays ==
  ASSUME IInv, NEW w, Settled(w), NEW v, SameSessions(w, v)
  PROVE  Settled(v)
BY Basics DEF Settled, SameSessions

\* So a bound CAPTURE buffer has its layout.
LEMMA BoundHasLayout ==
  ASSUME IInv, NEW w, Owned(w), Settled(w), NEW r \in Surfaces,
         w.surf[r].session \in live \cup {Probe, NoSession},
         w.surf[r].session = Probe => w.sess[Probe].format # "none",
         w.surf[r].dst # Unassigned
  PROVE  w.sess[w.surf[r].session].format # "none"
<1>1. /\ w.surf[r].session \in Sessions
      /\ w.surf[r].dst \in Held(w.sess[w.surf[r].session].cap)
  BY DEF Owned
<1>2. w.surf[r].session \in live \cup {Probe}
  BY <1>1, Basics
<1> QED
  BY <1>1, <1>2, NoPoolFacts DEF Settled

LEMMA CreateSurfaceInv ==
  ASSUME IInv, NEW s \in Surfaces, NEW size \in Sizes, NEW format \in Layouts,
         CreateSurface(s, size, format)
  PROVE  IInv'
<1> USE Basics
<1>1. /\ ~surf[s].live /\ live' = live /\ stream' = stream
      /\ target' = target /\ waiting' = waiting
      /\ surf' = [surf EXCEPT ![s] = FreshSurface(size, format)]
  BY DEF CreateSurface
<1>2. PICK f \in Session :
        /\ sess' = [sess EXCEPT ![Probe] = f]
        /\ PoolOK(f.out) /\ PoolOK(f.cap)
        /\ f = sess[Probe] \/ (sess[Probe].format = "none" /\ f.format # "none")
  <2>1. CASE sess' = sess
    <3>1. PoolOK(sess[Probe].out) /\ PoolOK(sess[Probe].cap)
      BY DEF IInv, Owned
    <3> QED
      BY <2>1, <3>1
  <2>2. ASSUME sess[Probe].format = "none", NEW codec \in Codecs,
               NEW layout, layout = LayoutFor(codec, format),
               \/ sess' = [sess EXCEPT ![Probe] =
                             [ClosedSession EXCEPT !.format = layout]]
               \/ \E nout, ncap \in PoolSizes :
                    sess' = [sess EXCEPT ![Probe] =
                               Programmed(<<codec, size>>, layout, nout, ncap)]
        PROVE  \E f \in Session :
                 /\ sess' = [sess EXCEPT ![Probe] = f]
                 /\ PoolOK(f.out) /\ PoolOK(f.cap) /\ f.format # "none"
    <3>1. <<codec, size>> \in Streams /\ layout \in Layouts
      BY <2>2, NewSessions DEF Streams
    <3>2. CASE sess' = [sess EXCEPT ![Probe] =
                          [ClosedSession EXCEPT !.format = layout]]
      <4>1. PICK f : f = [ClosedSession EXCEPT !.format = layout]
        OBVIOUS
      <4>2. /\ f \in Session /\ PoolOK(f.out) /\ PoolOK(f.cap)
            /\ f.format = layout /\ layout # "none"
        BY <3>1, <4>1, NewSessions
      <4> QED
        BY <3>2, <4>1, <4>2
    <3>3. ASSUME NEW nout \in PoolSizes, NEW ncap \in PoolSizes,
                 sess' = [sess EXCEPT ![Probe] =
                            Programmed(<<codec, size>>, layout, nout, ncap)]
          PROVE  \E f \in Session :
                   /\ sess' = [sess EXCEPT ![Probe] = f]
                   /\ PoolOK(f.out) /\ PoolOK(f.cap) /\ f.format # "none"
      <4>1. PICK f \in Session :
              /\ f = Programmed(<<codec, size>>, layout, nout, ncap)
              /\ PoolOK(f.out) /\ PoolOK(f.cap) /\ f.format # "none"
        BY <3>1, ProgrammedFacts
      <4> QED
        BY <3>3, <4>1
    <3> QED
      BY <2>2, <3>2, <3>3
  <2>3. CASE sess' # sess
    <3>1. PICK codec \in Codecs :
            \/ sess' = [sess EXCEPT ![Probe] =
                          [ClosedSession EXCEPT !.format = LayoutFor(codec, format)]]
            \/ \E nout, ncap \in PoolSizes :
                 sess' = [sess EXCEPT ![Probe] =
                            Programmed(<<codec, size>>, LayoutFor(codec, format),
                                       nout, ncap)]
      BY <2>3 DEF CreateSurface
    <3>2. sess[Probe].format = "none"
      BY <2>3 DEF CreateSurface
    <3> QED
      BY <2>2, <3>1, <3>2
  <2> QED
    BY <2>1, <2>3
<1>3. \A r \in Surfaces : surf[r].session = Probe => sess[Probe].format # "none"
  BY DEF IInv, SessionsAlive
<1>4. PICK g : g = FreshSurface(size, format)
  OBVIOUS
<1>5. /\ g \in Surface /\ g.live /\ g.src = Unassigned /\ g.dst = Unassigned
      /\ g.session = NoSession /\ g.req = "none"
  BY <1>4, SessionAssumption DEF FreshSurface, Surface, Index
<1>6. PICK v : v = [sess |-> sess', surf |-> surf]
  OBVIOUS
<1>7. Owned(v)
  <2>1. CASE sess' = sess
    BY <1>6, <2>1 DEF IInv, Here
  <2>2. CASE \A r \in Surfaces : surf[r].session # Probe
    BY <1>2, <1>6, <2>2, SessionReplaced DEF IInv
  <2> QED
    BY <1>2, <1>3, <2>1, <2>2
<1>8. PICK w : w = [sess |-> sess', surf |-> surf']
  OBVIOUS
<1>9. /\ w.sess = v.sess /\ w.surf[s] = g
      /\ w.surf \in [Surfaces -> Surface]
      /\ \A r \in Surfaces \ {s} : w.surf[r] = v.surf[r]
  BY <1>1, <1>4, <1>5, <1>6, <1>8
<1>10. Owned(w)
  <2>1. w \in World
    BY <1>7, <1>8, <1>9 DEF Owned, World
  <2>2. /\ \A x \in Sessions : PoolOK(w.sess[x].out) /\ PoolOK(w.sess[x].cap)
        /\ \A r \in Surfaces :
             /\ v.surf[r].src # Unassigned =>
                  v.surf[r].src \in Held(w.sess[v.surf[r].session].out)
             /\ v.surf[r].dst # Unassigned =>
                  v.surf[r].dst \in Held(w.sess[v.surf[r].session].cap)
    BY <1>7, <1>9 DEF Owned
  <2>3. w.surf[s].src = Unassigned /\ w.surf[s].dst = Unassigned
    BY <1>5, <1>9
  <2> QED
    BY <1>7, <1>9, <2>1, <2>2, <2>3, OneSurfaceOwned, SMTT(40)
<1>11. /\ Owned(Here)' /\ sess' \in [Sessions -> Session]
       /\ surf' \in [Surfaces -> Surface]
  BY <1>8, <1>10, NextWorld DEF Becomes
<1>12. /\ \A r \in Surfaces \ {s} : surf'[r] = surf[r]
       /\ surf'[s] = g
       /\ \A y \in Sessions \ {Probe} : sess'[y] = sess[y]
       /\ sess[Probe].format # "none" => sess'[Probe] = sess[Probe]
  BY <1>1, <1>2, <1>4
<1>13. TypeOK'
  BY <1>1, <1>11 DEF TypeOK
<1>14. SessionsAlive'
  BY <1>1, <1>5, <1>12 DEF IInv, SessionsAlive
<1>15. PictureOwned'
  BY <1>1, <1>12 DEF IInv, PictureOwned
<1>16. WaitIsForPicture'
  BY <1>1, <1>5, <1>12 DEF IInv, WaitIsForPicture
<1> QED
  BY <1>11, <1>13, <1>14, <1>15, <1>16 DEF IInv

LEMMA CreateContextInv ==
  ASSUME IInv, NEW c \in Contexts, NEW str \in Streams, CreateContext(c, str)
  PROVE  IInv'
<1> USE Basics
<1>1. /\ c \notin live /\ live' = live \cup {c}
      /\ stream' = [stream EXCEPT ![c] = str]
      /\ surf' = surf /\ target' = target /\ waiting' = waiting
  BY DEF CreateContext
<1>2. PICK f \in Session : /\ sess' = [sess EXCEPT ![c] = f]
                           /\ PoolOK(f.out) /\ PoolOK(f.cap) /\ f.format # "none"
  <2>1. PICK wanted \in Layouts, nout \in PoolSizes, ncap \in PoolSizes :
          sess' = [sess EXCEPT ![c] =
                     Programmed(str, LayoutFor(str[1], wanted), nout, ncap)]
    BY DEF CreateContext
  <2>2. LayoutFor(str[1], wanted) \in Layouts
    BY NewSessions DEF Streams
  <2>3. PICK f \in Session :
          /\ f = Programmed(str, LayoutFor(str[1], wanted), nout, ncap)
          /\ PoolOK(f.out) /\ PoolOK(f.cap) /\ f.format # "none"
    BY <2>2, ProgrammedFacts
  <2> QED
    BY <2>1, <2>3
<1>3. \A s \in Surfaces : surf[s].session # c
  BY <1>1 DEF IInv, SessionsAlive
<1>4. PICK w : w = [sess |-> sess', surf |-> surf']
  OBVIOUS
<1>5. Owned(w)
  BY <1>1, <1>2, <1>3, <1>4, SessionReplaced DEF IInv
<1>6. /\ Owned(Here)' /\ sess' \in [Sessions -> Session]
      /\ surf' \in [Surfaces -> Surface]
  BY <1>4, <1>5, NextWorld DEF Becomes
<1>7. TypeOK'
  BY <1>1, <1>6 DEF TypeOK
<1>8. /\ sess'[c].format # "none"
      /\ \A d \in live : stream'[d] = stream[d]
      /\ \A y \in Sessions \ {c} : sess'[y] = sess[y]
  BY <1>1, <1>2
<1>9. SessionsAlive'
  BY <1>1, <1>3, <1>8 DEF IInv, SessionsAlive
<1>10. PictureOwned'
  BY <1>1 DEF IInv, PictureOwned
<1>11. WaitIsForPicture'
  BY <1>1 DEF IInv, WaitIsForPicture
<1> QED
  BY <1>6, <1>7, <1>9, <1>10, <1>11 DEF IInv

LEMMA DestroyContextInv ==
  ASSUME IInv, NEW c \in Contexts, DestroyContext(c)
  PROVE  IInv'
<1> USE Basics
<1>1. /\ c \in live \ waiting /\ live' = live \ {c}
      /\ stream' = [stream EXCEPT ![c] = NoStream]
      /\ sess' = [sess EXCEPT ![c] = ClosedSession]
      /\ surf' = [s \in Surfaces |->
                   IF surf[s].session = c
                     THEN [surf[s] EXCEPT !.src = Unassigned,
                             !.dst = Unassigned, !.session = NoSession]
                     ELSE surf[s]]
      /\ target' = [target EXCEPT ![c] = NoSurface]
      /\ waiting' = waiting
  BY DEF DestroyContext
<1>2. Unassigned \in Index
  BY DEF Index
<1>3. \A s \in Surfaces :
        /\ surf[s].session # c => surf'[s] = surf[s]
        /\ surf[s].session = c =>
             /\ surf'[s].src = Unassigned /\ surf'[s].dst = Unassigned
             /\ surf'[s].session = NoSession
             /\ surf'[s].live = surf[s].live
             /\ surf'[s].req = surf[s].req
        /\ surf'[s] \in Surface
  <2> SUFFICES ASSUME NEW s \in Surfaces
               PROVE  /\ surf[s].session # c => surf'[s] = surf[s]
                      /\ surf[s].session = c =>
                           /\ surf'[s].src = Unassigned
                           /\ surf'[s].dst = Unassigned
                           /\ surf'[s].session = NoSession
                           /\ surf'[s].live = surf[s].live
                           /\ surf'[s].req = surf[s].req
                      /\ surf'[s] \in Surface
    OBVIOUS
  <2>1. surf[s] \in Surface
    OBVIOUS
  <2>2. CASE surf[s].session # c
    BY <1>1, <2>1, <2>2
  <2>3. CASE surf[s].session = c
    <3>1. surf'[s] = [surf[s] EXCEPT !.src = Unassigned, !.dst = Unassigned,
                                     !.session = NoSession]
      BY <1>1, <2>3
    <3> QED
      BY <1>2, <2>1, <2>3, <3>1, ZenonT(60) DEF Surface
  <2> QED
    BY <2>2, <2>3
<1>4. PICK v : v = [sess |-> sess, surf |-> surf']
  OBVIOUS
<1>5. /\ v.sess = sess /\ v.surf = surf'
      /\ surf' \in [Surfaces -> Surface]
  BY <1>1, <1>3, <1>4
<1>6. Owned(v)
  <2>1. v \in World
    BY <1>4, <1>5 DEF World
  <2>2. /\ \A x \in Sessions : PoolOK(sess[x].out) /\ PoolOK(sess[x].cap)
        /\ \A s \in Surfaces :
             /\ surf[s].src # Unassigned =>
                  /\ surf[s].session \in Sessions
                  /\ surf[s].src \in Held(sess[surf[s].session].out)
             /\ surf[s].dst # Unassigned =>
                  /\ surf[s].session \in Sessions
                  /\ surf[s].dst \in Held(sess[surf[s].session].cap)
        /\ \A r, s \in Surfaces :
             r # s /\ surf[r].session = surf[s].session =>
               /\ surf[r].src # Unassigned => surf[r].src # surf[s].src
               /\ surf[r].dst # Unassigned => surf[r].dst # surf[s].dst
    BY DEF IInv, Owned
  <2>3. \A s \in Surfaces :
          /\ surf'[s].src # Unassigned => surf'[s] = surf[s]
          /\ surf'[s].dst # Unassigned => surf'[s] = surf[s]
    BY <1>3
  <2>4. \A s \in Surfaces :
          /\ surf'[s].src # Unassigned =>
               /\ surf'[s].session \in Sessions
               /\ surf'[s].src \in Held(sess[surf'[s].session].out)
          /\ surf'[s].dst # Unassigned =>
               /\ surf'[s].session \in Sessions
               /\ surf'[s].dst \in Held(sess[surf'[s].session].cap)
    BY <2>2, <2>3
  <2>5. \A r, s \in Surfaces :
          r # s /\ surf'[r].session = surf'[s].session =>
            /\ surf'[r].src # Unassigned => surf'[r].src # surf'[s].src
            /\ surf'[r].dst # Unassigned => surf'[r].dst # surf'[s].dst
    BY <1>3, <2>2, <2>3, <2>4
  <2> QED
    BY <1>5, <2>1, <2>2, <2>4, <2>5 DEF Owned
<1>7. \A s \in Surfaces : surf'[s].session # c
  BY <1>3
<1>8. PICK w : w = [sess |-> sess', surf |-> surf']
  OBVIOUS
<1>9. Owned(w)
  BY <1>1, <1>5, <1>6, <1>7, <1>8, NewSessions, SessionReplaced, ZenonT(60)
<1>10. /\ Owned(Here)' /\ sess' \in [Sessions -> Session]
       /\ surf' \in [Surfaces -> Surface]
  BY <1>8, <1>9, NextWorld DEF Becomes
<1>11. TypeOK'
  BY <1>1, <1>10 DEF TypeOK
<1>12. /\ \A y \in Sessions \ {c} : sess'[y] = sess[y]
       /\ \A d \in live' : stream'[d] = stream[d]
  BY <1>1
<1>13. SessionsAlive'
  <2>1. \A d \in live' : sess'[d].format = "none" =>
          /\ stream'[d][1] \in LateBound
          /\ ~sess'[d].streaming /\ sess'[d].cap = NoPool
    BY <1>1, <1>12 DEF IInv, SessionsAlive
  <2>2. ASSUME NEW s \in Surfaces
        PROVE  /\ surf'[s].session \in live' \cup {Probe, NoSession}
               /\ surf'[s].dst # Unassigned =>
                    sess'[surf'[s].session].format # "none"
               /\ surf'[s].session = Probe =>
                    sess'[Probe].format # "none" /\ surf'[s].src = Unassigned
               /\ ~surf'[s].live => surf'[s].session = NoSession
    <3>1. /\ surf[s].session \in live \cup {Probe, NoSession}
          /\ surf[s].dst # Unassigned => sess[surf[s].session].format # "none"
          /\ surf[s].session = Probe =>
               sess[Probe].format # "none" /\ surf[s].src = Unassigned
          /\ ~surf[s].live => surf[s].session = NoSession
      BY DEF IInv, SessionsAlive
    <3>2. CASE surf[s].session = c
      BY <1>3, <3>2
    <3>3. CASE surf[s].session # c
      <4>1. surf'[s] = surf[s]
        BY <1>3, <3>3
      <4>2. surf[s].session \in live' \cup {Probe, NoSession}
        BY <1>1, <3>1, <3>3
      <4>3. surf[s].session \in Sessions =>
              sess'[surf[s].session] = sess[surf[s].session]
        BY <1>12, <3>3
      <4>4. surf[s].dst # Unassigned => surf[s].session \in Sessions
        BY <3>1
      <4> QED
        BY <3>1, <4>1, <4>2, <4>3, <4>4
    <3> QED
      BY <3>2, <3>3
  <2> QED
    BY <2>1, <2>2 DEF SessionsAlive
<1>14. PictureOwned'
  <2> SUFFICES ASSUME NEW d \in Contexts, target'[d] # NoSurface
               PROVE  /\ d \in live'
                      /\ surf'[target'[d]].live
                      /\ surf'[target'[d]].session = d
                      /\ surf'[target'[d]].status = "Rendering"
                      /\ surf'[target'[d]].src # Unassigned
                      /\ d \in waiting' => surf'[target'[d]].dst # Unassigned
    BY DEF PictureOwned
  <2>1. d # c /\ target'[d] = target[d]
    BY <1>1
  <2>2. target[d] \in Surfaces /\ surf[target[d]].session = d
    BY <2>1 DEF IInv, PictureOwned
  <2>3. PICK r \in Surfaces : r = target[d]
    BY <2>2
  <2>4. /\ d \in live /\ surf[r].live /\ surf[r].session = d
        /\ surf[r].status = "Rendering" /\ surf[r].src # Unassigned
        /\ d \in waiting => surf[r].dst # Unassigned
    BY <2>1, <2>3 DEF IInv, PictureOwned
  <2>5. surf'[r] = surf[r]
    BY <1>3, <2>1, <2>4
  <2>6. target'[d] = r
    BY <2>1, <2>3
  <2> QED
    BY <1>1, <2>1, <2>4, <2>5, <2>6
<1>15. WaitIsForPicture'
  <2>1. /\ \A d \in waiting : target[d] # NoSurface
        /\ \A s \in Surfaces : surf[s].req = "queued" =>
             \E d \in waiting : target[d] = s
    BY DEF IInv, WaitIsForPicture
  <2>2. \A d \in waiting : d # c /\ target'[d] = target[d]
    BY <1>1
  <2>3. \A s \in Surfaces : surf'[s].req = surf[s].req
    BY <1>3
  <2>4. waiting' = waiting
    BY <1>1
  <2> QED
    BY <2>1, <2>2, <2>3, <2>4 DEF WaitIsForPicture
<1> QED
  BY <1>10, <1>11, <1>13, <1>14, <1>15 DEF IInv

LEMMA DestroySurfaceInv ==
  ASSUME IInv, NEW s \in Surfaces, DestroySurface(s)
  PROVE  IInv'
<1> USE Basics
<1>1. /\ surf[s].live /\ \A c \in waiting : target[c] # s
      /\ live' = live /\ stream' = stream /\ waiting' = waiting
      /\ surf' = [surf EXCEPT ![s] = FreeSlot]
      /\ target' = [c \in Contexts |->
                     IF target[c] = s THEN NoSurface ELSE target[c]]
  BY DEF DestroySurface
<1>2. PICK back \in BOOLEAN :
        back = ~(surf[s].session = NoSession \/ surf[s].status = "Rendering")
  OBVIOUS
<1>3. sess' = IF back THEN ReleaseBoth(surf[s].session, s) ELSE sess
  BY <1>2 DEF DestroySurface
<1>4. back => surf[s].session \in Sessions
  BY <1>2 DEF Surface
<1>5. PICK w : w = [sess |-> sess', surf |-> surf']
  OBVIOUS
<1>6. Owned(w) /\ w.sess = sess' /\ w.surf = surf' /\ SameSessions(Here, w)
  <2>1. w.sess = sess' /\ w.surf = surf'
    BY <1>5
  <2>2. w = [sess |-> IF back THEN ReleaseBoth(surf[s].session, s) ELSE sess,
             surf |-> [surf EXCEPT ![s] = FreeSlot]]
    BY <1>1, <1>3, <1>5
  <2> QED
    <3>1. Owned(Here)
      BY DEF IInv
    <3>2. Owned(w) /\ SameSessions(Here, w)
      BY <1>4, <2>2, <3>1, DestroyedOwned
    <3> QED
      BY <2>1, <3>2
<1>7. /\ Owned(Here)' /\ sess' \in [Sessions -> Session]
      /\ surf' \in [Surfaces -> Surface]
  BY <1>5, <1>6, NextWorld DEF Becomes
<1>8. TypeOK'
  BY <1>1, <1>7 DEF TypeOK
<1>9. /\ surf'[s] = FreeSlot
      /\ \A r \in Surfaces \ {s} : surf'[r] = surf[r]
      /\ FreeSlot.session = NoSession /\ FreeSlot.req = "none"
      /\ FreeSlot.src = Unassigned
  BY <1>1 DEF FreeSlot, FreshSurface
<1>10. SessionsAlive'
  <2>1. Settled(w)
    BY <1>6, SettledHere, SettledStays
  <2>2. \A r \in Surfaces :
          /\ surf'[r].session \in live \cup {Probe, NoSession}
          /\ surf'[r].session = Probe =>
               sess'[Probe].format # "none" /\ surf'[r].src = Unassigned
          /\ ~surf'[r].live => surf'[r].session = NoSession
    BY <1>1, <1>6, <1>9 DEF IInv, SessionsAlive, SameSessions
  <2>3. \A r \in Surfaces : surf'[r].dst # Unassigned =>
          sess'[surf'[r].session].format # "none"
    BY <1>6, <2>1, <2>2, BoundHasLayout
  <2> QED
    BY <1>1, <1>6, <2>1, <2>2, <2>3 DEF SessionsAlive, Settled
<1>11. \A d \in Contexts : target'[d] # NoSurface =>
         /\ target'[d] = target[d] /\ target[d] \in Surfaces \ {s}
         /\ surf'[target'[d]] = surf[target[d]]
  BY <1>1, <1>9
<1>12. PictureOwned'
  BY <1>1, <1>11 DEF IInv, PictureOwned
<1>13. WaitIsForPicture'
  BY <1>1, <1>9 DEF IInv, WaitIsForPicture
<1> QED
  BY <1>7, <1>8, <1>10, <1>12, <1>13 DEF IInv

\* What keeps SessionsAlive when no context comes or goes.
LEMMA AliveStep ==
  ASSUME IInv, NEW v, Owned(v), Becomes(v), live' = live, stream' = stream,
         Settled(v),
         \A r \in Surfaces :
           /\ v.surf[r].live = surf[r].live
           /\ \/ v.surf[r].session = surf[r].session
              \/ surf[r].live /\ v.surf[r].session \in live \cup {Probe}
           /\ v.surf[r].session = Probe =>
                v.sess[Probe].format # "none" /\ v.surf[r].src = Unassigned
  PROVE  SessionsAlive'
<1> USE Basics
<1>1. sess' = v.sess /\ surf' = v.surf
  BY DEF Becomes
<1>2. \A r \in Surfaces :
        /\ v.surf[r].session \in live \cup {Probe, NoSession}
        /\ ~v.surf[r].live => v.surf[r].session = NoSession
  BY DEF IInv, SessionsAlive
<1>3. \A r \in Surfaces : v.surf[r].dst # Unassigned =>
        v.sess[v.surf[r].session].format # "none"
  BY <1>2, BoundHasLayout
<1> QED
  BY <1>1, <1>2, <1>3 DEF SessionsAlive, Settled

\* A step that opens, ends and submits no picture keeps the invariant when
\* the surfaces being rendered keep their bindings.
LEMMA QuietStep ==
  ASSUME IInv, NEW v, Owned(v), Becomes(v),
         live' = live, stream' = stream, target' = target, waiting' = waiting,
         Settled(v),
         \A r \in Surfaces :
           /\ v.surf[r].live = surf[r].live
           /\ \/ v.surf[r].session = surf[r].session
              \/ /\ surf[r].live /\ v.surf[r].session \in live \cup {Probe}
                 /\ surf[r].session \in {Probe, NoSession}
           /\ v.surf[r].session = Probe =>
                v.sess[Probe].format # "none" /\ v.surf[r].src = Unassigned
           /\ v.surf[r].req = "queued" => surf[r].req = "queued"
           /\ surf[r].status = "Rendering" =>
                /\ v.surf[r].status = "Rendering"
                /\ surf[r].src # Unassigned => v.surf[r].src # Unassigned
                /\ surf[r].dst # Unassigned => v.surf[r].dst # Unassigned
  PROVE  IInv'
<1> USE Basics
<1>1. sess' = v.sess /\ surf' = v.surf
  BY DEF Becomes
<1>2. /\ Owned(Here)' /\ sess' \in [Sessions -> Session]
      /\ surf' \in [Surfaces -> Surface]
  BY NextWorld
<1>3. TypeOK'
  BY <1>2 DEF TypeOK
<1>4. SessionsAlive'
  BY AliveStep
<1>5. PictureOwned'
  <2> SUFFICES ASSUME NEW d \in Contexts, target[d] # NoSurface,
                      NEW r \in Surfaces, r = target[d]
               PROVE  /\ d \in live
                      /\ surf'[r].live
                      /\ surf'[r].session = d
                      /\ surf'[r].status = "Rendering"
                      /\ surf'[r].src # Unassigned
                      /\ d \in waiting => surf'[r].dst # Unassigned
    BY DEF PictureOwned
  <2>1. /\ d \in live /\ surf[r].live /\ surf[r].session = d
        /\ surf[r].status = "Rendering" /\ surf[r].src # Unassigned
        /\ d \in waiting => surf[r].dst # Unassigned
    BY DEF IInv, PictureOwned
  <2>2. d # Probe /\ d # NoSession
    OBVIOUS
  <2> QED
    BY <1>1, <2>1, <2>2
<1>6. WaitIsForPicture'
  BY <1>1 DEF IInv, WaitIsForPicture
<1> QED
  BY <1>2, <1>3, <1>4, <1>5, <1>6 DEF IInv

\* The same for a step that changes no session.
LEMMA SameSessionsSettled ==
  ASSUME IInv, NEW v, v.sess = sess
  PROVE  Settled(v)
BY SettledHere, Basics DEF Settled

\* The refused sync closes a descriptor and nothing else.
LEMMA SyncRefusedOwned ==
  ASSUME NEW w, Owned(w), NEW s \in Surfaces
  PROVE  LET v == SyncRefused(w, s) IN
         /\ Owned(v) /\ v.sess = w.sess
         /\ \A r \in Surfaces :
              /\ v.surf[r].live = w.surf[r].live
              /\ v.surf[r].status = w.surf[r].status
              /\ v.surf[r].src = w.surf[r].src
              /\ v.surf[r].dst = w.surf[r].dst
              /\ v.surf[r].session = w.surf[r].session
              /\ v.surf[r].req \in {w.surf[r].req, "none"}
              /\ r # s => v.surf[r] = w.surf[r]
         /\ w.surf[s].session # NoSession
            /\ w.sess[w.surf[s].session].format # "none" => v.surf[s].req = "none"
<1>1. PICK v : v = SyncRefused(w, s)
  OBVIOUS
<1>2. w \in World /\ w.sess \in [Sessions -> Session]
      /\ w.surf \in [Surfaces -> Surface]
      /\ w = [sess |-> w.sess, surf |-> w.surf]
  BY SMTT(40) DEF Owned, World
<1>3. CASE \/ w.surf[s].session = NoSession
           \/ w.sess[w.surf[s].session].format = "none"
  BY <1>1, <1>3 DEF SyncRefused
<1>4. CASE /\ w.surf[s].session # NoSession
           /\ w.sess[w.surf[s].session].format # "none"
  <2>1. v = [w EXCEPT !.surf[s].req = "none"]
    BY <1>1, <1>4 DEF SyncRefused
  <2>2. v = [sess |-> w.sess, surf |-> [w.surf EXCEPT ![s].req = "none"]]
    BY <1>2, <2>1
  <2>3. w.surf[s] \in Surface
    BY <1>2
  <2>4. /\ v.sess = w.sess /\ v.surf \in [Surfaces -> Surface]
        /\ \A r \in Surfaces \ {s} : v.surf[r] = w.surf[r]
        /\ v.surf[s] = [w.surf[s] EXCEPT !.req = "none"]
    BY <1>2, <2>2, <2>3 DEF Surface
  <2>5. /\ v.surf[s].live = w.surf[s].live
        /\ v.surf[s].status = w.surf[s].status
        /\ v.surf[s].src = w.surf[s].src
        /\ v.surf[s].dst = w.surf[s].dst
        /\ v.surf[s].session = w.surf[s].session
        /\ v.surf[s].req = "none"
    BY <2>3, <2>4 DEF Surface
  <2>6. v \in World
    BY <1>2, <2>2, <2>4 DEF World
  <2>7. Owned(v)
    <3>1. \A r \in Surfaces : /\ v.surf[r].src = w.surf[r].src
                              /\ v.surf[r].dst = w.surf[r].dst
                              /\ v.surf[r].session = w.surf[r].session
      BY <2>4, <2>5
    <3> QED
      BY <2>4, <2>6, <3>1, SameBuffers
  <2> QED
    BY <1>1, <2>4, <2>5, <2>7
<1> QED
  BY <1>3, <1>4

LEMMA SyncSurfaceInv ==
  ASSUME IInv, NEW s \in Surfaces, SyncSurface(s)
  PROVE  IInv'
<1> USE Basics
<1>1. PICK v : v = SyncRefused(Here, s)
  OBVIOUS
<1>2. Owned(Here)
  BY DEF IInv
<1>3. /\ Owned(v) /\ v.sess = sess
      /\ \A r \in Surfaces :
           /\ v.surf[r].live = surf[r].live
           /\ v.surf[r].status = surf[r].status
           /\ v.surf[r].src = surf[r].src
           /\ v.surf[r].dst = surf[r].dst
           /\ v.surf[r].session = surf[r].session
           /\ v.surf[r].req \in {surf[r].req, "none"}
  BY <1>1, <1>2, SyncRefusedOwned, SMTT(40)
<1>4. \A r \in Surfaces : surf[r].session = Probe =>
        sess[Probe].format # "none" /\ surf[r].src = Unassigned
  BY DEF IInv, SessionsAlive
<1>5. /\ live' = live /\ stream' = stream /\ target' = target
      /\ waiting' = waiting /\ Becomes(v)
  BY <1>1 DEF SyncSurface
<1> QED
  BY <1>3, <1>4, <1>5, SameSessionsSettled, QuietStep

LEMMA DeriveImageInv ==
  ASSUME IInv, NEW s \in Surfaces, DeriveImage(s)
  PROVE  IInv'
<1> USE Basics
<1>1. CASE surf[s].status = "Rendering" /\ Becomes(SyncRefused(Here, s))
  <2>1. SyncSurface(s)
    BY <1>1 DEF DeriveImage, SyncSurface
  <2> QED
    BY <2>1, SyncSurfaceInv
<1>2. CASE /\ surf[s].status # "Rendering"
           /\ Becomes([Here EXCEPT !.surf[s].status = "Ready"])
  <2>1. PICK v : v = [Here EXCEPT !.surf[s].status = "Ready"]
    OBVIOUS
  <2>2. v = [sess |-> sess, surf |-> [surf EXCEPT ![s].status = "Ready"]]
    BY <2>1 DEF Here
  <2>3. surf[s] \in Surface
    OBVIOUS
  <2>4. /\ v.sess = sess /\ v.surf \in [Surfaces -> Surface]
        /\ \A r \in Surfaces \ {s} : v.surf[r] = surf[r]
        /\ v.surf[s] = [surf[s] EXCEPT !.status = "Ready"]
    BY <2>2, <2>3 DEF Surface
  <2>5. /\ v.surf[s].live = surf[s].live
        /\ v.surf[s].src = surf[s].src
        /\ v.surf[s].dst = surf[s].dst
        /\ v.surf[s].session = surf[s].session
        /\ v.surf[s].req = surf[s].req
    BY <2>3, <2>4 DEF Surface
  <2>6. v \in World
    BY <2>2, <2>4 DEF World
  <2>7. Owned(v)
    <3>1. \A r \in Surfaces : /\ v.surf[r].src = Here.surf[r].src
                              /\ v.surf[r].dst = Here.surf[r].dst
                              /\ v.surf[r].session = Here.surf[r].session
      BY <2>4, <2>5
    <3>2. Owned(Here) /\ v.sess = Here.sess
      BY <2>4 DEF IInv
    <3> QED
      BY <2>6, <3>1, <3>2, SameBuffers
  <2>8. \A r \in Surfaces : surf[r].session = Probe =>
          sess[Probe].format # "none" /\ surf[r].src = Unassigned
    BY DEF IInv, SessionsAlive
  <2>9. /\ live' = live /\ stream' = stream /\ target' = target
        /\ waiting' = waiting /\ Becomes(v)
    BY <1>2, <2>1 DEF DeriveImage
  <2>10. \A r \in Surfaces :
           /\ v.surf[r].live = surf[r].live
           /\ v.surf[r].src = surf[r].src
           /\ v.surf[r].dst = surf[r].dst
           /\ v.surf[r].session = surf[r].session
           /\ v.surf[r].req = surf[r].req
           /\ surf[r].status = "Rendering" => v.surf[r].status = "Rendering"
    BY <1>2, <2>4, <2>5
  <2> QED
    BY <2>4, <2>7, <2>8, <2>9, <2>10, SameSessionsSettled, QuietStep
<1> QED
  BY <1>1, <1>2 DEF DeriveImage

\* The session a first export borrows is open or the probe session.
LEMMA BorrowedFacts ==
  ASSUME IInv, NEW size, NEW format
  PROVE  BorrowedSession(size, format) \in live \cup {Probe}
<1> USE Basics
<1>1. MatchingContexts(size, format) \subseteq live
  BY DEF MatchingContexts
<1>2. CASE \E c \in Contexts : MatchingContexts(size, format) = {c}
  <2>1. PICK d : d = CHOOSE e \in Contexts : MatchingContexts(size, format) = {e}
    OBVIOUS
  <2>2. MatchingContexts(size, format) = {d}
    BY <1>2, <2>1
  <2>3. BorrowedSession(size, format) = d
    BY <1>2, <2>1 DEF BorrowedSession
  <2> QED
    BY <1>1, <2>2, <2>3
<1>3. CASE ~\E c \in Contexts : MatchingContexts(size, format) = {c}
  BY <1>3 DEF BorrowedSession
<1> QED
  BY <1>2, <1>3

\* A world on the way to a picture of c in s, reached from the present one by
\* an adoption and by binds: nothing but bindings of s and surfaces of the
\* probe session has moved, and only to c.
Prepared(v, c, s) ==
  /\ Owned(v)
  /\ v.surf[s].session \in {NoSession, c}
  /\ Settled(v)
  /\ \A r \in Surfaces :
       /\ v.surf[r].live = surf[r].live
       /\ v.surf[r].status = surf[r].status
       /\ v.surf[r].req = "queued" => surf[r].req = "queued"
       /\ surf[r].src # Unassigned => v.surf[r].src # Unassigned
       /\ surf[r].dst # Unassigned => v.surf[r].dst # Unassigned
       /\ \/ v.surf[r].session = surf[r].session
          \/ /\ surf[r].session \in {Probe, NoSession} /\ surf[r].live
             /\ v.surf[r].session = c
       /\ v.surf[r].session = Probe =>
            v.sess[Probe].format # "none" /\ v.surf[r].src = Unassigned

LEMMA PreparedQuiet ==
  ASSUME IInv, NEW c \in live, NEW s \in Surfaces, NEW v, Prepared(v, c, s),
         Becomes(v), live' = live, stream' = stream, target' = target,
         waiting' = waiting
  PROVE  IInv'
<1>1. /\ Owned(v)
      /\ Settled(v)
      /\ \A r \in Surfaces :
           /\ v.surf[r].live = surf[r].live
           /\ v.surf[r].status = surf[r].status
           /\ v.surf[r].req = "queued" => surf[r].req = "queued"
           /\ surf[r].src # Unassigned => v.surf[r].src # Unassigned
           /\ surf[r].dst # Unassigned => v.surf[r].dst # Unassigned
           /\ \/ v.surf[r].session = surf[r].session
              \/ /\ surf[r].live /\ v.surf[r].session \in live \cup {Probe}
                 /\ surf[r].session \in {Probe, NoSession}
           /\ v.surf[r].session = Probe =>
                v.sess[Probe].format # "none" /\ v.surf[r].src = Unassigned
  BY DEF Prepared
<1> QED
  BY <1>1, QuietStep

LEMMA PreparedAdopt ==
  ASSUME IInv, NEW c \in live, NEW s \in Surfaces, NEW h, Owned(h),
         h.sess = sess, Adoptable(h, c, s),
         \A r \in Surfaces : /\ h.surf[r].live = surf[r].live
                             /\ h.surf[r].status = surf[r].status
                             /\ h.surf[r].req = surf[r].req
                             /\ h.surf[r].src = surf[r].src
                             /\ h.surf[r].dst = surf[r].dst
                             /\ h.surf[r].session = surf[r].session
  PROVE  Prepared(Adopt(h, c, s), c, s)
<1> USE Basics
<1>1. PICK w : w = Adopt(h, c, s)
  OBVIOUS
<1>2. Settled(h) /\ c \in Contexts /\ c # Probe
  BY SameSessionsSettled
<1>3. /\ Owned(w)
      /\ w.surf[s].session \in {NoSession, c}
      /\ \A r \in Surfaces :
           /\ w.surf[r].live = h.surf[r].live
           /\ w.surf[r].status = h.surf[r].status
           /\ w.surf[r].req = h.surf[r].req
           /\ w.surf[r].src = h.surf[r].src
           /\ w.surf[r].dst = h.surf[r].dst
           /\ \/ w.surf[r].session = h.surf[r].session
              \/ h.surf[r].session = Probe /\ w.surf[r].session = c
           /\ w.surf[r].session = Probe =>
                w.sess[Probe].format = sess[Probe].format
      /\ \A y \in Contexts : w.sess[y] = sess[y] \/ w.sess[y].format # "none"
  BY <1>1, <1>2, AdoptOwned
<1>4. \A r \in Surfaces : surf[r].session = Probe =>
        sess[Probe].format # "none" /\ surf[r].src = Unassigned
  BY DEF IInv, SessionsAlive
<1>5. \A r \in Surfaces : surf[r].session = Probe => surf[r].live
  BY DEF IInv, SessionsAlive, Surface
<1>6. Settled(w)
  BY <1>2, <1>3 DEF Settled
<1> QED
  BY <1>1, <1>2, <1>3, <1>4, <1>5, <1>6 DEF Prepared

LEMMA PreparedSource ==
  ASSUME IInv, NEW c \in live, NEW s \in Surfaces, surf[s].live,
         NEW w, Prepared(w, c, s), NEW mapped \in BOOLEAN,
         CanBindSource(w, c, s)
  PROVE  LET b == BindSource(w, c, s, mapped) IN
         /\ Prepared(b, c, s)
         /\ mapped => b.surf[s].src # Unassigned /\ b.surf[s].session = c
<1> USE Basics
<1>1. PICK b : b = BindSource(w, c, s, mapped)
  OBVIOUS
<1>2. c \in Sessions /\ c # Probe /\ c # NoSession /\ Probe # NoSession
  OBVIOUS
<1>3. /\ Owned(w) /\ w.surf[s].session \in {NoSession, c}
      /\ \A r \in Surfaces :
           /\ w.surf[r].live = surf[r].live
           /\ w.surf[r].status = surf[r].status
           /\ w.surf[r].req = "queued" => surf[r].req = "queued"
           /\ surf[r].src # Unassigned => w.surf[r].src # Unassigned
           /\ surf[r].dst # Unassigned => w.surf[r].dst # Unassigned
           /\ \/ w.surf[r].session = surf[r].session
              \/ /\ surf[r].session \in {Probe, NoSession} /\ surf[r].live
                 /\ w.surf[r].session = c
           /\ w.surf[r].session = Probe =>
                w.sess[Probe].format # "none" /\ w.surf[r].src = Unassigned
      /\ Settled(w)
  BY DEF Prepared
<1>4. /\ Owned(b)
      /\ SameSessions(w, b)
      /\ \A r \in Surfaces \ {s} : b.surf[r] = w.surf[r]
      /\ b.surf[s].live = w.surf[s].live
      /\ b.surf[s].status = w.surf[s].status
      /\ b.surf[s].req = w.surf[s].req
      /\ b.surf[s].dst = w.surf[s].dst
      /\ b.surf[s].session \in {w.surf[s].session, c}
      /\ b.surf[s].src # Unassigned => b.surf[s].session = c
      /\ mapped => b.surf[s].src # Unassigned
  BY <1>1, <1>2, <1>3, BindSourceOwned
<1>5. w.surf[s].src # Unassigned => b.surf[s].src # Unassigned
  BY <1>1 DEF BindSource
<1>6. /\ b.surf[s].session \in {NoSession, c}
      /\ \/ b.surf[s].session = surf[s].session
         \/ /\ surf[s].session \in {Probe, NoSession} /\ surf[s].live
            /\ b.surf[s].session = c
  BY <1>2, <1>3, <1>4
<1>7. \A r \in Surfaces :
        /\ b.surf[r].live = surf[r].live
        /\ b.surf[r].status = surf[r].status
        /\ b.surf[r].req = "queued" => surf[r].req = "queued"
        /\ surf[r].src # Unassigned => b.surf[r].src # Unassigned
        /\ surf[r].dst # Unassigned => b.surf[r].dst # Unassigned
        /\ \/ b.surf[r].session = surf[r].session
           \/ /\ surf[r].session \in {Probe, NoSession} /\ surf[r].live
              /\ b.surf[r].session = c
        /\ b.surf[r].session = Probe =>
             b.sess[Probe].format # "none" /\ b.surf[r].src = Unassigned
  <2> SUFFICES ASSUME NEW r \in Surfaces
               PROVE  /\ b.surf[r].live = surf[r].live
                      /\ b.surf[r].status = surf[r].status
                      /\ b.surf[r].req = "queued" => surf[r].req = "queued"
                      /\ surf[r].src # Unassigned => b.surf[r].src # Unassigned
                      /\ surf[r].dst # Unassigned => b.surf[r].dst # Unassigned
                      /\ \/ b.surf[r].session = surf[r].session
                         \/ /\ surf[r].session \in {Probe, NoSession}
                            /\ surf[r].live
                            /\ b.surf[r].session = c
                      /\ b.surf[r].session = Probe =>
                           b.sess[Probe].format # "none" /\ b.surf[r].src = Unassigned
    OBVIOUS
  <2>1. CASE r = s
    BY <1>2, <1>3, <1>4, <1>5, <1>6, <2>1
  <2>2. CASE r # s
    BY <1>3, <1>4, <2>2 DEF SameSessions
  <2> QED
    BY <2>1, <2>2
<1>8. Settled(b)
  BY <1>3, <1>4, SettledStays
<1>9. Prepared(b, c, s)
  BY <1>4, <1>6, <1>7, <1>8 DEF Prepared
<1> QED
  BY <1>1, <1>4, <1>9

LEMMA PreparedDestination ==
  ASSUME IInv, NEW c \in live, NEW s \in Surfaces, surf[s].live,
         NEW w, Prepared(w, c, s), NEW mapped \in BOOLEAN,
         CanBindDestination(w, c, s)
  PROVE  LET b == BindDestination(w, c, s, mapped) IN
         /\ Prepared(b, c, s)
         /\ mapped => b.surf[s].dst # Unassigned /\ b.surf[s].session = c
         /\ b.surf[s].src = w.surf[s].src
         /\ SameSessions(w, b)
<1> USE Basics
<1>1. PICK b : b = BindDestination(w, c, s, mapped)
  OBVIOUS
<1>2. c \in Sessions /\ c # Probe /\ c # NoSession /\ Probe # NoSession
  OBVIOUS
<1>3. /\ Owned(w) /\ w.surf[s].session \in {NoSession, c}
      /\ \A r \in Surfaces :
           /\ w.surf[r].live = surf[r].live
           /\ w.surf[r].status = surf[r].status
           /\ w.surf[r].req = "queued" => surf[r].req = "queued"
           /\ surf[r].src # Unassigned => w.surf[r].src # Unassigned
           /\ surf[r].dst # Unassigned => w.surf[r].dst # Unassigned
           /\ \/ w.surf[r].session = surf[r].session
              \/ /\ surf[r].session \in {Probe, NoSession} /\ surf[r].live
                 /\ w.surf[r].session = c
           /\ w.surf[r].session = Probe =>
                w.sess[Probe].format # "none" /\ w.surf[r].src = Unassigned
      /\ Settled(w)
  BY DEF Prepared
<1>4. /\ Owned(b)
      /\ SameSessions(w, b)
      /\ \A r \in Surfaces \ {s} : b.surf[r] = w.surf[r]
      /\ b.surf[s].live = w.surf[s].live
      /\ b.surf[s].status = w.surf[s].status
      /\ b.surf[s].req = w.surf[s].req
      /\ b.surf[s].src = w.surf[s].src
      /\ b.surf[s].session \in {w.surf[s].session, c}
      /\ b.surf[s].dst # Unassigned => b.surf[s].session = c
      /\ mapped => b.surf[s].dst # Unassigned
  BY <1>1, <1>2, <1>3, BindDestinationOwned
<1>5. w.surf[s].dst # Unassigned => b.surf[s].dst # Unassigned
  BY <1>1 DEF BindDestination
<1>6. /\ b.surf[s].session \in {NoSession, c}
      /\ \/ b.surf[s].session = surf[s].session
         \/ /\ surf[s].session \in {Probe, NoSession} /\ surf[s].live
            /\ b.surf[s].session = c
  BY <1>2, <1>3, <1>4
<1>7. \A r \in Surfaces :
        /\ b.surf[r].live = surf[r].live
        /\ b.surf[r].status = surf[r].status
        /\ b.surf[r].req = "queued" => surf[r].req = "queued"
        /\ surf[r].src # Unassigned => b.surf[r].src # Unassigned
        /\ surf[r].dst # Unassigned => b.surf[r].dst # Unassigned
        /\ \/ b.surf[r].session = surf[r].session
           \/ /\ surf[r].session \in {Probe, NoSession} /\ surf[r].live
              /\ b.surf[r].session = c
        /\ b.surf[r].session = Probe =>
             b.sess[Probe].format # "none" /\ b.surf[r].src = Unassigned
  <2> SUFFICES ASSUME NEW r \in Surfaces
               PROVE  /\ b.surf[r].live = surf[r].live
                      /\ b.surf[r].status = surf[r].status
                      /\ b.surf[r].req = "queued" => surf[r].req = "queued"
                      /\ surf[r].src # Unassigned => b.surf[r].src # Unassigned
                      /\ surf[r].dst # Unassigned => b.surf[r].dst # Unassigned
                      /\ \/ b.surf[r].session = surf[r].session
                         \/ /\ surf[r].session \in {Probe, NoSession}
                            /\ surf[r].live
                            /\ b.surf[r].session = c
                      /\ b.surf[r].session = Probe =>
                           b.sess[Probe].format # "none" /\ b.surf[r].src = Unassigned
    OBVIOUS
  <2>1. CASE r = s
    BY <1>2, <1>3, <1>4, <1>5, <1>6, <2>1
  <2>2. CASE r # s
    BY <1>3, <1>4, <2>2 DEF SameSessions
  <2> QED
    BY <2>1, <2>2
<1>8. Settled(b)
  BY <1>3, <1>4, SettledStays
<1>9. Prepared(b, c, s)
  BY <1>4, <1>6, <1>7, <1>8 DEF Prepared
<1> QED
  BY <1>1, <1>4, <1>9

LEMMA ExportSurfaceInv ==
  ASSUME IInv, NEW s \in Surfaces, ExportSurface(s)
  PROVE  IInv'
<1> USE Basics
<1>1. PICK x : x = IF surf[s].session # NoSession THEN surf[s].session
                   ELSE BorrowedSession(surf[s].size, surf[s].format)
  OBVIOUS
<1>2. /\ surf[s].live /\ surf[s].dst = Unassigned /\ sess[x].format # "none"
      /\ CanBindDestination(Here, x, s)
      /\ live' = live /\ stream' = stream /\ target' = target
      /\ waiting' = waiting
  BY <1>1 DEF ExportSurface
<1>3. PICK mapped \in BOOLEAN : Becomes(BindDestination(Here, x, s, mapped))
  BY <1>1 DEF ExportSurface
<1>4. PICK v : v = BindDestination(Here, x, s, mapped)
  OBVIOUS
<1>5. /\ surf[s].session \in live \cup {Probe, NoSession}
      /\ surf[s].session = Probe => surf[s].src = Unassigned
      /\ \A r \in Surfaces : surf[r].session = Probe =>
           sess[Probe].format # "none" /\ surf[r].src = Unassigned
  BY DEF IInv, SessionsAlive
<1>6. /\ x \in live \cup {Probe}
      /\ surf[s].session \in {NoSession, x}
      /\ x = Probe => surf[s].src = Unassigned
  <2>1. CASE surf[s].session # NoSession
    BY <1>1, <1>5, <2>1
  <2>2. CASE surf[s].session = NoSession
    <3>1. x = BorrowedSession(surf[s].size, surf[s].format)
      BY <1>1, <2>2
    <3> QED
      BY <2>2, <3>1, BorrowedFacts
  <2> QED
    BY <2>1, <2>2
<1>7. Owned(Here) /\ x \in Sessions
  BY <1>6 DEF IInv
<1>8. /\ Owned(v)
      /\ SameSessions(Here, v)
      /\ \A r \in Surfaces \ {s} : v.surf[r] = surf[r]
      /\ v.surf[s].live = surf[s].live
      /\ v.surf[s].status = surf[s].status
      /\ v.surf[s].req = surf[s].req
      /\ v.surf[s].src = surf[s].src
      /\ v.surf[s].session \in {surf[s].session, x}
  <2>1. PICK h : h = Here
    OBVIOUS
  <2>2. /\ Owned(h) /\ h.surf[s].session \in {NoSession, x}
        /\ CanBindDestination(h, x, s) /\ v = BindDestination(h, x, s, mapped)
    BY <1>2, <1>4, <1>6, <1>7, <2>1
  <2>3. /\ Owned(v)
        /\ SameSessions(h, v)
        /\ \A r \in Surfaces \ {s} : v.surf[r] = h.surf[r]
        /\ v.surf[s].live = h.surf[s].live
        /\ v.surf[s].status = h.surf[s].status
        /\ v.surf[s].req = h.surf[s].req
        /\ v.surf[s].src = h.surf[s].src
        /\ v.surf[s].session \in {h.surf[s].session, x}
    BY <1>7, <2>2, BindDestinationOwned
  <2>4. h = Here /\ h.sess = sess /\ h.surf = surf
    BY <2>1
  <2> QED
    BY <2>3, <2>4
<1>9. \A r \in Surfaces :
        /\ v.surf[r].live = surf[r].live
        /\ \/ v.surf[r].session = surf[r].session
           \/ /\ surf[r].live /\ v.surf[r].session \in live \cup {Probe}
              /\ surf[r].session \in {Probe, NoSession}
        /\ v.surf[r].session = Probe =>
             v.sess[Probe].format # "none" /\ v.surf[r].src = Unassigned
        /\ v.surf[r].req = "queued" => surf[r].req = "queued"
        /\ surf[r].status = "Rendering" =>
             /\ v.surf[r].status = "Rendering"
             /\ surf[r].src # Unassigned => v.surf[r].src # Unassigned
             /\ surf[r].dst # Unassigned => v.surf[r].dst # Unassigned
  <2>1. v.surf[s].session = Probe =>
          v.sess[Probe].format # "none" /\ v.surf[s].src = Unassigned
    BY <1>2, <1>5, <1>6, <1>8 DEF SameSessions
  <2>2. \/ v.surf[s].session = surf[s].session
        \/ /\ surf[s].live /\ v.surf[s].session \in live \cup {Probe}
           /\ surf[s].session \in {Probe, NoSession}
    BY <1>2, <1>6, <1>8
  <2>3. \A r \in Surfaces \ {s} : v.surf[r].session = Probe =>
          v.sess[Probe].format # "none" /\ v.surf[r].src = Unassigned
    BY <1>5, <1>8 DEF SameSessions
  <2> QED
    BY <1>2, <1>8, <2>1, <2>2, <2>3, ZenonT(60)
<1>10. Settled(v)
  BY <1>8, SettledHere, SettledStays
<1> QED
  BY <1>2, <1>3, <1>4, <1>8, <1>9, <1>10, QuietStep

\* A picture is open in s for c, and nowhere else.
LEMMA OpenPicture ==
  ASSUME IInv, NEW c \in Contexts, target[c] # NoSurface
  PROVE  /\ target[c] \in Surfaces /\ c \in live
         /\ surf[target[c]].live
         /\ surf[target[c]].session = c
         /\ surf[target[c]].status = "Rendering"
         /\ surf[target[c]].src # Unassigned
         /\ c \in waiting => surf[target[c]].dst # Unassigned
         /\ \A d \in Contexts \ {c} : target[d] # target[c]
<1> USE Basics
<1>1. \A d \in Contexts : target[d] # NoSurface =>
        /\ d \in live
        /\ surf[target[d]].live
        /\ surf[target[d]].session = d
        /\ surf[target[d]].status = "Rendering"
        /\ surf[target[d]].src # Unassigned
        /\ d \in waiting => surf[target[d]].dst # Unassigned
  BY DEF IInv, PictureOwned
<1> QED
  BY <1>1

LEMMA BeginSucceedsInv ==
  ASSUME IInv, NEW c \in live \ waiting, NEW s \in Surfaces, surf[s].live,
         NEW v, Prepared(v, c, s), v.surf[s].session = c,
         v.surf[s].src # Unassigned,
         Becomes([v EXCEPT !.surf[s].status = "Rendering"]),
         live' = live, stream' = stream, waiting' = waiting,
         target' = [target EXCEPT ![c] = s]
  PROVE  IInv'
<1> USE Basics
<1>1. PICK u : u = [v EXCEPT !.surf[s].status = "Rendering"]
  OBVIOUS
<1>2. /\ Owned(v) /\ v.surf[s].session \in {NoSession, c}
      /\ \A r \in Surfaces :
           /\ v.surf[r].live = surf[r].live
           /\ v.surf[r].status = surf[r].status
           /\ v.surf[r].req = "queued" => surf[r].req = "queued"
           /\ surf[r].src # Unassigned => v.surf[r].src # Unassigned
           /\ surf[r].dst # Unassigned => v.surf[r].dst # Unassigned
           /\ \/ v.surf[r].session = surf[r].session
              \/ /\ surf[r].session \in {Probe, NoSession} /\ surf[r].live
                 /\ v.surf[r].session = c
           /\ v.surf[r].session = Probe =>
                v.sess[Probe].format # "none" /\ v.surf[r].src = Unassigned
      /\ Settled(v)
  BY DEF Prepared
<1>3. /\ v.sess \in [Sessions -> Session] /\ v.surf \in [Surfaces -> Surface]
      /\ v = [sess |-> v.sess, surf |-> v.surf]
  BY <1>2 DEF Owned, World
<1>4. u = [sess |-> v.sess, surf |-> [v.surf EXCEPT ![s].status = "Rendering"]]
  BY <1>1, <1>3
<1>5. v.surf[s] \in Surface
  BY <1>3
<1>6. /\ u.sess = v.sess /\ u.surf \in [Surfaces -> Surface]
      /\ \A r \in Surfaces \ {s} : u.surf[r] = v.surf[r]
      /\ u.surf[s] = [v.surf[s] EXCEPT !.status = "Rendering"]
  BY <1>3, <1>4, <1>5 DEF Surface
<1>7. /\ u.surf[s].live = v.surf[s].live
      /\ u.surf[s].src = v.surf[s].src
      /\ u.surf[s].dst = v.surf[s].dst
      /\ u.surf[s].session = c
      /\ u.surf[s].req = v.surf[s].req
      /\ u.surf[s].status = "Rendering"
  BY <1>5, <1>6 DEF Surface
<1>8. u \in World
  BY <1>3, <1>4, <1>6 DEF World
<1>9. Owned(u)
  <2>1. \A r \in Surfaces : /\ u.surf[r].src = v.surf[r].src
                            /\ u.surf[r].dst = v.surf[r].dst
                            /\ u.surf[r].session = v.surf[r].session
    BY <1>6, <1>7
  <2> QED
    BY <1>2, <1>6, <1>8, <2>1, SameBuffers
<1>10. /\ Owned(Here)' /\ sess' = u.sess /\ surf' = u.surf /\ Becomes(u)
       /\ sess' \in [Sessions -> Session] /\ surf' \in [Surfaces -> Surface]
  BY <1>1, <1>9, NextWorld DEF Becomes
<1>11. TypeOK'
  BY <1>10 DEF TypeOK
<1>12. SessionsAlive'
  <2>1. \A r \in Surfaces : /\ u.surf[r].live = v.surf[r].live
                            /\ u.surf[r].session = v.surf[r].session
                            /\ u.surf[r].src = v.surf[r].src
    BY <1>6, <1>7
  <2>2. \A r \in Surfaces :
          /\ u.surf[r].live = surf[r].live
          /\ \/ u.surf[r].session = surf[r].session
             \/ surf[r].live /\ u.surf[r].session \in live \cup {Probe}
          /\ u.surf[r].session = Probe =>
               u.sess[Probe].format # "none" /\ u.surf[r].src = Unassigned
    BY <1>2, <1>6, <2>1
  <2>3. Settled(u)
    BY <1>2, <1>6 DEF Settled
  <2> QED
    BY <1>9, <1>10, <2>2, <2>3, AliveStep
<1>13. PictureOwned'
  <2> SUFFICES ASSUME NEW d \in Contexts, target'[d] # NoSurface
               PROVE  /\ d \in live
                      /\ surf'[target'[d]].live
                      /\ surf'[target'[d]].session = d
                      /\ surf'[target'[d]].status = "Rendering"
                      /\ surf'[target'[d]].src # Unassigned
                      /\ d \in waiting => surf'[target'[d]].dst # Unassigned
    BY DEF PictureOwned
  <2>1. CASE d = c
    <3>1. target'[d] = s
      BY <2>1
    <3> QED
      BY <1>2, <1>7, <1>10, <2>1, <3>1
  <2>2. CASE d # c
    <3>1. target'[d] = target[d]
      BY <2>2
    <3>2. PICK r \in Surfaces : r = target[d]
      BY <3>1
    <3>3. /\ d \in live /\ surf[r].live /\ surf[r].session = d
          /\ surf[r].status = "Rendering" /\ surf[r].src # Unassigned
          /\ d \in waiting => surf[r].dst # Unassigned
      BY <3>1, <3>2, OpenPicture
    <3>4. v.surf[r].session = d /\ r # s
      BY <1>2, <2>2, <3>3
    <3>5. surf'[r] = v.surf[r]
      BY <1>6, <1>10, <3>4
    <3>6. target'[d] = r
      BY <3>1, <3>2
    <3> QED
      BY <1>2, <3>3, <3>4, <3>5, <3>6
  <2> QED
    BY <2>1, <2>2
<1>14. WaitIsForPicture'
  <2>1. \A d \in waiting : d # c /\ d \in Contexts /\ target'[d] = target[d]
    OBVIOUS
  <2>2. \A r \in Surfaces : surf'[r].req = "queued" => surf[r].req = "queued"
    <3>1. \A r \in Surfaces : surf'[r].req = v.surf[r].req
      BY <1>6, <1>7, <1>10
    <3> QED
      BY <1>2, <3>1
  <2>3. /\ \A d \in waiting : target[d] # NoSurface
        /\ \A r \in Surfaces : surf[r].req = "queued" =>
             \E d \in waiting : target[d] = r
    BY DEF IInv, WaitIsForPicture
  <2>4. \A d \in waiting' : target'[d] # NoSurface
    BY <2>1, <2>3
  <2>5. \A r \in Surfaces : surf'[r].req = "queued" =>
          \E d \in waiting' : target'[d] = r
    BY <2>1, <2>2, <2>3
  <2> QED
    BY <2>4, <2>5 DEF WaitIsForPicture
<1> QED
  BY <1>10, <1>11, <1>12, <1>13, <1>14 DEF IInv

\* Describing the surface anew is the first thing a BeginPicture may do.
LEMMA RelabelledFacts ==
  ASSUME IInv, NEW c \in live, NEW s \in Surfaces
  PROVE  LET h == Relabelled(c, s) IN
         /\ Owned(h) /\ h.sess = sess
         /\ \A r \in Surfaces : /\ h.surf[r].live = surf[r].live
                                /\ h.surf[r].status = surf[r].status
                                /\ h.surf[r].req = surf[r].req
                                /\ h.surf[r].src = surf[r].src
                                /\ h.surf[r].dst = surf[r].dst
                                /\ h.surf[r].session = surf[r].session
<1> USE Basics
<1>1. Owned(Here)
  BY DEF IInv
<1>2. CASE stream[c][1] \in LateBound /\ sess[c].format = "P010"
  <2>1. PICK v : v = [Here EXCEPT !.surf[s].format = "P010"]
    OBVIOUS
  <2>2. Relabelled(c, s) = v
    BY <1>2, <2>1 DEF Relabelled
  <2>3. sess[c] \in Session
    OBVIOUS
  <2>4. sess[c].format \in Layouts
    BY <1>2, <2>3 DEF Session
  <2>5. "P010" \in Layouts
    BY <1>2, <2>4
  <2>6. /\ Owned(v) /\ v.sess = Here.sess
        /\ \A r \in Surfaces : /\ v.surf[r].live = Here.surf[r].live
                               /\ v.surf[r].status = Here.surf[r].status
                               /\ v.surf[r].req = Here.surf[r].req
                               /\ v.surf[r].src = Here.surf[r].src
                               /\ v.surf[r].dst = Here.surf[r].dst
                               /\ v.surf[r].session = Here.surf[r].session
    BY <1>1, <2>1, <2>5, DescriptionOnly
  <2> QED
    BY <2>2, <2>6
<1>3. CASE ~(stream[c][1] \in LateBound /\ sess[c].format = "P010")
  <2>1. Relabelled(c, s) = Here
    BY <1>3 DEF Relabelled
  <2> QED
    BY <1>1, <2>1
<1> QED
  BY <1>2, <1>3

LEMMA BeginPictureInv ==
  ASSUME IInv, NEW c \in Contexts, NEW s \in Surfaces, BeginPicture(c, s)
  PROVE  IInv'
<1> USE Basics
<1>1. /\ c \in live \ waiting /\ c \in live /\ surf[s].live
      /\ live' = live /\ stream' = stream /\ waiting' = waiting
  BY DEF BeginPicture
<1>2. PICK h : h = Relabelled(c, s)
  OBVIOUS
<1>h. /\ Owned(h) /\ h.sess = sess
      /\ \A r \in Surfaces : /\ h.surf[r].live = surf[r].live
                             /\ h.surf[r].status = surf[r].status
                             /\ h.surf[r].req = surf[r].req
                             /\ h.surf[r].src = surf[r].src
                             /\ h.surf[r].dst = surf[r].dst
                             /\ h.surf[r].session = surf[r].session
  BY <1>1, <1>2, RelabelledFacts
<1>q. CASE Becomes(h) /\ UNCHANGED target
  <2>1. Settled(h)
    BY <1>h, SameSessionsSettled
  <2>2. \A r \in Surfaces : h.surf[r].session = Probe =>
          h.sess[Probe].format # "none" /\ h.surf[r].src = Unassigned
    BY <1>h DEF IInv, SessionsAlive
  <2> QED
    BY <1>1, <1>h, <1>q, <2>1, <2>2, QuietStep
<1>a. SUFFICES ASSUME Adoptable(h, c, s)
               PROVE  IInv'
  BY <1>2, <1>q DEF BeginPicture
<1>w. PICK w : w = Adopt(h, c, s)
  OBVIOUS
<1>3. Prepared(w, c, s)
  BY <1>1, <1>h, <1>a, <1>w, PreparedAdopt
<1>4. CASE BeginRefused(c, s, w)
  <2>1. PICK v : v = SyncRefused(w, s)
    OBVIOUS
  <2>2. Owned(w)
    BY <1>3 DEF Prepared
  <2>3. /\ Owned(v) /\ v.sess = w.sess
        /\ \A r \in Surfaces :
             /\ v.surf[r].live = w.surf[r].live
             /\ v.surf[r].status = w.surf[r].status
             /\ v.surf[r].src = w.surf[r].src
             /\ v.surf[r].dst = w.surf[r].dst
             /\ v.surf[r].session = w.surf[r].session
             /\ v.surf[r].req \in {w.surf[r].req, "none"}
    BY <2>1, <2>2, SyncRefusedOwned
  <2>4. Prepared(v, c, s)
    BY <1>3, <2>3 DEF Prepared, Settled
  <2>5. Becomes(v) /\ target' = target
    BY <1>4, <2>1 DEF BeginRefused
  <2> QED
    BY <1>1, <2>4, <2>5, PreparedQuiet
<1>5. CASE BeginWithoutSource(c, s, w)
  <2>1. CASE Becomes(w)
    BY <1>1, <1>3, <1>5, <2>1, PreparedQuiet DEF BeginWithoutSource
  <2>2. CASE CanBindSource(w, c, s) /\ Becomes(BindSource(w, c, s, FALSE))
    <3>1. Prepared(BindSource(w, c, s, FALSE), c, s)
      BY <1>1, <1>3, <2>2, PreparedSource
    <3> QED
      BY <1>1, <1>5, <2>2, <3>1, PreparedQuiet DEF BeginWithoutSource
  <2> QED
    BY <1>5, <2>1, <2>2 DEF BeginWithoutSource
<1>6. PICK b : b = BindSource(w, c, s, TRUE)
  OBVIOUS
<1>7. CanBindSource(w, c, s) => /\ Prepared(b, c, s)
                                /\ b.surf[s].src # Unassigned
                                /\ b.surf[s].session = c
  <2> SUFFICES ASSUME CanBindSource(w, c, s)
               PROVE  /\ Prepared(b, c, s)
                      /\ b.surf[s].src # Unassigned
                      /\ b.surf[s].session = c
    OBVIOUS
  <2>1. c \in live
    BY <1>1
  <2>2. \A m \in BOOLEAN :
          /\ Prepared(BindSource(w, c, s, m), c, s)
          /\ m => /\ BindSource(w, c, s, m).surf[s].src # Unassigned
                  /\ BindSource(w, c, s, m).surf[s].session = c
    BY <1>1, <1>3, <2>1, PreparedSource
  <2> QED
    BY <1>6, <2>2
<1>8. CASE BeginWithoutDestination(c, s, w)
  <2>1. CanBindSource(w, c, s) /\ target' = target
    BY <1>8 DEF BeginWithoutDestination
  <2>2. CASE Becomes(b)
    BY <1>1, <1>7, <2>1, <2>2, PreparedQuiet
  <2>3. CASE CanBindDestination(b, c, s) /\ Becomes(BindDestination(b, c, s, FALSE))
    <3>1. Prepared(BindDestination(b, c, s, FALSE), c, s)
      BY <1>1, <1>7, <2>1, <2>3, PreparedDestination
    <3> QED
      BY <1>1, <2>1, <2>3, <3>1, PreparedQuiet
  <2> QED
    BY <1>6, <1>8, <2>2, <2>3 DEF BeginWithoutDestination
<1>9. CASE BeginSucceeds(c, s, w)
  <2>1. PICK d : d = IF stream[c][1] \in LateBound THEN b
                     ELSE BindDestination(b, c, s, TRUE)
    OBVIOUS
  <2>2. /\ CanBindSource(w, c, s)
        /\ stream[c][1] \in LateBound \/ CanBindDestination(b, c, s)
        /\ Becomes([d EXCEPT !.surf[s].status = "Rendering"])
        /\ target' = [target EXCEPT ![c] = s]
    BY <1>6, <1>9, <2>1 DEF BeginSucceeds
  <2>3. /\ Prepared(d, c, s)
        /\ d.surf[s].src # Unassigned /\ d.surf[s].session = c
    <3>1. CASE stream[c][1] \in LateBound
      BY <1>7, <2>1, <2>2, <3>1
    <3>2. CASE stream[c][1] \notin LateBound
      <4>1. d = BindDestination(b, c, s, TRUE)
        BY <2>1, <3>2
      <4>2. /\ Prepared(b, c, s) /\ b.surf[s].src # Unassigned
            /\ CanBindDestination(b, c, s) /\ c \in live
        BY <1>1, <1>7, <2>2, <3>2
      <4>3. \A m \in BOOLEAN :
              /\ Prepared(BindDestination(b, c, s, m), c, s)
              /\ m => BindDestination(b, c, s, m).surf[s].session = c
              /\ BindDestination(b, c, s, m).surf[s].src = b.surf[s].src
        BY <1>1, <4>2, PreparedDestination
      <4> QED
        BY <4>1, <4>2, <4>3
    <3> QED
      BY <3>1, <3>2
  <2> QED
    BY <1>1, <2>2, <2>3, BeginSucceedsInv
<1>10. \/ Becomes(h) /\ UNCHANGED target
       \/ BeginRefused(c, s, w)
       \/ BeginWithoutSource(c, s, w)
       \/ BeginWithoutDestination(c, s, w)
       \/ BeginSucceeds(c, s, w)
  BY <1>2, <1>w DEF BeginPicture
<1> QED
  BY <1>q, <1>4, <1>5, <1>8, <1>9, <1>10

\* What the end of vaEndPicture does to a request leaves the bindings alone.
OnlySubmitted(w, v, c, s, req) ==
  /\ Owned(v)
  /\ \A y \in Sessions : /\ v.sess[y].format = w.sess[y].format
                         /\ y # c => v.sess[y] = w.sess[y]
  /\ \A r \in Surfaces :
       /\ v.surf[r].live = w.surf[r].live
       /\ v.surf[r].status = w.surf[r].status
       /\ v.surf[r].src = w.surf[r].src
       /\ v.surf[r].dst = w.surf[r].dst
       /\ v.surf[r].session = w.surf[r].session
       /\ r # s => v.surf[r] = w.surf[r]
  /\ v.surf[s].req = req

LEMMA SubmittedOwned ==
  ASSUME NEW w, Owned(w), NEW c \in Sessions, NEW s \in Surfaces,
         NEW req \in {"none", "idle", "queued"}, NEW v,
         \E started \in BOOLEAN : v = Submitted(w, c, s, req, started)
  PROVE  OnlySubmitted(w, v, c, s, req)
<1>1. w.sess \in [Sessions -> Session] /\ w.surf \in [Surfaces -> Surface]
  BY DEF Owned, World
<1>2. PICK started \in BOOLEAN :
      v = [sess |-> [w.sess EXCEPT ![c].streaming = started],
           surf |-> [w.surf EXCEPT ![s].req = req]]
  BY DEF Submitted
<1>3. w.sess[c] \in Session /\ w.surf[s] \in Surface
  BY <1>1
<1>4. /\ v.sess \in [Sessions -> Session] /\ v.surf \in [Surfaces -> Surface]
      /\ \A y \in Sessions \ {c} : v.sess[y] = w.sess[y]
      /\ \A r \in Surfaces \ {s} : v.surf[r] = w.surf[r]
      /\ v.sess[c] = [w.sess[c] EXCEPT !.streaming = started]
      /\ v.surf[s] = [w.surf[s] EXCEPT !.req = req]
  <2>1. [w.sess[c] EXCEPT !.streaming = started] \in Session
    BY <1>3 DEF Session
  <2>2. [w.surf[s] EXCEPT !.req = req] \in Surface
    BY <1>3 DEF Surface
  <2> QED
    BY <1>1, <1>2, <2>1, <2>2
<1>5. /\ \A y \in Sessions : /\ v.sess[y].format = w.sess[y].format
                             /\ v.sess[y].out = w.sess[y].out
                             /\ v.sess[y].cap = w.sess[y].cap
                             /\ y # c => v.sess[y] = w.sess[y]
      /\ \A r \in Surfaces :
           /\ v.surf[r].live = w.surf[r].live
           /\ v.surf[r].status = w.surf[r].status
           /\ v.surf[r].src = w.surf[r].src
           /\ v.surf[r].dst = w.surf[r].dst
           /\ v.surf[r].session = w.surf[r].session
           /\ r # s => v.surf[r] = w.surf[r]
      /\ v.surf[s].req = req
  <2>1. /\ v.sess[c].format = w.sess[c].format
        /\ v.sess[c].out = w.sess[c].out /\ v.sess[c].cap = w.sess[c].cap
    BY <1>3, <1>4 DEF Session
  <2>2. /\ v.surf[s].live = w.surf[s].live
        /\ v.surf[s].status = w.surf[s].status
        /\ v.surf[s].src = w.surf[s].src
        /\ v.surf[s].dst = w.surf[s].dst
        /\ v.surf[s].session = w.surf[s].session
        /\ v.surf[s].req = req
    BY <1>3, <1>4 DEF Surface
  <2> QED
    BY <1>4, <2>1, <2>2
<1>6. v \in World
  BY <1>2, <1>4 DEF World
<1>7. Owned(v)
  BY <1>5, <1>6, SameBuffers
<1> QED
  BY <1>5, <1>7 DEF OnlySubmitted

LEMMA SubmittedSettled ==
  ASSUME IInv, NEW w, Settled(w), NEW c \in live, w.sess[c].format # "none",
         NEW v, NEW s, NEW req, OnlySubmitted(w, v, c, s, req)
  PROVE  Settled(v)
<1>1. ASSUME NEW d \in live, v.sess[d].format = "none"
      PROVE  v.sess[d] = w.sess[d]
  <2>1. d \in Sessions
    BY Basics
  <2>2. v.sess[d].format = w.sess[d].format /\ (d # c => v.sess[d] = w.sess[d])
    BY <2>1 DEF OnlySubmitted
  <2> QED
    BY <1>1, <2>2
<1> QED
  BY <1>1 DEF Settled

\* The end of vaEndPicture, from a world that is only a switch of bit depth
\* away from the present one.
LEMMA EndPictureInInv ==
  ASSUME IInv, NEW c \in live \ waiting, NEW s, s = target[c], s # NoSurface,
         NEW u, Prepared(u, c, s), u.surf = surf, u.sess[c].format # "none",
         EndPictureIn(u, c, s), live' = live, stream' = stream, target' = target
  PROVE  IInv'
<1> USE Basics
<1>1. /\ s \in Surfaces /\ c \in live /\ surf[s].live /\ surf[s].session = c
      /\ surf[s].status = "Rendering" /\ surf[s].src # Unassigned
      /\ \A d \in Contexts \ {c} : target[d] # s
  BY OpenPicture
<1>2. PICK v : v = Described(u, c, s)
  OBVIOUS
<1>3. Owned(u) /\ Settled(u)
  BY DEF Prepared
<1>4. /\ Owned(v) /\ v.sess = u.sess
      /\ \A r \in Surfaces : /\ v.surf[r].live = u.surf[r].live
                             /\ v.surf[r].status = u.surf[r].status
                             /\ v.surf[r].req = u.surf[r].req
                             /\ v.surf[r].src = u.surf[r].src
                             /\ v.surf[r].dst = u.surf[r].dst
                             /\ v.surf[r].session = u.surf[r].session
  <2>1. CASE stream[c][1] \in LateBound
    <3>1. PICK f : f = u.sess[c].format
      OBVIOUS
    <3>2. f \in Layouts
      BY <1>3, <3>1 DEF Owned, World, Session
    <3>3. v = [u EXCEPT !.surf[s].format = f]
      BY <1>2, <2>1, <3>1 DEF Described
    <3> QED
      BY <1>1, <1>3, <3>2, <3>3, DescriptionOnly
  <2>2. CASE stream[c][1] \notin LateBound
    BY <1>2, <1>3, <2>2 DEF Described
  <2> QED
    BY <2>1, <2>2
<1>5. Prepared(v, c, s) /\ v.surf[s].session = c /\ v.surf[s].src # Unassigned
  <2>1. Settled(v)
    BY <1>3, <1>4 DEF Settled
  <2> QED
    BY <1>1, <1>4, <2>1 DEF Prepared
<1>6. CASE Becomes(v) /\ UNCHANGED waiting
  BY <1>1, <1>5, <1>6, PreparedQuiet
<1>7. SUFFICES ASSUME CanBindDestination(v, c, s)
               PROVE  IInv'
  BY <1>2, <1>6 DEF EndPictureIn
<1>8. \A m \in BOOLEAN :
        /\ Prepared(BindDestination(v, c, s, m), c, s)
        /\ m => /\ BindDestination(v, c, s, m).surf[s].dst # Unassigned
                /\ BindDestination(v, c, s, m).surf[s].session = c
        /\ BindDestination(v, c, s, m).surf[s].src = v.surf[s].src
        /\ SameSessions(v, BindDestination(v, c, s, m))
  BY <1>1, <1>5, <1>7, PreparedDestination
<1>9. CASE Becomes(BindDestination(v, c, s, FALSE)) /\ UNCHANGED waiting
  BY <1>1, <1>8, <1>9, PreparedQuiet
<1>10. PICK w : w = BindDestination(v, c, s, TRUE)
  OBVIOUS
<1>11. /\ Prepared(w, c, s) /\ w.surf[s].dst # Unassigned
       /\ w.surf[s].session = c /\ w.surf[s].src # Unassigned
       /\ SameSessions(v, w)
  BY <1>5, <1>8, <1>10
<1>12. w.sess[c].format # "none" /\ Owned(w) /\ Settled(w) /\ c \in Sessions
  BY <1>4, <1>11 DEF Prepared, SameSessions
<1>13. CASE Becomes(w) /\ UNCHANGED waiting
  BY <1>1, <1>11, <1>13, PreparedQuiet
<1>14. ASSUME NEW req \in {"none", "idle"}, UNCHANGED waiting,
              \E started \in BOOLEAN : Becomes(Submitted(w, c, s, req, started))
       PROVE  IInv'
  <2>1. PICK x : /\ \E started \in BOOLEAN : x = Submitted(w, c, s, req, started)
                 /\ Becomes(x)
    BY <1>14
  <2>2. OnlySubmitted(w, x, c, s, req)
    BY <1>1, <1>12, <2>1, SubmittedOwned
  <2>3. Settled(x)
    BY <1>1, <1>12, <2>2, SubmittedSettled
  <2>4. Prepared(x, c, s)
    <3>1. \A r \in Surfaces : x.surf[r].req = "queued" => w.surf[r].req = "queued"
      <4>1. x.surf[s].req # "queued"
        BY <1>14, <2>2 DEF OnlySubmitted
      <4>2. \A r \in Surfaces \ {s} : x.surf[r] = w.surf[r]
        BY <2>2 DEF OnlySubmitted
      <4> QED
        BY <4>1, <4>2
    <3> QED
      BY <1>1, <1>11, <2>2, <2>3, <3>1 DEF Prepared, OnlySubmitted
  <2> QED
    BY <1>1, <1>14, <2>1, <2>4, PreparedQuiet
<1>15. CASE /\ Becomes(Submitted(w, c, s, "queued", TRUE))
            /\ waiting' = waiting \cup {c}
  <2>1. PICK x : /\ \E started \in BOOLEAN :
                      x = Submitted(w, c, s, "queued", started)
                 /\ Becomes(x)
    BY <1>15
  <2>2. OnlySubmitted(w, x, c, s, "queued") /\ Owned(x)
    <3>1. \A req \in {"queued"} : OnlySubmitted(w, x, c, s, req)
      BY <1>1, <1>12, <2>1, SubmittedOwned
    <3> QED
      BY <3>1 DEF OnlySubmitted
  <2>s. Settled(x)
    BY <1>1, <1>12, <2>2, SubmittedSettled
  <2>3. /\ Settled(x)
        /\ \A r \in Surfaces :
             /\ x.surf[r].live = surf[r].live
             /\ x.surf[r].status = surf[r].status
             /\ surf[r].src # Unassigned => x.surf[r].src # Unassigned
             /\ surf[r].dst # Unassigned => x.surf[r].dst # Unassigned
             /\ \/ x.surf[r].session = surf[r].session
                \/ /\ surf[r].session \in {Probe, NoSession} /\ surf[r].live
                   /\ x.surf[r].session = c
             /\ x.surf[r].session = Probe =>
                  x.sess[Probe].format # "none" /\ x.surf[r].src = Unassigned
             /\ r # s => (x.surf[r].req = "queued" => surf[r].req = "queued")
    <3>1. \A r \in Surfaces :
            /\ x.surf[r].live = w.surf[r].live
            /\ x.surf[r].status = w.surf[r].status
            /\ x.surf[r].src = w.surf[r].src
            /\ x.surf[r].dst = w.surf[r].dst
            /\ x.surf[r].session = w.surf[r].session
            /\ r # s => x.surf[r].req = w.surf[r].req
      BY <2>2 DEF OnlySubmitted
    <3>2. x.sess[Probe].format = w.sess[Probe].format
      BY <2>2 DEF OnlySubmitted
    <3>3. \A r \in Surfaces :
            /\ w.surf[r].live = surf[r].live
            /\ w.surf[r].status = surf[r].status
            /\ w.surf[r].req = "queued" => surf[r].req = "queued"
            /\ surf[r].src # Unassigned => w.surf[r].src # Unassigned
            /\ surf[r].dst # Unassigned => w.surf[r].dst # Unassigned
            /\ \/ w.surf[r].session = surf[r].session
               \/ /\ surf[r].session \in {Probe, NoSession} /\ surf[r].live
                  /\ w.surf[r].session = c
            /\ w.surf[r].session = Probe =>
                 w.sess[Probe].format # "none" /\ w.surf[r].src = Unassigned
      BY <1>11 DEF Prepared
    <3> QED
      BY <2>s, <3>1, <3>2, <3>3
  <2>4. /\ Owned(Here)' /\ sess' = x.sess /\ surf' = x.surf /\ Becomes(x)
        /\ sess' \in [Sessions -> Session] /\ surf' \in [Surfaces -> Surface]
    BY <2>1, <2>2, NextWorld DEF Becomes
  <2>5. TypeOK'
    BY <1>1, <1>15, <2>4 DEF TypeOK
  <2>6. SessionsAlive'
    <3>1. \A r \in Surfaces :
            /\ x.surf[r].live = surf[r].live
            /\ \/ x.surf[r].session = surf[r].session
               \/ surf[r].live /\ x.surf[r].session \in live \cup {Probe}
            /\ x.surf[r].session = Probe =>
                 x.sess[Probe].format # "none" /\ x.surf[r].src = Unassigned
      BY <1>1, <2>3
    <3> QED
      BY <2>2, <2>3, <2>4, <3>1, AliveStep
  <2>7. PictureOwned'
    <3> SUFFICES ASSUME NEW d \in Contexts, target[d] # NoSurface,
                        NEW r \in Surfaces, r = target[d]
                 PROVE  /\ d \in live
                        /\ surf'[r].live
                        /\ surf'[r].session = d
                        /\ surf'[r].status = "Rendering"
                        /\ surf'[r].src # Unassigned
                        /\ d \in waiting' => surf'[r].dst # Unassigned
      BY DEF PictureOwned
    <3>1. /\ d \in live /\ surf[r].live /\ surf[r].session = d
          /\ surf[r].status = "Rendering" /\ surf[r].src # Unassigned
          /\ d \in waiting => surf[r].dst # Unassigned
      BY OpenPicture
    <3>2. d = c => surf'[r].dst # Unassigned
      BY <1>1, <1>11, <2>2, <2>4 DEF OnlySubmitted
    <3>3. surf'[r].session = d
      BY <2>3, <2>4, <3>1
    <3> QED
      BY <1>15, <2>3, <2>4, <3>1, <3>2, <3>3
  <2>8. WaitIsForPicture'
    <3>1. /\ \A d \in waiting : target[d] # NoSurface
          /\ \A r \in Surfaces : surf[r].req = "queued" =>
               \E d \in waiting : target[d] = r
      BY DEF IInv, WaitIsForPicture
    <3>2. \A d \in waiting' : target'[d] # NoSurface
      BY <1>15, <3>1
    <3>3. \A r \in Surfaces : surf'[r].req = "queued" =>
            \E d \in waiting' : target'[d] = r
      BY <1>15, <2>3, <2>4, <3>1
    <3> QED
      BY <3>2, <3>3 DEF WaitIsForPicture
  <2> QED
    BY <2>4, <2>5, <2>6, <2>7, <2>8 DEF IInv
<1>16. sess[c].streaming \in BOOLEAN
  BY <1>1 DEF Session
<1>17. \/ Becomes(v) /\ UNCHANGED waiting
       \/ Becomes(BindDestination(v, c, s, FALSE)) /\ UNCHANGED waiting
       \/ Becomes(w) /\ UNCHANGED waiting
       \/ \E req \in {"none", "idle"} :
            /\ \E started \in BOOLEAN : Becomes(Submitted(w, c, s, req, started))
            /\ UNCHANGED waiting
       \/ /\ Becomes(Submitted(w, c, s, "queued", TRUE))
          /\ waiting' = waiting \cup {c}
  BY <1>2, <1>10, <1>16 DEF EndPictureIn
<1> QED
  BY <1>6, <1>9, <1>13, <1>14, <1>15, <1>17

\* The CAPTURE queue may be replaced: no surface has a buffer of it.
LEMMA SwitchedPrepared ==
  ASSUME IInv, NEW c \in live \ waiting, NEW s, s = target[c], s # NoSurface,
         MaySwitch(c), stream[c][1] \in LateBound,
         NEW f \in Layouts \cup {"none"}, NEW p, PoolOK(p),
         f = "none" => p = NoPool, NEW u, u = Switched(c, f, p)
  PROVE  Prepared(u, c, s) /\ u.surf = surf /\ u.sess[c].format = f
<1> USE Basics
<1>1. /\ c \in Contexts /\ c \in Sessions /\ c # Probe /\ c # NoSession
      /\ Owned(Here) /\ s \in Surfaces /\ surf[s].session = c
  BY OpenPicture DEF IInv
<1>2. u = [sess |-> [sess EXCEPT ![c].format = f, ![c].cap = p], surf |-> surf]
  BY DEF Switched, Here
<1>3. sess[c] \in Session /\ p \in Pool
  BY <1>1 DEF PoolOK
<1>4. /\ u.surf = surf /\ u.sess \in [Sessions -> Session]
      /\ \A y \in Sessions : y # c => u.sess[y] = sess[y]
      /\ u.sess[c].format = f /\ u.sess[c].cap = p
      /\ u.sess[c].out = sess[c].out
      /\ u.sess[c].streaming = sess[c].streaming
  <2>1. /\ u.surf = surf /\ u.sess = [sess EXCEPT ![c].format = f, ![c].cap = p]
    BY <1>2
  <2>2. /\ \A y \in Sessions : y # c => u.sess[y] = sess[y]
        /\ u.sess[c] = [sess[c] EXCEPT !.format = f, !.cap = p]
        /\ u.sess = [y \in Sessions |-> u.sess[y]]
    BY <1>1, <2>1
  <2>3. /\ u.sess[c] \in Session /\ u.sess[c].format = f /\ u.sess[c].cap = p
        /\ u.sess[c].out = sess[c].out
        /\ u.sess[c].streaming = sess[c].streaming
    BY <1>3, <2>2 DEF Session
  <2> QED
    BY <2>1, <2>2, <2>3
<1>5. /\ \A y \in Sessions : PoolOK(sess[y].out) /\ PoolOK(sess[y].cap)
      /\ \A r \in Surfaces :
           /\ surf[r].src # Unassigned =>
                /\ surf[r].session \in Sessions
                /\ surf[r].src \in Held(sess[surf[r].session].out)
           /\ surf[r].dst # Unassigned =>
                /\ surf[r].session \in Sessions
                /\ surf[r].dst \in Held(sess[surf[r].session].cap)
      /\ \A r, t \in Surfaces :
           r # t /\ surf[r].session = surf[t].session =>
             /\ surf[r].src # Unassigned => surf[r].src # surf[t].src
             /\ surf[r].dst # Unassigned => surf[r].dst # surf[t].dst
  BY <1>1 DEF Owned
<1>6. sess[c].cap.next = 0 /\ ~sess[c].streaming
  BY DEF MaySwitch
<1>7. \A r \in Surfaces : surf[r].session = c => surf[r].dst = Unassigned
  BY <1>1, <1>5, <1>6, HeldInRange
<1>8. u \in World
  BY <1>2, <1>4 DEF World
<1>9. Owned(u)
  <2>1. \A y \in Sessions : PoolOK(u.sess[y].out) /\ PoolOK(u.sess[y].cap)
    BY <1>4, <1>5
  <2>2. \A r \in Surfaces :
          /\ surf[r].src # Unassigned =>
               surf[r].src \in Held(u.sess[surf[r].session].out)
          /\ surf[r].dst # Unassigned =>
               surf[r].dst \in Held(u.sess[surf[r].session].cap)
    BY <1>4, <1>5, <1>7
  <2> QED
    BY <1>4, <1>5, <1>8, <2>1, <2>2 DEF Owned
<1>10. Settled(u)
  BY <1>4, <1>6, SettledHere DEF Settled
<1>11. \A r \in Surfaces : u.surf[r].session = Probe =>
         u.sess[Probe].format # "none" /\ u.surf[r].src = Unassigned
  BY <1>1, <1>4 DEF IInv, SessionsAlive
<1> QED
  BY <1>1, <1>4, <1>9, <1>10, <1>11 DEF Prepared

LEMMA EndPictureInv ==
  ASSUME IInv, NEW c \in Contexts, EndPicture(c)
  PROVE  IInv'
<1> USE Basics
<1>1. PICK s : s = target[c]
  OBVIOUS
<1>2. /\ c \in live \ waiting /\ s # NoSurface /\ sess[c].format # "none"
      /\ live' = live /\ stream' = stream /\ target' = target
  BY <1>1 DEF EndPicture
<1>3. s \in Surfaces /\ surf[s].session = c
  BY <1>1, <1>2, OpenPicture
<1>4. CASE EndPictureIn(Here, c, s)
  <2>1. Owned(Here) /\ Settled(Here)
    BY SettledHere DEF IInv
  <2>2. Prepared(Here, c, s)
    BY <1>2, <1>3, <2>1 DEF Prepared, IInv, SessionsAlive
  <2> QED
    BY <1>1, <1>2, <1>4, <2>2, EndPictureInInv
<1>5. ASSUME stream[c][1] \in LateBound, MaySwitch(c),
             NEW left \in Layouts \cup {"none"},
             Becomes(Switched(c, left, NoPool)), UNCHANGED waiting
      PROVE  IInv'
  <2>1. PICK u : u = Switched(c, left, NoPool)
    OBVIOUS
  <2>2. PoolOK(NoPool)
    BY NewSessions
  <2>3. Prepared(u, c, s)
    BY <1>1, <1>2, <1>5, <2>1, <2>2, SwitchedPrepared
  <2> QED
    BY <1>2, <1>3, <1>5, <2>1, <2>3, PreparedQuiet
<1>6. ASSUME stream[c][1] \in LateBound, MaySwitch(c),
             NEW format \in Layouts, NEW ncap \in PoolSizes,
             EndPictureIn(Switched(c, format, NewPool(ncap)), c, s)
      PROVE  IInv'
  <2>1. PICK p : p = NewPool(ncap)
    OBVIOUS
  <2>2. PoolOK(p) /\ format # "none"
    BY <2>1, NewSessions
  <2>3. PICK u : u = Switched(c, format, p)
    OBVIOUS
  <2>4. Prepared(u, c, s) /\ u.surf = surf /\ u.sess[c].format # "none"
    BY <1>1, <1>2, <1>6, <2>2, <2>3, SwitchedPrepared
  <2>5. EndPictureIn(u, c, s)
    BY <1>6, <2>1, <2>3
  <2> QED
    BY <1>1, <1>2, <2>4, <2>5, EndPictureInInv
<1>7. sess[c].format \in Layouts \cup {"none"}
  BY DEF Session
<1>8. \/ EndPictureIn(Here, c, s)
      \/ /\ stream[c][1] \in LateBound /\ MaySwitch(c)
         /\ \E left \in Layouts \cup {"none"} :
              Becomes(Switched(c, left, NoPool)) /\ UNCHANGED waiting
      \/ /\ stream[c][1] \in LateBound /\ MaySwitch(c)
         /\ \E format \in Layouts, ncap \in PoolSizes :
              EndPictureIn(Switched(c, format, NewPool(ncap)), c, s)
  <2>1. \/ EndPictureIn(Here, c, s)
        \/ /\ stream[c][1] \in LateBound /\ MaySwitch(c)
           /\ \E format \in Layouts \ {sess[c].format} :
                \/ /\ \E left \in {sess[c].format, "none", format} :
                        Becomes(Switched(c, left, NoPool))
                   /\ UNCHANGED waiting
                \/ \E ncap \in PoolSizes :
                     EndPictureIn(Switched(c, format, NewPool(ncap)), c, s)
    BY <1>1, Zenon DEF EndPicture
  <2> QED
    BY <1>7, <2>1
<1> QED
  BY <1>4, <1>5, <1>6, <1>8

LEMMA PictureDoneInv ==
  ASSUME IInv, NEW c \in Contexts, PictureDone(c)
  PROVE  IInv'
<1> USE Basics
<1>1. PICK s : s = target[c]
  OBVIOUS
<1>2. /\ c \in waiting /\ waiting' = waiting \ {c}
      /\ target' = [target EXCEPT ![c] = NoSurface]
      /\ live' = live /\ stream' = stream
      /\ Becomes(ReleaseSource(
           [Here EXCEPT !.surf[s].status = "Displaying", !.surf[s].req = "idle"],
           c, s))
  BY <1>1 DEF PictureDone
<1>3. s # NoSurface
  BY <1>1, <1>2 DEF IInv, WaitIsForPicture
<1>4. /\ s \in Surfaces /\ c \in live /\ surf[s].live /\ surf[s].session = c
      /\ \A d \in Contexts \ {c} : target[d] # s
  BY <1>1, <1>3, OpenPicture
<1>5. PICK w : w = [Here EXCEPT !.surf[s].status = "Displaying",
                                !.surf[s].req = "idle"]
  OBVIOUS
<1>6. surf[s] \in Surface
  BY <1>4
<1>7. w = [sess |-> sess,
           surf |-> [surf EXCEPT ![s] = [surf[s] EXCEPT !.status = "Displaying",
                                                        !.req = "idle"]]]
  BY <1>4, <1>5 DEF Here
<1>8. PICK g : g = [surf[s] EXCEPT !.status = "Displaying", !.req = "idle"]
  OBVIOUS
<1>9. /\ g \in Surface /\ g.live = surf[s].live /\ g.src = surf[s].src
      /\ g.dst = surf[s].dst /\ g.session = c /\ g.req = "idle"
  BY <1>4, <1>6, <1>8 DEF Surface
<1>10. /\ w.sess = sess /\ w.surf \in [Surfaces -> Surface] /\ w.surf[s] = g
       /\ \A r \in Surfaces \ {s} : w.surf[r] = surf[r]
       /\ w \in World
  BY <1>4, <1>7, <1>8, <1>9 DEF World
<1>11. Owned(w)
  <2>1. \A r \in Surfaces : /\ w.surf[r].src = Here.surf[r].src
                            /\ w.surf[r].dst = Here.surf[r].dst
                            /\ w.surf[r].session = Here.surf[r].session
    BY <1>4, <1>9, <1>10
  <2>2. Owned(Here) /\ w.sess = Here.sess
    BY <1>10 DEF IInv
  <2> QED
    BY <1>10, <2>1, <2>2, SameBuffers
<1>12. PICK v : v = ReleaseSource(w, c, s)
  OBVIOUS
<1>13. /\ Owned(v) /\ SameSessions(Here, v)
       /\ \A r \in Surfaces \ {s} : v.surf[r] = surf[r]
       /\ v.surf[s].live = surf[s].live
       /\ v.surf[s].req = "idle"
       /\ v.surf[s].session = c
  <2>1. w.surf[s].session = c /\ c \in Sessions
    BY <1>4, <1>9, <1>10
  <2>2. /\ Owned(v)
        /\ SameSessions(w, v)
        /\ \A r \in Surfaces \ {s} : v.surf[r] = w.surf[r]
        /\ v.surf[s].live = w.surf[s].live
        /\ v.surf[s].req = w.surf[s].req
        /\ v.surf[s].session = c
    BY <1>4, <1>11, <1>12, <2>1, ReleaseSourceOwned, SMTT(40)
  <2>3. SameSessions(Here, v)
    BY <1>10, <2>2 DEF SameSessions
  <2> QED
    BY <1>9, <1>10, <2>2, <2>3
<1>14. /\ Owned(Here)' /\ sess' = v.sess /\ surf' = v.surf /\ Becomes(v)
       /\ sess' \in [Sessions -> Session] /\ surf' \in [Surfaces -> Surface]
  BY <1>2, <1>5, <1>12, <1>13, NextWorld DEF Becomes
<1>15. TypeOK'
  BY <1>2, <1>14 DEF TypeOK
<1>16. SessionsAlive'
  <2>1. \A r \in Surfaces : surf[r].session = Probe =>
          sess[Probe].format # "none" /\ surf[r].src = Unassigned
    BY DEF IInv, SessionsAlive
  <2>2. \A r \in Surfaces : /\ v.surf[r].live = surf[r].live
                            /\ v.surf[r].session = surf[r].session
    BY <1>4, <1>13
  <2>3. \A r \in Surfaces : v.surf[r].session = Probe =>
          v.sess[Probe].format # "none" /\ v.surf[r].src = Unassigned
    <3> SUFFICES ASSUME NEW r \in Surfaces, v.surf[r].session = Probe
                 PROVE  v.sess[Probe].format # "none" /\ v.surf[r].src = Unassigned
      OBVIOUS
    <3>1. r # s
      BY <1>4, <1>13
    <3>2. v.surf[r] = surf[r] /\ surf[r].session = Probe
      BY <1>13, <2>2, <3>1
    <3>3. v.sess[Probe].format = sess[Probe].format
      BY <1>13 DEF SameSessions
    <3> QED
      BY <2>1, <3>2, <3>3
  <2>4. Settled(v)
    BY <1>13, SettledHere, SettledStays
  <2> QED
    BY <1>2, <1>13, <1>14, <2>2, <2>3, <2>4, AliveStep
<1>17. PictureOwned'
  <2> SUFFICES ASSUME NEW d \in Contexts, target'[d] # NoSurface
               PROVE  /\ d \in live
                      /\ surf'[target'[d]].live
                      /\ surf'[target'[d]].session = d
                      /\ surf'[target'[d]].status = "Rendering"
                      /\ surf'[target'[d]].src # Unassigned
                      /\ d \in waiting' => surf'[target'[d]].dst # Unassigned
    BY <1>2 DEF PictureOwned
  <2>1. d # c /\ target'[d] = target[d]
    BY <1>2
  <2>2. PICK r \in Surfaces : r = target[d]
    BY <2>1
  <2>3. r # s /\ surf'[r] = surf[r]
    BY <1>4, <1>13, <1>14, <2>1, <2>2
  <2>4. /\ d \in live /\ surf[r].live /\ surf[r].session = d
        /\ surf[r].status = "Rendering" /\ surf[r].src # Unassigned
        /\ d \in waiting => surf[r].dst # Unassigned
    BY <2>1, <2>2, OpenPicture
  <2> QED
    BY <1>2, <2>1, <2>2, <2>3, <2>4
<1>18. WaitIsForPicture'
  <2>1. /\ \A d \in waiting : target[d] # NoSurface
        /\ \A r \in Surfaces : surf[r].req = "queued" =>
             \E d \in waiting : target[d] = r
    BY DEF IInv, WaitIsForPicture
  <2>2. \A d \in waiting' : d # c /\ d \in waiting /\ target'[d] = target[d]
    BY <1>2
  <2>3. \A r \in Surfaces : surf'[r].req = "queued" =>
          r # s /\ surf[r].req = "queued"
    BY <1>13, <1>14
  <2>4. \A r \in Surfaces : surf'[r].req = "queued" =>
          \E d \in waiting' : target'[d] = r
    <3> SUFFICES ASSUME NEW r \in Surfaces, surf'[r].req = "queued"
                 PROVE  \E d \in waiting' : target'[d] = r
      OBVIOUS
    <3>1. PICK d \in waiting : target[d] = r
      BY <2>1, <2>3
    <3>2. d # c
      BY <1>1, <2>3, <3>1
    <3>3. d \in waiting' /\ target'[d] = r
      BY <1>2, <3>1, <3>2
    <3> QED
      BY <3>3
  <2> QED
    BY <2>1, <2>2, <2>4 DEF WaitIsForPicture
<1> QED
  BY <1>14, <1>15, <1>16, <1>17, <1>18 DEF IInv

LEMMA PictureFailedInv ==
  ASSUME IInv, NEW c \in Contexts, PictureFailed(c)
  PROVE  IInv'
<1> USE Basics
<1>1. PICK s : s = target[c]
  OBVIOUS
<1>2. /\ c \in waiting /\ waiting' = waiting \ {c}
      /\ target' = target /\ live' = live /\ stream' = stream
      /\ Becomes(SyncRefused(Here, s))
  BY <1>1 DEF PictureFailed
<1>3. s # NoSurface
  BY <1>1, <1>2 DEF IInv, WaitIsForPicture
<1>4. /\ s \in Surfaces /\ surf[s].session = c /\ c # NoSession
      /\ surf[s].dst # Unassigned
  BY <1>1, <1>2, <1>3, OpenPicture
<1>l. sess[surf[s].session].format # "none"
  BY <1>4 DEF IInv, SessionsAlive
<1>5. PICK v : v = SyncRefused(Here, s)
  OBVIOUS
<1>6. Owned(Here)
  BY DEF IInv
<1>7. /\ Owned(v) /\ v.sess = sess
      /\ \A r \in Surfaces :
           /\ v.surf[r].live = surf[r].live
           /\ v.surf[r].status = surf[r].status
           /\ v.surf[r].src = surf[r].src
           /\ v.surf[r].dst = surf[r].dst
           /\ v.surf[r].session = surf[r].session
           /\ r # s => v.surf[r] = surf[r]
      /\ v.surf[s].req = "none"
  BY <1>4, <1>l, <1>5, <1>6, SyncRefusedOwned, SMTT(40)
<1>8. /\ Owned(Here)' /\ sess' = v.sess /\ surf' = v.surf /\ Becomes(v)
      /\ sess' \in [Sessions -> Session] /\ surf' \in [Surfaces -> Surface]
  BY <1>2, <1>5, <1>7, NextWorld DEF Becomes
<1>9. TypeOK'
  BY <1>2, <1>8 DEF TypeOK
<1>10. SessionsAlive'
  <2>1. Settled(v)
    BY <1>7, SameSessionsSettled
  <2>2. \A r \in Surfaces : surf[r].session = Probe =>
          sess[Probe].format # "none" /\ surf[r].src = Unassigned
    BY DEF IInv, SessionsAlive
  <2> QED
    BY <1>2, <1>7, <1>8, <2>1, <2>2, AliveStep
<1>11. PictureOwned'
  <2> SUFFICES ASSUME NEW d \in Contexts, target[d] # NoSurface,
                      NEW r \in Surfaces, r = target[d]
               PROVE  /\ d \in live
                      /\ surf'[r].live
                      /\ surf'[r].session = d
                      /\ surf'[r].status = "Rendering"
                      /\ surf'[r].src # Unassigned
                      /\ d \in waiting' => surf'[r].dst # Unassigned
    BY <1>2 DEF PictureOwned
  <2> QED
    BY <1>2, <1>7, <1>8, OpenPicture
<1>12. WaitIsForPicture'
  <2>1. /\ \A d \in waiting : target[d] # NoSurface
        /\ \A r \in Surfaces : surf[r].req = "queued" =>
             \E d \in waiting : target[d] = r
    BY DEF IInv, WaitIsForPicture
  <2>2. \A r \in Surfaces : surf'[r].req = "queued" =>
          r # s /\ surf[r].req = "queued"
    BY <1>7, <1>8
  <2> QED
    BY <1>1, <1>2, <2>1, <2>2 DEF WaitIsForPicture
<1> QED
  BY <1>8, <1>9, <1>10, <1>11, <1>12 DEF IInv

-----------------------------------------------------------------------------
(* The invariant holds initially, and every step keeps it.                 *)

LEMMA InitInv == Init => IInv
<1> SUFFICES ASSUME Init PROVE IInv
  OBVIOUS
<1> USE SessionAssumption DEF Init
<1>1. /\ FreeSlot \in Surface /\ FreeSlot.src = Unassigned
      /\ FreeSlot.dst = Unassigned /\ FreeSlot.session = NoSession
      /\ FreeSlot.req = "none"
  BY DEF FreeSlot, FreshSurface, Surface, Index
<1>2. /\ sess \in [Sessions -> Session] /\ surf \in [Surfaces -> Surface]
  BY <1>1, NewSessions
<1>3. TypeOK
  BY <1>2 DEF TypeOK
<1>4. Owned(Here)
  <2>1. Here \in World /\ Here.sess = sess /\ Here.surf = surf
    BY <1>2 DEF World, Here
  <2> QED
    BY <1>1, <2>1, NewSessions DEF Owned
<1>5. SessionsAlive
  BY <1>1 DEF SessionsAlive, Sessions
<1>6. PictureOwned /\ WaitIsForPicture
  BY <1>1 DEF PictureOwned, WaitIsForPicture
<1> QED
  BY <1>3, <1>4, <1>5, <1>6 DEF IInv

LEMMA NextInv == IInv /\ [Next]_vars => IInv'
<1> SUFFICES ASSUME IInv, [Next]_vars PROVE IInv'
  OBVIOUS
<1>1. CASE \E s \in Surfaces, size \in Sizes, format \in Layouts :
              CreateSurface(s, size, format)
  BY <1>1, CreateSurfaceInv
<1>2. CASE \E c \in Contexts, str \in Streams : CreateContext(c, str)
  BY <1>2, CreateContextInv
<1>3. CASE \E c \in Contexts, s \in Surfaces : BeginPicture(c, s)
  BY <1>3, BeginPictureInv
<1>4. CASE \E c \in Contexts : \/ DestroyContext(c)
                               \/ EndPicture(c)
                               \/ PictureDone(c)
                               \/ PictureFailed(c)
  BY <1>4, DestroyContextInv, EndPictureInv, PictureDoneInv, PictureFailedInv
<1>5. CASE \E s \in Surfaces : \/ SyncSurface(s)
                               \/ DeriveImage(s)
                               \/ ExportSurface(s)
                               \/ DestroySurface(s)
  BY <1>5, SyncSurfaceInv, DeriveImageInv, ExportSurfaceInv, DestroySurfaceInv
<1>6. CASE UNCHANGED vars
  BY <1>6 DEF vars, IInv, TypeOK, Owned, Here, SessionsAlive, PictureOwned,
              WaitIsForPicture
<1> QED
  BY <1>1, <1>2, <1>3, <1>4, <1>5, <1>6 DEF Next

LEMMA InvOwned ==
  ASSUME IInv
  PROVE  BuffersOwned
<1>1. Owned(Here) /\ Here.sess = sess /\ Here.surf = surf
  BY DEF IInv, Here
<1>2. PoolsOK
  BY <1>1 DEF Owned, PoolsOK
<1>3. BoundIsHeld
  BY <1>1, SessionAssumption DEF Owned, BoundIsHeld, Sessions
<1>4. NoSharedBuffer
  BY <1>1 DEF Owned, NoSharedBuffer
<1> QED
  BY <1>2, <1>3, <1>4 DEF BuffersOwned

LEMMA SpecInv == Spec => []IInv
BY InitInv, NextInv, PTL DEF Spec

\* Every variable keeps its type: contexts that wait are live, no stack ever
\* holds an index REQBUFS did not create, no surface names a session that was
\* never opened (va-driver/src/session.h, surface.h, context.h).
THEOREM TypeCorrect == Spec => []TypeOK
<1>1. IInv => TypeOK
  BY DEF IInv
<1> QED
  BY <1>1, SpecInv, PTL

\* For any number of threads, contexts, surfaces and buffers, and whatever
\* fails on the way: no V4L2 buffer of a session is used by two surfaces, and
\* none is on a free stack while a surface is bound to it (picture.c, surface.c,
\* context.c).
THEOREM BuffersAreOwned == Spec => []BuffersOwned
<1>1. IInv => BuffersOwned
  BY InvOwned
<1> QED
  BY <1>1, SpecInv, PTL

\* No surface ever names a closed session, a bound CAPTURE buffer always has the
\* layout of its queue, no picture is under way on the probe session, which may
\* still move, and a failed switch of bit depth leaves no buffer behind
\* (picture.c, context_adopt_probe_session; surface.c, surface_detach_session;
\* context.c, request_ensure_av1_capture_bit_depth).
THEOREM SessionsStayAlive == Spec => []SessionsAlive
<1>1. IInv => SessionsAlive
  BY DEF IInv
<1> QED
  BY <1>1, SpecInv, PTL

\* While vaEndPicture waits with the driver lock released, no other call takes
\* the picture's session, buffers or status away (picture.c, RequestEndPicture;
\* surface.c, RequestSyncSurface).
THEOREM PicturesStayOwned == Spec => []PictureOwned
<1>1. IInv => PictureOwned
  BY DEF IInv
<1> QED
  BY <1>1, SpecInv, PTL

\* A request is with the hardware only while its context waits for it, so no
\* descriptor of a queued request is left to a later picture (surface.c,
\* RequestSyncSurface's error path).
THEOREM WaitsAreForPictures == Spec => []WaitIsForPicture
<1>1. IInv => WaitIsForPicture
  BY DEF IInv
<1> QED
  BY <1>1, SpecInv, PTL

-----------------------------------------------------------------------------
(* What a step does to the buffers that surfaces show.                     *)

\* The CAPTURE buffer of r is in v the one it was in w, of the same queue.
KeepsBuffer(w, v, r) ==
  /\ v.surf[r].dst = w.surf[r].dst
  /\ \/ v.surf[r].session = w.surf[r].session
     \/ w.surf[r].session = Probe /\ v.surf[r].session \in live
  /\ v.sess[v.surf[r].session].format = w.sess[w.surf[r].session].format

\* Every bound CAPTURE buffer stays, and no queue behind one is touched, ...
Stays(w, v) ==
  \A r \in Surfaces : w.surf[r].dst # Unassigned =>
    /\ KeepsBuffer(w, v, r)
    /\ v.sess[v.surf[r].session].cap = w.sess[w.surf[r].session].cap

\* ... or at most one index of it moves.
StaysBound(w, v) ==
  \A r \in Surfaces : w.surf[r].dst # Unassigned =>
    /\ KeepsBuffer(w, v, r)
    /\ v.sess[v.surf[r].session].cap \in OneStepOf(w.sess[w.surf[r].session].cap)

LEMMA StaysSame ==
  ASSUME NEW w, NEW v,
         \A y \in Sessions : /\ v.sess[y].format = w.sess[y].format
                             /\ v.sess[y].cap = w.sess[y].cap,
         \A r \in Surfaces : w.surf[r].dst # Unassigned =>
           /\ v.surf[r].dst = w.surf[r].dst
           /\ v.surf[r].session = w.surf[r].session
           /\ w.surf[r].session \in Sessions
  PROVE  Stays(w, v)
BY SMTT(40) DEF Stays, KeepsBuffer

LEMMA StaysIsBound ==
  ASSUME NEW w, NEW v, Stays(w, v)
  PROVE  StaysBound(w, v)
BY Zenon DEF Stays, StaysBound, OneStepOf

\* Two in a row.  A context that adopted is none that could be adopted from.
LEMMA StaysTwice ==
  ASSUME IInv, NEW w, NEW v, NEW u, Stays(w, v), Stays(v, u)
  PROVE  Stays(w, u)
<1>1. ASSUME NEW r \in Surfaces, w.surf[r].dst # Unassigned
      PROVE  /\ KeepsBuffer(w, u, r)
             /\ u.sess[u.surf[r].session].cap = w.sess[w.surf[r].session].cap
  <2>1. /\ KeepsBuffer(w, v, r)
        /\ v.sess[v.surf[r].session].cap = w.sess[w.surf[r].session].cap
    BY <1>1 DEF Stays
  <2>2. v.surf[r].dst # Unassigned
    BY <1>1, <2>1 DEF KeepsBuffer
  <2>3. /\ KeepsBuffer(v, u, r)
        /\ u.sess[u.surf[r].session].cap = v.sess[v.surf[r].session].cap
    BY <2>2 DEF Stays
  <2>4. Probe \notin live
    BY Basics
  <2> QED
    BY <2>1, <2>3, <2>4 DEF KeepsBuffer
<1> QED
  BY <1>1 DEF Stays

LEMMA StaysThenBound ==
  ASSUME IInv, NEW w, NEW v, NEW u, Stays(w, v), StaysBound(v, u)
  PROVE  StaysBound(w, u)
<1>1. ASSUME NEW r \in Surfaces, w.surf[r].dst # Unassigned
      PROVE  /\ KeepsBuffer(w, u, r)
             /\ u.sess[u.surf[r].session].cap
                  \in OneStepOf(w.sess[w.surf[r].session].cap)
  <2>1. /\ KeepsBuffer(w, v, r)
        /\ v.sess[v.surf[r].session].cap = w.sess[w.surf[r].session].cap
    BY <1>1 DEF Stays
  <2>2. v.surf[r].dst # Unassigned
    BY <1>1, <2>1 DEF KeepsBuffer
  <2>3. /\ KeepsBuffer(v, u, r)
        /\ u.sess[u.surf[r].session].cap
             \in OneStepOf(v.sess[v.surf[r].session].cap)
    BY <2>2 DEF StaysBound
  <2>4. Probe \notin live
    BY Basics
  <2>5. KeepsBuffer(w, u, r)
    BY <2>1, <2>3, <2>4 DEF KeepsBuffer
  <2> QED
    BY <2>1, <2>3, <2>5
<1> QED
  BY <1>1 DEF StaysBound

LEMMA BoundThenStays ==
  ASSUME IInv, NEW w, NEW v, NEW u, StaysBound(w, v), Stays(v, u)
  PROVE  StaysBound(w, u)
<1>1. ASSUME NEW r \in Surfaces, w.surf[r].dst # Unassigned
      PROVE  /\ KeepsBuffer(w, u, r)
             /\ u.sess[u.surf[r].session].cap
                  \in OneStepOf(w.sess[w.surf[r].session].cap)
  <2>1. /\ KeepsBuffer(w, v, r)
        /\ v.sess[v.surf[r].session].cap
             \in OneStepOf(w.sess[w.surf[r].session].cap)
    BY <1>1 DEF StaysBound
  <2>2. v.surf[r].dst # Unassigned
    BY <1>1, <2>1 DEF KeepsBuffer
  <2>3. /\ KeepsBuffer(v, u, r)
        /\ u.sess[u.surf[r].session].cap = v.sess[v.surf[r].session].cap
    BY <2>2 DEF Stays
  <2>4. Probe \notin live
    BY Basics
  <2>5. KeepsBuffer(w, u, r)
    BY <2>1, <2>3, <2>4 DEF KeepsBuffer
  <2> QED
    BY <2>1, <2>3, <2>5
<1> QED
  BY <1>1 DEF StaysBound

LEMMA HereStays ==
  ASSUME IInv, NEW v,
         \A y \in Sessions : /\ v.sess[y].format = sess[y].format
                             /\ v.sess[y].cap = sess[y].cap,
         \A r \in Surfaces : /\ v.surf[r].dst = surf[r].dst
                             /\ v.surf[r].session = surf[r].session
  PROVE  Stays(Here, v)
<1>1. Here.sess = sess /\ Here.surf = surf
  BY Basics
<1>2. \A r \in Surfaces : surf[r].dst # Unassigned => surf[r].session \in Sessions
  BY <1>1 DEF IInv, Owned
<1> QED
  BY <1>1, <1>2, StaysSame

\* The adoption moves the probe session as a whole, to a context on whose own
\* session no index was ever taken.
LEMMA AdoptStays ==
  ASSUME NEW h, Owned(h), h.sess = sess, NEW c \in live, live \subseteq Contexts,
         NEW s \in Surfaces, Adoptable(h, c, s)
  PROVE  Stays(h, Adopt(h, c, s))
<1> USE SessionAssumption
<1>1. /\ c \in Sessions /\ Probe \in Sessions /\ c # Probe /\ NoSession # Probe
      /\ h.sess \in [Sessions -> Session] /\ h.surf \in [Surfaces -> Surface]
      /\ \A r \in Surfaces : h.surf[r].dst # Unassigned =>
           /\ h.surf[r].session \in Sessions
           /\ h.surf[r].dst \in Held(h.sess[h.surf[r].session].cap)
      /\ PoolOK(h.sess[c].cap)
  BY DEF Owned, World, Sessions
<1>2. CASE h.surf[s].session # Probe
  <2>1. Adopt(h, c, s) = h
    BY <1>2 DEF Adopt
  <2> QED
    BY <1>1, <2>1, StaysSame
<1>3. CASE h.surf[s].session = Probe
  <2>1. h.sess[c].cap.next = 0
    BY <1>1, <1>3 DEF Adoptable, Untouched
  <2>2. \A r \in Surfaces : h.surf[r].dst # Unassigned => h.surf[r].session # c
    BY <1>1, <2>1, HeldInRange
  <2>3. PICK w : w = Adopt(h, c, s)
    OBVIOUS
  <2>4. w = [sess |-> [h.sess EXCEPT ![c] = h.sess[Probe], ![Probe] = ClosedSession],
             surf |-> [r \in Surfaces |->
                         IF h.surf[r].session = Probe
                           THEN [h.surf[r] EXCEPT !.session = c] ELSE h.surf[r]]]
    BY <1>3, <2>3 DEF Adopt
  <2>5. /\ w.sess[c] = h.sess[Probe]
        /\ \A y \in Sessions \ {c, Probe} : w.sess[y] = h.sess[y]
    BY <1>1, <2>4
  <2>6. \A r \in Surfaces : w.surf[r] = IF h.surf[r].session = Probe
                              THEN [h.surf[r] EXCEPT !.session = c] ELSE h.surf[r]
    BY <2>4
  <2>7. ASSUME NEW r \in Surfaces, h.surf[r].dst # Unassigned
        PROVE  /\ KeepsBuffer(h, w, r)
               /\ w.sess[w.surf[r].session].cap = h.sess[h.surf[r].session].cap
    <3>0. h.surf[r] \in Surface
      BY <1>1
    <3>1. CASE h.surf[r].session = Probe
      <4>1. w.surf[r] = [h.surf[r] EXCEPT !.session = c]
        BY <2>6, <3>1
      <4>2. w.surf[r].dst = h.surf[r].dst /\ w.surf[r].session = c
        BY <3>0, <4>1 DEF Surface
      <4> QED
        BY <2>5, <3>1, <4>2 DEF KeepsBuffer
    <3>2. CASE h.surf[r].session # Probe
      <4>1. w.surf[r] = h.surf[r]
        BY <2>6, <3>2
      <4>2. h.surf[r].session \in Sessions \ {c, Probe}
        BY <1>1, <2>2, <2>7, <3>2
      <4> QED
        BY <2>5, <4>1, <4>2 DEF KeepsBuffer
    <3> QED
      BY <3>1, <3>2
  <2> QED
    BY <2>3, <2>7 DEF Stays
<1> QED
  BY <1>2, <1>3

\* A coded buffer is bound without touching a CAPTURE queue.
LEMMA BindSourceStays ==
  ASSUME NEW w, Owned(w), NEW x \in Sessions, NEW s \in Surfaces,
         NEW mapped \in BOOLEAN, w.surf[s].session \in {NoSession, x}
  PROVE  Stays(w, BindSource(w, x, s, mapped))
<1>1. /\ w.sess \in [Sessions -> Session] /\ w.surf \in [Surfaces -> Surface]
      /\ \A r \in Surfaces : w.surf[r].dst # Unassigned =>
           w.surf[r].session \in Sessions
      /\ NoSession \notin Sessions
  BY SessionAssumption DEF Owned, World, Sessions
<1>2. CASE w.surf[s].src # Unassigned
  <2>1. BindSource(w, x, s, mapped) = w
    BY <1>2 DEF BindSource
  <2> QED
    BY <1>1, <2>1, StaysSame
<1>3. CASE w.surf[s].src = Unassigned
  <2>1. PICK b : b = BindSource(w, x, s, mapped)
    OBVIOUS
  <2>2. PICK q : q = IF mapped THEN Take(w.sess[x].out)
                     ELSE TakeAndGiveBack(w.sess[x].out)
    OBVIOUS
  <2>3. PICK i : i = IF mapped THEN Candidate(w.sess[x].out) ELSE Unassigned
    OBVIOUS
  <2>4. b = [sess |-> [w.sess EXCEPT ![x].out = q],
             surf |-> [w.surf EXCEPT ![s].session = x, ![s].src = i]]
    BY <1>3, <2>1, <2>2, <2>3 DEF BindSource
  <2>5. \A y \in Sessions : /\ b.sess[y].format = w.sess[y].format
                            /\ b.sess[y].cap = w.sess[y].cap
    BY <1>1, <2>4 DEF Session
  <2>6. /\ \A r \in Surfaces \ {s} : b.surf[r] = w.surf[r]
        /\ b.surf[s] = [w.surf[s] EXCEPT !.session = x, !.src = i]
    BY <1>1, <2>4
  <2>7. b.surf[s].session = x /\ b.surf[s].dst = w.surf[s].dst
    BY <1>1, <2>6 DEF Surface
  <2>8. \A r \in Surfaces : w.surf[r].dst # Unassigned =>
           /\ b.surf[r].dst = w.surf[r].dst
           /\ b.surf[r].session = w.surf[r].session
           /\ w.surf[r].session \in Sessions
    BY <1>1, <2>6, <2>7
  <2> QED
    BY <2>1, <2>5, <2>8, StaysSame
<1> QED
  BY <1>2, <1>3

\* Binding a CAPTURE buffer takes one index of its queue, or none.
LEMMA BindDestinationStays ==
  ASSUME NEW w, Owned(w), NEW x \in Sessions, NEW s \in Surfaces,
         NEW mapped \in BOOLEAN
  PROVE  StaysBound(w, BindDestination(w, x, s, mapped))
<1>1. /\ w.sess \in [Sessions -> Session] /\ w.surf \in [Surfaces -> Surface]
      /\ \A r \in Surfaces : w.surf[r].dst # Unassigned =>
           w.surf[r].session \in Sessions
  BY DEF Owned, World
<1>2. CASE w.surf[s].dst # Unassigned
  <2>1. BindDestination(w, x, s, mapped) = w
    BY <1>2 DEF BindDestination
  <2> QED
    BY <1>1, <2>1, StaysSame, StaysIsBound
<1>3. CASE w.surf[s].dst = Unassigned
  <2>1. PICK b : b = BindDestination(w, x, s, mapped)
    OBVIOUS
  <2>2. PICK q : q = IF mapped THEN Take(w.sess[x].cap)
                     ELSE TakeAndGiveBack(w.sess[x].cap)
    OBVIOUS
  <2>4. b = [sess |-> [w.sess EXCEPT ![x].cap = q],
             surf |-> IF mapped
                        THEN [w.surf EXCEPT ![s].session = x,
                                ![s].dst = Candidate(w.sess[x].cap)]
                        ELSE w.surf]
    BY <1>3, <2>1, <2>2 DEF BindDestination
  <2>5. /\ \A y \in Sessions : b.sess[y].format = w.sess[y].format
        /\ \A y \in Sessions \ {x} : b.sess[y].cap = w.sess[y].cap
        /\ b.sess[x].cap = q
    BY <1>1, <2>4 DEF Session
  <2>6. \A y \in Sessions : b.sess[y].cap \in OneStepOf(w.sess[y].cap)
    BY <2>2, <2>5 DEF OneStepOf
  <2>7. \A r \in Surfaces \ {s} : b.surf[r] = w.surf[r]
    BY <1>1, <2>4
  <2> QED
    BY <1>1, <1>3, <2>1, <2>5, <2>6, <2>7 DEF StaysBound, KeepsBuffer
<1> QED
  BY <1>2, <1>3

\* The steps that describe, open, close or start something leave them all.
LEMMA SyncRefusedStays ==
  ASSUME NEW w, Owned(w), NEW s \in Surfaces
  PROVE  Stays(w, SyncRefused(w, s))
<1>1. PICK v : v = SyncRefused(w, s)
  OBVIOUS
<1>2. v.sess = w.sess
  BY <1>1, SyncRefusedOwned
<1>3. \A r \in Surfaces : /\ v.surf[r].dst = w.surf[r].dst
                          /\ v.surf[r].session = w.surf[r].session
  BY <1>1, SyncRefusedOwned
<1>4. \A r \in Surfaces : w.surf[r].dst # Unassigned => w.surf[r].session \in Sessions
  BY DEF Owned
<1> QED
  BY <1>1, <1>2, <1>3, <1>4, StaysSame

LEMMA RelabelledStays ==
  ASSUME IInv, NEW c \in live, NEW s \in Surfaces
  PROVE  Stays(Here, Relabelled(c, s))
<1>1. PICK h : h = Relabelled(c, s)
  OBVIOUS
<1>2. PICK w : w = Here
  OBVIOUS
<1>3. h.sess = w.sess
  BY <1>1, <1>2, RelabelledFacts, Basics
<1>4. \A r \in Surfaces : /\ h.surf[r].dst = w.surf[r].dst
                          /\ h.surf[r].session = w.surf[r].session
  BY <1>1, <1>2, RelabelledFacts, Basics
<1>5. \A r \in Surfaces : w.surf[r].dst # Unassigned => w.surf[r].session \in Sessions
  BY <1>2 DEF IInv, Owned
<1> QED
  BY <1>1, <1>2, <1>3, <1>4, <1>5, StaysSame

LEMMA DescribedStays ==
  ASSUME NEW w, Owned(w), NEW c \in Sessions, NEW s \in Surfaces,
         w.sess[c].format \in Layouts
  PROVE  Stays(w, Described(w, c, s)) /\ Owned(Described(w, c, s))
<1>1. PICK v : v = Described(w, c, s)
  OBVIOUS
<1>2. \A r \in Surfaces : w.surf[r].dst # Unassigned => w.surf[r].session \in Sessions
  BY DEF Owned
<1>3. CASE stream[c][1] \in LateBound
  <2>1. PICK f \in Layouts : f = w.sess[c].format
    OBVIOUS
  <2>2. v = [w EXCEPT !.surf[s].format = f]
    BY <1>1, <1>3, <2>1 DEF Described
  <2>3. Owned(v) /\ v.sess = w.sess
    BY <2>2, DescriptionOnly
  <2>4. \A r \in Surfaces : /\ v.surf[r].dst = w.surf[r].dst
                            /\ v.surf[r].session = w.surf[r].session
    BY <2>2, DescriptionOnly
  <2> QED
    BY <1>1, <1>2, <2>3, <2>4, StaysSame
<1>4. CASE stream[c][1] \notin LateBound
  <2>1. v = w
    BY <1>1, <1>4 DEF Described
  <2> QED
    BY <1>1, <1>2, <2>1, StaysSame
<1> QED
  BY <1>3, <1>4

LEMMA SubmittedStays ==
  ASSUME NEW w, Owned(w), NEW c \in Sessions, NEW s \in Surfaces,
         NEW req \in {"none", "idle", "queued"}, NEW started \in BOOLEAN
  PROVE  Stays(w, Submitted(w, c, s, req, started))
<1>1. PICK v : v = Submitted(w, c, s, req, started)
  OBVIOUS
<1>2. w.sess \in [Sessions -> Session] /\ w.surf \in [Surfaces -> Surface]
  BY DEF Owned, World
<1>3. v = [sess |-> [w.sess EXCEPT ![c].streaming = started],
           surf |-> [w.surf EXCEPT ![s].req = req]]
  BY <1>1 DEF Submitted
<1>4. \A y \in Sessions : /\ v.sess[y].format = w.sess[y].format
                          /\ v.sess[y].cap = w.sess[y].cap
  BY <1>2, <1>3 DEF Session
<1>5. \A r \in Surfaces : /\ v.surf[r].dst = w.surf[r].dst
                          /\ v.surf[r].session = w.surf[r].session
  BY <1>2, <1>3 DEF Surface
<1>6. \A r \in Surfaces : w.surf[r].dst # Unassigned => w.surf[r].session \in Sessions
  BY DEF Owned
<1> QED
  BY <1>1, <1>4, <1>5, <1>6, StaysSame

\* A CAPTURE queue is replaced only when no surface has a buffer of it.
LEMMA SwitchedStays ==
  ASSUME IInv, NEW c \in live, MaySwitch(c), NEW format, NEW pool
  PROVE  Stays(Here, Switched(c, format, pool))
<1>1. PICK u : u = Switched(c, format, pool)
  OBVIOUS
<1>2. /\ c \in Sessions /\ Owned(Here) /\ Here.sess = sess /\ Here.surf = surf
      /\ sess \in [Sessions -> Session]
  BY Basics DEF IInv
<1>3. /\ \A r \in Surfaces : surf[r].dst # Unassigned =>
           /\ surf[r].session \in Sessions
           /\ surf[r].dst \in Held(sess[surf[r].session].cap)
      /\ PoolOK(sess[c].cap)
  BY <1>2 DEF Owned
<1>4. \A r \in Surfaces : surf[r].dst # Unassigned => surf[r].session # c
  BY <1>3, HeldInRange DEF MaySwitch
<1>5. u = [sess |-> [sess EXCEPT ![c].format = format, ![c].cap = pool],
           surf |-> surf]
  BY <1>1 DEF Switched, Here
<1>6. /\ u.surf = surf
      /\ \A y \in Sessions \ {c} : u.sess[y] = sess[y]
  BY <1>2, <1>5
<1> QED
  BY <1>1, <1>2, <1>3, <1>4, <1>6 DEF Stays, KeepsBuffer

-----------------------------------------------------------------------------
(* The actions, one by one.                                                *)

ExportsStay ==
  \A s \in Surfaces : surf[s].live /\ surf[s].dst # Unassigned =>
       \/ ~surf'[s].live
       \/ surf[s].session \in live \ live'
       \/ /\ surf'[s].dst = surf[s].dst
          /\ \/ surf'[s].session = surf[s].session
             \/ surf[s].session = Probe /\ surf'[s].session \in live'
          /\ sess'[surf'[s].session].format = sess[surf[s].session].format
          /\ sess'[surf'[s].session].cap \in
               OneStepOf(sess[surf[s].session].cap)

LEMMA BoundStep ==
  ASSUME IInv, NEW v, StaysBound(Here, v), Becomes(v), live' = live
  PROVE  ExportsStay
<1>1. Here.sess = sess /\ Here.surf = surf /\ sess' = v.sess /\ surf' = v.surf
  BY Basics DEF Becomes
<1> QED
  BY <1>1 DEF ExportsStay, StaysBound, KeepsBuffer

LEMMA StaysStep ==
  ASSUME IInv, NEW v, Stays(Here, v), Becomes(v), live' = live
  PROVE  ExportsStay
BY BoundStep, StaysIsBound

\* Whose buffer is bound lives on a session with a layout.
LEMMA BoundSession ==
  ASSUME IInv, NEW r \in Surfaces, surf[r].dst # Unassigned
  PROVE  /\ surf[r].session \in live \cup {Probe}
         /\ surf[r].session \in Sessions
         /\ sess[surf[r].session].format # "none"
<1>1. surf[r].session # NoSession
  BY Basics
<1> QED
  BY <1>1, Basics DEF IInv, SessionsAlive

LEMMA CreateSurfaceStays ==
  ASSUME IInv, NEW s \in Surfaces, NEW size \in Sizes, NEW format \in Layouts,
         CreateSurface(s, size, format)
  PROVE  ExportsStay
<1> USE Basics
<1>1. /\ ~surf[s].live /\ live' = live
      /\ surf' = [surf EXCEPT ![s] = FreshSurface(size, format)]
      /\ \/ sess' = sess
         \/ sess[Probe].format = "none" /\ \E t : sess' = [sess EXCEPT ![Probe] = t]
  BY DEF CreateSurface
<1>2. \A y \in Sessions : sess[y].format # "none" => sess'[y] = sess[y]
  BY <1>1
<1>3. ASSUME NEW r \in Surfaces, surf[r].live, surf[r].dst # Unassigned
      PROVE  /\ surf'[r] = surf[r]
             /\ sess'[surf[r].session] = sess[surf[r].session]
  BY <1>1, <1>2, <1>3, BoundSession
<1> QED
  BY <1>3 DEF ExportsStay, OneStepOf

LEMMA CreateContextStays ==
  ASSUME IInv, NEW c \in Contexts, NEW str \in Streams, CreateContext(c, str)
  PROVE  ExportsStay
<1> USE Basics
<1>1. c \notin live /\ surf' = surf /\ \E t : sess' = [sess EXCEPT ![c] = t]
  BY DEF CreateContext
<1>2. ASSUME NEW r \in Surfaces, surf[r].dst # Unassigned
      PROVE  sess'[surf[r].session] = sess[surf[r].session]
  <2>1. surf[r].session \in Sessions /\ surf[r].session # c
    BY <1>1, <1>2, BoundSession
  <2> QED
    BY <1>1, <2>1
<1> QED
  BY <1>1, <1>2 DEF ExportsStay, OneStepOf

LEMMA DestroyContextStays ==
  ASSUME IInv, NEW c \in Contexts, DestroyContext(c)
  PROVE  ExportsStay
<1> USE Basics
<1>1. /\ c \in live /\ live' = live \ {c}
      /\ sess' = [sess EXCEPT ![c] = ClosedSession]
      /\ \A r \in Surfaces : surf[r].session # c => surf'[r] = surf[r]
  BY DEF DestroyContext
<1>2. ASSUME NEW r \in Surfaces, surf[r].dst # Unassigned, surf[r].session # c
      PROVE  /\ surf'[r] = surf[r]
             /\ sess'[surf[r].session] = sess[surf[r].session]
  BY <1>1, <1>2, BoundSession
<1>3. c \in live \ live'
  BY <1>1
<1> QED
  BY <1>2, <1>3 DEF ExportsStay, OneStepOf

LEMMA BeginPictureStays ==
  ASSUME IInv, NEW c \in Contexts, NEW s \in Surfaces, BeginPicture(c, s)
  PROVE  ExportsStay
<1> USE Basics
<1>1. c \in live /\ surf[s].live /\ live' = live
  BY DEF BeginPicture
<1>2. PICK h : h = Relabelled(c, s)
  OBVIOUS
<1>3. Stays(Here, h)
  BY <1>1, <1>2, RelabelledStays
<1>4. CASE Becomes(h)
  BY <1>1, <1>3, <1>4, StaysStep
<1>5. SUFFICES ASSUME Adoptable(h, c, s)
               PROVE  ExportsStay
  BY <1>2, <1>4 DEF BeginPicture
<1>6. PICK w : w = Adopt(h, c, s)
  OBVIOUS
<1>7. Owned(h) /\ h.sess = sess
  BY <1>1, <1>2, RelabelledFacts
<1>8. Owned(w) /\ w.surf[s].session \in {NoSession, c}
  <2>1. /\ Owned(Adopt(h, c, s))
        /\ Adopt(h, c, s).surf[s].session \in {NoSession, c}
    BY <1>1, <1>5, <1>7, AdoptOwned
  <2> QED
    BY <1>6, <2>1
<1>9. Stays(Here, w)
  <2>1. Stays(h, w)
    BY <1>1, <1>5, <1>6, <1>7, AdoptStays
  <2> QED
    BY <1>3, <2>1, StaysTwice
<1>10. c \in Sessions
  BY <1>1
<1>11. CASE BeginRefused(c, s, w)
  <2>1. Stays(w, SyncRefused(w, s)) /\ Becomes(SyncRefused(w, s))
    BY <1>8, <1>11, SyncRefusedStays DEF BeginRefused
  <2>2. Stays(Here, SyncRefused(w, s))
    BY <1>9, <2>1, StaysTwice
  <2> QED
    BY <1>1, <2>1, <2>2, StaysStep
<1>12. \A m \in BOOLEAN : Stays(Here, BindSource(w, c, s, m))
  <2>1. \A m \in BOOLEAN : Stays(w, BindSource(w, c, s, m))
    BY <1>8, <1>10, BindSourceStays
  <2> QED
    BY <1>9, <2>1, StaysTwice
<1>13. CASE BeginWithoutSource(c, s, w)
  <2>1. \/ Becomes(w)
        \/ Becomes(BindSource(w, c, s, FALSE))
    BY <1>13 DEF BeginWithoutSource
  <2> QED
    BY <1>1, <1>9, <1>12, <2>1, StaysStep
<1>14. PICK b : b = BindSource(w, c, s, TRUE)
  OBVIOUS
<1>15. CanBindSource(w, c, s) => Owned(b)
  <2>1. CanBindSource(w, c, s) => Owned(BindSource(w, c, s, TRUE))
    BY <1>8, <1>10, BindSourceOwned
  <2> QED
    BY <1>14, <2>1
<1>16. CanBindSource(w, c, s) =>
         \A m \in BOOLEAN : StaysBound(Here, BindDestination(b, c, s, m))
  <2>1. Stays(Here, b)
    BY <1>12, <1>14
  <2>2. CanBindSource(w, c, s) =>
          \A m \in BOOLEAN : StaysBound(b, BindDestination(b, c, s, m))
    BY <1>10, <1>15, BindDestinationStays
  <2> QED
    BY <2>1, <2>2, StaysThenBound
<1>17. CASE BeginWithoutDestination(c, s, w)
  <2>1. /\ CanBindSource(w, c, s)
        /\ \/ Becomes(b)
           \/ Becomes(BindDestination(b, c, s, FALSE))
    BY <1>14, <1>17 DEF BeginWithoutDestination
  <2> QED
    BY <1>1, <1>12, <1>14, <1>16, <2>1, StaysStep, BoundStep
<1>18. CASE BeginSucceeds(c, s, w)
  <2>1. PICK d : d = IF stream[c][1] \in LateBound THEN b
                     ELSE BindDestination(b, c, s, TRUE)
    OBVIOUS
  <2>2. /\ CanBindSource(w, c, s)
        /\ stream[c][1] \in LateBound \/ CanBindDestination(b, c, s)
        /\ Becomes([d EXCEPT !.surf[s].status = "Rendering"])
    BY <1>14, <1>18, <2>1 DEF BeginSucceeds
  <2>3. StaysBound(Here, d)
    <3>1. Stays(Here, b)
      BY <1>12, <1>14
    <3> QED
      BY <1>16, <2>1, <2>2, <3>1, StaysIsBound
  <2>4. Owned(d)
    <3>1. w.surf[s].session \in {NoSession, c} /\ b.surf[s].session \in {NoSession, c}
      <4>1. BindSource(w, c, s, TRUE).surf[s].session \in {w.surf[s].session, c}
        BY <1>8, <1>10, <2>2, BindSourceOwned
      <4> QED
        BY <1>8, <1>14, <4>1
    <3>2. stream[c][1] \notin LateBound => Owned(BindDestination(b, c, s, TRUE))
      BY <1>10, <1>15, <2>2, <3>1, BindDestinationOwned
    <3> QED
      BY <1>15, <2>1, <2>2, <3>2
  <2>5. PICK u : u = [d EXCEPT !.surf[s].status = "Rendering"]
    OBVIOUS
  <2>6. Stays(d, u)
    <3>1. /\ d.sess \in [Sessions -> Session] /\ d.surf \in [Surfaces -> Surface]
          /\ d = [sess |-> d.sess, surf |-> d.surf]
          /\ \A r \in Surfaces : d.surf[r].dst # Unassigned =>
               d.surf[r].session \in Sessions
      BY <2>4 DEF Owned, World
    <3>2. /\ u.sess = d.sess
          /\ u.surf = [d.surf EXCEPT ![s].status = "Rendering"]
      BY <2>5, <3>1
    <3>3. \A r \in Surfaces : /\ u.surf[r].dst = d.surf[r].dst
                              /\ u.surf[r].session = d.surf[r].session
      BY <3>1, <3>2 DEF Surface
    <3> QED
      BY <3>1, <3>2, <3>3, StaysSame, ZenonT(60)
  <2> QED
    BY <1>1, <2>2, <2>3, <2>5, <2>6, BoundThenStays, BoundStep
<1> QED
  BY <1>2, <1>4, <1>6, <1>11, <1>13, <1>17, <1>18 DEF BeginPicture

LEMMA EndPictureInStays ==
  ASSUME IInv, NEW c \in live, NEW s \in Surfaces, NEW u, Owned(u),
         Stays(Here, u), u.sess[c].format \in Layouts, u.surf = surf,
         surf[s].session = c, EndPictureIn(u, c, s), live' = live
  PROVE  ExportsStay
<1> USE Basics
<1>1. c \in Sessions /\ sess[c].streaming \in BOOLEAN
  BY DEF Session
<1>2. PICK v : v = Described(u, c, s)
  OBVIOUS
<1>3. Owned(v) /\ Stays(Here, v)
  BY <1>1, <1>2, DescribedStays, StaysTwice
<1>4. v.surf[s].session = c
  <2>1. u.surf \in [Surfaces -> Surface]
    BY DEF Owned, World
  <2>2. CASE stream[c][1] \in LateBound
    <3>1. v = [u EXCEPT !.surf[s].format = u.sess[c].format]
      BY <1>2, <2>2 DEF Described
    <3>2. v.surf[s].session = u.surf[s].session
      BY <3>1, DescriptionOnly
    <3> QED
      BY <3>2
  <2>3. CASE stream[c][1] \notin LateBound
    BY <1>2, <2>3 DEF Described
  <2> QED
    BY <2>2, <2>3
<1>5. CASE Becomes(v)
  BY <1>3, <1>5, StaysStep
<1>6. \A m \in BOOLEAN : StaysBound(Here, BindDestination(v, c, s, m))
  <2>1. \A m \in BOOLEAN : StaysBound(v, BindDestination(v, c, s, m))
    BY <1>1, <1>3, BindDestinationStays
  <2> QED
    BY <1>3, <2>1, StaysThenBound
<1>7. CASE Becomes(BindDestination(v, c, s, FALSE))
  BY <1>6, <1>7, BoundStep
<1>8. PICK w : w = BindDestination(v, c, s, TRUE)
  OBVIOUS
<1>9. CASE Becomes(w)
  BY <1>6, <1>8, <1>9, BoundStep
<1>10. ASSUME CanBindDestination(v, c, s),
              NEW req \in {"none", "idle", "queued"}, NEW started \in BOOLEAN,
              Becomes(Submitted(w, c, s, req, started))
       PROVE  ExportsStay
  <2>1. Owned(BindDestination(v, c, s, TRUE))
    BY <1>1, <1>3, <1>4, <1>10, BindDestinationOwned
  <2>2. Stays(w, Submitted(w, c, s, req, started))
    BY <1>1, <1>8, <2>1, SubmittedStays
  <2>3. StaysBound(Here, Submitted(w, c, s, req, started))
    BY <1>6, <1>8, <2>2, BoundThenStays
  <2> QED
    BY <1>10, <2>3, BoundStep
<1>11. \/ Becomes(v)
       \/ /\ CanBindDestination(v, c, s)
          /\ \/ Becomes(BindDestination(v, c, s, FALSE))
             \/ Becomes(w)
             \/ \E started \in {sess[c].streaming, TRUE} :
                  Becomes(Submitted(w, c, s, "idle", started))
             \/ Becomes(Submitted(w, c, s, "none", TRUE))
             \/ Becomes(Submitted(w, c, s, "queued", TRUE))
  BY <1>2, <1>8 DEF EndPictureIn
<1> QED
  BY <1>1, <1>5, <1>7, <1>9, <1>10, <1>11

LEMMA EndPictureStays ==
  ASSUME IInv, NEW c \in Contexts, EndPicture(c)
  PROVE  ExportsStay
<1> USE Basics
<1>1. PICK s : s = target[c]
  OBVIOUS
<1>2. /\ c \in live \ waiting /\ c \in live /\ s # NoSurface
      /\ sess[c].format # "none" /\ live' = live
  BY <1>1 DEF EndPicture
<1>3. s \in Surfaces /\ surf[s].session = c
  BY <1>1, <1>2, OpenPicture
<1>4. sess[c].format \in Layouts \cup {"none"}
  BY DEF Session
<1>5. CASE EndPictureIn(Here, c, s)
  <2>1. Owned(Here) /\ Stays(Here, Here)
    <3>1. Owned(Here)
      BY DEF IInv
    <3> QED
      BY <3>1, BoundSession, StaysSame
  <2> QED
    BY <1>2, <1>3, <1>4, <1>5, <2>1, EndPictureInStays
<1>6. ASSUME MaySwitch(c), NEW left, Becomes(Switched(c, left, NoPool))
      PROVE  ExportsStay
  BY <1>2, <1>6, SwitchedStays, StaysStep
<1>7. ASSUME stream[c][1] \in LateBound, MaySwitch(c),
             NEW format \in Layouts, NEW ncap \in PoolSizes,
             EndPictureIn(Switched(c, format, NewPool(ncap)), c, s)
      PROVE  ExportsStay
  <2>1. PICK p : p = NewPool(ncap)
    OBVIOUS
  <2>2. PoolOK(p) /\ format # "none"
    BY <2>1, NewSessions
  <2>3. PICK u : u = Switched(c, format, p)
    OBVIOUS
  <2>4. Prepared(u, c, s) /\ u.surf = surf /\ u.sess[c].format = format
    BY <1>1, <1>2, <1>7, <2>2, <2>3, SwitchedPrepared
  <2>5. Owned(u)
    BY <2>4 DEF Prepared
  <2>6. EndPictureIn(u, c, s)
    BY <1>7, <2>1, <2>3
  <2>7. Stays(Here, u)
    BY <1>2, <1>7, <2>3, SwitchedStays
  <2> QED
    BY <1>2, <1>3, <2>4, <2>5, <2>6, <2>7, EndPictureInStays
<1>8. \/ EndPictureIn(Here, c, s)
      \/ /\ MaySwitch(c)
         /\ \E left : Becomes(Switched(c, left, NoPool))
      \/ /\ stream[c][1] \in LateBound /\ MaySwitch(c)
         /\ \E format \in Layouts, ncap \in PoolSizes :
              EndPictureIn(Switched(c, format, NewPool(ncap)), c, s)
  <2>1. \/ EndPictureIn(Here, c, s)
        \/ /\ stream[c][1] \in LateBound /\ MaySwitch(c)
           /\ \E format \in Layouts \ {sess[c].format} :
                \/ /\ \E left \in {sess[c].format, "none", format} :
                        Becomes(Switched(c, left, NoPool))
                   /\ UNCHANGED waiting
                \/ \E ncap \in PoolSizes :
                     EndPictureIn(Switched(c, format, NewPool(ncap)), c, s)
    BY <1>1, Zenon DEF EndPicture
  <2> QED
    BY <2>1
<1> QED
  BY <1>5, <1>6, <1>7, <1>8

LEMMA PictureDoneStays ==
  ASSUME IInv, NEW c \in Contexts, PictureDone(c)
  PROVE  ExportsStay
<1> USE Basics
<1>1. PICK s : s = target[c]
  OBVIOUS
<1>2. PICK h : h = [Here EXCEPT !.surf[s].status = "Displaying", !.surf[s].req = "idle"]
  OBVIOUS
<1>3. /\ c \in waiting /\ live' = live /\ Becomes(ReleaseSource(h, c, s))
  BY <1>1, <1>2 DEF PictureDone
<1>4. s \in Surfaces /\ c \in Sessions
  BY <1>1, <1>3, OpenPicture DEF IInv, WaitIsForPicture
<1>5. /\ h.sess = sess
      /\ h.surf = [surf EXCEPT ![s].status = "Displaying", ![s].req = "idle"]
  BY <1>2 DEF Here
<1>6. \A r \in Surfaces : h.surf[r].dst = surf[r].dst /\ h.surf[r].session = surf[r].session
  BY <1>4, <1>5 DEF Surface
<1>7. PICK v : v = ReleaseSource(h, c, s)
  OBVIOUS
<1>8. PICK q : q = GiveBack(h.sess[c].out, h.surf[s].src)
  OBVIOUS
<1>9. v = [sess |-> [h.sess EXCEPT ![c].out = q],
           surf |-> [h.surf EXCEPT ![s].src = Unassigned]]
  BY <1>7, <1>8 DEF ReleaseSource
<1>10. \A y \in Sessions : /\ v.sess[y].format = sess[y].format
                           /\ v.sess[y].cap = sess[y].cap
  BY <1>4, <1>5, <1>9 DEF Session
<1>11. \A r \in Surfaces : /\ v.surf[r].dst = surf[r].dst
                           /\ v.surf[r].session = surf[r].session
  <2>1. h.surf \in [Surfaces -> Surface]
    <3>1. [surf[s] EXCEPT !.status = "Displaying", !.req = "idle"] \in Surface
      <4>1. surf[s] \in Surface
        BY <1>4
      <4> QED
        BY <4>1 DEF Surface
    <3> QED
      BY <1>4, <1>5, <3>1
  <2>2. v.surf = [h.surf EXCEPT ![s].src = Unassigned]
    BY <1>9
  <2>3. \A r \in Surfaces : /\ v.surf[r].dst = h.surf[r].dst
                            /\ v.surf[r].session = h.surf[r].session
    BY <1>4, <2>1, <2>2 DEF Surface
  <2> QED
    BY <1>6, <2>3
<1>12. Stays(Here, v)
  BY <1>10, <1>11, HereStays
<1> QED
  BY <1>3, <1>7, <1>12, StaysStep

\* A refused sync, whoever asks for it.
LEMMA RefusedStays ==
  ASSUME IInv, NEW s \in Surfaces, Becomes(SyncRefused(Here, s)), live' = live
  PROVE  ExportsStay
BY SyncRefusedStays, StaysStep DEF IInv

LEMMA PictureFailedStays ==
  ASSUME IInv, NEW c \in Contexts, PictureFailed(c)
  PROVE  ExportsStay
<1>1. /\ c \in waiting /\ live' = live /\ Becomes(SyncRefused(Here, target[c]))
  BY DEF PictureFailed
<1>2. target[c] \in Surfaces
  BY <1>1, OpenPicture DEF IInv, WaitIsForPicture
<1> QED
  BY <1>1, <1>2, RefusedStays

LEMMA DeriveImageStays ==
  ASSUME IInv, NEW s \in Surfaces, DeriveImage(s)
  PROVE  ExportsStay
<1> USE Basics
<1>1. PICK v : v = [Here EXCEPT !.surf[s].status = "Ready"]
  OBVIOUS
<1>2. live' = live /\ (Becomes(SyncRefused(Here, s)) \/ Becomes(v))
  BY <1>1 DEF DeriveImage
<1>3. CASE Becomes(v)
  <2>1. v.sess = sess /\ v.surf = [surf EXCEPT ![s].status = "Ready"]
    BY <1>1 DEF Here
  <2>2. \A r \in Surfaces : /\ v.surf[r].dst = surf[r].dst
                            /\ v.surf[r].session = surf[r].session
    BY <2>1 DEF Surface
  <2>3. Stays(Here, v)
    BY <2>1, <2>2, HereStays
  <2> QED
    BY <1>2, <1>3, <2>3, StaysStep
<1> QED
  BY <1>2, <1>3, RefusedStays

LEMMA ExportSurfaceStays ==
  ASSUME IInv, NEW s \in Surfaces, ExportSurface(s)
  PROVE  ExportsStay
<1> USE Basics
<1>1. PICK x : x = IF surf[s].session # NoSession THEN surf[s].session
                   ELSE BorrowedSession(surf[s].size, surf[s].format)
  OBVIOUS
<1>2. live' = live /\ \E m \in BOOLEAN : Becomes(BindDestination(Here, x, s, m))
  BY <1>1 DEF ExportSurface
<1>3. x \in Sessions
  <2>1. surf[s].session \in live \cup {Probe, NoSession}
    BY DEF IInv, SessionsAlive
  <2> QED
    BY <1>1, <2>1, BorrowedFacts
<1> QED
  BY <1>2, <1>3, BindDestinationStays, BoundStep DEF IInv

LEMMA DestroySurfaceStays ==
  ASSUME IInv, NEW s \in Surfaces, DestroySurface(s)
  PROVE  ExportsStay
<1> USE Basics
<1>1. PICK x : x = surf[s].session
  OBVIOUS
<1>2. /\ live' = live /\ surf' = [surf EXCEPT ![s] = FreeSlot]
      /\ \/ sess' = sess
         \/ /\ x # NoSession
            /\ sess' = [sess EXCEPT ![x].out = GiveBack(sess[x].out, surf[s].src),
                                    ![x].cap = GiveBack(sess[x].cap, surf[s].dst)]
  BY <1>1 DEF DestroySurface, ReleaseBoth
<1>3. x # NoSession => x \in Sessions
  BY <1>1 DEF IInv, SessionsAlive
<1>4. surf[s].dst # Unassigned => x # NoSession /\ surf[s].dst \in Held(sess[x].cap)
  BY <1>1 DEF IInv, Owned
<1>5. \A y \in Sessions : /\ sess'[y].format = sess[y].format
                          /\ sess'[y].cap \in OneStepOf(sess[y].cap)
  <2>1. CASE sess' = sess
    BY <2>1 DEF OneStepOf
  <2>2. CASE /\ x # NoSession
             /\ sess' = [sess EXCEPT ![x].out = GiveBack(sess[x].out, surf[s].src),
                                     ![x].cap = GiveBack(sess[x].cap, surf[s].dst)]
    <3>1. PICK p : p = GiveBack(sess[x].out, surf[s].src)
      OBVIOUS
    <3>2. PICK q : q = GiveBack(sess[x].cap, surf[s].dst)
      OBVIOUS
    <3>3. sess' = [sess EXCEPT ![x].out = p, ![x].cap = q]
      BY <2>2, <3>1, <3>2
    <3>4. q \in OneStepOf(sess[x].cap)
      BY <1>4, <3>2 DEF GiveBack, OneStepOf
    <3>5. /\ \A y \in Sessions \ {x} : sess'[y] = sess[y]
          /\ sess'[x].format = sess[x].format
          /\ sess'[x].cap = q
      BY <1>3, <2>2, <3>3 DEF Session
    <3> QED
      BY <3>4, <3>5 DEF OneStepOf
  <2> QED
    BY <1>2, <2>1, <2>2
<1>6. /\ ~surf'[s].live
      /\ \A r \in Surfaces \ {s} : surf'[r] = surf[r]
  BY <1>2 DEF FreeSlot, FreshSurface
<1> QED
  BY <1>5, <1>6, BoundSession DEF ExportsStay

LEMMA NextStays ==
  ASSUME IInv, [Next]_vars
  PROVE  ExportsStay
<1>1. CASE UNCHANGED vars
  BY <1>1 DEF vars, ExportsStay, OneStepOf
<1>2. ASSUME NEW s \in Surfaces, SyncSurface(s)
      PROVE  ExportsStay
  BY <1>2, RefusedStays DEF SyncSurface
<1> QED
  BY <1>1, <1>2, CreateSurfaceStays, CreateContextStays, DestroyContextStays,
     BeginPictureStays, EndPictureStays, PictureDoneStays, PictureFailedStays,
     DeriveImageStays, ExportSurfaceStays, DestroySurfaceStays DEF Next

\* For all constants a bound CAPTURE buffer keeps its queue, its index and its
\* layout until its surface or its context is destroyed, whatever the adoption
\* of the probe session, a switch of bit depth or a failing call does.
THEOREM ExportsKeepTheirBuffers == Spec => ExportedBufferStays
<1>1. IInv /\ [Next]_vars => ExportsStay
  BY NextStays
<1>2. Spec => [][ExportsStay]_vars
  BY <1>1, SpecInv, PTL DEF Spec
<1> QED
  BY <1>2 DEF ExportedBufferStays, ExportsStay

-----------------------------------------------------------------------------
(* What a step does to the indices that nobody has.                        *)

\* The lost indices of x in a world: held, and no surface's.
LostCoded(w, x) ==
  {i \in Held(w.sess[x].out) :
     \A r \in Surfaces : w.surf[r].session = x => w.surf[r].src # i}

LostShown(w, x) ==
  {i \in Held(w.sess[x].cap) :
     \A r \in Surfaces : w.surf[r].session = x => w.surf[r].dst # i}

\* What x has lost in v, y had lost in w.
LosesNoMore(w, y, v, x) ==
  LostCoded(v, x) \subseteq LostCoded(w, y) /\ LostShown(v, x) \subseteq LostShown(w, y)

\* Nothing more is lost, ...
LosesNothing(w, v) == \A x \in Sessions : LosesNoMore(w, x, v, x)

\* ... or what the probe session had lost has moved with it.
LosesAtMostMoves(w, v) ==
  \A x \in Sessions :
    \/ LosesNoMore(w, x, v, x)
    \/ LosesNoMore(w, Probe, v, x) /\ LostCoded(v, Probe) = {} /\ LostShown(v, Probe) = {}

LEMMA LostOf ==
  \A x \in Sessions : /\ Lost(x)[1] = LostCoded(Here, x)
                      /\ Lost(x)[2] = LostShown(Here, x)
<1>1. ASSUME NEW x \in Sessions
      PROVE  /\ Lost(x)[1] = LostCoded(Here, x)
             /\ Lost(x)[2] = LostShown(Here, x)
  <2>1. /\ Lost(x)[1] = Held(sess[x].out) \ Bound(x, "src")
        /\ Lost(x)[2] = Held(sess[x].cap) \ Bound(x, "dst")
    BY DEF Lost
  <2>2. /\ \A i : i \in Bound(x, "src") <=>
                    \E r \in Surfaces : surf[r].session = x /\ surf[r].src = i
        /\ \A i : i \in Bound(x, "dst") <=>
                    \E r \in Surfaces : surf[r].session = x /\ surf[r].dst = i
    BY DEF Bound
  <2> QED
    BY <2>1, <2>2 DEF LostCoded, LostShown, Here
<1> QED
  BY <1>1

LEMMA LosesNothingTwice ==
  ASSUME NEW w, NEW v, NEW u, LosesNothing(w, v), LosesNothing(v, u)
  PROVE  LosesNothing(w, u)
BY DEF LosesNothing, LosesNoMore

LEMMA LosesThenMoves ==
  ASSUME NEW w, NEW v, NEW u, LosesNothing(w, v), LosesAtMostMoves(v, u)
  PROVE  LosesAtMostMoves(w, u)
<1>1. Probe \in Sessions
  BY DEF Sessions
<1> QED
  BY <1>1 DEF LosesNothing, LosesAtMostMoves, LosesNoMore

LEMMA MovesThenLoses ==
  ASSUME NEW w, NEW v, NEW u, LosesAtMostMoves(w, v), LosesNothing(v, u)
  PROVE  LosesAtMostMoves(w, u)
<1>1. ASSUME NEW x \in Sessions
      PROVE  \/ LosesNoMore(w, x, u, x)
             \/ /\ LosesNoMore(w, Probe, u, x)
                /\ LostCoded(u, Probe) = {} /\ LostShown(u, Probe) = {}
  <2>1. /\ LostCoded(u, x) \subseteq LostCoded(v, x)
        /\ LostShown(u, x) \subseteq LostShown(v, x)
        /\ LostCoded(u, Probe) \subseteq LostCoded(v, Probe)
        /\ LostShown(u, Probe) \subseteq LostShown(v, Probe)
    BY DEF LosesNothing, LosesNoMore, Sessions
  <2>2. CASE LosesNoMore(w, x, v, x)
    BY <2>1, <2>2 DEF LosesNoMore
  <2>3. CASE /\ LosesNoMore(w, Probe, v, x)
             /\ LostCoded(v, Probe) = {} /\ LostShown(v, Probe) = {}
    BY <2>1, <2>3 DEF LosesNoMore
  <2> QED
    BY <2>2, <2>3 DEF LosesAtMostMoves
<1> QED
  BY <1>1 DEF LosesAtMostMoves

LEMMA LosesIsMoves ==
  ASSUME NEW w, NEW v, LosesNothing(w, v)
  PROVE  LosesAtMostMoves(w, v)
BY DEF LosesNothing, LosesAtMostMoves

\* A step that touches neither pools nor bindings loses nothing.
LEMMA LosesSame ==
  ASSUME NEW w, NEW v,
         \A y \in Sessions : /\ v.sess[y].out = w.sess[y].out
                             /\ v.sess[y].cap = w.sess[y].cap,
         \A r \in Surfaces : /\ v.surf[r].src = w.surf[r].src
                             /\ v.surf[r].dst = w.surf[r].dst
                             /\ v.surf[r].session = w.surf[r].session
  PROVE  LosesNothing(w, v)
BY DEF LosesNothing, LosesNoMore, LostCoded, LostShown

LEMMA AdoptLoses ==
  ASSUME NEW h, Owned(h), h.sess = sess, NEW c \in Contexts, NEW s \in Surfaces
  PROVE  LosesAtMostMoves(h, Adopt(h, c, s))
<1> USE SessionAssumption
<1>1. /\ c \in Sessions /\ Probe \in Sessions /\ c # Probe
      /\ h.sess \in [Sessions -> Session] /\ h.surf \in [Surfaces -> Surface]
  BY DEF Owned, World, Sessions
<1>2. CASE h.surf[s].session # Probe
  <2>1. Adopt(h, c, s) = h
    BY <1>2 DEF Adopt
  <2> QED
    BY <2>1, LosesSame, LosesIsMoves
<1>3. CASE h.surf[s].session = Probe
  <2>1. PICK w : w = Adopt(h, c, s)
    OBVIOUS
  <2>2. w = [sess |-> [h.sess EXCEPT ![c] = h.sess[Probe], ![Probe] = ClosedSession],
             surf |-> [r \in Surfaces |->
                         IF h.surf[r].session = Probe
                           THEN [h.surf[r] EXCEPT !.session = c] ELSE h.surf[r]]]
    BY <1>3, <2>1 DEF Adopt
  <2>3. /\ w.sess[c] = h.sess[Probe] /\ w.sess[Probe] = ClosedSession
        /\ \A y \in Sessions \ {c, Probe} : w.sess[y] = h.sess[y]
    BY <1>1, <2>2
  <2>4. \A r \in Surfaces : w.surf[r] = IF h.surf[r].session = Probe
                              THEN [h.surf[r] EXCEPT !.session = c] ELSE h.surf[r]
    BY <2>2
  <2>5. \A r \in Surfaces :
          /\ w.surf[r].src = h.surf[r].src /\ w.surf[r].dst = h.surf[r].dst
          /\ w.surf[r].session = IF h.surf[r].session = Probe THEN c
                                 ELSE h.surf[r].session
    <3>1. ASSUME NEW r \in Surfaces
          PROVE  /\ w.surf[r].src = h.surf[r].src /\ w.surf[r].dst = h.surf[r].dst
                 /\ w.surf[r].session = IF h.surf[r].session = Probe THEN c
                                        ELSE h.surf[r].session
      <4>1. h.surf[r] \in Surface
        BY <1>1
      <4>2. CASE h.surf[r].session = Probe
        <5>1. w.surf[r] = [h.surf[r] EXCEPT !.session = c]
          BY <2>4, <4>2
        <5> QED
          BY <4>1, <4>2, <5>1 DEF Surface
      <4>3. CASE h.surf[r].session # Probe
        BY <2>4, <4>3
      <4> QED
        BY <4>2, <4>3
    <3> QED
      BY <3>1
  <2>6. LostCoded(w, Probe) = {} /\ LostShown(w, Probe) = {}
    BY <2>3, NoPoolFacts DEF LostCoded, LostShown, ClosedSession
  <2>7. LosesNoMore(h, Probe, w, c)
    BY <2>3, <2>5 DEF LosesNoMore, LostCoded, LostShown
  <2>8. \A y \in Sessions \ {c, Probe} : LosesNoMore(h, y, w, y)
    BY <2>3, <2>5 DEF LosesNoMore, LostCoded, LostShown
  <2>9. LosesNoMore(h, Probe, w, Probe)
    BY <2>6 DEF LosesNoMore
  <2> QED
    BY <2>1, <2>6, <2>7, <2>8, <2>9 DEF LosesAtMostMoves
<1> QED
  BY <1>2, <1>3

LEMMA BindSourceLoses ==
  ASSUME NEW w, Owned(w), NEW x \in Sessions, NEW s \in Surfaces,
         NEW mapped \in BOOLEAN, w.surf[s].session \in {NoSession, x},
         CanBindSource(w, x, s)
  PROVE  LosesNothing(w, BindSource(w, x, s, mapped))
<1>1. /\ w.sess \in [Sessions -> Session] /\ w.surf \in [Surfaces -> Surface]
      /\ NoSession \notin Sessions
      /\ PoolOK(w.sess[x].out)
  BY SessionAssumption DEF Owned, World, Sessions
<1>2. CASE w.surf[s].src # Unassigned
  <2>1. BindSource(w, x, s, mapped) = w
    BY <1>2 DEF BindSource
  <2> QED
    BY <2>1, LosesSame
<1>3. CASE w.surf[s].src = Unassigned
  <2>1. PICK b : b = BindSource(w, x, s, mapped)
    OBVIOUS
  <2>2. PICK p : p = w.sess[x].out
    OBVIOUS
  <2>3. PICK q : q = IF mapped THEN Take(p) ELSE TakeAndGiveBack(p)
    OBVIOUS
  <2>4. PICK i : i = IF mapped THEN Candidate(p) ELSE Unassigned
    OBVIOUS
  <2>5. b = [sess |-> [w.sess EXCEPT ![x].out = q],
             surf |-> [w.surf EXCEPT ![s].session = x, ![s].src = i]]
    BY <1>3, <2>1, <2>2, <2>3, <2>4 DEF BindSource
  <2>6. PoolOK(p) /\ ~Exhausted(p)
    BY <1>1, <1>3, <2>2 DEF CanBindSource
  <2>7. Held(q) \subseteq Held(p) \cup {i}
    BY <2>3, <2>4, <2>6, TakeFacts, TakeAndGiveBackFacts
  <2>8. \A j \in Held(p) : j # Unassigned
    BY <2>6, HeldInRange
  <2>9. /\ \A y \in Sessions : /\ b.sess[y].cap = w.sess[y].cap
                               /\ y # x => b.sess[y].out = w.sess[y].out
        /\ b.sess[x].out = q
    BY <1>1, <2>5 DEF Session
  <2>10. /\ \A r \in Surfaces \ {s} : b.surf[r] = w.surf[r]
         /\ b.surf[s] = [w.surf[s] EXCEPT !.session = x, !.src = i]
    BY <1>1, <2>5
  <2>11. b.surf[s].session = x /\ b.surf[s].src = i /\ b.surf[s].dst = w.surf[s].dst
    BY <1>1, <2>10 DEF Surface
  <2>12. \A y \in Sessions : LostShown(b, y) \subseteq LostShown(w, y)
    <3>1. \A r \in Surfaces :
            /\ b.surf[r].dst = w.surf[r].dst
            /\ w.surf[r].session \in Sessions => b.surf[r].session = w.surf[r].session
      BY <1>1, <2>10, <2>11
    <3> QED
      BY <2>9, <3>1 DEF LostShown
  <2>13. \A y \in Sessions \ {x} : LostCoded(b, y) \subseteq LostCoded(w, y)
    BY <1>1, <2>9, <2>10, <2>11 DEF LostCoded
  <2>14. LostCoded(b, x) \subseteq LostCoded(w, x)
    <3>1. ASSUME NEW j \in LostCoded(b, x)
          PROVE  j \in LostCoded(w, x)
      <4>1. /\ j \in Held(q)
            /\ \A r \in Surfaces : b.surf[r].session = x => b.surf[r].src # j
        BY <2>9 DEF LostCoded
      <4>2. j # i /\ j \in Held(p) /\ j # Unassigned
        BY <2>7, <2>8, <2>11, <4>1
      <4>3. \A r \in Surfaces : w.surf[r].session = x => w.surf[r].src # j
        BY <1>3, <2>10, <4>1, <4>2
      <4> QED
        BY <2>2, <4>2, <4>3 DEF LostCoded
    <3> QED
      BY <3>1
  <2> QED
    BY <2>1, <2>12, <2>13, <2>14 DEF LosesNothing, LosesNoMore
<1> QED
  BY <1>2, <1>3

LEMMA BindDestinationLoses ==
  ASSUME NEW w, Owned(w), NEW x \in Sessions, NEW s \in Surfaces,
         NEW mapped \in BOOLEAN, w.surf[s].session \in {NoSession, x},
         CanBindDestination(w, x, s)
  PROVE  LosesNothing(w, BindDestination(w, x, s, mapped))
<1>1. /\ w.sess \in [Sessions -> Session] /\ w.surf \in [Surfaces -> Surface]
      /\ NoSession \notin Sessions
      /\ PoolOK(w.sess[x].cap)
  BY SessionAssumption DEF Owned, World, Sessions
<1>2. CASE w.surf[s].dst # Unassigned
  <2>1. BindDestination(w, x, s, mapped) = w
    BY <1>2 DEF BindDestination
  <2> QED
    BY <2>1, LosesSame
<1>3. CASE w.surf[s].dst = Unassigned
  <2>1. PICK b : b = BindDestination(w, x, s, mapped)
    OBVIOUS
  <2>2. PICK p : p = w.sess[x].cap
    OBVIOUS
  <2>3. PICK q : q = IF mapped THEN Take(p) ELSE TakeAndGiveBack(p)
    OBVIOUS
  <2>4. PICK i : i = IF mapped THEN Candidate(p) ELSE Unassigned
    OBVIOUS
  <2>t. PICK t : t = [w.surf[s] EXCEPT !.session = x, !.dst = i]
    OBVIOUS
  <2>5. b = [sess |-> [w.sess EXCEPT ![x].cap = q],
             surf |-> IF mapped THEN [w.surf EXCEPT ![s].session = x, ![s].dst = i]
                      ELSE w.surf]
    BY <1>3, <2>1, <2>2, <2>3, <2>4 DEF BindDestination
  <2>6. PoolOK(p) /\ ~Exhausted(p)
    BY <1>1, <1>3, <2>2 DEF CanBindDestination
  <2>7. Held(q) \subseteq Held(p) \cup {i} /\ (~mapped => Held(q) = Held(p))
    BY <2>3, <2>4, <2>6, TakeFacts, TakeAndGiveBackFacts
  <2>8. \A j \in Held(p) : j # Unassigned
    BY <2>6, HeldInRange
  <2>9. /\ \A y \in Sessions : /\ b.sess[y].out = w.sess[y].out
                               /\ y # x => b.sess[y].cap = w.sess[y].cap
        /\ b.sess[x].cap = q
    BY <1>1, <2>5 DEF Session
  <2>10. /\ \A r \in Surfaces \ {s} : b.surf[r] = w.surf[r]
         /\ b.surf[s] = IF mapped THEN t ELSE w.surf[s]
    BY <1>1, <2>5, <2>t
  <2>t2. t.session = x /\ t.dst = i /\ t.src = w.surf[s].src
    BY <1>1, <2>t DEF Surface
  <2>11. /\ b.surf[s].src = w.surf[s].src
         /\ b.surf[s].session = IF mapped THEN x ELSE w.surf[s].session
         /\ b.surf[s].dst = IF mapped THEN i ELSE w.surf[s].dst
    BY <2>10, <2>t2
  <2>12. \A y \in Sessions : LostCoded(b, y) \subseteq LostCoded(w, y)
    BY <1>1, <2>9, <2>10, <2>11 DEF LostCoded
  <2>13. \A y \in Sessions \ {x} : LostShown(b, y) \subseteq LostShown(w, y)
    BY <1>1, <2>9, <2>10, <2>11 DEF LostShown
  <2>14. LostShown(b, x) \subseteq LostShown(w, x)
    <3>1. ASSUME NEW j \in LostShown(b, x)
          PROVE  j \in LostShown(w, x)
      <4>1. /\ j \in Held(q)
            /\ \A r \in Surfaces : b.surf[r].session = x => b.surf[r].dst # j
        BY <2>9 DEF LostShown
      <4>2. j \in Held(p) /\ j # Unassigned
        BY <2>7, <2>8, <2>11, <4>1
      <4>3. \A r \in Surfaces : w.surf[r].session = x => w.surf[r].dst # j
        BY <1>3, <2>10, <4>1, <4>2
      <4> QED
        BY <2>2, <4>2, <4>3 DEF LostShown
    <3> QED
      BY <3>1
  <2> QED
    BY <2>1, <2>12, <2>13, <2>14 DEF LosesNothing, LosesNoMore
<1> QED
  BY <1>2, <1>3

LEMMA SyncRefusedLoses ==
  ASSUME NEW w, Owned(w), NEW s \in Surfaces
  PROVE  LosesNothing(w, SyncRefused(w, s))
<1>1. PICK v : v = SyncRefused(w, s)
  OBVIOUS
<1>2. v.sess = w.sess
  BY <1>1, SyncRefusedOwned
<1>3. \A r \in Surfaces : /\ v.surf[r].src = w.surf[r].src
                          /\ v.surf[r].dst = w.surf[r].dst
                          /\ v.surf[r].session = w.surf[r].session
  BY <1>1, SyncRefusedOwned
<1> QED
  BY <1>1, <1>2, <1>3, LosesSame

LEMMA RelabelledLoses ==
  ASSUME IInv, NEW c \in live, NEW s \in Surfaces
  PROVE  LosesNothing(Here, Relabelled(c, s))
<1>1. PICK h : h = Relabelled(c, s)
  OBVIOUS
<1>2. PICK w : w = Here
  OBVIOUS
<1>3. h.sess = w.sess
  BY <1>1, <1>2, RelabelledFacts, Basics
<1>4. \A r \in Surfaces : /\ h.surf[r].src = w.surf[r].src
                          /\ h.surf[r].dst = w.surf[r].dst
                          /\ h.surf[r].session = w.surf[r].session
  BY <1>1, <1>2, RelabelledFacts, Basics
<1> QED
  BY <1>1, <1>2, <1>3, <1>4, LosesSame

LEMMA DescribedLoses ==
  ASSUME NEW w, Owned(w), NEW c \in Sessions, NEW s \in Surfaces,
         w.sess[c].format \in Layouts
  PROVE  /\ LosesNothing(w, Described(w, c, s))
         /\ Owned(Described(w, c, s))
         /\ Described(w, c, s).surf[s].session = w.surf[s].session
<1>1. PICK v : v = Described(w, c, s)
  OBVIOUS
<1>2. CASE stream[c][1] \in LateBound
  <2>1. PICK f \in Layouts : f = w.sess[c].format
    OBVIOUS
  <2>2. v = [w EXCEPT !.surf[s].format = f]
    BY <1>1, <1>2, <2>1 DEF Described
  <2>3. Owned(v) /\ v.sess = w.sess
    BY <2>2, DescriptionOnly
  <2>4. \A r \in Surfaces : /\ v.surf[r].src = w.surf[r].src
                            /\ v.surf[r].dst = w.surf[r].dst
                            /\ v.surf[r].session = w.surf[r].session
    BY <2>2, DescriptionOnly
  <2>5. LosesNothing(w, v)
    BY <2>3, <2>4, LosesSame
  <2> QED
    BY <1>1, <2>3, <2>4, <2>5
<1>3. CASE stream[c][1] \notin LateBound
  <2>1. v = w
    BY <1>1, <1>3 DEF Described
  <2> QED
    BY <1>1, <2>1, LosesSame
<1> QED
  BY <1>2, <1>3

LEMMA SubmittedLoses ==
  ASSUME NEW w, Owned(w), NEW c \in Sessions, NEW s \in Surfaces,
         NEW req \in {"none", "idle", "queued"}, NEW started \in BOOLEAN
  PROVE  LosesNothing(w, Submitted(w, c, s, req, started))
<1>1. PICK v : v = Submitted(w, c, s, req, started)
  OBVIOUS
<1>2. w.sess \in [Sessions -> Session] /\ w.surf \in [Surfaces -> Surface]
  BY DEF Owned, World
<1>3. v = [sess |-> [w.sess EXCEPT ![c].streaming = started],
           surf |-> [w.surf EXCEPT ![s].req = req]]
  BY <1>1 DEF Submitted
<1>4. \A y \in Sessions : /\ v.sess[y].out = w.sess[y].out
                          /\ v.sess[y].cap = w.sess[y].cap
  BY <1>2, <1>3 DEF Session
<1>5. \A r \in Surfaces : /\ v.surf[r].src = w.surf[r].src
                          /\ v.surf[r].dst = w.surf[r].dst
                          /\ v.surf[r].session = w.surf[r].session
  BY <1>2, <1>3 DEF Surface
<1> QED
  BY <1>1, <1>4, <1>5, LosesSame

\* A queue that was never used is replaced by one that was never used.
LEMMA SwitchedLoses ==
  ASSUME IInv, NEW c \in live, NEW format, NEW pool, Held(pool) = {}
  PROVE  LosesNothing(Here, Switched(c, format, pool))
<1>1. PICK u : u = Switched(c, format, pool)
  OBVIOUS
<1>2. c \in Sessions /\ sess \in [Sessions -> Session] /\ Here.sess = sess /\ Here.surf = surf
  BY Basics
<1>3. u = [sess |-> [sess EXCEPT ![c].format = format, ![c].cap = pool],
           surf |-> surf]
  BY <1>1 DEF Switched, Here
<1>4. /\ u.surf = surf
      /\ \A y \in Sessions \ {c} : u.sess[y] = sess[y]
      /\ u.sess[c].out = sess[c].out /\ u.sess[c].cap = pool
  BY <1>2, <1>3 DEF Session
<1>5. /\ \A y \in Sessions : LostCoded(u, y) \subseteq LostCoded(Here, y)
      /\ \A y \in Sessions \ {c} : LostShown(u, y) \subseteq LostShown(Here, y)
  BY <1>2, <1>4 DEF LostCoded, LostShown
<1>6. LostShown(u, c) = {}
  BY <1>4 DEF LostShown
<1> QED
  BY <1>1, <1>5, <1>6 DEF LosesNothing, LosesNoMore

-----------------------------------------------------------------------------
(* The actions, one by one.                                                *)

IndicesKept ==
  \A x \in Sessions :
       \/ Moved(x, x)
       \/ Moved(x, Probe) /\ Lost(Probe)' = <<{}, {}>>
       \/ \E s \in Surfaces : /\ surf[s].live /\ ~surf'[s].live
                              /\ surf[s].status = "Rendering"

LEMMA LostNext ==
  (\A x \in Sessions : /\ Lost(x)[1] = LostCoded(Here, x)
                       /\ Lost(x)[2] = LostShown(Here, x))'
BY LostOf, PTL

LEMMA MovesStep ==
  ASSUME NEW v, LosesAtMostMoves(Here, v), Becomes(v)
  PROVE  IndicesKept
<1>1. Probe \in Sessions
  BY DEF Sessions
<1>2. \A x \in Sessions : /\ Lost(x)[1] = LostCoded(Here, x)
                          /\ Lost(x)[2] = LostShown(Here, x)
  BY LostOf
<1>3. \A x \in Sessions : /\ Lost(x)'[1] = LostCoded(v, x)
                          /\ Lost(x)'[2] = LostShown(v, x)
  <2>1. Here'.sess = v.sess /\ Here'.surf = v.surf
    BY DEF Becomes, Here
  <2>2. \A x \in Sessions : /\ LostCoded(Here', x) = LostCoded(v, x)
                            /\ LostShown(Here', x) = LostShown(v, x)
    BY <2>1 DEF LostCoded, LostShown
  <2>3. \A x \in Sessions : /\ Lost(x)'[1] = LostCoded(Here', x)
                            /\ Lost(x)'[2] = LostShown(Here', x)
    BY LostNext
  <2> QED
    BY <2>2, <2>3
<1>4. Lost(Probe)' = <<Lost(Probe)'[1], Lost(Probe)'[2]>>
  BY DEF Lost
<1>5. ASSUME NEW x \in Sessions
      PROVE  \/ Moved(x, x)
             \/ Moved(x, Probe) /\ Lost(Probe)' = <<{}, {}>>
  <2>1. CASE LosesNoMore(Here, x, v, x)
    BY <1>2, <1>3, <2>1 DEF LosesNoMore, Moved
  <2>2. CASE /\ LosesNoMore(Here, Probe, v, x)
             /\ LostCoded(v, Probe) = {} /\ LostShown(v, Probe) = {}
    <3>1. Moved(x, Probe)
      BY <1>1, <1>2, <1>3, <2>2 DEF LosesNoMore, Moved
    <3>2. Lost(Probe)'[1] = {} /\ Lost(Probe)'[2] = {}
      BY <1>1, <1>3, <2>2
    <3> QED
      BY <1>4, <3>1, <3>2
  <2> QED
    BY <2>1, <2>2 DEF LosesAtMostMoves
<1> QED
  BY <1>5 DEF IndicesKept

LEMMA LosesStep ==
  ASSUME NEW v, LosesNothing(Here, v), Becomes(v)
  PROVE  IndicesKept
BY MovesStep, LosesIsMoves

\* The steps that are written without a world lead to the next one.
LEMMA NextIsWorld == \E v : v = [sess |-> sess', surf |-> surf'] /\ Becomes(v)
<1>1. PICK v : v = [sess |-> sess', surf |-> surf']
  OBVIOUS
<1> QED
  BY <1>1 DEF Becomes

LEMMA CreateSurfaceLoses ==
  ASSUME IInv, NEW s \in Surfaces, NEW size \in Sizes, NEW format \in Layouts,
         CreateSurface(s, size, format)
  PROVE  IndicesKept
<1> USE Basics
<1>1. ~surf[s].live /\ surf' = [surf EXCEPT ![s] = FreshSurface(size, format)]
  BY DEF CreateSurface
<1>2. PICK v : v = [sess |-> sess', surf |-> surf'] /\ Becomes(v)
  BY NextIsWorld
<1>3. surf[s].session = NoSession
  BY <1>1 DEF IInv, SessionsAlive
<1>4. \A r \in Surfaces : \A y \in Sessions : surf[r].session = y => v.surf[r] = surf[r]
  BY <1>1, <1>2, <1>3
<1>5. \/ sess' = sess
      \/ \E t : /\ sess' = [sess EXCEPT ![Probe] = t]
                /\ Held(t.out) = {} /\ Held(t.cap) = {}
  <2>1. CASE sess' = sess
    BY <2>1
  <2>2. ASSUME NEW layout,
               sess' = [sess EXCEPT ![Probe] = [ClosedSession EXCEPT !.format = layout]]
        PROVE  \E t : /\ sess' = [sess EXCEPT ![Probe] = t]
                      /\ Held(t.out) = {} /\ Held(t.cap) = {}
    <3>1. PICK t : t = [ClosedSession EXCEPT !.format = layout]
      OBVIOUS
    <3>2. t.out = NoPool /\ t.cap = NoPool
      BY <3>1 DEF ClosedSession
    <3> QED
      BY <2>2, <3>1, <3>2, NoPoolFacts
  <2>3. ASSUME NEW layout, NEW str, NEW nout \in PoolSizes, NEW ncap \in PoolSizes,
               sess' = [sess EXCEPT ![Probe] = Programmed(str, layout, nout, ncap)]
        PROVE  \E t : /\ sess' = [sess EXCEPT ![Probe] = t]
                      /\ Held(t.out) = {} /\ Held(t.cap) = {}
    <3>1. PICK t : t = Programmed(str, layout, nout, ncap)
      OBVIOUS
    <3>2. t.out = NewPool(nout) /\ t.cap = NewPool(ncap)
      BY <3>1 DEF Programmed
    <3>3. nout \in 0 .. MaxBuffers /\ ncap \in 0 .. MaxBuffers
      BY SessionAssumption, MaxBuffersAssumption
    <3>4. Held(t.out) = {} /\ Held(t.cap) = {}
      BY <3>2, <3>3, NewPoolFacts
    <3> QED
      BY <2>3, <3>1, <3>4
  <2>4. \/ sess' = sess
        \/ \E layout :
             sess' = [sess EXCEPT ![Probe] = [ClosedSession EXCEPT !.format = layout]]
        \/ \E layout, str : \E nout, ncap \in PoolSizes :
             sess' = [sess EXCEPT ![Probe] = Programmed(str, layout, nout, ncap)]
    BY Zenon DEF CreateSurface
  <2>5. CASE \E layout :
               sess' = [sess EXCEPT ![Probe] = [ClosedSession EXCEPT !.format = layout]]
    BY <2>2, <2>5
  <2>6. CASE \E layout, str : \E nout, ncap \in PoolSizes :
               sess' = [sess EXCEPT ![Probe] = Programmed(str, layout, nout, ncap)]
    BY <2>3, <2>6
  <2> QED
    BY <2>1, <2>4, <2>5, <2>6
<1>6. \A y \in Sessions : \/ v.sess[y] = sess[y]
                          \/ Held(v.sess[y].out) = {} /\ Held(v.sess[y].cap) = {}
  BY <1>2, <1>5
<1>7. LosesNothing(Here, v)
  <2>1. ASSUME NEW y \in Sessions
        PROVE  LosesNoMore(Here, y, v, y)
    <3>1. CASE v.sess[y] = sess[y]
      BY <1>4, <3>1 DEF LosesNoMore, LostCoded, LostShown
    <3>2. CASE Held(v.sess[y].out) = {} /\ Held(v.sess[y].cap) = {}
      BY <3>2 DEF LosesNoMore, LostCoded, LostShown
    <3> QED
      BY <1>6, <3>1, <3>2
  <2> QED
    BY <2>1 DEF LosesNothing
<1> QED
  BY <1>2, <1>7, LosesStep

LEMMA CreateContextLoses ==
  ASSUME IInv, NEW c \in Contexts, NEW str \in Streams, CreateContext(c, str)
  PROVE  IndicesKept
<1> USE Basics
<1>1. PICK v : v = [sess |-> sess', surf |-> surf'] /\ Becomes(v)
  BY NextIsWorld
<1>2. PICK wanted \in Layouts, nout \in PoolSizes, ncap \in PoolSizes :
        sess' = [sess EXCEPT ![c] =
                   Programmed(str, LayoutFor(str[1], wanted), nout, ncap)]
  BY DEF CreateContext
<1>3. PICK t : t = Programmed(str, LayoutFor(str[1], wanted), nout, ncap)
  OBVIOUS
<1>4. t.out = NewPool(nout) /\ t.cap = NewPool(ncap)
  BY <1>3 DEF Programmed
<1>5. nout \in 0 .. MaxBuffers /\ ncap \in 0 .. MaxBuffers
  BY SessionAssumption, MaxBuffersAssumption
<1>6. Held(t.out) = {} /\ Held(t.cap) = {}
  BY <1>4, <1>5, NewPoolFacts
<1>7. /\ v.surf = surf /\ v.sess[c] = t
      /\ \A y \in Sessions \ {c} : v.sess[y] = sess[y]
  BY <1>1, <1>2, <1>3 DEF CreateContext
<1>8. LosesNothing(Here, v)
  BY <1>6, <1>7 DEF LosesNothing, LosesNoMore, LostCoded, LostShown
<1> QED
  BY <1>1, <1>8, LosesStep

LEMMA DestroyContextLoses ==
  ASSUME IInv, NEW c \in Contexts, DestroyContext(c)
  PROVE  IndicesKept
<1> USE Basics
<1>1. PICK v : v = [sess |-> sess', surf |-> surf'] /\ Becomes(v)
  BY NextIsWorld
<1>2. /\ v.sess[c] = ClosedSession
      /\ \A y \in Sessions \ {c} : v.sess[y] = sess[y]
      /\ \A r \in Surfaces : surf[r].session # c => v.surf[r] = surf[r]
  BY <1>1 DEF DestroyContext
<1>3. Held(v.sess[c].out) = {} /\ Held(v.sess[c].cap) = {}
  BY <1>2, NoPoolFacts DEF ClosedSession
<1>4. \A y \in Sessions \ {c} : \A r \in Surfaces :
        surf[r].session = y => v.surf[r] = surf[r]
  BY <1>2
<1>5. LosesNothing(Here, v)
  BY <1>2, <1>3, <1>4, ZenonT(60) DEF LosesNothing, LosesNoMore, LostCoded, LostShown
<1> QED
  BY <1>1, <1>5, LosesStep

LEMMA BeginPictureLoses ==
  ASSUME IInv, NEW c \in Contexts, NEW s \in Surfaces, BeginPicture(c, s)
  PROVE  IndicesKept
<1> USE Basics
<1>1. c \in live /\ c \in Sessions /\ surf[s].live
  BY DEF BeginPicture
<1>2. PICK h : h = Relabelled(c, s)
  OBVIOUS
<1>3. LosesNothing(Here, h)
  BY <1>1, <1>2, RelabelledLoses
<1>4. CASE Becomes(h)
  BY <1>3, <1>4, LosesStep
<1>5. SUFFICES ASSUME Adoptable(h, c, s)
               PROVE  IndicesKept
  BY <1>2, <1>4 DEF BeginPicture
<1>6. PICK w : w = Adopt(h, c, s)
  OBVIOUS
<1>7. /\ Owned(h) /\ h.sess = sess
      /\ \A r \in Surfaces : /\ h.surf[r].live = surf[r].live
                             /\ h.surf[r].status = surf[r].status
                             /\ h.surf[r].req = surf[r].req
                             /\ h.surf[r].src = surf[r].src
                             /\ h.surf[r].dst = surf[r].dst
                             /\ h.surf[r].session = surf[r].session
  BY <1>1, <1>2, RelabelledFacts
<1>8. Prepared(w, c, s)
  BY <1>1, <1>5, <1>6, <1>7, PreparedAdopt
<1>9. Owned(w) /\ w.surf[s].session \in {NoSession, c}
  BY <1>8 DEF Prepared
<1>10. LosesAtMostMoves(Here, w)
  <2>1. LosesAtMostMoves(h, w)
    BY <1>6, <1>7, AdoptLoses
  <2> QED
    BY <1>3, <2>1, LosesThenMoves
<1>11. ASSUME NEW v, LosesNothing(w, v), Becomes(v)
       PROVE  IndicesKept
  BY <1>10, <1>11, MovesThenLoses, MovesStep
<1>12. CASE BeginRefused(c, s, w)
  BY <1>9, <1>11, <1>12, SyncRefusedLoses DEF BeginRefused
<1>13. CASE Becomes(w)
  BY <1>10, <1>13, MovesStep
<1>14. ASSUME CanBindSource(w, c, s), NEW m \in BOOLEAN
       PROVE  /\ LosesNothing(w, BindSource(w, c, s, m))
              /\ Prepared(BindSource(w, c, s, m), c, s)
  <2>1. LosesNothing(w, BindSource(w, c, s, m))
    BY <1>1, <1>9, <1>14, BindSourceLoses
  <2>2. Prepared(BindSource(w, c, s, m), c, s)
    BY <1>1, <1>8, <1>14, PreparedSource
  <2> QED
    BY <2>1, <2>2
<1>15. CASE BeginWithoutSource(c, s, w)
  <2>1. \/ Becomes(w)
        \/ CanBindSource(w, c, s) /\ Becomes(BindSource(w, c, s, FALSE))
    BY <1>15 DEF BeginWithoutSource
  <2> QED
    BY <1>11, <1>13, <1>14, <2>1
<1>16. PICK b : b = BindSource(w, c, s, TRUE)
  OBVIOUS
<1>17. CanBindSource(w, c, s) => LosesNothing(w, b) /\ Prepared(b, c, s)
  BY <1>14, <1>16
<1>18. ASSUME CanBindSource(w, c, s), CanBindDestination(b, c, s), NEW m \in BOOLEAN
       PROVE  /\ LosesNothing(w, BindDestination(b, c, s, m))
              /\ Prepared(BindDestination(b, c, s, m), c, s)
  <2>1. Owned(b) /\ b.surf[s].session \in {NoSession, c}
    BY <1>17, <1>18 DEF Prepared
  <2>2. LosesNothing(b, BindDestination(b, c, s, m))
    BY <1>1, <1>18, <2>1, BindDestinationLoses
  <2>3. LosesNothing(w, BindDestination(b, c, s, m))
    BY <1>17, <1>18, <2>2, LosesNothingTwice
  <2>4. Prepared(BindDestination(b, c, s, m), c, s)
    BY <1>1, <1>17, <1>18, PreparedDestination
  <2> QED
    BY <2>3, <2>4
<1>19. CASE BeginWithoutDestination(c, s, w)
  <2>1. /\ CanBindSource(w, c, s)
        /\ \/ Becomes(b)
           \/ CanBindDestination(b, c, s) /\ Becomes(BindDestination(b, c, s, FALSE))
    BY <1>16, <1>19 DEF BeginWithoutDestination
  <2> QED
    BY <1>11, <1>17, <1>18, <2>1
<1>20. CASE BeginSucceeds(c, s, w)
  <2>1. PICK d : d = IF stream[c][1] \in LateBound THEN b
                     ELSE BindDestination(b, c, s, TRUE)
    OBVIOUS
  <2>2. /\ CanBindSource(w, c, s)
        /\ stream[c][1] \in LateBound \/ CanBindDestination(b, c, s)
        /\ Becomes([d EXCEPT !.surf[s].status = "Rendering"])
    BY <1>16, <1>20, <2>1 DEF BeginSucceeds
  <2>3. LosesNothing(w, d) /\ Prepared(d, c, s)
    BY <1>17, <1>18, <2>1, <2>2
  <2>4. PICK u : u = [d EXCEPT !.surf[s].status = "Rendering"]
    OBVIOUS
  <2>5. LosesNothing(d, u)
    <3>1. /\ d.surf \in [Surfaces -> Surface]
          /\ d = [sess |-> d.sess, surf |-> d.surf]
      BY <2>3 DEF Prepared, Owned, World
    <3>2. /\ u.sess = d.sess
          /\ u.surf = [d.surf EXCEPT ![s].status = "Rendering"]
      BY <2>4, <3>1
    <3>3. \A r \in Surfaces : /\ u.surf[r].src = d.surf[r].src
                              /\ u.surf[r].dst = d.surf[r].dst
                              /\ u.surf[r].session = d.surf[r].session
      BY <3>1, <3>2 DEF Surface
    <3>4. \A y \in Sessions : /\ u.sess[y].out = d.sess[y].out
                              /\ u.sess[y].cap = d.sess[y].cap
      BY <3>2
    <3> QED
      BY <3>3, <3>4, LosesSame
  <2>6. LosesNothing(w, u)
    BY <2>3, <2>5, LosesNothingTwice
  <2> QED
    BY <1>11, <2>2, <2>4, <2>6
<1> QED
  BY <1>2, <1>4, <1>6, <1>12, <1>15, <1>19, <1>20 DEF BeginPicture

LEMMA EndPictureInLoses ==
  ASSUME IInv, NEW c \in live, NEW s \in Surfaces, NEW u, Owned(u),
         LosesNothing(Here, u), u.sess[c].format \in Layouts, u.surf = surf,
         surf[s].session = c, EndPictureIn(u, c, s)
  PROVE  IndicesKept
<1> USE Basics
<1>1. c \in Sessions /\ sess[c].streaming \in BOOLEAN
  BY DEF Session
<1>2. PICK v : v = Described(u, c, s)
  OBVIOUS
<1>3. Owned(v) /\ LosesNothing(Here, v) /\ v.surf[s].session = c
  <2>1. /\ LosesNothing(u, Described(u, c, s))
        /\ Owned(Described(u, c, s))
        /\ Described(u, c, s).surf[s].session = u.surf[s].session
    BY <1>1, DescribedLoses
  <2>2. LosesNothing(u, v) /\ Owned(v) /\ v.surf[s].session = c
    BY <1>2, <2>1
  <2> QED
    BY <2>2, LosesNothingTwice
<1>4. CASE Becomes(v)
  BY <1>3, <1>4, LosesStep
<1>5. ASSUME CanBindDestination(v, c, s), NEW m \in BOOLEAN
      PROVE  /\ LosesNothing(Here, BindDestination(v, c, s, m))
             /\ Owned(BindDestination(v, c, s, m))
  <2>1. LosesNothing(v, BindDestination(v, c, s, m))
    BY <1>1, <1>3, <1>5, BindDestinationLoses
  <2>2. Owned(BindDestination(v, c, s, m))
    BY <1>1, <1>3, <1>5, BindDestinationOwned
  <2> QED
    BY <1>3, <2>1, <2>2, LosesNothingTwice
<1>6. PICK w : w = BindDestination(v, c, s, TRUE)
  OBVIOUS
<1>7. ASSUME CanBindDestination(v, c, s),
             NEW req \in {"none", "idle", "queued"}, NEW started \in BOOLEAN,
             Becomes(Submitted(w, c, s, req, started))
      PROVE  IndicesKept
  <2>1. LosesNothing(Here, w) /\ Owned(w)
    BY <1>5, <1>6, <1>7
  <2>2. LosesNothing(w, Submitted(w, c, s, req, started))
    BY <1>1, <2>1, SubmittedLoses
  <2> QED
    BY <1>7, <2>1, <2>2, LosesNothingTwice, LosesStep
<1>8. \/ Becomes(v)
      \/ /\ CanBindDestination(v, c, s)
         /\ \/ Becomes(BindDestination(v, c, s, FALSE))
            \/ Becomes(w)
            \/ \E started \in {sess[c].streaming, TRUE} :
                 Becomes(Submitted(w, c, s, "idle", started))
            \/ Becomes(Submitted(w, c, s, "none", TRUE))
            \/ Becomes(Submitted(w, c, s, "queued", TRUE))
  BY <1>2, <1>6 DEF EndPictureIn
<1>9. CASE CanBindDestination(v, c, s) /\ Becomes(BindDestination(v, c, s, FALSE))
  BY <1>5, <1>9, LosesStep
<1>10. CASE CanBindDestination(v, c, s) /\ Becomes(w)
  BY <1>5, <1>6, <1>10, LosesStep
<1> QED
  BY <1>1, <1>4, <1>7, <1>8, <1>9, <1>10

LEMMA EndPictureLoses ==
  ASSUME IInv, NEW c \in Contexts, EndPicture(c)
  PROVE  IndicesKept
<1> USE Basics
<1>1. PICK s : s = target[c]
  OBVIOUS
<1>2. /\ c \in live \ waiting /\ c \in live /\ s # NoSurface
      /\ sess[c].format # "none"
  BY <1>1 DEF EndPicture
<1>3. s \in Surfaces /\ surf[s].session = c
  BY <1>1, <1>2, OpenPicture
<1>4. sess[c].format \in Layouts \cup {"none"}
  BY DEF Session
<1>5. CASE EndPictureIn(Here, c, s)
  <2>1. Owned(Here) /\ LosesNothing(Here, Here)
    BY LosesSame DEF IInv
  <2> QED
    BY <1>2, <1>3, <1>4, <1>5, <2>1, EndPictureInLoses
<1>6. ASSUME NEW left, Becomes(Switched(c, left, NoPool))
      PROVE  IndicesKept
  BY <1>2, <1>6, SwitchedLoses, NoPoolFacts, LosesStep
<1>7. ASSUME stream[c][1] \in LateBound, MaySwitch(c),
             NEW format \in Layouts, NEW ncap \in PoolSizes,
             EndPictureIn(Switched(c, format, NewPool(ncap)), c, s)
      PROVE  IndicesKept
  <2>1. PICK p : p = NewPool(ncap)
    OBVIOUS
  <2>2. PoolOK(p) /\ format # "none"
    BY <2>1, NewSessions
  <2>3. Held(p) = {}
    <3>1. ncap \in 0 .. MaxBuffers
      BY SessionAssumption, MaxBuffersAssumption
    <3> QED
      BY <2>1, <3>1, NewPoolFacts
  <2>4. PICK u : u = Switched(c, format, p)
    OBVIOUS
  <2>5. Prepared(u, c, s) /\ u.surf = surf /\ u.sess[c].format = format
    BY <1>1, <1>2, <1>7, <2>2, <2>4, SwitchedPrepared
  <2>6. Owned(u)
    BY <2>5 DEF Prepared
  <2>7. EndPictureIn(u, c, s)
    BY <1>7, <2>1, <2>4
  <2>8. LosesNothing(Here, u)
    BY <1>2, <2>3, <2>4, SwitchedLoses
  <2> QED
    BY <1>2, <1>3, <2>5, <2>6, <2>7, <2>8, EndPictureInLoses
<1>8. \/ EndPictureIn(Here, c, s)
      \/ \E left : Becomes(Switched(c, left, NoPool))
      \/ /\ stream[c][1] \in LateBound /\ MaySwitch(c)
         /\ \E format \in Layouts, ncap \in PoolSizes :
              EndPictureIn(Switched(c, format, NewPool(ncap)), c, s)
  <2>1. \/ EndPictureIn(Here, c, s)
        \/ /\ stream[c][1] \in LateBound /\ MaySwitch(c)
           /\ \E format \in Layouts \ {sess[c].format} :
                \/ /\ \E left \in {sess[c].format, "none", format} :
                        Becomes(Switched(c, left, NoPool))
                   /\ UNCHANGED waiting
                \/ \E ncap \in PoolSizes :
                     EndPictureIn(Switched(c, format, NewPool(ncap)), c, s)
    BY <1>1, Zenon DEF EndPicture
  <2> QED
    BY <2>1
<1> QED
  BY <1>5, <1>6, <1>7, <1>8

LEMMA PictureDoneLoses ==
  ASSUME IInv, NEW c \in Contexts, PictureDone(c)
  PROVE  IndicesKept
<1> USE Basics
<1>1. PICK s : s = target[c]
  OBVIOUS
<1>2. PICK h : h = [Here EXCEPT !.surf[s].status = "Displaying", !.surf[s].req = "idle"]
  OBVIOUS
<1>3. c \in waiting /\ Becomes(ReleaseSource(h, c, s))
  BY <1>1, <1>2 DEF PictureDone
<1>4. s \in Surfaces /\ c \in Sessions /\ surf[s].session = c /\ surf[s].src # Unassigned
  BY <1>1, <1>3, OpenPicture DEF IInv, WaitIsForPicture
<1>5. /\ h.sess = sess
      /\ h.surf = [surf EXCEPT ![s].status = "Displaying", ![s].req = "idle"]
  BY <1>2 DEF Here
<1>6. \A r \in Surfaces : /\ h.surf[r].src = surf[r].src
                          /\ h.surf[r].dst = surf[r].dst
                          /\ h.surf[r].session = surf[r].session
  BY <1>4, <1>5 DEF Surface
<1>7. h.surf \in [Surfaces -> Surface]
  <2>1. surf[s] \in Surface
    BY <1>4
  <2>2. [surf[s] EXCEPT !.status = "Displaying", !.req = "idle"] \in Surface
    BY <2>1 DEF Surface
  <2> QED
    BY <1>4, <1>5, <2>2
<1>8. PICK v : v = ReleaseSource(h, c, s)
  OBVIOUS
<1>9. PICK p : p = sess[c].out
  OBVIOUS
<1>10. PICK q : q = GiveBack(p, surf[s].src)
  OBVIOUS
<1>11. v = [sess |-> [sess EXCEPT ![c].out = q],
            surf |-> [h.surf EXCEPT ![s].src = Unassigned]]
  BY <1>4, <1>5, <1>6, <1>8, <1>9, <1>10 DEF ReleaseSource
<1>12. /\ \A y \in Sessions : /\ v.sess[y].cap = sess[y].cap
                              /\ y # c => v.sess[y].out = sess[y].out
       /\ v.sess[c].out = q
  BY <1>4, <1>11 DEF Session
<1>13. /\ \A r \in Surfaces : /\ v.surf[r].dst = h.surf[r].dst
                              /\ v.surf[r].session = h.surf[r].session
       /\ \A r \in Surfaces \ {s} : v.surf[r] = h.surf[r]
  BY <1>4, <1>7, <1>11 DEF Surface
<1>14. /\ \A r \in Surfaces : /\ v.surf[r].dst = surf[r].dst
                              /\ v.surf[r].session = surf[r].session
       /\ \A r \in Surfaces \ {s} : v.surf[r].src = surf[r].src
  BY <1>6, <1>13
<1>15. Held(q) = Held(p) \ {surf[s].src}
  <2>1. PoolOK(p) /\ surf[s].src \in Held(p)
    BY <1>4, <1>9 DEF IInv, Owned
  <2> QED
    BY <1>10, <2>1, GiveBackFacts
<1>16. LosesNothing(Here, v)
  <2>1. \A y \in Sessions : LostShown(v, y) \subseteq LostShown(Here, y)
    BY <1>12, <1>14 DEF LostShown
  <2>2. \A y \in Sessions \ {c} : LostCoded(v, y) \subseteq LostCoded(Here, y)
    <3>1. \A y \in Sessions \ {c} : \A r \in Surfaces :
            surf[r].session = y => v.surf[r].src = surf[r].src
      BY <1>4, <1>14
    <3> QED
      BY <1>12, <1>14, <3>1 DEF LostCoded
  <2>3. LostCoded(v, c) \subseteq LostCoded(Here, c)
    BY <1>9, <1>12, <1>14, <1>15 DEF LostCoded
  <2> QED
    BY <2>1, <2>2, <2>3 DEF LosesNothing, LosesNoMore
<1> QED
  BY <1>3, <1>8, <1>16, LosesStep

\* A refused sync, whoever asks for it.
LEMMA RefusedLoses ==
  ASSUME IInv, NEW s \in Surfaces, Becomes(SyncRefused(Here, s))
  PROVE  IndicesKept
BY SyncRefusedLoses, LosesStep DEF IInv

LEMMA PictureFailedLoses ==
  ASSUME IInv, NEW c \in Contexts, PictureFailed(c)
  PROVE  IndicesKept
<1>1. c \in waiting /\ Becomes(SyncRefused(Here, target[c]))
  BY DEF PictureFailed
<1>2. target[c] \in Surfaces
  BY <1>1, OpenPicture DEF IInv, WaitIsForPicture
<1> QED
  BY <1>1, <1>2, RefusedLoses

LEMMA DeriveImageLoses ==
  ASSUME IInv, NEW s \in Surfaces, DeriveImage(s)
  PROVE  IndicesKept
<1> USE Basics
<1>1. PICK v : v = [Here EXCEPT !.surf[s].status = "Ready"]
  OBVIOUS
<1>2. Becomes(SyncRefused(Here, s)) \/ Becomes(v)
  BY <1>1 DEF DeriveImage
<1>3. CASE Becomes(v)
  <2>1. v.sess = Here.sess /\ v.surf = [surf EXCEPT ![s].status = "Ready"]
    BY <1>1 DEF Here
  <2>2. \A r \in Surfaces : /\ v.surf[r].src = Here.surf[r].src
                            /\ v.surf[r].dst = Here.surf[r].dst
                            /\ v.surf[r].session = Here.surf[r].session
    BY <2>1 DEF Surface
  <2>3. LosesNothing(Here, v)
    BY <2>1, <2>2, LosesSame, ZenonT(60)
  <2> QED
    BY <1>3, <2>3, LosesStep
<1> QED
  BY <1>2, <1>3, RefusedLoses

LEMMA ExportSurfaceLoses ==
  ASSUME IInv, NEW s \in Surfaces, ExportSurface(s)
  PROVE  IndicesKept
<1> USE Basics
<1>1. PICK x : x = IF surf[s].session # NoSession THEN surf[s].session
                   ELSE BorrowedSession(surf[s].size, surf[s].format)
  OBVIOUS
<1>2. /\ CanBindDestination(Here, x, s)
      /\ \E m \in BOOLEAN : Becomes(BindDestination(Here, x, s, m))
  BY <1>1 DEF ExportSurface
<1>3. x \in Sessions /\ surf[s].session \in {NoSession, x}
  <2>1. surf[s].session \in live \cup {Probe, NoSession}
    BY DEF IInv, SessionsAlive
  <2> QED
    BY <1>1, <2>1, BorrowedFacts
<1>4. ASSUME NEW m \in BOOLEAN
      PROVE  LosesNothing(Here, BindDestination(Here, x, s, m))
  <2>1. Owned(Here) /\ Here.surf[s].session \in {NoSession, x}
    BY <1>3 DEF IInv
  <2> QED
    BY <1>2, <1>3, <2>1, BindDestinationLoses
<1> QED
  BY <1>2, <1>4, LosesStep

LEMMA DestroySurfaceLoses ==
  ASSUME IInv, NEW s \in Surfaces, DestroySurface(s)
  PROVE  IndicesKept
<1> USE Basics
<1>1. PICK x : x = surf[s].session
  OBVIOUS
<1>2. surf[s].live /\ surf' = [surf EXCEPT ![s] = FreeSlot]
  BY DEF DestroySurface
<1>3. /\ ~surf'[s].live /\ surf'[s].session = NoSession
      /\ \A r \in Surfaces \ {s} : surf'[r] = surf[r]
  BY <1>2 DEF FreeSlot, FreshSurface
<1>4. CASE surf[s].status = "Rendering"
  BY <1>2, <1>3, <1>4 DEF IndicesKept
<1>5. PICK v : v = [sess |-> sess', surf |-> surf'] /\ Becomes(v)
  BY NextIsWorld
<1>6. CASE x = NoSession
  <2>1. sess' = sess
    BY <1>1, <1>6 DEF DestroySurface
  <2>2. /\ v.sess = sess
        /\ \A y \in Sessions : \A r \in Surfaces :
             surf[r].session = y => v.surf[r] = surf[r]
    BY <1>1, <1>3, <1>5, <1>6, <2>1
  <2>3. LosesNothing(Here, v)
    BY <2>2 DEF LosesNothing, LosesNoMore, LostCoded, LostShown
  <2> QED
    BY <1>5, <2>3, LosesStep
<1>7. CASE x # NoSession /\ surf[s].status # "Rendering"
  <2>1. PICK p : p = GiveBack(sess[x].out, surf[s].src)
    OBVIOUS
  <2>2. PICK q : q = GiveBack(sess[x].cap, surf[s].dst)
    OBVIOUS
  <2>3. sess' = [sess EXCEPT ![x].out = p, ![x].cap = q]
    BY <1>1, <1>7, <2>1, <2>2 DEF DestroySurface, ReleaseBoth
  <2>4. x \in Sessions
    BY <1>1, <1>7 DEF IInv, SessionsAlive
  <2>5. /\ \A y \in Sessions \ {x} : v.sess[y] = sess[y]
        /\ v.sess[x].out = p /\ v.sess[x].cap = q
    <3>1. v.sess = [sess EXCEPT ![x].out = p, ![x].cap = q]
      BY <1>5, <2>3
    <3> QED
      BY <2>4, <3>1 DEF Session
  <2>6. /\ Held(p) = Held(sess[x].out) \ {surf[s].src}
        /\ Held(q) = Held(sess[x].cap) \ {surf[s].dst}
    <3>1. /\ PoolOK(sess[x].out) /\ PoolOK(sess[x].cap)
          /\ surf[s].src # Unassigned => surf[s].src \in Held(sess[x].out)
          /\ surf[s].dst # Unassigned => surf[s].dst \in Held(sess[x].cap)
      BY <1>1, <2>4 DEF IInv, Owned
    <3> QED
      BY <2>1, <2>2, <3>1, GiveBackFacts
  <2>7. \A r \in Surfaces \ {s} : v.surf[r] = surf[r]
    BY <1>3, <1>5
  <2>8. \A y \in Sessions \ {x} : LosesNoMore(Here, y, v, y)
    <3>1. \A y \in Sessions \ {x} : \A r \in Surfaces :
            surf[r].session = y => v.surf[r] = surf[r]
      BY <1>1, <2>7
    <3> QED
      BY <2>5, <3>1 DEF LosesNoMore, LostCoded, LostShown
  <2>9. LosesNoMore(Here, x, v, x)
    <3>1. LostCoded(v, x) \subseteq LostCoded(Here, x)
      BY <2>5, <2>6, <2>7 DEF LostCoded
    <3>2. LostShown(v, x) \subseteq LostShown(Here, x)
      BY <2>5, <2>6, <2>7 DEF LostShown
    <3> QED
      BY <3>1, <3>2 DEF LosesNoMore
  <2>10. LosesNothing(Here, v)
    BY <2>8, <2>9 DEF LosesNothing
  <2> QED
    BY <1>5, <2>10, LosesStep
<1> QED
  BY <1>4, <1>6, <1>7

LEMMA NextLoses ==
  ASSUME IInv, [Next]_vars
  PROVE  IndicesKept
<1>1. CASE UNCHANGED vars
  <2>1. Becomes(Here)
    BY <1>1, Basics DEF vars, Becomes
  <2> QED
    BY <2>1, LosesSame, LosesStep
<1>2. ASSUME NEW s \in Surfaces, SyncSurface(s)
      PROVE  IndicesKept
  BY <1>2, RefusedLoses DEF SyncSurface
<1> QED
  BY <1>1, <1>2, CreateSurfaceLoses, CreateContextLoses, DestroyContextLoses,
     BeginPictureLoses, EndPictureLoses, PictureDoneLoses, PictureFailedLoses,
     DeriveImageLoses, ExportSurfaceLoses, DestroySurfaceLoses DEF Next

\* For all constants no step loses an index but the destruction of a surface
\* whose decode never completed: each failing path puts back what it took, and
\* an adopted session brings along no more than it had lost.
THEOREM OnlyBrokenLoses == Spec => OnlyBrokenPicturesLoseIndices
<1>1. IInv /\ [Next]_vars => IndicesKept
  BY NextLoses
<1>2. Spec => [][IndicesKept]_vars
  BY <1>1, SpecInv, PTL DEF Spec
<1> QED
  BY <1>2 DEF OnlyBrokenPicturesLoseIndices, IndicesKept
=============================================================================
