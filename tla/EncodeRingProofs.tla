--------------------------- MODULE EncodeRingProofs ---------------------------
(***************************************************************************)
(* Proofs about the encoder's rings.  Everything rests on how far a buffer  *)
(* the device has may lag behind the next one to be queued: no further than *)
(* the number of calls that have failed.                                    *)
(***************************************************************************)
EXTENDS EncodeRing, TLAPS, SequenceTheorems, FiniteSetTheorems

-----------------------------------------------------------------------------
(* The device's two queues of a ring, read as one line of buffers.          *)

Line(done, queued) == done \o queued

RawLine   == Line(kern.rawDone, kern.raw)
CodedLine == Line(kern.codedDone, kern.coded)

Distinct(line) == \A j, k \in 1 .. Len(line) : j # k => line[j] # line[k]

LEMMA LineFacts ==
  ASSUME NEW S, NEW s \in Seq(S), NEW t \in Seq(S)
  PROVE  /\ Line(s, t) \in Seq(S)
         /\ Len(Line(s, t)) = Len(s) + Len(t)
         /\ Len(s) \in Nat /\ Len(t) \in Nat
         /\ \A k \in 1 .. Len(s) + Len(t) :
              Line(s, t)[k] = IF k <= Len(s) THEN s[k] ELSE t[k - Len(s)]
  BY ConcatProperties, LenProperties DEF Line

\* What the device has is what stands in the line.
LEMMA LineElements ==
  ASSUME NEW S, NEW s \in Seq(S), NEW t \in Seq(S)
  PROVE  Elements(t) \cup Elements(s) = Elements(Line(s, t))
<1>f. /\ Line(s, t) \in Seq(S)
      /\ Len(Line(s, t)) = Len(s) + Len(t)
      /\ Len(s) \in Nat /\ Len(t) \in Nat
      /\ \A k \in 1 .. Len(s) + Len(t) :
           Line(s, t)[k] = IF k <= Len(s) THEN s[k] ELSE t[k - Len(s)]
  BY LineFacts
<1>1. ASSUME NEW k \in 1 .. Len(s) PROVE s[k] \in Elements(Line(s, t))
  <2>1. k \in 1 .. Len(Line(s, t)) /\ Line(s, t)[k] = s[k]
    BY <1>f
  <2> QED BY <2>1 DEF Elements
<1>2. ASSUME NEW k \in 1 .. Len(t) PROVE t[k] \in Elements(Line(s, t))
  <2>1. PICK m : /\ m \in 1 .. Len(s) + Len(t)
                 /\ ~(m <= Len(s)) /\ m - Len(s) = k
    <3>1. /\ k + Len(s) \in 1 .. Len(s) + Len(t)
          /\ ~(k + Len(s) <= Len(s)) /\ k + Len(s) - Len(s) = k
      BY <1>f
    <3> QED BY <3>1
  <2>2. Line(s, t)[m] = t[k] /\ m \in 1 .. Len(Line(s, t))
    BY <1>f, <2>1
  <2> QED BY <2>2 DEF Elements
<1>3. ASSUME NEW k \in 1 .. Len(Line(s, t))
      PROVE  Line(s, t)[k] \in Elements(t) \cup Elements(s)
  <2>1. CASE k <= Len(s)
    BY <2>1, <1>f DEF Elements
  <2>2. CASE ~(k <= Len(s))
    <3>1. k - Len(s) \in 1 .. Len(t) /\ Line(s, t)[k] = t[k - Len(s)]
      BY <2>2, <1>f
    <3> QED BY <3>1 DEF Elements
  <2> QED BY <2>1, <2>2, <1>f
<1> QED BY <1>1, <1>2, <1>3 DEF Elements

\* A buffer leaves the line at its head, joins it at its end, and moves from
\* one queue to the other without changing its place.
LEMMA LineTail ==
  ASSUME NEW S, NEW s \in Seq(S), NEW t \in Seq(S), s # << >>
  PROVE  Line(s, t) # << >> /\ Line(Tail(s), t) = Tail(Line(s, t))
<1>f. /\ Line(s, t) \in Seq(S)
      /\ Len(Line(s, t)) = Len(s) + Len(t)
      /\ Len(s) \in Nat /\ Len(t) \in Nat
      /\ \A k \in 1 .. Len(s) + Len(t) :
           Line(s, t)[k] = IF k <= Len(s) THEN s[k] ELSE t[k - Len(s)]
  BY LineFacts
<1>1. Len(s) \in Nat \ {0}
  BY EmptySeq
<1>2. Line(s, t) # << >>
  BY <1>1, <1>f, EmptySeq
<1>3. /\ Tail(s) \in Seq(S) /\ Len(Tail(s)) = Len(s) - 1
      /\ \A k \in 1 .. Len(Tail(s)) : Tail(s)[k] = s[k+1]
  BY HeadTailProperties
<1>4. /\ Line(s, t) \in Seq(S) /\ Tail(Line(s, t)) \in Seq(S)
      /\ Len(Tail(Line(s, t))) = Len(s) + Len(t) - 1
      /\ \A k \in 1 .. Len(Tail(Line(s, t))) :
           Tail(Line(s, t))[k] = Line(s, t)[k+1]
  BY <1>2, HeadTailProperties, <1>f
<1>5. /\ Line(Tail(s), t) \in Seq(S)
      /\ Len(Line(Tail(s), t)) = Len(Tail(s)) + Len(t)
      /\ \A k \in 1 .. Len(Tail(s)) + Len(t) : Line(Tail(s), t)[k] =
           IF k <= Len(Tail(s)) THEN Tail(s)[k] ELSE t[k - Len(Tail(s))]
  BY <1>3, LineFacts
<1>6. ASSUME NEW k \in 1 .. Len(s) + Len(t) - 1
      PROVE  Line(Tail(s), t)[k] = Tail(Line(s, t))[k]
  <2>1. /\ k \in 1 .. Len(Tail(s)) + Len(t)
        /\ k + 1 \in 1 .. Len(s) + Len(t)
        /\ k <= Len(Tail(s)) <=> k + 1 <= Len(s)
        /\ k - Len(Tail(s)) = (k + 1) - Len(s)
    BY <1>1, <1>3, <1>f
  <2>2. Tail(Line(s, t))[k] = Line(s, t)[k+1]
    BY <1>4
  <2>3. Line(s, t)[k+1] = IF k <= Len(Tail(s)) THEN s[k+1] ELSE t[k - Len(Tail(s))]
    BY <1>f, <2>1
  <2>4. Line(Tail(s), t)[k] =
          IF k <= Len(Tail(s)) THEN s[k+1] ELSE t[k - Len(Tail(s))]
    <3>1. CASE k <= Len(Tail(s))
      BY <3>1, <1>1, <1>3, <1>5, <2>1
    <3>2. CASE ~(k <= Len(Tail(s)))
      BY <3>2, <1>5, <2>1
    <3> QED BY <3>1, <3>2
  <2> QED BY <2>2, <2>3, <2>4
<1> QED BY <1>1, <1>2, <1>3, <1>4, <1>5, <1>6, <1>f, SeqEqual

LEMMA AppendFacts ==
  ASSUME NEW S, NEW s \in Seq(S), NEW x \in S
  PROVE  /\ Append(s, x) \in Seq(S)
         /\ Len(s) \in Nat /\ Len(Append(s, x)) = Len(s) + 1
         /\ \A k \in 1 .. Len(s) : Append(s, x)[k] = s[k]
         /\ Append(s, x)[Len(s) + 1] = x
BY AppendProperties, LenProperties

LEMMA LineAppend ==
  ASSUME NEW S, NEW s \in Seq(S), NEW t \in Seq(S), NEW x \in S
  PROVE  Line(s, Append(t, x)) = Append(Line(s, t), x)
<1> DEFINE l == Line(s, t)
           u == Append(t, x)
           r == Line(s, u)
           m == Append(l, x)
<1>1. /\ l \in Seq(S) /\ Len(l) = Len(s) + Len(t)
      /\ Len(s) \in Nat /\ Len(t) \in Nat
      /\ \A k \in 1 .. Len(s) + Len(t) : l[k] = IF k <= Len(s) THEN s[k] ELSE t[k - Len(s)]
  BY LineFacts
<1>2. /\ u \in Seq(S) /\ Len(u) = Len(t) + 1
      /\ \A k \in 1 .. Len(t) : u[k] = t[k]
      /\ u[Len(t) + 1] = x
  BY AppendFacts
<1> HIDE DEF l, u
<1>3. /\ m \in Seq(S) /\ Len(m) = Len(l) + 1
      /\ \A k \in 1 .. Len(l) : m[k] = l[k]
      /\ m[Len(l) + 1] = x
  <2>1. l \in Seq(S)
    BY <1>1
  <2> QED BY <2>1, AppendFacts
<1>4. /\ r \in Seq(S) /\ Len(r) = Len(s) + Len(u)
      /\ \A k \in 1 .. Len(s) + Len(u) : r[k] = IF k <= Len(s) THEN s[k] ELSE u[k - Len(s)]
  <2>1. u \in Seq(S)
    BY <1>2
  <2> QED BY <2>1, LineFacts
<1> HIDE DEF m, r
<1>5. Len(r) = Len(m)
  BY <1>1, <1>2, <1>3, <1>4
<1>6. ASSUME NEW k \in 1 .. Len(r)
      PROVE  r[k] = m[k]
  <2>1. k \in 1 .. Len(s) + Len(t) \/ k = Len(s) + Len(t) + 1
    BY <1>1, <1>2, <1>4
  <2>2. CASE k \in 1 .. Len(s) + Len(t) /\ k <= Len(s)
    BY <2>2, <1>1, <1>3, <1>4
  <2>3. CASE k \in 1 .. Len(s) + Len(t) /\ ~(k <= Len(s))
    <3>1. k - Len(s) \in 1 .. Len(t)
      BY <2>3, <1>1
    <3>2. r[k] = u[k - Len(s)] /\ m[k] = t[k - Len(s)]
      BY <2>3, <1>1, <1>3, <1>4
    <3> QED BY <3>1, <3>2, <1>2
  <2>4. CASE k = Len(s) + Len(t) + 1
    <3>1. ~(k <= Len(s)) /\ k - Len(s) = Len(t) + 1
      BY <2>4, <1>1
    <3>2. r[k] = x
      BY <3>1, <1>2, <1>4
    <3> QED BY <2>4, <3>2, <1>1, <1>3
  <2> QED BY <2>1, <2>2, <2>3, <2>4
<1>7. r = m
  BY <1>3, <1>4, <1>5, <1>6, SeqEqual
<1> QED BY <1>7 DEF l, u, m, r

LEMMA LineMove ==
  ASSUME NEW S, NEW s \in Seq(S), NEW t \in Seq(S), t # << >>
  PROVE  Line(Append(s, Head(t)), Tail(t)) = Line(s, t)
<1>f. /\ Line(s, t) \in Seq(S)
      /\ Len(Line(s, t)) = Len(s) + Len(t)
      /\ Len(s) \in Nat /\ Len(t) \in Nat
      /\ \A k \in 1 .. Len(s) + Len(t) :
           Line(s, t)[k] = IF k <= Len(s) THEN s[k] ELSE t[k - Len(s)]
  BY LineFacts
<1>1. /\ Head(t) \in S /\ Head(t) = t[1] /\ Len(t) \in Nat \ {0}
      /\ Tail(t) \in Seq(S) /\ Len(Tail(t)) = Len(t) - 1
      /\ \A k \in 1 .. Len(Tail(t)) : Tail(t)[k] = t[k+1]
  BY HeadTailProperties, EmptySeq
<1>2. /\ Append(s, Head(t)) \in Seq(S) /\ Len(Append(s, Head(t))) = Len(s) + 1
      /\ \A k \in 1 .. Len(s) + 1 :
           Append(s, Head(t))[k] = IF k <= Len(s) THEN s[k] ELSE t[1]
  BY <1>1, AppendProperties, LenProperties
<1>3. /\ Line(Append(s, Head(t)), Tail(t)) \in Seq(S)
      /\ Len(Line(Append(s, Head(t)), Tail(t))) = Len(Append(s, Head(t))) + Len(Tail(t))
      /\ \A k \in 1 .. Len(Append(s, Head(t))) + Len(Tail(t)) :
           Line(Append(s, Head(t)), Tail(t))[k] =
             IF k <= Len(Append(s, Head(t))) THEN Append(s, Head(t))[k]
             ELSE Tail(t)[k - Len(Append(s, Head(t)))]
  BY <1>1, <1>2, LineFacts
<1>4. ASSUME NEW k \in 1 .. Len(s) + Len(t)
      PROVE  Line(Append(s, Head(t)), Tail(t))[k] = Line(s, t)[k]
  <2>0. k \in 1 .. Len(Append(s, Head(t))) + Len(Tail(t))
    BY <1>1, <1>2, <1>f
  <2>1. CASE k <= Len(s) + 1
    <3>1. Line(Append(s, Head(t)), Tail(t))[k] = IF k <= Len(s) THEN s[k] ELSE t[1]
      BY <2>0, <2>1, <1>2, <1>3, <1>f
    <3>2. ~(k <= Len(s)) => k - Len(s) = 1
      BY <2>1, <1>f
    <3> QED BY <3>1, <3>2, <1>f
  <2>2. CASE ~(k <= Len(s) + 1)
    <3>1. Line(Append(s, Head(t)), Tail(t))[k] = Tail(t)[k - Len(Append(s, Head(t)))]
      BY <2>0, <2>2, <1>2, <1>3
    <3>2. /\ k - Len(Append(s, Head(t))) \in 1 .. Len(Tail(t))
          /\ k - Len(Append(s, Head(t))) + 1 = k - Len(s)
          /\ ~(k <= Len(s))
      BY <2>2, <1>1, <1>2, <1>f
    <3>3. Tail(t)[k - Len(Append(s, Head(t)))] = t[k - Len(s)]
      BY <3>2, <1>1
    <3> QED BY <3>1, <3>2, <3>3, <1>f
  <2> QED BY <2>1, <2>2
<1> QED BY <1>1, <1>2, <1>3, <1>4, <1>f, SeqEqual

Picture == Garbage .. MaxPictures

\* What is in the buffers of a queue.
Contents(q, f) == [k \in 1 .. Len(q) |-> f[q[k]]]

LEMMA ContentsFacts ==
  ASSUME NEW S, NEW q \in Seq(S), NEW f \in [S -> Picture]
  PROVE  /\ Contents(q, f) \in Seq(Picture)
         /\ Len(Contents(q, f)) = Len(q)
         /\ \A k \in 1 .. Len(q) : Contents(q, f)[k] = f[q[k]]
BY LenProperties DEF Contents

LEMMA ContentsTail ==
  ASSUME NEW S, NEW q \in Seq(S), NEW f \in [S -> Picture], q # << >>
  PROVE  /\ Contents(q, f) # << >>
         /\ Contents(Tail(q), f) = Tail(Contents(q, f))
         /\ Head(Contents(q, f)) = f[Head(q)]
<1>1. /\ Contents(q, f) \in Seq(Picture) /\ Len(Contents(q, f)) = Len(q)
      /\ \A k \in 1 .. Len(q) : Contents(q, f)[k] = f[q[k]]
  BY ContentsFacts
<1>2. /\ Len(q) \in Nat \ {0} /\ Tail(q) \in Seq(S) /\ Len(Tail(q)) = Len(q) - 1
      /\ Head(q) = q[1] /\ \A k \in 1 .. Len(Tail(q)) : Tail(q)[k] = q[k+1]
  BY HeadTailProperties, EmptySeq
<1>3. Contents(q, f) # << >>
  BY <1>1, <1>2, EmptySeq
<1>4. /\ Tail(Contents(q, f)) \in Seq(Picture)
      /\ Len(Tail(Contents(q, f))) = Len(q) - 1
      /\ \A k \in 1 .. Len(Tail(Contents(q, f))) :
           Tail(Contents(q, f))[k] = Contents(q, f)[k+1]
  BY <1>1, <1>3, HeadTailProperties, SMTT(40)
<1>5. /\ Contents(Tail(q), f) \in Seq(Picture)
      /\ Len(Contents(Tail(q), f)) = Len(Tail(q))
      /\ \A k \in 1 .. Len(Tail(q)) : Contents(Tail(q), f)[k] = f[Tail(q)[k]]
  BY <1>2, ContentsFacts, ZenonT(60)
<1>6. ASSUME NEW k \in 1 .. Len(Tail(q))
      PROVE  Contents(Tail(q), f)[k] = Tail(Contents(q, f))[k]
  <2>1. k + 1 \in 1 .. Len(q)
    BY <1>2
  <2> QED BY <2>1, <1>1, <1>2, <1>4, <1>5
<1>7. Contents(Tail(q), f) = Tail(Contents(q, f))
  BY <1>2, <1>4, <1>5, <1>6, SeqEqual
<1>8. Head(Contents(q, f)) = f[Head(q)]
  BY <1>1, <1>2, <1>3
<1> QED BY <1>3, <1>7, <1>8

\* A buffer that is filled and joins a queue, in which it was not.
LEMMA ContentsAppend ==
  ASSUME NEW S, NEW q \in Seq(S), NEW f \in [S -> Picture], NEW g \in [S -> Picture],
         NEW i \in S, i \notin Elements(q), \A j \in S : j # i => g[j] = f[j]
  PROVE  Contents(Append(q, i), g) = Append(Contents(q, f), g[i])
<1>1. /\ Contents(q, f) \in Seq(Picture) /\ Len(Contents(q, f)) = Len(q)
      /\ \A k \in 1 .. Len(q) : Contents(q, f)[k] = f[q[k]]
  BY ContentsFacts
<1>2. /\ Append(q, i) \in Seq(S) /\ Len(Append(q, i)) = Len(q) + 1
      /\ \A k \in 1 .. Len(q) : Append(q, i)[k] = q[k]
      /\ Append(q, i)[Len(q) + 1] = i /\ Len(q) \in Nat
  BY AppendProperties, LenProperties
<1>3. /\ Append(Contents(q, f), g[i]) \in Seq(Picture)
      /\ Len(Append(Contents(q, f), g[i])) = Len(q) + 1
      /\ \A k \in 1 .. Len(q) : Append(Contents(q, f), g[i])[k] = Contents(q, f)[k]
      /\ Append(Contents(q, f), g[i])[Len(q) + 1] = g[i]
  BY <1>1, AppendProperties
<1>5. /\ Contents(Append(q, i), g) \in Seq(Picture)
      /\ Len(Contents(Append(q, i), g)) = Len(Append(q, i))
      /\ \A k \in 1 .. Len(Append(q, i)) : Contents(Append(q, i), g)[k] = g[Append(q, i)[k]]
  <2>1. Append(q, i) \in Seq(S)
    BY <1>2
  <2> QED BY <2>1, ContentsFacts, ZenonT(60)
<1>6. \A k \in 1 .. Len(q) : q[k] # i /\ q[k] \in S
  BY ElementOfSeq DEF Elements
<1>7. ASSUME NEW k \in 1 .. Len(q) + 1
      PROVE  Contents(Append(q, i), g)[k] = Append(Contents(q, f), g[i])[k]
  <2>1. CASE k \in 1 .. Len(q)
    BY <2>1, <1>1, <1>2, <1>3, <1>5, <1>6
  <2>2. CASE k = Len(q) + 1
    BY <2>2, <1>2, <1>3, <1>5
  <2>3. k \in 1 .. Len(q) \/ k = Len(q) + 1
    BY LenProperties
  <2> QED BY <2>1, <2>2, <2>3, Zenon
<1> QED BY <1>2, <1>3, <1>5, <1>7, SeqEqual

\* One picture at most was replaced, by v.
Refilled(pending, refilled, v) ==
  /\ Len(refilled) = Len(pending)
  /\ \A k \in 1 .. Len(pending) : refilled[k] = pending[k] \/ refilled[k] = v
  /\ \A j, k \in 1 .. Len(pending) :
       j # k => refilled[j] = pending[j] \/ refilled[k] = pending[k]

\* Filling a buffer changes what is in one place of a queue at most.
LEMMA ContentsRefilled ==
  ASSUME NEW S, NEW T, NEW s \in Seq(S), NEW t \in Seq(T), NEW f \in [S -> Picture],
         NEW g \in [T -> Picture], NEW h \in [T -> Picture],
         NEW i \in T, \A j \in T : j # i => h[j] = g[j],
         \A j, k \in 1 .. Len(t) : j # k => t[j] # t[k]
  PROVE  /\ Line(Contents(s, f), Contents(t, h)) \in Seq(Picture)
         /\ Refilled(Line(Contents(s, f), Contents(t, g)),
                     Line(Contents(s, f), Contents(t, h)), h[i])
         /\ i \notin Elements(t) => Contents(t, h) = Contents(t, g)
<1> DEFINE a == Contents(s, f)
           b == Contents(t, g)
           c == Contents(t, h)
<1>1. a \in Seq(Picture) /\ Len(a) \in Nat
  BY ContentsFacts, LenProperties
<1>2. /\ b \in Seq(Picture) /\ Len(b) = Len(t) /\ Len(t) \in Nat
      /\ \A k \in 1 .. Len(t) : b[k] = g[t[k]]
  BY ContentsFacts, LenProperties
<1>3. /\ c \in Seq(Picture) /\ Len(c) = Len(t)
      /\ \A k \in 1 .. Len(t) : c[k] = h[t[k]]
  BY ContentsFacts, LenProperties
<1>4. \A k \in 1 .. Len(t) : t[k] \in T
  BY ElementOfSeq
<1> HIDE DEF a, b, c
<1>5. \A k \in 1 .. Len(t) : c[k] = b[k] \/ (t[k] = i /\ c[k] = h[i])
  BY <1>2, <1>3, <1>4
<1>6. /\ Line(a, b) \in Seq(Picture) /\ Len(Line(a, b)) = Len(a) + Len(b)
      /\ \A k \in 1 .. Len(a) + Len(b) :
           Line(a, b)[k] = IF k <= Len(a) THEN a[k] ELSE b[k - Len(a)]
  <2>1. a \in Seq(Picture) /\ b \in Seq(Picture)
    BY <1>1, <1>2
  <2> QED BY <2>1, LineFacts
<1>7. /\ Line(a, c) \in Seq(Picture) /\ Len(Line(a, c)) = Len(a) + Len(c)
      /\ \A k \in 1 .. Len(a) + Len(c) :
           Line(a, c)[k] = IF k <= Len(a) THEN a[k] ELSE c[k - Len(a)]
  <2>1. a \in Seq(Picture) /\ c \in Seq(Picture)
    BY <1>1, <1>3
  <2> QED BY <2>1, LineFacts
<1>8. \A k \in 1 .. Len(Line(a, b)) :
        \/ Line(a, c)[k] = Line(a, b)[k]
        \/ /\ k - Len(a) \in 1 .. Len(t) /\ t[k - Len(a)] = i
           /\ Line(a, c)[k] = h[i]
  <2>1. SUFFICES ASSUME NEW k \in 1 .. Len(a) + Len(t)
                 PROVE  \/ Line(a, c)[k] = Line(a, b)[k]
                        \/ /\ k - Len(a) \in 1 .. Len(t) /\ t[k - Len(a)] = i
                           /\ Line(a, c)[k] = h[i]
    BY <1>2, <1>6
  <2>2. CASE k <= Len(a)
    BY <2>2, <1>2, <1>3, <1>6, <1>7
  <2>3. CASE ~(k <= Len(a))
    <3>1. k - Len(a) \in 1 .. Len(t)
      BY <2>3, <1>1, <1>2
    <3>2. Line(a, b)[k] = b[k - Len(a)] /\ Line(a, c)[k] = c[k - Len(a)]
      BY <2>3, <1>2, <1>3, <1>6, <1>7
    <3> QED BY <3>1, <3>2, <1>5
  <2> QED BY <2>2, <2>3
<1>9. \A j, k \in 1 .. Len(Line(a, b)) :
        j # k => Line(a, c)[j] = Line(a, b)[j] \/ Line(a, c)[k] = Line(a, b)[k]
  <2>1. SUFFICES ASSUME NEW j \in 1 .. Len(Line(a, b)), NEW k \in 1 .. Len(Line(a, b)),
                        j - Len(a) \in 1 .. Len(t), t[j - Len(a)] = i,
                        k - Len(a) \in 1 .. Len(t), t[k - Len(a)] = i, j # k
                 PROVE  FALSE
    BY <1>8
  <2>2. j - Len(a) # k - Len(a)
    BY <2>1, <1>1
  <2> QED BY <2>1, <2>2
<1>10. Refilled(Line(a, b), Line(a, c), h[i])
  BY <1>2, <1>3, <1>6, <1>7, <1>8, <1>9 DEF Refilled
<1>11. ASSUME i \notin Elements(t) PROVE c = b
  <2>1. \A k \in 1 .. Len(t) : c[k] = b[k]
    BY <1>5, <1>11 DEF Elements
  <2> QED BY <2>1, <1>2, <1>3, SeqEqual
<1> QED BY <1>7, <1>10, <1>11 DEF a, b, c

LEMMA ContentsLine ==
  ASSUME NEW S, NEW T, NEW s \in Seq(S), NEW t \in Seq(T),
         NEW f \in [S -> Picture], NEW g \in [T -> Picture]
  PROVE  /\ Line(Contents(s, f), Contents(t, g)) \in Seq(Picture)
         /\ Len(Line(Contents(s, f), Contents(t, g))) = Len(s) + Len(t)
         /\ \A k \in 1 .. Len(s) : /\ k \in 1 .. Len(s) + Len(t)
                                   /\ Line(Contents(s, f), Contents(t, g))[k] = f[s[k]]
<1> DEFINE a == Contents(s, f)
           b == Contents(t, g)
<1>1. /\ a \in Seq(Picture) /\ Len(a) = Len(s) /\ Len(s) \in Nat
      /\ \A k \in 1 .. Len(s) : a[k] = f[s[k]]
  BY ContentsFacts, LenProperties
<1>2. b \in Seq(Picture) /\ Len(b) = Len(t) /\ Len(t) \in Nat
  BY ContentsFacts, LenProperties
<1> HIDE DEF a, b
<1>3. /\ Line(a, b) \in Seq(Picture) /\ Len(Line(a, b)) = Len(a) + Len(b)
      /\ \A k \in 1 .. Len(a) + Len(b) :
           Line(a, b)[k] = IF k <= Len(a) THEN a[k] ELSE b[k - Len(a)]
  <2>1. a \in Seq(Picture) /\ b \in Seq(Picture)
    BY <1>1, <1>2
  <2> QED BY <2>1, LineFacts
<1>4. ASSUME NEW k \in 1 .. Len(s)
      PROVE  k \in 1 .. Len(s) + Len(t) /\ Line(a, b)[k] = f[s[k]]
  BY <1>1, <1>2, <1>3, SMTT(40)
<1> QED BY <1>1, <1>2, <1>3, <1>4 DEF a, b

LEMMA DistinctTail ==
  ASSUME NEW S, NEW line \in Seq(S), line # << >>, Distinct(line)
  PROVE  Distinct(Tail(line))
BY HeadTailProperties, LenProperties DEF Distinct

\* What leads the second of two queues is not in the first.
LEMMA DistinctHead ==
  ASSUME NEW S, NEW s \in Seq(S), NEW t \in Seq(S), t # << >>, Distinct(Line(s, t))
  PROVE  Head(t) \notin Elements(s)
<1>1. SUFFICES ASSUME NEW k \in 1 .. Len(s), s[k] = Head(t)
               PROVE  FALSE
  BY DEF Elements
<1>2. /\ Len(Line(s, t)) = Len(s) + Len(t)
      /\ \A m \in 1 .. Len(s) + Len(t) :
           Line(s, t)[m] = IF m <= Len(s) THEN s[m] ELSE t[m - Len(s)]
  BY LineFacts
<1>3. Len(s) \in Nat /\ Len(t) \in Nat \ {0} /\ Head(t) = t[1]
  BY EmptySeq, LenProperties
<1> DEFINE m == Len(s) + 1
<1>4. /\ m \in 1 .. Len(s) + Len(t) /\ ~(m <= Len(s)) /\ m - Len(s) = 1
      /\ k \in 1 .. Len(s) + Len(t) /\ k # m /\ k <= Len(s)
  BY <1>3
<1> HIDE DEF m
<1>5. Line(s, t)[m] = t[1] /\ Line(s, t)[k] = s[k]
  BY <1>2, <1>4
<1> QED BY <1>1, <1>2, <1>3, <1>4, <1>5 DEF Distinct

LEMMA DistinctSecond ==
  ASSUME NEW S, NEW s \in Seq(S), NEW t \in Seq(S), Distinct(Line(s, t))
  PROVE  \A j, k \in 1 .. Len(t) : j # k => t[j] # t[k]
<1>1. /\ Len(Line(s, t)) = Len(s) + Len(t)
      /\ \A m \in 1 .. Len(s) + Len(t) :
           Line(s, t)[m] = IF m <= Len(s) THEN s[m] ELSE t[m - Len(s)]
  BY LineFacts
<1>2. Len(s) \in Nat /\ Len(t) \in Nat
  BY LenProperties
<1>3. SUFFICES ASSUME NEW j \in 1 .. Len(t), NEW k \in 1 .. Len(t), j # k, t[j] = t[k]
               PROVE  FALSE
  OBVIOUS
<1> DEFINE a == Len(s) + j
           b == Len(s) + k
<1>4. /\ a \in 1 .. Len(s) + Len(t) /\ ~(a <= Len(s)) /\ a - Len(s) = j
      /\ b \in 1 .. Len(s) + Len(t) /\ ~(b <= Len(s)) /\ b - Len(s) = k
      /\ a # b
  BY <1>2, <1>3
<1> HIDE DEF a, b
<1>5. Line(s, t)[a] = t[j] /\ Line(s, t)[b] = t[k]
  BY <1>1, <1>4
<1> QED BY <1>1, <1>3, <1>4, <1>5 DEF Distinct

LEMMA DistinctAppend ==
  ASSUME NEW S, NEW line \in Seq(S), NEW x \in S, Distinct(line), x \notin Elements(line)
  PROVE  Distinct(Append(line, x))
<1>1. /\ Len(line) \in Nat /\ Len(Append(line, x)) = Len(line) + 1
      /\ \A k \in 1 .. Len(line) + 1 :
           Append(line, x)[k] = IF k <= Len(line) THEN line[k] ELSE x
  BY AppendProperties, LenProperties
<1>2. \A k \in 1 .. Len(line) : line[k] # x
  BY DEF Elements
<1> QED BY <1>1, <1>2 DEF Distinct

-----------------------------------------------------------------------------
(* How old what stands in a line may be: the k-th buffer of a line was      *)
(* queued by the p-th call, and the calls since then, the k-1 buffers ahead *)
(* of it excepted, are no more than "slack".                                *)

Aged(line, n, nx, slack) ==
  \A k \in 1 .. Len(line) : \E p \in 1 .. nx :
    line[k] = (p-1) % n /\ nx - p + k <= slack

LEMMA AgedEmpty ==
  ASSUME NEW n, NEW nx, NEW slack
  PROVE  Aged(<< >>, n, nx, slack)
BY EmptySeq DEF Aged

LEMMA AgedMore ==
  ASSUME NEW S, NEW line \in Seq(S), NEW n, NEW nx \in Nat,
         NEW slack \in Int, NEW more \in Int, slack <= more,
         Aged(line, n, nx, slack)
  PROVE  Aged(line, n, nx, more)
BY LenProperties DEF Aged

\* A call that fails makes everything one call older.
LEMMA AgedStep ==
  ASSUME NEW S, NEW line \in Seq(S), NEW n, NEW nx \in Nat, NEW slack \in Int,
         Aged(line, n, nx, slack)
  PROVE  Aged(line, n, nx + 1, slack + 1)
BY LenProperties DEF Aged

LEMMA AgedTail ==
  ASSUME NEW S, NEW line \in Seq(S), line # << >>, NEW n, NEW nx \in Nat,
         NEW slack \in Int, Aged(line, n, nx, slack)
  PROVE  Aged(Tail(line), n, nx, slack - 1)
<1>1. /\ Len(line) \in Nat /\ Len(Tail(line)) = Len(line) - 1
      /\ \A k \in 1 .. Len(Tail(line)) : Tail(line)[k] = line[k+1]
  BY HeadTailProperties, LenProperties
<1>2. ASSUME NEW k \in 1 .. Len(Tail(line))
      PROVE  \E p \in 1 .. nx : Tail(line)[k] = (p-1) % n /\ nx - p + k <= slack - 1
  <2>1. k + 1 \in 1 .. Len(line) /\ Tail(line)[k] = line[k+1]
    BY <1>1
  <2>2. PICK p \in 1 .. nx : line[k+1] = (p-1) % n /\ nx - p + (k+1) <= slack
    BY <2>1 DEF Aged
  <2> QED BY <2>1, <2>2
<1> QED BY <1>2 DEF Aged

\* A line is no longer than its slack, so that the buffer a call queues has
\* room behind it.
LEMMA AgedLength ==
  ASSUME NEW S, NEW line \in Seq(S), NEW n, NEW nx \in Nat, NEW slack \in Nat,
         Aged(line, n, nx, slack)
  PROVE  Len(line) <= slack
<1>1. Len(line) \in Nat
  BY LenProperties
<1>2. CASE Len(line) \in 1 .. Len(line)
  BY <1>1, <1>2 DEF Aged
<1> QED BY <1>1, <1>2

LEMMA AgedAppend ==
  ASSUME NEW S, NEW line \in Seq(S), NEW n, NEW nx \in Nat, NEW slack \in Nat,
         nx % n \in S, Aged(line, n, nx, slack)
  PROVE  Aged(Append(line, nx % n), n, nx + 1, slack + 1)
<1>1. /\ Len(line) \in Nat /\ Len(Append(line, nx % n)) = Len(line) + 1
      /\ \A k \in 1 .. Len(line) : Append(line, nx % n)[k] = line[k]
      /\ Append(line, nx % n)[Len(line) + 1] = nx % n
  BY AppendProperties, LenProperties
<1>2. Len(line) <= slack
  BY AgedLength
<1>3. ASSUME NEW k \in 1 .. Len(line)
      PROVE  \E p \in 1 .. nx + 1 :
               Append(line, nx % n)[k] = (p-1) % n /\ nx + 1 - p + k <= slack + 1
  <2>1. PICK p \in 1 .. nx : line[k] = (p-1) % n /\ nx - p + k <= slack
    BY DEF Aged
  <2> QED BY <2>1, <1>1
<1>4. \E p \in 1 .. nx + 1 :
        /\ Append(line, nx % n)[Len(line) + 1] = (p-1) % n
        /\ nx + 1 - p + (Len(line) + 1) <= slack + 1
  <2> DEFINE p == nx + 1
  <2>1. p - 1 = nx /\ p \in 1 .. nx + 1 /\ nx + 1 - p + (Len(line) + 1) <= slack + 1
    BY <1>1, <1>2
  <2>2. Append(line, nx % n)[Len(line) + 1] = (p-1) % n
    BY <2>1, <1>1
  <2> HIDE DEF p
  <2> QED BY <2>1, <2>2
<1> QED BY <1>1, <1>3, <1>4 DEF Aged

\* Two calls that use the same buffer are a whole ring apart.
LEMMA RingApart ==
  ASSUME NEW n \in Nat \ {0}, NEW a \in Nat, NEW b \in Nat, a < b, a % n = b % n
  PROVE  n <= b - a
<1>1. /\ a = n * (a \div n) + (a % n) /\ b = n * (b \div n) + (b % n)
      /\ a \div n \in Int /\ b \div n \in Int
      /\ a % n \in 0 .. n-1
  OBVIOUS
<1>2. b - a = n * ((b \div n) - (a \div n))
  BY <1>1
<1>3. (b \div n) - (a \div n) >= 1
  BY <1>1, <1>2
<1> QED BY <1>1, <1>2, <1>3

\* While the slack is less than a ring, the next buffer does not stand in the
\* line.
LEMMA AgedNextFree ==
  ASSUME NEW S, NEW line \in Seq(S), NEW n \in Nat \ {0}, NEW nx \in Nat,
         NEW slack \in Nat, slack < n, Aged(line, n, nx, slack)
  PROVE  nx % n \notin Elements(line)
<1>1. SUFFICES ASSUME NEW k \in 1 .. Len(line), line[k] = nx % n
               PROVE  FALSE
  BY DEF Elements
<1>2. PICK p \in 1 .. nx : line[k] = (p-1) % n /\ nx - p + k <= slack
  BY DEF Aged
<1>3. p - 1 \in Nat /\ p - 1 < nx /\ (p-1) % n = nx % n
  BY <1>1, <1>2
<1>4. n <= nx - (p-1)
  BY <1>3, RingApart
<1>5. Len(line) \in Nat
  BY LenProperties
<1> QED BY <1>2, <1>4, <1>5

-----------------------------------------------------------------------------
(* What is pending and what was given.                                      *)

\* Of n pictures, those pending are there once each and were not given, and no
\* picture was given twice.
NewPictures(pending, stream, n) ==
  /\ \A k \in 1 .. Len(pending) : pending[k] \in 1 .. n
  /\ \A p \in 1 .. Len(stream) : stream[p] \in 0 .. n
  /\ \A j, k \in 1 .. Len(pending) : j # k => pending[j] # pending[k]
  /\ \A p \in 1 .. Len(stream), k \in 1 .. Len(pending) : stream[p] # pending[k]
  /\ \A p, q \in 1 .. Len(stream) : p # q /\ stream[p] # 0 => stream[p] # stream[q]

\* They are in the order of the calls, and follow those that were given.
InOrder(pending, stream) ==
  /\ \A j, k \in 1 .. Len(pending) : j < k => pending[j] < pending[k]
  /\ \A p \in 1 .. Len(stream), k \in 1 .. Len(pending) : stream[p] < pending[k]
  /\ \A p, q \in 1 .. Len(stream) :
       p < q /\ stream[p] # 0 /\ stream[q] # 0 => stream[p] < stream[q]

LEMMA PicturesTail ==
  ASSUME NEW S, NEW P \in Seq(S), P # << >>, NEW g, NEW n
  PROVE  /\ NewPictures(P, g, n) => NewPictures(Tail(P), g, n)
         /\ InOrder(P, g) => InOrder(Tail(P), g)
<1> DEFINE T == Tail(P)
<1>1. /\ Len(T) = Len(P) - 1 /\ \A k \in 1 .. Len(T) : T[k] = P[k+1]
  BY HeadTailProperties
<1>2. Len(P) \in Nat
  BY LenProperties
<1> HIDE DEF T
<1>3. \A k \in 1 .. Len(T) : k \in Int /\ k + 1 \in 1 .. Len(P) /\ T[k] = P[k+1]
  BY <1>1, <1>2
<1>4. NewPictures(P, g, n) => NewPictures(T, g, n)
  BY <1>3, SMTT(40) DEF NewPictures
<1>5. InOrder(P, g) => InOrder(T, g)
  BY <1>3 DEF InOrder
<1> QED BY <1>4, <1>5 DEF T

\* A call that returns an error.
LEMMA PicturesError ==
  ASSUME NEW S, NEW P, NEW g \in Seq(S), NEW n \in Nat, 0 \in S, NewPictures(P, g, n)
  PROVE  /\ NewPictures(P, Append(g, 0), n)
         /\ InOrder(P, g) => InOrder(P, Append(g, 0))
<1> DEFINE h == Append(g, 0)
<1>1. /\ Len(g) \in Nat /\ Len(h) = Len(g) + 1
      /\ \A p \in 1 .. Len(g) : h[p] = g[p]
      /\ h[Len(g) + 1] = 0
  BY AppendFacts
<1> HIDE DEF h
<1>2. \A p \in 1 .. Len(h) : p \in Int /\ ((p \in 1 .. Len(g) /\ h[p] = g[p]) \/ h[p] = 0)
  BY <1>1
<1>3. NewPictures(P, h, n)
  <2>1. \A k \in 1 .. Len(P) : P[k] \in 1 .. n /\ P[k] # 0
    BY DEF NewPictures
  <2>2. \A p \in 1 .. Len(h) : h[p] \in 0 .. n
    BY <1>2 DEF NewPictures
  <2>3. \A p \in 1 .. Len(h), k \in 1 .. Len(P) : h[p] # P[k]
    BY <1>2, <2>1 DEF NewPictures
  <2>4. \A p, q \in 1 .. Len(h) : p # q /\ h[p] # 0 => h[p] # h[q]
    BY <1>2 DEF NewPictures
  <2>5. \A j, k \in 1 .. Len(P) : j # k => P[j] # P[k]
    BY DEF NewPictures
  <2> QED BY <2>1, <2>2, <2>3, <2>4, <2>5 DEF NewPictures
<1>4. \A k \in 1 .. Len(P) : P[k] \in Int /\ 0 < P[k]
  BY DEF NewPictures
<1>5. InOrder(P, g) => InOrder(P, h)
  BY <1>2, <1>4 DEF InOrder
<1> QED BY <1>3, <1>5 DEF h

\* A call that returns the first of the pictures that are pending.
LEMMA PicturesGiven ==
  ASSUME NEW S, NEW P \in Seq(S), P # << >>, NEW g \in Seq(S), NEW n \in Nat,
         NewPictures(P, g, n)
  PROVE  /\ NewPictures(Tail(P), Append(g, P[1]), n)
         /\ InOrder(P, g) => InOrder(Tail(P), Append(g, P[1]))
<1> DEFINE T == Tail(P)
           h == Append(g, P[1])
<1>1. Len(P) \in Nat \ {0} /\ 1 \in 1 .. Len(P) /\ P[1] \in S
  BY EmptySeq, ElementOfSeq, LenProperties
<1>2. /\ Len(T) = Len(P) - 1 /\ \A k \in 1 .. Len(T) : T[k] = P[k+1]
  BY HeadTailProperties
<1>3. /\ Len(g) \in Nat /\ Len(h) = Len(g) + 1
      /\ \A p \in 1 .. Len(g) : h[p] = g[p]
      /\ h[Len(g) + 1] = P[1]
  BY <1>1, AppendFacts
<1> HIDE DEF T, h
<1>4. \A k \in 1 .. Len(T) :
        k \in Int /\ k + 1 \in 1 .. Len(P) /\ k + 1 # 1 /\ 1 < k + 1 /\ T[k] = P[k+1]
  BY <1>1, <1>2
<1>5. \A p \in 1 .. Len(h) :
        \/ p \in 1 .. Len(g) /\ h[p] = g[p]
        \/ p = Len(g) + 1 /\ h[p] = P[1]
  BY <1>3
<1>6. NewPictures(T, h, n)
  <2>1. \A k \in 1 .. Len(T) : T[k] \in 1 .. n
    BY <1>4 DEF NewPictures
  <2>2. \A p \in 1 .. Len(h) : h[p] \in 0 .. n
    BY <1>1, <1>5 DEF NewPictures
  <2>3. \A j, k \in 1 .. Len(T) : j # k => T[j] # T[k]
    BY <1>4 DEF NewPictures
  <2>4. \A p \in 1 .. Len(h), k \in 1 .. Len(T) : h[p] # T[k]
    BY <1>1, <1>4, <1>5 DEF NewPictures
  <2>5. \A p, q \in 1 .. Len(h) : p # q /\ h[p] # 0 => h[p] # h[q]
    BY <1>1, <1>5 DEF NewPictures
  <2> QED BY <2>1, <2>2, <2>3, <2>4, <2>5 DEF NewPictures
<1>7. ASSUME InOrder(P, g) PROVE InOrder(T, h)
  <2>1. \A j, k \in 1 .. Len(T) : j < k => T[j] < T[k]
    BY <1>4, <1>7 DEF InOrder
  <2>2. \A p \in 1 .. Len(h), k \in 1 .. Len(T) : h[p] < T[k]
    BY <1>1, <1>4, <1>5, <1>7 DEF InOrder
  <2>3. \A p, q \in 1 .. Len(h) :
          p < q /\ h[p] # 0 /\ h[q] # 0 => h[p] < h[q]
    <3>1. SUFFICES ASSUME NEW p \in 1 .. Len(h), NEW q \in 1 .. Len(h),
                          p < q, h[p] # 0, h[q] # 0
                   PROVE  h[p] < h[q]
      OBVIOUS
    <3>2. p \in 1 .. Len(g) /\ h[p] = g[p]
      BY <1>3, <1>5, <3>1
    <3> QED BY <1>1, <1>5, <1>7, <3>1, <3>2 DEF InOrder
  <2> QED BY <2>1, <2>2, <2>3 DEF InOrder
<1> QED BY <1>6, <1>7 DEF T, h

\* A picture that is submitted.
LEMMA PicturesAppend ==
  ASSUME NEW S, NEW P \in Seq(S), NEW g, NEW n \in Nat, n + 1 \in S,
         NewPictures(P, g, n)
  PROVE  /\ NewPictures(Append(P, n + 1), g, n + 1)
         /\ InOrder(P, g) => InOrder(Append(P, n + 1), g)
<1> DEFINE Q == Append(P, n + 1)
<1>1. /\ Len(P) \in Nat /\ Len(Q) = Len(P) + 1
      /\ \A k \in 1 .. Len(P) : Q[k] = P[k]
      /\ Q[Len(P) + 1] = n + 1
  BY AppendFacts
<1> HIDE DEF Q
<1>2. \A k \in 1 .. Len(Q) :
        \/ k \in 1 .. Len(P) /\ Q[k] = P[k]
        \/ k = Len(P) + 1 /\ Q[k] = n + 1
  BY <1>1
<1>3. /\ \A k \in 1 .. Len(P) : P[k] \in 1 .. n
      /\ \A p \in 1 .. Len(g) : g[p] \in 0 .. n
  BY DEF NewPictures
<1>4. NewPictures(Q, g, n + 1)
  <2>1. \A k \in 1 .. Len(Q) : Q[k] \in 1 .. n + 1
    BY <1>2, <1>3
  <2>2. \A p \in 1 .. Len(g) : g[p] \in 0 .. n + 1
    BY <1>3
  <2>3. \A j, k \in 1 .. Len(Q) : j # k => Q[j] # Q[k]
    BY <1>2, <1>3 DEF NewPictures
  <2>4. \A p \in 1 .. Len(g), k \in 1 .. Len(Q) : g[p] # Q[k]
    BY <1>2, <1>3 DEF NewPictures
  <2> QED BY <2>1, <2>2, <2>3, <2>4 DEF NewPictures
<1>5. ASSUME InOrder(P, g) PROVE InOrder(Q, g)
  <2>1. \A j, k \in 1 .. Len(Q) : j < k => Q[j] < Q[k]
    <3>1. SUFFICES ASSUME NEW j \in 1 .. Len(Q), NEW k \in 1 .. Len(Q), j < k
                   PROVE  Q[j] < Q[k]
      OBVIOUS
    <3>2. j \in 1 .. Len(P) /\ Q[j] = P[j]
      BY <1>1, <1>2, <3>1
    <3> QED BY <1>2, <1>3, <1>5, <3>1, <3>2 DEF InOrder
  <2>2. \A p \in 1 .. Len(g), k \in 1 .. Len(Q) : g[p] < Q[k]
    BY <1>2, <1>3, <1>5 DEF InOrder
  <2> QED BY <1>5, <2>1, <2>2 DEF InOrder
<1> QED BY <1>4, <1>5 DEF Q

\* A picture that is copied over one that is pending.
LEMMA PicturesRefilled ==
  ASSUME NEW P, NEW Q, NEW g, NEW n \in Nat,
         NewPictures(P, g, n), Refilled(P, Q, n + 1)
  PROVE  NewPictures(Q, g, n + 1)
<1>1. /\ \A k \in 1 .. Len(P) : P[k] \in 1 .. n
      /\ \A p \in 1 .. Len(g) : g[p] \in 0 .. n
  BY DEF NewPictures
<1>2. /\ Len(Q) = Len(P)
      /\ \A k \in 1 .. Len(P) : Q[k] = P[k] \/ Q[k] = n + 1
      /\ \A j, k \in 1 .. Len(P) : j # k => Q[j] = P[j] \/ Q[k] = P[k]
  BY DEF Refilled
<1>3. \A k \in 1 .. Len(Q) : Q[k] \in 1 .. n + 1
  BY <1>1, <1>2
<1>4. \A p \in 1 .. Len(g) : g[p] \in 0 .. n + 1
  BY <1>1
<1>5. \A j, k \in 1 .. Len(Q) : j # k => Q[j] # Q[k]
  BY <1>1, <1>2, SMTT(40) DEF NewPictures
<1>6. \A p \in 1 .. Len(g), k \in 1 .. Len(Q) : g[p] # Q[k]
  BY <1>1, <1>2 DEF NewPictures
<1> QED BY <1>3, <1>4, <1>5, <1>6 DEF NewPictures

-----------------------------------------------------------------------------
(* How many calls have failed.                                              *)

LEMMA FailuresType ==
  ASSUME NEW S, given \in Seq(S)
  PROVE  /\ Failures \in Nat
         /\ Failures = 0 <=> \A p \in 1 .. Len(given) : given[p] # 0
<1> DEFINE F == {p \in 1 .. Len(given) : given[p] = 0}
<1>1. Len(given) \in Nat
  BY LenProperties
<1>2. IsFiniteSet(F)
  <2>1. IsFiniteSet(1 .. Len(given)) /\ F \in SUBSET (1 .. Len(given))
    BY <1>1, FS_Interval
  <2> QED BY <2>1, FS_Subset
<1>3. Cardinality(F) \in Nat /\ (Cardinality(F) = 0 <=> F = {})
  BY <1>2, FS_CardinalityType, FS_EmptySet
<1> QED BY <1>3 DEF Failures

LEMMA FailuresAppend ==
  ASSUME NEW S, given \in Seq(S), NEW p \in S, given' = Append(given, p)
  PROVE  Failures' = IF p = 0 THEN Failures + 1 ELSE Failures
<1> DEFINE F == {q \in 1 .. Len(given) : given[q] = 0}
           G == {q \in 1 .. Len(given') : given'[q] = 0}
<1>1. /\ Len(given) \in Nat /\ Len(given') = Len(given) + 1
      /\ \A q \in 1 .. Len(given) : given'[q] = given[q]
      /\ given'[Len(given) + 1] = p
  BY AppendProperties, LenProperties
<1>2. IsFiniteSet(F)
  <2>1. IsFiniteSet(1 .. Len(given)) /\ F \in SUBSET (1 .. Len(given))
    BY <1>1, FS_Interval
  <2> QED BY <2>1, FS_Subset
<1>3. CASE p = 0
  <2>1. G = F \cup {Len(given) + 1}
    BY <1>1, <1>3
  <2>2. Len(given) + 1 \notin F
    BY <1>1
  <2>3. Cardinality(G) = Cardinality(F) + 1
    BY <1>2, <2>1, <2>2, FS_AddElement
  <2> QED BY <1>3, <2>3 DEF Failures
<1>4. CASE p # 0
  <2>1. G = F
    BY <1>1, <1>4
  <2> QED BY <1>4, <2>1 DEF Failures
<1> QED BY <1>3, <1>4

-----------------------------------------------------------------------------
(* The inductive invariant.                                                 *)

\* The calls that may have left a buffer with the device: those that failed,
\* and the one in progress.
Slack == Failures + (IF call = 0 THEN 0 ELSE 1)

LinesOK ==
  /\ Aged(RawLine, NumRaw, next, Slack) /\ Distinct(RawLine)
  /\ Aged(CodedLine, NumCoded, next, Slack) /\ Distinct(CodedLine)

\* The pictures that will come back, in the order in which they will: those
\* whose bitstream is done, and those in the raw buffers that are queued.
Pending == Line(Contents(kern.codedDone, coded), Contents(kern.raw, raw))

Fresh == NewPictures(Pending, given, next)

PendingOrdered == Failures <= NumRaw => InOrder(Pending, given)

IInv == TypeOK /\ LinesOK /\ Fresh /\ PendingOrdered /\ OwnUntilFailure

LEMMA KernFacts ==
  ASSUME TypeOK
  PROVE  /\ kern.raw \in Seq(RawIndex) /\ kern.rawDone \in Seq(RawIndex)
         /\ kern.coded \in Seq(CodedIndex) /\ kern.codedDone \in Seq(CodedIndex)
         /\ DOMAIN kern = {"raw", "rawDone", "coded", "codedDone"}
         /\ kern = [raw |-> kern.raw, rawDone |-> kern.rawDone,
                    coded |-> kern.coded, codedDone |-> kern.codedDone]
BY DEF TypeOK

LEMMA NextFacts ==
  ASSUME TypeOK
  PROVE  /\ next \in Nat /\ next + 1 \in Nat
         /\ RawNext \in RawIndex /\ CodedNext \in CodedIndex
         /\ RawNext = next % NumRaw /\ CodedNext = next % NumCoded
BY RingAssumption, SMTT(40) DEF TypeOK, RawNext, CodedNext, RawIndex, CodedIndex

LEMMA SlackFacts ==
  ASSUME TypeOK
  PROVE  /\ Failures \in Nat /\ Slack \in Nat
         /\ call = 0 => Slack = Failures
         /\ call # 0 => Slack = Failures + 1
<1>1. given \in Seq(0 .. MaxPictures)
  BY DEF TypeOK
<1>2. Failures \in Nat
  BY <1>1, FailuresType
<1> QED BY <1>2 DEF Slack

LEMMA LinesType ==
  ASSUME TypeOK
  PROVE  RawLine \in Seq(RawIndex) /\ CodedLine \in Seq(CodedIndex)
BY KernFacts, LineFacts DEF RawLine, CodedLine

LEMMA BusyLine ==
  ASSUME TypeOK
  PROVE  /\ \A i : RawBusy(i) <=> i \in Elements(RawLine)
         /\ \A i : CodedBusy(i) <=> i \in Elements(CodedLine)
<1>1. Elements(kern.raw) \cup Elements(kern.rawDone) = Elements(RawLine)
  BY KernFacts, LineElements DEF RawLine
<1>2. Elements(kern.coded) \cup Elements(kern.codedDone) = Elements(CodedLine)
  BY KernFacts, LineElements DEF CodedLine
<1> QED BY <1>1, <1>2 DEF RawBusy, CodedBusy

LEMMA NextFree ==
  ASSUME TypeOK, LinesOK
  PROVE  NextIsFree
<1>1. SUFFICES ASSUME call = 0
               PROVE  /\ Failures < NumRaw   => ~RawBusy(RawNext)
                      /\ Failures < NumCoded => ~CodedBusy(CodedNext)
  BY DEF NextIsFree
<1>2. Slack = Failures /\ Slack \in Nat
  BY <1>1, SlackFacts
<1>3. ASSUME Failures < NumRaw PROVE ~RawBusy(RawNext)
  <2>1. next % NumRaw \notin Elements(RawLine)
    BY <1>2, <1>3, RingAssumption, LinesType, NextFacts, AgedNextFree DEF LinesOK
  <2> QED BY <2>1, BusyLine, NextFacts
<1>4. ASSUME Failures < NumCoded PROVE ~CodedBusy(CodedNext)
  <2>1. next % NumCoded \notin Elements(CodedLine)
    BY <1>2, <1>4, RingAssumption, LinesType, NextFacts, AgedNextFree DEF LinesOK
  <2> QED BY <2>1, BusyLine, NextFacts
<1> QED BY <1>3, <1>4

-----------------------------------------------------------------------------
(* What each action does to the number of failures and to the two lines.    *)

LEMMA SlackOfFailedCall ==
  ASSUME TypeOK, given' = Append(given, 0)
  PROVE  /\ Failures' = Failures + 1
         /\ (call = 0 /\ call' = 0) => Slack' = Slack + 1
         /\ (call # 0 /\ call' = 0) => Slack' = Slack
<1>1. given \in Seq(0 .. MaxPictures) /\ 0 \in 0 .. MaxPictures
  BY RingAssumption DEF TypeOK
<1>2. Failures' = Failures + 1
  BY <1>1, FailuresAppend
<1> QED BY <1>2, SlackFacts DEF Slack

LEMMA LinesSubmitUncoded ==
  ASSUME TypeOK, LinesOK, SubmitUncoded
  PROVE  LinesOK'
<1>1. /\ kern' = kern /\ next' = next + 1 /\ Slack' = Slack + 1
      /\ RawLine' = RawLine /\ CodedLine' = CodedLine
  BY SlackOfFailedCall DEF SubmitUncoded, Filling, RawLine, CodedLine
<1>2. Aged(RawLine, NumRaw, next + 1, Slack + 1)
  BY AgedStep, LinesType, NextFacts, SlackFacts DEF LinesOK
<1>3. Aged(CodedLine, NumCoded, next + 1, Slack + 1)
  BY AgedStep, LinesType, NextFacts, SlackFacts DEF LinesOK
<1> QED BY <1>1, <1>2, <1>3 DEF LinesOK

LEMMA CodedJoins ==
  ASSUME TypeOK, LinesOK, ~CodedBusy(CodedNext)
  PROVE  /\ Append(CodedLine, CodedNext) \in Seq(CodedIndex)
         /\ Append(CodedLine, CodedNext) = Line(kern.codedDone, Append(kern.coded, CodedNext))
         /\ Aged(Append(CodedLine, CodedNext), NumCoded, next + 1, Slack + 1)
         /\ Distinct(Append(CodedLine, CodedNext))
<1>1. CodedLine \in Seq(CodedIndex) /\ CodedNext \in CodedIndex
  BY LinesType, NextFacts
<1>2. CodedNext \notin Elements(CodedLine)
  BY BusyLine
<1>3. Distinct(Append(CodedLine, CodedNext))
  BY <1>1, <1>2, DistinctAppend DEF LinesOK
<1>4. Aged(Append(CodedLine, CodedNext), NumCoded, next + 1, Slack + 1)
  BY <1>1, NextFacts, SlackFacts, AgedAppend DEF LinesOK
<1>5. Append(CodedLine, CodedNext) = Line(kern.codedDone, Append(kern.coded, CodedNext))
  BY <1>1, KernFacts, LineAppend DEF CodedLine
<1>6. Append(CodedLine, CodedNext) \in Seq(CodedIndex)
  BY <1>1, AppendProperties
<1> QED BY <1>3, <1>4, <1>5, <1>6

LEMMA LinesSubmitHalf ==
  ASSUME TypeOK, LinesOK, SubmitHalf
  PROVE  LinesOK'
<1> DEFINE longer == Append(CodedLine, CodedNext)
<1>1. /\ kern' = [kern EXCEPT !.coded = Append(@, CodedNext), !.codedDone = Dequeued(@)]
      /\ next' = next + 1 /\ Slack' = Slack + 1
  BY SlackOfFailedCall DEF SubmitHalf, Filling
<1>2. /\ kern'.raw = kern.raw /\ kern'.rawDone = kern.rawDone
      /\ kern'.coded = Append(kern.coded, CodedNext)
      /\ kern'.codedDone = Dequeued(kern.codedDone)
  BY <1>1, KernFacts
<1>3. RawLine' = RawLine
  BY <1>2 DEF RawLine
<1>4. Aged(RawLine, NumRaw, next + 1, Slack + 1)
  BY AgedStep, LinesType, NextFacts, SlackFacts DEF LinesOK
<1>5. /\ longer \in Seq(CodedIndex)
      /\ longer = Line(kern.codedDone, Append(kern.coded, CodedNext))
      /\ Aged(longer, NumCoded, next + 1, Slack + 1) /\ Distinct(longer)
  BY CodedJoins DEF SubmitHalf
<1>6. CASE kern.codedDone = << >>
  <2>1. CodedLine' = longer
    BY <1>2, <1>5, <1>6 DEF CodedLine, Dequeued
  <2> QED BY <1>1, <1>3, <1>4, <1>5, <2>1 DEF LinesOK
<1>7. CASE kern.codedDone # << >>
  <2>1. Append(kern.coded, CodedNext) \in Seq(CodedIndex)
    BY KernFacts, NextFacts, AppendProperties
  <2>2. longer # << >> /\ CodedLine' = Tail(longer)
    BY <1>2, <1>5, <1>7, <2>1, KernFacts, LineTail DEF CodedLine, Dequeued
  <2>3. Distinct(Tail(longer))
    BY <1>5, <2>2, DistinctTail
  <2>4. Aged(Tail(longer), NumCoded, next + 1, Slack)
    <3>1. Aged(Tail(longer), NumCoded, next + 1, (Slack + 1) - 1)
      BY <1>5, <2>2, NextFacts, SlackFacts, AgedTail
    <3> QED BY <3>1, SlackFacts
  <2>5. Tail(longer) \in Seq(CodedIndex)
    BY <1>5, <2>2, HeadTailProperties
  <2>6. Aged(Tail(longer), NumCoded, next + 1, Slack + 1)
    <3>1. Slack \in Int /\ Slack + 1 \in Int /\ Slack <= Slack + 1 /\ next + 1 \in Nat
      BY NextFacts, SlackFacts
    <3> QED BY <2>4, <2>5, <3>1, AgedMore
  <2> HIDE DEF longer
  <2> QED BY <1>1, <1>3, <1>4, <2>2, <2>3, <2>6 DEF LinesOK
<1> QED BY <1>6, <1>7

LEMMA LinesSubmit ==
  ASSUME TypeOK, LinesOK, Submit
  PROVE  LinesOK'
<1>1. /\ kern' = [kern EXCEPT !.coded = Append(@, CodedNext), !.raw = Append(@, RawNext)]
      /\ next' = next + 1 /\ call = 0 /\ call' = next + 1 /\ given' = given
      /\ ~CodedBusy(CodedNext) /\ ~RawBusy(RawNext)
  BY DEF Submit, Filling
<1>2. Slack' = Slack + 1
  <2>1. call' # 0 /\ Failures' = Failures
    BY <1>1, NextFacts DEF Failures
  <2> QED BY <1>1, <2>1, SlackFacts DEF Slack
<1>3. /\ kern'.raw = Append(kern.raw, RawNext) /\ kern'.rawDone = kern.rawDone
      /\ kern'.coded = Append(kern.coded, CodedNext)
      /\ kern'.codedDone = kern.codedDone
  BY <1>1, KernFacts
<1>4. /\ CodedLine' = Append(CodedLine, CodedNext)
      /\ Aged(Append(CodedLine, CodedNext), NumCoded, next + 1, Slack + 1)
      /\ Distinct(Append(CodedLine, CodedNext))
  BY <1>1, <1>3, CodedJoins DEF CodedLine
<1>5. RawLine' = Append(RawLine, RawNext)
  <2>1. Line(kern.rawDone, Append(kern.raw, RawNext)) = Append(Line(kern.rawDone, kern.raw), RawNext)
    BY KernFacts, NextFacts, LineAppend, SMTT(40)
  <2> QED BY <1>3, <2>1 DEF RawLine
<1>6. RawLine \in Seq(RawIndex) /\ RawNext \in RawIndex /\ RawNext \notin Elements(RawLine)
  BY <1>1, LinesType, NextFacts, BusyLine
<1>7. Distinct(Append(RawLine, RawNext))
  BY <1>6, DistinctAppend DEF LinesOK
<1>8. Aged(Append(RawLine, RawNext), NumRaw, next + 1, Slack + 1)
  BY <1>6, NextFacts, SlackFacts, AgedAppend DEF LinesOK
<1> QED BY <1>1, <1>2, <1>4, <1>5, <1>7, <1>8 DEF LinesOK

LEMMA LinesEncode ==
  ASSUME TypeOK, LinesOK, Encode
  PROVE  LinesOK'
<1>1. /\ kern.raw # << >> /\ kern.coded # << >>
      /\ kern'.raw = Tail(kern.raw) /\ kern'.coded = Tail(kern.coded)
      /\ kern'.rawDone = Append(kern.rawDone, Head(kern.raw))
      /\ kern'.codedDone = Append(kern.codedDone, Head(kern.coded))
      /\ next' = next /\ Slack' = Slack
  BY DEF Encode, Slack, Failures
<1>2. RawLine' = RawLine
  BY <1>1, KernFacts, LineMove DEF RawLine
<1>3. CodedLine' = CodedLine
  BY <1>1, KernFacts, LineMove DEF CodedLine
<1> QED BY <1>1, <1>2, <1>3 DEF LinesOK

\* What a line loses at its head.
LEMMA LineShrinks ==
  ASSUME TypeOK, NEW S, NEW line \in Seq(S), line # << >>, NEW n,
         Aged(line, n, next, Slack), Distinct(line)
  PROVE  /\ Distinct(Tail(line))
         /\ Aged(Tail(line), n, next, Slack - 1)
         /\ Aged(Tail(line), n, next, Slack)
<1>1. Distinct(Tail(line))
  BY DistinctTail
<1>2. next \in Nat /\ Slack \in Int /\ Slack - 1 \in Int /\ Slack - 1 <= Slack
  BY NextFacts, SlackFacts
<1>3. Aged(Tail(line), n, next, Slack - 1)
  BY <1>2, AgedTail
<1>4. Tail(line) \in Seq(S)
  BY HeadTailProperties
<1>5. Aged(Tail(line), n, next, Slack)
  BY <1>2, <1>3, <1>4, AgedMore
<1> QED BY <1>1, <1>3, <1>5

LEMMA RawShrinks ==
  ASSUME TypeOK, LinesOK, kern.rawDone # << >>, kern'.raw = kern.raw,
         kern'.rawDone = Tail(kern.rawDone)
  PROVE  /\ Distinct(RawLine')
         /\ Aged(RawLine', NumRaw, next, Slack - 1)
         /\ Aged(RawLine', NumRaw, next, Slack)
<1>1. RawLine # << >> /\ RawLine' = Tail(RawLine)
  <2>1. /\ Line(kern.rawDone, kern.raw) # << >>
        /\ Line(Tail(kern.rawDone), kern.raw) = Tail(Line(kern.rawDone, kern.raw))
    BY KernFacts, LineTail
  <2> QED BY <2>1 DEF RawLine
<1>2. RawLine \in Seq(RawIndex)
  BY LinesType
<1>3. /\ Distinct(Tail(RawLine))
      /\ Aged(Tail(RawLine), NumRaw, next, Slack - 1)
      /\ Aged(Tail(RawLine), NumRaw, next, Slack)
  BY <1>1, <1>2, LineShrinks DEF LinesOK
<1> QED BY <1>1, <1>3

LEMMA CodedShrinks ==
  ASSUME TypeOK, LinesOK, kern.codedDone # << >>, kern'.coded = kern.coded,
         kern'.codedDone = Tail(kern.codedDone)
  PROVE  /\ Distinct(CodedLine')
         /\ Aged(CodedLine', NumCoded, next, Slack - 1)
         /\ Aged(CodedLine', NumCoded, next, Slack)
<1>1. CodedLine # << >> /\ CodedLine' = Tail(CodedLine)
  <2>1. /\ Line(kern.codedDone, kern.coded) # << >>
        /\ Line(Tail(kern.codedDone), kern.coded) = Tail(Line(kern.codedDone, kern.coded))
    BY KernFacts, LineTail
  <2> QED BY <2>1 DEF CodedLine
<1>2. CodedLine \in Seq(CodedIndex)
  BY LinesType
<1>3. /\ Distinct(Tail(CodedLine))
      /\ Aged(Tail(CodedLine), NumCoded, next, Slack - 1)
      /\ Aged(Tail(CodedLine), NumCoded, next, Slack)
  BY <1>1, <1>2, LineShrinks DEF LinesOK
<1> QED BY <1>1, <1>3

LEMMA LinesDeliverFails ==
  ASSUME TypeOK, LinesOK, DeliverFails
  PROVE  LinesOK'
<1>1. next' = next /\ Slack' = Slack
  BY SlackOfFailedCall DEF DeliverFails, Return, Ready
<1>2. kern'.coded = kern.coded /\ kern'.codedDone = kern.codedDone
  BY KernFacts DEF DeliverFails
<1>3. CodedLine' = CodedLine
  BY <1>2 DEF CodedLine
<1>4. CASE kern' = kern
  <2>1. RawLine' = RawLine
    BY <1>4 DEF RawLine
  <2> QED BY <1>1, <1>3, <2>1 DEF LinesOK
<1>5. CASE kern.rawDone # << >> /\ kern' = [kern EXCEPT !.rawDone = Tail(@)]
  <2>1. kern'.raw = kern.raw /\ kern'.rawDone = Tail(kern.rawDone)
    BY <1>5, KernFacts
  <2>2. Distinct(RawLine') /\ Aged(RawLine', NumRaw, next, Slack)
    BY <1>5, <2>1, RawShrinks
  <2> QED BY <1>1, <1>3, <2>2 DEF LinesOK
<1> QED BY <1>4, <1>5 DEF DeliverFails

LEMMA LinesTimesOut ==
  ASSUME TypeOK, LinesOK, TimesOut
  PROVE  LinesOK'
<1>1. next' = next /\ kern' = kern /\ Slack' = Slack
  BY SlackOfFailedCall DEF TimesOut, Return
<1> QED BY <1>1 DEF LinesOK, RawLine, CodedLine

LEMMA LinesRecreate ==
  ASSUME TypeOK, Recreate
  PROVE  LinesOK'
<1>1. kern' = EmptyRings
  BY DEF Recreate
<1>2. RawLine' = << >> /\ CodedLine' = << >>
  BY <1>1, EmptySeq DEF RawLine, CodedLine, Line, EmptyRings
<1>3. Distinct(<< >>)
  BY EmptySeq DEF Distinct
<1> QED BY <1>2, <1>3, AgedEmpty DEF LinesOK

\* A bitstream that is returned is no error, so that the call did not fail.
LEMMA LinesDeliver ==
  ASSUME TypeOK, LinesOK, Deliver, coded[Head(kern.codedDone)] \in 1 .. next
  PROVE  LinesOK' /\ Failures' = Failures
<1>1. /\ kern.codedDone # << >> /\ kern.rawDone # << >> /\ call # 0 /\ call' = 0
      /\ kern' = [kern EXCEPT !.rawDone = Tail(@), !.codedDone = Tail(@)]
      /\ next' = next /\ given' = Append(given, coded[Head(kern.codedDone)])
  BY DEF Deliver, Ready, Return
<1>2. Failures' = Failures
  <2>1. given \in Seq(0 .. MaxPictures) /\ next \in 0 .. MaxPictures
    BY DEF TypeOK
  <2>2. /\ coded[Head(kern.codedDone)] \in 0 .. MaxPictures
        /\ coded[Head(kern.codedDone)] # 0
    BY <2>1, RingAssumption
  <2> QED BY <1>1, <2>1, <2>2, FailuresAppend
<1>3. Slack' = Slack - 1
  BY <1>1, <1>2, SlackFacts DEF Slack
<1>4. /\ kern'.raw = kern.raw /\ kern'.rawDone = Tail(kern.rawDone)
      /\ kern'.coded = kern.coded /\ kern'.codedDone = Tail(kern.codedDone)
  BY <1>1, KernFacts
<1>5. Distinct(RawLine') /\ Aged(RawLine', NumRaw, next, Slack - 1)
  BY <1>1, <1>4, RawShrinks
<1>6. Distinct(CodedLine') /\ Aged(CodedLine', NumCoded, next, Slack - 1)
  BY <1>1, <1>4, CodedShrinks
<1> QED BY <1>1, <1>2, <1>3, <1>5, <1>6 DEF LinesOK

-----------------------------------------------------------------------------
(* What each action does to the pictures that are pending.                  *)

LEMMA PendingType ==
  ASSUME TypeOK
  PROVE  /\ Contents(kern.codedDone, coded) \in Seq(Picture)
         /\ Contents(kern.raw, raw) \in Seq(Picture)
         /\ Pending \in Seq(Picture) /\ Len(Pending) \in Nat
         /\ Len(Pending) = Len(kern.codedDone) + Len(kern.raw)
         /\ \A k \in 1 .. Len(kern.codedDone) :
              k \in 1 .. Len(Pending) /\ Pending[k] = coded[kern.codedDone[k]]
<1>1. raw \in [RawIndex -> Picture] /\ coded \in [CodedIndex -> Picture]
  BY DEF TypeOK, Picture
<1>2. /\ kern.raw \in Seq(RawIndex) /\ kern.codedDone \in Seq(CodedIndex)
  BY KernFacts
<1>3. /\ Contents(kern.codedDone, coded) \in Seq(Picture)
      /\ Contents(kern.raw, raw) \in Seq(Picture)
  BY <1>1, <1>2, ContentsFacts
<1>4. /\ Pending \in Seq(Picture)
      /\ Len(Pending) = Len(kern.codedDone) + Len(kern.raw)
      /\ \A k \in 1 .. Len(kern.codedDone) :
           /\ k \in 1 .. Len(kern.codedDone) + Len(kern.raw)
           /\ Pending[k] = coded[kern.codedDone[k]]
  <2> DEFINE s == kern.codedDone
             t == kern.raw
  <2>1. s \in Seq(CodedIndex) /\ t \in Seq(RawIndex)
    BY <1>2
  <2>2. Pending = Line(Contents(s, coded), Contents(t, raw))
    BY Zenon DEF Pending
  <2> HIDE DEF s, t
  <2>3. /\ Pending \in Seq(Picture)
        /\ Len(Pending) = Len(s) + Len(t)
        /\ \A k \in 1 .. Len(s) : k \in 1 .. Len(s) + Len(t) /\ Pending[k] = coded[s[k]]
    BY <1>1, <2>1, <2>2, ContentsLine, SMTT(40)
  <2> QED BY <2>3, Zenon DEF s, t
<1>5. Len(Pending) \in Nat
  BY <1>4, LenProperties, Zenon
<1> QED BY <1>3, <1>4, <1>5, Zenon

\* The device moves the oldest picture from a raw buffer to a coded one, which
\* has none that is done.
LEMMA PendingEncode ==
  ASSUME TypeOK, LinesOK, Encode
  PROVE  Pending' = Pending
<1> DEFINE c == Head(kern.coded)
           v == raw[Head(kern.raw)]
<1>1. /\ kern.raw # << >> /\ kern.coded # << >>
      /\ kern'.raw = Tail(kern.raw) /\ kern'.codedDone = Append(kern.codedDone, c)
      /\ coded' = [coded EXCEPT ![c] = v] /\ raw' = raw
  BY DEF Encode
<1>2. raw \in [RawIndex -> Picture] /\ coded \in [CodedIndex -> Picture]
  BY DEF TypeOK, Picture
<1>3. c \in CodedIndex /\ c = kern.coded[1] /\ 1 \in 1 .. Len(kern.coded)
  BY <1>1, KernFacts, HeadTailProperties, EmptySeq
<1>4. Head(kern.raw) \in RawIndex
  BY <1>1, KernFacts, HeadTailProperties
<1>5. v \in Picture
  BY <1>2, <1>4
<1>6. c \notin Elements(kern.codedDone)
  <2>1. /\ kern.codedDone \in Seq(CodedIndex) /\ kern.coded \in Seq(CodedIndex)
        /\ Distinct(Line(kern.codedDone, kern.coded))
    BY KernFacts DEF LinesOK, CodedLine
  <2> QED BY <1>1, <2>1, DistinctHead
<1>7. Contents(kern'.codedDone, coded') = Append(Contents(kern.codedDone, coded), v)
  <2>1. /\ coded' \in [CodedIndex -> Picture] /\ coded'[c] = v
        /\ \A j \in CodedIndex : j # c => coded'[j] = coded[j]
    BY <1>1, <1>2, <1>3, <1>5
  <2>2. kern.codedDone \in Seq(CodedIndex)
    BY KernFacts
  <2> HIDE DEF c, v
  <2>3. Contents(Append(kern.codedDone, c), coded')
          = Append(Contents(kern.codedDone, coded), coded'[c])
    BY <1>2, <1>3, <1>6, <2>1, <2>2, ContentsAppend
  <2> QED BY <1>1, <2>1, <2>3, Zenon
<1>8. /\ Contents(kern.raw, raw) # << >>
      /\ Contents(kern'.raw, raw') = Tail(Contents(kern.raw, raw))
      /\ v = Head(Contents(kern.raw, raw))
  BY <1>1, <1>2, KernFacts, ContentsTail
<1>9. Line(Append(Contents(kern.codedDone, coded), Head(Contents(kern.raw, raw))),
           Tail(Contents(kern.raw, raw)))
        = Line(Contents(kern.codedDone, coded), Contents(kern.raw, raw))
  BY <1>8, PendingType, LineMove
<1> QED BY <1>7, <1>8, <1>9 DEF Pending

LEMMA PendingSubmit ==
  ASSUME TypeOK, Submit
  PROVE  Pending' = Append(Pending, next + 1) /\ next + 1 \in Picture
<1>1. /\ raw' = [raw EXCEPT ![RawNext] = next + 1] /\ coded' = coded
      /\ next < MaxPictures /\ ~RawBusy(RawNext)
      /\ kern'.raw = Append(kern.raw, RawNext) /\ kern'.codedDone = kern.codedDone
  BY KernFacts DEF Submit, Filling
<1>2. raw \in [RawIndex -> Picture] /\ next + 1 \in Picture
  BY <1>1, RingAssumption DEF TypeOK, Picture, Garbage
<1>3. RawNext \notin Elements(kern.raw)
  BY <1>1 DEF RawBusy
<1>4. Contents(kern'.raw, raw') = Append(Contents(kern.raw, raw), next + 1)
  <2>1. kern.raw \in Seq(RawIndex) /\ RawNext \in RawIndex
    BY KernFacts, NextFacts
  <2>2. /\ raw' \in [RawIndex -> Picture] /\ raw'[RawNext] = next + 1
        /\ \A j \in RawIndex : j # RawNext => raw'[j] = raw[j]
    BY <1>1, <1>2, <2>1
  <2>3. Contents(Append(kern.raw, RawNext), raw')
          = Append(Contents(kern.raw, raw), raw'[RawNext])
    BY <1>2, <1>3, <2>1, <2>2, ContentsAppend
  <2> QED BY <1>1, <2>2, <2>3, Zenon
<1>5. Line(Contents(kern.codedDone, coded), Append(Contents(kern.raw, raw), next + 1))
        = Append(Line(Contents(kern.codedDone, coded), Contents(kern.raw, raw)), next + 1)
  BY <1>2, PendingType, LineAppend
<1> QED BY <1>1, <1>2, <1>4, <1>5 DEF Pending

\* The oldest bitstream is taken.
LEMMA PendingTaken ==
  ASSUME TypeOK, kern.codedDone # << >>, kern'.codedDone = Tail(kern.codedDone),
         kern'.raw = kern.raw, raw' = raw, coded' = coded
  PROVE  /\ Pending # << >> /\ Pending' = Tail(Pending)
         /\ Pending[1] = coded[Head(kern.codedDone)] /\ 1 \in 1 .. Len(Pending)
<1>1. coded \in [CodedIndex -> Picture]
  BY DEF TypeOK, Picture
<1>2. /\ Contents(kern.codedDone, coded) # << >>
      /\ Contents(Tail(kern.codedDone), coded) = Tail(Contents(kern.codedDone, coded))
  BY <1>1, KernFacts, ContentsTail
<1>3. /\ Line(Contents(kern.codedDone, coded), Contents(kern.raw, raw)) # << >>
      /\ Line(Tail(Contents(kern.codedDone, coded)), Contents(kern.raw, raw))
           = Tail(Line(Contents(kern.codedDone, coded), Contents(kern.raw, raw)))
  BY <1>2, PendingType, LineTail
<1>4. 1 \in 1 .. Len(kern.codedDone) /\ Head(kern.codedDone) = kern.codedDone[1]
  BY KernFacts, EmptySeq
<1> QED BY <1>2, <1>3, <1>4, PendingType DEF Pending

\* A call that fails before it has queued the raw buffer.
LEMMA PendingRefilled ==
  ASSUME TypeOK, LinesOK, Filling
  PROVE  LET refilled == Line(Contents(kern.codedDone, coded), Contents(kern.raw, raw'))
         IN  /\ refilled \in Seq(Picture)
             /\ Refilled(Pending, refilled, next + 1)
             /\ ~RawBusy(RawNext) => refilled = Pending
<1> DEFINE s == kern.codedDone
           t == kern.raw
<1>1. s \in Seq(CodedIndex) /\ t \in Seq(RawIndex)
  BY KernFacts
<1>2. /\ raw' = [raw EXCEPT ![RawNext] = next + 1] /\ next < MaxPictures
      /\ RawNext \in RawIndex
  BY NextFacts DEF Filling
<1>3. /\ raw \in [RawIndex -> Picture] /\ coded \in [CodedIndex -> Picture]
      /\ next + 1 \in Picture
  BY <1>2, RingAssumption DEF TypeOK, Picture, Garbage
<1>4. /\ raw' \in [RawIndex -> Picture] /\ raw'[RawNext] = next + 1
      /\ \A j \in RawIndex : j # RawNext => raw'[j] = raw[j]
  BY <1>2, <1>3
<1>5. \A j, k \in 1 .. Len(t) : j # k => t[j] # t[k]
  <2>1. kern.rawDone \in Seq(RawIndex) /\ Distinct(Line(kern.rawDone, t))
    BY KernFacts DEF LinesOK, RawLine
  <2> HIDE DEF t
  <2> QED BY <1>1, <2>1, DistinctSecond
<1>6. Pending = Line(Contents(s, coded), Contents(t, raw))
  BY Zenon DEF Pending
<1>7. ~RawBusy(RawNext) => RawNext \notin Elements(t)
  BY DEF RawBusy
<1> HIDE DEF s, t
<1>8. /\ Line(Contents(s, coded), Contents(t, raw')) \in Seq(Picture)
      /\ Refilled(Line(Contents(s, coded), Contents(t, raw)),
                  Line(Contents(s, coded), Contents(t, raw')), raw'[RawNext])
      /\ RawNext \notin Elements(t) => Contents(t, raw') = Contents(t, raw)
  <2>1. RawNext \in RawIndex
    BY <1>2
  <2>2. raw \in [RawIndex -> Picture] /\ coded \in [CodedIndex -> Picture]
    BY <1>3
  <2> QED BY <1>1, <1>4, <1>5, <2>1, <2>2, ContentsRefilled
<1> QED BY <1>4, <1>6, <1>7, <1>8, Zenon DEF s, t

-----------------------------------------------------------------------------
(* The steps.                                                               *)

StreamOK == given \in Seq(0 .. MaxPictures) /\ 0 \in 0 .. MaxPictures

LEMMA StreamType ==
  ASSUME TypeOK
  PROVE  StreamOK
BY RingAssumption DEF TypeOK, StreamOK

\* What the client is given and what is pending, after a step that fills a raw
\* buffer in a call that fails.
LEMMA FailedFilling ==
  ASSUME TypeOK, LinesOK, Fresh, PendingOrdered, Filling, given' = Append(given, 0),
         NEW refilled,
         refilled = Line(Contents(kern.codedDone, coded), Contents(kern.raw, raw'))
  PROVE  /\ refilled \in Seq(Picture)
         /\ NewPictures(refilled, given', next')
         /\ Failures' <= NumRaw => InOrder(refilled, given')
<1>1. /\ refilled \in Seq(Picture)
      /\ Refilled(Pending, refilled, next + 1)
      /\ ~RawBusy(RawNext) => refilled = Pending
  BY PendingRefilled
<1>2. next \in Nat /\ next + 1 \in Nat /\ next' = next + 1 /\ call = 0
  BY NextFacts DEF Filling
<1>3. NewPictures(refilled, given, next + 1)
  BY <1>1, <1>2, PicturesRefilled DEF Fresh
<1>4. /\ NewPictures(refilled, given', next')
      /\ InOrder(refilled, given) => InOrder(refilled, given')
  BY <1>2, <1>3, StreamType, PicturesError DEF StreamOK
<1>5. ASSUME Failures' <= NumRaw PROVE InOrder(refilled, given)
  <2>1. Failures' = Failures + 1 /\ Failures \in Nat
    BY SlackOfFailedCall, SlackFacts
  <2>2. Failures < NumRaw /\ Failures <= NumRaw
    BY <1>5, <2>1, RingAssumption
  <2>3. ~RawBusy(RawNext)
    BY <1>2, <2>2, NextFree DEF NextIsFree
  <2> QED BY <1>1, <2>2, <2>3 DEF PendingOrdered
<1> QED BY <1>1, <1>4, <1>5

LEMMA PicturesSubmitUncoded ==
  ASSUME TypeOK, LinesOK, Fresh, PendingOrdered, SubmitUncoded
  PROVE  Fresh' /\ PendingOrdered'
<1>1. Filling /\ given' = Append(given, 0)
  BY DEF SubmitUncoded
<1>2. Pending' = Line(Contents(kern.codedDone, coded), Contents(kern.raw, raw'))
  BY Zenon DEF SubmitUncoded, Filling, Pending
<1>3. /\ NewPictures(Pending', given', next')
      /\ Failures' <= NumRaw => InOrder(Pending', given')
  BY <1>1, <1>2, FailedFilling
<1> QED BY <1>3 DEF Fresh, PendingOrdered

LEMMA PicturesSubmitHalf ==
  ASSUME TypeOK, LinesOK, Fresh, PendingOrdered, SubmitHalf
  PROVE  Fresh' /\ PendingOrdered'
<1> DEFINE refilled == Line(Contents(kern.codedDone, coded), Contents(kern.raw, raw'))
<1>1. /\ Filling /\ given' = Append(given, 0) /\ coded' = coded
      /\ kern' = [kern EXCEPT !.coded = Append(@, CodedNext), !.codedDone = Dequeued(@)]
  BY DEF SubmitHalf, Filling
<1>2. kern'.raw = kern.raw /\ kern'.codedDone = Dequeued(kern.codedDone)
  BY <1>1, KernFacts
<1>3. /\ refilled \in Seq(Picture)
      /\ NewPictures(refilled, given', next')
      /\ Failures' <= NumRaw => InOrder(refilled, given')
  BY <1>1, FailedFilling
<1>4. Pending' = Line(Contents(Dequeued(kern.codedDone), coded), Contents(kern.raw, raw'))
  BY <1>1, <1>2, Zenon DEF Pending
<1>5. CASE kern.codedDone = << >>
  <2>1. Pending' = refilled
    BY <1>4, <1>5 DEF Dequeued
  <2> QED BY <1>3, <2>1 DEF Fresh, PendingOrdered
<1>6. CASE kern.codedDone # << >>
  <2>1. coded \in [CodedIndex -> Picture] /\ raw' \in [RawIndex -> Picture]
    BY <1>1, NextFacts, RingAssumption, SMTT(40) DEF TypeOK, Filling, Picture, Garbage
  <2>2. /\ Contents(kern.codedDone, coded) # << >>
        /\ Contents(Tail(kern.codedDone), coded) = Tail(Contents(kern.codedDone, coded))
    BY <1>6, <2>1, KernFacts, ContentsTail
  <2>3. /\ Contents(kern.codedDone, coded) \in Seq(Picture)
        /\ Contents(kern.raw, raw') \in Seq(Picture)
    BY <2>1, KernFacts, ContentsFacts
  <2>4. /\ refilled # << >>
        /\ Line(Tail(Contents(kern.codedDone, coded)), Contents(kern.raw, raw')) = Tail(refilled)
    BY <2>2, <2>3, LineTail
  <2>5. Pending' = Tail(refilled)
    BY <1>4, <1>6, <2>2, <2>4 DEF Dequeued
  <2> HIDE DEF refilled
  <2>6. /\ NewPictures(Tail(refilled), given', next')
        /\ InOrder(refilled, given') => InOrder(Tail(refilled), given')
    BY <1>3, <2>4, PicturesTail
  <2> QED BY <1>3, <2>5, <2>6 DEF Fresh, PendingOrdered
<1> QED BY <1>5, <1>6

LEMMA PicturesSubmit ==
  ASSUME TypeOK, Fresh, PendingOrdered, Submit
  PROVE  Fresh' /\ PendingOrdered'
<1>1. Pending' = Append(Pending, next + 1) /\ next + 1 \in Picture
  BY PendingSubmit
<1>2. next \in Nat /\ next' = next + 1 /\ given' = given /\ Failures' = Failures
  BY NextFacts DEF Submit, Filling, Failures
<1>3. /\ NewPictures(Append(Pending, next + 1), given, next + 1)
      /\ InOrder(Pending, given) => InOrder(Append(Pending, next + 1), given)
  BY <1>1, <1>2, PendingType, PicturesAppend DEF Fresh
<1> QED BY <1>1, <1>2, <1>3 DEF Fresh, PendingOrdered

LEMMA PicturesEncode ==
  ASSUME TypeOK, LinesOK, Fresh, PendingOrdered, Encode
  PROVE  Fresh' /\ PendingOrdered'
<1>1. Pending' = Pending
  BY PendingEncode
<1>2. next' = next /\ given' = given /\ Failures' = Failures
  BY DEF Encode, Failures
<1> QED BY <1>1, <1>2 DEF Fresh, PendingOrdered

\* A call that waited and returns an error: nothing else has changed.
LEMMA PicturesFailedCall ==
  ASSUME TypeOK, Fresh, PendingOrdered, given' = Append(given, 0),
         next' = next, Pending' = Pending
  PROVE  Fresh' /\ PendingOrdered'
<1>1. /\ NewPictures(Pending, given', next)
      /\ InOrder(Pending, given) => InOrder(Pending, given')
  BY NextFacts, StreamType, PicturesError DEF Fresh, StreamOK
<1>2. Failures' = Failures + 1 /\ Failures \in Nat
  BY SlackOfFailedCall, SlackFacts
<1>3. Failures' <= NumRaw => Failures <= NumRaw
  BY <1>2, RingAssumption
<1> QED BY <1>1, <1>3 DEF Fresh, PendingOrdered

LEMMA PicturesDeliverFails ==
  ASSUME TypeOK, Fresh, PendingOrdered, DeliverFails
  PROVE  Fresh' /\ PendingOrdered'
<1>1. /\ given' = Append(given, 0) /\ next' = next /\ raw' = raw /\ coded' = coded
      /\ kern'.raw = kern.raw /\ kern'.codedDone = kern.codedDone
  BY KernFacts DEF DeliverFails, Return
<1>2. Pending' = Pending
  BY <1>1, Zenon DEF Pending
<1> QED BY <1>1, <1>2, PicturesFailedCall

LEMMA PicturesTimesOut ==
  ASSUME TypeOK, Fresh, PendingOrdered, TimesOut
  PROVE  Fresh' /\ PendingOrdered'
<1>1. /\ given' = Append(given, 0) /\ next' = next /\ raw' = raw /\ coded' = coded
      /\ kern' = kern
  BY DEF TimesOut, Return
<1>2. Pending' = Pending
  BY <1>1, Zenon DEF Pending
<1> QED BY <1>1, <1>2, PicturesFailedCall

\* Deliver gives the oldest of the pictures that are pending.
LEMMA DeliverGives ==
  ASSUME TypeOK, Fresh, Deliver
  PROVE  /\ Pending # << >> /\ Pending' = Tail(Pending)
         /\ Pending[1] = coded[Head(kern.codedDone)] /\ Pending[1] \in 1 .. next
         /\ 1 \in 1 .. Len(Pending)
         /\ given' = Append(given, Pending[1]) /\ next' = next
<1>1. /\ kern.codedDone # << >> /\ raw' = raw /\ coded' = coded /\ next' = next
      /\ given' = Append(given, coded[Head(kern.codedDone)])
      /\ kern'.raw = kern.raw /\ kern'.codedDone = Tail(kern.codedDone)
  BY KernFacts DEF Deliver, Return, Ready
<1>2. /\ Pending # << >> /\ Pending' = Tail(Pending)
      /\ Pending[1] = coded[Head(kern.codedDone)] /\ 1 \in 1 .. Len(Pending)
  BY <1>1, PendingTaken
<1>3. Pending[1] \in 1 .. next
  BY <1>2 DEF Fresh, NewPictures
<1> QED BY <1>1, <1>2, <1>3

LEMMA PicturesDeliver ==
  ASSUME TypeOK, LinesOK, Fresh, PendingOrdered, Deliver
  PROVE  Fresh' /\ PendingOrdered'
<1>1. /\ Pending # << >> /\ Pending' = Tail(Pending) /\ next' = next
      /\ given' = Append(given, Pending[1])
      /\ coded[Head(kern.codedDone)] \in 1 .. next
  BY DeliverGives
<1>2. Failures' = Failures
  BY <1>1, LinesDeliver
<1>3. Pending \in Seq(Int) /\ given \in Seq(Int) /\ next \in Nat
  <2>1. Picture \subseteq Int /\ 0 .. MaxPictures \subseteq Int
    BY RingAssumption DEF Picture, Garbage
  <2>2. Pending \in Seq(Picture) /\ given \in Seq(0 .. MaxPictures)
    BY PendingType, StreamType DEF StreamOK
  <2> QED BY <2>1, <2>2, NextFacts, SeqMonotonic
<1>4. /\ NewPictures(Tail(Pending), Append(given, Pending[1]), next)
      /\ InOrder(Pending, given) => InOrder(Tail(Pending), Append(given, Pending[1]))
  BY <1>1, <1>3, PicturesGiven DEF Fresh
<1> QED BY <1>1, <1>2, <1>4 DEF Fresh, PendingOrdered

LEMMA PicturesNone ==
  ASSUME NEW n
  PROVE  NewPictures(<< >>, << >>, n) /\ InOrder(<< >>, << >>)
BY EmptySeq DEF NewPictures, InOrder

LEMMA PicturesRecreate ==
  ASSUME Recreate
  PROVE  Fresh' /\ PendingOrdered'
<1>1. kern'.raw = << >> /\ kern'.codedDone = << >> /\ given' = << >>
  BY DEF Recreate, EmptyRings
<1>2. Pending' = << >>
  BY <1>1, EmptySeq DEF Pending, Line, Contents
<1> QED BY <1>1, <1>2, PicturesNone DEF Fresh, PendingOrdered

\* An answer more: the stream stays in its type, and until the first error it
\* stays the pictures' own.
LEMMA AnswerType ==
  ASSUME TypeOK, NEW x \in 0 .. MaxPictures, given' = Append(given, x)
  PROVE  given' \in Seq(0 .. MaxPictures) /\ Len(given') = Len(given) + 1
BY AppendProperties DEF TypeOK

LEMMA TypeSubmitUncoded ==
  ASSUME TypeOK, SubmitUncoded
  PROVE  TypeOK'
<1>1. /\ given' \in Seq(0 .. MaxPictures) /\ Len(given') = Len(given) + 1
  BY StreamType, AnswerType DEF StreamOK, SubmitUncoded
<1>2. /\ next' = next + 1 /\ next < MaxPictures /\ call = 0 /\ call' = 0
      /\ kern' = kern /\ coded' = coded /\ raw' = [raw EXCEPT ![RawNext] = next + 1]
  BY DEF SubmitUncoded, Filling
<1>3. next + 1 \in Garbage .. MaxPictures /\ next + 1 \in 0 .. MaxPictures
  BY <1>2, RingAssumption DEF TypeOK, Garbage
<1>4. raw' \in [RawIndex -> Garbage .. MaxPictures]
  BY <1>2, <1>3 DEF TypeOK
<1> QED BY <1>1, <1>2, <1>3, <1>4 DEF TypeOK

LEMMA TypeSubmitHalf ==
  ASSUME TypeOK, SubmitHalf
  PROVE  TypeOK'
<1>1. /\ given' \in Seq(0 .. MaxPictures) /\ Len(given') = Len(given) + 1
  BY StreamType, AnswerType DEF StreamOK, SubmitHalf
<1>2. /\ next' = next + 1 /\ next < MaxPictures /\ call = 0 /\ call' = 0
      /\ coded' = coded /\ raw' = [raw EXCEPT ![RawNext] = next + 1]
      /\ kern' = [kern EXCEPT !.coded = Append(@, CodedNext), !.codedDone = Dequeued(@)]
  BY DEF SubmitHalf, Filling
<1>3. next + 1 \in Garbage .. MaxPictures /\ next + 1 \in 0 .. MaxPictures
  BY <1>2, RingAssumption DEF TypeOK, Garbage
<1>4. raw' \in [RawIndex -> Garbage .. MaxPictures]
  BY <1>2, <1>3 DEF TypeOK
<1>5. Append(kern.coded, CodedNext) \in Seq(CodedIndex)
  BY KernFacts, NextFacts, AppendProperties
<1>6. Dequeued(kern.codedDone) \in Seq(CodedIndex)
  BY KernFacts, HeadTailProperties DEF Dequeued
<1>7. kern' \in [raw : Seq(RawIndex), rawDone : Seq(RawIndex),
                 coded : Seq(CodedIndex), codedDone : Seq(CodedIndex)]
  BY <1>2, <1>5, <1>6, KernFacts
<1> QED BY <1>1, <1>2, <1>3, <1>4, <1>7 DEF TypeOK

LEMMA TypeSubmit ==
  ASSUME TypeOK, Submit
  PROVE  TypeOK'
<1>1. /\ next' = next + 1 /\ next < MaxPictures /\ call = 0 /\ call' = next + 1
      /\ coded' = coded /\ raw' = [raw EXCEPT ![RawNext] = next + 1] /\ given' = given
      /\ kern' = [kern EXCEPT !.coded = Append(@, CodedNext), !.raw = Append(@, RawNext)]
  BY DEF Submit, Filling
<1>2. next + 1 \in Garbage .. MaxPictures /\ next + 1 \in 0 .. MaxPictures /\ next + 1 # 0
  BY <1>1, RingAssumption DEF TypeOK, Garbage
<1>3. raw' \in [RawIndex -> Garbage .. MaxPictures]
  BY <1>1, <1>2 DEF TypeOK
<1>4. /\ Append(kern.coded, CodedNext) \in Seq(CodedIndex)
      /\ Append(kern.raw, RawNext) \in Seq(RawIndex)
  BY KernFacts, NextFacts, AppendProperties
<1>5. kern' \in [raw : Seq(RawIndex), rawDone : Seq(RawIndex),
                 coded : Seq(CodedIndex), codedDone : Seq(CodedIndex)]
  BY <1>1, <1>4, KernFacts
<1>6. next' - 1 = next
  BY <1>1, NextFacts
<1> QED BY <1>1, <1>2, <1>3, <1>5, <1>6 DEF TypeOK

LEMMA TypeEncode ==
  ASSUME TypeOK, Encode
  PROVE  TypeOK'
<1>1. /\ kern.raw # << >> /\ kern.coded # << >>
      /\ coded' = [coded EXCEPT ![Head(kern.coded)] = raw[Head(kern.raw)]]
      /\ kern' = [raw |-> Tail(kern.raw), coded |-> Tail(kern.coded),
                  rawDone |-> Append(kern.rawDone, Head(kern.raw)),
                  codedDone |-> Append(kern.codedDone, Head(kern.coded))]
      /\ next' = next /\ raw' = raw /\ call' = call /\ given' = given
  BY DEF Encode
<1>2. /\ Head(kern.raw) \in RawIndex /\ Tail(kern.raw) \in Seq(RawIndex)
      /\ Head(kern.coded) \in CodedIndex /\ Tail(kern.coded) \in Seq(CodedIndex)
  BY <1>1, KernFacts, HeadTailProperties
<1>3. /\ Append(kern.rawDone, Head(kern.raw)) \in Seq(RawIndex)
      /\ Append(kern.codedDone, Head(kern.coded)) \in Seq(CodedIndex)
  BY <1>2, KernFacts, AppendProperties
<1>4. coded' \in [CodedIndex -> Garbage .. MaxPictures]
  BY <1>1, <1>2 DEF TypeOK
<1>5. kern' \in [raw : Seq(RawIndex), rawDone : Seq(RawIndex),
                 coded : Seq(CodedIndex), codedDone : Seq(CodedIndex)]
  BY <1>1, <1>2, <1>3
<1> QED BY <1>1, <1>4, <1>5 DEF TypeOK

\* A call that waited and returns, whatever it returns.
LEMMA TypeReturn ==
  ASSUME TypeOK, call # 0, NEW x \in 0 .. MaxPictures, Return(x),
         kern' \in [raw : Seq(RawIndex), rawDone : Seq(RawIndex),
                    coded : Seq(CodedIndex), codedDone : Seq(CodedIndex)]
  PROVE  TypeOK'
<1>1. /\ given' = Append(given, x) /\ call' = 0 /\ next' = next
      /\ raw' = raw /\ coded' = coded
  BY DEF Return
<1>2. /\ given' \in Seq(0 .. MaxPictures) /\ Len(given') = Len(given) + 1
  BY <1>1, AnswerType
<1>3. Len(given') = next
  BY <1>2, NextFacts DEF TypeOK
<1> QED BY <1>1, <1>2, <1>3 DEF TypeOK

LEMMA TypeDeliver ==
  ASSUME TypeOK, Fresh, Deliver
  PROVE  TypeOK'
<1>1. /\ kern.rawDone # << >> /\ kern.codedDone # << >> /\ call # 0
      /\ kern' = [kern EXCEPT !.rawDone = Tail(@), !.codedDone = Tail(@)]
      /\ Return(coded[Head(kern.codedDone)])
  BY DEF Deliver, Ready
<1>2. coded[Head(kern.codedDone)] \in 0 .. MaxPictures
  BY DeliverGives, RingAssumption, SMTT(40) DEF TypeOK
<1>3. Tail(kern.rawDone) \in Seq(RawIndex) /\ Tail(kern.codedDone) \in Seq(CodedIndex)
  BY <1>1, KernFacts, HeadTailProperties
<1>4. kern' \in [raw : Seq(RawIndex), rawDone : Seq(RawIndex),
                 coded : Seq(CodedIndex), codedDone : Seq(CodedIndex)]
  BY <1>1, <1>3, KernFacts
<1> QED BY <1>1, <1>2, <1>4, TypeReturn

LEMMA TypeDeliverFails ==
  ASSUME TypeOK, DeliverFails
  PROVE  TypeOK'
<1>1. call # 0 /\ Return(0) /\ 0 \in 0 .. MaxPictures
  BY RingAssumption DEF DeliverFails, Ready
<1>2. kern' \in [raw : Seq(RawIndex), rawDone : Seq(RawIndex),
                 coded : Seq(CodedIndex), codedDone : Seq(CodedIndex)]
  <2>1. CASE kern' = kern
    BY <2>1 DEF TypeOK
  <2>2. CASE kern.rawDone # << >> /\ kern' = [kern EXCEPT !.rawDone = Tail(@)]
    <3>1. Tail(kern.rawDone) \in Seq(RawIndex)
      BY <2>2, KernFacts, HeadTailProperties
    <3> QED BY <2>2, <3>1, KernFacts
  <2> QED BY <2>1, <2>2 DEF DeliverFails
<1> QED BY <1>1, <1>2, TypeReturn

LEMMA TypeTimesOut ==
  ASSUME TypeOK, TimesOut
  PROVE  TypeOK'
<1>1. call # 0 /\ Return(0) /\ 0 \in 0 .. MaxPictures /\ kern' = kern
  BY RingAssumption DEF TimesOut
<1>2. kern' \in [raw : Seq(RawIndex), rawDone : Seq(RawIndex),
                 coded : Seq(CodedIndex), codedDone : Seq(CodedIndex)]
  BY <1>1 DEF TypeOK
<1> QED BY <1>1, <1>2, TypeReturn

LEMMA EmptyType ==
  /\ [i \in RawIndex |-> Garbage] \in [RawIndex -> Garbage .. MaxPictures]
  /\ [i \in CodedIndex |-> Garbage] \in [CodedIndex -> Garbage .. MaxPictures]
  /\ EmptyRings \in [raw : Seq(RawIndex), rawDone : Seq(RawIndex),
                     coded : Seq(CodedIndex), codedDone : Seq(CodedIndex)]
  /\ << >> \in Seq(0 .. MaxPictures) /\ Len(<< >>) = 0 /\ 0 \in 0 .. MaxPictures
BY RingAssumption, EmptySeq DEF Garbage, EmptyRings

LEMMA TypeRecreate ==
  ASSUME TypeOK, Recreate
  PROVE  TypeOK'
BY EmptyType DEF TypeOK, Recreate

-----------------------------------------------------------------------------

\* An error does not touch what was promised for the calls before the first.
LEMMA OwnError ==
  ASSUME TypeOK, OwnUntilFailure, given' = Append(given, 0)
  PROVE  OwnUntilFailure'
<1>1. /\ Len(given) \in Nat /\ Len(given') = Len(given) + 1
      /\ \A p \in 1 .. Len(given) : given'[p] = given[p]
      /\ given'[Len(given) + 1] = 0
  BY StreamType, AppendFacts DEF StreamOK
<1>2. SUFFICES ASSUME NEW p \in 1 .. Len(given'), \A q \in 1 .. p : given'[q] # 0
               PROVE  given'[p] = p
  BY DEF OwnUntilFailure
<1>3. p \in 1 .. Len(given)
  BY <1>1, <1>2
<1>4. \A q \in 1 .. p : q \in 1 .. Len(given)
  BY <1>1, <1>3
<1> QED BY <1>1, <1>2, <1>3, <1>4 DEF OwnUntilFailure

\* While no call has failed, the oldest picture that is pending is the one the
\* call waits for: all earlier ones were given, and it is later than those.
LEMMA OwnDeliver ==
  ASSUME TypeOK, Fresh, PendingOrdered, OwnUntilFailure, Deliver
  PROVE  OwnUntilFailure'
<1> DEFINE x == Pending[1]
<1>1. /\ given' = Append(given, x) /\ x \in 1 .. next /\ 1 \in 1 .. Len(Pending)
  BY DeliverGives
<1>2. given \in Seq(Int) /\ x \in Int /\ next \in Nat
  <2>1. 0 .. MaxPictures \subseteq Int
    BY RingAssumption
  <2>2. given \in Seq(0 .. MaxPictures)
    BY StreamType DEF StreamOK
  <2>3. given \in Seq(Int)
    BY <2>1, <2>2, SeqMonotonic
  <2>4. next \in Nat
    BY NextFacts
  <2> HIDE DEF x
  <2> QED BY <1>1, <2>3, <2>4
<1>3. Len(given) = next - 1 /\ next \in Nat
  BY NextFacts DEF TypeOK, Deliver, Ready
<1> HIDE DEF x
<1>4. /\ Len(given) \in Nat /\ Len(given') = Len(given) + 1
      /\ \A p \in 1 .. Len(given) : given'[p] = given[p]
      /\ given'[Len(given) + 1] = x
  BY <1>1, <1>2, AppendFacts
<1>5. SUFFICES ASSUME NEW p \in 1 .. Len(given'), \A q \in 1 .. p : given'[q] # 0
               PROVE  given'[p] = p
  BY DEF OwnUntilFailure
<1>6. CASE p \in 1 .. Len(given)
  <2>1. \A q \in 1 .. p : q \in 1 .. Len(given)
    BY <1>4, <1>6
  <2> QED BY <1>4, <1>5, <1>6, <2>1 DEF OwnUntilFailure
<1>7. CASE p = Len(given) + 1
  <2>1. \A q \in 1 .. Len(given) : q \in 1 .. p
    BY <1>4, <1>7
  <2>2. \A q \in 1 .. Len(given) : given[q] # 0
    BY <1>4, <1>5, <2>1
  <2>3. Failures = 0
    BY <1>2, <2>2, FailuresType
  <2>4. InOrder(Pending, given)
    BY <2>3, RingAssumption DEF PendingOrdered
  <2>5. \A q \in 1 .. Len(given) : given[q] < x
    BY <1>1, <2>4 DEF InOrder, x
  <2>6. CASE Len(given) = 0
    BY <1>1, <1>3, <1>4, <1>7, <2>6
  <2>7. CASE Len(given) # 0
    <3>1. /\ Len(given) \in 1 .. Len(given)
          /\ \A q \in 1 .. Len(given) : q \in 1 .. Len(given)
      BY <1>4, <2>7
    <3>2. given[Len(given)] = Len(given)
      <4>1. \A e \in 1 .. Len(given) :
              (\A q \in 1 .. e : given[q] # 0) => given[e] = e
        BY Zenon DEF OwnUntilFailure
      <4> QED BY <2>2, <3>1, <4>1, Zenon
    <3>3. Len(given) < x
      BY <2>5, <3>1, <3>2
    <3> QED BY <1>1, <1>3, <1>4, <1>7, <3>3
  <2> QED BY <2>6, <2>7
<1> QED BY <1>4, <1>5, <1>6, <1>7

-----------------------------------------------------------------------------
(* The theorems.                                                            *)

LEMMA InitInv == Init => IInv
<1>1. SUFFICES ASSUME Init PROVE IInv
  OBVIOUS
<1>2. /\ kern = EmptyRings /\ given = << >> /\ next = 0 /\ call = 0
      /\ raw = [i \in RawIndex |-> Garbage] /\ coded = [i \in CodedIndex |-> Garbage]
  BY <1>1 DEF Init
<1>3. TypeOK
  BY <1>2, EmptyType DEF TypeOK
<1>4. LinesOK
  <2>1. RawLine = << >> /\ CodedLine = << >>
    BY <1>2, EmptySeq DEF RawLine, CodedLine, Line, EmptyRings
  <2>2. Distinct(<< >>)
    BY EmptySeq DEF Distinct
  <2> QED BY <2>1, <2>2, AgedEmpty DEF LinesOK
<1>5. Pending = << >>
  BY <1>2, EmptySeq DEF Pending, Line, Contents, EmptyRings
<1>6. Fresh /\ PendingOrdered
  BY <1>2, <1>5, PicturesNone DEF Fresh, PendingOrdered
<1>7. OwnUntilFailure
  BY <1>2, EmptySeq DEF OwnUntilFailure
<1> QED BY <1>3, <1>4, <1>6, <1>7 DEF IInv

LEMMA NextInv == IInv /\ [Next]_vars => IInv'
<1>1. SUFFICES ASSUME IInv, [Next]_vars PROVE IInv'
  OBVIOUS
<1> USE DEF IInv
<1>2. TypeOK /\ LinesOK /\ Fresh /\ PendingOrdered /\ OwnUntilFailure
  BY <1>1
<1>3. CASE SubmitUncoded
  <2>1. OwnUntilFailure'
    BY <1>2, <1>3, OwnError DEF SubmitUncoded
  <2> QED BY <1>2, <1>3, <2>1, TypeSubmitUncoded, LinesSubmitUncoded, PicturesSubmitUncoded
<1>4. CASE SubmitHalf
  <2>1. OwnUntilFailure'
    BY <1>2, <1>4, OwnError DEF SubmitHalf
  <2> QED BY <1>2, <1>4, <2>1, TypeSubmitHalf, LinesSubmitHalf, PicturesSubmitHalf
<1>5. CASE Submit
  <2>1. OwnUntilFailure'
    BY <1>2, <1>5 DEF Submit, OwnUntilFailure
  <2> QED BY <1>2, <1>5, <2>1, TypeSubmit, LinesSubmit, PicturesSubmit
<1>6. CASE Encode
  <2>1. OwnUntilFailure'
    BY <1>2, <1>6 DEF Encode, OwnUntilFailure
  <2> QED BY <1>2, <1>6, <2>1, TypeEncode, LinesEncode, PicturesEncode
<1>7. CASE Deliver
  <2>1. LinesOK'
    BY <1>2, <1>7, DeliverGives, LinesDeliver
  <2> QED BY <1>2, <1>7, <2>1, TypeDeliver, PicturesDeliver, OwnDeliver
<1>8. CASE DeliverFails
  <2>1. OwnUntilFailure'
    BY <1>2, <1>8, OwnError DEF DeliverFails, Return
  <2> QED BY <1>2, <1>8, <2>1, TypeDeliverFails, LinesDeliverFails, PicturesDeliverFails
<1>9. CASE TimesOut
  <2>1. OwnUntilFailure'
    BY <1>2, <1>9, OwnError DEF TimesOut, Return
  <2> QED BY <1>2, <1>9, <2>1, TypeTimesOut, LinesTimesOut, PicturesTimesOut
<1>10. CASE Recreate
  <2>1. OwnUntilFailure'
    BY <1>10, EmptySeq DEF Recreate, OwnUntilFailure
  <2> QED BY <1>2, <1>10, <2>1, TypeRecreate, LinesRecreate, PicturesRecreate
<1>11. CASE UNCHANGED vars
  <2>1. /\ next' = next /\ raw' = raw /\ coded' = coded /\ kern' = kern
        /\ call' = call /\ given' = given
    BY <1>11 DEF vars
  <2>2. /\ TypeOK' = TypeOK /\ OwnUntilFailure' = OwnUntilFailure
        /\ LinesOK' = LinesOK /\ Fresh' = Fresh /\ PendingOrdered' = PendingOrdered
    BY <2>1, Zenon DEF TypeOK, OwnUntilFailure, LinesOK, Fresh, PendingOrdered,
                       RawLine, CodedLine, Slack, Failures, Pending
  <2> QED BY <1>2, <2>2
<1> QED BY <1>1, <1>3, <1>4, <1>5, <1>6, <1>7, <1>8, <1>9, <1>10, <1>11 DEF Next

THEOREM RingInvariant == Spec => []IInv
<1>1. Init => IInv
  BY InitInv
<1>2. IInv /\ [Next]_vars => IInv'
  BY NextInv
<1> QED BY <1>1, <1>2, PTL DEF Spec

\* The variables of the encoder stay in their types: in particular no call
\* returns what was in a buffer before it was ever filled.
THEOREM RingTyped == Spec => []TypeOK
<1>1. IInv => TypeOK
  BY DEF IInv
<1> QED BY <1>1, RingInvariant, PTL

\* As long as fewer calls have failed than a ring has buffers, the next buffer
\* of the ring is the driver's: no picture is copied over one that the device
\* has not read, and VIDIOC_QBUF has no buffer to refuse.
THEOREM RingNextIsFree == Spec => []NextIsFree
<1>1. IInv => NextIsFree
  BY NextFree DEF IInv
<1> QED BY <1>1, RingInvariant, PTL

\* Up to as many failures as there are raw buffers the bitstreams come in the
\* order of the calls.
THEOREM RingOrderKept == Spec => []OrderKept
<1>1. IInv => OrderKept
  <2>1. SUFFICES ASSUME IInv, Failures <= NumRaw
                 PROVE  \A p, q \in 1 .. Len(given) :
                          p < q /\ given[p] # 0 /\ given[q] # 0 => given[p] < given[q]
    BY DEF OrderKept
  <2>2. InOrder(Pending, given)
    BY <2>1 DEF IInv, PendingOrdered
  <2> QED BY <2>2, Zenon DEF InOrder
<1> QED BY <1>1, RingInvariant, PTL

\* Until a call fails each returns the bitstream of the picture it submitted.
THEOREM RingOwnUntilFailure == Spec => []OwnUntilFailure
<1>1. IInv => OwnUntilFailure
  BY DEF IInv
<1> QED BY <1>1, RingInvariant, PTL

\* Every step of the encoder is one that a client may rely on: a picture that a
\* call returns was submitted, and was returned by no call before.
LEMMA StreamStep == IInv /\ [Next]_vars => [Stream!Next]_<<call # 0, given>>
<1>1. SUFFICES ASSUME IInv, [Next]_vars
               PROVE  Stream!Next \/ ((call # 0)' = (call # 0) /\ given' = given)
  BY Zenon
<1>2. TypeOK /\ Fresh /\ next \in Nat /\ Len(given) \in Nat
  BY <1>1, NextFacts, StreamType, LenProperties DEF IInv, StreamOK
<1>3. CASE SubmitUncoded \/ SubmitHalf
  BY <1>3 DEF SubmitUncoded, SubmitHalf, Filling, Stream!Next, Stream!Refuse
<1>4. CASE Submit
  <2>1. call = 0 /\ call' # 0 /\ given' = given
    BY <1>2, <1>4 DEF Submit, Filling
  <2> QED BY <2>1 DEF Stream!Next, Stream!Call
<1>5. CASE Encode
  BY <1>5 DEF Encode
<1>6. CASE Deliver
  <2> DEFINE x == Pending[1]
  <2>1. /\ given' = Append(given, x) /\ x \in 1 .. next /\ 1 \in 1 .. Len(Pending)
        /\ call # 0 /\ call' = 0
    BY <1>2, <1>6, DeliverGives DEF Deliver, Ready, Return
  <2>2. \A k \in 1 .. Len(given) : given[k] # x
    BY <1>2, <2>1 DEF Fresh, NewPictures
  <2>3. Len(given) + 1 = next
    BY <1>2, <2>1 DEF TypeOK
  <2> HIDE DEF x
  <2>4. x \in 0 .. Len(given) + 1
    BY <1>2, <2>1, <2>3
  <2> QED BY <2>1, <2>2, <2>4 DEF Stream!Next, Stream!Return
<1>7. CASE DeliverFails \/ TimesOut
  <2>1. given' = Append(given, 0) /\ call # 0 /\ call' = 0
    BY <1>7 DEF DeliverFails, TimesOut, Ready, Return
  <2>2. 0 \in 0 .. Len(given) + 1
    BY <1>2
  <2> QED BY <2>1, <2>2 DEF Stream!Next, Stream!Return
<1>8. CASE Recreate
  BY <1>8 DEF Recreate, Stream!Next, Stream!Restart
<1>9. CASE UNCHANGED vars
  BY <1>9 DEF vars
<1> QED BY <1>1, <1>3, <1>4, <1>5, <1>6, <1>7, <1>8, <1>9 DEF Next

\* The safety part of ImplementsStream: what the encoder returns is a behaviour
\* of EncodedStream.
THEOREM RingStream == Spec => Stream!Init /\ [][Stream!Next]_<<call # 0, given>>
<1>1. Init => Stream!Init
  BY DEF Init, Stream!Init
<1>2. IInv /\ [Next]_vars => [Stream!Next]_<<call # 0, given>>
  BY StreamStep
<1> QED BY <1>1, <1>2, RingInvariant, PTL DEF Spec
===============================================================================
