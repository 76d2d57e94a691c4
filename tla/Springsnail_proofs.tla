------------------------- MODULE Springsnail_proofs -------------------------
(***************************************************************************)
(* springsnail, for any number of children, connections, clients, bytes    *)
(* and crashes: what MCSpringsnail checks on small instances.              *)
(***************************************************************************)
EXTENDS MCSpringsnail, SequenceTheorems, FiniteSetTheorems, WellFoundedInduction, TLAPS

-----------------------------------------------------------------------------
(* The relay: the bytes of one direction are consecutive numbers through all the   *)
(* places they pass, the receiver's g, the send queue o, the session's buffer b    *)
(* from its write index w, and the receive queue q.                                *)

Delivered(g, o, n) ==
  /\ \A k \in 1 .. Len(g) : g[k] = k
  /\ \A k \in 1 .. Len(o) : o[k] = Len(g) + k
  /\ Len(g) + Len(o) <= n

Ordered(g, o, b, w, q, n) ==
  /\ Delivered(g, o, n)
  /\ \A k \in 1 .. Len(b) : k > w => b[k] = Len(g) + Len(o) + k - w
  /\ \A k \in 1 .. Len(q) : q[k] = Len(g) + Len(o) + Len(b) - w + k
  /\ n = Len(g) + Len(o) + Len(b) - w + Len(q)

LEMMA FirstN ==
  ASSUME NEW q \in Seq(Bytes), NEW k \in 0 .. Len(q)
  PROVE  /\ SubSeq(q, 1, k) \in Seq(Bytes) /\ Len(SubSeq(q, 1, k)) = k
         /\ \A j \in 1 .. k : SubSeq(q, 1, k)[j] = q[j]
<1>1. k \in Int /\ \A j \in 1 .. k : q[j] \in Bytes
  OBVIOUS
<1> QED
  BY <1>1, SubSeqProperties

LEMMA Dropped ==
  ASSUME NEW q \in Seq(Bytes), NEW k \in 0 .. Len(q)
  PROVE  /\ Drop(q, k) \in Seq(Bytes) /\ Len(Drop(q, k)) = Len(q) - k
         /\ \A j \in 1 .. Len(q) - k : Drop(q, k)[j] = q[k + j]
<1>1. \A j \in k + 1 .. Len(q) : q[j] \in Bytes
  OBVIOUS
<1>2. /\ SubSeq(q, k + 1, Len(q)) \in Seq(Bytes)
      /\ Len(SubSeq(q, k + 1, Len(q))) = IF k + 1 <= Len(q) THEN Len(q) - (k + 1) + 1 ELSE 0
      /\ \A j \in 1 .. Len(q) - (k + 1) + 1 : SubSeq(q, k + 1, Len(q))[j] = q[(k + 1) + j - 1]
  BY <1>1, SubSeqProperties
<1> QED
  BY <1>2 DEF Drop

LEMMA ReadInOrders ==
  ASSUME NEW g \in Seq(Bytes), NEW o \in Seq(Bytes), NEW b \in Seq(Bytes), NEW q \in Seq(Bytes),
         NEW w \in 0 .. Len(b), NEW n \in Nat, Ordered(g, o, b, w, q, n), NEW k \in 0 .. Len(q)
  PROVE  /\ b \o SubSeq(q, 1, k) \in Seq(Bytes) /\ Len(b \o SubSeq(q, 1, k)) = Len(b) + k
         /\ Drop(q, k) \in Seq(Bytes)
         /\ Ordered(g, o, b \o SubSeq(q, 1, k), w, Drop(q, k), n)
<1> DEFINE h == SubSeq(q, 1, k)
           c == b \o h
           d == Drop(q, k)
<1>1. h \in Seq(Bytes) /\ Len(h) = k /\ \A j \in 1 .. k : h[j] = q[j]
  BY FirstN
<1>2. d \in Seq(Bytes) /\ Len(d) = Len(q) - k /\ \A j \in 1 .. Len(q) - k : d[j] = q[k + j]
  BY Dropped
<1> HIDE DEF h, d
<1>3. /\ c \in Seq(Bytes) /\ Len(c) = Len(b) + k
      /\ \A j \in 1 .. Len(b) + k : c[j] = IF j <= Len(b) THEN b[j] ELSE h[j - Len(b)]
  BY <1>1, ConcatProperties
<1> HIDE DEF c
<1>4. /\ Len(g) \in Nat /\ Len(o) \in Nat /\ Len(b) \in Nat /\ Len(q) \in Nat /\ k \in Nat /\ w \in Nat
      /\ w <= Len(b) /\ k <= Len(q)
  OBVIOUS
<1>5. ASSUME NEW j \in 1 .. Len(c), j > w PROVE c[j] = Len(g) + Len(o) + j - w
  <2>1. CASE j <= Len(b)
    <3>1. j \in 1 .. Len(b) /\ j \in 1 .. Len(b) + k
      BY <1>3, <1>4, <2>1
    <3>2. c[j] = b[j]
      BY <1>3, <2>1, <3>1
    <3>3. b[j] = Len(g) + Len(o) + j - w
      BY <1>5, <3>1 DEF Ordered
    <3> QED
      BY <3>2, <3>3
  <2>2. CASE j > Len(b)
    <3>1. /\ j - Len(b) \in 1 .. k /\ j - Len(b) \in 1 .. Len(q)
          /\ j \in 1 .. Len(b) + k /\ ~(j <= Len(b))
      BY <1>3, <1>4, <2>2
    <3>2. c[j] = q[j - Len(b)]
      BY <1>1, <1>3, <3>1
    <3>3. q[j - Len(b)] = Len(g) + Len(o) + Len(b) - w + (j - Len(b))
      BY <3>1 DEF Ordered
    <3> QED
      BY <1>3, <1>4, <3>2, <3>3
  <2> QED
    BY <1>3, <1>4, <2>1, <2>2
<1>6. ASSUME NEW j \in 1 .. Len(d) PROVE d[j] = Len(g) + Len(o) + Len(c) - w + j
  <2>1. k + j \in 1 .. Len(q) /\ j \in 1 .. Len(q) - k
    BY <1>2, <1>4
  <2>2. q[k + j] = Len(g) + Len(o) + Len(b) - w + (k + j)
    BY <2>1 DEF Ordered
  <2> QED
    BY <1>2, <1>3, <1>4, <2>1, <2>2
<1>7. n = Len(g) + Len(o) + Len(c) - w + Len(d)
  BY <1>2, <1>3, <1>4 DEF Ordered
<1>8. Ordered(g, o, c, w, d, n)
  BY <1>5, <1>6, <1>7 DEF Ordered
<1> QED
  BY <1>2, <1>3, <1>8 DEF c, d, h

\* A buffer that has been written out to its end is as good as an empty one.
LEMMA EmptiedOrders ==
  ASSUME NEW g \in Seq(Bytes), NEW o \in Seq(Bytes), NEW b \in Seq(Bytes), NEW q \in Seq(Bytes),
         NEW n \in Nat, Ordered(g, o, b, Len(b), q, n)
  PROVE  Ordered(g, o, <<>>, 0, q, n)
<1>1. /\ Len(g) \in Nat /\ Len(o) \in Nat /\ Len(b) \in Nat /\ Len(q) \in Nat
      /\ Len(g) + Len(o) \in Nat
  OBVIOUS
<1>2. Len(<<>>) = 0
  OBVIOUS
<1>3. ASSUME NEW i \in Nat, NEW l \in Nat PROVE i + l - l = i /\ i + 0 - 0 = i
  OBVIOUS
<1>4. /\ Len(g) + Len(o) + Len(b) - Len(b) = Len(g) + Len(o)
      /\ Len(g) + Len(o) + 0 - 0 = Len(g) + Len(o)
  BY <1>1, <1>3
<1>5. \A j \in 1 .. Len(q) : q[j] = Len(g) + Len(o) + 0 - 0 + j
  BY <1>4 DEF Ordered
<1>6. n = Len(g) + Len(o) + 0 - 0 + Len(q)
  BY <1>4 DEF Ordered
<1> QED
  BY <1>2, <1>5, <1>6 DEF Ordered

LEMMA WriteOutOrders ==
  ASSUME NEW g \in Seq(Bytes), NEW o \in Seq(Bytes), NEW b \in Seq(Bytes), NEW q \in Seq(Bytes),
         NEW w \in 0 .. Len(b), NEW n \in Nat, Ordered(g, o, b, w, q, n), NEW k \in 0 .. Len(b) - w
  PROVE  LET p == o \o SubSeq(b, w + 1, w + k)
         IN /\ p \in Seq(Bytes) /\ Len(p) = Len(o) + k
            /\ Ordered(g, p, b, w + k, q, n)
            /\ w + k = Len(b) => Ordered(g, p, <<>>, 0, q, n)
<1> DEFINE h == SubSeq(b, w + 1, w + k)
           p == o \o h
<1>1. /\ h \in Seq(Bytes) /\ Len(h) = k
      /\ \A j \in 1 .. k : h[j] = b[w + j]
  <2>1. \A j \in w + 1 .. w + k : b[j] \in Bytes
    OBVIOUS
  <2>2. /\ h \in Seq(Bytes)
        /\ Len(h) = IF w + 1 <= w + k THEN (w + k) - (w + 1) + 1 ELSE 0
        /\ \A j \in 1 .. (w + k) - (w + 1) + 1 : h[j] = b[(w + 1) + j - 1]
    BY <2>1, SubSeqProperties
  <2>3. k \in Nat /\ w \in Nat
    OBVIOUS
  <2> HIDE DEF h
  <2>4. Len(h) = k
    BY <2>2, <2>3
  <2>5. ASSUME NEW j \in 1 .. k PROVE h[j] = b[w + j]
    <3>1. j \in 1 .. (w + k) - (w + 1) + 1 /\ (w + 1) + j - 1 = w + j
      BY <2>3
    <3> QED
      BY <2>2, <3>1
  <2> QED
    BY <2>2, <2>4, <2>5
<1> HIDE DEF h
<1>2. /\ p \in Seq(Bytes) /\ Len(p) = Len(o) + k
      /\ \A j \in 1 .. Len(o) + k : p[j] = IF j <= Len(o) THEN o[j] ELSE h[j - Len(o)]
  BY <1>1, ConcatProperties
<1> HIDE DEF p
<1>3. /\ Len(g) \in Nat /\ Len(o) \in Nat /\ Len(b) \in Nat /\ Len(q) \in Nat /\ k \in Nat /\ w \in Nat
      /\ w + k <= Len(b)
  OBVIOUS
<1>4. ASSUME NEW j \in 1 .. Len(p) PROVE p[j] = Len(g) + j
  <2>1. CASE j <= Len(o)
    <3>1. j \in 1 .. Len(o) /\ j \in 1 .. Len(o) + k
      BY <1>2, <1>3, <2>1
    <3>2. p[j] = o[j]
      BY <1>2, <2>1, <3>1
    <3> QED
      BY <3>1, <3>2 DEF Ordered, Delivered
  <2>2. CASE j > Len(o)
    <3>1. /\ j - Len(o) \in 1 .. k /\ w + (j - Len(o)) \in 1 .. Len(b) /\ w + (j - Len(o)) > w
          /\ j \in 1 .. Len(o) + k /\ ~(j <= Len(o))
      BY <1>2, <1>3, <2>2
    <3>2. p[j] = b[w + (j - Len(o))]
      BY <1>1, <1>2, <3>1
    <3>3. b[w + (j - Len(o))] = Len(g) + Len(o) + (w + (j - Len(o))) - w
      BY <3>1 DEF Ordered
    <3> QED
      BY <1>2, <1>3, <3>2, <3>3
  <2> QED
    BY <1>2, <1>3, <2>1, <2>2
<1>5. Delivered(g, p, n)
  BY <1>2, <1>3, <1>4 DEF Ordered, Delivered
<1>6. ASSUME NEW j \in 1 .. Len(b), j > w + k PROVE b[j] = Len(g) + Len(p) + j - (w + k)
  <2>1. b[j] = Len(g) + Len(o) + j - w
    BY <1>3, <1>6 DEF Ordered
  <2> QED
    BY <1>2, <1>3, <2>1
<1>7. ASSUME NEW j \in 1 .. Len(q) PROVE q[j] = Len(g) + Len(p) + Len(b) - (w + k) + j
  <2>1. q[j] = Len(g) + Len(o) + Len(b) - w + j
    BY <1>7 DEF Ordered
  <2> QED
    BY <1>2, <1>3, <2>1
<1>8. n = Len(g) + Len(p) + Len(b) - (w + k) + Len(q)
  BY <1>2, <1>3 DEF Ordered
<1>9. Ordered(g, p, b, w + k, q, n)
  BY <1>5, <1>6, <1>7, <1>8 DEF Ordered
<1>10. w + k = Len(b) => Ordered(g, p, <<>>, 0, q, n)
  <2> SUFFICES ASSUME w + k = Len(b) PROVE Ordered(g, p, <<>>, 0, q, n)
    OBVIOUS
  <2> QED
    BY <1>2, <1>9, EmptiedOrders
<1> QED
  BY <1>2, <1>9, <1>10 DEF p, h

LEMMA ReceiveDelivers ==
  ASSUME NEW g \in Seq(Bytes), NEW o \in Seq(Bytes), NEW n \in Nat, Delivered(g, o, n), o # <<>>
  PROVE  /\ Append(g, Head(o)) \in Seq(Bytes) /\ Tail(o) \in Seq(Bytes)
         /\ Len(Append(g, Head(o))) = Len(g) + 1 /\ Len(Tail(o)) = Len(o) - 1
         /\ Delivered(Append(g, Head(o)), Tail(o), n)
<1>1. Head(o) \in Bytes /\ Head(o) = o[1] /\ Len(o) >= 1
  OBVIOUS
<1>2. /\ Append(g, Head(o)) \in Seq(Bytes) /\ Len(Append(g, Head(o))) = Len(g) + 1
      /\ \A j \in 1 .. Len(g) : Append(g, Head(o))[j] = g[j]
      /\ Append(g, Head(o))[Len(g) + 1] = Head(o)
  BY <1>1, AppendProperties
<1>3. Tail(o) \in Seq(Bytes) /\ Len(Tail(o)) = Len(o) - 1 /\ \A j \in 1 .. Len(Tail(o)) : Tail(o)[j] = o[j + 1]
  BY HeadTailProperties
<1> DEFINE a == Append(g, Head(o))
           t == Tail(o)
<1> HIDE DEF a, t
<1>4. /\ a \in Seq(Bytes) /\ Len(a) = Len(g) + 1
      /\ \A j \in 1 .. Len(g) : a[j] = g[j]
      /\ a[Len(g) + 1] = o[1]
  BY <1>1, <1>2 DEF a
<1>5. t \in Seq(Bytes) /\ Len(t) = Len(o) - 1 /\ \A j \in 1 .. Len(t) : t[j] = o[j + 1]
  BY <1>3 DEF t
<1>6. Len(g) \in Nat /\ Len(o) \in Nat
  OBVIOUS
<1>7. o[1] = Len(g) + 1
  BY <1>1, <1>6 DEF Delivered
<1>8. \A j \in 1 .. Len(a) : a[j] = j
  BY <1>4, <1>6, <1>7 DEF Delivered
<1>9. ASSUME NEW j \in 1 .. Len(t) PROVE t[j] = Len(a) + j
  <2>1. j + 1 \in 1 .. Len(o)
    BY <1>5, <1>6
  <2>2. o[j + 1] = Len(g) + (j + 1)
    BY <2>1 DEF Delivered
  <2> QED
    BY <1>4, <1>5, <1>6, <2>2
<1>10. Len(a) + Len(t) <= n
  BY <1>4, <1>5, <1>6 DEF Delivered
<1> QED
  BY <1>4, <1>5, <1>8, <1>9, <1>10 DEF Delivered, a, t

LEMMA ReceiveOrders ==
  ASSUME NEW g \in Seq(Bytes), NEW o \in Seq(Bytes), NEW b \in Seq(Bytes), NEW q \in Seq(Bytes),
         NEW w \in 0 .. Len(b), NEW n \in Nat, Ordered(g, o, b, w, q, n), o # <<>>
  PROVE  Ordered(Append(g, Head(o)), Tail(o), b, w, q, n)
<1> DEFINE a == Append(g, Head(o))
           t == Tail(o)
<1>1. Delivered(a, t, n) /\ Len(a) = Len(g) + 1 /\ Len(t) = Len(o) - 1
  BY ReceiveDelivers DEF Ordered
<1> HIDE DEF a, t
<1>2. Len(g) \in Nat /\ Len(o) \in Nat /\ Len(a) + Len(t) = Len(g) + Len(o)
  BY <1>1
<1>3. Ordered(a, t, b, w, q, n)
  BY <1>1, <1>2 DEF Ordered
<1> QED
  BY <1>3 DEF a, t

LEMMA SendOrders ==
  ASSUME NEW g \in Seq(Bytes), NEW o \in Seq(Bytes), NEW b \in Seq(Bytes), NEW q \in Seq(Bytes),
         NEW w \in 0 .. Len(b), NEW n \in Nat, Ordered(g, o, b, w, q, n)
  PROVE  /\ Append(q, n + 1) \in Seq(Bytes)
         /\ Ordered(g, o, b, w, Append(q, n + 1), n + 1)
<1> DEFINE r == Append(q, n + 1)
<1>1. n + 1 \in Bytes
  BY DEF Bytes
<1>2. /\ r \in Seq(Bytes) /\ Len(r) = Len(q) + 1
      /\ \A j \in 1 .. Len(q) : r[j] = q[j]
      /\ r[Len(q) + 1] = n + 1
  BY <1>1, AppendProperties
<1> HIDE DEF r
<1>3. /\ Len(g) \in Nat /\ Len(o) \in Nat /\ Len(b) \in Nat /\ Len(q) \in Nat /\ w \in Nat
  OBVIOUS
<1>4. ASSUME NEW j \in 1 .. Len(r) PROVE r[j] = Len(g) + Len(o) + Len(b) - w + j
  <2>1. CASE j \in 1 .. Len(q)
    BY <1>2, <2>1 DEF Ordered
  <2>2. CASE j = Len(q) + 1
    BY <1>2, <1>3, <2>2 DEF Ordered
  <2> QED
    BY <1>2, <1>3, <2>1, <2>2
<1>5. n + 1 = Len(g) + Len(o) + Len(b) - w + Len(r)
  BY <1>2, <1>3 DEF Ordered
<1>6. Delivered(g, o, n + 1)
  BY <1>3 DEF Ordered, Delivered
<1>7. Ordered(g, o, b, w, r, n + 1)
  BY <1>4, <1>5, <1>6 DEF Ordered
<1> QED
  BY <1>2, <1>7 DEF r

LEMMA DeliveredStream ==
  ASSUME NEW g \in Seq(Bytes), NEW o \in Seq(Bytes), NEW n \in Nat, Delivered(g, o, n)
  PROVE  /\ g \o o \in Seq(Bytes) /\ Len(g \o o) = Len(g) + Len(o) /\ Len(g \o o) <= n
         /\ g \o o = Stream(Len(g \o o))
<1> DEFINE r == g \o o
<1>1. /\ r \in Seq(Bytes) /\ Len(r) = Len(g) + Len(o)
      /\ \A j \in 1 .. Len(g) + Len(o) : r[j] = IF j <= Len(g) THEN g[j] ELSE o[j - Len(g)]
  BY ConcatProperties
<1> HIDE DEF r
<1>2. Len(g) \in Nat /\ Len(o) \in Nat /\ Len(r) \in Nat
  BY <1>1
<1>3. ASSUME NEW j \in 1 .. Len(r) PROVE r[j] = j
  <2>1. j \in 1 .. Len(g) + Len(o)
    BY <1>1
  <2>2. CASE j <= Len(g)
    BY <1>1, <1>2, <2>1, <2>2 DEF Delivered
  <2>3. CASE ~(j <= Len(g))
    <3>1. j - Len(g) \in 1 .. Len(o) /\ Len(g) + (j - Len(g)) = j
      BY <1>2, <2>1, <2>3
    <3> QED
      BY <1>1, <2>1, <2>3, <3>1 DEF Delivered
  <2> QED
    BY <2>2, <2>3
<1>4. r = Stream(Len(r))
  BY <1>1, <1>2, <1>3 DEF Stream
<1> QED
  BY <1>1, <1>4 DEF r, Delivered

LEMMA OrderedStream ==
  ASSUME NEW g \in Seq(Bytes), NEW o \in Seq(Bytes), NEW b \in Seq(Bytes), NEW q \in Seq(Bytes),
         NEW w \in 0 .. Len(b), NEW n \in Nat, Ordered(g, o, b, w, q, n)
  PROVE  g \o o \o Drop(b, w) \o q = Stream(n)
<1> DEFINE r == g \o o
           d == Drop(b, w)
           x == r \o d
           y == x \o q
<1>1. r \in Seq(Bytes) /\ Len(r) = Len(g) + Len(o) /\ r = Stream(Len(r))
  BY DeliveredStream DEF Ordered
<1>2. d \in Seq(Bytes) /\ Len(d) = Len(b) - w /\ \A j \in 1 .. Len(b) - w : d[j] = b[w + j]
  BY Dropped
<1> HIDE DEF r, d
<1>3. /\ x \in Seq(Bytes) /\ Len(x) = Len(r) + Len(d)
      /\ \A j \in 1 .. Len(r) + Len(d) : x[j] = IF j <= Len(r) THEN r[j] ELSE d[j - Len(r)]
  <2>1. r \in Seq(Bytes) /\ d \in Seq(Bytes)
    BY <1>1, <1>2
  <2> QED
    BY <2>1, ConcatProperties
<1> HIDE DEF x
<1>4. /\ y \in Seq(Bytes) /\ Len(y) = Len(x) + Len(q)
      /\ \A j \in 1 .. Len(x) + Len(q) : y[j] = IF j <= Len(x) THEN x[j] ELSE q[j - Len(x)]
  <2>1. x \in Seq(Bytes) /\ q \in Seq(Bytes)
    BY <1>3
  <2> QED
    BY <2>1, ConcatProperties
<1> HIDE DEF y
<1>5. /\ Len(g) \in Nat /\ Len(o) \in Nat /\ Len(b) \in Nat /\ Len(q) \in Nat /\ w \in Nat /\ w <= Len(b)
      /\ Len(r) \in Nat /\ Len(d) \in Nat /\ Len(x) \in Nat
  BY <1>1, <1>2, <1>3
<1>6. \A j \in 1 .. Len(r) : r[j] = j
  BY <1>1, <1>5 DEF Stream
<1>7. ASSUME NEW j \in 1 .. Len(x) PROVE x[j] = j
  <2>1. j \in 1 .. Len(r) + Len(d)
    BY <1>3
  <2>2. CASE j <= Len(r)
    <3>1. j \in 1 .. Len(r)
      BY <1>5, <2>1, <2>2
    <3> QED
      BY <1>3, <1>6, <2>1, <2>2, <3>1
  <2>3. CASE ~(j <= Len(r))
    <3>1. /\ j - Len(r) \in 1 .. Len(b) - w /\ w + (j - Len(r)) \in 1 .. Len(b) /\ w + (j - Len(r)) > w
      BY <1>2, <1>5, <2>1, <2>3
    <3>2. x[j] = b[w + (j - Len(r))]
      BY <1>2, <1>3, <2>1, <2>3, <3>1
    <3>3. b[w + (j - Len(r))] = Len(g) + Len(o) + (w + (j - Len(r))) - w
      BY <3>1 DEF Ordered
    <3>4. Len(g) + Len(o) + (w + (j - Len(r))) - w = j
      BY <1>1, <1>5, <2>1
    <3> QED
      BY <3>2, <3>3, <3>4
  <2> QED
    BY <2>2, <2>3
<1>8. Len(x) = Len(g) + Len(o) + Len(b) - w
  BY <1>1, <1>2, <1>3, <1>5
<1>9. ASSUME NEW j \in 1 .. Len(y) PROVE y[j] = j
  <2>1. j \in 1 .. Len(x) + Len(q)
    BY <1>4
  <2>2. CASE j <= Len(x)
    BY <1>4, <1>5, <1>7, <2>1, <2>2
  <2>3. CASE ~(j <= Len(x))
    <3>1. j - Len(x) \in 1 .. Len(q)
      BY <1>5, <2>1, <2>3
    <3>2. y[j] = q[j - Len(x)]
      BY <1>4, <2>1, <2>3
    <3>3. q[j - Len(x)] = Len(x) + (j - Len(x))
      BY <1>8, <3>1 DEF Ordered
    <3>4. Len(x) + (j - Len(x)) = j
      BY <1>5, <2>1
    <3> QED
      BY <3>2, <3>3, <3>4
  <2> QED
    BY <2>2, <2>3
<1>10. Len(y) = n
  BY <1>4, <1>8 DEF Ordered
<1>11. y = Stream(n)
  BY <1>4, <1>9, <1>10 DEF Stream
<1> QED
  BY <1>11 DEF y, x, r, d

-----------------------------------------------------------------------------
(* The invariant of the relay. *)

DataTyped ==
  /\ talk \in TALKS
  /\ sent \in [Side -> Nat]
  /\ got \in [Side -> Seq(Bytes)]
  /\ in \in [Side -> Seq(Bytes)]
  /\ out \in [Side -> Seq(Bytes)] /\ \A s \in Side : Len(out[s]) <= SOCK
  /\ eof \in [Side -> BOOLEAN]
  /\ buf \in [Side -> Seq(Bytes)] /\ \A s \in Side : Len(buf[s]) <= BUF_SIZE
  /\ written \in [Side -> Nat] /\ \A s \in Side : written[s] <= Len(buf[s])

ControlTyped ==
  /\ m_srv_closed \in BOOLEAN
  /\ open \in BOOLEAN
  /\ interest \in [Side -> {"IN", "OUT"}]
  /\ edge \in [Side -> BOOLEAN]
  /\ batch \in Seq(Side \X {"IN", "OUT"})

InOrder(s) == Ordered(got[Peer(s)], out[Peer(s)], buf[s], written[s], in[s], sent[s])

Flow ==
  \A s \in Side : Delivered(got[Peer(s)], out[Peer(s)], sent[s]) /\ (open => InOrder(s))

RelayInv == DataTyped /\ ControlTyped /\ Flow

LEMMA PeerSide == \A s \in Side : Peer(s) \in Side /\ Peer(Peer(s)) = s /\ Peer(s) # s
BY DEF Side, Peer

LEMMA DataTypes ==
  ASSUME DataTyped, NEW s \in Side
  PROVE  /\ got[Peer(s)] \in Seq(Bytes) /\ out[Peer(s)] \in Seq(Bytes) /\ buf[s] \in Seq(Bytes)
         /\ in[s] \in Seq(Bytes) /\ written[s] \in 0 .. Len(buf[s]) /\ sent[s] \in Nat
BY PeerSide DEF DataTyped

LEMMA LeastFits ==
  ASSUME NEW a \in Nat, NEW b \in Nat, NEW c \in Nat, b <= a
  PROVE  Least(a - b, c) \in 0 .. c /\ b + Least(a - b, c) <= a
BY DEF Least

LEMMA ReadInKeeps ==
  ASSUME DataTyped, \A t \in Side : InOrder(t), NEW s \in Side, ReadIn(s)
  PROVE  DataTyped' /\ \A t \in Side : InOrder(t)'
<1> DEFINE k == Least(BUF_SIZE - Len(buf[s]), Len(in[s]))
<1>1. k \in 0 .. Len(in[s]) /\ Len(buf[s]) + k <= BUF_SIZE
  <2>1. buf[s] \in Seq(Bytes) /\ in[s] \in Seq(Bytes) /\ Len(buf[s]) <= BUF_SIZE
    BY DEF DataTyped
  <2>2. BUF_SIZE \in Nat
    BY RelayAssumption
  <2>3. Len(buf[s]) \in Nat /\ Len(in[s]) \in Nat
    BY <2>1
  <2> QED
    BY <2>1, <2>2, <2>3, LeastFits
<1>2. /\ buf' = [buf EXCEPT ![s] = @ \o SubSeq(in[s], 1, k)]
      /\ in' = [in EXCEPT ![s] = Drop(@, k)]
      /\ UNCHANGED <<talk, sent, got, out, eof, written>>
  BY DEF ReadIn
<1> HIDE DEF k
<1> DEFINE c == buf[s] \o SubSeq(in[s], 1, k)
           d == Drop(in[s], k)
<1>3. /\ c \in Seq(Bytes) /\ Len(c) = Len(buf[s]) + k /\ d \in Seq(Bytes)
      /\ Ordered(got[Peer(s)], out[Peer(s)], c, written[s], d, sent[s])
  <2>1. /\ got[Peer(s)] \in Seq(Bytes) /\ out[Peer(s)] \in Seq(Bytes) /\ buf[s] \in Seq(Bytes)
        /\ in[s] \in Seq(Bytes) /\ written[s] \in 0 .. Len(buf[s]) /\ sent[s] \in Nat
    BY DataTypes
  <2>2. Ordered(got[Peer(s)], out[Peer(s)], buf[s], written[s], in[s], sent[s])
    BY DEF InOrder
  <2> DEFINE g == got[Peer(s)]
             o == out[Peer(s)]
             b == buf[s]
             q == in[s]
             w == written[s]
             n == sent[s]
  <2>3. /\ g \in Seq(Bytes) /\ o \in Seq(Bytes) /\ b \in Seq(Bytes) /\ q \in Seq(Bytes)
        /\ w \in 0 .. Len(b) /\ n \in Nat /\ Ordered(g, o, b, w, q, n) /\ k \in 0 .. Len(q)
    BY <1>1, <2>1, <2>2
  <2> HIDE DEF g, o, b, q, w, n
  <2>4. /\ b \o SubSeq(q, 1, k) \in Seq(Bytes) /\ Len(b \o SubSeq(q, 1, k)) = Len(b) + k
        /\ Drop(q, k) \in Seq(Bytes)
        /\ Ordered(g, o, b \o SubSeq(q, 1, k), w, Drop(q, k), n)
    BY <2>3, ReadInOrders
  <2> QED
    BY <2>4 DEF g, o, b, q, w, n
<1>4. buf' = [buf EXCEPT ![s] = c] /\ in' = [in EXCEPT ![s] = d]
  BY <1>2
<1> HIDE DEF c, d
<1>5. DataTyped'
  <2>1. /\ buf' \in [Side -> Seq(Bytes)] /\ in' \in [Side -> Seq(Bytes)]
        /\ \A t \in Side : buf'[t] = IF t = s THEN c ELSE buf[t]
    BY <1>3, <1>4 DEF DataTyped
  <2>2. ASSUME NEW t \in Side PROVE Len(buf'[t]) <= BUF_SIZE /\ written'[t] <= Len(buf'[t])
    <3>1. CASE t = s
      BY <1>1, <1>2, <1>3, <2>1, <3>1 DEF DataTyped
    <3>2. CASE t # s
      BY <1>2, <2>1, <3>2 DEF DataTyped
    <3> QED
      BY <3>1, <3>2
  <2> QED
    BY <1>2, <2>1, <2>2 DEF DataTyped
<1>6. ASSUME NEW t \in Side PROVE InOrder(t)'
  BY <1>2, <1>3, <1>4 DEF InOrder, DataTyped
<1> QED
  BY <1>5, <1>6

LEMMA WriteOutKeeps ==
  ASSUME DataTyped, \A t \in Side : InOrder(t), NEW s \in Side, WriteOut(s)
  PROVE  DataTyped' /\ \A t \in Side : InOrder(t)'
<1> DEFINE p == Peer(s)
           g == got[s]
           o == out[s]
           b == buf[p]
           q == in[p]
           w == written[p]
           n == sent[p]
           k == Least(SOCK - Len(o), Len(b) - w)
           e == o \o SubSeq(b, w + 1, w + k)
<1>1. p \in Side /\ Peer(p) = s /\ p # s
  BY PeerSide
<1>2. /\ g \in Seq(Bytes) /\ o \in Seq(Bytes) /\ b \in Seq(Bytes) /\ q \in Seq(Bytes)
      /\ w \in 0 .. Len(b) /\ n \in Nat /\ Ordered(g, o, b, w, q, n)
  <2>1. Ordered(got[Peer(p)], out[Peer(p)], buf[p], written[p], in[p], sent[p])
    BY <1>1 DEF InOrder
  <2>2. /\ got[Peer(p)] \in Seq(Bytes) /\ out[Peer(p)] \in Seq(Bytes) /\ buf[p] \in Seq(Bytes)
        /\ in[p] \in Seq(Bytes) /\ written[p] \in 0 .. Len(buf[p]) /\ sent[p] \in Nat
    BY <1>1, DataTypes
  <2> QED
    BY <1>1, <2>1, <2>2
<1>3. Len(o) <= SOCK /\ Len(b) <= BUF_SIZE
  BY <1>1 DEF DataTyped
<1>4. /\ out' = [out EXCEPT ![s] = e]
      /\ \/ w + k = Len(b) /\ buf' = [buf EXCEPT ![p] = <<>>] /\ written' = [written EXCEPT ![p] = 0]
         \/ buf' = buf /\ written' = [written EXCEPT ![p] = w + k]
      /\ UNCHANGED <<talk, sent, got, in, eof>>
  BY DEF WriteOut
<1>5. k \in 0 .. Len(b) - w /\ Len(o) + k <= SOCK
  <2>1. SOCK \in Nat
    BY RelayAssumption
  <2>2. Len(o) \in Nat /\ Len(b) - w \in Nat
    BY <1>2
  <2> HIDE DEF o, b, w
  <2> QED
    BY <1>3, <2>1, <2>2, LeastFits
<1> HIDE DEF k
<1>6. /\ e \in Seq(Bytes) /\ Len(e) = Len(o) + k
      /\ Ordered(g, e, b, w + k, q, n)
      /\ w + k = Len(b) => Ordered(g, e, <<>>, 0, q, n)
  <2> HIDE DEF g, o, b, q, w, n
  <2> QED
    BY <1>2, <1>5, WriteOutOrders
<1> HIDE DEF e
<1>7. Len(e) <= SOCK
  BY <1>5, <1>6
<1>8. w + k \in Nat /\ w + k <= Len(b)
  <2>1. Len(b) \in Nat /\ w \in Nat /\ w <= Len(b)
    BY <1>2
  <2> HIDE DEF b, w
  <2> QED
    BY <1>5, <2>1
<1>9. DataTyped'
  <2>1. /\ out' \in [Side -> Seq(Bytes)]
        /\ \A t \in Side : out'[t] = IF t = s THEN e ELSE out[t]
    BY <1>4, <1>6 DEF DataTyped
  <2>2. \A t \in Side : Len(out'[t]) <= SOCK
    BY <1>7, <2>1 DEF DataTyped
  <2>3. CASE w + k = Len(b) /\ buf' = [buf EXCEPT ![p] = <<>>] /\ written' = [written EXCEPT ![p] = 0]
    <3>1. /\ buf' \in [Side -> Seq(Bytes)] /\ written' \in [Side -> Nat]
          /\ \A t \in Side : /\ buf'[t] = IF t = p THEN <<>> ELSE buf[t]
                             /\ written'[t] = IF t = p THEN 0 ELSE written[t]
      <4>1. <<>> \in Seq(Bytes)
        OBVIOUS
      <4> QED
        BY <1>1, <2>3, <4>1 DEF DataTyped
    <3>2. ASSUME NEW t \in Side PROVE Len(buf'[t]) <= BUF_SIZE /\ written'[t] <= Len(buf'[t])
      <4>1. CASE t = p
        <5>1. buf'[t] = <<>> /\ written'[t] = 0
          BY <3>1, <4>1
        <5>2. BUF_SIZE \in Nat /\ Len(<<>>) = 0
          BY RelayAssumption
        <5> QED
          BY <5>1, <5>2
      <4>2. CASE t # p
        BY <3>1, <4>2 DEF DataTyped
      <4> QED
        BY <4>1, <4>2
    <3> QED
      BY <1>4, <2>1, <2>2, <3>1, <3>2 DEF DataTyped
  <2>4. CASE buf' = buf /\ written' = [written EXCEPT ![p] = w + k]
    <3>1. /\ written' \in [Side -> Nat]
          /\ \A t \in Side : written'[t] = IF t = p THEN w + k ELSE written[t]
      BY <1>8, <2>4 DEF DataTyped
    <3>2. ASSUME NEW t \in Side PROVE written'[t] <= Len(buf'[t])
      BY <1>8, <2>4, <3>1 DEF DataTyped
    <3> QED
      BY <1>4, <2>1, <2>2, <2>4, <3>1, <3>2 DEF DataTyped
  <2> QED
    BY <1>4, <2>3, <2>4
<1>10. ASSUME NEW t \in Side PROVE InOrder(t)'
  <2>1. CASE t = p
    <3>1. got'[Peer(t)] = g /\ out'[Peer(t)] = e /\ in'[t] = q /\ sent'[t] = n
      BY <1>1, <1>4, <2>1 DEF DataTyped
    <3>2. Ordered(g, e, buf'[t], written'[t], q, n)
      BY <1>1, <1>4, <1>6, <2>1 DEF DataTyped
    <3> QED
      BY <3>1, <3>2 DEF InOrder
  <2>2. CASE t # p
    <3>1. Peer(t) # s
      BY <1>1, <2>2, PeerSide
    <3>2. /\ got'[Peer(t)] = got[Peer(t)] /\ out'[Peer(t)] = out[Peer(t)] /\ in'[t] = in[t] /\ sent'[t] = sent[t]
          /\ buf'[t] = buf[t] /\ written'[t] = written[t]
      BY <1>4, <2>2, <3>1, PeerSide DEF DataTyped
    <3> QED
      BY <3>2 DEF InOrder
  <2> QED
    BY <2>1, <2>2
<1> QED
  BY <1>9, <1>10

\* What remains to be typed after a step of the loop.
LEMMA ModfdTyped ==
  ASSUME ControlTyped, NEW T \in SUBSET Side, NEW ev \in [T -> {"IN", "OUT"}], Modfd(ev)
  PROVE  interest' \in [Side -> {"IN", "OUT"}] /\ edge' \in [Side -> BOOLEAN]
BY DEF ControlTyped, Modfd

LEMMA EventTyped ==
  ASSUME ControlTyped, NEW s \in Side, NEW type \in {"IN", "OUT"}, Event(s, type)
  PROVE  open /\ batch' \in Seq(Side \X {"IN", "OUT"})
BY DEF ControlTyped, Event

LEMMA FreeTyped ==
  ASSUME ControlTyped, FreeConn
  PROVE  /\ m_srv_closed' \in BOOLEAN /\ open' \in BOOLEAN
         /\ interest' \in [Side -> {"IN", "OUT"}] /\ edge' \in [Side -> BOOLEAN]
BY DEF ControlTyped, FreeConn

LEMMA EventKeeps ==
  ASSUME RelayInv, NEW s \in Side, NEW type \in {"IN", "OUT"}, Event(s, type),
         \/ ReadIn(s) \/ WriteOut(s) \/ UNCHANGED <<world, buf, written>>,
         m_srv_closed' \in BOOLEAN, open' \in BOOLEAN,
         interest' \in [Side -> {"IN", "OUT"}], edge' \in [Side -> BOOLEAN]
  PROVE  RelayInv'
<1>1. DataTyped /\ ControlTyped
  BY DEF RelayInv
<1>2. open /\ batch' \in Seq(Side \X {"IN", "OUT"})
  BY <1>1, EventTyped
<1>3. \A t \in Side : InOrder(t)
  BY <1>2 DEF RelayInv, Flow
<1>4. DataTyped' /\ \A t \in Side : InOrder(t)'
  <2>1. CASE ReadIn(s)
    BY <1>1, <1>3, <2>1, ReadInKeeps
  <2>2. CASE WriteOut(s)
    BY <1>1, <1>3, <2>2, WriteOutKeeps
  <2>3. CASE UNCHANGED <<world, buf, written>>
    BY <1>1, <1>3, <2>3 DEF world, DataTyped, InOrder
  <2> QED
    BY <2>1, <2>2, <2>3
<1>5. ControlTyped'
  BY <1>2 DEF ControlTyped
<1>6. Flow'
  BY <1>4 DEF Flow, InOrder, Ordered
<1> QED
  BY <1>4, <1>5, <1>6 DEF RelayInv

LEMMA RelayStep == RelayInv /\ [Next]_vars => RelayInv'
<1> SUFFICES ASSUME RelayInv, [Next]_vars PROVE RelayInv'
  OBVIOUS
<1> USE DEF Stay, NoModfd
<1>0. DataTyped /\ ControlTyped /\ Flow /\ "clt" \in Side /\ "srv" \in Side
  BY DEF RelayInv, Side
<1>1. CASE EpollWait
  <2>1. batch' \in Seq(Side \X {"IN", "OUT"}) /\ edge' \in [Side -> BOOLEAN]
    <3>1. PICK ready \in SUBSET Side :
            \E order \in [1 .. Cardinality(ready) -> ready] :
              batch' = [k \in DOMAIN order |-> <<order[k], interest[order[k]]>>]
      BY <1>1 DEF EpollWait
    <3>2. PICK order \in [1 .. Cardinality(ready) -> ready] :
            batch' = [k \in DOMAIN order |-> <<order[k], interest[order[k]]>>]
      BY <3>1
    <3>3. Cardinality(ready) \in Nat
      <4>1. IsFiniteSet(Side)
        <5>1. IsFiniteSet({"clt"}) /\ Side = {"clt"} \union {"srv"}
          BY FS_Singleton DEF Side
        <5> QED
          BY <5>1, FS_AddElement
      <4> QED
        BY <4>1, FS_Subset, FS_CardinalityType
    <3>4. batch' \in [1 .. Cardinality(ready) -> Side \X {"IN", "OUT"}]
      BY <1>0, <3>2 DEF ControlTyped
    <3>5. batch' \in Seq(Side \X {"IN", "OUT"})
      BY <3>3, <3>4
    <3> QED
      BY <1>1, <3>5 DEF EpollWait
  <2> QED
    BY <1>0, <1>1, <2>1 DEF EpollWait, RelayInv, DataTyped, ControlTyped, Flow, InOrder, world
<1>2. CASE ReadClt
  <2>1. Event("clt", "IN") /\ ReadIn("clt")
    BY <1>2 DEF ReadClt
  <2>2. \/ FreeConn
        \/ Modfd([s \in {"srv"} |-> "OUT"]) /\ UNCHANGED <<open, m_srv_closed>>
        \/ UNCHANGED <<interest, edge, open, m_srv_closed>>
    <3>1. ReadResult("clt") \in {"OK", "BUFFER_FULL", "CLOSED", "NOTHING"}
      BY DEF ReadResult
    <3>2. CASE ReadResult("clt") \in {"OK", "BUFFER_FULL"}
      BY <1>2, <3>2 DEF ReadClt, UnlessSrvClosed
    <3>3. CASE ReadResult("clt") = "CLOSED"
      BY <1>2, <3>3 DEF ReadClt, UnlessSrvClosed
    <3>4. CASE ReadResult("clt") = "NOTHING"
      BY <1>2, <3>4 DEF ReadClt, UnlessSrvClosed
    <3> QED
      BY <3>1, <3>2, <3>3, <3>4
  <2>3. CASE FreeConn
    BY <1>0, <2>1, <2>3, FreeTyped, EventKeeps
  <2>4. CASE Modfd([s \in {"srv"} |-> "OUT"]) /\ UNCHANGED <<open, m_srv_closed>>
    <3>1. interest' \in [Side -> {"IN", "OUT"}] /\ edge' \in [Side -> BOOLEAN]
      BY <1>0, <2>4, ModfdTyped
    <3> QED
      BY <1>0, <2>1, <2>4, <3>1, EventKeeps DEF ControlTyped
  <2>5. CASE UNCHANGED <<interest, edge, open, m_srv_closed>>
    BY <1>0, <2>1, <2>5, EventKeeps DEF ControlTyped
  <2> QED
    BY <2>2, <2>3, <2>4, <2>5
<1>3. CASE WriteClt
  <2>1. Event("clt", "OUT") /\ WriteOut("clt")
    BY <1>3 DEF WriteClt
  <2>2. \/ FreeConn
        \/ Modfd([s \in {"clt"} |-> "OUT"]) /\ UNCHANGED <<open, m_srv_closed>>
        \/ Modfd([s \in Side |-> "IN"]) /\ UNCHANGED <<open, m_srv_closed>>
    BY <1>3 DEF WriteClt, UnlessSrvClosed
  <2>3. CASE FreeConn
    BY <1>0, <2>1, <2>3, FreeTyped, EventKeeps
  <2>4. CASE /\ UNCHANGED <<open, m_srv_closed>>
             /\ Modfd([s \in {"clt"} |-> "OUT"]) \/ Modfd([s \in Side |-> "IN"])
    <3>1. interest' \in [Side -> {"IN", "OUT"}] /\ edge' \in [Side -> BOOLEAN]
      BY <1>0, <2>4, ModfdTyped
    <3> QED
      BY <1>0, <2>1, <2>4, <3>1, EventKeeps DEF ControlTyped
  <2> QED
    BY <2>2, <2>3, <2>4
<1>4. CASE WriteCltFails
  <2>1. Event("clt", "OUT") /\ UNCHANGED <<world, buf, written>> /\ FreeConn
    BY <1>4 DEF WriteCltFails, WriteFails
  <2> QED
    BY <1>0, <2>1, FreeTyped, EventKeeps
<1>5. CASE ReadSrv
  <2>1. Event("srv", "IN") /\ ReadIn("srv")
    BY <1>5 DEF ReadSrv
  <2>2. /\ UNCHANGED open /\ m_srv_closed' \in {m_srv_closed, TRUE}
        /\ Modfd([s \in {"clt"} |-> "OUT"]) \/ UNCHANGED <<interest, edge>>
    <3>1. ReadResult("srv") \in {"OK", "BUFFER_FULL", "CLOSED", "NOTHING"}
      BY DEF ReadResult
    <3>2. CASE ReadResult("srv") \in {"OK", "BUFFER_FULL"}
      BY <1>5, <3>2 DEF ReadSrv
    <3>3. CASE ReadResult("srv") = "CLOSED"
      BY <1>5, <3>3 DEF ReadSrv, SrvClosed
    <3>4. CASE ReadResult("srv") = "NOTHING"
      BY <1>5, <3>4 DEF ReadSrv
    <3> QED
      BY <3>1, <3>2, <3>3, <3>4
  <2>3. interest' \in [Side -> {"IN", "OUT"}] /\ edge' \in [Side -> BOOLEAN]
    <3>1. CASE Modfd([s \in {"clt"} |-> "OUT"])
      BY <1>0, <3>1, ModfdTyped
    <3>2. CASE UNCHANGED <<interest, edge>>
      BY <1>0, <3>2 DEF ControlTyped
    <3> QED
      BY <2>2, <3>1, <3>2
  <2>4. open' \in BOOLEAN /\ m_srv_closed' \in BOOLEAN
    BY <1>0, <2>2 DEF ControlTyped
  <2> QED
    BY <1>0, <2>1, <2>3, <2>4, EventKeeps
<1>6. CASE WriteSrv
  <2>1. Event("srv", "OUT") /\ WriteOut("srv") /\ UNCHANGED <<open, m_srv_closed>>
    BY <1>6 DEF WriteSrv
  <2>2. Modfd([s \in {"srv"} |-> "OUT"]) \/ Modfd([s \in Side |-> "IN"])
    BY <1>6 DEF WriteSrv
  <2>3. interest' \in [Side -> {"IN", "OUT"}] /\ edge' \in [Side -> BOOLEAN]
    BY <1>0, <2>2, ModfdTyped
  <2> QED
    BY <1>0, <2>1, <2>3, EventKeeps DEF ControlTyped
<1>7. CASE WriteSrvFails
  <2>1. /\ Event("srv", "OUT") /\ UNCHANGED <<world, buf, written>> /\ UNCHANGED open /\ m_srv_closed' = TRUE
        /\ Modfd([s \in {"clt"} |-> "OUT"])
    BY <1>7 DEF WriteSrvFails, WriteFails, SrvClosed
  <2>2. interest' \in [Side -> {"IN", "OUT"}] /\ edge' \in [Side -> BOOLEAN]
    BY <1>0, <2>1, ModfdTyped
  <2> QED
    BY <1>0, <2>1, <2>2, EventKeeps DEF ControlTyped
<1>8. ASSUME NEW s \in Side, PeerSends(s) PROVE RelayInv'
  <2> DEFINE g == got[Peer(s)]
             o == out[Peer(s)]
             b == buf[s]
             q == in[s]
             w == written[s]
             n == sent[s]
             r == Append(q, n + 1)
  <2>1. InOrder(s) /\ open
    BY <1>0, <1>8 DEF Flow, PeerSends
  <2>2. /\ g \in Seq(Bytes) /\ o \in Seq(Bytes) /\ b \in Seq(Bytes) /\ q \in Seq(Bytes)
        /\ w \in 0 .. Len(b) /\ n \in Nat /\ Ordered(g, o, b, w, q, n)
    BY <1>0, <2>1, DataTypes DEF InOrder
  <2>3. r \in Seq(Bytes) /\ Ordered(g, o, b, w, r, n + 1)
    <3> HIDE DEF g, o, b, q, w, n
    <3> QED
      BY <2>2, SendOrders
  <2>4. /\ sent' = [sent EXCEPT ![s] = n + 1] /\ in' = [in EXCEPT ![s] = r]
        /\ edge' = [edge EXCEPT ![s] = @ \/ interest[s] = "IN"]
        /\ UNCHANGED <<talk, got, out, eof, buf, written, m_srv_closed, open, interest, batch>>
    BY <1>8 DEF PeerSends
  <2>5. n + 1 \in Nat
    BY <2>2
  <2> HIDE DEF n, r
  <2>6. DataTyped' /\ ControlTyped'
    BY <1>0, <2>3, <2>4, <2>5 DEF DataTyped, ControlTyped
  <2>7. ASSUME NEW t \in Side PROVE InOrder(t)'
    <3>1. InOrder(t)
      BY <1>0, <2>1 DEF Flow
    <3>2. CASE t = s
      <4>1. sent'[t] = n + 1 /\ in'[t] = r
        BY <1>0, <2>4, <3>2 DEF DataTyped
      <4> QED
        BY <2>3, <2>4, <3>2, <4>1 DEF InOrder
    <3>3. CASE t # s
      <4>1. sent'[t] = sent[t] /\ in'[t] = in[t]
        BY <1>0, <2>4, <3>3 DEF DataTyped
      <4> QED
        BY <2>4, <3>1, <4>1 DEF InOrder
    <3> QED
      BY <3>2, <3>3
  <2> QED
    BY <2>6, <2>7 DEF RelayInv, Flow, InOrder, Ordered
<1>9. ASSUME NEW s \in Side, PeerReceives(s) PROVE RelayInv'
  <2> DEFINE p == Peer(s)
             g == got[s]
             o == out[s]
             a == Append(g, Head(o))
             t == Tail(o)
  <2>1. p \in Side /\ Peer(p) = s /\ p # s
    BY PeerSide
  <2>2. /\ got' = [got EXCEPT ![s] = a] /\ out' = [out EXCEPT ![s] = t]
        /\ edge' = [edge EXCEPT ![s] = @ \/ (open /\ interest[s] = "OUT")]
        /\ UNCHANGED <<talk, sent, in, eof, buf, written, m_srv_closed, open, interest, batch>>
        /\ o # <<>>
    BY <1>9 DEF PeerReceives
  <2>3. /\ g \in Seq(Bytes) /\ o \in Seq(Bytes) /\ sent[p] \in Nat /\ Delivered(g, o, sent[p]) /\ Len(o) <= SOCK
    BY <1>0, <2>1 DEF Flow, DataTyped
  <2>4. a \in Seq(Bytes) /\ t \in Seq(Bytes) /\ Len(t) = Len(o) - 1 /\ Delivered(a, t, sent[p])
    <3> HIDE DEF g, o, p
    <3> QED
      BY <2>2, <2>3, ReceiveDelivers
  <2>5. Len(t) <= SOCK
    <3>1. o \in Seq(Bytes)
      BY <2>3
    <3>2. SOCK \in Nat
      BY RelayAssumption
    <3> HIDE DEF o, t
    <3>3. Len(o) \in Nat
      BY <3>1
    <3> QED
      BY <2>3, <2>4, <3>2, <3>3
  <2>6. open => Ordered(a, t, buf[p], written[p], in[p], sent[p])
    <3> SUFFICES ASSUME open PROVE Ordered(a, t, buf[p], written[p], in[p], sent[p])
      OBVIOUS
    <3>1. Ordered(g, o, buf[p], written[p], in[p], sent[p])
      BY <1>0, <2>1 DEF Flow, InOrder
    <3>2. buf[p] \in Seq(Bytes) /\ in[p] \in Seq(Bytes) /\ written[p] \in 0 .. Len(buf[p])
      BY <1>0, <2>1, DataTypes
    <3> DEFINE b == buf[p]
               q == in[p]
               w == written[p]
               n == sent[p]
    <3>3. /\ b \in Seq(Bytes) /\ q \in Seq(Bytes) /\ w \in 0 .. Len(b) /\ n \in Nat
          /\ Ordered(g, o, b, w, q, n)
      BY <2>3, <3>1, <3>2
    <3> HIDE DEF g, o, b, q, w, n
    <3>4. Ordered(a, t, b, w, q, n)
      BY <2>2, <2>3, <3>3, ReceiveOrders
    <3> QED
      BY <3>4 DEF b, q, w, n
  <2> HIDE DEF a, t
  <2>7. DataTyped' /\ ControlTyped'
    BY <1>0, <2>2, <2>4, <2>5 DEF DataTyped, ControlTyped
  <2>8. ASSUME NEW u \in Side PROVE Delivered(got'[Peer(u)], out'[Peer(u)], sent'[u]) /\ (open' => InOrder(u)')
    <3>1. CASE u = p
      <4>1. got'[Peer(u)] = a /\ out'[Peer(u)] = t
        BY <1>0, <2>1, <2>2, <3>1 DEF DataTyped
      <4> QED
        BY <2>2, <2>4, <2>6, <3>1, <4>1 DEF InOrder
    <3>2. CASE u # p
      <4>1. Peer(u) # s /\ Peer(u) \in Side
        BY <2>1, <3>2, PeerSide
      <4>2. got'[Peer(u)] = got[Peer(u)] /\ out'[Peer(u)] = out[Peer(u)]
        BY <1>0, <2>2, <4>1 DEF DataTyped
      <4> QED
        BY <1>0, <2>2, <4>2 DEF Flow, InOrder
    <3> QED
      BY <3>1, <3>2
  <2> QED
    BY <2>7, <2>8 DEF RelayInv, Flow
<1>10. ASSUME NEW s \in Side, PeerCloses(s) PROVE RelayInv'
  BY <1>0, <1>10 DEF PeerCloses, RelayInv, DataTyped, ControlTyped, Flow, InOrder
<1>11. CASE UNCHANGED vars
  BY <1>0, <1>11 DEF vars, RelayInv, DataTyped, ControlTyped, Flow, InOrder
<1> QED
  BY <1>1, <1>2, <1>3, <1>4, <1>5, <1>6, <1>7, <1>8, <1>9, <1>10, <1>11 DEF Next, Process

LEMMA RelayStart == Init => RelayInv
<1> SUFFICES ASSUME Init PROVE RelayInv
  OBVIOUS
<1>1. <<>> \in Seq(Bytes) /\ <<>> \in Seq(Side \X {"IN", "OUT"}) /\ Len(<<>>) = 0
  OBVIOUS
<1>2. BUF_SIZE \in Nat /\ SOCK \in Nat
  BY RelayAssumption
<1>3. DataTyped
  BY <1>1, <1>2 DEF Init, DataTyped
<1>4. ControlTyped
  BY <1>1 DEF Init, ControlTyped
<1>5. Ordered(<<>>, <<>>, <<>>, 0, <<>>, 0)
  BY DEF Ordered, Delivered
<1>6. \A s \in Side : InOrder(s)
  BY <1>5, PeerSide DEF Init, InOrder
<1> QED
  BY <1>3, <1>4, <1>6 DEF RelayInv, Flow, InOrder, Ordered

LEMMA RelayInvHolds == Spec => []RelayInv
BY RelayStart, RelayStep, PTL DEF Spec

\* Types; no buffer overruns BUF_SIZE, and no write index passes its read index.
THEOREM RelayTypeCorrect == Spec => []TypeOK
<1>1. RelayInv => TypeOK
  BY DEF RelayInv, DataTyped, ControlTyped, TypeOK
<1> QED
  BY <1>1, RelayInvHolds, PTL

\* No byte is lost, repeated or overtaken between the ends of a session, for buffers,
\* sockets and streams of any length and however the ends and the loop interleave.
THEOREM NothingLostInRelayHolds == Spec => []NothingLostInRelay
<1>1. RelayInv => NothingLostInRelay
  <2> SUFFICES ASSUME RelayInv, NEW s \in Side
               PROVE  /\ open => InFlight(s) = Stream(sent[s])
                      /\ LET r == got[Peer(s)] \o out[Peer(s)] IN r = Stream(Len(r)) /\ Len(r) <= sent[s]
    BY DEF NothingLostInRelay
  <2>1. DataTyped /\ Delivered(got[Peer(s)], out[Peer(s)], sent[s]) /\ (open => InOrder(s))
    BY DEF RelayInv, Flow
  <2>2. /\ got[Peer(s)] \in Seq(Bytes) /\ out[Peer(s)] \in Seq(Bytes) /\ buf[s] \in Seq(Bytes)
        /\ in[s] \in Seq(Bytes) /\ written[s] \in 0 .. Len(buf[s]) /\ sent[s] \in Nat
    BY <2>1, DataTypes
  <2> DEFINE g == got[Peer(s)]
             o == out[Peer(s)]
             b == buf[s]
             q == in[s]
             w == written[s]
             n == sent[s]
  <2>3. /\ g \in Seq(Bytes) /\ o \in Seq(Bytes) /\ b \in Seq(Bytes) /\ q \in Seq(Bytes)
        /\ w \in 0 .. Len(b) /\ n \in Nat /\ Delivered(g, o, n) /\ (open => Ordered(g, o, b, w, q, n))
    BY <2>1, <2>2 DEF InOrder
  <2> HIDE DEF g, o, b, q, w, n
  <2>4. g \o o = Stream(Len(g \o o)) /\ Len(g \o o) <= n
    BY <2>3, DeliveredStream
  <2>5. open => g \o o \o Drop(b, w) \o q = Stream(n)
    BY <2>3, OrderedStream
  <2> QED
    BY <2>4, <2>5 DEF InFlight, g, o, b, q, w, n
<1> QED
  BY <1>1, RelayInvHolds, PTL
-----------------------------------------------------------------------------
(* The pool of connections.  mgr.cpp keeps no list of what is open: it relies on   *)
(* its three maps.  The invariant says who owns each open descriptor, so that the  *)
(* number the kernel hands out next is in nobody's hands, though m_used may still  *)
(* have a null entry, and m_freed an entry, under it.                              *)

\* The conns bound to a client.
Bound == {c \in Conns : m_cltfd[c] # -1}

\* An idle connection is under its own open descriptor and bound to nobody, and a
\* freed one under the descriptor it had.
PlacedInv ==
  /\ \A k \in DOMAIN m_conns : m_srvfd[m_conns[k]] = k /\ k \in openfds /\ m_conns[k] \notin Bound
  /\ \A k \in DOMAIN m_freed : m_srvfd[m_freed[k]] = k /\ m_freed[k] \notin Bound
  /\ \A k \in DOMAIN m_freed : \A l \in DOMAIN m_conns : m_freed[k] # m_conns[l]

\* The two ends of a session are open and no other session's nor an idle connection's.
SessionInv ==
  /\ \A c \in Bound : m_cltfd[c] \in openfds /\ m_srvfd[c] \in openfds /\ m_cltfd[c] # m_srvfd[c]
  /\ \A c, d \in Bound : c # d => {m_cltfd[c], m_srvfd[c]} \intersect {m_cltfd[d], m_srvfd[d]} = {}
  /\ \A c \in Bound : \A k \in DOMAIN m_conns : k \notin {m_cltfd[c], m_srvfd[c]}

\* Nothing else is open.
OwnedInv ==
  \A fd \in openfds : fd \in DOMAIN m_conns \/ \E c \in Bound : fd \in {m_cltfd[c], m_srvfd[c]}

UsedInv ==
  \A fd \in DOMAIN m_used :
    m_used[fd] # NULL => m_used[fd] \in Bound /\ fd \in {m_cltfd[m_used[fd]], m_srvfd[m_used[fd]]}

MgrInv == Mgr!TypeOK /\ PlacedInv /\ SessionInv /\ OwnedInv /\ UsedInv
-----------------------------------------------------------------------------
(* Least elements, and elements of a given rank, by least counterexample. *)

LEMMA LeastMember == \A T \in SUBSET Nat : T # {} => \E x \in T : \A y \in T : x <= y
<1> SUFFICES ASSUME NEW T \in SUBSET Nat, T # {} PROVE \E x \in T : \A y \in T : x <= y
  OBVIOUS
<1> DEFINE R == OpToRel(<, Nat)
<1>1. IsWellFoundedOn(R, Nat)
  BY NatLessThanWellFounded
<1>2. \A x, y \in Nat : <<x, y>> \in R <=> x < y
  BY DEF OpToRel
<1> HIDE DEF R
<1>3. PICK x \in T : \A y \in T : <<y, x>> \notin R
  BY <1>1, WFMin
<1>4. \A y \in T : ~(y < x)
  <2> SUFFICES ASSUME NEW y \in T PROVE ~(y < x)
    OBVIOUS
  <2>1. <<y, x>> \notin R /\ x \in Nat /\ y \in Nat
    BY <1>3
  <2> QED
    BY <1>2, <2>1
<1>5. \A y \in T : x \in Int /\ y \in Int
  OBVIOUS
<1> QED
  BY <1>4, <1>5

\* The members of T below x.
Below(T, x) == {y \in T : y < x}

LEMMA BelowFinite ==
  ASSUME NEW T, IsFiniteSet(T), NEW x
  PROVE  IsFiniteSet(Below(T, x)) /\ Cardinality(Below(T, x)) \in Nat /\ Cardinality(Below(T, x)) <= Cardinality(T)
<1>1. Below(T, x) \in SUBSET T
  BY DEF Below
<1> QED
  BY <1>1, FS_Subset, FS_CardinalityType

LEMMA RankExists ==
  ASSUME NEW T \in SUBSET Nat, IsFiniteSet(T), NEW r \in Nat, r < Cardinality(T)
  PROVE  \E f \in T : Cardinality(Below(T, f)) = r
<1> DEFINE Rank(f) == Cardinality(Below(T, f))
           Bad == {n \in Nat : n < Cardinality(T) /\ \A f \in T : Rank(f) # n}
<1>1. SUFFICES ASSUME Bad # {} PROVE FALSE
  BY <1>1
<1>2. PICK n \in Bad : \A k \in Bad : n <= k
  <2>1. Bad \in SUBSET Nat
    OBVIOUS
  <2> HIDE DEF Bad
  <2> QED
    BY <1>1, <2>1, LeastMember
<1>3. n \in Nat /\ n < Cardinality(T) /\ (\A f \in T : Rank(f) # n) /\ Cardinality(T) \in Nat
  BY FS_CardinalityType
<1>4. CASE n = 0
  <2>1. T # {}
    BY <1>3, <1>4, FS_EmptySet
  <2>2. PICK f \in T : \A g \in T : f <= g
    BY <2>1, LeastMember
  <2>3. Below(T, f) = {}
    <3>1. \A y \in T : y \in Nat /\ f \in Nat /\ ~(y < f)
      BY <2>2
    <3> QED
      BY <3>1 DEF Below
  <2> QED
    BY <1>3, <1>4, <2>3, FS_EmptySet
<1>5. CASE n # 0
  <2>1. n - 1 \in Nat /\ n - 1 \notin Bad /\ n - 1 < Cardinality(T)
    BY <1>2, <1>3, <1>5
  <2>2. PICK f \in T : Rank(f) = n - 1
    BY <2>1
  <2> DEFINE L == Below(T, f)
             M == L \union {f}
             U == T \ M
  <2>3. IsFiniteSet(L) /\ f \notin L /\ Cardinality(L) = n - 1
    BY <2>2, BelowFinite DEF Below
  <2>4. IsFiniteSet(M) /\ Cardinality(M) = n
    <3> HIDE DEF L
    <3>1. IsFiniteSet(M) /\ Cardinality(M) = Cardinality(L) + 1
      BY <2>3, FS_AddElement
    <3> QED
      BY <1>3, <2>3, <3>1
  <2>5. U # {}
    <3>1. M \subseteq T
      BY DEF Below
    <3> QED
      BY <1>3, <2>4, <3>1
  <2>6. PICK g \in U : \A h \in U : g <= h
    BY <2>5, LeastMember
  <2>7. Below(T, g) = M
    <3>1. \A x \in T : x \in Nat
      OBVIOUS
    <3>2. g \in T /\ g # f /\ ~(g < f)
      BY <2>6 DEF Below
    <3>3. \A y \in T : y < g => y \in M
      BY <2>6, <3>1
    <3>4. \A y \in M : y \in T /\ y < g
      BY <3>1, <3>2 DEF Below
    <3> QED
      BY <3>3, <3>4 DEF Below
  <2> QED
    BY <1>3, <2>4, <2>6, <2>7
<1> QED
  BY <1>4, <1>5

LEMMA RanksDiffer ==
  ASSUME NEW T \in SUBSET Nat, IsFiniteSet(T), NEW a \in T, NEW b \in T, a < b
  PROVE  Cardinality(Below(T, a)) # Cardinality(Below(T, b))
<1>1. \A x \in T : x \in Nat
  OBVIOUS
<1>2. \A y \in T : y < a => y < b
  BY <1>1
<1>3. a \in Below(T, b) /\ a \notin Below(T, a)
  BY <1>1 DEF Below
<1>4. IsFiniteSet(Below(T, b))
  BY BelowFinite
<1>5. Below(T, a) \in SUBSET Below(T, b)
  BY <1>2 DEF Below
<1> QED
  BY <1>3, <1>4, <1>5, FS_Subset

LEMMA RankBelow ==
  ASSUME NEW T \in SUBSET Nat, IsFiniteSet(T), NEW a \in T
  PROVE  Cardinality(Below(T, a)) \in Nat /\ Cardinality(Below(T, a)) < Cardinality(T)
<1>1. a \notin Below(T, a) /\ Below(T, a) \in SUBSET T
  BY DEF Below
<1>2. Cardinality(Below(T, a)) <= Cardinality(T) /\ Cardinality(Below(T, a)) # Cardinality(T)
  BY <1>1, FS_Subset
<1> QED
  BY <1>2, BelowFinite, FS_CardinalityType

LEMMA FdsFinite ==
  /\ Mgr!Fds \in SUBSET Nat /\ IsFiniteSet(Mgr!Fds) /\ Cardinality(Mgr!Fds) = NFD
  /\ NFD \in Nat /\ NFD > 2 * Cardinality(Conns)
  /\ \A f \in Mgr!Fds : f \in Nat /\ f # 0 /\ f # -1
<1>1. NFD \in Nat /\ NFD > 2 * Cardinality(Conns)
  BY MgrAssumption
<1>2. IsFiniteSet(1 .. NFD) /\ Cardinality(1 .. NFD) = NFD
  BY <1>1, FS_Interval
<1> QED
  BY <1>1, <1>2 DEF Mgr!Fds

LEMMA SameCardinality == \A S : Mgr!Cardinality(S) = Cardinality(S)
BY DEF Mgr!Cardinality, Cardinality

LEMMA RankBelows == \A T, x : Mgr!Rank(x, T) = Cardinality(Below(T, x))
BY SameCardinality DEF Mgr!Rank, Below

\* The kernel's choice is a different free descriptor for each.
LEMMA LowestFreeFds ==
  ASSUME NEW S \in SUBSET Nat, IsFiniteSet(S), NEW taken,
         Cardinality(S) <= Cardinality(Mgr!Fds \ taken)
  PROVE  /\ Mgr!LowestFree(S, taken) \in [S -> Mgr!Fds \ taken]
         /\ \A a, b \in S : Mgr!LowestFree(S, taken)[a] = Mgr!LowestFree(S, taken)[b] => a = b
<1> DEFINE free == Mgr!Fds \ taken
           fd == Mgr!LowestFree(S, taken)
<1>1. free \in SUBSET Nat /\ IsFiniteSet(free)
  BY FdsFinite, FS_Difference
<1>2. fd = [a \in S |-> CHOOSE f \in free : Cardinality(Below(free, f)) = Cardinality(Below(S, a))]
  BY RankBelows DEF Mgr!LowestFree
<1> HIDE DEF free, fd
<1>3. ASSUME NEW a \in S
      PROVE  fd[a] \in free /\ Cardinality(Below(free, fd[a])) = Cardinality(Below(S, a))
  <2>1. Cardinality(Below(S, a)) \in Nat /\ Cardinality(Below(S, a)) < Cardinality(free)
    BY <1>1, RankBelow, FS_CardinalityType DEF free
  <2>2. \E f \in free : Cardinality(Below(free, f)) = Cardinality(Below(S, a))
    BY <1>1, <2>1, RankExists
  <2> QED
    BY <1>2, <2>2
<1>4. ASSUME NEW a \in S, NEW b \in S, fd[a] = fd[b] PROVE a = b
  <2>1. Cardinality(Below(S, a)) = Cardinality(Below(S, b))
    BY <1>3, <1>4
  <2>2. ~(a < b) /\ ~(b < a)
    BY <2>1, RanksDiffer
  <2>3. a \in Nat /\ b \in Nat
    OBVIOUS
  <2> QED
    BY <2>2, <2>3
<1> QED
  BY <1>2, <1>3, <1>4 DEF free, fd

-----------------------------------------------------------------------------
(* How many descriptors are open. *)

Idle == {c \in Conns : Mgr!In(m_conns, c)}
Ends == Bound \union Idle

LEMMA OpenFds ==
  ASSUME MgrInv
  PROVE  /\ openfds = {m_srvfd[c] : c \in Ends} \union {m_cltfd[c] : c \in Bound}
         /\ Cardinality(openfds) = Cardinality(Ends) + Cardinality(Bound)
         /\ IsFiniteSet(Ends) /\ IsFiniteSet(Bound) /\ IsFiniteSet(openfds)
<1> DEFINE A == {m_srvfd[c] : c \in Ends}
           B == {m_cltfd[c] : c \in Bound}
<1>1. Mgr!TypeOK /\ PlacedInv /\ SessionInv /\ OwnedInv
  BY DEF MgrInv
<1>2. IsFiniteSet(Ends) /\ IsFiniteSet(Bound)
  <2>1. Ends \in SUBSET Conns /\ Bound \in SUBSET Conns
    BY DEF Ends, Bound, Idle
  <2> QED
    BY <2>1, MgrAssumption, FS_Subset
<1>3. \A c \in Idle : \E k \in DOMAIN m_conns : m_conns[k] = c /\ m_srvfd[c] = k /\ k \in openfds
  BY <1>1 DEF Idle, Mgr!In, PlacedInv
<1>4. \A k \in DOMAIN m_conns : m_conns[k] \in Idle /\ m_srvfd[m_conns[k]] = k
  BY <1>1 DEF Idle, Mgr!In, PlacedInv, Mgr!TypeOK, Mgr!IsMap
<1>5. openfds = A \union B
  <2>1. A \subseteq openfds /\ B \subseteq openfds
    BY <1>1, <1>3 DEF Ends, SessionInv
  <2>2. \A fd \in openfds : fd \in A \union B
    BY <1>1, <1>4 DEF OwnedInv, Ends
  <2> QED
    BY <2>1, <2>2
<1>6. \A c, d \in Ends : m_srvfd[c] = m_srvfd[d] => c = d
  <2> SUFFICES ASSUME NEW c \in Ends, NEW d \in Ends, m_srvfd[c] = m_srvfd[d], c # d PROVE FALSE
    OBVIOUS
  <2>1. CASE c \in Idle /\ d \in Idle
    BY <1>3, <2>1
  <2>2. CASE c \in Idle /\ d \in Bound
    BY <1>1, <1>3, <2>2 DEF SessionInv
  <2>3. CASE c \in Bound /\ d \in Idle
    BY <1>1, <1>3, <2>3 DEF SessionInv
  <2>4. CASE c \in Bound /\ d \in Bound
    BY <1>1, <2>4 DEF SessionInv
  <2> QED
    BY <2>1, <2>2, <2>3, <2>4 DEF Ends
<1>7. \A c, d \in Bound : m_cltfd[c] = m_cltfd[d] => c = d
  BY <1>1 DEF SessionInv
<1>8. A \intersect B = {}
  <2> SUFFICES ASSUME NEW c \in Ends, NEW d \in Bound, m_srvfd[c] = m_cltfd[d] PROVE FALSE
    OBVIOUS
  <2>1. CASE c \in Idle
    BY <1>1, <1>3, <2>1 DEF SessionInv
  <2>2. CASE c \in Bound
    BY <1>1, <2>2 DEF SessionInv
  <2> QED
    BY <2>1, <2>2 DEF Ends
<1>9. IsFiniteSet(A) /\ Cardinality(A) = Cardinality(Ends)
  <2> DEFINE f == [c \in Ends |-> m_srvfd[c]]
  <2>1. f \in Bijection(Ends, A)
    BY <1>6 DEF Bijection, Injection, Surjection, IsInjective
  <2>2. ExistsBijection(Ends, A)
    BY <2>1, Zenon DEF ExistsBijection
  <2> QED
    BY <1>2, <2>2, FS_Bijection
<1>10. IsFiniteSet(B) /\ Cardinality(B) = Cardinality(Bound)
  <2> DEFINE f == [c \in Bound |-> m_cltfd[c]]
  <2>1. f \in Bijection(Bound, B)
    BY <1>7 DEF Bijection, Injection, Surjection, IsInjective
  <2>2. ExistsBijection(Bound, B)
    BY <2>1, Zenon DEF ExistsBijection
  <2> QED
    BY <1>2, <2>2, FS_Bijection
<1> HIDE DEF A, B
<1>11. IsFiniteSet(A \union B) /\ Cardinality(A \union B) = Cardinality(A) + Cardinality(B) - Cardinality(A \intersect B)
  BY <1>9, <1>10, FS_Union
<1>12. Cardinality(A \intersect B) = 0
  BY <1>8, FS_EmptySet
<1>13. Cardinality(Ends) \in Nat /\ Cardinality(Bound) \in Nat
  BY <1>2, FS_CardinalityType
<1> QED
  BY <1>2, <1>5, <1>9, <1>10, <1>11, <1>12, <1>13 DEF A, B

\* There is a free descriptor, and one for each connection that is to be made again.
LEMMA EnoughFds ==
  ASSUME MgrInv
  PROVE  /\ Mgr!Fds \ openfds # {}
         /\ IsFiniteSet(DOMAIN m_freed)
         /\ Cardinality(DOMAIN m_freed) <= Cardinality(Mgr!Fds \ openfds)
<1> DEFINE F == DOMAIN m_freed
           O == openfds
           C == Conns \ Ends
<1>1. /\ O \in SUBSET Mgr!Fds /\ IsFiniteSet(O) /\ Cardinality(O) = Cardinality(Ends) + Cardinality(Bound)
      /\ IsFiniteSet(Ends) /\ IsFiniteSet(Bound) /\ IsFiniteSet(Conns)
  BY OpenFds, MgrAssumption DEF MgrInv, Mgr!TypeOK
<1>2. Ends \in SUBSET Conns /\ Bound \in SUBSET Conns
  BY DEF Ends, Bound, Idle
<1>3. Cardinality(Mgr!Fds \ O) = NFD - Cardinality(O)
  <2>1. Mgr!Fds \intersect O = O
    BY <1>1
  <2> QED
    BY <2>1, FdsFinite, FS_Difference
<1>4. IsFiniteSet(C) /\ Cardinality(C) = Cardinality(Conns) - Cardinality(Ends)
  <2>1. Conns \intersect Ends = Ends
    BY <1>2
  <2> QED
    BY <1>1, <2>1, FS_Difference
<1>5. IsFiniteSet(F) /\ Cardinality(F) <= Cardinality(C)
  <2>1. m_freed \in [F -> Conns] /\ \A k \in F : m_freed[k] \notin Bound /\ m_srvfd[m_freed[k]] = k
    BY DEF MgrInv, Mgr!TypeOK, Mgr!IsMap, PlacedInv
  <2>2. \A k \in F : m_freed[k] \notin Idle
    BY DEF MgrInv, PlacedInv, Idle, Mgr!In
  <2>3. m_freed \in [F -> C] /\ \A k, l \in F : m_freed[k] = m_freed[l] => k = l
    BY <2>1, <2>2 DEF Ends
  <2> HIDE DEF F, C
  <2>4. m_freed \in Injection(F, C)
    BY <2>3 DEF Injection, IsInjective
  <2> QED
    BY <1>4, <2>4, FS_Injection
<1>6. Cardinality(Bound) <= Cardinality(Conns)
  BY <1>1, <1>2, FS_Subset
<1>7. /\ Cardinality(Conns) \in Nat /\ Cardinality(Ends) \in Nat /\ Cardinality(Bound) \in Nat
      /\ Cardinality(F) \in Nat /\ Cardinality(C) \in Nat /\ Cardinality(O) \in Nat
  BY <1>1, <1>4, <1>5, FS_CardinalityType
<1>8. Cardinality(Mgr!Fds \ O) > Cardinality(F)
  <2> HIDE DEF F, C, O
  <2>1. NFD \in Nat /\ NFD > 2 * Cardinality(Conns)
    BY FdsFinite
  <2> QED
    BY <1>1, <1>3, <1>4, <1>5, <1>6, <1>7, <2>1
<1>9. Cardinality(Mgr!Fds \ O) # 0
  <2> HIDE DEF F, O
  <2>1. NFD \in Nat
    BY FdsFinite
  <2> QED
    BY <1>3, <1>7, <1>8, <2>1
<1>10. Mgr!Fds \ O # {}
  BY <1>9, FS_EmptySet
<1>11. Cardinality(F) <= Cardinality(Mgr!Fds \ O)
  <2> HIDE DEF F, O
  <2>1. NFD \in Nat
    BY FdsFinite
  <2> QED
    BY <1>3, <1>7, <1>8, <2>1
<1> QED
  BY <1>5, <1>10, <1>11

\* The descriptor accept returns is free, and pick_conn's connection is idle.
LEMMA NewFdFree ==
  ASSUME MgrInv
  PROVE  Mgr!NewFd \in Mgr!Fds \ openfds
<1>1. Mgr!Fds \ openfds \in SUBSET Nat /\ Mgr!Fds \ openfds # {}
  BY FdsFinite, EnoughFds
<1>2. \E f \in Mgr!Fds \ openfds : \A g \in Mgr!Fds \ openfds : f <= g
  BY <1>1, LeastMember
<1> QED
  BY <1>2 DEF Mgr!NewFd

LEMMA FirstKeyIdle ==
  ASSUME MgrInv, m_conns # Mgr!EmptyMap
  PROVE  Mgr!FirstKey(m_conns) \in DOMAIN m_conns
<1>1. DOMAIN m_conns \in SUBSET Nat /\ m_conns \in [DOMAIN m_conns -> Conns]
  BY FdsFinite DEF MgrInv, Mgr!TypeOK, Mgr!IsMap
<1>2. DOMAIN m_conns # {}
  BY <1>1 DEF Mgr!EmptyMap
<1>3. \E k \in DOMAIN m_conns : \A l \in DOMAIN m_conns : k <= l
  BY <1>1, <1>2, LeastMember
<1> QED
  BY <1>3 DEF Mgr!FirstKey

-----------------------------------------------------------------------------
(* The steps. *)

\* Most events change nothing but the batch.
LEMMA NothingMoves ==
  ASSUME MgrInv, UNCHANGED <<openfds, registered, Mgr!fields, Mgr!maps>>,
         events' \in Seq(Mgr!Fds \union {0})
  PROVE  MgrInv'
BY DEF MgrInv, Mgr!TypeOK, Mgr!IsMap, PlacedInv, SessionInv, OwnedInv, UsedInv, Mgr!fields, Mgr!maps, Bound,
       Mgr!Pipe, Mgr!NoFd

LEMMA EventsTyped ==
  ASSUME MgrInv, NEW fd, Mgr!Event(fd)
  PROVE  events' \in Seq(Mgr!Fds \union {0})
BY DEF MgrInv, Mgr!TypeOK, Mgr!Event, Mgr!Pipe

LEMMA BindKeeps == MgrInv /\ Mgr!AcceptAndBind => MgrInv'
<1> SUFFICES ASSUME MgrInv, Mgr!AcceptAndBind PROVE MgrInv'
  OBVIOUS
<1> DEFINE clt == Mgr!NewFd
           srv == Mgr!FirstKey(m_conns)
           c == m_conns[srv]
<1>1. clt \in Mgr!Fds /\ clt \notin openfds
  BY NewFdFree
<1>2. srv \in DOMAIN m_conns
  BY FirstKeyIdle DEF Mgr!AcceptAndBind
<1>3. /\ openfds' = openfds \union {clt} /\ registered' = registered \union {clt, srv}
      /\ m_conns' = [k \in DOMAIN m_conns \ {srv} |-> m_conns[k]]
      /\ m_used' = Mgr!Insert(Mgr!Insert(m_used, clt, c), srv, c)
      /\ m_cltfd' = [m_cltfd EXCEPT ![c] = clt]
      /\ UNCHANGED <<m_srvfd, srv_closed, m_freed>>
  BY DEF Mgr!AcceptAndBind, Mgr!Erase
<1>4. events' \in Seq(Mgr!Fds \union {0})
  BY EventsTyped DEF Mgr!AcceptAndBind
<1>5. Mgr!TypeOK /\ PlacedInv /\ SessionInv /\ OwnedInv /\ UsedInv
  BY DEF MgrInv
<1> HIDE DEF clt, srv
<1>6. /\ c \in Conns /\ c \notin Bound /\ m_srvfd[c] = srv /\ srv \in openfds /\ srv \in Mgr!Fds /\ srv # clt
      /\ clt # -1 /\ m_cltfd[c] = -1
  BY <1>1, <1>2, <1>5, FdsFinite DEF PlacedInv, Mgr!TypeOK, Mgr!IsMap, Bound
<1>7. \A k \in DOMAIN m_conns : m_conns[k] = c => k = srv
  BY <1>5, <1>6 DEF PlacedInv
<1>8. \A k \in DOMAIN m_freed : m_freed[k] # c
  BY <1>2, <1>5 DEF PlacedInv
<1> HIDE DEF c
<1>9. /\ m_cltfd' \in [Conns -> Mgr!Fds \union {-1}] /\ m_cltfd'[c] = clt
      /\ \A d \in Conns : d # c => m_cltfd'[d] = m_cltfd[d]
  BY <1>1, <1>3, <1>5 , <1>6 DEF Mgr!TypeOK, Mgr!NoFd
<1>10. Bound' = Bound \union {c}
  BY <1>6, <1>9 DEF Bound
<1>11. /\ DOMAIN m_used' = DOMAIN m_used \union {clt, srv}
       /\ m_used' \in [DOMAIN m_used' -> Conns \union {NULL}]
       /\ \A fd \in DOMAIN m_used' : m_used'[fd] # NULL =>
            (m_used'[fd] = c /\ fd \in {clt, srv}) \/ (fd \in DOMAIN m_used /\ m_used'[fd] = m_used[fd])
  <2> DEFINE u == Mgr!Insert(m_used, clt, c)
  <2>1. m_used \in [DOMAIN m_used -> Conns \union {NULL}]
    BY <1>5 DEF Mgr!TypeOK, Mgr!IsMap
  <2>2. u = [x \in DOMAIN m_used \union {clt} |-> IF x \in DOMAIN m_used THEN m_used[x] ELSE c]
    BY DEF Mgr!Insert
  <2>3. m_used' = [x \in DOMAIN u \union {srv} |-> IF x \in DOMAIN u THEN u[x] ELSE c]
    BY <1>3 DEF Mgr!Insert
  <2> HIDE DEF u
  <2>4. DOMAIN u = DOMAIN m_used \union {clt} /\ \A x \in DOMAIN u : u[x] \in Conns \union {NULL}
    BY <1>6, <2>1, <2>2
  <2>5. DOMAIN m_used' = DOMAIN m_used \union {clt, srv} /\ m_used' \in [DOMAIN m_used' -> Conns \union {NULL}]
    BY <1>6, <2>3, <2>4
  <2>6. ASSUME NEW fd \in DOMAIN m_used', m_used'[fd] # NULL
        PROVE  (m_used'[fd] = c /\ fd \in {clt, srv}) \/ (fd \in DOMAIN m_used /\ m_used'[fd] = m_used[fd])
    <3>1. CASE fd \in DOMAIN m_used
      BY <2>2, <2>3, <2>4, <2>5, <3>1
    <3>2. CASE fd \notin DOMAIN m_used
      BY <2>2, <2>3, <2>4, <2>5, <2>6, <3>2
    <3> QED
      BY <3>1, <3>2
  <2> QED
    BY <2>5, <2>6
<1>12. Mgr!TypeOK'
  <2>1. openfds' \subseteq Mgr!Fds /\ registered' \subseteq openfds'
    BY <1>1, <1>3, <1>5, <1>6 DEF Mgr!TypeOK
  <2>2. DOMAIN m_conns' \subseteq Mgr!Fds /\ m_conns' \in [DOMAIN m_conns' -> Conns]
    BY <1>3, <1>5 DEF Mgr!TypeOK, Mgr!IsMap
  <2>3. DOMAIN m_used' \subseteq Mgr!Fds
    BY <1>1, <1>5, <1>6, <1>11 DEF Mgr!TypeOK, Mgr!IsMap
  <2> QED
    BY <1>3, <1>4, <1>5, <1>9, <1>11, <2>1, <2>2, <2>3 DEF Mgr!TypeOK, Mgr!IsMap, Mgr!Pipe, Mgr!NoFd
<1>13. PlacedInv'
  BY <1>3, <1>5, <1>7, <1>8, <1>10 DEF PlacedInv
<1>14. SessionInv'
  <2>1. \A d \in Bound : m_cltfd'[d] = m_cltfd[d] /\ m_srvfd'[d] = m_srvfd[d] /\ d # c
    BY <1>3, <1>6, <1>9 DEF Bound
  <2>2. \A d \in Bound : {clt, srv} \intersect {m_cltfd[d], m_srvfd[d]} = {}
    BY <1>1, <1>2, <1>5 DEF SessionInv
  <2>3. m_cltfd'[c] = clt /\ m_srvfd'[c] = srv
    BY <1>3, <1>6, <1>9
  <2>4. \A d \in Bound' : m_cltfd'[d] \in openfds' /\ m_srvfd'[d] \in openfds' /\ m_cltfd'[d] # m_srvfd'[d]
    BY <1>3, <1>5, <1>6, <1>10, <2>1, <2>3 DEF SessionInv
  <2>5. \A d, e \in Bound' : d # e => {m_cltfd'[d], m_srvfd'[d]} \intersect {m_cltfd'[e], m_srvfd'[e]} = {}
    BY <1>5, <1>10, <2>1, <2>2, <2>3 DEF SessionInv
  <2>6. \A k \in DOMAIN m_conns : k # clt
    BY <1>1, <1>5 DEF PlacedInv
  <2>7. \A d \in Bound' : \A k \in DOMAIN m_conns' : k \notin {m_cltfd'[d], m_srvfd'[d]}
    BY <1>3, <1>5, <1>10, <2>1, <2>3, <2>6 DEF SessionInv
  <2> QED
    BY <2>4, <2>5, <2>7 DEF SessionInv
<1>15. OwnedInv'
  <2> SUFFICES ASSUME NEW fd \in openfds'
               PROVE  fd \in DOMAIN m_conns' \/ \E d \in Bound' : fd \in {m_cltfd'[d], m_srvfd'[d]}
    BY DEF OwnedInv
  <2>1. \A d \in Bound : m_cltfd'[d] = m_cltfd[d] /\ m_srvfd'[d] = m_srvfd[d]
    BY <1>3, <1>6, <1>9 DEF Bound
  <2>2. CASE fd \in {clt, srv}
    BY <1>3, <1>6, <1>9, <1>10, <2>2
  <2>3. CASE fd \in openfds /\ fd # srv
    BY <1>3, <1>5, <1>10, <2>1, <2>3 DEF OwnedInv
  <2> QED
    BY <1>3, <2>2, <2>3
<1>16. UsedInv'
  <2> SUFFICES ASSUME NEW fd \in DOMAIN m_used', m_used'[fd] # NULL
               PROVE  m_used'[fd] \in Bound' /\ fd \in {m_cltfd'[m_used'[fd]], m_srvfd'[m_used'[fd]]}
    BY DEF UsedInv
  <2>1. CASE m_used'[fd] = c /\ fd \in {clt, srv}
    BY <1>3, <1>6, <1>9, <1>10, <2>1
  <2>2. CASE fd \in DOMAIN m_used /\ m_used'[fd] = m_used[fd]
    BY <1>3, <1>5, <1>6, <1>9, <1>10, <2>2 DEF UsedInv, Bound
  <2> QED
    BY <1>11, <2>1, <2>2
<1> QED
  BY <1>12, <1>13, <1>14, <1>15, <1>16 DEF MgrInv

LEMMA FreeKeeps ==
  ASSUME MgrInv, NEW c \in Bound, Mgr!FreeConn(c), events' \in Seq(Mgr!Fds \union {0})
  PROVE  MgrInv'
<1> DEFINE clt == m_cltfd[c]
           srv == m_srvfd[c]
<1>1. Mgr!TypeOK /\ PlacedInv /\ SessionInv /\ OwnedInv /\ UsedInv
  BY DEF MgrInv
<1>2. c \in Conns /\ clt \in Mgr!Fds /\ srv \in Mgr!Fds /\ clt # srv /\ clt \in openfds /\ srv \in openfds
  BY <1>1 DEF Bound, SessionInv, Mgr!TypeOK
<1>3. /\ openfds' = openfds \ {clt, srv} /\ registered' = registered \ {clt, srv}
      /\ m_used' = [k \in (DOMAIN m_used \ {clt}) \ {srv} |-> m_used[k]]
      /\ m_freed' = [k \in DOMAIN m_freed \union {srv} |-> IF k \in DOMAIN m_freed THEN m_freed[k] ELSE c]
      /\ m_cltfd' = [m_cltfd EXCEPT ![c] = -1]
      /\ srv_closed' = [srv_closed EXCEPT ![c] = FALSE]
      /\ UNCHANGED <<m_srvfd, m_conns>>
  BY DEF Mgr!FreeConn, Mgr!Erase, Mgr!Insert, Mgr!NoFd
<1>4. /\ m_cltfd' \in [Conns -> Mgr!Fds \union {-1}] /\ m_cltfd'[c] = -1
      /\ \A d \in Conns : d # c => m_cltfd'[d] = m_cltfd[d]
  BY <1>1, <1>2, <1>3 DEF Mgr!TypeOK, Mgr!NoFd
<1>5. Bound' = Bound \ {c}
  BY <1>4 DEF Bound
<1>6. \A d \in Bound' : d \in Bound /\ d # c /\ d \in Conns /\ m_cltfd'[d] = m_cltfd[d] /\ m_srvfd'[d] = m_srvfd[d]
  BY <1>3, <1>4, <1>5 DEF Bound
<1>7. \A d \in Bound' : {clt, srv} \intersect {m_cltfd[d], m_srvfd[d]} = {}
  BY <1>1, <1>6 DEF SessionInv
<1>8. \A k \in DOMAIN m_conns : k # clt /\ k # srv /\ m_conns[k] # c
  BY <1>1 DEF SessionInv, PlacedInv
<1> HIDE DEF clt
<1>9. Mgr!TypeOK'
  <2>1. m_freed' \in [DOMAIN m_freed' -> Conns] /\ DOMAIN m_freed' \subseteq Mgr!Fds
    BY <1>1, <1>2, <1>3 DEF Mgr!TypeOK, Mgr!IsMap
  <2>2. m_used' \in [DOMAIN m_used' -> Conns \union {NULL}] /\ DOMAIN m_used' \subseteq Mgr!Fds
    BY <1>1, <1>3 DEF Mgr!TypeOK, Mgr!IsMap
  <2>3. openfds' \subseteq Mgr!Fds /\ registered' \subseteq openfds'
    BY <1>1, <1>3 DEF Mgr!TypeOK
  <2>4. srv_closed' \in [Conns -> BOOLEAN]
    BY <1>1, <1>3 DEF Mgr!TypeOK
  <2> QED
    BY <1>1, <1>3, <1>4, <2>1, <2>2, <2>3, <2>4 DEF Mgr!TypeOK, Mgr!IsMap, Mgr!Pipe, Mgr!NoFd
<1>10. PlacedInv'
  <2>1. \A k \in DOMAIN m_conns' : m_srvfd'[m_conns'[k]] = k /\ k \in openfds' /\ m_conns'[k] \notin Bound'
    BY <1>1, <1>3, <1>5, <1>8 DEF PlacedInv
  <2>2. \A k \in DOMAIN m_freed' : (k \in DOMAIN m_freed /\ m_freed'[k] = m_freed[k]) \/ (k = srv /\ m_freed'[k] = c)
    BY <1>3
  <2>3. \A k \in DOMAIN m_freed' : m_srvfd'[m_freed'[k]] = k /\ m_freed'[k] \notin Bound'
    BY <1>1, <1>3, <1>5, <2>2 DEF PlacedInv
  <2>4. \A k \in DOMAIN m_freed' : \A l \in DOMAIN m_conns' : m_freed'[k] # m_conns'[l]
    BY <1>1, <1>3, <1>8, <2>2 DEF PlacedInv
  <2> QED
    BY <2>1, <2>3, <2>4 DEF PlacedInv
<1> HIDE DEF srv
<1>11. SessionInv'
  <2>1. \A d \in Bound' : m_cltfd'[d] \in openfds' /\ m_srvfd'[d] \in openfds' /\ m_cltfd'[d] # m_srvfd'[d]
    <3> SUFFICES ASSUME NEW d \in Bound'
                 PROVE  m_cltfd'[d] \in openfds' /\ m_srvfd'[d] \in openfds' /\ m_cltfd'[d] # m_srvfd'[d]
      OBVIOUS
    <3>1. d \in Bound /\ m_cltfd'[d] = m_cltfd[d] /\ m_srvfd'[d] = m_srvfd[d]
      BY <1>6
    <3>2. m_cltfd[d] \in openfds /\ m_srvfd[d] \in openfds /\ m_cltfd[d] # m_srvfd[d]
      BY <1>1, <3>1 DEF SessionInv
    <3>3. m_cltfd[d] \notin {clt, srv} /\ m_srvfd[d] \notin {clt, srv}
      BY <1>7
    <3> QED
      BY <1>3, <3>1, <3>2, <3>3
  <2>2. \A d, e \in Bound' : d # e => {m_cltfd'[d], m_srvfd'[d]} \intersect {m_cltfd'[e], m_srvfd'[e]} = {}
    BY <1>1, <1>6 DEF SessionInv
  <2>3. \A d \in Bound' : \A k \in DOMAIN m_conns' : k \notin {m_cltfd'[d], m_srvfd'[d]}
    BY <1>1, <1>3, <1>6 DEF SessionInv
  <2> QED
    BY <2>1, <2>2, <2>3 DEF SessionInv
<1>12. OwnedInv'
  <2> SUFFICES ASSUME NEW fd \in openfds'
               PROVE  fd \in DOMAIN m_conns' \/ \E d \in Bound' : fd \in {m_cltfd'[d], m_srvfd'[d]}
    BY DEF OwnedInv
  <2>1. fd \in openfds /\ fd # clt /\ fd # srv
    BY <1>3
  <2>2. CASE fd \in DOMAIN m_conns
    BY <1>3, <2>2
  <2>3. ASSUME NEW d \in Bound, fd \in {m_cltfd[d], m_srvfd[d]}
        PROVE  \E e \in Bound' : fd \in {m_cltfd'[e], m_srvfd'[e]}
    BY <1>5, <1>6, <2>1, <2>3 DEF clt, srv
  <2> QED
    BY <1>1, <2>1, <2>2, <2>3 DEF OwnedInv
<1>13. UsedInv'
  <2> SUFFICES ASSUME NEW fd \in DOMAIN m_used', m_used'[fd] # NULL
               PROVE  m_used'[fd] \in Bound' /\ fd \in {m_cltfd'[m_used'[fd]], m_srvfd'[m_used'[fd]]}
    BY DEF UsedInv
  <2>1. fd \in DOMAIN m_used /\ fd # clt /\ fd # srv /\ m_used'[fd] = m_used[fd]
    BY <1>3
  <2>2. m_used[fd] \in Bound /\ fd \in {m_cltfd[m_used[fd]], m_srvfd[m_used[fd]]}
    BY <1>1, <2>1 DEF UsedInv
  <2>3. m_used[fd] # c
    BY <2>1, <2>2 DEF clt, srv
  <2> QED
    BY <1>5, <1>6, <2>1, <2>2, <2>3
<1> QED
  BY <1>9, <1>10, <1>11, <1>12, <1>13 DEF MgrInv

LEMMA RecycleKeeps == MgrInv /\ Mgr!Recycle => MgrInv'
<1> SUFFICES ASSUME MgrInv, Mgr!Recycle PROVE MgrInv'
  OBVIOUS
<1>1. Mgr!TypeOK /\ PlacedInv /\ SessionInv /\ OwnedInv /\ UsedInv
  BY DEF MgrInv
<1>2. PICK ok \in SUBSET DOMAIN m_freed :
        LET fd == Mgr!LowestFree(ok, openfds)
            again == {m_freed[k] : k \in ok}
            key(c) == CHOOSE k \in ok : m_freed[k] = c
        IN /\ m_srvfd' = [c \in Conns |-> IF c \in again THEN fd[key(c)] ELSE m_srvfd[c]]
           /\ m_conns' = [f \in DOMAIN m_conns \union {fd[k] : k \in ok} |->
                IF f \in DOMAIN m_conns THEN m_conns[f] ELSE m_freed[CHOOSE k \in ok : fd[k] = f]]
           /\ openfds' = openfds \union {fd[k] : k \in ok}
  BY DEF Mgr!Recycle
<1> DEFINE fd == Mgr!LowestFree(ok, openfds)
           new == {fd[k] : k \in ok}
           again == {m_freed[k] : k \in ok}
<1>3. fd \in [ok -> Mgr!Fds \ openfds] /\ \A a, b \in ok : fd[a] = fd[b] => a = b
  <2>1. ok \in SUBSET Nat
    BY <1>1, FdsFinite DEF Mgr!TypeOK, Mgr!IsMap
  <2>2. IsFiniteSet(ok) /\ Cardinality(ok) <= Cardinality(DOMAIN m_freed)
    BY EnoughFds, FS_Subset
  <2>3. /\ Cardinality(DOMAIN m_freed) <= Cardinality(Mgr!Fds \ openfds)
        /\ Cardinality(ok) \in Nat /\ Cardinality(DOMAIN m_freed) \in Nat
        /\ Cardinality(Mgr!Fds \ openfds) \in Nat
    BY <2>2, EnoughFds, FdsFinite, FS_Difference, FS_CardinalityType
  <2>4. Cardinality(ok) <= Cardinality(Mgr!Fds \ openfds)
    BY <2>2, <2>3
  <2> QED
    BY <2>1, <2>2, <2>4, LowestFreeFds
<1>4. /\ m_freed \in [DOMAIN m_freed -> Conns] /\ \A k \in ok : m_freed[k] \in Conns /\ m_freed[k] \notin Bound
      /\ \A k, l \in ok : m_freed[k] = m_freed[l] => k = l
      /\ \A k \in ok : \A l \in DOMAIN m_conns : m_freed[k] # m_conns[l]
  BY <1>1 DEF PlacedInv, Mgr!TypeOK, Mgr!IsMap
<1>5. UNCHANGED <<registered, m_cltfd, srv_closed, m_used, events>> /\ m_freed' = [k \in {} |-> NULL]
  BY DEF Mgr!Recycle, Mgr!EmptyMap
<1>6. /\ m_srvfd' = [c \in Conns |-> IF c \in again THEN fd[CHOOSE k \in ok : m_freed[k] = c] ELSE m_srvfd[c]]
      /\ m_conns' = [f \in DOMAIN m_conns \union new |->
                IF f \in DOMAIN m_conns THEN m_conns[f] ELSE m_freed[CHOOSE k \in ok : fd[k] = f]]
      /\ openfds' = openfds \union new
  BY <1>2
<1> HIDE DEF fd
<1>7. new \in SUBSET (Mgr!Fds \ openfds) /\ new \intersect openfds = {}
  BY <1>3
<1>8. DOMAIN m_conns \subseteq openfds
  BY <1>1 DEF PlacedInv
<1>9. ASSUME NEW k \in ok
      PROVE  /\ m_srvfd'[m_freed[k]] = fd[k]
             /\ fd[k] \in DOMAIN m_conns' /\ m_conns'[fd[k]] = m_freed[k]
  <2>1. (CHOOSE l \in ok : m_freed[l] = m_freed[k]) = k
    BY <1>4
  <2>2. (CHOOSE l \in ok : fd[l] = fd[k]) = k
    BY <1>3
  <2>3. m_freed[k] \in again /\ m_freed[k] \in Conns /\ fd[k] \in new /\ fd[k] \notin DOMAIN m_conns
    BY <1>4, <1>7, <1>8
  <2> QED
    BY <1>6, <2>1, <2>2, <2>3
<1>10. \A c \in Conns : c \notin again => m_srvfd'[c] = m_srvfd[c]
  BY <1>6
<1>11. /\ DOMAIN m_conns' = DOMAIN m_conns \union new
       /\ \A f \in DOMAIN m_conns : m_conns'[f] = m_conns[f] /\ m_conns[f] \in Conns /\ m_conns[f] \notin again
       /\ \A f \in new : \E k \in ok : f = fd[k]
  BY <1>1, <1>4, <1>6 DEF Mgr!TypeOK, Mgr!IsMap
<1>12. Bound' = Bound /\ Bound \subseteq Conns /\ \A c \in Bound : c \notin again
  BY <1>4, <1>5 DEF Bound
<1> HIDE DEF new
<1>13. Mgr!TypeOK'
  <2>1. openfds' \subseteq Mgr!Fds /\ registered' \subseteq openfds'
    BY <1>1, <1>5, <1>6, <1>7 DEF Mgr!TypeOK
  <2>2. m_srvfd' \in [Conns -> Mgr!Fds \union {-1}]
    <3>1. \A c \in Conns : m_srvfd'[c] \in Mgr!Fds \union {-1}
      <4> SUFFICES ASSUME NEW c \in Conns PROVE m_srvfd'[c] \in Mgr!Fds \union {-1}
        OBVIOUS
      <4>1. CASE c \in again
        BY <1>3, <1>9, <4>1
      <4>2. CASE c \notin again
        BY <1>1, <1>10, <4>2 DEF Mgr!TypeOK, Mgr!NoFd
      <4> QED
        BY <4>1, <4>2
    <3> QED
      BY <1>6, <3>1
  <2>3. DOMAIN m_conns' \subseteq Mgr!Fds
    BY <1>1, <1>7, <1>11 DEF Mgr!TypeOK, Mgr!IsMap
  <2>4. \A f \in DOMAIN m_conns' : m_conns'[f] \in Conns
    BY <1>4, <1>9, <1>11
  <2>5. m_conns' \in [DOMAIN m_conns' -> Conns]
    BY <1>6, <2>4
  <2>6. DOMAIN m_freed' \subseteq Mgr!Fds /\ m_freed' \in [DOMAIN m_freed' -> Conns]
    BY <1>5
  <2> QED
    BY <1>1, <1>5, <2>1, <2>2, <2>3, <2>5, <2>6 DEF Mgr!TypeOK, Mgr!IsMap, Mgr!NoFd
<1>14. PlacedInv'
  <2>1. ASSUME NEW f \in DOMAIN m_conns'
        PROVE  m_srvfd'[m_conns'[f]] = f /\ f \in openfds' /\ m_conns'[f] \notin Bound'
    <3>1. CASE f \in DOMAIN m_conns
      BY <1>1, <1>6, <1>10, <1>11, <1>12, <3>1 DEF PlacedInv
    <3>2. CASE f \in new
      <4>1. PICK k \in ok : f = fd[k]
        BY <1>11, <3>2
      <4>2. m_conns'[f] = m_freed[k] /\ m_srvfd'[m_freed[k]] = f
        BY <1>9, <4>1
      <4> QED
        BY <1>4, <1>6, <1>12, <3>2, <4>2
    <3> QED
      BY <1>11, <3>1, <3>2
  <2> QED
    BY <1>5, <2>1 DEF PlacedInv
<1>15. SessionInv'
  <2>1. \A c \in Bound : m_cltfd'[c] = m_cltfd[c] /\ m_srvfd'[c] = m_srvfd[c]
    BY <1>5, <1>10, <1>12
  <2>2. \A c \in Bound : \A k \in DOMAIN m_conns' : k \notin {m_cltfd[c], m_srvfd[c]}
    BY <1>1, <1>7, <1>11 DEF SessionInv
  <2> QED
    BY <1>1, <1>6, <1>12, <2>1, <2>2 DEF SessionInv
<1>16. OwnedInv'
  <2>1. \A c \in Bound : m_cltfd'[c] = m_cltfd[c] /\ m_srvfd'[c] = m_srvfd[c]
    BY <1>5, <1>10, <1>12
  <2> QED
    BY <1>1, <1>6, <1>11, <1>12, <2>1 DEF OwnedInv
<1>17. UsedInv'
  BY <1>1, <1>5, <1>10, <1>12 DEF UsedInv
<1> QED
  BY <1>13, <1>14, <1>15, <1>16, <1>17 DEF MgrInv

LEMMA MgrStep == MgrInv /\ [Mgr!Next]_(Mgr!vars) => MgrInv'
<1> SUFFICES ASSUME MgrInv, [Mgr!Next]_(Mgr!vars) PROVE MgrInv'
  OBVIOUS
<1>1. events \in Seq(Mgr!Fds \union {0})
  BY DEF MgrInv, Mgr!TypeOK, Mgr!Pipe
<1>2. CASE Mgr!EpollWait
  <2>1. PICK n \in 1 .. MAX_EVENT_NUMBER : \E e \in [1 .. n -> registered \union {0}] : events' = e
    BY <1>2 DEF Mgr!EpollWait, Mgr!Pipe
  <2>2. n \in Nat
    BY <2>1, MgrAssumption
  <2>3. registered \union {0} \subseteq Mgr!Fds \union {0}
    BY DEF MgrInv, Mgr!TypeOK
  <2>4. events' \in Seq(Mgr!Fds \union {0})
    BY <2>1, <2>2, <2>3
  <2> QED
    BY <1>2, <2>4, NothingMoves DEF Mgr!EpollWait
<1>3. CASE Mgr!Recycle
  BY <1>3, RecycleKeeps
<1>4. CASE Mgr!NothingToAccept \/ Mgr!Refuse
  BY <1>4, EventsTyped, NothingMoves DEF Mgr!NothingToAccept, Mgr!Refuse
<1>5. CASE Mgr!AcceptAndBind
  BY <1>5, BindKeeps
<1>6. ASSUME NEW fd \in Mgr!Fds, Mgr!ProcessUnknown(fd) PROVE MgrInv'
  <2>1. events' \in Seq(Mgr!Fds \union {0})
    BY <1>6, EventsTyped DEF Mgr!ProcessUnknown
  <2>2. /\ UNCHANGED <<openfds, registered, Mgr!fields, m_conns, m_freed>>
        /\ m_used' = [x \in DOMAIN m_used \union {fd} |-> IF x \in DOMAIN m_used THEN m_used[x] ELSE NULL]
    BY <1>6 DEF Mgr!ProcessUnknown, Mgr!Insert
  <2>3. /\ DOMAIN m_used' \subseteq Mgr!Fds /\ m_used' \in [DOMAIN m_used' -> Conns \union {NULL}]
        /\ \A x \in DOMAIN m_used' : m_used'[x] # NULL => x \in DOMAIN m_used /\ m_used'[x] = m_used[x]
    BY <2>2 DEF MgrInv, Mgr!TypeOK, Mgr!IsMap
  <2>4. Mgr!TypeOK'
    BY <2>1, <2>2, <2>3 DEF MgrInv, Mgr!TypeOK, Mgr!IsMap, Mgr!fields, Mgr!Pipe
  <2>5. Bound' = Bound
    BY <2>2 DEF Bound, Mgr!fields
  <2>6. PlacedInv' /\ SessionInv' /\ OwnedInv'
    BY <2>2, <2>5 DEF MgrInv, PlacedInv, SessionInv, OwnedInv, Mgr!fields
  <2>7. UsedInv'
    BY <2>2, <2>3, <2>5 DEF MgrInv, UsedInv, Mgr!fields
  <2> QED
    BY <2>4, <2>6, <2>7 DEF MgrInv
<1>7. ASSUME NEW fd \in Mgr!Fds, Mgr!ProcessClt(fd) \/ Mgr!ProcessSrv(fd) PROVE MgrInv'
  BY <1>7, EventsTyped, NothingMoves DEF Mgr!ProcessClt, Mgr!ProcessSrv
<1>8. ASSUME NEW fd \in Mgr!Fds, Mgr!ProcessCltEnds(fd) PROVE MgrInv'
  <2> DEFINE c == Mgr!Lookup(m_used, fd)
  <2>1. events' \in Seq(Mgr!Fds \union {0})
    BY <1>8, EventsTyped DEF Mgr!ProcessCltEnds
  <2>2. c # NULL /\ Mgr!FreeConn(c)
    BY <1>8 DEF Mgr!ProcessCltEnds
  <2>3. c \in Bound
    BY <2>2 DEF Mgr!Lookup, MgrInv, UsedInv
  <2> QED
    BY <2>1, <2>2, <2>3, FreeKeeps
<1>9. ASSUME NEW fd \in Mgr!Fds, Mgr!ProcessSrvClosed(fd) PROVE MgrInv'
  <2>1. events' \in Seq(Mgr!Fds \union {0})
    BY <1>9, EventsTyped DEF Mgr!ProcessSrvClosed
  <2>2. UNCHANGED <<openfds, registered, m_cltfd, m_srvfd, m_conns, m_used, m_freed>>
    BY <1>9 DEF Mgr!ProcessSrvClosed, Mgr!maps
  <2>3. srv_closed' \in [Conns -> BOOLEAN]
    BY <1>9 DEF Mgr!ProcessSrvClosed, MgrInv, Mgr!TypeOK
  <2> QED
    BY <2>1, <2>2, <2>3 DEF MgrInv, Mgr!TypeOK, Mgr!IsMap, PlacedInv, SessionInv, OwnedInv, UsedInv, Bound,
         Mgr!Pipe, Mgr!NoFd
<1>10. CASE UNCHANGED Mgr!vars
  BY <1>1, <1>10, NothingMoves DEF Mgr!vars
<1> QED
  BY <1>2, <1>3, <1>4, <1>5, <1>6, <1>7, <1>8, <1>9, <1>10 DEF Mgr!Next

LEMMA MgrStart == Mgr!Init => MgrInv
<1> SUFFICES ASSUME Mgr!Init PROVE MgrInv
  OBVIOUS
<1>1. PICK n \in 0 .. Cardinality(Conns) :
        \E conn \in [1 .. n -> Conns] :
          /\ \A i, j \in 1 .. n : conn[i] = conn[j] => i = j
          /\ m_conns = [fd \in 1 .. n |-> conn[fd]]
          /\ m_srvfd = [c \in Conns |->
               IF \E fd \in 1 .. n : conn[fd] = c THEN CHOOSE fd \in 1 .. n : conn[fd] = c ELSE -1]
          /\ openfds = 1 .. n
  BY SameCardinality DEF Mgr!Init, Mgr!NoFd
<1>2. PICK conn \in [1 .. n -> Conns] :
          /\ \A i, j \in 1 .. n : conn[i] = conn[j] => i = j
          /\ m_conns = [fd \in 1 .. n |-> conn[fd]]
          /\ m_srvfd = [c \in Conns |->
               IF \E fd \in 1 .. n : conn[fd] = c THEN CHOOSE fd \in 1 .. n : conn[fd] = c ELSE -1]
          /\ openfds = 1 .. n
  BY <1>1
<1>3. /\ registered = {} /\ m_cltfd = [c \in Conns |-> -1] /\ srv_closed = [c \in Conns |-> FALSE]
      /\ m_used = [k \in {} |-> NULL] /\ m_freed = [k \in {} |-> NULL] /\ events = <<>>
  BY DEF Mgr!Init, Mgr!EmptyMap, Mgr!NoFd
<1>4. 1 .. n \subseteq Mgr!Fds
  <2>1. Cardinality(Conns) \in Nat /\ NFD \in Nat /\ NFD > 2 * Cardinality(Conns)
    BY MgrAssumption, FS_CardinalityType
  <2> QED
    BY <1>1, <2>1 DEF Mgr!Fds
<1>5. Bound = {}
  BY <1>3 DEF Bound
<1>6. m_srvfd \in [Conns -> Mgr!Fds \union {-1}]
  BY <1>2, <1>4
<1>7. \A k \in 1 .. n : m_srvfd[m_conns[k]] = k
  BY <1>2
<1>8. Mgr!TypeOK
  <2>1. DOMAIN m_conns = 1 .. n /\ m_conns \in [DOMAIN m_conns -> Conns]
    BY <1>2
  <2>2. /\ DOMAIN m_used \subseteq Mgr!Fds /\ m_used \in [DOMAIN m_used -> Conns \union {NULL}]
        /\ DOMAIN m_freed \subseteq Mgr!Fds /\ m_freed \in [DOMAIN m_freed -> Conns]
    BY <1>3
  <2>3. m_cltfd \in [Conns -> Mgr!Fds \union {-1}] /\ srv_closed \in [Conns -> BOOLEAN]
    BY <1>3
  <2>4. openfds \subseteq Mgr!Fds /\ registered \subseteq openfds
    BY <1>2, <1>3, <1>4
  <2>5. events \in Seq(Mgr!Fds \union {0})
    BY <1>3
  <2> QED
    BY <1>4, <1>6, <2>1, <2>2, <2>3, <2>4, <2>5 DEF Mgr!TypeOK, Mgr!IsMap, Mgr!NoFd, Mgr!Pipe
<1>9. PlacedInv /\ SessionInv /\ OwnedInv /\ UsedInv
  BY <1>2, <1>3, <1>5, <1>7 DEF PlacedInv, SessionInv, OwnedInv, UsedInv
<1> QED
  BY <1>8, <1>9 DEF MgrInv

LEMMA MgrInvHolds == Mgr!Spec => []MgrInv
BY MgrStart, MgrStep, PTL DEF Mgr!Spec

\* Types; only m_used ever holds a null pointer, and a descriptor epoll watches is open.
THEOREM MgrTypeCorrect == Mgr!Spec => []Mgr!TypeOK
<1>1. MgrInv => Mgr!TypeOK
  BY DEF MgrInv
<1> QED
  BY <1>1, MgrInvHolds, PTL

\* Every conn object is idle, freed or bound, never two of these, and under one key.
THEOREM OnePlaceHolds == Mgr!Spec => []OnePlace
<1>1. MgrInv => OnePlace
  <2> SUFFICES ASSUME MgrInv PROVE OnePlace
    OBVIOUS
  <2>1. Mgr!TypeOK /\ PlacedInv /\ UsedInv
    BY DEF MgrInv
  <2>2. \A c \in Conns : Mgr!Bound(c) <=> c \in Bound
    BY DEF Mgr!Bound, Mgr!NoFd, Bound
  <2>3. \A c \in Conns : ~(Mgr!In(m_conns, c) /\ Mgr!In(m_freed, c))
    BY <2>1 DEF PlacedInv, Mgr!In
  <2>4. \A c \in Conns : Mgr!In(m_conns, c) \/ Mgr!In(m_freed, c) => c \notin Bound
    BY <2>1 DEF PlacedInv, Mgr!In
  <2>5. \A c \in Conns : Mgr!In(m_used, c) => c \in Bound
    BY <2>1, MgrAssumption DEF UsedInv, Mgr!In
  <2>6. \A k, l \in DOMAIN m_conns : m_conns[k] = m_conns[l] => k = l
    BY <2>1 DEF PlacedInv
  <2>7. \A k, l \in DOMAIN m_freed : m_freed[k] = m_freed[l] => k = l
    BY <2>1 DEF PlacedInv
  <2> QED
    BY <2>2, <2>3, <2>4, <2>5, <2>6, <2>7 DEF OnePlace, Mgr!OnePlace
<1> QED
  BY <1>1, MgrInvHolds, PTL

\* An event is never handled for a session whose descriptor it is not, though m_used is
\* left with null entries and descriptors are handed out again within a batch.
THEOREM UsedIsOwnHolds == Mgr!Spec => []UsedIsOwn
<1>1. MgrInv => UsedIsOwn
  BY DEF MgrInv, UsedInv, SessionInv, UsedIsOwn, Mgr!UsedIsOwn
<1> QED
  BY <1>1, MgrInvHolds, PTL

\* No descriptor leaks or has two owners: the open ones are those of the idle
\* connections and of both ends of each session, and as many as these are.
THEOREM NoFdLeakHolds == Mgr!Spec => []NoFdLeak
<1>1. MgrInv => NoFdLeak
  <2> SUFFICES ASSUME MgrInv PROVE NoFdLeak
    OBVIOUS
  <2>1. Bound = {c \in Conns : Mgr!Bound(c)}
    BY DEF Bound, Mgr!Bound, Mgr!NoFd
  <2>2. Ends = {c \in Conns : Mgr!Bound(c) \/ Mgr!In(m_conns, c)}
    BY DEF Ends, Idle, Bound, Mgr!Bound, Mgr!NoFd
  <2> QED
    BY <2>1, <2>2, OpenFds, SameCardinality DEF NoFdLeak, Mgr!NoFdLeak
<1> QED
  BY <1>1, MgrInvHolds, PTL

-----------------------------------------------------------------------------
(* The pool of processes.  The parent decides by m_pid, its own record of who is   *)
(* left, which lags behind the children's lives: a child dies, is a zombie for a   *)
(* while and is reaped when SIGCHLD has been read from the pipe.  The record is    *)
(* exactly "not reaped", and m_stop is only ever set on an empty record; as a      *)
(* reaped child stays reaped, leaving the loop at any later time is then safe.     *)

ChildStates == {"starting", "running", "stopping", "zombie", "reaped"}

RecordInv ==
  /\ child \in [Pool!Children -> ChildStates]
  /\ m_pid \in [Pool!Children -> {-1} \union Pool!Children]
  /\ \A i \in Pool!Children : m_pid[i] = -1 <=> child[i] = "reaped"

StopInv ==
  /\ m_stop => \A i \in Pool!Children : m_pid[i] = -1
  /\ parent = "exited" => m_stop

PoolInv == RecordInv /\ StopInv

LEMMA PoolInitInv == Pool!Init => PoolInv
BY DEF Pool!Init, PoolInv, RecordInv, StopInv, ChildStates, Pool!Children

\* A step that changes a child's state without reaping it, and no record.
LEMMA Unreaped ==
  ASSUME PoolInv, UNCHANGED <<parent, m_stop, m_pid>>,
         child' \in [Pool!Children -> ChildStates],
         \A i \in Pool!Children : child'[i] = "reaped" <=> child[i] = "reaped"
  PROVE  PoolInv'
BY DEF PoolInv, RecordInv, StopInv

\* A child's own step never makes it reaped, nor any other.
LEMMA ChildMoves ==
  ASSUME PoolInv, UNCHANGED <<parent, m_stop, m_pid>>,
         NEW i \in Pool!Children, child[i] # "reaped",
         NEW s \in ChildStates, s # "reaped",
         child' = [child EXCEPT ![i] = s]
  PROVE  PoolInv'
<1>1. child \in [Pool!Children -> ChildStates]
  BY DEF PoolInv, RecordInv
<1>2. child' \in [Pool!Children -> ChildStates]
  BY <1>1
<1>3. \A j \in Pool!Children : child'[j] = "reaped" <=> child[j] = "reaped"
  BY <1>1
<1> QED
  BY <1>2, <1>3, Unreaped

LEMMA PoolStepInv == PoolInv /\ [Pool!Next]_(Pool!vars) => PoolInv'
<1> SUFFICES ASSUME PoolInv, [Pool!Next]_(Pool!vars) PROVE PoolInv'
  OBVIOUS
<1>1. CASE UNCHANGED Pool!procs
  BY <1>1 DEF PoolInv, RecordInv, StopInv, Pool!procs
<1>2. CASE Pool!Terminate
  BY <1>2 DEF Pool!Terminate, PoolInv, RecordInv, StopInv
<1>3. ASSUME NEW i \in Pool!Children, Pool!Crash(i) PROVE PoolInv'
  <2>1. child[i] # "reaped"
    BY <1>3 DEF Pool!Crash, Pool!Alive
  <2> QED
    BY <1>3, <2>1, ChildMoves DEF Pool!Crash, ChildStates
<1>4. CASE Pool!ParentReady
  BY <1>4 DEF Pool!ParentReady, PoolInv, RecordInv, StopInv
<1>5. CASE Pool!ParentReaps
  <2>1. /\ child' \in [Pool!Children -> ChildStates]
        /\ m_pid' \in [Pool!Children -> {-1} \union Pool!Children]
    BY <1>5 DEF Pool!ParentReaps, PoolInv, RecordInv, ChildStates
  <2>2. \A i \in Pool!Children : m_pid'[i] = -1 <=> child'[i] = "reaped"
    <3> SUFFICES ASSUME NEW i \in Pool!Children PROVE m_pid'[i] = -1 <=> child'[i] = "reaped"
      OBVIOUS
    <3>1. CASE child[i] = "zombie"
      BY <1>5, <3>1 DEF Pool!ParentReaps
    <3>2. CASE child[i] # "zombie"
      BY <1>5, <3>2 DEF Pool!ParentReaps, PoolInv, RecordInv
    <3> QED
      BY <3>1, <3>2
  <2>3. m_stop' => \A i \in Pool!Children : m_pid'[i] = -1
    BY <1>5 DEF Pool!ParentReaps
  <2>4. parent' # "exited"
    BY <1>5 DEF Pool!ParentReaps
  <2> QED
    BY <2>1, <2>2, <2>3, <2>4 DEF PoolInv, RecordInv, StopInv
<1>6. CASE Pool!ParentKills
  <2>1. PICK die \in SUBSET Pool!Children :
          /\ \A i \in die : child[i] = "starting"
          /\ child' = [i \in Pool!Children |-> IF i \in die THEN "zombie" ELSE child[i]]
    <3> DEFINE target == {m_pid[i] : i \in Pool!Children} \ {-1}
               die == {i \in target : child[i] = "starting"}
    <3>1. target \subseteq Pool!Children
      BY DEF PoolInv, RecordInv
    <3>2. child' = [i \in Pool!Children |-> IF i \in die THEN "zombie" ELSE child[i]]
      BY <1>6 DEF Pool!ParentKills
    <3> QED
      BY <3>1, <3>2
  <2>2. child' \in [Pool!Children -> ChildStates]
    BY <2>1 DEF PoolInv, RecordInv, ChildStates
  <2>3. \A i \in Pool!Children : child'[i] = "reaped" <=> child[i] = "reaped"
    BY <2>1
  <2> QED
    BY <1>6, <2>2, <2>3, Unreaped DEF Pool!ParentKills
<1>7. CASE Pool!ParentExits
  BY <1>7 DEF Pool!ParentExits, PoolInv, RecordInv, StopInv
<1>8. ASSUME NEW i \in Pool!Children, Pool!ChildReady(i) PROVE PoolInv'
  BY <1>8, ChildMoves DEF Pool!ChildReady, ChildStates
<1>9. ASSUME NEW i \in Pool!Children, Pool!ChildStops(i) PROVE PoolInv'
  <2>1. child[i] # "reaped"
    BY <1>9 DEF Pool!ChildStops, Pool!Handles
  <2> QED
    BY <1>9, <2>1, ChildMoves DEF Pool!ChildStops, ChildStates
<1>10. ASSUME NEW i \in Pool!Children, Pool!ChildExits(i) PROVE PoolInv'
  BY <1>10, ChildMoves DEF Pool!ChildExits, ChildStates
<1>11. CASE Pool!Connect
  BY <1>1, <1>11 DEF Pool!Connect
<1>12. CASE Pool!ParentNotifies
  BY <1>1, <1>12 DEF Pool!ParentNotifies
<1>13. ASSUME NEW i \in Pool!Children,
              Pool!ParentReadsRatio(i) \/ Pool!ChildAccepts(i) \/ Pool!SessionEnds(i)
       PROVE  PoolInv'
  BY <1>1, <1>13 DEF Pool!ParentReadsRatio, Pool!ChildAccepts, Pool!SessionEnds
<1>14. CASE UNCHANGED Pool!vars
  BY <1>1, <1>14 DEF Pool!vars, Pool!procs
<1> QED
  BY <1>2, <1>3, <1>4, <1>5, <1>6, <1>7, <1>8, <1>9, <1>10, <1>11, <1>12, <1>13, <1>14
     DEF Pool!Next, Pool!ParentStep, Pool!ChildStep

\* The inductive invariant of the process pool, for any number of children.
THEOREM PoolInvHolds == Pool!Spec => []PoolInv
BY PoolInitInv, PoolStepInv, PTL DEF Pool!Spec

\* run_parent returns only when every child has died, and no pid it keeps, and would pass
\* SIGTERM to, has been waited for.
THEOREM ParentKnowsHolds == Pool!Spec => []ParentKnows
<1>1. PoolInv => Pool!ParentExitsLast
  BY DEF PoolInv, RecordInv, StopInv, Pool!ParentExitsLast, Pool!Alive
<1>2. PoolInv => Pool!PidsAreOwn
  BY DEF PoolInv, RecordInv, Pool!PidsAreOwn
<1>3. PoolInv => ParentKnows
  BY <1>1, <1>2 DEF ParentKnows
<1> QED
  BY <1>3, PoolInvHolds, PTL

-----------------------------------------------------------------------------
(* Whoever is told of a client finds one: the events that are about, the listening *)
(* socket's and those of the children's pipes, are at most as many as the clients  *)
(* that wait.                                                                      *)

Told == {i \in Pool!Children : downEdge[i]}

ToldInv ==
  /\ downEdge \in [Pool!Children -> BOOLEAN] /\ listenEdge \in BOOLEAN /\ backlog \in Nat
  /\ Cardinality(Told) <= backlog
  /\ listenEdge => Cardinality(Told) < backlog

LEMMA ToldFinite == IsFiniteSet(Told) /\ Cardinality(Told) \in Nat
<1>1. IsFiniteSet(Pool!Children)
  BY PoolAssumption, FS_Interval DEF Pool!Children
<1> QED
  BY <1>1, FS_Subset, FS_CardinalityType DEF Told

LEMMA ToldStep == ToldInv /\ [Pool!Next]_(Pool!vars) => ToldInv'
<1> SUFFICES ASSUME ToldInv, [Pool!Next]_(Pool!vars) PROVE ToldInv'
  OBVIOUS
<1>1. CASE UNCHANGED <<downEdge, listenEdge, backlog>>
  BY <1>1 DEF ToldInv, Told
<1>2. CASE Pool!Connect
  <2>1. Told' = Told
    BY <1>2 DEF Pool!Connect, Pool!pipes, Told
  <2> QED
    BY <1>2, <2>1, ToldFinite DEF Pool!Connect, Pool!pipes, ToldInv
<1>3. CASE Pool!ParentNotifies
  <2> DEFINE m == Pool!MostFree
  <2>1. backlog' = backlog /\ listenEdge /\ listenEdge' = FALSE
    BY <1>3 DEF Pool!ParentNotifies
  <2>2. downEdge' = [downEdge EXCEPT ![m] = TRUE] \/ downEdge' = downEdge
    BY <1>3 DEF Pool!ParentNotifies
  <2>3. downEdge' \in [Pool!Children -> BOOLEAN]
    BY <2>2 DEF ToldInv
  <2>4. Told' \in SUBSET (Told \union {m})
    BY <2>2 DEF Told, ToldInv
  <2>5. /\ IsFiniteSet(Told \union {m})
        /\ Cardinality(Told \union {m}) <= Cardinality(Told) + 1
    BY ToldFinite, FS_AddElement
  <2>6. Cardinality(Told') <= Cardinality(Told \union {m}) /\ Cardinality(Told') \in Nat
    BY <2>4, <2>5, FS_Subset, FS_CardinalityType
  <2>7. Cardinality(Told \union {m}) \in Nat
    BY <2>5, FS_CardinalityType
  <2>8. Cardinality(Told') <= Cardinality(Told) + 1
    BY <2>5, <2>6, <2>7, ToldFinite
  <2>9. backlog \in Nat /\ Cardinality(Told) + 1 <= backlog
    BY <2>1, ToldFinite DEF ToldInv
  <2>10. Cardinality(Told') <= backlog'
    BY <2>1, <2>6, <2>8, <2>9, ToldFinite
  <2>11. backlog' \in Nat
    BY <2>1, <2>9
  <2>12. listenEdge' \in BOOLEAN /\ ~listenEdge'
    BY <2>1
  <2> HIDE DEF m
  <2> QED
    BY <2>3, <2>10, <2>11, <2>12, Zenon DEF ToldInv
<1>4. ASSUME NEW i \in Pool!Children, Pool!ChildAccepts(i) PROVE ToldInv'
  <2>1. i \in Told /\ Told' = Told \ {i}
    BY <1>4 DEF Pool!ChildAccepts, Told, ToldInv
  <2>2. Cardinality(Told') = Cardinality(Told) - 1 /\ Cardinality(Told) # 0
    BY <2>1, ToldFinite, FS_RemoveElement, FS_EmptySet
  <2>3. listenEdge' = listenEdge /\ downEdge' \in [Pool!Children -> BOOLEAN]
    BY <1>4 DEF Pool!ChildAccepts, ToldInv
  <2>4. backlog' = backlog - 1 /\ backlog' \in Nat
    BY <1>4, <2>2, ToldFinite DEF Pool!ChildAccepts, ToldInv
  <2> QED
    BY <2>2, <2>3, <2>4, ToldFinite DEF ToldInv
<1>5. ASSUME NEW i \in Pool!Children,
             Pool!Crash(i) \/ Pool!ParentReadsRatio(i) \/ Pool!ChildReady(i) \/ Pool!SessionEnds(i)
               \/ Pool!ChildStops(i) \/ Pool!ChildExits(i)
      PROVE  ToldInv'
  BY <1>1, <1>5 DEF Pool!Crash, Pool!ParentReadsRatio, Pool!ChildReady, Pool!SessionEnds, Pool!ChildStops,
                    Pool!ChildExits, Pool!pipes, Pool!clients
<1>6. CASE Pool!Terminate \/ Pool!ParentReady \/ Pool!ParentReaps \/ Pool!ParentKills \/ Pool!ParentExits
  BY <1>1, <1>6 DEF Pool!Terminate, Pool!ParentReady, Pool!ParentReaps, Pool!ParentKills, Pool!ParentExits,
                    Pool!pipes, Pool!clients
<1>7. CASE UNCHANGED Pool!vars
  BY <1>1, <1>7 DEF Pool!vars, Pool!pipes, Pool!clients
<1> QED
  BY <1>2, <1>3, <1>4, <1>5, <1>6, <1>7 DEF Pool!Next, Pool!ParentStep, Pool!ChildStep

\* A child that is told of a client finds one to accept, whoever accepts first and
\* however arrivals and notifications are merged.
THEOREM AcceptsAreToldHolds == Pool!Spec => []AcceptsAreTold
<1>1. Pool!Init => ToldInv
  <2> SUFFICES ASSUME Pool!Init PROVE ToldInv
    OBVIOUS
  <2>1. Told = {}
    BY DEF Pool!Init, Told
  <2>2. Cardinality(Told) = 0
    BY <2>1, FS_EmptySet
  <2>3. backlog \in Nat /\ Cardinality(Told) <= backlog
    BY <2>2 DEF Pool!Init
  <2>4. downEdge \in [Pool!Children -> BOOLEAN]
    BY DEF Pool!Init
  <2>5. listenEdge \in BOOLEAN /\ ~listenEdge
    BY DEF Pool!Init
  <2> QED
    BY <2>3, <2>4, <2>5, Zenon DEF ToldInv
<1>2. ToldInv => AcceptsAreTold
  <2> SUFFICES ASSUME ToldInv, NEW i \in Pool!Children, downEdge[i] PROVE backlog > 0
    BY DEF AcceptsAreTold, Pool!AcceptsAreTold
  <2>1. Cardinality(Told) # 0
    BY ToldFinite, FS_EmptySet DEF Told
  <2> QED
    BY <2>1, ToldFinite DEF ToldInv
<1> QED
  BY <1>1, <1>2, ToldStep, PTL DEF Pool!Spec
=============================================================================
