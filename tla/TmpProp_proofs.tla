--------------------------- MODULE TmpProp_proofs ---------------------------
(***************************************************************************)
(* Temporary properties, for every choice of constants.                    *)
(*                                                                         *)
(* 1. A new timer gets the right place in a sorted list of any length: the *)
(*    binary search is a recursive function, so there is a lemma that such *)
(*    a function exists, and one about its values, each by induction.      *)
(* 2. Types, among them that the list of timers stays sorted.              *)
(* 3. The set method of the master is on a property just as long as there  *)
(*    is an entry for it, and what others set is neither overwritten nor   *)
(*    lost, whatever fails, unless the master cannot tell it from its own  *)
(*    value.  None of that depends on the timers.                          *)
(* 4. Every entry has its own timer, behind those that do_update() is      *)
(*    through with, unless a SetTmpProp() that was cut off has taken it    *)
(*    out, so that it ends, and not before its time, unless an entry of    *)
(*    the same name was lost and has left its timer.                       *)
(***************************************************************************)
EXTENDS TmpProp, Induction, SequenceTheorems

-----------------------------------------------------------------------------
\* The bounds of the binary search in a list of n timers, those that it goes on
\* with, and that g is the function that Found() is defined by (316-326)
Bounds(n) == (0 .. n) \X (-1 .. n - 1)
Halved(b, tm, ts) ==
  LET pos == (b[1] + b[2]) \div 2 IN
  IF tm < ts[pos + 1].t THEN <<b[1], pos - 1>> ELSE <<pos + 1, b[2]>>
Looked(g, b, tm, ts) == IF b[1] >= b[2] THEN b[2] ELSE g[Halved(b, tm, ts)]
Searches(g, tm, ts) == g = [b \in Bounds(Len(ts)) |-> Looked(g, b, tm, ts)]

\* The bounds come closer with every step, and stay in the list.
LEMMA Halving ==
  ASSUME NEW tm \in Int, NEW ts \in Seq(Timer), NEW b \in Bounds(Len(ts))
  PROVE  /\ b[1] \in 0 .. Len(ts) /\ b[2] \in -1 .. Len(ts) - 1
         /\ b[1] < b[2] =>
              LET pos == (b[1] + b[2]) \div 2
                  h == Halved(b, tm, ts)
              IN /\ pos + 1 \in 1 .. Len(ts)
                 /\ h \in Bounds(Len(ts)) /\ h[2] - h[1] < b[2] - b[1]
                 /\ IF tm < ts[pos + 1].t THEN h[2] = pos - 1 ELSE h[2] = b[2]
<1>1. PICK l \in 0 .. Len(ts), r \in -1 .. Len(ts) - 1 : b = <<l, r>>
  BY DEF Bounds
<1>2. b[1] = l /\ b[2] = r
  BY <1>1
<1>3. Len(ts) \in Nat
  OBVIOUS
<1> DEFINE pos == (l + r) \div 2
<1>4. l < r => l <= pos /\ pos < r /\ pos \in Int
  BY <1>1, <1>2, <1>3
<1> HIDE DEF pos
<1>5. CASE l < r /\ tm < ts[pos + 1].t
  <2>1. Halved(b, tm, ts) = <<l, pos - 1>>
    BY <1>2, <1>5 DEF Halved, pos
  <2> QED
    BY <1>2, <1>3, <1>4, <1>5, <2>1 DEF Bounds, pos
<1>6. CASE l < r /\ ~(tm < ts[pos + 1].t)
  <2>1. Halved(b, tm, ts) = <<pos + 1, r>>
    BY <1>2, <1>6 DEF Halved, pos
  <2> QED
    BY <1>2, <1>3, <1>4, <1>6, <2>1 DEF Bounds, pos
<1> QED
  BY <1>2, <1>3, <1>5, <1>6

\* By induction over the distance of the bounds: there is such a function.
LEMMA SearchExists ==
  ASSUME NEW tm \in Int, NEW ts \in Seq(Timer)
  PROVE  \E g : Searches(g, tm, ts)
<1> DEFINE B == Bounds(Len(ts))
           Upto(g, d) == \A b \in B : b[2] - b[1] <= d => g[b] = Looked(g, b, tm, ts)
           S == {d \in Nat : \E g : Upto(g, d)}
<1>1. \A b \in B : b[1] \in Int /\ b[2] \in Int /\ b[2] - b[1] <= Len(ts)
  <2> TAKE b \in B
  <2>1. b[1] \in 0 .. Len(ts) /\ b[2] \in -1 .. Len(ts) - 1 /\ Len(ts) \in Nat
    BY Halving
  <2> QED
    BY <2>1
<1>2. \A b \in B : b[1] < b[2] =>
        Halved(b, tm, ts) \in B /\ Halved(b, tm, ts)[2] - Halved(b, tm, ts)[1] < b[2] - b[1]
  BY Halving
<1> HIDE DEF B
<1>3. 0 \in S
  <2> DEFINE g == [b \in B |-> b[2]]
  <2>1. Upto(g, 0)
    BY <1>1 DEF Looked
  <2> QED
    BY <2>1
<1>4. ASSUME NEW d \in S PROVE d + 1 \in S
  <2>1. PICK g : Upto(g, d)
    OBVIOUS
  <2> DEFINE h == [b \in B |-> Looked(g, b, tm, ts)]
  <2>2. ASSUME NEW b \in B, b[2] - b[1] <= d + 1
        PROVE  h[b] = Looked(h, b, tm, ts)
    <3>1. CASE b[1] >= b[2]
      BY <3>1 DEF Looked
    <3>2. CASE b[1] < b[2]
      <4> DEFINE c == Halved(b, tm, ts)
      <4>1. c \in B /\ c[2] - c[1] <= d /\ ~(b[1] >= b[2])
        BY <1>1, <1>2, <2>2, <3>2
      <4>2. g[c] = h[c]
        BY <2>1, <4>1
      <4>3. h[b] = g[c] /\ Looked(h, b, tm, ts) = h[c]
        BY <4>1 DEF Looked
      <4> QED
        BY <4>2, <4>3
    <3> QED
      BY <1>1, <3>1, <3>2
  <2> HIDE DEF h
  <2>3. Upto(h, d + 1)
    BY <2>2
  <2> QED
    BY <2>3
<1>5. Len(ts) \in S
  <2> HIDE DEF S
  <2>1. S \in SUBSET Nat
    BY DEF S
  <2>2. S = Nat
    BY <1>3, <1>4, <2>1, Induct
  <2> QED
    BY <2>2
<1>6. PICK g : Upto(g, Len(ts))
  BY <1>5
<1> DEFINE h == [b \in B |-> g[b]]
<1>7. \A b \in B : h[b] = Looked(h, b, tm, ts)
  <2> TAKE b \in B
  <2>1. g[b] = Looked(g, b, tm, ts)
    BY <1>1, <1>6
  <2>2. Looked(h, b, tm, ts) = Looked(g, b, tm, ts)
    BY <1>1, <1>2 DEF Looked
  <2> QED
    BY <2>1, <2>2
<1>8. h = [b \in B |-> Looked(h, b, tm, ts)]
  BY <1>7
<1>9. Searches(h, tm, ts)
  BY <1>8 DEF Searches, B
<1> QED
  BY <1>9

\* All timers after the one at p, which is counted from 0, are due later.
LaterAfter(p, tm, ts) == \A n \in DOMAIN ts : n >= p + 2 => tm < ts[n].t

\* The search ends with everything behind it due later.
LEMMA FoundAfter ==
  ASSUME NEW tm \in Int, NEW ts \in Seq(Timer), InOrder(ts), ts # <<>>
  PROVE  Found(tm, ts) \in -1 .. Len(ts) - 1 /\ LaterAfter(Found(tm, ts), tm, ts)
<1> DEFINE B == Bounds(Len(ts))
           g == CHOOSE f : Searches(f, tm, ts)
           Right(p) == p \in -1 .. Len(ts) - 1 /\ LaterAfter(p, tm, ts)
           S == {d \in Nat : \A b \in B :
                   b[2] - b[1] <= d /\ LaterAfter(b[2], tm, ts) => Right(g[b])}
<1>1. Found(tm, ts) = g[<<0, Len(ts) - 1>>]
  BY DEF Found, Searches, Looked, Halved, Bounds
<1>2. \A b \in B : g[b] = Looked(g, b, tm, ts)
  <2>1. Searches(g, tm, ts)
    BY SearchExists
  <2> QED
    BY <2>1 DEF Searches
<1>3. \A b \in B : b[1] \in 0 .. Len(ts) /\ b[2] \in -1 .. Len(ts) - 1
  BY Halving
<1>4. Len(ts) \in Nat /\ DOMAIN ts = 1 .. Len(ts) /\ \A n \in DOMAIN ts : ts[n].t \in Int
  <2>1. \A n \in DOMAIN ts : ts[n] \in Timer
    OBVIOUS
  <2> QED
    BY <2>1 DEF Timer
<1> HIDE DEF g
<1>5. 0 \in S
  <2> SUFFICES ASSUME NEW b \in B, b[2] - b[1] <= 0, LaterAfter(b[2], tm, ts)
               PROVE  Right(g[b])
    OBVIOUS
  <2>1. b[1] >= b[2]
    BY <1>3, <1>4
  <2> QED
    BY <1>2, <1>3, <2>1 DEF Looked
<1>6. ASSUME NEW d \in S PROVE d + 1 \in S
  <2> SUFFICES ASSUME NEW b \in B, b[2] - b[1] <= d + 1, LaterAfter(b[2], tm, ts)
               PROVE  Right(g[b])
    OBVIOUS
  <2> DEFINE h == Halved(b, tm, ts)
             pos == (b[1] + b[2]) \div 2
  <2>1. CASE b[1] >= b[2]
    BY <1>2, <1>3, <2>1 DEF Looked
  <2>2. CASE b[1] < b[2]
    <3>1. /\ pos + 1 \in DOMAIN ts /\ h \in B /\ h[2] - h[1] < b[2] - b[1]
          /\ IF tm < ts[pos + 1].t THEN h[2] = pos - 1 ELSE h[2] = b[2]
      BY <1>4, <2>2, Halving
    <3>0. pos \in Int
      BY <1>3
    <3> HIDE DEF h, pos
    <3>2. LaterAfter(h[2], tm, ts)
      <4>1. CASE tm < ts[pos + 1].t
        <5>1. \A n \in DOMAIN ts : n >= pos + 1 => ts[pos + 1].t <= ts[n].t
          BY <1>4, <3>1 DEF InOrder
        <5> QED
          BY <1>4, <3>0, <3>1, <4>1, <5>1 DEF LaterAfter
      <4>2. CASE ~(tm < ts[pos + 1].t)
        BY <3>1, <4>2
      <4> QED
        BY <4>1, <4>2
    <3>3. h[2] - h[1] <= d
      <4>1. /\ b[1] \in Int /\ b[2] \in Int /\ h[1] \in Int /\ h[2] \in Int
            /\ d \in Nat /\ b[2] - b[1] <= d + 1 /\ h[2] - h[1] < b[2] - b[1]
        BY <1>3, <3>1
      <4> QED
        BY <4>1
    <3>4. Right(g[h])
      BY <3>1, <3>2, <3>3
    <3>5. g[b] = g[h]
      BY <1>2, <1>3, <2>2 DEF Looked, h
    <3> QED
      BY <3>4, <3>5
  <2> QED
    BY <1>3, <2>1, <2>2
<1>7. Len(ts) \in S
  <2> HIDE DEF S
  <2>1. S \in SUBSET Nat
    BY DEF S
  <2>2. S = Nat
    BY <1>5, <1>6, <2>1, Induct
  <2> QED
    BY <1>4, <2>2
<1> DEFINE b == <<0, Len(ts) - 1>>
<1>8. b \in B /\ b[1] = 0 /\ b[2] = Len(ts) - 1
  BY <1>4 DEF Bounds
<1>9. LaterAfter(b[2], tm, ts) /\ b[2] - b[1] <= Len(ts)
  BY <1>4, <1>8 DEF LaterAfter
<1>10. Right(g[b])
  BY <1>7, <1>8, <1>9
<1> QED
  BY <1>1, <1>10

\* The loop back to a timer that is due no later (329-330)
GoesBack(g, tm, ts) ==
  g = [p \in -1 .. Len(ts) - 1 |->
         IF p >= 0 /\ tm < ts[p + 1].t THEN g[p - 1] ELSE p]

LEMMA BackExists ==
  ASSUME NEW tm \in Int, NEW ts \in Seq(Timer)
  PROVE  \E g : GoesBack(g, tm, ts)
<1> DEFINE B == -1 .. Len(ts) - 1
           BackOf(g, p) == IF p >= 0 /\ tm < ts[p + 1].t THEN g[p - 1] ELSE p
           Upto(g, d) == \A p \in B : p < d => g[p] = BackOf(g, p)
           S == {d \in Nat : \E g : Upto(g, d)}
<1>1. Len(ts) \in Nat
  OBVIOUS
<1>2. 0 \in S
  <2> DEFINE g == [p \in B |-> p]
  <2>1. Upto(g, 0)
    BY <1>1
  <2> QED
    BY <2>1
<1>3. ASSUME NEW d \in S PROVE d + 1 \in S
  <2>1. PICK g : Upto(g, d)
    OBVIOUS
  <2> DEFINE h == [p \in B |-> BackOf(g, p)]
  <2>2. ASSUME NEW p \in B, p < d + 1 PROVE h[p] = BackOf(h, p)
    <3>1. CASE p >= 0 /\ tm < ts[p + 1].t
      <4>1. p - 1 \in B /\ p - 1 < d
        BY <1>1, <2>2, <3>1
      <4>2. g[p - 1] = h[p - 1]
        BY <2>1, <4>1
      <4> QED
        BY <3>1, <4>2
    <3>2. CASE ~(p >= 0 /\ tm < ts[p + 1].t)
      BY <3>2
    <3> QED
      BY <3>1, <3>2
  <2> HIDE DEF h, BackOf
  <2>3. Upto(h, d + 1)
    BY <2>2
  <2> QED
    BY <2>3
<1>4. Len(ts) \in S
  <2> HIDE DEF S
  <2>1. S \in SUBSET Nat
    BY DEF S
  <2>2. S = Nat
    BY <1>2, <1>3, <2>1, Induct
  <2> QED
    BY <1>1, <2>2
<1>5. PICK g : Upto(g, Len(ts))
  BY <1>4
<1> DEFINE h == [p \in B |-> g[p]]
<1>6. \A p \in B : h[p] = BackOf(h, p)
  <2> TAKE p \in B
  <2>1. p < Len(ts)
    BY <1>1
  <2>2. g[p] = BackOf(g, p)
    BY <1>5, <2>1
  <2>3. p >= 0 => p - 1 \in B
    BY <1>1
  <2> QED
    BY <2>2, <2>3
<1>7. GoesBack(h, tm, ts)
  BY <1>6 DEF GoesBack
<1> QED
  BY <1>7

\* A new timer goes behind all timers that are due before it or with it, and
\* before all others (313-330).
Divides(p, tm, ts) ==
  /\ p \in 0 .. Len(ts)
  /\ \A n \in DOMAIN ts : ts[n].t <= tm <=> n <= p

LEMMA PlaceDivides ==
  ASSUME NEW tm \in Int, NEW ts \in Seq(Timer), InOrder(ts)
  PROVE  Divides(Place(tm, ts), tm, ts)
<1>1. CASE ts = <<>>
  BY <1>1 DEF Place, Divides
<1>2. CASE ts # <<>>
  <2> DEFINE B == -1 .. Len(ts) - 1
             g == CHOOSE f : GoesBack(f, tm, ts)
             Right(p) == /\ p \in B /\ LaterAfter(p, tm, ts)
                         /\ p >= 0 => ts[p + 1].t <= tm
             S == {d \in Nat : \A p \in B :
                     p < d /\ LaterAfter(p, tm, ts) => Right(g[p])}
  <2>1. Place(tm, ts) = g[Found(tm, ts)] + 1
    BY <1>2 DEF Place, GoesBack
  <2>2. \A p \in B : g[p] = IF p >= 0 /\ tm < ts[p + 1].t THEN g[p - 1] ELSE p
    <3>1. GoesBack(g, tm, ts)
      BY BackExists
    <3> QED
      BY <3>1 DEF GoesBack
  <2>3. Len(ts) \in Nat /\ DOMAIN ts = 1 .. Len(ts) /\ \A n \in DOMAIN ts : ts[n].t \in Int
    <3>1. \A n \in DOMAIN ts : ts[n] \in Timer
      OBVIOUS
    <3> QED
      BY <3>1 DEF Timer
  <2> HIDE DEF g
  <2>4. 0 \in S
    <3> SUFFICES ASSUME NEW p \in B, p < 0, LaterAfter(p, tm, ts) PROVE Right(g[p])
      OBVIOUS
    <3> QED
      BY <2>2, <2>3
  <2>5. ASSUME NEW d \in S PROVE d + 1 \in S
    <3> SUFFICES ASSUME NEW p \in B, p < d + 1, LaterAfter(p, tm, ts) PROVE Right(g[p])
      OBVIOUS
    <3>1. CASE p >= 0 /\ tm < ts[p + 1].t
      <4>1. p - 1 \in B /\ p - 1 < d
        BY <2>3, <3>1
      <4>2. LaterAfter(p - 1, tm, ts)
        BY <2>3, <3>1 DEF LaterAfter
      <4>3. Right(g[p - 1])
        BY <4>1, <4>2
      <4> QED
        BY <2>2, <3>1, <4>3
    <3>2. CASE ~(p >= 0 /\ tm < ts[p + 1].t)
      BY <2>2, <2>3, <3>2
    <3> QED
      BY <3>1, <3>2
  <2>6. Len(ts) \in S
    <3> HIDE DEF S
    <3>1. S \in SUBSET Nat
      BY DEF S
    <3>2. S = Nat
      BY <2>4, <2>5, <3>1, Induct
    <3> QED
      BY <2>3, <3>2
  <2>7. Right(g[Found(tm, ts)])
    <3>1. Found(tm, ts) \in B /\ LaterAfter(Found(tm, ts), tm, ts)
      BY <1>2, FoundAfter
    <3>2. Found(tm, ts) < Len(ts)
      BY <2>3, <3>1
    <3> QED
      BY <2>6, <3>1, <3>2
  <2> DEFINE q == g[Found(tm, ts)]
  <2>8. /\ q \in B /\ q + 1 \in 0 .. Len(ts) /\ LaterAfter(q, tm, ts)
        /\ q >= 0 => ts[q + 1].t <= tm
    BY <2>3, <2>7
  <2> HIDE DEF q
  <2>9. ASSUME NEW n \in DOMAIN ts
        PROVE  ts[n].t <= tm <=> n <= q + 1
    <3>1. CASE n >= q + 2
      BY <2>3, <2>8, <3>1 DEF LaterAfter
    <3>2. CASE n <= q + 1
      <4>1. q >= 0 /\ q + 1 \in DOMAIN ts
        BY <2>3, <2>8, <3>2
      <4>2. ts[n].t <= ts[q + 1].t
        BY <3>2, <4>1 DEF InOrder
      <4> QED
        BY <2>3, <2>8, <3>2, <4>1, <4>2
    <3> QED
      BY <2>3, <2>8, <3>1, <3>2
  <2> QED
    BY <2>1, <2>8, <2>9 DEF Divides, q
<1> QED
  BY <1>1, <1>2

LEMMA Joined ==
  ASSUME NEW S, NEW u \in Seq(S), NEW v \in Seq(S)
  PROVE  /\ u \o v \in Seq(S) /\ Len(u \o v) = Len(u) + Len(v)
         /\ DOMAIN (u \o v) = 1 .. Len(u) + Len(v)
         /\ \A n \in 1 .. Len(u) : (u \o v)[n] = u[n]
         /\ \A n \in Len(u) + 1 .. Len(u) + Len(v) : (u \o v)[n] = v[n - Len(u)]
<1>1. Len(u) \in Nat /\ Len(v) \in Nat
  OBVIOUS
<1>2. \A n \in 1 .. Len(u) + Len(v) :
        (u \o v)[n] = IF n <= Len(u) THEN u[n] ELSE v[n - Len(u)]
  BY ConcatProperties
<1>3. \A n \in Len(u) + 1 .. Len(u) + Len(v) : (u \o v)[n] = v[n - Len(u)]
  <2> TAKE n \in Len(u) + 1 .. Len(u) + Len(v)
  <2>1. n \in 1 .. Len(u) + Len(v) /\ ~(n <= Len(u))
    BY <1>1
  <2> QED
    BY <1>2, <2>1
<1> QED
  BY <1>1, <1>2, <1>3, ConcatProperties

LEMMA Removed ==
  ASSUME NEW ts \in Seq(Timer), NEW l \in DOMAIN ts
  PROVE  LET us == SubSeq(ts, 1, l - 1) \o SubSeq(ts, l + 1, Len(ts))
         IN  /\ us \in Seq(Timer) /\ Len(us) = Len(ts) - 1
             /\ \A n \in DOMAIN us : us[n] = IF n < l THEN ts[n] ELSE ts[n + 1]
<1>1. l \in 1 .. Len(ts) /\ Len(ts) \in Nat
  OBVIOUS
<1> DEFINE u == SubSeq(ts, 1, l - 1)
           v == SubSeq(ts, l + 1, Len(ts))
<1>2. u \in Seq(Timer) /\ Len(u) = l - 1 /\ \A n \in 1 .. l - 1 : u[n] = ts[n]
  BY <1>1, SubSeqProperties
<1>3. v \in Seq(Timer) /\ Len(v) = Len(ts) - l /\ \A n \in 1 .. Len(ts) - l : v[n] = ts[l + n]
  BY <1>1, SubSeqProperties
<1> HIDE DEF u, v
<1>4. /\ u \o v \in Seq(Timer) /\ Len(u \o v) = Len(ts) - 1
      /\ DOMAIN (u \o v) = 1 .. Len(ts) - 1
  BY <1>1, <1>2, <1>3, Joined
<1>5. ASSUME NEW n \in 1 .. Len(ts) - 1
      PROVE  (u \o v)[n] = IF n < l THEN ts[n] ELSE ts[n + 1]
  <2>1. CASE n < l
    <3>1. n \in 1 .. Len(u) /\ n \in 1 .. l - 1
      BY <1>1, <1>2, <2>1
    <3> QED
      BY <1>2, <1>3, <2>1, <3>1, Joined
  <2>2. CASE ~(n < l)
    <3> DEFINE m == n - (l - 1)
    <3>1. /\ n \in Len(u) + 1 .. Len(u) + Len(v) /\ m \in 1 .. Len(ts) - l
          /\ n - Len(u) = m /\ l + m = n + 1
      BY <1>1, <1>2, <1>3, <2>2
    <3> HIDE DEF m
    <3>2. (u \o v)[n] = v[m]
      BY <1>2, <1>3, <3>1, Joined
    <3> QED
      BY <1>3, <2>2, <3>1, <3>2
  <2> QED
    BY <2>1, <2>2
<1> QED
  BY <1>4, <1>5 DEF u, v

\* The list with one more timer, behind p others
Added(ts, p, x) == SubSeq(ts, 1, p) \o <<x>> \o SubSeq(ts, p + 1, Len(ts))

LEMMA AddedFacts ==
  ASSUME NEW ts \in Seq(Timer), NEW p \in 0 .. Len(ts), NEW x \in Timer
  PROVE  /\ Added(ts, p, x) \in Seq(Timer) /\ Len(Added(ts, p, x)) = Len(ts) + 1
         /\ \A n \in DOMAIN Added(ts, p, x) :
              Added(ts, p, x)[n] =
                IF n <= p THEN ts[n] ELSE IF n = p + 1 THEN x ELSE ts[n - 1]
<1>1. Len(ts) \in Nat /\ p \in Nat /\ p <= Len(ts)
  OBVIOUS
<1> DEFINE u == SubSeq(ts, 1, p)
           v == SubSeq(ts, p + 1, Len(ts))
           w == u \o <<x>>
<1>2. u \in Seq(Timer) /\ Len(u) = p /\ \A n \in 1 .. p : u[n] = ts[n]
  BY <1>1, SubSeqProperties
<1>3. v \in Seq(Timer) /\ Len(v) = Len(ts) - p /\ \A n \in 1 .. Len(ts) - p : v[n] = ts[p + n]
  BY <1>1, SubSeqProperties
<1> HIDE DEF u, v
<1>4. /\ w \in Seq(Timer) /\ Len(w) = p + 1
      /\ \A n \in 1 .. p + 1 : w[n] = IF n <= p THEN ts[n] ELSE x
  BY <1>2
<1> HIDE DEF w
<1>5. /\ w \o v \in Seq(Timer) /\ Len(w \o v) = Len(ts) + 1
      /\ DOMAIN (w \o v) = 1 .. Len(ts) + 1
  <2>1. Len(w) + Len(v) = Len(ts) + 1
    BY <1>1, <1>3, <1>4
  <2>2. w \in Seq(Timer) /\ v \in Seq(Timer)
    BY <1>3, <1>4
  <2> QED
    BY <2>1, <2>2, Joined
<1>6. ASSUME NEW n \in 1 .. Len(ts) + 1
      PROVE  (w \o v)[n] = IF n <= p THEN ts[n] ELSE IF n = p + 1 THEN x ELSE ts[n - 1]
  <2>1. CASE n <= p
    <3>1. n \in 1 .. Len(w) /\ n \in 1 .. p /\ n \in 1 .. p + 1
      BY <1>1, <1>4, <2>1
    <3>2. (w \o v)[n] = w[n]
      BY <1>3, <1>4, <3>1, Joined
    <3> QED
      BY <1>2, <1>4, <2>1, <3>1, <3>2 DEF w
  <2>2. CASE n = p + 1
    <3>1. n \in 1 .. Len(w) /\ n \in 1 .. p + 1 /\ ~(n <= p)
      BY <1>1, <1>4, <2>2
    <3>2. (w \o v)[n] = w[n]
      BY <1>3, <1>4, <3>1, Joined
    <3> QED
      BY <1>4, <2>2, <3>1, <3>2
  <2>3. CASE n > p + 1
    <3> DEFINE m == n - (p + 1)
    <3>1. /\ n \in Len(w) + 1 .. Len(w) + Len(v) /\ m \in 1 .. Len(ts) - p
          /\ n - Len(w) = m /\ p + m = n - 1 /\ ~(n <= p) /\ n # p + 1
      BY <1>1, <1>3, <1>4, <2>3
    <3> HIDE DEF m
    <3>2. (w \o v)[n] = v[m]
      BY <1>3, <1>4, <3>1, Joined
    <3> QED
      BY <1>3, <3>1, <3>2
  <2>4. n <= p \/ n = p + 1 \/ n > p + 1
    BY <1>1
  <2> QED
    BY <2>1, <2>2, <2>3, <2>4, Zenon
<1>7. Added(ts, p, x) = w \o v
  BY DEF u, v, w, Added
<1> DEFINE z == w \o v
<1>8. /\ z \in Seq(Timer) /\ Len(z) = Len(ts) + 1
      /\ \A n \in DOMAIN z : z[n] = IF n <= p THEN ts[n] ELSE IF n = p + 1 THEN x ELSE ts[n - 1]
  BY <1>5, <1>6, Zenon
<1>9. Added(ts, p, x) = z
  BY <1>7
<1> HIDE DEF z
<1> QED
  BY <1>8, <1>9, Zenon

\* The last of the timers of a name, and the list without it
LEMMA WithoutLast ==
  ASSUME NEW ts \in Seq(Timer), NEW k \in NAME
  PROVE  \/ k \notin KeysOf(ts) /\ Without(k, ts) = ts
         \/ \E l \in DOMAIN ts :
              /\ ts[l].key = k /\ \A n \in DOMAIN ts : ts[n].key = k => n <= l
              /\ Without(k, ts) \in Seq(Timer) /\ Len(Without(k, ts)) = Len(ts) - 1
              /\ \A n \in DOMAIN Without(k, ts) :
                   Without(k, ts)[n] = IF n < l THEN ts[n] ELSE ts[n + 1]
<1> DEFINE ns == {n \in DOMAIN ts : ts[n].key = k}
           last == CHOOSE n \in ns : \A m \in ns : m <= n
<1>1. CASE ns = {}
  BY <1>1 DEF Without, KeysOf
<1>2. CASE ns # {}
  <2>1. Len(ts) \in Nat /\ DOMAIN ts = 1 .. Len(ts)
    OBVIOUS
  <2>2. \E n \in ns : \A m \in ns : m <= n
    <3> DEFINE S == {Len(ts) - n : n \in ns}
    <3>1. S \in SUBSET Nat /\ S # {}
      BY <1>2, <2>1
    <3> HIDE DEF S
    <3>2. PICK x \in S : \A y \in S : x <= y
      BY <3>1, Least
    <3>3. PICK n \in ns : x = Len(ts) - n
      BY DEF S
    <3>4. ASSUME NEW m \in ns PROVE m <= n
      <4>1. Len(ts) - m \in S
        BY DEF S
      <4>2. x <= Len(ts) - m
        BY <3>2, <4>1
      <4> QED
        BY <2>1, <3>3, <4>2
    <3> QED
      BY <3>4
  <2>3. last \in ns /\ \A m \in ns : m <= last
    BY <2>2
  <2>4. Without(k, ts) = SubSeq(ts, 1, last - 1) \o SubSeq(ts, last + 1, Len(ts))
    BY <1>2 DEF Without
  <2> HIDE DEF last
  <2>5. last \in DOMAIN ts /\ ts[last].key = k /\ \A n \in DOMAIN ts : ts[n].key = k => n <= last
    BY <2>3
  <2>6. /\ Without(k, ts) \in Seq(Timer) /\ Len(Without(k, ts)) = Len(ts) - 1
        /\ \A n \in DOMAIN Without(k, ts) :
             Without(k, ts)[n] = IF n < last THEN ts[n] ELSE ts[n + 1]
    <3> DEFINE w == SubSeq(ts, 1, last - 1) \o SubSeq(ts, last + 1, Len(ts))
    <3>1. last \in DOMAIN ts
      BY <2>5
    <3>2. /\ w \in Seq(Timer) /\ Len(w) = Len(ts) - 1
          /\ \A n \in DOMAIN w : w[n] = IF n < last THEN ts[n] ELSE ts[n + 1]
      BY <3>1, Removed
    <3>3. Without(k, ts) = w
      BY <2>4
    <3> HIDE DEF w
    <3> QED
      BY <3>2, <3>3, Zenon
  <2> QED
    BY <2>5, <2>6
<1> QED
  BY <1>1, <1>2

USE ConstantsAssumption DEF ConstantsAssumption

\* Wherever PlaceRight looks, the place is the number of the timers that are due
\* before the new one or with it, however long the lists are.
THEOREM PlacesRight == Spec => []PlaceRight
<1>1. ASSUME NEW ts \in SortedLists, NEW tm \in -1 .. 4
      PROVE  Place(tm, ts) = Cardinality({n \in DOMAIN ts : ts[n].t <= tm})
  <2>1. ts \in Seq(Timer) /\ InOrder(ts)
    <3>1. PICK c \in 0 .. MaxTimers : ts \in [1 .. c -> [t : 0 .. 3, key : NAME]]
      BY DEF SortedLists
    <3>2. c \in Nat /\ [t : 0 .. 3, key : NAME] \subseteq Timer
      BY DEF Timer
    <3>3. ts \in [1 .. c -> Timer]
      BY <3>1, <3>2
    <3>4. ts \in Seq(Timer)
      BY <3>2, <3>3, SeqDef
    <3> QED
      BY <3>4 DEF SortedLists
  <2> DEFINE p == Place(tm, ts)
  <2>2. tm \in Int /\ Len(ts) \in Nat /\ DOMAIN ts = 1 .. Len(ts)
    BY <2>1
  <2>3. p \in 0 .. Len(ts) /\ \A n \in DOMAIN ts : ts[n].t <= tm <=> n <= p
    BY <2>1, <2>2, PlaceDivides DEF Divides
  <2> HIDE DEF p
  <2>4. {n \in DOMAIN ts : ts[n].t <= tm} = 1 .. p
    BY <2>2, <2>3
  <2>5. Cardinality(1 .. p) = p
    <3>1. 1 \in Int /\ p \in Int /\ (IF 1 > p THEN 0 ELSE p - 1 + 1) = p
      BY <2>2, <2>3
    <3> QED
      BY <3>1, FS_Interval
  <2> QED
    BY <2>4, <2>5 DEF p
<1>2. PlaceRight
  BY <1>1 DEF PlaceRight
<1> QED
  BY <1>2, PTL

LEMMA SortedWithout ==
  ASSUME NEW ts \in Seq(Timer), InOrder(ts), NEW k \in NAME
  PROVE  Without(k, ts) \in Seq(Timer) /\ InOrder(Without(k, ts))
<1>1. CASE Without(k, ts) = ts
  BY <1>1
<1>2. CASE Without(k, ts) # ts
  <2>1. PICK l \in DOMAIN ts :
          /\ Without(k, ts) \in Seq(Timer) /\ Len(Without(k, ts)) = Len(ts) - 1
          /\ \A n \in DOMAIN Without(k, ts) :
               Without(k, ts)[n] = IF n < l THEN ts[n] ELSE ts[n + 1]
    BY <1>2, WithoutLast
  <2>2. ASSUME NEW m \in DOMAIN Without(k, ts), NEW n \in DOMAIN Without(k, ts), m <= n
        PROVE  Without(k, ts)[m].t <= Without(k, ts)[n].t
    <3>1. Len(ts) \in Nat /\ m \in 1 .. Len(ts) - 1 /\ n \in 1 .. Len(ts) - 1 /\ l \in Nat
      BY <2>1
    <3> DEFINE a == IF m < l THEN m ELSE m + 1
               b == IF n < l THEN n ELSE n + 1
    <3>2. a \in DOMAIN ts /\ b \in DOMAIN ts /\ a <= b
      BY <2>2, <3>1
    <3>3. Without(k, ts)[m] = ts[a] /\ Without(k, ts)[n] = ts[b]
      BY <2>1
    <3> QED
      BY <3>2, <3>3 DEF InOrder
  <2> QED
    BY <2>1, <2>2 DEF InOrder
<1> QED
  BY <1>1, <1>2

LEMMA InsertedFacts ==
  ASSUME NEW ts \in Seq(Timer), InOrder(ts), NEW k \in NAME, NEW tm \in Int
  PROVE  /\ Inserted(k, tm, ts) \in Seq(Timer) /\ Len(Inserted(k, tm, ts)) = Len(ts) + 1
         /\ InOrder(Inserted(k, tm, ts))
         /\ Divides(Place(tm, ts), tm, ts)
         /\ \A n \in DOMAIN Inserted(k, tm, ts) :
              Inserted(k, tm, ts)[n] =
                IF n <= Place(tm, ts) THEN ts[n]
                ELSE IF n = Place(tm, ts) + 1 THEN [t |-> tm, key |-> k] ELSE ts[n - 1]
<1> DEFINE us == Inserted(k, tm, ts)
           p == Place(tm, ts)
           x == [t |-> tm, key |-> k]
<1>1. x \in Timer /\ x.t = tm
  BY DEF Timer
<1>2. Divides(p, tm, ts)
  BY PlaceDivides
<1>3. p \in 0 .. Len(ts) /\ Len(ts) \in Nat
  BY <1>2 DEF Divides
<1>4. us = Added(ts, p, x)
  BY DEF Inserted, Added
<1> HIDE DEF us, p, x
<1>5. /\ us \in Seq(Timer) /\ Len(us) = Len(ts) + 1
      /\ \A n \in DOMAIN us :
           us[n] = IF n <= p THEN ts[n] ELSE IF n = p + 1 THEN x ELSE ts[n - 1]
  <2>1. p \in 0 .. Len(ts) /\ x \in Timer
    BY <1>1, <1>3
  <2>2. Added(ts, p, x) \in Seq(Timer) /\ Len(Added(ts, p, x)) = Len(ts) + 1
    BY <2>1, AddedFacts
  <2>3. ASSUME NEW n \in DOMAIN Added(ts, p, x)
        PROVE Added(ts, p, x)[n] = IF n <= p THEN ts[n] ELSE IF n = p + 1 THEN x ELSE ts[n - 1]
    BY <2>1, AddedFacts
  <2> QED
    BY <1>4, <2>2, <2>3
<1>6. DOMAIN us = 1 .. Len(ts) + 1 /\ DOMAIN ts = 1 .. Len(ts)
  BY <1>5
<1>7. \A n \in DOMAIN ts : ts[n].t \in Int
  <2>1. \A n \in DOMAIN ts : ts[n] \in Timer
    OBVIOUS
  <2> QED
    BY <2>1 DEF Timer
<1>8. ASSUME NEW m \in DOMAIN us, NEW n \in DOMAIN us, m <= n
      PROVE  us[m].t <= us[n].t
  <2>1. CASE n <= p
    <3>1. us[m] = ts[m] /\ us[n] = ts[n] /\ m \in DOMAIN ts /\ n \in DOMAIN ts
      BY <1>3, <1>5, <1>6, <1>8, <2>1
    <3> QED
      BY <1>8, <3>1 DEF InOrder
  <2>2. CASE n = p + 1
    <3>1. us[n].t = tm
      BY <1>1, <1>3, <1>5, <2>2
    <3>2. CASE m = n
      BY <3>1, <3>2
    <3>3. CASE m # n
      <4>1. m <= p /\ us[m] = ts[m] /\ m \in DOMAIN ts
        BY <1>3, <1>5, <1>6, <1>8, <2>2, <3>3
      <4> QED
        BY <1>2, <3>1, <4>1 DEF Divides
    <3> QED
      BY <3>2, <3>3
  <2>3. CASE n > p + 1
    <3>1. us[n] = ts[n - 1] /\ n - 1 \in DOMAIN ts /\ ~(n - 1 <= p)
      BY <1>3, <1>5, <1>6, <2>3
    <3>2. tm < us[n].t
      BY <1>2, <1>7, <3>1 DEF Divides
    <3>3. CASE m <= p
      <4>1. us[m] = ts[m] /\ m \in DOMAIN ts /\ m <= n - 1
        BY <1>3, <1>5, <1>6, <2>3, <3>3
      <4> QED
        BY <3>1, <4>1 DEF InOrder
    <3>4. CASE m = p + 1
      <4>1. us[m].t = tm
        BY <1>1, <1>3, <1>5, <3>4
      <4> QED
        BY <1>7, <3>1, <3>2, <4>1
    <3>5. CASE m > p + 1
      <4>1. us[m] = ts[m - 1] /\ m - 1 \in DOMAIN ts /\ m - 1 <= n - 1
        BY <1>3, <1>5, <1>6, <1>8, <3>5
      <4> QED
        BY <3>1, <4>1 DEF InOrder
    <3> QED
      BY <1>3, <1>6, <3>3, <3>4, <3>5
  <2> QED
    BY <1>3, <1>6, <2>1, <2>2, <2>3
<1>9. InOrder(us)
  BY <1>8 DEF InOrder
<1> QED
  BY <1>2, <1>5, <1>9 DEF us, p, x
-----------------------------------------------------------------------------
TypeInv ==
  /\ TypeOK
  /\ index # None => pc = "loop" /\ i < max
  /\ pc = "idle" => i = 0

Lists == {ts \in Seq(Timer) : InOrder(ts)}

\* The parts of the type invariant, as sets
LEMMA TypeParts ==
  TypeOK <=> /\ reset_times \in Lists
             /\ in_progress \in [NAME -> Entry \cup {None}]
             /\ callout \in {NoCallOut} \cup Nat
             /\ pc \in {"idle", "loop"} /\ i \in 0 .. max /\ max \in Nat
             /\ index \in NAME \cup {None}
             /\ alive \subseteq NAME
             /\ prop \in [NAME -> Property]
             /\ base \in [NAME -> Value]
             /\ mistaken \subseteq NAME /\ spoilt \subseteq NAME
             /\ sets \in 0 .. MaxSets
BY Zenon DEF TypeOK, Lists, InOrder

LEMMA EmptyList == <<>> \in Lists
BY DEF Lists, InOrder

LEMMA ListWithout == \A ts \in Lists : \A k \in NAME : Without(k, ts) \in Lists
BY SortedWithout DEF Lists

LEMMA ListInserted ==
  \A ts \in Lists : \A k \in NAME : \A tm \in Int : Inserted(k, tm, ts) \in Lists
BY InsertedFacts DEF Lists

LEMMA ListKeys == \A ts \in Lists : KeysOf(ts) \subseteq NAME
<1> TAKE ts \in Lists
<1>1. \A n \in DOMAIN ts : ts[n] \in Timer
  BY DEF Lists
<1> QED
  BY <1>1 DEF KeysOf, Timer

\* The timers from a place on
LEMMA RestFacts ==
  ASSUME NEW ts \in Seq(Timer), NEW j \in 0 .. Len(ts)
  PROVE  LET r == SubSeq(ts, j + 1, Len(ts))
         IN  /\ r \in Seq(Timer) /\ Len(r) = Len(ts) - j
             /\ \A n \in 1 .. Len(ts) - j : r[n] = ts[j + n]
BY SubSeqProperties

LEMMA ListRest ==
  ASSUME NEW ts \in Lists, NEW j \in Nat
  PROVE  SubSeq(ts, j + 1, Len(ts)) \in Lists
<1> DEFINE r == SubSeq(ts, j + 1, Len(ts))
<1>1. ts \in Seq(Timer) /\ Len(ts) \in Nat
  BY DEF Lists
<1>2. CASE j <= Len(ts)
  <2>1. /\ r \in Seq(Timer) /\ Len(r) = Len(ts) - j
        /\ \A n \in 1 .. Len(ts) - j : r[n] = ts[j + n]
    BY <1>1, <1>2, RestFacts
  <2> HIDE DEF r
  <2>2. ASSUME NEW m \in DOMAIN r, NEW n \in DOMAIN r, m <= n
        PROVE  r[m].t <= r[n].t
    <3>1. m \in 1 .. Len(ts) - j /\ n \in 1 .. Len(ts) - j
      BY <2>1
    <3>2. r[m] = ts[j + m] /\ r[n] = ts[j + n]
      BY <2>1, <3>1
    <3>3. j + m \in DOMAIN ts /\ j + n \in DOMAIN ts /\ j + m <= j + n
      BY <1>1, <2>2, <3>1
    <3> QED
      BY <3>2, <3>3 DEF Lists, InOrder
  <2>3. r \in Lists
    BY <2>1, <2>2 DEF Lists, InOrder
  <2> QED
    BY <2>3 DEF r
<1>3. CASE j > Len(ts)
  <2>1. r = <<>>
    BY <1>1, <1>3
  <2> QED
    BY <2>1, EmptyList
<1> QED
  BY <1>1, <1>2, <1>3

\* A second later the order is the same.
LEMMA ListLater ==
  ASSUME NEW ts \in Lists,
         NEW us, us = [n \in DOMAIN ts |-> [ts[n] EXCEPT !.t = Later(@)]]
  PROVE  us \in Lists
<1>1. ts \in Seq(Timer) /\ Len(ts) \in Nat /\ DOMAIN ts = 1 .. Len(ts)
  BY DEF Lists
<1>2. \A n \in DOMAIN ts : ts[n] \in Timer
  BY <1>1
<1>3. /\ DOMAIN us = DOMAIN ts
      /\ \A n \in DOMAIN ts : us[n] \in Timer /\ us[n].t = Later(ts[n].t)
  BY <1>2 DEF Later, Timer
<1>4. us \in Seq(Timer)
  <2>1. us \in [1 .. Len(ts) -> Timer]
    BY <1>1, <1>3
  <2> QED
    BY <1>1, <2>1, SeqDef
<1>5. ASSUME NEW m \in DOMAIN us, NEW n \in DOMAIN us, m <= n
      PROVE  us[m].t <= us[n].t
  <2>1. ts[m].t <= ts[n].t /\ ts[m].t \in Int /\ ts[n].t \in Int
    BY <1>2, <1>3, <1>5 DEF Lists, InOrder, Timer
  <2>2. us[m].t = Later(ts[m].t) /\ us[n].t = Later(ts[n].t)
    BY <1>3
  <2> QED
    BY <2>1, <2>2 DEF Later
<1> QED
  BY <1>4, <1>5 DEF Lists, InOrder

LEMMA UpdateTyped == \A ts \in Lists : NextUpdate(ts) \in {NoCallOut} \cup Nat
<1> TAKE ts \in Lists
<1>1. ts = <<>> \/ Head(ts).t \in Int
  <2>1. ts = <<>> \/ Head(ts) \in Timer
    BY HeadTailProperties DEF Lists
  <2> QED
    BY <2>1 DEF Timer
<1> QED
  BY <1>1 DEF NextUpdate

LEMMA EndedTyped ==
  ASSUME prop \in [NAME -> Property], in_progress \in [NAME -> Entry \cup {None}],
         NEW k \in NAME, Running(k)
  PROVE  Ended(k) \in Property
<1>1. /\ prop[k] \in Property /\ in_progress[k] \in Entry
  BY DEF Running
<1>2. in_progress[k].old \in Value
  BY <1>1 DEF Entry
<1> QED
  BY <1>1, <1>2 DEF Ended, Property

LEMMA FreshTyped == Fresh \in Property /\ Fresh.value \in Own /\ ~Fresh.set
<1>1. (CHOOSE v \in Own : TRUE) \in Own
  OBVIOUS
<1> QED
  BY <1>1 DEF Fresh, Property, Value

LEMMA InitTypeInv == Init => TypeInv
<1> SUFFICES ASSUME Init PROVE TypeInv
  OBVIOUS
<1>1. reset_times \in Lists
  BY EmptyList DEF Init
<1>2. prop \in [NAME -> Property] /\ base \in [NAME -> Value]
  BY FreshTyped DEF Init, Value
<1>3. TypeOK
  BY <1>1, <1>2, TypeParts DEF Init
<1> QED
  BY <1>3 DEF TypeInv, Init

\* What SetTmpProp(), RemoveTmpProp() and SetProp() leave of the property and
\* the timers when they end the temporary value
LEMMA EndsTyped ==
  ASSUME TypeInv, NEW k \in NAME
  PROVE  /\ Cleared(k) \in Property
         /\ Without(k, reset_times) \in Lists /\ TimersOfOthers(k) \in Lists
BY EndedTyped, ListWithout, TypeParts DEF TypeInv, Cleared, TimersOfOthers

\* Objects act: the local variables of do_update() are as they were.
LEMMA ObjectsTyped ==
  ASSUME TypeInv, UNCHANGED locals,
         reset_times' \in Lists,
         in_progress' \in [NAME -> Entry \cup {None}],
         callout' \in {NoCallOut} \cup Nat,
         alive' \subseteq NAME,
         prop' \in [NAME -> Property],
         base' \in [NAME -> Value],
         mistaken' \subseteq NAME,
         spoilt' \subseteq NAME,
         sets' \in 0 .. MaxSets
  PROVE  TypeInv'
<1>1. TypeOK'
  BY TypeParts DEF TypeInv, locals, TypeOK, Lists, InOrder
<1> QED
  BY <1>1 DEF TypeInv, locals

LEMMA SetTyped ==
  ASSUME TypeInv, NEW k \in NAME, NEW tm \in Times, NEW sp \in BOOLEAN, SetTmpProp(k, tm, sp)
  PROVE  TypeInv'
<1> DEFINE p == Cleared(k)
           q == IF sp THEN [p EXCEPT !.value = Tmp]
                      ELSE [p EXCEPT !.query = TRUE, !.set = TRUE]
           e == [there |-> TRUE, old |-> IF sp THEN p.value ELSE Tmp, sp |-> sp,
                 until |-> tm, cut |-> FALSE]
           ts == Inserted(k, tm, TimersOfOthers(k))
<1>1. p \in Property /\ TimersOfOthers(k) \in Lists /\ tm \in Int
  BY EndsTyped, ConstantsAssumption
<1>2. /\ UNCHANGED <<locals, base, mistaken, spoilt>> /\ alive' = alive
      /\ sets < MaxSets /\ sets' = sets + 1
      /\ prop' = [prop EXCEPT ![k] = q] /\ in_progress' = [in_progress EXCEPT ![k] = e]
      /\ reset_times' = ts /\ callout' = NextUpdate(ts)
  BY DEF SetTmpProp, OthersAct
<1> HIDE DEF p
<1>3. q \in Property /\ e \in Entry
  BY <1>1 DEF Property, Entry, Value
<1> HIDE DEF q, e
<1>4. ts \in Lists /\ NextUpdate(ts) \in {NoCallOut} \cup Nat
  BY <1>1, ListInserted, UpdateTyped
<1> HIDE DEF ts
<1>5. TypeOK
  BY DEF TypeInv
<1>6. /\ in_progress' \in [NAME -> Entry \cup {None}] /\ prop' \in [NAME -> Property]
      /\ alive' \subseteq NAME /\ base' \in [NAME -> Value]
      /\ mistaken' \subseteq NAME /\ spoilt' \subseteq NAME
      /\ sets' \in 0 .. MaxSets
  BY <1>2, <1>3, <1>5, TypeParts
<1> QED
  BY <1>2, <1>4, <1>6, ObjectsTyped

LEMMA CutTyped ==
  ASSUME TypeInv, NEW k \in NAME, NEW sp \in BOOLEAN, SetTmpPropCut(k, sp)
  PROVE  TypeInv'
<1> DEFINE q == IF sp THEN [Cleared(k) EXCEPT !.value = Tmp] ELSE Cleared(k)
<1>1. TypeOK /\ Cleared(k) \in Property /\ TimersOfOthers(k) \in Lists
  BY EndsTyped DEF TypeInv
<1>2. /\ UNCHANGED <<callout, locals, base, spoilt>> /\ alive' = alive
      /\ sets < MaxSets /\ sets' = sets + 1
      /\ prop' = [prop EXCEPT ![k] = q]
      /\ in_progress' = IF Running(k) THEN [in_progress EXCEPT ![k].cut = TRUE]
                                      ELSE in_progress
      /\ reset_times' = TimersOfOthers(k) /\ mistaken' \subseteq mistaken \cup {k}
  BY DEF SetTmpPropCut, OthersAct
<1>3. q \in Property
  BY <1>1 DEF Property, Value
<1> HIDE DEF q
<1>4. in_progress' \in [NAME -> Entry \cup {None}]
  <2>1. in_progress \in [NAME -> Entry \cup {None}]
    BY <1>1, TypeParts
  <2>2. CASE Running(k)
    <3>1. [in_progress[k] EXCEPT !.cut = TRUE] \in Entry
      BY <2>1, <2>2 DEF Running, Entry
    <3> QED
      BY <1>2, <2>1, <2>2, <3>1
  <2> QED
    BY <1>2, <2>1, <2>2
<1>5. /\ prop' \in [NAME -> Property] /\ callout' \in {NoCallOut} \cup Nat
      /\ alive' \subseteq NAME /\ base' \in [NAME -> Value]
      /\ mistaken' \subseteq NAME /\ spoilt' \subseteq NAME
      /\ sets' \in 0 .. MaxSets
  BY <1>1, <1>2, <1>3, TypeParts
<1> QED
  BY <1>1, <1>2, <1>4, <1>5, ObjectsTyped

LEMMA EndFailsTyped ==
  ASSUME TypeInv, NEW k \in NAME, EndFails(k)
  PROVE  TypeInv'
<1>1. TypeOK
  BY DEF TypeInv
<1>2. Ended(k) \in Property
  BY <1>1, EndedTyped, TypeParts DEF EndFails, CallsSetProp
<1>3. /\ prop' = [prop EXCEPT ![k] = Ended(k)] /\ alive' = alive
      /\ UNCHANGED <<reset_times, in_progress, callout, locals, base, mistaken, spoilt, sets>>
  BY DEF EndFails, OthersAct
<1> QED
  BY <1>1, <1>2, <1>3, TypeParts, ObjectsTyped

LEMMA RemoveTyped ==
  ASSUME TypeInv, NEW k \in NAME, NEW p \in Property, Remove(k, p),
         UNCHANGED <<callout, locals, sets>>, alive' = alive,
         base' \in [NAME -> Value], mistaken' \subseteq NAME
  PROVE  TypeInv'
<1>1. TypeOK
  BY DEF TypeInv
<1>2. /\ prop' = [prop EXCEPT ![k] = p] /\ reset_times' = Without(k, reset_times)
      /\ in_progress' = [in_progress EXCEPT ![k] = None] /\ spoilt' \subseteq spoilt
  BY DEF Remove
<1>3. reset_times' \in Lists
  BY <1>2, EndsTyped
<1>4. /\ in_progress' \in [NAME -> Entry \cup {None}] /\ prop' \in [NAME -> Property]
      /\ alive' \subseteq NAME /\ spoilt' \subseteq NAME
      /\ callout' \in {NoCallOut} \cup Nat /\ sets' \in 0 .. MaxSets
  BY <1>1, <1>2, TypeParts
<1> QED
  BY <1>3, <1>4, ObjectsTyped

LEMMA ObjectsStep ==
  ASSUME TypeInv, Objects
  PROVE  TypeInv'
<1>1. PICK k \in NAME :
        \/ \E tm \in Times, sp \in BOOLEAN : SetTmpProp(k, tm, sp)
        \/ \E sp \in BOOLEAN : SetTmpPropCut(k, sp)
        \/ RemoveTmpProp(k) \/ EndFails(k)
        \/ \E v \in Value : SetProp(k, v)
        \/ Destruct(k) \/ Load(k)
  BY DEF Objects
<1>2. TypeOK
  BY DEF TypeInv
<1> DEFINE p == Cleared(k)
<1>3. p \in Property
  BY EndsTyped
<1>4. CASE \E tm \in Times, sp \in BOOLEAN : SetTmpProp(k, tm, sp)
  BY <1>4, SetTyped
<1>5. CASE RemoveTmpProp(k)
  <2>1. /\ Remove(k, p) /\ UNCHANGED <<callout, locals, sets>> /\ alive' = alive
        /\ base' = base /\ mistaken' = mistaken
    BY <1>5 DEF RemoveTmpProp, OthersAct
  <2> HIDE DEF p
  <2>2. base' \in [NAME -> Value] /\ mistaken' \subseteq NAME
    BY <1>2, <2>1, TypeParts
  <2> QED
    BY <1>3, <2>1, <2>2, RemoveTyped
<1>6. ASSUME NEW v \in Value, SetProp(k, v)
      PROVE  TypeInv'
  <2>1. /\ UNCHANGED <<callout, locals, sets>> /\ alive' = alive
        /\ base' = [base EXCEPT ![k] = v] /\ mistaken' \subseteq mistaken \cup {k}
    BY <1>6 DEF SetProp, OthersAct
  <2>2. base' \in [NAME -> Value] /\ mistaken' \subseteq NAME
    BY <1>2, <2>1, TypeParts
  <2>3. CASE prop[k].set /\ in_progress[k] # None
    <3> DEFINE q == [p EXCEPT !.value = v]
    <3>1. Remove(k, q)
      BY <1>6, <2>3 DEF SetProp
    <3> HIDE DEF p
    <3>2. q \in Property
      BY <1>3 DEF Property
    <3> HIDE DEF q
    <3> QED
      BY <2>1, <2>2, <3>1, <3>2, RemoveTyped
  <2>4. CASE ~(prop[k].set /\ in_progress[k] # None)
    <3> DEFINE q == IF prop[k].set THEN [prop[k] EXCEPT !.set = FALSE]
                                   ELSE [prop[k] EXCEPT !.value = v]
    <3>1. prop[k] \in Property /\ prop \in [NAME -> Property]
      BY <1>2, TypeParts
    <3>2. q \in Property
      BY <3>1 DEF Property
    <3>3. /\ prop' = [prop EXCEPT ![k] = q]
          /\ UNCHANGED <<reset_times, in_progress, spoilt>>
      BY <1>6, <2>4, <3>1 DEF SetProp
    <3> HIDE DEF q
    <3> QED
      BY <1>2, <2>1, <2>2, <3>1, <3>2, <3>3, TypeParts, ObjectsTyped
  <2> QED
    BY <2>3, <2>4
<1>7. CASE Destruct(k)
  <2> DEFINE e == IF in_progress[k] = None THEN None
                  ELSE [in_progress[k] EXCEPT !.there = FALSE]
  <2>1. /\ in_progress' = [in_progress EXCEPT ![k] = e]
        /\ prop' = [prop EXCEPT ![k] = Fresh] /\ base' = [base EXCEPT ![k] = Fresh.value]
        /\ alive' = alive \ {k} /\ spoilt' = spoilt \cup ({k} \cap KeysOf(reset_times))
        /\ mistaken' \subseteq mistaken
        /\ UNCHANGED <<reset_times, callout, locals, sets>>
    BY <1>2, <1>7, TypeParts DEF Destruct
  <2>2. in_progress[k] \in Entry \cup {None}
    BY <1>2, TypeParts
  <2>3. e \in Entry \cup {None}
    BY <2>2 DEF Entry
  <2> HIDE DEF e
  <2> QED
    BY <1>2, <2>1, <2>3, FreshTyped, TypeParts, ObjectsTyped DEF Value
<1>8. CASE Load(k)
  BY <1>2, <1>8, TypeParts, ObjectsTyped DEF Load
<1> QED
  BY <1>1, <1>4, <1>5, <1>6, <1>7, <1>8, CutTyped, EndFailsTyped

\* The loop of do_update() goes on.
LEMMA LoopTyped ==
  ASSUME TypeInv, UNCHANGED <<alive, base, mistaken, sets>>,
         reset_times' \in Lists,
         in_progress' \in [NAME -> Entry \cup {None}],
         callout' \in {NoCallOut} \cup Nat,
         prop' \in [NAME -> Property],
         spoilt' \subseteq NAME,
         pc' \in {"idle", "loop"}, i' \in 0 .. max', max' \in Nat,
         index' \in NAME \cup {None},
         index' # None => pc' = "loop" /\ i' < max',
         pc' = "idle" => i' = 0
  PROVE  TypeInv'
<1>1. TypeOK'
  BY TypeParts DEF TypeInv, TypeOK, Lists, InOrder
<1> QED
  BY <1>1 DEF TypeInv

\* The timer that the loop has come to
LEMMA DueTyped ==
  ASSUME TypeInv, Due
  PROVE  /\ reset_times[i + 1] \in Timer /\ reset_times[i + 1].key \in NAME
         /\ i + 1 \in DOMAIN reset_times
<1>1. i \in Nat /\ i < Len(reset_times) /\ reset_times \in Seq(Timer)
  BY TypeParts DEF TypeInv, Due, AtTimer, Lists
<1>2. i + 1 \in DOMAIN reset_times
  BY <1>1
<1>3. reset_times[i + 1] \in Timer
  BY <1>1, <1>2
<1> QED
  BY <1>2, <1>3 DEF Timer

LEMMA StepTyped ==
  ASSUME TypeInv, Step
  PROVE  TypeInv'
<1>1. TypeOK
  BY DEF TypeInv
<1>2. /\ reset_times \in Lists /\ reset_times \in Seq(Timer) /\ Len(reset_times) \in Nat
      /\ in_progress \in [NAME -> Entry \cup {None}] /\ prop \in [NAME -> Property]
      /\ callout \in {NoCallOut} \cup Nat /\ spoilt \subseteq NAME
      /\ i \in 0 .. max /\ max \in Nat /\ i \in Nat /\ pc \in {"idle", "loop"}
      /\ index \in NAME \cup {None}
  <2>1. /\ reset_times \in Lists
        /\ in_progress \in [NAME -> Entry \cup {None}] /\ prop \in [NAME -> Property]
        /\ callout \in {NoCallOut} \cup Nat /\ spoilt \subseteq NAME
        /\ i \in 0 .. max /\ max \in Nat /\ pc \in {"idle", "loop"}
        /\ index \in NAME \cup {None}
    BY <1>1, TypeParts, Zenon
  <2>2. reset_times \in Seq(Timer) /\ Len(reset_times) \in Nat /\ i \in Nat
    BY <2>1 DEF Lists
  <2> QED
    BY <2>1, <2>2
<1>3. CASE DoUpdate
  <2>1. reset_times = <<>> => Len(reset_times) = 0
    OBVIOUS
  <2>2. /\ callout' \in Nat /\ pc' \in {"idle", "loop"} /\ max' \in Nat /\ i' = 0
        /\ index' = None
    BY <1>2, <1>3 DEF DoUpdate, TypeInv
  <2>3. UNCHANGED <<reset_times, in_progress, alive, prop, base, mistaken, spoilt, sets>>
    BY <1>3 DEF DoUpdate
  <2> QED
    BY <1>2, <2>2, <2>3, LoopTyped
<1>4. CASE UpdateEnd
  <2> DEFINE k == reset_times[i + 1].key
  <2>1. /\ UNCHANGED <<reset_times, callout, pc, max, index, alive, base, mistaken, spoilt, sets>>
        /\ index = None /\ i' = i + 1 /\ i < max /\ pc = "loop"
        /\ in_progress' = [in_progress EXCEPT ![k] = None]
        /\ prop' = IF Running(k) THEN [prop EXCEPT ![k] = Ended(k)] ELSE prop
    BY <1>4 DEF UpdateEnd, Due, AtTimer
  <2>2. k \in NAME
    BY <1>4, DueTyped DEF UpdateEnd
  <2> HIDE DEF k
  <2>3. in_progress' \in [NAME -> Entry \cup {None}] /\ prop' \in [NAME -> Property]
    BY <1>2, <2>1, <2>2, EndedTyped
  <2>4. i' \in 0 .. max' /\ pc' = "loop" /\ index' = None
    BY <1>2, <2>1
  <2> QED
    BY <1>2, <2>1, <2>3, <2>4, LoopTyped
<1>5. CASE UpdateSetProp
  <2> DEFINE k == reset_times[i + 1].key
  <2>1. /\ UNCHANGED <<reset_times, in_progress, callout, pc, i, max, alive, base, mistaken, spoilt, sets>>
        /\ index' = k /\ i < max /\ pc = "loop" /\ Running(k)
        /\ prop' = [prop EXCEPT ![k] = Ended(k)]
    BY <1>5 DEF UpdateSetProp, Due, AtTimer, CallsSetProp
  <2>2. k \in NAME
    BY <1>5, DueTyped DEF UpdateSetProp
  <2> HIDE DEF k
  <2>3. prop' \in [NAME -> Property]
    BY <1>2, <2>1, <2>2, EndedTyped
  <2> QED
    BY <1>2, <2>1, <2>2, <2>3, LoopTyped
<1>6. CASE UpdateReturn
  <2>1. /\ UNCHANGED <<reset_times, callout, pc, max, alive, prop, base, mistaken, spoilt, sets>>
        /\ index' = None /\ i' = i + 1 /\ i < max /\ pc = "loop"
        /\ in_progress' = [in_progress EXCEPT ![index] = None]
    BY <1>6 DEF UpdateReturn, TypeInv
  <2>2. in_progress' \in [NAME -> Entry \cup {None}]
    BY <1>2, <2>1
  <2>3. i' \in 0 .. max' /\ max' \in Nat
    <3>1. i' = i + 1 /\ i < max /\ max' = max
      BY <2>1
    <3> QED
      BY <1>2, <3>1
  <2> QED
    BY <1>2, <2>1, <2>2, <2>3, LoopTyped
<1>7. CASE UpdateDone
  <2>1. Rest \in Lists
    BY <1>2, ListRest DEF Rest
  <2>2. /\ UNCHANGED <<in_progress, index, alive, prop, base, mistaken, sets>>
        /\ pc' = "idle" /\ i' = 0 /\ max' = 0 /\ index = None
        /\ reset_times' = Rest /\ callout' = NextUpdate(reset_times') /\ spoilt' \subseteq spoilt
    BY <1>7 DEF UpdateDone
  <2> QED
    BY <1>2, <2>1, <2>2, UpdateTyped, LoopTyped
<1>8. CASE UpdateError \/ Fails
  <2>1. Aborts
    BY <1>8 DEF UpdateError, Fails, UpdateSetPropFails, UpdateReturnFails
  <2>2. /\ UNCHANGED <<reset_times, in_progress, callout, alive, prop, base, mistaken, sets>>
        /\ pc' = "idle" /\ i' = 0 /\ max' = 0 /\ index' = None
        /\ spoilt' = spoilt \cup PassedKeys
    BY <2>1 DEF Aborts
  <2>3. PassedKeys \subseteq NAME
    BY <1>2, ListKeys DEF PassedKeys, KeysOf
  <2> QED
    BY <1>2, <2>2, <2>3, LoopTyped
<1> QED
  BY <1>3, <1>4, <1>5, <1>6, <1>7, <1>8 DEF Step

LEMMA RestartTyped ==
  ASSUME TypeInv, Restart
  PROVE  TypeInv'
<1>1. TypeOK
  BY DEF TypeInv
<1>2. /\ in_progress' = [k \in NAME |-> IF in_progress[k] = None THEN None
                          ELSE [in_progress[k] EXCEPT !.there = FALSE]]
      /\ prop' = [k \in NAME |-> [prop[k] EXCEPT !.set = FALSE]]
      /\ spoilt' = KeysOf(reset_times) /\ callout' = NextUpdate(reset_times)
      /\ mistaken' \subseteq mistaken \cup NAME
      /\ sets < MaxSets /\ sets' = sets + 1
      /\ UNCHANGED <<reset_times, locals, alive, base>>
  BY DEF Restart
<1>3. ASSUME NEW k \in NAME
      PROVE  in_progress'[k] \in Entry \cup {None} /\ prop'[k] \in Property
  <2>1. in_progress[k] \in Entry \cup {None} /\ prop[k] \in Property
    BY <1>1, TypeParts
  <2> QED
    BY <1>2, <2>1 DEF Entry, Property
<1>4. in_progress' \in [NAME -> Entry \cup {None}] /\ prop' \in [NAME -> Property]
  BY <1>2, <1>3
<1>5. /\ reset_times' \in Lists /\ callout' \in {NoCallOut} \cup Nat
      /\ base' \in [NAME -> Value] /\ mistaken' \subseteq NAME
      /\ spoilt' \subseteq NAME /\ alive' \subseteq NAME /\ sets' \in 0 .. MaxSets
  BY <1>1, <1>2, TypeParts, UpdateTyped, ListKeys
<1> QED
  BY <1>2, <1>4, <1>5, ObjectsTyped

LEMMA TickTyped ==
  ASSUME TypeInv, Tick
  PROVE  TypeInv'
<1>1. TypeOK
  BY DEF TypeInv
<1>2. /\ in_progress' = [k \in NAME |-> IF in_progress[k] = None THEN None
                          ELSE [in_progress[k] EXCEPT !.until = Later(@)]]
      /\ reset_times' = [n \in DOMAIN reset_times |-> [reset_times[n] EXCEPT !.t = Later(@)]]
      /\ callout # 0 /\ callout' = IF callout = NoCallOut THEN NoCallOut ELSE callout - 1
      /\ UNCHANGED <<locals, alive, prop, base, mistaken, spoilt, sets>>
  BY DEF Tick
<1>3. ASSUME NEW k \in NAME
      PROVE  in_progress'[k] \in Entry \cup {None}
  <2>1. in_progress[k] \in Entry \cup {None}
    BY <1>1, TypeParts
  <2> QED
    BY <1>2, <2>1 DEF Entry, Later
<1>4. in_progress' \in [NAME -> Entry \cup {None}]
  BY <1>2, <1>3
<1>5. reset_times' \in Lists
  BY <1>1, <1>2, TypeParts, ListLater
<1>6. callout' \in {NoCallOut} \cup Nat
  <2>1. callout \in {NoCallOut} \cup Nat
    BY <1>1, TypeParts
  <2>2. callout # 0 /\ callout' = IF callout = NoCallOut THEN NoCallOut ELSE callout - 1
    BY <1>2
  <2> QED
    BY <2>1, <2>2 DEF NoCallOut
<1> QED
  BY <1>1, <1>2, <1>4, <1>5, <1>6, TypeParts, ObjectsTyped

LEMMA NextTypeInv == TypeInv /\ [Next]_vars => TypeInv'
<1> SUFFICES ASSUME TypeInv, [Next]_vars PROVE TypeInv'
  OBVIOUS
<1>1. CASE UNCHANGED vars
  BY <1>1, ObjectsTyped, TypeParts DEF TypeInv, vars
<1> QED
  BY <1>1, ObjectsStep, StepTyped, RestartTyped, TickTyped DEF Next

\* Every variable keeps its type, and the timers stay in the order of their
\* times (313-333), whatever time SetTmpProp() is given.
THEOREM TypeCorrect == Spec => []TypeOK
<1>1. TypeInv => TypeOK
  BY DEF TypeInv
<1> QED
  BY <1>1, InitTypeInv, NextTypeInv, PTL DEF Spec
-----------------------------------------------------------------------------
\* The types that the properties of the objects depend on
Typed ==
  /\ in_progress \in [NAME -> Entry \cup {None}]
  /\ prop \in [NAME -> Property]
  /\ base \in [NAME -> Value]
  /\ alive \subseteq NAME

\* What holds of an object with the entry e and the property p, for which others
\* have set the value b; lost: the master cannot tell.  If the object does not
\* exist, it has no temporary value; and if do_update() runs its SetProp(), it
\* has got its old value back, and what is left to do is to delete the entry.
Good(e, p, b, exists, called, lost) ==
  LET on == e # None /\ e.there IN
  /\ ~exists => ~on
  /\ called /\ on => e.sp /\ (lost \/ p.value = b)
  /\ p.set <=> on /\ ~e.sp /\ ~e.cut
  /\ lost \/ IF on /\ e.sp /\ p.value = Tmp THEN e.old = b ELSE p.value = b

PropInv ==
  /\ Typed
  /\ \A k \in NAME :
       Good(in_progress[k], prop[k], base[k], k \in alive, index = k, k \in mistaken)

LEMMA InitPropInv == Init => PropInv
BY FreshTyped DEF Init, PropInv, Typed, Good, Property, Value

LEMMA PropInvIsSafe == PropInv => MethodHasEntry /\ ValueKept
<1> SUFFICES ASSUME PropInv PROVE MethodHasEntry /\ ValueKept
  OBVIOUS
<1>1. ASSUME NEW k \in NAME
      PROVE  /\ prop[k].set <=> Running(k) /\ ~in_progress[k].sp /\ ~in_progress[k].cut
             /\ k \notin mistaken =>
                  IF CallsSetProp(k) THEN in_progress[k].old = base[k]
                                     ELSE prop[k].value = base[k]
  BY DEF PropInv, Good, Running, CallsSetProp
<1>2. MethodHasEntry
  BY <1>1 DEF MethodHasEntry
<1>3. ValueKept
  BY <1>1 DEF ValueKept, PropInv, Typed
<1> QED
  BY <1>2, <1>3
-----------------------------------------------------------------------------
\* What the end of a temporary value leaves of a property
LEMMA EndedFacts ==
  ASSUME PropInv, NEW k \in NAME, Running(k)
  PROVE  /\ Ended(k) \in Property /\ ~Ended(k).set
         /\ k \notin mistaken => Ended(k).value = base[k]
         /\ k \in alive
<1>1. in_progress[k] \in Entry /\ prop[k] \in Property
  BY DEF PropInv, Typed, Running
<1>2. /\ k \in alive
      /\ prop[k].set => ~in_progress[k].sp
      /\ k \notin mistaken =>
           IF in_progress[k].sp /\ prop[k].value = Tmp
             THEN in_progress[k].old = base[k] ELSE prop[k].value = base[k]
  BY DEF PropInv, Good, Running
<1> QED
  BY <1>1, <1>2 DEF Ended, Entry, Property

\* A property without a temporary value
LEMMA PlainFacts ==
  ASSUME PropInv, NEW k \in NAME, ~Running(k)
  PROVE  /\ prop[k] \in Property /\ ~prop[k].set
         /\ k \notin mistaken => prop[k].value = base[k]
BY DEF PropInv, Typed, Good, Running

\* And when a call has made an end to the temporary value, if there was one
LEMMA ClearedFacts ==
  ASSUME PropInv, NEW k \in NAME
  PROVE  /\ Cleared(k) \in Property /\ ~Cleared(k).set
         /\ k \notin mistaken => Cleared(k).value = base[k]
BY EndedFacts, PlainFacts DEF Cleared

\* One object changes, its entry and its property.
LEMMA OneChanges ==
  ASSUME PropInv, NEW k \in NAME, NEW e \in Entry \cup {None}, NEW p \in Property,
         NEW b \in Value,
         in_progress' = [in_progress EXCEPT ![k] = e],
         prop' = [prop EXCEPT ![k] = p],
         base' = [base EXCEPT ![k] = b],
         alive' \subseteq NAME,
         \A x \in NAME \ {k} : /\ x \in alive' <=> x \in alive
                               /\ x \in mistaken' <=> x \in mistaken
                               /\ index' = x => index = x,
         Good(e, p, b, k \in alive', index' = k, k \in mistaken')
  PROVE  PropInv'
<1>1. Typed'
  BY DEF PropInv, Typed
<1>2. SUFFICES ASSUME NEW x \in NAME
               PROVE  Good(in_progress'[x], prop'[x], base'[x], x \in alive', index' = x,
                           x \in mistaken')
  BY <1>1 DEF PropInv
<1>3. CASE x = k
  <2>1. in_progress'[x] = e /\ prop'[x] = p /\ base'[x] = b
    BY <1>3 DEF PropInv, Typed
  <2> QED
    BY <1>3, <2>1
<1>4. CASE x # k
  <2>1. /\ in_progress'[x] = in_progress[x] /\ prop'[x] = prop[x] /\ base'[x] = base[x]
        /\ x \in alive' <=> x \in alive
        /\ x \in mistaken' <=> x \in mistaken
        /\ index' = x => index = x
    BY <1>4 DEF PropInv, Typed
  <2>2. Good(in_progress[x], prop[x], base[x], x \in alive, index = x, x \in mistaken)
    BY DEF PropInv
  <2> QED
    BY <2>1, <2>2 DEF Good
<1> QED
  BY <1>3, <1>4

\* Nothing changes of the objects, and of do_update() at most the end of a call.
LEMMA NothingChanges ==
  ASSUME PropInv, UNCHANGED <<in_progress, prop, base, mistaken>>, alive' \subseteq NAME,
         alive \subseteq alive', index' \in {index, None}
  PROVE  PropInv'
<1>1. Typed'
  BY DEF PropInv, Typed
<1>2. SUFFICES ASSUME NEW x \in NAME
               PROVE  Good(in_progress'[x], prop'[x], base'[x], x \in alive', index' = x,
                           x \in mistaken')
  BY <1>1 DEF PropInv
<1>3. Good(in_progress[x], prop[x], base[x], x \in alive, index = x, x \in mistaken)
  BY DEF PropInv
<1>4. index' = x => index = x
  BY ConstantsAssumption
<1> QED
  BY <1>3, <1>4 DEF Good
-----------------------------------------------------------------------------
LEMMA SetStep ==
  ASSUME PropInv, NEW k \in NAME, NEW tm \in Times, NEW sp \in BOOLEAN,
         SetTmpProp(k, tm, sp)
  PROVE  PropInv'
<1> DEFINE p == Cleared(k)
           q == IF sp THEN [p EXCEPT !.value = Tmp]
                      ELSE [p EXCEPT !.query = TRUE, !.set = TRUE]
           e == [there |-> TRUE, old |-> IF sp THEN p.value ELSE Tmp, sp |-> sp,
                 until |-> tm, cut |-> FALSE]
<1>1. p \in Property /\ ~p.set /\ (k \notin mistaken => p.value = base[k])
  BY ClearedFacts
<1>2. tm \in Int
  BY ConstantsAssumption
<1>3. /\ prop' = [prop EXCEPT ![k] = q] /\ in_progress' = [in_progress EXCEPT ![k] = e]
      /\ k \in alive /\ alive' = alive /\ index' = index /\ index # k /\ base' = base
      /\ mistaken' = mistaken
  BY DEF SetTmpProp, OthersAct, locals
<1> HIDE DEF p
<1>4. e \in Entry /\ q \in Property
  BY <1>1, <1>2 DEF Entry, Property, Value
<1>5. Good(e, q, base[k], k \in alive', index' = k, k \in mistaken')
  BY <1>1, <1>3, <1>4, ConstantsAssumption DEF Good, Property
<1>6. base' = [base EXCEPT ![k] = base[k]] /\ base[k] \in Value /\ alive' \subseteq NAME
  BY <1>3 DEF PropInv, Typed
<1> HIDE DEF e, q
<1> QED
  BY <1>3, <1>4, <1>5, <1>6, OneChanges

\* The old entry stays, with or without its value and its methods.
LEMMA CutStep ==
  ASSUME PropInv, NEW k \in NAME, NEW sp \in BOOLEAN, SetTmpPropCut(k, sp)
  PROVE  PropInv'
<1> DEFINE q == IF sp THEN [Cleared(k) EXCEPT !.value = Tmp] ELSE Cleared(k)
           e == IF Running(k) THEN [in_progress[k] EXCEPT !.cut = TRUE] ELSE in_progress[k]
<1>1. /\ Cleared(k) \in Property /\ ~Cleared(k).set
      /\ k \notin mistaken => Cleared(k).value = base[k]
      /\ in_progress[k] \in Entry \cup {None}
  BY ClearedFacts DEF PropInv, Typed
<1>2. /\ prop' = [prop EXCEPT ![k] = q] /\ in_progress' = [in_progress EXCEPT ![k] = e]
      /\ k \in alive /\ alive' = alive /\ index' = index /\ index # k /\ base' = base
      /\ mistaken' = IF sp THEN mistaken \cup {k} ELSE mistaken
  BY DEF SetTmpPropCut, OthersAct, locals, PropInv, Typed
<1>3. e \in Entry \cup {None} /\ q \in Property /\ ~q.set
      /\ (k \notin mistaken' => q.value = base[k])
  BY <1>1, <1>2 DEF Entry, Property, Value, Running
<1>4. (e # None /\ e.there => e.cut) /\ (e # None /\ e.there /\ e.sp => e.old \in Value)
  BY <1>1 DEF Entry, Running
<1>5. k \notin mistaken' => (e # None /\ e.there /\ e.sp /\ q.value = Tmp => e.old = base[k])
  <2>1. SUFFICES ASSUME k \notin mistaken', Running(k), in_progress[k].sp, q.value = Tmp
                 PROVE  in_progress[k].old = base[k]
    BY <1>1 DEF Entry, Running
  <2>2. k \notin mistaken /\ q = Ended(k)
    BY <1>2, <2>1 DEF Cleared
  <2>3. /\ in_progress[k] \in Entry /\ prop[k] \in Property
    BY <1>1, <2>1 DEF PropInv, Typed, Running
  <2>4. IF prop[k].value = Tmp THEN in_progress[k].old = base[k] ELSE prop[k].value = base[k]
    BY <2>1, <2>2 DEF PropInv, Good, Running
  <2>5. prop[k].value = Tmp
    BY <2>1, <2>2, <2>3 DEF Ended
  <2> QED
    BY <2>4, <2>5
<1>6. base' = [base EXCEPT ![k] = base[k]] /\ base[k] \in Value /\ alive' \subseteq NAME
  BY <1>2 DEF PropInv, Typed
<1> HIDE DEF e, q
<1>7. Good(e, q, base[k], k \in alive', index' = k, k \in mistaken')
  BY <1>2, <1>3, <1>4, <1>5 DEF Good
<1>8. \A x \in NAME \ {k} : x \in mistaken' <=> x \in mistaken
  BY <1>2
<1> QED
  BY <1>2, <1>3, <1>6, <1>7, <1>8, OneChanges

LEMMA EndFailsStep ==
  ASSUME PropInv, NEW k \in NAME, EndFails(k)
  PROVE  PropInv'
<1>1. /\ prop' = [prop EXCEPT ![k] = Ended(k)] /\ alive' = alive /\ index' = index /\ index # k
      /\ UNCHANGED <<in_progress, base, mistaken>> /\ CallsSetProp(k)
  BY DEF EndFails, OthersAct, locals
<1>2. /\ Ended(k) \in Property /\ ~Ended(k).set /\ k \in alive
      /\ k \notin mistaken => Ended(k).value = base[k] /\ in_progress[k].old = base[k]
  BY <1>1, EndedFacts DEF CallsSetProp, PropInv, Good, Running
<1>3. Good(in_progress[k], Ended(k), base[k], k \in alive', index' = k, k \in mistaken')
  BY <1>1, <1>2 DEF Good, CallsSetProp, Running
<1>4. /\ in_progress' = [in_progress EXCEPT ![k] = in_progress[k]]
      /\ base' = [base EXCEPT ![k] = base[k]]
      /\ in_progress[k] \in Entry \cup {None} /\ base[k] \in Value /\ alive' \subseteq NAME
  BY <1>1 DEF PropInv, Typed
<1>5. \A x \in NAME \ {k} : /\ x \in alive' <=> x \in alive
                            /\ x \in mistaken' <=> x \in mistaken
                            /\ index' = x => index = x
  BY <1>1
<1>6. prop' = [prop EXCEPT ![k] = Ended(k)] /\ Ended(k) \in Property
  BY <1>1, <1>2
<1> HIDE DEF Good
<1> QED
  BY <1>3, <1>4, <1>5, <1>6, OneChanges

\* The end of a temporary value, by RemoveTmpProp() or the set method
LEMMA RemoveEnds ==
  ASSUME PropInv, NEW k \in NAME, NEW p \in Property, NEW b \in Value, Remove(k, p),
         ~p.set, k \notin mistaken' => p.value = b, base' = [base EXCEPT ![k] = b],
         alive' = alive, index' = index,
         \A x \in NAME \ {k} : x \in mistaken' <=> x \in mistaken
  PROVE  PropInv'
<1>1. Good(None, p, b, k \in alive', index' = k, k \in mistaken')
  BY DEF Good
<1> QED
  BY <1>1, OneChanges DEF Remove, PropInv, Typed

LEMMA RemoveStep ==
  ASSUME PropInv, NEW k \in NAME, RemoveTmpProp(k)
  PROVE  PropInv'
<1>1. Cleared(k) \in Property /\ ~Cleared(k).set /\ (k \notin mistaken => Cleared(k).value = base[k])
  BY ClearedFacts
<1>2. /\ Remove(k, Cleared(k)) /\ alive' = alive /\ index' = index /\ base' = base
      /\ mistaken' = mistaken
  BY DEF RemoveTmpProp, OthersAct, locals
<1>3. base' = [base EXCEPT ![k] = base[k]] /\ base[k] \in Value
  BY <1>2 DEF PropInv, Typed
<1> QED
  BY <1>1, <1>2, <1>3, RemoveEnds

LEMMA SetPropStep ==
  ASSUME PropInv, NEW k \in NAME, NEW v \in Value, SetProp(k, v)
  PROVE  PropInv'
<1>1. /\ alive' = alive /\ index' = index /\ base' = [base EXCEPT ![k] = v]
      /\ k \in alive /\ index # k
      /\ mistaken' = IF v = Tmp /\ Running(k) /\ in_progress[k].sp
                       THEN mistaken \cup {k} ELSE mistaken \ {k}
      /\ \A x \in NAME \ {k} : x \in mistaken' <=> x \in mistaken
  BY DEF SetProp, OthersAct, locals
<1>2. CASE prop[k].set /\ in_progress[k] # None
  <2> DEFINE q == [Cleared(k) EXCEPT !.value = v]
  <2>1. Cleared(k) \in Property /\ ~Cleared(k).set
    BY ClearedFacts
  <2>2. q \in Property /\ ~q.set /\ q.value = v
    BY <2>1 DEF Property
  <2>3. Remove(k, q)
    BY <1>2 DEF SetProp
  <2> HIDE DEF q
  <2> QED
    BY <1>1, <2>2, <2>3, RemoveEnds
<1>3. CASE ~(prop[k].set /\ in_progress[k] # None)
  <2>1. ~prop[k].set /\ prop[k] \in Property /\ in_progress[k] \in Entry \cup {None}
    BY <1>3 DEF PropInv, Typed, Good
  <2> DEFINE q == [prop[k] EXCEPT !.value = v]
  <2>2. prop' = [prop EXCEPT ![k] = q] /\ in_progress' = [in_progress EXCEPT ![k] = in_progress[k]]
    BY <1>3, <2>1 DEF SetProp, PropInv, Typed
  <2>3. q \in Property /\ ~q.set /\ q.value = v
    BY <2>1 DEF Property
  <2>4. Good(in_progress[k], prop[k], base[k], k \in alive, index = k, k \in mistaken)
    BY DEF PropInv
  <2> HIDE DEF q
  <2>5. Good(in_progress[k], q, v, k \in alive', index' = k, k \in mistaken')
    BY <1>1, <2>1, <2>3, <2>4 DEF Good, Running
  <2> QED
    BY <1>1, <2>1, <2>2, <2>3, <2>5, OneChanges DEF PropInv, Typed
<1> QED
  BY <1>2, <1>3

LEMMA UpdateEndStep ==
  ASSUME PropInv, UpdateEnd
  PROVE  PropInv'
<1> DEFINE k == reset_times[i + 1].key
<1>1. /\ prop' = IF Running(k) THEN [prop EXCEPT ![k] = Ended(k)] ELSE prop
      /\ in_progress' = [in_progress EXCEPT ![k] = None]
      /\ UNCHANGED <<index, alive, base, mistaken>> /\ index = None
  BY DEF UpdateEnd, Due, AtTimer
<1> HIDE DEF k
<1>2. CASE k \in NAME
  <2> DEFINE p == Cleared(k)
  <2>1. p \in Property /\ ~p.set /\ (k \notin mistaken => p.value = base[k])
    BY <1>2, ClearedFacts
  <2>2. prop' = [prop EXCEPT ![k] = p] /\ base' = [base EXCEPT ![k] = base[k]]
        /\ base[k] \in Value /\ alive' \subseteq NAME
    BY <1>1, <1>2 DEF PropInv, Typed, Cleared
  <2> HIDE DEF p
  <2>3. Good(None, p, base[k], k \in alive', index' = k, k \in mistaken')
    BY <1>1, <2>1 DEF Good
  <2>4. /\ None \in Entry \cup {None} /\ base[k] \in Value
        /\ \A x \in NAME \ {k} : /\ x \in alive' <=> x \in alive
                                 /\ x \in mistaken' <=> x \in mistaken
                                 /\ index' = x => index = x
    BY <1>1, <2>2
  <2> HIDE DEF Good
  <2> QED
    BY <1>1, <1>2, <2>1, <2>2, <2>3, <2>4, OneChanges
<1>3. CASE k \notin NAME
  <2>1. in_progress' = in_progress
    BY <1>1, <1>3 DEF PropInv, Typed
  <2>2. prop' = prop
    <3>1. prop \in [NAME -> Property]
      BY DEF PropInv, Typed
    <3>2. [prop EXCEPT ![k] = Ended(k)] = prop
      BY <1>3, <3>1
    <3> QED
      BY <1>1, <3>2
  <2> QED
    BY <1>1, <2>1, <2>2, NothingChanges DEF PropInv, Typed
<1> QED
  BY <1>2, <1>3

LEMMA UpdateSetPropStep ==
  ASSUME PropInv, UpdateSetProp
  PROVE  PropInv'
<1> DEFINE k == reset_times[i + 1].key
<1>1. /\ prop' = [prop EXCEPT ![k] = Ended(k)] /\ index' = k /\ index = None
      /\ UNCHANGED <<in_progress, alive, base, mistaken>>
      /\ CallsSetProp(k)
  BY DEF UpdateSetProp, Due, AtTimer
<1> HIDE DEF k
<1>2. CASE k \in NAME
  <2>1. /\ Ended(k) \in Property /\ ~Ended(k).set /\ k \in alive
        /\ k \notin mistaken => Ended(k).value = base[k] /\ in_progress[k].old = base[k]
    BY <1>1, <1>2, EndedFacts DEF CallsSetProp, PropInv, Good, Running
  <2>2. /\ in_progress' = [in_progress EXCEPT ![k] = in_progress[k]]
        /\ in_progress[k] \in Entry \cup {None}
        /\ base' = [base EXCEPT ![k] = base[k]]
        /\ base[k] \in Value /\ alive' \subseteq NAME
    BY <1>1, <1>2 DEF PropInv, Typed
  <2>3. Good(in_progress[k], Ended(k), base[k], k \in alive', index' = k, k \in mistaken')
    BY <1>1, <2>1 DEF Good, CallsSetProp, Running
  <2> QED
    BY <1>1, <1>2, <2>1, <2>2, <2>3, OneChanges
<1>3. CASE k \notin NAME
  <2>1. prop' = prop
    BY <1>1, <1>3 DEF PropInv, Typed
  <2>2. \A x \in NAME : Good(in_progress'[x], prop'[x], base'[x], x \in alive', index' = x,
                             x \in mistaken')
    BY <1>1, <1>3, <2>1 DEF PropInv, Good
  <2> QED
    BY <1>1, <2>1, <2>2 DEF PropInv, Typed
<1> QED
  BY <1>2, <1>3

LEMMA UpdateReturnStep ==
  ASSUME PropInv, UpdateReturn
  PROVE  PropInv'
<1>1. /\ in_progress' = [in_progress EXCEPT ![index] = None] /\ index' = None
      /\ UNCHANGED <<prop, alive, base, mistaken>>
  BY DEF UpdateReturn
<1>2. CASE index \in NAME
  <2>1. Good(in_progress[index], prop[index], base[index], index \in alive, index = index,
             index \in mistaken)
    BY <1>2 DEF PropInv
  <2>2. Good(None, prop[index], base[index], index \in alive', index' = index,
             index \in mistaken')
    BY <1>1, <1>2, <2>1, ConstantsAssumption DEF Good
  <2>3. /\ prop' = [prop EXCEPT ![index] = prop[index]] /\ prop[index] \in Property
        /\ base' = [base EXCEPT ![index] = base[index]]
        /\ base[index] \in Value /\ alive' \subseteq NAME
    BY <1>1, <1>2 DEF PropInv, Typed
  <2>4. \A x \in NAME \ {index} : /\ x \in alive' <=> x \in alive
                                  /\ x \in mistaken' <=> x \in mistaken
                                  /\ index' = x => index = x
    BY <1>1, ConstantsAssumption
  <2>5. in_progress' = [in_progress EXCEPT ![index] = None] /\ None \in Entry \cup {None}
    BY <1>1
  <2> HIDE DEF Good
  <2> QED
    BY <1>2, <2>2, <2>3, <2>4, <2>5, OneChanges
<1>3. CASE index \notin NAME
  <2>1. in_progress' = in_progress
    BY <1>1, <1>3 DEF PropInv, Typed
  <2> QED
    BY <1>1, <2>1, NothingChanges DEF PropInv, Typed
<1> QED
  BY <1>2, <1>3

LEMMA DestructStep ==
  ASSUME PropInv, NEW k \in NAME, Destruct(k)
  PROVE  PropInv'
<1> DEFINE e == IF in_progress[k] = None THEN None ELSE [in_progress[k] EXCEPT !.there = FALSE]
<1>1. /\ in_progress' = [in_progress EXCEPT ![k] = e]
      /\ prop' = [prop EXCEPT ![k] = Fresh] /\ base' = [base EXCEPT ![k] = Fresh.value]
      /\ alive' = alive \ {k} /\ index' = index /\ mistaken' = mistaken \ {k}
  BY DEF Destruct, locals, PropInv, Typed
<1>2. in_progress[k] \in Entry \cup {None} /\ alive' \subseteq NAME
  BY <1>1 DEF PropInv, Typed
<1>3. e \in Entry \cup {None} /\ ~(e # None /\ e.there)
  BY <1>2 DEF Entry
<1> HIDE DEF e
<1>4. Good(e, Fresh, Fresh.value, k \in alive', index' = k, k \in mistaken')
  BY <1>3, FreshTyped DEF Good
<1> QED
  BY <1>1, <1>2, <1>3, <1>4, FreshTyped, OneChanges DEF Value

LEMMA RestartStep ==
  ASSUME PropInv, Restart
  PROVE  PropInv'
<1>1. /\ in_progress' = [k \in NAME |-> IF in_progress[k] = None THEN None
                          ELSE [in_progress[k] EXCEPT !.there = FALSE]]
      /\ prop' = [k \in NAME |-> [prop[k] EXCEPT !.set = FALSE]]
      /\ UNCHANGED <<alive, base>>
      /\ mistaken' = mistaken \cup {k \in NAME : CallsSetProp(k)}
  BY DEF Restart
<1>2. ASSUME NEW k \in NAME
      PROVE  /\ in_progress'[k] \in Entry \cup {None} /\ prop'[k] \in Property
             /\ ~(in_progress'[k] # None /\ in_progress'[k].there)
             /\ ~prop'[k].set /\ prop'[k].value = prop[k].value
  <2>1. in_progress[k] \in Entry \cup {None} /\ prop[k] \in Property
    BY DEF PropInv, Typed
  <2> QED
    BY <1>1, <2>1 DEF Entry, Property
<1>3. Typed'
  BY <1>1, <1>2 DEF PropInv, Typed
<1>4. ASSUME NEW k \in NAME
      PROVE  Good(in_progress'[k], prop'[k], base'[k], k \in alive', index' = k, k \in mistaken')
  <2>1. k \in mistaken' \/ prop[k].value = base[k]
    BY <1>1 DEF PropInv, Good, CallsSetProp, Running
  <2> QED
    BY <1>1, <1>2, <2>1 DEF Good
<1> QED
  BY <1>3, <1>4 DEF PropInv

LEMMA TickStep ==
  ASSUME PropInv, Tick
  PROVE  PropInv'
<1>1. /\ in_progress' = [k \in NAME |-> IF in_progress[k] = None THEN None
                          ELSE [in_progress[k] EXCEPT !.until = Later(@)]]
      /\ UNCHANGED <<prop, base, alive, index, mistaken>>
  BY DEF Tick, locals
<1>2. ASSUME NEW k \in NAME
      PROVE  /\ in_progress'[k] \in Entry \cup {None}
             /\ in_progress'[k] = None <=> in_progress[k] = None
             /\ in_progress[k] # None =>
                  /\ in_progress'[k].there = in_progress[k].there
                  /\ in_progress'[k].sp = in_progress[k].sp
                  /\ in_progress'[k].old = in_progress[k].old
                  /\ in_progress'[k].cut = in_progress[k].cut
  <2>1. in_progress[k] \in Entry \cup {None}
    BY DEF PropInv, Typed
  <2> QED
    BY <1>1, <2>1 DEF Entry, Later
<1>3. Typed'
  BY <1>1, <1>2 DEF PropInv, Typed
<1>4. ASSUME NEW k \in NAME
      PROVE  Good(in_progress'[k], prop'[k], base'[k], k \in alive', index' = k, k \in mistaken')
  <2>1. Good(in_progress[k], prop[k], base[k], k \in alive, index = k, k \in mistaken)
    BY DEF PropInv
  <2> QED
    BY <1>1, <1>2, <2>1 DEF Good
<1> QED
  BY <1>3, <1>4 DEF PropInv

LEMMA NextPropInv == PropInv /\ [Next]_vars => PropInv'
<1> SUFFICES ASSUME PropInv, [Next]_vars PROVE PropInv'
  OBVIOUS
<1>1. CASE Objects
  <2>1. PICK k \in NAME :
          \/ \E tm \in Times, sp \in BOOLEAN : SetTmpProp(k, tm, sp)
          \/ \E sp \in BOOLEAN : SetTmpPropCut(k, sp)
          \/ RemoveTmpProp(k) \/ EndFails(k)
          \/ \E v \in Value : SetProp(k, v)
          \/ Destruct(k) \/ Load(k)
    BY <1>1 DEF Objects
  <2>2. CASE Load(k)
    BY <2>2, NothingChanges DEF Load, locals, PropInv, Typed
  <2> QED
    BY <2>1, <2>2, SetStep, CutStep, EndFailsStep, RemoveStep, SetPropStep, DestructStep
<1>2. CASE Step
  <2>1. CASE DoUpdate \/ UpdateDone
    BY <2>1, NothingChanges DEF DoUpdate, UpdateDone, PropInv, Typed
  <2>2. CASE UpdateError \/ Fails
    <3>1. Aborts
      BY <2>2 DEF UpdateError, Fails, UpdateSetPropFails, UpdateReturnFails
    <3> QED
      BY <3>1, NothingChanges DEF Aborts, PropInv, Typed
  <2> QED
    BY <1>2, <2>1, <2>2, UpdateEndStep, UpdateSetPropStep, UpdateReturnStep DEF Step
<1>3. CASE Restart \/ Tick
  BY <1>3, RestartStep, TickStep
<1>4. CASE UNCHANGED vars
  BY <1>4, NothingChanges DEF vars, locals, PropInv, Typed
<1> QED
  BY <1>1, <1>2, <1>3, <1>4 DEF Next

LEMMA AlwaysPropInv == Spec => []PropInv
BY InitPropInv, NextPropInv, PTL DEF Spec

\* The set method of the master is on a property exactly as long as there is an
\* entry for it, whatever objects do from the code that do_update() runs,
\* whatever fails, and over restarts: SetProp() never recurses without end
\* (292-301).
THEOREM MethodsEnd == Spec => []MethodHasEntry
BY PropInvIsSafe, AlwaysPropInv, PTL

\* What others have set is there again when a temporary value has ended, and
\* what they set meanwhile stays: the only values that are lost are those that
\* are equal to the temporary one, or that a failing set method or a restart of
\* the master has left behind (113-125, 292-308).
THEOREM ValuesKept == Spec => []ValueKept
BY PropInvIsSafe, AlwaysPropInv, PTL
-----------------------------------------------------------------------------
\* Among the timers behind the first j, the entry e of the name k has its own.
Timed(ts, j, e, k) ==
  e # None /\ ~e.cut =>
    \E n \in j + 1 .. Len(ts) : ts[n] = [t |-> e.until, key |-> k]

\* And there is no other one of that name.
Owned(ts, j, e, k) ==
  \A n \in j + 1 .. Len(ts) : ts[n].key = k =>
    /\ e # None /\ e.there /\ ~e.cut /\ ts[n].t = e.until
    /\ \A m \in j + 1 .. Len(ts) : ts[m].key = k => m = n

\* Of the timers behind the first j, none bears the name k.
Free(ts, j, k) == \A n \in j + 1 .. Len(ts) : ts[n].key # k

\* The list us has the first j timers of ts, and behind them the timers of the
\* other names than k.
Spares(ts, us, j, k) ==
  /\ j <= Len(us) /\ \A n \in 1 .. j : us[n] = ts[n]
  /\ \A x \in NAME \ {k} : \A e \in Entry \cup {None} :
       /\ Timed(ts, j, e, x) => Timed(us, j, e, x)
       /\ Owned(ts, j, e, x) => Owned(us, j, e, x)

LEMMA WithoutSpares ==
  ASSUME NEW ts \in Seq(Timer), NEW us \in Seq(Timer), NEW j \in Nat, NEW l \in DOMAIN ts, j < l,
         Len(us) = Len(ts) - 1,
         \A n \in DOMAIN us : us[n] = IF n < l THEN ts[n] ELSE ts[n + 1]
  PROVE  Spares(ts, us, j, ts[l].key)
<1>1. /\ Len(ts) \in Nat /\ Len(us) \in Nat /\ l \in 1 .. Len(ts) /\ DOMAIN us = 1 .. Len(us)
      /\ j <= Len(us)
  OBVIOUS
<1>2. ASSUME NEW n \in 1 .. j PROVE us[n] = ts[n]
  BY <1>1
<1>3. ASSUME NEW x \in NAME, x # ts[l].key, NEW e \in Entry, Timed(ts, j, e, x), e # None, ~e.cut
      PROVE  Timed(us, j, e, x)
  <2>1. PICK n \in j + 1 .. Len(ts) : ts[n] = [t |-> e.until, key |-> x]
    BY <1>3 DEF Timed
  <2>2. n # l
    BY <1>3, <2>1
  <2> DEFINE m == IF n < l THEN n ELSE n - 1
  <2>3. m \in j + 1 .. Len(us) /\ m \in DOMAIN us /\ n = IF m < l THEN m ELSE m + 1
    BY <1>1, <2>2
  <2> HIDE DEF m
  <2>4. us[m] = ts[n]
    BY <2>3
  <2> QED
    BY <2>1, <2>3, <2>4 DEF Timed
<1>4. ASSUME NEW x \in NAME, NEW e \in Entry \cup {None}, Owned(ts, j, e, x),
             NEW n \in j + 1 .. Len(us), us[n].key = x
      PROVE  /\ e # None /\ e.there /\ ~e.cut /\ us[n].t = e.until
             /\ \A m \in j + 1 .. Len(us) : us[m].key = x => m = n
  <2> DEFINE f(m) == IF m < l THEN m ELSE m + 1
  <2>1. ASSUME NEW m \in j + 1 .. Len(us)
        PROVE  f(m) \in j + 1 .. Len(ts) /\ us[m] = ts[f(m)]
    BY <1>1
  <2>2. ASSUME NEW m \in j + 1 .. Len(us), f(m) = f(n) PROVE m = n
    BY <1>1, <2>2
  <2> HIDE DEF f
  <2>3. ts[f(n)].key = x /\ f(n) \in j + 1 .. Len(ts) /\ us[n] = ts[f(n)]
    BY <1>4, <2>1
  <2>4. /\ e # None /\ e.there /\ ~e.cut /\ ts[f(n)].t = e.until
        /\ \A m \in j + 1 .. Len(ts) : ts[m].key = x => m = f(n)
    BY <1>4, <2>3 DEF Owned
  <2>5. ASSUME NEW m \in j + 1 .. Len(us), us[m].key = x PROVE m = n
    BY <2>1, <2>2, <2>4, <2>5
  <2> QED
    BY <2>3, <2>4, <2>5
<1>5. ASSUME NEW x \in NAME, NEW e \in Entry \cup {None}, Owned(ts, j, e, x)
      PROVE  Owned(us, j, e, x)
  BY <1>4, <1>5 DEF Owned
<1>6. ASSUME NEW x \in NAME \ {ts[l].key}, NEW e \in Entry \cup {None}
      PROVE  /\ Timed(ts, j, e, x) => Timed(us, j, e, x)
             /\ Owned(ts, j, e, x) => Owned(us, j, e, x)
  <2>1. CASE e = None \/ e.cut
    BY <1>5, <2>1 DEF Timed
  <2>2. CASE e # None /\ ~e.cut
    BY <1>3, <1>5, <2>2
  <2> QED
    BY <2>1, <2>2
<1> QED
  BY <1>1, <1>2, <1>6 DEF Spares

LEMMA InsertedSpares ==
  ASSUME NEW ts \in Seq(Timer), NEW us \in Seq(Timer), NEW j \in Nat,
         NEW p \in 0 .. Len(ts), j <= p, NEW k, NEW tm,
         Len(us) = Len(ts) + 1,
         \A n \in DOMAIN us :
           us[n] = IF n <= p THEN ts[n]
                   ELSE IF n = p + 1 THEN [t |-> tm, key |-> k] ELSE ts[n - 1]
  PROVE  Spares(ts, us, j, k)
<1>1. /\ Len(ts) \in Nat /\ Len(us) \in Nat /\ p \in Nat /\ p <= Len(ts)
      /\ DOMAIN us = 1 .. Len(us) /\ j <= Len(us)
  OBVIOUS
<1>2. ASSUME NEW n \in 1 .. j PROVE us[n] = ts[n]
  BY <1>1
<1>3. ASSUME NEW x \in NAME, NEW e \in Entry, Timed(ts, j, e, x), e # None, ~e.cut
      PROVE  Timed(us, j, e, x)
  <2>1. PICK n \in j + 1 .. Len(ts) : ts[n] = [t |-> e.until, key |-> x]
    BY <1>3 DEF Timed
  <2> DEFINE m == IF n <= p THEN n ELSE n + 1
  <2>2. /\ m \in j + 1 .. Len(us) /\ m \in DOMAIN us /\ m # p + 1
        /\ n = IF m <= p THEN m ELSE m - 1
    BY <1>1
  <2> HIDE DEF m
  <2>3. us[m] = ts[n]
    BY <2>2
  <2> QED
    BY <2>1, <2>2, <2>3 DEF Timed
<1>4. ASSUME NEW x \in NAME, x # k, NEW e \in Entry \cup {None}, Owned(ts, j, e, x),
             NEW n \in j + 1 .. Len(us), us[n].key = x
      PROVE  /\ e # None /\ e.there /\ ~e.cut /\ us[n].t = e.until
             /\ \A m \in j + 1 .. Len(us) : us[m].key = x => m = n
  <2> DEFINE f(m) == IF m <= p THEN m ELSE m - 1
  <2>1. ASSUME NEW m \in j + 1 .. Len(us), us[m].key = x
        PROVE  f(m) \in j + 1 .. Len(ts) /\ us[m] = ts[f(m)] /\ m # p + 1
    <3>1. m \in DOMAIN us
      BY <1>1
    <3>2. m # p + 1
      BY <1>1, <1>4, <2>1, <3>1
    <3> QED
      BY <1>1, <3>1, <3>2
  <2>2. ASSUME NEW m \in j + 1 .. Len(us), m # p + 1, n # p + 1, f(m) = f(n) PROVE m = n
    BY <1>1, <2>2
  <2> HIDE DEF f
  <2>3. ts[f(n)].key = x /\ f(n) \in j + 1 .. Len(ts) /\ us[n] = ts[f(n)] /\ n # p + 1
    BY <1>4, <2>1
  <2>4. /\ e # None /\ e.there /\ ~e.cut /\ ts[f(n)].t = e.until
        /\ \A m \in j + 1 .. Len(ts) : ts[m].key = x => m = f(n)
    BY <1>4, <2>3 DEF Owned
  <2>5. ASSUME NEW m \in j + 1 .. Len(us), us[m].key = x PROVE m = n
    BY <2>1, <2>2, <2>3, <2>4, <2>5
  <2> QED
    BY <2>3, <2>4, <2>5
<1>5. ASSUME NEW x \in NAME, x # k, NEW e \in Entry \cup {None}, Owned(ts, j, e, x)
      PROVE  Owned(us, j, e, x)
  BY <1>4, <1>5 DEF Owned
<1>6. ASSUME NEW x \in NAME \ {k}, NEW e \in Entry \cup {None}
      PROVE  /\ Timed(ts, j, e, x) => Timed(us, j, e, x)
             /\ Owned(ts, j, e, x) => Owned(us, j, e, x)
  <2>1. CASE e = None \/ e.cut
    BY <1>5, <2>1 DEF Timed
  <2>2. CASE e # None /\ ~e.cut
    BY <1>3, <1>5, <2>2
  <2> QED
    BY <2>1, <2>2
<1> QED
  BY <1>1, <1>2, <1>6 DEF Spares

LEMMA SparesTwice ==
  ASSUME NEW ts, NEW us, NEW vs, NEW j \in Nat, NEW k,
         Spares(ts, us, j, k), Spares(us, vs, j, k)
  PROVE  Spares(ts, vs, j, k)
BY DEF Spares

\* Without(k, ts) takes a timer of k out that is behind the first j if there is
\* one, and nothing before it.
LEMMA WithoutOwn ==
  ASSUME NEW ts \in Seq(Timer), NEW k \in NAME, NEW j \in Nat, NEW e \in Entry,
         ~Free(ts, j, k)
  PROVE  /\ Without(k, ts) \in Seq(Timer) /\ Spares(ts, Without(k, ts), j, k)
         /\ ts[j + 1].key # k => Spares(ts, Without(k, ts), j + 1, k)
         /\ Owned(ts, j, e, k) => Free(Without(k, ts), j, k)
<1> DEFINE us == Without(k, ts)
<1>1. Len(ts) \in Nat /\ DOMAIN ts = 1 .. Len(ts)
  OBVIOUS
<1>2. PICK n \in j + 1 .. Len(ts) : ts[n].key = k
  BY DEF Free
<1>3. n \in DOMAIN ts /\ ts[n].key = k
  BY <1>1, <1>2
<1>4. PICK l \in DOMAIN ts :
        /\ ts[l].key = k /\ \A m \in DOMAIN ts : ts[m].key = k => m <= l
        /\ us \in Seq(Timer) /\ Len(us) = Len(ts) - 1
        /\ \A m \in DOMAIN us : us[m] = IF m < l THEN ts[m] ELSE ts[m + 1]
  <2>1. k \in KeysOf(ts)
    BY <1>3 DEF KeysOf
  <2> QED
    BY <2>1, WithoutLast
<1> HIDE DEF us
<1>5. n <= l
  BY <1>3, <1>4
<1>6. j < l /\ l \in Nat /\ l <= Len(ts)
  BY <1>1, <1>2, <1>5
<1>7. Spares(ts, us, j, k)
  BY <1>4, <1>6, WithoutSpares
<1>8. ASSUME ts[j + 1].key # k PROVE Spares(ts, us, j + 1, k)
  <2>1. j + 1 < l
    BY <1>4, <1>6, <1>8
  <2>2. j + 1 \in Nat
    OBVIOUS
  <2> HIDE DEF us
  <2> QED
    BY <1>4, <2>1, <2>2, WithoutSpares
<1>9. ASSUME Owned(ts, j, e, k) PROVE Free(us, j, k)
  <2>1. SUFFICES ASSUME NEW m \in j + 1 .. Len(us), us[m].key = k PROVE FALSE
    BY DEF Free
  <2> DEFINE c == IF m < l THEN m ELSE m + 1
  <2>2. /\ m \in DOMAIN us /\ c \in j + 1 .. Len(ts) /\ c # l /\ l \in j + 1 .. Len(ts)
        /\ us[m] = ts[c]
    BY <1>1, <1>4, <1>6
  <2> HIDE DEF c
  <2>3. \A x \in j + 1 .. Len(ts) : ts[x].key = k => x = l
    BY <1>4, <1>9, <2>2 DEF Owned
  <2> QED
    BY <2>1, <2>2, <2>3
<1> QED
  BY <1>4, <1>7, <1>8, <1>9 DEF us

\* A new timer goes behind those that are due.
LEMMA InsertedOwn ==
  ASSUME NEW ts \in Lists, NEW k \in NAME, NEW tm \in Nat, NEW j \in 0 .. Len(ts),
         \A n \in 1 .. j : ts[n].t <= 0,
         NEW e \in Entry, e.there, ~e.cut, e.until = tm
  PROVE  /\ Inserted(k, tm, ts) \in Seq(Timer) /\ Spares(ts, Inserted(k, tm, ts), j, k)
         /\ Timed(Inserted(k, tm, ts), j, e, k)
         /\ Free(ts, j, k) => Owned(Inserted(k, tm, ts), j, e, k)
<1> DEFINE us == Inserted(k, tm, ts)
           p == Place(tm, ts)
<1>1. ts \in Seq(Timer) /\ InOrder(ts) /\ tm \in Int /\ Len(ts) \in Nat /\ j \in Nat
  BY DEF Lists
<1>2. /\ us \in Seq(Timer) /\ Len(us) = Len(ts) + 1 /\ Divides(p, tm, ts)
      /\ \A n \in DOMAIN us :
           us[n] = IF n <= p THEN ts[n]
                   ELSE IF n = p + 1 THEN [t |-> tm, key |-> k] ELSE ts[n - 1]
  <2>1. us \in Seq(Timer) /\ Len(us) = Len(ts) + 1 /\ Divides(p, tm, ts)
    BY <1>1, InsertedFacts
  <2>2. ASSUME NEW n \in DOMAIN us
        PROVE  us[n] = IF n <= p THEN ts[n]
                       ELSE IF n = p + 1 THEN [t |-> tm, key |-> k] ELSE ts[n - 1]
    BY <1>1, InsertedFacts
  <2> QED
    BY <2>1, <2>2
<1> HIDE DEF us, p
<1>3. /\ p \in 0 .. Len(ts)
      /\ \A n \in DOMAIN ts : IF n <= p THEN ts[n].t <= tm ELSE ~(ts[n].t <= tm)
  <2>1. Divides(p, tm, ts)
    BY <1>2
  <2> QED
    BY <2>1 DEF Divides
<1>4. j <= p
  <2>1. SUFFICES ASSUME p < j PROVE FALSE
    BY <1>1, <1>3
  <2>2. j \in DOMAIN ts /\ j \in 1 .. j /\ ~(j <= p)
    BY <1>1, <1>3, <2>1
  <2>3. ts[j].t <= 0 /\ ~(ts[j].t <= tm) /\ ts[j].t \in Int
    <3>1. ts[j] \in Timer
      BY <1>1, <2>2
    <3> QED
      BY <1>3, <2>2, <3>1 DEF Timer
  <2> QED
    BY <2>3
<1>5. Spares(ts, us, j, k)
  BY <1>1, <1>2, <1>3, <1>4, InsertedSpares
<1>6. p + 1 \in j + 1 .. Len(us) /\ us[p + 1] = [t |-> tm, key |-> k]
  <2>1. /\ p + 1 \in j + 1 .. Len(us) /\ p + 1 \in DOMAIN us
        /\ ~(p + 1 <= p)
    BY <1>1, <1>2, <1>3, <1>4
  <2> QED
    BY <1>2, <2>1
<1>7. Timed(us, j, e, k)
  BY <1>6 DEF Timed
<1>8. ASSUME Free(ts, j, k) PROVE Owned(us, j, e, k)
  <2>1. ASSUME NEW n \in j + 1 .. Len(us), us[n].key = k PROVE n = p + 1
    <3>1. n \in DOMAIN us
      BY <1>1, <1>2
    <3>2. CASE n <= p
      BY <1>1, <1>2, <1>3, <1>8, <2>1, <3>1, <3>2 DEF Free
    <3>3. CASE n > p + 1
      <4>1. n - 1 \in j + 1 .. Len(ts) /\ us[n] = ts[n - 1]
        BY <1>1, <1>2, <1>3, <1>4, <3>1, <3>3
      <4> QED
        BY <1>8, <2>1, <4>1 DEF Free
    <3> QED
      BY <1>1, <1>3, <3>2, <3>3
  <2>2. us[p + 1].t = e.until /\ e # None
    BY <1>6
  <2> QED
    BY <2>1, <2>2 DEF Owned
<1> QED
  BY <1>2, <1>5, <1>7, <1>8 DEF us
-----------------------------------------------------------------------------
\* The timers that do_update() is through with, or busy with
Passed == IF index # None THEN i + 1 ELSE i

\* None of the first j timers bears the name k.
Ahead(ts, j, k) == \A n \in 1 .. j : ts[n].key # k

TimersInv ==
  /\ TypeInv
  /\ Passed <= Len(reset_times)
  /\ \A n \in 1 .. Passed : reset_times[n].t <= 0
  /\ index # None => reset_times[i + 1].key = index
  /\ \A k \in NAME : Timed(reset_times, i, in_progress[k], k)
  /\ \A k \in NAME : in_progress[k] # None /\ in_progress[k].cut => Ahead(reset_times, i, k)
  /\ \A k \in NAME \ spoilt : Owned(reset_times, i, in_progress[k], k)

LEMMA TimersTyped ==
  ASSUME TimersInv
  PROVE  /\ reset_times \in Lists /\ reset_times \in Seq(Timer) /\ Len(reset_times) \in Nat
         /\ i \in Nat /\ Passed \in Nat /\ index \in NAME \cup {None}
         /\ in_progress \in [NAME -> Entry \cup {None}]
         /\ spoilt \subseteq NAME
<1>1. TypeOK
  BY DEF TimersInv, TypeInv
<1>2. /\ reset_times \in Lists /\ in_progress \in [NAME -> Entry \cup {None}]
      /\ i \in 0 .. max /\ max \in Nat /\ index \in NAME \cup {None}
      /\ spoilt \subseteq NAME
  BY <1>1, TypeParts, Zenon
<1>3. reset_times \in Seq(Timer)
  BY <1>2 DEF Lists
<1>4. i \in Nat /\ Passed \in Nat
  BY <1>2 DEF Passed
<1> QED
  BY <1>2, <1>3, <1>4

\* A name without a timer has none that is not its own.
LEMMA NoTimer ==
  ASSUME NEW ts \in Seq(Timer), NEW j \in Nat, NEW x \in NAME, NEW e, x \notin KeysOf(ts)
  PROVE  Owned(ts, j, e, x)
<1>1. ASSUME NEW n \in j + 1 .. Len(ts) PROVE ts[n].key # x
  <2>1. n \in DOMAIN ts
    OBVIOUS
  <2> QED
    BY <2>1 DEF KeysOf
<1> QED
  BY <1>1 DEF Owned

\* One name gets other timers and another entry.
LEMMA TimersOneChanges ==
  ASSUME TimersInv, TypeInv', UNCHANGED <<i, index>>, NEW k \in NAME, index # k,
         Spares(reset_times, reset_times', i, k),
         Spares(reset_times, reset_times', Passed, k),
         \A x \in NAME \ {k} : in_progress'[x] = in_progress[x],
         Timed(reset_times', i, in_progress'[k], k),
         in_progress'[k] # None /\ in_progress'[k].cut => Ahead(reset_times', i, k),
         k \notin spoilt' => Owned(reset_times', i, in_progress'[k], k),
         \A x \in spoilt : x \in spoilt' \/ x \notin KeysOf(reset_times')
  PROVE  TimersInv'
<1>1. /\ i \in Nat /\ Passed \in Nat /\ in_progress \in [NAME -> Entry \cup {None}]
      /\ index \in NAME \cup {None}
  BY TimersTyped
<1>2. reset_times' \in Seq(Timer)
  <2>1. TypeOK'
    BY DEF TypeInv
  <2> QED
    BY <2>1 DEF TypeOK
<1>3. Passed' = Passed
  BY DEF Passed
<1>4. Passed <= Len(reset_times') /\ \A n \in 1 .. Passed : reset_times'[n] = reset_times[n]
  BY DEF Spares
<1>5. \A n \in 1 .. Passed : reset_times'[n].t <= 0
  BY <1>4 DEF TimersInv
<1>6. index # None => reset_times'[i + 1].key = index
  <2>1. SUFFICES ASSUME index # None PROVE reset_times'[i + 1].key = index
    OBVIOUS
  <2>2. i + 1 \in 1 .. Passed
    BY <1>1, <2>1 DEF Passed
  <2> QED
    BY <1>4, <2>1, <2>2 DEF TimersInv
<1>7. ASSUME NEW x \in NAME
      PROVE  /\ Timed(reset_times', i, in_progress'[x], x)
             /\ in_progress'[x] # None /\ in_progress'[x].cut => Ahead(reset_times', i, x)
             /\ x \notin spoilt' => Owned(reset_times', i, in_progress'[x], x)
  <2>1. CASE x = k
    BY <2>1
  <2>2. CASE x # k
    <3>1. in_progress'[x] = in_progress[x] /\ in_progress[x] \in Entry \cup {None}
      BY <1>1, <2>2
    <3>2. Timed(reset_times', i, in_progress'[x], x)
      BY <2>2, <3>1 DEF Spares, TimersInv
    <3>3. ASSUME x \notin spoilt' PROVE Owned(reset_times', i, in_progress'[x], x)
      <4>1. CASE x \notin spoilt
        BY <2>2, <3>1, <4>1 DEF Spares, TimersInv
      <4>2. CASE x \in spoilt
        <5>1. x \notin KeysOf(reset_times')
          BY <3>3, <4>2
        <5> QED
          BY <1>1, <1>2, <5>1, NoTimer
      <4> QED
        BY <4>1, <4>2
    <3>4. ASSUME in_progress[x] # None, in_progress[x].cut PROVE Ahead(reset_times', i, x)
      <4>1. Ahead(reset_times, i, x)
        BY <3>4 DEF TimersInv
      <4>2. \A n \in 1 .. i : reset_times'[n] = reset_times[n]
        BY DEF Spares
      <4> QED
        BY <4>1, <4>2 DEF Ahead
    <3> QED
      BY <3>1, <3>2, <3>3, <3>4
  <2> QED
    BY <2>1, <2>2
<1> QED
  BY <1>3, <1>4, <1>5, <1>6, <1>7 DEF TimersInv

LEMMA SparesItself == ASSUME TimersInv, NEW k
                      PROVE  /\ Spares(reset_times, reset_times, i, k)
                             /\ Spares(reset_times, reset_times, Passed, k)
BY TimersTyped DEF Spares, TimersInv, Passed

\* The timer of a temporary value that somebody ends is not the one that
\* do_update() is busy with.
LEMMA WithoutTimers ==
  ASSUME TimersInv, NEW k \in NAME, index # k, in_progress[k] # None
  PROVE  /\ Spares(reset_times, Without(k, reset_times), i, k)
         /\ Spares(reset_times, Without(k, reset_times), Passed, k)
         /\ k \notin spoilt => Free(Without(k, reset_times), i, k)
<1>1. /\ reset_times \in Seq(Timer) /\ i \in Nat /\ in_progress[k] \in Entry
      /\ Len(reset_times) \in Nat /\ DOMAIN reset_times = 1 .. Len(reset_times)
  BY TimersTyped
<1>2. index # None => reset_times[i + 1].key # k
  BY DEF TimersInv
<1>3. k \notin spoilt => Owned(reset_times, i, in_progress[k], k)
  BY DEF TimersInv
<1>4. CASE ~Free(reset_times, i, k)
  <2>1. /\ Spares(reset_times, Without(k, reset_times), i, k)
        /\ reset_times[i + 1].key # k => Spares(reset_times, Without(k, reset_times), i + 1, k)
        /\ Owned(reset_times, i, in_progress[k], k) => Free(Without(k, reset_times), i, k)
    BY <1>1, <1>4, WithoutOwn
  <2> QED
    BY <1>2, <1>3, <2>1 DEF Passed
<1>5. CASE Free(reset_times, i, k)
  <2>1. Timed(reset_times, i, in_progress[k], k)
    BY DEF TimersInv
  <2>2. in_progress[k].cut
    BY <1>5, <2>1 DEF Timed, Free
  <2>3. Ahead(reset_times, i, k)
    BY <2>2 DEF TimersInv
  <2>4. \A n \in DOMAIN reset_times : n \in 1 .. i \/ n \in i + 1 .. Len(reset_times)
    BY <1>1
  <2>5. \A n \in DOMAIN reset_times : reset_times[n].key # k
    BY <1>5, <2>3, <2>4 DEF Ahead, Free
  <2>6. Without(k, reset_times) = reset_times
    BY <2>5 DEF Without
  <2> QED
    BY <1>5, <2>6, SparesItself
<1> QED
  BY <1>4, <1>5

LEMMA OthersTimers ==
  ASSUME TimersInv, NEW k \in NAME, index # k
  PROVE  /\ TimersOfOthers(k) \in Lists
         /\ Spares(reset_times, TimersOfOthers(k), i, k)
         /\ Spares(reset_times, TimersOfOthers(k), Passed, k)
         /\ k \notin spoilt => Free(TimersOfOthers(k), i, k)
<1>1. CASE Running(k)
  BY <1>1, TimersTyped, WithoutTimers, ListWithout DEF Running, TimersOfOthers
<1>2. CASE ~Running(k)
  <2>1. ASSUME k \notin spoilt PROVE Free(reset_times, i, k)
    <3>1. Owned(reset_times, i, in_progress[k], k)
      BY <2>1 DEF TimersInv
    <3> QED
      BY <1>2, <3>1 DEF Owned, Free, Running
  <2> QED
    BY <1>2, <2>1, TimersTyped, SparesItself DEF TimersOfOthers
<1> QED
  BY <1>1, <1>2

LEMMA SetTimers ==
  ASSUME TimersInv, TypeInv', NEW k \in NAME, NEW tm \in Times, NEW sp \in BOOLEAN,
         SetTmpProp(k, tm, sp)
  PROVE  TimersInv'
<1> DEFINE ts == TimersOfOthers(k)
           old == IF sp THEN Cleared(k).value ELSE Tmp
           e == [there |-> TRUE, old |-> old, sp |-> sp, until |-> tm, cut |-> FALSE]
<1>1. tm \in Nat
  BY ConstantsAssumption
<1>2. /\ UNCHANGED <<i, index, spoilt>> /\ index # k
      /\ in_progress' = [in_progress EXCEPT ![k] = e] /\ reset_times' = Inserted(k, tm, ts)
  BY DEF SetTmpProp, OthersAct, locals
<1>3. /\ reset_times \in Lists /\ Len(reset_times) \in Nat /\ i \in Nat /\ Passed \in Nat
      /\ in_progress \in [NAME -> Entry \cup {None}]
  BY TimersTyped
<1>4. e \in Entry /\ e.there /\ ~e.cut /\ e.until = tm
  <2>1. Cleared(k) \in Property
    BY EndsTyped DEF TimersInv
  <2>2. old \in Value
    BY <2>1 DEF Property, Value
  <2> HIDE DEF old
  <2> QED
    BY <1>1, <2>2 DEF Entry
<1> HIDE DEF e
<1>5. /\ ts \in Lists /\ Spares(reset_times, ts, i, k) /\ Spares(reset_times, ts, Passed, k)
      /\ k \notin spoilt => Free(ts, i, k)
  BY <1>2, OthersTimers
<1> HIDE DEF ts
<1>6. /\ Passed <= Len(ts) /\ i <= Passed
      /\ \A n \in 1 .. Passed : ts[n].t <= 0
  BY <1>3, <1>5 DEF Spares, TimersInv, Passed
<1>7. /\ i \in 0 .. Len(ts) /\ Passed \in 0 .. Len(ts) /\ \A n \in 1 .. i : ts[n].t <= 0
  <2>1. Len(ts) \in Nat
    BY <1>5 DEF Lists
  <2> QED
    BY <1>3, <1>6, <2>1
<1>8. /\ Spares(ts, Inserted(k, tm, ts), i, k) /\ Spares(ts, Inserted(k, tm, ts), Passed, k)
      /\ Timed(Inserted(k, tm, ts), i, e, k)
      /\ Free(ts, i, k) => Owned(Inserted(k, tm, ts), i, e, k)
  BY <1>1, <1>4, <1>5, <1>6, <1>7, InsertedOwn
<1>9. /\ Spares(reset_times, reset_times', i, k)
      /\ Spares(reset_times, reset_times', Passed, k)
  BY <1>2, <1>3, <1>5, <1>8, SparesTwice
<1>10. in_progress'[k] = e /\ \A x \in NAME \ {k} : in_progress'[x] = in_progress[x]
  BY <1>2, <1>3
<1> QED
  BY <1>2, <1>4, <1>5, <1>8, <1>9, <1>10, TimersOneChanges

LEMMA CutTimers ==
  ASSUME TimersInv, TypeInv', NEW k \in NAME, NEW sp \in BOOLEAN, SetTmpPropCut(k, sp)
  PROVE  TimersInv'
<1>1. /\ UNCHANGED <<i, index, spoilt>> /\ index # k /\ k \notin PassedKeys
      /\ in_progress' = IF Running(k) THEN [in_progress EXCEPT ![k].cut = TRUE]
                                      ELSE in_progress
      /\ reset_times' = TimersOfOthers(k)
  BY DEF SetTmpPropCut, OthersAct, locals
<1>2. /\ reset_times \in Seq(Timer) /\ Len(reset_times) \in Nat /\ i \in Nat
      /\ in_progress \in [NAME -> Entry \cup {None}] /\ Passed \in Nat
  BY TimersTyped
<1>3. /\ Spares(reset_times, reset_times', i, k)
      /\ Spares(reset_times, reset_times', Passed, k)
      /\ k \notin spoilt => Free(reset_times', i, k)
  BY <1>1, OthersTimers
<1>4. CASE Running(k)
  <2>1. /\ in_progress'[k] # None /\ in_progress'[k].cut
        /\ \A x \in NAME \ {k} : in_progress'[x] = in_progress[x]
    <3>1. in_progress[k] \in Entry /\ in_progress'[k] = [in_progress[k] EXCEPT !.cut = TRUE]
      BY <1>1, <1>2, <1>4 DEF Running
    <3>2. in_progress'[k] \in Entry /\ in_progress'[k].cut
      BY <3>1 DEF Entry
    <3> QED
      BY <1>1, <1>2, <1>4, <3>2, ConstantsAssumption
  <2>2. Ahead(reset_times', i, k)
    <3>1. \A n \in 1 .. i : reset_times'[n] = reset_times[n] /\ n \in DOMAIN reset_times
      BY <1>2, <1>3 DEF Spares, TimersInv, Passed
    <3>2. \A n \in 1 .. i : reset_times[n].key # k
      BY <1>1, <3>1 DEF PassedKeys
    <3> QED
      BY <3>1, <3>2 DEF Ahead
  <2>3. Timed(reset_times', i, in_progress'[k], k)
    BY <2>1 DEF Timed
  <2>4. k \notin spoilt' => Owned(reset_times', i, in_progress'[k], k)
    BY <1>1, <1>3 DEF Owned, Free
  <2> QED
    BY <1>1, <1>3, <2>1, <2>2, <2>3, <2>4, TimersOneChanges
<1>5. CASE ~Running(k)
  <2>1. UNCHANGED <<reset_times, in_progress, Passed>>
    BY <1>1, <1>5 DEF TimersOfOthers, Passed
  <2> QED
    BY <1>1, <2>1 DEF TimersInv
<1> QED
  BY <1>4, <1>5

LEMMA RemoveTimers ==
  ASSUME TimersInv, TypeInv', NEW k \in NAME, NEW p, Remove(k, p),
         in_progress[k] # None, UNCHANGED <<i, index>>, index # k
  PROVE  TimersInv'
<1>1. /\ reset_times' = Without(k, reset_times) /\ in_progress' = [in_progress EXCEPT ![k] = None]
      /\ spoilt' = spoilt \cap KeysOf(reset_times')
  BY DEF Remove
<1>2. /\ reset_times' \in Seq(Timer) /\ i \in Nat /\ in_progress \in [NAME -> Entry \cup {None}]
  <2>1. TypeOK'
    BY DEF TypeInv
  <2> QED
    BY <2>1, TimersTyped DEF TypeOK
<1>3. in_progress'[k] = None /\ \A x \in NAME \ {k} : in_progress'[x] = in_progress[x]
  BY <1>1, <1>2
<1>4. Timed(reset_times', i, None, k)
  BY DEF Timed
<1>5. k \notin spoilt' => Owned(reset_times', i, None, k)
  <2>1. CASE k \notin spoilt
    BY <1>1, <2>1, WithoutTimers DEF Owned, Free
  <2>2. CASE k \notin KeysOf(reset_times')
    BY <1>2, <2>2, NoTimer
  <2> QED
    BY <1>1, <2>1, <2>2
<1> QED
  BY <1>1, <1>3, <1>4, <1>5, WithoutTimers, TimersOneChanges

LEMMA ObjectsTimers ==
  ASSUME TimersInv, TypeInv', Objects
  PROVE  TimersInv'
<1>1. PICK k \in NAME :
        \/ \E tm \in Times, sp \in BOOLEAN : SetTmpProp(k, tm, sp)
        \/ \E sp \in BOOLEAN : SetTmpPropCut(k, sp)
        \/ RemoveTmpProp(k) \/ EndFails(k)
        \/ \E v \in Value : SetProp(k, v)
        \/ Destruct(k) \/ Load(k)
  BY DEF Objects
<1>2. /\ i \in Nat /\ reset_times \in Seq(Timer) /\ in_progress \in [NAME -> Entry \cup {None}]
      /\ spoilt \subseteq NAME
  BY TimersTyped
<1>3. CASE \E tm \in Times, sp \in BOOLEAN : SetTmpProp(k, tm, sp)
  BY <1>3, SetTimers
<1>4. CASE RemoveTmpProp(k)
  BY <1>4, RemoveTimers DEF RemoveTmpProp, OthersAct, locals
<1>5. ASSUME NEW v \in Value, SetProp(k, v)
      PROVE  TimersInv'
  <2>1. UNCHANGED <<i, index>> /\ index # k
    BY <1>5 DEF SetProp, OthersAct, locals
  <2>2. CASE prop[k].set /\ in_progress[k] # None
    <3>1. PICK p : Remove(k, p)
      BY <1>5, <2>2 DEF SetProp
    <3> QED
      BY <2>1, <2>2, <3>1, RemoveTimers
  <2>3. CASE ~(prop[k].set /\ in_progress[k] # None)
    <3>1. UNCHANGED <<reset_times, in_progress, spoilt>>
      BY <1>5, <2>3 DEF SetProp
    <3> QED
      BY <2>1, <3>1, SparesItself, TimersOneChanges DEF TimersInv
  <2> QED
    BY <2>2, <2>3
<1>6. CASE Destruct(k)
  <2> DEFINE e == IF in_progress[k] = None THEN None
                  ELSE [in_progress[k] EXCEPT !.there = FALSE]
  <2>1. /\ UNCHANGED <<reset_times, locals>>
        /\ in_progress' = [in_progress EXCEPT ![k] = e]
        /\ spoilt' = spoilt \cup ({k} \cap KeysOf(reset_times))
    BY <1>2, <1>6 DEF Destruct
  <2>2. e # None => /\ in_progress[k] # None /\ e.until = in_progress[k].until
                    /\ e.cut = in_progress[k].cut
    BY <1>2 DEF Entry
  <2> HIDE DEF e
  <2>3. UNCHANGED <<i, index, Passed>>
    BY <2>1 DEF locals, Passed
  <2>4. ASSUME NEW x \in NAME
        PROVE  /\ Timed(reset_times, i, in_progress'[x], x)
               /\ in_progress'[x] # None /\ in_progress'[x].cut => Ahead(reset_times, i, x)
               /\ x \notin spoilt' => Owned(reset_times, i, in_progress'[x], x)
    <3>1. Timed(reset_times, i, in_progress[x], x)
      BY DEF TimersInv
    <3>2. CASE x # k
      BY <1>2, <2>1, <3>1, <3>2 DEF TimersInv
    <3>3. CASE x = k
      <4>1. in_progress'[x] = e
        BY <1>2, <2>1, <3>3
      <4>2. Timed(reset_times, i, e, x)
        BY <2>2, <3>1, <3>3 DEF Timed
      <4>3. x \notin spoilt' => Owned(reset_times, i, e, x)
        BY <1>2, <2>1, <3>3, NoTimer
      <4>4. e # None /\ e.cut => Ahead(reset_times, i, x)
        BY <2>2, <3>3 DEF TimersInv
      <4> QED
        BY <4>1, <4>2, <4>3, <4>4
    <3> QED
      BY <3>2, <3>3
  <2> QED
    BY <2>1, <2>3, <2>4 DEF TimersInv
<1>7. CASE Load(k)
  <2>1. UNCHANGED <<reset_times, in_progress, spoilt, i, index, Passed>>
    BY <1>7 DEF Load, locals, Passed
  <2> QED
    BY <2>1 DEF TimersInv
<1>8. CASE EndFails(k)
  <2>1. UNCHANGED <<reset_times, in_progress, spoilt, i, index, Passed>>
    BY <1>8 DEF EndFails, locals, Passed
  <2> QED
    BY <2>1 DEF TimersInv
<1> QED
  BY <1>1, <1>3, <1>4, <1>5, <1>6, <1>7, <1>8, CutTimers

\* The loop goes on to the next timer, and the entry of this one goes.
LEMMA NextTimer ==
  ASSUME TimersInv, TypeInv', NEW k \in NAME, i < Len(reset_times), reset_times[i + 1].key = k,
         reset_times[i + 1].t <= 0, i' = i + 1, index' = None,
         UNCHANGED <<reset_times, spoilt>>, in_progress' = [in_progress EXCEPT ![k] = None]
  PROVE  TimersInv'
<1>1. /\ i \in Nat /\ reset_times \in Seq(Timer) /\ in_progress \in [NAME -> Entry \cup {None}]
      /\ Len(reset_times) \in Nat
  BY TimersTyped
<1>2. Passed' = i + 1 /\ i + 1 <= Len(reset_times)
  BY <1>1 DEF Passed
<1>3. \A n \in 1 .. i + 1 : reset_times[n].t <= 0
  <2>1. \A n \in 1 .. i : n \in 1 .. Passed
    BY <1>1 DEF Passed
  <2>2. \A n \in 1 .. i + 1 : n \in 1 .. i \/ n = i + 1
    BY <1>1
  <2> QED
    BY <2>1, <2>2 DEF TimersInv
<1>4. ASSUME NEW x \in NAME
      PROVE  /\ Timed(reset_times, i + 1, in_progress'[x], x)
             /\ in_progress'[x] # None /\ in_progress'[x].cut => Ahead(reset_times, i + 1, x)
             /\ x \notin spoilt => Owned(reset_times, i + 1, in_progress'[x], x)
  <2>1. /\ Timed(reset_times, i, in_progress[x], x)
        /\ x \notin spoilt => Owned(reset_times, i, in_progress[x], x)
    BY DEF TimersInv
  <2>2. \A n \in i + 2 .. Len(reset_times) : n \in i + 1 .. Len(reset_times) /\ n # i + 1
    BY <1>1
  <2>3. /\ i + 1 \in i + 1 .. Len(reset_times)
        /\ \A n \in i + 1 .. Len(reset_times) : n = i + 1 \/ n \in i + 2 .. Len(reset_times)
        /\ (i + 1) + 1 = i + 2
    BY <1>1, <1>2
  <2>4. CASE x = k
    <3>1. in_progress'[x] = None
      BY <1>1, <2>4
    <3>2. ASSUME x \notin spoilt PROVE Owned(reset_times, i + 1, None, x)
      <4>1. \A n \in i + 1 .. Len(reset_times) : reset_times[n].key = x => n = i + 1
        BY <2>1, <2>3, <2>4, <3>2 DEF Owned
      <4> QED
        BY <2>2, <2>3, <4>1 DEF Owned
    <3> QED
      BY <3>1, <3>2 DEF Timed
  <2>5. CASE x # k
    <3>1. in_progress'[x] = in_progress[x]
      BY <1>1, <2>5
    <3>2. Timed(reset_times, i + 1, in_progress[x], x)
      <4>1. SUFFICES ASSUME in_progress[x] # None, ~in_progress[x].cut
                     PROVE  Timed(reset_times, i + 1, in_progress[x], x)
        BY DEF Timed
      <4>2. PICK n \in i + 1 .. Len(reset_times) :
              reset_times[n] = [t |-> in_progress[x].until, key |-> x]
        BY <2>1, <4>1 DEF Timed
      <4>3. n # i + 1
        BY <2>5, <4>2
      <4> QED
        BY <2>3, <4>2, <4>3 DEF Timed
    <3>3. x \notin spoilt => Owned(reset_times, i + 1, in_progress[x], x)
      BY <2>1, <2>2, <2>3 DEF Owned
    <3>4. ASSUME in_progress[x] # None, in_progress[x].cut PROVE Ahead(reset_times, i + 1, x)
      <4>1. Ahead(reset_times, i, x)
        BY <3>4 DEF TimersInv
      <4>2. \A n \in 1 .. i + 1 : n \in 1 .. i \/ n = i + 1
        BY <1>1
      <4> QED
        BY <2>5, <4>1, <4>2 DEF Ahead
    <3> QED
      BY <3>1, <3>2, <3>3, <3>4
  <2> QED
    BY <2>4, <2>5
<1> QED
  BY <1>2, <1>3, <1>4 DEF TimersInv

\* do_update() is not busy any more; of the timers at most those that it has
\* gone through are cut off.
LEMMA LoopEnds ==
  ASSUME TimersInv, TypeInv', i' = 0, index' = None, NEW j \in 0 .. i,
         Len(reset_times') = Len(reset_times) - j,
         \A n \in 1 .. Len(reset_times) - j : reset_times'[n] = reset_times[j + n],
         UNCHANGED in_progress
  PROVE  /\ Passed' = 0 /\ Passed' <= Len(reset_times')
         /\ \A x \in NAME : /\ Timed(reset_times', 0, in_progress[x], x)
                             /\ Ahead(reset_times', 0, x)
<1>1. /\ i \in Nat /\ reset_times \in Seq(Timer) /\ Len(reset_times) \in Nat
      /\ reset_times' \in Seq(Timer)
  <2>1. TypeOK'
    BY DEF TypeInv
  <2> QED
    BY <2>1, TimersTyped DEF TypeOK
<1>2. ASSUME NEW x \in NAME, in_progress[x] # None, ~in_progress[x].cut
      PROVE  Timed(reset_times', 0, in_progress[x], x)
  <2>1. PICK n \in i + 1 .. Len(reset_times) :
          reset_times[n] = [t |-> in_progress[x].until, key |-> x]
    BY <1>2 DEF TimersInv, Timed
  <2>2. n - j \in 1 .. Len(reset_times) - j /\ j + (n - j) = n
    BY <1>1
  <2>3. reset_times'[n - j] = [t |-> in_progress[x].until, key |-> x]
    BY <2>1, <2>2
  <2>4. n - j \in 0 + 1 .. Len(reset_times')
    BY <2>2
  <2> QED
    BY <2>3, <2>4 DEF Timed
<1>3. ASSUME NEW x \in NAME
      PROVE  Timed(reset_times', 0, in_progress[x], x) /\ Ahead(reset_times', 0, x)
  BY <1>2 DEF Timed, Ahead
<1>4. Passed' = 0 /\ Passed' <= Len(reset_times')
  BY <1>1 DEF Passed
<1> QED
  BY <1>3, <1>4

LEMMA DoneTimers ==
  ASSUME TimersInv, TypeInv', UpdateDone
  PROVE  TimersInv'
<1>1. /\ i \in Nat /\ reset_times \in Seq(Timer) /\ Len(reset_times) \in Nat
  BY TimersTyped
<1>2. /\ reset_times' = Rest /\ i' = 0 /\ index = None /\ index' = None
      /\ in_progress' = in_progress /\ spoilt' = spoilt \cap KeysOf(reset_times')
  BY DEF UpdateDone
<1>3. i \in 0 .. Len(reset_times)
  BY <1>1, <1>2 DEF TimersInv, Passed
<1>4. /\ reset_times' \in Seq(Timer) /\ Len(reset_times') = Len(reset_times) - i
      /\ \A n \in 1 .. Len(reset_times) - i : reset_times'[n] = reset_times[i + n]
  BY <1>1, <1>2, <1>3, RestFacts DEF Rest
<1>5. /\ Passed' = 0 /\ Passed' <= Len(reset_times')
      /\ \A x \in NAME : /\ Timed(reset_times', 0, in_progress[x], x)
                          /\ Ahead(reset_times', 0, x)
  BY <1>1, <1>2, <1>3, <1>4, LoopEnds
<1>6. ASSUME NEW x \in NAME, x \notin spoilt'
      PROVE  Owned(reset_times', 0, in_progress[x], x)
  <2>1. CASE x \notin KeysOf(reset_times')
    BY <1>4, <2>1, NoTimer
  <2>2. CASE x \notin spoilt
    <3>1. Owned(reset_times, i, in_progress[x], x)
      BY <2>2 DEF TimersInv
    <3>2. \A n \in 0 + 1 .. Len(reset_times') :
            /\ i + n \in i + 1 .. Len(reset_times) /\ reset_times'[n] = reset_times[i + n]
            /\ \A m \in 0 + 1 .. Len(reset_times') : i + m = i + n => m = n
      BY <1>1, <1>4
    <3> QED
      BY <3>1, <3>2 DEF Owned
  <2> QED
    BY <1>2, <1>6, <2>1, <2>2
<1> QED
  BY <1>2, <1>5, <1>6 DEF TimersInv

LEMMA AbortTimers ==
  ASSUME TimersInv, TypeInv', Aborts
  PROVE  TimersInv'
<1>1. /\ i \in Nat /\ reset_times \in Seq(Timer) /\ Len(reset_times) \in Nat
      /\ DOMAIN reset_times = 1 .. Len(reset_times)
  BY TimersTyped
<1>2. /\ reset_times' = reset_times /\ i' = 0 /\ index' = None
      /\ in_progress' = in_progress /\ spoilt' = spoilt \cup PassedKeys
  BY DEF Aborts
<1>3. /\ 0 \in 0 .. i /\ Len(reset_times') = Len(reset_times) - 0
      /\ \A n \in 1 .. Len(reset_times) - 0 : reset_times'[n] = reset_times[0 + n]
  BY <1>1, <1>2
<1>4. /\ Passed' = 0 /\ Passed' <= Len(reset_times')
      /\ \A x \in NAME : /\ Timed(reset_times', 0, in_progress[x], x)
                          /\ Ahead(reset_times', 0, x)
  BY <1>2, <1>3, LoopEnds
<1>5. ASSUME NEW x \in NAME, x \notin spoilt'
      PROVE  Owned(reset_times', 0, in_progress[x], x)
  <2>1. Owned(reset_times, i, in_progress[x], x)
    BY <1>2, <1>5 DEF TimersInv
  <2>2. ASSUME NEW n \in 0 + 1 .. Len(reset_times), reset_times[n].key = x
        PROVE  n \in i + 1 .. Len(reset_times)
    <3>1. n \notin (1 .. i) \cap DOMAIN reset_times
      BY <1>2, <1>5, <2>2 DEF PassedKeys
    <3> QED
      BY <1>1, <3>1
  <2> QED
    BY <1>2, <2>1, <2>2 DEF Owned
<1> QED
  BY <1>2, <1>4, <1>5 DEF TimersInv

LEMMA StepTimers ==
  ASSUME TimersInv, TypeInv', Step
  PROVE  TimersInv'
<1>1. CASE DoUpdate
  <2>1. /\ UNCHANGED <<reset_times, in_progress, index, spoilt>> /\ i' = i
    BY <1>1 DEF DoUpdate, TimersInv, TypeInv
  <2>2. Passed' = Passed
    BY <2>1 DEF Passed
  <2> QED
    BY <2>1, <2>2 DEF TimersInv
<1>2. CASE UpdateEnd
  <2> DEFINE k == reset_times[i + 1].key
  <2>1. k \in NAME
    BY <1>2, DueTyped DEF UpdateEnd, TimersInv
  <2>2. /\ UNCHANGED <<reset_times, spoilt>> /\ i < Len(reset_times) /\ reset_times[i + 1].t <= 0
        /\ i' = i + 1 /\ index' = None /\ in_progress' = [in_progress EXCEPT ![k] = None]
    BY <1>2 DEF UpdateEnd, Due, AtTimer
  <2> QED
    BY <2>1, <2>2, NextTimer
<1>3. CASE UpdateReturn
  <2>1. index \in NAME /\ i \in Nat /\ Len(reset_times) \in Nat
    BY <1>3, TimersTyped DEF UpdateReturn
  <2>2. /\ UNCHANGED <<reset_times, spoilt>> /\ i' = i + 1 /\ index' = None
        /\ in_progress' = [in_progress EXCEPT ![index] = None]
    BY <1>3 DEF UpdateReturn
  <2>3. Passed = i + 1 /\ i + 1 \in 1 .. Passed
    BY <1>3, <2>1 DEF UpdateReturn, Passed
  <2>4. i < Len(reset_times) /\ reset_times[i + 1].t <= 0 /\ reset_times[i + 1].key = index
    BY <1>3, <2>1, <2>3 DEF TimersInv, UpdateReturn
  <2> QED
    BY <2>1, <2>2, <2>4, NextTimer
<1>4. CASE UpdateSetProp
  <2>1. /\ UNCHANGED <<reset_times, in_progress, i, spoilt>> /\ index = None
        /\ index' = reset_times[i + 1].key
        /\ i < Len(reset_times) /\ reset_times[i + 1].t <= 0
    BY <1>4 DEF UpdateSetProp, Due, AtTimer
  <2>2. index' \in NAME
    BY <1>4, <2>1, DueTyped DEF UpdateSetProp, TimersInv
  <2>3. Passed' = i + 1 /\ Passed = i /\ i \in Nat /\ Len(reset_times) \in Nat
    BY <2>1, <2>2, TimersTyped DEF Passed
  <2>4. \A n \in 1 .. i + 1 : n \in 1 .. i \/ n = i + 1
    BY <2>3
  <2>5. \A n \in 1 .. i + 1 : reset_times[n].t <= 0
    BY <2>1, <2>3, <2>4 DEF TimersInv
  <2>6. i + 1 <= Len(reset_times)
    BY <2>1, <2>3
  <2> QED
    BY <2>1, <2>3, <2>5, <2>6 DEF TimersInv
<1>5. CASE UpdateError \/ Fails
  <2>1. Aborts
    BY <1>5 DEF UpdateError, Fails, UpdateSetPropFails, UpdateReturnFails
  <2> QED
    BY <2>1, AbortTimers
<1> QED
  BY <1>1, <1>2, <1>3, <1>4, <1>5, DoneTimers DEF Step

\* Over a restart of the master, and in a second, the lists stay as they are.
LEMMA RestartTimers ==
  ASSUME TimersInv, TypeInv', Restart
  PROVE  TimersInv'
<1>1. /\ i \in Nat /\ reset_times \in Seq(Timer) /\ in_progress \in [NAME -> Entry \cup {None}]
  BY TimersTyped
<1>2. /\ UNCHANGED <<reset_times, i, index, Passed>> /\ spoilt' = KeysOf(reset_times)
      /\ in_progress' = [k \in NAME |-> IF in_progress[k] = None THEN None
                          ELSE [in_progress[k] EXCEPT !.there = FALSE]]
  BY DEF Restart, locals, Passed
<1>3. ASSUME NEW x \in NAME
      PROVE  /\ Timed(reset_times, i, in_progress'[x], x)
             /\ in_progress'[x] # None /\ in_progress'[x].cut => Ahead(reset_times, i, x)
             /\ x \notin spoilt' => Owned(reset_times, i, in_progress'[x], x)
  <2>1. Timed(reset_times, i, in_progress[x], x) /\ in_progress[x] \in Entry \cup {None}
    BY <1>1 DEF TimersInv
  <2>2. in_progress'[x] # None => /\ in_progress[x] # None
                                  /\ in_progress'[x].until = in_progress[x].until
                                  /\ in_progress'[x].cut = in_progress[x].cut
    BY <1>2, <2>1 DEF Entry
  <2>3. Timed(reset_times, i, in_progress'[x], x)
    BY <2>1, <2>2 DEF Timed
  <2>4. in_progress'[x] # None /\ in_progress'[x].cut => Ahead(reset_times, i, x)
    BY <2>2 DEF TimersInv
  <2> QED
    BY <1>1, <1>2, <2>3, <2>4, NoTimer
<1> QED
  BY <1>2, <1>3 DEF TimersInv

LEMMA TickTimers ==
  ASSUME TimersInv, TypeInv', Tick
  PROVE  TimersInv'
<1>1. /\ i \in Nat /\ reset_times \in Seq(Timer) /\ in_progress \in [NAME -> Entry \cup {None}]
      /\ Len(reset_times) \in Nat /\ index \in NAME \cup {None}
  BY TimersTyped
<1>2. /\ UNCHANGED <<i, index, Passed, spoilt>> /\ pc = "idle"
  BY DEF Tick, locals, Passed
<1>3. index = None /\ i = 0 /\ Passed = 0
  <2>1. index # None => pc = "loop"
    BY DEF TimersInv, TypeInv
  <2>2. i = 0
    BY <1>2 DEF TimersInv, TypeInv
  <2> QED
    BY <1>2, <2>1, <2>2 DEF Passed
<1>4. /\ reset_times' = [n \in DOMAIN reset_times |-> [reset_times[n] EXCEPT !.t = Later(@)]]
      /\ in_progress' = [k \in NAME |-> IF in_progress[k] = None THEN None
                          ELSE [in_progress[k] EXCEPT !.until = Later(@)]]
  BY DEF Tick
<1>5. reset_times' \in Seq(Timer)
  <2>1. TypeOK'
    BY DEF TypeInv
  <2> QED
    BY <2>1 DEF TypeOK
<1>6. DOMAIN reset_times' = DOMAIN reset_times
  BY <1>4
<1>7. Len(reset_times') = Len(reset_times)
  BY <1>1, <1>5, <1>6
<1>8. ASSUME NEW n \in 0 + 1 .. Len(reset_times)
      PROVE  /\ reset_times[n] \in Timer
             /\ reset_times'[n] = [t |-> Later(reset_times[n].t), key |-> reset_times[n].key]
  <2>1. n \in DOMAIN reset_times
    BY <1>1
  <2>2. reset_times[n] \in Timer
    BY <1>1, <2>1
  <2>3. reset_times'[n] = [reset_times[n] EXCEPT !.t = Later(@)]
    BY <1>4, <2>1
  <2> QED
    BY <2>2, <2>3 DEF Timer
<1>9. ASSUME NEW x \in NAME
      PROVE  /\ in_progress'[x] = None <=> in_progress[x] = None
             /\ in_progress[x] # None =>
                  /\ in_progress'[x].there = in_progress[x].there
                  /\ in_progress'[x].cut = in_progress[x].cut
                  /\ in_progress'[x].until = Later(in_progress[x].until)
  <2>1. in_progress[x] \in Entry \cup {None}
    BY <1>1
  <2>2. CASE in_progress[x] = None
    BY <1>4, <2>2
  <2>3. CASE in_progress[x] # None
    <3>1. in_progress'[x] = [in_progress[x] EXCEPT !.until = Later(@)]
      BY <1>4, <2>3
    <3>2. Later(in_progress[x].until) \in Int
      BY <2>1, <2>3 DEF Later, Entry
    <3>3. in_progress'[x] \in Entry
      BY <2>1, <2>3, <3>1, <3>2 DEF Entry
    <3> QED
      BY <2>1, <2>3, <3>1, <3>3 DEF Entry
  <2> QED
    BY <2>2, <2>3
<1>10. ASSUME NEW x \in NAME
       PROVE  /\ Timed(reset_times', 0, in_progress'[x], x)
              /\ x \notin spoilt => Owned(reset_times', 0, in_progress'[x], x)
  <2>1. /\ Timed(reset_times, 0, in_progress[x], x)
        /\ x \notin spoilt => Owned(reset_times, 0, in_progress[x], x)
    BY <1>3 DEF TimersInv
  <2>2. ASSUME in_progress[x] # None, ~in_progress[x].cut
        PROVE  \E n \in 0 + 1 .. Len(reset_times') :
                 reset_times'[n] = [t |-> in_progress'[x].until, key |-> x]
    <3>1. PICK n \in 0 + 1 .. Len(reset_times) :
            reset_times[n] = [t |-> in_progress[x].until, key |-> x]
      BY <2>1, <2>2 DEF Timed
    <3>2. reset_times[n].t = in_progress[x].until /\ reset_times[n].key = x
      BY <3>1
    <3>3. reset_times'[n] = [t |-> Later(in_progress[x].until), key |-> x]
      BY <1>8, <3>2
    <3>4. in_progress'[x].until = Later(in_progress[x].until)
      BY <1>9, <2>2
    <3>5. n \in 0 + 1 .. Len(reset_times')
      BY <1>7
    <3>6. reset_times'[n] = [t |-> in_progress'[x].until, key |-> x]
      BY <3>3, <3>4
    <3> QED
      BY <3>5, <3>6
  <2>3. Timed(reset_times', 0, in_progress'[x], x)
    BY <1>9, <2>2 DEF Timed
  <2>4. ASSUME x \notin spoilt PROVE Owned(reset_times', 0, in_progress'[x], x)
    <3>1. ASSUME NEW n \in 0 + 1 .. Len(reset_times)
          PROVE  /\ reset_times'[n].key = reset_times[n].key
                 /\ reset_times'[n].t = Later(reset_times[n].t)
      <4>1. reset_times'[n] = [t |-> Later(reset_times[n].t), key |-> reset_times[n].key]
        BY <1>8
      <4> QED
        BY <4>1
    <3> QED
      BY <1>7, <1>9, <2>1, <2>4, <3>1 DEF Owned
  <2> QED
    BY <2>3, <2>4
<1>11. /\ Passed' = 0 /\ Passed' <= Len(reset_times')
       /\ \A n \in 1 .. Passed' : reset_times'[n].t <= 0
  BY <1>1, <1>2, <1>3, <1>7
<1>12. \A x \in NAME : Ahead(reset_times', 0, x)
  BY DEF Ahead
<1> QED
  BY <1>2, <1>3, <1>10, <1>11, <1>12 DEF TimersInv

LEMMA InitTimersInv == Init => TimersInv
<1> SUFFICES ASSUME Init PROVE TimersInv
  OBVIOUS
<1>1. TypeInv
  BY InitTypeInv
<1>2. /\ reset_times = <<>> /\ i = 0 /\ index = None /\ Passed = 0 /\ Len(reset_times) = 0
      /\ \A k \in NAME : in_progress[k] = None
  BY DEF Init, Passed
<1>3. ASSUME NEW k \in NAME
      PROVE  Timed(reset_times, i, in_progress[k], k) /\ Owned(reset_times, i, in_progress[k], k)
  BY <1>2 DEF Timed, Owned
<1> QED
  BY <1>1, <1>2, <1>3 DEF TimersInv

LEMMA NextTimersInv == TimersInv /\ [Next]_vars => TimersInv'
<1> SUFFICES ASSUME TimersInv, [Next]_vars PROVE TimersInv'
  OBVIOUS
<1>1. TypeInv'
  BY NextTypeInv DEF TimersInv
<1>2. CASE UNCHANGED vars
  <2>1. UNCHANGED <<reset_times, i, index, in_progress, spoilt, Passed>>
    BY <1>2 DEF vars, locals, Passed
  <2> QED
    BY <1>1, <2>1 DEF TimersInv
<1> QED
  BY <1>1, <1>2, ObjectsTimers, StepTimers, RestartTimers, TickTimers DEF Next

LEMMA AlwaysTimersInv == Spec => []TimersInv
BY InitTimersInv, NextTimersInv, PTL DEF Spec

\* Every entry has its timer among those that do_update() is not through with:
\* what others set and remove from the code that it runs, never makes it cut off
\* the timer of an entry that is still there (139), not even when set methods
\* fail.  Only a SetTmpProp() for the same property that is cut off takes the
\* timer of an entry and leaves the entry (271-308).
THEOREM EntriesTimed == Spec => []EntryTimed
<1>1. TimersInv => EntryTimed
  BY DEF TimersInv, Timed, EntryTimed
<1> QED
  BY <1>1, AlwaysTimersInv, PTL

\* The step of do_update() that ends a temporary value
LEMMA EndIsDue ==
  ASSUME TimersInv, [Next]_vars, NEW k \in NAME, i' > i, Running(k), ~Running(k)', k \notin spoilt
  PROVE  in_progress[k].until <= 0
<1>1. /\ i \in Nat /\ index \in NAME \cup {None} /\ in_progress \in [NAME -> Entry \cup {None}]
      /\ Len(reset_times) \in Nat
  BY TimersTyped
<1>2. ~(i' = i) /\ ~(i' = 0)
  BY <1>1
<1>3. UpdateEnd \/ UpdateReturn
  <2>1. ASSUME NEW x \in NAME, NEW tm, NEW sp, SetTmpProp(x, tm, sp) PROVE i' = i
    BY <2>1 DEF SetTmpProp, locals
  <2>2. ASSUME NEW x \in NAME, NEW v, SetProp(x, v) PROVE i' = i
    BY <2>2 DEF SetProp, locals
  <2>3. ASSUME NEW x \in NAME, NEW sp,
               \/ RemoveTmpProp(x) \/ Destruct(x) \/ Load(x) \/ EndFails(x)
               \/ SetTmpPropCut(x, sp)
        PROVE  i' = i
    BY <2>3 DEF RemoveTmpProp, Destruct, Load, EndFails, SetTmpPropCut, locals
  <2>4. Restart \/ Tick \/ UpdateSetProp \/ UNCHANGED vars => i' = i
    BY DEF Restart, Tick, UpdateSetProp, vars, locals
  <2>5. DoUpdate \/ UpdateDone \/ UpdateError \/ Fails => i' = 0
    BY DEF DoUpdate, UpdateDone, UpdateError, Fails, UpdateSetPropFails, UpdateReturnFails, Aborts
  <2> QED
    BY <1>2, <2>1, <2>2, <2>3, <2>4, <2>5 DEF Next, Objects, Step
<1>4. \A x \in NAME : in_progress'[x] = in_progress[x] => (Running(x)' <=> Running(x))
  BY DEF Running
<1>5. /\ i + 1 \in i + 1 .. Len(reset_times) /\ reset_times[i + 1].key = k
      /\ reset_times[i + 1].t <= 0
  <2>1. CASE UpdateEnd
    <3>1. /\ i < Len(reset_times) /\ reset_times[i + 1].t <= 0
          /\ in_progress' = [in_progress EXCEPT ![reset_times[i + 1].key] = None]
      BY <2>1 DEF UpdateEnd, Due, AtTimer
    <3>2. reset_times[i + 1].key = k
      BY <1>1, <1>4, <3>1
    <3> QED
      BY <1>1, <3>1, <3>2
  <2>2. CASE UpdateReturn
    <3>1. index # None /\ in_progress' = [in_progress EXCEPT ![index] = None]
      BY <2>2 DEF UpdateReturn
    <3>2. index = k
      BY <1>1, <1>4, <3>1
    <3>3. Passed = i + 1 /\ i + 1 \in 1 .. Passed
      BY <1>1, <3>1 DEF Passed
    <3> QED
      BY <1>1, <3>1, <3>2, <3>3 DEF TimersInv
  <2> QED
    BY <1>3, <2>1, <2>2
<1> QED
  BY <1>5 DEF TimersInv, Owned

\* do_update() never ends a temporary value before its time, except by a timer
\* that an entry before it has left behind (109-136, 246).
THEOREM EndsOnlyDue == Spec => EndsNotBefore
<1>1. TimersInv /\ [Next]_vars =>
        [\A k \in NAME : i' > i /\ Running(k) /\ ~Running(k)' /\ k \notin spoilt
           => in_progress[k].until <= 0]_vars
  BY EndIsDue
<1> QED
  BY <1>1, AlwaysTimersInv, PTL DEF Spec, EndsNotBefore

-----------------------------------------------------------------------------
\* No entry has left a timer behind: no object is destructed while its entry has
\* one, the master is not reloaded, and do_update() runs into no error (109-136,
\* 246).
NoneLeft == spoilt = {}

\* Left timers are the only way for a value to end early: without them it is kept
\* for as long as SetTmpProp() was asked to (231-333), whatever set methods do.
THEOREM EndsInTimeUnlessLeft == Spec /\ []NoneLeft => EndsInTime
<1>1. TimersInv /\ NoneLeft /\ [Next]_vars =>
        [\A k \in NAME : i' > i /\ Running(k) /\ ~Running(k)'
           => in_progress[k].until <= 0]_vars
  BY EndIsDue DEF NoneLeft
<1> QED
  BY <1>1, AlwaysTimersInv, PTL DEF Spec, EndsInTime
=============================================================================
