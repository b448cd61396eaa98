------------------------ MODULE HookProvider_proofs ------------------------
(***************************************************************************)
(* Theorems about HookProvider, and their proofs.                          *)
(***************************************************************************)
EXTENDS HookProvider, Induction, SequenceTheorems

-----------------------------------------------------------------------------
(***************************************************************************)
(* Arrays from which elements were taken, and sorted arrays.               *)
(***************************************************************************)
\* The number of a position among those of S.
Rank(S, i) == Cardinality({j \in S : j <= i})

\* An array has a domain from 1 to its length, and its elements are entries.
LEMMA ArrayFacts ==
  ASSUME NEW v \in Arrays
  PROVE  /\ Len(v) \in Nat /\ DOMAIN v = 1 .. Len(v)
         /\ \A i \in DOMAIN v : v[i] \in Ids \cup {0}
BY DEF Arrays

\* Whatever has a domain from 1 and elements that are entries is an array.
LEMMA IsArray ==
  ASSUME NEW n \in Nat, NEW v, v = [i \in 1 .. n |-> v[i]],
         \A i \in 1 .. n : v[i] \in Ids \cup {0}
  PROVE  v \in Arrays /\ Len(v) = n
<1>1. v \in [1 .. n -> Ids \cup {0}]
  OBVIOUS
<1> QED
  BY <1>1 DEF Arrays

\* Ranks go from 1 to the number of positions, in the order of the positions.
LEMMA Ranks ==
  ASSUME NEW N \in Nat, NEW S \in SUBSET (1 .. N)
  PROVE  /\ IsFiniteSet(S) /\ Cardinality(S) \in 0 .. N
         /\ \A i \in S : Rank(S, i) \in 1 .. Cardinality(S)
         /\ \A i, k \in S : i < k => Rank(S, i) < Rank(S, k)
<1>1. IsFiniteSet(1 .. N) /\ Cardinality(1 .. N) = N
  BY FS_Interval
<1>2. IsFiniteSet(S) /\ Cardinality(S) <= N /\ Cardinality(S) \in Nat
  BY <1>1, FS_Subset, FS_CardinalityType
<1>3. ASSUME NEW i \in S PROVE Rank(S, i) \in 1 .. Cardinality(S)
  <2> DEFINE B == {j \in S : j <= i}
  <2>1. B \in SUBSET S /\ i \in B
    OBVIOUS
  <2>2. IsFiniteSet(B) /\ Cardinality(B) <= Cardinality(S) /\ Cardinality(B) \in Nat
    BY <1>2, <2>1, FS_Subset, FS_CardinalityType
  <2>3. Cardinality(B) # 0
    BY <2>1, <2>2, FS_EmptySet
  <2> QED
    BY <1>2, <2>2, <2>3 DEF Rank
<1>4. ASSUME NEW i \in S, NEW k \in S, i < k PROVE Rank(S, i) < Rank(S, k)
  <2> DEFINE B == {j \in S : j <= i}  C == {j \in S : j <= k}
  <2>1. B \in SUBSET C /\ B # C /\ C \in SUBSET S
    <3>1. i \in Nat /\ k \in Nat /\ S \subseteq Nat
      OBVIOUS
    <3>2. k \in C /\ k \notin B
      BY <3>1, <1>4
    <3>3. \A j \in S : j <= i => j <= k
      BY <3>1, <1>4
    <3>4. B \subseteq C /\ C \subseteq S
      BY <3>3
    <3> QED
      BY <3>2, <3>4
  <2>2. IsFiniteSet(C)
    BY <1>2, <2>1, FS_Subset
  <2>3. Cardinality(B) <= Cardinality(C) /\ (Cardinality(B) = Cardinality(C) => C = B)
        /\ Cardinality(B) \in Nat /\ Cardinality(C) \in Nat
    BY <2>1, <2>2, FS_Subset, FS_CardinalityType
  <2> HIDE DEF B, C
  <2>4. Cardinality(B) < Cardinality(C)
    BY <2>1, <2>3
  <2> QED
    BY <2>4 DEF B, C, Rank
<1> QED
  BY <1>2, <1>3, <1>4

\* Nth() finds the positions of a set, each by its rank.
LEMMA NthFacts ==
  ASSUME NEW N \in Nat, NEW S \in SUBSET (1 .. N)
  PROVE  /\ \A n \in 1 .. Cardinality(S) : Nth(S, n) \in S /\ Rank(S, Nth(S, n)) = n
         /\ \A i \in S : Nth(S, Rank(S, i)) = i
<1> DEFINE c == Cardinality(S)
           r == [i \in S |-> Rank(S, i)]
<1>1. c \in Nat /\ IsFiniteSet(S) /\ r \in [S -> 1 .. c]
  BY Ranks
<1>2. \A i, k \in S : r[i] = r[k] => i = k
  <2> SUFFICES ASSUME NEW i \in S, NEW k \in S, i # k PROVE r[i] # r[k]
    OBVIOUS
  <2>1. i < k \/ k < i
    OBVIOUS
  <2>2. Rank(S, i) \in Nat /\ Rank(S, k) \in Nat
    <3>1. Rank(S, i) \in 1 .. c /\ Rank(S, k) \in 1 .. c
      BY Ranks
    <3> QED
      BY <1>1, <3>1
  <2>3. Rank(S, i) # Rank(S, k)
    <3>1. Rank(S, i) < Rank(S, k) \/ Rank(S, k) < Rank(S, i)
      BY <2>1, Ranks, Zenon
    <3> QED
      BY <2>2, <3>1
  <2> QED
    BY <2>3
<1>3. r \in Surjection(S, 1 .. c)
  <2>1. r \in Injection(S, 1 .. c)
    BY <1>1, <1>2 DEF Injection, IsInjective
  <2>2. IsFiniteSet(1 .. c) /\ Cardinality(1 .. c) = c
    BY <1>1, FS_Interval
  <2> QED
    BY <2>1, <2>2, FS_Injection
<1>4. ASSUME NEW n \in 1 .. c PROVE Nth(S, n) \in S /\ Rank(S, Nth(S, n)) = n
  <2>1. \E i \in S : Rank(S, i) = n
    BY <1>3, <1>4 DEF Surjection
  <2> QED
    BY <2>1 DEF Nth, Rank
<1>5. ASSUME NEW i \in S PROVE Nth(S, Rank(S, i)) = i
  <2>1. Rank(S, i) \in 1 .. c
    BY Ranks
  <2> QED
    BY <2>1, <1>4, <1>2
<1> QED
  BY <1>4, <1>5

\* Picked() keeps the order, and exactly the elements at the positions of S.
LEMMA PickedFacts ==
  ASSUME NEW v \in Arrays, NEW S \in SUBSET DOMAIN v
  PROVE  /\ Picked(v, S) \in Arrays
         /\ Len(Picked(v, S)) <= Len(v)
         /\ \A n \in DOMAIN Picked(v, S) : Nth(S, n) \in S /\ Picked(v, S)[n] = v[Nth(S, n)]
         /\ \A m, n \in DOMAIN Picked(v, S) : m < n => Nth(S, m) < Nth(S, n)
         /\ \A i \in S : \E n \in DOMAIN Picked(v, S) : Picked(v, S)[n] = v[i]
<1> DEFINE c == Cardinality(S)
           p == Picked(v, S)
<1>1. Len(v) \in Nat /\ DOMAIN v = 1 .. Len(v)
      /\ \A i \in DOMAIN v : v[i] \in Ids \cup {0}
  BY ArrayFacts
<1>2. c \in 0 .. Len(v)
  BY <1>1, Ranks
<1>3. \A n \in 1 .. c : Nth(S, n) \in S /\ Rank(S, Nth(S, n)) = n
  BY <1>1, NthFacts
<1>4. p = [n \in 1 .. c |-> v[Nth(S, n)]]
  BY DEF Picked
<1>5. \A n \in 1 .. c : p[n] = v[Nth(S, n)]
  BY <1>4
<1>6. p \in Arrays /\ Len(p) = c /\ DOMAIN p = 1 .. c
  <2>1. \A n \in 1 .. c : p[n] \in Ids \cup {0}
    BY <1>1, <1>3, <1>5
  <2>2. c \in Nat /\ p = [n \in 1 .. c |-> p[n]]
    BY <1>2, <1>4
  <2> HIDE DEF p, c
  <2>3. p \in Arrays /\ Len(p) = c
    BY <2>1, <2>2, IsArray
  <2> QED
    BY <2>3, ArrayFacts
<1>7. ASSUME NEW m \in 1 .. c, NEW n \in 1 .. c, m < n PROVE Nth(S, m) < Nth(S, n)
  <2>1. Nth(S, m) \in S /\ Nth(S, n) \in S /\ Nth(S, m) \in Nat /\ Nth(S, n) \in Nat
    BY <1>1, <1>3
  <2>2. Rank(S, Nth(S, m)) = m /\ Rank(S, Nth(S, n)) = n
    BY <1>3
  <2>3. ASSUME Nth(S, n) < Nth(S, m) PROVE FALSE
    <3>1. Rank(S, Nth(S, n)) < Rank(S, Nth(S, m))
      BY <1>1, <2>1, <2>3, Ranks
    <3> QED
      BY <2>2, <3>1, <1>7
  <2>4. Nth(S, n) # Nth(S, m)
    BY <2>2, <1>7
  <2> QED
    BY <2>1, <2>3, <2>4
<1>8. ASSUME NEW i \in S PROVE \E n \in 1 .. c : p[n] = v[i]
  <2>1. Rank(S, i) \in 1 .. c /\ Nth(S, Rank(S, i)) = i
    BY <1>1, Ranks, NthFacts
  <2> QED
    BY <2>1, <1>5
<1>9. p \in Arrays /\ Len(p) <= Len(v)
  BY <1>1, <1>2, <1>6
<1>10. \A n \in DOMAIN p : Nth(S, n) \in S /\ p[n] = v[Nth(S, n)]
  BY <1>3, <1>5, <1>6
<1>11. \A m, n \in DOMAIN p : m < n => Nth(S, m) < Nth(S, n)
  BY <1>6, <1>7
<1>12. \A i \in S : \E n \in DOMAIN p : p[n] = v[i]
  BY <1>6, <1>8
<1> QED
  BY <1>9, <1>10, <1>11, <1>12

\* Nothing is taken out when all positions are kept.
LEMMA PickedAll ==
  ASSUME NEW v \in Arrays
  PROVE  Picked(v, DOMAIN v) = v
<1> DEFINE N == Len(v)
<1>1. N \in Nat /\ DOMAIN v = 1 .. N /\ v = [i \in 1 .. N |-> v[i]]
  <2>1. v \in [1 .. Len(v) -> Ids \cup {0}] /\ Len(v) \in Nat
    BY DEF Arrays
  <2> QED
    BY <2>1
<1>2. Cardinality(1 .. N) = N
  BY <1>1, FS_Interval
<1>3. ASSUME NEW n \in 1 .. N PROVE Nth(1 .. N, n) = n
  <2>1. {j \in 1 .. N : j <= n} = 1 .. n
    BY <1>1
  <2>2. n \in Nat /\ Cardinality(1 .. n) = n
    BY <1>1, FS_Interval
  <2>3. Rank(1 .. N, n) = n
    BY <2>1, <2>2 DEF Rank
  <2> QED
    <3>1. 1 .. N \in SUBSET (1 .. N)
      OBVIOUS
    <3>2. Nth(1 .. N, Rank(1 .. N, n)) = n
      BY ONLY <1>1, <3>1, n \in 1 .. N, NthFacts
    <3> QED
      BY <2>3, <3>2
<1> HIDE DEF N
<1>4. Picked(v, 1 .. N) = [n \in 1 .. N |-> v[n]]
  BY <1>2, <1>3 DEF Picked
<1> QED
  BY <1>1, <1>4
-----------------------------------------------------------------------------
(***************************************************************************)
(* Frames.                                                                 *)
(***************************************************************************)
\* Two frames that differ in their arrays only.
Same(f, g) ==
  /\ g.fn = f.fn /\ g.type = f.type
  /\ f.fn \in {"flow", "register", "allow"} => g.pos = f.pos
  /\ f.fn = "flow" => g.due = f.due /\ g.called = f.called
  /\ f.fn = "register" => g.new = f.new
  /\ f.fn = "allow" => g.cancel = f.cancel

\* What all frames have, and what they have by their function.
LEMMA FrameFacts ==
  ASSUME NEW f \in Frame
  PROVE  /\ f.fn \in {"flow", "register", "allow", "superseded"}
         /\ f.type \in Type /\ f.vec \in Arrays /\ f.live \in BOOLEAN
         /\ f.fn \in {"flow", "register", "allow"} => f.pos \in Nat
         /\ f.fn = "flow" => f.due \in SUBSET Ids /\ f.called \in Seq(Ids)
         /\ f.fn = "register" => f.new \in Entry /\ f.type = Surveyor
         /\ f.fn = "allow" => f.cancel \in BOOLEAN /\ f.type = Surveyor
BY DEF Frame, FlowFrame, AskFrame, AllowFrame, OverFrame, Type, Surveyor

\* A frame with another array, or that gave up its claim to the hook's.
LEMMA FrameWithVec ==
  ASSUME NEW f \in Frame, NEW v \in Arrays,
         NEW g, g = [f EXCEPT !.vec = v, !.live = FALSE]
  PROVE  g \in Frame /\ Same(f, g) /\ g.vec = v /\ g.live = FALSE
<1>1. CASE f \in FlowFrame
  BY <1>1 DEF Frame, FlowFrame, Same
<1>2. CASE f \in AskFrame
  BY <1>2 DEF Frame, AskFrame, Same
<1>3. CASE f \in AllowFrame
  BY <1>3 DEF Frame, AllowFrame, Same
<1>4. CASE f \in OverFrame
  BY <1>4 DEF Frame, OverFrame, Same
<1> QED
  BY <1>1, <1>2, <1>3, <1>4 DEF Frame

LEMMA FrameNotLive ==
  ASSUME NEW f \in Frame, NEW g, g = [f EXCEPT !.live = FALSE]
  PROVE  g \in Frame /\ Same(f, g) /\ g.vec = f.vec /\ g.live = FALSE
<1>1. CASE f \in FlowFrame
  BY <1>1 DEF Frame, FlowFrame, Same
<1>2. CASE f \in AskFrame
  BY <1>2 DEF Frame, AskFrame, Same
<1>3. CASE f \in AllowFrame
  BY <1>3 DEF Frame, AllowFrame, Same
<1>4. CASE f \in OverFrame
  BY <1>4 DEF Frame, OverFrame, Same
<1> QED
  BY <1>1, <1>2, <1>3, <1>4 DEF Frame

\* A frame whose array got another element.
LEMMA FrameWithElement ==
  ASSUME NEW f \in Frame, NEW n \in DOMAIN f.vec, NEW e \in Ids,
         NEW g, g = [f EXCEPT !.vec[n] = e]
  PROVE  g \in Frame /\ Same(f, g) /\ g.live = f.live /\ g.vec = [f.vec EXCEPT ![n] = e]
<1> DEFINE v == [f.vec EXCEPT ![n] = e]
<1>1. v \in Arrays
  BY FrameFacts DEF Arrays
<1>2. g = [f EXCEPT !.vec = v]
  <2>1. CASE f \in FlowFrame
    BY <2>1 DEF Frame, FlowFrame
  <2>2. CASE f \in AskFrame
    BY <2>2 DEF Frame, AskFrame
  <2>3. CASE f \in AllowFrame
    BY <2>3 DEF Frame, AllowFrame
  <2>4. CASE f \in OverFrame
    BY <2>4 DEF Frame, OverFrame
  <2> QED
    BY <2>1, <2>2, <2>3, <2>4 DEF Frame
<1> HIDE DEF v
<1>3. CASE f \in FlowFrame
  BY <1>1, <1>2, <1>3 DEF Frame, FlowFrame, Same
<1>4. CASE f \in AskFrame
  BY <1>1, <1>2, <1>4 DEF Frame, AskFrame, Same
<1>5. CASE f \in AllowFrame
  BY <1>1, <1>2, <1>5 DEF Frame, AllowFrame, Same
<1>6. CASE f \in OverFrame
  BY <1>1, <1>2, <1>6 DEF Frame, OverFrame, Same
<1> QED
  BY <1>3, <1>4, <1>5, <1>6 DEF Frame

\* A frame of a loop that went on.
LEMMA FrameWithPos ==
  ASSUME NEW f \in Frame, NEW n \in Nat, f.fn \in {"register", "allow"},
         NEW g, g = [f EXCEPT !.pos = n]
  PROVE  /\ g \in Frame /\ g.fn = f.fn /\ g.type = f.type
         /\ g.vec = f.vec /\ g.live = f.live
         /\ f.fn = "register" => g.new = f.new
         /\ f.fn = "allow" => g.cancel = f.cancel
<1>1. CASE f \in AskFrame
  BY <1>1 DEF Frame, AskFrame
<1>2. CASE f \in AllowFrame
  BY <1>2 DEF Frame, AllowFrame
<1>3. f \in AskFrame \/ f \in AllowFrame
  BY DEF Frame, FlowFrame, AskFrame, AllowFrame, OverFrame
<1> QED
  BY <1>1, <1>2, <1>3

\* A flow that went on to element e.
AtElement(f, t, v, n, b, e) ==
  [f EXCEPT !.type = t, !.vec = v, !.pos = n, !.live = b, !.called = Append(@, e)]

LEMMA FrameAdvanced ==
  ASSUME NEW f \in Frame, f.fn = "flow", NEW t \in Type, NEW v \in Arrays,
         NEW n \in Nat, NEW b \in BOOLEAN, NEW e \in Ids,
         NEW g, g = AtElement(f, t, v, n, b, e)
  PROVE  /\ g \in Frame /\ g.fn = "flow" /\ g.type = t /\ g.vec = v
         /\ g.pos = n /\ g.live = b /\ g.due = f.due /\ g.called = Append(f.called, e)
<1>1. f \in FlowFrame
  BY DEF Frame, FlowFrame, AskFrame, AllowFrame, OverFrame
<1>2. Append(f.called, e) \in Seq(Ids)
  BY <1>1 DEF FlowFrame
<1>3. g = [f EXCEPT !.type = t, !.vec = v, !.pos = n, !.live = b, !.called = Append(@, e)]
  BY DEF AtElement
<1> QED
  BY <1>1, <1>2, <1>3 DEF Frame, FlowFrame
-----------------------------------------------------------------------------
(***************************************************************************)
(* The invariant that needs no assumption on what callbacks do.            *)
(***************************************************************************)
\* The entries of an array are of its type, and none is in it twice.
Holds(es, v, t) ==
  \A i \in DOMAIN v : v[i] # None => v[i] \in DOMAIN es /\ es[v[i]].type = t
Distinct(v) == \A i, j \in DOMAIN v : v[i] = v[j] /\ v[i] # None => i = j

\* A flow has called nobody of a later type, nobody twice, and nobody who is
\* still ahead in its array.
Calling(es, f) ==
  /\ f.due \subseteq DOMAIN es
  /\ \A k \in DOMAIN f.called : f.called[k] \in DOMAIN es /\ es[f.called[k]].type <= f.type
  /\ \A j, k \in DOMAIN f.called : f.called[j] = f.called[k] => j = k
  /\ \A j \in DOMAIN f.vec, k \in DOMAIN f.called : j > f.pos => f.vec[j] # f.called[k]

FrameOK(es, ls, f) ==
  /\ f \in Frame
  /\ Holds(es, f.vec, f.type) /\ Distinct(f.vec)
  /\ f.live => f.vec = ls[f.type]
  /\ f.fn = "superseded" => Len(f.vec) = MaxCount[f.type]
  /\ f.fn = "flow" => Calling(es, f)

\* Leave is asked for by the flow below.
Asks(st) == \A i \in DOMAIN st : st[i].fn = "allow" => i > 1 /\ st[i - 1].fn = "flow"

ListOK(es, v, t) ==
  /\ v \in Arrays /\ Len(v) <= MaxCount[t] /\ OnlyFullZero(v, t)
  /\ Holds(es, v, t) /\ Distinct(v)

\* The invariant that needs no assumption on the callbacks.
EntriesOK(es) == es \in Seq(Entry) /\ Len(es) <= MaxEntries
ListsOK(es, ls) == ls \in [Type -> Arrays] /\ \A t \in Type : ListOK(es, ls[t], t)
StackOK(es, ls, st) ==
  /\ st \in Seq(Frame) /\ Len(st) <= MaxDepth
  /\ \A i \in DOMAIN st : FrameOK(es, ls, st[i])
  /\ Asks(st)
Base(es, ls, st) == EntriesOK(es) /\ ListsOK(es, ls) /\ StackOK(es, ls, st)

-----------------------------------------------------------------------------
(***************************************************************************)
(* The stack of callbacks.                                                 *)
(***************************************************************************)
\* All but the innermost frame.
LEMMA StackBelow ==
  ASSUME NEW es, NEW ls, NEW st, StackOK(es, ls, st), st # <<>>
  PROVE  LET b == SubSeq(st, 1, Len(st) - 1)
         IN /\ StackOK(es, ls, b) /\ Len(b) = Len(st) - 1 /\ Len(st) \in Nat \ {0}
            /\ DOMAIN b = 1 .. Len(st) - 1 /\ DOMAIN st = 1 .. Len(st)
            /\ \A i \in DOMAIN b : b[i] = st[i]
<1> DEFINE b == SubSeq(st, 1, Len(st) - 1)
<1>1. st \in Seq(Frame) /\ Len(st) \in Nat \ {0} /\ DOMAIN st = 1 .. Len(st)
  BY EmptySeq DEF StackOK
<1>2. b \in Seq(Frame) /\ Len(b) = Len(st) - 1 /\ DOMAIN b = 1 .. Len(st) - 1
      /\ \A i \in DOMAIN b : b[i] = st[i]
  BY <1>1, SubSeqProperties
<1> HIDE DEF b
<1>3. \A i \in DOMAIN b : i \in DOMAIN st /\ (i > 1 => i - 1 \in DOMAIN b)
  BY <1>1, <1>2
<1>4. Asks(b)
  BY <1>1, <1>2, <1>3 DEF StackOK, Asks
<1>5. \A i \in DOMAIN b : FrameOK(es, ls, b[i])
  BY <1>2, <1>3 DEF StackOK
<1>6. Len(b) <= MaxDepth
  BY <1>1, <1>2, ConstantsAssumption DEF StackOK
<1>7. StackOK(es, ls, b)
  BY <1>2, <1>4, <1>5, <1>6 DEF StackOK
<1> QED
  BY <1>1, <1>2, <1>7 DEF b

\* One more frame.
LEMMA StackPush ==
  ASSUME NEW es, NEW ls, NEW st, StackOK(es, ls, st), Len(st) < MaxDepth,
         NEW f, FrameOK(es, ls, f),
         f.fn = "allow" => st # <<>> /\ st[Len(st)].fn = "flow"
  PROVE  StackOK(es, ls, Append(st, f))
<1> DEFINE p == Append(st, f)
<1>1. st \in Seq(Frame) /\ Len(st) \in Nat /\ DOMAIN st = 1 .. Len(st) /\ f \in Frame
  BY DEF StackOK, FrameOK
<1>2. p \in Seq(Frame) /\ Len(p) = Len(st) + 1 /\ DOMAIN p = 1 .. Len(st) + 1
      /\ p[Len(st) + 1] = f /\ \A i \in 1 .. Len(st) : p[i] = st[i]
  BY <1>1, AppendProperties
<1> HIDE DEF p
<1>3. \A i \in DOMAIN p : FrameOK(es, ls, p[i])
  BY <1>1, <1>2 DEF StackOK
<1>4. Asks(p)
  <2> SUFFICES ASSUME NEW i \in DOMAIN p, p[i].fn = "allow"
               PROVE  i > 1 /\ p[i - 1].fn = "flow"
    BY DEF Asks
  <2>1. CASE i = Len(st) + 1
    <3>1. Len(st) > 0 /\ st[Len(st)].fn = "flow"
      BY <1>1, <1>2, <2>1, EmptySeq
    <3> QED
      BY <1>1, <1>2, <2>1, <3>1
  <2>2. CASE i \in 1 .. Len(st)
    <3>1. i > 1 /\ st[i - 1].fn = "flow"
      BY <1>1, <1>2, <2>2 DEF StackOK, Asks
    <3>2. i - 1 \in 1 .. Len(st)
      BY <1>1, <2>2, <3>1
    <3> QED
      BY <1>2, <3>1, <3>2
  <2> QED
    BY <1>1, <1>2, <2>1, <2>2
<1>5. Len(p) <= MaxDepth
  BY <1>1, <1>2, ConstantsAssumption
<1>6. StackOK(es, ls, p)
  BY <1>2, <1>3, <1>4, <1>5 DEF StackOK
<1> QED
  BY <1>6 DEF p

\* Frames that were changed in place.
LEMMA StackMapped ==
  ASSUME NEW es, NEW ls, NEW st, StackOK(es, ls, st),
         NEW fs, NEW ks, NEW p, p = [i \in DOMAIN st |-> p[i]],
         \A i \in DOMAIN st : FrameOK(fs, ks, p[i]) /\ p[i].fn = st[i].fn
  PROVE  StackOK(fs, ks, p) /\ DOMAIN p = DOMAIN st /\ Len(p) = Len(st)
<1>1. st \in Seq(Frame) /\ Len(st) \in Nat /\ DOMAIN st = 1 .. Len(st) /\ Len(st) <= MaxDepth
  BY DEF StackOK
<1>2. \A i \in 1 .. Len(st) : p[i] \in Frame
  BY <1>1 DEF FrameOK
<1>3. p \in [1 .. Len(st) -> Frame]
  BY <1>1, <1>2
<1>4. p \in Seq(Frame) /\ Len(p) = Len(st) /\ DOMAIN p = DOMAIN st
  BY <1>1, <1>3
<1>5. Asks(p)
  <2> SUFFICES ASSUME NEW i \in DOMAIN p, p[i].fn = "allow"
               PROVE  i > 1 /\ p[i - 1].fn = "flow"
    BY DEF Asks
  <2>1. i > 1 /\ st[i - 1].fn = "flow"
    BY <1>4 DEF StackOK, Asks
  <2> QED
    BY <1>1, <1>4, <2>1
<1> QED
  BY <1>1, <1>4, <1>5 DEF StackOK

\* Nothing is going on after a runtime error.
LEMMA StackEmpty ==
  ASSUME NEW es, NEW ls
  PROVE  StackOK(es, ls, <<>>)
<1>1. <<>> \in Seq(Frame) /\ Len(<<>>) = 0 /\ DOMAIN <<>> = {}
  OBVIOUS
<1> QED
  BY <1>1, ConstantsAssumption DEF StackOK, Asks
-----------------------------------------------------------------------------
(***************************************************************************)
(* CleanHookMapping().                                                     *)
(***************************************************************************)
\* What is kept of an array.
LEMMA KeptFacts ==
  ASSUME NEW v \in Arrays
  PROVE  /\ Kept(v) \in Arrays /\ Len(Kept(v)) <= Len(v)
         /\ Elements(Kept(v)) = {e \in Elements(v) : Valid(e)}
         /\ None \notin Elements(Kept(v))
         /\ \A m, n \in DOMAIN Kept(v) : m < n =>
              \E i, j \in DOMAIN v : i < j /\ Kept(v)[m] = v[i] /\ Kept(v)[n] = v[j]
         /\ (\A e \in Elements(v) : Valid(e)) => Kept(v) = v
<1> DEFINE S == {i \in DOMAIN v : Valid(v[i])}
           k == Kept(v)
<1>1. k = Picked(v, S) /\ S \in SUBSET DOMAIN v
  BY DEF Kept
<1>2. \A i \in S : Valid(v[i])
  OBVIOUS
<1>3. \A i \in DOMAIN v : Valid(v[i]) => i \in S
  OBVIOUS
<1> HIDE DEF S, k
<1>4. k \in Arrays /\ Len(k) <= Len(v)
  BY <1>1, PickedFacts
<1>5. \A n \in DOMAIN k : Nth(S, n) \in S /\ k[n] = v[Nth(S, n)]
  BY <1>1, PickedFacts
<1>6. \A m, n \in DOMAIN k : m < n => Nth(S, m) < Nth(S, n)
  BY <1>1, PickedFacts
<1>7. \A i \in S : \E n \in DOMAIN k : k[n] = v[i]
  BY <1>1, PickedFacts
<1>8. Elements(k) = {e \in Elements(v) : Valid(e)}
  <2>1. ASSUME NEW n \in DOMAIN k PROVE k[n] \in Elements(v) /\ Valid(k[n])
    <3>1. Nth(S, n) \in S /\ k[n] = v[Nth(S, n)]
      BY <1>5
    <3> QED
      BY <1>1, <1>2, <3>1 DEF Elements
  <2>2. ASSUME NEW i \in DOMAIN v, Valid(v[i]) PROVE v[i] \in Elements(k)
    <3>1. i \in S
      BY <1>3, <2>2
    <3>2. PICK n \in DOMAIN k : k[n] = v[i]
      BY <1>7, <3>1
    <3> QED
      BY <3>2 DEF Elements
  <2>3. Elements(k) \subseteq {e \in Elements(v) : Valid(e)}
    BY <2>1 DEF Elements
  <2>4. {e \in Elements(v) : Valid(e)} \subseteq Elements(k)
    BY <2>2 DEF Elements
  <2> QED
    BY <2>3, <2>4
<1>9. None \notin Elements(k)
  BY <1>8 DEF Valid
<1>10. \A m, n \in DOMAIN k : m < n =>
         \E i, j \in DOMAIN v : i < j /\ k[m] = v[i] /\ k[n] = v[j]
  <2> SUFFICES ASSUME NEW m \in DOMAIN k, NEW n \in DOMAIN k, m < n
               PROVE  \E i, j \in DOMAIN v : i < j /\ k[m] = v[i] /\ k[n] = v[j]
    OBVIOUS
  <2>1. Nth(S, m) \in DOMAIN v /\ Nth(S, n) \in DOMAIN v
    BY <1>1, <1>5
  <2> QED
    BY <1>5, <1>6, <2>1
<1>11. ASSUME \A e \in Elements(v) : Valid(e) PROVE k = v
  <2>1. S = DOMAIN v
    BY <1>11 DEF S, Elements
  <2> QED
    BY <1>1, <2>1, PickedAll
<1> QED
  BY <1>4, <1>8, <1>9, <1>10, <1>11 DEF k

\* What is kept of an array of the hook is one.
LEMMA KeptListOK ==
  ASSUME NEW es, NEW t \in Type, NEW v, ListOK(es, v, t)
  PROVE  ListOK(es, Kept(v), t) /\ None \notin Elements(Kept(v))
<1> DEFINE k == Kept(v)
<1>1. v \in Arrays /\ Len(v) <= MaxCount[t] /\ Holds(es, v, t) /\ Distinct(v)
  BY DEF ListOK
<1>2. k \in Arrays /\ Len(k) <= Len(v) /\ None \notin Elements(k)
      /\ Elements(k) \subseteq Elements(v)
  BY <1>1, KeptFacts
<1>3. \A m, n \in DOMAIN k : m < n =>
        \E i, j \in DOMAIN v : i < j /\ k[m] = v[i] /\ k[n] = v[j]
  BY <1>1, KeptFacts
<1>4. DOMAIN k \subseteq Nat /\ DOMAIN v \subseteq Nat
  BY <1>1, <1>2, ArrayFacts
<1>5. Len(k) <= MaxCount[t]
  <2>1. MaxCount[t] \in Nat
    BY ConstantsAssumption
  <2>2. Len(k) \in Nat /\ Len(v) \in Nat
    BY <1>1, <1>2, ArrayFacts
  <2> HIDE DEF k
  <2>3. Len(k) <= Len(v) /\ Len(v) <= MaxCount[t]
    BY <1>1, <1>2
  <2> QED
    BY ONLY <2>1, <2>2, <2>3
<1> HIDE DEF k
<1>6. Holds(es, k, t)
  <2> SUFFICES ASSUME NEW m \in DOMAIN k, k[m] # None
               PROVE  k[m] \in DOMAIN es /\ es[k[m]].type = t
    BY DEF Holds
  <2>1. k[m] \in Elements(v)
    BY <1>2 DEF Elements
  <2>2. PICK i \in DOMAIN v : v[i] = k[m]
    BY <2>1 DEF Elements
  <2> QED
    BY <1>1, <2>2 DEF Holds
<1>7. Distinct(k)
  <2>1. ASSUME NEW m \in DOMAIN k, NEW n \in DOMAIN k, k[m] = k[n], k[m] # None, m < n
        PROVE  FALSE
    <3>1. PICK i \in DOMAIN v, j \in DOMAIN v : i < j /\ k[m] = v[i] /\ k[n] = v[j]
      BY <1>3, <2>1
    <3>2. i = j
      BY <1>1, <2>1, <3>1 DEF Distinct
    <3>3. i \in Nat
      BY <1>4
    <3> QED
      BY <3>1, <3>2, <3>3
  <2>2. ASSUME NEW m \in DOMAIN k, NEW n \in DOMAIN k, k[m] = k[n], k[m] # None
        PROVE  m = n
    <3>1. m < n \/ n < m \/ m = n
      BY <1>4
    <3> QED
      BY <2>1, <2>2, <3>1
  <2> QED
    BY <2>2 DEF Distinct
<1>8. ListOK(es, k, t) /\ None \notin Elements(k)
  BY <1>2, <1>5, <1>6, <1>7 DEF ListOK, OnlyFullZero
<1> QED
  BY <1>8 DEF k

\* An array with zeros in the places of stale entries.
LEMMA ZeroedFacts ==
  ASSUME NEW es, NEW t, NEW v \in Arrays, Holds(es, v, t), Distinct(v)
  PROVE  /\ Zeroed(v) \in Arrays /\ Len(Zeroed(v)) = Len(v) /\ DOMAIN Zeroed(v) = DOMAIN v
         /\ \A i \in DOMAIN v : Zeroed(v)[i] = IF Valid(v[i]) THEN v[i] ELSE None
         /\ Holds(es, Zeroed(v), t) /\ Distinct(Zeroed(v))
<1> DEFINE z == Zeroed(v)
<1>1. Len(v) \in Nat /\ DOMAIN v = 1 .. Len(v) /\ \A i \in DOMAIN v : v[i] \in Ids \cup {0}
  BY ArrayFacts
<1>2. \A i \in DOMAIN v : z[i] = IF Valid(v[i]) THEN v[i] ELSE None
  BY DEF Zeroed
<1>3. z = [i \in 1 .. Len(v) |-> z[i]]
  BY <1>1 DEF Zeroed
<1> HIDE DEF z
<1>4. z \in Arrays /\ Len(z) = Len(v)
  BY <1>1, <1>2, <1>3, IsArray DEF None
<1>5. DOMAIN z = DOMAIN v
  BY <1>1, <1>3
<1>6. Holds(es, z, t)
  BY <1>2, <1>5 DEF Holds
<1>7. Distinct(z)
  BY <1>2, <1>5 DEF Distinct
<1> QED
  BY <1>2, <1>4, <1>5, <1>6, <1>7 DEF z

\* A frame once the arrays of the hook were cleaned.
LEMMA CleanedFrame ==
  ASSUME NEW st, StackOK(entries, lists, st), ListsOK(entries, lists), NEW i \in DOMAIN st
  PROVE  LET f == st[i]
             g == Cleaned(st)[i]
         IN /\ FrameOK(entries, CleanedLists, g) /\ Same(f, g)
            /\ \/ g = f /\ (f.live => \A e \in Elements(f.vec) : Valid(e))
               \/ /\ f.live /\ ~g.live /\ g.vec = Zeroed(f.vec)
                  /\ \E e \in Elements(f.vec) : ~Valid(e)
<1> DEFINE f == st[i]
           g == Cleaned(st)[i]
           stale == \E e \in Elements(f.vec) : ~Valid(e)
<1>1. FrameOK(entries, lists, f)
  BY DEF StackOK
<1>2. f \in Frame /\ f.vec \in Arrays /\ f.type \in Type /\ f.live \in BOOLEAN
      /\ Holds(entries, f.vec, f.type) /\ Distinct(f.vec)
  BY <1>1, FrameFacts DEF FrameOK
<1>3. g = IF f.live /\ stale THEN [f EXCEPT !.vec = Zeroed(f.vec), !.live = FALSE] ELSE f
  BY DEF Cleaned
<1> HIDE DEF g, f
<1>4. CASE f.live /\ stale
  <2>1. g = [f EXCEPT !.vec = Zeroed(f.vec), !.live = FALSE]
    BY <1>3, <1>4
  <2>2. Zeroed(f.vec) \in Arrays /\ Len(Zeroed(f.vec)) = Len(f.vec)
        /\ DOMAIN Zeroed(f.vec) = DOMAIN f.vec
        /\ Holds(entries, Zeroed(f.vec), f.type) /\ Distinct(Zeroed(f.vec))
    BY <1>2, ZeroedFacts
  <2>3. \A j \in DOMAIN f.vec : Zeroed(f.vec)[j] \in {f.vec[j], None}
    BY <1>2, ZeroedFacts
  <2>4. g \in Frame /\ Same(f, g) /\ g.vec = Zeroed(f.vec) /\ g.live = FALSE
    BY <1>2, <2>1, <2>2, FrameWithVec
  <2>5. g.fn = "flow" => Calling(entries, g)
    <3> SUFFICES ASSUME f.fn = "flow" PROVE Calling(entries, g)
      BY <2>4 DEF Same
    <3>1. Calling(entries, f)
      BY <1>1 DEF FrameOK
    <3>2. f.called \in Seq(Ids)
      BY <1>2, FrameFacts
    <3>3. \A k \in DOMAIN f.called : f.called[k] # None
      <4>1. \A k \in DOMAIN f.called : f.called[k] \in Ids
        BY <3>2
      <4>2. None \notin Ids
        BY DEF Ids, None
      <4> QED
        BY <4>1, <4>2
    <3>4. g.due = f.due /\ g.called = f.called /\ g.type = f.type /\ g.pos = f.pos
          /\ DOMAIN g.vec = DOMAIN f.vec
      BY <2>2, <2>4 DEF Same
    <3>5. \A j \in DOMAIN f.vec : g.vec[j] = f.vec[j] \/ g.vec[j] = None
      BY <2>3, <2>4
    <3> QED
      BY <3>1, <3>3, <3>4, <3>5 DEF Calling
  <2>6. g.fn = "superseded" => Len(g.vec) = MaxCount[g.type]
    BY <1>1, <2>2, <2>4 DEF Same, FrameOK
  <2>7. Holds(entries, g.vec, g.type) /\ Distinct(g.vec)
    BY <2>2, <2>4 DEF Same
  <2>8. FrameOK(entries, CleanedLists, g)
    BY <2>4, <2>5, <2>6, <2>7 DEF FrameOK
  <2> QED
    BY <1>4, <2>4, <2>8 DEF f, g
<1>5. CASE ~(f.live /\ stale)
  <2>1. g = f
    BY <1>3, <1>5
  <2>2. f.live => f.vec = CleanedLists[f.type]
    <3> SUFFICES ASSUME f.live PROVE f.vec = CleanedLists[f.type]
      OBVIOUS
    <3>1. f.vec = lists[f.type]
      BY <1>1 DEF FrameOK
    <3>2. Kept(f.vec) = f.vec
      BY <1>2, <1>5, KeptFacts
    <3> QED
      BY <1>2, <3>1, <3>2 DEF CleanedLists
  <2>3. FrameOK(entries, CleanedLists, f)
    BY <1>1, <2>2 DEF FrameOK
  <2>4. Same(f, f)
    BY DEF Same
  <2> QED
    BY <1>5, <2>1, <2>3, <2>4 DEF f, g
<1> QED
  BY <1>4, <1>5

\* Cleaning keeps the invariant, and leaves no zeros in the hook's arrays.
LEMMA CleanBase ==
  ASSUME NEW st, Base(entries, lists, st)
  PROVE  /\ Base(entries, CleanedLists, Cleaned(st))
         /\ \A t \in Type : None \notin Elements(CleanedLists[t])
         /\ DOMAIN Cleaned(st) = DOMAIN st /\ Len(Cleaned(st)) = Len(st)
<1>1. EntriesOK(entries) /\ ListsOK(entries, lists) /\ StackOK(entries, lists, st)
  BY DEF Base
<1>2. ASSUME NEW t \in Type
      PROVE  /\ CleanedLists[t] = Kept(lists[t])
             /\ ListOK(entries, CleanedLists[t], t) /\ None \notin Elements(CleanedLists[t])
  <2>1. CleanedLists[t] = Kept(lists[t])
    BY DEF CleanedLists
  <2>2. ListOK(entries, lists[t], t)
    BY <1>1 DEF ListsOK
  <2> QED
    BY <2>1, <2>2, KeptListOK
<1>3. CleanedLists \in [Type -> Arrays]
  <2>1. \A t \in Type : Kept(lists[t]) \in Arrays
    BY <1>2 DEF ListOK
  <2> QED
    BY <2>1 DEF CleanedLists
<1>4. ListsOK(entries, CleanedLists)
  BY <1>2, <1>3 DEF ListsOK
<1>5. Cleaned(st) = [i \in DOMAIN st |-> Cleaned(st)[i]]
  BY DEF Cleaned
<1>6. \A i \in DOMAIN st : FrameOK(entries, CleanedLists, Cleaned(st)[i])
                           /\ Cleaned(st)[i].fn = st[i].fn
  BY <1>1, CleanedFrame DEF Same
<1>7. StackOK(entries, CleanedLists, Cleaned(st)) /\ DOMAIN Cleaned(st) = DOMAIN st
      /\ Len(Cleaned(st)) = Len(st)
  BY <1>1, <1>5, <1>6, StackMapped
<1> QED
  BY <1>1, <1>2, <1>4, <1>7 DEF Base
-----------------------------------------------------------------------------
(***************************************************************************)
(* Registering.                                                            *)
(***************************************************************************)
\* sort_array() keeps the elements, each as often as it was there.
LEMMA SortingFacts ==
  ASSUME NEW es, NEW v \in Arrays, NEW w \in Sortings(es, v)
  PROVE  /\ w \in Arrays /\ Len(w) = Len(v) /\ DOMAIN w = DOMAIN v
         /\ Elements(w) = Elements(v) /\ Sorted(es, w)
         /\ Distinct(v) => Distinct(w)
<1> DEFINE InV(e) == {i \in DOMAIN v : v[i] = e}
           InW(e) == {i \in DOMAIN v : w[i] = e}
<1>1. Len(v) \in Nat /\ DOMAIN v = 1 .. Len(v) /\ \A i \in DOMAIN v : v[i] \in Ids \cup {0}
  BY ArrayFacts
<1>2. /\ w \in [DOMAIN v -> Elements(v)] /\ Sorted(es, w)
      /\ \A e \in Elements(v) : Cardinality(InV(e)) = Cardinality(InW(e))
  BY DEF Sortings
<1>3. DOMAIN w = DOMAIN v /\ \A i \in DOMAIN v : w[i] \in Elements(v)
  BY <1>2
<1>4. Elements(v) \subseteq Ids \cup {0}
  BY <1>1 DEF Elements
<1>5. w \in Arrays /\ Len(w) = Len(v)
  <2>1. w = [i \in 1 .. Len(v) |-> w[i]]
    BY <1>1, <1>2
  <2>2. \A i \in 1 .. Len(v) : w[i] \in Ids \cup {0}
    BY <1>1, <1>3, <1>4
  <2> QED
    BY <1>1, <2>1, <2>2, IsArray
<1>6. \A e : IsFiniteSet(InV(e)) /\ IsFiniteSet(InW(e))
  <2> TAKE e
  <2>1. IsFiniteSet(DOMAIN v)
    BY <1>1, FS_Interval
  <2>2. InV(e) \in SUBSET DOMAIN v /\ InW(e) \in SUBSET DOMAIN v
    OBVIOUS
  <2> HIDE DEF InV, InW
  <2> QED
    BY <2>1, <2>2, FS_Subset
<1>7. \A e \in Elements(v) : e \in Elements(w)
  <2> TAKE e \in Elements(v)
  <2>1. InV(e) # {}
    BY DEF Elements
  <2> HIDE DEF InV, InW
  <2>2. Cardinality(InV(e)) # 0
    BY <1>6, <2>1, FS_EmptySet
  <2>3. Cardinality(InW(e)) # 0
    BY <1>2, <2>2
  <2>4. InW(e) # {}
    BY <1>6, <2>3, FS_EmptySet
  <2> QED
    BY <1>3, <2>4 DEF InW, Elements
<1>8. Elements(w) = Elements(v)
  BY <1>3, <1>7 DEF Elements
<1>9. ASSUME Distinct(v) PROVE Distinct(w)
  <2> SUFFICES ASSUME NEW i \in DOMAIN v, NEW j \in DOMAIN v, w[i] = w[j], w[i] # None
               PROVE  i = j
    BY <1>3 DEF Distinct
  <2> DEFINE e == w[i]
  <2>1. PICK x \in DOMAIN v : v[x] = e
    BY <1>3 DEF Elements
  <2>2. InV(e) = {x}
    BY <1>9, <2>1 DEF Distinct
  <2>3. i \in InW(e) /\ j \in InW(e) /\ e \in Elements(v)
    BY <1>3
  <2> HIDE DEF InV, InW, e
  <2>4. Cardinality(InV(e)) = 1
    BY <1>6, <2>2, FS_Singleton
  <2>5. Cardinality(InW(e)) = 1
    BY <1>2, <2>3, <2>4
  <2>6. \E y : InW(e) = {y}
    BY <1>6, <2>5, FS_Singleton
  <2> QED
    BY <2>3, <2>6
<1> QED
  BY <1>2, <1>3, <1>5, <1>8, <1>9

\* The entries fs are es and more.
Extends(es, fs) ==
  DOMAIN es \subseteq DOMAIN fs /\ \A i \in DOMAIN es : fs[i] = es[i]

\* HRegisterToHook() made a struct for the entry.
LEMMA Grows ==
  ASSUME NEW es, EntriesOK(es), Len(es) < MaxEntries, NEW new \in Entry
  PROVE  LET fs == Append(es, new)
             e == Len(es) + 1
         IN /\ EntriesOK(fs) /\ Extends(es, fs)
            /\ e \in Ids /\ e \in DOMAIN fs /\ e \notin DOMAIN es /\ fs[e] = new
            /\ DOMAIN fs = DOMAIN es \cup {e}
<1> DEFINE fs == Append(es, new)
           e == Len(es) + 1
<1>1. es \in Seq(Entry) /\ Len(es) \in Nat /\ DOMAIN es = 1 .. Len(es)
  BY DEF EntriesOK
<1>2. fs \in Seq(Entry) /\ Len(fs) = e /\ DOMAIN fs = 1 .. e /\ fs[e] = new
      /\ \A i \in 1 .. Len(es) : fs[i] = es[i]
  BY <1>1, AppendProperties
<1>3. MaxEntries \in Nat
  BY ConstantsAssumption
<1> HIDE DEF fs
<1>4. EntriesOK(fs) /\ Extends(es, fs)
  BY <1>1, <1>2, <1>3 DEF EntriesOK, Extends
<1>5. e \in Ids /\ e \in DOMAIN fs /\ e \notin DOMAIN es /\ DOMAIN fs = DOMAIN es \cup {e}
  BY <1>1, <1>2, <1>3 DEF Ids
<1> QED
  BY <1>2, <1>4, <1>5 DEF fs

\* More entries do not matter to arrays and frames.
LEMMA HoldsMore ==
  ASSUME NEW es, NEW fs, Extends(es, fs), NEW v, NEW t, Holds(es, v, t)
  PROVE  Holds(fs, v, t)
BY DEF Holds, Extends

LEMMA CallingMore ==
  ASSUME NEW es, NEW fs, Extends(es, fs), NEW f, Calling(es, f)
  PROVE  Calling(fs, f)
BY DEF Calling, Extends

LEMMA FrameMore ==
  ASSUME NEW es, NEW fs, Extends(es, fs), NEW ls, NEW ks, NEW f, FrameOK(es, ls, f),
         f.live => ks[f.type] = ls[f.type]
  PROVE  FrameOK(fs, ks, f)
BY HoldsMore, CallingMore DEF FrameOK

LEMMA ListMore ==
  ASSUME NEW es, NEW fs, Extends(es, fs), NEW v, NEW t, ListOK(es, v, t)
  PROVE  ListOK(fs, v, t)
BY HoldsMore DEF ListOK

\* All frames fit the entries and arrays; all arrays but one are the same.
FramesOK(es, ls, st) == \A i \in DOMAIN st : FrameOK(es, ls, st[i])
SameBut(ls, ks, t) == \A u \in Type \ {t} : ks[u] = ls[u]

\* The frames when the hook gets another array for a type.
LEMMA DetachedFrame ==
  ASSUME NEW es, NEW fs, Extends(es, fs), NEW ls, NEW ks, NEW t \in Type,
         SameBut(ls, ks, t),
         NEW st, FramesOK(es, ls, st), NEW i \in DOMAIN st
  PROVE  LET f == st[i]
             g == Detached(st, t)[i]
         IN /\ FrameOK(fs, ks, g) /\ Same(f, g) /\ g.vec = f.vec
            /\ g.live = (f.live /\ f.type # t)
<1> DEFINE f == st[i]
           g == Detached(st, t)[i]
<1>1. FrameOK(es, ls, f) /\ \A u \in Type \ {t} : ks[u] = ls[u]
  BY DEF FramesOK, SameBut
<1>2. f \in Frame /\ f.type \in Type /\ f.live \in BOOLEAN
  BY <1>1, FrameFacts DEF FrameOK
<1>3. g = IF f.type = t THEN [f EXCEPT !.live = FALSE] ELSE f
  BY DEF Detached
<1> HIDE DEF f, g
<1>4. CASE f.type = t
  <2>1. g \in Frame /\ Same(f, g) /\ g.vec = f.vec /\ g.live = FALSE
    BY <1>2, <1>3, <1>4, FrameNotLive
  <2>2. Calling(es, f) => Calling(es, g) \/ f.fn # "flow"
    BY <2>1 DEF Calling, Same
  <2>3. FrameOK(es, ks, g)
    BY <1>1, <2>1, <2>2 DEF FrameOK, Same
  <2>4. FrameOK(fs, ks, g)
    BY <2>1, <2>3, FrameMore
  <2> QED
    BY <1>4, <2>1, <2>4 DEF f, g
<1>5. CASE f.type # t
  <2>1. g = f
    BY <1>3, <1>5
  <2>2. FrameOK(fs, ks, f)
    BY <1>1, <1>2, <1>5, FrameMore
  <2>3. Same(f, f) /\ f.live = (f.live /\ f.type # t)
    BY <1>2, <1>5 DEF Same
  <2> QED
    BY <2>1, <2>2, <2>3 DEF f, g
<1> QED
  BY <1>4, <1>5

\* The last element of an array is replaced by a new entry.
LEMMA LastReplaced ==
  ASSUME NEW es, NEW fs, Extends(es, fs), NEW t, NEW v \in Arrays, v # <<>>,
         Holds(es, v, t), Distinct(v),
         NEW e \in Ids, e \notin DOMAIN es, e \in DOMAIN fs, fs[e].type = t,
         NEW w, w = [v EXCEPT ![Len(v)] = e]
  PROVE  /\ Len(v) \in DOMAIN v
         /\ w \in Arrays /\ Len(w) = Len(v) /\ DOMAIN w = DOMAIN v
         /\ w[Len(v)] = e /\ \A j \in DOMAIN v : j # Len(v) => w[j] = v[j]
         /\ Holds(fs, w, t) /\ Distinct(w)
<1>1. Len(v) \in Nat /\ DOMAIN v = 1 .. Len(v) /\ \A i \in DOMAIN v : v[i] \in Ids \cup {0}
  BY ArrayFacts
<1>2. Len(v) \in DOMAIN v
  BY <1>1, EmptySeq DEF Arrays
<1>3. w \in Arrays /\ Len(w) = Len(v) /\ DOMAIN w = DOMAIN v
  BY <1>1 DEF Arrays
<1>4. w[Len(v)] = e /\ \A j \in DOMAIN v : j # Len(v) => w[j] = v[j]
  BY <1>2
<1>5. Holds(fs, w, t)
  BY <1>3, <1>4 DEF Holds, Extends
<1>6. Distinct(w)
  <2>1. \A j \in DOMAIN v : j # Len(v) => w[j] # e
    BY <1>4 DEF Holds, Ids, None
  <2> QED
    BY <1>3, <1>4, <2>1 DEF Distinct
<1> QED
  BY <1>2, <1>3, <1>4, <1>5, <1>6

LEMMA WithLastFrame ==
  ASSUME NEW es, NEW fs, Extends(es, fs), NEW ls, NEW ks, NEW t \in Type,
         SameBut(ls, ks, t),
         ls[t] \in Arrays, ls[t] # <<>>,
         NEW e \in Ids, e \notin DOMAIN es, e \in DOMAIN fs, fs[e].type = t,
         ks[t] = [ls[t] EXCEPT ![Len(ls[t])] = e],
         NEW st, FramesOK(es, ls, st), NEW i \in DOMAIN st
  PROVE  LET f == st[i]
             g == WithLast(st, t, e)[i]
         IN /\ FrameOK(fs, ks, g) /\ Same(f, g) /\ g.live = f.live
            /\ g.vec = IF f.live /\ f.type = t THEN ks[t] ELSE f.vec
<1> DEFINE f == st[i]
           g == WithLast(st, t, e)[i]
<1>1. FrameOK(es, ls, f) /\ \A u \in Type \ {t} : ks[u] = ls[u]
  BY DEF FramesOK, SameBut
<1>2. f \in Frame /\ f.type \in Type /\ f.live \in BOOLEAN /\ f.vec \in Arrays
      /\ Holds(es, f.vec, f.type) /\ Distinct(f.vec) /\ (f.live => f.vec = ls[f.type])
  BY <1>1, FrameFacts DEF FrameOK
<1>3. g = IF f.live /\ f.type = t THEN [f EXCEPT !.vec[Len(f.vec)] = e] ELSE f
  BY DEF WithLast
<1> HIDE DEF f, g
<1>4. CASE f.live /\ f.type = t
  <2>1. f.vec = ls[t]
    BY <1>2, <1>4
  <2>2. /\ Len(f.vec) \in DOMAIN f.vec
        /\ ks[t] \in Arrays /\ Len(ks[t]) = Len(f.vec) /\ DOMAIN ks[t] = DOMAIN f.vec
        /\ ks[t][Len(f.vec)] = e
        /\ \A j \in DOMAIN f.vec : j # Len(f.vec) => ks[t][j] = f.vec[j]
        /\ Holds(fs, ks[t], t) /\ Distinct(ks[t])
    BY <1>2, <1>4, <2>1, LastReplaced
  <2>3. g = [f EXCEPT !.vec[Len(f.vec)] = e]
    BY <1>3, <1>4
  <2>4. g \in Frame /\ Same(f, g) /\ g.live = f.live
        /\ g.vec = [f.vec EXCEPT ![Len(f.vec)] = e]
    BY <1>2, <2>2, <2>3, FrameWithElement
  <2>5. g.vec = ks[t]
    BY <2>1, <2>4
  <2>6. g.fn = "flow" => Calling(fs, g)
    <3> SUFFICES ASSUME f.fn = "flow" PROVE Calling(fs, g)
      BY <2>4 DEF Same
    <3>1. Calling(es, f) /\ Calling(fs, f)
      BY <1>1, CallingMore DEF FrameOK
    <3>2. g.due = f.due /\ g.called = f.called /\ g.type = f.type /\ g.pos = f.pos
          /\ DOMAIN g.vec = DOMAIN f.vec
      BY <2>2, <2>4, <2>5 DEF Same
    <3>3. \A j \in DOMAIN f.vec : g.vec[j] = f.vec[j] \/ g.vec[j] = e
      BY <2>2, <2>5
    <3>4. \A k \in DOMAIN f.called : f.called[k] # e
      BY <3>1 DEF Calling
    <3> QED
      BY <3>1, <3>2, <3>3, <3>4 DEF Calling
  <2>7. g.fn = "superseded" => Len(g.vec) = MaxCount[g.type]
    BY <1>1, <2>2, <2>4, <2>5 DEF Same, FrameOK
  <2>8. FrameOK(fs, ks, g)
    BY <1>4, <2>2, <2>4, <2>5, <2>6, <2>7 DEF FrameOK, Same
  <2> QED
    BY <1>4, <2>4, <2>5, <2>8 DEF f, g
<1>5. CASE ~(f.live /\ f.type = t)
  <2>1. g = f
    BY <1>3, <1>5
  <2>2. f.live => ks[f.type] = ls[f.type]
    BY <1>1, <1>2, <1>5
  <2>3. FrameOK(fs, ks, f)
    BY <1>1, <2>2, FrameMore
  <2>4. Same(f, f)
    BY DEF Same
  <2> QED
    BY <1>5, <2>1, <2>3, <2>4 DEF f, g
<1> QED
  BY <1>4, <1>5

\* The four outcomes of HRegisterToHook() for the entry new: it is appended, it
\* replaces the last entry and that is told, it replaces an entry whose closure
\* is gone, or it is not registered.
NewId == Len(entries) + 1
Accepted(new) == IF new.who \in alive THEN {NewId} ELSE {}
LastOf(ls, t) == ls[t][Len(ls[t])]

Appended(new, ls, st) ==
  /\ HasRoom(ls[new.type], new.type)
  /\ entries' = Append(entries, new)
  /\ \E w \in Sortings(Append(entries, new), Append(ls[new.type], NewId)) :
       lists' = [ls EXCEPT ![new.type] = w]
  /\ stack' = Detached(st, new.type)
  /\ standing' = standing \cup Accepted(new) /\ broken' = broken

Overwritten(new, ls) ==
  /\ ~HasRoom(ls[new.type], new.type)
  /\ LastOf(ls, new.type) # None
  /\ GivesWay(LastOf(ls, new.type), new)
  /\ entries' = Append(entries, new)
  /\ lists' = [ls EXCEPT ![new.type] = [ls[new.type] EXCEPT ![Len(ls[new.type])] = NewId]]

Superseded(new, ls, st) ==
  /\ Overwritten(new, ls)
  /\ HasClosure(LastOf(ls, new.type))
  /\ Len(st) < MaxDepth
  /\ stack' = Append(WithLast(st, new.type, NewId),
                [fn |-> "superseded", type |-> new.type, vec |-> lists'[new.type],
                 live |-> TRUE, entry |-> NewId])
  /\ standing' = (standing \ {LastOf(ls, new.type)}) \cup Accepted(new)
  /\ broken' = broken

NobodyToTell(new, ls) ==
  /\ Overwritten(new, ls)
  /\ ~HasClosure(LastOf(ls, new.type))
  /\ stack' = <<>> /\ standing' = standing /\ broken' = broken \cup {NewId}

NotRegistered(ls, st) ==
  lists' = ls /\ stack' \in {st, <<>>} /\ UNCHANGED <<entries, standing, broken>>

LEMMA InsertCases ==
  ASSUME NEW new \in Entry, NEW ls, ls \in [Type -> Arrays], NEW st, Insert(new, ls, st)
  PROVE  \/ Appended(new, ls, st) \/ Superseded(new, ls, st)
         \/ NobodyToTell(new, ls) \/ NotRegistered(ls, st)
<1> DEFINE t == new.type
<1>1. t \in Type
  BY DEF Entry
<1>2. CASE HasRoom(ls[t], t)
  BY <1>2 DEF Insert, Appended, Accepted, NewId
<1>3. CASE ~HasRoom(ls[t], t) /\ LastOf(ls, t) = None
  BY <1>3 DEF Insert, NotRegistered, Abort, LastOf
<1>4. CASE ~HasRoom(ls[t], t) /\ LastOf(ls, t) # None /\ ~GivesWay(LastOf(ls, t), new)
  BY <1>4 DEF Insert, NotRegistered, LastOf
<1>5. CASE ~HasRoom(ls[t], t) /\ LastOf(ls, t) # None /\ GivesWay(LastOf(ls, t), new)
  <2>1. entries' = Append(entries, new)
        /\ lists' = [ls EXCEPT ![t][Len(ls[t])] = NewId]
    BY <1>5 DEF Insert, LastOf, NewId
  <2>2. lists' = [ls EXCEPT ![t] = [ls[t] EXCEPT ![Len(ls[t])] = NewId]]
    BY <1>1, <2>1
  <2>3. Overwritten(new, ls)
    BY <1>5, <2>1, <2>2 DEF Overwritten
  <2>4. CASE HasClosure(LastOf(ls, t))
    <3>1. /\ Len(st) < MaxDepth
          /\ stack' = Append(WithLast(st, t, NewId),
               [fn |-> "superseded", type |-> t, vec |-> lists'[t], live |-> TRUE,
                entry |-> NewId])
          /\ standing' = (standing \ {LastOf(ls, t)}) \cup Accepted(new)
          /\ broken' = broken
      BY <1>5, <2>4 DEF Insert, LastOf, Accepted, NewId
    <3> QED
      BY <2>3, <2>4, <3>1 DEF Superseded
  <2>5. CASE ~HasClosure(LastOf(ls, t))
    BY <1>5, <2>3, <2>5 DEF Insert, NobodyToTell, LastOf, Abort, NewId
  <2> QED
    BY <2>4, <2>5
<1> QED
  BY <1>2, <1>3, <1>4, <1>5

\* An array of the hook without the zero it may only have when it is full.
LEMMA RoomNoZero ==
  ASSUME NEW es, NEW t \in Type, NEW v, ListOK(es, v, t), HasRoom(v, t)
  PROVE  None \notin Elements(v)
<1>1. v \in Arrays /\ OnlyFullZero(v, t) /\ Len(v) \in Nat
  BY ArrayFacts DEF ListOK
<1>2. MaxCount[t] \in Nat
  BY ConstantsAssumption
<1>3. Len(v) < MaxCount[t]
  BY DEF HasRoom
<1>4. ASSUME None \in Elements(v) PROVE FALSE
  <2>1. Len(v) = 1 /\ MaxCount[t] = 1
    BY <1>1, <1>4 DEF OnlyFullZero
  <2> QED
    BY <1>3, <2>1
<1> QED
  BY <1>4

\* The arrays with the new entry appended and sorted.
LEMMA AppendedLists ==
  ASSUME NEW ls, NEW new \in Entry, ListsOK(entries, ls), EntriesOK(entries),
         Len(entries) < MaxEntries, HasRoom(ls[new.type], new.type),
         NEW w \in Sortings(Append(entries, new), Append(ls[new.type], NewId))
  PROVE  /\ ListOK(Append(entries, new), w, new.type)
         /\ Sorted(Append(entries, new), w)
         /\ Elements(w) = Elements(ls[new.type]) \cup {NewId}
         /\ None \notin Elements(w)
<1> DEFINE t == new.type
           v == ls[t]
           fs == Append(entries, new)
           a == Append(v, NewId)
<1>1. t \in Type /\ ListOK(entries, v, t)
  BY DEF Entry, ListsOK
<1>2. v \in Arrays /\ Len(v) \in Nat /\ DOMAIN v = 1 .. Len(v) /\ v \in Seq(Ids \cup {0})
      /\ Holds(entries, v, t) /\ Distinct(v)
  BY <1>1, ArrayFacts DEF ListOK, Arrays
<1>3. /\ Extends(entries, fs) /\ NewId \in Ids /\ NewId \in DOMAIN fs
      /\ NewId \notin DOMAIN entries /\ fs[NewId] = new
  BY Grows DEF NewId
<1>4. None \notin Elements(v)
  BY <1>1, RoomNoZero
<1>5. a \in Arrays /\ Len(a) = Len(v) + 1 /\ DOMAIN a = 1 .. Len(v) + 1
      /\ a[Len(v) + 1] = NewId /\ \A i \in 1 .. Len(v) : a[i] = v[i]
  BY <1>2, <1>3, AppendProperties DEF Arrays
<1> HIDE DEF a, fs, v
<1>6. Elements(a) = Elements(v) \cup {NewId}
  <2>1. \A i \in DOMAIN a : a[i] \in Elements(v) \cup {NewId}
    <3> TAKE i \in DOMAIN a
    <3>1. i \in DOMAIN v \/ i = Len(v) + 1
      BY <1>2, <1>5
    <3> QED
      BY <1>2, <1>5, <3>1 DEF Elements
  <2>2. \A i \in DOMAIN v : v[i] \in Elements(a)
    <3> TAKE i \in DOMAIN v
    <3>1. i \in DOMAIN a /\ a[i] = v[i]
      BY <1>2, <1>5
    <3> QED
      BY <3>1 DEF Elements
  <2>3. NewId \in Elements(a)
    <3>1. Len(v) + 1 \in DOMAIN a
      BY <1>2, <1>5
    <3> QED
      BY <1>5, <3>1 DEF Elements
  <2> QED
    BY <2>1, <2>2, <2>3 DEF Elements
<1>7. Distinct(a)
  <2> SUFFICES ASSUME NEW i \in DOMAIN a, NEW j \in DOMAIN a, a[i] = a[j], a[i] # None
               PROVE  i = j
    BY DEF Distinct
  <2>1. \A k \in 1 .. Len(v) : v[k] # NewId
    BY <1>2, <1>3 DEF Holds, Ids, None
  <2>2. CASE i \in 1 .. Len(v) /\ j \in 1 .. Len(v)
    BY <1>2, <1>5, <2>2 DEF Distinct
  <2>3. CASE i = Len(v) + 1 \/ j = Len(v) + 1
    <3>1. i \notin 1 .. Len(v) \/ j \notin 1 .. Len(v)
      BY <1>2, <2>3
    <3>2. a[i] = NewId
      BY <1>5, <2>3
    <3>3. a[j] = NewId
      BY <3>2
    <3>4. \A k \in 1 .. Len(v) : a[k] # NewId
      BY <1>5, <2>1
    <3>5. \A k \in 1 .. Len(v) + 1 : k \in 1 .. Len(v) \/ k = Len(v) + 1
      BY <1>2
    <3> QED
      BY <1>5, <3>2, <3>3, <3>4, <3>5
  <2> QED
    BY <1>2, <1>5, <2>2, <2>3
<1>8. /\ w \in Arrays /\ Len(w) = Len(a) /\ DOMAIN w = DOMAIN a /\ Elements(w) = Elements(a)
      /\ Sorted(fs, w) /\ Distinct(w)
  BY <1>5, <1>7, SortingFacts DEF a, fs, v
<1>9. Holds(fs, w, t)
  <2> SUFFICES ASSUME NEW i \in DOMAIN w, w[i] # None
               PROVE  w[i] \in DOMAIN fs /\ fs[w[i]].type = t
    BY DEF Holds
  <2>1. w[i] \in Elements(v) \/ w[i] = NewId
    BY <1>6, <1>8 DEF Elements
  <2>2. \A j \in DOMAIN v : v[j] # None => v[j] \in DOMAIN fs /\ fs[v[j]].type = t
    BY <1>2, <1>3 DEF Holds, Extends
  <2> QED
    BY <1>3, <2>1, <2>2 DEF Elements
<1>10. None \notin Elements(w)
  BY <1>3, <1>4, <1>6, <1>8 DEF Ids, None
<1>11. Len(w) <= MaxCount[t]
  <2>1. MaxCount[t] \in Nat
    BY <1>1, ConstantsAssumption
  <2>2. Len(v) < MaxCount[t]
    BY DEF HasRoom, v
  <2> QED
    BY <1>2, <1>5, <1>8, <2>1, <2>2
<1>12. ListOK(fs, w, t)
  BY <1>8, <1>9, <1>10, <1>11 DEF ListOK, OnlyFullZero
<1> QED
  BY <1>6, <1>8, <1>10, <1>12 DEF fs, v

\* The arrays with the last entry of one overwritten by the new one.
LEMMA OverwrittenLists ==
  ASSUME NEW ls, NEW new \in Entry, ListsOK(entries, ls), EntriesOK(entries),
         Len(entries) < MaxEntries, ~HasRoom(ls[new.type], new.type),
         LastOf(ls, new.type) # None,
         NEW w, w = [ls[new.type] EXCEPT ![Len(ls[new.type])] = NewId]
  PROVE  /\ ListOK(Append(entries, new), w, new.type)
         /\ ls[new.type] # <<>> /\ Len(w) = MaxCount[new.type]
         /\ Len(ls[new.type]) \in DOMAIN ls[new.type] /\ DOMAIN w = DOMAIN ls[new.type]
         /\ w[Len(w)] = NewId
         /\ \A j \in DOMAIN w : j # Len(w) => w[j] = ls[new.type][j]
         /\ None \notin Elements(ls[new.type]) /\ None \notin Elements(w)
<1> DEFINE t == new.type
           v == ls[t]
           fs == Append(entries, new)
<1>1. t \in Type /\ ListOK(entries, v, t)
  BY DEF Entry, ListsOK
<1>2. v \in Arrays /\ Len(v) \in Nat /\ DOMAIN v = 1 .. Len(v)
      /\ Holds(entries, v, t) /\ Distinct(v) /\ Len(v) <= MaxCount[t]
  BY <1>1, ArrayFacts DEF ListOK
<1>3. /\ Extends(entries, fs) /\ NewId \in Ids /\ NewId \in DOMAIN fs
      /\ NewId \notin DOMAIN entries /\ fs[NewId] = new
  BY Grows DEF NewId
<1>4. MaxCount[t] \in Nat \ {0}
  BY <1>1, ConstantsAssumption
<1>5. Len(v) = MaxCount[t]
  BY <1>2, <1>4 DEF HasRoom
<1>6. v # <<>>
  BY <1>4, <1>5
<1> HIDE DEF fs, v
<1>7. /\ Len(v) \in DOMAIN v
      /\ w \in Arrays /\ Len(w) = Len(v) /\ DOMAIN w = DOMAIN v
      /\ w[Len(v)] = NewId /\ \A j \in DOMAIN v : j # Len(v) => w[j] = v[j]
      /\ Holds(fs, w, t) /\ Distinct(w)
  <2>1. w = [v EXCEPT ![Len(v)] = NewId]
    BY DEF v
  <2> QED
    BY <1>2, <1>3, <1>6, <2>1, LastReplaced
<1>8. None \notin Elements(v)
  <2> SUFFICES ASSUME None \in Elements(v) PROVE FALSE
    OBVIOUS
  <2>1. Len(v) = 1
    BY <1>1 DEF ListOK, OnlyFullZero
  <2>2. v[1] # None
    BY <2>1 DEF LastOf, v
  <2> QED
    BY <1>2, <2>1, <2>2 DEF Elements
<1>9. None \notin Elements(w)
  <2>1. \A j \in DOMAIN w : w[j] # None
    BY <1>3, <1>7, <1>8 DEF Elements, Ids, None
  <2> QED
    BY <2>1 DEF Elements
<1>10. ListOK(fs, w, t)
  BY <1>5, <1>4, <1>7, <1>9 DEF ListOK, OnlyFullZero
<1> QED
  BY <1>5, <1>6, <1>7, <1>8, <1>9, <1>10 DEF fs, v

\* The invariant survives a registration.
LEMMA InsertBase ==
  ASSUME NEW ls, NEW st, NEW new \in Entry, Base(entries, ls, st),
         Len(entries) < MaxEntries, Insert(new, ls, st)
  PROVE  Base(entries', lists', stack')
<1> DEFINE t == new.type
           fs == Append(entries, new)
<1>1. t \in Type
  BY DEF Entry
<1>2. EntriesOK(entries) /\ ListsOK(entries, ls) /\ StackOK(entries, ls, st)
      /\ ls \in [Type -> Arrays]
  BY DEF Base, ListsOK
<1>3. /\ EntriesOK(fs) /\ Extends(entries, fs) /\ NewId \in Ids /\ NewId \in DOMAIN fs
      /\ NewId \notin DOMAIN entries /\ fs[NewId] = new
  BY <1>2, Grows DEF NewId
<1>4. ASSUME NEW w, ListOK(fs, w, t), lists' = [ls EXCEPT ![t] = w]
      PROVE  ListsOK(fs, lists') /\ lists'[t] = w /\ \A u \in Type \ {t} : lists'[u] = ls[u]
  <2>1. lists' \in [Type -> Arrays] /\ lists'[t] = w
    BY <1>1, <1>2, <1>4 DEF ListOK
  <2>2. \A u \in Type \ {t} : lists'[u] = ls[u] /\ ListOK(fs, lists'[u], u)
    BY <1>2, <1>3, <1>4, ListMore DEF ListsOK
  <2> QED
    BY <1>4, <2>1, <2>2 DEF ListsOK
<1>5. CASE Appended(new, ls, st)
  <2>1. PICK w \in Sortings(fs, Append(ls[t], NewId)) : lists' = [ls EXCEPT ![t] = w]
    BY <1>5 DEF Appended
  <2>2. HasRoom(ls[t], t) /\ entries' = fs /\ stack' = Detached(st, t)
    BY <1>5 DEF Appended
  <2>3. ListOK(fs, w, t)
    BY <1>2, <2>1, <2>2, AppendedLists
  <2>4. ListsOK(fs, lists') /\ \A u \in Type \ {t} : lists'[u] = ls[u]
    BY <1>4, <2>1, <2>3
  <2>5. \A i \in DOMAIN st : FrameOK(fs, lists', stack'[i]) /\ stack'[i].fn = st[i].fn
    <3> TAKE i \in DOMAIN st
    <3>1. FrameOK(fs, lists', Detached(st, t)[i]) /\ Same(st[i], Detached(st, t)[i])
      <4>1. FramesOK(entries, ls, st) /\ SameBut(ls, lists', t)
        BY <1>2, <2>4 DEF StackOK, FramesOK, SameBut
      <4> HIDE DEF t, fs
      <4> QED
        BY ONLY <1>1, <1>3, <4>1, i \in DOMAIN st, DetachedFrame
    <3> QED
      BY <2>2, <3>1 DEF Same
  <2>6. stack' = [i \in DOMAIN st |-> stack'[i]]
    BY <2>2 DEF Detached
  <2>7. StackOK(fs, lists', stack')
    BY <1>2, <2>5, <2>6, StackMapped
  <2> QED
    BY <1>3, <2>2, <2>4, <2>7 DEF Base
<1>6. ASSUME Overwritten(new, ls)
      PROVE  /\ entries' = fs /\ ListsOK(fs, lists')
             /\ ls[t] \in Arrays /\ ls[t] # <<>> /\ Len(lists'[t]) = MaxCount[t]
             /\ lists'[t] = [ls[t] EXCEPT ![Len(ls[t])] = NewId]
             /\ \A u \in Type \ {t} : lists'[u] = ls[u]
  <2> DEFINE w == [ls[t] EXCEPT ![Len(ls[t])] = NewId]
  <2>1. entries' = fs /\ lists' = [ls EXCEPT ![t] = w]
    BY <1>6 DEF Overwritten
  <2>2. ListOK(fs, w, t) /\ ls[t] # <<>> /\ Len(w) = MaxCount[t]
    <3>1. ~HasRoom(ls[new.type], new.type) /\ LastOf(ls, new.type) # None
      BY <1>6 DEF Overwritten
    <3> QED
      BY <1>2, <3>1, OverwrittenLists
  <2> HIDE DEF w
  <2>3. ListsOK(fs, lists') /\ lists'[t] = w /\ \A u \in Type \ {t} : lists'[u] = ls[u]
    BY <1>4, <2>1, <2>2
  <2> QED
    BY <1>1, <1>2, <2>1, <2>2, <2>3 DEF w
<1>7. CASE Superseded(new, ls, st)
  <2> DEFINE b == WithLast(st, t, NewId)
             f == [fn |-> "superseded", type |-> t, vec |-> lists'[t], live |-> TRUE,
                   entry |-> NewId]
  <2>1. Overwritten(new, ls) /\ Len(st) < MaxDepth /\ stack' = Append(b, f)
    BY <1>7 DEF Superseded
  <2>2. \A i \in DOMAIN st : FrameOK(fs, lists', b[i]) /\ b[i].fn = st[i].fn
    <3> TAKE i \in DOMAIN st
    <3>1. FrameOK(fs, lists', b[i]) /\ Same(st[i], b[i])
      <4>1. FramesOK(entries, ls, st) /\ SameBut(ls, lists', t)
        BY <1>2, <1>6, <2>1 DEF StackOK, FramesOK, SameBut
      <4>2. fs[NewId].type = t
        BY <1>3
      <4>3. /\ ls[t] \in Arrays /\ ls[t] # <<>>
            /\ lists'[t] = [ls[t] EXCEPT ![Len(ls[t])] = NewId]
        BY <1>6, <2>1
      <4> HIDE DEF t, fs
      <4> QED
        BY ONLY <1>1, <1>3, <4>1, <4>2, <4>3, i \in DOMAIN st, WithLastFrame DEF b
    <3> QED
      BY <3>1 DEF Same
  <2>3. b = [i \in DOMAIN st |-> b[i]]
    BY DEF WithLast
  <2> HIDE DEF b
  <2>4. StackOK(fs, lists', b) /\ Len(b) = Len(st)
    BY <1>2, <2>2, <2>3, StackMapped
  <2>5. FrameOK(fs, lists', f)
    <3>1. ListOK(fs, lists'[t], t) /\ Len(lists'[t]) = MaxCount[t]
      BY <1>1, <1>6, <2>1 DEF ListsOK
    <3>2. f \in Frame
      BY <1>1, <1>3, <3>1 DEF Frame, OverFrame, ListOK
    <3> QED
      BY <3>1, <3>2 DEF FrameOK, ListOK
  <2>6. StackOK(fs, lists', stack')
    BY <2>1, <2>4, <2>5, StackPush
  <2> QED
    BY <1>3, <1>6, <2>1, <2>6 DEF Base
<1>8. CASE NobodyToTell(new, ls)
  BY <1>3, <1>6, <1>8, StackEmpty DEF NobodyToTell, Base
<1>9. CASE NotRegistered(ls, st)
  BY <1>2, <1>9, StackEmpty DEF NotRegistered, Base
<1> QED
  BY <1>2, <1>5, <1>7, <1>8, <1>9, InsertCases
-----------------------------------------------------------------------------
(***************************************************************************)
(* HookFlow().                                                             *)
(***************************************************************************)
\* The frame of the flow f while element i of the array of type t is called.
Called(f, t, i) ==
  AtElement(f, t, ArrayOf(f, t), i, IF t = f.type THEN f.live ELSE TRUE, ArrayOf(f, t)[i])

\* The flow f calls element i of the array of type t next.
WentOn(f, st, t, i) ==
  /\ t \in Waiting(f) /\ \A u \in Waiting(f) : t <= u
  /\ i \in Stops(ArrayOf(f, t), From(f, t))
  /\ \A j \in Stops(ArrayOf(f, t), From(f, t)) : i <= j
  /\ ArrayOf(f, t)[i] # None
  /\ stack' = Append(st, Called(f, t, i))

\* The next element of an array.
LEMMA StopFacts ==
  ASSUME NEW v \in Arrays, NEW pos \in Nat, Stops(v, pos) # {}
  PROVE  /\ Stop(v, pos) \in Stops(v, pos) /\ \A j \in Stops(v, pos) : Stop(v, pos) <= j
         /\ Stop(v, pos) \in DOMAIN v /\ Stop(v, pos) > pos /\ Stop(v, pos) \in Nat
<1> DEFINE S == Stops(v, pos)
<1>1. S \in SUBSET Nat
  BY ArrayFacts DEF Stops
<1>2. \E x \in S : \A y \in S : x <= y
  BY <1>1, Least
<1>3. Stop(v, pos) \in S /\ \A j \in S : Stop(v, pos) <= j
  BY <1>2 DEF Stop
<1>4. \A i \in S : i \in DOMAIN v /\ i > pos
  BY DEF Stops
<1> HIDE DEF S
<1> QED
  BY <1>1, <1>3, <1>4 DEF S

\* What a flow has for a type from its own on.
LEMMA ArrayOfFacts ==
  ASSUME NEW f, FrameOK(entries, lists, f), f.fn = "flow", ListsOK(entries, lists),
         NEW t \in Type, f.type <= t
  PROVE  /\ ArrayOf(f, t) \in Arrays /\ From(f, t) \in Nat
         /\ Holds(entries, ArrayOf(f, t), t) /\ Distinct(ArrayOf(f, t))
         /\ \A j \in DOMAIN ArrayOf(f, t), k \in DOMAIN f.called :
              j > From(f, t) /\ ArrayOf(f, t)[j] # None => ArrayOf(f, t)[j] # f.called[k]
<1>1. f \in Frame /\ f.vec \in Arrays /\ f.pos \in Nat /\ f.type \in Type
      /\ Holds(entries, f.vec, f.type) /\ Distinct(f.vec) /\ Calling(entries, f)
  BY FrameFacts DEF FrameOK
<1>2. lists[t] \in Arrays /\ Holds(entries, lists[t], t) /\ Distinct(lists[t])
  BY DEF ListsOK, ListOK
<1>3. CASE t = f.type
  BY <1>1, <1>3 DEF ArrayOf, From, Calling
<1>4. CASE t # f.type
  <2>1. ArrayOf(f, t) = lists[t] /\ From(f, t) = 0
    BY <1>4 DEF ArrayOf, From
  <2>2. ASSUME NEW j \in DOMAIN lists[t], NEW k \in DOMAIN f.called, lists[t][j] # None
        PROVE  lists[t][j] # f.called[k]
    <3>1. entries[lists[t][j]].type = t
      BY <1>2, <2>2 DEF Holds
    <3>2. entries[f.called[k]].type <= f.type
      BY <1>1 DEF Calling
    <3>3. ~(t <= f.type)
      BY <1>1, <1>4 DEF Type
    <3> QED
      BY <3>1, <3>2, <3>3
  <2> QED
    BY <1>2, <2>1, <2>2
<1> QED
  BY <1>3, <1>4

\* A flow ends, is ended by an error, or goes on.
LEMMA AdvanceCases ==
  ASSUME NEW f, FrameOK(entries, lists, f), f.fn = "flow", ListsOK(entries, lists),
         NEW st, Advance(f, st)
  PROVE  /\ \/ stack' = st /\ Waiting(f) = {}
            \/ stack' = <<>>
            \/ \E t \in Type : \E i \in Nat : WentOn(f, st, t, i)
         /\ cleanup \in BOOLEAN => cleanup' \in BOOLEAN
<1>1. f.type \in Type
  BY FrameFacts DEF FrameOK
<1>2. cleanup \in BOOLEAN => cleanup' \in BOOLEAN
  <2>1. CASE Waiting(f) = {}
    BY <2>1 DEF Advance
  <2>2. CASE Waiting(f) # {}
    BY <2>2 DEF Advance
  <2> QED
    BY <2>1, <2>2
<1>3. CASE Waiting(f) = {}
  BY <1>2, <1>3 DEF Advance
<1>4. CASE Waiting(f) # {}
  <2> DEFINE t == CHOOSE u \in Waiting(f) : \A x \in Waiting(f) : u <= x
             v == ArrayOf(f, t)
             i == Stop(v, From(f, t))
  <2>1. Waiting(f) \in SUBSET Nat
    BY <1>1 DEF Waiting, Type, Listener
  <2>2. \E u \in Waiting(f) : \A x \in Waiting(f) : u <= x
    BY <1>4, <2>1, Least
  <2>3. t \in Waiting(f) /\ \A x \in Waiting(f) : t <= x
    BY <2>2
  <2>4. IF v[i] = None THEN Abort
        ELSE stack' = Append(st,
               [f EXCEPT !.type = t, !.vec = v, !.pos = i,
                         !.live = IF t = f.type THEN @ ELSE TRUE,
                         !.called = Append(@, v[i])])
    BY <1>4 DEF Advance
  <2>5. v[i] = None => stack' = <<>>
    BY <2>4 DEF Abort
  <2>6. v[i] # None => stack' = Append(st, Called(f, t, i))
    BY <2>4 DEF Called, AtElement
  <2> HIDE DEF t
  <2>7. t \in Type /\ f.type <= t /\ Stops(ArrayOf(f, t), From(f, t)) # {}
    BY <1>1, <2>3 DEF Waiting, Type, Listener
  <2>8. ArrayOf(f, t) \in Arrays /\ From(f, t) \in Nat
    BY <2>7, ArrayOfFacts
  <2>9. i \in Stops(v, From(f, t)) /\ i \in Nat /\ \A j \in Stops(v, From(f, t)) : i <= j
    BY <2>7, <2>8, StopFacts
  <2> HIDE DEF i
  <2>10. v[i] # None => WentOn(f, st, t, i)
    BY <2>3, <2>6, <2>9 DEF WentOn
  <2> QED
    BY <1>2, <2>5, <2>7, <2>9, <2>10
<1> QED
  BY <1>3, <1>4

\* The frame of a flow that goes on.
CalledFields(f, t, i) ==
  LET g == Called(f, t, i)
      v == ArrayOf(f, t)
  IN /\ g.fn = "flow" /\ g.type = t /\ g.vec = v /\ g.pos = i /\ g.due = f.due
     /\ g.live = (IF t = f.type THEN f.live ELSE TRUE)
     /\ g.called = Append(f.called, v[i])
     /\ f.called \in Seq(Ids) /\ v[i] \in Ids /\ Valid(v[i])
     /\ f.type <= t /\ i \in DOMAIN v /\ i > From(f, t)
LEMMA CalledFrame ==
  ASSUME NEW f, FrameOK(entries, lists, f), f.fn = "flow", ListsOK(entries, lists),
         EntriesOK(entries), NEW st, NEW t \in Type, NEW i \in Nat, WentOn(f, st, t, i)
  PROVE  FrameOK(entries, lists, Called(f, t, i)) /\ CalledFields(f, t, i)
<1> DEFINE v == ArrayOf(f, t)
           g == Called(f, t, i)
           b == IF t = f.type THEN f.live ELSE TRUE
<1>1. f \in Frame /\ f.vec \in Arrays /\ f.pos \in Nat /\ f.type \in Type
      /\ f.live \in BOOLEAN /\ f.called \in Seq(Ids) /\ Calling(entries, f)
      /\ (f.live => f.vec = lists[f.type])
  BY FrameFacts DEF FrameOK
<1>2. f.type <= t
  BY <1>1 DEF WentOn, Waiting, Type, Listener
<1>3. /\ v \in Arrays /\ From(f, t) \in Nat /\ Holds(entries, v, t) /\ Distinct(v)
      /\ \A j \in DOMAIN v, k \in DOMAIN f.called :
           j > From(f, t) /\ v[j] # None => v[j] # f.called[k]
  BY <1>2, ArrayOfFacts
<1>4. i \in DOMAIN v /\ i > From(f, t) /\ v[i] # None /\ Valid(v[i])
  BY DEF WentOn, Stops
<1>5. v[i] \in Ids
  BY <1>3, <1>4, ArrayFacts DEF None
<1>6. b \in BOOLEAN /\ (b => v = lists[t])
  BY <1>1 DEF ArrayOf
<1>7. g = AtElement(f, t, v, i, b, v[i])
  BY DEF Called
<1> HIDE DEF g, v, b
<1>8. /\ g \in Frame /\ g.fn = "flow" /\ g.type = t /\ g.vec = v
      /\ g.pos = i /\ g.live = b /\ g.due = f.due /\ g.called = Append(f.called, v[i])
  <2>1. f \in Frame /\ v \in Arrays /\ b \in BOOLEAN
    BY <1>1, <1>3, <1>6
  <2> QED
    BY <1>5, <1>7, <2>1, FrameAdvanced
<1>9. Calling(entries, g)
  <2>1. /\ Len(f.called) \in Nat /\ DOMAIN f.called = 1 .. Len(f.called)
        /\ DOMAIN g.called = 1 .. Len(f.called) + 1 /\ g.called[Len(f.called) + 1] = v[i]
        /\ \A k \in 1 .. Len(f.called) : g.called[k] = f.called[k]
    BY <1>1, <1>5, <1>8, AppendProperties
  <2>2. \A k \in DOMAIN g.called : k \in DOMAIN f.called \/ k = Len(f.called) + 1
    BY <2>1
  <2>3. ASSUME NEW k \in DOMAIN g.called
        PROVE  g.called[k] \in DOMAIN entries /\ entries[g.called[k]].type <= t
    <3>1. CASE k \in DOMAIN f.called
      <4>1. g.called[k] = f.called[k] /\ f.called[k] \in DOMAIN entries
            /\ entries[f.called[k]].type <= f.type
        BY <1>1, <2>1, <3>1 DEF Calling
      <4> QED
        <5>1. entries[f.called[k]] \in Entry
          BY <4>1 DEF EntriesOK
        <5>2. entries[f.called[k]].type \in Type
          BY <5>1 DEF Entry
        <5> QED
          BY <1>1, <1>2, <4>1, <5>2 DEF Type
    <3>2. CASE k = Len(f.called) + 1
      BY <1>3, <1>4, <2>1, <3>2 DEF Holds, Type
    <3> QED
      BY <2>2, <3>1, <3>2
  <2>4. ASSUME NEW j \in DOMAIN g.called, NEW k \in DOMAIN g.called,
               g.called[j] = g.called[k]
        PROVE  j = k
    <3>1. \A x \in DOMAIN f.called : g.called[x] # v[i]
      BY <1>3, <1>4, <2>1
    <3>2. \A x, y \in DOMAIN f.called : g.called[x] = g.called[y] => x = y
      BY <1>1, <2>1 DEF Calling
    <3> QED
      BY <2>1, <2>2, <2>4, <3>1, <3>2
  <2>5. ASSUME NEW j \in DOMAIN v, j > i, NEW k \in DOMAIN g.called
        PROVE  v[j] # g.called[k]
    <3>1. v[j] # v[i]
      <4>1. i # j
        BY <1>3, <2>5, ArrayFacts
      <4> QED
        BY <1>3, <1>4, <4>1 DEF Distinct
    <3>2. j > From(f, t)
      BY <1>3, <1>4, <2>5, ArrayFacts
    <3>3. ASSUME k \in DOMAIN f.called PROVE v[j] # f.called[k]
      <4>1. f.called[k] # None
        <5>1. f.called[k] \in Ids
          BY <1>1, <3>3
        <5> QED
          BY <5>1 DEF Ids, None
      <4> QED
        BY <1>3, <3>2, <3>3, <4>1
    <3> QED
      BY <2>1, <2>2, <3>1, <3>3
  <2> QED
    BY <1>1, <1>8, <2>3, <2>4, <2>5 DEF Calling
<1>10. FrameOK(entries, lists, g)
  BY <1>3, <1>6, <1>8, <1>9 DEF FrameOK
<1> QED
  BY <1>1, <1>2, <1>4, <1>5, <1>8, <1>10 DEF v, g, b, CalledFields

LEMMA AdvanceBase ==
  ASSUME NEW f, FrameOK(entries, lists, f), f.fn = "flow", ListsOK(entries, lists),
         EntriesOK(entries), NEW st, StackOK(entries, lists, st), Len(st) < MaxDepth, Advance(f, st)
  PROVE  StackOK(entries, lists, stack')
<1>1. CASE \E t \in Type : \E i \in Nat : WentOn(f, st, t, i)
  <2>1. PICK t \in Type, i \in Nat : WentOn(f, st, t, i)
    BY <1>1
  <2>2. FrameOK(entries, lists, Called(f, t, i)) /\ Called(f, t, i).fn = "flow"
    <3>1. FrameOK(entries, lists, Called(f, t, i)) /\ CalledFields(f, t, i)
      BY <2>1, CalledFrame
    <3> QED
      BY <3>1 DEF CalledFields
  <2>3. stack' = Append(st, Called(f, t, i))
    BY <2>1 DEF WentOn
  <2> QED
    BY <2>2, <2>3, StackPush
<1>2. CASE stack' = <<>> \/ stack' = st
  BY <1>2, StackEmpty
<1> QED
  BY <1>1, <1>2, AdvanceCases
-----------------------------------------------------------------------------
(***************************************************************************)
(* The invariant that holds whatever callbacks do.                         *)
(***************************************************************************)
\* Sets of entries, and the other variables.
Marks ==
  /\ alive \in SUBSET CONSUMER
  /\ cleared \subseteq DOMAIN entries /\ expired \subseteq DOMAIN entries
  /\ standing \subseteq DOMAIN entries /\ broken \in SUBSET Ids
  /\ cleanup \in BOOLEAN

Inv == Base(entries, lists, stack) /\ Marks

\* The innermost frame, and those below it.
LEMMA TopFacts ==
  ASSUME StackOK(entries, lists, stack), stack # <<>>
  PROVE  /\ FrameOK(entries, lists, Top) /\ StackOK(entries, lists, Below)
         /\ Len(stack) \in Nat \ {0} /\ Len(Below) = Len(stack) - 1
         /\ DOMAIN stack = 1 .. Len(stack) /\ DOMAIN Below = 1 .. Len(stack) - 1
         /\ \A i \in DOMAIN Below : Below[i] = stack[i]
         /\ Len(Below) < MaxDepth
<1>1. /\ StackOK(entries, lists, Below) /\ Len(Below) = Len(stack) - 1
      /\ Len(stack) \in Nat \ {0}
      /\ DOMAIN Below = 1 .. Len(stack) - 1 /\ DOMAIN stack = 1 .. Len(stack)
      /\ \A i \in DOMAIN Below : Below[i] = stack[i]
  BY StackBelow DEF Below
<1>2. Len(stack) \in DOMAIN stack
  BY <1>1
<1>3. FrameOK(entries, lists, Top)
  BY <1>2 DEF StackOK, Top
<1>4. Len(Below) < MaxDepth
  BY <1>1, ConstantsAssumption DEF StackOK
<1> QED
  BY <1>1, <1>3, <1>4

\* A loop over surveyors goes on.
LEMMA TopWithPos ==
  ASSUME StackOK(entries, lists, stack), stack # <<>>, Top.fn \in {"register", "allow"},
         NEW n \in Nat, stack' = [stack EXCEPT ![Len(stack)].pos = n]
  PROVE  /\ StackOK(entries, lists, stack') /\ DOMAIN stack' = DOMAIN stack
         /\ Len(stack') = Len(stack)
         /\ \A i \in DOMAIN stack :
              /\ i # Len(stack) => stack'[i] = stack[i]
              /\ stack'[i].fn = stack[i].fn /\ stack'[i].type = stack[i].type
              /\ stack'[i].vec = stack[i].vec /\ stack'[i].live = stack[i].live
              /\ stack[i].fn = "register" => stack'[i].new = stack[i].new
<1> DEFINE g == [Top EXCEPT !.pos = n]
<1>1. FrameOK(entries, lists, Top) /\ Len(stack) \in DOMAIN stack
  BY TopFacts
<1>2. /\ g \in Frame /\ g.fn = Top.fn /\ g.type = Top.type
      /\ g.vec = Top.vec /\ g.live = Top.live
      /\ Top.fn = "register" => g.new = Top.new
  BY <1>1, FrameWithPos DEF FrameOK
<1>3. stack' = [stack EXCEPT ![Len(stack)] = g]
  BY DEF Top
<1> HIDE DEF g
<1>4. FrameOK(entries, lists, g)
  BY <1>1, <1>2 DEF FrameOK
<1>5. \A i \in DOMAIN stack : stack'[i] = IF i = Len(stack) THEN g ELSE stack[i]
  BY <1>3
<1>6. ASSUME NEW i \in DOMAIN stack
      PROVE  /\ i # Len(stack) => stack'[i] = stack[i]
             /\ FrameOK(entries, lists, stack'[i])
             /\ stack'[i].fn = stack[i].fn /\ stack'[i].type = stack[i].type
             /\ stack'[i].vec = stack[i].vec /\ stack'[i].live = stack[i].live
             /\ stack[i].fn = "register" => stack'[i].new = stack[i].new
  <2>1. CASE i = Len(stack)
    BY <1>2, <1>4, <1>5, <2>1 DEF Top
  <2>2. CASE i # Len(stack)
    BY <1>5, <2>2 DEF StackOK
  <2> QED
    BY <2>1, <2>2
<1>7. stack' = [i \in DOMAIN stack |-> stack'[i]]
  BY <1>3
<1>8. StackOK(entries, lists, stack') /\ DOMAIN stack' = DOMAIN stack /\ Len(stack') = Len(stack)
  <2>1. \A i \in DOMAIN stack : FrameOK(entries, lists, stack'[i]) /\ stack'[i].fn = stack[i].fn
    BY <1>6
  <2> QED
    BY ONLY StackOK(entries, lists, stack), <1>7, <2>1, StackMapped
<1> QED
  BY <1>6, <1>8

\* What a registration leaves of the sets.
LEMMA InsertMarks ==
  ASSUME Marks, NEW ls, NEW st, NEW new \in Entry, Base(entries, ls, st),
         Len(entries) < MaxEntries, Insert(new, ls, st),
         UNCHANGED <<alive, cleared, expired, cleanup>>
  PROVE  Marks'
<1>1. /\ Extends(entries, Append(entries, new)) /\ NewId \in DOMAIN Append(entries, new)
      /\ DOMAIN Append(entries, new) = DOMAIN entries \cup {NewId} /\ NewId \in Ids
  BY Grows DEF Base, NewId
<1>2. ls \in [Type -> Arrays]
  BY DEF Base, ListsOK
<1>3. CASE Appended(new, ls, st)
  BY <1>1, <1>3 DEF Appended, Accepted, Marks
<1>4. CASE Superseded(new, ls, st)
  BY <1>1, <1>4 DEF Superseded, Overwritten, Accepted, Marks
<1>5. CASE NobodyToTell(new, ls)
  BY <1>1, <1>5 DEF NobodyToTell, Overwritten, Marks
<1>6. CASE NotRegistered(ls, st)
  BY <1>6 DEF NotRegistered, Marks
<1> QED
  BY <1>2, <1>3, <1>4, <1>5, <1>6, InsertCases

\* The surveyors are asked about a new entry.
Asking(new, v) ==
  [fn |-> "register", type |-> Surveyor, vec |-> v, live |-> TRUE, pos |-> 1, new |-> new]

\* Leave is asked for of the surveyors.
Allowing(v, i, c) ==
  [fn |-> "allow", type |-> Surveyor, vec |-> v, live |-> TRUE, pos |-> i, cancel |-> c]

LEMMA AskingOK ==
  ASSUME NEW es, NEW ls, ListsOK(es, ls), NEW new \in Entry
  PROVE  FrameOK(es, ls, Asking(new, ls[Surveyor]))
<1>1. ListOK(es, ls[Surveyor], Surveyor)
  BY DEF ListsOK, Surveyor, Type
<1>2. Asking(new, ls[Surveyor]) \in AskFrame
  BY <1>1 DEF Asking, AskFrame, ListOK
<1> QED
  BY <1>1, <1>2 DEF FrameOK, Asking, ListOK, Frame

LEMMA AllowingOK ==
  ASSUME NEW es, NEW ls, ListsOK(es, ls), NEW i \in Nat, NEW c \in BOOLEAN
  PROVE  FrameOK(es, ls, Allowing(ls[Surveyor], i, c))
<1>1. ListOK(es, ls[Surveyor], Surveyor)
  BY DEF ListsOK, Surveyor, Type
<1>2. Allowing(ls[Surveyor], i, c) \in AllowFrame
  BY <1>1 DEF Allowing, AllowFrame, ListOK
<1> QED
  BY <1>1, <1>2 DEF FrameOK, Allowing, ListOK, Frame

\* The beginning of a flow.
Beginning ==
  [fn |-> "flow", type |-> Surveyor, vec |-> lists[Surveyor],
   live |-> TRUE, pos |-> 0, due |-> standing, called |-> <<>>]

LEMMA BeginningOK ==
  ASSUME Inv
  PROVE  FrameOK(entries, lists, Beginning)
<1>1. ListOK(entries, lists[Surveyor], Surveyor)
  BY DEF Inv, Base, ListsOK, Surveyor, Type
<1>2. DOMAIN entries \subseteq Ids
  BY ConstantsAssumption DEF Inv, Base, EntriesOK, Ids
<1>3. standing \subseteq DOMAIN entries
  BY DEF Inv, Marks
<1>4. Beginning \in FlowFrame
  BY <1>1, <1>2, <1>3 DEF Beginning, FlowFrame, ListOK, Surveyor, Type
<1>5. Calling(entries, Beginning)
  BY <1>3 DEF Calling, Beginning
<1> QED
  BY <1>1, <1>4, <1>5 DEF FrameOK, Beginning, ListOK, Frame

LEMMA RegisterInv ==
  ASSUME Inv, NEW new \in Entry, Register(new)
  PROVE  Inv'
<1> DEFINE ls == CleanedLists
           st == Cleaned(stack)
<1>1. Base(entries, lists, stack) /\ Marks /\ UNCHANGED <<alive, cleared, expired, cleanup>>
      /\ Len(entries) < MaxEntries
  BY DEF Inv, Register
<1>2. Base(entries, ls, st)
  BY <1>1, CleanBase
<1> HIDE DEF ls, st
<1>3. CASE stack' = <<>> /\ UNCHANGED <<entries, lists, standing, broken>>
  BY <1>1, <1>3, StackEmpty DEF Inv, Base, Marks
<1>4. CASE lists' = ls /\ stack' = st /\ UNCHANGED <<entries, standing, broken>>
  BY <1>1, <1>2, <1>4 DEF Inv, Marks
<1>5. CASE /\ Len(st) < MaxDepth /\ lists' = ls
           /\ stack' = Append(st, Asking(new, ls[Surveyor]))
           /\ UNCHANGED <<entries, standing, broken>>
  <2>1. FrameOK(entries, ls, Asking(new, ls[Surveyor]))
    BY <1>2, AskingOK DEF Base
  <2>2. Asking(new, ls[Surveyor]).fn # "allow"
    BY DEF Asking
  <2>3. StackOK(entries, ls, stack')
    BY <1>2, <1>5, <2>1, <2>2, StackPush DEF Base
  <2> QED
    BY <1>1, <1>2, <1>5, <2>3 DEF Inv, Base, Marks
<1>6. CASE Insert(new, ls, st)
  BY <1>1, <1>2, <1>6, InsertBase, InsertMarks DEF Inv
<1> QED
  BY <1>3, <1>4, <1>5, <1>6 DEF Register, Asking, Abort, ls, st

LEMMA RegisterReturnInv ==
  ASSUME Inv, NEW ok \in BOOLEAN, RegisterReturn(ok)
  PROVE  Inv'
<1>1. /\ Base(entries, lists, stack) /\ Marks /\ UNCHANGED <<alive, cleared, expired, cleanup>>
      /\ stack # <<>> /\ Top.fn = "register"
  BY DEF Inv, RegisterReturn
<1>2. FrameOK(entries, lists, Top) /\ StackOK(entries, lists, Below)
  BY <1>1, TopFacts DEF Base
<1>3. Top.new \in Entry /\ Top.vec \in Arrays /\ Top.pos \in Nat
  BY <1>1, <1>2, FrameFacts DEF FrameOK
<1>4. CASE stack' \in {Below, <<>>} /\ UNCHANGED <<entries, lists, standing, broken>>
  BY <1>1, <1>2, <1>4, StackEmpty DEF Inv, Base, Marks
<1>5. CASE Len(entries) < MaxEntries /\ Insert(Top.new, lists, Below)
  <2>1. Base(entries, lists, Below)
    BY <1>1, <1>2 DEF Base
  <2> QED
    BY <1>1, <1>3, <1>5, <2>1, InsertBase, InsertMarks DEF Inv
<1>6. CASE /\ Stops(Top.vec, Top.pos) # {}
           /\ stack' = [stack EXCEPT ![Len(stack)].pos = Stop(Top.vec, Top.pos)]
           /\ UNCHANGED <<entries, lists, standing, broken>>
  <2>1. Stop(Top.vec, Top.pos) \in Nat
    BY <1>3, <1>6, StopFacts
  <2>2. StackOK(entries, lists, stack')
    BY <1>1, <1>6, <2>1, TopWithPos DEF Base
  <2> QED
    BY <1>1, <1>6, <2>2 DEF Inv, Base, Marks
<1> QED
  BY <1>4, <1>5, <1>6 DEF RegisterReturn, Abort

LEMMA SupersededReturnInv ==
  ASSUME Inv, SupersededReturn
  PROVE  Inv'
<1>1. /\ Base(entries, lists, stack) /\ Marks
      /\ UNCHANGED <<alive, cleared, expired, cleanup, entries, standing, broken>>
      /\ stack # <<>> /\ Top.fn = "superseded"
  BY DEF Inv, SupersededReturn
<1>2. FrameOK(entries, lists, Top) /\ StackOK(entries, lists, Below) /\ ListsOK(entries, lists)
  BY <1>1, TopFacts DEF Base
<1> DEFINE t == Top.type
<1>3. /\ t \in Type /\ Top.vec \in Arrays /\ Len(Top.vec) = MaxCount[t]
      /\ Holds(entries, Top.vec, t) /\ Distinct(Top.vec)
  BY <1>1, <1>2, FrameFacts DEF FrameOK
<1> HIDE DEF t
<1>4. CASE stack' = <<>> /\ lists' = lists
  BY <1>1, <1>4, StackEmpty DEF Inv, Base, Marks
<1>5. CASE /\ ~(None \in Elements(Top.vec) /\ Len(Top.vec) > 1)
           /\ \E w \in Sortings(entries, Top.vec) : lists' = [lists EXCEPT ![t] = w]
           /\ stack' = Detached(Below, t)
  <2>1. PICK w \in Sortings(entries, Top.vec) : lists' = [lists EXCEPT ![t] = w]
    BY <1>5
  <2>2. /\ w \in Arrays /\ Len(w) = MaxCount[t] /\ DOMAIN w = DOMAIN Top.vec
        /\ Elements(w) = Elements(Top.vec) /\ Distinct(w)
    BY <1>3, SortingFacts
  <2>3. Holds(entries, w, t)
    <3> SUFFICES ASSUME NEW i \in DOMAIN w, w[i] # None
                 PROVE  w[i] \in DOMAIN entries /\ entries[w[i]].type = t
      BY DEF Holds
    <3>1. PICK j \in DOMAIN Top.vec : Top.vec[j] = w[i]
      BY <2>2 DEF Elements
    <3> QED
      BY <1>3, <3>1 DEF Holds
  <2>4. OnlyFullZero(w, t)
    <3>1. MaxCount[t] \in Nat \ {0}
      BY <1>3, ConstantsAssumption
    <3>2. ASSUME None \in Elements(w) PROVE Len(w) = 1 /\ MaxCount[t] = 1
      BY <1>3, <1>5, <2>2, <3>1, <3>2
    <3> QED
      BY <3>2 DEF OnlyFullZero
  <2>5. ListOK(entries, w, t)
    <3>1. MaxCount[t] <= MaxCount[t]
      BY <1>3, ConstantsAssumption
    <3> QED
      BY <2>2, <2>3, <2>4, <3>1 DEF ListOK
  <2>6. lists' \in [Type -> Arrays] /\ lists'[t] = w /\ SameBut(lists, lists', t)
    BY <1>2, <1>3, <2>1, <2>2 DEF ListsOK, SameBut
  <2>7. ListsOK(entries, lists')
    BY <1>2, <2>5, <2>6 DEF ListsOK, SameBut
  <2>8. Extends(entries, entries) /\ FramesOK(entries, lists, Below)
    BY <1>2 DEF Extends, FramesOK, StackOK
  <2>9. \A i \in DOMAIN Below : FrameOK(entries, lists', stack'[i]) /\ stack'[i].fn = Below[i].fn
    <3> TAKE i \in DOMAIN Below
    <3>1. FrameOK(entries, lists', Detached(Below, t)[i]) /\ Same(Below[i], Detached(Below, t)[i])
      BY <1>3, <2>6, <2>8, DetachedFrame
    <3> QED
      BY <1>5, <3>1 DEF Same
  <2>10. stack' = [i \in DOMAIN Below |-> stack'[i]]
    BY <1>5 DEF Detached
  <2>11. StackOK(entries, lists', stack')
    BY <1>2, <2>9, <2>10, StackMapped
  <2> QED
    BY <1>1, <2>7, <2>11 DEF Inv, Base, Marks
<1> QED
  BY <1>4, <1>5 DEF SupersededReturn, Abort, t

\* The entry of a superseded frame.
LEMMA HalfDoneFacts ==
  ASSUME StackOK(entries, lists, stack)
  PROVE  HalfDone \in SUBSET Ids
<1> SUFFICES ASSUME NEW i \in DOMAIN stack, stack[i].fn = "superseded"
             PROVE  stack[i].entry \in Ids
  BY DEF HalfDone
<1>1. stack[i] \in Frame
  BY DEF StackOK, FrameOK
<1>2. stack[i] \in OverFrame
  BY <1>1 DEF Frame, FlowFrame, AskFrame, AllowFrame
<1> QED
  BY <1>2 DEF OverFrame

LEMMA CallbackFailsInv ==
  ASSUME Inv, CallbackFails
  PROVE  Inv'
<1>1. /\ Base(entries, lists, stack) /\ Marks
      /\ UNCHANGED <<alive, entries, cleared, expired, lists, cleanup>>
      /\ stack' = <<>> /\ standing' \subseteq standing /\ broken' = broken \cup HalfDone
  BY DEF Inv, CallbackFails, Abort
<1>2. HalfDone \in SUBSET Ids
  BY <1>1, HalfDoneFacts DEF Base
<1> QED
  BY <1>1, <1>2, StackEmpty DEF Inv, Base, Marks

LEMMA UnregisterInv ==
  ASSUME Inv, NEW c \in CONSUMER, Unregister(c)
  PROVE  Inv'
<1>1. UNCHANGED <<alive, entries, expired, cleanup, lists, broken>> /\ stack' \in {stack, <<>>}
  BY DEF Unregister, Abort, Drop
<1>2. standing' \subseteq standing /\ cleared' \subseteq cleared \cup Info(lists, c)
  BY DEF Unregister
<1>3. Info(lists, c) \subseteq DOMAIN entries
  <2> SUFFICES ASSUME NEW e \in Info(lists, c) PROVE e \in DOMAIN entries
    OBVIOUS
  <2>1. PICK t \in Type : e \in Elements(lists[t])
    BY DEF Info
  <2>2. e # None
    BY DEF Info, Valid
  <2>3. Holds(entries, lists[t], t)
    BY DEF Inv, Base, ListsOK, ListOK
  <2> QED
    BY <2>1, <2>2, <2>3 DEF Holds, Elements
<1>4. Marks'
  BY <1>1, <1>2, <1>3 DEF Inv, Marks
<1>5. StackOK(entries, lists, stack')
  BY <1>1, StackEmpty DEF Inv, Base
<1> QED
  BY <1>1, <1>4, <1>5 DEF Inv, Base

LEMMA DestructInv ==
  ASSUME Inv, NEW c \in CONSUMER, Destruct(c)
  PROVE  Inv'
BY DEF Inv, Base, Marks, Destruct

LEMMA ExpireInv ==
  ASSUME Inv, NEW e \in Ids, Expire(e)
  PROVE  Inv'
BY DEF Inv, Base, Marks, Expire

LEMMA HHasConsumersInv ==
  ASSUME Inv, HHasConsumers
  PROVE  Inv'
<1>1. Base(entries, lists, stack) /\ UNCHANGED <<alive, entries, cleared, expired, cleanup, standing, broken>>
  BY DEF Inv, HHasConsumers
<1>2. CASE lists' = CleanedLists /\ stack' = Cleaned(stack)
  BY <1>1, <1>2, CleanBase DEF Inv, Marks
<1>3. CASE stack' = <<>> /\ lists' = lists
  BY <1>1, <1>3, StackEmpty DEF Inv, Base, Marks
<1> QED
  BY <1>2, <1>3 DEF HHasConsumers, Abort

LEMMA CleanHookMappingInv ==
  ASSUME Inv, CleanHookMapping
  PROVE  Inv'
<1>1. Base(entries, lists, stack) /\ UNCHANGED <<alive, entries, cleared, expired, standing, broken, stack>>
      /\ stack = <<>> /\ cleanup' = FALSE
  BY DEF Inv, CleanHookMapping
<1>2. ListsOK(entries, CleanedLists)
  BY <1>1, CleanBase DEF Base
<1>3. ListsOK(entries, lists')
  BY <1>1, <1>2 DEF CleanHookMapping, Base
<1> QED
  BY <1>1, <1>3, StackEmpty DEF Inv, Base, Marks

\* A flow that goes on, or ends, keeps the invariant.
LEMMA AdvanceInv ==
  ASSUME Inv, NEW f, FrameOK(entries, lists, f), f.fn = "flow",
         NEW st, StackOK(entries, lists, st), Len(st) < MaxDepth, Advance(f, st),
         UNCHANGED <<alive, entries, cleared, expired, lists, standing, broken>>
  PROVE  Inv'
<1>1. StackOK(entries, lists, stack')
  BY AdvanceBase DEF Inv, Base
<1>2. cleanup' \in BOOLEAN
  BY AdvanceCases DEF Inv, Base, Marks
<1> QED
  BY <1>1, <1>2 DEF Inv, Base, Marks

LEMMA HookFlowInv ==
  ASSUME Inv, HookFlow
  PROVE  Inv'
<1>1. Advance(Beginning, stack) /\ Len(stack) < MaxDepth
      /\ UNCHANGED <<alive, entries, cleared, expired, lists, standing, broken>>
  BY DEF HookFlow, Beginning
<1>2. FrameOK(entries, lists, Beginning) /\ Beginning.fn = "flow"
  BY BeginningOK DEF Beginning
<1>3. StackOK(entries, lists, stack)
  BY DEF Inv, Base
<1> QED
  BY <1>1, <1>2, <1>3, AdvanceInv

LEMMA FlowReturnInv ==
  ASSUME Inv, NEW ret, FlowReturn(ret)
  PROVE  Inv'
<1>1. UNCHANGED <<alive, entries, cleared, expired, lists, standing, broken>>
      /\ stack # <<>> /\ Top.fn = "flow" /\ StackOK(entries, lists, stack)
      /\ ListsOK(entries, lists)
  BY DEF FlowReturn, Inv, Base
<1>2. FrameOK(entries, lists, Top) /\ StackOK(entries, lists, Below) /\ Len(Below) < MaxDepth
  BY <1>1, TopFacts
<1>3. CASE stack' \in {Below, <<>>} /\ cleanup' = cleanup
  BY <1>1, <1>2, <1>3, StackEmpty DEF Inv, Base, Marks
<1>4. CASE Advance(Top, Below)
  BY <1>1, <1>2, <1>4, AdvanceInv
<1>5. CASE /\ Stops(lists[Surveyor], 0) # {} /\ Len(stack) < MaxDepth /\ cleanup' = cleanup
           /\ stack' = Append(stack, Allowing(lists[Surveyor], Stop(lists[Surveyor], 0),
                                              ret = "cancelled"))
  <2> DEFINE i == Stop(lists[Surveyor], 0)
             f == Allowing(lists[Surveyor], i, ret = "cancelled")
  <2>1. lists[Surveyor] \in Arrays
    BY <1>1 DEF ListsOK, Surveyor, Type
  <2>2. i \in Nat
    BY <1>5, <2>1, StopFacts
  <2> HIDE DEF i
  <2>3. FrameOK(entries, lists, f)
    BY <1>1, <2>2, AllowingOK
  <2> HIDE DEF f
  <2>4. stack' = Append(stack, f) /\ Len(stack) < MaxDepth
    BY <1>5 DEF f, i
  <2>5. StackOK(entries, lists, stack')
    BY <1>1, <2>3, <2>4, StackPush DEF Top
  <2> QED
    BY <1>1, <1>5, <2>5 DEF Inv, Base, Marks
<1> QED
  BY <1>3, <1>4, <1>5 DEF FlowReturn, Allowing, Abort

\* The flow that asks for leave is below the question.
LEMMA AskingFlow ==
  ASSUME StackOK(entries, lists, stack), stack # <<>>, Top.fn = "allow"
  PROVE  LET f == Below[Len(Below)]
             rest == SubSeq(Below, 1, Len(Below) - 1)
         IN /\ Below # <<>> /\ FrameOK(entries, lists, f) /\ f.fn = "flow"
            /\ f = stack[Len(stack) - 1]
            /\ StackOK(entries, lists, rest) /\ Len(rest) = Len(stack) - 2
            /\ Len(stack) > 1 /\ Len(rest) < MaxDepth
            /\ DOMAIN rest = 1 .. Len(stack) - 2 /\ \A i \in DOMAIN rest : rest[i] = stack[i]
<1> DEFINE rest == SubSeq(Below, 1, Len(Below) - 1)
<1>1. /\ StackOK(entries, lists, Below)
      /\ Len(stack) \in Nat \ {0} /\ Len(Below) = Len(stack) - 1
      /\ DOMAIN stack = 1 .. Len(stack) /\ DOMAIN Below = 1 .. Len(stack) - 1
      /\ \A i \in DOMAIN Below : Below[i] = stack[i]
  BY TopFacts
<1>2. Len(stack) > 1 /\ stack[Len(stack) - 1].fn = "flow"
  <2>1. Len(stack) \in DOMAIN stack
    BY <1>1
  <2> QED
    BY <2>1 DEF StackOK, Asks, Top
<1>3. Len(Below) \in DOMAIN Below
  BY <1>1, <1>2
<1>4. Below # <<>> /\ Below[Len(Below)] = stack[Len(stack) - 1]
      /\ FrameOK(entries, lists, Below[Len(Below)])
  BY <1>1, <1>3 DEF StackOK
<1>5. /\ StackOK(entries, lists, rest) /\ Len(rest) = Len(Below) - 1
      /\ DOMAIN rest = 1 .. Len(Below) - 1 /\ \A i \in DOMAIN rest : rest[i] = Below[i]
  BY <1>1, <1>4, StackBelow
<1> HIDE DEF rest
<1>6. Len(rest) = Len(stack) - 2 /\ DOMAIN rest = 1 .. Len(stack) - 2
      /\ \A i \in DOMAIN rest : rest[i] = stack[i]
  BY <1>1, <1>2, <1>5
<1>7. Len(rest) < MaxDepth
  <2>1. Len(stack) <= MaxDepth /\ MaxDepth \in Nat
    BY ConstantsAssumption DEF StackOK
  <2> QED
    BY <1>1, <1>6, <2>1
<1> QED
  BY <1>2, <1>4, <1>5, <1>6, <1>7 DEF rest

LEMMA AllowReturnInv ==
  ASSUME Inv, NEW ok \in BOOLEAN, AllowReturn(ok)
  PROVE  Inv'
<1>1. UNCHANGED <<alive, entries, cleared, expired, lists, standing, broken>>
      /\ stack # <<>> /\ Top.fn = "allow" /\ StackOK(entries, lists, stack)
  BY DEF AllowReturn, Inv, Base
<1> DEFINE f == Below[Len(Below)]
           rest == SubSeq(Below, 1, Len(Below) - 1)
<1>2. FrameOK(entries, lists, f) /\ f.fn = "flow" /\ StackOK(entries, lists, rest)
      /\ Len(rest) < MaxDepth
  BY <1>1, AskingFlow
<1> HIDE DEF f, rest
<1>3. CASE stack' \in {rest, <<>>} /\ cleanup' = cleanup
  BY <1>1, <1>2, <1>3, StackEmpty DEF Inv, Base, Marks
<1>4. CASE Advance(f, rest)
  BY <1>1, <1>2, <1>4, AdvanceInv
<1>5. CASE /\ Stops(Top.vec, Top.pos) # {} /\ cleanup' = cleanup
           /\ stack' = [stack EXCEPT ![Len(stack)].pos = Stop(Top.vec, Top.pos)]
  <2>1. Top.vec \in Arrays /\ Top.pos \in Nat
    BY <1>1, TopFacts, FrameFacts DEF FrameOK
  <2>2. Stop(Top.vec, Top.pos) \in Nat
    BY <1>5, <2>1, StopFacts
  <2>3. StackOK(entries, lists, stack')
    BY <1>1, <1>5, <2>2, TopWithPos
  <2> QED
    BY <1>1, <1>5, <2>3 DEF Inv, Base, Marks
<1> QED
  BY <1>3, <1>4, <1>5 DEF AllowReturn, Abort, f, rest

LEMMA InitInv == Init => Inv
<1> SUFFICES ASSUME Init PROVE Inv
  OBVIOUS
<1>1. EntriesOK(entries) /\ Marks
  <2>1. entries = <<>> /\ MaxEntries \in Nat
    BY ConstantsAssumption DEF Init
  <2>2. entries \in Seq(Entry) /\ Len(entries) = 0
    BY <2>1
  <2>3. alive = CONSUMER /\ cleared = {} /\ expired = {} /\ standing = {} /\ broken = {}
        /\ cleanup = FALSE
    BY DEF Init
  <2>4. EntriesOK(entries)
    BY <2>1, <2>2 DEF EntriesOK
  <2>5. Marks
    BY <2>3 DEF Marks
  <2> QED
    BY <2>4, <2>5
<1>2. ASSUME NEW t \in Type PROVE ListOK(entries, <<>>, t)
  BY ConstantsAssumption DEF ListOK, Arrays, Holds, Distinct, OnlyFullZero, Elements
<1>3. ListsOK(entries, lists)
  BY <1>2 DEF Init, ListsOK, Arrays
<1> QED
  BY <1>1, <1>3, StackEmpty DEF Inv, Base, Init

\* Every step keeps the invariant.
LEMMA NextInv == Inv /\ [Next]_vars => Inv'
<1> SUFFICES ASSUME Inv, [Next]_vars PROVE Inv'
  OBVIOUS
<1>1. ASSUME NEW c \in CONSUMER, NEW p \in Prios, NEW t \in Uses,
             Register([who |-> c, prio |-> p, type |-> t])
      PROVE  Inv'
  <2>1. [who |-> c, prio |-> p, type |-> t] \in Entry
    BY ConstantsAssumption DEF Entry
  <2> QED
    BY <1>1, <2>1, RegisterInv
<1>2. CASE UNCHANGED vars
  BY <1>2 DEF vars, Inv, Base, Marks
<1> QED
  BY <1>1, <1>2, RegisterReturnInv, AllowReturnInv, SupersededReturnInv, CallbackFailsInv, UnregisterInv,
     DestructInv, ExpireInv, HHasConsumersInv, CleanHookMappingInv, HookFlowInv, FlowReturnInv
     DEF Next

LEMMA Invariant == Spec => []Inv
  BY InitInv, NextInv, PTL DEF Spec

\* The variables have their types; no array outgrows MAX_HOOK_COUNTS, however
\* registrations are nested in the callbacks of others, and HRegisterToHook()
\* finds a zero in an array of the hook only if it is full with that element.
THEOREM HookTypeCorrect == Spec => []TypeOK
<1>1. Inv => TypeOK
  <2> SUFFICES ASSUME Inv PROVE TypeOK
    OBVIOUS
  <2>1. DOMAIN entries \subseteq Ids
    BY ConstantsAssumption DEF Inv, Base, EntriesOK, Ids
  <2> QED
    BY <2>1 DEF Inv, Base, Marks, EntriesOK, ListsOK, ListOK, StackOK, TypeOK
<1> QED
  BY <1>1, Invariant, PTL

\* No entry is called twice in a flow: not when it moves in its array because
\* others register or are cleaned up while the flow is going on, and not when
\* the flow goes on in an array the hook no longer has.
THEOREM NobodyCalledTwice == Spec => []NobodyTwice
<1>1. Inv => NobodyTwice
  BY DEF Inv, Base, StackOK, FrameOK, Calling, NobodyTwice, Flows, IsInjective
<1> QED
  BY <1>1, Invariant, PTL
-----------------------------------------------------------------------------
(***************************************************************************)
(* What holds if nobody registers or triggers the hook while it is asked   *)
(* about a registration or told that it was superseded.  The library's     *)
(* surveyors only answer (std/hook_surveyor.c:15, room/jail.c:118), its    *)
(* only superseded consumer stops fishing (std/items/fishing/angel.c:492). *)
(***************************************************************************)
Asked == {"register", "superseded"}
Modest == \A fn \in Asked : Allowed[fn] \cap {"register", "flow"} = {}

\* The entries that may be called.
Ok == {e \in DOMAIN entries : Valid(e)}

\* Only the innermost frame is a question about a registration or the news of
\* one; none is.
AskedOnTop(st) == \A i \in DOMAIN st : st[i].fn \in Asked => i = Len(st)
NoneAsked(st) == \A i \in DOMAIN st : st[i].fn \notin Asked

\* What stands may be called, and is in its array.
Stands(es, ls, ok, sd) == \A e \in sd : e \in ok /\ e \in Elements(ls[es[e].type])

\* Entries that may be called differ in their closures.
Once(es, ls, ok) ==
  \A t, u \in Type : \A d \in Elements(ls[t]) \cap ok, e \in Elements(ls[u]) \cap ok :
    es[d].who = es[e].who => d = e

\* The closure that is asked about is not registered.
Unknown(es, ls, ok, c) ==
  \A t \in Type : \A e \in Elements(ls[t]) \cap ok : es[e].who # c
AskedFor(es, ls, st, ok) ==
  \A i \in DOMAIN st : st[i].fn = "register" => Unknown(es, ls, ok, st[i].new.who)

\* A superseded consumer's array is the hook's, or holds a zero since it was
\* cleaned up; with one element, the hook's is empty then.
Replacing(ls, st) ==
  \A i \in DOMAIN st : st[i].fn = "superseded" =>
    \/ st[i].live
    \/ None \in Elements(st[i].vec) /\ (Len(st[i].vec) = 1 => Elements(ls[st[i].type]) = {})

Registered(es, ls, ok, sd) == Stands(es, ls, ok, sd) /\ Once(es, ls, ok)
Questions(es, ls, st, ok) ==
  AskedOnTop(st) /\ AskedFor(es, ls, st, ok) /\ Replacing(ls, st)

ModestInv ==
  Registered(entries, lists, Ok, standing) /\ Questions(entries, lists, stack, Ok)

LEMMA NoQuestions ==
  ASSUME NEW es, NEW ls, NEW st, NEW ok, NoneAsked(st)
  PROVE  Questions(es, ls, st, ok)
BY DEF NoneAsked, Asked, Questions, AskedOnTop, AskedFor, Replacing

LEMMA EmptyStack == NoneAsked(<<>>)
BY DEF NoneAsked

\* No question goes on below the innermost frame, nor where somebody may
\* register or trigger the hook.
LEMMA NoneBelow ==
  ASSUME Inv, ModestInv, stack # <<>>
  PROVE  NoneAsked(Below)
<1>1. /\ Len(stack) \in Nat \ {0} /\ DOMAIN stack = 1 .. Len(stack)
      /\ DOMAIN Below = 1 .. Len(stack) - 1 /\ \A i \in DOMAIN Below : Below[i] = stack[i]
  BY TopFacts DEF Inv, Base
<1>2. \A i \in DOMAIN stack : stack[i].fn \in Asked => i = Len(stack)
  BY DEF ModestInv, Questions, AskedOnTop
<1> QED
  BY <1>1, <1>2 DEF NoneAsked

LEMMA NoneGoingOn ==
  ASSUME Modest, Inv, ModestInv,
         stack # <<>> => Top.fn \notin Asked
  PROVE  NoneAsked(stack)
<1>1. CASE stack = <<>>
  BY <1>1, EmptyStack
<1>2. CASE stack # <<>>
  <2>1. /\ Len(stack) \in Nat \ {0} /\ DOMAIN stack = 1 .. Len(stack)
    BY <1>2, TopFacts DEF Inv, Base
  <2>2. \A i \in DOMAIN stack : stack[i].fn \in Asked => i = Len(stack)
    BY DEF ModestInv, Questions, AskedOnTop
  <2> QED
    BY <1>2, <2>1, <2>2 DEF NoneAsked, Top
<1> QED
  BY <1>1, <1>2

LEMMA MayNotBeAsked ==
  ASSUME Modest, NEW op \in {"register", "flow"}, May(op), stack # <<>>
  PROVE  Top.fn \notin Asked
<1>1. op \in Allowed[Top.fn]
  BY DEF May
<1> QED
  BY <1>1 DEF Modest

\* Frames of the same functions.
LEMMA SameAsked ==
  ASSUME NEW st, NoneAsked(st), NEW p, DOMAIN p = DOMAIN st,
         \A i \in DOMAIN st : p[i].fn = st[i].fn
  PROVE  NoneAsked(p)
BY DEF NoneAsked

LEMMA PushAsked ==
  ASSUME NEW st \in Seq(Frame), NoneAsked(st), NEW f \in Frame
  PROVE  /\ f.fn \notin Asked => NoneAsked(Append(st, f))
         /\ AskedOnTop(Append(st, f))
         /\ Len(Append(st, f)) = Len(st) + 1
         /\ DOMAIN Append(st, f) = 1 .. Len(st) + 1 /\ Len(st) \in Nat
         /\ Append(st, f)[Len(st) + 1] = f
         /\ \A i \in DOMAIN Append(st, f) : i # Len(st) + 1 => Append(st, f)[i].fn \notin Asked
<1> DEFINE p == Append(st, f)
<1>1. /\ Len(st) \in Nat /\ DOMAIN st = 1 .. Len(st) /\ Len(p) = Len(st) + 1
      /\ DOMAIN p = 1 .. Len(st) + 1 /\ p[Len(st) + 1] = f
      /\ \A i \in 1 .. Len(st) : p[i] = st[i]
  BY AppendProperties
<1> HIDE DEF p
<1>2. \A i \in DOMAIN p : i # Len(st) + 1 => p[i].fn \notin Asked
  <2> SUFFICES ASSUME NEW i \in DOMAIN p, i # Len(st) + 1 PROVE p[i].fn \notin Asked
    OBVIOUS
  <2>1. i \in 1 .. Len(st)
    BY <1>1
  <2> QED
    BY <1>1, <2>1 DEF NoneAsked
<1>3. AskedOnTop(p)
  BY <1>1, <1>2 DEF AskedOnTop
<1>4. f.fn \notin Asked => NoneAsked(p)
  BY <1>1, <1>2 DEF NoneAsked
<1> QED
  BY <1>1, <1>2, <1>3, <1>4 DEF p
-----------------------------------------------------------------------------
\* Which entries may be called once a new one was made.
LEMMA OkGrows ==
  ASSUME Marks, EntriesOK(entries), Len(entries) < MaxEntries, NEW new \in Entry,
         NEW id, id = Len(entries) + 1,
         entries' = Append(entries, new), UNCHANGED <<alive, cleared, expired>>
  PROVE  Ok' = Ok \cup (IF new.who \in alive THEN {id} ELSE {})
<1>1. /\ Extends(entries, entries') /\ id \in Ids
      /\ id \notin DOMAIN entries /\ entries'[id] = new
      /\ DOMAIN entries' = DOMAIN entries \cup {id}
  BY Grows
<1>2. \A e \in DOMAIN entries : Valid(e)' <=> Valid(e)
  BY <1>1 DEF Valid, HasClosure, Extends
<1>3. id \notin cleared /\ id \notin expired /\ id # None
  BY <1>1 DEF Marks, Ids, None
<1>4. Valid(id)' <=> new.who \in alive
  BY <1>1, <1>3 DEF Valid, HasClosure
<1>5. \A e : e \in Ok' <=> e \in DOMAIN entries' /\ Valid(e)'
  BY DEF Ok
<1>6. \A e : e \in Ok <=> e \in DOMAIN entries /\ Valid(e)
  BY DEF Ok
<1>7. CASE new.who \in alive
  <2>1. Ok' \subseteq Ok \cup {id}
    BY <1>1, <1>2, <1>5, <1>6
  <2>2. Ok \subseteq Ok'
    BY <1>1, <1>2, <1>5, <1>6
  <2>3. id \in Ok'
    BY <1>1, <1>4, <1>5, <1>7
  <2> QED
    BY <1>7, <2>1, <2>2, <2>3
<1>8. CASE new.who \notin alive
  <2>1. Ok' \subseteq Ok
    BY <1>1, <1>2, <1>4, <1>5, <1>6, <1>8
  <2>2. Ok \subseteq Ok'
    BY <1>1, <1>2, <1>5, <1>6
  <2> QED
    BY <1>8, <2>1, <2>2
<1> QED
  BY <1>7, <1>8

\* Only entries that were made may be called.
LEMMA OkFacts ==
  Ok \subseteq DOMAIN entries /\ None \notin Ok /\ \A e \in Ok : Valid(e)
BY DEF Ok, Valid

LEMMA EntryFacts ==
  ASSUME NEW es, EntriesOK(es), NEW e \in DOMAIN es
  PROVE  es[e] \in Entry /\ es[e].type \in Type /\ es[e].prio \in Nat
<1>1. es[e] \in Entry
  BY ElementOfSeq DEF EntriesOK
<1> QED
  BY <1>1, ConstantsAssumption DEF Entry

\* Fewer entries may be called.
LEMMA Fewer ==
  ASSUME NEW es, NEW ls, NEW st, NEW ok, NEW sd,
         Registered(es, ls, ok, sd), Questions(es, ls, st, ok),
         NEW less, less \subseteq ok, NEW remain, remain \subseteq sd, remain \subseteq less
  PROVE  Registered(es, ls, less, remain) /\ Questions(es, ls, st, less)
<1>1. Stands(es, ls, less, remain)
  BY DEF Registered, Stands
<1>2. Once(es, ls, less)
  <2>1. Once(es, ls, ok)
    BY DEF Registered
  <2> QED
    BY <2>1 DEF Once
<1>3. AskedFor(es, ls, st, less)
  <2>1. AskedFor(es, ls, st, ok)
    BY DEF Questions
  <2>2. ASSUME NEW c, Unknown(es, ls, ok, c) PROVE Unknown(es, ls, less, c)
    BY <2>2 DEF Unknown
  <2> QED
    BY <2>1, <2>2 DEF AskedFor
<1> QED
  BY <1>1, <1>2, <1>3 DEF Registered, Questions

\* Arrays that hold less, but all that stands.
LEMMA Smaller ==
  ASSUME NEW es, NEW ls, NEW ok, NEW sd, Registered(es, ls, ok, sd),
         NEW ks, \A t \in Type : Elements(ks[t]) \cap ok \subseteq Elements(ls[t]),
         Stands(es, ks, ok, sd)
  PROVE  /\ Registered(es, ks, ok, sd)
         /\ \A c : Unknown(es, ls, ok, c) => Unknown(es, ks, ok, c)
<1>1. Once(es, ks, ok)
  <2>1. Once(es, ls, ok)
    BY DEF Registered
  <2> QED
    BY <2>1 DEF Once
<1>2. ASSUME NEW c, Unknown(es, ls, ok, c) PROVE Unknown(es, ks, ok, c)
  BY <1>2 DEF Unknown
<1> QED
  BY <1>1, <1>2 DEF Registered

\* Cleaning takes out nothing that may be called.
LEMMA CleanRegistered ==
  ASSUME Base(entries, lists, stack), Registered(entries, lists, Ok, standing)
  PROVE  /\ Registered(entries, CleanedLists, Ok, standing)
         /\ \A c : Unknown(entries, lists, Ok, c) => Unknown(entries, CleanedLists, Ok, c)
         /\ \A t \in Type : Elements(CleanedLists[t]) = {e \in Elements(lists[t]) : Valid(e)}
<1>1. \A t \in Type : Elements(CleanedLists[t]) = {e \in Elements(lists[t]) : Valid(e)}
  <2> TAKE t \in Type
  <2>1. lists[t] \in Arrays
    BY DEF Base, ListsOK, ListOK
  <2>2. CleanedLists[t] = Kept(lists[t])
    BY DEF CleanedLists
  <2> QED
    BY <2>1, <2>2, KeptFacts
<1>2. Stands(entries, CleanedLists, Ok, standing)
  <2> SUFFICES ASSUME NEW e \in standing
               PROVE  e \in Ok /\ e \in Elements(CleanedLists[entries[e].type])
    BY DEF Stands
  <2>1. e \in Ok /\ e \in Elements(lists[entries[e].type])
    BY DEF Registered, Stands
  <2>3. entries[e].type \in Type
    BY <2>1, OkFacts, EntryFacts DEF Base
  <2> QED
    BY <1>1, <2>1, <2>3, OkFacts
<1>3. \A t \in Type : Elements(CleanedLists[t]) \cap Ok \subseteq Elements(lists[t])
  BY <1>1
<1> QED
  BY <1>1, <1>2, <1>3, Smaller

\* Nor does it change the questions.
LEMMA CleanQuestions ==
  ASSUME Base(entries, lists, stack), Registered(entries, lists, Ok, standing),
         Questions(entries, lists, stack, Ok)
  PROVE  Questions(entries, CleanedLists, Cleaned(stack), Ok)
<1> DEFINE p == Cleaned(stack)
<1>1. DOMAIN p = DOMAIN stack /\ Len(p) = Len(stack)
  BY CleanBase
<1>2. \A i \in DOMAIN stack :
        /\ Same(stack[i], p[i])
        /\ \/ p[i] = stack[i]
           \/ /\ stack[i].live /\ p[i].vec = Zeroed(stack[i].vec)
              /\ \E e \in Elements(stack[i].vec) : ~Valid(e)
  <2> TAKE i \in DOMAIN stack
  <2> QED
    BY CleanedFrame DEF Base
<1> HIDE DEF p
<1>3. AskedOnTop(p)
  BY <1>1, <1>2 DEF Questions, AskedOnTop, Same
<1>4. AskedFor(entries, CleanedLists, p, Ok)
  <2> SUFFICES ASSUME NEW i \in DOMAIN p, p[i].fn = "register"
               PROVE  Unknown(entries, CleanedLists, Ok, p[i].new.who)
    BY DEF AskedFor
  <2>1. stack[i].fn = "register" /\ p[i].new = stack[i].new
    BY <1>1, <1>2 DEF Same
  <2>2. Unknown(entries, lists, Ok, p[i].new.who)
    BY <1>1, <2>1 DEF Questions, AskedFor
  <2> QED
    BY <2>2, CleanRegistered
<1>5. Replacing(CleanedLists, p)
  <2> SUFFICES ASSUME NEW i \in DOMAIN stack, p[i].fn = "superseded", ~p[i].live
               PROVE  /\ None \in Elements(p[i].vec)
                      /\ Len(p[i].vec) = 1 => Elements(CleanedLists[p[i].type]) = {}
    BY <1>1 DEF Replacing
  <2> DEFINE f == stack[i]
  <2>1. /\ FrameOK(entries, lists, f) /\ f.fn = "superseded" /\ p[i].type = f.type
        /\ f.type \in Type /\ f.vec \in Arrays
    BY <1>2, FrameFacts DEF Same, Base, StackOK, FrameOK
  <2>2. Elements(CleanedLists[f.type]) = {e \in Elements(lists[f.type]) : Valid(e)}
    BY <2>1, CleanRegistered
  <2>3. CASE p[i] = f
    <3>1. None \in Elements(f.vec) /\ (Len(f.vec) = 1 => Elements(lists[f.type]) = {})
      BY <2>1, <2>3 DEF Questions, Replacing
    <3> QED
      BY <2>1, <2>2, <2>3, <3>1
  <2>4. CASE /\ f.live /\ p[i].vec = Zeroed(f.vec)
             /\ \E e \in Elements(f.vec) : ~Valid(e)
    <3>1. PICK k \in DOMAIN f.vec : ~Valid(f.vec[k])
      BY <2>4 DEF Elements
    <3>2. /\ Len(p[i].vec) = Len(f.vec) /\ DOMAIN p[i].vec = DOMAIN f.vec
          /\ p[i].vec[k] = None
      <4>1. Holds(entries, f.vec, f.type) /\ Distinct(f.vec)
        BY <2>1 DEF FrameOK
      <4>2. /\ Len(Zeroed(f.vec)) = Len(f.vec) /\ DOMAIN Zeroed(f.vec) = DOMAIN f.vec
            /\ Zeroed(f.vec)[k] = None
        <5> HIDE DEF f
        <5> QED
          BY <2>1, <3>1, <4>1, ZeroedFacts
      <4> QED
        BY <2>4, <4>2
    <3>3. None \in Elements(p[i].vec)
      BY <3>2 DEF Elements
    <3>4. ASSUME Len(f.vec) = 1 PROVE Elements(CleanedLists[f.type]) = {}
      <4>1. DOMAIN f.vec = 1 .. 1
        BY <2>1, <3>4, ArrayFacts
      <4>2. \A j \in DOMAIN f.vec : j = k
        BY <4>1
      <4>3. \A e \in Elements(f.vec) : ~Valid(e)
        BY <3>1, <4>2 DEF Elements
      <4>4. lists[f.type] = f.vec
        BY <2>1, <2>4 DEF FrameOK
      <4> QED
        BY <2>2, <4>3, <4>4
    <3> QED
      BY <2>1, <3>2, <3>3, <3>4
  <2> QED
    BY <1>2, <2>3, <2>4
<1> QED
  BY <1>3, <1>4, <1>5 DEF p, Questions
-----------------------------------------------------------------------------
\* Arrays that hold one entry more, of a closure that was not known.
LEMMA OneMore ==
  ASSUME NEW es, NEW ls, NEW ok, NEW sd, Registered(es, ls, ok, sd), ok \subseteq DOMAIN es,
         NEW fs, Extends(es, fs), NEW e, e \notin DOMAIN es, e \in DOMAIN fs,
         Unknown(es, ls, ok, fs[e].who),
         NEW more, ok \subseteq more, more \subseteq ok \cup {e},
         NEW ks, \A t \in Type : Elements(ks[t]) \subseteq Elements(ls[t]) \cup {e},
         NEW now, Stands(fs, ks, more, now)
  PROVE  Registered(fs, ks, more, now)
<1>1. Once(fs, ks, more)
  <2> SUFFICES ASSUME NEW t \in Type, NEW u \in Type,
                      NEW c \in Elements(ks[t]) \cap more, NEW d \in Elements(ks[u]) \cap more,
                      fs[c].who = fs[d].who
               PROVE  c = d
    BY DEF Once
  <2>1. c = e \/ c \in Elements(ls[t]) \cap ok
    OBVIOUS
  <2>2. d = e \/ d \in Elements(ls[u]) \cap ok
    OBVIOUS
  <2>3. CASE c = e /\ d # e
    <3>1. es[d].who = fs[d].who
      BY <2>2, <2>3 DEF Extends
    <3>2. es[d].who # fs[e].who
      BY <2>2, <2>3 DEF Unknown
    <3> QED
      BY <2>3, <3>1, <3>2
  <2>4. CASE d = e /\ c # e
    <3>1. es[c].who = fs[c].who
      BY <2>1, <2>4 DEF Extends
    <3>2. es[c].who # fs[e].who
      BY <2>1, <2>4 DEF Unknown
    <3> QED
      BY <2>4, <3>1, <3>2
  <2>5. CASE c # e /\ d # e
    <3>1. es[c].who = fs[c].who /\ es[d].who = fs[d].who
      BY <2>1, <2>2, <2>5 DEF Extends
    <3>2. Once(es, ls, ok)
      BY DEF Registered
    <3> QED
      BY <2>1, <2>2, <2>5, <3>1, <3>2 DEF Once
  <2> QED
    BY <2>3, <2>4, <2>5
<1> QED
  BY <1>1 DEF Registered

\* A new entry was appended: what stood stands.
LEMMA AppendedRegistered ==
  ASSUME Marks, NEW ls, NEW st, NEW new \in Entry, Base(entries, ls, st),
         Len(entries) < MaxEntries, Registered(entries, ls, Ok, standing),
         Unknown(entries, ls, Ok, new.who),
         Appended(new, ls, st), UNCHANGED <<alive, cleared, expired>>
  PROVE  Registered(entries', lists', Ok', standing')
<1> DEFINE t == new.type
           e == Len(entries) + 1
<1>1. /\ EntriesOK(entries) /\ ListsOK(entries, ls) /\ ls \in [Type -> Arrays] /\ t \in Type
  BY DEF Base, ListsOK, Entry
<1>2. entries' = Append(entries, new) /\ HasRoom(ls[t], t)
  BY DEF Appended
<1>3. /\ Extends(entries, entries') /\ e \in DOMAIN entries' /\ e \notin DOMAIN entries
      /\ entries'[e] = new
  BY <1>1, <1>2, Grows
<1>4. Ok' = Ok \cup (IF new.who \in alive THEN {e} ELSE {})
  BY <1>1, <1>2, OkGrows
<1>5. standing' = standing \cup (IF new.who \in alive THEN {e} ELSE {})
  BY DEF Appended, Accepted, NewId
<1>6. Elements(lists'[t]) = Elements(ls[t]) \cup {e} /\ SameBut(ls, lists', t)
  <2>1. PICK w \in Sortings(Append(entries, new), Append(ls[t], NewId)) :
          lists' = [ls EXCEPT ![t] = w]
    BY DEF Appended
  <2>2. Elements(w) = Elements(ls[t]) \cup {NewId}
    BY <1>1, <1>2, <2>1, AppendedLists
  <2>3. lists'[t] = w /\ \A u \in Type \ {t} : lists'[u] = ls[u]
    BY <1>1, <2>1
  <2> QED
    BY <2>2, <2>3 DEF NewId, SameBut
<1> HIDE DEF t, e
<1>7. Stands(entries', lists', Ok', standing')
  <2> SUFFICES ASSUME NEW d \in standing'
               PROVE  d \in Ok' /\ d \in Elements(lists'[entries'[d].type])
    BY DEF Stands
  <2>1. CASE d \in standing
    <3>1. d \in Ok /\ d \in Elements(ls[entries[d].type])
      BY <2>1 DEF Registered, Stands
    <3>2. d \in DOMAIN entries /\ entries'[d] = entries[d]
      BY <1>3, <3>1, OkFacts DEF Extends
    <3>3. entries[d].type \in Type
      BY <1>1, <3>2, EntryFacts
    <3> QED
      BY <1>4, <1>6, <3>1, <3>2, <3>3 DEF SameBut
  <2>2. CASE d \notin standing
    <3>1. d = e /\ new.who \in alive
      BY <1>5, <2>2
    <3> QED
      BY <1>3, <1>4, <1>6, <3>1 DEF t
  <2> QED
    BY <2>1, <2>2
<1>8. Unknown(entries, ls, Ok, entries'[e].who)
  BY <1>3
<1>9. \A u \in Type : Elements(lists'[u]) \subseteq Elements(ls[u]) \cup {e}
  BY <1>6 DEF SameBut
<1>10. Ok \subseteq Ok' /\ Ok' \subseteq Ok \cup {e} /\ Ok \subseteq DOMAIN entries
  BY <1>4, OkFacts
<1> QED
  BY <1>3, <1>7, <1>8, <1>9, <1>10, OneMore

\* A new entry replaced the last one: what stood stands, except for that one.
LEMMA OverwrittenRegistered ==
  ASSUME Marks, NEW ls, NEW st, NEW new \in Entry, Base(entries, ls, st),
         Len(entries) < MaxEntries, Registered(entries, ls, Ok, standing),
         Unknown(entries, ls, Ok, new.who),
         Superseded(new, ls, st) \/ NobodyToTell(new, ls), UNCHANGED <<alive, cleared, expired>>
  PROVE  Registered(entries', lists', Ok', standing')
<1> DEFINE t == new.type
           e == Len(entries) + 1
           last == LastOf(ls, t)
<1>1. /\ EntriesOK(entries) /\ ListsOK(entries, ls) /\ ls \in [Type -> Arrays] /\ t \in Type
  BY DEF Base, ListsOK, Entry
<1>2. /\ entries' = Append(entries, new) /\ ~HasRoom(ls[t], t) /\ LastOf(ls, t) # None
      /\ lists' = [ls EXCEPT ![t] = [ls[t] EXCEPT ![Len(ls[t])] = e]]
  BY DEF Superseded, NobodyToTell, Overwritten, NewId
<1>3. /\ Extends(entries, entries') /\ e \in DOMAIN entries' /\ e \notin DOMAIN entries
      /\ entries'[e] = new
  BY <1>1, <1>2, Grows
<1>4. Ok' = Ok \cup (IF new.who \in alive THEN {e} ELSE {})
  BY <1>1, <1>2, OkGrows
<1>5. \A d \in standing' : d \in standing \ {last} \/ (d = e /\ new.who \in alive)
  <2>1. CASE Superseded(new, ls, st)
    BY <2>1 DEF Superseded, Accepted, NewId
  <2>2. CASE NobodyToTell(new, ls)
    <3>1. ~HasClosure(last) /\ standing' = standing
      BY <2>2 DEF NobodyToTell
    <3>2. last \notin standing
      BY <3>1, OkFacts DEF Registered, Stands, Valid
    <3> QED
      BY <3>1, <3>2
  <2> QED
    BY <2>1, <2>2
<1>6. /\ Elements(lists'[t]) \subseteq Elements(ls[t]) \cup {e}
      /\ Elements(ls[t]) \ {last} \subseteq Elements(lists'[t])
      /\ e \in Elements(lists'[t]) /\ SameBut(ls, lists', t)
  <2> DEFINE w == [ls[t] EXCEPT ![Len(ls[t])] = e]
  <2>1. lists'[t] = w /\ \A u \in Type \ {t} : lists'[u] = ls[u]
    BY <1>1, <1>2
  <2>2. w = [ls[t] EXCEPT ![Len(ls[t])] = NewId]
    BY DEF NewId
  <2>3. /\ Len(ls[t]) \in DOMAIN ls[t] /\ DOMAIN w = DOMAIN ls[t]
        /\ Len(w) \in DOMAIN w /\ w[Len(w)] = NewId
        /\ \A j \in DOMAIN w : j # Len(w) => w[j] = ls[t][j]
        /\ Len(w) = Len(ls[t])
    <3> HIDE DEF w
    <3>1. /\ ls[t] # <<>> /\ Len(ls[t]) \in DOMAIN ls[t] /\ DOMAIN w = DOMAIN ls[t]
          /\ w[Len(w)] = NewId /\ \A j \in DOMAIN w : j # Len(w) => w[j] = ls[t][j]
          /\ ListOK(Append(entries, new), w, t)
      BY <1>1, <1>2, <2>2, OverwrittenLists
    <3>2. DOMAIN w = 1 .. Len(w) /\ Len(w) \in Nat /\ DOMAIN ls[t] = 1 .. Len(ls[t]) /\ Len(ls[t]) \in Nat
      BY <1>1, <3>1, ArrayFacts DEF ListOK
    <3>3. Len(w) = Len(ls[t])
      <4>1. 1 .. Len(w) = 1 .. Len(ls[t])
        BY <3>1, <3>2
      <4> HIDE DEF t
      <4> QED
        BY <3>2, <4>1
    <3> QED
      BY <3>1, <3>3
  <2> HIDE DEF w
  <2>4. Elements(w) \subseteq Elements(ls[t]) \cup {e}
    BY <2>3 DEF Elements, NewId
  <2>5. Elements(ls[t]) \ {last} \subseteq Elements(w)
    BY <2>3 DEF Elements, LastOf
  <2>6. e \in Elements(w)
    BY <2>3 DEF Elements, NewId
  <2> QED
    BY <2>1, <2>4, <2>5, <2>6 DEF SameBut
<1> HIDE DEF t, e, last
<1>7. Stands(entries', lists', Ok', standing')
  <2> SUFFICES ASSUME NEW d \in standing'
               PROVE  d \in Ok' /\ d \in Elements(lists'[entries'[d].type])
    BY DEF Stands
  <2>1. CASE d \in standing \ {last}
    <3>1. d \in Ok /\ d \in Elements(ls[entries[d].type])
      BY <2>1 DEF Registered, Stands
    <3>2. d \in DOMAIN entries /\ entries'[d] = entries[d]
      BY <1>3, <3>1, OkFacts DEF Extends
    <3>3. entries[d].type \in Type
      BY <1>1, <3>2, EntryFacts
    <3> QED
      BY <1>4, <1>6, <2>1, <3>1, <3>2, <3>3 DEF SameBut
  <2>2. CASE d = e /\ new.who \in alive
    BY <1>3, <1>4, <1>6, <2>2 DEF t
  <2> QED
    BY <1>5, <2>1, <2>2
<1>8. Unknown(entries, ls, Ok, entries'[e].who)
  BY <1>3
<1>9. \A u \in Type : Elements(lists'[u]) \subseteq Elements(ls[u]) \cup {e}
  BY <1>6 DEF SameBut
<1>10. Ok \subseteq Ok' /\ Ok' \subseteq Ok \cup {e} /\ Ok \subseteq DOMAIN entries
  BY <1>4, OkFacts
<1> QED
  BY <1>3, <1>7, <1>8, <1>9, <1>10, OneMore

\* A registration keeps the invariant, if its closure was not known and nobody
\* else was asked about or told of one.
LEMMA InsertModest ==
  ASSUME Marks, NEW ls, NEW st, NEW new \in Entry, Base(entries, ls, st),
         Len(entries) < MaxEntries, Registered(entries, ls, Ok, standing),
         NoneAsked(st), Unknown(entries, ls, Ok, new.who),
         Insert(new, ls, st), UNCHANGED <<alive, cleared, expired>>
  PROVE  ModestInv'
<1>1. /\ EntriesOK(entries) /\ ls \in [Type -> Arrays] /\ new.type \in Type
      /\ st \in Seq(Frame) /\ ls[new.type] \in Arrays
      /\ FramesOK(entries, ls, st)
  BY DEF Base, ListsOK, StackOK, FramesOK, Entry
<1>2. CASE Appended(new, ls, st)
  <2>1. Registered(entries', lists', Ok', standing')
    BY <1>2, AppendedRegistered
  <2>2. NoneAsked(stack')
    <3>1. stack' = Detached(st, new.type) /\ DOMAIN stack' = DOMAIN st
      BY <1>2 DEF Appended, Detached
    <3>2. \A i \in DOMAIN st : stack'[i].fn = st[i].fn
      <4>1. Extends(entries, entries) /\ SameBut(ls, ls, new.type)
        BY DEF Extends, SameBut
      <4> QED
        BY <1>1, <3>1, <4>1, DetachedFrame DEF Same
    <3> QED
      BY <3>1, <3>2, SameAsked
  <2> QED
    BY <2>1, <2>2, NoQuestions DEF ModestInv
<1>3. CASE Superseded(new, ls, st)
  <2>1. Registered(entries', lists', Ok', standing')
    BY <1>3, OverwrittenRegistered
  <2> DEFINE p == WithLast(st, new.type, NewId)
             f == [fn |-> "superseded", type |-> new.type, vec |-> lists'[new.type],
                   live |-> TRUE, entry |-> NewId]
  <2>2. stack' = Append(p, f)
    BY <1>3 DEF Superseded
  <2>3. DOMAIN p = DOMAIN st /\ \A i \in DOMAIN st : p[i].fn = st[i].fn
    BY DEF WithLast
  <2>4. NoneAsked(p)
    <3> HIDE DEF p
    <3> QED
      BY <2>3, SameAsked
  <2>5. f.fn = "superseded" /\ f.live = TRUE
    OBVIOUS
  <2>6. Len(p) = Len(st) /\ DOMAIN p = 1 .. Len(st) /\ Len(st) \in Nat
    <3>1. DOMAIN st = 1 .. Len(st) /\ Len(st) \in Nat
      BY <1>1, LenProperties
    <3>2. p = [i \in 1 .. Len(st) |-> p[i]]
      BY <3>1 DEF WithLast
    <3> HIDE DEF p
    <3> QED
      BY <3>1, <3>2
  <2> HIDE DEF p, f
  <2>7. /\ DOMAIN stack' = 1 .. Len(p) + 1 /\ stack'[Len(p) + 1] = f /\ Len(stack') = Len(p) + 1
        /\ \A i \in 1 .. Len(p) : stack'[i] = p[i]
    <3>1. Base(entries', lists', stack')
      BY <1>3, InsertBase
    <3>2. stack' \in Seq(Frame)
      BY <3>1 DEF Base, StackOK
    <3> QED
      BY <2>2, <2>6
  <2>8. \A i \in DOMAIN stack' : i # Len(p) + 1 => stack'[i].fn \notin Asked
    BY <2>4, <2>6, <2>7 DEF NoneAsked
  <2>9. AskedOnTop(stack')
    BY <2>7, <2>8 DEF AskedOnTop
  <2>10. AskedFor(entries', lists', stack', Ok')
    BY <2>5, <2>7, <2>8 DEF AskedFor, Asked
  <2>11. Replacing(lists', stack')
    BY <2>5, <2>7, <2>8 DEF Replacing, Asked
  <2> QED
    BY <2>1, <2>9, <2>10, <2>11 DEF ModestInv, Questions
<1>4. CASE NobodyToTell(new, ls)
  <2>1. Registered(entries', lists', Ok', standing')
    BY <1>4, OverwrittenRegistered
  <2>2. NoneAsked(stack')
    BY <1>4, EmptyStack DEF NobodyToTell
  <2> QED
    BY <2>1, <2>2, NoQuestions DEF ModestInv
<1>5. CASE NotRegistered(ls, st)
  <2>1. UNCHANGED <<entries, standing>> /\ lists' = ls /\ Ok' = Ok
    BY <1>5 DEF NotRegistered, Ok, Valid, HasClosure
  <2>2. NoneAsked(stack')
    BY <1>5, EmptyStack DEF NotRegistered
  <2> QED
    BY <2>1, <2>2, NoQuestions DEF ModestInv
<1> QED
  BY <1>1, <1>2, <1>3, <1>4, <1>5, InsertCases

\* What is unchanged when the entries are.
LEMMA OkSame ==
  ASSUME UNCHANGED <<alive, entries, cleared, expired>>
  PROVE  Ok' = Ok
BY DEF Ok, Valid, HasClosure

\* The step that only changes frames, and leaves no question.
LEMMA CallbackModest ==
  ASSUME ModestInv, NoneAsked(stack'),
         UNCHANGED <<alive, entries, cleared, expired, lists, standing>>
  PROVE  ModestInv'
BY OkSame, NoQuestions DEF ModestInv

\* A closure hookConsumerInfo() does not find is not known.
LEMMA InfoUnknown ==
  ASSUME NEW ls, NEW c, Info(ls, c) = {}
  PROVE  Unknown(entries, ls, Ok, c)
<1> SUFFICES ASSUME NEW t \in Type, NEW e \in Elements(ls[t]) \cap Ok, entries[e].who = c
             PROVE  FALSE
  BY DEF Unknown
<1>1. Valid(e)
  BY OkFacts
<1>2. e \in Info(ls, c)
  BY <1>1 DEF Info
<1> QED
  BY <1>2

LEMMA RegisterModest ==
  ASSUME Modest, Inv, ModestInv, NEW new \in Entry, Register(new)
  PROVE  ModestInv'
<1>1. /\ Base(entries, lists, stack) /\ Marks /\ UNCHANGED <<alive, cleared, expired, cleanup>>
      /\ May("register") /\ Len(entries) < MaxEntries
  BY DEF Inv, Register
<1>2. NoneAsked(stack)
  BY <1>1, MayNotBeAsked, NoneGoingOn
<1>3. Registered(entries, lists, Ok, standing)
  BY DEF ModestInv
<1> DEFINE ks == CleanedLists
           p == Cleaned(stack)
<1>4. /\ Base(entries, ks, p) /\ DOMAIN p = DOMAIN stack /\ Registered(entries, ks, Ok, standing)
  BY <1>1, <1>3, CleanBase, CleanRegistered
<1>5. NoneAsked(p)
  <2>1. \A i \in DOMAIN stack : p[i].fn = stack[i].fn
    <3> TAKE i \in DOMAIN stack
    <3>1. Same(stack[i], p[i])
      BY <1>1, CleanedFrame DEF Base
    <3> QED
      BY <3>1 DEF Same
  <2> HIDE DEF p
  <2> QED
    BY <1>2, <1>4, <2>1, SameAsked
<1> HIDE DEF ks, p
<1>6. CASE stack' = <<>> /\ UNCHANGED <<entries, lists, standing>>
  BY <1>1, <1>6, EmptyStack, CallbackModest
<1>7. CASE lists' = ks /\ stack' = p /\ UNCHANGED <<entries, standing>>
  BY <1>1, <1>4, <1>5, <1>7, OkSame, NoQuestions DEF ModestInv
<1>8. CASE /\ lists' = ks /\ stack' = Append(p, Asking(new, ks[Surveyor]))
           /\ UNCHANGED <<entries, standing>> /\ Info(ks, new.who) = {}
  <2> DEFINE f == Asking(new, ks[Surveyor])
  <2>1. f \in Frame /\ f.fn = "register" /\ f.new = new
    <3>1. FrameOK(entries, ks, f)
      BY <1>4, AskingOK DEF Base
    <3> QED
      BY <3>1 DEF FrameOK, Asking
  <2> HIDE DEF f
  <2>2. p \in Seq(Frame)
    BY <1>4 DEF Base, StackOK
  <2>3. stack' = Append(p, f)
    BY <1>8 DEF f
  <2>4. /\ AskedOnTop(stack')
        /\ DOMAIN stack' = 1 .. Len(p) + 1 /\ stack'[Len(p) + 1] = f
        /\ \A i \in DOMAIN stack' : i # Len(p) + 1 => stack'[i].fn \notin Asked
    BY <1>5, <2>1, <2>2, <2>3, PushAsked
  <2>5. Unknown(entries, ks, Ok, new.who)
    BY <1>8, InfoUnknown
  <2>6. AskedFor(entries, ks, stack', Ok)
    BY <2>1, <2>4, <2>5 DEF AskedFor, Asked
  <2>7. Replacing(ks, stack')
    BY <2>1, <2>4 DEF Replacing, Asked
  <2> QED
    BY <1>1, <1>4, <1>8, <2>4, <2>6, <2>7, OkSame DEF ModestInv, Questions
<1>9. CASE Insert(new, ks, p) /\ Info(ks, new.who) = {}
  BY <1>1, <1>4, <1>5, <1>9, InsertModest, InfoUnknown
<1> QED
  BY <1>6, <1>7, <1>8, <1>9 DEF Register, Abort, Asking, ks, p

LEMMA RegisterReturnModest ==
  ASSUME Inv, ModestInv, NEW ok \in BOOLEAN, RegisterReturn(ok)
  PROVE  ModestInv'
<1>1. /\ Base(entries, lists, stack) /\ Marks /\ UNCHANGED <<alive, cleared, expired, cleanup>>
      /\ stack # <<>> /\ Top.fn = "register"
      /\ Registered(entries, lists, Ok, standing) /\ Questions(entries, lists, stack, Ok)
  BY DEF Inv, RegisterReturn, ModestInv
<1>2. /\ FrameOK(entries, lists, Top) /\ Base(entries, lists, Below)
      /\ Len(stack) \in Nat \ {0} /\ DOMAIN stack = 1 .. Len(stack)
  BY <1>1, TopFacts DEF Base
<1>3. Top.new \in Entry /\ Top.vec \in Arrays /\ Top.pos \in Nat
  BY <1>1, <1>2, FrameFacts DEF FrameOK
<1>4. NoneAsked(Below)
  BY <1>1, NoneBelow
<1>5. Unknown(entries, lists, Ok, Top.new.who)
  <2>1. Len(stack) \in DOMAIN stack
    BY <1>2
  <2> QED
    BY <1>1, <2>1 DEF Questions, AskedFor, Top
<1>6. CASE stack' \in {Below, <<>>} /\ UNCHANGED <<entries, lists, standing>>
  BY <1>1, <1>4, <1>6, EmptyStack, CallbackModest
<1>7. CASE Len(entries) < MaxEntries /\ Insert(Top.new, lists, Below)
  BY <1>1, <1>2, <1>3, <1>4, <1>5, <1>7, InsertModest
<1>8. CASE /\ Stops(Top.vec, Top.pos) # {}
           /\ stack' = [stack EXCEPT ![Len(stack)].pos = Stop(Top.vec, Top.pos)]
           /\ UNCHANGED <<entries, lists, standing>>
  <2>1. Stop(Top.vec, Top.pos) \in Nat
    BY <1>3, <1>8, StopFacts
  <2>2. /\ DOMAIN stack' = DOMAIN stack /\ Len(stack') = Len(stack)
        /\ \A i \in DOMAIN stack :
             /\ stack'[i].fn = stack[i].fn /\ stack'[i].type = stack[i].type
             /\ stack'[i].vec = stack[i].vec /\ stack'[i].live = stack[i].live
             /\ stack[i].fn = "register" => stack'[i].new = stack[i].new
    BY <1>1, <1>8, <2>1, TopWithPos DEF Base
  <2>3. AskedOnTop(stack')
    BY <1>1, <2>2 DEF Questions, AskedOnTop
  <2>4. AskedFor(entries, lists, stack', Ok)
    BY <1>1, <2>2 DEF Questions, AskedFor
  <2>5. Replacing(lists, stack')
    BY <1>1, <2>2 DEF Questions, Replacing
  <2> QED
    BY <1>1, <1>8, <2>3, <2>4, <2>5, OkSame DEF ModestInv, Questions
<1> QED
  BY <1>6, <1>7, <1>8 DEF RegisterReturn, Abort

\* The array that superseded consumers leave is put in the place of one with
\* the same elements.
LEMMA SupersededReturnModest ==
  ASSUME Inv, ModestInv, SupersededReturn
  PROVE  ModestInv'
<1>1. /\ Base(entries, lists, stack) /\ Marks
      /\ UNCHANGED <<alive, cleared, expired, cleanup, entries, standing>>
      /\ stack # <<>> /\ Top.fn = "superseded"
      /\ Registered(entries, lists, Ok, standing) /\ Questions(entries, lists, stack, Ok)
  BY DEF Inv, SupersededReturn, ModestInv
<1>2. /\ FrameOK(entries, lists, Top) /\ StackOK(entries, lists, Below) /\ ListsOK(entries, lists)
      /\ Len(stack) \in DOMAIN stack
  BY <1>1, TopFacts DEF Base
<1> DEFINE t == Top.type
<1>3. t \in Type /\ Top.vec \in Arrays /\ Len(Top.vec) \in Nat \ {0}
  <2>1. t \in Type /\ Top.vec \in Arrays /\ Len(Top.vec) = MaxCount[t]
    BY <1>1, <1>2, FrameFacts DEF FrameOK
  <2> QED
    BY <2>1, ConstantsAssumption
<1>4. \/ Top.vec = lists[t]
      \/ None \in Elements(Top.vec) /\ (Len(Top.vec) = 1 => Elements(lists[t]) = {})
  <2>1. \/ Top.live
        \/ None \in Elements(Top.vec) /\ (Len(Top.vec) = 1 => Elements(lists[t]) = {})
    BY <1>1, <1>2 DEF Questions, Replacing, Top
  <2> QED
    BY <1>2, <2>1 DEF FrameOK
<1> HIDE DEF t
<1>5. CASE stack' = <<>> /\ lists' = lists
  BY <1>1, <1>5, EmptyStack, CallbackModest
<1>6. CASE /\ ~(None \in Elements(Top.vec) /\ Len(Top.vec) > 1)
           /\ \E w \in Sortings(entries, Top.vec) : lists' = [lists EXCEPT ![t] = w]
           /\ stack' = Detached(Below, t)
  <2>1. PICK w \in Sortings(entries, Top.vec) : lists' = [lists EXCEPT ![t] = w]
    BY <1>6
  <2>2. Elements(w) = Elements(Top.vec)
    BY <1>3, SortingFacts
  <2>3. lists'[t] = w /\ SameBut(lists, lists', t)
    BY <1>2, <1>3, <2>1 DEF ListsOK, SameBut
  <2>4. Elements(lists'[t]) \cap Ok = Elements(lists[t]) \cap Ok
    <3>1. CASE Top.vec = lists[t]
      BY <2>2, <2>3, <3>1
    <3>2. CASE None \in Elements(Top.vec) /\ (Len(Top.vec) = 1 => Elements(lists[t]) = {})
      <4>0. ~(Len(Top.vec) > 1)
        BY <1>6, <3>2
      <4> DEFINE n == Len(Top.vec)
      <4>1. n = 1 /\ Elements(lists[t]) = {}
        <5>1. n \in Nat \ {0} /\ ~(n > 1)
          BY <1>3, <4>0
        <5> HIDE DEF n
        <5>2. n = 1
          BY <5>1
        <5> QED
          BY <3>2, <5>2 DEF n
      <4>2. DOMAIN Top.vec = 1 .. 1
        BY <1>3, <4>1, ArrayFacts
      <4>3. \A i, j \in DOMAIN Top.vec : i = j
        BY <4>2
      <4>4. Elements(Top.vec) = {None}
        BY <3>2, <4>3 DEF Elements
      <4> QED
        BY <2>2, <2>3, <4>1, <4>4, OkFacts
    <3> QED
      BY <1>4, <3>1, <3>2
  <2>5. \A u \in Type : Elements(lists'[u]) \cap Ok = Elements(lists[u]) \cap Ok
    BY <2>3, <2>4 DEF SameBut
  <2>6. Stands(entries, lists', Ok, standing)
    <3> SUFFICES ASSUME NEW e \in standing
                 PROVE  e \in Ok /\ e \in Elements(lists'[entries[e].type])
      BY DEF Stands
    <3>1. e \in Ok /\ e \in Elements(lists[entries[e].type])
      BY <1>1 DEF Registered, Stands
    <3>2. entries[e].type \in Type
      BY <1>1, <3>1, OkFacts, EntryFacts DEF Base
    <3> QED
      BY <2>5, <3>1, <3>2
  <2>7. Registered(entries, lists', Ok, standing)
    BY <1>1, <2>5, <2>6, Smaller
  <2>8. NoneAsked(stack')
    <3>1. NoneAsked(Below)
      BY <1>1, NoneBelow
    <3>2. Extends(entries, entries) /\ FramesOK(entries, lists, Below) /\ SameBut(lists, lists, t)
      BY <1>2 DEF Extends, FramesOK, StackOK, SameBut
    <3>3. \A i \in DOMAIN Below : stack'[i].fn = Below[i].fn
      <4> TAKE i \in DOMAIN Below
      <4>1. Same(Below[i], Detached(Below, t)[i])
        BY <1>3, <3>2, DetachedFrame
      <4> QED
        BY <1>6, <4>1 DEF Same
    <3>4. DOMAIN stack' = DOMAIN Below
      BY <1>6 DEF Detached
    <3> QED
      BY <3>1, <3>3, <3>4, SameAsked
  <2> QED
    BY <1>1, <2>7, <2>8, OkSame, NoQuestions DEF ModestInv
<1> QED
  BY <1>5, <1>6 DEF SupersededReturn, Abort, t

\* Steps after which fewer entries may be called.
LEMMA FewerModest ==
  ASSUME ModestInv, UNCHANGED <<entries, lists>>, stack' \in {stack, <<>>},
         Ok' \subseteq Ok, standing' \subseteq standing, standing' \subseteq Ok'
  PROVE  ModestInv'
<1>1. Registered(entries, lists, Ok', standing') /\ Questions(entries, lists, stack, Ok')
  BY Fewer DEF ModestInv
<1>2. CASE stack' = stack
  BY <1>1, <1>2 DEF ModestInv
<1>3. CASE stack' = <<>>
  BY <1>1, <1>3, EmptyStack, NoQuestions DEF ModestInv
<1> QED
  BY <1>2, <1>3

LEMMA UnregisterModest ==
  ASSUME ModestInv, NEW c \in CONSUMER, Unregister(c)
  PROVE  ModestInv'
<1>1. UNCHANGED <<alive, entries, expired>>
  BY DEF Unregister
<1>2. CASE stack' = <<>> /\ UNCHANGED <<cleared, standing, lists>>
  BY <1>1, <1>2, EmptyStack, CallbackModest
<1>3. CASE \E e \in Info(lists, c) :
             /\ cleared' = cleared \cup {e} /\ standing' = standing \ {e}
             /\ UNCHANGED <<lists, stack>>
  <2>1. PICK e \in Info(lists, c) :
             /\ cleared' = cleared \cup {e} /\ standing' = standing \ {e}
             /\ UNCHANGED <<lists, stack>>
    BY <1>3
  <2>2. Ok' = Ok \ {e}
    BY <1>1, <2>1 DEF Ok, Valid, HasClosure
  <2>3. standing \subseteq Ok
    BY DEF ModestInv, Registered, Stands
  <2> QED
    BY <1>1, <2>1, <2>2, <2>3, FewerModest
<1> QED
  BY <1>2, <1>3 DEF Unregister, Abort, Drop

LEMMA DestructModest ==
  ASSUME ModestInv, NEW c \in CONSUMER, Destruct(c)
  PROVE  ModestInv'
<1>1. /\ UNCHANGED <<entries, cleared, expired, lists, cleanup, stack>>
      /\ alive' = alive \ {c} /\ standing' = {e \in standing : entries[e].who # c}
  BY DEF Destruct
<1>2. Ok' = {e \in Ok : entries[e].who # c}
  BY <1>1 DEF Ok, Valid, HasClosure
<1>3. standing \subseteq Ok
  BY DEF ModestInv, Registered, Stands
<1> QED
  BY <1>1, <1>2, <1>3, FewerModest

LEMMA ExpireModest ==
  ASSUME ModestInv, NEW e \in Ids, Expire(e)
  PROVE  ModestInv'
<1>1. /\ UNCHANGED <<alive, entries, cleared, lists, cleanup, stack>>
      /\ expired' = expired \cup {e} /\ standing' = standing \ {e}
  BY DEF Expire
<1>2. Ok' = Ok \ {e}
  BY <1>1 DEF Ok, Valid, HasClosure
<1>3. standing \subseteq Ok
  BY DEF ModestInv, Registered, Stands
<1> QED
  BY <1>1, <1>2, <1>3, FewerModest

LEMMA CallbackFailsModest ==
  ASSUME ModestInv, CallbackFails
  PROVE  ModestInv'
<1>1. /\ UNCHANGED <<alive, entries, cleared, expired, lists>>
      /\ stack' = <<>> /\ standing' \subseteq standing
  BY DEF CallbackFails, Abort
<1>2. Ok' = Ok
  BY <1>1, OkSame
<1>3. standing \subseteq Ok
  BY DEF ModestInv, Registered, Stands
<1> QED
  BY <1>1, <1>2, <1>3, FewerModest

LEMMA HHasConsumersModest ==
  ASSUME Inv, ModestInv, HHasConsumers
  PROVE  ModestInv'
<1>1. UNCHANGED <<alive, entries, cleared, expired, cleanup, standing>>
  BY DEF HHasConsumers
<1>2. CASE lists' = CleanedLists /\ stack' = Cleaned(stack)
  <2>1. /\ Registered(entries, CleanedLists, Ok, standing)
        /\ Questions(entries, CleanedLists, Cleaned(stack), Ok)
    BY CleanRegistered, CleanQuestions DEF Inv, ModestInv
  <2> QED
    BY <1>1, <1>2, <2>1, OkSame DEF ModestInv
<1>3. CASE stack' = <<>> /\ lists' = lists
  BY <1>1, <1>3, EmptyStack, CallbackModest
<1> QED
  BY <1>2, <1>3 DEF HHasConsumers, Abort

LEMMA CleanHookMappingModest ==
  ASSUME Inv, ModestInv, CleanHookMapping
  PROVE  ModestInv'
<1>1. UNCHANGED <<alive, entries, cleared, expired, stack, standing>> /\ stack = <<>>
  BY DEF CleanHookMapping
<1>2. Registered(entries, CleanedLists, Ok, standing)
  BY CleanRegistered DEF Inv, ModestInv
<1>3. lists' \in {lists, CleanedLists}
  BY DEF CleanHookMapping
<1>4. Registered(entries, lists', Ok, standing)
  BY <1>2, <1>3 DEF ModestInv
<1>5. NoneAsked(stack')
  BY <1>1, EmptyStack
<1> QED
  BY <1>1, <1>4, <1>5, OkSame, NoQuestions DEF ModestInv

\* A flow that goes on, or ends, asks nobody.
LEMMA AdvanceAsks ==
  ASSUME Inv, NEW f, FrameOK(entries, lists, f), f.fn = "flow",
         NEW st, StackOK(entries, lists, st), NoneAsked(st), Advance(f, st)
  PROVE  NoneAsked(stack')
<1>1. ListsOK(entries, lists) /\ EntriesOK(entries) /\ st \in Seq(Frame)
  BY DEF Inv, Base, StackOK
<1>2. CASE stack' = st
  BY <1>2
<1>3. CASE stack' = <<>>
  BY <1>3, EmptyStack
<1>4. CASE \E t \in Type : \E i \in Nat : WentOn(f, st, t, i)
  <2>1. PICK t \in Type, i \in Nat : WentOn(f, st, t, i)
    BY <1>4
  <2>2. FrameOK(entries, lists, Called(f, t, i)) /\ CalledFields(f, t, i)
    BY <1>1, <2>1, CalledFrame
  <2>3. Called(f, t, i) \in Frame /\ Called(f, t, i).fn = "flow"
    BY <2>2 DEF FrameOK, CalledFields
  <2>4. stack' = Append(st, Called(f, t, i))
    BY <2>1 DEF WentOn
  <2>5. Called(f, t, i).fn \notin Asked
    BY <2>3 DEF Asked
  <2> HIDE DEF Called
  <2> QED
    BY <1>1, <2>3, <2>4, <2>5, PushAsked
<1> QED
  BY <1>1, <1>2, <1>3, <1>4, AdvanceCases

LEMMA HookFlowModest ==
  ASSUME Modest, Inv, ModestInv, HookFlow
  PROVE  ModestInv'
<1>1. /\ UNCHANGED <<alive, entries, cleared, expired, lists, standing>>
      /\ May("flow") /\ Advance(Beginning, stack)
  BY DEF HookFlow, Beginning
<1>2. NoneAsked(stack)
  BY <1>1, MayNotBeAsked, NoneGoingOn
<1>3. FrameOK(entries, lists, Beginning) /\ Beginning.fn = "flow"
  BY BeginningOK DEF Beginning
<1>4. NoneAsked(stack')
  BY <1>1, <1>2, <1>3, AdvanceAsks DEF Inv, Base
<1> QED
  BY <1>1, <1>4, CallbackModest

LEMMA FlowReturnAsks ==
  ASSUME Modest, Inv, ModestInv, NEW ret, FlowReturn(ret)
  PROVE  NoneAsked(stack')
<1>1. /\ UNCHANGED <<alive, entries, cleared, expired, lists, standing>>
      /\ stack # <<>> /\ Top.fn = "flow" /\ Base(entries, lists, stack)
  BY DEF FlowReturn, Inv
<1>2. FrameOK(entries, lists, Top) /\ StackOK(entries, lists, Below) /\ ListsOK(entries, lists)
      /\ stack \in Seq(Frame)
  BY <1>1, TopFacts DEF Base, StackOK
<1>3. NoneAsked(stack) /\ NoneAsked(Below)
  BY <1>1, NoneGoingOn, NoneBelow DEF Asked
<1>4. NoneAsked(stack')
  <2>1. CASE stack' \in {Below, <<>>}
    BY <1>3, <2>1, EmptyStack
  <2>2. CASE Advance(Top, Below)
    BY <1>1, <1>2, <1>3, <2>2, AdvanceAsks
  <2> DEFINE v == lists[Surveyor]
  <2>3. CASE /\ Stops(v, 0) # {}
             /\ stack' = Append(stack, Allowing(v, Stop(v, 0), ret = "cancelled"))
    <3>1. v \in Arrays
      BY <1>2 DEF ListsOK, Type, Surveyor
    <3>2. Stop(v, 0) \in Nat
      BY <2>3, <3>1, StopFacts
    <3> DEFINE f == Allowing(v, Stop(v, 0), ret = "cancelled")
    <3>3. FrameOK(entries, lists, f)
      BY <1>2, <3>2, AllowingOK
    <3>4. f \in Frame /\ f.fn \notin Asked
      BY <3>3 DEF FrameOK, Allowing, Asked
    <3> HIDE DEF f
    <3>5. stack' = Append(stack, f)
      BY <2>3 DEF f
    <3> QED
      BY <1>2, <1>3, <3>4, <3>5, PushAsked
  <2> QED
    BY <2>1, <2>2, <2>3 DEF FlowReturn, Allowing, Abort
<1> QED
  BY <1>4

LEMMA AllowReturnAsks ==
  ASSUME Modest, Inv, ModestInv, NEW ok \in BOOLEAN, AllowReturn(ok)
  PROVE  NoneAsked(stack')
<1>1. /\ UNCHANGED <<alive, entries, cleared, expired, lists, standing>>
      /\ stack # <<>> /\ Top.fn = "allow" /\ StackOK(entries, lists, stack)
  BY DEF AllowReturn, Inv, Base
<1> DEFINE f == Below[Len(Below)]
           rest == SubSeq(Below, 1, Len(Below) - 1)
<1>2. /\ FrameOK(entries, lists, f) /\ f.fn = "flow" /\ StackOK(entries, lists, rest)
      /\ DOMAIN rest = 1 .. Len(stack) - 2 /\ Len(stack) > 1
      /\ \A i \in DOMAIN rest : rest[i] = stack[i]
  BY <1>1, AskingFlow
<1>3. NoneAsked(stack)
  BY <1>1, NoneGoingOn DEF Asked
<1> HIDE DEF f, rest
<1>4. DOMAIN stack = 1 .. Len(stack) /\ Len(stack) \in Nat
  BY <1>1, TopFacts
<1>5. NoneAsked(rest)
  BY <1>2, <1>3, <1>4 DEF NoneAsked
<1>6. NoneAsked(stack')
  <2>1. CASE stack' \in {rest, <<>>}
    BY <1>5, <2>1, EmptyStack
  <2>2. CASE Advance(f, rest)
    BY <1>2, <1>5, <2>2, AdvanceAsks
  <2>3. CASE /\ Stops(Top.vec, Top.pos) # {}
             /\ stack' = [stack EXCEPT ![Len(stack)].pos = Stop(Top.vec, Top.pos)]
    <3>1. Top.vec \in Arrays /\ Top.pos \in Nat
      BY <1>1, TopFacts, FrameFacts DEF FrameOK
    <3>2. Stop(Top.vec, Top.pos) \in Nat
      BY <2>3, <3>1, StopFacts
    <3>3. DOMAIN stack' = DOMAIN stack /\ \A i \in DOMAIN stack : stack'[i].fn = stack[i].fn
      BY <1>1, <2>3, <3>2, TopWithPos
    <3> QED
      BY <1>3, <3>3, SameAsked
  <2> QED
    BY <2>1, <2>2, <2>3 DEF AllowReturn, Abort, f, rest
<1> QED
  BY <1>6

LEMMA FlowReturnModest ==
  ASSUME Modest, Inv, ModestInv, NEW ret, FlowReturn(ret)
  PROVE  ModestInv'
BY FlowReturnAsks, CallbackModest DEF FlowReturn

LEMMA AllowReturnModest ==
  ASSUME Modest, Inv, ModestInv, NEW ok \in BOOLEAN, AllowReturn(ok)
  PROVE  ModestInv'
BY AllowReturnAsks, CallbackModest DEF AllowReturn

LEMMA InitModest == Init => ModestInv
<1> SUFFICES ASSUME Init PROVE ModestInv
  OBVIOUS
<1>1. entries = <<>> /\ standing = {} /\ stack = <<>> /\ lists = [t \in Type |-> <<>>]
  BY DEF Init
<1>2. Ok = {}
  BY <1>1 DEF Ok
<1>3. Registered(entries, lists, Ok, standing)
  BY <1>1, <1>2 DEF Registered, Stands, Once
<1> QED
  BY <1>1, <1>3, EmptyStack, NoQuestions DEF ModestInv

LEMMA NextModest == Modest /\ Inv /\ ModestInv /\ [Next]_vars => ModestInv'
<1> SUFFICES ASSUME Modest, Inv, ModestInv, [Next]_vars PROVE ModestInv'
  OBVIOUS
<1>1. CASE UNCHANGED vars
  BY <1>1, OkSame DEF vars, ModestInv
<1>2. ASSUME NEW c \in CONSUMER, NEW p \in Prios, NEW t \in Uses,
             Register([who |-> c, prio |-> p, type |-> t])
      PROVE  ModestInv'
  <2>1. [who |-> c, prio |-> p, type |-> t] \in Entry
    BY ConstantsAssumption DEF Entry
  <2> QED
    BY <1>2, <2>1, RegisterModest
<1>3. CASE \E ok \in BOOLEAN : RegisterReturn(ok) \/ AllowReturn(ok)
  BY <1>3, RegisterReturnModest, AllowReturnModest
<1>4. CASE SupersededReturn
  BY <1>4, SupersededReturnModest
<1>5. CASE \E c \in CONSUMER : Unregister(c) \/ Destruct(c)
  BY <1>5, UnregisterModest, DestructModest
<1>6. CASE \E e \in Ids : Expire(e)
  BY <1>6, ExpireModest
<1>7. CASE HHasConsumers
  BY <1>7, HHasConsumersModest
<1>8. CASE CleanHookMapping
  BY <1>8, CleanHookMappingModest
<1>9. CASE HookFlow
  BY <1>9, HookFlowModest
<1>10. CASE \E ret \in {"no_mod", "altered", "cancelled"} : FlowReturn(ret)
  BY <1>10, FlowReturnModest
<1>11. CASE CallbackFails
  BY <1>11, CallbackFailsModest
<1> QED
  BY <1>1, <1>2, <1>3, <1>4, <1>5, <1>6, <1>7, <1>8, <1>9, <1>10, <1>11 DEF Next

LEMMA ModestInvariant == Modest => (Spec => [](Inv /\ ModestInv))
<1> SUFFICES ASSUME Modest PROVE Spec => [](Inv /\ ModestInv)
  OBVIOUS
<1>1. Inv /\ ModestInv /\ [Next]_vars => ModestInv'
  BY NextModest
<1> QED
  BY <1>1, InitModest, Invariant, PTL DEF Spec

\* A closure is registered once, also when the surveyors are asked for a long
\* time and others come and go meanwhile, and when a superseded consumer
\* changes the hook before HRegisterToHook() sorts the array it has.
THEOREM ClosureRegisteredOnce == Modest => (Spec => []RegisteredOnce)
<1>1. Inv /\ ModestInv => RegisteredOnce
  <2> SUFFICES ASSUME Inv, ModestInv, NEW i \in Ids, NEW j \in Ids,
                      NEW t \in Type, i \in Elements(lists[t]), Valid(i),
                      NEW u \in Type, j \in Elements(lists[u]), Valid(j),
                      entries[i].who = entries[j].who
               PROVE  i = j
    BY DEF RegisteredOnce
  <2>1. Holds(entries, lists[t], t) /\ Holds(entries, lists[u], u)
    BY DEF Inv, Base, ListsOK, ListOK
  <2>2. i \in DOMAIN entries /\ j \in DOMAIN entries
    BY <2>1 DEF Holds, Elements, Valid
  <2>3. Once(entries, lists, Ok)
    BY DEF ModestInv, Registered
  <2> QED
    BY <2>2, <2>3 DEF Ok, Once
<1> QED
  BY <1>1, ModestInvariant, PTL

\* What HRegisterToHook() accepted stays in the array of its type until it is
\* unregistered, destructed, expired, or told of by superseded callbacks; no
\* interleaving of callbacks makes HRegisterToHook() or CleanHookMapping() lose
\* it.
THEOREM RegistrationsLast == Modest => (Spec => []RegistrationLasts)
<1>1. ModestInv => RegistrationLasts
  BY DEF ModestInv, Registered, Stands, RegistrationLasts
<1> QED
  BY <1>1, ModestInvariant, PTL
-----------------------------------------------------------------------------
(***************************************************************************)
(* Whom a flow misses: nobody, under the same condition.  Callbacks of the *)
(* flow may do anything, so that the array it goes on in may be the hook's *)
(* no longer; but what stands is in that array or in one still to come.    *)
(***************************************************************************)
\* Whoever was due and stands was called, is ahead in the array, or is of a type
\* that is still to come.
Ahead(es, f, sd) ==
  \A e \in f.due \cap sd :
    \/ e \in Elements(f.called)
    \/ es[e].type > f.type
    \/ \E j \in DOMAIN f.vec : j > f.pos /\ f.vec[j] = e

AheadFrames(es, st, sd) == \A i \in DOMAIN st : st[i].fn = "flow" => Ahead(es, st[i], sd)
AheadInv == AheadFrames(entries, stack, standing)

\* A flow whose array lost elements that do not stand.
LEMMA AheadOver ==
  ASSUME NEW es, NEW f, f.fn = "flow", Calling(es, f), NEW sd, Ahead(es, f, sd),
         NEW fs, Extends(es, fs), NEW remain, remain \cap DOMAIN es \subseteq sd,
         NEW g, Same(f, g), DOMAIN g.vec = DOMAIN f.vec,
         \A j \in DOMAIN f.vec : g.vec[j] = f.vec[j] \/ f.vec[j] \notin remain
  PROVE  Ahead(fs, g, remain)
<1>1. /\ f.due \subseteq DOMAIN es /\ g.due = f.due /\ g.called = f.called /\ g.pos = f.pos
      /\ g.type = f.type
  BY DEF Calling, Same
<1> SUFFICES ASSUME NEW e \in g.due \cap remain
             PROVE  \/ e \in Elements(g.called)
                    \/ fs[e].type > g.type
                    \/ \E j \in DOMAIN g.vec : j > g.pos /\ g.vec[j] = e
  BY DEF Ahead
<1>2. e \in f.due \cap sd /\ fs[e] = es[e]
  BY <1>1 DEF Extends
<1>3. CASE \E j \in DOMAIN f.vec : j > f.pos /\ f.vec[j] = e
  <2>1. PICK j \in DOMAIN f.vec : j > f.pos /\ f.vec[j] = e
    BY <1>3
  <2>2. g.vec[j] = e
    BY <2>1
  <2> QED
    BY <1>1, <2>1, <2>2
<1> QED
  BY <1>1, <1>2, <1>3 DEF Ahead

\* Frames that were changed so.
LEMMA AheadMapped ==
  ASSUME NEW es, NEW ls, NEW st, FramesOK(es, ls, st), NEW sd, AheadFrames(es, st, sd),
         NEW fs, Extends(es, fs), NEW remain, remain \cap DOMAIN es \subseteq sd,
         NEW p, DOMAIN p = DOMAIN st,
         \A i \in DOMAIN st :
           /\ Same(st[i], p[i]) /\ DOMAIN p[i].vec = DOMAIN st[i].vec
           /\ \A j \in DOMAIN st[i].vec :
                p[i].vec[j] = st[i].vec[j] \/ st[i].vec[j] \notin remain
  PROVE  AheadFrames(fs, p, remain)
<1> SUFFICES ASSUME NEW i \in DOMAIN st, p[i].fn = "flow"
             PROVE  Ahead(fs, p[i], remain)
  BY DEF AheadFrames
<1>1. st[i].fn = "flow" /\ Same(st[i], p[i])
  BY DEF Same
<1>2. Calling(es, st[i]) /\ Ahead(es, st[i], sd)
  BY <1>1 DEF FramesOK, FrameOK, AheadFrames
<1> QED
  BY <1>1, <1>2, AheadOver

\* One more frame.
LEMMA AheadPush ==
  ASSUME NEW es, NEW sd, NEW st \in Seq(Frame), AheadFrames(es, st, sd),
         NEW f, f.fn = "flow" => Ahead(es, f, sd)
  PROVE  AheadFrames(es, Append(st, f), sd)
<1> DEFINE p == Append(st, f)
<1>1. /\ DOMAIN p = 1 .. Len(st) + 1 /\ p[Len(st) + 1] = f /\ Len(st) \in Nat
      /\ DOMAIN st = 1 .. Len(st) /\ \A i \in 1 .. Len(st) : p[i] = st[i]
  OBVIOUS
<1> HIDE DEF p
<1> SUFFICES ASSUME NEW i \in DOMAIN p, p[i].fn = "flow"
             PROVE  Ahead(es, p[i], sd)
  BY DEF AheadFrames, p
<1>2. i = Len(st) + 1 \/ i \in DOMAIN st
  BY <1>1
<1> QED
  BY <1>1, <1>2 DEF AheadFrames

LEMMA NothingAhead ==
  ASSUME NEW es, NEW sd
  PROVE  AheadFrames(es, <<>>, sd)
BY DEF AheadFrames

\* The frames below.
LEMMA AheadBelow ==
  ASSUME AheadInv, StackOK(entries, lists, stack), stack # <<>>
  PROVE  /\ AheadFrames(entries, Below, standing)
         /\ Top.fn = "flow" => Ahead(entries, Top, standing)
<1>1. DOMAIN stack = 1 .. Len(stack) /\ DOMAIN Below = 1 .. Len(stack) - 1
      /\ Len(stack) \in Nat \ {0} /\ \A i \in DOMAIN Below : Below[i] = stack[i]
  BY TopFacts
<1>2. Len(stack) \in DOMAIN stack /\ \A i \in DOMAIN Below : i \in DOMAIN stack
  BY <1>1
<1> QED
  BY <1>1, <1>2 DEF AheadInv, AheadFrames, Top

\* What stands may be called, and was made.
LEMMA StandingFacts ==
  ASSUME ModestInv
  PROVE  standing \subseteq Ok /\ Ok \subseteq DOMAIN entries
BY OkFacts DEF ModestInv, Registered, Stands

\* Cleaning takes nobody out who stands.
LEMMA CleanAhead ==
  ASSUME Inv, ModestInv, AheadInv
  PROVE  AheadFrames(entries, Cleaned(stack), standing)
<1>1. Base(entries, lists, stack) /\ FramesOK(entries, lists, stack)
  BY DEF Inv, Base, StackOK, FramesOK
<1>2. DOMAIN Cleaned(stack) = DOMAIN stack
  BY <1>1, CleanBase
<1>3. Extends(entries, entries) /\ standing \cap DOMAIN entries \subseteq standing
  BY DEF Extends
<1>4. ASSUME NEW i \in DOMAIN stack
      PROVE  /\ Same(stack[i], Cleaned(stack)[i])
             /\ DOMAIN Cleaned(stack)[i].vec = DOMAIN stack[i].vec
             /\ \A j \in DOMAIN stack[i].vec :
                  Cleaned(stack)[i].vec[j] = stack[i].vec[j] \/ stack[i].vec[j] \notin standing
  <2> DEFINE f == stack[i]
             g == Cleaned(stack)[i]
  <2>1. FrameOK(entries, lists, f)
    BY <1>1 DEF FramesOK
  <2>2. Same(f, g) /\ (g = f \/ g.vec = Zeroed(f.vec))
    BY <1>1, CleanedFrame DEF Base
  <2> HIDE DEF f, g
  <2>3. f.vec \in Arrays /\ Holds(entries, f.vec, f.type) /\ Distinct(f.vec)
    BY <2>1, FrameFacts DEF FrameOK
  <2>4. CASE g = f
    BY <2>2, <2>4 DEF f, g
  <2>5. CASE g.vec = Zeroed(f.vec)
    <3>1. /\ DOMAIN Zeroed(f.vec) = DOMAIN f.vec
          /\ \A j \in DOMAIN f.vec :
               Zeroed(f.vec)[j] = IF Valid(f.vec[j]) THEN f.vec[j] ELSE None
      BY <2>3, ZeroedFacts
    <3>2. \A j \in DOMAIN f.vec : g.vec[j] = f.vec[j] \/ f.vec[j] \notin standing
      BY <2>5, <3>1, StandingFacts, OkFacts
    <3> QED
      BY <2>2, <2>5, <3>1, <3>2 DEF f, g
  <2> QED
    BY <2>2, <2>4, <2>5
<1> QED
  BY <1>1, <1>2, <1>3, <1>4, AheadMapped DEF AheadInv

\* A registration takes out at most one who is superseded by it.
LEMMA InsertAhead ==
  ASSUME Marks, NEW ls, NEW st, NEW new \in Entry, Base(entries, ls, st),
         Len(entries) < MaxEntries, AheadFrames(entries, st, standing), Insert(new, ls, st)
  PROVE  AheadInv'
<1> DEFINE t == new.type
           e == NewId
<1>1. /\ EntriesOK(entries) /\ ListsOK(entries, ls) /\ ls \in [Type -> Arrays] /\ t \in Type
      /\ FramesOK(entries, ls, st) /\ st \in Seq(Frame)
  BY DEF Base, ListsOK, StackOK, FramesOK, Entry
<1>2. LET fs == Append(entries, new)
      IN Extends(entries, fs) /\ e \in DOMAIN fs /\ e \notin DOMAIN entries
         /\ fs[e] = new /\ e \in Ids
  BY <1>1, Grows DEF NewId
<1>3. CASE Appended(new, ls, st)
  <2>1. /\ entries' = Append(entries, new) /\ stack' = Detached(st, t)
        /\ standing' \subseteq standing \cup {e}
    BY <1>3 DEF Appended, Accepted
  <2>2. standing' \cap DOMAIN entries \subseteq standing
    BY <1>2, <2>1
  <2>3. ASSUME NEW i \in DOMAIN st
        PROVE  Same(st[i], stack'[i]) /\ stack'[i].vec = st[i].vec
    <3>1. SameBut(ls, ls, t) /\ Extends(entries, entries)
      BY DEF SameBut, Extends
    <3> QED
      BY <1>1, <2>1, <3>1, DetachedFrame
  <2>4. DOMAIN stack' = DOMAIN st
    BY <2>1 DEF Detached
  <2> HIDE DEF e, t
  <2> QED
    BY <1>1, <1>2, <2>1, <2>2, <2>3, <2>4, AheadMapped DEF AheadInv
<1>4. CASE Superseded(new, ls, st)
  <2> DEFINE p == WithLast(st, t, e)
             f == [fn |-> "superseded", type |-> t, vec |-> lists'[t], live |-> TRUE,
                   entry |-> NewId]
             v == ls[t]
             w == [v EXCEPT ![Len(v)] = e]
             last == LastOf(ls, t)
  <2>1. /\ entries' = Append(entries, new) /\ stack' = Append(p, f)
        /\ standing' \subseteq (standing \ {last}) \cup {e}
        /\ lists' = [ls EXCEPT ![t] = w] /\ ~HasRoom(ls[t], t) /\ last # None
    BY <1>4 DEF Superseded, Overwritten, Accepted
  <2>2. /\ v # <<>> /\ Len(v) \in DOMAIN v /\ DOMAIN w = DOMAIN v
        /\ \A j \in DOMAIN v : j # Len(v) => w[j] = v[j]
    <3>1. /\ ls[t] # <<>> /\ Len(ls[t]) \in DOMAIN ls[t]
      BY <1>1, <2>1, OverwrittenLists
    <3> QED
      BY <3>1
  <2>3. lists'[t] = w /\ SameBut(ls, lists', t) /\ v \in Arrays
    BY <1>1, <2>1 DEF SameBut, ListsOK, ListOK
  <2>4. last \in DOMAIN entries /\ last = v[Len(v)]
    BY <1>1, <2>1, <2>2 DEF LastOf, Holds, ListsOK, ListOK
  <2>5. standing' \cap DOMAIN entries \subseteq standing /\ last \notin standing'
    BY <1>2, <2>1, <2>4
  <2>6. f.fn = "superseded"
    OBVIOUS
  <2>7. ASSUME NEW i \in DOMAIN st
        PROVE  /\ FrameOK(entries', lists', p[i]) /\ Same(st[i], p[i])
               /\ p[i].vec = IF st[i].live /\ st[i].type = t THEN lists'[t] ELSE st[i].vec
    <3>1. /\ e \in DOMAIN entries' /\ entries'[e].type = t /\ Extends(entries, entries')
          /\ e \in Ids /\ e \notin DOMAIN entries
          /\ ls[t] \in Arrays /\ ls[t] # <<>> /\ t \in Type /\ SameBut(ls, lists', t)
          /\ lists'[t] = [ls[t] EXCEPT ![Len(ls[t])] = e]
      BY <1>1, <1>2, <2>1, <2>2, <2>3
    <3> HIDE DEF e, t
    <3> QED
      BY <1>1, <3>1, WithLastFrame
  <2>8. DOMAIN p = DOMAIN st /\ p \in Seq(Frame)
    <3>1. DOMAIN st = 1 .. Len(st) /\ Len(st) \in Nat
      BY <1>1, LenProperties
    <3>2. p = [i \in 1 .. Len(st) |-> p[i]]
      BY <3>1 DEF WithLast
    <3>3. \A i \in DOMAIN st : p[i] \in Frame
      BY <2>7 DEF FrameOK
    <3> HIDE DEF p
    <3>4. p \in [1 .. Len(st) -> Frame]
      BY <3>1, <3>2, <3>3
    <3> QED
      BY <3>1, <3>4
  <2>9. ASSUME NEW i \in DOMAIN st
        PROVE  /\ Same(st[i], p[i]) /\ DOMAIN p[i].vec = DOMAIN st[i].vec
               /\ \A j \in DOMAIN st[i].vec :
                    p[i].vec[j] = st[i].vec[j] \/ st[i].vec[j] \notin standing'
    <3>1. /\ Same(st[i], p[i])
          /\ p[i].vec = IF st[i].live /\ st[i].type = t THEN lists'[t] ELSE st[i].vec
      BY <2>7
    <3> HIDE DEF p, w, v, e, last, t
    <3>2. CASE st[i].live /\ st[i].type = t
      <4>1. st[i].vec = v /\ p[i].vec = w
        BY <1>1, <2>3, <3>1, <3>2 DEF FramesOK, FrameOK, v
      <4> QED
        BY <2>2, <2>4, <2>5, <3>1, <4>1
    <3>3. CASE ~(st[i].live /\ st[i].type = t)
      BY <3>1, <3>3
    <3> QED
      BY <3>2, <3>3
  <2> HIDE DEF p, f, e, t
  <2>10. AheadFrames(entries', p, standing')
    BY <1>1, <1>2, <2>1, <2>5, <2>8, <2>9, AheadMapped
  <2> QED
    BY <2>1, <2>6, <2>8, <2>10, AheadPush DEF AheadInv
<1>5. CASE NobodyToTell(new, ls) \/ NotRegistered(ls, st)
  <2>1. stack' = <<>> \/ (stack' = st /\ UNCHANGED <<entries, standing>>)
    BY <1>5 DEF NobodyToTell, NotRegistered
  <2> QED
    BY <2>1, NothingAhead DEF AheadInv
<1> QED
  BY <1>1, <1>3, <1>4, <1>5, InsertCases

LEMMA RegisterAhead ==
  ASSUME Inv, ModestInv, AheadInv, NEW new \in Entry, Register(new)
  PROVE  AheadInv'
<1> DEFINE ks == CleanedLists
           p == Cleaned(stack)
<1>1. /\ Base(entries, ks, p) /\ Marks /\ p \in Seq(Frame) /\ Len(entries) < MaxEntries
      /\ AheadFrames(entries, p, standing)
  BY CleanBase, CleanAhead DEF Inv, Base, StackOK, Register
<1> HIDE DEF ks, p
<1>2. CASE stack' = <<>> /\ UNCHANGED <<entries, standing>>
  BY <1>2, NothingAhead DEF AheadInv
<1>3. CASE stack' = p /\ UNCHANGED <<entries, standing>>
  BY <1>1, <1>3 DEF AheadInv
<1>4. CASE stack' = Append(p, Asking(new, ks[Surveyor])) /\ UNCHANGED <<entries, standing>>
  <2>1. Asking(new, ks[Surveyor]).fn # "flow"
    BY DEF Asking
  <2> QED
    BY <1>1, <1>4, <2>1, AheadPush DEF AheadInv
<1>5. CASE Insert(new, ks, p)
  BY <1>1, <1>5, InsertAhead
<1> QED
  BY <1>2, <1>3, <1>4, <1>5 DEF Register, Abort, Asking, ks, p

\* The loop over the surveyors goes on; flows stay as they are.
LEMMA AskedAhead ==
  ASSUME AheadInv, StackOK(entries, lists, stack), stack # <<>>, Top.fn # "flow",
         NEW n \in Nat, stack' = [stack EXCEPT ![Len(stack)].pos = n],
         Top.fn \in {"register", "allow"}, UNCHANGED <<entries, standing>>
  PROVE  AheadInv'
<1>1. /\ DOMAIN stack' = DOMAIN stack
      /\ \A i \in DOMAIN stack :
           (i # Len(stack) => stack'[i] = stack[i]) /\ stack'[i].fn = stack[i].fn
  BY TopWithPos
<1> SUFFICES ASSUME NEW i \in DOMAIN stack, stack'[i].fn = "flow"
             PROVE  Ahead(entries, stack'[i], standing)
  BY <1>1 DEF AheadInv, AheadFrames
<1>2. i # Len(stack) /\ stack[i].fn = "flow"
  BY <1>1 DEF Top
<1> QED
  BY <1>1, <1>2 DEF AheadInv, AheadFrames

LEMMA RegisterReturnAhead ==
  ASSUME Inv, ModestInv, AheadInv, NEW ok \in BOOLEAN, RegisterReturn(ok)
  PROVE  AheadInv'
<1>1. /\ Base(entries, lists, stack) /\ Marks
      /\ stack # <<>> /\ Top.fn = "register" /\ StackOK(entries, lists, stack)
  BY DEF Inv, RegisterReturn, Base
<1>2. /\ FrameOK(entries, lists, Top) /\ Base(entries, lists, Below)
      /\ AheadFrames(entries, Below, standing)
  BY <1>1, TopFacts, AheadBelow DEF Base
<1>3. Top.new \in Entry /\ Top.vec \in Arrays /\ Top.pos \in Nat
  BY <1>1, <1>2, FrameFacts DEF FrameOK
<1>4. CASE stack' \in {Below, <<>>} /\ UNCHANGED <<entries, standing>>
  BY <1>2, <1>4, NothingAhead DEF AheadInv
<1>5. CASE Len(entries) < MaxEntries /\ Insert(Top.new, lists, Below)
  BY <1>1, <1>2, <1>3, <1>5, InsertAhead
<1>6. CASE /\ Stops(Top.vec, Top.pos) # {}
           /\ stack' = [stack EXCEPT ![Len(stack)].pos = Stop(Top.vec, Top.pos)]
           /\ UNCHANGED <<entries, standing>>
  <2>1. Stop(Top.vec, Top.pos) \in Nat
    BY <1>3, <1>6, StopFacts
  <2> QED
    BY <1>1, <1>6, <2>1, AskedAhead
<1> QED
  BY <1>4, <1>5, <1>6 DEF RegisterReturn, Abort

LEMMA SupersededReturnAhead ==
  ASSUME Inv, AheadInv, SupersededReturn
  PROVE  AheadInv'
<1>1. /\ StackOK(entries, lists, stack) /\ UNCHANGED <<entries, standing>> /\ stack # <<>>
      /\ stack' \in {<<>>, Detached(Below, Top.type)}
  BY DEF Inv, SupersededReturn, Base, Abort
<1>2. /\ StackOK(entries, lists, Below) /\ Top.type \in Type
      /\ AheadFrames(entries, Below, standing)
  BY <1>1, TopFacts, AheadBelow, FrameFacts DEF FrameOK
<1>3. FramesOK(entries, lists, Below) /\ Extends(entries, entries)
      /\ SameBut(lists, lists, Top.type) /\ standing \cap DOMAIN entries \subseteq standing
  BY <1>2 DEF StackOK, FramesOK, Extends, SameBut
<1>4. CASE stack' = Detached(Below, Top.type)
  <2>1. ASSUME NEW i \in DOMAIN Below
        PROVE  Same(Below[i], stack'[i]) /\ stack'[i].vec = Below[i].vec
    BY <1>2, <1>3, <1>4, DetachedFrame
  <2>2. DOMAIN stack' = DOMAIN Below
    BY <1>4 DEF Detached
  <2> QED
    BY <1>1, <1>2, <1>3, <2>1, <2>2, AheadMapped DEF AheadInv
<1> QED
  BY <1>1, <1>4, NothingAhead DEF AheadInv

\* Fewer entries stand.
LEMMA FewerAhead ==
  ASSUME AheadInv, UNCHANGED entries, stack' \in {stack, <<>>}, standing' \subseteq standing
  PROVE  AheadInv'
BY NothingAhead DEF AheadInv, AheadFrames, Ahead

LEMMA LeaveAhead ==
  ASSUME AheadInv,
         \/ \E c \in CONSUMER : Unregister(c) \/ Destruct(c)
         \/ \E e \in Ids : Expire(e)
         \/ CallbackFails
  PROVE  AheadInv'
<1>1. UNCHANGED entries /\ stack' \in {stack, <<>>} /\ standing' \subseteq standing
  BY DEF Unregister, Drop, Abort, Destruct, Expire, CallbackFails
<1> QED
  BY <1>1, FewerAhead

LEMMA CleaningAhead ==
  ASSUME Inv, ModestInv, AheadInv, HHasConsumers \/ CleanHookMapping
  PROVE  AheadInv'
<1>1. UNCHANGED <<entries, standing>> /\ stack' \in {<<>>, stack, Cleaned(stack)}
  BY DEF HHasConsumers, CleanHookMapping, Abort
<1> QED
  BY <1>1, CleanAhead, NothingAhead DEF AheadInv

\* A flow that goes on steps over nobody who may be called.
LEMMA CalledAhead ==
  ASSUME Inv, ModestInv, NEW f, FrameOK(entries, lists, f), f.fn = "flow",
         Ahead(entries, f, standing),
         NEW st, NEW t \in Type, NEW i \in Nat, WentOn(f, st, t, i)
  PROVE  Ahead(entries, Called(f, t, i), standing)
<1> DEFINE g == Called(f, t, i)
           v == ArrayOf(f, t)
<1>1. ListsOK(entries, lists) /\ EntriesOK(entries)
  BY DEF Inv, Base
<1>2. CalledFields(f, t, i)
  BY <1>1, CalledFrame
<1>3. /\ g.type = t /\ g.vec = v /\ g.pos = i /\ g.due = f.due
      /\ g.called = Append(f.called, v[i]) /\ f.called \in Seq(Ids) /\ v[i] \in Ids
      /\ f.type <= t /\ i \in DOMAIN v
  BY <1>2 DEF CalledFields
<1> HIDE DEF g
<1>4. Elements(g.called) = Elements(f.called) \cup {v[i]}
  <2>1. /\ DOMAIN g.called = 1 .. Len(f.called) + 1 /\ g.called[Len(f.called) + 1] = v[i]
        /\ \A k \in 1 .. Len(f.called) : g.called[k] = f.called[k]
        /\ DOMAIN f.called = 1 .. Len(f.called) /\ Len(f.called) \in Nat
    <3> HIDE DEF v
    <3> QED
      BY <1>3, AppendProperties, LenProperties
  <2> HIDE DEF v
  <2>2. DOMAIN g.called = DOMAIN f.called \cup {Len(f.called) + 1}
    BY <2>1
  <2>3. Elements(g.called) \subseteq Elements(f.called) \cup {v[i]}
    BY <2>1, <2>2 DEF Elements
  <2>4. Elements(f.called) \subseteq Elements(g.called)
    BY <2>1, <2>2 DEF Elements
  <2>5. v[i] \in Elements(g.called)
    BY <2>1, <2>2 DEF Elements
  <2> QED
    BY <2>3, <2>4, <2>5
<1>5. f.type \in Type /\ f.pos \in Nat /\ f.vec \in Arrays
  BY FrameFacts DEF FrameOK
<1>6. v \in Arrays /\ DOMAIN v = 1 .. Len(v) /\ Len(v) \in Nat
  <2>1. v \in Arrays
    BY <1>1, <1>3, ArrayOfFacts
  <2> QED
    BY <2>1, ArrayFacts
<1>7. \A u \in Type : f.type <= u /\ Stops(ArrayOf(f, u), From(f, u)) # {} => t <= u
  <2> SUFFICES ASSUME NEW u \in Type, f.type <= u, Stops(ArrayOf(f, u), From(f, u)) # {}
               PROVE  t <= u
    OBVIOUS
  <2>1. u \in f.type .. Listener
    BY <1>5 DEF Type, Listener
  <2>2. u \in Waiting(f)
    BY <2>1 DEF Waiting
  <2> QED
    BY <2>2 DEF WentOn
<1>8. \A j \in Stops(v, From(f, t)) : i <= j
  BY DEF WentOn
<1> SUFFICES ASSUME NEW e \in f.due \cap standing, e \notin Elements(g.called)
             PROVE  \/ entries[e].type > g.type
                    \/ \E j \in DOMAIN g.vec : j > g.pos /\ g.vec[j] = e
  BY <1>3 DEF Ahead, g
<1> DEFINE u == entries[e].type
<1>9. Valid(e) /\ e \in DOMAIN entries /\ e \in Elements(lists[u]) /\ u \in Type
  <2>1. e \in Ok /\ e \in Elements(lists[entries[e].type])
    BY DEF ModestInv, Registered, Stands
  <2> QED
    BY <1>1, <2>1, OkFacts, EntryFacts
<1>10. f.type <= u /\ \E j \in DOMAIN ArrayOf(f, u) : j > From(f, u) /\ ArrayOf(f, u)[j] = e
  <2>1. e \notin Elements(f.called)
    BY <1>4
  <2>2. u > f.type \/ \E j \in DOMAIN f.vec : j > f.pos /\ f.vec[j] = e
    BY <1>3, <2>1 DEF Ahead
  <2>3. CASE \E j \in DOMAIN f.vec : j > f.pos /\ f.vec[j] = e
    <3>1. u = f.type
      BY <1>9, <2>3, OkFacts DEF FrameOK, Holds, Valid
    <3>2. ArrayOf(f, u) = f.vec /\ From(f, u) = f.pos /\ f.type <= u
      BY <1>5, <3>1 DEF ArrayOf, From, Type
    <3> QED
      BY <2>3, <3>2
  <2>4. CASE u > f.type
    <3>1. u # f.type /\ f.type <= u
      BY <1>5, <1>9, <2>4 DEF Type
    <3>2. ArrayOf(f, u) = lists[u] /\ From(f, u) = 0
      BY <3>1 DEF ArrayOf, From
    <3>3. PICK j \in DOMAIN lists[u] : lists[u][j] = e
      BY <1>9 DEF Elements
    <3>4. j > 0
      BY <1>1, <1>9, ArrayFacts DEF ListsOK, ListOK
    <3> QED
      BY <3>1, <3>2, <3>3, <3>4
  <2> QED
    BY <2>2, <2>3, <2>4
<1>11. PICK j \in DOMAIN ArrayOf(f, u) : j > From(f, u) /\ ArrayOf(f, u)[j] = e
  BY <1>10
<1> HIDE DEF u
<1>12. j \in Stops(ArrayOf(f, u), From(f, u))
  BY <1>9, <1>11 DEF Stops
<1>13. t <= u
  BY <1>7, <1>9, <1>10, <1>12
<1>14. CASE u = t
  <2>1. j \in DOMAIN v /\ v[j] = e /\ i <= j
    BY <1>8, <1>11, <1>12, <1>14
  <2>2. j # i
    BY <1>4, <2>1
  <2>3. j > i
    BY <1>6, <2>1, <2>2
  <2> QED
    BY <1>3, <2>1, <2>3
<1>15. CASE u # t
  <2>1. u > t
    BY <1>9, <1>13, <1>15 DEF Type
  <2> QED
    BY <1>3, <2>1 DEF u
<1> QED
  BY <1>14, <1>15

LEMMA AdvanceAhead ==
  ASSUME Inv, ModestInv, NEW f, FrameOK(entries, lists, f), f.fn = "flow",
         Ahead(entries, f, standing), UNCHANGED <<entries, standing>>,
         NEW st \in Seq(Frame), AheadFrames(entries, st, standing), Advance(f, st)
  PROVE  AheadInv'
<1>1. ListsOK(entries, lists)
  BY DEF Inv, Base
<1>2. CASE stack' \in {st, <<>>}
  BY <1>2, NothingAhead DEF AheadInv
<1>3. CASE \E t \in Type : \E i \in Nat : WentOn(f, st, t, i)
  <2>1. PICK t \in Type, i \in Nat : WentOn(f, st, t, i)
    BY <1>3
  <2>2. Ahead(entries, Called(f, t, i), standing)
    BY <2>1, CalledAhead
  <2>3. stack' = Append(st, Called(f, t, i))
    BY <2>1 DEF WentOn
  <2> QED
    BY <2>2, <2>3, AheadPush DEF AheadInv
<1> QED
  BY <1>1, <1>2, <1>3, AdvanceCases

LEMMA HookFlowAhead ==
  ASSUME Inv, ModestInv, AheadInv, HookFlow
  PROVE  AheadInv'
<1>1. UNCHANGED <<entries, standing>> /\ Advance(Beginning, stack)
  BY DEF HookFlow, Beginning
<1>2. FrameOK(entries, lists, Beginning) /\ Beginning.fn = "flow" /\ stack \in Seq(Frame)
  BY BeginningOK DEF Beginning, Inv, Base, StackOK
<1>3. /\ Beginning.due = standing /\ Beginning.type = Surveyor
      /\ Beginning.vec = lists[Surveyor] /\ Beginning.pos = 0
  BY DEF Beginning
<1>4. Ahead(entries, Beginning, standing)
  <2> SUFFICES ASSUME NEW e \in standing
               PROVE  \/ entries[e].type > Surveyor
                      \/ \E j \in DOMAIN lists[Surveyor] : j > 0 /\ lists[Surveyor][j] = e
    BY <1>3 DEF Ahead
  <2> DEFINE t == entries[e].type
  <2>1. e \in Elements(lists[t]) /\ e \in DOMAIN entries
    BY StandingFacts DEF ModestInv, Registered, Stands
  <2>2. t \in Type
    BY <2>1, EntryFacts DEF Inv, Base
  <2> HIDE DEF t
  <2>3. CASE t = Surveyor
    <3>1. PICK j \in DOMAIN lists[Surveyor] : lists[Surveyor][j] = e
      BY <2>1, <2>3 DEF Elements
    <3>2. lists[Surveyor] \in Arrays
      BY <2>2, <2>3 DEF Inv, Base, ListsOK, ListOK
    <3>3. j > 0
      BY <3>2, ArrayFacts
    <3> QED
      BY <3>1, <3>3
  <2>4. CASE t # Surveyor
    BY <2>2, <2>4 DEF Type, Surveyor, t
  <2> QED
    BY <2>3, <2>4
<1> QED
  BY <1>1, <1>2, <1>4, AdvanceAhead DEF AheadInv

LEMMA FlowReturnAhead ==
  ASSUME Inv, ModestInv, AheadInv, NEW ret, FlowReturn(ret)
  PROVE  AheadInv'
<1>1. /\ UNCHANGED <<entries, standing>>
      /\ stack # <<>> /\ Top.fn = "flow" /\ StackOK(entries, lists, stack)
  BY DEF FlowReturn, Inv, Base
<1>2. /\ FrameOK(entries, lists, Top) /\ Below \in Seq(Frame) /\ stack \in Seq(Frame)
      /\ AheadFrames(entries, Below, standing) /\ Ahead(entries, Top, standing)
  BY <1>1, TopFacts, AheadBelow DEF StackOK
<1> DEFINE v == lists[Surveyor]
<1>3. CASE stack' \in {Below, <<>>}
  BY <1>1, <1>2, <1>3, NothingAhead DEF AheadInv
<1>4. CASE Advance(Top, Below)
  BY <1>1, <1>2, <1>4, AdvanceAhead
<1>5. CASE stack' = Append(stack, Allowing(v, Stop(v, 0), ret = "cancelled"))
  <2>1. Allowing(v, Stop(v, 0), ret = "cancelled").fn # "flow"
    BY DEF Allowing
  <2> QED
    BY <1>1, <1>2, <1>5, <2>1, AheadPush DEF AheadInv
<1> QED
  BY <1>3, <1>4, <1>5 DEF FlowReturn, Allowing, Abort

LEMMA AllowReturnAhead ==
  ASSUME Inv, ModestInv, AheadInv, NEW ok \in BOOLEAN, AllowReturn(ok)
  PROVE  AheadInv'
<1>1. /\ UNCHANGED <<entries, standing>>
      /\ stack # <<>> /\ Top.fn = "allow" /\ StackOK(entries, lists, stack)
  BY DEF AllowReturn, Inv, Base
<1> DEFINE f == Below[Len(Below)]
           rest == SubSeq(Below, 1, Len(Below) - 1)
<1>2. /\ FrameOK(entries, lists, f) /\ f.fn = "flow" /\ StackOK(entries, lists, rest)
      /\ f = stack[Len(stack) - 1]
      /\ DOMAIN rest = 1 .. Len(stack) - 2 /\ Len(stack) > 1
      /\ \A i \in DOMAIN rest : rest[i] = stack[i]
  BY <1>1, AskingFlow
<1> HIDE DEF f, rest
<1>3. DOMAIN stack = 1 .. Len(stack) /\ Len(stack) \in Nat
  BY <1>1, TopFacts
<1>4. AheadFrames(entries, rest, standing) /\ Ahead(entries, f, standing) /\ rest \in Seq(Frame)
  <2>1. \A i \in DOMAIN rest : i \in DOMAIN stack
    BY <1>2, <1>3
  <2>2. Len(stack) - 1 \in DOMAIN stack
    BY <1>2, <1>3
  <2> QED
    BY <1>2, <2>1, <2>2 DEF AheadInv, AheadFrames, StackOK
<1>5. CASE stack' \in {rest, <<>>}
  BY <1>1, <1>4, <1>5, NothingAhead DEF AheadInv
<1>6. CASE Advance(f, rest)
  BY <1>1, <1>2, <1>4, <1>6, AdvanceAhead
<1>7. CASE /\ Stops(Top.vec, Top.pos) # {}
           /\ stack' = [stack EXCEPT ![Len(stack)].pos = Stop(Top.vec, Top.pos)]
  <2>1. Top.vec \in Arrays /\ Top.pos \in Nat
    BY <1>1, TopFacts, FrameFacts DEF FrameOK
  <2>2. Stop(Top.vec, Top.pos) \in Nat
    BY <1>7, <2>1, StopFacts
  <2> QED
    BY <1>1, <1>7, <2>2, AskedAhead
<1> QED
  BY <1>5, <1>6, <1>7 DEF AllowReturn, Abort, f, rest

LEMMA NextAhead == Inv /\ ModestInv /\ AheadInv /\ [Next]_vars => AheadInv'
<1> SUFFICES ASSUME Inv, ModestInv, AheadInv, [Next]_vars PROVE AheadInv'
  OBVIOUS
<1>1. CASE UNCHANGED vars
  BY <1>1 DEF vars, AheadInv
<1>2. ASSUME NEW c \in CONSUMER, NEW p \in Prios, NEW t \in Uses,
             Register([who |-> c, prio |-> p, type |-> t])
      PROVE  AheadInv'
  <2>1. [who |-> c, prio |-> p, type |-> t] \in Entry
    BY ConstantsAssumption DEF Entry
  <2> QED
    BY <1>2, <2>1, RegisterAhead
<1>3. CASE \E ok \in BOOLEAN : RegisterReturn(ok) \/ AllowReturn(ok)
  BY <1>3, RegisterReturnAhead, AllowReturnAhead
<1>4. CASE SupersededReturn
  BY <1>4, SupersededReturnAhead
<1>5. CASE \/ \E c \in CONSUMER : Unregister(c) \/ Destruct(c)
           \/ \E e \in Ids : Expire(e)
           \/ CallbackFails
  BY <1>5, LeaveAhead
<1>6. CASE HHasConsumers \/ CleanHookMapping
  BY <1>6, CleaningAhead
<1>7. CASE HookFlow
  BY <1>7, HookFlowAhead
<1>8. CASE \E ret \in {"no_mod", "altered", "cancelled"} : FlowReturn(ret)
  BY <1>8, FlowReturnAhead
<1> QED
  BY <1>1, <1>2, <1>3, <1>4, <1>5, <1>6, <1>7, <1>8 DEF Next

\* Who was registered when a flow began, and still is, was called or is ahead
\* of it: consumers that come, leave, or have the hook cleaned up while the flow
\* is going on do not shift others out of the loop's way, also when they take
\* the array away from under it.
THEOREM FlowsMissNobody == Modest => (Spec => []NobodyMissed)
<1> SUFFICES ASSUME Modest PROVE Spec => []NobodyMissed
  OBVIOUS
<1>1. Inv /\ ModestInv /\ AheadInv => NobodyMissed
  <2> SUFFICES ASSUME Inv, ModestInv, AheadInv,
                      NEW i \in DOMAIN stack, stack[i].fn = "flow",
                      NEW e \in stack[i].due \cap standing, e \notin Elements(stack[i].called)
               PROVE  \E t \in stack[i].type .. Listener :
                        \E j \in DOMAIN ArrayOf(stack[i], t) :
                          j > From(stack[i], t) /\ ArrayOf(stack[i], t)[j] = e
    BY DEF NobodyMissed, Flows
  <2> DEFINE f == stack[i]
             t == entries[e].type
  <2>1. FrameOK(entries, lists, f) /\ Ahead(entries, f, standing) /\ ListsOK(entries, lists)
    BY DEF Inv, Base, StackOK, AheadInv, AheadFrames
  <2>2. f.type \in Type
    BY <2>1, FrameFacts DEF FrameOK
  <2> HIDE DEF f
  <2>3. CASE \E j \in DOMAIN f.vec : j > f.pos /\ f.vec[j] = e
    <3>1. ArrayOf(f, f.type) = f.vec /\ From(f, f.type) = f.pos
      BY DEF ArrayOf, From
    <3>2. f.type \in f.type .. Listener
      BY <2>2 DEF Type, Listener
    <3> QED
      BY <2>3, <3>1, <3>2 DEF f
  <2>4. CASE t > f.type
    <3>1. e \in DOMAIN entries /\ e \in Elements(lists[t])
      BY StandingFacts DEF ModestInv, Registered, Stands
    <3>2. t \in Type
      BY <3>1, EntryFacts DEF Inv, Base
    <3> HIDE DEF t
    <3>3. t # f.type /\ t \in f.type .. Listener
      BY <2>2, <2>4, <3>2 DEF Type, Listener
    <3>4. ArrayOf(f, t) = lists[t] /\ From(f, t) = 0
      BY <3>3 DEF ArrayOf, From
    <3>5. PICK j \in DOMAIN lists[t] : lists[t][j] = e
      BY <3>1 DEF Elements
    <3>6. j > 0
      BY <2>1, <3>2, ArrayFacts DEF ListsOK, ListOK
    <3> QED
      BY <3>3, <3>4, <3>5, <3>6 DEF f
  <2> QED
    BY <2>1, <2>3, <2>4 DEF Ahead, f
<1>2. Init => AheadInv
  BY DEF Init, AheadInv, AheadFrames
<1> QED
  BY <1>1, <1>2, ModestInvariant, NextAhead, PTL DEF Spec
-----------------------------------------------------------------------------
(***************************************************************************)
(* The order of calls.  It takes besides that a superseded consumer does   *)
(* not make the hook clean its arrays: the one HRegisterToHook() then goes *)
(* on with has zeros, which it fails to sort, and the array of the hook    *)
(* stays unsorted.                                                         *)
(***************************************************************************)
Orderly == Modest /\ "clean" \notin Allowed["superseded"]

\* Is a consumer of type t being told that it was superseded?
Told(st, t) == \E i \in DOMAIN st : st[i].fn = "superseded" /\ st[i].type = t
NoneTold(st) == \A i \in DOMAIN st : st[i].fn # "superseded"

\* The elements of S are in order of priority.
SortedFor(es, v, S) ==
  \A j, k \in DOMAIN v : j < k /\ v[j] \in S /\ v[k] \in S => es[v[j]].prio <= es[v[k]].prio

\* What stands is in order, but for the entries others are being told about.
HalfOf(st) == {st[i].entry : i \in {j \in DOMAIN st : st[j].fn = "superseded"}}
StandSorted(es, ls, st, sd) ==
  \A t \in Type : /\ Told(st, t) \/ SortedFor(es, ls[t], sd)
                  /\ SortedFor(es, ls[t], sd \ HalfOf(st))

NoZeros(ls) == \A t \in Type : None \notin Elements(ls[t])

Earlier(es, d, e) ==
  \/ es[d].type < es[e].type
  \/ es[d].type = es[e].type /\ es[d].prio <= es[e].prio

\* Those who stood when the flow began were called in order, and what is ahead
\* in the array goes on in order.
FlowOrder(es, f, ok) ==
  /\ SortedFor(es, f.vec, f.due \cap ok)
  /\ \A k \in DOMAIN f.called, j \in DOMAIN f.vec :
       j > f.pos /\ f.vec[j] \in f.due \cap ok /\ f.called[k] \in f.due
         => Earlier(es, f.called[k], f.vec[j])
  /\ \A j, k \in DOMAIN f.called :
       j < k /\ f.called[j] \in f.due /\ f.called[k] \in f.due
         => Earlier(es, f.called[j], f.called[k])

\* What stood when the flow began, and may be called, stands.
DueStands(ls, f, ok, sd) ==
  \A t \in Type : Elements(ls[t]) \cap ok \cap f.due \subseteq sd

OrderlyFrame(es, ls, f, ok, sd) ==
  /\ f.fn = "flow" => FlowOrder(es, f, ok) /\ DueStands(ls, f, ok, sd)
  /\ f.fn = "superseded" => f.live

OrderlyFrames(es, ls, st, ok, sd) ==
  \A i \in DOMAIN st : OrderlyFrame(es, ls, st[i], ok, sd)

OrderlyInv ==
  /\ NoZeros(lists) /\ StandSorted(entries, lists, stack, standing)
  /\ OrderlyFrames(entries, lists, stack, Ok, standing)

\* Sets that hold fewer elements of an array.
LEMMA SortedForFewer ==
  ASSUME NEW es, NEW v, NEW S, SortedFor(es, v, S), S \subseteq DOMAIN es,
         NEW fs, Extends(es, fs), NEW R, Elements(v) \cap R \subseteq S
  PROVE  SortedFor(fs, v, R)
<1> SUFFICES ASSUME NEW j \in DOMAIN v, NEW k \in DOMAIN v, j < k, v[j] \in R, v[k] \in R
             PROVE  fs[v[j]].prio <= fs[v[k]].prio
  BY DEF SortedFor
<1>1. v[j] \in S /\ v[k] \in S
  BY DEF Elements
<1>2. fs[v[j]] = es[v[j]] /\ fs[v[k]] = es[v[k]]
  BY <1>1 DEF Extends
<1> QED
  BY <1>1, <1>2 DEF SortedFor

\* A flow whose array lost elements, or got elements that were not due.
LEMMA FlowOrderOver ==
  ASSUME NEW es, NEW f, f.fn = "flow", Calling(es, f), NEW ok, FlowOrder(es, f, ok),
         NEW fs, Extends(es, fs), NEW less, less \cap DOMAIN es \subseteq ok,
         NEW g, Same(f, g), DOMAIN g.vec = DOMAIN f.vec,
         \A j \in DOMAIN f.vec : g.vec[j] = f.vec[j] \/ g.vec[j] \notin DOMAIN es
  PROVE  FlowOrder(fs, g, less)
<1>1. f.due \subseteq DOMAIN es /\ g.due = f.due /\ g.called = f.called /\ g.pos = f.pos
  BY DEF Calling, Same
<1>2. ASSUME NEW j \in DOMAIN g.vec, g.vec[j] \in g.due \cap less
      PROVE  g.vec[j] = f.vec[j] /\ f.vec[j] \in f.due \cap ok /\ fs[g.vec[j]] = es[f.vec[j]]
  BY <1>1, <1>2 DEF Extends
<1>3. ASSUME NEW j \in DOMAIN g.called, g.called[j] \in g.due
      PROVE  f.called[j] \in f.due /\ g.called[j] = f.called[j] /\ fs[g.called[j]] = es[f.called[j]]
  BY <1>1, <1>3 DEF Extends
<1>4. SortedFor(fs, g.vec, g.due \cap less)
  BY <1>2 DEF FlowOrder, SortedFor
<1>5. ASSUME NEW k \in DOMAIN g.called, NEW j \in DOMAIN g.vec,
             j > g.pos, g.vec[j] \in g.due \cap less, g.called[k] \in g.due
      PROVE  Earlier(fs, g.called[k], g.vec[j])
  <2>1. Earlier(es, f.called[k], f.vec[j])
    BY <1>1, <1>2, <1>3, <1>5 DEF FlowOrder
  <2> QED
    BY <1>2, <1>3, <1>5, <2>1 DEF Earlier
<1>6. ASSUME NEW j \in DOMAIN g.called, NEW k \in DOMAIN g.called, j < k,
             g.called[j] \in g.due, g.called[k] \in g.due
      PROVE  Earlier(fs, g.called[j], g.called[k])
  <2>1. Earlier(es, f.called[j], f.called[k])
    BY <1>1, <1>3, <1>6 DEF FlowOrder
  <2> QED
    BY <1>3, <1>6, <2>1 DEF Earlier
<1> QED
  BY <1>4, <1>5, <1>6 DEF FlowOrder

\* No array holds more of what was due, and what it holds stands.
Remains(es, ls, ks, less, sd, remain) ==
  \A t \in Type : /\ Elements(ks[t]) \cap DOMAIN es \subseteq Elements(ls[t])
                  /\ Elements(ks[t]) \cap less \cap sd \subseteq remain

\* A frame that was changed in one of these ways.
LEMMA FrameOver ==
  ASSUME NEW es, NEW ls, NEW f, FrameOK(es, ls, f),
         NEW ok, NEW sd, OrderlyFrame(es, ls, f, ok, sd),
         NEW fs, Extends(es, fs), NEW less, less \cap DOMAIN es \subseteq ok,
         NEW ks, NEW remain, Remains(es, ls, ks, less, sd, remain),
         NEW g, Same(f, g), DOMAIN g.vec = DOMAIN f.vec,
         \A j \in DOMAIN f.vec : g.vec[j] = f.vec[j] \/ g.vec[j] \notin DOMAIN es,
         f.fn = "superseded" => g.live
  PROVE  OrderlyFrame(fs, ks, g, less, remain)
<1>1. g.fn = f.fn
  BY DEF Same
<1>2. ASSUME f.fn = "flow" PROVE FlowOrder(fs, g, less) /\ DueStands(ks, g, less, remain)
  <2>1. Calling(es, f) /\ FlowOrder(es, f, ok) /\ DueStands(ls, f, ok, sd)
    BY <1>2 DEF FrameOK, OrderlyFrame
  <2>2. FlowOrder(fs, g, less)
    BY <1>2, <2>1, FlowOrderOver
  <2>3. f.due \subseteq DOMAIN es /\ g.due = f.due
    BY <1>2, <2>1 DEF Calling, Same
  <2>4. DueStands(ks, g, less, remain)
    <3> SUFFICES ASSUME NEW t \in Type, NEW e \in Elements(ks[t]) \cap less \cap g.due
                 PROVE  e \in remain
      BY DEF DueStands
    <3>1. e \in Elements(ls[t]) \cap ok \cap f.due
      BY <2>3 DEF Remains
    <3>2. e \in sd
      BY <2>1, <3>1 DEF DueStands
    <3> QED
      BY <3>2 DEF Remains
  <2> QED
    BY <2>2, <2>4
<1> QED
  BY <1>1, <1>2 DEF OrderlyFrame

\* Without frames there is nothing to keep in order but the arrays.
LEMMA NobodyTold ==
  ASSUME NEW st, NoneAsked(st)
  PROVE  NoneTold(st)
BY DEF NoneAsked, NoneTold, Asked

LEMMA AllSorted ==
  ASSUME NEW es, NEW ls, NEW st, NoneTold(st), NEW sd
  PROVE  StandSorted(es, ls, st, sd) <=> \A t \in Type : SortedFor(es, ls[t], sd)
<1>1. HalfOf(st) = {}
  BY DEF NoneTold, HalfOf
<1>2. \A t \in Type : ~Told(st, t)
  BY DEF NoneTold, Told
<1>3. sd \ HalfOf(st) = sd
  BY <1>1
<1> QED
  BY <1>2, <1>3 DEF StandSorted

LEMMA NoFrames ==
  ASSUME NEW es, NEW ls, NEW ok, NEW sd
  PROVE  OrderlyFrames(es, ls, <<>>, ok, sd) /\ NoneTold(<<>>)
BY DEF OrderlyFrames, NoneTold

\* Cleaning keeps the order.
LEMMA CleanOrderly ==
  ASSUME Inv, ModestInv, OrderlyInv, NoneTold(stack)
  PROVE  /\ NoZeros(CleanedLists) /\ NoneTold(Cleaned(stack))
         /\ \A t \in Type : SortedFor(entries, CleanedLists[t], standing)
         /\ OrderlyFrames(entries, CleanedLists, Cleaned(stack), Ok, standing)
<1>1. Base(entries, lists, stack)
  BY DEF Inv
<1>2. NoZeros(CleanedLists) /\ DOMAIN Cleaned(stack) = DOMAIN stack
  BY <1>1, CleanBase DEF NoZeros
<1>3. ASSUME NEW t \in Type PROVE SortedFor(entries, CleanedLists[t], standing)
  <2> DEFINE v == lists[t]
  <2>1. v \in Arrays /\ SortedFor(entries, v, standing)
    BY <1>1, AllSorted DEF Base, ListsOK, ListOK, OrderlyInv
  <2>2. CleanedLists[t] = Kept(v)
    BY DEF CleanedLists
  <2> HIDE DEF v
  <2>3. \A m, n \in DOMAIN Kept(v) : m < n =>
          \E i, j \in DOMAIN v : i < j /\ Kept(v)[m] = v[i] /\ Kept(v)[n] = v[j]
    BY <2>1, KeptFacts
  <2>4. SortedFor(entries, Kept(v), standing)
    <3> SUFFICES ASSUME NEW m \in DOMAIN Kept(v), NEW n \in DOMAIN Kept(v), m < n,
                        Kept(v)[m] \in standing, Kept(v)[n] \in standing
                 PROVE  entries[Kept(v)[m]].prio <= entries[Kept(v)[n]].prio
      BY DEF SortedFor
    <3>1. PICK i \in DOMAIN v, j \in DOMAIN v : i < j /\ Kept(v)[m] = v[i] /\ Kept(v)[n] = v[j]
      BY <2>3
    <3> QED
      BY <2>1, <3>1 DEF SortedFor
  <2> QED
    BY <2>2, <2>4
<1>4. Remains(entries, lists, CleanedLists, Ok, standing, standing)
  BY <1>1, CleanRegistered DEF Remains, ModestInv
<1>5. Extends(entries, entries) /\ Ok \cap DOMAIN entries \subseteq Ok /\ None \notin DOMAIN entries
  <2>1. entries \in Seq(Entry)
    BY <1>1 DEF Base, EntriesOK
  <2>2. DOMAIN entries = 1 .. Len(entries) /\ Len(entries) \in Nat
    BY <2>1, LenProperties
  <2> QED
    BY <2>2 DEF Extends, None
<1>6. ASSUME NEW i \in DOMAIN stack
      PROVE  /\ OrderlyFrame(entries, CleanedLists, Cleaned(stack)[i], Ok, standing)
             /\ Cleaned(stack)[i].fn # "superseded"
  <2> DEFINE f == stack[i]
             g == Cleaned(stack)[i]
  <2>1. /\ FrameOK(entries, lists, f) /\ OrderlyFrame(entries, lists, f, Ok, standing)
        /\ f.fn # "superseded" /\ f.vec \in Arrays
    BY <1>1, FrameFacts DEF Base, StackOK, FrameOK, OrderlyInv, OrderlyFrames, NoneTold
  <2>2. Same(f, g) /\ (g = f \/ g.vec = Zeroed(f.vec))
    BY <1>1, CleanedFrame DEF Base
  <2> HIDE DEF f, g
  <2>3. DOMAIN g.vec = DOMAIN f.vec
        /\ \A j \in DOMAIN f.vec : g.vec[j] = f.vec[j] \/ g.vec[j] \notin DOMAIN entries
    <3>1. CASE g = f
      BY <3>1
    <3>2. CASE g.vec = Zeroed(f.vec)
      <4>1. Holds(entries, f.vec, f.type) /\ Distinct(f.vec)
        BY <2>1 DEF FrameOK
      <4>2. /\ DOMAIN Zeroed(f.vec) = DOMAIN f.vec
            /\ \A j \in DOMAIN f.vec : Zeroed(f.vec)[j] \in {f.vec[j], None}
        <5>1. /\ DOMAIN Zeroed(f.vec) = DOMAIN f.vec
              /\ \A j \in DOMAIN f.vec :
                   Zeroed(f.vec)[j] = IF Valid(f.vec[j]) THEN f.vec[j] ELSE None
          BY <2>1, <4>1, ZeroedFacts, Zenon
        <5> QED
          BY <5>1
      <4> QED
        BY <1>5, <3>2, <4>2
    <3> QED
      BY <2>2, <3>1, <3>2
  <2>4. OrderlyFrame(entries, CleanedLists, g, Ok, standing)
    BY <1>4, <1>5, <2>1, <2>2, <2>3, FrameOver
  <2> QED
    BY <2>1, <2>2, <2>4 DEF g, Same
<1> QED
  BY <1>2, <1>3, <1>6 DEF OrderlyFrames, NoneTold

\* A registration keeps the order.
LEMMA AppendedOrderly ==
  ASSUME Marks, NEW ls, NEW st, NEW new \in Entry, Base(entries, ls, st),
         Len(entries) < MaxEntries, standing \subseteq Ok,
         NoZeros(ls), NoneTold(st), \A t \in Type : SortedFor(entries, ls[t], standing),
         OrderlyFrames(entries, ls, st, Ok, standing),
         Appended(new, ls, st), UNCHANGED <<alive, cleared, expired>>
  PROVE  OrderlyInv'
<1> DEFINE t == new.type
           e == Len(entries) + 1
<1>1. /\ EntriesOK(entries) /\ ListsOK(entries, ls) /\ ls \in [Type -> Arrays] /\ t \in Type
      /\ FramesOK(entries, ls, st)
  BY DEF Base, ListsOK, StackOK, FramesOK, Entry
<1>2. entries' = Append(entries, new) /\ HasRoom(ls[t], t) /\ stack' = Detached(st, t)
  BY DEF Appended
<1>3. /\ Extends(entries, entries') /\ e \in DOMAIN entries' /\ e \notin DOMAIN entries
      /\ entries'[e] = new
  BY <1>1, <1>2, Grows
<1>4. Ok' = Ok \cup (IF new.who \in alive THEN {e} ELSE {})
  BY <1>1, <1>2, OkGrows
<1>5. standing' = standing \cup (IF new.who \in alive THEN {e} ELSE {})
  BY DEF Appended, Accepted, NewId
<1>6. /\ Elements(lists'[t]) = Elements(ls[t]) \cup {e} /\ SameBut(ls, lists', t)
      /\ Sorted(entries', lists'[t]) /\ None \notin Elements(lists'[t])
  <2>1. PICK w \in Sortings(Append(entries, new), Append(ls[t], NewId)) :
          lists' = [ls EXCEPT ![t] = w]
    BY DEF Appended
  <2>2. /\ Elements(w) = Elements(ls[t]) \cup {NewId} /\ Sorted(Append(entries, new), w)
        /\ None \notin Elements(w)
    BY <1>1, <1>2, <2>1, AppendedLists
  <2>3. lists'[t] = w /\ \A u \in Type \ {t} : lists'[u] = ls[u]
    BY <1>1, <2>1
  <2> QED
    BY <1>2, <2>2, <2>3 DEF NewId, SameBut
<1>7. \A u \in Type : Elements(ls[u]) \subseteq DOMAIN entries
  <2> TAKE u \in Type
  <2>1. Holds(entries, ls[u], u) /\ None \notin Elements(ls[u])
    BY <1>1 DEF ListsOK, ListOK, NoZeros
  <2> QED
    BY <2>1 DEF Holds, Elements
<1> HIDE DEF t, e
<1>8. NoZeros(lists')
  BY <1>6 DEF NoZeros, SameBut
<1>9. \A u \in Type : SortedFor(entries', lists'[u], standing')
  <2> TAKE u \in Type
  <2>1. CASE u = t
    BY <1>6, <2>1 DEF Sorted, SortedFor
  <2>2. CASE u # t
    <3>1. lists'[u] = ls[u] /\ Elements(ls[u]) \cap standing' \subseteq standing
      BY <1>3, <1>5, <1>6, <1>7, <2>2 DEF SameBut
    <3> QED
      BY <1>3, <3>1, SortedForFewer, OkFacts
  <2> QED
    BY <2>1, <2>2
<1>10. Ok' \cap DOMAIN entries \subseteq Ok /\ Remains(entries, ls, lists', Ok', standing, standing')
  BY <1>3, <1>4, <1>5, <1>6 DEF Remains, SameBut
<1>11. DOMAIN stack' = DOMAIN st
  BY <1>2 DEF Detached
<1>12. ASSUME NEW i \in DOMAIN st
       PROVE  OrderlyFrame(entries', lists', stack'[i], Ok', standing') /\ stack'[i].fn # "superseded"
  <2>1. FrameOK(entries, ls, st[i]) /\ OrderlyFrame(entries, ls, st[i], Ok, standing)
        /\ st[i].fn # "superseded"
    BY <1>1 DEF FramesOK, OrderlyFrames, NoneTold
  <2>2. Extends(entries, entries) /\ SameBut(ls, ls, t)
    BY DEF Extends, SameBut
  <2>3. Same(st[i], stack'[i]) /\ stack'[i].vec = st[i].vec
    BY <1>1, <1>2, <2>2, DetachedFrame
  <2>4. OrderlyFrame(entries', lists', stack'[i], Ok', standing')
    BY <1>3, <1>10, <2>1, <2>3, FrameOver
  <2> QED
    BY <2>1, <2>3, <2>4 DEF Same
<1>13. OrderlyFrames(entries', lists', stack', Ok', standing') /\ NoneTold(stack')
  BY <1>11, <1>12 DEF OrderlyFrames, NoneTold
<1> QED
  BY <1>8, <1>9, <1>13, AllSorted DEF OrderlyInv

LEMMA OverwrittenOrderly ==
  ASSUME Marks, NEW ls, NEW st, NEW new \in Entry, Base(entries, ls, st),
         Len(entries) < MaxEntries, standing \subseteq Ok,
         NoZeros(ls), NoneTold(st), \A t \in Type : SortedFor(entries, ls[t], standing),
         OrderlyFrames(entries, ls, st, Ok, standing),
         Superseded(new, ls, st) \/ NobodyToTell(new, ls), UNCHANGED <<alive, cleared, expired>>
  PROVE  OrderlyInv'
<1> DEFINE t == new.type
           e == Len(entries) + 1
           v == ls[t]
           last == LastOf(ls, t)
<1>1. /\ EntriesOK(entries) /\ ListsOK(entries, ls) /\ ls \in [Type -> Arrays] /\ t \in Type
      /\ FramesOK(entries, ls, st) /\ st \in Seq(Frame) /\ v \in Arrays
  BY DEF Base, ListsOK, ListOK, StackOK, FramesOK, Entry
<1>2. /\ entries' = Append(entries, new) /\ ~HasRoom(ls[t], t) /\ LastOf(ls, t) # None
      /\ lists' = [ls EXCEPT ![t] = [ls[t] EXCEPT ![Len(ls[t])] = e]]
  BY DEF Superseded, NobodyToTell, Overwritten, NewId
<1>3. /\ Extends(entries, entries') /\ e \in DOMAIN entries' /\ e \notin DOMAIN entries
      /\ entries'[e] = new /\ e \in Ids
  BY <1>1, <1>2, Grows
<1>4. Ok' = Ok \cup (IF new.who \in alive THEN {e} ELSE {})
  BY <1>1, <1>2, OkGrows
<1>5. standing' \subseteq standing \cup {e} /\ standing \ {last} \subseteq standing'
      /\ (NobodyToTell(new, ls) => standing' = standing)
  BY DEF Superseded, NobodyToTell, Accepted, NewId
<1>6. \A u \in Type : Elements(ls[u]) \subseteq DOMAIN entries /\ Holds(entries, ls[u], u)
  <2> TAKE u \in Type
  <2>1. Holds(entries, ls[u], u) /\ None \notin Elements(ls[u])
    BY <1>1 DEF ListsOK, ListOK, NoZeros
  <2> QED
    BY <2>1 DEF Holds, Elements
<1> DEFINE w == [ls[t] EXCEPT ![Len(ls[t])] = NewId]
<1>7. /\ v # <<>> /\ Len(v) \in DOMAIN v /\ DOMAIN w = DOMAIN v
      /\ w[Len(v)] = NewId /\ \A j \in DOMAIN v : j # Len(v) => w[j] = v[j]
      /\ None \notin Elements(w)
  <2>1. ls[t] # <<>> /\ None \notin Elements([ls[t] EXCEPT ![Len(ls[t])] = NewId])
        /\ Len(ls[t]) \in DOMAIN ls[t]
    BY <1>1, <1>2, OverwrittenLists
  <2> QED
    BY <2>1
<1>8. lists'[t] = w /\ SameBut(ls, lists', t)
  BY <1>1, <1>2 DEF SameBut, NewId
<1>9. last \in Elements(v) /\ last \in DOMAIN entries /\ entries[last].type = t
      /\ last = v[Len(v)] /\ Distinct(v) /\ None \notin Elements(v)
  BY <1>1, <1>2, <1>6, <1>7 DEF LastOf, Elements, Holds, ListsOK, ListOK, NoZeros
<1> HIDE DEF t, e, last, w, v
<1>10. NoZeros(lists')
  BY <1>7, <1>8 DEF NoZeros, SameBut
<1>11. \A u \in Type : u # t => SortedFor(entries', lists'[u], standing')
  <2> TAKE u \in Type
  <2> HAVE u # t
  <2>1. lists'[u] = ls[u] /\ Elements(ls[u]) \cap standing' \subseteq standing
    BY <1>3, <1>5, <1>6, <1>8 DEF SameBut
  <2> QED
    BY <1>3, <2>1, SortedForFewer, OkFacts
<1>12. Ok' \cap DOMAIN entries \subseteq Ok
  BY <1>3, <1>4
<1>13. ASSUME NEW j \in DOMAIN v PROVE w[j] = v[j] \/ (j = Len(v) /\ w[j] = e)
  BY <1>7 DEF NewId, e
<1>14. last \notin Elements(w)
  <2> SUFFICES ASSUME NEW j \in DOMAIN w, w[j] = last PROVE FALSE
    BY DEF Elements
  <2>1. j \in DOMAIN v /\ (w[j] = v[j] \/ w[j] = e)
    BY <1>7, <1>13
  <2>2. w[j] = v[j]
    BY <1>3, <1>9, <2>1
  <2>3. v[j] = v[Len(v)] /\ v[j] # None
    BY <1>9, <2>1, <2>2 DEF Elements
  <2>4. j = Len(v)
    BY <1>7, <1>9, <2>1, <2>3 DEF Distinct
  <2> QED
    BY <1>3, <1>7, <1>9, <2>2, <2>4 DEF NewId, e
<1>15. Remains(entries, ls, lists', Ok', standing, standing')
  <2> SUFFICES ASSUME NEW u \in Type
               PROVE  /\ Elements(lists'[u]) \cap DOMAIN entries \subseteq Elements(ls[u])
                      /\ Elements(lists'[u]) \cap Ok' \cap standing \subseteq standing'
    BY DEF Remains
  <2>1. CASE u = t
    <3>1. Elements(w) \subseteq Elements(v) \cup {e}
      BY <1>7, <1>13 DEF Elements
    <3> QED
      BY <1>3, <1>5, <1>8, <1>14, <2>1, <3>1 DEF v
  <2>2. CASE u # t
    <3>1. lists'[u] = ls[u]
      BY <1>8, <2>2 DEF SameBut
    <3>2. last \notin Elements(ls[u])
      BY <1>6, <1>9, <2>2 DEF Holds, Elements, NoZeros
    <3> QED
      BY <1>5, <3>1, <3>2
  <2> QED
    BY <2>1, <2>2
<1>16. SortedFor(entries', w, standing)
  <2>1. SortedFor(entries, v, standing)
    BY <1>1 DEF v
  <2> SUFFICES ASSUME NEW j \in DOMAIN w, NEW k \in DOMAIN w, j < k,
                      w[j] \in standing, w[k] \in standing
               PROVE  entries'[w[j]].prio <= entries'[w[k]].prio
    BY DEF SortedFor
  <2>2. standing \subseteq DOMAIN entries
    BY OkFacts
  <2>3. w[j] = v[j] /\ w[k] = v[k] /\ j \in DOMAIN v /\ k \in DOMAIN v
    BY <1>3, <1>7, <1>13, <2>2
  <2>4. entries'[v[j]] = entries[v[j]] /\ entries'[v[k]] = entries[v[k]]
    BY <1>3, <2>2, <2>3 DEF Extends
  <2> QED
    BY <2>1, <2>3, <2>4 DEF SortedFor
<1>17. CASE NobodyToTell(new, ls)
  <2>1. stack' = <<>> /\ standing' = standing
    BY <1>17 DEF NobodyToTell
  <2>2. \A u \in Type : SortedFor(entries', lists'[u], standing')
    BY <1>8, <1>11, <1>16, <2>1
  <2> QED
    BY <1>10, <2>1, <2>2, AllSorted, NoFrames DEF OrderlyInv
<1>18. CASE Superseded(new, ls, st)
  <2> DEFINE p == WithLast(st, t, e)
             f == [fn |-> "superseded", type |-> t, vec |-> lists'[t], live |-> TRUE,
                   entry |-> NewId]
  <2>1. stack' = Append(p, f)
    BY <1>18 DEF Superseded, NewId, t, e
  <2>2. f.fn = "superseded" /\ f.live = TRUE /\ f.type = t /\ f.entry = e
    BY DEF NewId, e
  <2>3. Len(p) = Len(st) /\ DOMAIN p = 1 .. Len(st) /\ DOMAIN st = 1 .. Len(st) /\ Len(st) \in Nat
    <3>1. DOMAIN st = 1 .. Len(st) /\ Len(st) \in Nat
      BY <1>1, LenProperties
    <3>2. p = [i \in 1 .. Len(st) |-> p[i]]
      BY <3>1 DEF WithLast
    <3> HIDE DEF p
    <3> QED
      BY <3>1, <3>2
  <2>4. ASSUME NEW i \in DOMAIN st
        PROVE  OrderlyFrame(entries', lists', p[i], Ok', standing') /\ p[i].fn # "superseded"
    <3>1. FrameOK(entries, ls, st[i]) /\ OrderlyFrame(entries, ls, st[i], Ok, standing)
          /\ st[i].fn # "superseded"
      BY <1>1 DEF FramesOK, OrderlyFrames, NoneTold
    <3>2. /\ lists'[t] = [ls[t] EXCEPT ![Len(ls[t])] = e]
          /\ ls[t] \in Arrays /\ ls[t] # <<>> /\ e \in DOMAIN entries' /\ entries'[e].type = t
      BY <1>1, <1>3, <1>7, <1>8 DEF w, v, t, NewId, e
    <3>3. /\ Same(st[i], p[i])
          /\ p[i].vec = IF st[i].live /\ st[i].type = t THEN lists'[t] ELSE st[i].vec
      BY <1>1, <1>3, <1>8, <3>2, WithLastFrame
    <3>4. DOMAIN p[i].vec = DOMAIN st[i].vec
          /\ \A j \in DOMAIN st[i].vec : p[i].vec[j] = st[i].vec[j] \/ p[i].vec[j] \notin DOMAIN entries
      <4> HIDE DEF p
      <4>1. CASE st[i].live /\ st[i].type = t
        <5>1. st[i].vec = v /\ p[i].vec = w
          BY <1>8, <3>1, <3>3, <4>1 DEF FrameOK, v
        <5> QED
          BY <1>3, <1>7, <1>13, <5>1
      <4>2. CASE ~(st[i].live /\ st[i].type = t)
        BY <3>3, <4>2
      <4> QED
        BY <4>1, <4>2
    <3>5. OrderlyFrame(entries', lists', p[i], Ok', standing')
      <4> HIDE DEF p
      <4> QED
        BY <1>3, <1>12, <1>15, <3>1, <3>3, <3>4, FrameOver
    <3> QED
      BY <3>1, <3>3, <3>5 DEF Same
  <2> HIDE DEF p, f
  <2>5. OrderlyFrame(entries', lists', f, Ok', standing')
    BY <2>2 DEF OrderlyFrame
  <2>6. /\ DOMAIN stack' = 1 .. Len(st) + 1 /\ stack'[Len(st) + 1] = f
        /\ \A i \in 1 .. Len(st) : stack'[i] = p[i]
    BY <2>1, <2>3
  <2>7. OrderlyFrames(entries', lists', stack', Ok', standing')
    <3> SUFFICES ASSUME NEW i \in 1 .. Len(st) + 1
                 PROVE  OrderlyFrame(entries', lists', stack'[i], Ok', standing')
      BY <2>6 DEF OrderlyFrames
    <3>1. i = Len(st) + 1 \/ i \in 1 .. Len(st)
      BY <2>3
    <3> QED
      BY <2>3, <2>4, <2>5, <2>6, <3>1
  <2>8. StandSorted(entries', lists', stack', standing')
    <3>1. Told(stack', t) /\ e \in HalfOf(stack')
      <4>1. Len(st) + 1 \in DOMAIN stack'
        BY <2>3, <2>6
      <4> QED
        BY <2>2, <2>6, <4>1 DEF Told, HalfOf
    <3>2. standing' \ HalfOf(stack') \subseteq standing
      BY <1>18, <3>1 DEF Superseded, Accepted, NewId, e
    <3>3. \A u \in Type : SortedFor(entries', lists'[u], standing' \ HalfOf(stack'))
      <4> TAKE u \in Type
      <4>1. CASE u = t
        BY <1>8, <1>16, <3>2, <4>1 DEF SortedFor
      <4>2. CASE u # t
        BY <1>11, <4>2 DEF SortedFor
      <4> QED
        BY <4>1, <4>2
    <3> QED
      BY <1>11, <3>1, <3>3 DEF StandSorted
  <2> QED
    BY <1>10, <2>7, <2>8 DEF OrderlyInv
<1> QED
  BY <1>17, <1>18

LEMMA InsertOrderly ==
  ASSUME Marks, NEW ls, NEW st, NEW new \in Entry, Base(entries, ls, st),
         Len(entries) < MaxEntries, standing \subseteq Ok,
         NoZeros(ls), NoneTold(st), \A t \in Type : SortedFor(entries, ls[t], standing),
         OrderlyFrames(entries, ls, st, Ok, standing),
         Insert(new, ls, st), UNCHANGED <<alive, cleared, expired>>
  PROVE  OrderlyInv'
<1>1. ls \in [Type -> Arrays]
  BY DEF Base, ListsOK
<1>2. CASE Appended(new, ls, st)
  BY <1>2, AppendedOrderly
<1>3. CASE Superseded(new, ls, st) \/ NobodyToTell(new, ls)
  BY <1>3, OverwrittenOrderly
<1>4. CASE NotRegistered(ls, st)
  <2>1. UNCHANGED <<entries, standing>> /\ lists' = ls /\ Ok' = Ok /\ stack' \in {st, <<>>}
    BY <1>4 DEF NotRegistered, Ok, Valid, HasClosure
  <2>2. NoneTold(stack') /\ OrderlyFrames(entries, ls, stack', Ok, standing)
    BY <2>1, NoFrames
  <2>3. StandSorted(entries, ls, stack', standing)
    BY <2>2, AllSorted
  <2> QED
    BY <2>1, <2>2, <2>3 DEF OrderlyInv
<1> QED
  BY <1>1, <1>2, <1>3, <1>4, InsertCases

\* A step that only changes frames.
LEMMA CallbackOrderly ==
  ASSUME OrderlyInv, NoneTold(stack), NoneTold(stack'),
         OrderlyFrames(entries, lists, stack', Ok, standing),
         UNCHANGED <<alive, entries, cleared, expired, lists, standing>>
  PROVE  OrderlyInv'
<1>1. \A t \in Type : SortedFor(entries, lists[t], standing)
  BY AllSorted DEF OrderlyInv
<1>2. StandSorted(entries, lists, stack', standing)
  BY <1>1, AllSorted
<1> QED
  BY <1>2, OkSame DEF OrderlyInv

\* The frames below, and none, are in order, too.
LEMMA BelowOrderly ==
  ASSUME OrderlyInv, StackOK(entries, lists, stack), stack # <<>>
  PROVE  OrderlyFrames(entries, lists, Below, Ok, standing)
<1>1. DOMAIN stack = 1 .. Len(stack) /\ DOMAIN Below = 1 .. Len(stack) - 1 /\ Len(stack) \in Nat
      /\ \A i \in DOMAIN Below : Below[i] = stack[i]
  BY TopFacts
<1>2. \A i \in DOMAIN Below : i \in DOMAIN stack
  BY <1>1
<1> QED
  BY <1>1, <1>2 DEF OrderlyInv, OrderlyFrames

\* Nobody is told anything while the innermost callback is not about that.
LEMMA NotTold ==
  ASSUME Inv, ModestInv, stack # <<>> => Top.fn # "superseded"
  PROVE  NoneTold(stack)
<1>1. CASE stack = <<>>
  BY <1>1, NoFrames
<1>2. CASE stack # <<>>
  <2>1. \A i \in DOMAIN stack : stack[i].fn \in Asked => i = Len(stack)
    BY DEF ModestInv, Questions, AskedOnTop
  <2> QED
    BY <1>2, <2>1 DEF NoneTold, Asked, Top
<1> QED
  BY <1>1, <1>2

LEMMA RegisterOrderly ==
  ASSUME Modest, Inv, ModestInv, OrderlyInv, NEW new \in Entry, Register(new)
  PROVE  OrderlyInv'
<1>1. /\ Base(entries, lists, stack) /\ Marks /\ UNCHANGED <<alive, cleared, expired, cleanup>>
      /\ May("register") /\ Len(entries) < MaxEntries
  BY DEF Inv, Register
<1>2. NoneTold(stack)
  BY <1>1, MayNotBeAsked, NoneGoingOn, NobodyTold
<1> DEFINE ks == CleanedLists
           p == Cleaned(stack)
<1>3. /\ Base(entries, ks, p) /\ NoZeros(ks) /\ NoneTold(p)
      /\ \A t \in Type : SortedFor(entries, ks[t], standing)
      /\ OrderlyFrames(entries, ks, p, Ok, standing)
  BY <1>1, <1>2, CleanBase, CleanOrderly
<1> HIDE DEF ks, p
<1>4. CASE stack' = <<>> /\ UNCHANGED <<entries, lists, standing>>
  BY <1>1, <1>2, <1>4, NoFrames, CallbackOrderly
<1>5. CASE lists' = ks /\ NoneTold(stack') /\ UNCHANGED <<entries, standing>>
           /\ OrderlyFrames(entries, ks, stack', Ok, standing)
  <2>1. StandSorted(entries, ks, stack', standing)
    BY <1>3, <1>5, AllSorted
  <2> QED
    BY <1>1, <1>3, <1>5, <2>1, OkSame DEF OrderlyInv
<1>6. CASE lists' = ks /\ stack' = p /\ UNCHANGED <<entries, standing>>
  BY <1>3, <1>5, <1>6
<1>7. CASE /\ lists' = ks /\ stack' = Append(p, Asking(new, ks[Surveyor]))
           /\ UNCHANGED <<entries, standing>>
  <2> DEFINE f == Asking(new, ks[Surveyor])
  <2>1. f.fn = "register"
    BY DEF Asking
  <2> HIDE DEF f
  <2>2. p \in Seq(Frame) /\ stack' = Append(p, f)
    BY <1>3, <1>7 DEF Base, StackOK, f
  <2>3. /\ DOMAIN stack' = 1 .. Len(p) + 1 /\ stack'[Len(p) + 1] = f /\ Len(p) \in Nat
        /\ DOMAIN p = 1 .. Len(p) /\ \A i \in 1 .. Len(p) : stack'[i] = p[i]
    BY <2>2
  <2>4. ASSUME NEW i \in DOMAIN stack'
        PROVE  OrderlyFrame(entries, ks, stack'[i], Ok, standing) /\ stack'[i].fn # "superseded"
    <3>1. i = Len(p) + 1 \/ i \in 1 .. Len(p)
      BY <2>3
    <3>2. CASE i = Len(p) + 1
      BY <2>1, <2>3, <3>2 DEF OrderlyFrame
    <3>3. CASE i \in 1 .. Len(p)
      BY <1>3, <2>3, <3>3 DEF OrderlyFrames, NoneTold
    <3> QED
      BY <3>1, <3>2, <3>3
  <2> QED
    BY <1>5, <1>7, <2>4 DEF OrderlyFrames, NoneTold
<1>8. CASE Insert(new, ks, p)
  BY <1>1, <1>3, <1>8, StandingFacts, InsertOrderly
<1> QED
  BY <1>4, <1>6, <1>7, <1>8 DEF Register, Abort, Asking, ks, p

LEMMA RegisterReturnOrderly ==
  ASSUME Inv, ModestInv, OrderlyInv, NEW ok \in BOOLEAN, RegisterReturn(ok)
  PROVE  OrderlyInv'
<1>1. /\ Base(entries, lists, stack) /\ Marks /\ UNCHANGED <<alive, cleared, expired, cleanup>>
      /\ stack # <<>> /\ Top.fn = "register" /\ StackOK(entries, lists, stack)
  BY DEF Inv, RegisterReturn, Base
<1>2. /\ FrameOK(entries, lists, Top) /\ Base(entries, lists, Below)
      /\ Len(stack) \in Nat \ {0} /\ DOMAIN stack = 1 .. Len(stack)
  BY <1>1, TopFacts DEF Base
<1>3. Top.new \in Entry /\ Top.vec \in Arrays /\ Top.pos \in Nat
  BY <1>1, <1>2, FrameFacts DEF FrameOK
<1>4. NoneTold(stack) /\ NoneTold(Below) /\ OrderlyFrames(entries, lists, Below, Ok, standing)
  BY <1>1, NotTold, NoneBelow, NobodyTold, BelowOrderly
<1>5. CASE stack' \in {Below, <<>>} /\ UNCHANGED <<entries, lists, standing>>
  BY <1>1, <1>4, <1>5, NoFrames, CallbackOrderly
<1>6. CASE Len(entries) < MaxEntries /\ Insert(Top.new, lists, Below)
  <2>1. NoZeros(lists) /\ \A t \in Type : SortedFor(entries, lists[t], standing)
    BY <1>4, AllSorted DEF OrderlyInv
  <2> QED
    BY <1>1, <1>2, <1>3, <1>4, <1>6, <2>1, StandingFacts, InsertOrderly
<1>7. CASE /\ Stops(Top.vec, Top.pos) # {}
           /\ stack' = [stack EXCEPT ![Len(stack)].pos = Stop(Top.vec, Top.pos)]
           /\ UNCHANGED <<entries, lists, standing>>
  <2>1. Stop(Top.vec, Top.pos) \in Nat
    BY <1>3, <1>7, StopFacts
  <2>2. /\ DOMAIN stack' = DOMAIN stack
        /\ \A i \in DOMAIN stack :
             (i # Len(stack) => stack'[i] = stack[i]) /\ stack'[i].fn = stack[i].fn
    BY <1>1, <1>7, <2>1, TopWithPos
  <2>3. ASSUME NEW i \in DOMAIN stack'
        PROVE  OrderlyFrame(entries, lists, stack'[i], Ok, standing) /\ stack'[i].fn # "superseded"
    <3>1. CASE i = Len(stack)
      BY <1>1, <2>2, <3>1 DEF OrderlyFrame, Top
    <3>2. CASE i # Len(stack)
      BY <1>4, <2>2, <3>2 DEF OrderlyInv, OrderlyFrames, NoneTold
    <3> QED
      BY <3>1, <3>2
  <2> QED
    BY <1>1, <1>4, <1>7, <2>3, CallbackOrderly DEF OrderlyFrames, NoneTold
<1> QED
  BY <1>5, <1>6, <1>7 DEF RegisterReturn, Abort

LEMMA SupersededReturnOrderly ==
  ASSUME Inv, ModestInv, OrderlyInv, SupersededReturn
  PROVE  OrderlyInv'
<1>1. /\ Base(entries, lists, stack) /\ StackOK(entries, lists, stack)
      /\ UNCHANGED <<alive, cleared, expired, cleanup, entries, standing>>
      /\ stack # <<>> /\ Top.fn = "superseded"
  BY DEF Inv, SupersededReturn, Base
<1>2. /\ FrameOK(entries, lists, Top) /\ StackOK(entries, lists, Below) /\ ListsOK(entries, lists)
      /\ Len(stack) \in Nat \ {0} /\ DOMAIN stack = 1 .. Len(stack)
      /\ FramesOK(entries, lists, Below)
  BY <1>1, TopFacts DEF Base, StackOK, FramesOK
<1> DEFINE t == Top.type
<1>3. t \in Type /\ Top.vec \in Arrays /\ Top.vec = lists[t]
  <2>1. Len(stack) \in DOMAIN stack
    BY <1>2
  <2>2. Top.live
    BY <1>1, <2>1 DEF OrderlyInv, OrderlyFrames, OrderlyFrame, Top
  <2>3. t \in Type /\ Top.vec \in Arrays
    BY <1>2, FrameFacts DEF FrameOK
  <2> QED
    BY <1>2, <2>2, <2>3 DEF FrameOK
<1> HIDE DEF t
<1>4. None \notin Elements(Top.vec)
  BY <1>3 DEF OrderlyInv, NoZeros
<1>5. PICK w \in Sortings(entries, Top.vec) : lists' = [lists EXCEPT ![t] = w]
  BY <1>4 DEF SupersededReturn, t
<1>6. stack' = Detached(Below, t)
  BY <1>4 DEF SupersededReturn, t
<1>7. Elements(w) = Elements(Top.vec) /\ Sorted(entries, w)
  BY <1>3, SortingFacts
<1>8. lists'[t] = w /\ SameBut(lists, lists', t)
  BY <1>2, <1>3, <1>5 DEF ListsOK, SameBut
<1>9. NoZeros(lists')
  BY <1>4, <1>7, <1>8 DEF OrderlyInv, NoZeros, SameBut
<1>10. Remains(entries, lists, lists', Ok, standing, standing)
  BY <1>3, <1>7, <1>8 DEF Remains, SameBut
<1>11. NoneTold(Below)
  BY <1>1, NoneBelow, NobodyTold
<1>12. Extends(entries, entries) /\ SameBut(lists, lists, t) /\ Ok \cap DOMAIN entries \subseteq Ok
  BY DEF Extends, SameBut
<1>13. ASSUME NEW i \in DOMAIN Below
       PROVE  OrderlyFrame(entries, lists', stack'[i], Ok, standing) /\ stack'[i].fn # "superseded"
  <2>1. FrameOK(entries, lists, Below[i]) /\ OrderlyFrame(entries, lists, Below[i], Ok, standing)
        /\ Below[i].fn # "superseded"
    BY <1>1, <1>2, <1>11, BelowOrderly DEF FramesOK, OrderlyFrames, NoneTold
  <2>2. Same(Below[i], stack'[i]) /\ stack'[i].vec = Below[i].vec
    BY <1>2, <1>3, <1>6, <1>12, DetachedFrame
  <2>3. OrderlyFrame(entries, lists', stack'[i], Ok, standing)
    BY <1>10, <1>12, <2>1, <2>2, FrameOver
  <2> QED
    BY <2>1, <2>2, <2>3 DEF Same
<1>14. DOMAIN stack' = DOMAIN Below
  BY <1>6 DEF Detached
<1>15. OrderlyFrames(entries, lists', stack', Ok, standing) /\ NoneTold(stack')
  BY <1>13, <1>14 DEF OrderlyFrames, NoneTold
<1>16. \A u \in Type : SortedFor(entries, lists'[u], standing)
  <2> TAKE u \in Type
  <2>1. CASE u = t
    BY <1>7, <1>8, <2>1 DEF Sorted, SortedFor
  <2>2. CASE u # t
    <3>1. ~Told(stack, u)
      <4> SUFFICES ASSUME NEW i \in DOMAIN stack, stack[i].fn = "superseded", stack[i].type = u
                   PROVE  FALSE
        BY DEF Told
      <4>1. i = Len(stack)
        BY DEF ModestInv, Questions, AskedOnTop, Asked
      <4> QED
        BY <2>2, <4>1 DEF Top, t
    <3>2. lists'[u] = lists[u] /\ SortedFor(entries, lists[u], standing)
      BY <1>8, <2>2, <3>1 DEF SameBut, OrderlyInv, StandSorted
    <3> QED
      BY <3>2
  <2> QED
    BY <2>1, <2>2
<1>17. StandSorted(entries, lists', stack', standing)
  BY <1>15, <1>16, AllSorted
<1> QED
  BY <1>1, <1>9, <1>15, <1>17, OkSame DEF OrderlyInv

\* Steps after which fewer entries may be called, and the others stand as before.
LEMMA FewerOrderly ==
  ASSUME Inv, ModestInv, OrderlyInv, UNCHANGED <<entries, lists, stack>>,
         Ok' \subseteq Ok, standing' \subseteq standing, standing \cap Ok' \subseteq standing'
  PROVE  OrderlyInv'
<1>1. Extends(entries, entries) /\ Ok' \cap DOMAIN entries \subseteq Ok
      /\ Remains(entries, lists, lists, Ok', standing, standing')
  BY DEF Extends, Remains
<1>2. ASSUME NEW i \in DOMAIN stack
      PROVE  OrderlyFrame(entries, lists, stack[i], Ok', standing')
  <2>1. FrameOK(entries, lists, stack[i]) /\ OrderlyFrame(entries, lists, stack[i], Ok, standing)
    BY DEF Inv, Base, StackOK, OrderlyInv, OrderlyFrames
  <2>2. Same(stack[i], stack[i]) /\ (stack[i].fn = "superseded" => stack[i].live)
    BY <2>1 DEF Same, OrderlyFrame
  <2> QED
    BY <1>1, <2>1, <2>2, FrameOver
<1>3. StandSorted(entries, lists, stack, standing')
  BY DEF OrderlyInv, StandSorted, SortedFor
<1> QED
  BY <1>2, <1>3 DEF OrderlyInv, OrderlyFrames

LEMMA CleanableFacts == OrderlyInv => Cleanable
BY DEF OrderlyInv, NoZeros, Cleanable

LEMMA UnregisterOrderly ==
  ASSUME Inv, ModestInv, OrderlyInv, NEW c \in CONSUMER, Unregister(c)
  PROVE  OrderlyInv'
<1>1. UNCHANGED <<alive, entries, expired>>
  BY DEF Unregister
<1>2. PICK e \in Info(lists, c) :
        /\ cleared' = cleared \cup {e} /\ standing' = standing \ {e}
        /\ UNCHANGED <<lists, stack>>
  BY CleanableFacts DEF Unregister, Drop
<1>3. Ok' = Ok \ {e}
  BY <1>1, <1>2 DEF Ok, Valid, HasClosure
<1> QED
  BY <1>1, <1>2, <1>3, FewerOrderly

LEMMA DestructOrderly ==
  ASSUME Inv, ModestInv, OrderlyInv, NEW c \in CONSUMER, Destruct(c)
  PROVE  OrderlyInv'
<1>1. /\ UNCHANGED <<entries, cleared, expired, lists, cleanup, stack>>
      /\ alive' = alive \ {c} /\ standing' = {e \in standing : entries[e].who # c}
  BY DEF Destruct
<1>2. Ok' = {e \in Ok : entries[e].who # c}
  BY <1>1 DEF Ok, Valid, HasClosure
<1> QED
  BY <1>1, <1>2, FewerOrderly

LEMMA ExpireOrderly ==
  ASSUME Inv, ModestInv, OrderlyInv, NEW e \in Ids, Expire(e)
  PROVE  OrderlyInv'
<1>1. /\ UNCHANGED <<alive, entries, cleared, lists, cleanup, stack>>
      /\ expired' = expired \cup {e} /\ standing' = standing \ {e}
  BY DEF Expire
<1>2. Ok' = Ok \ {e}
  BY <1>1 DEF Ok, Valid, HasClosure
<1> QED
  BY <1>1, <1>2, FewerOrderly

\* An error leaves the arrays as they are; what was half done is not accepted.
LEMMA CallbackFailsOrderly ==
  ASSUME OrderlyInv, CallbackFails
  PROVE  OrderlyInv'
<1>1. /\ UNCHANGED <<alive, entries, cleared, expired, lists>>
      /\ stack' = <<>> /\ standing' = standing \ HalfOf(stack)
  BY DEF CallbackFails, Abort, HalfDone, HalfOf
<1>2. \A t \in Type : SortedFor(entries, lists[t], standing')
  BY <1>1 DEF OrderlyInv, StandSorted
<1>3. OrderlyFrames(entries, lists, stack', Ok, standing') /\ NoneTold(stack')
  BY <1>1, NoFrames
<1>4. StandSorted(entries, lists, stack', standing')
  BY <1>2, <1>3, AllSorted
<1> QED
  BY <1>1, <1>3, <1>4, OkSame DEF OrderlyInv

LEMMA HHasConsumersOrderly ==
  ASSUME Orderly, Inv, ModestInv, OrderlyInv, HHasConsumers
  PROVE  OrderlyInv'
<1>1. /\ UNCHANGED <<alive, entries, cleared, expired, cleanup, standing>>
      /\ lists' = CleanedLists /\ stack' = Cleaned(stack)
  BY CleanableFacts DEF HHasConsumers
<1>2. NoneTold(stack)
  <2>1. stack # <<>> => Top.fn # "superseded"
    BY DEF HHasConsumers, May, Orderly
  <2> QED
    BY <2>1, NotTold
<1>3. StandSorted(entries, CleanedLists, Cleaned(stack), standing)
  BY <1>2, CleanOrderly, AllSorted
<1> QED
  BY <1>1, <1>2, <1>3, CleanOrderly, OkSame DEF OrderlyInv

LEMMA CleanHookMappingOrderly ==
  ASSUME Inv, ModestInv, OrderlyInv, CleanHookMapping
  PROVE  OrderlyInv'
<1>1. /\ UNCHANGED <<alive, entries, cleared, expired, stack, standing>> /\ stack = <<>>
      /\ lists' = CleanedLists
  BY CleanableFacts DEF CleanHookMapping
<1>2. NoneTold(stack)
  BY <1>1, NoFrames
<1>3. StandSorted(entries, CleanedLists, stack, standing)
  BY <1>2, CleanOrderly, AllSorted
<1>4. OrderlyFrames(entries, CleanedLists, stack, Ok, standing)
  BY <1>1, NoFrames
<1> QED
  BY <1>1, <1>2, <1>3, <1>4, CleanOrderly, OkSame DEF OrderlyInv

\* Who is called next comes in order, and so does what is ahead.
LEMMA CalledOrder ==
  ASSUME EntriesOK(entries), ListsOK(entries, lists),
         NEW f, FrameOK(entries, lists, f), f.fn = "flow",
         FlowOrder(entries, f, Ok), DueStands(lists, f, Ok, standing),
         \A t \in Type : SortedFor(entries, lists[t], standing),
         NEW st, NEW t \in Type, NEW i \in Nat, WentOn(f, st, t, i)
  PROVE  /\ FlowOrder(entries, Called(f, t, i), Ok)
         /\ DueStands(lists, Called(f, t, i), Ok, standing)
<1> DEFINE g == Called(f, t, i)
           v == ArrayOf(f, t)
           n == Len(f.called) + 1
<1>1. CalledFields(f, t, i)
  BY CalledFrame
<1>2. /\ g.vec = v /\ g.pos = i /\ g.due = f.due /\ g.called = Append(f.called, v[i])
      /\ f.called \in Seq(Ids) /\ v[i] \in Ids /\ Valid(v[i])
      /\ f.type <= t /\ i \in DOMAIN v /\ i > From(f, t)
  BY <1>1 DEF CalledFields
<1>3. Calling(entries, f) /\ f.type \in Type /\ f.pos \in Nat
  BY FrameFacts DEF FrameOK
<1>4. v \in Arrays /\ Holds(entries, v, t) /\ From(f, t) \in Nat
  BY <1>2, ArrayOfFacts
<1> HIDE DEF g, v
<1>5. Len(v) \in Nat /\ DOMAIN v = 1 .. Len(v)
  BY <1>4, ArrayFacts
<1>6. /\ Len(f.called) \in Nat /\ DOMAIN f.called = 1 .. Len(f.called)
      /\ DOMAIN g.called = 1 .. n /\ g.called[n] = v[i]
      /\ \A k \in 1 .. Len(f.called) : g.called[k] = f.called[k]
  BY <1>2, AppendProperties, LenProperties
<1>7. v[i] \in Ok /\ entries[v[i]].type = t
  BY <1>2, <1>4 DEF Holds, Ok, Valid
<1>8. None \notin DOMAIN entries
  <2>1. DOMAIN entries = 1 .. Len(entries) /\ Len(entries) \in Nat
    BY LenProperties DEF EntriesOK
  <2> QED
    BY <2>1 DEF None
<1>9. \A j \in DOMAIN v : v[j] \in f.due => entries[v[j]].type = t
  BY <1>3, <1>4, <1>8 DEF Holds, Calling
<1>10. SortedFor(entries, v, f.due \cap Ok)
  <2>1. CASE t = f.type
    BY <2>1 DEF FlowOrder, ArrayOf, v
  <2>2. CASE t # f.type
    <3>1. v = lists[t]
      BY <2>2 DEF ArrayOf, v
    <3>2. Elements(v) \cap (f.due \cap Ok) \subseteq standing
      BY <3>1 DEF DueStands
    <3>3. SortedFor(entries, v, standing)
      BY <3>1
    <3> QED
      BY <3>2, <3>3 DEF SortedFor, Elements
  <2> QED
    BY <2>1, <2>2
\* Who was called comes before what is still ahead.
<1>11. ASSUME NEW k \in DOMAIN f.called, f.called[k] \in f.due,
              NEW j \in DOMAIN v, j > From(f, t), v[j] \in f.due \cap Ok
       PROVE  Earlier(entries, f.called[k], v[j])
  <2>1. CASE t = f.type
    <3>1. v = f.vec /\ j > f.pos
      BY <1>11, <2>1 DEF ArrayOf, From, v
    <3> QED
      BY <1>11, <3>1 DEF FlowOrder
  <2>2. CASE t # f.type
    <3>1. entries[f.called[k]].type <= f.type /\ entries[f.called[k]].type \in Type
      <4>1. f.called[k] \in DOMAIN entries /\ entries[f.called[k]].type <= f.type
        BY <1>3 DEF Calling
      <4> QED
        BY <4>1, EntryFacts
    <3>2. entries[v[j]].type = t
      BY <1>9, <1>11
    <3>3. entries[f.called[k]].type < entries[v[j]].type
      BY <1>2, <1>3, <2>2, <3>1, <3>2 DEF Type
    <3> QED
      BY <3>3 DEF Earlier
  <2> QED
    BY <2>1, <2>2
<1>12. ASSUME NEW k \in DOMAIN g.called, NEW j \in DOMAIN g.vec, j > g.pos,
              g.vec[j] \in g.due \cap Ok, g.called[k] \in g.due
       PROVE  Earlier(entries, g.called[k], g.vec[j])
  <2>1. j \in DOMAIN v /\ j > i /\ v[j] \in f.due \cap Ok /\ g.vec[j] = v[j]
    BY <1>2, <1>12
  <2>2. k = n \/ k \in 1 .. Len(f.called)
    BY <1>6
  <2>3. CASE k = n
    <3>1. g.called[k] = v[i] /\ v[i] \in f.due \cap Ok
      BY <1>2, <1>6, <1>7, <1>12, <2>3
    <3>2. entries[v[i]].prio <= entries[v[j]].prio
      BY <1>2, <1>10, <2>1, <3>1 DEF SortedFor
    <3>3. entries[v[j]].type = t
      BY <1>9, <2>1
    <3> QED
      BY <1>7, <2>1, <3>1, <3>2, <3>3 DEF Earlier
  <2>4. CASE k \in 1 .. Len(f.called)
    <3>1. k \in DOMAIN f.called /\ g.called[k] = f.called[k] /\ f.called[k] \in f.due
      BY <1>2, <1>6, <1>12, <2>4
    <3>2. j > From(f, t)
      BY <1>2, <1>4, <1>5, <2>1
    <3> QED
      BY <1>11, <2>1, <3>1, <3>2
  <2> QED
    BY <2>2, <2>3, <2>4
<1>13. ASSUME NEW j \in DOMAIN g.called, NEW k \in DOMAIN g.called, j < k,
              g.called[j] \in g.due, g.called[k] \in g.due
       PROVE  Earlier(entries, g.called[j], g.called[k])
  <2>1. j \in 1 .. Len(f.called) /\ (k = n \/ k \in 1 .. Len(f.called))
    BY <1>6, <1>13
  <2>2. j \in DOMAIN f.called /\ g.called[j] = f.called[j] /\ f.called[j] \in f.due
    BY <1>2, <1>6, <1>13, <2>1
  <2>3. CASE k = n
    <3>1. g.called[k] = v[i] /\ v[i] \in f.due \cap Ok
      BY <1>2, <1>6, <1>7, <1>13, <2>3
    <3> QED
      BY <1>2, <1>11, <2>2, <3>1
  <2>4. CASE k \in 1 .. Len(f.called)
    <3>1. k \in DOMAIN f.called /\ g.called[k] = f.called[k] /\ f.called[k] \in f.due
      BY <1>2, <1>6, <1>13, <2>4
    <3> QED
      BY <1>13, <2>2, <3>1 DEF FlowOrder
  <2> QED
    BY <2>1, <2>3, <2>4
<1>14. FlowOrder(entries, g, Ok)
  BY <1>2, <1>10, <1>12, <1>13 DEF FlowOrder
<1>15. DueStands(lists, g, Ok, standing)
  BY <1>2 DEF DueStands
<1> QED
  BY <1>14, <1>15 DEF g

\* A flow that goes on, or ends, keeps the order.
LEMMA AdvanceOrderly ==
  ASSUME Inv, OrderlyInv, NoneAsked(stack),
         NEW f, FrameOK(entries, lists, f), f.fn = "flow",
         OrderlyFrame(entries, lists, f, Ok, standing),
         NEW st, StackOK(entries, lists, st), OrderlyFrames(entries, lists, st, Ok, standing),
         NoneAsked(st), Advance(f, st)
  PROVE  OrderlyFrames(entries, lists, stack', Ok, standing)
<1>1. ListsOK(entries, lists) /\ EntriesOK(entries) /\ st \in Seq(Frame)
  BY DEF Inv, Base, StackOK
<1>2. \A t \in Type : SortedFor(entries, lists[t], standing)
  BY NobodyTold, AllSorted DEF OrderlyInv
<1>3. CASE stack' \in {st, <<>>}
  BY <1>3, NoFrames
<1>4. CASE \E t \in Type : \E i \in Nat : WentOn(f, st, t, i)
  <2>1. PICK t \in Type, i \in Nat : WentOn(f, st, t, i)
    BY <1>4
  <2> DEFINE g == Called(f, t, i)
  <2>2. FlowOrder(entries, g, Ok) /\ DueStands(lists, g, Ok, standing)
    BY <1>1, <1>2, <2>1, CalledOrder DEF OrderlyFrame
  <2>3. g.fn = "flow"
    <3>1. CalledFields(f, t, i)
      BY <1>1, <2>1, CalledFrame
    <3> QED
      BY <3>1 DEF CalledFields
  <2>4. stack' = Append(st, g)
    BY <2>1 DEF WentOn
  <2> HIDE DEF g
  <2>5. OrderlyFrame(entries, lists, g, Ok, standing)
    BY <2>2, <2>3 DEF OrderlyFrame
  <2>6. /\ DOMAIN stack' = 1 .. Len(st) + 1 /\ stack'[Len(st) + 1] = g /\ Len(st) \in Nat
        /\ DOMAIN st = 1 .. Len(st) /\ \A j \in 1 .. Len(st) : stack'[j] = st[j]
    BY <1>1, <2>4
  <2> SUFFICES ASSUME NEW j \in 1 .. Len(st) + 1
               PROVE  OrderlyFrame(entries, lists, stack'[j], Ok, standing)
    BY <2>6 DEF OrderlyFrames
  <2>7. j = Len(st) + 1 \/ j \in 1 .. Len(st)
    BY <2>6
  <2> QED
    BY <2>5, <2>6, <2>7 DEF OrderlyFrames
<1> QED
  BY <1>1, <1>3, <1>4, AdvanceCases

\* A step of a flow, in a stack without questions.
LEMMA FlowOrderly ==
  ASSUME Inv, OrderlyInv, NoneAsked(stack), NoneAsked(stack'),
         OrderlyFrames(entries, lists, stack', Ok, standing),
         UNCHANGED <<alive, entries, cleared, expired, lists, standing>>
  PROVE  OrderlyInv'
BY NobodyTold, CallbackOrderly

LEMMA HookFlowOrderly ==
  ASSUME Modest, Inv, ModestInv, OrderlyInv, HookFlow
  PROVE  OrderlyInv'
<1>1. /\ UNCHANGED <<alive, entries, cleared, expired, lists, standing>>
      /\ May("flow") /\ Advance(Beginning, stack)
  BY DEF HookFlow, Beginning
<1>2. NoneAsked(stack)
  BY <1>1, MayNotBeAsked, NoneGoingOn
<1>3. FrameOK(entries, lists, Beginning) /\ Beginning.fn = "flow"
  BY BeginningOK DEF Beginning
<1>4. NoneAsked(stack')
  BY <1>1, <1>2, <1>3, AdvanceAsks DEF Inv, Base
<1>5. OrderlyFrame(entries, lists, Beginning, Ok, standing)
  <2>1. /\ Beginning.fn = "flow" /\ Beginning.due = standing /\ Beginning.called = <<>>
        /\ Beginning.vec = lists[Surveyor]
    BY DEF Beginning
  <2>2. SortedFor(entries, lists[Surveyor], standing)
    BY <1>2, NobodyTold, AllSorted DEF OrderlyInv, Type, Surveyor
  <2>3. FlowOrder(entries, Beginning, Ok)
    <3>1. SortedFor(entries, lists[Surveyor], standing \cap Ok)
      BY <2>2 DEF SortedFor
    <3> QED
      BY <2>1, <3>1 DEF FlowOrder
  <2>4. DueStands(lists, Beginning, Ok, standing)
    BY <2>1 DEF DueStands
  <2> QED
    BY <2>1, <2>3, <2>4 DEF OrderlyFrame
<1>6. OrderlyFrames(entries, lists, stack', Ok, standing)
  BY <1>1, <1>2, <1>3, <1>5, AdvanceOrderly DEF Inv, Base, OrderlyInv
<1> QED
  BY <1>1, <1>2, <1>4, <1>6, FlowOrderly

LEMMA FlowReturnOrderly ==
  ASSUME Modest, Inv, ModestInv, OrderlyInv, NEW ret, FlowReturn(ret)
  PROVE  OrderlyInv'
<1>1. /\ UNCHANGED <<alive, entries, cleared, expired, lists, standing>>
      /\ stack # <<>> /\ Top.fn = "flow" /\ StackOK(entries, lists, stack)
  BY DEF FlowReturn, Inv, Base
<1>2. /\ FrameOK(entries, lists, Top) /\ StackOK(entries, lists, Below)
      /\ stack \in Seq(Frame) /\ Len(stack) \in Nat \ {0} /\ DOMAIN stack = 1 .. Len(stack)
  BY <1>1, TopFacts DEF StackOK
<1>3. NoneAsked(stack) /\ NoneAsked(Below) /\ OrderlyFrames(entries, lists, Below, Ok, standing)
  BY <1>1, NoneGoingOn, NoneBelow, BelowOrderly DEF Asked
<1>4. OrderlyFrame(entries, lists, Top, Ok, standing)
  <2>1. Len(stack) \in DOMAIN stack
    BY <1>2
  <2> QED
    BY <2>1 DEF OrderlyInv, OrderlyFrames, Top
<1>5. ModestInv'
  BY FlowReturnModest
<1> DEFINE v == lists[Surveyor]
<1>6. CASE stack' \in {Below, <<>>}
  BY <1>1, <1>3, <1>6, NoFrames, NobodyTold, CallbackOrderly
<1>7. CASE Advance(Top, Below)
  <2>1. OrderlyFrames(entries, lists, stack', Ok, standing)
    BY <1>1, <1>2, <1>3, <1>4, <1>7, AdvanceOrderly
  <2>2. NoneAsked(stack')
    BY <1>1, <1>2, <1>3, <1>7, AdvanceAsks
  <2> QED
    BY <1>1, <1>3, <2>1, <2>2, FlowOrderly
<1>8. CASE stack' = Append(stack, Allowing(v, Stop(v, 0), ret = "cancelled"))
  <2> DEFINE f == Allowing(v, Stop(v, 0), ret = "cancelled")
  <2>1. f.fn = "allow"
    BY DEF Allowing
  <2> HIDE DEF f
  <2>2. /\ DOMAIN stack' = 1 .. Len(stack) + 1 /\ stack'[Len(stack) + 1] = f
        /\ \A i \in 1 .. Len(stack) : stack'[i] = stack[i]
    BY <1>2, <1>8 DEF f
  <2>3. ASSUME NEW i \in DOMAIN stack'
        PROVE  OrderlyFrame(entries, lists, stack'[i], Ok, standing) /\ stack'[i].fn \notin Asked
    <3>1. i = Len(stack) + 1 \/ i \in DOMAIN stack
      BY <1>2, <2>2
    <3>2. CASE i = Len(stack) + 1
      BY <2>1, <2>2, <3>2 DEF OrderlyFrame, Asked
    <3>3. CASE i \in DOMAIN stack
      BY <1>2, <1>3, <2>2, <3>3 DEF OrderlyInv, OrderlyFrames, NoneAsked
    <3> QED
      BY <3>1, <3>2, <3>3
  <2>4. OrderlyFrames(entries, lists, stack', Ok, standing) /\ NoneAsked(stack')
    BY <2>3 DEF OrderlyFrames, NoneAsked
  <2> QED
    BY <1>1, <1>3, <2>4, FlowOrderly
<1> QED
  BY <1>6, <1>7, <1>8 DEF FlowReturn, Allowing, Abort

LEMMA AllowReturnOrderly ==
  ASSUME Modest, Inv, ModestInv, OrderlyInv, NEW ok \in BOOLEAN, AllowReturn(ok)
  PROVE  OrderlyInv'
<1>1. /\ UNCHANGED <<alive, entries, cleared, expired, lists, standing>>
      /\ stack # <<>> /\ Top.fn = "allow" /\ StackOK(entries, lists, stack)
  BY DEF AllowReturn, Inv, Base
<1> DEFINE f == Below[Len(Below)]
           rest == SubSeq(Below, 1, Len(Below) - 1)
<1>2. /\ FrameOK(entries, lists, f) /\ f.fn = "flow" /\ StackOK(entries, lists, rest)
      /\ f = stack[Len(stack) - 1]
      /\ DOMAIN rest = 1 .. Len(stack) - 2 /\ Len(stack) > 1
      /\ \A i \in DOMAIN rest : rest[i] = stack[i]
  BY <1>1, AskingFlow
<1>3. NoneAsked(stack)
  BY <1>1, NoneGoingOn DEF Asked
<1> HIDE DEF f, rest
<1>4. DOMAIN stack = 1 .. Len(stack) /\ Len(stack) \in Nat
  BY <1>1, TopFacts
<1>5. NoneAsked(rest) /\ OrderlyFrames(entries, lists, rest, Ok, standing)
      /\ OrderlyFrame(entries, lists, f, Ok, standing)
  <2>1. \A i \in DOMAIN rest : i \in DOMAIN stack
    BY <1>2, <1>4
  <2>2. Len(stack) - 1 \in DOMAIN stack
    BY <1>2, <1>4
  <2> QED
    BY <1>2, <1>3, <2>1, <2>2 DEF NoneAsked, OrderlyInv, OrderlyFrames
<1>6. CASE stack' \in {rest, <<>>}
  BY <1>1, <1>3, <1>5, <1>6, NoFrames, NobodyTold, CallbackOrderly
<1>7. CASE Advance(f, rest)
  <2>1. OrderlyFrames(entries, lists, stack', Ok, standing)
    BY <1>2, <1>3, <1>5, <1>7, AdvanceOrderly
  <2>2. NoneAsked(stack')
    BY <1>2, <1>5, <1>7, AdvanceAsks
  <2> QED
    BY <1>1, <1>3, <2>1, <2>2, FlowOrderly
<1>8. CASE /\ Stops(Top.vec, Top.pos) # {}
           /\ stack' = [stack EXCEPT ![Len(stack)].pos = Stop(Top.vec, Top.pos)]
  <2>1. Top.vec \in Arrays /\ Top.pos \in Nat
    BY <1>1, TopFacts, FrameFacts DEF FrameOK
  <2>2. Stop(Top.vec, Top.pos) \in Nat
    BY <1>8, <2>1, StopFacts
  <2>3. /\ DOMAIN stack' = DOMAIN stack
        /\ \A i \in DOMAIN stack :
             (i # Len(stack) => stack'[i] = stack[i]) /\ stack'[i].fn = stack[i].fn
    BY <1>1, <1>8, <2>2, TopWithPos
  <2>4. ASSUME NEW i \in DOMAIN stack'
        PROVE  OrderlyFrame(entries, lists, stack'[i], Ok, standing)
    <3>1. CASE i = Len(stack)
      BY <1>1, <2>3, <3>1 DEF OrderlyFrame, Top
    <3>2. CASE i # Len(stack)
      BY <2>3, <3>2 DEF OrderlyInv, OrderlyFrames
    <3> QED
      BY <3>1, <3>2
  <2>5. NoneAsked(stack')
    BY <1>3, <2>3, SameAsked
  <2> QED
    BY <1>1, <1>3, <2>4, <2>5, FlowOrderly DEF OrderlyFrames
<1> QED
  BY <1>6, <1>7, <1>8 DEF AllowReturn, Abort, f, rest

LEMMA InitOrderly == Init => OrderlyInv
<1> SUFFICES ASSUME Init PROVE OrderlyInv
  OBVIOUS
<1>1. stack = <<>> /\ lists = [t \in Type |-> <<>>]
  BY DEF Init
<1>2. \A t \in Type : lists[t] = <<>>
  BY <1>1
<1>3. NoZeros(lists) /\ StandSorted(entries, lists, stack, standing)
  BY <1>2 DEF NoZeros, Elements, StandSorted, SortedFor
<1> QED
  BY <1>1, <1>3, NoFrames DEF OrderlyInv

LEMMA NextOrderly == Orderly /\ Inv /\ ModestInv /\ OrderlyInv /\ [Next]_vars => OrderlyInv'
<1> SUFFICES ASSUME Orderly, Inv, ModestInv, OrderlyInv, [Next]_vars PROVE OrderlyInv'
  OBVIOUS
<1> Modest
  BY DEF Orderly
<1>1. CASE UNCHANGED vars
  BY <1>1, OkSame DEF vars, OrderlyInv
<1>2. ASSUME NEW c \in CONSUMER, NEW p \in Prios, NEW t \in Uses,
             Register([who |-> c, prio |-> p, type |-> t])
      PROVE  OrderlyInv'
  <2>1. [who |-> c, prio |-> p, type |-> t] \in Entry
    BY ConstantsAssumption DEF Entry
  <2> QED
    BY <1>2, <2>1, RegisterOrderly
<1>3. CASE \E ok \in BOOLEAN : RegisterReturn(ok) \/ AllowReturn(ok)
  BY <1>3, RegisterReturnOrderly, AllowReturnOrderly
<1>4. CASE SupersededReturn
  BY <1>4, SupersededReturnOrderly
<1>5. CASE \E c \in CONSUMER : Unregister(c) \/ Destruct(c)
  BY <1>5, UnregisterOrderly, DestructOrderly
<1>6. CASE \E e \in Ids : Expire(e)
  BY <1>6, ExpireOrderly
<1>7. CASE HHasConsumers
  BY <1>7, HHasConsumersOrderly
<1>8. CASE CleanHookMapping
  BY <1>8, CleanHookMappingOrderly
<1>9. CASE HookFlow
  BY <1>9, HookFlowOrderly
<1>10. CASE \E ret \in {"no_mod", "altered", "cancelled"} : FlowReturn(ret)
  BY <1>10, FlowReturnOrderly
<1>11. CASE CallbackFails
  BY <1>11, CallbackFailsOrderly
<1> QED
  BY <1>1, <1>2, <1>3, <1>4, <1>5, <1>6, <1>7, <1>8, <1>9, <1>10, <1>11 DEF Next

LEMMA OrderlyInvariant == Orderly => (Spec => [](Inv /\ ModestInv /\ OrderlyInv))
<1> SUFFICES ASSUME Orderly PROVE Spec => [](Inv /\ ModestInv /\ OrderlyInv)
  OBVIOUS
<1>1. Spec => [](Inv /\ ModestInv)
  BY ModestInvariant DEF Orderly
<1>2. Inv /\ ModestInv /\ OrderlyInv /\ [Next]_vars => OrderlyInv'
  BY NextOrderly
<1> QED
  BY <1>1, <1>2, InitOrderly, PTL DEF Spec

\* Those who were registered when a flow began are called surveyors first, then
\* hook modifiers, data modifiers and listeners, and in each type by priority,
\* whoever comes and goes while the flow is going on.
THEOREM FlowsInOrder == Orderly => (Spec => []CalledInOrder)
<1>1. OrderlyInv => CalledInOrder
  <2> SUFFICES ASSUME OrderlyInv, NEW i \in DOMAIN stack, stack[i].fn = "flow",
                      NEW j \in DOMAIN stack[i].called, NEW k \in DOMAIN stack[i].called,
                      j < k, stack[i].called[j] \in stack[i].due,
                      stack[i].called[k] \in stack[i].due
               PROVE  Before(stack[i].called[j], stack[i].called[k])
    BY DEF CalledInOrder, Flows
  <2>1. FlowOrder(entries, stack[i], Ok)
    BY DEF OrderlyInv, OrderlyFrames, OrderlyFrame
  <2>2. Earlier(entries, stack[i].called[j], stack[i].called[k])
    BY <2>1 DEF FlowOrder
  <2> QED
    BY <2>2 DEF Earlier, Before
<1> QED
  BY <1>1, OrderlyInvariant, PTL

\* What HRegisterToHook() has accepted stands in order of priority: a
\* superseded consumer that fails between the replacement of its entry and the
\* sorting leaves one entry out of place, the new one, and only that.
THEOREM AcceptedStaySorted == Orderly => (Spec => []AcceptedSorted)
<1>1. OrderlyInv => AcceptedSorted
  <2> SUFFICES ASSUME OrderlyInv, NEW t \in Type,
                      NEW i \in DOMAIN lists[t], NEW j \in DOMAIN lists[t], i < j,
                      lists[t][i] \in standing \ HalfDone, lists[t][j] \in standing \ HalfDone
               PROVE  entries[lists[t][i]].prio <= entries[lists[t][j]].prio
    BY DEF AcceptedSorted
  <2>1. SortedFor(entries, lists[t], standing \ HalfDone)
    BY DEF OrderlyInv, StandSorted, HalfOf, HalfDone
  <2> QED
    BY <2>1 DEF SortedFor
<1> QED
  BY <1>1, OrderlyInvariant, PTL
-----------------------------------------------------------------------------
(***************************************************************************)
(* Who is called.  What is in an array of the hook and may be called was   *)
(* accepted, or its registration was ended by an error; a flow may go on   *)
(* with an array that is not the hook's any more, and there call an entry  *)
(* that the hook has replaced.                                             *)
(***************************************************************************)
Listed(ls, ok, known) == \A t \in Type : Elements(ls[t]) \cap ok \subseteq known

Known == standing \cup broken
ListedInv == Listed(lists, Ok, Known)

\* The elements of arrays without zeros are entries.
LEMMA ElementsMade ==
  ASSUME NEW ls, ListsOK(entries, ls), NoZeros(ls), NEW u \in Type
  PROVE  Elements(ls[u]) \subseteq DOMAIN entries /\ Holds(entries, ls[u], u)
<1>1. Holds(entries, ls[u], u) /\ None \notin Elements(ls[u])
  BY DEF ListsOK, ListOK, NoZeros
<1> QED
  BY <1>1 DEF Holds, Elements

\* The entry that gave way is gone, the new one is there, nothing else changed.
LEMMA OverwrittenElements ==
  ASSUME EntriesOK(entries), NEW ls, ListsOK(entries, ls), NoZeros(ls),
         NEW new \in Entry, Len(entries) < MaxEntries, Overwritten(new, ls),
         NEW e, e = Len(entries) + 1, NEW last, last = LastOf(ls, new.type)
  PROVE  /\ SameBut(ls, lists', new.type)
         /\ Elements(lists'[new.type]) \subseteq (Elements(ls[new.type]) \ {last}) \cup {e}
         /\ last \in Elements(ls[new.type])
         /\ \A u \in Type \ {new.type} : last \notin Elements(ls[u])
<1> DEFINE t == new.type
           v == ls[t]
           w == [ls[t] EXCEPT ![Len(ls[t])] = NewId]
<1>1. ls \in [Type -> Arrays] /\ t \in Type /\ v \in Arrays /\ Distinct(v)
  BY DEF ListsOK, ListOK, Entry
<1>2. ~HasRoom(ls[t], t) /\ LastOf(ls, t) # None /\ lists' = [ls EXCEPT ![t] = w]
  BY DEF Overwritten
<1>3. e \notin DOMAIN entries /\ e = NewId
  BY Grows DEF NewId
<1>4. Len(v) \in DOMAIN v /\ DOMAIN w = DOMAIN v
      /\ w[Len(v)] = NewId /\ \A j \in DOMAIN v : j # Len(v) => w[j] = v[j]
  <2>1. Len(ls[t]) \in DOMAIN ls[t]
    BY <1>1, <1>2, OverwrittenLists
  <2> QED
    BY <2>1
<1>5. lists'[t] = w /\ SameBut(ls, lists', t)
  BY <1>1, <1>2 DEF SameBut
<1>6. last = v[Len(v)] /\ last \in Elements(v) /\ last # None
  BY <1>2, <1>4 DEF LastOf, Elements
<1> HIDE DEF w, v
<1>7. Elements(v) \subseteq DOMAIN entries /\ Holds(entries, v, t)
  BY <1>1, ElementsMade DEF v
<1>8. \A j \in DOMAIN w : w[j] \in (Elements(v) \ {last}) \cup {e}
  <2> TAKE j \in DOMAIN w
  <2>1. CASE j = Len(v)
    BY <1>3, <1>4, <2>1
  <2>2. CASE j # Len(v)
    <3>1. w[j] = v[j] /\ j \in DOMAIN v
      BY <1>4, <2>2
    <3>2. v[j] # last
      BY <1>1, <1>4, <1>6, <2>2, <3>1 DEF Distinct
    <3> QED
      BY <3>1, <3>2 DEF Elements
  <2> QED
    BY <2>1, <2>2
<1>9. \A u \in Type \ {t} : last \notin Elements(ls[u])
  <2> SUFFICES ASSUME NEW u \in Type \ {t}, last \in Elements(ls[u]) PROVE FALSE
    OBVIOUS
  <2>1. Holds(entries, ls[u], u)
    BY ElementsMade
  <2>2. entries[last].type = u
    BY <1>6, <2>1 DEF Holds, Elements
  <2>3. entries[last].type = t
    BY <1>6, <1>7 DEF Holds, Elements
  <2> QED
    BY <2>2, <2>3
<1> QED
  BY <1>5, <1>6, <1>8, <1>9 DEF Elements, v


\* Arrays whose elements were there before, or are new and known.
LEMMA InsertListed ==
  ASSUME Marks, NEW ls, NEW st, NEW new \in Entry, Base(entries, ls, st),
         Len(entries) < MaxEntries, NoZeros(ls), Listed(ls, Ok, Known),
         Insert(new, ls, st), UNCHANGED <<alive, cleared, expired>>
  PROVE  ListedInv'
<1> DEFINE t == new.type
           e == NewId
           last == LastOf(ls, t)
<1>1. EntriesOK(entries) /\ ListsOK(entries, ls) /\ ls \in [Type -> Arrays] /\ t \in Type
  BY DEF Base, ListsOK, Entry
<1>2. ASSUME entries' = Append(entries, new) PROVE Ok' = Ok \cup Accepted(new)
  BY <1>1, <1>2, OkGrows DEF Accepted, NewId
<1>3. CASE Appended(new, ls, st)
  <2>1. /\ Ok' = Ok \cup Accepted(new) /\ Known' = Known \cup Accepted(new)
        /\ HasRoom(ls[t], t) /\ Accepted(new) \subseteq {e}
    BY <1>2, <1>3 DEF Appended, Known, Accepted
  <2>2. PICK w \in Sortings(Append(entries, new), Append(ls[t], e)) :
          lists' = [ls EXCEPT ![t] = w]
    BY <1>3 DEF Appended
  <2>3. Elements(w) = Elements(ls[t]) \cup {e}
    BY <1>1, <2>1, <2>2, AppendedLists
  <2>4. lists'[t] = w /\ \A u \in Type \ {t} : lists'[u] = ls[u]
    BY <1>1, <2>2
  <2>5. e \notin Ok
    BY <1>1, Grows, OkFacts DEF NewId
  <2> HIDE DEF e, t
  <2> SUFFICES ASSUME NEW u \in Type, NEW x \in Elements(lists'[u]), x \in Ok'
               PROVE  x \in Known'
    BY DEF ListedInv, Listed
  <2>6. x \in Accepted(new) \/ (x \in Elements(ls[u]) /\ x \in Ok)
    BY <2>1, <2>3, <2>4, <2>5
  <2> QED
    BY <2>1, <2>6 DEF Listed
<1>4. CASE Superseded(new, ls, st) \/ NobodyToTell(new, ls)
  <2>1. Overwritten(new, ls)
    BY <1>4 DEF Superseded, NobodyToTell
  <2>2. /\ Ok' = Ok \cup Accepted(new) /\ Accepted(new) \subseteq {e}
        /\ Known \ {last} \subseteq Known' /\ Accepted(new) \subseteq Known'
    BY <1>2, <1>4, <2>1 DEF Superseded, NobodyToTell, Overwritten, Known, Accepted
  <2>3. /\ SameBut(ls, lists', t)
        /\ Elements(lists'[t]) \subseteq (Elements(ls[t]) \ {last}) \cup {e}
        /\ \A u \in Type \ {t} : last \notin Elements(ls[u])
    BY <1>1, <2>1, OverwrittenElements DEF NewId
  <2>4. e \notin Ok
    BY <1>1, Grows, OkFacts DEF NewId
  <2> HIDE DEF e, t, last
  <2> SUFFICES ASSUME NEW u \in Type, NEW x \in Elements(lists'[u]), x \in Ok'
               PROVE  x \in Known'
    BY DEF ListedInv, Listed
  <2>5. x \in Accepted(new) \/ (x \in Elements(ls[u]) \ {last} /\ x \in Ok)
    BY <2>2, <2>3, <2>4 DEF SameBut
  <2> QED
    BY <2>2, <2>5 DEF Listed
<1>5. CASE NotRegistered(ls, st)
  <2>1. lists' = ls /\ Ok' = Ok /\ Known' = Known
    BY <1>5 DEF NotRegistered, Ok, Valid, HasClosure, Known
  <2> QED
    BY <2>1 DEF ListedInv
<1> QED
  BY <1>1, <1>3, <1>4, <1>5, InsertCases

\* Cleaning only takes elements away.
LEMMA CleanListed ==
  ASSUME Inv, ListedInv
  PROVE  Listed(CleanedLists, Ok, Known)
<1> SUFFICES ASSUME NEW t \in Type
             PROVE  Elements(CleanedLists[t]) \subseteq Elements(lists[t])
  BY DEF ListedInv, Listed
<1>1. lists[t] \in Arrays /\ CleanedLists[t] = Kept(lists[t])
  BY DEF Inv, Base, ListsOK, ListOK, CleanedLists
<1> QED
  BY <1>1, KeptFacts

\* Steps that leave the arrays alone, and nobody unknown who may be called.
LEMMA FewerListed ==
  ASSUME ListedInv, UNCHANGED lists, Ok' \subseteq Ok, Known \cap Ok' \subseteq Known'
  PROVE  ListedInv'
BY DEF ListedInv, Listed

LEMMA SameListed ==
  ASSUME ListedInv,
         UNCHANGED <<alive, entries, cleared, expired, lists, standing, broken>>
  PROVE  ListedInv'
BY OkSame DEF ListedInv, Listed, Known

LEMMA RegisterListed ==
  ASSUME Modest, Inv, ModestInv, OrderlyInv, ListedInv, NEW new \in Entry, Register(new)
  PROVE  ListedInv'
<1>1. /\ Base(entries, lists, stack) /\ Marks /\ UNCHANGED <<alive, cleared, expired>>
      /\ Len(entries) < MaxEntries /\ Cleanable /\ May("register")
  BY CleanableFacts DEF Inv, Register
<1>2. NoneTold(stack)
  BY <1>1, MayNotBeAsked, NoneGoingOn, NobodyTold
<1> DEFINE ks == CleanedLists
           p == Cleaned(stack)
<1>3. Base(entries, ks, p) /\ NoZeros(ks) /\ Listed(ks, Ok, Known)
  BY <1>1, <1>2, CleanBase, CleanOrderly, CleanListed
<1> HIDE DEF ks, p
<1>4. CASE lists' = ks /\ UNCHANGED <<entries, standing, broken>>
  <2>1. Ok' = Ok /\ Known' = Known
    BY <1>1, <1>4, OkSame DEF Known
  <2> QED
    BY <1>3, <1>4, <2>1 DEF ListedInv
<1>5. CASE Insert(new, ks, p)
  BY <1>1, <1>3, <1>5, InsertListed
<1> QED
  BY <1>1, <1>4, <1>5 DEF Register, ks, p

LEMMA RegisterReturnListed ==
  ASSUME Inv, ModestInv, OrderlyInv, ListedInv, NEW ok \in BOOLEAN, RegisterReturn(ok)
  PROVE  ListedInv'
<1>1. /\ Base(entries, lists, stack) /\ Marks /\ UNCHANGED <<alive, cleared, expired>>
      /\ stack # <<>> /\ Top.fn = "register"
  BY DEF Inv, RegisterReturn
<1>2. FrameOK(entries, lists, Top) /\ Base(entries, lists, Below)
  BY <1>1, TopFacts DEF Base
<1>3. Top.new \in Entry
  BY <1>1, <1>2, FrameFacts DEF FrameOK
<1>4. CASE UNCHANGED <<entries, lists, standing, broken>>
  BY <1>1, <1>4, SameListed
<1>5. CASE Len(entries) < MaxEntries /\ Insert(Top.new, lists, Below)
  BY <1>1, <1>2, <1>3, <1>5, InsertListed DEF OrderlyInv, ListedInv
<1> QED
  BY <1>4, <1>5 DEF RegisterReturn

LEMMA SupersededReturnListed ==
  ASSUME Inv, OrderlyInv, ListedInv, SupersededReturn
  PROVE  ListedInv'
<1>1. /\ StackOK(entries, lists, stack) /\ ListsOK(entries, lists)
      /\ UNCHANGED <<alive, cleared, expired, entries, standing, broken>>
      /\ stack # <<>> /\ Top.fn = "superseded"
  BY DEF Inv, SupersededReturn, Base
<1>2. /\ FrameOK(entries, lists, Top)
      /\ Len(stack) \in Nat \ {0} /\ DOMAIN stack = 1 .. Len(stack)
  BY <1>1, TopFacts
<1> DEFINE t == Top.type
<1>3. t \in Type /\ Top.vec \in Arrays /\ Top.vec = lists[t]
  <2>1. Len(stack) \in DOMAIN stack
    BY <1>2
  <2>2. Top.live
    BY <1>1, <2>1 DEF OrderlyInv, OrderlyFrames, OrderlyFrame, Top
  <2>3. t \in Type /\ Top.vec \in Arrays
    BY <1>2, FrameFacts DEF FrameOK
  <2> QED
    BY <1>2, <2>2, <2>3 DEF FrameOK
<1> HIDE DEF t
<1>4. None \notin Elements(Top.vec)
  BY <1>3 DEF OrderlyInv, NoZeros
<1>5. PICK w \in Sortings(entries, Top.vec) : lists' = [lists EXCEPT ![t] = w]
  BY <1>4 DEF SupersededReturn, t
<1>6. Elements(w) = Elements(lists[t])
  BY <1>3, SortingFacts
<1>7. lists'[t] = w /\ \A u \in Type \ {t} : lists'[u] = lists[u]
  BY <1>1, <1>3, <1>5 DEF ListsOK
<1>8. \A u \in Type : Elements(lists'[u]) = Elements(lists[u])
  BY <1>6, <1>7
<1>9. Ok' = Ok /\ Known' = Known
  BY <1>1, OkSame DEF Known
<1> QED
  BY <1>8, <1>9 DEF ListedInv, Listed

LEMMA LeaveListed ==
  ASSUME OrderlyInv, ListedInv,
         \/ \E c \in CONSUMER : Unregister(c) \/ Destruct(c)
         \/ \E e \in Ids : Expire(e)
  PROVE  ListedInv'
<1>1. ASSUME NEW c \in CONSUMER, Unregister(c) PROVE ListedInv'
  <2>1. UNCHANGED <<alive, entries, expired, broken>>
    BY <1>1 DEF Unregister
  <2>2. PICK e \in Info(lists, c) :
          /\ cleared' = cleared \cup {e} /\ standing' = standing \ {e} /\ lists' = lists
    BY <1>1, CleanableFacts DEF Unregister, Drop
  <2>3. Ok' = Ok \ {e}
    BY <2>1, <2>2 DEF Ok, Valid, HasClosure
  <2> QED
    BY <2>1, <2>2, <2>3, FewerListed DEF Known
<1>2. ASSUME NEW c \in CONSUMER, Destruct(c) PROVE ListedInv'
  <2>1. /\ UNCHANGED <<entries, cleared, expired, lists, broken>>
        /\ alive' = alive \ {c} /\ standing' = {e \in standing : entries[e].who # c}
    BY <1>2 DEF Destruct
  <2>2. Ok' = {e \in Ok : entries[e].who # c}
    BY <2>1 DEF Ok, Valid, HasClosure
  <2> QED
    BY <2>1, <2>2, FewerListed DEF Known
<1>3. ASSUME NEW e \in Ids, Expire(e) PROVE ListedInv'
  <2>1. /\ UNCHANGED <<alive, entries, cleared, lists, broken>>
        /\ expired' = expired \cup {e} /\ standing' = standing \ {e}
    BY <1>3 DEF Expire
  <2>2. Ok' = Ok \ {e}
    BY <2>1 DEF Ok, Valid, HasClosure
  <2> QED
    BY <2>1, <2>2, FewerListed DEF Known
<1> QED
  BY <1>1, <1>2, <1>3

LEMMA InitListed == Init => ListedInv
<1> SUFFICES ASSUME Init PROVE ListedInv
  OBVIOUS
<1>1. \A t \in Type : lists[t] = <<>>
  BY DEF Init
<1> QED
  BY <1>1 DEF ListedInv, Listed, Elements

LEMMA NextListed ==
  Modest /\ Inv /\ ModestInv /\ OrderlyInv /\ ListedInv /\ [Next]_vars => ListedInv'
<1> SUFFICES ASSUME Modest, Inv, ModestInv, OrderlyInv, ListedInv, [Next]_vars PROVE ListedInv'
  OBVIOUS
<1>1. CASE UNCHANGED vars
  BY <1>1, SameListed DEF vars
<1>2. ASSUME NEW c \in CONSUMER, NEW p \in Prios, NEW t \in Uses,
             Register([who |-> c, prio |-> p, type |-> t])
      PROVE  ListedInv'
  <2>1. [who |-> c, prio |-> p, type |-> t] \in Entry
    BY ConstantsAssumption DEF Entry
  <2> QED
    BY <1>2, <2>1, RegisterListed
<1>3. CASE \E ok \in BOOLEAN : RegisterReturn(ok)
  BY <1>3, RegisterReturnListed
<1>4. CASE SupersededReturn
  BY <1>4, SupersededReturnListed
<1>5. CASE \/ \E c \in CONSUMER : Unregister(c) \/ Destruct(c)
           \/ \E e \in Ids : Expire(e)
  BY <1>5, LeaveListed
<1>6. CASE HHasConsumers \/ CleanHookMapping
  <2>1. /\ UNCHANGED <<alive, entries, cleared, expired, standing, broken>>
        /\ lists' = CleanedLists
    BY <1>6, CleanableFacts DEF HHasConsumers, CleanHookMapping
  <2>2. Ok' = Ok /\ Known' = Known
    BY <2>1, OkSame DEF Known
  <2> QED
    BY <2>1, <2>2, CleanListed DEF ListedInv
<1>7. CASE \/ HookFlow \/ (\E ret : FlowReturn(ret)) \/ (\E ok \in BOOLEAN : AllowReturn(ok))
  <2>1. UNCHANGED <<alive, entries, cleared, expired, lists, standing, broken>>
    BY <1>7 DEF HookFlow, FlowReturn, AllowReturn
  <2> QED
    BY <2>1, SameListed
<1>8. CASE CallbackFails
  <2>1. /\ UNCHANGED <<alive, entries, cleared, expired, lists>>
        /\ Known \subseteq Known'
    BY <1>8 DEF CallbackFails, Known
  <2>2. Ok' = Ok
    BY <2>1, OkSame
  <2> QED
    BY <2>1, <2>2, FewerListed
<1> QED
  BY <1>1, <1>2, <1>3, <1>4, <1>5, <1>6, <1>7, <1>8 DEF Next

\* All that holds where callbacks are orderly.
OrderlyAll == Inv /\ ModestInv /\ OrderlyInv /\ ListedInv

LEMMA ListedInvariant == Orderly => (Spec => []OrderlyAll)
<1> SUFFICES ASSUME Orderly PROVE Spec => []OrderlyAll
  OBVIOUS
<1>1. Spec => [](Inv /\ ModestInv /\ OrderlyInv)
  BY OrderlyInvariant
<1>2. Inv /\ ModestInv /\ OrderlyInv /\ ListedInv /\ [Next]_vars => ListedInv'
  BY NextListed DEF Orderly
<1> QED
  BY <1>1, <1>2, InitListed, PTL DEF Spec, OrderlyAll

\* A call of entry e by the flow f is one CallsStanding allows.
Rightly(f, e) == \/ e \in standing \cup broken
                 \/ ~f.live /\ e \notin Elements(lists[f.type])

\* Frame i calls nobody in this step, or somebody it may.
CallOK(i) ==
  stack'[i].fn = "flow" =>
    \/ i \in DOMAIN stack /\ stack[i].fn = "flow" /\ stack'[i].called = stack[i].called
    \/ Rightly(stack'[i], Last(stack'[i].called))
CallsOK == \A i \in DOMAIN stack' : CallOK(i)

\* Frames of a stack that were there before, and what they called.
Left(st) ==
  \A i \in DOMAIN st : i \in DOMAIN stack /\ st[i].fn = stack[i].fn
                       /\ (st[i].fn = "flow" => st[i].called = stack[i].called)

LEMMA LeftCalls ==
  ASSUME Left(stack')
  PROVE  CallsOK
BY DEF Left, CallsOK, CallOK

\* A frame that calls nobody comes on top.
LEMMA LeftPush ==
  ASSUME NEW st \in Seq(Frame), Left(st), NEW f, f.fn # "flow", stack' = Append(st, f)
  PROVE  CallsOK
<1>1. /\ DOMAIN stack' = 1 .. Len(st) + 1 /\ stack'[Len(st) + 1] = f /\ Len(st) \in Nat
      /\ DOMAIN st = 1 .. Len(st) /\ \A i \in 1 .. Len(st) : stack'[i] = st[i]
  OBVIOUS
<1> SUFFICES ASSUME NEW i \in 1 .. Len(st) + 1 PROVE CallOK(i)
  BY <1>1 DEF CallsOK
<1>2. i = Len(st) + 1 \/ i \in 1 .. Len(st)
  BY <1>1
<1> QED
  BY <1>1, <1>2 DEF CallOK, Left

\* Frames that stayed the same but for their array.
LEMMA LeftSame ==
  ASSUME NEW st, Left(st), NEW p, DOMAIN p = DOMAIN st,
         \A i \in DOMAIN st : Same(st[i], p[i])
  PROVE  Left(p)
BY DEF Left, Same

LEMMA LeftBelow ==
  ASSUME StackOK(entries, lists, stack), stack # <<>>
  PROVE  Left(Below) /\ Left(<<>>) /\ Left(stack)
<1>1. DOMAIN stack = 1 .. Len(stack) /\ DOMAIN Below = 1 .. Len(stack) - 1 /\ Len(stack) \in Nat
      /\ \A i \in DOMAIN Below : Below[i] = stack[i]
  BY TopFacts
<1>2. \A i \in DOMAIN Below : i \in DOMAIN stack
  BY <1>1
<1> QED
  BY <1>1, <1>2 DEF Left

LEMMA AdvanceCalls ==
  ASSUME OrderlyAll, NEW f, FrameOK(entries, lists, f), f.fn = "flow",
         NEW st, StackOK(entries, lists, st), Left(st), Advance(f, st)
  PROVE  CallsOK
<1>1. ListsOK(entries, lists) /\ EntriesOK(entries) /\ st \in Seq(Frame)
  BY DEF OrderlyAll, Inv, Base, StackOK
<1>2. CASE stack' \in {st, <<>>}
  BY <1>2, LeftCalls DEF Left
<1>3. CASE \E t \in Type : \E i \in Nat : WentOn(f, st, t, i)
  <2>1. PICK t \in Type, i \in Nat : WentOn(f, st, t, i)
    BY <1>3
  <2> DEFINE g == Called(f, t, i)
             v == ArrayOf(f, t)
  <2>2. CalledFields(f, t, i) /\ FrameOK(entries, lists, g)
    BY <1>1, <2>1, CalledFrame
  <2>3. /\ g.called = Append(f.called, v[i]) /\ f.called \in Seq(Ids) /\ v[i] \in Ids
        /\ Valid(v[i]) /\ i \in DOMAIN v /\ g.vec = v /\ g.type = t
    BY <2>2 DEF CalledFields
  <2>4. stack' = Append(st, g)
    BY <2>1 DEF WentOn
  <2> HIDE DEF g, v
  <2>5. Last(g.called) = v[i]
    BY <2>3 DEF Last
  <2>6. v[i] \in Ok
    BY <2>2, <2>3 DEF FrameOK, Holds, Ok, Valid
  <2>7. Rightly(g, v[i])
    <3>1. CASE v[i] \in Elements(lists[t])
      BY <2>6, <3>1 DEF OrderlyAll, ListedInv, Listed, Known, Rightly
    <3>2. CASE v[i] \notin Elements(lists[t])
      <4>1. v # lists[t]
        BY <2>3, <3>2 DEF Elements
      <4> QED
        BY <2>2, <2>3, <3>2, <4>1 DEF FrameOK, Rightly
    <3> QED
      BY <3>1, <3>2
  <2>8. /\ DOMAIN stack' = 1 .. Len(st) + 1 /\ stack'[Len(st) + 1] = g /\ Len(st) \in Nat
        /\ DOMAIN st = 1 .. Len(st) /\ \A j \in 1 .. Len(st) : stack'[j] = st[j]
    BY <1>1, <2>4
  <2> SUFFICES ASSUME NEW j \in 1 .. Len(st) + 1 PROVE CallOK(j)
    BY <2>8 DEF CallsOK
  <2>9. j = Len(st) + 1 \/ j \in 1 .. Len(st)
    BY <2>8
  <2>10. CASE j = Len(st) + 1
    BY <2>5, <2>7, <2>8, <2>10 DEF CallOK
  <2>11. CASE j \in 1 .. Len(st)
    BY <2>8, <2>11 DEF CallOK, Left
  <2> QED
    BY <2>9, <2>10, <2>11
<1> QED
  BY <1>1, <1>2, <1>3, AdvanceCases

LEMMA HookFlowCalls ==
  ASSUME OrderlyAll, HookFlow
  PROVE  CallsOK
<1>1. Advance(Beginning, stack)
  BY DEF HookFlow, Beginning
<1>2. FrameOK(entries, lists, Beginning) /\ Beginning.fn = "flow"
  BY BeginningOK DEF Beginning, OrderlyAll
<1>3. StackOK(entries, lists, stack) /\ Left(stack)
  BY DEF OrderlyAll, Inv, Base, Left
<1> QED
  BY <1>1, <1>2, <1>3, AdvanceCalls

LEMMA FlowReturnCalls ==
  ASSUME OrderlyAll, NEW ret, FlowReturn(ret)
  PROVE  CallsOK
<1>1. stack # <<>> /\ Top.fn = "flow" /\ StackOK(entries, lists, stack)
  BY DEF FlowReturn, OrderlyAll, Inv, Base
<1>2. /\ FrameOK(entries, lists, Top) /\ StackOK(entries, lists, Below)
      /\ stack \in Seq(Frame)
  BY <1>1, TopFacts DEF StackOK
<1>3. Left(Below) /\ Left(<<>>) /\ Left(stack)
  BY <1>1, LeftBelow
<1> DEFINE v == lists[Surveyor]
<1>4. CASE stack' \in {Below, <<>>}
  BY <1>3, <1>4, LeftCalls
<1>5. CASE Advance(Top, Below)
  BY <1>1, <1>2, <1>3, <1>5, AdvanceCalls
<1>6. CASE stack' = Append(stack, Allowing(v, Stop(v, 0), ret = "cancelled"))
  <2>1. Allowing(v, Stop(v, 0), ret = "cancelled").fn # "flow"
    BY DEF Allowing
  <2> QED
    BY <1>2, <1>3, <1>6, <2>1, LeftPush
<1> QED
  BY <1>4, <1>5, <1>6 DEF FlowReturn, Allowing, Abort

LEMMA AllowReturnCalls ==
  ASSUME OrderlyAll, NEW ok \in BOOLEAN, AllowReturn(ok)
  PROVE  CallsOK
<1>1. stack # <<>> /\ Top.fn = "allow" /\ StackOK(entries, lists, stack)
  BY DEF AllowReturn, OrderlyAll, Inv, Base
<1> DEFINE f == Below[Len(Below)]
           rest == SubSeq(Below, 1, Len(Below) - 1)
<1>2. /\ FrameOK(entries, lists, f) /\ f.fn = "flow" /\ StackOK(entries, lists, rest)
      /\ DOMAIN rest = 1 .. Len(stack) - 2 /\ Len(stack) > 1
      /\ \A i \in DOMAIN rest : rest[i] = stack[i]
  BY <1>1, AskingFlow
<1> HIDE DEF f, rest
<1>3. DOMAIN stack = 1 .. Len(stack) /\ Len(stack) \in Nat
  BY <1>1, TopFacts
<1>4. Left(rest) /\ Left(<<>>)
  <2>1. \A i \in DOMAIN rest : i \in DOMAIN stack
    BY <1>2, <1>3
  <2> QED
    BY <1>2, <2>1 DEF Left
<1>5. CASE stack' \in {rest, <<>>}
  BY <1>4, <1>5, LeftCalls
<1>6. CASE Advance(f, rest)
  BY <1>2, <1>4, <1>6, AdvanceCalls
<1>7. CASE /\ Stops(Top.vec, Top.pos) # {}
           /\ stack' = [stack EXCEPT ![Len(stack)].pos = Stop(Top.vec, Top.pos)]
  <2>1. Top.vec \in Arrays /\ Top.pos \in Nat
    BY <1>1, TopFacts, FrameFacts DEF FrameOK
  <2>2. Stop(Top.vec, Top.pos) \in Nat
    BY <1>7, <2>1, StopFacts
  <2>3. /\ DOMAIN stack' = DOMAIN stack
        /\ \A i \in DOMAIN stack :
             (i # Len(stack) => stack'[i] = stack[i]) /\ stack'[i].fn = stack[i].fn
    BY <1>1, <1>7, <2>2, TopWithPos
  <2>4. ASSUME NEW i \in DOMAIN stack' PROVE CallOK(i)
    <3>1. CASE i = Len(stack)
      BY <1>1, <2>3, <3>1 DEF CallOK, Top
    <3>2. CASE i # Len(stack)
      BY <2>3, <3>2 DEF CallOK
    <3> QED
      BY <3>1, <3>2
  <2> QED
    BY <2>4 DEF CallsOK
<1> QED
  BY <1>5, <1>6, <1>7 DEF AllowReturn, Abort, f, rest

\* Cleaning and registering call nobody.
LEMMA CleanLeft ==
  ASSUME Inv
  PROVE  Left(Cleaned(stack)) /\ Cleaned(stack) \in Seq(Frame)
<1>1. Base(entries, lists, stack)
  BY DEF Inv
<1>2. Base(entries, CleanedLists, Cleaned(stack)) /\ DOMAIN Cleaned(stack) = DOMAIN stack
  BY <1>1, CleanBase
<1>3. \A i \in DOMAIN stack : Same(stack[i], Cleaned(stack)[i])
  BY <1>1, CleanedFrame DEF Base
<1>4. Left(stack)
  BY DEF Left
<1> QED
  BY <1>2, <1>3, <1>4, LeftSame DEF Base, StackOK

LEMMA DetachedLeft ==
  ASSUME NEW st, Left(st), NEW t
  PROVE  Left(Detached(st, t))
BY DEF Left, Detached

LEMMA InsertCalls ==
  ASSUME NEW ls \in [Type -> Arrays], NEW st \in Seq(Frame), Left(st),
         NEW new \in Entry, Insert(new, ls, st)
  PROVE  CallsOK
<1> DEFINE t == new.type
<1>1. Left(<<>>)
  BY DEF Left
<1>2. CASE stack' \in {st, <<>>}
  BY <1>1, <1>2, LeftCalls
<1>3. CASE stack' = Detached(st, t)
  BY <1>3, DetachedLeft, LeftCalls
<1>4. CASE Superseded(new, ls, st)
  <2> DEFINE p == WithLast(st, t, NewId)
             f == [fn |-> "superseded", type |-> t, vec |-> lists'[t], live |-> TRUE,
                   entry |-> NewId]
  <2>1. stack' = Append(p, f) /\ f.fn # "flow"
    BY <1>4 DEF Superseded
  <2>2. DOMAIN st = 1 .. Len(st) /\ Len(st) \in Nat
    BY LenProperties
  <2>3. /\ Len(p) = Len(st) /\ DOMAIN p = 1 .. Len(st)
        /\ \A i \in 1 .. Len(st) : /\ p[i].fn = st[i].fn
                                   /\ (p[i].fn = "flow" => p[i].called = st[i].called)
    <3>1. p = [i \in 1 .. Len(st) |-> p[i]]
      BY <2>2 DEF WithLast
    <3>2. \A i \in DOMAIN st : /\ p[i].fn = st[i].fn
                               /\ (p[i].fn = "flow" => p[i].called = st[i].called)
      BY DEF WithLast
    <3> HIDE DEF p
    <3> QED
      BY <2>2, <3>1, <3>2
  <2> HIDE DEF p, f
  <2>4. /\ DOMAIN stack' = 1 .. Len(st) + 1 /\ stack'[Len(st) + 1] = f
        /\ \A i \in 1 .. Len(st) : stack'[i] = p[i]
    BY <2>1, <2>2, <2>3
  <2> SUFFICES ASSUME NEW i \in 1 .. Len(st) + 1 PROVE CallOK(i)
    BY <2>4 DEF CallsOK
  <2>5. i = Len(st) + 1 \/ i \in 1 .. Len(st)
    BY <2>2
  <2> QED
    BY <2>1, <2>2, <2>3, <2>4, <2>5 DEF CallOK, Left
<1> QED
  BY <1>2, <1>3, <1>4, InsertCases DEF Appended, NobodyToTell, NotRegistered

LEMMA RegisterCalls ==
  ASSUME OrderlyAll, NEW new \in Entry, Register(new)
  PROVE  CallsOK
<1> Inv
  BY DEF OrderlyAll
<1>1. Left(Cleaned(stack)) /\ Cleaned(stack) \in Seq(Frame) /\ Left(<<>>)
  BY CleanLeft DEF Left
<1>2. CleanedLists \in [Type -> Arrays]
  BY CleanBase DEF Inv, Base, ListsOK
<1>3. CASE stack' \in {Cleaned(stack), <<>>}
  BY <1>1, <1>3, LeftCalls
<1>4. CASE stack' = Append(Cleaned(stack), Asking(new, CleanedLists[Surveyor]))
  <2>1. Asking(new, CleanedLists[Surveyor]).fn # "flow"
    BY DEF Asking
  <2> QED
    BY <1>1, <1>4, <2>1, LeftPush
<1>5. CASE Insert(new, CleanedLists, Cleaned(stack))
  BY <1>1, <1>2, <1>5, InsertCalls
<1> QED
  BY <1>3, <1>4, <1>5 DEF Register, Asking, Abort

LEMMA RegisterReturnCalls ==
  ASSUME OrderlyAll, NEW ok \in BOOLEAN, RegisterReturn(ok)
  PROVE  CallsOK
<1>1. /\ Base(entries, lists, stack) /\ StackOK(entries, lists, stack)
      /\ stack # <<>> /\ Top.fn = "register"
  BY DEF OrderlyAll, Inv, RegisterReturn, Base
<1>2. FrameOK(entries, lists, Top) /\ Below \in Seq(Frame) /\ lists \in [Type -> Arrays]
  BY <1>1, TopFacts DEF Base, StackOK, ListsOK
<1>3. Top.new \in Entry /\ Top.vec \in Arrays /\ Top.pos \in Nat
  BY <1>1, <1>2, FrameFacts DEF FrameOK
<1>4. Left(Below) /\ Left(<<>>)
  BY <1>1, LeftBelow
<1>5. CASE stack' \in {Below, <<>>}
  BY <1>4, <1>5, LeftCalls
<1>6. CASE Insert(Top.new, lists, Below)
  BY <1>2, <1>3, <1>4, <1>6, InsertCalls
<1>7. CASE /\ Stops(Top.vec, Top.pos) # {}
           /\ stack' = [stack EXCEPT ![Len(stack)].pos = Stop(Top.vec, Top.pos)]
  <2>1. Stop(Top.vec, Top.pos) \in Nat
    BY <1>3, <1>7, StopFacts
  <2>2. /\ DOMAIN stack' = DOMAIN stack
        /\ \A i \in DOMAIN stack :
             (i # Len(stack) => stack'[i] = stack[i]) /\ stack'[i].fn = stack[i].fn
    BY <1>1, <1>7, <2>1, TopWithPos
  <2>3. ASSUME NEW i \in DOMAIN stack' PROVE CallOK(i)
    <3>1. CASE i = Len(stack)
      BY <1>1, <2>2, <3>1 DEF CallOK, Top
    <3>2. CASE i # Len(stack)
      BY <2>2, <3>2 DEF CallOK
    <3> QED
      BY <3>1, <3>2
  <2> QED
    BY <2>3 DEF CallsOK
<1> QED
  BY <1>5, <1>6, <1>7 DEF RegisterReturn, Abort

LEMMA NextCalls ==
  ASSUME OrderlyAll, [Next]_vars
  PROVE  CallsOK
<1>1. Inv /\ OrderlyInv /\ Left(stack) /\ Left(<<>>)
  BY DEF OrderlyAll, Left
<1>2. CASE stack' \in {stack, <<>>}
  BY <1>1, <1>2, LeftCalls
<1>3. ASSUME NEW c \in CONSUMER, NEW p \in Prios, NEW t \in Uses,
             Register([who |-> c, prio |-> p, type |-> t])
      PROVE  CallsOK
  <2>1. [who |-> c, prio |-> p, type |-> t] \in Entry
    BY ConstantsAssumption DEF Entry
  <2> QED
    BY <1>3, <2>1, RegisterCalls
<1>4. CASE \E ok \in BOOLEAN : RegisterReturn(ok) \/ AllowReturn(ok)
  BY <1>4, RegisterReturnCalls, AllowReturnCalls
<1>5. CASE SupersededReturn
  <2>1. stack # <<>> /\ StackOK(entries, lists, stack)
        /\ (stack' = <<>> \/ stack' = Detached(Below, Top.type))
    BY <1>1, <1>5 DEF SupersededReturn, Abort, Inv, Base
  <2> QED
    BY <1>2, <2>1, LeftBelow, DetachedLeft, LeftCalls
<1>6. CASE \/ \E c \in CONSUMER : Unregister(c) \/ Destruct(c)
           \/ \E e \in Ids : Expire(e)
           \/ CallbackFails \/ CleanHookMapping \/ UNCHANGED vars
  <2>1. stack' \in {stack, <<>>}
    BY <1>6 DEF Unregister, Drop, Destruct, Expire, CallbackFails, CleanHookMapping, vars, Abort
  <2> QED
    BY <1>2, <2>1
<1>7. CASE HHasConsumers
  <2>1. stack' \in {Cleaned(stack), <<>>}
    BY <1>7 DEF HHasConsumers, Abort
  <2> QED
    BY <1>1, <2>1, CleanLeft, LeftCalls
<1>8. CASE HookFlow
  BY <1>8, HookFlowCalls
<1>9. CASE \E ret \in {"no_mod", "altered", "cancelled"} : FlowReturn(ret)
  BY <1>9, FlowReturnCalls
<1> QED
  BY <1>3, <1>4, <1>5, <1>6, <1>7, <1>8, <1>9 DEF Next

\* HookFlow() calls nobody who was unregistered, destructed, expired or
\* superseded before, also if that happened while the flow was going on: whoever
\* is called was accepted, or got into the array by a registration that an error
\* ended.  Only a flow that goes on with an array the hook has replaced calls,
\* besides, entries that are in the hook no more.
THEOREM OnlyStandingCalled == Orderly => (Spec => CallsStanding)
<1> SUFFICES ASSUME Orderly PROVE Spec => CallsStanding
  OBVIOUS
<1>1. OrderlyAll /\ [Next]_vars =>
        [\A i \in 1 .. MaxDepth :
           Calls(i) => LET f == stack'[i]
                           e == Last(f.called)
                       IN \/ e \in standing \cup broken
                          \/ ~f.live /\ e \notin Elements(lists[f.type])]_vars
  <2> SUFFICES ASSUME OrderlyAll, [Next]_vars, NEW i \in 1 .. MaxDepth, Calls(i)
               PROVE  Rightly(stack'[i], Last(stack'[i].called))
    BY DEF Rightly
  <2>1. CallOK(i) /\ stack'[i].fn = "flow"
    BY NextCalls DEF CallsOK, Calls
  <2>2. CASE i \in DOMAIN stack /\ stack[i].fn = "flow" /\ stack'[i].called = stack[i].called
    <3>1. stack[i] \in Frame
      BY <2>2 DEF OrderlyAll, Inv, Base, StackOK, FrameOK
    <3>2. stack[i].called \in Seq(Ids)
      BY <2>2, <3>1, FrameFacts
    <3>3. Len(stack[i].called) \in Nat
      BY <3>2, LenProperties
    <3>4. ~(Len(stack'[i].called) > Len(stack[i].called))
      BY <2>2, <3>3
    <3> QED
      BY <2>2, <3>4 DEF Calls
  <2> QED
    BY <2>1, <2>2 DEF CallOK
<1> QED
  BY <1>1, ListedInvariant, PTL DEF Spec, CallsStanding
=============================================================================
