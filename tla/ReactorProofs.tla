--------------------------- MODULE ReactorProofs ---------------------------
(* Theorems about Reactor.tla for every number of timers, descriptors and     *)
(* waits.                                                                     *)
EXTENDS Reactor, SequenceTheorems, FiniteSetTheorems

-----------------------------------------------------------------------------
(* The heap of timers.  A heap is well-formed when every slot in it is where  *)
(* its position says; a position is in order when its due time is not before  *)
(* its parent's.                                                              *)
HeapRec == [h : Seq(Slots), p : [Slots -> Nat]]
Dues == [Slots -> Int]

Placed(hp) == \A k \in 1..Len(hp.h) : hp.p[hp.h[k]] = k
Ordered(hp, due, k) == due[hp.h[k \div 2]] <= due[hp.h[k]]
Members(h) == {h[k] : k \in 1..Len(h)}

\* All positions are in order.
InOrder(hp, due) == \A k \in 2..Len(hp.h) : Ordered(hp, due, k)

\* The children of i are not before the parent of i.
OverGap(hp, due, i) ==
    i > 1 => \A k \in 2..Len(hp.h) : k \div 2 = i => due[hp.h[i \div 2]] <= due[hp.h[k]]

\* On the way up all positions but i are in order.
Rising(hp, due, i) ==
    /\ \A k \in 2..Len(hp.h) : k # i => Ordered(hp, due, k)
    /\ OverGap(hp, due, i)

\* On the way down from pos to i all are in order but the children of i and,
\* if nothing has moved yet, pos.
Sinking(hp, due, pos, i) ==
    /\ pos <= i
    /\ \A k \in 2..Len(hp.h) : k \div 2 # i /\ k # pos => Ordered(hp, due, k)
    /\ OverGap(hp, due, i)
    /\ i # pos /\ pos > 1 => Ordered(hp, due, pos)

LEMMA SwapType ==
  ASSUME NEW hp \in HeapRec, NEW i \in 1..Len(hp.h), NEW j \in 1..Len(hp.h)
  PROVE  Swap(hp, i, j) \in HeapRec /\ Len(Swap(hp, i, j).h) = Len(hp.h)
<1> DEFINE h == hp.h
           p == hp.p
           n == Len(h)
<1>0. h \in Seq(Slots) /\ p \in [Slots -> Nat] /\ n \in Nat /\ \A k \in 1..n : h[k] \in Slots
  BY DEF HeapRec
<1>1. /\ Swap(hp, i, j).h = [h EXCEPT ![i] = h[j], ![j] = h[i]]
      /\ Swap(hp, i, j).p = [p EXCEPT ![h[j]] = i, ![h[i]] = j]
      /\ Swap(hp, i, j) = [h |-> Swap(hp, i, j).h, p |-> Swap(hp, i, j).p]
  BY DEF Swap
<1> HIDE DEF h, p
<1>2. i \in 1..n /\ j \in 1..n  BY DEF h
<1>3. [h EXCEPT ![i] = h[j], ![j] = h[i]] \in Seq(Slots) /\ Len([h EXCEPT ![i] = h[j], ![j] = h[i]]) = n
  BY <1>0, <1>2, ExceptSeq
<1>4. [p EXCEPT ![h[j]] = i, ![h[i]] = j] \in [Slots -> Nat]  BY <1>0, <1>2
<1>5. Swap(hp, i, j).h \in Seq(Slots) /\ Len(Swap(hp, i, j).h) = n /\ Swap(hp, i, j).p \in [Slots -> Nat]
  BY <1>1, <1>3, <1>4
<1> QED  BY <1>1, <1>5 DEF HeapRec, h

LEMMA Swapping ==
  ASSUME NEW hp \in HeapRec, Placed(hp), NEW i \in 1..Len(hp.h), NEW j \in 1..Len(hp.h)
  PROVE  /\ Swap(hp, i, j) \in HeapRec /\ Placed(Swap(hp, i, j))
         /\ Len(Swap(hp, i, j).h) = Len(hp.h)
         /\ Swap(hp, i, j).h[i] = hp.h[j] /\ Swap(hp, i, j).h[j] = hp.h[i]
         /\ \A k \in 1..Len(hp.h) : k # i /\ k # j => Swap(hp, i, j).h[k] = hp.h[k]
         /\ Members(Swap(hp, i, j).h) = Members(hp.h)
         /\ \A s \in Slots : s \notin Members(hp.h) => Swap(hp, i, j).p[s] = hp.p[s]
<1> DEFINE h == hp.h
           p == hp.p
           n == Len(h)
           g == [h EXCEPT ![i] = h[j], ![j] = h[i]]
           q == [p EXCEPT ![h[j]] = i, ![h[i]] = j]
<1>0. h \in Seq(Slots) /\ p \in [Slots -> Nat] /\ n \in Nat /\ \A k \in 1..n : p[h[k]] = k /\ h[k] \in Slots
  BY DEF HeapRec, Placed
<1>1. Swap(hp, i, j).h = g /\ Swap(hp, i, j).p = q /\ Swap(hp, i, j) = [h |-> g, p |-> q]
  BY DEF Swap
<1> HIDE DEF h, p
<1>2. h \in [1..n -> Slots] /\ i \in 1..n /\ j \in 1..n  BY <1>0 DEF h
<1>3. /\ g \in [1..n -> Slots] /\ g[i] = h[j] /\ g[j] = h[i]
      /\ \A k \in 1..n : k # i /\ k # j => g[k] = h[k]
  BY <1>2
<1>4. g \in Seq(Slots) /\ Len(g) = n
  BY <1>0, <1>2, <1>3, ExceptSeq
<1>5. q \in [Slots -> Nat] /\ q[h[i]] = j /\ (h[i] # h[j] => q[h[j]] = i)
      /\ \A s \in Slots : s # h[i] /\ s # h[j] => q[s] = p[s]
  BY <1>0, <1>2
<1> HIDE DEF g, q
<1>6. \A k \in 1..n : q[g[k]] = k
  <2> SUFFICES ASSUME NEW k \in 1..n PROVE q[g[k]] = k  OBVIOUS
  <2>1. CASE k = j  BY <2>1, <1>3, <1>5
  <2>2. CASE k = i /\ k # j
    <3>1. h[i] # h[j]  BY <1>0, <1>2, <2>2
    <3> QED  BY <2>2, <3>1, <1>3, <1>5
  <2>3. CASE k # i /\ k # j
    <3>1. g[k] = h[k] /\ h[k] # h[i] /\ h[k] # h[j]  BY <1>0, <1>2, <1>3, <2>3
    <3> QED  BY <3>1, <1>0, <1>5
  <2> QED  BY <2>1, <2>2, <2>3
<1>7. Members(g) = Members(h)
  <2>1. Members(g) \subseteq Members(h)
    <3> SUFFICES ASSUME NEW k \in 1..n PROVE g[k] \in Members(h)  BY <1>4 DEF Members
    <3> QED  BY <1>2, <1>3 DEF Members
  <2>2. Members(h) \subseteq Members(g)
    <3> SUFFICES ASSUME NEW k \in 1..n PROVE h[k] \in Members(g)  BY DEF Members
    <3>1. CASE k = i  BY <3>1, <1>2, <1>3, <1>4 DEF Members
    <3>2. CASE k = j  BY <3>2, <1>2, <1>3, <1>4 DEF Members
    <3>3. CASE k # i /\ k # j  BY <3>3, <1>2, <1>3, <1>4 DEF Members
    <3> QED  BY <3>1, <3>2, <3>3
  <2> QED  BY <2>1, <2>2
<1>8. \A s \in Slots : s \notin Members(h) => q[s] = p[s]
  BY <1>2, <1>5 DEF Members
<1>9. Swap(hp, i, j) \in HeapRec  BY <1>1, <1>4, <1>5 DEF HeapRec
<1>10. Placed(Swap(hp, i, j))  BY <1>1, <1>4, <1>6 DEF Placed
<1> QED  BY <1>1, <1>3, <1>4, <1>7, <1>8, <1>9, <1>10 DEF h, p

\* A heap of n slots, the members ms, that is well-formed.
Good(hp, ms, n) == hp \in HeapRec /\ Placed(hp) /\ Members(hp.h) = ms /\ Len(hp.h) = n

LEMMA Halves ==
  ASSUME NEW k \in Nat
  PROVE  /\ k \div 2 \in Nat
         /\ k >= 2 => k \div 2 >= 1 /\ k \div 2 < k
         /\ \A i \in Nat : k \div 2 = i <=> (k = 2 * i \/ k = 2 * i + 1)
OBVIOUS

LEMMA GoodValues ==
  ASSUME NEW hp \in HeapRec, NEW due \in Dues
  PROVE  Len(hp.h) \in Nat /\ \A k \in 1..Len(hp.h) : hp.h[k] \in Slots /\ due[hp.h[k]] \in Int
BY DEF HeapRec, Dues

\* A swap with the parent, on the way up.
LEMMA RiseSwap ==
  ASSUME NEW hp \in HeapRec, Placed(hp), NEW due \in Dues, NEW i \in 2..Len(hp.h),
         Rising(hp, due, i), ~Ordered(hp, due, i)
  PROVE  Rising(Swap(hp, i \div 2, i), due, i \div 2)
<1> DEFINE h == hp.h
           n == Len(h)
           c == i \div 2
           g == Swap(hp, c, i).h
           d(k) == due[h[k]]
           e(k) == due[g[k]]
<1>0. n \in Nat /\ \A k \in 1..n : d(k) \in Int  BY GoodValues
<1>1. i \in Nat /\ c \in 1..n /\ c < i /\ i \in 1..n  BY <1>0, Halves
<1>2. /\ Len(g) = n /\ g[c] = h[i] /\ g[i] = h[c]
      /\ \A k \in 1..n : k # c /\ k # i => g[k] = h[k]
  BY <1>1, Swapping
<1>3. e(c) = d(i) /\ e(i) = d(c) /\ \A k \in 1..n : k # c /\ k # i => e(k) = d(k)
  BY <1>2
<1>4. d(i) < d(c)  BY <1>0, <1>1 DEF Ordered
<1>5. \A k \in 2..n : k # i => d(k \div 2) <= d(k)  BY DEF Rising, Ordered
<1>6. \A k \in 2..n : k \div 2 = i => d(c) <= d(k)  BY <1>1 DEF Rising, OverGap
<1>7. \A k \in 2..n : k \in 1..n /\ k \div 2 \in 1..n /\ k \div 2 < k
  BY <1>0, Halves
<1> HIDE DEF d, e
<1>8. \A k \in 2..n : k # c => e(k \div 2) <= e(k)
  <2> SUFFICES ASSUME NEW k \in 2..n, k # c PROVE e(k \div 2) <= e(k)  OBVIOUS
  <2>1. CASE k = i  BY <2>1, <1>0, <1>1, <1>3, <1>4
  <2>2. CASE k # i /\ k \div 2 = i
    <3>1. e(k) = d(k) /\ e(k \div 2) = d(c)  BY <2>2, <1>3, <1>7
    <3> QED  BY <3>1, <2>2, <1>6
  <2>3. CASE k # i /\ k \div 2 = c
    <3>1. e(k) = d(k) /\ e(k \div 2) = d(i) /\ d(c) <= d(k)  BY <2>3, <1>3, <1>5, <1>7
    <3> QED  BY <3>1, <1>0, <1>1, <1>4, <1>7
  <2>4. CASE k # i /\ k \div 2 # i /\ k \div 2 # c
    <3>1. e(k) = d(k) /\ e(k \div 2) = d(k \div 2)  BY <2>4, <1>3, <1>7
    <3> QED  BY <3>1, <2>4, <1>5
  <2> QED  BY <2>1, <2>2, <2>3, <2>4
<1>9. c > 1 => \A k \in 2..n : k \div 2 = c => e(c \div 2) <= e(k)
  <2> SUFFICES ASSUME c > 1, NEW k \in 2..n, k \div 2 = c PROVE e(c \div 2) <= e(k)
    OBVIOUS
  <2>1. c \in 2..n /\ c \div 2 \in 1..n /\ c \div 2 < c  BY <1>0, <1>1, <1>7
  <2>2. e(c \div 2) = d(c \div 2) /\ d(c \div 2) <= d(c)  BY <2>1, <1>1, <1>3, <1>5
  <2>3. CASE k = i  BY <2>2, <2>3, <1>3
  <2>4. CASE k # i
    <3>1. e(k) = d(k) /\ d(c) <= d(k)  BY <2>4, <1>3, <1>5, <1>7
    <3> QED  BY <3>1, <2>1, <2>2, <1>0, <1>1, <1>7
  <2> QED  BY <2>3, <2>4
<1> QED  BY <1>2, <1>8, <1>9 DEF Rising, OverGap, Ordered, e

\* heap_sift_up repairs a heap whose only fault is that position i is before its
\* parent.
LEMMA SiftsUp ==
  ASSUME NEW hp \in HeapRec, Placed(hp), NEW due \in Dues, NEW i \in 1..Len(hp.h),
         Rising(hp, due, i)
  PROVE  /\ Good(SiftUp(hp, i, due), Members(hp.h), Len(hp.h))
         /\ InOrder(SiftUp(hp, i, due), due)
<1> DEFINE n == Len(hp.h)
           ms == Members(hp.h)
           step == UpOnce(due)
           s == [hp |-> hp, i |-> i]
           J == {st \in Sifts : Good(st.hp, ms, n) /\ Rising(st.hp, due, st.i)}
           f == [st \in J |-> st.i]
           Stuck(st) == st.i = 1 \/ due[st.hp.h[st.i \div 2]] <= due[st.hp.h[st.i]]
           Up(st) == [hp |-> Swap(st.hp, st.i \div 2, st.i), i |-> st.i \div 2]
<1>0. n \in Nat  BY GoodValues
<1>1. \A st \in Sifts : /\ st.hp \in HeapRec /\ st.i \in 1..Len(st.hp.h)
                        /\ st.i \in Nat /\ Len(st.hp.h) \in Nat
  BY GoodValues DEF Sifts, HeapRec
<1>2. \A st \in Sifts : step[st] = IF Stuck(st) THEN st ELSE Up(st)
  BY DEF UpOnce
<1>3. \A hq \in HeapRec : \A k \in 1..Len(hq.h) : [hp |-> hq, i |-> k] \in Sifts
  BY DEF Sifts, HeapRec
<1>4. step \in [Sifts -> Sifts]
  <2>1. ASSUME NEW st \in Sifts PROVE (IF Stuck(st) THEN st ELSE Up(st)) \in Sifts
    <3>1. CASE Stuck(st)  BY <3>1
    <3>2. CASE ~Stuck(st)
      <4>1. st.i \div 2 \in 1..Len(st.hp.h)  BY <1>1, <3>2, Halves
      <4>2. Swap(st.hp, st.i \div 2, st.i) \in HeapRec /\ Len(Swap(st.hp, st.i \div 2, st.i).h) = Len(st.hp.h)
        BY <1>1, <4>1, SwapType
      <4> QED  BY <3>2, <4>1, <4>2, <1>3
    <3> QED  BY <3>1, <3>2
  <2> HIDE DEF Stuck, Up
  <2> QED  BY <2>1 DEF UpOnce, Stuck, Up
<1>5. s \in J
  <2>1. s \in Sifts  BY <1>3
  <2> QED  BY <2>1 DEF Good
<1>6. ASSUME NEW st \in J PROVE step[st] \in J /\ (step[st] = st \/ step[st].i < st.i)
  <2>0. /\ st \in Sifts /\ st.hp \in HeapRec /\ Placed(st.hp) /\ Members(st.hp.h) = ms
        /\ Len(st.hp.h) = n /\ Rising(st.hp, due, st.i) /\ st.i \in 1..n
    BY <1>1 DEF Good
  <2>1. CASE Stuck(st)
    <3>1. step[st] = st  BY <1>2, <2>0, <2>1
    <3> QED  BY <3>1
  <2>2. CASE ~Stuck(st)
    <3>1. step[st] = Up(st)  BY <1>2, <2>0, <2>2
    <3>2. st.i \in 2..n /\ ~Ordered(st.hp, due, st.i)  BY <1>0, <2>0, <2>2 DEF Ordered
    <3>3. st.i \div 2 \in 1..n /\ st.i \div 2 < st.i  BY <1>0, <3>2, Halves
    <3>4. Good(Swap(st.hp, st.i \div 2, st.i), ms, n)
      <4>1. st.i \div 2 \in 1..Len(st.hp.h) /\ st.i \in 1..Len(st.hp.h)  BY <2>0, <3>3
      <4> QED  BY <2>0, <4>1, Swapping DEF Good
    <3>5. Rising(Swap(st.hp, st.i \div 2, st.i), due, st.i \div 2)
      <4>1. st.i \in 2..Len(st.hp.h)  BY <2>0, <3>2
      <4> QED  BY <2>0, <3>2, <4>1, RiseSwap
    <3>6. Up(st) \in Sifts  BY <1>3, <3>3, <3>4 DEF Good
    <3> QED  BY <3>1, <3>3, <3>4, <3>5, <3>6
  <2> QED  BY <2>1, <2>2
<1>7. f \in [J -> Nat] /\ \A st \in J : f[st] = st.i  BY <1>1
<1>8. f[s] <= n  BY <1>0, <1>5, <1>7
<1>9. J \in SUBSET Sifts  OBVIOUS
<1>10. SiftUp(hp, i, due) = Iterate(step, s, n).hp  BY DEF SiftUp
<1> DEFINE e == Iterate(step, s, n)
<1>11. e \in J /\ step[e] = e
  <2> HIDE DEF J, f, s, step
  <2>1. \A x \in J : step[x] \in J  BY <1>6
  <2>2. \A x \in J : step[x] = x \/ f[step[x]] < f[x]  BY <1>6, <1>7
  <2> QED  BY <1>0, <1>4, <1>5, <1>7, <1>8, <1>9, <2>1, <2>2, LoopEnds
<1> HIDE DEF e
<1>12. Stuck(e)
  <2> SUFFICES ASSUME ~Stuck(e) PROVE FALSE  OBVIOUS
  <2>1. step[e] = Up(e) /\ e \in Sifts  BY <1>2, <1>11
  <2>2. e.i = e.i \div 2  BY <1>11, <2>1
  <2> QED  BY <1>1, <2>1, <2>2, Halves
<1>13. Good(e.hp, ms, n) /\ Rising(e.hp, due, e.i) /\ e.i \in 1..n  BY <1>1, <1>11 DEF Good
<1>14. InOrder(e.hp, due)
  <2> SUFFICES ASSUME NEW k \in 2..n PROVE Ordered(e.hp, due, k)  BY <1>13 DEF InOrder, Good
  <2>1. CASE k = e.i  BY <2>1, <1>12 DEF Ordered
  <2>2. CASE k # e.i  BY <2>2, <1>13 DEF Rising, Good
  <2> QED  BY <2>1, <2>2
<1> QED  BY <1>10, <1>13, <1>14 DEF e

\* The choice heap_sift_down makes among a position and its children.
LEMMA SmallestIs ==
  ASSUME NEW hp \in HeapRec, NEW due \in Dues, NEW i \in 1..Len(hp.h)
  PROVE  \/ /\ Smallest(hp.h, i, due) = i
            /\ \A k \in 2..Len(hp.h) : k \div 2 = i => Ordered(hp, due, k)
         \/ /\ Smallest(hp.h, i, due) \in 2..Len(hp.h) /\ Smallest(hp.h, i, due) \div 2 = i
            /\ due[hp.h[Smallest(hp.h, i, due)]] < due[hp.h[i]]
            /\ \A k \in 2..Len(hp.h) : k \div 2 = i
                 => due[hp.h[Smallest(hp.h, i, due)]] <= due[hp.h[k]]
<1> DEFINE n == Len(hp.h)
           d(k) == due[hp.h[k]]
           l == IF 2 * i <= n /\ d(2 * i) < d(i) THEN 2 * i ELSE i
           c == IF 2 * i + 1 <= n /\ d(2 * i + 1) < d(l) THEN 2 * i + 1 ELSE l
<1>0. n \in Nat /\ \A k \in 1..n : d(k) \in Int  BY GoodValues
<1>1. Smallest(hp.h, i, due) = c  BY DEF Smallest
<1>2. i \in 1..n /\ i \in Nat /\ 2 * i \in Nat /\ 2 * i + 1 \in Nat  BY <1>0
<1>3. \A k \in 2..n : k \div 2 = i <=> (k = 2 * i \/ k = 2 * i + 1)  BY <1>0, <1>2, Halves
<1>4. (2 * i) \div 2 = i /\ (2 * i + 1) \div 2 = i  BY <1>2
<1> HIDE DEF d, n
<1>5. 2 * i >= 2 /\ 2 * i + 1 >= 2  BY <1>0, <1>2
<1>6. CASE c = i
  <2>1. \A k \in 2..n : k \div 2 = i => d(i) <= d(k)
    <3> SUFFICES ASSUME NEW k \in 2..n, k \div 2 = i PROVE d(i) <= d(k)  OBVIOUS
    <3>0. k \in 1..n /\ d(k) \in Int /\ d(i) \in Int  BY <1>0, <1>2
    <3>1. CASE k = 2 * i  BY <3>0, <3>1, <1>0, <1>2, <1>6
    <3>2. CASE k = 2 * i + 1
      <4>1. l = i  BY <1>0, <1>2, <1>6
      <4> QED  BY <3>0, <3>2, <4>1, <1>0, <1>2, <1>6
    <3> QED  BY <3>1, <3>2, <1>3
  <2> QED  BY <1>1, <1>6, <2>1 DEF Ordered, n, d
<1>7. CASE c # i
  <2>1. c \in 2..n /\ c \div 2 = i /\ d(c) < d(i)
    <3>1. CASE 2 * i + 1 <= n /\ d(2 * i + 1) < d(l)
      <4>1. c = 2 * i + 1 /\ c \in 2..n /\ c \div 2 = i  BY <3>1, <1>0, <1>2, <1>4, <1>5
      <4>2. 2 * i \in 1..n /\ 2 * i + 1 \in 1..n  BY <3>1, <1>0, <1>2
      <4>3. d(2 * i) \in Int /\ d(i) \in Int /\ d(2 * i + 1) \in Int  BY <1>0, <1>2, <4>2
      <4>4. d(l) <= d(i)  BY <4>2, <4>3
      <4>5. d(l) \in Int  BY <4>3
      <4> QED  BY <3>1, <4>1, <4>3, <4>4, <4>5
    <3>2. CASE ~(2 * i + 1 <= n /\ d(2 * i + 1) < d(l))
      <4>1. c = l /\ l = 2 * i /\ 2 * i <= n /\ d(2 * i) < d(i)  BY <3>2, <1>7
      <4> HIDE DEF c, l
      <4> QED  BY <4>1, <1>0, <1>2, <1>4, <1>5
    <3> QED  BY <3>1, <3>2
  <2>2. \A k \in 2..n : k \div 2 = i => d(c) <= d(k)
    <3> SUFFICES ASSUME NEW k \in 2..n, k \div 2 = i PROVE d(c) <= d(k)  OBVIOUS
    <3>0. k \in 1..n /\ d(k) \in Int /\ d(i) \in Int /\ c \in 1..n /\ d(c) \in Int
      <4>1. k \in 1..n /\ c \in 1..n  BY <1>0, <2>1
      <4> HIDE DEF c
      <4> QED  BY <4>1, <1>0, <1>2
    <3>1. CASE 2 * i + 1 <= n /\ d(2 * i + 1) < d(l)
      <4>1. c = 2 * i + 1  BY <3>1
      <4>2. 2 * i \in 1..n /\ d(2 * i) \in Int  BY <3>1, <1>0, <1>2
      <4>3. d(l) <= d(2 * i) /\ d(l) \in Int  BY <4>2, <3>0
      <4>4. CASE k = 2 * i  BY <3>0, <3>1, <4>1, <4>2, <4>3, <4>4
      <4>5. CASE k = 2 * i + 1  BY <3>0, <4>1, <4>5
      <4> QED  BY <4>4, <4>5, <1>3
    <3>2. CASE ~(2 * i + 1 <= n /\ d(2 * i + 1) < d(l))
      <4>1. c = l /\ l = 2 * i  BY <3>2, <1>7
      <4>2. CASE k = 2 * i  BY <3>0, <4>1, <4>2
      <4>3. CASE k = 2 * i + 1  BY <3>0, <3>2, <4>1, <4>3, <1>0, <1>2
      <4> QED  BY <4>2, <4>3, <1>3
    <3> QED  BY <3>1, <3>2
  <2> HIDE DEF c
  <2> QED  BY <1>1, <2>1, <2>2 DEF n, d
<1> QED  BY <1>6, <1>7

\* A swap with the least child, on the way down.
LEMMA SinkSwap ==
  ASSUME NEW hp \in HeapRec, Placed(hp), NEW due \in Dues, NEW pos \in 1..Len(hp.h),
         NEW i \in 1..Len(hp.h), Sinking(hp, due, pos, i),
         NEW c \in 2..Len(hp.h), c \div 2 = i, due[hp.h[c]] < due[hp.h[i]],
         \A k \in 2..Len(hp.h) : k \div 2 = i => due[hp.h[c]] <= due[hp.h[k]]
  PROVE  Sinking(Swap(hp, i, c), due, pos, c)
<1> DEFINE h == hp.h
           n == Len(h)
           g == Swap(hp, i, c).h
           d(k) == due[h[k]]
           e(k) == due[g[k]]
<1>0. n \in Nat /\ \A k \in 1..n : d(k) \in Int  BY GoodValues
<1>1. i \in Nat /\ c \in Nat /\ c \in 1..n /\ i < c /\ i \in 1..n /\ pos \in Nat /\ pos \in 1..n
  BY <1>0, Halves
<1>2. /\ Len(g) = n /\ g[i] = h[c] /\ g[c] = h[i]
      /\ \A k \in 1..n : k # c /\ k # i => g[k] = h[k]
  BY <1>1, Swapping
<1>3. e(i) = d(c) /\ e(c) = d(i) /\ \A k \in 1..n : k # c /\ k # i => e(k) = d(k)
  BY <1>2
<1>4. d(c) < d(i) /\ \A k \in 2..n : k \div 2 = i => d(c) <= d(k)  OBVIOUS
<1>5. /\ pos <= i
      /\ \A k \in 2..n : k \div 2 # i /\ k # pos => d(k \div 2) <= d(k)
      /\ i > 1 => \A k \in 2..n : k \div 2 = i => d(i \div 2) <= d(k)
      /\ i # pos /\ pos > 1 => d(pos \div 2) <= d(pos)
  BY DEF Sinking, Ordered, OverGap
<1>6. \A k \in 2..n : k \in 1..n /\ k \div 2 \in 1..n /\ k \div 2 < k
  BY <1>0, Halves
<1>7. c \div 2 = i  OBVIOUS
<1> HIDE DEF d, e
<1>8. \A k \in 2..n : k \div 2 # c /\ k # pos => e(k \div 2) <= e(k)
  <2> SUFFICES ASSUME NEW k \in 2..n, k \div 2 # c, k # pos PROVE e(k \div 2) <= e(k)
    OBVIOUS
  <2>1. CASE k = c  BY <2>1, <1>0, <1>1, <1>3, <1>4, <1>7
  <2>2. CASE k # c /\ k \div 2 = i
    <3>1. k # i /\ e(k) = d(k) /\ e(k \div 2) = d(c)  BY <2>2, <1>3, <1>6
    <3> QED  BY <3>1, <2>2, <1>4
  <2>3. CASE k = i
    <3>1. e(k) = d(c) /\ k \div 2 # i /\ k \div 2 # c  BY <2>3, <1>1, <1>3, <1>6
    <3>2. e(k \div 2) = d(i \div 2)  BY <2>3, <3>1, <1>3, <1>6
    <3> QED  BY <3>1, <3>2, <2>3, <1>1, <1>5, <1>7
  <2>4. CASE k # c /\ k # i /\ k \div 2 # i
    <3>1. e(k) = d(k) /\ e(k \div 2) = d(k \div 2)  BY <2>4, <1>3, <1>6
    <3> QED  BY <3>1, <2>4, <1>5
  <2> QED  BY <2>1, <2>2, <2>3, <2>4
<1>9. \A k \in 2..n : k \div 2 = c => e(c \div 2) <= e(k)
  <2> SUFFICES ASSUME NEW k \in 2..n, k \div 2 = c PROVE e(c \div 2) <= e(k)  OBVIOUS
  <2>1. k # c /\ k # i /\ k # pos /\ k \div 2 # i  BY <1>1, <1>5, <1>6
  <2>2. e(k) = d(k) /\ d(c) <= d(k)  BY <2>1, <1>3, <1>5, <1>6
  <2> QED  BY <2>2, <1>3, <1>7
<1>10. pos <= c /\ (pos > 1 => e(pos \div 2) <= e(pos))
  <2> SUFFICES ASSUME pos > 1 PROVE e(pos \div 2) <= e(pos)  BY <1>1, <1>5
  <2>1. pos \in 2..n /\ pos \div 2 \in 1..n /\ pos \div 2 < pos  BY <1>0, <1>1, <1>6
  <2>2. pos \div 2 # i /\ pos \div 2 # c /\ pos # c  BY <2>1, <1>1, <1>5
  <2>3. e(pos \div 2) = d(pos \div 2)  BY <2>1, <2>2, <1>3
  <2>4. CASE i = pos  BY <2>3, <2>4, <1>1, <1>3, <1>5, <1>7
  <2>5. CASE i # pos  BY <2>2, <2>3, <2>5, <1>1, <1>3, <1>5
  <2> QED  BY <2>4, <2>5
<1> QED  BY <1>2, <1>8, <1>9, <1>10 DEF Sinking, OverGap, Ordered, e

\* heap_sift_down repairs a heap whose faults are about position pos alone, but
\* for the parent of pos.
LEMMA SiftsDown ==
  ASSUME NEW hp \in HeapRec, Placed(hp), NEW due \in Dues, NEW pos \in 1..Len(hp.h),
         Sinking(hp, due, pos, pos)
  PROVE  /\ Good(SiftDown(hp, pos, due), Members(hp.h), Len(hp.h))
         /\ Rising(SiftDown(hp, pos, due), due, pos)
<1> DEFINE n == Len(hp.h)
           ms == Members(hp.h)
           step == DownOnce(due)
           s == [hp |-> hp, i |-> pos]
           J == {st \in Sifts : Good(st.hp, ms, n) /\ Sinking(st.hp, due, pos, st.i)}
           f == [st \in J |-> n - st.i]
           c(st) == Smallest(st.hp.h, st.i, due)
           Down(st) == [hp |-> Swap(st.hp, st.i, c(st)), i |-> c(st)]
<1>0. n \in Nat  BY GoodValues
<1>1. \A st \in Sifts : /\ st.hp \in HeapRec /\ st.i \in 1..Len(st.hp.h)
                        /\ st.i \in Nat /\ Len(st.hp.h) \in Nat
  BY GoodValues DEF Sifts, HeapRec
<1>2. \A st \in Sifts : step[st] = IF c(st) = st.i THEN st ELSE Down(st)
  BY DEF DownOnce
<1>3. \A hq \in HeapRec : \A k \in 1..Len(hq.h) : [hp |-> hq, i |-> k] \in Sifts
  BY DEF Sifts, HeapRec
<1>3a. \A st \in Sifts : c(st) = st.i \/ (c(st) \in 2..Len(st.hp.h) /\ c(st) \div 2 = st.i)
  BY <1>1, SmallestIs
<1>4. step \in [Sifts -> Sifts]
  <2>1. ASSUME NEW st \in Sifts PROVE (IF c(st) = st.i THEN st ELSE Down(st)) \in Sifts
    <3> HIDE DEF c
    <3>1. CASE c(st) = st.i  BY <3>1
    <3>2. CASE c(st) # st.i
      <4>1. c(st) \in 1..Len(st.hp.h)  BY <1>1, <1>3a, <3>2
      <4>2. Swap(st.hp, st.i, c(st)) \in HeapRec /\ Len(Swap(st.hp, st.i, c(st)).h) = Len(st.hp.h)
        BY <1>1, <4>1, SwapType
      <4> QED  BY <3>2, <4>1, <4>2, <1>3
    <3> QED  BY <3>1, <3>2
  <2> HIDE DEF c, Down
  <2> QED  BY <2>1 DEF DownOnce, c, Down
<1>5. s \in J
  <2>1. s \in Sifts  BY <1>3
  <2> QED  BY <2>1 DEF Good
<1>6. ASSUME NEW st \in J
      PROVE  step[st] \in J /\ (step[st] = st \/ (st.i < step[st].i /\ step[st].i <= n))
  <2>0. /\ st \in Sifts /\ st.hp \in HeapRec /\ Placed(st.hp) /\ Members(st.hp.h) = ms
        /\ Len(st.hp.h) = n /\ Sinking(st.hp, due, pos, st.i) /\ st.i \in 1..n
    BY <1>1 DEF Good
  <2>1. CASE c(st) = st.i
    <3>1. step[st] = st  BY <1>2, <2>0, <2>1
    <3> QED  BY <3>1
  <2>2. CASE c(st) # st.i
    <3>1. step[st] = Down(st)  BY <1>2, <2>0, <2>2
    <3>2. /\ c(st) \in 2..Len(st.hp.h) /\ c(st) \div 2 = st.i
          /\ due[st.hp.h[c(st)]] < due[st.hp.h[st.i]]
          /\ \A k \in 2..Len(st.hp.h) : k \div 2 = st.i => due[st.hp.h[c(st)]] <= due[st.hp.h[k]]
      BY <1>1, <2>0, <2>2, SmallestIs
    <3> HIDE DEF c
    <3>3. c(st) \in 1..n /\ st.i < c(st)  BY <1>0, <2>0, <3>2, Halves
    <3>4. Good(Swap(st.hp, st.i, c(st)), ms, n)
      <4>1. c(st) \in 1..Len(st.hp.h) /\ st.i \in 1..Len(st.hp.h)  BY <2>0, <3>3
      <4> QED  BY <2>0, <4>1, Swapping DEF Good
    <3>5. Sinking(Swap(st.hp, st.i, c(st)), due, pos, c(st))
      <4>1. st.i \in 1..Len(st.hp.h) /\ pos \in 1..Len(st.hp.h)  BY <2>0
      <4> QED  BY <2>0, <3>2, <4>1, SinkSwap
    <3>6. Down(st) \in Sifts  BY <1>3, <3>3, <3>4 DEF Good
    <3> QED  BY <3>1, <3>3, <3>4, <3>5, <3>6, <1>0
  <2> QED  BY <2>1, <2>2
<1>7. f \in [J -> Nat] /\ \A st \in J : f[st] = n - st.i /\ st.i \in 1..n
  BY <1>0, <1>1 DEF Good
<1>8. f[s] <= n  BY <1>0, <1>5, <1>7
<1>9. J \in SUBSET Sifts  OBVIOUS
<1>10. SiftDown(hp, pos, due) = Iterate(step, s, n).hp  BY DEF SiftDown
<1> DEFINE e == Iterate(step, s, n)
<1>11. e \in J /\ step[e] = e
  <2>1. \A x \in J : step[x] \in J  BY <1>6
  <2>2. \A x \in J : step[x] = x \/ f[step[x]] < f[x]
    <3> SUFFICES ASSUME NEW x \in J, step[x] # x PROVE f[step[x]] < f[x]  OBVIOUS
    <3>1. x.i < step[x].i /\ step[x].i <= n /\ step[x] \in J  BY <1>6
    <3> HIDE DEF J, f, step
    <3> QED  BY <3>1, <1>0, <1>7
  <2> HIDE DEF J, f, s, step
  <2> QED  BY <1>0, <1>4, <1>5, <1>7, <1>8, <1>9, <2>1, <2>2, LoopEnds
<1> HIDE DEF e
<1>13. /\ Good(e.hp, ms, n) /\ Sinking(e.hp, due, pos, e.i) /\ e.i \in 1..n
       /\ e \in Sifts /\ Len(e.hp.h) = n /\ e.hp \in HeapRec
  BY <1>1, <1>11 DEF Good
<1>14. c(e) = e.i /\ \A k \in 2..n : k \div 2 = e.i => Ordered(e.hp, due, k)
  <2>1. c(e) = e.i
    <3> SUFFICES ASSUME c(e) # e.i PROVE FALSE  OBVIOUS
    <3>1. step[e] = Down(e)  BY <1>2, <1>13
    <3> HIDE DEF c
    <3>2. e.i = c(e)  BY <1>11, <3>1
    <3> QED  BY <3>2
  <2>2. ~(c(e) \in 2..n /\ c(e) \div 2 = e.i)
    <3> HIDE DEF c
    <3> QED  BY <1>0, <1>13, <2>1, Halves
  <2> QED  BY <1>13, <2>1, <2>2, SmallestIs
<1>15. \A k \in 2..n : k # pos => Ordered(e.hp, due, k)
  BY <1>13, <1>14 DEF Sinking
<1>16. OverGap(e.hp, due, pos)
  <2> SUFFICES ASSUME pos > 1, NEW k \in 2..n, k \div 2 = pos
               PROVE  due[e.hp.h[pos \div 2]] <= due[e.hp.h[k]]
    BY <1>13 DEF OverGap
  <2>1. CASE e.i = pos  BY <2>1, <1>13 DEF Sinking, OverGap
  <2>2. CASE e.i # pos
    <3>1. k # pos /\ k \in 1..n /\ pos \in 1..n /\ pos \div 2 \in 1..n  BY <1>0, Halves
    <3>2. Ordered(e.hp, due, pos) /\ Ordered(e.hp, due, k)  BY <2>2, <3>1, <1>13, <1>15 DEF Sinking
    <3>3. /\ due[e.hp.h[pos \div 2]] \in Int /\ due[e.hp.h[pos]] \in Int /\ due[e.hp.h[k]] \in Int
      BY <3>1, <1>13, GoodValues
    <3> QED  BY <3>2, <3>3 DEF Ordered
  <2> QED  BY <2>1, <2>2
<1> QED  BY <1>10, <1>13, <1>15, <1>16 DEF Rising, e

-----------------------------------------------------------------------------
(* The timers of a behaviour.                                                 *)

Queue(tm, hp) == /\ tm \in Dues /\ hp \in HeapRec /\ Placed(hp) /\ InOrder(hp, tm)
                 /\ Members(hp.h) = {s \in Slots : tm[s] # NoTimer}

TimerInv == Queue(timers, [h |-> heap, p |-> heapPos]) /\ clock \in Nat

\* The due times of slots that are not in a heap do not matter to it.
LEMMA OtherDues ==
  ASSUME NEW hp \in HeapRec, NEW due \in Dues, InOrder(hp, due), NEW due2 \in Dues,
         \A s \in Members(hp.h) : due2[s] = due[s]
  PROVE  InOrder(hp, due2)
<1>1. Len(hp.h) \in Nat  BY GoodValues
<1>2. \A k \in 1..Len(hp.h) : due2[hp.h[k]] = due[hp.h[k]]  BY DEF Members
<1> SUFFICES ASSUME NEW k \in 2..Len(hp.h) PROVE Ordered(hp, due2, k)  BY DEF InOrder
<1>3. k \in 1..Len(hp.h) /\ k \div 2 \in 1..Len(hp.h)  BY <1>1, Halves
<1> QED  BY <1>2, <1>3 DEF InOrder, Ordered

\* heap_push of a slot that is not in the heap.
LEMMA Pushing ==
  ASSUME TimerInv, NEW s \in Slots, timers[s] = NoTimer, NEW d \in Nat
  PROVE  Queue([timers EXCEPT ![s] = d], HeapPush(s, [timers EXCEPT ![s] = d]))
<1> DEFINE tm == [timers EXCEPT ![s] = d]
           hp == [h |-> heap, p |-> heapPos]
           n == Len(heap)
           gp == [h |-> Append(heap, s), p |-> [heapPos EXCEPT ![s] = n + 1]]
<1>0. /\ timers \in Dues /\ heap \in Seq(Slots) /\ heapPos \in [Slots -> Nat] /\ n \in Nat
      /\ \A k \in 1..n : heap[k] \in Slots /\ heapPos[heap[k]] = k
      /\ \A k \in 2..n : timers[heap[k \div 2]] <= timers[heap[k]]
      /\ Members(heap) = {t \in Slots : timers[t] # NoTimer}
  BY DEF TimerInv, Queue, HeapRec, Placed, InOrder, Ordered
<1>1. /\ Append(heap, s) \in Seq(Slots) /\ Len(Append(heap, s)) = n + 1
      /\ Append(heap, s)[n + 1] = s /\ \A k \in 1..n : Append(heap, s)[k] = heap[k]
  BY <1>0, AppendProperties
<1>2. /\ tm \in Dues /\ tm[s] = d /\ \A t \in Slots : t # s => tm[t] = timers[t]
  BY <1>0 DEF Dues
<1>3. \A k \in 1..n : heap[k] # s  BY <1>0 DEF Members
<1>4. gp \in HeapRec  BY <1>0, <1>1 DEF HeapRec
<1>5. gp.h = Append(heap, s) /\ gp.p = [heapPos EXCEPT ![s] = n + 1]  OBVIOUS
<1>6. gp.p[s] = n + 1 /\ \A t \in Slots : t # s => gp.p[t] = heapPos[t]  BY <1>0
<1> HIDE DEF tm, gp
<1>7. Placed(gp)
  <2> SUFFICES ASSUME NEW k \in 1..(n + 1) PROVE gp.p[gp.h[k]] = k  BY <1>1, <1>5 DEF Placed
  <2>1. CASE k = n + 1  BY <2>1, <1>1, <1>5, <1>6
  <2>2. CASE k # n + 1
    <3>1. k \in 1..n  BY <1>0, <2>2
    <3> QED  BY <3>1, <1>0, <1>1, <1>3, <1>5, <1>6
  <2> QED  BY <2>1, <2>2
<1>8. Members(gp.h) = Members(heap) \cup {s}
  <2>1. \A k \in 1..(n + 1) : gp.h[k] \in Members(heap) \cup {s}
    <3> SUFFICES ASSUME NEW k \in 1..(n + 1) PROVE gp.h[k] \in Members(heap) \cup {s}  OBVIOUS
    <3>1. CASE k = n + 1  BY <3>1, <1>1, <1>5
    <3>2. CASE k # n + 1
      <4>1. k \in 1..n  BY <1>0, <3>2
      <4> QED  BY <4>1, <1>1, <1>5 DEF Members
    <3> QED  BY <3>1, <3>2
  <2>2. s \in Members(gp.h)
    <3>1. n + 1 \in 1..Len(gp.h)  BY <1>0, <1>1, <1>5
    <3> QED  BY <3>1, <1>1, <1>5 DEF Members
  <2>3. ASSUME NEW t \in Members(heap) PROVE t \in Members(gp.h)
    <3>1. PICK k \in 1..n : t = heap[k]  BY DEF Members
    <3>2. k \in 1..Len(gp.h) /\ gp.h[k] = t  BY <1>0, <1>1, <1>5, <3>1
    <3> QED  BY <3>2 DEF Members
  <2> QED  BY <2>1, <2>2, <2>3, <1>1, <1>5 DEF Members
<1>9. Rising(gp, tm, n + 1)
  <2>1. ASSUME NEW k \in 2..(n + 1), k # n + 1 PROVE Ordered(gp, tm, k)
    <3>1. k \in 2..n /\ k \in 1..n /\ k \div 2 \in 1..n  BY <1>0, <2>1, Halves
    <3>2. gp.h[k] = heap[k] /\ gp.h[k \div 2] = heap[k \div 2]  BY <3>1, <1>1, <1>5
    <3>3. tm[heap[k]] = timers[heap[k]] /\ tm[heap[k \div 2]] = timers[heap[k \div 2]]
      BY <3>1, <1>0, <1>2, <1>3
    <3> QED  BY <3>1, <3>2, <3>3, <1>0 DEF Ordered
  <2>2. \A k \in 2..(n + 1) : k \div 2 # n + 1  BY <1>0, Halves
  <2>3. Len(gp.h) = n + 1  BY <1>1, <1>5
  <2> QED  BY <2>1, <2>2, <2>3 DEF Rising, OverGap
<1>10. Len(gp.h) = n + 1 /\ n + 1 \in 1..Len(gp.h)  BY <1>0, <1>1, <1>5
<1> DEFINE r == SiftUp(gp, n + 1, tm)
<1>11. HeapPush(s, tm) = r  BY <1>1 DEF HeapPush, gp
<1>12. Good(r, Members(gp.h), Len(gp.h)) /\ InOrder(r, tm)
  BY <1>2, <1>4, <1>7, <1>9, <1>10, SiftsUp
<1> HIDE DEF r
<1>13. Members(r.h) = {t \in Slots : tm[t] # NoTimer}
  <2>1. Members(r.h) = Members(heap) \cup {s}  BY <1>8, <1>12 DEF Good
  <2>2. d # NoTimer  BY DEF NoTimer
  <2> QED  BY <2>1, <2>2, <1>0, <1>2
<1> QED  BY <1>2, <1>11, <1>12, <1>13 DEF Queue, Good, tm

\* heap_remove_slot of a slot that is in the heap.
LEMMA Removing ==
  ASSUME TimerInv, NEW s \in Slots, timers[s] # NoTimer
  PROVE  Queue([timers EXCEPT ![s] = NoTimer], HeapRemove(s))
<1> DEFINE tm == [timers EXCEPT ![s] = NoTimer]
           hp == [h |-> heap, p |-> heapPos]
           n == Len(heap)
           pos == heapPos[s]
           sw == Swap(hp, pos, n)
           cut == [h |-> Front(sw.h), p |-> [sw.p EXCEPT ![s] = 0]]
           ms == {t \in Slots : tm[t] # NoTimer}
<1>0. /\ timers \in Dues /\ heap \in Seq(Slots) /\ heapPos \in [Slots -> Nat] /\ n \in Nat
      /\ \A k \in 1..n : heap[k] \in Slots /\ heapPos[heap[k]] = k /\ timers[heap[k]] \in Int
      /\ \A k \in 2..n : timers[heap[k \div 2]] <= timers[heap[k]]
      /\ Members(heap) = {t \in Slots : timers[t] # NoTimer}
      /\ hp \in HeapRec /\ Placed(hp)
  BY DEF TimerInv, Queue, HeapRec, Placed, InOrder, Ordered, Dues
<1>1. s \in Members(heap)  BY <1>0
<1>2. pos \in 1..n /\ heap[pos] = s
  <2>1. PICK k \in 1..n : heap[k] = s  BY <1>1 DEF Members
  <2> QED  BY <2>1, <1>0
<1>3. n \in 1..n /\ n - 1 \in Nat  BY <1>0, <1>2
<1>4. /\ sw \in HeapRec /\ Placed(sw) /\ Len(sw.h) = n /\ sw.h[n] = s /\ sw.h[pos] = heap[n]
      /\ \A k \in 1..n : k # pos /\ k # n => sw.h[k] = heap[k]
      /\ Members(sw.h) = Members(heap)
  <2>1. pos \in 1..Len(hp.h) /\ n \in 1..Len(hp.h)  BY <1>2, <1>3
  <2> HIDE DEF pos
  <2> QED  BY <1>0, <1>2, <2>1, Swapping
<1>5. /\ tm \in Dues /\ tm[s] = NoTimer /\ \A t \in Slots : t # s => tm[t] = timers[t]
  BY <1>0 DEF Dues, NoTimer
<1> HIDE DEF sw, pos, tm
<1>6. sw.h \in Seq(Slots) /\ sw.p \in [Slots -> Nat] /\ \A k \in 1..n : sw.h[k] \in Slots /\ sw.p[sw.h[k]] = k
  BY <1>4 DEF HeapRec, Placed
<1>7. /\ Front(sw.h) \in Seq(Slots) /\ Len(Front(sw.h)) = n - 1
      /\ \A k \in 1..(n - 1) : Front(sw.h)[k] = sw.h[k]
  <2>1. Front(sw.h) = SubSeq(sw.h, 1, n - 1)  BY <1>4 DEF Front
  <2>2. \A k \in 1..(n - 1) : k \in 1..n  BY <1>3
  <2>3. \A k \in 1..(n - 1) : sw.h[k] \in Slots  BY <1>6, <2>2
  <2>4. PICK m \in Nat : m = n - 1  BY <1>3
  <2> DEFINE g == SubSeq(sw.h, 1, m)
  <2>5. /\ g \in Seq(Slots) /\ Len(g) = IF 1 <= m THEN m - 1 + 1 ELSE 0
        /\ \A k \in 1..(m - 1 + 1) : g[k] = sw.h[1 + k - 1]
    BY <2>3, <2>4, SubSeqProperties
  <2> HIDE DEF g
  <2>6. Len(g) = m  BY <2>5
  <2>7. m - 1 + 1 = m /\ \A k \in 1..m : 1 + k - 1 = k  OBVIOUS
  <2>8. \A k \in 1..m : g[k] = sw.h[k]  BY <2>5, <2>7
  <2> QED  BY <2>1, <2>4, <2>5, <2>6, <2>8 DEF g
<1>8. cut.h = Front(sw.h) /\ cut.p = [sw.p EXCEPT ![s] = 0] /\ cut \in HeapRec
  BY <1>6, <1>7 DEF HeapRec
<1>9. \A t \in Slots : t # s => cut.p[t] = sw.p[t]  BY <1>6, <1>8
<1> HIDE DEF cut
<1>10. \A k \in 1..(n - 1) : k \in 1..n /\ cut.h[k] = sw.h[k] /\ sw.h[k] # s
  <2> SUFFICES ASSUME NEW k \in 1..(n - 1) PROVE k \in 1..n /\ cut.h[k] = sw.h[k] /\ sw.h[k] # s
    OBVIOUS
  <2>1. k \in 1..n /\ k # n  BY <1>3
  <2>2. sw.h[k] # sw.h[n]  BY <1>3, <1>6, <2>1
  <2> QED  BY <1>4, <1>7, <1>8, <2>1, <2>2
<1>11. Len(cut.h) = n - 1 /\ Placed(cut)
  <2>1. \A k \in 1..(n - 1) : cut.p[cut.h[k]] = k  BY <1>6, <1>9, <1>10
  <2> QED  BY <2>1, <1>7, <1>8 DEF Placed
<1>12. Members(cut.h) = ms
  <2>1. ASSUME NEW k \in 1..(n - 1) PROVE cut.h[k] \in Members(heap) /\ cut.h[k] # s
    BY <1>4, <1>10 DEF Members
  <2>2. ASSUME NEW t \in Members(heap), t # s PROVE \E k \in 1..(n - 1) : t = cut.h[k]
    <3>1. PICK k \in 1..n : t = sw.h[k]  BY <1>4 DEF Members
    <3>2. k # n  BY <1>4, <2>2, <3>1
    <3>3. k \in 1..(n - 1)  BY <1>3, <3>2
    <3> QED  BY <1>10, <3>1, <3>3
  <2>2a. Members(cut.h) = {cut.h[k] : k \in 1..(n - 1)}  BY <1>11 DEF Members
  <2>3. Members(cut.h) = Members(heap) \ {s}  BY <2>1, <2>2, <2>2a
  <2> QED  BY <2>3, <1>0, <1>5
<1>13. \A k \in 1..(n - 1) : k # pos => cut.h[k] = heap[k]  BY <1>3, <1>4, <1>10
<1>14. CASE pos > n - 1
  <2>1. InOrder(cut, timers)
    <3> SUFFICES ASSUME NEW k \in 2..(n - 1) PROVE Ordered(cut, timers, k)  BY <1>11 DEF InOrder
    <3>1. k \in 1..(n - 1) /\ k \div 2 \in 1..(n - 1) /\ k \in 2..n  BY <1>3, Halves
    <3>2. k # pos /\ k \div 2 # pos  BY <1>2, <1>3, <1>14, <3>1
    <3> QED  BY <3>1, <3>2, <1>0, <1>13 DEF Ordered
  <2>2. InOrder(cut, tm)  BY <2>1, <1>0, <1>5, <1>8, <1>12, OtherDues
  <2>3. HeapRemove(s) = cut  BY <1>11, <1>14 DEF HeapRemove, cut, sw, pos
  <2> QED  BY <2>2, <2>3, <1>5, <1>8, <1>11, <1>12 DEF Queue, tm
<1>15. CASE ~(pos > n - 1)
  <2>0. pos \in 1..(n - 1) /\ pos \in Nat  BY <1>2, <1>3, <1>15
  <2>1. Sinking(cut, timers, pos, pos)
    <3>1. ASSUME NEW k \in 2..(n - 1), k \div 2 # pos, k # pos PROVE Ordered(cut, timers, k)
      <4>1. k \in 1..(n - 1) /\ k \div 2 \in 1..(n - 1) /\ k \in 2..n  BY <1>3, Halves
      <4> QED  BY <4>1, <3>1, <1>0, <1>13 DEF Ordered
    <3>2. ASSUME pos > 1, NEW k \in 2..(n - 1), k \div 2 = pos
          PROVE  timers[cut.h[pos \div 2]] <= timers[cut.h[k]]
      <4>1. /\ k \in 1..(n - 1) /\ k \in 2..n /\ pos \in 2..n /\ pos < k
            /\ pos \div 2 \in 1..(n - 1) /\ pos \div 2 < pos
        BY <1>3, <2>0, <3>2, Halves
      <4>2. cut.h[k] = heap[k] /\ cut.h[pos \div 2] = heap[pos \div 2]
        BY <1>13, <2>0, <4>1
      <4>3. timers[heap[pos \div 2]] <= timers[heap[pos]] /\ timers[heap[pos]] <= timers[heap[k]]
        BY <1>0, <3>2, <4>1
      <4>4. /\ timers[heap[pos \div 2]] \in Int /\ timers[heap[pos]] \in Int
            /\ timers[heap[k]] \in Int
        BY <1>0, <1>2, <1>3, <4>1, SMTT(30)
      <4> QED  BY <4>2, <4>3, <4>4
    <3> QED  BY <2>0, <3>1, <3>2, <1>11 DEF Sinking, OverGap
  <2> DEFINE down == SiftDown(cut, pos, timers)
             r == SiftUp(down, pos, timers)
  <2>2. Good(down, ms, n - 1) /\ Rising(down, timers, pos)
    <3>1. pos \in 1..Len(cut.h)  BY <1>11, <2>0
    <3>2. /\ Good(SiftDown(cut, pos, timers), Members(cut.h), Len(cut.h))
          /\ Rising(SiftDown(cut, pos, timers), timers, pos)
      BY <3>1, <2>1, <1>0, <1>8, <1>11, SiftsDown
    <3> QED  BY <3>2, <1>11, <1>12
  <2>3. HeapRemove(s) = r
    <3>1. ~(pos > Len(cut.h))  BY <1>11, <1>15
    <3> QED  BY <3>1 DEF HeapRemove, cut, sw, pos
  <2> HIDE DEF down
  <2>4. Good(r, ms, n - 1) /\ InOrder(r, timers)
    BY <2>0, <2>2, <1>0, SiftsUp DEF Good
  <2> HIDE DEF r
  <2>5. InOrder(r, tm)  BY <2>4, <1>0, <1>5, OtherDues DEF Good
  <2> QED  BY <2>3, <2>4, <2>5, <1>5 DEF Queue, Good, tm
<1> QED  BY <1>14, <1>15

LEMMA TimerInvInit == ReactorInit => TimerInv
<1> SUFFICES ASSUME ReactorInit PROVE TimerInv  OBVIOUS
<1>1. timers \in Dues /\ \A s \in Slots : timers[s] = NoTimer  BY DEF ReactorInit, Dues, NoTimer
<1>2. heap = <<>> /\ Len(heap) = 0 /\ heap \in Seq(Slots) /\ heapPos \in [Slots -> Nat]
  BY DEF ReactorInit
<1> DEFINE hp == [h |-> heap, p |-> heapPos]
<1>3. hp \in HeapRec /\ hp.h = heap  BY <1>2 DEF HeapRec
<1>4. Placed(hp) /\ InOrder(hp, timers) /\ Members(hp.h) = {}
  BY <1>2 DEF Placed, InOrder, Members
<1> QED  BY <1>1, <1>3, <1>4 DEF TimerInv, Queue, ReactorInit

\* The first entry of an array of entries or slots that has a property.
LEMMA FirstOf ==
  ASSUME NEW n \in Nat, NEW T, T \subseteq 1..n, T # {}
  PROVE  \E i \in T : \A j \in 1..(i - 1) : j \notin T
<1>1. T \subseteq Nat  OBVIOUS
<1>2. PICK i \in T : \A j \in T : i <= j  BY <1>1, LeastNat
<1>3. ASSUME NEW j \in 1..(i - 1), j \in T PROVE FALSE
  <2>1. i \in Nat /\ j \in Nat /\ i <= j  BY <1>1, <1>2, <1>3
  <2> QED  BY <2>1
<1> QED  BY <1>2, <1>3

LEMMA HorizonNat == Horizon \in Nat /\ MaxTimers \in Nat /\ MaxFds \in Nat /\ NoFd \notin Fds
  BY ReactorAssumption DEF NoFd

LEMMA QueueIs ==
  ASSUME NEW tm, NEW hp, Queue(tm, hp)
  PROVE  Queue(tm, [h |-> hp.h, p |-> hp.p])
<1>1. hp = [h |-> hp.h, p |-> hp.p]  BY DEF Queue, HeapRec
<1> QED  BY <1>1

LEMMA ScheduleKeeps == ASSUME TimerInv, NEW delay \in 0..Horizon, Schedule(delay) PROVE TimerInv'
<1> DEFINE s == CHOOSE i \in Slots : timers[i] = NoTimer /\ \A j \in 1..(i - 1) : timers[j] # NoTimer
           due == IF delay > Horizon - clock THEN Horizon ELSE clock + delay
           T == {i \in Slots : timers[i] = NoTimer}
<1>1. \E i \in Slots : timers[i] = NoTimer /\ \A j \in 1..(i - 1) : timers[j] # NoTimer
  <2>1. T # {} /\ T \subseteq 1..MaxTimers  BY DEF Schedule, Slots
  <2>2. PICK i \in T : \A j \in 1..(i - 1) : j \notin T  BY <2>1, HorizonNat, FirstOf
  <2>3. \A j \in 1..(i - 1) : j \in Slots  BY HorizonNat, <2>1 DEF Slots
  <2> QED  BY <2>2, <2>3
<1>2. s \in Slots /\ timers[s] = NoTimer  BY <1>1
<1>3. due \in Nat  BY HorizonNat DEF TimerInv
<1>4. /\ timers' = [timers EXCEPT ![s] = due] /\ clock' = clock
      /\ heap' = HeapPush(s, [timers EXCEPT ![s] = due]).h
      /\ heapPos' = HeapPush(s, [timers EXCEPT ![s] = due]).p
  BY DEF Schedule
<1> HIDE DEF s, due
<1>5. Queue([timers EXCEPT ![s] = due], HeapPush(s, [timers EXCEPT ![s] = due]))
  BY <1>2, <1>3, Pushing
<1>6. Queue(timers', [h |-> heap', p |-> heapPos'])  BY <1>4, <1>5, QueueIs
<1> QED  BY <1>4, <1>6 DEF TimerInv

LEMMA DropKeeps ==
  ASSUME TimerInv, NEW s \in Slots, timers[s] # NoTimer, Drop(s), clock' = clock
  PROVE  TimerInv'
<1>1. Queue([timers EXCEPT ![s] = NoTimer], HeapRemove(s))  BY Removing
<1>2. Queue(timers', [h |-> heap', p |-> heapPos'])  BY <1>1, QueueIs DEF Drop
<1> QED  BY <1>2 DEF TimerInv

LEMMA HeadIsActive == TimerInv /\ heap # <<>> => Head(heap) \in Slots /\ timers[Head(heap)] # NoTimer
<1> SUFFICES ASSUME TimerInv, heap # <<>>
             PROVE  Head(heap) \in Slots /\ timers[Head(heap)] # NoTimer
  OBVIOUS
<1>1. heap \in Seq(Slots) /\ Members(heap) = {s \in Slots : timers[s] # NoTimer}
  BY DEF TimerInv, Queue, HeapRec
<1>2. Head(heap) = heap[1] /\ 1 \in 1..Len(heap)  BY <1>1
<1>3. heap[1] \in Members(heap)  BY <1>2 DEF Members
<1> QED  BY <1>1, <1>2, <1>3

LEMMA TimerInvNext == TimerInv /\ [ReactorNext]_reactorVars => TimerInv'
<1> SUFFICES ASSUME TimerInv, [ReactorNext]_reactorVars PROVE TimerInv'  OBVIOUS
<1>1. ASSUME NEW d \in 0..Horizon, Schedule(d) PROVE TimerInv'  BY <1>1, ScheduleKeeps
<1>2. ASSUME NEW s \in Slots, Cancel(s) PROVE TimerInv'
  <2>1. timers[s] # NoTimer /\ Drop(s) /\ clock' = clock  BY <1>2 DEF Cancel
  <2> QED  BY <2>1, DropKeeps
<1>3. CASE PollTimer
  <2>1. heap # <<>> /\ Drop(Head(heap)) /\ clock' = clock  BY <1>3 DEF PollTimer, Due
  <2>2. Head(heap) \in Slots /\ timers[Head(heap)] # NoTimer  BY <2>1, HeadIsActive
  <2> QED  BY <2>1, <2>2, DropKeeps
<1>4. CASE Tick
  <2>1. UNCHANGED <<timers, heap, heapPos>> /\ clock' = clock + 1  BY <1>4 DEF Tick, timerVars
  <2>2. clock' \in Nat  BY <2>1 DEF TimerInv
  <2> QED  BY <2>1, <2>2 DEF TimerInv
<1>5. ASSUME UNCHANGED <<timers, heap, heapPos, clock>> PROVE TimerInv'
  BY <1>5 DEF TimerInv
<1>6. CASE FdNext
  <2>1. UNCHANGED <<timers, heap, heapPos, clock>>
    BY <1>6 DEF FdNext, WaitFails, WaitFd, FdReady, PollFd, timerVars
  <2> QED  BY <2>1, <1>5
<1>7. CASE UNCHANGED reactorVars
  <2>1. UNCHANGED <<timers, heap, heapPos, clock>>  BY <1>7 DEF reactorVars
  <2> QED  BY <2>1, <1>5
<1> QED  BY <1>1, <1>2, <1>3, <1>4, <1>6, <1>7 DEF ReactorNext, TimerNext

LEMMA QueueIsQueue == TimerInv => HeapIsQueue
<1> SUFFICES ASSUME TimerInv PROVE HeapIsQueue  OBVIOUS
<1>1. /\ heap \in Seq(Slots) /\ Len(heap) \in Nat
      /\ \A k \in 1..Len(heap) : heapPos[heap[k]] = k
      /\ \A k \in 2..Len(heap) : timers[heap[k \div 2]] <= timers[heap[k]]
      /\ Members(heap) = {s \in Slots : timers[s] # NoTimer}
  BY DEF TimerInv, Queue, HeapRec, Placed, InOrder, Ordered
<1>2. ToSet(heap) = Members(heap)  BY <1>1 DEF ToSet, Members
<1>3. \A k \in 1..Len(heap) : k > 1 => k \in 2..Len(heap)  BY <1>1
<1> QED  BY <1>1, <1>2, <1>3 DEF HeapIsQueue

\* The timers are a priority queue: for any number of slots, and schedules,
\* cancellations of any timer, expirations and the passing of time in any order,
\* the heap has the active timers and no others, each is found where heap_pos
\* says, and none comes before its parent (heap_push and heap_remove_slot).
THEOREM TimersAreQueue == ReactorSpec => []HeapIsQueue
BY TimerInvInit, TimerInvNext, QueueIsQueue, PTL DEF ReactorSpec

\* The timer at the top is due no later than any other.
FirstIsNext == heap # <<>> => \A s \in Slots : timers[s] # NoTimer => timers[Head(heap)] <= timers[s]

LEMMA QueueHasFirst == TimerInv => FirstIsNext
<1> SUFFICES ASSUME TimerInv, heap # <<>>, NEW s \in Slots, timers[s] # NoTimer
             PROVE  timers[Head(heap)] <= timers[s]
  BY DEF FirstIsNext
<1> DEFINE n == Len(heap)
           d(k) == timers[heap[k]]
           T == {k \in 1..n : ~(d(1) <= d(k))}
<1>1. /\ heap \in Seq(Slots) /\ n \in Nat /\ \A k \in 1..n : d(k) \in Int
      /\ \A k \in 2..n : d(k \div 2) <= d(k)
      /\ Members(heap) = {t \in Slots : timers[t] # NoTimer}
  BY DEF TimerInv, Queue, HeapRec, InOrder, Ordered, Dues
<1>2. 1 \in 1..n /\ Head(heap) = heap[1]  BY <1>1
<1> HIDE DEF d
<1>3. T = {}
  <2> SUFFICES ASSUME T # {} PROVE FALSE  OBVIOUS
  <2>1. T \subseteq 1..n  OBVIOUS
  <2>2. PICK k \in T : \A j \in 1..(k - 1) : j \notin T  BY <1>1, <2>1, FirstOf
  <2>3. k \in 1..n /\ ~(d(1) <= d(k))  OBVIOUS
  <2>4. k # 1  BY <1>1, <1>2, <2>3
  <2>5. k \in 2..n /\ k \div 2 \in 1..(k - 1) /\ k \div 2 \in 1..n  BY <1>1, <2>3, <2>4, Halves
  <2>6. d(1) <= d(k \div 2)  BY <2>2, <2>5
  <2>7. d(1) \in Int /\ d(k \div 2) \in Int /\ d(k) \in Int  BY <1>1, <1>2, <2>3, <2>5
  <2> QED  BY <1>1, <2>3, <2>5, <2>6, <2>7
<1>4. PICK k \in 1..n : heap[k] = s  BY <1>1 DEF Members
<1>5. d(1) <= d(k)  BY <1>3
<1> QED  BY <1>2, <1>4, <1>5 DEF d

\* ch_reactor_poll, which looks at the first timer of the heap alone, never
\* delivers a timer while another one was due earlier, and finds none due only
\* when none is.
THEOREM FirstTimerIsNext == ReactorSpec => []FirstIsNext
BY TimerInvInit, TimerInvNext, QueueHasFirst, PTL DEF ReactorSpec

-----------------------------------------------------------------------------
(* The descriptors.  Until events and waits have crossed, the waits, the       *)
(* registrations of epoll and the entries in use are the same descriptors,     *)
(* each once.                                                                  *)
Once(f, D) == \A i, j \in D : f[i] = f[j] => i = j
Held == {fds[e] : e \in Entries} \ {NoFd}

Paired ==
    /\ armed = Members(waits) /\ Held = Members(waits)
    /\ Once(waits, 1..Len(waits))
    /\ \A e, f \in Entries : fds[e] = fds[f] /\ fds[e] # NoFd => e = f

FdType == /\ fds \in [Entries -> Fds \cup {NoFd}] /\ waits \in Seq(Fds)
          /\ crossed \in BOOLEAN

FdInv == FdType /\ (~crossed => Paired)

LEMMA Appended ==
  ASSUME NEW w \in Seq(Fds), NEW fd \in Fds
  PROVE  /\ Append(w, fd) \in Seq(Fds) /\ Members(Append(w, fd)) = Members(w) \cup {fd}
         /\ (Once(w, 1..Len(w)) /\ fd \notin Members(w)
             => Once(Append(w, fd), 1..Len(Append(w, fd))))
<1> DEFINE n == Len(w)
           v == Append(w, fd)
<1>1. /\ n \in Nat /\ v \in Seq(Fds) /\ Len(v) = n + 1 /\ v[n + 1] = fd
      /\ \A k \in 1..n : v[k] = w[k]
  OBVIOUS
<1> HIDE DEF v
<1>2. \A k \in 1..(n + 1) : k \in 1..n \/ k = n + 1  BY <1>1
<1>3. n + 1 \in 1..(n + 1) /\ \A k \in 1..n : k \in 1..(n + 1)  BY <1>1
<1>4. Members(v) = Members(w) \cup {fd}
  <2>1. Members(v) \subseteq Members(w) \cup {fd}  BY <1>1, <1>2 DEF Members
  <2>2. Members(w) \cup {fd} \subseteq Members(v)  BY <1>1, <1>3 DEF Members
  <2> QED  BY <2>1, <2>2
<1>5. ASSUME Once(w, 1..n), fd \notin Members(w) PROVE Once(v, 1..(n + 1))
  <2> SUFFICES ASSUME NEW i \in 1..(n + 1), NEW j \in 1..(n + 1), v[i] = v[j] PROVE i = j
    BY DEF Once
  <2>1. \A k \in 1..n : w[k] # fd  BY <1>5 DEF Members
  <2>2. CASE i \in 1..n /\ j \in 1..n  BY <2>2, <1>1, <1>5 DEF Once
  <2>3. CASE ~(i \in 1..n /\ j \in 1..n)  BY <2>1, <2>3, <1>1, <1>2
  <2> QED  BY <2>2, <2>3
<1> QED  BY <1>1, <1>4, <1>5 DEF v

LEMMA Fronted ==
  ASSUME NEW w \in Seq(Fds), w # <<>>
  PROVE  /\ Last(w) \in Fds /\ Last(w) \in Members(w) /\ Front(w) \in Seq(Fds)
         /\ (Once(w, 1..Len(w))
             => /\ Members(Front(w)) = Members(w) \ {Last(w)}
                /\ Once(Front(w), 1..Len(Front(w))))
<1> DEFINE n == Len(w)
           v == Front(w)
<1>1. n \in Nat /\ n >= 1 /\ n \in 1..n /\ Last(w) = w[n] /\ \A k \in 1..n : w[k] \in Fds
  BY DEF Last
<1>2. v \in Seq(Fds) /\ Len(v) = n - 1 /\ \A k \in 1..(n - 1) : v[k] = w[k]
  <2>1. v = SubSeq(w, 1, n - 1)  BY DEF Front
  <2>2. \A k \in 1..(n - 1) : w[k] \in Fds  BY <1>1
  <2>3. PICK m \in Nat : m = n - 1  BY <1>1
  <2> DEFINE g == SubSeq(w, 1, m)
  <2>4. /\ g \in Seq(Fds) /\ Len(g) = IF 1 <= m THEN m - 1 + 1 ELSE 0
        /\ \A k \in 1..(m - 1 + 1) : g[k] = w[1 + k - 1]
    BY <2>2, <2>3, SubSeqProperties
  <2> HIDE DEF g
  <2>5. Len(g) = m  BY <2>4
  <2>6. m - 1 + 1 = m /\ \A k \in 1..m : 1 + k - 1 = k  OBVIOUS
  <2>7. \A k \in 1..m : g[k] = w[k]  BY <2>4, <2>6
  <2> QED  BY <2>1, <2>3, <2>4, <2>5, <2>7 DEF g
<1> HIDE DEF v
<1>3. \A k \in 1..(n - 1) : k \in 1..n /\ k # n  BY <1>1
<1>4. \A k \in 1..n : k # n => k \in 1..(n - 1)  BY <1>1
<1>5. Last(w) \in Members(w)  BY <1>1 DEF Members
<1>6. ASSUME Once(w, 1..n)
      PROVE  Members(v) = Members(w) \ {Last(w)} /\ Once(v, 1..(n - 1))
  <2>1. \A k \in 1..(n - 1) : w[k] # w[n]  BY <1>1, <1>3, <1>6 DEF Once
  <2>2. Members(v) \subseteq Members(w) \ {Last(w)}  BY <1>1, <1>2, <1>3, <2>1 DEF Members
  <2>3. Members(w) \ {Last(w)} \subseteq Members(v)  BY <1>1, <1>2, <1>4 DEF Members
  <2>4. Once(v, 1..(n - 1))  BY <1>2, <1>3, <1>6 DEF Once
  <2> QED  BY <2>2, <2>3, <2>4
<1> QED  BY <1>1, <1>2, <1>5, <1>6 DEF v

LEMMA EntryChosen ==
  ASSUME NEW x, \E i \in Entries : fds[i] = x
  PROVE  EntryOf(x) \in Entries /\ fds[EntryOf(x)] = x
<1> DEFINE T == {i \in Entries : fds[i] = x}
<1>1. T # {} /\ T \subseteq 1..MaxFds  BY DEF Entries
<1>2. PICK i \in T : \A j \in 1..(i - 1) : j \notin T  BY <1>1, HorizonNat, FirstOf
<1>3. \A j \in 1..(i - 1) : j \in Entries  BY HorizonNat, <1>1 DEF Entries
<1>4. \E k \in Entries : fds[k] = x /\ \A j \in 1..(k - 1) : fds[j] # x  BY <1>2, <1>3
<1> QED  BY <1>4 DEF EntryOf

\* Entry e, which holds x, now holds y.
LEMMA Refilled ==
  ASSUME FdType, Paired, NEW e \in Entries, NEW y \in Fds \cup {NoFd},
         fds[e] = NoFd \/ y = NoFd, y \notin Held
  PROVE  /\ {[fds EXCEPT ![e] = y][k] : k \in Entries} \ {NoFd}
              = (Held \ {fds[e]}) \cup ({y} \ {NoFd})
         /\ \A k, f \in Entries :
              [fds EXCEPT ![e] = y][k] = [fds EXCEPT ![e] = y][f]
                /\ [fds EXCEPT ![e] = y][k] # NoFd => k = f
<1> DEFINE g == [fds EXCEPT ![e] = y]
<1>1. g[e] = y /\ \A k \in Entries : k # e => g[k] = fds[k]  BY DEF FdType
<1> HIDE DEF g
<1>2. \A k \in Entries : k # e /\ fds[k] # NoFd => fds[k] # fds[e]  BY DEF Paired
<1>3. {g[k] : k \in Entries} \ {NoFd} \subseteq (Held \ {fds[e]}) \cup ({y} \ {NoFd})
  <2> SUFFICES ASSUME NEW k \in Entries, g[k] # NoFd
               PROVE  g[k] \in (Held \ {fds[e]}) \cup ({y} \ {NoFd})
    OBVIOUS
  <2>1. CASE k = e  BY <2>1, <1>1
  <2>2. CASE k # e
    <3>1. g[k] = fds[k] /\ g[k] # fds[e]  BY <2>2, <1>1, <1>2
    <3> QED  BY <3>1 DEF Held
  <2> QED  BY <2>1, <2>2
<1>4. (Held \ {fds[e]}) \cup ({y} \ {NoFd}) \subseteq {g[k] : k \in Entries} \ {NoFd}
  <2>1. ASSUME NEW z \in Held, z # fds[e] PROVE z \in {g[k] : k \in Entries} \ {NoFd}
    <3>1. PICK k \in Entries : fds[k] = z  BY DEF Held
    <3>2. k # e /\ z # NoFd  BY <2>1, <3>1 DEF Held
    <3> QED  BY <3>1, <3>2, <1>1
  <2>2. y # NoFd => y \in {g[k] : k \in Entries} \ {NoFd}  BY <1>1
  <2> QED  BY <2>1, <2>2
<1>5. ASSUME NEW k \in Entries, NEW f \in Entries, g[k] = g[f], g[k] # NoFd PROVE k = f
  <2>1. \A i \in Entries : fds[i] # NoFd => fds[i] # y  BY DEF Held
  <2>2. CASE k = e /\ f # e  BY <2>1, <2>2, <1>1, <1>5
  <2>3. CASE k # e /\ f = e  BY <2>1, <2>3, <1>1, <1>5
  <2>4. CASE k # e /\ f # e  BY <2>4, <1>1, <1>5 DEF Paired
  <2> QED  BY <2>2, <2>3, <2>4
<1> QED  BY <1>3, <1>4, <1>5 DEF g

LEMMA FdInvInit == ReactorInit => FdInv
<1> SUFFICES ASSUME ReactorInit PROVE FdInv  OBVIOUS
<1>1. fds = [i \in Entries |-> NoFd] /\ armed = {} /\ waits = <<>> /\ crossed = FALSE
  BY DEF ReactorInit
<1>2. Len(waits) = 0  BY <1>1
<1>3. Members(waits) = {} /\ Once(waits, 1..Len(waits))  BY <1>2 DEF Members, Once
<1>4. \A e \in Entries : fds[e] = NoFd  BY <1>1
<1>5. Held = {}  BY <1>4 DEF Held
<1>6. Paired
  <2>1. armed = Members(waits) /\ Held = Members(waits)  BY <1>1, <1>3, <1>5
  <2>2. \A e, f \in Entries : fds[e] = fds[f] /\ fds[e] # NoFd => e = f  BY <1>4
  <2> QED  BY <1>3, <2>1, <2>2 DEF Paired
<1>7. FdType
  <2>1. fds \in [Entries -> Fds \cup {NoFd}] /\ waits \in Seq(Fds)  BY <1>1
  <2> QED  BY <1>1, <2>1 DEF FdType
<1> QED  BY <1>6, <1>7 DEF FdInv

LEMMA WaitFdKeeps == ASSUME FdInv, NEW fd \in Fds, WaitFd(fd) PROVE FdInv'
<1> DEFINE e == EntryOf(NoFd)
<1>1. e \in Entries /\ fds[e] = NoFd  BY EntryChosen DEF WaitFd
<1>2. /\ fds' = [fds EXCEPT ![e] = fd] /\ armed' = armed \cup {fd}
      /\ waits' = Append(waits, fd)
      /\ crossed' = (crossed \/ \E i \in Entries : fds[i] = fd)
  BY DEF WaitFd
<1> HIDE DEF e
<1>3. FdType  BY DEF FdInv
<1>4. FdType'
  <2>1. fds' \in [Entries -> Fds \cup {NoFd}]  BY <1>1, <1>2, <1>3 DEF FdType
  <2>2. waits' \in Seq(Fds)  BY <1>2, <1>3, Appended DEF FdType
  <2> QED  BY <1>2, <2>1, <2>2 DEF FdType
<1>5. ASSUME ~crossed' PROVE Paired'
  <2>1. Paired /\ fd \notin Held  BY <1>2, <1>5 DEF FdInv, Held
  <2>2. fd \notin Members(waits) /\ Once(waits, 1..Len(waits))  BY <2>1 DEF Paired
  <2>3. Members(waits') = Members(waits) \cup {fd} /\ Once(waits', 1..Len(waits'))
    BY <1>2, <1>3, <2>2, Appended DEF FdType
  <2>4. Held' = (Held \ {fds[e]}) \cup ({fd} \ {NoFd})
    BY <1>1, <1>2, <1>3, <2>1, Refilled DEF Held
  <2>5. \A k, f \in Entries : fds'[k] = fds'[f] /\ fds'[k] # NoFd => k = f
    BY <1>1, <1>2, <1>3, <2>1, Refilled
  <2>6. fd # NoFd /\ NoFd \notin Held  BY HorizonNat DEF Held
  <2>7. Held' = Members(waits') /\ armed' = Members(waits')
    BY <1>1, <1>2, <2>1, <2>3, <2>4, <2>6 DEF Paired
  <2> QED  BY <2>3, <2>5, <2>7 DEF Paired
<1> QED  BY <1>4, <1>5 DEF FdInv

\* A wait and its entry go together.
LEMMA LastLeaves ==
  ASSUME FdInv, ~crossed, waits # <<>>, NEW fd \in Fds, fd = Last(waits),
         fds' = Spent(fd), armed' = armed \ {fd}, waits' = Front(waits)
  PROVE  Paired'
<1> DEFINE e == EntryOf(fd)
<1>1. FdType /\ Paired  BY DEF FdInv
<1>2. fd \in Members(waits) /\ Once(waits, 1..Len(waits))  BY <1>1, Fronted DEF FdType, Paired
<1>3. \E i \in Entries : fds[i] = fd  BY <1>1, <1>2 DEF Paired, Held
<1>4. e \in Entries /\ fds[e] = fd  BY <1>3, EntryChosen
<1>5. fds' = [fds EXCEPT ![e] = NoFd]  BY <1>3 DEF Spent
<1> HIDE DEF e
<1>6. Members(waits') = Members(waits) \ {fd} /\ Once(waits', 1..Len(waits'))
  BY <1>1, <1>2, Fronted DEF FdType
<1>7. NoFd \notin Held  BY DEF Held
<1> DEFINE y == NoFd
<1>8. y \in Fds \cup {NoFd} /\ y = NoFd /\ y \notin Held  BY <1>7
<1> HIDE DEF y
<1>9. /\ Held' = (Held \ {fds[e]}) \cup ({y} \ {NoFd})
      /\ \A k, f \in Entries : fds'[k] = fds'[f] /\ fds'[k] # NoFd => k = f
  <2>1. fds' = [fds EXCEPT ![e] = y]  BY <1>5 DEF y
  <2>2. FdType /\ Paired  BY <1>1
  <2>3. {[fds EXCEPT ![e] = y][k] : k \in Entries} \ {NoFd}
          = (Held \ {fds[e]}) \cup ({y} \ {NoFd})
    BY <2>2, <1>4, <1>8, Refilled
  <2>4. \A k, f \in Entries :
          [fds EXCEPT ![e] = y][k] = [fds EXCEPT ![e] = y][f]
            /\ [fds EXCEPT ![e] = y][k] # NoFd => k = f
    BY <2>2, <1>4, <1>8, Refilled
  <2>5. Held' = {[fds EXCEPT ![e] = y][k] : k \in Entries} \ {NoFd}  BY <2>1 DEF Held
  <2> QED  BY <2>1, <2>3, <2>4, <2>5
<1>10. Held' = Members(waits') /\ armed' = Members(waits')
  BY <1>1, <1>4, <1>6, <1>8, <1>9 DEF Paired
<1> QED  BY <1>6, <1>9, <1>10 DEF Paired

LEMMA SpentType ==
  ASSUME FdType, NEW fd PROVE Spent(fd) \in [Entries -> Fds \cup {NoFd}]
BY DEF Spent, FdType

LEMMA PollFdKeeps == ASSUME FdInv, NEW fd \in Fds, PollFd(fd) PROVE FdInv'
<1>1. /\ waits # <<>> /\ fd \in armed /\ armed' = armed \ {fd} /\ fds' = Spent(fd)
      /\ IF \E i \in Entries : fds[i] = fd
         THEN waits' = Front(waits) /\ crossed' = (crossed \/ Last(waits) # fd)
         ELSE waits' = waits /\ crossed' = crossed
  BY DEF PollFd
<1>2. FdType  BY DEF FdInv
<1>3. FdType'
  <2>1. fds' \in [Entries -> Fds \cup {NoFd}]  BY <1>1, <1>2, SpentType
  <2>2. Front(waits) \in Seq(Fds)  BY <1>1, <1>2, Fronted DEF FdType
  <2>3. waits' \in Seq(Fds) /\ crossed' \in BOOLEAN  BY <1>1, <1>2, <2>2 DEF FdType
  <2> QED  BY <2>1, <2>3 DEF FdType
<1>4. ASSUME ~crossed' PROVE Paired'
  <2>1. ~crossed  BY <1>1, <1>4
  <2>2. \E i \in Entries : fds[i] = fd  BY <1>1, <2>1 DEF FdInv, Paired, Held
  <2>3. waits' = Front(waits) /\ Last(waits) = fd  BY <1>1, <1>4, <2>2
  <2> QED  BY <1>1, <2>1, <2>3, LastLeaves
<1> QED  BY <1>3, <1>4 DEF FdInv

LEMMA WaitFailsKeeps == ASSUME FdInv, WaitFails PROVE FdInv'
<1> DEFINE fd == Last(waits)
<1>1. /\ waits # <<>> /\ fds' = Spent(fd) /\ waits' = Front(waits) /\ crossed' = crossed
      /\ armed' = IF \E i \in Entries : fds[i] = fd THEN armed \ {fd} ELSE armed
  BY DEF WaitFails
<1>2. FdType /\ fd \in Fds /\ Front(waits) \in Seq(Fds) /\ fd \in Members(waits)
  BY <1>1, Fronted DEF FdInv, FdType
<1>3. FdType'
  <2>1. fds' \in [Entries -> Fds \cup {NoFd}]  BY <1>1, <1>2, SpentType
  <2> QED  BY <1>1, <1>2, <2>1 DEF FdType
<1>4. ASSUME ~crossed' PROVE Paired'
  <2>1. ~crossed  BY <1>1, <1>4
  <2>2. \E i \in Entries : fds[i] = fd  BY <1>2, <2>1 DEF FdInv, Paired, Held
  <2>3. armed' = armed \ {fd}  BY <1>1, <2>2
  <2> QED  BY <1>1, <1>2, <2>1, <2>3, LastLeaves
<1> QED  BY <1>3, <1>4 DEF FdInv

LEMMA FdInvNext == FdInv /\ [ReactorNext]_reactorVars => FdInv'
<1> SUFFICES ASSUME FdInv, [ReactorNext]_reactorVars PROVE FdInv'  OBVIOUS
<1>1. ASSUME UNCHANGED <<fds, armed, waits, crossed>> PROVE FdInv'
  BY <1>1, SMTT(30) DEF FdInv, FdType, Paired, Held, Members, Once
<1>2. CASE TimerNext
  <2>1. UNCHANGED fdVars  BY <1>2 DEF TimerNext, Schedule, Cancel, PollTimer, Tick
  <2> QED  BY <2>1, <1>1 DEF fdVars
<1>3. CASE UNCHANGED reactorVars  BY <1>3, <1>1 DEF reactorVars
<1>4. CASE WaitFails  BY <1>4, WaitFailsKeeps
<1>5. ASSUME NEW fd \in Fds, WaitFd(fd) PROVE FdInv'  BY <1>5, WaitFdKeeps
<1>6. ASSUME NEW fd \in Fds, FdReady(fd) PROVE FdInv'  BY <1>6, <1>1 DEF FdReady
<1>7. ASSUME NEW fd \in Fds, PollFd(fd) PROVE FdInv'  BY <1>7, PollFdKeeps
<1> QED  BY <1>2, <1>3, <1>4, <1>5, <1>6, <1>7 DEF ReactorNext, FdNext

\* The places that hold x are one or none.
LEMMA OnePlace ==
  ASSUME NEW D, NEW f, NEW x, \A i, j \in D : f[i] = x /\ f[j] = x => i = j
  PROVE  Cardinality({i \in D : f[i] = x}) = IF \E i \in D : f[i] = x THEN 1 ELSE 0
<1> DEFINE P == {i \in D : f[i] = x}
<1>1. CASE \E i \in D : f[i] = x
  <2>1. PICK i \in D : f[i] = x  BY <1>1
  <2>2. P = {i}  BY <2>1
  <2> QED  BY <1>1, <2>2, FS_Singleton
<1>2. CASE ~\E i \in D : f[i] = x
  <2>1. P = {}  BY <1>2
  <2> QED  BY <1>2, <2>1, FS_EmptySet
<1> QED  BY <1>1, <1>2

LEMMA PairedIsArmed == FdInv => WaitsAreArmed
<1> SUFFICES ASSUME FdInv, ~crossed
             PROVE  /\ armed = ToSet(waits)
                    /\ \A fd \in Fds : Cardinality({i \in Entries : fds[i] = fd})
                                         = Cardinality({i \in 1..Len(waits) : waits[i] = fd})
  BY DEF WaitsAreArmed
<1>1. FdType /\ Paired  BY DEF FdInv
<1>2. ToSet(waits) = Members(waits)  BY <1>1 DEF FdType, ToSet, Members
<1>3. ASSUME NEW fd \in Fds
      PROVE  Cardinality({i \in Entries : fds[i] = fd})
               = Cardinality({i \in 1..Len(waits) : waits[i] = fd})
  <2>1. fd # NoFd  BY HorizonNat
  <2>2. \A i, j \in Entries : fds[i] = fd /\ fds[j] = fd => i = j  BY <1>1, <2>1 DEF Paired
  <2>3. \A i, j \in 1..Len(waits) : waits[i] = fd /\ waits[j] = fd => i = j
    BY <1>1 DEF Paired, Once
  <2>4. (\E i \in Entries : fds[i] = fd) <=> \E i \in 1..Len(waits) : waits[i] = fd
    <3>1. fd \in Held <=> fd \in Members(waits)  BY <1>1 DEF Paired
    <3> QED  BY <3>1, <2>1 DEF Held, Members
  <2>5. Cardinality({i \in Entries : fds[i] = fd}) = IF \E i \in Entries : fds[i] = fd THEN 1 ELSE 0
    BY <2>2, OnePlace
  <2>6. Cardinality({i \in 1..Len(waits) : waits[i] = fd})
          = IF \E i \in 1..Len(waits) : waits[i] = fd THEN 1 ELSE 0
    BY <2>3, OnePlace
  <2> QED  BY <2>4, <2>5, <2>6
<1> QED  BY <1>1, <1>2, <1>3 DEF Paired

\* Registrations and waits go together: for any depth of nested fiber-wait-fd
\* calls and any order of events, until two waits meet on one descriptor or an
\* event ends a wait for another, each descriptor waited for is armed in epoll
\* and has exactly one entry, and no other descriptor is armed or has one
\* (ch_reactor_register_fd, poll_fds, ch_reactor_unregister_fd).
THEOREM WaitsHaveEntries == ReactorSpec => []WaitsAreArmed
BY FdInvInit, FdInvNext, PairedIsArmed, PTL DEF ReactorSpec
=============================================================================
