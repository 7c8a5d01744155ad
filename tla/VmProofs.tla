------------------------------- MODULE VmProofs -------------------------------
(* Proofs about the virtual machine: the captured variables of its registers,  *)
(* for any values, any depth and any number of activations, and the winds,     *)
(* handlers and parameters of user code, for any program, any number of        *)
(* operations and any number of frames.                                        *)
EXTENDS VmControl, VmUpvalues, WellFoundedInduction, SequenceTheorems, TLAPS

-----------------------------------------------------------------------------
(* Searches                                                                   *)

Below == OpToRel(<, Nat)

\* A set of naturals that is not empty has a least member.
LEMMA LeastNat ==
  ASSUME NEW T, T \subseteq Nat, T # {}
  PROVE  \E n \in T : \A m \in T : n <= m
<1>0. Below = {ss \in Nat \X Nat : ss[1] < ss[2]}  BY DEF Below, OpToRel
<1>1. IsWellFoundedOn(Below, Nat)  BY NatLessThanWellFounded DEF Below
<1> HIDE DEF Below
<1>2. PICK n \in T : \A m \in T : ~(<<m, n>> \in Below)  BY <1>1, WFMin
<1>3. \A m \in T : ~(m < n)  BY <1>0, <1>2
<1> QED  BY <1>3

\* A search through the first k numbers stops before the first that is in B.
LEMMA SearchStops ==
  ASSUME NEW k \in Nat, NEW B
  PROVE  \E n \in 0..k : (\A i \in 1..n : i \notin B) /\ (n < k => n + 1 \in B)
<1> DEFINE T == {n \in Nat : n = k \/ n + 1 \in B}
<1>1. T \subseteq Nat /\ k \in T  OBVIOUS
<1>2. PICK n \in T : \A m \in T : n <= m  BY <1>1, LeastNat
<1>3. n \in 0..k  BY <1>1, <1>2
<1>4. \A i \in 1..n : i \notin B
  <2> SUFFICES ASSUME NEW i \in 1..n, i \in B PROVE FALSE  OBVIOUS
  <2>1. i - 1 \in Nat /\ (i - 1) + 1 = i  BY <1>3
  <2>2. i - 1 \in T  BY <2>1
  <2> QED  BY <1>2, <1>3, <2>2
<1> QED  BY <1>2, <1>3, <1>4

-----------------------------------------------------------------------------
(* The inductive invariant.  It speaks of the behaviours in which no           *)
(* continuation re-enters with its variables in the wrong order or without the *)
(* copy of one (uvStray).                                                      *)

RegisterFile == [1..(MaxDepth + 1) -> Vals]
Uv == [at : Nat, val : Vals, of : Nat]

\* The activations of the frames: no two frames belong to the same one.
Stack(cs, m) ==
    /\ cs \in Seq(Nat) /\ Len(cs) <= MaxDepth
    /\ \A i \in 1..Len(cs) : cs[i] \in 1..m
    /\ \A i \in 1..Len(cs), j \in 1..Len(cs) : cs[i] = cs[j] => i = j

\* The open list has the open upvalues and no others, highest register first.
OpenList(op, us) ==
    /\ op \in Seq(Nat)
    /\ \A i \in 1..Len(op) : op[i] \in 1..Len(us) /\ us[op[i]].at # 0
    /\ \A i \in 1..Len(op), j \in 1..Len(op) : i < j => us[op[i]].at > us[op[j]].at
    /\ \A u \in 1..Len(us) : us[u].at # 0 => \E i \in 1..Len(op) : op[i] = u

\* OneValuePerVariable of a state that is given.
Agree(rs, cs, us, ce) ==
    \A u \in 1..Len(us) :
      /\ (IF us[u].at = 0 THEN us[u].val ELSE rs[us[u].at]) = ce[us[u].of]
      /\ us[u].at # 0 => us[u].at <= Len(cs) /\ cs[us[u].at] = us[u].of

\* A variable of a frame that stands is read from its register.
Live(cs, us) ==
    \A u \in 1..Len(us), i \in 1..Len(cs) : us[u].of = cs[i] => us[u].at = i

\* A variable has one upvalue, however often it is captured.
Shared(us) == \A u \in 1..Len(us), w \in 1..Len(us) : us[u].of = us[w].of => u = w

Upvalues(us, m) == us \in Seq(Uv) /\ \A u \in 1..Len(us) : us[u].of \in 1..m

\* The copy a continuation holds: its upvalues belong to its frames.
Copy(k, us, m) ==
    k.set => /\ k.regs \in RegisterFile /\ Stack(k.calls, m)
             /\ k.open \in Seq([uv : Nat, reg : Nat])
             /\ \A i \in 1..Len(k.open) :
                  /\ k.open[i].uv \in 1..Len(us) /\ k.open[i].reg \in 1..Len(k.calls)
                  /\ us[k.open[i].uv].of = k.calls[k.open[i].reg]

Counts(m, ce) == m \in 1..MaxActivs /\ ce \in [1..MaxActivs -> Vals]

Sound ==
    /\ regs \in RegisterFile /\ Counts(made, cell) /\ Stack(calls, made)
    /\ Upvalues(uvs, made) /\ OpenList(open, uvs) /\ Agree(regs, calls, uvs, cell)
    /\ Live(calls, uvs) /\ Shared(uvs) /\ Copy(kont, uvs, made)

UvInv == ~uvStray => Sound

-----------------------------------------------------------------------------
(* Facts that outlive a step                                                  *)

\* A step that keeps whose variables the upvalues are keeps the copy sound.
LEMMA CopyKept ==
  ASSUME NEW k, NEW us, NEW vs, NEW m \in Nat, NEW n \in Nat, m <= n,
         Copy(k, us, m), Len(us) \in Nat, Len(vs) \in Nat, Len(us) <= Len(vs),
         \A u \in 1..Len(us) : vs[u].of = us[u].of
  PROVE  Copy(k, vs, n)
<1> SUFFICES ASSUME k.set PROVE Copy(k, vs, n)  BY DEF Copy
<1>1. /\ k.regs \in RegisterFile /\ Stack(k.calls, m)
      /\ k.open \in Seq([uv : Nat, reg : Nat])
      /\ \A i \in 1..Len(k.open) :
           /\ k.open[i].uv \in 1..Len(us) /\ k.open[i].reg \in 1..Len(k.calls)
           /\ us[k.open[i].uv].of = k.calls[k.open[i].reg]
  BY DEF Copy
<1>2. Stack(k.calls, n)  BY <1>1 DEF Stack
<1>3. ASSUME NEW i \in 1..Len(k.open)
      PROVE  /\ k.open[i].uv \in 1..Len(vs) /\ k.open[i].reg \in 1..Len(k.calls)
             /\ vs[k.open[i].uv].of = k.calls[k.open[i].reg]
  <2>1. PICK u \in 1..Len(us) : u = k.open[i].uv  BY <1>1
  <2>2. vs[u].of = us[u].of /\ u \in 1..Len(vs)  BY <2>1
  <2> QED  BY <1>1, <2>1, <2>2
<1> QED  BY <1>1, <1>2, <1>3 DEF Copy

\* close_upvalues(last) closes the open upvalues at or above a register and
\* leaves the others in the list.
LEMMA ClosesFrom ==
  ASSUME Upvalues(uvs, made), OpenList(open, uvs), regs \in RegisterFile,
         Agree(regs, calls, uvs, cell), Len(calls) \in Nat, Len(calls) <= MaxDepth,
         NEW last \in Nat, last >= 1, CloseUpvalues(last)
  PROVE  /\ uvs' \in Seq(Uv) /\ Len(uvs') = Len(uvs)
         /\ \A u \in 1..Len(uvs) :
              /\ uvs'[u].of = uvs[u].of
              /\ uvs[u].at >= last => uvs'[u].at = 0 /\ uvs'[u].val = regs[uvs[u].at]
              /\ uvs[u].at < last => uvs'[u] = uvs[u]
         /\ OpenList(open', uvs')
<1>1. /\ open \in Seq(Nat) /\ Len(open) \in Nat
      /\ \A i \in 1..Len(open) : open[i] \in 1..Len(uvs) /\ uvs[open[i]].at # 0
      /\ \A i \in 1..Len(open), j \in 1..Len(open) : i < j => uvs[open[i]].at > uvs[open[j]].at
      /\ \A u \in 1..Len(uvs) : uvs[u].at # 0 => \E i \in 1..Len(open) : open[i] = u
  BY DEF OpenList
<1>2. uvs \in Seq(Uv) /\ Len(uvs) \in Nat /\ \A u \in 1..Len(uvs) : uvs[u] \in Uv /\ uvs[u].at \in Nat
  <2>1. uvs \in Seq(Uv)  BY DEF Upvalues
  <2>2. ASSUME NEW u \in 1..Len(uvs) PROVE uvs[u] \in Uv /\ uvs[u].at \in Nat
    <3>1. uvs[u] \in Uv  BY <2>1, ElementOfSeq
    <3> QED  BY <3>1 DEF Uv
  <2> QED  BY <2>1, <2>2, LenProperties
<1>3. \E n \in 0..Len(open) : /\ \A i \in 1..n : Loc(open[i]) >= last
                              /\ n < Len(open) => Loc(open[n + 1]) < last
  <2>0. Len(open) \in Nat  BY <1>1
  <2> DEFINE B == {i \in 1..Len(open) : Loc(open[i]) < last}
  <2>1. \E n \in 0..Len(open) : (\A i \in 1..n : i \notin B) /\ (n < Len(open) => n + 1 \in B)
    <3> HIDE DEF B
    <3> QED  BY <2>0, SearchStops
  <2>2. PICK n \in 0..Len(open) : (\A i \in 1..n : i \notin B) /\ (n < Len(open) => n + 1 \in B)
    BY <2>1
  <2>3. ASSUME NEW i \in 1..n PROVE Loc(open[i]) >= last
    <3>1. i \in 1..Len(open) /\ ~(Loc(open[i]) < last)  BY <2>0, <2>2
    <3>2. Loc(open[i]) \in Nat  BY <1>1, <1>2, <3>1 DEF Loc
    <3> QED  BY <3>1, <3>2
  <2>4. n < Len(open) => Loc(open[n + 1]) < last  BY <2>2
  <2> QED  BY <2>3, <2>4
<1>4. PICK n \in 0..Len(open) :
        /\ n = Closing(last)
        /\ \A i \in 1..n : uvs[open[i]].at >= last
        /\ n < Len(open) => uvs[open[n + 1]].at < last
  BY <1>3 DEF Closing, Loc
<1>5. uvs' = Closed({open[i] : i \in 1..n}) /\ open' = SubSeq(open, n + 1, Len(open))
  BY <1>4 DEF CloseUpvalues
<1>6. \A u \in 1..Len(uvs) : (u \in {open[i] : i \in 1..n}) <=> uvs[u].at >= last
  <2> TAKE u \in 1..Len(uvs)
  <2>1. ASSUME NEW i \in 1..n, open[i] = u PROVE uvs[u].at >= last  BY <1>4, <2>1
  <2>2. ASSUME uvs[u].at >= last PROVE \E i \in 1..n : open[i] = u
    <3>1. uvs[u].at # 0  BY <1>2, <2>2
    <3>2. PICK i \in 1..Len(open) : open[i] = u  BY <1>1, <3>1
    <3>3. ASSUME i > n PROVE FALSE
      <4>1. n + 1 \in 1..Len(open) /\ n < Len(open)  BY <1>1, <3>3
      <4>2. uvs[open[n + 1]].at < last /\ uvs[open[n + 1]].at \in Nat  BY <1>1, <1>2, <1>4, <4>1
      <4>4. i = n + 1 \/ n + 1 < i  BY <1>1, <3>3
      <4>3. i = n + 1 \/ uvs[open[n + 1]].at > uvs[u].at  BY <1>1, <3>2, <4>1, <4>4
      <4> QED  BY <1>2, <2>2, <3>2, <4>2, <4>3
    <3> QED  BY <3>2, <3>3
  <2> QED  BY <2>1, <2>2
<1>7. /\ uvs' \in Seq(Uv) /\ Len(uvs') = Len(uvs)
      /\ \A u \in 1..Len(uvs) :
              /\ uvs'[u].of = uvs[u].of
              /\ uvs[u].at >= last => uvs'[u].at = 0 /\ uvs'[u].val = regs[uvs[u].at]
              /\ uvs[u].at < last => uvs'[u] = uvs[u]
  <2> DEFINE e(u) == IF uvs[u].at >= last THEN [uvs[u] EXCEPT !.val = Value(u), !.at = 0] ELSE uvs[u]
  <2>1. uvs' = [u \in 1..Len(uvs) |-> e(u)]  BY <1>5, <1>6 DEF Closed
  <2>2. ASSUME NEW u \in 1..Len(uvs)
        PROVE  /\ e(u) \in Uv /\ e(u).of = uvs[u].of
               /\ uvs[u].at >= last => e(u).at = 0 /\ e(u).val = regs[uvs[u].at]
               /\ uvs[u].at < last => e(u) = uvs[u]
    <3>1. uvs[u] \in Uv /\ uvs[u].at \in Nat  BY <1>2
    <3>2. CASE uvs[u].at >= last
      <4>1. uvs[u].at # 0 /\ Value(u) = regs[uvs[u].at]  BY <3>1, <3>2 DEF Value
      <4>2. uvs[u].at \in 1..(MaxDepth + 1)
        BY <3>1, <4>1, VmUpvaluesAssumption DEF Agree
      <4>3. Value(u) \in Vals  BY <4>1, <4>2 DEF RegisterFile
      <4>4. e(u) = [uvs[u] EXCEPT !.val = Value(u), !.at = 0]  BY <3>2
      <4>5. PICK x \in Uv : x = uvs[u]  BY <3>1
      <4>6. PICK y \in Uv : y = [x EXCEPT !.val = Value(u), !.at = 0]  BY <4>3 DEF Uv
      <4>7. y.of = x.of /\ y.at = 0 /\ y.val = Value(u)  BY <4>6 DEF Uv
      <4>8. e(u) = y  BY <4>4, <4>5, <4>6
      <4> HIDE DEF e
      <4> QED  BY <3>1, <3>2, <4>1, <4>5, <4>7, <4>8
    <3>3. CASE ~(uvs[u].at >= last)  BY <3>1, <3>3
    <3> QED  BY <3>2, <3>3
  <2> HIDE DEF e
  <2>3. uvs' \in [1..Len(uvs) -> Uv] /\ \A u \in 1..Len(uvs) : uvs'[u] = e(u)  BY <2>1, <2>2
  <2>4. uvs' \in Seq(Uv) /\ Len(uvs') = Len(uvs)  BY <1>2, <2>3
  <2> QED  BY <2>2, <2>3, <2>4
<1>8. /\ open' \in Seq(Nat) /\ Len(open') = Len(open) - n
      /\ \A i \in 1..(Len(open) - n) : open'[i] = open[n + i] /\ n + i \in 1..Len(open)
  <2>1. \A i \in (n + 1)..Len(open) : open[i] \in Nat  BY <1>1
  <2>2. n + 1 \in Int /\ Len(open) \in Int  BY <1>1
  <2>3. /\ SubSeq(open, n + 1, Len(open)) \in Seq(Nat)
        /\ Len(SubSeq(open, n + 1, Len(open)))
             = IF n + 1 <= Len(open) THEN Len(open) - (n + 1) + 1 ELSE 0
        /\ \A i \in 1..(Len(open) - (n + 1) + 1) :
              SubSeq(open, n + 1, Len(open))[i] = open[n + 1 + i - 1]
    BY <2>1, <2>2, SubSeqProperties
  <2>4. Len(open') = Len(open) - n  BY <1>1, <1>5, <2>3
  <2>5. ASSUME NEW i \in 1..(Len(open) - n) PROVE open'[i] = open[n + i] /\ n + i \in 1..Len(open)
    <3>1. i \in 1..(Len(open) - (n + 1) + 1) /\ n + 1 + i - 1 = n + i  BY <1>1
    <3> QED  BY <1>1, <1>5, <2>3, <3>1
  <2> QED  BY <1>5, <2>3, <2>4, <2>5
<1>9. ASSUME NEW i \in 1..Len(open') PROVE open'[i] \in 1..Len(uvs) /\ uvs'[open'[i]] = uvs[open'[i]]
  <2>1. open'[i] = open[n + i] /\ n + i \in 1..Len(open)  BY <1>8
  <2>2. n + 1 \in 1..Len(open) /\ n < Len(open)  BY <1>1, <2>1
  <2>3. uvs[open[n + 1]].at < last /\ uvs[open[n + 1]].at \in Nat  BY <1>1, <1>2, <1>4, <2>2
  <2>4. n + i = n + 1 \/ uvs[open[n + 1]].at > uvs[open[n + i]].at
    <3>1. n + i = n + 1 \/ n + 1 < n + i  BY <1>8
    <3> QED  BY <1>1, <2>1, <2>2, <3>1, ZenonT(40)
  <2>6. uvs[open[n + i]].at \in Nat  BY <1>1, <1>2, <2>1
  <2>5. uvs[open[n + i]].at < last  BY <2>3, <2>4, <2>6, SMTT(30)
  <2> QED  BY <1>1, <1>7, <2>1, <2>5
<1>10. OpenList(open', uvs')
  <2>1. ASSUME NEW i \in 1..Len(open') PROVE open'[i] \in 1..Len(uvs') /\ uvs'[open'[i]].at # 0
    <3>1. open'[i] = open[n + i] /\ n + i \in 1..Len(open)  BY <1>8
    <3> QED  BY <1>1, <1>7, <1>9, <3>1
  <2>2. ASSUME NEW i \in 1..Len(open'), NEW j \in 1..Len(open'), i < j
        PROVE  uvs'[open'[i]].at > uvs'[open'[j]].at
    <3>1. /\ open'[i] = open[n + i] /\ n + i \in 1..Len(open)
          /\ open'[j] = open[n + j] /\ n + j \in 1..Len(open)
      BY <1>8
    <3>2. n + i < n + j  BY <1>8, <2>2
    <3> QED  BY <1>1, <1>9, <3>1, <3>2, ZenonT(40)
  <2>3. ASSUME NEW u \in 1..Len(uvs'), uvs'[u].at # 0 PROVE \E i \in 1..Len(open') : open'[i] = u
    <3>1. u \in 1..Len(uvs) /\ uvs'[u] = uvs[u] /\ ~(uvs[u].at >= last)  BY <1>2, <1>7, <2>3
    <3>2. PICK j \in 1..Len(open) : open[j] = u  BY <1>1, <2>3, <3>1
    <3>3. j > n  BY <1>4, <3>1, <3>2
    <3>4. j - n \in 1..Len(open') /\ n + (j - n) = j  BY <1>1, <1>8, <3>3
    <3> QED  BY <1>8, <3>2, <3>4
  <2> QED  BY <1>8, <2>1, <2>2, <2>3 DEF OpenList
<1> QED  BY <1>7, <1>10

\* What Sound says, with the ranges its parts imply.
LEMMA SoundFacts ==
  ASSUME Sound
  PROVE  /\ regs \in RegisterFile /\ made \in Nat /\ made <= MaxActivs /\ cell \in [1..MaxActivs -> Vals]
         /\ calls \in Seq(Nat) /\ Len(calls) \in Nat /\ Len(calls) <= MaxDepth
         /\ \A i \in 1..Len(calls) : calls[i] \in Nat /\ calls[i] >= 1 /\ calls[i] <= made
         /\ uvs \in Seq(Uv) /\ Len(uvs) \in Nat
         /\ \A u \in 1..Len(uvs) : /\ uvs[u] \in Uv /\ uvs[u].at \in Nat /\ uvs[u].at <= Len(calls)
                                   /\ uvs[u].val \in Vals
                                   /\ uvs[u].of \in Nat /\ uvs[u].of >= 1 /\ uvs[u].of <= made
         /\ open \in Seq(Nat) /\ Len(open) \in Nat
         /\ MaxDepth \in Nat /\ MaxActivs \in Nat
<1>1. regs \in RegisterFile /\ made \in Nat /\ made <= MaxActivs /\ cell \in [1..MaxActivs -> Vals]
  BY VmUpvaluesAssumption DEF Sound, Counts
<1>2. Stack(calls, made) /\ Upvalues(uvs, made) /\ OpenList(open, uvs) /\ Agree(regs, calls, uvs, cell)
  BY DEF Sound
<1>3. calls \in Seq(Nat) /\ Len(calls) \in Nat /\ Len(calls) <= MaxDepth
         /\ \A i \in 1..Len(calls) : calls[i] \in Nat /\ calls[i] >= 1 /\ calls[i] <= made
  BY <1>1, <1>2 DEF Stack
<1>4. uvs \in Seq(Uv) /\ \A u \in 1..Len(uvs) : uvs[u].of \in 1..made  BY <1>2 DEF Upvalues
<1>5. ASSUME NEW u \in 1..Len(uvs)
      PROVE  /\ uvs[u] \in Uv /\ uvs[u].at \in Nat /\ uvs[u].at <= Len(calls)
             /\ uvs[u].val \in Vals
             /\ uvs[u].of \in Nat /\ uvs[u].of >= 1 /\ uvs[u].of <= made
  <2>1. uvs[u] \in Uv  BY <1>4, ElementOfSeq
  <2>2. uvs[u].at \in Nat /\ uvs[u].val \in Vals  BY <2>1 DEF Uv
  <2>3. uvs[u].at <= Len(calls)
    <3>1. uvs[u].at # 0 => uvs[u].at <= Len(calls)  BY <1>2 DEF Agree
    <3> QED  BY <1>3, <2>2, <3>1
  <2> QED  BY <1>1, <1>4, <2>1, <2>2, <2>3
<1>6. open \in Seq(Nat)  BY <1>2 DEF OpenList
<1>7. Len(uvs) \in Nat /\ Len(open) \in Nat  BY <1>4, <1>6, LenProperties
<1> QED  BY <1>1, <1>3, <1>4, <1>5, <1>6, <1>7, VmUpvaluesAssumption

-----------------------------------------------------------------------------
(* The steps that leave frames: CH_OP_TAIL_CALL, CH_OP_RETURN and an escape    *)
(* close what lies at or above the first register given back, write there, and *)
(* keep the frames below.                                                      *)
LEMMA LeaveFrames ==
  ASSUME Sound, NEW last \in 1..Len(calls), NEW v \in Vals, CloseUpvalues(last),
         regs' = [regs EXCEPT ![last] = v], UNCHANGED <<kont, cell>>,
         calls' \in Seq(Nat), \A i \in 1..(last - 1) : calls'[i] = calls[i],
         \/ Len(calls') = last - 1 /\ made' = made
         \/ Len(calls') = last /\ calls'[last] = made + 1 /\ made' = made + 1 /\ made < MaxActivs
  PROVE  Sound'
<1>1. /\ Stack(calls, made) /\ Upvalues(uvs, made) /\ OpenList(open, uvs)
      /\ Agree(regs, calls, uvs, cell) /\ Live(calls, uvs) /\ Shared(uvs) /\ Copy(kont, uvs, made)
  BY DEF Sound
<1>2. /\ regs \in RegisterFile /\ made \in Nat /\ made <= MaxActivs /\ cell \in [1..MaxActivs -> Vals]
      /\ calls \in Seq(Nat) /\ Len(calls) \in Nat /\ Len(calls) <= MaxDepth
      /\ \A i \in 1..Len(calls) : calls[i] \in Nat /\ calls[i] >= 1 /\ calls[i] <= made
      /\ Len(uvs) \in Nat /\ MaxDepth \in Nat /\ MaxActivs \in Nat
  BY SoundFacts
<1>3. \A u \in 1..Len(uvs) : /\ uvs[u].at \in Nat /\ uvs[u].at <= Len(calls)
                             /\ uvs[u].of \in Nat /\ uvs[u].of >= 1 /\ uvs[u].of <= made
  BY SoundFacts
<1>4. last \in Nat /\ last >= 1 /\ last <= Len(calls)  BY <1>2
<1>5. /\ uvs' \in Seq(Uv) /\ Len(uvs') = Len(uvs)
      /\ \A u \in 1..Len(uvs) :
           /\ uvs'[u].of = uvs[u].of
           /\ uvs[u].at >= last => uvs'[u].at = 0 /\ uvs'[u].val = regs[uvs[u].at]
           /\ uvs[u].at < last => uvs'[u] = uvs[u]
      /\ OpenList(open', uvs')
  BY <1>1, <1>2, <1>4, ClosesFrom
<1>6. regs' \in RegisterFile /\ \A r \in 1..(last - 1) : regs'[r] = regs[r]
  BY <1>2, <1>4 DEF RegisterFile
<1>7. /\ made' \in Nat /\ made <= made' /\ Counts(made', cell')
      /\ Len(calls') \in Nat /\ Len(calls') <= last /\ Len(calls') >= last - 1
  <2>1. made >= 1  BY <1>1, <1>2, <1>4
  <2> QED  BY <1>2, <1>4, <2>1, SMTT(30) DEF Counts
<1>8. \A i \in 1..Len(calls') :
         \/ i < last /\ calls'[i] = calls[i] /\ i \in 1..Len(calls)
         \/ i = last /\ calls'[i] = made + 1 /\ made' = made + 1
  <2> TAKE i \in 1..Len(calls')
  <2>1. CASE i < last
    <3>1. i \in 1..(last - 1) /\ i \in 1..Len(calls)  BY <1>2, <1>4, <1>7, <2>1
    <3>2. calls'[i] = calls[i]  BY <3>1
    <3> QED  BY <2>1, <3>1, <3>2
  <2>2. CASE ~(i < last)
    <3>1. i = last /\ Len(calls') = last  BY <1>4, <1>7, <2>2
    <3> QED  BY <1>4, <3>1
  <2> QED  BY <2>1, <2>2
<1>9. Stack(calls', made')
  <2>1. Len(calls') <= MaxDepth  BY <1>2, <1>4, <1>7
  <2>2. ASSUME NEW i \in 1..Len(calls') PROVE calls'[i] \in 1..made'
    <3>1. CASE calls'[i] = calls[i] /\ i \in 1..Len(calls)  BY <1>2, <1>7, <3>1, SMTT(30)
    <3>2. CASE calls'[i] = made + 1 /\ made' = made + 1  BY <1>2, <3>2
    <3> QED  BY <1>8, <3>1, <3>2
  <2>3. ASSUME NEW i \in 1..Len(calls'), NEW j \in 1..Len(calls'), calls'[i] = calls'[j]
        PROVE  i = j
    <3>1. \A x \in 1..Len(calls), y \in 1..Len(calls) : calls[x] = calls[y] => x = y
      BY <1>1 DEF Stack
    <3>2. \A x \in 1..Len(calls) : calls[x] # made + 1  BY <1>2, SMTT(30)
    <3> QED  BY <1>8, <2>3, <3>1, <3>2
  <2> QED  BY <2>1, <2>2, <2>3 DEF Stack
<1>10. Upvalues(uvs', made')
  <2>1. ASSUME NEW u \in 1..Len(uvs') PROVE uvs'[u].of \in 1..made'
    <3>1. u \in 1..Len(uvs) /\ uvs'[u].of = uvs[u].of  BY <1>5
    <3> QED  BY <1>2, <1>3, <1>7, <3>1, SMTT(30)
  <2> QED  BY <1>5, <2>1 DEF Upvalues
<1>11. Agree(regs', calls', uvs', cell')
  <2> SUFFICES ASSUME NEW u \in 1..Len(uvs)
               PROVE  /\ (IF uvs'[u].at = 0 THEN uvs'[u].val ELSE regs'[uvs'[u].at]) = cell[uvs[u].of]
                      /\ uvs'[u].at # 0 => /\ uvs'[u].at <= Len(calls')
                                           /\ calls'[uvs'[u].at] = uvs[u].of
    BY <1>5 DEF Agree
  <2>1. /\ (IF uvs[u].at = 0 THEN uvs[u].val ELSE regs[uvs[u].at]) = cell[uvs[u].of]
        /\ uvs[u].at # 0 => uvs[u].at <= Len(calls) /\ calls[uvs[u].at] = uvs[u].of
    BY <1>1 DEF Agree
  <2>2. uvs[u].at \in Nat  BY <1>3
  <2>3. CASE uvs[u].at >= last
    <3>1. uvs'[u].at = 0 /\ uvs'[u].val = regs[uvs[u].at] /\ uvs[u].at # 0  BY <1>4, <1>5, <2>2, <2>3
    <3> QED  BY <2>1, <3>1
  <2>4. CASE uvs[u].at = 0
    <3>1. uvs'[u] = uvs[u]  BY <1>4, <1>5, <2>4
    <3> QED  BY <2>1, <2>4, <3>1
  <2>5. CASE uvs[u].at # 0 /\ uvs[u].at < last
    <3>1. uvs'[u] = uvs[u]  BY <1>5, <2>5
    <3>2. uvs[u].at \in 1..(last - 1)  BY <1>4, <2>2, <2>5
    <3>3. regs'[uvs[u].at] = regs[uvs[u].at] /\ calls'[uvs[u].at] = calls[uvs[u].at]
      BY <1>6, <3>2
    <3>4. uvs[u].at <= Len(calls')  BY <1>4, <1>7, <3>2
    <3> QED  BY <2>1, <2>5, <3>1, <3>3, <3>4
  <2> QED  BY <1>4, <2>2, <2>3, <2>4, <2>5
<1>12. Live(calls', uvs')
  <2> SUFFICES ASSUME NEW u \in 1..Len(uvs), NEW i \in 1..Len(calls'), uvs[u].of = calls'[i]
               PROVE  uvs'[u].at = i
    BY <1>5 DEF Live
  <2>1. calls'[i] = calls[i] /\ i < last /\ i \in 1..Len(calls)  BY <1>2, <1>3, <1>8, SMTT(30)
  <2>2. uvs[u].at = i  BY <1>1, <2>1 DEF Live
  <2> QED  BY <1>5, <2>1, <2>2
<1>13. Shared(uvs')
  <2> SUFFICES ASSUME NEW u \in 1..Len(uvs), NEW w \in 1..Len(uvs), uvs[u].of = uvs[w].of
               PROVE  u = w
    BY <1>5 DEF Shared
  <2> QED  BY <1>1 DEF Shared
<1>14. Copy(kont', uvs', made')
  <2>1. \A u \in 1..Len(uvs) : uvs'[u].of = uvs[u].of  BY <1>5
  <2>2. Len(uvs') \in Nat /\ Len(uvs) <= Len(uvs') /\ kont' = kont  BY <1>2, <1>5
  <2> QED  BY <1>1, <1>2, <1>7, <2>1, <2>2, CopyKept
<1> QED  BY <1>5, <1>6, <1>7, <1>9, <1>10, <1>11, <1>12, <1>13, <1>14 DEF Sound

\* The frames without the last one.
LEMMA FrontFrames ==
  ASSUME NEW cs \in Seq(Nat), Len(cs) > 0
  PROVE  /\ Front(cs) \in Seq(Nat) /\ Len(Front(cs)) = Len(cs) - 1
         /\ \A i \in 1..(Len(cs) - 1) : Front(cs)[i] = cs[i]
<1>1. Len(cs) \in Nat /\ \A i \in 1..Len(cs) : cs[i] \in Nat  BY LenProperties, ElementOfSeq
<1>2. PICK n \in Nat : n = Len(cs) - 1  BY <1>1
<1>3. \A i \in 1..n : cs[i] \in Nat  BY <1>1, <1>2
<1>4. /\ SubSeq(cs, 1, n) \in Seq(Nat) /\ Len(SubSeq(cs, 1, n)) = n
      /\ \A i \in 1..n : SubSeq(cs, 1, n)[i] = cs[i]
  <2>1. /\ SubSeq(cs, 1, n) \in Seq(Nat)
        /\ Len(SubSeq(cs, 1, n)) = IF 1 <= n THEN n - 1 + 1 ELSE 0
        /\ \A i \in 1..(n - 1 + 1) : SubSeq(cs, 1, n)[i] = cs[1 + i - 1]
    BY <1>3, SubSeqProperties
  <2>2. ASSUME NEW i \in 1..n PROVE SubSeq(cs, 1, n)[i] = cs[i]
    <3>1. i \in 1..(n - 1 + 1) /\ 1 + i - 1 = i  OBVIOUS
    <3> QED  BY <2>1, <3>1
  <2> QED  BY <2>1, <2>2
<1> QED  BY <1>2, <1>4 DEF Front

LEMMA TailCallSound ==
  ASSUME Sound, NEW v \in Vals, TailCall(v) PROVE Sound'
<1>1. /\ calls \in Seq(Nat) /\ Len(calls) \in Nat /\ made \in Nat /\ MaxActivs \in Nat
      /\ made <= MaxActivs
  BY SoundFacts
<1>2. /\ Len(calls) > 0 /\ made < MaxActivs /\ CloseUpvalues(Len(calls))
      /\ calls' = Append(Front(calls), made + 1) /\ made' = made + 1
      /\ regs' = [regs EXCEPT ![Len(calls)] = v] /\ UNCHANGED <<kont, cell>>
  BY DEF TailCall, Depth
<1>3. /\ Front(calls) \in Seq(Nat) /\ Len(Front(calls)) = Len(calls) - 1
      /\ \A i \in 1..(Len(calls) - 1) : Front(calls)[i] = calls[i]
  BY <1>1, <1>2, FrontFrames
<1>4. /\ calls' \in Seq(Nat) /\ Len(calls') = Len(calls)
      /\ calls'[Len(calls)] = made + 1
      /\ \A i \in 1..(Len(calls) - 1) : calls'[i] = calls[i]
  <2>1. made + 1 \in Nat  BY <1>1
  <2>2. /\ Append(Front(calls), made + 1) \in Seq(Nat)
        /\ Len(Append(Front(calls), made + 1)) = Len(Front(calls)) + 1
        /\ \A i \in 1..Len(Front(calls)) : Append(Front(calls), made + 1)[i] = Front(calls)[i]
        /\ Append(Front(calls), made + 1)[Len(Front(calls)) + 1] = made + 1
    BY <1>3, <2>1, AppendProperties
  <2>3. Len(Front(calls)) + 1 = Len(calls)  BY <1>1, <1>3
  <2> QED  BY <1>2, <1>3, <2>2, <2>3
<1>5. Len(calls) \in 1..Len(calls)  BY <1>1, <1>2
<1> QED  BY <1>2, <1>4, <1>5, LeaveFrames

LEMMA UvReturnSound ==
  ASSUME Sound, NEW v \in Vals, UvReturn(v) PROVE Sound'
<1>1. calls \in Seq(Nat) /\ Len(calls) \in Nat  BY SoundFacts
<1>2. /\ Len(calls) > 0 /\ CloseUpvalues(Len(calls)) /\ calls' = Front(calls)
      /\ regs' = [regs EXCEPT ![Len(calls)] = v] /\ UNCHANGED <<kont, made, cell>>
  BY DEF UvReturn, Depth
<1>3. /\ calls' \in Seq(Nat) /\ Len(calls') = Len(calls) - 1
      /\ \A i \in 1..(Len(calls) - 1) : calls'[i] = calls[i]
  BY <1>1, <1>2, FrontFrames
<1>4. Len(calls) \in 1..Len(calls)  BY <1>1, <1>2
<1> QED  BY <1>2, <1>3, <1>4, LeaveFrames

LEMMA UvEscapeSound ==
  ASSUME Sound, NEW d \in 1..Depth, NEW v \in Vals, UvEscape(d, v) PROVE Sound'
<1>1. calls \in Seq(Nat) /\ Len(calls) \in Nat  BY SoundFacts
<1>2. /\ d < Len(calls) /\ CloseUpvalues(d + 1) /\ calls' = SubSeq(calls, 1, d)
      /\ regs' = [regs EXCEPT ![d + 1] = v] /\ UNCHANGED <<kont, made, cell>>
  BY DEF UvEscape, Depth
<1>3. d \in Nat /\ d >= 1  BY <1>1 DEF Depth
<1>4. /\ calls' \in Seq(Nat) /\ Len(calls') = d /\ \A i \in 1..d : calls'[i] = calls[i]
  BY <1>1, <1>2, <1>3
<1>5. PICK last \in 1..Len(calls) : last = d + 1 /\ last - 1 = d  BY <1>1, <1>2, <1>3
<1>6. CloseUpvalues(last) /\ regs' = [regs EXCEPT ![last] = v]  BY <1>2, <1>5
<1>7. Len(calls') = last - 1 /\ \A i \in 1..(last - 1) : calls'[i] = calls[i]  BY <1>4, <1>5
<1>8. calls' \in Seq(Nat) /\ made' = made /\ UNCHANGED <<kont, cell>>  BY <1>2, <1>4
<1> QED  BY <1>6, <1>7, <1>8, LeaveFrames

\* A call leaves every captured register alone: its frame begins above them.
LEMMA CallSound ==
  ASSUME Sound, NEW v \in Vals, Call(v) PROVE Sound'
<1>1. /\ Stack(calls, made) /\ Upvalues(uvs, made) /\ OpenList(open, uvs)
      /\ Agree(regs, calls, uvs, cell) /\ Live(calls, uvs) /\ Shared(uvs) /\ Copy(kont, uvs, made)
  BY DEF Sound
<1>2. /\ regs \in RegisterFile /\ made \in Nat /\ cell \in [1..MaxActivs -> Vals]
      /\ calls \in Seq(Nat) /\ Len(calls) \in Nat
      /\ \A i \in 1..Len(calls) : calls[i] \in Nat /\ calls[i] >= 1 /\ calls[i] <= made
      /\ Len(uvs) \in Nat /\ MaxDepth \in Nat /\ MaxActivs \in Nat
  BY SoundFacts
<1>3. \A u \in 1..Len(uvs) : /\ uvs[u].at \in Nat /\ uvs[u].at <= Len(calls)
                             /\ uvs[u].of \in Nat /\ uvs[u].of >= 1 /\ uvs[u].of <= made
  BY SoundFacts
<1>4. /\ Len(calls) < MaxDepth /\ made < MaxActivs
      /\ calls' = Append(calls, made + 1) /\ made' = made + 1
      /\ regs' = [regs EXCEPT ![Len(calls) + 1] = v]
      /\ UNCHANGED <<uvs, open, kont, cell>>
  BY DEF Call, Depth
<1>5. /\ calls' \in Seq(Nat) /\ Len(calls') = Len(calls) + 1
      /\ calls'[Len(calls) + 1] = made + 1
      /\ \A i \in 1..Len(calls) : calls'[i] = calls[i]
  <2>1. made + 1 \in Nat  BY <1>2
  <2> QED  BY <1>2, <1>4, <2>1, AppendProperties
<1>6. \A i \in 1..Len(calls') :
         \/ i \in 1..Len(calls) /\ calls'[i] = calls[i]
         \/ i = Len(calls) + 1 /\ calls'[i] = made + 1
  <2> TAKE i \in 1..Len(calls')
  <2>1. i \in 1..Len(calls) \/ i = Len(calls) + 1  BY <1>2, <1>5
  <2> QED  BY <1>5, <2>1
<1>7. regs' \in RegisterFile /\ \A r \in 1..Len(calls) : regs'[r] = regs[r]
  BY <1>2, <1>4 DEF RegisterFile
<1>8. Counts(made', cell')  BY <1>2, <1>4 DEF Counts
<1>9. Stack(calls', made')
  <2>1. Len(calls') <= MaxDepth  BY <1>2, <1>4, <1>5
  <2>2. ASSUME NEW i \in 1..Len(calls') PROVE calls'[i] \in 1..made'
    BY <1>2, <1>4, <1>6
  <2>3. ASSUME NEW i \in 1..Len(calls'), NEW j \in 1..Len(calls'), calls'[i] = calls'[j]
        PROVE  i = j
    <3>1. \A x \in 1..Len(calls), y \in 1..Len(calls) : calls[x] = calls[y] => x = y
      BY <1>1 DEF Stack
    <3>2. \A x \in 1..Len(calls) : calls[x] # made + 1  BY <1>2
    <3> QED  BY <1>6, <2>3, <3>1, <3>2
  <2> QED  BY <1>5, <2>1, <2>2, <2>3 DEF Stack
<1>10. Upvalues(uvs', made')
  <2>1. uvs \in Seq(Uv)  BY <1>1 DEF Upvalues
  <2>2. \A u \in 1..Len(uvs) : uvs[u].of \in 1..made'  BY <1>2, <1>3, <1>4
  <2> QED  BY <1>4, <2>1, <2>2 DEF Upvalues
<1>11. Agree(regs', calls', uvs', cell')
  <2> SUFFICES ASSUME NEW u \in 1..Len(uvs)
               PROVE  /\ (IF uvs[u].at = 0 THEN uvs[u].val ELSE regs'[uvs[u].at]) = cell[uvs[u].of]
                      /\ uvs[u].at # 0 => /\ uvs[u].at <= Len(calls')
                                          /\ calls'[uvs[u].at] = uvs[u].of
    BY <1>4 DEF Agree
  <2>1. /\ (IF uvs[u].at = 0 THEN uvs[u].val ELSE regs[uvs[u].at]) = cell[uvs[u].of]
        /\ uvs[u].at # 0 => uvs[u].at <= Len(calls) /\ calls[uvs[u].at] = uvs[u].of
    BY <1>1 DEF Agree
  <2>2. CASE uvs[u].at = 0  BY <2>1, <2>2
  <2>3. CASE uvs[u].at # 0
    <3>1. uvs[u].at \in 1..Len(calls)  BY <1>2, <1>3, <2>3, SMTT(30)
    <3>2. regs'[uvs[u].at] = regs[uvs[u].at] /\ calls'[uvs[u].at] = calls[uvs[u].at]
      BY <1>5, <1>7, <3>1
    <3>3. uvs[u].at <= Len(calls')  BY <1>2, <1>5, <3>1
    <3> QED  BY <2>1, <2>3, <3>2, <3>3
  <2> QED  BY <2>2, <2>3
<1>12. Live(calls', uvs')
  <2> SUFFICES ASSUME NEW u \in 1..Len(uvs), NEW i \in 1..Len(calls'), uvs[u].of = calls'[i]
               PROVE  uvs[u].at = i
    BY <1>4 DEF Live
  <2>1. uvs[u].of # made + 1  BY <1>2, <1>3
  <2>2. i \in 1..Len(calls) /\ calls'[i] = calls[i]  BY <1>6, <2>1
  <2> QED  BY <1>1, <2>2 DEF Live
<1>13. Copy(kont', uvs', made')
  <2>1. made' \in Nat /\ made <= made' /\ kont' = kont /\ uvs' = uvs  BY <1>2, <1>4
  <2>2. \A u \in 1..Len(uvs) : uvs[u].of = uvs[u].of  OBVIOUS
  <2>4. PICK n \in Nat : n = made' /\ made <= n  BY <2>1
  <2>5. Copy(kont, uvs, made) /\ Len(uvs) \in Nat /\ Len(uvs) <= Len(uvs) /\ made \in Nat
    BY <1>1, <1>2
  <2>6. Copy(kont, uvs, n)  BY <2>2, <2>4, <2>5, CopyKept
  <2>3. Copy(kont, uvs, made')  BY <2>4, <2>6
  <2> QED  BY <2>1, <2>3
<1>14. OpenList(open', uvs') /\ Shared(uvs')  BY <1>1, <1>4
<1> QED  BY <1>7, <1>8, <1>9, <1>10, <1>11, <1>12, <1>13, <1>14 DEF Sound

-----------------------------------------------------------------------------
(* Assignments                                                                *)

LEMMA SetLocalSound ==
  ASSUME Sound, NEW v \in Vals, SetLocal(v) PROVE Sound'
<1>1. /\ Stack(calls, made) /\ Upvalues(uvs, made) /\ OpenList(open, uvs)
      /\ Agree(regs, calls, uvs, cell) /\ Live(calls, uvs) /\ Shared(uvs) /\ Copy(kont, uvs, made)
      /\ Counts(made, cell)
  BY DEF Sound
<1>2. /\ regs \in RegisterFile /\ made \in Nat /\ cell \in [1..MaxActivs -> Vals]
      /\ Len(calls) \in Nat /\ Len(calls) <= MaxDepth /\ made <= MaxActivs
      /\ \A i \in 1..Len(calls) : calls[i] \in Nat /\ calls[i] >= 1 /\ calls[i] <= made
      /\ Len(uvs) \in Nat /\ MaxDepth \in Nat /\ MaxActivs \in Nat
  BY SoundFacts
<1>3. \A u \in 1..Len(uvs) : uvs[u].at \in Nat /\ uvs[u].of \in 1..made
  BY <1>2, SoundFacts
<1>4. PICK d \in 1..Len(calls) : d = Len(calls)  BY <1>2 DEF SetLocal, Depth
<1>5. /\ regs' = [regs EXCEPT ![d] = v] /\ cell' = [cell EXCEPT ![calls[d]] = v]
      /\ UNCHANGED <<calls, uvs, open, kont, made>>
  BY <1>4 DEF SetLocal, Depth
<1>6. /\ d \in 1..(MaxDepth + 1) /\ calls[d] \in 1..MaxActivs  BY <1>2
<1>7. regs' \in RegisterFile /\ Counts(made', cell')
  <2>1. regs' \in RegisterFile  BY <1>2, <1>5, <1>6 DEF RegisterFile
  <2>2. cell' \in [1..MaxActivs -> Vals]  BY <1>2, <1>5, <1>6
  <2> QED  BY <1>1, <1>5, <2>1, <2>2 DEF Counts
<1>8. Agree(regs', calls', uvs', cell')
  <2> SUFFICES ASSUME NEW u \in 1..Len(uvs)
               PROVE  /\ (IF uvs[u].at = 0 THEN uvs[u].val ELSE regs'[uvs[u].at]) = cell'[uvs[u].of]
                      /\ uvs[u].at # 0 => uvs[u].at <= Len(calls) /\ calls[uvs[u].at] = uvs[u].of
    BY <1>5 DEF Agree
  <2>1. /\ (IF uvs[u].at = 0 THEN uvs[u].val ELSE regs[uvs[u].at]) = cell[uvs[u].of]
        /\ uvs[u].at # 0 => uvs[u].at <= Len(calls) /\ calls[uvs[u].at] = uvs[u].of
    BY <1>1 DEF Agree
  <2>2. uvs[u].of \in 1..MaxActivs /\ uvs[u].at \in Nat  BY <1>2, <1>3
  <2>3. CASE uvs[u].of = calls[d]
    <3>1. uvs[u].at = d  BY <1>1, <2>3 DEF Live
    <3>2. d # 0 /\ regs'[d] = v  BY <1>2, <1>5, <1>6 DEF RegisterFile
    <3>3. cell'[uvs[u].of] = v  BY <1>2, <1>5, <2>2, <2>3
    <3> QED  BY <2>1, <3>1, <3>2, <3>3
  <2>4. CASE uvs[u].of # calls[d]
    <3>1. cell'[uvs[u].of] = cell[uvs[u].of]  BY <1>2, <1>5, <2>2, <2>4
    <3>2. CASE uvs[u].at = 0  BY <2>1, <3>1, <3>2
    <3>3. CASE uvs[u].at # 0
      <4>1. uvs[u].at # d  BY <2>1, <2>4, <3>3
      <4>2. uvs[u].at \in 1..(MaxDepth + 1)  BY <1>2, <2>1, <2>2, <3>3
      <4>3. regs'[uvs[u].at] = regs[uvs[u].at]  BY <1>2, <1>5, <4>1, <4>2 DEF RegisterFile
      <4> QED  BY <2>1, <3>1, <3>3, <4>3
    <3> QED  BY <3>2, <3>3
  <2> QED  BY <2>3, <2>4
<1> QED  BY <1>1, <1>5, <1>7, <1>8 DEF Sound

\* An upvalue that is open stands for the register its own frame reads.
LEMMA SetUpvalueSound ==
  ASSUME Sound, NEW v \in Vals, NEW u \in 1..Len(uvs), SetUpvalue(u, v) PROVE Sound'
<1>1. /\ Stack(calls, made) /\ Upvalues(uvs, made) /\ OpenList(open, uvs)
      /\ Agree(regs, calls, uvs, cell) /\ Live(calls, uvs) /\ Shared(uvs) /\ Copy(kont, uvs, made)
      /\ Counts(made, cell)
  BY DEF Sound
<1>2. /\ regs \in RegisterFile /\ made \in Nat /\ cell \in [1..MaxActivs -> Vals]
      /\ Len(calls) \in Nat /\ Len(calls) <= MaxDepth /\ made <= MaxActivs
      /\ uvs \in Seq(Uv) /\ Len(uvs) \in Nat /\ MaxDepth \in Nat /\ MaxActivs \in Nat
  BY SoundFacts
<1>3. \A w \in 1..Len(uvs) : uvs[w] \in Uv /\ uvs[w].at \in Nat /\ uvs[w].of \in 1..made
  BY <1>2, SoundFacts
<1>4. cell' = [cell EXCEPT ![uvs[u].of] = v] /\ UNCHANGED <<calls, open, kont, made>>
  BY DEF SetUpvalue
<1>5. cell' \in [1..MaxActivs -> Vals] /\ Counts(made', cell')
  <2>1. cell' \in [1..MaxActivs -> Vals]  BY <1>2, <1>4
  <2> QED  BY <1>1, <1>4, <2>1 DEF Counts
<1>6. /\ cell'[uvs[u].of] = v
      /\ \A w \in 1..Len(uvs) : w # u => cell'[uvs[w].of] = cell[uvs[w].of]
  <2>1. ASSUME NEW w \in 1..Len(uvs), w # u PROVE cell'[uvs[w].of] = cell[uvs[w].of]
    <3>1. uvs[w].of # uvs[u].of  BY <1>1, <2>1 DEF Shared
    <3>2. uvs[w].of \in 1..MaxActivs  BY <1>2, <1>3
    <3> QED  BY <1>2, <1>4, <3>1, <3>2
  <2>2. uvs[u].of \in 1..MaxActivs  BY <1>2, <1>3
  <2> QED  BY <1>2, <1>4, <2>1, <2>2
<1>7. \A w \in 1..Len(uvs) :
        /\ (IF uvs[w].at = 0 THEN uvs[w].val ELSE regs[uvs[w].at]) = cell[uvs[w].of]
        /\ uvs[w].at # 0 => uvs[w].at <= Len(calls) /\ calls[uvs[w].at] = uvs[w].of
  BY <1>1 DEF Agree
<1>8. CASE uvs[u].at = 0
  <2>1. uvs' = [uvs EXCEPT ![u].val = v] /\ regs' = regs  BY <1>8 DEF SetUpvalue, Loc
  <2>2. PICK x \in Uv : x = [uvs[u] EXCEPT !.val = v]  BY <1>3 DEF Uv
  <2>3. x.at = uvs[u].at /\ x.of = uvs[u].of /\ x.val = v
    <3>1. PICK y \in Uv : y = uvs[u]  BY <1>3
    <3>2. x = [y EXCEPT !.val = v]  BY <2>2, <3>1
    <3>3. x.at = y.at /\ x.of = y.of /\ x.val = v  BY <3>2 DEF Uv
    <3> QED  BY <3>1, <3>3
  <2>4. uvs' = [uvs EXCEPT ![u] = x]  BY <2>1, <2>2
  <2>5. /\ uvs' \in Seq(Uv) /\ Len(uvs') = Len(uvs)
        /\ uvs'[u] = x /\ \A w \in 1..Len(uvs) : w # u => uvs'[w] = uvs[w]
    BY <1>2, <2>4, ExceptSeq
  <2>6. \A w \in 1..Len(uvs) : uvs'[w].at = uvs[w].at /\ uvs'[w].of = uvs[w].of
    BY <2>3, <2>5
  <2>7. Upvalues(uvs', made')  BY <1>3, <1>4, <2>5, <2>6 DEF Upvalues
  <2>8. OpenList(open', uvs')
    <3>1. /\ open \in Seq(Nat)
          /\ \A i \in 1..Len(open) : open[i] \in 1..Len(uvs) /\ uvs[open[i]].at # 0
          /\ \A i \in 1..Len(open), j \in 1..Len(open) : i < j => uvs[open[i]].at > uvs[open[j]].at
          /\ \A w \in 1..Len(uvs) : uvs[w].at # 0 => \E i \in 1..Len(open) : open[i] = w
      BY <1>1 DEF OpenList
    <3>2. \A i \in 1..Len(open) : open[i] \in 1..Len(uvs) /\ uvs'[open[i]].at = uvs[open[i]].at
      BY <2>6, <3>1
    <3>3. \A i \in 1..Len(open), j \in 1..Len(open) : i < j => uvs'[open[i]].at > uvs'[open[j]].at
      BY <3>1, <3>2
    <3>4. \A w \in 1..Len(uvs) : uvs'[w].at # 0 => \E i \in 1..Len(open) : open[i] = w
      BY <2>6, <3>1
    <3>5. \A i \in 1..Len(open) : uvs'[open[i]].at # 0  BY <3>1, <3>2
    <3> QED  BY <1>4, <2>5, <3>1, <3>2, <3>3, <3>4, <3>5 DEF OpenList
  <2>9. Agree(regs', calls', uvs', cell')
    <3> SUFFICES ASSUME NEW w \in 1..Len(uvs)
                 PROVE  /\ (IF uvs'[w].at = 0 THEN uvs'[w].val ELSE regs[uvs'[w].at])
                             = cell'[uvs'[w].of]
                        /\ uvs'[w].at # 0 => uvs'[w].at <= Len(calls) /\ calls[uvs'[w].at] = uvs'[w].of
      BY <1>4, <2>1, <2>5 DEF Agree
    <3>1. CASE w = u  BY <1>6, <1>8, <2>3, <2>5, <3>1
    <3>2. CASE w # u  BY <1>6, <1>7, <2>5, <3>2
    <3> QED  BY <3>1, <3>2
  <2>10. Live(calls', uvs') /\ Shared(uvs')
    <3>1. Live(calls, uvs')  BY <1>1, <2>5, <2>6 DEF Live
    <3>2. Shared(uvs')  BY <1>1, <2>5, <2>6 DEF Shared
    <3> QED  BY <1>4, <3>1, <3>2
  <2>11. Copy(kont', uvs', made')
    <3>1. Len(uvs') \in Nat /\ Len(uvs) <= Len(uvs') /\ kont' = kont /\ made' = made
      BY <1>2, <1>4, <2>5
    <3>2. Copy(kont, uvs', made)  BY <1>1, <1>2, <2>6, <3>1, CopyKept
    <3> QED  BY <3>1, <3>2
  <2> QED  BY <1>1, <1>2, <1>4, <1>5, <2>1, <2>7, <2>8, <2>9, <2>10, <2>11 DEF Sound
<1>9. CASE uvs[u].at # 0
  <2>1. regs' = [regs EXCEPT ![uvs[u].at] = v] /\ uvs' = uvs  BY <1>9 DEF SetUpvalue, Loc
  <2>2. uvs[u].at \in 1..(MaxDepth + 1)  BY <1>2, <1>3, <1>7, <1>9
  <2>3. regs' \in RegisterFile /\ regs'[uvs[u].at] = v
    BY <1>2, <2>1, <2>2 DEF RegisterFile
  <2>4. ASSUME NEW w \in 1..Len(uvs), w # u, uvs[w].at # 0 PROVE regs'[uvs[w].at] = regs[uvs[w].at]
    <3>1. uvs[w].of # uvs[u].of  BY <1>1, <2>4 DEF Shared
    <3>2. uvs[w].at # uvs[u].at  BY <1>7, <1>9, <2>4, <3>1
    <3>3. uvs[w].at \in 1..(MaxDepth + 1)  BY <1>2, <1>3, <1>7, <2>4
    <3> QED  BY <1>2, <2>1, <3>2, <3>3 DEF RegisterFile
  <2>5. Agree(regs', calls', uvs', cell')
    <3> SUFFICES ASSUME NEW w \in 1..Len(uvs)
                 PROVE  /\ (IF uvs[w].at = 0 THEN uvs[w].val ELSE regs'[uvs[w].at]) = cell'[uvs[w].of]
                        /\ uvs[w].at # 0 => uvs[w].at <= Len(calls) /\ calls[uvs[w].at] = uvs[w].of
      BY <1>4, <2>1 DEF Agree
    <3>1. CASE w = u  BY <1>6, <1>7, <1>9, <2>3, <3>1
    <3>2. CASE w # u  BY <1>6, <1>7, <2>4, <3>2
    <3> QED  BY <3>1, <3>2
  <2> QED  BY <1>1, <1>4, <1>5, <2>1, <2>3, <2>5 DEF Sound
<1> QED  BY <1>8, <1>9

\* What a continuation copies of the open list belongs to the frames it copies.
LEMMA UvCallCCSound ==
  ASSUME Sound, UvCallCC PROVE Sound'
<1>1. /\ Stack(calls, made) /\ OpenList(open, uvs) /\ Agree(regs, calls, uvs, cell)
      /\ regs \in RegisterFile
  BY DEF Sound
<1>2. /\ Len(calls) \in Nat /\ open \in Seq(Nat) /\ Len(open) \in Nat
      /\ \A u \in 1..Len(uvs) : uvs[u].at \in Nat /\ uvs[u].at <= Len(calls)
  BY SoundFacts
<1>3. UNCHANGED <<regs, calls, uvs, open, made, cell>>  BY DEF UvCallCC
<1> DEFINE e(i) == [uv |-> open[i], reg |-> uvs[open[i]].at]
           ko == [i \in 1..Len(open) |-> e(i)]
<1>4. kont' = [regs |-> regs, calls |-> calls, set |-> TRUE, open |-> ko]
  BY DEF UvCallCC, Loc
<1>5. ASSUME NEW i \in 1..Len(open)
      PROVE  /\ e(i).uv \in 1..Len(uvs) /\ e(i).reg \in 1..Len(calls)
             /\ uvs[e(i).uv].of = calls[e(i).reg]
             /\ e(i) \in [uv : Nat, reg : Nat]
  <2>1. open[i] \in Nat /\ open[i] \in 1..Len(uvs) /\ uvs[open[i]].at # 0
    BY <1>1, <1>2, ElementOfSeq DEF OpenList
  <2>2. uvs[open[i]].at \in Nat /\ uvs[open[i]].at <= Len(calls)  BY <1>2, <2>1
  <2>3. calls[uvs[open[i]].at] = uvs[open[i]].of  BY <1>1, <2>1 DEF Agree
  <2>4. uvs[open[i]].at \in 1..Len(calls)  BY <1>2, <2>1, <2>2
  <2> QED  BY <2>1, <2>2, <2>3, <2>4
<1> HIDE DEF e
<1>6. /\ ko \in Seq([uv : Nat, reg : Nat]) /\ Len(ko) = Len(open)
      /\ \A i \in 1..Len(open) : ko[i] = e(i)
  <2>1. ko \in [1..Len(open) -> [uv : Nat, reg : Nat]]  BY <1>5
  <2> QED  BY <1>2, <2>1
<1> HIDE DEF ko
<1>7. kont'.regs = regs /\ kont'.calls = calls /\ kont'.open = ko  BY <1>4
<1>8. Copy(kont', uvs, made)
  <2>1. \A i \in 1..Len(ko) : /\ ko[i].uv \in 1..Len(uvs) /\ ko[i].reg \in 1..Len(calls)
                              /\ uvs[ko[i].uv].of = calls[ko[i].reg]
    BY <1>5, <1>6
  <2> QED  BY <1>1, <1>6, <1>7, <2>1 DEF Copy
<1> QED  BY <1>3, <1>8 DEF Sound

-----------------------------------------------------------------------------
(* A capture                                                                  *)

\* Putting one element into a sequence, after the first n.
LEMMA Inserted ==
  ASSUME NEW s \in Seq(Nat), NEW n \in 0..Len(s), NEW e \in Nat
  PROVE  /\ InsertAt(s, n + 1, e) \in Seq(Nat) /\ Len(InsertAt(s, n + 1, e)) = Len(s) + 1
         /\ \A i \in 1..n : InsertAt(s, n + 1, e)[i] = s[i]
         /\ InsertAt(s, n + 1, e)[n + 1] = e
         /\ \A i \in (n + 1)..Len(s) : InsertAt(s, n + 1, e)[i + 1] = s[i]
<1>1. Len(s) \in Nat /\ \A i \in 1..Len(s) : s[i] \in Nat  BY LenProperties, ElementOfSeq
<1> DEFINE l == Len(s)
           a == SubSeq(s, 1, n)
           b == <<e>>
           c == SubSeq(s, n + 1, l)
<1>2. a \in Seq(Nat) /\ Len(a) = n /\ \A i \in 1..n : a[i] = s[i]
  <2>1. \A i \in 1..n : s[i] \in Nat  BY <1>1
  <2>2. /\ SubSeq(s, 1, n) \in Seq(Nat)
        /\ Len(SubSeq(s, 1, n)) = IF 1 <= n THEN n - 1 + 1 ELSE 0
        /\ \A i \in 1..(n - 1 + 1) : SubSeq(s, 1, n)[i] = s[1 + i - 1]
    BY <1>1, <2>1, SubSeqProperties
  <2>3. ASSUME NEW i \in 1..n PROVE a[i] = s[i]
    <3>1. i \in 1..(n - 1 + 1) /\ 1 + i - 1 = i  BY <1>1
    <3> QED  BY <2>2, <3>1
  <2> QED  BY <1>1, <2>2, <2>3
<1>3. b \in Seq(Nat) /\ Len(b) = 1 /\ b[1] = e  OBVIOUS
<1>4. c \in Seq(Nat) /\ Len(c) = l - n /\ \A i \in 1..(l - n) : c[i] = s[n + i]
  <2>1. \A i \in (n + 1)..l : s[i] \in Nat  BY <1>1
  <2>2. /\ SubSeq(s, n + 1, l) \in Seq(Nat)
        /\ Len(SubSeq(s, n + 1, l)) = IF n + 1 <= l THEN l - (n + 1) + 1 ELSE 0
        /\ \A i \in 1..(l - (n + 1) + 1) : SubSeq(s, n + 1, l)[i] = s[n + 1 + i - 1]
    BY <1>1, <2>1, SubSeqProperties
  <2>3. ASSUME NEW i \in 1..(l - n) PROVE c[i] = s[n + i]
    <3>1. i \in 1..(l - (n + 1) + 1) /\ n + 1 + i - 1 = n + i  BY <1>1
    <3> QED  BY <2>2, <3>1
  <2> QED  BY <1>1, <2>2, <2>3
<1> HIDE DEF a, b, c
<1>5. /\ a \o b \in Seq(Nat) /\ Len(a \o b) = n + 1
      /\ \A i \in 1..(n + 1) : (a \o b)[i] = IF i <= n THEN a[i] ELSE b[i - n]
  <2>1. /\ a \o b \in Seq(Nat)
        /\ Len(a \o b) = Len(a) + Len(b)
        /\ \A i \in 1..(Len(a) + Len(b)) : (a \o b)[i] = IF i <= Len(a) THEN a[i] ELSE b[i - Len(a)]
    BY <1>2, <1>3, ConcatProperties, Zenon
  <2> QED  BY <1>2, <1>3, <2>1
<1>6. /\ (a \o b) \o c \in Seq(Nat) /\ Len((a \o b) \o c) = (n + 1) + (l - n)
      /\ \A i \in 1..((n + 1) + (l - n)) :
           ((a \o b) \o c)[i] = IF i <= n + 1 THEN (a \o b)[i] ELSE c[i - (n + 1)]
  <2>1. PICK ab \in Seq(Nat) : ab = a \o b  BY <1>5
  <2>2. /\ ab \o c \in Seq(Nat)
        /\ Len(ab \o c) = Len(ab) + Len(c)
        /\ \A i \in 1..(Len(ab) + Len(c)) : (ab \o c)[i] = IF i <= Len(ab) THEN ab[i] ELSE c[i - Len(ab)]
    BY <1>4, ConcatProperties, Zenon
  <2>3. Len(ab) = n + 1 /\ Len(c) = l - n  BY <1>4, <1>5, <2>1
  <2> QED  BY <2>1, <2>2, <2>3
<1>7. InsertAt(s, n + 1, e) = (a \o b) \o c
  <2>1. (n + 1) - 1 = n  BY <1>1
  <2> QED  BY <2>1 DEF InsertAt, a, b, c
<1>8. (n + 1) + (l - n) = Len(s) + 1 /\ n \in Nat /\ n <= l  BY <1>1
<1>9. ASSUME NEW i \in 1..n PROVE ((a \o b) \o c)[i] = s[i]
  <2>1. i \in 1..((n + 1) + (l - n)) /\ i \in 1..(n + 1) /\ i <= n + 1 /\ i <= n  BY <1>8
  <2> QED  BY <1>2, <1>5, <1>6, <2>1
<1>10. ((a \o b) \o c)[n + 1] = e
  <2>1. /\ n + 1 \in 1..((n + 1) + (l - n)) /\ n + 1 \in 1..(n + 1) /\ ~(n + 1 <= n)
        /\ (n + 1) - n = 1 /\ n + 1 <= n + 1
    BY <1>8
  <2> QED  BY <1>3, <1>5, <1>6, <2>1
<1>11. ASSUME NEW i \in (n + 1)..Len(s) PROVE ((a \o b) \o c)[i + 1] = s[i]
  <2>1. /\ i + 1 \in 1..((n + 1) + (l - n)) /\ ~(i + 1 <= n + 1)
        /\ (i + 1) - (n + 1) = i - n /\ i - n \in 1..(l - n) /\ n + (i - n) = i
    BY <1>8
  <2> QED  BY <1>4, <1>6, <2>1
<1> QED  BY <1>6, <1>7, <1>8, <1>9, <1>10, <1>11

\* A capture finds the variable's upvalue in the list or makes its first one.
LEMMA CaptureSound ==
  ASSUME Sound, Capture PROVE Sound'
<1>1. /\ Stack(calls, made) /\ Upvalues(uvs, made) /\ OpenList(open, uvs)
      /\ Agree(regs, calls, uvs, cell) /\ Live(calls, uvs) /\ Shared(uvs) /\ Copy(kont, uvs, made)
      /\ Counts(made, cell)
  BY DEF Sound
<1>2. /\ regs \in RegisterFile /\ made \in Nat /\ cell \in [1..MaxActivs -> Vals]
      /\ Len(calls) \in Nat /\ Len(calls) <= MaxDepth /\ made <= MaxActivs
      /\ \A i \in 1..Len(calls) : calls[i] \in Nat /\ calls[i] >= 1 /\ calls[i] <= made
      /\ uvs \in Seq(Uv) /\ Len(uvs) \in Nat /\ open \in Seq(Nat) /\ Len(open) \in Nat
      /\ MaxDepth \in Nat /\ MaxActivs \in Nat
  <2>1. /\ regs \in RegisterFile /\ made \in Nat /\ cell \in [1..MaxActivs -> Vals]
        /\ Len(calls) \in Nat /\ Len(calls) <= MaxDepth /\ made <= MaxActivs
    BY SoundFacts
  <2>2. \A i \in 1..Len(calls) : calls[i] \in Nat /\ calls[i] >= 1 /\ calls[i] <= made
    BY SoundFacts
  <2>3. /\ uvs \in Seq(Uv) /\ Len(uvs) \in Nat /\ open \in Seq(Nat) /\ Len(open) \in Nat
        /\ MaxDepth \in Nat /\ MaxActivs \in Nat
    BY SoundFacts
  <2> QED  BY <2>1, <2>2, <2>3
<1>3. \A u \in 1..Len(uvs) : uvs[u].at \in Nat /\ uvs[u].at <= Len(calls) /\ uvs[u].of \in 1..made
  <2> TAKE u \in 1..Len(uvs)
  <2>1. uvs[u].at \in Nat /\ uvs[u].at <= Len(calls)  BY SoundFacts
  <2>2. uvs[u].of \in Nat /\ uvs[u].of >= 1 /\ uvs[u].of <= made  BY SoundFacts
  <2> QED  BY <1>2, <2>1, <2>2
<1>4. PICK d \in 1..Len(calls) : d = Len(calls)  BY <1>2 DEF Capture, Depth
<1>5. PICK a \in 1..MaxActivs : a = calls[d]  BY <1>2
<1>6. /\ \A i \in 1..Len(open) : open[i] \in 1..Len(uvs) /\ uvs[open[i]].at # 0
      /\ \A i \in 1..Len(open), j \in 1..Len(open) : i < j => uvs[open[i]].at > uvs[open[j]].at
      /\ \A u \in 1..Len(uvs) : uvs[u].at # 0 => \E i \in 1..Len(open) : open[i] = u
  BY <1>1 DEF OpenList
<1>7. \E n \in 0..Len(open) : /\ \A i \in 1..n : Loc(open[i]) > d
                              /\ n < Len(open) => Loc(open[n + 1]) <= d
  <2> DEFINE B == {i \in 1..Len(open) : Loc(open[i]) <= d}
  <2>1. \E n \in 0..Len(open) : (\A i \in 1..n : i \notin B) /\ (n < Len(open) => n + 1 \in B)
    <3> HIDE DEF B
    <3> QED  BY <1>2, SearchStops
  <2>2. PICK n \in 0..Len(open) : (\A i \in 1..n : i \notin B) /\ (n < Len(open) => n + 1 \in B)
    BY <2>1
  <2>3. ASSUME NEW i \in 1..n PROVE Loc(open[i]) > d
    <3>1. i \in 1..Len(open) /\ ~(Loc(open[i]) <= d)  BY <1>2, <2>2
    <3>2. Loc(open[i]) \in Nat  BY <1>3, <1>6, <3>1 DEF Loc
    <3> QED  BY <1>2, <3>1, <3>2
  <2>4. n < Len(open) => Loc(open[n + 1]) <= d  BY <2>2
  <2> QED  BY <2>3, <2>4
<1>8. PICK n \in 0..Len(open) :
        /\ n = Before(d)
        /\ \A i \in 1..n : uvs[open[i]].at > d
        /\ n < Len(open) => uvs[open[n + 1]].at <= d
  BY <1>7 DEF Before, Loc
<1>9. UNCHANGED <<regs, calls, kont, made>>  BY DEF Capture
<1>10. CASE n < Len(open) /\ Loc(open[n + 1]) = d
  <2>1. UNCHANGED <<uvs, open, cell>>  BY <1>4, <1>8, <1>10 DEF Capture, Depth
  <2> QED  BY <1>9, <2>1 DEF Sound
<1>11. CASE ~(n < Len(open) /\ Loc(open[n + 1]) = d)
  <2> DEFINE new == [at |-> d, val |-> regs[d], of |-> a]
             l == Len(uvs) + 1
  <2>1. \A i \in (n + 1)..Len(open) : uvs[open[i]].at < d
    <3> TAKE i \in (n + 1)..Len(open)
    <3>1. n < Len(open) /\ n + 1 \in 1..Len(open) /\ i \in 1..Len(open) /\ (i = n + 1 \/ n + 1 < i)
      BY <1>2
    <3>2. uvs[open[n + 1]].at \in Nat /\ uvs[open[i]].at \in Nat  BY <1>3, <1>6, <3>1
    <3>3. uvs[open[n + 1]].at < d  BY <1>2, <1>8, <1>11, <3>1, <3>2, SMTT(30) DEF Loc
    <3>4. i = n + 1 \/ uvs[open[n + 1]].at > uvs[open[i]].at  BY <1>6, <3>1
    <3> QED  BY <1>2, <3>2, <3>3, <3>4, SMTT(30)
  <2>2. \A u \in 1..Len(uvs) : uvs[u].of # a
    <3> SUFFICES ASSUME NEW u \in 1..Len(uvs), uvs[u].of = a PROVE FALSE  OBVIOUS
    <3>1. uvs[u].at = d  BY <1>1, <1>5 DEF Live
    <3>5. d # 0  BY <1>2
    <3>2. PICK j \in 1..Len(open) : open[j] = u  BY <1>6, <3>1, <3>5
    <3>3. CASE j <= n
      <4>1. j \in 1..n  BY <1>2, <3>3
      <4> QED  BY <1>2, <1>8, <3>1, <3>2, <4>1
    <3>4. CASE j > n
      <4>1. j \in (n + 1)..Len(open)  BY <1>2, <3>4
      <4> QED  BY <1>2, <2>1, <3>1, <3>2, <4>1
    <3> QED  BY <1>2, <3>3, <3>4
  <2>3. /\ uvs' = Append(uvs, new) /\ open' = InsertAt(open, n + 1, l)
        /\ cell' = [cell EXCEPT ![a] = regs[d]]
    <3>1. ~Captured(a)  BY <2>2 DEF Captured
    <3> QED  BY <1>4, <1>5, <1>8, <1>11, <3>1 DEF Capture, Depth
  <2>4. d \in 1..(MaxDepth + 1) /\ d \in Nat /\ d # 0 /\ d <= Len(calls)  BY <1>2
  <2>5. new \in Uv /\ new.at = d /\ new.val = regs[d] /\ new.of = a
    BY <1>2, <2>4 DEF RegisterFile, Uv
  <2> HIDE DEF new
  <2>6. /\ uvs' \in Seq(Uv) /\ Len(uvs') = l /\ l \in Nat
        /\ uvs'[l] = new /\ \A u \in 1..Len(uvs) : uvs'[u] = uvs[u]
    BY <1>2, <2>3, <2>5, AppendProperties
  <2>7. \A u \in 1..Len(uvs') : u = l \/ u \in 1..Len(uvs)  BY <1>2, <2>6
  <2>8. Counts(made', cell') /\ cell'[a] = regs[d]
        /\ \A u \in 1..Len(uvs) : cell'[uvs[u].of] = cell[uvs[u].of]
    <3>1. regs[d] \in Vals  BY <1>2, <2>4 DEF RegisterFile
    <3>2. cell' \in [1..MaxActivs -> Vals] /\ cell'[a] = regs[d]  BY <1>2, <2>3, <3>1
    <3>3. ASSUME NEW u \in 1..Len(uvs) PROVE cell'[uvs[u].of] = cell[uvs[u].of]
      <4>1. uvs[u].of \in 1..made /\ made \in Nat /\ made <= MaxActivs  BY <1>2, <1>3
      <4>2. \A v \in 1..made : v \in 1..MaxActivs  BY <1>2
      <4>3. uvs[u].of \in 1..MaxActivs  BY <4>1, <4>2
      <4> QED  BY <1>2, <2>2, <2>3, <4>3
    <3> QED  BY <1>1, <1>9, <3>2, <3>3 DEF Counts
  <2>9. Upvalues(uvs', made')
    <3>1. a \in 1..made  BY <1>2, <1>5
    <3>2. ASSUME NEW u \in 1..Len(uvs') PROVE uvs'[u].of \in 1..made'
      BY <1>3, <1>9, <2>5, <2>6, <2>7, <3>1
    <3> QED  BY <2>6, <3>2 DEF Upvalues
  <2>10. OpenList(open', uvs')
    <3>1. /\ open' \in Seq(Nat) /\ Len(open') = Len(open) + 1
          /\ \A i \in 1..n : open'[i] = open[i]
          /\ open'[n + 1] = l
          /\ \A i \in (n + 1)..Len(open) : open'[i + 1] = open[i]
      <4>1. open \in Seq(Nat) /\ n \in 0..Len(open) /\ l \in Nat /\ open' = InsertAt(open, n + 1, l)
        BY <1>2, <2>3, <2>6
      <4> QED  BY <4>1, Inserted
    <3>2. ASSUME NEW i \in 1..Len(open')
          PROVE  \/ i \in 1..n /\ open'[i] = open[i] /\ i \in 1..Len(open)
                 \/ i = n + 1 /\ open'[i] = l
                 \/ /\ i > n + 1 /\ i - 1 \in 1..Len(open) /\ i - 1 \in (n + 1)..Len(open)
                    /\ open'[i] = open[i - 1]
      <4>1. CASE i <= n
        <5>1. i \in 1..n /\ i \in 1..Len(open)  BY <1>2, <4>1
        <5> QED  BY <3>1, <5>1
      <4>2. CASE i = n + 1  BY <3>1, <4>2
      <4>3. CASE i > n + 1
        <5>1. i - 1 \in (n + 1)..Len(open) /\ i - 1 \in 1..Len(open) /\ (i - 1) + 1 = i
          BY <1>2, <3>1, <4>3
        <5> QED  BY <3>1, <4>3, <5>1
      <4> QED  BY <1>2, <4>1, <4>2, <4>3
    <3>3. ASSUME NEW i \in 1..Len(open')
          PROVE  /\ open'[i] \in 1..Len(uvs') /\ uvs'[open'[i]].at # 0 /\ uvs'[open'[i]].at \in Nat
                 /\ i <= n => uvs'[open'[i]].at > d
                 /\ i = n + 1 => uvs'[open'[i]].at = d
                 /\ i > n + 1 => uvs'[open'[i]].at < d
      <4>1. CASE i \in 1..n /\ open'[i] = open[i] /\ i \in 1..Len(open)
        <5>1. open[i] \in 1..Len(uvs) /\ uvs[open[i]].at # 0 /\ uvs[open[i]].at > d
          BY <1>6, <1>8, <4>1
        <5>2. uvs'[open[i]] = uvs[open[i]] /\ uvs[open[i]].at \in Nat /\ open[i] \in 1..Len(uvs')
          BY <1>2, <1>3, <2>6, <5>1
        <5>3. n \in Nat /\ i <= n /\ ~(i = n + 1) /\ ~(i > n + 1)  BY <1>2, <4>1
        <5>4. open'[i] = open[i]  BY <4>1
        <5> QED  BY <5>1, <5>2, <5>3, <5>4
      <4>2. CASE i = n + 1 /\ open'[i] = l
        <5>1. l \in 1..Len(uvs') /\ uvs'[l].at = d  BY <1>2, <2>5, <2>6
        <5> QED  BY <1>2, <2>4, <4>2, <5>1
      <4>3. CASE /\ i > n + 1 /\ i - 1 \in 1..Len(open) /\ i - 1 \in (n + 1)..Len(open)
                 /\ open'[i] = open[i - 1]
        <5>0. PICK j \in 1..Len(open) : j = i - 1 /\ j \in (n + 1)..Len(open)  BY <4>3
        <5>1. open[j] \in 1..Len(uvs) /\ uvs[open[j]].at # 0 /\ uvs[open[j]].at < d
          BY <1>6, <2>1, <5>0
        <5>2. uvs'[open[j]] = uvs[open[j]] /\ uvs[open[j]].at \in Nat /\ open[j] \in 1..Len(uvs')
          BY <1>2, <1>3, <2>6, <5>1, SMTT(30)
        <5> QED  BY <1>2, <4>3, <5>0, <5>1, <5>2, SMTT(30)
      <4> QED  BY <3>2, <4>1, <4>2, <4>3
    <3>4. ASSUME NEW i \in 1..Len(open'), NEW j \in 1..Len(open'), i < j
          PROVE  uvs'[open'[i]].at > uvs'[open'[j]].at
      <4>1. CASE j <= n
        <5>1. /\ i \in 1..n /\ i \in 1..Len(open) /\ j \in 1..n /\ j \in 1..Len(open)
          BY <1>2, <3>4, <4>1
        <5>2. open'[i] = open[i] /\ open'[j] = open[j]  BY <3>1, <5>1
        <5>3. uvs'[open[i]] = uvs[open[i]] /\ uvs'[open[j]] = uvs[open[j]]  BY <1>6, <2>6, <5>1
        <5> QED  BY <1>6, <3>4, <5>1, <5>2, <5>3
      <4>2. CASE i > n + 1
        <5>1. i - 1 \in (n + 1)..Len(open) /\ j - 1 \in (n + 1)..Len(open)
               /\ (i - 1) + 1 = i /\ (j - 1) + 1 = j
          BY <1>2, <3>1, <3>4, <4>2
        <5>2. PICK x \in 1..Len(open), y \in 1..Len(open) : x = i - 1 /\ y = j - 1 /\ x < y
          BY <1>2, <3>4, <5>1
        <5>3. open'[i] = open[x] /\ open'[j] = open[y]  BY <3>1, <5>1, <5>2
        <5>4. uvs'[open[x]] = uvs[open[x]] /\ uvs'[open[y]] = uvs[open[y]]  BY <1>6, <2>6, <5>2
        <5> QED  BY <1>6, <5>2, <5>3, <5>4, SMTT(30)
      <4>3. CASE i <= n + 1 /\ j > n
        <5>1. \/ i <= n \/ i = n + 1  BY <1>2, <4>3
        <5>2. j = n + 1 \/ j > n + 1  BY <1>2, <4>3
        <5>3. i = n + 1 => j > n + 1  BY <3>4
        <5>4. uvs'[open'[i]].at \in Nat /\ uvs'[open'[j]].at \in Nat  BY <3>3
        <5>5. i <= n => uvs'[open'[i]].at > d  BY <3>3
        <5>6. i = n + 1 => uvs'[open'[i]].at = d  BY <3>3
        <5>7. j = n + 1 => uvs'[open'[j]].at = d  BY <3>3
        <5>8. j > n + 1 => uvs'[open'[j]].at < d  BY <3>3
        <5> QED  BY <2>4, <5>1, <5>2, <5>3, <5>4, <5>5, <5>6, <5>7, <5>8, SMTT(30)
      <4> QED  BY <1>2, <3>4, <4>1, <4>2, <4>3
    <3>5. ASSUME NEW u \in 1..Len(uvs'), uvs'[u].at # 0 PROVE \E i \in 1..Len(open') : open'[i] = u
      <4>1. CASE u = l
        <5>1. n + 1 \in 1..Len(open')  BY <1>2, <3>1
        <5> QED  BY <3>1, <4>1, <5>1
      <4>2. CASE u \in 1..Len(uvs)
        <5>1. PICK j \in 1..Len(open) : open[j] = u  BY <1>6, <2>6, <3>5, <4>2
        <5>2. CASE j <= n
          <6>1. j \in 1..n /\ j \in 1..Len(open')  BY <1>2, <3>1, <5>2
          <6> QED  BY <3>1, <5>1, <6>1
        <5>3. CASE j > n
          <6>1. j \in (n + 1)..Len(open) /\ j + 1 \in 1..Len(open')  BY <1>2, <3>1, <5>3
          <6> QED  BY <3>1, <5>1, <6>1
        <5> QED  BY <1>2, <5>2, <5>3
      <4> QED  BY <2>7, <4>1, <4>2
    <3> QED  BY <3>1, <3>3, <3>4, <3>5 DEF OpenList
  <2>11. Agree(regs', calls', uvs', cell')
    <3> SUFFICES ASSUME NEW u \in 1..Len(uvs')
                 PROVE  /\ (IF uvs'[u].at = 0 THEN uvs'[u].val ELSE regs[uvs'[u].at]) = cell'[uvs'[u].of]
                        /\ uvs'[u].at # 0 => uvs'[u].at <= Len(calls) /\ calls[uvs'[u].at] = uvs'[u].of
      BY <1>9 DEF Agree
    <3>1. CASE u = l  BY <1>5, <2>4, <2>5, <2>6, <2>8, <3>1
    <3>2. CASE u \in 1..Len(uvs)
      <4>1. /\ (IF uvs[u].at = 0 THEN uvs[u].val ELSE regs[uvs[u].at]) = cell[uvs[u].of]
            /\ uvs[u].at # 0 => uvs[u].at <= Len(calls) /\ calls[uvs[u].at] = uvs[u].of
        BY <1>1, <3>2 DEF Agree
      <4> QED  BY <2>6, <2>8, <3>2, <4>1
    <3> QED  BY <2>7, <3>1, <3>2
  <2>12. Live(calls', uvs')
    <3> SUFFICES ASSUME NEW u \in 1..Len(uvs'), NEW i \in 1..Len(calls), uvs'[u].of = calls[i]
                 PROVE  uvs'[u].at = i
      BY <1>9 DEF Live
    <3>1. CASE u = l
      <4>1. calls[i] = calls[d]  BY <1>5, <2>5, <2>6, <3>1
      <4>2. i = d  BY <1>1, <4>1 DEF Stack
      <4> QED  BY <2>5, <2>6, <3>1, <4>2
    <3>2. CASE u \in 1..Len(uvs)  BY <1>1, <2>6, <3>2 DEF Live
    <3> QED  BY <2>7, <3>1, <3>2
  <2>13. Shared(uvs')
    <3> SUFFICES ASSUME NEW u \in 1..Len(uvs'), NEW w \in 1..Len(uvs'), uvs'[u].of = uvs'[w].of
                 PROVE  u = w
      BY DEF Shared
    <3>1. CASE u \in 1..Len(uvs) /\ w \in 1..Len(uvs)  BY <1>1, <2>6, <3>1 DEF Shared
    <3>2. CASE u = l /\ w \in 1..Len(uvs)  BY <2>2, <2>5, <2>6, <3>2
    <3>3. CASE u \in 1..Len(uvs) /\ w = l  BY <2>2, <2>5, <2>6, <3>3
    <3> QED  BY <2>7, <3>1, <3>2, <3>3
  <2>14. Copy(kont', uvs', made')
    <3>1. Len(uvs') \in Nat /\ Len(uvs) <= Len(uvs') /\ \A u \in 1..Len(uvs) : uvs'[u].of = uvs[u].of
      BY <1>2, <2>6
    <3>2. Copy(kont, uvs', made)  BY <1>1, <1>2, <3>1, CopyKept
    <3> QED  BY <1>9, <3>2
  <2> QED  BY <1>1, <1>2, <1>9, <2>8, <2>9, <2>10, <2>11, <2>12, <2>13, <2>14 DEF Sound
<1> QED  BY <1>10, <1>11

-----------------------------------------------------------------------------
\* Re-entering a continuation closes every open upvalue and opens those of the
\* copy on the registers of the copy, which get the values assigned since.
LEMMA UvInvokeSound ==
  ASSUME Sound, UvInvoke, Survives PROVE Sound'
<1>1. /\ OpenList(open, uvs) /\ Agree(regs, calls, uvs, cell) /\ Shared(uvs)
      /\ Copy(kont, uvs, made) /\ Counts(made, cell)
  BY DEF Sound
<1>2. /\ regs \in RegisterFile /\ made \in Nat
      /\ cell \in [1..MaxActivs -> Vals] /\ made <= MaxActivs
      /\ Len(calls) <= MaxDepth /\ Len(calls) \in Nat /\ Len(uvs) \in Nat
      /\ MaxDepth \in Nat /\ MaxActivs \in Nat
  BY SoundFacts
<1>3. ASSUME NEW u \in 1..Len(uvs)
      PROVE  uvs[u] \in Uv /\ uvs[u].at \in Nat /\ uvs[u].of \in 1..made
  <2>1. uvs[u] \in Uv /\ uvs[u].at \in Nat  BY SoundFacts
  <2>2. uvs[u].of \in Nat /\ uvs[u].of >= 1 /\ uvs[u].of <= made  BY SoundFacts
  <2> QED  BY <1>2, <2>1, <2>2
<1>4. kont.set /\ calls' = kont.calls /\ UNCHANGED <<kont, made, cell>>  BY DEF UvInvoke
<1>5. /\ kont.regs \in RegisterFile /\ Stack(kont.calls, made)
      /\ kont.open \in Seq([uv : Nat, reg : Nat])
      /\ \A i \in 1..Len(kont.open) :
           /\ kont.open[i].uv \in 1..Len(uvs) /\ kont.open[i].reg \in 1..Len(kont.calls)
           /\ uvs[kont.open[i].uv].of = kont.calls[kont.open[i].reg]
  BY <1>1, <1>4 DEF Copy
<1> DEFINE cl == Closed(ToSet(open))
<1>6. ASSUME NEW u \in 1..Len(uvs)
      PROVE  cl[u] \in Uv /\ cl[u].at = 0 /\ cl[u].of = uvs[u].of /\ cl[u].val = cell[uvs[u].of]
  <2>1. open \in Seq(Nat) /\ DOMAIN open = 1..Len(open)  BY <1>1 DEF OpenList
  <2>2. u \in ToSet(open) <=> uvs[u].at # 0  BY <1>1, <2>1 DEF OpenList, ToSet
  <2>3. PICK x \in Uv : x = uvs[u]  BY <1>3
  <2>4. cl[u] = IF u \in ToSet(open) THEN [x EXCEPT !.val = Value(u), !.at = 0] ELSE x
    BY <2>3 DEF Closed
  <2>5. Value(u) = cell[uvs[u].of]  BY <1>1 DEF Agree, Value
  <2>6. Value(u) \in Vals  BY <1>2, <1>3, <2>5
  <2>7. CASE uvs[u].at = 0
    <3>1. cl[u] = x /\ x.val = Value(u)  BY <2>2, <2>3, <2>4, <2>7 DEF Value
    <3> QED  BY <2>3, <2>5, <2>7, <3>1
  <2>8. CASE uvs[u].at # 0
    <3>1. PICK y \in Uv : y = [x EXCEPT !.val = Value(u), !.at = 0]  BY <2>6 DEF Uv
    <3>2. y.at = 0 /\ y.val = Value(u) /\ y.of = x.of  BY <3>1 DEF Uv
    <3>3. cl[u] = y  BY <2>2, <2>4, <2>8, <3>1
    <3> QED  BY <2>3, <2>5, <3>2, <3>3
  <2> QED  BY <2>7, <2>8
<1> DEFINE ko == kont.open
<1>7. /\ regs' = [r \in DOMAIN regs |->
                    IF \E i \in 1..Len(ko) : ko[i].reg = r
                    THEN cl[(CHOOSE s \in {ko[i] : i \in 1..Len(ko)} : s.reg = r).uv].val
                    ELSE kont.regs[r]]
      /\ uvs' = [u \in 1..Len(uvs) |->
                   IF \E i \in 1..Len(ko) : ko[i].uv = u
                   THEN [cl[u] EXCEPT !.at = (CHOOSE s \in {ko[i] : i \in 1..Len(ko)} : s.uv = u).reg]
                   ELSE cl[u]]
      /\ open' = Reverse([i \in 1..Len(ko) |-> ko[i].uv])
  BY DEF UvInvoke, Reopened
<1> HIDE DEF cl
<1>8. Len(ko) \in Nat /\ Len(ko) <= 1  BY <1>5 DEF Survives
<1>9. Counts(made', cell') /\ Stack(calls', made')  BY <1>1, <1>4, <1>5
<1>10. Len(kont.calls) \in Nat /\ Len(kont.calls) <= MaxDepth  BY <1>5 DEF Stack
<1>11. DOMAIN regs = 1..(MaxDepth + 1)  BY <1>2 DEF RegisterFile
<1>12. CASE Len(ko) = 0
  <2>1. ~ \E i \in 1..Len(ko) : TRUE  BY <1>12
  <2>2. regs' = [r \in 1..(MaxDepth + 1) |-> kont.regs[r]]  BY <1>7, <1>11, <2>1
  <2>3. regs' = kont.regs  BY <1>5, <2>2 DEF RegisterFile
  <2>4. uvs' = [u \in 1..Len(uvs) |-> cl[u]]  BY <1>7, <2>1
  <2>5. uvs' \in [1..Len(uvs) -> Uv] /\ \A u \in 1..Len(uvs) : uvs'[u] = cl[u]  BY <1>6, <2>4
  <2>6. uvs' \in Seq(Uv) /\ Len(uvs') = Len(uvs)  BY <1>2, <2>5
  <2>7. open' = <<>> /\ open' \in Seq(Nat) /\ Len(open') = 0
    <3>1. [i \in 1..Len(ko) |-> ko[i].uv] = <<>>  BY <1>12
    <3>2. Reverse(<<>>) = <<>>  BY DEF Reverse
    <3>3. open' = <<>>  BY <1>7, <3>1, <3>2
    <3> QED  BY <3>3
  <2>8. Upvalues(uvs', made')  BY <1>3, <1>4, <1>6, <2>5, <2>6 DEF Upvalues
  <2>9. OpenList(open', uvs')  BY <1>6, <2>5, <2>6, <2>7 DEF OpenList
  <2>10. Agree(regs', calls', uvs', cell')  BY <1>4, <1>6, <2>5, <2>6 DEF Agree
  <2>11. Live(calls', uvs')
    <3> SUFFICES ASSUME NEW u \in 1..Len(uvs), NEW i \in 1..Len(kont.calls), uvs[u].of = kont.calls[i]
                 PROVE  FALSE
      BY <1>4, <1>6, <2>5, <2>6 DEF Live
    <3> QED  BY <2>1 DEF Survives
  <2>12. Shared(uvs')  BY <1>1, <1>6, <2>5, <2>6 DEF Shared
  <2>13. Copy(kont', uvs', made')
    <3>1. \A u \in 1..Len(uvs) : uvs'[u].of = uvs[u].of  BY <1>6, <2>5
    <3>2. Copy(kont, uvs', made)  BY <1>1, <1>2, <2>6, <3>1, CopyKept
    <3> QED  BY <1>4, <3>2
  <2> QED  BY <1>5, <1>9, <2>3, <2>8, <2>9, <2>10, <2>11, <2>12, <2>13 DEF Sound
<1>13. CASE Len(ko) = 1
  <2>0. 1 \in 1..Len(ko)  BY <1>13
  <2>1. PICK s \in [uv : Nat, reg : Nat] : s = ko[1]
    <3> HIDE DEF ko
    <3>1. ko \in Seq([uv : Nat, reg : Nat])  BY <1>5 DEF ko
    <3> QED  BY <2>0, <3>1, ElementOfSeq
  <2>2. {ko[i] : i \in 1..Len(ko)} = {s}  BY <1>13, <2>1
  <2>3. \A i \in 1..Len(ko) : ko[i] = s  BY <1>13, <2>1
  <2>4. s.uv \in 1..Len(uvs) /\ s.reg \in 1..Len(kont.calls) /\ uvs[s.uv].of = kont.calls[s.reg]
    BY <1>5, <1>13, <2>1
  <2>5. s.reg \in 1..(MaxDepth + 1) /\ s.reg \in Nat /\ s.reg # 0 /\ s.reg <= Len(kont.calls)
    BY <1>2, <1>10, <2>4
  <2>6. \A r : r = s.reg => (CHOOSE x \in {ko[i] : i \in 1..Len(ko)} : x.reg = r) = s  BY <2>2
  <2>7. \A u : u = s.uv => (CHOOSE x \in {ko[i] : i \in 1..Len(ko)} : x.uv = u) = s  BY <2>2
  <2>8. \A r : (\E i \in 1..Len(ko) : ko[i].reg = r) <=> r = s.reg  BY <1>13, <2>1
  <2>9. \A u : (\E i \in 1..Len(ko) : ko[i].uv = u) <=> u = s.uv  BY <1>13, <2>1
  <2> DEFINE f(r) == IF \E i \in 1..Len(ko) : ko[i].reg = r
                     THEN cl[(CHOOSE x \in {ko[i] : i \in 1..Len(ko)} : x.reg = r).uv].val
                     ELSE kont.regs[r]
             g(u) == IF \E i \in 1..Len(ko) : ko[i].uv = u
                     THEN [cl[u] EXCEPT !.at = (CHOOSE x \in {ko[i] : i \in 1..Len(ko)} : x.uv = u).reg]
                     ELSE cl[u]
  <2>10. regs' = [r \in 1..(MaxDepth + 1) |-> f(r)] /\ uvs' = [u \in 1..Len(uvs) |-> g(u)]
    BY <1>7, <1>11
  <2>27. \A r : /\ r = s.reg => f(r) = cl[s.uv].val
                /\ r # s.reg => f(r) = kont.regs[r]
    BY <2>6, <2>8
  <2>28. \A u : /\ u = s.uv => g(u) = [cl[u] EXCEPT !.at = s.reg]
                /\ u # s.uv => g(u) = cl[u]
    BY <2>7, <2>9
  <2> HIDE DEF f, g
  <2>11. /\ regs' \in RegisterFile /\ regs'[s.reg] = cl[s.uv].val
    <3>1. cl[s.uv].val \in Vals  BY <1>2, <1>3, <1>6, <2>4
    <3>4. \A r \in 1..(MaxDepth + 1) : kont.regs[r] \in Vals  BY <1>5 DEF RegisterFile
    <3>2. \A r \in 1..(MaxDepth + 1) : f(r) \in Vals
      <4> TAKE r \in 1..(MaxDepth + 1)
      <4>1. CASE r = s.reg  BY <2>27, <3>1, <4>1
      <4>2. CASE r # s.reg  BY <2>27, <3>4, <4>2
      <4> QED  BY <4>1, <4>2
    <3>3. f(s.reg) = cl[s.uv].val  BY <2>27
    <3> QED  BY <2>5, <2>10, <3>2, <3>3 DEF RegisterFile
  <2>12. PICK y \in Uv : y = cl[s.uv] /\ y.of = uvs[s.uv].of /\ y.val = cell[uvs[s.uv].of]
    BY <1>6, <2>4
  <2>13. PICK z \in Uv : z = [y EXCEPT !.at = s.reg]  BY <2>5 DEF Uv
  <2>14. z.at = s.reg /\ z.of = uvs[s.uv].of  BY <2>12, <2>13 DEF Uv
  <2>15. g(s.uv) = z  BY <2>12, <2>13, <2>28
  <2>16. /\ uvs' \in [1..Len(uvs) -> Uv] /\ uvs'[s.uv] = z
         /\ \A u \in 1..Len(uvs) : u # s.uv => uvs'[u] = cl[u]
    <3>1. \A u \in 1..Len(uvs) : u # s.uv => g(u) = cl[u]  BY <2>28
    <3>2. \A u \in 1..Len(uvs) : g(u) \in Uv  BY <1>6, <2>15, <3>1
    <3> QED  BY <2>4, <2>10, <2>15, <3>1, <3>2
  <2>17. uvs' \in Seq(Uv) /\ Len(uvs') = Len(uvs)  BY <1>2, <2>16
  <2>18. \A u \in 1..Len(uvs) : uvs'[u].of = uvs[u].of  BY <1>6, <2>14, <2>16
  <2>19. \A u \in 1..Len(uvs) : uvs'[u].at = IF u = s.uv THEN s.reg ELSE 0  BY <1>6, <2>14, <2>16
  <2>20. open' \in Seq(Nat) /\ Len(open') = 1 /\ open'[1] = s.uv
    <3> DEFINE us == [i \in 1..1 |-> ko[i].uv]
    <3>1. us \in Seq(Nat) /\ Len(us) = 1 /\ us[1] = s.uv  BY <2>1
    <3>2. open' = Reverse(us)  BY <1>7, <1>13
    <3> HIDE DEF us
    <3>3. open' = [i \in 1..1 |-> us[(1 - i) + 1]]  BY <3>1, <3>2 DEF Reverse
    <3>4. open'[1] = us[1]  BY <3>3
    <3>5. open' \in [1..1 -> Nat]  BY <3>1, <3>3
    <3> QED  BY <3>1, <3>4, <3>5
  <2>21. Upvalues(uvs', made')  BY <1>3, <1>4, <2>17, <2>18 DEF Upvalues
  <2>22. OpenList(open', uvs')
    <3>1. \A i \in 1..Len(open') : i = 1  BY <2>20
    <3>2. \A i \in 1..Len(open') : open'[i] \in 1..Len(uvs') /\ uvs'[open'[i]].at # 0
      BY <2>4, <2>5, <2>17, <2>19, <2>20, <3>1
    <3>3. \A i \in 1..Len(open'), j \in 1..Len(open') : ~(i < j)  BY <3>1
    <3>4. \A u \in 1..Len(uvs') : uvs'[u].at # 0 => \E i \in 1..Len(open') : open'[i] = u
      BY <2>17, <2>19, <2>20
    <3> QED  BY <2>20, <3>2, <3>3, <3>4 DEF OpenList
  <2>23. Agree(regs', calls', uvs', cell')
    <3> SUFFICES ASSUME NEW u \in 1..Len(uvs)
                 PROVE  /\ (IF uvs'[u].at = 0 THEN uvs'[u].val ELSE regs'[uvs'[u].at]) = cell[uvs[u].of]
                        /\ uvs'[u].at # 0 => /\ uvs'[u].at <= Len(kont.calls)
                                             /\ kont.calls[uvs'[u].at] = uvs[u].of
      BY <1>4, <2>17, <2>18 DEF Agree
    <3>1. CASE u = s.uv  BY <2>4, <2>5, <2>11, <2>12, <2>19, <3>1
    <3>2. CASE u # s.uv  BY <1>6, <2>16, <2>19, <3>2
    <3> QED  BY <3>1, <3>2
  <2>24. Live(calls', uvs')
    <3> SUFFICES ASSUME NEW u \in 1..Len(uvs), NEW i \in 1..Len(kont.calls), uvs[u].of = kont.calls[i]
                 PROVE  uvs'[u].at = i
      BY <1>4, <2>17, <2>18 DEF Live
    <3>1. u = s.uv  BY <2>3 DEF Survives
    <3>2. i = s.reg  BY <1>5, <2>4, <3>1 DEF Stack
    <3> QED  BY <2>19, <3>1, <3>2
  <2>25. Shared(uvs')  BY <1>1, <2>17, <2>18 DEF Shared
  <2>26. Copy(kont', uvs', made')
    <3>1. Copy(kont, uvs', made)  BY <1>1, <1>2, <2>17, <2>18, CopyKept
    <3> QED  BY <1>4, <3>1
  <2> QED  BY <1>9, <2>11, <2>21, <2>22, <2>23, <2>24, <2>25, <2>26 DEF Sound
<1>14. Len(ko) = 0 \/ Len(ko) = 1
  <2>1. PICK n \in Nat : n = Len(kont.open) /\ n <= 1  BY <1>8, Zenon
  <2>3. n \in Nat /\ n <= 1  BY <2>1
  <2>2. n = 0 \/ n = 1
    <3>1. ASSUME NEW m \in Nat, m <= 1 PROVE m = 0 \/ m = 1  BY <3>1
    <3> QED  BY <2>3, <3>1
  <2> QED  BY <2>1, <2>2
<1> QED  BY <1>12, <1>13, <1>14

-----------------------------------------------------------------------------
LEMMA StartsSound == ASSUME UvInit PROVE Sound
<1>1. /\ regs \in RegisterFile /\ calls = <<1>> /\ uvs = <<>> /\ open = <<>> /\ kont = NoKont
      /\ made = 1 /\ cell = [a \in 1..MaxActivs |-> regs[1]]
  BY DEF UvInit, RegisterFile
<1>2. MaxDepth \in Nat /\ MaxDepth >= 1 /\ MaxActivs \in Nat /\ MaxActivs >= 1
  BY VmUpvaluesAssumption
<1>3. Counts(made, cell)
  <2>1. regs[1] \in Vals  BY <1>1, <1>2 DEF RegisterFile
  <2> QED  BY <1>1, <1>2, <2>1 DEF Counts
<1>4. Stack(calls, made)  BY <1>1, <1>2 DEF Stack
<1>5. uvs \in Seq(Uv) /\ Len(uvs) = 0 /\ open \in Seq(Nat) /\ Len(open) = 0  BY <1>1
<1>6. /\ Upvalues(uvs, made) /\ OpenList(open, uvs) /\ Agree(regs, calls, uvs, cell)
      /\ Live(calls, uvs) /\ Shared(uvs)
  BY <1>5 DEF Upvalues, OpenList, Agree, Live, Shared
<1>7. Copy(kont, uvs, made)  BY <1>1 DEF Copy, NoKont
<1> QED  BY <1>1, <1>3, <1>4, <1>6, <1>7 DEF Sound

\* Captured variables have one value each: the value every closure and the
\* variable's own frame read is the last one assigned, and no open upvalue points
\* at a register whose frame is gone (capture_upvalue and close_upvalues of
\* src/src/vm.c with the calls, returns, escapes and continuations around them),
\* as long as no re-entry brings variables back in the wrong order or without
\* their copy.
THEOREM CapturedVariablesAgree == UvSpec => []OneValuePerVariable
<1>1. UvInit => UvInv  BY StartsSound DEF UvInv
<1>2. UvInv /\ [UvNext]_uvVars => UvInv'
  <2> SUFFICES ASSUME UvInv, [UvNext]_uvVars, ~uvStray' PROVE Sound'
    BY DEF UvInv
  <2>1. CASE UNCHANGED uvVars
    <3>1. Sound /\ UNCHANGED <<regs, calls, uvs, open, kont, made, cell>>
      BY <2>1 DEF UvInv, uvVars
    <3> QED  BY <3>1 DEF Sound
  <2>2. CASE UvNext
    <3>1. ~uvStray /\ (UvInvoke => Survives)
      <4>1. CASE UvInvoke  BY <4>1 DEF UvInvoke
      <4>2. CASE ~UvInvoke
        <5>1. uvStray' = uvStray
          BY <2>2, <4>2 DEF UvNext, Capture, UvCallCC, Call, TailCall, UvReturn, SetLocal,
                            SetUpvalue, UvEscape
        <5> QED  BY <4>2, <5>1
      <4> QED  BY <4>1, <4>2
    <3>2. Sound  BY <3>1 DEF UvInv
    <3>3. CASE Capture \/ UvCallCC \/ UvInvoke
      BY <3>1, <3>2, <3>3, CaptureSound, UvCallCCSound, UvInvokeSound
    <3>4. ASSUME NEW v \in Vals,
                 \/ Call(v) \/ TailCall(v) \/ UvReturn(v) \/ SetLocal(v)
                 \/ \E u \in 1..Len(uvs) : SetUpvalue(u, v)
                 \/ \E d \in 1..Depth : UvEscape(d, v)
          PROVE  Sound'
      BY <3>2, <3>4, CallSound, TailCallSound, UvReturnSound, SetLocalSound, SetUpvalueSound,
         UvEscapeSound
    <3> QED  BY <2>2, <3>3, <3>4 DEF UvNext
  <2> QED  BY <2>1, <2>2
<1>3. UvInv => OneValuePerVariable
  BY DEF UvInv, Sound, Agree, OneValuePerVariable, Value, Loc, Depth
<1> QED  BY <1>1, <1>2, <1>3, PTL DEF UvSpec

-----------------------------------------------------------------------------
(* Winds and handlers along the stack of frames and C activations             *)

Handler == [id : Nat, wc : Nat]
Frame == [kind : {"user", "dw", "before", "after"}, wind : Winds \cup {"none"},
          pc : {"run", "push", "pop", "ret"}, hs : Seq(Handler)]
ActKinds == {"main", "handler", "callcc", "raise", "unwind", "trans"}

\* An activation that is not in the middle of a transition.
Plain == [kind : ActKinds \ {"trans"}, saved : Nat, id : ActKinds \X Nat \X Nat,
          eh : Handler, cont : BOOLEAN, hb : Nat, target : {NoCont}, common : Nat, j : Nat]
Continuation == [frames : Seq(Frame), winds : Seq(Winds), handlers : Seq(Handler),
                 params : Seq(Winds), needs : Seq(Plain), set : BOOLEAN]
Moving == [kind : {"trans"}, saved : Nat, id : ActKinds \X Nat \X Nat,
           eh : Handler, cont : BOOLEAN, hb : Nat, target : Continuation, common : Nat, j : Nat]
AnyAct == Plain \cup Moving

\* The winds and handlers with which some place of the stack goes on.
Context == [w : Seq(Winds), h : Seq(Handler)]
Ctx(ws, hs) == [w |-> ws, h |-> hs]

\* A frame that has another above it: user code, or dynamic-wind around its thunk.
Waits(f) == \/ f.kind = "user"
            \/ f.kind = "dw" /\ f.pc = "pop" /\ f.wind \in Winds

\* A frame goes on in c; what is below it goes on in b.
FrameLink(f, c, b) ==
    /\ c.h = b.h /\ f.hs = c.h
    /\ c.w = IF f.kind = "user" THEN b.w ELSE Append(b.w, f.wind)

\* The same of an activation.  What is below ch_vm_raise goes on only if the
\* handler returns to it (continuable), or if a continuation came by (sure).
ActLink(a, c, b, sure) ==
    /\ a.kind = "handler" => c.w = b.w /\ c.h # <<>> /\ Front(c.h) = b.h
    /\ a.kind = "callcc" => c = b
    /\ a.kind = "raise" => /\ a.cont \/ sure => c = b
                           /\ c = b \/ a.hb = Len(c.h)

\* What goes on when n frames and j activations are left.
Resumes(st, F, A, n, j) == IF n > st[j].saved THEN F[n] ELSE A[j]

\* Of the first q activations the j-th is the last one under frame i.
Under(st, q, i, j) == st[j].saved < i /\ (j < q => st[j + 1].saved >= i)

\* F and A are the contexts of the first n frames and of the first q activations.
Linked(fr, st, n, q, F, A, sure) ==
    /\ n \in Nat /\ q \in Nat \ {0}
    /\ F \in [Nat -> Context] /\ A \in [Nat -> Context]
    /\ st[1].kind = "main" /\ st[1].saved = 0
    /\ \A j \in 1..q : st[j].saved \in 0..n
    /\ \A j \in 2..q : st[j].kind \in {"handler", "callcc", "raise"}
    /\ \A i, j \in 1..q : i <= j => st[i].saved <= st[j].saved
    /\ \A j \in 2..q : ActLink(st[j], A[j], Resumes(st, F, A, st[j].saved, j - 1),
                               sure /\ st[j].saved = n)
    /\ \A i \in 1..n : Waits(fr[i])
    /\ \A i \in 1..n, j \in 1..q :
         Under(st, q, i, j) => FrameLink(fr[i], F[i], Resumes(st, F, A, i - 1, j))

\* The first n frames and q activations go on, one after the other, beginning in c.
Coherent(fr, st, n, q, c, sure) ==
    \E F, A : Linked(fr, st, n, q, F, A, sure) /\ Resumes(st, F, A, n, q) = c

-----------------------------------------------------------------------------
\* Facts about numbers, for places that are fields of records.
LEMMA Places ==
  ASSUME NEW n \in Nat, NEW s \in 0..n
  PROVE  /\ s \in 0..(n + 1) /\ n + 1 > s /\ ~(s >= n + 1) /\ s \in Nat
         /\ n > s => n - 1 \in Nat /\ n \in 1..n /\ s < n
         /\ \A t \in 0..n : t <= s /\ n > s => t \in 0..(n - 1)
OBVIOUS

LEMMA Resumed ==
  ASSUME NEW fr, NEW st, NEW n, NEW q, NEW F, NEW A, NEW sure, Linked(fr, st, n, q, F, A, sure)
  PROVE  Resumes(st, F, A, n, q) \in Context
BY DEF Linked, Resumes

LEMMA CoherentFacts ==
  ASSUME NEW fr, NEW st, NEW n, NEW q, NEW c, NEW sure, Coherent(fr, st, n, q, c, sure)
  PROVE  /\ n \in Nat /\ q \in Nat \ {0} /\ c \in Context
         /\ st[1].kind = "main" /\ st[1].saved = 0
         /\ \A j \in 1..q : st[j].saved \in 0..n
         /\ \A j \in 2..q : st[j].kind \in {"handler", "callcc", "raise"}
         /\ \A i \in 1..n : Waits(fr[i])
<1>1. PICK F, A : Linked(fr, st, n, q, F, A, sure) /\ Resumes(st, F, A, n, q) = c  BY DEF Coherent
<1> QED  BY <1>1, Resumed DEF Linked

\* Only the first n frames and the first q activations matter.
LEMMA CoherentSame ==
  ASSUME NEW fr, NEW st, NEW n, NEW q, NEW c, NEW sure, Coherent(fr, st, n, q, c, sure),
         NEW gr, \A i \in 1..n : gr[i] = fr[i], NEW bs, \A j \in 1..q : bs[j] = st[j]
  PROVE  Coherent(gr, bs, n, q, c, sure)
<1>1. PICK F, A : Linked(fr, st, n, q, F, A, sure) /\ Resumes(st, F, A, n, q) = c  BY DEF Coherent
<1>2. n \in Nat /\ q \in Nat \ {0}  BY <1>1 DEF Linked
<1>3. 1 \in 1..q /\ q \in 1..q /\ \A j \in 2..q : j \in 1..q /\ j - 1 \in 1..q  BY <1>2
<1>4. \A j \in 1..q : j < q => j + 1 \in 1..q  BY <1>2
<1>5. \A m : \A j \in 1..q : Resumes(bs, F, A, m, j) = Resumes(st, F, A, m, j)  BY DEF Resumes
<1>6. \A i \in 1..n, j \in 1..q : Under(bs, q, i, j) <=> Under(st, q, i, j)  BY <1>4 DEF Under
<1>7. Resumes(bs, F, A, n, q) = c  BY <1>1, <1>3, <1>5
<1>8. \A j \in 2..q : ActLink(bs[j], A[j], Resumes(bs, F, A, bs[j].saved, j - 1),
                              sure /\ bs[j].saved = n)
  <2> TAKE j \in 2..q
  <2>1. j \in 1..q /\ j - 1 \in 1..q /\ bs[j] = st[j]  BY <1>3
  <2>2. Resumes(bs, F, A, bs[j].saved, j - 1) = Resumes(st, F, A, st[j].saved, j - 1)  BY <2>1, <1>5
  <2>3. ActLink(st[j], A[j], Resumes(st, F, A, st[j].saved, j - 1), sure /\ st[j].saved = n)
    BY <1>1 DEF Linked
  <2> QED  BY <2>1, <2>2, <2>3
<1>9. \A i \in 1..n, j \in 1..q :
        Under(bs, q, i, j) => FrameLink(gr[i], F[i], Resumes(bs, F, A, i - 1, j))
  <2> TAKE i \in 1..n, j \in 1..q
  <2>1. Under(st, q, i, j) => FrameLink(fr[i], F[i], Resumes(st, F, A, i - 1, j))
    BY <1>1 DEF Linked
  <2> QED  BY <2>1, <1>5, <1>6
<1>10. Linked(gr, bs, n, q, F, A, sure)  BY <1>1, <1>3, <1>8, <1>9 DEF Linked
<1> QED  BY <1>7, <1>10 DEF Coherent

\* Being sure is one more thing to know.
LEMMA CoherentLess ==
  ASSUME NEW fr, NEW st, NEW n, NEW q, NEW c, Coherent(fr, st, n, q, c, TRUE)
  PROVE  Coherent(fr, st, n, q, c, FALSE)
<1>1. PICK F, A : Linked(fr, st, n, q, F, A, TRUE) /\ Resumes(st, F, A, n, q) = c  BY DEF Coherent
<1>2. \A a, b, d, s : ActLink(a, d, b, s) => ActLink(a, d, b, FALSE)  BY DEF ActLink
<1>3. \A j \in 2..q : ActLink(st[j], A[j], Resumes(st, F, A, st[j].saved, j - 1),
                              FALSE /\ st[j].saved = n)
  <2> TAKE j \in 2..q
  <2>1. ActLink(st[j], A[j], Resumes(st, F, A, st[j].saved, j - 1), TRUE /\ st[j].saved = n)
    BY <1>1 DEF Linked
  <2>2. ActLink(st[j], A[j], Resumes(st, F, A, st[j].saved, j - 1), FALSE)  BY <2>1, <1>2
  <2> QED  BY <2>2
<1>4. Linked(fr, st, n, q, F, A, FALSE)  BY <1>1, <1>3 DEF Linked
<1> QED  BY <1>1, <1>4 DEF Coherent

\* A frame returns to what is below it.
LEMMA PopFrame ==
  ASSUME NEW fr, NEW st, NEW n, NEW q, NEW c, Coherent(fr, st, n, q, c, FALSE), n > st[q].saved
  PROVE  \E b \in Context : Coherent(fr, st, n - 1, q, b, FALSE) /\ FrameLink(fr[n], c, b)
<1>1. PICK F, A : Linked(fr, st, n, q, F, A, FALSE) /\ Resumes(st, F, A, n, q) = c  BY DEF Coherent
<1> DEFINE b == Resumes(st, F, A, n - 1, q)
<1>2. n \in Nat /\ q \in Nat \ {0}  BY <1>1 DEF Linked
<1>2a. q \in 1..q /\ ~(q < q)  BY <1>2
<1>2b. \A j \in 1..q : st[j].saved \in 0..n  BY <1>1 DEF Linked
<1>2c. st[q].saved \in 0..n  BY <1>2a, <1>2b
<1>3. n - 1 \in Nat /\ n \in 1..n /\ st[q].saved < n  BY <1>2, <1>2c, Places
<1>4. \A j \in 1..q : st[j].saved \in 0..(n - 1)
  <2> TAKE j \in 1..q
  <2>1. j <= q /\ q \in 1..q  BY <1>2
  <2>2. st[j].saved <= st[q].saved  BY <2>1, <1>1, <1>2a DEF Linked
  <2>3. st[j].saved \in 0..n  BY <1>2b
  <2> QED  BY <2>2, <2>3, <1>2, <1>2c, Places
<1>5. \A i \in 1..(n - 1) : i \in 1..n  BY <1>2
<1>6. Linked(fr, st, n - 1, q, F, A, FALSE)  BY <1>1, <1>3, <1>4, <1>5 DEF Linked
<1>7. Under(st, q, n, q)  BY <1>2a, <1>3 DEF Under
<1>8. FrameLink(fr[n], F[n], b)  BY <1>1, <1>2a, <1>3, <1>7 DEF Linked
<1>9. c = F[n]  BY <1>1 DEF Resumes
<1>10. b \in Context  BY <1>6, Resumed
<1> QED  BY <1>6, <1>8, <1>9, <1>10 DEF Coherent

\* A frame is called.
LEMMA PushFrame ==
  ASSUME NEW fr, NEW st, NEW n, NEW q, NEW b, Coherent(fr, st, n, q, b, FALSE),
         NEW gr, \A i \in 1..n : gr[i] = fr[i],
         NEW c \in Context, Waits(gr[n + 1]), FrameLink(gr[n + 1], c, b)
  PROVE  Coherent(gr, st, n + 1, q, c, FALSE)
<1>0. Coherent(gr, st, n, q, b, FALSE)  BY CoherentSame
<1>1. PICK F, A : Linked(gr, st, n, q, F, A, FALSE) /\ Resumes(st, F, A, n, q) = b
  BY <1>0 DEF Coherent
<1> DEFINE G == [F EXCEPT ![n + 1] = c]
<1>2. /\ n \in Nat /\ q \in Nat \ {0} /\ F \in [Nat -> Context]
      /\ \A j \in 1..q : st[j].saved \in 0..n
  BY <1>1 DEF Linked
<1>3. G \in [Nat -> Context] /\ G[n + 1] = c /\ \A i \in 0..n : G[i] = F[i]  BY <1>2
<1> HIDE DEF G
<1>4. \A m \in 0..n, j \in 1..q : Resumes(st, G, A, m, j) = Resumes(st, F, A, m, j)
  BY <1>3 DEF Resumes
<1>5. \A i \in 1..(n + 1) : i \in 1..n \/ i = n + 1  BY <1>2
<1>6. \A i \in 1..n : i - 1 \in 0..n /\ i \in 0..n  BY <1>2
<1>7. \A j \in 1..q : Under(st, q, n + 1, j) => j = q
  <2> SUFFICES ASSUME NEW j \in 1..q, Under(st, q, n + 1, j), j # q PROVE FALSE  OBVIOUS
  <2>1. j < q /\ j + 1 \in 1..q  BY <1>2
  <2>2. st[j + 1].saved >= n + 1  BY <2>1 DEF Under
  <2>3. st[j + 1].saved \in 0..n  BY <1>2, <2>1
  <2> QED  BY <2>2, <2>3, <1>2, Places
<1>8. Resumes(st, G, A, (n + 1) - 1, q) = b
  <2>1. (n + 1) - 1 = n /\ n \in 0..n /\ q \in 1..q  BY <1>2
  <2> QED  BY <2>1, <1>1, <1>4
<1>9. \A i \in 1..(n + 1), j \in 1..q :
        Under(st, q, i, j) => FrameLink(gr[i], G[i], Resumes(st, G, A, i - 1, j))
  <2> TAKE i \in 1..(n + 1), j \in 1..q
  <2>1. CASE i \in 1..n
    <3>1. Under(st, q, i, j) => FrameLink(gr[i], F[i], Resumes(st, F, A, i - 1, j))
      BY <1>1, <2>1 DEF Linked
    <3> QED  BY <3>1, <2>1, <1>3, <1>4, <1>6
  <2>2. CASE i = n + 1  BY <2>2, <1>3, <1>7, <1>8
  <2> QED  BY <2>1, <2>2, <1>5
<1>10. \A j \in 2..q : ActLink(st[j], A[j], Resumes(st, G, A, st[j].saved, j - 1),
                               FALSE /\ st[j].saved = n + 1)
  <2> TAKE j \in 2..q
  <2>1. ActLink(st[j], A[j], Resumes(st, F, A, st[j].saved, j - 1), FALSE /\ st[j].saved = n)
    BY <1>1 DEF Linked
  <2>2. j \in 1..q /\ j - 1 \in 1..q  BY <1>2
  <2>3. Resumes(st, G, A, st[j].saved, j - 1) = Resumes(st, F, A, st[j].saved, j - 1)
    BY <2>2, <1>2, <1>4
  <2>4. (FALSE /\ st[j].saved = n) = (FALSE /\ st[j].saved = n + 1)  OBVIOUS
  <2> QED  BY <2>1, <2>3, <2>4
<1>11. \A i \in 1..(n + 1) : Waits(gr[i])  BY <1>1, <1>5 DEF Linked
<1>12. \A j \in 1..q : st[j].saved \in 0..(n + 1)  BY <1>2, Places
<1>13. n + 1 \in Nat  BY <1>2
<1>14. Linked(gr, st, n + 1, q, G, A, FALSE)
  BY <1>1, <1>2, <1>3, <1>9, <1>10, <1>11, <1>12, <1>13 DEF Linked
<1>15. Resumes(st, G, A, n + 1, q) = c
  <2>1. q \in 1..q  BY <1>2
  <2>2. n + 1 > st[q].saved  BY <2>1, <1>2, Places
  <2> QED  BY <2>2, <1>3 DEF Resumes
<1> QED  BY <1>14, <1>15 DEF Coherent

\* An activation returns to what is below it.
LEMMA PopAct ==
  ASSUME NEW fr, NEW st, NEW n, NEW q, NEW c, NEW sure \in BOOLEAN, Coherent(fr, st, n, q, c, sure),
         q > 1, st[q].saved = n
  PROVE  \E b \in Context : /\ Coherent(fr, st, n, q - 1, b, sure) /\ ActLink(st[q], c, b, sure)
<1>1. PICK F, A : Linked(fr, st, n, q, F, A, sure) /\ Resumes(st, F, A, n, q) = c  BY DEF Coherent
<1> DEFINE b == Resumes(st, F, A, n, q - 1)
<1>2. n \in Nat /\ q \in Nat \ {0} /\ q - 1 \in Nat \ {0} /\ q \in 2..q  BY <1>1 DEF Linked
<1>3. /\ \A j \in 1..(q - 1) : j \in 1..q
      /\ \A j \in 2..(q - 1) : j \in 2..q
  BY <1>2
<1>4. \A i \in 1..n, j \in 1..(q - 1) : Under(st, q - 1, i, j) => Under(st, q, i, j)
  <2> SUFFICES ASSUME NEW i \in 1..n, NEW j \in 1..(q - 1), Under(st, q - 1, i, j)
               PROVE  Under(st, q, i, j)
    OBVIOUS
  <2>1. CASE j = q - 1
    <3>1. j + 1 = q /\ n >= i  BY <2>1, <1>2
    <3> QED  BY <3>1 DEF Under
  <2>2. CASE j < q - 1  BY <2>2 DEF Under
  <2>3. j = q - 1 \/ j < q - 1  BY <1>2
  <2> QED  BY <2>1, <2>2, <2>3
<1>5. Linked(fr, st, n, q - 1, F, A, sure)  BY <1>1, <1>2, <1>3, <1>4 DEF Linked
<1>6. c = A[q]  BY <1>1, <1>2 DEF Resumes
<1>7. ActLink(st[q], A[q], b, sure /\ st[q].saved = n)  BY <1>1, <1>2 DEF Linked
<1>8. b \in Context  BY <1>5, Resumed
<1>9. (sure /\ st[q].saved = n) = sure  OBVIOUS
<1> QED  BY <1>5, <1>6, <1>7, <1>8, <1>9 DEF Coherent

\* A C function is entered.
LEMMA PushAct ==
  ASSUME NEW fr, NEW st, NEW n, NEW q, NEW b, Coherent(fr, st, n, q, b, FALSE),
         NEW bs, \A j \in 1..q : bs[j] = st[j],
         NEW c \in Context, bs[q + 1].kind \in {"handler", "callcc", "raise"}, bs[q + 1].saved = n,
         ActLink(bs[q + 1], c, b, FALSE)
  PROVE  Coherent(fr, bs, n, q + 1, c, FALSE)
<1>0. Coherent(fr, bs, n, q, b, FALSE)  BY CoherentSame
<1>1. PICK F, A : Linked(fr, bs, n, q, F, A, FALSE) /\ Resumes(bs, F, A, n, q) = b
  BY <1>0 DEF Coherent
<1> DEFINE D == [A EXCEPT ![q + 1] = c]
<1>2. n \in Nat /\ q \in Nat \ {0} /\ F \in [Nat -> Context] /\ A \in [Nat -> Context]
  BY <1>1 DEF Linked
<1>3. D \in [Nat -> Context] /\ D[q + 1] = c /\ \A j \in 1..q : D[j] = A[j]  BY <1>2
<1> HIDE DEF D
<1>4. \A m, j : j \in 1..q => Resumes(bs, F, D, m, j) = Resumes(bs, F, A, m, j)
  BY <1>3 DEF Resumes
<1>5. \A j \in 1..(q + 1) : j \in 1..q \/ j = q + 1  BY <1>2
<1>6. \A j \in 2..(q + 1) : j \in 2..q \/ j = q + 1  BY <1>2
<1>7. \A j \in 2..q : j \in 1..q /\ j - 1 \in 1..q  BY <1>2
<1>8. q \in 1..q /\ (q + 1) - 1 = q /\ q + 1 \in Nat \ {0} /\ n \in 0..n  BY <1>2
<1>9. \A i \in 1..n, j \in 1..(q + 1) : Under(bs, q + 1, i, j) => j \in 1..q /\ Under(bs, q, i, j)
  <2> SUFFICES ASSUME NEW i \in 1..n, NEW j \in 1..(q + 1), Under(bs, q + 1, i, j)
               PROVE  j \in 1..q /\ Under(bs, q, i, j)
    OBVIOUS
  <2>1. j # q + 1
    <3>1. SUFFICES ASSUME j = q + 1 PROVE FALSE  OBVIOUS
    <3>2. n < i  BY <3>1 DEF Under
    <3> QED  BY <3>2, <1>2
  <2>2. j < q => j < q + 1  BY <1>2
  <2> QED  BY <2>1, <2>2, <1>5 DEF Under
<1>10. \A j \in 2..(q + 1) : ActLink(bs[j], D[j], Resumes(bs, F, D, bs[j].saved, j - 1),
                                     FALSE /\ bs[j].saved = n)
  <2> TAKE j \in 2..(q + 1)
  <2>1. CASE j \in 2..q
    <3>1. ActLink(bs[j], A[j], Resumes(bs, F, A, bs[j].saved, j - 1), FALSE /\ bs[j].saved = n)
      BY <1>1, <2>1 DEF Linked
    <3> QED  BY <3>1, <2>1, <1>3, <1>4, <1>7
  <2>2. CASE j = q + 1
    <3>1. D[j] = c /\ Resumes(bs, F, D, bs[j].saved, j - 1) = b  BY <2>2, <1>1, <1>3, <1>4, <1>8
    <3>2. (FALSE /\ bs[j].saved = n) = FALSE  OBVIOUS
    <3> QED  BY <3>1, <3>2, <2>2
  <2> QED  BY <2>1, <2>2, <1>6
<1>11. \A i \in 1..n, j \in 1..(q + 1) :
         Under(bs, q + 1, i, j) => FrameLink(fr[i], F[i], Resumes(bs, F, D, i - 1, j))
  <2> SUFFICES ASSUME NEW i \in 1..n, NEW j \in 1..(q + 1), Under(bs, q + 1, i, j)
               PROVE  FrameLink(fr[i], F[i], Resumes(bs, F, D, i - 1, j))
    OBVIOUS
  <2>1. j \in 1..q /\ Under(bs, q, i, j)  BY <1>9
  <2>2. FrameLink(fr[i], F[i], Resumes(bs, F, A, i - 1, j))  BY <2>1, <1>1 DEF Linked
  <2> QED  BY <2>1, <2>2, <1>4
<1>12. \A j \in 1..(q + 1) : bs[j].saved \in 0..n  BY <1>1, <1>5, <1>8 DEF Linked
<1>13. \A j \in 2..(q + 1) : bs[j].kind \in {"handler", "callcc", "raise"}  BY <1>1, <1>6 DEF Linked
<1>14. \A i, j \in 1..(q + 1) : i <= j => bs[i].saved <= bs[j].saved
  <2> SUFFICES ASSUME NEW i \in 1..(q + 1), NEW j \in 1..(q + 1), i <= j
               PROVE  bs[i].saved <= bs[j].saved
    OBVIOUS
  <2>1. CASE j \in 1..q
    <3>1. i \in 1..q  BY <2>1, <1>2
    <3> QED  BY <3>1, <2>1, <1>1 DEF Linked
  <2>2. CASE j = q + 1
    <3>1. bs[i].saved \in 0..n  BY <1>12
    <3> QED  BY <3>1, <2>2, <1>2
  <2> QED  BY <2>1, <2>2, <1>5
<1>15. Linked(fr, bs, n, q + 1, F, D, FALSE)
  BY <1>1, <1>2, <1>3, <1>8, <1>10, <1>11, <1>12, <1>13, <1>14 DEF Linked
<1>16. Resumes(bs, F, D, n, q + 1) = c
  <2>1. ~(n > n)  BY <1>2
  <2> QED  BY <2>1, <1>3 DEF Resumes
<1> QED  BY <1>15, <1>16 DEF Coherent

\* A continuation is entered below activations that let its value pass.
LEMMA PassActs ==
  ASSUME NEW fr, NEW st, NEW n, NEW m, NEW c, Coherent(fr, st, n, m, c, FALSE),
         \A j \in 2..m : st[j].saved = n => st[j].kind # "raise",
         NEW bs, \A j \in 1..m : bs[j] = st[j],
         NEW q \in Nat, m <= q,
         \A j \in (m + 1)..q : bs[j].saved = n /\ bs[j].kind \in {"callcc", "raise"}
  PROVE  Coherent(fr, bs, n, q, c, TRUE)
<1>0. Coherent(fr, bs, n, m, c, FALSE)  BY CoherentSame
<1>1. PICK F, A : Linked(fr, bs, n, m, F, A, FALSE) /\ Resumes(bs, F, A, n, m) = c
  BY <1>0 DEF Coherent
<1> DEFINE D == [j \in Nat |-> IF j \in 1..m THEN A[j] ELSE c]
<1>2. n \in Nat /\ m \in Nat \ {0} /\ F \in [Nat -> Context] /\ A \in [Nat -> Context]
  BY <1>1 DEF Linked
<1>3. c \in Context  BY <1>1, Resumed
<1>4. /\ D \in [Nat -> Context]
      /\ \A j \in 1..m : D[j] = A[j]
      /\ \A j \in (m + 1)..q : D[j] = c
  BY <1>2, <1>3
<1> HIDE DEF D
<1>5. /\ \A j \in 1..q : j \in 1..m \/ j \in (m + 1)..q
      /\ \A j \in 2..q : j \in 2..m \/ j \in (m + 1)..q
      /\ \A j \in 2..m : j \in 1..m /\ j - 1 \in 1..m
      /\ m \in 1..m /\ n \in 0..n /\ ~(n > n)
  BY <1>2
<1>6. \A k, j : j \in 1..m => Resumes(bs, F, D, k, j) = Resumes(bs, F, A, k, j)
  BY <1>4 DEF Resumes
<1>7. \A j \in m..q : Resumes(bs, F, D, n, j) = c
  <2> TAKE j \in m..q
  <2>1. CASE j = m  BY <2>1, <1>1, <1>5, <1>6
  <2>2. CASE j \in (m + 1)..q  BY <2>2, <1>4, <1>5 DEF Resumes
  <2>3. j = m \/ j \in (m + 1)..q  BY <1>2
  <2> QED  BY <2>1, <2>2, <2>3
<1>8. \A j \in 1..q : bs[j].saved \in 0..n
  <2> TAKE j \in 1..q
  <2>1. CASE j \in 1..m  BY <2>1, <1>1 DEF Linked
  <2>2. CASE j \in (m + 1)..q  BY <2>2, <1>5
  <2> QED  BY <2>1, <2>2, <1>5
<1>9. \A j \in 2..q : bs[j].kind \in {"handler", "callcc", "raise"}
  <2> TAKE j \in 2..q
  <2>1. CASE j \in 2..m  BY <2>1, <1>1 DEF Linked
  <2>2. CASE j \in (m + 1)..q  BY <2>2
  <2> QED  BY <2>1, <2>2, <1>5
<1>10. \A i, j \in 1..q : i <= j => bs[i].saved <= bs[j].saved
  <2> SUFFICES ASSUME NEW i \in 1..q, NEW j \in 1..q, i <= j PROVE bs[i].saved <= bs[j].saved
    OBVIOUS
  <2>1. CASE j \in 1..m
    <3>1. i \in 1..m  BY <2>1, <1>2
    <3> QED  BY <3>1, <2>1, <1>1 DEF Linked
  <2>2. CASE j \in (m + 1)..q
    <3>1. bs[i].saved \in 0..n /\ bs[j].saved = n  BY <2>2, <1>8
    <3> QED  BY <3>1, <1>2
  <2> QED  BY <2>1, <2>2, <1>5
<1>11. \A j \in 2..q : ActLink(bs[j], D[j], Resumes(bs, F, D, bs[j].saved, j - 1),
                               TRUE /\ bs[j].saved = n)
  <2> TAKE j \in 2..q
  <2>1. CASE j \in 2..m
    <3>1. ActLink(bs[j], A[j], Resumes(bs, F, A, bs[j].saved, j - 1), FALSE /\ bs[j].saved = n)
      BY <1>1, <2>1 DEF Linked
    <3>2. bs[j].saved = n => bs[j].kind # "raise"  BY <2>1, <1>5
    <3>3. ActLink(bs[j], A[j], Resumes(bs, F, A, bs[j].saved, j - 1), TRUE /\ bs[j].saved = n)
      BY <3>1, <3>2 DEF ActLink
    <3>4. Resumes(bs, F, D, bs[j].saved, j - 1) = Resumes(bs, F, A, bs[j].saved, j - 1)
      BY <2>1, <1>5, <1>6
    <3>5. D[j] = A[j]  BY <2>1, <1>4, <1>5
    <3> QED  BY <3>3, <3>4, <3>5
  <2>2. CASE j \in (m + 1)..q
    <3>1. j - 1 \in m..q  BY <2>2, <1>2
    <3>2. bs[j].saved = n /\ bs[j].kind \in {"callcc", "raise"} /\ D[j] = c  BY <2>2, <1>4
    <3>3. Resumes(bs, F, D, n, j - 1) = c  BY <3>1, <1>7
    <3> QED  BY <3>2, <3>3 DEF ActLink
  <2> QED  BY <2>1, <2>2, <1>5
<1>12. \A i \in 1..n, j \in 1..q : Under(bs, q, i, j) => j \in 1..m /\ Under(bs, m, i, j)
  <2> SUFFICES ASSUME NEW i \in 1..n, NEW j \in 1..q, Under(bs, q, i, j)
               PROVE  j \in 1..m /\ Under(bs, m, i, j)
    OBVIOUS
  <2>1. j \notin (m + 1)..q
    <3>1. SUFFICES ASSUME j \in (m + 1)..q PROVE FALSE  OBVIOUS
    <3>2. n < i  BY <3>1 DEF Under
    <3> QED  BY <3>2, <1>2
  <2>2. j < m => j < q  BY <1>2
  <2> QED  BY <2>1, <2>2, <1>5 DEF Under
<1>13. \A i \in 1..n, j \in 1..q :
         Under(bs, q, i, j) => FrameLink(fr[i], F[i], Resumes(bs, F, D, i - 1, j))
  <2> SUFFICES ASSUME NEW i \in 1..n, NEW j \in 1..q, Under(bs, q, i, j)
               PROVE  FrameLink(fr[i], F[i], Resumes(bs, F, D, i - 1, j))
    OBVIOUS
  <2>1. j \in 1..m /\ Under(bs, m, i, j)  BY <1>12
  <2>2. FrameLink(fr[i], F[i], Resumes(bs, F, A, i - 1, j))  BY <2>1, <1>1 DEF Linked
  <2> QED  BY <2>1, <2>2, <1>6
<1>14. q \in Nat \ {0}  BY <1>2
<1>15. Linked(fr, bs, n, q, F, D, TRUE)
  BY <1>1, <1>2, <1>4, <1>8, <1>9, <1>10, <1>11, <1>13, <1>14 DEF Linked
<1>16. Resumes(bs, F, D, n, q) = c
  <2>1. q \in m..q  BY <1>2
  <2> QED  BY <2>1, <1>7
<1> QED  BY <1>15, <1>16 DEF Coherent

-----------------------------------------------------------------------------
(* Sequences                                                                  *)

LEMMA Fronts ==
  ASSUME NEW S, NEW s \in Seq(S), Len(s) >= 1
  PROVE  /\ Front(s) \in Seq(S) /\ Len(Front(s)) = Len(s) - 1 /\ Len(s) \in Nat \ {0}
         /\ \A i \in 1..(Len(s) - 1) : Front(s)[i] = s[i]
         /\ Last(s) \in S /\ Last(s) = s[Len(s)] /\ s # <<>>
<1>1. Len(s) \in Nat \ {0}  OBVIOUS
<1>2. Front(s) = [i \in 1..(Len(s) - 1) |-> s[i]]  BY <1>1 DEF Front
<1> QED  BY <1>1, <1>2 DEF Last

LEMMA Appends ==
  ASSUME NEW S, NEW s \in Seq(S), NEW e \in S
  PROVE  /\ Append(s, e) \in Seq(S) /\ Len(s) \in Nat /\ Len(Append(s, e)) = Len(s) + 1
         /\ \A i \in 1..Len(s) : Append(s, e)[i] = s[i]
         /\ Append(s, e)[Len(s) + 1] = e /\ Last(Append(s, e)) = e /\ Append(s, e) # <<>>
         /\ Front(Append(s, e)) = s
<1> DEFINE t == Append(s, e)
<1>1. /\ t \in Seq(S) /\ Len(s) \in Nat /\ Len(t) = Len(s) + 1
      /\ t[Len(s) + 1] = e
  OBVIOUS
<1>2. \A i \in 1..Len(s) : t[i] = s[i]  OBVIOUS
<1> HIDE DEF t
<1>3. t # <<>>  BY <1>1
<1>4. Front(t) = s
  <2>1. Len(t) >= 1 /\ Len(t) - 1 = Len(s)  BY <1>1
  <2>2. /\ Front(t) \in Seq(S) /\ Len(Front(t)) = Len(s)
        /\ \A i \in 1..Len(s) : Front(t)[i] = t[i]
    BY <1>1, <2>1, Fronts
  <2> HIDE DEF Front
  <2>3. \A i \in 1..Len(s) : Front(t)[i] = s[i]  BY <2>2, <1>2
  <2> QED  BY <2>2, <2>3, SeqEqual
<1>5. Last(t) = e  BY <1>1 DEF Last
<1> QED  BY <1>1, <1>2, <1>3, <1>4, <1>5 DEF t

\* Two elements more.
LEMMA AppendTwo ==
  ASSUME NEW S, NEW s \in Seq(S), NEW d \in S, NEW e \in S
  PROVE  /\ s \o <<d, e>> \in Seq(S) /\ Len(s \o <<d, e>>) = Len(s) + 2 /\ Len(s) \in Nat
         /\ \A i \in 1..Len(s) : (s \o <<d, e>>)[i] = s[i]
         /\ (s \o <<d, e>>)[Len(s) + 1] = d /\ (s \o <<d, e>>)[Len(s) + 2] = e
         /\ Append(s, d) \o <<e>> = s \o <<d, e>>
<1>1. /\ s \o <<d, e>> \in Seq(S) /\ Len(s \o <<d, e>>) = Len(s) + 2 /\ Len(s) \in Nat
      /\ \A i \in 1..Len(s) : (s \o <<d, e>>)[i] = s[i]
      /\ (s \o <<d, e>>)[Len(s) + 1] = d /\ (s \o <<d, e>>)[Len(s) + 2] = e
  OBVIOUS
<1>2. Append(s, d) \o <<e>> = s \o <<d, e>>
  <2> DEFINE t == Append(s, d) \o <<e>>
  <2>1. t \in Seq(S) /\ Len(t) = Len(s) + 2  OBVIOUS
  <2>2. \A i \in 1..(Len(s) + 2) : t[i] = (s \o <<d, e>>)[i]  BY <1>1
  <2> HIDE DEF t
  <2>3. t = s \o <<d, e>>  BY <2>1, <2>2, <1>1, SeqEqual
  <2> QED  BY <2>3 DEF t
<1> QED  BY <1>1, <1>2

LEMMA SeqIs ==
  ASSUME NEW S, NEW s \in Seq(S), Len(s) >= 1
  PROVE  s = Append(Front(s), Last(s))
<1>1. Front(s) \in Seq(S) /\ Len(Front(s)) = Len(s) - 1 /\ Last(s) \in S /\ Last(s) = s[Len(s)]
      /\ Len(s) \in Nat \ {0} /\ \A i \in 1..(Len(s) - 1) : Front(s)[i] = s[i]
  BY Fronts
<1> HIDE DEF Front, Last
<1>2. Append(Front(s), Last(s)) \in Seq(S) /\ Len(Append(Front(s), Last(s))) = Len(s)  BY <1>1
<1>3. \A i \in 1..Len(s) : Append(Front(s), Last(s))[i] = s[i]  BY <1>1
<1> QED  BY <1>2, <1>3, SeqEqual

-----------------------------------------------------------------------------
(* The inductive invariant                                                    *)

\* Entering c brings the machine into a place of a stack that goes on.
GoodCont(c) ==
    /\ c \in Continuation
    /\ Coherent(c.frames, c.needs, Len(c.frames), Len(c.needs), Ctx(c.winds, c.handlers), FALSE)
    /\ c.params = c.winds

\* The C activations, those that are being escaped from included.
Levels(st) ==
    /\ st \in Seq(AnyAct) /\ Len(st) >= 1
    /\ st[1].kind = "main" /\ st[1].saved = 0
    /\ \A j \in 2..Len(st) : st[j].kind # "main"
    /\ \A i, j \in 1..Len(st) : i <= j => st[i].saved <= st[j].saved
    /\ \A j \in 1..Len(st) : st[j].kind = "trans" => GoodCont(st[j].target)

Types ==
    /\ frames \in Seq(Frame) /\ winds \in Seq(Winds) /\ handlers \in Seq(Handler)
    /\ params \in Seq(Winds) /\ inside \in Seq(Winds) /\ conts \in [Conts -> Continuation]
    /\ invoked \in BOOLEAN /\ fuel \in Nat

\* The winds ws on the way to those of c: being left, or entered up to the j-th.
Underway(ws, c, common, j) ==
    /\ common \in 0..Len(c.winds)
    /\ \/ j = common /\ Len(ws) >= common /\ SubSeq(ws, 1, common) = SubSeq(c.winds, 1, common)
       \/ j > common /\ j <= Len(c.winds) /\ ws = SubSeq(c.winds, 1, j)

\* The winds when the before thunk of the j-th runs.
Entering(ws, c, common, j) ==
    /\ common \in 0..Len(c.winds) /\ j > common /\ j <= Len(c.winds)
    /\ ws = SubSeq(c.winds, 1, j - 1)

UserState ==
    /\ Coherent(frames, acts, Len(frames), Len(acts), Ctx(winds, handlers), FALSE)
    /\ inside = winds /\ params = winds

\* dynamic-wind between its calls.
DwState ==
    /\ Top.kind = "dw" /\ Top.pc \in {"push", "ret"} /\ Top.wind \in Winds /\ Top.hs = handlers
    /\ Coherent(frames, acts, Len(frames) - 1, Len(acts), Ctx(winds, handlers), FALSE)
    /\ inside = params
    /\ params = IF Top.pc = "push" THEN Append(winds, Top.wind) ELSE winds

\* A thunk called by dynamic-wind, ...
WindThunk ==
    LET d == frames[Len(frames) - 1]
    IN /\ Len(frames) >= 2
       /\ d.kind = "dw" /\ d.wind \in Winds /\ d.hs = handlers
       /\ Top.kind = "before" => d.pc = "push" /\ d.wind = Top.wind /\ params = winds
       /\ Top.kind = "after" => d.pc = "ret" /\ params = Append(winds, Top.wind)
       /\ Coherent(frames, acts, Len(frames) - 2, Len(acts), Ctx(winds, handlers), FALSE)

\* ... by ch_vm_raise, ...
UnwindThunk ==
    /\ Act.kind = "unwind" /\ Act.saved = Len(frames) - 1 /\ Len(acts) > 1
    /\ Top.kind = "after" /\ params = Append(winds, Top.wind)
    /\ \E b : Coherent(frames, acts, Len(frames) - 1, Len(acts) - 1, b, FALSE)

\* ... or by ch_vm_wind_transition.
TransThunk ==
    /\ Act.kind = "trans" /\ Act.saved = Len(frames) - 1 /\ Len(acts) > 1
    /\ Top.kind = "after" => Act.j = Act.common /\ Underway(winds, Act.target, Act.common, Act.j)
    /\ Top.kind = "before" => /\ Entering(winds, Act.target, Act.common, Act.j)
                              /\ Top.wind = Act.target.winds[Act.j]

ThunkState ==
    /\ Top.kind \in Thunks /\ Top.wind \in Winds /\ inside = winds
    /\ WindThunk \/ UnwindThunk \/ TransThunk

RunState == Len(frames) > Act.saved /\ (UserState \/ DwState \/ ThunkState)

\* An activation gets the status of what it called.
NativeArrives ==
    /\ Act.kind \notin {"unwind", "trans"}
    /\ UserState
UnwindArrives ==
    /\ Act.kind = "unwind" /\ Len(acts) > 1 /\ inside = winds /\ params = winds
    /\ \E b : Coherent(frames, acts, Len(frames), Len(acts) - 1, b, FALSE)
TransArrives ==
    /\ Act.kind = "trans" /\ Len(acts) > 1
    /\ \/ Act.j = Act.common /\ Underway(winds, Act.target, Act.common, Act.j) /\ inside = winds
       \/ /\ Entering(winds, Act.target, Act.common, Act.j)
          /\ inside = Append(winds, Act.target.winds[Act.j])

ArriveState ==
    /\ Len(frames) = Act.saved
    /\ NativeArrives \/ UnwindArrives \/ TransArrives

\* The first q activations are the restored continuation's and those its value
\* passes; the others are left.
EscapeState ==
    /\ Len(frames) <= Act.saved
    /\ inside = winds /\ params = winds
    /\ \E q \in 1..Len(acts), sure \in BOOLEAN :
         /\ Coherent(frames, acts, Len(frames), q, Ctx(winds, handlers), sure)
         /\ sure \/ ~invoked
         /\ \A j \in (q + 1)..Len(acts) : acts[j].saved > Len(frames)

Going ==
    /\ mode = "run" => RunState
    /\ mode = "ok" => ArriveState
    /\ mode = "cont" => EscapeState

Machine ==
    /\ Types /\ Levels(acts)
    /\ \A k \in Conts : conts[k].set => GoodCont(conts[k])
    /\ Going

ControlInv ==
    /\ astray \in BOOLEAN /\ mode \in {"run", "ok", "cont", "done", "dead"}
    /\ ~astray => ~torn /\ (mode \in {"run", "ok", "cont"} => Machine)

-----------------------------------------------------------------------------
(* Frames and activations                                                     *)

LEMMA FrameIs ==
  /\ \A hs \in Seq(Handler) : /\ User(hs) \in Frame /\ User(hs).kind = "user"
                              /\ User(hs).hs = hs /\ Waits(User(hs))
  /\ \A k \in Thunks, w \in Winds : handlers \in Seq(Handler) =>
       Thunk(k, w) \in Frame /\ Thunk(k, w).kind = k /\ Thunk(k, w).wind = w
  /\ \A w \in Winds : handlers \in Seq(Handler) =>
       /\ DwFrame(w) \in Frame /\ DwFrame(w).kind = "dw" /\ DwFrame(w).wind = w
       /\ DwFrame(w).pc = "push" /\ DwFrame(w).hs = handlers
  /\ \A f \in Frame, p \in {"push", "pop", "ret"} :
       /\ [f EXCEPT !.pc = p] \in Frame
       /\ [f EXCEPT !.pc = p].kind = f.kind /\ [f EXCEPT !.pc = p].wind = f.wind
       /\ [f EXCEPT !.pc = p].hs = f.hs /\ [f EXCEPT !.pc = p].pc = p
<1>1. \A hs \in Seq(Handler) : /\ User(hs) \in Frame /\ User(hs).kind = "user"
                               /\ User(hs).hs = hs /\ Waits(User(hs))
  <2> TAKE hs \in Seq(Handler)
  <2>1. User(hs) = [kind |-> "user", wind |-> "none", pc |-> "run", hs |-> hs]  BY DEF User
  <2>2. User(hs).kind = "user" /\ User(hs).hs = hs  BY <2>1
  <2>3. User(hs) \in Frame  BY <2>1 DEF Frame
  <2>4. Waits(User(hs))  BY <2>2 DEF Waits
  <2> QED  BY <2>2, <2>3, <2>4
<1>2. \A k \in Thunks, w \in Winds : handlers \in Seq(Handler) =>
        Thunk(k, w) \in Frame /\ Thunk(k, w).kind = k /\ Thunk(k, w).wind = w
  BY DEF Thunk, Thunks, Frame
<1>3. \A w \in Winds : handlers \in Seq(Handler) =>
        /\ DwFrame(w) \in Frame /\ DwFrame(w).kind = "dw" /\ DwFrame(w).wind = w
        /\ DwFrame(w).pc = "push" /\ DwFrame(w).hs = handlers
  BY DEF DwFrame, Frame
<1>4. \A f \in Frame, p \in {"push", "pop", "ret"} :
        /\ [f EXCEPT !.pc = p] \in Frame
        /\ [f EXCEPT !.pc = p].kind = f.kind /\ [f EXCEPT !.pc = p].wind = f.wind
        /\ [f EXCEPT !.pc = p].hs = f.hs /\ [f EXCEPT !.pc = p].pc = p
  BY DEF Frame
<1> QED  BY <1>1, <1>2, <1>3, <1>4

LEMMA NoContIs == NoCont \in Continuation /\ NoCont.set = FALSE
<1>1. \A S : <<>> \in Seq(S)  OBVIOUS
<1> QED  BY <1>1 DEF NoCont, Continuation

\* The activations that are entered.
LEMMA ActivationShape ==
  ASSUME NEW k \in ActKinds, NEW fr \in Seq(Frame), fuel \in Nat
  PROVE  \E i \in ActKinds \X Nat \X Nat, h \in Handler, n \in Nat :
           /\ n = Len(fr)
           /\ Activation(k, fr) = [kind |-> k, saved |-> n, id |-> i, eh |-> h, cont |-> FALSE,
                                   hb |-> 0, target |-> NoCont, common |-> 0, j |-> 0]
<1>1. [id |-> 0, wc |-> 0] \in Handler /\ Len(fr) \in Nat  BY DEF Handler
<1>2. <<k, fuel, Len(fr)>> \in ActKinds \X Nat \X Nat  BY <1>1
<1>3. Activation(k, fr) =
        [kind |-> k, saved |-> Len(fr), id |-> <<k, fuel, Len(fr)>>, eh |-> [id |-> 0, wc |-> 0],
         cont |-> FALSE, hb |-> 0, target |-> NoCont, common |-> 0, j |-> 0]
  BY DEF Activation
<1> QED  BY <1>1, <1>2, <1>3

LEMMA PlainActivation ==
  ASSUME NEW k \in {"handler", "callcc", "raise", "unwind"}, NEW fr \in Seq(Frame), fuel \in Nat
  PROVE  /\ Activation(k, fr) \in Plain
         /\ Activation(k, fr).kind = k /\ Activation(k, fr).saved = Len(fr)
<1> DEFINE b == Activation(k, fr)
<1>1. k \in ActKinds \ {"trans"}  BY DEF ActKinds
<1>2. PICK i \in ActKinds \X Nat \X Nat, h \in Handler, n \in Nat :
        n = Len(fr) /\ b = [kind |-> k, saved |-> n, id |-> i, eh |-> h, cont |-> FALSE, hb |-> 0,
                            target |-> NoCont, common |-> 0, j |-> 0]
  BY <1>1, ActivationShape
<1> HIDE DEF b
<1>3. b \in Plain /\ b.kind = k /\ b.saved = n  BY <1>1, <1>2 DEF Plain
<1> QED  BY <1>2, <1>3 DEF b

\* An activation for the handler eh that ch_vm_raise is to call, ...
LEMMA UnwindActivation ==
  ASSUME NEW fr \in Seq(Frame), fuel \in Nat, NEW eh \in Handler
  PROVE  /\ [Activation("unwind", fr) EXCEPT !.eh = eh] \in Plain
         /\ [Activation("unwind", fr) EXCEPT !.eh = eh].kind = "unwind"
         /\ [Activation("unwind", fr) EXCEPT !.eh = eh].saved = Len(fr)
<1> DEFINE b == Activation("unwind", fr)
<1>1. "unwind" \in ActKinds \ {"trans"}  BY DEF ActKinds
<1>2. PICK i \in ActKinds \X Nat \X Nat, h \in Handler, n \in Nat :
        /\ n = Len(fr)
        /\ b = [kind |-> "unwind", saved |-> n, id |-> i, eh |-> h, cont |-> FALSE, hb |-> 0,
                target |-> NoCont, common |-> 0, j |-> 0]
  BY <1>1, ActivationShape
<1> HIDE DEF b
<1>3. /\ [b EXCEPT !.eh = eh] \in Plain /\ [b EXCEPT !.eh = eh].kind = "unwind"
      /\ [b EXCEPT !.eh = eh].saved = n
  BY <1>1, <1>2 DEF Plain
<1> QED  BY <1>2, <1>3 DEF b

\* ... and that it calls.
RaiseAct(fr, eh, cont, hb) ==
    [Activation("raise", fr) EXCEPT !.eh = eh, !.cont = cont, !.hb = hb]

LEMMA RaiseActivation ==
  ASSUME NEW fr \in Seq(Frame), fuel \in Nat, NEW eh \in Handler, NEW cont \in BOOLEAN,
         NEW hb \in Nat, NEW a, a = RaiseAct(fr, eh, cont, hb)
  PROVE  a \in Plain /\ a.kind = "raise" /\ a.saved = Len(fr) /\ a.cont = cont /\ a.hb = hb
<1> DEFINE b == Activation("raise", fr)
<1>1. "raise" \in ActKinds \ {"trans"}  BY DEF ActKinds
<1>2. PICK i \in ActKinds \X Nat \X Nat, h \in Handler, n \in Nat :
        /\ n = Len(fr)
        /\ b = [kind |-> "raise", saved |-> n, id |-> i, eh |-> h, cont |-> FALSE, hb |-> 0,
                target |-> NoCont, common |-> 0, j |-> 0]
  BY <1>1, ActivationShape
<1>3. a = [b EXCEPT !.eh = eh, !.cont = cont, !.hb = hb]  BY DEF RaiseAct
<1> HIDE DEF b
<1>4. LET e == [b EXCEPT !.eh = eh, !.cont = cont, !.hb = hb]
      IN e \in Plain /\ e.kind = "raise" /\ e.saved = n /\ e.cont = cont /\ e.hb = hb
  BY ONLY <1>1, <1>2, eh \in Handler, cont \in BOOLEAN, hb \in Nat DEF Plain
<1> QED  BY <1>2, <1>3, <1>4

\* An activation of ch_vm_wind_transition.
TransAct(fr, c, common, j) ==
    [Activation("trans", fr) EXCEPT !.target = c, !.common = common, !.j = j]

LEMMA MovingActivation ==
  ASSUME NEW fr \in Seq(Frame), fuel \in Nat,
         NEW c \in Continuation, NEW common \in Nat, NEW j \in Nat,
         NEW a, a = TransAct(fr, c, common, j)
  PROVE  /\ a \in Moving /\ a.kind = "trans" /\ a.saved = Len(fr)
         /\ a.target = c /\ a.common = common /\ a.j = j
<1> DEFINE b == Activation("trans", fr)
<1>1. "trans" \in ActKinds  BY DEF ActKinds
<1>2. PICK i \in ActKinds \X Nat \X Nat, h \in Handler, n \in Nat :
        /\ n = Len(fr)
        /\ b = [kind |-> "trans", saved |-> n, id |-> i, eh |-> h, cont |-> FALSE, hb |-> 0,
                target |-> NoCont, common |-> 0, j |-> 0]
  BY <1>1, ActivationShape
<1>3. a = [b EXCEPT !.target = c, !.common = common, !.j = j]  BY DEF TransAct
<1> HIDE DEF b
<1>4. LET e == [b EXCEPT !.target = c, !.common = common, !.j = j]
      IN /\ e \in Moving /\ e.kind = "trans" /\ e.saved = n
         /\ e.target = c /\ e.common = common /\ e.j = j
  BY ONLY <1>2, c \in Continuation, common \in Nat, j \in Nat DEF Moving
<1> QED  BY <1>2, <1>3, <1>4

LEMMA ActIs ==
  ASSUME NEW a \in AnyAct
  PROVE  /\ a.saved \in Nat /\ a.kind \in ActKinds /\ a.cont \in BOOLEAN /\ a.eh \in Handler
         /\ a.common \in Nat /\ a.j \in Nat
         /\ a.kind # "trans" => a \in Plain
         /\ a.target \in Continuation
<1>1. CASE a \in Plain  BY <1>1, NoContIs DEF Plain, ActKinds
<1>2. CASE a \in Moving  BY <1>2 DEF Moving, ActKinds
<1> QED  BY <1>1, <1>2 DEF AnyAct

LEMMA SomePlace == \A n \in Nat \ {0} : n = 1 \/ (n > 1 /\ n \in 2..n)
OBVIOUS

LEMMA LevelFacts ==
  ASSUME NEW st \in Seq(AnyAct), Levels(st)
  PROVE  /\ Len(st) \in Nat \ {0} /\ Last(st) = st[Len(st)] /\ Last(st) \in AnyAct
         /\ Last(st).saved \in Nat /\ Len(st) \in 1..Len(st) /\ 1 \in 1..Len(st)
         /\ \A j \in 1..Len(st) : st[j] \in AnyAct /\ st[j].saved \in 0..Last(st).saved
         /\ Last(st).kind = "main" <=> Len(st) = 1
         /\ Last(st).kind # "main" => Len(st) > 1
         /\ Last(st).kind = "trans" => GoodCont(Last(st).target)
<1>1. st \in Seq(AnyAct) /\ Len(st) \in Nat \ {0} /\ Len(st) \in 1..Len(st) /\ 1 \in 1..Len(st)
  BY DEF Levels
<1>2. \A j \in 1..Len(st) : st[j] \in AnyAct  BY <1>1
<1>3. Last(st) = st[Len(st)]  BY DEF Last
<1>4. \A j \in 1..Len(st) : st[j].saved \in Nat  BY <1>2, ActIs
<1>5. \A j \in 1..Len(st) : j <= Len(st)  BY <1>1
<1>6. \A j \in 1..Len(st) : st[j].saved <= st[Len(st)].saved  BY <1>1, <1>5 DEF Levels
<1>7. \A j \in 1..Len(st) : st[j].saved \in 0..st[Len(st)].saved
  <2> TAKE j \in 1..Len(st)
  <2>1. st[j].saved \in Nat /\ st[Len(st)].saved \in Nat /\ st[j].saved <= st[Len(st)].saved
    BY <1>1, <1>4, <1>6
  <2> QED  BY <2>1
<1>8. \A n \in Nat \ {0} : n = 1 \/ (n > 1 /\ n \in 2..n)  BY SomePlace
<1>9. PICK n \in Nat \ {0} : n = Len(st)  BY <1>1
<1>10. st[n].kind = "main" <=> n = 1  BY <1>8, <1>9 DEF Levels
<1>11. st[Len(st)].kind = "trans" => GoodCont(st[Len(st)].target)  BY <1>1 DEF Levels
<1> QED  BY <1>1, <1>2, <1>3, <1>4, <1>7, <1>8, <1>9, <1>10, <1>11

LEMMA LevelsFront ==
  ASSUME NEW st \in Seq(AnyAct), Levels(st), Len(st) > 1
  PROVE  /\ Levels(Front(st)) /\ Len(Front(st)) = Len(st) - 1 /\ Len(Front(st)) \in Nat \ {0}
         /\ \A j \in 1..(Len(st) - 1) : Front(st)[j] = st[j]
         /\ Last(Front(st)).saved <= Last(st).saved
<1>1. st \in Seq(AnyAct) /\ Len(st) \in Nat  BY DEF Levels
<1>2. /\ Front(st) \in Seq(AnyAct) /\ Len(Front(st)) = Len(st) - 1
      /\ \A j \in 1..(Len(st) - 1) : Front(st)[j] = st[j]
  BY <1>1, Fronts DEF Levels
<1> DEFINE bs == Front(st)
<1> HIDE DEF bs
<1>3. bs \in Seq(AnyAct) /\ Len(bs) = Len(st) - 1 /\ \A j \in 1..Len(bs) : bs[j] = st[j]
  BY <1>2 DEF bs
<1>4. Len(bs) \in Nat \ {0} /\ 1 \in 1..Len(bs) /\ \A j \in 1..Len(bs) : j \in 1..Len(st)
  BY <1>1, <1>3
<1>5. \A j \in 2..Len(bs) : j \in 1..Len(bs) /\ j \in 2..Len(st)  BY <1>1, <1>3
<1>6. /\ bs[1].kind = "main" /\ bs[1].saved = 0
      /\ \A j \in 2..Len(bs) : bs[j].kind # "main"
  BY <1>3, <1>4, <1>5 DEF Levels
<1>7. /\ \A i, j \in 1..Len(bs) : i <= j => bs[i].saved <= bs[j].saved
      /\ \A j \in 1..Len(bs) : bs[j].kind = "trans" => GoodCont(bs[j].target)
  BY <1>3, <1>4 DEF Levels
<1>8. Levels(bs)  BY <1>3, <1>4, <1>6, <1>7 DEF Levels
<1>9. Last(bs) = st[Len(bs)] /\ Len(bs) \in 1..Len(st) /\ Last(st) = st[Len(st)]
      /\ Len(st) \in 1..Len(st) /\ Len(bs) <= Len(st)
  BY <1>1, <1>3, <1>4 DEF Last
<1>10. Last(bs).saved <= Last(st).saved  BY <1>9 DEF Levels
<1> QED  BY <1>2, <1>4, <1>8, <1>10 DEF bs

LEMMA LevelsAppend ==
  ASSUME NEW st \in Seq(AnyAct), Levels(st), NEW a \in AnyAct, a.kind # "main", a.saved >= Last(st).saved,
         a.kind = "trans" => GoodCont(a.target)
  PROVE  /\ Levels(Append(st, a)) /\ Len(Append(st, a)) = Len(st) + 1 /\ Last(Append(st, a)) = a
         /\ \A j \in 1..Len(st) : Append(st, a)[j] = st[j]
         /\ Append(st, a)[Len(st) + 1] = a
<1>1. st \in Seq(AnyAct) /\ Len(st) \in Nat \ {0}  BY DEF Levels
<1> DEFINE bs == Append(st, a)
<1>2. /\ bs \in Seq(AnyAct) /\ Len(bs) = Len(st) + 1 /\ Last(bs) = a
      /\ \A j \in 1..Len(st) : bs[j] = st[j]
      /\ bs[Len(st) + 1] = a
  BY <1>1, Appends
<1> HIDE DEF bs
<1>3. /\ \A j \in 1..Len(bs) : j \in 1..Len(st) \/ j = Len(st) + 1
      /\ \A j \in 2..Len(bs) : (j \in 2..Len(st) /\ j \in 1..Len(st)) \/ j = Len(st) + 1
      /\ Len(bs) >= 1 /\ 1 \in 1..Len(st)
  BY <1>1, <1>2
<1>4. bs[1].kind = "main" /\ bs[1].saved = 0  BY <1>2, <1>3 DEF Levels
<1>5. \A j \in 2..Len(bs) : bs[j].kind # "main"  BY <1>2, <1>3 DEF Levels
<1>6. \A i, j \in 1..Len(bs) : i <= j => bs[i].saved <= bs[j].saved
  <2> SUFFICES ASSUME NEW i \in 1..Len(bs), NEW j \in 1..Len(bs), i <= j
               PROVE  bs[i].saved <= bs[j].saved
    OBVIOUS
  <2>1. CASE j \in 1..Len(st)
    <3>1. i \in 1..Len(st)  BY <2>1, <1>1, <1>3
    <3> QED  BY <3>1, <2>1, <1>2 DEF Levels
  <2>2. CASE j = Len(st) + 1 /\ i \in 1..Len(st)
    <3>1. st[i].saved \in 0..Last(st).saved /\ Last(st).saved \in Nat  BY <2>2, LevelFacts
    <3>2. a.saved \in Nat  BY ActIs
    <3>3. st[i].saved <= a.saved  BY <3>1, <3>2
    <3> QED  BY <3>3, <2>2, <1>2
  <2>3. CASE j = Len(st) + 1 /\ i = Len(st) + 1
    <3>1. a.saved \in Nat  BY ActIs
    <3> QED  BY <3>1, <2>3, <1>2
  <2> QED  BY <2>1, <2>2, <2>3, <1>3
<1>7. \A j \in 1..Len(bs) : bs[j].kind = "trans" => GoodCont(bs[j].target)
  BY <1>2, <1>3 DEF Levels
<1>8. Levels(bs)  BY <1>2, <1>3, <1>4, <1>5, <1>6, <1>7 DEF Levels
<1> QED  BY <1>2, <1>8 DEF bs

-----------------------------------------------------------------------------
(* What the machine does next                                                 *)

\* The activations of a stack that goes on are not in the middle of anything.
LEMMA CoherentTop ==
  ASSUME NEW st \in Seq(AnyAct), Levels(st), NEW fr, NEW n, NEW c, NEW sure,
         Coherent(fr, st, n, Len(st), c, sure)
  PROVE  /\ n \in Nat /\ c \in Context /\ Last(st).saved <= n /\ n >= Last(st).saved
         /\ ~(n > Last(st).saved) => n = Last(st).saved
         /\ Last(st).kind \in {"main", "handler", "callcc", "raise"}
         /\ st \in Seq(Plain)
         /\ \A i \in 1..n : Waits(fr[i])
<1>1. /\ n \in Nat /\ c \in Context /\ st[1].kind = "main"
      /\ \A j \in 1..Len(st) : st[j].saved \in 0..n
      /\ \A j \in 2..Len(st) : st[j].kind \in {"handler", "callcc", "raise"}
      /\ \A i \in 1..n : Waits(fr[i])
  BY CoherentFacts
<1>2. /\ Len(st) \in 1..Len(st) /\ Last(st) = st[Len(st)]
      /\ \A j \in 1..Len(st) : st[j] \in AnyAct
  BY LevelFacts
<1>3. st[Len(st)].saved \in 0..n  BY <1>1, <1>2
<1>4. \A s \in 0..n : s <= n /\ n >= s /\ (~(n > s) => n = s)  BY <1>1
<1>5. \A j \in 1..Len(st) : st[j].kind \in {"main", "handler", "callcc", "raise"}
  <2> TAKE j \in 1..Len(st)
  <2>1. j = 1 \/ j \in 2..Len(st)  OBVIOUS
  <2> QED  BY <2>1, <1>1
<1>6. \A j \in 1..Len(st) : st[j] \in Plain  BY <1>2, <1>5, ActIs
<1>7. st \in Seq(Plain)  BY <1>6
<1> QED  BY <1>1, <1>2, <1>3, <1>4, <1>5, <1>7

\* A place of a stack that goes on takes a value or the pass of a continuation.
LEMMA Goes ==
  ASSUME acts' \in Seq(AnyAct), Levels(acts)', NEW q \in 1..Len(acts'), NEW sure \in BOOLEAN,
         Coherent(frames', acts', Len(frames'), q, Ctx(winds', handlers'), sure),
         \A j \in (q + 1)..Len(acts') : acts'[j].saved > Len(frames'),
         inside' = winds', params' = winds',
         NEW s \in {"ok", "cont"}, mode' = Settle(frames', acts', s),
         s = "ok" => q = Len(acts'), s = "cont" => sure \/ ~invoked'
  PROVE  Going'
<1>1. /\ Len(acts') \in Nat \ {0} /\ Last(acts') = acts'[Len(acts')] /\ Last(acts').saved \in Nat
      /\ Act' = Last(acts')
  BY LevelFacts DEF Act
<1>2. Len(frames') \in Nat  BY CoherentFacts
<1>3. q = Len(acts') => UserState' /\ Len(frames') >= Act'.saved
                        /\ Act'.kind \notin {"unwind", "trans"}
                        /\ (~(Len(frames') > Act'.saved) => Len(frames') = Act'.saved)
  <2> SUFFICES ASSUME q = Len(acts')
               PROVE  UserState' /\ Len(frames') >= Act'.saved
                      /\ Act'.kind \notin {"unwind", "trans"}
                      /\ (~(Len(frames') > Act'.saved) => Len(frames') = Act'.saved)
    OBVIOUS
  <2>1. Coherent(frames', acts', Len(frames'), Len(acts'), Ctx(winds', handlers'), FALSE)
    <3>1. CASE sure = TRUE  BY <3>1, CoherentLess
    <3>2. CASE sure = FALSE  BY <3>2
    <3> QED  BY <3>1, <3>2
  <2>2. /\ Len(frames') >= Last(acts').saved
        /\ ~(Len(frames') > Last(acts').saved) => Len(frames') = Last(acts').saved
        /\ Last(acts').kind \in {"main", "handler", "callcc", "raise"}
    BY <2>1, CoherentTop
  <2>3. UserState'  BY <2>1 DEF UserState
  <2> QED  BY <2>2, <2>3, <1>1
<1>4. CASE Len(frames') > Last(acts').saved
  <2>1. mode' = "run"  BY <1>4 DEF Settle
  <2>2. q = Len(acts')
    <3>1. SUFFICES ASSUME q # Len(acts') PROVE FALSE  OBVIOUS
    <3>2. Len(acts') \in (q + 1)..Len(acts')  BY <3>1, <1>1
    <3>3. Last(acts').saved > Len(frames')  BY <3>2, <1>1
    <3> QED  BY <3>3, <1>1, <1>2, <1>4
  <2> QED  BY <2>1, <2>2, <1>1, <1>3, <1>4 DEF Going, RunState
<1>5. CASE ~(Len(frames') > Last(acts').saved)
  <2>1. mode' = s  BY <1>5 DEF Settle
  <2>2. CASE s = "ok"
    <3>1. ArriveState'  BY <2>2, <1>1, <1>3, <1>5 DEF ArriveState, NativeArrives
    <3> QED  BY <3>1, <2>1, <2>2 DEF Going
  <2>3. CASE s = "cont"
    <3>1. Len(frames') <= Act'.saved  BY <1>1, <1>2, <1>5
    <3>2. EscapeState'  BY <3>1, <2>3 DEF EscapeState
    <3> QED  BY <3>2, <2>1, <2>3 DEF Going
  <2> QED  BY <2>2, <2>3
<1> QED  BY <1>4, <1>5

LEMMA RunFacts ==
  ASSUME Machine, mode = "run"
  PROVE  /\ Types /\ acts \in Seq(AnyAct) /\ Levels(acts) /\ Act = Last(acts)
         /\ frames \in Seq(Frame) /\ Len(frames) \in Nat \ {0} /\ Len(frames) >= 1 /\ Top \in Frame
         /\ Top = frames[Len(frames)] /\ Top = Last(frames)
         /\ Len(frames) > Last(acts).saved /\ Last(acts).saved \in Nat
         /\ Top.kind = "user" => UserState
         /\ Top.kind = "dw" /\ Top.pc = "pop" => UserState
         /\ Top.kind = "dw" /\ Top.pc # "pop" => DwState
         /\ Top.kind \in Thunks => ThunkState
<1>1. Types /\ Levels(acts) /\ RunState  BY DEF Machine, Going
<1>2. frames \in Seq(Frame) /\ Len(frames) \in Nat  BY <1>1 DEF Types
<1>3. acts \in Seq(AnyAct) /\ Act = Last(acts)  BY <1>1 DEF Levels, Act
<1>4. Last(acts).saved \in Nat  BY <1>1, <1>3, LevelFacts
<1>5. Len(frames) > Last(acts).saved  BY <1>1, <1>3 DEF RunState
<1>6. Len(frames) \in Nat \ {0} /\ Len(frames) >= 1 /\ Len(frames) \in 1..Len(frames)
  BY <1>2, <1>4, <1>5
<1>7. Top = frames[Len(frames)] /\ Top = Last(frames) /\ Top \in Frame  BY <1>2, <1>6 DEF Top, Last
<1>8. UserState => Waits(Top)
  <2>1. SUFFICES ASSUME UserState PROVE Waits(Top)  OBVIOUS
  <2>2. Coherent(frames, acts, Len(frames), Len(acts), Ctx(winds, handlers), FALSE)
    BY <2>1 DEF UserState
  <2>3. \A i \in 1..Len(frames) : Waits(frames[i])  BY <2>2, CoherentFacts
  <2> QED  BY <2>3, <1>6, <1>7
<1>9. Top.kind \in {"user", "dw", "before", "after"}  BY <1>7 DEF Frame
<1>10. UserState \/ DwState \/ ThunkState  BY <1>1 DEF RunState
<1>11. UserState => Top.kind = "user" \/ (Top.kind = "dw" /\ Top.pc = "pop")  BY <1>8 DEF Waits
<1>12. DwState => Top.kind = "dw" /\ Top.pc # "pop"  BY DEF DwState
<1>13. ThunkState => Top.kind \in Thunks  BY DEF ThunkState
<1> QED  BY <1>1, <1>2, <1>3, <1>4, <1>5, <1>6, <1>7, <1>9, <1>10, <1>11, <1>12, <1>13 DEF Thunks

LEMMA CtxIs ==
  ASSUME NEW c \in Context
  PROVE  /\ c.w \in Seq(Winds) /\ c.h \in Seq(Handler) /\ c = Ctx(c.w, c.h)
         /\ \A b \in Context : c.w = b.w /\ c.h = b.h => c = b
BY DEF Context, Ctx

LEMMA CtxOf ==
  \A ws \in Seq(Winds), hs \in Seq(Handler) :
    Ctx(ws, hs) \in Context /\ Ctx(ws, hs).w = ws /\ Ctx(ws, hs).h = hs
BY DEF Context, Ctx

\* User code and what it returns to.
LEMMA UserFacts ==
  ASSUME Machine, Running({"user"})
  PROVE  /\ mode = "run" /\ UserState /\ Top.hs = handlers /\ acts \in Seq(Plain)
         /\ Front(frames) \in Seq(Frame) /\ Len(Front(frames)) = Len(frames) - 1
         /\ Coherent(Front(frames), acts, Len(frames) - 1, Len(acts), Ctx(winds, handlers), FALSE)
         /\ \A tail \in BOOLEAN :
              /\ Caller(tail) \in Seq(Frame) /\ Len(Caller(tail)) \in Nat
              /\ Coherent(Caller(tail), acts, Len(Caller(tail)), Len(acts),
                          Ctx(winds, handlers), FALSE)
<1> DEFINE c == Ctx(winds, handlers)
<1>1. mode = "run" /\ Top.kind = "user"  BY DEF Running
<1>2. /\ UserState /\ acts \in Seq(AnyAct) /\ Levels(acts) /\ Len(frames) > Last(acts).saved
      /\ frames \in Seq(Frame) /\ Len(frames) >= 1 /\ Top = frames[Len(frames)]
      /\ winds \in Seq(Winds) /\ handlers \in Seq(Handler)
  BY <1>1, RunFacts DEF Types
<1>3. Coherent(frames, acts, Len(frames), Len(acts), c, FALSE)  BY <1>2 DEF UserState
<1>4. Len(frames) > acts[Len(acts)].saved  BY <1>2, LevelFacts
<1>5. PICK b \in Context : /\ Coherent(frames, acts, Len(frames) - 1, Len(acts), b, FALSE)
                           /\ FrameLink(Top, c, b)
  BY <1>2, <1>3, <1>4, PopFrame
<1>6. c \in Context /\ c.w = winds /\ c.h = handlers  BY <1>2, CtxOf
<1> HIDE DEF c
<1>7. c.w = b.w /\ c.h = b.h /\ Top.hs = c.h  BY <1>1, <1>5 DEF FrameLink
<1>8. c = b  BY <1>5, <1>6, <1>7, CtxIs
<1>9. /\ Front(frames) \in Seq(Frame) /\ Len(Front(frames)) = Len(frames) - 1
      /\ \A i \in 1..(Len(frames) - 1) : Front(frames)[i] = frames[i]
  BY <1>2, Fronts
<1>10. Coherent(Front(frames), acts, Len(frames) - 1, Len(acts), c, FALSE)
  BY <1>5, <1>8, <1>9, CoherentSame
<1>11. \A tail \in BOOLEAN : /\ Caller(tail) \in Seq(Frame) /\ Len(Caller(tail)) \in Nat
                             /\ Coherent(Caller(tail), acts, Len(Caller(tail)), Len(acts), c, FALSE)
  <2> TAKE tail \in BOOLEAN
  <2>1. CASE tail = TRUE
    <3>1. Caller(tail) = Front(frames)  BY <2>1 DEF Caller
    <3>2. Len(Front(frames)) \in Nat  BY <1>9
    <3> QED  BY <3>1, <3>2, <1>9, <1>10
  <2>2. CASE tail = FALSE
    <3>1. Caller(tail) = frames  BY <2>2 DEF Caller
    <3>2. Len(frames) \in Nat  BY <1>2
    <3> QED  BY <3>1, <3>2, <1>2, <1>3
  <2> QED  BY <2>1, <2>2
<1>12. acts \in Seq(Plain)  BY <1>2, <1>3, CoherentTop
<1> QED  BY <1>1, <1>2, <1>6, <1>7, <1>9, <1>10, <1>11, <1>12 DEF c

LEMMA MachineNext ==
  ASSUME Machine, UNCHANGED conts, Types', Levels(acts)', Going'
  PROVE  Machine'
BY DEF Machine

LEMMA ReturnStep ==
  ASSUME Machine, Return
  PROVE  torn' = torn /\ Machine'
<1>1. /\ frames' = Front(frames) /\ mode' = Settle(frames', acts, "ok")
      /\ acts' = acts /\ winds' = winds /\ handlers' = handlers /\ params' = params
      /\ conts' = conts /\ invoked' = invoked /\ fuel' = fuel /\ inside' = inside /\ torn' = torn
  BY DEF Return, stacks, ghosts
<1>2. mode = "run"  BY DEF Return, Running
<1>3. /\ Types /\ acts \in Seq(AnyAct) /\ Levels(acts) /\ frames \in Seq(Frame) /\ Len(frames) >= 1
      /\ Len(frames) \in Nat
  BY <1>2, RunFacts
<1>4. /\ Front(frames) \in Seq(Frame) /\ Len(Front(frames)) = Len(frames) - 1
      /\ \A i \in 1..(Len(frames) - 1) : Front(frames)[i] = frames[i]
  BY <1>3, Fronts
<1>5. /\ Coherent(frames', acts', Len(frames'), Len(acts'), Ctx(winds', handlers'), FALSE)
      /\ inside = winds /\ params = winds
  <2>1. CASE Running({"user"})
    <3>1. /\ Coherent(Front(frames), acts, Len(frames) - 1, Len(acts), Ctx(winds, handlers), FALSE)
          /\ UserState
      BY <2>1, UserFacts
    <3> QED  BY <3>1, <1>1, <1>4 DEF UserState
  <2>2. CASE Running({"dw"}) /\ Top.pc = "ret"
    <3>1. DwState  BY <2>2, RunFacts DEF Running
    <3>2. Coherent(frames, acts, Len(frames) - 1, Len(acts), Ctx(winds, handlers), FALSE)
      BY <3>1 DEF DwState
    <3>3. Coherent(Front(frames), acts, Len(frames) - 1, Len(acts), Ctx(winds, handlers), FALSE)
      BY <3>2, <1>4, CoherentSame
    <3>4. inside = params /\ params = winds  BY <3>1, <2>2 DEF DwState
    <3> QED  BY <3>3, <3>4, <1>1, <1>4
  <2> QED  BY <2>1, <2>2 DEF Return
<1>6. Types'  BY <1>1, <1>3, <1>4 DEF Types
<1>7. Levels(acts)' /\ acts' \in Seq(AnyAct)  BY <1>1, <1>3
<1>8. Len(acts') \in 1..Len(acts') /\ \A j \in (Len(acts') + 1)..Len(acts') :
        acts'[j].saved > Len(frames')
  BY <1>7, LevelFacts
<1>9. Going'
  <2>1. mode' = Settle(frames', acts', "ok") /\ inside' = winds' /\ params' = winds'  BY <1>1, <1>5
  <2> QED  BY <2>1, <1>5, <1>7, <1>8, Goes
<1> QED  BY <1>1, <1>6, <1>7, <1>9, MachineNext

LEMMA DynamicWindStep ==
  ASSUME Machine, NEW w \in Winds, DynamicWind(w)
  PROVE  torn' = torn /\ Machine'
<1> DEFINE d == DwFrame(w)   t == Thunk("before", w)   n == Len(frames)
<1>1. /\ frames' = frames \o <<d, t>> /\ acts' = acts /\ winds' = winds
      /\ handlers' = handlers /\ params' = params /\ conts' = conts /\ mode' = mode
      /\ invoked' = FALSE /\ inside' = inside /\ torn' = torn /\ fuel' = fuel - 1 /\ fuel > 0
  BY DEF DynamicWind, stacks, ghosts, Spend
<1>2. Running({"user"})  BY DEF DynamicWind
<1>3. mode = "run" /\ UserState  BY <1>2, UserFacts
<1>4. /\ Types /\ acts \in Seq(AnyAct) /\ Levels(acts) /\ frames \in Seq(Frame)
      /\ n > Last(acts).saved /\ Last(acts).saved \in Nat /\ Act = Last(acts)
  BY <1>3, RunFacts
<1>5. /\ d \in Frame /\ d.kind = "dw" /\ d.wind = w /\ d.pc = "push" /\ d.hs = handlers
      /\ t \in Frame /\ t.kind = "before" /\ t.wind = w
  <2>1. handlers \in Seq(Handler) /\ "before" \in Thunks  BY <1>4 DEF Types, Thunks
  <2> QED  BY <2>1, FrameIs
<1> HIDE DEF d, t
<1>6. /\ frames' \in Seq(Frame) /\ Len(frames') = n + 2 /\ n \in Nat
      /\ \A i \in 1..n : frames'[i] = frames[i]
      /\ frames'[n + 1] = d /\ frames'[n + 2] = t
  BY <1>1, <1>4, <1>5, AppendTwo
<1> HIDE DEF n
<1>7. Top' = t /\ frames'[Len(frames') - 1] = d  BY <1>6 DEF Top, Last
<1>8. Coherent(frames', acts', Len(frames') - 2, Len(acts'), Ctx(winds', handlers'), FALSE)
  <2>1. Coherent(frames, acts, n, Len(acts), Ctx(winds, handlers), FALSE)
    BY <1>3 DEF UserState, n
  <2>2. Coherent(frames', acts, n, Len(acts), Ctx(winds, handlers), FALSE)
    BY <2>1, <1>6, CoherentSame
  <2>3. Len(frames') - 2 = n  BY <1>6
  <2> QED  BY <2>2, <2>3, <1>1
<1>9. inside = winds /\ params = winds  BY <1>3 DEF UserState
<1>10. WindThunk'
  <2>1. Len(frames') >= 2  BY <1>6
  <2>2. d.hs = handlers' /\ params' = winds'  BY <1>1, <1>5, <1>9
  <2> QED  BY <2>1, <2>2, <1>5, <1>7, <1>8 DEF WindThunk
<1>11. ThunkState'  BY <1>1, <1>5, <1>7, <1>9, <1>10 DEF ThunkState, Thunks
<1>12. Len(frames') > Act'.saved  BY <1>1, <1>4, <1>6 DEF Act
<1>13. Going'  BY <1>1, <1>3, <1>11, <1>12 DEF Going, RunState
<1>14. Types'
  <2>1. fuel - 1 \in Nat  BY <1>1, <1>4 DEF Types
  <2> QED  BY <2>1, <1>1, <1>4, <1>6 DEF Types
<1>15. Levels(acts)'  BY <1>1, <1>4
<1> QED  BY <1>1, <1>13, <1>14, <1>15, MachineNext

LEMMA DwEnterStep ==
  ASSUME Machine, DwEnter
  PROVE  torn' = torn /\ Machine'
<1> DEFINE d == [Top EXCEPT !.pc = "pop"]   u == User(Top.hs)   n == Len(frames) - 1
           c == Ctx(Append(winds, Top.wind), handlers)
<1>1. /\ frames' = Append(Front(frames), d) \o <<u>> /\ acts' = acts
      /\ winds' = Append(winds, Top.wind) /\ handlers' = handlers /\ params' = params
      /\ conts' = conts /\ mode' = mode /\ invoked' = FALSE /\ inside' = inside /\ torn' = torn
      /\ fuel' = fuel
  BY DEF DwEnter, ghosts
<1>2. mode = "run" /\ Top.kind = "dw" /\ Top.pc = "push"  BY DEF DwEnter, Running
<1>3. /\ Types /\ acts \in Seq(AnyAct) /\ Levels(acts) /\ frames \in Seq(Frame) /\ Len(frames) >= 1
      /\ Len(frames) > Last(acts).saved /\ Last(acts).saved \in Nat /\ Act = Last(acts)
      /\ DwState /\ Top \in Frame
  BY <1>2, RunFacts
<1>4. /\ Top.wind \in Winds /\ Top.hs = handlers /\ inside = params
      /\ params = Append(winds, Top.wind)
      /\ Coherent(frames, acts, n, Len(acts), Ctx(winds, handlers), FALSE)
  BY <1>2, <1>3 DEF DwState
<1>5. handlers \in Seq(Handler) /\ winds \in Seq(Winds)  BY <1>3 DEF Types
<1>6. Append(winds, Top.wind) \in Seq(Winds)  BY <1>4, <1>5, Appends
<1>7. /\ d \in Frame /\ d.kind = "dw" /\ d.wind = Top.wind /\ d.hs = handlers /\ d.pc = "pop"
      /\ u \in Frame /\ u.kind = "user" /\ u.hs = handlers /\ Waits(u)
  BY <1>2, <1>3, <1>4, <1>5, FrameIs
<1>8. Waits(d)  BY <1>4, <1>7 DEF Waits
<1>9. /\ c \in Context /\ c.w = Append(winds, Top.wind) /\ c.h = handlers
      /\ Ctx(winds, handlers).w = winds /\ Ctx(winds, handlers).h = handlers
  <2>1. c \in Context /\ c.w = Append(winds, Top.wind) /\ c.h = handlers  BY <1>5, <1>6, CtxOf
  <2> QED  BY <2>1, <1>5, CtxOf
<1> HIDE DEF d, u
<1>10. /\ Front(frames) \in Seq(Frame) /\ Len(Front(frames)) = n /\ n \in Nat
       /\ \A i \in 1..n : Front(frames)[i] = frames[i]
  BY <1>3, Fronts
<1>11. /\ frames' \in Seq(Frame) /\ Len(frames') = n + 2
       /\ \A i \in 1..n : frames'[i] = Front(frames)[i]
       /\ frames'[n + 1] = d /\ frames'[n + 2] = u
  <2> DEFINE s == Front(frames)
  <2> HIDE DEF s
  <2>1. frames' = Append(s, d) \o <<u>>  BY <1>1 DEF s
  <2>2. s \in Seq(Frame) /\ Len(s) = n  BY <1>10 DEF s
  <2>3. d \in Frame /\ u \in Frame  BY <1>7
  <2>4. frames' = s \o <<d, u>>  BY <2>1, <2>2, <2>3, AppendTwo, SMTT(30)
  <2> QED  BY <2>2, <2>3, <2>4, AppendTwo DEF s
<1> HIDE DEF n, c
<1>12. FrameLink(d, c, Ctx(winds, handlers)) /\ FrameLink(u, c, c)
  BY <1>7, <1>9 DEF FrameLink
<1>13. Coherent(frames', acts, n + 1, Len(acts), c, FALSE)
  <2>1. \A i \in 1..n : frames'[i] = frames[i]  BY <1>10, <1>11
  <2> QED  BY <2>1, <1>4, <1>8, <1>9, <1>11, <1>12, PushFrame
<1>14. Coherent(frames', acts, Len(frames'), Len(acts), c, FALSE)
  <2>1. (n + 1) + 1 = n + 2  BY <1>10
  <2>2. Waits(frames'[(n + 1) + 1]) /\ FrameLink(frames'[(n + 1) + 1], c, c)
    BY <2>1, <1>7, <1>11, <1>12
  <2>3. Coherent(frames', acts, (n + 1) + 1, Len(acts), c, FALSE)
    BY <2>2, <1>9, <1>13, PushFrame
  <2> QED  BY <2>1, <2>3, <1>11
<1>15. UserState'
  <2>1. c = Ctx(winds', handlers')  BY <1>1 DEF c
  <2> QED  BY <2>1, <1>1, <1>4, <1>14 DEF UserState
<1>16. Len(frames') > Act'.saved
  <2>1. n + 2 > Last(acts).saved  BY <1>3 DEF n
  <2> QED  BY <2>1, <1>1, <1>11 DEF Act
<1>17. Going'  BY <1>1, <1>2, <1>15, <1>16 DEF Going, RunState
<1>18. Types'  BY <1>1, <1>3, <1>6, <1>11 DEF Types
<1>19. Levels(acts)'  BY <1>1, <1>3
<1> QED  BY <1>1, <1>17, <1>18, <1>19, MachineNext

LEMMA DwLeaveStep ==
  ASSUME Machine, ~torn, DwLeave
  PROVE  ~torn' /\ Machine'
<1> DEFINE d == [Top EXCEPT !.pc = "ret"]   t == Thunk("after", Last(winds))
           n == Len(frames) - 1   c == Ctx(winds, handlers)
<1>1. mode = "run" /\ Top.kind = "dw" /\ Top.pc = "pop"  BY DEF DwLeave, Running
<1>2. /\ Types /\ acts \in Seq(AnyAct) /\ Levels(acts) /\ frames \in Seq(Frame) /\ Len(frames) >= 1
      /\ Len(frames) > Last(acts).saved /\ Last(acts).saved \in Nat /\ Act = Last(acts)
      /\ UserState /\ Top \in Frame /\ Top = frames[Len(frames)]
  BY <1>1, RunFacts
<1>3. handlers \in Seq(Handler) /\ winds \in Seq(Winds)  BY <1>2 DEF Types
<1>4. Coherent(frames, acts, Len(frames), Len(acts), c, FALSE) /\ inside = winds /\ params = winds
  BY <1>2 DEF UserState
<1>5. Len(frames) > acts[Len(acts)].saved  BY <1>2, LevelFacts
<1>6. PICK b \in Context : /\ Coherent(frames, acts, n, Len(acts), b, FALSE)
                           /\ FrameLink(Top, c, b)
  BY <1>2, <1>4, <1>5, PopFrame
<1>7. /\ c.w = winds /\ c.h = handlers
      /\ b.w \in Seq(Winds) /\ b.h \in Seq(Handler) /\ b = Ctx(b.w, b.h)
  BY <1>3, CtxIs, CtxOf
<1>8. Top.hs = handlers /\ b.h = handlers /\ winds = Append(b.w, Top.wind)
  BY <1>1, <1>6, <1>7 DEF FrameLink
<1>9. Top.wind \in Winds
  <2>1. \A i \in 1..Len(frames) : Waits(frames[i])  BY <1>4, CoherentFacts
  <2>2. Len(frames) \in 1..Len(frames)  BY <1>2
  <2>3. Waits(Top)  BY <2>1, <2>2, <1>2
  <2> QED  BY <2>3, <1>1 DEF Waits
<1>10. winds # <<>> /\ Front(winds) = b.w /\ Last(winds) = Top.wind
  BY <1>7, <1>8, <1>9, Appends
<1>11. /\ frames' = Append(Front(frames), d) \o <<t>> /\ acts' = acts
       /\ winds' = Front(winds) /\ handlers' = handlers /\ params' = params
       /\ conts' = conts /\ mode' = mode /\ invoked' = FALSE
       /\ inside' = Front(inside) /\ torn' = FALSE /\ fuel' = fuel
  BY <1>4, <1>10 DEF DwLeave, Leaving
<1>12. /\ d \in Frame /\ d.kind = "dw" /\ d.wind = Top.wind /\ d.hs = handlers /\ d.pc = "ret"
       /\ t \in Frame /\ t.kind = "after" /\ t.wind = Top.wind
  <2>1. "after" \in Thunks  BY DEF Thunks
  <2>2. d \in Frame /\ d.kind = "dw" /\ d.wind = Top.wind /\ d.hs = handlers /\ d.pc = "ret"
    BY <1>1, <1>2, <1>8, FrameIs
  <2>3. t \in Frame /\ t.kind = "after" /\ t.wind = Top.wind
    BY <2>1, <1>3, <1>9, <1>10, FrameIs
  <2> QED  BY <2>2, <2>3
<1> HIDE DEF d, t, c
<1>13. /\ Front(frames) \in Seq(Frame) /\ Len(Front(frames)) = n /\ n \in Nat
       /\ \A i \in 1..n : Front(frames)[i] = frames[i]
  BY <1>2, Fronts, SMTT(30)
<1>14. /\ frames' \in Seq(Frame) /\ Len(frames') = n + 2
       /\ \A i \in 1..n : frames'[i] = Front(frames)[i]
       /\ frames'[n + 1] = d /\ frames'[n + 2] = t
  <2> DEFINE s == Front(frames)
  <2> HIDE DEF s
  <2>1. frames' = Append(s, d) \o <<t>>  BY <1>11 DEF s
  <2>2. s \in Seq(Frame) /\ Len(s) = n  BY <1>13 DEF s
  <2>3. d \in Frame /\ t \in Frame  BY <1>12
  <2>4. frames' = s \o <<d, t>>  BY <2>1, <2>2, <2>3, AppendTwo, SMTT(30)
  <2> QED  BY <2>2, <2>3, <2>4, AppendTwo DEF s
<1> HIDE DEF n
<1>15. Top' = t /\ frames'[Len(frames') - 1] = d  BY <1>13, <1>14 DEF Top, Last
<1>16. Coherent(frames', acts', Len(frames') - 2, Len(acts'), Ctx(winds', handlers'), FALSE)
  <2>1. \A i \in 1..n : frames'[i] = frames[i]  BY <1>13, <1>14
  <2>2. Coherent(frames', acts, n, Len(acts), b, FALSE)  BY <2>1, <1>6, CoherentSame
  <2>3. Len(frames') - 2 = n  BY <1>13, <1>14
  <2>4. b = Ctx(winds', handlers')  BY <1>7, <1>8, <1>10, <1>11
  <2> QED  BY <2>2, <2>3, <2>4, <1>11
<1>17. inside' = winds' /\ params' = Append(winds', Top.wind)  BY <1>4, <1>8, <1>10, <1>11
<1>18. WindThunk'
  <2>1. Len(frames') >= 2  BY <1>13, <1>14
  <2>2. d.hs = handlers'  BY <1>11, <1>12
  <2> QED  BY <2>1, <2>2, <1>9, <1>12, <1>15, <1>16, <1>17 DEF WindThunk
<1>19. ThunkState'  BY <1>9, <1>12, <1>15, <1>17, <1>18 DEF ThunkState, Thunks
<1>20. Len(frames') > Act'.saved
  <2>1. n + 2 > Last(acts).saved  BY <1>2 DEF n
  <2> QED  BY <2>1, <1>11, <1>14 DEF Act
<1>21. Going'  BY <1>1, <1>11, <1>19, <1>20 DEF Going, RunState
<1>22. Types'
  <2>1. winds' \in Seq(Winds) /\ inside' \in Seq(Winds)  BY <1>7, <1>10, <1>11, <1>17
  <2> QED  BY <2>1, <1>2, <1>11, <1>14 DEF Types
<1>23. Levels(acts)'  BY <1>2, <1>11
<1> QED  BY <1>11, <1>21, <1>22, <1>23, MachineNext

LEMMA ThunkReturnStep ==
  ASSUME Machine, ThunkReturn
  PROVE  torn' = torn /\ (mode' = "dead" \/ Machine')
<1> DEFINE n == Len(frames) - 1
<1>1. /\ frames' = Front(frames) /\ acts' = acts /\ winds' = winds /\ handlers' = handlers
      /\ conts' = conts /\ invoked' = FALSE /\ torn' = torn /\ fuel' = fuel
  BY DEF ThunkReturn
<1>2. mode = "run" /\ Top.kind \in Thunks  BY DEF ThunkReturn, Running
<1>3. /\ Types /\ acts \in Seq(AnyAct) /\ Levels(acts) /\ frames \in Seq(Frame) /\ Len(frames) >= 1
      /\ Len(frames) > Last(acts).saved /\ Last(acts).saved \in Nat /\ Act = Last(acts)
      /\ Len(frames) \in Nat /\ ThunkState /\ Top = frames[Len(frames)]
  BY <1>2, RunFacts
<1>4. /\ frames' \in Seq(Frame) /\ Len(frames') = n /\ n \in Nat
      /\ \A i \in 1..n : frames'[i] = frames[i]
  BY <1>1, <1>3, Fronts
<1>5. /\ Top.wind \in Winds /\ inside = winds /\ (WindThunk \/ UnwindThunk \/ TransThunk)
      /\ winds \in Seq(Winds)
  BY <1>3 DEF ThunkState, Types
<1>6. SUFFICES ASSUME mode' # "dead" PROVE Machine'  BY <1>1
<1>7. \/ /\ Top.kind = "before" /\ inside' = Append(winds, Top.wind)
         /\ params' = Append(params, Top.wind)
      \/ /\ Top.kind = "after" /\ inside' = winds
         /\ params # <<>> /\ Last(params) = Top.wind /\ params' = Front(params)
  BY <1>2, <1>5, <1>6 DEF ThunkReturn, Thunks
<1>8. mode' = Settle(frames', acts, "ok")  BY <1>6 DEF ThunkReturn
<1>9. Types'
  <2>1. inside' \in Seq(Winds) /\ params' \in Seq(Winds)
    <3>1. params \in Seq(Winds)  BY <1>3 DEF Types
    <3>2. params # <<>> => Len(params) >= 1  BY <3>1
    <3>3. params # <<>> => Front(params) \in Seq(Winds)  BY <3>1, <3>2, Fronts
    <3>4. Append(params, Top.wind) \in Seq(Winds) /\ Append(winds, Top.wind) \in Seq(Winds)
      BY <3>1, <1>5, Appends
    <3> QED  BY <3>3, <3>4, <1>5, <1>7
  <2> QED  BY <2>1, <1>1, <1>3, <1>4 DEF Types
<1>10. Levels(acts)' /\ Act' = Act  BY <1>1, <1>3 DEF Act
<1>11. params = Append(winds, Top.wind) => Front(params) = winds  BY <1>5, Appends
<1> HIDE DEF n
<1>12. CASE WindThunk
  <2> DEFINE d == frames[n]
  <2>1. /\ Len(frames) >= 2 /\ d.kind = "dw" /\ d.wind \in Winds /\ d.hs = handlers
        /\ Top.kind = "before" => d.pc = "push" /\ d.wind = Top.wind /\ params = winds
        /\ Top.kind = "after" => d.pc = "ret" /\ params = Append(winds, Top.wind)
        /\ Coherent(frames, acts, Len(frames) - 2, Len(acts), Ctx(winds, handlers), FALSE)
    BY <1>12 DEF WindThunk, n
  <2>2. Top' = d
    <3>1. n \in 1..n  BY <2>1, <1>3 DEF n
    <3>2. Top' = frames'[n]  BY <1>4 DEF Top, Last
    <3> QED  BY <3>1, <3>2, <1>4
  <2> HIDE DEF d
  <2>3. n - 1 = Len(frames) - 2 /\ n - 1 < n  BY <1>3 DEF n
  <2>4. /\ Coherent(frames, acts, n - 1, Len(acts), Ctx(winds, handlers), FALSE)
        /\ n - 1 >= Last(acts).saved
    <3>1. Coherent(frames, acts, n - 1, Len(acts), Ctx(winds, handlers), FALSE)  BY <2>1, <2>3
    <3> QED  BY <3>1, <1>3, CoherentTop
  <2>5. Coherent(frames', acts', Len(frames') - 1, Len(acts'), Ctx(winds', handlers'), FALSE)
    <3>1. \A i \in 1..(n - 1) : frames'[i] = frames[i]  BY <1>4
    <3>2. Coherent(frames', acts, n - 1, Len(acts), Ctx(winds, handlers), FALSE)
      BY <3>1, <2>4, CoherentSame
    <3> QED  BY <3>2, <1>1, <1>4
  <2>6. Len(frames') > Last(acts).saved  BY <2>4, <1>3, <1>4
  <2>7. mode' = "run"  BY <2>6, <1>8 DEF Settle
  <2>8. inside' = params' /\ (params' = IF d.pc = "push" THEN Append(winds, d.wind) ELSE winds)
    BY <2>1, <1>7, <1>11
  <2>9. d.pc \in {"push", "ret"}  BY <2>1, <1>7
  <2>10. DwState'  BY <2>1, <2>2, <2>5, <2>8, <2>9, <1>1 DEF DwState
  <2>11. Going'  BY <2>6, <2>7, <2>10, <1>3, <1>10 DEF Going, RunState
  <2> QED  BY <2>11, <1>1, <1>9, <1>10, MachineNext
<1>13. CASE UnwindThunk
  <2>1. /\ Act.kind = "unwind" /\ Act.saved = n /\ Len(acts) > 1
        /\ Top.kind = "after" /\ params = Append(winds, Top.wind)
        /\ \E b : Coherent(frames, acts, n, Len(acts) - 1, b, FALSE)
    BY <1>13 DEF UnwindThunk, n
  <2>2. inside' = winds' /\ params' = winds'  BY <2>1, <1>1, <1>7, <1>11
  <2>3. \E b : Coherent(frames', acts', Len(frames'), Len(acts') - 1, b, FALSE)
    <3>1. PICK b : Coherent(frames, acts, n, Len(acts) - 1, b, FALSE)  BY <2>1
    <3>2. Coherent(frames', acts, n, Len(acts) - 1, b, FALSE)  BY <3>1, <1>4, CoherentSame
    <3> QED  BY <3>2, <1>1, <1>4
  <2>4. UnwindArrives'  BY <2>1, <2>2, <2>3, <1>1, <1>10 DEF UnwindArrives
  <2>5. Len(frames') = Act'.saved /\ ~(Len(frames') > Last(acts).saved)
    BY <2>1, <1>3, <1>4, <1>10
  <2>6. mode' = "ok"  BY <2>5, <1>8 DEF Settle
  <2>7. Going'  BY <2>4, <2>5, <2>6 DEF Going, ArriveState
  <2> QED  BY <2>7, <1>1, <1>9, <1>10, MachineNext
<1>14. CASE TransThunk
  <2>1. /\ Act.kind = "trans" /\ Act.saved = n /\ Len(acts) > 1
        /\ Top.kind = "after" => /\ Act.j = Act.common
                                 /\ Underway(winds, Act.target, Act.common, Act.j)
        /\ Top.kind = "before" => /\ Entering(winds, Act.target, Act.common, Act.j)
                                  /\ Top.wind = Act.target.winds[Act.j]
    BY <1>14 DEF TransThunk, n
  <2>2. TransArrives'
    <3>1. CASE Top.kind = "before"
      <4>1. inside' = Append(winds', Act'.target.winds[Act'.j])  BY <3>1, <2>1, <1>1, <1>7, <1>10
      <4>2. Entering(winds', Act'.target, Act'.common, Act'.j)  BY <3>1, <2>1, <1>1, <1>10
      <4> QED  BY <4>1, <4>2, <2>1, <1>1, <1>10 DEF TransArrives
    <3>2. CASE Top.kind = "after"
      <4>1. inside' = winds'  BY <3>2, <1>1, <1>7
      <4>2. Act'.j = Act'.common /\ Underway(winds', Act'.target, Act'.common, Act'.j)
        BY <3>2, <2>1, <1>1, <1>10
      <4> QED  BY <4>1, <4>2, <2>1, <1>1, <1>10 DEF TransArrives
    <3> QED  BY <3>1, <3>2, <1>2 DEF Thunks
  <2>3. Len(frames') = Act'.saved /\ ~(Len(frames') > Last(acts).saved)
    BY <2>1, <1>3, <1>4, <1>10
  <2>4. mode' = "ok"  BY <2>3, <1>8 DEF Settle
  <2>5. Going'  BY <2>2, <2>3, <2>4 DEF Going, ArriveState
  <2> QED  BY <2>5, <1>1, <1>9, <1>10, MachineNext
<1> QED  BY <1>5, <1>12, <1>13, <1>14

\* Scheme code is called with the handlers of its caller.
LEMMA PushUser ==
  ASSUME NEW fr \in Seq(Frame), NEW st, NEW q, NEW c \in Context, NEW hs \in Seq(Handler), c.h = hs,
         Coherent(fr, st, Len(fr), q, c, FALSE)
  PROVE  /\ Append(fr, User(hs)) \in Seq(Frame) /\ Len(Append(fr, User(hs))) = Len(fr) + 1
         /\ Len(fr) \in Nat
         /\ Coherent(Append(fr, User(hs)), st, Len(fr) + 1, q, c, FALSE)
<1> DEFINE u == User(hs)   gr == Append(fr, u)   n == Len(fr)
<1>1. u \in Frame /\ u.kind = "user" /\ u.hs = hs /\ Waits(u)  BY FrameIs
<1> HIDE DEF u
<1>2. /\ gr \in Seq(Frame) /\ Len(gr) = n + 1 /\ n \in Nat
      /\ \A i \in 1..n : gr[i] = fr[i]
      /\ gr[n + 1] = u
  BY <1>1, Appends
<1>3. FrameLink(u, c, c)  BY <1>1 DEF FrameLink
<1>4. Coherent(fr, st, n, q, c, FALSE)  OBVIOUS
<1> HIDE DEF gr, n
<1>5. Coherent(gr, st, n + 1, q, c, FALSE)
  <2>1. Waits(gr[n + 1]) /\ FrameLink(gr[n + 1], c, c)  BY <1>1, <1>2, <1>3
  <2> QED  BY <2>1, <1>2, <1>4, PushFrame
<1> QED  BY <1>2, <1>5 DEF gr, n, u

\* A C function that is entered and calls Scheme code with the handlers hs.
LEMMA CallUser ==
  ASSUME NEW st \in Seq(AnyAct), Levels(st), NEW fr \in Seq(Frame), NEW b,
         Coherent(fr, st, Len(fr), Len(st), b, FALSE),
         winds' \in Seq(Winds), handlers' \in Seq(Handler), inside' = winds', params' = winds',
         NEW a \in Plain, a.kind \in {"handler", "callcc", "raise"}, a.saved = Len(fr),
         ActLink(a, Ctx(winds', handlers'), b, FALSE),
         acts' = Append(st, a), frames' = Append(fr, User(handlers'))
  PROVE  /\ acts' \in Seq(AnyAct) /\ Levels(acts)' /\ frames' \in Seq(Frame) /\ RunState'
<1> DEFINE c == Ctx(winds', handlers')   n == Len(fr)
<1>1. c \in Context /\ c.h = handlers'  BY CtxOf
<1>2. a \in AnyAct /\ a.kind # "main" /\ a.kind # "trans"  BY DEF AnyAct
<1>3. n >= Last(st).saved /\ n \in Nat  BY CoherentTop
<1> HIDE DEF n
<1>4. /\ acts' \in Seq(AnyAct) /\ Levels(acts') /\ Len(acts') = Len(st) + 1 /\ Last(acts') = a
      /\ \A j \in 1..Len(st) : acts'[j] = st[j]
      /\ acts'[Len(st) + 1] = a
  <2>1. acts' \in Seq(AnyAct)  BY <1>2
  <2> QED  BY <2>1, <1>2, <1>3, LevelsAppend DEF n
<1> HIDE DEF c
<1>5. Coherent(fr, acts', n, Len(acts'), c, FALSE)
  <2>1. Coherent(fr, st, n, Len(st), b, FALSE)  BY DEF n
  <2>2. ActLink(acts'[Len(st) + 1], c, b, FALSE) /\ acts'[Len(st) + 1].saved = n
        /\ acts'[Len(st) + 1].kind \in {"handler", "callcc", "raise"}
    BY <1>4 DEF n, c
  <2>3. Coherent(fr, acts', n, Len(st) + 1, c, FALSE)  BY <2>1, <2>2, <1>1, <1>4, PushAct
  <2> QED  BY <2>3, <1>4
<1>6. /\ frames' \in Seq(Frame) /\ Len(frames') = n + 1
      /\ Coherent(frames', acts', n + 1, Len(acts'), c, FALSE)
  <2>1. Coherent(fr, acts', Len(fr), Len(acts'), c, FALSE)  BY <1>5 DEF n
  <2> QED  BY <2>1, <1>1, PushUser DEF n
<1>7. UserState'  BY <1>6 DEF UserState, c
<1>8. Len(frames') > Act'.saved  BY <1>3, <1>4, <1>6 DEF Act, n
<1> QED  BY <1>4, <1>6, <1>7, <1>8 DEF RunState

LEMMA WithExceptionHandlerStep ==
  ASSUME Machine, NEW tail \in BOOLEAN, WithExceptionHandler(tail)
  PROVE  torn' = torn /\ Machine'
<1> DEFINE h == [id |-> fuel, wc |-> Len(winds)]   a == Activation("handler", Caller(tail))
           c == Ctx(winds, handlers)   d == Ctx(winds', handlers')
<1>1. /\ handlers' = Append(handlers, h) /\ frames' = Append(Caller(tail), User(Append(Top.hs, h)))
      /\ acts' = Append(acts, a) /\ winds' = winds /\ params' = params /\ conts' = conts
      /\ mode' = mode /\ invoked' = FALSE /\ inside' = inside /\ torn' = torn
      /\ fuel' = fuel - 1 /\ fuel > 0 /\ Running({"user"})
  BY DEF WithExceptionHandler, ghosts, Spend
<1>2. /\ mode = "run" /\ UserState /\ Top.hs = handlers /\ Caller(tail) \in Seq(Frame)
      /\ Coherent(Caller(tail), acts, Len(Caller(tail)), Len(acts), c, FALSE)
  BY <1>1, UserFacts
<1>3. /\ Types /\ acts \in Seq(AnyAct) /\ Levels(acts) /\ winds \in Seq(Winds)
      /\ handlers \in Seq(Handler) /\ fuel \in Nat
  BY <1>2, RunFacts DEF Types
<1>4. h \in Handler  BY <1>3 DEF Handler
<1> HIDE DEF h
<1>5. /\ handlers' \in Seq(Handler) /\ handlers' # <<>> /\ Front(handlers') = handlers
  BY <1>1, <1>3, <1>4, Appends
<1>6. a \in Plain /\ a.kind = "handler" /\ a.saved = Len(Caller(tail))
  BY <1>2, <1>3, PlainActivation
<1> HIDE DEF a
<1>7. ActLink(a, d, c, FALSE)
  <2>1. c.w = winds /\ c.h = handlers  BY DEF Ctx
  <2>2. d.w = winds /\ d.h = handlers'  BY <1>1 DEF Ctx
  <2> HIDE DEF c, d
  <2> QED  BY <2>1, <2>2, <1>5, <1>6 DEF ActLink
<1>8. inside' = winds' /\ params' = winds'  BY <1>1, <1>2 DEF UserState
<1>9. /\ acts' \in Seq(AnyAct) /\ Levels(acts)' /\ frames' \in Seq(Frame) /\ RunState'
  <2>1. frames' = Append(Caller(tail), User(handlers'))  BY <1>1, <1>2
  <2>2. winds' \in Seq(Winds)  BY <1>1, <1>3
  <2> HIDE DEF c
  <2> QED  BY <2>1, <2>2, <1>1, <1>2, <1>3, <1>5, <1>6, <1>7, <1>8, CallUser
<1>10. Going'  BY <1>1, <1>2, <1>9 DEF Going
<1>11. Types'
  <2>1. fuel - 1 \in Nat  BY <1>1, <1>3
  <2> QED  BY <2>1, <1>1, <1>3, <1>5, <1>9 DEF Types
<1> QED  BY <1>1, <1>9, <1>10, <1>11, MachineNext

LEMMA CallCCStep ==
  ASSUME Machine, NEW k \in Conts, NEW tail \in BOOLEAN, CallCC(k, tail)
  PROVE  torn' = torn /\ Machine'
<1> DEFINE s == Snapshot(Caller(tail))   fr == Caller(tail)   c == Ctx(winds, handlers)
<1>1. /\ conts' = [conts EXCEPT ![k] = s] /\ frames' = Append(fr, User(Top.hs))
      /\ acts' = IF tail THEN acts ELSE Append(acts, Activation("callcc", frames))
      /\ winds' = winds /\ handlers' = handlers /\ params' = params
      /\ mode' = mode /\ invoked' = FALSE /\ inside' = inside /\ torn' = torn
      /\ fuel' = fuel - 1 /\ fuel > 0 /\ Running({"user"})
  BY DEF CallCC, stacks, ghosts, Spend
<1>2. /\ mode = "run" /\ UserState /\ Top.hs = handlers /\ fr \in Seq(Frame)
      /\ Coherent(fr, acts, Len(fr), Len(acts), c, FALSE) /\ acts \in Seq(Plain)
  BY <1>1, UserFacts
<1>3. /\ Types /\ acts \in Seq(AnyAct) /\ Levels(acts) /\ winds \in Seq(Winds)
      /\ handlers \in Seq(Handler) /\ fuel \in Nat /\ params \in Seq(Winds)
      /\ conts \in [Conts -> Continuation] /\ Act = Last(acts)
  BY <1>2, RunFacts DEF Types
<1>4. inside = winds /\ params = winds  BY <1>2 DEF UserState
<1>5. /\ s \in Continuation /\ s.frames = fr /\ s.needs = acts /\ s.winds = winds
      /\ s.handlers = handlers /\ s.params = params
  <2> HIDE DEF fr
  <2>1. s = [frames |-> fr, winds |-> winds, handlers |-> handlers, params |-> params,
             needs |-> acts, set |-> TRUE]
    BY DEF Snapshot, fr
  <2> HIDE DEF s
  <2>2. s \in Continuation  BY <2>1, <1>2, <1>3 DEF Continuation
  <2> QED  BY <2>1, <2>2
<1> HIDE DEF s, fr
<1>6. GoodCont(s)  BY <1>2, <1>4, <1>5 DEF GoodCont
<1>7. /\ conts' \in [Conts -> Continuation] /\ conts'[k] = s
      /\ \A m \in Conts : m # k => conts'[m] = conts[m]
  BY <1>1, <1>3, <1>5
<1>8. \A m \in Conts : conts'[m].set => GoodCont(conts'[m])
  <2>1. \A m \in Conts : conts[m].set => GoodCont(conts[m])  BY DEF Machine
  <2> QED  BY <2>1, <1>6, <1>7
<1>9. acts' \in Seq(AnyAct) /\ Levels(acts)' /\ frames' \in Seq(Frame) /\ RunState'
  <2>1. CASE tail = TRUE
    <3>1. acts' = acts  BY <2>1, <1>1
    <3>2. c \in Context /\ c.h = handlers  BY <1>3, CtxOf
    <3> DEFINE n == Len(fr)
    <3>3. n >= Last(acts).saved /\ n \in Nat  BY <1>2, <1>3, CoherentTop
    <3> HIDE DEF c
    <3>4. /\ frames' \in Seq(Frame) /\ Len(frames') = n + 1
          /\ Coherent(frames', acts, n + 1, Len(acts), c, FALSE)
      <4>1. frames' = Append(fr, User(handlers))  BY <1>1, <1>2
      <4> QED  BY <4>1, <3>2, <1>2, <1>3, PushUser
    <3> HIDE DEF n
    <3>5. UserState'  BY <3>1, <3>4, <1>1, <1>4 DEF UserState, c
    <3>6. Len(frames') > Act'.saved
      <4>1. Last(acts).saved \in Nat  BY <1>3, LevelFacts
      <4> QED  BY <4>1, <3>1, <3>3, <3>4 DEF Act
    <3> QED  BY <3>1, <3>4, <3>5, <3>6, <1>3 DEF RunState
  <2>2. CASE tail = FALSE
    <3> DEFINE a == Activation("callcc", fr)
    <3>1. fr = frames  BY <2>2 DEF fr, Caller
    <3>2. acts' = Append(acts, a)  BY <3>1, <2>2, <1>1
    <3>3. a \in Plain /\ a.kind = "callcc" /\ a.saved = Len(fr)
      BY <1>2, <1>3, PlainActivation
    <3> HIDE DEF a
    <3>4. ActLink(a, c, c, FALSE)  BY <3>3 DEF ActLink
    <3>5. frames' = Append(fr, User(handlers')) /\ c = Ctx(winds', handlers')  BY <1>1, <1>2
    <3>6. /\ inside' = winds' /\ params' = winds' /\ winds' \in Seq(Winds)
          /\ handlers' \in Seq(Handler) /\ ActLink(a, Ctx(winds', handlers'), c, FALSE)
      BY <3>4, <3>5, <1>1, <1>3, <1>4
    <3> HIDE DEF c
    <3> QED  BY <3>2, <3>3, <3>5, <3>6, <1>2, <1>3, CallUser
  <2> QED  BY <2>1, <2>2
<1>10. Going'  BY <1>1, <1>2, <1>9 DEF Going
<1>11. Types'
  <2>1. fuel - 1 \in Nat  BY <1>1, <1>3
  <2> QED  BY <2>1, <1>1, <1>3, <1>7, <1>9 DEF Types
<1> QED  BY <1>1, <1>8, <1>9, <1>10, <1>11 DEF Machine

-----------------------------------------------------------------------------
(* ch_vm_raise                                                                *)

LEMMA UnwindOneStep ==
  ASSUME NEW st \in Seq(AnyAct), Levels(st), NEW fr \in Seq(Frame), NEW b,
         Coherent(fr, st, Len(fr), Len(st), b, FALSE),
         Types, inside = winds, params = winds, params' = params, ~torn,
         NEW eh \in Handler, Len(winds) > eh.wc, UnwindOne(st, fr, eh)
  PROVE  /\ acts' \in Seq(AnyAct) /\ Levels(acts)' /\ frames' \in Seq(Frame)
         /\ winds' \in Seq(Winds) /\ inside' \in Seq(Winds) /\ ~torn' /\ RunState'
<1> DEFINE a == [Activation("unwind", fr) EXCEPT !.eh = eh]   t == Thunk("after", Last(winds))
           n == Len(fr)
<1>1. /\ acts' = Append(st, a) /\ frames' = Append(fr, t) /\ winds' = Front(winds)
      /\ Leaving(Last(winds))
  BY DEF UnwindOne
<1>2. winds \in Seq(Winds) /\ handlers \in Seq(Handler) /\ fuel \in Nat  BY DEF Types
<1>3. Len(winds) >= 1
  <2>1. eh.wc \in Nat  BY DEF Handler
  <2> QED  BY <2>1, <1>2
<1>4. Front(winds) \in Seq(Winds) /\ Last(winds) \in Winds /\ winds # <<>>  BY <1>2, <1>3, Fronts
<1>5. winds = Append(Front(winds), Last(winds))  BY <1>2, <1>3, SeqIs
<1>6. inside' = winds' /\ ~torn'  BY <1>1, <1>4 DEF Leaving
<1>7. a \in Plain /\ a.kind = "unwind" /\ a.saved = n  BY <1>2, UnwindActivation
<1>8. t \in Frame /\ t.kind = "after" /\ t.wind = Last(winds)
  <2>1. "after" \in Thunks  BY DEF Thunks
  <2> QED  BY <2>1, <1>2, <1>4, FrameIs
<1> HIDE DEF a, t
<1>9. /\ frames' \in Seq(Frame) /\ Len(frames') = n + 1 /\ n \in Nat
      /\ \A i \in 1..n : frames'[i] = fr[i]
      /\ Last(frames') = t
  BY <1>1, <1>8, Appends
<1>10. a \in AnyAct /\ a.kind # "main" /\ a.kind # "trans"  BY <1>7 DEF AnyAct
<1>11. n >= Last(st).saved  BY CoherentTop
<1>12. /\ acts' \in Seq(AnyAct) /\ Levels(acts') /\ Len(acts') = Len(st) + 1 /\ Last(acts') = a
       /\ \A j \in 1..Len(st) : acts'[j] = st[j]
  <2>1. acts' \in Seq(AnyAct)  BY <1>1, <1>10
  <2> HIDE DEF n
  <2> QED  BY <2>1, <1>1, <1>7, <1>10, <1>11, LevelsAppend
<1>13. Len(st) \in Nat \ {0}  BY LevelFacts
<1>14. Act' = a /\ Top' = t  BY <1>9, <1>12 DEF Act, Top
<1>15. \E c : Coherent(frames', acts', Len(frames') - 1, Len(acts') - 1, c, FALSE)
  <2>1. Len(frames') - 1 = n /\ Len(acts') - 1 = Len(st)  BY <1>9, <1>12, <1>13
  <2>2. Coherent(frames', acts', n, Len(st), b, FALSE)  BY <1>9, <1>12, CoherentSame
  <2> QED  BY <2>1, <2>2
<1>16. UnwindThunk'
  <2>1. Act'.saved = Len(frames') - 1 /\ Len(acts') > 1  BY <1>7, <1>9, <1>12, <1>13, <1>14
  <2>2. params' = Append(winds', Top'.wind)  BY <1>1, <1>5, <1>8, <1>14
  <2> QED  BY <2>1, <2>2, <1>7, <1>8, <1>14, <1>15 DEF UnwindThunk
<1>17. ThunkState'  BY <1>4, <1>6, <1>8, <1>14, <1>16 DEF ThunkState, Thunks
<1>18. Len(frames') > Act'.saved  BY <1>7, <1>9, <1>14
<1> QED  BY <1>1, <1>4, <1>6, <1>9, <1>12, <1>17, <1>18 DEF RunState

LEMMA CallHandlerStep ==
  ASSUME NEW st \in Seq(AnyAct), Levels(st), NEW fr \in Seq(Frame), NEW b,
         Coherent(fr, st, Len(fr), Len(st), b, FALSE),
         Types, inside = winds, params = winds, params' = params, ~torn,
         handlers' \in Seq(Handler), NEW eh \in Handler, NEW cont \in BOOLEAN,
         cont => b = Ctx(winds, handlers'), CallHandler(st, fr, eh, cont, handlers')
  PROVE  /\ acts' \in Seq(AnyAct) /\ Levels(acts)' /\ frames' \in Seq(Frame)
         /\ winds' \in Seq(Winds) /\ inside' \in Seq(Winds) /\ ~torn' /\ RunState'
<1> DEFINE hb == Len(handlers')   a == RaiseAct(fr, eh, cont, hb)
           c == Ctx(winds', handlers')
<1>1. /\ acts' = Append(st, a) /\ frames' = Append(fr, User(handlers'))
      /\ winds' = winds /\ inside' = inside /\ torn' = torn
  BY DEF CallHandler, RaiseAct
<1>2. winds' \in Seq(Winds) /\ inside' = winds' /\ params' = winds' /\ fuel \in Nat  BY <1>1 DEF Types
<1>3. hb \in Nat  OBVIOUS
<1> HIDE DEF a, hb
<1>4. a \in Plain /\ a.kind = "raise" /\ a.saved = Len(fr) /\ a.cont = cont /\ a.hb = hb
  <2>1. a = RaiseAct(fr, eh, cont, hb)  BY DEF a
  <2> QED  BY <2>1, <1>2, <1>3, RaiseActivation
<1>5. ActLink(a, c, b, FALSE)
  <2>1. c.h = handlers'  BY DEF Ctx
  <2>2. cont => c = b  BY <1>1
  <2> HIDE DEF c
  <2> QED  BY <2>1, <2>2, <1>4 DEF ActLink, hb
<1>6. acts' \in Seq(AnyAct) /\ Levels(acts)' /\ frames' \in Seq(Frame) /\ RunState'
  BY <1>1, <1>2, <1>4, <1>5, CallUser
<1> QED  BY <1>1, <1>2, <1>6

LEMMA RaiseFromStep ==
  ASSUME NEW st \in Seq(AnyAct), Levels(st), NEW fr \in Seq(Frame), NEW b,
         Coherent(fr, st, Len(fr), Len(st), b, FALSE),
         Types, inside = winds, params = winds, params' = params, ~torn,
         NEW cont \in BOOLEAN, cont => b = Ctx(winds, handlers), RaiseFrom(st, fr, cont)
  PROVE  /\ ~torn' /\ mode' \in {"run", "dead"}
         /\ mode' = "run" => /\ acts' \in Seq(AnyAct) /\ Levels(acts)' /\ frames' \in Seq(Frame)
                             /\ winds' \in Seq(Winds) /\ inside' \in Seq(Winds)
                             /\ handlers' \in Seq(Handler) /\ RunState'
<1>1. CASE handlers = <<>>  BY <1>1 DEF RaiseFrom
<1>2. CASE handlers # <<>>
  <2> DEFINE eh == Last(handlers)
  <2>1. handlers \in Seq(Handler) /\ Len(handlers) >= 1  BY <1>2 DEF Types
  <2>2. eh \in Handler /\ Front(handlers) \in Seq(Handler)  BY <2>1, Fronts
  <2>3. /\ handlers' = (IF cont THEN handlers ELSE Front(handlers))
        /\ mode' = "run"
        /\ \/ ~cont /\ Len(winds) > eh.wc /\ UnwindOne(st, fr, eh)
           \/ CallHandler(st, fr, eh, cont, handlers')
    BY <1>2 DEF RaiseFrom
  <2>4. handlers' \in Seq(Handler) /\ (cont => b = Ctx(winds, handlers'))  BY <2>1, <2>2, <2>3
  <2> HIDE DEF eh
  <2>5. CASE ~cont /\ Len(winds) > eh.wc /\ UnwindOne(st, fr, eh)
    BY <2>2, <2>3, <2>4, <2>5, UnwindOneStep
  <2>6. CASE CallHandler(st, fr, eh, cont, handlers')
    BY <2>2, <2>3, <2>4, <2>6, CallHandlerStep
  <2> QED  BY <2>3, <2>5, <2>6
<1> QED  BY <1>1, <1>2

LEMMA RaiseStep ==
  ASSUME Machine, ~torn, NEW cont \in BOOLEAN, NEW tail \in BOOLEAN, Raise(cont, tail)
  PROVE  ~torn' /\ (mode' = "dead" \/ Machine')
<1>1. /\ RaiseFrom(acts, Caller(tail), cont) /\ invoked' = FALSE /\ params' = params
      /\ conts' = conts /\ fuel' = fuel - 1 /\ fuel > 0 /\ Running({"user"})
  BY DEF Raise, Spend
<1>2. /\ mode = "run" /\ UserState /\ Caller(tail) \in Seq(Frame)
      /\ Coherent(Caller(tail), acts, Len(Caller(tail)), Len(acts), Ctx(winds, handlers), FALSE)
  BY <1>1, UserFacts
<1>3. Types /\ acts \in Seq(AnyAct) /\ Levels(acts)  BY <1>2, RunFacts
<1>4. inside = winds /\ params = winds  BY <1>2 DEF UserState
<1>5. /\ ~torn' /\ mode' \in {"run", "dead"}
      /\ mode' = "run" => /\ acts' \in Seq(AnyAct) /\ Levels(acts)' /\ frames' \in Seq(Frame)
                          /\ winds' \in Seq(Winds) /\ inside' \in Seq(Winds)
                          /\ handlers' \in Seq(Handler) /\ RunState'
  BY <1>1, <1>2, <1>3, <1>4, RaiseFromStep
<1>6. SUFFICES ASSUME mode' = "run" PROVE Machine'  BY <1>5
<1>7. Types'
  <2>1. fuel - 1 \in Nat  BY <1>1, <1>3 DEF Types
  <2> QED  BY <2>1, <1>1, <1>3, <1>5, <1>6 DEF Types
<1>8. Going'  BY <1>5, <1>6 DEF Going
<1> QED  BY <1>1, <1>5, <1>6, <1>7, <1>8, MachineNext

-----------------------------------------------------------------------------
(* The ends of C activations                                                  *)

LEMMA StatusFacts ==
  ASSUME Machine
  PROVE  /\ Types /\ acts \in Seq(AnyAct) /\ Levels(acts) /\ frames \in Seq(Frame)
         /\ Len(frames) \in Nat /\ Len(acts) \in Nat \ {0} /\ Act = Last(acts)
         /\ Act = acts[Len(acts)] /\ Act.saved \in Nat /\ Len(acts) \in 1..Len(acts)
         /\ Act.kind # "main" => Len(acts) > 1 /\ Len(acts) - 1 \in 1..(Len(acts) - 1)
         /\ Len(frames) < Act.saved => Act.kind # "main"
<1>1. Types /\ Levels(acts)  BY DEF Machine
<1>2. acts \in Seq(AnyAct) /\ frames \in Seq(Frame)  BY <1>1 DEF Levels, Types
<1>3. /\ Len(acts) \in Nat \ {0} /\ Last(acts) = acts[Len(acts)] /\ Last(acts).saved \in Nat
      /\ Len(acts) \in 1..Len(acts)
      /\ Last(acts).kind = "main" <=> Len(acts) = 1
      /\ Last(acts).kind # "main" => Len(acts) > 1
  BY <1>1, <1>2, LevelFacts
<1>4. Act = Last(acts) /\ Len(frames) \in Nat  BY <1>2 DEF Act
<1>5. Len(acts) > 1 => Len(acts) - 1 \in 1..(Len(acts) - 1)  BY <1>3
<1>6. Len(frames) < Act.saved => Act.kind # "main"
  <2>1. SUFFICES ASSUME Len(frames) < Act.saved, Act.kind = "main" PROVE FALSE  OBVIOUS
  <2>2. Len(acts) = 1  BY <2>1, <1>3, <1>4
  <2>3. Act = acts[1]  BY <2>2, <1>3, <1>4
  <2>4. acts[1].saved = 0  BY <1>1 DEF Levels
  <2>5. Len(frames) < 0  BY <2>1, <2>3, <2>4
  <2> QED  BY <2>5, <1>4
<1> QED  BY <1>1, <1>2, <1>3, <1>4, <1>5, <1>6

\* A continuation has been entered below the innermost activation or in it.
LEMMA EscapeFacts ==
  ASSUME Machine, mode = "cont"
  PROVE  /\ inside = winds /\ params = winds
         /\ \E q \in 1..Len(acts), sure \in BOOLEAN :
              /\ Coherent(frames, acts, Len(frames), q, Ctx(winds, handlers), sure)
              /\ sure \/ ~invoked
              /\ \A j \in (q + 1)..Len(acts) : acts[j].saved > Len(frames)
              /\ Len(frames) = Act.saved => q = Len(acts)
              /\ Len(frames) < Act.saved => q \in 1..(Len(acts) - 1)
<1>1. EscapeState  BY DEF Machine, Going
<1>2. /\ Len(frames) \in Nat /\ Len(acts) \in Nat \ {0} /\ Act = acts[Len(acts)]
      /\ Act.saved \in Nat
  BY StatusFacts
<1>3. PICK q \in 1..Len(acts), sure \in BOOLEAN :
        /\ Coherent(frames, acts, Len(frames), q, Ctx(winds, handlers), sure)
        /\ sure \/ ~invoked
        /\ \A j \in (q + 1)..Len(acts) : acts[j].saved > Len(frames)
  BY <1>1 DEF EscapeState
<1>4. q \in Nat \ {0} /\ (q # Len(acts) => Len(acts) \in (q + 1)..Len(acts))  BY <1>2
<1>5. Len(frames) = Act.saved => q = Len(acts)
  <2>1. SUFFICES ASSUME Len(frames) = Act.saved, q # Len(acts) PROVE FALSE  OBVIOUS
  <2>2. Act.saved > Len(frames)  BY <2>1, <1>2, <1>3, <1>4
  <2> QED  BY <2>1, <2>2, <1>2
<1>6. Len(frames) < Act.saved => q # Len(acts)
  <2>1. SUFFICES ASSUME Len(frames) < Act.saved, q = Len(acts) PROVE FALSE  OBVIOUS
  <2>2. \A j \in 1..q : acts[j].saved \in 0..Len(frames)  BY <1>3, CoherentFacts
  <2>3. Act.saved \in 0..Len(frames)  BY <2>1, <2>2, <1>2
  <2> QED  BY <2>1, <2>3, <1>2
<1>7. q # Len(acts) => q \in 1..(Len(acts) - 1)  BY <1>2
<1> QED  BY <1>1, <1>3, <1>5, <1>6, <1>7 DEF EscapeState

\* A C function gets what it called for.
LEMMA NativeFacts ==
  ASSUME Machine, Arrived, Act.kind \in {"handler", "callcc", "raise"}
  PROVE  /\ inside = winds /\ params = winds /\ Len(frames) = Act.saved
         /\ \E b \in Context, sure \in BOOLEAN :
              /\ Coherent(frames, acts, Len(frames), Len(acts) - 1, b, sure)
              /\ mode = "ok" \/ sure \/ ~invoked
              /\ ActLink(Act, Ctx(winds, handlers), b, sure)
<1> DEFINE c == Ctx(winds, handlers)
<1>1. /\ Len(acts) \in Nat \ {0} /\ Act = acts[Len(acts)] /\ Len(acts) > 1  BY StatusFacts
<1>2. /\ inside = winds /\ params = winds /\ Len(frames) = Act.saved
      /\ \E sure \in BOOLEAN : /\ Coherent(frames, acts, Len(frames), Len(acts), c, sure)
                               /\ mode = "ok" \/ sure \/ ~invoked
  <2>1. CASE mode = "ok"
    <3>1. ArriveState  BY <2>1 DEF Machine, Going
    <3>2. UserState /\ Len(frames) = Act.saved
      BY <3>1 DEF ArriveState, NativeArrives, UnwindArrives, TransArrives
    <3> QED  BY <3>2, <2>1 DEF UserState
  <2>2. CASE mode = "cont" /\ Len(frames) = Act.saved  BY <2>2, EscapeFacts
  <2> QED  BY <2>1, <2>2 DEF Arrived
<1>3. PICK sure \in BOOLEAN : /\ Coherent(frames, acts, Len(frames), Len(acts), c, sure)
                              /\ mode = "ok" \/ sure \/ ~invoked
  BY <1>2
<1> HIDE DEF c
<1>4. acts[Len(acts)].saved = Len(frames)  BY <1>1, <1>2
<1>5. \E b \in Context : /\ Coherent(frames, acts, Len(frames), Len(acts) - 1, b, sure)
                         /\ ActLink(acts[Len(acts)], c, b, sure)
  BY <1>1, <1>3, <1>4, PopAct
<1> QED  BY <1>1, <1>2, <1>3, <1>5 DEF c

\* It returns, and what goes on does so with winds' and handlers'.
LEMMA NativeExitStep ==
  ASSUME Machine, Act.kind # "main",
         NEW q \in 1..(Len(acts) - 1), NEW sure \in BOOLEAN,
         Coherent(frames, acts, Len(frames), q, Ctx(winds', handlers'), sure),
         \A j \in (q + 1)..(Len(acts) - 1) : acts[j].saved > Len(frames),
         inside' = winds', params' = winds', frames' = frames, acts' = Front(acts),
         NEW s \in {"ok", "cont"}, mode' = Settle(frames, acts', s),
         s = "ok" => q = Len(acts) - 1, s = "cont" => sure \/ ~invoked'
  PROVE  acts' \in Seq(AnyAct) /\ Levels(acts)' /\ Going'
<1>1. acts \in Seq(AnyAct) /\ Levels(acts) /\ Len(acts) > 1 /\ Len(acts) \in Nat  BY StatusFacts
<1>2. /\ Levels(acts') /\ Len(acts') = Len(acts) - 1
      /\ \A j \in 1..(Len(acts) - 1) : acts'[j] = acts[j]
  BY <1>1, LevelsFront
<1>3. acts' \in Seq(AnyAct)  BY <1>2 DEF Levels
<1>4. Coherent(frames', acts', Len(frames'), q, Ctx(winds', handlers'), sure)
  <2>1. \A j \in 1..q : acts'[j] = acts[j]  BY <1>1, <1>2
  <2> QED  BY <2>1, CoherentSame
<1>5. \A j \in (q + 1)..Len(acts') : acts'[j].saved > Len(frames')
  <2>1. \A j \in (q + 1)..(Len(acts) - 1) : j \in 1..(Len(acts) - 1)  BY <1>1
  <2> QED  BY <2>1, <1>2
<1>6. q \in 1..Len(acts') /\ (s = "ok" => q = Len(acts'))  BY <1>2
<1>7. mode' = Settle(frames', acts', s)  OBVIOUS
<1>8. Going'  BY <1>2, <1>3, <1>4, <1>5, <1>6, <1>7, Goes
<1> QED  BY <1>2, <1>3, <1>8

LEMMA EscapeStep ==
  ASSUME Machine, EscapeNative \/ EscapeTransition
  PROVE  torn' = torn /\ Machine'
<1>1. /\ acts' = Front(acts) /\ frames' = frames /\ winds' = winds /\ handlers' = handlers
      /\ params' = params /\ conts' = conts /\ fuel' = fuel /\ inside' = inside /\ torn' = torn
      /\ mode' = Settle(frames, acts', "cont") /\ (invoked' = FALSE \/ invoked' = invoked)
  BY DEF EscapeNative, EscapeTransition, NativeExit, stacks, ghosts
<1>2. mode = "cont" /\ Len(frames) < Act.saved
  BY DEF EscapeNative, EscapeTransition, Escaped
<1>3. PICK q \in 1..(Len(acts) - 1), sure \in BOOLEAN :
        /\ Coherent(frames, acts, Len(frames), q, Ctx(winds, handlers), sure)
        /\ sure \/ ~invoked
        /\ \A j \in (q + 1)..Len(acts) : acts[j].saved > Len(frames)
  BY <1>2, EscapeFacts
<1>4. Act.kind # "main" /\ Len(acts) \in Nat  BY <1>2, StatusFacts
<1>5. \A j \in (q + 1)..(Len(acts) - 1) : acts[j].saved > Len(frames)
  <2>1. \A j \in (q + 1)..(Len(acts) - 1) : j \in (q + 1)..Len(acts)  BY <1>4
  <2> QED  BY <2>1, <1>3
<1>6. inside' = winds' /\ params' = winds'  BY <1>1, <1>2, EscapeFacts
<1>7. sure \/ ~invoked'  BY <1>1, <1>3
<1>8. acts' \in Seq(AnyAct) /\ Levels(acts)' /\ Going'
  <2>1. Coherent(frames, acts, Len(frames), q, Ctx(winds', handlers'), sure)  BY <1>1, <1>3
  <2> QED  BY <2>1, <1>1, <1>4, <1>5, <1>6, <1>7, NativeExitStep
<1>9. Types'  BY <1>1, StatusFacts DEF Types
<1> QED  BY <1>1, <1>8, <1>9, MachineNext

LEMMA EndCallCCStep ==
  ASSUME Machine, EndCallCC
  PROVE  torn' = torn /\ Machine'
<1>1. /\ acts' = Front(acts) /\ frames' = frames /\ winds' = winds /\ handlers' = handlers
      /\ params' = params /\ conts' = conts /\ fuel' = fuel /\ inside' = inside /\ torn' = torn
      /\ mode' = Settle(frames, acts', IF invoked THEN "cont" ELSE "ok") /\ invoked' = FALSE
  BY DEF EndCallCC, NativeExit, stacks, ghosts
<1>2. Arrived /\ Act.kind = "callcc"  BY DEF EndCallCC
<1> DEFINE c == Ctx(winds, handlers)   q == Len(acts) - 1
<1>3. inside = winds /\ params = winds  BY <1>2, NativeFacts
<1>4. PICK b \in Context, sure \in BOOLEAN :
        Coherent(frames, acts, Len(frames), q, b, sure) /\ ActLink(Act, c, b, sure)
  BY <1>2, NativeFacts
<1>5. c = b  BY <1>2, <1>4 DEF ActLink
<1>6. Act.kind # "main" /\ q \in 1..(Len(acts) - 1) /\ Len(acts) \in Nat  BY <1>2, StatusFacts
<1>7. \A j \in (q + 1)..(Len(acts) - 1) : acts[j].saved > Len(frames)  BY <1>6
<1> DEFINE s == IF invoked THEN "cont" ELSE "ok"
<1>8. acts' \in Seq(AnyAct) /\ Levels(acts)' /\ Going'
  <2>1. /\ Coherent(frames, acts, Len(frames), q, Ctx(winds', handlers'), sure)
        /\ inside' = winds' /\ params' = winds'
    BY <1>1, <1>3, <1>4, <1>5
  <2>2. s \in {"ok", "cont"} /\ mode' = Settle(frames, acts', s)  BY <1>1
  <2>3. s = "ok" => q = Len(acts) - 1  OBVIOUS
  <2> HIDE DEF s, q, c
  <2>4. q \in 1..(Len(acts) - 1)  BY <1>6
  <2> QED  BY <2>1, <2>2, <2>3, <2>4, <1>1, <1>6, <1>7, NativeExitStep
<1>9. Types'  BY <1>1, StatusFacts DEF Types
<1> QED  BY <1>1, <1>8, <1>9, MachineNext

LEMMA EndHandlerStep ==
  ASSUME Machine, EndHandler
  PROVE  torn' = torn /\ Machine'
<1>1. /\ acts' = Front(acts) /\ frames' = frames /\ winds' = winds
      /\ handlers' = (IF handlers = <<>> THEN <<>> ELSE Front(handlers))
      /\ params' = params /\ conts' = conts /\ fuel' = fuel /\ inside' = inside /\ torn' = torn
      /\ mode' = Settle(frames, acts', IF invoked THEN "cont" ELSE "ok") /\ invoked' = FALSE
  BY DEF EndHandler, NativeExit, ghosts
<1>2. Arrived /\ Act.kind = "handler"  BY DEF EndHandler
<1> DEFINE c == Ctx(winds, handlers)   q == Len(acts) - 1
<1>3. inside = winds /\ params = winds  BY <1>2, NativeFacts
<1>4. PICK b \in Context, sure \in BOOLEAN :
        Coherent(frames, acts, Len(frames), q, b, sure) /\ ActLink(Act, c, b, sure)
  BY <1>2, NativeFacts
<1>5. c.w = winds /\ c.h = handlers  BY DEF Ctx
<1>6. b.w = winds /\ handlers # <<>> /\ b.h = Front(handlers)
  <2> HIDE DEF c
  <2> QED  BY <1>2, <1>4, <1>5 DEF ActLink
<1>7. /\ b = Ctx(winds', handlers') /\ handlers' \in Seq(Handler)
  <2>1. b.h \in Seq(Handler) /\ b = Ctx(b.w, b.h)  BY CtxIs
  <2> QED  BY <2>1, <1>1, <1>6
<1>8. Act.kind # "main" /\ q \in 1..(Len(acts) - 1) /\ Len(acts) \in Nat  BY <1>2, StatusFacts
<1>9. \A j \in (q + 1)..(Len(acts) - 1) : acts[j].saved > Len(frames)  BY <1>8
<1> DEFINE s == IF invoked THEN "cont" ELSE "ok"
<1>10. acts' \in Seq(AnyAct) /\ Levels(acts)' /\ Going'
  <2>1. /\ Coherent(frames, acts, Len(frames), q, Ctx(winds', handlers'), sure)
        /\ inside' = winds' /\ params' = winds'
    BY <1>1, <1>3, <1>4, <1>7
  <2>2. s \in {"ok", "cont"} /\ mode' = Settle(frames, acts', s)  BY <1>1
  <2>3. s = "ok" => q = Len(acts) - 1  OBVIOUS
  <2> HIDE DEF s, q, c
  <2>4. q \in 1..(Len(acts) - 1)  BY <1>8
  <2> QED  BY <2>1, <2>2, <2>3, <2>4, <1>1, <1>8, <1>9, NativeExitStep
<1>11. Types'  BY <1>1, <1>7, StatusFacts DEF Types
<1> QED  BY <1>1, <1>10, <1>11, MachineNext

\* What is left when a C function of ch_vm_raise is gone.
LEMMA RaiserFront ==
  ASSUME Machine, Act.kind # "main", NEW b, NEW sure \in BOOLEAN,
         Coherent(frames, acts, Len(frames), Len(acts) - 1, b, sure)
  PROVE  /\ Front(acts) \in Seq(AnyAct) /\ Levels(Front(acts))
         /\ Coherent(frames, Front(acts), Len(frames), Len(Front(acts)), b, FALSE)
<1>1. acts \in Seq(AnyAct) /\ Levels(acts) /\ Len(acts) > 1 /\ Len(acts) \in Nat  BY StatusFacts
<1>2. /\ Levels(Front(acts)) /\ Len(Front(acts)) = Len(acts) - 1
      /\ \A j \in 1..(Len(acts) - 1) : Front(acts)[j] = acts[j]
  BY <1>1, LevelsFront
<1>3. Front(acts) \in Seq(AnyAct)  BY <1>2 DEF Levels
<1>4. Coherent(frames, acts, Len(frames), Len(acts) - 1, b, FALSE)
  <2>1. CASE sure = TRUE  BY <2>1, CoherentLess
  <2>2. CASE sure = FALSE  BY <2>2
  <2> QED  BY <2>1, <2>2
<1>5. Coherent(frames, Front(acts), Len(frames), Len(acts) - 1, b, FALSE)
  BY <1>2, <1>4, CoherentSame
<1> QED  BY <1>2, <1>3, <1>5

LEMMA EndUnwindStep ==
  ASSUME Machine, ~torn, EndUnwind
  PROVE  ~torn' /\ Machine'
<1>1. /\ mode' = "run" /\ handlers' = handlers /\ params' = params /\ conts' = conts
      /\ invoked' = invoked /\ fuel' = fuel /\ Act.kind = "unwind"
      /\ \/ Len(winds) > Act.eh.wc /\ UnwindOne(Front(acts), frames, Act.eh)
         \/ CallHandler(Front(acts), frames, Act.eh, FALSE, handlers)
  BY DEF EndUnwind
<1>2. /\ Types /\ acts \in Seq(AnyAct) /\ Act = acts[Len(acts)] /\ Len(acts) \in 1..Len(acts)
      /\ frames \in Seq(Frame) /\ Act.kind # "main" /\ Len(acts) \in Nat
  BY <1>1, StatusFacts
<1>3. Act.eh \in Handler
  <2>1. Act \in AnyAct  BY <1>2
  <2> QED  BY <2>1, ActIs
<1>4. mode = "ok"
  <2>1. SUFFICES ASSUME mode = "cont", Len(frames) = Act.saved PROVE FALSE
    BY DEF EndUnwind, Arrived
  <2>2. PICK q \in 1..Len(acts), sure \in BOOLEAN :
          Coherent(frames, acts, Len(frames), q, Ctx(winds, handlers), sure) /\ q = Len(acts)
    BY <2>1, EscapeFacts
  <2>3. Act.kind \in {"main", "handler", "callcc", "raise"}
    <3>1. Coherent(frames, acts, Len(frames), Len(acts), Ctx(winds, handlers), sure)  BY <2>2
    <3>2. Levels(acts) /\ Act = Last(acts)  BY StatusFacts
    <3> QED  BY <3>1, <3>2, <1>2, CoherentTop
  <2> QED  BY <2>3, <1>1
<1>5. UnwindArrives
  <2>1. ArriveState  BY <1>4 DEF Machine, Going
  <2> QED  BY <2>1, <1>1 DEF ArriveState, NativeArrives, TransArrives
<1>6. inside = winds /\ params = winds  BY <1>5 DEF UnwindArrives
<1>7. PICK b : Coherent(frames, acts, Len(frames), Len(acts) - 1, b, FALSE)
  BY <1>5 DEF UnwindArrives
<1>8. /\ Front(acts) \in Seq(AnyAct) /\ Levels(Front(acts))
      /\ Coherent(frames, Front(acts), Len(frames), Len(Front(acts)), b, FALSE)
  BY <1>2, <1>7, RaiserFront
<1>9. /\ acts' \in Seq(AnyAct) /\ Levels(acts)' /\ frames' \in Seq(Frame)
      /\ winds' \in Seq(Winds) /\ inside' \in Seq(Winds) /\ ~torn' /\ RunState'
  <2>1. CASE Len(winds) > Act.eh.wc /\ UnwindOne(Front(acts), frames, Act.eh)
    BY <2>1, <1>1, <1>2, <1>3, <1>6, <1>8, UnwindOneStep
  <2>2. CASE CallHandler(Front(acts), frames, Act.eh, FALSE, handlers)
    <3>1. handlers' \in Seq(Handler)  BY <1>1, <1>2 DEF Types
    <3>2. CallHandler(Front(acts), frames, Act.eh, FALSE, handlers')  BY <2>2, <1>1
    <3> QED  BY <3>1, <3>2, <1>1, <1>2, <1>3, <1>6, <1>8, CallHandlerStep
  <2> QED  BY <2>1, <2>2, <1>1
<1>10. Going'  BY <1>1, <1>9 DEF Going
<1>11. Types'  BY <1>1, <1>2, <1>9 DEF Types
<1> QED  BY <1>1, <1>9, <1>10, <1>11, MachineNext

LEMMA EndRaiseStep ==
  ASSUME Machine, ~torn, EndRaise, ~astray'
  PROVE  ~torn' /\ (mode' = "dead" \/ Machine')
<1> DEFINE c == Ctx(winds, handlers)   q == Len(acts) - 1
<1>1. Arrived /\ Act.kind = "raise" /\ params' = params /\ conts' = conts /\ fuel' = fuel
  BY DEF EndRaise
<1>2. /\ inside = winds /\ params = winds
      /\ \E b \in Context, sure \in BOOLEAN :
           /\ Coherent(frames, acts, Len(frames), q, b, sure)
           /\ mode = "ok" \/ sure \/ ~invoked
           /\ ActLink(Act, c, b, sure)
  BY <1>1, NativeFacts
<1>3. PICK b \in Context, sure \in BOOLEAN :
        /\ Coherent(frames, acts, Len(frames), q, b, sure)
        /\ mode = "ok" \/ sure \/ ~invoked
        /\ ActLink(Act, c, b, sure)
  BY <1>2
<1>4. c.h = handlers  BY DEF Ctx
<1> HIDE DEF c
<1>5. (Act.cont \/ sure => c = b) /\ (c = b \/ Act.hb = Len(handlers))
  BY <1>1, <1>3, <1>4 DEF ActLink
<1>6. /\ Types /\ Act.kind # "main" /\ q \in 1..(Len(acts) - 1) /\ Len(acts) \in Nat
      /\ frames \in Seq(Frame)
  BY <1>1, StatusFacts
<1>7. \A j \in (q + 1)..(Len(acts) - 1) : acts[j].saved > Len(frames)  BY <1>6
<1> HIDE DEF q
<1>8. CASE invoked \/ Len(handlers) # Act.hb
  <2>1. /\ acts' = Front(acts) /\ frames' = frames /\ winds' = winds /\ handlers' = handlers
        /\ inside' = inside /\ torn' = torn /\ invoked' = FALSE
        /\ mode' = Settle(frames, acts', "cont") /\ mode # "ok"
    BY <1>8 DEF EndRaise, NativeExit
  <2>2. c = b  BY <2>1, <1>3, <1>5, <1>8
  <2>3. Coherent(frames, acts, Len(frames), q, Ctx(winds', handlers'), sure)
    BY <2>1, <2>2, <1>3 DEF c
  <2>4. acts' \in Seq(AnyAct) /\ Levels(acts)' /\ Going'
    <3>1. inside' = winds' /\ params' = winds'  BY <2>1, <1>1, <1>2
    <3> QED  BY <3>1, <2>1, <2>3, <1>6, <1>7, NativeExitStep
  <2>5. Types'  BY <2>1, <1>1, <1>6 DEF Types
  <2> QED  BY <2>1, <2>4, <2>5, <1>1, MachineNext
<1>9. CASE ~(invoked \/ Len(handlers) # Act.hb) /\ Act.cont
  <2>1. /\ acts' = Front(acts) /\ frames' = frames /\ winds' = winds /\ handlers' = handlers
        /\ inside' = inside /\ torn' = torn /\ invoked' = FALSE
        /\ mode' = Settle(frames, acts', "ok")
    BY <1>9 DEF EndRaise, NativeExit
  <2>2. c = b  BY <1>5, <1>9
  <2>3. Coherent(frames, acts, Len(frames), q, Ctx(winds', handlers'), sure)
    BY <2>1, <2>2, <1>3 DEF c
  <2>4. acts' \in Seq(AnyAct) /\ Levels(acts)' /\ Going'
    <3>1. inside' = winds' /\ params' = winds'  BY <2>1, <1>1, <1>2
    <3>2. q = Len(acts) - 1  BY DEF q
    <3> QED  BY <3>1, <3>2, <2>1, <2>3, <1>6, <1>7, NativeExitStep
  <2>5. Types'  BY <2>1, <1>1, <1>6 DEF Types
  <2> QED  BY <2>1, <2>4, <2>5, <1>1, MachineNext
<1>10. CASE ~(invoked \/ Len(handlers) # Act.hb) /\ ~Act.cont
  <2>1. RaiseFrom(Front(acts), frames, FALSE) /\ invoked' = invoked  BY <1>10 DEF EndRaise
  <2>2. /\ Front(acts) \in Seq(AnyAct) /\ Levels(Front(acts))
        /\ Coherent(frames, Front(acts), Len(frames), Len(Front(acts)), b, FALSE)
    <3>1. Coherent(frames, acts, Len(frames), Len(acts) - 1, b, sure)  BY <1>3 DEF q
    <3> QED  BY <3>1, <1>6, RaiserFront
  <2>3. /\ ~torn' /\ mode' \in {"run", "dead"}
        /\ mode' = "run" => /\ acts' \in Seq(AnyAct) /\ Levels(acts)' /\ frames' \in Seq(Frame)
                            /\ winds' \in Seq(Winds) /\ inside' \in Seq(Winds)
                            /\ handlers' \in Seq(Handler) /\ RunState'
    BY <2>1, <2>2, <1>1, <1>2, <1>6, RaiseFromStep
  <2>4. SUFFICES ASSUME mode' = "run" PROVE Machine'  BY <2>3
  <2>5. Types'  BY <2>1, <2>3, <2>4, <1>1, <1>6 DEF Types
  <2>6. Going'  BY <2>3, <2>4 DEF Going
  <2> QED  BY <2>3, <2>4, <2>5, <2>6, <1>1, MachineNext
<1> QED  BY <1>8, <1>9, <1>10

-----------------------------------------------------------------------------
(* Continuations                                                              *)

\* Of a rising sequence of levels, those up to n come first.
LEMMA Division ==
  ASSUME NEW st \in Seq(AnyAct), Levels(st), NEW n \in Nat, NEW m \in 1..Len(st),
         \A j \in 1..m : st[j].saved <= n
  PROVE  \E q \in m..Len(st) : /\ \A j \in 1..q : st[j].saved <= n
                               /\ \A j \in (q + 1)..Len(st) : st[j].saved > n
<1>1. Len(st) \in Nat /\ \A j \in 1..Len(st) : st[j].saved \in Nat
  <2>1. \A j \in 1..Len(st) : st[j] \in AnyAct  BY LevelFacts
  <2> QED  BY <2>1, ActIs
<1>2. \A i, j \in 1..Len(st) : i <= j => st[i].saved <= st[j].saved  BY DEF Levels
<1>3. CASE \A j \in 1..Len(st) : st[j].saved <= n
  <2>1. Len(st) \in m..Len(st) /\ \A j \in (Len(st) + 1)..Len(st) : st[j].saved > n  BY <1>1
  <2> QED  BY <2>1, <1>3
<1>4. CASE \E j \in 1..Len(st) : ~(st[j].saved <= n)
  <2> DEFINE P == {j \in 1..Len(st) : ~(st[j].saved <= n)}
  <2>1. PICK k \in P : \A i \in P : k <= i
    <3>1. P \subseteq Nat /\ P # {}  BY <1>4
    <3> HIDE DEF P
    <3> QED  BY <3>1, LeastNat
  <2>2. k \in 1..Len(st) /\ ~(st[k].saved <= n)  OBVIOUS
  <2>3. \A i \in 1..Len(st) : i < k => st[i].saved <= n
    <3> TAKE i \in 1..Len(st)
    <3>1. i < k => ~(k <= i)  BY <2>2
    <3> QED  BY <3>1, <2>1
  <2>4. \A i \in 1..Len(st) : k <= i => st[i].saved > n
    <3> SUFFICES ASSUME NEW i \in 1..Len(st), k <= i PROVE st[i].saved > n  OBVIOUS
    <3>1. st[k].saved <= st[i].saved /\ st[k].saved \in Nat /\ st[i].saved \in Nat
      BY <1>1, <1>2, <2>2
    <3> QED  BY <3>1, <2>2
  <2> HIDE DEF P
  <2>5. m < k
    <3>1. ~(k \in 1..m)  BY <2>2
    <3> QED  BY <3>1, <2>2
  <2>6. k - 1 \in m..Len(st)  BY <2>2, <2>5, <1>1
  <2>7. \A j \in 1..(k - 1) : j \in 1..Len(st) /\ j < k  BY <2>2, <1>1
  <2>8. \A j \in ((k - 1) + 1)..Len(st) : j \in 1..Len(st) /\ k <= j  BY <2>2, <1>1
  <2>9. \A j \in 1..(k - 1) : st[j].saved <= n  BY <2>3, <2>7
  <2>10. \A j \in ((k - 1) + 1)..Len(st) : st[j].saved > n  BY <2>4, <2>8
  <2> QED  BY <2>6, <2>9, <2>10
<1> QED  BY <1>3, <1>4

\* The activations a continuation needs are the first of those there are.
LEMMA NeedsFirst ==
  ASSUME NEW S, NEW s \in Seq(S), NEW t \in Seq(S), IsPrefix(s, t)
  PROVE  Len(s) <= Len(t) /\ \A i \in 1..Len(s) : s[i] = t[i]
<1>1. Len(s) <= Len(t) /\ \A i \in 1..Len(s) : s[i] = t[i]  BY DEF IsPrefix
<1> QED  BY <1>1

LEMMA RestoreStep ==
  ASSUME NEW st \in Seq(AnyAct), Levels(st), NEW c, GoodCont(c), Restore(st, c), ~astray',
         inside = c.winds, ~torn
  PROVE  /\ ~torn' /\ acts' \in Seq(AnyAct) /\ Levels(acts)' /\ Going'
         /\ frames' \in Seq(Frame) /\ winds' \in Seq(Winds) /\ handlers' \in Seq(Handler)
         /\ params' \in Seq(Winds) /\ inside' \in Seq(Winds) /\ invoked' \in BOOLEAN
<1> DEFINE n == Len(c.frames)   m == Len(c.needs)   k == Ctx(c.winds, c.handlers)
<1>1. /\ frames' = c.frames /\ winds' = c.winds /\ handlers' = c.handlers /\ params' = c.params
      /\ acts' = st /\ invoked' = TRUE /\ mode' = Settle(c.frames, st, "cont") /\ Fits(st, c)
      /\ inside' = c.winds /\ torn' = torn
  BY DEF Restore
<1>2. /\ c.frames \in Seq(Frame) /\ c.winds \in Seq(Winds) /\ c.handlers \in Seq(Handler)
      /\ c.params \in Seq(Winds) /\ c.needs \in Seq(Plain) /\ c.params = c.winds
  BY DEF GoodCont, Continuation
<1>3. Coherent(c.frames, c.needs, n, m, k, FALSE)
  <2>1. Coherent(c.frames, c.needs, Len(c.frames), Len(c.needs), Ctx(c.winds, c.handlers), FALSE)
    BY DEF GoodCont
  <2> QED  BY <2>1
<1>4. /\ n \in Nat /\ m \in Nat \ {0} /\ \A j \in 1..m : c.needs[j].saved \in 0..n
      /\ \A j \in 2..m : c.needs[j].kind \in {"handler", "callcc", "raise"}
  <2> DEFINE fr == c.frames   nd == c.needs
  <2>1. Coherent(fr, nd, n, m, k, FALSE)  BY <1>3
  <2> HIDE DEF fr, nd, n, m, k
  <2>2. /\ n \in Nat /\ m \in Nat \ {0} /\ \A j \in 1..m : nd[j].saved \in 0..n
        /\ \A j \in 2..m : nd[j].kind \in {"handler", "callcc", "raise"}
    BY <2>1, CoherentFacts
  <2> QED  BY <2>2 DEF nd
<1>5. m <= Len(st) /\ \A j \in 1..m : c.needs[j] = st[j]
  <2>1. IsPrefix(c.needs, st)  BY <1>1 DEF Fits
  <2>2. c.needs \in Seq(AnyAct)
    <3>1. \A a \in Plain : a \in AnyAct  BY DEF AnyAct
    <3> HIDE DEF m
    <3> QED  BY <3>1, <1>2
  <2> QED  BY <2>1, <2>2, NeedsFirst
<1>6. \A i \in 1..Len(st) :
        /\ st[i].saved < n => i <= m
        /\ st[i].saved = n /\ st[i].kind \in {"handler", "trans", "unwind"} => i <= m
        /\ st[i].saved = n /\ st[i].kind = "raise" => i > m
  BY <1>1 DEF Fits
<1>7. /\ Len(st) \in Nat \ {0} /\ \A j \in 1..Len(st) : st[j] \in AnyAct
      /\ \A j \in 2..Len(st) : st[j].kind # "main"
  BY LevelFacts DEF Levels
<1>8. \A j \in 1..Len(st) : st[j].saved \in Nat /\ st[j].kind \in ActKinds  BY <1>7, ActIs
<1> HIDE DEF n, m, k
<1>9. m \in 1..Len(st) /\ \A j \in 1..m : j \in 1..Len(st) /\ j <= m  BY <1>4, <1>5, <1>7
<1>10. \A j \in 1..m : st[j].saved <= n
  <2> TAKE j \in 1..m
  <2>1. st[j].saved \in 0..n  BY <1>4, <1>5
  <2> QED  BY <2>1, <1>4
<1>11. PICK q \in m..Len(st) : /\ \A j \in 1..q : st[j].saved <= n
                               /\ \A j \in (q + 1)..Len(st) : st[j].saved > n
  BY <1>4, <1>9, <1>10, Division
<1>12. q \in Nat /\ m <= q /\ q \in 1..Len(st)  BY <1>4, <1>7, <1>11
<1>13. \A j \in (m + 1)..q : st[j].saved = n /\ st[j].kind \in {"callcc", "raise"}
  <2> TAKE j \in (m + 1)..q
  <2>1. /\ j \in 1..Len(st) /\ j \in 2..Len(st) /\ j \in 1..q /\ ~(j <= m)
    BY <1>4, <1>7, <1>12
  <2>2. st[j].saved <= n /\ ~(st[j].saved < n) /\ st[j].saved \in Nat
    BY <2>1, <1>6, <1>8, <1>11
  <2>3. st[j].saved = n  BY <2>2, <1>4
  <2>4. st[j].kind \notin {"handler", "trans", "unwind", "main"} /\ st[j].kind \in ActKinds
    BY <2>1, <2>3, <1>6, <1>7, <1>8
  <2> QED  BY <2>3, <2>4 DEF ActKinds
<1>14. \A j \in 2..m : c.needs[j].saved = n => c.needs[j].kind # "raise"
  <2> TAKE j \in 2..m
  <2>1. j \in 1..m /\ j \in 1..Len(st) /\ ~(j > m)  BY <1>4, <1>9
  <2> QED  BY <2>1, <1>5, <1>6
<1>15. Coherent(c.frames, st, n, q, k, TRUE)
  <2>1. \A j \in 1..m : st[j] = c.needs[j]  BY <1>5
  <2> QED  BY <2>1, <1>3, <1>12, <1>13, <1>14, PassActs
<1>16. Coherent(frames', acts', Len(frames'), q, Ctx(winds', handlers'), TRUE)
  BY <1>1, <1>15 DEF n, k
<1>17. \A j \in (q + 1)..Len(acts') : acts'[j].saved > Len(frames')  BY <1>1, <1>11 DEF n
<1>18. acts' \in Seq(AnyAct) /\ Levels(acts)'  BY <1>1
<1>19. /\ inside' = winds' /\ params' = winds' /\ mode' = Settle(frames', acts', "cont")
       /\ q \in 1..Len(acts')
  BY <1>1, <1>2, <1>12
<1>20. Going'  BY <1>16, <1>17, <1>18, <1>19, Goes
<1> QED  BY <1>1, <1>2, <1>18, <1>20

\* The first n elements of a sequence.
LEMMA FrontParts ==
  ASSUME NEW S, NEW s \in Seq(S), NEW n \in 0..Len(s)
  PROVE  /\ SubSeq(s, 1, n) \in Seq(S) /\ Len(SubSeq(s, 1, n)) = n
         /\ \A i \in 1..n : SubSeq(s, 1, n)[i] = s[i]
         /\ n = Len(s) => SubSeq(s, 1, n) = s
         /\ n < Len(s) => SubSeq(Front(s), 1, n) = SubSeq(s, 1, n)
         /\ n < Len(s) => Append(SubSeq(s, 1, n), s[n + 1]) = SubSeq(s, 1, n + 1)
<1>1. Len(s) \in Nat /\ n \in Nat /\ n <= Len(s) /\ \A i \in 1..n : i \in 1..Len(s)  OBVIOUS
<1> DEFINE t == SubSeq(s, 1, n)
<1>2. t \in Seq(S) /\ Len(t) = n /\ \A i \in 1..n : t[i] = s[i]
  <2>1. t = [i \in 1..n |-> s[i]]  BY <1>1
  <2> HIDE DEF t
  <2>2. \A i \in 1..n : t[i] = s[i] /\ s[i] \in S  BY <2>1, <1>1
  <2>3. t \in Seq(S) /\ Len(t) = n  BY <2>1, <2>2, <1>1
  <2> QED  BY <2>2, <2>3
<1> HIDE DEF t
<1>3. n = Len(s) => t = s  BY <1>2, SeqEqual
<1>4. n < Len(s) => SubSeq(Front(s), 1, n) = t
  <2> SUFFICES ASSUME n < Len(s) PROVE SubSeq(Front(s), 1, n) = t  OBVIOUS
  <2> DEFINE f == Front(s)
  <2>1. Len(s) >= 1  BY <1>1
  <2>2. f \in Seq(S) /\ Len(f) = Len(s) - 1 /\ \A i \in 1..(Len(s) - 1) : f[i] = s[i]
    BY <2>1, Fronts
  <2>3. n <= Len(s) - 1 /\ \A i \in 1..n : i \in 1..(Len(s) - 1)  BY <1>1
  <2> HIDE DEF f
  <2> DEFINE g == SubSeq(f, 1, n)
  <2>4. g = [i \in 1..n |-> f[i]]  BY <1>1, <2>2, <2>3
  <2> HIDE DEF g
  <2>5. \A i \in 1..n : g[i] = t[i] /\ g[i] \in S
    <3> TAKE i \in 1..n
    <3>1. g[i] = f[i]  BY <2>4
    <3>2. f[i] = s[i]  BY <2>2, <2>3
    <3>3. t[i] = s[i] /\ s[i] \in S  BY <1>1, <1>2
    <3> QED  BY <3>1, <3>2, <3>3
  <2>6. g \in Seq(S) /\ Len(g) = n  BY <2>4, <2>5, <1>1
  <2>7. g = t  BY <2>5, <2>6, <1>2, SeqEqual
  <2> QED  BY <2>7 DEF g, f
<1>5. n < Len(s) => Append(t, s[n + 1]) = SubSeq(s, 1, n + 1)
  <2> SUFFICES ASSUME n < Len(s) PROVE Append(t, s[n + 1]) = SubSeq(s, 1, n + 1)  OBVIOUS
  <2> DEFINE g == SubSeq(s, 1, n + 1)   a == Append(t, s[n + 1])
  <2>1. n + 1 \in 1..Len(s) /\ n + 1 \in Nat  BY <1>1
  <2>2. s[n + 1] \in S  BY <2>1
  <2>3. a \in Seq(S) /\ Len(a) = n + 1 /\ a[n + 1] = s[n + 1] /\ \A i \in 1..n : a[i] = t[i]
    BY <2>2, <1>2, Appends
  <2>4. g = [i \in 1..(n + 1) |-> s[i]]  BY <1>1, <2>1
  <2> HIDE DEF a, g
  <2>5. \A i \in 1..(n + 1) : i \in 1..n \/ i = n + 1  BY <1>1
  <2>6. \A i \in 1..(n + 1) : g[i] = a[i]  BY <2>3, <2>4, <2>5, <1>2
  <2>7. \A i \in 1..(n + 1) : s[i] \in S  BY <1>1, <2>1
  <2>8. g \in Seq(S) /\ Len(g) = n + 1  BY <2>1, <2>4, <2>7
  <2>9. a = g  BY <2>3, <2>6, <2>8, SeqEqual
  <2> QED  BY <2>9 DEF a, g
<1> QED  BY <1>2, <1>3, <1>4, <1>5 DEF t

\* What is to be done with the winds ws on the way to those of c.
LEMMA UnderwayFacts ==
  ASSUME NEW c, c.winds \in Seq(Winds), NEW ws \in Seq(Winds), NEW common, NEW j \in Nat,
         Underway(ws, c, common, j)
  PROVE  /\ common \in Nat /\ j \in Nat
         /\ j = common /\ Len(ws) > common =>
              Len(ws) >= 1 /\ Underway(Front(ws), c, common, j)
         /\ (j > common \/ Len(ws) <= common) /\ j < Len(c.winds) =>
              /\ Entering(ws, c, common, j + 1) /\ j + 1 \in Nat
              /\ c.winds[j + 1] \in Winds
         /\ ~(j = common /\ Len(ws) > common)
              /\ ~((j > common \/ Len(ws) <= common) /\ j < Len(c.winds)) => ws = c.winds
<1> DEFINE cw == c.winds
<1> HIDE DEF cw
<1>1. /\ common \in 0..Len(cw) /\ cw \in Seq(Winds) /\ Len(cw) \in Nat /\ Len(ws) \in Nat
      /\ \/ j = common /\ Len(ws) >= common /\ SubSeq(ws, 1, common) = SubSeq(cw, 1, common)
         \/ j > common /\ j <= Len(cw) /\ ws = SubSeq(cw, 1, j)
  BY DEF Underway, cw
<1>2. common \in Nat /\ common <= Len(cw)  BY <1>1
<1>3. CASE /\ j = common /\ Len(ws) >= common
           /\ SubSeq(ws, 1, common) = SubSeq(cw, 1, common)
  <2>1. common \in 0..Len(ws)  BY <1>1, <1>2, <1>3
  <2>2. Len(ws) > common => Len(ws) >= 1 /\ Underway(Front(ws), c, common, j)
    <3> SUFFICES ASSUME Len(ws) > common
                 PROVE  Len(ws) >= 1 /\ Underway(Front(ws), c, common, j)
      OBVIOUS
    <3>1. Len(ws) >= 1 /\ Len(ws) - 1 >= common  BY <1>1, <1>2
    <3>2. Len(Front(ws)) = Len(ws) - 1  BY <3>1, Fronts
    <3>3. SubSeq(Front(ws), 1, common) = SubSeq(ws, 1, common)  BY <2>1, FrontParts
    <3> HIDE DEF Front
    <3> QED  BY <3>1, <3>2, <3>3, <1>1, <1>3 DEF Underway, cw
  <2>3. Len(ws) <= common => ws = SubSeq(cw, 1, common)
    <3> SUFFICES ASSUME Len(ws) <= common PROVE ws = SubSeq(cw, 1, common)  OBVIOUS
    <3>1. common = Len(ws)  BY <1>1, <1>2, <1>3
    <3>2. SubSeq(ws, 1, common) = ws  BY <2>1, <3>1, FrontParts
    <3> QED  BY <3>2, <1>3
  <2>4. Len(ws) <= common /\ j < Len(cw) =>
          Entering(ws, c, common, j + 1) /\ j + 1 \in Nat /\ cw[j + 1] \in Winds
    <3> SUFFICES ASSUME Len(ws) <= common, j < Len(cw)
                 PROVE  Entering(ws, c, common, j + 1) /\ j + 1 \in Nat /\ cw[j + 1] \in Winds
      OBVIOUS
    <3>1. /\ j + 1 > common /\ j + 1 <= Len(cw) /\ (j + 1) - 1 = common /\ j + 1 \in 1..Len(cw)
      BY <1>1, <1>2, <1>3
    <3>2. cw[j + 1] \in Winds  BY <3>1, <1>1
    <3> QED  BY <3>1, <3>2, <2>3, <1>1 DEF Entering, cw
  <2>5. Len(ws) <= common /\ ~(j < Len(cw)) => ws = cw
    <3> SUFFICES ASSUME Len(ws) <= common, ~(j < Len(cw)) PROVE ws = cw  OBVIOUS
    <3>1. common = Len(cw)  BY <1>1, <1>2, <1>3
    <3>2. SubSeq(cw, 1, common) = cw  BY <3>1, <1>1, FrontParts
    <3> QED  BY <3>2, <2>3
  <2>6. ~(j > common)  BY <1>2, <1>3
  <2>7. ~(Len(ws) > common) => Len(ws) <= common  BY <1>1, <1>2
  <2> QED  BY <2>2, <2>4, <2>5, <2>6, <2>7, <1>2, <1>3 DEF cw
<1>4. CASE j > common /\ j <= Len(cw) /\ ws = SubSeq(cw, 1, j)
  <2>1. j \in Nat  OBVIOUS
  <2>2. j # common /\ j \in 0..Len(cw)  BY <2>1, <1>1, <1>2, <1>4
  <2>3. j < Len(cw) => Entering(ws, c, common, j + 1) /\ j + 1 \in Nat /\ cw[j + 1] \in Winds
    <3> SUFFICES ASSUME j < Len(cw)
                 PROVE  Entering(ws, c, common, j + 1) /\ j + 1 \in Nat /\ cw[j + 1] \in Winds
      OBVIOUS
    <3>1. /\ j + 1 > common /\ j + 1 <= Len(cw) /\ (j + 1) - 1 = j /\ j + 1 \in 1..Len(cw)
      BY <2>1, <1>1, <1>2, <1>4
    <3>2. cw[j + 1] \in Winds  BY <3>1, <1>1
    <3> QED  BY <3>1, <3>2, <1>1, <1>4 DEF Entering, cw
  <2>4. ~(j < Len(cw)) => ws = cw
    <3> SUFFICES ASSUME ~(j < Len(cw)) PROVE ws = cw  OBVIOUS
    <3>1. j = Len(cw)  BY <2>1, <1>1, <1>4
    <3>2. SubSeq(cw, 1, j) = cw  BY <2>2, <3>1, <1>1, FrontParts
    <3> QED  BY <3>2, <1>4
  <2> QED  BY <2>1, <2>2, <2>3, <2>4, <1>2, <1>4 DEF cw
<1> QED  BY <1>1, <1>3, <1>4

LEMMA EnteringFacts ==
  ASSUME NEW c, c.winds \in Seq(Winds), NEW ws \in Seq(Winds), NEW common, NEW j \in Nat,
         Entering(ws, c, common, j)
  PROVE  /\ Len(ws) = j - 1 /\ j > common /\ c.winds[j] \in Winds
         /\ Append(ws, c.winds[j]) \in Seq(Winds)
         /\ Underway(Append(ws, c.winds[j]), c, common, j)
<1> DEFINE cw == c.winds
<1> HIDE DEF cw
<1>1. /\ common \in 0..Len(cw) /\ cw \in Seq(Winds) /\ Len(cw) \in Nat
      /\ j > common /\ j <= Len(cw) /\ ws = SubSeq(cw, 1, j - 1)
  BY DEF Entering, cw
<1>2. j - 1 \in 0..Len(cw) /\ j - 1 < Len(cw) /\ (j - 1) + 1 = j /\ j \in 1..Len(cw)  BY <1>1
<1>3. /\ Len(ws) = j - 1
      /\ Append(SubSeq(cw, 1, j - 1), cw[(j - 1) + 1]) = SubSeq(cw, 1, (j - 1) + 1)
  BY <1>1, <1>2, FrontParts
<1>4. Append(ws, cw[j]) = SubSeq(cw, 1, j)  BY <1>1, <1>2, <1>3
<1>5. cw[j] \in Winds  BY <1>1, <1>2
<1>6. Append(ws, cw[j]) \in Seq(Winds)  BY <1>5, Appends
<1>7. Underway(Append(ws, cw[j]), c, common, j)  BY <1>1, <1>4 DEF Underway, cw
<1> QED  BY <1>1, <1>3, <1>5, <1>6, <1>7 DEF cw

\* ch_vm_wind_transition goes on: a thunk more, or the copies.
LEMMA TransitionStep ==
  ASSUME NEW st \in Seq(AnyAct), Levels(st), Types, Len(frames) >= Last(st).saved,
         NEW c, GoodCont(c), NEW common, NEW j \in Nat, NEW ws \in Seq(Winds),
         Underway(ws, c, common, j), inside = ws, ~torn,
         Transition(st, c, common, j, ws), ~astray'
  PROVE  /\ ~torn' /\ acts' \in Seq(AnyAct) /\ Levels(acts)' /\ Going'
         /\ frames' \in Seq(Frame) /\ winds' \in Seq(Winds) /\ handlers' \in Seq(Handler)
         /\ params' \in Seq(Winds) /\ inside' \in Seq(Winds) /\ invoked' \in BOOLEAN
<1> DEFINE n == Len(frames)   leave == j = common /\ Len(ws) > common
           enter == (j > common \/ Len(ws) <= common) /\ j < Len(c.winds)
<1>1. /\ frames \in Seq(Frame) /\ handlers \in Seq(Handler) /\ params \in Seq(Winds)
      /\ invoked \in BOOLEAN /\ fuel \in Nat /\ n \in Nat
  BY DEF Types
<1>2. c \in Continuation /\ c.winds \in Seq(Winds)  BY DEF GoodCont, Continuation
<1>3. /\ common \in Nat
      /\ leave => Len(ws) >= 1 /\ Underway(Front(ws), c, common, j)
      /\ enter => /\ Entering(ws, c, common, j + 1) /\ j + 1 \in Nat
                  /\ c.winds[j + 1] \in Winds
      /\ ~leave /\ ~enter => ws = c.winds
  BY <1>2, UnderwayFacts
<1>4. \A i \in Nat : \A a :
        a = TransAct(frames, c, common, i) =>
          /\ a \in AnyAct /\ a.kind = "trans" /\ a.saved = n /\ a.target = c
          /\ a.common = common /\ a.j = i
  <2> TAKE i \in Nat
  <2> TAKE a
  <2>1. SUFFICES ASSUME a = TransAct(frames, c, common, i)
                 PROVE  /\ a \in AnyAct /\ a.kind = "trans" /\ a.saved = n /\ a.target = c
                        /\ a.common = common /\ a.j = i
    OBVIOUS
  <2>2. /\ a \in Moving /\ a.kind = "trans" /\ a.saved = n /\ a.target = c
        /\ a.common = common /\ a.j = i
    BY <2>1, <1>1, <1>2, <1>3, MovingActivation
  <2> QED  BY <2>2 DEF AnyAct
<1>5. Len(st) \in Nat \ {0}  BY LevelFacts
\* The thunk t of the target's i-th wind is called.
<1>6. ASSUME NEW i \in Nat, NEW a, a = TransAct(frames, c, common, i), NEW t \in Frame,
             acts' = Append(st, a), frames' = Append(frames, t)
      PROVE  /\ acts' \in Seq(AnyAct) /\ Levels(acts') /\ frames' \in Seq(Frame)
             /\ Act' = a /\ Top' = t /\ Len(acts') > 1 /\ Act'.saved = Len(frames') - 1
             /\ Len(frames') > Act'.saved
             /\ Act'.kind = "trans" /\ Act'.target = c /\ Act'.common = common /\ Act'.j = i
  <2>1. /\ a \in AnyAct /\ a.kind = "trans" /\ a.saved = n /\ a.target = c
        /\ a.common = common /\ a.j = i
    BY <1>4, <1>6
  <2>2. a.kind # "main" /\ a.saved >= Last(st).saved  BY <2>1
  <2>3. a.kind = "trans" => GoodCont(a.target)  BY <2>1
  <2>4. /\ Levels(Append(st, a)) /\ Len(Append(st, a)) = Len(st) + 1 /\ Last(Append(st, a)) = a
    BY <2>1, <2>2, <2>3, LevelsAppend
  <2>5. Append(st, a) \in Seq(AnyAct)  BY <2>1
  <2>6. /\ frames' \in Seq(Frame) /\ Len(frames') = n + 1 /\ Last(frames') = t
    BY <1>1, <1>6, Appends
  <2>7. Act' = a /\ Top' = t  BY <2>4, <2>6, <1>6 DEF Act, Top
  <2>8. Len(acts') > 1  BY <2>4, <1>5, <1>6
  <2>9. Act'.saved = Len(frames') - 1 /\ Len(frames') > Act'.saved  BY <2>1, <2>6, <2>7, <1>1
  <2> QED  BY <2>1, <2>4, <2>5, <2>6, <2>7, <2>8, <2>9, <1>6
<1>7. CASE leave
  <2> DEFINE a == TransAct(frames, c, common, j)   t == Thunk("after", Last(ws))
  <2>1. /\ acts' = Append(st, a) /\ frames' = Append(frames, t) /\ winds' = Front(ws)
        /\ Leaving(Last(ws)) /\ mode' = "run" /\ handlers' = handlers /\ params' = params
        /\ invoked' = invoked
    BY <1>7 DEF Transition, TransAct
  <2>2. Len(ws) >= 1 /\ Underway(Front(ws), c, common, j)  BY <1>3, <1>7
  <2>3. Front(ws) \in Seq(Winds) /\ Last(ws) \in Winds /\ ws # <<>>  BY <2>2, Fronts
  <2>4. inside' = Front(ws) /\ ~torn'  BY <2>1, <2>3 DEF Leaving
  <2>5. t \in Frame /\ t.kind = "after" /\ t.wind = Last(ws)
    <3>1. "after" \in Thunks  BY DEF Thunks
    <3> QED  BY <3>1, <2>3, <1>1, FrameIs
  <2> HIDE DEF a, t, leave, enter
  <2>6. /\ acts' \in Seq(AnyAct) /\ Levels(acts') /\ frames' \in Seq(Frame)
        /\ Act' = a /\ Top' = t /\ Len(acts') > 1 /\ Act'.saved = Len(frames') - 1
        /\ Len(frames') > Act'.saved
        /\ Act'.kind = "trans" /\ Act'.target = c /\ Act'.common = common /\ Act'.j = j
    <3>1. a = TransAct(frames, c, common, j)  BY DEF a
    <3> QED  BY <3>1, <2>1, <2>5, <1>6
  <2>7. j = common  BY <1>7 DEF leave
  <2>8. TransThunk'  BY <2>1, <2>2, <2>5, <2>6, <2>7 DEF TransThunk
  <2>9. ThunkState'  BY <2>1, <2>3, <2>4, <2>5, <2>6, <2>8 DEF ThunkState, Thunks
  <2>10. Going'  BY <2>1, <2>6, <2>9 DEF Going, RunState
  <2> QED  BY <2>1, <2>3, <2>4, <2>6, <2>10, <1>1
<1>8. CASE ~leave /\ enter
  <2> DEFINE a == TransAct(frames, c, common, j + 1)   t == Thunk("before", c.winds[j + 1])
  <2>1. /\ acts' = Append(st, a) /\ frames' = Append(frames, t) /\ winds' = ws
        /\ mode' = "run" /\ handlers' = handlers /\ params' = params /\ invoked' = invoked
        /\ inside' = inside /\ torn' = torn
    BY <1>8 DEF Transition, TransAct
  <2>2. Entering(ws, c, common, j + 1) /\ j + 1 \in Nat /\ c.winds[j + 1] \in Winds
    BY <1>3, <1>8
  <2>3. t \in Frame /\ t.kind = "before" /\ t.wind = c.winds[j + 1]
    <3>1. "before" \in Thunks  BY DEF Thunks
    <3> QED  BY <3>1, <2>2, <1>1, FrameIs
  <2> HIDE DEF a, t, leave, enter
  <2>4. /\ acts' \in Seq(AnyAct) /\ Levels(acts') /\ frames' \in Seq(Frame)
        /\ Act' = a /\ Top' = t /\ Len(acts') > 1 /\ Act'.saved = Len(frames') - 1
        /\ Len(frames') > Act'.saved
        /\ Act'.kind = "trans" /\ Act'.target = c /\ Act'.common = common /\ Act'.j = j + 1
    <3>1. a = TransAct(frames, c, common, j + 1)  BY DEF a
    <3> QED  BY <3>1, <2>1, <2>2, <2>3, <1>6
  <2>5. TransThunk'  BY <2>1, <2>2, <2>3, <2>4 DEF TransThunk
  <2>6. ThunkState'  BY <2>1, <2>2, <2>3, <2>4, <2>5 DEF ThunkState, Thunks
  <2>7. Going'  BY <2>1, <2>4, <2>6 DEF Going, RunState
  <2> QED  BY <2>1, <2>4, <2>7, <1>1
<1>9. CASE ~leave /\ ~enter
  <2>1. Restore(st, c)  BY <1>9 DEF Transition
  <2>2. inside = c.winds  BY <1>3, <1>9
  <2> QED  BY <2>1, <2>2, RestoreStep
<1> QED  BY <1>7, <1>8, <1>9

\* The common prefix of the wind stacks.
LEMMA CommonFacts ==
  ASSUME winds \in Seq(Winds), NEW c, c.winds \in Seq(Winds)
  PROVE  Common(c.winds) \in Nat /\ Underway(winds, c, Common(c.winds), Common(c.winds))
<1> DEFINE ws == c.winds   L == Len(winds)
           Same(n) == n <= Len(ws) /\ SubSeq(winds, 1, n) = SubSeq(ws, 1, n)
           Best(n) == /\ n <= Len(ws) /\ SubSeq(winds, 1, n) = SubSeq(ws, 1, n)
                      /\ \A m \in (n + 1)..L :
                           m > Len(ws) \/ winds[m] # ws[m] \/ SubSeq(winds, 1, m) # SubSeq(ws, 1, m)
<1>1. L \in Nat /\ Len(ws) \in Nat  OBVIOUS
<1>2. Same(0)
  <2>1. SubSeq(winds, 1, 0) = <<>> /\ SubSeq(ws, 1, 0) = <<>>  OBVIOUS
  <2> QED  BY <2>1, <1>1
<1>3. \E n \in 0..L : Best(n)
  <2> DEFINE P == {L - n : n \in {n \in 0..L : Same(n)}}
  <2>1. P \subseteq Nat  BY <1>1
  <2>2. P # {}
    <3>1. 0 \in {n \in 0..L : Same(n)}  BY <1>1, <1>2
    <3>2. L - 0 \in P  BY <3>1
    <3> QED  BY <3>2
  <2> HIDE DEF P
  <2>3. PICK d \in P : \A e \in P : d <= e  BY <2>1, <2>2, LeastNat
  <2> USE DEF P
  <2>4. PICK n \in 0..L : Same(n) /\ d = L - n  BY <2>3
  <2>5. \A m \in (n + 1)..L : ~Same(m)
    <3> SUFFICES ASSUME NEW m \in (n + 1)..L, Same(m) PROVE FALSE  OBVIOUS
    <3>1. m \in 0..L  BY <1>1
    <3>2. L - m \in P  BY <3>1
    <3>3. L - n <= L - m  BY <3>2, <2>3, <2>4
    <3> QED  BY <3>3, <1>1
  <2>6. \A m \in (n + 1)..L : m > Len(ws) \/ SubSeq(winds, 1, m) # SubSeq(ws, 1, m)
    <3> TAKE m \in (n + 1)..L
    <3>1. ~Same(m)  BY <2>5
    <3>2. m \in Nat  BY <1>1
    <3> QED  BY <3>1, <3>2, <1>1
  <2>7. Best(n)  BY <2>4, <2>6
  <2> QED  BY <2>7
<1>4. Common(ws) = CHOOSE n \in 0..L : Best(n)  BY DEF Common
<1> HIDE DEF Best
<1>5. Common(ws) \in 0..L /\ Best(Common(ws))  BY <1>3, <1>4
<1> DEFINE k == Common(ws)
<1> HIDE DEF k
<1>6. k \in 0..L /\ k <= Len(ws) /\ SubSeq(winds, 1, k) = SubSeq(ws, 1, k)  BY <1>5 DEF Best, k
<1>7. k \in Nat /\ k \in 0..Len(ws) /\ Len(winds) >= k  BY <1>1, <1>6
<1>8. Underway(winds, c, k, k)  BY <1>6, <1>7 DEF Underway
<1> QED  BY <1>7, <1>8 DEF k

LEMMA InvokeStep ==
  ASSUME Machine, ~torn, NEW k \in Conts, Invoke(k), ~astray'
  PROVE  ~torn' /\ Machine'
<1> DEFINE c == conts[k]   n == Common(c.winds)
<1>1. /\ mode = "run" /\ Top.kind \in {"user"} \cup Thunks /\ fuel' = fuel - 1 /\ fuel > 0
      /\ conts[k].set /\ conts' = conts /\ Transition(acts, c, n, n, winds)
  BY DEF Invoke, Running, Spend
<1>2. /\ Types /\ acts \in Seq(AnyAct) /\ Levels(acts) /\ Len(frames) > Last(acts).saved
      /\ Last(acts).saved \in Nat /\ Len(frames) \in Nat
      /\ UserState \/ ThunkState
  BY <1>1, RunFacts
<1>3. inside = winds  BY <1>2 DEF UserState, ThunkState
<1>4. GoodCont(c)  BY <1>1 DEF Machine
<1>5. c.winds \in Seq(Winds)  BY <1>4 DEF GoodCont, Continuation
<1>6. winds \in Seq(Winds) /\ fuel \in Nat /\ conts \in [Conts -> Continuation]
  BY <1>2 DEF Types
<1> HIDE DEF c
<1>7. n \in Nat /\ Underway(winds, c, n, n)  BY <1>5, <1>6, CommonFacts
<1> HIDE DEF n
<1>8. Len(frames) >= Last(acts).saved  BY <1>2
<1>9. /\ ~torn' /\ acts' \in Seq(AnyAct) /\ Levels(acts)' /\ Going'
      /\ frames' \in Seq(Frame) /\ winds' \in Seq(Winds) /\ handlers' \in Seq(Handler)
      /\ params' \in Seq(Winds) /\ inside' \in Seq(Winds) /\ invoked' \in BOOLEAN
  BY <1>1, <1>2, <1>3, <1>4, <1>6, <1>7, <1>8, TransitionStep
<1>10. fuel' \in Nat  BY <1>1, <1>6
<1>11. Types'  BY <1>1, <1>6, <1>9, <1>10 DEF Types
<1> QED  BY <1>1, <1>9, <1>11, MachineNext

LEMMA EndTransitionStep ==
  ASSUME Machine, ~torn, EndTransition, ~astray'
  PROVE  ~torn' /\ Machine'
<1> DEFINE c == Act.target   common == Act.common   j == Act.j
           entered == j > common /\ Len(winds) = j - 1
           ws == IF entered THEN Append(winds, c.winds[j]) ELSE winds
<1>1. /\ Act.kind = "trans" /\ conts' = conts /\ fuel' = fuel
      /\ Transition(Front(acts), c, common, j, ws)
  BY DEF EndTransition
<1>2. /\ Types /\ acts \in Seq(AnyAct) /\ Levels(acts) /\ Act = Last(acts)
      /\ Act = acts[Len(acts)] /\ Len(acts) \in 1..Len(acts)
      /\ Len(frames) \in Nat /\ Len(acts) > 1
  BY <1>1, StatusFacts
<1>3. mode = "ok"
  <2>1. SUFFICES ASSUME mode = "cont", Len(frames) = Act.saved PROVE FALSE
    BY DEF EndTransition, Arrived
  <2>2. PICK q \in 1..Len(acts), sure \in BOOLEAN :
          Coherent(frames, acts, Len(frames), q, Ctx(winds, handlers), sure) /\ q = Len(acts)
    BY <2>1, EscapeFacts
  <2>3. Coherent(frames, acts, Len(frames), Len(acts), Ctx(winds, handlers), sure)  BY <2>2
  <2>4. Act.kind \in {"main", "handler", "callcc", "raise"}  BY <2>3, <1>2, CoherentTop
  <2> QED  BY <2>4, <1>1
<1>4. ArriveState  BY <1>3 DEF Machine, Going
<1>5. Len(frames) = Act.saved /\ TransArrives
  BY <1>1, <1>4 DEF ArriveState, NativeArrives, UnwindArrives, UserState
<1>6. j \in Nat /\ common \in Nat
  <2>1. Act \in AnyAct  BY <1>2
  <2> QED  BY <2>1, ActIs
<1>7. GoodCont(c)  BY <1>1, <1>2, LevelFacts
<1>8. c.winds \in Seq(Winds)  BY <1>7 DEF GoodCont, Continuation
<1>9. winds \in Seq(Winds) /\ conts \in [Conts -> Continuation] /\ fuel \in Nat  BY <1>2 DEF Types
<1>10. /\ Levels(Front(acts)) /\ Front(acts) \in Seq(AnyAct)
       /\ Len(frames) >= Last(Front(acts)).saved
  <2>1. Levels(Front(acts)) /\ Last(Front(acts)).saved <= Last(acts).saved
    BY <1>2, LevelsFront
  <2>2. Front(acts) \in Seq(AnyAct)  BY <2>1 DEF Levels
  <2>3. Last(Front(acts)).saved \in Nat  BY <2>1, <2>2, LevelFacts
  <2> QED  BY <2>1, <2>2, <2>3, <1>2, <1>5
<1>11. ws \in Seq(Winds) /\ Underway(ws, c, common, j) /\ inside = ws
  <2>1. CASE j = common /\ Underway(winds, c, common, j) /\ inside = winds
    <3>1. ~entered  BY <2>1, <1>6
    <3> QED  BY <3>1, <2>1, <1>9
  <2>2. CASE Entering(winds, c, common, j) /\ inside = Append(winds, c.winds[j])
    <3> HIDE DEF c, common, j
    <3>1. /\ Len(winds) = j - 1 /\ j > common /\ Append(winds, c.winds[j]) \in Seq(Winds)
          /\ Underway(Append(winds, c.winds[j]), c, common, j)
      BY <2>2, <1>6, <1>8, <1>9, EnteringFacts
    <3> QED  BY <3>1, <2>2
  <2> QED  BY <2>1, <2>2, <1>5 DEF TransArrives
<1> HIDE DEF ws, c, common, j
<1>12. /\ ~torn' /\ acts' \in Seq(AnyAct) /\ Levels(acts)' /\ Going'
       /\ frames' \in Seq(Frame) /\ winds' \in Seq(Winds) /\ handlers' \in Seq(Handler)
       /\ params' \in Seq(Winds) /\ inside' \in Seq(Winds) /\ invoked' \in BOOLEAN
  BY <1>1, <1>2, <1>6, <1>7, <1>10, <1>11, TransitionStep
<1>13. Types'  BY <1>1, <1>9, <1>12 DEF Types
<1> QED  BY <1>1, <1>12, <1>13, MachineNext

-----------------------------------------------------------------------------
(* The theorems                                                               *)

LEMMA InitControl == VmInit => ControlInv
<1> SUFFICES ASSUME VmInit PROVE ControlInv  OBVIOUS
<1> DEFINE e == Ctx(<<>>, <<>>)
<1>1. /\ frames = <<User(<<>>)>> /\ winds = <<>> /\ handlers = <<>> /\ params = <<>> /\ inside = <<>>
      /\ conts = [k \in Conts |-> NoCont] /\ invoked = FALSE /\ mode = "run" /\ fuel = Fuel
      /\ torn = FALSE /\ astray = FALSE
  BY DEF VmInit
<1>2. PICK a \in Plain : acts = <<a>> /\ a.kind = "main" /\ a.saved = 0
  <2> DEFINE a == [kind |-> "main", saved |-> 0, id |-> <<"main", 0, 0>>,
                   eh |-> [id |-> 0, wc |-> 0], cont |-> FALSE, hb |-> 0,
                   target |-> NoCont, common |-> 0, j |-> 0]
  <2>1. acts = <<a>> /\ a.kind = "main" /\ a.saved = 0  BY DEF VmInit
  <2>2. a \in Plain  BY DEF Plain, ActKinds, Handler
  <2> QED  BY <2>1, <2>2
<1>3. /\ Len(frames) = 1 /\ frames[1] = User(<<>>) /\ Len(acts) = 1 /\ acts[1] = a
      /\ Top = User(<<>>) /\ Act = a
  BY <1>1, <1>2 DEF Top, Act, Last
<1>4. /\ User(<<>>).kind = "user" /\ User(<<>>).hs = <<>> /\ User(<<>>) \in Frame
  BY DEF User, Frame
<1>5. e \in Context /\ e.w = <<>> /\ e.h = <<>>
  <2>1. <<>> \in Seq(Winds) /\ <<>> \in Seq(Handler)  OBVIOUS
  <2> QED  BY <2>1, CtxOf
<1>6. Types
  <2>1. frames \in Seq(Frame)  BY <1>1, <1>4
  <2>2. conts \in [Conts -> Continuation]  BY <1>1, NoContIs
  <2>3. fuel \in Nat  BY <1>1, VmControlAssumption
  <2>4. <<>> \in Seq(Winds) /\ <<>> \in Seq(Handler)  OBVIOUS
  <2>5. /\ winds \in Seq(Winds) /\ handlers \in Seq(Handler) /\ params \in Seq(Winds)
        /\ inside \in Seq(Winds) /\ invoked \in BOOLEAN
    BY <2>4, <1>1, Zenon
  <2> QED  BY <2>1, <2>2, <2>3, <2>5 DEF Types
<1>7. Levels(acts)
  <2>1. acts \in Seq(AnyAct)  BY <1>2 DEF AnyAct
  <2> QED  BY <2>1, <1>2, <1>3 DEF Levels
<1>8. Coherent(frames, acts, 1, 1, e, FALSE)
  <2> HIDE DEF e
  <2> DEFINE F == [i \in Nat |-> e]
  <2>1. F \in [Nat -> Context] /\ F[1] = e /\ F[0] = e  BY <1>5
  <2> HIDE DEF F
  <2>2. a.saved = 0 /\ acts[1] = a /\ acts[1].saved = 0  BY <1>2, <1>3
  <2>3. 1..1 = {1} /\ 2..1 = {} /\ 1 - 1 = 0  OBVIOUS
  <2>4. Waits(frames[1]) /\ FrameLink(frames[1], e, e)
    BY <1>3, <1>4, <1>5 DEF Waits, FrameLink
  <2>5. Resumes(acts, F, F, 1, 1) = e /\ Resumes(acts, F, F, 0, 1) = e
    BY <2>1, <2>2 DEF Resumes
  <2>6. \A i \in 1..1, j \in 1..1 :
          Under(acts, 1, i, j) => FrameLink(frames[i], F[i], Resumes(acts, F, F, i - 1, j))
    BY <2>1, <2>3, <2>4, <2>5
  <2>7. Linked(frames, acts, 1, 1, F, F, FALSE)
    BY <1>2, <2>1, <2>2, <2>3, <2>4, <2>6 DEF Linked
  <2> QED  BY <2>5, <2>7 DEF Coherent
<1>9. Len(frames) > Act.saved  BY <1>2, <1>3
<1>10. UserState  BY <1>1, <1>3, <1>8 DEF UserState
<1>11. Going  BY <1>1, <1>9, <1>10 DEF Going, RunState
<1>12. \A k \in Conts : conts[k].set => GoodCont(conts[k])  BY <1>1, NoContIs
<1> QED  BY <1>1, <1>6, <1>7, <1>11, <1>12 DEF ControlInv, Machine

\* Only a step that finds activations and frames at odds makes the machine astray,
\* and it stays so.
LEMMA Ways ==
  ASSUME mode \in {"run", "ok", "cont", "done", "dead"}, astray \in BOOLEAN, VmNext
  PROVE  /\ mode \in {"run", "ok", "cont"}
         /\ mode' \in {"run", "ok", "cont", "done", "dead"}
         /\ astray' \in BOOLEAN /\ (astray => astray')
<1>1. \A fr, st : \A s \in {"ok", "cont"} : Settle(fr, st, s) \in {"run", "ok", "cont"}
  BY DEF Settle
<1>2. \A flag : NativeExit(flag) => mode' \in {"run", "ok", "cont"}
  <2>1. \A flag : (IF flag THEN "cont" ELSE "ok") \in {"ok", "cont"}  OBVIOUS
  <2> QED  BY <2>1, <1>1 DEF NativeExit
<1>3. \A st, c : Restore(st, c) => /\ mode' \in {"run", "ok", "cont"} /\ astray' \in BOOLEAN
                                  /\ (astray => astray')
  BY <1>1 DEF Restore
<1>4. \A st, c, common, j, ws :
        Transition(st, c, common, j, ws) =>
          mode' \in {"run", "ok", "cont"} /\ astray' \in BOOLEAN /\ (astray => astray')
  <2> TAKE st, c, common, j, ws
  <2>1. SUFFICES ASSUME Transition(st, c, common, j, ws)
                 PROVE  mode' \in {"run", "ok", "cont"} /\ astray' \in BOOLEAN /\ (astray => astray')
    OBVIOUS
  <2>2. (mode' = "run" /\ astray' = astray) \/ Restore(st, c)  BY <2>1 DEF Transition
  <2> QED  BY <2>2, <1>3
<1>5. \A st, fr, cont : RaiseFrom(st, fr, cont) => mode' \in {"run", "dead"}  BY DEF RaiseFrom
<1>6. CASE \E w \in Winds : DynamicWind(w)  BY <1>6 DEF DynamicWind, Running, ghosts
<1>7. CASE DwEnter  BY <1>7 DEF DwEnter, Running, ghosts
<1>8. CASE DwLeave  BY <1>8 DEF DwLeave, Running
<1>9. CASE Return  BY <1>9, <1>1 DEF Return, Running, ghosts
<1>10. CASE ThunkReturn
  <2>1. mode = "run" /\ astray' = astray  BY <1>10 DEF ThunkReturn, Running
  <2>2. mode' = Settle(frames', acts, "ok") \/ mode' = "dead"  BY <1>10 DEF ThunkReturn
  <2> QED  BY <2>1, <2>2, <1>1
<1>11. CASE \E tail \in BOOLEAN : WithExceptionHandler(tail)
  BY <1>11 DEF WithExceptionHandler, Running, ghosts
<1>12. CASE \E tail \in BOOLEAN : \E k \in Conts : CallCC(k, tail)
  BY <1>12 DEF CallCC, Running, ghosts
<1>13. CASE \E tail \in BOOLEAN : \E cont \in BOOLEAN : Raise(cont, tail)
  BY <1>13, <1>5 DEF Raise, Running
<1>14. CASE \E k \in Conts : Invoke(k)  BY <1>14, <1>4 DEF Invoke, Running
<1>15. CASE EscapeNative  BY <1>15, <1>2 DEF EscapeNative, Escaped, ghosts
<1>16. CASE EscapeTransition  BY <1>16, <1>1 DEF EscapeTransition, Escaped, ghosts
<1>17. CASE EndHandler  BY <1>17, <1>2 DEF EndHandler, Arrived, ghosts
<1>18. CASE EndCallCC  BY <1>18, <1>2 DEF EndCallCC, Arrived, ghosts
<1>19. CASE EndUnwind  BY <1>19 DEF EndUnwind, Arrived
<1>20. CASE EndRaise
  <2>1. mode \in {"ok", "cont"}  BY <1>20 DEF EndRaise, Arrived
  <2>2. astray' \in BOOLEAN /\ (astray => astray')  BY <1>20 DEF EndRaise
  <2>3. (\E flag \in BOOLEAN : NativeExit(flag)) \/ RaiseFrom(Front(acts), frames, FALSE)
    BY <1>20 DEF EndRaise
  <2> QED  BY <2>1, <2>2, <2>3, <1>2, <1>5
<1>21. CASE EndTransition  BY <1>21, <1>4 DEF EndTransition, Arrived
<1>22. CASE EndMain  BY <1>22 DEF EndMain, ghosts
<1> QED
  BY <1>6, <1>7, <1>8, <1>9, <1>10, <1>11, <1>12, <1>13, <1>14, <1>15, <1>16, <1>17, <1>18, <1>19,
     <1>20, <1>21, <1>22 DEF VmNext

\* A step of a machine that does not go astray.
LEMMA MachineStep ==
  ASSUME Machine, ~torn, VmNext, ~astray'
  PROVE  ~torn' /\ (mode' \in {"done", "dead"} \/ Machine')
<1>1. CASE \E w \in Winds : DynamicWind(w)  BY <1>1, DynamicWindStep
<1>2. CASE DwEnter  BY <1>2, DwEnterStep
<1>3. CASE DwLeave  BY <1>3, DwLeaveStep
<1>4. CASE Return  BY <1>4, ReturnStep
<1>5. CASE ThunkReturn  BY <1>5, ThunkReturnStep
<1>6. CASE \E tail \in BOOLEAN : WithExceptionHandler(tail)  BY <1>6, WithExceptionHandlerStep
<1>7. CASE \E tail \in BOOLEAN : \E k \in Conts : CallCC(k, tail)  BY <1>7, CallCCStep
<1>8. CASE \E tail \in BOOLEAN : \E cont \in BOOLEAN : Raise(cont, tail)  BY <1>8, RaiseStep
<1>9. CASE \E k \in Conts : Invoke(k)  BY <1>9, InvokeStep
<1>10. CASE EscapeNative \/ EscapeTransition  BY <1>10, EscapeStep
<1>11. CASE EndHandler  BY <1>11, EndHandlerStep
<1>12. CASE EndCallCC  BY <1>12, EndCallCCStep
<1>13. CASE EndUnwind  BY <1>13, EndUnwindStep
<1>14. CASE EndRaise  BY <1>14, EndRaiseStep
<1>15. CASE EndTransition  BY <1>15, EndTransitionStep
<1>16. CASE EndMain  BY <1>16 DEF EndMain, ghosts
<1> QED
  BY <1>1, <1>2, <1>3, <1>4, <1>5, <1>6, <1>7, <1>8, <1>9, <1>10, <1>11, <1>12, <1>13, <1>14,
     <1>15, <1>16 DEF VmNext

\* The machine that does nothing.
LEMMA MachineSame ==
  ASSUME UNCHANGED vmVars, Machine
  PROVE  Machine'
<1>1. /\ frames' = frames /\ acts' = acts /\ winds' = winds /\ handlers' = handlers
      /\ params' = params /\ conts' = conts /\ invoked' = invoked /\ mode' = mode
      /\ fuel' = fuel /\ inside' = inside
  BY DEF vmVars
<1>2. Act' = Act /\ Top' = Top  BY <1>1 DEF Act, Top
<1>3. Types' = Types /\ Levels(acts)' = Levels(acts)  BY <1>1 DEF Types
<1>4. UserState' = UserState  BY <1>1 DEF UserState
<1>5. DwState' = DwState  BY <1>1, <1>2 DEF DwState
<1>6. ThunkState' = ThunkState
  BY <1>1, <1>2 DEF ThunkState, WindThunk, UnwindThunk, TransThunk
<1>7. RunState' = RunState  BY <1>1, <1>2, <1>4, <1>5, <1>6 DEF RunState
<1>8. ArriveState' = ArriveState
  BY <1>1, <1>2, <1>4 DEF ArriveState, NativeArrives, UnwindArrives, TransArrives
<1>9. EscapeState' = EscapeState  BY <1>1, <1>2 DEF EscapeState
<1> QED  BY <1>1, <1>3, <1>7, <1>8, <1>9 DEF Machine, Going

\* Whatever mixture of returns, raises and continuations the program runs, the
\* frames and C activations are those of a call stack whose every place goes on
\* with the winds and handlers it was called with, until a step is taken that
\* the code cannot take without losing them (ghost astray).
THEOREM ControlInvariant == VmSpec => []ControlInv
<1>1. VmInit => ControlInv  BY InitControl
<1>2. ControlInv /\ [VmNext]_vmVars => ControlInv'
  <2> SUFFICES ASSUME ControlInv, [VmNext]_vmVars PROVE ControlInv'  OBVIOUS
  <2>1. /\ astray \in BOOLEAN /\ mode \in {"run", "ok", "cont", "done", "dead"}
        /\ ~astray => ~torn /\ (mode \in {"run", "ok", "cont"} => Machine)
    BY DEF ControlInv
  <2>2. CASE VmNext
    <3>1. /\ mode \in {"run", "ok", "cont"} /\ mode' \in {"run", "ok", "cont", "done", "dead"}
          /\ astray' \in BOOLEAN /\ (astray => astray')
      BY <2>1, <2>2, Ways
    <3>2. SUFFICES ASSUME ~astray' PROVE ~torn' /\ (mode' \in {"run", "ok", "cont"} => Machine')
      BY <3>1 DEF ControlInv
    <3>3. Machine /\ ~torn  BY <3>1, <3>2, <2>1
    <3>4. ~torn' /\ (mode' \in {"done", "dead"} \/ Machine')
      BY <3>2, <3>3, <2>2, MachineStep
    <3> QED  BY <3>4
  <2>3. CASE UNCHANGED vmVars
    <3>1. astray' = astray /\ mode' = mode /\ torn' = torn  BY <2>3 DEF vmVars
    <3> QED  BY <3>1, <2>1, <2>3, MachineSame DEF ControlInv
  <2> QED  BY <2>2, <2>3
<1> QED  BY <1>1, <1>2, PTL DEF VmSpec

\* User code and thunks run inside exactly the winds whose before thunks have run
\* and whose after thunks have not, in that order, and user code with the
\* parameters those winds bind; no thunk leaves a wind that is not the last
\* entered (ch_vm_wind_transition, ch_vm_raise, dynamic-wind).
THEOREM WindsMatch == VmSpec => []WindsInside
<1>1. ControlInv => WindsInside
  <2> SUFFICES ASSUME ControlInv, ~astray
               PROVE  /\ ~torn
                      /\ Running({"user"} \cup Thunks) => winds = inside
                      /\ Running({"user"}) => params = winds
    BY DEF WindsInside
  <2>1. ~torn /\ (mode = "run" => Machine)  BY DEF ControlInv
  <2>2. Running({"user"} \cup Thunks) => winds = inside
    <3>1. SUFFICES ASSUME Running({"user"} \cup Thunks) PROVE winds = inside  OBVIOUS
    <3>2. mode = "run" /\ Machine /\ Top.kind \in {"user"} \cup Thunks
      BY <3>1, <2>1 DEF Running
    <3>3. UserState \/ ThunkState  BY <3>2, RunFacts
    <3> QED  BY <3>3 DEF UserState, ThunkState
  <2>3. Running({"user"}) => params = winds
    <3>1. SUFFICES ASSUME Running({"user"}) PROVE params = winds  OBVIOUS
    <3>2. Machine  BY <3>1, <2>1 DEF Running
    <3> QED  BY <3>1, <3>2, UserFacts DEF UserState
  <2> QED  BY <2>1, <2>2, <2>3
<1> QED  BY <1>1, ControlInvariant, PTL

\* User code runs with the handlers its dynamic extent has: with-exception-handler
\* and ch_vm_raise push and pop them around their thunks, a continuation brings
\* its own (ch_vm_invoke_continuation).
THEOREM HandlersMatch == VmSpec => []HandlersOfExtent
<1>1. ControlInv => HandlersOfExtent
  <2> SUFFICES ASSUME ControlInv, Running({"user"}), ~astray PROVE handlers = Top.hs
    BY DEF HandlersOfExtent
  <2>1. Machine  BY DEF ControlInv, Running
  <2> QED  BY <2>1, UserFacts
<1> QED  BY <1>1, ControlInvariant, PTL
===============================================================================
