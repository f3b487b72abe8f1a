--------------------------- MODULE CallFrameProofs ---------------------------
(***************************************************************************)
(* Calls through reflection: arguments arrive where compiled code looks    *)
(* for them, Values that a program was given stay right, frames in a pool  *)
(* are zero and unused, and the collector sees every pointer at any moment *)
(* of a call, whatever types the function has and however calls nest.      *)
(***************************************************************************)
EXTENDS CallFrame, TypeLayoutProofs

-----------------------------------------------------------------------------
(* Values one after the other                                              *)

LayoutsOK(tys) ==
  /\ Len(tys) \in Nat
  /\ \A n \in 1..Len(tys) : tys[n].size \in Nat /\ tys[n].align \in Nat \ {0}

(* The recursion of Placed.                                                *)
Ends(from, tys, end) ==
  /\ end \in [0..Len(tys) -> Nat] /\ end[0] = from
  /\ \A n \in 1..Len(tys) : end[n] = Align(end[n - 1], tys[n].align) + tys[n].size

LEMMA PlacedDef ==
  ASSUME NEW tys, LayoutsOK(tys), NEW from \in Nat
  PROVE  \E end : /\ Ends(from, tys, end)
                  /\ Placed(from, tys) =
                       [offs |-> [n \in 1..Len(tys) |-> Align(end[n - 1], tys[n].align)],
                        end  |-> end[Len(tys)]]
<1> DEFINE N == Len(tys)
           Body(f, n) == IF n = 0 THEN from ELSE Align(f[n - 1], tys[n].align) + tys[n].size
           Solves(f, k) == f = [n \in 0..k |-> Body(f, n)]
           S == {k \in Nat : k <= N => \E f : Solves(f, k)}
<1>1. N \in Nat
  BY DEF LayoutsOK
<1>2. 0 \in S
  <2> DEFINE f == [n \in 0..0 |-> from]
  <2>1. Solves(f, 0)
    OBVIOUS
  <2> QED  BY <2>1
<1>3. ASSUME NEW k \in Nat, k \in S  PROVE k + 1 \in S
  <2> SUFFICES ASSUME k + 1 <= N  PROVE \E f : Solves(f, k + 1)
    OBVIOUS
  <2>1. PICK f : Solves(f, k)
    BY <1>1, <1>3
  <2> DEFINE g == [n \in 0..(k + 1) |-> Body(f, n)]
  <2>2. ASSUME NEW n \in 0..k  PROVE f[n] = g[n]
    <3>1. f[n] = Body(f, n)
      BY <2>1
    <3> HIDE DEF Body
    <3> QED  BY <3>1
  <2>3. ASSUME NEW n \in 0..(k + 1)  PROVE Body(f, n) = Body(g, n)
    <3>1. CASE n = 0
      BY <3>1
    <3>2. CASE n # 0
      <4>1. n - 1 \in 0..k
        BY <3>2
      <4>2. f[n - 1] = g[n - 1]
        BY <2>2, <4>1
      <4> HIDE DEF g
      <4> QED  BY <3>2, <4>2
    <3> QED  BY <3>1, <3>2
  <2> HIDE DEF Body
  <2>4. Solves(g, k + 1)
    BY <2>3
  <2> QED  BY <2>4
<1> HIDE DEF S
<1>4. N \in S
  BY <1>1, <1>2, <1>3, Induction
<1> DEFINE end == CHOOSE f : Solves(f, N)
<1>5. Solves(end, N)
  BY <1>1, <1>4 DEF S
<1>6. Placed(from, tys) = [offs |-> [n \in 1..N |-> Align(end[n - 1], tys[n].align)],
                           end  |-> end[N]]
  BY DEF Placed
<1> HIDE DEF end
<1>7. /\ DOMAIN end = 0..N /\ end = [n \in 0..N |-> end[n]] /\ end[0] = from
      /\ \A n \in 1..N : end[n] = Align(end[n - 1], tys[n].align) + tys[n].size
  BY <1>1, <1>5
<1> DEFINE T == {k \in Nat : k <= N => end[k] \in Nat}
<1>8. 0 \in T
  BY <1>7
<1>9. ASSUME NEW k \in Nat, k \in T  PROVE k + 1 \in T
  <2> SUFFICES ASSUME k + 1 <= N  PROVE end[k + 1] \in Nat
    OBVIOUS
  <2>1. /\ end[k] \in Nat /\ k + 1 \in 1..N
        /\ end[k + 1] = Align(end[k], tys[k + 1].align) + tys[k + 1].size
    BY <1>1, <1>7, <1>9
  <2>2. tys[k + 1].size \in Nat /\ tys[k + 1].align \in Nat \ {0}
    BY <2>1 DEF LayoutsOK
  <2>3. Align(end[k], tys[k + 1].align) \in Nat
    BY <2>1, <2>2, AlignFacts
  <2> QED  BY <2>1, <2>2, <2>3
<1> HIDE DEF T
<1>10. \A k \in Nat : k \in T
  BY <1>8, <1>9, Induction
<1>11. end \in [0..N -> Nat]
  BY <1>1, <1>7, <1>10 DEF T
<1> QED  BY <1>6, <1>7, <1>11 DEF Ends

(* Values come in order, apart, between where they start and the end.      *)
InOrder(offs, tys, from, to) ==
  /\ from \in Nat /\ to \in Nat /\ from <= to
  /\ \A i \in 1..Len(tys) :
       /\ offs[i] \in Nat /\ from <= offs[i] /\ offs[i] + tys[i].size <= to
       /\ \A j \in 1..Len(tys) : i < j => offs[i] + tys[i].size <= offs[j]

LEMMA PlacedInOrder ==
  ASSUME NEW tys, LayoutsOK(tys), NEW from \in Nat
  PROVE  LET p == Placed(from, tys) IN InOrder(p.offs, tys, from, p.end)
<1> DEFINE N == Len(tys)
           p == Placed(from, tys)
<1>1. PICK end : /\ Ends(from, tys, end)
                 /\ p = [offs |-> [n \in 1..N |-> Align(end[n - 1], tys[n].align)],
                         end  |-> end[N]]
  BY PlacedDef
<1>2. N \in Nat /\ \A n \in 1..N : tys[n].size \in Nat /\ tys[n].align \in Nat \ {0}
  BY DEF LayoutsOK
<1>3. end \in [0..N -> Nat] /\ end[0] = from
  BY <1>1 DEF Ends
<1>4. \A n \in 1..N : /\ p.offs[n] \in Nat /\ p.offs[n] >= end[n - 1]
                      /\ end[n] = p.offs[n] + tys[n].size
  <2> SUFFICES ASSUME NEW n \in 1..N
               PROVE  /\ p.offs[n] \in Nat /\ p.offs[n] >= end[n - 1]
                      /\ end[n] = p.offs[n] + tys[n].size
    OBVIOUS
  <2>1. /\ p.offs[n] = Align(end[n - 1], tys[n].align)
        /\ end[n] = Align(end[n - 1], tys[n].align) + tys[n].size
    BY <1>1 DEF Ends
  <2>2. end[n - 1] \in Nat /\ tys[n].align \in Nat \ {0}
    BY <1>2, <1>3
  <2> QED  BY <2>1, <2>2, AlignFacts
<1>5. p.end = end[N]
  BY <1>1
<1> HIDE DEF p
<1> DEFINE S == {k \in Nat : k <= N => \A i \in Nat : i <= k => end[i] <= end[k]}
<1>6. 0 \in S
  BY <1>3
<1>7. ASSUME NEW k \in Nat, k \in S  PROVE k + 1 \in S
  <2> SUFFICES ASSUME k + 1 <= N, NEW i \in Nat, i <= k + 1  PROVE end[i] <= end[k + 1]
    OBVIOUS
  <2>1. end[k] \in Nat /\ end[k + 1] \in Nat /\ end[k] <= end[k + 1]
    <3>1. k + 1 \in 1..N /\ k \in 0..N /\ k + 1 \in 0..N /\ (k + 1) - 1 = k
      BY <1>2
    <3>2. /\ p.offs[k + 1] \in Nat /\ p.offs[k + 1] >= end[k]
          /\ end[k + 1] = p.offs[k + 1] + tys[k + 1].size
          /\ tys[k + 1].size \in Nat
      BY <1>2, <1>4, <3>1
    <3> QED  BY <1>3, <3>1, <3>2
  <2>2. CASE i <= k
    <3>1. end[i] <= end[k]
      BY <1>2, <1>7, <2>2
    <3>2. i \in 0..N
      BY <1>2, <2>2
    <3>3. end[i] \in Nat
      BY <1>3, <3>2
    <3> QED  BY <2>1, <3>1, <3>3
  <2>3. CASE i = k + 1
    BY <2>1, <2>3
  <2> QED  BY <2>2, <2>3
<1> HIDE DEF S
<1>8. \A k \in Nat : k \in S
  BY <1>6, <1>7, Induction
<1>9. \A k \in Nat, i \in Nat : i <= k /\ k <= N => end[i] <= end[k]
  BY <1>2, <1>8 DEF S
<1>10. ASSUME NEW i \in 1..N
       PROVE  /\ p.offs[i] \in Nat /\ from <= p.offs[i] /\ p.offs[i] + tys[i].size <= p.end
              /\ \A j \in 1..N : i < j => p.offs[i] + tys[i].size <= p.offs[j]
  <2>1. end[0] <= end[i - 1] /\ end[i] <= end[N] /\ end[i - 1] \in Nat
    <3>1. i - 1 \in Nat /\ i - 1 \in 0..N /\ i \in Nat
      BY <1>2
    <3>2. end[0] <= end[i - 1]
      BY <1>2, <1>9, <3>1
    <3>3. end[i] <= end[N]
      BY <1>2, <1>9, <3>1
    <3> QED  BY <1>3, <3>1, <3>2, <3>3
  <2>2. from <= p.offs[i] /\ p.offs[i] + tys[i].size <= p.end
    BY <1>2, <1>3, <1>4, <1>5, <2>1
  <2>3. ASSUME NEW j \in 1..N, i < j  PROVE p.offs[i] + tys[i].size <= p.offs[j]
    <3>1. i \in Nat /\ i <= j - 1 /\ j - 1 \in Nat /\ j - 1 <= N /\ i \in 0..N /\ j - 1 \in 0..N
      BY <1>2, <2>3
    <3>2. end[i] <= end[j - 1]
      BY <1>9, <3>1
    <3>3. end[i] \in Nat /\ end[j - 1] \in Nat
      BY <1>3, <3>1
    <3> QED  BY <1>4, <3>2, <3>3
  <2> QED  BY <1>4, <2>2, <2>3
<1>11. from <= p.end /\ p.end \in Nat
  BY <1>2, <1>3, <1>5, <1>9
<1> QED  BY <1>10, <1>11 DEF InOrder, p

LEMMA Remainder ==
  ASSUME NEW k \in Int, NEW a \in Nat \ {0}, NEW r \in 0..(a - 1)
  PROVE  (a * k + r) % a = r
OBVIOUS

LEMMA AlignShift ==
  ASSUME NEW x \in Nat, NEW s \in Nat, NEW a \in Nat \ {0}, s % a = 0
  PROVE  Align(x + s, a) = Align(x, a) + s
<1> DEFINE d == (-x) \div a
           r == (-x) % a
<1>1. -x = a * d + r /\ d \in Int /\ r \in 0..(a - 1)
  BY DivMod
<1>2. PICK q \in Int : s = a * q
  BY Multiple
<1> HIDE DEF d, r
<1>3. -(x + s) = a * (d - q) + r /\ d - q \in Int
  BY <1>1, <1>2
<1>4. (-(x + s)) % a = r
  BY <1>1, <1>3, Remainder
<1>5. Align(x + s, a) = x + s + r /\ Align(x, a) = x + r
  BY <1>4 DEF Align, r
<1> QED  BY <1>1, <1>5

LEMMA PlacedShift ==
  ASSUME NEW tys, LayoutsOK(tys), NEW from \in Nat, NEW s \in Nat,
         \A n \in 1..Len(tys) : s % tys[n].align = 0
  PROVE  LET p == Placed(from, tys)  q == Placed(from + s, tys)
         IN  /\ q.end = p.end + s
             /\ \A n \in 1..Len(tys) : q.offs[n] = p.offs[n] + s
<1> DEFINE N == Len(tys)
           p == Placed(from, tys)
           q == Placed(from + s, tys)
<1>1. PICK e : /\ Ends(from, tys, e)
               /\ p = [offs |-> [n \in 1..N |-> Align(e[n - 1], tys[n].align)], end |-> e[N]]
  BY PlacedDef
<1>2. PICK f : /\ Ends(from + s, tys, f)
               /\ q = [offs |-> [n \in 1..N |-> Align(f[n - 1], tys[n].align)], end |-> f[N]]
  <2> DEFINE g == from + s
  <2>1. g \in Nat
    OBVIOUS
  <2> HIDE DEF g
  <2>2. \E f : /\ Ends(g, tys, f)
               /\ Placed(g, tys) =
                    [offs |-> [n \in 1..N |-> Align(f[n - 1], tys[n].align)], end |-> f[N]]
    BY <2>1, PlacedDef
  <2> QED  BY <2>2 DEF g
<1>3. N \in Nat /\ \A n \in 1..N : tys[n].size \in Nat /\ tys[n].align \in Nat \ {0}
  BY DEF LayoutsOK
<1>4. \A k \in 0..N : e[k] \in Nat /\ f[k] \in Nat
  BY <1>1, <1>2 DEF Ends
<1> DEFINE S == {k \in Nat : k <= N => f[k] = e[k] + s}
<1>5. 0 \in S
  BY <1>1, <1>2 DEF Ends
<1>6. ASSUME NEW k \in Nat, k + 1 <= N, f[k] = e[k] + s
      PROVE  /\ Align(f[k], tys[k + 1].align) = Align(e[k], tys[k + 1].align) + s
             /\ f[k + 1] = e[k + 1] + s
  <2>1. k + 1 \in 1..N /\ (k + 1) - 1 = k /\ k \in 0..N
    BY <1>3, <1>6
  <2> DEFINE a == tys[k + 1].align
             z == tys[k + 1].size
  <2>2. a \in Nat \ {0} /\ z \in Nat /\ e[k] \in Nat /\ s % a = 0
    BY <1>3, <1>4, <2>1
  <2>3. e[k + 1] = Align(e[k], a) + z /\ f[k + 1] = Align(f[k], a) + z
    BY <1>1, <1>2, <2>1 DEF Ends
  <2> HIDE DEF a, z
  <2>4. Align(e[k] + s, a) = Align(e[k], a) + s
    BY <2>2, AlignShift
  <2>5. Align(e[k], a) \in Nat
    BY <2>2, AlignFacts
  <2> QED  BY <1>6, <2>2, <2>3, <2>4, <2>5 DEF a
<1>7. ASSUME NEW k \in Nat, k \in S  PROVE k + 1 \in S
  <2> SUFFICES ASSUME k + 1 <= N  PROVE f[k + 1] = e[k + 1] + s
    OBVIOUS
  <2>1. f[k] = e[k] + s
    BY <1>3, <1>7
  <2> QED  BY <1>6, <2>1
<1> HIDE DEF S
<1>8. \A k \in Nat : k <= N => f[k] = e[k] + s
  <2>1. \A k \in Nat : k \in S
    BY <1>5, <1>7, Induction
  <2> QED  BY <2>1 DEF S
<1>9. q.end = p.end + s
  BY <1>1, <1>2, <1>3, <1>8
<1>10. ASSUME NEW n \in 1..N  PROVE q.offs[n] = p.offs[n] + s
  <2> DEFINE k == n - 1
  <2>1. k \in Nat /\ k + 1 <= N /\ k + 1 = n /\ k <= N
    BY <1>3
  <2>2. q.offs[n] = Align(f[k], tys[n].align) /\ p.offs[n] = Align(e[k], tys[n].align)
    BY <1>1, <1>2
  <2> HIDE DEF k
  <2>3. Align(f[k], tys[k + 1].align) = Align(e[k], tys[k + 1].align) + s
    BY <1>6, <1>8, <2>1
  <2> QED  BY <2>1, <2>2, <2>3
<1> QED  BY <1>9, <1>10

-----------------------------------------------------------------------------
(* Frames                                                                  *)

Base(r)      == IF r THEN PtrSize ELSE 0
RetOffset(r) == Align(CodeIn(r).end, PtrSize)

SigOK == sig.in \in Seq(DOMAIN types) /\ sig.out \in Seq(DOMAIN types)

LEMMA TypesFacts ==
  ASSUME LayoutInv, NEW ts \in Seq(DOMAIN types)
  PROVE  /\ DOMAIN ts = 1..Len(ts) /\ Len(ts) \in Nat
         /\ Len(Types(ts)) = Len(ts) /\ LayoutsOK(Types(ts))
         /\ \A i \in DOMAIN ts : /\ ts[i] \in DOMAIN types
                                /\ Types(ts)[i] = types[ts[i]] /\ Types(ts)[i].size = SizeOf(ts[i])
                                /\ SizeOf(ts[i]) \in Nat
                                /\ PtrSize % Types(ts)[i].align = 0
<1>1. /\ DOMAIN ts = 1..Len(ts) /\ Len(ts) \in Nat
      /\ \A i \in DOMAIN ts : ts[i] \in DOMAIN types
  BY SeqElements
<1>2. \A i \in DOMAIN ts : Types(ts)[i] = types[ts[i]]
  BY DEF Types
<1>3. Len(Types(ts)) = Len(ts)
  <2> DEFINE S == {types[ts[k]] : k \in DOMAIN ts}
             f == [k \in 1..Len(ts) |-> types[ts[k]]]
  <2>1. f \in [1..Len(ts) -> S]
    BY <1>1
  <2>2. Types(ts) = f
    BY <1>1 DEF Types
  <2> HIDE DEF f, S
  <2>3. f \in Seq(S) /\ DOMAIN f = 1..Len(ts)
    BY <1>1, <2>1, SeqOfFunction
  <2>4. Len(f) = Len(ts)
    BY <1>1, <2>3
  <2> QED  BY <2>2, <2>4
<1>4. \A t \in DOMAIN types : /\ types[t].size \in Nat /\ types[t].align \in Nat \ {0}
                             /\ PtrSize % types[t].align = 0
  BY AlignsFacts DEF LayoutInv, Inv, TypeOK, Alignments
<1>5. LayoutsOK(Types(ts))
  BY <1>1, <1>2, <1>3, <1>4 DEF LayoutsOK
<1> QED  BY <1>1, <1>2, <1>3, <1>4, <1>5 DEF SizeOf

LEMMA FuncLayout ==
  ASSUME NEW r
  PROVE  /\ funcLayout(r).argSize = CodeIn(r).end
         /\ funcLayout(r).retOffset = RetOffset(r)
         /\ funcLayout(r).size = CodeSize(r)
BY DEF funcLayout, CodeIn, CodeOut, CodeSize, RetOffset

LEMMA FrameFacts ==
  ASSUME LayoutInv, SigOK, NEW r \in BOOLEAN
  PROVE  /\ InOrder(CodeIn(r).offs, Types(sig.in), Base(r), CodeIn(r).end)
         /\ InOrder(CodeOut(r).offs, Types(sig.out), RetOffset(r), CodeOut(r).end)
         /\ CodeIn(r).end <= RetOffset(r) /\ CodeOut(r).end <= CodeSize(r)
         /\ RetOffset(r) \in Nat /\ CodeSize(r) \in Nat /\ Base(r) \in Nat
<1>1. Base(r) \in Nat /\ PtrSize \in Nat \ {0}
  BY LayoutAssumption DEF Base
<1>2. LayoutsOK(Types(sig.in)) /\ LayoutsOK(Types(sig.out))
  BY TypesFacts DEF SigOK
<1>3. InOrder(CodeIn(r).offs, Types(sig.in), Base(r), CodeIn(r).end)
  BY <1>1, <1>2, PlacedInOrder DEF CodeIn, Base
<1>4. CodeIn(r).end \in Nat
  BY <1>3 DEF InOrder
<1>5. RetOffset(r) \in Nat /\ CodeIn(r).end <= RetOffset(r)
  BY <1>1, <1>4, AlignFacts DEF RetOffset
<1>6. InOrder(CodeOut(r).offs, Types(sig.out), RetOffset(r), CodeOut(r).end)
  BY <1>2, <1>5, PlacedInOrder DEF CodeOut, RetOffset
<1>7. CodeOut(r).end \in Nat
  BY <1>6 DEF InOrder
<1>8. CodeSize(r) \in Nat /\ CodeOut(r).end <= CodeSize(r)
  BY <1>1, <1>7, AlignFacts DEF CodeSize
<1> QED  BY <1>1, <1>3, <1>5, <1>6, <1>8

(* A receiver moves everything by a word.                                  *)
LEMMA FrameShift ==
  ASSUME LayoutInv, SigOK
  PROVE  /\ CodeIn(TRUE).end = CodeIn(FALSE).end + PtrSize
         /\ RetOffset(TRUE) = RetOffset(FALSE) + PtrSize
         /\ CodeSize(TRUE) = CodeSize(FALSE) + PtrSize
         /\ \A i \in DOMAIN sig.in  : CodeIn(TRUE).offs[i] = CodeIn(FALSE).offs[i] + PtrSize
         /\ \A i \in DOMAIN sig.out : CodeOut(TRUE).offs[i] = CodeOut(FALSE).offs[i] + PtrSize
         /\ ArgOffset = PtrSize
<1> DEFINE ins == Types(sig.in)
           outs == Types(sig.out)
<1>1. PtrSize \in Nat \ {0} /\ PtrSize % PtrSize = 0
  BY LayoutAssumption
<1>2. /\ LayoutsOK(ins) /\ DOMAIN sig.in = 1..Len(ins)
      /\ \A n \in 1..Len(ins) : PtrSize % ins[n].align = 0
  BY TypesFacts DEF SigOK
<1>3. /\ LayoutsOK(outs) /\ DOMAIN sig.out = 1..Len(outs)
      /\ \A n \in 1..Len(outs) : PtrSize % outs[n].align = 0
  BY TypesFacts DEF SigOK
<1> HIDE DEF ins, outs
<1>4. LET p == Placed(0, ins)  q == Placed(PtrSize, ins)
      IN  /\ q.end = p.end + PtrSize
          /\ \A n \in 1..Len(ins) : q.offs[n] = p.offs[n] + PtrSize
  <2>1. 0 + PtrSize = PtrSize
    BY <1>1
  <2> QED  BY <1>1, <1>2, <2>1, PlacedShift
<1>5. /\ CodeIn(TRUE).end = CodeIn(FALSE).end + PtrSize
      /\ \A n \in 1..Len(ins) : CodeIn(TRUE).offs[n] = CodeIn(FALSE).offs[n] + PtrSize
  BY <1>4 DEF CodeIn, ins
<1>6. CodeIn(FALSE).end \in Nat /\ RetOffset(FALSE) \in Nat /\ CodeOut(FALSE).end \in Nat
  BY FrameFacts DEF InOrder
<1>12. \A x \in Nat : Align(x + PtrSize, PtrSize) = Align(x, PtrSize) + PtrSize
  BY <1>1, AlignShift
<1>7. RetOffset(TRUE) = RetOffset(FALSE) + PtrSize
  BY <1>5, <1>6, <1>12 DEF RetOffset
<1>8. LET p == Placed(RetOffset(FALSE), outs)  q == Placed(RetOffset(FALSE) + PtrSize, outs)
      IN  /\ q.end = p.end + PtrSize
          /\ \A n \in 1..Len(outs) : q.offs[n] = p.offs[n] + PtrSize
  BY <1>1, <1>3, <1>6, PlacedShift
<1>9. /\ CodeOut(TRUE).end = CodeOut(FALSE).end + PtrSize
      /\ \A n \in 1..Len(outs) : CodeOut(TRUE).offs[n] = CodeOut(FALSE).offs[n] + PtrSize
  BY <1>7, <1>8 DEF CodeOut, RetOffset, outs
<1>10. CodeSize(TRUE) = CodeSize(FALSE) + PtrSize
  BY <1>6, <1>9, <1>12 DEF CodeSize
<1>11. ArgOffset = PtrSize
  <2>1. CASE sig.in = <<>>
    BY <2>1 DEF ArgOffset
  <2>2. CASE sig.in # <<>>
    <3>1. 1 \in DOMAIN sig.in
      BY <2>2 DEF SigOK
    <3>2. types[sig.in[1]].align \in Nat \ {0} /\ PtrSize % types[sig.in[1]].align = 0
      BY <3>1, TypesFacts DEF SigOK, LayoutsOK
    <3> QED  BY <1>1, <2>2, <3>2, AlignAligned DEF ArgOffset
  <2> QED  BY <2>1, <2>2
<1> QED  BY <1>2, <1>3, <1>5, <1>7, <1>9, <1>10, <1>11

-----------------------------------------------------------------------------
(* Bytes                                                                   *)

(* A byte within two ranges is behind the start of both.                   *)
LEMMA WithinOne ==
  ASSUME NEW a \in Nat, NEW s \in Nat, NEW b \in Nat, NEW t \in Nat, NEW m \in Nat,
         m >= a, m < a + s, m >= b, m < b + t
  PROVE  ~(a + s <= b) /\ ~(b + t <= a)
OBVIOUS

(* What is in front of the first value stays.                              *)
LEMMA WrittenBehind ==
  ASSUME LayoutInv, NEW ts \in Seq(DOMAIN types), NEW b, NEW offs, NEW from, NEW to,
         InOrder(offs, Types(ts), from, to), NEW id, NEW what, NEW k \in Nat, k \in DOMAIN b, k < from
  PROVE  Written(b, id, what, ts, offs)[k] = b[k]
<1>1. ASSUME NEW i \in DOMAIN ts  PROVE ~(k >= offs[i])
  <2>1. i \in 1..Len(Types(ts)) /\ from \in Nat
    BY TypesFacts DEF InOrder
  <2>2. offs[i] \in Nat /\ from <= offs[i]
    BY <2>1 DEF InOrder
  <2> QED  BY <2>1, <2>2
<1>2. {i \in DOMAIN ts : k >= offs[i] /\ k < offs[i] + SizeOf(ts[i])} = {}
  BY <1>1
<1> QED  BY <1>2 DEF Written

LEMMA WrittenFacts ==
  ASSUME LayoutInv, NEW ts \in Seq(DOMAIN types), NEW b, NEW n \in Nat, DOMAIN b = 0..(n - 1),
         NEW offs, NEW from, NEW to, InOrder(offs, Types(ts), from, to), to <= n,
         NEW id, NEW what
  PROVE  LET w == Written(b, id, what, ts, offs) IN
         /\ DOMAIN w = 0..(n - 1)
         /\ \A i \in DOMAIN ts : Has(w, id, what, i, ts[i], offs[i])
         /\ \A k \in 0..(n - 1) : k < from => w[k] = b[k]
<1> DEFINE At(k) == {i \in DOMAIN ts : k >= offs[i] /\ k < offs[i] + SizeOf(ts[i])}
           w == Written(b, id, what, ts, offs)
<1>1. \A k \in 0..(n - 1) :
        w[k] = IF At(k) = {} THEN b[k]
               ELSE LET i == CHOOSE i \in At(k) : \A j \in At(k) : j <= i
                    IN  Byte(id, what, i, k - offs[i])
  BY DEF Written
<1>2. DOMAIN w = 0..(n - 1)
  BY DEF Written
<1>3. /\ from \in Nat /\ to \in Nat /\ DOMAIN ts = 1..Len(ts) /\ Len(ts) \in Nat
      /\ \A i \in DOMAIN ts :
           /\ offs[i] \in Nat /\ SizeOf(ts[i]) \in Nat /\ from <= offs[i]
           /\ offs[i] + SizeOf(ts[i]) <= to
           /\ \A j \in DOMAIN ts : i < j => offs[i] + SizeOf(ts[i]) <= offs[j]
  BY TypesFacts DEF InOrder
<1> HIDE DEF w
<1>4. ASSUME NEW i \in DOMAIN ts, NEW k \in 0..(SizeOf(ts[i]) - 1)
      PROVE  w[offs[i] + k] = Byte(id, what, i, k)
  <2> DEFINE m == offs[i] + k
  <2>1. m \in 0..(n - 1) /\ m >= offs[i] /\ m < offs[i] + SizeOf(ts[i]) /\ m - offs[i] = k
    BY <1>3
  <2> HIDE DEF m
  <2>2. ASSUME NEW j \in At(m)  PROVE j = i
    <3>1. /\ j \in DOMAIN ts /\ m >= offs[j] /\ m < offs[j] + SizeOf(ts[j])
          /\ m \in Nat /\ i \in Nat /\ j \in Nat
      BY <1>3, <2>1, <2>2
    <3>2. offs[i] \in Nat /\ offs[j] \in Nat /\ SizeOf(ts[i]) \in Nat /\ SizeOf(ts[j]) \in Nat
      BY <1>3, <3>1
    <3>3. /\ i < j => offs[i] + SizeOf(ts[i]) <= offs[j]
          /\ j < i => offs[j] + SizeOf(ts[j]) <= offs[i]
      BY <1>3, <3>1
    <3>4. ~(offs[i] + SizeOf(ts[i]) <= offs[j]) /\ ~(offs[j] + SizeOf(ts[j]) <= offs[i])
      BY <2>1, <3>1, <3>2, WithinOne
    <3>5. ~(i < j) /\ ~(j < i)
      BY <3>3, <3>4
    <3> QED  BY <3>1, <3>5
  <2>3. At(m) = {i}
    BY <2>1, <2>2
  <2> HIDE DEF At
  <2>4. (CHOOSE j \in At(m) : \A q \in At(m) : q <= j) = i
    <3>1. i <= i
      BY <1>3
    <3> QED  BY <2>3, <3>1
  <2>5. w[m] = Byte(id, what, i, m - offs[i])
    BY <1>1, <2>1, <2>3, <2>4
  <2> QED  BY <2>1, <2>5 DEF m
<1>5. ASSUME NEW k \in 0..(n - 1), k < from  PROVE w[k] = b[k]
  <2>1. At(k) = {}
    BY <1>3, <1>5
  <2> HIDE DEF At
  <2> QED  BY <1>1, <2>1
<1> QED  BY <1>2, <1>4, <1>5 DEF w, Has

LEMMA MovedFacts ==
  ASSUME NEW dst, NEW n \in Nat, DOMAIN dst = 0..(n - 1), NEW doff \in Nat, NEW src, NEW soff \in Nat,
         NEW len \in Int, doff + len <= n
  PROVE  LET m == Moved(dst, doff, src, soff, len) IN
         /\ DOMAIN m = 0..(n - 1)
         /\ \A k \in 0..(len - 1) : m[doff + k] = src[soff + k]
         /\ \A k \in 0..(n - 1) : k < doff => m[k] = dst[k]
<1> DEFINE m == Moved(dst, doff, src, soff, len)
<1>1. /\ DOMAIN m = 0..(n - 1)
      /\ \A k \in 0..(n - 1) :
           m[k] = IF k >= doff /\ k < doff + len THEN src[k - doff + soff] ELSE dst[k]
  BY DEF Moved
<1> HIDE DEF m
<1>2. ASSUME NEW k \in 0..(len - 1)  PROVE m[doff + k] = src[soff + k]
  <2>1. /\ doff + k \in 0..(n - 1) /\ doff + k >= doff /\ doff + k < doff + len
        /\ (doff + k) - doff + soff = soff + k
    OBVIOUS
  <2> QED  BY <1>1, <2>1
<1> QED  BY <1>1, <1>2 DEF m

(* What is copied is what it was.                                          *)
LEMMA MovedHas ==
  ASSUME NEW dst, NEW n \in Nat, DOMAIN dst = 0..(n - 1), NEW doff \in Nat, NEW src, NEW soff \in Nat,
         NEW len \in Int, doff + len <= n,
         NEW t \in DOMAIN types, SizeOf(t) \in Nat, NEW off \in Nat, NEW to \in Nat,
         soff <= off, off + SizeOf(t) <= soff + len, to - doff = off - soff,
         NEW id, NEW what, NEW i, Has(src, id, what, i, t, off)
  PROVE  Has(Moved(dst, doff, src, soff, len), id, what, i, t, to)
<1> DEFINE m == Moved(dst, doff, src, soff, len)
<1>1. ASSUME NEW k \in 0..(len - 1)  PROVE m[doff + k] = src[soff + k]
  <2>1. /\ doff + k \in 0..(n - 1) /\ doff + k >= doff /\ doff + k < doff + len
        /\ (doff + k) - doff + soff = soff + k
    OBVIOUS
  <2> QED  BY <2>1 DEF Moved
<1> HIDE DEF m
<1>2. ASSUME NEW k \in 0..(SizeOf(t) - 1)  PROVE m[to + k] = Byte(id, what, i, k)
  <2> DEFINE j == k + (off - soff)
  <2>1. j \in 0..(len - 1) /\ doff + j = to + k /\ soff + j = off + k
    OBVIOUS
  <2>2. m[doff + j] = src[soff + j]
    BY <1>1, <2>1
  <2>3. src[off + k] = Byte(id, what, i, k)
    BY DEF Has
  <2> QED  BY <2>1, <2>2, <2>3
<1> QED  BY <1>2 DEF Has, m

-----------------------------------------------------------------------------
(* The invariant                                                           *)

Phases == {"marshalled", "calling", "returned", "running", "entered", "packed", "done",
           "copied", "valid"}
Callees == {"code", "reflect", "method"}
Activations ==
  [op : {"caller", "client"} \cup Callees, id : Nat, target : Targets, phase : Phases,
   frame : Nat, heap : Nat, retValid : BOOLEAN, out : BOOLEAN]

MemOK(m) == /\ m \in Seq(Range(m))
            /\ \A o \in DOMAIN m : "bytes" \in DOMAIN m[o]

CalleeOp(a) ==
  IF a.op = "method" \/ a.target \in {"function", "method"} THEN "code"
  ELSE IF a.target = "makefunc" THEN "reflect" ELSE "method"

PhasesOf(op) ==
  CASE op = "caller"  -> {"marshalled", "calling", "returned"}
    [] op = "client"  -> {"calling"}
    [] op = "code"    -> {"running"}
    [] op = "reflect" -> {"entered", "running", "packed", "done"}
    [] op = "method"  -> {"entered", "marshalled", "calling", "returned", "copied", "valid", "done"}

(* An activation that is calling is followed by the one that it calls, and *)
(* those that are called follow one that is calling.                       *)
Calls(a, c) == /\ c.op = CalleeOp(a) /\ c.id = a.id /\ c.target = a.target
               /\ a.op = "client" => c.frame = a.frame

NestedAt(st, n) ==
  /\ st[n].op \in Callees => n > 1 /\ st[n - 1].phase = "calling"
  /\ st[n].phase = "calling" => n < Len(st) /\ Calls(st[n], st[n + 1])
  /\ n < Len(st) => st[n].phase \in {"calling", "running"}

HasHeap(a) == \/ a.op = "caller"
              \/ a.op = "method" /\ a.phase \notin {"entered", "done"}

Proper(a) ==
  /\ a.phase \in PhasesOf(a.op)
  /\ a.op = "client" => a.target \in {"makefunc", "methodvalue"}
  /\ a.heap # 0 <=> HasHeap(a)
  /\ a.op = "caller" => a.frame = 0
  /\ a.op \in Callees => a.frame # 0 /\ a.frame # a.heap
  /\ OfMethod(a.target) = (sig.rcvr # {})

(* Objects belong to one activation, to a pool, or to Values; a frame on   *)
(* the stack belongs to the activation that runs on it.                    *)
Own(a) == {a.heap, IF a.op \in Callees THEN a.frame ELSE 0} \ {0}
Loose(pl, kp) == pl[TRUE] \cup pl[FALSE] \cup {v.obj : v \in kp}

(* What is in a frame.                                                     *)
Room(b, r) == DOMAIN b = 0..(CodeSize(r) - 1)
InAt(b, id, r) ==
  /\ \A i \in DOMAIN sig.in : Has(b, id, "in", i, sig.in[i], CodeIn(r).offs[i])
  /\ r => \A k \in 0..(PtrSize - 1), q \in sig.rcvr : b[k] = Byte(id, RcvrWord(q), 0, k)
OutAt(b, id, r) ==
  \A i \in DOMAIN sig.out : Has(b, id, "out", i, sig.out[i], CodeOut(r).offs[i])

FrameRcvr(a) == a.op = "code" /\ OfMethod(a.target)

HeapHolds(a, b) ==
  /\ Room(b, HasRcvr(a))
  /\ a.phase = "marshalled" => InAt(b, a.id, HasRcvr(a))
  /\ a.phase = "returned" => OutAt(b, a.id, HasRcvr(a))

FrameHolds(a, b) ==
  /\ Room(b, FrameRcvr(a))
  /\ a.op = "code" \/ a.phase = "entered" => InAt(b, a.id, FrameRcvr(a))
  /\ a.phase \in {"packed", "copied", "valid", "done"} => OutAt(b, a.id, FrameRcvr(a))

Holds(a, m) ==
  /\ a.heap # 0 => HeapHolds(a, m[a.heap].bytes)
  /\ a.op \in Callees => FrameHolds(a, m[a.frame].bytes)

LooseOK(m, pl, kp) ==
  /\ DOMAIN pl = BOOLEAN /\ pl[TRUE] \cap pl[FALSE] = {}
  /\ Loose(pl, kp) \subseteq DOMAIN m
  /\ \A v \in kp : v.obj \notin pl[TRUE] /\ v.obj \notin pl[FALSE]
  /\ \A r \in BOOLEAN : \A o \in pl[r] : m[o].bytes = Blank(CodeSize(r))
  /\ \A v \in kp : Has(m[v.obj].bytes, v.id, v.what, v.i, v.typ, v.off)

Idle == sig = NoSig => stack = <<>> /\ kept = {} /\ pool[TRUE] = {} /\ pool[FALSE] = {}

Calling(st, m, pl, kp) ==
  /\ MemOK(m) /\ st \in Seq(Activations) /\ LooseOK(m, pl, kp)
  /\ \A n \in DOMAIN st : /\ Proper(st[n]) /\ NestedAt(st, n) /\ Holds(st[n], m)
                         /\ Own(st[n]) \subseteq DOMAIN m /\ Own(st[n]) \cap Loose(pl, kp) = {}
  /\ \A n, k \in DOMAIN st : n # k => Own(st[n]) \cap Own(st[k]) = {}

CallInv ==
  /\ LayoutInv /\ SigOK /\ Idle /\ made \in Nat
  /\ sig.rcvr = {} \/ \E r \in Receivers : sig.rcvr = {r}
  /\ Calling(stack, mem, pool, kept)

-----------------------------------------------------------------------------
(* The layout does not change during calls                                 *)

LEMMA SameLayout ==
  ASSUME types' = types, sig' = sig, NEW r
  PROVE  /\ CodeIn(r)' = CodeIn(r) /\ CodeOut(r)' = CodeOut(r) /\ CodeSize(r)' = CodeSize(r)
<1>1. Types(sig.in)' = Types(sig.in) /\ Types(sig.out)' = Types(sig.out)
  BY DEF Types
<1>2. CodeIn(r)' = CodeIn(r)
  BY <1>1 DEF CodeIn
<1>3. CodeOut(r)' = CodeOut(r)
  BY <1>1, <1>2 DEF CodeOut
<1> QED  BY <1>2, <1>3 DEF CodeSize

LEMMA SameCalling ==
  ASSUME types' = types, sig' = sig, Calling(stack', mem', pool', kept')
  PROVE  Calling(stack, mem, pool, kept)'
<1>1. \A r : CodeIn(r)' = CodeIn(r) /\ CodeOut(r)' = CodeOut(r) /\ CodeSize(r)' = CodeSize(r)
  BY SameLayout
<1>2. MemOK(mem)' /\ (stack \in Seq(Activations))'
  BY DEF Calling, MemOK
<1>3. LooseOK(mem, pool, kept)'
  <2>1. LooseOK(mem', pool', kept')
    BY DEF Calling
  <2> QED  BY <1>1, <2>1 DEF LooseOK, Loose, Has, SizeOf
<1>4. ASSUME NEW n \in DOMAIN stack'
      PROVE  /\ Proper(stack[n])' /\ NestedAt(stack, n)' /\ Holds(stack[n], mem)'
             /\ (Own(stack[n]) \subseteq DOMAIN mem)' /\ (Own(stack[n]) \cap Loose(pool, kept) = {})'
  <2>1. /\ Proper(stack'[n]) /\ NestedAt(stack', n) /\ Holds(stack'[n], mem')
        /\ Own(stack'[n]) \subseteq DOMAIN mem' /\ Own(stack'[n]) \cap Loose(pool', kept') = {}
    BY DEF Calling
  <2>2. Holds(stack[n], mem)'
    BY <1>1, <2>1 DEF Holds, HeapHolds, FrameHolds, Room, InAt, OutAt, Has, SizeOf, HasRcvr, FrameRcvr
  <2>3. Proper(stack[n])'
    BY <2>1 DEF Proper
  <2>4. NestedAt(stack, n)'
    BY <2>1 DEF NestedAt, Calls, CalleeOp, Callees
  <2>5. (Own(stack[n]) \subseteq DOMAIN mem)' /\ (Own(stack[n]) \cap Loose(pool, kept) = {})'
    BY <2>1 DEF Own, Loose
  <2> QED  BY <2>2, <2>3, <2>4, <2>5
<1>5. (\A n, k \in DOMAIN stack : n # k => Own(stack[n]) \cap Own(stack[k]) = {})'
  BY DEF Calling, Own
<1> QED  BY <1>2, <1>3, <1>4, <1>5 DEF Calling

LEMMA CallStepInv ==
  ASSUME CallInv, UNCHANGED vars, sig' = sig, made' \in Nat, sig # NoSig,
         Calling(stack', mem', pool', kept')
  PROVE  CallInv'
<1>1. types' = types
  BY DEF vars
<1>2. LayoutInv'
  BY StepLayout DEF CallInv
<1>3. SigOK' /\ Idle' /\ (sig.rcvr = {} \/ \E r \in Receivers : sig.rcvr = {r})'
  BY <1>1 DEF CallInv, SigOK, Idle
<1>4. Calling(stack, mem, pool, kept)'
  BY <1>1, SameCalling
<1> QED  BY <1>2, <1>3, <1>4 DEF CallInv

-----------------------------------------------------------------------------
(* Memory                                                                  *)

LEMMA MemFacts ==
  ASSUME NEW m, MemOK(m)
  PROVE  DOMAIN m = 1..Len(m) /\ Len(m) \in Nat
BY DEF MemOK

LEMMA SeqAll ==
  ASSUME NEW m, NEW n \in Nat, DOMAIN m = 1..n, m = [o \in 1..n |-> m[o]]
  PROVE  m \in Seq(Range(m)) /\ Len(m) = n
<1>1. m \in [1..n -> Range(m)]
  BY DEF Range
<1> QED  BY <1>1, SeqOfFunction

LEMMA AppendSeq ==
  ASSUME NEW S, NEW s \in Seq(S), NEW d \in S
  PROVE  /\ Append(s, d) \in Seq(S) /\ Len(Append(s, d)) = Len(s) + 1
         /\ DOMAIN Append(s, d) = 1..(Len(s) + 1)
         /\ Append(s, d) = [p \in 1..(Len(s) + 1) |-> Append(s, d)[p]]
         /\ Append(s, d)[Len(s) + 1] = d /\ \A p \in 1..Len(s) : Append(s, d)[p] = s[p]
<1> DEFINE u == Append(s, d)
<1>1. u \in Seq(S) /\ Len(u) = Len(s) + 1 /\ Len(s) \in Nat
  OBVIOUS
<1>2. u[Len(s) + 1] = d
  OBVIOUS
<1>3. \A p \in 1..Len(s) : u[p] = s[p]
  OBVIOUS
<1> HIDE DEF u
<1>4. DOMAIN u = 1..(Len(s) + 1) /\ u = [p \in 1..(Len(s) + 1) |-> u[p]]
  BY <1>1
<1> QED  BY <1>1, <1>2, <1>3, <1>4 DEF u

LEMMA ConcatSeq ==
  ASSUME NEW S, NEW s \in Seq(S), NEW t \in Seq(S)
  PROVE  /\ s \o t \in Seq(S) /\ Len(s \o t) = Len(s) + Len(t)
         /\ DOMAIN (s \o t) = 1..(Len(s) + Len(t))
         /\ s \o t = [p \in 1..(Len(s) + Len(t)) |-> (s \o t)[p]]
         /\ \A p \in 1..Len(s) : (s \o t)[p] = s[p]
         /\ \A i \in 1..Len(t) : (s \o t)[Len(s) + i] = t[i]
<1> DEFINE u == s \o t
<1>1. u \in Seq(S) /\ Len(u) = Len(s) + Len(t) /\ Len(s) \in Nat /\ Len(t) \in Nat
  OBVIOUS
<1>2. \A p \in 1..Len(s) : u[p] = s[p]
  OBVIOUS
<1>3. \A i \in 1..Len(t) : u[Len(s) + i] = t[i]
  OBVIOUS
<1> HIDE DEF u
<1>4. DOMAIN u = 1..(Len(s) + Len(t)) /\ u = [p \in 1..(Len(s) + Len(t)) |-> u[p]]
  BY <1>1
<1> QED  BY <1>1, <1>2, <1>3, <1>4 DEF u

(* An object in place of another one, or after all others.                 *)
LEMMA ReplaceMem ==
  ASSUME NEW m, MemOK(m), NEW o \in DOMAIN m, NEW d, "bytes" \in DOMAIN d
  PROVE  LET m2 == [m EXCEPT ![o] = d] IN
         /\ MemOK(m2) /\ DOMAIN m2 = DOMAIN m /\ m2[o] = d
         /\ \A p \in DOMAIN m : p # o => m2[p] = m[p]
<1> DEFINE m2 == [m EXCEPT ![o] = d]
<1>1. /\ DOMAIN m2 = 1..Len(m) /\ Len(m) \in Nat /\ m2 = [p \in 1..Len(m) |-> m2[p]]
      /\ m2[o] = d /\ \A p \in DOMAIN m : p # o => m2[p] = m[p]
      /\ DOMAIN m = 1..Len(m)
  BY MemFacts DEF MemOK
<1> HIDE DEF m2
<1>2. m2 \in Seq(Range(m2))
  BY <1>1, SeqAll
<1>3. \A p \in DOMAIN m2 : "bytes" \in DOMAIN m2[p]
  BY <1>1 DEF MemOK
<1> QED  BY <1>1, <1>2, <1>3 DEF MemOK, m2

LEMMA PutMem ==
  ASSUME NEW m, MemOK(m), NEW o \in DOMAIN m, NEW b
  PROVE  LET m2 == [m EXCEPT ![o].bytes = b] IN
         /\ MemOK(m2) /\ DOMAIN m2 = DOMAIN m /\ m2[o].bytes = b
         /\ \A p \in DOMAIN m : p # o => m2[p] = m[p]
<1> DEFINE d == [m[o] EXCEPT !.bytes = b]
<1>1. "bytes" \in DOMAIN d /\ d.bytes = b
  BY DEF MemOK
<1>2. [m EXCEPT ![o].bytes = b] = [m EXCEPT ![o] = d]
  OBVIOUS
<1> HIDE DEF d
<1> QED  BY <1>1, <1>2, ReplaceMem

LEMMA AppendMem ==
  ASSUME NEW m, MemOK(m), NEW d, "bytes" \in DOMAIN d
  PROVE  LET m2 == Append(m, d) IN
         /\ MemOK(m2) /\ DOMAIN m2 = 1..(Len(m) + 1) /\ m2[Len(m) + 1] = d
         /\ \A p \in DOMAIN m : m2[p] = m[p]
<1> DEFINE m2 == Append(m, d)
           S == Range(m) \cup {d}
<1>0. m \in Seq(S) /\ d \in S /\ DOMAIN m = 1..Len(m) /\ Len(m) \in Nat
  BY SeqMonotone DEF MemOK
<1> HIDE DEF S
<1>4. Len(m) + 1 \in Nat
  BY <1>0
<1>1. /\ DOMAIN m2 = 1..(Len(m) + 1) /\ m2 = [p \in 1..(Len(m) + 1) |-> m2[p]]
      /\ m2[Len(m) + 1] = d /\ \A p \in 1..Len(m) : m2[p] = m[p]
  BY <1>0, AppendSeq
<1> HIDE DEF m2
<1>2. m2 \in Seq(Range(m2))
  BY <1>1, <1>4, SeqAll
<1>3. \A p \in DOMAIN m2 : "bytes" \in DOMAIN m2[p]
  <2> SUFFICES ASSUME NEW p \in 1..(Len(m) + 1)  PROVE "bytes" \in DOMAIN m2[p]
    BY <1>1
  <2>1. CASE p \in 1..Len(m)
    BY <1>0, <1>1, <2>1 DEF MemOK
  <2>2. CASE p = Len(m) + 1
    BY <1>1, <2>2
  <2> QED  BY <1>0, <2>1, <2>2
<1> QED  BY <1>0, <1>1, <1>2, <1>3 DEF MemOK, m2

LEMMA DeadMem ==
  ASSUME NEW m, MemOK(m), NEW S
  PROVE  LET m2 == Dead(m, S) IN
         /\ MemOK(m2) /\ DOMAIN m2 = DOMAIN m
         /\ \A p \in DOMAIN m : p \notin S => m2[p] = m[p]
<1> DEFINE m2 == Dead(m, S)
<1>1. /\ DOMAIN m2 = 1..Len(m) /\ Len(m) \in Nat /\ m2 = [p \in 1..Len(m) |-> m2[p]]
      /\ \A p \in DOMAIN m : p \notin S => m2[p] = m[p]
      /\ DOMAIN m = 1..Len(m)
  BY MemFacts DEF Dead
<1>2. \A p \in DOMAIN m2 : "bytes" \in DOMAIN m2[p]
  BY <1>1 DEF MemOK, Dead
<1> HIDE DEF m2
<1>3. m2 \in Seq(Range(m2))
  BY <1>1, SeqAll
<1> QED  BY <1>1, <1>2, <1>3 DEF MemOK, m2

(* New variables.                                                          *)
LEMMA VariablesMem ==
  ASSUME NEW m, MemOK(m), LayoutInv, NEW ts \in Seq(DOMAIN types), NEW b, NEW offs
  PROVE  LET m2 == m \o Variables(b, ts, offs) IN
         /\ MemOK(m2) /\ DOMAIN m2 = 1..(Len(m) + Len(ts))
         /\ \A p \in DOMAIN m : m2[p] = m[p]
         /\ \A i \in DOMAIN ts : m2[Len(m) + i].bytes
                                = Moved(Blank(SizeOf(ts[i])), 0, b, offs[i], SizeOf(ts[i]))
         /\ \A i \in DOMAIN ts : m2[Len(m) + i].map = PtrWords(ts[i])
<1> DEFINE v == Variables(b, ts, offs)
           m2 == m \o v
<1>1. /\ DOMAIN ts = 1..Len(ts) /\ Len(ts) \in Nat
      /\ DOMAIN m = 1..Len(m) /\ Len(m) \in Nat
  BY TypesFacts, MemFacts
<1>2. /\ DOMAIN v = 1..Len(ts) /\ v = [i \in 1..Len(ts) |-> v[i]]
      /\ \A i \in 1..Len(ts) :
           /\ "bytes" \in DOMAIN v[i]
           /\ v[i].bytes = Moved(Blank(SizeOf(ts[i])), 0, b, offs[i], SizeOf(ts[i]))
           /\ v[i].map = PtrWords(ts[i])
  BY <1>1 DEF Variables, Object
<1> HIDE DEF v
<1>3. v \in Seq(Range(v)) /\ Len(v) = Len(ts)
  BY <1>1, <1>2, SeqAll
<1>4. /\ DOMAIN m2 = 1..(Len(m) + Len(ts)) /\ m2 = [p \in 1..(Len(m) + Len(ts)) |-> m2[p]]
      /\ \A p \in 1..Len(m) : m2[p] = m[p]
      /\ \A i \in 1..Len(ts) : m2[Len(m) + i] = v[i]
  <2> DEFINE S == Range(m) \cup Range(v)
  <2>1. m \in Seq(S) /\ v \in Seq(S)
    BY <1>3, SeqMonotone DEF MemOK
  <2> HIDE DEF S
  <2>2. LET u == m \o v
        IN  /\ DOMAIN u = 1..(Len(m) + Len(v)) /\ u = [p \in 1..(Len(m) + Len(v)) |-> u[p]]
            /\ \A p \in 1..Len(m) : u[p] = m[p]
            /\ \A i \in 1..Len(v) : u[Len(m) + i] = v[i]
    BY <2>1, ConcatSeq
  <2> QED  BY <1>3, <2>2
<1> HIDE DEF m2
<1>5. m2 \in Seq(Range(m2))
  <2>1. Len(m) + Len(ts) \in Nat
    BY <1>1
  <2> QED  BY <1>4, <2>1, SeqAll
<1>6. ASSUME NEW p \in DOMAIN m2  PROVE "bytes" \in DOMAIN m2[p]
  <2>1. CASE p \in 1..Len(m)
    BY <1>1, <1>4, <2>1 DEF MemOK
  <2>2. CASE p \in (Len(m) + 1)..(Len(m) + Len(ts))
    <3>1. p - Len(m) \in 1..Len(ts) /\ Len(m) + (p - Len(m)) = p
      BY <1>1, <2>2
    <3>2. m2[p] = v[p - Len(m)]
      BY <1>4, <3>1
    <3> QED  BY <1>2, <3>1, <3>2
  <2>3. p \in 1..Len(m) \/ p \in (Len(m) + 1)..(Len(m) + Len(ts))
    BY <1>1, <1>4
  <2> QED  BY <2>1, <2>2, <2>3
<1>7. \A i \in 1..Len(ts) : /\ m2[Len(m) + i].bytes
                                 = Moved(Blank(SizeOf(ts[i])), 0, b, offs[i], SizeOf(ts[i]))
                            /\ m2[Len(m) + i].map = PtrWords(ts[i])
  BY <1>2, <1>4
<1>8. MemOK(m2)
  BY <1>5, <1>6 DEF MemOK
<1> HIDE DEF MemOK
<1> QED  BY <1>1, <1>4, <1>7, <1>8 DEF m2, v

-----------------------------------------------------------------------------
(* Stacks                                                                  *)

LEMMA StackFacts ==
  ASSUME NEW st \in Seq(Activations)
  PROVE  /\ DOMAIN st = 1..Len(st) /\ Len(st) \in Nat /\ st = [k \in 1..Len(st) |-> st[k]]
         /\ \A n \in 1..Len(st) : st[n] \in Activations
         /\ st # <<>> => Len(st) >= 1
OBVIOUS

LEMMA ReplaceTop ==
  ASSUME NEW st \in Seq(Activations), NEW n \in 1..Len(st), NEW a \in Activations
  PROVE  LET s2 == [st EXCEPT ![n] = a] IN
         /\ s2 \in Seq(Activations) /\ Len(s2) = Len(st) /\ s2[n] = a
         /\ \A k \in 1..Len(st) : k # n => s2[k] = st[k]
OBVIOUS

LEMMA PopTop ==
  ASSUME NEW st \in Seq(Activations), st # <<>>
  PROVE  LET s2 == SubSeq(st, 1, Len(st) - 1) IN
         /\ s2 \in Seq(Activations) /\ Len(s2) = Len(st) - 1
         /\ \A k \in 1..(Len(st) - 1) : s2[k] = st[k]
<1>1. /\ Len(st) \in Nat /\ Len(st) >= 1 /\ Len(st) - 1 \in Nat
      /\ \A k \in 1..Len(st) : st[k] \in Activations
  OBVIOUS
<1> DEFINE n == Len(st) - 1
<1>2. SubSeq(st, 1, n) = [k \in 1..n |-> st[k]]
  BY <1>1
<1>3. [k \in 1..n |-> st[k]] \in Seq(Activations)
  BY <1>1
<1>4. Len([k \in 1..n |-> st[k]]) = n
  BY <1>1
<1> QED  BY <1>2, <1>3, <1>4

(* What must be shown of a step: the first j activations stay, with what   *)
(* they own, U is what may change or move.                                 *)
Unowned(st, j, U) == \A k \in 1..j : Own(st[k]) \cap U = {}
Unchanged(m, m2, U) == \A o \in DOMAIN m : o \notin U => o \in DOMAIN m2 /\ m2[o].bytes = m[o].bytes
Stays(st, s2, j) == \A k \in 1..j : s2[k] = st[k]
NewTop(a, m2, pl2, kp2, U) == /\ Proper(a) /\ Holds(a, m2) /\ Own(a) \subseteq U \cap DOMAIN m2
                              /\ Own(a) \cap Loose(pl2, kp2) = {}

LEMMA HoldsSame ==
  ASSUME NEW a \in Activations, NEW m, NEW m2, Proper(a), Holds(a, m),
         \A o \in Own(a) : m2[o].bytes = m[o].bytes
  PROVE  Holds(a, m2)
<1>1. a.heap # 0 => m2[a.heap].bytes = m[a.heap].bytes
  BY DEF Own
<1>2. a.op \in Callees => m2[a.frame].bytes = m[a.frame].bytes
  BY DEF Own, Proper
<1> QED  BY <1>1, <1>2 DEF Holds

LEMMA Progress ==
  ASSUME NEW st, NEW m, NEW pl, NEW kp, Calling(st, m, pl, kp),
         NEW s2 \in Seq(Activations), NEW m2, NEW pl2, NEW kp2, NEW j \in Nat, NEW U,
         j <= Len(st), j <= Len(s2), Stays(st, s2, j), MemOK(m2),
         Unowned(st, j, U), Unchanged(m, m2, U),
         \A n \in j..Len(s2) : n >= 1 => NestedAt(s2, n),
         \A n \in (j + 1)..Len(s2) : NewTop(s2[n], m2, pl2, kp2, U),
         \A n, k \in (j + 1)..Len(s2) : n # k => Own(s2[n]) \cap Own(s2[k]) = {},
         LooseOK(m2, pl2, kp2), Loose(pl2, kp2) \subseteq Loose(pl, kp) \cup U
  PROVE  Calling(s2, m2, pl2, kp2)
<1>1. /\ DOMAIN st = 1..Len(st) /\ Len(st) \in Nat /\ DOMAIN s2 = 1..Len(s2) /\ Len(s2) \in Nat
      /\ \A n \in 1..Len(st) : st[n] \in Activations
  BY StackFacts DEF Calling
<1>2. \A n \in 1..j : s2[n] = st[n] /\ n \in DOMAIN st /\ n \in DOMAIN s2
  BY <1>1 DEF Stays
<1>3. ASSUME NEW n \in 1..j
      PROVE  /\ Proper(s2[n]) /\ Own(s2[n]) \subseteq DOMAIN m2
             /\ Own(s2[n]) \cap Loose(pl2, kp2) = {} /\ Holds(s2[n], m2)
  <2>1. /\ s2[n] = st[n] /\ st[n] \in Activations /\ Proper(st[n]) /\ Own(st[n]) \subseteq DOMAIN m
        /\ Own(st[n]) \cap Loose(pl, kp) = {} /\ Holds(st[n], m)
    BY <1>1, <1>2 DEF Calling
  <2>2. Own(st[n]) \cap U = {}
    BY DEF Unowned
  <2>3. \A o \in Own(st[n]) : o \in DOMAIN m2 /\ m2[o].bytes = m[o].bytes
    BY <2>1, <2>2 DEF Unchanged
  <2>4. Holds(st[n], m2)
    BY <2>1, <2>3, HoldsSame
  <2> QED  BY <2>1, <2>2, <2>3, <2>4
<1>4. ASSUME NEW n \in 1..j, n < j  PROVE NestedAt(s2, n)
  <2>1. NestedAt(st, n)
    BY <1>2 DEF Calling
  <2>2. s2[n] = st[n] /\ s2[n + 1] = st[n + 1] /\ n < Len(st) /\ n < Len(s2)
    BY <1>1, <1>2, <1>4
  <2>3. n > 1 => s2[n - 1] = st[n - 1]
    BY <1>2
  <2> QED  BY <2>1, <2>2, <2>3 DEF NestedAt
<1>5. ASSUME NEW n \in 1..Len(s2)  PROVE NestedAt(s2, n)
  <2>1. (n \in 1..j /\ n < j) \/ (n \in j..Len(s2) /\ n >= 1)
    BY <1>1
  <2> QED  BY <1>4, <2>1
<1>6. ASSUME NEW n \in 1..Len(s2)
      PROVE  /\ Proper(s2[n]) /\ Own(s2[n]) \subseteq DOMAIN m2
             /\ Own(s2[n]) \cap Loose(pl2, kp2) = {} /\ Holds(s2[n], m2)
  <2>1. n \in 1..j \/ n \in (j + 1)..Len(s2)
    BY <1>1
  <2> QED  BY <1>3, <2>1 DEF NewTop
<1>7. ASSUME NEW n \in 1..Len(s2), NEW k \in 1..Len(s2), n # k  PROVE Own(s2[n]) \cap Own(s2[k]) = {}
  <2>1. CASE n \in 1..j /\ k \in 1..j
    BY <1>2, <1>7, <2>1 DEF Calling
  <2>2. CASE n \in 1..j /\ k \in (j + 1)..Len(s2)
    BY <1>2, <2>2 DEF Unowned, NewTop
  <2>3. CASE k \in 1..j /\ n \in (j + 1)..Len(s2)
    BY <1>2, <2>3 DEF Unowned, NewTop
  <2>4. CASE k \in (j + 1)..Len(s2) /\ n \in (j + 1)..Len(s2)
    BY <1>7, <2>4
  <2> QED  BY <1>1, <2>1, <2>2, <2>3, <2>4
<1> QED  BY <1>1, <1>5, <1>6, <1>7 DEF Calling


(* What belongs to nobody.                                                 *)
LEMMA LooseSame ==
  ASSUME NEW m, NEW pl, NEW kp, LooseOK(m, pl, kp), NEW m2, NEW pl2, DOMAIN pl2 = BOOLEAN,
         pl2[TRUE] \subseteq pl[TRUE], pl2[FALSE] \subseteq pl[FALSE],
         \A o \in Loose(pl2, kp) : o \in DOMAIN m2 /\ m2[o].bytes = m[o].bytes
  PROVE  LooseOK(m2, pl2, kp)
<1>1. ASSUME NEW v \in kp  PROVE v.obj \in Loose(pl2, kp)
  BY DEF Loose
<1>2. ASSUME NEW r \in BOOLEAN  PROVE pl2[r] \subseteq Loose(pl2, kp) /\ pl2[r] \subseteq pl[r]
  BY DEF Loose
<1>3. \A v \in kp : Has(m2[v.obj].bytes, v.id, v.what, v.i, v.typ, v.off)
  BY <1>1 DEF LooseOK
<1>4. \A r \in BOOLEAN : \A o \in pl2[r] : m2[o].bytes = Blank(CodeSize(r))
  BY <1>2 DEF LooseOK
<1>5. \A v \in kp : v.obj \notin pl2[TRUE] /\ v.obj \notin pl2[FALSE]
  BY DEF LooseOK
<1> QED  BY <1>3, <1>4, <1>5 DEF LooseOK

LEMMA LooseRelease ==
  ASSUME NEW m, NEW pl, NEW kp, LooseOK(m, pl, kp), NEW r \in BOOLEAN, NEW o \in DOMAIN m,
         o \notin Loose(pl, kp), m[o].bytes = Blank(CodeSize(r)),
         NEW pl2, DOMAIN pl2 = BOOLEAN, pl2[r] = pl[r] \cup {o},
         \A q \in BOOLEAN : q # r => pl2[q] = pl[q]
  PROVE  LooseOK(m, pl2, kp) /\ Loose(pl2, kp) = Loose(pl, kp) \cup {o}
<1>2. \A q \in BOOLEAN : o \notin pl[q]
  BY DEF Loose
<1>3. \A v \in kp : v.obj # o
  BY DEF Loose
<1>4. Loose(pl2, kp) = Loose(pl, kp) \cup {o}
  BY DEF Loose
<1>5. pl2[TRUE] \cap pl2[FALSE] = {}
  BY <1>2 DEF LooseOK
<1>6. \A v \in kp : v.obj \notin pl2[TRUE] /\ v.obj \notin pl2[FALSE]
  <2>1. ASSUME NEW q \in BOOLEAN  PROVE pl2[q] \subseteq pl[q] \cup {o}
    BY <2>1
  <2>2. pl2[TRUE] \subseteq pl[TRUE] \cup {o} /\ pl2[FALSE] \subseteq pl[FALSE] \cup {o}
    BY <2>1
  <2>3. \A v \in kp : v.obj \notin pl[TRUE] /\ v.obj \notin pl[FALSE]
    BY DEF LooseOK
  <2> QED  BY <1>3, <2>2, <2>3
<1>7. \A q \in BOOLEAN : \A p \in pl2[q] : m[p].bytes = Blank(CodeSize(q))
  BY DEF LooseOK
<1> QED  BY <1>4, <1>5, <1>6, <1>7 DEF LooseOK

LEMMA LooseGive ==
  ASSUME NEW m, NEW pl, NEW kp, LooseOK(m, pl, kp), NEW K,
         \A v \in K : /\ v.obj \in DOMAIN m /\ v.obj \notin pl[TRUE] /\ v.obj \notin pl[FALSE]
                      /\ Has(m[v.obj].bytes, v.id, v.what, v.i, v.typ, v.off),
         NEW S, \A v \in K : v.obj \in S
  PROVE  LooseOK(m, pl, kp \cup K) /\ Loose(pl, kp \cup K) \subseteq Loose(pl, kp) \cup S
<1>1. Loose(pl, kp \cup K) = Loose(pl, kp) \cup {v.obj : v \in K}
  BY DEF Loose
<1>2. {v.obj : v \in K} \subseteq DOMAIN m
  OBVIOUS
<1>3. {v.obj : v \in K} \subseteq S
  OBVIOUS
<1> QED  BY <1>1, <1>2, <1>3 DEF LooseOK

(* A frame is taken from a pool or made, and filled.                       *)
LEMMA FrameTaken ==
  ASSUME Calling(stack, mem, pool, kept), LayoutInv, SigOK,
         NEW r \in BOOLEAN, NEW o \in 1..New, GetFrom(r, o)
  PROVE  /\ Frame(r, o).bytes = Blank(CodeSize(r)) /\ "bytes" \in DOMAIN Frame(r, o)
         /\ o # 0 /\ Unowned(stack, Len(stack), {o})
         /\ o \notin Loose(pool', kept) /\ Loose(pool', kept) \subseteq Loose(pool, kept)
         /\ \A g : "bytes" \in DOMAIN g =>
              LET m2 == WithFrame(o, g)
              IN  /\ MemOK(m2) /\ Unchanged(mem, m2, {o}) /\ LooseOK(m2, pool', kept)
                  /\ o \in DOMAIN m2 /\ m2[o] = g /\ DOMAIN mem \subseteq DOMAIN m2
<1>1. /\ MemOK(mem) /\ LooseOK(mem, pool, kept) /\ DOMAIN mem = 1..Len(mem) /\ Len(mem) \in Nat
      /\ stack \in Seq(Activations) /\ New \notin DOMAIN mem
  <2>1. MemOK(mem) /\ LooseOK(mem, pool, kept) /\ stack \in Seq(Activations)
    BY DEF Calling
  <2>2. DOMAIN mem = 1..Len(mem) /\ Len(mem) \in Nat
    BY <2>1, MemFacts
  <2> QED  BY <2>1, <2>2 DEF New
<1>2. /\ o # New => o \in pool[r]
      /\ DOMAIN pool' = BOOLEAN /\ pool'[r] = pool[r] \ {o}
      /\ \A q \in BOOLEAN : q # r => pool'[q] = pool[q]
  BY <1>1 DEF GetFrom, LooseOK
<1>3. o # New => o \in DOMAIN mem /\ mem[o].bytes = Blank(CodeSize(r)) /\ o \in Loose(pool, kept)
  BY <1>1, <1>2 DEF LooseOK, Loose
<1>4. Frame(r, o).bytes = Blank(CodeSize(r)) /\ "bytes" \in DOMAIN Frame(r, o)
  <2>1. CASE o = New
    BY <2>1, FuncLayout DEF Frame, Fresh, Object
  <2>2. CASE o # New
    BY <1>1, <1>3, <2>2 DEF Frame, MemOK
  <2> QED  BY <2>1, <2>2
<1>5. Unowned(stack, Len(stack), {o})
  <2> SUFFICES ASSUME NEW k \in 1..Len(stack)  PROVE o \notin Own(stack[k])
    BY DEF Unowned
  <2>1. Own(stack[k]) \subseteq DOMAIN mem /\ Own(stack[k]) \cap Loose(pool, kept) = {}
    BY <1>1, StackFacts DEF Calling
  <2> QED  BY <1>1, <1>3, <2>1
<1>6. Loose(pool', kept) \subseteq Loose(pool, kept)
  BY <1>2 DEF Loose
<1>7. o \notin Loose(pool', kept)
  <2>1. CASE o = New
    BY <1>1, <1>6, <2>1 DEF LooseOK
  <2>2. CASE o # New
    <3>1. o \notin pool'[TRUE] /\ o \notin pool'[FALSE]
      BY <1>1, <1>2, <2>2 DEF LooseOK
    <3>2. \A v \in kept : v.obj # o
      BY <1>1, <1>2, <2>2 DEF LooseOK
    <3> QED  BY <3>1, <3>2 DEF Loose
  <2> QED  BY <2>1, <2>2
<1>8. ASSUME NEW g, "bytes" \in DOMAIN g
      PROVE  LET m2 == WithFrame(o, g)
             IN  /\ MemOK(m2) /\ Unchanged(mem, m2, {o}) /\ LooseOK(m2, pool', kept)
                 /\ o \in DOMAIN m2 /\ m2[o] = g /\ DOMAIN mem \subseteq DOMAIN m2
  <2> DEFINE m2 == WithFrame(o, g)
  <2>1. /\ MemOK(m2) /\ o \in DOMAIN m2 /\ m2[o] = g /\ DOMAIN mem \subseteq DOMAIN m2
        /\ \A p \in DOMAIN mem : p # o => m2[p] = mem[p]
    <3>1. CASE o = New
      <4>1. m2 = Append(mem, g) /\ o = Len(mem) + 1
        BY <3>1 DEF WithFrame, New
      <4>2. LET q == Append(mem, g) IN
            /\ MemOK(q) /\ DOMAIN q = 1..(Len(mem) + 1) /\ q[Len(mem) + 1] = g
            /\ \A p \in DOMAIN mem : q[p] = mem[p]
        BY <1>1, <1>8, AppendMem
      <4> HIDE DEF m2
      <4> QED  BY <1>1, <4>1, <4>2
    <3>2. CASE o # New
      BY <1>1, <1>3, <1>8, <3>2, ReplaceMem DEF WithFrame
    <3> QED  BY <3>1, <3>2
  <2> HIDE DEF m2
  <2>2. Unchanged(mem, m2, {o})
    BY <2>1 DEF Unchanged
  <2>3. \A p \in Loose(pool', kept) : p \in DOMAIN m2 /\ m2[p].bytes = mem[p].bytes
    BY <1>1, <1>6, <1>7, <2>1 DEF LooseOK
  <2>4. LooseOK(m2, pool', kept)
    BY <1>1, <1>2, <2>3, LooseSame
  <2> QED  BY <2>1, <2>2, <2>4 DEF m2
<1>9. o # 0
  OBVIOUS
<1> QED  BY <1>4, <1>5, <1>6, <1>7, <1>8, <1>9

-----------------------------------------------------------------------------
(* Value.call                                                              *)

StackOK == /\ Calling(stack, mem, pool, kept) /\ LayoutInv /\ SigOK /\ made \in Nat
           /\ stack \in Seq(Activations) /\ MemOK(mem) /\ LooseOK(mem, pool, kept)
           /\ sig.rcvr = {} \/ \E r \in Receivers : sig.rcvr = {r}

LEMMA CallInvFacts ==
  ASSUME CallInv
  PROVE  StackOK /\ (stack # <<>> => sig # NoSig)
BY DEF CallInv, StackOK, Calling, Idle

(* The word of the receiver is the data word of an interface that holds it.*)
LEMMA ReceiverStored ==
  ASSUME StackOK, sig.rcvr # {}
  PROVE  \A q \in sig.rcvr : Stored(CHOOSE r \in sig.rcvr : TRUE) = RcvrWord(q)
<1>1. PICK r \in Receivers : sig.rcvr = {r}
  BY DEF StackOK
<1>2. (CHOOSE q \in sig.rcvr : TRUE) = r
  BY <1>1
<1>3. r.direct \in BOOLEAN /\ r.indir \in BOOLEAN /\ r.iface \in BOOLEAN
      /\ (~r.direct \/ r.iface => r.indir)
  BY CallAssumption
<1>4. Stored(r) = RcvrWord(r)
  BY <1>3 DEF Stored, RcvrWord, ValuePtr, Loaded
<1> QED  BY <1>1, <1>2, <1>4

LEMMA StoreRcvr ==
  ASSUME StackOK, sig.rcvr # {}, NEW b, NEW n \in Nat, DOMAIN b = 0..(n - 1), NEW id
  PROVE  LET w == storeRcvr(b, id) IN
         /\ DOMAIN w = 0..(n - 1)
         /\ \A k \in 0..(n - 1), q \in sig.rcvr : k < PtrSize => w[k] = Byte(id, RcvrWord(q), 0, k)
BY ReceiverStored DEF storeRcvr

LEMMA CallArgsFacts ==
  ASSUME StackOK, NEW r \in BOOLEAN, r => sig.rcvr # {}, NEW id,
         NEW f, f.bytes = Blank(CodeSize(r)), "bytes" \in DOMAIN f
  PROVE  LET g == CallArgs(f, id, r) IN
         "bytes" \in DOMAIN g /\ Room(g.bytes, r) /\ InAt(g.bytes, id, r)
<1> DEFINE b == IF r THEN storeRcvr(f.bytes, id) ELSE f.bytes
           n == CodeSize(r)
           w == Written(b, id, "in", sig.in, CodeIn(r).offs)
<1>1. /\ InOrder(CodeIn(r).offs, Types(sig.in), Base(r), CodeIn(r).end)
      /\ CodeIn(r).end \in Nat /\ n \in Nat /\ CodeIn(r).end <= n
      /\ Base(r) <= CodeIn(r).end
  BY FrameFacts DEF StackOK, InOrder
<1>2. DOMAIN f.bytes = 0..(n - 1)
  BY <1>1 DEF Blank
<1>3. DOMAIN b = 0..(n - 1)
  BY <1>1, <1>2, StoreRcvr
<1>4. ASSUME r = TRUE
      PROVE  /\ PtrSize \in Nat /\ PtrSize <= n /\ Base(r) = PtrSize
             /\ \A k \in 0..(PtrSize - 1), q \in sig.rcvr : b[k] = Byte(id, RcvrWord(q), 0, k)
  <2>1. Base(r) = PtrSize /\ PtrSize \in Nat
    BY <1>4, LayoutAssumption DEF Base
  <2>2. b = storeRcvr(f.bytes, id) /\ sig.rcvr # {}
    BY <1>4
  <2>3. PtrSize <= n
    BY <1>1, <2>1
  <2> HIDE DEF b, n
  <2>4. \A k \in 0..(n - 1), q \in sig.rcvr : k < PtrSize => b[k] = Byte(id, RcvrWord(q), 0, k)
    BY <1>1, <1>2, <2>2, StoreRcvr
  <2>5. \A k \in 0..(PtrSize - 1) : k \in 0..(n - 1) /\ k < PtrSize
    BY <1>1, <2>1, <2>3
  <2> QED  BY <2>1, <2>3, <2>4, <2>5
<1> HIDE DEF b, n
<1>5. /\ DOMAIN w = 0..(n - 1)
      /\ \A i \in DOMAIN sig.in : Has(w, id, "in", i, sig.in[i], CodeIn(r).offs[i])
      /\ \A k \in 0..(n - 1) : k < Base(r) => w[k] = b[k]
  BY <1>1, <1>3, WrittenFacts DEF StackOK, SigOK
<1> HIDE DEF w
<1>6. ASSUME r = TRUE, NEW k \in 0..(PtrSize - 1), NEW q \in sig.rcvr
      PROVE  w[k] = Byte(id, RcvrWord(q), 0, k)
  <2>1. PtrSize \in Nat /\ PtrSize <= n /\ Base(r) = PtrSize /\ b[k] = Byte(id, RcvrWord(q), 0, k)
    BY <1>4, <1>6
  <2>2. k \in 0..(n - 1) /\ k < Base(r)
    BY <1>1, <2>1
  <2> QED  BY <1>5, <2>1, <2>2
<1>7. CallArgs(f, id, r) = [f EXCEPT !.bytes = w]
  BY DEF CallArgs, w, b, CodeIn
<1> QED  BY <1>5, <1>6, <1>7 DEF Room, InAt, n

LEMMA CallKeeps ==
  ASSUME CallInv, UNCHANGED vars, NEW target \in Targets, Call(target)
  PROVE  CallInv'
<1> DEFINE r  == target = "method"
           id == made + 1
           n  == Len(stack)
<1>1. /\ sig # NoSig /\ Running /\ OfMethod(target) = (sig.rcvr # {})
      /\ made' = id /\ UNCHANGED <<sig, kept>>
  BY DEF Call, MayCall
<1>2. PICK o \in 1..New :
        /\ GetFrom(r, o)
        /\ mem' = WithFrame(o, CallArgs(Frame(r, o), id, r))
        /\ stack' = Append(stack, Activation("caller", id, target, 0, o, "marshalled"))
  BY DEF Call
<1> DEFINE a == Activation("caller", id, target, 0, o, "marshalled")
           g == CallArgs(Frame(r, o), id, r)
<1>3. StackOK /\ r \in BOOLEAN /\ (r => sig.rcvr # {}) /\ id \in Nat /\ n \in Nat
  BY <1>1, CallInvFacts, StackFacts DEF StackOK, OfMethod
<1>4. o \in Nat
  BY <1>3, MemFacts DEF StackOK, New
<1> HIDE DEF r, id
<1>5. /\ Frame(r, o).bytes = Blank(CodeSize(r)) /\ "bytes" \in DOMAIN Frame(r, o)
      /\ o # 0 /\ Unowned(stack, n, {o})
      /\ o \notin Loose(pool', kept) /\ Loose(pool', kept) \subseteq Loose(pool, kept)
      /\ \A h : "bytes" \in DOMAIN h =>
           LET m2 == WithFrame(o, h)
           IN  /\ MemOK(m2) /\ Unchanged(mem, m2, {o}) /\ LooseOK(m2, pool', kept)
               /\ o \in DOMAIN m2 /\ m2[o] = h /\ DOMAIN mem \subseteq DOMAIN m2
  BY <1>2, <1>3, FrameTaken DEF StackOK
<1>6. "bytes" \in DOMAIN g /\ Room(g.bytes, r) /\ InAt(g.bytes, id, r)
  BY <1>3, <1>5, CallArgsFacts
<1>7. /\ MemOK(mem') /\ Unchanged(mem, mem', {o}) /\ LooseOK(mem', pool', kept)
      /\ o \in DOMAIN mem' /\ mem'[o] = g
  BY <1>2, <1>5, <1>6
<1> HIDE DEF g
<1>8. a \in Activations /\ Own(a) = {o} /\ HasRcvr(a) = r
  BY <1>3, <1>4, <1>5 DEF Activation, Activations, Phases, Own, Callees, HasRcvr, r
<1>9. Proper(a)
  BY <1>1, <1>5 DEF Proper, Activation, PhasesOf, HasHeap, Callees
<1>10. Holds(a, mem')
  BY <1>6, <1>7, <1>8 DEF Holds, HeapHolds, Activation, Callees
<1>11. /\ stack' \in Seq(Activations) /\ Len(stack') = n + 1 /\ stack'[n + 1] = a
       /\ Stays(stack, stack', n)
  BY <1>2, <1>3, <1>8, AppendSeq DEF StackOK, Stays
<1>12. NewTop(a, mem', pool', kept, {o})
  BY <1>5, <1>7, <1>8, <1>9, <1>10 DEF NewTop
<1>13. ASSUME NEW k \in n..(n + 1), k >= 1  PROVE NestedAt(stack', k)
  <2>1. CASE k = n + 1
    BY <1>3, <1>11, <2>1 DEF NestedAt, Activation, Callees
  <2>2. CASE k = n
    <3>1. stack # <<>> /\ n >= 1 /\ n \in DOMAIN stack
      BY <1>3, <1>13, <2>2 DEF StackOK
    <3>2. stack[n].phase = "running" /\ NestedAt(stack, n)
      BY <1>1, <1>3, <3>1 DEF Running, IsTop, Top, StackOK, Calling
    <3>3. stack'[n] = stack[n] /\ (n > 1 => stack'[n - 1] = stack[n - 1])
      BY <1>3, <1>11, <3>1 DEF Stays
    <3> QED  BY <2>2, <3>1, <3>2, <3>3 DEF NestedAt
  <2> QED  BY <1>3, <2>1, <2>2
<1> HIDE DEF a
<1>14. Calling(stack', mem', pool', kept)
  <2>1. n <= Len(stack) /\ n <= Len(stack') /\ (n + 1)..Len(stack') = {n + 1} /\ n..Len(stack') = n..(n + 1)
    BY <1>3, <1>11
  <2>2. Loose(pool', kept) \subseteq Loose(pool, kept) \cup {o}
    BY <1>5
  <2>3. \A k \in (n + 1)..Len(stack') : NewTop(stack'[k], mem', pool', kept, {o})
    BY <1>11, <1>12, <2>1
  <2>4. \A k, l \in (n + 1)..Len(stack') : k # l => Own(stack'[k]) \cap Own(stack'[l]) = {}
    BY <2>1
  <2>5. \A k \in n..Len(stack') : k >= 1 => NestedAt(stack', k)
    BY <1>13, <2>1
  <2>6. Calling(stack, mem, pool, kept)
    BY <1>3 DEF StackOK
  <2> HIDE DEF n
  <2> QED  BY <1>3, <1>5, <1>7, <1>11, <2>1, <2>2, <2>3, <2>4, <2>5, <2>6, Progress
<1> QED  BY <1>1, <1>3, <1>14, CallStepInv

-----------------------------------------------------------------------------
(* What is below the top of the stack                                      *)

SameCall(a, b) == a.op = b.op /\ a.id = b.id /\ a.target = b.target /\ a.frame = b.frame

LEMMA Callers ==
  ASSUME NEW st, NEW m, NEW pl, NEW kp, Calling(st, m, pl, kp), NEW n \in DOMAIN st
  PROVE  /\ st[n].op = "method" => st[n].target = "methodvalue"
         /\ st[n].op \in Callees =>
              /\ n > 1 /\ n - 1 \in DOMAIN st /\ st[n - 1].phase = "calling"
              /\ Calls(st[n - 1], st[n])
              /\ st[n - 1].op \in {"caller", "client"} \/ (st[n - 1].op = "method" /\ st[n].op = "code")
              /\ st[n].op = "code" => st[n - 1].op # "client"
              /\ st[n - 1].op # "client" => /\ HasRcvr(st[n - 1]) = FrameRcvr(st[n])
                                            /\ st[n - 1].heap # 0
<1>1. /\ DOMAIN st = 1..Len(st) /\ Len(st) \in Nat
      /\ \A k \in 1..Len(st) : st[k] \in Activations /\ Proper(st[k]) /\ NestedAt(st, k)
  BY StackFacts DEF Calling
<1>2. ASSUME NEW k \in DOMAIN st, st[k].op \in Callees
      PROVE  k > 1 /\ k - 1 \in DOMAIN st /\ st[k - 1].phase = "calling" /\ Calls(st[k - 1], st[k])
  <2>1. k > 1 /\ st[k - 1].phase = "calling" /\ k - 1 \in DOMAIN st
    BY <1>1, <1>2 DEF NestedAt
  <2>2. (k - 1) + 1 = k /\ NestedAt(st, k - 1)
    BY <1>1, <2>1
  <2> QED  BY <2>1, <2>2 DEF NestedAt
<1>3. ASSUME NEW k \in DOMAIN st, st[k].op = "method"  PROVE st[k].target = "methodvalue"
  <2>1. k - 1 \in DOMAIN st /\ Calls(st[k - 1], st[k])
    BY <1>2, <1>3 DEF Callees
  <2>2. st[k - 1].target \in Targets
    BY <1>1, <2>1 DEF Activations
  <2> QED  BY <1>3, <2>1, <2>2 DEF Calls, CalleeOp, Targets
<1>4. ASSUME st[n].op \in Callees
      PROVE  /\ st[n - 1].op \in {"caller", "client"} \/ (st[n - 1].op = "method" /\ st[n].op = "code")
             /\ st[n].op = "code" => st[n - 1].op # "client"
             /\ st[n - 1].op # "client" => /\ HasRcvr(st[n - 1]) = FrameRcvr(st[n])
                                           /\ st[n - 1].heap # 0
  <2> DEFINE b == st[n - 1]
  <2>1. n - 1 \in DOMAIN st /\ b.phase = "calling" /\ Calls(b, st[n])
    BY <1>2, <1>4
  <2>2. b \in Activations /\ Proper(b) /\ (b.op = "method" => b.target = "methodvalue")
    BY <1>1, <1>3, <2>1
  <2> HIDE DEF b
  <2>3. b.op \in {"caller", "client", "method"}
    <3>1. b.op \in {"caller", "client", "code", "reflect", "method"} /\ b.phase \in PhasesOf(b.op)
      BY <2>2 DEF Proper, Activations, Callees
    <3> QED  BY <2>1, <3>1 DEF PhasesOf
  <2>4. b.op = "method" => st[n].op = "code"
    BY <2>1 DEF Calls, CalleeOp
  <2>5. st[n].op = "code" => b.op # "client"
    BY <2>1, <2>2 DEF Calls, CalleeOp, Proper
  <2>6. ASSUME b.op # "client"  PROVE HasRcvr(b) = FrameRcvr(st[n]) /\ b.heap # 0
    <3>1. b.heap # 0
      BY <2>1, <2>2, <2>3, <2>6 DEF Proper, HasHeap
    <3>2. b.target \in {"function", "makefunc", "method", "methodvalue"}
      BY <2>2 DEF Activations, Targets
    <3>3. HasRcvr(b) = FrameRcvr(st[n])
      BY <2>1, <2>2, <2>3, <2>6, <3>2 DEF HasRcvr, FrameRcvr, Calls, CalleeOp, OfMethod
    <3> QED  BY <3>1, <3>3
  <2>7. b.op \in {"caller", "client"} \/ (b.op = "method" /\ st[n].op = "code")
    BY <2>3, <2>4
  <2>8. b.op # "client" => HasRcvr(b) = FrameRcvr(st[n]) /\ b.heap # 0
    BY <2>6
  <2> QED  BY <2>5, <2>7, <2>8, Zenon DEF b
<1> QED  BY <1>2, <1>3, <1>4

LEMMA TopFacts ==
  ASSUME StackOK, stack # <<>>
  PROVE  LET n == Len(stack) IN
         /\ n \in Nat /\ n >= 1 /\ n \in DOMAIN stack /\ DOMAIN stack = 1..n /\ Top = stack[n]
         /\ Top \in Activations /\ Proper(Top) /\ Holds(Top, mem) /\ NestedAt(stack, n)
         /\ Own(Top) \subseteq DOMAIN mem /\ Own(Top) \cap Loose(pool, kept) = {}
         /\ Unowned(stack, n - 1, Own(Top))
<1> DEFINE n == Len(stack)
<1>1. n \in Nat /\ n >= 1 /\ n \in DOMAIN stack /\ DOMAIN stack = 1..n /\ Top = stack[n]
  BY StackFacts DEF StackOK, Top
<1>2. /\ Top \in Activations /\ Proper(Top) /\ Holds(Top, mem) /\ NestedAt(stack, n)
      /\ Own(Top) \subseteq DOMAIN mem /\ Own(Top) \cap Loose(pool, kept) = {}
  BY <1>1, StackFacts DEF StackOK, Calling
<1>3. Unowned(stack, n - 1, Own(Top))
  <2> SUFFICES ASSUME NEW k \in 1..(n - 1)  PROVE Own(stack[k]) \cap Own(Top) = {}
    BY DEF Unowned
  <2> HIDE DEF n
  <2>1. k \in DOMAIN stack /\ k # n
    BY <1>1
  <2> QED  BY <1>1, <2>1 DEF StackOK, Calling
<1> QED  BY <1>1, <1>2, <1>3

(* What no object is.                                                      *)
LEMMA NewObjects ==
  ASSUME StackOK
  PROVE  /\ Unowned(stack, Len(stack), Nat \ DOMAIN mem)
         /\ New \in Nat \ DOMAIN mem /\ New # 0
         /\ Loose(pool, kept) \subseteq DOMAIN mem /\ DOMAIN mem = 1..Len(mem) /\ Len(mem) \in Nat
<1>1. DOMAIN mem = 1..Len(mem) /\ Len(mem) \in Nat
  BY MemFacts DEF StackOK
<1>2. Unowned(stack, Len(stack), Nat \ DOMAIN mem)
  BY StackFacts DEF StackOK, Calling, Unowned
<1> QED  BY <1>1, <1>2 DEF New, StackOK, LooseOK

LEMMA NestedBelow ==
  ASSUME StackOK, stack # <<>>, NEW s2, Len(s2) \in Nat, Len(s2) >= Len(stack),
         Stays(stack, s2, Len(stack) - 1), SameCall(s2[Len(stack)], Top)
  PROVE  /\ Len(stack) > 1 => NestedAt(s2, Len(stack) - 1)
         /\ s2[Len(stack)].op \in Callees =>
              Len(stack) > 1 /\ s2[Len(stack) - 1].phase = "calling"
<1> DEFINE n == Len(stack)
<1>1. n \in Nat /\ n >= 1 /\ Top = stack[n] /\ NestedAt(stack, n) /\ DOMAIN stack = 1..n
  BY TopFacts
<1>2. ASSUME n > 1  PROVE NestedAt(s2, n - 1) /\ s2[n - 1] = stack[n - 1]
  <2>1. n - 1 \in DOMAIN stack /\ (n - 1) + 1 = n /\ n - 1 \in 1..(n - 1)
    BY <1>1, <1>2
  <2>2. NestedAt(stack, n - 1)
    BY <2>1 DEF StackOK, Calling
  <2>3. s2[n - 1] = stack[n - 1] /\ ((n - 1) > 1 => s2[(n - 1) - 1] = stack[(n - 1) - 1])
    BY <1>1, <2>1 DEF Stays
  <2> HIDE DEF n
  <2>4. stack[n - 1].phase = "calling" => Calls(stack[n - 1], s2[n])
    BY <1>1, <2>1, <2>2 DEF NestedAt, Calls, SameCall, n
  <2>5. n - 1 < Len(s2) /\ n - 1 < Len(stack)
    BY <1>1 DEF n
  <2> QED  BY <2>1, <2>2, <2>3, <2>4, <2>5 DEF NestedAt
<1>3. s2[n].op \in Callees => n > 1 /\ s2[n - 1].phase = "calling"
  BY <1>1, <1>2 DEF NestedAt, SameCall
<1> QED  BY <1>2, <1>3

(* A step of the activation on top, which goes on.                         *)
LEMMA Goes ==
  ASSUME StackOK, stack # <<>>, NEW a \in Activations, SameCall(a, Top), Proper(a),
         a.phase # "calling", NEW X, Unowned(stack, Len(stack), X),
         NEW m2, NEW pl2, NEW kp2,
         MemOK(m2), Unchanged(mem, m2, Own(Top) \cup X), Holds(a, m2),
         Own(a) \subseteq DOMAIN m2, Own(a) \subseteq Own(Top) \cup X,
         Own(a) \cap Loose(pl2, kp2) = {}, LooseOK(m2, pl2, kp2),
         Loose(pl2, kp2) \subseteq Loose(pool, kept) \cup Own(Top) \cup X
  PROVE  Calling([stack EXCEPT ![Len(stack)] = a], m2, pl2, kp2)
<1> DEFINE n  == Len(stack)
           s2 == [stack EXCEPT ![n] = a]
           U  == Own(Top) \cup X
<1>1. /\ n \in Nat /\ n >= 1 /\ n \in 1..n /\ DOMAIN stack = 1..n /\ Top = stack[n]
      /\ Unowned(stack, n - 1, Own(Top)) /\ stack \in Seq(Activations)
      /\ Calling(stack, mem, pool, kept) /\ Len(stack) = n
  BY TopFacts DEF StackOK
<1>2. /\ s2 \in Seq(Activations) /\ Len(s2) = n /\ s2[n] = a
      /\ \A k \in 1..n : k # n => s2[k] = stack[k]
  BY <1>1, ReplaceTop
<1> HIDE DEF s2, n
<1>3. Stays(stack, s2, n - 1)
  BY <1>1, <1>2 DEF Stays
<1>4. Unowned(stack, n - 1, U)
  BY <1>1 DEF Unowned
<1>5. /\ n > 1 => NestedAt(s2, n - 1)
      /\ s2[n].op \in Callees => n > 1 /\ s2[n - 1].phase = "calling"
  BY <1>1, <1>2, <1>3, NestedBelow
<1>6. NestedAt(s2, n)
  BY <1>1, <1>2, <1>5 DEF NestedAt
<1>7. NewTop(a, m2, pl2, kp2, U)
  BY DEF NewTop
<1> HIDE DEF U
<1>8. n - 1 \in Nat /\ n - 1 <= Len(stack) /\ n - 1 <= Len(s2) /\ (n - 1) + 1 = n
  BY <1>1, <1>2
<1>9. \A k \in (n - 1)..Len(s2) : k >= 1 => NestedAt(s2, k)
  <2> SUFFICES ASSUME NEW k \in (n - 1)..Len(s2), k >= 1  PROVE NestedAt(s2, k)
    OBVIOUS
  <2>1. k = n \/ (k = n - 1 /\ n > 1)
    BY <1>1, <1>2
  <2> QED  BY <1>5, <1>6, <2>1
<1>10. \A k \in ((n - 1) + 1)..Len(s2) : k = n
  BY <1>1, <1>2
<1>11. \A k \in ((n - 1) + 1)..Len(s2) : NewTop(s2[k], m2, pl2, kp2, U)
  BY <1>2, <1>7, <1>10
<1>12. \A k, l \in ((n - 1) + 1)..Len(s2) : k # l => Own(s2[k]) \cap Own(s2[l]) = {}
  BY <1>10
<1>13. Unchanged(mem, m2, U) /\ Loose(pl2, kp2) \subseteq Loose(pool, kept) \cup U
  BY DEF U
<1> QED  BY <1>1, <1>2, <1>3, <1>4, <1>8, <1>9, <1>11, <1>12, <1>13, Progress, ZenonT(60) DEF s2, n

(* It writes nothing, or to what it owns.                                  *)
LEMMA GoesAlone ==
  ASSUME StackOK, stack # <<>>, NEW a \in Activations, SameCall(a, Top), Proper(a),
         a.phase # "calling", Own(a) = Own(Top), Holds(a, mem)
  PROVE  Calling([stack EXCEPT ![Len(stack)] = a], mem, pool, kept)
<1>1. /\ MemOK(mem) /\ LooseOK(mem, pool, kept) /\ Own(Top) \subseteq DOMAIN mem
      /\ Own(Top) \cap Loose(pool, kept) = {}
  BY TopFacts DEF StackOK
<1>2. Unowned(stack, Len(stack), {}) /\ Unchanged(mem, mem, Own(Top) \cup {})
  BY DEF Unowned, Unchanged
<1> QED  BY <1>1, <1>2, Goes

LEMMA GoesWriting ==
  ASSUME StackOK, stack # <<>>, NEW a \in Activations, SameCall(a, Top), Proper(a),
         a.phase # "calling", Own(a) = Own(Top), NEW o \in Own(Top), NEW w,
         Holds(a, Put(o, w))
  PROVE  Calling([stack EXCEPT ![Len(stack)] = a], Put(o, w), pool, kept)
<1> DEFINE m2 == Put(o, w)
<1>1. /\ MemOK(mem) /\ LooseOK(mem, pool, kept) /\ Own(Top) \subseteq DOMAIN mem
      /\ Own(Top) \cap Loose(pool, kept) = {}
  BY TopFacts DEF StackOK
<1>2. /\ MemOK(m2) /\ DOMAIN m2 = DOMAIN mem /\ \A p \in DOMAIN mem : p # o => m2[p] = mem[p]
  BY <1>1, PutMem DEF Put
<1> HIDE DEF m2
<1>3. LooseOK(m2, pool, kept)
  <2>1. \A p \in Loose(pool, kept) : p \in DOMAIN m2 /\ m2[p].bytes = mem[p].bytes
    BY <1>1, <1>2 DEF LooseOK
  <2>2. DOMAIN pool = BOOLEAN
    BY <1>1 DEF LooseOK
  <2> QED  BY <1>1, <2>1, <2>2, LooseSame
<1>4. Unowned(stack, Len(stack), {}) /\ Unchanged(mem, m2, Own(Top) \cup {})
  BY <1>2 DEF Unowned, Unchanged
<1>5. Holds(a, m2)
  BY DEF m2
<1> QED  BY <1>1, <1>2, <1>3, <1>4, <1>5, Goes DEF m2

-----------------------------------------------------------------------------
(* callReflect                                                             *)

LEMMA ResultsWritten ==
  ASSUME LayoutInv, SigOK, NEW r \in BOOLEAN, NEW b, Room(b, r), NEW id
  PROVE  LET w == Written(b, id, "out", sig.out, CodeOut(r).offs)
         IN  Room(w, r) /\ OutAt(w, id, r)
<1> DEFINE n    == CodeSize(r)
           offs == CodeOut(r).offs
           from == RetOffset(r)
           to   == CodeOut(r).end
           w    == Written(b, id, "out", sig.out, offs)
<1>1. InOrder(offs, Types(sig.out), from, to) /\ to <= n /\ n \in Nat
  BY FrameFacts
<1>2. DOMAIN b = 0..(n - 1) /\ sig.out \in Seq(DOMAIN types)
  BY DEF Room, SigOK
<1> HIDE DEF n, offs, from, to
<1>3. /\ DOMAIN w = 0..(n - 1)
      /\ \A i \in DOMAIN sig.out : Has(w, id, "out", i, sig.out[i], offs[i])
  BY <1>1, <1>2, WrittenFacts
<1> HIDE DEF w
<1> QED  BY <1>3 DEF Room, OutAt, n, offs, w

LEMMA PackKeeps ==
  ASSUME CallInv, UNCHANGED vars, Pack
  PROVE  CallInv'
<1> DEFINE n == Len(stack)
           o == Top.frame
           w == Written(Bytes(o), Top.id, "out", sig.out, CodeOut(FALSE).offs)
           a == [Top EXCEPT !.phase = "packed", !.out = TRUE]
<1>1. /\ stack # <<>> /\ Top.op = "reflect" /\ Top.phase = "running"
      /\ mem' = Put(o, w)
      /\ stack' = [stack EXCEPT ![n].phase = "packed", ![n].out = TRUE]
      /\ UNCHANGED <<sig, made, pool, kept>>
  BY DEF Pack, IsTop, CodeOut, CodeIn, ReflectIn
<1>2. StackOK /\ sig # NoSig
  BY <1>1, CallInvFacts
<1>3. /\ n \in Nat /\ n >= 1 /\ n \in DOMAIN stack /\ Top = stack[n]
      /\ Top \in Activations /\ Proper(Top) /\ Holds(Top, mem)
      /\ Own(Top) \subseteq DOMAIN mem /\ Own(Top) \cap Loose(pool, kept) = {}
  BY <1>1, <1>2, TopFacts
<1>4. stack' = [stack EXCEPT ![n] = a]
  BY <1>1, <1>3
<1>5. a \in Activations /\ SameCall(a, Top) /\ Own(a) = Own(Top)
  BY <1>3 DEF Activations, Phases, SameCall, Own
<1>6. Top.heap = 0 /\ o # 0 /\ Own(Top) = {o}
  BY <1>1, <1>3 DEF Proper, HasHeap, Own, Callees
<1>7. Proper(a)
  BY <1>1, <1>3 DEF Proper, PhasesOf, HasHeap, Activations
<1>8. Room(Bytes(o), FALSE)
  BY <1>1, <1>3, <1>6 DEF Holds, FrameHolds, FrameRcvr, Callees, Bytes
<1>9. Room(w, FALSE) /\ OutAt(w, Top.id, FALSE)
  BY <1>2, <1>8, ResultsWritten DEF StackOK
<1> HIDE DEF w
<1>10. mem'[o].bytes = w
  <2>1. MemOK(mem) /\ o \in DOMAIN mem
    BY <1>2, <1>3, <1>6 DEF StackOK
  <2> QED  BY <1>1, <2>1, PutMem DEF Put
<1>11. Holds(a, mem')
  BY <1>1, <1>3, <1>6, <1>9, <1>10 DEF Holds, FrameHolds, FrameRcvr, Callees, Activations
<1>12. a.phase # "calling" /\ o \in Own(Top)
  BY <1>3, <1>6 DEF Activations
<1> HIDE DEF a, o
<1>13. Calling([stack EXCEPT ![Len(stack)] = a], Put(o, w), pool, kept)
  <2>1. Holds(a, Put(o, w))
    BY <1>1, <1>11
  <2> QED  BY <1>1, <1>2, <1>5, <1>7, <1>12, <2>1, GoesWriting
<1>14. Calling(stack', mem', pool', kept')
  BY <1>1, <1>4, <1>13
<1> QED  BY <1>1, <1>2, <1>14, CallStepInv DEF StackOK

LEMMA ReflectValidKeeps ==
  ASSUME CallInv, UNCHANGED vars, ReflectValid
  PROVE  CallInv'
<1> DEFINE n == Len(stack)
           a == [Top EXCEPT !.phase = "done", !.retValid = TRUE, !.out = FALSE]
<1>1. /\ stack # <<>> /\ Top.op = "reflect" /\ Top.phase = "packed"
      /\ stack' = [stack EXCEPT ![n].phase = "done", ![n].retValid = TRUE, ![n].out = FALSE]
      /\ UNCHANGED <<sig, made, mem, pool, kept>>
  BY DEF ReflectValid, IsTop
<1>2. StackOK /\ sig # NoSig
  BY <1>1, CallInvFacts
<1>3. n \in DOMAIN stack /\ Top = stack[n] /\ Top \in Activations /\ Proper(Top) /\ Holds(Top, mem)
  BY <1>1, <1>2, TopFacts
<1>4. stack' = [stack EXCEPT ![n] = a]
  BY <1>1, <1>3
<1>5. a \in Activations /\ SameCall(a, Top) /\ Own(a) = Own(Top) /\ a.phase # "calling"
  BY <1>3 DEF Activations, Phases, SameCall, Own
<1>6. Proper(a)
  BY <1>1, <1>3 DEF Proper, PhasesOf, HasHeap, Activations
<1>7. Holds(a, mem)
  BY <1>1, <1>3 DEF Proper, HasHeap, Holds, FrameHolds, FrameRcvr, Callees, Activations
<1> HIDE DEF a
<1>8. Calling(stack', mem', pool', kept')
  BY <1>1, <1>2, <1>4, <1>5, <1>6, <1>7, GoesAlone
<1> QED  BY <1>1, <1>2, <1>8, CallStepInv DEF StackOK

-----------------------------------------------------------------------------
(* callMethod                                                              *)

LEMMA MethodValidKeeps ==
  ASSUME CallInv, UNCHANGED vars, MethodValid
  PROVE  CallInv'
<1> DEFINE n == Len(stack)
           a == [Top EXCEPT !.phase = "valid", !.retValid = TRUE]
<1>1. /\ stack # <<>> /\ Top.op = "method" /\ Top.phase = "copied"
      /\ stack' = [stack EXCEPT ![n].phase = "valid", ![n].retValid = TRUE]
      /\ UNCHANGED <<sig, made, mem, pool, kept>>
  BY DEF MethodValid, IsTop
<1>2. StackOK /\ sig # NoSig
  BY <1>1, CallInvFacts
<1>3. n \in DOMAIN stack /\ Top = stack[n] /\ Top \in Activations /\ Proper(Top) /\ Holds(Top, mem)
  BY <1>1, <1>2, TopFacts
<1>4. stack' = [stack EXCEPT ![n] = a]
  BY <1>1, <1>3
<1>5. a \in Activations /\ SameCall(a, Top) /\ Own(a) = Own(Top) /\ a.phase # "calling"
  BY <1>3 DEF Activations, Phases, SameCall, Own
<1>6. Proper(a)
  BY <1>1, <1>3 DEF Proper, PhasesOf, HasHeap, Activations
<1>7. Holds(a, mem)
  BY <1>1, <1>3 DEF Holds, HeapHolds, FrameHolds, FrameRcvr, HasRcvr, Callees, Activations
<1> HIDE DEF a
<1>8. Calling(stack', mem', pool', kept')
  BY <1>1, <1>2, <1>4, <1>5, <1>6, <1>7, GoesAlone
<1> QED  BY <1>1, <1>2, <1>8, CallStepInv DEF StackOK

LEMMA CopyResultsKeeps ==
  ASSUME CallInv, UNCHANGED vars, CopyResults
  PROVE  CallInv'
<1> DEFINE n == Len(stack)
           o == Top.frame
           src == Bytes(Top.heap)
           dst == Bytes(o)
           from == RetOffset(TRUE)
           to == RetOffset(FALSE)
           big == CodeSize(TRUE)
           small == CodeSize(FALSE)
           end == CodeOut(TRUE).end
           len == big - from
           w == Moved(dst, to, src, from, len)
           a == [Top EXCEPT !.phase = "copied"]
<1>1. /\ stack # <<>> /\ Top.op = "method" /\ Top.phase = "returned"
      /\ mem' = Put(o, Moved(dst, funcLayout(TRUE).retOffset - ArgOffset, src,
                             funcLayout(TRUE).retOffset,
                             funcLayout(TRUE).size - funcLayout(TRUE).retOffset))
      /\ stack' = [stack EXCEPT ![n].phase = "copied"]
      /\ UNCHANGED <<sig, made, pool, kept>>
  BY DEF CopyResults, IsTop, Now
<1>2. StackOK /\ sig # NoSig
  BY <1>1, CallInvFacts
<1>3. /\ n \in DOMAIN stack /\ Top = stack[n] /\ Top \in Activations /\ Proper(Top) /\ Holds(Top, mem)
      /\ Own(Top) \subseteq DOMAIN mem
  BY <1>1, <1>2, TopFacts
<1>4. stack' = [stack EXCEPT ![n] = a]
  BY <1>1, <1>3
<1>5. a \in Activations /\ SameCall(a, Top) /\ Own(a) = Own(Top) /\ a.phase # "calling"
  BY <1>3 DEF Activations, Phases, SameCall, Own
<1>6. Proper(a)
  BY <1>1, <1>3 DEF Proper, PhasesOf, HasHeap, Activations
<1>7. Top.heap # 0 /\ o # 0 /\ o # Top.heap /\ Own(Top) = {o, Top.heap}
  BY <1>1, <1>3 DEF Proper, HasHeap, Own, Callees
<1>8. Room(dst, FALSE) /\ Room(src, TRUE) /\ OutAt(src, Top.id, TRUE)
  BY <1>1, <1>3, <1>7 DEF Holds, HeapHolds, HasRcvr, FrameHolds, FrameRcvr, Callees, Bytes
<1>9. /\ from = to + PtrSize /\ big = small + PtrSize /\ ArgOffset = PtrSize /\ PtrSize \in Nat
      /\ \A i \in DOMAIN sig.out : CodeOut(TRUE).offs[i] = CodeOut(FALSE).offs[i] + PtrSize
  BY <1>2, FrameShift, LayoutAssumption DEF StackOK
<1>10. /\ from \in Nat /\ to \in Nat /\ big \in Nat /\ small \in Nat
       /\ InOrder(CodeOut(TRUE).offs, Types(sig.out), from, end) /\ end <= big /\ end \in Nat
       /\ InOrder(CodeOut(FALSE).offs, Types(sig.out), to, CodeOut(FALSE).end)
  BY <1>2, FrameFacts DEF StackOK, InOrder
<1>11. /\ funcLayout(TRUE).retOffset = from /\ funcLayout(TRUE).size = big
       /\ DOMAIN dst = 0..(small - 1)
  BY <1>8, FuncLayout DEF Room
<1> HIDE DEF from, to, big, small, end, src, dst
<1>12. from - ArgOffset = to /\ len \in Int /\ to + len = small
  BY <1>9, <1>10
<1>13. mem' = Put(o, w)
  BY <1>1, <1>11, <1>12
<1> HIDE DEF len
<1>14. DOMAIN w = 0..(small - 1)
  BY <1>11 DEF Moved
<1>15. ASSUME NEW i \in DOMAIN sig.out
       PROVE  Has(w, Top.id, "out", i, sig.out[i], CodeOut(FALSE).offs[i])
  <2> DEFINE t == sig.out[i]
             x == CodeOut(TRUE).offs[i]
             y == CodeOut(FALSE).offs[i]
  <2>1. /\ t \in DOMAIN types /\ SizeOf(t) \in Nat /\ i \in 1..Len(Types(sig.out))
        /\ Types(sig.out)[i].size = SizeOf(t)
    BY <1>2, TypesFacts DEF StackOK, SigOK
  <2>2. /\ x \in Nat /\ from <= x /\ x + SizeOf(t) <= end /\ y \in Nat
    BY <1>10, <2>1 DEF InOrder
  <2>3. x = y + PtrSize /\ Has(src, Top.id, "out", i, t, x)
    BY <1>8, <1>9 DEF OutAt
  <2> HIDE DEF t, x, y
  <2> DEFINE s == SizeOf(t)
  <2>4. s \in Nat /\ x + s <= from + len
    BY <1>10, <2>1, <2>2 DEF len
  <2>5. y - to = x - from /\ from <= x /\ to + len <= small
    BY <1>9, <1>10, <1>12, <2>2, <2>3
  <2> DEFINE id == Top.id
  <2> HIDE DEF id, s
  <2>6. t \in DOMAIN types /\ s = SizeOf(t) /\ x \in Nat /\ y \in Nat /\ Has(src, id, "out", i, t, x)
    BY <2>1, <2>2, <2>3 DEF id, s
  <2>7. Has(w, id, "out", i, t, y)
    BY <1>10, <1>11, <1>12, <2>4, <2>5, <2>6, MovedHas
  <2> QED  BY <2>7 DEF t, y, id
<1> HIDE DEF w
<1>16. mem'[o].bytes = w /\ mem'[Top.heap] = mem[Top.heap]
  <2>1. MemOK(mem) /\ o \in DOMAIN mem /\ Top.heap \in DOMAIN mem
    BY <1>2, <1>3, <1>7 DEF StackOK
  <2> QED  BY <1>7, <1>13, <2>1, PutMem DEF Put
<1>17. Room(w, FALSE) /\ OutAt(w, Top.id, FALSE)
  BY <1>14, <1>15 DEF Room, OutAt, small
<1>18. Holds(a, mem')
  BY <1>1, <1>3, <1>7, <1>16, <1>17
     DEF Holds, HeapHolds, FrameHolds, FrameRcvr, HasRcvr, Callees, Activations
<1> HIDE DEF a
<1>19. o \in Own(Top) /\ Holds(a, Put(o, w))
  BY <1>7, <1>13, <1>18
<1> HIDE DEF o
<1>20. Calling([stack EXCEPT ![Len(stack)] = a], Put(o, w), pool, kept)
  BY <1>1, <1>2, <1>5, <1>6, <1>19, GoesWriting
<1>21. Calling(stack', mem', pool', kept')
  BY <1>1, <1>4, <1>13, <1>20
<1> QED  BY <1>1, <1>2, <1>21, CallStepInv DEF StackOK

LEMMA WriteOwn ==
  ASSUME StackOK, stack # <<>>, NEW o \in Own(Top), NEW w
  PROVE  LET m2 == Put(o, w) IN
         /\ MemOK(m2) /\ DOMAIN m2 = DOMAIN mem /\ m2[o].bytes = w
         /\ \A p \in DOMAIN mem : p # o => m2[p] = mem[p]
         /\ LooseOK(m2, pool, kept) /\ \A X : Unchanged(mem, m2, Own(Top) \cup X)
<1> DEFINE m2 == Put(o, w)
<1>1. /\ MemOK(mem) /\ LooseOK(mem, pool, kept) /\ Own(Top) \subseteq DOMAIN mem
      /\ Own(Top) \cap Loose(pool, kept) = {}
  BY TopFacts DEF StackOK
<1>2. /\ MemOK(m2) /\ DOMAIN m2 = DOMAIN mem /\ m2[o].bytes = w
      /\ \A p \in DOMAIN mem : p # o => m2[p] = mem[p]
  BY <1>1, PutMem DEF Put
<1> HIDE DEF m2
<1>3. LooseOK(m2, pool, kept)
  <2>1. \A p \in Loose(pool, kept) : p \in DOMAIN m2 /\ m2[p].bytes = mem[p].bytes
    BY <1>1, <1>2 DEF LooseOK
  <2>2. DOMAIN pool = BOOLEAN
    BY <1>1 DEF LooseOK
  <2> QED  BY <1>1, <2>1, <2>2, LooseSame
<1>4. ASSUME NEW X  PROVE Unchanged(mem, m2, Own(Top) \cup X)
  BY <1>2 DEF Unchanged
<1> QED  BY <1>2, <1>3, <1>4 DEF m2

LEMMA ReleaseKeeps ==
  ASSUME CallInv, UNCHANGED vars, Release
  PROVE  CallInv'
<1> DEFINE n == Len(stack)
           o == Top.heap
           w == Blank(CodeSize(TRUE))
           a == [Top EXCEPT !.heap = 0, !.phase = "done"]
<1>1. /\ stack # <<>> /\ Top.op = "method" /\ Top.phase = "valid"
      /\ mem' = Put(o, w)
      /\ stack' = [stack EXCEPT ![n].heap = 0, ![n].phase = "done"]
      /\ pool' = [pool EXCEPT ![TRUE] = @ \cup {o}]
      /\ UNCHANGED <<sig, made, kept>>
  BY FuncLayout DEF Release, IsTop
<1>2. StackOK /\ sig # NoSig
  BY <1>1, CallInvFacts
<1>3. /\ n \in DOMAIN stack /\ Top = stack[n] /\ Top \in Activations /\ Proper(Top) /\ Holds(Top, mem)
      /\ Own(Top) \subseteq DOMAIN mem /\ Own(Top) \cap Loose(pool, kept) = {}
  BY <1>1, <1>2, TopFacts
<1>4. stack' = [stack EXCEPT ![n] = a]
  BY <1>1, <1>3
<1>5. a \in Activations /\ SameCall(a, Top) /\ a.phase # "calling"
  BY <1>3 DEF Activations, Phases, SameCall
<1>6. Proper(a)
  BY <1>1, <1>3 DEF Proper, PhasesOf, HasHeap, Activations, Callees
<1>7. /\ o # 0 /\ Top.frame # 0 /\ Top.frame # o
      /\ Own(Top) = {o, Top.frame} /\ Own(a) = {Top.frame}
  BY <1>1, <1>3 DEF Proper, HasHeap, Own, Callees, Activations
<1> HIDE DEF w
<1>8. /\ MemOK(mem') /\ DOMAIN mem' = DOMAIN mem /\ mem'[o].bytes = w
      /\ mem'[Top.frame] = mem[Top.frame]
      /\ LooseOK(mem', pool, kept) /\ Unchanged(mem, mem', Own(Top) \cup {})
  <2>1. o \in Own(Top) /\ Top.frame \in DOMAIN mem
    BY <1>3, <1>7
  <2> HIDE DEF o
  <2>2. LET m2 == Put(o, w) IN
        /\ MemOK(m2) /\ DOMAIN m2 = DOMAIN mem /\ m2[o].bytes = w
        /\ \A p \in DOMAIN mem : p # o => m2[p] = mem[p]
        /\ LooseOK(m2, pool, kept) /\ \A X : Unchanged(mem, m2, Own(Top) \cup X)
    BY <1>1, <1>2, <2>1, WriteOwn
  <2> QED  BY <1>1, <1>7, <2>1, <2>2
<1>9. Holds(a, mem')
  BY <1>1, <1>3, <1>7, <1>8 DEF Holds, FrameHolds, FrameRcvr, Callees, Activations
<1>10. /\ LooseOK(mem', pool', kept) /\ Loose(pool', kept) = Loose(pool, kept) \cup {o}
  <2>1. o \in DOMAIN mem' /\ o \notin Loose(pool, kept) /\ mem'[o].bytes = Blank(CodeSize(TRUE))
    BY <1>3, <1>7, <1>8 DEF w
  <2> DEFINE r == TRUE
  <2>2. /\ DOMAIN pool' = BOOLEAN /\ pool'[r] = pool[r] \cup {o}
        /\ \A q \in BOOLEAN : q # r => pool'[q] = pool[q]
        /\ LooseOK(mem', pool, kept) /\ r \in BOOLEAN /\ mem'[o].bytes = Blank(CodeSize(r))
    BY <1>1, <1>2, <1>8, <2>1 DEF StackOK, LooseOK
  <2> HIDE DEF o, r
  <2> QED  BY <2>1, <2>2, LooseRelease
<1>11. Unowned(stack, Len(stack), {})
  BY DEF Unowned
<1> HIDE DEF a
<1>12. Calling([stack EXCEPT ![Len(stack)] = a], mem', pool', kept)
  BY <1>1, <1>2, <1>3, <1>5, <1>6, <1>7, <1>8, <1>9, <1>10, <1>11, Goes
<1>13. Calling(stack', mem', pool', kept')
  BY <1>1, <1>4, <1>12
<1> QED  BY <1>1, <1>2, <1>13, CallStepInv DEF StackOK

LEMMA MethodArgsFacts ==
  ASSUME StackOK, sig.rcvr # {}, NEW a, Room(Bytes(a.frame), FALSE), InAt(Bytes(a.frame), a.id, FALSE),
         NEW f, f.bytes = Blank(CodeSize(TRUE)), "bytes" \in DOMAIN f
  PROVE  LET g == MethodArgs(f, a) IN
         "bytes" \in DOMAIN g /\ Room(g.bytes, TRUE) /\ InAt(g.bytes, a.id, TRUE)
<1> DEFINE id == a.id
           b == storeRcvr(f.bytes, id)
           src == Bytes(a.frame)
           big == CodeSize(TRUE)
           end == CodeIn(TRUE).end
           len == end - PtrSize
           w == Moved(b, PtrSize, src, 0, len)
<1>1. /\ PtrSize \in Nat /\ big \in Nat /\ end \in Nat /\ end <= big /\ PtrSize <= end
      /\ InOrder(CodeIn(TRUE).offs, Types(sig.in), PtrSize, end)
      /\ InOrder(CodeIn(FALSE).offs, Types(sig.in), 0, CodeIn(FALSE).end)
      /\ CodeIn(FALSE).end \in Nat
  <2>1. Base(TRUE) = PtrSize /\ Base(FALSE) = 0 /\ PtrSize \in Nat
    BY LayoutAssumption DEF Base
  <2> DEFINE ret == RetOffset(TRUE)
             last == CodeOut(TRUE).end
  <2>2. /\ InOrder(CodeIn(TRUE).offs, Types(sig.in), PtrSize, end)
        /\ InOrder(CodeIn(FALSE).offs, Types(sig.in), 0, CodeIn(FALSE).end)
        /\ InOrder(CodeOut(TRUE).offs, Types(sig.out), ret, last)
    BY <2>1, FrameFacts DEF StackOK
  <2>3. end \in Nat /\ PtrSize <= end /\ last \in Nat /\ ret <= last /\ CodeIn(FALSE).end \in Nat
    BY <2>2 DEF InOrder
  <2>4. end <= ret /\ last <= big /\ ret \in Nat /\ big \in Nat
    BY FrameFacts DEF StackOK
  <2> HIDE DEF end, big, ret, last
  <2>5. end <= big
    BY <2>3, <2>4
  <2> QED  BY <2>1, <2>2, <2>3, <2>4, <2>5
<1>2. /\ end = CodeIn(FALSE).end + PtrSize /\ ArgOffset = PtrSize
      /\ \A i \in DOMAIN sig.in : CodeIn(TRUE).offs[i] = CodeIn(FALSE).offs[i] + PtrSize
  BY FrameShift DEF StackOK
<1>3. funcLayout(TRUE).argSize = end
  BY FuncLayout
<1>4. DOMAIN f.bytes = 0..(big - 1)
  BY <1>1 DEF Blank
<1> HIDE DEF big, end, src
<1>5. /\ DOMAIN b = 0..(big - 1)
      /\ \A k \in 0..(big - 1), q \in sig.rcvr : k < PtrSize => b[k] = Byte(id, RcvrWord(q), 0, k)
  <2> DEFINE fb == f.bytes
  <2>1. DOMAIN fb = 0..(big - 1)
    BY <1>4
  <2> HIDE DEF fb
  <2>2. LET c == storeRcvr(fb, id) IN
        /\ DOMAIN c = 0..(big - 1)
        /\ \A k \in 0..(big - 1), q \in sig.rcvr : k < PtrSize => c[k] = Byte(id, RcvrWord(q), 0, k)
    BY <1>1, <2>1, StoreRcvr
  <2>3. b = storeRcvr(fb, id)
    BY DEF fb
  <2> HIDE DEF b
  <2> QED  BY <2>2, <2>3
<1> HIDE DEF b
<1>6. PtrSize + len <= big /\ len \in Int
  BY <1>1
<1>7. MethodArgs(f, a) = [f EXCEPT !.bytes = w]
  BY <1>2, <1>3 DEF MethodArgs, b, src
<1> HIDE DEF len
<1>8. DOMAIN w = 0..(big - 1)
  BY <1>5 DEF Moved
<1>9. ASSUME NEW k \in 0..(PtrSize - 1), NEW q \in sig.rcvr  PROVE w[k] = Byte(id, RcvrWord(q), 0, k)
  <2>1. k \in 0..(big - 1) /\ k < PtrSize
    BY <1>1
  <2>2. w[k] = b[k]
    BY <1>1, <1>5, <2>1 DEF Moved
  <2> QED  BY <1>5, <2>1, <2>2
<1>10. ASSUME NEW i \in DOMAIN sig.in
       PROVE  Has(w, id, "in", i, sig.in[i], CodeIn(TRUE).offs[i])
  <2> DEFINE t == sig.in[i]
             x == CodeIn(FALSE).offs[i]
             y == CodeIn(TRUE).offs[i]
             s == SizeOf(t)
  <2>1. /\ t \in DOMAIN types /\ s \in Nat /\ i \in 1..Len(Types(sig.in)) /\ Types(sig.in)[i].size = s
    BY TypesFacts DEF StackOK, SigOK
  <2>2. /\ x \in Nat /\ 0 <= x /\ x + s <= CodeIn(FALSE).end /\ y \in Nat
    BY <1>1, <2>1 DEF InOrder
  <2>3. y = x + PtrSize /\ Has(src, id, "in", i, t, x)
    BY <1>2 DEF InAt, src
  <2>4. t \in DOMAIN types /\ s = SizeOf(t)
    BY <2>1
  <2> HIDE DEF t, x, y, s, id
  <2> DEFINE end0 == CodeIn(FALSE).end
  <2>7. end0 \in Nat /\ x + s <= end0 /\ end = end0 + PtrSize
    BY <1>1, <1>2, <2>2
  <2> HIDE DEF end0
  <2>5. x + s <= 0 + len /\ y - PtrSize = x - 0
    BY <1>1, <2>1, <2>2, <2>3, <2>7 DEF len
  <2>6. Has(w, id, "in", i, t, y)
    BY <1>1, <1>5, <1>6, <2>1, <2>2, <2>3, <2>4, <2>5, MovedHas
  <2> QED  BY <2>6 DEF t, y
<1> HIDE DEF w
<1>11. Room(w, TRUE) /\ InAt(w, id, TRUE)
  BY <1>8, <1>9, <1>10 DEF Room, InAt, big
<1> QED  BY <1>7, <1>11

LEMMA AddReceiverKeeps ==
  ASSUME CallInv, UNCHANGED vars, AddReceiver
  PROVE  CallInv'
<1> DEFINE n == Len(stack)
<1>1. /\ stack # <<>> /\ Top.op = "method" /\ Top.phase = "entered"
      /\ UNCHANGED <<sig, made, kept>>
  BY DEF AddReceiver, IsTop
<1>2. PICK o \in 1..New :
        /\ GetFrom(TRUE, o)
        /\ mem' = WithFrame(o, MethodArgs(Frame(TRUE, o), Top))
        /\ stack' = [stack EXCEPT ![n].heap = o, ![n].phase = "marshalled"]
  BY DEF AddReceiver
<1> DEFINE a == [Top EXCEPT !.heap = o, !.phase = "marshalled"]
           g == MethodArgs(Frame(TRUE, o), Top)
<1>3. StackOK /\ sig # NoSig
  BY <1>1, CallInvFacts
<1>4. /\ n \in DOMAIN stack /\ Top = stack[n] /\ Top \in Activations /\ Proper(Top) /\ Holds(Top, mem)
      /\ Own(Top) \subseteq DOMAIN mem /\ Own(Top) \cap Loose(pool, kept) = {}
      /\ Unowned(stack, n - 1, Own(Top))
  BY <1>1, <1>3, TopFacts
<1>5. /\ Frame(TRUE, o).bytes = Blank(CodeSize(TRUE)) /\ "bytes" \in DOMAIN Frame(TRUE, o)
      /\ o # 0 /\ Unowned(stack, n, {o})
      /\ o \notin Loose(pool', kept) /\ Loose(pool', kept) \subseteq Loose(pool, kept)
      /\ \A h : "bytes" \in DOMAIN h =>
           LET m2 == WithFrame(o, h)
           IN  /\ MemOK(m2) /\ Unchanged(mem, m2, {o}) /\ LooseOK(m2, pool', kept)
               /\ o \in DOMAIN m2 /\ m2[o] = h /\ DOMAIN mem \subseteq DOMAIN m2
  BY <1>2, <1>3, FrameTaken DEF StackOK
<1>6. /\ Top.target = "methodvalue" /\ sig.rcvr # {}
  <2>1. Top.target = "methodvalue"
    BY <1>1, <1>3, <1>4, Callers DEF StackOK
  <2> QED  BY <1>4, <2>1 DEF Proper, OfMethod
<1>7. /\ Top.heap = 0 /\ Top.frame # 0 /\ Own(Top) = {Top.frame}
  BY <1>1, <1>4 DEF Proper, HasHeap, Own, Callees
<1>8. Top.frame # o
  <2>1. n \in 1..n /\ Own(stack[n]) \cap {o} = {}
    BY <1>4, <1>5, <1>3, StackFacts DEF Unowned, StackOK
  <2> QED  BY <1>4, <1>7, <2>1
<1>9. Room(Bytes(Top.frame), FALSE) /\ InAt(Bytes(Top.frame), Top.id, FALSE)
  BY <1>1, <1>4 DEF Holds, FrameHolds, FrameRcvr, Callees, Bytes
<1>10. "bytes" \in DOMAIN g /\ Room(g.bytes, TRUE) /\ InAt(g.bytes, Top.id, TRUE)
  BY <1>3, <1>5, <1>6, <1>9, MethodArgsFacts
<1>11. /\ MemOK(mem') /\ Unchanged(mem, mem', {o}) /\ LooseOK(mem', pool', kept)
       /\ o \in DOMAIN mem' /\ mem'[o] = g /\ DOMAIN mem \subseteq DOMAIN mem'
  BY <1>2, <1>5, <1>10
<1> HIDE DEF g
<1>12. stack' = [stack EXCEPT ![n] = a]
  BY <1>2, <1>4
<1>13. o \in Nat
  BY <1>3, MemFacts DEF StackOK, New
<1>14. a \in Activations /\ SameCall(a, Top) /\ a.phase # "calling" /\ Own(a) = {o, Top.frame}
  BY <1>1, <1>4, <1>5, <1>7, <1>13 DEF Activations, Phases, SameCall, Own, Callees
<1>15. Proper(a)
  BY <1>1, <1>4, <1>5, <1>8 DEF Proper, PhasesOf, HasHeap, Activations, Callees
<1>16. Bytes(Top.frame) = mem'[Top.frame].bytes
  BY <1>4, <1>7, <1>8, <1>11 DEF Unchanged, Bytes
<1>17. Holds(a, mem')
  BY <1>1, <1>4, <1>9, <1>10, <1>11, <1>16
     DEF Holds, HeapHolds, HasRcvr, FrameHolds, FrameRcvr, Callees, Activations
<1>18. /\ Own(a) \subseteq DOMAIN mem' /\ Own(a) \subseteq Own(Top) \cup {o}
       /\ Own(a) \cap Loose(pool', kept) = {}
  BY <1>4, <1>5, <1>7, <1>11, <1>14
<1>19. /\ Unchanged(mem, mem', Own(Top) \cup {o})
       /\ Loose(pool', kept) \subseteq Loose(pool, kept) \cup Own(Top) \cup {o}
  BY <1>5, <1>11 DEF Unchanged
<1> HIDE DEF a
<1>20. Calling([stack EXCEPT ![Len(stack)] = a], mem', pool', kept)
  BY <1>1, <1>3, <1>5, <1>11, <1>14, <1>15, <1>17, <1>18, <1>19, Goes
<1>21. Calling(stack', mem', pool', kept')
  BY <1>1, <1>12, <1>20
<1> QED  BY <1>1, <1>3, <1>21, CallStepInv DEF StackOK

-----------------------------------------------------------------------------
(* Values in variables of their own                                        *)

LEMMA SameLength ==
  ASSUME NEW m, NEW m2, MemOK(m), MemOK(m2), DOMAIN m = DOMAIN m2
  PROVE  Len(m) = Len(m2)
<1>1. DOMAIN m = 1..Len(m) /\ Len(m) \in Nat
  BY MemFacts
<1>2. DOMAIN m2 = 1..Len(m2) /\ Len(m2) \in Nat
  BY MemFacts
<1>3. \A x, y \in Nat : 1..x = 1..y => x = y
  <2> SUFFICES ASSUME NEW x \in Nat, NEW y \in Nat, 1..x = 1..y, x # y  PROVE FALSE
    OBVIOUS
  <2>1. CASE x > y
    <3>1. x \in 1..x /\ x \notin 1..y
      BY <2>1
    <3> QED  BY <3>1
  <2>2. CASE x < y
    <3>1. y \in 1..y /\ y \notin 1..x
      BY <2>2
    <3> QED  BY <3>1
  <2> QED  BY <2>1, <2>2
<1> DEFINE x == Len(m)
           y == Len(m2)
<1>4. x \in Nat /\ y \in Nat /\ 1..x = 1..y
  BY <1>1, <1>2, Zenon
<1> HIDE DEF x, y
<1>5. x = y
  BY <1>3, <1>4
<1> QED  BY <1>1, <1>2, <1>5 DEF x, y

LEMMA VariablesGiven ==
  ASSUME StackOK, NEW m, MemOK(m), DOMAIN m = DOMAIN mem, LooseOK(m, pool, kept),
         NEW b, NEW id, NEW what, NEW ts \in Seq(DOMAIN types), NEW offs,
         \A i \in DOMAIN ts : offs[i] \in Nat /\ Has(b, id, what, i, ts[i], offs[i])
  PROVE  LET m2  == m \o Variables(b, ts, offs)
             kp2 == kept \cup VariableRefs(id, what, ts)
         IN  /\ MemOK(m2) /\ LooseOK(m2, pool, kp2) /\ DOMAIN mem \subseteq DOMAIN m2
             /\ \A p \in DOMAIN m : m2[p] = m[p]
             /\ Loose(pool, kp2) \subseteq Loose(pool, kept) \cup (Nat \ DOMAIN mem)
<1> DEFINE m2 == m \o Variables(b, ts, offs)
           K  == VariableRefs(id, what, ts)
<1>1. /\ DOMAIN m = 1..Len(m) /\ Len(m) \in Nat /\ DOMAIN mem = 1..Len(mem) /\ Len(mem) \in Nat
      /\ Len(mem) = Len(m)
  <2>1. MemOK(mem)
    BY DEF StackOK
  <2>2. Len(mem) = Len(m)
    BY <2>1, SameLength
  <2> QED  BY <2>1, <2>2, MemFacts
<1>2. DOMAIN ts = 1..Len(ts) /\ Len(ts) \in Nat /\ \A i \in DOMAIN ts : SizeOf(ts[i]) \in Nat /\ ts[i] \in DOMAIN types
  BY TypesFacts DEF StackOK
<1>3. /\ MemOK(m2) /\ DOMAIN m2 = 1..(Len(m) + Len(ts))
      /\ \A p \in DOMAIN m : m2[p] = m[p]
      /\ \A i \in DOMAIN ts : m2[Len(m) + i].bytes
                             = Moved(Blank(SizeOf(ts[i])), 0, b, offs[i], SizeOf(ts[i]))
  BY VariablesMem DEF StackOK
<1> HIDE DEF m2
<1>4. LooseOK(m2, pool, kept)
  <2>1. \A p \in Loose(pool, kept) : p \in DOMAIN m2 /\ m2[p].bytes = m[p].bytes
    BY <1>1, <1>2, <1>3 DEF LooseOK
  <2>2. DOMAIN pool = BOOLEAN
    BY DEF LooseOK
  <2> QED  BY <2>1, <2>2, LooseSame
<1>5. ASSUME NEW v \in K
      PROVE  /\ v.obj \in DOMAIN m2 /\ v.obj \in Nat \ DOMAIN mem
             /\ Has(m2[v.obj].bytes, v.id, v.what, v.i, v.typ, v.off)
  <2>1. PICK i \in DOMAIN ts : v = Ref(Len(mem) + i, 0, id, what, i, ts[i])
    BY DEF VariableRefs
  <2> DEFINE t == ts[i]
             s == SizeOf(t)
             o == Len(m) + i
             x == offs[i]
  <2>2. /\ v.obj = o /\ v.off = 0 /\ v.id = id /\ v.what = what /\ v.i = i /\ v.typ = t
    BY <1>1, <2>1 DEF Ref
  <2>3. o \in DOMAIN m2 /\ o \in Nat \ DOMAIN mem
    BY <1>1, <1>2, <1>3
  <2>4. /\ t \in DOMAIN types /\ s \in Nat /\ x \in Nat /\ Has(b, id, what, i, t, x)
        /\ m2[o].bytes = Moved(Blank(s), 0, b, x, s) /\ SizeOf(t) = s
    BY <1>2, <1>3
  <2>5. DOMAIN Blank(s) = 0..(s - 1)
    BY DEF Blank
  <2> DEFINE d == Blank(s)
  <2>6. DOMAIN d = 0..(s - 1) /\ m2[o].bytes = Moved(d, 0, b, x, s)
    BY <2>4, <2>5
  <2> HIDE DEF t, s, o, x, d
  <2>7. 0 + s <= s /\ x <= x /\ x + s <= x + s /\ 0 - 0 = x - x /\ s \in Int
    BY <2>4
  <2>8. Has(Moved(d, 0, b, x, s), id, what, i, t, 0)
    BY <2>4, <2>6, <2>7, MovedHas
  <2> QED  BY <2>2, <2>3, <2>6, <2>8
<1>6. \A v \in K : v.obj \notin pool[TRUE] /\ v.obj \notin pool[FALSE]
  <2>1. pool[TRUE] \subseteq DOMAIN mem /\ pool[FALSE] \subseteq DOMAIN mem
    BY DEF LooseOK, Loose
  <2> QED  BY <1>5, <2>1
<1> HIDE DEF K
<1> DEFINE S == Nat \ DOMAIN mem
<1> HIDE DEF S
<1>8. LooseOK(m2, pool, kept \cup K) /\ Loose(pool, kept \cup K) \subseteq Loose(pool, kept) \cup S
  <2>1. \A v \in K : /\ v.obj \in DOMAIN m2 /\ v.obj \notin pool[TRUE] /\ v.obj \notin pool[FALSE]
                     /\ Has(m2[v.obj].bytes, v.id, v.what, v.i, v.typ, v.off)
    BY <1>5, <1>6
  <2>2. \A v \in K : v.obj \in S
    BY <1>5 DEF S
  <2> QED  BY <1>4, <2>1, <2>2, LooseGive
<1>9. DOMAIN mem \subseteq DOMAIN m2
  BY <1>1, <1>2, <1>3
<1> QED  BY <1>3, <1>8, <1>9 DEF m2, K, S

LEMMA UnpackKeeps ==
  ASSUME CallInv, UNCHANGED vars, Unpack
  PROVE  CallInv'
<1> DEFINE n == Len(stack)
           b == Bytes(Top.frame)
           offs == CodeIn(FALSE).offs
           id == Top.id
           m2 == mem \o Variables(b, sig.in, offs)
           kp2 == kept \cup VariableRefs(id, "in", sig.in)
           X == Nat \ DOMAIN mem
           a == [Top EXCEPT !.phase = "running"]
<1>1. /\ stack # <<>> /\ Top.op = "reflect" /\ Top.phase = "entered"
      /\ mem' = m2 /\ kept' = kp2
      /\ stack' = [stack EXCEPT ![n].phase = "running"]
      /\ UNCHANGED <<sig, made, pool>>
  BY DEF Unpack, IsTop, Now, CodeIn, ReflectIn
<1>2. StackOK /\ sig # NoSig
  BY <1>1, CallInvFacts
<1>3. /\ n \in DOMAIN stack /\ Top = stack[n] /\ Top \in Activations /\ Proper(Top) /\ Holds(Top, mem)
      /\ Own(Top) \subseteq DOMAIN mem /\ Own(Top) \cap Loose(pool, kept) = {}
  BY <1>1, <1>2, TopFacts
<1>4. stack' = [stack EXCEPT ![n] = a]
  BY <1>1, <1>3
<1>5. a \in Activations /\ SameCall(a, Top) /\ a.phase # "calling" /\ Own(a) = Own(Top)
  BY <1>3 DEF Activations, Phases, SameCall, Own
<1>6. Proper(a)
  BY <1>1, <1>3 DEF Proper, PhasesOf, HasHeap, Activations, Callees
<1>7. Top.heap = 0 /\ Top.frame # 0 /\ Own(Top) = {Top.frame}
  BY <1>1, <1>3 DEF Proper, HasHeap, Own, Callees
<1>8. Room(b, FALSE) /\ InAt(b, id, FALSE)
  BY <1>1, <1>3 DEF Holds, FrameHolds, FrameRcvr, Callees, Bytes
<1>9. \A i \in DOMAIN sig.in : offs[i] \in Nat /\ Has(b, id, "in", i, sig.in[i], offs[i])
  <2>1. /\ DOMAIN sig.in = 1..Len(Types(sig.in))
    BY <1>2, TypesFacts DEF StackOK, SigOK
  <2>2. InOrder(CodeIn(FALSE).offs, Types(sig.in), Base(FALSE), CodeIn(FALSE).end)
    BY <1>2, FrameFacts DEF StackOK
  <2> QED  BY <1>8, <2>1, <2>2 DEF InAt, InOrder
<1> HIDE DEF b, offs, id
<1>10. /\ MemOK(m2) /\ LooseOK(m2, pool, kp2) /\ DOMAIN mem \subseteq DOMAIN m2
       /\ \A p \in DOMAIN mem : m2[p] = mem[p]
       /\ Loose(pool, kp2) \subseteq Loose(pool, kept) \cup (Nat \ DOMAIN mem)
  <2>1. MemOK(mem) /\ LooseOK(mem, pool, kept) /\ sig.in \in Seq(DOMAIN types)
    BY <1>2 DEF StackOK, SigOK
  <2> QED  BY <1>2, <1>9, <2>1, VariablesGiven
<1> HIDE DEF m2, kp2
<1>11. Unowned(stack, Len(stack), X) /\ Unchanged(mem, m2, Own(Top) \cup X)
  BY <1>2, <1>10, NewObjects DEF Unchanged
<1>12. Holds(a, m2)
  BY <1>1, <1>3, <1>7, <1>8, <1>10 DEF Holds, FrameHolds, FrameRcvr, Callees, Activations, b, Bytes
<1>13. /\ Own(a) \subseteq DOMAIN m2 /\ Own(a) \subseteq Own(Top) \cup X
       /\ Own(a) \cap Loose(pool, kp2) = {}
  BY <1>3, <1>5, <1>10
<1>14. Loose(pool, kp2) \subseteq Loose(pool, kept) \cup Own(Top) \cup X
  BY <1>10
<1> HIDE DEF a, X
<1>15. Calling([stack EXCEPT ![Len(stack)] = a], m2, pool, kp2)
  BY <1>1, <1>2, <1>5, <1>6, <1>10, <1>11, <1>12, <1>13, <1>14, Goes
<1>16. Calling(stack', mem', pool', kept')
  BY <1>1, <1>4, <1>15
<1> QED  BY <1>1, <1>2, <1>16, CallStepInv DEF StackOK

-----------------------------------------------------------------------------
(* A frame on the stack, and what runs on it                               *)

LEMMA AppendNew ==
  ASSUME StackOK, NEW d, "bytes" \in DOMAIN d
  PROVE  LET m2 == Append(mem, d) IN
         /\ MemOK(m2) /\ New \in DOMAIN m2 /\ m2[New] = d /\ DOMAIN mem \subseteq DOMAIN m2
         /\ \A p \in DOMAIN mem : m2[p] = mem[p]
         /\ LooseOK(m2, pool, kept) /\ New \notin Loose(pool, kept) /\ New \notin DOMAIN mem
         /\ \A U : Unchanged(mem, m2, U)
<1> DEFINE m2 == Append(mem, d)
<1>1. /\ MemOK(mem) /\ LooseOK(mem, pool, kept) /\ Loose(pool, kept) \subseteq DOMAIN mem
      /\ New \notin DOMAIN mem /\ New = Len(mem) + 1 /\ Len(mem) \in Nat /\ DOMAIN mem = 1..Len(mem)
  BY NewObjects DEF StackOK, New
<1>2. /\ MemOK(m2) /\ DOMAIN m2 = 1..(Len(mem) + 1) /\ m2[Len(mem) + 1] = d
      /\ \A p \in DOMAIN mem : m2[p] = mem[p]
  BY <1>1, AppendMem
<1> HIDE DEF m2
<1>3. New \in DOMAIN m2 /\ m2[New] = d /\ DOMAIN mem \subseteq DOMAIN m2
  BY <1>1, <1>2
<1>4. LooseOK(m2, pool, kept)
  <2>1. \A p \in Loose(pool, kept) : p \in DOMAIN m2 /\ m2[p].bytes = mem[p].bytes
    BY <1>1, <1>2, <1>3
  <2>2. DOMAIN pool = BOOLEAN
    BY <1>1 DEF LooseOK
  <2> QED  BY <1>1, <2>1, <2>2, LooseSame
<1>5. \A U : Unchanged(mem, m2, U)
  BY <1>2, <1>3 DEF Unchanged
<1> QED  BY <1>1, <1>2, <1>3, <1>4, <1>5 DEF m2

LEMMA CalleeFacts ==
  ASSUME NEW a \in Activations, a.op \in {"caller", "client", "method"}, NEW o \in Nat, o # 0,
         OfMethod(a.target) = (sig.rcvr # {})
  PROVE  LET c == Callee(a, o) IN
         /\ c \in Activations /\ c.op = CalleeOp(a) /\ c.op \in Callees
         /\ c.id = a.id /\ c.target = a.target /\ c.frame = o /\ c.heap = 0
         /\ c.phase \in {"running", "entered"} /\ Own(c) = {o} /\ Proper(c)
<1> DEFINE c == Callee(a, o)
<1>1. a.target \in {"function", "makefunc", "method", "methodvalue"} /\ a.id \in Nat
  BY DEF Activations, Targets
<1>2. /\ c \in Activations /\ c.op = CalleeOp(a) /\ c.op \in Callees
      /\ c.id = a.id /\ c.target = a.target /\ c.frame = o /\ c.heap = 0
      /\ \/ c.op = "code" /\ c.phase = "running"
         \/ c.op = "reflect" /\ c.phase = "entered"
         \/ c.op = "method" /\ c.phase = "entered"
  <2>1. CASE a.op = "method"
    BY <1>1, <2>1 DEF Callee, CalleeOp, Callees, Activation, Activations, Targets, Phases
  <2>2. CASE a.op # "method"
    <3>1. CASE a.target = "makefunc"
      BY <1>1, <2>2, <3>1 DEF Callee, CalleeOp, Callees, Activation, Activations, Targets, Phases
    <3>2. CASE a.target = "methodvalue"
      BY <1>1, <2>2, <3>2 DEF Callee, CalleeOp, Callees, Activation, Activations, Targets, Phases
    <3>3. CASE a.target \in {"function", "method"}
      BY <1>1, <2>2, <3>3 DEF Callee, CalleeOp, Callees, Activation, Activations, Targets, Phases
    <3> QED  BY <1>1, <3>1, <3>2, <3>3
  <2> QED  BY <2>1, <2>2
<1> HIDE DEF c
<1>3. Own(c) = {o}
  BY <1>2 DEF Own
<1>4. Proper(c)
  BY <1>2 DEF Proper, PhasesOf, HasHeap
<1> QED  BY <1>2, <1>3, <1>4 DEF c

LEMMA Descends ==
  ASSUME StackOK, NEW j \in Nat, j <= Len(stack), NEW a \in Activations, NEW c \in Activations,
         NEW s2 \in Seq(Activations), Len(s2) = j + 2, s2[j + 1] = a, s2[j + 2] = c,
         Stays(stack, s2, j), a.phase = "calling", c.op \in Callees,
         c.phase \in {"running", "entered"}, Calls(a, c),
         a.op \in Callees => j >= 1 /\ s2[j].phase = "calling",
         j >= 1 => NestedAt(s2, j),
         NEW m2, NEW U, Unowned(stack, j, U), MemOK(m2), Unchanged(mem, m2, U),
         LooseOK(m2, pool, kept), NewTop(a, m2, pool, kept, U), NewTop(c, m2, pool, kept, U),
         Own(a) \cap Own(c) = {}
  PROVE  Calling(s2, m2, pool, kept)
<1>1. NestedAt(s2, j + 1)
  <2>1. (j + 1) - 1 = j /\ (j + 1) + 1 = j + 2 /\ j + 1 < Len(s2) /\ (j >= 1 => j + 1 > 1)
    OBVIOUS
  <2> QED  BY <2>1 DEF NestedAt
<1>2. NestedAt(s2, j + 2)
  <2>1. (j + 2) - 1 = j + 1 /\ ~(j + 2 < Len(s2)) /\ j + 2 > 1
    OBVIOUS
  <2> QED  BY <2>1 DEF NestedAt
<1>3. \A k \in j..Len(s2) : k = j \/ k = j + 1 \/ k = j + 2
  OBVIOUS
<1>4. \A k \in (j + 1)..Len(s2) : k = j + 1 \/ k = j + 2
  OBVIOUS
<1>5. \A k \in j..Len(s2) : k >= 1 => NestedAt(s2, k)
  BY <1>1, <1>2, <1>3
<1>6. \A k \in (j + 1)..Len(s2) : NewTop(s2[k], m2, pool, kept, U)
  BY <1>4
<1>7. \A k, l \in (j + 1)..Len(s2) : k # l => Own(s2[k]) \cap Own(s2[l]) = {}
  BY <1>4
<1>8. j <= Len(s2) /\ Calling(stack, mem, pool, kept) /\ Loose(pool, kept) \subseteq Loose(pool, kept) \cup U
  BY DEF StackOK
<1> QED  BY <1>5, <1>6, <1>7, <1>8, Progress

LEMMA EnterKeeps ==
  ASSUME CallInv, UNCHANGED vars, Enter
  PROVE  CallInv'
<1> DEFINE n == Len(stack)
           j == n - 1
           d == Object(Bytes(Top.heap), {})
           m2 == Append(mem, d)
           a == [Top EXCEPT !.phase = "calling"]
           c == Callee(Top, New)
           s1 == [stack EXCEPT ![n].phase = "calling"]
           s2 == Append(s1, c)
           U == Own(Top) \cup {New}
<1>1. /\ stack # <<>> /\ Top.op \in {"caller", "method"} /\ Top.phase = "marshalled"
      /\ mem' = m2 /\ stack' = s2
      /\ UNCHANGED <<sig, made, pool, kept>>
  BY DEF Enter, IsTop, Resumed
<1>2. StackOK /\ sig # NoSig
  BY <1>1, CallInvFacts
<1>3. /\ n \in Nat /\ n >= 1 /\ n \in DOMAIN stack /\ n \in 1..Len(stack) /\ Top = stack[n]
      /\ Top \in Activations /\ Proper(Top) /\ Holds(Top, mem)
      /\ Own(Top) \subseteq DOMAIN mem /\ Own(Top) \cap Loose(pool, kept) = {}
      /\ Unowned(stack, n - 1, Own(Top)) /\ stack \in Seq(Activations)
  BY <1>1, <1>2, TopFacts DEF StackOK
<1>4. a \in Activations /\ SameCall(a, Top) /\ Own(a) = Own(Top) /\ a.phase = "calling"
  BY <1>3 DEF Activations, Phases, SameCall, Own
<1>5. Proper(a)
  BY <1>1, <1>3 DEF Proper, PhasesOf, HasHeap, Activations, Callees
<1>6. New \in Nat /\ New # 0 /\ New \notin DOMAIN mem /\ Unowned(stack, n, {New})
  BY <1>2, NewObjects DEF Unowned
<1>7. /\ c \in Activations /\ c.op = CalleeOp(Top) /\ c.op \in Callees
      /\ c.id = Top.id /\ c.target = Top.target /\ c.frame = New /\ c.heap = 0
      /\ c.phase \in {"running", "entered"} /\ Own(c) = {New} /\ Proper(c)
  BY <1>1, <1>3, <1>6, CalleeFacts DEF Proper
<1> HIDE DEF c
<1>8. Calls(a, c)
  BY <1>1, <1>4, <1>7 DEF Calls, CalleeOp, SameCall
<1>9. /\ s1 \in Seq(Activations) /\ Len(s1) = n /\ s1[n] = a
      /\ \A k \in 1..n : k # n => s1[k] = stack[k]
  <2>1. s1 = [stack EXCEPT ![n] = a]
    BY <1>3
  <2> QED  BY <1>3, <1>4, <2>1, ReplaceTop
<1> HIDE DEF s1
<1>10. /\ s2 \in Seq(Activations) /\ Len(s2) = n + 1 /\ s2[n + 1] = c
       /\ \A k \in 1..n : s2[k] = s1[k]
  BY <1>7, <1>9, AppendSeq
<1> HIDE DEF s2
<1>11. /\ j \in Nat /\ j <= Len(stack) /\ Len(s2) = j + 2 /\ s2[j + 1] = a /\ s2[j + 2] = c
       /\ Stays(stack, s2, j)
  <2>1. j \in Nat /\ j <= Len(stack) /\ Len(s2) = j + 2 /\ j + 1 = n /\ j + 2 = n + 1
    BY <1>3, <1>10
  <2>2. s2[j + 1] = a /\ s2[j + 2] = c
    BY <1>3, <1>9, <1>10, <2>1
  <2> HIDE DEF n, j
  <2>3. \A k \in 1..j : k \in 1..n /\ k # n
    BY <2>1
  <2>4. Stays(stack, s2, j)
    BY <1>9, <1>10, <2>3 DEF Stays
  <2> QED  BY <2>1, <2>2, <2>4
<1>12. /\ j >= 1 => NestedAt(s2, j)
       /\ a.op \in Callees => j >= 1 /\ s2[j].phase = "calling"
  <2>1. Len(s2) \in Nat /\ Len(s2) >= Len(stack) /\ Stays(stack, s2, Len(stack) - 1)
    BY <1>3, <1>10, <1>11
  <2>2. SameCall(s2[Len(stack)], Top) /\ s2[Len(stack)] = a
    BY <1>3, <1>4, <1>9, <1>10
  <2>3. /\ Len(stack) > 1 => NestedAt(s2, Len(stack) - 1)
        /\ s2[Len(stack)].op \in Callees => Len(stack) > 1 /\ s2[Len(stack) - 1].phase = "calling"
    BY <1>1, <1>2, <2>1, <2>2, NestedBelow
  <2> QED  BY <1>3, <2>2, <2>3
<1>13. "bytes" \in DOMAIN d /\ d.bytes = Bytes(Top.heap)
  BY DEF Object
<1> HIDE DEF d
<1>14. /\ MemOK(m2) /\ New \in DOMAIN m2 /\ m2[New] = d /\ DOMAIN mem \subseteq DOMAIN m2
       /\ \A p \in DOMAIN mem : m2[p] = mem[p]
       /\ LooseOK(m2, pool, kept) /\ New \notin Loose(pool, kept)
       /\ \A V : Unchanged(mem, m2, V)
  BY <1>2, <1>13, AppendNew
<1> HIDE DEF m2
<1>15. Top.heap # 0 /\ Top.heap \in Own(Top)
  BY <1>1, <1>3 DEF Proper, HasHeap, Own
<1>16. Room(Bytes(Top.heap), HasRcvr(Top)) /\ InAt(Bytes(Top.heap), Top.id, HasRcvr(Top))
  BY <1>1, <1>3, <1>15 DEF Holds, HeapHolds, Bytes
<1>17. FrameRcvr(c) = HasRcvr(Top)
  <2>1. Top.op = "method" => Top.target = "methodvalue"
    BY <1>2, <1>3, Callers DEF StackOK
  <2>2. Top.target \in {"function", "makefunc", "method", "methodvalue"}
    BY <1>3 DEF Activations, Targets
  <2> QED  BY <1>1, <1>7, <2>1, <2>2 DEF FrameRcvr, HasRcvr, CalleeOp, OfMethod
<1>18. Holds(c, m2)
  <2>1. FrameHolds(c, m2[c.frame].bytes)
    BY <1>7, <1>13, <1>14, <1>16, <1>17 DEF FrameHolds
  <2> QED  BY <1>7, <2>1 DEF Holds
<1>19. Holds(a, m2)
  <2>1. /\ m2[a.heap] = mem[a.heap]
        /\ a.op \in Callees => m2[a.frame] = mem[a.frame]
    <3>1. a.heap \in DOMAIN mem /\ (a.op \in Callees => a.frame \in DOMAIN mem)
      BY <1>3, <1>4, <1>5, <1>15 DEF Own, Proper, SameCall
    <3> QED  BY <1>14, <3>1
  <2> QED  BY <1>1, <1>3, <2>1 DEF Holds, HeapHolds, FrameHolds, HasRcvr, FrameRcvr, Callees, Activations
<1>20. Unowned(stack, j, U)
  BY <1>3, <1>6 DEF Unowned
<1>21. /\ NewTop(a, m2, pool, kept, U) /\ NewTop(c, m2, pool, kept, U)
       /\ Own(a) \cap Own(c) = {}
  BY <1>3, <1>4, <1>5, <1>6, <1>7, <1>14, <1>18, <1>19 DEF NewTop
<1>22. Unchanged(mem, m2, U)
  BY <1>14
<1> HIDE DEF a, j, U
<1>23. Calling(s2, m2, pool, kept)
  BY <1>2, <1>4, <1>7, <1>8, <1>10, <1>11, <1>12, <1>14, <1>20, <1>21, <1>22, Descends
<1>24. Calling(stack', mem', pool', kept')
  BY <1>1, <1>23
<1> QED  BY <1>1, <1>2, <1>24, CallStepInv DEF StackOK


LEMMA ArgumentsWritten ==
  ASSUME LayoutInv, SigOK, NEW b, Room(b, FALSE), NEW id
  PROVE  LET w == Written(b, id, "in", sig.in, CodeIn(FALSE).offs)
         IN  Room(w, FALSE) /\ InAt(w, id, FALSE)
<1> DEFINE n    == CodeSize(FALSE)
           offs == CodeIn(FALSE).offs
           from == Base(FALSE)
           to   == CodeIn(FALSE).end
           mid  == RetOffset(FALSE)
           last == CodeOut(FALSE).end
           w    == Written(b, id, "in", sig.in, offs)
<1>1. InOrder(offs, Types(sig.in), from, to) /\ to <= mid /\ last <= n /\ n \in Nat /\ mid \in Nat
  BY FrameFacts
<1>2. mid <= last /\ last \in Nat /\ to \in Nat
  BY FrameFacts DEF InOrder
<1>3. DOMAIN b = 0..(n - 1) /\ sig.in \in Seq(DOMAIN types)
  BY DEF Room, SigOK
<1> HIDE DEF n, offs, from, to, mid, last
<1>4. to <= n
  BY <1>1, <1>2
<1>5. /\ DOMAIN w = 0..(n - 1)
      /\ \A i \in DOMAIN sig.in : Has(w, id, "in", i, sig.in[i], offs[i])
  BY <1>1, <1>3, <1>4, WrittenFacts
<1> HIDE DEF w
<1> QED  BY <1>5 DEF Room, InAt, n, offs, w

LEMMA ClientCallKeeps ==
  ASSUME CallInv, UNCHANGED vars, NEW target \in Targets, ClientCall(target)
  PROVE  CallInv'
<1> DEFINE n == Len(stack)
           id == made + 1
           a == Activation("client", id, target, New, 0, "calling")
           c == Callee(a, New)
           b == Written(Blank(CodeSize(FALSE)), id, "in", sig.in, CodeIn(FALSE).offs)
           d == Object(b, {})
           m2 == Append(mem, d)
           s1 == Append(stack, a)
           s2 == s1 \o <<c>>
           U == {New}
<1>1. /\ sig # NoSig /\ Running /\ OfMethod(target) = (sig.rcvr # {})
      /\ target \in {"makefunc", "methodvalue"}
      /\ mem' = m2 /\ stack' = s2 /\ made' = id
      /\ UNCHANGED <<sig, pool, kept>>
  BY DEF ClientCall, MayCall
<1>2. StackOK
  BY CallInvFacts
<1>3. /\ n \in Nat /\ id \in Nat /\ stack \in Seq(Activations) /\ n <= Len(stack)
      /\ DOMAIN stack = 1..n
  BY <1>2, StackFacts DEF StackOK
<1>4. New \in Nat /\ New # 0 /\ New \notin DOMAIN mem /\ Unowned(stack, n, U)
  BY <1>2, NewObjects DEF Unowned
<1>5. /\ a \in Activations /\ Own(a) = {} /\ a.phase = "calling" /\ a.op = "client"
      /\ a.id = id /\ a.target = target /\ a.frame = New /\ a.heap = 0
  BY <1>3, <1>4 DEF Activation, Activations, Phases, Own, Callees
<1>6. Proper(a)
  BY <1>1, <1>5 DEF Proper, PhasesOf, HasHeap, Callees
<1> HIDE DEF a
<1>7. /\ c \in Activations /\ c.op = CalleeOp(a) /\ c.op \in Callees
      /\ c.id = id /\ c.target = target /\ c.frame = New /\ c.heap = 0
      /\ c.phase \in {"running", "entered"} /\ Own(c) = {New} /\ Proper(c)
  BY <1>1, <1>4, <1>5, CalleeFacts
<1> HIDE DEF c
<1>8. Calls(a, c)
  BY <1>5, <1>7 DEF Calls
<1>9. s1 \in Seq(Activations) /\ Len(s1) = n + 1 /\ s1[n + 1] = a /\ \A k \in 1..n : s1[k] = stack[k]
  BY <1>3, <1>5, AppendSeq
<1>10. s2 = Append(s1, c)
  BY <1>7, <1>9
<1> HIDE DEF s1, s2
<1>11. /\ s2 \in Seq(Activations) /\ Len(s2) = (n + 1) + 1 /\ s2[(n + 1) + 1] = c
       /\ \A k \in 1..(n + 1) : s2[k] = s1[k]
  BY <1>7, <1>9, <1>10, AppendSeq
<1>12. /\ Len(s2) = n + 2 /\ s2[n + 1] = a /\ s2[n + 2] = c /\ Stays(stack, s2, n)
  <2>1. (n + 1) + 1 = n + 2 /\ n + 1 \in 1..(n + 1) /\ \A k \in 1..n : k \in 1..(n + 1)
    BY <1>3
  <2> QED  BY <1>9, <1>11, <2>1 DEF Stays
<1>13. ASSUME n >= 1  PROVE NestedAt(s2, n)
  <2>1. stack # <<>> /\ n \in DOMAIN stack
    BY <1>3, <1>13
  <2>2. stack[n].phase = "running" /\ NestedAt(stack, n)
    BY <1>1, <1>2, <2>1 DEF Running, IsTop, Top, StackOK, Calling
  <2>3. s2[n] = stack[n] /\ (n > 1 => s2[n - 1] = stack[n - 1])
    BY <1>3, <1>12, <1>13 DEF Stays
  <2> QED  BY <2>2, <2>3 DEF NestedAt
<1>14. Room(Blank(CodeSize(FALSE)), FALSE)
  BY DEF Room, Blank
<1>15. Room(b, FALSE) /\ InAt(b, id, FALSE)
  BY <1>2, <1>14, ArgumentsWritten DEF StackOK
<1> HIDE DEF b
<1>16. "bytes" \in DOMAIN d /\ d.bytes = b
  BY DEF Object
<1> HIDE DEF d
<1>17. /\ MemOK(m2) /\ New \in DOMAIN m2 /\ m2[New] = d /\ DOMAIN mem \subseteq DOMAIN m2
       /\ \A p \in DOMAIN mem : m2[p] = mem[p]
       /\ LooseOK(m2, pool, kept) /\ New \notin Loose(pool, kept)
       /\ \A V : Unchanged(mem, m2, V)
  BY <1>2, <1>16, AppendNew
<1> HIDE DEF m2
<1>18. FrameRcvr(c) = FALSE
  BY <1>1, <1>5, <1>7 DEF FrameRcvr, CalleeOp
<1>19. Holds(c, m2)
  <2>1. FrameHolds(c, m2[c.frame].bytes)
    BY <1>7, <1>15, <1>16, <1>17, <1>18 DEF FrameHolds
  <2> QED  BY <1>7, <2>1 DEF Holds
<1>20. Holds(a, m2)
  BY <1>5 DEF Holds, Callees
<1>21. /\ NewTop(a, m2, pool, kept, U) /\ NewTop(c, m2, pool, kept, U)
       /\ Own(a) \cap Own(c) = {} /\ Unchanged(mem, m2, U)
  BY <1>5, <1>6, <1>7, <1>17, <1>19, <1>20 DEF NewTop
<1>22. a.op \in Callees => n >= 1 /\ s2[n].phase = "calling"
  BY <1>5 DEF Callees
<1> HIDE DEF U
<1>23. Calling(s2, m2, pool, kept)
  BY <1>2, <1>3, <1>4, <1>5, <1>7, <1>8, <1>11, <1>12, <1>13, <1>17, <1>21, <1>22, Descends
<1>24. Calling(stack', mem', pool', kept')
  BY <1>1, <1>23
<1> HIDE DEF id
<1> QED  BY <1>1, <1>2, <1>3, <1>24, CallStepInv DEF StackOK

-----------------------------------------------------------------------------
(* Returns                                                                 *)

LEMMA ResultsCopied ==
  ASSUME StackOK, NEW r \in BOOLEAN, NEW h, NEW b, Room(h, r), NEW id, OutAt(b, id, r)
  PROVE  LET w == Moved(h, RetOffset(r), b, RetOffset(r), CodeSize(r) - RetOffset(r))
         IN  Room(w, r) /\ OutAt(w, id, r)
<1> DEFINE n == CodeSize(r)
           ret == RetOffset(r)
           last == CodeOut(r).end
           len == n - ret
           w == Moved(h, ret, b, ret, len)
<1>1. InOrder(CodeOut(r).offs, Types(sig.out), ret, last) /\ last <= n /\ n \in Nat /\ ret \in Nat
  BY FrameFacts DEF StackOK
<1>2. last \in Nat
  BY <1>1 DEF InOrder
<1>3. DOMAIN h = 0..(n - 1)
  BY DEF Room
<1> HIDE DEF n, ret, last
<1>4. len \in Int /\ ret + len <= n /\ ret + len = n
  BY <1>1
<1> HIDE DEF len
<1>5. DOMAIN w = 0..(n - 1)
  BY <1>3 DEF Moved
<1>6. ASSUME NEW i \in DOMAIN sig.out
      PROVE  Has(w, id, "out", i, sig.out[i], CodeOut(r).offs[i])
  <2> DEFINE t == sig.out[i]
             x == CodeOut(r).offs[i]
             s == SizeOf(t)
  <2>1. /\ t \in DOMAIN types /\ s \in Nat /\ i \in 1..Len(Types(sig.out)) /\ Types(sig.out)[i].size = s
    BY TypesFacts DEF StackOK, SigOK
  <2>2. /\ x \in Nat /\ ret <= x /\ x + s <= last
    BY <1>1, <2>1 DEF InOrder
  <2>3. Has(b, id, "out", i, t, x) /\ s = SizeOf(t)
    BY DEF OutAt
  <2> HIDE DEF t, x, s
  <2>4. x + s <= ret + len /\ x - ret = x - ret
    BY <1>1, <1>2, <1>4, <2>1, <2>2
  <2>5. Has(w, id, "out", i, t, x)
    BY <1>1, <1>3, <1>4, <2>1, <2>2, <2>3, <2>4, MovedHas
  <2> QED  BY <2>5 DEF t, x
<1> HIDE DEF w
<1>7. Room(w, r) /\ OutAt(w, id, r)
  BY <1>5, <1>6 DEF Room, OutAt, n
<1> QED  BY <1>7 DEF w, len, ret, n

(* What is under another activation.                                       *)
LEMMA NestedUnder ==
  ASSUME StackOK, NEW n \in DOMAIN stack, NEW s2, Len(s2) \in Nat, Len(s2) >= n,
         Stays(stack, s2, n - 1), SameCall(s2[n], stack[n])
  PROVE  /\ n > 1 => NestedAt(s2, n - 1)
         /\ s2[n].op \in Callees => n > 1 /\ s2[n - 1].phase = "calling"
<1>1. n \in Nat /\ n >= 1 /\ NestedAt(stack, n) /\ DOMAIN stack = 1..Len(stack) /\ Len(stack) \in Nat
      /\ n <= Len(stack)
  BY StackFacts DEF StackOK, Calling
<1>2. ASSUME n > 1  PROVE NestedAt(s2, n - 1) /\ s2[n - 1] = stack[n - 1]
  <2>1. n - 1 \in DOMAIN stack /\ (n - 1) + 1 = n /\ n - 1 \in 1..(n - 1)
    BY <1>1, <1>2
  <2>2. NestedAt(stack, n - 1)
    BY <2>1 DEF StackOK, Calling
  <2>3. s2[n - 1] = stack[n - 1] /\ ((n - 1) > 1 => s2[(n - 1) - 1] = stack[(n - 1) - 1])
    BY <1>1, <2>1 DEF Stays
  <2>4. stack[n - 1].phase = "calling" => Calls(stack[n - 1], s2[n])
    BY <1>1, <2>1, <2>2 DEF NestedAt, Calls, SameCall
  <2>5. n - 1 < Len(s2) /\ n - 1 < Len(stack)
    BY <1>1
  <2> QED  BY <2>1, <2>2, <2>3, <2>4, <2>5 DEF NestedAt
<1>3. s2[n].op \in Callees => n > 1 /\ s2[n - 1].phase = "calling"
  BY <1>1, <1>2 DEF NestedAt, SameCall
<1> QED  BY <1>2, <1>3

LEMMA BelowFacts ==
  ASSUME StackOK, stack # <<>>, Top.op \in Callees
  PROVE  LET n == Len(stack) IN
         /\ n > 1 /\ n - 1 \in DOMAIN stack /\ Below = stack[n - 1] /\ Below.phase = "calling"
         /\ Below \in Activations /\ Proper(Below) /\ Holds(Below, mem) /\ Calls(Below, Top)
         /\ Own(Below) \subseteq DOMAIN mem /\ Own(Below) \cap Loose(pool, kept) = {}
         /\ Own(Below) \cap Own(Top) = {} /\ Unowned(stack, n - 2, Own(Below) \cup Own(Top))
         /\ Below.op \in {"caller", "client"} \/ (Below.op = "method" /\ Top.op = "code")
         /\ Top.op = "code" => Below.op # "client"
         /\ Below.op # "client" => HasRcvr(Below) = FrameRcvr(Top) /\ Below.heap # 0
<1> DEFINE n == Len(stack)
<1>1. /\ n \in Nat /\ n >= 1 /\ n \in DOMAIN stack /\ DOMAIN stack = 1..n /\ Top = stack[n]
      /\ Calling(stack, mem, pool, kept) /\ stack \in Seq(Activations)
  BY TopFacts DEF StackOK
<1>2. Below = stack[n - 1]
  BY DEF Below
<1>3. /\ n > 1 /\ n - 1 \in DOMAIN stack /\ Below.phase = "calling" /\ Calls(Below, Top)
      /\ Below.op \in {"caller", "client"} \/ (Below.op = "method" /\ Top.op = "code")
      /\ Top.op = "code" => Below.op # "client"
      /\ Below.op # "client" => HasRcvr(Below) = FrameRcvr(Top) /\ Below.heap # 0
  BY <1>1, <1>2, Callers
<1> HIDE DEF n
<1>4. /\ Below \in Activations /\ Proper(Below) /\ Holds(Below, mem)
      /\ Own(Below) \subseteq DOMAIN mem /\ Own(Below) \cap Loose(pool, kept) = {}
  BY <1>1, <1>2, <1>3 DEF Calling
<1>5. Own(Below) \cap Own(Top) = {}
  BY <1>1, <1>2, <1>3 DEF Calling
<1>6. Unowned(stack, n - 2, Own(Below) \cup Own(Top))
  <2> SUFFICES ASSUME NEW k \in 1..(n - 2)
               PROVE  Own(stack[k]) \cap (Own(Below) \cup Own(Top)) = {}
    BY DEF Unowned
  <2>1. k \in DOMAIN stack /\ k # n /\ k # n - 1
    BY <1>1
  <2> QED  BY <1>1, <1>2, <1>3, <2>1 DEF Calling
<1> QED  BY <1>2, <1>3, <1>4, <1>5, <1>6 DEF n

LEMMA ReturnKeeps ==
  ASSUME StackOK, stack # <<>>, Top.op \in Callees, Below.op # "client",
         NEW b, OutAt(b, Top.id, FrameRcvr(Top))
  PROVE  Calling(Resumed(Pop, "returned"), Returned(mem, Below, Top.frame, b), pool, kept)
<1> DEFINE n == Len(stack)
           j == n - 2
           o == Below.heap
           r == HasRcvr(Below)
           h == mem[o].bytes
           w == Moved(h, RetOffset(r), b, RetOffset(r), CodeSize(r) - RetOffset(r))
           m1 == [mem EXCEPT ![o].bytes = w]
           m2 == Dead(m1, {Top.frame})
           a == [Below EXCEPT !.phase = "returned"]
           s1 == Pop
           s2 == Resumed(Pop, "returned")
           U == Own(Below) \cup Own(Top)
<1>1. /\ n \in Nat /\ n > 1 /\ n - 1 \in DOMAIN stack /\ DOMAIN stack = 1..n
      /\ Below = stack[n - 1] /\ Below.phase = "calling"
      /\ Below \in Activations /\ Proper(Below) /\ Holds(Below, mem) /\ Calls(Below, Top)
      /\ Own(Below) \subseteq DOMAIN mem /\ Own(Below) \cap Loose(pool, kept) = {}
      /\ Own(Below) \cap Own(Top) = {} /\ Unowned(stack, j, U)
      /\ stack \in Seq(Activations) /\ stack # <<>>
  BY BelowFacts, TopFacts DEF StackOK
<1>2. Below.op \in {"caller", "method"} /\ r = FrameRcvr(Top) /\ o # 0
  BY BelowFacts
<1>3. /\ Own(Top) \cap Loose(pool, kept) = {} /\ Own(Top) \subseteq DOMAIN mem
      /\ Top.frame \in Own(Top)
  <2>1. Proper(Top) /\ Own(Top) \cap Loose(pool, kept) = {} /\ Own(Top) \subseteq DOMAIN mem
    BY TopFacts
  <2> QED  BY <2>1 DEF Own, Proper
<1>4. r \in BOOLEAN
  BY DEF HasRcvr
<1>5. o \in Own(Below) /\ o \in DOMAIN mem
  BY <1>1, <1>2 DEF Own
<1>6. Room(h, r)
  BY <1>1, <1>2 DEF Holds, HeapHolds
<1>7. OutAt(b, Top.id, r) /\ Top.id = Below.id
  BY <1>1, <1>2 DEF Calls
<1>8. Room(w, r) /\ OutAt(w, Below.id, r)
  BY <1>4, <1>6, <1>7, ResultsCopied
<1>9. Returned(mem, Below, Top.frame, b) = m2
  <2>1. funcLayout(r).retOffset = RetOffset(r) /\ funcLayout(r).size = CodeSize(r)
    BY FuncLayout
  <2> QED  BY <2>1 DEF Returned
<1> HIDE DEF w
<1>10. /\ MemOK(m1) /\ DOMAIN m1 = DOMAIN mem /\ m1[o].bytes = w
       /\ \A p \in DOMAIN mem : p # o => m1[p] = mem[p]
  BY <1>5, PutMem DEF StackOK
<1> HIDE DEF m1
<1>11. /\ MemOK(m2) /\ DOMAIN m2 = DOMAIN mem
       /\ \A p \in DOMAIN mem : p # Top.frame => m2[p] = m1[p]
  BY <1>10, DeadMem
<1> HIDE DEF m2
<1>12. m2[o].bytes = w /\ \A p \in DOMAIN mem : p \notin U => m2[p].bytes = mem[p].bytes
  BY <1>1, <1>3, <1>5, <1>10, <1>11
<1>13. \A p \in Own(Below) : p # o => m2[p] = mem[p]
  BY <1>1, <1>3, <1>10, <1>11
<1>14. a \in Activations /\ SameCall(a, Below) /\ Own(a) = Own(Below) /\ a.phase = "returned"
       /\ a.heap = o
  BY <1>1 DEF Activations, Phases, SameCall, Own
<1>15. Proper(a)
  BY <1>1, <1>2 DEF Proper, PhasesOf, HasHeap, Activations, Callees
<1>16. Holds(a, m2)
  <2>1. HasRcvr(a) = r /\ a.id = Below.id
    BY <1>1 DEF HasRcvr, Activations
  <2>2. HeapHolds(a, m2[a.heap].bytes)
    BY <1>8, <1>12, <1>14, <2>1 DEF HeapHolds
  <2>3. ASSUME a.op \in Callees  PROVE FrameHolds(a, m2[a.frame].bytes)
    <3>1. Below.op = "method" /\ a.frame = Below.frame /\ a.op = Below.op
      BY <1>2, <1>14, <2>3 DEF SameCall, Callees
    <3>2. Below.frame \in Own(Below) /\ Below.frame # o
      BY <1>1, <3>1 DEF Own, Proper, Callees
    <3>3. m2[a.frame] = mem[Below.frame]
      BY <1>13, <3>1, <3>2
    <3> QED  BY <1>1, <1>14, <3>1, <3>3 DEF Holds, FrameHolds, FrameRcvr, Callees
  <2> QED  BY <2>2, <2>3 DEF Holds
<1>17. /\ s1 \in Seq(Activations) /\ Len(s1) = n - 1
       /\ \A k \in 1..(n - 1) : s1[k] = stack[k]
  BY <1>1, PopTop DEF Pop
<1>18. s2 = [s1 EXCEPT ![n - 1] = a] /\ n - 1 \in 1..Len(s1)
  <2>1. n - 1 \in 1..(n - 1)
    BY <1>1
  <2>2. s1[n - 1] = Below /\ Len(s1) = n - 1 /\ n - 1 \in 1..Len(s1)
    BY <1>1, <1>17, <2>1
  <2>3. s2 = [s1 EXCEPT ![Len(s1)].phase = "returned"]
    BY DEF Resumed
  <2> HIDE DEF s1, s2, n
  <2> QED  BY <2>2, <2>3
<1> HIDE DEF s2, s1
<1>19. /\ s2 \in Seq(Activations) /\ Len(s2) = n - 1 /\ s2[n - 1] = a
       /\ \A k \in 1..(n - 1) : k # n - 1 => s2[k] = s1[k]
  BY <1>14, <1>17, <1>18, ReplaceTop
<1> HIDE DEF n
<1>20. /\ j \in Nat /\ j <= n /\ j <= Len(s2) /\ j + 1 = n - 1 /\ Len(s2) = j + 1 /\ n = Len(stack)
       /\ (n - 1) - 1 = j
  BY <1>1, <1>19 DEF n
<1>21. Stays(stack, s2, j)
  <2>1. n \in Nat /\ n > 1 /\ j \in Nat /\ j + 1 = n - 1
    BY <1>1, <1>20
  <2> HIDE DEF j
  <2>2. \A k \in 1..j : k \in 1..(n - 1) /\ k # n - 1
    BY <2>1
  <2> QED  BY <1>17, <1>19, <2>2 DEF Stays
<1>22. /\ n - 1 > 1 => NestedAt(s2, (n - 1) - 1)
       /\ s2[n - 1].op \in Callees => n - 1 > 1 /\ s2[(n - 1) - 1].phase = "calling"
  <2>1. /\ n - 1 \in DOMAIN stack /\ Len(s2) \in Nat /\ Len(s2) >= n - 1
        /\ Stays(stack, s2, (n - 1) - 1) /\ SameCall(s2[n - 1], stack[n - 1])
    BY <1>1, <1>14, <1>19, <1>20, <1>21
  <2> QED  BY <2>1, NestedUnder
<1>23. NestedAt(s2, j + 1)
  <2>1. (j + 1) - 1 = (n - 1) - 1 /\ ~(j + 1 < Len(s2)) /\ s2[j + 1] = a
    BY <1>19, <1>20
  <2> QED  BY <1>14, <1>20, <1>22, <2>1 DEF NestedAt
<1>24. NewTop(a, m2, pool, kept, U)
  BY <1>1, <1>11, <1>14, <1>15, <1>16 DEF NewTop
<1>25. LooseOK(m2, pool, kept)
  <2>1. LooseOK(mem, pool, kept) /\ DOMAIN pool = BOOLEAN /\ Loose(pool, kept) \subseteq DOMAIN mem
    BY DEF StackOK, LooseOK
  <2>2. \A p \in Loose(pool, kept) : p \in DOMAIN m2 /\ m2[p].bytes = mem[p].bytes
    BY <1>1, <1>3, <1>11, <1>12, <2>1
  <2> QED  BY <2>1, <2>2, LooseSame
<1>26. Unchanged(mem, m2, U)
  BY <1>11, <1>12 DEF Unchanged
<1> HIDE DEF a, U, j
<1>27. \A k \in j..Len(s2) : k >= 1 => NestedAt(s2, k)
  <2>1. \A k \in j..Len(s2) : k = j \/ k = j + 1
    BY <1>20
  <2>2. j >= 1 => NestedAt(s2, j)
    BY <1>20, <1>22
  <2> QED  BY <1>23, <2>1, <2>2
<1>28. \A k \in (j + 1)..Len(s2) : k = j + 1
  BY <1>20
<1>29. s2[j + 1] = a
  BY <1>19, <1>20
<1>30. \A k \in (j + 1)..Len(s2) : NewTop(s2[k], m2, pool, kept, U)
  BY <1>24, <1>28, <1>29
<1>31. \A k, l \in (j + 1)..Len(s2) : k # l => Own(s2[k]) \cap Own(s2[l]) = {}
  BY <1>28
<1>32. /\ j <= Len(stack) /\ Calling(stack, mem, pool, kept)
       /\ Loose(pool, kept) \subseteq Loose(pool, kept) \cup U
  BY <1>20 DEF StackOK
<1>33. Calling(s2, m2, pool, kept)
  BY <1>1, <1>11, <1>19, <1>20, <1>21, <1>25, <1>26, <1>27, <1>30, <1>31, <1>32, Progress
<1> QED  BY <1>9, <1>33 DEF s2, s1

LEMMA CodeReturnKeeps ==
  ASSUME CallInv, UNCHANGED vars, CodeReturn
  PROVE  CallInv'
<1> DEFINE g == [k \in DOMAIN Bytes(Top.frame) |-> Garbage]
           r == HasRcvr(Top)
           b == Written(g, Top.id, "out", sig.out, CodeOut(r).offs)
<1>1. /\ stack # <<>> /\ Top.op = "code" /\ mem' = Returned(mem, Below, Top.frame, b)
      /\ stack' = Resumed(Pop, "returned") /\ UNCHANGED <<sig, made, pool, kept>>
  BY DEF CodeReturn, IsTop
<1>2. StackOK /\ sig # NoSig
  BY <1>1, CallInvFacts
<1>3. Top.op \in Callees /\ Holds(Top, mem) /\ r \in BOOLEAN /\ r = FrameRcvr(Top)
  BY <1>1, <1>2, TopFacts DEF Callees, HasRcvr, FrameRcvr, OfMethod
<1>4. Below.op # "client"
  BY <1>1, <1>2, <1>3, BelowFacts
<1>5. Room(g, r)
  BY <1>3 DEF Holds, FrameHolds, Bytes, Room
<1> HIDE DEF g, r
<1>6. OutAt(b, Top.id, r)
  BY <1>2, <1>3, <1>5, ResultsWritten DEF StackOK
<1> HIDE DEF b
<1>7. Calling(Resumed(Pop, "returned"), Returned(mem, Below, Top.frame, b), pool, kept)
  BY <1>1, <1>2, <1>3, <1>4, <1>6, ReturnKeeps
<1>8. Calling(stack', mem', pool', kept') /\ made' \in Nat
  BY <1>1, <1>2, <1>7 DEF StackOK
<1> QED  BY <1>1, <1>2, <1>8, CallStepInv

(* A client and its callee are gone: what remains is running.              *)
LEMMA ClientGone ==
  ASSUME StackOK, stack # <<>>, Top.op \in Callees, Below.op = "client"
  PROVE  LET n == Len(stack) IN
         n > 2 => /\ n - 2 \in DOMAIN stack /\ stack[n - 2].phase = "running"
                  /\ NestedAt(stack, n - 2)
<1> DEFINE n == Len(stack)
<1>1. /\ n \in Nat /\ n > 1 /\ n - 1 \in DOMAIN stack /\ DOMAIN stack = 1..n
      /\ Below = stack[n - 1]
  BY BelowFacts, TopFacts
<1> HIDE DEF n
<1> SUFFICES ASSUME n > 2
             PROVE  n - 2 \in DOMAIN stack /\ stack[n - 2].phase = "running" /\ NestedAt(stack, n - 2)
  BY DEF n
<1>2. n - 2 \in DOMAIN stack /\ n - 2 < Len(stack) /\ (n - 2) + 1 = n - 1
  BY <1>1 DEF n
<1>3. NestedAt(stack, n - 2)
  BY <1>2 DEF StackOK, Calling
<1>4. stack[n - 2].phase \in {"calling", "running"}
  BY <1>2, <1>3 DEF NestedAt
<1>5. stack[n - 2].phase # "calling"
  <2>1. SUFFICES ASSUME stack[n - 2].phase = "calling"  PROVE FALSE
    OBVIOUS
  <2>2. Calls(stack[n - 2], Below)
    BY <1>1, <1>2, <1>3, <2>1 DEF NestedAt
  <2> QED  BY <2>2 DEF Calls, CalleeOp
<1> QED  BY <1>2, <1>3, <1>4, <1>5

(* What remains when the last activations go, and nothing is calling.      *)
LEMMA Shorter ==
  ASSUME StackOK, NEW j \in Nat, j <= Len(stack), NEW s2 \in Seq(Activations), Len(s2) = j,
         Stays(stack, s2, j),
         j >= 1 => stack[j].phase = "running",
         NEW m2, NEW pl2, NEW kp2, NEW U, Unowned(stack, j, U), MemOK(m2), Unchanged(mem, m2, U),
         LooseOK(m2, pl2, kp2), Loose(pl2, kp2) \subseteq Loose(pool, kept) \cup U
  PROVE  Calling(s2, m2, pl2, kp2)
<1>1. Len(stack) \in Nat /\ DOMAIN stack = 1..Len(stack)
  BY StackFacts DEF StackOK
<1>2. ASSUME j >= 1  PROVE NestedAt(s2, j)
  <2>1. j \in DOMAIN stack /\ j \in 1..j /\ (j > 1 => j - 1 \in 1..j)
    BY <1>1, <1>2
  <2>2. NestedAt(stack, j) /\ stack[j].phase = "running"
    BY <1>2, <2>1 DEF StackOK, Calling
  <2>3. s2[j] = stack[j] /\ (j > 1 => s2[j - 1] = stack[j - 1])
    BY <2>1 DEF Stays
  <2> QED  BY <2>2, <2>3 DEF NestedAt
<1>3. \A k \in j..Len(s2) : k >= 1 => NestedAt(s2, k)
  <2>1. \A k \in j..Len(s2) : k = j
    OBVIOUS
  <2> QED  BY <1>2, <2>1
<1>4. \A k \in (j + 1)..Len(s2) : FALSE
  OBVIOUS
<1>5. /\ \A k \in (j + 1)..Len(s2) : NewTop(s2[k], m2, pl2, kp2, U)
      /\ \A k, l \in (j + 1)..Len(s2) : k # l => Own(s2[k]) \cap Own(s2[l]) = {}
  BY <1>4
<1>6. j <= Len(s2) /\ Calling(stack, mem, pool, kept)
  BY DEF StackOK
<1> QED  BY <1>3, <1>5, <1>6, Progress

LEMMA LeaveKeeps ==
  ASSUME CallInv, UNCHANGED vars, Leave
  PROVE  CallInv'
<1> DEFINE n == Len(stack)
           j == n - 2
           b == Bytes(Top.frame)
           m1 == Dead(mem, {Top.frame})
           m2 == m1 \o Variables(b, sig.out, CodeOut(FALSE).offs)
           kp == kept \cup VariableRefs(Top.id, "out", sig.out)
           s1 == Pop
           s2 == SubSeq(s1, 1, Len(s1) - 1)
           U == {Top.frame} \cup (Nat \ DOMAIN mem)
<1>1. /\ stack # <<>> /\ Top.op \in {"reflect", "method"} /\ Top.phase = "done"
      /\ UNCHANGED <<sig, made, pool>>
  BY DEF Leave, IsTop
<1>2. StackOK /\ sig # NoSig
  BY <1>1, CallInvFacts
<1>3. /\ Top.op \in Callees /\ Holds(Top, mem) /\ FrameRcvr(Top) = FALSE
      /\ Top.frame \in Own(Top) /\ Own(Top) \subseteq DOMAIN mem
      /\ Own(Top) \cap Loose(pool, kept) = {}
  <2>1. Top.op \in Callees /\ Proper(Top) /\ FrameRcvr(Top) = FALSE
    BY <1>1, <1>2, TopFacts DEF Callees, FrameRcvr
  <2> QED  BY <1>1, <1>2, <2>1, TopFacts DEF Own, Proper
<1>4. OutAt(b, Top.id, FALSE)
  BY <1>1, <1>3 DEF Holds, FrameHolds, Bytes
<1>5. made' \in Nat
  BY <1>1, <1>2 DEF StackOK
<1>6. ASSUME Below.op = "caller"  PROVE CallInv'
  <2>1. Calling(Resumed(Pop, "returned"), Returned(mem, Below, Top.frame, b), pool, kept)
    BY <1>1, <1>2, <1>3, <1>4, <1>6, ReturnKeeps
  <2>2. Calling(stack', mem', pool', kept')
    BY <1>1, <1>6, <2>1 DEF Leave
  <2> QED  BY <1>1, <1>2, <1>5, <2>2, CallStepInv
<1>7. ASSUME Below.op # "caller"  PROVE CallInv'
  <2>1. mem' = m2 /\ stack' = s2 /\ kept' = kp
    BY <1>7 DEF Leave
  <2>2. Below.op = "client"
    BY <1>1, <1>2, <1>3, <1>7, BelowFacts
  <2>3. n > 2 => stack[n - 2].phase = "running"
    BY <1>1, <1>2, <1>3, <2>2, ClientGone
  <2>4. /\ n \in Nat /\ n > 1 /\ stack \in Seq(Activations) /\ DOMAIN stack = 1..n
        /\ Unowned(stack, n - 2, Own(Below) \cup Own(Top))
    BY <1>1, <1>2, <1>3, BelowFacts, TopFacts DEF StackOK
  <2>5. /\ s1 \in Seq(Activations) /\ Len(s1) = n - 1
        /\ \A k \in 1..(n - 1) : s1[k] = stack[k]
    BY <1>1, <2>4, PopTop DEF Pop
  <2> HIDE DEF s1
  <2>6. s1 # <<>>
    BY <2>4, <2>5
  <2>7. /\ s2 \in Seq(Activations) /\ Len(s2) = (n - 1) - 1
        /\ \A k \in 1..((n - 1) - 1) : s2[k] = s1[k]
    BY <2>5, <2>6, PopTop
  <2> HIDE DEF s2
  <2>8. j \in Nat /\ j <= Len(stack) /\ Len(s2) = j /\ \A k \in 1..j : k \in 1..(n - 1) /\ k \in 1..((n - 1) - 1)
    <3> HIDE DEF n
    <3>1. n \in Nat /\ n > 1 /\ n = Len(stack) /\ Len(s2) = (n - 1) - 1
      BY <2>4, <2>7 DEF n
    <3> QED  BY <3>1
  <2>9. Stays(stack, s2, j)
    BY <2>5, <2>7, <2>8 DEF Stays
  <2>10. j >= 1 => stack[j].phase = "running"
    <3>1. j >= 1 => n > 2
      BY <2>4
    <3> QED  BY <2>3, <3>1
  <2>11. /\ MemOK(m1) /\ DOMAIN m1 = DOMAIN mem
         /\ \A p \in DOMAIN mem : p \notin {Top.frame} => m1[p] = mem[p]
    BY <1>2, DeadMem DEF StackOK
  <2> HIDE DEF m1, b
  <2>12. LooseOK(m1, pool, kept)
    <3>1. LooseOK(mem, pool, kept) /\ DOMAIN pool = BOOLEAN /\ Loose(pool, kept) \subseteq DOMAIN mem
      BY <1>2 DEF StackOK, LooseOK
    <3>2. \A p \in Loose(pool, kept) : p \in DOMAIN m1 /\ m1[p].bytes = mem[p].bytes
      BY <1>3, <2>11, <3>1
    <3> QED  BY <3>1, <3>2, LooseSame
  <2>13. \A i \in DOMAIN sig.out : /\ CodeOut(FALSE).offs[i] \in Nat
                                   /\ Has(b, Top.id, "out", i, sig.out[i], CodeOut(FALSE).offs[i])
    <3>1. sig.out \in Seq(DOMAIN types) /\ LayoutInv
      BY <1>2 DEF StackOK, SigOK
    <3>2. Len(Types(sig.out)) = Len(sig.out) /\ DOMAIN sig.out = 1..Len(sig.out)
      BY <3>1, TypesFacts
    <3>3. InOrder(CodeOut(FALSE).offs, Types(sig.out), RetOffset(FALSE), CodeOut(FALSE).end)
      BY <1>2, FrameFacts DEF StackOK
    <3>4. \A i \in DOMAIN sig.out : CodeOut(FALSE).offs[i] \in Nat
      BY <3>2, <3>3 DEF InOrder
    <3> QED  BY <1>4, <3>4 DEF OutAt
  <2>14. sig.out \in Seq(DOMAIN types)
    BY <1>2 DEF StackOK, SigOK
  <2>15. /\ MemOK(m2) /\ LooseOK(m2, pool, kp) /\ DOMAIN mem \subseteq DOMAIN m2
         /\ \A p \in DOMAIN m1 : m2[p] = m1[p]
         /\ Loose(pool, kp) \subseteq Loose(pool, kept) \cup (Nat \ DOMAIN mem)
    BY <1>2, <2>11, <2>12, <2>13, <2>14, VariablesGiven, ZenonT(60)
  <2> HIDE DEF m2, kp
  <2>16. Unchanged(mem, m2, U)
    BY <2>11, <2>15 DEF Unchanged
  <2>17. Unowned(stack, j, U)
    <3>1. Unowned(stack, Len(stack), Nat \ DOMAIN mem)
      BY <1>2, NewObjects
    <3>2. \A k \in 1..j : k \in 1..Len(stack)
      BY <2>4
    <3> QED  BY <1>3, <2>4, <3>1, <3>2 DEF Unowned
  <2>18. Loose(pool, kp) \subseteq Loose(pool, kept) \cup U
    BY <2>15
  <2> HIDE DEF U, j, n
  <2>19. Calling(s2, m2, pool, kp)
    BY <1>2, <2>7, <2>8, <2>9, <2>10, <2>15, <2>16, <2>17, <2>18, Shorter
  <2>20. Calling(stack', mem', pool', kept')
    BY <1>1, <2>1, <2>19
  <2> QED  BY <1>1, <1>2, <1>5, <2>20, CallStepInv
<1> QED  BY <1>6, <1>7

(* A caller is called by code that runs.                                   *)
LEMMA CallerAlone ==
  ASSUME StackOK, stack # <<>>, Top.op = "caller"
  PROVE  LET n == Len(stack) IN n > 1 => stack[n - 1].phase = "running"
<1> DEFINE n == Len(stack)
<1>1. n \in Nat /\ DOMAIN stack = 1..n /\ Top = stack[n]
  BY TopFacts
<1> HIDE DEF n
<1> SUFFICES ASSUME n > 1  PROVE stack[n - 1].phase = "running"
  BY DEF n
<1>2. n - 1 \in DOMAIN stack /\ n - 1 < Len(stack) /\ (n - 1) + 1 = n
  BY <1>1 DEF n
<1>3. NestedAt(stack, n - 1)
  BY <1>2 DEF StackOK, Calling
<1>4. stack[n - 1].phase \in {"calling", "running"}
  BY <1>2, <1>3 DEF NestedAt
<1>5. stack[n - 1].phase # "calling"
  <2>1. SUFFICES ASSUME stack[n - 1].phase = "calling"  PROVE FALSE
    OBVIOUS
  <2>2. Calls(stack[n - 1], Top)
    BY <1>1, <1>2, <1>3, <2>1 DEF NestedAt
  <2> QED  BY <2>2 DEF Calls, CalleeOp
<1> QED  BY <1>4, <1>5

LEMMA ResultsUncleared ==
  ASSUME StackOK, NEW r \in BOOLEAN, NEW b, Room(b, r), NEW id, OutAt(b, id, r)
  PROVE  LET w == Cleared(b, 0, RetOffset(r))
         IN  \A i \in DOMAIN sig.out : Has(w, id, "out", i, sig.out[i], CodeOut(r).offs[i])
<1> DEFINE w == Cleared(b, 0, RetOffset(r))
           offs == CodeOut(r).offs
           n == CodeSize(r)
<1>1. /\ InOrder(offs, Types(sig.out), RetOffset(r), CodeOut(r).end)
      /\ RetOffset(r) \in Nat /\ n \in Nat /\ CodeOut(r).end \in Nat /\ CodeOut(r).end <= n
  BY FrameFacts DEF StackOK, InOrder
<1>2. /\ Len(Types(sig.out)) = Len(sig.out) /\ DOMAIN sig.out = 1..Len(sig.out)
      /\ \A i \in DOMAIN sig.out : /\ Types(sig.out)[i].size = SizeOf(sig.out[i])
                                   /\ SizeOf(sig.out[i]) \in Nat
  BY TypesFacts DEF StackOK, SigOK
<1> SUFFICES ASSUME NEW i \in DOMAIN sig.out, NEW k \in 0..(SizeOf(sig.out[i]) - 1)
             PROVE  w[offs[i] + k] = Byte(id, "out", i, k)
  BY DEF Has
<1>3. /\ offs[i] \in Nat /\ RetOffset(r) <= offs[i]
      /\ offs[i] + SizeOf(sig.out[i]) <= CodeOut(r).end
  BY <1>1, <1>2 DEF InOrder
<1>4. b[offs[i] + k] = Byte(id, "out", i, k)
  BY DEF OutAt, Has
<1>5. DOMAIN b = 0..(n - 1)
  BY DEF Room
<1> DEFINE p == offs[i] + k
           from == RetOffset(r)
           s == SizeOf(sig.out[i])
           e == CodeOut(r).end
<1>6. w = [q \in DOMAIN b |-> IF q >= 0 /\ q < from THEN Nothing ELSE b[q]]
  BY DEF Cleared
<1>7. s \in Nat /\ k \in 0..(s - 1) /\ e \in Nat /\ e <= n /\ n \in Nat /\ from \in Nat
  BY <1>1, <1>2
<1>8. offs[i] \in Nat /\ from <= offs[i] /\ offs[i] + s <= e
  BY <1>3
<1> HIDE DEF s, e, from, n, w, offs
<1>9. p \in 0..(n - 1) /\ ~(p < from)
  BY <1>7, <1>8
<1> HIDE DEF p
<1>10. w[p] = b[p]
  BY <1>5, <1>6, <1>9
<1> QED  BY <1>4, <1>10 DEF p

LEMMA FinishKeeps ==
  ASSUME CallInv, UNCHANGED vars, Finish
  PROVE  CallInv'
<1> DEFINE n == Len(stack)
           r == HasRcvr(Top)
           o == Top.heap
           b == Bytes(o)
           w == Cleared(b, 0, IF UsesPool THEN CodeSize(r) ELSE RetOffset(r))
           m2 == Put(o, w)
           K == Refs(o, CodeOut(r).offs, Top.id, "out", sig.out)
           kp == kept \cup K
           U == Own(Top)
<1>1. /\ stack # <<>> /\ Top.op = "caller" /\ Top.phase = "returned"
      /\ stack' = Pop /\ UNCHANGED <<sig, made>>
  BY DEF Finish, IsTop
<1>2. StackOK /\ sig # NoSig /\ LayoutInv /\ SigOK
  BY <1>1, CallInvFacts DEF StackOK
<1>3. r \in BOOLEAN
  BY DEF HasRcvr
<1>4. /\ mem' = m2 /\ kept' = kp
      /\ pool' = IF UsesPool THEN [pool EXCEPT ![r] = @ \cup {o}] ELSE pool
  <2>1. /\ funcLayout(r).retOffset = RetOffset(r) /\ funcLayout(r).size = CodeSize(r)
        /\ Placed(RetOffset(r), Types(sig.out)) = CodeOut(r)
    BY <1>3, FuncLayout DEF CodeOut, RetOffset
  <2> QED  BY <2>1 DEF Finish
<1>5. /\ Proper(Top) /\ Holds(Top, mem) /\ U \subseteq DOMAIN mem /\ U \cap Loose(pool, kept) = {}
      /\ Unowned(stack, n - 1, U) /\ n \in Nat /\ n >= 1 /\ stack \in Seq(Activations)
  BY <1>1, <1>2, TopFacts DEF StackOK
<1>6. o # 0 /\ o \in U /\ o \in DOMAIN mem /\ o \notin Loose(pool, kept)
  BY <1>1, <1>5 DEF Proper, HasHeap, Own
<1>7. Room(b, r) /\ OutAt(b, Top.id, r)
  BY <1>1, <1>5, <1>6 DEF Holds, HeapHolds, Bytes
<1> HIDE DEF b, r
<1>8. /\ MemOK(m2) /\ DOMAIN m2 = DOMAIN mem /\ m2[o].bytes = w
      /\ LooseOK(m2, pool, kept) /\ Unchanged(mem, m2, U)
  <2>1. \A X : Unchanged(mem, m2, Own(Top) \cup X)
    BY <1>1, <1>2, <1>6, WriteOwn
  <2>2. Unchanged(mem, m2, Own(Top) \cup {})
    BY <2>1
  <2>3. Own(Top) \cup {} = Own(Top)
    OBVIOUS
  <2>4. Unchanged(mem, m2, Own(Top))
    BY <2>2, <2>3
  <2> HIDE DEF m2
  <2>5. MemOK(m2) /\ DOMAIN m2 = DOMAIN mem /\ m2[o].bytes = w /\ LooseOK(m2, pool, kept)
    BY <1>1, <1>2, <1>6, WriteOwn DEF m2
  <2> QED  BY <2>4, <2>5
<1> HIDE DEF m2
<1>9. /\ stack' \in Seq(Activations) /\ Len(stack') = n - 1
      /\ \A k \in 1..(n - 1) : stack'[k] = stack[k]
  BY <1>1, <1>5, PopTop DEF Pop
<1>10. n > 1 => stack[n - 1].phase = "running"
  BY <1>1, <1>2, CallerAlone
<1>11. LooseOK(m2, pool', kp) /\ Loose(pool', kp) \subseteq Loose(pool, kept) \cup U
  <2>1. ASSUME sig.out = <<>>  PROVE LooseOK(m2, pool', kp) /\ Loose(pool', kp) \subseteq Loose(pool, kept) \cup U
    <3>1. K = {}
      BY <2>1 DEF Refs
    <3>2. kp = kept
      BY <3>1
    <3>3. w = Blank(CodeSize(r))
      BY <1>2, <1>3, <1>7, <2>1, FrameFacts DEF UsesPool, Cleared, Blank, Room
    <3>4. DOMAIN pool = BOOLEAN
      BY <1>8 DEF LooseOK
    <3>5. /\ DOMAIN pool' = BOOLEAN /\ pool'[r] = pool[r] \cup {o}
          /\ \A q \in BOOLEAN : q # r => pool'[q] = pool[q]
      BY <1>3, <1>4, <2>1, <3>4 DEF UsesPool
    <3> HIDE DEF w, o, K, kp
    <3>6. LooseOK(m2, pool', kept) /\ Loose(pool', kept) = Loose(pool, kept) \cup {o}
      BY <1>3, <1>6, <1>8, <3>3, <3>5, LooseRelease
    <3> QED  BY <1>6, <3>2, <3>6
  <2>2. ASSUME sig.out # <<>>  PROVE LooseOK(m2, pool', kp) /\ Loose(pool', kp) \subseteq Loose(pool, kept) \cup U
    <3>1. pool' = pool /\ w = Cleared(b, 0, RetOffset(r))
      BY <1>4, <2>2 DEF UsesPool
    <3>2. \A i \in DOMAIN sig.out : Has(w, Top.id, "out", i, sig.out[i], CodeOut(r).offs[i])
      BY <1>2, <1>3, <1>7, <3>1, ResultsUncleared
    <3> HIDE DEF w, o
    <3>3. \A v \in K : \E i \in DOMAIN sig.out :
            v = Ref(o, CodeOut(r).offs[i], Top.id, "out", i, sig.out[i])
      BY DEF Refs
    <3>4. \A v \in K : v.obj = o /\ Has(m2[v.obj].bytes, v.id, v.what, v.i, v.typ, v.off)
      BY <1>8, <3>2, <3>3 DEF Ref
    <3>5. \A v \in K : /\ v.obj \in DOMAIN m2 /\ v.obj \notin pool[TRUE] /\ v.obj \notin pool[FALSE]
                       /\ Has(m2[v.obj].bytes, v.id, v.what, v.i, v.typ, v.off)
      BY <1>6, <1>8, <3>4 DEF Loose
    <3>6. \A v \in K : v.obj \in U
      BY <1>6, <3>4
    <3> HIDE DEF K, U
    <3>7. LooseOK(m2, pool, kept \cup K) /\ Loose(pool, kept \cup K) \subseteq Loose(pool, kept) \cup U
      BY <1>8, <3>5, <3>6, LooseGive
    <3> QED  BY <3>1, <3>7
  <2> QED  BY <2>1, <2>2
<1>12. Stays(stack, stack', n - 1)
  BY <1>9 DEF Stays
<1> DEFINE j == n - 1
<1>13. j \in Nat /\ j <= n /\ (j >= 1 => stack[j].phase = "running")
  <2>1. n \in Nat /\ n >= 1 /\ (n - 1 >= 1 => n > 1)
    BY <1>5
  <2> HIDE DEF n
  <2>2. j \in Nat /\ j <= n
    BY <2>1
  <2> QED  BY <1>10, <2>1, <2>2 DEF n
<1> HIDE DEF kp, U
<1>14. Calling(stack', m2, pool', kp)
  <2>1. Stays(stack, stack', j) /\ Unowned(stack, j, U) /\ Len(stack') = j /\ j <= Len(stack)
    BY <1>5, <1>9, <1>12, <1>13
  <2> HIDE DEF j, n
  <2> QED  BY <1>2, <1>8, <1>9, <1>11, <1>13, <2>1, Shorter
<1>15. Calling(stack', mem', pool', kept') /\ made' \in Nat
  BY <1>1, <1>2, <1>4, <1>14 DEF StackOK
<1> QED  BY <1>1, <1>2, <1>15, CallStepInv

-----------------------------------------------------------------------------
(* A panic, and everything else                                            *)

LEMMA FramesOwned ==
  ASSUME StackOK, NEW n \in DOMAIN stack, stack[n].frame # 0
  PROVE  \E k \in DOMAIN stack : stack[n].frame \in Own(stack[k])
<1> DEFINE a == stack[n]
<1>1. n \in 1..Len(stack) /\ Len(stack) \in Nat /\ DOMAIN stack = 1..Len(stack)
  BY StackFacts DEF StackOK
<1>2. a \in Activations /\ Proper(a) /\ NestedAt(stack, n)
  BY <1>1, StackFacts DEF StackOK, Calling
<1>3. CASE a.op \in Callees
  BY <1>3 DEF Own
<1>4. CASE a.op = "client"
  <2>1. a.phase = "calling"
    BY <1>2, <1>4 DEF Proper, PhasesOf
  <2>2. n < Len(stack) /\ Calls(a, stack[n + 1])
    BY <1>2, <2>1 DEF NestedAt
  <2>3. n + 1 \in DOMAIN stack
    BY <1>1, <2>2
  <2>4. stack[n + 1].op \in Callees /\ stack[n + 1].frame = a.frame
    BY <1>4, <2>2 DEF Calls, CalleeOp, Callees
  <2>5. a.frame \in Own(stack[n + 1])
    BY <2>4 DEF Own
  <2> QED  BY <2>3, <2>5
<1>5. a.op # "caller"
  BY <1>2 DEF Proper
<1> QED  BY <1>2, <1>3, <1>4, <1>5 DEF Activations

LEMMA PanicKeeps ==
  ASSUME CallInv, UNCHANGED vars, Panic
  PROVE  CallInv'
<1> DEFINE S == {stack[k].frame : k \in DOMAIN stack}
           m2 == Dead(mem, S)
           U == DOMAIN mem
<1>1. /\ stack # <<>> /\ mem' = m2 /\ stack' = <<>> /\ UNCHANGED <<sig, made, pool, kept>>
  BY DEF Panic
<1>2. StackOK /\ sig # NoSig
  BY <1>1, CallInvFacts
<1>3. /\ MemOK(m2) /\ DOMAIN m2 = DOMAIN mem
      /\ \A p \in DOMAIN mem : p \notin S => m2[p] = mem[p]
  BY <1>2, DeadMem DEF StackOK
<1> HIDE DEF m2
<1>4. /\ LooseOK(mem, pool, kept) /\ DOMAIN pool = BOOLEAN /\ Loose(pool, kept) \subseteq DOMAIN mem
      /\ DOMAIN mem = 1..Len(mem)
  BY <1>2, MemFacts DEF StackOK, LooseOK
<1>5. \A p \in Loose(pool, kept) : p \notin S
  <2> SUFFICES ASSUME NEW n \in DOMAIN stack, stack[n].frame \in Loose(pool, kept)  PROVE FALSE
    OBVIOUS
  <2>1. stack[n].frame # 0
    BY <1>4
  <2>2. PICK k \in DOMAIN stack : stack[n].frame \in Own(stack[k])
    BY <1>2, <2>1, FramesOwned
  <2>3. Own(stack[k]) \cap Loose(pool, kept) = {}
    BY <1>2 DEF StackOK, Calling
  <2> QED  BY <2>2, <2>3
<1>6. LooseOK(m2, pool, kept)
  <2>1. \A p \in Loose(pool, kept) : p \in DOMAIN m2 /\ m2[p].bytes = mem[p].bytes
    BY <1>3, <1>4, <1>5
  <2> QED  BY <1>4, <2>1, LooseSame
<1>7. Unchanged(mem, m2, U)
  BY DEF Unchanged
<1> HIDE DEF S, U
<1>8. Calling(<<>>, m2, pool, kept)
  <2>1. /\ 0 \in Nat /\ 0 <= Len(stack) /\ <<>> \in Seq(Activations) /\ Len(<<>>) = 0
        /\ Stays(stack, <<>>, 0) /\ Unowned(stack, 0, U)
    BY <1>2, StackFacts DEF StackOK, Stays, Unowned
  <2>2. Loose(pool, kept) \subseteq Loose(pool, kept) \cup U /\ ~(0 >= 1)
    OBVIOUS
  <2> QED  BY <1>2, <1>3, <1>6, <1>7, <2>1, <2>2, Shorter
<1>9. Calling(stack', mem', pool', kept') /\ made' \in Nat
  BY <1>1, <1>2, <1>8 DEF StackOK
<1> QED  BY <1>1, <1>2, <1>9, CallStepInv

(* Before there are calls.                                                 *)
LEMMA NoCalls ==
  ASSUME CallInv, sig = NoSig, UNCHANGED <<made, mem, stack, pool, kept>>
  PROVE  /\ Calling(stack, mem, pool, kept)'
         /\ stack' = <<>> /\ kept' = {} /\ pool'[TRUE] = {} /\ pool'[FALSE] = {} /\ made' \in Nat
<1>1. /\ stack = <<>> /\ kept = {} /\ pool[TRUE] = {} /\ pool[FALSE] = {} /\ made \in Nat
      /\ Calling(stack, mem, pool, kept)
  BY DEF CallInv, Idle
<1>2. MemOK(mem)' /\ (stack \in Seq(Activations))'
  BY <1>1 DEF Calling, MemOK
<1>3. DOMAIN stack' = {}
  BY <1>1
<1>4. LooseOK(mem, pool, kept)'
  <2>1. DOMAIN pool = BOOLEAN
    BY <1>1 DEF Calling, LooseOK
  <2>2. Loose(pool, kept)' = {}
    BY <1>1 DEF Loose
  <2> QED  BY <1>1, <2>1, <2>2 DEF LooseOK
<1> QED  BY <1>1, <1>2, <1>3, <1>4 DEF Calling

LEMMA MakingKeeps ==
  ASSUME CallInv, sig = NoSig, Next, UNCHANGED callVars
  PROVE  CallInv'
<1>1. UNCHANGED <<sig, made, mem, stack, pool, kept>>
  BY DEF callVars
<1>2. LayoutInv'
  BY StepLayout DEF CallInv
<1>3. SigOK' /\ sig'.rcvr = {}
  <2>1. sig' = NoSig /\ sig'.in = <<>> /\ sig'.out = <<>> /\ sig'.rcvr = {}
    BY <1>1 DEF NoSig
  <2> QED  BY <2>1 DEF SigOK
<1>4. Calling(stack, mem, pool, kept)' /\ made' \in Nat /\ Idle'
  BY <1>1, NoCalls DEF Idle
<1> QED  BY <1>2, <1>3, <1>4 DEF CallInv

LEMMA ActualTypes ==
  ASSUME LayoutInv, NEW ts \in Seq(DOMAIN BasicTypes \cup {Newest}),
         Mentions(ts) => Len(types) \in DOMAIN types
  PROVE  Actual(ts) \in Seq(DOMAIN types)
<1>1. /\ DOMAIN ts = 1..Len(ts) /\ Len(ts) \in Nat
      /\ \A k \in 1..Len(ts) : ts[k] \in DOMAIN BasicTypes \cup {Newest}
  OBVIOUS
<1>2. ASSUME NEW k \in 1..Len(ts)
      PROVE  (IF ts[k] = Newest THEN Len(types) ELSE ts[k]) \in DOMAIN types
  BY <1>1, <1>2 DEF LayoutInv, Linked, Mentions
<1>3. Actual(ts) = [k \in 1..Len(ts) |-> IF ts[k] = Newest THEN Len(types) ELSE ts[k]]
  BY <1>1 DEF Actual
<1>4. Actual(ts) \in [1..Len(ts) -> DOMAIN types]
  BY <1>2, <1>3
<1> QED  BY <1>1, <1>4

LEMMA StartCallsKeeps ==
  ASSUME CallInv, UNCHANGED vars, StartCalls
  PROVE  CallInv'
<1>1. sig = NoSig /\ UNCHANGED <<made, mem, stack, pool, kept>> /\ LayoutInv
  BY DEF StartCalls, CallInv
<1>2. PICK s \in Shapes, R \in {{}} \cup {{r} : r \in Receivers} :
        /\ (Mentions(s.in) \/ Mentions(s.out)) = (Made = 1)
        /\ Made = 1 => Len(types) \in Usable
        /\ sig' = [in |-> Actual(s.in), out |-> Actual(s.out), rcvr |-> R, calls |-> s.calls]
  BY DEF StartCalls
<1>3. /\ s.in \in Seq(DOMAIN BasicTypes \cup {Newest})
      /\ s.out \in Seq(DOMAIN BasicTypes \cup {Newest})
  BY CallAssumption
<1>4. Mentions(s.in) \/ Mentions(s.out) => Len(types) \in DOMAIN types
  BY <1>2 DEF Usable
<1>5. Actual(s.in) \in Seq(DOMAIN types) /\ Actual(s.out) \in Seq(DOMAIN types)
  BY <1>1, <1>3, <1>4, ActualTypes
<1>6. types' = types
  BY DEF vars
<1>7. SigOK'
  BY <1>2, <1>5, <1>6 DEF SigOK
<1>8. (sig.rcvr = {} \/ \E r \in Receivers : sig.rcvr = {r})'
  BY <1>2
<1>9. LayoutInv'
  BY StepLayout DEF CallInv
<1>10. Calling(stack, mem, pool, kept)' /\ made' \in Nat /\ Idle'
  BY <1>1, NoCalls DEF Idle
<1> QED  BY <1>7, <1>8, <1>9, <1>10 DEF CallInv

LEMMA CallStepKeeps ==
  ASSUME CallInv, CallStep, UNCHANGED vars
  PROVE  CallInv'
<1>1. CASE StartCalls    BY <1>1, StartCallsKeeps
<1>2. CASE Enter         BY <1>2, EnterKeeps
<1>3. CASE Finish        BY <1>3, FinishKeeps
<1>4. CASE CodeReturn    BY <1>4, CodeReturnKeeps
<1>5. CASE Leave         BY <1>5, LeaveKeeps
<1>6. CASE Panic         BY <1>6, PanicKeeps
<1>7. CASE \E target \in Targets : Call(target) \/ ClientCall(target)
  BY <1>7, CallKeeps, ClientCallKeeps
<1>8. CASE Unpack        BY <1>8, UnpackKeeps
<1>9. CASE Pack          BY <1>9, PackKeeps
<1>10. CASE ReflectValid BY <1>10, ReflectValidKeeps
<1>11. CASE AddReceiver  BY <1>11, AddReceiverKeeps
<1>12. CASE CopyResults  BY <1>12, CopyResultsKeeps
<1>13. CASE MethodValid  BY <1>13, MethodValidKeeps
<1>14. CASE Release      BY <1>14, ReleaseKeeps
<1> QED  BY <1>1, <1>2, <1>3, <1>4, <1>5, <1>6, <1>7, <1>8, <1>9, <1>10, <1>11, <1>12,
            <1>13, <1>14 DEF CallStep

LEMMA InitCall ==
  ASSUME CallInit
  PROVE  CallInv
<1>1. LayoutInv
  BY InitLayout DEF CallInit
<1>2. /\ sig = NoSig /\ made = 0 /\ mem = <<>> /\ stack = <<>> /\ kept = {}
      /\ pool = [withRcvr \in BOOLEAN |-> {}]
  BY DEF CallInit
<1>3. SigOK /\ sig.rcvr = {} /\ Idle /\ made \in Nat
  BY <1>2 DEF SigOK, NoSig, Idle
<1>4. Calling(stack, mem, pool, kept)
  <2>1. MemOK(mem) /\ stack \in Seq(Activations) /\ DOMAIN stack = {}
    BY <1>2 DEF MemOK
  <2>2. LooseOK(mem, pool, kept)
    <3>1. DOMAIN pool = BOOLEAN /\ \A r \in BOOLEAN : pool[r] = {}
      BY <1>2
    <3>2. Loose(pool, kept) = {}
      BY <1>2, <3>1 DEF Loose
    <3> QED  BY <1>2, <3>1, <3>2 DEF LooseOK
  <2> QED  BY <2>1, <2>2 DEF Calling
<1> QED  BY <1>1, <1>3, <1>4 DEF CallInv

LEMMA CallInvKept ==
  ASSUME CallInv, [CallNext]_<<vars, callVars>>
  PROVE  CallInv'
<1>1. CASE sig = NoSig /\ Next /\ UNCHANGED callVars
  BY <1>1, MakingKeeps
<1>2. CASE CallStep /\ UNCHANGED vars
  BY <1>2, CallStepKeeps
<1>3. CASE UNCHANGED <<vars, callVars>>
  <2>1. UNCHANGED vars /\ UNCHANGED <<sig, made, mem, stack, pool, kept>>
    BY <1>3 DEF callVars
  <2>2. CASE sig = NoSig
    <3>1. LayoutInv'
      BY <2>1, StepLayout DEF CallInv
    <3>2. SigOK' /\ sig'.rcvr = {}
      <4>1. sig' = NoSig /\ sig'.in = <<>> /\ sig'.out = <<>> /\ sig'.rcvr = {}
        BY <2>1, <2>2 DEF NoSig
      <4> QED  BY <4>1 DEF SigOK
    <3>3. Calling(stack, mem, pool, kept)' /\ made' \in Nat /\ Idle'
      BY <2>1, <2>2, NoCalls DEF Idle
    <3> QED  BY <3>1, <3>2, <3>3 DEF CallInv
  <2>3. CASE sig # NoSig
    <3>1. Calling(stack', mem', pool', kept') /\ made' \in Nat /\ sig' = sig
      BY <2>1 DEF CallInv
    <3> QED  BY <2>1, <2>3, <3>1, CallStepInv
  <2> QED  BY <2>2, <2>3
<1> QED  BY <1>1, <1>2, <1>3 DEF CallNext

-----------------------------------------------------------------------------
(* The frames in a pool are zero, and no call and no Value refers to them: *)
(* GetFrom gives a frame that nobody else writes to, for functions of any  *)
(* types and however calls nest.                                           *)
THEOREM Pools == CallSpec => []PoolClean
<1>1. CallInv => PoolClean
  <2> SUFFICES ASSUME CallInv  PROVE PoolClean
    OBVIOUS
  <2> SUFFICES ASSUME NEW r \in BOOLEAN, NEW o \in pool[r]
               PROVE  /\ Bytes(o) = Blank(funcLayout(r).size)
                      /\ \A n \in DOMAIN stack : stack[n].heap # o
                      /\ \A v \in kept : v.obj # o
    BY DEF PoolClean
  <2>1. LooseOK(mem, pool, kept) /\ Calling(stack, mem, pool, kept) /\ LayoutInv /\ SigOK
    BY DEF CallInv, Calling
  <2>2. Bytes(o) = Blank(funcLayout(r).size)
    BY <2>1, FuncLayout DEF LooseOK, Bytes
  <2>3. o \in Loose(pool, kept) /\ o # 0
    <3>1. o \in Loose(pool, kept) /\ o \in DOMAIN mem /\ DOMAIN mem = 1..Len(mem)
      BY <2>1, MemFacts DEF Loose, LooseOK, Calling
    <3> QED  BY <3>1
  <2>4. ASSUME NEW n \in DOMAIN stack  PROVE stack[n].heap # o
    BY <2>1, <2>3 DEF Calling, Own
  <2>5. \A v \in kept : v.obj # o
    BY <2>1 DEF LooseOK
  <2> QED  BY <2>2, <2>4, <2>5
<1> QED  BY <1>1, InitCall, CallInvKept, PTL DEF CallSpec

(* Compiled code finds its receiver and its arguments, whatever types they *)
(* have, by Value.call, by callMethod, and through both.                   *)
THEOREM Arguments == CallSpec => []ArgumentsArrive
<1>1. CallInv => ArgumentsArrive
  <2> SUFFICES ASSUME CallInv, NEW n \in DOMAIN stack, stack[n].op = "code"
               PROVE  LET a == stack[n] IN
                      /\ \A i \in DOMAIN sig.in :
                           Has(Bytes(a.frame), a.id, "in", i, sig.in[i], CodeIn(HasRcvr(a)).offs[i])
                      /\ HasRcvr(a) => \A k \in 0..(PtrSize - 1), q \in sig.rcvr :
                                         Bytes(a.frame)[k] = Byte(a.id, RcvrWord(q), 0, k)
    BY DEF ArgumentsArrive
  <2>1. Holds(stack[n], mem)
    BY DEF CallInv, Calling
  <2>2. HasRcvr(stack[n]) = FrameRcvr(stack[n])
    BY DEF HasRcvr, FrameRcvr
  <2>3. InAt(Bytes(stack[n].frame), stack[n].id, FrameRcvr(stack[n]))
    BY <2>1 DEF Holds, FrameHolds, Callees, Bytes
  <2> QED  BY <2>2, <2>3 DEF InAt
<1> QED  BY <1>1, InitCall, CallInvKept, PTL DEF CallSpec

(* Values that a program was given stay what they were: neither a later    *)
(* call nor the end of one writes to what they refer to.                   *)
THEOREM GivenValues == CallSpec => []ValuesKept
<1>1. CallInv => ValuesKept
  BY DEF CallInv, Calling, LooseOK, ValuesKept, Bytes
<1> QED  BY <1>1, InitCall, CallInvKept, PTL DEF CallSpec

-----------------------------------------------------------------------------
(* What the collector is shown of a frame                                  *)

LEMMA PlacedAligned ==
  ASSUME NEW tys, LayoutsOK(tys), NEW from \in Nat
  PROVE  \A n \in 1..Len(tys) : Placed(from, tys).offs[n] % tys[n].align = 0
<1>1. PICK end : /\ Ends(from, tys, end)
                 /\ Placed(from, tys) =
                      [offs |-> [n \in 1..Len(tys) |-> Align(end[n - 1], tys[n].align)],
                       end  |-> end[Len(tys)]]
  BY PlacedDef
<1>2. ASSUME NEW n \in 1..Len(tys)  PROVE Placed(from, tys).offs[n] % tys[n].align = 0
  <2>1. Placed(from, tys).offs[n] = Align(end[n - 1], tys[n].align)
    BY <1>1
  <2>2. end[n - 1] \in Nat /\ tys[n].align \in Nat \ {0}
    BY <1>1 DEF Ends, LayoutsOK
  <2> QED  BY <2>1, <2>2, AlignMod
<1> QED  BY <1>2

(* The types of a function are the compiler's, or the one made last.       *)
Framed(ts) == \A k \in DOMAIN ts : ts[k] \in Usable \cup DOMAIN BasicTypes
SigFramed  == Framed(sig.in) /\ Framed(sig.out)

(* Where values that lie at offs have pointers, in words.                  *)
PlacedMarks(ts, offs) == UNION {Shift(MarksOf(types[ts[k]]), Words(offs[k])) : k \in DOMAIN ts}

FrameMarks(r) == (IF r THEN {0} ELSE {})
                 \cup PlacedMarks(sig.in, CodeIn(r).offs) \cup PlacedMarks(sig.out, CodeOut(r).offs)

LEMMA LayoutSlotsAre ==
  ASSUME MapInv, ~wrapped, NEW ts \in Seq(DOMAIN types), Framed(ts),
         NEW offs, NEW from, NEW to, InOrder(offs, Types(ts), from, to),
         \A k \in DOMAIN ts : offs[k] % types[ts[k]].align = 0
  PROVE  /\ LayoutSlots(ts, offs) \in Seq(PtrSlots)
         /\ SlotsInOrder(LayoutSlots(ts, offs), from, to)
         /\ SlotWords(LayoutSlots(ts, offs)) = PlacedMarks(ts, offs)
<1> DEFINE N == Len(ts)
           parts == [k \in 1..N |-> [typ |-> ts[k], offset |-> offs[k]]]
<1>1. /\ N \in Nat /\ DOMAIN ts = 1..N /\ Len(Types(ts)) = N
      /\ \A k \in 1..N : /\ ts[k] \in DOMAIN types /\ Types(ts)[k].size = types[ts[k]].size
                         /\ types[ts[k]].size \in Nat
  BY TypesFacts DEF MapInv, SizeOf
<1>2. /\ from \in Nat /\ to \in Nat
      /\ \A k \in 1..N :
           /\ offs[k] \in Nat /\ from <= offs[k] /\ offs[k] + types[ts[k]].size <= to
           /\ \A m \in 1..N : m > k => offs[k] + types[ts[k]].size <= offs[m]
  BY <1>1 DEF InOrder
<1>3. ASSUME NEW k \in 1..N  PROVE Fits(Slots[ts[k]], types[ts[k]])
  <2>1. ts[k] \in Usable \/ ts[k] \in DOMAIN BasicTypes
    BY <1>1 DEF Framed
  <2> QED  BY <2>1, SlotsFit, BasicFits
<1>4. ASSUME NEW k \in 1..N, types[ts[k]].ptrdata # 0  PROVE offs[k] % PtrSize = 0
  <2>1. types[ts[k]].align = PtrSize
    BY <1>1, <1>4 DEF MapInv, Maps, MapRules
  <2>2. offs[k] % types[ts[k]].align = 0
    BY <1>1
  <2> QED  BY <2>1, <2>2
<1>5. /\ DOMAIN parts = 1..N
      /\ \A k \in 1..N : parts[k].typ = ts[k] /\ parts[k].offset = offs[k]
  OBVIOUS
<1>6. IsList(parts)
  <2>1. parts \in Seq(Range(parts))
    <3>1. \A k \in 1..N : parts[k] \in Range(parts)
      BY <1>5 DEF Range
    <3>2. parts = [k \in 1..N |-> parts[k]]
      OBVIOUS
    <3> HIDE DEF parts
    <3>3. parts \in [1..N -> Range(parts)]
      BY <3>1, <3>2
    <3> QED  BY <1>1, <3>3
  <2> QED  BY <2>1 DEF IsList
<1>7. LayoutSlots(ts, offs) = FlattenSeq(SlotList(Slots, types, parts))
  <2>1. SlotList(Slots, types, parts) = [k \in 1..N |-> Shifted(Slots[ts[k]], offs[k])]
    BY <1>5 DEF SlotList
  <2> QED  BY <1>1, <2>1 DEF LayoutSlots
<1>8. PartMarks(types, parts) = PlacedMarks(ts, offs)
  <2>1. \A k \in 1..N : PartMark(types, parts[k]) = Shift(MarksOf(types[ts[k]]), Words(offs[k]))
    BY <1>5 DEF PartMark
  <2>2. {PartMark(types, parts[k]) : k \in 1..N}
          = {Shift(MarksOf(types[ts[k]]), Words(offs[k])) : k \in 1..N}
    BY <2>1
  <2> QED  BY <1>1, <1>5, <2>2 DEF PartMarks, PlacedMarks
<1> HIDE DEF parts
<1>9. Apart(types, parts, to)
  BY <1>2, <1>5 DEF Apart
<1>10. \A n \in DOMAIN parts : /\ parts[n].offset \in Nat /\ from <= parts[n].offset
                               /\ types[parts[n].typ].size \in Nat
                               /\ Fits(Slots[parts[n].typ], types[parts[n].typ])
                               /\ types[parts[n].typ].ptrdata # 0 => parts[n].offset % PtrSize = 0
  BY <1>1, <1>2, <1>3, <1>4, <1>5
<1>11. from \in Nat /\ to \in Nat
  BY <1>2
<1>12. /\ FlattenSeq(SlotList(Slots, types, parts)) \in Seq(PtrSlots)
       /\ SlotsInOrder(FlattenSeq(SlotList(Slots, types, parts)), from, to)
       /\ SlotWords(FlattenSeq(SlotList(Slots, types, parts))) = PartMarks(types, parts)
  BY ONLY <1>6, <1>9, <1>10, <1>11, PartSlots
<1> QED  BY <1>7, <1>8, <1>12

LEMMA FrameAligned ==
  ASSUME LayoutInv, SigOK, NEW r \in BOOLEAN
  PROVE  /\ \A k \in DOMAIN sig.in : CodeIn(r).offs[k] % types[sig.in[k]].align = 0
         /\ \A k \in DOMAIN sig.out : CodeOut(r).offs[k] % types[sig.out[k]].align = 0
<1>1. /\ LayoutsOK(Types(sig.in)) /\ DOMAIN sig.in = 1..Len(Types(sig.in))
      /\ \A k \in DOMAIN sig.in : Types(sig.in)[k] = types[sig.in[k]]
  BY TypesFacts DEF SigOK
<1>2. /\ LayoutsOK(Types(sig.out)) /\ DOMAIN sig.out = 1..Len(Types(sig.out))
      /\ \A k \in DOMAIN sig.out : Types(sig.out)[k] = types[sig.out[k]]
  BY TypesFacts DEF SigOK
<1>3. Base(r) \in Nat /\ RetOffset(r) \in Nat
  BY FrameFacts
<1>4. /\ CodeIn(r) = Placed(Base(r), Types(sig.in))
      /\ CodeOut(r) = Placed(RetOffset(r), Types(sig.out))
  BY DEF CodeIn, CodeOut, Base, RetOffset
<1>5. \A k \in DOMAIN sig.in : CodeIn(r).offs[k] % types[sig.in[k]].align = 0
  BY <1>1, <1>3, <1>4, PlacedAligned
<1>6. \A k \in DOMAIN sig.out : CodeOut(r).offs[k] % types[sig.out[k]].align = 0
  BY <1>2, <1>3, <1>4, PlacedAligned
<1> QED  BY <1>5, <1>6

(* funcLayout marks the receiver and the pointers of the arguments and of  *)
(* the results.                                                            *)
LEMMA FrameMapIs ==
  ASSUME MapInv, ~wrapped, SigOK, SigFramed, NEW r \in BOOLEAN
  PROVE  FrameMap(r) = FrameMarks(r)
<1> DEFINE a == LayoutSlots(sig.in, CodeIn(r).offs)
           b == LayoutSlots(sig.out, CodeOut(r).offs)
           s == a \o b
           v == IF r THEN <<1>> ELSE <<>>
           M == IF r THEN {0} ELSE {}
           n == IF r THEN 1 ELSE 0
           x == Base(r)
           y == CodeIn(r).end
           w == RetOffset(r)
           z == CodeOut(r).end
           A == PlacedMarks(sig.in, CodeIn(r).offs)
           B == PlacedMarks(sig.out, CodeOut(r).offs)
<1>1. /\ InOrder(CodeIn(r).offs, Types(sig.in), x, y) /\ InOrder(CodeOut(r).offs, Types(sig.out), w, z)
      /\ x \in Nat /\ y \in Nat /\ w \in Nat /\ z \in Nat /\ x <= y /\ y <= w /\ w <= z
      /\ LayoutInv
  BY FrameFacts DEF InOrder, MapInv
<1>2. /\ \A k \in DOMAIN sig.in : CodeIn(r).offs[k] % types[sig.in[k]].align = 0
      /\ \A k \in DOMAIN sig.out : CodeOut(r).offs[k] % types[sig.out[k]].align = 0
  BY <1>1, FrameAligned
<1>3. a \in Seq(PtrSlots) /\ SlotsInOrder(a, x, y) /\ SlotWords(a) = A
  BY <1>1, <1>2, LayoutSlotsAre DEF SigOK, SigFramed
<1>4. b \in Seq(PtrSlots) /\ SlotsInOrder(b, w, z) /\ SlotWords(b) = B
  BY <1>1, <1>2, LayoutSlotsAre DEF SigOK, SigFramed
<1>5. BitsAre(v, M, n) /\ n \in Nat /\ PtrSize * n <= x
  <2>1. BitsOf({}, 0) = <<>> /\ BitsOf({0}, 1) = <<1>>
    BY DEF BitsOf
  <2>2. BitsAre(<<>>, {}, 0) /\ BitsAre(<<1>>, {0}, 1)
    BY <2>1 DEF BitsAre
  <2>3. PtrSize * 0 = 0 /\ PtrSize * 1 = PtrSize
    BY LayoutAssumption
  <2>4. (v = <<1>> /\ M = {0} /\ n = 1 /\ x = PtrSize) \/ (v = <<>> /\ M = {} /\ n = 0 /\ x = 0)
    BY DEF Base
  <2>5. PtrSize \in Nat
    BY LayoutAssumption
  <2> HIDE DEF v, M, n, x
  <2>6. BitsAre(v, M, n)
    BY ONLY <2>2, <2>4, Zenon
  <2>8. n \in Nat
    BY <2>4
  <2>7. PtrSize * n = x /\ x \in Nat
    BY <2>3, <2>4, <2>5
  <2> QED  BY <2>6, <2>7, <2>8
<1>6. FrameMap(r) = Ones(AddedBits(v, s))
  BY DEF FrameMap, funcLayout, CodeIn, CodeOut
<1> HIDE DEF a, b, v, M, n, x, y, w, z, A, B
<1>7. x <= w /\ y <= w /\ y <= z /\ x <= z
  BY <1>1
<1>8. s \in Seq(PtrSlots) /\ SlotsInOrder(s, x, z) /\ SlotWords(s) = A \cup B
  BY <1>1, <1>3, <1>4, <1>7, SlotsConcat
<1> HIDE DEF s
<1>9. PICK m \in Nat : BitsAre(AddedBits(v, s), M \cup SlotWords(s), m)
  BY <1>1, <1>5, <1>7, <1>8, AddedBitsMap
<1>10. Ones(AddedBits(v, s)) = M \cup SlotWords(s)
  BY <1>9, BitsAreFacts
<1> QED  BY <1>6, <1>8, <1>10 DEF M, A, B, FrameMarks
-----------------------------------------------------------------------------
(* The bytes that the collector takes for pointers                         *)

Marking == MapInv /\ LayoutInv /\ ~wrapped /\ SigOK /\ SigFramed

(* Where a value of a type has pointers, by the marks of the type.         *)
PtrsOf(t) == BytesOf(MarksOf(types[t]))

MarkBytes(id, what, ts) ==
  UNION {{Byte(id, what, i, o) : o \in PtrsOf(ts[i])} : i \in DOMAIN ts}

LEMMA PtrsFacts ==
  ASSUME Marking, NEW t \in DOMAIN types
  PROVE  /\ PtrOffsets[t] = PtrsOf(t) /\ SizeOf(t) \in Nat
         /\ \A o \in PtrsOf(t) : o \in 0..(SizeOf(t) - 1) /\ o + PtrSize <= SizeOf(t)
<1> DEFINE ty == types[t]
           W == Words(ty.ptrdata)
<1>1. MapRules(ty) /\ ty.size \in Nat /\ SizeOf(t) = ty.size /\ PtrSize \in Nat \ {0}
  BY LayoutAssumption DEF Marking, MapInv, Maps, LayoutInv, Inv, TypeOK, SizeOf
<1>2. PtrOffsets[t] = PtrsOf(t)
  BY OffsetsAre DEF Marking, PtrsOf
<1>3. /\ ty.ptrdata \in Nat /\ ty.ptrdata <= ty.size /\ W \in Nat /\ ty.ptrdata = PtrSize * W
      /\ MarksOf(ty) \subseteq 0..(W - 1)
  BY <1>1, WordsFacts DEF MapRules
<1> HIDE DEF W
<1>4. ASSUME NEW j \in MarksOf(ty)
      PROVE  j * PtrSize \in Nat /\ j * PtrSize + PtrSize <= ty.size
  <2>1. j \in Nat /\ j + 1 <= W
    BY <1>3
  <2>2. (j + 1) * PtrSize <= W * PtrSize
    BY <1>1, <1>3, <2>1
  <2>3. j * PtrSize + PtrSize = (j + 1) * PtrSize /\ j * PtrSize \in Nat /\ W * PtrSize = ty.ptrdata
    BY <1>1, <1>3, <2>1
  <2> QED  BY <1>1, <1>3, <2>2, <2>3
<1>5. ASSUME NEW o \in PtrsOf(t)  PROVE o \in 0..(SizeOf(t) - 1) /\ o + PtrSize <= SizeOf(t)
  <2>1. PICK j \in MarksOf(ty) : o = j * PtrSize
    BY DEF PtrsOf, BytesOf
  <2>2. o \in Nat /\ o + PtrSize <= ty.size
    BY <1>4, <2>1
  <2> QED  BY <1>1, <2>2
<1> QED  BY <1>1, <1>2, <1>5

LEMMA PlacedWords ==
  ASSUME Marking, NEW ts \in Seq(DOMAIN types), NEW offs,
         \A k \in DOMAIN ts : offs[k] \in Nat /\ offs[k] % types[ts[k]].align = 0
  PROVE  /\ \A w \in PlacedMarks(ts, offs) :
              w \in Nat /\ \E i \in DOMAIN ts : \E o \in PtrsOf(ts[i]) : w * PtrSize = offs[i] + o
         /\ \A i \in DOMAIN ts : \A o \in PtrsOf(ts[i]) :
              \E w \in PlacedMarks(ts, offs) : w * PtrSize = offs[i] + o
<1>1. \A i \in DOMAIN ts : ts[i] \in DOMAIN types
  BY SeqElements
<1> DEFINE Here(i) == Shift(MarksOf(types[ts[i]]), Words(offs[i]))
<1>2. PlacedMarks(ts, offs) = UNION {Here(i) : i \in DOMAIN ts}
  BY DEF PlacedMarks
<1>3. ASSUME NEW i \in DOMAIN ts
      PROVE  Here(i) \subseteq Nat /\ BytesOf(Here(i)) = {offs[i] + o : o \in PtrsOf(ts[i])}
  <2> DEFINE ty == types[ts[i]]
             M == MarksOf(ty)
             n == Words(ty.ptrdata)
             by == offs[i]
  <2>1. MapRules(ty)
    BY <1>1 DEF Marking, MapInv, Maps
  <2>2. M \in SUBSET (0..(n - 1)) /\ n \in Nat /\ (M # {} => ty.align = PtrSize)
    <3>1. n \in Nat /\ M \subseteq 0..(n - 1)
      BY <2>1, WordsFacts DEF MapRules
    <3>2. M # {} => ty.ptrdata # 0
      BY <2>1, NoMarks
    <3> QED  BY <2>1, <3>1, <3>2 DEF MapRules
  <2>3. by \in Nat /\ (M # {} => by % PtrSize = 0)
    BY <2>2
  <2> HIDE DEF n, by, ty
  <2>4. {by + o : o \in BytesOf(M)} = BytesOf(Shift(M, Words(by)))
    BY <2>2, <2>3, ShiftBytes
  <2>5. Shift(M, Words(by)) \subseteq Nat
    <3>1. M # {} => Words(by) \in Nat
      BY <2>3, WordsFacts
    <3> QED  BY <2>2, <3>1 DEF Shift
  <2> QED  BY <2>4, <2>5 DEF by, ty, PtrsOf
<1> HIDE DEF Here
<1>4. ASSUME NEW w \in PlacedMarks(ts, offs)
      PROVE  w \in Nat /\ \E i \in DOMAIN ts : \E o \in PtrsOf(ts[i]) : w * PtrSize = offs[i] + o
  <2>1. PICK i \in DOMAIN ts : w \in Here(i)
    BY <1>2
  <2>2. w * PtrSize \in BytesOf(Here(i))
    BY <2>1 DEF BytesOf
  <2> QED  BY <1>3, <2>1, <2>2
<1>5. ASSUME NEW i \in DOMAIN ts, NEW o \in PtrsOf(ts[i])
      PROVE  \E w \in PlacedMarks(ts, offs) : w * PtrSize = offs[i] + o
  <2>1. offs[i] + o \in BytesOf(Here(i))
    BY <1>3
  <2>2. PICK w \in Here(i) : offs[i] + o = w * PtrSize
    BY <2>1 DEF BytesOf
  <2> QED  BY <1>2, <2>2
<1> QED  BY <1>4, <1>5

(* Arguments are in front of the results, the receiver in front of them.   *)
LEMMA FrameWords ==
  ASSUME Marking, NEW r \in BOOLEAN
  PROVE  /\ \A w \in FrameMarks(r) :
              /\ w \in Nat
              /\ \/ r /\ w = 0
                 \/ \E i \in DOMAIN sig.in : \E o \in PtrsOf(sig.in[i]) : w * PtrSize = CodeIn(r).offs[i] + o
                 \/ \E i \in DOMAIN sig.out : \E o \in PtrsOf(sig.out[i]) : w * PtrSize = CodeOut(r).offs[i] + o
         /\ r => 0 \in FrameMarks(r) /\ 0 * PtrSize = 0 /\ PtrSize <= RetOffset(r)
         /\ \A i \in DOMAIN sig.in : \A o \in PtrsOf(sig.in[i]) :
              /\ \E w \in FrameMarks(r) : w * PtrSize = CodeIn(r).offs[i] + o
              /\ CodeIn(r).offs[i] + o + PtrSize <= CodeIn(r).end
              /\ CodeIn(r).offs[i] + o < RetOffset(r) /\ CodeIn(r).offs[i] \in Nat
              /\ o \in 0..(SizeOf(sig.in[i]) - 1)
         /\ \A i \in DOMAIN sig.out : \A o \in PtrsOf(sig.out[i]) :
              /\ \E w \in FrameMarks(r) : w * PtrSize = CodeOut(r).offs[i] + o
              /\ CodeOut(r).offs[i] + o >= RetOffset(r)
              /\ CodeOut(r).offs[i] + o < CodeSize(r) /\ CodeOut(r).offs[i] \in Nat
              /\ o \in 0..(SizeOf(sig.out[i]) - 1)
         /\ RetOffset(r) \in Nat /\ CodeSize(r) \in Nat /\ CodeIn(r).end \in Nat
         /\ CodeIn(r).end <= RetOffset(r) /\ PtrSize \in Nat \ {0}
<1>1. /\ LayoutInv /\ SigOK /\ PtrSize \in Nat \ {0}
      /\ sig.in \in Seq(DOMAIN types) /\ sig.out \in Seq(DOMAIN types)
      /\ \A i \in DOMAIN sig.in : sig.in[i] \in DOMAIN types
      /\ \A i \in DOMAIN sig.out : sig.out[i] \in DOMAIN types
  <2>1. LayoutInv /\ sig.in \in Seq(DOMAIN types) /\ sig.out \in Seq(DOMAIN types) /\ SigOK
    BY DEF Marking, SigOK
  <2> QED  BY <2>1, SeqElements, LayoutAssumption
<1>2. /\ InOrder(CodeIn(r).offs, Types(sig.in), Base(r), CodeIn(r).end)
      /\ InOrder(CodeOut(r).offs, Types(sig.out), RetOffset(r), CodeOut(r).end)
      /\ CodeIn(r).end <= RetOffset(r) /\ CodeOut(r).end <= CodeSize(r)
      /\ RetOffset(r) \in Nat /\ CodeSize(r) \in Nat /\ Base(r) \in Nat
  BY <1>1, FrameFacts
<1>3. /\ \A i \in DOMAIN sig.in :
           /\ CodeIn(r).offs[i] \in Nat /\ CodeIn(r).offs[i] + SizeOf(sig.in[i]) <= CodeIn(r).end
           /\ CodeIn(r).offs[i] % types[sig.in[i]].align = 0
      /\ CodeIn(r).end \in Nat /\ Base(r) <= CodeIn(r).end
  <2>1. DOMAIN sig.in = 1..Len(Types(sig.in)) /\ \A i \in DOMAIN sig.in : Types(sig.in)[i].size = SizeOf(sig.in[i])
    BY <1>1, TypesFacts
  <2> QED  BY <1>1, <1>2, <2>1, FrameAligned DEF InOrder
<1>4. /\ \A i \in DOMAIN sig.out :
           /\ CodeOut(r).offs[i] \in Nat /\ CodeOut(r).offs[i] + SizeOf(sig.out[i]) <= CodeOut(r).end
           /\ RetOffset(r) <= CodeOut(r).offs[i]
           /\ CodeOut(r).offs[i] % types[sig.out[i]].align = 0
      /\ CodeOut(r).end \in Nat
  <2>1. DOMAIN sig.out = 1..Len(Types(sig.out)) /\ \A i \in DOMAIN sig.out : Types(sig.out)[i].size = SizeOf(sig.out[i])
    BY <1>1, TypesFacts
  <2> QED  BY <1>1, <1>2, <2>1, FrameAligned DEF InOrder
<1> DEFINE A == PlacedMarks(sig.in, CodeIn(r).offs)
           B == PlacedMarks(sig.out, CodeOut(r).offs)
<1>5. /\ \A w \in A : w \in Nat /\ \E i \in DOMAIN sig.in : \E o \in PtrsOf(sig.in[i]) : w * PtrSize = CodeIn(r).offs[i] + o
      /\ \A i \in DOMAIN sig.in : \A o \in PtrsOf(sig.in[i]) : \E w \in A : w * PtrSize = CodeIn(r).offs[i] + o
  <2> DEFINE offs == CodeIn(r).offs
             ts == sig.in
  <2>1. Marking /\ ts \in Seq(DOMAIN types) /\ \A k \in DOMAIN ts : offs[k] \in Nat /\ offs[k] % types[ts[k]].align = 0
    BY <1>1, <1>3
  <2>2. A = PlacedMarks(ts, offs)
    OBVIOUS
  <2> HIDE DEF offs, ts, A
  <2>3. /\ \A w \in A : w \in Nat /\ \E i \in DOMAIN ts : \E o \in PtrsOf(ts[i]) : w * PtrSize = offs[i] + o
        /\ \A i \in DOMAIN ts : \A o \in PtrsOf(ts[i]) : \E w \in A : w * PtrSize = offs[i] + o
    BY ONLY <2>1, <2>2, PlacedWords
  <2> QED  BY <2>3 DEF offs, ts
<1>6. /\ \A w \in B : w \in Nat /\ \E i \in DOMAIN sig.out : \E o \in PtrsOf(sig.out[i]) : w * PtrSize = CodeOut(r).offs[i] + o
      /\ \A i \in DOMAIN sig.out : \A o \in PtrsOf(sig.out[i]) : \E w \in B : w * PtrSize = CodeOut(r).offs[i] + o
  <2> DEFINE offs == CodeOut(r).offs
             ts == sig.out
  <2>1. Marking /\ ts \in Seq(DOMAIN types) /\ \A k \in DOMAIN ts : offs[k] \in Nat /\ offs[k] % types[ts[k]].align = 0
    BY <1>1, <1>4
  <2>2. B = PlacedMarks(ts, offs)
    OBVIOUS
  <2> HIDE DEF offs, ts, B
  <2>3. /\ \A w \in B : w \in Nat /\ \E i \in DOMAIN ts : \E o \in PtrsOf(ts[i]) : w * PtrSize = offs[i] + o
        /\ \A i \in DOMAIN ts : \A o \in PtrsOf(ts[i]) : \E w \in B : w * PtrSize = offs[i] + o
    BY ONLY <2>1, <2>2, PlacedWords
  <2> QED  BY <2>3 DEF offs, ts
<1>7. FrameMarks(r) = (IF r THEN {0} ELSE {}) \cup A \cup B
  BY DEF FrameMarks
<1> HIDE DEF A, B
<1>8. r => 0 \in FrameMarks(r) /\ 0 * PtrSize = 0 /\ PtrSize <= RetOffset(r)
  <2>1. r => Base(r) = PtrSize
    BY DEF Base
  <2>2. 0 * PtrSize = 0
    BY <1>1
  <2>3. r => 0 \in FrameMarks(r)
    BY <1>7
  <2> DEFINE base == Base(r)
             end == CodeIn(r).end
             ret == RetOffset(r)
  <2>4. base \in Nat /\ end \in Nat /\ ret \in Nat /\ base <= end /\ end <= ret /\ PtrSize \in Nat
    BY <1>1, <1>2, <1>3
  <2> HIDE DEF base, end, ret
  <2>5. base = PtrSize => PtrSize <= ret
    BY ONLY <2>4
  <2> QED  BY <2>1, <2>2, <2>3, <2>5, Zenon DEF base, ret
<1>9. ASSUME NEW i \in DOMAIN sig.in, NEW o \in PtrsOf(sig.in[i])
      PROVE  /\ \E w \in FrameMarks(r) : w * PtrSize = CodeIn(r).offs[i] + o
             /\ CodeIn(r).offs[i] + o + PtrSize <= CodeIn(r).end
             /\ CodeIn(r).offs[i] + o < RetOffset(r) /\ CodeIn(r).offs[i] \in Nat
             /\ o \in 0..(SizeOf(sig.in[i]) - 1)
  <2>1. o \in 0..(SizeOf(sig.in[i]) - 1) /\ o + PtrSize <= SizeOf(sig.in[i]) /\ SizeOf(sig.in[i]) \in Nat
    BY <1>1, PtrsFacts
  <2>2. \E w \in FrameMarks(r) : w * PtrSize = CodeIn(r).offs[i] + o
    BY <1>5, <1>7
  <2> DEFINE x == CodeIn(r).offs[i]
             s == SizeOf(sig.in[i])
             end == CodeIn(r).end
             ret == RetOffset(r)
  <2>3. /\ x \in Nat /\ x + s <= end /\ end \in Nat /\ end <= ret /\ ret \in Nat
        /\ o \in 0..(s - 1) /\ o + PtrSize <= s /\ s \in Nat /\ PtrSize \in Nat \ {0}
    BY <1>1, <1>2, <1>3, <2>1
  <2> HIDE DEF x, s, end, ret
  <2>4. x + o + PtrSize <= end /\ x + o < ret
    BY ONLY <2>3
  <2> QED  BY <2>1, <2>2, <2>3, <2>4 DEF x, s, end, ret
<1>10. ASSUME NEW i \in DOMAIN sig.out, NEW o \in PtrsOf(sig.out[i])
       PROVE  /\ \E w \in FrameMarks(r) : w * PtrSize = CodeOut(r).offs[i] + o
              /\ CodeOut(r).offs[i] + o >= RetOffset(r)
              /\ CodeOut(r).offs[i] + o < CodeSize(r) /\ CodeOut(r).offs[i] \in Nat
              /\ o \in 0..(SizeOf(sig.out[i]) - 1)
  <2>1. o \in 0..(SizeOf(sig.out[i]) - 1) /\ o + PtrSize <= SizeOf(sig.out[i]) /\ SizeOf(sig.out[i]) \in Nat
    BY <1>1, PtrsFacts
  <2>2. \E w \in FrameMarks(r) : w * PtrSize = CodeOut(r).offs[i] + o
    BY <1>6, <1>7
  <2> DEFINE x == CodeOut(r).offs[i]
             s == SizeOf(sig.out[i])
             end == CodeOut(r).end
             ret == RetOffset(r)
             room == CodeSize(r)
  <2>3. /\ x \in Nat /\ x + s <= end /\ end \in Nat /\ end <= room /\ room \in Nat
        /\ ret <= x /\ ret \in Nat /\ o \in 0..(s - 1) /\ s \in Nat
    BY <1>2, <1>4, <2>1
  <2> HIDE DEF x, s, end, ret, room
  <2>4. x + o >= ret /\ x + o < room
    BY ONLY <2>3
  <2> QED  BY <2>1, <2>2, <2>3, <2>4 DEF x, s, end, ret, room
<1>11. ASSUME NEW w \in FrameMarks(r)
       PROVE  /\ w \in Nat
              /\ \/ r /\ w = 0
                 \/ \E i \in DOMAIN sig.in : \E o \in PtrsOf(sig.in[i]) : w * PtrSize = CodeIn(r).offs[i] + o
                 \/ \E i \in DOMAIN sig.out : \E o \in PtrsOf(sig.out[i]) : w * PtrSize = CodeOut(r).offs[i] + o
  <2>1. (r /\ w = 0) \/ w \in A \/ w \in B
    BY <1>7
  <2> QED  BY <1>5, <1>6, <2>1
<1> QED  BY <1>1, <1>2, <1>3, <1>8, <1>9, <1>10, <1>11, Zenon

(* A word in front of the results is the receiver's or an argument's.      *)
LEMMA SeenIn ==
  ASSUME Marking, NEW r \in BOOLEAN, r => sig.rcvr # {}, NEW b, NEW id, InAt(b, id, r),
         NEW w \in FrameMarks(r), w * PtrSize < RetOffset(r)
  PROVE  b[w * PtrSize] \in MarkBytes(id, "in", sig.in) \cup Receiver(id)
<1>1. CASE r /\ w = 0
  <2>1. PICK q \in sig.rcvr : TRUE
    BY <1>1
  <2>2. 0 * PtrSize = 0 /\ 0 \in 0..(PtrSize - 1)
    BY LayoutAssumption
  <2>3. b[0] = Byte(id, RcvrWord(q), 0, 0)
    BY <1>1, <2>1, <2>2 DEF InAt
  <2> QED  BY <1>1, <2>1, <2>2, <2>3 DEF Receiver
<1>2. ASSUME NEW i \in DOMAIN sig.in, NEW o \in PtrsOf(sig.in[i]), w * PtrSize = CodeIn(r).offs[i] + o
      PROVE  b[w * PtrSize] \in MarkBytes(id, "in", sig.in)
  <2>1. Has(b, id, "in", i, sig.in[i], CodeIn(r).offs[i])
    BY DEF InAt
  <2>2. o \in 0..(SizeOf(sig.in[i]) - 1)
    BY FrameWords
  <2>3. b[CodeIn(r).offs[i] + o] = Byte(id, "in", i, o)
    BY <2>1, <2>2 DEF Has
  <2> QED  BY <1>2, <2>3 DEF MarkBytes
<1>3. ASSUME NEW i \in DOMAIN sig.out, NEW o \in PtrsOf(sig.out[i]), w * PtrSize = CodeOut(r).offs[i] + o
      PROVE  FALSE
  <2>1. CodeOut(r).offs[i] + o >= RetOffset(r) /\ CodeOut(r).offs[i] \in Nat /\ RetOffset(r) \in Nat
        /\ o \in Int
    BY FrameWords
  <2> QED  BY <1>3, <2>1
<1>4. \/ r /\ w = 0
      \/ \E i \in DOMAIN sig.in : \E o \in PtrsOf(sig.in[i]) : w * PtrSize = CodeIn(r).offs[i] + o
      \/ \E i \in DOMAIN sig.out : \E o \in PtrsOf(sig.out[i]) : w * PtrSize = CodeOut(r).offs[i] + o
  BY FrameWords
<1> QED  BY <1>1, <1>2, <1>3, <1>4, Zenon

LEMMA SeenOut ==
  ASSUME Marking, NEW r \in BOOLEAN, NEW b, NEW id, OutAt(b, id, r),
         NEW w \in FrameMarks(r), w * PtrSize >= RetOffset(r)
  PROVE  b[w * PtrSize] \in MarkBytes(id, "out", sig.out)
<1>1. ~(r /\ w = 0)
  <2> SUFFICES ASSUME r, w = 0  PROVE FALSE
    OBVIOUS
  <2>1. 0 * PtrSize = 0 /\ PtrSize <= RetOffset(r) /\ PtrSize \in Nat \ {0} /\ RetOffset(r) \in Nat
    BY FrameWords
  <2> DEFINE ret == RetOffset(r)
  <2>2. 0 * PtrSize = 0 /\ PtrSize <= ret /\ PtrSize \in Nat \ {0} /\ ret \in Nat /\ 0 * PtrSize >= ret
    BY <2>1
  <2> HIDE DEF ret
  <2> QED  BY ONLY <2>2
<1>2. ASSUME NEW i \in DOMAIN sig.in, NEW o \in PtrsOf(sig.in[i]), w * PtrSize = CodeIn(r).offs[i] + o
      PROVE  FALSE
  <2>1. CodeIn(r).offs[i] + o < RetOffset(r) /\ CodeIn(r).offs[i] \in Nat /\ RetOffset(r) \in Nat
        /\ o \in Int
    BY FrameWords
  <2> QED  BY <1>2, <2>1
<1>3. ASSUME NEW i \in DOMAIN sig.out, NEW o \in PtrsOf(sig.out[i]), w * PtrSize = CodeOut(r).offs[i] + o
      PROVE  b[w * PtrSize] \in MarkBytes(id, "out", sig.out)
  <2>1. Has(b, id, "out", i, sig.out[i], CodeOut(r).offs[i])
    BY DEF OutAt
  <2>2. o \in 0..(SizeOf(sig.out[i]) - 1)
    BY FrameWords
  <2>3. b[CodeOut(r).offs[i] + o] = Byte(id, "out", i, o)
    BY <2>1, <2>2 DEF Has
  <2> QED  BY <1>3, <2>3 DEF MarkBytes
<1>4. \/ r /\ w = 0
      \/ \E i \in DOMAIN sig.in : \E o \in PtrsOf(sig.in[i]) : w * PtrSize = CodeIn(r).offs[i] + o
      \/ \E i \in DOMAIN sig.out : \E o \in PtrsOf(sig.out[i]) : w * PtrSize = CodeOut(r).offs[i] + o
  BY FrameWords
<1> QED  BY <1>1, <1>2, <1>3, <1>4, Zenon
-----------------------------------------------------------------------------
(* What a frame shows of a call                                            *)

Known(id)  == MarkBytes(id, "in", sig.in) \cup MarkBytes(id, "out", sig.out) \cup Receiver(id)
Allowed(n) == {Nothing} \cup UNION {Known(id) : id \in 1..n}

(* What the collector takes for pointers in bytes b.                       *)
Shown(b, map)    == {b[w * PtrSize] : w \in map}
Clean(b, map, n) == \A w \in map : b[w * PtrSize] \in Allowed(n)
RcvrOf(id, r)    == IF r THEN Receiver(id) ELSE {}

LEMMA KnownAllowed ==
  ASSUME NEW n \in Nat, NEW id \in 1..n
  PROVE  /\ MarkBytes(id, "in", sig.in) \cup Receiver(id) \subseteq Allowed(n)
         /\ MarkBytes(id, "out", sig.out) \subseteq Allowed(n)
BY DEF Allowed, Known

LEMMA AllowedGrows ==
  ASSUME NEW n \in Nat, NEW n2 \in Nat, n <= n2
  PROVE  Allowed(n) \subseteq Allowed(n2)
BY DEF Allowed

LEMMA MarkedIn ==
  ASSUME Marking, NEW r \in BOOLEAN, NEW b, NEW id, InAt(b, id, r)
  PROVE  MarkBytes(id, "in", sig.in) \cup RcvrOf(id, r)
           \subseteq Shown(b, {w \in FrameMarks(r) : w * PtrSize < RetOffset(r)})
<1> DEFINE M == {w \in FrameMarks(r) : w * PtrSize < RetOffset(r)}
<1>1. ASSUME NEW i \in DOMAIN sig.in, NEW o \in PtrsOf(sig.in[i])
      PROVE  Byte(id, "in", i, o) \in Shown(b, M)
  <2>1. Has(b, id, "in", i, sig.in[i], CodeIn(r).offs[i])
    BY DEF InAt
  <2>2. /\ o \in 0..(SizeOf(sig.in[i]) - 1) /\ CodeIn(r).offs[i] + o < RetOffset(r)
        /\ \E w \in FrameMarks(r) : w * PtrSize = CodeIn(r).offs[i] + o
    BY FrameWords
  <2>3. b[CodeIn(r).offs[i] + o] = Byte(id, "in", i, o)
    BY <2>1, <2>2 DEF Has
  <2>4. PICK w \in FrameMarks(r) : w * PtrSize = CodeIn(r).offs[i] + o
    BY <2>2
  <2>5. w \in M /\ b[w * PtrSize] = Byte(id, "in", i, o)
    BY <2>2, <2>3, <2>4
  <2> QED  BY <2>5 DEF Shown
<1>2. ASSUME r, NEW q \in sig.rcvr
      PROVE  Byte(id, RcvrWord(q), 0, 0) \in Shown(b, M)
  <2>1. 0 \in FrameMarks(r) /\ 0 * PtrSize = 0 /\ PtrSize <= RetOffset(r)
        /\ PtrSize \in Nat \ {0} /\ RetOffset(r) \in Nat
    BY <1>2, FrameWords
  <2>2. 0 \in 0..(PtrSize - 1)
    BY <2>1
  <2>3. b[0] = Byte(id, RcvrWord(q), 0, 0)
    BY <1>2, <2>2 DEF InAt
  <2> DEFINE ret == RetOffset(r)
  <2>4. ret \in Nat /\ PtrSize <= ret /\ PtrSize \in Nat \ {0} /\ 0 * PtrSize = 0
    BY <2>1
  <2> HIDE DEF ret
  <2>5. 0 * PtrSize < ret
    BY ONLY <2>4
  <2>6. 0 \in M
    BY <2>1, <2>5 DEF ret
  <2> QED  BY <2>1, <2>3, <2>6 DEF Shown
<1> HIDE DEF M
<1>3. MarkBytes(id, "in", sig.in) \subseteq Shown(b, M)
  BY <1>1 DEF MarkBytes
<1>4. RcvrOf(id, r) \subseteq Shown(b, M)
  BY <1>2 DEF RcvrOf, Receiver
<1> QED  BY <1>3, <1>4 DEF M

LEMMA MarkedOut ==
  ASSUME Marking, NEW r \in BOOLEAN, NEW b, NEW id, OutAt(b, id, r)
  PROVE  MarkBytes(id, "out", sig.out) \subseteq Shown(b, FrameMarks(r))
<1>1. ASSUME NEW i \in DOMAIN sig.out, NEW o \in PtrsOf(sig.out[i])
      PROVE  Byte(id, "out", i, o) \in Shown(b, FrameMarks(r))
  <2>1. Has(b, id, "out", i, sig.out[i], CodeOut(r).offs[i])
    BY DEF OutAt
  <2>2. /\ o \in 0..(SizeOf(sig.out[i]) - 1)
        /\ \E w \in FrameMarks(r) : w * PtrSize = CodeOut(r).offs[i] + o
    BY FrameWords
  <2>3. b[CodeOut(r).offs[i] + o] = Byte(id, "out", i, o)
    BY <2>1, <2>2 DEF Has
  <2>4. PICK w \in FrameMarks(r) : w * PtrSize = CodeOut(r).offs[i] + o
    BY <2>2
  <2>5. b[w * PtrSize] = Byte(id, "out", i, o)
    BY <2>3, <2>4
  <2> QED  BY <2>5 DEF Shown
<1> QED  BY <1>1 DEF MarkBytes

LEMMA WholeWords ==
  ASSUME NEW end \in Nat, NEW ret \in Nat, end <= ret, NEW w \in Nat,
         w * PtrSize + PtrSize <= end \/ w * PtrSize >= ret
  PROVE  w \in 0..(Words(end) - 1) <=> w * PtrSize < ret
<1>1. PtrSize \in Nat \ {0}
  BY LayoutAssumption
<1> DEFINE q == end \div PtrSize
           z == end % PtrSize
<1>2. end = PtrSize * q + z /\ q \in Int /\ z \in 0..(PtrSize - 1)
  BY <1>1, DivMod
<1> HIDE DEF q, z
<1>3. q \in Nat
  <2>1. CASE q >= 0
    BY <1>2, <2>1
  <2>2. CASE q < 0
    <3>1. PtrSize * (q + 1) <= 0
      BY <1>1, <1>2, <2>2
    <3>2. PtrSize * (q + 1) = PtrSize * q + PtrSize /\ PtrSize * q \in Int
      BY <1>1, <1>2
    <3> DEFINE p == PtrSize * q
    <3>3. p + PtrSize <= 0 /\ p \in Int /\ end = p + z
      BY <1>2, <3>1, <3>2
    <3> HIDE DEF p
    <3> QED  BY <1>1, <1>2, <3>3
  <2> QED  BY <1>2, <2>1, <2>2
<1> DEFINE x == w * PtrSize
           p == PtrSize * q
<1>4. x \in Nat /\ p \in Nat
  BY <1>1, <1>3
<1>5. w < q => x + PtrSize <= p
  <2> SUFFICES ASSUME w < q  PROVE x + PtrSize <= p
    OBVIOUS
  <2>1. w + 1 <= q
    BY <1>3
  <2>2. PtrSize * (w + 1) <= PtrSize * q
    BY <1>1, <1>3, <2>1
  <2>3. PtrSize * (w + 1) = x + PtrSize
    BY <1>1
  <2> QED  BY <2>2, <2>3
<1>6. w >= q => x >= p
  <2> SUFFICES ASSUME w >= q  PROVE x >= p
    OBVIOUS
  <2>1. PtrSize * q <= PtrSize * w
    BY <1>1, <1>3
  <2>2. PtrSize * w = x
    BY <1>1
  <2> QED  BY <2>1, <2>2
<1>7. end = p + z /\ (x + PtrSize <= end \/ x >= ret)
  BY <1>2
<1>8. w \in 0..(q - 1) <=> w < q
  BY <1>3
<1> HIDE DEF x, p
<1>9. w < q => x < ret
  BY <1>1, <1>2, <1>4, <1>5, <1>7
<1>10. w >= q => x >= ret
  BY <1>1, <1>2, <1>4, <1>6, <1>7
<1>11. w < q \/ w >= q
  BY <1>3
<1>12. ~(x < ret /\ x >= ret)
  BY <1>4
<1>13. w \in 0..(q - 1) <=> x < ret
  BY <1>8, <1>9, <1>10, <1>11, <1>12
<1> QED  BY <1>13 DEF x, q, Words

(* The words of a stack map that argLen says are those of the arguments.   *)
LEMMA ArgWords ==
  ASSUME Marking, NEW w \in FrameMarks(FALSE)
  PROVE  w \in 0..(Words(CodeIn(FALSE).end) - 1) <=> w * PtrSize < RetOffset(FALSE)
<1> DEFINE end == CodeIn(FALSE).end
           ret == RetOffset(FALSE)
           x == w * PtrSize
<1>1. end \in Nat /\ ret \in Nat /\ end <= ret /\ w \in Nat
  BY FrameWords
<1>2. x + PtrSize <= end \/ x >= ret
  <2>1. \A i \in DOMAIN sig.in : \A o \in PtrsOf(sig.in[i]) : CodeIn(FALSE).offs[i] + o + PtrSize <= end
    BY FrameWords
  <2>2. \A i \in DOMAIN sig.out : \A o \in PtrsOf(sig.out[i]) : CodeOut(FALSE).offs[i] + o >= ret
    BY FrameWords
  <2>3. \/ \E i \in DOMAIN sig.in : \E o \in PtrsOf(sig.in[i]) : x = CodeIn(FALSE).offs[i] + o
        \/ \E i \in DOMAIN sig.out : \E o \in PtrsOf(sig.out[i]) : x = CodeOut(FALSE).offs[i] + o
    BY FrameWords
  <2> HIDE DEF x, end, ret
  <2> QED  BY ONLY <2>1, <2>2, <2>3
<1> QED  BY <1>1, <1>2, WholeWords

(* A frame with the values of a call.                                      *)
LEMMA CleanFrame ==
  ASSUME Marking, NEW r \in BOOLEAN, r => sig.rcvr # {}, NEW n \in Nat, NEW id \in 1..n,
         NEW b, InAt(b, id, r),
         \A w \in FrameMarks(r) : w * PtrSize >= RetOffset(r) => b[w * PtrSize] \in Allowed(n)
  PROVE  Clean(b, FrameMarks(r), n)
<1> SUFFICES ASSUME NEW w \in FrameMarks(r)  PROVE b[w * PtrSize] \in Allowed(n)
  BY DEF Clean
<1>1. w * PtrSize >= RetOffset(r) \/ w * PtrSize < RetOffset(r)
  <2>1. w \in Nat /\ PtrSize \in Nat /\ RetOffset(r) \in Nat
    BY FrameWords
  <2> DEFINE x == w * PtrSize
             ret == RetOffset(r)
  <2>2. x \in Nat /\ ret \in Nat
    BY <2>1
  <2> HIDE DEF x, ret
  <2>3. x >= ret \/ x < ret
    BY ONLY <2>2
  <2> QED  BY <2>3 DEF x, ret
<1>2. CASE w * PtrSize < RetOffset(r)
  <2>1. b[w * PtrSize] \in MarkBytes(id, "in", sig.in) \cup Receiver(id)
    BY <1>2, SeenIn
  <2> QED  BY <2>1, KnownAllowed
<1> QED  BY <1>1, <1>2
-----------------------------------------------------------------------------
(* The collector's invariant.  A frame on the heap has the map of its kind *)
(* and shows nothing that is not a pointer; callReflect and callMethod     *)
(* keep the arguments in the frame that they run on, and the scratch frame *)
(* keeps the results until the stack map shows them.                       *)

FrameObject(d, r) == "map" \in DOMAIN d /\ d.map = FrameMarks(r)

ScanAt(a, m, n) ==
  /\ a.id \in 1..n
  /\ a.phase = "packed" => a.out
  /\ a.op \in {"reflect", "method"} => /\ InAt(m[a.frame].bytes, a.id, FALSE)
                                       /\ a.retValid <=> a.phase \in {"valid", "done"}
  /\ a.heap # 0 => /\ FrameObject(m[a.heap], HasRcvr(a))
                   /\ Clean(m[a.heap].bytes, FrameMarks(HasRcvr(a)), n)
  /\ a.phase = "copied" => OutAt(m[a.heap].bytes, a.id, TRUE)

Scan(st, m, pl, kp, n) ==
  /\ \A k \in DOMAIN st : ScanAt(st[k], m, n)
  /\ \A r \in BOOLEAN : \A o \in pl[r] : FrameObject(m[o], r)
  /\ \A v \in kp : Clean(m[v.obj].bytes, m[v.obj].map, n)

LEMMA CleanGrows ==
  ASSUME NEW b, NEW map, NEW n \in Nat, NEW n2 \in Nat, n <= n2, Clean(b, map, n)
  PROVE  Clean(b, map, n2)
BY AllowedGrows DEF Clean

LEMMA SameMarks ==
  ASSUME types' = types, sig' = sig
  PROVE  /\ \A r \in BOOLEAN : FrameMarks(r)' = FrameMarks(r)
         /\ \A n : Allowed(n)' = Allowed(n)
<1>1. ASSUME NEW r \in BOOLEAN  PROVE FrameMarks(r)' = FrameMarks(r)
  <2>1. CodeIn(r)' = CodeIn(r) /\ CodeOut(r)' = CodeOut(r)
    BY SameLayout
  <2> QED  BY <2>1 DEF FrameMarks, PlacedMarks
<1>2. ASSUME NEW n  PROVE Allowed(n)' = Allowed(n)
  BY DEF Allowed, Known, MarkBytes, PtrsOf, Receiver
<1> QED  BY <1>1, <1>2

LEMMA SameScan ==
  ASSUME types' = types, sig' = sig, Scan(stack', mem', pool', kept', made')
  PROVE  Scan(stack, mem, pool, kept, made)'
<1>1. \A r \in BOOLEAN : FrameMarks(r)' = FrameMarks(r) /\ CodeIn(r)' = CodeIn(r) /\ CodeOut(r)' = CodeOut(r)
  BY SameLayout, SameMarks
<1>2. \A n : Allowed(n)' = Allowed(n)
  BY SameMarks
<1>3. \A b, map, n : Clean(b, map, n)' = Clean(b, map, n)
  BY <1>2 DEF Clean
<1>4. \A b, id : /\ InAt(b, id, FALSE)' = InAt(b, id, FALSE)
                 /\ OutAt(b, id, TRUE)' = OutAt(b, id, TRUE)
  BY <1>1 DEF InAt, OutAt, Has, SizeOf
<1>5. ASSUME NEW k \in DOMAIN stack'  PROVE ScanAt(stack[k], mem, made)'
  <2>1. ScanAt(stack'[k], mem', made')
    BY DEF Scan
  <2>2. HasRcvr(stack[k])' = HasRcvr(stack'[k]) /\ HasRcvr(stack'[k]) \in BOOLEAN
    BY DEF HasRcvr, OfMethod
  <2> QED  BY <1>1, <1>3, <1>4, <2>1, <2>2 DEF ScanAt, FrameObject
<1>6. (\A r \in BOOLEAN : \A o \in pool[r] : FrameObject(mem[o], r))'
  BY <1>1 DEF Scan, FrameObject
<1>7. (\A v \in kept : Clean(mem[v.obj].bytes, mem[v.obj].map, made))'
  BY <1>3 DEF Scan
<1> QED  BY <1>5, <1>6, <1>7 DEF Scan

Retained(m, m2, U) == \A o \in DOMAIN m : o \notin U => m2[o] = m[o]
PoolScan(pl, pl2, m2, U) ==
  \A r \in BOOLEAN : \A o \in pl2[r] : (o \in pl[r] /\ o \notin U) \/ FrameObject(m2[o], r)
KeptScan(kp, kp2, m2, n2, U) ==
  \A v \in kp2 : (v \in kp /\ v.obj \notin U) \/ Clean(m2[v.obj].bytes, m2[v.obj].map, n2)

(* Steps keep the invariant where they do not write.                       *)
LEMMA ScanProgress ==
  ASSUME NEW st, NEW m, NEW pl, NEW kp, NEW n \in Nat,
         Calling(st, m, pl, kp), Scan(st, m, pl, kp, n),
         NEW s2 \in Seq(Activations), NEW m2, NEW pl2, NEW kp2, NEW n2 \in Nat, n <= n2,
         NEW j \in Nat, NEW U, j <= Len(st), j <= Len(s2), Stays(st, s2, j), Unowned(st, j, U),
         Retained(m, m2, U),
         \A k \in (j + 1)..Len(s2) : ScanAt(s2[k], m2, n2),
         PoolScan(pl, pl2, m2, U), KeptScan(kp, kp2, m2, n2, U)
  PROVE  Scan(s2, m2, pl2, kp2, n2)
<1>1. st \in Seq(Activations) /\ LooseOK(m, pl, kp)
  BY DEF Calling
<1>2. /\ DOMAIN st = 1..Len(st) /\ DOMAIN s2 = 1..Len(s2) /\ Len(st) \in Nat /\ Len(s2) \in Nat
      /\ \A k \in DOMAIN st : st[k] \in Activations
  BY <1>1, StackFacts
<1>3. ASSUME NEW k \in 1..j  PROVE ScanAt(s2[k], m2, n2)
  <2> DEFINE a == st[k]
  <2>1. /\ k \in DOMAIN st /\ s2[k] = a /\ Own(a) \subseteq DOMAIN m /\ Proper(a) /\ Own(a) \cap U = {}
        /\ ScanAt(a, m, n) /\ a.op \in {"caller", "client"} \cup Callees
    <3>1. k \in DOMAIN st /\ s2[k] = a /\ a \in Activations
      BY <1>2 DEF Stays
    <3>2. Own(a) \cap U = {}
      BY DEF Unowned
    <3>3. Own(a) \subseteq DOMAIN m /\ Proper(a)
      BY <3>1 DEF Calling
    <3>4. ScanAt(a, m, n)
      BY <3>1 DEF Scan
    <3>5. a.op \in {"caller", "client"} \cup Callees
      BY <3>1 DEF Activations
    <3> QED  BY <3>1, <3>2, <3>3, <3>4, <3>5
  <2>2. \A o \in Own(a) : m2[o] = m[o]
    BY <2>1 DEF Retained
  <2> HIDE DEF a
  <2>3. a.heap # 0 => m2[a.heap] = m[a.heap]
    BY <2>2 DEF Own
  <2>4. a.op \in {"reflect", "method"} => m2[a.frame] = m[a.frame]
    <3>1. a.op \in {"reflect", "method"} => a.op \in Callees /\ a.frame # 0
      BY <2>1 DEF Proper, Callees
    <3> QED  BY <2>2, <3>1 DEF Own
  <2>5. a.phase = "copied" => a.heap # 0
    BY <2>1 DEF Proper, HasHeap, PhasesOf, Callees
  <2>6. a.id \in 1..n2
    BY <2>1 DEF ScanAt
  <2>7. a.heap # 0 => Clean(m[a.heap].bytes, FrameMarks(HasRcvr(a)), n2)
    BY <2>1, CleanGrows DEF ScanAt
  <2> QED  BY <2>1, <2>3, <2>4, <2>5, <2>6, <2>7, Zenon DEF ScanAt
<1>4. \A k \in DOMAIN s2 : ScanAt(s2[k], m2, n2)
  BY <1>2, <1>3
<1>5. ASSUME NEW r \in BOOLEAN, NEW o \in pl2[r]  PROVE FrameObject(m2[o], r)
  <2>1. CASE o \in pl[r] /\ o \notin U
    <3>1. o \in DOMAIN m
      BY <1>1, <2>1 DEF LooseOK, Loose
    <3>2. m2[o] = m[o] /\ FrameObject(m[o], r)
      BY <2>1, <3>1 DEF Retained, Scan
    <3> QED  BY <3>2
  <2> QED  BY <2>1 DEF PoolScan
<1>6. ASSUME NEW v \in kp2  PROVE Clean(m2[v.obj].bytes, m2[v.obj].map, n2)
  <2>1. CASE v \in kp /\ v.obj \notin U
    <3>1. v.obj \in DOMAIN m
      BY <1>1, <2>1 DEF LooseOK, Loose
    <3>2. m2[v.obj] = m[v.obj] /\ Clean(m[v.obj].bytes, m[v.obj].map, n)
      BY <2>1, <3>1 DEF Retained, Scan
    <3> QED  BY <3>2, CleanGrows
  <2> QED  BY <2>1 DEF KeptScan
<1> QED  BY <1>4, <1>5, <1>6 DEF Scan

(* What the steps start from.                                              *)
Working == StackOK /\ Marking /\ Scan(stack, mem, pool, kept, made)

LEMMA LooseScan ==
  ASSUME NEW U, U \cap Loose(pool, kept) = {}, NEW m2, NEW n2
  PROVE  PoolScan(pool, pool, m2, U) /\ KeptScan(kept, kept, m2, n2, U)
<1>1. ASSUME NEW r \in BOOLEAN, NEW o \in pool[r]  PROVE o \notin U
  BY DEF Loose
<1>2. ASSUME NEW v \in kept  PROVE v.obj \notin U
  BY DEF Loose
<1> QED  BY <1>1, <1>2 DEF PoolScan, KeptScan

LEMMA TopScan ==
  ASSUME Working, stack # <<>>, NEW a \in Activations, NEW U, Unowned(stack, Len(stack) - 1, U),
         NEW m2, NEW pl2, NEW kp2, Retained(mem, m2, U), ScanAt(a, m2, made),
         PoolScan(pool, pl2, m2, U), KeptScan(kept, kp2, m2, made, U)
  PROVE  Scan([stack EXCEPT ![Len(stack)] = a], m2, pl2, kp2, made)
<1> DEFINE n == Len(stack)
           s2 == [stack EXCEPT ![n] = a]
           j == n - 1
<1>1. /\ Calling(stack, mem, pool, kept) /\ Scan(stack, mem, pool, kept, made) /\ made \in Nat
      /\ stack \in Seq(Activations) /\ n \in Nat /\ n >= 1 /\ made <= made
  BY StackFacts DEF Working, StackOK
<1>2. s2 \in Seq(Activations) /\ Len(s2) = n /\ s2[n] = a /\ \A k \in 1..n : k # n => s2[k] = stack[k]
  BY <1>1, ReplaceTop
<1> HIDE DEF s2
<1>3. j \in Nat /\ j <= n /\ j <= Len(s2) /\ Stays(stack, s2, j) /\ Unowned(stack, j, U)
  BY <1>1, <1>2 DEF Stays
<1>4. \A k \in (j + 1)..Len(s2) : ScanAt(s2[k], m2, made)
  <2>1. \A k \in (j + 1)..Len(s2) : k = n
    BY <1>1, <1>2
  <2> QED  BY <1>2, <2>1
<1> HIDE DEF j
<1>5. Scan(s2, m2, pl2, kp2, made)
  BY <1>1, <1>2, <1>3, <1>4, ScanProgress DEF n
<1> QED  BY <1>5 DEF s2

LEMMA PutMap ==
  ASSUME NEW m, MemOK(m), NEW o \in DOMAIN m, NEW b, NEW r, FrameObject(m[o], r)
  PROVE  FrameObject([m EXCEPT ![o].bytes = b][o], r)
<1>1. [m EXCEPT ![o].bytes = b][o] = [m[o] EXCEPT !.bytes = b]
  OBVIOUS
<1> DEFINE d == m[o]
<1>2. "map" \in DOMAIN d /\ d.map = FrameMarks(r)
  BY DEF FrameObject
<1> HIDE DEF d
<1>3. "map" \in DOMAIN [d EXCEPT !.bytes = b] /\ [d EXCEPT !.bytes = b].map = FrameMarks(r)
  BY <1>2
<1> QED  BY <1>1, <1>3 DEF FrameObject, d
-----------------------------------------------------------------------------
(* The invariant says what the collector sees                              *)

LEMMA ShownIn ==
  ASSUME StackOK, Marking, Scan(stack, mem, pool, kept, made), NEW n \in DOMAIN stack
  PROVE  LET a == stack[n] IN
         /\ a \in Activations /\ Proper(a) /\ Holds(a, mem) /\ ScanAt(a, mem, made) /\ HasRcvr(a) \in BOOLEAN
         /\ HasRcvr(a) => sig.rcvr # {}
         /\ a.heap # 0 => Shown(mem[a.heap].bytes, FrameMarks(HasRcvr(a))) \subseteq Seen
         /\ a.op \in {"reflect", "method"} =>
              Shown(mem[a.frame].bytes,
                    {w \in FrameMarks(FALSE) : w * PtrSize < RetOffset(FALSE) \/ a.retValid}) \subseteq Seen
<1> DEFINE a == stack[n]
           S == {w \in FrameMarks(FALSE) : w * PtrSize < RetOffset(FALSE) \/ a.retValid}
<1>1. /\ a \in Activations /\ Proper(a) /\ Holds(a, mem) /\ ScanAt(a, mem, made) /\ HasRcvr(a) \in BOOLEAN
      /\ a.op = "method" => a.target = "methodvalue"
  <2>1. a \in Activations
    BY DEF StackOK
  <2>2. Proper(a) /\ Holds(a, mem)
    BY DEF StackOK, Calling
  <2>3. ScanAt(a, mem, made)
    BY DEF Scan
  <2>4. HasRcvr(a) \in BOOLEAN
    BY DEF HasRcvr, OfMethod
  <2>5. a.op = "method" => a.target = "methodvalue"
    BY Callers DEF StackOK
  <2> QED  BY <2>1, <2>2, <2>3, <2>4, <2>5
<1>2. HasRcvr(a) => sig.rcvr # {}
  BY <1>1 DEF HasRcvr, Proper, OfMethod
<1>3. SeenBy(a) \subseteq Seen
  BY DEF Seen
<1>4. a.heap # 0 => Shown(mem[a.heap].bytes, FrameMarks(HasRcvr(a))) \subseteq SeenBy(a)
  <2>1. a.heap # 0 => mem[a.heap].map = FrameMarks(HasRcvr(a))
    BY <1>1 DEF ScanAt, FrameObject
  <2> HIDE DEF a
  <2> QED  BY <2>1 DEF SeenBy, Marked, Shown, Bytes
<1>5. FrameMap(FALSE) = FrameMarks(FALSE) /\ funcLayout(FALSE).argSize = CodeIn(FALSE).end
  BY FrameMapIs, FuncLayout DEF Marking
<1>6. StackMap(a) = S
  <2> DEFINE K == FrameMarks(FALSE)
             N == 0..(Words(CodeIn(FALSE).end) - 1)
  <2>1. StackMap(a) = IF a.retValid THEN K ELSE K \cap N
    BY <1>5 DEF StackMap, MakeFunc, makeMethodValue
  <2>2. \A w \in K : w \in N <=> w * PtrSize < RetOffset(FALSE)
    BY ArgWords
  <2>3. a.retValid \in BOOLEAN
    BY <1>1 DEF Activations
  <2>4. S = {w \in K : w * PtrSize < RetOffset(FALSE) \/ a.retValid}
    OBVIOUS
  <2> HIDE DEF K, N, S, a
  <2>5. CASE a.retValid
    BY <2>1, <2>4, <2>5
  <2>6. CASE ~a.retValid
    BY <2>1, <2>2, <2>4, <2>6
  <2> QED  BY <2>3, <2>5, <2>6
<1> HIDE DEF S
<1>7. a.op \in {"reflect", "method"} => Shown(mem[a.frame].bytes, S) \subseteq SeenBy(a)
  <2> HIDE DEF a
  <2> QED  BY <1>6 DEF SeenBy, Marked, Shown, Bytes
<1> QED  BY <1>1, <1>2, <1>3, <1>4, <1>7 DEF S

LEMMA PtrBytesAre ==
  ASSUME Marking
  PROVE  \A id, what : /\ PtrBytes(id, what, sig.in) = MarkBytes(id, what, sig.in)
                       /\ PtrBytes(id, what, sig.out) = MarkBytes(id, what, sig.out)
<1>1. ASSUME NEW ts \in Seq(DOMAIN types), NEW id, NEW what
      PROVE  PtrBytes(id, what, ts) = MarkBytes(id, what, ts)
  <2>1. \A i \in DOMAIN ts : ts[i] \in DOMAIN types
    BY SeqElements
  <2>2. \A i \in DOMAIN ts : PtrOffsets[ts[i]] = PtrsOf(ts[i])
    BY <2>1, PtrsFacts
  <2> QED  BY <2>2 DEF PtrBytes, MarkBytes
<1> QED  BY <1>1 DEF Marking, SigOK

LEMMA NoneMissed ==
  ASSUME StackOK, Marking, Scan(stack, mem, pool, kept, made), NEW n \in DOMAIN stack
  PROVE  InFrames(stack[n]) \subseteq Seen \cup Held
<1> DEFINE a == stack[n]
           r == HasRcvr(a)
           h == mem[a.heap].bytes
           f == mem[a.frame].bytes
           S == {w \in FrameMarks(FALSE) : w * PtrSize < RetOffset(FALSE) \/ a.retValid}
           ins == MarkBytes(a.id, "in", sig.in)
           outs == MarkBytes(a.id, "out", sig.out)
<1>1. /\ a \in Activations /\ Proper(a) /\ Holds(a, mem) /\ ScanAt(a, mem, made) /\ r \in BOOLEAN
      /\ r => sig.rcvr # {}
      /\ a.heap # 0 => Shown(h, FrameMarks(r)) \subseteq Seen
      /\ a.op \in {"reflect", "method"} => Shown(f, S) \subseteq Seen
  BY ShownIn
<1>2. /\ PtrBytes(a.id, "in", sig.in) = ins /\ PtrBytes(a.id, "out", sig.out) = outs
  BY PtrBytesAre
<1>3. a.phase = "packed" => outs \subseteq Held
  <2>1. a.phase = "packed" => a.out
    BY <1>1 DEF ScanAt
  <2> QED  BY <1>2, <2>1 DEF Held
<1> HIDE DEF a, S
<1>4. CASE a.phase = "marshalled"
  <2>1. a.heap # 0
    BY <1>1, <1>4 DEF Proper, HasHeap, PhasesOf, Activations, Callees
  <2>2. InAt(h, a.id, r)
    BY <1>1, <1>4, <2>1 DEF Holds, HeapHolds
  <2>3. ins \cup RcvrOf(a.id, r) \subseteq Shown(h, {w \in FrameMarks(r) : w * PtrSize < RetOffset(r)})
    BY <1>1, <2>2, MarkedIn
  <2>4. ins \cup RcvrOf(a.id, r) \subseteq Seen
    BY <1>1, <2>1, <2>3 DEF Shown
  <2>5. InFrames(a) = ins \cup RcvrOf(a.id, r)
    BY <1>2, <1>4 DEF InFrames, RcvrOf
  <2> QED  BY <2>4, <2>5 DEF a
<1>5. CASE a.phase = "entered"
  <2>1. a.op \in {"reflect", "method"}
    BY <1>1, <1>5 DEF Proper, PhasesOf, Activations, Callees
  <2>2. InAt(f, a.id, FALSE)
    BY <1>1, <2>1 DEF ScanAt
  <2>3. ins \subseteq Shown(f, {w \in FrameMarks(FALSE) : w * PtrSize < RetOffset(FALSE)})
    BY <2>2, MarkedIn
  <2>4. ins \subseteq Seen
    BY <1>1, <2>1, <2>3 DEF Shown, S
  <2>5. InFrames(a) = ins
    BY <1>2, <1>5 DEF InFrames
  <2> QED  BY <2>4, <2>5 DEF a
<1>6. CASE a.phase \in {"returned", "copied"}
  <2>1. a.heap # 0
    BY <1>1, <1>6 DEF Proper, HasHeap, PhasesOf, Activations, Callees
  <2>2. OutAt(h, a.id, r)
    <3>1. CASE a.phase = "returned"
      BY <1>1, <2>1, <3>1 DEF Holds, HeapHolds
    <3>2. CASE a.phase = "copied"
      <4>1. a.op = "method"
        BY <1>1, <3>2 DEF Proper, PhasesOf, Activations, Callees
      <4>2. r = TRUE
        BY <4>1 DEF HasRcvr
      <4> QED  BY <1>1, <3>2, <4>2 DEF ScanAt
    <3> QED  BY <1>6, <3>1, <3>2
  <2>3. outs \subseteq Seen
    BY <1>1, <2>1, <2>2, MarkedOut
  <2>4. InFrames(a) = outs
    BY <1>2, <1>6 DEF InFrames
  <2> QED  BY <2>3, <2>4 DEF a
<1>7. CASE a.phase \in {"valid", "done"}
  <2>1. a.op \in {"reflect", "method"}
    BY <1>1, <1>7 DEF Proper, PhasesOf, Activations, Callees
  <2>2. a.retValid /\ OutAt(f, a.id, FALSE)
    <3>1. FrameRcvr(a) = FALSE
      BY <2>1 DEF FrameRcvr
    <3> QED  BY <1>1, <1>7, <2>1, <3>1 DEF ScanAt, Holds, FrameHolds, Callees
  <2>3. S = FrameMarks(FALSE)
    BY <2>2 DEF S
  <2>4. outs \subseteq Seen
    BY <1>1, <2>1, <2>2, <2>3, MarkedOut
  <2>5. InFrames(a) = outs
    BY <1>2, <1>7 DEF InFrames
  <2> QED  BY <2>4, <2>5 DEF a
<1>8. CASE a.phase = "packed"
  <2>1. InFrames(a) = outs
    BY <1>2, <1>8 DEF InFrames
  <2> QED  BY <1>3, <1>8, <2>1 DEF a
<1>9. CASE a.phase \in {"calling", "running"}
  <2>1. InFrames(a) = {}
    BY <1>9 DEF InFrames
  <2> QED  BY <2>1 DEF a
<1>10. a.phase \in Phases
  BY <1>1 DEF Activations
<1> QED  BY <1>4, <1>5, <1>6, <1>7, <1>8, <1>9, <1>10 DEF Phases

LEMMA BeforeOrAfter ==
  ASSUME Marking, NEW r \in BOOLEAN, NEW w \in FrameMarks(r)
  PROVE  w * PtrSize >= RetOffset(r) \/ w * PtrSize < RetOffset(r)
<1>1. w \in Nat /\ PtrSize \in Nat /\ RetOffset(r) \in Nat
  BY FrameWords
<1> DEFINE x == w * PtrSize
           ret == RetOffset(r)
<1>2. x \in Nat /\ ret \in Nat
  BY <1>1
<1> HIDE DEF x, ret
<1>3. x >= ret \/ x < ret
  BY ONLY <1>2
<1> QED  BY <1>3 DEF x, ret

LEMMA NothingElse ==
  ASSUME StackOK, Marking, Scan(stack, mem, pool, kept, made)
  PROVE  Seen \subseteq Allowed(made)
<1>1. ASSUME NEW n \in DOMAIN stack  PROVE SeenBy(stack[n]) \subseteq Allowed(made)
  <2> DEFINE a == stack[n]
  <2>1. /\ a \in Activations /\ Proper(a) /\ Holds(a, mem) /\ ScanAt(a, mem, made)
    BY ShownIn
  <2>2. made \in Nat /\ a.id \in 1..made /\ a.retValid \in BOOLEAN
    BY <2>1 DEF ScanAt, StackOK, Activations
  <2>3. FrameMap(FALSE) = FrameMarks(FALSE) /\ funcLayout(FALSE).argSize = CodeIn(FALSE).end
    BY FrameMapIs, FuncLayout DEF Marking
  <2>4. a.heap # 0 => Marked(a.heap, mem[a.heap].map) \subseteq Allowed(made)
    BY <2>1 DEF ScanAt, FrameObject, Clean, Marked, Bytes
  <2>5. ASSUME a.op \in {"reflect", "method"}  PROVE Marked(a.frame, StackMap(a)) \subseteq Allowed(made)
    <3> DEFINE f == mem[a.frame].bytes
               K == FrameMarks(FALSE)
               N == 0..(Words(CodeIn(FALSE).end) - 1)
    <3>1. InAt(f, a.id, FALSE)
      BY <2>1, <2>5 DEF ScanAt
    <3>2. a.retValid => OutAt(f, a.id, FALSE)
      <4>1. FrameRcvr(a) = FALSE
        BY <2>5 DEF FrameRcvr
      <4>2. a.retValid => a.phase \in {"valid", "done"}
        BY <2>1, <2>5 DEF ScanAt
      <4> QED  BY <2>1, <2>5, <4>1, <4>2 DEF Holds, FrameHolds, Callees
    <3>3. StackMap(a) = IF a.retValid THEN K ELSE K \cap N
      BY <2>3 DEF StackMap, MakeFunc, makeMethodValue
    <3> HIDE DEF a
    <3>4. ASSUME NEW w \in StackMap(a)  PROVE f[w * PtrSize] \in Allowed(made)
      <4>1. w \in K /\ (w \in N \/ a.retValid)
        <5> HIDE DEF K, N
        <5>1. CASE a.retValid
          BY <3>3, <3>4, <5>1
        <5>2. CASE ~a.retValid
          BY <3>3, <3>4, <5>2
        <5> QED  BY <2>2, <5>1, <5>2
      <4>2. w \in N <=> w * PtrSize < RetOffset(FALSE)
        BY <4>1, ArgWords
      <4>3. w * PtrSize < RetOffset(FALSE) \/ w * PtrSize >= RetOffset(FALSE)
        BY <4>1, BeforeOrAfter
      <4>4. CASE w * PtrSize < RetOffset(FALSE)
        <5>1. f[w * PtrSize] \in MarkBytes(a.id, "in", sig.in) \cup Receiver(a.id)
          BY <3>1, <4>1, <4>4, SeenIn
        <5> QED  BY <2>2, <5>1, KnownAllowed
      <4>5. CASE w * PtrSize >= RetOffset(FALSE) /\ ~(w * PtrSize < RetOffset(FALSE))
        <5>1. OutAt(f, a.id, FALSE)
          BY <3>2, <4>1, <4>2, <4>5
        <5>2. f[w * PtrSize] \in MarkBytes(a.id, "out", sig.out)
          BY <4>1, <4>5, <5>1, SeenOut
        <5> QED  BY <2>2, <5>2, KnownAllowed
      <4> QED  BY <4>3, <4>4, <4>5
    <3> QED  BY <3>4 DEF Marked, Bytes
  <2> HIDE DEF a
  <2>6. SeenBy(a) \subseteq Allowed(made)
    BY <2>4, <2>5 DEF SeenBy
  <2> QED  BY <2>6 DEF a
<1>2. ASSUME NEW v \in kept  PROVE Marked(v.obj, mem[v.obj].map) \subseteq Allowed(made)
  BY DEF Scan, Clean, Marked, Bytes
<1> SUFFICES ASSUME NEW x \in Seen  PROVE x \in Allowed(made)
  OBVIOUS
<1>3. \/ \E n \in DOMAIN stack : x \in SeenBy(stack[n])
      \/ \E v \in kept : x \in Marked(v.obj, mem[v.obj].map)
  BY DEF Seen
<1> QED  BY <1>1, <1>2, <1>3

LEMMA ScanShows ==
  ASSUME StackOK, Marking, Scan(stack, mem, pool, kept, made)
  PROVE  AlwaysScanned
<1>1. Allowed(made) = {Nothing} \cup UNION {PtrBytes(id, "in", sig.in) \cup PtrBytes(id, "out", sig.out)
                                             \cup Receiver(id) : id \in 1..made}
  BY PtrBytesAre DEF Allowed, Known
<1> QED  BY <1>1, NoneMissed, NothingElse DEF AlwaysScanned
-----------------------------------------------------------------------------
(* Steps that change the innermost activation alone                        *)

(* What is in front of the results has the arguments.                      *)
LEMMA InAtKept ==
  ASSUME StackOK, NEW r \in BOOLEAN, NEW b, NEW c, NEW id, InAt(b, id, r),
         \A k \in 0..(RetOffset(r) - 1) : c[k] = b[k]
  PROVE  InAt(c, id, r)
<1> DEFINE ret == RetOffset(r)
           end == CodeIn(r).end
           base == Base(r)
<1>1. /\ InOrder(CodeIn(r).offs, Types(sig.in), base, end) /\ end <= ret /\ ret \in Nat
      /\ PtrSize \in Nat \ {0} /\ base \in Nat /\ end \in Nat /\ base <= end
  BY FrameFacts, LayoutAssumption DEF StackOK, InOrder
<1>2. r => base = PtrSize
  BY DEF Base
<1>3. \A k \in 0..(ret - 1) : c[k] = b[k]
  OBVIOUS
<1> HIDE DEF ret, base, end
<1>4. ASSUME NEW i \in DOMAIN sig.in
      PROVE  Has(c, id, "in", i, sig.in[i], CodeIn(r).offs[i])
  <2> DEFINE x == CodeIn(r).offs[i]
             t == sig.in[i]
             s == SizeOf(t)
  <2>1. t \in DOMAIN types /\ s \in Nat /\ i \in 1..Len(Types(sig.in)) /\ Types(sig.in)[i].size = s
    BY TypesFacts DEF StackOK, SigOK
  <2>2. x \in Nat /\ x + s <= end
    BY <1>1, <2>1 DEF InOrder
  <2>3. \A k \in 0..(s - 1) : b[x + k] = Byte(id, "in", i, k)
    BY DEF InAt, Has
  <2> HIDE DEF x, s
  <2>4. \A k \in 0..(s - 1) : x + k \in 0..(ret - 1)
    BY <1>1, <2>1, <2>2
  <2>5. \A k \in 0..(s - 1) : c[x + k] = Byte(id, "in", i, k)
    BY <1>3, <2>3, <2>4
  <2> QED  BY <2>5 DEF Has, x, s
<1>5. ASSUME r, NEW k \in 0..(PtrSize - 1), NEW q \in sig.rcvr
      PROVE  c[k] = Byte(id, RcvrWord(q), 0, k)
  <2>1. k \in 0..(ret - 1)
    BY <1>1, <1>2, <1>5
  <2>2. b[k] = Byte(id, RcvrWord(q), 0, k)
    BY <1>5 DEF InAt
  <2> QED  BY <1>3, <2>1, <2>2
<1> QED  BY <1>4, <1>5 DEF InAt

LEMMA WorkingFacts ==
  ASSUME Working, stack # <<>>
  PROVE  LET n == Len(stack) IN
         /\ n \in DOMAIN stack /\ n \in Nat /\ n >= 1 /\ Top = stack[n]
         /\ Top \in Activations /\ Proper(Top) /\ Holds(Top, mem)
         /\ ScanAt(Top, mem, made) /\ Own(Top) \subseteq DOMAIN mem /\ MemOK(mem)
         /\ Unowned(stack, n - 1, Own(Top)) /\ Own(Top) \cap Loose(pool, kept) = {}
         /\ Unowned(stack, n - 1, {}) /\ made \in Nat /\ HasRcvr(Top) \in BOOLEAN
         /\ HasRcvr(Top) => sig.rcvr # {}
<1>1. ScanAt(Top, mem, made)
  <2>1. Len(stack) \in DOMAIN stack /\ Top = stack[Len(stack)]
    BY TopFacts DEF Working
  <2> QED  BY <2>1 DEF Working, Scan
<1>2. Unowned(stack, Len(stack) - 1, {})
  BY DEF Unowned
<1>3. /\ Len(stack) \in DOMAIN stack /\ Len(stack) \in Nat /\ Len(stack) >= 1 /\ Top = stack[Len(stack)]
      /\ Top \in Activations /\ Proper(Top) /\ Holds(Top, mem)
      /\ Own(Top) \subseteq DOMAIN mem /\ MemOK(mem)
      /\ Unowned(stack, Len(stack) - 1, Own(Top)) /\ Own(Top) \cap Loose(pool, kept) = {}
      /\ made \in Nat
  BY TopFacts DEF Working, StackOK
<1>4. HasRcvr(Top) \in BOOLEAN /\ (HasRcvr(Top) => sig.rcvr # {})
  <2>1. Top.op = "method" => Top.target = "methodvalue"
    BY <1>3, Callers DEF Working, StackOK
  <2>2. OfMethod(Top.target) = (sig.rcvr # {})
    BY <1>3 DEF Proper
  <2> QED  BY <2>1, <2>2 DEF HasRcvr, OfMethod
<1> QED  BY <1>1, <1>2, <1>3, <1>4

LEMMA PackScans ==
  ASSUME Working, Pack
  PROVE  Scan(stack', mem', pool', kept', made')
<1> DEFINE n == Len(stack)
           o == Top.frame
           w == Written(Bytes(o), Top.id, "out", sig.out, CodeOut(FALSE).offs)
           a == [Top EXCEPT !.phase = "packed", !.out = TRUE]
<1>1. /\ stack # <<>> /\ Top.op = "reflect" /\ Top.phase = "running"
      /\ mem' = Put(o, w)
      /\ stack' = [stack EXCEPT ![n].phase = "packed", ![n].out = TRUE]
      /\ UNCHANGED <<sig, made, pool, kept>>
  BY DEF Pack, IsTop, CodeOut, CodeIn, ReflectIn
<1>2. /\ n \in DOMAIN stack /\ Top = stack[n] /\ Top \in Activations /\ Proper(Top) /\ Holds(Top, mem)
      /\ ScanAt(Top, mem, made) /\ Own(Top) \subseteq DOMAIN mem /\ MemOK(mem)
      /\ Unowned(stack, n - 1, Own(Top)) /\ Own(Top) \cap Loose(pool, kept) = {}
  BY <1>1, WorkingFacts
<1>3. stack' = [stack EXCEPT ![n] = a] /\ a \in Activations
  BY <1>1, <1>2 DEF Activations, Phases
<1>4. Top.heap = 0 /\ o # 0 /\ Own(Top) = {o}
  BY <1>1, <1>2 DEF Proper, HasHeap, Own, Callees
<1>5. mem'[o].bytes = w /\ Retained(mem, mem', {o})
  <2>1. MemOK(mem) /\ o \in DOMAIN mem
    BY <1>2, <1>4
  <2>2. mem' = [mem EXCEPT ![o].bytes = w]
    BY <1>1 DEF Put
  <2> HIDE DEF w, o
  <2>3. /\ mem'[o].bytes = w /\ \A p \in DOMAIN mem : p # o => mem'[p] = mem[p]
    BY <2>1, <2>2, PutMem
  <2> QED  BY <2>3 DEF Retained
<1>6. InAt(w, Top.id, FALSE)
  <2> DEFINE ret == RetOffset(FALSE)
             end == CodeOut(FALSE).end
             room == CodeSize(FALSE)
             b == Bytes(o)
  <2>1. DOMAIN b = 0..(room - 1)
    BY <1>1, <1>2, <1>4 DEF Holds, FrameHolds, FrameRcvr, Callees, Bytes, Room
  <2>2. /\ InOrder(CodeOut(FALSE).offs, Types(sig.out), ret, end) /\ end <= room
        /\ room \in Nat /\ ret \in Nat /\ ret <= end /\ end \in Nat
    BY FrameFacts DEF Working, StackOK, InOrder
  <2>3. LayoutInv /\ sig.out \in Seq(DOMAIN types)
    BY DEF Working, StackOK, SigOK
  <2>4. InAt(b, Top.id, FALSE)
    BY <1>1, <1>2 DEF ScanAt, Bytes
  <2> DEFINE id == Top.id
             offs == CodeOut(FALSE).offs
  <2>5. w = Written(b, id, "out", sig.out, offs)
    OBVIOUS
  <2> HIDE DEF ret, end, room, b, id, offs, w
  <2>6. InOrder(offs, Types(sig.out), ret, end)
    BY <2>2 DEF offs
  <2>7. room \in Nat /\ ret \in Nat /\ ret <= room
    BY ONLY <2>2
  <2>8. ASSUME NEW k \in 0..(ret - 1)  PROVE w[k] = b[k]
    <3>1. k \in DOMAIN b /\ k \in Nat /\ k < ret
      BY ONLY <2>1, <2>7, <2>8
    <3>2. Written(b, id, "out", sig.out, offs)[k] = b[k]
      BY ONLY <2>3, <2>6, <3>1, WrittenBehind
    <3> QED  BY ONLY <2>5, <3>2
  <2>9. \A k \in 0..(RetOffset(FALSE) - 1) : w[k] = b[k]
    BY <2>8 DEF ret
  <2>10. StackOK /\ InAt(b, Top.id, FALSE)
    BY <2>4 DEF Working
  <2> QED  BY <2>9, <2>10, InAtKept
<1> HIDE DEF w
<1>7. ScanAt(a, mem', made)
  BY <1>1, <1>2, <1>4, <1>5, <1>6 DEF ScanAt, Activations
<1>8. /\ PoolScan(pool, pool, mem', {o}) /\ KeptScan(kept, kept, mem', made, {o})
      /\ Unowned(stack, n - 1, {o})
  BY <1>2, <1>4, LooseScan
<1> HIDE DEF a, o
<1>9. Scan([stack EXCEPT ![Len(stack)] = a], mem', pool, kept, made)
  BY <1>1, <1>3, <1>5, <1>7, <1>8, TopScan
<1> QED  BY <1>1, <1>3, <1>9

LEMMA ReflectValidScans ==
  ASSUME Working, ReflectValid
  PROVE  Scan(stack', mem', pool', kept', made')
<1> DEFINE n == Len(stack)
           a == [Top EXCEPT !.phase = "done", !.retValid = TRUE, !.out = FALSE]
<1>1. /\ stack # <<>> /\ Top.op = "reflect" /\ Top.phase = "packed"
      /\ stack' = [stack EXCEPT ![n].phase = "done", ![n].retValid = TRUE, ![n].out = FALSE]
      /\ UNCHANGED <<sig, made, mem, pool, kept>>
  BY DEF ReflectValid, IsTop
<1>2. /\ n \in DOMAIN stack /\ Top = stack[n] /\ Top \in Activations /\ Proper(Top)
      /\ ScanAt(Top, mem, made) /\ Unowned(stack, n - 1, {})
  BY <1>1, WorkingFacts
<1>3. stack' = [stack EXCEPT ![n] = a] /\ a \in Activations
  BY <1>1, <1>2 DEF Activations, Phases
<1>4. ScanAt(a, mem, made)
  BY <1>1, <1>2 DEF ScanAt, Activations, Proper, HasHeap
<1>5. /\ PoolScan(pool, pool, mem, {}) /\ KeptScan(kept, kept, mem, made, {})
      /\ Retained(mem, mem, {})
  BY LooseScan DEF Retained
<1> HIDE DEF a
<1>6. Scan([stack EXCEPT ![Len(stack)] = a], mem, pool, kept, made)
  BY <1>1, <1>2, <1>3, <1>4, <1>5, TopScan
<1> QED  BY <1>1, <1>3, <1>6

LEMMA MethodValidScans ==
  ASSUME Working, MethodValid
  PROVE  Scan(stack', mem', pool', kept', made')
<1> DEFINE n == Len(stack)
           a == [Top EXCEPT !.phase = "valid", !.retValid = TRUE]
<1>1. /\ stack # <<>> /\ Top.op = "method" /\ Top.phase = "copied"
      /\ stack' = [stack EXCEPT ![n].phase = "valid", ![n].retValid = TRUE]
      /\ UNCHANGED <<sig, made, mem, pool, kept>>
  BY DEF MethodValid, IsTop
<1>2. /\ n \in DOMAIN stack /\ Top = stack[n] /\ Top \in Activations /\ Proper(Top)
      /\ ScanAt(Top, mem, made) /\ Unowned(stack, n - 1, {})
  BY <1>1, WorkingFacts
<1>3. stack' = [stack EXCEPT ![n] = a] /\ a \in Activations
  BY <1>1, <1>2 DEF Activations, Phases
<1>4. HasRcvr(a) = HasRcvr(Top)
  BY <1>2 DEF HasRcvr, Activations
<1>5. ScanAt(a, mem, made)
  BY <1>1, <1>2, <1>4 DEF ScanAt, Activations
<1>6. /\ PoolScan(pool, pool, mem, {}) /\ KeptScan(kept, kept, mem, made, {})
      /\ Retained(mem, mem, {})
  BY LooseScan DEF Retained
<1> HIDE DEF a
<1>7. Scan([stack EXCEPT ![Len(stack)] = a], mem, pool, kept, made)
  BY <1>1, <1>2, <1>3, <1>5, <1>6, TopScan
<1> QED  BY <1>1, <1>3, <1>7

LEMMA CopyResultsScans ==
  ASSUME Working, CopyResults
  PROVE  Scan(stack', mem', pool', kept', made')
<1> DEFINE n == Len(stack)
           o == Top.frame
           src == Bytes(Top.heap)
           dst == Bytes(o)
           from == RetOffset(TRUE)
           to == RetOffset(FALSE)
           big == CodeSize(TRUE)
           small == CodeSize(FALSE)
           len == big - from
           w == Moved(dst, to, src, from, len)
           a == [Top EXCEPT !.phase = "copied"]
<1>1. /\ stack # <<>> /\ Top.op = "method" /\ Top.phase = "returned"
      /\ mem' = Put(o, Moved(dst, funcLayout(TRUE).retOffset - ArgOffset, src,
                             funcLayout(TRUE).retOffset,
                             funcLayout(TRUE).size - funcLayout(TRUE).retOffset))
      /\ stack' = [stack EXCEPT ![n].phase = "copied"]
      /\ UNCHANGED <<sig, made, pool, kept>>
  BY DEF CopyResults, IsTop, Now
<1>2. /\ n \in DOMAIN stack /\ Top = stack[n] /\ Top \in Activations /\ Proper(Top) /\ Holds(Top, mem)
      /\ ScanAt(Top, mem, made) /\ Own(Top) \subseteq DOMAIN mem /\ MemOK(mem)
      /\ Unowned(stack, n - 1, Own(Top)) /\ Own(Top) \cap Loose(pool, kept) = {}
  BY <1>1, WorkingFacts
<1>3. stack' = [stack EXCEPT ![n] = a] /\ a \in Activations
  BY <1>1, <1>2 DEF Activations, Phases
<1>4. Top.heap # 0 /\ o # 0 /\ o # Top.heap /\ Own(Top) = {o, Top.heap}
  BY <1>1, <1>2 DEF Proper, HasHeap, Own, Callees
<1>5. Room(dst, FALSE) /\ OutAt(src, Top.id, TRUE) /\ InAt(dst, Top.id, FALSE)
  BY <1>1, <1>2, <1>4 DEF Holds, HeapHolds, HasRcvr, FrameHolds, FrameRcvr, Callees, Bytes, ScanAt
<1>6. /\ from = to + PtrSize /\ big = small + PtrSize /\ ArgOffset = PtrSize /\ PtrSize \in Nat
      /\ from \in Nat /\ to \in Nat /\ big \in Nat /\ small \in Nat
      /\ funcLayout(TRUE).retOffset = from /\ funcLayout(TRUE).size = big
  BY FrameShift, FrameFacts, FuncLayout, LayoutAssumption DEF Working, StackOK
<1>7. to <= small /\ DOMAIN dst = 0..(small - 1)
  <2> DEFINE end == CodeOut(FALSE).end
  <2>1. InOrder(CodeOut(FALSE).offs, Types(sig.out), to, end) /\ end <= small
    BY FrameFacts DEF Working, StackOK
  <2>2. end \in Nat /\ to <= end
    BY <2>1 DEF InOrder
  <2>3. DOMAIN dst = 0..(small - 1)
    BY <1>5 DEF Room
  <2> HIDE DEF end, to, small
  <2> QED  BY <1>6, <2>1, <2>2, <2>3
<1> HIDE DEF from, to, big, small, src, dst
<1>8. from - ArgOffset = to /\ len \in Int /\ to + len = small
  BY <1>6
<1>9. mem' = Put(o, w)
  BY <1>1, <1>6, <1>8
<1> HIDE DEF len
<1>10. \A k \in 0..(to - 1) : w[k] = dst[k]
  <2>1. \A k \in 0..(small - 1) : k < to => w[k] = dst[k]
    <3>1. /\ small \in Nat /\ DOMAIN dst = 0..(small - 1) /\ to \in Nat /\ from \in Nat
          /\ len \in Int /\ to + len <= small
      BY <1>6, <1>7, <1>8
    <3> QED  BY ONLY <3>1 DEF w, Moved
  <2> QED  BY <1>6, <1>7, <2>1
<1> HIDE DEF w
<1>11. InAt(w, Top.id, FALSE)
  <2>1. \A k \in 0..(RetOffset(FALSE) - 1) : w[k] = dst[k]
    BY <1>10 DEF to
  <2> QED  BY <1>5, <2>1, InAtKept DEF Working
<1>12. mem'[o].bytes = w /\ mem'[Top.heap] = mem[Top.heap] /\ Retained(mem, mem', {o})
  <2>1. MemOK(mem) /\ o \in DOMAIN mem /\ Top.heap \in DOMAIN mem
    BY <1>2, <1>4
  <2> QED  BY <1>4, <1>9, <2>1, PutMem DEF Put, Retained
<1>13. HasRcvr(a) = HasRcvr(Top)
  BY <1>2 DEF HasRcvr, Activations
<1>14. ScanAt(a, mem', made)
  BY <1>1, <1>2, <1>4, <1>5, <1>11, <1>12, <1>13 DEF ScanAt, Activations, src, Bytes
<1>15. {o} \cap Loose(pool, kept) = {} /\ Unowned(stack, n - 1, {o})
  BY <1>2, <1>4 DEF Unowned
<1>16. PoolScan(pool, pool, mem', {o}) /\ KeptScan(kept, kept, mem', made, {o})
  BY <1>15, LooseScan
<1> HIDE DEF a, o
<1>17. Scan([stack EXCEPT ![Len(stack)] = a], mem', pool, kept, made)
  BY <1>1, <1>3, <1>12, <1>14, <1>15, <1>16, TopScan
<1> QED  BY <1>1, <1>3, <1>17

LEMMA ReleaseScans ==
  ASSUME Working, Release
  PROVE  Scan(stack', mem', pool', kept', made')
<1> DEFINE n == Len(stack)
           o == Top.heap
           w == Blank(CodeSize(TRUE))
           a == [Top EXCEPT !.heap = 0, !.phase = "done"]
<1>1. /\ stack # <<>> /\ Top.op = "method" /\ Top.phase = "valid"
      /\ mem' = Put(o, w)
      /\ stack' = [stack EXCEPT ![n].heap = 0, ![n].phase = "done"]
      /\ pool' = [pool EXCEPT ![TRUE] = @ \cup {o}]
      /\ UNCHANGED <<sig, made, kept>>
  BY FuncLayout DEF Release, IsTop
<1>2. /\ n \in DOMAIN stack /\ Top = stack[n] /\ Top \in Activations /\ Proper(Top) /\ Holds(Top, mem)
      /\ ScanAt(Top, mem, made) /\ Own(Top) \subseteq DOMAIN mem /\ MemOK(mem)
      /\ Unowned(stack, n - 1, Own(Top)) /\ Own(Top) \cap Loose(pool, kept) = {}
  BY <1>1, WorkingFacts
<1>3. stack' = [stack EXCEPT ![n] = a] /\ a \in Activations
  BY <1>1, <1>2 DEF Activations, Phases
<1>4. /\ o # 0 /\ Top.frame # 0 /\ Top.frame # o /\ Own(Top) = {o, Top.frame}
  BY <1>1, <1>2 DEF Proper, HasHeap, Own, Callees
<1> HIDE DEF w
<1>5. mem'[Top.frame] = mem[Top.frame] /\ Retained(mem, mem', {o})
  <2>1. MemOK(mem) /\ o \in DOMAIN mem /\ Top.frame \in DOMAIN mem
    BY <1>2, <1>4
  <2> QED  BY <1>1, <1>4, <2>1, PutMem DEF Put, Retained
<1>6. FrameObject(mem'[o], TRUE)
  <2>1. HasRcvr(Top) = TRUE
    BY <1>1 DEF HasRcvr
  <2>2. FrameObject(mem[o], TRUE) /\ o \in DOMAIN mem
    BY <1>2, <1>4, <2>1 DEF ScanAt
  <2> QED  BY <1>1, <1>2, <2>2, PutMap DEF Put
<1>7. ScanAt(a, mem', made)
  BY <1>1, <1>2, <1>4, <1>5 DEF ScanAt, Activations
<1>8. {o} \cap Loose(pool, kept) = {} /\ Unowned(stack, n - 1, {o})
  BY <1>2, <1>4 DEF Unowned
<1>9. KeptScan(kept, kept, mem', made, {o}) /\ PoolScan(pool, pool, mem', {o})
  BY <1>8, LooseScan
<1>10. PoolScan(pool, pool', mem', {o})
  <2>1. DOMAIN pool = BOOLEAN
    BY DEF Working, StackOK, LooseOK
  <2>2. pool'[TRUE] = pool[TRUE] \cup {o} /\ pool'[FALSE] = pool[FALSE]
    BY <1>1, <2>1
  <2> QED  BY <1>6, <1>9, <2>2 DEF PoolScan
<1> HIDE DEF a, o
<1>11. Scan([stack EXCEPT ![Len(stack)] = a], mem', pool', kept, made)
  BY <1>1, <1>3, <1>5, <1>7, <1>8, <1>9, <1>10, TopScan
<1> QED  BY <1>1, <1>3, <1>11
-----------------------------------------------------------------------------
(* Steps that make frames                                                  *)

(* Nothing but arguments in a frame.                                       *)
Rest(b, r) == \A k \in RetOffset(r)..(CodeSize(r) - 1) : b[k] = Nothing

LEMMA CleanArgs ==
  ASSUME Marking, NEW r \in BOOLEAN, r => sig.rcvr # {}, NEW n \in Nat, NEW id \in 1..n,
         NEW b, InAt(b, id, r), Rest(b, r)
  PROVE  Clean(b, FrameMarks(r), n)
<1>1. ASSUME NEW w \in FrameMarks(r), w * PtrSize >= RetOffset(r)  PROVE b[w * PtrSize] \in Allowed(n)
  <2> DEFINE x == w * PtrSize
             ret == RetOffset(r)
             room == CodeSize(r)
             end == CodeIn(r).end
  <2>1. /\ ret \in Nat /\ room \in Nat /\ PtrSize \in Nat \ {0} /\ w \in Nat
        /\ (r /\ w = 0) => x = 0 /\ PtrSize <= ret
        /\ \A i \in DOMAIN sig.in : \A o \in PtrsOf(sig.in[i]) : CodeIn(r).offs[i] + o < ret
        /\ \A i \in DOMAIN sig.out : \A o \in PtrsOf(sig.out[i]) : CodeOut(r).offs[i] + o < room
        /\ \/ r /\ w = 0
           \/ \E i \in DOMAIN sig.in : \E o \in PtrsOf(sig.in[i]) : x = CodeIn(r).offs[i] + o
           \/ \E i \in DOMAIN sig.out : \E o \in PtrsOf(sig.out[i]) : x = CodeOut(r).offs[i] + o
    BY FrameWords
  <2>2. x \in Nat
    BY <2>1
  <2>3. x < ret \/ x < room
    <3>1. (r /\ w = 0) => x < ret
      <4>1. x = 0 /\ PtrSize <= ret => x < ret
        <5> HIDE DEF x, ret
        <5> QED  BY <2>1
      <4> QED  BY <2>1, <4>1, Zenon
    <3> HIDE DEF x, ret, room
    <3>2. (\E i \in DOMAIN sig.in : \E o \in PtrsOf(sig.in[i]) : x = CodeIn(r).offs[i] + o) => x < ret
      BY <2>1
    <3>3. (\E i \in DOMAIN sig.out : \E o \in PtrsOf(sig.out[i]) : x = CodeOut(r).offs[i] + o) => x < room
      BY <2>1
    <3> QED  BY <2>1, <3>1, <3>2, <3>3, Zenon
  <2>4. x \in ret..(room - 1)
    <3>1. x >= ret
      BY <1>1
    <3> HIDE DEF x, ret, room
    <3> QED  BY <2>1, <2>2, <2>3, <3>1
  <2>5. b[x] = Nothing
    BY <2>4 DEF Rest
  <2> QED  BY <2>5 DEF Allowed
<1> QED  BY <1>1, CleanFrame

(* A frame from a pool or a new one has the map of its kind.               *)
LEMMA TakenMap ==
  ASSUME Working, NEW r \in BOOLEAN, NEW o \in 1..New, GetFrom(r, o), NEW g, "bytes" \in DOMAIN g
  PROVE  /\ FrameObject(Frame(r, o), r)
         /\ LET m2 == WithFrame(o, g)
            IN  /\ m2[o] = g /\ Retained(mem, m2, {o})
                /\ PoolScan(pool, pool', m2, {o}) /\ \A n2 : KeptScan(kept, kept, m2, n2, {o})
<1> DEFINE m2 == WithFrame(o, g)
<1>1. /\ Calling(stack, mem, pool, kept) /\ LayoutInv /\ SigOK /\ Marking /\ MemOK(mem) /\ LooseOK(mem, pool, kept)
      /\ Scan(stack, mem, pool, kept, made)
  BY DEF Working, StackOK
<1>2. o \notin Loose(pool', kept)
  BY <1>1, FrameTaken
<1>3. FrameObject(Frame(r, o), r)
  <2>1. CASE o = New
    <3>1. Frame(r, o) = Object(Blank(funcLayout(r).size), FrameMap(r))
      BY <2>1 DEF Frame, Fresh
    <3>2. FrameMap(r) = FrameMarks(r)
      BY <1>1, FrameMapIs DEF Marking
    <3> QED  BY <3>1, <3>2 DEF Object, FrameObject
  <2>2. CASE o # New
    <3>1. o \in pool[r] /\ Frame(r, o) = mem[o]
      BY <2>2 DEF GetFrom, Frame
    <3> QED  BY <1>1, <3>1 DEF Scan
  <2> QED  BY <2>1, <2>2
<1>4. m2[o] = g /\ Retained(mem, m2, {o})
  <2>1. DOMAIN mem = 1..Len(mem) /\ Len(mem) \in Nat /\ New = Len(mem) + 1
    BY <1>1, MemFacts DEF New
  <2>2. CASE o = New
    <3>1. m2 = Append(mem, g)
      BY <2>2 DEF WithFrame
    <3> HIDE DEF m2
    <3> QED  BY <1>1, <2>1, <2>2, <3>1, AppendMem DEF Retained
  <2>3. CASE o # New
    <3>1. o \in DOMAIN mem
      BY <2>1, <2>3
    <3>2. m2 = [mem EXCEPT ![o] = g]
      BY <2>3 DEF WithFrame
    <3> HIDE DEF m2
    <3> QED  BY <1>1, <3>1, <3>2, ReplaceMem DEF Retained
  <2> QED  BY <2>2, <2>3
<1> HIDE DEF m2
<1>5. PoolScan(pool, pool', m2, {o})
  <2>1. ASSUME NEW q \in BOOLEAN, NEW p \in pool'[q]  PROVE p \in pool[q] /\ p \notin {o}
    <3>1. p \in Loose(pool', kept)
      BY DEF Loose
    <3>2. DOMAIN pool = BOOLEAN
      BY <1>1 DEF LooseOK
    <3>3. p \in pool[q]
      BY <3>2 DEF GetFrom
    <3> QED  BY <1>2, <3>1, <3>3
  <2> QED  BY <2>1 DEF PoolScan
<1>6. \A n2 : KeptScan(kept, kept, m2, n2, {o})
  <2>1. \A v \in kept : v.obj \notin {o}
    BY <1>2 DEF Loose
  <2> QED  BY <2>1 DEF KeptScan
<1> QED  BY <1>3, <1>4, <1>5, <1>6 DEF m2

LEMMA CallArgsRest ==
  ASSUME StackOK, NEW r \in BOOLEAN, NEW id, NEW f, f.bytes = Blank(CodeSize(r)), "bytes" \in DOMAIN f,
         FrameObject(f, r)
  PROVE  Rest(CallArgs(f, id, r).bytes, r) /\ FrameObject(CallArgs(f, id, r), r)
<1> DEFINE b == IF r THEN storeRcvr(f.bytes, id) ELSE f.bytes
           n == CodeSize(r)
           ret == RetOffset(r)
           end == CodeIn(r).end
           offs == CodeIn(r).offs
           w == Written(b, id, "in", sig.in, offs)
<1>1. /\ InOrder(offs, Types(sig.in), Base(r), end)
      /\ end \in Nat /\ n \in Nat /\ ret \in Nat /\ end <= ret /\ Base(r) <= end /\ PtrSize \in Nat \ {0}
      /\ Base(r) \in Nat
  BY FrameFacts, LayoutAssumption DEF StackOK, InOrder
<1>2. /\ DOMAIN b = 0..(n - 1)
      /\ \A k \in 0..(n - 1) : k >= ret => b[k] = Nothing
  <2>1. f.bytes = [k \in 0..(n - 1) |-> Nothing]
    BY DEF Blank
  <2>2. CASE r
    <3>1. Base(r) = PtrSize
      BY <2>2 DEF Base
    <3>2. b = [k \in 0..(n - 1) |-> IF k < PtrSize THEN Byte(id, Stored(CHOOSE q \in sig.rcvr : TRUE), 0, k)
                                    ELSE f.bytes[k]]
      BY <2>1, <2>2 DEF storeRcvr
    <3> DEFINE base == Base(r)
    <3>3. base = PtrSize /\ base <= end /\ end <= ret /\ base \in Nat /\ end \in Nat /\ ret \in Nat
      BY <1>1, <3>1
    <3> HIDE DEF b, n, ret, end, base
    <3> QED  BY <2>1, <3>2, <3>3
  <2>3. CASE ~r
    <3>1. b = f.bytes
      BY <2>3
    <3> HIDE DEF b, n, ret
    <3> QED  BY <2>1, <3>1
  <2> QED  BY <2>2, <2>3
<1>3. ASSUME NEW k \in 0..(n - 1), k >= ret  PROVE w[k] = Nothing
  <2>1. \A i \in DOMAIN sig.in : ~(k >= offs[i] /\ k < offs[i] + SizeOf(sig.in[i]))
    <3>1. ASSUME NEW i \in DOMAIN sig.in
          PROVE  offs[i] + SizeOf(sig.in[i]) <= end /\ offs[i] \in Nat /\ SizeOf(sig.in[i]) \in Nat
      <4>1. /\ SizeOf(sig.in[i]) \in Nat /\ i \in 1..Len(Types(sig.in))
            /\ Types(sig.in)[i].size = SizeOf(sig.in[i])
        BY TypesFacts DEF StackOK, SigOK
      <4> QED  BY <1>1, <4>1 DEF InOrder
    <3> HIDE DEF offs, end, ret, n
    <3> QED  BY <1>1, <1>3, <3>1
  <2>2. {i \in DOMAIN sig.in : k >= offs[i] /\ k < offs[i] + SizeOf(sig.in[i])} = {}
    BY <2>1
  <2>3. w[k] = b[k]
    <3> HIDE DEF b, offs
    <3> QED  BY <1>2, <2>2 DEF Written
  <2> QED  BY <1>2, <1>3, <2>3
<1>4. CallArgs(f, id, r) = [f EXCEPT !.bytes = w]
  BY DEF CallArgs, CodeIn
<1> HIDE DEF w
<1>5. CallArgs(f, id, r).bytes = w
  BY <1>4
<1>6. FrameObject(CallArgs(f, id, r), r)
  BY <1>4 DEF FrameObject
<1>7. Rest(w, r)
  <2>1. \A k \in ret..(n - 1) : k \in 0..(n - 1) /\ k >= ret
    BY <1>1
  <2> QED  BY <1>3, <2>1 DEF Rest
<1> QED  BY <1>5, <1>6, <1>7
-----------------------------------------------------------------------------
(* Calls                                                                   *)

LEMMA CallScans ==
  ASSUME Working, NEW target \in Targets, Call(target)
  PROVE  Scan(stack', mem', pool', kept', made')
<1> DEFINE r  == target = "method"
           id == made + 1
           n  == Len(stack)
<1>1. OfMethod(target) = (sig.rcvr # {}) /\ made' = id /\ kept' = kept
  BY DEF Call, MayCall
<1>2. PICK o \in 1..New :
        /\ GetFrom(r, o)
        /\ mem' = WithFrame(o, CallArgs(Frame(r, o), id, r))
        /\ stack' = Append(stack, Activation("caller", id, target, 0, o, "marshalled"))
  BY DEF Call
<1> DEFINE a == Activation("caller", id, target, 0, o, "marshalled")
           f == Frame(r, o)
           g == CallArgs(f, id, r)
<1>3. /\ StackOK /\ Marking /\ r \in BOOLEAN /\ (r => sig.rcvr # {}) /\ made \in Nat /\ id \in Nat /\ n \in Nat
      /\ Calling(stack, mem, pool, kept) /\ LayoutInv /\ SigOK /\ id \in 1..id /\ made <= id
      /\ stack \in Seq(Activations) /\ Scan(stack, mem, pool, kept, made)
  BY <1>1, StackFacts DEF Working, StackOK, OfMethod
<1>4. o \in Nat
  BY <1>3, MemFacts DEF StackOK, New
<1> HIDE DEF r, id
<1>5. f.bytes = Blank(CodeSize(r)) /\ "bytes" \in DOMAIN f /\ o # 0 /\ Unowned(stack, n, {o})
  BY <1>2, <1>3, FrameTaken
<1>6. "bytes" \in DOMAIN g /\ InAt(g.bytes, id, r)
  BY <1>3, <1>5, CallArgsFacts
<1> HIDE DEF g
<1>7. /\ FrameObject(f, r) /\ mem' = WithFrame(o, g) /\ mem'[o] = g /\ Retained(mem, mem', {o})
      /\ PoolScan(pool, pool', mem', {o}) /\ KeptScan(kept, kept, mem', id, {o})
  BY <1>2, <1>3, <1>6, TakenMap DEF g
<1> HIDE DEF f
<1>8. Rest(g.bytes, r) /\ FrameObject(g, r)
  BY <1>3, <1>5, <1>7, CallArgsRest DEF g
<1>9. Clean(g.bytes, FrameMarks(r), id)
  BY <1>3, <1>6, <1>8, CleanArgs
<1>10. a \in Activations /\ HasRcvr(a) = r
  BY <1>3, <1>4 DEF Activation, Activations, Phases, HasRcvr, r
<1>11. ScanAt(a, mem', id)
  BY <1>3, <1>7, <1>8, <1>9, <1>10 DEF ScanAt, Activation
<1> HIDE DEF a
<1>12. /\ stack' \in Seq(Activations) /\ Len(stack') = n + 1 /\ stack'[n + 1] = a
       /\ Stays(stack, stack', n)
  BY <1>2, <1>3, <1>10, AppendSeq DEF Stays, a
<1>13. \A k \in (n + 1)..Len(stack') : ScanAt(stack'[k], mem', id)
  <2>1. \A k \in (n + 1)..Len(stack') : k = n + 1
    BY <1>3, <1>12
  <2> QED  BY <1>11, <1>12, <2>1
<1>14. n <= Len(stack) /\ n <= Len(stack')
  BY <1>3, <1>12
<1> HIDE DEF n
<1>15. Scan(stack', mem', pool', kept, id)
  BY <1>3, <1>5, <1>7, <1>12, <1>13, <1>14, ScanProgress
<1> QED  BY <1>1, <1>15

(* callMethod's scratch frame has nothing behind the arguments.            *)
LEMMA MethodArgsRest ==
  ASSUME StackOK, NEW a, NEW f, f.bytes = Blank(CodeSize(TRUE)), "bytes" \in DOMAIN f, FrameObject(f, TRUE)
  PROVE  Rest(MethodArgs(f, a).bytes, TRUE) /\ FrameObject(MethodArgs(f, a), TRUE)
<1> DEFINE b == storeRcvr(f.bytes, a.id)
           n == CodeSize(TRUE)
           ret == RetOffset(TRUE)
           end == CodeIn(TRUE).end
           x == Bytes(a.frame)
           w == Moved(b, PtrSize, x, 0, end - PtrSize)
<1>1. /\ end \in Nat /\ n \in Nat /\ ret \in Nat /\ end <= ret /\ PtrSize <= end /\ PtrSize \in Nat \ {0}
  <2>1. Base(TRUE) = PtrSize
    BY DEF Base
  <2>2. InOrder(CodeIn(TRUE).offs, Types(sig.in), PtrSize, end)
    BY <2>1, FrameFacts DEF StackOK
  <2> QED  BY <2>2, FrameFacts, LayoutAssumption DEF StackOK, InOrder
<1>2. ArgOffset = PtrSize /\ funcLayout(TRUE).argSize = end
  BY FrameShift, FuncLayout DEF StackOK
<1>3. MethodArgs(f, a) = [f EXCEPT !.bytes = w]
  BY <1>2 DEF MethodArgs
<1>4. f.bytes = [k \in 0..(n - 1) |-> Nothing]
  BY DEF Blank
<1>5. b = [k \in 0..(n - 1) |-> IF k < PtrSize THEN Byte(a.id, Stored(CHOOSE q \in sig.rcvr : TRUE), 0, k)
                                ELSE f.bytes[k]]
  BY <1>4 DEF storeRcvr
<1> HIDE DEF n, ret, end, b, x
<1>6. ASSUME NEW k \in ret..(n - 1)  PROVE w[k] = Nothing
  <2>1. k \in 0..(n - 1) /\ ~(k < PtrSize) /\ ~(k < PtrSize + (end - PtrSize))
    BY <1>1
  <2>2. b[k] = Nothing
    BY <1>4, <1>5, <2>1
  <2>3. DOMAIN b = 0..(n - 1)
    BY <1>5
  <2>4. w[k] = b[k]
    BY <2>1, <2>3 DEF Moved
  <2> QED  BY <2>2, <2>4
<1> HIDE DEF w
<1>7. Rest(w, TRUE)
  BY <1>6 DEF Rest, ret, n
<1>8. MethodArgs(f, a).bytes = w
  BY <1>3
<1>9. FrameObject(MethodArgs(f, a), TRUE)
  BY <1>3 DEF FrameObject
<1> QED  BY <1>7, <1>8, <1>9

LEMMA AddReceiverScans ==
  ASSUME Working, AddReceiver
  PROVE  Scan(stack', mem', pool', kept', made')
<1> DEFINE n == Len(stack)
<1>1. /\ stack # <<>> /\ Top.op = "method" /\ Top.phase = "entered"
      /\ UNCHANGED <<sig, made, kept>>
  BY DEF AddReceiver, IsTop
<1>2. PICK o \in 1..New :
        /\ GetFrom(TRUE, o)
        /\ mem' = WithFrame(o, MethodArgs(Frame(TRUE, o), Top))
        /\ stack' = [stack EXCEPT ![n].heap = o, ![n].phase = "marshalled"]
  BY DEF AddReceiver
<1> DEFINE a == [Top EXCEPT !.heap = o, !.phase = "marshalled"]
           f == Frame(TRUE, o)
           g == MethodArgs(f, Top)
           r == TRUE
<1>3. /\ n \in DOMAIN stack /\ Top = stack[n] /\ Top \in Activations /\ Proper(Top) /\ Holds(Top, mem)
      /\ ScanAt(Top, mem, made) /\ Own(Top) \subseteq DOMAIN mem /\ made \in Nat /\ n \in Nat /\ n >= 1
      /\ (HasRcvr(Top) => sig.rcvr # {})
  BY <1>1, WorkingFacts
<1>4. StackOK /\ Marking /\ Calling(stack, mem, pool, kept) /\ LayoutInv /\ SigOK
  BY DEF Working, StackOK
<1>5. f.bytes = Blank(CodeSize(TRUE)) /\ "bytes" \in DOMAIN f /\ o # 0 /\ Unowned(stack, n, {o})
  BY <1>2, <1>4, FrameTaken
<1>6. sig.rcvr # {}
  BY <1>1, <1>3 DEF HasRcvr
<1>7. /\ Top.heap = 0 /\ Top.frame # 0 /\ Own(Top) = {Top.frame}
  BY <1>1, <1>3 DEF Proper, HasHeap, Own, Callees
<1>8. Top.frame # o
  <2>1. n \in 1..n /\ Own(stack[n]) \cap {o} = {}
    BY <1>3, <1>5 DEF Unowned
  <2> QED  BY <1>3, <1>7, <2>1
<1>9. Room(Bytes(Top.frame), FALSE) /\ InAt(Bytes(Top.frame), Top.id, FALSE)
  BY <1>1, <1>3 DEF Holds, FrameHolds, FrameRcvr, Callees, Bytes
<1>10. "bytes" \in DOMAIN g /\ InAt(g.bytes, Top.id, TRUE)
  BY <1>4, <1>5, <1>6, <1>9, MethodArgsFacts
<1> HIDE DEF g
<1>11. /\ FrameObject(f, TRUE) /\ mem' = WithFrame(o, g) /\ mem'[o] = g /\ Retained(mem, mem', {o})
       /\ PoolScan(pool, pool', mem', {o}) /\ KeptScan(kept, kept, mem', made, {o})
  <2>1. r \in BOOLEAN /\ GetFrom(r, o)
    BY <1>2
  <2>2. mem' = WithFrame(o, g)
    BY <1>2 DEF g
  <2> HIDE DEF r
  <2>3. /\ FrameObject(Frame(r, o), r) /\ mem'[o] = g /\ Retained(mem, mem', {o})
        /\ PoolScan(pool, pool', mem', {o}) /\ KeptScan(kept, kept, mem', made, {o})
    BY <1>10, <2>1, <2>2, TakenMap
  <2> QED  BY <2>2, <2>3 DEF r
<1> HIDE DEF f
<1>12. Rest(g.bytes, TRUE) /\ FrameObject(g, TRUE)
  BY <1>4, <1>5, <1>11, MethodArgsRest DEF g
<1>13. Clean(g.bytes, FrameMarks(TRUE), made)
  <2>1. r \in BOOLEAN /\ InAt(g.bytes, Top.id, r) /\ Rest(g.bytes, r) /\ Top.id \in 1..made
    BY <1>3, <1>10, <1>12 DEF ScanAt
  <2> HIDE DEF r
  <2>2. Clean(g.bytes, FrameMarks(r), made)
    BY <1>3, <1>4, <1>6, <2>1, CleanArgs
  <2> QED  BY <2>2 DEF r
<1>14. o \in Nat
  BY <1>4, MemFacts DEF StackOK, New
<1>15. stack' = [stack EXCEPT ![n] = a] /\ a \in Activations
  BY <1>2, <1>3, <1>14 DEF Activations, Phases
<1>16. HasRcvr(a) = TRUE
  BY <1>1, <1>3 DEF HasRcvr, Activations
<1>17. mem'[Top.frame] = mem[Top.frame]
  BY <1>3, <1>7, <1>8, <1>11 DEF Retained
<1>18. ScanAt(a, mem', made)
  BY <1>1, <1>3, <1>11, <1>12, <1>13, <1>16, <1>17 DEF ScanAt, Activations
<1>19. Unowned(stack, n - 1, {o})
  BY <1>3, <1>5 DEF Unowned
<1> HIDE DEF a
<1>20. Scan([stack EXCEPT ![Len(stack)] = a], mem', pool', kept, made)
  BY <1>1, <1>11, <1>15, <1>18, <1>19, TopScan
<1> QED  BY <1>1, <1>15, <1>20
-----------------------------------------------------------------------------
(* Frames on the stack                                                     *)

LEMMA CalleeScans ==
  ASSUME NEW a \in Activations, a.op \in {"caller", "client", "method"}, NEW o \in Nat, o # 0,
         OfMethod(a.target) = (sig.rcvr # {}), NEW m, NEW n, a.id \in 1..n,
         CalleeOp(a) \in {"reflect", "method"} => InAt(m[o].bytes, a.id, FALSE)
  PROVE  ScanAt(Callee(a, o), m, n)
<1> DEFINE c == Callee(a, o)
<1>1. /\ c.op = CalleeOp(a) /\ c.id = a.id /\ c.frame = o /\ c.heap = 0
      /\ c.phase \in {"running", "entered"}
  BY CalleeFacts
<1>2. c.retValid = FALSE
  BY DEF Callee, Activation
<1> HIDE DEF c
<1>3. ScanAt(c, m, n)
  BY <1>1, <1>2 DEF ScanAt
<1> QED  BY <1>3 DEF c

LEMMA EnterScans ==
  ASSUME Working, Enter
  PROVE  Scan(stack', mem', pool', kept', made')
<1> DEFINE n == Len(stack)
           j == n - 1
           d == Object(Bytes(Top.heap), {})
           m2 == Append(mem, d)
           a == [Top EXCEPT !.phase = "calling"]
           c == Callee(Top, New)
           s1 == [stack EXCEPT ![n].phase = "calling"]
           s2 == Append(s1, c)
<1>1. /\ stack # <<>> /\ Top.op \in {"caller", "method"} /\ Top.phase = "marshalled"
      /\ mem' = m2 /\ stack' = s2
      /\ UNCHANGED <<sig, made, pool, kept>>
  BY DEF Enter, IsTop, Resumed
<1>2. StackOK /\ Scan(stack, mem, pool, kept, made) /\ Calling(stack, mem, pool, kept)
  BY DEF Working, StackOK
<1>3. /\ n \in Nat /\ n >= 1 /\ n \in DOMAIN stack /\ n \in 1..Len(stack) /\ Top = stack[n]
      /\ Top \in Activations /\ Proper(Top) /\ Holds(Top, mem) /\ ScanAt(Top, mem, made)
      /\ Own(Top) \subseteq DOMAIN mem /\ stack \in Seq(Activations) /\ made \in Nat
  <2>1. DOMAIN stack = 1..Len(stack) /\ stack \in Seq(Activations)
    BY <1>2, StackFacts DEF StackOK
  <2> QED  BY <1>1, <2>1, WorkingFacts
<1>4. a \in Activations /\ HasRcvr(a) = HasRcvr(Top)
  BY <1>3 DEF Activations, Phases, HasRcvr
<1>5. New \in Nat /\ New # 0
  BY <1>2, NewObjects
<1>6. /\ c \in Activations /\ c.op = CalleeOp(Top) /\ c.op \in Callees /\ c.target = Top.target
  BY <1>1, <1>3, <1>5, CalleeFacts DEF Proper
<1> HIDE DEF c
<1>7. "bytes" \in DOMAIN d /\ d.bytes = Bytes(Top.heap)
  BY DEF Object
<1> HIDE DEF d
<1>8. m2[New] = d /\ \A p \in DOMAIN mem : m2[p] = mem[p]
  BY <1>2, <1>7, AppendNew
<1> HIDE DEF m2
<1>9. Top.heap # 0 /\ Top.heap \in Own(Top)
  BY <1>1, <1>3 DEF Proper, HasHeap, Own
<1>10. InAt(Bytes(Top.heap), Top.id, HasRcvr(Top))
  BY <1>1, <1>3, <1>9 DEF Holds, HeapHolds, Bytes
<1>11. FrameRcvr(c) = HasRcvr(Top)
  <2>1. Top.op = "method" => Top.target = "methodvalue"
    BY <1>2, <1>3, Callers
  <2>2. Top.target \in {"function", "makefunc", "method", "methodvalue"}
    BY <1>3 DEF Activations, Targets
  <2> QED  BY <1>1, <1>6, <2>1, <2>2 DEF FrameRcvr, HasRcvr, CalleeOp, OfMethod
<1>12. CalleeOp(Top) \in {"reflect", "method"} => InAt(m2[New].bytes, Top.id, FALSE)
  <2>1. CalleeOp(Top) \in {"reflect", "method"} => HasRcvr(Top) = FALSE
    BY <1>6, <1>11 DEF FrameRcvr
  <2> QED  BY <1>7, <1>8, <1>10, <2>1
<1>13. ScanAt(c, m2, made)
  <2>1. OfMethod(Top.target) = (sig.rcvr # {}) /\ Top.id \in 1..made
    BY <1>3 DEF Proper, ScanAt
  <2> QED  BY <1>1, <1>3, <1>5, <1>12, <2>1, CalleeScans DEF c
<1>14. ScanAt(a, m2, made)
  <2>1. /\ m2[Top.heap] = mem[Top.heap]
        /\ Top.op = "method" => m2[Top.frame] = mem[Top.frame]
    <3>1. Top.heap \in DOMAIN mem /\ (Top.op = "method" => Top.frame \in DOMAIN mem)
      BY <1>3, <1>9 DEF Own, Proper, Callees
    <3> QED  BY <1>8, <3>1
  <2> QED  BY <1>1, <1>3, <1>4, <2>1 DEF ScanAt, Activations
<1>15. /\ s1 \in Seq(Activations) /\ Len(s1) = n /\ s1[n] = a
       /\ \A k \in 1..n : k # n => s1[k] = stack[k]
  <2>1. s1 = [stack EXCEPT ![n] = a]
    BY <1>3
  <2> QED  BY <1>3, <1>4, <2>1, ReplaceTop
<1> HIDE DEF s1
<1>16. /\ s2 \in Seq(Activations) /\ Len(s2) = n + 1 /\ s2[n + 1] = c
       /\ \A k \in 1..n : s2[k] = s1[k]
  BY <1>6, <1>15, AppendSeq
<1> HIDE DEF s2, a
<1>17. /\ j \in Nat /\ j <= Len(stack) /\ j <= Len(s2)
       /\ \A k \in (j + 1)..Len(s2) : k = n \/ k = n + 1
       /\ \A k \in 1..j : k \in 1..n /\ k # n
  <2>1. n = Len(stack)
    OBVIOUS
  <2> HIDE DEF n
  <2> QED  BY <1>3, <1>16, <2>1
<1>18. Stays(stack, s2, j) /\ Unowned(stack, j, {})
  BY <1>15, <1>16, <1>17 DEF Stays, Unowned
<1>19. \A k \in (j + 1)..Len(s2) : ScanAt(s2[k], m2, made)
  <2>1. s2[n] = a /\ s2[n + 1] = c
    BY <1>3, <1>15, <1>16
  <2> QED  BY <1>13, <1>14, <1>17, <2>1
<1>20. Retained(mem, m2, {}) /\ PoolScan(pool, pool, m2, {}) /\ KeptScan(kept, kept, m2, made, {})
  BY <1>8, LooseScan DEF Retained
<1> HIDE DEF j, n
<1>21. Scan(s2, m2, pool, kept, made)
  <2>1. made <= made
    BY <1>3
  <2> QED  BY <1>2, <1>3, <1>16, <1>17, <1>18, <1>19, <1>20, <2>1, ScanProgress
<1> QED  BY <1>1, <1>21

LEMMA ClientCallScans ==
  ASSUME Working, NEW target \in Targets, ClientCall(target)
  PROVE  Scan(stack', mem', pool', kept', made')
<1> DEFINE n == Len(stack)
           id == made + 1
           a == Activation("client", id, target, New, 0, "calling")
           c == Callee(a, New)
           b == Written(Blank(CodeSize(FALSE)), id, "in", sig.in, CodeIn(FALSE).offs)
           d == Object(b, {})
           m2 == Append(mem, d)
           s1 == Append(stack, a)
           s2 == s1 \o <<c>>
<1>1. /\ OfMethod(target) = (sig.rcvr # {}) /\ target \in {"makefunc", "methodvalue"}
      /\ mem' = m2 /\ stack' = s2 /\ made' = id
      /\ UNCHANGED <<sig, pool, kept>>
  BY DEF ClientCall, MayCall
<1>2. StackOK /\ Scan(stack, mem, pool, kept, made) /\ Calling(stack, mem, pool, kept)
  BY DEF Working, StackOK
<1>3. /\ n \in Nat /\ id \in Nat /\ made \in Nat /\ made <= id /\ id \in 1..id
      /\ stack \in Seq(Activations) /\ n <= Len(stack)
  BY <1>2, StackFacts DEF StackOK
<1>4. New \in Nat /\ New # 0
  BY <1>2, NewObjects
<1>5. /\ a \in Activations /\ a.phase = "calling" /\ a.op = "client" /\ a.id = id
      /\ a.target = target /\ a.heap = 0
  BY <1>3, <1>4 DEF Activation, Activations, Phases
<1> HIDE DEF a
<1>6. c \in Activations
  BY <1>1, <1>4, <1>5, CalleeFacts
<1> HIDE DEF c
<1>7. s1 \in Seq(Activations) /\ Len(s1) = n + 1 /\ s1[n + 1] = a /\ \A k \in 1..n : s1[k] = stack[k]
  BY <1>3, <1>5, AppendSeq
<1>8. s2 = Append(s1, c)
  BY <1>6, <1>7
<1> HIDE DEF s1, s2
<1>9. /\ s2 \in Seq(Activations) /\ Len(s2) = (n + 1) + 1 /\ s2[(n + 1) + 1] = c
      /\ \A k \in 1..(n + 1) : s2[k] = s1[k]
  BY <1>6, <1>7, <1>8, AppendSeq
<1>10. /\ n <= Len(s2) /\ s2[n + 1] = a /\ s2[n + 2] = c /\ Stays(stack, s2, n)
       /\ \A k \in (n + 1)..Len(s2) : k = n + 1 \/ k = n + 2
  <2>1. /\ (n + 1) + 1 = n + 2 /\ n + 1 \in 1..(n + 1) /\ \A k \in 1..n : k \in 1..(n + 1)
    BY <1>3
  <2> HIDE DEF n
  <2>2. n <= Len(s2) /\ \A k \in (n + 1)..Len(s2) : k = n + 1 \/ k = n + 2
    BY <1>3, <1>9
  <2> QED  BY <1>7, <1>9, <2>1, <2>2 DEF Stays
<1>11. InAt(b, id, FALSE)
  <2>1. Room(Blank(CodeSize(FALSE)), FALSE)
    BY DEF Room, Blank
  <2> QED  BY <1>2, <2>1, ArgumentsWritten DEF StackOK
<1> HIDE DEF b
<1>12. "bytes" \in DOMAIN d /\ d.bytes = b
  BY DEF Object
<1> HIDE DEF d
<1>13. m2[New] = d /\ \A p \in DOMAIN mem : m2[p] = mem[p]
  BY <1>2, <1>12, AppendNew
<1> HIDE DEF m2
<1>14. ScanAt(c, m2, id)
  <2>1. InAt(m2[New].bytes, a.id, FALSE) /\ OfMethod(a.target) = (sig.rcvr # {}) /\ a.id \in 1..id
    BY <1>1, <1>3, <1>5, <1>11, <1>12, <1>13
  <2> QED  BY <1>4, <1>5, <2>1, CalleeScans DEF c
<1>15. ScanAt(a, m2, id)
  BY <1>3, <1>5 DEF ScanAt
<1>16. \A k \in (n + 1)..Len(s2) : ScanAt(s2[k], m2, id)
  BY <1>10, <1>14, <1>15
<1>17. /\ Retained(mem, m2, {}) /\ PoolScan(pool, pool, m2, {}) /\ KeptScan(kept, kept, m2, id, {})
       /\ Unowned(stack, n, {})
  BY <1>13, LooseScan DEF Retained, Unowned
<1> HIDE DEF id, n
<1>18. Scan(s2, m2, pool, kept, id)
  BY <1>2, <1>3, <1>9, <1>10, <1>16, <1>17, ScanProgress
<1> QED  BY <1>1, <1>18
-----------------------------------------------------------------------------
(* Values in variables                                                     *)

(* The collector knows variables by their types.                           *)
LEMMA CleanVariables ==
  ASSUME StackOK, Marking, NEW m, MemOK(m), DOMAIN m = DOMAIN mem, LooseOK(m, pool, kept),
         NEW b, NEW id, NEW what, NEW ts \in Seq(DOMAIN types), NEW offs,
         \A i \in DOMAIN ts : offs[i] \in Nat /\ Has(b, id, what, i, ts[i], offs[i]),
         NEW n, MarkBytes(id, what, ts) \subseteq Allowed(n)
  PROVE  LET m2 == m \o Variables(b, ts, offs)
         IN  \A v \in VariableRefs(id, what, ts) : Clean(m2[v.obj].bytes, m2[v.obj].map, n)
<1> DEFINE m2 == m \o Variables(b, ts, offs)
           kp2 == kept \cup VariableRefs(id, what, ts)
<1>1. LooseOK(m2, pool, kp2)
  BY VariablesGiven
<1>2. /\ Len(m) = Len(mem) /\ LayoutInv
      /\ \A i \in DOMAIN ts : m2[Len(m) + i].map = PtrWords(ts[i])
  <2>1. LayoutInv /\ MemOK(mem)
    BY DEF StackOK
  <2>2. \A i \in DOMAIN ts : m2[Len(m) + i].map = PtrWords(ts[i])
    BY <2>1, VariablesMem
  <2> QED  BY <2>1, <2>2, SameLength
<1> HIDE DEF m2
<1> SUFFICES ASSUME NEW v \in VariableRefs(id, what, ts)
             PROVE  Clean(m2[v.obj].bytes, m2[v.obj].map, n)
  BY DEF m2
<1>3. PICK i \in DOMAIN ts : v = Ref(Len(mem) + i, 0, id, what, i, ts[i])
  BY DEF VariableRefs
<1> DEFINE t == ts[i]
           c == m2[v.obj].bytes
<1>4. /\ v.obj = Len(m) + i /\ v.off = 0 /\ v.id = id /\ v.what = what /\ v.i = i /\ v.typ = t
  BY <1>2, <1>3 DEF Ref
<1>5. m2[v.obj].map = PtrWords(t)
  BY <1>2, <1>4
<1>6. Has(c, id, what, i, t, 0)
  BY <1>1, <1>4 DEF LooseOK
<1>7. t \in DOMAIN types
  BY SeqElements
<1>8. /\ PtrOffsets[t] = PtrsOf(t) /\ PtrSize \in Nat \ {0} /\ SizeOf(t) \in Nat
      /\ \A o \in PtrsOf(t) : o \in 0..(SizeOf(t) - 1)
  BY <1>7, PtrsFacts, LayoutAssumption
<1> HIDE DEF c
<1>9. ASSUME NEW o \in PtrsOf(t)  PROVE c[Words(o) * PtrSize] \in Allowed(n)
  <2>1. PICK j \in MarksOf(types[t]) : o = j * PtrSize
    BY DEF PtrsOf, BytesOf
  <2>2. j \in Nat
    <3>1. MapRules(types[t])
      BY <1>7 DEF Marking, MapInv, Maps
    <3>2. types[t].ptrdata \in Nat /\ Words(types[t].ptrdata) \in Nat
          /\ MarksOf(types[t]) \subseteq 0..(Words(types[t].ptrdata) - 1)
      BY <3>1, WordsFacts DEF MapRules
    <3> QED  BY <3>2
  <2>3. Words(o) = j
    <3>1. PtrSize * j = o
      BY <1>8, <2>1, <2>2
    <3>2. (PtrSize * j) \div PtrSize = j
      BY <1>8, <2>2, MultipleOf
    <3> QED  BY <3>1, <3>2 DEF Words
  <2>4. Words(o) * PtrSize = o
    BY <2>1, <2>3
  <2>5. o \in 0..(SizeOf(t) - 1) /\ 0 + o = o
    BY <1>8
  <2>6. c[0 + o] = Byte(id, what, i, o)
    BY <1>6, <2>5 DEF Has
  <2>7. c[o] = Byte(id, what, i, o)
    BY <2>5, <2>6
  <2>8. Byte(id, what, i, o) \in MarkBytes(id, what, ts)
    BY DEF MarkBytes
  <2> QED  BY <2>4, <2>7, <2>8
<1> QED  BY <1>5, <1>8, <1>9 DEF Clean, PtrWords, c

LEMMA UnpackScans ==
  ASSUME Working, Unpack
  PROVE  Scan(stack', mem', pool', kept', made')
<1> DEFINE n == Len(stack)
           b == Bytes(Top.frame)
           offs == CodeIn(FALSE).offs
           id == Top.id
           m2 == mem \o Variables(b, sig.in, offs)
           K == VariableRefs(id, "in", sig.in)
           a == [Top EXCEPT !.phase = "running"]
<1>1. /\ stack # <<>> /\ Top.op = "reflect" /\ Top.phase = "entered"
      /\ mem' = m2 /\ kept' = kept \cup K
      /\ stack' = [stack EXCEPT ![n].phase = "running"]
      /\ UNCHANGED <<sig, made, pool>>
  BY DEF Unpack, IsTop, Now, CodeIn, ReflectIn
<1>2. StackOK /\ Marking
  BY DEF Working
<1>3. /\ n \in DOMAIN stack /\ Top = stack[n] /\ Top \in Activations /\ Proper(Top) /\ Holds(Top, mem)
      /\ ScanAt(Top, mem, made) /\ Own(Top) \subseteq DOMAIN mem /\ made \in Nat
      /\ Unowned(stack, n - 1, {})
  BY <1>1, WorkingFacts
<1>4. stack' = [stack EXCEPT ![n] = a] /\ a \in Activations
  BY <1>1, <1>3 DEF Activations, Phases
<1>5. Top.heap = 0 /\ Top.frame # 0 /\ Top.frame \in DOMAIN mem
  <2>1. Top.heap = 0 /\ Top.frame # 0 /\ Own(Top) = {Top.frame}
    BY <1>1, <1>3 DEF Proper, HasHeap, Own, Callees
  <2> QED  BY <1>3, <2>1
<1>6. InAt(b, id, FALSE)
  BY <1>1, <1>3 DEF Holds, FrameHolds, FrameRcvr, Callees, Bytes
<1>7. \A i \in DOMAIN sig.in : offs[i] \in Nat /\ Has(b, id, "in", i, sig.in[i], offs[i])
  <2>1. /\ DOMAIN sig.in = 1..Len(Types(sig.in))
    BY <1>2, TypesFacts DEF StackOK, SigOK
  <2>2. InOrder(CodeIn(FALSE).offs, Types(sig.in), Base(FALSE), CodeIn(FALSE).end)
    BY <1>2, FrameFacts DEF StackOK
  <2> QED  BY <1>6, <2>1, <2>2 DEF InAt, InOrder
<1>8. MarkBytes(id, "in", sig.in) \subseteq Allowed(made)
  BY <1>3, KnownAllowed DEF ScanAt
<1>9. MemOK(mem) /\ LooseOK(mem, pool, kept) /\ sig.in \in Seq(DOMAIN types)
  BY <1>2 DEF StackOK, SigOK
<1> HIDE DEF b, offs, id
<1>10. \A v \in K : Clean(m2[v.obj].bytes, m2[v.obj].map, made)
  BY <1>2, <1>7, <1>8, <1>9, CleanVariables
<1>11. \A p \in DOMAIN mem : m2[p] = mem[p]
  <2>1. LayoutInv
    BY <1>2 DEF StackOK
  <2> QED  BY <1>9, <2>1, VariablesMem
<1> HIDE DEF m2, K
<1>12. ScanAt(a, m2, made)
  <2>1. m2[Top.frame] = mem[Top.frame]
    BY <1>5, <1>11
  <2> QED  BY <1>1, <1>3, <1>5, <2>1 DEF ScanAt, Activations
<1>13. Retained(mem, m2, {}) /\ PoolScan(pool, pool, m2, {})
  BY <1>11, LooseScan DEF Retained
<1>14. KeptScan(kept, kept \cup K, m2, made, {})
  BY <1>10 DEF KeptScan
<1> HIDE DEF a
<1>15. Scan([stack EXCEPT ![Len(stack)] = a], m2, pool, kept \cup K, made)
  BY <1>1, <1>3, <1>4, <1>12, <1>13, <1>14, TopScan
<1> QED  BY <1>1, <1>4, <1>15
-----------------------------------------------------------------------------
(* Returns                                                                 *)

(* Results are copied over a frame that is clean.                          *)
LEMMA CleanReturned ==
  ASSUME StackOK, Marking, NEW r \in BOOLEAN, NEW h, NEW b, Room(h, r), NEW n \in Nat, NEW id \in 1..n,
         OutAt(b, id, r), Clean(h, FrameMarks(r), n)
  PROVE  Clean(Moved(h, RetOffset(r), b, RetOffset(r), CodeSize(r) - RetOffset(r)), FrameMarks(r), n)
<1> DEFINE ret == RetOffset(r)
           room == CodeSize(r)
           last == CodeOut(r).end
           len == room - ret
           c == Moved(h, ret, b, ret, len)
<1>1. OutAt(c, id, r)
  BY ResultsCopied
<1>2. /\ InOrder(CodeOut(r).offs, Types(sig.out), ret, last) /\ last <= room /\ room \in Nat /\ ret \in Nat
  BY FrameFacts DEF StackOK
<1>3. last \in Nat /\ ret <= last /\ DOMAIN h = 0..(room - 1) /\ PtrSize \in Nat
  BY <1>2, LayoutAssumption DEF InOrder, Room
<1> SUFFICES ASSUME NEW w \in FrameMarks(r)  PROVE c[w * PtrSize] \in Allowed(n)
  BY DEF Clean
<1>4. CASE w * PtrSize >= RetOffset(r)
  <2> HIDE DEF c
  <2>1. c[w * PtrSize] \in MarkBytes(id, "out", sig.out)
    BY <1>1, <1>4, SeenOut
  <2> QED  BY <2>1, KnownAllowed
<1>5. CASE w * PtrSize < RetOffset(r)
  <2> DEFINE x == w * PtrSize
  <2>1. x \in Nat /\ x < ret
    <3>1. w \in Nat
      BY FrameWords
    <3> QED  BY <1>3, <1>5, <3>1
  <2>2. h[x] \in Allowed(n)
    BY DEF Clean
  <2>3. c[x] = h[x]
    <3> HIDE DEF x, ret, room, last
    <3>1. x \in DOMAIN h /\ ~(x >= ret)
      BY <1>2, <1>3, <2>1
    <3> HIDE DEF len
    <3> QED  BY <3>1 DEF Moved
  <2> QED  BY <2>2, <2>3
<1> QED  BY <1>4, <1>5, BeforeOrAfter

LEMMA ReturnScans ==
  ASSUME Working, stack # <<>>, Top.op \in Callees, Below.op # "client",
         NEW b, OutAt(b, Top.id, FrameRcvr(Top))
  PROVE  Scan(Resumed(Pop, "returned"), Returned(mem, Below, Top.frame, b), pool, kept, made)
<1> DEFINE n == Len(stack)
           j == n - 2
           o == Below.heap
           r == HasRcvr(Below)
           h == mem[o].bytes
           w == Moved(h, RetOffset(r), b, RetOffset(r), CodeSize(r) - RetOffset(r))
           m1 == [mem EXCEPT ![o].bytes = w]
           m2 == Dead(m1, {Top.frame})
           a == [Below EXCEPT !.phase = "returned"]
           s1 == Pop
           s2 == Resumed(Pop, "returned")
           U == Own(Below) \cup Own(Top)
<1>1. /\ n \in Nat /\ n > 1 /\ n - 1 \in DOMAIN stack /\ DOMAIN stack = 1..n
      /\ Below = stack[n - 1] /\ Below.phase = "calling"
      /\ Below \in Activations /\ Proper(Below) /\ Holds(Below, mem) /\ Calls(Below, Top)
      /\ Own(Below) \subseteq DOMAIN mem /\ Own(Below) \cap Loose(pool, kept) = {}
      /\ Own(Below) \cap Own(Top) = {} /\ Unowned(stack, j, U)
      /\ stack \in Seq(Activations) /\ StackOK /\ Marking /\ MemOK(mem)
      /\ Calling(stack, mem, pool, kept) /\ Scan(stack, mem, pool, kept, made) /\ made \in Nat
  BY BelowFacts, TopFacts DEF Working, StackOK
<1>2. Below.op \in {"caller", "method"} /\ r = FrameRcvr(Top) /\ o # 0
  BY <1>1, BelowFacts
<1>3. /\ Own(Top) \cap Loose(pool, kept) = {} /\ Own(Top) \subseteq DOMAIN mem
      /\ Top.frame \in Own(Top)
  <2>1. Proper(Top) /\ Own(Top) \cap Loose(pool, kept) = {} /\ Own(Top) \subseteq DOMAIN mem
    BY <1>1, TopFacts
  <2> QED  BY <2>1 DEF Own, Proper
<1>4. r \in BOOLEAN
  BY DEF HasRcvr
<1>5. o \in Own(Below) /\ o \in DOMAIN mem
  BY <1>1, <1>2 DEF Own
<1>6. Room(h, r)
  BY <1>1, <1>2 DEF Holds, HeapHolds
<1>7. OutAt(b, Below.id, r) /\ ScanAt(Below, mem, made)
  BY <1>1, <1>2 DEF Calls, Scan
<1>8. Clean(w, FrameMarks(r), made) /\ FrameObject(mem[o], r)
  <2>1. Below.id \in 1..made /\ Clean(h, FrameMarks(r), made) /\ FrameObject(mem[o], r)
    BY <1>2, <1>7 DEF ScanAt
  <2> HIDE DEF r, h
  <2> QED  BY <1>1, <1>4, <1>6, <1>7, <2>1, CleanReturned
<1>9. Returned(mem, Below, Top.frame, b) = m2
  <2>1. funcLayout(r).retOffset = RetOffset(r) /\ funcLayout(r).size = CodeSize(r)
    BY FuncLayout
  <2> QED  BY <2>1 DEF Returned
<1> HIDE DEF w
<1>10. /\ MemOK(m1) /\ DOMAIN m1 = DOMAIN mem /\ m1[o].bytes = w
       /\ \A p \in DOMAIN mem : p # o => m1[p] = mem[p]
  BY <1>1, <1>5, PutMem
<1>11. FrameObject(m1[o], r)
  <2> HIDE DEF r
  <2> QED  BY <1>1, <1>5, <1>8, PutMap
<1> HIDE DEF m1
<1>12. \A p \in DOMAIN mem : p # Top.frame => m2[p] = m1[p]
  BY <1>10, DeadMem
<1> HIDE DEF m2
<1>13. /\ m2[o].bytes = w /\ FrameObject(m2[o], r) /\ Retained(mem, m2, U)
  <2>1. o # Top.frame
    BY <1>1, <1>3, <1>5
  <2>2. m2[o] = m1[o]
    BY <1>5, <1>12, <2>1
  <2>3. Retained(mem, m2, U)
    BY <1>1, <1>3, <1>5, <1>10, <1>12 DEF Retained
  <2> QED  BY <1>10, <1>11, <2>2, <2>3
<1>14. \A p \in Own(Below) : p # o => m2[p] = mem[p]
  BY <1>1, <1>3, <1>10, <1>12
<1>15. a \in Activations /\ HasRcvr(a) = r
  BY <1>1 DEF Activations, Phases, HasRcvr
<1>16. ScanAt(a, m2, made)
  <2>1. Below.op = "method" => m2[Below.frame] = mem[Below.frame]
    <3>1. Below.op = "method" => Below.frame \in Own(Below) /\ Below.frame # o
      BY <1>1 DEF Own, Proper, Callees
    <3> QED  BY <1>14, <3>1
  <2>2. /\ a.op = Below.op /\ a.id = Below.id /\ a.phase = "returned" /\ a.frame = Below.frame
        /\ a.heap = o /\ a.retValid = Below.retValid
    BY <1>1 DEF Activations
  <2>3. /\ ScanAt(Below, mem, made) /\ Clean(m2[o].bytes, FrameMarks(r), made) /\ FrameObject(m2[o], r)
        /\ HasRcvr(a) = r /\ o # 0 /\ Below.op \in {"caller", "method"} /\ Below.phase = "calling"
        /\ HasRcvr(Below) = r
    BY <1>1, <1>2, <1>7, <1>8, <1>13, <1>15
  <2> HIDE DEF a, r
  <2> QED  BY ONLY <2>1, <2>2, <2>3 DEF ScanAt
<1>17. /\ s1 \in Seq(Activations) /\ Len(s1) = n - 1
       /\ \A k \in 1..(n - 1) : s1[k] = stack[k]
  BY <1>1, PopTop DEF Pop
<1>18. s2 = [s1 EXCEPT ![n - 1] = a] /\ n - 1 \in 1..Len(s1)
  <2>1. n - 1 \in 1..(n - 1)
    BY <1>1
  <2>2. s1[n - 1] = Below /\ Len(s1) = n - 1 /\ n - 1 \in 1..Len(s1)
    BY <1>1, <1>17, <2>1
  <2>3. s2 = [s1 EXCEPT ![Len(s1)].phase = "returned"]
    BY DEF Resumed
  <2> HIDE DEF s1, s2, n
  <2> QED  BY <2>2, <2>3
<1> HIDE DEF s2, s1, a
<1>19. /\ s2 \in Seq(Activations) /\ Len(s2) = n - 1 /\ s2[n - 1] = a
       /\ \A k \in 1..(n - 1) : k # n - 1 => s2[k] = s1[k]
  BY <1>15, <1>17, <1>18, ReplaceTop
<1> HIDE DEF n
<1>20. /\ j \in Nat /\ j <= n /\ j <= Len(s2) /\ n = Len(stack)
       /\ \A k \in (j + 1)..Len(s2) : k = n - 1
       /\ \A k \in 1..j : k \in 1..(n - 1) /\ k # n - 1
  <2>1. n = Len(stack)
    BY DEF n
  <2>2. n \in Nat /\ n > 1 /\ Len(s2) = n - 1
    BY <1>1, <1>19
  <2> HIDE DEF s2
  <2> QED  BY ONLY <2>1, <2>2 DEF j
<1>21. Stays(stack, s2, j)
  BY <1>17, <1>19, <1>20 DEF Stays
<1>22. \A k \in (j + 1)..Len(s2) : ScanAt(s2[k], m2, made)
  BY <1>16, <1>19, <1>20
<1>23. PoolScan(pool, pool, m2, U) /\ KeptScan(kept, kept, m2, made, U)
  <2>1. Own(Below) \cap Loose(pool, kept) = {} /\ Own(Top) \cap Loose(pool, kept) = {}
    BY ONLY <1>1, <1>3, Zenon
  <2>2. U \cap Loose(pool, kept) = {}
    BY ONLY <2>1
  <2> QED  BY <2>2, LooseScan
<1> HIDE DEF U, j
<1>24. Scan(s2, m2, pool, kept, made)
  <2>1. made \in Nat /\ j \in Nat /\ j <= n /\ n = Len(stack)
    BY ONLY <1>1, <1>20, Zenon
  <2>2. made <= made /\ j <= Len(stack)
    BY ONLY <2>1
  <2> QED  BY <1>1, <1>13, <1>19, <1>20, <1>21, <1>22, <1>23, <2>2, ScanProgress, Zenon
<1> QED  BY <1>9, <1>24 DEF s2, s1

LEMMA CodeReturnScans ==
  ASSUME Working, CodeReturn
  PROVE  Scan(stack', mem', pool', kept', made')
<1> DEFINE g == [k \in DOMAIN Bytes(Top.frame) |-> Garbage]
           r == HasRcvr(Top)
           b == Written(g, Top.id, "out", sig.out, CodeOut(r).offs)
<1>1. /\ stack # <<>> /\ Top.op = "code" /\ mem' = Returned(mem, Below, Top.frame, b)
      /\ stack' = Resumed(Pop, "returned") /\ UNCHANGED <<sig, made, pool, kept>>
  BY DEF CodeReturn, IsTop
<1>2. StackOK
  BY DEF Working
<1>3. Top.op \in Callees /\ Holds(Top, mem) /\ r \in BOOLEAN /\ r = FrameRcvr(Top)
  BY <1>1, <1>2, TopFacts DEF Callees, HasRcvr, FrameRcvr, OfMethod
<1>4. Below.op # "client"
  BY <1>1, <1>2, <1>3, BelowFacts
<1>5. Room(g, r)
  BY <1>3 DEF Holds, FrameHolds, Bytes, Room
<1> HIDE DEF g, r
<1>6. OutAt(b, Top.id, r)
  BY <1>2, <1>3, <1>5, ResultsWritten DEF StackOK
<1> HIDE DEF b
<1>7. Scan(Resumed(Pop, "returned"), Returned(mem, Below, Top.frame, b), pool, kept, made)
  BY <1>1, <1>3, <1>4, <1>6, ReturnScans
<1> QED  BY <1>1, <1>7

(* The collector knows the variables that a client has its results in.     *)
LEMMA LeaveScans ==
  ASSUME Working, Leave
  PROVE  Scan(stack', mem', pool', kept', made')
<1> DEFINE n == Len(stack)
           j == n - 2
           b == Bytes(Top.frame)
           offs == CodeOut(FALSE).offs
           m1 == Dead(mem, {Top.frame})
           m2 == m1 \o Variables(b, sig.out, offs)
           K == VariableRefs(Top.id, "out", sig.out)
           s1 == Pop
           s2 == SubSeq(s1, 1, Len(s1) - 1)
           U == {Top.frame}
<1>1. /\ stack # <<>> /\ Top.op \in {"reflect", "method"} /\ Top.phase = "done"
      /\ UNCHANGED <<sig, made, pool>>
  BY DEF Leave, IsTop
<1>2. StackOK /\ Marking /\ Scan(stack, mem, pool, kept, made) /\ Calling(stack, mem, pool, kept)
      /\ made \in Nat
  BY DEF Working, StackOK
<1>3. /\ Top.op \in Callees /\ Holds(Top, mem) /\ FrameRcvr(Top) = FALSE
      /\ Top.frame \in Own(Top) /\ Own(Top) \subseteq DOMAIN mem
      /\ Own(Top) \cap Loose(pool, kept) = {} /\ Top.id \in 1..made
  <2>1. Top.op \in Callees /\ Proper(Top) /\ FrameRcvr(Top) = FALSE
    BY <1>1, <1>2, TopFacts DEF Callees, FrameRcvr
  <2>2. ScanAt(Top, mem, made)
    BY <1>1, WorkingFacts
  <2> QED  BY <1>1, <1>2, <2>1, <2>2, TopFacts DEF Own, Proper, ScanAt
<1>4. OutAt(b, Top.id, FALSE)
  BY <1>1, <1>3 DEF Holds, FrameHolds, Bytes
<1>5. ASSUME Below.op = "caller"  PROVE Scan(stack', mem', pool', kept', made')
  <2>1. Scan(Resumed(Pop, "returned"), Returned(mem, Below, Top.frame, b), pool, kept, made)
    BY <1>1, <1>3, <1>4, <1>5, ReturnScans
  <2> QED  BY <1>1, <1>5, <2>1 DEF Leave
<1>6. ASSUME Below.op # "caller"  PROVE Scan(stack', mem', pool', kept', made')
  <2>1. mem' = m2 /\ stack' = s2 /\ kept' = kept \cup K
    BY <1>6 DEF Leave
  <2>2. /\ n \in Nat /\ n > 1 /\ stack \in Seq(Activations)
        /\ Unowned(stack, n - 2, Own(Below) \cup Own(Top))
    BY <1>1, <1>2, <1>3, BelowFacts, TopFacts DEF StackOK
  <2>3. /\ s1 \in Seq(Activations) /\ Len(s1) = n - 1
        /\ \A k \in 1..(n - 1) : s1[k] = stack[k]
    BY <1>1, <2>2, PopTop DEF Pop
  <2> HIDE DEF s1
  <2>4. s1 # <<>>
    BY <2>2, <2>3
  <2>5. /\ s2 \in Seq(Activations) /\ Len(s2) = (n - 1) - 1
        /\ \A k \in 1..((n - 1) - 1) : s2[k] = s1[k]
    BY <2>3, <2>4, PopTop
  <2> HIDE DEF s2
  <2>6. /\ j \in Nat /\ j <= Len(stack) /\ j <= Len(s2)
        /\ \A k \in 1..j : k \in 1..(n - 1) /\ k \in 1..((n - 1) - 1)
        /\ \A k \in (j + 1)..Len(s2) : FALSE
    <3> HIDE DEF n
    <3>1. n \in Nat /\ n > 1 /\ n = Len(stack) /\ Len(s2) = (n - 1) - 1
      BY <2>2, <2>5 DEF n
    <3> QED  BY <3>1
  <2>7. Stays(stack, s2, j)
    BY <2>3, <2>5, <2>6 DEF Stays
  <2>8. /\ MemOK(m1) /\ DOMAIN m1 = DOMAIN mem
        /\ \A p \in DOMAIN mem : p \notin {Top.frame} => m1[p] = mem[p]
    BY <1>2, DeadMem DEF StackOK
  <2> HIDE DEF m1, b, offs
  <2>9. LooseOK(m1, pool, kept)
    <3>1. LooseOK(mem, pool, kept) /\ DOMAIN pool = BOOLEAN /\ Loose(pool, kept) \subseteq DOMAIN mem
      BY <1>2 DEF StackOK, LooseOK
    <3>2. \A p \in Loose(pool, kept) : p \in DOMAIN m1 /\ m1[p].bytes = mem[p].bytes
      BY <1>3, <2>8, <3>1
    <3> QED  BY <3>1, <3>2, LooseSame
  <2>10. sig.out \in Seq(DOMAIN types) /\ LayoutInv
    BY <1>2 DEF StackOK, SigOK
  <2>11. \A i \in DOMAIN sig.out : offs[i] \in Nat /\ Has(b, Top.id, "out", i, sig.out[i], offs[i])
    <3>1. Len(Types(sig.out)) = Len(sig.out) /\ DOMAIN sig.out = 1..Len(sig.out)
      BY <2>10, TypesFacts
    <3>2. InOrder(CodeOut(FALSE).offs, Types(sig.out), RetOffset(FALSE), CodeOut(FALSE).end)
      BY <1>2, FrameFacts DEF StackOK
    <3>3. \A i \in DOMAIN sig.out : CodeOut(FALSE).offs[i] \in Nat
      BY <3>1, <3>2 DEF InOrder
    <3> QED  BY <1>4, <3>3 DEF OutAt, offs
  <2>12. MarkBytes(Top.id, "out", sig.out) \subseteq Allowed(made)
    BY <1>2, <1>3, KnownAllowed
  <2>13. \A v \in K : Clean(m2[v.obj].bytes, m2[v.obj].map, made)
    BY <1>2, <2>8, <2>9, <2>10, <2>11, <2>12, CleanVariables
  <2>14. \A p \in DOMAIN m1 : m2[p] = m1[p]
    BY <2>8, <2>10, VariablesMem
  <2> HIDE DEF m2, K
  <2>15. Retained(mem, m2, U)
    BY <2>8, <2>14 DEF Retained
  <2>16. Unowned(stack, j, U) /\ U \cap Loose(pool, kept) = {}
    BY <1>3, <2>2 DEF Unowned
  <2>17. PoolScan(pool, pool, m2, U) /\ KeptScan(kept, kept \cup K, m2, made, U)
    <3>1. PoolScan(pool, pool, m2, U) /\ KeptScan(kept, kept, m2, made, U)
      BY <2>16, LooseScan
    <3> QED  BY <2>13, <3>1 DEF KeptScan
  <2>18. made <= made /\ \A k \in (j + 1)..Len(s2) : ScanAt(s2[k], m2, made)
    BY <1>2, <2>6
  <2> HIDE DEF U, j, n
  <2>19. Scan(s2, m2, pool, kept \cup K, made)
    BY <1>2, <2>5, <2>6, <2>7, <2>15, <2>16, <2>17, <2>18, ScanProgress
  <2> QED  BY <1>1, <2>1, <2>19
<1> QED  BY <1>5, <1>6
-----------------------------------------------------------------------------
(* Frames that calls leave behind                                          *)

LEMMA MarksInside ==
  ASSUME Marking, NEW r \in BOOLEAN, NEW w \in FrameMarks(r)
  PROVE  w * PtrSize \in 0..(CodeSize(r) - 1)
<1> DEFINE x == w * PtrSize
           ret == RetOffset(r)
           room == CodeSize(r)
           last == CodeOut(r).end
<1>1. /\ ret \in Nat /\ room \in Nat /\ PtrSize \in Nat \ {0} /\ w \in Nat
      /\ (r /\ w = 0) => PtrSize <= ret
      /\ \A i \in DOMAIN sig.in : \A o \in PtrsOf(sig.in[i]) : CodeIn(r).offs[i] + o < ret
      /\ \A i \in DOMAIN sig.out : \A o \in PtrsOf(sig.out[i]) : CodeOut(r).offs[i] + o < room
      /\ \/ r /\ w = 0
         \/ \E i \in DOMAIN sig.in : \E o \in PtrsOf(sig.in[i]) : x = CodeIn(r).offs[i] + o
         \/ \E i \in DOMAIN sig.out : \E o \in PtrsOf(sig.out[i]) : x = CodeOut(r).offs[i] + o
  BY FrameWords
<1>2. ret <= room
  <2>1. InOrder(CodeOut(r).offs, Types(sig.out), ret, last) /\ last <= room
    BY FrameFacts DEF Marking
  <2>2. last \in Nat /\ ret <= last
    BY <2>1 DEF InOrder
  <2> HIDE DEF last, ret, room
  <2> QED  BY <1>1, <2>1, <2>2
<1>3. x \in Nat /\ (w = 0 => x = 0)
  BY <1>1
<1>4. (r /\ w = 0) => x < ret
  <2>1. w = 0 /\ PtrSize <= ret => x < ret
    <3> HIDE DEF x, ret
    <3> QED  BY <1>1, <1>3
  <2> QED  BY <1>1, <2>1, Zenon
<1> HIDE DEF x, ret, room
<1>5. (\E i \in DOMAIN sig.in : \E o \in PtrsOf(sig.in[i]) : x = CodeIn(r).offs[i] + o) => x < ret
  BY <1>1
<1>6. (\E i \in DOMAIN sig.out : \E o \in PtrsOf(sig.out[i]) : x = CodeOut(r).offs[i] + o) => x < room
  BY <1>1
<1>7. x < ret \/ x < room
  BY <1>1, <1>4, <1>5, <1>6, Zenon
<1>8. x \in 0..(room - 1)
  BY <1>1, <1>2, <1>3, <1>7
<1> QED  BY <1>8 DEF x, room

(* What is cleared is clean.                                               *)
LEMMA CleanCleared ==
  ASSUME Marking, NEW r \in BOOLEAN, NEW b, Room(b, r), NEW n, Clean(b, FrameMarks(r), n), NEW to
  PROVE  Clean(Cleared(b, 0, to), FrameMarks(r), n)
<1> DEFINE c == Cleared(b, 0, to)
<1> SUFFICES ASSUME NEW w \in FrameMarks(r)  PROVE c[w * PtrSize] \in Allowed(n)
  BY DEF Clean
<1> DEFINE x == w * PtrSize
<1>1. x \in DOMAIN b
  BY MarksInside DEF Room
<1>2. b[x] \in Allowed(n)
  BY DEF Clean
<1>3. Nothing \in Allowed(n)
  BY DEF Allowed
<1> HIDE DEF x
<1>4. c[x] = Nothing \/ c[x] = b[x]
  BY <1>1 DEF Cleared
<1> HIDE DEF c
<1>5. c[x] \in Allowed(n)
  BY <1>2, <1>3, <1>4
<1> QED  BY <1>5 DEF x

LEMMA FinishScans ==
  ASSUME Working, Finish
  PROVE  Scan(stack', mem', pool', kept', made')
<1> DEFINE n == Len(stack)
           j == n - 1
           r == HasRcvr(Top)
           o == Top.heap
           b == Bytes(o)
           to == IF UsesPool THEN CodeSize(r) ELSE RetOffset(r)
           w == Cleared(b, 0, to)
           m2 == Put(o, w)
           K == Refs(o, CodeOut(r).offs, Top.id, "out", sig.out)
           U == {o}
<1>1. /\ stack # <<>> /\ Top.op = "caller" /\ Top.phase = "returned"
      /\ stack' = Pop /\ UNCHANGED <<sig, made>>
  BY DEF Finish, IsTop
<1>2. /\ StackOK /\ Marking /\ LayoutInv /\ SigOK /\ Scan(stack, mem, pool, kept, made)
      /\ Calling(stack, mem, pool, kept) /\ made \in Nat /\ stack \in Seq(Activations)
      /\ DOMAIN pool = BOOLEAN /\ MemOK(mem)
  BY DEF Working, StackOK, LooseOK
<1>3. r \in BOOLEAN
  BY DEF HasRcvr
<1>4. /\ mem' = m2 /\ kept' = kept \cup K
      /\ pool' = IF UsesPool THEN [pool EXCEPT ![r] = @ \cup {o}] ELSE pool
  <2>1. /\ funcLayout(r).retOffset = RetOffset(r) /\ funcLayout(r).size = CodeSize(r)
        /\ Placed(RetOffset(r), Types(sig.out)) = CodeOut(r)
    BY <1>3, FuncLayout DEF CodeOut, RetOffset
  <2> QED  BY <2>1 DEF Finish
<1>5. /\ Proper(Top) /\ Holds(Top, mem) /\ Own(Top) \subseteq DOMAIN mem
      /\ Own(Top) \cap Loose(pool, kept) = {} /\ ScanAt(Top, mem, made)
      /\ Unowned(stack, n - 1, Own(Top)) /\ n \in Nat /\ n >= 1
  BY <1>1, WorkingFacts
<1>6. o # 0 /\ o \in Own(Top) /\ o \in DOMAIN mem /\ o \notin Loose(pool, kept)
  BY <1>1, <1>5 DEF Proper, HasHeap, Own
<1>7. Room(b, r)
  BY <1>5, <1>6 DEF Holds, HeapHolds, Bytes
<1>8. Clean(b, FrameMarks(r), made) /\ FrameObject(mem[o], r)
  BY <1>5, <1>6 DEF ScanAt, Bytes
<1> HIDE DEF b, r, o
<1>9. Clean(w, FrameMarks(r), made)
  BY <1>2, <1>3, <1>7, <1>8, CleanCleared
<1> HIDE DEF w
<1>10. /\ m2[o].bytes = w /\ Retained(mem, m2, U)
  BY <1>2, <1>6, PutMem DEF Put, Retained
<1>11. FrameObject(m2[o], r)
  BY <1>2, <1>6, <1>8, PutMap DEF Put
<1> HIDE DEF m2
<1>12. /\ PoolScan(pool, pool, m2, U) /\ KeptScan(kept, kept, m2, made, U)
       /\ Unowned(stack, j, U)
  BY <1>5, <1>6, LooseScan DEF Unowned
<1>13. PoolScan(pool, pool', m2, U)
  <2>1. CASE ~UsesPool
    BY <1>4, <1>12, <2>1
  <2>2. CASE UsesPool
    <3>1. /\ pool'[r] = pool[r] \cup {o} /\ \A q \in BOOLEAN : q # r => pool'[q] = pool[q]
      BY <1>2, <1>3, <1>4, <2>2
    <3> QED  BY <1>11, <1>12, <3>1 DEF PoolScan
  <2> QED  BY <2>1, <2>2
<1>14. KeptScan(kept, kept \cup K, m2, made, U)
  <2>1. \A v \in K : v.obj = o
    BY DEF Refs, Ref
  <2>2. m2[o].map = FrameMarks(r)
    BY <1>11 DEF FrameObject
  <2> HIDE DEF K
  <2>3. \A v \in K : Clean(m2[v.obj].bytes, m2[v.obj].map, made)
    BY <1>9, <1>10, <2>1, <2>2
  <2> QED  BY <1>12, <2>3 DEF KeptScan
<1>15. /\ stack' \in Seq(Activations) /\ Len(stack') = n - 1
       /\ \A k \in 1..(n - 1) : stack'[k] = stack[k]
  BY <1>1, <1>2, PopTop DEF Pop
<1>16. /\ j \in Nat /\ j <= Len(stack) /\ j <= Len(stack') /\ Stays(stack, stack', j)
       /\ \A k \in (j + 1)..Len(stack') : FALSE
  <2>1. n = Len(stack)
    OBVIOUS
  <2> HIDE DEF n
  <2>2. j \in Nat /\ j <= Len(stack) /\ j <= Len(stack') /\ \A k \in (j + 1)..Len(stack') : FALSE
    BY <1>5, <1>15, <2>1
  <2> QED  BY <1>15, <2>2 DEF Stays
<1>17. made <= made /\ \A k \in (j + 1)..Len(stack') : ScanAt(stack'[k], m2, made)
  BY <1>2, <1>16
<1> HIDE DEF K, U, j, n
<1>18. Scan(stack', m2, pool', kept \cup K, made)
  BY <1>2, <1>10, <1>12, <1>13, <1>14, <1>15, <1>16, <1>17, ScanProgress
<1> QED  BY <1>1, <1>4, <1>18

LEMMA PanicScans ==
  ASSUME Working, Panic
  PROVE  Scan(stack', mem', pool', kept', made')
<1> DEFINE S == {stack[k].frame : k \in DOMAIN stack}
           m2 == Dead(mem, S)
<1>1. /\ stack # <<>> /\ mem' = m2 /\ stack' = <<>> /\ UNCHANGED <<sig, made, pool, kept>>
  BY DEF Panic
<1>2. /\ StackOK /\ Scan(stack, mem, pool, kept, made) /\ Calling(stack, mem, pool, kept)
      /\ made \in Nat /\ MemOK(mem) /\ LooseOK(mem, pool, kept)
  BY DEF Working, StackOK
<1>3. \A p \in DOMAIN mem : p \notin S => m2[p] = mem[p]
  BY <1>2, DeadMem
<1> HIDE DEF m2
<1>4. S \cap Loose(pool, kept) = {}
  <2> SUFFICES ASSUME NEW n \in DOMAIN stack, stack[n].frame \in Loose(pool, kept)  PROVE FALSE
    OBVIOUS
  <2>1. stack[n].frame # 0
    BY <1>2, MemFacts DEF LooseOK
  <2>2. PICK k \in DOMAIN stack : stack[n].frame \in Own(stack[k])
    BY <1>2, <2>1, FramesOwned
  <2>3. Own(stack[k]) \cap Loose(pool, kept) = {}
    BY <1>2 DEF Calling
  <2> QED  BY <2>2, <2>3
<1>5. PoolScan(pool, pool, m2, S) /\ KeptScan(kept, kept, m2, made, S) /\ Retained(mem, m2, S)
  BY <1>3, <1>4, LooseScan DEF Retained
<1> HIDE DEF S
<1>6. /\ 0 \in Nat /\ 0 <= Len(stack) /\ <<>> \in Seq(Activations) /\ 0 <= Len(<<>>)
      /\ Stays(stack, <<>>, 0) /\ Unowned(stack, 0, S) /\ made <= made
      /\ \A k \in (0 + 1)..Len(<<>>) : ScanAt(<<>>[k], m2, made)
  BY <1>2, StackFacts DEF StackOK, Stays, Unowned
<1>7. Scan(<<>>, m2, pool, kept, made)
  BY <1>2, <1>5, <1>6, ScanProgress
<1> QED  BY <1>1, <1>7

-----------------------------------------------------------------------------
(* Together                                                                *)
ScanInv ==
  /\ CallInv /\ MapInv /\ SigFramed
  /\ ~wrapped => Scan(stack, mem, pool, kept, made)

LEMMA ScansWhile ==
  ASSUME Working, CallStep, ~StartCalls
  PROVE  Scan(stack', mem', pool', kept', made') /\ sig' = sig
<1>1. CASE Enter         BY <1>1, EnterScans DEF Enter
<1>2. CASE Finish        BY <1>2, FinishScans DEF Finish
<1>3. CASE CodeReturn    BY <1>3, CodeReturnScans DEF CodeReturn
<1>4. CASE Leave         BY <1>4, LeaveScans DEF Leave
<1>5. CASE Panic         BY <1>5, PanicScans DEF Panic
<1>6. ASSUME NEW target \in Targets, Call(target) \/ ClientCall(target)
      PROVE  Scan(stack', mem', pool', kept', made') /\ sig' = sig
  <2>1. CASE Call(target)       BY <2>1, CallScans DEF Call
  <2>2. CASE ClientCall(target) BY <2>2, ClientCallScans DEF ClientCall
  <2> QED  BY <1>6, <2>1, <2>2
<1>7. CASE Unpack        BY <1>7, UnpackScans DEF Unpack
<1>8. CASE Pack          BY <1>8, PackScans DEF Pack
<1>9. CASE ReflectValid  BY <1>9, ReflectValidScans DEF ReflectValid
<1>10. CASE AddReceiver  BY <1>10, AddReceiverScans DEF AddReceiver
<1>11. CASE CopyResults  BY <1>11, CopyResultsScans DEF CopyResults
<1>12. CASE MethodValid  BY <1>12, MethodValidScans DEF MethodValid
<1>13. CASE Release      BY <1>13, ReleaseScans DEF Release
<1> QED  BY <1>1, <1>2, <1>3, <1>4, <1>5, <1>6, <1>7, <1>8, <1>9, <1>10, <1>11, <1>12, <1>13
         DEF CallStep

(* Before there are calls nothing is on the stack, in a pool or kept.      *)
LEMMA EmptyScans ==
  ASSUME CallInv, sig = NoSig, UNCHANGED <<made, mem, stack, pool, kept>>
  PROVE  Scan(stack, mem, pool, kept, made)'
<1>1. stack' = <<>> /\ kept' = {} /\ pool'[TRUE] = {} /\ pool'[FALSE] = {}
  BY NoCalls
<1>2. DOMAIN stack' = {}
  BY <1>1
<1>3. ASSUME NEW r \in BOOLEAN  PROVE pool'[r] = {}
  <2>1. r = TRUE \/ r = FALSE
    OBVIOUS
  <2> QED  BY <1>1, <2>1, Zenon
<1> QED  BY <1>1, <1>2, <1>3 DEF Scan

LEMMA ActualFramed ==
  ASSUME NEW ts \in Seq(DOMAIN BasicTypes \cup {Newest}), Mentions(ts) => Len(types) \in Usable
  PROVE  Framed(Actual(ts))
<1>1. ASSUME NEW k \in DOMAIN ts
      PROVE  Actual(ts)[k] \in Usable \cup DOMAIN BasicTypes
  <2>1. ts[k] \in DOMAIN BasicTypes \cup {Newest}
    OBVIOUS
  <2>2. CASE ts[k] = Newest   BY <2>2 DEF Actual, Mentions
  <2>3. CASE ts[k] # Newest   BY <2>1, <2>3 DEF Actual
  <2> QED  BY <2>2, <2>3
<1>2. DOMAIN Actual(ts) = DOMAIN ts
  BY DEF Actual
<1> QED  BY <1>1, <1>2 DEF Framed

LEMMA InitScan ==
  ASSUME CallInit
  PROVE  ScanInv
<1>1. CallInv /\ MapInv
  BY InitCall, InitMap DEF CallInit
<1>2. /\ sig = NoSig /\ stack = <<>> /\ kept = {}
      /\ pool = [withRcvr \in BOOLEAN |-> {}]
  BY DEF CallInit
<1>3. SigFramed
  BY <1>2 DEF NoSig, SigFramed, Framed
<1>4. DOMAIN stack = {} /\ \A r \in BOOLEAN : pool[r] = {}
  BY <1>2
<1>5. Scan(stack, mem, pool, kept, made)
  BY <1>2, <1>4 DEF Scan
<1> QED  BY <1>1, <1>3, <1>5 DEF ScanInv

LEMMA StartFramed ==
  ASSUME StartCalls, UNCHANGED vars
  PROVE  SigFramed'
<1>1. PICK s \in Shapes, R \in {{}} \cup {{r} : r \in Receivers} :
        /\ (Mentions(s.in) \/ Mentions(s.out)) = (Made = 1)
        /\ Made = 1 => Len(types) \in Usable
        /\ sig' = [in |-> Actual(s.in), out |-> Actual(s.out), rcvr |-> R, calls |-> s.calls]
  BY DEF StartCalls
<1>2. /\ s.in \in Seq(DOMAIN BasicTypes \cup {Newest})
      /\ s.out \in Seq(DOMAIN BasicTypes \cup {Newest})
  BY CallAssumption
<1>3. Framed(Actual(s.in)) /\ Framed(Actual(s.out))
  BY <1>1, <1>2, ActualFramed
<1>4. types' = types /\ Usable' = Usable
  BY DEF vars, Usable
<1> QED  BY <1>1, <1>3, <1>4 DEF SigFramed, Framed

LEMMA SameFramed ==
  ASSUME SigFramed, UNCHANGED vars, sig' = sig
  PROVE  SigFramed'
<1>1. Usable' = Usable
  BY DEF vars, Usable
<1> QED  BY <1>1 DEF SigFramed, Framed

LEMMA ScanKept ==
  ASSUME ScanInv, [CallNext]_<<vars, callVars>>
  PROVE  ScanInv'
<1>1. CallInv'
  BY CallInvKept DEF ScanInv
<1>2. [Next]_vars
  BY DEF CallNext
<1>3. MapInv'
  BY <1>2, StepMap DEF ScanInv
<1>4. CASE sig = NoSig /\ sig' = NoSig /\ UNCHANGED <<made, mem, stack, pool, kept>>
  <2>1. SigFramed'
    BY <1>4 DEF NoSig, SigFramed, Framed
  <2>2. Scan(stack, mem, pool, kept, made)'
    BY <1>4, EmptyScans DEF ScanInv
  <2> QED  BY <1>1, <1>3, <2>1, <2>2 DEF ScanInv
<1>5. CASE StartCalls /\ UNCHANGED vars
  <2>1. SigFramed'
    BY <1>5, StartFramed
  <2>2. Scan(stack, mem, pool, kept, made)'
    BY <1>5, EmptyScans DEF ScanInv, StartCalls
  <2> QED  BY <1>1, <1>3, <2>1, <2>2 DEF ScanInv
<1>6. CASE CallStep /\ ~StartCalls /\ UNCHANGED vars
  <2>1. wrapped' = wrapped /\ types' = types
    BY <1>6 DEF vars
  <2>2. CASE wrapped
    <3>1. sig' = sig
      BY <1>6 DEF CallStep, Enter, Finish, CodeReturn, Leave, Panic, Call, ClientCall, Unpack, Pack,
                  ReflectValid, AddReceiver, CopyResults, MethodValid, Release
    <3>2. SigFramed'
      BY <1>6, <3>1, SameFramed DEF ScanInv
    <3> QED  BY <1>1, <1>3, <2>1, <2>2, <3>2 DEF ScanInv
  <2>3. CASE ~wrapped
    <3>1. Working
      BY <2>3, CallInvFacts DEF ScanInv, CallInv, Working, Marking
    <3>2. Scan(stack', mem', pool', kept', made') /\ sig' = sig
      BY <1>6, <3>1, ScansWhile
    <3>3. SigFramed'
      BY <1>6, <3>2, SameFramed DEF ScanInv
    <3>4. Scan(stack, mem, pool, kept, made)'
      BY <2>1, <3>2, SameScan
    <3> QED  BY <1>1, <1>3, <3>3, <3>4 DEF ScanInv
  <2> QED  BY <2>2, <2>3
<1>7. CASE UNCHANGED <<vars, callVars>> /\ sig # NoSig
  <2>1. /\ UNCHANGED vars /\ wrapped' = wrapped /\ types' = types
        /\ UNCHANGED <<sig, made, mem, stack, pool, kept>>
    BY <1>7 DEF vars, callVars
  <2>2. SigFramed'
    BY <2>1, SameFramed DEF ScanInv
  <2>3. ASSUME ~wrapped  PROVE Scan(stack, mem, pool, kept, made)'
    <3>1. Scan(stack', mem', pool', kept', made')
      BY <2>1, <2>3 DEF ScanInv
    <3> QED  BY <2>1, <3>1, SameScan
  <2> QED  BY <1>1, <1>3, <2>1, <2>2, <2>3 DEF ScanInv
<1> QED  BY <1>4, <1>5, <1>6, <1>7 DEF CallNext, callVars

(* The comments of callReflect and callMethod: the results "will always be *)
(* scanned by someone".  At any moment of a call, for functions of any     *)
(* types whose sizes did not wrap, the collector sees every pointer that   *)
(* is only in frames, and what it takes for a pointer is one that an       *)
(* argument, a result or a receiver has, or zero.                          *)
THEOREM Scanned == CallSpec => []AlwaysScanned
<1>1. ScanInv => AlwaysScanned
  <2>1. CASE wrapped
    BY <2>1 DEF AlwaysScanned
  <2>2. CASE ~wrapped
    <3> SUFFICES ASSUME ScanInv  PROVE AlwaysScanned
      OBVIOUS
    <3>1. StackOK /\ Marking /\ Scan(stack, mem, pool, kept, made)
      BY <2>2, CallInvFacts DEF ScanInv, CallInv, Marking
    <3> QED  BY <3>1, ScanShows
  <2> QED  BY <2>1, <2>2
<1> QED  BY <1>1, InitScan, ScanKept, PTL DEF CallSpec
=============================================================================
