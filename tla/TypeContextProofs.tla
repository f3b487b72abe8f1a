------------------------- MODULE TypeContextProofs -------------------------
(***************************************************************************)
(* For every program and any number of conversions: the types of the       *)
(* conversion's state; that a Context completes every name at most once;   *)
(* that a conversion returns the types of what it was asked for and, when  *)
(* nothing fails, succeeds and leaves nothing behind; that the structures  *)
(* of the named types stay those of their declarations; and that           *)
(* UpdateType's loop is not disturbed and leaves the methods up to date.   *)
(***************************************************************************)
EXTENDS TypeContext, SequenceTheorems, FiniteSetTheorems, WellFoundedInduction, TLAPS

(* Sequences.                                                              *)
LEMMA SeqMonotone ==
  ASSUME NEW S, NEW T, S \subseteq T
  PROVE  Seq(S) \subseteq Seq(T)
OBVIOUS

LEMMA ConsFacts ==
  ASSUME NEW S, NEW f \in S, NEW r \in Seq(S)
  PROVE  /\ <<f>> \o r \in Seq(S)
         /\ Len(<<f>> \o r) = Len(r) + 1
         /\ (<<f>> \o r)[1] = f
         /\ \A i \in 1..Len(r) : (<<f>> \o r)[i + 1] = r[i]
<1>1. <<f>> \in Seq(S) /\ Len(<<f>>) = 1 /\ <<f>>[1] = f
  OBVIOUS
<1>2. <<f>> \o r \in Seq(S) /\ Len(<<f>> \o r) = 1 + Len(r)
  BY <1>1, ConcatProperties
<1>3. \A i \in 1..(1 + Len(r)) :
        (<<f>> \o r)[i] = IF i <= 1 THEN <<f>>[i] ELSE r[i - 1]
  BY <1>1, ConcatProperties
<1>4. Len(r) \in Nat
  OBVIOUS
<1> QED  BY <1>1, <1>2, <1>3, <1>4

LEMMA ConsTwice ==
  ASSUME NEW S, NEW f \in S, NEW g \in S, NEW r \in Seq(S)
  PROVE  <<f, g>> \o r = <<f>> \o (<<g>> \o r)
<1> DEFINE q == <<g>> \o r
           s == <<f>> \o q
           t == <<f, g>> \o r
<1>1. /\ q \in Seq(S) /\ Len(q) = Len(r) + 1
      /\ q[1] = g /\ \A i \in 1..Len(r) : q[i + 1] = r[i]
  BY ConsFacts
<1>2. <<f, g>> \in Seq(S) /\ Len(<<f, g>>) = 2 /\ <<f, g>>[1] = f /\ <<f, g>>[2] = g
  OBVIOUS
<1>3. /\ t \in Seq(S) /\ Len(t) = 2 + Len(r)
      /\ \A i \in 1..(2 + Len(r)) : t[i] = IF i <= 2 THEN <<f, g>>[i] ELSE r[i - 2]
  BY <1>2, ConcatProperties
<1>4. Len(r) \in Nat
  OBVIOUS
<1> HIDE DEF q, t
<1>5. /\ s \in Seq(S) /\ Len(s) = Len(q) + 1 /\ s[1] = f
      /\ \A i \in 1..Len(q) : s[i + 1] = q[i]
  BY <1>1, ConsFacts
<1> HIDE DEF s
<1>6. s[2] = g /\ \A i \in 1..Len(r) : s[i + 2] = r[i]
  <2>1. 1 \in 1..Len(q) /\ \A i \in 1..Len(r) : i + 1 \in 1..Len(q)
    BY <1>1, <1>4
  <2>2. s[1 + 1] = g
    BY <1>1, <1>5, <2>1
  <2>3. \A i \in 1..Len(r) : s[(i + 1) + 1] = r[i] /\ (i + 1) + 1 = i + 2
    BY <1>1, <1>4, <1>5, <2>1
  <2> QED  BY <2>2, <2>3
<1>7. \A i \in 1..Len(s) : s[i] = t[i]
  <2>1. \A i \in 1..Len(s) : i = 1 \/ i = 2 \/ (i - 2 \in 1..Len(r) /\ i = (i - 2) + 2)
    BY <1>1, <1>4, <1>5
  <2>2. s[1] = t[1] /\ s[2] = t[2]
    BY <1>2, <1>3, <1>4, <1>5, <1>6
  <2>3. \A j \in 1..Len(r) : s[j + 2] = t[j + 2]
    BY <1>3, <1>4, <1>6
  <2> QED  BY <2>1, <2>2, <2>3
<1>8. s = t
  BY <1>1, <1>3, <1>4, <1>5, <1>7
<1> QED  BY <1>8 DEF s, t, q

LEMMA HeadTail ==
  ASSUME NEW S, NEW s \in Seq(S), s # <<>>
  PROVE  Head(s) \in S /\ Tail(s) \in Seq(S) /\ s = <<Head(s)>> \o Tail(s)
<1>1. /\ Head(s) \in S /\ Tail(s) \in Seq(S) /\ Head(s) = s[1]
      /\ Len(s) \in Nat /\ Len(s) > 0 /\ Len(Tail(s)) = Len(s) - 1
      /\ \A i \in 1..Len(Tail(s)) : Tail(s)[i] = s[i + 1]
  OBVIOUS
<1> DEFINE h == Head(s)
           r == Tail(s)
<1>2. h \in S /\ r \in Seq(S)
  BY <1>1
<1>3. /\ Len(r) = Len(s) - 1 /\ h = s[1] /\ \A i \in 1..Len(r) : r[i] = s[i + 1]
  BY <1>1
<1> HIDE DEF h, r
<1> DEFINE t == <<h>> \o r
<1>4. /\ t \in Seq(S) /\ Len(t) = Len(r) + 1 /\ t[1] = h
      /\ \A i \in 1..Len(r) : t[i + 1] = r[i]
  BY <1>2, ConsFacts
<1> HIDE DEF t
<1>5. \A i \in 1..Len(s) : i = 1 \/ (i - 1 \in 1..Len(r) /\ i = (i - 1) + 1)
  BY <1>1, <1>3
<1>6. \A i \in 1..Len(s) : s[i] = t[i]
  BY <1>3, <1>4, <1>5
<1>7. s = t
  BY <1>1, <1>3, <1>4, <1>6
<1> QED  BY <1>1, <1>7 DEF t, h, r

-----------------------------------------------------------------------------
(* The heap: it only grows, and an object keeps its name.                  *)
Grows(g, h) == /\ Len(g) \in Nat /\ Len(h) \in Nat /\ Len(g) <= Len(h)
               /\ \A o \in ObjectsOf(g) : h[o].name = g[o].name

LEMMA GrowFacts ==
  ASSUME NEW g, NEW h, Grows(g, h)
  PROVE  /\ ObjectsOf(g) \subseteq ObjectsOf(h)
         /\ HeapObjects(g) \subseteq HeapObjects(h)
         /\ Frames(g) \subseteq Frames(h)
         /\ Seq(Frames(g)) \subseteq Seq(Frames(h))
<1>1. ObjectsOf(g) \subseteq ObjectsOf(h)
  BY DEF Grows, ObjectsOf
<1>2. HeapObjects(g) \subseteq HeapObjects(h)
  BY <1>1 DEF HeapObjects
<1>3. Frames(g) \subseteq Frames(h)
  <2> SUFFICES ASSUME NEW f \in Frames(g)  PROVE f \in Frames(h)
    OBVIOUS
  <2>1. /\ f.done <= Len(f.list)
        /\ f.op \in {"ToType", "elems", "embedded"} => f.typ \in Types
        /\ f.op \in {"named", "attach"} => f.name \in Names
        /\ f.op \in {"attach", "fn", "embedded", "range"} => f.obj \in ObjectsOf(h)
        /\ f.op = "attach" => h[f.obj].name = f.name
    BY <1>1 DEF Frames, Grows
  <2>2. f \in [op : {"ToType", "elems", "named", "attach", "fn", "embedded", "range"},
               typ : Types \cup {NoType}, name : Names \cup {NoType},
               obj : ObjectsOf(h) \cup {NoType}, list : Seq(Types), done : Nat,
               refs : SUBSET ObjectsOf(h), seen : SUBSET ObjectsOf(h)]
    BY <1>1 DEF Frames
  <2> QED  BY <2>1, <2>2 DEF Frames
<1> HIDE DEF Frames
<1> QED  BY <1>1, <1>2, <1>3, SeqMonotone

LEMMA AppendObject ==
  ASSUME NEW g, g \in Seq(HeapObjects(g)), NEW n \in Names \cup {NoType},
         NEW u \in SUBSET ObjectsOf(g), NEW h, h = Append(g, Object(n, u))
  PROVE  /\ h \in Seq(HeapObjects(h)) /\ Grows(g, h)
         /\ Len(g) + 1 \in ObjectsOf(h) /\ h[Len(g) + 1].name = n
<1>1. Len(g) \in Nat /\ Len(h) = Len(g) + 1
  OBVIOUS
<1>2. (\A o \in 1..Len(g) : h[o] = g[o]) /\ h[Len(g) + 1] = Object(n, u)
  BY <1>1
<1>3. Grows(g, h)
  BY <1>1, <1>2 DEF Grows, ObjectsOf
<1>4. Object(n, u) \in HeapObjects(h)
  <2>1. u \subseteq ObjectsOf(h)
    BY <1>3, GrowFacts
  <2> QED  BY <2>1 DEF Object, HeapObjects
<1>5. HeapObjects(g) \subseteq HeapObjects(h)
  BY <1>3, GrowFacts
<1> HIDE DEF HeapObjects
<1>6. g \in Seq(HeapObjects(h))
  BY <1>5, SeqMonotone
<1>7. h \in Seq(HeapObjects(h))
  BY <1>4, <1>6, AppendProperties
<1> QED  BY <1>1, <1>2, <1>3, <1>7 DEF ObjectsOf, Object

LEMMA ReplacedFacts ==
  ASSUME NEW g, g \in Seq(HeapObjects(g)), NEW n \in Names,
         NEW tab \in [Names -> ObjectsOf(g) \cup {NoType}],
         NEW h, h = Replaced(n, tab, g)
  PROVE  h \in Seq(HeapObjects(h)) /\ Grows(g, h) /\ Len(h) = Len(g)
<1> DEFINE live == {m \in Entries(n) : tab[m] # NoType}
           HasId(y, m) == g[y].name # NoType /\ TypeId[g[y].name] = TypeId[m]
           New(y) == IF \E m \in live : HasId(y, m)
                     THEN tab[CHOOSE m \in live : HasId(y, m)] ELSE y
           types == {tab[m] : m \in live}
           unnamed == {y \in UNION {g[x].under : x \in types} : g[y].name = NoType}
           Rewritten(x) == [g[x] EXCEPT !.under = {New(y) : y \in @}]
<1>1. h = [x \in DOMAIN g |-> IF x \in types \cup unnamed THEN Rewritten(x) ELSE g[x]]
  BY DEF Replaced
<1>2. Len(g) \in Nat /\ DOMAIN g = ObjectsOf(g)
  BY DEF ObjectsOf
<1>3. live \subseteq Names
  BY DEF Entries
<1>4. ASSUME NEW y \in ObjectsOf(g)  PROVE New(y) \in ObjectsOf(g)
  <2>1. CASE \E m \in live : HasId(y, m)
    <3> DEFINE m == CHOOSE m \in live : HasId(y, m)
    <3>1. m \in live
      BY <2>1
    <3>2. tab[m] \in ObjectsOf(g)
      BY <1>3, <3>1
    <3> QED  BY <2>1, <3>2
  <2>2. CASE ~(\E m \in live : HasId(y, m))
    BY <2>2
  <2> QED  BY <2>1, <2>2
<1> HIDE DEF New, live
<1>5. ASSUME NEW x \in ObjectsOf(g)
      PROVE  h[x] \in HeapObjects(g) /\ h[x].name = g[x].name
  <2>1. g[x] \in HeapObjects(g)
    BY <1>2
  <2>2. g[x].under \subseteq ObjectsOf(g)
    BY <2>1 DEF HeapObjects
  <2>3. {New(y) : y \in g[x].under} \subseteq ObjectsOf(g)
    BY <1>4, <2>2
  <2>4. Rewritten(x) \in HeapObjects(g) /\ Rewritten(x).name = g[x].name
    BY <2>1, <2>3 DEF HeapObjects
  <2> HIDE DEF Rewritten
  <2>5. h[x] = Rewritten(x) \/ h[x] = g[x]
    BY <1>1, <1>2
  <2> QED  BY <2>1, <2>4, <2>5
<1>6. h \in [1..Len(g) -> HeapObjects(g)]
  <2> HIDE DEF Rewritten, types, unnamed
  <2>1. DOMAIN h = 1..Len(g) /\ h = [x \in DOMAIN h |-> h[x]]
    BY <1>1, <1>2 DEF ObjectsOf
  <2> QED  BY <1>5, <2>1 DEF ObjectsOf
<1>7. Len(h) = Len(g) /\ h \in Seq(HeapObjects(g))
  <2> HIDE DEF HeapObjects
  <2> QED  BY <1>2, <1>6
<1>8. HeapObjects(h) = HeapObjects(g) /\ ObjectsOf(h) = ObjectsOf(g)
  BY <1>7 DEF HeapObjects, ObjectsOf
<1> QED  BY <1>2, <1>5, <1>7, <1>8 DEF Grows

-----------------------------------------------------------------------------
(* Type correctness.  A step changes the stack at its top only.            *)
LEMMA TopFacts ==
  ASSUME TypeOK, stack # <<>>
  PROVE  Top \in Frames(heap) /\ Rest \in Seq(Frames(heap)) /\ stack = <<Top>> \o Rest
<1>1. stack \in Seq(Frames(heap))
  BY DEF TypeOK
<1> HIDE DEF Frames
<1> QED  BY <1>1, HeadTail DEF Top, Rest

LEMMA PushOne ==
  ASSUME TypeOK, stack # <<>>, Grows(heap, heap'), NEW f \in Frames(heap')
  PROVE  <<f>> \o Rest \in Seq(Frames(heap'))
<1>1. Rest \in Seq(Frames(heap'))
  BY TopFacts, GrowFacts
<1> DEFINE S == Frames(heap')
<1>2. f \in S /\ Rest \in Seq(S)
  BY <1>1
<1> HIDE DEF S
<1>3. <<f>> \o Rest \in Seq(S)
  BY <1>2, ConsFacts
<1> QED  BY <1>3 DEF S

LEMMA PushTwo ==
  ASSUME TypeOK, stack # <<>>, Grows(heap, heap'),
         NEW f \in Frames(heap'), NEW g \in Frames(heap')
  PROVE  <<f, g>> \o Rest \in Seq(Frames(heap'))
<1>1. Rest \in Seq(Frames(heap'))
  BY TopFacts, GrowFacts
<1> DEFINE S == Frames(heap')
<1>2. f \in S /\ g \in S /\ Rest \in Seq(S)
  BY <1>1
<1> HIDE DEF S
<1>3. <<g>> \o Rest \in Seq(S)
  BY <1>2, ConsFacts
<1>4. <<f>> \o (<<g>> \o Rest) \in Seq(S)
  BY <1>2, <1>3, ConsFacts
<1>5. <<f, g>> \o Rest \in Seq(S)
  BY <1>2, <1>4, ConsTwice
<1> QED  BY <1>5 DEF S

LEMMA SameHeapGrows ==
  ASSUME TypeOK
  PROVE  Grows(heap, heap) /\ Len(heap) \in Nat
BY DEF TypeOK, Grows, ObjectsOf

(* What a step leaves to be shown when it keeps the program and ntype and  *)
(* asks for nothing.                                                       *)
LEMMA StepTypes ==
  ASSUME TypeOK, prog' = prog, ntype' = ntype, requests' = requests,
         heap' \in Seq(HeapObjects(heap')), Grows(heap, heap'),
         placeholder' \in [Names -> ObjectsOf(heap') \cup {NoType}],
         resolved' \in [Names -> ObjectsOf(heap') \cup {NoType}],
         ret' \in [status : {"none", "ok", "err"}, refs : SUBSET ObjectsOf(heap')],
         stack' \in Seq(Frames(heap'))
  PROVE  TypeOK'
<1>1. ntype' \subseteq {o \in ObjectsOf(heap') : heap'[o].name \in Names}
  BY GrowFacts DEF TypeOK, Grows
<1> HIDE DEF Frames, HeapObjects
<1> QED  BY <1>1 DEF TypeOK

LEMMA SameHeapTypes ==
  ASSUME TypeOK, prog' = prog, ntype' = ntype, requests' = requests, heap' = heap,
         placeholder' = placeholder, resolved' = resolved,
         ret' \in [status : {"none", "ok", "err"}, refs : SUBSET ObjectsOf(heap)],
         stack' \in Seq(Frames(heap))
  PROVE  TypeOK'
BY DEF TypeOK

LEMMA ResultTypes ==
  ASSUME NEW h, NEW refs \in SUBSET ObjectsOf(h)
  PROVE  /\ Ok(refs) \in [status : {"none", "ok", "err"}, refs : SUBSET ObjectsOf(h)]
         /\ Err \in [status : {"none", "ok", "err"}, refs : SUBSET ObjectsOf(h)]
         /\ NoResult \in [status : {"none", "ok", "err"}, refs : SUBSET ObjectsOf(h)]
BY DEF Ok, Err, NoResult

LEMMA FrameTypes ==
  ASSUME NEW h, NEW refs \in SUBSET ObjectsOf(h)
  PROVE  /\ \A t \in Types : CallToType(t) \in Frames(h) /\ Elems(t) \in Frames(h)
         /\ \A n \in Names : NamedFrame(n) \in Frames(h)
         /\ \A o \in ObjectsOf(h) :
              /\ h[o].name \in Names => Attach(h[o].name, o) \in Frames(h)
              /\ \A sigs \in Seq(Types) : Updater(o, sigs) \in Frames(h)
              /\ \A t \in Types : Embedded(t, o, refs) \in Frames(h)
              /\ RangeOver(o, refs) \in Frames(h)
<1>1. {} \in SUBSET ObjectsOf(h) /\ <<>> \in Seq(Types)
  OBVIOUS
<1>2. \A t \in Types : t.elems \in Seq(Types)
  BY TypesAssumption
<1>3. \A t \in Types : CallToType(t) \in Frames(h)
  BY <1>1 DEF CallToType, Frame, Frames
<1>4. \A t \in Types : Elems(t) \in Frames(h)
  BY <1>1, <1>2 DEF Elems, Frame, Frames
<1>5. \A n \in Names : NamedFrame(n) \in Frames(h)
  BY <1>1 DEF NamedFrame, Frame, Frames
<1>6. ASSUME NEW o \in ObjectsOf(h)
      PROVE  /\ h[o].name \in Names => Attach(h[o].name, o) \in Frames(h)
             /\ \A sigs \in Seq(Types) : Updater(o, sigs) \in Frames(h)
             /\ \A t \in Types : Embedded(t, o, refs) \in Frames(h)
             /\ RangeOver(o, refs) \in Frames(h)
  <2>1. h[o].name \in Names => Attach(h[o].name, o) \in Frames(h)
    BY <1>1 DEF Attach, Frame, Frames
  <2>2. \A sigs \in Seq(Types) : Updater(o, sigs) \in Frames(h)
    BY <1>1 DEF Updater, Frame, Frames
  <2>3. \A t \in Types : Embedded(t, o, refs) \in Frames(h)
    BY <1>1 DEF Embedded, Frame, Frames
  <2>4. RangeOver(o, refs) \in Frames(h)
    BY <1>1 DEF RangeOver, Frame, Frames
  <2> QED  BY <2>1, <2>2, <2>3, <2>4
<1> QED  BY <1>3, <1>4, <1>5, <1>6

(* The steps that leave the heap alone.                                    *)
LEMMA ReturnTypes ==
  ASSUME TypeOK, stack # <<>>, prog' = prog, ntype' = ntype, requests' = requests,
         heap' = heap, placeholder' = placeholder, resolved' = resolved,
         NEW refs \in SUBSET ObjectsOf(heap), Return(Ok(refs)) \/ Return(Err)
  PROVE  TypeOK'
<1>1. ret' \in [status : {"none", "ok", "err"}, refs : SUBSET ObjectsOf(heap)]
  BY ResultTypes DEF Return
<1>2. stack' \in Seq(Frames(heap))
  BY TopFacts DEF Return
<1> QED  BY <1>1, <1>2, SameHeapTypes

LEMMA PushTypes ==
  ASSUME TypeOK, stack # <<>>, prog' = prog, ntype' = ntype, requests' = requests,
         heap' = heap, placeholder' = placeholder, resolved' = resolved,
         ret' = ret \/ ret' = NoResult,
         NEW f \in Frames(heap), NEW g \in Frames(heap), Push(<<f>>) \/ Push(<<f, g>>)
  PROVE  TypeOK'
<1>1. Grows(heap, heap')
  BY SameHeapGrows
<1>2. stack' \in Seq(Frames(heap'))
  BY <1>1, PushOne, PushTwo DEF Push
<1>3. {} \in SUBSET ObjectsOf(heap)
  OBVIOUS
<1>4. ret' \in [status : {"none", "ok", "err"}, refs : SUBSET ObjectsOf(heap)]
  BY <1>3 DEF TypeOK, NoResult
<1> QED  BY <1>2, <1>4, SameHeapTypes

LEMMA RetRefs == ASSUME TypeOK  PROVE ret.refs \in SUBSET ObjectsOf(heap)
BY DEF TypeOK

LEMMA TopFields ==
  ASSUME TypeOK, stack # <<>>
  PROVE  /\ Top.list \in Seq(Types) /\ Top.done \in 0..Len(Top.list)
         /\ Top.refs \in SUBSET ObjectsOf(heap)
         /\ Top.seen \in SUBSET ObjectsOf(heap)
         /\ Top.op \in {"ToType", "elems", "embedded"} => Top.typ \in Types
         /\ Top.op \in {"named", "attach"} => Top.name \in Names
         /\ Top.op \in {"attach", "fn", "embedded", "range"} => Top.obj \in ObjectsOf(heap)
         /\ Top.op = "attach" => heap[Top.obj].name = Top.name
BY TopFacts DEF Frames

(* The top frame with other fields.                                        *)
LEMMA TopChanged ==
  ASSUME TypeOK, stack # <<>>
  PROVE  /\ \A n \in 0..Len(Top.list) : [Top EXCEPT !.done = n] \in Frames(heap)
         /\ \A refs \in SUBSET ObjectsOf(heap) : /\ [Top EXCEPT !.refs = refs] \in Frames(heap)
                                                /\ [Top EXCEPT !.seen = refs] \in Frames(heap)
<1>1. Top \in Frames(heap)
  BY TopFacts
<1> HIDE DEF Top
<1>2. ASSUME NEW n \in 0..Len(Top.list)  PROVE [Top EXCEPT !.done = n] \in Frames(heap)
  BY <1>1 DEF Frames
<1>3. ASSUME NEW refs \in SUBSET ObjectsOf(heap)
      PROVE  [Top EXCEPT !.refs = refs] \in Frames(heap) /\ [Top EXCEPT !.seen = refs] \in Frames(heap)
  BY <1>1 DEF Frames
<1> QED  BY <1>2, <1>3

LEMMA PlainStepTypes ==
  ASSUME TypeOK,
         \/ ToTypeProvided \/ ToTypeBasic \/ ToTypeInvalid \/ ToTypeComposite
         \/ NextElem \/ ElemOk \/ ElemErr \/ CompositeBuilt \/ StructDone
         \/ (\E n \in Names : NameProvided(n) \/ NameFound(n))
         \/ NamedErr \/ (\E o \in ntype : RangeNext(o)) \/ RangeDone
  PROVE  TypeOK'
<1>1. {} \in SUBSET ObjectsOf(heap)
  OBVIOUS
<1>2. CASE ToTypeBasic
  <2>1. stack # <<>> /\ Return(Ok({}))
    BY <1>2 DEF ToTypeBasic, Entering, Running
  <2> QED  BY <1>1, <1>2, <2>1, ReturnTypes DEF ToTypeBasic
<1>3. CASE ToTypeProvided
  <2>1. stack # <<>> /\ Return(Ok({}))
    BY <1>3 DEF ToTypeProvided, Entering, Running
  <2> QED  BY <1>1, <1>3, <2>1, ReturnTypes DEF ToTypeProvided
<1>4. CASE ToTypeInvalid
  <2>1. stack # <<>> /\ Return(Err)
    BY <1>4 DEF ToTypeInvalid, Entering, Running
  <2> QED  BY <1>1, <1>4, <2>1, ReturnTypes DEF ToTypeInvalid
<1>5. CASE ToTypeComposite
  <2>1. stack # <<>> /\ Top.typ \in Types
    BY <1>5, TopFields DEF ToTypeComposite, Entering, Running
  <2>2. Elems(Top.typ) \in Frames(heap)
    BY <1>1, <2>1, FrameTypes
  <2> QED  BY <1>5, <2>1, <2>2, PushTypes DEF ToTypeComposite
<1>6. CASE NextElem
  <2>1. /\ stack # <<>> /\ Top.done # Len(Top.list)
        /\ Top.list \in Seq(Types) /\ Top.done \in 0..Len(Top.list)
    BY <1>6, TopFields DEF NextElem, Converting, Running, AllTaken
  <2>2. Top.list[Top.done + 1] \in Types /\ Top.done + 1 \in 0..Len(Top.list)
    BY <2>1
  <2>3. CallToType(Top.list[Top.done + 1]) \in Frames(heap)
    BY <1>1, <2>2, FrameTypes
  <2>4. [Top EXCEPT !.done = Top.done + 1] \in Frames(heap)
    BY <2>1, <2>2, TopChanged
  <2> QED  BY <1>6, <2>1, <2>3, <2>4, PushTypes DEF NextElem
<1>7. CASE ElemOk
  <2>1. stack # <<>>
    BY <1>7 DEF ElemOk, Converting, Running
  <2>2. Top.refs \cup ret.refs \in SUBSET ObjectsOf(heap)
    BY <2>1, RetRefs, TopFields
  <2>3. [Top EXCEPT !.refs = Top.refs \cup ret.refs] \in Frames(heap)
    BY <2>1, <2>2, TopChanged
  <2> QED  BY <1>7, <2>1, <2>3, PushTypes DEF ElemOk
<1>8. CASE ElemErr
  <2>1. stack # <<>> /\ Return(Err)
    BY <1>8 DEF ElemErr, Converting, Running
  <2> QED  BY <1>1, <1>8, <2>1, ReturnTypes DEF ElemErr
<1>9. CASE CompositeBuilt
  <2>1. stack # <<>> /\ Return(Ok(Top.refs))
    BY <1>9 DEF CompositeBuilt, Running
  <2>2. Top.refs \in SUBSET ObjectsOf(heap)
    BY <2>1, TopFields
  <2> QED  BY <1>9, <2>1, <2>2, ReturnTypes DEF CompositeBuilt
<1>10. CASE StructDone
  <2>1. stack # <<>> /\ Return(Ok(Top.refs \cup {Top.obj})) /\ Top.op = "embedded"
    BY <1>10 DEF StructDone, Running
  <2>2. Top.refs \cup {Top.obj} \in SUBSET ObjectsOf(heap)
    BY <2>1, TopFields
  <2> QED  BY <1>10, <2>1, <2>2, ReturnTypes DEF StructDone
<1>11. ASSUME NEW n \in Names, NameProvided(n)  PROVE TypeOK'
  <2>1. stack # <<>> /\ Return(Ok({}))
    BY <1>11 DEF NameProvided, Naming, Entering, Running
  <2> QED  BY <1>1, <1>11, <2>1, ReturnTypes DEF NameProvided
<1>12. ASSUME NEW n \in Names, NameFound(n)  PROVE TypeOK'
  <2>1. PICK m \in Matching(n) :
          Return(Ok({IF resolved[m] # NoType THEN resolved[m] ELSE placeholder[m]}))
    BY <1>12 DEF NameFound
  <2>2. m \in Names /\ placeholder[m] # NoType
    BY DEF Matching, Entries
  <2>3. {IF resolved[m] # NoType THEN resolved[m] ELSE placeholder[m]} \in SUBSET ObjectsOf(heap)
    BY <2>2 DEF TypeOK
  <2>4. stack # <<>>
    BY <1>12 DEF NameFound, Naming, Entering, Running
  <2> QED  BY <1>12, <2>1, <2>3, <2>4, ReturnTypes DEF NameFound
<1>13. CASE NamedErr
  <2>1. stack # <<>> /\ Return(Err)
    BY <1>13 DEF NamedErr, Running
  <2> QED  BY <1>1, <1>13, <2>1, ReturnTypes DEF NamedErr
<1>14. ASSUME NEW o \in ntype, RangeNext(o)  PROVE TypeOK'
  <2>1. stack # <<>> /\ o \in ObjectsOf(heap) /\ heap[o].name \in Names
    BY <1>14 DEF RangeNext, Running, TypeOK
  <2>2. Decl[heap[o].name].methods \in Seq(Types)
    BY <2>1 DEF TypeOK, Decl
  <2>3. Updater(o, Decl[heap[o].name].methods) \in Frames(heap)
    BY <1>1, <2>1, <2>2, FrameTypes
  <2>4. Top.seen \cup {o} \in SUBSET ObjectsOf(heap)
    BY <2>1, TopFields
  <2>5. [Top EXCEPT !.seen = Top.seen \cup {o}] \in Frames(heap)
    BY <2>1, <2>4, TopChanged
  <2> QED  BY <1>14, <2>1, <2>3, <2>5, PushTypes DEF RangeNext
<1>15. CASE RangeDone
  <2>1. stack # <<>> /\ Return(Ok({Top.obj})) /\ Top.op = "range"
    BY <1>15 DEF RangeDone, Running
  <2>2. {Top.obj} \in SUBSET ObjectsOf(heap)
    BY <2>1, TopFields
  <2> QED  BY <1>15, <2>1, <2>2, ReturnTypes DEF RangeDone
<1> QED  BY <1>2, <1>3, <1>4, <1>5, <1>6, <1>7,
            <1>8, <1>9, <1>10, <1>11, <1>12, <1>13, <1>14, <1>15

(* The steps that make, complete or rewrite objects.                       *)
LEMMA GrownTables ==
  ASSUME TypeOK, Grows(heap, heap')
  PROVE  /\ placeholder \in [Names -> ObjectsOf(heap') \cup {NoType}]
         /\ resolved \in [Names -> ObjectsOf(heap') \cup {NoType}]
         /\ ret \in [status : {"none", "ok", "err"}, refs : SUBSET ObjectsOf(heap')]
<1>1. ObjectsOf(heap) \subseteq ObjectsOf(heap')
  BY GrowFacts
<1> QED  BY <1>1 DEF TypeOK

LEMMA StructWithMethodsTypes ==
  ASSUME TypeOK, StructWithMethods
  PROVE  TypeOK'
<1>1. stack # <<>> /\ Top.op = "elems"
  BY DEF StructWithMethods, Running
<1>2. Top.typ \in Types /\ Top.refs \in SUBSET ObjectsOf(heap)
  BY <1>1, TopFields
<1>3. heap' = Append(heap, Object(NoType, Top.refs)) /\ heap \in Seq(HeapObjects(heap))
  BY DEF StructWithMethods, TypeOK
<1>4. /\ heap' \in Seq(HeapObjects(heap')) /\ Grows(heap, heap')
      /\ Fresh \in ObjectsOf(heap')
  BY <1>2, <1>3, AppendObject DEF Fresh
<1>5. prog.promoted[Top.typ] \in Seq(Types)
  BY <1>2 DEF TypeOK
<1>6. Top.refs \in SUBSET ObjectsOf(heap')
  BY <1>2, <1>4, GrowFacts
<1>7. /\ Updater(Fresh, prog.promoted[Top.typ]) \in Frames(heap')
      /\ Embedded(Top.typ, Fresh, Top.refs) \in Frames(heap')
  BY <1>2, <1>4, <1>5, <1>6, FrameTypes
<1>8. stack' \in Seq(Frames(heap'))
  BY <1>1, <1>4, <1>7, PushTwo DEF StructWithMethods, Push
<1> QED  BY <1>4, <1>8, GrownTables, StepTypes DEF StructWithMethods

LEMMA SetMethodSetTypes ==
  ASSUME TypeOK, SetMethodSet
  PROVE  TypeOK'
<1>1. stack # <<>> /\ Top.op = "fn"
  BY DEF SetMethodSet, Running
<1>2. Top.obj \in ObjectsOf(heap) /\ Top.refs \in SUBSET ObjectsOf(heap)
  BY <1>1, TopFields
<1> DEFINE obj == Top.obj
           refs == Top.refs
<1>3. heap' = [heap EXCEPT ![obj] = [@ EXCEPT !.methods = refs, !.complete = TRUE]]
  BY DEF SetMethodSet
<1>4. heap \in Seq(HeapObjects(heap)) /\ obj \in 1..Len(heap) /\ refs \in SUBSET ObjectsOf(heap)
  BY <1>2 DEF TypeOK, ObjectsOf
<1> HIDE DEF obj, refs
<1>5. Len(heap') = Len(heap) /\ Len(heap) \in Nat /\ DOMAIN heap' = 1..Len(heap)
  BY <1>3, <1>4
<1>6. ObjectsOf(heap') = ObjectsOf(heap) /\ HeapObjects(heap') = HeapObjects(heap)
  BY <1>5 DEF ObjectsOf, HeapObjects
<1>7. ASSUME NEW o \in 1..Len(heap)
      PROVE  heap'[o] \in HeapObjects(heap) /\ heap'[o].name = heap[o].name
  <2>1. heap[o] \in HeapObjects(heap)
    BY <1>4
  <2>2. CASE o # obj
    BY <1>3, <1>4, <2>1, <2>2
  <2>3. CASE o = obj
    <3>1. heap'[o] = [heap[o] EXCEPT !.methods = refs, !.complete = TRUE]
      <4>1. obj \in DOMAIN heap
        BY <1>4
      <4> HIDE DEF HeapObjects
      <4> QED  BY <1>3, <2>3, <4>1
    <3> DEFINE x == heap[o]
    <3>2. x \in HeapObjects(heap) /\ heap'[o] = [x EXCEPT !.methods = refs, !.complete = TRUE]
      BY <2>1, <3>1
    <3> HIDE DEF x
    <3>3. [x EXCEPT !.methods = refs, !.complete = TRUE] \in HeapObjects(heap)
      BY <1>4, <3>2 DEF HeapObjects
    <3>4. [x EXCEPT !.methods = refs, !.complete = TRUE].name = x.name
      BY <3>2 DEF HeapObjects
    <3> QED  BY <3>2, <3>3, <3>4 DEF x
  <2> QED  BY <2>2, <2>3
<1>8. heap' \in Seq(HeapObjects(heap')) /\ Grows(heap, heap')
  <2>1. heap' \in [1..Len(heap) -> HeapObjects(heap)]
    <3> HIDE DEF HeapObjects
    <3>1. heap' = [o \in DOMAIN heap' |-> heap'[o]]
      BY <1>3, <1>4
    <3> QED  BY <1>5, <1>7, <3>1
  <2> HIDE DEF HeapObjects
  <2>2. heap' \in Seq(HeapObjects(heap'))
    BY <1>5, <1>6, <2>1
  <2>3. Grows(heap, heap')
    BY <1>5, <1>7 DEF Grows, ObjectsOf
  <2> QED  BY <2>2, <2>3
<1>9. Return(Ok({})) /\ {} \in SUBSET ObjectsOf(heap')
  BY DEF SetMethodSet
<1>10. ret' \in [status : {"none", "ok", "err"}, refs : SUBSET ObjectsOf(heap')]
  BY <1>9, ResultTypes DEF Return
<1>11. stack' \in Seq(Frames(heap'))
  BY <1>1, <1>8, <1>9, TopFacts, GrowFacts DEF Return
<1> QED  BY <1>8, <1>10, <1>11, GrownTables, StepTypes DEF SetMethodSet

LEMMA NameNewTypes ==
  ASSUME TypeOK, NEW n \in Names, NameNew(n)
  PROVE  TypeOK'
<1>1. stack # <<>>
  BY DEF NameNew, Naming, Entering, Running
<1>2. heap' = Append(heap, Object(n, {})) /\ heap \in Seq(HeapObjects(heap))
  BY DEF NameNew, TypeOK
<1>3. {} \in SUBSET ObjectsOf(heap)
  OBVIOUS
<1>4. /\ heap' \in Seq(HeapObjects(heap')) /\ Grows(heap, heap')
      /\ Fresh \in ObjectsOf(heap')
  BY <1>2, <1>3, AppendObject DEF Fresh
<1>5. Decl[n].under \in Types
  BY DEF TypeOK, Decl
<1>6. {} \in SUBSET ObjectsOf(heap')
  OBVIOUS
<1>7. CallToType(Decl[n].under) \in Frames(heap') /\ NamedFrame(n) \in Frames(heap')
  BY <1>5, <1>6, FrameTypes
<1>8. stack' \in Seq(Frames(heap'))
  BY <1>1, <1>4, <1>7, PushTwo DEF NameNew, Push
<1>9. placeholder' \in [Names -> ObjectsOf(heap') \cup {NoType}]
  BY <1>4, GrownTables DEF NameNew
<1> QED  BY <1>4, <1>8, <1>9, GrownTables, StepTypes DEF NameNew

(* UpdateType for the object o of n, on a heap h that holds it.            *)
LEMMA UpdateScopeTypes ==
  ASSUME TypeOK, NEW h, h \in Seq(HeapObjects(h)), Grows(heap, h),
         NEW n \in Names, NEW o \in ObjectsOf(h), UpdateScope(n, o, h)
  PROVE  /\ heap' \in Seq(HeapObjects(heap')) /\ Grows(heap, heap') /\ Len(heap') = Len(h)
         /\ \A x \in ObjectsOf(h) : heap'[x].name = h[x].name
         /\ resolved' \in [Names -> ObjectsOf(heap') \cup {NoType}]
<1>1. ObjectsOf(heap) \subseteq ObjectsOf(h)
  BY GrowFacts
<1>2. Table(n, o) \in [Names -> ObjectsOf(h) \cup {NoType}]
  BY <1>1 DEF Table, TypeOK
<1>3. heap' = Replaced(n, Table(n, o), h) /\ resolved' = Table(n, o)
  BY DEF UpdateScope
<1>4. heap' \in Seq(HeapObjects(heap')) /\ Grows(h, heap') /\ Len(heap') = Len(h)
  BY <1>2, <1>3, ReplacedFacts
<1>5. Grows(heap, heap')
  <2>1. ObjectsOf(heap) \subseteq ObjectsOf(h)
    BY GrowFacts
  <2> QED  BY <1>4, <2>1 DEF Grows
<1>6. ObjectsOf(heap') = ObjectsOf(h)
  BY <1>4 DEF ObjectsOf
<1>7. \A x \in ObjectsOf(h) : heap'[x].name = h[x].name
  BY <1>4 DEF Grows
<1> QED  BY <1>2, <1>3, <1>4, <1>5, <1>6, <1>7

LEMMA NamedPlainTypes ==
  ASSUME TypeOK, NamedPlain
  PROVE  TypeOK'
<1>1. stack # <<>> /\ Top.op = "named"
  BY DEF NamedPlain, Running
<1>2. Top.name \in Names
  BY <1>1, TopFields
<1> DEFINE h == Append(heap, Object(Top.name, ret.refs))
<1>3. heap \in Seq(HeapObjects(heap)) /\ ret.refs \in SUBSET ObjectsOf(heap)
  BY DEF TypeOK
<1>4. h \in Seq(HeapObjects(h)) /\ Grows(heap, h) /\ Fresh \in ObjectsOf(h)
  BY <1>2, <1>3, AppendObject DEF Fresh
<1>5. UpdateScope(Top.name, Fresh, h)
  BY DEF NamedPlain
<1> HIDE DEF h
<1>6. /\ heap' \in Seq(HeapObjects(heap')) /\ Grows(heap, heap') /\ Len(heap') = Len(h)
      /\ resolved' \in [Names -> ObjectsOf(heap') \cup {NoType}]
  BY <1>2, <1>4, <1>5, UpdateScopeTypes
<1>7. Return(Ok({Fresh})) /\ {Fresh} \in SUBSET ObjectsOf(heap')
  BY <1>4, <1>6 DEF NamedPlain, ObjectsOf
<1>8. ret' \in [status : {"none", "ok", "err"}, refs : SUBSET ObjectsOf(heap')]
  BY <1>7, ResultTypes DEF Return
<1>9. stack' \in Seq(Frames(heap'))
  BY <1>1, <1>6, <1>7, TopFacts, GrowFacts DEF Return
<1> QED  BY <1>6, <1>8, <1>9, GrownTables, StepTypes DEF NamedPlain

LEMMA NamedWithMethodsTypes ==
  ASSUME TypeOK, NamedWithMethods
  PROVE  TypeOK'
<1>1. stack # <<>> /\ Top.op = "named"
  BY DEF NamedWithMethods, Running
<1>2. Top.name \in Names
  BY <1>1, TopFields
<1>3. heap \in Seq(HeapObjects(heap)) /\ ret.refs \in SUBSET ObjectsOf(heap)
  BY DEF TypeOK
<1>4. heap' = Append(heap, Object(Top.name, ret.refs))
  BY DEF NamedWithMethods
<1>5. /\ heap' \in Seq(HeapObjects(heap')) /\ Grows(heap, heap')
      /\ Fresh \in ObjectsOf(heap') /\ heap'[Fresh].name = Top.name
  BY <1>2, <1>3, <1>4, AppendObject, ZenonT(60) DEF Fresh
<1>6. Decl[Top.name].methods \in Seq(Types)
  BY <1>2 DEF TypeOK, Decl
<1>7. {} \in SUBSET ObjectsOf(heap')
  OBVIOUS
<1>8. /\ Updater(Fresh, Decl[Top.name].methods) \in Frames(heap')
      /\ Attach(Top.name, Fresh) \in Frames(heap')
  BY <1>2, <1>5, <1>6, <1>7, FrameTypes
<1>9. stack' \in Seq(Frames(heap'))
  BY <1>1, <1>5, <1>8, PushTwo DEF NamedWithMethods, Push
<1>10. ret' \in [status : {"none", "ok", "err"}, refs : SUBSET ObjectsOf(heap')]
  BY <1>7, ResultTypes DEF NamedWithMethods
<1> QED  BY <1>5, <1>9, <1>10, GrownTables, StepTypes DEF NamedWithMethods

LEMMA RegisterTypes ==
  ASSUME TypeOK, Register
  PROVE  TypeOK'
<1>1. stack # <<>> /\ Top.op = "attach"
  BY DEF Register, Running
<1>2. /\ Top.name \in Names /\ Top.obj \in ObjectsOf(heap)
      /\ heap[Top.obj].name = Top.name
  BY <1>1, TopFields
<1>3. heap \in Seq(HeapObjects(heap)) /\ Grows(heap, heap)
  BY SameHeapGrows DEF TypeOK
<1>4. UpdateScope(Top.name, Top.obj, heap)
  BY DEF Register
<1>5. /\ heap' \in Seq(HeapObjects(heap')) /\ Grows(heap, heap') /\ Len(heap') = Len(heap)
      /\ \A x \in ObjectsOf(heap) : heap'[x].name = heap[x].name
      /\ resolved' \in [Names -> ObjectsOf(heap') \cup {NoType}]
  BY <1>2, <1>3, <1>4, UpdateScopeTypes
<1>6. ObjectsOf(heap') = ObjectsOf(heap)
  BY <1>5 DEF ObjectsOf
<1>7. ntype' = ntype \cup {Top.obj}
  BY DEF Register
<1>8. ntype' \subseteq {o \in ObjectsOf(heap') : heap'[o].name \in Names}
  <2>1. ntype \subseteq {o \in ObjectsOf(heap) : heap[o].name \in Names}
    BY DEF TypeOK
  <2> QED  BY <1>2, <1>5, <1>6, <1>7, <2>1
<1>9. ntype' \in SUBSET ObjectsOf(heap')
  BY <1>8
<1>10. RangeOver(Top.obj, ntype') \in Frames(heap')
  BY <1>2, <1>6, <1>9, FrameTypes
<1>11. stack' \in Seq(Frames(heap'))
  BY <1>1, <1>5, <1>10, PushOne DEF Register, Push
<1>12. ret' \in [status : {"none", "ok", "err"}, refs : SUBSET ObjectsOf(heap')]
  <2>1. {} \in SUBSET ObjectsOf(heap')
    OBVIOUS
  <2> QED  BY <2>1, ResultTypes DEF Register
<1>13. /\ prog' = prog /\ requests' = requests
       /\ placeholder' \in [Names -> ObjectsOf(heap') \cup {NoType}]
  BY <1>5, GrownTables DEF Register
<1> HIDE DEF Frames, HeapObjects
<1> QED  BY <1>5, <1>8, <1>11, <1>12, <1>13 DEF TypeOK

LEMMA RequestTypes ==
  ASSUME TypeOK, NEW t \in Requests, Request(t)
  PROVE  TypeOK'
<1>1. t \in Types
  BY TypesAssumption
<1>2. {} \in SUBSET ObjectsOf(heap)
  OBVIOUS
<1>3. CallToType(t) \in Frames(heap)
  BY <1>1, <1>2, FrameTypes
<1> DEFINE S == Frames(heap)
<1>4. CallToType(t) \in S
  BY <1>3
<1> HIDE DEF S
<1>5. <<CallToType(t)>> \in Seq(S)
  BY <1>4
<1>6. stack' \in Seq(Frames(heap'))
  BY <1>5 DEF Request, S
<1>7. ret' \in [status : {"none", "ok", "err"}, refs : SUBSET ObjectsOf(heap)]
  BY <1>2, ResultTypes DEF Request
<1>8. requests' \in Seq(Types)
  BY <1>1 DEF Request, TypeOK
<1> HIDE DEF Frames, HeapObjects
<1> QED  BY <1>6, <1>7, <1>8 DEF Request, TypeOK

LEMMA InitTypes == Init => TypeOK
<1> SUFFICES ASSUME Init  PROVE TypeOK
  OBVIOUS
<1>1. heap = <<>> /\ Len(heap) = 0 /\ ObjectsOf(heap) = {}
  BY DEF Init, ObjectsOf
<1>2. prog \in [decl : [Names -> [under : Types, methods : Seq(Types)]],
                promoted : [Types -> Seq(Types)]]
  BY ProgramsAssumption DEF Init
<1>3. /\ placeholder \in [Names -> ObjectsOf(heap) \cup {NoType}]
      /\ resolved \in [Names -> ObjectsOf(heap) \cup {NoType}]
      /\ ntype = {} /\ requests = <<>> /\ stack = <<>>
  BY DEF Init
<1>4. ret \in [status : {"none", "ok", "err"}, refs : SUBSET ObjectsOf(heap)]
  BY DEF Init, NoResult
<1> HIDE DEF Frames, HeapObjects
<1> QED  BY <1>1, <1>2, <1>3, <1>4 DEF TypeOK

LEMMA TypeStep ==
  ASSUME TypeOK, [Next]_vars
  PROVE  TypeOK'
<1>1. CASE UNCHANGED vars
  BY <1>1 DEF vars, TypeOK
<1>2. CASE NoMoreRequests
  BY <1>2 DEF NoMoreRequests, vars, TypeOK
<1>3. ASSUME NEW t \in Requests, Request(t)  PROVE TypeOK'
  BY <1>3, RequestTypes
<1>4. CASE Convert
  BY <1>4, PlainStepTypes, StructWithMethodsTypes, SetMethodSetTypes, NameNewTypes,
     NamedPlainTypes, NamedWithMethodsTypes, RegisterTypes DEF Convert
<1> QED  BY <1>1, <1>2, <1>3, <1>4 DEF Next

(* Frames, results, tables and objects are well formed, always.            *)
THEOREM Typing == Spec => []TypeOK
BY InitTypes, TypeStep, PTL DEF Spec

-----------------------------------------------------------------------------
(* Every name is completed once.                                           *)
Completed(f) == IF CompletesName(f) THEN {f.name} ELSE {}

LEMMA ConsUnderWay ==
  ASSUME NEW S, NEW f \in S, NEW r \in Seq(S)
  PROVE  /\ UnderWay(<<f>> \o r) = UnderWay(r) \cup Completed(f)
         /\ OneEach(<<f>> \o r) <=> OneEach(r) /\ Completed(f) \cap UnderWay(r) = {}
<1> DEFINE s == <<f>> \o r
<1>1. /\ Len(s) = Len(r) + 1 /\ s[1] = f
      /\ \A i \in 1..Len(r) : s[i + 1] = r[i]
  BY ConsFacts
<1>2. Len(r) \in Nat /\ DOMAIN r = 1..Len(r)
  OBVIOUS
<1>3. DOMAIN s = 1..Len(s)
  BY ConsFacts
<1> HIDE DEF s
<1>4. \A i \in DOMAIN s : i = 1 \/ (i - 1 \in DOMAIN r /\ s[i] = r[i - 1])
  <2> SUFFICES ASSUME NEW i \in DOMAIN s, i # 1
               PROVE  i - 1 \in DOMAIN r /\ s[i] = r[i - 1]
    OBVIOUS
  <2>1. i - 1 \in DOMAIN r /\ (i - 1) + 1 = i
    BY <1>1, <1>2, <1>3
  <2> QED  BY <1>1, <1>2, <2>1
<1>5. \A i \in DOMAIN r : i + 1 \in DOMAIN s /\ s[i + 1] = r[i] /\ i + 1 # 1
  BY <1>1, <1>2, <1>3
<1>6. 1 \in DOMAIN s
  BY <1>1, <1>2, <1>3
<1>7. UnderWay(s) = UnderWay(r) \cup Completed(f)
  <2>1. ASSUME NEW n \in UnderWay(s)  PROVE n \in UnderWay(r) \cup Completed(f)
    <3>1. PICK i \in DOMAIN s : CompletesName(s[i]) /\ n = s[i].name
      BY <2>1 DEF UnderWay
    <3> QED  BY <1>1, <1>4, <3>1 DEF UnderWay, Completed
  <2>2. ASSUME NEW n \in UnderWay(r)  PROVE n \in UnderWay(s)
    <3>1. PICK i \in DOMAIN r : CompletesName(r[i]) /\ n = r[i].name
      BY <2>2 DEF UnderWay
    <3> QED  BY <1>5, <3>1 DEF UnderWay
  <2>3. ASSUME NEW n \in Completed(f)  PROVE n \in UnderWay(s)
    BY <1>1, <1>6, <2>3 DEF UnderWay, Completed
  <2> QED  BY <2>1, <2>2, <2>3
<1>8. OneEach(r) /\ Completed(f) \cap UnderWay(r) = {} => OneEach(s)
  <2> SUFFICES ASSUME OneEach(r), Completed(f) \cap UnderWay(r) = {},
                      NEW i \in DOMAIN s, NEW j \in DOMAIN s,
                      CompletesName(s[i]), CompletesName(s[j]), s[i].name = s[j].name
               PROVE  i = j
    BY DEF OneEach
  <2>1. CASE i = 1 /\ j = 1
    BY <2>1
  <2>2. CASE i = 1 /\ j # 1
    BY <1>1, <1>4, <2>2 DEF Completed, UnderWay
  <2>3. CASE i # 1 /\ j = 1
    BY <1>1, <1>4, <2>3 DEF Completed, UnderWay
  <2>4. CASE i # 1 /\ j # 1
    <3>1. i - 1 = j - 1
      BY <1>4, <2>4 DEF OneEach
    <3> QED  BY <1>2, <1>1, <1>3, <3>1
  <2> QED  BY <2>1, <2>2, <2>3, <2>4
<1>9. OneEach(s) => OneEach(r) /\ Completed(f) \cap UnderWay(r) = {}
  <2> SUFFICES ASSUME OneEach(s)  PROVE OneEach(r) /\ Completed(f) \cap UnderWay(r) = {}
    OBVIOUS
  <2>1. OneEach(r)
    <3> SUFFICES ASSUME NEW i \in DOMAIN r, NEW j \in DOMAIN r,
                        CompletesName(r[i]), CompletesName(r[j]), r[i].name = r[j].name
                 PROVE  i = j
      BY DEF OneEach
    <3>1. i + 1 = j + 1
      BY <1>5 DEF OneEach
    <3> QED  BY <1>2, <3>1
  <2>2. ASSUME NEW n \in Completed(f) \cap UnderWay(r)  PROVE FALSE
    <3>1. PICK i \in DOMAIN r : CompletesName(r[i]) /\ n = r[i].name
      BY <2>2 DEF UnderWay
    <3>2. CompletesName(f) /\ n = f.name
      BY <2>2 DEF Completed
    <3>3. i + 1 = 1
      BY <1>1, <1>5, <1>6, <3>1, <3>2 DEF OneEach
    <3> QED  BY <1>5, <3>3
  <2> QED  BY <2>1, <2>2
<1> QED  BY <1>7, <1>8, <1>9 DEF s

(* What OncePerName says of the stack's top and of what is under it.       *)
LEMMA TopOnce ==
  ASSUME TypeOK, OncePerName, stack # <<>>
  PROVE  /\ OneEach(Rest) /\ Completed(Top) \cap UnderWay(Rest) = {}
         /\ UnderWay(stack) = UnderWay(Rest) \cup Completed(Top)
<1>1. Top \in Frames(heap) /\ Rest \in Seq(Frames(heap)) /\ stack = <<Top>> \o Rest
  BY TopFacts
<1> DEFINE S == Frames(heap)
<1>2. Top \in S /\ Rest \in Seq(S)
  BY <1>1
<1> HIDE DEF S
<1>3. /\ UnderWay(<<Top>> \o Rest) = UnderWay(Rest) \cup Completed(Top)
      /\ OneEach(<<Top>> \o Rest) <=> OneEach(Rest) /\ Completed(Top) \cap UnderWay(Rest) = {}
  BY <1>2, ConsUnderWay
<1> QED  BY <1>1, <1>3 DEF OncePerName

(* Pushing a frame that completes no name onto one that may.               *)
LEMMA PushedOnce ==
  ASSUME TypeOK, stack # <<>>, NEW f, NEW g, Completed(f) = {},
         OneEach(Rest), Completed(g) \cap UnderWay(Rest) = {}
  PROVE  \A s \in {<<g>> \o Rest, <<f, g>> \o Rest} :
           OneEach(s) /\ UnderWay(s) = UnderWay(Rest) \cup Completed(g)
<1> DEFINE S == Frames(heap) \cup {f, g}
<1>1. Rest \in Seq(Frames(heap)) /\ Frames(heap) \subseteq S
  BY TopFacts
<1>2. f \in S /\ g \in S /\ Rest \in Seq(S)
  <2> HIDE DEF S
  <2>1. Rest \in Seq(S)
    BY <1>1, SeqMonotone
  <2> QED  BY <2>1 DEF S
<1> HIDE DEF S
<1> DEFINE q == <<g>> \o Rest
<1>3. q \in Seq(S) /\ OneEach(q) /\ UnderWay(q) = UnderWay(Rest) \cup Completed(g)
  BY <1>2, ConsFacts, ConsUnderWay
<1>4. <<f, g>> \o Rest = <<f>> \o q
  BY <1>2, ConsTwice
<1> HIDE DEF q
<1>5. OneEach(<<f>> \o q) /\ UnderWay(<<f>> \o q) = UnderWay(q) \cup Completed(f)
  BY <1>2, <1>3, ConsUnderWay
<1> QED  BY <1>3, <1>4, <1>5 DEF q

(* The steps that neither enter a name nor give one its type.              *)
LEMMA SameTablesOnce ==
  ASSUME TypeOK, OncePerName, stack # <<>>,
         placeholder' = placeholder, resolved' = resolved,
         NEW f, NEW g, Completed(f) = {}, Completed(g) \subseteq Completed(Top),
         stack' = Rest \/ stack' \in {<<g>> \o Rest, <<f, g>> \o Rest}
  PROVE  /\ OncePerName'
         /\ stack' = Rest /\ Completed(Top) = {} => UnderWay(stack) = UnderWay(stack')
         /\ stack' # Rest /\ Completed(Top) = Completed(g) => UnderWay(stack) = UnderWay(stack')
<1>1. /\ OneEach(Rest) /\ Completed(g) \cap UnderWay(Rest) = {}
      /\ UnderWay(stack) = UnderWay(Rest) \cup Completed(Top)
  BY TopOnce
<1>2. stack' # Rest => OneEach(stack') /\ UnderWay(stack') = UnderWay(Rest) \cup Completed(g)
  BY <1>1, PushedOnce
<1>3. OneEach(stack') /\ UnderWay(stack') \subseteq UnderWay(stack)
  BY <1>1, <1>2
<1>4. OncePerName'
  BY <1>3 DEF OncePerName, Pending
<1>5. stack' = Rest /\ Completed(Top) = {} => UnderWay(stack) = UnderWay(stack')
  BY <1>1
<1>6. stack' # Rest /\ Completed(Top) = Completed(g) => UnderWay(stack) = UnderWay(stack')
  BY <1>1, <1>2
<1> QED  BY <1>4, <1>5, <1>6

LEMMA FrameCompletes ==
  /\ \A t : Completed(CallToType(t)) = {} /\ Completed(Elems(t)) = {}
  /\ \A n : Completed(NamedFrame(n)) = {n}
  /\ \A n, o : Completed(Attach(n, o)) = {n}
  /\ \A o, x : Completed(Updater(o, x)) = {} /\ Completed(RangeOver(o, x)) = {}
  /\ \A t, o, x : Completed(Embedded(t, o, x)) = {}
BY DEF Completed, CompletesName, CallToType, Elems, NamedFrame, Attach, Updater, RangeOver,
       Embedded, Frame

LEMMA TopCompletes ==
  ASSUME TypeOK, stack # <<>>
  PROVE  /\ \A x : /\ Completed([Top EXCEPT !.done = x]) = Completed(Top)
                   /\ Completed([Top EXCEPT !.refs = x]) = Completed(Top)
                   /\ Completed([Top EXCEPT !.seen = x]) = Completed(Top)
         /\ Top.op \in {"named", "attach"} => Completed(Top) = {Top.name}
         /\ Top.op \notin {"named", "attach"} => Completed(Top) = {}
<1>1. Top \in Frames(heap)
  BY TopFacts
<1> HIDE DEF Top
<1>2. \A x : /\ [Top EXCEPT !.done = x].op = Top.op /\ [Top EXCEPT !.done = x].name = Top.name
             /\ [Top EXCEPT !.refs = x].op = Top.op /\ [Top EXCEPT !.refs = x].name = Top.name
             /\ [Top EXCEPT !.seen = x].op = Top.op /\ [Top EXCEPT !.seen = x].name = Top.name
  BY <1>1 DEF Frames
<1> QED  BY <1>2 DEF Completed, CompletesName

LEMMA PushedMore ==
  ASSUME TypeOK, stack # <<>>, NEW f, NEW g
  PROVE  <<f, g>> \o Rest # Rest
<1>1. Len(Rest) \in Nat
  <2> DEFINE S == Frames(heap)
  <2>1. Rest \in Seq(S)
    BY TopFacts
  <2> HIDE DEF S
  <2> QED  BY <2>1
<1> DEFINE S == {Rest[i] : i \in 1..Len(Rest)} \cup {f, g}
<1>2. Rest \in Seq(S) /\ <<f, g>> \in Seq(S)
  <2>1. Rest \in Seq(Frames(heap))
    BY TopFacts
  <2>2. \A i \in 1..Len(Rest) : Rest[i] \in S
    OBVIOUS
  <2> DEFINE T == Frames(heap)
             r == Rest
  <2>3. r \in Seq(T) /\ \A i \in 1..Len(r) : r[i] \in S
    BY <2>1, <2>2
  <2> HIDE DEF S, T, r
  <2>4. r \in Seq(S)
    BY <2>3
  <2>5. f \in S /\ g \in S
    BY DEF S
  <2> QED  BY <2>4, <2>5 DEF r
<1> HIDE DEF S
<1>3. Len(<<f, g>> \o Rest) = Len(Rest) + 2
  BY <1>2
<1> QED  BY <1>1, <1>3

LEMMA PlainStepOnce ==
  ASSUME TypeOK, OncePerName,
         \/ ToTypeProvided \/ ToTypeBasic \/ ToTypeInvalid \/ ToTypeComposite
         \/ NextElem \/ ElemOk \/ ElemErr \/ CompositeBuilt
         \/ StructWithMethods \/ StructDone \/ SetMethodSet
         \/ (\E n \in Names : NameProvided(n) \/ NameFound(n))
         \/ NamedErr \/ NamedWithMethods
         \/ (\E o \in ntype : RangeNext(o)) \/ RangeDone
  PROVE  /\ OncePerName' /\ placeholder' = placeholder /\ resolved' = resolved
         /\ ~NamedErr => UnderWay(stack) = UnderWay(stack')
<1>1. CASE \/ ToTypeProvided \/ ToTypeBasic \/ ToTypeInvalid \/ ElemErr
           \/ CompositeBuilt \/ StructDone \/ SetMethodSet \/ (\E n \in Names : NameProvided(n) \/ NameFound(n))
           \/ NamedErr \/ RangeDone
  <2>1. /\ stack # <<>> /\ stack' = Rest
        /\ placeholder' = placeholder /\ resolved' = resolved
        /\ ~NamedErr => Top.op \notin {"named", "attach"}
    BY <1>1 DEF ToTypeProvided, ToTypeBasic, ToTypeInvalid, ElemErr, CompositeBuilt,
       StructDone, SetMethodSet, NameProvided, NameFound, NamedErr, RangeDone, Converting, Naming, Entering, Running, Return
  <2> DEFINE f == CallToType(NoType)
  <2>2. Completed(f) = {}
    BY FrameCompletes
  <2> HIDE DEF f
  <2>3. Completed(f) \subseteq Completed(Top)
    BY <2>2
  <2>4. ~NamedErr => Completed(Top) = {}
    BY <2>1, TopCompletes
  <2> QED  BY <2>1, <2>2, <2>3, <2>4, SameTablesOnce
<1>2. CASE ToTypeComposite
  <2> DEFINE g == Elems(Top.typ)
  <2>1. /\ stack # <<>> /\ stack' = <<g>> \o Rest /\ Top.op = "ToType"
        /\ placeholder' = placeholder /\ resolved' = resolved
    BY <1>2 DEF ToTypeComposite, Entering, Running, Push
  <2>2. Completed(g) = {} /\ Completed(Top) = {}
    BY <2>1, FrameCompletes, TopCompletes
  <2> HIDE DEF g
  <2> QED  BY <2>1, <2>2, SameTablesOnce
<1>3. CASE NextElem
  <2> DEFINE f == CallToType(Top.list[Top.done + 1])
             g == [Top EXCEPT !.done = @ + 1]
  <2>1. /\ stack # <<>> /\ stack' = <<f, g>> \o Rest /\ Top.op \notin {"named", "attach"}
        /\ placeholder' = placeholder /\ resolved' = resolved
    BY <1>3 DEF NextElem, Converting, Running, Push
  <2>2. Completed(f) = {} /\ Completed(g) = Completed(Top) /\ Completed(Top) = {}
    BY <2>1, FrameCompletes, TopCompletes
  <2> HIDE DEF f, g
  <2> QED  BY <2>1, <2>2, SameTablesOnce
<1>4. CASE ElemOk
  <2> DEFINE g == [Top EXCEPT !.refs = @ \cup ret.refs]
             f == CallToType(NoType)
  <2>1. /\ stack # <<>> /\ stack' = <<g>> \o Rest /\ Top.op \notin {"named", "attach"}
        /\ placeholder' = placeholder /\ resolved' = resolved
    BY <1>4 DEF ElemOk, Converting, Running, Push
  <2>2. Completed(f) = {} /\ Completed(g) = Completed(Top) /\ Completed(Top) = {}
    BY <2>1, FrameCompletes, TopCompletes
  <2> HIDE DEF f, g
  <2> QED  BY <2>1, <2>2, SameTablesOnce
<1>5. CASE StructWithMethods
  <2> DEFINE f == Updater(Fresh, prog.promoted[Top.typ])
             g == Embedded(Top.typ, Fresh, Top.refs)
  <2>1. /\ stack # <<>> /\ stack' = <<f, g>> \o Rest /\ Top.op \notin {"named", "attach"}
        /\ placeholder' = placeholder /\ resolved' = resolved
    BY <1>5 DEF StructWithMethods, Running, Push
  <2>2. Completed(f) = {} /\ Completed(g) = {} /\ Completed(Top) = {}
    BY <2>1, FrameCompletes, TopCompletes
  <2> HIDE DEF f, g
  <2> QED  BY <2>1, <2>2, SameTablesOnce
<1>6. CASE NamedWithMethods
  <2> DEFINE f == Updater(Fresh, Decl[Top.name].methods)
             g == Attach(Top.name, Fresh)
  <2>1. /\ stack # <<>> /\ stack' = <<f, g>> \o Rest /\ Top.op = "named"
        /\ placeholder' = placeholder /\ resolved' = resolved
    BY <1>6 DEF NamedWithMethods, Running, Push
  <2>2. Completed(f) = {} /\ Completed(g) = Completed(Top)
    BY <2>1, FrameCompletes, TopCompletes
  <2> HIDE DEF f, g
  <2>3. stack' # Rest
    BY <2>1, PushedMore
  <2> QED  BY <2>1, <2>2, <2>3, SameTablesOnce
<1>7. ASSUME NEW o \in ntype, RangeNext(o)
      PROVE  /\ OncePerName' /\ placeholder' = placeholder /\ resolved' = resolved
             /\ ~NamedErr => UnderWay(stack) = UnderWay(stack')
  <2> DEFINE f == Updater(o, Decl[heap[o].name].methods)
             g == [Top EXCEPT !.seen = @ \cup {o}]
  <2>1. /\ stack # <<>> /\ stack' = <<f, g>> \o Rest /\ Top.op \notin {"named", "attach"}
        /\ placeholder' = placeholder /\ resolved' = resolved
    BY <1>7 DEF RangeNext, Running, Push
  <2>2. Completed(f) = {} /\ Completed(g) = Completed(Top) /\ Completed(Top) = {}
    BY <2>1, FrameCompletes, TopCompletes
  <2> HIDE DEF f, g
  <2> QED  BY <2>1, <2>2, SameTablesOnce
<1> QED  BY <1>1, <1>2, <1>3, <1>4, <1>5, <1>6, <1>7

(* A scope declares a name once, so its entry is the only one with its id. *)
LEMMA MatchingIsOwn ==
  ASSUME NEW n \in Names
  PROVE  /\ Matching(n) \subseteq {n}
         /\ Matching(n) = {} => placeholder[n] = NoType
BY ScopeAssumption DEF Matching, Entries

(* No name is left behind: one that waits for its type without a frame     *)
(* that will give it did so before.                                        *)
NoneDropped ==
  \A n \in Names : Pending(n)' /\ n \notin UnderWay(stack') => Pending(n) /\ n \notin UnderWay(stack)

LEMMA NameNewOnce ==
  ASSUME TypeOK, OncePerName, NEW n \in Names, NameNew(n)
  PROVE  OncePerName' /\ NoneDropped
<1> DEFINE f == CallToType(Decl[n].under)
           g == NamedFrame(n)
<1>1. /\ stack # <<>> /\ stack' = <<f, g>> \o Rest /\ Top.op = "ToType"
      /\ placeholder' = [placeholder EXCEPT ![n] = Fresh] /\ resolved' = resolved
  BY DEF NameNew, Naming, Entering, Running, Push
<1>2. Completed(f) = {} /\ Completed(g) = {n} /\ Completed(Top) = {}
  BY <1>1, FrameCompletes, TopCompletes
<1> HIDE DEF f, g
<1>3. placeholder[n] = NoType /\ resolved[n] = NoType
  BY MatchingIsOwn DEF NameNew, OncePerName
<1>4. OneEach(Rest) /\ UnderWay(stack) = UnderWay(Rest)
  BY <1>1, <1>2, TopOnce
<1>5. n \notin UnderWay(Rest)
  BY <1>3, <1>4 DEF OncePerName, Pending
<1>6. OneEach(stack') /\ UnderWay(stack') = UnderWay(Rest) \cup {n}
  <2>1. Completed(g) \cap UnderWay(Rest) = {}
    BY <1>2, <1>5
  <2>2. \A s \in {<<g>> \o Rest, <<f, g>> \o Rest} :
          OneEach(s) /\ UnderWay(s) = UnderWay(Rest) \cup Completed(g)
    BY <1>1, <1>2, <1>4, <2>1, PushedOnce
  <2> QED  BY <1>1, <1>2, <2>2
<1>7. Fresh # NoType
  <2>1. Fresh \in Nat
    BY SameHeapGrows DEF Fresh
  <2> QED  BY <2>1, TypesAssumption
<1>8. placeholder \in [Names -> ObjectsOf(heap) \cup {NoType}]
  BY DEF TypeOK
<1>9. \A m \in UnderWay(stack') : Pending(m)'
  <2>1. Pending(n)'
    BY <1>1, <1>3, <1>7, <1>8 DEF Pending
  <2>2. ASSUME NEW m \in UnderWay(Rest)  PROVE Pending(m)'
    <3>1. Pending(m) /\ m # n
      BY <1>4, <1>5, <2>2 DEF OncePerName
    <3> QED  BY <1>1, <3>1 DEF Pending
  <2> QED  BY <1>6, <2>1, <2>2
<1>10. \A m \in Names : resolved'[m] # NoType => placeholder'[m] # NoType
  BY <1>1, <1>7, <1>8 DEF OncePerName
<1>11. \A m \in Names : m # n => placeholder'[m] = placeholder[m]
  BY <1>1, <1>8
<1>12. NoneDropped
  BY <1>1, <1>4, <1>6, <1>11 DEF NoneDropped, Pending
<1> QED  BY <1>6, <1>9, <1>10, <1>12 DEF OncePerName

(* A name gets its type when the frame that completes it is done: until    *)
(* then it has none, afterwards the table keeps it.                        *)
LEMMA UpdateScopeOnce ==
  ASSUME TypeOK, OncePerName, stack # <<>>, Top.op \in {"named", "attach"},
         placeholder' = placeholder, NEW o, o # NoType, resolved' = Table(Top.name, o),
         NEW f, Completed(f) = {}, stack' = Rest \/ stack' = <<f>> \o Rest
  PROVE  /\ OncePerName' /\ NoneDropped
         /\ \A n \in Names : resolved[n] # NoType => resolved'[n] = resolved[n]
<1>1. Top.name \in Names /\ Completed(Top) = {Top.name}
  BY TopFields, TopCompletes
<1>2. /\ OneEach(Rest) /\ Top.name \notin UnderWay(Rest)
      /\ UnderWay(stack) = UnderWay(Rest) \cup {Top.name}
  BY <1>1, TopOnce
<1>3. OneEach(stack') /\ UnderWay(stack') = UnderWay(Rest)
  BY <1>2, PushedOnce
<1>4. Pending(Top.name)
  BY <1>2 DEF OncePerName
<1>5. \A m \in Names : m # Top.name => resolved'[m] = resolved[m]
  BY <1>1, MatchingIsOwn DEF Table
<1>6. UnderWay(Rest) \subseteq Names
  <2>1. \A n \in UnderWay(Rest) : \E i \in DOMAIN Rest : CompletesName(Rest[i]) /\ n = Rest[i].name
    BY DEF UnderWay
  <2>2. \A i \in DOMAIN Rest : Rest[i] \in Frames(heap)
    <3> DEFINE S == Frames(heap)
    <3>1. Rest \in Seq(S)
      BY TopFacts
    <3> HIDE DEF S
    <3>2. \A i \in DOMAIN Rest : Rest[i] \in S
      BY <3>1
    <3> QED  BY <3>2 DEF S
  <2>3. \A x \in Frames(heap) : CompletesName(x) => x.name \in Names
    BY DEF CompletesName, Frames
  <2> QED  BY <2>1, <2>2, <2>3
<1>7. \A n \in UnderWay(stack') : Pending(n)'
  BY <1>2, <1>3, <1>5, <1>6 DEF OncePerName, Pending
<1>8. \A n \in Names : resolved'[n] # NoType => placeholder'[n] # NoType
  BY <1>4, <1>5 DEF OncePerName, Pending
<1>9. \A n \in Names : resolved[n] # NoType => resolved'[n] = resolved[n]
  BY <1>4, <1>5 DEF Pending
<1>10. resolved'[Top.name] = o
  BY <1>1, <1>4, MatchingIsOwn DEF Table, Pending
<1>11. NoneDropped
  BY <1>2, <1>3, <1>5, <1>10 DEF NoneDropped, Pending
<1> QED  BY <1>3, <1>7, <1>8, <1>9, <1>11 DEF OncePerName

LEMMA CompletionOnce ==
  ASSUME TypeOK, OncePerName, NamedPlain \/ Register
  PROVE  /\ OncePerName' /\ NoneDropped
         /\ \A n \in Names : resolved[n] # NoType => resolved'[n] = resolved[n]
<1>1. CASE NamedPlain
  <2>1. /\ stack # <<>> /\ Top.op = "named" /\ stack' = Rest
        /\ placeholder' = placeholder /\ resolved' = Table(Top.name, Fresh)
    BY <1>1 DEF NamedPlain, Running, Return, UpdateScope
  <2>2. Fresh # NoType
    <3>1. Fresh \in Nat
      BY SameHeapGrows DEF Fresh
    <3> QED  BY <3>1, TypesAssumption
  <2> DEFINE f == CallToType(NoType)
  <2>3. Completed(f) = {}
    BY FrameCompletes
  <2> HIDE DEF f
  <2> QED  BY <2>1, <2>2, <2>3, UpdateScopeOnce
<1>2. CASE Register
  <2> DEFINE f == RangeOver(Top.obj, ntype')
  <2>1. /\ stack # <<>> /\ Top.op = "attach" /\ stack' = <<f>> \o Rest
        /\ placeholder' = placeholder /\ resolved' = Table(Top.name, Top.obj)
    BY <1>2 DEF Register, Running, Push, UpdateScope
  <2>2. Top.obj # NoType
    <3>1. Top.obj \in Nat
      BY <2>1, TopFields DEF ObjectsOf
    <3> QED  BY <3>1, TypesAssumption
  <2>3. Completed(f) = {}
    BY FrameCompletes
  <2> HIDE DEF f
  <2> QED  BY <2>1, <2>2, <2>3, UpdateScopeOnce
<1> QED  BY <1>1, <1>2

LEMMA RequestOnce ==
  ASSUME TypeOK, OncePerName, NEW t \in Requests, Request(t)
  PROVE  OncePerName' /\ NoneDropped
<1> DEFINE f == CallToType(t)
<1>1. stack' = <<f>> /\ placeholder' = placeholder /\ resolved' = resolved
  BY DEF Request
<1>2. ~CompletesName(f)
  BY DEF CompletesName, CallToType, Frame
<1> HIDE DEF f
<1>3. DOMAIN stack' = {1} /\ stack'[1] = f
  BY <1>1
<1>4. OneEach(stack') /\ UnderWay(stack') = {}
  BY <1>2, <1>3 DEF OneEach, UnderWay
<1>5. UnderWay(stack) = {}
  BY DEF Request, UnderWay
<1>6. NoneDropped
  BY <1>1, <1>5 DEF NoneDropped, Pending
<1> QED  BY <1>1, <1>4, <1>6 DEF OncePerName

LEMMA OnceStep ==
  ASSUME TypeOK, OncePerName, [Next]_vars
  PROVE  /\ OncePerName'
         /\ \A n \in Names : resolved[n] # NoType => resolved'[n] = resolved[n]
         /\ ~NamedErr => NoneDropped
<1>1. CASE UNCHANGED vars \/ NoMoreRequests
  <2>1. UNCHANGED vars
    BY <1>1 DEF NoMoreRequests
  <2> QED  BY <2>1 DEF vars, OncePerName, OneEach, UnderWay, Pending, NoneDropped
<1>2. ASSUME NEW t \in Requests, Request(t)
      PROVE  OncePerName' /\ resolved' = resolved /\ NoneDropped
  BY <1>2, RequestOnce DEF Request
<1>3. CASE NamedPlain \/ Register
  BY <1>3, CompletionOnce
<1>4. ASSUME NEW n \in Names, NameNew(n)
      PROVE  OncePerName' /\ resolved' = resolved /\ NoneDropped
  BY <1>4, NameNewOnce DEF NameNew
<1>5. ASSUME Convert, ~NamedPlain, ~Register, ~(\E n \in Names : NameNew(n))
      PROVE  OncePerName' /\ resolved' = resolved /\ (~NamedErr => NoneDropped)
  <2>1. \/ ToTypeProvided \/ ToTypeBasic \/ ToTypeInvalid \/ ToTypeComposite
        \/ NextElem \/ ElemOk \/ ElemErr \/ CompositeBuilt
        \/ StructWithMethods \/ StructDone \/ SetMethodSet
        \/ (\E n \in Names : NameProvided(n) \/ NameFound(n))
        \/ NamedErr \/ NamedWithMethods
        \/ (\E o \in ntype : RangeNext(o)) \/ RangeDone
    BY <1>5 DEF Convert
  <2>2. /\ OncePerName' /\ placeholder' = placeholder /\ resolved' = resolved
        /\ ~NamedErr => UnderWay(stack) = UnderWay(stack')
    BY <2>1, PlainStepOnce
  <2> QED  BY <2>2 DEF NoneDropped, Pending
<1> QED  BY <1>1, <1>2, <1>3, <1>4, <1>5 DEF Next

LEMMA InitOnce == Init => OncePerName
BY DEF Init, OncePerName, OneEach, UnderWay

(* toNamedType is never entered again for a name it is converting, however *)
(* the declarations refer to each other.                                   *)
THEOREM NoReentry == Spec => []OncePerName
<1>1. TypeOK /\ OncePerName /\ [Next]_vars => TypeOK' /\ OncePerName'
  BY TypeStep, OnceStep
<1> QED  BY InitTypes, InitOnce, <1>1, PTL DEF Spec

(* A name that has its type keeps that very type, in all the conversions   *)
(* of a Context: what was handed out stays the type of the name.           *)
THEOREM KeepsIdentity == Spec => ResolvedOnce
<1>1. TypeOK /\ OncePerName /\ [Next]_vars
        => [\A n \in Names : resolved[n] # NoType => resolved'[n] = resolved[n]]_vars
  BY OnceStep
<1> QED  BY Typing, NoReentry, <1>1, PTL DEF Spec, ResolvedOnce

-----------------------------------------------------------------------------
(* Types are finite trees: what Mentioned and Wrong compute.               *)

LEMMA LeastNumber ==
  ASSUME NEW T \in SUBSET Nat, T # {}
  PROVE  \E x \in T : \A y \in T : x <= y
<1> DEFINE R == {ss \in Nat \X Nat : ss[1] < ss[2]}
<1>1. IsWellFoundedOn(R, Nat)
  BY NatLessThanWellFounded DEF OpToRel
<1> HIDE DEF R
<1>2. PICK x \in T : \A y \in T : ~(<<y, x>> \in R)
  BY <1>1, WFMin
<1>3. ASSUME NEW y \in T, y < x  PROVE <<y, x>> \in R
  BY <1>3 DEF R
<1>4. \A y \in T : ~(y < x)
  BY <1>2, <1>3
<1> QED  BY <1>4

LEMMA Induction ==
  ASSUME NEW S, 0 \in S, \A n \in Nat : n \in S => n + 1 \in S
  PROVE  \A n \in Nat : n \in S
<1> SUFFICES ASSUME NEW n \in Nat, n \notin S  PROVE FALSE
  OBVIOUS
<1> DEFINE T == {k \in Nat : k \notin S}
<1>1. PICK x \in T : \A y \in T : x <= y
  <2>1. n \in T
    OBVIOUS
  <2> QED  BY <2>1, LeastNumber
<1>2. x # 0
  OBVIOUS
<1>3. x - 1 \in Nat /\ x - 1 \notin T
  BY <1>1, <1>2
<1> QED  BY <1>1, <1>3

(* The types of less than n levels.                                        *)
Flat(n) == {t \in Types : Height[t] < n}

LEMMA FlatFacts ==
  /\ Flat(0) = {}
  /\ \A n \in Nat : /\ Flat(n) \subseteq Flat(n + 1)
                    /\ \A t \in Flat(n + 1) : \A i \in DOMAIN t.elems : t.elems[i] \in Flat(n)
  /\ \E n \in Nat : Flat(n) = Types
<1>1. \A t \in Types : Height[t] \in Nat /\ \A i \in DOMAIN t.elems : t.elems[i] \in Types
  BY HeightAssumption, TypesAssumption
<1>2. Flat(0) = {}
  BY <1>1 DEF Flat
<1>3. ASSUME NEW n \in Nat
      PROVE  /\ Flat(n) \subseteq Flat(n + 1)
             /\ \A t \in Flat(n + 1) : \A i \in DOMAIN t.elems : t.elems[i] \in Flat(n)
  <2>1. Flat(n) \subseteq Flat(n + 1)
    BY <1>1 DEF Flat
  <2>2. ASSUME NEW t \in Flat(n + 1), NEW i \in DOMAIN t.elems  PROVE t.elems[i] \in Flat(n)
    <3>1. Height[t.elems[i]] \in Nat /\ Height[t.elems[i]] < Height[t] /\ Height[t] \in Nat
      BY <1>1, HeightAssumption DEF Flat
    <3>2. Height[t] < n + 1
      BY DEF Flat
    <3>3. Height[t.elems[i]] < n
      BY <3>1, <3>2
    <3> QED  BY <1>1, <3>3 DEF Flat
  <2> QED  BY <2>1, <2>2
<1>4. \E n \in Nat : Flat(n) = Types
  <2>1. Cardinality(Types) \in Nat
    BY HeightAssumption, FS_CardinalityType
  <2> DEFINE n == Cardinality(Types)
  <2>2. n \in Nat /\ \A t \in Types : Height[t] \in 0..n
    BY <2>1, HeightAssumption
  <2> HIDE DEF n
  <2>3. Flat(n + 1) = Types
    BY <1>1, <2>2 DEF Flat
  <2> QED  BY <2>2, <2>3
<1> QED  BY <1>2, <1>3, <1>4

(* What a type mentions and whether it is wrong, given both for its parts. *)
MentionsOf(f, t) ==
  IF t \in ProvidedTypes THEN {} ELSE IF t.kind = "named" THEN {t.name} \ Provided
  ELSE UNION {f[t.elems[i]] : i \in DOMAIN t.elems}

WrongOf(f, t) ==
  /\ t \notin ProvidedTypes
  /\ t.kind = "invalid" \/ \E i \in DOMAIN t.elems : f[t.elems[i]]

LEMMA RulesAgree ==
  ASSUME NEW t, NEW f, NEW g, \A i \in DOMAIN t.elems : f[t.elems[i]] = g[t.elems[i]]
  PROVE  MentionsOf(f, t) = MentionsOf(g, t) /\ (WrongOf(f, t) <=> WrongOf(g, t))
<1>1. {f[t.elems[i]] : i \in DOMAIN t.elems} = {g[t.elems[i]] : i \in DOMAIN t.elems}
  OBVIOUS
<1>2. MentionsOf(f, t) = MentionsOf(g, t)
  BY <1>1 DEF MentionsOf
<1>3. WrongOf(f, t) <=> WrongOf(g, t)
  BY DEF WrongOf
<1> QED  BY <1>2, <1>3

LEMMA MentionedDef == \A t \in Types : Mentioned[t] = MentionsOf(Mentioned, t)
<1> DEFINE Solves(f, n) == f = [t \in Flat(n) |-> MentionsOf(f, t)]
           S == {n \in Nat : \E f : Solves(f, n)}
<1>1. 0 \in S
  <2> DEFINE f == [t \in {} |-> {}]
  <2>1. Solves(f, 0)
    BY FlatFacts
  <2> QED  BY <2>1
<1>2. ASSUME NEW n \in Nat, n \in S  PROVE n + 1 \in S
  <2> SUFFICES \E f : Solves(f, n + 1)
    OBVIOUS
  <2>1. PICK f : Solves(f, n)
    BY <1>2
  <2> DEFINE g == [t \in Flat(n + 1) |-> MentionsOf(f, t)]
  <2>2. \A t \in Flat(n) : f[t] = g[t]
    <3>1. \A t \in Flat(n) : f[t] = MentionsOf(f, t)
      BY <2>1
    <3>2. Flat(n) \subseteq Flat(n + 1)
      BY FlatFacts
    <3> QED  BY <3>1, <3>2
  <2>3. ASSUME NEW t \in Flat(n + 1)  PROVE MentionsOf(f, t) = MentionsOf(g, t)
    <3>1. \A i \in DOMAIN t.elems : f[t.elems[i]] = g[t.elems[i]]
      BY <2>2, FlatFacts
    <3> HIDE DEF g
    <3> QED  BY <3>1, RulesAgree
  <2>4. Solves(g, n + 1)
    BY <2>3
  <2> HIDE DEF g
  <2> QED  BY <2>4
<1> HIDE DEF S
<1>3. \A n \in Nat : n \in S
  BY <1>1, <1>2, Induction
<1>4. PICK f : f = [t \in Types |-> MentionsOf(f, t)]
  <2>1. PICK n \in Nat : Flat(n) = Types
    BY FlatFacts
  <2>2. PICK f : Solves(f, n)
    BY <1>3 DEF S
  <2> QED  BY <2>1, <2>2
<1>5. Mentioned = [t \in Types |-> MentionsOf(Mentioned, t)]
  BY <1>4, Zenon DEF Mentioned, MentionsOf
<1> QED  BY <1>5

LEMMA WrongDef == \A t \in Types : Wrong[t] = WrongOf(Wrong, t)
<1> DEFINE Solves(f, n) == f = [t \in Flat(n) |-> WrongOf(f, t)]
           S == {n \in Nat : \E f : Solves(f, n)}
<1>1. 0 \in S
  <2> DEFINE f == [t \in {} |-> {}]
  <2>1. Solves(f, 0)
    BY FlatFacts
  <2> QED  BY <2>1
<1>2. ASSUME NEW n \in Nat, n \in S  PROVE n + 1 \in S
  <2> SUFFICES \E f : Solves(f, n + 1)
    OBVIOUS
  <2>1. PICK f : Solves(f, n)
    BY <1>2
  <2> DEFINE g == [t \in Flat(n + 1) |-> WrongOf(f, t)]
  <2>2. \A t \in Flat(n) : f[t] = g[t]
    <3>1. \A t \in Flat(n) : f[t] = WrongOf(f, t)
      BY <2>1, Zenon
    <3>2. Flat(n) \subseteq Flat(n + 1)
      BY FlatFacts
    <3> QED  BY <3>1, <3>2, Zenon
  <2>3. ASSUME NEW t \in Flat(n + 1)  PROVE WrongOf(f, t) = WrongOf(g, t)
    <3>1. \A i \in DOMAIN t.elems : f[t.elems[i]] = g[t.elems[i]]
      BY <2>2, FlatFacts
    <3> HIDE DEF g
    <3>2. WrongOf(f, t) <=> WrongOf(g, t)
      BY <3>1, RulesAgree
    <3> QED  BY <3>2 DEF WrongOf
  <2>4. Solves(g, n + 1)
    BY <2>3, Zenon
  <2> HIDE DEF g
  <2> QED  BY <2>4
<1> HIDE DEF S
<1>3. \A n \in Nat : n \in S
  BY <1>1, <1>2, Induction
<1>4. PICK f : f = [t \in Types |-> WrongOf(f, t)]
  <2>1. PICK n \in Nat : Flat(n) = Types
    BY FlatFacts
  <2>2. PICK f : Solves(f, n)
    BY <1>3 DEF S
  <2> QED  BY <2>1, <2>2
<1>5. Wrong = [t \in Types |-> WrongOf(Wrong, t)]
  BY <1>4, Zenon DEF Wrong, WrongOf
<1> QED  BY <1>5, Zenon

(* A type mentions names.                                                  *)
LEMMA MentionedNames == \A t \in Types : Mentioned[t] \subseteq Names
<1> DEFINE S == {n \in Nat : \A t \in Flat(n) : Mentioned[t] \subseteq Names}
<1>1. 0 \in S
  BY FlatFacts
<1>2. ASSUME NEW n \in Nat, n \in S  PROVE n + 1 \in S
  <2> SUFFICES ASSUME NEW t \in Flat(n + 1)  PROVE Mentioned[t] \subseteq Names
    OBVIOUS
  <2>1. t \in Types /\ Mentioned[t] = MentionsOf(Mentioned, t)
    BY MentionedDef DEF Flat
  <2>2. \A i \in DOMAIN t.elems : Mentioned[t.elems[i]] \subseteq Names
    BY <1>2, FlatFacts
  <2> QED  BY <2>1, <2>2, TypesAssumption DEF MentionsOf
<1> HIDE DEF S
<1>3. \A n \in Nat : n \in S
  BY <1>1, <1>2, Induction
<1> QED  BY <1>3, FlatFacts DEF S

-----------------------------------------------------------------------------
(* Who asks for what.  A frame converts a type for the frame below it, its *)
(* caller, and the frame at the bottom does for the client.  A world is    *)
(* what frames refer to: the objects, the table and the program.           *)
World == [heap |-> heap, tab |-> resolved, pl |-> placeholder, prog |-> prog]
Client == [op |-> "client", typ |-> requests[Len(requests)]]

ImageIn(w, n) == IF w.tab[n] # NoType THEN w.tab[n] ELSE w.pl[n]

(* refs mentions the types of the names S, and unnamed structs.            *)
Faithful(refs, S, w) ==
  /\ refs \subseteq ObjectsOf(w.heap)
  /\ {o \in refs : w.heap[o].name # NoType} = {ImageIn(w, n) : n \in S}

IsLoop(f)  == f.op \in {"elems", "fn"}
HasRefs(f) == f.op \in {"elems", "fn", "embedded"}
OfType(f)  == f.op \in {"ToType", "elems", "embedded"}

NameOf(f, w) == IF f.op = "range" THEN w.heap[f.obj].name ELSE f.name

(* What the first k types of a loop mention.                               *)
FirstOf(f, k) == UNION {Mentioned[f.list[i]] : i \in 1..k}

(* What the references that a frame has gathered mention, while the frame  *)
(* waits for an answer.                                                    *)
Holds(f) == IF f.op = "embedded" THEN Mentioned[f.typ] ELSE FirstOf(f, f.done - 1)

Keeps(f, w) == HasRefs(f) => Faithful(f.refs, Holds(f), w)

FrameOK(f, w) ==
  /\ f.op \in {"ToType", "elems", "named", "attach", "fn", "embedded", "range"}
  /\ f.list \in Seq(Types) /\ f.done \in 0..Len(f.list)
  /\ OfType(f) => f.typ \in Types
  /\ f.op \in {"elems", "embedded"} => /\ f.typ \notin ProvidedTypes
                                       /\ f.typ.kind \in {"composite", "interface", "embedding"}
  /\ f.op = "elems" => f.list = f.typ.elems
  /\ f.op \in {"named", "attach"} => f.name \in Names \ Provided
  /\ f.op \in {"attach", "fn", "embedded", "range"} => f.obj \in ObjectsOf(w.heap)
  /\ f.op = "embedded" => w.heap[f.obj].name = NoType
  /\ f.op = "attach" => w.heap[f.obj].name = f.name
  /\ f.op = "range" => /\ NameOf(f, w) \in Names \ Provided
                       /\ w.tab[NameOf(f, w)] = f.obj

(* The type that a frame has asked for.                                    *)
AskedType(g, w) == IF IsLoop(g) THEN g.list[g.done]
                   ELSE IF g.op = "named" THEN w.prog.decl[g.name].under ELSE g.typ

Asks(g) == g.op \in {"elems", "fn", "named", "client"}

(* The frame f converts the type t.                                        *)
Answers(f, t, w) ==
  IF OfType(f) THEN f.typ = t
  ELSE t.kind = "named" /\ t \notin ProvidedTypes /\ t.name = NameOf(f, w)

(* f is the update function that g calls.                                  *)
Updates(f, g, w) ==
  /\ f.list = IF g.op = "embedded" THEN w.prog.promoted[g.typ]
              ELSE w.prog.decl[w.heap[f.obj].name].methods
  /\ g.op \in {"attach", "embedded"} => f.obj = g.obj
  /\ g.op = "range" => f.obj \in g.seen

Serves(f, g, w) ==
  IF Asks(g) THEN /\ f.op # "fn" /\ Answers(f, AskedType(g, w), w)
                  /\ IsLoop(g) => g.done >= 1
  ELSE f.op = "fn" /\ Updates(f, g, w)

(* r is an answer to the question for t.                                   *)
Right(r, t, w) == /\ r.status = "ok" => Faithful(r.refs, Mentioned[t], w)
                  /\ r.status = "err" /\ Pure(w.prog) => Wrong[t]

(* The names that the frame f completes are not held below it: they were   *)
(* met for the first time when the conversion of f began.                  *)
Apart(f, g) == CompletesName(f) /\ HasRefs(g) => f.name \notin Holds(g)

Asker(s, i, c) == IF i < Len(s) THEN s[i + 1] ELSE c

(* The frames s wait for answers.                                          *)
Waiting(s, c, w) ==
  \A i \in 1..Len(s) :
    /\ FrameOK(s[i], w) /\ Keeps(s[i], w) /\ s[i].op # "ToType"
    /\ Serves(s[i], Asker(s, i, c), w)
    /\ \A j \in (i + 1)..Len(s) : Apart(s[i], s[j])

(* What the frame at the top has, given the last answer r.                 *)
Has(f, w, r) ==
  /\ f.op = "ToType" => r = NoResult
  /\ f.op = "embedded" => Keeps(f, w)
  /\ f.op = "named" => Right(r, AskedType(f, w), w)
  /\ IsLoop(f) => IF r = NoResult THEN Faithful(f.refs, FirstOf(f, f.done), w)
                  ELSE f.done >= 1 /\ Keeps(f, w) /\ Right(r, AskedType(f, w), w)

Caller(s, c) == Asker(s, 0, c)

OnTop(f, s, c, w, r) ==
  /\ FrameOK(f, w) /\ Has(f, w, r)
  /\ Serves(f, Caller(s, c), w)
  /\ \A j \in 1..Len(s) : Apart(f, s[j])

Conversion(s, c, w, r) ==
  IF s = <<>> THEN Right(r, c.typ, w)
  ELSE Waiting(Tail(s), c, w) /\ OnTop(Head(s), Tail(s), c, w, r)

-----------------------------------------------------------------------------
(* The parts of a stack.                                                   *)
LEMMA TailFacts ==
  ASSUME NEW S, NEW s \in Seq(S), s # <<>>
  PROVE  /\ Len(s) \in Nat \ {0} /\ Head(s) = s[1] /\ Head(s) \in S /\ Tail(s) \in Seq(S)
         /\ Len(Tail(s)) = Len(s) - 1 /\ \A i \in 1..Len(Tail(s)) : Tail(s)[i] = s[i + 1]
OBVIOUS

LEMMA WaitingTail ==
  ASSUME NEW S, NEW s \in Seq(S), s # <<>>, NEW c, NEW w, Waiting(s, c, w)
  PROVE  /\ Waiting(Tail(s), c, w)
         /\ FrameOK(Head(s), w) /\ Keeps(Head(s), w) /\ Head(s).op # "ToType"
         /\ Serves(Head(s), Caller(Tail(s), c), w)
         /\ \A j \in 1..Len(Tail(s)) : Apart(Head(s), Tail(s)[j])
<1> DEFINE q == Tail(s)
           h == Head(s)
           n == Len(s)
<1>1. /\ n \in Nat \ {0} /\ h = s[1] /\ Len(q) = n - 1
      /\ \A i \in 1..Len(q) : q[i] = s[i + 1]
  BY TailFacts
<1>2. \A i \in 1..n :
         /\ FrameOK(s[i], w) /\ Keeps(s[i], w) /\ s[i].op # "ToType"
         /\ Serves(s[i], Asker(s, i, c), w)
         /\ \A j \in (i + 1)..n : Apart(s[i], s[j])
  BY DEF Waiting
<1>3. \A i \in 0..(n - 1) : Asker(q, i, c) = Asker(s, i + 1, c)
  <2> SUFFICES ASSUME NEW i \in 0..(n - 1)  PROVE Asker(q, i, c) = Asker(s, i + 1, c)
    OBVIOUS
  <2>1. CASE i < Len(q)
    <3>1. i + 1 \in 1..Len(q) /\ i + 1 < n
      BY <1>1, <2>1
    <3> HIDE DEF q, n
    <3> QED  BY <1>1, <2>1, <3>1 DEF Asker, n
  <2>2. CASE ~(i < Len(q))
    <3>1. ~(i + 1 < n)
      BY <1>1, <2>2
    <3> QED  BY <2>2, <3>1 DEF Asker
  <2> QED  BY <2>1, <2>2
<1> HIDE DEF q, h, n
<1>4. ASSUME NEW i \in 1..Len(q)
      PROVE  /\ FrameOK(q[i], w) /\ Keeps(q[i], w) /\ q[i].op # "ToType"
             /\ Serves(q[i], Asker(q, i, c), w)
             /\ \A j \in (i + 1)..Len(q) : Apart(q[i], q[j])
  <2>1. i + 1 \in 1..n /\ i \in 0..(n - 1) /\ q[i] = s[i + 1] /\ Asker(q, i, c) = Asker(s, i + 1, c)
    BY <1>1, <1>3
  <2>2. \A j \in (i + 1)..Len(q) : j + 1 \in (i + 1 + 1)..n /\ q[j] = s[j + 1]
    BY <1>1
  <2>3. \A j \in (i + 1)..Len(q) : Apart(s[i + 1], s[j + 1])
    BY <1>2, <2>1, <2>2
  <2> QED  BY <1>2, <2>1, <2>2, <2>3
<1>5. Waiting(q, c, w)
  BY <1>4 DEF Waiting
<1>6. FrameOK(h, w) /\ Keeps(h, w) /\ h.op # "ToType" /\ Serves(h, Caller(q, c), w)
  <2>1. 1 \in 1..n /\ 0 \in 0..(n - 1) /\ Caller(q, c) = Asker(s, 1, c)
    BY <1>1, <1>3 DEF Caller
  <2> QED  BY <1>1, <1>2, <2>1
<1>7. \A j \in 1..Len(q) : Apart(h, q[j])
  <2>1. 1 \in 1..n /\ \A j \in 1..Len(q) : j + 1 \in (1 + 1)..n /\ q[j] = s[j + 1]
    BY <1>1
  <2> QED  BY <1>1, <1>2, <2>1
<1> QED  BY <1>5, <1>6, <1>7 DEF q, h

LEMMA WaitingCons ==
  ASSUME NEW S, NEW s \in Seq(S), NEW g \in S, NEW c, NEW w, Waiting(s, c, w),
         FrameOK(g, w), Keeps(g, w), g.op # "ToType", Serves(g, Caller(s, c), w),
         \A j \in 1..Len(s) : Apart(g, s[j])
  PROVE  Waiting(<<g>> \o s, c, w)
<1> DEFINE q == <<g>> \o s
           n == Len(s)
<1>1. /\ q \in Seq(S) /\ Len(q) = n + 1 /\ q[1] = g /\ n \in Nat
      /\ \A i \in 1..n : q[i + 1] = s[i]
  <2>1. n \in Nat
    OBVIOUS
  <2> QED  BY <2>1, ConsFacts
<1>2. \A i \in 1..n :
         /\ FrameOK(s[i], w) /\ Keeps(s[i], w) /\ s[i].op # "ToType"
         /\ Serves(s[i], Asker(s, i, c), w)
         /\ \A j \in (i + 1)..n : Apart(s[i], s[j])
  BY DEF Waiting
<1> HIDE DEF q
<1>3. \A i \in 0..n : Asker(q, i + 1, c) = Asker(s, i, c)
  <2> SUFFICES ASSUME NEW i \in 0..n  PROVE Asker(q, i + 1, c) = Asker(s, i, c)
    OBVIOUS
  <2>1. CASE i < n
    <3>1. i + 1 \in 1..n /\ i + 1 < n + 1
      BY <1>1, <2>1
    <3>2. q[(i + 1) + 1] = s[i + 1]
      BY <1>1, <3>1
    <3> QED  BY <1>1, <2>1, <3>1, <3>2 DEF Asker
  <2>2. CASE ~(i < n)
    <3>1. ~(i + 1 < n + 1)
      BY <1>1, <2>2
    <3> QED  BY <1>1, <2>2, <3>1 DEF Asker
  <2> QED  BY <2>1, <2>2
<1> HIDE DEF n
<1>4. ASSUME NEW i \in 1..Len(q)
      PROVE  /\ FrameOK(q[i], w) /\ Keeps(q[i], w) /\ q[i].op # "ToType"
             /\ Serves(q[i], Asker(q, i, c), w)
             /\ \A j \in (i + 1)..Len(q) : Apart(q[i], q[j])
  <2>1. CASE i = 1
    <3>1. Asker(q, i, c) = Caller(s, c)
      <4>1. 0 \in 0..n /\ 0 + 1 = 1
        BY <1>1
      <4> QED  BY <1>3, <2>1, <4>1 DEF Caller
    <3>2. \A j \in (i + 1)..Len(q) : j - 1 \in 1..n /\ q[j] = s[j - 1]
      <4> SUFFICES ASSUME NEW j \in (i + 1)..Len(q)  PROVE j - 1 \in 1..n /\ q[j] = s[j - 1]
        OBVIOUS
      <4>1. j - 1 \in 1..n /\ (j - 1) + 1 = j
        BY <1>1, <2>1
      <4> QED  BY <1>1, <4>1
    <3>3. \A j \in (i + 1)..Len(q) : Apart(g, q[j])
      BY <3>2, n = Len(s) DEF n
    <3> QED  BY <1>1, <2>1, <3>1, <3>3
  <2>2. CASE i # 1
    <3> DEFINE k == i - 1
    <3>1. k \in 1..n /\ k \in 0..n /\ k + 1 = i
      BY <1>1, <2>2
    <3> HIDE DEF k
    <3>2. q[i] = s[k] /\ Asker(q, i, c) = Asker(s, k, c)
      BY <1>1, <1>3, <3>1
    <3>3. \A j \in (i + 1)..Len(q) : j - 1 \in (k + 1)..n /\ q[j] = s[j - 1]
      <4> SUFFICES ASSUME NEW j \in (i + 1)..Len(q)
                   PROVE j - 1 \in (k + 1)..n /\ q[j] = s[j - 1]
        OBVIOUS
      <4>1. j - 1 \in (k + 1)..n /\ j - 1 \in 1..n /\ (j - 1) + 1 = j
        BY <1>1, <3>1
      <4> QED  BY <1>1, <4>1
    <3>4. \A j \in (i + 1)..Len(q) : Apart(s[k], q[j])
      BY <1>2, <3>1, <3>3
    <3> QED  BY <1>2, <3>1, <3>2, <3>4
  <2> QED  BY <2>1, <2>2
<1>5. Waiting(q, c, w)
  BY <1>4 DEF Waiting
<1> QED  BY <1>5 DEF q

TablesOK(w) ==
  \A n \in Names :
    /\ w.pl[n] # NoType => w.pl[n] \in ObjectsOf(w.heap) /\ w.heap[w.pl[n]].name = n
    /\ w.tab[n] # NoType => w.tab[n] \in ObjectsOf(w.heap) /\ w.heap[w.tab[n]].name = n

(* How a step changes the world: the names X get other images.             *)
Moves(w, v, X) ==
  /\ v.prog = w.prog /\ Grows(w.heap, v.heap)
  /\ \A n \in Names : /\ n \notin X => ImageIn(v, n) = ImageIn(w, n)
                      /\ w.tab[n] # NoType => v.tab[n] = w.tab[n]

(* The program's types are types.                                          *)
ProgramOK(p) ==
  /\ \A n \in Names : p.decl[n].under \in Types /\ p.decl[n].methods \in Seq(Types)
  /\ \A t \in Types : p.promoted[t] \in Seq(Types)

LEMMA FirstOfNames ==
  ASSUME NEW f, f.list \in Seq(Types), NEW k \in Int, k <= Len(f.list)
  PROVE  FirstOf(f, k) \subseteq Names
<1>1. \A i \in 1..k : f.list[i] \in Types
  OBVIOUS
<1> QED  BY <1>1, MentionedNames DEF FirstOf

LEMMA HoldsNames ==
  ASSUME NEW f, NEW w, FrameOK(f, w), HasRefs(f)
  PROVE  Holds(f) \subseteq Names
<1>1. CASE f.op = "embedded"
  BY <1>1, MentionedNames DEF FrameOK, Holds, OfType
<1>2. CASE f.op # "embedded"
  <2>1. f.done - 1 \in Int /\ f.done - 1 <= Len(f.list) /\ f.list \in Seq(Types)
    BY DEF FrameOK
  <2> QED  BY <1>2, <2>1, FirstOfNames DEF Holds
<1> QED  BY <1>1, <1>2

LEMMA FaithfulMoves ==
  ASSUME NEW w, NEW v, NEW X, Moves(w, v, X), NEW refs, NEW S \in SUBSET Names,
         X \cap S = {}, Faithful(refs, S, w)
  PROVE  Faithful(refs, S, v)
<1>1. refs \subseteq ObjectsOf(v.heap) /\ \A o \in refs : v.heap[o].name = w.heap[o].name
  BY GrowFacts DEF Moves, Grows, Faithful
<1>2. \A n \in S : ImageIn(v, n) = ImageIn(w, n)
  BY DEF Moves
<1>3. {o \in refs : v.heap[o].name # NoType} = {o \in refs : w.heap[o].name # NoType}
  BY <1>1
<1>4. {ImageIn(v, n) : n \in S} = {ImageIn(w, n) : n \in S}
  BY <1>2
<1> QED  BY <1>1, <1>3, <1>4 DEF Faithful

LEMMA FrameMoves ==
  ASSUME NEW w, NEW v, NEW X, Moves(w, v, X), NEW f, FrameOK(f, w)
  PROVE  FrameOK(f, v) /\ (f.op = "range" => NameOf(f, v) = NameOf(f, w))
<1>1. /\ ObjectsOf(w.heap) \subseteq ObjectsOf(v.heap)
      /\ \A o \in ObjectsOf(w.heap) : v.heap[o].name = w.heap[o].name
  BY GrowFacts DEF Moves, Grows
<1>2. f.op = "range" => NameOf(f, v) = NameOf(f, w)
  BY <1>1 DEF NameOf, FrameOK
<1>3. f.op = "range" => v.tab[NameOf(f, v)] = f.obj
  <2> SUFFICES ASSUME f.op = "range"  PROVE v.tab[NameOf(f, v)] = f.obj
    OBVIOUS
  <2> DEFINE n == NameOf(f, w)
  <2>1. n \in Names /\ w.tab[n] = f.obj /\ f.obj \in ObjectsOf(w.heap)
    BY DEF FrameOK
  <2>2. f.obj # NoType
    BY <2>1, TypesAssumption DEF ObjectsOf
  <2> HIDE DEF n
  <2>3. v.tab[n] = f.obj
    BY <2>1, <2>2 DEF Moves
  <2> QED  BY <1>2, <2>3 DEF n
<1> QED  BY <1>1, <1>2, <1>3 DEF FrameOK

LEMMA ServesMoves ==
  ASSUME NEW w, NEW v, NEW X, Moves(w, v, X), NEW f, NEW g, FrameOK(f, w), Serves(f, g, w)
  PROVE  Serves(f, g, v)
<1>1. \A o \in ObjectsOf(w.heap) : v.heap[o].name = w.heap[o].name
  BY DEF Moves, Grows
<1>2. NameOf(f, v) = NameOf(f, w)
  BY FrameMoves DEF NameOf
<1>3. AskedType(g, v) = AskedType(g, w)
  BY DEF AskedType, Moves
<1>4. Asks(g) => Serves(f, g, v)
  BY <1>2, <1>3 DEF Serves, Answers
<1>5. ~Asks(g) => Serves(f, g, v)
  <2> SUFFICES ASSUME ~Asks(g)  PROVE Serves(f, g, v)
    OBVIOUS
  <2>1. f.op = "fn" /\ Updates(f, g, w) /\ f.obj \in ObjectsOf(w.heap)
    BY DEF Serves, FrameOK
  <2>2. v.heap[f.obj].name = w.heap[f.obj].name /\ v.prog = w.prog
    BY <1>1, <2>1 DEF Moves
  <2> QED  BY <2>1, <2>2 DEF Serves, Updates
<1> QED  BY <1>4, <1>5

LEMMA KeepsMoves ==
  ASSUME NEW w, NEW v, NEW X, Moves(w, v, X), NEW f, FrameOK(f, w), Keeps(f, w),
         HasRefs(f) => X \cap Holds(f) = {}
  PROVE  Keeps(f, v)
BY FaithfulMoves, HoldsNames DEF Keeps

(* Frames that do not hold what gets another image wait on.                *)
LEMMA WaitingMoves ==
  ASSUME NEW w, NEW v, NEW X, Moves(w, v, X), NEW s, NEW c, Waiting(s, c, w),
         \A i \in 1..Len(s) : HasRefs(s[i]) => X \cap Holds(s[i]) = {}
  PROVE  Waiting(s, c, v)
<1> SUFFICES ASSUME NEW i \in 1..Len(s)
             PROVE  /\ FrameOK(s[i], v) /\ Keeps(s[i], v) /\ s[i].op # "ToType"
                    /\ Serves(s[i], Asker(s, i, c), v)
                    /\ \A j \in (i + 1)..Len(s) : Apart(s[i], s[j])
  BY DEF Waiting
<1> DEFINE f == s[i]
           g == Asker(s, i, c)
<1>1. /\ FrameOK(f, w) /\ Keeps(f, w) /\ s[i].op # "ToType" /\ Serves(f, g, w)
      /\ \A j \in (i + 1)..Len(s) : Apart(s[i], s[j])
      /\ HasRefs(f) => X \cap Holds(f) = {}
  BY DEF Waiting
<1> HIDE DEF f, g
<1>2. FrameOK(f, v) /\ Keeps(f, v) /\ Serves(f, g, v)
  BY <1>1, FrameMoves, KeepsMoves, ServesMoves
<1> QED  BY <1>1, <1>2 DEF f, g

(* Nobody holds a name that has no entry yet.                              *)
LEMMA NewNameFree ==
  ASSUME NEW f, NEW w, FrameOK(f, w), Keeps(f, w), HasRefs(f),
         NEW n \in Names, ImageIn(w, n) = NoType
  PROVE  n \notin Holds(f)
<1>1. NoType \notin ObjectsOf(w.heap)
  BY TypesAssumption DEF ObjectsOf
<1> QED  BY <1>1 DEF Keeps, Faithful

-----------------------------------------------------------------------------
(* An answer, and a question.                                              *)
LEMMA Answered ==
  ASSUME NEW S, NEW s \in Seq(S), NEW c, NEW w, Waiting(s, c, w), ProgramOK(w.prog),
         c.op = "client", c.typ \in Types, NEW r, r.status # "none",
         NEW f, Serves(f, Caller(s, c), w),
         f.op # "fn" => \A t \in Types : Answers(f, t, w) => Right(r, t, w)
  PROVE  Conversion(s, c, w, r)
<1>1. CASE s = <<>>
  <2>1. Caller(s, c) = c
    BY <1>1 DEF Caller, Asker
  <2>2. Asks(c) /\ ~IsLoop(c) /\ AskedType(c, w) = c.typ
    BY DEF Asks, IsLoop, AskedType
  <2>3. Right(r, c.typ, w)
    BY <2>1, <2>2 DEF Serves
  <2> QED  BY <1>1, <2>3 DEF Conversion
<1>2. CASE s # <<>>
  <2> DEFINE g == Head(s)
             q == Tail(s)
  <2>1. /\ Waiting(q, c, w) /\ FrameOK(g, w) /\ Keeps(g, w) /\ g.op # "ToType"
        /\ Serves(g, Caller(q, c), w)
        /\ \A j \in 1..Len(q) : Apart(g, q[j])
    BY <1>2, WaitingTail
  <2>2. Serves(f, g, w)
    <3>1. 0 < Len(s) /\ s[0 + 1] = Head(s)
      BY <1>2, TailFacts
    <3> QED  BY <3>1 DEF Caller, Asker
  <2> HIDE DEF g, q
  <2>3. r # NoResult
    BY DEF NoResult
  <2>4. ASSUME IsLoop(g) \/ g.op = "named"  PROVE Right(r, AskedType(g, w), w)
    <3>1. Asks(g) /\ (IsLoop(g) => g.done \in 1..Len(g.list) /\ g.list \in Seq(Types))
      BY <2>1, <2>2, <2>4 DEF Asks, IsLoop, Serves, FrameOK
    <3>2. AskedType(g, w) \in Types
      BY <2>1, <2>4, <3>1 DEF AskedType, FrameOK, ProgramOK
    <3> QED  BY <2>2, <3>1, <3>2 DEF Serves
  <2>5. IsLoop(g) => g.done >= 1
    BY <2>2 DEF Serves, Asks, IsLoop
  <2>6. Has(g, w, r)
    BY <2>1, <2>3, <2>4, <2>5 DEF Has
  <2>7. OnTop(g, q, c, w, r)
    BY <2>1, <2>6 DEF OnTop
  <2> QED  BY <1>2, <2>1, <2>7 DEF Conversion, g, q
<1> QED  BY <1>1, <1>2

LEMMA ConsHeadTail ==
  ASSUME NEW S, NEW s \in Seq(S), NEW f \in S
  PROVE  /\ <<f>> \o s # <<>> /\ Head(<<f>> \o s) = f /\ Tail(<<f>> \o s) = s
         /\ \A c : Caller(<<f>> \o s, c) = f
<1> DEFINE q == <<f>> \o s
<1>1. /\ q \in Seq(S) /\ Len(q) = Len(s) + 1 /\ q[1] = f
      /\ \A i \in 1..Len(s) : q[i + 1] = s[i]
  BY ConsFacts
<1>2. Len(s) \in Nat
  OBVIOUS
<1> HIDE DEF q
<1>3. q # <<>>
  BY <1>1, <1>2
<1> DEFINE t == Tail(q)
<1>4. /\ Head(q) = q[1] /\ t \in Seq(S) /\ Len(t) = Len(s)
      /\ \A i \in 1..Len(t) : t[i] = q[i + 1]
  BY <1>1, <1>2, <1>3, TailFacts
<1> HIDE DEF t
<1>5. t = s
  <2>1. \A i \in 1..Len(s) : t[i] = s[i]
    BY <1>1, <1>4
  <2> QED  BY <1>4, <2>1
<1>6. \A c : Caller(q, c) = f
  <2>1. 0 < Len(q) /\ q[0 + 1] = f
    BY <1>1, <1>2
  <2> QED  BY <2>1 DEF Caller, Asker
<1> QED  BY <1>1, <1>3, <1>4, <1>5, <1>6 DEF q, t

(* The frame at the top goes on, as f.                                     *)
LEMMA GoesOn ==
  ASSUME NEW S, NEW s \in Seq(S), NEW f \in S, NEW c, NEW w, Waiting(s, c, w), NEW r,
         OnTop(f, s, c, w, r)
  PROVE  Conversion(<<f>> \o s, c, w, r)
BY ConsHeadTail DEF Conversion

(* The frame at the top, now g, calls f.                                   *)
LEMMA Calls ==
  ASSUME NEW S, NEW s \in Seq(S), NEW f \in S, NEW g \in S, NEW c, NEW w, Waiting(s, c, w),
         FrameOK(g, w), Keeps(g, w), g.op # "ToType", Serves(g, Caller(s, c), w),
         \A j \in 1..Len(s) : Apart(g, s[j]),
         NEW r, FrameOK(f, w), Has(f, w, r), Serves(f, g, w), ~CompletesName(f)
  PROVE  Conversion(<<f, g>> \o s, c, w, r)
<1> DEFINE q == <<g>> \o s
<1>1. Waiting(q, c, w) /\ q \in Seq(S)
  BY WaitingCons, ConsFacts
<1>2. Caller(q, c) = g
  BY ConsHeadTail
<1> HIDE DEF q
<1>3. \A j \in 1..Len(q) : Apart(f, q[j])
  BY DEF Apart
<1>4. OnTop(f, q, c, w, r)
  BY <1>2, <1>3 DEF OnTop
<1>5. Conversion(<<f>> \o q, c, w, r)
  BY <1>1, <1>4, GoesOn
<1>6. <<f, g>> \o s = <<f>> \o q
  BY ConsTwice DEF q
<1> QED  BY <1>5, <1>6

ConvInv ==
  /\ stack # <<>> => requests # <<>>
  /\ requests # <<>> => Conversion(stack, Client, World, ret)
  /\ TablesOK(World)
  /\ ret.status = "none" => ret = NoResult
  /\ requests = <<>> => ret = NoResult

(* The world a step leads to.                                              *)
NextWorld == [heap |-> heap', tab |-> resolved', pl |-> placeholder', prog |-> prog']

LEMMA ConvNext ==
  ASSUME requests # <<>>, requests' = requests, NEW v, v = NextWorld,
         Conversion(stack', Client, v, ret'), TablesOK(v), ret'.status = "none" => ret' = NoResult
  PROVE  ConvInv'
<1>1. World' = NextWorld /\ Client' = Client
  BY DEF World, NextWorld, Client
<1>2. Conversion(stack, Client, World, ret)'
  BY <1>1
<1>3. TablesOK(World)'
  BY <1>1
<1> QED  BY <1>2, <1>3 DEF ConvInv

LEMMA TopParts ==
  ASSUME TypeOK, ConvInv, stack # <<>>, NEW w, w = World
  PROVE  /\ requests # <<>> /\ Client.op = "client" /\ Client.typ \in Types
         /\ ProgramOK(w.prog) /\ w.prog = prog /\ TablesOK(w)
         /\ w.heap = heap /\ w.tab = resolved /\ w.pl = placeholder
         /\ Rest \in Seq(Frames(heap)) /\ Top \in Frames(heap)
         /\ Waiting(Rest, Client, w) /\ FrameOK(Top, w) /\ Has(Top, w, ret)
         /\ Serves(Top, Caller(Rest, Client), w)
         /\ \A j \in 1..Len(Rest) : Apart(Top, Rest[j])
<1>1. requests # <<>> /\ requests \in Seq(Types)
  BY DEF ConvInv, TypeOK
<1>2. Client.op = "client" /\ Client.typ \in Types
  <2>1. requests[Len(requests)] \in Types
    BY <1>1
  <2> QED  BY <2>1 DEF Client
<1>3. ProgramOK(prog)
  BY DEF TypeOK, ProgramOK
<1>4. w.prog = prog /\ TablesOK(w) /\ w.heap = heap /\ w.tab = resolved /\ w.pl = placeholder
  BY DEF World, ConvInv
<1>5. Rest \in Seq(Frames(heap)) /\ Top \in Frames(heap)
  BY TopFacts
<1>6. Conversion(stack, Client, w, ret)
  BY <1>1 DEF ConvInv
<1>7. Waiting(Rest, Client, w) /\ OnTop(Top, Rest, Client, w, ret)
  BY <1>6 DEF Conversion, Rest, Top
<1> QED  BY <1>1, <1>2, <1>3, <1>4, <1>5, <1>7 DEF OnTop

(* How worlds change.                                                      *)
LEMMA SameWorld ==
  ASSUME TypeOK, ConvInv, NEW w, w = World, NEW v, v = NextWorld,
         prog' = prog, heap' = heap, resolved' = resolved, placeholder' = placeholder
  PROVE  v = w /\ Moves(w, v, {}) /\ TablesOK(v)
<1>1. v = w
  BY DEF World, NextWorld
<1>2. Grows(w.heap, w.heap)
  BY SameHeapGrows DEF World
<1> QED  BY <1>1, <1>2 DEF Moves, ConvInv

LEMMA GrownWorld ==
  ASSUME TypeOK, ConvInv, NEW w, w = World, NEW v, v = NextWorld,
         prog' = prog, Grows(heap, heap'), resolved' = resolved, placeholder' = placeholder
  PROVE  Moves(w, v, {}) /\ TablesOK(v)
<1>1. w.heap = heap /\ v.heap = heap' /\ w.tab = v.tab /\ w.pl = v.pl /\ v.prog = w.prog
  BY DEF World, NextWorld
<1>2. Moves(w, v, {})
  BY <1>1 DEF Moves, ImageIn
<1>3. /\ ObjectsOf(heap) \subseteq ObjectsOf(heap')
      /\ \A o \in ObjectsOf(heap) : heap'[o].name = heap[o].name
  BY GrowFacts DEF Grows
<1>4. TablesOK(w)
  BY DEF ConvInv
<1> QED  BY <1>1, <1>2, <1>3, <1>4 DEF TablesOK

(* A step that answers.                                                    *)
LEMMA Returns ==
  ASSUME TypeOK, ConvInv, stack # <<>>, requests' = requests, stack' = Rest,
         NEW w, w = World, NEW v, v = NextWorld, NEW X, Moves(w, v, X), TablesOK(v),
         \A i \in 1..Len(Rest) : HasRefs(Rest[i]) => X \cap Holds(Rest[i]) = {},
         ret'.status # "none",
         Top.op # "fn" => \A t \in Types : Answers(Top, t, v) => Right(ret', t, v)
  PROVE  ConvInv'
<1> DEFINE r == ret'
           S == Frames(heap)
           s == Rest
           c == Client
           f == Top
<1>1. /\ requests # <<>> /\ c.op = "client" /\ c.typ \in Types /\ ProgramOK(w.prog)
      /\ s \in Seq(S) /\ Waiting(s, c, w) /\ FrameOK(f, w) /\ Serves(f, Caller(s, c), w)
  BY TopParts
<1>2. \A i \in 1..Len(s) : HasRefs(s[i]) => X \cap Holds(s[i]) = {}
  OBVIOUS
<1>3. f.op # "fn" => \A t \in Types : Answers(f, t, v) => Right(r, t, v)
  OBVIOUS
<1>4. r.status # "none" /\ ProgramOK(v.prog)
  BY <1>1 DEF Moves
<1> HIDE DEF r, S, s, c, f
<1>5. Waiting(s, c, v)
  BY <1>1, <1>2, WaitingMoves
<1> DEFINE g == Caller(s, c)
<1>6. Serves(f, g, w)
  BY <1>1
<1> HIDE DEF g
<1>7. Serves(f, g, v)
  BY <1>1, <1>6, ServesMoves
<1>8. Conversion(s, c, v, r)
  BY <1>1, <1>3, <1>4, <1>5, <1>7, Answered DEF g
<1>9. Conversion(stack', Client, v, ret')
  BY <1>8 DEF s, c, r
<1> QED  BY <1>1, <1>4, <1>9, ConvNext DEF r

LEMMA ReturnsSame ==
  ASSUME TypeOK, ConvInv, stack # <<>>, requests' = requests, NEW r, Return(r), r.status # "none",
         prog' = prog, heap' = heap, resolved' = resolved, placeholder' = placeholder,
         NEW w, w = World,
         Top.op # "fn" => \A t \in Types : Answers(Top, t, w) => Right(r, t, w)
  PROVE  ConvInv'
<1> DEFINE v == NextWorld
<1>1. v = w /\ Moves(w, v, {}) /\ TablesOK(v)
  BY SameWorld
<1>2. stack' = Rest /\ ret' = r
  BY DEF Return
<1> HIDE DEF v
<1>3. Top.op # "fn" => \A t \in Types : Answers(Top, t, v) => Right(ret', t, v)
  BY <1>1, <1>2
<1> QED  BY <1>1, <1>2, <1>3, Returns DEF v

(* A step that goes on as f, and one that calls f from what is then g.     *)
LEMMA GoesOnStep ==
  ASSUME TypeOK, ConvInv, stack # <<>>, requests' = requests,
         NEW w, w = World, NEW v, v = NextWorld, NEW X, Moves(w, v, X), TablesOK(v),
         \A i \in 1..Len(Rest) : HasRefs(Rest[i]) => X \cap Holds(Rest[i]) = {},
         ret'.status = "none" => ret' = NoResult,
         NEW f, stack' = <<f>> \o Rest, f \in Frames(heap'), FrameOK(f, v), Has(f, v, ret'),
         Serves(f, Caller(Rest, Client), v), \A j \in 1..Len(Rest) : Apart(f, Rest[j])
  PROVE  ConvInv'
<1> DEFINE r == ret'
           S == Frames(heap')
           s == Rest
           c == Client
<1>1. /\ requests # <<>> /\ Waiting(s, c, w)
      /\ s \in Seq(Frames(heap))
  BY TopParts
<1>2. s \in Seq(S) /\ f \in S
  <2>1. Grows(heap, heap')
    BY DEF Moves, World, NextWorld
  <2> QED  BY <1>1, <2>1, GrowFacts
<1>3. \A i \in 1..Len(s) : HasRefs(s[i]) => X \cap Holds(s[i]) = {}
  OBVIOUS
<1>4. FrameOK(f, v) /\ Has(f, v, r) /\ Serves(f, Caller(s, c), v) /\ \A j \in 1..Len(s) : Apart(f, s[j])
  OBVIOUS
<1> HIDE DEF r, S, s, c
<1>5. Waiting(s, c, v)
  BY <1>1, <1>3, WaitingMoves
<1>6. OnTop(f, s, c, v, r)
  BY <1>4 DEF OnTop
<1>7. Conversion(<<f>> \o s, c, v, r)
  BY <1>2, <1>5, <1>6, GoesOn
<1>8. Conversion(stack', Client, v, ret')
  BY <1>7 DEF s, c, r
<1> QED  BY <1>1, <1>8, ConvNext

LEMMA CallsStep ==
  ASSUME TypeOK, ConvInv, stack # <<>>, requests' = requests,
         NEW w, w = World, NEW v, v = NextWorld, NEW X, Moves(w, v, X), TablesOK(v),
         \A i \in 1..Len(Rest) : HasRefs(Rest[i]) => X \cap Holds(Rest[i]) = {},
         ret'.status = "none" => ret' = NoResult,
         NEW f, NEW g, stack' = <<f, g>> \o Rest, f \in Frames(heap'), g \in Frames(heap'),
         FrameOK(g, v), Keeps(g, v), g.op # "ToType", Serves(g, Caller(Rest, Client), v),
         \A j \in 1..Len(Rest) : Apart(g, Rest[j]),
         FrameOK(f, v), Has(f, v, ret'), Serves(f, g, v), ~CompletesName(f)
  PROVE  ConvInv'
<1> DEFINE r == ret'
           S == Frames(heap')
           s == Rest
           c == Client
<1>1. /\ requests # <<>> /\ Waiting(s, c, w)
      /\ s \in Seq(Frames(heap))
  BY TopParts
<1>2. s \in Seq(S) /\ f \in S /\ g \in S
  <2>1. Grows(heap, heap')
    BY DEF Moves, World, NextWorld
  <2> QED  BY <1>1, <2>1, GrowFacts
<1>3. \A i \in 1..Len(s) : HasRefs(s[i]) => X \cap Holds(s[i]) = {}
  OBVIOUS
<1>4. Has(f, v, r) /\ Serves(g, Caller(s, c), v) /\ \A j \in 1..Len(s) : Apart(g, s[j])
  OBVIOUS
<1> HIDE DEF r, S, s, c
<1>5. Waiting(s, c, v)
  BY <1>1, <1>3, WaitingMoves
<1>7. Conversion(<<f, g>> \o s, c, v, r)
  BY <1>2, <1>4, <1>5, Calls
<1>8. Conversion(stack', Client, v, ret')
  BY <1>7 DEF s, c, r
<1> QED  BY <1>1, <1>8, ConvNext

-----------------------------------------------------------------------------
(* Answers.                                                                *)
LEMMA NothingMentioned ==
  ASSUME NEW t \in Types, NEW w, Mentioned[t] = {}
  PROVE  Right(Ok({}), t, w)
BY DEF Right, Ok, Faithful

(* The types without parts.                                                *)
LEMMA LeafStep ==
  ASSUME TypeOK, ConvInv,
         \/ ToTypeProvided \/ ToTypeBasic \/ ToTypeInvalid
         \/ \E n \in Names : NameProvided(n)
  PROVE  ConvInv'
<1> DEFINE w == World
<1>1. CASE ToTypeProvided \/ ToTypeBasic \/ \E n \in Names : NameProvided(n)
  <2>1. /\ stack # <<>> /\ Top.op = "ToType" /\ Return(Ok({})) /\ requests' = requests
        /\ prog' = prog /\ heap' = heap /\ resolved' = resolved /\ placeholder' = placeholder
        /\ \/ Top.typ \in ProvidedTypes \/ Top.typ.kind = "basic"
           \/ Top.typ.kind = "named" /\ Top.typ.name \in Provided
    BY <1>1 DEF ToTypeProvided, ToTypeBasic, NameProvided, Naming, Entering, Running
  <2>2. ASSUME NEW t \in Types, Answers(Top, t, w)  PROVE Right(Ok({}), t, w)
    <3>1. t = Top.typ
      BY <2>1, <2>2 DEF Answers, OfType
    <3>2. Mentioned[t] = MentionsOf(Mentioned, t)
      BY MentionedDef
    <3>3. Mentioned[t] = {}
      BY <2>1, <3>1, <3>2, TypesAssumption DEF MentionsOf
    <3> HIDE DEF w
    <3> QED  BY <3>3, NothingMentioned
  <2>3. Ok({}).status # "none"
    BY DEF Ok
  <2> DEFINE r == Ok({})
  <2>4. Return(r) /\ r.status # "none" /\ \A t \in Types : Answers(Top, t, w) => Right(r, t, w)
    BY <2>1, <2>2, <2>3
  <2> HIDE DEF r
  <2> QED  BY <2>1, <2>4, ReturnsSame
<1>2. CASE ToTypeInvalid
  <2>1. /\ stack # <<>> /\ Top.op = "ToType" /\ Return(Err) /\ requests' = requests
        /\ prog' = prog /\ heap' = heap /\ resolved' = resolved /\ placeholder' = placeholder
        /\ Top.typ \notin ProvidedTypes /\ Top.typ.kind = "invalid"
    BY <1>2 DEF ToTypeInvalid, Entering, Running
  <2>2. ASSUME NEW t \in Types, Answers(Top, t, w)  PROVE Right(Err, t, w)
    <3>1. t = Top.typ
      BY <2>1, <2>2 DEF Answers, OfType
    <3>2. Wrong[t]
      BY <2>1, <3>1, WrongDef DEF WrongOf
    <3> QED  BY <3>2 DEF Right, Err
  <2>3. Err.status # "none"
    BY DEF Err
  <2> QED  BY <2>1, <2>2, <2>3, ReturnsSame
<1> QED  BY <1>1, <1>2

(* What is asked of a loop whose type has been converted.                  *)
LEMMA LoopMentions ==
  ASSUME NEW f, NEW w, FrameOK(f, w), f.op = "elems"
  PROVE  /\ Mentioned[f.typ] = FirstOf(f, Len(f.list))
         /\ \A i \in 1..Len(f.list) : Wrong[f.list[i]] => Wrong[f.typ]
<1>1. /\ f.typ \in Types /\ f.typ \notin ProvidedTypes /\ f.typ.kind # "named"
      /\ f.list = f.typ.elems /\ DOMAIN f.list = 1..Len(f.list)
  BY DEF FrameOK, OfType
<1>2. Mentioned[f.typ] = MentionsOf(Mentioned, f.typ)
  BY <1>1, MentionedDef
<1>3. MentionsOf(Mentioned, f.typ) = FirstOf(f, Len(f.list))
  BY <1>1, Zenon DEF MentionsOf, FirstOf
<1>4. Wrong[f.typ] = WrongOf(Wrong, f.typ)
  BY <1>1, WrongDef
<1>5. ASSUME NEW i \in 1..Len(f.list), Wrong[f.list[i]]  PROVE Wrong[f.typ]
  BY <1>1, <1>4, <1>5 DEF WrongOf
<1> QED  BY <1>2, <1>3, <1>5

LEMMA ErrorStep ==
  ASSUME TypeOK, ConvInv, ElemErr \/ NamedErr
  PROVE  ConvInv'
<1> DEFINE w == World
<1>1. /\ stack # <<>> /\ Return(Err) /\ requests' = requests /\ ret.status = "err"
      /\ prog' = prog /\ heap' = heap /\ resolved' = resolved /\ placeholder' = placeholder
      /\ Top.op \in {"elems", "fn", "named"}
  BY DEF ElemErr, NamedErr, Converting, Running
<1>2. FrameOK(Top, w) /\ Has(Top, w, ret) /\ w.prog = prog
  BY <1>1, TopParts
<1> HIDE DEF w
<1>3. ASSUME Top.op # "fn", NEW t \in Types, Answers(Top, t, w)  PROVE Right(Err, t, w)
  <2>1. CASE Top.op = "elems"
    <3>1. ret # NoResult
      BY <1>1 DEF NoResult
    <3>2. /\ Top.done \in 1..Len(Top.list) /\ Right(ret, Top.list[Top.done], w)
      BY <1>2, <2>1, <3>1 DEF Has, IsLoop, AskedType, FrameOK
    <3>3. Pure(w.prog) => Wrong[Top.list[Top.done]]
      BY <1>1, <3>2 DEF Right
    <3>4. Pure(w.prog) => Wrong[Top.typ]
      BY <1>2, <2>1, <3>2, <3>3, LoopMentions
    <3>5. t = Top.typ
      BY <1>3, <2>1 DEF Answers, OfType
    <3> QED  BY <3>4, <3>5 DEF Right, Err
  <2>2. CASE Top.op = "named"
    <3>1. Right(ret, w.prog.decl[Top.name].under, w)
      BY <1>2, <2>2 DEF Has, AskedType, IsLoop
    <3>2. Pure(w.prog) => Wrong[w.prog.decl[Top.name].under]
      BY <1>1, <3>1 DEF Right
    <3>3. Top.name \in Names
      BY <1>2, <2>2 DEF FrameOK
    <3>4. ~Pure(w.prog)
      BY <3>2, <3>3 DEF Pure
    <3> QED  BY <3>4 DEF Right, Err
  <2> QED  BY <1>1, <1>3, <2>1, <2>2
<1>4. Err.status # "none"
  BY DEF Err
<1>5. w = World
  BY DEF w
<1> QED  BY <1>1, <1>3, <1>4, <1>5, ReturnsSame

LEMMA BuiltStep ==
  ASSUME TypeOK, ConvInv, CompositeBuilt \/ StructDone \/ RangeDone
  PROVE  ConvInv'
<1> DEFINE w == World
<1>1. /\ stack # <<>> /\ requests' = requests
      /\ prog' = prog /\ heap' = heap /\ resolved' = resolved /\ placeholder' = placeholder
  BY DEF CompositeBuilt, StructDone, RangeDone, Running
<1>2. /\ FrameOK(Top, w) /\ Has(Top, w, ret) /\ w.heap = heap
  BY <1>1, TopParts
<1>0. w = World
  OBVIOUS
<1> HIDE DEF w
<1>3. CASE CompositeBuilt
  <2> DEFINE r == Ok(Top.refs)
  <2>1. /\ Return(r) /\ Top.op = "elems" /\ ret = NoResult /\ Top.done = Len(Top.list)
    BY <1>3 DEF CompositeBuilt, Running, AllTaken
  <2>2. r.status # "none" /\ r.refs = Top.refs
    BY DEF Ok
  <2> HIDE DEF r
  <2>3. Faithful(Top.refs, FirstOf(Top, Len(Top.list)), w)
    BY <1>2, <2>1 DEF Has, IsLoop
  <2>4. Faithful(r.refs, Mentioned[Top.typ], w)
    BY <1>2, <2>1, <2>2, <2>3, LoopMentions
  <2>5. r.status # "err"
    BY DEF r, Ok
  <2>6. ASSUME NEW t \in Types, Answers(Top, t, w)  PROVE Right(r, t, w)
    <3>1. t = Top.typ
      BY <2>1, <2>6 DEF Answers, OfType
    <3> QED  BY <2>4, <2>5, <3>1 DEF Right
  <2> QED  BY <1>0, <1>1, <2>1, <2>2, <2>6, ReturnsSame
<1>4. CASE StructDone
  <2> DEFINE refs == Top.refs \cup {Top.obj}
             r == Ok(refs)
  <2>1. Return(r) /\ Top.op = "embedded"
    BY <1>4 DEF StructDone, Running
  <2>2. r.status # "none" /\ r.refs = refs /\ r.status # "err"
    BY DEF Ok
  <2>3. /\ Faithful(Top.refs, Mentioned[Top.typ], w) /\ Top.obj \in ObjectsOf(w.heap)
        /\ w.heap[Top.obj].name = NoType
    BY <1>2, <2>1 DEF Has, Keeps, Holds, HasRefs, FrameOK
  <2>4. Faithful(refs, Mentioned[Top.typ], w)
    <3>1. {o \in refs : w.heap[o].name # NoType} = {o \in Top.refs : w.heap[o].name # NoType}
      BY <2>3
    <3>2. refs \subseteq ObjectsOf(w.heap)
      BY <2>3 DEF Faithful
    <3> HIDE DEF refs
    <3> QED  BY <2>3, <3>1, <3>2 DEF Faithful
  <2> HIDE DEF r, refs
  <2>6. ASSUME NEW t \in Types, Answers(Top, t, w)  PROVE Right(r, t, w)
    <3>1. t = Top.typ
      BY <2>1, <2>6 DEF Answers, OfType
    <3> QED  BY <2>2, <2>4, <3>1 DEF Right
  <2> QED  BY <1>0, <1>1, <2>1, <2>2, <2>6, ReturnsSame
<1>5. CASE RangeDone
  <2> DEFINE refs == {Top.obj}
             r == Ok(refs)
             n == NameOf(Top, w)
  <2>1. Return(r) /\ Top.op = "range"
    BY <1>5 DEF RangeDone, Running
  <2>2. r.status # "none" /\ r.refs = refs /\ r.status # "err"
    BY DEF Ok
  <2>3. /\ n \in Names \ Provided /\ w.tab[n] = Top.obj /\ n = w.heap[Top.obj].name
        /\ Top.obj \in ObjectsOf(w.heap) /\ Top.obj # NoType /\ n # NoType
    BY <1>2, <2>1, TypesAssumption DEF FrameOK, NameOf, ObjectsOf
  <2>4. Faithful(refs, {n}, w)
    <3>1. ImageIn(w, n) = Top.obj
      BY <2>3 DEF ImageIn
    <3>2. {o \in refs : w.heap[o].name # NoType} = {Top.obj}
      BY <2>3
    <3> HIDE DEF n
    <3> QED  BY <2>3, <3>1, <3>2 DEF Faithful
  <2> HIDE DEF r, refs, n
  <2>6. ASSUME NEW t \in Types, Answers(Top, t, w)  PROVE Right(r, t, w)
    <3>1. t.kind = "named" /\ t \notin ProvidedTypes /\ t.name = n
      BY <2>1, <2>6 DEF Answers, OfType, n
    <3>2. Mentioned[t] = {n}
      BY <2>3, <3>1, MentionedDef DEF MentionsOf
    <3> QED  BY <2>2, <2>4, <3>2 DEF Right
  <2> QED  BY <1>0, <1>1, <2>1, <2>2, <2>6, ReturnsSame
<1> QED  BY <1>3, <1>4, <1>5

LEMMA FoundStep ==
  ASSUME TypeOK, ConvInv, NEW n \in Names, NameFound(n)
  PROVE  ConvInv'
<1> DEFINE w == World
           o == ImageIn(w, n)
           refs == {o}
           r == Ok(refs)
<1>1. /\ stack # <<>> /\ Top.op = "ToType" /\ requests' = requests
      /\ prog' = prog /\ heap' = heap /\ resolved' = resolved /\ placeholder' = placeholder
      /\ Top.typ \notin ProvidedTypes /\ Top.typ.kind = "named" /\ Top.typ.name = n
      /\ n \notin Provided
  BY DEF NameFound, Naming, Entering, Running
<1>2. w.heap = heap /\ w.tab = resolved /\ w.pl = placeholder /\ TablesOK(w)
  BY <1>1, TopParts
<1>3. PICK m \in Matching(n) :
        Return(Ok({IF resolved[m] # NoType THEN resolved[m] ELSE placeholder[m]}))
  BY DEF NameFound
<1>4. m = n /\ placeholder[n] # NoType
  BY MatchingIsOwn DEF Matching, Entries
<1>0. w = World
  OBVIOUS
<1> HIDE DEF w
<1>5. Return(r)
  BY <1>2, <1>3, <1>4 DEF ImageIn
<1>6. o \in ObjectsOf(heap) /\ heap[o].name = n
  BY <1>2, <1>4 DEF ImageIn, TablesOK
<1>7. n # NoType
  BY TypesAssumption
<1>8. Faithful(refs, {n}, w)
  <2>1. {x \in refs : w.heap[x].name # NoType} = {o}
    BY <1>2, <1>6, <1>7
  <2> HIDE DEF o
  <2>2. {o} = {ImageIn(w, x) : x \in {n}}
    BY DEF o
  <2> QED  BY <1>2, <1>6, <2>1, <2>2 DEF Faithful
<1>9. r.status # "none" /\ r.refs = refs /\ r.status # "err"
  BY DEF Ok
<1> HIDE DEF r, refs, o
<1>10. ASSUME NEW t \in Types, Answers(Top, t, w)  PROVE Right(r, t, w)
  <2>1. t = Top.typ
    BY <1>1, <1>10 DEF Answers, OfType
  <2>2. Mentioned[t] = {n}
    BY <1>1, <2>1, MentionedDef, ZenonT(60) DEF MentionsOf
  <2> QED  BY <1>8, <1>9, <2>2 DEF Right
<1> QED  BY <1>0, <1>1, <1>5, <1>9, <1>10, ReturnsSame

-----------------------------------------------------------------------------
(* Questions.                                                              *)
Alike(f, g) == /\ f.op = g.op /\ f.typ = g.typ /\ f.name = g.name
               /\ f.obj = g.obj /\ f.list = g.list

LEMMA FieldsOfExcept ==
  ASSUME NEW h, NEW f \in Frames(h), NEW x
  PROVE  /\ LET g == [f EXCEPT !.done = x] IN
            Alike(g, f) /\ g.done = x /\ g.refs = f.refs /\ g.seen = f.seen
         /\ LET g == [f EXCEPT !.refs = x] IN
            Alike(g, f) /\ g.done = f.done /\ g.refs = x /\ g.seen = f.seen
         /\ LET g == [f EXCEPT !.seen = x] IN
            Alike(g, f) /\ g.done = f.done /\ g.refs = f.refs /\ g.seen = x
BY DEF Frames, Alike

LEMMA AlikeFacts ==
  ASSUME NEW f, NEW g, Alike(g, f), NEW w
  PROVE  /\ FrameOK(f, w) /\ g.done \in 0..Len(f.list) => FrameOK(g, w)
         /\ \A c : Serves(f, c, w) => Serves(g, c, w)
         /\ \A j : Apart(f, j) => Apart(g, j)
         /\ \A k : FirstOf(g, k) = FirstOf(f, k)
<1>1. NameOf(g, w) = NameOf(f, w) /\ (OfType(g) <=> OfType(f)) /\ (IsLoop(g) <=> IsLoop(f))
  BY DEF Alike, NameOf, OfType, IsLoop
<1>2. FrameOK(f, w) /\ g.done \in 0..Len(f.list) => FrameOK(g, w)
  BY <1>1 DEF Alike, FrameOK
<1>3. \A c : Serves(f, c, w) => Serves(g, c, w)
  BY <1>1 DEF Alike, Serves, Answers, Updates
<1>4. \A j : Apart(f, j) => Apart(g, j)
  BY DEF Alike, Apart, CompletesName
<1>5. \A k : FirstOf(g, k) = FirstOf(f, k)
  BY DEF FirstOf, Alike
<1> QED  BY <1>2, <1>3, <1>4, <1>5

LEMMA CallFacts ==
  ASSUME NEW t \in Types, NEW w
  PROVE  /\ FrameOK(CallToType(t), w) /\ Has(CallToType(t), w, NoResult)
         /\ CallToType(t).op = "ToType" /\ CallToType(t).typ = t /\ ~CompletesName(CallToType(t))
         /\ \A g : Asks(g) /\ AskedType(g, w) = t /\ (IsLoop(g) => g.done >= 1)
                     => Serves(CallToType(t), g, w)
<1> DEFINE f == CallToType(t)
<1>1. /\ f.op = "ToType" /\ f.typ = t /\ f.list = <<>> /\ f.done = 0
      /\ f.list \in Seq(Types) /\ Len(f.list) = 0
  BY DEF CallToType, Frame
<1> HIDE DEF f
<1>2. FrameOK(f, w) /\ Has(f, w, NoResult) /\ ~CompletesName(f)
  BY <1>1 DEF FrameOK, Has, OfType, IsLoop, CompletesName
<1>3. \A g : Asks(g) /\ AskedType(g, w) = t /\ (IsLoop(g) => g.done >= 1) => Serves(f, g, w)
  BY <1>1 DEF Serves, Answers, OfType
<1> QED  BY <1>1, <1>2, <1>3 DEF f

LEMMA UpdaterFacts ==
  ASSUME NEW o, NEW sigs \in Seq(Types), NEW w, o \in ObjectsOf(w.heap)
  PROVE  LET f == Updater(o, sigs) IN
         /\ FrameOK(f, w) /\ Has(f, w, NoResult) /\ f.op = "fn" /\ f.list = sigs /\ f.obj = o
         /\ f.done = 0 /\ f.refs = {} /\ ~CompletesName(f)
<1> DEFINE f == Updater(o, sigs)
<1>1. /\ f.op = "fn" /\ f.list = sigs /\ f.obj = o /\ f.done = 0 /\ f.refs = {}
  BY DEF Updater, Frame
<1> HIDE DEF f
<1>2. FrameOK(f, w)
  BY <1>1 DEF FrameOK, OfType
<1>3. Faithful(f.refs, FirstOf(f, f.done), w)
  BY <1>1 DEF Faithful, FirstOf
<1>4. Has(f, w, NoResult) /\ ~CompletesName(f)
  BY <1>1, <1>3 DEF Has, IsLoop, CompletesName
<1> QED  BY <1>1, <1>2, <1>4 DEF f

LEMMA CompositeStep ==
  ASSUME TypeOK, ConvInv, ToTypeComposite
  PROVE  ConvInv'
<1> DEFINE w == World
           v == NextWorld
           f == Elems(Top.typ)
           r == ret'
<1>1. /\ stack # <<>> /\ Top.op = "ToType" /\ requests' = requests
      /\ prog' = prog /\ heap' = heap /\ resolved' = resolved /\ placeholder' = placeholder
      /\ Top.typ \notin ProvidedTypes /\ Top.typ.kind \in {"composite", "interface", "embedding"}
      /\ stack' = <<f>> \o Rest /\ r = ret
  BY DEF ToTypeComposite, Entering, Running, Push
<1>2. /\ FrameOK(Top, w) /\ Has(Top, w, ret) /\ Serves(Top, Caller(Rest, Client), w)
      /\ Top.typ \in Types
  BY <1>1, TopParts DEF FrameOK, OfType
<1>3. v = w /\ Moves(w, v, {}) /\ TablesOK(v)
  BY <1>1, SameWorld
<1>4. f \in Frames(heap)
  <2>1. {} \in SUBSET ObjectsOf(heap)
    OBVIOUS
  <2> QED  BY <1>2, <2>1, FrameTypes
<1>5. /\ f.op = "elems" /\ f.typ = Top.typ /\ f.list = Top.typ.elems /\ f.done = 0 /\ f.refs = {}
      /\ f.list \in Seq(Types) /\ Len(f.list) \in Nat
  BY <1>2, TypesAssumption DEF Elems, Frame
<1>0. w = World /\ v = NextWorld
  OBVIOUS
<1> HIDE DEF w, v, f, r
<1>6. FrameOK(f, w)
  BY <1>1, <1>2, <1>5 DEF FrameOK, OfType
<1>7. r = NoResult
  BY <1>1, <1>2 DEF Has
<1>8. Has(f, w, r)
  <2>1. Faithful(f.refs, FirstOf(f, f.done), w)
    BY <1>5 DEF Faithful, FirstOf
  <2> QED  BY <1>5, <1>7, <2>1 DEF Has, IsLoop
<1>9. Serves(f, Caller(Rest, Client), w)
  BY <1>1, <1>2, <1>5 DEF Serves, Answers, OfType
<1>10. \A j \in 1..Len(Rest) : Apart(f, Rest[j])
  BY <1>5 DEF Apart, CompletesName
<1>11. heap' = heap /\ ret' = r /\ stack' = <<f>> \o Rest
  BY <1>1 DEF r
<1> QED  BY <1>0, <1>1, <1>3, <1>4, <1>6, <1>7, <1>8, <1>9, <1>10, <1>11, GoesOnStep

LEMMA NextElemStep ==
  ASSUME TypeOK, ConvInv, NextElem
  PROVE  ConvInv'
<1> DEFINE w == World
           v == NextWorld
           t == Top.list[Top.done + 1]
           f == CallToType(t)
           g == [Top EXCEPT !.done = Top.done + 1]
           r == ret'
<1>1. /\ stack # <<>> /\ Top.op \in {"elems", "fn"} /\ requests' = requests /\ ret = NoResult
      /\ prog' = prog /\ heap' = heap /\ resolved' = resolved /\ placeholder' = placeholder
      /\ stack' = <<f, g>> \o Rest /\ r = ret /\ Top.done # Len(Top.list)
  BY DEF NextElem, Converting, Running, Push, AllTaken
<1>2. /\ FrameOK(Top, w) /\ Has(Top, w, ret) /\ Serves(Top, Caller(Rest, Client), w)
      /\ \A j \in 1..Len(Rest) : Apart(Top, Rest[j])
      /\ Top \in Frames(heap) /\ Top.list \in Seq(Types) /\ Top.done \in 0..Len(Top.list)
  BY <1>1, TopParts DEF FrameOK
<1>3. v = w /\ Moves(w, v, {}) /\ TablesOK(v)
  BY <1>1, SameWorld
<1>4. /\ t \in Types /\ Top.done + 1 \in 1..Len(Top.list) /\ Top.done + 1 - 1 = Top.done
      /\ Top.done + 1 \in 0..Len(Top.list)
  <2> DEFINE list == Top.list
             n == Top.done
  <2>1. list \in Seq(Types) /\ n \in 0..Len(list) /\ n # Len(list)
    BY <1>1, <1>2
  <2> HIDE DEF list, n
  <2>2. /\ n + 1 \in 1..Len(list) /\ n + 1 - 1 = n /\ list[n + 1] \in Types
        /\ n + 1 \in 0..Len(list)
    BY <2>1
  <2> QED  BY <2>2 DEF list, n
<1>5. g \in Frames(heap) /\ f \in Frames(heap)
  <2>1. {} \in SUBSET ObjectsOf(heap)
    OBVIOUS
  <2>2. g \in Frames(heap)
    BY <1>1, <1>4, TopChanged
  <2> QED  BY <1>4, <2>1, <2>2, FrameTypes
<1>6. Alike(g, Top) /\ g.done = Top.done + 1 /\ g.refs = Top.refs
  <2> DEFINE x == Top.done + 1
             y == Top
  <2>1. y \in Frames(heap)
    BY <1>2
  <2> HIDE DEF x, y
  <2>2. LET k == [y EXCEPT !.done = x] IN Alike(k, y) /\ k.done = x /\ k.refs = y.refs
    BY <2>1, FieldsOfExcept, ZenonT(60)
  <2> QED  BY <2>2 DEF x, y
<1>0. w = World /\ v = NextWorld
  OBVIOUS
<1> HIDE DEF w, v, f, g, r
<1>7. FrameOK(g, w) /\ Serves(g, Caller(Rest, Client), w) /\ g.op # "ToType"
      /\ g.done \in 1..Len(Top.list)
  BY <1>1, <1>2, <1>4, <1>6, AlikeFacts DEF Alike
<1>8. \A j \in 1..Len(Rest) : Apart(g, Rest[j])
  BY <1>2, <1>6, AlikeFacts
<1>9. Keeps(g, w)
  <2>1. Faithful(Top.refs, FirstOf(Top, Top.done), w)
    BY <1>1, <1>2 DEF Has, IsLoop
  <2>2. FirstOf(g, g.done - 1) = FirstOf(Top, Top.done)
    <3> DEFINE n == Top.done
    <3>1. n \in Int /\ g.done = n + 1
      BY <1>2, <1>6
    <3> HIDE DEF n
    <3>3. g.done - 1 = n
      BY <3>1
    <3>2. FirstOf(g, Top.done) = FirstOf(Top, Top.done)
      BY <1>6 DEF Alike, FirstOf
    <3> QED  BY <3>2, <3>3 DEF n
  <2>3. Holds(g) = FirstOf(g, g.done - 1)
    BY <1>1, <1>6 DEF Holds, Alike
  <2> QED  BY <1>6, <2>1, <2>2, <2>3 DEF Keeps
<1>10. /\ FrameOK(f, w) /\ Has(f, w, r) /\ ~CompletesName(f)
       /\ Serves(f, g, w)
  <2>1. Asks(g) /\ IsLoop(g) /\ AskedType(g, w) = t
    BY <1>1, <1>6 DEF Asks, IsLoop, AskedType, Alike
  <2>2. g.done >= 1
    BY <1>7
  <2> HIDE DEF t
  <2> QED  BY <1>1, <1>4, <2>1, <2>2, CallFacts DEF f
<1>11. heap' = heap /\ ret' = r /\ stack' = <<f, g>> \o Rest /\ r = NoResult
  BY <1>1 DEF r
<1>12. \A i \in 1..Len(Rest) : HasRefs(Rest[i]) => {} \cap Holds(Rest[i]) = {}
  OBVIOUS
<1> QED  BY <1>0, <1>1, <1>3, <1>5, <1>7, <1>8, <1>9, <1>10, <1>11, <1>12, CallsStep

LEMMA FaithfulUnion ==
  ASSUME NEW w, NEW a, NEW b, NEW S, NEW T, Faithful(a, S, w), Faithful(b, T, w)
  PROVE  Faithful(a \cup b, S \cup T, w)
<1>1. {o \in a \cup b : w.heap[o].name # NoType}
        = {o \in a : w.heap[o].name # NoType} \cup {o \in b : w.heap[o].name # NoType}
  OBVIOUS
<1>2. {ImageIn(w, n) : n \in S \cup T} = {ImageIn(w, n) : n \in S} \cup {ImageIn(w, n) : n \in T}
  OBVIOUS
<1> QED  BY <1>1, <1>2 DEF Faithful

LEMMA FirstOfNext ==
  ASSUME NEW f, NEW k \in Nat \ {0}
  PROVE  FirstOf(f, k) = FirstOf(f, k - 1) \cup Mentioned[f.list[k]]
<1>1. 1..k = 1..(k - 1) \cup {k}
  OBVIOUS
<1> QED  BY <1>1 DEF FirstOf

LEMMA ElemOkStep ==
  ASSUME TypeOK, ConvInv, ElemOk
  PROVE  ConvInv'
<1> DEFINE w == World
           v == NextWorld
           refs == Top.refs \cup ret.refs
           f == [Top EXCEPT !.refs = refs]
           r == ret'
<1>1. /\ stack # <<>> /\ Top.op \in {"elems", "fn"} /\ requests' = requests /\ ret.status = "ok"
      /\ prog' = prog /\ heap' = heap /\ resolved' = resolved /\ placeholder' = placeholder
      /\ stack' = <<f>> \o Rest /\ r = NoResult
  BY DEF ElemOk, Converting, Running, Push
<1>2. /\ FrameOK(Top, w) /\ Has(Top, w, ret) /\ Serves(Top, Caller(Rest, Client), w)
      /\ \A j \in 1..Len(Rest) : Apart(Top, Rest[j])
      /\ Top \in Frames(heap) /\ Top.list \in Seq(Types) /\ Top.done \in 0..Len(Top.list)
  BY <1>1, TopParts DEF FrameOK
<1>3. v = w /\ Moves(w, v, {}) /\ TablesOK(v)
  BY <1>1, SameWorld
<1>4. Alike(f, Top) /\ f.done = Top.done /\ f.refs = refs
  <2> DEFINE x == refs
             y == Top
  <2>1. y \in Frames(heap)
    BY <1>2
  <2> HIDE DEF x, y
  <2>2. LET k == [y EXCEPT !.refs = x] IN Alike(k, y) /\ k.done = y.done /\ k.refs = x
    BY <2>1, FieldsOfExcept, ZenonT(60)
  <2> QED  BY <2>2 DEF x, y
<1>5. f \in Frames(heap)
  <2>1. refs \in SUBSET ObjectsOf(heap)
    BY <1>1, RetRefs, TopFields
  <2> HIDE DEF refs
  <2> QED  BY <1>1, <2>1, TopChanged
<1>0. w = World /\ v = NextWorld
  OBVIOUS
<1> HIDE DEF w, v, f, r
<1>6. FrameOK(f, w) /\ Serves(f, Caller(Rest, Client), w)
  BY <1>2, <1>4, AlikeFacts
<1>7. \A j \in 1..Len(Rest) : Apart(f, Rest[j])
  BY <1>2, <1>4, AlikeFacts
<1>8. Faithful(f.refs, FirstOf(f, f.done), w)
  <2>1. ret # NoResult
    BY <1>1 DEF NoResult
  <2>2. Top.done >= 1 /\ Keeps(Top, w) /\ Right(ret, Top.list[Top.done], w)
    BY <1>1, <1>2, <2>1 DEF Has, IsLoop, AskedType
  <2>3. Faithful(Top.refs, FirstOf(Top, Top.done - 1), w)
    BY <1>1, <2>2 DEF Keeps, HasRefs, Holds
  <2>4. Faithful(ret.refs, Mentioned[Top.list[Top.done]], w)
    BY <1>1, <2>2 DEF Right
  <2> DEFINE A == FirstOf(Top, Top.done - 1)
             B == Mentioned[Top.list[Top.done]]
  <2>5. Faithful(Top.refs, A, w) /\ Faithful(ret.refs, B, w)
    BY <2>3, <2>4
  <2>6. FirstOf(Top, Top.done) = A \cup B
    BY <1>2, <2>2, FirstOfNext
  <2> HIDE DEF A, B
  <2>7. Faithful(refs, A \cup B, w)
    BY <2>5, FaithfulUnion
  <2>8. FirstOf(f, f.done) = FirstOf(Top, Top.done)
    BY <1>4, AlikeFacts
  <2> QED  BY <1>4, <2>6, <2>7, <2>8
<1>9. Has(f, w, r)
  <2>1. f.op \in {"elems", "fn"}
    BY <1>1, <1>4 DEF Alike
  <2> QED  BY <1>1, <1>8, <2>1 DEF Has
<1>11. heap' = heap /\ ret' = r /\ stack' = <<f>> \o Rest
  BY <1>1 DEF r
<1>12. \A i \in 1..Len(Rest) : HasRefs(Rest[i]) => {} \cap Holds(Rest[i]) = {}
  OBVIOUS
<1> QED  BY <1>0, <1>1, <1>3, <1>5, <1>6, <1>7, <1>9, <1>11, <1>12, GoesOnStep

LEMMA RangeNextStep ==
  ASSUME TypeOK, ConvInv, NEW o \in ntype, RangeNext(o)
  PROVE  ConvInv'
<1> DEFINE w == World
           v == NextWorld
           sigs == Decl[heap[o].name].methods
           f == Updater(o, sigs)
           seen == Top.seen \cup {o}
           g == [Top EXCEPT !.seen = seen]
           r == ret'
<1>1. /\ stack # <<>> /\ Top.op = "range" /\ requests' = requests
      /\ prog' = prog /\ heap' = heap /\ resolved' = resolved /\ placeholder' = placeholder
      /\ stack' = <<f, g>> \o Rest /\ r = NoResult
  BY DEF RangeNext, Running, Push
<1>2. /\ FrameOK(Top, w) /\ Serves(Top, Caller(Rest, Client), w)
      /\ \A j \in 1..Len(Rest) : Apart(Top, Rest[j])
      /\ Top \in Frames(heap) /\ Top.done \in 0..Len(Top.list) /\ w.heap = heap /\ w.prog = prog
  BY <1>1, TopParts DEF FrameOK
<1>3. v = w /\ Moves(w, v, {}) /\ TablesOK(v)
  BY <1>1, SameWorld
<1>4. Alike(g, Top) /\ g.done = Top.done /\ g.seen = seen
  <2> DEFINE x == seen
             y == Top
  <2>1. y \in Frames(heap)
    BY <1>2
  <2> HIDE DEF x, y
  <2>2. LET k == [y EXCEPT !.seen = x] IN Alike(k, y) /\ k.done = y.done /\ k.seen = x
    BY <2>1, FieldsOfExcept, ZenonT(60)
  <2> QED  BY <2>2 DEF x, y
<1>5. o \in ObjectsOf(heap) /\ sigs \in Seq(Types)
  BY DEF TypeOK, Decl
<1>6. g \in Frames(heap) /\ f \in Frames(heap)
  <2>1. {} \in SUBSET ObjectsOf(heap)
    OBVIOUS
  <2>2. seen \in SUBSET ObjectsOf(heap)
    BY <1>1, <1>5, TopFields
  <2> HIDE DEF seen, sigs
  <2>3. g \in Frames(heap)
    BY <1>1, <2>2, TopChanged
  <2> QED  BY <1>5, <2>1, <2>3, FrameTypes
<1>7. f.list = w.prog.decl[w.heap[o].name].methods /\ f.obj = o /\ f.op = "fn"
  BY <1>2 DEF Updater, Frame, Decl
<1>0. w = World /\ v = NextWorld
  OBVIOUS
<1>8. FrameOK(f, w) /\ Has(f, w, r) /\ ~CompletesName(f)
  <2> HIDE DEF sigs, w
  <2> QED  BY <1>1, <1>2, <1>5, UpdaterFacts
<1> HIDE DEF w, v, f, g, r
<1>9. FrameOK(g, w) /\ Serves(g, Caller(Rest, Client), w) /\ g.op = "range"
  BY <1>1, <1>2, <1>4, AlikeFacts DEF Alike
<1>10. \A j \in 1..Len(Rest) : Apart(g, Rest[j])
  BY <1>2, <1>4, AlikeFacts
<1>11. Keeps(g, w)
  BY <1>9 DEF Keeps, HasRefs
<1>12. Serves(f, g, w)
  BY <1>4, <1>7, <1>9 DEF Serves, Updates, Asks
<1>13. heap' = heap /\ ret' = r /\ stack' = <<f, g>> \o Rest
  BY <1>1 DEF r
<1>14. \A i \in 1..Len(Rest) : HasRefs(Rest[i]) => {} \cap Holds(Rest[i]) = {}
  OBVIOUS
<1> QED  BY <1>0, <1>1, <1>3, <1>6, <1>8, <1>9, <1>10, <1>11, <1>12, <1>13, <1>14, CallsStep

-----------------------------------------------------------------------------
(* The steps that make, complete or rewrite objects.                       *)
LEMMA MethodsSet ==
  ASSUME TypeOK, SetMethodSet
  PROVE  /\ Top.obj \in ObjectsOf(heap) /\ Len(heap') = Len(heap) /\ Grows(heap, heap')
         /\ \A o \in ObjectsOf(heap) :
              /\ heap'[o].name = heap[o].name /\ heap'[o].under = heap[o].under
              /\ o # Top.obj => heap'[o] = heap[o]
              /\ o = Top.obj => heap'[o].methods = Top.refs /\ heap'[o].complete
<1>1. stack # <<>> /\ Top.op = "fn"
  BY DEF SetMethodSet, Running
<1>2. Top.obj \in ObjectsOf(heap) /\ Top.refs \in SUBSET ObjectsOf(heap)
  BY <1>1, TopFields
<1> DEFINE obj == Top.obj
           refs == Top.refs
<1>3. heap' = [heap EXCEPT ![obj] = [@ EXCEPT !.methods = refs, !.complete = TRUE]]
  BY DEF SetMethodSet
<1>4. heap \in Seq(HeapObjects(heap)) /\ obj \in 1..Len(heap) /\ refs \in SUBSET ObjectsOf(heap)
  BY <1>2 DEF TypeOK, ObjectsOf
<1> HIDE DEF obj, refs
<1>5. Len(heap') = Len(heap) /\ Len(heap) \in Nat
  BY <1>3, <1>4
<1>6. ASSUME NEW o \in 1..Len(heap)
      PROVE  /\ heap'[o].name = heap[o].name /\ heap'[o].under = heap[o].under
             /\ o # obj => heap'[o] = heap[o]
             /\ o = obj => heap'[o].methods = refs /\ heap'[o].complete
  <2>1. heap[o] \in HeapObjects(heap)
    BY <1>4
  <2>2. CASE o # obj
    BY <1>3, <1>4, <2>1, <2>2
  <2>3. CASE o = obj
    <3> DEFINE x == heap[o]
    <3>1. heap'[o] = [x EXCEPT !.methods = refs, !.complete = TRUE]
      <4>1. obj \in DOMAIN heap
        BY <1>4
      <4> HIDE DEF HeapObjects
      <4> QED  BY <1>3, <2>3, <4>1
    <3>2. x \in HeapObjects(heap)
      BY <2>1
    <3> HIDE DEF x
    <3> DEFINE y == [x EXCEPT !.methods = refs, !.complete = TRUE]
    <3>3. y.name = x.name /\ y.under = x.under /\ y.methods = refs /\ y.complete
      BY <3>2 DEF HeapObjects
    <3> QED  BY <2>3, <3>1, <3>3 DEF x
  <2> QED  BY <2>2, <2>3
<1>7. Grows(heap, heap')
  BY <1>5, <1>6 DEF Grows, ObjectsOf
<1> QED  BY <1>2, <1>5, <1>6, <1>7 DEF ObjectsOf, obj, refs

(* h is the heap g and an object of its own for n, with the structure u.   *)
Extended(g, n, u, h) ==
  /\ h \in Seq(HeapObjects(h)) /\ Grows(g, h)
  /\ Len(g) + 1 \in ObjectsOf(h) /\ h[Len(g) + 1].name = n /\ h[Len(g) + 1].under = u
  /\ \A o \in ObjectsOf(g) : h[o].under = g[o].under

LEMMA AppendedUnders ==
  ASSUME NEW g, g \in Seq(HeapObjects(g)), NEW n \in Names \cup {NoType},
         NEW u \in SUBSET ObjectsOf(g), NEW h, h = Append(g, Object(n, u))
  PROVE  Extended(g, n, u, h)
<1>1. Len(g) \in Nat
  OBVIOUS
<1>2. (\A o \in 1..Len(g) : h[o] = g[o]) /\ h[Len(g) + 1] = Object(n, u)
  BY <1>1
<1>3. (\A o \in ObjectsOf(g) : h[o].under = g[o].under) /\ h[Len(g) + 1].under = u
  BY <1>2 DEF ObjectsOf, Object
<1> QED  BY <1>3, AppendObject DEF Extended

LEMMA NoneTaken ==
  ASSUME NEW s
  PROVE  \A i \in 1..Len(s) : HasRefs(s[i]) => {} \cap Holds(s[i]) = {}
OBVIOUS

LEMMA SetStep ==
  ASSUME TypeOK, ConvInv, SetMethodSet
  PROVE  ConvInv'
<1>1. /\ stack # <<>> /\ Top.op = "fn" /\ requests' = requests /\ stack' = Rest /\ ret' = Ok({})
      /\ prog' = prog /\ resolved' = resolved /\ placeholder' = placeholder
  BY DEF SetMethodSet, Running, Return
<1> DEFINE w == World
           v == NextWorld
<1>2. Moves(w, v, {}) /\ TablesOK(v)
  BY <1>1, MethodsSet, GrownWorld
<1>3. ret'.status # "none"
  BY <1>1 DEF Ok
<1> QED  BY <1>1, <1>2, <1>3, NoneTaken, Returns

LEMMA EmbeddingStep ==
  ASSUME TypeOK, ConvInv, StructWithMethods
  PROVE  ConvInv'
<1> DEFINE w == World
           v == NextWorld
           sigs == prog.promoted[Top.typ]
           f == Updater(Fresh, sigs)
           g == Embedded(Top.typ, Fresh, Top.refs)
           r == ret'
<1>1. /\ stack # <<>> /\ Top.op = "elems" /\ requests' = requests /\ ret = NoResult
      /\ Top.done = Len(Top.list)
      /\ prog' = prog /\ resolved' = resolved /\ placeholder' = placeholder
      /\ heap' = Append(heap, Object(NoType, Top.refs)) /\ heap \in Seq(HeapObjects(heap))
      /\ stack' = <<f, g>> \o Rest /\ r = ret
  BY DEF StructWithMethods, Running, Push, AllTaken, TypeOK
<1>2. /\ FrameOK(Top, w) /\ Has(Top, w, ret) /\ Serves(Top, Caller(Rest, Client), w)
      /\ \A j \in 1..Len(Rest) : Apart(Top, Rest[j])
  BY <1>1, TopParts
<1>3. Top.refs \in SUBSET ObjectsOf(heap) /\ Top.typ \in Types /\ sigs \in Seq(Types)
  BY <1>1, TopFields DEF TypeOK
<1>4. /\ Grows(heap, heap') /\ Fresh \in ObjectsOf(heap') /\ heap'[Fresh].name = NoType
  BY <1>1, <1>3, AppendObject, ZenonT(60) DEF Fresh
<1>5. Moves(w, v, {}) /\ TablesOK(v) /\ v.heap = heap' /\ v.prog = prog /\ w.prog = prog
  BY <1>1, <1>4, GrownWorld DEF NextWorld, World
<1>6. f \in Frames(heap') /\ g \in Frames(heap')
  <2>1. Top.refs \in SUBSET ObjectsOf(heap')
    BY <1>3, <1>4, GrowFacts
  <2> QED  BY <1>3, <1>4, <2>1, FrameTypes
<1>7. f.op = "fn" /\ f.list = sigs /\ f.obj = Fresh
  BY DEF Updater, Frame
<1>8. /\ g.op = "embedded" /\ g.typ = Top.typ /\ g.obj = Fresh /\ g.refs = Top.refs
      /\ g.list = <<>> /\ g.done = 0
  BY DEF Embedded, Frame
<1>0. w = World /\ v = NextWorld
  OBVIOUS
<1>9. FrameOK(f, v) /\ Has(f, v, r) /\ ~CompletesName(f)
  <2> HIDE DEF v, sigs
  <2> QED  BY <1>1, <1>3, <1>4, <1>5, UpdaterFacts
<1> HIDE DEF w, v, f, g, r
<1>10. FrameOK(g, v)
  <2>1. g.list \in Seq(Types) /\ Len(g.list) = 0 /\ g.done \in 0..Len(g.list)
    BY <1>8
  <2>2. g.typ \in Types /\ g.typ \notin ProvidedTypes
        /\ g.typ.kind \in {"composite", "interface", "embedding"}
    BY <1>1, <1>2, <1>3, <1>8 DEF FrameOK
  <2>3. g.obj \in ObjectsOf(v.heap) /\ v.heap[g.obj].name = NoType
    BY <1>4, <1>5, <1>8
  <2> QED  BY <1>8, <2>1, <2>2, <2>3 DEF FrameOK
<1>11. Keeps(g, v)
  <2>1. Faithful(Top.refs, FirstOf(Top, Len(Top.list)), w)
    BY <1>1, <1>2 DEF Has, IsLoop
  <2>2. Faithful(Top.refs, Mentioned[Top.typ], w)
    BY <1>1, <1>2, <2>1, LoopMentions
  <2> DEFINE S == Mentioned[Top.typ]
  <2>3. S \subseteq Names
    BY <1>3, MentionedNames
  <2> HIDE DEF S
  <2>4. Faithful(Top.refs, S, v)
    BY <1>5, <2>2, <2>3, FaithfulMoves DEF S
  <2> QED  BY <1>8, <2>4 DEF Keeps, Holds, S
<1>12. Serves(g, Caller(Rest, Client), v)
  <2> DEFINE k == Caller(Rest, Client)
  <2>1. Serves(Top, k, w)
    BY <1>2
  <2> HIDE DEF k
  <2>2. Serves(Top, k, v)
    BY <1>2, <1>5, <2>1, ServesMoves
  <2>3. Serves(g, k, v)
    BY <1>1, <1>8, <2>2 DEF Serves, Answers, OfType
  <2> QED  BY <2>3 DEF k
<1>13. \A j \in 1..Len(Rest) : Apart(g, Rest[j])
  BY <1>8 DEF Apart, CompletesName
<1>14. Serves(f, g, v)
  BY <1>5, <1>7, <1>8 DEF Serves, Updates, Asks
<1>15. ret' = r /\ stack' = <<f, g>> \o Rest /\ (r.status = "none" => r = NoResult)
  BY <1>1 DEF r
<1>16. g.op # "ToType"
  BY <1>8
<1> QED  BY <1>0, <1>1, <1>5, <1>6, <1>9, <1>10, <1>11, <1>12, <1>13, <1>14, <1>15, <1>16,
            NoneTaken, CallsStep

(* A name that is met for the first time gets its entry.                   *)
Entered(n, w, v) ==
  /\ Moves(w, v, {n}) /\ TablesOK(v) /\ v.tab = w.tab
  /\ ImageIn(w, n) = NoType /\ Extended(w.heap, n, {}, v.heap)

LEMMA NewWorld ==
  ASSUME TypeOK, OncePerName, ConvInv, NEW n \in Names, NameNew(n),
         NEW w, w = World, NEW v, v = NextWorld
  PROVE  Entered(n, w, v)
<1>1. /\ stack # <<>>
      /\ prog' = prog /\ resolved' = resolved /\ placeholder' = [placeholder EXCEPT ![n] = Fresh]
      /\ heap' = Append(heap, Object(n, {})) /\ heap \in Seq(HeapObjects(heap))
      /\ placeholder \in [Names -> ObjectsOf(heap) \cup {NoType}]
  BY DEF NameNew, Naming, Entering, Running, Push, TypeOK
<1>2. /\ TablesOK(w) /\ w.heap = heap /\ w.prog = prog
      /\ w.tab = resolved /\ w.pl = placeholder
  BY <1>1, TopParts
<1>3. placeholder[n] = NoType /\ resolved[n] = NoType
  BY MatchingIsOwn DEF NameNew, OncePerName
<1>4. Extended(heap, n, {}, heap')
  <2> DEFINE u == {}
             k == heap'
  <2>1. /\ u \in SUBSET ObjectsOf(heap) /\ n \in Names \cup {NoType} /\ k = Append(heap, Object(n, u))
        /\ heap \in Seq(HeapObjects(heap))
    BY <1>1
  <2> HIDE DEF u, k
  <2>2. Extended(heap, n, u, k)
    BY <2>1, AppendedUnders
  <2> QED  BY <2>2 DEF k, u
<1>5. v.heap = heap' /\ v.tab = resolved /\ v.pl = placeholder' /\ v.prog = prog
  BY <1>1 DEF NextWorld
<1>6. \A m \in Names : m # n => placeholder'[m] = placeholder[m]
  BY <1>1
<1>7. placeholder'[n] = Fresh
  BY <1>1
<1>8. Moves(w, v, {n})
  BY <1>2, <1>4, <1>5, <1>6 DEF Moves, ImageIn, Extended
<1>9. TablesOK(v)
  <2>1. /\ ObjectsOf(heap) \subseteq ObjectsOf(heap')
        /\ \A o \in ObjectsOf(heap) : heap'[o].name = heap[o].name
        /\ Fresh \in ObjectsOf(heap') /\ heap'[Fresh].name = n
    BY <1>4, GrowFacts DEF Grows, Extended, Fresh
  <2> SUFFICES ASSUME NEW m \in Names
               PROVE  /\ v.pl[m] # NoType => v.pl[m] \in ObjectsOf(v.heap) /\ v.heap[v.pl[m]].name = m
                      /\ v.tab[m] # NoType => v.tab[m] \in ObjectsOf(v.heap) /\ v.heap[v.tab[m]].name = m
    BY DEF TablesOK
  <2>2. /\ w.pl[m] # NoType => w.pl[m] \in ObjectsOf(w.heap) /\ w.heap[w.pl[m]].name = m
        /\ w.tab[m] # NoType => w.tab[m] \in ObjectsOf(w.heap) /\ w.heap[w.tab[m]].name = m
    BY <1>2 DEF TablesOK
  <2>3. CASE m = n
    BY <1>2, <1>5, <1>7, <2>1, <2>2, <2>3
  <2>4. CASE m # n
    BY <1>2, <1>5, <1>6, <2>1, <2>2, <2>4
  <2> QED  BY <2>3, <2>4
<1>10. ImageIn(w, n) = NoType
  BY <1>2, <1>3 DEF ImageIn
<1> QED  BY <1>2, <1>4, <1>5, <1>8, <1>9, <1>10 DEF Entered

LEMMA NewStep ==
  ASSUME TypeOK, OncePerName, ConvInv, NEW n \in Names, NameNew(n)
  PROVE  ConvInv'
<1> DEFINE w == World
           v == NextWorld
           t == Decl[n].under
           f == CallToType(t)
           g == NamedFrame(n)
           r == ret'
<1>1. /\ stack # <<>> /\ Top.op = "ToType" /\ requests' = requests
      /\ Top.typ \notin ProvidedTypes /\ Top.typ.kind = "named" /\ Top.typ.name = n
      /\ n \notin Provided
      /\ prog' = prog /\ resolved' = resolved /\ placeholder' = [placeholder EXCEPT ![n] = Fresh]
      /\ heap' = Append(heap, Object(n, {})) /\ heap \in Seq(HeapObjects(heap))
      /\ stack' = <<f, g>> \o Rest /\ r = ret
      /\ placeholder \in [Names -> ObjectsOf(heap) \cup {NoType}]
  BY DEF NameNew, Naming, Entering, Running, Push, TypeOK
<1>2. /\ FrameOK(Top, w) /\ Has(Top, w, ret) /\ Serves(Top, Caller(Rest, Client), w)
      /\ Waiting(Rest, Client, w) /\ TablesOK(w) /\ w.heap = heap /\ w.prog = prog
      /\ w.tab = resolved /\ w.pl = placeholder
  BY <1>1, TopParts
<1>0. w = World /\ v = NextWorld
  OBVIOUS
<1>5. v.heap = heap' /\ v.prog = prog
  BY <1>1 DEF NextWorld
<1> HIDE DEF w, v, r
<1>4. Entered(n, w, v)
  BY <1>0, NewWorld
<1>8. Moves(w, v, {n}) /\ TablesOK(v) /\ ImageIn(w, n) = NoType
  BY <1>4 DEF Entered
<1>11. \A i \in 1..Len(Rest) : HasRefs(Rest[i]) => n \notin Holds(Rest[i])
  <2> SUFFICES ASSUME NEW i \in 1..Len(Rest), HasRefs(Rest[i])  PROVE n \notin Holds(Rest[i])
    OBVIOUS
  <2> DEFINE x == Rest[i]
  <2>1. FrameOK(x, w) /\ Keeps(x, w) /\ HasRefs(x)
    BY <1>2 DEF Waiting
  <2> HIDE DEF x
  <2>2. n \notin Holds(x)
    BY <1>8, <2>1, NewNameFree
  <2> QED  BY <2>2 DEF x
<1>12. t \in Types /\ f \in Frames(heap') /\ g \in Frames(heap')
  <2>1. {} \in SUBSET ObjectsOf(heap')
    OBVIOUS
  <2>2. t \in Types
    BY DEF TypeOK, Decl
  <2> HIDE DEF t
  <2> QED  BY <2>1, <2>2, FrameTypes
<1>13. g.op = "named" /\ g.name = n /\ g.list = <<>> /\ g.done = 0
  BY DEF NamedFrame, Frame
<1> HIDE DEF g
<1>14. FrameOK(g, v) /\ Keeps(g, v)
  <2>1. <<>> \in Seq(Types) /\ Len(<<>>) = 0
    OBVIOUS
  <2> QED  BY <1>1, <1>13, <2>1 DEF FrameOK, OfType, Keeps, HasRefs
<1>15. Serves(g, Caller(Rest, Client), v)
  <2> DEFINE k == Caller(Rest, Client)
  <2>1. Serves(Top, k, w)
    BY <1>2
  <2> HIDE DEF k
  <2>2. Serves(Top, k, v)
    BY <1>2, <1>8, <2>1, ServesMoves
  <2>3. Serves(g, k, v)
    BY <1>1, <1>13, <2>2 DEF Serves, Answers, OfType, NameOf
  <2> QED  BY <2>3 DEF k
<1>16. \A j \in 1..Len(Rest) : Apart(g, Rest[j])
  BY <1>11, <1>13 DEF Apart
<1>17. r = NoResult
  BY <1>1, <1>2 DEF Has
<1>18. FrameOK(f, v) /\ Has(f, v, r) /\ ~CompletesName(f) /\ Serves(f, g, v)
  <2>1. Asks(g) /\ ~IsLoop(g) /\ AskedType(g, v) = t
    BY <1>5, <1>13 DEF Asks, IsLoop, AskedType, Decl
  <2> HIDE DEF t
  <2> QED  BY <1>12, <1>17, <2>1, CallFacts
<1> HIDE DEF f
<1>19. ret' = r /\ stack' = <<f, g>> \o Rest
  BY <1>1 DEF r
<1>20. \A i \in 1..Len(Rest) : HasRefs(Rest[i]) => {n} \cap Holds(Rest[i]) = {}
  BY <1>11
<1>21. g.op # "ToType"
  BY <1>13
<1> QED  BY <1>0, <1>1, <1>8, <1>12, <1>14, <1>15, <1>16, <1>17, <1>18, <1>19, <1>20, <1>21,
            CallsStep

(* The name n that is completed gets its type o, and the frames s do not   *)
(* hold the name.                                                          *)
Completion(n, o, s, w, v) ==
  /\ n \in Names \ Provided /\ Moves(w, v, {n}) /\ TablesOK(v)
  /\ v.tab[n] = o /\ o # NoType /\ o \in ObjectsOf(v.heap) /\ v.heap[o].name = n
  /\ \A i \in 1..Len(s) : HasRefs(s[i]) => {n} \cap Holds(s[i]) = {}

LEMMA ScopeUpdated ==
  ASSUME TypeOK, OncePerName, ConvInv, stack # <<>>, Top.op \in {"named", "attach"},
         prog' = prog, placeholder' = placeholder,
         NEW h, h \in Seq(HeapObjects(h)), Grows(heap, h), NEW n, n = Top.name,
         NEW o \in ObjectsOf(h), h[o].name = n, UpdateScope(n, o, h),
         NEW w, w = World, NEW v, v = NextWorld
  PROVE  Completion(n, o, Rest, w, v) /\ v.heap = heap' /\ v.prog = prog
<1>1. /\ FrameOK(Top, w) /\ w.heap = heap /\ w.tab = resolved /\ w.pl = placeholder
      /\ w.prog = prog /\ TablesOK(w) /\ \A j \in 1..Len(Rest) : Apart(Top, Rest[j])
  BY TopParts
<1>2. n \in Names \ Provided
  BY <1>1 DEF FrameOK
<1>3. /\ Grows(heap, heap') /\ Len(heap') = Len(h)
      /\ \A x \in ObjectsOf(h) : heap'[x].name = h[x].name
  BY <1>2, UpdateScopeTypes
<1>4. ObjectsOf(heap') = ObjectsOf(h)
  BY <1>3 DEF ObjectsOf
<1>5. o \in ObjectsOf(heap') /\ heap'[o].name = n
  BY <1>3, <1>4
<1>6. o # NoType
  BY TypesAssumption DEF ObjectsOf
<1>7. Pending(n)
  <2>1. n \in UnderWay(stack)
    BY TopOnce, TopCompletes
  <2> QED  BY <2>1 DEF OncePerName
<1>8. resolved' = Table(n, o)
  BY DEF UpdateScope
<1>9. resolved'[n] = o /\ \A m \in Names : m # n => resolved'[m] = resolved[m]
  <2>1. Matching(n) = {n}
    BY <1>2, <1>7, MatchingIsOwn DEF Pending
  <2> QED  BY <1>2, <1>8, <2>1 DEF Table
<1>10. v.heap = heap' /\ v.tab = resolved' /\ v.pl = placeholder /\ v.prog = prog
  BY DEF NextWorld
<1> HIDE DEF Top, Rest
<1>11. Moves(w, v, {n})
  <2>1. ASSUME NEW m \in Names
        PROVE  /\ m \notin {n} => ImageIn(v, m) = ImageIn(w, m)
               /\ w.tab[m] # NoType => v.tab[m] = w.tab[m]
    BY <1>1, <1>7, <1>9, <1>10 DEF ImageIn, Pending
  <2> QED  BY <1>1, <1>3, <1>10, <2>1 DEF Moves
<1>12. TablesOK(v)
  <2>1. /\ ObjectsOf(heap) \subseteq ObjectsOf(heap')
        /\ \A x \in ObjectsOf(heap) : heap'[x].name = heap[x].name
    BY <1>3, GrowFacts DEF Grows
  <2> SUFFICES ASSUME NEW m \in Names
               PROVE  /\ v.pl[m] # NoType => v.pl[m] \in ObjectsOf(v.heap) /\ v.heap[v.pl[m]].name = m
                      /\ v.tab[m] # NoType => v.tab[m] \in ObjectsOf(v.heap) /\ v.heap[v.tab[m]].name = m
    BY DEF TablesOK
  <2>2. /\ w.pl[m] # NoType => w.pl[m] \in ObjectsOf(w.heap) /\ w.heap[w.pl[m]].name = m
        /\ w.tab[m] # NoType => w.tab[m] \in ObjectsOf(w.heap) /\ w.heap[w.tab[m]].name = m
    BY <1>1 DEF TablesOK
  <2>3. CASE m = n
    BY <1>1, <1>5, <1>9, <1>10, <2>1, <2>2, <2>3
  <2>4. CASE m # n
    BY <1>1, <1>9, <1>10, <2>1, <2>2, <2>4
  <2> QED  BY <2>3, <2>4
<1>13. ASSUME NEW i \in 1..Len(Rest), HasRefs(Rest[i])  PROVE {n} \cap Holds(Rest[i]) = {}
  <2>1. CompletesName(Top) /\ Apart(Top, Rest[i])
    BY <1>1 DEF CompletesName
  <2> QED  BY <1>13, <2>1 DEF Apart
<1> QED  BY <1>2, <1>5, <1>6, <1>9, <1>10, <1>11, <1>12, <1>13 DEF Completion

LEMMA PlainStep ==
  ASSUME TypeOK, OncePerName, ConvInv, NamedPlain
  PROVE  ConvInv'
<1> DEFINE w == World
           v == NextWorld
           n == Top.name
           o == Fresh
           h == Append(heap, Object(n, ret.refs))
           refs == {o}
           r == ret'
<1>1. /\ stack # <<>> /\ Top.op = "named" /\ requests' = requests /\ stack' = Rest
      /\ prog' = prog /\ placeholder' = placeholder /\ UpdateScope(n, o, h) /\ r = Ok(refs)
  BY DEF NamedPlain, Running, Return
<1>2. n \in Names
  BY <1>1, TopFields
<1>3. heap \in Seq(HeapObjects(heap)) /\ ret.refs \in SUBSET ObjectsOf(heap)
  BY DEF TypeOK
<1>4. h \in Seq(HeapObjects(h)) /\ Grows(heap, h) /\ o \in ObjectsOf(h) /\ h[o].name = n
  <2> DEFINE u == ret.refs
             k == h
  <2>1. u \in SUBSET ObjectsOf(heap) /\ n \in Names \cup {NoType} /\ k = Append(heap, Object(n, u))
    BY <1>2, <1>3
  <2> HIDE DEF u, k, n
  <2>2. /\ k \in Seq(HeapObjects(k)) /\ Grows(heap, k)
        /\ Len(heap) + 1 \in ObjectsOf(k) /\ k[Len(heap) + 1].name = n
    BY <1>3, <2>1, AppendObject, ZenonT(60)
  <2> QED  BY <2>2 DEF Fresh, k, u, n
<1>0. w = World /\ v = NextWorld /\ n = Top.name
  OBVIOUS
<1> HIDE DEF w, v, n, o, h, r
<1>5. /\ n \in Names \ Provided /\ Moves(w, v, {n}) /\ TablesOK(v)
      /\ v.tab[n] = o /\ o # NoType /\ v.heap = heap'
      /\ o \in ObjectsOf(heap') /\ heap'[o].name = n
      /\ \A i \in 1..Len(Rest) : HasRefs(Rest[i]) => {n} \cap Holds(Rest[i]) = {}
  <2>1. Completion(n, o, Rest, w, v) /\ v.heap = heap'
    BY <1>0, <1>1, <1>4, ScopeUpdated
  <2> QED  BY <2>1 DEF Completion
<1>6. Faithful(refs, {n}, v)
  <2>1. n # NoType
    BY <1>5, TypesAssumption
  <2>2. {x \in refs : v.heap[x].name # NoType} = {o}
    BY <1>5, <2>1
  <2>3. {o} = {ImageIn(v, x) : x \in {n}}
    BY <1>5 DEF ImageIn
  <2> QED  BY <1>5, <2>2, <2>3 DEF Faithful
<1> HIDE DEF refs
<1>7. r.status = "ok" /\ r.refs = refs
  BY <1>1 DEF Ok
<1>8. ASSUME NEW t \in Types, Answers(Top, t, v)  PROVE Right(r, t, v)
  <2>1. t.kind = "named" /\ t \notin ProvidedTypes /\ t.name = n
    BY <1>0, <1>1, <1>8 DEF Answers, OfType, NameOf
  <2>2. Mentioned[t] = {n}
    BY <1>5, <2>1, MentionedDef DEF MentionsOf
  <2> QED  BY <1>6, <1>7, <2>2 DEF Right
<1>9. ret' = r /\ r.status # "none"
  BY <1>7 DEF r
<1> DEFINE X == {n}
<1>10. Moves(w, v, X) /\ \A i \in 1..Len(Rest) : HasRefs(Rest[i]) => X \cap Holds(Rest[i]) = {}
  BY <1>5
<1> HIDE DEF X
<1> QED  BY <1>0, <1>1, <1>5, <1>8, <1>9, <1>10, Returns

LEMMA MethodsStep ==
  ASSUME TypeOK, ConvInv, NamedWithMethods
  PROVE  ConvInv'
<1> DEFINE w == World
           v == NextWorld
           n == Top.name
           sigs == Decl[n].methods
           f == Updater(Fresh, sigs)
           g == Attach(n, Fresh)
           r == ret'
<1>1. /\ stack # <<>> /\ Top.op = "named" /\ requests' = requests /\ r = NoResult
      /\ prog' = prog /\ resolved' = resolved /\ placeholder' = placeholder
      /\ heap' = Append(heap, Object(n, ret.refs)) /\ heap \in Seq(HeapObjects(heap))
      /\ stack' = <<f, g>> \o Rest
  BY DEF NamedWithMethods, Running, Push, TypeOK
<1>2. /\ FrameOK(Top, w) /\ Serves(Top, Caller(Rest, Client), w)
      /\ \A j \in 1..Len(Rest) : Apart(Top, Rest[j])
  BY <1>1, TopParts
<1>3. n \in Names /\ n \notin Provided /\ ret.refs \in SUBSET ObjectsOf(heap) /\ sigs \in Seq(Types)
  BY <1>1, <1>2 DEF TypeOK, Decl, FrameOK
<1>4. Grows(heap, heap') /\ Fresh \in ObjectsOf(heap') /\ heap'[Fresh].name = n
  <2> DEFINE u == ret.refs
             k == heap'
  <2>1. /\ u \in SUBSET ObjectsOf(heap) /\ n \in Names \cup {NoType} /\ k = Append(heap, Object(n, u))
        /\ heap \in Seq(HeapObjects(heap))
    BY <1>1, <1>3
  <2> HIDE DEF u, k, n
  <2>2. Grows(heap, k) /\ Len(heap) + 1 \in ObjectsOf(k) /\ k[Len(heap) + 1].name = n
    BY <2>1, AppendObject, ZenonT(60)
  <2> QED  BY <2>2 DEF Fresh, k, n
<1>5. Moves(w, v, {}) /\ TablesOK(v) /\ v.heap = heap' /\ v.prog = prog /\ w.prog = prog
  BY <1>1, <1>4, GrownWorld DEF NextWorld, World
<1>6. f \in Frames(heap') /\ g \in Frames(heap')
  <2>1. {} \in SUBSET ObjectsOf(heap')
    OBVIOUS
  <2> HIDE DEF sigs
  <2> QED  BY <1>3, <1>4, <2>1, FrameTypes
<1>7. f.op = "fn" /\ f.list = sigs /\ f.obj = Fresh
  BY DEF Updater, Frame
<1>8. /\ g.op = "attach" /\ g.name = n /\ g.obj = Fresh /\ g.list = <<>> /\ g.done = 0
  BY DEF Attach, Frame
<1>0. w = World /\ v = NextWorld /\ sigs = prog.decl[n].methods
  BY DEF Decl
<1>9. FrameOK(f, v) /\ Has(f, v, r) /\ ~CompletesName(f)
  <2> HIDE DEF v, sigs
  <2> QED  BY <1>1, <1>3, <1>4, <1>5, UpdaterFacts
<1>m. n = Top.name
  OBVIOUS
<1> HIDE DEF w, v, f, g, r, n, sigs
<1>10. FrameOK(g, v)
  <2>1. g.list \in Seq(Types) /\ Len(g.list) = 0 /\ g.done \in 0..Len(g.list)
    BY <1>8
  <2>2. g.name \in Names \ Provided
    BY <1>3, <1>8
  <2>3. g.obj \in ObjectsOf(v.heap) /\ v.heap[g.obj].name = g.name
    BY <1>4, <1>5, <1>8
  <2> QED  BY <1>8, <2>1, <2>2, <2>3 DEF FrameOK, OfType
<1>11. Keeps(g, v)
  BY <1>8 DEF Keeps, HasRefs
<1>12. Serves(g, Caller(Rest, Client), v)
  <2> DEFINE k == Caller(Rest, Client)
  <2>1. Serves(Top, k, w)
    BY <1>2
  <2> HIDE DEF k
  <2>2. Serves(Top, k, v)
    BY <1>2, <1>5, <2>1, ServesMoves
  <2>3. Serves(g, k, v)
    BY <1>m, <1>1, <1>8, <2>2 DEF Serves, Answers, OfType, NameOf
  <2> QED  BY <2>3 DEF k
<1>13. \A j \in 1..Len(Rest) : Apart(g, Rest[j])
  BY <1>m, <1>1, <1>2, <1>8 DEF Apart, CompletesName
<1>14. Serves(f, g, v)
  BY <1>0, <1>4, <1>5, <1>7, <1>8 DEF Serves, Updates, Asks
<1>15. ret' = r /\ stack' = <<f, g>> \o Rest /\ (r.status = "none" => r = NoResult)
  BY <1>1 DEF r
<1>16. g.op # "ToType"
  BY <1>8
<1> QED  BY <1>0, <1>1, <1>5, <1>6, <1>9, <1>10, <1>11, <1>12, <1>13, <1>14, <1>15, <1>16,
            NoneTaken, CallsStep

LEMMA RegisterStep ==
  ASSUME TypeOK, OncePerName, ConvInv, Register
  PROVE  ConvInv'
<1> DEFINE w == World
           v == NextWorld
           n == Top.name
           o == Top.obj
           h == heap
           f == RangeOver(o, ntype')
           r == ret'
<1>1. /\ stack # <<>> /\ Top.op = "attach" /\ requests' = requests /\ r = NoResult
      /\ prog' = prog /\ placeholder' = placeholder /\ UpdateScope(n, o, h)
      /\ stack' = <<f>> \o Rest
  BY DEF Register, Running, Push
<1>2. /\ FrameOK(Top, w) /\ Serves(Top, Caller(Rest, Client), w)
      /\ \A j \in 1..Len(Rest) : Apart(Top, Rest[j])
  BY <1>1, TopParts
<1>3. h \in Seq(HeapObjects(h)) /\ Grows(heap, h)
  BY SameHeapGrows DEF TypeOK
<1>4. o \in ObjectsOf(h) /\ h[o].name = n
  BY <1>1, TopFields
<1>5. ntype' \subseteq ObjectsOf(heap')
  BY RegisterTypes DEF TypeOK
<1>0. w = World /\ v = NextWorld /\ n = Top.name
  OBVIOUS
<1> HIDE DEF w, v, n, o, h, r
<1>6. /\ n \in Names \ Provided /\ Moves(w, v, {n}) /\ TablesOK(v)
      /\ v.tab[n] = o /\ o # NoType /\ v.heap = heap'
      /\ o \in ObjectsOf(heap') /\ heap'[o].name = n
      /\ \A i \in 1..Len(Rest) : HasRefs(Rest[i]) => {n} \cap Holds(Rest[i]) = {}
  <2>1. /\ stack # <<>> /\ Top.op \in {"named", "attach"} /\ prog' = prog
        /\ placeholder' = placeholder /\ UpdateScope(n, o, h)
    BY <1>1
  <2>2. Completion(n, o, Rest, w, v) /\ v.heap = heap'
    BY <1>0, <1>3, <1>4, <2>1, ScopeUpdated
  <2> QED  BY <2>2 DEF Completion
<1>7. f \in Frames(heap')
  BY <1>5, <1>6, FrameTypes
<1>8. /\ f.op = "range" /\ f.obj = o /\ f.list = <<>> /\ f.done = 0
  BY DEF RangeOver, Frame
<1> HIDE DEF f
<1>9. NameOf(f, v) = n
  BY <1>6, <1>8 DEF NameOf
<1>10. FrameOK(f, v)
  <2>1. f.list \in Seq(Types) /\ Len(f.list) = 0 /\ f.done \in 0..Len(f.list)
    BY <1>8
  <2> QED  BY <1>6, <1>8, <1>9, <2>1 DEF FrameOK, OfType
<1>11. Has(f, v, r)
  BY <1>8 DEF Has, IsLoop
<1>12. Serves(f, Caller(Rest, Client), v)
  <2> DEFINE k == Caller(Rest, Client)
  <2>1. Serves(Top, k, w)
    BY <1>2
  <2> HIDE DEF k
  <2>2. Serves(Top, k, v)
    BY <1>2, <1>6, <2>1, ServesMoves
  <2>3. NameOf(Top, v) = n
    BY <1>0, <1>1 DEF NameOf
  <2>4. Serves(f, k, v)
    BY <1>1, <1>8, <1>9, <2>2, <2>3 DEF Serves, Answers, OfType
  <2> QED  BY <2>4 DEF k
<1>13. \A j \in 1..Len(Rest) : Apart(f, Rest[j])
  BY <1>8 DEF Apart, CompletesName
<1>14. ret' = r /\ stack' = <<f>> \o Rest /\ (r.status = "none" => r = NoResult)
  BY <1>1 DEF r
<1> DEFINE X == {n}
<1>15. Moves(w, v, X) /\ \A i \in 1..Len(Rest) : HasRefs(Rest[i]) => X \cap Holds(Rest[i]) = {}
  BY <1>6
<1> HIDE DEF X
<1> QED  BY <1>0, <1>1, <1>6, <1>7, <1>10, <1>11, <1>12, <1>13, <1>14, <1>15, GoesOnStep

LEMMA AskStep ==
  ASSUME TypeOK, ConvInv, NEW t \in Requests, Request(t)
  PROVE  ConvInv'
<1> DEFINE v == NextWorld
           c == Client'
           f == CallToType(t)
           r == ret'
           s == stack'
<1>1. /\ s = <<f>> /\ r = NoResult /\ requests' = Append(requests, t) /\ t \in Types
      /\ prog' = prog /\ heap' = heap /\ resolved' = resolved /\ placeholder' = placeholder
      /\ requests \in Seq(Types)
  BY TypesAssumption DEF Request, TypeOK
<1>2. requests' # <<>> /\ c = [op |-> "client", typ |-> t]
  <2> DEFINE q == requests'
  <2>1. q # <<>> /\ q[Len(q)] = t
    BY <1>1
  <2> QED  BY <2>1 DEF Client
<1>3. TablesOK(v)
  BY <1>1, SameWorld
<1>4. World' = v
  BY DEF World, NextWorld
<1> DEFINE k == [op |-> "client", typ |-> t]
<1>5. Asks(k) /\ ~IsLoop(k) /\ AskedType(k, v) = t /\ k = c
  BY <1>2 DEF Asks, IsLoop, AskedType
<1> HIDE DEF v, c, r, s, k
<1>6. FrameOK(f, v) /\ Has(f, v, r) /\ Serves(f, k, v) /\ f.op = "ToType"
  BY <1>1, <1>5, CallFacts
<1> HIDE DEF f
<1> DEFINE q == <<>>
<1>7. Conversion(s, k, v, r)
  <2>1. s # <<>> /\ Head(s) = f /\ Tail(s) = q /\ Len(q) = 0
    BY <1>1
  <2> HIDE DEF q
  <2>2. Waiting(q, k, v)
    BY <2>1 DEF Waiting
  <2>3. Caller(q, k) = k
    BY <2>1 DEF Caller, Asker
  <2>4. OnTop(f, q, k, v, r)
    BY <1>6, <2>1, <2>3 DEF OnTop
  <2> QED  BY <2>1, <2>2, <2>4 DEF Conversion
<1>8. Conversion(stack, Client, World, ret)'
  BY <1>4, <1>5, <1>7 DEF c, r, s
<1>9. TablesOK(World)'
  BY <1>3, <1>4
<1>10. ret' = NoResult
  BY <1>1 DEF r
<1> QED  BY <1>2, <1>8, <1>9, <1>10 DEF ConvInv

LEMMA SameStep ==
  ASSUME ConvInv, UNCHANGED vars
  PROVE  ConvInv'
BY DEF vars, ConvInv, World, Client

LEMMA ConvStep ==
  ASSUME TypeOK, OncePerName, ConvInv, [Next]_vars
  PROVE  ConvInv'
<1>1. CASE UNCHANGED vars \/ NoMoreRequests
  BY <1>1, SameStep DEF NoMoreRequests
<1>2. ASSUME NEW t \in Requests, Request(t)  PROVE ConvInv'
  BY <1>2, AskStep
<1>3. CASE Convert
  <2>1. CASE ToTypeProvided \/ ToTypeBasic \/ ToTypeInvalid \/ \E n \in Names : NameProvided(n)
    BY <2>1, LeafStep
  <2>2. CASE ToTypeComposite
    BY <2>2, CompositeStep
  <2>3. CASE NextElem
    BY <2>3, NextElemStep
  <2>4. CASE ElemOk
    BY <2>4, ElemOkStep
  <2>5. CASE ElemErr \/ NamedErr
    BY <2>5, ErrorStep
  <2>6. CASE CompositeBuilt \/ StructDone \/ RangeDone
    BY <2>6, BuiltStep
  <2>7. CASE StructWithMethods
    BY <2>7, EmbeddingStep
  <2>8. CASE SetMethodSet
    BY <2>8, SetStep
  <2>9. ASSUME NEW n \in Names, NameFound(n)  PROVE ConvInv'
    BY <2>9, FoundStep
  <2>10. ASSUME NEW n \in Names, NameNew(n)  PROVE ConvInv'
    BY <2>10, NewStep
  <2>11. CASE NamedPlain
    BY <2>11, PlainStep
  <2>12. CASE NamedWithMethods
    BY <2>12, MethodsStep
  <2>13. CASE Register
    BY <2>13, RegisterStep
  <2>14. ASSUME NEW o \in ntype, RangeNext(o)  PROVE ConvInv'
    BY <2>14, RangeNextStep
  <2> QED  BY <1>3, <2>1, <2>2, <2>3, <2>4, <2>5, <2>6, <2>7, <2>8, <2>9, <2>10, <2>11, <2>12,
              <2>13, <2>14 DEF Convert
<1> QED  BY <1>1, <1>2, <1>3 DEF Next

LEMMA InitConv == Init => ConvInv
<1> SUFFICES ASSUME Init  PROVE ConvInv
  OBVIOUS
<1>1. TablesOK(World)
  BY DEF Init, World, TablesOK
<1> QED  BY <1>1 DEF Init, ConvInv

(* Each frame on the stack converts what the frame under it has asked for, *)
(* and holds the types of the names in what it has converted so far.       *)
THEOREM Conversions == Spec => []ConvInv
<1>1. TypeOK /\ OncePerName /\ ConvInv /\ [Next]_vars => ConvInv'
  BY ConvStep
<1> QED  BY Typing, NoReentry, InitConv, <1>1, PTL DEF Spec

(* A conversion that succeeds returns the types of the names asked for.    *)
THEOREM Results == Spec => []ResultFaithful
<1>1. ConvInv => ResultFaithful
  <2> SUFFICES ASSUME ConvInv, Idle, ret.status = "ok"
               PROVE  NamedIn(ret.refs) = Images(Mentioned[requests[Len(requests)]])
    BY DEF ResultFaithful
  <2>1. requests # <<>>
    BY DEF ConvInv, NoResult
  <2>2. Right(ret, Client.typ, World)
    BY <2>1 DEF ConvInv, Conversion, Idle
  <2>3. Faithful(ret.refs, Mentioned[Client.typ], World)
    BY <2>2 DEF Right
  <2>4. Client.typ = requests[Len(requests)]
    BY DEF Client
  <2>5. \A n : ImageIn(World, n) = Image(n)
    BY DEF World, ImageIn, Image
  <2> QED  BY <2>3, <2>4, <2>5 DEF Faithful, NamedIn, Images, World
<1> QED  BY Conversions, <1>1, PTL

-----------------------------------------------------------------------------
(* While every type can be converted, a name without its type is one that  *)
(* is being converted.                                                     *)
NoneLeft == Clean => \A n \in Names : Pending(n) => n \in UnderWay(stack)

LEMMA CleanIsPure == Clean => Pure(prog)
BY DEF Clean

LEMMA CleanBefore ==
  ASSUME TypeOK, [Next]_vars, Clean'
  PROVE  Clean
<1>1. prog' = prog /\ (requests' = requests \/ \E t \in Requests : requests' = Append(requests, t))
  <2>1. CASE UNCHANGED vars \/ NoMoreRequests
    BY <2>1 DEF vars, NoMoreRequests
  <2>2. ASSUME NEW t \in Requests, Request(t)
        PROVE  prog' = prog /\ requests' = Append(requests, t)
    BY <2>2 DEF Request
  <2>3. CASE Convert
    BY <2>3 DEF Convert, ToTypeProvided, ToTypeBasic, ToTypeInvalid, ToTypeComposite, NextElem,
       ElemOk, ElemErr, CompositeBuilt, StructWithMethods, StructDone, SetMethodSet, NameProvided,
       NameFound, NameNew, NamedErr, NamedPlain, NamedWithMethods, Register, RangeNext, RangeDone
  <2> QED  BY <2>1, <2>2, <2>3 DEF Next
<1>2. \A i \in DOMAIN requests : i \in DOMAIN requests' /\ requests'[i] = requests[i]
  <2>1. requests \in Seq(Types)
    BY DEF TypeOK
  <2>2. ASSUME NEW t, requests' = Append(requests, t)
        PROVE  \A i \in DOMAIN requests : i \in DOMAIN requests' /\ requests'[i] = requests[i]
    BY <2>1, <2>2
  <2> QED  BY <1>1, <2>2
<1> QED  BY <1>1, <1>2 DEF Clean, Decl

LEMMA NoneLeftStep ==
  ASSUME TypeOK, OncePerName, ConvInv, NoneLeft, [Next]_vars
  PROVE  NoneLeft'
<1> SUFFICES ASSUME Clean', NEW n \in Names, Pending(n)'  PROVE n \in UnderWay(stack')
  BY DEF NoneLeft
<1>1. Clean
  BY CleanBefore
<1>2. ~NamedErr
  <2> SUFFICES ASSUME NamedErr  PROVE FALSE
    OBVIOUS
  <2> DEFINE w == World
  <2>1. stack # <<>> /\ Top.op = "named" /\ ret.status = "err"
    BY DEF NamedErr, Running
  <2>2. FrameOK(Top, w) /\ Has(Top, w, ret) /\ w.prog = prog
    BY <2>1, TopParts
  <2> HIDE DEF w
  <2>3. Right(ret, prog.decl[Top.name].under, w) /\ Top.name \in Names
    BY <2>1, <2>2 DEF Has, AskedType, IsLoop, FrameOK
  <2>4. Wrong[prog.decl[Top.name].under]
    BY <1>1, <2>1, <2>2, <2>3, CleanIsPure DEF Right
  <2> QED  BY <1>1, <2>3, <2>4 DEF Clean, Pure, Decl
<1>3. NoneDropped
  BY <1>2, OnceStep
<1> QED  BY <1>1, <1>3 DEF NoneDropped, NoneLeft

(* While nothing has failed, a conversion that is over has succeeded and   *)
(* has left no placeholder behind.                                         *)
THEOREM Cleanly == Spec => []CleanConversion
<1>1. Init => NoneLeft
  BY DEF Init, NoneLeft, Pending
<1>2. TypeOK /\ OncePerName /\ ConvInv /\ NoneLeft /\ [Next]_vars => NoneLeft'
  BY NoneLeftStep
<1>3. TypeOK /\ ConvInv /\ NoneLeft => CleanConversion
  <2> SUFFICES ASSUME TypeOK, ConvInv, NoneLeft, Idle, Clean
               PROVE  ret.status # "err" /\ \A n \in Names : ~Pending(n)
    BY DEF CleanConversion
  <2>1. UnderWay(stack) = {}
    BY DEF UnderWay, Idle
  <2>2. CASE requests = <<>>
    BY <2>1, <2>2 DEF NoneLeft, ConvInv, NoResult
  <2>3. CASE requests # <<>>
    <3>1. Right(ret, Client.typ, World)
      BY <2>3 DEF ConvInv, Conversion, Idle
    <3>2. ~Wrong[Client.typ]
      <4>1. Len(requests) \in DOMAIN requests
        BY <2>3 DEF TypeOK
      <4> QED  BY <4>1 DEF Clean, Client
    <3>3. ret.status # "err"
      BY <3>1, <3>2, CleanIsPure DEF Right, World
    <3> QED  BY <2>1, <3>3 DEF NoneLeft
  <2> QED  BY <2>2, <2>3
<1> QED  BY Typing, NoReentry, Conversions, <1>1, <1>2, <1>3, PTL DEF Spec

-----------------------------------------------------------------------------
(* The structure of a named type.                                          *)
InUnder(p, n) == Mentioned[p.decl[n].under]

(* The object o has the structure that n declares.                         *)
Built(o, n, w) == Faithful(w.heap[o].under, InUnder(w.prog, n), w)

(* The frame f is at work on names of the scope g only.                    *)
Within(f, g) ==
  /\ OfType(f) => Mentioned[f.typ] \subseteq NamesOf(g)
  /\ CompletesName(f) => f.name \in NamesOf(g)
  /\ f.op = "fn" => \A i \in 1..Len(f.list) : Mentioned[f.list[i]] \subseteq NamesOf(g)

(* f is above k in the stack: it does not complete what the structure      *)
(* waiting there mentions, and stays in the package scope once k is in it. *)
Over(f, k, p, g) ==
  /\ CompletesName(f) /\ k.op = "attach" => f.name \notin InUnder(p, k.name)
  /\ CompletesName(k) /\ k.name \in NamesOf(g) => Within(f, g)

(* A name of g that f completes is in no structure of another scope.       *)
Fits(f, w, g) ==
  /\ f.op = "attach" => Built(f.obj, f.name, w)
  /\ CompletesName(f) /\ f.name \in NamesOf(g) =>
       \A n \in Names \ NamesOf(g) : w.tab[n] # NoType => f.name \notin InUnder(w.prog, n)

Stacked(s, w, g) ==
  \A i \in 1..Len(s) : /\ Fits(s[i], w, g)
                       /\ \A j \in (i + 1)..Len(s) : Over(s[i], s[j], w.prog, g)

Structured(w) == \A n \in Names : w.tab[n] # NoType => Built(w.tab[n], n, w)

LEMMA StackedTail ==
  ASSUME NEW S, NEW s \in Seq(S), s # <<>>, NEW g, NEW w, Stacked(s, w, g)
  PROVE  /\ Stacked(Tail(s), w, g) /\ Fits(Head(s), w, g)
         /\ \A j \in 1..Len(Tail(s)) : Over(Head(s), Tail(s)[j], w.prog, g)
<1> DEFINE q == Tail(s)
           h == Head(s)
           n == Len(s)
<1>1. /\ n \in Nat \ {0} /\ h = s[1] /\ Len(q) = n - 1
      /\ \A i \in 1..Len(q) : q[i] = s[i + 1]
  BY TailFacts
<1>2. \A i \in 1..n : /\ Fits(s[i], w, g)
                      /\ \A j \in (i + 1)..n : Over(s[i], s[j], w.prog, g)
  BY DEF Stacked
<1> HIDE DEF q, h, n
<1>3. ASSUME NEW i \in 1..Len(q)
      PROVE  Fits(q[i], w, g) /\ \A j \in (i + 1)..Len(q) : Over(q[i], q[j], w.prog, g)
  <2>1. i + 1 \in 1..n /\ q[i] = s[i + 1]
    BY <1>1
  <2>2. \A j \in (i + 1)..Len(q) : j + 1 \in (i + 1 + 1)..n /\ q[j] = s[j + 1]
    BY <1>1
  <2>3. \A j \in (i + 1)..Len(q) : Over(s[i + 1], s[j + 1], w.prog, g)
    BY <1>2, <2>1, <2>2
  <2> QED  BY <1>2, <2>1, <2>2, <2>3
<1>4. Stacked(q, w, g)
  BY <1>3 DEF Stacked
<1>5. Fits(h, w, g) /\ \A j \in 1..Len(q) : Over(h, q[j], w.prog, g)
  <2>1. 1 \in 1..n /\ \A j \in 1..Len(q) : j + 1 \in (1 + 1)..n /\ q[j] = s[j + 1]
    BY <1>1
  <2> QED  BY <1>1, <1>2, <2>1
<1> QED  BY <1>4, <1>5 DEF q, h

LEMMA StackedCons ==
  ASSUME NEW S, NEW s \in Seq(S), NEW f \in S, NEW g, NEW w, Stacked(s, w, g), Fits(f, w, g),
         \A j \in 1..Len(s) : Over(f, s[j], w.prog, g)
  PROVE  Stacked(<<f>> \o s, w, g)
<1> DEFINE q == <<f>> \o s
           n == Len(s)
<1>1. /\ q \in Seq(S) /\ Len(q) = n + 1 /\ q[1] = f /\ n \in Nat
      /\ \A i \in 1..n : q[i + 1] = s[i]
  <2>1. n \in Nat
    OBVIOUS
  <2> QED  BY <2>1, ConsFacts
<1>2. \A i \in 1..n : /\ Fits(s[i], w, g)
                      /\ \A j \in (i + 1)..n : Over(s[i], s[j], w.prog, g)
  BY DEF Stacked
<1>3. \A j \in 1..n : Over(f, s[j], w.prog, g)
  OBVIOUS
<1> HIDE DEF q, n
<1>4. ASSUME NEW i \in 1..Len(q)
      PROVE  Fits(q[i], w, g) /\ \A j \in (i + 1)..Len(q) : Over(q[i], q[j], w.prog, g)
  <2>1. CASE i = 1
    <3>1. \A j \in (i + 1)..Len(q) : j - 1 \in 1..n /\ q[j] = s[j - 1]
      <4> SUFFICES ASSUME NEW j \in (i + 1)..Len(q)  PROVE j - 1 \in 1..n /\ q[j] = s[j - 1]
        OBVIOUS
      <4>1. j - 1 \in 1..n /\ (j - 1) + 1 = j
        BY <1>1, <2>1
      <4> QED  BY <1>1, <4>1
    <3>2. \A j \in (i + 1)..Len(q) : Over(f, q[j], w.prog, g)
      BY <1>3, <3>1
    <3> QED  BY <1>1, <2>1, <3>2
  <2>2. CASE i # 1
    <3> DEFINE k == i - 1
    <3>1. k \in 1..n /\ k + 1 = i
      BY <1>1, <2>2
    <3> HIDE DEF k
    <3>2. q[i] = s[k]
      BY <1>1, <3>1
    <3>3. \A j \in (i + 1)..Len(q) : j - 1 \in (k + 1)..n /\ q[j] = s[j - 1]
      <4> SUFFICES ASSUME NEW j \in (i + 1)..Len(q)
                   PROVE j - 1 \in (k + 1)..n /\ q[j] = s[j - 1]
        OBVIOUS
      <4>1. j - 1 \in (k + 1)..n /\ j - 1 \in 1..n /\ (j - 1) + 1 = j
        BY <1>1, <3>1
      <4> QED  BY <1>1, <4>1
    <3>4. \A j \in (i + 1)..Len(q) : Over(s[k], q[j], w.prog, g)
      BY <1>2, <3>1, <3>3
    <3> QED  BY <1>2, <3>1, <3>2, <3>4
  <2> QED  BY <2>1, <2>2
<1>5. Stacked(q, w, g)
  BY <1>4 DEF Stacked
<1> QED  BY <1>5 DEF q

(* Structures stay as they are while nothing they mention moves.           *)
LEMMA BuiltMoves ==
  ASSUME NEW w, NEW v, NEW X, Moves(w, v, X), NEW o \in ObjectsOf(w.heap), NEW n \in Names,
         ProgramOK(w.prog), v.heap[o].under = w.heap[o].under, X \cap InUnder(w.prog, n) = {},
         Built(o, n, w)
  PROVE  Built(o, n, v)
<1> DEFINE S == InUnder(w.prog, n)
<1>1. S \subseteq Names /\ InUnder(v.prog, n) = S
  BY MentionedNames DEF InUnder, ProgramOK, Moves
<1>2. Faithful(w.heap[o].under, S, w)
  BY DEF Built
<1> HIDE DEF S
<1>3. X \cap S = {}
  BY DEF S
<1>4. Faithful(w.heap[o].under, S, v)
  BY <1>1, <1>2, <1>3, FaithfulMoves
<1> QED  BY <1>1, <1>4 DEF Built

(* f takes the place of t at the top of the stack.                         *)
Follows(f, t, g) == /\ Within(t, g) => Within(f, g)
                    /\ CompletesName(f) => CompletesName(t) /\ f.name = t.name

LEMMA OverFollows ==
  ASSUME NEW f, NEW t, NEW g, Follows(f, t, g), NEW k, NEW p, Over(t, k, p, g)
  PROVE  Over(f, k, p, g)
BY DEF Over, Follows

StructInv(g) == /\ Structured(World) /\ Stacked(stack, World, g)
                /\ OnePackage(prog, g)

LEMMA StackedMoves ==
  ASSUME NEW w, NEW v, NEW X, Moves(w, v, X), NEW g, NEW s \in Seq(Frames(w.heap)),
         ProgramOK(w.prog), Stacked(s, w, g),
         \A i \in 1..Len(s) : s[i].op = "attach" =>
           /\ v.heap[s[i].obj].under = w.heap[s[i].obj].under
           /\ X \cap InUnder(w.prog, s[i].name) = {},
         \A i \in 1..Len(s) : CompletesName(s[i]) /\ s[i].name \in NamesOf(g) =>
           \A n \in Names \ NamesOf(g) :
             v.tab[n] # NoType => w.tab[n] # NoType \/ s[i].name \notin InUnder(w.prog, n)
  PROVE  Stacked(s, v, g)
<1> SUFFICES ASSUME NEW i \in 1..Len(s)
             PROVE  Fits(s[i], v, g) /\ \A j \in (i + 1)..Len(s) : Over(s[i], s[j], v.prog, g)
  BY DEF Stacked
<1>1. v.prog = w.prog
  BY DEF Moves
<1>2. Fits(s[i], w, g) /\ \A j \in (i + 1)..Len(s) : Over(s[i], s[j], w.prog, g)
  BY DEF Stacked
<1>3. s[i] \in Frames(w.heap)
  <2> DEFINE S == Frames(w.heap)
  <2>1. s \in Seq(S)
    OBVIOUS
  <2> HIDE DEF S
  <2>2. s[i] \in S
    BY <2>1
  <2> QED  BY <2>2 DEF S
<1>4. CompletesName(s[i]) /\ s[i].name \in NamesOf(g) =>
        \A n \in Names \ NamesOf(g) :
          v.tab[n] # NoType => w.tab[n] # NoType \/ s[i].name \notin InUnder(w.prog, n)
  OBVIOUS
<1>5. s[i].op = "attach" => /\ v.heap[s[i].obj].under = w.heap[s[i].obj].under
                            /\ X \cap InUnder(w.prog, s[i].name) = {}
  OBVIOUS
<1> DEFINE f == s[i]
<1>6. f.op = "attach" => f.obj \in ObjectsOf(w.heap) /\ f.name \in Names
  BY <1>3 DEF Frames
<1>7. ASSUME f.op = "attach"  PROVE Built(f.obj, f.name, v)
  <2> DEFINE o == f.obj
             n == f.name
  <2>1. /\ o \in ObjectsOf(w.heap) /\ n \in Names /\ v.heap[o].under = w.heap[o].under
        /\ X \cap InUnder(w.prog, n) = {} /\ Built(o, n, w)
    BY <1>2, <1>5, <1>6, <1>7 DEF Fits
  <2> HIDE DEF o, n
  <2>2. Built(o, n, v)
    BY <2>1, BuiltMoves
  <2> QED  BY <2>2 DEF o, n
<1> HIDE DEF f
<1>8. Fits(f, v, g)
  BY <1>1, <1>2, <1>4, <1>7 DEF Fits, f
<1> QED  BY <1>1, <1>2, <1>8 DEF f

LEMMA StructuredMoves ==
  ASSUME NEW w, NEW v, NEW X, Moves(w, v, X), ProgramOK(w.prog), TablesOK(w), Structured(w),
         \A o \in ObjectsOf(w.heap) : v.heap[o].under = w.heap[o].under,
         v.tab = w.tab, \A n \in Names : w.tab[n] # NoType => X \cap InUnder(w.prog, n) = {}
  PROVE  Structured(v)
<1> SUFFICES ASSUME NEW n \in Names, v.tab[n] # NoType  PROVE Built(v.tab[n], n, v)
  BY DEF Structured
<1> DEFINE o == w.tab[n]
<1>1. o \in ObjectsOf(w.heap) /\ Built(o, n, w) /\ X \cap InUnder(w.prog, n) = {}
  BY DEF TablesOK, Structured
<1> HIDE DEF o
<1>2. Built(o, n, v)
  BY <1>1, BuiltMoves
<1> QED  BY <1>2 DEF o

(* Stacks: the top answers, or becomes k, or k calls f.                    *)
LEMMA StackedPushes ==
  ASSUME NEW S, NEW s \in Seq(S), NEW f \in S, NEW k \in S, NEW g, NEW v, Stacked(s, v, g),
         Fits(k, v, g), \A j \in 1..Len(s) : Over(k, s[j], v.prog, g)
  PROVE  /\ Stacked(<<k>> \o s, v, g)
         /\ ~CompletesName(f) /\ Over(f, k, v.prog, g) /\ (\A j \in 1..Len(s) : Over(f, s[j], v.prog, g))
              => Stacked(<<f, k>> \o s, v, g)
<1> DEFINE q == <<k>> \o s
<1>1. q \in Seq(S) /\ Len(q) = Len(s) + 1 /\ q[1] = k /\ \A i \in 1..Len(s) : q[i + 1] = s[i]
  BY ConsFacts
<1>2. Stacked(q, v, g)
  BY StackedCons
<1>3. Len(s) \in Nat
  OBVIOUS
<1> HIDE DEF q
<1>4. ASSUME ~CompletesName(f), Over(f, k, v.prog, g), \A j \in 1..Len(s) : Over(f, s[j], v.prog, g)
      PROVE  Stacked(<<f, k>> \o s, v, g)
  <2>1. \A j \in 1..Len(q) : Over(f, q[j], v.prog, g)
    <3> SUFFICES ASSUME NEW j \in 1..Len(q)  PROVE Over(f, q[j], v.prog, g)
      OBVIOUS
    <3>1. CASE j = 1
      BY <1>1, <1>4, <3>1
    <3>2. CASE j # 1
      <4>1. j - 1 \in 1..Len(s) /\ (j - 1) + 1 = j
        BY <1>1, <1>3, <3>2
      <4>2. q[j] = s[j - 1]
        BY <1>1, <4>1
      <4> QED  BY <1>4, <4>1, <4>2
    <3> QED  BY <3>1, <3>2
  <2>2. Fits(f, v, g)
    BY <1>4 DEF Fits, CompletesName
  <2>3. Stacked(<<f>> \o q, v, g)
    BY <1>1, <1>2, <2>1, <2>2, StackedCons
  <2>4. <<f, k>> \o s = <<f>> \o q
    BY ConsTwice DEF q
  <2> QED  BY <2>3, <2>4
<1> QED  BY <1>2, <1>4 DEF q

LEMMA StructParts ==
  ASSUME TypeOK, ConvInv, NEW g, StructInv(g), stack # <<>>, NEW w, w = World
  PROVE  /\ Structured(w) /\ Stacked(Rest, w, g) /\ Fits(Top, w, g) /\ OnePackage(w.prog, g)
         /\ \A j \in 1..Len(Rest) : Over(Top, Rest[j], w.prog, g)
         /\ Rest \in Seq(Frames(w.heap))
<1>1. stack \in Seq(Frames(heap)) /\ w.prog = prog /\ Rest \in Seq(Frames(w.heap))
  BY TopFacts DEF TypeOK, World
<1>2. Stacked(stack, w, g)
  BY DEF StructInv
<1> DEFINE S == Frames(heap)
<1>3. stack \in Seq(S)
  BY <1>1
<1> HIDE DEF S
<1>4. /\ Stacked(Tail(stack), w, g) /\ Fits(Head(stack), w, g)
      /\ \A j \in 1..Len(Tail(stack)) : Over(Head(stack), Tail(stack)[j], w.prog, g)
  BY <1>2, <1>3, StackedTail
<1> QED  BY <1>1, <1>4 DEF StructInv, Top, Rest

LEMMA StructNext ==
  ASSUME NEW g, StructInv(g), prog' = prog, NEW v, v = NextWorld, Structured(v), Stacked(stack', v, g)
  PROVE  StructInv(g)'
<1>1. World' = v
  BY DEF World, NextWorld
<1>2. Structured(World)' /\ Stacked(stack, World, g)'
  BY <1>1
<1> QED  BY <1>2 DEF StructInv

(* The steps that give no name an entry or a type.                         *)
LEMMA StillStep ==
  ASSUME TypeOK, ConvInv, NEW g, StructInv(g), stack # <<>>,
         prog' = prog, resolved' = resolved, placeholder' = placeholder, Grows(heap, heap'),
         \A o \in ObjectsOf(heap) : heap'[o].under = heap[o].under,
         NEW v, v = NextWorld,
         NEW f \in Frames(heap'), NEW k \in Frames(heap'), Follows(k, Top, g),
         k.op = "attach" => Built(k.obj, k.name, v),
         Follows(f, Top, g), ~CompletesName(f), Over(f, k, prog, g),
         stack' \in {Rest, <<k>> \o Rest, <<f, k>> \o Rest}
  PROVE  StructInv(g)'
<1> DEFINE w == World
           s == Rest
           S == Frames(heap')
<1>1. /\ Structured(w) /\ Stacked(s, w, g) /\ Fits(Top, w, g)
      /\ \A j \in 1..Len(s) : Over(Top, s[j], w.prog, g)
      /\ s \in Seq(Frames(w.heap))
  BY StructParts
<1>2. ProgramOK(w.prog) /\ TablesOK(w) /\ w.heap = heap /\ w.tab = resolved /\ w.prog = prog
  BY TopParts
<1>3. Moves(w, v, {}) /\ v.heap = heap' /\ v.tab = w.tab /\ v.prog = w.prog
  BY GrownWorld DEF NextWorld, World
<1>4. s \in Seq(S)
  BY TopFacts, GrowFacts
<1>5. \A i \in 1..Len(s) : s[i].op = "attach" => s[i].obj \in ObjectsOf(w.heap)
  <2> DEFINE T == Frames(w.heap)
  <2>1. s \in Seq(T)
    BY <1>1
  <2>2. \A x \in T : x.op = "attach" => x.obj \in ObjectsOf(w.heap)
    BY DEF Frames
  <2> HIDE DEF T, s
  <2>3. \A i \in 1..Len(s) : s[i] \in T
    BY <2>1
  <2> QED  BY <2>2, <2>3
<1> HIDE DEF w, s, S
<1>6. Structured(v)
  BY <1>1, <1>2, <1>3, StructuredMoves
<1>7. Stacked(s, v, g)
  <2>1. \A i \in 1..Len(s) : s[i].op = "attach" =>
          /\ v.heap[s[i].obj].under = w.heap[s[i].obj].under
          /\ {} \cap InUnder(w.prog, s[i].name) = {}
    BY <1>2, <1>3, <1>5
  <2>2. \A i \in 1..Len(s) : CompletesName(s[i]) /\ s[i].name \in NamesOf(g) =>
          \A n \in Names \ NamesOf(g) :
            v.tab[n] # NoType => w.tab[n] # NoType \/ s[i].name \notin InUnder(w.prog, n)
    BY <1>3
  <2> QED  BY <1>1, <1>2, <1>3, <2>1, <2>2, StackedMoves
<1>8. \A j \in 1..Len(s) : Over(k, s[j], v.prog, g) /\ Over(f, s[j], v.prog, g)
  BY <1>1, <1>3, OverFollows
<1>9. Fits(k, v, g)
  BY <1>1, <1>3 DEF Fits, Follows
<1>10. f \in S /\ k \in S /\ Over(f, k, v.prog, g)
  BY <1>2, <1>3 DEF S
<1>11. Stacked(<<k>> \o s, v, g) /\ Stacked(<<f, k>> \o s, v, g)
  BY <1>4, <1>7, <1>8, <1>9, <1>10, StackedPushes
<1>12. Stacked(stack', v, g)
  BY <1>7, <1>11 DEF s
<1> QED  BY <1>6, <1>12, StructNext

LEMMA SameUnders ==
  ASSUME TypeOK
  PROVE  Grows(heap, heap) /\ \A o \in ObjectsOf(heap) : heap[o].under = heap[o].under
BY SameHeapGrows

(* The types of a composite one are within the scope it is within.         *)
LEMMA ElemsWithin ==
  ASSUME NEW t \in Types, t \notin ProvidedTypes, t.kind # "named",
         NEW g, Mentioned[t] \subseteq NamesOf(g)
  PROVE  \A i \in 1..Len(t.elems) : Mentioned[t.elems[i]] \subseteq NamesOf(g)
<1>1. Mentioned[t] = UNION {Mentioned[t.elems[i]] : i \in DOMAIN t.elems}
  BY MentionedDef DEF MentionsOf
<1>2. DOMAIN t.elems = 1..Len(t.elems)
  BY TypesAssumption
<1> QED  BY <1>1, <1>2

LEMMA ReturnsStill ==
  ASSUME TypeOK, ConvInv, NEW g, StructInv(g),
         \/ ToTypeProvided \/ ToTypeBasic \/ ToTypeInvalid \/ ElemErr
         \/ CompositeBuilt \/ StructDone \/ SetMethodSet
         \/ (\E n \in Names : NameProvided(n) \/ NameFound(n))
         \/ NamedErr \/ RangeDone
  PROVE  StructInv(g)'
<1> DEFINE v == NextWorld
           T == CHOOSE t : t \in Types
           f == Updater(1, <<>>)
<1>1. /\ stack # <<>> /\ stack' = Rest
      /\ prog' = prog /\ placeholder' = placeholder /\ resolved' = resolved
      /\ SetMethodSet \/ heap' = heap
  BY DEF ToTypeProvided, ToTypeBasic, ToTypeInvalid, ElemErr, CompositeBuilt, StructDone,
     SetMethodSet, NameProvided, NameFound, NamedErr, RangeDone, Converting, Naming, Entering,
     Running, Return
<1>2. Grows(heap, heap') /\ \A o \in ObjectsOf(heap) : heap'[o].under = heap[o].under
  BY <1>1, MethodsSet, SameUnders
<1> HIDE DEF v, f
<1> DEFINE w == World
<1>3. /\ Structured(w) /\ Stacked(Rest, w, g) /\ Rest \in Seq(Frames(w.heap))
  BY <1>1, StructParts
<1>4. ProgramOK(w.prog) /\ TablesOK(w) /\ w.heap = heap
  BY <1>1, TopParts
<1>5. Moves(w, v, {}) /\ v.heap = heap' /\ v.tab = w.tab
  BY <1>1, <1>2, GrownWorld DEF NextWorld, World, v
<1>6. \A i \in 1..Len(Rest) : Rest[i].op = "attach" => Rest[i].obj \in ObjectsOf(w.heap)
  <2> DEFINE S == Frames(w.heap)
             s == Rest
  <2>1. s \in Seq(S)
    BY <1>3
  <2>2. \A x \in S : x.op = "attach" => x.obj \in ObjectsOf(w.heap)
    BY DEF Frames
  <2> HIDE DEF S, s
  <2>3. \A i \in 1..Len(s) : s[i] \in S
    BY <2>1
  <2>4. \A i \in 1..Len(s) : s[i].op = "attach" => s[i].obj \in ObjectsOf(w.heap)
    BY <2>2, <2>3
  <2> QED  BY <2>4 DEF s
<1> HIDE DEF w
<1>7. Structured(v)
  BY <1>2, <1>3, <1>4, <1>5, StructuredMoves
<1> DEFINE s == Rest
<1>8. Stacked(s, v, g)
  <2>1. \A i \in 1..Len(s) : s[i].op = "attach" =>
          /\ v.heap[s[i].obj].under = w.heap[s[i].obj].under
          /\ {} \cap InUnder(w.prog, s[i].name) = {}
    BY <1>2, <1>4, <1>5, <1>6
  <2>2. \A i \in 1..Len(s) : CompletesName(s[i]) /\ s[i].name \in NamesOf(g) =>
          \A n \in Names \ NamesOf(g) :
            v.tab[n] # NoType => w.tab[n] # NoType \/ s[i].name \notin InUnder(w.prog, n)
    BY <1>5
  <2>3. s \in Seq(Frames(w.heap)) /\ Stacked(s, w, g)
    BY <1>3
  <2> HIDE DEF s
  <2> QED  BY <1>4, <1>5, <2>1, <2>2, <2>3, StackedMoves
<1>9. v = NextWorld
  BY DEF v
<1> QED  BY <1>1, <1>7, <1>8, <1>9, StructNext

LEMMA CompositeStill ==
  ASSUME TypeOK, ConvInv, NEW g, StructInv(g), ToTypeComposite
  PROVE  StructInv(g)'
<1> DEFINE v == NextWorld
           k == Elems(Top.typ)
<1>1. /\ stack # <<>> /\ Top.op = "ToType" /\ heap' = heap
      /\ prog' = prog /\ resolved' = resolved /\ placeholder' = placeholder
      /\ Top.typ \notin ProvidedTypes /\ Top.typ.kind \in {"composite", "interface", "embedding"}
      /\ stack' = <<k>> \o Rest
  BY DEF ToTypeComposite, Entering, Running, Push
<1>2. Top.typ \in Types
  BY <1>1, TopFields
<1>3. k \in Frames(heap')
  <2>1. {} \in SUBSET ObjectsOf(heap)
    OBVIOUS
  <2> QED  BY <1>1, <1>2, <2>1, FrameTypes
<1>4. k.op = "elems" /\ k.typ = Top.typ
  BY DEF Elems, Frame
<1>5. Grows(heap, heap') /\ \A o \in ObjectsOf(heap) : heap'[o].under = heap[o].under
  BY <1>1, SameUnders
<1> HIDE DEF k, v
<1>6. Follows(k, Top, g) /\ ~CompletesName(k) /\ k.op # "attach"
  BY <1>1, <1>4 DEF Follows, Within, CompletesName, OfType
<1>7. Over(k, k, prog, g)
  BY <1>6 DEF Over
<1>8. v = NextWorld
  BY DEF v
<1>9. stack' \in {Rest, <<k>> \o Rest, <<k, k>> \o Rest}
  BY <1>1
<1> QED  BY <1>1, <1>3, <1>5, <1>6, <1>7, <1>8, <1>9, StillStep

LEMMA NextElemStill ==
  ASSUME TypeOK, ConvInv, NEW g, StructInv(g), NextElem
  PROVE  StructInv(g)'
<1> DEFINE w == World
           v == NextWorld
           t == Top.list[Top.done + 1]
           f == CallToType(t)
           k == [Top EXCEPT !.done = Top.done + 1]
<1>1. /\ stack # <<>> /\ Top.op \in {"elems", "fn"} /\ heap' = heap
      /\ prog' = prog /\ resolved' = resolved /\ placeholder' = placeholder
      /\ stack' = <<f, k>> \o Rest /\ Top.done # Len(Top.list)
  BY DEF NextElem, Converting, Running, Push, AllTaken
<1>2. /\ FrameOK(Top, w) /\ Top \in Frames(heap)
      /\ Top.list \in Seq(Types) /\ Top.done \in 0..Len(Top.list)
  BY <1>1, TopParts DEF FrameOK
<1>4. t \in Types /\ Top.done + 1 \in 1..Len(Top.list)
  <2> DEFINE list == Top.list
             n == Top.done
  <2>1. list \in Seq(Types) /\ n \in 0..Len(list) /\ n # Len(list)
    BY <1>1, <1>2
  <2> HIDE DEF list, n
  <2>2. n + 1 \in 1..Len(list) /\ list[n + 1] \in Types
    BY <2>1
  <2> QED  BY <2>2 DEF list, n
<1>5. k \in Frames(heap) /\ f \in Frames(heap)
  <2>1. {} \in SUBSET ObjectsOf(heap)
    OBVIOUS
  <2>2. k \in Frames(heap)
    BY <1>1, <1>4, TopChanged
  <2> QED  BY <1>4, <2>1, <2>2, FrameTypes
<1>6. Alike(k, Top)
  <2> DEFINE x == Top.done + 1
             y == Top
  <2>1. y \in Frames(heap)
    BY <1>2
  <2> HIDE DEF x, y
  <2>2. LET z == [y EXCEPT !.done = x] IN Alike(z, y)
    BY <2>1, FieldsOfExcept
  <2> QED  BY <2>2 DEF x, y
<1>7. f.op = "ToType" /\ f.typ = t
  BY DEF CallToType, Frame
<1>8. ASSUME Within(Top, g)  PROVE Mentioned[t] \subseteq NamesOf(g)
  <2> DEFINE list == Top.list
             n == Top.done + 1
  <2>1. CASE Top.op = "fn"
    <3>1. \A i \in 1..Len(list) : Mentioned[list[i]] \subseteq NamesOf(g)
      BY <1>8, <2>1 DEF Within
    <3>2. n \in 1..Len(list) /\ t = list[n]
      BY <1>4
    <3> HIDE DEF list, n, t
    <3> QED  BY <3>1, <3>2
  <2>2. CASE Top.op = "elems"
    <3>1. /\ Top.typ \in Types /\ Top.typ \notin ProvidedTypes /\ Top.typ.kind # "named"
          /\ list = Top.typ.elems /\ Mentioned[Top.typ] \subseteq NamesOf(g)
      BY <1>2, <1>8, <2>2 DEF FrameOK, Within, OfType
    <3>2. n \in 1..Len(list) /\ t = list[n]
      BY <1>4
    <3> HIDE DEF list, n, t
    <3>3. \A i \in 1..Len(list) : Mentioned[list[i]] \subseteq NamesOf(g)
      BY <3>1, ElemsWithin
    <3> QED  BY <3>2, <3>3
  <2> QED  BY <1>1, <2>1, <2>2
<1>9. Grows(heap, heap') /\ \A o \in ObjectsOf(heap) : heap'[o].under = heap[o].under
  BY <1>1, SameUnders
<1>10. v = NextWorld
  OBVIOUS
<1> HIDE DEF f, k, v, t, w
<1>11. Follows(k, Top, g) /\ ~CompletesName(k) /\ k.op # "attach"
  BY <1>1, <1>6 DEF Follows, Within, CompletesName, OfType, Alike
<1>12. Follows(f, Top, g) /\ ~CompletesName(f)
  BY <1>7, <1>8 DEF Follows, Within, CompletesName, OfType
<1>13. Over(f, k, prog, g)
  BY <1>11, <1>12 DEF Over
<1>14. stack' \in {Rest, <<k>> \o Rest, <<f, k>> \o Rest}
  BY <1>1
<1> QED  BY <1>1, <1>5, <1>9, <1>10, <1>11, <1>12, <1>13, <1>14, StillStep

LEMMA ElemOkStill ==
  ASSUME TypeOK, ConvInv, NEW g, StructInv(g), ElemOk
  PROVE  StructInv(g)'
<1> DEFINE v == NextWorld
           refs == Top.refs \cup ret.refs
           k == [Top EXCEPT !.refs = refs]
<1>1. /\ stack # <<>> /\ Top.op \in {"elems", "fn"} /\ heap' = heap
      /\ prog' = prog /\ resolved' = resolved /\ placeholder' = placeholder
      /\ stack' = <<k>> \o Rest
  BY DEF ElemOk, Converting, Running, Push
<1>2. Top \in Frames(heap)
  BY <1>1, TopFacts
<1>3. Alike(k, Top)
  <2> DEFINE x == refs
             y == Top
  <2>1. y \in Frames(heap)
    BY <1>2
  <2> HIDE DEF x, y
  <2>2. LET z == [y EXCEPT !.refs = x] IN Alike(z, y)
    BY <2>1, FieldsOfExcept
  <2> QED  BY <2>2 DEF x, y
<1>4. k \in Frames(heap)
  <2>1. refs \in SUBSET ObjectsOf(heap)
    BY <1>1, RetRefs, TopFields
  <2> HIDE DEF refs
  <2> QED  BY <1>1, <2>1, TopChanged
<1>5. Grows(heap, heap') /\ \A o \in ObjectsOf(heap) : heap'[o].under = heap[o].under
  BY <1>1, SameUnders
<1>6. v = NextWorld
  OBVIOUS
<1> HIDE DEF k, v, refs
<1>7. Follows(k, Top, g) /\ ~CompletesName(k) /\ k.op # "attach"
  BY <1>1, <1>3 DEF Follows, Within, CompletesName, OfType, Alike
<1>8. Over(k, k, prog, g)
  BY <1>7 DEF Over
<1>9. stack' \in {Rest, <<k>> \o Rest, <<k, k>> \o Rest}
  BY <1>1
<1> QED  BY <1>1, <1>4, <1>5, <1>6, <1>7, <1>8, <1>9, StillStep

(* An update function converts method signatures: they are within the      *)
(* package scope.                                                          *)
LEMMA MethodsWithin ==
  ASSUME NEW g, NEW f, f.op = "fn", NEW p, OnePackage(p, g), ProgramOK(p),
         \/ \E n \in Names : f.list = p.decl[n].methods
         \/ \E t \in Types : f.list = p.promoted[t]
  PROVE  Within(f, g) /\ ~CompletesName(f)
<1>1. f.list \in Seq(Types)
  BY DEF ProgramOK
<1>2. DOMAIN f.list = 1..Len(f.list)
  BY <1>1
<1>3. \A i \in 1..Len(f.list) : Mentioned[f.list[i]] \subseteq NamesOf(g)
  BY <1>2 DEF OnePackage
<1> QED  BY <1>3 DEF Within, OfType, CompletesName

LEMMA EmbeddingStill ==
  ASSUME TypeOK, ConvInv, NEW g, StructInv(g), StructWithMethods
  PROVE  StructInv(g)'
<1> DEFINE v == NextWorld
           sigs == prog.promoted[Top.typ]
           f == Updater(Fresh, sigs)
           k == Embedded(Top.typ, Fresh, Top.refs)
<1>1. /\ stack # <<>> /\ Top.op = "elems"
      /\ prog' = prog /\ resolved' = resolved /\ placeholder' = placeholder
      /\ heap' = Append(heap, Object(NoType, Top.refs)) /\ heap \in Seq(HeapObjects(heap))
      /\ stack' = <<f, k>> \o Rest
  BY DEF StructWithMethods, Running, Push, TypeOK
<1>3. Top.refs \in SUBSET ObjectsOf(heap) /\ Top.typ \in Types /\ sigs \in Seq(Types)
  BY <1>1, TopFields DEF TypeOK
<1>4. /\ Grows(heap, heap') /\ Fresh \in ObjectsOf(heap')
      /\ \A o \in ObjectsOf(heap) : heap'[o].under = heap[o].under
  <2> DEFINE u == Top.refs
             h == heap'
             n == NoType
  <2>1. /\ u \in SUBSET ObjectsOf(heap) /\ n \in Names \cup {NoType} /\ h = Append(heap, Object(n, u))
        /\ heap \in Seq(HeapObjects(heap))
    BY <1>1, <1>3
  <2> HIDE DEF u, h, n
  <2>2. Extended(heap, n, u, h)
    BY <2>1, AppendedUnders
  <2> QED  BY <2>2 DEF Extended, Fresh, h
<1>6. f \in Frames(heap') /\ k \in Frames(heap')
  <2>1. Top.refs \in SUBSET ObjectsOf(heap')
    BY <1>3, <1>4, GrowFacts
  <2> QED  BY <1>3, <1>4, <2>1, FrameTypes
<1>7. f.op = "fn" /\ f.list = sigs
  BY DEF Updater, Frame
<1>8. k.op = "embedded" /\ k.typ = Top.typ
  BY DEF Embedded, Frame
<1>9. v = NextWorld /\ sigs = prog.promoted[Top.typ]
  OBVIOUS
<1> HIDE DEF f, k, v, sigs
<1>10. OnePackage(prog, g) /\ ProgramOK(prog)
  BY <1>1, TopParts DEF StructInv
<1>11. Within(f, g) /\ ~CompletesName(f)
  BY <1>3, <1>7, <1>9, <1>10, MethodsWithin
<1>12. Follows(k, Top, g) /\ ~CompletesName(k) /\ k.op # "attach"
  BY <1>1, <1>8 DEF Follows, Within, CompletesName, OfType
<1>13. Follows(f, Top, g) /\ Over(f, k, prog, g)
  BY <1>11, <1>12 DEF Over, Follows
<1>14. stack' \in {Rest, <<k>> \o Rest, <<f, k>> \o Rest}
  BY <1>1
<1> QED  BY <1>1, <1>4, <1>6, <1>9, <1>11, <1>12, <1>13, <1>14, StillStep

LEMMA RangeNextStill ==
  ASSUME TypeOK, ConvInv, NEW g, StructInv(g), NEW o \in ntype, RangeNext(o)
  PROVE  StructInv(g)'
<1> DEFINE v == NextWorld
           n == heap[o].name
           sigs == Decl[n].methods
           f == Updater(o, sigs)
           seen == Top.seen \cup {o}
           k == [Top EXCEPT !.seen = seen]
<1>1. /\ stack # <<>> /\ Top.op = "range" /\ heap' = heap
      /\ prog' = prog /\ resolved' = resolved /\ placeholder' = placeholder
      /\ stack' = <<f, k>> \o Rest
  BY DEF RangeNext, Running, Push
<1>2. Top \in Frames(heap)
  BY <1>1, TopFacts
<1>3. Alike(k, Top)
  <2> DEFINE x == seen
             y == Top
  <2>1. y \in Frames(heap)
    BY <1>2
  <2> HIDE DEF x, y
  <2>2. LET z == [y EXCEPT !.seen = x] IN Alike(z, y)
    BY <2>1, FieldsOfExcept
  <2> QED  BY <2>2 DEF x, y
<1>4. o \in ObjectsOf(heap) /\ n \in Names /\ sigs \in Seq(Types) /\ sigs = prog.decl[n].methods
  BY DEF TypeOK, Decl
<1>5. k \in Frames(heap) /\ f \in Frames(heap)
  <2>1. {} \in SUBSET ObjectsOf(heap)
    OBVIOUS
  <2>2. seen \in SUBSET ObjectsOf(heap)
    BY <1>1, <1>4, TopFields
  <2> HIDE DEF seen, sigs
  <2>3. k \in Frames(heap)
    BY <1>1, <2>2, TopChanged
  <2> QED  BY <1>4, <2>1, <2>3, FrameTypes
<1>6. f.op = "fn" /\ f.list = sigs
  BY DEF Updater, Frame
<1>7. Grows(heap, heap') /\ \A x \in ObjectsOf(heap) : heap'[x].under = heap[x].under
  BY <1>1, SameUnders
<1>8. v = NextWorld
  OBVIOUS
<1> HIDE DEF f, k, v, sigs, n
<1>9. OnePackage(prog, g) /\ ProgramOK(prog)
  BY <1>1, TopParts DEF StructInv
<1>10. Within(f, g) /\ ~CompletesName(f)
  BY <1>4, <1>6, <1>9, MethodsWithin
<1>11. Follows(k, Top, g) /\ ~CompletesName(k) /\ k.op # "attach"
  BY <1>1, <1>3 DEF Follows, Within, CompletesName, OfType, Alike
<1>12. Follows(f, Top, g) /\ Over(f, k, prog, g)
  BY <1>10, <1>11 DEF Over, Follows
<1>13. stack' \in {Rest, <<k>> \o Rest, <<f, k>> \o Rest}
  BY <1>1
<1> QED  BY <1>1, <1>5, <1>7, <1>8, <1>10, <1>11, <1>12, <1>13, StillStep

LEMMA MethodsStill ==
  ASSUME TypeOK, ConvInv, NEW g, StructInv(g), NamedWithMethods
  PROVE  StructInv(g)'
<1> DEFINE w == World
           v == NextWorld
           n == Top.name
           sigs == Decl[n].methods
           o == Fresh
           f == Updater(o, sigs)
           k == Attach(n, o)
           u == ret.refs
<1>1. /\ stack # <<>> /\ Top.op = "named" /\ ret.status = "ok"
      /\ prog' = prog /\ resolved' = resolved /\ placeholder' = placeholder
      /\ heap' = Append(heap, Object(n, u)) /\ heap \in Seq(HeapObjects(heap))
      /\ stack' = <<f, k>> \o Rest
  BY DEF NamedWithMethods, Running, Push, TypeOK
<1>2. FrameOK(Top, w) /\ Has(Top, w, ret) /\ w.prog = prog /\ w.heap = heap
  BY <1>1, TopParts
<1>3. n \in Names /\ u \in SUBSET ObjectsOf(heap) /\ sigs \in Seq(Types)
      /\ sigs = prog.decl[n].methods
  BY <1>1, <1>2 DEF TypeOK, Decl, FrameOK
<1>4. /\ Grows(heap, heap') /\ o \in ObjectsOf(heap') /\ heap'[o].name = n
      /\ heap'[o].under = u /\ \A x \in ObjectsOf(heap) : heap'[x].under = heap[x].under
  <2> DEFINE h == heap'
  <2>1. /\ u \in SUBSET ObjectsOf(heap) /\ n \in Names \cup {NoType} /\ h = Append(heap, Object(n, u))
        /\ heap \in Seq(HeapObjects(heap))
    BY <1>1, <1>3
  <2> HIDE DEF u, h, n
  <2>2. Extended(heap, n, u, h)
    BY <2>1, AppendedUnders
  <2> QED  BY <2>2 DEF Extended, Fresh, h
<1>6. f \in Frames(heap') /\ k \in Frames(heap')
  <2>1. {} \in SUBSET ObjectsOf(heap')
    OBVIOUS
  <2> HIDE DEF sigs, o
  <2> QED  BY <1>3, <1>4, <2>1, FrameTypes
<1>7. f.op = "fn" /\ f.list = sigs
  BY DEF Updater, Frame
<1>8. k.op = "attach" /\ k.name = n /\ k.obj = o
  BY DEF Attach, Frame
<1>9. Moves(w, v, {}) /\ v.heap = heap' /\ v.prog = prog
  BY <1>1, <1>4, GrownWorld DEF NextWorld, World
<1>0. v = NextWorld /\ n = Top.name
  OBVIOUS
<1>10. Right(ret, w.prog.decl[n].under, w)
  BY <1>1, <1>2 DEF Has, AskedType, IsLoop
<1>11. Built(o, n, v)
  <2> DEFINE S == InUnder(w.prog, n)
  <2>1. S \subseteq Names
    BY <1>2, <1>3, MentionedNames DEF InUnder, TypeOK
  <2>2. Faithful(u, S, w)
    BY <1>1, <1>10 DEF Right, InUnder
  <2> HIDE DEF S, u, v, w, n, o
  <2>3. Faithful(u, S, v)
    BY <1>9, <2>1, <2>2, FaithfulMoves
  <2> QED  BY <1>2, <1>4, <1>9, <2>3 DEF Built, S
<1> HIDE DEF f, k, v, sigs, n, o, u, w
<1>12. OnePackage(prog, g) /\ ProgramOK(prog)
  BY <1>1, TopParts DEF StructInv
<1>13. Within(f, g) /\ ~CompletesName(f)
  BY <1>3, <1>7, <1>12, MethodsWithin
<1>14. Follows(k, Top, g) /\ Built(k.obj, k.name, v)
  BY <1>0, <1>1, <1>8, <1>11 DEF Follows, Within, CompletesName, OfType
<1>15. Follows(f, Top, g) /\ Over(f, k, prog, g)
  BY <1>13 DEF Over, Follows
<1>16. stack' \in {Rest, <<k>> \o Rest, <<f, k>> \o Rest}
  BY <1>1
<1> QED  BY <1>0, <1>1, <1>4, <1>6, <1>13, <1>14, <1>15, <1>16, StillStep

(* A structure mentions no name without an entry.                          *)
LEMMA UnmetFree ==
  ASSUME NEW w, NEW n, ImageIn(w, n) = NoType, NEW o, NEW m, Built(o, m, w)
  PROVE  n \notin InUnder(w.prog, m)
<1>1. NoType \notin ObjectsOf(w.heap)
  BY TypesAssumption DEF ObjectsOf
<1> QED  BY <1>1 DEF Built, Faithful

LEMMA NewStill ==
  ASSUME TypeOK, OncePerName, ConvInv, NEW g, StructInv(g), NEW n \in Names, NameNew(n)
  PROVE  StructInv(g)'
<1> DEFINE w == World
           v == NextWorld
           s == Rest
           t == Decl[n].under
           f == CallToType(t)
           k == NamedFrame(n)
           X == {n}
           S == Frames(v.heap)
<1>1. /\ stack # <<>> /\ Top.op = "ToType" /\ prog' = prog
      /\ Top.typ \notin ProvidedTypes /\ Top.typ.kind = "named" /\ Top.typ.name = n
      /\ n \notin Provided /\ stack' = <<f, k>> \o s
  BY DEF NameNew, Naming, Entering, Running, Push
<1>2. /\ Structured(w) /\ Stacked(s, w, g) /\ OnePackage(w.prog, g)
      /\ \A j \in 1..Len(s) : Over(Top, s[j], w.prog, g)
      /\ s \in Seq(Frames(w.heap))
  BY <1>1, StructParts
<1>3. ProgramOK(w.prog) /\ TablesOK(w) /\ FrameOK(Top, w) /\ w.heap = heap /\ w.prog = prog
  BY <1>1, TopParts
<1>4. Entered(n, w, v)
  BY NewWorld
<1>5. v.heap = heap' /\ v.prog = prog /\ t = w.prog.decl[n].under /\ v = NextWorld
  BY <1>1, <1>3 DEF NextWorld, Decl
<1>6. t \in Types
  BY <1>3, <1>5 DEF ProgramOK
<1>7. Mentioned[Top.typ] = {n}
  <2>1. Top.typ \in Types
    BY <1>1, <1>3 DEF FrameOK, OfType
  <2> QED  BY <1>1, <2>1, MentionedDef DEF MentionsOf
<1>8. k.op = "named" /\ k.name = n /\ f.op = "ToType" /\ f.typ = t
  BY DEF NamedFrame, CallToType, Frame
<1> HIDE DEF w, v
<1>9. /\ Moves(w, v, X) /\ ImageIn(w, n) = NoType /\ v.tab = w.tab /\ Grows(w.heap, v.heap)
      /\ \A o \in ObjectsOf(w.heap) : v.heap[o].under = w.heap[o].under
  BY <1>4 DEF Entered, Extended
<1>10. s \in Seq(S) /\ f \in S /\ k \in S
  <2>1. {} \in SUBSET ObjectsOf(v.heap)
    OBVIOUS
  <2>2. s \in Seq(S)
    BY <1>2, <1>9, GrowFacts
  <2> HIDE DEF t
  <2> QED  BY <1>6, <2>1, <2>2, FrameTypes
<1>11. \A m \in Names : w.tab[m] # NoType => n \notin InUnder(w.prog, m)
  <2> SUFFICES ASSUME NEW m \in Names, w.tab[m] # NoType  PROVE n \notin InUnder(w.prog, m)
    OBVIOUS
  <2> DEFINE o == w.tab[m]
  <2>1. Built(o, m, w)
    BY <1>2 DEF Structured
  <2> HIDE DEF o
  <2> QED  BY <1>9, <2>1, UnmetFree
<1>12. \A i \in 1..Len(s) : s[i].op = "attach" =>
         n \notin InUnder(w.prog, s[i].name) /\ s[i].obj \in ObjectsOf(w.heap)
  <2> SUFFICES ASSUME NEW i \in 1..Len(s), s[i].op = "attach"
               PROVE  n \notin InUnder(w.prog, s[i].name) /\ s[i].obj \in ObjectsOf(w.heap)
    OBVIOUS
  <2> DEFINE o == s[i].obj
             m == s[i].name
             T == Frames(w.heap)
  <2>1. Built(o, m, w)
    BY <1>2 DEF Stacked, Fits
  <2>2. s \in Seq(T)
    BY <1>2
  <2>3. \A x \in T : x.op = "attach" => x.obj \in ObjectsOf(w.heap)
    BY DEF Frames
  <2> HIDE DEF T, s
  <2>4. s[i] \in T
    BY <2>2
  <2>5. o \in ObjectsOf(w.heap)
    BY <2>3, <2>4
  <2> HIDE DEF o, m
  <2>6. n \notin InUnder(w.prog, m)
    BY <1>9, <2>1, UnmetFree
  <2> QED  BY <2>5, <2>6 DEF o, m
<1> HIDE DEF s, f, k, S, t
<1>13. Structured(v)
  <2>1. \A m \in Names : w.tab[m] # NoType => X \cap InUnder(w.prog, m) = {}
    BY <1>11
  <2> HIDE DEF X
  <2> QED  BY <1>2, <1>3, <1>9, <2>1, StructuredMoves
<1>14. Stacked(s, v, g)
  <2>1. \A i \in 1..Len(s) : s[i].op = "attach" =>
          /\ v.heap[s[i].obj].under = w.heap[s[i].obj].under
          /\ X \cap InUnder(w.prog, s[i].name) = {}
    BY <1>9, <1>12
  <2>2. \A i \in 1..Len(s) : CompletesName(s[i]) /\ s[i].name \in NamesOf(g) =>
          \A m \in Names \ NamesOf(g) :
            v.tab[m] # NoType => w.tab[m] # NoType \/ s[i].name \notin InUnder(w.prog, m)
    BY <1>9
  <2> HIDE DEF X
  <2> QED  BY <1>2, <1>3, <1>9, <2>1, <2>2, StackedMoves
<1>15. v.prog = w.prog
  BY <1>3, <1>5
<1>16. n \in NamesOf(g) => Mentioned[t] \subseteq NamesOf(g)
  BY <1>2, <1>5 DEF OnePackage, NamesOf
<1>17. Within(Top, g) => Within(k, g) /\ Within(f, g)
  BY <1>1, <1>7, <1>8, <1>16 DEF Within, OfType, CompletesName
<1>18. Fits(k, v, g)
  BY <1>8, <1>9, <1>11, <1>15 DEF Fits
<1>19. \A j \in 1..Len(s) : Over(k, s[j], v.prog, g) /\ Over(f, s[j], v.prog, g)
  BY <1>2, <1>8, <1>12, <1>15, <1>17 DEF Over, CompletesName
<1>20. Over(f, k, v.prog, g) /\ ~CompletesName(f)
  BY <1>8, <1>16 DEF Over, CompletesName, Within, OfType
<1>21. Stacked(<<f, k>> \o s, v, g)
  BY <1>10, <1>14, <1>18, <1>19, <1>20, StackedPushes
<1> QED  BY <1>1, <1>5, <1>13, <1>21, StructNext

(* What UpdateType writes in the place of the object y.                    *)
Live(n, tab) == {m \in Entries(n) : tab[m] # NoType}
SameId(y, m, h) == h[y].name # NoType /\ TypeId[h[y].name] = TypeId[m]
NewIn(y, n, tab, h) == IF \E m \in Live(n, tab) : SameId(y, m, h)
                       THEN tab[CHOOSE m \in Live(n, tab) : SameId(y, m, h)] ELSE y
Rewritten(R, n, tab, h) == {NewIn(y, n, tab, h) : y \in R}

LEMMA ReplacedUnder ==
  ASSUME NEW g, g \in Seq(HeapObjects(g)), NEW n, NEW tab, NEW h, h = Replaced(n, tab, g),
         NEW x \in ObjectsOf(g)
  PROVE  /\ (\E m \in Live(n, tab) : x = tab[m]) =>
              h[x].under = Rewritten(g[x].under, n, tab, g)
         /\ g[x].name # NoType /\ (\A m \in Live(n, tab) : x # tab[m]) =>
              h[x].under = g[x].under
<1> DEFINE types == {tab[m] : m \in Live(n, tab)}
           unnamed == {y \in UNION {g[z].under : z \in types} : g[y].name = NoType}
           R == Rewritten(g[x].under, n, tab, g)
<1>1. h = [z \in DOMAIN g |-> IF z \in types \cup unnamed
                              THEN [g[z] EXCEPT !.under = Rewritten(@, n, tab, g)]
                              ELSE g[z]]
  BY Zenon DEF Replaced, Live, SameId, NewIn, Rewritten
<1>2. x \in DOMAIN g /\ g[x] \in HeapObjects(g)
  BY DEF ObjectsOf
<1>3. x \in types => h[x].under = R
  <2>1. x \in types => h[x] = [g[x] EXCEPT !.under = R]
    <3> HIDE DEF types, unnamed
    <3> QED  BY <1>1, <1>2
  <2> HIDE DEF R, types
  <2>2. [g[x] EXCEPT !.under = R].under = R
    BY <1>2 DEF HeapObjects
  <2> QED  BY <2>1, <2>2
<1>4. x \notin types /\ x \notin unnamed => h[x].under = g[x].under
  <2> HIDE DEF types, unnamed
  <2> QED  BY <1>1, <1>2
<1> QED  BY <1>3, <1>4

(* An object that stood for a name becomes the type of the name, given     *)
(* that no two names have one id.                                          *)
LEMMA NewImage ==
  ASSUME UniqueIds, NEW w, w = World, TablesOK(w), NEW n \in Names, w.pl[n] # NoType,
         NEW v, Moves(w, v, {n}), v.tab[n] # NoType, NEW h, Grows(w.heap, h),
         NEW m \in Names, ImageIn(w, m) # NoType
  PROVE  NewIn(ImageIn(w, m), n, v.tab, h) = ImageIn(v, m)
<1> DEFINE y == ImageIn(w, m)
           L == Live(n, v.tab)
<1>1. y \in ObjectsOf(w.heap) /\ w.heap[y].name = m
  BY DEF TablesOK, ImageIn
<1>2. m # NoType
  BY TypesAssumption
<1>3. L \subseteq Names /\ n \in L
  BY DEF Live, Entries, World
<1> HIDE DEF y, L
<1>4. h[y].name = m
  BY <1>1 DEF Grows
<1>5. \A k \in L : SameId(y, k, h) <=> k = m
  BY <1>2, <1>3, <1>4 DEF SameId, UniqueIds
<1>6. CASE m \in L
  <2>1. NewIn(y, n, v.tab, h) = v.tab[m]
    BY <1>5, <1>6 DEF NewIn, L
  <2>2. v.tab[m] # NoType
    BY <1>6 DEF L, Live
  <2> QED  BY <2>1, <2>2 DEF ImageIn, y
<1>7. CASE m \notin L
  <2>1. NewIn(y, n, v.tab, h) = y
    BY <1>5, <1>7 DEF NewIn, L
  <2>2. ImageIn(v, m) = ImageIn(w, m)
    BY <1>3, <1>7 DEF Moves
  <2> QED  BY <2>1, <2>2 DEF y
<1> QED  BY <1>6, <1>7

LEMMA FaithfulRewritten ==
  ASSUME UniqueIds, NEW w, w = World, TablesOK(w), NEW n \in Names, w.pl[n] # NoType,
         NEW v, Moves(w, v, {n}), v.tab[n] # NoType, TablesOK(v), NEW h, Grows(w.heap, h),
         NEW R, NEW S \in SUBSET Names, Faithful(R, S, w)
  PROVE  Faithful(Rewritten(R, n, v.tab, h), S, v)
<1> DEFINE New(y) == NewIn(y, n, v.tab, h)
           Q == Rewritten(R, n, v.tab, h)
<1>1. /\ R \subseteq ObjectsOf(w.heap) /\ NoType \notin ObjectsOf(w.heap)
      /\ {y \in R : w.heap[y].name # NoType} = {ImageIn(w, m) : m \in S}
      /\ NoType \notin Names
  BY TypesAssumption DEF Faithful, ObjectsOf
<1>2. /\ ObjectsOf(w.heap) \subseteq ObjectsOf(v.heap)
      /\ \A x \in ObjectsOf(w.heap) : v.heap[x].name = w.heap[x].name /\ h[x].name = w.heap[x].name
  BY GrowFacts DEF Moves, Grows
<1>3. \A y \in R : w.heap[y].name = NoType => New(y) = y
  BY <1>1, <1>2 DEF NewIn, SameId
<1>4. \A m \in S : ImageIn(w, m) \in R /\ New(ImageIn(w, m)) = ImageIn(v, m)
  <2> SUFFICES ASSUME NEW m \in S
               PROVE  ImageIn(w, m) \in R /\ New(ImageIn(w, m)) = ImageIn(v, m)
    OBVIOUS
  <2>1. ImageIn(w, m) \in R /\ ImageIn(w, m) # NoType /\ m \in Names
    BY <1>1
  <2> QED  BY <2>1, NewImage
<1>5. \A m \in S : ImageIn(v, m) \in ObjectsOf(v.heap) /\ v.heap[ImageIn(v, m)].name # NoType
  <2> SUFFICES ASSUME NEW m \in S
               PROVE  ImageIn(v, m) \in ObjectsOf(v.heap) /\ v.heap[ImageIn(v, m)].name # NoType
    OBVIOUS
  <2>1. ImageIn(v, m) # NoType
    <3>1. CASE m = n
      BY <3>1 DEF ImageIn
    <3>2. CASE m # n
      BY <1>1, <1>4, <3>2 DEF Moves
    <3> QED  BY <3>1, <3>2
  <2> QED  BY <1>1, <2>1 DEF TablesOK, ImageIn
<1>6. \A z : z \in Q <=> \E y \in R : z = New(y)
  BY DEF Rewritten
<1> HIDE DEF New, Q
<1>7. \A z \in Q : \/ z \in ObjectsOf(v.heap) /\ v.heap[z].name = NoType
                   \/ \E m \in S : z = ImageIn(v, m)
  <2> SUFFICES ASSUME NEW y \in R
               PROVE  \/ New(y) \in ObjectsOf(v.heap) /\ v.heap[New(y)].name = NoType
                      \/ \E m \in S : New(y) = ImageIn(v, m)
    BY <1>6
  <2>1. CASE w.heap[y].name = NoType
    BY <1>1, <1>2, <1>3, <2>1
  <2>2. CASE w.heap[y].name # NoType
    <3>1. PICK m \in S : y = ImageIn(w, m)
      BY <1>1, <2>2
    <3> QED  BY <1>4, <3>1
  <2> QED  BY <2>1, <2>2
<1>8. \A m \in S : ImageIn(v, m) \in Q
  BY <1>4, <1>6
<1>9. {z \in Q : v.heap[z].name # NoType} = {ImageIn(v, m) : m \in S}
  BY <1>5, <1>7, <1>8
<1>10. Q \subseteq ObjectsOf(v.heap)
  BY <1>5, <1>7
<1>11. Faithful(Q, S, v)
  BY <1>9, <1>10 DEF Faithful
<1> QED  BY <1>11 DEF Q

(* The name that is completed is in no structure of another scope.         *)
LEMMA OtherScope ==
  ASSUME NEW g, NEW w, OnePackage(w.prog, g), ProgramOK(w.prog), NEW f, Fits(f, w, g),
         CompletesName(f), f.name \in Names, NEW m \in Names, ScopeOf[m] # ScopeOf[f.name],
         w.tab[m] # NoType
  PROVE  f.name \notin InUnder(w.prog, m)
<1> DEFINE n == f.name
<1>1. CASE n \in NamesOf(g)
  <2>1. m \notin NamesOf(g)
    BY <1>1 DEF NamesOf
  <2> QED  BY <1>1, <2>1 DEF Fits
<1>2. CASE n \notin NamesOf(g)
  <2>1. n \notin NamesOf(ScopeOf[m])
    BY DEF NamesOf
  <2>2. InUnder(w.prog, m) \subseteq NamesOf(g) \cup NamesOf(ScopeOf[m])
    BY DEF OnePackage, InUnder
  <2> QED  BY <1>2, <2>1, <2>2
<1> QED  BY <1>1, <1>2

LEMMA RestCompletes ==
  ASSUME TypeOK, OncePerName, stack # <<>>, Top.op \in {"named", "attach"},
         NEW i \in 1..Len(Rest), CompletesName(Rest[i])
  PROVE  Rest[i].name \in UnderWay(stack) /\ Rest[i].name # Top.name
<1>1. Rest \in Seq(Frames(heap))
  BY TopFacts
<1>2. DOMAIN Rest = 1..Len(Rest)
  BY <1>1
<1>3. Rest[i].name \in UnderWay(Rest)
  BY <1>2 DEF UnderWay
<1>4. Completed(Top) = {Top.name}
  BY TopCompletes
<1> QED  BY <1>3, <1>4, TopOnce

LEMMA CompletionBuilds ==
  ASSUME TypeOK, OncePerName, ConvInv, UniqueIds, NEW g, StructInv(g),
         stack # <<>>, Top.op \in {"named", "attach"}, prog' = prog, placeholder' = placeholder,
         NEW h, h \in Seq(HeapObjects(h)), Grows(heap, h),
         \A x \in ObjectsOf(heap) : h[x].under = heap[x].under, NEW n, n = Top.name,
         NEW o \in ObjectsOf(h), h[o].name = n, UpdateScope(n, o, h),
         NEW w, w = World, NEW v, v = NextWorld,
         Faithful(h[o].under, InUnder(w.prog, n), w)
  PROVE  Structured(v) /\ Stacked(Rest, v, g)
<1> DEFINE s == Rest
           X == {n}
           L == Live(n, v.tab)
<1>1. /\ FrameOK(Top, w) /\ w.heap = heap /\ w.tab = resolved /\ w.pl = placeholder
      /\ w.prog = prog /\ TablesOK(w) /\ ProgramOK(w.prog)
  BY TopParts
<1>2. /\ Structured(w) /\ Stacked(s, w, g) /\ Fits(Top, w, g) /\ OnePackage(w.prog, g)
      /\ \A j \in 1..Len(s) : Over(Top, s[j], w.prog, g)
      /\ s \in Seq(Frames(w.heap))
  BY StructParts
<1>3. Completion(n, o, s, w, v) /\ v.heap = heap' /\ v.prog = prog
  BY ScopeUpdated
<1>4. /\ n \in Names /\ Moves(w, v, X) /\ TablesOK(v) /\ v.tab[n] = o /\ v.tab[n] # NoType
  BY <1>3 DEF Completion
<1>5. v.tab = Table(n, o) /\ v.heap = Replaced(n, v.tab, h)
  BY <1>3 DEF UpdateScope, NextWorld
<1>6. ObjectsOf(v.heap) = ObjectsOf(h) /\ \A x \in ObjectsOf(h) : v.heap[x].name = h[x].name
  <2>1. Len(heap') = Len(h) /\ \A x \in ObjectsOf(h) : heap'[x].name = h[x].name
    BY <1>4, UpdateScopeTypes
  <2> QED  BY <1>3, <2>1 DEF ObjectsOf
<1>7. CompletesName(Top) /\ Pending(n) /\ w.tab[n] = NoType /\ w.pl[n] # NoType
  <2>1. n \in UnderWay(stack) /\ CompletesName(Top)
    BY <1>4, TopOnce, TopCompletes DEF CompletesName
  <2>2. Pending(n)
    BY <2>1 DEF OncePerName
  <2> QED  BY <1>1, <2>1, <2>2 DEF Pending
<1>8. \A m \in Names : m # n => v.tab[m] = w.tab[m]
  <2>1. Matching(n) \subseteq {n}
    BY <1>4, MatchingIsOwn
  <2> QED  BY <1>1, <1>5, <2>1 DEF Table
<1>9. /\ ObjectsOf(w.heap) \subseteq ObjectsOf(h)
      /\ \A x \in ObjectsOf(w.heap) : h[x].name = w.heap[x].name /\ h[x].under = w.heap[x].under
  BY <1>1, GrowFacts DEF Grows
<1>10. L \subseteq Names /\ \A m \in L : v.tab[m] \in ObjectsOf(h) /\ h[v.tab[m]].name = m
  <2>1. \A m \in L : m \in Names /\ v.tab[m] # NoType
    BY DEF Live, Entries
  <2> HIDE DEF L
  <2> QED  BY <1>4, <1>6, <2>1 DEF TablesOK
<1> HIDE DEF s, X, L
<1>11. ASSUME NEW x \in ObjectsOf(h), NEW m \in Names \ L, h[x].name = m
       PROVE  v.heap[x].under = h[x].under
  <2>1. m # NoType
    BY TypesAssumption
  <2>2. \A k \in L : x # v.tab[k]
    BY <1>10, <1>11
  <2> DEFINE tab == v.tab
             k == v.heap
  <2>3. k = Replaced(n, tab, h) /\ h[x].name # NoType /\ \A j \in Live(n, tab) : x # tab[j]
    BY <1>5, <1>11, <2>1, <2>2 DEF L
  <2> HIDE DEF tab, k
  <2>4. k[x].under = h[x].under
    BY <2>3, ReplacedUnder
  <2> QED  BY <2>4 DEF k
<1>12. ASSUME NEW m \in Names, m \notin L, w.tab[m] # NoType
       PROVE  n \notin InUnder(w.prog, m)
  <2>1. m # n
    BY <1>7, <1>12
  <2>2. v.tab[m] # NoType /\ w.pl[m] # NoType
    BY <1>1, <1>8, <1>12, <2>1 DEF OncePerName
  <2>3. ScopeOf[m] # ScopeOf[n]
    BY <1>1, <1>12, <2>2 DEF L, Live, Entries
  <2> QED  BY <1>1, <1>2, <1>4, <1>7, <1>12, <2>3, OtherScope, ZenonT(60)
<1>13. ASSUME NEW m \in Names, v.tab[m] # NoType  PROVE Built(v.tab[m], m, v)
  <2> DEFINE x == v.tab[m]
             S == InUnder(w.prog, m)
  <2>1. x \in ObjectsOf(h) /\ h[x].name = m /\ S \subseteq Names
    BY <1>1, <1>4, <1>6, <1>13, MentionedNames DEF TablesOK, InUnder, ProgramOK
  <2>2. CASE m \in L
    <3> DEFINE R == h[x].under
    <3>1. Faithful(R, S, w)
      <4>1. CASE m = n
        BY <1>4, <4>1
      <4>2. CASE m # n
        <5>1. x = w.tab[m] /\ x # NoType
          BY <1>8, <1>13, <4>2
        <5>2. x \in ObjectsOf(w.heap) /\ Built(x, m, w)
          BY <1>1, <1>2, <5>1 DEF TablesOK, Structured
        <5>3. h[x].under = w.heap[x].under
          BY <1>9, <5>2
        <5> QED  BY <5>2, <5>3 DEF Built
      <4> QED  BY <4>1, <4>2
    <3>2. v.heap[x].under = Rewritten(R, n, v.tab, h)
      <4> DEFINE tab == v.tab
                 k == v.heap
      <4>1. k = Replaced(n, tab, h) /\ \E j \in Live(n, tab) : x = tab[j]
        BY <1>5, <2>2 DEF L
      <4> HIDE DEF tab, k, x
      <4>2. k[x].under = Rewritten(h[x].under, n, tab, h)
        BY <2>1, <4>1, ReplacedUnder
      <4> QED  BY <4>2 DEF k, tab
    <3>3. Grows(w.heap, h) /\ Moves(w, v, {n})
      BY <1>1, <1>4 DEF X
    <3> HIDE DEF R, S, x
    <3>4. Faithful(Rewritten(R, n, v.tab, h), S, v)
      BY <1>1, <1>4, <1>7, <2>1, <3>1, <3>3, FaithfulRewritten
    <3> QED  BY <1>1, <1>3, <3>2, <3>4 DEF Built, S, x
  <2>3. CASE m \notin L
    <3>1. m # n
      BY <1>1, <1>4, <1>7, <2>3 DEF L, Live, Entries
    <3>2. x = w.tab[m] /\ x # NoType
      BY <1>8, <1>13, <3>1
    <3>3. x \in ObjectsOf(w.heap) /\ Built(x, m, w)
      BY <1>1, <1>2, <3>2 DEF TablesOK, Structured
    <3>4. v.heap[x].under = w.heap[x].under
      BY <1>9, <1>11, <2>1, <2>3, <3>3
    <3>5. X \cap InUnder(w.prog, m) = {}
      BY <1>12, <2>3, <3>2 DEF X
    <3> HIDE DEF x, S, X
    <3>6. Built(x, m, v)
      BY <1>1, <1>4, <3>3, <3>4, <3>5, BuiltMoves
    <3> QED  BY <3>6 DEF x
  <2> QED  BY <2>2, <2>3
<1>14. Structured(v)
  BY <1>13 DEF Structured
<1>15. ASSUME NEW i \in 1..Len(s), s[i].op = "attach"
       PROVE  /\ v.heap[s[i].obj].under = w.heap[s[i].obj].under
              /\ X \cap InUnder(w.prog, s[i].name) = {}
  <2> DEFINE S == Frames(w.heap)
             m == s[i].name
             x == s[i].obj
  <2>1. s \in Seq(S)
    BY <1>2
  <2>2. \A y \in S : y.op = "attach" => /\ y.obj \in ObjectsOf(w.heap) /\ y.name \in Names
                                        /\ w.heap[y.obj].name = y.name
    BY DEF Frames
  <2> HIDE DEF S
  <2>3. s[i] \in S
    BY <2>1
  <2>4. x \in ObjectsOf(w.heap) /\ m \in Names /\ w.heap[x].name = m
    BY <1>15, <2>2, <2>3
  <2>5. m \in UnderWay(stack) /\ m # n
    BY <1>7, <1>15, RestCompletes DEF CompletesName, s
  <2>6. w.tab[m] = NoType
    BY <1>1, <2>4, <2>5 DEF OncePerName, Pending
  <2>7. m \notin L
    BY <1>8, <2>4, <2>5, <2>6 DEF L, Live
  <2>8. n \notin InUnder(w.prog, m)
    BY <1>2, <1>7, <1>15 DEF Over
  <2> HIDE DEF m, x
  <2>9. v.heap[x].under = w.heap[x].under
    BY <1>9, <1>11, <2>4, <2>7
  <2> QED  BY <2>8, <2>9 DEF X, m, x
<1>16. ASSUME NEW i \in 1..Len(s), CompletesName(s[i]), s[i].name \in NamesOf(g),
              NEW m \in Names \ NamesOf(g), v.tab[m] # NoType
       PROVE  w.tab[m] # NoType
  <2>1. Within(Top, g)
    BY <1>2, <1>16 DEF Over
  <2>2. m # n
    BY <1>7, <1>16, <2>1 DEF Within
  <2> QED  BY <1>8, <1>16, <2>2
<1>17. Stacked(s, v, g)
  <2>1. \A i \in 1..Len(s) : s[i].op = "attach" =>
          /\ v.heap[s[i].obj].under = w.heap[s[i].obj].under
          /\ X \cap InUnder(w.prog, s[i].name) = {}
    BY <1>15
  <2>2. \A i \in 1..Len(s) : CompletesName(s[i]) /\ s[i].name \in NamesOf(g) =>
          \A m \in Names \ NamesOf(g) :
            v.tab[m] # NoType => w.tab[m] # NoType \/ s[i].name \notin InUnder(w.prog, m)
    BY <1>16
  <2> QED  BY <1>1, <1>2, <1>4, <2>1, <2>2, StackedMoves
<1> QED  BY <1>14, <1>17 DEF s

LEMMA PlainStill ==
  ASSUME TypeOK, OncePerName, ConvInv, UniqueIds, NEW g, StructInv(g), NamedPlain
  PROVE  StructInv(g)'
<1> DEFINE w == World
           v == NextWorld
           n == Top.name
           o == Fresh
           u == ret.refs
           h == Append(heap, Object(n, u))
<1>1. /\ stack # <<>> /\ Top.op = "named" /\ ret.status = "ok" /\ stack' = Rest
      /\ prog' = prog /\ placeholder' = placeholder /\ UpdateScope(n, o, h)
  BY DEF NamedPlain, Running, Return
<1>2. FrameOK(Top, w) /\ Has(Top, w, ret) /\ w.prog = prog /\ w.heap = heap
  BY <1>1, TopParts
<1>3. /\ heap \in Seq(HeapObjects(heap)) /\ u \in SUBSET ObjectsOf(heap)
      /\ n \in Names \cup {NoType} /\ h = Append(heap, Object(n, u))
  BY <1>1, <1>2 DEF TypeOK, FrameOK
<1>4. Right(ret, w.prog.decl[n].under, w)
  BY <1>1, <1>2 DEF Has, AskedType, IsLoop
<1>5. Faithful(u, InUnder(w.prog, n), w)
  BY <1>1, <1>4 DEF Right, InUnder
<1>0. w = World /\ v = NextWorld /\ n = Top.name /\ o = Len(heap) + 1
  BY DEF Fresh
<1> HIDE DEF w, v, n, o, u, h
<1>6. Extended(heap, n, u, h)
  BY <1>3, AppendedUnders
<1>7. /\ h \in Seq(HeapObjects(h)) /\ Grows(heap, h) /\ o \in ObjectsOf(h) /\ h[o].name = n
      /\ h[o].under = u /\ \A x \in ObjectsOf(heap) : h[x].under = heap[x].under
  BY <1>0, <1>6 DEF Extended
<1>8. Faithful(h[o].under, InUnder(w.prog, n), w)
  BY <1>5, <1>7
<1>9. Structured(v) /\ Stacked(Rest, v, g)
  <2>1. Top.op \in {"named", "attach"}
    BY <1>1
  <2> QED  BY <1>0, <1>1, <1>7, <1>8, <2>1, CompletionBuilds
<1> QED  BY <1>0, <1>1, <1>9, StructNext

LEMMA RegisterStill ==
  ASSUME TypeOK, OncePerName, ConvInv, UniqueIds, NEW g, StructInv(g), Register
  PROVE  StructInv(g)'
<1> DEFINE w == World
           v == NextWorld
           n == Top.name
           o == Top.obj
           h == heap
           s == Rest
           k == RangeOver(o, ntype')
           S == Frames(heap')
<1>1. /\ stack # <<>> /\ Top.op = "attach" /\ stack' = <<k>> \o s
      /\ prog' = prog /\ placeholder' = placeholder /\ UpdateScope(n, o, h)
  BY DEF Register, Running, Push
<1>2. FrameOK(Top, w) /\ w.prog = prog /\ w.heap = heap
  BY <1>1, TopParts
<1>3. Fits(Top, w, g) /\ s \in Seq(Frames(w.heap))
  BY <1>1, StructParts
<1>4. Faithful(h[o].under, InUnder(w.prog, n), w)
  BY <1>1, <1>2, <1>3 DEF Fits, Built
<1>5. h \in Seq(HeapObjects(h)) /\ Grows(heap, h)
  BY SameHeapGrows DEF TypeOK
<1>6. o \in ObjectsOf(h) /\ h[o].name = n
  BY <1>1, TopFields
<1>0. w = World /\ v = NextWorld /\ n = Top.name
  OBVIOUS
<1>7. ntype' \in SUBSET ObjectsOf(heap') /\ o \in ObjectsOf(heap')
  <2>1. TypeOK'
    BY RegisterTypes
  <2>2. Grows(heap, heap')
    <3>1. n \in Names
      BY <1>2, <1>1 DEF FrameOK
    <3> HIDE DEF n, o, h
    <3> QED  BY <1>1, <1>5, <1>6, <3>1, UpdateScopeTypes
  <2>3. ntype' \in SUBSET ObjectsOf(heap')
    BY <2>1 DEF TypeOK
  <2> QED  BY <1>6, <2>2, <2>3, GrowFacts
<1>8. k \in Frames(heap')
  <2> HIDE DEF o
  <2> QED  BY <1>7, FrameTypes
<1>9. k.op = "range"
  BY DEF RangeOver, Frame
<1>10. \A x \in ObjectsOf(heap) : h[x].under = heap[x].under
  OBVIOUS
<1> HIDE DEF w, v, n, o, h, s, k
<1>11. Structured(v) /\ Stacked(s, v, g)
  <2>1. Top.op \in {"named", "attach"}
    BY <1>1
  <2> QED  BY <1>0, <1>1, <1>4, <1>5, <1>6, <1>10, <2>1, CompletionBuilds DEF s
<1>12. s \in Seq(S) /\ k \in S
  <2>1. Grows(heap, heap')
    <3>1. n \in Names
      BY <1>0, <1>1, <1>2 DEF FrameOK
    <3> QED  BY <1>1, <1>5, <1>6, <3>1, UpdateScopeTypes
  <2> QED  BY <1>2, <1>3, <1>8, <2>1, GrowFacts
<1> HIDE DEF S
<1>13. Fits(k, v, g) /\ \A j \in 1..Len(s) : Over(k, s[j], v.prog, g)
  BY <1>9 DEF Fits, Over, Within, CompletesName, OfType
<1>14. Stacked(<<k>> \o s, v, g)
  BY <1>11, <1>12, <1>13, StackedCons
<1> QED  BY <1>0, <1>1, <1>11, <1>14, StructNext

LEMMA AskStill ==
  ASSUME TypeOK, ConvInv, NEW g, StructInv(g), NEW t \in Requests, Request(t)
  PROVE  StructInv(g)'
<1> DEFINE v == NextWorld
           f == CallToType(t)
           s == <<f>>
<1>1. /\ stack' = s /\ prog' = prog /\ heap' = heap /\ resolved' = resolved
      /\ placeholder' = placeholder
  BY DEF Request
<1>2. v = World
  BY <1>1 DEF NextWorld, World
<1>3. f.op = "ToType"
  BY DEF CallToType, Frame
<1>4. Len(s) = 1 /\ s[1] = f
  OBVIOUS
<1>5. v = NextWorld
  OBVIOUS
<1> HIDE DEF v, f, s
<1>6. Fits(f, v, g)
  BY <1>3 DEF Fits, CompletesName
<1>7. Stacked(s, v, g)
  BY <1>4, <1>6 DEF Stacked
<1> QED  BY <1>1, <1>2, <1>5, <1>7, StructNext DEF StructInv

LEMMA SameStill ==
  ASSUME NEW g, StructInv(g), UNCHANGED vars
  PROVE  StructInv(g)'
BY DEF vars, StructInv, World

LEMMA StructStep ==
  ASSUME TypeOK, OncePerName, ConvInv, UniqueIds, NEW g, StructInv(g), [Next]_vars
  PROVE  StructInv(g)'
<1>1. CASE UNCHANGED vars \/ NoMoreRequests
  BY <1>1, SameStill DEF NoMoreRequests
<1>2. ASSUME NEW t \in Requests, Request(t)  PROVE StructInv(g)'
  BY <1>2, AskStill
<1>3. CASE Convert
  <2>1. CASE \/ ToTypeProvided \/ ToTypeBasic \/ ToTypeInvalid \/ ElemErr
             \/ CompositeBuilt \/ StructDone \/ SetMethodSet
             \/ (\E n \in Names : NameProvided(n) \/ NameFound(n))
             \/ NamedErr \/ RangeDone
    BY <2>1, ReturnsStill
  <2>2. CASE ToTypeComposite
    BY <2>2, CompositeStill
  <2>3. CASE NextElem
    BY <2>3, NextElemStill
  <2>4. CASE ElemOk
    BY <2>4, ElemOkStill
  <2>5. CASE StructWithMethods
    BY <2>5, EmbeddingStill
  <2>6. ASSUME NEW n \in Names, NameNew(n)  PROVE StructInv(g)'
    BY <2>6, NewStill
  <2>7. CASE NamedPlain
    BY <2>7, PlainStill
  <2>8. CASE NamedWithMethods
    BY <2>8, MethodsStill
  <2>9. CASE Register
    BY <2>9, RegisterStill
  <2>10. ASSUME NEW o \in ntype, RangeNext(o)  PROVE StructInv(g)'
    BY <2>10, RangeNextStill
  <2> QED  BY <1>3, <2>1, <2>2, <2>3, <2>4, <2>5, <2>6, <2>7, <2>8, <2>9, <2>10 DEF Convert
<1> QED  BY <1>1, <1>2, <1>3 DEF Next

(* The structure of every resolved type mentions, at any time, the types   *)
(* of the names that its declaration mentions, in a program of one package *)
(* in which no two names have one id.                                      *)
THEOREM Structures ==
  ASSUME UniqueIds, NEW g \in Scopes, \A p \in Programs : OnePackage(p, g)
  PROVE  Spec => []StructureFaithful
<1>1. Init => StructInv(g)
  <2> SUFFICES ASSUME Init  PROVE StructInv(g)
    OBVIOUS
  <2>1. Structured(World) /\ Stacked(stack, World, g)
    BY DEF Init, Structured, Stacked, World
  <2> QED  BY <2>1 DEF Init, StructInv
<1>2. TypeOK /\ OncePerName /\ ConvInv /\ StructInv(g) /\ [Next]_vars => StructInv(g)'
  BY StructStep
<1>3. StructInv(g) => StructureFaithful
  <2> SUFFICES ASSUME StructInv(g), NEW n \in Names, resolved[n] # NoType
               PROVE  StructureOf(n) = Images(Mentioned[Decl[n].under])
    BY DEF StructureFaithful
  <2>1. Built(resolved[n], n, World)
    BY DEF StructInv, Structured, World
  <2>2. \A m : ImageIn(World, m) = Image(m)
    BY DEF World, ImageIn, Image
  <2> QED  BY <2>1, <2>2 DEF Built, Faithful, InUnder, StructureOf, NamedIn, Images, World, Decl
<1> QED  BY Typing, NoReentry, Conversions, <1>1, <1>2, <1>3, PTL DEF Spec

-----------------------------------------------------------------------------
(* UpdateType's loop.  A type is known when its conversion meets no name   *)
(* without an entry; then so are the types that this conversion takes up,  *)
(* in every list up to the first that cannot be converted.                 *)
Met(w) == {n \in Names : w.pl[n] # NoType} \cup Provided

KnownList(list, K) ==
  \A i \in 1..Len(list) : (\A j \in 1..(i - 1) : ~Wrong[list[j]]) => list[i] \in K

KnownType(t, K, w) ==
  t \notin ProvidedTypes =>
    /\ t.kind = "named" => t.name \in Met(w)
    /\ t.kind \in {"composite", "interface", "embedding"} =>
         /\ KnownList(t.elems, K)
         /\ (\A i \in 1..Len(t.elems) : ~Wrong[t.elems[i]]) => KnownList(w.prog.promoted[t], K)

Closed(K, w) == \A t \in K : KnownType(t, K, w)
Known(w) == UNION {K \in SUBSET Types : Closed(K, w)}

LEMMA KnownGrows ==
  ASSUME NEW w, NEW v, Met(w) \subseteq Met(v), v.prog = w.prog
  PROVE  /\ \A K, M : K \subseteq M =>
              /\ \A t : KnownType(t, K, w) => KnownType(t, M, v)
              /\ \A list : KnownList(list, K) => KnownList(list, M)
         /\ Known(w) \subseteq Known(v)
<1>1. ASSUME NEW K, NEW M, K \subseteq M
      PROVE  /\ \A t : KnownType(t, K, w) => KnownType(t, M, v)
             /\ \A list : KnownList(list, K) => KnownList(list, M)
  <2>1. \A list : KnownList(list, K) => KnownList(list, M)
    BY <1>1 DEF KnownList
  <2>2. \A t : KnownType(t, K, w) => KnownType(t, M, v)
    BY <2>1 DEF KnownType
  <2> QED  BY <2>1, <2>2
<1>2. \A K : Closed(K, w) => Closed(K, v)
  BY <1>1 DEF Closed
<1> QED  BY <1>1, <1>2 DEF Known

LEMMA KnownFacts ==
  ASSUME NEW w
  PROVE  /\ Known(w) \subseteq Types
         /\ \A t \in Types : t \in Known(w) <=> KnownType(t, Known(w), w)
<1> DEFINE M == Known(w)
<1>1. M \subseteq Types
  BY DEF Known
<1>2. \A K, L : K \subseteq L => \A t : KnownType(t, K, w) => KnownType(t, L, w)
  BY KnownGrows
<1>3. ASSUME NEW t \in M  PROVE KnownType(t, M, w)
  <2>1. PICK K \in SUBSET Types : Closed(K, w) /\ t \in K
    BY DEF Known
  <2>2. K \subseteq M
    BY <2>1 DEF Known
  <2> HIDE DEF M
  <2> QED  BY <1>2, <2>1, <2>2 DEF Closed
<1>4. ASSUME NEW t \in Types, KnownType(t, M, w)  PROVE t \in M
  <2> DEFINE L == M \cup {t}
  <2>1. L \in SUBSET Types /\ M \subseteq L /\ t \in L
    BY <1>1
  <2>2. \A u \in L : KnownType(u, M, w)
    BY <1>3, <1>4
  <2> HIDE DEF L, M
  <2>3. Closed(L, w)
    BY <1>2, <2>1, <2>2 DEF Closed
  <2> QED  BY <2>1, <2>3 DEF Known, M
<1> QED  BY <1>1, <1>3, <1>4

(* What a frame that waits has learnt of the types it has converted, and   *)
(* what a frame at the top has with the answer r.                          *)
Learnt(f, K) ==
  /\ IsLoop(f) => \A i \in 1..(f.done - 1) : f.list[i] \in K /\ ~Wrong[f.list[i]]
  /\ f.op = "embedded" => /\ KnownList(f.typ.elems, K)
                          /\ \A i \in 1..Len(f.typ.elems) : ~Wrong[f.typ.elems[i]]

ListOf(g, w) == IF g.op = "embedded" THEN w.prog.promoted[g.typ]
                ELSE w.prog.decl[w.heap[g.obj].name].methods

HasLearnt(f, K, w, r) ==
  IF r = NoResult
  THEN IsLoop(f) => \A i \in 1..f.done : f.list[i] \in K /\ ~Wrong[f.list[i]]
  ELSE /\ Learnt(f, K)
       /\ IsLoop(f) => /\ AskedType(f, w) \in K
                       /\ r.status = "ok" => ~Wrong[AskedType(f, w)]
       /\ f.op \in {"attach", "embedded"} => KnownList(ListOf(f, w), K)

(* What may be above the loop: conversions of types that are known.        *)
Settled(f, K) == /\ f.op \in {"ToType", "elems", "fn", "embedded"}
                 /\ OfType(f) => f.typ \in K
                 /\ f.op = "fn" => KnownList(f.list, K)

Amid(f, k, K) == k.op = "range" => Settled(f, K)
Counts(f, N)  == f.op = "range" => f.refs = N

Piled(s, K, N) ==
  \A i \in 1..Len(s) : /\ Learnt(s[i], K) /\ Counts(s[i], N)
                       /\ \A j \in (i + 1)..Len(s) : Amid(s[i], s[j], K)

(* The methods of the registered types are known.                          *)
AllKnown(w, N) == \A o \in N : KnownList(w.prog.decl[w.heap[o].name].methods, Known(w))

LoopStack(s, w, r, N) ==
  s # <<>> => /\ Piled(Tail(s), Known(w), N)
              /\ HasLearnt(Head(s), Known(w), w, r) /\ Counts(Head(s), N)
              /\ \A j \in 1..Len(Tail(s)) : Amid(Head(s), Tail(s)[j], Known(w))

LoopInv == Pure(prog) => AllKnown(World, ntype) /\ LoopStack(stack, World, ret, ntype)

LEMMA PiledTail ==
  ASSUME NEW S, NEW s \in Seq(S), s # <<>>, NEW K, NEW N, Piled(s, K, N)
  PROVE  /\ Piled(Tail(s), K, N) /\ Learnt(Head(s), K) /\ Counts(Head(s), N)
         /\ \A j \in 1..Len(Tail(s)) : Amid(Head(s), Tail(s)[j], K)
<1> DEFINE q == Tail(s)
           h == Head(s)
           n == Len(s)
<1>1. /\ n \in Nat \ {0} /\ h = s[1] /\ Len(q) = n - 1
      /\ \A i \in 1..Len(q) : q[i] = s[i + 1]
  BY TailFacts
<1>2. \A i \in 1..n : /\ Learnt(s[i], K) /\ Counts(s[i], N)
                      /\ \A j \in (i + 1)..n : Amid(s[i], s[j], K)
  BY DEF Piled
<1> HIDE DEF q, h, n
<1>3. ASSUME NEW i \in 1..Len(q)
      PROVE  /\ Learnt(q[i], K) /\ Counts(q[i], N)
             /\ \A j \in (i + 1)..Len(q) : Amid(q[i], q[j], K)
  <2>1. i + 1 \in 1..n /\ q[i] = s[i + 1]
    BY <1>1
  <2>2. \A j \in (i + 1)..Len(q) : j + 1 \in (i + 1 + 1)..n /\ q[j] = s[j + 1]
    BY <1>1
  <2>3. \A j \in (i + 1)..Len(q) : Amid(s[i + 1], s[j + 1], K)
    BY <1>2, <2>1, <2>2
  <2> QED  BY <1>2, <2>1, <2>2, <2>3
<1>4. Piled(q, K, N)
  BY <1>3 DEF Piled
<1>5. Learnt(h, K) /\ Counts(h, N) /\ \A j \in 1..Len(q) : Amid(h, q[j], K)
  <2>1. 1 \in 1..n /\ \A j \in 1..Len(q) : j + 1 \in (1 + 1)..n /\ q[j] = s[j + 1]
    BY <1>1
  <2> QED  BY <1>1, <1>2, <2>1
<1> QED  BY <1>4, <1>5 DEF q, h

LEMMA PiledCons ==
  ASSUME NEW S, NEW s \in Seq(S), NEW f \in S, NEW K, NEW N, Piled(s, K, N),
         Learnt(f, K), Counts(f, N), \A j \in 1..Len(s) : Amid(f, s[j], K)
  PROVE  Piled(<<f>> \o s, K, N)
<1> DEFINE q == <<f>> \o s
           n == Len(s)
<1>1. /\ q \in Seq(S) /\ Len(q) = n + 1 /\ q[1] = f /\ n \in Nat
      /\ \A i \in 1..n : q[i + 1] = s[i]
  <2>1. n \in Nat
    OBVIOUS
  <2> QED  BY <2>1, ConsFacts
<1>2. \A i \in 1..n : /\ Learnt(s[i], K) /\ Counts(s[i], N)
                      /\ \A j \in (i + 1)..n : Amid(s[i], s[j], K)
  BY DEF Piled
<1>3. \A j \in 1..n : Amid(f, s[j], K)
  OBVIOUS
<1> HIDE DEF q, n
<1>4. ASSUME NEW i \in 1..Len(q)
      PROVE  /\ Learnt(q[i], K) /\ Counts(q[i], N)
             /\ \A j \in (i + 1)..Len(q) : Amid(q[i], q[j], K)
  <2>1. CASE i = 1
    <3>1. \A j \in (i + 1)..Len(q) : j - 1 \in 1..n /\ q[j] = s[j - 1]
      <4> SUFFICES ASSUME NEW j \in (i + 1)..Len(q)  PROVE j - 1 \in 1..n /\ q[j] = s[j - 1]
        OBVIOUS
      <4>1. j - 1 \in 1..n /\ (j - 1) + 1 = j
        BY <1>1, <2>1
      <4> QED  BY <1>1, <4>1
    <3>2. \A j \in (i + 1)..Len(q) : Amid(f, q[j], K)
      BY <1>3, <3>1
    <3> QED  BY <1>1, <2>1, <3>2
  <2>2. CASE i # 1
    <3> DEFINE k == i - 1
    <3>1. k \in 1..n /\ k + 1 = i
      BY <1>1, <2>2
    <3> HIDE DEF k
    <3>2. q[i] = s[k]
      BY <1>1, <3>1
    <3>3. \A j \in (i + 1)..Len(q) : j - 1 \in (k + 1)..n /\ q[j] = s[j - 1]
      <4> SUFFICES ASSUME NEW j \in (i + 1)..Len(q)
                   PROVE j - 1 \in (k + 1)..n /\ q[j] = s[j - 1]
        OBVIOUS
      <4>1. j - 1 \in (k + 1)..n /\ j - 1 \in 1..n /\ (j - 1) + 1 = j
        BY <1>1, <3>1
      <4> QED  BY <1>1, <4>1
    <3>4. \A j \in (i + 1)..Len(q) : Amid(s[k], q[j], K)
      BY <1>2, <3>1, <3>3
    <3> QED  BY <1>2, <3>1, <3>2, <3>4
  <2> QED  BY <2>1, <2>2
<1>5. Piled(q, K, N)
  BY <1>4 DEF Piled
<1> QED  BY <1>5 DEF q

(* No step takes a name's entry away.                                      *)
Onward == /\ prog' = prog /\ Grows(heap, heap')
          /\ \A n \in Names : placeholder[n] # NoType => placeholder'[n] # NoType

LEMMA PiledGrows ==
  ASSUME NEW K, NEW M, K \subseteq M
  PROVE  /\ \A f : (Learnt(f, K) => Learnt(f, M)) /\ (Settled(f, K) => Settled(f, M))
         /\ \A f, k : Amid(f, k, K) => Amid(f, k, M)
         /\ \A s, N : Piled(s, K, N) => Piled(s, M, N)
<1>1. \A list : KnownList(list, K) => KnownList(list, M)
  BY DEF KnownList
<1>2. \A f : Learnt(f, K) => Learnt(f, M)
  BY <1>1 DEF Learnt
<1>3. \A f : Settled(f, K) => Settled(f, M)
  BY <1>1 DEF Settled
<1>4. \A f, k : Amid(f, k, K) => Amid(f, k, M)
  BY <1>3 DEF Amid
<1>5. \A s, N : Piled(s, K, N) => Piled(s, M, N)
  BY <1>2, <1>4 DEF Piled
<1> QED  BY <1>2, <1>3, <1>4, <1>5

LEMMA OnwardFacts ==
  ASSUME TypeOK, Onward, NEW w, w = World, NEW v, v = NextWorld
  PROVE  /\ Met(w) \subseteq Met(v) /\ v.prog = w.prog /\ Known(w) \subseteq Known(v)
         /\ AllKnown(w, ntype) => AllKnown(v, ntype)
<1>1. /\ Met(w) \subseteq Met(v) /\ v.prog = w.prog /\ w.heap = heap /\ v.heap = heap'
  BY DEF Onward, Met, World, NextWorld
<1>2. Known(w) \subseteq Known(v) /\ \A list : KnownList(list, Known(w)) => KnownList(list, Known(v))
  BY <1>1, KnownGrows
<1>3. \A o \in ntype : v.heap[o].name = w.heap[o].name
  BY <1>1 DEF Onward, Grows, TypeOK
<1>4. AllKnown(w, ntype) => AllKnown(v, ntype)
  BY <1>1, <1>2, <1>3 DEF AllKnown
<1> QED  BY <1>1, <1>2, <1>4

LEMMA LoopParts ==
  ASSUME TypeOK, LoopInv, Pure(prog), stack # <<>>, NEW w, w = World
  PROVE  /\ AllKnown(w, ntype) /\ Piled(Rest, Known(w), ntype)
         /\ HasLearnt(Top, Known(w), w, ret) /\ Counts(Top, ntype)
         /\ \A j \in 1..Len(Rest) : Amid(Top, Rest[j], Known(w))
BY DEF LoopInv, LoopStack, Top, Rest

LEMMA LoopNext ==
  ASSUME prog' = prog, NEW v, v = NextWorld,
         Pure(prog) => AllKnown(v, ntype') /\ LoopStack(stack', v, ret', ntype')
  PROVE  LoopInv'
<1>1. World' = v
  BY DEF World, NextWorld
<1>2. Pure(prog) => (AllKnown(World, ntype) /\ LoopStack(stack, World, ret, ntype))'
  BY <1>1
<1>3. Pure(prog)' <=> Pure(prog)
  OBVIOUS
<1> QED  BY <1>2, <1>3 DEF LoopInv

LEMMA LoopOne ==
  ASSUME NEW S, NEW s \in Seq(S), NEW k \in S, NEW w, NEW r, NEW N, Piled(s, Known(w), N),
         HasLearnt(k, Known(w), w, r), Counts(k, N),
         \A j \in 1..Len(s) : Amid(k, s[j], Known(w))
  PROVE  LoopStack(<<k>> \o s, w, r, N)
BY ConsHeadTail DEF LoopStack

LEMMA LoopTwo ==
  ASSUME NEW S, NEW s \in Seq(S), NEW f \in S, NEW k \in S, NEW w, NEW r, NEW N,
         Piled(s, Known(w), N), Learnt(k, Known(w)), Counts(k, N),
         \A j \in 1..Len(s) : Amid(k, s[j], Known(w)),
         HasLearnt(f, Known(w), w, r), Counts(f, N), Amid(f, k, Known(w)),
         \A j \in 1..Len(s) : Amid(f, s[j], Known(w))
  PROVE  LoopStack(<<f, k>> \o s, w, r, N)
<1> DEFINE q == <<k>> \o s
           K == Known(w)
<1>1. q \in Seq(S) /\ Len(q) = Len(s) + 1 /\ q[1] = k /\ \A i \in 1..Len(s) : q[i + 1] = s[i]
  BY ConsFacts
<1>2. Len(s) \in Nat
  OBVIOUS
<1>3. Piled(q, K, N)
  <2> HIDE DEF K
  <2> QED  BY PiledCons DEF K
<1>4. <<f, k>> \o s = <<f>> \o q
  BY ConsTwice
<1> HIDE DEF q
<1>5. \A j \in 1..Len(q) : Amid(f, q[j], K)
  <2> SUFFICES ASSUME NEW j \in 1..Len(q)  PROVE Amid(f, q[j], K)
    OBVIOUS
  <2>1. CASE j = 1
    BY <1>1, <2>1
  <2>2. CASE j # 1
    <3>1. j - 1 \in 1..Len(s) /\ (j - 1) + 1 = j
      BY <1>1, <1>2, <2>2
    <3>2. q[j] = s[j - 1]
      BY <1>1, <3>1
    <3> QED  BY <3>1, <3>2
  <2> QED  BY <2>1, <2>2
<1>6. LoopStack(<<f>> \o q, w, r, N)
  BY <1>1, <1>3, <1>5, LoopOne DEF K
<1> QED  BY <1>4, <1>6

LEMMA LoopReturn ==
  ASSUME TypeOK, ConvInv, LoopInv, Onward, stack # <<>>, stack' = Rest, ntype' = ntype,
         NEW w, w = World, NEW v, v = NextWorld, ret'.status # "none",
         Pure(prog) =>
           /\ Top.op # "fn" => \A t \in Types : Answers(Top, t, w) =>
                                 t \in Known(v) /\ (ret'.status = "ok" => ~Wrong[t])
           /\ Top.op = "fn" => KnownList(Top.list, Known(v))
  PROVE  LoopInv'
<1> SUFFICES ASSUME Pure(prog)
             PROVE  AllKnown(v, ntype') /\ LoopStack(stack', v, ret', ntype')
  BY LoopNext DEF Onward
<1> DEFINE s == Rest
           c == Client
           K == Known(v)
           r == ret'
           f == Top
           S == Frames(w.heap)
<1>1. AllKnown(w, ntype) /\ Piled(s, Known(w), ntype)
  BY LoopParts
<1>2. AllKnown(v, ntype) /\ v.prog = w.prog /\ Known(w) \subseteq K
  BY <1>1, OnwardFacts
<1>3. /\ Waiting(s, c, w) /\ s \in Seq(S) /\ Serves(f, Caller(s, c), w) /\ ProgramOK(w.prog)
      /\ w.heap = heap /\ v.heap = heap'
  BY TopParts DEF NextWorld
<1>4. Piled(s, K, ntype)
  BY <1>1, <1>2, PiledGrows
<1>5. r.status # "none"
  OBVIOUS
<1>6. /\ f.op # "fn" => \A t \in Types : Answers(f, t, w) =>
                          t \in K /\ (r.status = "ok" => ~Wrong[t])
      /\ f.op = "fn" => KnownList(f.list, K)
  OBVIOUS
<1> HIDE DEF s, c, K, r, f, S
<1>7. CASE s = <<>>
  BY <1>2, <1>7 DEF LoopStack, s
<1>8. CASE s # <<>>
  <2> DEFINE g == Head(s)
             q == Tail(s)
  <2>1. /\ Piled(q, K, ntype) /\ Learnt(g, K) /\ Counts(g, ntype)
        /\ \A j \in 1..Len(q) : Amid(g, q[j], K)
    BY <1>3, <1>4, <1>8, PiledTail
  <2>2. FrameOK(g, w)
    BY <1>3, <1>8, WaitingTail
  <2>3. Serves(f, g, w)
    <3>1. 0 < Len(s) /\ s[0 + 1] = Head(s)
      BY <1>3, <1>8, TailFacts
    <3> QED  BY <1>3, <3>1 DEF Caller, Asker
  <2> HIDE DEF g, q
  <2>4. ASSUME IsLoop(g)
        PROVE  AskedType(g, v) \in K /\ (r.status = "ok" => ~Wrong[AskedType(g, v)])
    <3>1. Asks(g) /\ g.done \in 1..Len(g.list) /\ g.list \in Seq(Types)
      BY <2>2, <2>3, <2>4 DEF Asks, IsLoop, Serves, FrameOK
    <3>2. AskedType(g, v) = AskedType(g, w) /\ AskedType(g, w) \in Types
      BY <2>4, <3>1 DEF AskedType
    <3>3. f.op # "fn" /\ Answers(f, AskedType(g, w), w)
      BY <2>3, <3>1 DEF Serves
    <3> QED  BY <1>6, <3>2, <3>3
  <2>5. ASSUME g.op \in {"attach", "embedded"}  PROVE KnownList(ListOf(g, v), K)
    <3>1. f.op = "fn" /\ Updates(f, g, w)
      BY <2>3, <2>5 DEF Serves, Asks
    <3>2. g.obj \in ObjectsOf(w.heap) /\ v.heap[g.obj].name = w.heap[g.obj].name
      BY <1>3, <2>2, <2>5 DEF FrameOK, Onward, Grows
    <3>3. ListOf(g, v) = f.list
      BY <1>2, <2>5, <3>1, <3>2 DEF ListOf, Updates
    <3> QED  BY <1>6, <3>1, <3>3
  <2>6. r # NoResult
    BY <1>5 DEF NoResult
  <2>7. HasLearnt(g, K, v, r)
    BY <2>1, <2>4, <2>5, <2>6 DEF HasLearnt
  <2>8. LoopStack(s, v, r, ntype)
    BY <2>1, <2>7 DEF LoopStack, g, q, K
  <2> QED  BY <1>2, <2>8 DEF s, r
<1> QED  BY <1>7, <1>8

LEMMA OnwardSame ==
  ASSUME TypeOK, prog' = prog, Grows(heap, heap'), placeholder' = placeholder
  PROVE  Onward
BY DEF Onward

LEMMA NamedKnown ==
  ASSUME NEW t \in Types, t.kind = "named", NEW v, t.name \in Met(v)
  PROVE  t \in Known(v) /\ ~Wrong[t]
<1>1. KnownType(t, Known(v), v)
  BY DEF KnownType
<1>2. ~WrongOf(Wrong, t)
  <2>1. t.elems = <<>>
    BY TypesAssumption
  <2>2. DOMAIN t.elems = {}
    BY <2>1
  <2> QED  BY <2>2 DEF WrongOf
<1> QED  BY <1>1, <1>2, KnownFacts, WrongDef

LEMMA LeafLoop ==
  ASSUME TypeOK, ConvInv, LoopInv, ToTypeProvided \/ ToTypeBasic \/ ToTypeInvalid
  PROVE  LoopInv'
<1> DEFINE w == World
           v == NextWorld
           t == Top.typ
<1>1. /\ stack # <<>> /\ Top.op = "ToType" /\ stack' = Rest /\ ntype' = ntype
      /\ prog' = prog /\ heap' = heap /\ placeholder' = placeholder
      /\ ret'.status \in {"ok", "err"}
      /\ t \in ProvidedTypes \/ t.kind \in {"basic", "invalid"}
      /\ ret'.status = "ok" => t \in ProvidedTypes \/ t.kind = "basic"
  BY DEF ToTypeProvided, ToTypeBasic, ToTypeInvalid, Entering, Running, Return, Ok, Err
<1>2. Onward
  BY <1>1, SameHeapGrows, OnwardSame
<1>3. t \in Types
  BY <1>1, TopFields
<1>4. t \in Known(v)
  <2>1. KnownType(t, Known(v), v)
    BY <1>1 DEF KnownType
  <2> QED  BY <1>3, <2>1, KnownFacts
<1>5. ret'.status = "ok" => ~Wrong[t]
  <2>1. ret'.status = "ok" => ~WrongOf(Wrong, t)
    <3>1. t.kind = "basic" => t.elems = <<>>
      BY <1>3, TypesAssumption
    <3>2. t.kind = "basic" => DOMAIN t.elems = {}
      BY <3>1
    <3> QED  BY <1>1, <3>2 DEF WrongOf
  <2> QED  BY <1>3, <2>1, WrongDef
<1>6. \A u \in Types : Answers(Top, u, w) => u = t
  BY <1>1 DEF Answers, OfType
<1>0. w = World /\ v = NextWorld
  OBVIOUS
<1> HIDE DEF w, v, t
<1>7. ret'.status # "none" /\ Top.op # "fn"
  BY <1>1
<1> QED  BY <1>0, <1>1, <1>2, <1>4, <1>5, <1>6, <1>7, LoopReturn

LEMMA PlaceHeld ==
  ASSUME TypeOK, OncePerName, ConvInv, stack # <<>>, Top.op \in {"named", "range"},
         NEW w, w = World
  PROVE  NameOf(Top, w) \in Names /\ placeholder[NameOf(Top, w)] # NoType
<1>1. FrameOK(Top, w) /\ w.tab = resolved
  BY TopParts
<1>2. CASE Top.op = "named"
  <2>1. NameOf(Top, w) = Top.name /\ Top.name \in Names
    BY <1>1, <1>2 DEF NameOf, FrameOK
  <2>2. Top.name \in UnderWay(stack)
    BY <1>2, TopOnce, TopCompletes
  <2> QED  BY <2>1, <2>2 DEF OncePerName, Pending
<1>3. CASE Top.op = "range"
  <2>1. NameOf(Top, w) \in Names /\ resolved[NameOf(Top, w)] = Top.obj /\ Top.obj \in ObjectsOf(w.heap)
    BY <1>1, <1>3 DEF FrameOK
  <2>2. Top.obj # NoType
    BY <2>1, TypesAssumption DEF ObjectsOf
  <2> QED  BY <2>1, <2>2 DEF OncePerName
<1> QED  BY <1>2, <1>3

LEMMA NamedLoop ==
  ASSUME TypeOK, OncePerName, ConvInv, LoopInv, Onward, stack # <<>>,
         stack' = Rest, ntype' = ntype, ret'.status # "none",
         NEW n \in Names, placeholder'[n] # NoType \/ n \in Provided,
         Top.op \in {"ToType", "named", "range"},
         Pure(prog) => \A t \in Types : Answers(Top, t, World) => t.kind = "named" /\ t.name = n
  PROVE  LoopInv'
<1> DEFINE w == World
           v == NextWorld
<1>1. n \in Met(v)
  BY DEF Met, NextWorld
<1>2. Pure(prog) => \A t \in Types : Answers(Top, t, w) => t \in Known(v) /\ ~Wrong[t]
  BY <1>1, NamedKnown
<1>0. w = World /\ v = NextWorld
  OBVIOUS
<1> HIDE DEF w, v
<1> QED  BY <1>0, <1>2, LoopReturn

LEMMA NamesLoop ==
  ASSUME TypeOK, OncePerName, ConvInv, LoopInv, NEW n \in Names, NameProvided(n) \/ NameFound(n)
  PROVE  LoopInv'
<1>1. /\ stack # <<>> /\ Top.op = "ToType" /\ stack' = Rest /\ ntype' = ntype
      /\ prog' = prog /\ heap' = heap /\ placeholder' = placeholder
      /\ ret'.status # "none" /\ Top.typ.kind = "named" /\ Top.typ.name = n
      /\ n \in Provided \/ Matching(n) # {}
  BY DEF NameProvided, NameFound, Naming, Entering, Running, Return, Ok
<1>2. Onward
  BY <1>1, SameHeapGrows, OnwardSame
<1>3. placeholder[n] # NoType \/ n \in Provided
  <2>1. ASSUME Matching(n) # {}  PROVE placeholder[n] # NoType
    <3>1. n \in Matching(n)
      BY <2>1, MatchingIsOwn
    <3> QED  BY <3>1 DEF Matching, Entries
  <2> QED  BY <1>1, <2>1
<1>4. \A t \in Types : Answers(Top, t, World) => t = Top.typ
  BY <1>1 DEF Answers, OfType
<1>5. placeholder'[n] # NoType \/ n \in Provided
  BY <1>1, <1>3
<1>6. Pure(prog) => \A t \in Types : Answers(Top, t, World) => t.kind = "named" /\ t.name = n
  BY <1>1, <1>4
<1>7. Top.op \in {"ToType", "named", "range"}
  BY <1>1
<1> QED  BY <1>1, <1>2, <1>5, <1>6, <1>7, NamedLoop

LEMMA EndLoop ==
  ASSUME TypeOK, OncePerName, ConvInv, LoopInv, NamedErr \/ NamedPlain \/ RangeDone
  PROVE  LoopInv'
<1> DEFINE w == World
           n == NameOf(Top, w)
<1>1. /\ stack # <<>> /\ Top.op \in {"named", "range"} /\ stack' = Rest /\ ntype' = ntype
      /\ prog' = prog /\ placeholder' = placeholder /\ ret'.status # "none"
  BY DEF NamedErr, NamedPlain, RangeDone, Running, Return, Ok, Err
<1>2. Grows(heap, heap')
  <2>1. CASE NamedErr \/ RangeDone
    BY <2>1, SameHeapGrows DEF NamedErr, RangeDone
  <2>2. CASE NamedPlain
    <3> DEFINE m == Top.name
               u == ret.refs
               h == Append(heap, Object(m, u))
    <3>1. /\ m \in Names /\ u \in SUBSET ObjectsOf(heap) /\ heap \in Seq(HeapObjects(heap))
          /\ UpdateScope(m, Fresh, h)
      BY <1>1, <2>2, TopFields DEF TypeOK, NamedPlain, Running
    <3>2. m \in Names \cup {NoType} /\ h = Append(heap, Object(m, u))
      BY <3>1
    <3> HIDE DEF m, u, h
    <3>3. Extended(heap, m, u, h)
      BY <3>1, <3>2, AppendedUnders
    <3>4. h \in Seq(HeapObjects(h)) /\ Grows(heap, h) /\ Fresh \in ObjectsOf(h)
      BY <3>3 DEF Extended, Fresh
    <3> QED  BY <3>1, <3>4, UpdateScopeTypes
  <2> QED  BY <2>1, <2>2
<1>3. Onward
  BY <1>1, <1>2, OnwardSame
<1>4. n \in Names /\ placeholder[n] # NoType
  BY <1>1, PlaceHeld
<1>5. \A t \in Types : Answers(Top, t, World) => t.kind = "named" /\ t.name = n
  BY <1>1 DEF Answers, OfType
<1>6. placeholder'[n] # NoType
  BY <1>1, <1>4
<1> HIDE DEF n
<1>7. Top.op \in {"ToType", "named", "range"}
  BY <1>1
<1> QED  BY <1>1, <1>3, <1>4, <1>5, <1>6, <1>7, NamedLoop

LEMMA GoodElems ==
  ASSUME NEW t \in Types, t.kind \in {"composite", "interface", "embedding"},
         \A i \in 1..Len(t.elems) : ~Wrong[t.elems[i]]
  PROVE  ~Wrong[t]
<1>1. DOMAIN t.elems = 1..Len(t.elems)
  BY TypesAssumption
<1>2. ~WrongOf(Wrong, t)
  BY <1>1 DEF WrongOf
<1> QED  BY <1>2, WrongDef

LEMMA ElemErrLoop ==
  ASSUME TypeOK, ConvInv, LoopInv, ElemErr
  PROVE  LoopInv'
<1> DEFINE w == World
           v == NextWorld
           K == Known(v)
           f == Top
           n == f.done
           l == f.list
<1>1. /\ stack # <<>> /\ f.op \in {"elems", "fn"} /\ stack' = Rest /\ ntype' = ntype
      /\ prog' = prog /\ heap' = heap /\ placeholder' = placeholder
      /\ ret'.status = "err" /\ ret.status = "err"
  BY DEF ElemErr, Converting, Running, Return, Err
<1>2. Onward
  BY <1>1, SameHeapGrows, OnwardSame
<1>3. /\ FrameOK(f, w) /\ Has(f, w, ret) /\ w.prog = prog
  BY <1>1, TopParts
<1>4. IsLoop(f) /\ ret # NoResult /\ AskedType(f, w) = l[n]
  BY <1>1 DEF IsLoop, NoResult, AskedType
<1>5. n \in 1..Len(l) /\ l \in Seq(Types) /\ (Pure(prog) => Wrong[l[n]])
  BY <1>1, <1>3, <1>4 DEF Has, Right, FrameOK
<1>0. w = World /\ v = NextWorld
  OBVIOUS
<1>6. Known(w) \subseteq K
  <2> HIDE DEF w, v
  <2> QED  BY <1>0, <1>2, OnwardFacts
<1>7. ASSUME Pure(prog)  PROVE KnownList(l, K)
  <2>1. HasLearnt(f, Known(w), w, ret)
    BY <1>1, <1>7, LoopParts
  <2>2. l[n] \in Known(w) /\ \A i \in 1..(n - 1) : l[i] \in Known(w)
    BY <1>4, <2>1 DEF HasLearnt, Learnt
  <2> HIDE DEF w, K, n, l
  <2>3. ASSUME NEW i \in 1..Len(l), \A j \in 1..(i - 1) : ~Wrong[l[j]]  PROVE l[i] \in K
    <3>1. i <= n
      <4>1. CASE n <= i - 1
        <5>1. n \in 1..(i - 1)
          BY <1>5, <4>1
        <5> QED  BY <1>5, <1>7, <2>3, <5>1
      <4> QED  BY <1>5, <4>1
    <3>2. i = n \/ i \in 1..(n - 1)
      BY <1>5, <3>1
    <3> QED  BY <1>6, <2>2, <3>2
  <2> QED  BY <2>3 DEF KnownList
<1>8. ASSUME Pure(prog), f.op = "elems"  PROVE f.typ \in K
  <2>1. /\ f.typ \in Types /\ l = f.typ.elems /\ f.typ.kind \in {"composite", "interface", "embedding"}
    BY <1>3, <1>8 DEF FrameOK, OfType
  <2>2. ~\A i \in 1..Len(f.typ.elems) : ~Wrong[f.typ.elems[i]]
    BY <1>5, <1>8, <2>1
  <2>3. KnownType(f.typ, K, v)
    BY <1>7, <1>8, <2>1, <2>2 DEF KnownType
  <2> QED  BY <2>1, <2>3, KnownFacts
<1>9. ASSUME Pure(prog), f.op # "fn", NEW t \in Types, Answers(f, t, w)  PROVE t \in K
  BY <1>1, <1>8, <1>9 DEF Answers, OfType
<1>10. ret'.status # "none" /\ ret'.status # "ok"
  BY <1>1
<1> HIDE DEF w, v
<1> QED  BY <1>0, <1>1, <1>2, <1>7, <1>9, <1>10, LoopReturn

LEMMA BuiltLoop ==
  ASSUME TypeOK, ConvInv, LoopInv, CompositeBuilt \/ StructDone
  PROVE  LoopInv'
<1> DEFINE w == World
           v == NextWorld
           K == Known(v)
           t == Top.typ
<1>1. /\ stack # <<>> /\ Top.op \in {"elems", "embedded"} /\ stack' = Rest /\ ntype' = ntype
      /\ prog' = prog /\ heap' = heap /\ placeholder' = placeholder
      /\ ret'.status # "none"
      /\ Top.op = "elems" => ret = NoResult /\ Top.done = Len(Top.list) /\ prog.promoted[t] = <<>>
      /\ Top.op = "embedded" => ret # NoResult
  BY DEF CompositeBuilt, StructDone, Running, Return, Ok, AllTaken
<1>2. Onward
  BY <1>1, SameHeapGrows, OnwardSame
<1>3. /\ FrameOK(Top, w) /\ w.prog = prog
  BY <1>1, TopParts
<1>4. /\ t \in Types /\ t.kind \in {"composite", "interface", "embedding"}
      /\ Top.op = "elems" => Top.list = t.elems
  BY <1>1, <1>3 DEF FrameOK, OfType
<1>0. w = World /\ v = NextWorld
  OBVIOUS
<1>5. Known(w) \subseteq K /\ v.prog = prog
  <2> HIDE DEF w, v
  <2> QED  BY <1>0, <1>2, <1>3, OnwardFacts
<1>6. ASSUME Pure(prog)
      PROVE  /\ KnownList(t.elems, Known(w)) /\ KnownList(prog.promoted[t], Known(w))
             /\ \A i \in 1..Len(t.elems) : ~Wrong[t.elems[i]]
  <2>1. HasLearnt(Top, Known(w), w, ret)
    BY <1>1, <1>6, LoopParts
  <2>2. CASE Top.op = "elems"
    <3>1. \A i \in 1..Len(t.elems) : t.elems[i] \in Known(w) /\ ~Wrong[t.elems[i]]
      BY <1>1, <1>4, <2>1, <2>2 DEF HasLearnt, IsLoop
    <3>2. KnownList(<<>>, Known(w))
      BY DEF KnownList
    <3> QED  BY <1>1, <2>2, <3>1, <3>2 DEF KnownList
  <2>3. CASE Top.op = "embedded"
    <3>1. Learnt(Top, Known(w)) /\ KnownList(ListOf(Top, w), Known(w))
      BY <1>1, <2>1, <2>3 DEF HasLearnt
    <3> QED  BY <1>3, <2>3, <3>1 DEF Learnt, ListOf
  <2> QED  BY <1>1, <2>2, <2>3
<1>7. ASSUME Pure(prog)  PROVE t \in K /\ ~Wrong[t]
  <2>1. KnownList(t.elems, K) /\ KnownList(prog.promoted[t], K)
    <3> DEFINE a == t.elems
               b == prog.promoted[t]
               L == Known(w)
    <3>1. KnownList(a, L) /\ KnownList(b, L) /\ L \subseteq K
      BY <1>5, <1>6, <1>7
    <3> HIDE DEF a, b, L, K
    <3>2. KnownList(a, K) /\ KnownList(b, K)
      BY <3>1 DEF KnownList
    <3> QED  BY <3>2 DEF a, b
  <2>2. KnownType(t, K, v)
    <3> HIDE DEF K, v, t
    <3> QED  BY <1>4, <1>5, <2>1 DEF KnownType
  <2>3. t \in K
    BY <1>4, <2>2, KnownFacts
  <2> QED  BY <1>4, <1>6, <1>7, <2>3, GoodElems
<1>8. ASSUME NEW u \in Types, Answers(Top, u, w)  PROVE u = t
  BY <1>1, <1>8 DEF Answers, OfType
<1>9. Top.op # "fn"
  BY <1>1
<1> HIDE DEF w, v, t
<1> QED  BY <1>0, <1>1, <1>2, <1>7, <1>8, <1>9, LoopReturn

LEMMA SetLoop ==
  ASSUME TypeOK, ConvInv, LoopInv, SetMethodSet
  PROVE  LoopInv'
<1> DEFINE w == World
           v == NextWorld
           K == Known(v)
           l == Top.list
<1>1. /\ stack # <<>> /\ Top.op = "fn" /\ stack' = Rest /\ ntype' = ntype
      /\ prog' = prog /\ placeholder' = placeholder
      /\ ret'.status # "none" /\ ret = NoResult /\ Top.done = Len(l)
  BY DEF SetMethodSet, Running, Return, Ok, AllTaken
<1>2. Onward
  BY <1>1, MethodsSet, OnwardSame
<1>0. w = World /\ v = NextWorld
  OBVIOUS
<1>3. Known(w) \subseteq K
  <2> HIDE DEF w, v
  <2> QED  BY <1>0, <1>2, OnwardFacts
<1>4. ASSUME Pure(prog)  PROVE KnownList(l, K)
  <2>1. HasLearnt(Top, Known(w), w, ret)
    BY <1>1, <1>4, LoopParts
  <2>2. \A i \in 1..Len(l) : l[i] \in Known(w)
    BY <1>1, <2>1 DEF HasLearnt, IsLoop
  <2> QED  BY <1>3, <2>2 DEF KnownList
<1> HIDE DEF w, v
<1> QED  BY <1>0, <1>1, <1>2, <1>4, LoopReturn

(* The loop of UpdateType is under way around the frame at the top.        *)
Around == \E j \in 1..Len(Rest) : Rest[j].op = "range"

LEMMA AroundFacts ==
  ASSUME NEW K, NEW f, Around => Settled(f, K)
  PROVE  \A j \in 1..Len(Rest) : Amid(f, Rest[j], K)
BY DEF Around, Amid

LEMMA LoopPushes ==
  ASSUME TypeOK, LoopInv, Onward, stack # <<>>, ntype' = ntype,
         NEW w, w = World, NEW v, v = NextWorld, Pure(prog)
  PROVE  /\ AllKnown(v, ntype') /\ Piled(Rest, Known(v), ntype')
         /\ HasLearnt(Top, Known(w), w, ret) /\ Counts(Top, ntype')
         /\ Around => Settled(Top, Known(w))
         /\ Known(w) \subseteq Known(v) /\ v.prog = w.prog
         /\ Rest \in Seq(Frames(heap'))
<1>1. /\ AllKnown(w, ntype) /\ Piled(Rest, Known(w), ntype)
      /\ HasLearnt(Top, Known(w), w, ret) /\ Counts(Top, ntype)
      /\ \A j \in 1..Len(Rest) : Amid(Top, Rest[j], Known(w))
  BY LoopParts
<1>2. Known(w) \subseteq Known(v) /\ v.prog = w.prog /\ AllKnown(v, ntype)
  BY <1>1, OnwardFacts
<1>3. Piled(Rest, Known(v), ntype)
  <2> DEFINE s == Rest
             K == Known(w)
             M == Known(v)
  <2>1. K \subseteq M /\ Piled(s, K, ntype)
    BY <1>1, <1>2
  <2> HIDE DEF s, K, M
  <2>2. Piled(s, M, ntype)
    BY <2>1, PiledGrows
  <2> QED  BY <2>2 DEF s, M
<1>4. Around => Settled(Top, Known(w))
  BY <1>1 DEF Around, Amid
<1>5. Rest \in Seq(Frames(heap'))
  BY TopFacts, GrowFacts DEF Onward
<1> QED  BY <1>1, <1>2, <1>3, <1>4, <1>5

LEMMA LoopGoesOn ==
  ASSUME TypeOK, LoopInv, Onward, stack # <<>>, ntype' = ntype,
         NEW w, w = World, NEW v, v = NextWorld,
         NEW f, stack' = <<f>> \o Rest, f \in Frames(heap'),
         (Pure(prog) /\ (Around => Settled(Top, Known(w)))) =>
           /\ HasLearnt(f, Known(v), v, ret') /\ Counts(f, ntype')
           /\ Around => Settled(f, Known(v))
  PROVE  LoopInv'
<1> SUFFICES ASSUME Pure(prog)
             PROVE  AllKnown(v, ntype') /\ LoopStack(stack', v, ret', ntype')
  BY LoopNext DEF Onward
<1> DEFINE s == Rest
           r == ret'
           N == ntype'
           S == Frames(heap')
<1>1. /\ AllKnown(v, N) /\ Piled(s, Known(v), N) /\ s \in Seq(S)
      /\ Around => Settled(Top, Known(w))
  BY LoopPushes
<1>2. /\ HasLearnt(f, Known(v), v, r) /\ Counts(f, N) /\ f \in S
      /\ \A j \in 1..Len(s) : Amid(f, s[j], Known(v))
  BY <1>1, AroundFacts
<1> HIDE DEF s, r, N, S
<1>3. LoopStack(<<f>> \o s, v, r, N)
  BY <1>1, <1>2, LoopOne
<1> QED  BY <1>1, <1>3 DEF s, r, N

LEMMA LoopCalls ==
  ASSUME TypeOK, LoopInv, Onward, stack # <<>>, ntype' = ntype,
         NEW w, w = World, NEW v, v = NextWorld,
         NEW f, NEW k, stack' = <<f, k>> \o Rest, f \in Frames(heap'), k \in Frames(heap'),
         (Pure(prog) /\ (Around => Settled(Top, Known(w)))) =>
           /\ Learnt(k, Known(v)) /\ Counts(k, ntype')
           /\ Around => Settled(k, Known(v))
           /\ HasLearnt(f, Known(v), v, ret') /\ Counts(f, ntype') /\ Amid(f, k, Known(v))
           /\ Around => Settled(f, Known(v))
  PROVE  LoopInv'
<1> SUFFICES ASSUME Pure(prog)
             PROVE  AllKnown(v, ntype') /\ LoopStack(stack', v, ret', ntype')
  BY LoopNext DEF Onward
<1> DEFINE s == Rest
           r == ret'
           N == ntype'
           S == Frames(heap')
<1>1. /\ AllKnown(v, N) /\ Piled(s, Known(v), N) /\ s \in Seq(S)
      /\ Around => Settled(Top, Known(w))
  BY LoopPushes
<1>2. /\ Learnt(k, Known(v)) /\ Counts(k, N) /\ k \in S
      /\ \A j \in 1..Len(s) : Amid(k, s[j], Known(v))
      /\ HasLearnt(f, Known(v), v, r) /\ Counts(f, N) /\ f \in S /\ Amid(f, k, Known(v))
      /\ \A j \in 1..Len(s) : Amid(f, s[j], Known(v))
  BY <1>1, AroundFacts
<1> HIDE DEF s, r, N, S
<1>3. LoopStack(<<f, k>> \o s, v, r, N)
  BY <1>1, <1>2, LoopTwo
<1> QED  BY <1>1, <1>3 DEF s, r, N

(* A frame with the fields of another is settled with it.                  *)
LEMMA AlikeSettled ==
  ASSUME NEW f, NEW g, Alike(g, f), NEW K, NEW M, K \subseteq M, Settled(f, K)
  PROVE  Settled(g, M)
<1>1. Settled(f, M)
  BY PiledGrows
<1> QED  BY <1>1 DEF Settled, Alike, OfType

LEMMA CompositeLoop ==
  ASSUME TypeOK, ConvInv, LoopInv, ToTypeComposite
  PROVE  LoopInv'
<1> DEFINE w == World
           v == NextWorld
           f == Elems(Top.typ)
<1>1. /\ stack # <<>> /\ Top.op = "ToType" /\ stack' = <<f>> \o Rest /\ ntype' = ntype
      /\ prog' = prog /\ heap' = heap /\ placeholder' = placeholder /\ ret' = ret
  BY DEF ToTypeComposite, Entering, Running, Push
<1>2. Onward
  BY <1>1, SameHeapGrows, OnwardSame
<1>3. ret = NoResult
  BY <1>1, TopParts DEF Has
<1>4. f \in Frames(heap')
  <2>1. Top.typ \in Types /\ {} \in SUBSET ObjectsOf(heap')
    BY <1>1, TopFields
  <2> QED  BY <2>1, FrameTypes
<1>0. w = World /\ v = NextWorld
  OBVIOUS
<1>5. Known(w) \subseteq Known(v) \/ ~Pure(prog)
  <2> HIDE DEF w, v
  <2> QED  BY <1>0, <1>1, <1>2, LoopPushes
<1>6. f.op = "elems" /\ f.typ = Top.typ /\ f.done = 0
  BY DEF Elems, Frame
<1> HIDE DEF w, v, f
<1>7. HasLearnt(f, Known(v), v, ret') /\ Counts(f, ntype')
  BY <1>1, <1>3, <1>6 DEF HasLearnt, Counts
<1>8. ASSUME Pure(prog), Settled(Top, Known(w))  PROVE Settled(f, Known(v))
  BY <1>1, <1>5, <1>6, <1>8 DEF Settled, OfType
<1> QED  BY <1>0, <1>1, <1>2, <1>4, <1>7, <1>8, LoopGoesOn

LEMMA ElemOkLoop ==
  ASSUME TypeOK, ConvInv, LoopInv, ElemOk
  PROVE  LoopInv'
<1> DEFINE w == World
           v == NextWorld
           x == Top.refs \cup ret.refs
           f == [Top EXCEPT !.refs = x]
           n == Top.done
           l == Top.list
<1>1. /\ stack # <<>> /\ IsLoop(Top) /\ stack' = <<f>> \o Rest /\ ntype' = ntype
      /\ prog' = prog /\ heap' = heap /\ placeholder' = placeholder /\ ret' = NoResult
      /\ ret.status = "ok"
  BY DEF ElemOk, Converting, Running, Push, IsLoop
<1>2. Onward
  BY <1>1, SameHeapGrows, OnwardSame
<1>3. f \in Frames(heap') /\ Top \in Frames(heap)
  <2>1. x \in SUBSET ObjectsOf(heap)
    BY <1>1, TopFields, RetRefs
  <2> HIDE DEF x
  <2> QED  BY <1>1, <2>1, TopChanged, TopFacts
<1>4. Alike(f, Top) /\ f.done = n
  BY <1>3, FieldsOfExcept
<1>5. Has(Top, w, ret) /\ FrameOK(Top, w)
  BY <1>1, TopParts
<1>6. n \in Nat /\ n >= 1 /\ ret # NoResult
  BY <1>1, <1>5 DEF Has, FrameOK, NoResult
<1>0. w = World /\ v = NextWorld
  OBVIOUS
<1> HIDE DEF f, w, v
<1>7. ASSUME Pure(prog)
      PROVE  /\ HasLearnt(f, Known(v), v, ret')
             /\ Settled(Top, Known(w)) => Settled(f, Known(v))
  <2>1. HasLearnt(Top, Known(w), w, ret) /\ Known(w) \subseteq Known(v)
    BY <1>0, <1>1, <1>2, <1>7, LoopPushes
  <2>2. /\ \A i \in 1..(n - 1) : l[i] \in Known(w) /\ ~Wrong[l[i]]
        /\ l[n] \in Known(w) /\ ~Wrong[l[n]]
    BY <1>1, <1>6, <2>1 DEF HasLearnt, Learnt, AskedType
  <2>3. ASSUME NEW i \in 1..n  PROVE l[i] \in Known(v) /\ ~Wrong[l[i]]
    <3> HIDE DEF n, l
    <3>1. i = n \/ i \in 1..(n - 1)
      BY <1>6
    <3> QED  BY <2>1, <2>2, <3>1
  <2>4. f.done = n /\ f.list = l
    BY <1>4 DEF Alike
  <2> HIDE DEF n, l
  <2>5. HasLearnt(f, Known(v), v, ret')
    BY <1>1, <2>3, <2>4 DEF HasLearnt
  <2> QED  BY <1>4, <2>1, <2>5, AlikeSettled
<1>8. Counts(f, ntype')
  BY <1>1, <1>4 DEF Counts, Alike, IsLoop
<1> QED  BY <1>0, <1>1, <1>2, <1>3, <1>7, <1>8, LoopGoesOn

(* What a frame that has just been pushed has learnt.                      *)
LEMMA FreshLearnt ==
  ASSUME NEW K, NEW w, NEW N
  PROVE  /\ \A t \in Types : HasLearnt(CallToType(t), K, w, NoResult) /\ Counts(CallToType(t), N)
         /\ \A o, l : HasLearnt(Updater(o, l), K, w, NoResult) /\ Counts(Updater(o, l), N)
         /\ \A o : HasLearnt(RangeOver(o, N), K, w, NoResult) /\ Counts(RangeOver(o, N), N)
         /\ \A n : Learnt(NamedFrame(n), K) /\ Counts(NamedFrame(n), N)
         /\ \A n, o : Learnt(Attach(n, o), K) /\ Counts(Attach(n, o), N)
<1>1. \A t : CallToType(t).op = "ToType"
  BY DEF CallToType, Frame
<1>2. \A o, l : Updater(o, l).op = "fn" /\ Updater(o, l).done = 0
  BY DEF Updater, Frame
<1>3. \A n, o : NamedFrame(n).op = "named" /\ Attach(n, o).op = "attach"
  BY DEF NamedFrame, Attach, Frame
<1>4. \A o : RangeOver(o, N).op = "range" /\ RangeOver(o, N).refs = N
  BY DEF RangeOver, Frame
<1>5. \A f : f.op \in {"ToType", "range"} \/ (f.op = "fn" /\ f.done = 0) => HasLearnt(f, K, w, NoResult)
  BY DEF HasLearnt, IsLoop
<1>6. \A f : f.op \in {"ToType", "fn", "named", "attach"} => Counts(f, N)
  BY DEF Counts
<1>7. \A f : f.op \in {"named", "attach"} => Learnt(f, K)
  BY DEF Learnt, IsLoop
<1>8. \A t : HasLearnt(CallToType(t), K, w, NoResult) /\ Counts(CallToType(t), N)
  BY <1>1, <1>5, <1>6
<1>9. \A o, l : HasLearnt(Updater(o, l), K, w, NoResult) /\ Counts(Updater(o, l), N)
  BY <1>2, <1>5, <1>6
<1>10. \A o : HasLearnt(RangeOver(o, N), K, w, NoResult) /\ Counts(RangeOver(o, N), N)
  BY <1>4, <1>5 DEF Counts
<1>11. \A n, o : Learnt(NamedFrame(n), K) /\ Counts(NamedFrame(n), N)
  BY <1>3, <1>6, <1>7
<1>12. \A n, o : Learnt(Attach(n, o), K) /\ Counts(Attach(n, o), N)
  BY <1>3, <1>6, <1>7
<1> QED  BY <1>8, <1>9, <1>10, <1>11, <1>12

LEMMA NextElemLoop ==
  ASSUME TypeOK, ConvInv, LoopInv, NextElem
  PROVE  LoopInv'
<1> DEFINE w == World
           v == NextWorld
           n == Top.done
           l == Top.list
           m == n + 1
           t == l[m]
           f == CallToType(t)
           k == [Top EXCEPT !.done = m]
<1>1. /\ stack # <<>> /\ IsLoop(Top) /\ stack' = <<f, k>> \o Rest /\ ntype' = ntype
      /\ prog' = prog /\ heap' = heap /\ placeholder' = placeholder
      /\ ret = NoResult /\ ret' = NoResult /\ n # Len(l)
  BY DEF NextElem, Converting, Running, Push, AllTaken, IsLoop
<1>2. Onward
  BY <1>1, SameHeapGrows, OnwardSame
<1>3. /\ FrameOK(Top, w) /\ Top \in Frames(heap)
  BY <1>1, TopParts
<1>4. l \in Seq(Types) /\ n \in 0..Len(l)
  BY <1>3 DEF FrameOK
<1>5. m \in 1..Len(l) /\ m \in 0..Len(l) /\ t \in Types /\ m - 1 = n
  <2> HIDE DEF n, l
  <2> QED  BY <1>1, <1>4
<1>6. f \in Frames(heap') /\ k \in Frames(heap')
  <2>1. {} \in SUBSET ObjectsOf(heap')
    OBVIOUS
  <2> HIDE DEF t, m
  <2> QED  BY <1>1, <1>5, <2>1, FrameTypes, TopChanged
<1>7. Alike(k, Top) /\ k.done = m
  <2> HIDE DEF m
  <2> QED  BY <1>3, FieldsOfExcept, ZenonT(60)
<1>8. f.op = "ToType" /\ f.typ = t
  BY DEF CallToType, Frame
<1>0. w = World /\ v = NextWorld
  OBVIOUS
<1>9. HasLearnt(f, Known(v), v, ret') /\ Counts(f, ntype')
  <2> HIDE DEF t, v
  <2> QED  BY <1>1, <1>5, FreshLearnt
<1> HIDE DEF f, k, w, v
<1>10. ASSUME Pure(prog)
       PROVE  /\ Learnt(k, Known(v))
              /\ Settled(Top, Known(w)) => Settled(k, Known(v)) /\ Settled(f, Known(v))
  <2>1. HasLearnt(Top, Known(w), w, ret) /\ Known(w) \subseteq Known(v)
    BY <1>0, <1>1, <1>2, <1>10, LoopPushes
  <2>2. \A i \in 1..n : l[i] \in Known(w) /\ ~Wrong[l[i]]
    BY <1>1, <2>1 DEF HasLearnt
  <2>3. Learnt(k, Known(v))
    <3>1. k.done - 1 = n /\ k.list = l
      BY <1>5, <1>7 DEF Alike
    <3>2. k.op # "embedded"
      BY <1>1, <1>7 DEF Alike, IsLoop
    <3> HIDE DEF n, l
    <3> QED  BY <2>1, <2>2, <3>1, <3>2 DEF Learnt
  <2>4. ASSUME Settled(Top, Known(w))  PROVE Settled(k, Known(v)) /\ Settled(f, Known(v))
    <3>1. KnownList(l, Known(w))
      <4>1. CASE Top.op = "fn"
        BY <2>4, <4>1 DEF Settled
      <4>2. CASE Top.op = "elems"
        <5>1. Top.typ \in Known(w) /\ Top.typ \in Types
          BY <2>4, <4>2, <1>3 DEF Settled, OfType, FrameOK
        <5>2. KnownType(Top.typ, Known(w), w)
          BY <5>1, KnownFacts
        <5>3. /\ Top.typ \notin ProvidedTypes /\ l = Top.typ.elems
              /\ Top.typ.kind \in {"composite", "interface", "embedding"}
          BY <1>3, <4>2 DEF FrameOK
        <5> QED  BY <5>2, <5>3 DEF KnownType
      <4> QED  BY <1>1, <4>1, <4>2 DEF IsLoop
    <3>2. t \in Known(w)
      <4>1. \A j \in 1..(m - 1) : ~Wrong[l[j]]
        BY <1>5, <2>2
      <4> HIDE DEF m, l
      <4> QED  BY <1>5, <3>1, <4>1 DEF KnownList
    <3>3. Settled(f, Known(v))
      BY <1>8, <2>1, <3>2 DEF Settled
    <3> QED  BY <1>7, <2>1, <2>4, <3>3, AlikeSettled
  <2> QED  BY <2>3, <2>4
<1>11. Counts(k, ntype') /\ Amid(f, k, Known(v))
  BY <1>1, <1>7 DEF Counts, Amid, Alike, IsLoop
<1> HIDE DEF m, t
<1> QED  BY <1>0, <1>1, <1>2, <1>6, <1>9, <1>10, <1>11, LoopCalls

LEMMA EmbeddingLoop ==
  ASSUME TypeOK, ConvInv, LoopInv, StructWithMethods
  PROVE  LoopInv'
<1> DEFINE w == World
           v == NextWorld
           t == Top.typ
           o == Fresh
           l == prog.promoted[t]
           f == Updater(o, l)
           k == Embedded(t, o, Top.refs)
<1>1. /\ stack # <<>> /\ Top.op = "elems" /\ stack' = <<f, k>> \o Rest /\ ntype' = ntype
      /\ prog' = prog /\ placeholder' = placeholder
      /\ heap' = Append(heap, Object(NoType, Top.refs)) /\ heap \in Seq(HeapObjects(heap))
      /\ ret = NoResult /\ ret' = NoResult /\ Top.done = Len(Top.list)
  BY DEF StructWithMethods, Running, Push, AllTaken, TypeOK
<1>2. /\ FrameOK(Top, w) /\ w.prog = prog
  BY <1>1, TopParts
<1>3. Top.refs \in SUBSET ObjectsOf(heap) /\ t \in Types /\ l \in Seq(Types)
  BY <1>1, TopFields DEF TypeOK
<1>4. Grows(heap, heap') /\ o \in ObjectsOf(heap')
  BY <1>1, <1>3, AppendObject DEF Fresh
<1>5. Onward
  BY <1>1, <1>4, OnwardSame
<1>6. f \in Frames(heap') /\ k \in Frames(heap')
  <2>1. Top.refs \in SUBSET ObjectsOf(heap')
    BY <1>3, <1>4, GrowFacts
  <2> HIDE DEF l, o
  <2> QED  BY <1>3, <1>4, <2>1, FrameTypes
<1>7. f.op = "fn" /\ f.list = l
  BY DEF Updater, Frame
<1>8. k.op = "embedded" /\ k.typ = t
  BY DEF Embedded, Frame
<1>9. /\ t \notin ProvidedTypes /\ t.kind \in {"composite", "interface", "embedding"}
      /\ Top.list = t.elems
  BY <1>1, <1>2 DEF FrameOK
<1>0. w = World /\ v = NextWorld
  OBVIOUS
<1>10. HasLearnt(f, Known(v), v, ret') /\ Counts(f, ntype')
  <2> HIDE DEF l, v, o
  <2> QED  BY <1>1, FreshLearnt
<1> HIDE DEF f, k, w, v, o
<1>11. ASSUME Pure(prog)
       PROVE  /\ Learnt(k, Known(v))
              /\ Settled(Top, Known(w)) => Settled(k, Known(v)) /\ Settled(f, Known(v))
  <2>1. /\ HasLearnt(Top, Known(w), w, ret) /\ Known(w) \subseteq Known(v)
    BY <1>0, <1>1, <1>5, <1>11, LoopPushes
  <2>2. \A i \in 1..Len(t.elems) : t.elems[i] \in Known(v) /\ ~Wrong[t.elems[i]]
    BY <1>1, <1>9, <2>1 DEF HasLearnt, IsLoop
  <2>3. Learnt(k, Known(v))
    BY <1>8, <2>2 DEF Learnt, IsLoop, KnownList
  <2>4. ASSUME Settled(Top, Known(w))  PROVE Settled(k, Known(v)) /\ Settled(f, Known(v))
    <3>1. t \in Known(w)
      BY <1>1, <2>4 DEF Settled, OfType
    <3>2. KnownType(t, Known(w), w)
      BY <1>3, <3>1, KnownFacts
    <3>3. KnownList(l, Known(w))
      BY <1>2, <1>9, <2>2, <3>2 DEF KnownType
    <3> DEFINE K == Known(w)
               M == Known(v)
    <3>4. K \subseteq M /\ KnownList(l, K) /\ t \in K
      BY <2>1, <3>1, <3>3
    <3> HIDE DEF K, M, l, t
    <3>5. KnownList(l, M) /\ t \in M
      BY <3>4 DEF KnownList
    <3>6. Settled(k, M) /\ Settled(f, M)
      BY <1>7, <1>8, <3>5 DEF Settled, OfType
    <3> QED  BY <3>6 DEF M
  <2> QED  BY <2>3, <2>4
<1>12. Counts(k, ntype') /\ Amid(f, k, Known(v))
  BY <1>8 DEF Counts, Amid
<1> QED  BY <1>0, <1>1, <1>5, <1>6, <1>10, <1>11, <1>12, LoopCalls

LEMMA NewUnsettled ==
  ASSUME TypeOK, NEW n \in Names, NameNew(n), NEW w, w = World
  PROVE  ~Settled(Top, Known(w))
<1> SUFFICES ASSUME Settled(Top, Known(w))  PROVE FALSE
  OBVIOUS
<1>1. /\ stack # <<>> /\ Top.op = "ToType" /\ Top.typ \notin ProvidedTypes
      /\ Top.typ.kind = "named" /\ Top.typ.name = n /\ n \notin Provided /\ Matching(n) = {}
  BY DEF NameNew, Naming, Entering, Running
<1>2. Top.typ \in Known(w) /\ Top.typ \in Types
  BY <1>1, TopFields DEF Settled, OfType
<1>3. n \in Met(w)
  BY <1>1, <1>2, KnownFacts DEF KnownType
<1>4. placeholder[n] = NoType
  BY <1>1, MatchingIsOwn
<1> QED  BY <1>1, <1>3, <1>4 DEF Met, World

LEMMA NewLoop ==
  ASSUME TypeOK, OncePerName, ConvInv, LoopInv, NEW n \in Names, NameNew(n)
  PROVE  LoopInv'
<1> DEFINE w == World
           v == NextWorld
           t == Decl[n].under
           f == CallToType(t)
           k == NamedFrame(n)
<1>1. /\ stack # <<>> /\ Top.op = "ToType" /\ stack' = <<f, k>> \o Rest /\ ntype' = ntype
      /\ Top.typ \notin ProvidedTypes /\ Top.typ.kind = "named" /\ Top.typ.name = n
      /\ n \notin Provided /\ prog' = prog /\ placeholder' = [placeholder EXCEPT ![n] = Fresh]
      /\ placeholder \in [Names -> ObjectsOf(heap) \cup {NoType}]
      /\ ret' = ret /\ Matching(n) = {}
  BY DEF NameNew, Naming, Entering, Running, Push, TypeOK
<1>2. ret = NoResult
  BY <1>1, TopParts DEF Has
<1>0. w = World /\ v = NextWorld
  OBVIOUS
<1>3. Moves(w, v, {n}) /\ ImageIn(w, n) = NoType /\ v.heap = heap' /\ w.heap = heap
  <2>1. w.heap = heap /\ v.heap = heap'
    BY DEF World, NextWorld
  <2> HIDE DEF w, v
  <2>2. Entered(n, w, v)
    BY <1>0, NewWorld
  <2> QED  BY <2>1, <2>2 DEF Entered
<1>4. Onward
  <2>1. Grows(heap, heap')
    BY <1>3 DEF Moves
  <2>2. Fresh # NoType
    <3>1. Fresh \in Nat
      BY SameHeapGrows DEF Fresh
    <3> QED  BY <3>1, TypesAssumption
  <2>3. \A m \in Names : placeholder[m] # NoType => placeholder'[m] # NoType
    BY <1>1, <2>2
  <2> QED  BY <1>1, <2>1, <2>3 DEF Onward
<1>5. t \in Types /\ f \in Frames(heap') /\ k \in Frames(heap')
  <2>1. {} \in SUBSET ObjectsOf(heap')
    OBVIOUS
  <2>2. t \in Types
    BY DEF TypeOK, Decl
  <2> HIDE DEF t
  <2> QED  BY <2>1, <2>2, FrameTypes
<1>6. HasLearnt(f, Known(v), v, ret') /\ Counts(f, ntype')
  <2> HIDE DEF t, v
  <2> QED  BY <1>1, <1>2, <1>5, FreshLearnt
<1>7. Learnt(k, Known(v)) /\ Counts(k, ntype')
  <2> HIDE DEF v
  <2> QED  BY FreshLearnt
<1>8. ~Settled(Top, Known(w))
  <2> HIDE DEF w
  <2> QED  BY <1>0, NewUnsettled
<1>9. Amid(f, k, Known(v))
  BY DEF Amid, NamedFrame, Frame
<1> HIDE DEF f, k, w, v
<1> QED  BY <1>0, <1>1, <1>4, <1>5, <1>6, <1>7, <1>8, <1>9, LoopCalls

LEMMA MethodsLoop ==
  ASSUME TypeOK, ConvInv, LoopInv, NamedWithMethods
  PROVE  LoopInv'
<1> DEFINE w == World
           v == NextWorld
           n == Top.name
           u == ret.refs
           o == Fresh
           l == Decl[n].methods
           f == Updater(o, l)
           k == Attach(n, o)
<1>1. /\ stack # <<>> /\ Top.op = "named" /\ stack' = <<f, k>> \o Rest /\ ntype' = ntype
      /\ prog' = prog /\ placeholder' = placeholder /\ ret' = NoResult
      /\ heap' = Append(heap, Object(n, u)) /\ heap \in Seq(HeapObjects(heap))
  BY DEF NamedWithMethods, Running, Push, TypeOK
<1>2. n \in Names /\ u \in SUBSET ObjectsOf(heap) /\ l \in Seq(Types)
  BY <1>1, TopFields DEF TypeOK, Decl
<1>3. Grows(heap, heap') /\ o \in ObjectsOf(heap') /\ heap'[o].name = n
  <2> DEFINE h == heap'
  <2>1. n \in Names \cup {NoType} /\ h = Append(heap, Object(n, u))
    BY <1>1, <1>2
  <2> HIDE DEF u, h, n
  <2>2. Extended(heap, n, u, h)
    BY <1>1, <1>2, <2>1, AppendedUnders
  <2> QED  BY <2>2 DEF Extended, Fresh, h
<1>4. Onward
  BY <1>1, <1>3, OnwardSame
<1>5. f \in Frames(heap') /\ k \in Frames(heap')
  <2>1. {} \in SUBSET ObjectsOf(heap')
    OBVIOUS
  <2> HIDE DEF l, o, n
  <2> QED  BY <1>2, <1>3, <2>1, FrameTypes
<1>0. w = World /\ v = NextWorld
  OBVIOUS
<1>6. /\ HasLearnt(f, Known(v), v, ret') /\ Counts(f, ntype')
      /\ Learnt(k, Known(v)) /\ Counts(k, ntype')
  <2> HIDE DEF l, v, o, n
  <2> QED  BY <1>1, FreshLearnt
<1>7. Amid(f, k, Known(v))
  BY DEF Amid, Attach, Frame
<1>8. ~Settled(Top, Known(w))
  BY <1>1 DEF Settled
<1> HIDE DEF f, k, w, v
<1> QED  BY <1>0, <1>1, <1>4, <1>5, <1>6, <1>7, <1>8, LoopCalls

LEMMA RangeNextLoop ==
  ASSUME TypeOK, ConvInv, LoopInv, NEW o \in ntype, RangeNext(o)
  PROVE  LoopInv'
<1> DEFINE w == World
           v == NextWorld
           l == Decl[heap[o].name].methods
           x == Top.seen \cup {o}
           f == Updater(o, l)
           k == [Top EXCEPT !.seen = x]
<1>1. /\ stack # <<>> /\ Top.op = "range" /\ stack' = <<f, k>> \o Rest /\ ntype' = ntype
      /\ prog' = prog /\ heap' = heap /\ placeholder' = placeholder /\ ret' = NoResult
  BY DEF RangeNext, Running, Push
<1>2. /\ Top \in Frames(heap) /\ w.prog = prog /\ w.heap = heap
  BY <1>1, TopParts
<1>3. o \in ObjectsOf(heap) /\ l \in Seq(Types) /\ x \in SUBSET ObjectsOf(heap)
  BY <1>1, TopFields DEF TypeOK, Decl
<1>4. Onward
  BY <1>1, SameHeapGrows, OnwardSame
<1>5. f \in Frames(heap') /\ k \in Frames(heap')
  <2>1. {} \in SUBSET ObjectsOf(heap')
    OBVIOUS
  <2> HIDE DEF l, x
  <2> QED  BY <1>1, <1>3, <2>1, FrameTypes, TopChanged
<1>6. Alike(k, Top) /\ k.refs = Top.refs
  <2> HIDE DEF x
  <2> QED  BY <1>2, FieldsOfExcept
<1>0. w = World /\ v = NextWorld
  OBVIOUS
<1>7. HasLearnt(f, Known(v), v, ret') /\ Counts(f, ntype')
  <2> HIDE DEF l, v
  <2> QED  BY <1>1, FreshLearnt
<1>8. f.op = "fn" /\ f.list = l
  BY DEF Updater, Frame
<1>9. ~Settled(Top, Known(w))
  BY <1>1 DEF Settled
<1>10. Learnt(k, Known(v))
  <2> HIDE DEF k, v
  <2> QED  BY <1>1, <1>6 DEF Learnt, IsLoop, Alike
<1>11. ASSUME Pure(prog)  PROVE Counts(k, ntype') /\ Amid(f, k, Known(v))
  <2> HIDE DEF f, k
  <2>1. Counts(Top, ntype') /\ AllKnown(v, ntype')
    <3> HIDE DEF w, v
    <3> QED  BY <1>0, <1>1, <1>4, <1>11, LoopPushes
  <2>2. Counts(k, ntype')
    BY <1>6, <2>1 DEF Counts, Alike
  <2>3. KnownList(l, Known(v))
    <3>1. v.prog = prog /\ v.heap = heap /\ o \in ntype'
      BY <1>1 DEF NextWorld
    <3> HIDE DEF v
    <3> QED  BY <2>1, <3>1 DEF AllKnown, Decl
  <2> HIDE DEF v, l
  <2>4. Settled(f, Known(v))
    BY <1>8, <2>3 DEF Settled, OfType
  <2> QED  BY <2>2, <2>4 DEF Amid
<1> HIDE DEF f, k, w, v
<1> QED  BY <1>0, <1>1, <1>4, <1>5, <1>7, <1>9, <1>10, <1>11, LoopCalls

LEMMA PiledCount ==
  ASSUME NEW s, NEW K, NEW N, NEW M, Piled(s, K, N), \A j \in 1..Len(s) : s[j].op # "range"
  PROVE  Piled(s, K, M)
BY DEF Piled, Counts

LEMMA RegisterLoop ==
  ASSUME TypeOK, OncePerName, ConvInv, LoopInv, Register
  PROVE  LoopInv'
<1> SUFFICES ASSUME Pure(prog), NEW v, v = NextWorld
             PROVE  AllKnown(v, ntype') /\ LoopStack(stack', v, ret', ntype')
  BY LoopNext DEF Register, UpdateScope
<1> DEFINE w == World
           o == Top.obj
           s == Rest
           N == ntype'
           M == ntype
           k == RangeOver(o, N)
           r == ret'
           K == Known(v)
<1>1. /\ stack # <<>> /\ Top.op = "attach" /\ stack' = <<k>> \o s /\ N = M \cup {o}
      /\ prog' = prog /\ placeholder' = placeholder /\ UpdateScope(Top.name, o, heap)
      /\ r = NoResult /\ ret # NoResult
  BY DEF Register, Running, Push
<1>2. TypeOK'
  BY RegisterTypes
<1>3. /\ o \in ObjectsOf(heap) /\ Top.name \in Names /\ w.heap = heap /\ w.prog = prog
  BY <1>1, TopFields, TopParts
<1>4. Grows(heap, heap')
  BY <1>1, <1>3, SameHeapGrows, UpdateScopeTypes DEF TypeOK
<1>5. Onward
  BY <1>1, <1>4, OnwardSame
<1>0. w = World
  OBVIOUS
<1>6. AllKnown(w, M) /\ Piled(s, Known(w), M) /\ HasLearnt(Top, Known(w), w, ret)
      /\ \A j \in 1..Len(s) : Amid(Top, s[j], Known(w))
  <2> HIDE DEF w
  <2> QED  BY <1>0, <1>1, LoopParts
<1>7. Known(w) \subseteq K /\ v.prog = prog /\ v.heap = heap' /\ AllKnown(v, M)
  <2>1. v.heap = heap'
    BY DEF NextWorld
  <2> HIDE DEF w
  <2> QED  BY <1>0, <1>3, <1>5, <1>6, <2>1, OnwardFacts
<1>8. \A j \in 1..Len(s) : s[j].op # "range"
  BY <1>1, <1>6 DEF Amid, Settled
<1>9. Piled(s, K, N)
  <2> DEFINE L == Known(w)
  <2>1. Piled(s, L, M) /\ L \subseteq K /\ \A j \in 1..Len(s) : s[j].op # "range"
    BY <1>6, <1>7, <1>8
  <2> HIDE DEF L, K, s, M, N
  <2>2. Piled(s, K, M)
    BY <2>1, PiledGrows
  <2> QED  BY <2>1, <2>2, PiledCount
<1>10. AllKnown(v, N)
  <2> DEFINE l == prog.decl[heap[o].name].methods
  <2>1. KnownList(l, Known(w))
    BY <1>1, <1>3, <1>6 DEF HasLearnt, ListOf
  <2>2. heap'[o].name = heap[o].name
    BY <1>3, <1>4 DEF Grows
  <2>3. v.prog.decl[v.heap[o].name].methods = l
    BY <1>7, <2>2
  <2>4. KnownList(l, K)
    <3> DEFINE L == Known(w)
    <3>1. KnownList(l, L) /\ L \subseteq K
      BY <1>7, <2>1
    <3> HIDE DEF L, K, l
    <3> QED  BY <3>1 DEF KnownList
  <2> HIDE DEF l, o, N, M
  <2> QED  BY <1>1, <1>7, <2>3, <2>4 DEF AllKnown, K
<1>11. HasLearnt(k, K, v, r) /\ Counts(k, N)
  <2> HIDE DEF K, N, o
  <2> QED  BY <1>1, FreshLearnt
<1>12. k.op = "range"
  BY DEF RangeOver, Frame
<1> DEFINE S == Frames(heap')
<1>13. s \in Seq(S) /\ k \in S
  <2>1. N \in SUBSET ObjectsOf(heap') /\ o \in ObjectsOf(heap')
    BY <1>2, <1>3, <1>4, GrowFacts DEF TypeOK
  <2>2. k \in S
    <3> HIDE DEF N, o
    <3> QED  BY <2>1, FrameTypes
  <2>3. s \in Seq(S)
    BY <1>1, <1>4, TopFacts, GrowFacts
  <2> QED  BY <2>2, <2>3
<1> HIDE DEF k, s, S, N, r
<1>14. \A j \in 1..Len(s) : Amid(k, s[j], K)
  BY <1>8 DEF Amid
<1>15. LoopStack(<<k>> \o s, v, r, N)
  BY <1>9, <1>11, <1>13, <1>14, LoopOne
<1> QED  BY <1>1, <1>10, <1>15 DEF r, N

LEMMA AskLoop ==
  ASSUME TypeOK, LoopInv, NEW t \in Requests, Request(t)
  PROVE  LoopInv'
<1> SUFFICES ASSUME Pure(prog), NEW v, v = NextWorld
             PROVE  AllKnown(v, ntype') /\ LoopStack(stack', v, ret', ntype')
  BY LoopNext DEF Request
<1> DEFINE f == CallToType(t)
           s == <<f>>
           q == <<>>
           K == Known(v)
           N == ntype'
           r == ret'
<1>1. /\ stack' = s /\ prog' = prog /\ heap' = heap /\ resolved' = resolved
      /\ placeholder' = placeholder /\ N = ntype /\ r = NoResult /\ t \in Types
  BY TypesAssumption DEF Request
<1>2. v = World
  BY <1>1 DEF NextWorld, World
<1>3. AllKnown(v, N)
  BY <1>1, <1>2 DEF LoopInv
<1> DEFINE S == {f}
<1>4. Len(q) = 0 /\ q \in Seq(S) /\ s = <<f>> \o q /\ f \in S
  OBVIOUS
<1> HIDE DEF K, N, r, q, S
<1>5. HasLearnt(f, K, v, r) /\ Counts(f, N)
  BY <1>1, FreshLearnt
<1> HIDE DEF s, f
<1>6. Piled(q, K, N)
  BY <1>4 DEF Piled
<1>7. LoopStack(s, v, r, N)
  BY <1>4, <1>5, <1>6 DEF LoopStack, K
<1> QED  BY <1>1, <1>3, <1>4, <1>7 DEF r, N

LEMMA SameLoop ==
  ASSUME LoopInv, UNCHANGED vars
  PROVE  LoopInv'
BY DEF vars, LoopInv, World

LEMMA LoopStep ==
  ASSUME TypeOK, OncePerName, ConvInv, LoopInv, [Next]_vars
  PROVE  LoopInv'
<1>1. CASE UNCHANGED vars \/ NoMoreRequests
  BY <1>1, SameLoop DEF NoMoreRequests
<1>2. ASSUME NEW t \in Requests, Request(t)  PROVE LoopInv'
  BY <1>2, AskLoop
<1>3. CASE Convert
  <2>1. CASE ToTypeProvided \/ ToTypeBasic \/ ToTypeInvalid
    BY <2>1, LeafLoop
  <2>2. CASE ToTypeComposite
    BY <2>2, CompositeLoop
  <2>3. CASE NextElem
    BY <2>3, NextElemLoop
  <2>4. CASE ElemOk
    BY <2>4, ElemOkLoop
  <2>5. CASE ElemErr
    BY <2>5, ElemErrLoop
  <2>6. CASE CompositeBuilt \/ StructDone
    BY <2>6, BuiltLoop
  <2>7. CASE StructWithMethods
    BY <2>7, EmbeddingLoop
  <2>8. CASE SetMethodSet
    BY <2>8, SetLoop
  <2>9. ASSUME NEW n \in Names, NameProvided(n) \/ NameFound(n)  PROVE LoopInv'
    BY <2>9, NamesLoop
  <2>10. ASSUME NEW n \in Names, NameNew(n)  PROVE LoopInv'
    BY <2>10, NewLoop
  <2>11. CASE NamedErr \/ NamedPlain \/ RangeDone
    BY <2>11, EndLoop
  <2>12. CASE NamedWithMethods
    BY <2>12, MethodsLoop
  <2>13. CASE Register
    BY <2>13, RegisterLoop
  <2>14. ASSUME NEW o \in ntype, RangeNext(o)  PROVE LoopInv'
    BY <2>14, RangeNextLoop
  <2> QED  BY <1>3, <2>1, <2>2, <2>3, <2>4, <2>5, <2>6, <2>7, <2>8, <2>9, <2>10, <2>11, <2>12,
              <2>13, <2>14 DEF Convert
<1> QED  BY <1>1, <1>2, <1>3 DEF Next

LEMMA InitLoop == Init => LoopInv
<1> SUFFICES ASSUME Init  PROVE LoopInv
  OBVIOUS
<1>1. AllKnown(World, ntype) /\ LoopStack(stack, World, ret, ntype)
  BY DEF Init, AllKnown, LoopStack
<1> QED  BY <1>1 DEF LoopInv

(* Nothing is added to the map that UpdateType's loop ranges over, as long *)
(* as the structure of every declared type can be converted: what the loop *)
(* converts has had its conversion before, and meets no new name.          *)
THEOREM Undisturbed == Spec => []LoopUndisturbed
<1>1. TypeOK /\ OncePerName /\ ConvInv /\ LoopInv /\ [Next]_vars => LoopInv'
  BY LoopStep
<1>2. TypeOK /\ LoopInv => LoopUndisturbed
  <2> SUFFICES ASSUME TypeOK, LoopInv, Pure(prog), Running("range")  PROVE ntype = Top.refs
    BY DEF LoopUndisturbed
  <2>1. stack # <<>> /\ Top.op = "range"
    BY DEF Running
  <2>2. Counts(Top, ntype)
    BY <2>1, LoopParts
  <2> QED  BY <2>1, <2>2 DEF Counts
<1> QED  BY Typing, NoReentry, Conversions, InitLoop, <1>1, <1>2, PTL DEF Spec

-----------------------------------------------------------------------------
(* What UpdateType's loop does.  InSigs(p, n) are the names in the method  *)
(* signatures of n; a named type is refreshed when it has its methods and  *)
(* they mention the types that these names have by now.                    *)
InSigs(p, n) == UNION {Mentioned[p.decl[n].methods[i]] : i \in DOMAIN p.decl[n].methods}

Refreshed(o, w) == /\ w.heap[o].complete
                   /\ Faithful(w.heap[o].methods, InSigs(w.prog, w.heap[o].name), w)

Busy(f) == IF f.op = "fn" THEN {f.obj} ELSE {}

(* What the loops in the stack s have been through is refreshed, but for   *)
(* X and what the update functions above a loop are still busy with.       *)
Refreshing(s, w, X) ==
  \A j \in 1..Len(s) : s[j].op = "range" => \A o \in s[j].seen :
    /\ o \in ObjectsOf(w.heap) /\ w.heap[o].name \in Names
    /\ o \in X \/ Refreshed(o, w) \/ \E i \in 1..(j - 1) : o \in Busy(s[i])

RefreshInv == Clean => Refreshing(stack, World, {})

LEMMA RefreshTail ==
  ASSUME NEW S, NEW s \in Seq(S), s # <<>>, NEW w, Refreshing(s, w, {})
  PROVE  /\ Refreshing(Tail(s), w, Busy(Head(s)))
         /\ Head(s).op = "range" => \A o \in Head(s).seen :
              o \in ObjectsOf(w.heap) /\ w.heap[o].name \in Names /\ Refreshed(o, w)
<1> DEFINE q == Tail(s)
           h == Head(s)
           n == Len(s)
<1>1. /\ n \in Nat \ {0} /\ h = s[1] /\ Len(q) = n - 1
      /\ \A i \in 1..Len(q) : q[i] = s[i + 1]
  BY TailFacts
<1>2. \A j \in 1..n : s[j].op = "range" => \A o \in s[j].seen :
        /\ o \in ObjectsOf(w.heap) /\ w.heap[o].name \in Names
        /\ Refreshed(o, w) \/ \E i \in 1..(j - 1) : o \in Busy(s[i])
  BY DEF Refreshing
<1> HIDE DEF q, h, n
<1>3. ASSUME NEW j \in 1..Len(q), q[j].op = "range", NEW o \in q[j].seen
      PROVE  /\ o \in ObjectsOf(w.heap) /\ w.heap[o].name \in Names
             /\ o \in Busy(h) \/ Refreshed(o, w) \/ \E i \in 1..(j - 1) : o \in Busy(q[i])
  <2>1. j + 1 \in 1..n /\ q[j] = s[j + 1]
    BY <1>1
  <2>2. /\ o \in ObjectsOf(w.heap) /\ w.heap[o].name \in Names
        /\ Refreshed(o, w) \/ \E i \in 1..((j + 1) - 1) : o \in Busy(s[i])
    BY <1>2, <1>3, <2>1
  <2>3. ASSUME NEW i \in 1..((j + 1) - 1), o \in Busy(s[i])
        PROVE  o \in Busy(h) \/ \E k \in 1..(j - 1) : o \in Busy(q[k])
    <3>1. CASE i = 1
      BY <1>1, <2>3, <3>1
    <3>2. CASE i # 1
      <4> DEFINE k == i - 1
      <4>1. k \in 1..(j - 1) /\ k \in 1..Len(q) /\ k + 1 = i
        BY <1>1, <3>2
      <4> HIDE DEF k
      <4>2. q[k] = s[i]
        BY <1>1, <4>1
      <4> QED  BY <2>3, <4>1, <4>2
    <3> QED  BY <3>1, <3>2
  <2> QED  BY <2>2, <2>3
<1>4. Refreshing(q, w, Busy(h))
  BY <1>3 DEF Refreshing
<1>5. ASSUME h.op = "range", NEW o \in h.seen
      PROVE  o \in ObjectsOf(w.heap) /\ w.heap[o].name \in Names /\ Refreshed(o, w)
  <2>1. 1 \in 1..n /\ s[1] = h /\ \A i \in 1..(1 - 1) : FALSE
    BY <1>1
  <2> QED  BY <1>2, <1>5, <2>1
<1> QED  BY <1>4, <1>5 DEF q, h

LEMMA RefreshCons ==
  ASSUME NEW S, NEW s \in Seq(S), NEW f \in S, NEW w, NEW X, Refreshing(s, w, X \cup Busy(f)),
         f.op = "range" => \A o \in f.seen :
           o \in ObjectsOf(w.heap) /\ w.heap[o].name \in Names /\ (o \in X \/ Refreshed(o, w))
  PROVE  Refreshing(<<f>> \o s, w, X)
<1> DEFINE q == <<f>> \o s
           n == Len(s)
<1>1. /\ q \in Seq(S) /\ Len(q) = n + 1 /\ q[1] = f /\ n \in Nat
      /\ \A i \in 1..n : q[i + 1] = s[i]
  <2>1. n \in Nat
    OBVIOUS
  <2> QED  BY <2>1, ConsFacts
<1>2. \A j \in 1..n : s[j].op = "range" => \A o \in s[j].seen :
        /\ o \in ObjectsOf(w.heap) /\ w.heap[o].name \in Names
        /\ o \in X \/ o \in Busy(f) \/ Refreshed(o, w) \/ \E i \in 1..(j - 1) : o \in Busy(s[i])
  BY DEF Refreshing
<1> HIDE DEF q, n
<1>3. ASSUME NEW j \in 1..Len(q), q[j].op = "range", NEW o \in q[j].seen
      PROVE  /\ o \in ObjectsOf(w.heap) /\ w.heap[o].name \in Names
             /\ o \in X \/ Refreshed(o, w) \/ \E i \in 1..(j - 1) : o \in Busy(q[i])
  <2>1. CASE j = 1
    BY <1>1, <1>3, <2>1
  <2>2. CASE j # 1
    <3> DEFINE k == j - 1
    <3>1. k \in 1..n /\ k + 1 = j /\ 1 \in 1..(j - 1)
      BY <1>1, <2>2
    <3> HIDE DEF k
    <3>2. q[j] = s[k]
      BY <1>1, <3>1
    <3>3. /\ o \in ObjectsOf(w.heap) /\ w.heap[o].name \in Names
          /\ o \in X \/ o \in Busy(f) \/ Refreshed(o, w) \/ \E i \in 1..(k - 1) : o \in Busy(s[i])
      BY <1>2, <1>3, <3>1, <3>2
    <3>4. ASSUME NEW i \in 1..(k - 1), o \in Busy(s[i])
          PROVE  \E l \in 1..(j - 1) : o \in Busy(q[l])
      <4>1. i + 1 \in 1..(j - 1) /\ i \in 1..n
        BY <1>1, <3>1
      <4>2. q[i + 1] = s[i]
        BY <1>1, <4>1
      <4> QED  BY <3>4, <4>1, <4>2
    <3>5. o \in Busy(f) => \E l \in 1..(j - 1) : o \in Busy(q[l])
      BY <1>1, <3>1
    <3> QED  BY <3>3, <3>4, <3>5
  <2> QED  BY <2>1, <2>2
<1>4. Refreshing(q, w, X)
  BY <1>3 DEF Refreshing
<1> QED  BY <1>4 DEF q

(* What was refreshed stays so, but for objects that are accounted for.    *)
LEMMA RefreshMoves ==
  ASSUME NEW s, NEW w, NEW v, NEW X, NEW Y, Refreshing(s, w, X), Grows(w.heap, v.heap),
         \A o \in ObjectsOf(w.heap) : w.heap[o].name \in Names =>
           /\ Refreshed(o, w) => o \in Y \/ Refreshed(o, v)
           /\ o \in X => o \in Y \/ Refreshed(o, v)
  PROVE  Refreshing(s, v, Y)
<1>1. /\ ObjectsOf(w.heap) \subseteq ObjectsOf(v.heap)
      /\ \A o \in ObjectsOf(w.heap) : v.heap[o].name = w.heap[o].name
  BY GrowFacts DEF Grows
<1> QED  BY <1>1 DEF Refreshing

LEMMA RefreshNext ==
  ASSUME TypeOK, [Next]_vars, NEW v, v = NextWorld, Clean => Refreshing(stack', v, {})
  PROVE  RefreshInv'
<1>1. World' = v
  BY DEF World, NextWorld
<1>2. Clean' => Clean
  BY CleanBefore
<1>3. Refreshing(stack', v, {}) => Refreshing(stack, World, {})'
  BY <1>1
<1> QED  BY <1>2, <1>3 DEF RefreshInv

LEMMA RefreshParts ==
  ASSUME TypeOK, RefreshInv, Clean, stack # <<>>, NEW w, w = World
  PROVE  /\ Refreshing(Rest, w, Busy(Top))
         /\ Top.op = "range" => \A o \in Top.seen :
              o \in ObjectsOf(w.heap) /\ w.heap[o].name \in Names /\ Refreshed(o, w)
<1> DEFINE s == stack
           S == Frames(heap)
<1>1. s \in Seq(S) /\ s # <<>> /\ Refreshing(s, w, {})
  BY DEF TypeOK, RefreshInv
<1> HIDE DEF s, S
<1>2. /\ Refreshing(Tail(s), w, Busy(Head(s)))
      /\ Head(s).op = "range" => \A o \in Head(s).seen :
           o \in ObjectsOf(w.heap) /\ w.heap[o].name \in Names /\ Refreshed(o, w)
  BY <1>1, RefreshTail
<1> QED  BY <1>2 DEF s, Top, Rest

LEMMA NotAround ==
  ASSUME TypeOK, ConvInv, LoopInv, Clean, stack # <<>>,
         Top.op \in {"named", "attach", "range"} \/ ~Settled(Top, Known(World))
  PROVE  /\ ~Around /\ \A v, X : Refreshing(Rest, v, X)
<1> DEFINE w == World
<1>1. Pure(prog)
  BY CleanIsPure
<1>2. ~Settled(Top, Known(w))
  BY DEF Settled
<1>3. w = World
  OBVIOUS
<1> HIDE DEF w
<1>4. \A j \in 1..Len(Rest) : Amid(Top, Rest[j], Known(w))
  BY <1>1, <1>3, LoopParts
<1>5. ~Around
  BY <1>2, <1>4 DEF Around, Amid
<1> QED  BY <1>5 DEF Around, Refreshing

LEMMA RefreshGoesOn ==
  ASSUME TypeOK, stack # <<>>, NEW v, NEW f, Refreshing(Rest, v, Busy(f)),
         f.op = "range" => \A o \in f.seen :
           o \in ObjectsOf(v.heap) /\ v.heap[o].name \in Names /\ Refreshed(o, v)
  PROVE  Refreshing(<<f>> \o Rest, v, {})
<1> DEFINE s == Rest
           S == Frames(heap) \cup {f}
           X == {}
<1>1. s \in Seq(S) /\ f \in S
  <2>1. s \in Seq(Frames(heap)) /\ Frames(heap) \subseteq S
    BY TopFacts
  <2> HIDE DEF s, S
  <2>2. s \in Seq(S)
    BY <2>1, SeqMonotone
  <2> QED  BY <2>2 DEF S
<1>2. Refreshing(s, v, X \cup Busy(f))
  <2>1. X \cup Busy(f) = Busy(f)
    OBVIOUS
  <2> QED  BY <2>1
<1> HIDE DEF s, S, X
<1>3. Refreshing(<<f>> \o s, v, X)
  BY <1>1, <1>2, RefreshCons
<1> QED  BY <1>3 DEF s, X

LEMMA RefreshCalls ==
  ASSUME TypeOK, stack # <<>>, NEW v, NEW f, NEW k, Refreshing(Rest, v, Busy(f) \cup Busy(k)),
         f.op # "range",
         k.op = "range" => \A o \in k.seen :
           o \in ObjectsOf(v.heap) /\ v.heap[o].name \in Names /\ (o \in Busy(f) \/ Refreshed(o, v))
  PROVE  Refreshing(<<f, k>> \o Rest, v, {})
<1> DEFINE s == Rest
           S == Frames(heap) \cup {f, k}
           X == {}
           Y == Busy(f)
           q == <<k>> \o s
<1>1. s \in Seq(S) /\ f \in S /\ k \in S
  <2>1. s \in Seq(Frames(heap)) /\ Frames(heap) \subseteq S
    BY TopFacts
  <2> HIDE DEF s, S
  <2>2. s \in Seq(S)
    BY <2>1, SeqMonotone
  <2> QED  BY <2>2 DEF S
<1>2. Refreshing(s, v, Y \cup Busy(k)) /\ X \cup Busy(f) = Y
  OBVIOUS
<1>3. k.op = "range" => \A o \in k.seen :
        o \in ObjectsOf(v.heap) /\ v.heap[o].name \in Names /\ (o \in Y \/ Refreshed(o, v))
  OBVIOUS
<1>4. <<f, k>> \o s = <<f>> \o q
  <2> HIDE DEF s, S
  <2> QED  BY <1>1, ConsTwice
<1>5. q \in Seq(S)
  <2> HIDE DEF s, S
  <2> QED  BY <1>1, ConsFacts
<1> HIDE DEF s, S, X, Y
<1>6. Refreshing(q, v, Y)
  BY <1>1, <1>2, <1>3, RefreshCons
<1> HIDE DEF q
<1>7. Refreshing(q, v, X \cup Busy(f))
  BY <1>2, <1>6
<1>8. Refreshing(<<f>> \o q, v, X)
  BY <1>1, <1>5, <1>7, RefreshCons
<1> QED  BY <1>4, <1>8 DEF s, X

(* No loop goes on below a name that is being converted.                   *)
LEMMA AloneRefresh ==
  ASSUME TypeOK, ConvInv, LoopInv, RefreshInv, [Next]_vars,
         \/ NamedErr \/ NamedPlain \/ NamedWithMethods \/ RangeDone
         \/ \E n \in Names : NameNew(n)
  PROVE  RefreshInv'
<1> DEFINE v == NextWorld
<1> SUFFICES ASSUME Clean  PROVE Refreshing(stack', v, {})
  BY RefreshNext
<1> HIDE DEF v
<1>1. CASE NamedErr \/ NamedPlain \/ RangeDone
  <2>1. stack # <<>> /\ Top.op \in {"named", "attach", "range"} /\ stack' = Rest
    BY <1>1 DEF NamedErr, NamedPlain, RangeDone, Running, Return
  <2> QED  BY <2>1, NotAround
<1>2. CASE NamedWithMethods
  <2> DEFINE f == Updater(Fresh, Decl[Top.name].methods)
             k == Attach(Top.name, Fresh)
  <2>1. stack # <<>> /\ Top.op \in {"named", "attach", "range"} /\ stack' = <<f, k>> \o Rest
    BY <1>2 DEF NamedWithMethods, Running, Push
  <2>2. f.op = "fn" /\ k.op = "attach"
    BY DEF Updater, Attach, Frame
  <2> HIDE DEF f, k
  <2>3. Refreshing(Rest, v, Busy(f) \cup Busy(k))
    BY <2>1, NotAround
  <2> QED  BY <2>1, <2>2, <2>3, RefreshCalls
<1>3. ASSUME NEW n \in Names, NameNew(n)  PROVE Refreshing(stack', v, {})
  <2> DEFINE f == CallToType(Decl[n].under)
             k == NamedFrame(n)
  <2>1. stack # <<>> /\ stack' = <<f, k>> \o Rest
    BY <1>3 DEF NameNew, Naming, Entering, Running, Push
  <2>2. f.op = "ToType" /\ k.op = "named"
    BY DEF CallToType, NamedFrame, Frame
  <2>3. ~Settled(Top, Known(World))
    <3> DEFINE w == World
    <3>1. w = World
      OBVIOUS
    <3> HIDE DEF w
    <3>2. ~Settled(Top, Known(w))
      BY <1>3, <3>1, NewUnsettled
    <3> QED  BY <3>1, <3>2
  <2> HIDE DEF f, k
  <2>4. Refreshing(Rest, v, Busy(f) \cup Busy(k))
    BY <2>1, <2>3, NotAround
  <2> QED  BY <2>1, <2>2, <2>4, RefreshCalls
<1> QED  BY <1>1, <1>2, <1>3

LEMMA RegisterRefresh ==
  ASSUME TypeOK, ConvInv, LoopInv, RefreshInv, [Next]_vars, Register
  PROVE  RefreshInv'
<1> DEFINE v == NextWorld
           f == RangeOver(Top.obj, ntype')
<1> SUFFICES ASSUME Clean  PROVE Refreshing(stack', v, {})
  BY RefreshNext
<1>1. stack # <<>> /\ Top.op \in {"named", "attach", "range"} /\ stack' = <<f>> \o Rest
  BY DEF Register, Running, Push
<1>2. f.seen = {}
  BY DEF RangeOver, Frame
<1> HIDE DEF v, f
<1>3. Refreshing(Rest, v, Busy(f))
  BY <1>1, NotAround
<1> QED  BY <1>1, <1>2, <1>3, RefreshGoesOn

LEMMA RangeNextRefresh ==
  ASSUME TypeOK, ConvInv, LoopInv, RefreshInv, [Next]_vars, NEW o \in ntype, RangeNext(o)
  PROVE  RefreshInv'
<1> DEFINE v == NextWorld
           w == World
           x == Top.seen \cup {o}
           f == Updater(o, Decl[heap[o].name].methods)
           k == [Top EXCEPT !.seen = x]
<1> SUFFICES ASSUME Clean  PROVE Refreshing(stack', v, {})
  BY RefreshNext
<1>1. /\ stack # <<>> /\ Top.op = "range" /\ stack' = <<f, k>> \o Rest
      /\ heap' = heap /\ resolved' = resolved /\ placeholder' = placeholder /\ prog' = prog
  BY DEF RangeNext, Running, Push
<1>2. v = w /\ w.heap = heap
  BY <1>1 DEF NextWorld, World
<1>3. f.op = "fn" /\ f.obj = o
  BY DEF Updater, Frame
<1>4. k.op = "range" /\ k.seen = x
  <2>1. Top \in Frames(heap)
    BY <1>1, TopFacts
  <2> HIDE DEF x
  <2>2. Alike(k, Top) /\ k.seen = x
    BY <2>1, FieldsOfExcept, ZenonT(60)
  <2> QED  BY <1>1, <2>2 DEF Alike
<1>5. o \in ObjectsOf(heap) /\ heap[o].name \in Names
  BY DEF TypeOK
<1>6. \A y \in Top.seen : y \in ObjectsOf(w.heap) /\ w.heap[y].name \in Names /\ Refreshed(y, w)
  <2>1. w = World
    OBVIOUS
  <2> HIDE DEF w
  <2> QED  BY <1>1, <2>1, RefreshParts
<1> HIDE DEF v, w, f, k
<1>7. Refreshing(Rest, v, Busy(f) \cup Busy(k))
  BY <1>1, NotAround
<1>8. \A y \in k.seen : /\ y \in ObjectsOf(v.heap) /\ v.heap[y].name \in Names
                        /\ y \in Busy(f) \/ Refreshed(y, v)
  BY <1>2, <1>3, <1>4, <1>5, <1>6 DEF Busy
<1>9. f.op # "range"
  BY <1>3
<1> QED  BY <1>1, <1>7, <1>8, <1>9, RefreshCalls

(* The update function of a named type converts its method signatures.     *)
LEMMA TopUpdater ==
  ASSUME TypeOK, ConvInv, stack # <<>>, Top.op = "fn", NEW w, w = World, NEW n,
         n = w.heap[Top.obj].name, n \in Names
  PROVE  /\ Top.list = w.prog.decl[n].methods
         /\ FirstOf(Top, Len(Top.list)) = InSigs(w.prog, n)
<1> DEFINE g == Caller(Rest, Client)
           s == Rest
           c == Client
<1>1. /\ Serves(Top, g, w) /\ Waiting(s, c, w) /\ s \in Seq(Frames(heap)) /\ c.op = "client"
      /\ FrameOK(Top, w) /\ w.prog = prog
  BY TopParts
<1>2. Updates(Top, g, w) /\ ~Asks(g)
  BY <1>1 DEF Serves
<1>3. n # NoType
  BY TypesAssumption
<1>4. g.op # "embedded"
  <2> SUFFICES ASSUME g.op = "embedded"  PROVE FALSE
    OBVIOUS
  <2>1. s # <<>>
    <3>1. ASSUME s = <<>>  PROVE g = c
      BY <3>1 DEF Caller, Asker
    <3> HIDE DEF g
    <3> QED  BY <1>1, <3>1
  <2>2. g = Head(s)
    <3>1. 0 < Len(s) /\ s[0 + 1] = Head(s)
      BY <1>1, <2>1, TailFacts
    <3> QED  BY <3>1 DEF Caller, Asker
  <2>3. FrameOK(g, w)
    <3> HIDE DEF g, s, c
    <3> QED  BY <1>1, <2>1, <2>2, WaitingTail
  <2>4. w.heap[g.obj].name = NoType /\ Top.obj = g.obj
    BY <1>2, <2>3 DEF FrameOK, Updates
  <2> QED  BY <1>3, <2>4
<1>5. Top.list = w.prog.decl[n].methods
  BY <1>2, <1>4 DEF Updates
<1>6. FirstOf(Top, Len(Top.list)) = InSigs(w.prog, n)
  <2> DEFINE l == Top.list
  <2>1. l \in Seq(Types) /\ l = w.prog.decl[n].methods
    BY <1>1, <1>5 DEF FrameOK
  <2>2. FirstOf(Top, Len(l)) = UNION {Mentioned[l[i]] : i \in 1..Len(l)}
    BY DEF FirstOf
  <2> HIDE DEF l
  <2>3. DOMAIN l = 1..Len(l)
    BY <2>1
  <2>4. InSigs(w.prog, n) = UNION {Mentioned[l[i]] : i \in DOMAIN l}
    BY <2>1 DEF InSigs
  <2> QED  BY <2>2, <2>3, <2>4 DEF l
<1> QED  BY <1>5, <1>6

LEMMA WorldKept ==
  ASSUME heap' = heap, resolved' = resolved, placeholder' = placeholder, prog' = prog
  PROVE  NextWorld = World
BY DEF NextWorld, World

LEMMA PopsRefresh ==
  ASSUME TypeOK, ConvInv, RefreshInv, [Next]_vars,
         \/ ToTypeProvided \/ ToTypeBasic \/ ToTypeInvalid \/ CompositeBuilt \/ StructDone
         \/ \E n \in Names : NameProvided(n) \/ NameFound(n)
  PROVE  RefreshInv'
<1> DEFINE v == NextWorld
           w == World
<1> SUFFICES ASSUME Clean  PROVE Refreshing(stack', v, {})
  BY RefreshNext
<1>1. /\ stack # <<>> /\ Top.op \in {"ToType", "elems", "embedded"} /\ stack' = Rest
      /\ heap' = heap /\ resolved' = resolved /\ placeholder' = placeholder /\ prog' = prog
  BY DEF ToTypeProvided, ToTypeBasic, ToTypeInvalid, CompositeBuilt, StructDone, NameProvided,
         NameFound, Naming, Entering, Running, Return
<1>2. v = w
  BY <1>1, WorldKept
<1>3. w = World
  OBVIOUS
<1> HIDE DEF v, w
<1>4. Refreshing(Rest, w, Busy(Top)) /\ Busy(Top) = {}
  BY <1>1, <1>3, RefreshParts DEF Busy
<1> QED  BY <1>1, <1>2, <1>4

LEMMA ElemErrRefresh ==
  ASSUME TypeOK, ConvInv, RefreshInv, [Next]_vars, ElemErr
  PROVE  RefreshInv'
<1> DEFINE v == NextWorld
           w == World
           s == Rest
           X == Busy(Top)
           Y == {}
<1> SUFFICES ASSUME Clean  PROVE Refreshing(stack', v, Y)
  BY RefreshNext
<1>1. /\ stack # <<>> /\ Top.op \in {"elems", "fn"} /\ stack' = s /\ ret.status = "err"
      /\ heap' = heap /\ resolved' = resolved /\ placeholder' = placeholder /\ prog' = prog
  BY DEF ElemErr, Converting, Running, Return
<1>2. v = w
  BY <1>1, WorldKept
<1>3. w = World
  OBVIOUS
<1>4. w.prog = prog /\ w.heap = heap
  BY DEF World
<1> HIDE DEF w, v
<1>5. Refreshing(s, w, X)
  BY <1>1, <1>3, RefreshParts
<1>6. ASSUME NEW o \in X, w.heap[o].name \in Names  PROVE FALSE
  <2>1. Top.op = "fn" /\ o = Top.obj
    BY <1>6 DEF Busy
  <2> DEFINE n == w.heap[Top.obj].name
  <2>2. n \in Names
    BY <1>6, <2>1
  <2>3. Top.list = w.prog.decl[n].methods
    <3>1. n = w.heap[Top.obj].name
      OBVIOUS
    <3> HIDE DEF n
    <3> QED  BY <1>1, <1>3, <2>1, <2>2, <3>1, TopUpdater
  <2>4. /\ Has(Top, w, ret) /\ FrameOK(Top, w)
    BY <1>1, <1>3, TopParts
  <2>5. /\ Top.done \in 1..Len(Top.list) /\ Top.list \in Seq(Types)
        /\ Right(ret, Top.list[Top.done], w)
    BY <1>1, <2>1, <2>4 DEF Has, IsLoop, NoResult, FrameOK, AskedType
  <2>6. Pure(w.prog)
    BY <1>4, CleanIsPure
  <2>7. Wrong[Top.list[Top.done]]
    BY <1>1, <2>5, <2>6 DEF Right
  <2>8. Top.done \in DOMAIN Decl[n].methods
    BY <1>4, <2>3, <2>5 DEF Decl
  <2> QED  BY <1>4, <2>2, <2>3, <2>7, <2>8 DEF Clean, Decl
<1>7. Grows(w.heap, v.heap)
  BY <1>2, <1>4, SameHeapGrows
<1>8. \A o \in ObjectsOf(w.heap) : w.heap[o].name \in Names =>
        /\ Refreshed(o, w) => o \in Y \/ Refreshed(o, v)
        /\ o \in X => o \in Y \/ Refreshed(o, v)
  BY <1>2, <1>6
<1> HIDE DEF s, X, Y
<1>9. Refreshing(s, v, Y)
  BY <1>5, <1>7, <1>8, RefreshMoves
<1> QED  BY <1>1, <1>9

LEMMA LoopsRefresh ==
  ASSUME TypeOK, ConvInv, RefreshInv, [Next]_vars, ToTypeComposite \/ NextElem \/ ElemOk
  PROVE  RefreshInv'
<1> DEFINE v == NextWorld
           w == World
<1> SUFFICES ASSUME Clean  PROVE Refreshing(stack', v, {})
  BY RefreshNext
<1>1. /\ stack # <<>> /\ Top.op \in {"ToType", "elems", "fn"}
      /\ heap' = heap /\ resolved' = resolved /\ placeholder' = placeholder /\ prog' = prog
  BY DEF ToTypeComposite, NextElem, ElemOk, Entering, Converting, Running
<1>2. v = w
  BY <1>1, WorldKept
<1>3. w = World
  OBVIOUS
<1> HIDE DEF v, w
<1>4. Refreshing(Rest, v, Busy(Top))
  BY <1>1, <1>2, <1>3, RefreshParts
<1>5. Top \in Frames(heap)
  BY <1>1, TopFacts
<1>6. CASE ToTypeComposite
  <2> DEFINE f == Elems(Top.typ)
  <2>1. stack' = <<f>> \o Rest /\ Top.op = "ToType"
    BY <1>6 DEF ToTypeComposite, Entering, Running, Push
  <2>2. f.op = "elems"
    BY DEF Elems, Frame
  <2> HIDE DEF f
  <2>3. Busy(f) = {} /\ Busy(Top) = {}
    BY <2>1, <2>2 DEF Busy
  <2>4. Refreshing(Rest, v, Busy(f))
    BY <1>4, <2>3
  <2> QED  BY <1>1, <2>1, <2>2, <2>4, RefreshGoesOn
<1>7. CASE ElemOk
  <2> DEFINE x == Top.refs \cup ret.refs
             f == [Top EXCEPT !.refs = x]
  <2>1. stack' = <<f>> \o Rest
    BY <1>7 DEF ElemOk, Push
  <2>2. Alike(f, Top)
    <3> HIDE DEF x
    <3> QED  BY <1>5, FieldsOfExcept
  <2> HIDE DEF f
  <2>3. Busy(f) = Busy(Top) /\ f.op # "range"
    BY <1>1, <2>2 DEF Busy, Alike
  <2>4. Refreshing(Rest, v, Busy(f))
    BY <1>4, <2>3
  <2> QED  BY <1>1, <2>1, <2>3, <2>4, RefreshGoesOn
<1>8. CASE NextElem
  <2> DEFINE x == Top.done + 1
             f == CallToType(Top.list[x])
             k == [Top EXCEPT !.done = x]
  <2>1. stack' = <<f, k>> \o Rest /\ Top.op # "ToType"
    BY <1>8 DEF NextElem, Push, Converting, Running
  <2>2. Alike(k, Top)
    <3> HIDE DEF x
    <3> QED  BY <1>5, FieldsOfExcept
  <2>3. f.op = "ToType"
    BY DEF CallToType, Frame
  <2> HIDE DEF f, k
  <2>4. Busy(f) = {} /\ Busy(k) = Busy(Top) /\ f.op # "range" /\ k.op # "range"
    BY <1>1, <2>2, <2>3 DEF Busy, Alike
  <2>5. Refreshing(Rest, v, Busy(f) \cup Busy(k))
    <3>1. Busy(f) \cup Busy(k) = Busy(Top)
      BY <2>4
    <3> QED  BY <1>4, <3>1
  <2> QED  BY <1>1, <2>1, <2>4, <2>5, RefreshCalls
<1> QED  BY <1>6, <1>7, <1>8

LEMMA InSigsNames ==
  ASSUME NEW p, ProgramOK(p), NEW n \in Names
  PROVE  InSigs(p, n) \in SUBSET Names
<1> DEFINE l == p.decl[n].methods
<1>1. l \in Seq(Types)
  BY DEF ProgramOK
<1> HIDE DEF l
<1>2. \A i \in DOMAIN l : l[i] \in Types
  BY <1>1
<1>3. \A i \in DOMAIN l : Mentioned[l[i]] \subseteq Names
  BY <1>2, MentionedNames
<1>4. InSigs(p, n) = UNION {Mentioned[l[i]] : i \in DOMAIN l}
  BY DEF InSigs, l
<1> QED  BY <1>3, <1>4

LEMMA RefreshedMoves ==
  ASSUME NEW w, NEW v, ProgramOK(w.prog), Moves(w, v, {}), NEW o \in ObjectsOf(w.heap),
         w.heap[o].name \in Names, Refreshed(o, w),
         v.heap[o].methods = w.heap[o].methods, v.heap[o].complete = w.heap[o].complete
  PROVE  Refreshed(o, v)
<1> DEFINE S == InSigs(w.prog, w.heap[o].name)
           R == w.heap[o].methods
           X == {}
<1>1. S \in SUBSET Names
  BY InSigsNames
<1>2. v.heap[o].name = w.heap[o].name /\ v.prog = w.prog
  BY DEF Moves, Grows
<1>3. Faithful(R, S, w) /\ Moves(w, v, X) /\ X \cap S = {}
  BY DEF Refreshed
<1> HIDE DEF S, R, X
<1>4. Faithful(R, S, v)
  BY <1>1, <1>3, FaithfulMoves
<1>5. v.heap[o].complete
  BY DEF Refreshed
<1> QED  BY <1>2, <1>4, <1>5 DEF Refreshed, S, R

LEMMA EmbeddingRefresh ==
  ASSUME TypeOK, ConvInv, RefreshInv, [Next]_vars, StructWithMethods
  PROVE  RefreshInv'
<1> DEFINE v == NextWorld
           w == World
           s == Rest
           X == {}
           f == Updater(Fresh, prog.promoted[Top.typ])
           k == Embedded(Top.typ, Fresh, Top.refs)
<1> SUFFICES ASSUME Clean  PROVE Refreshing(stack', v, {})
  BY RefreshNext
<1>1. /\ stack # <<>> /\ Top.op = "elems" /\ stack' = <<f, k>> \o Rest
      /\ prog' = prog /\ resolved' = resolved /\ placeholder' = placeholder
      /\ heap' = Append(heap, Object(NoType, Top.refs)) /\ heap \in Seq(HeapObjects(heap))
  BY DEF StructWithMethods, Running, Push, TypeOK
<1>2. w.heap = heap /\ ProgramOK(w.prog)
  BY <1>1, TopParts
<1>3. Top.refs \in SUBSET ObjectsOf(heap)
  BY <1>1, TopFields
<1>4. Grows(heap, heap')
  BY <1>1, <1>3, AppendObject
<1>5. \A o \in ObjectsOf(heap) : heap'[o] = heap[o]
  <2> DEFINE x == Object(NoType, Top.refs)
  <2>1. heap' = Append(heap, x) /\ Len(heap) \in Nat /\ heap \in Seq(HeapObjects(heap))
    BY <1>1, SameHeapGrows
  <2> HIDE DEF x
  <2> QED  BY <2>1 DEF ObjectsOf
<1>6. f.op = "fn" /\ k.op = "embedded"
  BY DEF Updater, Embedded, Frame
<1>0. w = World /\ v = NextWorld
  OBVIOUS
<1>7. v.heap = heap'
  BY DEF NextWorld
<1> HIDE DEF v, w, f, k
<1>8. Moves(w, v, X)
  BY <1>0, <1>1, <1>4, GrownWorld
<1>9. Refreshing(s, w, X)
  <2>1. Refreshing(s, w, Busy(Top))
    BY <1>0, <1>1, RefreshParts
  <2>2. Busy(Top) = X
    BY <1>1 DEF Busy
  <2> QED  BY <2>1, <2>2
<1> DEFINE Y == Busy(f) \cup Busy(k)
<1>10. \A o \in ObjectsOf(w.heap) : w.heap[o].name \in Names =>
         /\ Refreshed(o, w) => o \in Y \/ Refreshed(o, v)
         /\ o \in X => o \in Y \/ Refreshed(o, v)
  <2> SUFFICES ASSUME NEW o \in ObjectsOf(w.heap), w.heap[o].name \in Names, Refreshed(o, w)
               PROVE  Refreshed(o, v)
    OBVIOUS
  <2>1. v.heap[o].methods = w.heap[o].methods /\ v.heap[o].complete = w.heap[o].complete
    BY <1>2, <1>5, <1>7
  <2> QED  BY <1>2, <1>8, <2>1, RefreshedMoves
<1>11. Grows(w.heap, v.heap)
  BY <1>2, <1>4, <1>7
<1> HIDE DEF X, Y, s
<1>12. Refreshing(s, v, Y)
  BY <1>9, <1>10, <1>11, RefreshMoves
<1>13. f.op # "range" /\ k.op # "range" /\ Refreshing(Rest, v, Busy(f) \cup Busy(k))
  BY <1>6, <1>12 DEF s, Y
<1> QED  BY <1>1, <1>13, RefreshCalls

LEMMA SetRefresh ==
  ASSUME TypeOK, ConvInv, RefreshInv, [Next]_vars, SetMethodSet
  PROVE  RefreshInv'
<1> DEFINE v == NextWorld
           w == World
           s == Rest
           X == Busy(Top)
           Y == {}
           x == Top.obj
<1> SUFFICES ASSUME Clean  PROVE Refreshing(stack', v, Y)
  BY RefreshNext
<1>1. /\ stack # <<>> /\ Top.op = "fn" /\ stack' = s /\ ret = NoResult
      /\ Top.done = Len(Top.list)
      /\ prog' = prog /\ resolved' = resolved /\ placeholder' = placeholder
  BY DEF SetMethodSet, Running, Return, AllTaken
<1>2. w.heap = heap /\ ProgramOK(w.prog) /\ Has(Top, w, ret)
  BY <1>1, TopParts
<1>3. /\ x \in ObjectsOf(heap) /\ Grows(heap, heap')
      /\ \A o \in ObjectsOf(heap) :
           /\ heap'[o].name = heap[o].name
           /\ o # x => heap'[o] = heap[o]
           /\ o = x => heap'[o].methods = Top.refs /\ heap'[o].complete
  BY MethodsSet
<1>0. w = World /\ v = NextWorld
  OBVIOUS
<1>4. v.heap = heap'
  BY DEF NextWorld
<1> HIDE DEF v, w
<1>5. Moves(w, v, {})
  BY <1>0, <1>1, <1>3, GrownWorld
<1>6. Refreshing(s, w, X)
  BY <1>0, <1>1, RefreshParts
<1>7. w.heap[x].name \in Names => Refreshed(x, v)
  <2> SUFFICES ASSUME w.heap[x].name \in Names  PROVE Refreshed(x, v)
    OBVIOUS
  <2> DEFINE n == w.heap[x].name
             S == InSigs(w.prog, n)
             R == Top.refs
             Z == {}
  <2>1. FirstOf(Top, Len(Top.list)) = S
    <3>1. n = w.heap[Top.obj].name /\ n \in Names
      OBVIOUS
    <3> HIDE DEF n
    <3> QED  BY <1>0, <1>1, <3>1, TopUpdater DEF S
  <2>2. Faithful(R, S, w)
    BY <1>1, <1>2, <2>1 DEF Has, IsLoop
  <2>3. S \in SUBSET Names /\ Z \cap S = {} /\ Moves(w, v, Z)
    BY <1>2, <1>5, InSigsNames
  <2> HIDE DEF R, S, Z
  <2>4. Faithful(R, S, v)
    BY <2>2, <2>3, FaithfulMoves
  <2>5. v.heap[x].methods = R /\ v.heap[x].complete /\ v.heap[x].name = n /\ v.prog = w.prog
    BY <1>2, <1>3, <1>4, <1>5 DEF R, Moves
  <2> QED  BY <2>4, <2>5 DEF Refreshed, S
<1>8. \A o \in ObjectsOf(w.heap) : w.heap[o].name \in Names =>
        /\ Refreshed(o, w) => o \in Y \/ Refreshed(o, v)
        /\ o \in X => o \in Y \/ Refreshed(o, v)
  <2> SUFFICES ASSUME NEW o \in ObjectsOf(w.heap), w.heap[o].name \in Names,
                      Refreshed(o, w) \/ o \in X
               PROVE  Refreshed(o, v)
    OBVIOUS
  <2>1. CASE o = x
    BY <1>7, <2>1
  <2>2. CASE o # x
    <3>1. o \notin X
      BY <2>2 DEF Busy
    <3>2. v.heap[o].methods = w.heap[o].methods /\ v.heap[o].complete = w.heap[o].complete
      BY <1>2, <1>3, <1>4, <2>2
    <3> QED  BY <1>2, <1>5, <3>1, <3>2, RefreshedMoves
  <2> QED  BY <2>1, <2>2
<1>9. Grows(w.heap, v.heap)
  BY <1>2, <1>3, <1>4
<1> HIDE DEF X, Y, s
<1>10. Refreshing(s, v, Y)
  BY <1>6, <1>8, <1>9, RefreshMoves
<1> QED  BY <1>1, <1>10

LEMMA AskRefresh ==
  ASSUME TypeOK, [Next]_vars, NEW t \in Requests, Request(t)
  PROVE  RefreshInv'
<1> DEFINE v == NextWorld
           f == CallToType(t)
<1>1. stack' = <<f>> /\ f.op = "ToType"
  BY DEF Request, CallToType, Frame
<1> HIDE DEF f
<1>2. \A j \in 1..Len(stack') : stack'[j].op # "range"
  BY <1>1
<1>3. Refreshing(stack', v, {})
  BY <1>2 DEF Refreshing
<1> HIDE DEF v
<1> QED  BY <1>3, RefreshNext DEF v

LEMMA RefreshStep ==
  ASSUME TypeOK, ConvInv, LoopInv, RefreshInv, [Next]_vars
  PROVE  RefreshInv'
<1>1. CASE UNCHANGED vars \/ NoMoreRequests
  BY <1>1 DEF NoMoreRequests, vars, RefreshInv, World, Clean, Decl
<1>2. ASSUME NEW t \in Requests, Request(t)  PROVE RefreshInv'
  BY <1>2, AskRefresh
<1>3. CASE Convert
  <2>1. CASE \/ ToTypeProvided \/ ToTypeBasic \/ ToTypeInvalid \/ CompositeBuilt \/ StructDone
             \/ \E n \in Names : NameProvided(n) \/ NameFound(n)
    BY <2>1, PopsRefresh
  <2>2. CASE ToTypeComposite \/ NextElem \/ ElemOk
    BY <2>2, LoopsRefresh
  <2>3. CASE ElemErr
    BY <2>3, ElemErrRefresh
  <2>4. CASE StructWithMethods
    BY <2>4, EmbeddingRefresh
  <2>5. CASE SetMethodSet
    BY <2>5, SetRefresh
  <2>6. CASE \/ NamedErr \/ NamedPlain \/ NamedWithMethods \/ RangeDone
             \/ \E n \in Names : NameNew(n)
    BY <2>6, AloneRefresh
  <2>7. CASE Register
    BY <2>7, RegisterRefresh
  <2>8. ASSUME NEW o \in ntype, RangeNext(o)  PROVE RefreshInv'
    BY <2>8, RangeNextRefresh
  <2> QED  BY <1>3, <2>1, <2>2, <2>3, <2>4, <2>5, <2>6, <2>7, <2>8 DEF Convert
<1> QED  BY <1>1, <1>2, <1>3 DEF Next

LEMMA InitRefresh == Init => RefreshInv
<1> SUFFICES ASSUME Init  PROVE RefreshInv
  OBVIOUS
<1>1. Len(stack) = 0
  BY DEF Init
<1> QED  BY <1>1 DEF RefreshInv, Refreshing

(* When nothing fails, the types that UpdateType's loop has been through   *)
(* have all their methods, with signatures that mention the types that the *)
(* names have by now.                                                      *)
THEOREM Refreshes == Spec => []LoopRefreshesMethods
<1>1. TypeOK /\ OncePerName /\ ConvInv /\ LoopInv /\ RefreshInv /\ [Next]_vars => RefreshInv'
  BY RefreshStep
<1>2. TypeOK /\ ConvInv /\ RefreshInv => LoopRefreshesMethods
  <2> SUFFICES ASSUME TypeOK, ConvInv, RefreshInv, Running("range"), Clean, NEW n \in Names,
                      resolved[n] \in Top.seen
               PROVE  /\ heap[resolved[n]].complete
                      /\ MethodTypesOf(n) = Images(InMethods(n))
    BY DEF LoopRefreshesMethods
  <2> DEFINE o == resolved[n]
             w == World
  <2>1. stack # <<>> /\ Top.op = "range" /\ w.heap = heap /\ w.prog = prog /\ w.tab = resolved
        /\ w.pl = placeholder
    BY DEF Running, World
  <2>2. o \in ObjectsOf(w.heap) /\ Refreshed(o, w)
    <3>1. w = World
      OBVIOUS
    <3> HIDE DEF w
    <3> QED  BY <2>1, <3>1, RefreshParts
  <2>3. heap[o].name = n
    <3>1. o # NoType
      BY <2>2, TypesAssumption DEF ObjectsOf
    <3> QED  BY <3>1 DEF ConvInv, TablesOK, World
  <2>4. \A m : ImageIn(w, m) = Image(m)
    BY <2>1 DEF ImageIn, Image
  <2>5. heap[o].complete /\ Faithful(heap[o].methods, InSigs(prog, n), w)
    BY <2>1, <2>2, <2>3 DEF Refreshed
  <2> HIDE DEF w
  <2>6. MethodTypesOf(n) = {ImageIn(w, m) : m \in InMethods(n)}
    BY <2>1, <2>5 DEF Faithful, MethodTypesOf, NamedIn, InSigs, InMethods, Decl
  <2> QED  BY <2>4, <2>5, <2>6 DEF Images
<1> QED  BY Typing, NoReentry, Conversions, InitLoop, LoopStep, InitRefresh, <1>1, <1>2, PTL DEF Spec
=============================================================================
