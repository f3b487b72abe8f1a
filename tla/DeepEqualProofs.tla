-------------------------- MODULE DeepEqualProofs --------------------------
(***************************************************************************)
(* DeepEqual returns true exactly for deeply equal values, in every memory *)
(* the constants allow.                                                    *)
(***************************************************************************)
EXTENDS DeepEqual, FiniteSetTheorems, SequenceTheorems, TLAPS

USE DEF Kind, Type, Ref, Elems, Val, IsNil

(* What WellTyped says of a cell.                                          *)
LEMMA CellFacts ==
  ASSUME NEW m \in Memories, NEW a \in Loc
  PROVE  /\ m.cell[a] \in Cell
         /\ Elems(m, a) \in Seq(Loc)
         /\ Kind(m, a) \in {"Ptr", "Interface"} => Ref(m, a) \in Loc \cup {Nil}
         /\ Kind(m, a) = "Map" => Ref(m, a) \in MapObj \cup {Nil}
BY MemoryAssumption DEF WellTyped, Cell

LEMMA SameTypeFacts ==
  ASSUME NEW m \in Memories, NEW a \in Loc, NEW b \in Loc, Type(m, a) = Type(m, b)
  PROVE  /\ Kind(m, a) = Kind(m, b)
         /\ Kind(m, a) \in {"Array", "Struct"} => Len(Elems(m, a)) = Len(Elems(m, b))
BY MemoryAssumption DEF WellTyped

LEMMA EntryFacts ==
  ASSUME NEW m \in Memories, NEW a \in Loc, Kind(m, a) = "Map"
  PROVE  /\ DOMAIN Entries(m, a) \subseteq Keys \/ IsNil(m, a)
         /\ IsFiniteSet(DOMAIN Entries(m, a))
         /\ \A k \in DOMAIN Entries(m, a) : Entries(m, a)[k] \in Loc
<1>1. CASE IsNil(m, a)
  <2>1. Entries(m, a) = <<>>
    BY <1>1 DEF Entries
  <2>2. DOMAIN Entries(m, a) = {}
    BY <2>1
  <2> QED  BY <1>1, <2>2, FS_EmptySet
<1>2. CASE ~IsNil(m, a)
  <2>1. Ref(m, a) \in MapObj
    BY <1>2, CellFacts
  <2>2. m.maps \in [MapObj -> UNION {[S -> Loc] : S \in SUBSET Keys}]
    BY MemoryAssumption DEF WellTyped
  <2> DEFINE Indexed == {[S -> Loc] : S \in SUBSET Keys}
  <2>7. m.maps[Ref(m, a)] \in UNION Indexed
    BY <2>1, <2>2
  <2>8. PICK T \in Indexed : m.maps[Ref(m, a)] \in T
    BY <2>7
  <2>3. PICK S \in SUBSET Keys : m.maps[Ref(m, a)] \in [S -> Loc]
    BY <2>8
  <2>4. Entries(m, a) = m.maps[Ref(m, a)]
    BY <1>2 DEF Entries
  <2>5. Entries(m, a) \in [S -> Loc]
    BY <2>3, <2>4
  <2>6. IsFiniteSet(S)
    BY KeysAssumption, FS_Subset
  <2> QED  BY <2>5, <2>6
<1> QED  BY <1>1, <1>2

-----------------------------------------------------------------------------
(* Deep equality: the clauses are monotonic in the relation, symmetric if  *)
(* the relation is, and the same for two pairs that DeepEqual confuses.    *)
LEMMA ClauseMonotonic ==
  ASSUME NEW m, NEW R, NEW S, R \subseteq S, NEW a, NEW b, Clause(m, R, a, b)
  PROVE  Clause(m, S, a, b)
BY DEF Clause

LEMMA ClauseSymmetric ==
  ASSUME NEW m \in Memories, NEW R, \A c, d : <<c, d>> \in R => <<d, c>> \in R,
         NEW a \in Loc, NEW b \in Loc, Clause(m, R, a, b)
  PROVE  Clause(m, R, b, a)
<1>1. Type(m, a) = Type(m, b)
  BY DEF Clause
<1>2. Kind(m, a) = Kind(m, b)
  BY <1>1, SameTypeFacts
<1>3. Kind(m, a) \in {"Array", "Struct"} => Len(Elems(m, a)) = Len(Elems(m, b))
  BY <1>1, SameTypeFacts
<1> QED  BY <1>1, <1>2, <1>3 DEF Clause

LEMMA SameVisitSameClause ==
  ASSUME NEW m \in Memories, NEW R, \A e, f : <<e, f>> \in R => <<f, e>> \in R,
         NEW a \in Loc, NEW b \in Loc, NEW c \in Loc, NEW d \in Loc,
         Type(m, a) = Type(m, b), Recognisable(m, a, b),
         Visit(m, a, b) = Visit(m, c, d), Clause(m, R, c, d)
  PROVE  Clause(m, R, a, b)
<1>1. Type(m, a) = Type(m, c) /\ Type(m, c) = Type(m, d)
  BY DEF Visit, Clause
<1>2. Kind(m, a) = Kind(m, b) /\ Kind(m, a) = Kind(m, c) /\ Kind(m, a) = Kind(m, d)
  BY <1>1, SameTypeFacts, ZenonT(60)
<1>3. Kind(m, a) \in {"Ptr", "Map", "Slice", "Interface"}
  BY DEF Recognisable, Hard
<1>4. \/ PtrVal(m, a) = PtrVal(m, c) /\ PtrVal(m, b) = PtrVal(m, d)
      \/ PtrVal(m, a) = PtrVal(m, d) /\ PtrVal(m, b) = PtrVal(m, c)
  BY DEF Visit
<1>5. Clause(m, R, d, c)
  BY ClauseSymmetric
<1>6. CASE Kind(m, a) \in {"Slice", "Interface"}
  <2>1. (a = c /\ b = d) \/ (a = d /\ b = c)
    BY <1>2, <1>4, <1>6 DEF PtrVal
  <2> QED  BY <2>1, <1>5
<1>7. CASE Kind(m, a) \in {"Ptr", "Map"}
  <2>1. \/ Ref(m, a) = Ref(m, c) /\ Ref(m, b) = Ref(m, d)
        \/ Ref(m, a) = Ref(m, d) /\ Ref(m, b) = Ref(m, c)
    BY <1>2, <1>4, <1>7 DEF PtrVal
  <2>2. \A e, f \in Loc : Ref(m, e) = Ref(m, f) => Entries(m, e) = Entries(m, f)
    BY DEF Entries
  <2>3. CASE Ref(m, a) = Ref(m, c) /\ Ref(m, b) = Ref(m, d)
    BY <1>1, <1>2, <1>7, <2>2, <2>3 DEF Clause
  <2>4. CASE Ref(m, a) = Ref(m, d) /\ Ref(m, b) = Ref(m, c)
    BY <1>1, <1>2, <1>5, <1>7, <2>2, <2>4, SMTT(60) DEF Clause
  <2> QED  BY <2>1, <2>3, <2>4
<1> QED  BY <1>3, <1>6, <1>7

-----------------------------------------------------------------------------
(* The three outcomes of the switch, against the clauses.                  *)
LEMMA DifferRefutes ==
  ASSUME NEW m, NEW a, NEW b, Differ(m, a, b), NEW R
  PROVE  ~Clause(m, R, a, b)
BY DEF Differ, Clause, Entries

LEMMA SameJustifies ==
  ASSUME NEW m \in Memories, NEW a \in Loc, NEW b \in Loc, Same(m, a, b), NEW R
  PROVE  Clause(m, R, a, b)
<1>1. Type(m, a) = Type(m, b)
  BY DEF Same, Differ
<1>2. Kind(m, a) = Kind(m, b)
  BY <1>1, SameTypeFacts
<1> QED  BY <1>1, <1>2 DEF Same, Differ, Clause

LEMMA PartsJustify ==
  ASSUME NEW m \in Memories, NEW a \in Loc, NEW b \in Loc,
         ~Same(m, a, b), ~Differ(m, a, b), NEW s \in Parts(m, a, b)
  PROVE  /\ s \in Seq(Loc \X Loc)
         /\ \A R : Clause(m, R, a, b) <=> PairsOf(s) \subseteq R
<1>1. Type(m, a) = Type(m, b)
  BY DEF Differ
<1>2. Kind(m, a) = Kind(m, b)
  BY <1>1, SameTypeFacts
<1>3. Kind(m, a) \in {"Array", "Struct", "Slice", "Interface", "Ptr", "Map"}
  <2>1. Kind(m, a) \in Kinds
    BY CellFacts DEF Cell
  <2>2. Kind(m, a) \notin {"Func", "Data"}
    BY DEF Same
  <2> QED  BY <2>1, <2>2 DEF Kinds
<1>4. CASE Kind(m, a) \in {"Array", "Struct", "Slice"}
  <2>1. Elems(m, a) \in Seq(Loc) /\ Elems(m, b) \in Seq(Loc)
    BY CellFacts
  <2>2. Len(Elems(m, a)) = Len(Elems(m, b))
    BY <1>1, <1>4, SameTypeFacts DEF Differ
  <2>3. s = [i \in 1..Len(Elems(m, a)) |-> <<Elems(m, a)[i], Elems(m, b)[i]>>]
    BY <1>4 DEF Parts
  <2>4. s \in Seq(Loc \X Loc)
    BY <2>1, <2>2, <2>3
  <2>5. ASSUME NEW R
        PROVE  Clause(m, R, a, b) <=>
                 \A i \in 1..Len(Elems(m, a)) : <<Elems(m, a)[i], Elems(m, b)[i]>> \in R
    BY <1>1, <1>2, <1>4, <2>2 DEF Clause, Same, Differ
  <2> QED  BY <2>3, <2>4, <2>5, ZenonT(60) DEF PairsOf
<1>5. CASE Kind(m, a) \in {"Interface", "Ptr"}
  <2>1. ~IsNil(m, a) /\ ~IsNil(m, b)
    BY <1>5 DEF Same, Differ
  <2>2. Ref(m, a) \in Loc /\ Ref(m, b) \in Loc
    BY <1>2, <1>5, <2>1, CellFacts
  <2>3. s = << <<Ref(m, a), Ref(m, b)>> >>
    BY <1>5 DEF Parts
  <2>4. ASSUME NEW R
        PROVE  Clause(m, R, a, b) <=> <<Ref(m, a), Ref(m, b)>> \in R
    BY <1>1, <1>5, <2>1 DEF Clause, Same
  <2> QED  BY <2>2, <2>3, <2>4 DEF PairsOf
<1>6. CASE Kind(m, a) = "Map"
  <2>1. ~IsNil(m, a) /\ ~IsNil(m, b) /\ Ref(m, a) # Ref(m, b)
    BY <1>6 DEF Same, Differ
  <2>2. DOMAIN Entries(m, a) = DOMAIN Entries(m, b)
    <3>1. IsFiniteSet(DOMAIN Entries(m, b))
      BY <1>2, <1>6, EntryFacts
    <3>2. /\ DOMAIN Entries(m, a) \subseteq DOMAIN Entries(m, b)
          /\ Cardinality(DOMAIN Entries(m, a)) = Cardinality(DOMAIN Entries(m, b))
      BY <1>6, <2>1 DEF Differ
    <3> QED  BY <3>1, <3>2, FS_Subset
  <2>3. PICK t \in KeyOrders(m, a) :
          s = [i \in 1..Len(t) |-> <<Entries(m, a)[t[i]], Entries(m, b)[t[i]]>>]
    BY <1>6 DEF Parts
  <2> DEFINE D == DOMAIN Entries(m, a)
             n == Cardinality(D)
  <2>4. n \in Nat
    BY <1>6, EntryFacts, FS_CardinalityType
  <2>5. t \in [1..n -> D] /\ {t[i] : i \in 1..n} = D
    BY <2>3 DEF KeyOrders
  <2>6. Len(t) = n
    BY <2>4, <2>5
  <2>7. \A k \in D : Entries(m, a)[k] \in Loc /\ Entries(m, b)[k] \in Loc
    BY <1>2, <1>6, <2>2, EntryFacts
  <2>8. s = [i \in 1..n |-> <<Entries(m, a)[t[i]], Entries(m, b)[t[i]]>>]
    BY <2>3, <2>6
  <2>9. s \in Seq(Loc \X Loc)
    BY <2>4, <2>5, <2>7, <2>8
  <2>10. PairsOf(s) = {<<Entries(m, a)[k], Entries(m, b)[k]>> : k \in D}
    BY <2>5, <2>8 DEF PairsOf
  <2>11. ASSUME NEW R
         PROVE  Clause(m, R, a, b) <=>
                  \A k \in D : <<Entries(m, a)[k], Entries(m, b)[k]>> \in R
    BY <1>1, <1>6, <2>1, <2>2 DEF Clause
  <2> QED  BY <2>9, <2>10, <2>11
<1> QED  BY <1>3, <1>4, <1>5, <1>6

LEMMA ElementsOfTodo ==
  ASSUME NEW S, NEW q \in Seq(S), q # <<>>, NEW s \in Seq(S)
  PROVE  /\ PairsOf(q) = {Head(q)} \cup PairsOf(Tail(q))
         /\ PairsOf(s \o Tail(q)) = PairsOf(s) \cup PairsOf(Tail(q))
<1>1. /\ Tail(q) \in Seq(S) /\ Len(q) \in Nat /\ Len(q) > 0
      /\ Len(Tail(q)) = Len(q) - 1
      /\ \A i \in 1..Len(Tail(q)) : Tail(q)[i] = q[i + 1]
      /\ Head(q) = q[1]
      /\ DOMAIN q = 1..Len(q) /\ DOMAIN Tail(q) = 1..Len(Tail(q))
  OBVIOUS
<1>2. \A i \in 1..Len(q) : i = 1 \/ (i - 1 \in 1..Len(Tail(q)) /\ q[i] = Tail(q)[i - 1])
  BY <1>1
<1>3. {q[i] : i \in DOMAIN q} = {Head(q)} \cup {Tail(q)[i] : i \in DOMAIN Tail(q)}
  <2>1. 1 \in 1..Len(q) /\ \A i \in 1..Len(Tail(q)) : i + 1 \in 1..Len(q)
    BY <1>1
  <2>2. \A i \in DOMAIN Tail(q) : \E j \in DOMAIN q : Tail(q)[i] = q[j]
    BY <1>1, <2>1
  <2>3. \A i \in DOMAIN q : q[i] = Head(q) \/ \E j \in DOMAIN Tail(q) : q[i] = Tail(q)[j]
    BY <1>1, <1>2
  <2>4. \E j \in DOMAIN q : Head(q) = q[j]
    BY <1>1, <2>1
  <2> DEFINE t == Tail(q)
             h == Head(q)
  <2>5. (\A i \in DOMAIN t : \E j \in DOMAIN q : t[i] = q[j])
    BY <2>2
  <2>6. \A i \in DOMAIN q : q[i] = h \/ \E j \in DOMAIN t : q[i] = t[j]
    BY <2>3
  <2>7. \E j \in DOMAIN q : h = q[j]
    BY <2>4
  <2> HIDE DEF t, h
  <2>8. {q[i] : i \in DOMAIN q} = {h} \cup {t[i] : i \in DOMAIN t}
    BY <2>5, <2>6, <2>7
  <2> QED  BY <2>8 DEF t, h
<1> DEFINE r == Tail(q)
<1>4. r \in Seq(S)
  BY <1>1
<1> HIDE DEF r
<1>5. /\ DOMAIN (s \o r) = 1..(Len(s) + Len(r)) /\ Len(s) \in Nat /\ Len(r) \in Nat
      /\ \A i \in 1..Len(s) : (s \o r)[i] = s[i]
      /\ \A i \in 1..Len(r) : (s \o r)[i + Len(s)] = r[i]
      /\ DOMAIN s = 1..Len(s) /\ DOMAIN r = 1..Len(r)
  BY <1>4
<1>6. \A i \in 1..(Len(s) + Len(r)) :
        i \in 1..Len(s) \/ (i - Len(s) \in 1..Len(r) /\ (s \o r)[i] = r[i - Len(s)])
  BY <1>5
<1>7. {(s \o r)[i] : i \in DOMAIN (s \o r)} \subseteq {s[i] : i \in DOMAIN s} \cup {r[i] : i \in DOMAIN r}
  BY <1>5, <1>6
<1>8. \A i \in 1..Len(r) : i + Len(s) \in 1..(Len(s) + Len(r))
  BY <1>5
<1>9. {s[i] : i \in DOMAIN s} \cup {r[i] : i \in DOMAIN r} \subseteq {(s \o r)[i] : i \in DOMAIN (s \o r)}
  <2>1. \A i \in 1..Len(s) : i \in 1..(Len(s) + Len(r))
    BY <1>5
  <2>2. \A i \in DOMAIN s : \E j \in DOMAIN (s \o r) : s[i] = (s \o r)[j]
    BY <1>5, <2>1
  <2>3. \A i \in DOMAIN r : \E j \in DOMAIN (s \o r) : r[i] = (s \o r)[j]
    BY <1>5, <1>8
  <2> QED  BY <2>2, <2>3
<1> QED  BY <1>3, <1>7, <1>9 DEF r, PairsOf

-----------------------------------------------------------------------------
(* The steps.  Each of Skip, Accept and Descend moves the first pair to    *)
(* done, and puts in its place pairs S that are equivalent to its clause,  *)
(* or has found it in visited.                                             *)
LEMMA Typing == Spec => []TypeOK
<1>1. Init => TypeOK
  BY RootsAssumption DEF Init, TypeOK
<1>2. TypeOK /\ [Next]_vars => TypeOK'
  <2> SUFFICES ASSUME TypeOK, [Next]_vars  PROVE TypeOK'
    OBVIOUS
  <2>1. ASSUME NEW a \in Loc, NEW b \in Loc, Comparing(a, b)
        PROVE  Tail(todo) \in Seq(Loc \X Loc)
    BY <2>1 DEF TypeOK, Comparing
  <2>2. ASSUME NEW a \in Loc, NEW b \in Loc, Recognisable(mem, a, b)
        PROVE  Visit(mem, a, b) \in [addrs : SUBSET Addr, typ : Types]
    <3>1. Ref(mem, a) \in Addr /\ Ref(mem, b) \in Addr /\ Type(mem, a) \in Types
      BY <2>2, CellFacts DEF Recognisable, Hard, TypeOK, Cell
    <3> QED  BY <3>1, AddrAssumption DEF Visit, PtrVal
  <2>3. ASSUME NEW a \in Loc, NEW b \in Loc, Remember(a, b)
        PROVE  visited' \subseteq [addrs : SUBSET Addr, typ : Types]
    BY <2>2, <2>3 DEF Remember, TypeOK
  <2>4. ASSUME NEW a \in Loc, NEW b \in Loc, Skip(a, b)  PROVE TypeOK'
    BY <2>1, <2>4 DEF Skip, TypeOK, Comparing
  <2>5. ASSUME NEW a \in Loc, NEW b \in Loc, Accept(a, b)  PROVE TypeOK'
    BY <2>1, <2>3, <2>5 DEF Accept, TypeOK, Comparing
  <2>6. ASSUME NEW a \in Loc, NEW b \in Loc, Descend(a, b)  PROVE TypeOK'
    <3>1. PICK s \in Parts(mem, a, b) : todo' = s \o Tail(todo)
      BY <2>6 DEF Descend
    <3>2. s \in Seq(Loc \X Loc)
      BY <2>6, PartsJustify DEF Descend, TypeOK
    <3>5. Tail(todo) \in Seq(Loc \X Loc)
      BY <2>1, <2>6 DEF Descend
    <3>3. todo' \in Seq(Loc \X Loc)
      BY <3>1, <3>2, <3>5, ConcatProperties
    <3>4. result = "running"
      BY <2>6 DEF Descend, Comparing, TypeOK
    <3> QED  BY <2>3, <2>6, <3>3, <3>4 DEF Descend, TypeOK
  <2>7. ASSUME NEW a \in Loc, NEW b \in Loc, Reject(a, b)  PROVE TypeOK'
    BY <2>7 DEF Reject, TypeOK
  <2>8. CASE Finish
    BY <2>8 DEF Finish, TypeOK
  <2>9. CASE UNCHANGED vars
    BY <2>9 DEF vars, TypeOK
  <2> QED  BY <2>4, <2>5, <2>6, <2>7, <2>8, <2>9 DEF Next
<1> QED  BY <1>1, <1>2, PTL DEF Spec

(* The first pair, moved to done and replaced by the pairs S, keeps        *)
(* EqualSoFar if its clause holds.                                         *)
LEMMA PairDone ==
  ASSUME TypeOK, EqualSoFar, result' # "false", mem' = mem, x' = x, y' = y,
         NEW a \in Loc, NEW b \in Loc, NEW S, NEW T, result # "false",
         Pending = {<<a, b>>} \cup T, Pending' = S \cup T,
         done' = done \cup {<<a, b>>},
         visited' = visited \/ Remember(a, b),
         Clause(mem, EitherOrder(done' \cup Pending'), a, b)
  PROVE  EqualSoFar'
<1> DEFINE R == EitherOrder(done \cup Pending)
           Q == EitherOrder(done' \cup Pending')
<1>1. R \subseteq Q
  BY DEF EitherOrder
<1>2. <<x, y>> \in done' \cup Pending'
  BY DEF EqualSoFar
<1>3. ASSUME NEW p \in done'  PROVE Clause(mem, Q, p[1], p[2])
  <2>1. CASE p \in done
    <3>1. Clause(mem, R, p[1], p[2])
      BY <2>1 DEF EqualSoFar
    <3> HIDE DEF R, Q
    <3> QED  BY <1>1, <3>1, ClauseMonotonic
  <2>2. CASE p = <<a, b>>
    BY <2>2
  <2> QED  BY <2>1, <2>2
<1>4. ASSUME NEW v \in visited'
      PROVE  \E p \in done' : Recognisable(mem, p[1], p[2]) /\ v = Visit(mem, p[1], p[2])
  <2>1. CASE v \in visited
    BY <2>1 DEF EqualSoFar
  <2>2. CASE v \notin visited
    <3>1. Recognisable(mem, a, b) /\ v = Visit(mem, a, b)
      BY <2>2 DEF Remember
    <3>2. <<a, b>> \in done' /\ <<a, b>>[1] = a /\ <<a, b>>[2] = b
      OBVIOUS
    <3> QED  BY <3>1, <3>2
  <2> QED  BY <2>1, <2>2
<1> QED  BY <1>2, <1>3, <1>4 DEF EqualSoFar

LEMMA FirstPair ==
  ASSUME TypeOK, NEW a, NEW b, Comparing(a, b)
  PROVE  /\ result = "running"
         /\ Pending = {<<a, b>>} \cup PairsOf(Tail(todo))
<1>1. todo \in Seq(Loc \X Loc) /\ todo # <<>> /\ Head(todo) = <<a, b>>
  BY DEF TypeOK, Comparing
<1>2. <<>> \in Seq(Loc \X Loc)
  OBVIOUS
<1> QED  BY <1>1, <1>2, ElementsOfTodo DEF Pending, TypeOK

LEMMA PartsPending ==
  ASSUME TypeOK, todo # <<>>, NEW s \in Seq(Loc \X Loc), todo' = s \o Tail(todo)
  PROVE  Pending' = PairsOf(s) \cup PairsOf(Tail(todo))
<1>1. todo \in Seq(Loc \X Loc)
  BY DEF TypeOK
<1>2. Pending' = PairsOf(s \o Tail(todo))
  BY DEF Pending
<1> QED  BY <1>1, <1>2, ElementsOfTodo

LEMMA EqualSoFarStep ==
  ASSUME TypeOK, EqualSoFar, [Next]_vars
  PROVE  EqualSoFar'
<1> DEFINE T == PairsOf(Tail(todo))
           Q == EitherOrder(done' \cup Pending')
<1>1. mem \in Memories
  BY DEF TypeOK
<1>2. ASSUME NEW a \in Loc, NEW b \in Loc, Skip(a, b)  PROVE EqualSoFar'
  <2>1. Comparing(a, b) /\ todo' = Tail(todo) /\ done' = done \cup {<<a, b>>}
    BY <1>2 DEF Skip
  <2>2. Pending = {<<a, b>>} \cup T /\ Pending' = {} \cup T /\ result = "running"
    BY <2>1, FirstPair DEF Pending
  <2>3. PICK p \in done : /\ Recognisable(mem, p[1], p[2])
                          /\ Visit(mem, a, b) = Visit(mem, p[1], p[2])
    BY <1>2, <2>2 DEF Skip, Seen, EqualSoFar
  <2>4. p[1] \in Loc /\ p[2] \in Loc
    BY DEF TypeOK
  <2> DEFINE R == EitherOrder(done \cup Pending)
  <2>5. Clause(mem, R, p[1], p[2])
    BY <2>2 DEF EqualSoFar
  <2>6. \A e, f : <<e, f>> \in R => <<f, e>> \in R
    <3>1. done \cup Pending \subseteq Loc \X Loc
      BY DEF TypeOK, Pending, PairsOf
    <3> QED  BY <3>1 DEF EitherOrder
  <2>7. R \subseteq Q
    BY <2>1, <2>2 DEF EitherOrder
  <2>8. Type(mem, a) = Type(mem, b) /\ Recognisable(mem, a, b)
    BY <1>2 DEF Skip, Seen
  <2> HIDE DEF R, Q, T
  <2>9. Clause(mem, R, a, b)
    BY <1>1, <2>3, <2>4, <2>5, <2>6, <2>8, SameVisitSameClause
  <2>10. Clause(mem, Q, a, b)
    BY <2>7, <2>9, ClauseMonotonic
  <2>11. /\ result # "false" /\ result' # "false" /\ mem' = mem /\ x' = x /\ y' = y
         /\ visited' = visited
    BY <1>2, <2>2 DEF Skip
  <2> QED  BY <2>1, <2>2, <2>10, <2>11, PairDone DEF Q
<1>3. ASSUME NEW a \in Loc, NEW b \in Loc, Accept(a, b)  PROVE EqualSoFar'
  <2>1. Comparing(a, b) /\ todo' = Tail(todo) /\ done' = done \cup {<<a, b>>}
    BY <1>3 DEF Accept
  <2>2. Pending = {<<a, b>>} \cup T /\ Pending' = {} \cup T /\ result = "running"
    BY <2>1, FirstPair DEF Pending
  <2> HIDE DEF Q, T
  <2>3. Clause(mem, Q, a, b)
    BY <1>1, <1>3, SameJustifies DEF Accept
  <2>4. /\ result # "false" /\ result' # "false" /\ mem' = mem /\ x' = x /\ y' = y
        /\ Remember(a, b)
    BY <1>3, <2>2 DEF Accept
  <2> QED  BY <2>1, <2>2, <2>3, <2>4, PairDone DEF Q
<1>4. ASSUME NEW a \in Loc, NEW b \in Loc, Descend(a, b)  PROVE EqualSoFar'
  <2>1. PICK s \in Parts(mem, a, b) : todo' = s \o Tail(todo)
    BY <1>4 DEF Descend
  <2> DEFINE S == PairsOf(s)
  <2>2. /\ s \in Seq(Loc \X Loc)
        /\ \A R : Clause(mem, R, a, b) <=> S \subseteq R
    BY <1>1, <1>4, PartsJustify DEF Descend
  <2>3. Comparing(a, b) /\ done' = done \cup {<<a, b>>}
    BY <1>4 DEF Descend
  <2>4. Pending = {<<a, b>>} \cup T /\ result = "running"
    BY <2>3, FirstPair
  <2>5. Pending' = S \cup T
    <3>1. todo # <<>>
      BY <2>3 DEF Comparing
    <3> QED  BY <2>1, <2>2, <3>1, PartsPending
  <2>6. S \subseteq Q
    BY <2>5 DEF EitherOrder
  <2> HIDE DEF Q, S, T
  <2>7. Clause(mem, Q, a, b)
    BY <2>2, <2>6
  <2>8. /\ result # "false" /\ result' # "false" /\ mem' = mem /\ x' = x /\ y' = y
        /\ Remember(a, b)
    BY <1>4, <2>4 DEF Descend
  <2> QED  BY <2>3, <2>4, <2>5, <2>7, <2>8, PairDone DEF Q
<1>5. ASSUME NEW a \in Loc, NEW b \in Loc, Reject(a, b)  PROVE EqualSoFar'
  BY <1>5 DEF Reject, EqualSoFar
<1>6. CASE Finish
  BY <1>6 DEF Finish, EqualSoFar, Pending
<1>7. CASE UNCHANGED vars
  BY <1>7 DEF vars, EqualSoFar, Pending
<1> QED  BY <1>2, <1>3, <1>4, <1>5, <1>6, <1>7 DEF Next

(* DeepEqual returns true only for deeply equal values.                    *)
THEOREM Soundness == Spec => []Sound
<1>1. Init => EqualSoFar
  <2> SUFFICES ASSUME Init  PROVE EqualSoFar
    OBVIOUS
  <2>1. todo = << <<x, y>> >> /\ done = {} /\ visited = {}
    BY DEF Init
  <2>2. 1 \in DOMAIN todo /\ todo[1] = <<x, y>>
    BY <2>1
  <2>3. <<x, y>> \in Pending
    BY <2>2 DEF Pending, PairsOf
  <2> QED  BY <2>1, <2>3 DEF EqualSoFar
<1>2. TypeOK /\ EqualSoFar => Sound
  <2> SUFFICES ASSUME TypeOK, EqualSoFar, result = "true"
               PROVE  DeeplyEqual(mem, x, y)
    BY DEF Sound
  <2> DEFINE R == EitherOrder(done)
  <2>1. Pending = {}
    BY DEF TypeOK, Pending, PairsOf
  <2>2. <<x, y>> \in R /\ \A p \in done : Clause(mem, R, p[1], p[2])
    <3>1. done \cup Pending = done
      BY <2>1
    <3> QED  BY <3>1 DEF EqualSoFar, EitherOrder
  <2>3. done \subseteq Loc \X Loc /\ mem \in Memories
    BY DEF TypeOK
  <2>4. \A e, f : <<e, f>> \in R => <<f, e>> \in R
    BY <2>3 DEF EitherOrder
  <2>5. ASSUME NEW p \in R  PROVE Clause(mem, R, p[1], p[2])
    <3>1. CASE p \in done
      BY <2>2, <3>1
    <3>2. CASE p \notin done
      <4>1. PICK q \in done : p = <<q[2], q[1]>>
        BY <3>2 DEF EitherOrder
      <4>2. q[1] \in Loc /\ q[2] \in Loc /\ p[1] = q[2] /\ p[2] = q[1]
        BY <2>3, <4>1
      <4>3. Clause(mem, R, q[1], q[2])
        BY <2>2
      <4> HIDE DEF R
      <4> QED  BY <2>3, <2>4, <4>2, <4>3, ClauseSymmetric
    <3> QED  BY <3>1, <3>2
  <2>6. R \subseteq Loc \X Loc
    BY <2>3 DEF EitherOrder
  <2> HIDE DEF R
  <2>7. R \subseteq SameType(mem)
    BY <2>5, <2>6 DEF SameType, Clause
  <2> QED  BY <2>2, <2>5, <2>7 DEF DeeplyEqual, Justified
<1> QED  BY <1>1, <1>2, Typing, EqualSoFarStep, PTL DEF Spec

-----------------------------------------------------------------------------
LEMMA PendingFollowsStep ==
  ASSUME TypeOK, PendingFollows, [Next]_vars
  PROVE  PendingFollows'
<1> DEFINE T == PairsOf(Tail(todo))
<1>1. mem \in Memories
  BY DEF TypeOK
<1>2. mem' = mem /\ x' = x /\ y' = y
  BY DEF Next, Skip, Accept, Descend, Reject, Finish, vars
<1> SUFFICES ASSUME NEW R \in SUBSET SameType(mem),
                    <<x, y>> \in R, Justified(mem, R)
             PROVE  result' # "false" /\ Pending' \subseteq R
  BY <1>2 DEF PendingFollows
<1>3. result # "false" /\ Pending \subseteq R
  BY DEF PendingFollows
<1>4. ASSUME NEW a \in Loc, NEW b \in Loc, Comparing(a, b)
      PROVE  Clause(mem, R, a, b) /\ T \subseteq R
  <2>1. Pending = {<<a, b>>} \cup T
    BY <1>4, FirstPair
  <2>2. <<a, b>> \in R /\ T \subseteq R
    BY <1>3, <2>1
  <2>3. Clause(mem, R, <<a, b>>[1], <<a, b>>[2])
    BY <2>2 DEF Justified
  <2> QED  BY <2>2, <2>3
<1>5. ASSUME NEW a \in Loc, NEW b \in Loc, Skip(a, b) \/ Accept(a, b)
      PROVE  result' # "false" /\ Pending' \subseteq R
  BY <1>3, <1>4, <1>5 DEF Skip, Accept, Pending
<1>6. ASSUME NEW a \in Loc, NEW b \in Loc, Descend(a, b)
      PROVE  result' # "false" /\ Pending' \subseteq R
  <2>1. PICK s \in Parts(mem, a, b) : todo' = s \o Tail(todo)
    BY <1>6 DEF Descend
  <2>2. /\ s \in Seq(Loc \X Loc)
        /\ Clause(mem, R, a, b) <=> PairsOf(s) \subseteq R
    BY <1>1, <1>6, PartsJustify DEF Descend
  <2>3. Comparing(a, b) /\ result' = result
    BY <1>6 DEF Descend
  <2>4. todo # <<>>
    BY <2>3 DEF Comparing
  <2>6. Pending' = PairsOf(s) \cup T
    BY <2>1, <2>2, <2>4, PartsPending
  <2> QED  BY <1>3, <1>4, <2>2, <2>3, <2>6
<1>7. ASSUME NEW a \in Loc, NEW b \in Loc, Reject(a, b)  PROVE FALSE
  BY <1>4, <1>7, DifferRefutes DEF Reject
<1>8. CASE Finish
  BY <1>3, <1>8 DEF Finish, Pending
<1>9. CASE UNCHANGED vars
  BY <1>3, <1>9 DEF vars, Pending
<1> QED  BY <1>5, <1>6, <1>7, <1>8, <1>9 DEF Next

(* DeepEqual returns false only for values that are not deeply equal.      *)
THEOREM Completeness == Spec => []Complete
<1>1. Init => PendingFollows
  <2> SUFFICES ASSUME Init  PROVE PendingFollows
    OBVIOUS
  <2>1. todo = << <<x, y>> >> /\ result = "running"
    BY DEF Init
  <2>2. DOMAIN todo = {1} /\ todo[1] = <<x, y>>
    BY <2>1
  <2>3. Pending = {<<x, y>>}
    BY <2>2 DEF Pending, PairsOf
  <2> QED  BY <2>1, <2>3 DEF PendingFollows
<1>2. PendingFollows => Complete
  BY DEF PendingFollows, Complete, DeeplyEqual
<1> QED  BY <1>1, <1>2, Typing, PendingFollowsStep, PTL DEF Spec
=============================================================================
