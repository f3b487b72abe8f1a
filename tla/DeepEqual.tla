----------------------------- MODULE DeepEqual -----------------------------
(***************************************************************************)
(* DeepEqual (internal/reflect/deepequal.go): the comparison of two values *)
(* in a memory that may be shared and cyclic.  Every call of               *)
(* deepValueEqual returns false as soon as a call it makes does, so its    *)
(* recursion is a stack of the pairs still to be compared.                 *)
(*                                                                         *)
(* A Value is the location it is stored at.  What a location holds is a    *)
(* cell: its kind and type, the address in it (of the value pointed to or  *)
(* held, of a map object, of a slice's first element), the locations of    *)
(* its elements, and for the other kinds the value itself.                 *)
(* The nil interface{} is not a value (it is compared at Interface).       *)
(***************************************************************************)
EXTENDS Naturals, Sequences, FiniteSets

CONSTANTS
  Loc,       \* the locations of values
  MapObj,    \* the map objects
  Keys,      \* what maps are indexed by
  Addr,      \* addresses, those of locations and map objects among them
  Types,
  Data,      \* values of numbers, strings, ..., and of non-nil functions
  NaN,       \* a datum that is not == itself
  Nil,
  Memories,  \* the memories considered: [cell |-> ..., maps |-> ...]
  Roots      \* the pairs of values DeepEqual is called with

Kinds == {"Array", "Struct", "Slice", "Interface", "Ptr", "Map", "Func", "Data"}

Cell == [kind : Kinds, typ : Types, ref : Addr \cup {Nil}, elems : Seq(Loc),
         val : Data \cup {Nil}]

(***************************************************************************)
(* What Go guarantees about memory.                                        *)
(***************************************************************************)
WellTyped(m) ==
  /\ m.cell \in [Loc -> Cell]
  /\ m.maps \in [MapObj -> UNION {[S -> Loc] : S \in SUBSET Keys}]
  /\ \A a \in Loc :
       /\ m.cell[a].kind \in {"Ptr", "Interface"} => m.cell[a].ref \in Loc \cup {Nil}
       /\ m.cell[a].kind = "Map" => m.cell[a].ref \in MapObj \cup {Nil}
       /\ \A b \in Loc : m.cell[a].typ = m.cell[b].typ =>
            /\ m.cell[a].kind = m.cell[b].kind
            /\ m.cell[a].kind \in {"Array", "Struct"} =>
                 Len(m.cell[a].elems) = Len(m.cell[b].elems)

ASSUME NilAssumption == Nil \notin Addr
ASSUME AddrAssumption == Loc \subseteq Addr /\ MapObj \subseteq Addr
ASSUME KeysAssumption == IsFiniteSet(Keys)
ASSUME MemoryAssumption == \A m \in Memories : WellTyped(m)
ASSUME RootsAssumption == Roots \subseteq Loc \X Loc

Kind(m, a) == m.cell[a].kind
Type(m, a) == m.cell[a].typ
Ref(m, a)  == m.cell[a].ref
Elems(m, a) == m.cell[a].elems
Val(m, a)  == m.cell[a].val
IsNil(m, a) == Ref(m, a) = Nil
Entries(m, a) == IF IsNil(m, a) THEN <<>> ELSE m.maps[Ref(m, a)]

(***************************************************************************)
(* hard: a pair that a reference cycle could come back to.  It is          *)
(* remembered by the two addresses in either order, and the type; but      *)
(* MapIndex copies an element to a new address each time.                  *)
(***************************************************************************)
Hard(m, a, b) == /\ Kind(m, a) \in {"Ptr", "Map", "Slice", "Interface"}
                 /\ ~IsNil(m, a) /\ ~IsNil(m, b)

Copied(m, a) == /\ Kind(m, a) \in {"Slice", "Interface"}
                /\ \E o \in MapObj : \E k \in DOMAIN m.maps[o] : m.maps[o][k] = a

PtrVal(m, a) == IF Kind(m, a) \in {"Ptr", "Map"} THEN Ref(m, a) ELSE a

(* A mistake: to recognise a pair by its first address.                    *)
VisitOneSide(m, a, b) == [addrs |-> {PtrVal(m, a)}, typ |-> Type(m, a)]

Visit(m, a, b) == [addrs |-> {PtrVal(m, a), PtrVal(m, b)}, typ |-> Type(m, a)]

Recognisable(m, a, b) == Hard(m, a, b) /\ ~Copied(m, a) /\ ~Copied(m, b)

(***************************************************************************)
(* The immediate answers of the switch on the kind: return false, ...      *)
(***************************************************************************)
Differ(m, a, b) ==
  \/ Type(m, a) # Type(m, b)
  \/ /\ Kind(m, a) = "Slice"
     /\ IsNil(m, a) # IsNil(m, b) \/ Len(Elems(m, a)) # Len(Elems(m, b))
  \/ Kind(m, a) \in {"Interface", "Ptr"} /\ IsNil(m, a) # IsNil(m, b)
  \/ /\ Kind(m, a) = "Map"
     /\ \/ IsNil(m, a) # IsNil(m, b)
        \/ Cardinality(DOMAIN Entries(m, a)) # Cardinality(DOMAIN Entries(m, b))
        \/ Ref(m, a) # Ref(m, b) /\ ~(DOMAIN Entries(m, a) \subseteq DOMAIN Entries(m, b))
  \/ Kind(m, a) = "Func" /\ ~(Val(m, a) = Nil /\ Val(m, b) = Nil)
  \/ Kind(m, a) = "Data" /\ (Val(m, a) # Val(m, b) \/ Val(m, a) = NaN)

(* A mistake: no short cut for the same reference.                         *)
SameNoShortCut(m, a, b) ==
  /\ ~Differ(m, a, b)
  /\ \/ Kind(m, a) \in {"Slice", "Ptr", "Map"} /\ IsNil(m, a)
     \/ Kind(m, a) = "Interface" /\ IsNil(m, a)
     \/ Kind(m, a) \in {"Func", "Data"}

(***************************************************************************)
(* ... return true ...                                                     *)
(***************************************************************************)
Same(m, a, b) ==
  /\ ~Differ(m, a, b)
  /\ \/ Kind(m, a) \in {"Slice", "Ptr", "Map"} /\ Ref(m, a) = Ref(m, b)
     \/ Kind(m, a) = "Interface" /\ IsNil(m, a)
     \/ Kind(m, a) \in {"Func", "Data"}

(***************************************************************************)
(* ... or compare the parts in order; MapKeys gives the keys in any order. *)
(***************************************************************************)
KeyOrders(m, a) ==
  LET S == DOMAIN Entries(m, a)
  IN  {s \in [1..Cardinality(S) -> S] : {s[i] : i \in 1..Cardinality(S)} = S}

(* A mistake: the loop over the elements stops one too early.              *)
PartsButLast(m, a, b) ==
  CASE Kind(m, a) \in {"Array", "Struct", "Slice"} ->
         {[i \in 1..(Len(Elems(m, a)) - 1) |-> <<Elems(m, a)[i], Elems(m, b)[i]>>]}
    [] Kind(m, a) \in {"Interface", "Ptr"} -> {<< <<Ref(m, a), Ref(m, b)>> >>}
    [] OTHER -> {<<>>}

Parts(m, a, b) ==
  CASE Kind(m, a) \in {"Array", "Struct", "Slice"} ->
         {[i \in 1..Len(Elems(m, a)) |-> <<Elems(m, a)[i], Elems(m, b)[i]>>]}
    [] Kind(m, a) \in {"Interface", "Ptr"} -> {<< <<Ref(m, a), Ref(m, b)>> >>}
    [] Kind(m, a) = "Map" ->
         {[i \in 1..Len(s) |-> <<Entries(m, a)[s[i]], Entries(m, b)[s[i]]>>] :
            s \in KeyOrders(m, a)}
    [] OTHER -> {}

-----------------------------------------------------------------------------
(***************************************************************************)
(* Deep equality, from its definition in the comment on DeepEqual: a and b *)
(* are deeply equal if some relation R relates them and everything R       *)
(* relates satisfies the clause for its kind, with R for "deeply equal".   *)
(* On a cycle this is the reading the last paragraph of the comment gives. *)
(***************************************************************************)
Clause(m, R, a, b) ==
  /\ Type(m, a) = Type(m, b)
  /\ Kind(m, a) \in {"Array", "Struct"} =>
       \A i \in 1..Len(Elems(m, a)) : <<Elems(m, a)[i], Elems(m, b)[i]>> \in R
  /\ Kind(m, a) = "Func" => Val(m, a) = Nil /\ Val(m, b) = Nil
  /\ Kind(m, a) = "Interface" =>
       \/ IsNil(m, a) /\ IsNil(m, b)
       \/ ~IsNil(m, a) /\ ~IsNil(m, b) /\ <<Ref(m, a), Ref(m, b)>> \in R
  /\ Kind(m, a) = "Map" =>
       /\ IsNil(m, a) <=> IsNil(m, b)
       /\ \/ Ref(m, a) = Ref(m, b)
          \/ /\ DOMAIN Entries(m, a) = DOMAIN Entries(m, b)
             /\ \A k \in DOMAIN Entries(m, a) : <<Entries(m, a)[k], Entries(m, b)[k]>> \in R
  /\ Kind(m, a) = "Ptr" =>
       \/ Ref(m, a) = Ref(m, b)
       \/ ~IsNil(m, a) /\ ~IsNil(m, b) /\ <<Ref(m, a), Ref(m, b)>> \in R
  /\ Kind(m, a) = "Slice" =>
       /\ IsNil(m, a) <=> IsNil(m, b)
       /\ Len(Elems(m, a)) = Len(Elems(m, b))
       /\ \/ Ref(m, a) = Ref(m, b)
          \/ \A i \in 1..Len(Elems(m, a)) : <<Elems(m, a)[i], Elems(m, b)[i]>> \in R
  /\ Kind(m, a) = "Data" => Val(m, a) = Val(m, b) /\ Val(m, a) # NaN

Justified(m, R) == \A p \in R : Clause(m, R, p[1], p[2])

SameType(m) == {p \in Loc \X Loc : Type(m, p[1]) = Type(m, p[2])}

DeeplyEqual(m, a, b) == \E R \in SUBSET SameType(m) : <<a, b>> \in R /\ Justified(m, R)

-----------------------------------------------------------------------------
VARIABLES
  mem,       \* the memory, which the comparison only reads
  x, y,      \* the values to compare
  todo,      \* the pairs still to be compared, the next one first
  visited,   \* visited
  result,    \* "running", or what DeepEqual returns
  done       \* history: the pairs looked at and not found different

vars == <<mem, x, y, todo, visited, result, done>>

Seen(a, b) == /\ Type(mem, a) = Type(mem, b)
              /\ Recognisable(mem, a, b)
              /\ Visit(mem, a, b) \in visited

(* A mistake: visited is looked up but never filled.                       *)
RememberNot(a, b) == visited' = visited

Remember(a, b) ==
  visited' = IF Recognisable(mem, a, b) THEN visited \cup {Visit(mem, a, b)} ELSE visited

Init ==
  /\ mem \in Memories
  /\ \E r \in Roots : x = r[1] /\ y = r[2]
  /\ todo = << <<x, y>> >>
  /\ visited = {}
  /\ result = "running"
  /\ done = {}

Comparing(a, b) == todo # <<>> /\ Head(todo) = <<a, b>>

(* "Short circuit if references are already seen."                         *)
Skip(a, b) ==
  /\ Comparing(a, b) /\ Seen(a, b)
  /\ todo' = Tail(todo)
  /\ done' = done \cup {<<a, b>>}
  /\ UNCHANGED <<mem, x, y, visited, result>>

Accept(a, b) ==
  /\ Comparing(a, b) /\ ~Seen(a, b) /\ Same(mem, a, b)
  /\ Remember(a, b)
  /\ todo' = Tail(todo)
  /\ done' = done \cup {<<a, b>>}
  /\ UNCHANGED <<mem, x, y, result>>

Descend(a, b) ==
  /\ Comparing(a, b) /\ ~Seen(a, b) /\ ~Same(mem, a, b) /\ ~Differ(mem, a, b)
  /\ Remember(a, b)
  /\ \E s \in Parts(mem, a, b) : todo' = s \o Tail(todo)
  /\ done' = done \cup {<<a, b>>}
  /\ UNCHANGED <<mem, x, y, result>>

Reject(a, b) ==
  /\ Comparing(a, b) /\ ~Seen(a, b) /\ Differ(mem, a, b)
  /\ result' = "false"
  /\ todo' = <<>>
  /\ UNCHANGED <<mem, x, y, visited, done>>

Finish ==
  /\ todo = <<>> /\ result = "running"
  /\ result' = "true"
  /\ UNCHANGED <<mem, x, y, todo, visited, done>>

Next == \/ \E a, b \in Loc : Skip(a, b) \/ Accept(a, b) \/ Descend(a, b) \/ Reject(a, b)
        \/ Finish

Spec == Init /\ [][Next]_vars

FairSpec == Spec /\ WF_vars(Next)

-----------------------------------------------------------------------------
(* The pairs to compare are values, and nothing is left to do once there   *)
(* is a result.                                                            *)
TypeOK ==
  /\ mem \in Memories
  /\ x \in Loc /\ y \in Loc
  /\ todo \in Seq(Loc \X Loc)
  /\ visited \subseteq [addrs : SUBSET Addr, typ : Types]
  /\ result \in {"running", "true", "false"}
  /\ result # "running" => todo = <<>>
  /\ done \subseteq Loc \X Loc

(* true is returned only for deeply equal values: assuming, at a pair met  *)
(* again, that it is equal proves nothing wrong, although the pair is      *)
(* recognised by unordered addresses that other values share.              *)
Sound == result = "true" => DeeplyEqual(mem, x, y)

(* false is returned only for values that are not deeply equal.            *)
Complete == result = "false" => ~DeeplyEqual(mem, x, y)

PairsOf(s) == {s[i] : i \in DOMAIN s}
Pending == PairsOf(todo)

EitherOrder(S) == S \cup {<<p[2], p[1]>> : p \in S}

(* Why true is right: at every moment each pair not found different is     *)
(* deeply equal provided the pending ones and those assumed to be equal    *)
(* are, and every entry of visited stands for a pair that was looked at.   *)
EqualSoFar ==
  result # "false" =>
    /\ <<x, y>> \in done \cup Pending
    /\ \A p \in done : Clause(mem, EitherOrder(done \cup Pending), p[1], p[2])
    /\ \A v \in visited : \E p \in done : /\ Recognisable(mem, p[1], p[2])
                                       /\ v = Visit(mem, p[1], p[2])

(* Why false is right: whatever relation shows x and y deeply equal also   *)
(* relates the pairs still to be compared.                                 *)
PendingFollows ==
  \A R \in SUBSET SameType(mem) :
    <<x, y>> \in R /\ Justified(mem, R) => result # "false" /\ Pending \subseteq R

(* "This ensures that DeepEqual terminates", on cyclic values too.         *)
Terminates == <>(result # "running")
=============================================================================
