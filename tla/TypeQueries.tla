----------------------------- MODULE TypeQueries -----------------------------
(***************************************************************************)
(* Questions about two types (internal/reflect/type.go): implements, which *)
(* scans two sorted method lists at once; directlyAssignable; and the part *)
(* of convertOp (value.go) that compares types.  Both of the latter rest   *)
(* on haveIdenticalUnderlyingType, whose recursion is a list of pairs that *)
(* are still to be compared.                                               *)
(*                                                                         *)
(* A type is its number in a graph.  Two numbers are two type objects: for *)
(* a type without a name there is one object only, which the caches of     *)
(* TypeCache see to.                                                       *)
(***************************************************************************)
EXTENDS Integers, Sequences

CONSTANTS
  Unnamed,  \* the name of types that have none
  Graphs,   \* of types: kind, name, types of parts, and what else must
            \* agree: "dir" of channels, "tag" of structs
  Methods   \* lists of methods: name, whether exported, package, type, and
            \* place in the order of all methods

(* Defined types differ in name; an unnamed type has one object.           *)
ASSUME GraphsAssumption ==
  \A g \in Graphs : \A T, V \in DOMAIN g :
    /\ g[T].name = g[V].name /\ g[T].name # Unnamed => T = V
    /\ g[T] = g[V] => T = V

(* "Method tables are stored in a unique sorted order": of methods that    *)
(* may be the same, by name and package, the place is the same.            *)
SameName(a, b) == a.name = b.name /\ (a.exported \/ a.pkg = b.pkg)

ASSUME MethodsAssumption ==
  \A ms \in Methods :
    /\ Len(ms) \in Nat /\ DOMAIN ms = 1..Len(ms)
    /\ \A k \in DOMAIN ms : ms[k].rank \in Nat
    /\ \A k, l \in DOMAIN ms : k < l => ms[k].rank < ms[l].rank
    /\ \A ns \in Methods : \A k \in DOMAIN ms, l \in DOMAIN ns :
         SameName(ms[k], ns[l]) => ms[k].rank = ns[l].rank

VARIABLES
  asked,   \* the question, never changed
  at,      \* the cursors of implements, counted from 1
  work,    \* the pairs to be compared, <<>> if there are none left
  other,   \* what is compared if the answer is no: a list of no or one pair
  verdict  \* "none", "yes" or "no"

queryVars == <<asked, at, work, other, verdict>>

NoQuestion == [op |-> "none"]
QueryIdle  == /\ asked = NoQuestion /\ at = <<1, 1>> /\ work = <<>> /\ other = <<>>
              /\ verdict = "none"

Pair(T, V, under) == [T |-> T, V |-> V, under |-> under]
Typ(T) == asked.graph[T]

QueryInit ==
  /\ at = <<1, 1>> /\ work = <<>> /\ other = <<>> /\ verdict = "none"
  /\ \/ \E g \in Graphs, op \in {"assignable", "convertible"} :
          asked = [op |-> op, graph |-> g, T |-> 1, V |-> 2]
     \/ \E t, v \in Methods : asked = [op |-> "implements", t |-> t, v |-> v]

Answer(yes) == /\ verdict' = IF yes THEN "yes" ELSE "no"
               /\ UNCHANGED <<asked, at, work, other>>
Open(op)    == asked.op = op /\ verdict = "none"

-----------------------------------------------------------------------------
(* implements: a method of T is found in V if name and type agree, and, if *)
(* it is not exported, the package.  The mistake forgets the package.      *)
SameMethodAnywhere(tm, vm) == tm.name = vm.name /\ tm.typ = vm.typ

SameMethod(tm, vm) == SameName(tm, vm) /\ tm.typ = vm.typ

ImplementsEmpty ==
  /\ Open("implements") /\ Len(asked.t) = 0
  /\ Answer(TRUE)

ImplementsScan ==
  /\ Open("implements") /\ Len(asked.t) # 0
  /\ LET i == at[1]  j == at[2] IN
       /\ j <= Len(asked.v)
       /\ IF SameMethod(asked.t[i], asked.v[j])
          THEN IF i = Len(asked.t) THEN Answer(TRUE)
               ELSE at' = <<i + 1, j + 1>> /\ UNCHANGED <<asked, work, other, verdict>>
          ELSE at' = <<i, j + 1>> /\ UNCHANGED <<asked, work, other, verdict>>

ImplementsOver ==
  /\ Open("implements") /\ Len(asked.t) # 0 /\ at[2] > Len(asked.v)
  /\ Answer(FALSE)

-----------------------------------------------------------------------------
(* directlyAssignable and convertOp                                        *)

Bidirectional(T) == Typ(T).kind = "chan" /\ Typ(T).dir = "both"

specialChannelAssignability(T, V) ==
  /\ Typ(T).kind = "chan" /\ Bidirectional(V)
  /\ Typ(T).name = Unnamed \/ Typ(V).name = Unnamed
  /\ Typ(T).parts = Typ(V).parts

(* Start to compare the underlying types of T and V.                       *)
Compare(T, V, alternative) ==
  /\ work' = <<Pair(T, V, TRUE)>> /\ other' = alternative
  /\ UNCHANGED <<asked, at, verdict>>

Started == work # <<>>

(* "At least one of T and V must not be defined and they must have the     *)
(* same kind."                                                             *)
Assignable ==
  /\ Open("assignable") /\ ~Started
  /\ LET T == asked.T  V == asked.V IN
       IF T = V THEN Answer(TRUE)
       ELSE IF (Typ(T).name # Unnamed /\ Typ(V).name # Unnamed) \/ Typ(T).kind # Typ(V).kind
       THEN Answer(FALSE)
       ELSE IF specialChannelAssignability(T, V) THEN Answer(TRUE)
       ELSE Compare(T, V, <<>>)

NonDefinedPointer(T) == Typ(T).kind = "ptr" /\ Typ(T).name = Unnamed

Convertible ==
  /\ Open("convertible") /\ ~Started
  /\ LET T == asked.T  V == asked.V IN
       IF specialChannelAssignability(T, V) THEN Answer(TRUE)
       ELSE Compare(T, V, IF NonDefinedPointer(T) /\ NonDefinedPointer(V)
                          THEN <<Pair(Typ(T).parts[1], Typ(V).parts[1], TRUE)>> ELSE <<>>)

-----------------------------------------------------------------------------
(* haveIdenticalType and haveIdenticalUnderlyingType                       *)

cmpTags == asked.op = "assignable"

(* haveIdenticalType(T, V) goes on to the underlying types only if tags    *)
(* are ignored, names and kinds are the same.  The mistake forgets the     *)
(* names.                                                                  *)
MayBeIdenticalUnnamed(T, V) ==
  IF cmpTags THEN T = V ELSE Typ(T).kind = Typ(V).kind

MayBeIdentical(T, V) ==
  IF cmpTags THEN T = V ELSE Typ(T).name = Typ(V).name /\ Typ(T).kind = Typ(V).kind

(* Two underlying types agree but for the types of their parts.            *)
SameShape(T, V) ==
  /\ Typ(T).kind = Typ(V).kind /\ Len(Typ(T).parts) = Len(Typ(V).parts)
  /\ Typ(T).dir = Typ(V).dir
  /\ cmpTags => Typ(T).tag = Typ(V).tag

PartPairs(T, V) ==
  [k \in DOMAIN Typ(T).parts |-> Pair(Typ(T).parts[k], Typ(V).parts[k], FALSE)]

Differ == LET p == Head(work) IN
  \/ ~p.under /\ ~MayBeIdentical(p.T, p.V)
  \/ p.T # p.V /\ ~SameShape(p.T, p.V)

Comparing == Started /\ verdict = "none"

(* The first pair is the same type, or has the same shape: its parts come  *)
(* next, before the pairs that wait.                                       *)
Descend ==
  /\ Comparing /\ ~Differ
  /\ LET p == Head(work)
         next == (IF p.T = p.V THEN <<>> ELSE PartPairs(p.T, p.V)) \o Tail(work)
     IN  IF next = <<>> THEN Answer(TRUE)
         ELSE work' = next /\ UNCHANGED <<asked, at, other, verdict>>

Reject ==
  /\ Comparing /\ Differ
  /\ IF other = <<>> THEN Answer(FALSE)
     ELSE Compare(other[1].T, other[1].V, <<>>)

QueryNext == \/ ImplementsEmpty \/ ImplementsScan \/ ImplementsOver
             \/ Assignable \/ Convertible \/ Descend \/ Reject

QuerySpec == QueryInit /\ [][QueryNext]_queryVars

-----------------------------------------------------------------------------
(* The language                                                            *)

(* Pairs of identical types: two objects of a defined type never are; the  *)
(* relation is what remains when pairs that differ in a part are taken     *)
(* away, as often as there are types.                                      *)
Agree(T, V, tags) ==
  /\ Typ(T).kind = Typ(V).kind /\ Typ(T).dir = Typ(V).dir
  /\ Len(Typ(T).parts) = Len(Typ(V).parts)
  /\ tags => Typ(T).tag = Typ(V).tag

PartsIn(R, T, V) == \A k \in DOMAIN Typ(T).parts : <<Typ(T).parts[k], Typ(V).parts[k]>> \in R

IdenticalTypes(tags) ==
  LET N == DOMAIN asked.graph
      remain[n \in Nat] ==
        IF n = 0 THEN N \X N
        ELSE {p \in remain[n - 1] :
                p[1] = p[2] \/ (/\ Typ(p[1]).name = Unnamed /\ Typ(p[2]).name = Unnamed
                                /\ Agree(p[1], p[2], tags) /\ PartsIn(remain[n - 1], p[1], p[2]))}
  IN  remain[Len(asked.graph) + 1]

SameUnderlying(T, V, tags) ==
  T = V \/ (Agree(T, V, tags) /\ PartsIn(IdenticalTypes(tags), T, V))

MayAssign(T, V) ==
  \/ <<T, V>> \in IdenticalTypes(TRUE)
  \/ /\ Typ(T).name = Unnamed \/ Typ(V).name = Unnamed
     /\ \/ SameUnderlying(T, V, TRUE)
        \/ Typ(T).kind = "chan" /\ Bidirectional(V) /\ PartsIn(IdenticalTypes(TRUE), T, V)

MayConvert(T, V) ==
  \/ MayAssign(T, V) \/ SameUnderlying(T, V, FALSE)
  \/ /\ NonDefinedPointer(T) /\ NonDefinedPointer(V)
     /\ SameUnderlying(Typ(T).parts[1], Typ(V).parts[1], FALSE)

HasMethods(t, v) ==
  \A k \in DOMAIN t : \E l \in DOMAIN v :
    t[k].name = v[l].name /\ t[k].typ = v[l].typ /\ (t[k].exported \/ t[k].pkg = v[l].pkg)

(* implements is right of all types with sorted method tables.             *)
ImplementsRight ==
  asked.op = "implements" /\ verdict # "none" => (verdict = "yes" <=> HasMethods(asked.t, asked.v))

Right == CASE asked.op = "implements"  -> HasMethods(asked.t, asked.v)
           [] asked.op = "assignable"  -> MayAssign(asked.T, asked.V)
           [] asked.op = "convertible" -> MayConvert(asked.T, asked.V)

(* Every question is answered, on recursive types as well, and as the      *)
(* language's rules on implementing, assigning and converting answer it    *)
(* (between concrete types without conversions of their own).              *)
Answered == <>[](asked = NoQuestion \/ verdict = IF Right THEN "yes" ELSE "no")
=============================================================================
