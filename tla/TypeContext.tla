---------------------------- MODULE TypeContext ----------------------------
(***************************************************************************)
(* The conversion of go/types types into reflect types by one xtypes       *)
(* Context (types.go).  A client asks for one conversion after another; a  *)
(* conversion is the recursion ToType -> toNamedType / toStructType / ...  *)
(* -> ToType, made explicit as a stack of frames.                          *)
(*                                                                         *)
(* A reflect type is abstracted to the set of type objects it mentions:    *)
(* {} for a basic type, {o} for the named type o and also for *o, []o,     *)
(* chan o, and the union of the components' sets for the other composites. *)
(* A type object is a type with an identity of its own, a named type or a  *)
(* struct with a method set; its structure and its method signatures can   *)
(* be rewritten after it was handed out, which is what this code is about. *)
(***************************************************************************)
EXTENDS Naturals, Sequences, FiniteSets

CONSTANTS
  Names,         \* the *types.TypeName objects of the program
  Scopes,        \* the *types.Scope objects
  ScopeOf,       \* name.Parent()
  TypeId,        \* the string "pkgpath.name" of a TypeName
  Types,         \* the types.Type values of the program
  Programs,      \* the programs a client may have: what they declare, and the
                 \* methods unnamed structs get from embedded fields
  Requests,      \* the types a client asks for
  Provided,      \* the names the findTypeName callback answers, and the types
  ProvidedTypes, \* findType answers: with types that mention no object of the Context
  MaxRequests,   \* bound: conversions a client asks for
  NoType         \* nil

Kinds == {"basic", "invalid", "named", "composite", "interface", "embedding"}

(***************************************************************************)
(* "composite" is a pointer, slice, array, chan, map, signature or a       *)
(* struct without embedded fields; "embedding" is a struct whose named     *)
(* fields are embedded; "invalid" is a type without a reflect counterpart  *)
(* (untyped number, types.Invalid, a type of another kind); error is       *)
(* "basic", and an array of unknown length ends with an "invalid" element. *)
(***************************************************************************)
ASSUME TypesAssumption ==
  /\ Requests \subseteq Types /\ ProvidedTypes \subseteq Types
  /\ Provided \subseteq Names
  /\ ScopeOf \in [Names -> Scopes]
  /\ NoType \notin Names /\ NoType \notin Nat
  /\ \A t \in Types : /\ t.kind \in Kinds
                      /\ t.kind = "named" => t.name \in Names
                      /\ t.elems \in Seq(Types)
                      /\ t.kind \in {"basic", "invalid", "named"} => t.elems = <<>>

ASSUME ProgramsAssumption ==
  Programs \subseteq [decl : [Names -> [under : Types, methods : Seq(Types)]],
                      promoted : [Types -> Seq(Types)]]

(* A type is a finite tree, only names refer back to what is around them;  *)
(* and a program has finitely many types.                                  *)
Height[t \in Types] ==
  IF t.elems = <<>> THEN 0
  ELSE LET below == {Height[t.elems[i]] : i \in DOMAIN t.elems}
       IN  1 + CHOOSE x \in below : \A y \in below : y <= x

ASSUME HeightAssumption ==
  /\ IsFiniteSet(Types)
  /\ \A t \in Types : /\ Height[t] \in 0..Cardinality(Types)
                      /\ \A i \in DOMAIN t.elems : Height[t.elems[i]] < Height[t]

(* A Go scope declares a name once.                                        *)
ASSUME ScopeAssumption ==
  \A m, n \in Names : ScopeOf[m] = ScopeOf[n] /\ TypeId[m] = TypeId[n] => m = n

ASSUME BoundAssumption == MaxRequests \in Nat

VARIABLES
  prog,          \* the program, never changed
  placeholder,   \* per name: the key k of its entry in typeScope.rtype, or NoType
  resolved,      \* per name: the value v of that entry, or NoType
  heap,          \* the type objects made so far, by identity
  ntype,         \* the keys of context.ntype: objects with an update function
  stack,         \* the frames of the running conversion, innermost first
  ret,           \* what the last call returned
  requests       \* conversions asked for so far

vars == <<prog, placeholder, resolved, heap, ntype, stack, ret, requests>>

NoResult == [status |-> "none", refs |-> {}]
Ok(refs) == [status |-> "ok", refs |-> refs]
Err      == [status |-> "err", refs |-> {}]

(* list holds the types a loop converts, done the number it has taken up.  *)
Frame(op, typ, name, obj, list, refs) ==
  [op |-> op, typ |-> typ, name |-> name, obj |-> obj, list |-> list, done |-> 0,
   refs |-> refs, seen |-> {}]
CallToType(t)     == Frame("ToType", t, NoType, NoType, <<>>, {})
Elems(t)          == Frame("elems", t, NoType, NoType, t.elems, {})
NamedFrame(n)     == Frame("named", NoType, n, NoType, <<>>, {})
Attach(n, o)      == Frame("attach", NoType, n, o, <<>>, {})
Updater(o, sigs)  == Frame("fn", NoType, NoType, o, sigs, {})
Embedded(t, o, refs) == Frame("embedded", t, NoType, o, <<>>, refs)
RangeOver(o, S)   == Frame("range", NoType, NoType, o, <<>>, S)

Top  == Head(stack)
Rest == Tail(stack)
Push(frames) == stack' = frames \o Rest
Return(r) == /\ stack' = Rest
             /\ ret' = r

Running(op) == stack # <<>> /\ Top.op = op
AllTaken == Top.done = Len(Top.list)
Fresh == Len(heap) + 1
Object(n, under) == [name |-> n, under |-> under, methods |-> {}, complete |-> FALSE]

(***************************************************************************)
(* The entries of the typeScope that n lives in, and in it the entry whose *)
(* key has the PkgPath and Name of n.                                      *)
(***************************************************************************)
Entries(n)  == {m \in Names : ScopeOf[m] = ScopeOf[n] /\ placeholder[m] # NoType}
Matching(n) == {m \in Entries(n) : TypeId[m] = TypeId[n]}

Decl == prog.decl

IsInterface(n) == Decl[n].under.kind = "interface"

(***************************************************************************)
(* typeScope.UpdateType(typ) for the object o of the name n, on the heap   *)
(* h: enter o in the table, then let reflectx.ReplaceType rewrite the      *)
(* structure of every resolved type of the scope.  rmap is keyed by        *)
(* typeId, so a mention of ANY type with the id of an entry is replaced.   *)
(* ReplaceType goes through unnamed types and stops at named ones; method  *)
(* signatures are left to the update functions.                            *)
(***************************************************************************)
(* Mistakes: to leave the table alone when there is an entry already (and  *)
(* there always is), and to rewrite only the new type.                     *)
TableKept(n, o) == resolved

ReplacedOne(n, tab, h) ==
  LET New(y) == IF h[y].name # NoType /\ (\E m \in Entries(n) : TypeId[h[y].name] = TypeId[m]
                                                               /\ tab[m] # NoType)
                THEN tab[CHOOSE m \in Entries(n) : TypeId[h[y].name] = TypeId[m]]
                ELSE y
  IN  [h EXCEPT ![tab[n]].under = {New(y) : y \in @}]

Table(n, o) == [m \in Names |-> IF m \in Matching(n) THEN o ELSE resolved[m]]

Replaced(n, tab, h) ==
  LET live    == {m \in Entries(n) : tab[m] # NoType}
      HasId(y, m) == h[y].name # NoType /\ TypeId[h[y].name] = TypeId[m]
      New(y)  == IF \E m \in live : HasId(y, m)
                 THEN tab[CHOOSE m \in live : HasId(y, m)] ELSE y
      types   == {tab[m] : m \in live}
      unnamed == {y \in UNION {h[x].under : x \in types} : h[y].name = NoType}
  IN  [x \in DOMAIN h |-> IF x \in types \cup unnamed
                          THEN [h[x] EXCEPT !.under = {New(y) : y \in @}]
                          ELSE h[x]]

UpdateScope(n, o, h) == /\ resolved' = Table(n, o)
                        /\ heap' = Replaced(n, Table(n, o), h)

Init ==
  /\ prog \in Programs
  /\ placeholder = [n \in Names |-> NoType]
  /\ resolved = [n \in Names |-> NoType]
  /\ heap = <<>>
  /\ ntype = {}
  /\ stack = <<>>
  /\ ret = NoResult
  /\ requests = <<>>

-----------------------------------------------------------------------------
(* The client.                                                             *)

Request(t) ==
  /\ stack = <<>> /\ Len(requests) < MaxRequests
  /\ stack' = <<CallToType(t)>>
  /\ ret' = NoResult
  /\ requests' = Append(requests, t)
  /\ UNCHANGED <<prog, placeholder, resolved, heap, ntype>>

NoMoreRequests ==
  /\ stack = <<>> /\ Len(requests) = MaxRequests
  /\ UNCHANGED vars

-----------------------------------------------------------------------------
(* ToType: the cases without state, and the components of a composite one  *)
(* after the other, giving up at the first error.  The update function of  *)
(* toMethodSet converts the method signatures with the same discipline.    *)

Entering(kinds) == /\ Running("ToType") /\ Top.typ \notin ProvidedTypes
                   /\ Top.typ.kind \in kinds

ToTypeProvided ==
  /\ Running("ToType") /\ Top.typ \in ProvidedTypes
  /\ Return(Ok({}))
  /\ UNCHANGED <<prog, placeholder, resolved, heap, ntype, requests>>

ToTypeBasic ==
  /\ Entering({"basic"})
  /\ Return(Ok({}))
  /\ UNCHANGED <<prog, placeholder, resolved, heap, ntype, requests>>

ToTypeInvalid ==
  /\ Entering({"invalid"})
  /\ Return(Err)
  /\ UNCHANGED <<prog, placeholder, resolved, heap, ntype, requests>>

ToTypeComposite ==
  /\ Entering({"composite", "interface", "embedding"})
  /\ Push(<<Elems(Top.typ)>>)
  /\ UNCHANGED <<prog, placeholder, resolved, heap, ntype, ret, requests>>

Converting == Running("elems") \/ Running("fn")

NextElem ==
  /\ Converting /\ ret = NoResult /\ ~AllTaken
  /\ Push(<<CallToType(Top.list[Top.done + 1]), [Top EXCEPT !.done = @ + 1]>>)
  /\ UNCHANGED <<prog, placeholder, resolved, heap, ntype, ret, requests>>

ElemOk ==
  /\ Converting /\ ret.status = "ok"
  /\ Push(<<[Top EXCEPT !.refs = @ \cup ret.refs]>>)
  /\ ret' = NoResult
  /\ UNCHANGED <<prog, placeholder, resolved, heap, ntype, requests>>

ElemErr ==
  /\ Converting /\ ret.status = "err"
  /\ Return(Err)
  /\ UNCHANGED <<prog, placeholder, resolved, heap, ntype, requests>>

CompositeBuilt ==
  /\ Running("elems") /\ ret = NoResult /\ AllTaken
  /\ prog.promoted[Top.typ] = <<>>
  /\ Return(Ok(Top.refs))
  /\ UNCHANGED <<prog, placeholder, resolved, heap, ntype, requests>>

-----------------------------------------------------------------------------
(* toMethodSet.  The update function sets all methods or, on an error,     *)
(* none; its first call's error is dropped.  toStructType also drops the   *)
(* function itself.                                                        *)

StructWithMethods ==
  /\ Running("elems") /\ ret = NoResult /\ AllTaken
  /\ prog.promoted[Top.typ] # <<>>
  /\ heap' = Append(heap, Object(NoType, Top.refs))
  /\ Push(<<Updater(Fresh, prog.promoted[Top.typ]), Embedded(Top.typ, Fresh, Top.refs)>>)
  /\ UNCHANGED <<prog, placeholder, resolved, ntype, ret, requests>>

StructDone ==
  /\ Running("embedded") /\ ret # NoResult
  /\ Return(Ok(Top.refs \cup {Top.obj}))
  /\ UNCHANGED <<prog, placeholder, resolved, heap, ntype, requests>>

(* A mistake: to set the methods once only.                                *)
SetMethodSetOnce ==
  /\ Running("fn") /\ ret = NoResult /\ AllTaken
  /\ heap' = IF heap[Top.obj].complete THEN heap
             ELSE [heap EXCEPT ![Top.obj] = [@ EXCEPT !.methods = Top.refs, !.complete = TRUE]]
  /\ Return(Ok({}))
  /\ UNCHANGED <<prog, placeholder, resolved, ntype, requests>>

SetMethodSet ==
  /\ Running("fn") /\ ret = NoResult /\ AllTaken
  /\ heap' = [heap EXCEPT ![Top.obj] = [@ EXCEPT !.methods = Top.refs, !.complete = TRUE]]
  /\ Return(Ok({}))
  /\ UNCHANGED <<prog, placeholder, resolved, ntype, requests>>

-----------------------------------------------------------------------------
(* toNamedType.                                                            *)

Naming(n) == Entering({"named"}) /\ Top.typ.name = n

NameProvided(n) ==
  /\ Naming(n) /\ n \in Provided
  /\ Return(Ok({}))
  /\ UNCHANGED <<prog, placeholder, resolved, heap, ntype, requests>>

(* A mistake: FindTypeName returns the key, whether or not it has a value. *)
NameFoundKey(n) ==
  /\ Naming(n) /\ n \notin Provided
  /\ \E m \in Matching(n) : Return(Ok({placeholder[m]}))
  /\ UNCHANGED <<prog, placeholder, resolved, heap, ntype, requests>>

NameFound(n) ==
  /\ Naming(n) /\ n \notin Provided
  /\ \E m \in Matching(n) :
       Return(Ok({IF resolved[m] # NoType THEN resolved[m] ELSE placeholder[m]}))
  /\ UNCHANGED <<prog, placeholder, resolved, heap, ntype, requests>>

(* Mistakes: to enter a nil key, and to look no entry up.                  *)
NameNewNil(n) ==
  /\ Naming(n) /\ n \notin Provided
  /\ Matching(n) = {}
  /\ placeholder' = [placeholder EXCEPT ![n] = Fresh]
  /\ Push(<<CallToType(Decl[n].under), NamedFrame(n)>>)
  /\ UNCHANGED <<prog, resolved, heap, ntype, ret, requests>>

NameAnew(n) ==
  /\ Naming(n) /\ n \notin Provided
  /\ resolved[n] = NoType
  /\ heap' = Append(heap, Object(n, {}))
  /\ placeholder' = [placeholder EXCEPT ![n] = Fresh]
  /\ Push(<<CallToType(Decl[n].under), NamedFrame(n)>>)
  /\ UNCHANGED <<prog, resolved, ntype, ret, requests>>

NameNew(n) ==
  /\ Naming(n) /\ n \notin Provided
  /\ Matching(n) = {}
  /\ heap' = Append(heap, Object(n, {}))
  /\ placeholder' = [placeholder EXCEPT ![n] = Fresh]
  /\ Push(<<CallToType(Decl[n].under), NamedFrame(n)>>)
  /\ UNCHANGED <<prog, resolved, ntype, ret, requests>>

NamedErr ==
  /\ Running("named") /\ ret.status = "err"
  /\ Return(Err)
  /\ UNCHANGED <<prog, placeholder, resolved, heap, ntype, requests>>

HasMethodSet(n) == ~IsInterface(n) /\ Decl[n].methods # <<>>

NamedPlain ==
  /\ Running("named") /\ ret.status = "ok" /\ ~HasMethodSet(Top.name)
  /\ UpdateScope(Top.name, Fresh, Append(heap, Object(Top.name, ret.refs)))
  /\ Return(Ok({Fresh}))
  /\ UNCHANGED <<prog, placeholder, ntype, requests>>

(* A mistake: to let UpdateType make the first call of the update function.*)
NamedNotYetUpdated ==
  /\ Running("named") /\ ret.status = "ok" /\ HasMethodSet(Top.name)
  /\ heap' = Append(heap, Object(Top.name, ret.refs))
  /\ Push(<<Attach(Top.name, Fresh)>>)
  /\ UNCHANGED <<prog, placeholder, resolved, ntype, ret, requests>>

NamedWithMethods ==
  /\ Running("named") /\ ret.status = "ok" /\ HasMethodSet(Top.name)
  /\ heap' = Append(heap, Object(Top.name, ret.refs))
  /\ Push(<<Updater(Fresh, Decl[Top.name].methods), Attach(Top.name, Fresh)>>)
  /\ ret' = NoResult
  /\ UNCHANGED <<prog, placeholder, resolved, ntype, requests>>

-----------------------------------------------------------------------------
(* context.UpdateType with an update function: register it, then run every *)
(* registered one, in the map's arbitrary order, dropping their errors.    *)
(* An entry added during the loop may be visited or skipped.               *)

Register ==
  /\ Running("attach") /\ ret # NoResult
  /\ UpdateScope(Top.name, Top.obj, heap)
  /\ ntype' = ntype \cup {Top.obj}
  /\ Push(<<RangeOver(Top.obj, ntype')>>)
  /\ ret' = NoResult
  /\ UNCHANGED <<prog, placeholder, requests>>

(* A mistake: to start the loop again after each call.                     *)
RangeAgain(o) ==
  /\ Running("range") /\ o \in ntype \ Top.seen
  /\ Push(<<Updater(o, Decl[heap[o].name].methods), Top>>)
  /\ ret' = NoResult
  /\ UNCHANGED <<prog, placeholder, resolved, heap, ntype, requests>>

RangeNext(o) ==
  /\ Running("range") /\ o \in ntype \ Top.seen
  /\ Push(<<Updater(o, Decl[heap[o].name].methods), [Top EXCEPT !.seen = @ \cup {o}]>>)
  /\ ret' = NoResult
  /\ UNCHANGED <<prog, placeholder, resolved, heap, ntype, requests>>

RangeDone ==
  /\ Running("range") /\ Top.refs \subseteq Top.seen
  /\ Return(Ok({Top.obj}))
  /\ UNCHANGED <<prog, placeholder, resolved, heap, ntype, requests>>

-----------------------------------------------------------------------------
Convert ==
  \/ ToTypeProvided \/ ToTypeBasic \/ ToTypeInvalid \/ ToTypeComposite
  \/ NextElem \/ ElemOk \/ ElemErr \/ CompositeBuilt
  \/ StructWithMethods \/ StructDone \/ SetMethodSet
  \/ \E n \in Names : NameProvided(n) \/ NameFound(n) \/ NameNew(n)
  \/ NamedErr \/ NamedPlain \/ NamedWithMethods
  \/ Register \/ (\E o \in ntype : RangeNext(o)) \/ RangeDone

Next == Convert \/ (\E t \in Requests : Request(t)) \/ NoMoreRequests

Spec == Init /\ [][Next]_vars

(* A conversion is one goroutine running: it does not stop by itself.      *)
FairSpec == Spec /\ WF_vars(Convert)

-----------------------------------------------------------------------------
(* What a conversion should have done.                                     *)

Mentioned[t \in Types] ==
  IF t \in ProvidedTypes THEN {} ELSE IF t.kind = "named" THEN {t.name} \ Provided
  ELSE UNION {Mentioned[t.elems[i]] : i \in DOMAIN t.elems}

Wrong[t \in Types] ==
  /\ t \notin ProvidedTypes
  /\ t.kind = "invalid" \/ \E i \in DOMAIN t.elems : Wrong[t.elems[i]]

Image(n) == IF resolved[n] # NoType THEN resolved[n] ELSE placeholder[n]

NamedIn(refs) == {o \in refs : heap[o].name # NoType}

StructureOf(n) == NamedIn(heap[resolved[n]].under)
MethodTypesOf(n) == NamedIn(heap[resolved[n]].methods)
Images(S) == {Image(n) : n \in S}
InMethods(n) == UNION {Mentioned[Decl[n].methods[i]] : i \in DOMAIN Decl[n].methods}

(* The structure of every declared type can be converted.                  *)
Pure(p) == \A n \in Names : ~Wrong[p.decl[n].under]

(* No declaration and no request of the run has a type that cannot be      *)
(* converted.                                                              *)
Clean ==
  /\ Pure(prog)
  /\ \A n \in Names : \A i \in DOMAIN Decl[n].methods : ~Wrong[Decl[n].methods[i]]
  /\ \A i \in DOMAIN requests : ~Wrong[requests[i]]

(* No two names of the program have one id.                                *)
UniqueIds == \A m, n \in Names : TypeId[m] = TypeId[n] => m = n

NamesOf(g) == {n \in Names : ScopeOf[n] = g}

(* The program p is one package with the scope g: what is declared in a    *)
(* function mentions that function's names and the package's, and methods, *)
(* promoted ones too, mention the package's only.                          *)
OnePackage(p, g) ==
  /\ \A n \in Names : Mentioned[p.decl[n].under] \subseteq NamesOf(g) \cup NamesOf(ScopeOf[n])
  /\ \A n \in Names : \A i \in DOMAIN p.decl[n].methods :
       Mentioned[p.decl[n].methods[i]] \subseteq NamesOf(g)
  /\ \A t \in Types : \A i \in DOMAIN p.promoted[t] :
       Mentioned[p.promoted[t][i]] \subseteq NamesOf(g)

Idle == stack = <<>>
Pending(n) == placeholder[n] # NoType /\ resolved[n] = NoType

-----------------------------------------------------------------------------
(* Objects are identified by their position in the heap h; every frame has *)
(* the fields its operation uses, and nothing has an update function but   *)
(* named types.                                                            *)
ObjectsOf(h) == 1..Len(h)

HeapObjects(h) == [name : Names \cup {NoType}, under : SUBSET ObjectsOf(h),
                   methods : SUBSET ObjectsOf(h), complete : BOOLEAN]

Frames(h) ==
  {f \in [op : {"ToType", "elems", "named", "attach", "fn", "embedded", "range"},
          typ : Types \cup {NoType}, name : Names \cup {NoType},
          obj : ObjectsOf(h) \cup {NoType}, list : Seq(Types), done : Nat,
          refs : SUBSET ObjectsOf(h), seen : SUBSET ObjectsOf(h)] :
     /\ f.done <= Len(f.list)
     /\ f.op \in {"ToType", "elems", "embedded"} => f.typ \in Types
     /\ f.op \in {"named", "attach"} => f.name \in Names
     /\ f.op \in {"attach", "fn", "embedded", "range"} => f.obj \in ObjectsOf(h)
     /\ f.op = "attach" => h[f.obj].name = f.name}

TypeOK ==
  /\ prog \in [decl : [Names -> [under : Types, methods : Seq(Types)]],
               promoted : [Types -> Seq(Types)]]
  /\ placeholder \in [Names -> ObjectsOf(heap) \cup {NoType}]
  /\ resolved \in [Names -> ObjectsOf(heap) \cup {NoType}]
  /\ heap \in Seq(HeapObjects(heap))
  /\ ntype \subseteq {o \in ObjectsOf(heap) : heap[o].name \in Names}
  /\ ret \in [status : {"none", "ok", "err"}, refs : SUBSET ObjectsOf(heap)]
  /\ requests \in Seq(Types)
  /\ stack \in Seq(Frames(heap))

(* The names whose conversion is under way, in the stack s.                *)
CompletesName(f) == f.op \in {"named", "attach"}
UnderWay(s) == {s[i].name : i \in {j \in DOMAIN s : CompletesName(s[j])}}
OneEach(s) == \A i, j \in DOMAIN s :
  CompletesName(s[i]) /\ CompletesName(s[j]) /\ s[i].name = s[j].name => i = j

(* toNamedType is never entered again for a name it is converting: for     *)
(* each such name one frame will give its entry, still without a value,    *)
(* its type.  (FindTypeName enters the placeholder before the underlying   *)
(* type is converted, which comes back to the name if it is recursive.)    *)
OncePerName ==
  /\ OneEach(stack)
  /\ \A n \in UnderWay(stack) : Pending(n)
  /\ \A n \in Names : resolved[n] # NoType => placeholder[n] # NoType

(* At any time, the structure of every resolved named type mentions        *)
(* exactly the types of the names its declaration mentions, and the        *)
(* placeholders of those that are still being converted: recursion through *)
(* placeholders (NameFound) and the rewriting by UpdateScope together lose *)
(* and confuse no reference, whatever the order in which mutually          *)
(* recursive names were first met.                                         *)
StructureFaithful ==
  \A n \in Names : resolved[n] # NoType =>
    StructureOf(n) = Images(Mentioned[Decl[n].under])

(* A conversion that succeeds returns the types of the names asked for.    *)
ResultFaithful ==
  Idle /\ ret.status = "ok" =>
    NamedIn(ret.refs) = Images(Mentioned[requests[Len(requests)]])

(* While nothing has failed, a conversion that is over has succeeded and   *)
(* has left no placeholder behind.                                         *)
CleanConversion ==
  Idle /\ Clean => /\ ret.status # "err"
                   /\ \A n \in Names : ~Pending(n)

(* A name that has its type keeps that very type for good: toNamedType     *)
(* completes at most once per name, in all conversions of a Context.       *)
ResolvedOnce ==
  [][\A n \in Names : resolved[n] # NoType => resolved'[n] = resolved[n]]_vars

(* The body of UpdateType's loop re-enters ToType and may come back to     *)
(* UpdateType, but adds nothing to the map the loop ranges over, as long   *)
(* as the structure of every declared type can be converted.  (Otherwise   *)
(* it does: the call that fails at a name leaves its placeholder, with     *)
(* which the loop's call gets further, to names never met before.)         *)
LoopUndisturbed == Pure(prog) /\ Running("range") => ntype = Top.refs

(* The registered types that UpdateType's loop has been through have all   *)
(* their methods, with signatures that mention the types the names have by *)
(* now, and placeholders only of names that are being converted around it. *)
LoopRefreshesMethods ==
  Running("range") /\ Clean =>
    \A n \in Names : resolved[n] \in Top.seen =>
      /\ heap[resolved[n]].complete
      /\ MethodTypesOf(n) = Images(InMethods(n))

(* Every conversion ends.                                                  *)
ConversionEnds == stack # <<>> ~> stack = <<>>

(* Claimed by the package (types.go:17, and TestInterface: a signature     *)
(* that mentions its own type mentions the very type returned): between    *)
(* two conversions no method signature of a converted type mentions a      *)
(* placeholder.  It does: see the run of this name.                        *)
MethodsFaithful ==
  Idle /\ Clean => \A n \in Names :
    resolved[n] # NoType /\ HasMethodSet(n) =>
      MethodTypesOf(n) = Images(InMethods(n))

(* Claimed by the signature (reflect.Type, error): a conversion without an *)
(* error returns complete types, no placeholder.  After a failed           *)
(* conversion it returns one: see the run of this name.                    *)
SuccessIsComplete ==
  Idle /\ ret.status = "ok" =>
    \A n \in Names : placeholder[n] \notin ret.refs

(* Claimed by the package (types.go:17): ToType converts.  The method set  *)
(* of an unnamed struct is not computed inside the computation of that     *)
(* very method set, which would never end: see the run of this name.       *)
NoSelfConversion ==
  \A i, j \in DOMAIN stack :
    stack[i].op = "elems" /\ stack[i].typ.kind = "embedding" /\ i < j =>
      ~(stack[j].op = "embedded" /\ stack[j].typ = stack[i].typ)
=============================================================================
