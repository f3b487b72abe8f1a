--------------------------- MODULE MCTypeContext ---------------------------
(* Instances of TypeContext: all declarations of a few names over a small  *)
(* grammar of types.                                                       *)
EXTENDS TypeContext

LOCAL INSTANCE SequencesExt

Typ(kind, name, elems) == [kind |-> kind, name |-> name, elems |-> elems]
Basic        == Typ("basic", NoType, <<>>)
Invalid      == Typ("invalid", NoType, <<>>)
Named(n)     == Typ("named", n, <<>>)
Of(elems)    == Typ("composite", NoType, elems)
Iface(elems) == Typ("interface", NoType, elems)
Embeds(n)    == Typ("embedding", NoType, <<Named(n)>>)

Declare(under, methods) == [under |-> under, methods |-> methods]

(* The methods IntuitiveMethodSet reports for an unnamed struct: those its *)
(* embedded fields promote.  A named struct has them as well.              *)
MethodsOf(d) == IF d.under.kind = "interface" THEN d.under.elems ELSE d.methods

Promoted(decl, t) ==
  IF t.kind # "embedding" THEN <<>>
  ELSE FlattenSeq([i \in DOMAIN t.elems |-> MethodsOf(decl[t.elems[i].name])])

WithPromoted(decl) ==
  [n \in DOMAIN decl |->
     Declare(decl[n].under, decl[n].methods \o Promoted(decl, decl[n].under))]

Program(decl, types) ==
  [decl |-> WithPromoted(decl),
   promoted |-> [t \in types |-> Promoted(WithPromoted(decl), t)]]

-----------------------------------------------------------------------------
(* Two package-level names A and B, a type L declared in a function, and X *)
(* that the findTypeName callback provides.                                *)
MCNames == {"A", "B", "L", "X"}
MCScope == [n \in MCNames |-> IF n = "L" THEN "func" ELSE "pkg"]
MCId    == [n \in MCNames |-> n]

(* The local type has the name of the package-level type A: two types      *)
(* "main.A", as in TestMultiple.                                           *)
ShadowId == [n \in MCNames |-> IF n = "L" THEN "A" ELSE n]

Ptr(n)     == Of(<<Named(n)>>)
Pkg        == {"A", "B"}
Declarable(d)     == d.under.kind = "interface" => d.methods = <<>>
Decls(U, M) == {d \in {Declare(u, ms) : u \in U, ms \in M} : Declarable(d)}

Composites == {Of(<<Ptr(m), Ptr(n)>>) : m, n \in Pkg} \cup {Iface(<<Ptr(n)>>) : n \in Pkg}
OneMethod  == {<<>>} \cup {<<Ptr(n)>> : n \in Pkg}

(* Every order of meeting and completing two names, a type that cannot be  *)
(* converted at every place; L mentions both.                              *)
MixedUnder ==
  {Basic, Invalid, Of(<<Ptr("A"), Ptr("B")>>), Of(<<Ptr("B"), Ptr("A")>>)}
  \cup {Ptr(n) : n \in Pkg \cup {"X"}} \cup {Of(<<Ptr(n), Invalid>>) : n \in Pkg}
  \cup {Iface(<<Ptr(n)>>) : n \in Pkg}
MixedMethods == OneMethod \cup {<<Ptr("A"), Ptr("B")>>, <<Ptr("B"), Invalid>>}
MixedDecls   == Decls(MixedUnder, MixedMethods)
BothLocal    == Declare(Of(<<Ptr("B"), Ptr("A")>>), <<>>)

(* Structs that embed a named type, also unnamed ones inside other types.  *)
PkgDecls   == Decls(Composites, OneMethod)
Embedders  == {Declare(Embeds("B"), ms) : ms \in OneMethod}
LocalDecls == {Declare(u, <<>>) : u \in {Of(<<Ptr("L"), Ptr("A")>>), Embeds("B"),
                                         Of(<<Embeds("B"), Ptr("L")>>)}}

MCTypes ==
  MixedUnder \cup Composites \cup {d.under : d \in LocalDecls}
    \cup {Ptr(n) : n \in MCNames} \cup {Named(n) : n \in MCNames}
    \cup {Embeds(n) : n \in Pkg}

Declaring(a, b, l) ==
  Program([n \in MCNames |-> CASE n = "A" -> a [] n = "B" -> b [] n = "L" -> l
                               [] n = "X" -> Declare(Basic, <<>>)],
          MCTypes)
MCPrograms ==
  {Declaring(a, b, BothLocal) : a, b \in MixedDecls}
  \cup {Declaring(a, b, l) : a \in PkgDecls \cup Embedders, b \in PkgDecls, l \in LocalDecls}

MCProvided == {Of(<<Ptr("B"), Invalid>>)}
MCRequests == {Named("A"), Named("L")}

-----------------------------------------------------------------------------
(* func (E) M(struct{ E }): a promoted method that mentions the unnamed    *)
(* struct it is promoted through.                                          *)
SelfNames    == {"E"}
SelfScope    == [n \in SelfNames |-> "pkg"]
SelfId       == [n \in SelfNames |-> n]
SelfTypes    == {Basic, Named("E"), Embeds("E"), Ptr("E"), Of(<<Embeds("E")>>)}
SelfPrograms == {Program([n \in SelfNames |-> Declare(Basic, ms)], SelfTypes) :
                   ms \in {<<>>, <<Ptr("E")>>, <<Of(<<Embeds("E")>>)>>}}

-----------------------------------------------------------------------------
(* Every instance is one package.                                          *)
ASSUME OnePackageAssumption == \A p \in Programs : OnePackage(p, "pkg")
=============================================================================
