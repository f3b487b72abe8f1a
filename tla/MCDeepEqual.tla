---------------------------- MODULE MCDeepEqual ----------------------------
(* Memories of two interface{} variables u, v, whose boxes bu, bv hold     *)
(* pointers to the variables, slices of them, maps, structs, functions or  *)
(* numbers, shared and cyclic in every way.  A struct has one field, and a *)
(* map at most one entry, em or en, of pointer type P.                     *)
EXTENDS DeepEqual

CellOf(kind, t, ref, elems, val) ==
  [kind |-> kind, typ |-> t, ref |-> ref, elems |-> elems, val |-> val]

Any(ref)    == CellOf("Interface", "any", ref, <<>>, Nil)
P(ref)      == CellOf("Ptr", "P", ref, <<>>, Nil)
Struct(f)   == CellOf("Struct", "S", Nil, <<f>>, Nil)
Ptrs        == {CellOf("Ptr", "*any", r, <<>>, Nil) : r \in {"u", "v", Nil}}
Slice(r, s) == CellOf("Slice", "[]any", r, s, Nil)
Slices      == {Slice("u", <<>>), Slice("u", <<"u">>), Slice("u", <<"u", "v">>),
                Slice("v", <<"v">>), Slice(Nil, <<>>)}
Maps        == {CellOf("Map", "map", r, <<>>, Nil) : r \in {"m", "n", Nil}}
Funcs       == {CellOf("Func", "func()", Nil, <<>>, v) : v \in {Nil, "one"}}
Numbers     == {CellOf("Data", "float64", Nil, <<>>, v) : v \in {"one", NaN}}

MCLoc == {"u", "v", "bu", "bv", "em", "en"}
Memory(p, q, iv, im, jn, keys) ==
  [cell |-> [l \in MCLoc |->
      CASE l = "u" -> Any("bu") [] l = "v" -> Any(iv)
        [] l = "em" -> P(im) [] l = "en" -> P(jn)
        [] l = "bu" -> p [] l = "bv" -> q],
   maps |-> [o \in {"m", "n"} |-> IF o = "m" THEN [k \in {"k"} |-> "em"]
                                  ELSE [k \in keys |-> "en"]]]
(* Boxes of type P: a chain of pointers into a cycle, or out of one.       *)
Chain(r) ==
  [cell |-> [l \in MCLoc |->
      CASE l = "u" -> Any("bu") [] l = "v" -> Any("em")
        [] l = "bu" -> P("u") [] l = "bv" -> P("v") [] l = "em" -> P(r)
        [] l = "en" -> Any(Nil)],
   maps |-> [o \in {"m", "n"} |-> <<>>]]
MCMemories ==
  LET held == UNION {S \X S : S \in {Ptrs, Slices, Funcs, Numbers}}
              \cup Slices \X Ptrs \cup (Slices \cup Ptrs) \X Numbers
  IN  {Memory(b[1], b[2], iv, "u", "v", {"k"}) : b \in held, iv \in {"bv", Nil}}
      \cup {Memory(b[1], b[2], iv, im, jn, keys) :
              b \in Maps \X Maps \cup {<<Struct("em"), Struct("en")>>},
              iv \in {"bv", Nil}, im, jn \in {"u", "v"}, keys \in {{"k"}, {"l"}, {}}}
      \cup {Chain(r) : r \in {"u", "v", "en", Nil}}
MCRoots == {<<"bu", "bv">>, <<"bu", "bu">>}
=============================================================================
