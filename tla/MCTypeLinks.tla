---------------------------- MODULE MCTypeLinks ----------------------------
(* All tables of one section of at most six types, or of two sections of   *)
(* at most two, over three strings; a look-up of each of them and of two   *)
(* strings that sort before and after all.  Or else a question: about two  *)
(* of three types of all kinds, or of four types, of which two are defined *)
(* or not; or about lists of the methods A, and m of packages p and q.     *)
EXTENDS TypeLinks, TypeQueries

Ranks       == 1..3
Sections(n) == {q \in UNION {[1..l -> Ranks] : l \in 0..n} :
                  \A k, l \in DOMAIN q : k <= l => q[k] <= q[l]}
MCTables    == {<<>>} \cup {<<q>> : q \in Sections(6)}
               \cup {<<q, r>> : q, r \in Sections(2)}

Desc(kind, name, parts, dir, tag) ==
  [kind |-> kind, name |-> name, parts |-> parts, dir |-> dir, tag |-> tag]

(* What type T can be among N types: an integer type, a defined type, or   *)
(* one without a name.                                                     *)
Ints(T)         == {Desc("int", T, <<>>, "", "")}
Pointers(T, N)  == {Desc("ptr", n, <<p>>, "", "") : n \in {T, Unnamed}, p \in 1..N}
Structs(T, N)   == {Desc("struct", n, <<p>>, "", t) : n \in {T, Unnamed}, p \in 1..N, t \in {"x", "y"}}
Channels(T, N)  == {Desc("chan", n, <<p>>, d, "") : n \in {T, Unnamed}, p \in 1..N, d \in {"both", "send"}}
Functions(T, N) == {Desc("func", n, <<p, q>>, "", "") : n \in {T, Unnamed}, p, q \in 1..N}
All(T, N) == Ints(T) \cup Pointers(T, N) \cup Structs(T, N) \cup Channels(T, N) \cup Functions(T, N)
Few(T, N) == Ints(T) \cup Pointers(T, N) \cup Structs(T, N)
Bare(T, N) == Ints(T) \cup {d \in Few(T, N) : d.name = Unnamed}

(* No type contains itself but through a defined type and a pointer.       *)
Wellfounded(g, S) ==
  LET left[n \in Nat] == IF n = 0 THEN S
                         ELSE {T \in left[n - 1] : \E k \in DOMAIN g[T].parts : g[T].parts[k] \in left[n - 1]}
  IN  left[Len(g)] = {}

Valid(g) ==
  /\ \A T, V \in DOMAIN g : g[T] = g[V] => T = V
  /\ Wellfounded(g, {T \in DOMAIN g : g[T].name = Unnamed})
  /\ Wellfounded(g, {T \in DOMAIN g : g[T].kind = "struct"})

MCGraphs == {g \in All(1, 3) \X All(2, 3) \X All(3, 3) : Valid(g)}
            \cup {g \in Few(1, 4) \X Few(2, 4) \X Bare(3, 4) \X Bare(4, 4) : Valid(g)}

Method(name, pkg, typ) ==
  [name |-> name, exported |-> name = "A", pkg |-> pkg, typ |-> typ,
   rank |-> IF name = "A" THEN 1 ELSE IF pkg = "p" THEN 2 ELSE 3]
Maybe(S)  == {<<>>} \cup {<<x>> : x \in S}
MCMethods == {a \o b \o c : a \in Maybe({Method("A", "p", 1), Method("A", "p", 2), Method("A", "q", 1)}),
                            b \in Maybe({Method("m", "p", 1), Method("m", "p", 2)}),
                            c \in Maybe({Method("m", "q", 1), Method("m", "q", 2)})}

-----------------------------------------------------------------------------
Scanning == offset # <<>>

MCInit == \/ Init /\ QueryIdle
          \/ Init /\ ~Scanning /\ s = 0 /\ QueryInit

MCNext == \/ Next /\ UNCHANGED queryVars
          \/ QueryNext /\ UNCHANGED vars

(* Each is one goroutine running, which is never stopped for good.         *)
MCSpec == MCInit /\ [][MCNext]_<<vars, queryVars>> /\ WF_vars(Next) /\ WF_queryVars(QueryNext)
=============================================================================
