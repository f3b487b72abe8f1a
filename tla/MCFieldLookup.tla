--------------------------- MODULE MCFieldLookup ---------------------------
(* All declarations of three struct types of at most two fields each; and  *)
(* with a fourth one, those where the first embeds two structs, the second *)
(* and third have at most one field and the fourth only plain or matching  *)
(* ones, which makes every diamond.                                        *)
EXTENDS FieldLookup

CONSTANTS T1, T2, T3, T4

Three  == {T1, T2, T3}
Leaf   == {Matching, Plain}
UpTo(n, S) == UNION {[1..l -> S] : l \in 0..n}

MCPrograms ==
  {[t \in Types |-> IF t = T4 THEN <<>> ELSE p[t]] :
     p \in [Three -> UpTo(2, Three \cup Leaf)]}
  \cup
  {[t \in Types |-> CASE t = T1 -> q[1] [] t = T2 -> q[2] [] t = T3 -> q[3] [] OTHER -> q[4]] :
     q \in [1..2 -> Types] \X UpTo(1, Types \cup Leaf) \X UpTo(1, Types \cup Leaf)
           \X UpTo(1, Leaf)}
=============================================================================
