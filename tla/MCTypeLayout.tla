---------------------------- MODULE MCTypeLayout ----------------------------
(* Basic types as the compiler lays them out with words of eight bytes,    *)
(* and functions of them.                                                  *)
EXTENDS CallFrame

Basic(sz, al, ptrdata, mask, slots, direct) ==
  [kind |-> "basic", size |-> sz, align |-> al, ptrdata |-> ptrdata,
   prog |-> FALSE, program |-> <<>>, mask |-> mask, bits |-> 8,
   comparable |-> TRUE, direct |-> direct, parts |-> <<>>, slots |-> slots]

Slot(n) == <<[offset |-> 0, ptrs |-> n]>>

PointerType   == Basic(8, 8, 8, {0}, Slot(1), TRUE)
Uint8Type     == Basic(1, 1, 0, {}, <<>>, FALSE)
StringType    == Basic(16, 8, 8, {0}, Slot(1), FALSE)
InterfaceType == Basic(16, 8, 16, {0, 1}, Slot(2), FALSE)
EmptyType     == Basic(0, 1, 0, {}, <<>>, FALSE)

(* A linked struct of four words, too large for a mask of three: the       *)
(* compiler gave it a program.                                             *)
LargeType ==
  [Basic(32, 8, 24, {0, 2}, Slot(1) \o <<[offset |-> 16, ptrs |-> 1]>>, FALSE) EXCEPT
     !.prog = TRUE, !.program = <<Lit(<<1, 0>>), Lit(<<1>>)>>, !.bits = 0]

AllBasic == <<PointerType, Uint8Type, StringType, InterfaceType, EmptyType, LargeType>>

-----------------------------------------------------------------------------
(* Every list of one or two of the linked types, as arguments or results;  *)
(* functions that are called twice, for pools and results that are kept;   *)
(* and a type that reflection has made, among bytes that shift it.         *)
Shape(in, out, calls) == [in |-> in, out |-> out, calls |-> calls]

Lists(n) == UNION {[1..k -> DOMAIN AllBasic] : k \in 0..n}

SomeShapes ==
  {Shape(in, out, 1) : in \in Lists(2), out \in Lists(1)}
  \cup {Shape(in, out, 1) : in \in Lists(1), out \in Lists(2)}
  \cup {Shape(in, <<>>, 2) : in \in {<<>>, <<2>>, <<3>>, <<2, 1>>}}
  \cup {Shape(in, out, 2) : in \in {<<1>>, <<2, 3>>}, out \in {<<1>>, <<2, 3>>}}
  \cup {Shape(<<Newest, 2>>, <<1>>, 1), Shape(<<2, Newest>>, <<Newest>>, 1)}

SomeReceivers ==
  {r \in [direct : BOOLEAN, indir : BOOLEAN, iface : BOOLEAN] : ~r.direct \/ r.iface => r.indir}
=============================================================================
