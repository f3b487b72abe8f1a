------------------------------ MODULE MCValues ------------------------------
(* A struct of an integer and an interface, an array [1]*int, which        *)
(* interfaces hold directly, pointers to them, maps; integers of three     *)
(* widths, two bits for uint8 and four for uint64; slices, arrays and      *)
(* strings of bytes.                                                       *)
EXTENDS Slices, TLC

R(kind, parts, elem, size, direct) ==
  [kind |-> kind, parts |-> parts, elem |-> elem, size |-> size, direct |-> direct, bits |-> 0]
I(kind, bits) == [R(kind, <<>>, NoType, 1, FALSE) EXCEPT !.bits = bits]
P(t, off) == [typ |-> t, offset |-> off]

MCTypes == {"int", "iface", "S", "*S", "*int", "A", "*A", "map", "*map", "pmap",
            "int8", "uint8", "uint64", "*int8", "*uint8",
            "[]uint8", "*[]uint8", "[1]uint8", "*[1]uint8", "string"}
MCrtype == [t \in MCTypes |->
  CASE t = "int"   -> I("int", 4)
    [] t = "iface" -> R("iface", <<>>, NoType, 1, FALSE)
    [] t = "S"     -> R("struct", <<P("int", 0), P("iface", 1)>>, NoType, 2, FALSE)
    [] t = "*S"    -> R("ptr", <<>>, "S", 1, TRUE)
    [] t = "*int"  -> R("ptr", <<>>, "int", 1, TRUE)
    [] t = "A"     -> R("array", <<P("*int", 0)>>, "*int", 1, TRUE)
    [] t = "*A"    -> R("ptr", <<>>, "A", 1, TRUE)
    [] t = "map"   -> R("map", <<>>, "int", 1, TRUE)
    [] t = "*map"  -> R("ptr", <<>>, "map", 1, TRUE)
    [] t = "pmap"  -> R("map", <<>>, "*int", 1, TRUE)
    [] t = "int8"      -> I("int", 2)
    [] t = "uint8"     -> I("uint", 2)
    [] t = "uint64"    -> I("uint", 4)
    [] t = "*int8"     -> R("ptr", <<>>, "int8", 1, TRUE)
    [] t = "*uint8"    -> R("ptr", <<>>, "uint8", 1, TRUE)
    [] t = "[]uint8"   -> R("slice", <<>>, "uint8", 1, FALSE)
    [] t = "*[]uint8"  -> R("ptr", <<>>, "[]uint8", 1, TRUE)
    [] t = "[1]uint8"  -> R("array", <<P("uint8", 0)>>, "uint8", 1, FALSE)
    [] t = "*[1]uint8" -> R("ptr", <<>>, "[1]uint8", 1, TRUE)
    [] t = "string"    -> R("string", <<>>, "uint8", 1, FALSE)]

Client(asked, ints, objects) == [asked |-> asked, ints |-> ints, objects |-> objects]

MCClients == {Client({"S", "iface"}, {1}, 3), Client({"A", "int"}, {1}, 3),
              Client({"int", "map"}, {1}, 4), Client({"int", "pmap"}, {1}, 3),
              Client({"int", "int8", "uint8", "uint64"}, {-2, 2, 11}, 3),
              Client({"[1]uint8"}, {1}, 5), Client({"[]uint8", "string"}, {1}, 5)}

(* The clients that use slices leave their interface alone.                *)
Small == client.asked \cap {"[]uint8", "[1]uint8"} # {} => held = Zero

Symmetry == Permutations(Registers)
=============================================================================
