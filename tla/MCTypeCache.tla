---------------------------- MODULE MCTypeCache ----------------------------
(* Instances of TypeCache: pointer types of which one is linked, one is    *)
(* linked with ptrToThis and one is new; two func types whose hashes       *)
(* collide, a linked one with another hash, and a struct type.             *)
EXTENDS TypeCache

MCMapKeys  == {"*new", "*linked", "*direct"}
MCListKeys == {"func1", "func2", "struct"}
MCHash     == [k \in MCListKeys |-> IF k = "struct" THEN "hs" ELSE "hf"]
MCFamily   == [k \in MCListKeys |-> IF k = "struct" THEN "struct" ELSE "func"]
=============================================================================
