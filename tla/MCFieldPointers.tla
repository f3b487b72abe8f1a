-------------------------- MODULE MCFieldPointers --------------------------
(* A pointer type the compiler made and one it did not.                    *)
EXTENDS FieldPointers

MCLinked == [k \in K |-> IF k = "*linked" THEN "linker" ELSE None]
=============================================================================
