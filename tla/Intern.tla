------------------------------- MODULE Intern -------------------------------
(***************************************************************************)
(* What the type constructors of package reflect promise (type.go, the     *)
(* comment on Type: "Two Type values are equal if they represent identical *)
(* types"): a table that gives every type description one type object,     *)
(* for good, and a constructor call that looks its description up in one   *)
(* indivisible step, entering an object nobody else has when there is none.*)
(***************************************************************************)
CONSTANTS
  G,        \* the goroutines
  K,        \* the descriptions of types: pointer to t, func(t) u, ...
  Obj,      \* the type objects
  Linked,   \* Linked[k]: the object the compiler made for k, or None
  None

VARIABLES
  table,    \* table[k]: the object of k, or None
  phase,    \* of goroutine g's call: "idle", "asked", "answered"
  key,      \* the description it asked for
  answer    \* the object it is given

vars == <<table, phase, key, answer>>

Init ==
  /\ table = Linked
  /\ phase = [g \in G |-> "idle"]
  /\ key = [g \in G |-> None]
  /\ answer = [g \in G |-> None]

Ask(g, k) ==
  /\ phase[g] = "idle"
  /\ phase' = [phase EXCEPT ![g] = "asked"]
  /\ key' = [key EXCEPT ![g] = k]
  /\ UNCHANGED <<table, answer>>

Give(g, o) ==
  /\ phase' = [phase EXCEPT ![g] = "answered"]
  /\ answer' = [answer EXCEPT ![g] = o]
  /\ UNCHANGED key

Found(g) ==
  /\ phase[g] = "asked" /\ table[key[g]] # None
  /\ Give(g, table[key[g]])
  /\ UNCHANGED table

Entered(g, o) ==
  /\ phase[g] = "asked" /\ table[key[g]] = None
  /\ \A k \in K : table[k] # o
  /\ Give(g, o)
  /\ table' = [table EXCEPT ![key[g]] = o]

Return(g) ==
  /\ phase[g] = "answered"
  /\ phase' = [phase EXCEPT ![g] = "idle"]
  /\ UNCHANGED <<table, key, answer>>

Next == \E g \in G : \/ \E k \in K : Ask(g, k)
                     \/ Found(g)
                     \/ \E o \in Obj : Entered(g, o)
                     \/ Return(g)

Spec == Init /\ [][Next]_vars
=============================================================================
