--------------------------- MODULE FieldPointers ---------------------------
(***************************************************************************)
(* Two copies of package reflect in one program.  xtypes.FieldAddr         *)
(* (xcall.go) takes the address of a field with internal/reflect, whose    *)
(* ptrTo has a ptrMap of its own; the rest of the program, ToType included, *)
(* makes pointer types with the standard reflect.PtrTo.  Each copy is an   *)
(* atomic table of types (Intern, which TypeCache implements); they share  *)
(* the types linked into the binary and nothing else.                      *)
(***************************************************************************)
CONSTANTS
  G,         \* the goroutines
  K,         \* the pointer types *T, by T
  ForkObj, StdObj,   \* the objects the two copies make
  Linked,    \* Linked[k]: the object the compiler made for *T, or None
  None

VARIABLES
  ptrMap, forkPhase, forkKey, forkAnswer,    \* internal/reflect
  stdMap, stdPhase, stdKey, stdAnswer        \* reflect

forkVars == <<ptrMap, forkPhase, forkKey, forkAnswer>>
stdVars  == <<stdMap, stdPhase, stdKey, stdAnswer>>
vars     == <<forkVars, stdVars>>

Fork == INSTANCE Intern WITH Obj <- ForkObj, table <- ptrMap,
          phase <- forkPhase, key <- forkKey, answer <- forkAnswer
Std  == INSTANCE Intern WITH Obj <- StdObj, table <- stdMap,
          phase <- stdPhase, key <- stdKey, answer <- stdAnswer

Init == Fork!Init /\ Std!Init

(* x.Field(index).Addr().Interface(), for a field of type T                *)
FieldAddr == Fork!Next /\ UNCHANGED stdVars

(* reflect.PtrTo(T), or reflect.New(T), in the client or in ToType         *)
PtrTo == Std!Next /\ UNCHANGED forkVars

Next == FieldAddr \/ PtrTo

Spec == Init /\ [][Next]_vars

-----------------------------------------------------------------------------
(* The table of one copy and that of the other never hold different        *)
(* objects for the same type.  Claimed by the comment on Type ("Two Type   *)
(* values are equal if they represent identical types"), of interface      *)
(* values a program gets from FieldAddr and from reflect alike; it fails   *)
(* for a T whose pointer type is not linked: see the run of this name.     *)
OneObjectPerType ==
  \A k \in K : ptrMap[k] # None /\ stdMap[k] # None => ptrMap[k] = stdMap[k]
=============================================================================
