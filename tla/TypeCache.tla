----------------------------- MODULE TypeCache -----------------------------
(***************************************************************************)
(* The constructors of types in internal/reflect/type.go, called by any    *)
(* number of goroutines.  PtrTo, ChanOf, MapOf, SliceOf and ArrayOf look   *)
(* in a sync.Map, then among the types linked into the binary, then make   *)
(* an object and publish it with LoadOrStore.  FuncOf and StructOf keep    *)
(* lists of types by hash: they look without the lock, look again with it, *)
(* and append to the list in two steps, a Load and a Store.                *)
(*                                                                         *)
(* A list is modelled by the set of its elements: at most one of them      *)
(* matches, so their order decides nothing.                                *)
(***************************************************************************)
EXTENDS Naturals

CONSTANTS
  G,          \* the goroutines
  MapKeys,    \* what ptrMap and lookupCache are indexed by: constructor and components
  ListKeys,   \* what FuncOf and StructOf compare: the components of a func or struct
  Families,   \* funcLookupCache and structLookupCache, each with its mutex
  Hashes,
  HashOf,     \* the hash computed from the components; it may collide
  FamilyOf,
  Known,      \* the keys of types linked into the binary
  Direct,     \* the pointer keys whose element type has ptrToThis set
  MaxOps,     \* bound: constructor calls per goroutine
  None

K == MapKeys \cup ListKeys

ASSUME KeysAssumption ==
  /\ MapKeys \cap ListKeys = {}
  /\ Known \subseteq K
  /\ Direct \subseteq Known \cap MapKeys
  /\ None \notin K

ASSUME ListsAssumption ==
  /\ HashOf \in [ListKeys -> Hashes]
  /\ FamilyOf \in [ListKeys -> Families]
  /\ \A j, k \in ListKeys : HashOf[j] = HashOf[k] => FamilyOf[j] = FamilyOf[k]

ASSUME BoundAssumption == MaxOps \in Nat

(* A type object: who made it, in which call, and what it describes.       *)
Obj == [maker : G \cup {"linker"}, call : 0..MaxOps, key : K]
LinkedType(k) == [maker |-> "linker", call |-> 0, key |-> k]
NewType(g, n, k) == [maker |-> g, call |-> n, key |-> k]

ASSUME NoneAssumption == None \notin G /\ None \notin Obj /\ "linker" \notin G

VARIABLES
  syncMap,   \* ptrMap and lookupCache: the object stored for a key, or None
  bucket,    \* per hash, the elements of the list in funcLookupCache.m or structLookupCache.m
  mutex,     \* per family, the holder of its lock, or None
  pc,        \* where each goroutine is in its call
  key,       \* what it asked for
  tt,        \* the object it is about to publish
  rts,       \* the list addToCache loaded
  answer,    \* the object the call returns
  calls,     \* calls made so far
  given      \* history: per key, the objects that calls have returned

vars == <<syncMap, bucket, mutex, pc, key, tt, rts, answer, calls, given>>

Matches(S, k) == {o \in S : o.key = k}

Init ==
  /\ syncMap = [k \in MapKeys |-> None]
  /\ bucket = [h \in Hashes |-> {}]
  /\ mutex = [f \in Families |-> None]
  /\ pc = [g \in G |-> "idle"]
  /\ key = [g \in G |-> None]
  /\ tt = [g \in G |-> None]
  /\ rts = [g \in G |-> {}]
  /\ answer = [g \in G |-> None]
  /\ calls = [g \in G |-> 0]
  /\ given = [k \in K |-> {}]

Goto(g, l) == pc' = [pc EXCEPT ![g] = l]

Answer(g, o, l) == /\ answer' = [answer EXCEPT ![g] = o]
                   /\ Goto(g, l)

(***************************************************************************)
(* A call for the description k, and its end.                              *)
(***************************************************************************)
Call(g, k) ==
  /\ pc[g] = "idle" /\ calls[g] < MaxOps
  /\ key' = [key EXCEPT ![g] = k]
  /\ calls' = [calls EXCEPT ![g] = @ + 1]
  /\ Goto(g, IF k \in MapKeys THEN "load" ELSE "scan")
  /\ UNCHANGED <<syncMap, bucket, mutex, tt, rts, answer, given>>

Return(g) ==
  /\ pc[g] = "done"
  /\ given' = [given EXCEPT ![key[g]] = @ \cup {answer[g]}]
  /\ Goto(g, "idle")
  /\ UNCHANGED <<syncMap, bucket, mutex, key, tt, rts, answer, calls>>

(***************************************************************************)
(* "Look in cache": ptrToThis, then Load.                                  *)
(***************************************************************************)
LoadDirect(g) ==
  /\ pc[g] = "load" /\ key[g] \in Direct
  /\ Answer(g, LinkedType(key[g]), "done")
  /\ UNCHANGED <<syncMap, bucket, mutex, key, tt, rts, calls, given>>

LoadHit(g) ==
  /\ pc[g] = "load" /\ key[g] \notin Direct
  /\ syncMap[key[g]] # None
  /\ Answer(g, syncMap[key[g]], "done")
  /\ UNCHANGED <<syncMap, bucket, mutex, key, tt, rts, calls, given>>

LoadMiss(g) ==
  /\ pc[g] = "load" /\ key[g] \notin Direct
  /\ syncMap[key[g]] = None
  /\ Goto(g, "make")
  /\ UNCHANGED <<syncMap, bucket, mutex, key, tt, rts, answer, calls, given>>

(***************************************************************************)
(* "Look in known types", else make a type.                                *)
(***************************************************************************)
(* A mistake: no look at the linked types.                                 *)
MakeAnyway(g) ==
  /\ pc[g] = "make"
  /\ tt' = [tt EXCEPT ![g] = NewType(g, calls[g], key[g])]
  /\ Goto(g, IF key[g] \in MapKeys THEN "store" ELSE "addload")
  /\ UNCHANGED <<syncMap, bucket, mutex, key, rts, answer, calls, given>>

Make(g) ==
  /\ pc[g] = "make"
  /\ tt' = [tt EXCEPT ![g] = IF key[g] \in Known THEN LinkedType(key[g])
                             ELSE NewType(g, calls[g], key[g])]
  /\ Goto(g, IF key[g] \in MapKeys THEN "store" ELSE "addload")
  /\ UNCHANGED <<syncMap, bucket, mutex, key, rts, answer, calls, given>>

(* A mistake: Store, and return the own object.                            *)
StoreOnly(g) ==
  /\ pc[g] = "store"
  /\ syncMap' = [syncMap EXCEPT ![key[g]] = tt[g]]
  /\ Answer(g, tt[g], "done")
  /\ UNCHANGED <<bucket, mutex, key, tt, rts, calls, given>>

(* sync.Map.LoadOrStore: one step, and the first one stored wins.          *)
LoadOrStore(g) ==
  /\ pc[g] = "store"
  /\ LET o == IF syncMap[key[g]] = None THEN tt[g] ELSE syncMap[key[g]]
     IN  /\ syncMap' = [syncMap EXCEPT ![key[g]] = o]
         /\ Answer(g, o, "done")
  /\ UNCHANGED <<bucket, mutex, key, tt, rts, calls, given>>

(***************************************************************************)
(* FuncOf and StructOf: the list, without the lock and then with it.       *)
(***************************************************************************)
List(g) == bucket[HashOf[key[g]]]

ScanHit(g) ==
  /\ pc[g] = "scan"
  /\ \E o \in Matches(List(g), key[g]) : Answer(g, o, "done")
  /\ UNCHANGED <<syncMap, bucket, mutex, key, tt, rts, calls, given>>

ScanMiss(g) ==
  /\ pc[g] = "scan" /\ Matches(List(g), key[g]) = {}
  /\ Goto(g, "lock")
  /\ UNCHANGED <<syncMap, bucket, mutex, key, tt, rts, answer, calls, given>>

(* Mistakes: not to look again with the lock, and to have no lock.         *)
LockAndMake(g) ==
  /\ pc[g] = "lock" /\ mutex[FamilyOf[key[g]]] = None
  /\ mutex' = [mutex EXCEPT ![FamilyOf[key[g]]] = g]
  /\ Goto(g, "make")
  /\ UNCHANGED <<syncMap, bucket, key, tt, rts, answer, calls, given>>

LockNothing(g) ==
  /\ pc[g] = "lock"
  /\ mutex' = [mutex EXCEPT ![FamilyOf[key[g]]] = g]
  /\ Goto(g, "rescan")
  /\ UNCHANGED <<syncMap, bucket, key, tt, rts, answer, calls, given>>

Lock(g) ==
  /\ pc[g] = "lock" /\ mutex[FamilyOf[key[g]]] = None
  /\ mutex' = [mutex EXCEPT ![FamilyOf[key[g]]] = g]
  /\ Goto(g, "rescan")
  /\ UNCHANGED <<syncMap, bucket, key, tt, rts, answer, calls, given>>

(* A mistake: to return without the unlock.                                *)
RescanHitLocked(g) ==
  /\ pc[g] = "rescan"
  /\ \E o \in Matches(List(g), key[g]) : Answer(g, o, "done")
  /\ UNCHANGED <<syncMap, bucket, mutex, key, tt, rts, calls, given>>

RescanHit(g) ==
  /\ pc[g] = "rescan"
  /\ \E o \in Matches(List(g), key[g]) : Answer(g, o, "unlock")
  /\ UNCHANGED <<syncMap, bucket, mutex, key, tt, rts, calls, given>>

RescanMiss(g) ==
  /\ pc[g] = "rescan" /\ Matches(List(g), key[g]) = {}
  /\ Goto(g, "make")
  /\ UNCHANGED <<syncMap, bucket, mutex, key, tt, rts, answer, calls, given>>

AddLoad(g) ==
  /\ pc[g] = "addload"
  /\ rts' = [rts EXCEPT ![g] = List(g)]
  /\ Goto(g, "addstore")
  /\ UNCHANGED <<syncMap, bucket, mutex, key, tt, answer, calls, given>>

(* A mistake: to store a new list instead of the longer one.               *)
AddStoreAlone(g) ==
  /\ pc[g] = "addstore"
  /\ bucket' = [bucket EXCEPT ![HashOf[key[g]]] = {tt[g]}]
  /\ Answer(g, tt[g], "unlock")
  /\ UNCHANGED <<syncMap, mutex, key, tt, rts, calls, given>>

AddStore(g) ==
  /\ pc[g] = "addstore"
  /\ bucket' = [bucket EXCEPT ![HashOf[key[g]]] = rts[g] \cup {tt[g]}]
  /\ Answer(g, tt[g], "unlock")
  /\ UNCHANGED <<syncMap, mutex, key, tt, rts, calls, given>>

Unlock(g) ==
  /\ pc[g] = "unlock"
  /\ mutex' = [mutex EXCEPT ![FamilyOf[key[g]]] = None]
  /\ Goto(g, "done")
  /\ UNCHANGED <<syncMap, bucket, key, tt, rts, answer, calls, given>>

Step(g) ==
  \/ LoadDirect(g) \/ LoadHit(g) \/ LoadMiss(g) \/ Make(g) \/ LoadOrStore(g)
  \/ ScanHit(g) \/ ScanMiss(g)
  \/ RescanHit(g) \/ RescanMiss(g)
  \/ AddLoad(g) \/ AddStore(g) \/ Unlock(g) \/ Return(g)

Next == \E g \in G : (\E k \in K : Call(g, k)) \/ Lock(g) \/ Step(g)

Spec == Init /\ [][Next]_vars

(***************************************************************************)
(* The scheduler runs every goroutine; sync.Mutex in starvation mode hands *)
(* the lock to the longest waiter, so a goroutine that finds the lock free *)
(* again and again gets it.                                                *)
(***************************************************************************)
FairSpec == Spec /\ \A g \in G : WF_vars(Step(g)) /\ SF_vars(Lock(g))

-----------------------------------------------------------------------------
(* Every variable has its type: what is published is a type object, and a  *)
(* goroutine inside a call has a key.                                      *)
Labels == {"idle", "load", "make", "store", "scan", "lock", "rescan",
           "addload", "addstore", "unlock", "done"}
TypeOK ==
  /\ syncMap \in [MapKeys -> Obj \cup {None}]
  /\ bucket \in [Hashes -> SUBSET Obj]
  /\ mutex \in [Families -> G \cup {None}]
  /\ pc \in [G -> Labels]
  /\ key \in [G -> K \cup {None}]
  /\ tt \in [G -> Obj \cup {None}]
  /\ rts \in [G -> SUBSET Obj]
  /\ answer \in [G -> Obj \cup {None}]
  /\ calls \in [G -> 0..MaxOps]
  /\ given \in [K -> SUBSET Obj]

(* Two calls for the same description return the same object, in whatever  *)
(* order goroutines look, lose the race to publish, or wait for the lock;  *)
(* and for a type linked into the binary they return the linker's object.  *)
Canonical ==
  \A k \in K : /\ \A o, p \in given[k] : o = p
               /\ \A o \in given[k] : o.key = k /\ (k \in Known => o = LinkedType(k))

(* No list holds two objects for one description, although AddLoad and     *)
(* AddStore are two steps and readers do not lock.                         *)
NoDuplicates == \A h \in Hashes : \A o, p \in bucket[h] : o.key = p.key => o = p

(* "Elements of m are append-only": what a reader without the lock has     *)
(* seen stays, in the lists and in the sync.Maps.                          *)
AppendOnly ==
  [][/\ \A h \in Hashes : bucket[h] \subseteq bucket'[h]
     /\ \A k \in MapKeys : syncMap[k] # None => syncMap'[k] = syncMap[k]]_vars

(* Every constructor call returns.                                         *)
CallsReturn == \A g \in G : pc[g] # "idle" ~> pc[g] = "idle"

-----------------------------------------------------------------------------
(* The caches implement an atomic table.                                   *)
Stored(k) == IF k \in Known THEN {LinkedType(k)}
             ELSE IF k \in MapKeys THEN {syncMap[k]} \ {None}
             ELSE Matches(bucket[HashOf[k]], k)

TheOne(S) == IF S = {} THEN None ELSE CHOOSE o \in S : TRUE

Table == [k \in K |-> TheOne(Stored(k))]

Phase(l) == IF l = "idle" THEN "idle"
            ELSE IF l \in {"unlock", "done"} THEN "answered" ELSE "asked"

Atomic == INSTANCE Intern WITH
            Linked <- [k \in K |-> IF k \in Known THEN LinkedType(k) ELSE None],
            table <- Table,
            phase <- [g \in G |-> Phase(pc[g])]

(* Every behaviour of the caches is one of the atomic table: the look-ups, *)
(* LoadOrStore and AddStore are the moments at which a call takes effect.  *)
ImplementsIntern == Atomic!Spec

-----------------------------------------------------------------------------
(***************************************************************************)
(* Why it works: an inductive invariant.  Publishing keeps the object of a *)
(* key unique because a sync.Map stores only where nothing is, and a list  *)
(* is changed only by the holder of its family's lock, who has looked.     *)
(***************************************************************************)
Proper(o, k) == o \in Obj /\ o.key = k /\ (k \in Known => o = LinkedType(k))

(* Label sets: about to publish in a list, and holding the lock.           *)
Appending(g) == \/ pc[g] \in {"addload", "addstore"}
                \/ pc[g] = "make" /\ key[g] \in ListKeys
Locked(g) == Appending(g) \/ pc[g] \in {"rescan", "unlock"}

KeyInv == \A g \in G :
  /\ pc[g] # "idle" => key[g] \in K
  /\ pc[g] \in {"load", "store"} => key[g] \in MapKeys
  /\ pc[g] \in {"scan", "lock", "rescan", "addload", "addstore", "unlock"} =>
       key[g] \in ListKeys

(* The holder of a family's lock is the only one between Lock and Unlock.  *)
LockInv == \A g \in G : Locked(g) => mutex[FamilyOf[key[g]]] = g

MapInv == \A k \in MapKeys : syncMap[k] # None => Proper(syncMap[k], k)

ListInv == \A h \in Hashes : \A o \in bucket[h] :
  o.key \in ListKeys /\ HashOf[o.key] = h /\ Proper(o, o.key)

PublishInv == \A g \in G :
  /\ pc[g] \in {"store", "addload", "addstore"} => Proper(tt[g], key[g])
  /\ Appending(g) => Matches(List(g), key[g]) = {}
  /\ pc[g] = "addstore" => rts[g] = List(g)

AnswerInv == \A g \in G : pc[g] \in {"unlock", "done"} => answer[g] \in Stored(key[g])

GivenInv == \A k \in K : given[k] \subseteq Stored(k)

Inv == /\ TypeOK /\ KeyInv /\ LockInv /\ MapInv /\ ListInv /\ NoDuplicates
       /\ PublishInv /\ AnswerInv /\ GivenInv
=============================================================================
