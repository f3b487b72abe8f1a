-------------------------- MODULE TypeCacheProofs --------------------------
(* Proofs about TypeCache for any goroutines, keys, hashes and bounds.     *)
EXTENDS TypeCache, TLAPS

USE DEF K

(* A value of the right type that is read from a cache is a type object.   *)
LEMMA ObjectsMade ==
  ASSUME NEW k \in K, NEW g \in G, NEW n \in 0..MaxOps
  PROVE  /\ LinkedType(k) \in Obj /\ LinkedType(k).key = k
         /\ NewType(g, n, k) \in Obj /\ NewType(g, n, k).key = k
BY BoundAssumption DEF LinkedType, NewType, Obj

(* Every step keeps the types of the variables, given that a goroutine     *)
(* inside a call has a key of the right sort.                              *)
LEMMA TypePreserved ==
  ASSUME TypeOK, KeyInv, PublishInv, AnswerInv, [Next]_vars
  PROVE  TypeOK'
<1>1. CASE UNCHANGED vars
  BY <1>1 DEF TypeOK, vars
<1>2. ASSUME NEW g \in G, NEW k \in K, Call(g, k)
      PROVE  TypeOK'
  <2>1. calls[g] \in 0..MaxOps /\ calls[g] < MaxOps
    BY <1>2 DEF TypeOK, Call
  <2>2. calls[g] + 1 \in 0..MaxOps
    BY <2>1, BoundAssumption
  <2> QED BY <1>2, <2>2 DEF TypeOK, Call, Goto, Labels
<1>3. ASSUME NEW g \in G, Lock(g)
      PROVE  TypeOK'
  BY <1>3 DEF TypeOK, Lock, Goto, Labels
<1>4. ASSUME NEW g \in G, Step(g)
      PROVE  TypeOK'
  <2>k. pc[g] # "idle" => key[g] \in K
    BY DEF KeyInv
  <2>1. CASE LoadDirect(g)
    <3>1. LinkedType(key[g]) \in Obj
      BY <2>k, <2>1, BoundAssumption DEF LoadDirect, LinkedType, Obj
    <3> QED BY <2>1, <3>1 DEF TypeOK, LoadDirect, Answer, Goto, Labels
  <2>2. CASE LoadHit(g)
    BY <2>2 DEF TypeOK, KeyInv, LoadHit, Answer, Goto, Labels
  <2>3. CASE LoadMiss(g) \/ ScanMiss(g) \/ RescanMiss(g)
    BY <2>3 DEF TypeOK, LoadMiss, ScanMiss, RescanMiss, Goto, Labels
  <2>4. CASE Make(g)
    <3>1. LinkedType(key[g]) \in Obj /\ NewType(g, calls[g], key[g]) \in Obj
      BY <2>k, <2>4, BoundAssumption DEF Make, LinkedType, NewType, Obj, TypeOK
    <3> QED BY <2>4, <3>1 DEF TypeOK, Make, Goto, Labels
  <2>5. CASE LoadOrStore(g)
    <3>1. pc[g] = "store" /\ key[g] \in MapKeys
      BY <2>5 DEF LoadOrStore, KeyInv
    <3> DEFINE o == IF syncMap[key[g]] = None THEN tt[g] ELSE syncMap[key[g]]
    <3>2. o \in Obj \cup {None}
      BY <3>1 DEF TypeOK
    <3> QED BY <2>5, <3>1, <3>2 DEF TypeOK, LoadOrStore, Answer, Goto, Labels
  <2>6. CASE ScanHit(g) \/ RescanHit(g)
    <3>1. List(g) \subseteq Obj
      BY <2>6, ListsAssumption DEF TypeOK, KeyInv, ScanHit, RescanHit, List
    <3> QED BY <2>6, <3>1 DEF TypeOK, ScanHit, RescanHit, Matches, Answer, Goto, Labels
  <2>7. CASE AddLoad(g)
    <3>1. List(g) \subseteq Obj
      BY <2>7, ListsAssumption DEF TypeOK, KeyInv, AddLoad, List
    <3> QED BY <2>7, <3>1 DEF TypeOK, AddLoad, Goto, Labels
  <2>8. CASE AddStore(g)
    <3>1. tt[g] \in Obj /\ rts[g] \subseteq Obj
      BY <2>8 DEF TypeOK, AddStore, PublishInv, Proper
    <3> QED BY <2>8, <3>1 DEF TypeOK, AddStore, Answer, Goto, Labels
  <2>9. CASE Unlock(g)
    BY <2>9 DEF TypeOK, Unlock, Goto, Labels
  <2>10. CASE Return(g)
    <3>1. answer[g] \in Stored(key[g]) /\ key[g] \in K
      BY <2>10 DEF Return, AnswerInv, KeyInv
    <3>2. answer[g] # None
      BY <3>1, ObjectsMade, BoundAssumption, NoneAssumption, KeysAssumption, ListsAssumption
         DEF Stored, Matches, TypeOK
    <3> QED BY <2>10, <3>2 DEF TypeOK, Return, Goto, Labels
  <2> QED BY <1>4, <2>1, <2>2, <2>3, <2>4, <2>5, <2>6, <2>7, <2>8, <2>9, <2>10 DEF Step
<1> QED BY <1>1, <1>2, <1>3, <1>4 DEF Next

-----------------------------------------------------------------------------
(* Which steps change what: the caches, and the part of a goroutine's      *)
(* state that belongs to another goroutine (nothing).                      *)
LEMMA WhoWrites ==
  ASSUME [Next]_vars
  PROVE  /\ syncMap' = syncMap \/ \E g \in G : LoadOrStore(g)
         /\ bucket' = bucket \/ \E g \in G : AddStore(g)
         /\ mutex' = mutex \/ \E g \in G : Lock(g) \/ Unlock(g)
         /\ given' = given \/ \E g \in G : Return(g)
BY DEF Next, vars, Call, Lock, Step, LoadDirect, LoadHit, LoadMiss, Make, LoadOrStore,
   ScanHit, ScanMiss, RescanHit, RescanMiss, AddLoad, AddStore, Unlock, Return

(* One goroutine moves: the others keep their place, key and locals.       *)
LEMMA OneMoves ==
  ASSUME TypeOK, [Next]_vars
  PROVE  \/ UNCHANGED vars
         \/ \E g \in G :
              /\ (\E k \in K : Call(g, k)) \/ Lock(g) \/ Step(g)
              /\ \A h \in G \ {g} : /\ pc'[h] = pc[h] /\ key'[h] = key[h]
                                    /\ tt'[h] = tt[h] /\ rts'[h] = rts[h]
                                    /\ answer'[h] = answer[h]
<1>1. ASSUME NEW g \in G, NEW k \in K, Call(g, k), NEW h \in G \ {g}
      PROVE  /\ pc'[h] = pc[h] /\ key'[h] = key[h] /\ tt'[h] = tt[h]
             /\ rts'[h] = rts[h] /\ answer'[h] = answer[h]
  BY <1>1 DEF TypeOK, Call, Goto
<1>2. ASSUME NEW g \in G, Lock(g), NEW h \in G \ {g}
      PROVE  /\ pc'[h] = pc[h] /\ key'[h] = key[h] /\ tt'[h] = tt[h]
             /\ rts'[h] = rts[h] /\ answer'[h] = answer[h]
  BY <1>2 DEF TypeOK, Lock, Goto
<1>3. ASSUME NEW g \in G, Step(g), NEW h \in G \ {g}
      PROVE  /\ pc'[h] = pc[h] /\ key'[h] = key[h] /\ tt'[h] = tt[h]
             /\ rts'[h] = rts[h] /\ answer'[h] = answer[h]
  BY <1>3 DEF TypeOK, Goto, Answer, Step, LoadDirect, LoadHit, LoadMiss, Make, LoadOrStore,
     ScanHit, ScanMiss, RescanHit, RescanMiss, AddLoad, AddStore, Unlock, Return
<1> QED BY <1>1, <1>2, <1>3 DEF Next

LEMMA KeyPreserved ==
  ASSUME TypeOK, KeyInv, [Next]_vars
  PROVE  KeyInv'
<1>1. CASE UNCHANGED vars
  BY <1>1 DEF KeyInv, vars
<1>2. ASSUME NEW g \in G, (\E k \in K : Call(g, k)) \/ Lock(g) \/ Step(g)
      PROVE  /\ pc'[g] # "idle" => key'[g] \in K
             /\ pc'[g] \in {"load", "store"} => key'[g] \in MapKeys
             /\ pc'[g] \in {"scan", "lock", "rescan", "addload", "addstore", "unlock"} =>
                  key'[g] \in ListKeys
  <2>1. CASE \E k \in K : Call(g, k)
    BY <2>1, KeysAssumption DEF TypeOK, Call, Goto
  <2>2. CASE Lock(g)
    BY <2>2 DEF TypeOK, KeyInv, Lock, Goto
  <2>3. CASE Step(g)
    BY <2>3 DEF TypeOK, KeyInv, Goto, Answer, Step, LoadDirect, LoadHit, LoadMiss, Make,
       LoadOrStore, ScanHit, ScanMiss, RescanHit, RescanMiss, AddLoad, AddStore, Unlock, Return
  <2> QED BY <1>2, <2>1, <2>2, <2>3
<1> QED BY <1>1, <1>2, OneMoves DEF KeyInv

-----------------------------------------------------------------------------
(* Mutual exclusion: two goroutines that hold the lock of one family are   *)
(* one.                                                                    *)
LEMMA LockPreserved ==
  ASSUME TypeOK, KeyInv, LockInv, [Next]_vars
  PROVE  LockInv'
<1>1. CASE UNCHANGED vars
  BY <1>1 DEF LockInv, Locked, Appending, vars
<1>2. ASSUME NEW g \in G, (\E k \in K : Call(g, k)) \/ Lock(g) \/ Step(g),
             \A h \in G \ {g} : pc'[h] = pc[h] /\ key'[h] = key[h]
      PROVE  LockInv'
  <2>1. CASE \E k \in K : Call(g, k)
    BY <1>2, <2>1, KeysAssumption DEF TypeOK, LockInv, Locked, Appending, Call, Goto
  <2>2. CASE Lock(g)
    <3>1. key[g] \in ListKeys /\ FamilyOf[key[g]] \in Families
      BY <2>2, ListsAssumption DEF KeyInv, Lock
    <3>2. mutex' = [mutex EXCEPT ![FamilyOf[key[g]]] = g] /\ mutex[FamilyOf[key[g]]] = None
      BY <2>2 DEF Lock
    <3>3. ASSUME NEW h \in G, Locked(h)', h # g
          PROVE  mutex'[FamilyOf[key'[h]]] = h
      <4>1. mutex[FamilyOf[key[h]]] = h /\ key[h] \in ListKeys /\ key'[h] = key[h]
        BY <1>2, <3>3, KeysAssumption DEF LockInv, KeyInv, Locked, Appending
      <4>2. h # None
        BY NoneAssumption
      <4> QED BY <3>1, <3>2, <4>1, <4>2, ListsAssumption DEF TypeOK
    <3>4. mutex'[FamilyOf[key'[g]]] = g
      BY <2>2, <3>1, <3>2 DEF TypeOK, Lock
    <3> QED BY <3>3, <3>4 DEF LockInv
  <2>3. CASE Unlock(g)
    <3>1. key[g] \in ListKeys /\ mutex[FamilyOf[key[g]]] = g /\ ~Locked(g)'
      BY <2>3, KeysAssumption DEF TypeOK, KeyInv, LockInv, Locked, Appending, Unlock, Goto
    <3>2. mutex' = [mutex EXCEPT ![FamilyOf[key[g]]] = None]
      BY <2>3 DEF Unlock
    <3>3. ASSUME NEW h \in G, Locked(h)', h # g
          PROVE  mutex'[FamilyOf[key'[h]]] = h
      <4>1. mutex[FamilyOf[key[h]]] = h /\ key[h] \in ListKeys /\ key'[h] = key[h]
        BY <1>2, <3>3, KeysAssumption DEF LockInv, KeyInv, Locked, Appending
      <4> QED BY <3>1, <3>2, <3>3, <4>1, ListsAssumption DEF TypeOK
    <3> QED BY <3>1, <3>3 DEF LockInv
  <2>4. CASE Step(g) /\ ~Unlock(g)
    <3>1. mutex' = mutex /\ key' = key
      BY <2>4 DEF Step, LoadDirect, LoadHit, LoadMiss, Make, LoadOrStore, ScanHit, ScanMiss,
         RescanHit, RescanMiss, AddLoad, AddStore, Return
    <3>2. Locked(g)' => Locked(g)
      BY <2>4, KeysAssumption DEF TypeOK, KeyInv, Locked, Appending, Goto, Answer, Step,
         LoadDirect, LoadHit, LoadMiss, Make, LoadOrStore, ScanHit, ScanMiss,
         RescanHit, RescanMiss, AddLoad, AddStore, Return
    <3> QED BY <1>2, <3>1, <3>2 DEF LockInv, Locked, Appending
  <2> QED BY <1>2, <2>1, <2>2, <2>3, <2>4
<1> QED BY <1>1, <1>2, OneMoves

LEMMA MapPreserved ==
  ASSUME TypeOK, KeyInv, PublishInv, MapInv, [Next]_vars
  PROVE  MapInv'
<1>1. ASSUME NEW g \in G, LoadOrStore(g)
      PROVE  MapInv'
  BY <1>1 DEF TypeOK, KeyInv, PublishInv, MapInv, LoadOrStore, Proper
<1>2. CASE syncMap' = syncMap
  BY <1>2 DEF MapInv, Proper
<1> QED BY <1>1, <1>2, WhoWrites

(* AddStore adds one object, of a key that no object of the list has.      *)
LEMMA AddStoreAdds ==
  ASSUME TypeOK, KeyInv, PublishInv, NEW g \in G, AddStore(g)
  PROVE  /\ key[g] \in ListKeys /\ HashOf[key[g]] \in Hashes
         /\ Proper(tt[g], key[g])
         /\ \A o \in bucket[HashOf[key[g]]] : o.key # key[g]
         /\ bucket' = [bucket EXCEPT ![HashOf[key[g]]] = bucket[HashOf[key[g]]] \cup {tt[g]}]
BY ListsAssumption DEF TypeOK, KeyInv, PublishInv, AddStore, Appending, List, Matches

LEMMA ListPreserved ==
  ASSUME TypeOK, KeyInv, PublishInv, ListInv, NoDuplicates, [Next]_vars
  PROVE  ListInv' /\ NoDuplicates'
<1>1. ASSUME NEW g \in G, AddStore(g)
      PROVE  ListInv' /\ NoDuplicates'
  <2>1. ListInv'
    BY <1>1, AddStoreAdds DEF TypeOK, ListInv, Proper
  <2>2. NoDuplicates'
    BY <1>1, AddStoreAdds DEF TypeOK, NoDuplicates, Proper
  <2> QED BY <2>1, <2>2
<1>2. CASE bucket' = bucket
  BY <1>2 DEF ListInv, NoDuplicates, Proper
<1> QED BY <1>1, <1>2, WhoWrites

-----------------------------------------------------------------------------
(* What a reader has seen in a cache stays there.                          *)
LEMMA CachesGrow ==
  ASSUME TypeOK, KeyInv, PublishInv, [Next]_vars
  PROVE  /\ \A h \in Hashes : bucket[h] \subseteq bucket'[h]
         /\ \A k \in MapKeys : syncMap[k] # None => syncMap'[k] = syncMap[k]
<1>1. \A h \in Hashes : bucket[h] \subseteq bucket'[h]
  BY AddStoreAdds, WhoWrites DEF TypeOK
<1>2. \A k \in MapKeys : syncMap[k] # None => syncMap'[k] = syncMap[k]
  BY WhoWrites DEF TypeOK, KeyInv, LoadOrStore
<1> QED BY <1>1, <1>2

LEMMA StoredGrows ==
  ASSUME TypeOK, KeyInv, PublishInv, [Next]_vars, NEW k \in K
  PROVE  Stored(k) \subseteq Stored(k)'
BY CachesGrow, ListsAssumption, KeysAssumption DEF Stored, Matches

-----------------------------------------------------------------------------
(* A goroutine that is about to append holds the lock, so no other one     *)
(* changes its list.                                                       *)
LEMMA OneAppends ==
  ASSUME KeyInv, LockInv, NEW g \in G, NEW h \in G,
         Locked(g), Locked(h), HashOf[key[g]] = HashOf[key[h]]
  PROVE  g = h
<1>1. key[g] \in ListKeys /\ key[h] \in ListKeys
  BY DEF KeyInv, Locked, Appending
<1>2. FamilyOf[key[g]] = FamilyOf[key[h]]
  BY <1>1, ListsAssumption
<1> QED BY <1>2 DEF LockInv

LEMMA PublishPreserved ==
  ASSUME TypeOK, KeyInv, LockInv, PublishInv, [Next]_vars
  PROVE  PublishInv'
<1>1. CASE UNCHANGED vars
  BY <1>1 DEF PublishInv, Proper, Appending, List, Matches, vars
<1> DEFINE Ready(h) ==
      /\ pc[h] \in {"store", "addload", "addstore"} => Proper(tt[h], key[h])
      /\ Appending(h) => Matches(List(h), key[h]) = {}
      /\ pc[h] = "addstore" => rts[h] = List(h)
<1>2. ASSUME NEW g \in G, (\E k \in K : Call(g, k)) \/ Lock(g) \/ Step(g),
             \A h \in G \ {g} : /\ pc'[h] = pc[h] /\ key'[h] = key[h]
                                /\ tt'[h] = tt[h] /\ rts'[h] = rts[h]
      PROVE  PublishInv'
  <2>1. ASSUME NEW h \in G \ {g}
        PROVE  Ready(h)'
    <3>1. Appending(h) => List(h)' = List(h)
      <4>1. CASE AddStore(g)
        <5>1. Locked(g)
          BY <4>1 DEF AddStore, Locked, Appending
        <5>2. SUFFICES ASSUME Appending(h)
                       PROVE  List(h)' = List(h)
          OBVIOUS
        <5>3. HashOf[key[g]] # HashOf[key[h]]
          BY <2>1, <5>1, <5>2, OneAppends DEF Locked
        <5>4. key[h] \in ListKeys
          BY <5>2 DEF KeyInv, Appending
        <5> QED BY <1>2, <4>1, <5>3, <5>4, ListsAssumption DEF TypeOK, AddStore, List
      <4>2. CASE ~AddStore(g)
        <5>1. bucket' = bucket
          BY <1>2, <4>2 DEF Call, Lock, Step, LoadDirect, LoadHit, LoadMiss, Make, LoadOrStore,
             ScanHit, ScanMiss, RescanHit, RescanMiss, AddLoad, Unlock, Return
        <5> QED BY <1>2, <5>1 DEF List
      <4> QED BY <4>1, <4>2
    <3> QED BY <1>2, <3>1 DEF PublishInv, Proper, Appending, Matches
  <2>2. Ready(g)'
    <3>1. CASE (\E k \in K : Call(g, k)) \/ Lock(g)
      BY <3>1 DEF TypeOK, Call, Lock, Goto, Appending
    <3>2. CASE Make(g)
      <4>1. key[g] \in K /\ calls[g] \in 0..MaxOps /\ key' = key /\ bucket' = bucket
        BY <3>2 DEF TypeOK, KeyInv, Make
      <4>2. tt'[g] = IF key[g] \in Known THEN LinkedType(key[g])
                     ELSE NewType(g, calls[g], key[g])
        BY <3>2 DEF TypeOK, Make
      <4>3. Proper(tt'[g], key[g])
        BY <4>1, <4>2, ObjectsMade DEF Proper
      <4>4. Appending(g)' => Matches(List(g)', key[g]) = {}
        BY <3>2, <4>1 DEF TypeOK, PublishInv, Make, Goto, Appending, List, Matches
      <4>5. pc'[g] # "addstore"
        BY <3>2 DEF TypeOK, Make, Goto
      <4> QED BY <4>1, <4>3, <4>4, <4>5 DEF Proper, Matches
    <3>3. CASE RescanMiss(g)
      BY <3>3 DEF TypeOK, RescanMiss, Goto, Appending, List, Matches
    <3>4. CASE AddLoad(g)
      BY <3>4 DEF TypeOK, PublishInv, AddLoad, Goto, Appending, List, Matches, Proper
    <3>5. CASE LoadMiss(g)
      BY <3>5, KeysAssumption DEF TypeOK, KeyInv, LoadMiss, Goto, Appending
    <3>6. CASE LoadDirect(g) \/ LoadHit(g) \/ LoadOrStore(g) \/ ScanHit(g) \/ ScanMiss(g)
               \/ RescanHit(g) \/ AddStore(g) \/ Unlock(g) \/ Return(g)
      BY <3>6 DEF TypeOK, LoadDirect, LoadHit, LoadOrStore, ScanHit, ScanMiss, RescanHit,
         AddStore, Unlock, Return, Answer, Goto, Appending
    <3> QED BY <1>2, <3>1, <3>2, <3>3, <3>4, <3>5, <3>6 DEF Step
  <2> QED BY <2>1, <2>2 DEF PublishInv
<1> QED BY <1>1, <1>2, OneMoves

(* An object found in a list under the key of a known type is the linked   *)
(* one, so that it is what the list stores for the key either way.         *)
LEMMA FoundIsStored ==
  ASSUME ListInv, NEW k \in ListKeys, NEW o \in Matches(bucket[HashOf[k]], k)
  PROVE  o \in Stored(k)
<1>1. o \in bucket[HashOf[k]] /\ o.key = k
  BY DEF Matches
<1>2. Proper(o, k)
  BY <1>1, ListsAssumption DEF ListInv
<1> QED BY <1>1, <1>2, KeysAssumption DEF Stored, Matches, Proper

LEMMA AnswerPreserved ==
  ASSUME TypeOK, KeyInv, PublishInv, MapInv, ListInv, AnswerInv, [Next]_vars
  PROVE  AnswerInv'
<1>1. CASE UNCHANGED vars
  BY <1>1 DEF AnswerInv, Stored, Matches, vars
<1>2. ASSUME NEW g \in G, (\E k \in K : Call(g, k)) \/ Lock(g) \/ Step(g),
             \A h \in G \ {g} : pc'[h] = pc[h] /\ key'[h] = key[h] /\ answer'[h] = answer[h]
      PROVE  AnswerInv'
  <2>1. ASSUME NEW h \in G \ {g}, pc'[h] \in {"unlock", "done"}
        PROVE  answer'[h] \in Stored(key[h])'
    <3>1. pc[h] \in {"unlock", "done"} /\ key'[h] = key[h] /\ answer'[h] = answer[h]
      BY <1>2, <2>1
    <3>2. PICK k \in K : k = key[h]
      BY <3>1 DEF KeyInv
    <3>3. answer[h] \in Stored(k)
      BY <3>1, <3>2 DEF AnswerInv
    <3>4. answer[h] \in Stored(k)'
      BY <3>3, StoredGrows
    <3> QED BY <3>1, <3>2, <3>4 DEF Stored
  <2>2. ASSUME pc'[g] \in {"unlock", "done"}
        PROVE  answer'[g] \in Stored(key[g])'
    <3>1. CASE (\E k \in K : Call(g, k)) \/ Lock(g)
      BY <2>2, <3>1 DEF TypeOK, Call, Lock, Goto
    <3>2. CASE LoadMiss(g) \/ Make(g) \/ ScanMiss(g) \/ RescanMiss(g) \/ AddLoad(g) \/ Return(g)
      BY <2>2, <3>2 DEF TypeOK, LoadMiss, Make, ScanMiss, RescanMiss, AddLoad, Return, Goto
    <3> DEFINE Answering == \/ LoadDirect(g) \/ LoadHit(g) \/ LoadOrStore(g) \/ ScanHit(g)
                            \/ RescanHit(g) \/ AddStore(g) \/ Unlock(g)
    <3>3. CASE Answering
      <4>1. key' = key /\ key[g] \in K
        BY <3>3 DEF KeyInv, LoadDirect, LoadHit, LoadOrStore, ScanHit, RescanHit, AddStore, Unlock
      <4>2. PICK k \in K : k = key[g]
        BY <4>1
      <4> SUFFICES answer'[g] \in Stored(k)'
        BY <4>1, <4>2 DEF Stored
      <4>3. CASE LoadDirect(g)
        BY <4>2, <4>3, KeysAssumption DEF TypeOK, LoadDirect, Answer, Stored
      <4>4. CASE LoadHit(g)
        <5>1. answer'[g] \in Stored(k)
          BY <4>2, <4>4, NoneAssumption
             DEF TypeOK, KeyInv, MapInv, Proper, LoadHit, Answer, Stored
        <5> QED BY <5>1, StoredGrows
      <4>5. CASE LoadOrStore(g)
        <5>1. k \in MapKeys /\ Proper(tt[g], k)
          BY <4>2, <4>5 DEF KeyInv, PublishInv, LoadOrStore
        <5>2. answer'[g] = syncMap'[k] /\ Proper(answer'[g], k)
          BY <4>2, <4>5, <5>1 DEF TypeOK, MapInv, LoadOrStore, Answer
        <5> QED BY <5>1, <5>2, NoneAssumption DEF Stored, Proper
      <4>6. CASE ScanHit(g) \/ RescanHit(g)
        <5>1. k \in ListKeys /\ answer'[g] \in Matches(bucket[HashOf[k]], k)
          BY <4>2, <4>6 DEF TypeOK, KeyInv, ScanHit, RescanHit, Answer, List
        <5>2. answer'[g] \in Stored(k)
          BY <5>1, FoundIsStored
        <5> QED BY <5>2, StoredGrows
      <4>7. CASE AddStore(g)
        <5>1. k \in ListKeys /\ Proper(tt[g], k) /\ tt[g] \in bucket'[HashOf[k]]
          BY <4>2, <4>7, AddStoreAdds DEF TypeOK
        <5>2. answer'[g] = tt[g]
          BY <4>7 DEF TypeOK, AddStore, Answer
        <5> QED BY <5>1, <5>2, KeysAssumption DEF Stored, Matches, Proper
      <4>8. CASE Unlock(g)
        <5>1. answer'[g] \in Stored(k)
          BY <4>2, <4>8 DEF AnswerInv, Unlock
        <5> QED BY <5>1, StoredGrows
      <4> QED BY <3>3, <4>3, <4>4, <4>5, <4>6, <4>7, <4>8
    <3> QED BY <1>2, <3>1, <3>2, <3>3 DEF Step
  <2> QED BY <2>1, <2>2 DEF AnswerInv
<1> QED BY <1>1, <1>2, OneMoves

LEMMA GivenPreserved ==
  ASSUME TypeOK, KeyInv, PublishInv, AnswerInv, GivenInv, [Next]_vars
  PROVE  GivenInv'
<1>1. CASE given' = given
  BY <1>1, StoredGrows DEF GivenInv
<1>2. ASSUME NEW g \in G, Return(g)
      PROVE  GivenInv'
  <2>1. key[g] \in K /\ answer[g] \in Stored(key[g])
    BY <1>2 DEF Return, KeyInv, AnswerInv
  <2>2. ASSUME NEW k \in K
        PROVE  given'[k] \subseteq Stored(k)
    BY <1>2, <2>1 DEF TypeOK, Return, GivenInv
  <2> QED BY <2>2, StoredGrows DEF GivenInv
<1> QED BY <1>1, <1>2, WhoWrites

-----------------------------------------------------------------------------
LEMMA InitInv == Init => Inv
<1> SUFFICES ASSUME Init PROVE Inv
  OBVIOUS
<1>1. TypeOK
  BY BoundAssumption DEF Init, TypeOK, Labels
<1>2. KeyInv /\ LockInv /\ PublishInv /\ AnswerInv
  BY DEF Init, KeyInv, LockInv, PublishInv, AnswerInv, Locked, Appending
<1>3. MapInv /\ ListInv /\ NoDuplicates /\ GivenInv
  BY DEF Init, MapInv, ListInv, NoDuplicates, GivenInv
<1> QED BY <1>1, <1>2, <1>3 DEF Inv

LEMMA NextInv == Inv /\ [Next]_vars => Inv'
<1> SUFFICES ASSUME Inv, [Next]_vars PROVE Inv'
  OBVIOUS
<1> USE DEF Inv
<1>1. TypeOK' /\ KeyInv' /\ LockInv'
  BY TypePreserved, KeyPreserved, LockPreserved
<1>2. MapInv' /\ ListInv' /\ NoDuplicates'
  BY MapPreserved, ListPreserved
<1>3. PublishInv' /\ AnswerInv' /\ GivenInv'
  BY PublishPreserved, AnswerPreserved, GivenPreserved
<1> QED BY <1>1, <1>2, <1>3

(* The invariant holds throughout, for any number of goroutines and keys.  *)
THEOREM Invariance == Spec => []Inv
BY InitInv, NextInv, PTL DEF Spec

(* At most one object is stored for a description.                         *)
LEMMA StoredUnique ==
  ASSUME Inv, NEW k \in K, NEW o \in Stored(k), NEW p \in Stored(k)
  PROVE  o = p /\ Proper(o, k)
<1>1. CASE k \in Known
  BY <1>1, ObjectsMade, BoundAssumption DEF Stored, Proper, LinkedType, Obj
<1>2. CASE k \notin Known /\ k \in MapKeys
  BY <1>2 DEF Inv, MapInv, Stored
<1>3. CASE k \notin Known /\ k \in ListKeys
  <2>1. o \in bucket[HashOf[k]] /\ p \in bucket[HashOf[k]] /\ o.key = k /\ p.key = k
    BY <1>3, KeysAssumption DEF Stored, Matches
  <2> QED BY <1>3, <2>1, ListsAssumption DEF Inv, ListInv, NoDuplicates
<1> QED BY <1>1, <1>2, <1>3

(* Calls for one description return one object, the linker's if it made    *)
(* one: type.go's "Two Type values are equal if they represent identical   *)
(* types", for the types this package makes.                               *)
THEOREM CanonicalTypes == Spec => []Canonical
<1>1. Inv => Canonical
  <2> SUFFICES ASSUME Inv, NEW k \in K
               PROVE  /\ \A o, p \in given[k] : o = p
                      /\ \A o \in given[k] : o.key = k /\ (k \in Known => o = LinkedType(k))
    BY DEF Canonical
  <2>1. given[k] \subseteq Stored(k)
    BY DEF Inv, GivenInv
  <2> QED BY <2>1, StoredUnique DEF Proper
<1> QED BY <1>1, Invariance, PTL

(* The lists behind FuncOf and StructOf never hold a description twice.    *)
THEOREM ListsHaveNoDuplicates == Spec => []NoDuplicates
<1>1. Inv => NoDuplicates
  BY DEF Inv
<1> QED BY <1>1, Invariance, PTL

(* What an unlocked reader has seen in a cache is never withdrawn.         *)
THEOREM CachesAppendOnly == Spec => AppendOnly
<1>1. Inv /\ [Next]_vars =>
        /\ \A h \in Hashes : bucket[h] \subseteq bucket'[h]
        /\ \A k \in MapKeys : syncMap[k] # None => syncMap'[k] = syncMap[k]
  BY CachesGrow DEF Inv
<1> QED BY <1>1, Invariance, PTL DEF Spec, AppendOnly

-----------------------------------------------------------------------------
(* The caches implement the atomic table of Intern.                        *)

LEMMA OnlyOne == TheOne({}) = None /\ \A o : TheOne({o}) = o
BY DEF TheOne

LEMMA TableFacts ==
  Inv => /\ Table \in [K -> Obj \cup {None}]
         /\ \A k \in K : /\ Stored(k) = {} => Table[k] = None
                         /\ \A o \in Stored(k) : Table[k] = o /\ o # None /\ o.key = k
<1> SUFFICES ASSUME Inv, NEW k \in K
             PROVE  /\ Table[k] \in Obj \cup {None}
                    /\ Stored(k) = {} => Table[k] = None
                    /\ \A o \in Stored(k) : Table[k] = o /\ o # None /\ o.key = k
  BY DEF Table, TheOne
<1>1. Stored(k) = {} => Table[k] = None
  BY DEF Table, TheOne
<1>2. ASSUME NEW o \in Stored(k)
      PROVE  Table[k] = o /\ o \in Obj /\ o.key = k
  <2>1. Table[k] \in Stored(k)
    BY <1>2 DEF Table, TheOne
  <2> QED BY <1>2, <2>1, StoredUnique DEF Proper
<1> QED BY <1>1, <1>2, NoneAssumption

LEMMA TableUnchanged ==
  ASSUME \A k \in K : Stored(k)' = Stored(k)
  PROVE  Table' = Table
BY DEF Table

LEMMA TableEnters ==
  ASSUME NEW k \in K, NEW o, Stored(k)' = {o}, \A j \in K \ {k} : Stored(j)' = Stored(j)
  PROVE  Table' = [Table EXCEPT ![k] = o]
BY OnlyOne DEF Table

(* The steps that take a goroutine from asked to answered by finding.      *)
LEMMA FoundStep ==
  ASSUME Inv, NEW g \in G, NEW o \in Stored(key[g]), key[g] \in K,
         Phase(pc[g]) = "asked", pc' = [pc EXCEPT ![g] = "done"] \/ pc' = [pc EXCEPT ![g] = "unlock"],
         answer' = [answer EXCEPT ![g] = o], key' = key, Table' = Table
  PROVE  Atomic!Found(g)
<1>1. Table[key[g]] = o /\ o # None
  BY TableFacts
<1>2. [h \in G |-> Phase(pc[h])]' = [[h \in G |-> Phase(pc[h])] EXCEPT ![g] = "answered"]
  BY DEF Phase, Inv, TypeOK
<1> QED BY <1>1, <1>2 DEF Atomic!Found, Atomic!Give

LEMMA EnteredStep ==
  ASSUME Inv, NEW g \in G, NEW o \in Obj, key[g] \in K, o.key = key[g], Stored(key[g]) = {},
         Phase(pc[g]) = "asked", pc' = [pc EXCEPT ![g] = "done"] \/ pc' = [pc EXCEPT ![g] = "unlock"],
         answer' = [answer EXCEPT ![g] = o], key' = key,
         Table' = [Table EXCEPT ![key[g]] = o]
  PROVE  Atomic!Entered(g, o)
<1>1. Table[key[g]] = None
  BY TableFacts
<1>2. ASSUME NEW k \in K
      PROVE  Table[k] # o
  <2>1. CASE Stored(k) = {}
    BY <2>1, TableFacts, NoneAssumption
  <2>2. CASE Stored(k) # {}
    BY <2>2, TableFacts
  <2> QED BY <2>1, <2>2
<1>3. [h \in G |-> Phase(pc[h])]' = [[h \in G |-> Phase(pc[h])] EXCEPT ![g] = "answered"]
  BY DEF Phase, Inv, TypeOK
<1> QED BY <1>1, <1>2, <1>3 DEF Atomic!Entered, Atomic!Give

LEMMA InitRefines == Init => Atomic!Init
<1> SUFFICES ASSUME Init PROVE Atomic!Init
  OBVIOUS
<1>1. ASSUME NEW k \in K
      PROVE  Stored(k) = IF k \in Known THEN {LinkedType(k)} ELSE {}
  BY ListsAssumption, KeysAssumption DEF Init, Stored, Matches
<1>2. Table = [k \in K |-> IF k \in Known THEN LinkedType(k) ELSE None]
  BY <1>1, OnlyOne DEF Table
<1>3. [g \in G |-> Phase(pc[g])] = [g \in G |-> "idle"]
  BY DEF Init, Phase
<1> QED BY <1>2, <1>3 DEF Init, Atomic!Init

LEMMA StepRefines == Inv /\ [Next]_vars => [Atomic!Next]_(Atomic!vars)
<1> SUFFICES ASSUME Inv, [Next]_vars PROVE [Atomic!Next]_(Atomic!vars)
  OBVIOUS
<1> DEFINE phase == [g \in G |-> Phase(pc[g])]
<1>t. TypeOK /\ KeyInv /\ MapInv /\ ListInv /\ PublishInv
  BY DEF Inv
<1>s. ASSUME syncMap' = syncMap, bucket' = bucket
      PROVE  Table' = Table
  <2>1. \A k \in K : Stored(k)' = Stored(k)
    BY <1>s DEF Stored, Matches
  <2> QED BY <2>1, TableUnchanged
<1>1. CASE UNCHANGED vars
  BY <1>1, <1>s DEF vars, Atomic!vars
<1>2. ASSUME NEW g \in G, NEW k \in K, Call(g, k)
      PROVE  Atomic!Ask(g, k)
  <2>1. phase' = [phase EXCEPT ![g] = "asked"] /\ phase[g] = "idle"
    BY <1>2, <1>t DEF TypeOK, Call, Goto, Phase
  <2>2. Table' = Table
    BY <1>2, <1>s DEF Call
  <2> QED BY <1>2, <2>1, <2>2 DEF Call, Atomic!Ask
<1>3. ASSUME NEW g \in G,
             \/ Lock(g) \/ LoadMiss(g) \/ Make(g) \/ ScanMiss(g) \/ RescanMiss(g)
             \/ AddLoad(g) \/ Unlock(g)
      PROVE  UNCHANGED Atomic!vars
  <2>1. phase' = phase
    BY <1>3, <1>t DEF TypeOK, Goto, Phase, Lock, LoadMiss, Make, ScanMiss, RescanMiss,
       AddLoad, Unlock
  <2>2. Table' = Table /\ key' = key /\ answer' = answer
    BY <1>3, <1>s DEF Lock, LoadMiss, Make, ScanMiss, RescanMiss, AddLoad, Unlock
  <2> QED BY <2>1, <2>2 DEF Atomic!vars
<1>4. ASSUME NEW g \in G, LoadDirect(g) \/ LoadHit(g)
      PROVE  Atomic!Found(g)
  <2>1. PICK o \in Stored(key[g]) : Answer(g, o, "done")
    BY <1>4, <1>t, KeysAssumption DEF LoadDirect, LoadHit, Stored, KeyInv, MapInv, Proper
  <2>2. key' = key /\ Table' = Table
    BY <1>4, <1>s DEF LoadDirect, LoadHit
  <2>3. Phase(pc[g]) = "asked" /\ key[g] \in K
    BY <1>4, <1>t DEF LoadDirect, LoadHit, Phase, KeyInv
  <2> QED BY <2>1, <2>2, <2>3, FoundStep DEF Answer, Goto
<1>5. ASSUME NEW g \in G, ScanHit(g) \/ RescanHit(g)
      PROVE  Atomic!Found(g)
  <2>1. PICK o \in Matches(List(g), key[g]) : Answer(g, o, "done") \/ Answer(g, o, "unlock")
    BY <1>5 DEF ScanHit, RescanHit
  <2>2. o \in Stored(key[g])
    <3>1. key[g] \in ListKeys
      BY <1>5, <1>t DEF ScanHit, RescanHit, KeyInv
    <3>2. o \in Matches(bucket[HashOf[key[g]]], key[g])
      BY <2>1 DEF List
    <3> QED BY <3>1, <3>2, <1>t, FoundIsStored
  <2>3. key' = key /\ Table' = Table
    BY <1>5, <1>s DEF ScanHit, RescanHit
  <2>4. Phase(pc[g]) = "asked" /\ key[g] \in K
    BY <1>5, <1>t DEF ScanHit, RescanHit, Phase, KeyInv
  <2> QED BY <2>1, <2>2, <2>3, <2>4, FoundStep DEF Answer, Goto
<1>6. ASSUME NEW g \in G, LoadOrStore(g)
      PROVE  Atomic!Found(g) \/ \E o \in Obj : Atomic!Entered(g, o)
  <2>1. /\ key[g] \in MapKeys /\ Proper(tt[g], key[g]) /\ key' = key /\ bucket' = bucket
        /\ Phase(pc[g]) = "asked" /\ pc' = [pc EXCEPT ![g] = "done"]
    BY <1>6, <1>t DEF LoadOrStore, KeyInv, PublishInv, Phase, Answer, Goto
  <2> PICK k \in MapKeys : k = key[g]
    BY <2>1
  <2>2. CASE k \in Known \/ syncMap[k] # None
    <3> DEFINE o == IF syncMap[k] = None THEN tt[g] ELSE syncMap[k]
    <3>1. o \in Stored(k) /\ answer' = [answer EXCEPT ![g] = o]
      BY <1>6, <1>t, <2>1, <2>2 DEF LoadOrStore, Answer, Stored, MapInv, Proper
    <3>2. Table' = Table
      <4>1. syncMap' = [syncMap EXCEPT ![k] = o]
        BY <1>6 DEF LoadOrStore
      <4>2. \A j \in K : Stored(j)' = Stored(j)
        BY <1>t, <2>1, <2>2, <4>1 DEF Stored, Matches, TypeOK
      <4> QED BY <4>2, TableUnchanged
    <3> QED BY <2>1, <3>1, <3>2, FoundStep
  <2>3. CASE k \notin Known /\ syncMap[k] = None
    <3>1. Stored(k) = {} /\ tt[g] \in Obj /\ tt[g].key = k
      BY <2>1, <2>3 DEF Stored, Proper
    <3>2. syncMap' = [syncMap EXCEPT ![k] = tt[g]] /\ answer' = [answer EXCEPT ![g] = tt[g]]
      BY <1>6, <2>3 DEF LoadOrStore, Answer
    <3>3. Table' = [Table EXCEPT ![k] = tt[g]]
      <4>1. Stored(k)' = {tt[g]}
        BY <1>t, <2>3, <3>1, <3>2, NoneAssumption DEF Stored, TypeOK
      <4>2. \A j \in K \ {k} : Stored(j)' = Stored(j)
        BY <1>t, <2>1, <3>2 DEF Stored, Matches, TypeOK
      <4> QED BY <4>1, <4>2, TableEnters
    <3> QED BY <2>1, <3>1, <3>2, <3>3, EnteredStep
  <2> QED BY <2>2, <2>3
<1>7. ASSUME NEW g \in G, AddStore(g)
      PROVE  Atomic!Found(g) \/ \E o \in Obj : Atomic!Entered(g, o)
  <2>1. /\ key' = key /\ syncMap' = syncMap /\ Phase(pc[g]) = "asked"
        /\ pc' = [pc EXCEPT ![g] = "unlock"] /\ answer' = [answer EXCEPT ![g] = tt[g]]
    BY <1>7 DEF AddStore, Phase, Answer, Goto
  <2> PICK k \in ListKeys : k = key[g]
    BY <1>7, <1>t, AddStoreAdds
  <2>2. /\ Proper(tt[g], k) /\ HashOf[k] \in Hashes
        /\ \A o \in bucket[HashOf[k]] : o.key # k
        /\ bucket' = [bucket EXCEPT ![HashOf[k]] = bucket[HashOf[k]] \cup {tt[g]}]
    BY <1>7, <1>t, AddStoreAdds
  <2>3. \A j \in K \ {k} : Stored(j)' = Stored(j)
    BY <1>t, <2>1, <2>2, ListsAssumption DEF Stored, Matches, Proper, TypeOK
  <2>4. CASE k \in Known
    <3>1. tt[g] \in Stored(k) /\ Stored(k)' = Stored(k)
      BY <2>2, <2>4 DEF Stored, Proper
    <3>2. Table' = Table
      BY <2>3, <3>1, TableUnchanged
    <3> QED BY <2>1, <3>1, <3>2, FoundStep
  <2>5. CASE k \notin Known
    <3>1. Stored(k) = {} /\ Stored(k)' = {tt[g]}
      BY <1>t, <2>2, <2>5, KeysAssumption DEF Stored, Matches, Proper, TypeOK
    <3>2. Table' = [Table EXCEPT ![k] = tt[g]]
      BY <2>3, <3>1, TableEnters
    <3> QED BY <2>1, <2>2, <3>1, <3>2, EnteredStep DEF Proper
  <2> QED BY <2>4, <2>5
<1>8. ASSUME NEW g \in G, Return(g)
      PROVE  Atomic!Return(g)
  <2>1. phase' = [phase EXCEPT ![g] = "idle"] /\ phase[g] = "answered"
    BY <1>8, <1>t DEF TypeOK, Return, Goto, Phase
  <2>2. Table' = Table
    BY <1>8, <1>s DEF Return
  <2> QED BY <1>8, <2>1, <2>2 DEF Return, Atomic!Return
<1> QED BY <1>1, <1>2, <1>3, <1>4, <1>5, <1>6, <1>7, <1>8 DEF Next, Step, Atomic!Next

(* Every behaviour of the caches, whatever the interleaving, is one of a   *)
(* table in which a look-up and the entry of a new object are one step.    *)
THEOREM Refinement == Spec => ImplementsIntern
BY InitRefines, StepRefines, Invariance, PTL DEF Spec, ImplementsIntern, Atomic!Spec
=============================================================================
