--------------------------- MODULE TypeTablesProofs --------------------------
(***************************************************************************)
(* Passes over sorted tables: typesByString returns exactly the linked     *)
(* types of a string, and implements, which passes over two method tables  *)
(* once, answers what a search for each method would, for all tables.      *)
(***************************************************************************)
EXTENDS TypeLinks, TypeQueries, TLAPS

-----------------------------------------------------------------------------
(* typesByString                                                           *)

LEMMA SizeFacts ==
  ASSUME TypeOK
  PROVE  /\ Len(offset) \in Nat
         /\ \A m \in 1..Len(offset) : Size(m) = Len(offset[m]) /\ Size(m) \in Nat
         /\ \A m \in Int : Size(m) \in Nat
         /\ \A m \in 1..Len(offset) : \A k \in 0..(Size(m) - 1) : StringAt(m, k) \in Nat
<1>1. offset \in Seq(Seq(Nat))
  BY SortedAssumption DEF TypeOK
<1>2. Len(offset) \in Nat /\ \A m \in 1..Len(offset) : offset[m] \in Seq(Nat)
  BY <1>1
<1>3. \A m \in 1..Len(offset) : Size(m) = Len(offset[m]) /\ Size(m) \in Nat
  BY <1>2 DEF Size
<1>4. \A m \in Int : Size(m) \in Nat
  BY <1>2 DEF Size
<1>5. ASSUME NEW m \in 1..Len(offset), NEW k \in 0..(Size(m) - 1)
      PROVE  StringAt(m, k) \in Nat
  <2>1. k + 1 \in 1..Len(offset[m])
    BY <1>3
  <2> QED  BY <1>2, <2>1 DEF StringAt
<1> QED  BY <1>2, <1>3, <1>4, <1>5

(* The strings of a section are sorted, by indexes from 0.                 *)
LEMMA Sorted ==
  ASSUME TypeOK, NEW m \in 1..Len(offset),
         NEW k \in 0..(Size(m) - 1), NEW l \in 0..(Size(m) - 1), k <= l
  PROVE  StringAt(m, k) <= StringAt(m, l)
<1>0. Size(m) = Len(offset[m]) /\ Size(m) \in Nat
  BY SizeFacts
<1>1. k + 1 \in 1..Len(offset[m]) /\ l + 1 \in 1..Len(offset[m]) /\ k + 1 <= l + 1
  BY <1>0
<1>2. offset \in Tables
  BY DEF TypeOK
<1> QED  BY <1>1, <1>2, SortedAssumption DEF StringAt

LEMMA InPlaces ==
  ASSUME NEW m \in 1..Len(offset), NEW k \in 0..(Size(m) - 1)
  PROVE  <<m, k>> \in Places
BY DEF Places

LEMMA PlacesFacts ==
  ASSUME NEW p \in Places
  PROVE  /\ p[1] \in 1..Len(offset) /\ p[2] \in 0..(Size(p[1]) - 1)
         /\ p = <<p[1], p[2]>>
BY DEF Places

(* The section at hand is in the table.                                    *)
LEMMA AtHand ==
  ASSUME TypeOK, ~Over
  PROVE  offsI \in 1..Len(offset) /\ Size(offsI) \in Nat /\ s \in Nat
BY SizeFacts, StringsAssumption DEF TypeOK, Over

LEMMA InitInv == Init => Inv
<1> SUFFICES ASSUME Init  PROVE Inv
  OBVIOUS
<1>1. offset \in Seq(Seq(Nat)) /\ Len(offset) \in Nat
  BY SortedAssumption DEF Init
<1>2. Size(1) \in Nat
  BY <1>1 DEF Size
<1>3. TypeOK
  BY <1>1, <1>2 DEF Init, TypeOK
<1>4. Bracket
  BY <1>2 DEF Init, Bracket
<1>5. FoundSoFar
  <2>1. \A p \in OfString : ~(p[1] < 1)
    BY PlacesFacts, <1>1 DEF OfString
  <2> QED  BY <2>1 DEF Init, FoundSoFar
<1> QED  BY <1>3, <1>4, <1>5 DEF Inv

LEMMA NarrowInv ==
  ASSUME Inv, Narrow
  PROVE  Inv'
<1> DEFINE h == Half
<1>1. /\ offsI \in 1..Len(offset) /\ Size(offsI) \in Nat /\ s \in Nat
      /\ i \in Nat /\ j \in Nat /\ i < j /\ j <= Size(offsI)
      /\ phase = "search" /\ ~Over /\ TypeOK
  BY AtHand DEF Inv, TypeOK, Bracket, Narrow
<1>2. h \in Nat /\ i <= h /\ h < j
  BY <1>1 DEF Half
<1>3. h \in 0..(Size(offsI) - 1) /\ StringAt(offsI, h) \in Nat
  <2> HIDE DEF h
  <2>1. h \in 0..(Size(offsI) - 1)
    BY <1>1, <1>2
  <2> QED  BY <1>1, <2>1, SizeFacts
<1>4. \A k \in 0..(Size(offsI) - 1) :
        /\ StringAt(offsI, k) \in Nat
        /\ k <= h => StringAt(offsI, k) <= StringAt(offsI, h)
        /\ k >= h => StringAt(offsI, k) >= StringAt(offsI, h)
  BY <1>1, <1>3, Sorted, SizeFacts
<1> HIDE DEF h
<1>5. /\ offset' = offset /\ s' = s /\ offsI' = offsI /\ phase' = phase /\ ret' = ret
      /\ \/ StringAt(offsI, h) < s /\ i' = h + 1 /\ j' = j
         \/ ~(StringAt(offsI, h) < s) /\ j' = h /\ i' = i
  BY DEF Narrow, h
<1>6. Size(offsI)' = Size(offsI) /\ (\A k : StringAt(offsI, k)' = StringAt(offsI, k))
  BY <1>5 DEF Size, StringAt
<1>7. TypeOK'
  BY <1>1, <1>2, <1>5 DEF TypeOK, Over
<1>8. Bracket'
  <2>1. CASE StringAt(offsI, h) < s /\ i' = h + 1 /\ j' = j
    <3>1. \A k \in 0..(Size(offsI) - 1) : k < h + 1 => StringAt(offsI, k) < s
      BY <1>2, <1>3, <1>4, <1>1, <2>1
    <3> QED  BY <1>1, <1>2, <1>5, <1>6, <2>1, <3>1 DEF Bracket, Inv, Over, Size, StringAt
  <2>2. CASE ~(StringAt(offsI, h) < s) /\ j' = h /\ i' = i
    <3>1. \A k \in 0..(Size(offsI) - 1) : k >= h => StringAt(offsI, k) >= s
      BY <1>2, <1>3, <1>4, <1>1, <2>2
    <3> QED  BY <1>1, <1>2, <1>5, <1>6, <2>2, <3>1 DEF Bracket, Inv, Over, Size, StringAt
  <2> QED  BY <1>5, <2>1, <2>2
<1>9. FoundSoFar'
  BY <1>1, <1>5 DEF Inv, FoundSoFar, OfString, Places, Size, StringAt
<1> QED  BY <1>7, <1>8, <1>9 DEF Inv

LEMMA StartScanInv ==
  ASSUME Inv, StartScan
  PROVE  Inv'
<1>1. /\ offsI \in 1..Len(offset) /\ Size(offsI) \in Nat /\ s \in Nat
      /\ i \in Nat /\ j \in Nat /\ i = j /\ j <= Size(offsI) /\ ~Over
  BY AtHand DEF Inv, TypeOK, Bracket, StartScan
<1>2. /\ offset' = offset /\ s' = s /\ offsI' = offsI /\ phase' = "scan" /\ ret' = ret
      /\ i' = i /\ j' = i
  BY DEF StartScan
<1>3. TypeOK'
  BY <1>1, <1>2 DEF Inv, TypeOK, Over
<1>4. Bracket'
  BY <1>2 DEF Bracket
<1>5. FoundSoFar'
  <2>1. ret \subseteq OfString /\ \A p \in OfString : p[1] < offsI => p \in ret
    BY DEF Inv, FoundSoFar
  <2>2. OfString' = OfString
    BY <1>2 DEF OfString, Places, Size, StringAt
  <2>3. \A k \in 0..(Size(offsI) - 1) :
          /\ k < i => StringAt(offsI, k) < s
          /\ k >= i => StringAt(offsI, k) >= s
    BY <1>1 DEF Inv, Bracket, StartScan
  <2>4. (ret \subseteq OfString)' /\ (\A p \in OfString : p[1] < offsI => p \in ret)'
    BY <1>2, <2>1, <2>2
  <2>5. (0 <= i /\ i <= j /\ j <= Size(offsI))'
    BY <1>1, <1>2 DEF Size
  <2>6. (\A k \in 0..(Size(offsI) - 1) :
           /\ k < i => StringAt(offsI, k) < s
           /\ k >= i => StringAt(offsI, k) >= s)'
    BY <1>2, <2>3 DEF Size, StringAt
  <2>7. (\A k \in 0..(Size(offsI) - 1) : ~(k >= i /\ k < j))'
    <3>1. Size(offsI)' = Size(offsI)
      BY <1>2 DEF Size
    <3> QED  BY <1>1, <1>2, <3>1
  <2> QED  BY <2>4, <2>5, <2>6, <2>7 DEF FoundSoFar
<1> QED  BY <1>3, <1>4, <1>5 DEF Inv

LEMMA CollectInv ==
  ASSUME Inv, Collect
  PROVE  Inv'
<1>1. /\ offsI \in 1..Len(offset) /\ Size(offsI) \in Nat /\ s \in Nat
      /\ i \in Nat /\ j \in Nat /\ i <= j /\ j < Size(offsI) /\ ~Over
      /\ StringAt(offsI, j) = s /\ phase = "scan"
  BY AtHand DEF Inv, TypeOK, FoundSoFar, Collect, Here
<1>2. /\ offset' = offset /\ s' = s /\ offsI' = offsI /\ phase' = "scan" /\ i' = i
      /\ ret' = ret \cup {<<offsI, j>>} /\ j' = j + 1
  BY <1>1 DEF Collect
<1>3. TypeOK'
  BY <1>1, <1>2 DEF Inv, TypeOK, Over
<1>4. Bracket'
  BY <1>2 DEF Bracket
<1>5. FoundSoFar'
  <2>1. /\ ret \subseteq OfString /\ \A p \in OfString : p[1] < offsI => p \in ret
        /\ \A k \in 0..(Size(offsI) - 1) :
             /\ k < i => StringAt(offsI, k) < s
             /\ k >= i => StringAt(offsI, k) >= s
             /\ k >= i /\ k < j => <<offsI, k>> \in ret
    BY <1>1 DEF Inv, FoundSoFar
  <2>2. OfString' = OfString
    BY <1>2 DEF OfString, Places, Size, StringAt
  <2>3. <<offsI, j>> \in OfString
    BY <1>1, InPlaces DEF OfString
  <2>4. \A k \in 0..(Size(offsI) - 1) : k >= i /\ k < j + 1 => <<offsI, k>> \in ret'
    BY <1>1, <1>2, <2>1
  <2>5. Size(offsI)' = Size(offsI) /\ (\A k : StringAt(offsI, k)' = StringAt(offsI, k))
    BY <1>2 DEF Size, StringAt
  <2> QED  BY <1>1, <1>2, <2>1, <2>2, <2>3, <2>4, <2>5 DEF FoundSoFar
<1> QED  BY <1>3, <1>4, <1>5 DEF Inv

LEMMA NextSectionInv ==
  ASSUME Inv, NextSection
  PROVE  Inv'
<1>1. /\ offsI \in 1..Len(offset) /\ Size(offsI) \in Nat /\ s \in Nat
      /\ i \in Nat /\ j \in Nat /\ i <= j /\ j <= Size(offsI) /\ ~Over
      /\ phase = "scan" /\ ~Here /\ Len(offset) \in Nat /\ TypeOK
  BY AtHand, SizeFacts DEF Inv, TypeOK, FoundSoFar, NextSection
<1>2. /\ offset' = offset /\ s' = s /\ offsI' = offsI + 1 /\ phase' = "search" /\ i' = 0
      /\ ret' = ret /\ j' = Size(offsI + 1)
  BY DEF NextSection
<1>3. Size(offsI + 1) \in Nat /\ Size(offsI)' = Size(offsI + 1)
  BY <1>1, <1>2, SizeFacts DEF Size
<1>4. TypeOK'
  BY <1>1, <1>2, <1>3 DEF TypeOK, Over
<1>5. Bracket'
  BY <1>1, <1>2, <1>3 DEF Bracket
<1>6. FoundSoFar'
  <2>1. /\ ret \subseteq OfString /\ \A p \in OfString : p[1] < offsI => p \in ret
        /\ \A k \in 0..(Size(offsI) - 1) :
             /\ k < i => StringAt(offsI, k) < s
             /\ k >= i => StringAt(offsI, k) >= s
             /\ k >= i /\ k < j => <<offsI, k>> \in ret
    BY <1>1 DEF Inv, FoundSoFar
  <2>2. OfString' = OfString
    BY <1>2 DEF OfString, Places, Size, StringAt
  <2>3. ASSUME NEW k \in 0..(Size(offsI) - 1), StringAt(offsI, k) = s
        PROVE  <<offsI, k>> \in ret
    <3>0. k < i => StringAt(offsI, k) < s
      BY <2>1
    <3>1. k >= i
      BY <1>1, <2>3, <3>0
    <3>2. CASE k < j
      BY <2>1, <3>1, <3>2
    <3>3. CASE k >= j
      <4>1. j \in 0..(Size(offsI) - 1)
        BY <1>1, <3>3
      <4>2. StringAt(offsI, j) # s /\ StringAt(offsI, j) >= s
        <5>1. j >= i => StringAt(offsI, j) >= s
          BY <2>1, <4>1
        <5>2. j < Size(offsI)
          BY <1>1, <4>1
        <5> QED  BY <1>1, <5>1, <5>2 DEF Here
      <4>3. StringAt(offsI, j) <= StringAt(offsI, k) /\ StringAt(offsI, j) \in Nat
        BY <1>1, <3>3, <4>1, Sorted, SizeFacts
      <4> QED  BY <1>1, <2>3, <4>2, <4>3
    <3> QED  BY <1>1, <3>2, <3>3
  <2>4. \A p \in OfString : p[1] < offsI + 1 => p \in ret
    <3> SUFFICES ASSUME NEW p \in OfString, p[1] < offsI + 1  PROVE p \in ret
      OBVIOUS
    <3>1. /\ p[1] \in 1..Len(offset) /\ p[2] \in 0..(Size(p[1]) - 1)
          /\ p = <<p[1], p[2]>> /\ StringAt(p[1], p[2]) = s
      BY PlacesFacts DEF OfString
    <3>2. CASE p[1] = offsI
      BY <2>3, <3>1, <3>2
    <3>3. CASE p[1] # offsI
      BY <1>1, <2>1, <3>1, <3>3
    <3> QED  BY <3>2, <3>3
  <2> QED  BY <1>2, <2>1, <2>2, <2>4 DEF FoundSoFar
<1> QED  BY <1>4, <1>5, <1>6 DEF Inv

LEMMA StepInv ==
  ASSUME Inv, [Next]_vars
  PROVE  Inv'
<1>1. CASE UNCHANGED vars
  BY <1>1 DEF vars, Inv, TypeOK, Bracket, FoundSoFar, OfString, Places, Size, StringAt, Over
<1> QED  BY <1>1, NarrowInv, StartScanInv, CollectInv, NextSectionInv DEF Next

(* At every step of the bisection and of the scan, no type of the string   *)
(* has been passed over.                                                   *)
THEOREM Invariance == Spec => []Inv
BY InitInv, StepInv, PTL DEF Spec

(* typesByString returns exactly the types of the string, in every sorted  *)
(* table.                                                                  *)
THEOREM ExactlyTheTypes == Spec => []Exact
<1>1. Inv => Exact
  <2> SUFFICES ASSUME Inv, Over  PROVE ret = OfString
    BY DEF Exact
  <2>1. ret \subseteq OfString /\ \A p \in OfString : p[1] < offsI => p \in ret
    BY DEF Inv, FoundSoFar
  <2>2. ASSUME NEW p \in OfString  PROVE p[1] < offsI
    <3>1. p[1] \in 1..Len(offset) /\ offsI \in Nat /\ Len(offset) \in Nat /\ offsI > Len(offset)
      BY PlacesFacts, SizeFacts DEF OfString, Inv, TypeOK, Over
    <3> QED  BY <3>1
  <2> QED  BY <2>1, <2>2
<1> QED  BY <1>1, Invariance, PTL

-----------------------------------------------------------------------------
(* implements                                                              *)

(* The scan has found the methods before the cursor of T, and what it has  *)
(* passed in V is not the method at the cursor.                            *)
Matched(t, v, p)    == \A k \in DOMAIN t : k < p => \E l \in DOMAIN v : SameMethod(t[k], v[l])
Passed(t, v, p, q) == \A l \in DOMAIN v : l < q /\ p \in DOMAIN t => ~SameMethod(t[p], v[l])

ScanInv ==
  Open("implements") =>
    /\ at[1] \in Nat \ {0} /\ at[2] \in 1..(Len(asked.v) + 1)
    /\ Len(asked.t) # 0 => at[1] <= Len(asked.t)
    /\ Matched(asked.t, asked.v, at[1]) /\ Passed(asked.t, asked.v, at[1], at[2])

Asking == asked.op = "implements" =>
            asked.t \in Methods /\ asked.v \in Methods /\ work = <<>>

QueryInv == Asking /\ ScanInv /\ ImplementsRight

LEMMA HasMethodsSame ==
  ASSUME NEW t, NEW v
  PROVE  HasMethods(t, v) <=> \A k \in DOMAIN t : \E l \in DOMAIN v : SameMethod(t[k], v[l])
BY DEF HasMethods, SameMethod, SameName

LEMMA TableFacts ==
  ASSUME NEW t \in Methods
  PROVE  /\ Len(t) \in Nat /\ DOMAIN t = 1..Len(t)
         /\ \A k \in 1..Len(t) : t[k].rank \in Nat
         /\ \A k, l \in 1..Len(t) : k < l => t[k].rank < t[l].rank
BY MethodsAssumption

LEMMA SameRank ==
  ASSUME NEW t \in Methods, NEW v \in Methods, NEW k \in DOMAIN t, NEW l \in DOMAIN v,
         SameMethod(t[k], v[l])
  PROVE  t[k].rank = v[l].rank
BY MethodsAssumption DEF SameMethod

(* After a match, no method passed can be the next one: its place is not   *)
(* after that of the match.                                                *)
LEMMA PassedNext ==
  ASSUME NEW t \in Methods, NEW v \in Methods, NEW p \in DOMAIN t, NEW q \in DOMAIN v,
         SameMethod(t[p], v[q])
  PROVE  Passed(t, v, p + 1, q + 1)
<1> SUFFICES ASSUME NEW l \in DOMAIN v, l < q + 1, p + 1 \in DOMAIN t, SameMethod(t[p + 1], v[l])
             PROVE  FALSE
  BY DEF Passed
<1>1. p \in 1..Len(t) /\ p + 1 \in 1..Len(t) /\ q \in 1..Len(v) /\ l \in 1..Len(v)
  BY TableFacts
<1>2. t[p + 1].rank = v[l].rank /\ t[p].rank = v[q].rank
  BY SameRank
<1>3. t[p].rank < t[p + 1].rank /\ t[p].rank \in Nat /\ t[p + 1].rank \in Nat
  BY <1>1, TableFacts
<1>4. l = q \/ v[l].rank < v[q].rank
  BY <1>1, TableFacts
<1>5. v[l].rank \in Nat /\ v[q].rank \in Nat
  BY <1>1, TableFacts
<1> QED  BY <1>2, <1>3, <1>4, <1>5

LEMMA InitQuery == QueryInit => QueryInv
<1> SUFFICES ASSUME QueryInit  PROVE QueryInv
  OBVIOUS
<1>1. at[1] = 1 /\ at[2] = 1 /\ verdict = "none"
  BY DEF QueryInit
<1>2. Asking
  BY DEF QueryInit, Asking
<1>3. ScanInv
  <2> SUFFICES ASSUME Open("implements")  PROVE ScanInv
    BY DEF ScanInv
  <2>1. asked.t \in Methods /\ asked.v \in Methods
    BY <1>2 DEF Asking, Open
  <2>2. /\ Len(asked.t) \in Nat /\ DOMAIN asked.t = 1..Len(asked.t)
        /\ Len(asked.v) \in Nat /\ DOMAIN asked.v = 1..Len(asked.v)
    BY <2>1, TableFacts
  <2>3. Matched(asked.t, asked.v, 1) /\ Passed(asked.t, asked.v, 1, 1)
    BY <2>2 DEF Matched, Passed
  <2> QED  BY <1>1, <2>2, <2>3 DEF ScanInv
<1> QED  BY <1>1, <1>2, <1>3 DEF QueryInv, ImplementsRight

(* A question is never changed, and other questions are not the scan's.    *)
LEMMA KeepInv ==
  ASSUME QueryInv, UNCHANGED asked, asked.op # "implements"
  PROVE  QueryInv'
BY DEF QueryInv, Asking, ScanInv, ImplementsRight, Open

LEMMA ScanStep ==
  ASSUME QueryInv, ImplementsScan
  PROVE  QueryInv'
<1> DEFINE t == asked.t
           v == asked.v
           p == at[1]
           q == at[2]
<1>1. /\ asked.op = "implements" /\ verdict = "none" /\ asked' = asked
      /\ t \in Methods /\ v \in Methods /\ work = <<>> /\ work' = work
  BY DEF QueryInv, Asking, ImplementsScan, Open, Answer
<1>2. /\ Len(t) \in Nat /\ DOMAIN t = 1..Len(t) /\ Len(v) \in Nat /\ DOMAIN v = 1..Len(v)
  BY <1>1, TableFacts
<1>3. p \in DOMAIN t /\ q \in DOMAIN v
  BY <1>1, <1>2 DEF QueryInv, ScanInv, Open, ImplementsScan
<1>4. Matched(t, v, p) /\ Passed(t, v, p, q)
  BY <1>1 DEF QueryInv, ScanInv, Open
<1>5. Asking'
  BY <1>1 DEF Asking
<1>6. CASE SameMethod(t[p], v[q]) /\ p = Len(t)
  <2>1. verdict' = "yes"
    BY <1>6 DEF ImplementsScan, Answer
  <2>2. HasMethods(t, v)
    BY <1>2, <1>3, <1>4, <1>6, HasMethodsSame DEF Matched
  <2> QED  BY <1>1, <1>5, <2>1, <2>2 DEF QueryInv, ScanInv, ImplementsRight, Open
<1>7. CASE SameMethod(t[p], v[q]) /\ p # Len(t)
  <2>1. at' = <<p + 1, q + 1>> /\ verdict' = "none"
    BY <1>1, <1>7 DEF ImplementsScan
  <2>2. Matched(t, v, p + 1)
    BY <1>2, <1>3, <1>4, <1>7 DEF Matched
  <2>3. Passed(t, v, p + 1, q + 1)
    BY <1>1, <1>3, <1>7, PassedNext
  <2>4. ScanInv'
    BY <1>1, <1>2, <1>3, <1>7, <2>1, <2>2, <2>3 DEF ScanInv
  <2> QED  BY <1>5, <2>1, <2>4 DEF QueryInv, ImplementsRight
<1>8. CASE ~SameMethod(t[p], v[q])
  <2>1. at' = <<p, q + 1>> /\ verdict' = "none"
    BY <1>1, <1>8 DEF ImplementsScan
  <2>2. Passed(t, v, p, q + 1)
    BY <1>2, <1>3, <1>4, <1>8 DEF Passed
  <2>3. ScanInv'
    BY <1>1, <1>2, <1>3, <1>4, <2>1, <2>2 DEF ScanInv
  <2> QED  BY <1>5, <2>1, <2>3 DEF QueryInv, ImplementsRight
<1> QED  BY <1>6, <1>7, <1>8

LEMMA AnswerStep ==
  ASSUME QueryInv, ImplementsEmpty \/ ImplementsOver
  PROVE  QueryInv'
<1> DEFINE t == asked.t
           v == asked.v
<1>1. /\ asked.op = "implements" /\ verdict = "none" /\ asked' = asked
      /\ t \in Methods /\ v \in Methods /\ work = <<>> /\ work' = work
  BY DEF QueryInv, Asking, ImplementsEmpty, ImplementsOver, Open, Answer
<1>2. /\ Len(t) \in Nat /\ DOMAIN t = 1..Len(t) /\ Len(v) \in Nat /\ DOMAIN v = 1..Len(v)
  BY <1>1, TableFacts
<1>3. CASE ImplementsEmpty
  <2>1. verdict' = "yes"
    BY <1>3 DEF ImplementsEmpty, Answer
  <2>2. HasMethods(t, v)
    BY <1>2, <1>3, HasMethodsSame DEF ImplementsEmpty
  <2> QED  BY <1>1, <2>1, <2>2 DEF QueryInv, Asking, ScanInv, ImplementsRight, Open
<1>4. CASE ImplementsOver
  <2>1. verdict' = "no"
    BY <1>4 DEF ImplementsOver, Answer
  <2>2. at[1] \in DOMAIN t /\ \A l \in DOMAIN v : ~SameMethod(t[at[1]], v[l])
    BY <1>1, <1>2, <1>4 DEF QueryInv, ScanInv, Passed, Open, ImplementsOver
  <2>3. ~HasMethods(t, v)
    BY <2>2, HasMethodsSame
  <2> QED  BY <1>1, <2>1, <2>3 DEF QueryInv, Asking, ScanInv, ImplementsRight, Open
<1> QED  BY <1>3, <1>4

LEMMA StepQuery ==
  ASSUME QueryInv, [QueryNext]_queryVars
  PROVE  QueryInv'
<1>1. CASE UNCHANGED queryVars
  BY <1>1 DEF QueryInv, Asking, ScanInv, ImplementsRight, Open, Matched, Passed, queryVars
<1>2. CASE ImplementsEmpty \/ ImplementsOver
  BY <1>2, AnswerStep
<1>3. CASE ImplementsScan
  BY <1>3, ScanStep
<1>4. CASE Assignable \/ Convertible
  BY <1>4, KeepInv DEF Assignable, Convertible, Open, Answer, Compare
<1>5. CASE Descend \/ Reject
  <2>1. asked.op # "implements"
    BY <1>5 DEF QueryInv, Asking, Descend, Reject, Comparing, Started
  <2> QED  BY <1>5, <2>1, KeepInv DEF Descend, Reject, Answer, Compare
<1> QED  BY <1>1, <1>2, <1>3, <1>4, <1>5 DEF QueryNext

(* For all sorted method tables, of whatever length: implements says yes   *)
(* just when every method of the interface is among the type's.            *)
THEOREM ScanIsSearch == QuerySpec => []ImplementsRight
<1>1. QueryInv => ImplementsRight
  BY DEF QueryInv
<1> QED  BY <1>1, InitQuery, StepQuery, PTL DEF QuerySpec
=============================================================================
