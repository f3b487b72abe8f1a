------------------------- MODULE FieldLookupProofs -------------------------
(***************************************************************************)
(* What FieldByName finds is a field of that name, at the place it gives;  *)
(* and it reports that there is none only when no embedded struct has one, *)
(* or several on one level do.  What is more, it finds what the language   *)
(* selects: the search, which passes each type once and only counts the    *)
(* ways to it, is followed level by level (LevelInv) along the places that *)
(* there are at each depth.                                                *)
(***************************************************************************)
EXTENDS FieldLookup, FiniteSetTheorems, WellFoundedInduction, TLAPS

USE TypesAssumption

-----------------------------------------------------------------------------
(* Places and queues                                                       *)

LEMMA EmptyLeads == LeadsTo(<<>>, Root)
BY DEF LeadsTo, Leads

(* One step further is a place too.                                        *)
LEMMA StepLeads ==
  ASSUME NEW p \in Seq(Step), NEW t \in Types, LeadsTo(p, t),
         fields \in [Types -> Seq(Field)], NEW k \in DOMAIN fields[t]
  PROVE  /\ Append(p, [typ |-> t, i |-> k]) \in Seq(Step)
         /\ LeadsTo(Append(p, [typ |-> t, i |-> k]), fields[t][k])
<1> DEFINE e == [typ |-> t, i |-> k]
           q == Append(p, e)
<1>1. e \in Step /\ e.typ = t /\ e.i = k
  <2>1. fields[t] \in Seq(Field)
    OBVIOUS
  <2>2. k \in Nat \ {0}
    BY <2>1
  <2> QED  BY <2>2 DEF Step
<1> HIDE DEF e
<1>2. /\ q \in Seq(Step) /\ Len(p) \in Nat /\ Len(q) = Len(p) + 1 /\ q[Len(q)] = e
      /\ \A n \in 1..Len(p) : q[n] = p[n]
  BY <1>1
<1> HIDE DEF q
<1>3. Leads(q)
  <2> SUFFICES ASSUME NEW n \in 1..Len(q)
               PROVE  /\ q[n].typ = IF n = 1 THEN Root ELSE fields[q[n - 1].typ][q[n - 1].i]
                      /\ q[n].i \in DOMAIN fields[q[n].typ]
    BY DEF Leads
  <2>1. CASE n <= Len(p)
    <3>1. n \in 1..Len(p) /\ (n # 1 => n - 1 \in 1..Len(p))
      BY <1>2, <2>1
    <3> QED  BY <1>2, <3>1 DEF LeadsTo, Leads
  <2>2. CASE n = Len(q)
    <3>1. CASE p = <<>>
      BY <1>1, <1>2, <2>2, <3>1 DEF LeadsTo
    <3>2. CASE p # <<>>
      <4>1. n - 1 = Len(p) /\ n # 1 /\ q[n - 1] = p[Len(p)]
        BY <1>2, <2>2, <3>2
      <4> QED  BY <1>1, <1>2, <2>2, <3>2, <4>1 DEF LeadsTo
    <3> QED  BY <3>1, <3>2
  <2> QED  BY <1>2, <2>1, <2>2
<1>4. q # <<>>
  BY <1>2
<1>5. LeadsTo(q, fields[t][k])
  BY <1>1, <1>2, <1>3, <1>4 DEF LeadsTo
<1> QED  BY <1>2, <1>5 DEF e, q

LEMMA AppendFacts ==
  ASSUME NEW q \in Seq(Scan), NEW e \in Scan
  PROVE  /\ Append(q, e) \in Seq(Scan)
         /\ TypesIn(Append(q, e)) = TypesIn(q) \cup {e.typ}
         /\ QueueLeads(q) /\ LeadsTo(e.index, e.typ) => QueueLeads(Append(q, e))
<1> DEFINE r == Append(q, e)
<1>1. /\ r \in Seq(Scan) /\ DOMAIN r = 1..(Len(q) + 1) /\ DOMAIN q = 1..Len(q)
      /\ Len(q) \in Nat /\ r[Len(q) + 1] = e /\ \A n \in 1..Len(q) : r[n] = q[n]
  OBVIOUS
<1> HIDE DEF r
<1>2. TypesIn(r) = TypesIn(q) \cup {e.typ}
  BY <1>1 DEF TypesIn
<1>3. QueueLeads(q) /\ LeadsTo(e.index, e.typ) => QueueLeads(r)
  BY <1>1 DEF QueueLeads
<1> QED  BY <1>1, <1>2, <1>3 DEF r

LEMMA TailFacts ==
  ASSUME NEW q \in Seq(Scan), q # <<>>
  PROVE  /\ Head(q) \in Scan /\ Tail(q) \in Seq(Scan)
         /\ TypesIn(q) = TypesIn(Tail(q)) \cup {Head(q).typ}
         /\ QueueLeads(q) => QueueLeads(Tail(q)) /\ LeadsTo(Head(q).index, Head(q).typ)
<1> DEFINE r == Tail(q)
<1>1. /\ r \in Seq(Scan) /\ DOMAIN r = 1..(Len(q) - 1) /\ DOMAIN q = 1..Len(q)
      /\ Len(q) \in Nat /\ Len(q) > 0 /\ Head(q) = q[1]
      /\ \A n \in 1..(Len(q) - 1) : r[n] = q[n + 1]
  OBVIOUS
<1> HIDE DEF r
<1>2. TypesIn(q) = TypesIn(r) \cup {q[1].typ}
  <2>1. ASSUME NEW n \in 1..Len(q), n # 1  PROVE q[n].typ \in TypesIn(r)
    <3>1. n - 1 \in DOMAIN r /\ r[n - 1] = q[n]
      BY <1>1, <2>1
    <3> QED  BY <3>1 DEF TypesIn
  <2>2. ASSUME NEW n \in DOMAIN r  PROVE r[n].typ \in TypesIn(q)
    <3>1. n + 1 \in DOMAIN q /\ r[n] = q[n + 1]
      BY <1>1
    <3> QED  BY <3>1 DEF TypesIn
  <2>3. q[1].typ \in TypesIn(q)
    BY <1>1 DEF TypesIn
  <2> QED  BY <1>1, <2>1, <2>2, <2>3 DEF TypesIn
<1>3. QueueLeads(q) => QueueLeads(r) /\ LeadsTo(q[1].index, q[1].typ)
  <2> SUFFICES ASSUME QueueLeads(q)
               PROVE  QueueLeads(r) /\ LeadsTo(q[1].index, q[1].typ)
    OBVIOUS
  <2>1. ASSUME NEW n \in DOMAIN r  PROVE LeadsTo(r[n].index, r[n].typ)
    <3>1. n + 1 \in DOMAIN q /\ r[n] = q[n + 1]
      BY <1>1
    <3> QED  BY <3>1 DEF QueueLeads
  <2>2. 1 \in DOMAIN q
    BY <1>1
  <2> QED  BY <2>1, <2>2 DEF QueueLeads
<1>4. Head(q) \in Scan
  BY <1>1
<1> QED  BY <1>1, <1>2, <1>3, <1>4 DEF r

-----------------------------------------------------------------------------
(* The invariant                                                           *)

LEMMA InitInv == Init => Inv
<1> SUFFICES ASSUME Init  PROVE Inv
  OBVIOUS
<1> DEFINE e == [typ |-> Root, index |-> <<>>]
<1>1. e \in Scan /\ next = <<e>> /\ e.typ = Root /\ e.index = <<>>
  BY DEF Init, Scan
<1> HIDE DEF e
<1>2. TypeOK
  <2>1. next \in Seq(Scan) /\ current \in Seq(Scan)
    BY <1>1 DEF Init
  <2>2. fields \in [Types -> Seq(Field)]
    BY ProgramsAssumption DEF Init
  <2>3. count \in [Types -> 0..2] /\ nextCount \in [Types -> 0..2]
    BY DEF Init, Uncounted
  <2>4. /\ visited \subseteq Types /\ i \in Nat /\ ok \in BOOLEAN
        /\ phase \in {"quick", "level", "scan", "done", "annihilated"}
    BY DEF Init
  <2> QED  BY <2>1, <2>2, <2>3, <2>4 DEF TypeOK
<1>3. PlacesLead
  BY <1>1, EmptyLeads DEF Init, PlacesLead, QueueLeads
<1>4. Closed
  <2>1. Root \in Known
    BY <1>1 DEF Known, TypesIn
  <2> QED  BY <2>1 DEF Init, Closed, Looked
<1>5. AtHand
  BY DEF Init, AtHand
<1>6. Queued
  BY DEF Init, Queued, Uncounted
<1> QED  BY <1>2, <1>3, <1>4, <1>5, <1>6 DEF Inv

(* The scan and the field at hand.                                         *)
LEMMA ScanFacts ==
  ASSUME Inv, phase = "scan", current # <<>>
  PROVE  /\ scan \in Scan /\ scan.typ \in Types /\ scan.index \in Seq(Step)
         /\ LeadsTo(scan.index, scan.typ) /\ QueueLeads(Tail(current))
         /\ Tail(current) \in Seq(Scan)
         /\ TypesIn(current) = TypesIn(Tail(current)) \cup {scan.typ}
         /\ fields[scan.typ] \in Seq(Field) /\ Len(fields[scan.typ]) \in Nat
         /\ DOMAIN fields[scan.typ] = 1..Len(fields[scan.typ])
         /\ i \in Nat
<1>1. /\ scan \in Scan /\ Tail(current) \in Seq(Scan) /\ QueueLeads(Tail(current))
      /\ TypesIn(current) = TypesIn(Tail(current)) \cup {scan.typ}
      /\ LeadsTo(scan.index, scan.typ)
  BY TailFacts DEF Inv, TypeOK, PlacesLead, scan
<1>2. scan.typ \in Types /\ scan.index \in Seq(Step)
  BY <1>1 DEF Scan
<1>3. fields[scan.typ] \in Seq(Field)
  BY <1>2 DEF Inv, TypeOK
<1> QED  BY <1>1, <1>2, <1>3 DEF Inv, TypeOK

LEMMA FieldFacts ==
  ASSUME Inv, AtField
  PROVE  /\ phase = "scan" /\ current # <<>> /\ i > 0 /\ i + 1 \in Nat
         /\ scan.typ \in visited /\ f \in Field
         /\ Place \in Seq(Step) /\ LeadsTo(Place, f)
<1>1. phase = "scan" /\ current # <<>> /\ i \in DOMAIN fields[scan.typ]
  BY DEF AtField
<1>2. /\ scan.typ \in Types /\ scan.index \in Seq(Step) /\ LeadsTo(scan.index, scan.typ)
      /\ fields[scan.typ] \in Seq(Field) /\ i \in Nat
      /\ DOMAIN fields[scan.typ] = 1..Len(fields[scan.typ])
  BY <1>1, ScanFacts
<1>3. i > 0 /\ f \in Field
  BY <1>1, <1>2 DEF f
<1>4. scan.typ \in visited
  BY <1>1, <1>3 DEF Inv, AtHand
<1>5. Place \in Seq(Step) /\ LeadsTo(Place, f)
  BY <1>1, <1>2, StepLeads DEF Inv, TypeOK, Place, f
<1> QED  BY <1>1, <1>2, <1>3, <1>4, <1>5

LEMMA QuickInv ==
  ASSUME Inv, Quick
  PROVE  Inv'
<1>1. /\ fields' = fields /\ current' = current /\ next' = next /\ count' = count
      /\ nextCount' = nextCount /\ visited' = visited /\ i' = i
      /\ phase = "quick" /\ phase' \in {"done", "level"}
  BY DEF Quick, QuickMatch, QuickNone, QuickPass
<1>2. CASE QuickMatch
  <2>1. PICK k \in Matches(Root) : result' = <<[typ |-> Root, i |-> k]>>
    BY <1>2 DEF QuickMatch
  <2>2. k \in DOMAIN fields[Root] /\ fields[Root][k] = Matching /\ fields \in [Types -> Seq(Field)]
    BY DEF Matches, Inv, TypeOK
  <2>3. <<>> \in Seq(Step) /\ result' = Append(<<>>, [typ |-> Root, i |-> k])
    BY <2>1
  <2>4. LeadsTo(result', Matching)
    BY <2>2, <2>3, EmptyLeads, StepLeads
  <2>5. PlacesLead'
    BY <1>1, <2>4 DEF Inv, PlacesLead, QueueLeads, LeadsTo, Leads
  <2>6. phase' = "done" /\ ok' = TRUE
    BY <1>2 DEF QuickMatch
  <2> QED  BY <1>1, <2>5, <2>6 DEF Inv, TypeOK, AtHand, Closed, Queued, TypesIn
<1>3. CASE QuickNone \/ QuickPass
  <2>1. result' = result /\ ok' = ok
    BY <1>3 DEF QuickNone, QuickPass
  <2>2. PlacesLead'
    BY <1>1, <2>1 DEF Inv, PlacesLead, QueueLeads, LeadsTo, Leads
  <2>3. Closed'
    BY <1>1, <2>1 DEF Inv, Closed, Known, TypesIn, Looked
  <2> QED  BY <1>1, <2>1, <2>2, <2>3 DEF Inv, TypeOK, AtHand, Queued, TypesIn
<1> QED  BY <1>2, <1>3 DEF Quick

LEMMA LevelsInv ==
  ASSUME Inv, Levels
  PROVE  Inv'
<1>1. CASE NextLevel
  <2>1. /\ fields' = fields /\ current' = next /\ next' = <<>> /\ count' = nextCount
        /\ nextCount' = Uncounted /\ visited' = visited /\ i' = i /\ result' = result
        /\ ok' = ok /\ phase = "level" /\ phase' = "scan" /\ next # <<>>
    BY <1>1 DEF NextLevel
  <2>2. i = 0 /\ ~ok /\ current = <<>>
    BY <2>1 DEF Inv, AtHand
  <2>3. TypeOK'
    BY <2>1 DEF Inv, TypeOK, Uncounted
  <2>4. AtHand'
    BY <2>1, <2>2 DEF AtHand
  <2>5. PlacesLead'
    BY <2>1, <2>2 DEF Inv, PlacesLead, QueueLeads, LeadsTo, Leads
  <2>6. Known' = Known
    BY <2>1, <2>2 DEF Known, TypesIn
  <2>7. Closed'
    BY <2>1, <2>2, <2>6 DEF Inv, Closed, Looked
  <2>8. Queued'
    BY <2>1 DEF Queued, Uncounted
  <2> QED  BY <2>3, <2>4, <2>5, <2>7, <2>8 DEF Inv
<1>2. CASE NoMoreLevels \/ LevelDone
  <2>1. /\ fields' = fields /\ current' = current /\ next' = next /\ count' = count
        /\ nextCount' = nextCount /\ visited' = visited /\ i' = i /\ result' = result
        /\ ok' = ok /\ phase \in {"level", "scan"} /\ phase' \in {"level", "done"}
        /\ phase = "scan" => current = <<>>
        /\ phase' = "level" => ~ok /\ phase = "scan"
    BY <1>2 DEF NoMoreLevels, LevelDone
  <2>2. i = 0 /\ current = <<>>
    BY <2>1 DEF Inv, AtHand
  <2>3. TypeOK'
    BY <2>1 DEF Inv, TypeOK
  <2>4. AtHand'
    BY <2>1, <2>2 DEF AtHand
  <2>5. PlacesLead'
    BY <2>1 DEF Inv, PlacesLead, QueueLeads, LeadsTo, Leads
  <2>6. Closed'
    BY <2>1, <2>2 DEF Inv, Closed, Looked, Known, TypesIn
  <2>7. Queued'
    BY <2>1 DEF Inv, Queued, TypesIn
  <2> QED  BY <2>3, <2>4, <2>5, <2>6, <2>7 DEF Inv
<1> QED  BY <1>1, <1>2 DEF Levels

LEMMA ScansInv ==
  ASSUME Inv, Scans
  PROVE  Inv'
<1>1. /\ fields' = fields /\ next' = next /\ count' = count /\ nextCount' = nextCount
      /\ result' = result /\ ok' = ok /\ phase = "scan" /\ phase' = "scan"
      /\ current # <<>>
  BY DEF Scans, SkipScan, BeginScan, EndScan
<1>2. /\ scan \in Scan /\ scan.typ \in Types
      /\ QueueLeads(Tail(current)) /\ Tail(current) \in Seq(Scan)
      /\ TypesIn(current) = TypesIn(Tail(current)) \cup {scan.typ}
      /\ DOMAIN fields[scan.typ] = 1..Len(fields[scan.typ])
      /\ Len(fields[scan.typ]) \in Nat /\ i \in Nat
  BY <1>1, ScanFacts
<1>3. Queued'
  BY <1>1 DEF Inv, Queued, TypesIn
<1>4. CASE BeginScan
  <2>1. /\ current' = current /\ visited' = visited \cup {scan.typ} /\ i = 0 /\ i' = 1
        /\ scan.typ \notin visited /\ scan' = scan
    BY <1>4 DEF BeginScan, scan
  <2>2. TypeOK' /\ AtHand'
    BY <1>1, <1>2, <2>1 DEF Inv, TypeOK, AtHand
  <2>3. PlacesLead'
    BY <1>1, <2>1 DEF Inv, PlacesLead, QueueLeads, LeadsTo, Leads
  <2>4. Known' = Known
    <3>1. Known' = visited' \cup TypesIn(current) \cup TypesIn(next)
      BY <1>1, <2>1 DEF Known, TypesIn
    <3> QED  BY <3>1, <1>2, <2>1 DEF Known
  <2>5. ASSUME NEW t \in Types, NEW k \in DOMAIN fields[t], Looked(t, k)'
        PROVE  Looked(t, k)
    <3>1. t # scan.typ
      <4>1. SUFFICES ASSUME t = scan.typ  PROVE FALSE
        OBVIOUS
      <4>2. k < 1
        BY <1>1, <2>1, <2>5, <4>1 DEF Looked
      <4>3. k \in 1..Len(fields[scan.typ])
        BY <1>2, <4>1
      <4> QED  BY <4>2, <4>3
    <3> QED  BY <1>1, <2>1, <2>5, <3>1 DEF Looked
  <2>6. Closed'
    BY <1>1, <2>1, <2>4, <2>5 DEF Inv, Closed
  <2> QED  BY <1>3, <2>2, <2>3, <2>6 DEF Inv
<1>5. CASE SkipScan \/ EndScan
  <2>1. /\ current' = Tail(current) /\ visited' = visited /\ i' = 0
        /\ scan.typ \in visited
        /\ i = 0 \/ i > Len(fields[scan.typ])
    <3>1. CASE SkipScan
      BY <3>1 DEF SkipScan
    <3>2. CASE EndScan
      <4>1. current' = Tail(current) /\ visited' = visited /\ i' = 0 /\ i > Len(fields[scan.typ])
        BY <3>2 DEF EndScan
      <4>2. i > 0
        BY <1>2, <4>1
      <4> QED  BY <1>1, <4>1, <4>2 DEF Inv, AtHand
    <3> QED  BY <1>5, <3>1, <3>2
  <2>2. TypeOK' /\ AtHand'
    BY <1>1, <1>2, <2>1 DEF Inv, TypeOK, AtHand
  <2>3. PlacesLead'
    <3>1. QueueLeads(current)'
      BY <1>1, <1>2, <2>1 DEF QueueLeads, LeadsTo, Leads
    <3>2. QueueLeads(next)' /\ (ok => LeadsTo(result, Matching))'
      BY <1>1 DEF Inv, PlacesLead, QueueLeads, LeadsTo, Leads
    <3> QED  BY <3>1, <3>2 DEF PlacesLead
  <2>4. Known' = Known
    <3>1. Known' = visited \cup TypesIn(Tail(current)) \cup TypesIn(next)
      BY <1>1, <2>1 DEF Known, TypesIn
    <3> QED  BY <3>1, <1>2, <2>1 DEF Known
  <2>5. ASSUME NEW t \in Types, NEW k \in DOMAIN fields[t], Looked(t, k)'
        PROVE  Looked(t, k)
    <3>1. t \in visited
      BY <2>1, <2>5 DEF Looked
    <3>2. ASSUME i > 0, t = scan.typ  PROVE k < i
      <4>1. k \in 1..Len(fields[scan.typ]) /\ i > Len(fields[scan.typ])
        BY <1>2, <2>1, <3>2
      <4> QED  BY <1>2, <4>1
    <3> QED  BY <3>1, <3>2 DEF Looked
  <2>6. Closed'
    BY <1>1, <2>1, <2>4, <2>5 DEF Inv, Closed
  <2> QED  BY <1>3, <2>2, <2>3, <2>6 DEF Inv
<1> QED  BY <1>4, <1>5 DEF Scans

LEMMA FieldsInv ==
  ASSUME Inv, Fields
  PROVE  Inv'
<1>1. /\ fields' = fields /\ current' = current /\ visited' = visited /\ count' = count
      /\ AtField
  BY DEF Fields, Annihilate, FieldMatches, SkipField, QueueAgain, QueueFirst
<1>2. /\ phase = "scan" /\ current # <<>> /\ i \in Nat /\ i > 0 /\ i + 1 \in Nat
      /\ scan.typ \in visited /\ scan.typ \in Types /\ f \in Field
      /\ Place \in Seq(Step) /\ LeadsTo(Place, f)
      /\ DOMAIN fields[scan.typ] = 1..Len(fields[scan.typ])
      /\ Len(fields[scan.typ]) \in Nat /\ scan' = scan
  BY <1>1, FieldFacts, ScanFacts DEF scan
<1>3. QueueLeads(current)'
  BY <1>1 DEF Inv, PlacesLead, QueueLeads, LeadsTo, Leads
<1>4. CASE Annihilate \/ FieldMatches
  <2>1. next' = next /\ nextCount' = nextCount
    BY <1>4 DEF Annihilate, FieldMatches
  <2>2. \/ ok' = FALSE /\ phase' = "annihilated" /\ i' = i
        \/ ok' = TRUE /\ result' = Place /\ phase' = "scan" /\ i' = i + 1 /\ f = Matching
    BY <1>2, <1>4 DEF Annihilate, FieldMatches
  <2>3. TypeOK' /\ AtHand'
    BY <1>1, <1>2, <2>1, <2>2 DEF Inv, TypeOK, AtHand
  <2>4. PlacesLead'
    <3>1. QueueLeads(next)'
      BY <1>1, <2>1 DEF Inv, PlacesLead, QueueLeads, LeadsTo, Leads
    <3>2. (ok => LeadsTo(result, Matching))'
      BY <1>1, <1>2, <2>2 DEF LeadsTo, Leads
    <3> QED  BY <1>3, <3>1, <3>2 DEF PlacesLead
  <2>5. Closed'
    BY <2>2 DEF Closed
  <2>6. Queued'
    BY <2>1 DEF Inv, Queued, TypesIn
  <2> QED  BY <2>3, <2>4, <2>5, <2>6 DEF Inv
<1>5. CASE SkipField \/ QueueAgain \/ QueueFirst
  <2>1. /\ i' = i + 1 /\ result' = result /\ ok' = ok /\ phase' = "scan" /\ f # Matching
    BY <1>2, <1>5 DEF SkipField, QueueAgain, QueueFirst
  <2>2. /\ next' \in Seq(Scan) /\ QueueLeads(next') /\ nextCount' \in [Types -> 0..2]
        /\ TypesIn(next) \subseteq TypesIn(next')
        /\ \A t \in Types : nextCount'[t] > 0 => t \in TypesIn(next')
        /\ ~ok /\ f \in Types => f \in TypesIn(next')
    <3>0. /\ next \in Seq(Scan) /\ QueueLeads(next) /\ nextCount \in [Types -> 0..2]
          /\ \A t \in Types : nextCount[t] > 0 => t \in TypesIn(next)
      BY DEF Inv, TypeOK, PlacesLead, Queued
    <3>1. CASE SkipField
      BY <3>0, <3>1 DEF SkipField
    <3>2. CASE QueueAgain
      BY <3>0, <3>2 DEF QueueAgain
    <3>3. CASE QueueFirst
      <4> DEFINE e == [typ |-> f, index |-> Place]
      <4>1. f \in Types /\ next' = Append(next, e)
        BY <3>3 DEF QueueFirst
      <4>2. e \in Scan /\ LeadsTo(e.index, e.typ) /\ e.typ = f
        BY <1>2, <4>1 DEF Scan
      <4> HIDE DEF e
      <4>3. /\ next' \in Seq(Scan) /\ QueueLeads(next')
            /\ TypesIn(next') = TypesIn(next) \cup {f}
        BY <3>0, <4>1, <4>2, AppendFacts
      <4>4. \E n \in {1, 2} : nextCount' = [nextCount EXCEPT ![f] = n]
        BY <3>3 DEF QueueFirst
      <4>5. /\ nextCount' \in [Types -> 0..2]
            /\ \A t \in Types : nextCount'[t] > 0 => t = f \/ nextCount[t] > 0
        BY <3>0, <4>1, <4>4
      <4> QED  BY <3>0, <4>1, <4>3, <4>5
    <3> QED  BY <1>5, <3>1, <3>2, <3>3
  <2>3. TypeOK' /\ AtHand'
    BY <1>1, <1>2, <2>1, <2>2 DEF Inv, TypeOK, AtHand
  <2>4. PlacesLead'
    <3>1. QueueLeads(next)'
      BY <1>1, <2>2 DEF QueueLeads, LeadsTo, Leads
    <3>2. (ok => LeadsTo(result, Matching))'
      BY <1>1, <2>1 DEF Inv, PlacesLead, LeadsTo, Leads
    <3> QED  BY <1>3, <3>1, <3>2 DEF PlacesLead
  <2>5. Known \subseteq Known' /\ (~ok /\ f \in Types => f \in Known')
    <3>1. Known' = visited \cup TypesIn(current) \cup TypesIn(next')
      BY <1>1 DEF Known, TypesIn
    <3> QED  BY <2>2, <3>1 DEF Known
  <2>6. ASSUME NEW t \in Types, NEW k \in DOMAIN fields[t], Looked(t, k)'
        PROVE  Looked(t, k) \/ (t = scan.typ /\ k = i)
    <3>1. t \in visited /\ (t = scan.typ => k < i + 1)
      BY <1>1, <1>2, <2>1, <2>6 DEF Looked
    <3>2. t = scan.typ => k \in Nat
      BY <1>2
    <3> QED  BY <1>2, <3>1, <3>2 DEF Looked
  <2>7. Closed'
    <3>1. SUFFICES ASSUME ~ok  PROVE Closed'
      BY <2>1 DEF Closed
    <3>2. ASSUME NEW t \in Types, NEW k \in DOMAIN fields[t], Looked(t, k)'
          PROVE  /\ fields[t][k] # Matching
                 /\ fields[t][k] \in Types => fields[t][k] \in Known'
      <4>1. CASE Looked(t, k)
        BY <1>2, <2>5, <3>1, <4>1 DEF Inv, Closed
      <4>2. CASE t = scan.typ /\ k = i
        BY <2>1, <2>5, <3>1, <4>2 DEF f
      <4> QED  BY <2>6, <3>2, <4>1, <4>2
    <3>3. Root \in Known'
      BY <1>2, <2>5, <3>1 DEF Inv, Closed
    <3> QED  BY <1>1, <3>2, <3>3 DEF Closed
  <2>8. Queued'
    BY <2>2 DEF Queued, TypesIn
  <2> QED  BY <2>3, <2>4, <2>7, <2>8 DEF Inv
<1> QED  BY <1>4, <1>5 DEF Fields

LEMMA StepInv ==
  ASSUME Inv, [Next]_vars
  PROVE  Inv'
<1>1. CASE UNCHANGED vars
  BY <1>1 DEF vars, Inv, TypeOK, AtHand, scan, PlacesLead, QueueLeads, LeadsTo, Leads,
              Closed, Known, TypesIn, Looked, Queued
<1> QED  BY <1>1, QuickInv, LevelsInv, ScansInv, FieldsInv DEF Next

(* At every moment of the search, queued places lead to what is queued,    *)
(* and nothing that visited types embed has been forgotten.                *)
THEOREM Invariance == Spec => []Inv
BY InitInv, StepInv, PTL DEF Spec

-----------------------------------------------------------------------------
(* The answer                                                              *)

(* A set that holds the root and what its members embed holds every type   *)
(* that is embedded at any depth.                                          *)
LEMMA ReachableIn ==
  ASSUME NEW S \in SUBSET Types, Root \in S,
         \A u \in S : \A k \in Embedded(u) : fields[u][k] \in S,
         NEW t \in Types, Reachable(t)
  PROVE  t \in S
BY DEF Reachable

(* When nothing is queued any more, the visited types are such a set.      *)
LEMMA DoneEmpty ==
  ASSUME Inv, NoMoreLevels, NEW t \in Types, Reachable(t)
  PROVE  Matches(t) = {}
<1>1. phase = "level" /\ next = <<>> /\ current = <<>> /\ ~ok /\ visited \subseteq Types
  BY DEF NoMoreLevels, Inv, AtHand, TypeOK
<1>2. Known = visited
  BY <1>1 DEF Known, TypesIn
<1>3. \A u \in visited : \A k \in DOMAIN fields[u] :
        fields[u][k] # Matching /\ (fields[u][k] \in Types => fields[u][k] \in visited)
  BY <1>1, <1>2 DEF Inv, Closed, Looked
<1>4. Root \in visited
  BY <1>1, <1>2 DEF Inv, Closed
<1>5. t \in visited
  BY <1>1, <1>3, <1>4, ReachableIn DEF Embedded
<1> QED  BY <1>3, <1>5 DEF Matches

LEMMA StepJustified ==
  ASSUME Inv, Justified, [Next]_vars
  PROVE  Justified'
<1>1. Inv'
  BY StepInv
<1>2. (phase = "done" /\ ok => LeadsTo(result, Matching))'
  BY <1>1 DEF Inv, PlacesLead
<1>3. fields' = fields
  BY DEF Next, Quick, QuickMatch, QuickNone, QuickPass, Levels, NextLevel, NoMoreLevels,
         LevelDone, Scans, SkipScan, BeginScan, EndScan, Fields, Annihilate, FieldMatches,
         SkipField, QueueAgain, QueueFirst, vars
<1>4. ASSUME phase' = "done", ~ok', NEW t \in Types, Reachable(t)
      PROVE  Matches(t) = {}
  <2>1. CASE NoMoreLevels
    BY <1>4, <2>1, DoneEmpty
  <2>2. CASE QuickNone
    <3>1. Matches(Root) = {} /\ Embedded(Root) = {}
      BY <2>2 DEF QuickNone
    <3>2. t \in {Root}
      BY <1>4, <3>1, ReachableIn
    <3> QED  BY <3>1, <3>2
  <2>3. CASE UNCHANGED vars
    BY <1>4, <2>3 DEF vars, Justified
  <2>4. CASE QuickMatch \/ QuickPass \/ NextLevel \/ LevelDone \/ Scans \/ Fields
    BY <1>4, <2>4 DEF QuickMatch, QuickPass, NextLevel, LevelDone, Scans, SkipScan,
         BeginScan, EndScan, Fields, Annihilate, FieldMatches, SkipField, QueueAgain, QueueFirst,
         AtField
  <2> QED  BY <2>1, <2>2, <2>3, <2>4 DEF Next, Quick, Levels
<1>5. (phase = "done" /\ ~ok => \A t \in Types : Reachable(t) => Matches(t) = {})'
  BY <1>3, <1>4 DEF Reachable, Matches, Embedded
<1> QED  BY <1>2, <1>5 DEF Justified

(* What FieldByName finds is a matching field at the place it gives, and   *)
(* it finds nothing, other than by annihilation, only when no embedded     *)
(* struct at any depth has a matching field.                               *)
THEOREM AnswersJustified == Spec => []Justified
<1>1. Init => Justified
  BY DEF Init, Justified
<1> QED  BY <1>1, InitInv, StepInv, StepJustified, PTL DEF Spec
-----------------------------------------------------------------------------
(* Induction, for the depths                                               *)

(* A set of numbers that is not empty has a least one.                     *)
LEMMA LeastNumber ==
  ASSUME NEW T \in SUBSET Nat, T # {}
  PROVE  \E x \in T : \A y \in T : x <= y
<1> DEFINE R == {ss \in Nat \X Nat : ss[1] < ss[2]}
<1>1. IsWellFoundedOn(R, Nat)
  BY NatLessThanWellFounded DEF OpToRel
<1> HIDE DEF R
<1>2. PICK x \in T : \A y \in T : ~(<<y, x>> \in R)
  BY <1>1, WFMin
<1>3. ASSUME NEW y \in T, y < x  PROVE <<y, x>> \in R
  BY <1>3 DEF R
<1>4. \A y \in T : ~(y < x)
  BY <1>2, <1>3
<1> QED  BY <1>4

LEMMA Induction ==
  ASSUME NEW S, 0 \in S, \A n \in Nat : n \in S => n + 1 \in S
  PROVE  \A n \in Nat : n \in S
<1> SUFFICES ASSUME NEW n \in Nat, n \notin S  PROVE FALSE
  OBVIOUS
<1> DEFINE T == {k \in Nat : k \notin S}
<1>1. PICK x \in T : \A y \in T : x <= y
  <2>1. n \in T
    OBVIOUS
  <2> QED  BY <2>1, LeastNumber
<1>2. x # 0
  OBVIOUS
<1>3. x - 1 \in Nat /\ x - 1 \notin T
  BY <1>1, <1>2
<1> QED  BY <1>1, <1>3

-----------------------------------------------------------------------------
(* The places at a depth, given those one level up.                        *)
PlacesOf(g, d) ==
  IF d = 0 THEN {<<>>}
  ELSE UNION {{Append(p, [typ |-> End(p), i |-> k]) : k \in Embedded(End(p))} :
                p \in g[d - 1]}

LEMMA PlacesDef == \A d \in Nat : Places[d] = PlacesOf(Places, d)
<1> DEFINE Solves(g, n) == \A d \in 0..n : g[d] = PlacesOf(g, d)
<1>1. ASSUME NEW g, NEW h, NEW d \in Nat, g[d] = h[d]
      PROVE  PlacesOf(g, d + 1) = PlacesOf(h, d + 1)
  <2>1. (d + 1) - 1 = d /\ d + 1 # 0
    OBVIOUS
  <2> QED  BY <1>1, <2>1 DEF PlacesOf
<1>2. \A d \in Nat : \A g, h, n, m : n \in Nat /\ m \in Nat /\ d <= n /\ d <= m /\ Solves(g, n) /\ Solves(h, m)
                       => g[d] = h[d]
  <2> DEFINE S == {d \in Nat : \A g, h, n, m :
                     n \in Nat /\ m \in Nat /\ d <= n /\ d <= m /\ Solves(g, n) /\ Solves(h, m)
                       => g[d] = h[d]}
  <2>1. 0 \in S
    <3> SUFFICES ASSUME NEW g, NEW h, NEW n \in Nat, NEW m \in Nat, Solves(g, n), Solves(h, m)
                 PROVE  g[0] = h[0]
      OBVIOUS
    <3>1. 0 \in 0..n /\ 0 \in 0..m
      OBVIOUS
    <3>2. g[0] = PlacesOf(g, 0) /\ h[0] = PlacesOf(h, 0)
      BY <3>1
    <3> QED  BY <3>2 DEF PlacesOf
  <2>2. ASSUME NEW d \in Nat, d \in S  PROVE d + 1 \in S
    <3> SUFFICES ASSUME NEW g, NEW h, NEW n \in Nat, NEW m \in Nat, d + 1 <= n, d + 1 <= m,
                        Solves(g, n), Solves(h, m)
                 PROVE  g[d + 1] = h[d + 1]
      OBVIOUS
    <3>1. d <= n /\ d <= m
      OBVIOUS
    <3>2. g[d] = h[d]
      BY <2>2, <3>1
    <3>3. d + 1 \in 0..n /\ d + 1 \in 0..m
      OBVIOUS
    <3>4. g[d + 1] = PlacesOf(g, d + 1) /\ h[d + 1] = PlacesOf(h, d + 1)
      BY <3>3
    <3> QED  BY <1>1, <3>2, <3>4
  <2> HIDE DEF S
  <2>3. \A d \in Nat : d \in S
    BY <2>1, <2>2, Induction
  <2> QED  BY <2>3 DEF S
<1>3. \A n \in Nat : \E g : Solves(g, n)
  <2> DEFINE S == {n \in Nat : \E g : Solves(g, n)}
  <2>1. 0 \in S
    <3> DEFINE g == [d \in 0..0 |-> {<<>>}]
    <3>1. Solves(g, 0)
      BY DEF PlacesOf
    <3> QED  BY <3>1
  <2>2. ASSUME NEW n \in Nat, n \in S  PROVE n + 1 \in S
    <3>1. PICK g : Solves(g, n)
      BY <2>2
    <3> DEFINE h == [d \in 0..(n + 1) |-> IF d = n + 1 THEN PlacesOf(g, n + 1) ELSE g[d]]
    <3>2. /\ \A d \in 0..n : h[d] = g[d]
          /\ h[n + 1] = PlacesOf(g, n + 1)
      OBVIOUS
    <3> HIDE DEF h
    <3>3. ASSUME NEW d \in 0..(n + 1)  PROVE h[d] = PlacesOf(h, d)
      <4>1. CASE d = 0
        <5>1. 0 \in 0..n
          OBVIOUS
        <5> QED  BY <3>1, <3>2, <4>1, <5>1 DEF PlacesOf
      <4>2. CASE d # 0
        <5>1. d - 1 \in Nat /\ d - 1 \in 0..n /\ (d - 1) + 1 = d
          BY <4>2
        <5>2. PlacesOf(h, d) = PlacesOf(g, d)
          BY <1>1, <3>2, <5>1
        <5>3. h[d] = PlacesOf(g, d)
          <6>1. CASE d = n + 1
            BY <3>2, <6>1
          <6>2. CASE d # n + 1
            <7>1. d \in 0..n
              BY <6>2
            <7> QED  BY <3>1, <3>2, <7>1
          <6> QED  BY <6>1, <6>2
        <5> QED  BY <5>2, <5>3
      <4> QED  BY <4>1, <4>2
    <3>4. \E x : Solves(x, n + 1)
      BY <3>3
    <3> QED  BY <3>4
  <2> HIDE DEF S
  <2>3. \A n \in Nat : n \in S
    BY <2>1, <2>2, Induction
  <2> QED  BY <2>3 DEF S
<1> DEFINE G == [d \in Nat |-> (CHOOSE g : Solves(g, d))[d]]
<1>4. \A d \in Nat : \E g : Solves(g, d) /\ G[d] = g[d]
  <2> SUFFICES ASSUME NEW d \in Nat  PROVE \E g : Solves(g, d) /\ G[d] = g[d]
    OBVIOUS
  <2> DEFINE x == CHOOSE g : Solves(g, d)
  <2>1. Solves(x, d)
    BY <1>3
  <2>2. G[d] = x[d]
    OBVIOUS
  <2> HIDE DEF x, G
  <2> QED  BY <2>1, <2>2
<1> HIDE DEF G
<1>5. ASSUME NEW d \in Nat  PROVE G[d] = PlacesOf(G, d)
  <2>1. PICK g : Solves(g, d) /\ G[d] = g[d]
    BY <1>4
  <2>2. g[d] = PlacesOf(g, d)
    BY <2>1
  <2>3. CASE d = 0
    BY <2>1, <2>2, <2>3 DEF PlacesOf
  <2>4. CASE d # 0
    <3>1. d - 1 \in Nat /\ (d - 1) + 1 = d
      BY <2>4
    <3>2. PICK h : Solves(h, d - 1) /\ G[d - 1] = h[d - 1]
      BY <1>4, <3>1
    <3>3. g[d - 1] = h[d - 1]
      <4>1. d - 1 <= d /\ d - 1 <= d - 1
        BY <3>1
      <4> HIDE DEF Solves
      <4> QED  BY <1>2, <2>1, <3>1, <3>2, <4>1
    <3>4. PlacesOf(g, d) = PlacesOf(G, d)
      BY <1>1, <3>1, <3>2, <3>3
    <3> QED  BY <2>1, <2>2, <3>4
  <2> QED  BY <2>3, <2>4
<1>6. G = [d \in Nat |-> PlacesOf(G, d)]
  <2>1. G = [d \in Nat |-> G[d]]
    BY DEF G
  <2> QED  BY <1>5, <2>1
<1>7. \E g : g = [d \in Nat |-> PlacesOf(g, d)]
  BY <1>6
<1>8. Places = [d \in Nat |-> PlacesOf(Places, d)]
  BY <1>7, Zenon DEF Places, PlacesOf
<1> QED  BY <1>8

-----------------------------------------------------------------------------
(* What is embedded at each depth                                          *)

(* The place of the field k of the struct at p; the types that are         *)
(* embedded at depth d, and of them those that are at no lesser depth.     *)
Onto(p, k)  == Append(p, [typ |-> End(p), i |-> k])
Found(t, d) == \E p \in Places[d] : End(p) = t
Before(d)   == {t \in Types : \E e \in 0..(d - 1) : Found(t, e)}
New(d)      == {t \in Types : Found(t, d)} \ Before(d)

Ways(t, d) == {p \in Places[d] : End(p) = t}
More(S)    == \E p, q \in S : p # q

NoneBefore(d) == \A e \in 0..(d - 1) : Candidates(e) = {}

-----------------------------------------------------------------------------
(* The search, level by level                                              *)

(* A queue of the level d: places at that depth, each type once.           *)
AtDepth(q, d) ==
  /\ \A n \in DOMAIN q : q[n].index \in Places[d] /\ End(q[n].index) = q[n].typ
  /\ \A m, n \in DOMAIN q : q[m].typ = q[n].typ => m = n

(* The counts c of the types that are first met at the level d.            *)
Counting(c, d) == \A t \in New(d) : c[t] > 1 <=> More(Ways(t, d))

(* Before the level d: all types that are first met there are queued, and  *)
(* those met before are visited.                                           *)
Ready(d) ==
  /\ AtDepth(next, d)
  /\ visited = Before(d)
  /\ New(d) \subseteq TypesIn(next)
  /\ Counting(nextCount, d)
  /\ NoneBefore(d)
  /\ next # <<>> => Cardinality(visited) >= d

(* The places one level further that the level's scans have come to.       *)
Taken(t, d) ==
  {q \in Ways(t, d + 1) :
     \E p \in Places[d] : \E k \in Embedded(End(p)) :
       End(p) \in New(d) /\ Looked(End(p), k) /\ q = Onto(p, k)}

Collecting(d) ==
  \A t \in Types : /\ nextCount[t] > 0 <=> Taken(t, d) # {}
                   /\ nextCount[t] > 1 <=> More(Taken(t, d))
                   /\ t \in TypesIn(next) => nextCount[t] > 0

(* The match that was found is the only one so far.                        *)
OnlyMatch(d) ==
  \E p \in Places[d] : \E k \in Matches(End(p)) :
    /\ result = Onto(p, k) /\ End(p) \in New(d) /\ Looked(End(p), k)
    /\ ~More(Ways(End(p), d))
    /\ \A t \in New(d) : \A l \in Matches(t) : Looked(t, l) => t = End(p) /\ l = k

Scanning(d) ==
  /\ AtDepth(current, d) /\ AtDepth(next, d + 1)
  /\ Before(d) \subseteq visited /\ visited \subseteq Before(d + 1)
  /\ New(d) \subseteq visited \cup TypesIn(current)
  /\ \A n \in DOMAIN current :
       IF n = 1 /\ i > 0 THEN current[n].typ \notin Before(d)
       ELSE current[n].typ \in visited => current[n].typ \in Before(d)
  /\ Counting(count, d)
  /\ NoneBefore(d)
  /\ Cardinality(visited) >= d
  /\ i > 0 \/ next # <<>> \/ ok => Cardinality(visited) >= d + 1
  /\ IF ok THEN OnlyMatch(d) ELSE Collecting(d)

LevelInv ==
  /\ phase = "quick" => Ready(0) /\ \A k, l \in Matches(Root) : k = l
  /\ phase = "level" => \E d \in Nat : Ready(d)
  /\ phase = "scan" => \E d \in Nat : Scanning(d)
  /\ LanguageRule

LEMMA NextPlaces ==
  /\ Places[0] = {<<>>}
  /\ \A d \in Nat : Places[d + 1] = UNION {{Onto(p, k) : k \in Embedded(End(p))} : p \in Places[d]}
<1>1. Places[0] = {<<>>}
  BY PlacesDef DEF PlacesOf
<1>2. ASSUME NEW d \in Nat
      PROVE  Places[d + 1] = UNION {{Onto(p, k) : k \in Embedded(End(p))} : p \in Places[d]}
  <2>1. Places[d + 1] = PlacesOf(Places, d + 1) /\ d + 1 # 0 /\ (d + 1) - 1 = d
    BY PlacesDef
  <2> QED  BY <2>1 DEF PlacesOf, Onto
<1> QED  BY <1>1, <1>2

LEMMA OntoFacts ==
  ASSUME NEW p \in Seq(Step), NEW t \in Types, End(p) = t, NEW k \in Nat \ {0}
  PROVE  /\ Onto(p, k) \in Seq(Step) /\ Len(Onto(p, k)) = Len(p) + 1
         /\ End(Onto(p, k)) = fields[t][k]
<1> DEFINE e == [typ |-> t, i |-> k]
           q == Append(p, e)
<1>1. e \in Step /\ e.typ = t /\ e.i = k
  BY DEF Step
<1> HIDE DEF e
<1>2. q \in Seq(Step) /\ Len(q) = Len(p) + 1 /\ q[Len(q)] = e /\ q # <<>>
  BY <1>1
<1> HIDE DEF q
<1>3. End(q) = fields[t][k]
  BY <1>1, <1>2 DEF End
<1>4. Onto(p, k) = q
  BY DEF Onto, q, e
<1> QED  BY <1>2, <1>3, <1>4

LEMMA OntoInjective ==
  ASSUME NEW p \in Seq(Step), NEW q \in Seq(Step), End(p) \in Types, End(q) \in Types,
         NEW k \in Nat \ {0}, NEW l \in Nat \ {0}, Onto(p, k) = Onto(q, l)
  PROVE  p = q /\ k = l
<1> DEFINE e == [typ |-> End(p), i |-> k]
           g == [typ |-> End(q), i |-> l]
           x == Append(p, e)
           y == Append(q, g)
<1>1. e \in Step /\ g \in Step /\ e.i = k /\ g.i = l
  BY DEF Step
<1>2. x = y
  BY DEF Onto
<1> HIDE DEF e, g
<1>3. /\ x \in Seq(Step) /\ Len(x) = Len(p) + 1 /\ x[Len(p) + 1] = e
      /\ \A n \in 1..Len(p) : x[n] = p[n]
  BY <1>1
<1>4. /\ y \in Seq(Step) /\ Len(y) = Len(q) + 1 /\ y[Len(q) + 1] = g
      /\ \A n \in 1..Len(q) : y[n] = q[n]
  BY <1>1
<1> HIDE DEF x, y
<1>5. Len(p) \in Nat /\ Len(q) \in Nat
  OBVIOUS
<1>6. Len(p) = Len(q)
  BY <1>2, <1>3, <1>4, <1>5
<1>7. e = g
  BY <1>2, <1>3, <1>4, <1>6
<1>8. \A n \in 1..Len(p) : p[n] = q[n]
  BY <1>2, <1>3, <1>4, <1>6
<1>9. p = q
  BY <1>6, <1>8
<1> QED  BY <1>1, <1>7, <1>9

(* Programs have places of embedded structs at all depths.                 *)
LEMMA EmbeddedFacts ==
  ASSUME fields \in [Types -> Seq(Field)], NEW t \in Types
  PROVE  /\ DOMAIN fields[t] = 1..Len(fields[t]) /\ Len(fields[t]) \in Nat
         /\ \A k \in Embedded(t) : k \in Nat \ {0} /\ k \in DOMAIN fields[t] /\ fields[t][k] \in Types
         /\ \A k \in Matches(t) : k \in Nat \ {0} /\ k \in DOMAIN fields[t] /\ fields[t][k] = Matching
         /\ IsFiniteSet(Embedded(t))
<1>1. DOMAIN fields[t] = 1..Len(fields[t]) /\ Len(fields[t]) \in Nat
  <2>1. fields[t] \in Seq(Field)
    OBVIOUS
  <2> QED  BY <2>1
<1>2. \A k \in DOMAIN fields[t] : k \in Nat \ {0}
  BY <1>1
<1>3. IsFiniteSet(Embedded(t))
  <2>1. IsFiniteSet(1..Len(fields[t]))
    BY <1>1, FS_Interval
  <2>2. Embedded(t) \in SUBSET (1..Len(fields[t]))
    BY <1>1 DEF Embedded
  <2> QED  BY <2>1, <2>2, FS_Subset
<1> QED  BY <1>1, <1>2, <1>3 DEF Embedded, Matches

LEMMA PlaceFacts ==
  ASSUME fields \in [Types -> Seq(Field)], NEW d \in Nat
  PROVE  \A p \in Places[d] : p \in Seq(Step) /\ Len(p) = d /\ End(p) \in Types
<1> DEFINE Good(n) == \A p \in Places[n] : p \in Seq(Step) /\ Len(p) = n /\ End(p) \in Types
           S == {n \in Nat : Good(n)}
<1>1. 0 \in S
  <2>1. Places[0] = {<<>>} /\ Root \in Types
    BY NextPlaces, TypesAssumption
  <2>2. <<>> \in Seq(Step) /\ Len(<<>>) = 0 /\ End(<<>>) = Root
    BY DEF End
  <2>3. Good(0)
    BY <2>1, <2>2
  <2> HIDE DEF Good
  <2> QED  BY <2>3
<1>2. ASSUME NEW n \in Nat, n \in S  PROVE n + 1 \in S
  <2> SUFFICES ASSUME NEW q \in Places[n + 1]
               PROVE  q \in Seq(Step) /\ Len(q) = n + 1 /\ End(q) \in Types
    OBVIOUS
  <2>1. PICK p \in Places[n] : \E k \in Embedded(End(p)) : q = Onto(p, k)
    BY NextPlaces
  <2>2. PICK k \in Embedded(End(p)) : q = Onto(p, k)
    BY <2>1
  <2>3. p \in Seq(Step) /\ Len(p) = n /\ End(p) \in Types
    BY <1>2
  <2>4. k \in Nat \ {0} /\ fields[End(p)][k] \in Types
    BY <2>3, EmbeddedFacts
  <2> QED  BY <2>2, <2>3, <2>4, OntoFacts
<1> HIDE DEF S
<1>3. \A n \in Nat : n \in S
  BY <1>1, <1>2, Induction
<1> QED  BY <1>3 DEF S

LEMMA PlacesFinite ==
  ASSUME fields \in [Types -> Seq(Field)], NEW d \in Nat
  PROVE  IsFiniteSet(Places[d])
<1> DEFINE S == {n \in Nat : IsFiniteSet(Places[n])}
<1>1. 0 \in S
  BY NextPlaces, FS_Singleton
<1>2. ASSUME NEW n \in Nat, n \in S  PROVE n + 1 \in S
  <2> DEFINE A(p) == {Onto(p, k) : k \in Embedded(End(p))}
             U == {A(p) : p \in Places[n]}
  <2>1. IsFiniteSet(U)
    <3> DEFINE h == [p \in Places[n] |-> A(p)]
    <3>1. h \in [Places[n] -> U] /\ \A u \in U : \E p \in Places[n] : h[p] = u
      OBVIOUS
    <3> HIDE DEF h, U
    <3>2. h \in Surjection(Places[n], U)
      BY <3>1 DEF Surjection
    <3> QED  BY <1>2, <3>2, FS_Surjection
  <2>2. ASSUME NEW T \in U  PROVE IsFiniteSet(T)
    <3>1. PICK p \in Places[n] : T = A(p)
      OBVIOUS
    <3> DEFINE h == [k \in Embedded(End(p)) |-> Onto(p, k)]
    <3>2. h \in [Embedded(End(p)) -> T] /\ \A u \in T : \E k \in Embedded(End(p)) : h[k] = u
      BY <3>1
    <3>3. IsFiniteSet(Embedded(End(p)))
      BY PlaceFacts, EmbeddedFacts
    <3> HIDE DEF h, U
    <3>4. h \in Surjection(Embedded(End(p)), T)
      BY <3>2 DEF Surjection
    <3> QED  BY <3>3, <3>4, FS_Surjection
  <2>3. Places[n + 1] = UNION U
    BY NextPlaces
  <2> HIDE DEF U
  <2>4. IsFiniteSet(UNION U)
    BY <2>1, <2>2, FS_UNION
  <2>5. IsFiniteSet(Places[n + 1])
    BY <2>3, <2>4
  <2> QED  BY <2>5
<1> HIDE DEF S
<1>3. \A n \in Nat : n \in S
  BY <1>1, <1>2, Induction
<1> QED  BY <1>3 DEF S

LEMMA SamePlaces ==
  ASSUME fields' = fields
  PROVE  /\ Places' = Places
         /\ \A p : End(p)' = End(p)
         /\ \A t, d : (Found(t, d)' <=> Found(t, d)) /\ Ways(t, d)' = Ways(t, d)
         /\ \A d : /\ Before(d)' = Before(d) /\ New(d)' = New(d)
                   /\ Candidates(d)' = Candidates(d)
                   /\ NoneBefore(d)' <=> NoneBefore(d)
         /\ \A t : Matches(t)' = Matches(t) /\ Embedded(t)' = Embedded(t)
         /\ \A p, k : Onto(p, k)' = Onto(p, k)
         /\ Selected' = Selected
<1>1. Places' = Places
  BY DEF Places, End, Embedded
<1>2. ASSUME NEW p  PROVE End(p)' = End(p)
  BY DEF End
<1>3. ASSUME NEW t  PROVE Matches(t)' = Matches(t) /\ Embedded(t)' = Embedded(t)
  BY DEF Matches, Embedded
<1>4. ASSUME NEW t, NEW d
      PROVE  (Found(t, d)' <=> Found(t, d)) /\ Ways(t, d)' = Ways(t, d)
  BY <1>1 DEF Found, Ways, End
<1>5. ASSUME NEW d  PROVE Before(d)' = Before(d)
  BY <1>1 DEF Before, Found, End
<1>6. ASSUME NEW d  PROVE New(d)' = New(d)
  BY <1>4, <1>5 DEF New, Found, End
<1>7. ASSUME NEW p, NEW k  PROVE Onto(p, k)' = Onto(p, k)
  BY DEF Onto, End
<1>8. ASSUME NEW d  PROVE Candidates(d)' = Candidates(d)
  BY <1>1 DEF Candidates, Matches, End
<1>9. ASSUME NEW d  PROVE NoneBefore(d)' <=> NoneBefore(d)
  BY <1>1 DEF NoneBefore, Candidates, Matches, End
<1>10. Selected' = Selected
  BY <1>1 DEF Selected, Candidates, Matches, End
<1> QED  BY <1>1, <1>2, <1>3, <1>4, <1>5, <1>6, <1>7, <1>8, <1>9, <1>10

(* Where the embedded struct of a place comes from.                        *)
LEMMA LastStep ==
  ASSUME fields \in [Types -> Seq(Field)], NEW d \in Nat, NEW q \in Places[d + 1]
  PROVE  \E p \in Places[d] : \E k \in Embedded(End(p)) :
           q = Onto(p, k) /\ End(q) = fields[End(p)][k]
<1> DEFINE A(p) == {Onto(p, k) : k \in Embedded(End(p))}
<1>0. Places[d + 1] = UNION {A(p) : p \in Places[d]}
  BY NextPlaces
<1>1. PICK p \in Places[d] : \E k \in Embedded(End(p)) : q = Onto(p, k)
  <2>1. PICK p \in Places[d] : q \in A(p)
    BY <1>0
  <2> QED  BY <2>1
<1>2. PICK k \in Embedded(End(p)) : q = Onto(p, k)
  BY <1>1
<1>3. p \in Seq(Step) /\ End(p) \in Types
  BY PlaceFacts
<1>4. k \in Nat \ {0}
  BY <1>3, EmbeddedFacts
<1> QED  BY <1>2, <1>3, <1>4, OntoFacts

LEMMA StepDown ==
  ASSUME fields \in [Types -> Seq(Field)], NEW d \in Nat, NEW p \in Places[d],
         NEW k \in Embedded(End(p))
  PROVE  /\ Onto(p, k) \in Places[d + 1] /\ End(Onto(p, k)) = fields[End(p)][k]
         /\ fields[End(p)][k] \in Types /\ Found(fields[End(p)][k], d + 1)
<1>1. p \in Seq(Step) /\ End(p) \in Types
  BY PlaceFacts
<1>2. k \in Nat \ {0} /\ fields[End(p)][k] \in Types
  BY <1>1, EmbeddedFacts
<1>3. Onto(p, k) \in Places[d + 1]
  BY NextPlaces
<1>4. End(Onto(p, k)) = fields[End(p)][k]
  BY <1>1, <1>2, OntoFacts
<1> QED  BY <1>2, <1>3, <1>4 DEF Found

LEMMA BeforeNext ==
  ASSUME NEW d \in Nat
  PROVE  /\ Before(d + 1) = Before(d) \cup New(d)
         /\ Before(d) \cap New(d) = {}
         /\ \A t \in Types : Found(t, d) => t \in Before(d) \cup New(d)
<1>1. \A e : e \in 0..((d + 1) - 1) <=> e \in 0..(d - 1) \/ e = d
  OBVIOUS
<1>2. Before(d + 1) = Before(d) \cup {t \in Types : Found(t, d)}
  BY <1>1 DEF Before
<1> QED  BY <1>2 DEF New

LEMMA BeforeFirst == Before(0) = {} /\ NoneBefore(0) /\ New(0) = {Root}
<1>1. \A e : e \notin 0..(0 - 1)
  OBVIOUS
<1>2. Before(0) = {} /\ NoneBefore(0)
  BY <1>1 DEF Before, NoneBefore
<1>3. \A t : Found(t, 0) <=> t = Root
  BY NextPlaces DEF Found, End
<1> QED  BY <1>2, <1>3, TypesAssumption DEF New

(* A way to a type that is first met a level further down comes from a     *)
(* type that is first met at this level.                                   *)
LEMMA LastNew ==
  ASSUME fields \in [Types -> Seq(Field)], NEW d \in Nat, NEW p \in Places[d],
         NEW k \in Embedded(End(p)), fields[End(p)][k] \notin Before(d + 1)
  PROVE  End(p) \in New(d)
<1>1. End(p) \in Types /\ Found(End(p), d)
  BY PlaceFacts DEF Found
<1>2. SUFFICES ASSUME End(p) \in Before(d)  PROVE FALSE
  BY <1>1, BeforeNext
<1>3. PICK e \in 0..(d - 1) : Found(End(p), e)
  BY <1>2 DEF Before
<1>4. PICK q \in Places[e] : End(q) = End(p)
  BY <1>3 DEF Found
<1>5. e \in Nat /\ e + 1 \in 0..((d + 1) - 1)
  BY <1>3
<1>6. Found(fields[End(p)][k], e + 1) /\ fields[End(p)][k] \in Types
  BY <1>4, <1>5, StepDown
<1>7. fields[End(p)][k] \in Before(d + 1)
  BY <1>5, <1>6 DEF Before
<1> QED  BY <1>7

(* Fields that match.                                                      *)
LEMMA CandidateFacts ==
  ASSUME fields \in [Types -> Seq(Field)], NEW d \in Nat, NEW c \in Candidates(d)
  PROVE  /\ Len(c) = d + 1
         /\ \E p \in Places[d] : \E k \in Matches(End(p)) : c = Onto(p, k) /\ End(p) \in Types
<1>1. PICK p \in Places[d] : \E k \in Matches(End(p)) : c = Onto(p, k)
  BY DEF Candidates, Onto
<1>2. PICK k \in Matches(End(p)) : c = Onto(p, k)
  BY <1>1
<1>3. p \in Seq(Step) /\ Len(p) = d /\ End(p) \in Types
  BY PlaceFacts
<1>4. k \in Nat \ {0}
  BY <1>3, EmbeddedFacts
<1>5. Len(c) = d + 1
  BY <1>2, <1>3, <1>4, OntoFacts
<1> QED  BY <1>2, <1>3, <1>5

LEMMA CandidateNew ==
  ASSUME fields \in [Types -> Seq(Field)], NEW d \in Nat, NoneBefore(d), NEW p \in Places[d],
         NEW k \in Matches(End(p))
  PROVE  End(p) \in New(d)
<1>1. End(p) \in Types /\ Found(End(p), d)
  BY PlaceFacts DEF Found
<1>2. SUFFICES ASSUME End(p) \in Before(d)  PROVE FALSE
  BY <1>1, BeforeNext
<1>3. PICK e \in 0..(d - 1) : Found(End(p), e)
  BY <1>2 DEF Before
<1>4. PICK q \in Places[e] : End(q) = End(p)
  BY <1>3 DEF Found
<1>5. Onto(q, k) \in Candidates(e)
  BY <1>4 DEF Candidates, Onto
<1> QED  BY <1>3, <1>5 DEF NoneBefore

(* What the rule selects.                                                  *)
LEMMA SelectedFacts ==
  ASSUME fields \in [Types -> Seq(Field)], NEW s \in Selected
  PROVE  \E e \in Nat : /\ s \in Candidates(e) /\ Candidates(e) = {s}
                        /\ \A x \in 0..(e - 1) : Candidates(x) = {}
<1>1. Cardinality(Types) \in Nat
  BY FiniteAssumption, FS_CardinalityType
<1>2. PICK e \in Depths : s \in Candidates(e)
  BY DEF Selected
<1>3. e \in Nat
  BY <1>1, <1>2 DEF Depths
<1>4. Len(s) = e + 1
  BY <1>2, <1>3, CandidateFacts
<1>5. Len(s) - 1 = e /\ Len(s) - 2 = e - 1
  BY <1>3, <1>4
<1>6. Candidates(Len(s) - 1) = {s} /\ \A x \in 0..(Len(s) - 2) : Candidates(x) = {}
  BY DEF Selected
<1> QED  BY <1>2, <1>3, <1>5, <1>6

LEMMA SelectedOne ==
  ASSUME fields \in [Types -> Seq(Field)], NEW d \in Nat, NoneBefore(d),
         NEW r, Candidates(d) = {r}, d + 1 <= Cardinality(Types)
  PROVE  Selected = {r}
<1>1. Cardinality(Types) \in Nat
  BY FiniteAssumption, FS_CardinalityType
<1>2. d \in Depths
  BY <1>1 DEF Depths
<1>3. Len(r) = d + 1
  BY CandidateFacts
<1>4. Len(r) - 1 = d /\ Len(r) - 2 = d - 1
  BY <1>3
<1>5. r \in Selected
  BY <1>2, <1>4 DEF Selected, NoneBefore
<1>6. ASSUME NEW s \in Selected  PROVE s = r
  <2>1. PICK e \in Nat : /\ s \in Candidates(e) /\ Candidates(e) = {s}
                         /\ \A x \in 0..(e - 1) : Candidates(x) = {}
    BY SelectedFacts
  <2>2. ~(e < d)
    <3>1. SUFFICES ASSUME e < d  PROVE FALSE
      OBVIOUS
    <3>2. e \in 0..(d - 1)
      BY <3>1
    <3> QED  BY <2>1, <3>2 DEF NoneBefore
  <2>3. ~(d < e)
    <3>1. SUFFICES ASSUME d < e  PROVE FALSE
      OBVIOUS
    <3>2. d \in 0..(e - 1)
      BY <3>1
    <3> QED  BY <2>1, <3>2
  <2>4. d = e
    BY <2>2, <2>3
  <2> QED  BY <2>1, <2>4
<1> QED  BY <1>5, <1>6

LEMMA SelectedNone ==
  ASSUME fields \in [Types -> Seq(Field)], NEW d \in Nat, NoneBefore(d),
         NEW r \in Candidates(d), NEW s \in Candidates(d), r # s
  PROVE  Selected = {}
<1> SUFFICES ASSUME NEW x \in Selected  PROVE FALSE
  OBVIOUS
<1>1. PICK e \in Nat : /\ x \in Candidates(e) /\ Candidates(e) = {x}
                       /\ \A y \in 0..(e - 1) : Candidates(y) = {}
  BY SelectedFacts
<1>2. ~(e < d)
  <2>1. SUFFICES ASSUME e < d  PROVE FALSE
    OBVIOUS
  <2>2. e \in 0..(d - 1)
    BY <2>1
  <2> QED  BY <1>1, <2>2 DEF NoneBefore
<1>3. ~(d < e)
  <2>1. SUFFICES ASSUME d < e  PROVE FALSE
    OBVIOUS
  <2>2. d \in 0..(e - 1)
    BY <2>1
  <2> QED  BY <1>1, <2>2
<1>4. d = e
  BY <1>2, <1>3
<1> QED  BY <1>1, <1>4

(* A closed set of types without a match.                                  *)
LEMMA SelectedNothing ==
  ASSUME fields \in [Types -> Seq(Field)], NEW S \in SUBSET Types, Root \in S,
         \A t \in S : Matches(t) = {} /\ \A k \in Embedded(t) : fields[t][k] \in S
  PROVE  Selected = {}
<1> DEFINE N == {n \in Nat : \A p \in Places[n] : End(p) \in S}
<1>1. 0 \in N
  <2>1. Places[0] = {<<>>} /\ End(<<>>) = Root
    BY NextPlaces DEF End
  <2> QED  BY <2>1
<1>2. ASSUME NEW n \in Nat, n \in N  PROVE n + 1 \in N
  <2> SUFFICES ASSUME NEW q \in Places[n + 1]  PROVE End(q) \in S
    OBVIOUS
  <2>1. PICK p \in Places[n] : \E k \in Embedded(End(p)) : q = Onto(p, k) /\ End(q) = fields[End(p)][k]
    BY LastStep
  <2> QED  BY <1>2, <2>1
<1> HIDE DEF N
<1>3. \A n \in Nat : n \in N
  BY <1>1, <1>2, Induction
<1>4. ASSUME NEW x \in Selected  PROVE FALSE
  <2>1. PICK e \in Nat : x \in Candidates(e)
    BY SelectedFacts
  <2>2. PICK p \in Places[e] : \E k \in Matches(End(p)) : x = Onto(p, k) /\ End(p) \in Types
    BY <2>1, CandidateFacts
  <2>3. End(p) \in S
    BY <1>3 DEF N
  <2> QED  BY <2>2, <2>3
<1> QED  BY <1>4

-----------------------------------------------------------------------------
(* Each step keeps the levels                                              *)

LEMMA MoreCounted ==
  ASSUME NEW S, IsFiniteSet(S)
  PROVE  Cardinality(S) > 1 <=> More(S)
<1>1. Cardinality(S) \in Nat
  BY FS_CardinalityType
<1>2. ASSUME NEW p \in S, NEW q \in S, p # q  PROVE Cardinality(S) > 1
  <2>1. IsFiniteSet({p}) /\ Cardinality({p}) = 1
    BY FS_Singleton
  <2>2. q \notin {p}
    BY <1>2
  <2> DEFINE T == {p}
             U == T \cup {q}
  <2>3. IsFiniteSet(T) /\ Cardinality(T) = 1 /\ q \notin T
    BY <2>1, <2>2
  <2>4. U \in SUBSET S
    OBVIOUS
  <2> HIDE DEF T
  <2>5. Cardinality(U) = Cardinality(T) + 1
    BY <2>3, FS_AddElement
  <2> HIDE DEF U
  <2>6. Cardinality(U) <= Cardinality(S)
    BY <2>4, FS_Subset
  <2> QED  BY <1>1, <2>3, <2>5, <2>6
<1>3. ASSUME ~More(S)  PROVE ~(Cardinality(S) > 1)
  <2>1. CASE S = {}
    BY <2>1, FS_EmptySet
  <2>2. CASE S # {}
    <3>1. PICK x : x \in S
      BY <2>2
    <3>2. S = {x}
      BY <1>3, <3>1 DEF More
    <3> QED  BY <3>2, FS_Singleton
  <2> QED  BY <2>1, <2>2
<1> QED  BY <1>2, <1>3 DEF More

(* No type is looked at again, nor anything of it changed.                 *)
LEMMA SameLooked ==
  ASSUME fields \in [Types -> Seq(Field)], fields' = fields, next' = next,
         nextCount' = nextCount, result' = result, NEW d \in Nat,
         \A t \in Types : \A k \in DOMAIN fields[t] : Looked(t, k)' <=> Looked(t, k)
  PROVE  /\ Collecting(d) => Collecting(d)'
         /\ OnlyMatch(d) => OnlyMatch(d)'
<1>1. /\ Places' = Places /\ New(d)' = New(d)
      /\ \A t : Ways(t, d)' = Ways(t, d) /\ Ways(t, d + 1)' = Ways(t, d + 1)
  BY SamePlaces
<1>2. \A p \in Places[d] : End(p) \in Types
  BY PlaceFacts
<1>3. \A t \in Types : \A k \in Embedded(t) \cup Matches(t) : Looked(t, k)' <=> Looked(t, k)
  BY DEF Embedded, Matches
<1>4. ASSUME NEW t, NEW q  PROVE q \in Taken(t, d)' <=> q \in Taken(t, d)
  <2>1. ASSUME NEW p \in Places[d], NEW k \in Embedded(End(p))
        PROVE  Looked(End(p), k)' <=> Looked(End(p), k)
    <3>1. End(p)' = End(p)
      BY DEF End
    <3>2. k \in Embedded(End(p)) \cup Matches(End(p))
      OBVIOUS
    <3> QED  BY <1>2, <1>3, <3>2 DEF Looked, End, scan
  <2> QED  BY <1>1, <2>1, ZenonT(60) DEF Taken, Onto, Embedded, End
<1>5. ASSUME NEW t  PROVE Taken(t, d)' = Taken(t, d)
  <2> DEFINE S == Taken(t, d)
  <2>1. S' \subseteq S
    <3> SUFFICES ASSUME NEW q \in S'  PROVE q \in S
      OBVIOUS
    <3> QED  BY <1>4
  <2>2. S \subseteq S'
    <3> SUFFICES ASSUME NEW q \in S  PROVE q \in S'
      OBVIOUS
    <3> QED  BY <1>4
  <2> QED  BY <2>1, <2>2
<1>6. Collecting(d) => Collecting(d)'
  <2>1. ASSUME NEW t  PROVE (t \in TypesIn(next))' <=> t \in TypesIn(next)
    BY DEF TypesIn
  <2> QED  BY <1>5, <2>1 DEF Collecting, More
<1>7. OnlyMatch(d) => OnlyMatch(d)'
  <2> SUFFICES ASSUME OnlyMatch(d)  PROVE OnlyMatch(d)'
    OBVIOUS
  <2>1. PICK p \in Places[d] : \E k \in Matches(End(p)) :
          /\ result = Onto(p, k) /\ End(p) \in New(d) /\ Looked(End(p), k)
          /\ ~More(Ways(End(p), d))
          /\ \A t \in New(d) : \A l \in Matches(t) : Looked(t, l) => t = End(p) /\ l = k
    BY DEF OnlyMatch
  <2>2. PICK k \in Matches(End(p)) :
          /\ result = Onto(p, k) /\ End(p) \in New(d) /\ Looked(End(p), k)
          /\ ~More(Ways(End(p), d))
          /\ \A t \in New(d) : \A l \in Matches(t) : Looked(t, l) => t = End(p) /\ l = k
    BY <2>1
  <2>3. ASSUME NEW t \in New(d), NEW l \in Matches(t)  PROVE Looked(t, l)' <=> Looked(t, l)
    <3>1. t \in Types
      BY DEF New
    <3> QED  BY <1>3, <3>1
  <2>4. End(p)' = End(p) /\ Onto(p, k)' = Onto(p, k) /\ Matches(End(p))' = Matches(End(p))
    BY DEF End, Onto, Matches
  <2>5. Looked(End(p), k)'
    <3>1. Looked(End(p), k)' <=> Looked(End(p), k)
      <4>1. End(p) \in Types
        BY <1>2
      <4> QED  BY <1>3, <2>2, <4>1 DEF Looked, End, scan
    <3> QED  BY <2>2, <3>1
  <2>6. ~More(Ways(End(p), d))'
    BY <1>1, <2>2, <2>4 DEF More, Ways, End
  <2>7. ASSUME NEW t \in New(d)', NEW l \in Matches(t)', Looked(t, l)'  PROVE t = End(p)' /\ l = k
    <3>1. t \in New(d) /\ l \in Matches(t)
      BY <1>1 DEF Matches
    <3> QED  BY <2>2, <2>3, <2>4, <2>7, <3>1
  <2>8. result' = Onto(p, k)' /\ End(p)' \in New(d)' /\ p \in Places'[d] /\ k \in Matches(End(p))'
    BY <1>1, <2>2, <2>4
  <2> QED  BY <2>5, <2>6, <2>7, <2>8 DEF OnlyMatch
<1> QED  BY <1>6, <1>7

LEMMA DepthFacts ==
  ASSUME NEW q \in Seq(Scan), NEW d, AtDepth(q, d)
  PROVE  /\ q # <<>> => AtDepth(Tail(q), d) /\ Head(q).typ \notin TypesIn(Tail(q))
         /\ \A e \in Scan : /\ e.index \in Places[d] /\ End(e.index) = e.typ
                            /\ e.typ \notin TypesIn(q)
                            => AtDepth(Append(q, e), d)
<1>1. ASSUME q # <<>>  PROVE AtDepth(Tail(q), d) /\ Head(q).typ \notin TypesIn(Tail(q))
  <2> DEFINE r == Tail(q)
  <2>1. /\ DOMAIN r = 1..(Len(q) - 1) /\ DOMAIN q = 1..Len(q)
        /\ Len(q) \in Nat /\ Len(q) > 0 /\ Head(q) = q[1]
        /\ \A n \in 1..(Len(q) - 1) : r[n] = q[n + 1]
    BY <1>1
  <2> HIDE DEF r
  <2>2. \A n \in DOMAIN r : n \in Nat /\ n + 1 \in DOMAIN q /\ r[n] = q[n + 1] /\ n + 1 # 1
    BY <2>1
  <2>3. 1 \in DOMAIN q
    BY <2>1
  <2>4. AtDepth(r, d)
    <3>1. \A n \in DOMAIN r : r[n].index \in Places[d] /\ End(r[n].index) = r[n].typ
      BY <2>2 DEF AtDepth
    <3>2. ASSUME NEW m \in DOMAIN r, NEW n \in DOMAIN r, r[m].typ = r[n].typ  PROVE m = n
      <4>1. m + 1 = n + 1
        BY <2>2, <3>2 DEF AtDepth
      <4> QED  BY <2>2, <4>1
    <3> QED  BY <3>1, <3>2 DEF AtDepth
  <2>5. q[1].typ \notin TypesIn(r)
    <3>1. SUFFICES ASSUME NEW n \in DOMAIN r, q[1].typ = r[n].typ  PROVE FALSE
      BY DEF TypesIn
    <3>2. 1 = n + 1
      BY <2>2, <2>3, <3>1 DEF AtDepth
    <3> QED  BY <2>2, <3>2
  <2> QED  BY <2>1, <2>4, <2>5 DEF r
<1>2. ASSUME NEW e \in Scan, e.index \in Places[d], End(e.index) = e.typ, e.typ \notin TypesIn(q)
      PROVE  AtDepth(Append(q, e), d)
  <2> DEFINE r == Append(q, e)
  <2>1. /\ DOMAIN r = 1..(Len(q) + 1) /\ DOMAIN q = 1..Len(q)
        /\ Len(q) \in Nat /\ r[Len(q) + 1] = e /\ \A n \in 1..Len(q) : r[n] = q[n]
    OBVIOUS
  <2> HIDE DEF r
  <2>2. \A n \in DOMAIN r : n = Len(q) + 1 \/ (n \in DOMAIN q /\ r[n] = q[n])
    BY <2>1
  <2>3. \A n \in DOMAIN q : q[n].typ # e.typ
    BY <1>2 DEF TypesIn
  <2>4. AtDepth(r, d)
    BY <1>2, <2>1, <2>2, <2>3 DEF AtDepth
  <2> QED  BY <2>4 DEF r
<1> QED  BY <1>1, <1>2

LEMMA SameDepth ==
  ASSUME fields' = fields, NEW q, NEW d
  PROVE  AtDepth(q, d)' <=> AtDepth(q, d)
BY SamePlaces DEF AtDepth, End

LEMMA SameMore ==
  ASSUME fields' = fields, NEW t, NEW d
  PROVE  More(Ways(t, d))' <=> More(Ways(t, d))
<1>1. Ways(t, d)' = Ways(t, d)
  BY SamePlaces
<1> QED  BY <1>1 DEF More

LEMMA InitLevel == Init => LevelInv
<1> SUFFICES ASSUME Init  PROVE LevelInv
  OBVIOUS
<1>1. Inv
  BY InitInv
<1> DEFINE e == [typ |-> Root, index |-> <<>>]
<1>2. next = <<e>> /\ e.typ = Root /\ e.index = <<>>
  BY DEF Init
<1> HIDE DEF e
<1>3. DOMAIN next = {1} /\ next[1] = e
  BY <1>2
<1>4. Places[0] = {<<>>} /\ End(<<>>) = Root
  BY NextPlaces DEF End
<1>5. AtDepth(next, 0)
  BY <1>2, <1>3, <1>4 DEF AtDepth
<1>6. Before(0) = {} /\ NoneBefore(0) /\ New(0) = {Root}
  BY BeforeFirst
<1>7. New(0) \subseteq TypesIn(next)
  BY <1>2, <1>3, <1>6 DEF TypesIn
<1>8. Counting(nextCount, 0)
  <2>1. nextCount[Root] = 0
    BY DEF Init, Uncounted
  <2>2. ~More(Ways(Root, 0))
    BY <1>4 DEF More, Ways
  <2> QED  BY <1>6, <2>1, <2>2 DEF Counting
<1>9. visited = Before(0) /\ Cardinality(visited) >= 0
  <2>1. visited = {}
    BY DEF Init
  <2> QED  BY <1>6, <2>1, FS_EmptySet
<1>10. Ready(0)
  BY <1>5, <1>6, <1>7, <1>8, <1>9 DEF Ready
<1>11. LanguageRule
  BY DEF Init, LanguageRule, Over
<1>12. phase = "quick" => \A k, l \in Matches(Root) : k = l
  BY DEF Init
<1>13. phase # "scan"
  BY DEF Init
<1> QED  BY <1>10, <1>11, <1>12, <1>13 DEF LevelInv

LEMMA QuickLevel ==
  ASSUME Inv, LevelInv, Quick
  PROVE  LevelInv'
<1>1. /\ fields' = fields /\ next' = next /\ nextCount' = nextCount /\ visited' = visited
      /\ phase = "quick" /\ phase' \in {"done", "level"}
  BY DEF Quick, QuickMatch, QuickNone, QuickPass
<1>2. fields \in [Types -> Seq(Field)] /\ ~ok
  BY <1>1 DEF Inv, TypeOK, AtHand
<1>3. /\ Ready(0) /\ \A k, l \in Matches(Root) : k = l
  BY <1>1 DEF LevelInv
<1>4. Selected' = Selected
  BY <1>1, SamePlaces
<1>5. CASE QuickMatch
  <2>1. PICK k \in Matches(Root) : result' = <<[typ |-> Root, i |-> k]>>
    BY <1>5 DEF QuickMatch
  <2>2. ok' = TRUE /\ phase' = "done"
    BY <1>5 DEF QuickMatch
  <2>3. Candidates(0) = {result'}
    <3>1. Places[0] = {<<>>} /\ End(<<>>) = Root
      BY NextPlaces DEF End
    <3>2. result' = Append(<<>>, [typ |-> Root, i |-> k])
      BY <2>1
    <3>3. Matches(Root) = {k}
      BY <1>3
    <3> QED  BY <3>1, <3>2, <3>3 DEF Candidates
  <2>4. 0 + 1 <= Cardinality(Types)
    <3>1. Types # {}
      OBVIOUS
    <3>2. Cardinality(Types) \in Nat /\ Cardinality(Types) # 0
      BY <3>1, FiniteAssumption, FS_CardinalityType, FS_EmptySet
    <3> QED  BY <3>2
  <2>5. Selected = {result'}
    BY <1>2, <1>3, <2>3, <2>4, SelectedOne DEF Ready
  <2>6. LanguageRule'
    BY <1>4, <2>2, <2>5 DEF LanguageRule
  <2> QED  BY <2>2, <2>6 DEF LevelInv
<1>6. CASE QuickNone
  <2>1. ok' = ok /\ phase' = "done" /\ Matches(Root) = {} /\ Embedded(Root) = {}
    BY <1>6 DEF QuickNone
  <2>2. Selected = {}
    <3> DEFINE S == {Root}
    <3>1. /\ S \in SUBSET Types /\ Root \in S
          /\ \A t \in S : Matches(t) = {} /\ \A k \in Embedded(t) : fields[t][k] \in S
      BY <2>1
    <3> HIDE DEF S
    <3> QED  BY <1>2, <3>1, SelectedNothing
  <2>3. LanguageRule'
    BY <1>2, <1>4, <2>1, <2>2 DEF LanguageRule
  <2> QED  BY <2>1, <2>3 DEF LevelInv
<1>7. CASE QuickPass
  <2>1. phase' = "level"
    BY <1>7 DEF QuickPass
  <2>2. Ready(0)'
    <3>1. AtDepth(next, 0)'
      BY <1>1, <1>3, SamePlaces DEF Ready, AtDepth, End
    <3>2. /\ Before(0)' = Before(0) /\ New(0)' = New(0) /\ NoneBefore(0)' <=> NoneBefore(0)
      BY <1>1, SamePlaces
    <3>3. Counting(nextCount, 0)'
      <4>1. \A t : More(Ways(t, 0))' <=> More(Ways(t, 0))
        BY <1>1, SameMore
      <4> QED  BY <1>1, <1>3, <3>2, <4>1 DEF Ready, Counting
    <3>4. TypesIn(next)' = TypesIn(next)
      BY <1>1 DEF TypesIn
    <3> QED  BY <1>1, <1>3, <3>1, <3>2, <3>3, <3>4 DEF Ready
  <2>3. LanguageRule'
    BY <2>1 DEF LanguageRule, Over
  <2> QED  BY <2>1, <2>2, <2>3 DEF LevelInv
<1> QED  BY <1>5, <1>6, <1>7 DEF Quick

LEMMA LevelsLevel ==
  ASSUME Inv, LevelInv, Levels
  PROVE  LevelInv'
<1>1. fields' = fields /\ visited' = visited /\ i' = i /\ result' = result /\ ok' = ok
  BY DEF Levels, NextLevel, NoMoreLevels, LevelDone
<1>2. /\ fields \in [Types -> Seq(Field)] /\ visited \subseteq Types
      /\ next \in Seq(Scan) /\ current \in Seq(Scan)
  BY DEF Inv, TypeOK
<1>3. /\ Places' = Places /\ Selected' = Selected
      /\ \A d : /\ Before(d)' = Before(d) /\ New(d)' = New(d)
                /\ NoneBefore(d)' <=> NoneBefore(d)
  BY <1>1, SamePlaces
<1>4. \A t, d : More(Ways(t, d))' <=> More(Ways(t, d))
  BY <1>1, SameMore
<1>5. CASE NextLevel
  <2>1. /\ current' = next /\ next' = <<>> /\ count' = nextCount /\ nextCount' = Uncounted
        /\ phase = "level" /\ phase' = "scan" /\ next # <<>>
    BY <1>5 DEF NextLevel
  <2>2. i = 0 /\ ~ok
    BY <2>1 DEF Inv, AtHand
  <2>3. PICK d \in Nat : Ready(d)
    BY <2>1 DEF LevelInv
  <2>4. AtDepth(current, d)' /\ AtDepth(next, d + 1)'
    BY <1>1, <1>3, <2>1, <2>3 DEF Ready, AtDepth, End
  <2>5. Counting(count, d)'
    BY <1>3, <1>4, <2>1, <2>3 DEF Ready, Counting
  <2>6. TypesIn(current)' = TypesIn(next) /\ TypesIn(next)' = {}
    BY <2>1 DEF TypesIn
  <2>7. visited = Before(d) /\ Before(d) \subseteq Before(d + 1)
    BY <2>3, BeforeNext DEF Ready
  <2>8. Collecting(d)'
    <3>1. ASSUME NEW t  PROVE Taken(t, d)' = {}
      <4>1. SUFFICES ASSUME NEW p \in Places[d], NEW k, p \in Places[d],
                            End(p)' \in New(d), Looked(End(p), k)'
                     PROVE  FALSE
        BY <1>3 DEF Taken
      <4>2. End(p)' \in visited
        BY <1>1, <2>1, <4>1 DEF Looked
      <4> QED  BY <2>7, <4>1, <4>2 DEF New
    <3>2. \A t \in Types : nextCount'[t] = 0
      BY <2>1 DEF Uncounted
    <3> QED  BY <2>6, <3>1, <3>2 DEF Collecting, More
  <2>9. ASSUME NEW n \in DOMAIN current'
        PROVE  current'[n].typ \in visited => current'[n].typ \in Before(d)
    BY <2>7
  <2>10. Scanning(d)'
    <3>1. New(d) \subseteq TypesIn(next) /\ NoneBefore(d) /\ Cardinality(visited) >= d
      BY <2>1, <2>3 DEF Ready
    <3> QED  BY <1>1, <1>3, <2>1, <2>2, <2>4, <2>5, <2>6, <2>7, <2>8, <2>9, <3>1 DEF Scanning
  <2>11. LanguageRule'
    BY <2>1 DEF LanguageRule, Over
  <2> QED  BY <2>1, <2>10, <2>11 DEF LevelInv
<1>6. CASE NoMoreLevels
  <2>1. phase = "level" /\ next = <<>> /\ phase' = "done"
    BY <1>6 DEF NoMoreLevels
  <2>2. current = <<>> /\ ~ok
    BY <2>1 DEF Inv, AtHand
  <2>3. Known = visited
    BY <2>1, <2>2 DEF Known, TypesIn
  <2>4. \A u \in visited : \A k \in DOMAIN fields[u] :
          fields[u][k] # Matching /\ (fields[u][k] \in Types => fields[u][k] \in visited)
    BY <1>2, <2>1, <2>2, <2>3 DEF Inv, Closed, Looked
  <2>5. Root \in visited
    BY <2>1, <2>2, <2>3 DEF Inv, Closed
  <2>6. Selected = {}
    <3>1. \A t \in visited : Matches(t) = {} /\ \A k \in Embedded(t) : fields[t][k] \in visited
      BY <2>4 DEF Matches, Embedded
    <3> QED  BY <1>2, <2>5, <3>1, SelectedNothing
  <2>7. LanguageRule'
    BY <1>1, <1>3, <2>2, <2>6 DEF LanguageRule
  <2> QED  BY <2>1, <2>7 DEF LevelInv
<1>7. CASE LevelDone
  <2>1. /\ phase = "scan" /\ current = <<>> /\ next' = next /\ nextCount' = nextCount
        /\ phase' = IF ok THEN "done" ELSE "level"
    BY <1>7 DEF LevelDone
  <2>2. i = 0
    BY <2>1 DEF Inv, AtHand
  <2>3. PICK d \in Nat : Scanning(d)
    BY <2>1 DEF LevelInv
  <2>4. \A t, k : Looked(t, k) <=> t \in visited
    BY <2>2 DEF Looked
  <2>5. New(d) \subseteq visited
    BY <2>1, <2>3 DEF Scanning, TypesIn
  <2>6. Cardinality(Types) \in Nat /\ Cardinality(visited) \in Nat
        /\ Cardinality(visited) <= Cardinality(Types)
    BY <1>2, FiniteAssumption, FS_CardinalityType, FS_Subset
  <2>7. CASE ok
    <3>1. PICK p \in Places[d] : \E k \in Matches(End(p)) :
            /\ result = Onto(p, k) /\ ~More(Ways(End(p), d))
            /\ \A t \in New(d) : \A l \in Matches(t) : Looked(t, l) => t = End(p) /\ l = k
      BY <2>3, <2>7 DEF Scanning, OnlyMatch
    <3>2. PICK k \in Matches(End(p)) :
            /\ result = Onto(p, k) /\ ~More(Ways(End(p), d))
            /\ \A t \in New(d) : \A l \in Matches(t) : Looked(t, l) => t = End(p) /\ l = k
      BY <3>1
    <3>3. NoneBefore(d)
      BY <2>3 DEF Scanning
    <3>4. result \in Candidates(d)
      BY <3>2 DEF Candidates, Onto
    <3>5. ASSUME NEW c \in Candidates(d)  PROVE c = result
      <4>1. PICK q \in Places[d] : \E l \in Matches(End(q)) : c = Onto(q, l)
        BY <1>2, CandidateFacts
      <4>2. PICK l \in Matches(End(q)) : c = Onto(q, l)
        BY <4>1
      <4>3. End(q) \in New(d)
        BY <1>2, <3>3, CandidateNew
      <4>4. End(q) = End(p) /\ l = k
        BY <2>4, <2>5, <3>2, <4>3
      <4>5. q = p
        BY <3>2, <4>4 DEF More, Ways
      <4> QED  BY <3>2, <4>2, <4>4, <4>5
    <3>6. Candidates(d) = {result}
      BY <3>4, <3>5
    <3>7. d + 1 <= Cardinality(Types)
      BY <2>3, <2>6, <2>7 DEF Scanning
    <3>8. Selected = {result}
      BY <1>2, <3>3, <3>6, <3>7, SelectedOne
    <3>9. LanguageRule'
      BY <1>1, <1>3, <2>7, <3>8 DEF LanguageRule
    <3> QED  BY <2>1, <2>7, <3>9 DEF LevelInv
  <2>8. CASE ~ok
    <3>1. AtDepth(next, d + 1)'
      BY <1>1, <1>3, <2>1, <2>3 DEF Scanning, AtDepth, End
    <3>2. visited = Before(d + 1)
      <4>1. Before(d) \subseteq visited /\ visited \subseteq Before(d + 1)
        BY <2>3 DEF Scanning
      <4> QED  BY <2>5, <4>1, BeforeNext
    <3>3. ASSUME NEW t \in New(d + 1)  PROVE Ways(t, d + 1) = Taken(t, d)
      <4>1. SUFFICES ASSUME NEW q \in Ways(t, d + 1)  PROVE q \in Taken(t, d)
        BY DEF Taken
      <4>2. q \in Places[d + 1] /\ End(q) = t
        BY <4>1 DEF Ways
      <4>3. PICK p \in Places[d] : \E k \in Embedded(End(p)) :
              q = Onto(p, k) /\ End(q) = fields[End(p)][k]
        BY <1>2, <4>2, LastStep
      <4>4. PICK k \in Embedded(End(p)) : q = Onto(p, k) /\ End(q) = fields[End(p)][k]
        BY <4>3
      <4>5. End(p) \in New(d)
        BY <1>2, <4>2, <4>4, LastNew DEF New
      <4> QED  BY <2>4, <2>5, <4>1, <4>4, <4>5 DEF Taken
    <3>4. Collecting(d)
      BY <2>3, <2>8 DEF Scanning
    <3>5. New(d + 1) \subseteq TypesIn(next)
      <4> SUFFICES ASSUME NEW t \in New(d + 1)  PROVE t \in TypesIn(next)
        OBVIOUS
      <4>1. t \in Types /\ Found(t, d + 1)
        BY DEF New
      <4>2. Ways(t, d + 1) # {}
        BY <4>1 DEF Found, Ways
      <4>3. nextCount[t] > 0
        BY <3>3, <3>4, <4>1, <4>2 DEF Collecting
      <4> QED  BY <4>1, <4>3 DEF Inv, Queued
    <3>6. Counting(nextCount, d + 1)'
      <4>1. ASSUME NEW t \in New(d + 1)  PROVE nextCount[t] > 1 <=> More(Ways(t, d + 1))
        <5>1. t \in Types
          BY DEF New
        <5> QED  BY <3>3, <3>4, <5>1 DEF Collecting
      <4> QED  BY <1>3, <1>4, <2>1, <4>1 DEF Counting
    <3>7. NoneBefore(d + 1)
      <4>1. ASSUME NEW c \in Candidates(d)  PROVE FALSE
        <5>1. PICK q \in Places[d] : \E l \in Matches(End(q)) : c = Onto(q, l)
          BY <1>2, <4>1, CandidateFacts
        <5>2. PICK l \in Matches(End(q)) : c = Onto(q, l)
          BY <5>1
        <5>3. End(q) \in New(d) /\ End(q) \in Types
          BY <1>2, <2>3, CandidateNew DEF Scanning, New
        <5>4. l \in DOMAIN fields[End(q)] /\ fields[End(q)][l] = Matching
          BY DEF Matches
        <5>5. Looked(End(q), l)
          BY <2>4, <2>5, <5>3
        <5> QED  BY <2>1, <2>8, <5>3, <5>4, <5>5 DEF Inv, Closed
      <4>2. \A e \in 0..((d + 1) - 1) : e \in 0..(d - 1) \/ e = d
        OBVIOUS
      <4> QED  BY <2>3, <4>1, <4>2 DEF Scanning, NoneBefore
    <3>8. next # <<>> => Cardinality(visited) >= d + 1
      BY <2>3 DEF Scanning
    <3>9. TypesIn(next)' = TypesIn(next)
      BY <2>1 DEF TypesIn
    <3>10. Ready(d + 1)'
      BY <1>1, <1>3, <2>1, <3>1, <3>2, <3>5, <3>6, <3>7, <3>8, <3>9 DEF Ready
    <3>11. LanguageRule'
      BY <2>1, <2>8 DEF LanguageRule, Over
    <3>12. d + 1 \in Nat
      OBVIOUS
    <3> QED  BY <2>1, <2>8, <3>10, <3>11, <3>12 DEF LevelInv
  <2> QED  BY <2>7, <2>8
<1> QED  BY <1>5, <1>6, <1>7 DEF Levels

(* The types of this level's scans that are not done with.                 *)
LEMMA CurrentFacts ==
  ASSUME Inv, phase = "scan", current # <<>>, NEW d \in Nat, Scanning(d)
  PROVE  /\ 1 \in DOMAIN current /\ current[1] = scan
         /\ scan.index \in Places[d] /\ End(scan.index) = scan.typ
         /\ scan.typ \in Types /\ scan.typ \in Before(d) \cup New(d)
<1>1. 1 \in DOMAIN current /\ current[1] = scan
  BY DEF Inv, TypeOK, scan
<1>2. scan.index \in Places[d] /\ End(scan.index) = scan.typ
  BY <1>1 DEF Scanning, AtDepth
<1>3. scan.typ \in Types /\ Found(scan.typ, d)
  BY <1>2, ScanFacts DEF Found
<1> QED  BY <1>1, <1>2, <1>3, BeforeNext

LEMMA ScansLevel ==
  ASSUME Inv, LevelInv, Scans
  PROVE  LevelInv'
<1>1. /\ fields' = fields /\ next' = next /\ count' = count /\ nextCount' = nextCount
      /\ result' = result /\ ok' = ok /\ phase = "scan" /\ phase' = "scan"
      /\ current # <<>>
  BY DEF Scans, SkipScan, BeginScan, EndScan
<1>2. /\ fields \in [Types -> Seq(Field)] /\ visited \subseteq Types
      /\ current \in Seq(Scan) /\ i \in Nat
  BY DEF Inv, TypeOK
<1>3. /\ Places' = Places
      /\ \A d : /\ Before(d)' = Before(d) /\ New(d)' = New(d)
                /\ NoneBefore(d)' <=> NoneBefore(d)
  BY <1>1, SamePlaces
<1>4. \A t, d : More(Ways(t, d))' <=> More(Ways(t, d))
  BY <1>1, SameMore
<1>5. PICK d \in Nat : Scanning(d)
  BY <1>1 DEF LevelInv
<1>6. /\ 1 \in DOMAIN current /\ current[1] = scan
      /\ scan.index \in Places[d] /\ End(scan.index) = scan.typ
      /\ scan.typ \in Types /\ scan.typ \in Before(d) \cup New(d)
  BY <1>1, <1>5, CurrentFacts
<1>7. /\ DOMAIN fields[scan.typ] = 1..Len(fields[scan.typ]) /\ Len(fields[scan.typ]) \in Nat
  BY <1>2, <1>6, EmbeddedFacts
<1>8. /\ AtDepth(next, d + 1)' /\ Counting(count, d)' /\ NoneBefore(d)' /\ LanguageRule'
  <2>1. AtDepth(next, d + 1)'
    BY <1>1, <1>3, <1>5 DEF Scanning, AtDepth, End
  <2>2. Counting(count, d)'
    BY <1>1, <1>3, <1>4, <1>5 DEF Scanning, Counting
  <2> QED  BY <1>1, <1>3, <1>5, <2>1, <2>2 DEF Scanning, LanguageRule, Over
<1>9. SUFFICES ASSUME \A t \in Types : \A k \in DOMAIN fields[t] : Looked(t, k)' <=> Looked(t, k),
                      AtDepth(current, d)', visited \subseteq visited', visited' \subseteq Before(d + 1),
                      New(d) \subseteq visited' \cup TypesIn(current)',
                      \A n \in DOMAIN current' :
                        IF n = 1 /\ i' > 0 THEN current'[n].typ \notin Before(d)
                        ELSE current'[n].typ \in visited' => current'[n].typ \in Before(d),
                      Cardinality(visited') >= d,
                      i' > 0 \/ next' # <<>> \/ ok' => Cardinality(visited') >= d + 1
               PROVE  LevelInv'
  <2>1. CASE SkipScan \/ EndScan
    <3>1. /\ current' = Tail(current) /\ visited' = visited /\ i' = 0
          /\ scan.typ \in visited
          /\ i = 0 \/ i > Len(fields[scan.typ])
      <4>1. CASE SkipScan
        BY <4>1 DEF SkipScan
      <4>2. CASE EndScan
        <5>1. current' = Tail(current) /\ visited' = visited /\ i' = 0 /\ i > Len(fields[scan.typ])
          BY <4>2 DEF EndScan
        <5>2. i > 0
          BY <1>2, <1>7, <5>1
        <5> QED  BY <1>1, <5>1, <5>2 DEF Inv, AtHand
      <4> QED  BY <2>1, <4>1, <4>2
    <3>2. ASSUME NEW t \in Types, NEW k \in DOMAIN fields[t]
          PROVE  Looked(t, k)' <=> Looked(t, k)
      <4>1. i > 0 /\ t = scan.typ => k < i
        <5>1. t = scan.typ => k \in 1..Len(fields[scan.typ])
          BY <1>7
        <5> QED  BY <1>2, <1>7, <3>1, <5>1
      <4> QED  BY <1>1, <3>1, <4>1 DEF Looked
    <3>3. AtDepth(Tail(current), d)
      BY <1>1, <1>2, <1>5, DepthFacts DEF Scanning
    <3>4. AtDepth(current, d)'
      BY <1>1, <1>3, <3>1, <3>3 DEF AtDepth, End
    <3>5. Before(d) \subseteq visited /\ visited \subseteq Before(d + 1)
      BY <1>5 DEF Scanning
    <3>6. New(d) \subseteq visited' \cup TypesIn(current)'
      <4>1. TypesIn(current) = TypesIn(Tail(current)) \cup {scan.typ}
        BY <1>1, ScanFacts
      <4>2. TypesIn(current)' = TypesIn(Tail(current))
        BY <3>1 DEF TypesIn
      <4> QED  BY <1>5, <3>1, <4>1, <4>2 DEF Scanning
    <3>7. ASSUME NEW n \in DOMAIN current'
          PROVE  current'[n].typ \in visited => current'[n].typ \in Before(d)
      <4>1. n \in Nat /\ n + 1 \in DOMAIN current /\ current'[n] = current[n + 1] /\ n + 1 # 1
        <5>1. /\ DOMAIN Tail(current) = 1..(Len(current) - 1) /\ DOMAIN current = 1..Len(current)
              /\ Len(current) \in Nat /\ \A m \in 1..(Len(current) - 1) : Tail(current)[m] = current[m + 1]
          BY <1>1, <1>2
        <5>2. n \in 1..(Len(current) - 1)
          BY <3>1, <5>1
        <5> QED  BY <3>1, <5>1, <5>2
      <4> QED  BY <1>5, <4>1 DEF Scanning
    <3>8. /\ Cardinality(visited') >= d
          /\ i' > 0 \/ next' # <<>> \/ ok' => Cardinality(visited') >= d + 1
      BY <1>1, <1>5, <3>1 DEF Scanning
    <3>9. \A n \in DOMAIN current' :
            IF n = 1 /\ i' > 0 THEN current'[n].typ \notin Before(d)
            ELSE current'[n].typ \in visited' => current'[n].typ \in Before(d)
      BY <3>1, <3>7
    <3> QED  BY <1>9, <3>1, <3>2, <3>4, <3>5, <3>6, <3>8, <3>9
  <2>2. CASE BeginScan
    <3>1. /\ current' = current /\ visited' = visited \cup {scan.typ} /\ i = 0 /\ i' = 1
          /\ scan.typ \notin visited /\ scan' = scan
      BY <2>2 DEF BeginScan, scan
    <3>2. ASSUME NEW t \in Types, NEW k \in DOMAIN fields[t]
          PROVE  Looked(t, k)' <=> Looked(t, k)
      <4>1. t = scan.typ => ~(k < 1)
        <5>1. t = scan.typ => k \in 1..Len(fields[scan.typ])
          BY <1>7
        <5> QED  BY <1>7, <5>1
      <4> QED  BY <1>1, <3>1, <4>1 DEF Looked
    <3>3. AtDepth(current, d)'
      BY <1>1, <1>3, <1>5, <3>1 DEF Scanning, AtDepth, End
    <3>4. Before(d) \subseteq visited /\ visited \subseteq Before(d + 1)
      BY <1>5 DEF Scanning
    <3>5. scan.typ \notin Before(d) /\ scan.typ \in Before(d + 1)
      BY <1>6, <3>1, <3>4, BeforeNext
    <3>6. TypesIn(current)' = TypesIn(current)
      BY <3>1 DEF TypesIn
    <3>7. New(d) \subseteq visited' \cup TypesIn(current)'
      BY <1>5, <3>1, <3>6 DEF Scanning
    <3>8. ASSUME NEW n \in DOMAIN current'
          PROVE  IF n = 1 /\ i' > 0 THEN current'[n].typ \notin Before(d)
                 ELSE current'[n].typ \in visited' => current'[n].typ \in Before(d)
      <4>1. CASE n = 1
        BY <1>6, <3>1, <3>5, <4>1
      <4>2. CASE n # 1
        <5>1. current[n].typ # scan.typ
          BY <1>5, <1>6, <3>1, <4>2 DEF Scanning, AtDepth
        <5>2. current[n].typ \in visited => current[n].typ \in Before(d)
          BY <1>5, <3>1, <4>2 DEF Scanning
        <5> QED  BY <3>1, <4>2, <5>1, <5>2
      <4> QED  BY <4>1, <4>2
    <3>9. Cardinality(visited') >= d + 1
      <4>1. IsFiniteSet(visited) /\ Cardinality(visited) \in Nat
        BY <1>2, FiniteAssumption, FS_Subset, FS_CardinalityType
      <4>2. Cardinality(visited') = Cardinality(visited) + 1
        BY <3>1, <4>1, FS_AddElement
      <4>3. Cardinality(visited) >= d
        BY <1>5 DEF Scanning
      <4> QED  BY <4>1, <4>2, <4>3
    <3>10. Cardinality(visited') \in Nat
      <4>1. visited' \subseteq Types
        BY <1>2, <1>6, <3>1
      <4> QED  BY <4>1, FiniteAssumption, FS_Subset, FS_CardinalityType
    <3>11. Cardinality(visited') >= d
      BY <3>9, <3>10
    <3> QED  BY <1>9, <3>1, <3>2, <3>3, <3>4, <3>5, <3>7, <3>8, <3>9, <3>11
  <2> QED  BY <2>1, <2>2 DEF Scans
<1>10. Collecting(d) => Collecting(d)'
  BY <1>1, <1>2, <1>9, SameLooked
<1>11. OnlyMatch(d) => OnlyMatch(d)'
  BY <1>1, <1>2, <1>9, SameLooked
<1>12. IF ok' THEN OnlyMatch(d)' ELSE Collecting(d)'
  BY <1>1, <1>5, <1>10, <1>11 DEF Scanning
<1>13. Before(d) \subseteq visited'
  BY <1>5, <1>9 DEF Scanning
<1>14. Scanning(d)'
  BY <1>3, <1>8, <1>9, <1>12, <1>13 DEF Scanning
<1> QED  BY <1>1, <1>8, <1>14 DEF LevelInv

(* Looking at a field adds it to what was looked at.                       *)
LEMMA NowLooked ==
  ASSUME Inv, AtField, visited' = visited, current' = current, phase' = "scan", i' = i + 1,
         NEW t \in Types, NEW k \in Nat
  PROVE  /\ Looked(t, k)' <=> Looked(t, k) \/ (t = scan.typ /\ k = i)
         /\ ~Looked(scan.typ, i)
<1>1. phase = "scan" /\ i > 0 /\ i \in Nat /\ scan.typ \in visited /\ scan' = scan
  BY FieldFacts DEF scan, Inv, TypeOK
<1>2. k < i + 1 <=> k < i \/ k = i
  BY <1>1
<1> QED  BY <1>1, <1>2 DEF Looked

(* A match that is looked at while no other is, is the only one so far.    *)
LEMMA NowMatched ==
  ASSUME fields' = fields, NEW d \in Nat, NEW p \in Places[d], NEW k \in Matches(End(p)),
         NEW u, u = End(p), u \in New(d), ~More(Ways(u, d)), result' = Onto(p, k),
         Looked(u, k)',
         \A t \in New(d) : \A l \in Matches(t) : Looked(t, l)' => t = u /\ l = k
  PROVE  OnlyMatch(d)'
<1>1. /\ p \in Places'[d] /\ k \in Matches(End(p))' /\ result' = Onto(p, k)'
      /\ End(p)' = u /\ u \in New(d)' /\ New(d)' = New(d)
  BY SamePlaces
<1>2. Looked(End(p), k)'
  BY <1>1 DEF Looked
<1>3. ~More(Ways(End(p), d))'
  <2>1. Ways(u, d)' = Ways(u, d)
    BY SamePlaces
  <2> QED  BY <1>1, <2>1 DEF More, Ways
<1>4. ASSUME NEW t \in New(d)', NEW l \in Matches(t)', Looked(t, l)'  PROVE t = u /\ l = k
  <2>1. t \in New(d) /\ l \in Matches(t)
    BY <1>1 DEF Matches
  <2> QED  BY <1>4, <2>1
<1> QED  BY <1>1, <1>2, <1>3, <1>4 DEF OnlyMatch

(* Looking at the field j of the type u takes the places that it makes.    *)
LEMMA NowTaken ==
  ASSUME fields \in [Types -> Seq(Field)], fields' = fields, NEW d \in Nat,
         NEW u \in New(d), NEW j \in Nat,
         \A t \in Types, k \in Nat : Looked(t, k)' <=> Looked(t, k) \/ (t = u /\ k = j),
         NEW t, NEW q
  PROVE  q \in Taken(t, d)' <=> \/ q \in Taken(t, d)
                               \/ /\ j \in Embedded(u) /\ t = fields[u][j]
                                  /\ \E p \in Ways(u, d) : q = Onto(p, j)
<1>1. /\ Places' = Places /\ New(d)' = New(d) /\ d + 1 \in Nat
      /\ Ways(t, d + 1)' = Ways(t, d + 1)
  BY SamePlaces
<1>2. \A p \in Places[d] : End(p) \in Types
  BY PlaceFacts
<1>3. \A x \in Types : \A k \in Embedded(x) : k \in Nat
  BY EmbeddedFacts
<1>4. ASSUME NEW p \in Places[d], NEW k \in Embedded(End(p))
      PROVE  Looked(End(p), k)' <=> Looked(End(p), k) \/ (End(p) = u /\ k = j)
  <2>1. End(p)' = End(p) /\ k \in Nat
    BY <1>2, <1>3 DEF End
  <2> QED  BY <1>2, <2>1 DEF Looked, End, scan
<1>5. q \in Taken(t, d)' <=>
        /\ q \in Ways(t, d + 1)
        /\ \E p \in Places[d] : \E k \in Embedded(End(p)) :
             /\ End(p) \in New(d) /\ q = Onto(p, k)
             /\ Looked(End(p), k) \/ (End(p) = u /\ k = j)
  <2>1. q \in Taken(t, d)' <=>
          /\ q \in Ways(t, d + 1)
          /\ \E p \in Places[d] : \E k \in Embedded(End(p)) :
               End(p) \in New(d) /\ Looked(End(p), k)' /\ q = Onto(p, k)
    BY <1>1, ZenonT(60) DEF Taken, Onto, Embedded, End
  <2> QED  BY <1>4, <2>1
<1>6. (\E p \in Places[d] : \E k \in Embedded(End(p)) :
         End(p) \in New(d) /\ q = Onto(p, k) /\ End(p) = u /\ k = j)
      <=> j \in Embedded(u) /\ \E p \in Ways(u, d) : q = Onto(p, j)
  BY DEF Ways
<1>7. ASSUME j \in Embedded(u), NEW p \in Ways(u, d), q = Onto(p, j)
      PROVE  q \in Ways(t, d + 1) <=> t = fields[u][j]
  <2>1. p \in Places[d] /\ End(p) = u
    BY DEF Ways
  <2>2. q \in Places[d + 1] /\ End(q) = fields[u][j]
    BY <1>7, <2>1, StepDown
  <2> QED  BY <2>2 DEF Ways
<1>8. q \in Taken(t, d) <=>
        /\ q \in Ways(t, d + 1)
        /\ \E p \in Places[d] : \E k \in Embedded(End(p)) :
             End(p) \in New(d) /\ q = Onto(p, k) /\ Looked(End(p), k)
  BY DEF Taken
<1> QED  BY <1>5, <1>6, <1>7, <1>8

LEMMA FieldsLevel ==
  ASSUME Inv, LevelInv, Fields
  PROVE  LevelInv'
<1>1. /\ fields' = fields /\ current' = current /\ visited' = visited /\ count' = count
      /\ AtField
  BY DEF Fields, Annihilate, FieldMatches, SkipField, QueueAgain, QueueFirst
<1>2. /\ phase = "scan" /\ current # <<>> /\ i \in Nat \ {0}
      /\ scan.typ \in visited /\ f \in Field /\ scan' = scan
      /\ fields \in [Types -> Seq(Field)] /\ visited \subseteq Types
      /\ next \in Seq(Scan) /\ nextCount \in [Types -> 0..2] /\ count \in [Types -> 0..2]
  BY <1>1, FieldFacts DEF scan, Inv, TypeOK
<1>3. /\ Places' = Places /\ Selected' = Selected
      /\ \A d : /\ Before(d)' = Before(d) /\ New(d)' = New(d)
                /\ NoneBefore(d)' <=> NoneBefore(d)
  BY <1>1, SamePlaces
<1>4. \A t, d : More(Ways(t, d))' <=> More(Ways(t, d))
  BY <1>1, SameMore
<1>5. PICK d \in Nat : Scanning(d)
  BY <1>2 DEF LevelInv
<1>6. /\ 1 \in DOMAIN current /\ current[1] = scan
      /\ scan.index \in Places[d] /\ End(scan.index) = scan.typ
      /\ scan.typ \in Types /\ scan.typ \in Before(d) \cup New(d)
  BY <1>2, <1>5, CurrentFacts
<1>7. PICK s \in Places[d], u \in Types, j \in Nat \ {0}, g \in Field :
        s = scan.index /\ u = scan.typ /\ j = i /\ g = f
  BY <1>2, <1>6
<1>8. /\ s \in Seq(Step) /\ End(s) = u /\ u \in New(d) /\ s \in Ways(u, d)
      /\ Place = Onto(s, j) /\ j \in DOMAIN fields[u] /\ g = fields[u][j]
      /\ ~Looked(u, j)
  <2>1. u \notin Before(d)
    BY <1>2, <1>5, <1>6, <1>7 DEF Scanning
  <2>2. /\ End(s) = u /\ Place = Onto(s, j) /\ j \in DOMAIN fields[u] /\ g = fields[u][j]
        /\ ~Looked(u, j)
    BY <1>1, <1>2, <1>6, <1>7 DEF Place, Onto, AtField, f, Looked
  <2> QED  BY <1>2, <1>6, <1>7, <2>1, <2>2, PlaceFacts DEF Ways
<1>9. ASSUME NEW p \in Ways(u, d), NEW q \in Places[d],
             NEW l \in Embedded(End(q)) \cup Matches(End(q)), Onto(p, j) = Onto(q, l)
      PROVE  p = q /\ l = j
  <2>1. p \in Seq(Step) /\ q \in Seq(Step) /\ End(p) \in Types /\ End(q) \in Types
    BY <1>2, PlaceFacts DEF Ways
  <2>2. l \in Nat \ {0}
    BY <1>2, <2>1, EmbeddedFacts
  <2> QED  BY <1>9, <2>1, <2>2, OntoInjective
<1>10. count[u] > 1 <=> More(Ways(u, d))
  BY <1>5, <1>8 DEF Scanning, Counting
<1>11. CASE Annihilate
  <2>1. /\ g = Matching /\ ok' = FALSE /\ phase' = "annihilated"
        /\ count[u] > 1 \/ ok
    BY <1>7, <1>11 DEF Annihilate
  <2>2. j \in Matches(u)
    BY <1>8, <2>1 DEF Matches
  <2>3. \A p \in Ways(u, d) : Onto(p, j) \in Candidates(d)
    BY <2>2 DEF Candidates, Ways, Onto
  <2>4. \E x, y \in Candidates(d) : x # y
    <3>1. CASE count[u] > 1
      <4>1. PICK p \in Ways(u, d), q \in Ways(u, d) : p # q
        BY <1>10, <3>1 DEF More
      <4>2. Onto(p, j) # Onto(q, j)
        <5>1. q \in Places[d] /\ j \in Embedded(End(q)) \cup Matches(End(q))
          BY <2>2 DEF Ways
        <5> QED  BY <1>9, <4>1, <5>1
      <4> QED  BY <2>3, <4>2
    <3>2. CASE ok
      <4>1. PICK p \in Places[d] : \E k \in Matches(End(p)) :
              result = Onto(p, k) /\ End(p) \in New(d) /\ Looked(End(p), k)
        BY <1>5, <3>2 DEF Scanning, OnlyMatch
      <4>2. PICK k \in Matches(End(p)) : result = Onto(p, k) /\ Looked(End(p), k)
        BY <4>1
      <4>3. Onto(p, k) \in Candidates(d)
        BY DEF Candidates, Onto
      <4>4. Onto(s, j) # Onto(p, k)
        BY <1>8, <1>9, <4>2
      <4> QED  BY <1>8, <2>3, <4>3, <4>4
    <3> QED  BY <2>1, <3>1, <3>2
  <2>5. NoneBefore(d)
    BY <1>5 DEF Scanning
  <2>6. Selected = {}
    BY <1>2, <2>4, <2>5, SelectedNone
  <2>7. LanguageRule'
    BY <1>3, <2>1, <2>6 DEF LanguageRule
  <2> QED  BY <2>1, <2>7 DEF LevelInv
<1>12. CASE FieldMatches \/ SkipField \/ QueueAgain \/ QueueFirst
  <2>1. i' = i + 1 /\ phase' = "scan"
    BY <1>2, <1>12 DEF FieldMatches, SkipField, QueueAgain, QueueFirst
  <2>2. \A t \in Types, k \in Nat : Looked(t, k)' <=> Looked(t, k) \/ (t = u /\ k = j)
    BY <1>1, <1>7, <2>1, NowLooked
  <2>3. LanguageRule'
    BY <2>1 DEF LanguageRule, Over
  <2>4. AtDepth(next, d + 1) /\ (IF ok THEN OnlyMatch(d) ELSE Collecting(d))
    BY <1>5 DEF Scanning
  <2>5. ASSUME NEW t, NEW q
        PROVE  q \in Taken(t, d)' <=> \/ q \in Taken(t, d)
                                     \/ /\ j \in Embedded(u) /\ t = g
                                        /\ \E p \in Ways(u, d) : q = Onto(p, j)
    <3>1. fields \in [Types -> Seq(Field)] /\ fields' = fields /\ j \in Nat /\ u \in New(d)
      BY <1>1, <1>2, <1>8
    <3>2. q \in Taken(t, d)' <=> \/ q \in Taken(t, d)
                                \/ /\ j \in Embedded(u) /\ t = fields[u][j]
                                   /\ \E p \in Ways(u, d) : q = Onto(p, j)
      BY <2>2, <3>1, NowTaken
    <3> QED  BY <1>8, <3>2
  <2>6. \A t : More(Taken(t, d))' <=> \E x, y \in Taken(t, d)' : x # y
    BY DEF More
  <2>7. \A t : More(Taken(t, d)) <=> \E x, y \in Taken(t, d) : x # y
    BY DEF More
  <2>8. AtDepth(next, d + 1)' /\ IF ok' THEN OnlyMatch(d)' ELSE Collecting(d)'
    <3>1. CASE FieldMatches
      <4>1. /\ g = Matching /\ ~(count[u] > 1 \/ ok) /\ next' = next
            /\ result' = Onto(s, j) /\ ok' = TRUE
        BY <1>7, <1>8, <3>1 DEF FieldMatches
      <4>2. j \in Matches(End(s)) /\ ~More(Ways(u, d)) /\ Looked(u, j)'
        BY <1>8, <1>10, <2>2, <4>1 DEF Matches
      <4>3. ASSUME NEW t \in New(d), NEW l \in Matches(t), Looked(t, l)'  PROVE t = u /\ l = j
        <5>1. t \in Types /\ l \in Nat /\ l \in DOMAIN fields[t] /\ fields[t][l] = Matching
          BY <1>2, EmbeddedFacts DEF New
        <5>2. ~Looked(t, l)
          BY <1>2, <4>1, <5>1 DEF Inv, Closed
        <5> QED  BY <2>2, <4>3, <5>1, <5>2
      <4>4. OnlyMatch(d)'
        BY <1>1, <1>8, <4>1, <4>2, <4>3, NowMatched
      <4>5. AtDepth(next, d + 1)'
        BY <1>1, <2>4, <4>1, SameDepth DEF AtDepth
      <4> QED  BY <4>1, <4>4, <4>5
    <3>2. CASE SkipField
      <4>1. /\ g # Matching /\ (ok \/ g \notin Types)
            /\ next' = next /\ nextCount' = nextCount /\ result' = result /\ ok' = ok
        BY <1>7, <3>2 DEF SkipField
      <4>2. AtDepth(next, d + 1)'
        BY <1>1, <2>4, <4>1, SameDepth DEF AtDepth
      <4>3. ASSUME ok  PROVE OnlyMatch(d)'
        <5>1. PICK p \in Places[d] : \E k \in Matches(End(p)) :
                /\ result = Onto(p, k) /\ End(p) \in New(d) /\ Looked(End(p), k)
                /\ ~More(Ways(End(p), d))
                /\ \A t \in New(d) : \A l \in Matches(t) : Looked(t, l) => t = End(p) /\ l = k
          BY <2>4, <4>3 DEF OnlyMatch
        <5>2. PICK k \in Matches(End(p)), v \in New(d) :
                /\ v = End(p) /\ result = Onto(p, k) /\ Looked(v, k)
                /\ ~More(Ways(v, d))
                /\ \A t \in New(d) : \A l \in Matches(t) : Looked(t, l) => t = v /\ l = k
          BY <5>1
        <5>3. v \in Types /\ k \in Nat
          BY <1>2, <5>2, EmbeddedFacts DEF New
        <5>4. ASSUME NEW t \in New(d), NEW l \in Matches(t), Looked(t, l)'  PROVE t = v /\ l = k
          <6>1. t \in Types /\ l \in Nat /\ fields[t][l] = Matching
            BY <1>2, EmbeddedFacts DEF New
          <6>2. ~(t = u /\ l = j)
            BY <1>8, <4>1, <6>1
          <6>3. Looked(t, l)
            BY <2>2, <5>4, <6>1, <6>2
          <6> QED  BY <5>2, <6>3
        <5>5. Looked(v, k)'
          BY <2>2, <5>2, <5>3
        <5>6. result' = Onto(p, k)
          BY <4>1, <5>2
        <5> QED  BY <1>1, <5>2, <5>4, <5>5, <5>6, NowMatched
      <4>4. ASSUME ~ok  PROVE Collecting(d)'
        <5>1. j \notin Embedded(u)
          BY <1>8, <4>1, <4>4 DEF Embedded
        <5>2. \A t, q : q \in Taken(t, d)' <=> q \in Taken(t, d)
          BY <2>5, <5>1
        <5>3. Collecting(d)
          BY <2>4, <4>4
        <5> QED  BY <2>6, <2>7, <4>1, <5>2, <5>3 DEF Collecting, TypesIn
      <4> QED  BY <4>1, <4>2, <4>3, <4>4
    <3>3. CASE QueueAgain
      <4>1. /\ g \in Types /\ ~ok /\ nextCount[g] > 0 /\ next' = next /\ ok' = ok
            /\ nextCount' = [nextCount EXCEPT ![g] = 2]
        BY <1>7, <3>3 DEF QueueAgain
      <4>2. AtDepth(next, d + 1)'
        BY <1>1, <2>4, <4>1, SameDepth DEF AtDepth
      <4>3. j \in Embedded(u) /\ Collecting(d)
        BY <1>8, <2>4, <4>1 DEF Embedded
      <4>4. PICK q \in Taken(g, d) : TRUE
        BY <4>1, <4>3 DEF Collecting
      <4>5. q # Onto(s, j)
        <5>1. PICK p \in Places[d] : \E k \in Embedded(End(p)) : Looked(End(p), k) /\ q = Onto(p, k)
          BY DEF Taken
        <5>2. PICK k \in Embedded(End(p)) : Looked(End(p), k) /\ q = Onto(p, k)
          BY <5>1
        <5> QED  BY <1>8, <1>9, <5>2
      <4>6. q \in Taken(g, d)' /\ Onto(s, j) \in Taken(g, d)'
        BY <1>8, <2>5, <4>3
      <4>7. More(Taken(g, d))'
        BY <2>6, <4>5, <4>6
      <4>8. \A t : t # g => \A x : x \in Taken(t, d)' <=> x \in Taken(t, d)
        BY <2>5
      <4>9. nextCount'[g] = 2 /\ \A t \in Types : t # g => nextCount'[t] = nextCount[t]
        BY <1>2, <4>1
      <4>10. ASSUME NEW t \in Types
             PROVE  /\ nextCount'[t] > 0 <=> Taken(t, d)' # {}
                    /\ nextCount'[t] > 1 <=> More(Taken(t, d))'
                    /\ t \in TypesIn(next) => nextCount'[t] > 0
        <5>1. CASE t = g
          BY <4>6, <4>7, <4>9, <5>1
        <5>2. CASE t # g
          BY <2>6, <2>7, <4>3, <4>8, <4>9, <5>2 DEF Collecting
        <5> QED  BY <5>1, <5>2
      <4>11. Collecting(d)'
        BY <4>1, <4>10 DEF Collecting, TypesIn
      <4> QED  BY <4>1, <4>2, <4>11
    <3>4. CASE QueueFirst
      <4> DEFINE e == [typ |-> g, index |-> Onto(s, j)]
      <4>1. /\ g \in Types /\ ~ok /\ nextCount[g] = 0 /\ next' = Append(next, e) /\ ok' = ok
            /\ nextCount' = [nextCount EXCEPT ![g] = IF count[u] > 1 THEN 2 ELSE 1]
        BY <1>7, <1>8, <3>4 DEF QueueFirst
      <4>2. j \in Embedded(u) /\ Collecting(d)
        BY <1>8, <2>4, <4>1 DEF Embedded
      <4>3. Onto(s, j) \in Places[d + 1] /\ End(Onto(s, j)) = g /\ Onto(s, j) \in Seq(Step)
        BY <1>2, <1>8, <4>2, StepDown, PlaceFacts
      <4>4. e \in Scan /\ e.typ = g /\ e.index = Onto(s, j)
        BY <4>1, <4>3 DEF Scan
      <4>5. g \notin TypesIn(next) /\ Taken(g, d) = {}
        BY <4>1, <4>2 DEF Collecting
      <4> HIDE DEF e
      <4>6. AtDepth(Append(next, e), d + 1)
        BY <1>2, <2>4, <4>3, <4>4, <4>5, DepthFacts
      <4>7. AtDepth(next, d + 1)'
        BY <1>1, <4>1, <4>6, SamePlaces DEF AtDepth, End
      <4>8. TypesIn(next)' = TypesIn(next) \cup {g}
        <5>1. TypesIn(Append(next, e)) = TypesIn(next) \cup {g}
          BY <1>2, <4>4, AppendFacts
        <5> QED  BY <4>1, <5>1 DEF TypesIn
      <4>9. \A x : x \in Taken(g, d)' <=> \E p \in Ways(u, d) : x = Onto(p, j)
        BY <2>5, <4>2, <4>5
      <4>10. \A t : t # g => \A x : x \in Taken(t, d)' <=> x \in Taken(t, d)
        BY <2>5
      <4>11. /\ nextCount'[g] = IF count[u] > 1 THEN 2 ELSE 1
             /\ \A t \in Types : t # g => nextCount'[t] = nextCount[t]
        BY <1>2, <4>1
      <4>12. \A p, q \in Ways(u, d) : Onto(p, j) = Onto(q, j) => p = q
        <5>1. \A q \in Ways(u, d) : q \in Places[d] /\ j \in Embedded(End(q)) \cup Matches(End(q))
          BY <4>2 DEF Ways
        <5> QED  BY <1>9, <5>1
      <4>13. More(Taken(g, d))' <=> count[u] > 1
        <5>1. More(Ways(u, d)) <=> \E p, q \in Ways(u, d) : p # q
          BY DEF More
        <5> QED  BY <1>10, <2>6, <4>9, <4>12, <5>1
      <4>14. ASSUME NEW t \in Types
             PROVE  /\ nextCount'[t] > 0 <=> Taken(t, d)' # {}
                    /\ nextCount'[t] > 1 <=> More(Taken(t, d))'
                    /\ t \in TypesIn(next)' => nextCount'[t] > 0
        <5>1. CASE t = g
          <6>1. Taken(g, d)' # {}
            BY <1>8, <4>9
          <6>2. nextCount'[g] > 0 /\ (nextCount'[g] > 1 <=> count[u] > 1)
            BY <4>11
          <6> QED  BY <4>13, <5>1, <6>1, <6>2
        <5>2. CASE t # g
          BY <2>6, <2>7, <4>2, <4>8, <4>10, <4>11, <5>2 DEF Collecting
        <5> QED  BY <5>1, <5>2
      <4>15. Collecting(d)'
        BY <4>14 DEF Collecting
      <4> QED  BY <4>1, <4>7, <4>15
    <3> QED  BY <1>12, <3>1, <3>2, <3>3, <3>4
  <2>9. TypesIn(current)' = TypesIn(current)
    BY <1>1 DEF TypesIn
  <2>10. AtDepth(current, d)'
    BY <1>1, <1>3, <1>5 DEF Scanning, AtDepth, End
  <2>11. Counting(count, d)'
    BY <1>1, <1>3, <1>4, <1>5 DEF Scanning, Counting
  <2>12. ASSUME NEW n \in DOMAIN current
        PROVE  IF n = 1 /\ i' > 0 THEN current[n].typ \notin Before(d)
               ELSE current[n].typ \in visited => current[n].typ \in Before(d)
    <3>1. i > 0 /\ i' > 0
      BY <1>2, <2>1
    <3> QED  BY <1>5, <3>1 DEF Scanning
  <2>13. Cardinality(visited) >= d + 1 /\ Cardinality(visited) >= d
    <3>1. i > 0
      BY <1>2
    <3> QED  BY <1>5, <3>1 DEF Scanning
  <2>14. /\ NoneBefore(d) /\ Before(d) \subseteq visited /\ visited \subseteq Before(d + 1)
         /\ New(d) \subseteq visited \cup TypesIn(current)
    BY <1>5 DEF Scanning
  <2>15. Scanning(d)'
    BY <1>1, <1>3, <2>8, <2>9, <2>10, <2>11, <2>12, <2>13, <2>14 DEF Scanning
  <2> QED  BY <2>1, <2>3, <2>15 DEF LevelInv
<1> QED  BY <1>11, <1>12 DEF Fields

LEMMA StepLevel ==
  ASSUME Inv, LevelInv, [Next]_vars
  PROVE  LevelInv'
<1>1. CASE UNCHANGED vars
  <2>1. /\ fields' = fields /\ current' = current /\ next' = next /\ count' = count
        /\ nextCount' = nextCount /\ visited' = visited /\ i' = i /\ result' = result
        /\ ok' = ok /\ phase' = phase
    BY <1>1 DEF vars
  <2>2. fields \in [Types -> Seq(Field)]
    BY DEF Inv, TypeOK
  <2>3. /\ \A d : Before(d)' = Before(d) /\ New(d)' = New(d) /\ (NoneBefore(d)' <=> NoneBefore(d))
        /\ Matches(Root)' = Matches(Root) /\ Selected' = Selected
    BY <2>1, SamePlaces
  <2>4. /\ \A q, d : AtDepth(q, d)' <=> AtDepth(q, d)
        /\ \A t, d : More(Ways(t, d))' <=> More(Ways(t, d))
    BY <2>1, SameDepth, SameMore
  <2>5. /\ \A d : AtDepth(current, d)' <=> AtDepth(current, d)
        /\ \A d : AtDepth(next, d)' <=> AtDepth(next, d)
    BY <2>1, <2>4 DEF AtDepth
  <2>6. \A c, d : Counting(c, d)' <=> Counting(c, d)
    BY <2>3, <2>4 DEF Counting
  <2>7. \A d : (Counting(count, d)' <=> Counting(count, d)) /\ (Counting(nextCount, d)' <=> Counting(nextCount, d))
    BY <2>1, <2>6 DEF Counting
  <2>8. TypesIn(next)' = TypesIn(next) /\ TypesIn(current)' = TypesIn(current)
    BY <2>1 DEF TypesIn
  <2>9. ASSUME NEW d \in Nat
        PROVE  (Collecting(d) => Collecting(d)') /\ (OnlyMatch(d) => OnlyMatch(d)')
    <3>1. \A t \in Types : \A k \in DOMAIN fields[t] : Looked(t, k)' <=> Looked(t, k)
      BY <2>1 DEF Looked, scan
    <3> QED  BY <2>1, <2>2, <3>1, SameLooked
  <2>10. \A d \in Nat : Ready(d) => Ready(d)'
    BY <2>1, <2>3, <2>5, <2>7, <2>8 DEF Ready
  <2>11. \A d \in Nat : Scanning(d) => Scanning(d)'
    BY <2>1, <2>3, <2>5, <2>7, <2>8, <2>9 DEF Scanning
  <2>12. LanguageRule => LanguageRule'
    BY <2>1, <2>3 DEF LanguageRule, Over
  <2>13. 0 \in Nat
    OBVIOUS
  <2> QED  BY <2>1, <2>3, <2>10, <2>11, <2>12, <2>13 DEF LevelInv
<1> QED  BY <1>1, QuickLevel, LevelsLevel, ScansLevel, FieldsLevel DEF Next

LEMMA CountsAtLevel ==
  ASSUME Inv, LevelInv
  PROVE  CountsPlaces
<1> SUFFICES ASSUME phase = "scan", NEW n \in DOMAIN current, NEW t, t = current[n].typ,
                    t \notin visited \/ (n = 1 /\ i > 0)
             PROVE  count[t] > 1 <=>
                      Cardinality({p \in Places[Len(current[n].index)] : End(p) = t}) > 1
  BY DEF CountsPlaces
<1>1. fields \in [Types -> Seq(Field)]
  BY DEF Inv, TypeOK
<1>2. PICK d \in Nat : Scanning(d)
  BY DEF LevelInv
<1>3. current[n].index \in Places[d] /\ End(current[n].index) = t
  BY <1>2 DEF Scanning, AtDepth
<1>4. Len(current[n].index) = d /\ t \in Types /\ Found(t, d)
  BY <1>1, <1>3, PlaceFacts DEF Found
<1>5. t \notin Before(d) /\ Counting(count, d)
  BY <1>2 DEF Scanning
<1>6. t \in New(d)
  BY <1>4, <1>5 DEF New
<1>7. IsFiniteSet(Ways(t, d))
  <2>1. IsFiniteSet(Places[d]) /\ Ways(t, d) \subseteq Places[d]
    BY <1>1, PlacesFinite DEF Ways
  <2> QED  BY <2>1, FS_Subset
<1>8. Cardinality(Ways(t, d)) > 1 <=> More(Ways(t, d))
  BY <1>7, MoreCounted
<1> QED  BY <1>4, <1>5, <1>6, <1>8 DEF Counting, Ways

(* FieldByName and FieldByNameFunc answer what the language says: when     *)
(* they are over, they hold the one field at the least depth at which any  *)
(* matches, and none when several do at that depth, or no field at all.    *)
THEOREM Rule == Spec => []LanguageRule
<1>1. LevelInv => LanguageRule
  BY DEF LevelInv
<1> QED  BY <1>1, InitInv, InitLevel, StepInv, StepLevel, PTL DEF Spec

(* A type that is yet to be looked through is counted more than once       *)
(* exactly when it is embedded in several places at this depth, although   *)
(* it is queued once, and so is each of the types that embed it.           *)
THEOREM Counts == Spec => []CountsPlaces
BY CountsAtLevel, InitInv, InitLevel, StepInv, StepLevel, PTL DEF Spec
=============================================================================
