---------------------------- MODULE FieldLookup ----------------------------
(***************************************************************************)
(* FieldByName and FieldByNameFunc (internal/reflect/type.go): the search  *)
(* for a field of a struct or of the structs embedded in it, breadth first *)
(* over a graph of types that may have cycles and many ways to one type.   *)
(*                                                                         *)
(* The fields of a struct type are a sequence.  A field is Matching, when  *)
(* the match function accepts its name; else, for an embedded struct, by   *)
(* value or by pointer, the type of that struct; else Plain.               *)
(*                                                                         *)
(* A place is a sequence of steps, each a struct type and the index of a   *)
(* field in it; its indexes, from 1 here, are StructField.Index.           *)
(***************************************************************************)
EXTENDS Integers, Sequences, FiniteSets

CONSTANTS
  Types,     \* the struct types
  Root,      \* the one that is searched
  Matching, Plain,
  Programs   \* declarations: functions from Types to sequences of fields

Field == Types \cup {Matching, Plain}

ASSUME TypesAssumption ==
  Root \in Types /\ Matching \notin Types /\ Plain \notin Types /\ Matching # Plain

ASSUME FiniteAssumption == IsFiniteSet(Types)

ASSUME ProgramsAssumption == Programs \subseteq [Types -> Seq(Field)]

VARIABLES
  fields,              \* the declarations, never changed
  current, next,       \* the work queues: scans of a type, with its place
  count, nextCount,    \* how often a type is in them: 0, 1, or 2 for more
  visited,
  i,                   \* field at hand of the first scan in current, 0 for none
  result, ok,
  phase                \* "quick", "level", "scan", "done", "annihilated"

vars == <<fields, current, next, count, nextCount, visited, i, result, ok, phase>>

Step == [typ : Types, i : Nat \ {0}]
Scan == [typ : Types, index : Seq(Step)]

Matches(t)  == {k \in DOMAIN fields[t] : fields[t][k] = Matching}
Embedded(t) == {k \in DOMAIN fields[t] : fields[t][k] \in Types}

Uncounted == [t \in Types |-> 0]

(* FieldByNameFunc begins with "level", FieldByName with "quick".  The     *)
(* name FieldByName looks for is the name of at most one field of a type.  *)
Init ==
  /\ fields \in Programs
  /\ current = <<>> /\ next = <<[typ |-> Root, index |-> <<>>]>>
  /\ count = Uncounted /\ nextCount = Uncounted
  /\ visited = {}
  /\ i = 0
  /\ result = <<>> /\ ok = FALSE
  /\ \/ phase = "level"
     \/ phase = "quick" /\ \A t \in Types : \A k, l \in Matches(t) : k = l

-----------------------------------------------------------------------------
(* FieldByName                                                             *)

QuickMatch ==
  /\ phase = "quick"
  /\ \E k \in Matches(Root) :
       /\ \A l \in Matches(Root) : k <= l
       /\ result' = <<[typ |-> Root, i |-> k]>>
  /\ ok' = TRUE
  /\ phase' = "done"
  /\ UNCHANGED <<fields, current, next, count, nextCount, visited, i>>

(* A mistake: "hasEmbeds = tf.embedded()".                                 *)
QuickNoneByLast ==
  /\ phase = "quick" /\ Matches(Root) = {}
  /\ Len(fields[Root]) \notin Embedded(Root)
  /\ phase' = "done"
  /\ UNCHANGED <<fields, current, next, count, nextCount, visited, i, result, ok>>

(* No embedded field.                                                      *)
QuickNone ==
  /\ phase = "quick" /\ Matches(Root) = {}
  /\ Embedded(Root) = {}
  /\ phase' = "done"
  /\ UNCHANGED <<fields, current, next, count, nextCount, visited, i, result, ok>>

(* A plain field may be an embedded type that is not a struct.             *)
QuickPass ==
  /\ phase = "quick" /\ Matches(Root) = {}
  /\ fields[Root] # <<>>
  /\ phase' = "level"
  /\ UNCHANGED <<fields, current, next, count, nextCount, visited, i, result, ok>>

-----------------------------------------------------------------------------
(* The levels                                                              *)

(* A mistake: "current = next", and next is not emptied.                   *)
NextLevelKept ==
  /\ phase = "level" /\ next # <<>>
  /\ current' = next /\ UNCHANGED next
  /\ count' = nextCount /\ nextCount' = Uncounted
  /\ phase' = "scan"
  /\ UNCHANGED <<fields, visited, i, result, ok>>

NextLevel ==
  /\ phase = "level" /\ next # <<>>
  /\ current' = next /\ next' = <<>>
  /\ count' = nextCount /\ nextCount' = Uncounted
  /\ phase' = "scan"
  /\ UNCHANGED <<fields, visited, i, result, ok>>

NoMoreLevels ==
  /\ phase = "level" /\ next = <<>>
  /\ phase' = "done"
  /\ UNCHANGED <<fields, current, next, count, nextCount, visited, i, result, ok>>

LevelDone ==
  /\ phase = "scan" /\ current = <<>>
  /\ phase' = IF ok THEN "done" ELSE "level"
  /\ UNCHANGED <<fields, current, next, count, nextCount, visited, i, result, ok>>

-----------------------------------------------------------------------------
(* One scan of a level                                                     *)

scan == Head(current)

SkipScan ==
  /\ phase = "scan" /\ current # <<>> /\ i = 0
  /\ scan.typ \in visited
  /\ current' = Tail(current)
  /\ UNCHANGED <<fields, next, count, nextCount, visited, i, result, ok, phase>>

BeginScan ==
  /\ phase = "scan" /\ current # <<>> /\ i = 0
  /\ scan.typ \notin visited
  /\ visited' = visited \cup {scan.typ}
  /\ i' = 1
  /\ UNCHANGED <<fields, current, next, count, nextCount, result, ok, phase>>

EndScan ==
  /\ phase = "scan" /\ current # <<>> /\ i > Len(fields[scan.typ])
  /\ current' = Tail(current)
  /\ i' = 0
  /\ UNCHANGED <<fields, next, count, nextCount, visited, result, ok, phase>>

AtField == phase = "scan" /\ current # <<>> /\ i \in DOMAIN fields[scan.typ]
f       == fields[scan.typ][i]
Place   == Append(scan.index, [typ |-> scan.typ, i |-> i])

(* The name appeared several times at this level.                          *)
Annihilate ==
  /\ AtField /\ f = Matching
  /\ count[scan.typ] > 1 \/ ok
  /\ result' = <<>> /\ ok' = FALSE
  /\ phase' = "annihilated"
  /\ UNCHANGED <<fields, current, next, count, nextCount, visited, i>>

FieldMatches ==
  /\ AtField /\ f = Matching
  /\ ~(count[scan.typ] > 1 \/ ok)
  /\ result' = Place /\ ok' = TRUE
  /\ i' = i + 1
  /\ UNCHANGED <<fields, current, next, count, nextCount, visited, phase>>

SkipField ==
  /\ AtField /\ f # Matching
  /\ ok \/ f \notin Types
  /\ i' = i + 1
  /\ UNCHANGED <<fields, current, next, count, nextCount, visited, result, ok, phase>>

(* A mistake: to forget that the type was met again.                       *)
QueueAgainUncounted ==
  /\ AtField /\ f \in Types /\ ~ok /\ nextCount[f] > 0
  /\ i' = i + 1
  /\ UNCHANGED <<fields, current, next, count, nextCount, visited, result, ok, phase>>

QueueAgain ==
  /\ AtField /\ f \in Types /\ ~ok /\ nextCount[f] > 0
  /\ nextCount' = [nextCount EXCEPT ![f] = 2]
  /\ i' = i + 1
  /\ UNCHANGED <<fields, current, next, count, visited, result, ok, phase>>

(* Mistakes: to forget that the embedding type is there more than once,    *)
(* and the way to it.                                                      *)
QueueFirstOnce ==
  /\ AtField /\ f \in Types /\ ~ok /\ nextCount[f] = 0
  /\ nextCount' = [nextCount EXCEPT ![f] = 1]
  /\ next' = Append(next, [typ |-> f, index |-> Place])
  /\ i' = i + 1
  /\ UNCHANGED <<fields, current, count, visited, result, ok, phase>>

QueueFirstShort ==
  /\ AtField /\ f \in Types /\ ~ok /\ nextCount[f] = 0
  /\ nextCount' = [nextCount EXCEPT ![f] = IF count[scan.typ] > 1 THEN 2 ELSE 1]
  /\ next' = Append(next, [typ |-> f, index |-> <<[typ |-> scan.typ, i |-> i]>>])
  /\ i' = i + 1
  /\ UNCHANGED <<fields, current, count, visited, result, ok, phase>>

QueueFirst ==
  /\ AtField /\ f \in Types /\ ~ok /\ nextCount[f] = 0
  /\ nextCount' = [nextCount EXCEPT ![f] = IF count[scan.typ] > 1 THEN 2 ELSE 1]
  /\ next' = Append(next, [typ |-> f, index |-> Place])
  /\ i' = i + 1
  /\ UNCHANGED <<fields, current, count, visited, result, ok, phase>>

Quick  == QuickMatch \/ QuickNone \/ QuickPass
Levels == NextLevel \/ NoMoreLevels \/ LevelDone
Scans  == SkipScan \/ BeginScan \/ EndScan
Fields == Annihilate \/ FieldMatches \/ SkipField \/ QueueAgain \/ QueueFirst

Next == Quick \/ Levels \/ Scans \/ Fields

Spec == Init /\ [][Next]_vars

(* The search is one goroutine running, which is never stopped for good.   *)
FairSpec == Spec /\ WF_vars(Next)

-----------------------------------------------------------------------------
(* What the language says                                                  *)

(* Where the indexes of a place lead to, as FieldByIndex follows them.     *)
Leads(p) ==
  \A n \in 1..Len(p) :
    /\ p[n].typ = IF n = 1 THEN Root ELSE fields[p[n - 1].typ][p[n - 1].i]
    /\ p[n].i \in DOMAIN fields[p[n].typ]

LeadsTo(p, t) ==
  /\ Leads(p)
  /\ t = IF p = <<>> THEN Root ELSE fields[p[Len(p)].typ][p[Len(p)].i]

End(p) == IF p = <<>> THEN Root ELSE fields[p[Len(p)].typ][p[Len(p)].i]

(* The places of the structs embedded at a depth, and of the fields in     *)
(* them whose name matches.                                                *)
Places[d \in Nat] ==
  IF d = 0 THEN {<<>>}
  ELSE UNION {{Append(p, [typ |-> End(p), i |-> k]) : k \in Embedded(End(p))} :
                p \in Places[d - 1]}

Candidates(d) ==
  UNION {{Append(p, [typ |-> End(p), i |-> k]) : k \in Matches(End(p))} : p \in Places[d]}

Depths == 0..(Cardinality(Types) - 1)

(* The field at the least depth where there is one, if it is the only one  *)
(* at that depth.                                                          *)
Selected ==
  {p \in UNION {Candidates(d) : d \in Depths} :
     /\ \A d \in 0..(Len(p) - 2) : Candidates(d) = {}
     /\ Candidates(Len(p) - 1) = {p}}

Over == phase \in {"done", "annihilated"}

(* "The same condition that the Go language does: there must be a unique   *)
(* instance of the match at a given depth level."                          *)
LanguageRule == Over => Selected = IF ok THEN {result} ELSE {}

(* "The multiplicity of the 'current' field counts is recorded in          *)
(* 'count'": a type that is looked through is counted more than once       *)
(* exactly when it is embedded in more than one place at this depth.       *)
CountsPlaces ==
  phase = "scan" =>
    \A n \in DOMAIN current : LET t == current[n].typ IN
      t \notin visited \/ (n = 1 /\ i > 0) =>
        (count[t] > 1 <=>
           Cardinality({p \in Places[Len(current[n].index)] : End(p) = t}) > 1)

(* Every search ends, whatever cycles the embedded pointers make.          *)
Ends == <>Over

(* A type is embedded in the root, at any depth.                           *)
Reachable(t) ==
  \A S \in SUBSET Types :
    Root \in S /\ (\A u \in S : \A k \in Embedded(u) : fields[u][k] \in S) => t \in S

(* A field that is found is one, and nothing is found only when there is   *)
(* nothing, or too much on one level.                                      *)
Justified ==
  /\ phase = "done" /\ ok => LeadsTo(result, Matching)
  /\ phase = "done" /\ ~ok => \A t \in Types : Reachable(t) => Matches(t) = {}

TypeOK ==
  /\ fields \in [Types -> Seq(Field)]
  /\ current \in Seq(Scan) /\ next \in Seq(Scan)
  /\ count \in [Types -> 0..2] /\ nextCount \in [Types -> 0..2]
  /\ visited \subseteq Types
  /\ i \in Nat
  /\ ok \in BOOLEAN
  /\ phase \in {"quick", "level", "scan", "done", "annihilated"}

(* The type at hand is among the visited ones, and no other phase has one. *)
AtHand ==
  /\ phase \in {"quick", "level"} => i = 0 /\ ~ok /\ current = <<>>
  /\ phase = "scan" /\ i > 0 => current # <<>> /\ scan.typ \in visited
  /\ phase = "scan" /\ current = <<>> => i = 0

(* Queued places lead to what is queued.                                   *)
QueueLeads(q) == \A n \in DOMAIN q : LeadsTo(q[n].index, q[n].typ)

PlacesLead ==
  /\ QueueLeads(current) /\ QueueLeads(next)
  /\ ok => LeadsTo(result, Matching)

(* How far the fields of a visited type have been looked through.          *)
Looked(t, k) == t \in visited /\ (phase = "scan" /\ i > 0 /\ t = scan.typ => k < i)

TypesIn(q) == {q[n].typ : n \in DOMAIN q}
Known      == visited \cup TypesIn(current) \cup TypesIn(next)

(* As long as nothing is found, the root and whatever visited types embed  *)
(* is visited or queued, and no visited type has a match.                  *)
Closed ==
  ~ok /\ phase \in {"quick", "level", "scan"} =>
    /\ Root \in Known
    /\ \A t \in Types : \A k \in DOMAIN fields[t] : Looked(t, k) =>
         /\ fields[t][k] # Matching
         /\ fields[t][k] \in Types => fields[t][k] \in Known

(* Nothing counted is missing in the queue.                                *)
Queued == \A t \in Types : nextCount[t] > 0 => t \in TypesIn(next)

Inv == TypeOK /\ AtHand /\ PlacesLead /\ Closed /\ Queued
=============================================================================
