----------------------------- MODULE TypeLinks -----------------------------
(***************************************************************************)
(* typesByString (internal/reflect/type.go): the types linked into the     *)
(* binary that have a given string.  The linker's table has one section    *)
(* per module, each sorted by string; a section is searched by bisection   *)
(* for the first type of the string, then scanned for the others.          *)
(*                                                                         *)
(* A string is its rank in the order of strings.  Indexes count from 0, as *)
(* in the code.                                                            *)
(***************************************************************************)
EXTENDS Integers, Sequences

CONSTANTS
  Tables,    \* the tables a binary may have: sequences of sections
  Strings    \* the strings that are looked up

ASSUME StringsAssumption == Strings \subseteq Nat

(* "t1.String() < t2.String()", where different types may share a string.  *)
ASSUME SortedAssumption ==
  /\ Tables \subseteq Seq(Seq(Nat))
  /\ \A table \in Tables : \A m \in 1..Len(table) :
       \A k, l \in 1..Len(table[m]) : k <= l => table[m][k] <= table[m][l]

VARIABLES
  offset,    \* the table, never changed
  s,         \* the string, never changed
  offsI,     \* the section at hand, counted from 1
  i, j,      \* the interval of the search; j is the place of the scan
  phase,     \* "search" or "scan"
  ret        \* the types found: section and index

vars == <<offset, s, offsI, i, j, phase, ret>>

Size(m) == IF m \in 1..Len(offset) THEN Len(offset[m]) ELSE 0
StringAt(m, k) == offset[m][k + 1]
Over == offsI > Len(offset)

Init ==
  /\ offset \in Tables /\ s \in Strings
  /\ offsI = 1 /\ i = 0 /\ j = Size(1)
  /\ phase = "search"
  /\ ret = {}

Half == i + (j - i) \div 2

(* Mistakes: to look for the first greater string, and to keep the probe   *)
(* in the interval when its string is less.                                *)
NarrowToLast ==
  /\ ~Over /\ phase = "search" /\ i < j
  /\ IF StringAt(offsI, Half) <= s
     THEN i' = Half + 1 /\ j' = j
     ELSE j' = Half /\ i' = i
  /\ UNCHANGED <<offset, s, offsI, phase, ret>>

NarrowNot ==
  /\ ~Over /\ phase = "search" /\ i < j
  /\ IF StringAt(offsI, Half) < s
     THEN i' = Half /\ j' = j
     ELSE j' = Half /\ i' = i
  /\ UNCHANGED <<offset, s, offsI, phase, ret>>

Narrow ==
  /\ ~Over /\ phase = "search" /\ i < j
  /\ IF StringAt(offsI, Half) < s
     THEN i' = Half + 1 /\ j' = j
     ELSE j' = Half /\ i' = i
  /\ UNCHANGED <<offset, s, offsI, phase, ret>>

(* A mistake: to start the scan at the last probe.                         *)
StartScanLate ==
  /\ ~Over /\ phase = "search" /\ i >= j
  /\ phase' = "scan"
  /\ j' = i + 1
  /\ UNCHANGED <<offset, s, offsI, i, ret>>

StartScan ==
  /\ ~Over /\ phase = "search" /\ i >= j
  /\ phase' = "scan"
  /\ j' = i
  /\ UNCHANGED <<offset, s, offsI, i, ret>>

Here == j < Size(offsI) /\ StringAt(offsI, j) = s

Collect ==
  /\ ~Over /\ phase = "scan" /\ Here
  /\ ret' = ret \cup {<<offsI, j>>}
  /\ j' = j + 1
  /\ UNCHANGED <<offset, s, offsI, i, phase>>

NextSection ==
  /\ ~Over /\ phase = "scan" /\ ~Here
  /\ offsI' = offsI + 1
  /\ i' = 0
  /\ j' = Size(offsI + 1)
  /\ phase' = "search"
  /\ UNCHANGED <<offset, s, ret>>

Next == Narrow \/ StartScan \/ Collect \/ NextSection

Spec == Init /\ [][Next]_vars

(* The search is one goroutine running, which is never stopped for good.   *)
FairSpec == Spec /\ WF_vars(Next)

-----------------------------------------------------------------------------
Places == UNION {{m} \X (0..(Size(m) - 1)) : m \in 1..Len(offset)}
OfString == {p \in Places : StringAt(p[1], p[2]) = s}

(* The search of a section stays in it and never gives up a place where    *)
(* the first type of the string could be ("preserves f(i-1) == false",     *)
(* "preserves f(j) == true").                                              *)
Bracket ==
  ~Over /\ phase = "search" =>
    /\ 0 <= i /\ i <= j /\ j <= Size(offsI)
    /\ \A k \in 0..(Size(offsI) - 1) :
         /\ k < i => StringAt(offsI, k) < s
         /\ k >= j => StringAt(offsI, k) >= s

(* typesByString returns all types of the string and no other: a           *)
(* constructor that finds no linked type there may make one of its own.    *)
Exact == Over => ret = OfString

(* Every look-up ends.                                                     *)
Finishes == <>Over

(* What has been found at any moment: the types of the sections behind,    *)
(* and in the section at hand those the scan has passed.                   *)
FoundSoFar ==
  /\ ret \subseteq OfString
  /\ \A p \in OfString : p[1] < offsI => p \in ret
  /\ ~Over /\ phase = "scan" =>
       /\ 0 <= i /\ i <= j /\ j <= Size(offsI)
       /\ \A k \in 0..(Size(offsI) - 1) :
            /\ k < i => StringAt(offsI, k) < s
            /\ k >= i => StringAt(offsI, k) >= s
            /\ k >= i /\ k < j => <<offsI, k>> \in ret

(* The cursor is in the table.                                             *)
TypeOK ==
  /\ offset \in Tables /\ s \in Strings
  /\ offsI \in 1..(Len(offset) + 1)
  /\ i \in Nat /\ j \in Nat
  /\ phase \in {"search", "scan"}
  /\ Over => phase = "search"

(* Why the bisection and the scan are right, at every step of both.        *)
Inv == TypeOK /\ Bracket /\ FoundSoFar
=============================================================================
