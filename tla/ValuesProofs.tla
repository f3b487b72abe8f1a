---------------------------- MODULE ValuesProofs ----------------------------
(***************************************************************************)
(* What holds of Values for all types, any memory and any sequence of      *)
(* operations, those on slices and strings included: their flags keep      *)
(* their promises, memory stays typed, what nobody may set stays as it is, *)
(* numbers keep their value or are told not to, and what Append gives is   *)
(* the elements and what was appended.                                     *)
(*                                                                         *)
(* The invariant, Typed, sorts the objects into variables and those that   *)
(* are frozen, the data of interfaces, of strings and of Values that are   *)
(* not addressable: whatever refers to an object refers to one sort only,  *)
(* and whatever writes, writes to variables.                               *)
(***************************************************************************)
EXTENDS Slices, NaturalsInduction, WellFoundedInduction, TLAPS

-----------------------------------------------------------------------------
(* What memory, words and Values may be.  In all of this m is a memory and  *)
(* F are the objects that are frozen: the data of interfaces, of strings    *)
(* and of Values that are not addressable.  All others are variables.       *)

Addresses == [obj : Nat, off : Nat]

IsSeq(s) == Len(s) \in Nat /\ s = [k \in 1..Len(s) |-> s[k]]

Size(t)    == rtype[t].size
Base(o)    == IF o.hmap THEN rtype[o.typ].elem ELSE o.typ
Cell(t, k) == Leaves[t][((k - 1) % Size(t)) + 1]

(* There are n values of type t at a.                                      *)
Holds(m, a, t, n) ==
  /\ a \in Addresses /\ a.obj \in 2..Len(m) /\ ~m[a.obj].hmap
  /\ Len(m[a.obj].words) \in Nat /\ m[a.obj].typ \in Types
  /\ a.off + n * Size(t) <= Len(m[a.obj].words)
  /\ \A k \in 1..(n * Size(t)) : Cell(m[a.obj].typ, a.off + k) = Cell(t, k)

Zeroed(a, t)     == a \in Addresses /\ a.obj = 1 /\ a.off + Size(t) <= MaxZero
Data(m, F, a, t) == Zeroed(a, t) \/ (Holds(m, a, t, 1) /\ a.obj \in F)

Window(m, a, t, n) ==
  Holds(m, a, t, n) /\ (a.off < Len(m[a.obj].words) \/ a.off = 0)

Plain(m, F, w, t) ==
  \/ w = Zero
  \/ Integer(t) /\ w \in 1..(Two[rtype[t].bits] - 1)
  \/ Kind(t) = "ptr" /\ Holds(m, w, rtype[t].elem, 1) /\ w.obj \notin F
  \/ /\ Kind(t) = "map" /\ w \in Addresses /\ w.off = 0
     /\ w.obj \in 2..Len(m) /\ m[w.obj].hmap /\ m[w.obj].typ = t
  \/ /\ Kind(t) = "slice" /\ w \in [data : Addresses, len : Nat, cap : Nat]
     /\ w.len <= w.cap /\ Window(m, w.data, rtype[t].elem, w.cap) /\ w.data.obj \notin F
  \/ /\ Kind(t) = "string" /\ w \in [data : Addresses, len : Nat]
     /\ Window(m, w.data, Uint8, w.len) /\ w.data.obj \in F

Boxed(m, F, w) ==
  \/ w = Zero
  \/ /\ w = Eface(w.typ, w.data) /\ w.typ \in Types /\ Kind(w.typ) # "iface"
     /\ IF Direct(w.typ) THEN Plain(m, F, w.data, Leaves[w.typ][1]) ELSE Data(m, F, w.data, w.typ)

Fits(m, F, w, t) == IF Kind(t) = "iface" THEN Boxed(m, F, w) ELSE Plain(m, F, w, t)

(* The words are n values of type t.                                       *)
Many(m, F, ws, t, n) ==
  IsSeq(ws) /\ Len(ws) = n * Size(t) /\ \A k \in DOMAIN ws : Fits(m, F, ws[k], Cell(t, k))

ObjectFits(m, F, o) ==
  /\ o = Object(o.typ, o.hmap, o.words) /\ o.typ \in Types /\ o.hmap \in BOOLEAN
  /\ IF o.hmap THEN Kind(o.typ) = "map" /\ Len(o.words) \in {0, Size(Base(o))}
               ELSE Len(o.words) % Size(o.typ) = 0
  /\ IsSeq(o.words)
  /\ \A k \in DOMAIN o.words : Fits(m, F, o.words[k], Cell(Base(o), k))

Sound(m, F) ==
  /\ IsSeq(m) /\ Len(m) >= 1 /\ m[1] = Object("zeroVal", FALSE, Zeros(MaxZero))
  /\ F \subseteq 2..Len(m) /\ \A o \in F : ~m[o].hmap
  /\ \A o \in 2..Len(m) : ObjectFits(m, F, m[o])

ValueFits(m, F, v) ==
  /\ v = Value(v.typ, v.ptr, v.flags) /\ v.flags \in {{}, {"Indir"}, {"Indir", "Addr"}}
  /\ v.typ = NoType => v.flags = {}
  /\ v.typ # NoType =>
       /\ v.typ \in Types
       /\ v.flags = {} => Direct(v.typ) /\ Plain(m, F, v.ptr, Leaves[v.typ][1])
       /\ v.flags = {"Indir"} => Data(m, F, v.ptr, v.typ)
       /\ v.flags = {"Indir", "Addr"} => Holds(m, v.ptr, v.typ, 1) /\ v.ptr.obj \notin F

AllFits(m, F, values, w) ==
  /\ Sound(m, F)
  /\ values = [r \in Registers |-> values[r]] /\ \A r \in Registers : ValueFits(m, F, values[r])
  /\ Boxed(m, F, w)

Typed == client \in Clients /\ \E F \in SUBSET (2..Len(mem)) : AllFits(mem, F, val, held)

(* What every step does: objects stay what they are, and those that are    *)
(* frozen keep their words.                                                *)
Keeps(m, F, m2, F2) ==
  /\ Len(m) \in Nat /\ Len(m2) \in Nat /\ Len(m) <= Len(m2)
  /\ F \subseteq 2..Len(m)
  /\ \A o \in 2..Len(m) :
       /\ m2[o].typ = m[o].typ /\ m2[o].hmap = m[o].hmap
       /\ ~m[o].hmap => Len(m2[o].words) = Len(m[o].words)
       /\ o \in F <=> o \in F2
  /\ \A o \in F : m2[o] = m[o]
-----------------------------------------------------------------------------
(* Sequences                                                               *)

LEMMA SeqIs ==
  ASSUME NEW S, NEW s \in Seq(S)
  PROVE  IsSeq(s)
BY DEF IsSeq

LEMMA SeqElement ==
  ASSUME NEW S, NEW s \in Seq(S), NEW k \in DOMAIN s
  PROVE  s[k] \in S
OBVIOUS

LEMMA SeqIn ==
  ASSUME NEW s, IsSeq(s), NEW S, \A k \in DOMAIN s : s[k] \in S
  PROVE  s \in Seq(S) /\ DOMAIN s = 1..Len(s)
<1> DEFINE n == Len(s)
<1>1. n \in Nat /\ s = [k \in 1..n |-> s[k]]
  BY DEF IsSeq
<1>2. DOMAIN s = 1..n
  BY <1>1
<1> HIDE DEF n
<1>3. s \in [1..n -> S]
  BY <1>1, <1>2
<1>4. s \in Seq(S)
  BY <1>1, <1>3
<1> QED  BY <1>2, <1>4 DEF n

LEMMA SeqDomain ==
  ASSUME NEW s, IsSeq(s)
  PROVE  DOMAIN s = 1..Len(s) /\ Len(s) \in Nat
BY DEF IsSeq

LEMMA SeqMade ==
  ASSUME NEW s, NEW n \in Nat, DOMAIN s = 1..n, s = [k \in 1..n |-> s[k]]
  PROVE  IsSeq(s) /\ Len(s) = n
<1> DEFINE S == {s[k] : k \in 1..n}
<1>1. s \in [1..n -> S]
  OBVIOUS
<1> HIDE DEF S
<1>2. s \in Seq(S) /\ Len(s) = n
  BY <1>1
<1> QED  BY <1>2, SeqIs

LEMMA SeqAppend ==
  ASSUME NEW s, IsSeq(s), NEW x
  PROVE  /\ IsSeq(Append(s, x)) /\ Len(Append(s, x)) = Len(s) + 1
         /\ Append(s, x)[Len(s) + 1] = x
         /\ \A k \in 1..Len(s) : Append(s, x)[k] = s[k]
<1> DEFINE S == {s[k] : k \in DOMAIN s} \cup {x}
<1>0. \A k \in DOMAIN s : s[k] \in S
  OBVIOUS
<1>1. x \in S
  OBVIOUS
<1> HIDE DEF S
<1>2. s \in Seq(S)
  BY <1>0, SeqIn
<1>3. Append(s, x) \in Seq(S)
  BY <1>1, <1>2
<1>4. IsSeq(Append(s, x))
  BY <1>3, SeqIs
<1> QED  BY <1>1, <1>2, <1>4

LEMMA SeqSub ==
  ASSUME NEW s, IsSeq(s), NEW a \in Nat, NEW n \in Nat, a + n <= Len(s)
  PROVE  /\ IsSeq(SubSeq(s, a + 1, a + n)) /\ Len(SubSeq(s, a + 1, a + n)) = n
         /\ \A k \in 1..n : SubSeq(s, a + 1, a + n)[k] = s[a + k]
<1> DEFINE S == {s[k] : k \in DOMAIN s}
<1>0. \A k \in DOMAIN s : s[k] \in S
  OBVIOUS
<1> HIDE DEF S
<1>1. s \in Seq(S) /\ Len(s) \in Nat
  BY <1>0, SeqIn, SeqDomain
<1> DEFINE u == SubSeq(s, a + 1, a + n)
<1>2. u \in Seq(S) /\ Len(u) = n /\ \A k \in 1..n : u[k] = s[a + k]
  BY <1>1
<1>3. IsSeq(u)
  BY <1>2, SeqIs
<1> QED  BY <1>2, <1>3

LEMMA SeqOne ==
  ASSUME NEW x
  PROVE  IsSeq(<<x>>) /\ Len(<<x>>) = 1 /\ DOMAIN <<x>> = {1} /\ <<x>>[1] = x
BY DEF IsSeq

LEMMA SeqZeros ==
  ASSUME NEW n \in Nat
  PROVE  IsSeq(Zeros(n)) /\ Len(Zeros(n)) = n /\ \A k \in 1..n : Zeros(n)[k] = Zero
<1>1. Zeros(n) = [k \in 1..n |-> Zero]
  BY DEF Zeros
<1>2. DOMAIN Zeros(n) = 1..n /\ \A k \in 1..n : Zeros(n)[k] = Zero
  BY <1>1
<1> QED  BY <1>1, <1>2, SeqMade

-----------------------------------------------------------------------------
(* Types and their words                                                   *)

LEMMA TypeFacts ==
  ASSUME NEW t \in Types
  PROVE  /\ Size(t) \in Nat \ {0}
         /\ DOMAIN Leaves[t] = 1..Size(t)
         /\ \A k \in 1..Size(t) : Leaves[t][k] \in Types /\ Kind(Leaves[t][k]) \notin {"struct", "array"}
<1>1. Leaves[t] \in Seq(Types) /\ Len(Leaves[t]) = Size(t) /\ Size(t) \in Nat \ {0}
  BY WordsAssumption DEF Size
<1>2. \A k \in 1..Size(t) : Kind(Leaves[t][k]) \notin {"struct", "array"}
  BY WordsAssumption DEF Size
<1>3. DOMAIN Leaves[t] = 1..Len(Leaves[t])
  BY <1>1
<1>4. \A k \in DOMAIN Leaves[t] : Leaves[t][k] \in Types
  BY <1>1
<1> QED  BY <1>1, <1>2, <1>3, <1>4

LEMMA ModRange ==
  ASSUME NEW x \in Int, NEW a \in Nat \ {0}
  PROVE  /\ x = a * (x \div a) + (x % a)
         /\ x \div a \in Int /\ x % a \in 0..(a - 1)
OBVIOUS

LEMMA ModSmall ==
  ASSUME NEW n \in Nat \ {0}, NEW k \in 0..(n - 1)
  PROVE  k % n = k
OBVIOUS

LEMMA ModShift ==
  ASSUME NEW n \in Nat \ {0}, NEW i \in Nat, NEW k \in Nat
  PROVE  (i * n + k) % n = k % n
<1> DEFINE q == (i * n + k) \div n
           x == (i * n + k) % n
           p == k \div n
           y == k % n
<1>1. i * n + k \in Int
  OBVIOUS
<1>2. x \in 0..(n - 1) /\ q \in Int /\ i * n + k = n * q + x
  BY <1>1, ModRange
<1>3. y \in 0..(n - 1) /\ p \in Int /\ k = n * p + y
  BY ModRange
<1> HIDE DEF q, x, p, y
<1>4. x - y = n * (i + p - q)
  BY <1>2, <1>3
<1> DEFINE d == i + p - q
<1>5. d \in Int /\ x - y = n * d
  BY <1>2, <1>3, <1>4
<1> HIDE DEF d
<1>6. x - y \in -(n - 1)..(n - 1)
  BY <1>2, <1>3
<1>7. d >= 1 => n * d >= n
  BY <1>5
<1>8. d <= -1 => n * d <= -n
  BY <1>5
<1>9. d = 0
  BY <1>5, <1>6, <1>7, <1>8
<1>10. x = y
  BY <1>2, <1>3, <1>5, <1>9
<1> QED  BY <1>10 DEF x, y

LEMMA CellFacts ==
  ASSUME NEW t \in Types, NEW k \in Nat \ {0}
  PROVE  /\ Cell(t, k) \in Types /\ Kind(Cell(t, k)) \notin {"struct", "array"}
         /\ k <= Size(t) => Cell(t, k) = Leaves[t][k]
<1>1. Size(t) \in Nat \ {0} /\ k - 1 \in Int
  BY TypeFacts
<1>2. (k - 1) % Size(t) \in 0..(Size(t) - 1)
  BY <1>1, ModRange
<1>3. ((k - 1) % Size(t)) + 1 \in 1..Size(t)
  BY <1>1, <1>2
<1>4. ASSUME k <= Size(t)  PROVE Cell(t, k) = Leaves[t][k]
  <2>1. k - 1 \in 0..(Size(t) - 1)
    BY <1>1, <1>4
  <2>2. (k - 1) % Size(t) = k - 1
    BY <1>1, <2>1, ModSmall
  <2> QED  BY <2>2 DEF Cell
<1> QED  BY <1>3, <1>4, TypeFacts DEF Cell

LEMMA CellShift ==
  ASSUME NEW t \in Types, NEW i \in Nat, NEW k \in Nat \ {0}
  PROVE  Cell(t, i * Size(t) + k) = Cell(t, k)
<1>1. Size(t) \in Nat \ {0} /\ k - 1 \in Nat
  BY TypeFacts
<1>2. (i * Size(t) + k) - 1 = i * Size(t) + (k - 1)
  BY <1>1
<1>3. (i * Size(t) + (k - 1)) % Size(t) = (k - 1) % Size(t)
  BY <1>1, ModShift
<1> QED  BY <1>2, <1>3 DEF Cell

LEMMA SimpleFacts ==
  ASSUME NEW t \in Types, Kind(t) \notin {"struct", "array"}
  PROVE  Size(t) = 1 /\ Leaves[t] = <<t>> /\ \A k \in Nat \ {0} : Cell(t, k) = t
<1>1. Leaves[t] = <<t>> /\ Len(Leaves[t]) = Size(t)
  BY WordsAssumption DEF Size
<1>2. Size(t) = 1
  BY <1>1
<1>3. ASSUME NEW k \in Nat \ {0}  PROVE Cell(t, k) = t
  <2>1. (k - 1) % 1 = 0
    BY ModRange
  <2> QED  BY <1>1, <1>2, <2>1 DEF Cell
<1> QED  BY <1>1, <1>2, <1>3

LEMMA DirectFacts ==
  ASSUME NEW t \in Types, Direct(t)
  PROVE  /\ Size(t) = 1 /\ Leaves[t][1] \in Types /\ Kind(Leaves[t][1]) \in {"ptr", "map"}
         /\ Cell(t, 1) = Leaves[t][1]
<1>1. Size(t) = 1 /\ Kind(Leaves[t][1]) \in {"ptr", "map"}
  BY WordsAssumption DEF Size
<1> QED  BY <1>1, TypeFacts, CellFacts

LEMMA PartFacts ==
  ASSUME NEW t \in Types, Kind(t) \in {"struct", "array"}, NEW k \in DOMAIN rtype[t].parts
  PROVE  LET f == rtype[t].parts[k] IN
         /\ f.typ \in Types /\ f.offset \in Nat /\ f.offset + Size(f.typ) <= Size(t)
         /\ \A j \in 1..Size(f.typ) : Leaves[t][f.offset + j] = Leaves[f.typ][j]
         /\ Direct(t) => Direct(f.typ)
<1> DEFINE f == rtype[t].parts[k]
<1>1. rtype[t].parts \in Seq([typ : Types, offset : Nat])
  BY WordsAssumption
<1>2. f \in [typ : Types, offset : Nat]
  BY <1>1, SeqElement
<1>3. /\ f.offset + Size(f.typ) <= Size(t)
      /\ \A j \in 1..Size(f.typ) : Leaves[t][f.offset + j] = Leaves[f.typ][j]
  BY WordsAssumption DEF Size
<1>4. Direct(t) => Direct(f.typ)
  BY TypesAssumption
<1> QED  BY <1>2, <1>3, <1>4

LEMMA ArrayFacts ==
  ASSUME NEW t \in Types, Kind(t) = "array"
  PROVE  LET e == rtype[t].elem  n == Len(rtype[t].parts) IN
         /\ e \in Types /\ n \in Nat /\ Size(t) = n * Size(e) /\ DOMAIN rtype[t].parts = 1..n
         /\ \A i \in Nat : i < n => \A j \in 1..Size(e) : Leaves[t][i * Size(e) + j] = Leaves[e][j]
<1> DEFINE e == rtype[t].elem
           n == Len(rtype[t].parts)
<1>1. rtype[t].parts \in Seq([typ : Types, offset : Nat]) /\ e \in Types /\ Size(t) = n * Size(e)
  BY WordsAssumption DEF Size
<1>2. \A k \in DOMAIN rtype[t].parts : rtype[t].parts[k] = [typ |-> e, offset |-> (k - 1) * Size(e)]
  BY WordsAssumption DEF Size
<1>3. n \in Nat /\ DOMAIN rtype[t].parts = 1..n
  BY <1>1
<1>4. ASSUME NEW i \in Nat, i < n, NEW j \in 1..Size(e)
      PROVE  Leaves[t][i * Size(e) + j] = Leaves[e][j]
  <2>1. i + 1 \in DOMAIN rtype[t].parts /\ (i + 1) - 1 = i
    BY <1>3, <1>4
  <2>2. rtype[t].parts[i + 1] = [typ |-> e, offset |-> i * Size(e)]
    BY <1>2, <2>1
  <2> QED  BY <1>4, <2>1, <2>2, PartFacts
<1> QED  BY <1>1, <1>3, <1>4

-----------------------------------------------------------------------------
(* What is at an address                                                   *)

LEMMA HoldsFrom ==
  ASSUME NEW m, NEW a, NEW t \in Types, NEW n \in Nat, Holds(m, a, t, n),
         NEW i \in Nat, NEW c \in Nat, i + c <= n
  PROVE  Holds(m, At(a.obj, a.off + i * Size(t)), t, c)
<1> DEFINE s == Size(t)
           o == m[a.obj]
           b == At(a.obj, a.off + i * s)
<1>1. s \in Nat \ {0} /\ a.obj \in Nat /\ a.off \in Nat /\ i * s \in Nat /\ c * s \in Nat /\ n * s \in Nat
  BY TypeFacts DEF Holds, Addresses
<1>2. b \in Addresses /\ b.obj = a.obj /\ b.off = a.off + i * s
  BY <1>1 DEF Addresses, At
<1>3. i * s + c * s <= n * s
  <2>1. (i + c) * s <= n * s
    BY <1>1
  <2>2. (i + c) * s = i * s + c * s
    BY <1>1
  <2> QED  BY <2>1, <2>2
<1>4. b.off + c * s <= Len(o.words)
  <2>1. Len(o.words) \in Nat /\ a.off + n * s <= Len(o.words)
    BY DEF Holds
  <2> DEFINE x == i * s
             y == c * s
             z == n * s
             w == Len(o.words)
  <2>2. /\ x \in Nat /\ y \in Nat /\ z \in Nat /\ w \in Nat /\ a.off \in Nat
        /\ x + y <= z /\ b.off = a.off + x /\ a.off + z <= w
    BY <1>1, <1>2, <1>3, <2>1
  <2> HIDE DEF x, y, z, w, b
  <2>3. b.off + y <= w
    BY <2>2
  <2> QED  BY <2>3 DEF y, w
<1>5. ASSUME NEW k \in 1..(c * s)  PROVE Cell(o.typ, b.off + k) = Cell(t, k)
  <2>1. i * s + k \in 1..(n * s) /\ k \in Nat \ {0}
    BY <1>1, <1>3
  <2>2. Cell(o.typ, a.off + (i * s + k)) = Cell(t, i * s + k)
    BY <2>1 DEF Holds
  <2>3. a.off + (i * s + k) = b.off + k
    BY <1>1, <1>2, <2>1
  <2>4. Cell(t, i * s + k) = Cell(t, k)
    BY <2>1, CellShift
  <2> QED  BY <2>2, <2>3, <2>4
<1>6. /\ o = m[b.obj] /\ b.obj \in 2..Len(m) /\ ~o.hmap
      /\ Len(o.words) \in Nat /\ o.typ \in Types
  BY <1>2 DEF Holds
<1> HIDE DEF b, o
<1>7. Holds(m, b, t, c)
  BY <1>2, <1>4, <1>5, <1>6 DEF Holds
<1> QED  BY <1>7 DEF b

LEMMA HoldsFewer ==
  ASSUME NEW m, NEW a, NEW t \in Types, NEW n \in Nat, Holds(m, a, t, n), NEW c \in Nat, c <= n
  PROVE  Holds(m, a, t, c)
<1>1. At(a.obj, a.off + 0 * Size(t)) = a
  BY TypeFacts DEF Holds, Addresses, At
<1> QED  BY <1>1, HoldsFrom

LEMMA HoldsPart ==
  ASSUME NEW m, NEW a, NEW t \in Types, Kind(t) \in {"struct", "array"}, Holds(m, a, t, 1),
         NEW k \in DOMAIN rtype[t].parts
  PROVE  LET f == rtype[t].parts[k] IN Holds(m, At(a.obj, a.off + f.offset), f.typ, 1)
<1> DEFINE f == rtype[t].parts[k]
           o == m[a.obj]
           b == At(a.obj, a.off + f.offset)
<1>1. /\ f.typ \in Types /\ f.offset \in Nat /\ f.offset + Size(f.typ) <= Size(t)
      /\ \A j \in 1..Size(f.typ) : Leaves[t][f.offset + j] = Leaves[f.typ][j]
  BY PartFacts
<1>2. Size(t) \in Nat \ {0} /\ Size(f.typ) \in Nat \ {0}
  BY <1>1, TypeFacts
<1>3. a.obj \in Nat /\ a.off \in Nat /\ Len(o.words) \in Nat /\ a.off + Size(t) <= Len(o.words)
  BY <1>2 DEF Holds, Addresses
<1>4. b \in Addresses /\ b.obj = a.obj /\ b.off = a.off + f.offset
  BY <1>1, <1>3 DEF Addresses, At
<1>5. b.off + 1 * Size(f.typ) <= Len(o.words)
  BY <1>1, <1>2, <1>3, <1>4
<1>6. ASSUME NEW j \in 1..(1 * Size(f.typ))  PROVE Cell(o.typ, b.off + j) = Cell(f.typ, j)
  <2>1. j \in 1..Size(f.typ) /\ j \in Nat \ {0} /\ f.offset + j \in 1..(1 * Size(t)) /\ f.offset + j \in Nat \ {0}
    BY <1>1, <1>2
  <2>2. Cell(o.typ, a.off + (f.offset + j)) = Cell(t, f.offset + j)
    BY <2>1 DEF Holds
  <2>3. Cell(t, f.offset + j) = Leaves[t][f.offset + j]
    BY <1>2, <2>1, CellFacts
  <2>4. Cell(f.typ, j) = Leaves[f.typ][j]
    BY <1>1, <1>2, <2>1, CellFacts
  <2>5. a.off + (f.offset + j) = b.off + j
    BY <1>1, <1>3, <1>4, <2>1
  <2> QED  BY <1>1, <2>1, <2>2, <2>3, <2>4, <2>5
<1> HIDE DEF b, f
<1>7. Holds(m, b, f.typ, 1)
  BY <1>4, <1>5, <1>6 DEF Holds
<1> QED  BY <1>7 DEF b, f

LEMMA ArrayCells ==
  ASSUME NEW t \in Types, Kind(t) = "array", NEW k \in 1..Size(t)
  PROVE  Cell(t, k) = Cell(rtype[t].elem, k)
<1> DEFINE e == rtype[t].elem
           n == Len(rtype[t].parts)
<1>1. /\ e \in Types /\ n \in Nat /\ Size(t) = n * Size(e)
      /\ \A i \in Nat : i < n => \A j \in 1..Size(e) : Leaves[t][i * Size(e) + j] = Leaves[e][j]
  BY ArrayFacts
<1>2. Size(t) \in Nat \ {0} /\ Size(e) \in Nat \ {0}
  BY <1>1, TypeFacts
<1> HIDE DEF e, n
<1> DEFINE i == (k - 1) \div Size(e)
           j == (k - 1) % Size(e)
<1>0. k - 1 \in Int
  BY <1>1, <1>2
<1>3. k - 1 = Size(e) * i + j /\ i \in Int /\ j \in 0..(Size(e) - 1)
  BY <1>0, <1>2, ModRange
<1>4. Cell(e, k) = Leaves[e][j + 1]
  BY DEF Cell
<1> HIDE DEF i, j
<1>5. i >= 0
  <2>1. i < 0 => Size(e) * i <= -Size(e)
    BY <1>2, <1>3
  <2> QED  BY <1>1, <1>2, <1>3, <2>1
<1>6. i < n
  <2>1. i >= n => Size(e) * i >= Size(e) * n
    BY <1>1, <1>2, <1>3, <1>5
  <2>2. k - 1 < n * Size(e)
    BY <1>1, <1>2
  <2> QED  BY <1>1, <1>2, <1>3, <2>1, <2>2
<1>7. j + 1 \in 1..Size(e) /\ k = i * Size(e) + (j + 1)
  BY <1>2, <1>3
<1>8. Leaves[t][k] = Leaves[e][j + 1]
  BY <1>1, <1>3, <1>5, <1>6, <1>7
<1>9. k \in Nat \ {0} /\ k <= Size(t)
  BY <1>2
<1>10. Cell(t, k) = Leaves[t][k]
  BY <1>9, CellFacts
<1> QED  BY <1>4, <1>8, <1>10 DEF e

LEMMA HoldsArray ==
  ASSUME NEW m, NEW a, NEW t \in Types, Kind(t) = "array", Holds(m, a, t, 1)
  PROVE  Holds(m, a, rtype[t].elem, Len(rtype[t].parts))
<1> DEFINE e == rtype[t].elem
           n == Len(rtype[t].parts)
           o == m[a.obj]
<1>1. e \in Types /\ n \in Nat /\ Size(t) = n * Size(e)
  BY ArrayFacts
<1>2. Size(t) \in Nat \ {0} /\ Size(e) \in Nat \ {0} /\ 1 * Size(t) = Size(t)
  BY <1>1, TypeFacts
<1>3. ASSUME NEW k \in 1..(n * Size(e))  PROVE Cell(o.typ, a.off + k) = Cell(e, k)
  <2>1. k \in 1..(1 * Size(t)) /\ k \in 1..Size(t)
    BY <1>1, <1>2
  <2>2. Cell(o.typ, a.off + k) = Cell(t, k)
    BY <2>1 DEF Holds
  <2> QED  BY <2>1, <2>2, ArrayCells
<1> HIDE DEF e, n
<1>4. a.off + n * Size(e) <= Len(o.words)
  BY <1>1, <1>2 DEF Holds
<1> QED  BY <1>3, <1>4 DEF Holds, e, n

-----------------------------------------------------------------------------
(* What steps keep                                                         *)

LEMMA KeepsSame ==
  ASSUME NEW m, NEW F, Len(m) \in Nat, F \subseteq 2..Len(m)
  PROVE  Keeps(m, F, m, F)
BY DEF Keeps

LEMMA KeepsBoth ==
  ASSUME NEW m, NEW F, NEW m2, NEW F2, NEW m3, NEW F3, Keeps(m, F, m2, F2), Keeps(m2, F2, m3, F3)
  PROVE  Keeps(m, F, m3, F3)
<1>1. Len(m) \in Nat /\ Len(m2) \in Nat /\ Len(m3) \in Nat /\ Len(m) <= Len(m2) /\ Len(m2) <= Len(m3)
      /\ F \subseteq 2..Len(m)
  BY DEF Keeps
<1>2. \A o \in 2..Len(m) : o \in 2..Len(m2)
  BY <1>1
<1>3. ASSUME NEW o \in 2..Len(m)
      PROVE  /\ m3[o].typ = m[o].typ /\ m3[o].hmap = m[o].hmap
             /\ ~m[o].hmap => Len(m3[o].words) = Len(m[o].words)
             /\ o \in F <=> o \in F3
  BY <1>2 DEF Keeps
<1>4. ASSUME NEW o \in F  PROVE m3[o] = m[o]
  BY <1>1, <1>3 DEF Keeps
<1> QED  BY <1>1, <1>3, <1>4 DEF Keeps

LEMMA KeepsHolds ==
  ASSUME NEW m, NEW F, NEW m2, NEW F2, Keeps(m, F, m2, F2), NEW a, NEW t, NEW n, Holds(m, a, t, n)
  PROVE  Holds(m2, a, t, n) /\ (a.obj \in F <=> a.obj \in F2)
<1>1. /\ Len(m) \in Nat /\ Len(m2) \in Nat /\ Len(m) <= Len(m2) /\ a.obj \in 2..Len(m)
      /\ ~m[a.obj].hmap
  BY DEF Keeps, Holds
<1>2. a.obj \in 2..Len(m2)
  BY <1>1
<1>3. /\ m2[a.obj].typ = m[a.obj].typ /\ m2[a.obj].hmap = m[a.obj].hmap
      /\ Len(m2[a.obj].words) = Len(m[a.obj].words) /\ (a.obj \in F <=> a.obj \in F2)
  BY <1>1 DEF Keeps
<1> QED  BY <1>2, <1>3 DEF Holds

LEMMA KeepsWindow ==
  ASSUME NEW m, NEW F, NEW m2, NEW F2, Keeps(m, F, m2, F2), NEW a, NEW t, NEW n, Window(m, a, t, n)
  PROVE  Window(m2, a, t, n) /\ (a.obj \in F <=> a.obj \in F2)
<1>1. Holds(m2, a, t, n) /\ (a.obj \in F <=> a.obj \in F2)
  BY KeepsHolds DEF Window
<1>2. Len(m2[a.obj].words) = Len(m[a.obj].words)
  BY DEF Keeps, Holds, Window
<1> QED  BY <1>1, <1>2 DEF Window

LEMMA KeepsData ==
  ASSUME NEW m, NEW F, NEW m2, NEW F2, Keeps(m, F, m2, F2), NEW a, NEW t, Data(m, F, a, t)
  PROVE  Data(m2, F2, a, t)
BY KeepsHolds DEF Data

LEMMA KeepsPlain ==
  ASSUME NEW m, NEW F, NEW m2, NEW F2, Keeps(m, F, m2, F2), NEW w, NEW t, Plain(m, F, w, t)
  PROVE  Plain(m2, F2, w, t)
<1>1. CASE w = Zero
  BY <1>1 DEF Plain
<1>2. CASE Integer(t) /\ w \in 1..(Two[rtype[t].bits] - 1)
  BY <1>2 DEF Plain
<1>3. CASE Kind(t) = "ptr" /\ Holds(m, w, rtype[t].elem, 1) /\ w.obj \notin F
  BY <1>3, KeepsHolds DEF Plain
<1>4. CASE Kind(t) = "map" /\ w \in Addresses /\ w.off = 0 /\ w.obj \in 2..Len(m) /\ m[w.obj].hmap /\ m[w.obj].typ = t
  <2>1. Len(m) \in Nat /\ Len(m2) \in Nat /\ Len(m) <= Len(m2)
    BY DEF Keeps
  <2>2. w.obj \in 2..Len(m2)
    BY <1>4, <2>1
  <2>3. m2[w.obj].typ = m[w.obj].typ /\ m2[w.obj].hmap = m[w.obj].hmap
    BY <1>4 DEF Keeps
  <2> QED  BY <1>4, <2>2, <2>3 DEF Plain
<1>5. CASE /\ Kind(t) = "slice" /\ w \in [data : Addresses, len : Nat, cap : Nat]
           /\ w.len <= w.cap /\ Window(m, w.data, rtype[t].elem, w.cap) /\ w.data.obj \notin F
  BY <1>5, KeepsWindow DEF Plain
<1>6. CASE /\ Kind(t) = "string" /\ w \in [data : Addresses, len : Nat]
           /\ Window(m, w.data, Uint8, w.len) /\ w.data.obj \in F
  BY <1>6, KeepsWindow DEF Plain
<1> QED  BY <1>1, <1>2, <1>3, <1>4, <1>5, <1>6 DEF Plain

LEMMA KeepsBoxed ==
  ASSUME NEW m, NEW F, NEW m2, NEW F2, Keeps(m, F, m2, F2), NEW w, Boxed(m, F, w)
  PROVE  Boxed(m2, F2, w)
BY KeepsPlain, KeepsData DEF Boxed

LEMMA KeepsFits ==
  ASSUME NEW m, NEW F, NEW m2, NEW F2, Keeps(m, F, m2, F2), NEW w, NEW t, Fits(m, F, w, t)
  PROVE  Fits(m2, F2, w, t)
BY KeepsPlain, KeepsBoxed DEF Fits

LEMMA KeepsMany ==
  ASSUME NEW m, NEW F, NEW m2, NEW F2, Keeps(m, F, m2, F2), NEW ws, NEW t, NEW n, Many(m, F, ws, t, n)
  PROVE  Many(m2, F2, ws, t, n)
BY KeepsFits DEF Many

LEMMA KeepsObject ==
  ASSUME NEW m, NEW F, NEW m2, NEW F2, Keeps(m, F, m2, F2), NEW o, ObjectFits(m, F, o)
  PROVE  ObjectFits(m2, F2, o)
BY KeepsFits DEF ObjectFits

LEMMA KeepsValue ==
  ASSUME NEW m, NEW F, NEW m2, NEW F2, Keeps(m, F, m2, F2), NEW v, ValueFits(m, F, v)
  PROVE  ValueFits(m2, F2, v)
BY KeepsPlain, KeepsData, KeepsHolds DEF ValueFits

-----------------------------------------------------------------------------
(* Changes of memory                                                       *)

LEMMA Grown ==
  ASSUME NEW m, NEW F, Sound(m, F), NEW obj, ObjectFits(m, F, obj),
         NEW F2, F \subseteq F2, F2 \subseteq F \cup {Len(m) + 1}, Len(m) + 1 \in F2 => ~obj.hmap
  PROVE  LET m2 == Append(m, obj) IN
         Sound(m2, F2) /\ Keeps(m, F, m2, F2) /\ m2[Len(m) + 1] = obj /\ Len(m2) = Len(m) + 1
<1> DEFINE m2 == Append(m, obj)
<1>1. IsSeq(m) /\ Len(m) \in Nat /\ Len(m) >= 1 /\ F \subseteq 2..Len(m)
  BY DEF Sound, IsSeq
<1>2. /\ IsSeq(m2) /\ Len(m2) = Len(m) + 1 /\ m2[Len(m) + 1] = obj
      /\ \A k \in 1..Len(m) : m2[k] = m[k]
  BY <1>1, SeqAppend
<1> HIDE DEF m2
<1>3. \A o \in 2..Len(m) : m2[o] = m[o] /\ o # Len(m) + 1
  BY <1>1, <1>2
<1>4. Keeps(m, F, m2, F2)
  BY <1>1, <1>2, <1>3 DEF Keeps
<1>5. m2[1] = Object("zeroVal", FALSE, Zeros(MaxZero))
  <2>1. m2[1] = m[1]
    BY <1>1, <1>2
  <2> QED  BY <2>1 DEF Sound
<1>6. F2 \subseteq 2..Len(m2) /\ \A o \in F2 : ~m2[o].hmap
  <2>1. \A o \in F : o \in 2..Len(m2) /\ ~m2[o].hmap
    BY <1>1, <1>2, <1>3 DEF Sound
  <2>2. Len(m) + 1 \in 2..Len(m2)
    BY <1>1, <1>2
  <2> QED  BY <1>2, <2>1, <2>2
<1>7. ASSUME NEW o \in 2..Len(m2)  PROVE ObjectFits(m2, F2, m2[o])
  <2>1. CASE o \in 2..Len(m)
    BY <1>3, <1>4, <2>1, KeepsObject DEF Sound
  <2>2. CASE o \notin 2..Len(m)
    <3>1. o = Len(m) + 1
      BY <1>1, <1>2, <2>2
    <3> QED  BY <1>2, <1>4, <3>1, KeepsObject
  <2> QED  BY <2>1, <2>2
<1>8. Sound(m2, F2)
  BY <1>1, <1>2, <1>5, <1>6, <1>7 DEF Sound
<1> QED  BY <1>2, <1>4, <1>8 DEF m2

LEMMA MultipleMod ==
  ASSUME NEW n \in Nat, NEW s \in Nat \ {0}
  PROVE  (n * s) % s = 0
<1>1. (n * s + 0) % s = 0 % s
  BY ModShift
<1>2. 0 % s = 0
  BY ModSmall
<1>3. n * s + 0 = n * s
  OBVIOUS
<1> QED  BY <1>1, <1>2, <1>3

LEMMA Allocated ==
  ASSUME NEW m, NEW F, Sound(m, F), NEW t \in Types, NEW n \in Nat, NEW ws, Many(m, F, ws, t, n),
         NEW F2, F \subseteq F2, F2 \subseteq F \cup {Len(m) + 1}
  PROVE  LET m2 == Alloc(m, t, ws)  a == At(Len(m) + 1, 0) IN
         /\ Sound(m2, F2) /\ Keeps(m, F, m2, F2) /\ Len(m2) = Len(m) + 1
         /\ Holds(m2, a, t, n) /\ Len(m2[a.obj].words) = n * Size(t)
         /\ a.obj = Len(m) + 1 /\ a.off = 0
<1> DEFINE obj == Object(t, FALSE, ws)
           m2  == Append(m, obj)
           a   == At(Len(m) + 1, 0)
<1>1. obj = [typ |-> t, hmap |-> FALSE, words |-> ws] /\ obj = Object(obj.typ, obj.hmap, obj.words)
  BY DEF Object
<1>2. obj.typ = t /\ obj.hmap = FALSE /\ obj.words = ws
  BY DEF Object
<1> HIDE DEF obj
<1>10. Base(obj) = t
  BY <1>2 DEF Base
<1>3. Len(ws) = n * Size(t) /\ Size(t) \in Nat \ {0} /\ n * Size(t) \in Nat
  BY TypeFacts DEF Many
<1>4. Len(ws) % Size(t) = 0
  BY <1>3, MultipleMod
<1>5. ObjectFits(m, F, obj)
  BY <1>1, <1>2, <1>4, <1>10 DEF ObjectFits, Many
<1>6. Sound(m2, F2) /\ Keeps(m, F, m2, F2) /\ m2[Len(m) + 1] = obj /\ Len(m2) = Len(m) + 1
  BY <1>2, <1>5, Grown
<1>7. Len(m) \in Nat /\ Len(m) >= 1
  BY DEF Sound, IsSeq
<1>8. a \in Addresses /\ a.obj = Len(m) + 1 /\ a.off = 0 /\ a.obj \in 2..Len(m2)
  BY <1>6, <1>7 DEF Addresses, At
<1> HIDE DEF m2
<1>9. Holds(m2, a, t, n)
  <2>1. \A k \in 1..(n * Size(t)) : a.off + k = k
    BY <1>3, <1>8
  <2>2. a.off + n * Size(t) <= Len(m2[a.obj].words)
    BY <1>2, <1>3, <1>6, <1>8
  <2> HIDE DEF a
  <2> QED  BY <1>2, <1>3, <1>6, <1>8, <2>1, <2>2 DEF Holds
<1> QED  BY <1>2, <1>3, <1>6, <1>8, <1>9 DEF Alloc, m2, obj

LEMMA Changed ==
  ASSUME NEW m, NEW F, Sound(m, F), NEW x \in 2..Len(m), x \notin F, NEW obj, ObjectFits(m, F, obj),
         obj.typ = m[x].typ, obj.hmap = m[x].hmap, ~obj.hmap => Len(obj.words) = Len(m[x].words)
  PROVE  LET m2 == [m EXCEPT ![x] = obj] IN Sound(m2, F) /\ Keeps(m, F, m2, F) /\ Len(m2) = Len(m)
<1> DEFINE m2 == [m EXCEPT ![x] = obj]
<1>1. IsSeq(m) /\ Len(m) \in Nat /\ Len(m) >= 1 /\ F \subseteq 2..Len(m) /\ DOMAIN m = 1..Len(m)
  BY SeqDomain DEF Sound, IsSeq
<1>2. DOMAIN m2 = 1..Len(m) /\ m2 = [k \in 1..Len(m) |-> m2[k]]
  BY <1>1
<1>3. \A k \in 1..Len(m) : m2[k] = IF k = x THEN obj ELSE m[k]
  BY <1>1
<1> HIDE DEF m2
<1>4. IsSeq(m2) /\ Len(m2) = Len(m)
  BY <1>1, <1>2, SeqMade
<1>5. \A o \in 2..Len(m) : o \in 1..Len(m)
  BY <1>1
<1>6. Keeps(m, F, m2, F)
  BY <1>1, <1>3, <1>4, <1>5 DEF Keeps
<1>7. m2[1] = m[1]
  BY <1>1, <1>3
<1>8. ASSUME NEW o \in 2..Len(m)  PROVE ObjectFits(m2, F, m2[o])
  BY <1>3, <1>5, <1>6, KeepsObject DEF Sound
<1>9. \A o \in F : ~m2[o].hmap
  BY <1>6 DEF Keeps, Sound
<1>10. Sound(m2, F)
  BY <1>1, <1>4, <1>7, <1>8, <1>9 DEF Sound
<1> QED  BY <1>4, <1>6, <1>10 DEF m2

LEMMA Stored ==
  ASSUME NEW m, NEW F, Sound(m, F), NEW a, NEW t \in Types, NEW n \in Nat, Holds(m, a, t, n),
         a.obj \notin F, NEW ws, Many(m, F, ws, t, n)
  PROVE  LET m2 == Store(m, a, ws) IN Sound(m2, F) /\ Keeps(m, F, m2, F) /\ Len(m2) = Len(m)
<1> DEFINE o == m[a.obj]
           new == [k \in DOMAIN o.words |-> IF k - a.off \in DOMAIN ws THEN ws[k - a.off] ELSE o.words[k]]
           obj == Object(o.typ, FALSE, new)
<1>1. a.obj \in 2..Len(m) /\ a.off \in Nat /\ o.hmap = FALSE
  BY DEF Holds, Addresses, Sound, ObjectFits
<1>2. ObjectFits(m, F, o) /\ o = [typ |-> o.typ, hmap |-> FALSE, words |-> o.words]
  BY <1>1 DEF Sound, ObjectFits, Object
<1>4. /\ IsSeq(o.words) /\ o.typ \in Types /\ Len(o.words) % Size(o.typ) = 0
      /\ DOMAIN o.words = 1..Len(o.words) /\ Len(o.words) \in Nat /\ Base(o) = o.typ
      /\ \A k \in DOMAIN o.words : Fits(m, F, o.words[k], Cell(o.typ, k))
  BY <1>1, <1>2, SeqDomain DEF ObjectFits, Base
<1>5. DOMAIN new = 1..Len(o.words) /\ new = [k \in 1..Len(o.words) |-> new[k]]
  BY <1>4
<1>6. ASSUME NEW k \in DOMAIN o.words  PROVE Fits(m, F, new[k], Cell(o.typ, k))
  <2>1. CASE k - a.off \in DOMAIN ws
    <3> DEFINE j == k - a.off
    <3>1. DOMAIN ws = 1..(n * Size(t)) /\ n * Size(t) \in Nat
      BY SeqDomain DEF Many
    <3>2. j \in 1..(n * Size(t)) /\ a.off + j = k
      BY <1>1, <1>4, <2>1, <3>1
    <3>3. Cell(o.typ, k) = Cell(t, j)
      BY <3>2 DEF Holds
    <3>4. Fits(m, F, ws[j], Cell(t, j))
      BY <2>1 DEF Many
    <3>5. new[k] = ws[j]
      BY <2>1
    <3> QED  BY <3>3, <3>4, <3>5
  <2>2. CASE k - a.off \notin DOMAIN ws
    BY <1>4, <2>2
  <2> QED  BY <2>1, <2>2
<1> HIDE DEF new
<1>7. IsSeq(new) /\ Len(new) = Len(o.words)
  BY <1>4, <1>5, SeqMade
<1>8. /\ obj = Object(obj.typ, obj.hmap, obj.words) /\ obj.typ = o.typ /\ obj.hmap = FALSE
      /\ obj.words = new /\ Base(obj) = o.typ
  BY DEF Object, Base
<1>9. ObjectFits(m, F, obj)
  <2> HIDE DEF obj
  <2> QED  BY <1>4, <1>5, <1>6, <1>7, <1>8 DEF ObjectFits
<1>10. Store(m, a, ws) = [m EXCEPT ![a.obj] = obj]
  BY <1>1 DEF Store, Refill, new
<1>11. Len(obj.words) = Len(m[a.obj].words) /\ obj.typ = m[a.obj].typ /\ obj.hmap = m[a.obj].hmap
  BY <1>1, <1>7, <1>8
<1> HIDE DEF obj, o
<1> DEFINE m2 == [m EXCEPT ![a.obj] = obj]
<1>12. Sound(m2, F) /\ Keeps(m, F, m2, F) /\ Len(m2) = Len(m)
  BY <1>1, <1>9, <1>11, Changed
<1> QED  BY <1>10, <1>12

LEMMA Loaded ==
  ASSUME NEW m, NEW F, Sound(m, F), NEW a, NEW t \in Types, NEW n \in Nat, Holds(m, a, t, n)
  PROVE  Many(m, F, SubSeq(m[a.obj].words, a.off + 1, a.off + n * Size(t)), t, n)
<1> DEFINE o  == m[a.obj]
           s  == n * Size(t)
           ws == SubSeq(o.words, a.off + 1, a.off + s)
<1>1. /\ a.obj \in 2..Len(m) /\ a.off \in Nat /\ ~o.hmap /\ s \in Nat /\ a.off + s <= Len(o.words)
      /\ \A k \in 1..s : Cell(o.typ, a.off + k) = Cell(t, k)
  BY TypeFacts DEF Holds, Addresses
<1>2. /\ IsSeq(o.words) /\ DOMAIN o.words = 1..Len(o.words) /\ Len(o.words) \in Nat
      /\ \A k \in DOMAIN o.words : Fits(m, F, o.words[k], Cell(o.typ, k))
  BY <1>1, SeqDomain DEF Sound, ObjectFits, Base
<1> HIDE DEF s, o
<1>3. IsSeq(ws) /\ Len(ws) = s /\ \A k \in 1..s : ws[k] = o.words[a.off + k]
  BY <1>1, <1>2, SeqSub
<1> HIDE DEF ws
<1>4. ASSUME NEW k \in DOMAIN ws  PROVE Fits(m, F, ws[k], Cell(t, k))
  <2>1. k \in 1..s
    BY <1>3, SeqDomain
  <2>2. a.off + k \in DOMAIN o.words
    BY <1>1, <1>2, <2>1
  <2> QED  BY <1>1, <1>2, <1>3, <2>1, <2>2
<1>5. Many(m, F, ws, t, n)
  BY <1>3, <1>4 DEF Many, s
<1> QED  BY <1>5 DEF ws, s, o

LEMMA ZeroFits ==
  ASSUME NEW m, NEW F, NEW t
  PROVE  Fits(m, F, Zero, t) /\ Plain(m, F, Zero, t) /\ Boxed(m, F, Zero)
BY DEF Fits, Plain, Boxed

LEMMA ZerosFit ==
  ASSUME NEW m, NEW F, NEW t \in Types, NEW n \in Nat
  PROVE  Many(m, F, Zeros(n * Size(t)), t, n)
<1>1. n * Size(t) \in Nat
  BY TypeFacts
<1>2. IsSeq(Zeros(n * Size(t))) /\ Len(Zeros(n * Size(t))) = n * Size(t)
      /\ \A k \in 1..(n * Size(t)) : Zeros(n * Size(t))[k] = Zero
  BY <1>1, SeqZeros
<1>3. DOMAIN Zeros(n * Size(t)) = 1..(n * Size(t))
  BY <1>2, SeqDomain
<1> QED  BY <1>2, <1>3, ZeroFits DEF Many

LEMMA LoadedData ==
  ASSUME NEW m, NEW F, Sound(m, F), NEW a, NEW t \in Types, Data(m, F, a, t) \/ Holds(m, a, t, 1)
  PROVE  Many(m, F, Load(m, a, t), t, 1)
<1>1. Size(t) \in Nat \ {0} /\ 1 * Size(t) = Size(t)
  BY TypeFacts
<1>2. CASE Holds(m, a, t, 1)
  BY <1>1, <1>2, Loaded DEF Load, Size
<1>3. CASE Zeroed(a, t)
  <2>1. /\ m[a.obj].words = Zeros(MaxZero) /\ a.off \in Nat /\ a.off + Size(t) <= MaxZero
        /\ MaxZero \in Nat
    BY <1>3, WordsAssumption DEF Sound, Zeroed, Addresses, Object
  <2>2. IsSeq(Zeros(MaxZero)) /\ Len(Zeros(MaxZero)) = MaxZero /\ \A k \in 1..MaxZero : Zeros(MaxZero)[k] = Zero
    BY <2>1, SeqZeros
  <2> DEFINE ws == Load(m, a, t)
             z == Zeros(MaxZero)
             d == a.off
             n == Size(t)
  <2>7. ws = SubSeq(z, d + 1, d + n)
    BY <2>1 DEF Load, Size
  <2>8. IsSeq(z) /\ Len(z) = MaxZero /\ d \in Nat /\ n \in Nat /\ d + n <= MaxZero
    BY <1>1, <2>1, <2>2
  <2> HIDE DEF ws, z, d, n
  <2>9. d + n <= Len(z)
    BY <2>8
  <2>10. /\ IsSeq(SubSeq(z, d + 1, d + n)) /\ Len(SubSeq(z, d + 1, d + n)) = n
         /\ \A k \in 1..n : SubSeq(z, d + 1, d + n)[k] = z[d + k]
    BY <2>8, <2>9, SeqSub
  <2>3. IsSeq(ws) /\ Len(ws) = Size(t) /\ \A k \in 1..Size(t) : ws[k] = Zeros(MaxZero)[a.off + k]
    BY <2>7, <2>10 DEF z, d, n
  <2>4. \A k \in 1..Size(t) : ws[k] = Zero
    BY <1>1, <2>1, <2>2, <2>3
  <2>5. DOMAIN ws = 1..Size(t)
    BY <2>3, SeqDomain
  <2>6. Many(m, F, ws, t, 1)
    BY <1>1, <2>3, <2>4, <2>5, ZeroFits DEF Many
  <2> QED  BY <2>6 DEF ws
<1> QED  BY <1>2, <1>3 DEF Data

-----------------------------------------------------------------------------
(* Values                                                                  *)

LEMMA PlainFlags ==
  ASSUME NEW m, NEW F, NEW v, ValueFits(m, F, v)
  PROVE  /\ v.flags \cap RO = {} /\ ro(v.flags) = {} /\ v.flags \in {{}, {"Indir"}, {"Indir", "Addr"}}
         /\ v.flags \cap {"StickyRO", "Indir", "Addr"} = v.flags /\ v.flags \cap {"Indir", "Addr"} = v.flags
         /\ v = Value(v.typ, v.ptr, v.flags)
BY DEF ValueFits, RO, ro

LEMMA ValueIs ==
  ASSUME NEW t, NEW p, NEW f
  PROVE  LET v == Value(t, p, f) IN v.typ = t /\ v.ptr = p /\ v.flags = f /\ v = Value(v.typ, v.ptr, v.flags)
BY DEF Value

LEMMA NoTypeNone == NoType \notin Types
BY TypesAssumption

(* How Values come to fit.                                                 *)
LEMMA DirectFits ==
  ASSUME NEW m, NEW F, NEW t \in Types, NEW w, Direct(t), Plain(m, F, w, Leaves[t][1])
  PROVE  ValueFits(m, F, Value(t, w, {}))
BY ValueIs, NoTypeNone DEF ValueFits

LEMMA DataFits ==
  ASSUME NEW m, NEW F, NEW t \in Types, NEW a, Data(m, F, a, t)
  PROVE  ValueFits(m, F, Value(t, a, {"Indir"}))
BY ValueIs, NoTypeNone DEF ValueFits

LEMMA VariableFits ==
  ASSUME NEW m, NEW F, NEW t \in Types, NEW a, Holds(m, a, t, 1), a.obj \notin F
  PROVE  ValueFits(m, F, Value(t, a, {"Indir", "Addr"}))
BY ValueIs, NoTypeNone DEF ValueFits

LEMMA InvalidFits ==
  ASSUME NEW m, NEW F
  PROVE  ValueFits(m, F, Invalid)
BY ValueIs DEF ValueFits, Invalid

LEMMA EfaceFits ==
  ASSUME NEW m, NEW F, NEW t \in Types, NEW w, Kind(t) # "iface",
         IF Direct(t) THEN Plain(m, F, w, Leaves[t][1]) ELSE Data(m, F, w, t)
  PROVE  Boxed(m, F, Eface(t, w))
<1>1. Eface(t, w).typ = t /\ Eface(t, w).data = w
  BY DEF Eface
<1> QED  BY <1>1 DEF Boxed

LEMMA ContentFits ==
  ASSUME NEW m, NEW F, Sound(m, F), NEW v, ValueFits(m, F, v), v.typ \in Types
  PROVE  Many(m, F, Content(m, v), v.typ, 1)
<1>1. CASE "Indir" \in v.flags
  <2>1. Data(m, F, v.ptr, v.typ) \/ Holds(m, v.ptr, v.typ, 1)
    BY <1>1, NoTypeNone DEF ValueFits
  <2> QED  BY <1>1, <2>1, LoadedData DEF Content
<1>2. CASE "Indir" \notin v.flags
  <2>1. Direct(v.typ) /\ Plain(m, F, v.ptr, Leaves[v.typ][1])
    BY <1>2, NoTypeNone DEF ValueFits
  <2>2. /\ Size(v.typ) = 1 /\ Kind(Leaves[v.typ][1]) \in {"ptr", "map"}
        /\ Cell(v.typ, 1) = Leaves[v.typ][1]
    BY <2>1, DirectFacts
  <2>3. Fits(m, F, v.ptr, Cell(v.typ, 1))
    BY <2>1, <2>2 DEF Fits
  <2>4. Content(m, v) = <<v.ptr>>
    BY <1>2 DEF Content
  <2>5. IsSeq(<<v.ptr>>) /\ Len(<<v.ptr>>) = 1 /\ DOMAIN <<v.ptr>> = {1} /\ <<v.ptr>>[1] = v.ptr
    BY SeqOne
  <2> HIDE DEF Fits
  <2> QED  BY <2>2, <2>3, <2>4, <2>5 DEF Many
<1> QED  BY <1>1, <1>2

LEMMA WordFits ==
  ASSUME NEW m, NEW F, Sound(m, F), NEW v, ValueFits(m, F, v), v.typ \in Types
  PROVE  /\ Kind(v.typ) \notin {"struct", "array"} => Fits(m, F, Content(m, v)[1], v.typ)
         /\ Direct(v.typ) => Plain(m, F, Content(m, v)[1], Leaves[v.typ][1])
<1>1. Size(v.typ) \in Nat \ {0} /\ 1 * Size(v.typ) = Size(v.typ)
  BY TypeFacts
<1>2. Many(m, F, Content(m, v), v.typ, 1)
  BY ContentFits
<1>3. 1 \in DOMAIN Content(m, v)
  BY <1>1, <1>2, SeqDomain DEF Many
<1>4. Fits(m, F, Content(m, v)[1], Cell(v.typ, 1))
  BY <1>2, <1>3 DEF Many
<1>5. Kind(v.typ) \notin {"struct", "array"} => Cell(v.typ, 1) = v.typ
  BY SimpleFacts
<1>6. Direct(v.typ) => Cell(v.typ, 1) = Leaves[v.typ][1] /\ Kind(Cell(v.typ, 1)) # "iface"
  BY DirectFacts
<1>7. Kind(Cell(v.typ, 1)) # "iface" => Plain(m, F, Content(m, v)[1], Cell(v.typ, 1))
  BY <1>4 DEF Fits
<1> QED  BY <1>4, <1>5, <1>6, <1>7

LEMMA UnpackedFits ==
  ASSUME NEW m, NEW F, NEW w, Boxed(m, F, w)
  PROVE  ValueFits(m, F, unpackEface(w))
<1>1. CASE w = Zero
  BY <1>1, InvalidFits DEF unpackEface
<1>2. CASE w # Zero
  <2>1. /\ w.typ \in Types
        /\ IF Direct(w.typ) THEN Plain(m, F, w.data, Leaves[w.typ][1]) ELSE Data(m, F, w.data, w.typ)
    BY <1>2 DEF Boxed
  <2> QED  BY <1>2, <2>1, DirectFits, DataFits DEF unpackEface
<1> QED  BY <1>1, <1>2

LEMMA PointedFits ==
  ASSUME NEW F, Sound(mem, F), NEW v, ValueFits(mem, F, v), v.typ \in Types, Kind(v.typ) = "ptr"
  PROVE  ValueFits(mem, F, ElemOfPointer(v))
<1>1. CASE Word(v) = Zero
  BY <1>1, InvalidFits DEF ElemOfPointer
<1>2. CASE Word(v) # Zero
  <2>1. Plain(mem, F, Word(v), v.typ)
    BY WordFits DEF Fits, Word
  <2>2. Holds(mem, Word(v), rtype[v.typ].elem, 1) /\ Word(v).obj \notin F
    BY <1>2, <2>1 DEF Plain, Integer, Is
  <2>3. rtype[v.typ].elem \in Types
    BY WordsAssumption
  <2>4. ElemOfPointer(v) = Value(rtype[v.typ].elem, Word(v), {} \cup {"Indir", "Addr"})
    BY <1>2, PlainFlags DEF ElemOfPointer
  <2> QED  BY <2>2, <2>3, <2>4, VariableFits
<1> QED  BY <1>1, <1>2

LEMMA FieldFits ==
  ASSUME NEW m, NEW F, NEW v, ValueFits(m, F, v), v.typ \in Types, Kind(v.typ) \in {"struct", "array"},
         NEW k \in DOMAIN rtype[v.typ].parts
  PROVE  ValueFits(m, F, FieldOf(v, k)) /\ ValueFits(m, F, IndexOf(v, k))
<1> DEFINE f == rtype[v.typ].parts[k]
           t == v.typ
           b == At(v.ptr.obj, v.ptr.off + f.offset)
           x == Value(f.typ, Add(v, f.offset), v.flags)
<1>1. /\ f.typ \in Types /\ f.offset \in Nat /\ f.offset + Size(f.typ) <= Size(t)
      /\ \A j \in 1..Size(f.typ) : Leaves[t][f.offset + j] = Leaves[f.typ][j]
      /\ Direct(t) => Direct(f.typ)
  BY PartFacts
<1>2. Size(t) \in Nat \ {0} /\ Size(f.typ) \in Nat \ {0}
  BY <1>1, TypeFacts
<1>3. FieldOf(v, k) = x /\ IndexOf(v, k) = x
  <2>1. (v.flags \cap {"Indir", "Addr"}) \cup {} = v.flags
    BY PlainFlags
  <2> QED  BY <2>1, PlainFlags DEF FieldOf, IndexOf
<1>4. Holds(m, v.ptr, t, 1) => Holds(m, b, f.typ, 1) /\ b.obj = v.ptr.obj
  BY HoldsPart DEF At
<1>5. Zeroed(v.ptr, t) => Zeroed(b, f.typ)
  <2> SUFFICES ASSUME Zeroed(v.ptr, t)  PROVE Zeroed(b, f.typ)
    OBVIOUS
  <2>1. v.ptr.obj = 1 /\ v.ptr.off \in Nat /\ v.ptr.off + Size(t) <= MaxZero /\ MaxZero \in Nat
    BY WordsAssumption DEF Zeroed, Addresses
  <2>2. b.obj = v.ptr.obj /\ b.off = v.ptr.off + f.offset /\ b = [obj |-> b.obj, off |-> b.off]
    BY DEF At
  <2> HIDE DEF b, f, t, x
  <2>3. b.obj = 1 /\ b \in Addresses
    BY <1>1, <2>1, <2>2 DEF Addresses
  <2>4. /\ f.offset \in Nat /\ Size(f.typ) \in Nat /\ Size(t) \in Nat
        /\ f.offset + Size(f.typ) <= Size(t)
    BY <1>1, <1>2
  <2> DEFINE from == v.ptr.off
             s == Size(f.typ)
             all == Size(t)
             by == f.offset
  <2>5. /\ from \in Nat /\ by \in Nat /\ s \in Nat /\ all \in Nat
        /\ by + s <= all /\ from + all <= MaxZero /\ MaxZero \in Nat
    BY ONLY <2>1, <2>4, Zenon
  <2>6. b.off = from + by
    BY ONLY <2>2, Zenon
  <2> HIDE DEF from, s, all, by
  <2>7. from + by + s <= MaxZero
    BY ONLY <2>5
  <2>8. b.off + s <= MaxZero
    BY ONLY <2>6, <2>7, Zenon
  <2> QED  BY <2>8, <2>3 DEF Zeroed, s
<1>6. ASSUME v.flags = {}  PROVE ValueFits(m, F, x)
  <2>1. Direct(t) /\ Plain(m, F, v.ptr, Leaves[t][1])
    BY <1>6, NoTypeNone DEF ValueFits
  <2>2. Size(t) = 1
    BY <2>1, DirectFacts
  <2>3. f.offset = 0
    BY <1>1, <1>2, <2>2
  <2>4. Leaves[t][1] = Leaves[f.typ][1]
    BY <1>1, <1>2, <2>3
  <2>5. Add(v, f.offset) = v.ptr
    BY <1>6 DEF Add
  <2> QED  BY <1>1, <1>6, <2>1, <2>4, <2>5, DirectFits
<1>7. "Indir" \in v.flags => Add(v, f.offset) = b
  BY DEF Add
<1>8. ASSUME v.flags = {"Indir"}  PROVE ValueFits(m, F, x)
  <2>1. Data(m, F, v.ptr, t)
    BY <1>8, NoTypeNone DEF ValueFits
  <2>2. Data(m, F, b, f.typ)
    BY <1>4, <1>5, <2>1 DEF Data
  <2> HIDE DEF b
  <2> QED  BY <1>1, <1>7, <1>8, <2>2, DataFits
<1>9. ASSUME v.flags = {"Indir", "Addr"}  PROVE ValueFits(m, F, x)
  <2>1. Holds(m, v.ptr, t, 1) /\ v.ptr.obj \notin F
    BY <1>9, NoTypeNone DEF ValueFits
  <2>2. Holds(m, b, f.typ, 1) /\ b.obj \notin F
    BY <1>4, <2>1
  <2> HIDE DEF b
  <2> QED  BY <1>1, <1>7, <1>9, <2>2, VariableFits
<1> QED  BY <1>3, <1>6, <1>8, <1>9, PlainFlags

(* A new variable, or new data.                                            *)
LEMMA FreshData ==
  ASSUME NEW m, NEW F, Sound(m, F), NEW t \in Types, NEW ws, Many(m, F, ws, t, 1)
  PROVE  LET m2 == Alloc(m, t, ws)  F2 == F \cup {Len(m) + 1}  a == At(Len(m) + 1, 0) IN
         Sound(m2, F2) /\ Keeps(m, F, m2, F2) /\ Data(m2, F2, a, t) /\ ValueFits(m2, F2, Value(t, a, {"Indir"}))
<1> DEFINE m2 == Alloc(m, t, ws)
           F2 == F \cup {Len(m) + 1}
           a  == At(Len(m) + 1, 0)
<1>1. Sound(m2, F2) /\ Keeps(m, F, m2, F2) /\ Holds(m2, a, t, 1) /\ a.obj = Len(m) + 1
  BY Allocated
<1>2. Data(m2, F2, a, t)
  BY <1>1 DEF Data
<1> QED  BY <1>1, <1>2, DataFits

LEMMA InterfaceFits ==
  ASSUME NEW F, Sound(mem, F), NEW v, ValueFits(mem, F, v), v.typ \in Types
  PROVE  \E F2 : LET i == valueInterface(v) IN
           Sound(i.mem, F2) /\ Keeps(mem, F, i.mem, F2) /\ Boxed(i.mem, F2, i.word)
<1>1. Keeps(mem, F, mem, F)
  BY KeepsSame DEF Sound, IsSeq
<1>2. CASE Kind(v.typ) = "iface"
  <2>1. Boxed(mem, F, Word(v))
    BY <1>2, WordFits DEF Fits, Word
  <2>2. valueInterface(v).mem = mem /\ valueInterface(v).word = Word(v)
    BY <1>2 DEF valueInterface
  <2> QED  BY <1>1, <2>1, <2>2
<1>3. CASE Kind(v.typ) # "iface" /\ Direct(v.typ)
  <2>1. valueInterface(v).mem = mem /\ valueInterface(v).word = Eface(v.typ, Word(v))
    BY <1>3 DEF valueInterface, packEface
  <2>2. Plain(mem, F, Word(v), Leaves[v.typ][1])
    BY <1>3, WordFits DEF Word
  <2>3. Boxed(mem, F, Eface(v.typ, Word(v)))
    BY <1>3, <2>2, EfaceFits
  <2> QED  BY <1>1, <2>1, <2>3
<1>4. CASE Kind(v.typ) # "iface" /\ ~Direct(v.typ) /\ Addressable(v)
  <2> DEFINE m2 == Alloc(mem, v.typ, Content(mem, v))
             F2 == F \cup {Len(mem) + 1}
  <2>1. valueInterface(v).mem = m2 /\ valueInterface(v).word = Eface(v.typ, Fresh)
    BY <1>4 DEF valueInterface, packEface
  <2>2. Sound(m2, F2) /\ Keeps(mem, F, m2, F2) /\ Data(m2, F2, Fresh, v.typ)
    BY ContentFits, FreshData DEF Fresh
  <2>3. Boxed(m2, F2, Eface(v.typ, Fresh))
    BY <1>4, <2>2, EfaceFits
  <2> HIDE DEF m2, F2
  <2> QED  BY <2>1, <2>2, <2>3
<1>5. CASE Kind(v.typ) # "iface" /\ ~Direct(v.typ) /\ ~Addressable(v)
  <2>1. valueInterface(v).mem = mem /\ valueInterface(v).word = Eface(v.typ, v.ptr)
    BY <1>5 DEF valueInterface, packEface
  <2>2. v.flags = {"Indir"}
    BY <1>5, NoTypeNone DEF ValueFits, Addressable
  <2>3. Data(mem, F, v.ptr, v.typ)
    BY <2>2, NoTypeNone DEF ValueFits
  <2>4. Boxed(mem, F, Eface(v.typ, v.ptr))
    BY <1>5, <2>3, EfaceFits
  <2> QED  BY <1>1, <2>1, <2>4
<1> QED  BY <1>2, <1>3, <1>4, <1>5

-----------------------------------------------------------------------------
(* The operations                                                          *)

Fit(F)   == AllFits(mem, F, val, held)
Moves(F) == \E F2 : Keeps(mem, F, mem', F2) /\ AllFits(mem', F2, val', held')

LEMMA FitFacts ==
  ASSUME NEW F, Fit(F)
  PROVE  /\ Sound(mem, F) /\ Keeps(mem, F, mem, F) /\ Boxed(mem, F, held) /\ Len(mem) \in Nat
         /\ \A r \in Registers : ValueFits(mem, F, val[r])
BY KeepsSame DEF Fit, AllFits, Sound, IsSeq

LEMMA PutMoves ==
  ASSUME NEW F, Fit(F), NEW F2, Sound(mem', F2), Keeps(mem, F, mem', F2),
         NEW r \in Registers, NEW v, ValueFits(mem', F2, v), Put(r, v), held' = held
  PROVE  Moves(F)
<1>1. \A s \in Registers : ValueFits(mem', F2, val[s])
  BY KeepsValue DEF Fit, AllFits
<1>2. val' = [val EXCEPT ![r] = v] /\ val = [s \in Registers |-> val[s]]
  BY DEF Put, Fit, AllFits
<1>3. /\ \A s \in Registers : val'[s] = IF s = r THEN v ELSE val[s]
      /\ val' = [s \in Registers |-> val'[s]]
  BY <1>2
<1>4. \A s \in Registers : ValueFits(mem', F2, val'[s])
  BY <1>1, <1>3
<1>5. Boxed(mem', F2, held')
  BY KeepsBoxed DEF Fit, AllFits
<1> QED  BY <1>3, <1>4, <1>5 DEF Moves, AllFits

LEMMA PutOnly ==
  ASSUME NEW F, Fit(F), NEW r \in Registers, NEW v, ValueFits(mem, F, v), Put(r, v),
         UNCHANGED <<mem, held>>
  PROVE  Moves(F)
<1>1. Sound(mem', F) /\ Keeps(mem, F, mem', F) /\ ValueFits(mem', F, v)
  BY FitFacts
<1> QED  BY <1>1, PutMoves

LEMMA HeldMoves ==
  ASSUME NEW F, Fit(F), NEW F2, Sound(mem', F2), Keeps(mem, F, mem', F2),
         UNCHANGED val, Boxed(mem', F2, held')
  PROVE  Moves(F)
<1>1. \A s \in Registers : ValueFits(mem', F2, val[s])
  BY KeepsValue DEF Fit, AllFits
<1> QED  BY <1>1 DEF Moves, AllFits, Fit

LEMMA MemoryMoves ==
  ASSUME NEW F, Fit(F), NEW F2, Sound(mem', F2), Keeps(mem, F, mem', F2), UNCHANGED <<val, held>>
  PROVE  Moves(F)
<1>1. Boxed(mem', F2, held')
  BY KeepsBoxed DEF Fit, AllFits
<1> QED  BY <1>1, HeldMoves

(* A variable, or data, of type t with the words ws, for a register.       *)
LEMMA PutFresh ==
  ASSUME NEW F, Fit(F), NEW r \in Registers, NEW t \in Types, NEW ws, Many(mem, F, ws, t, 1),
         mem' = Alloc(mem, t, ws), Put(r, Value(t, Fresh, {"Indir"})), held' = held
  PROVE  Moves(F)
<1> DEFINE F2 == F \cup {Len(mem) + 1}
<1>1. Sound(mem', F2) /\ Keeps(mem, F, mem', F2) /\ ValueFits(mem', F2, Value(t, Fresh, {"Indir"}))
  BY FitFacts, FreshData DEF Fresh
<1> HIDE DEF F2
<1> QED  BY <1>1, PutMoves

LEMMA InterfaceMoves ==
  ASSUME NEW F, Fit(F), NEW r \in Registers, Interface(r)
  PROVE  Moves(F)
<1> DEFINE v == val[r]
<1>1. v.typ \in Types /\ UNCHANGED val
  BY DEF Interface, Shown
<1>2. PICK F2 : LET i == valueInterface(v) IN
        Sound(i.mem, F2) /\ Keeps(mem, F, i.mem, F2) /\ Boxed(i.mem, F2, i.word)
  BY <1>1, FitFacts, InterfaceFits
<1>3. mem' = valueInterface(v).mem /\ held' = valueInterface(v).word
  BY DEF Interface
<1> QED  BY <1>1, <1>2, <1>3, HeldMoves

LEMMA ValueOfMoves ==
  ASSUME NEW F, Fit(F), NEW r \in Registers, ValueOf(r)
  PROVE  Moves(F)
BY FitFacts, UnpackedFits, PutOnly DEF ValueOf

LEMMA ElemMoves ==
  ASSUME NEW F, Fit(F), NEW r \in Registers, NEW s \in Registers, Elem(r, s)
  PROVE  Moves(F)
<1> DEFINE v == val[s]
<1>1. Sound(mem, F) /\ ValueFits(mem, F, v) /\ UNCHANGED <<mem, held>>
  BY FitFacts DEF Elem
<1>2. CASE Is(v.typ, "iface") /\ Put(r, ElemOfInterface(v))
  <2>1. ElemOfInterface(v) = unpackEface(Word(v))
    <3> DEFINE x == unpackEface(Word(v))
    <3>1. ro(v.flags) = {}
      BY <1>1, PlainFlags
    <3>2. [x EXCEPT !.flags = @ \cup {}] = x
      BY DEF unpackEface, Value, Invalid
    <3> QED  BY <3>1, <3>2 DEF ElemOfInterface
  <2>2. Boxed(mem, F, Word(v))
    BY <1>1, <1>2, WordFits DEF Is, Fits, Word
  <2> QED  BY <1>1, <1>2, <2>1, <2>2, UnpackedFits, PutOnly
<1>3. CASE Is(v.typ, "ptr") /\ Put(r, ElemOfPointer(v))
  BY <1>1, <1>3, PointedFits, PutOnly DEF Is
<1> QED  BY <1>2, <1>3 DEF Elem

LEMMA PartMoves ==
  ASSUME NEW F, Fit(F), NEW r \in Registers, NEW s \in Registers, Part(r, s)
  PROVE  Moves(F)
<1> DEFINE v == val[s]
<1>1. PICK k \in DOMAIN rtype[v.typ].parts :
        /\ v.typ \in Types /\ Kind(v.typ) \in {"struct", "array"}
        /\ Put(r, FieldOf(v, k)) \/ Put(r, IndexOf(v, k))
  BY DEF Part, Is
<1>2. ValueFits(mem, F, FieldOf(v, k)) /\ ValueFits(mem, F, IndexOf(v, k))
  BY <1>1, FitFacts, FieldFits
<1>3. UNCHANGED <<mem, held>>
  BY DEF Part
<1> QED  BY <1>1, <1>2, <1>3, PutOnly

LEMMA PointerFits ==
  ASSUME NEW m, NEW F, NEW v, ValueFits(m, F, v), v.typ \in Types, Addressable(v),
         NEW p \in PointersTo(v.typ)
  PROVE  ValueFits(m, F, AddrOf(v, p)) /\ AddrOf(v, p) = Value(p, v.ptr, {}) /\ p \in Types /\ Direct(p)
<1>1. p \in Types /\ Kind(p) = "ptr" /\ rtype[p].elem = v.typ /\ Direct(p)
  BY TypesAssumption DEF PointersTo
<1>2. Leaves[p][1] = p
  BY <1>1, SimpleFacts
<1>3. Holds(m, v.ptr, v.typ, 1) /\ v.ptr.obj \notin F
  BY NoTypeNone DEF ValueFits, Addressable
<1>4. Plain(m, F, v.ptr, p)
  BY <1>1, <1>3 DEF Plain
<1>5. AddrOf(v, p) = Value(p, v.ptr, {})
  BY PlainFlags DEF AddrOf
<1> QED  BY <1>1, <1>2, <1>4, <1>5, DirectFits

LEMMA AddrMoves ==
  ASSUME NEW F, Fit(F), NEW r \in Registers, NEW s \in Registers, Addr(r, s)
  PROVE  Moves(F)
<1>1. PICK p \in PointersTo(val[s].typ) : Put(r, AddrOf(val[s], p))
  BY DEF Addr
<1>2. ValueFits(mem, F, val[s]) /\ Addressable(val[s]) /\ UNCHANGED <<mem, held>>
  BY FitFacts DEF Addr
<1>3. val[s].typ \in Types
  BY <1>2 DEF ValueFits, Addressable
<1> QED  BY <1>1, <1>2, <1>3, PointerFits, PutOnly

LEMMA NewMoves ==
  ASSUME NEW F, Fit(F), NEW r \in Registers, NEW t \in Types, New(r, t)
  PROVE  Moves(F)
<1> DEFINE m2 == Alloc(mem, t, Zeros(1 * Size(t)))
<1>1. PICK p \in PointersTo(t) : Put(r, Value(p, Fresh, {}))
  BY DEF New
<1>2. mem' = m2 /\ held' = held
  <2>1. 1 * Size(t) = rtype[t].size
    BY TypeFacts DEF Size
  <2> QED  BY <2>1 DEF New
<1>3. /\ Sound(m2, F) /\ Keeps(mem, F, m2, F) /\ Holds(m2, Fresh, t, 1) /\ Fresh.obj = Len(mem) + 1
  BY FitFacts, ZerosFit, Allocated DEF Fresh
<1>4. Fresh.obj \notin F
  <2>1. F \subseteq 2..Len(mem) /\ Len(mem) \in Nat
    BY FitFacts DEF Sound
  <2> QED  BY <1>3, <2>1
<1>5. p \in Types /\ Kind(p) = "ptr" /\ rtype[p].elem = t /\ Direct(p)
  BY TypesAssumption DEF PointersTo
<1> HIDE DEF m2
<1>6. Plain(m2, F, Fresh, p)
  BY <1>3, <1>4, <1>5 DEF Plain
<1>7. Leaves[p][1] = p
  BY <1>5, SimpleFacts
<1>8. ValueFits(m2, F, Value(p, Fresh, {}))
  BY <1>5, <1>6, <1>7, DirectFits
<1> QED  BY <1>1, <1>2, <1>3, <1>8, PutMoves

LEMMA ZeroMoves ==
  ASSUME NEW F, Fit(F), NEW r \in Registers, NEW t \in Types, ZeroOf(r, t)
  PROVE  Moves(F)
<1>1. CASE Direct(t) /\ Put(r, Value(t, Zero, {})) /\ UNCHANGED mem
  BY <1>1, ZeroFits, DirectFits, PutOnly DEF ZeroOf
<1>2. CASE Put(r, Value(t, zeroVal, {"Indir"})) /\ rtype[t].size <= MaxZero /\ UNCHANGED mem
  <2>1. zeroVal \in Addresses /\ zeroVal.obj = 1 /\ zeroVal.off = 0
    BY DEF zeroVal, At, Addresses
  <2>2. zeroVal.off + Size(t) <= MaxZero
    BY <1>2, <2>1, TypeFacts DEF Size
  <2>3. Data(mem, F, zeroVal, t)
    BY <2>1, <2>2 DEF Data, Zeroed
  <2> QED  BY <1>2, <2>3, DataFits, PutOnly DEF ZeroOf
<1>3. CASE Put(r, Value(t, Fresh, {"Indir"})) /\ mem' = Alloc(mem, t, Zeros(rtype[t].size))
  <2>1. 1 * Size(t) = rtype[t].size
    BY TypeFacts DEF Size
  <2>2. Many(mem, F, Zeros(rtype[t].size), t, 1)
    BY <2>1, ZerosFit
  <2> QED  BY <1>3, <2>2, PutFresh DEF ZeroOf
<1> QED  BY <1>1, <1>2, <1>3 DEF ZeroOf

-----------------------------------------------------------------------------
(* Induction and iteration                                                 *)

LEMMA LeastNumber ==
  ASSUME NEW T \in SUBSET Nat, T # {}
  PROVE  \E x \in T : \A y \in T : x <= y
<1> DEFINE R == {ss \in Nat \X Nat : ss[1] < ss[2]}
<1>1. IsWellFoundedOn(R, Nat)
  BY NatLessThanWellFounded DEF OpToRel
<1> HIDE DEF R
<1>2. PICK x \in T : \A y \in T : ~(<<y, x>> \in R)
  BY <1>1, WFMin
<1>3. ASSUME NEW y \in T, y < x  PROVE <<y, x>> \in R
  BY <1>3 DEF R
<1>4. \A y \in T : ~(y < x)
  BY <1>2, <1>3
<1> QED  BY <1>4

LEMMA Induction ==
  ASSUME NEW S, 0 \in S, \A n \in Nat : n \in S => n + 1 \in S
  PROVE  \A n \in Nat : n \in S
<1> SUFFICES ASSUME NEW n \in Nat, n \notin S  PROVE FALSE
  OBVIOUS
<1> DEFINE T == {k \in Nat : k \notin S}
<1>1. PICK x \in T : \A y \in T : x <= y
  <2>1. n \in T
    OBVIOUS
  <2> QED  BY <2>1, LeastNumber
<1>2. x # 0
  OBVIOUS
<1>3. x - 1 \in Nat /\ x - 1 \notin T
  BY <1>1, <1>2
<1> QED  BY <1>1, <1>3

LEMMA Iterates ==
  ASSUME NEW S, NEW a \in S, NEW G \in [S -> S]
  PROVE  \E f \in [Nat -> S] : f[0] = a /\ \A n \in Nat : f[n + 1] = G[f[n]]
<1> DEFINE Solves(g, n) == g \in [0..n -> S] /\ g[0] = a /\ \A k \in 0..(n - 1) : g[k + 1] = G[g[k]]
<1>1. \A n \in Nat : \E g : Solves(g, n)
  <2> DEFINE N == {n \in Nat : \E g : Solves(g, n)}
  <2>1. 0 \in N
    <3> DEFINE g == [k \in 0..0 |-> a]
    <3>1. Solves(g, 0)
      OBVIOUS
    <3> QED  BY <3>1
  <2>2. ASSUME NEW n \in Nat, n \in N  PROVE n + 1 \in N
    <3>1. PICK g : Solves(g, n)
      BY <2>2
    <3> DEFINE h == [k \in 0..(n + 1) |-> IF k = n + 1 THEN G[g[n]] ELSE g[k]]
    <3>2. /\ \A k \in 0..n : h[k] = g[k]
          /\ h[n + 1] = G[g[n]] /\ h \in [0..(n + 1) -> S]
      BY <3>1
    <3> HIDE DEF h
    <3>3. ASSUME NEW k \in 0..((n + 1) - 1)  PROVE h[k + 1] = G[h[k]]
      <4>1. CASE k = n
        BY <3>2, <4>1
      <4>2. CASE k # n
        <5>1. k \in 0..(n - 1) /\ k \in 0..n /\ k + 1 \in 0..n
          BY <4>2
        <5> QED  BY <3>1, <3>2, <5>1
      <4> QED  BY <4>1, <4>2
    <3>4. h[0] = a
      BY <3>1, <3>2
    <3>5. Solves(h, n + 1)
      BY <3>2, <3>3, <3>4
    <3> QED  BY <3>5
  <2> HIDE DEF N
  <2>3. \A n \in Nat : n \in N
    BY <2>1, <2>2, Induction
  <2> QED  BY <2>3 DEF N
<1>2. \A d \in Nat : \A g, h, n, m :
        n \in Nat /\ m \in Nat /\ d <= n /\ d <= m /\ Solves(g, n) /\ Solves(h, m) => g[d] = h[d]
  <2> DEFINE D == {d \in Nat : \A g, h, n, m :
        n \in Nat /\ m \in Nat /\ d <= n /\ d <= m /\ Solves(g, n) /\ Solves(h, m) => g[d] = h[d]}
  <2>1. 0 \in D
    OBVIOUS
  <2>2. ASSUME NEW d \in Nat, d \in D  PROVE d + 1 \in D
    <3> HIDE DEF Solves
    <3> SUFFICES ASSUME NEW g, NEW h, NEW n \in Nat, NEW m \in Nat, d + 1 <= n, d + 1 <= m,
                        Solves(g, n), Solves(h, m)
                 PROVE  g[d + 1] = h[d + 1]
      OBVIOUS
    <3>1. d <= n /\ d <= m /\ d \in 0..(n - 1) /\ d \in 0..(m - 1)
      OBVIOUS
    <3>2. g[d] = h[d]
      BY <2>2, <3>1
    <3> USE DEF Solves
    <3> QED  BY <3>1, <3>2
  <2> HIDE DEF D
  <2>3. \A d \in Nat : d \in D
    BY <2>1, <2>2, Induction
  <2> QED  BY <2>3 DEF D
<1> DEFINE f == [d \in Nat |-> (CHOOSE g : Solves(g, d))[d]]
<1>3. \A d \in Nat : \E g : Solves(g, d) /\ f[d] = g[d]
  <2> SUFFICES ASSUME NEW d \in Nat  PROVE \E g : Solves(g, d) /\ f[d] = g[d]
    OBVIOUS
  <2> DEFINE x == CHOOSE g : Solves(g, d)
  <2>1. Solves(x, d)
    BY <1>1
  <2>2. f[d] = x[d]
    OBVIOUS
  <2> HIDE DEF x, f
  <2> QED  BY <2>1, <2>2
<1>4. f = [d \in Nat |-> f[d]]
  OBVIOUS
<1> HIDE DEF f
<1>5. \A d \in Nat : f[d] \in S
  BY <1>3
<1>6. f[0] = a
  BY <1>3
<1>7. ASSUME NEW n \in Nat  PROVE f[n + 1] = G[f[n]]
  <2>0. n + 1 \in Nat
    OBVIOUS
  <2>1. PICK g : Solves(g, n + 1) /\ f[n + 1] = g[n + 1]
    BY <1>3, <2>0
  <2>2. PICK h : Solves(h, n) /\ f[n] = h[n]
    BY <1>3
  <2>3. g[n] = h[n]
    <3>1. n <= n /\ n <= n + 1 /\ n + 1 \in Nat
      OBVIOUS
    <3> HIDE DEF Solves
    <3> QED  BY <1>2, <2>1, <2>2, <3>1
  <2>4. n \in 0..((n + 1) - 1)
    OBVIOUS
  <2> QED  BY <2>1, <2>2, <2>3, <2>4
<1>8. f \in [Nat -> S]
  BY <1>4, <1>5
<1> QED  BY <1>6, <1>7, <1>8

LEMMA TwoDef ==
  /\ Two[0] = 1
  /\ \A k \in Nat : Two[k] \in Nat \ {0} /\ Two[k + 1] = 2 * Two[k]
<1> DEFINE G == [x \in Nat |-> 2 * x]
           R(g, k) == IF k = 0 THEN 1 ELSE 2 * g[k - 1]
<1>1. G \in [Nat -> Nat]
  OBVIOUS
<1>2. PICK f \in [Nat -> Nat] : f[0] = 1 /\ \A n \in Nat : f[n + 1] = G[f[n]]
  <2> DEFINE a == 1
             S == Nat
  <2>1. a \in S /\ G \in [S -> S]
    BY <1>1
  <2> HIDE DEF G, S, a
  <2>2. \E f \in [Nat -> S] : f[0] = a /\ \A n \in Nat : f[n + 1] = G[f[n]]
    BY <2>1, Iterates
  <2> QED  BY <2>2 DEF a, S
<1>3. ASSUME NEW k \in Nat  PROVE f[k] = R(f, k)
  <2>1. CASE k = 0
    BY <1>2, <2>1
  <2>2. CASE k # 0
    <3>1. k - 1 \in Nat /\ (k - 1) + 1 = k
      BY <2>2
    <3>2. f[k] = G[f[k - 1]] /\ f[k - 1] \in Nat
      BY <1>2, <3>1
    <3> QED  BY <2>2, <3>2
  <2> QED  BY <2>1, <2>2
<1>4. f = [k \in Nat |-> IF k = 0 THEN 1 ELSE 2 * f[k - 1]]
  <2>1. f = [k \in Nat |-> f[k]]
    BY <1>2
  <2>2. \A k \in Nat : f[k] = IF k = 0 THEN 1 ELSE 2 * f[k - 1]
    BY <1>3
  <2> QED  BY <2>1, <2>2
<1>5. \E g : g = [k \in Nat |-> IF k = 0 THEN 1 ELSE 2 * g[k - 1]]
  BY <1>4
<1>6. Two = [k \in Nat |-> IF k = 0 THEN 1 ELSE 2 * Two[k - 1]]
  BY <1>5, Zenon DEF Two
<1>7. \A k \in Nat : Two[k] = IF k = 0 THEN 1 ELSE 2 * Two[k - 1]
  BY <1>6
<1>8. Two[0] = 1
  BY <1>7
<1>9. ASSUME NEW k \in Nat  PROVE Two[k + 1] = 2 * Two[k]
  <2>1. k + 1 \in Nat /\ k + 1 # 0 /\ (k + 1) - 1 = k
    OBVIOUS
  <2> QED  BY <1>7, <2>1
<1>10. \A k \in Nat : Two[k] \in Nat \ {0}
  <2> DEFINE N == {k \in Nat : Two[k] \in Nat \ {0}}
  <2>1. 0 \in N
    BY <1>8
  <2>2. \A n \in Nat : n \in N => n + 1 \in N
    BY <1>9
  <2> HIDE DEF N
  <2>3. \A n \in Nat : n \in N
    BY <2>1, <2>2, Induction
  <2> QED  BY <2>3 DEF N
<1> QED  BY <1>8, <1>9, <1>10

-----------------------------------------------------------------------------
(* Numbers, maps and conversions                                           *)

LEMMA OneFits ==
  ASSUME NEW m, NEW F, NEW t \in Types, Kind(t) \notin {"struct", "array"}, NEW w, Fits(m, F, w, t)
  PROVE  Many(m, F, <<w>>, t, 1)
<1>1. Size(t) = 1 /\ Cell(t, 1) = t
  BY SimpleFacts
<1>2. IsSeq(<<w>>) /\ Len(<<w>>) = 1 /\ DOMAIN <<w>> = {1} /\ <<w>>[1] = w
  BY SeqOne
<1> HIDE DEF Fits
<1> QED  BY <1>1, <1>2 DEF Many

LEMMA IntegerKind ==
  ASSUME NEW t, Integer(t)
  PROVE  /\ t \in Types /\ Kind(t) \in {"int", "uint"} /\ rtype[t].bits \in Nat \ {0}
         /\ Two[rtype[t].bits] \in Nat \ {0} /\ Two[rtype[t].bits - 1] \in Nat \ {0} /\ ~Direct(t)
<1>1. t \in Types /\ Kind(t) \in {"int", "uint"}
  BY DEF Integer, Is
<1>2. rtype[t].bits \in Nat \ {0} /\ ~Direct(t)
  BY <1>1, TypesAssumption
<1>3. rtype[t].bits - 1 \in Nat
  BY <1>2
<1> QED  BY <1>1, <1>2, <1>3, TwoDef

LEMMA EncodedFits ==
  ASSUME NEW m, NEW F, NEW t, Integer(t), NEW n \in Int
  PROVE  Fits(m, F, Encoded(n, t), t) /\ Many(m, F, <<Encoded(n, t)>>, t, 1)
<1>1. t \in Types /\ Kind(t) \in {"int", "uint"} /\ Two[rtype[t].bits] \in Nat \ {0}
  BY IntegerKind
<1> DEFINE x == Two[rtype[t].bits]
           b == Unsigned(n, rtype[t].bits)
<1>2. b \in 0..(x - 1)
  BY <1>1, ModRange DEF Unsigned
<1>3. Encoded(n, t) = IF b = 0 THEN Zero ELSE b
  BY DEF Encoded
<1> HIDE DEF b, x
<1>4. b # 0 => b \in 1..(x - 1)
  BY <1>2
<1>5. Plain(m, F, Encoded(n, t), t)
  BY <1>3, <1>4 DEF Plain, x
<1>6. Fits(m, F, Encoded(n, t), t)
  BY <1>1, <1>5 DEF Fits
<1> QED  BY <1>1, <1>6, OneFits

LEMMA NumberInt ==
  ASSUME NEW m, NEW F, Sound(m, F), NEW v, ValueFits(m, F, v), Integer(v.typ)
  PROVE  /\ Bits(Content(m, v)[1]) \in 0..(Two[rtype[v.typ].bits] - 1) /\ Number(m, v) \in Int
<1> DEFINE t == v.typ
           w == Content(m, v)[1]
           x == Two[rtype[t].bits]
           y == Two[rtype[t].bits - 1]
           b == Bits(w)
<1>1. t \in Types /\ Kind(t) \in {"int", "uint"} /\ x \in Nat \ {0} /\ y \in Nat \ {0}
  BY IntegerKind
<1>2. Plain(m, F, w, t)
  BY <1>1, WordFits DEF Fits
<1>3. w = Zero \/ w \in 1..(x - 1)
  BY <1>1, <1>2 DEF Plain
<1> HIDE DEF w, x, y
<1>4. b \in 0..(x - 1)
  <2>1. CASE w = Zero
    BY <1>1, <2>1 DEF Bits
  <2>2. CASE w # Zero
    <3>1. b = w /\ w \in 1..(x - 1)
      BY <1>3, <2>2 DEF Bits
    <3> QED  BY <1>1, <3>1
  <2> QED  BY <2>1, <2>2
<1> HIDE DEF b
<1>5. (b + y) % x \in Int
  BY <1>1, <1>4
<1>6. Signed(b, rtype[t].bits) = ((b + y) % x) - y
  BY DEF Signed, x, y
<1>7. Signed(b, rtype[t].bits) \in Int
  BY <1>1, <1>5, <1>6
<1>8. b \in Int
  BY <1>1, <1>4
<1>9. Number(m, v) \in Int
  BY <1>7, <1>8 DEF Number, b, w
<1> QED  BY <1>4, <1>9 DEF b, w, x

LEMMA MapWord ==
  ASSUME NEW m, NEW F, Sound(m, F), NEW v, ValueFits(m, F, v), v.typ \in Types, Kind(v.typ) = "map",
         Content(m, v)[1] # Zero
  PROVE  LET w == Content(m, v)[1] IN
         w \in Addresses /\ w.off = 0 /\ w.obj \in 2..Len(m) /\ m[w.obj].hmap /\ m[w.obj].typ = v.typ
<1>1. Plain(m, F, Content(m, v)[1], v.typ)
  BY WordFits DEF Fits
<1> QED  BY <1>1 DEF Plain, Integer, Is

LEMMA MapLoaded ==
  ASSUME NEW m, NEW F, Sound(m, F), NEW w, w.off = 0, w.obj \in 2..Len(m), m[w.obj].hmap,
         m[w.obj].words # <<>>
  PROVE  Many(m, F, Load(m, w, rtype[m[w.obj].typ].elem), rtype[m[w.obj].typ].elem, 1)
<1> DEFINE o == m[w.obj]
           e == rtype[o.typ].elem
           ws == o.words
           s  == Size(e)
<1>1. /\ o.typ \in Types /\ Kind(o.typ) = "map" /\ Len(ws) \in {0, s} /\ IsSeq(ws) /\ Base(o) = e
      /\ \A k \in DOMAIN ws : Fits(m, F, ws[k], Cell(e, k))
  BY DEF Sound, ObjectFits, Base
<1>2. e \in Types
  BY <1>1, WordsAssumption
<1>3. s \in Nat \ {0} /\ 1 * s = s
  BY <1>2, TypeFacts
<1>4. Len(ws) = s
  <2>1. Len(ws) = 0 => ws = <<>>
    <3> HIDE DEF ws
    <3> QED  BY <1>1 DEF IsSeq
  <2> QED  BY <1>1, <2>1
<1> DEFINE x == w.off
           l == SubSeq(ws, x + 1, x + s)
<1>5. Load(m, w, e) = l
  BY DEF Load, Size
<1>10. x = 0
  OBVIOUS
<1> HIDE DEF ws, s, e, x
<1>6. IsSeq(l) /\ Len(l) = s /\ \A k \in 1..s : l[k] = ws[x + k]
  <2>1. s \in Nat /\ IsSeq(ws)
    BY <1>1, <1>3
  <2>2. x \in Nat /\ x + s <= Len(ws)
    BY <1>4, <1>10, <2>1
  <2>3. /\ IsSeq(SubSeq(ws, x + 1, x + s)) /\ Len(SubSeq(ws, x + 1, x + s)) = s
        /\ \A k \in 1..s : SubSeq(ws, x + 1, x + s)[k] = ws[x + k]
    BY ONLY <2>1, <2>2, SeqSub
  <2> QED  BY <2>3
<1>7. DOMAIN l = 1..s /\ DOMAIN ws = 1..s
  BY <1>1, <1>4, <1>6, SeqDomain
<1> HIDE DEF l
<1>8. \A k \in 1..s : x + k = k
  BY <1>3, <1>10
<1>9. Many(m, F, l, e, 1)
  BY <1>1, <1>3, <1>6, <1>7, <1>8 DEF Many, s
<1> QED  BY <1>5, <1>9 DEF e

LEMMA MakeMapMoves ==
  ASSUME NEW F, Fit(F), NEW r \in Registers, NEW t \in Types, MakeMap(r, t)
  PROVE  Moves(F)
<1> DEFINE obj == Object(t, TRUE, <<>>)
           m2  == Append(mem, obj)
<1>1. Kind(t) = "map" /\ mem' = m2 /\ Put(r, Value(t, Fresh, {})) /\ held' = held
  BY DEF MakeMap
<1>2. Direct(t) /\ Leaves[t][1] = t
  BY <1>1, TypesAssumption, SimpleFacts
<1>3. /\ obj.typ = t /\ obj.hmap = TRUE /\ obj.words = <<>> /\ obj = Object(obj.typ, obj.hmap, obj.words)
  BY DEF Object
<1> HIDE DEF obj
<1>4. ObjectFits(mem, F, obj)
  <2>1. IsSeq(<<>>) /\ Len(<<>>) = 0 /\ DOMAIN <<>> = {}
    BY DEF IsSeq
  <2> QED  BY <1>1, <1>3, <2>1 DEF ObjectFits
<1>5. Len(mem) \in Nat /\ Len(mem) >= 1 /\ Sound(mem, F) /\ Len(mem) + 1 \notin F
  <2>1. Len(mem) \in Nat /\ Len(mem) >= 1 /\ Sound(mem, F) /\ F \subseteq 2..Len(mem)
    BY FitFacts DEF Sound
  <2> QED  BY <2>1
<1>6. Sound(m2, F) /\ Keeps(mem, F, m2, F) /\ m2[Len(mem) + 1] = obj /\ Len(m2) = Len(mem) + 1
  BY <1>4, <1>5, Grown
<1>7. Fresh \in Addresses /\ Fresh.off = 0 /\ Fresh.obj = Len(mem) + 1 /\ Fresh.obj \in 2..Len(m2)
  BY <1>5, <1>6 DEF Fresh, At, Addresses
<1> HIDE DEF m2
<1>8. Plain(m2, F, Fresh, t)
  BY <1>1, <1>3, <1>6, <1>7 DEF Plain
<1>9. ValueFits(m2, F, Value(t, Fresh, {}))
  BY <1>2, <1>8, DirectFits
<1> QED  BY <1>1, <1>6, <1>9, PutMoves

LEMMA MapIndexMoves ==
  ASSUME NEW F, Fit(F), NEW r \in Registers, NEW s \in Registers, MapIndex(r, s)
  PROVE  Moves(F)
<1> DEFINE v == val[s]
           w == Word(v)
           e == rtype[v.typ].elem
<1>1. Sound(mem, F) /\ ValueFits(mem, F, v) /\ v.typ \in Types /\ Kind(v.typ) = "map" /\ held' = held
  BY FitFacts DEF MapIndex, Is
<1>2. CASE ~HasEntry(v)
  BY <1>1, <1>2, InvalidFits, PutOnly DEF MapIndex
<1>3. CASE HasEntry(v)
  <2>1. /\ w.off = 0 /\ w.obj \in 2..Len(mem) /\ mem[w.obj].hmap /\ mem[w.obj].typ = v.typ
        /\ mem[w.obj].words # <<>>
    BY <1>1, <1>3, MapWord DEF HasEntry, Word
  <2>2. Many(mem, F, Load(mem, w, e), e, 1)
    BY <1>1, <2>1, MapLoaded
  <2>3. e \in Types
    BY <1>1, WordsAssumption
  <2>4. copyVal(r, e, {}, w)
    BY <1>1, <1>3, PlainFlags DEF MapIndex
  <2>5. CASE Direct(e)
    <3>1. /\ Size(e) = 1 /\ Kind(Leaves[e][1]) \in {"ptr", "map"} /\ Cell(e, 1) = Leaves[e][1]
      BY <2>3, <2>5, DirectFacts
    <3>2. 1 \in DOMAIN Load(mem, w, e)
      BY <2>2, <3>1, SeqDomain DEF Many
    <3>3. Fits(mem, F, Load(mem, w, e)[1], Leaves[e][1])
      BY <2>2, <3>1, <3>2 DEF Many
    <3>4. Plain(mem, F, Load(mem, w, e)[1], Leaves[e][1])
      BY <3>1, <3>3 DEF Fits
    <3>5. ValueFits(mem, F, Value(e, Load(mem, w, e)[1], {}))
      BY <2>3, <2>5, <3>4, DirectFits
    <3>6. Put(r, Value(e, Load(mem, w, e)[1], {})) /\ UNCHANGED mem
      BY <2>4, <2>5 DEF copyVal
    <3> QED  BY <1>1, <3>5, <3>6, PutOnly
  <2>6. CASE ~Direct(e)
    <3>1. Put(r, Value(e, Fresh, {"Indir"})) /\ mem' = Alloc(mem, e, Load(mem, w, e))
      BY <2>4, <2>6 DEF copyVal
    <3> QED  BY <1>1, <2>2, <2>3, <3>1, PutFresh
  <2> QED  BY <2>5, <2>6
<1> QED  BY <1>2, <1>3

LEMMA ConvertMoves ==
  ASSUME NEW F, Fit(F), NEW r \in Registers, NEW s \in Registers, NEW t \in Types, Convert(r, s, t)
  PROVE  Moves(F)
<1> DEFINE v == val[s]
<1>1. Sound(mem, F) /\ ValueFits(mem, F, v) /\ v.typ \in Types /\ held' = held
  BY FitFacts DEF Convert
<1>2. ro(v.flags) = {} /\ v.flags \in {{}, {"Indir"}, {"Indir", "Addr"}} /\ v = Value(v.typ, v.ptr, v.flags)
  BY <1>1, PlainFlags
<1>3. CASE /\ Integer(v.typ) /\ Integer(t) /\ mem' = Alloc(mem, t, <<makeInt(v, t)>>)
           /\ Put(r, Value(t, Fresh, ro(v.flags) \cup {"Indir"}))
  <2>1. Number(mem, v) \in Int
    BY <1>1, <1>3, NumberInt
  <2>2. Two[MaxBits] \in Nat \ {0}
    BY TwoDef, TypesAssumption
  <2>3. Unsigned(Number(mem, v), MaxBits) \in Int
    BY <2>1, <2>2 DEF Unsigned
  <2>4. Many(mem, F, <<makeInt(v, t)>>, t, 1)
    BY <1>3, <2>3, EncodedFits DEF makeInt
  <2> QED  BY <1>1, <1>2, <1>3, <2>4, PutFresh
<1>4. CASE /\ v.typ = t /\ Addressable(v) /\ mem' = Alloc(mem, t, Content(mem, v))
           /\ Put(r, Value(t, Fresh, ro(v.flags) \cup (v.flags \ {"Addr"})))
  <2>1. v.flags \ {"Addr"} = {"Indir"}
    BY <1>2, <1>4 DEF Addressable
  <2>2. Many(mem, F, Content(mem, v), t, 1)
    BY <1>1, <1>4, ContentFits
  <2> QED  BY <1>1, <1>2, <1>4, <2>1, <2>2, PutFresh
<1>5. CASE v.typ = t /\ Put(r, Value(t, v.ptr, ro(v.flags) \cup v.flags)) /\ UNCHANGED mem
  <2>1. Value(t, v.ptr, ro(v.flags) \cup v.flags) = v
    BY <1>2, <1>5
  <2> QED  BY <1>1, <1>5, <2>1, PutOnly
<1>6. CASE LET x == valueInterface(v) IN
             /\ Kind(t) = "iface" /\ mem' = Alloc(x.mem, t, <<x.word>>)
             /\ Put(r, Value(t, At(Len(x.mem) + 1, 0), ro(v.flags) \cup {"Indir"}))
  <2> DEFINE x == valueInterface(v)
             a == At(Len(x.mem) + 1, 0)
  <2>1. PICK F2 : Sound(x.mem, F2) /\ Keeps(mem, F, x.mem, F2) /\ Boxed(x.mem, F2, x.word)
    BY <1>1, InterfaceFits
  <2>2. Many(x.mem, F2, <<x.word>>, t, 1)
    BY <1>6, <2>1, OneFits DEF Fits
  <2> DEFINE F3 == F2 \cup {Len(x.mem) + 1}
  <2>3. /\ Sound(mem', F3) /\ Keeps(x.mem, F2, mem', F3) /\ ValueFits(mem', F3, Value(t, a, {"Indir"}))
    BY <1>6, <2>1, <2>2, FreshData
  <2>4. Put(r, Value(t, a, {"Indir"}))
    BY <1>2, <1>6
  <2> HIDE DEF x, F3, a
  <2>5. Keeps(mem, F, mem', F3)
    BY <2>1, <2>3, KeepsBoth
  <2> QED  BY <1>1, <2>3, <2>4, <2>5, PutMoves
<1> QED  BY <1>3, <1>4, <1>5, <1>6 DEF Convert

-----------------------------------------------------------------------------
(* Changes, and xcall.go                                                   *)

LEMMA VariableIs ==
  ASSUME NEW m, NEW F, NEW v, ValueFits(m, F, v), Addressable(v)
  PROVE  v.typ \in Types /\ Holds(m, v.ptr, v.typ, 1) /\ v.ptr.obj \notin F /\ v.flags = {"Indir", "Addr"}
BY DEF ValueFits, Addressable

LEMMA SetMoves ==
  ASSUME NEW F, Fit(F), NEW s \in Registers, NEW x \in Registers, Set(s, x)
  PROVE  Moves(F)
<1> DEFINE v == val[s]
           y == val[x]
<1>1. /\ Sound(mem, F) /\ ValueFits(mem, F, v) /\ ValueFits(mem, F, y) /\ UNCHANGED <<val, held>>
      /\ y.typ \in Types /\ Addressable(v)
  BY FitFacts DEF Set, Assignable
<1>2. v.typ \in Types /\ Holds(mem, v.ptr, v.typ, 1) /\ v.ptr.obj \notin F
  BY <1>1, VariableIs
<1>3. CASE y.typ = v.typ /\ mem' = Store(mem, v.ptr, Content(mem, y))
  <2>1. Many(mem, F, Content(mem, y), v.typ, 1)
    BY <1>1, <1>3, ContentFits
  <2>2. Sound(mem', F) /\ Keeps(mem, F, mem', F)
    BY <1>1, <1>2, <1>3, <2>1, Stored
  <2> QED  BY <1>1, <2>2, MemoryMoves
<1>4. CASE Kind(v.typ) = "iface" /\ mem' = Store(valueInterface(y).mem, v.ptr, <<valueInterface(y).word>>)
  <2> DEFINE i == valueInterface(y)
  <2>1. PICK F2 : Sound(i.mem, F2) /\ Keeps(mem, F, i.mem, F2) /\ Boxed(i.mem, F2, i.word)
    BY <1>1, InterfaceFits
  <2>2. Holds(i.mem, v.ptr, v.typ, 1) /\ v.ptr.obj \notin F2
    BY <1>2, <2>1, KeepsHolds
  <2>3. Many(i.mem, F2, <<i.word>>, v.typ, 1)
    BY <1>2, <1>4, <2>1, OneFits DEF Fits
  <2>4. Sound(mem', F2) /\ Keeps(i.mem, F2, mem', F2)
    BY <1>2, <1>4, <2>1, <2>2, <2>3, Stored
  <2> HIDE DEF i
  <2>5. Keeps(mem, F, mem', F2)
    BY <2>1, <2>4, KeepsBoth
  <2> QED  BY <1>1, <2>4, <2>5, MemoryMoves
<1> QED  BY <1>3, <1>4 DEF Set

(* One word is stored.                                                     *)
LEMMA WordMoves ==
  ASSUME NEW F, Fit(F), NEW s \in Registers, Addressable(val[s]),
         Kind(val[s].typ) \notin {"struct", "array"}, NEW w, Fits(mem, F, w, val[s].typ),
         mem' = Store(mem, val[s].ptr, <<w>>), UNCHANGED <<val, held>>
  PROVE  Moves(F)
<1> DEFINE v == val[s]
<1>1. Sound(mem, F) /\ v.typ \in Types /\ Holds(mem, v.ptr, v.typ, 1) /\ v.ptr.obj \notin F
  BY FitFacts, VariableIs
<1>2. Many(mem, F, <<w>>, v.typ, 1)
  BY <1>1, OneFits
<1>3. Sound(mem', F) /\ Keeps(mem, F, mem', F)
  BY <1>1, <1>2, Stored
<1> QED  BY <1>3, MemoryMoves

LEMMA SetIntMoves ==
  ASSUME NEW F, Fit(F), NEW s \in Registers, NEW n, SetInt(s, n) \/ SetUint(s, n)
  PROVE  Moves(F)
<1> DEFINE t == val[s].typ
<1>1. /\ Integer(t) /\ Addressable(val[s]) /\ UNCHANGED <<val, held>>
      /\ mem' = Store(mem, val[s].ptr, <<Encoded(n, t)>>)
      /\ n \in Numbers(MaxBits, TRUE) \/ n \in Numbers(MaxBits, FALSE)
  BY DEF SetInt, SetUint, Integer, Assignable
<1>2. n \in Int
  <2>1. MaxBits \in Nat /\ MaxBits - 1 \in Nat
    BY TypesAssumption
  <2>2. Two[MaxBits] \in Int /\ Two[MaxBits - 1] \in Int
    BY <2>1, TwoDef
  <2> QED  BY <1>1, <2>2 DEF Numbers
<1>3. Kind(t) \in {"int", "uint"}
  BY <1>1, IntegerKind
<1>4. Fits(mem, F, Encoded(n, t), t)
  BY <1>1, <1>2, EncodedFits
<1> QED  BY <1>1, <1>3, <1>4, WordMoves

LEMMA SetMapIndexMoves ==
  ASSUME NEW F, Fit(F), NEW s \in Registers, NEW x \in Registers, SetMapIndex(s, x)
  PROVE  Moves(F)
<1> DEFINE v == val[s]
           w == Word(v)
           e == rtype[v.typ].elem
           ws == IF val[x] = Invalid THEN <<>> ELSE Content(mem, val[x])
           obj == Object(mem[w.obj].typ, mem[w.obj].hmap, ws)
<1>1. /\ Sound(mem, F) /\ ValueFits(mem, F, v) /\ ValueFits(mem, F, val[x]) /\ UNCHANGED <<val, held>>
      /\ v.typ \in Types /\ Kind(v.typ) = "map" /\ w # Zero
  BY FitFacts DEF SetMapIndex, Is
<1>2. w.obj \in 2..Len(mem) /\ mem[w.obj].hmap /\ mem[w.obj].typ = v.typ
  BY <1>1, MapWord DEF Word
<1>3. mem[w.obj].hmap = TRUE
  BY <1>1, <1>2 DEF Sound, ObjectFits
<1>4. e \in Types
  BY <1>1, WordsAssumption
<1>5. Size(e) \in Nat \ {0} /\ 1 * Size(e) = Size(e)
  BY <1>4, TypeFacts
<1>6. IsSeq(ws) /\ Len(ws) \in {0, Size(e)} /\ \A k \in DOMAIN ws : Fits(mem, F, ws[k], Cell(e, k))
  <2>1. CASE val[x] = Invalid
    <3>1. IsSeq(<<>>) /\ Len(<<>>) = 0 /\ DOMAIN <<>> = {}
      BY DEF IsSeq
    <3> QED  BY <2>1, <3>1
  <2>2. CASE val[x] # Invalid
    <3>1. val[x].typ = e
      BY <2>2 DEF SetMapIndex
    <3>2. Many(mem, F, ws, e, 1)
      BY <1>1, <1>4, <2>2, <3>1, ContentFits
    <3> QED  BY <1>5, <3>2 DEF Many
  <2> QED  BY <2>1, <2>2
<1>7. mem' = [mem EXCEPT ![w.obj] = obj]
  BY DEF SetMapIndex, Refill
<1> HIDE DEF ws
<1>8. obj = Object(v.typ, TRUE, ws)
  BY <1>2, <1>3
<1>9. obj.typ = v.typ /\ obj.hmap = TRUE /\ obj.words = ws /\ obj = Object(obj.typ, obj.hmap, obj.words)
  BY <1>8 DEF Object
<1>10. w.obj \notin F
  BY <1>1, <1>2 DEF Sound
<1> HIDE DEF obj, w
<1>11. ObjectFits(mem, F, obj)
  BY <1>1, <1>6, <1>9 DEF ObjectFits, Base
<1>12. Sound(mem', F) /\ Keeps(mem, F, mem', F)
  <2> DEFINE m2 == [mem EXCEPT ![w.obj] = obj]
  <2>1. Sound(m2, F) /\ Keeps(mem, F, m2, F)
    BY <1>1, <1>2, <1>3, <1>9, <1>10, <1>11, Changed
  <2> QED  BY <1>7, <2>1
<1> QED  BY <1>1, <1>12, MemoryMoves

LEMMA FieldAddrMoves ==
  ASSUME NEW F, Fit(F), FieldAddr
  PROVE  Moves(F)
<1> DEFINE u == unpackEface(held)
           x == ElemOfPointer(u)
<1>1. held # Zero /\ Is(held.typ, "ptr") /\ Is(x.typ, "struct") /\ UNCHANGED <<mem, val>>
  BY DEF FieldAddr
<1>14. PICK k \in DOMAIN rtype[x.typ].parts : \E p \in PointersTo(FieldOf(x, k).typ) :
        held' = packEface(AddrOf(FieldOf(x, k), p)).word
  BY DEF FieldAddr
<1>2. PICK p \in PointersTo(FieldOf(x, k).typ) : held' = packEface(AddrOf(FieldOf(x, k), p)).word
  BY <1>14
<1>3. Sound(mem, F) /\ ValueFits(mem, F, u) /\ u.typ = held.typ
  <2>1. u.typ = held.typ
    BY <1>1 DEF unpackEface, Value
  <2> QED  BY <2>1, FitFacts, UnpackedFits
<1>4. ValueFits(mem, F, x)
  BY <1>1, <1>3, PointedFits DEF Is
<1>5. x.flags = {"Indir", "Addr"}
  <2>1. CASE Word(u) = Zero
    <3>1. x.typ = NoType
      BY <2>1 DEF ElemOfPointer, Invalid, Value
    <3> QED  BY <1>1, <3>1, NoTypeNone DEF Is
  <2>2. CASE Word(u) # Zero
    BY <1>3, <2>2, PlainFlags DEF ElemOfPointer, Value
  <2> QED  BY <2>1, <2>2
<1> DEFINE f == FieldOf(x, k)
           a == AddrOf(f, p)
<1>6. ValueFits(mem, F, f)
  BY <1>1, <1>2, <1>4, FieldFits DEF Is
<1>7. Addressable(f)
  BY <1>5 DEF FieldOf, Value, Addressable
<1> HIDE DEF x
<1>8. f.typ \in Types
  BY <1>6, <1>7, VariableIs
<1> HIDE DEF f
<1>9. ValueFits(mem, F, a) /\ a = Value(p, f.ptr, {}) /\ p \in Types /\ Direct(p) /\ Kind(p) = "ptr"
  BY <1>2, <1>6, <1>7, <1>8, PointerFits DEF PointersTo, f
<1>10. a.typ = p
  BY <1>9, ValueIs
<1> HIDE DEF a
<1>11. Plain(mem, F, Word(a), Leaves[p][1])
  BY <1>3, <1>9, <1>10, WordFits DEF Word
<1>12. held' = Eface(p, Word(a))
  BY <1>2, <1>9, <1>10 DEF packEface, a, f
<1>13. Boxed(mem, F, held')
  BY <1>9, <1>11, <1>12, EfaceFits
<1> QED  BY <1>1, <1>13, FitFacts, HeldMoves

LEMMA FollowingDef ==
  ASSUME NEW F, Fit(F)
  PROVE  \A n \in Nat : Following[n] =
           IF n = 0 THEN unpackEface(held)
           ELSE LET x == Following[n - 1] IN IF Is(x.typ, "ptr") THEN ElemOfPointer(x) ELSE x
<1> DEFINE A == unpackEface(held)
           Next1(x) == IF Is(x.typ, "ptr") THEN ElemOfPointer(x) ELSE x
           W == Addresses \cup {Zero, held.data}
           S == {x \in [typ : Types \cup {NoType}, ptr : W, flags : SUBSET {"Indir", "Addr"}] :
                   ValueFits(mem, F, x)}
           G == [x \in S |-> Next1(x)]
<1>1. A \in S
  <2>1. ValueFits(mem, F, A)
    BY FitFacts, UnpackedFits
  <2>2. A.ptr \in W
    BY DEF unpackEface, Invalid, Value
  <2>3. A.typ \in Types \cup {NoType} /\ A.flags \subseteq {"Indir", "Addr"}
    BY <2>1 DEF ValueFits
  <2>4. A = [typ |-> A.typ, ptr |-> A.ptr, flags |-> A.flags]
    BY <2>1, PlainFlags DEF Value
  <2> HIDE DEF A, W
  <2> QED  BY <2>1, <2>2, <2>3, <2>4
<1>2. ASSUME NEW x \in S  PROVE Next1(x) \in S
  <2>1. CASE ~Is(x.typ, "ptr")
    BY <2>1
  <2>2. CASE Is(x.typ, "ptr")
    <3> DEFINE y == ElemOfPointer(x)
    <3>1. ValueFits(mem, F, y)
      BY <2>2, FitFacts, PointedFits DEF Is
    <3>2. y.ptr \in W
      <4>1. CASE Word(x) = Zero
        BY <4>1 DEF ElemOfPointer, Invalid, Value
      <4>2. CASE Word(x) # Zero
        <5>1. Plain(mem, F, Word(x), x.typ)
          BY <2>2, FitFacts, WordFits DEF Fits, Word, Is
        <5>2. Word(x) \in Addresses
          BY <2>2, <4>2, <5>1 DEF Plain, Integer, Is, Holds
        <5>3. y.ptr = Word(x)
          BY <4>2 DEF ElemOfPointer, Value
        <5> QED  BY <5>2, <5>3
      <4> QED  BY <4>1, <4>2
    <3>3. y.typ \in Types \cup {NoType} /\ y.flags \subseteq {"Indir", "Addr"}
      BY <3>1 DEF ValueFits
    <3>4. y = [typ |-> y.typ, ptr |-> y.ptr, flags |-> y.flags]
      BY <3>1, PlainFlags DEF Value
    <3>5. Next1(x) = y
      BY <2>2
    <3> HIDE DEF y, W, Next1
    <3> QED  BY <3>1, <3>2, <3>3, <3>4, <3>5
  <2> QED  BY <2>1, <2>2
<1> HIDE DEF A, S, Next1
<1>3. G \in [S -> S]
  BY <1>2
<1>4. \A x \in S : G[x] = Next1(x)
  OBVIOUS
<1> HIDE DEF G
<1>5. PICK f \in [Nat -> S] : f[0] = A /\ \A n \in Nat : f[n + 1] = G[f[n]]
  BY <1>1, <1>3, Iterates
<1>6. ASSUME NEW n \in Nat  PROVE f[n] = IF n = 0 THEN A ELSE Next1(f[n - 1])
  <2>1. CASE n = 0
    BY <1>5, <2>1
  <2>2. CASE n # 0
    <3>1. n - 1 \in Nat /\ (n - 1) + 1 = n
      BY <2>2
    <3>2. f[n] = G[f[n - 1]] /\ f[n - 1] \in S
      BY <1>5, <3>1
    <3> QED  BY <1>4, <2>2, <3>2
  <2> QED  BY <2>1, <2>2
<1>7. f = [n \in Nat |-> IF n = 0 THEN A ELSE Next1(f[n - 1])]
  <2>1. f = [n \in Nat |-> f[n]]
    BY <1>5
  <2> QED  BY <1>6, <2>1
<1>8. \E g : g = [n \in Nat |-> IF n = 0 THEN unpackEface(held)
                   ELSE LET x == g[n - 1] IN IF Is(x.typ, "ptr") THEN ElemOfPointer(x) ELSE x]
  BY <1>7 DEF A, Next1
<1>9. Following = [n \in Nat |-> IF n = 0 THEN unpackEface(held)
                     ELSE LET x == Following[n - 1] IN IF Is(x.typ, "ptr") THEN ElemOfPointer(x) ELSE x]
  BY <1>8, Zenon DEF Following
<1> QED  BY <1>9

LEMMA FollowedFits ==
  ASSUME NEW F, Fit(F), client.objects \in Nat
  PROVE  ValueFits(mem, F, Followed)
<1> DEFINE N == {n \in Nat : ValueFits(mem, F, Following[n])}
<1>1. 0 \in N
  <2>1. Following[0] = unpackEface(held)
    BY FollowingDef
  <2> QED  BY <2>1, FitFacts, UnpackedFits
<1>2. ASSUME NEW n \in Nat, n \in N  PROVE n + 1 \in N
  <2> DEFINE x == Following[n]
  <2>1. n + 1 \in Nat /\ n + 1 # 0 /\ (n + 1) - 1 = n
    OBVIOUS
  <2>2. Following[n + 1] = IF Is(x.typ, "ptr") THEN ElemOfPointer(x) ELSE x
    BY <2>1, FollowingDef
  <2>3. ValueFits(mem, F, x)
    BY <1>2
  <2>4. Is(x.typ, "ptr") => ValueFits(mem, F, ElemOfPointer(x))
    BY <2>3, FitFacts, PointedFits DEF Is
  <2> HIDE DEF x
  <2> QED  BY <2>1, <2>2, <2>3, <2>4
<1> HIDE DEF N
<1>3. \A n \in Nat : n \in N
  BY <1>1, <1>2, Induction
<1>4. client.objects + 1 \in Nat
  OBVIOUS
<1> QED  BY <1>3, <1>4 DEF N, Followed

LEMMA FieldMoves ==
  ASSUME NEW F, Fit(F), client.objects \in Nat, Field
  PROVE  Moves(F)
<1> DEFINE x == Followed
<1>1. ValueFits(mem, F, x) /\ Sound(mem, F) /\ UNCHANGED val /\ Is(x.typ, "struct")
  BY FollowedFits, FitFacts DEF Field
<1>2. PICK k \in DOMAIN rtype[x.typ].parts :
        /\ Shown(FieldOf(x, k))
        /\ held' = valueInterface(FieldOf(x, k)).word
        /\ mem'  = valueInterface(FieldOf(x, k)).mem
  BY DEF Field
<1> DEFINE f == FieldOf(x, k)
           i == valueInterface(f)
<1>3. ValueFits(mem, F, f) /\ f.typ \in Types
  BY <1>1, <1>2, FieldFits DEF Is, Shown
<1>4. PICK F2 : Sound(i.mem, F2) /\ Keeps(mem, F, i.mem, F2) /\ Boxed(i.mem, F2, i.word)
  BY <1>1, <1>3, InterfaceFits
<1> QED  BY <1>1, <1>2, <1>4, HeldMoves

LEMMA NextMoves ==
  ASSUME NEW F, Fit(F), client \in Clients, Next
  PROVE  Moves(F)
<1>1. client.asked \subseteq Types /\ client.objects \in Nat
  BY TypesAssumption
<1> QED
  BY <1>1, InterfaceMoves, ValueOfMoves, ElemMoves, PartMoves, AddrMoves, MapIndexMoves, NewMoves,
     ZeroMoves, MakeMapMoves, ConvertMoves, SetMoves, SetMapIndexMoves, SetIntMoves, FieldAddrMoves,
     FieldMoves DEF Next

-----------------------------------------------------------------------------
(* Slices and strings                                                      *)

LEMMA SameContent ==
  ASSUME NEW m, NEW F, NEW m2, NEW F2, Sound(m, F), Sound(m2, F2), Keeps(m, F, m2, F2),
         NEW v, ValueFits(m, F, v), v.typ \in Types, ~Addressable(v)
  PROVE  Content(m2, v) = Content(m, v) /\ Sliced(m2, v) = Sliced(m, v)
<1>1. v.flags = {} \/ v.flags = {"Indir"}
  BY PlainFlags DEF Addressable
<1>2. CASE v.flags = {}
  BY <1>2 DEF Content, Sliced
<1>3. CASE v.flags = {"Indir"}
  <2>1. Data(m, F, v.ptr, v.typ)
    BY <1>3, NoTypeNone DEF ValueFits
  <2>2. m2[v.ptr.obj] = m[v.ptr.obj]
    BY <2>1 DEF Data, Zeroed, Sound, Keeps
  <2> QED  BY <1>3, <2>2 DEF Content, Load, Sliced
<1> QED  BY <1>1, <1>2, <1>3

LEMMA SliceWord ==
  ASSUME NEW m, NEW F, NEW w, NEW t \in Types, Kind(t) = "slice", Plain(m, F, w, t)
  PROVE  \/ w = Zero
         \/ /\ w \in [data : Addresses, len : Nat, cap : Nat]
            /\ w.len <= w.cap /\ Window(m, w.data, rtype[t].elem, w.cap) /\ w.data.obj \notin F
BY DEF Plain, Integer, Is

LEMMA StringWord ==
  ASSUME NEW m, NEW F, NEW w, NEW t \in Types, Kind(t) = "string", Plain(m, F, w, t)
  PROVE  \/ w = Zero
         \/ /\ w \in [data : Addresses, len : Nat]
            /\ Window(m, w.data, Uint8, w.len) /\ w.data.obj \in F
BY DEF Plain, Integer, Is

LEMMA AddressNotZero ==
  ASSUME NEW a \in Addresses
  PROVE  a # Zero
BY TypesAssumption DEF Addresses

LEMMA Uint8Facts ==
  /\ Uint8 \in Types /\ Kind(Uint8) = "uint" /\ Size(Uint8) = 1
  /\ \A t \in Types : Kind(t) = "string" => rtype[t].elem = Uint8
<1>1. Uint8 \in Types /\ Kind(Uint8) = "uint" /\ \A t \in Types : Kind(t) = "string" => rtype[t].elem = Uint8
  BY SlicesAssumption
<1> QED  BY <1>1, SimpleFacts

(* Where the elements are.                                                 *)
Backs(m, F, base, e, cap) ==
  (base = Zero /\ cap = 0) \/ (base # Zero /\ Window(m, base, e, cap) /\ base.obj \notin F)

LEMMA SlicedFits ==
  ASSUME NEW m, NEW F, Sound(m, F), NEW v, ValueFits(m, F, v), v.typ \in Types,
         Kind(v.typ) = "slice" \/ (Kind(v.typ) = "array" /\ Addressable(v))
  PROVE  LET x == Sliced(m, v)  e == rtype[v.typ].elem IN
         /\ e \in Types /\ x.len \in Nat /\ x.cap \in Nat /\ x.len <= x.cap /\ Backs(m, F, x.base, e, x.cap)
<1> DEFINE x == Sliced(m, v)
           e == rtype[v.typ].elem
<1>1. CASE Kind(v.typ) = "slice"
  <2> DEFINE w == Content(m, v)[1]
             h == OfSlice(w)
  <2>1. e \in Types
    BY <1>1, WordsAssumption
  <2>2. Plain(m, F, w, v.typ)
    BY <1>1, WordFits DEF Fits
  <2>3. x.base = h.data /\ x.cap = h.cap /\ x.len = h.len
    BY <1>1 DEF Sliced
  <2> HIDE DEF w, x, e
  <2>4. CASE w = Zero
    <3>1. x.base = Zero /\ x.len = 0 /\ x.cap = 0
      BY <2>3, <2>4 DEF OfSlice
    <3> QED  BY <2>1, <3>1 DEF Backs, x, e
  <2>5. CASE w # Zero
    <3>1. /\ w \in [data : Addresses, len : Nat, cap : Nat]
          /\ w.len <= w.cap /\ Window(m, w.data, e, w.cap) /\ w.data.obj \notin F
      BY <1>1, <2>2, <2>5, SliceWord DEF e
    <3>2. h = w
      BY <2>5 DEF OfSlice
    <3>3. w.data \in Addresses /\ w.len \in Nat /\ w.cap \in Nat
      BY <3>1
    <3>4. x.base = w.data /\ x.len = w.len /\ x.cap = w.cap
      BY <2>3, <3>2
    <3>5. Backs(m, F, x.base, e, x.cap)
      BY <3>1, <3>3, <3>4, AddressNotZero DEF Backs
    <3> QED  BY <2>1, <3>1, <3>3, <3>4, <3>5 DEF x, e
  <2> QED  BY <2>4, <2>5
<1>2. CASE Kind(v.typ) = "array" /\ Addressable(v)
  <2> DEFINE n == Len(rtype[v.typ].parts)
  <2>1. x.base = v.ptr /\ x.cap = n /\ x.len = n
    BY <1>2 DEF Sliced
  <2>2. e \in Types /\ n \in Nat
    BY <1>2, ArrayFacts
  <2>3. Holds(m, v.ptr, v.typ, 1) /\ v.ptr.obj \notin F
    BY <1>2, VariableIs
  <2>4. Holds(m, v.ptr, e, n)
    BY <1>2, <2>3, HoldsArray
  <2>5. v.ptr.off < Len(m[v.ptr.obj].words)
    <3>1. /\ v.ptr.off \in Nat /\ v.ptr.off + 1 * Size(v.typ) <= Len(m[v.ptr.obj].words)
          /\ Len(m[v.ptr.obj].words) \in Nat
      BY <2>3 DEF Holds, Addresses
    <3> QED  BY <3>1, TypeFacts
  <2>6. v.ptr # Zero
    BY <2>3, AddressNotZero DEF Holds
  <2> HIDE DEF x, e, n
  <2> QED  BY <2>1, <2>2, <2>3, <2>4, <2>5, <2>6 DEF Backs, Window, x, e
<1> QED  BY <1>1, <1>2

LEMMA NoneFit ==
  ASSUME NEW m, NEW F, NEW t \in Types
  PROVE  Many(m, F, <<>>, t, 0)
<1>1. IsSeq(<<>>) /\ Len(<<>>) = 0 /\ DOMAIN <<>> = {}
  BY DEF IsSeq
<1>2. 0 * Size(t) = 0
  BY TypeFacts
<1> QED  BY <1>1, <1>2 DEF Many

LEMMA ElemsFit ==
  ASSUME NEW m, NEW F, Sound(m, F), NEW v, ValueFits(m, F, v), v.typ \in Types,
         Kind(v.typ) \in {"slice", "string", "array"}, Kind(v.typ) = "array" => "Indir" \in v.flags
  PROVE  LET n == Sliced(m, v).len  e == rtype[v.typ].elem IN
         e \in Types /\ n \in Nat /\ Many(m, F, Elems(m, v), e, n)
<1> DEFINE x == Sliced(m, v)
           e == rtype[v.typ].elem
           t == v.typ
<1>0. SizeOfElem(t) = Size(e)
  BY DEF SizeOfElem, Size
<1>1. Elems(m, v) = IF x.len = 0 THEN <<>>
                    ELSE SubSeq(m[x.base.obj].words, x.base.off + 1, x.base.off + x.len * Size(e))
  BY <1>0 DEF Elems
<1>2. CASE Kind(t) = "slice"
  <2>1. e \in Types /\ x.len \in Nat /\ x.cap \in Nat /\ x.len <= x.cap /\ Backs(m, F, x.base, e, x.cap)
    BY <1>2, SlicedFits
  <2> HIDE DEF x, e
  <2>2. CASE x.len = 0
    BY <1>1, <2>1, <2>2, NoneFit DEF x, e
  <2>3. CASE x.len # 0
    <3>1. Holds(m, x.base, e, x.cap)
      BY <2>1, <2>3 DEF Backs, Window
    <3>2. Holds(m, x.base, e, x.len)
      BY <2>1, <3>1, HoldsFewer
    <3> QED  BY <1>1, <2>1, <2>3, <3>2, Loaded DEF x, e
  <2> QED  BY <2>2, <2>3
<1>3. CASE Kind(t) = "string"
  <2> DEFINE w == Content(m, v)[1]
             h == OfSlice(w)
  <2>1. e = Uint8 /\ e \in Types
    BY <1>3, Uint8Facts
  <2>2. Plain(m, F, w, t)
    BY <1>3, WordFits DEF Fits
  <2>3. x.base = h.data /\ x.len = h.len
    BY <1>3 DEF Sliced
  <2> HIDE DEF w, x, e
  <2>4. CASE w = Zero
    <3>1. x.len = 0
      BY <2>3, <2>4 DEF OfSlice
    <3> QED  BY <1>1, <2>1, <3>1, NoneFit DEF x, e
  <2>5. CASE w # Zero
    <3>1. w \in [data : Addresses, len : Nat] /\ Window(m, w.data, Uint8, w.len)
      BY <1>3, <2>2, <2>5, StringWord
    <3>2. h = w
      BY <2>5 DEF OfSlice
    <3>3. Holds(m, x.base, e, x.len) /\ x.len \in Nat
      BY <2>1, <2>3, <3>1, <3>2 DEF Window
    <3>4. CASE x.len = 0
      BY <1>1, <2>1, <3>4, NoneFit DEF x, e
    <3>5. CASE x.len # 0
      BY <1>1, <2>1, <3>3, <3>5, Loaded DEF x, e
    <3> QED  BY <3>4, <3>5
  <2> QED  BY <2>4, <2>5
<1>4. CASE Kind(t) = "array"
  <2> DEFINE n == Len(rtype[t].parts)
  <2>1. x.base = v.ptr /\ x.len = n
    BY <1>4 DEF Sliced
  <2>2. e \in Types /\ n \in Nat /\ Size(t) = n * Size(e)
    BY <1>4, ArrayFacts
  <2>3. Size(t) \in Nat \ {0} /\ Size(e) \in Nat \ {0} /\ 1 * Size(t) = Size(t)
    BY <2>2, TypeFacts
  <2>4. n # 0
    BY <2>2, <2>3
  <2>5. Content(m, v) = Elems(m, v)
    <3>1. Content(m, v) = Load(m, v.ptr, t)
      BY <1>4 DEF Content
    <3>2. Load(m, v.ptr, t) = SubSeq(m[v.ptr.obj].words, v.ptr.off + 1, v.ptr.off + n * Size(e))
      BY <2>2 DEF Load, Size
    <3> HIDE DEF n, e, x
    <3> QED  BY <1>1, <2>1, <2>4, <3>1, <3>2
  <2>6. Many(m, F, Elems(m, v), t, 1)
    BY <2>5, ContentFits
  <2>7. \A k \in 1..Size(t) : Cell(t, k) = Cell(e, k)
    BY <1>4, ArrayCells
  <2>8. DOMAIN Elems(m, v) = 1..Size(t)
    BY <2>3, <2>6, SeqDomain DEF Many
  <2>9. Many(m, F, Elems(m, v), e, n)
    BY <2>2, <2>3, <2>6, <2>7, <2>8 DEF Many
  <2> QED  BY <2>1, <2>2, <2>9
<1> QED  BY <1>2, <1>3, <1>4

-----------------------------------------------------------------------------
(* New slices                                                              *)

LEMMA HeaderFits ==
  ASSUME NEW m, NEW F, NEW t \in Types, Kind(t) = "slice", NEW base, NEW len \in Nat, NEW cap \in Nat,
         len <= cap, Backs(m, F, base, rtype[t].elem, cap)
  PROVE  /\ Plain(m, F, Header(base, len, cap), t)
         /\ OfSlice(Header(base, len, cap)) = [data |-> base, len |-> len, cap |-> cap]
<1> DEFINE w == [data |-> base, len |-> len, cap |-> cap]
<1>1. CASE base = Zero
  <2>1. cap = 0 /\ len = 0
    BY <1>1 DEF Backs
  <2>2. Header(base, len, cap) = Zero
    BY <1>1 DEF Header
  <2> QED  BY <1>1, <2>1, <2>2, ZeroFits DEF OfSlice
<1>2. CASE base # Zero
  <2>1. Window(m, base, rtype[t].elem, cap) /\ base.obj \notin F
    BY <1>2 DEF Backs
  <2>2. w \in [data : Addresses, len : Nat, cap : Nat]
    BY <2>1 DEF Window, Holds
  <2>3. w # Zero
    BY <2>2, SlicesAssumption DEF Addresses
  <2>4. w.data = base /\ w.len = len /\ w.cap = cap
    OBVIOUS
  <2>5. Header(base, len, cap) = w
    BY <1>2 DEF Header
  <2> HIDE DEF w
  <2>6. OfSlice(w) = w
    BY <2>3 DEF OfSlice
  <2>7. Plain(m, F, w, t)
    BY <2>1, <2>2, <2>4 DEF Plain
  <2> QED  BY <2>5, <2>6, <2>7 DEF w
<1> QED  BY <1>1, <1>2

(* A slice or a string in memory of its own, which nobody can set.         *)
NewHeader(m, F, t, w, y, F2) ==
  /\ Sound(y.mem, F2) /\ Keeps(m, F, y.mem, F2) /\ ValueFits(y.mem, F2, y.v)
  /\ y.v = Value(t, At(Len(m) + 1, 0), {"Indir"}) /\ Content(y.mem, y.v)[1] = w
  /\ \A o \in 1..Len(m) : y.mem[o] = m[o]

LEMMA HeadedFits ==
  ASSUME NEW m, NEW F, Sound(m, F), NEW t \in Types, Kind(t) \in {"slice", "string"},
         NEW w, Plain(m, F, w, t)
  PROVE  NewHeader(m, F, t, w, Headed(m, t, w, {}), F \cup {Len(m) + 1})
<1> DEFINE y  == Headed(m, t, w, {})
           F2 == F \cup {Len(m) + 1}
           m2 == Alloc(m, t, <<w>>)
           v  == Value(t, At(Len(m) + 1, 0), {"Indir"})
<1>1. y.mem = m2 /\ y.v = v
  BY DEF Headed
<1>2. Many(m, F, <<w>>, t, 1)
  BY OneFits DEF Fits
<1>3. Sound(m2, F2) /\ Keeps(m, F, m2, F2) /\ ValueFits(m2, F2, v)
  BY <1>2, FreshData
<1>4. Content(m2, v)[1] = w /\ \A o \in 1..Len(m) : m2[o] = m[o]
  <2> DEFINE obj == Object(t, FALSE, <<w>>)
  <2>0. m2 = Append(m, obj)
    BY DEF Alloc
  <2> HIDE DEF y, v, F2, m2, obj
  <2>1. IsSeq(m) /\ Len(m) \in Nat
    BY DEF Sound, IsSeq
  <2>2. /\ m2[Len(m) + 1] = obj
        /\ \A k \in 1..Len(m) : m2[k] = m[k]
    BY <2>0, <2>1, SeqAppend
  <2>3. v.typ = t /\ v.ptr.obj = Len(m) + 1 /\ v.ptr.off = 0 /\ "Indir" \in v.flags
    BY DEF v, Value, At
  <2>4. obj.words = <<w>>
    BY DEF obj, Object
  <2>5. Size(t) = 1
    BY SimpleFacts
  <2>6. Content(m2, v) = SubSeq(<<w>>, 0 + 1, 0 + 1)
    BY <2>2, <2>3, <2>4, <2>5 DEF Content, Load, Size
  <2>7. IsSeq(<<w>>) /\ Len(<<w>>) = 1 /\ <<w>>[1] = w
    BY SeqOne
  <2>8. Content(m2, v)[1] = w
    BY <2>6, <2>7
  <2> QED  BY <2>2, <2>8
<1> HIDE DEF m2, v
<1> QED  BY <1>1, <1>3, <1>4 DEF v, NewHeader

(* What Reslice and Making give: a slice of length len.                    *)
NewSlice(m, F, y, t, len) ==
  /\ y = [mem |-> y.mem, v |-> y.v] /\ y.v.typ = t /\ y.v.flags = {"Indir"}
  /\ Sliced(y.mem, y.v).len = len
  /\ \E F2 : Sound(y.mem, F2) /\ Keeps(m, F, y.mem, F2) /\ ValueFits(y.mem, F2, y.v)
  /\ \A o \in 1..Len(m) : y.mem[o] = m[o]

LEMMA ResliceFits ==
  ASSUME NEW m, NEW F, Sound(m, F), NEW t \in Types, Kind(t) = "slice", NEW base, NEW all \in Nat,
         Backs(m, F, base, rtype[t].elem, all),
         NEW i \in Nat, NEW len \in Nat, NEW cap \in Nat, len <= cap, i + cap <= all
  PROVE  LET y == Reslice(m, t, base, i, len, cap, {}) IN
         /\ NewSlice(m, F, y, t, len)
         /\ Sliced(y.mem, y.v) =
              [base |-> IF cap > 0 THEN arrayAt(base, i, t) ELSE base, cap |-> cap, len |-> len]
<1> DEFINE e == rtype[t].elem
           b == IF cap > 0 THEN arrayAt(base, i, t) ELSE base
           w == Header(b, len, cap)
           y == Headed(m, t, w, {})
           F2 == F \cup {Len(m) + 1}
<1>1. Reslice(m, t, base, i, len, cap, {}) = y
  BY DEF Reslice
<1>2. e \in Types
  BY WordsAssumption
<1>3. Size(e) \in Nat \ {0} /\ SizeOfElem(t) = Size(e)
  BY <1>2, TypeFacts DEF SizeOfElem, Size
<1>4. Backs(m, F, b, e, cap)
  <2>1. CASE cap = 0
    <3>1. b = base
      BY <2>1
    <3>2. CASE base = Zero
      BY <2>1, <3>1, <3>2 DEF Backs
    <3>3. CASE base # Zero
      <4>1. Window(m, base, e, all) /\ base.obj \notin F
        BY <3>3 DEF Backs
      <4>2. Holds(m, base, e, 0)
        BY <1>2, <4>1, HoldsFewer DEF Window
      <4> HIDE DEF e, b
      <4> QED  BY <2>1, <3>1, <3>3, <4>1, <4>2 DEF Backs, Window
    <3> QED  BY <3>2, <3>3
  <2>2. CASE cap # 0
    <3>1. base # Zero /\ Window(m, base, e, all) /\ base.obj \notin F
      BY <2>2 DEF Backs
    <3>2. b = At(base.obj, base.off + i * Size(e))
      BY <1>3, <2>2 DEF arrayAt
    <3>3. Holds(m, b, e, cap)
      <4>1. Holds(m, base, e, all)
        BY <3>1 DEF Window
      <4> HIDE DEF b, e
      <4> QED  BY <1>2, <3>2, <4>1, HoldsFrom
    <3> HIDE DEF b, e
    <3>4. b.obj = base.obj
      BY <3>2 DEF At
    <3>5. b.off < Len(m[b.obj].words)
      <4> DEFINE z == cap * Size(e)
                 l == Len(m[b.obj].words)
      <4>1. z \in Nat /\ z > 0
        BY <1>3, <2>2
      <4>2. b.off \in Nat /\ b.off + z <= l /\ l \in Nat
        BY <3>3 DEF Holds, Addresses
      <4> HIDE DEF z, l
      <4>3. b.off < l
        BY <4>1, <4>2
      <4> QED  BY <4>3 DEF l
    <3>6. b # Zero
      BY <3>3, AddressNotZero DEF Holds
    <3> QED  BY <3>1, <3>3, <3>4, <3>5, <3>6 DEF Backs, Window
  <2> QED  BY <2>1, <2>2
<1> HIDE DEF b, F2
<1>5. Plain(m, F, w, t) /\ OfSlice(w) = [data |-> b, len |-> len, cap |-> cap]
  BY <1>4, HeaderFits
<1> HIDE DEF w
<1>6. NewHeader(m, F, t, w, y, F2)
  <2>1. Kind(t) \in {"slice", "string"}
    OBVIOUS
  <2> QED  BY <1>5, <2>1, HeadedFits DEF F2
<1>7. y = [mem |-> y.mem, v |-> y.v]
  BY DEF Headed
<1> HIDE DEF y
<1>8. y.v.typ = t /\ y.v.flags = {"Indir"}
  BY <1>6, ValueIs DEF NewHeader
<1>9. Sliced(y.mem, y.v) = [base |-> b, cap |-> cap, len |-> len]
  <2> DEFINE h == OfSlice(Content(y.mem, y.v)[1])
  <2>1. Sliced(y.mem, y.v) = [base |-> h.data, cap |-> h.cap, len |-> h.len]
    BY <1>8 DEF Sliced
  <2>2. h = [data |-> b, len |-> len, cap |-> cap]
    BY <1>5, <1>6 DEF NewHeader
  <2> HIDE DEF h
  <2> QED  BY <2>1, <2>2
<1>10. NewSlice(m, F, y, t, len)
  BY <1>6, <1>7, <1>8, <1>9 DEF NewSlice, NewHeader
<1> QED  BY <1>1, <1>9, <1>10 DEF b

LEMMA MakingFits ==
  ASSUME NEW m, NEW F, Sound(m, F), NEW t \in Types, Kind(t) = "slice",
         NEW len \in Nat, NEW cap \in Nat, len <= cap
  PROVE  LET y == Making(m, t, len, cap) IN
         NewSlice(m, F, y, t, len) /\ Sliced(y.mem, y.v).base.obj = Len(m) + 1
<1> DEFINE e == rtype[t].elem
           ws == Zeros(cap * Size(e))
           a == At(Len(m) + 1, 0)
           m1 == Alloc(m, e, ws)
           w == Header(a, len, cap)
           y == Headed(m1, t, w, {})
           F2 == F \cup {Len(m1) + 1}
<1>1. e \in Types
  BY WordsAssumption
<1>2. Making(m, t, len, cap) = y
  BY DEF Making, SizeOfElem, Size
<1>3. /\ Sound(m1, F) /\ Keeps(m, F, m1, F) /\ Len(m1) = Len(m) + 1 /\ Holds(m1, a, e, cap)
      /\ a.obj = Len(m) + 1 /\ a.off = 0
  BY <1>1, ZerosFit, Allocated
<1>4. \A o \in 1..Len(m) : m1[o] = m[o]
  <2>1. IsSeq(m) /\ Len(m) \in Nat
    BY DEF Sound, IsSeq
  <2> QED  BY <2>1, SeqAppend DEF Alloc
<1>5. a.obj \notin F /\ Len(m) \in Nat
  <2>1. F \subseteq 2..Len(m) /\ Len(m) \in Nat
    BY DEF Sound, IsSeq
  <2> QED  BY <1>3, <2>1
<1>6. a # Zero
  BY <1>3, AddressNotZero DEF Holds
<1> HIDE DEF a, m1, e, F2
<1>7. Backs(m1, F, a, rtype[t].elem, cap)
  BY <1>3, <1>5, <1>6 DEF Backs, Window, e
<1>8. Plain(m1, F, w, t) /\ OfSlice(w) = [data |-> a, len |-> len, cap |-> cap]
  BY <1>7, HeaderFits
<1> HIDE DEF w
<1>9. NewHeader(m1, F, t, w, y, F2)
  <2>1. Kind(t) \in {"slice", "string"} /\ Sound(m1, F) /\ Plain(m1, F, w, t)
    BY <1>3, <1>8
  <2> QED  BY <2>1, HeadedFits DEF F2
<1>10. y = [mem |-> y.mem, v |-> y.v]
  BY DEF Headed
<1> HIDE DEF y
<1>11. y.v.typ = t /\ y.v.flags = {"Indir"}
  BY <1>9, ValueIs DEF NewHeader
<1>12. Sliced(y.mem, y.v).len = len /\ Sliced(y.mem, y.v).base = a
  <2>1. /\ Sliced(y.mem, y.v).len = OfSlice(Content(y.mem, y.v)[1]).len
        /\ Sliced(y.mem, y.v).base = OfSlice(Content(y.mem, y.v)[1]).data
    BY <1>11 DEF Sliced
  <2> QED  BY <1>8, <1>9, <2>1 DEF NewHeader
<1>13. Keeps(m, F, y.mem, F2)
  BY <1>3, <1>9, KeepsBoth DEF NewHeader
<1>14. \A o \in 1..Len(m) : y.mem[o] = m[o]
  BY <1>3, <1>4, <1>5, <1>9 DEF NewHeader
<1>15. NewSlice(m, F, y, t, len)
  BY <1>9, <1>10, <1>11, <1>12, <1>13, <1>14 DEF NewSlice, NewHeader
<1> QED  BY <1>2, <1>3, <1>12, <1>15

-----------------------------------------------------------------------------
(* Append and Copy                                                         *)

LEMMA StoreOthers ==
  ASSUME NEW m, NEW F, Sound(m, F), NEW a, NEW ws, NEW o \in 1..Len(m), o # a.obj
  PROVE  Store(m, a, ws)[o] = m[o]
<1>1. DOMAIN m = 1..Len(m)
  BY SeqDomain DEF Sound
<1> QED  BY <1>1 DEF Store, Refill

LEMMA PrefixFits ==
  ASSUME NEW m, NEW F, NEW t \in Types, NEW n \in Nat, NEW ws, Many(m, F, ws, t, n), NEW c \in Nat, c <= n
  PROVE  Many(m, F, SubSeq(ws, 1, c * Size(t)), t, c)
<1> DEFINE z == c * Size(t)
           o == 0
           v == SubSeq(ws, o + 1, o + z)
<1>1. z \in Nat /\ z <= Len(ws)
  <2>1. Size(t) \in Nat \ {0} /\ Len(ws) = n * Size(t)
    BY TypeFacts DEF Many
  <2> QED  BY <2>1
<1>2. IsSeq(ws) /\ \A k \in DOMAIN ws : Fits(m, F, ws[k], Cell(t, k))
  BY DEF Many
<1>3. DOMAIN ws = 1..Len(ws) /\ Len(ws) \in Nat
  BY <1>2, SeqDomain
<1>4. o \in Nat /\ o + z <= Len(ws)
  BY <1>1
<1> HIDE DEF z, o
<1>5. IsSeq(v) /\ Len(v) = z /\ \A k \in 1..z : v[k] = ws[o + k]
  BY <1>1, <1>2, <1>4, SeqSub
<1>6. DOMAIN v = 1..z
  BY <1>5, SeqDomain
<1>7. v = SubSeq(ws, 1, z)
  BY <1>1 DEF o
<1>8. \A k \in 1..z : v[k] = ws[k] /\ k \in DOMAIN ws
  BY <1>1, <1>3, <1>5 DEF o
<1> HIDE DEF v
<1>9. \A k \in DOMAIN v : Fits(m, F, v[k], Cell(t, k))
  BY <1>2, <1>6, <1>8
<1> QED  BY <1>5, <1>7, <1>9 DEF Many, z

(* Copies are of the same element type, and go where one may write.        *)
LEMMA CopyFits ==
  ASSUME NEW m, NEW F, Sound(m, F), NEW dst, ValueFits(m, F, dst), dst.typ \in Types,
         Kind(dst.typ) = "slice" \/ (Kind(dst.typ) = "array" /\ Addressable(dst)),
         NEW src, ValueFits(m, F, src), src.typ \in Types,
         Kind(src.typ) \in {"slice", "string", "array"}, Kind(src.typ) = "array" => "Indir" \in src.flags,
         rtype[dst.typ].elem = rtype[src.typ].elem
  PROVE  LET m2 == CopyTo(m, dst, src) IN
         /\ Sound(m2, F) /\ Keeps(m, F, m2, F)
         /\ \A o \in 1..Len(m) : o # Sliced(m, dst).base.obj => m2[o] = m[o]
<1> DEFINE e  == rtype[dst.typ].elem
           x  == Sliced(m, dst)
           nd == x.len
           ns == Sliced(m, src).len
           c  == IF nd < ns THEN nd ELSE ns
           ws == Elems(m, src)
           p  == Prefix(ws, Len(Elems(m, dst)))
           m2 == CopyTo(m, dst, src)
<1>1. e \in Types /\ x.len \in Nat /\ x.cap \in Nat /\ x.len <= x.cap /\ Backs(m, F, x.base, e, x.cap)
  BY SlicedFits
<1>2. ns \in Nat /\ Many(m, F, ws, e, ns)
  BY ElemsFit
<1>3. Many(m, F, Elems(m, dst), e, nd)
  <2>1. Kind(dst.typ) = "array" => "Indir" \in dst.flags
    BY VariableIs
  <2>2. Kind(dst.typ) \in {"slice", "string", "array"}
    OBVIOUS
  <2> QED  BY <2>1, <2>2, ElemsFit
<1>4. Size(e) \in Nat \ {0} /\ c \in Nat /\ c <= nd /\ c <= ns
  BY <1>1, <1>2, TypeFacts
<1>5. p = SubSeq(ws, 1, c * Size(e))
  <2>1. Len(Elems(m, dst)) = nd * Size(e) /\ Len(ws) = ns * Size(e)
    BY <1>2, <1>3 DEF Many
  <2>2. p = SubSeq(ws, 1, IF nd * Size(e) < ns * Size(e) THEN nd * Size(e) ELSE ns * Size(e))
    BY <2>1 DEF Prefix
  <2> DEFINE z == Size(e)
  <2>3. nd \in Nat /\ ns \in Nat /\ z \in Nat \ {0}
    BY <1>1, <1>2, <1>4
  <2> HIDE DEF nd, ns, z
  <2>4. nd * z < ns * z <=> nd < ns
    BY <2>3
  <2> QED  BY <2>2, <2>4 DEF z
<1> HIDE DEF nd, ns, c, ws, e, x
<1>6. Many(m, F, p, e, c)
  BY <1>1, <1>2, <1>4, <1>5, PrefixFits
<1> HIDE DEF p
<1>7. m2 = Moved(m, x.base, p)
  BY DEF CopyTo, x, p, ws
<1>8. CASE p = <<>>
  <2>1. m2 = m
    BY <1>7, <1>8 DEF Moved
  <2>2. Keeps(m, F, m, F)
    BY KeepsSame DEF Sound, IsSeq
  <2> QED  BY <2>1, <2>2
<1>9. CASE p # <<>>
  <2>1. m2 = Store(m, x.base, p)
    BY <1>7, <1>9 DEF Moved
  <2>2. c # 0
    <3>1. SUFFICES ASSUME c = 0 PROVE FALSE
      OBVIOUS
    <3>2. p = SubSeq(ws, 1, 0)
      BY <1>4, <1>5, <3>1
    <3>3. IsSeq(p) /\ Len(p) = 0
      BY <1>4, <1>6, <3>1 DEF Many
    <3>4. p = <<>>
      BY <3>3 DEF IsSeq
    <3> QED  BY <1>9, <3>4
  <2>3. x.cap # 0
    BY <1>1, <1>4, <2>2 DEF nd
  <2>4. Holds(m, x.base, e, x.cap) /\ x.base.obj \notin F
    BY <1>1, <2>3 DEF Backs, Window
  <2>5. c <= x.cap
    BY <1>1, <1>4 DEF nd
  <2>6. Holds(m, x.base, e, c)
    BY <1>1, <1>4, <2>4, <2>5, HoldsFewer
  <2>7. Sound(m2, F) /\ Keeps(m, F, m2, F)
    BY <1>1, <1>4, <1>6, <2>1, <2>4, <2>6, Stored
  <2>8. \A o \in 1..Len(m) : o # x.base.obj => m2[o] = m[o]
    BY <2>1, StoreOthers
  <2> QED  BY <2>7, <2>8 DEF x
<1> QED  BY <1>8, <1>9

LEMMA TwoLarge == \A n \in Nat : Two[n] >= n + 1
<1> DEFINE S == {n \in Nat : Two[n] >= n + 1}
<1>1. 0 \in S
  BY TwoDef
<1>2. \A n \in Nat : n \in S => n + 1 \in S
  BY TwoDef
<1> HIDE DEF S
<1>3. \A n \in Nat : n \in S
  BY <1>1, <1>2, Induction
<1> QED  BY <1>3 DEF S

LEMMA DoubledFits ==
  ASSUME NEW m \in Nat, NEW n \in Nat
  PROVE  Doubled(m, n) \in Nat /\ Doubled(m, n) >= n
<1>1. CASE m = 0
  BY <1>1 DEF Doubled
<1>2. CASE m # 0
  <2> DEFINE S == {m * Two[k] : k \in 0..n}
             T == {d \in S : d >= n}
  <2>1. \A k \in 0..n : Two[k] \in Nat
    BY TwoDef
  <2>2. S \subseteq Nat
    BY <2>1
  <2>3. m * Two[n] >= n
    <3>1. Two[n] >= n /\ Two[n] \in Nat
      BY TwoLarge, TwoDef
    <3> QED  BY <1>2, <3>1
  <2>4. m * Two[n] \in T
    BY <2>3
  <2> HIDE DEF S
  <2>5. PICK x \in T : \A y \in T : x <= y
    BY <2>2, <2>4, LeastNumber
  <2>6. \E c \in S : c >= n /\ \A d \in S : d >= n => c <= d
    BY <2>5
  <2> DEFINE c == CHOOSE c \in S : c >= n /\ \A d \in S : d >= n => c <= d
  <2>7. c \in S /\ c >= n
    BY <2>6
  <2>8. Doubled(m, n) = c
    BY <1>2 DEF Doubled, S
  <2> QED  BY <2>2, <2>7, <2>8
<1> QED  BY <1>1, <1>2

LEMMA GrowFits ==
  ASSUME NEW m, NEW F, Sound(m, F), NEW v, ValueFits(m, F, v), v.typ \in Types, Kind(v.typ) = "slice",
         NEW extra \in Nat
  PROVE  NewSlice(m, F, grow(m, v, extra), v.typ, Sliced(m, v).len + extra)
<1> DEFINE x == Sliced(m, v)
           n == x.len + extra
           e == rtype[v.typ].elem
           t == v.typ
<1>1. e \in Types /\ x.len \in Nat /\ x.cap \in Nat /\ x.len <= x.cap /\ Backs(m, F, x.base, e, x.cap)
  BY SlicedFits
<1>2. n \in Nat
  BY <1>1
<1>3. CASE n <= x.cap
  <2>1. ro(v.flags) = {}
    BY PlainFlags
  <2>2. grow(m, v, extra) = Reslice(m, t, x.base, 0, n, x.cap, {})
    BY <1>3, <2>1 DEF grow
  <2>3. 0 + x.cap <= x.cap
    BY <1>1
  <2> HIDE DEF x, n
  <2>4. NewSlice(m, F, Reslice(m, t, x.base, 0, n, x.cap, {}), t, n)
    BY <1>1, <1>2, <1>3, <2>3, ResliceFits
  <2> QED  BY <2>2, <2>4 DEF n, x
<1>4. CASE ~(n <= x.cap)
  <2> DEFINE d  == Doubled(x.cap, n)
             y  == Making(m, t, n, d)
             m2 == CopyTo(y.mem, y.v, v)
             z  == [y EXCEPT !.mem = m2]
  <2>1. grow(m, v, extra) = z
    BY <1>4 DEF grow
  <2>2. d \in Nat /\ n <= d
    BY <1>1, <1>2, DoubledFits
  <2> HIDE DEF d, n, x
  <2>3. NewSlice(m, F, y, t, n) /\ Sliced(y.mem, y.v).base.obj = Len(m) + 1
    BY <1>2, <2>2, MakingFits
  <2> HIDE DEF y
  <2>4. /\ y = [mem |-> y.mem, v |-> y.v] /\ y.v.typ = t /\ y.v.flags = {"Indir"}
        /\ Sliced(y.mem, y.v).len = n /\ \A o \in 1..Len(m) : y.mem[o] = m[o]
    BY <2>3 DEF NewSlice
  <2>5. PICK F2 : Sound(y.mem, F2) /\ Keeps(m, F, y.mem, F2) /\ ValueFits(y.mem, F2, y.v)
    BY <2>3 DEF NewSlice
  <2>6. ValueFits(y.mem, F2, v)
    BY <2>5, KeepsValue
  <2>7. /\ Sound(m2, F2) /\ Keeps(y.mem, F2, m2, F2)
        /\ \A o \in 1..Len(y.mem) : o # Sliced(y.mem, y.v).base.obj => m2[o] = y.mem[o]
    BY <2>4, <2>5, <2>6, CopyFits
  <2> HIDE DEF m2
  <2>8. z = [mem |-> m2, v |-> y.v]
    BY <2>4
  <2>9. ~Addressable(y.v)
    BY <2>4 DEF Addressable
  <2>10. Sliced(m2, y.v) = Sliced(y.mem, y.v)
    BY <2>4, <2>5, <2>7, <2>9, SameContent
  <2>11. Keeps(m, F, m2, F2) /\ ValueFits(m2, F2, y.v)
    BY <2>5, <2>7, KeepsBoth, KeepsValue
  <2>12. \A o \in 1..Len(m) : m2[o] = m[o]
    <3>1. Len(m) \in Nat /\ Len(y.mem) \in Nat /\ Len(m) <= Len(y.mem)
      BY <2>5 DEF Keeps
    <3> QED  BY <2>3, <2>4, <2>7, <3>1
  <2>13. NewSlice(m, F, z, t, n)
    BY <2>4, <2>7, <2>8, <2>10, <2>11, <2>12 DEF NewSlice
  <2> QED  BY <2>1, <2>13 DEF n, x
<1> QED  BY <1>3, <1>4

LEMMA SetOneFits ==
  ASSUME NEW m, NEW F, Sound(m, F), NEW v, ValueFits(m, F, v), v.typ \in Types, Kind(v.typ) = "slice",
         ~Addressable(v), NEW i \in Nat, i < Sliced(m, v).len,
         NEW u, ValueFits(m, F, u), u.typ = rtype[v.typ].elem
  PROVE  LET m2 == Store(m, ElemAddr(m, v, i), Content(m, u)) IN
         Sound(m2, F) /\ Keeps(m, F, m2, F) /\ Sliced(m2, v) = Sliced(m, v)
<1> DEFINE x == Sliced(m, v)
           e == rtype[v.typ].elem
           a == ElemAddr(m, v, i)
           m2 == Store(m, a, Content(m, u))
<1>1. e \in Types /\ x.len \in Nat /\ x.cap \in Nat /\ x.len <= x.cap /\ Backs(m, F, x.base, e, x.cap)
  BY SlicedFits
<1>2. a = At(x.base.obj, x.base.off + i * Size(e))
  BY DEF ElemAddr, arrayAt, SizeOfElem, Size
<1>3. i + 1 <= x.cap /\ x.cap # 0
  BY <1>1
<1>4. Holds(m, x.base, e, x.cap) /\ x.base.obj \notin F
  BY <1>1, <1>3 DEF Backs, Window
<1>5. Many(m, F, Content(m, u), e, 1)
  BY <1>1, ContentFits
<1> HIDE DEF x, e, a
<1>6. Holds(m, a, e, 1)
  BY <1>1, <1>2, <1>3, <1>4, HoldsFrom
<1>7. a.obj \notin F
  BY <1>2, <1>4 DEF At
<1>8. Sound(m2, F) /\ Keeps(m, F, m2, F)
  BY <1>1, <1>5, <1>6, <1>7, Stored
<1> HIDE DEF m2
<1>9. Sliced(m2, v) = Sliced(m, v)
  BY <1>8, SameContent
<1> QED  BY <1>8, <1>9 DEF m2, a

(* What Append does for the value number n that it was given.              *)
SetOne(b, v, i0, xs, n) == Store(b, ElemAddr(b, v, i0 + n - 1), Content(b, val[xs[n]]))

(* The Values that AppendValues gets are one or two.                       *)
LEMMA SetFromIs ==
  ASSUME NEW m, NEW v, NEW i0, NEW xs \in Arguments
  PROVE  /\ Len(xs) \in {1, 2} /\ DOMAIN xs = 1..Len(xs) /\ \A k \in DOMAIN xs : xs[k] \in Registers
         /\ Len(xs) = 1 => SetFrom(m, v, i0, xs) = SetOne(m, v, i0, xs, 1)
         /\ Len(xs) = 2 => SetFrom(m, v, i0, xs) = SetOne(SetOne(m, v, i0, xs, 1), v, i0, xs, 2)
<1> DEFINE G(b, n) == SetOne(b, v, i0, xs, n)
           m1 == G(m, 1)
           m2 == G(m1, 2)
           L == Len(xs)
           D == 0..L
           f == [n \in D |-> IF n = 0 THEN m ELSE IF n = 1 THEN m1 ELSE m2]
           H(g) == [n \in D |-> IF n = 0 THEN m ELSE LET b == g[n - 1] IN G(b, n)]
           after == CHOOSE g : g = H(g)
<1>0. L \in {1, 2} /\ DOMAIN xs = 1..L /\ \A k \in DOMAIN xs : xs[k] \in Registers
  BY DEF Arguments
<1>1. f = H(f)
  <2>1. \A n \in D : f[n] = IF n = 0 THEN m ELSE LET b == f[n - 1] IN G(b, n)
    <3> SUFFICES ASSUME NEW n \in D PROVE f[n] = IF n = 0 THEN m ELSE LET b == f[n - 1] IN G(b, n)
      OBVIOUS
    <3>1. L \in {1, 2}
      BY <1>0
    <3>2. CASE n = 0
      BY <3>2
    <3>3. CASE n = 1
      <4>1. f[n] = m1 /\ f[n - 1] = m
        BY <3>1, <3>3
      <4> HIDE DEF f
      <4> QED  BY <3>3, <4>1 DEF m1
    <3>4. CASE n = 2
      <4>1. f[n] = m2 /\ f[n - 1] = m1
        BY <3>1, <3>4
      <4> HIDE DEF f, m1, m2
      <4>2. m2 = SetOne(m1, v, i0, xs, n)
        BY <3>4 DEF m2
      <4> QED  BY <3>4, <4>1, <4>2
    <3>5. n \in {0, 1, 2}
      BY <3>1
    <3> HIDE DEF f, D, L
    <3> QED  BY <3>2, <3>3, <3>4, <3>5
  <2> HIDE DEF L, G
  <2> QED  BY <2>1
<1>2. after = H(after)
  <2> HIDE DEF f, H
  <2> QED  BY <1>1, Zenon
<1>3. SetFrom(m, v, i0, xs) = after[L]
  BY DEF SetFrom, SetOne
<1> HIDE DEF after
<1>4. L \in {1, 2} /\ 0 \in D /\ 1 \in D /\ L \in D
  BY <1>0
<1>5. \A n \in D : after[n] = IF n = 0 THEN m ELSE LET b == after[n - 1] IN G(b, n)
  <2> HIDE DEF G, L
  <2> QED  BY <1>2
<1>6. after[0] = m
  BY <1>4, <1>5
<1>7. after[1] = m1
  <2>1. after[1] = G(after[1 - 1], 1)
    BY <1>4, <1>5
  <2> HIDE DEF G
  <2>2. after[1] = G(m, 1)
    BY <1>6, <2>1
  <2> QED  BY <2>2 DEF m1, G
<1>8. L = 2 => after[2] = m2
  <2> SUFFICES ASSUME L = 2 PROVE after[2] = m2
    OBVIOUS
  <2>1. after[2] = G(after[2 - 1], 2)
    BY <1>4, <1>5
  <2> HIDE DEF G
  <2>2. after[2] = G(m1, 2)
    BY <1>7, <2>1
  <2> QED  BY <2>2 DEF m2, G
<1> QED  BY <1>0, <1>3, <1>4, <1>7, <1>8

LEMMA SetFromFits ==
  ASSUME NEW m, NEW F, Sound(m, F), NEW v, ValueFits(m, F, v), v.typ \in Types, Kind(v.typ) = "slice",
         ~Addressable(v), NEW xs \in Arguments, NEW i0 \in Nat, i0 + Len(xs) <= Sliced(m, v).len,
         \A r \in Registers : ValueFits(m, F, val[r]),
         \A k \in DOMAIN xs : val[xs[k]].typ = rtype[v.typ].elem
  PROVE  LET m2 == SetFrom(m, v, i0, xs) IN Sound(m2, F) /\ Keeps(m, F, m2, F)
<1> DEFINE m1 == SetOne(m, v, i0, xs, 1)
           m2 == SetOne(m1, v, i0, xs, 2)
<1>1. /\ Len(xs) \in {1, 2} /\ DOMAIN xs = 1..Len(xs)
      /\ \A k \in DOMAIN xs : xs[k] \in Registers
  BY DEF Arguments
<1>2. Sliced(m, v).len \in Nat
  BY SlicedFits
<1>3. Sound(m1, F) /\ Keeps(m, F, m1, F) /\ Sliced(m1, v) = Sliced(m, v)
  <2>1. i0 + 1 - 1 = i0 /\ i0 < Sliced(m, v).len
    BY <1>1, <1>2
  <2>2. 1 \in DOMAIN xs
    BY <1>1
  <2>3. ValueFits(m, F, val[xs[1]]) /\ val[xs[1]].typ = rtype[v.typ].elem
    BY <1>1, <2>2
  <2>4. m1 = Store(m, ElemAddr(m, v, i0), Content(m, val[xs[1]]))
    BY <2>1 DEF SetOne
  <2> HIDE DEF m1
  <2> QED  BY <2>1, <2>3, <2>4, SetOneFits
<1> HIDE DEF m1
<1>4. Len(xs) = 2 => Sound(m2, F) /\ Keeps(m, F, m2, F)
  <2> SUFFICES ASSUME Len(xs) = 2 PROVE Sound(m2, F) /\ Keeps(m, F, m2, F)
    OBVIOUS
  <2> DEFINE j == i0 + 2 - 1
  <2>1. j \in Nat /\ j < Sliced(m1, v).len
    BY <1>2, <1>3
  <2>2. 2 \in DOMAIN xs
    BY <1>1
  <2>3. ValueFits(m1, F, val[xs[2]]) /\ val[xs[2]].typ = rtype[v.typ].elem /\ ValueFits(m1, F, v)
    BY <1>1, <1>3, <2>2, KeepsValue
  <2>4. m2 = Store(m1, ElemAddr(m1, v, j), Content(m1, val[xs[2]]))
    BY DEF SetOne
  <2> HIDE DEF m2, j
  <2>5. Sound(m2, F) /\ Keeps(m1, F, m2, F)
    BY <1>3, <2>1, <2>3, <2>4, SetOneFits
  <2> QED  BY <1>3, <2>5, KeepsBoth
<1> HIDE DEF m2
<1>5. CASE Len(xs) = 1
  <2>1. SetFrom(m, v, i0, xs) = m1
    BY <1>5, SetFromIs DEF m1
  <2> QED  BY <1>3, <2>1
<1>6. CASE Len(xs) = 2
  <2>1. SetFrom(m, v, i0, xs) = m2
    BY <1>6, SetFromIs DEF m1, m2
  <2> QED  BY <1>4, <1>6, <2>1
<1> QED  BY <1>1, <1>5, <1>6

-----------------------------------------------------------------------------
(* What the operations on slices and strings do                            *)

LEMMA NewSliceMoves ==
  ASSUME NEW F, Fit(F), NEW r \in Registers, NEW t, NEW len, NEW y, NewSlice(mem, F, y, t, len),
         mem' = y.mem, Put(r, y.v), held' = held
  PROVE  Moves(F)
<1>1. PICK F2 : Sound(y.mem, F2) /\ Keeps(mem, F, y.mem, F2) /\ ValueFits(y.mem, F2, y.v)
  BY DEF NewSlice
<1> QED  BY <1>1, PutMoves

LEMMA MakeSliceMoves ==
  ASSUME NEW F, Fit(F), NEW r \in Registers, NEW t \in Types, NEW len \in Lengths, NEW cap \in Lengths,
         MakeSlice(r, t, len, cap)
  PROVE  Moves(F)
<1> DEFINE y == Making(mem, t, len, cap)
<1>1. Kind(t) = "slice" /\ len <= cap /\ mem' = y.mem /\ Put(r, y.v) /\ held' = held
  BY DEF MakeSlice
<1>2. len \in Nat /\ cap \in Nat /\ Sound(mem, F)
  BY SlicesAssumption, FitFacts
<1>3. NewSlice(mem, F, y, t, len)
  BY <1>1, <1>2, MakingFits
<1> HIDE DEF y
<1> QED  BY <1>1, <1>3, NewSliceMoves

LEMMA ReslicedMoves ==
  ASSUME NEW F, Fit(F), NEW r \in Registers, NEW v, ValueFits(mem, F, v), Sliceable(v),
         NEW t \in SliceType(v), NEW i \in Nat, NEW len \in Nat, NEW cap \in Nat,
         len <= cap, i + cap <= Sliced(mem, v).cap,
         LET y == Reslice(mem, t, Sliced(mem, v).base, i, len, cap, ro(v.flags))
         IN  Put(r, y.v) /\ mem' = y.mem,
         held' = held
  PROVE  Moves(F)
<1> DEFINE x == Sliced(mem, v)
           y == Reslice(mem, t, x.base, i, len, cap, {})
<1>1. v.typ \in Types /\ (Kind(v.typ) = "slice" \/ (Kind(v.typ) = "array" /\ Addressable(v)))
  BY DEF Sliceable, Is
<1>2. Sound(mem, F)
  BY FitFacts
<1>3. x.cap \in Nat /\ Backs(mem, F, x.base, rtype[v.typ].elem, x.cap)
  BY <1>1, <1>2, SlicedFits
<1>4. t \in Types /\ Kind(t) = "slice" /\ rtype[t].elem = rtype[v.typ].elem
  BY <1>1 DEF SliceType, SlicesOf
<1>5. ro(v.flags) = {}
  BY PlainFlags
<1>6. Put(r, y.v) /\ mem' = y.mem
  BY <1>5
<1> HIDE DEF x
<1>7. i + cap <= x.cap
  BY DEF x
<1>8. NewSlice(mem, F, y, t, len)
  BY <1>2, <1>3, <1>4, <1>7, ResliceFits
<1> HIDE DEF y
<1> QED  BY <1>6, <1>8, NewSliceMoves

LEMMA SliceMoves ==
  ASSUME NEW F, Fit(F), NEW r \in Registers, NEW s \in Registers, Slice(r, s) \/ Slice3(r, s)
  PROVE  Moves(F)
<1> DEFINE v == val[s]
           x == Sliced(mem, v)
<1>1. ValueFits(mem, F, v) /\ Sliceable(v) /\ held' = held /\ Sound(mem, F)
  BY FitFacts DEF Slice, Slice3
<1>2. x.cap \in Nat
  <2>1. v.typ \in Types /\ (Kind(v.typ) = "slice" \/ (Kind(v.typ) = "array" /\ Addressable(v)))
    BY <1>1 DEF Sliceable, Is
  <2> QED  BY <1>1, <2>1, SlicedFits
<1>3. CASE Slice(r, s)
  <2>1. PICK i \in 0..x.cap, j \in 0..x.cap, t \in SliceType(v) :
          i <= j /\ LET y == Reslice(mem, t, x.base, i, j - i, x.cap - i, ro(v.flags))
                    IN  Put(r, y.v) /\ mem' = y.mem
    BY <1>3 DEF Slice, Indexes
  <2> DEFINE len == j - i
             cap == x.cap - i
  <2>2. i \in Nat /\ len \in Nat /\ cap \in Nat /\ len <= cap /\ i + cap <= Sliced(mem, v).cap
    BY <1>2, <2>1
  <2>3. LET y == Reslice(mem, t, Sliced(mem, v).base, i, len, cap, ro(v.flags))
        IN  Put(r, y.v) /\ mem' = y.mem
    BY <2>1
  <2> HIDE DEF len, cap, x, v
  <2> QED  BY <1>1, <2>2, <2>3, ReslicedMoves
<1>4. CASE Slice3(r, s)
  <2>1. PICK i \in 0..x.cap, j \in 0..x.cap, k \in 0..x.cap, t \in SliceType(v) :
          i <= j /\ j <= k /\ LET y == Reslice(mem, t, x.base, i, j - i, k - i, ro(v.flags))
                              IN  Put(r, y.v) /\ mem' = y.mem
    BY <1>4 DEF Slice3, Indexes
  <2> DEFINE len == j - i
             cap == k - i
  <2>2. i \in Nat /\ len \in Nat /\ cap \in Nat /\ len <= cap /\ i + cap <= Sliced(mem, v).cap
    BY <1>2, <2>1
  <2>3. LET y == Reslice(mem, t, Sliced(mem, v).base, i, len, cap, ro(v.flags))
        IN  Put(r, y.v) /\ mem' = y.mem
    BY <2>1
  <2> HIDE DEF len, cap, x, v
  <2> QED  BY <1>1, <2>2, <2>3, ReslicedMoves
<1> QED  BY <1>3, <1>4

(* Where the words of a string are, and the bytes from i on.               *)
LEMMA StringFrom ==
  ASSUME NEW m, NEW F, Sound(m, F), NEW v, ValueFits(m, F, v), v.typ \in Types, Kind(v.typ) = "string",
         NEW i \in Nat, NEW n \in Nat
  PROVE  LET h == OfSlice(Content(m, v)[1])  a == At(h.data.obj, h.data.off + i) IN
         /\ h.len \in Nat
         /\ i < h.len /\ i + n <= h.len => Window(m, a, Uint8, n) /\ a.obj \in F
<1> DEFINE w == Content(m, v)[1]
           h == OfSlice(w)
           a == At(h.data.obj, h.data.off + i)
<1>1. Plain(m, F, w, v.typ)
  BY WordFits DEF Fits
<1> HIDE DEF w
<1>2. CASE w = Zero
  <2>1. h.len = 0
    BY <1>2 DEF OfSlice
  <2> QED  BY <2>1 DEF w
<1>3. CASE w # Zero
  <2>1. w \in [data : Addresses, len : Nat] /\ Window(m, w.data, Uint8, w.len) /\ w.data.obj \in F
    BY <1>1, <1>3, StringWord
  <2>2. h = w
    BY <1>3 DEF OfSlice
  <2>3. w.len \in Nat /\ w.data \in Addresses
    BY <2>1
  <2>4. ASSUME i < w.len, i + n <= w.len
        PROVE  Window(m, a, Uint8, n) /\ a.obj \in F
    <3> DEFINE d == w.data
               l == Len(m[d.obj].words)
    <3>1. Uint8 \in Types /\ Size(Uint8) = 1
      BY Uint8Facts
    <3>2. a = At(d.obj, d.off + i * Size(Uint8))
      BY <2>2, <3>1
    <3>3. Holds(m, d, Uint8, w.len)
      BY <2>1 DEF Window
    <3> HIDE DEF a, d
    <3>4. Holds(m, a, Uint8, n)
      BY <2>3, <2>4, <3>1, <3>2, <3>3, HoldsFrom
    <3>5. a.obj = d.obj /\ a.off = d.off + i
      BY <3>1, <3>2 DEF At
    <3>6. d.off \in Nat /\ d.off + w.len <= l /\ l \in Nat
      BY <2>3, <3>1, <3>3 DEF Holds, Addresses
    <3>7. a.off < l
      BY <2>3, <2>4, <3>5, <3>6
    <3> QED  BY <2>1, <3>4, <3>5, <3>7 DEF Window, d
  <2> HIDE DEF h
  <2>5. h.len \in Nat /\ (i < h.len /\ i + n <= h.len => Window(m, a, Uint8, n) /\ a.obj \in F)
    BY <2>2, <2>3, <2>4
  <2> QED  BY <2>5 DEF h, w, a
<1> QED  BY <1>2, <1>3

LEMMA StringFits ==
  ASSUME NEW m, NEW F, NEW t \in Types, Kind(t) = "string", NEW a, NEW n \in Nat,
         Window(m, a, Uint8, n), a.obj \in F
  PROVE  Plain(m, F, [data |-> a, len |-> n], t)
<1>1. a \in Addresses
  BY DEF Window, Holds
<1> QED  BY <1>1 DEF Plain

LEMMA SliceStringMoves ==
  ASSUME NEW F, Fit(F), NEW r \in Registers, NEW s \in Registers, SliceString(r, s)
  PROVE  Moves(F)
<1> DEFINE v == val[s]
           t == v.typ
           h == OfSlice(Content(mem, v)[1])
<1>1. /\ t \in Types /\ Kind(t) = "string" /\ held' = held
      /\ ValueFits(mem, F, v) /\ Sound(mem, F)
  BY FitFacts DEF SliceString, Is
<1>2. h.len \in Nat
  BY <1>1, StringFrom
<1>3. PICK i \in 0..h.len, j \in 0..h.len :
        i <= j /\ LET w == IF i < h.len THEN [data |-> At(h.data.obj, h.data.off + i), len |-> j - i] ELSE Zero
                  IN  /\ mem' = Alloc(mem, v.typ, <<w>>)
                      /\ Put(r, Value(v.typ, Fresh, v.flags))
  BY DEF SliceString, Word
<1> DEFINE a == At(h.data.obj, h.data.off + i)
           n == j - i
           w == IF i < h.len THEN [data |-> a, len |-> n] ELSE Zero
<1>4. i \in Nat /\ n \in Nat /\ i + n <= h.len
  BY <1>2, <1>3
<1>5. mem' = Alloc(mem, t, <<w>>) /\ Put(r, Value(t, Fresh, v.flags))
  BY <1>3
<1>6. i < h.len => Window(mem, a, Uint8, n) /\ a.obj \in F
  <2> HIDE DEF n, v, t
  <2> QED  BY <1>1, <1>4, StringFrom DEF t
<1> HIDE DEF a, n, h, t
<1>7. Plain(mem, F, w, t)
  BY <1>1, <1>4, <1>6, StringFits, ZeroFits
<1> HIDE DEF w
<1>8. Many(mem, F, <<w>>, t, 1)
  BY <1>1, <1>7, OneFits DEF Fits
<1>9. v.flags = {"Indir"} \/ v.flags = {"Indir", "Addr"}
  <2>1. ~Direct(t) /\ t # NoType
    BY <1>1, TypesAssumption
  <2> QED  BY <1>1, <2>1 DEF ValueFits, t
<1>10. CASE v.flags = {"Indir"}
  <2> HIDE DEF v
  <2> QED  BY <1>1, <1>5, <1>8, <1>10, PutFresh
<1>11. CASE v.flags = {"Indir", "Addr"}
  <2> HIDE DEF v
  <2>1. /\ Sound(mem', F) /\ Keeps(mem, F, mem', F) /\ Holds(mem', Fresh, t, 1)
        /\ Fresh.obj = Len(mem) + 1
    BY <1>1, <1>5, <1>8, Allocated DEF Fresh
  <2>2. Fresh.obj \notin F
    <3>1. F \subseteq 2..Len(mem) /\ Len(mem) \in Nat
      BY <1>1 DEF Sound, IsSeq
    <3> QED  BY <2>1, <3>1
  <2>3. ValueFits(mem', F, Value(t, Fresh, {"Indir", "Addr"}))
    BY <1>1, <2>1, <2>2, VariableFits
  <2> QED  BY <1>1, <1>5, <1>11, <2>1, <2>3, PutMoves
<1> QED  BY <1>9, <1>10, <1>11

LEMMA IndexMoves ==
  ASSUME NEW F, Fit(F), NEW r \in Registers, NEW s \in Registers, Index(r, s)
  PROVE  Moves(F)
<1> DEFINE v == val[s]
           t == v.typ
           h == OfSlice(Content(mem, v)[1])
           e == rtype[t].elem
<1>1. /\ t \in Types /\ Kind(t) \in {"slice", "string"} /\ UNCHANGED <<mem, held>>
      /\ ValueFits(mem, F, v) /\ Sound(mem, F) /\ ro(v.flags) = {}
  BY FitFacts, PlainFlags DEF Index, Is
<1>2. PICK i \in 0..(h.len - 1) :
        IF Kind(t) = "slice"
        THEN Put(r, Value(e, arrayAt(h.data, i, t), {"Addr", "Indir"}))
        ELSE Put(r, Value(Uint8, At(h.data.obj, h.data.off + i), {"Indir"}))
  <2>1. ro(v.flags) \cup {"Addr", "Indir"} = {"Addr", "Indir"} /\ ro(v.flags) \cup {"Indir"} = {"Indir"}
    BY <1>1
  <2> HIDE DEF e
  <2> QED  BY <2>1 DEF Index, Word, e
<1>3. CASE Kind(t) = "slice"
  <2> DEFINE x == Sliced(mem, v)
             a == arrayAt(h.data, i, t)
  <2>1. e \in Types /\ x.len \in Nat /\ x.cap \in Nat /\ x.len <= x.cap /\ Backs(mem, F, x.base, e, x.cap)
    BY <1>1, <1>3, SlicedFits
  <2>2. x.base = h.data /\ x.len = h.len
    BY <1>3 DEF Sliced
  <2>3. a = At(x.base.obj, x.base.off + i * Size(e))
    BY <2>2 DEF arrayAt, SizeOfElem, Size
  <2>4. i \in Nat /\ i < x.len
    BY <2>1, <2>2
  <2> HIDE DEF x, h, a, e
  <2>5. i + 1 <= x.cap /\ x.cap # 0
    BY <2>1, <2>4
  <2>6. Holds(mem, x.base, e, x.cap) /\ x.base.obj \notin F
    BY <2>1, <2>5 DEF Backs, Window
  <2>7. Holds(mem, a, e, 1)
    BY <2>1, <2>3, <2>4, <2>5, <2>6, HoldsFrom
  <2>8. a.obj \notin F
    BY <2>3, <2>6 DEF At
  <2>9. ValueFits(mem, F, Value(e, a, {"Indir", "Addr"}))
    BY <2>1, <2>7, <2>8, VariableFits
  <2>10. {"Indir", "Addr"} = {"Addr", "Indir"}
    OBVIOUS
  <2>11. Put(r, Value(e, a, {"Indir", "Addr"}))
    BY <1>2, <1>3, <2>10 DEF a
  <2> QED  BY <1>1, <2>9, <2>11, PutOnly
<1>4. CASE Kind(t) = "string"
  <2> DEFINE a == At(h.data.obj, h.data.off + i)
  <2>1. h.len \in Nat
    BY <1>1, <1>4, StringFrom
  <2>2. i \in Nat /\ i < h.len /\ i + 1 <= h.len
    BY <2>1
  <2>3. Window(mem, a, Uint8, 1) /\ a.obj \in F
    <3> HIDE DEF v
    <3> QED  BY <1>1, <1>4, <2>2, StringFrom
  <2>4. Put(r, Value(Uint8, a, {"Indir"}))
    BY <1>2, <1>4
  <2> HIDE DEF a
  <2>5. Data(mem, F, a, Uint8)
    BY <2>3 DEF Data, Window
  <2>6. ValueFits(mem, F, Value(Uint8, a, {"Indir"}))
    BY <2>5, DataFits, Uint8Facts
  <2> QED  BY <1>1, <2>4, <2>6, PutOnly
<1> QED  BY <1>1, <1>3, <1>4

LEMMA SetLenMoves ==
  ASSUME NEW F, Fit(F), NEW s \in Registers, SetLen(s) \/ SetCap(s)
  PROVE  Moves(F)
<1> DEFINE v == val[s]
           t == v.typ
           w == Word(v)
<1>1. /\ t \in Types /\ Kind(t) = "slice" /\ Addressable(v) /\ w # Zero /\ UNCHANGED <<val, held>>
      /\ ValueFits(mem, F, v) /\ Sound(mem, F)
  BY FitFacts DEF SetLen, SetCap, Is, Assignable
<1>2. Plain(mem, F, w, t)
  BY <1>1, WordFits DEF Word, Fits
<1>3. /\ w \in [data : Addresses, len : Nat, cap : Nat]
      /\ w.len <= w.cap /\ Window(mem, w.data, rtype[t].elem, w.cap) /\ w.data.obj \notin F
  <2> HIDE DEF w
  <2> QED  BY <1>1, <1>2, SliceWord
<1>4. Backs(mem, F, w.data, rtype[t].elem, w.cap)
  BY <1>3, AddressNotZero DEF Backs
<1>5. w.len \in Nat /\ w.cap \in Nat
  BY <1>3
<1>6. PICK len \in Nat, cap \in Nat : /\ len <= cap /\ cap <= w.cap
                                      /\ mem' = Store(mem, v.ptr, <<Header(w.data, len, cap)>>)
  <2>1. CASE SetLen(s)
    <3>1. PICK n \in 0..w.cap : mem' = Store(mem, v.ptr, <<Header(w.data, n, w.cap)>>)
      BY <2>1 DEF SetLen
    <3> HIDE DEF w
    <3> QED  BY <1>5, <3>1
  <2>2. CASE SetCap(s)
    <3>1. PICK n \in w.len..w.cap : mem' = Store(mem, v.ptr, <<Header(w.data, w.len, n)>>)
      BY <2>2 DEF SetCap
    <3> HIDE DEF w
    <3> QED  BY <1>5, <3>1
  <2> QED  BY <2>1, <2>2
<1>7. Backs(mem, F, w.data, rtype[t].elem, cap)
  <2>1. rtype[t].elem \in Types
    BY <1>1, WordsAssumption
  <2>2. Holds(mem, w.data, rtype[t].elem, cap)
    <3> HIDE DEF w, t
    <3> QED  BY <1>3, <1>5, <1>6, <2>1, HoldsFewer DEF Window
  <2> QED  BY <1>3, <2>2, AddressNotZero DEF Backs, Window
<1> HIDE DEF w
<1>8. Fits(mem, F, Header(w.data, len, cap), t)
  <2>1. Plain(mem, F, Header(w.data, len, cap), t)
    <3> HIDE DEF t
    <3> QED  BY <1>1, <1>6, <1>7, HeaderFits
  <2> QED  BY <1>1, <2>1 DEF Fits
<1>9. Kind(t) \notin {"struct", "array"}
  BY <1>1
<1> QED  BY <1>1, <1>6, <1>8, <1>9, WordMoves

LEMMA CopyMoves ==
  ASSUME NEW F, Fit(F), NEW s \in Registers, NEW t \in Registers, CopiedFrom(val[t]), Copy(s, t)
  PROVE  Moves(F)
<1> DEFINE dst == val[s]
           src == val[t]
<1>1. /\ dst.typ \in Types /\ Kind(dst.typ) \in {"slice", "array"}
      /\ src.typ \in Types /\ Kind(src.typ) \in {"slice", "array", "string"}
      /\ Kind(dst.typ) = "array" => Addressable(dst)
      /\ rtype[dst.typ].elem = IF Kind(src.typ) = "string" THEN Uint8 ELSE rtype[src.typ].elem
      /\ mem' = CopyTo(mem, dst, src) /\ UNCHANGED <<val, held>>
  BY DEF Copy, Is, Assignable
<1>2. ValueFits(mem, F, dst) /\ ValueFits(mem, F, src) /\ Sound(mem, F)
  BY FitFacts
<1>3. rtype[dst.typ].elem = rtype[src.typ].elem
  BY <1>1, Uint8Facts
<1>4. Kind(src.typ) = "array" => "Indir" \in src.flags
  <2> SUFFICES ASSUME Kind(src.typ) = "array" PROVE "Indir" \in src.flags
    OBVIOUS
  <2>1. ~Direct(src.typ)
    BY <1>1 DEF CopiedFrom, Is
  <2> QED  BY <1>1, <1>2, <2>1, NoTypeNone DEF ValueFits
<1>5. Kind(dst.typ) = "slice" \/ (Kind(dst.typ) = "array" /\ Addressable(dst))
  BY <1>1
<1> HIDE DEF dst, src
<1>6. Sound(mem', F) /\ Keeps(mem, F, mem', F)
  BY <1>1, <1>2, <1>3, <1>4, <1>5, CopyFits
<1> QED  BY <1>1, <1>6, MemoryMoves

LEMMA AppendValuesMoves ==
  ASSUME NEW F, Fit(F), NEW r \in Registers, NEW s \in Registers, NEW xs \in Arguments, AppendValues(r, s, xs)
  PROVE  Moves(F)
<1> DEFINE v  == val[s]
           i0 == Sliced(mem, v).len
           n  == Len(xs)
           y  == grow(mem, v, n)
<1>1. /\ v.typ \in Types /\ Kind(v.typ) = "slice"
      /\ \A k \in DOMAIN xs : val[xs[k]].typ = rtype[v.typ].elem
      /\ mem' = SetFrom(y.mem, y.v, i0, xs) /\ Put(r, y.v) /\ held' = held
  BY DEF AppendValues, Is
<1>2. ValueFits(mem, F, v) /\ Sound(mem, F)
  BY FitFacts
<1>3. i0 \in Nat
  BY <1>1, <1>2, SlicedFits
<1>4. n \in Nat
  BY DEF Arguments
<1> HIDE DEF i0, n
<1>5. NewSlice(mem, F, y, v.typ, i0 + n)
  BY <1>1, <1>2, <1>4, GrowFits DEF i0
<1> HIDE DEF y
<1>6. PICK F2 : Sound(y.mem, F2) /\ Keeps(mem, F, y.mem, F2) /\ ValueFits(y.mem, F2, y.v)
  BY <1>5 DEF NewSlice
<1>7. y.v.typ = v.typ /\ y.v.flags = {"Indir"} /\ Sliced(y.mem, y.v).len = i0 + n
  BY <1>5 DEF NewSlice
<1>8. \A q \in Registers : ValueFits(y.mem, F2, val[q])
  BY <1>6, FitFacts, KeepsValue
<1>9. /\ y.v.typ \in Types /\ Kind(y.v.typ) = "slice" /\ ~Addressable(y.v)
      /\ i0 + Len(xs) <= Sliced(y.mem, y.v).len
      /\ \A k \in DOMAIN xs : val[xs[k]].typ = rtype[y.v.typ].elem
  BY <1>1, <1>3, <1>4, <1>7 DEF Addressable, n
<1>10. Sound(mem', F2) /\ Keeps(y.mem, F2, mem', F2)
  BY <1>1, <1>3, <1>6, <1>8, <1>9, SetFromFits
<1>11. Keeps(mem, F, mem', F2) /\ ValueFits(mem', F2, y.v)
  BY <1>6, <1>10, KeepsBoth, KeepsValue
<1> QED  BY <1>1, <1>10, <1>11, PutMoves

(* What a Value stands for is the same after new objects were made.        *)
LEMMA OldContent ==
  ASSUME NEW m, NEW F, Sound(m, F), NEW m2, \A o \in 1..Len(m) : m2[o] = m[o],
         NEW v, ValueFits(m, F, v), v.typ \in Types
  PROVE  Content(m2, v) = Content(m, v) /\ Sliced(m2, v) = Sliced(m, v)
<1>1. Content(m2, v) = Content(m, v)
  <2>1. CASE v.flags = {}
    BY <2>1 DEF Content
  <2>2. CASE "Indir" \in v.flags
    <3>1. v.ptr.obj \in 1..Len(m)
      <4>1. Data(m, F, v.ptr, v.typ) \/ Holds(m, v.ptr, v.typ, 1)
        BY <2>2, PlainFlags, NoTypeNone DEF ValueFits
      <4>2. Len(m) \in Nat /\ Len(m) >= 1
        BY DEF Sound, IsSeq
      <4> QED  BY <4>1, <4>2 DEF Data, Zeroed, Holds
    <3>2. m2[v.ptr.obj] = m[v.ptr.obj]
      BY <3>1
    <3> QED  BY <2>2, <3>2 DEF Content, Load
  <2> QED  BY <2>1, <2>2, PlainFlags
<1> QED  BY <1>1 DEF Sliced

(* Words for the last elements of a slice.                                 *)
LEMMA TailFits ==
  ASSUME NEW m, NEW F, Sound(m, F), NEW v, ValueFits(m, F, v), v.typ \in Types, Kind(v.typ) = "slice",
         NEW i \in Nat, NEW n \in Nat, i + n <= Sliced(m, v).len,
         NEW ws, Many(m, F, ws, rtype[v.typ].elem, n)
  PROVE  LET m2 == Moved(m, ElemAddr(m, v, i), ws) IN Sound(m2, F) /\ Keeps(m, F, m2, F)
<1> DEFINE x  == Sliced(m, v)
           e  == rtype[v.typ].elem
           a  == ElemAddr(m, v, i)
           m2 == Moved(m, a, ws)
<1>1. e \in Types /\ x.len \in Nat /\ x.cap \in Nat /\ x.len <= x.cap /\ Backs(m, F, x.base, e, x.cap)
  BY SlicedFits
<1>2. a = At(x.base.obj, x.base.off + i * Size(e))
  BY DEF ElemAddr, arrayAt, SizeOfElem, Size
<1>3. CASE ws = <<>>
  <2>1. m2 = m
    BY <1>3 DEF Moved
  <2> QED  BY <2>1, KeepsSame DEF Sound, IsSeq
<1>4. CASE ws # <<>>
  <2>1. m2 = Store(m, a, ws)
    BY <1>4 DEF Moved
  <2>2. n # 0
    <3>1. IsSeq(ws) /\ Len(ws) = n * Size(e)
      BY DEF Many
    <3>2. Size(e) \in Nat
      BY <1>1, TypeFacts
    <3>3. n = 0 => Len(ws) = 0
      BY <3>1, <3>2
    <3>4. Len(ws) = 0 => ws = <<>>
      BY <3>1 DEF IsSeq
    <3> QED  BY <1>4, <3>3, <3>4
  <2> HIDE DEF a, e, x
  <2>3. x.cap # 0 /\ i + n <= x.cap
    BY <1>1, <2>2 DEF x
  <2>4. Holds(m, x.base, e, x.cap) /\ x.base.obj \notin F
    BY <1>1, <2>3 DEF Backs, Window
  <2>5. Holds(m, a, e, n)
    BY <1>1, <1>2, <2>3, <2>4, HoldsFrom
  <2>6. a.obj \notin F
    BY <1>2, <2>4 DEF At
  <2>7. Many(m, F, ws, e, n)
    BY DEF e
  <2>8. Sound(Store(m, a, ws), F) /\ Keeps(m, F, Store(m, a, ws), F)
    BY <1>1, <2>5, <2>6, <2>7, Stored
  <2> QED  BY <2>1, <2>8 DEF a
<1> QED  BY <1>3, <1>4

LEMMA AppendSliceMoves ==
  ASSUME NEW F, Fit(F), NEW r \in Registers, NEW s \in Registers, NEW t \in Registers, AppendSlice(r, s, t)
  PROVE  Moves(F)
<1> DEFINE v  == val[s]
           u  == val[t]
           e  == rtype[v.typ].elem
           i0 == Sliced(mem, v).len
           n  == Sliced(mem, u).len
           y  == grow(mem, v, n)
           a  == ElemAddr(y.mem, y.v, i0)
           ws == Elems(y.mem, u)
<1>1. /\ v.typ \in Types /\ Kind(v.typ) = "slice" /\ u.typ \in Types /\ Kind(u.typ) = "slice"
      /\ e = rtype[u.typ].elem
      /\ mem' = Moved(y.mem, a, ws) /\ Put(r, y.v) /\ held' = held
  BY DEF AppendSlice, Is
<1>2. ValueFits(mem, F, v) /\ ValueFits(mem, F, u) /\ Sound(mem, F)
  BY FitFacts
<1>3. i0 \in Nat /\ n \in Nat
  BY <1>1, <1>2, SlicedFits
<1> HIDE DEF i0, n
<1>4. NewSlice(mem, F, y, v.typ, i0 + n)
  BY <1>1, <1>2, <1>3, GrowFits DEF i0
<1> HIDE DEF y
<1>5. PICK F2 : Sound(y.mem, F2) /\ Keeps(mem, F, y.mem, F2) /\ ValueFits(y.mem, F2, y.v)
  BY <1>4 DEF NewSlice
<1>6. /\ y.v.typ = v.typ /\ y.v.flags = {"Indir"} /\ Sliced(y.mem, y.v).len = i0 + n
      /\ \A o \in 1..Len(mem) : y.mem[o] = mem[o]
  BY <1>4 DEF NewSlice
<1>7. Sliced(y.mem, u) = Sliced(mem, u)
  BY <1>1, <1>2, <1>6, OldContent
<1>8. ValueFits(y.mem, F2, u)
  BY <1>2, <1>5, KeepsValue
<1>9. Many(y.mem, F2, ws, e, n)
  <2>1. Kind(u.typ) \in {"slice", "string", "array"} /\ Kind(u.typ) # "array"
    BY <1>1
  <2> HIDE DEF u
  <2>2. Many(y.mem, F2, Elems(y.mem, u), rtype[u.typ].elem, Sliced(y.mem, u).len)
    BY <1>1, <1>5, <1>8, <2>1, ElemsFit
  <2> QED  BY <1>1, <1>7, <2>2 DEF n
<1>10. Sound(mem', F2) /\ Keeps(y.mem, F2, mem', F2)
  <2>1. i0 + n <= Sliced(y.mem, y.v).len
    BY <1>3, <1>6
  <2> HIDE DEF ws, a, v
  <2>2. Sound(Moved(y.mem, a, ws), F2) /\ Keeps(y.mem, F2, Moved(y.mem, a, ws), F2)
    BY <1>1, <1>3, <1>5, <1>6, <1>9, <2>1, TailFits DEF e, a
  <2> QED  BY <1>1, <2>2
<1>11. Keeps(mem, F, mem', F2) /\ ValueFits(mem', F2, y.v)
  BY <1>5, <1>10, KeepsBoth, KeepsValue
<1> QED  BY <1>1, <1>10, <1>11, PutMoves

LEMMA WithBytesFits ==
  ASSUME NEW m, NEW F, Sound(m, F), NEW t \in Types, Kind(t) = "string" \/ IsBytes(t),
         NEW ws, NEW n \in Nat, Many(m, F, ws, Uint8, n)
  PROVE  LET y == WithBytes(m, t, ws) IN
         /\ \E F2 : Sound(y.mem, F2) /\ Keeps(m, F, y.mem, F2) /\ ValueFits(y.mem, F2, y.v)
         /\ y.v = Value(t, y.v.ptr, {"Indir"})
<1>1. Kind(t) \in {"slice", "string"}
  BY DEF IsBytes
<1>2. CASE ws = <<>> /\ Kind(t) = "string"
  <2> DEFINE y == Headed(m, t, Zero, {})
  <2>1. WithBytes(m, t, ws) = y
    BY <1>2 DEF WithBytes
  <2>2. Plain(m, F, Zero, t)
    BY ZeroFits
  <2>3. NewHeader(m, F, t, Zero, y, F \cup {Len(m) + 1})
    BY <1>1, <2>2, HeadedFits
  <2> HIDE DEF y
  <2>4. y.v = Value(t, y.v.ptr, {"Indir"})
    BY <2>3, ValueIs DEF NewHeader
  <2> QED  BY <2>1, <2>3, <2>4 DEF NewHeader
<1>3. CASE ~(ws = <<>> /\ Kind(t) = "string")
  <2> DEFINE a  == At(Len(m) + 1, 0)
             m1 == Alloc(m, Uint8, ws)
             F1 == IF Kind(t) = "string" THEN F \cup {Len(m) + 1} ELSE F
             w  == IF Kind(t) = "string" THEN [data |-> a, len |-> n] ELSE Header(a, n, n)
             y  == Headed(m1, t, w, {})
  <2>1. Uint8 \in Types /\ Size(Uint8) = 1 /\ Kind(t) = "slice" => rtype[t].elem = Uint8
    BY Uint8Facts DEF IsBytes
  <2>2. Len(ws) = n
    BY <2>1, Uint8Facts DEF Many
  <2>3. WithBytes(m, t, ws) = y
    BY <1>3, <2>2 DEF WithBytes
  <2>4. Len(m) \in Nat /\ F \subseteq 2..Len(m)
    BY DEF Sound, IsSeq
  <2>5. /\ Sound(m1, F1) /\ Keeps(m, F, m1, F1) /\ Holds(m1, a, Uint8, n)
        /\ a.obj = Len(m) + 1 /\ a.off = 0
    <3>1. Uint8 \in Types /\ F \subseteq F1 /\ F1 \subseteq F \cup {Len(m) + 1}
      BY Uint8Facts
    <3> HIDE DEF F1
    <3> QED  BY <3>1, Allocated
  <2>6. a.obj \in F1 <=> Kind(t) = "string"
    BY <1>1, <2>4, <2>5
  <2> HIDE DEF a, m1, F1
  <2>7. Window(m1, a, Uint8, n)
    BY <2>5 DEF Window
  <2>8. Plain(m1, F1, w, t)
    <3>1. CASE Kind(t) = "string"
      <4>1. Plain(m1, F1, [data |-> a, len |-> n], t)
        BY <2>6, <2>7, <3>1, StringFits
      <4> QED  BY <3>1, <4>1
    <3>2. CASE Kind(t) # "string"
      <4>1. Kind(t) = "slice" /\ rtype[t].elem = Uint8
        BY <1>1, <3>2 DEF IsBytes
      <4>2. a # Zero
        BY <2>5, AddressNotZero DEF Holds
      <4>3. Backs(m1, F1, a, rtype[t].elem, n)
        BY <2>6, <2>7, <3>2, <4>1, <4>2 DEF Backs
      <4>4. n <= n
        OBVIOUS
      <4>5. Plain(m1, F1, Header(a, n, n), t)
        BY <4>1, <4>3, <4>4, HeaderFits
      <4> QED  BY <3>2, <4>5
    <3> QED  BY <3>1, <3>2
  <2> HIDE DEF w
  <2> DEFINE F2 == F1 \cup {Len(m1) + 1}
  <2>9. NewHeader(m1, F1, t, w, y, F2)
    BY <1>1, <2>5, <2>8, HeadedFits
  <2> HIDE DEF y, F2
  <2>10. y.v = Value(t, y.v.ptr, {"Indir"})
    BY <2>9, ValueIs DEF NewHeader
  <2>11. Sound(y.mem, F2) /\ Keeps(m, F, y.mem, F2) /\ ValueFits(y.mem, F2, y.v)
    BY <2>5, <2>9, KeepsBoth DEF NewHeader
  <2> QED  BY <2>3, <2>10, <2>11
<1> QED  BY <1>2, <1>3

LEMMA ConvertBytesMoves ==
  ASSUME NEW F, Fit(F), NEW r \in Registers, NEW s \in Registers, NEW t \in Types, ConvertBytes(r, s, t)
  PROVE  Moves(F)
<1> DEFINE v == val[s]
           y == Converted(v, t)
<1>1. /\ v.typ \in Types
      /\ \/ (IsBytes(v.typ) \/ v.typ = Uint8) /\ Kind(t) = "string"
         \/ Kind(v.typ) = "string" /\ IsBytes(t)
      /\ mem' = y.mem /\ Put(r, Value(t, y.v.ptr, ro(v.flags) \cup {"Indir"})) /\ held' = held
  BY DEF ConvertBytes
<1>2. ValueFits(mem, F, v) /\ Sound(mem, F) /\ ro(v.flags) \cup {"Indir"} = {"Indir"}
  BY FitFacts, PlainFlags
<1>3. Kind(t) = "string" \/ IsBytes(t)
  BY <1>1
<1>4. \E ws : \E n \in Nat : y = WithBytes(mem, t, ws) /\ Many(mem, F, ws, Uint8, n)
  <2> DEFINE ws == Elems(mem, v)
             n  == Sliced(mem, v).len
  <2>1. CASE IsBytes(v.typ)
    <3>1. y = WithBytes(mem, t, ws)
      BY <2>1, Uint8Facts DEF Converted, cvtBytesString, IsBytes
    <3>2. Kind(v.typ) \in {"slice", "string", "array"} /\ Kind(v.typ) # "array" /\ rtype[v.typ].elem = Uint8
      BY <2>1 DEF IsBytes
    <3>3. n \in Nat /\ Many(mem, F, ws, Uint8, n)
      BY <1>1, <1>2, <3>2, ElemsFit
    <3> QED  BY <3>1, <3>3
  <2>2. CASE Kind(v.typ) = "string"
    <3>1. y = WithBytes(mem, t, ws)
      BY <2>2, Uint8Facts DEF Converted, cvtStringBytes, IsBytes
    <3>2. Kind(v.typ) \in {"slice", "string", "array"} /\ Kind(v.typ) # "array" /\ rtype[v.typ].elem = Uint8
      BY <1>1, <2>2, Uint8Facts
    <3>3. n \in Nat /\ Many(mem, F, ws, Uint8, n)
      BY <1>1, <1>2, <3>2, ElemsFit
    <3> QED  BY <3>1, <3>3
  <2>3. CASE v.typ = Uint8
    <3>1. y = WithBytes(mem, t, Content(mem, v))
      BY <2>3, Uint8Facts DEF Converted, cvtUintString, IsBytes
    <3>2. Many(mem, F, Content(mem, v), Uint8, 1)
      BY <1>1, <1>2, <2>3, ContentFits
    <3> QED  BY <3>1, <3>2
  <2> QED  BY <1>1, <2>1, <2>2, <2>3
<1> HIDE DEF y
<1>5. PICK ws : \E n \in Nat : y = WithBytes(mem, t, ws) /\ Many(mem, F, ws, Uint8, n)
  BY <1>4
<1>6. PICK n \in Nat : y = WithBytes(mem, t, ws) /\ Many(mem, F, ws, Uint8, n)
  BY <1>5
<1>7. /\ \E F2 : Sound(y.mem, F2) /\ Keeps(mem, F, y.mem, F2) /\ ValueFits(y.mem, F2, y.v)
      /\ y.v = Value(t, y.v.ptr, {"Indir"})
  BY <1>2, <1>3, <1>6, WithBytesFits
<1>8. PICK F2 : Sound(y.mem, F2) /\ Keeps(mem, F, y.mem, F2) /\ ValueFits(y.mem, F2, y.v)
  BY <1>7
<1>9. Put(r, y.v)
  BY <1>1, <1>2, <1>7
<1> QED  BY <1>1, <1>8, <1>9, PutMoves

LEMMA StepMoves ==
  ASSUME NEW F, Fit(F), client \in Clients, SlicesNext
  PROVE  Moves(F)
<1>1. client.asked \subseteq Types
  BY TypesAssumption
<1> QED
  BY <1>1, NextMoves, MakeSliceMoves, SliceMoves, SliceStringMoves, IndexMoves, CopyMoves, SetLenMoves,
     AppendValuesMoves, AppendSliceMoves, ConvertBytesMoves DEF SlicesNext

-----------------------------------------------------------------------------
(* The invariant                                                           *)

LEMMA InitTyped == Init => Typed
<1> SUFFICES ASSUME Init PROVE Typed
  OBVIOUS
<1> DEFINE obj == Object("zeroVal", FALSE, Zeros(MaxZero))
<1>1. mem = <<obj>> /\ val = [r \in Registers |-> Invalid] /\ held = Zero /\ client \in Clients
  BY DEF Init
<1> HIDE DEF obj
<1>2. IsSeq(mem) /\ Len(mem) = 1 /\ mem[1] = obj
  BY <1>1, SeqOne
<1>3. Sound(mem, {})
  BY <1>2 DEF Sound, obj
<1>4. \A r \in Registers : val[r] = Invalid
  BY <1>1
<1>5. \A r \in Registers : ValueFits(mem, {}, val[r])
  BY <1>4, InvalidFits
<1>6. val = [r \in Registers |-> val[r]]
  BY <1>1, <1>4
<1>7. Boxed(mem, {}, held)
  BY <1>1, ZeroFits
<1> QED  BY <1>1, <1>3, <1>5, <1>6, <1>7 DEF Typed, AllFits

LEMMA StepsMove ==
  ASSUME NEW F, Fit(F), client \in Clients, [SlicesNext]_vars
  PROVE  Moves(F)
<1>1. CASE UNCHANGED vars
  <2>1. mem' = mem /\ val' = val /\ held' = held
    BY <1>1, Zenon DEF vars
  <2> QED  BY <2>1, FitFacts DEF Moves, Fit
<1> QED  BY <1>1, StepMoves

LEMMA SameClient == [SlicesNext]_vars => client' = client
<1>1. Next => client' = client
  BY DEF Next, Interface, ValueOf, Elem, Part, Addr, New, ZeroOf, MakeMap, MapIndex,
         Convert, Set, SetMapIndex, SetInt, SetUint, FieldAddr, Field
<1> QED
  BY <1>1 DEF SlicesNext, vars, MakeSlice, Slice, Slice3, SliceString, Index, Copy, SetLen,
              SetCap, AppendValues, AppendSlice, ConvertBytes

LEMMA StepTyped == Typed /\ [SlicesNext]_vars => Typed'
<1> SUFFICES ASSUME Typed, [SlicesNext]_vars  PROVE Typed'
  OBVIOUS
<1>1. PICK F : Fit(F)
  BY DEF Typed, Fit
<1>2. Moves(F)
  BY <1>1, StepsMove DEF Typed
<1>3. PICK F2 : AllFits(mem', F2, val', held')
  BY <1>2 DEF Moves
<1>4. F2 \in SUBSET (2..Len(mem'))
  BY <1>3 DEF AllFits, Sound
<1>5. client' \in Clients
  BY SameClient DEF Typed
<1> QED  BY <1>3, <1>4, <1>5 DEF Typed

(* Typed is inductive.                                                     *)
LEMMA AlwaysTyped == SlicesSpec => []Typed
BY InitTyped, StepTyped, PTL DEF SlicesSpec

-----------------------------------------------------------------------------
(* What the invariant says                                                 *)

LEMMA SomeFit ==
  ASSUME NEW F, Sound(mem, F), NEW a, NEW t \in Types, NEW n \in Nat, Holds(mem, a, t, n)
  PROVE  HasSome(a, t, n) /\ ~mem[a.obj].hmap
<1> DEFINE o  == mem[a.obj]
           ls == Leaves[t]
           lo == Leaves[o.typ]
           all == ObjectLeaves(o)
<1>1. /\ a.off \in Nat /\ a.obj \in 2..Len(mem) /\ ~o.hmap /\ o.typ \in Types
      /\ a.off + n * Size(t) <= Len(o.words) /\ Len(o.words) \in Nat
      /\ \A k \in 1..(n * Size(t)) : Cell(o.typ, a.off + k) = Cell(t, k)
  BY DEF Holds, Addresses
<1>2. IsSeq(o.words)
  BY <1>1 DEF Sound, ObjectFits
<1>3. Len(ls) = Size(t) /\ Len(lo) = Size(o.typ) /\ Size(t) \in Nat \ {0}
  BY <1>1, WordsAssumption DEF Size
<1>4. DOMAIN o.words = 1..Len(o.words)
  BY <1>2, SeqDomain
<1>5. all = [k \in 1..Len(o.words) |-> Cell(o.typ, k)]
  BY <1>1, <1>3, <1>4 DEF ObjectLeaves, Cell
<1>6. \A k \in 0..(n * Len(ls) - 1) : all[a.off + k + 1] = ls[(k % Len(ls)) + 1]
  <2> SUFFICES ASSUME NEW k \in 0..(n * Len(ls) - 1) PROVE all[a.off + k + 1] = ls[(k % Len(ls)) + 1]
    OBVIOUS
  <2> DEFINE z == n * Size(t)
             j == k + 1
  <2>1. z \in Nat /\ k \in 0..(z - 1)
    BY <1>3
  <2>2. j \in 1..z /\ a.off + j \in 1..Len(o.words) /\ a.off + k + 1 = a.off + j /\ j - 1 = k
    <3> DEFINE l == Len(o.words)
               b == a.off
    <3>1. b + z <= l /\ b \in Nat /\ l \in Nat
      BY <1>1
    <3> HIDE DEF z, l, b
    <3>2. j \in 1..z /\ b + j \in 1..l /\ b + k + 1 = b + j /\ j - 1 = k
      BY <2>1, <3>1
    <3> QED  BY <3>2 DEF l, b
  <2> HIDE DEF j
  <2>3. Cell(o.typ, a.off + j) = Cell(t, j)
    BY <1>1, <2>2
  <2>4. Cell(t, j) = ls[(k % Len(ls)) + 1]
    BY <1>3, <2>2 DEF Cell
  <2> HIDE DEF all, ls, o, z
  <2> QED  BY <1>5, <2>2, <2>3, <2>4
<1>7. a.off + n * Len(ls) <= Len(o.words)
  BY <1>1, <1>3
<1> QED  BY <1>1, <1>6, <1>7 DEF HasSome

LEMMA DataIs ==
  ASSUME NEW F, Sound(mem, F), NEW a, NEW t \in Types, Data(mem, F, a, t) \/ Holds(mem, a, t, 1)
  PROVE  DataOK(a, t)
<1>1. CASE Zeroed(a, t)
  BY <1>1 DEF Zeroed, DataOK, zeroVal, At, Size
<1>2. CASE Holds(mem, a, t, 1)
  BY <1>2, SomeFit DEF DataOK, HasAt
<1> QED  BY <1>1, <1>2 DEF Data

LEMMA WindowIs ==
  ASSUME NEW F, Sound(mem, F), NEW w, NEW t \in Types, NEW n \in Nat, Window(mem, w.data, t, n)
  PROVE  WindowOK(w, t, n)
BY SomeFit DEF Window, WindowOK

LEMMA PlainIs ==
  ASSUME NEW F, Sound(mem, F), NEW t \in Types, NEW w, Plain(mem, F, w, t),
         Kind(t) \notin {"struct", "array", "iface"}
  PROVE  PlainOK(w, t)
<1>1. Kind(t) \in {"int", "uint", "ptr", "map", "slice", "string"}
  BY TypesAssumption
<1>2. CASE Kind(t) \in {"int", "uint"}
  BY <1>2 DEF Plain, PlainOK, Integer, Is
<1>3. CASE Kind(t) = "ptr"
  <2>1. rtype[t].elem \in Types
    BY <1>3, WordsAssumption
  <2>2. w = Zero \/ Holds(mem, w, rtype[t].elem, 1)
    BY <1>3 DEF Plain, Integer, Is
  <2>3. PointerOK(w, rtype[t].elem)
    BY <2>1, <2>2, SomeFit DEF PointerOK, HasAt
  <2> QED  BY <1>3, <2>3 DEF PlainOK, Integer, Is
<1>4. CASE Kind(t) = "map"
  <2>1. MapOK(w, t)
    BY <1>4 DEF Plain, Integer, Is, MapOK
  <2> QED  BY <1>4, <2>1 DEF PlainOK, Integer, Is
<1>5. CASE Kind(t) = "slice"
  <2>1. rtype[t].elem \in Types
    BY <1>5, WordsAssumption
  <2>2. CASE w = Zero
    BY <1>5, <2>2 DEF PlainOK, SliceOK, Integer, Is
  <2>3. CASE w # Zero
    <3>1. /\ w \in [data : Addresses, len : Nat, cap : Nat]
          /\ w.len <= w.cap /\ Window(mem, w.data, rtype[t].elem, w.cap)
      BY <1>5, <2>3, SliceWord
    <3>2. w.len \in 0..w.cap /\ w.cap \in Nat
      BY <3>1
    <3>3. WindowOK(w, rtype[t].elem, w.cap)
      BY <2>1, <3>1, <3>2, WindowIs
    <3>4. SliceOK(w, t)
      BY <3>2, <3>3 DEF SliceOK
    <3> QED  BY <1>5, <3>4 DEF PlainOK, Integer, Is
  <2> QED  BY <2>2, <2>3
<1>6. CASE Kind(t) = "string"
  <2>1. rtype[t].elem = Uint8 /\ Uint8 \in Types
    BY <1>6, Uint8Facts
  <2>2. CASE w = Zero
    BY <1>6, <2>2 DEF PlainOK, Integer, Is
  <2>3. CASE w # Zero
    <3>1. w \in [data : Addresses, len : Nat] /\ Window(mem, w.data, Uint8, w.len)
      BY <1>6, <2>3, StringWord
    <3>2. w.len \in Nat
      BY <3>1
    <3>3. WindowOK(w, rtype[t].elem, w.len)
      BY <2>1, <3>1, <3>2, WindowIs
    <3> QED  BY <1>6, <3>3 DEF PlainOK, Integer, Is
  <2> QED  BY <2>2, <2>3
<1> QED  BY <1>1, <1>2, <1>3, <1>4, <1>5, <1>6

LEMMA BoxedIs ==
  ASSUME NEW F, Sound(mem, F), NEW w, Boxed(mem, F, w)
  PROVE  w = Zero \/ (IF Direct(w.typ) THEN PlainOK(w.data, Leaves[w.typ][1]) ELSE DataOK(w.data, w.typ))
<1> SUFFICES ASSUME w # Zero
             PROVE  IF Direct(w.typ) THEN PlainOK(w.data, Leaves[w.typ][1]) ELSE DataOK(w.data, w.typ)
  OBVIOUS
<1>1. /\ w.typ \in Types
      /\ IF Direct(w.typ) THEN Plain(mem, F, w.data, Leaves[w.typ][1]) ELSE Data(mem, F, w.data, w.typ)
  BY DEF Boxed
<1>2. CASE Direct(w.typ)
  <2>1. Leaves[w.typ][1] \in Types /\ Kind(Leaves[w.typ][1]) \notin {"struct", "array", "iface"}
    BY <1>1, <1>2, DirectFacts
  <2> QED  BY <1>1, <1>2, <2>1, PlainIs
<1>3. CASE ~Direct(w.typ)
  BY <1>1, <1>3, DataIs
<1> QED  BY <1>2, <1>3

LEMMA FitIs ==
  ASSUME NEW F, Sound(mem, F), NEW t \in Types, Kind(t) \notin {"struct", "array"}, NEW w, Fits(mem, F, w, t)
  PROVE  WordOK(w, t)
<1>1. CASE Kind(t) = "iface"
  <2>1. Boxed(mem, F, w)
    BY <1>1 DEF Fits
  <2> QED  BY <1>1, <2>1, BoxedIs DEF WordOK
<1>2. CASE Kind(t) # "iface"
  <2>1. Plain(mem, F, w, t)
    BY <1>2 DEF Fits
  <2> QED  BY <1>2, <2>1, PlainIs DEF WordOK
<1> QED  BY <1>1, <1>2

LEMMA ManyIs ==
  ASSUME NEW F, Sound(mem, F), NEW t \in Types, NEW ws, Many(mem, F, ws, t, 1)
  PROVE  WordsOK(ws, Leaves[t])
<1>1. Len(Leaves[t]) = Size(t) /\ Size(t) \in Nat \ {0}
  BY WordsAssumption DEF Size
<1>2. Len(ws) = Size(t) /\ IsSeq(ws) /\ \A k \in DOMAIN ws : Fits(mem, F, ws[k], Cell(t, k))
  BY <1>1 DEF Many
<1>3. DOMAIN ws = 1..Size(t)
  BY <1>2, SeqDomain
<1>4. ASSUME NEW k \in DOMAIN ws  PROVE WordOK(ws[k], Leaves[t][k])
  <2>1. k \in Nat \ {0} /\ k <= Size(t)
    BY <1>1, <1>3
  <2>2. Cell(t, k) = Leaves[t][k] /\ Cell(t, k) \in Types /\ Kind(Cell(t, k)) \notin {"struct", "array"}
    BY <2>1, CellFacts
  <2> QED  BY <1>2, <2>2, FitIs
<1> QED  BY <1>1, <1>2, <1>4 DEF WordsOK

LEMMA ObjectIs ==
  ASSUME NEW F, Sound(mem, F), NEW o, ObjectFits(mem, F, o)
  PROVE  /\ ObjectOK(o) /\ DOMAIN ObjectLeaves(o) = DOMAIN o.words
         /\ \A k \in DOMAIN o.words : ObjectLeaves(o)[k] = Cell(Base(o), k)
<1> DEFINE ls == ObjectLeaves(o)
           n == Len(o.words)
<1>1. /\ o.typ \in Types /\ IsSeq(o.words)
      /\ IF o.hmap THEN Kind(o.typ) = "map" /\ Len(o.words) \in {0, Size(Base(o))}
                   ELSE Len(o.words) % Size(o.typ) = 0
      /\ \A k \in DOMAIN o.words : Fits(mem, F, o.words[k], Cell(Base(o), k))
  BY DEF ObjectFits
<1>2. Base(o) \in Types
  BY <1>1, WordsAssumption DEF Base
<1>3. Len(Leaves[Base(o)]) = Size(Base(o))
  BY <1>2, WordsAssumption DEF Size
<1>4. DOMAIN o.words = 1..n /\ n \in Nat
  BY <1>1, SeqDomain
<1>5. ls = [k \in 1..n |-> Cell(Base(o), k)]
  BY <1>3, <1>4 DEF ObjectLeaves, Cell, Base
<1> HIDE DEF ls, n
<1>6. IsSeq(ls) /\ Len(ls) = n
  BY <1>4, <1>5, SeqMade
<1>7. ASSUME NEW k \in DOMAIN o.words  PROVE WordOK(o.words[k], ls[k])
  <2>1. k \in Nat \ {0} /\ ls[k] = Cell(Base(o), k)
    BY <1>4, <1>5
  <2>2. Cell(Base(o), k) \in Types /\ Kind(Cell(Base(o), k)) \notin {"struct", "array"}
    BY <1>2, <2>1, CellFacts
  <2> QED  BY <1>1, <2>1, <2>2, FitIs
<1>8. WordsOK(o.words, ls)
  BY <1>6, <1>7 DEF WordsOK, n
<1>9. IF o.hmap THEN Len(o.words) \in {0, rtype[rtype[o.typ].elem].size}
                ELSE Len(o.words) % rtype[o.typ].size = 0
  BY <1>1 DEF Base, Size
<1>10. ObjectOK(o)
  BY <1>8, <1>9 DEF ObjectOK, ls
<1> QED  BY <1>4, <1>5, <1>10 DEF ls

LEMMA TypedMemory == Typed => MemoryTyped
<1> SUFFICES ASSUME Typed PROVE MemoryTyped
  OBVIOUS
<1>1. PICK F : Fit(F)
  BY DEF Typed, Fit
<1>2. Sound(mem, F) /\ Boxed(mem, F, held) /\ \A r \in Registers : ValueFits(mem, F, val[r])
  BY <1>1, FitFacts
<1>3. mem[1].words = Zeros(MaxZero)
  BY <1>2 DEF Sound, Object
<1>4. \A k \in 2..Len(mem) : ObjectOK(mem[k])
  BY <1>2, ObjectIs DEF Sound
<1>5. ASSUME NEW r \in Registers, val[r].typ \in Types
      PROVE  /\ WordsOK(Content(mem, val[r]), Leaves[val[r].typ])
             /\ "Indir" \in val[r].flags => DataOK(val[r].ptr, val[r].typ)
             /\ Addressable(val[r]) => val[r].ptr.obj # zeroVal.obj
  <2> DEFINE v == val[r]
  <2>1. ValueFits(mem, F, v)
    BY <1>2
  <2>2. Many(mem, F, Content(mem, v), v.typ, 1)
    BY <1>2, <1>5, <2>1, ContentFits
  <2>3. WordsOK(Content(mem, v), Leaves[v.typ])
    BY <1>2, <1>5, <2>2, ManyIs
  <2>4. "Indir" \in v.flags => DataOK(v.ptr, v.typ)
    <3>1. "Indir" \in v.flags => Data(mem, F, v.ptr, v.typ) \/ Holds(mem, v.ptr, v.typ, 1)
      BY <1>5, <2>1, PlainFlags, NoTypeNone DEF ValueFits
    <3> QED  BY <1>2, <1>5, <3>1, DataIs
  <2>5. Addressable(v) => v.ptr.obj # zeroVal.obj
    BY <2>1, VariableIs DEF Holds, zeroVal, At
  <2> QED  BY <2>3, <2>4, <2>5
<1>6. held = Zero \/ (IF Direct(held.typ) THEN PlainOK(held.data, Leaves[held.typ][1])
                      ELSE DataOK(held.data, held.typ))
  BY <1>2, BoxedIs
<1> QED  BY <1>3, <1>4, <1>5, <1>6 DEF MemoryTyped

LEMMA TypedFlags == Typed => FlagsHold
<1> SUFFICES ASSUME Typed, NEW r \in Registers PROVE FlagsOk(val[r])
  BY DEF FlagsHold
<1>1. PICK F : ValueFits(mem, F, val[r])
  BY DEF Typed, AllFits
<1>2. val[r].flags \cap RO = {} /\ val[r].flags \in {{}, {"Indir"}, {"Indir", "Addr"}}
  BY <1>1, PlainFlags
<1>3. val[r].typ \in Types /\ ~Direct(val[r].typ) => val[r].flags # {}
  BY <1>1, NoTypeNone DEF ValueFits
<1> QED  BY <1>2, <1>3 DEF FlagsOk

(* What is frozen is the same after a step.                                *)
LEMMA DataKept ==
  ASSUME NEW F, Sound(mem, F), NEW F2, Sound(mem', F2), Keeps(mem, F, mem', F2),
         NEW a, NEW t \in Types, Data(mem, F, a, t)
  PROVE  Unchanged(a, t)
<1>1. Size(t) \in Nat \ {0}
  BY TypeFacts
<1>2. CASE Zeroed(a, t)
  <2>1. a.obj = 1 /\ a.off \in Nat /\ a.off + Size(t) <= MaxZero /\ MaxZero \in Nat
    BY <1>2, WordsAssumption DEF Zeroed, Addresses
  <2>2. mem'[1] = mem[1] /\ mem[1].words = Zeros(MaxZero)
    BY DEF Sound, Object
  <2>3. DOMAIN Zeros(MaxZero) = 1..MaxZero
    BY DEF Zeros
  <2>4. \A k \in (a.off + 1)..(a.off + Size(t)) : k \in 1..MaxZero
    BY <1>1, <2>1
  <2> QED  BY <2>1, <2>2, <2>3, <2>4 DEF Unchanged, Size
<1>3. CASE Holds(mem, a, t, 1) /\ a.obj \in F
  <2> DEFINE o == mem[a.obj]
             n == Len(o.words)
  <2>1. a.off \in Nat /\ a.obj \in 2..Len(mem) /\ n \in Nat /\ a.off + Size(t) <= n
    <3>1. 1 * Size(t) = Size(t)
      BY <1>1
    <3> QED  BY <1>3, <3>1 DEF Holds, Addresses
  <2>2. DOMAIN o.words = 1..n
    <3>1. IsSeq(o.words)
      BY <2>1 DEF Sound, ObjectFits
    <3> QED  BY <3>1, SeqDomain
  <2>3. mem'[a.obj] = o
    BY <1>3 DEF Keeps
  <2> HIDE DEF o, n
  <2>4. \A k \in (a.off + 1)..(a.off + Size(t)) : k \in 1..n
    BY <1>1, <2>1
  <2> QED  BY <2>2, <2>3, <2>4 DEF Unchanged, Size, o
<1> QED  BY <1>2, <1>3 DEF Data

LEMMA StepFrozen ==
  ASSUME Typed, [SlicesNext]_vars
  PROVE  /\ \A r \in Registers : LET v == val[r] IN
              val'[r] = v /\ v.typ \in Types =>
                /\ "Indir" \in v.flags /\ ~Addressable(v) => Unchanged(v.ptr, v.typ)
                /\ Kind(v.typ) = "string" => StringKept(Word(v))
         /\ \A w \in Interfaces : ~Direct(w.typ) => Unchanged(w.data, w.typ)
<1>1. PICK F : Fit(F)
  BY DEF Typed, Fit
<1>2. Sound(mem, F) /\ Boxed(mem, F, held) /\ \A r \in Registers : ValueFits(mem, F, val[r])
  BY <1>1, FitFacts
<1>3. Moves(F)
  BY <1>1, StepsMove DEF Typed
<1>4. PICK F2 : Keeps(mem, F, mem', F2) /\ Sound(mem', F2)
  BY <1>3 DEF Moves, AllFits
<1>5. ASSUME NEW r \in Registers, val[r].typ \in Types
      PROVE  /\ "Indir" \in val[r].flags /\ ~Addressable(val[r]) => Unchanged(val[r].ptr, val[r].typ)
             /\ Kind(val[r].typ) = "string" => StringKept(Word(val[r]))
  <2> DEFINE v == val[r]
             w == Word(v)
  <2>1. ValueFits(mem, F, v)
    BY <1>2
  <2>2. ASSUME "Indir" \in v.flags, ~Addressable(v)  PROVE Unchanged(v.ptr, v.typ)
    <3>1. Data(mem, F, v.ptr, v.typ)
      BY <1>5, <2>1, <2>2, PlainFlags, NoTypeNone DEF ValueFits, Addressable
    <3> QED  BY <1>2, <1>4, <1>5, <3>1, DataKept
  <2>3. ASSUME Kind(v.typ) = "string"  PROVE StringKept(w)
    <3>1. Plain(mem, F, w, v.typ)
      BY <1>2, <1>5, <2>1, <2>3, WordFits DEF Fits, Word
    <3> HIDE DEF w
    <3>2. w = Zero \/ w.data.obj \in F
      BY <1>5, <2>3, <3>1, StringWord
    <3> QED  BY <1>4, <3>2 DEF StringKept, Keeps
  <2> QED  BY <2>2, <2>3
<1>6. ASSUME NEW w \in Interfaces, ~Direct(w.typ)  PROVE Unchanged(w.data, w.typ)
  <2>1. w # Zero /\ Boxed(mem, F, w)
    <3>1. w # Zero /\ (w = held \/ \E o \in 2..Len(mem) : w \in InterfaceWords(mem[o]))
      BY <1>6 DEF Interfaces
    <3>2. ASSUME NEW o \in 2..Len(mem), w \in InterfaceWords(mem[o])  PROVE Boxed(mem, F, w)
      <4>1. ObjectFits(mem, F, mem[o])
        BY <1>2 DEF Sound
      <4>2. PICK k \in DOMAIN ObjectLeaves(mem[o]) : w = mem[o].words[k] /\ Kind(ObjectLeaves(mem[o])[k]) = "iface"
        BY <3>2 DEF InterfaceWords
      <4>3. k \in DOMAIN mem[o].words /\ ObjectLeaves(mem[o])[k] = Cell(Base(mem[o]), k)
        BY <1>2, <4>1, <4>2, ObjectIs
      <4>4. Fits(mem, F, w, Cell(Base(mem[o]), k))
        BY <4>1, <4>2, <4>3 DEF ObjectFits
      <4> QED  BY <4>2, <4>3, <4>4 DEF Fits
    <3> QED  BY <1>2, <3>1, <3>2
  <2>2. w.typ \in Types /\ Data(mem, F, w.data, w.typ)
    BY <1>6, <2>1 DEF Boxed
  <2> QED  BY <1>2, <1>4, <2>2, DataKept
<1> QED  BY <1>5, <1>6

(* Addressable Values are indirect, and so are those of types that         *)
(* interfaces do not hold directly; none is read-only: after any           *)
(* operations, whatever Values they were used on.                          *)
THEOREM FlagsSound == SlicesSpec => []FlagsHold
BY AlwaysTyped, TypedFlags, PTL

(* All of memory, and all that Values and interfaces refer to, is of the   *)
(* type they say; and nobody has a Value to write to zeroVal with.         *)
THEOREM Memory == SlicesSpec => []MemoryTyped
BY AlwaysTyped, TypedMemory, PTL

(* What a Value that is not addressable stands for, what is in an          *)
(* interface and the bytes of a string never change, for packEface,        *)
(* copyVal, cvtDirect and the conversions of strings copy what can.        *)
THEOREM Frozen == SlicesSpec => ValuesFrozen /\ InterfacesFrozen
<1> DEFINE V == \A r \in Registers : LET v == val[r] IN
                  val'[r] = v /\ v.typ \in Types =>
                    /\ "Indir" \in v.flags /\ ~Addressable(v) => Unchanged(v.ptr, v.typ)
                    /\ Kind(v.typ) = "string" => StringKept(Word(v))
           I == \A w \in Interfaces : ~Direct(w.typ) => Unchanged(w.data, w.typ)
<1>1. Typed /\ [SlicesNext]_vars => [V]_vars /\ [I]_vars
  BY StepFrozen
<1>2. SlicesSpec => [][V]_vars /\ [][I]_vars
  BY <1>1, AlwaysTyped, PTL DEF SlicesSpec
<1> QED  BY <1>2 DEF ValuesFrozen, InterfacesFrozen

-----------------------------------------------------------------------------
(* Numbers                                                                 *)

LEMMA ModUnique ==
  ASSUME NEW a \in Nat \ {0}, NEW x \in Int, NEW q \in Int, NEW r \in 0..(a - 1), x = a * q + r
  PROVE  x % a = r /\ x \div a = q
<1> DEFINE p == x \div a
           y == x % a
<1>1. y \in 0..(a - 1) /\ p \in Int /\ x = a * p + y
  BY ModRange
<1> HIDE DEF p, y
<1> DEFINE d == q - p
<1>2. d \in Int /\ y - r = a * d
  BY <1>1
<1> HIDE DEF d
<1>3. y - r \in -(a - 1)..(a - 1)
  BY <1>1
<1>4. d >= 1 => a * d >= a
  BY <1>2
<1>5. d <= -1 => a * d <= -a
  BY <1>2
<1>6. d = 0
  BY <1>2, <1>3, <1>4, <1>5
<1>7. y = r /\ p = q
  BY <1>1, <1>2, <1>6 DEF d
<1> QED  BY <1>7 DEF y, p

LEMMA ModScale ==
  ASSUME NEW a \in Nat \ {0}, NEW c \in Nat \ {0}, NEW x \in Int
  PROVE  (x * c) % (a * c) = (x % a) * c
<1> DEFINE q == x \div a
           r == x % a
           z == a * c
           y == x * c
           s == r * c
<1>1. r \in 0..(a - 1) /\ q \in Int /\ x = a * q + r
  BY ModRange
<1> HIDE DEF q, r
<1>2. z \in Nat \ {0} /\ y \in Int
  OBVIOUS
<1>3. s \in Nat /\ s <= (a - 1) * c
  BY <1>1
<1>4. (a - 1) * c = z - c
  OBVIOUS
<1>5. s \in 0..(z - 1)
  BY <1>2, <1>3, <1>4
<1>6. y = z * q + s
  BY <1>1
<1> HIDE DEF z, y, s
<1>7. y % z = s
  BY <1>1, <1>2, <1>5, <1>6, ModUnique
<1> QED  BY <1>7 DEF y, z, s, r

LEMMA DivExact ==
  ASSUME NEW c \in Nat \ {0}, NEW y \in Int
  PROVE  (y * c) \div c = y
<1> DEFINE x == y * c
           r == 0
<1>1. x \in Int /\ x = c * y + r /\ r \in 0..(c - 1)
  OBVIOUS
<1> HIDE DEF x, r
<1>2. x \div c = y
  BY <1>1, ModUnique
<1> QED  BY <1>2 DEF x

LEMMA ModLow ==
  ASSUME NEW a \in Nat \ {0}, NEW c \in Nat \ {0}, NEW x \in Int
  PROVE  (x % (a * c)) % a = x % a
<1> DEFINE z == a * c
           q == x \div z
           r == x % z
           p == r \div a
           s == r % a
<1>1. z \in Nat \ {0} /\ z = a * c
  OBVIOUS
<1> HIDE DEF z
<1>2. r \in Int /\ q \in Int /\ x = z * q + r
  <2>1. z \in Nat \ {0}
    BY <1>1
  <2> QED  BY <2>1, ModRange
<1> HIDE DEF q, r
<1>3. z * q = a * (c * q)
  BY <1>1, <1>2
<1>4. s \in 0..(a - 1) /\ p \in Int /\ r = a * p + s
  BY <1>2, ModRange
<1> HIDE DEF p, s
<1> DEFINE u == c * q + p
<1>5. u \in Int /\ x = a * u + s
  BY <1>2, <1>3, <1>4
<1> HIDE DEF u
<1>6. x % a = s
  BY <1>4, <1>5, ModUnique
<1> QED  BY <1>6 DEF s, r, z

LEMMA ModAdd ==
  ASSUME NEW a \in Nat \ {0}, NEW x \in Int, NEW h \in Int
  PROVE  ((x % a) + h) % a = (x + h) % a
<1> DEFINE q == x \div a
           r == x % a
           y == r + h
           p == y \div a
           s == y % a
           z == x + h
<1>1. r \in Int /\ q \in Int /\ x = a * q + r
  BY ModRange
<1> HIDE DEF q, r
<1>2. y \in Int /\ z \in Int /\ z = a * q + y
  BY <1>1
<1> HIDE DEF y, z
<1>3. s \in 0..(a - 1) /\ p \in Int /\ y = a * p + s
  BY <1>2, ModRange
<1> HIDE DEF p, s
<1> DEFINE u == q + p
<1>4. u \in Int /\ z = a * u + s
  BY <1>1, <1>2, <1>3
<1> HIDE DEF u
<1>5. z % a = s
  BY <1>2, <1>3, <1>4, ModUnique
<1> QED  BY <1>5 DEF s, z, y, r

LEMMA TwoSum == \A j, k \in Nat : Two[j + k] = Two[j] * Two[k]
<1> SUFFICES ASSUME NEW j \in Nat PROVE \A k \in Nat : Two[j + k] = Two[j] * Two[k]
  OBVIOUS
<1> DEFINE S == {k \in Nat : Two[j + k] = Two[j] * Two[k]}
<1>1. 0 \in S
  <2>1. Two[j] \in Nat /\ j + 0 = j
    BY TwoDef
  <2>2. Two[j] * Two[0] = Two[j]
    BY <2>1, TwoDef
  <2> QED  BY <2>1, <2>2
<1>2. ASSUME NEW n \in Nat, n \in S  PROVE n + 1 \in S
  <2> DEFINE a == Two[j]
             b == Two[n]
             c == Two[j + n]
  <2>1. a \in Nat /\ b \in Nat /\ c \in Nat /\ c = a * b
    BY <1>2, TwoDef
  <2>2. Two[n + 1] = 2 * b /\ Two[(j + n) + 1] = 2 * c /\ j + (n + 1) = (j + n) + 1
    BY TwoDef
  <2> HIDE DEF a, b, c
  <2>3. 2 * c = a * (2 * b)
    BY <2>1
  <2>4. Two[j + (n + 1)] = a * Two[n + 1]
    BY <2>2, <2>3
  <2> QED  BY <2>4 DEF a
<1> HIDE DEF S
<1>3. \A k \in Nat : k \in S
  BY <1>1, <1>2, Induction
<1> QED  BY <1>3 DEF S

LEMMA WidthFacts ==
  ASSUME NEW b \in Nat \ {0}
  PROVE  /\ Two[b] \in Nat \ {0} /\ Two[b - 1] \in Nat \ {0} /\ Two[b] = 2 * Two[b - 1]
<1>1. b - 1 \in Nat /\ (b - 1) + 1 = b
  OBVIOUS
<1> QED  BY <1>1, TwoDef

(* A number is what its bits say if, and only if, the type has it.         *)
LEMMA FitsUnsigned ==
  ASSUME NEW a \in Nat \ {0}, NEW n \in Int
  PROVE  n % a = n <=> n \in 0..(a - 1)
<1>1. n % a \in 0..(a - 1)
  BY ModRange
<1>2. n \in 0..(a - 1) => n % a = n
  BY ModSmall
<1> QED  BY <1>1, <1>2

LEMMA FitsSigned ==
  ASSUME NEW h \in Nat \ {0}, NEW n \in Int
  PROVE  ((n + h) % (2 * h)) - h = n <=> n \in -h..(h - 1)
<1> DEFINE a == 2 * h
           z == n + h
           y == z % a
<1>1. a \in Nat \ {0} /\ z \in Int
  OBVIOUS
<1>2. z % a = z <=> z \in 0..(a - 1)
  BY <1>1, FitsUnsigned
<1>3. y \in 0..(a - 1)
  BY <1>1, ModRange
<1>4. z \in 0..(a - 1) <=> n \in -h..(h - 1)
  OBVIOUS
<1> HIDE DEF a
<1>5. y \in Int
  BY <1>1, <1>3
<1>6. y - h = n <=> y = z
  <2> HIDE DEF y
  <2> QED  BY <1>5
<1> QED  BY <1>2, <1>4, <1>6 DEF a

LEMMA Decoded ==
  ASSUME NEW b \in Nat \ {0}, NEW n \in Int, NEW signed \in BOOLEAN
  PROVE  LET x == Unsigned(n, b)  y == IF signed THEN Signed(x, b) ELSE x IN
         (y = n <=> n \in Numbers(b, signed)) /\ y % Two[b] = n % Two[b]
<1> DEFINE a == Two[b]
           h == Two[b - 1]
           x == n % a
<1>1. a \in Nat \ {0} /\ h \in Nat \ {0} /\ a = 2 * h
  BY WidthFacts
<1> HIDE DEF a, h
<1>2. x \in Int
  BY <1>1, ModRange
<1>3. CASE signed
  <2> DEFINE z == n + h
             w == z % a
             g == -h
             y == w - h
  <2>1. w = (x + h) % a
    <3>1. a \in Nat \ {0} /\ h \in Int
      BY <1>1
    <3> QED  BY <3>1, ModAdd
  <2>2. z \in Int /\ g \in Int
    BY <1>1
  <2>3. w \in Int
    BY <1>1, <2>2, ModRange
  <2>4. (w + g) % a = (z + g) % a
    BY <1>1, <2>2, ModAdd
  <2>5. y = n <=> n \in -h..(h - 1)
    BY <1>1, FitsSigned
  <2> HIDE DEF w
  <2>6. w + g = y /\ z + g = n
    BY <1>1, <2>3
  <2>7. y % a = n % a
    BY <2>4, <2>6
  <2> HIDE DEF y
  <2>8. Signed(x, b) = y
    BY <2>1 DEF Signed, y, a, h
  <2> QED  BY <1>3, <2>5, <2>7, <2>8 DEF Unsigned, Numbers, a, h
<1>4. CASE ~signed
  <2>1. x = n <=> n \in 0..(a - 1)
    BY <1>1, FitsUnsigned
  <2>2. x % a = n % a
    <3> DEFINE g == 0
    <3>1. a \in Nat \ {0} /\ g \in Int
      BY <1>1
    <3> HIDE DEF g
    <3>2. ((n % a) + g) % a = (n + g) % a
      BY <3>1, ModAdd
    <3> HIDE DEF x
    <3>3. x + g = x /\ n + g = n
      BY <1>2 DEF g
    <3> QED  BY <3>2, <3>3 DEF x
  <2> QED  BY <1>4, <2>1, <2>2 DEF Unsigned, Numbers, a, h
<1> QED  BY <1>3, <1>4

(* The shifts tell just the numbers that the type does not have.           *)
LEMMA OverflowIs ==
  ASSUME NEW w \in Nat \ {0}, NEW b \in 1..w, NEW signed \in BOOLEAN, NEW x \in Int
  PROVE  Overflow(x, b, w, signed) <=> x \notin Numbers(b, signed)
<1> DEFINE a == Two[b]
           h == Two[b - 1]
           k == w - b
           c == Two[k]
           l == Two[w - 1]
           z == x * c
<1>1. b \in Nat \ {0} /\ b - 1 \in Nat /\ k \in Nat /\ b + k = w /\ (b - 1) + k = w - 1
  OBVIOUS
<1>2. a \in Nat \ {0} /\ h \in Nat \ {0} /\ a = 2 * h /\ c \in Nat \ {0}
  BY <1>1, WidthFacts, TwoDef
<1>3. Two[w] = a * c /\ l = h * c
  BY <1>1, TwoSum
<1> HIDE DEF k, a, h, c, l
<1>4. CASE ~signed
  <2> DEFINE y == x % a
  <2>1. z % (a * c) = y * c
    BY <1>2, ModScale
  <2>2. y \in Int
    BY <1>2, ModRange
  <2>3. (y * c) \div c = y
    BY <1>2, <2>2, DivExact
  <2>4. ShiftLeft(x, k, w, signed) = y * c
    BY <1>3, <1>4, <2>1 DEF ShiftLeft, Unsigned, c
  <2>5. ShiftRight(ShiftLeft(x, k, w, signed), k) = y
    BY <2>3, <2>4 DEF ShiftRight, c
  <2>6. y = x <=> x \in 0..(a - 1)
    BY <1>2, FitsUnsigned
  <2> QED  BY <1>4, <2>5, <2>6 DEF Overflow, Numbers, k, a, h
<1>5. CASE signed
  <2> DEFINE u == x + h
             v == u % a
             y == v - h
  <2>1. u \in Int
    BY <1>2
  <2>2. (u * c) % (a * c) = v * c
    BY <1>2, <2>1, ModScale
  <2>3. v \in Int
    BY <1>2, <2>1, ModRange
  <2>4. z + l = u * c
    BY <1>2, <1>3
  <2>5. Signed(z, w) = (v * c) - l
    BY <1>3, <2>2, <2>4 DEF Signed, l
  <2>6. y = x <=> x \in -h..(h - 1)
    BY <1>2, FitsSigned
  <2> HIDE DEF v
  <2>7. (v * c) - l = y * c /\ y \in Int
    BY <1>2, <1>3, <2>3
  <2> HIDE DEF y
  <2>8. (y * c) \div c = y
    BY <1>2, <2>7, DivExact
  <2>9. ShiftLeft(x, k, w, signed) = y * c
    BY <1>5, <2>5, <2>7 DEF ShiftLeft, c
  <2>10. ShiftRight(ShiftLeft(x, k, w, signed), k) = y
    BY <2>8, <2>9 DEF ShiftRight, c
  <2> QED  BY <1>5, <2>6, <2>10 DEF Overflow, Numbers, k, a, h
<1> QED  BY <1>4, <1>5

LEMMA StoredWord ==
  ASSUME NEW m, NEW F, Sound(m, F), NEW v, ValueFits(m, F, v), Addressable(v),
         Kind(v.typ) \notin {"struct", "array"}, NEW w
  PROVE  Content(Store(m, v.ptr, <<w>>), v)[1] = w
<1> DEFINE a   == v.ptr
           old == m[a.obj].words
           m2  == Store(m, a, <<w>>)
           new == [k \in DOMAIN old |-> IF k - a.off \in DOMAIN <<w>> THEN <<w>>[k - a.off] ELSE old[k]]
           n   == Len(old)
<1>1. v.typ \in Types /\ Holds(m, a, v.typ, 1) /\ v.flags = {"Indir", "Addr"}
  BY VariableIs
<1>2. Size(v.typ) = 1
  BY <1>1, SimpleFacts
<1>3. a.obj \in 1..Len(m) /\ a.off \in Nat /\ n \in Nat /\ a.off + 1 <= n /\ DOMAIN old = 1..n
  <2>1. a.obj \in 2..Len(m) /\ a.off \in Nat /\ n \in Nat /\ a.off + 1 <= n
    BY <1>1, <1>2 DEF Holds, Addresses
  <2>2. IsSeq(old)
    BY <2>1 DEF Sound, ObjectFits
  <2>3. Len(m) \in Nat
    BY DEF Sound, IsSeq
  <2> QED  BY <2>1, <2>2, <2>3, SeqDomain
<1>4. DOMAIN m = 1..Len(m)
  BY SeqDomain DEF Sound
<1>5. m2[a.obj].words = new
  BY <1>3, <1>4 DEF Store, Refill, Object
<1> HIDE DEF m2, n, old
<1>6. IsSeq(new) /\ Len(new) = n
  <2>1. DOMAIN new = 1..n /\ new = [k \in 1..n |-> new[k]]
    BY <1>3
  <2> HIDE DEF new
  <2> QED  BY <1>3, <2>1, SeqMade
<1>7. new[a.off + 1] = w
  <2>1. a.off + 1 \in DOMAIN old /\ (a.off + 1) - a.off = 1
    BY <1>3
  <2>2. 1 \in DOMAIN <<w>> /\ <<w>>[1] = w
    BY SeqOne
  <2> QED  BY <2>1, <2>2
<1> HIDE DEF new
<1>8. SubSeq(new, a.off + 1, a.off + 1)[1] = new[a.off + 1]
  <2> DEFINE f   == a.off
             one == 1
  <2>1. f \in Nat /\ one \in Nat /\ f + one <= Len(new) /\ 1 \in 1..one
    BY <1>3, <1>6
  <2> HIDE DEF f, one
  <2>2. SubSeq(new, f + 1, f + one)[1] = new[f + 1]
    BY <1>6, <2>1, SeqSub
  <2> QED  BY <2>2 DEF f, one
<1>9. Content(m2, v) = SubSeq(new, a.off + 1, a.off + 1)
  BY <1>1, <1>2, <1>5 DEF Content, Load, Size
<1> QED  BY <1>7, <1>8, <1>9 DEF m2, a

LEMMA UnsignedNat ==
  ASSUME NEW n \in Int, NEW b, Two[b] \in Nat \ {0}
  PROVE  Unsigned(n, b) \in Nat
<1> DEFINE a == Two[b]
<1>1. a \in Nat \ {0}
  OBVIOUS
<1> HIDE DEF a
<1>2. n % a \in Nat
  BY <1>1, ModRange
<1> QED  BY <1>2 DEF Unsigned, a

LEMMA NumberIs ==
  ASSUME NEW m, NEW v, Integer(v.typ), NEW n \in Int, Content(m, v)[1] = Encoded(n, v.typ)
  PROVE  LET b == rtype[v.typ].bits  signed == Kind(v.typ) = "int" IN
         /\ Number(m, v) = n <=> n \in Numbers(b, signed)
         /\ Number(m, v) % Two[b] = n % Two[b]
<1> DEFINE t == v.typ
           b == rtype[t].bits
           x == Unsigned(n, b)
           w == Content(m, v)[1]
<1>1. b \in Nat \ {0} /\ Two[b] \in Nat \ {0}
  BY IntegerKind
<1>2. x \in Nat
  BY <1>1, UnsignedNat
<1>3. w = IF x = 0 THEN Zero ELSE x
  BY DEF Encoded
<1> HIDE DEF x, w
<1>4. Bits(w) = x
  BY <1>2, <1>3, TypesAssumption DEF Bits
<1> DEFINE signed == Kind(t) = "int"
           y == IF signed THEN Signed(x, b) ELSE x
<1>5. Number(m, v) = y
  BY <1>4 DEF Number, w
<1> HIDE DEF b
<1>6. (y = n <=> n \in Numbers(b, signed)) /\ y % Two[b] = n % Two[b]
  <2> DEFINE sg == signed
  <2>1. sg \in BOOLEAN
    OBVIOUS
  <2> HIDE DEF signed
  <2> QED  BY <1>1, <2>1, Decoded DEF x
<1> QED  BY <1>5, <1>6 DEF b

(* What one step does to numbers.                                          *)
LEMMA StepNumbers ==
  ASSUME Typed
  PROVE  /\ \A s \in Registers, n \in client.ints : SetInt(s, n) \/ SetUint(s, n) =>
              LET fits == n \in Numbers(rtype[val[s].typ].bits, Kind(val[s].typ) = "int")
              IN  /\ Overflows(val[s], n) <=> ~fits
                  /\ fits <=> Number(mem', val[s]) = n
         /\ \A r, s \in Registers, t \in client.asked :
              Integer(t) /\ Integer(val[s].typ) /\ Convert(r, s, t) =>
                LET x == Number(mem, val[s])  y == Number(mem', val'[r])
                IN  /\ x = y <=> x \in Numbers(rtype[t].bits, Kind(t) = "int")
                    /\ x % Two[rtype[t].bits] = y % Two[rtype[t].bits]
<1>1. PICK F : Fit(F)
  BY DEF Typed, Fit
<1>2. Sound(mem, F) /\ \A r \in Registers : ValueFits(mem, F, val[r])
  BY <1>1, FitFacts
<1>3. client.ints \subseteq Int /\ client.asked \subseteq Types /\ MaxBits \in Nat \ {0}
  BY TypesAssumption DEF Typed
<1>4. val = [r \in Registers |-> val[r]]
  BY DEF Typed, AllFits
<1>5. ASSUME NEW s \in Registers, NEW n \in client.ints, SetInt(s, n) \/ SetUint(s, n)
      PROVE  LET fits == n \in Numbers(rtype[val[s].typ].bits, Kind(val[s].typ) = "int")
             IN  /\ Overflows(val[s], n) <=> ~fits
                 /\ fits <=> Number(mem', val[s]) = n
  <2> DEFINE v == val[s]
             t == v.typ
             b == rtype[t].bits
             signed == Kind(t) = "int"
  <2>1. /\ Integer(t) /\ Addressable(v)
        /\ mem' = Store(mem, v.ptr, <<Encoded(n, t)>>)
    BY <1>5 DEF SetInt, SetUint, Integer, Assignable
  <2>2. Kind(t) \in {"int", "uint"} /\ t \in Types /\ ValueFits(mem, F, v) /\ n \in Int
    BY <1>2, <1>3, <2>1, IntegerKind
  <2>3. b \in 1..MaxBits
    BY <2>2, TypesAssumption
  <2>4. Content(mem', v)[1] = Encoded(n, t)
    BY <1>2, <2>1, <2>2, StoredWord
  <2>5. Number(mem', v) = n <=> n \in Numbers(b, signed)
    <3> HIDE DEF v
    <3> QED  BY <2>1, <2>2, <2>4, NumberIs
  <2>6. Overflows(v, n) <=> n \notin Numbers(b, signed)
    <3>1. signed \in BOOLEAN
      OBVIOUS
    <3>2. Overflow(n, b, MaxBits, signed) <=> n \notin Numbers(b, signed)
      <4> HIDE DEF signed, b
      <4> QED  BY <1>3, <2>2, <2>3, <3>1, OverflowIs
    <3> QED  BY <3>2 DEF Overflows
  <2> QED  BY <2>5, <2>6
<1>6. ASSUME NEW r \in Registers, NEW s \in Registers, NEW t \in client.asked,
             Integer(t), Integer(val[s].typ), Convert(r, s, t)
      PROVE  LET x == Number(mem, val[s])  y == Number(mem', val'[r])
             IN  /\ x = y <=> x \in Numbers(rtype[t].bits, Kind(t) = "int")
                 /\ x % Two[rtype[t].bits] = y % Two[rtype[t].bits]
  <2> DEFINE v == val[s]
             u == val'[r]
             x == Number(mem, v)
             y == Number(mem', u)
             b == rtype[t].bits
             signed == Kind(t) = "int"
             n == Unsigned(x, MaxBits)
  <2>1. /\ mem' = Alloc(mem, t, <<makeInt(v, t)>>)
        /\ Put(r, Value(t, Fresh, ro(v.flags) \cup {"Indir"}))
    BY <1>6, IntegerKind DEF Convert
  <2>2. u = Value(t, Fresh, ro(v.flags) \cup {"Indir"})
    BY <1>4, <2>1 DEF Put
  <2>3. u.typ = t /\ u.ptr = Fresh /\ "Indir" \in u.flags
    BY <2>2, ValueIs
  <2> HIDE DEF u
  <2>4. x \in Int /\ Kind(t) \in {"int", "uint"} /\ t \in Types
    BY <1>2, <1>6, NumberInt, IntegerKind
  <2>5. b \in 1..MaxBits
    BY <2>4, TypesAssumption
  <2>6. Content(mem', u)[1] = Encoded(n, t)
    <3> DEFINE w == makeInt(v, t)
               obj == Object(t, FALSE, <<w>>)
    <3>1. IsSeq(mem) /\ Len(mem) \in Nat
      BY <1>2 DEF Sound, IsSeq
    <3>2. mem'[Len(mem) + 1] = obj /\ obj.words = <<w>>
      BY <2>1, <3>1, SeqAppend DEF Alloc, Object
    <3>3. u.ptr.obj = Len(mem) + 1 /\ u.ptr.off = 0
      BY <2>3 DEF Fresh, At
    <3>4. Size(t) = 1
      BY <2>4, SimpleFacts
    <3> HIDE DEF w, obj
    <3>5. Content(mem', u) = SubSeq(<<w>>, 0 + 1, 0 + 1)
      BY <2>3, <3>2, <3>3, <3>4 DEF Content, Load, Size
    <3>6. Content(mem', u)[1] = w
      BY <3>5, SeqOne
    <3> QED  BY <3>6 DEF w, makeInt
  <2>7. n \in Int /\ Two[b] \in Nat \ {0} /\ n % Two[b] = x % Two[b]
    <3> DEFINE a == Two[b]
               c == Two[MaxBits - b]
               k == MaxBits - b
    <3>1. b \in Nat /\ k \in Nat /\ b + k = MaxBits
      BY <1>3, <2>5
    <3>2. a \in Nat \ {0} /\ c \in Nat \ {0} /\ Two[MaxBits] = a * c
      <4> HIDE DEF b
      <4>1. Two[b] \in Nat \ {0} /\ Two[k] \in Nat \ {0} /\ Two[b + k] = Two[b] * Two[k]
        <5> HIDE DEF k
        <5> QED  BY <3>1, TwoDef, TwoSum
      <4> QED  BY <3>1, <4>1
    <3> HIDE DEF a, c, x
    <3>3. n = x % (a * c)
      BY <3>2 DEF Unsigned
    <3>4. (x % (a * c)) % a = x % a
      BY <2>4, <3>2, ModLow
    <3>5. n \in Int
      <4> DEFINE z == a * c
      <4>1. z \in Nat \ {0}
        BY <3>2
      <4> HIDE DEF z
      <4>2. x % z \in Int
        BY <2>4, <4>1, ModRange
      <4> QED  BY <3>3, <4>2 DEF z
    <3> QED  BY <3>2, <3>3, <3>4, <3>5 DEF a
  <2> HIDE DEF n
  <2>8. /\ y = n <=> n \in Numbers(b, signed)
        /\ y % Two[b] = n % Two[b]
    BY <1>6, <2>3, <2>6, <2>7, NumberIs
  <2>9. x % Two[b] = y % Two[b]
    BY <2>7, <2>8
  <2>10. x = y <=> x \in Numbers(b, signed)
    <3>1. y = IF signed THEN Signed(Unsigned(x, b), b) ELSE Unsigned(x, b)
      <4> DEFINE z == Unsigned(n, b)
                 w == Encoded(n, t)
      <4>1. z = Unsigned(x, b)
        BY <2>7 DEF Unsigned
      <4>2. z \in Nat
        BY <2>7, UnsignedNat
      <4>3. w = IF z = 0 THEN Zero ELSE z
        BY DEF Encoded
      <4> HIDE DEF z, w
      <4>4. Bits(w) = z
        BY <4>2, <4>3, TypesAssumption DEF Bits
      <4>5. Bits(Content(mem', u)[1]) = z
        BY <2>6, <4>4 DEF w
      <4>6. y = IF signed THEN Signed(z, b) ELSE z
        BY <2>3, <4>5 DEF Number
      <4> QED  BY <4>1, <4>6
    <3>2. b \in Nat \ {0}
      BY <1>3, <2>5
    <3> DEFINE sg == signed
    <3>3. sg \in BOOLEAN
      OBVIOUS
    <3> HIDE DEF signed, b, x, y
    <3>4. LET xx == Unsigned(x, b)  yy == IF sg THEN Signed(xx, b) ELSE xx IN
          yy = x <=> x \in Numbers(b, sg)
      BY <2>4, <3>2, <3>3, Decoded
    <3> QED  BY <3>1, <3>4
  <2> QED  BY <2>9, <2>10 DEF u
<1> QED  BY <1>5, <1>6

(* OverflowInt and OverflowUint are true of just the numbers that SetInt   *)
(* and SetUint do not keep, and conversions keep the low bits.             *)
THEOREM NumbersExact == SlicesSpec => NumbersKept
<1> DEFINE N == /\ \A s \in Registers, n \in client.ints : SetInt(s, n) \/ SetUint(s, n) =>
                     LET fits == n \in Numbers(rtype[val[s].typ].bits, Kind(val[s].typ) = "int")
                     IN  /\ Overflows(val[s], n) <=> ~fits
                         /\ fits <=> Number(mem', val[s]) = n
                /\ \A r, s \in Registers, t \in client.asked :
                     Integer(t) /\ Integer(val[s].typ) /\ Convert(r, s, t) =>
                       LET x == Number(mem, val[s])  y == Number(mem', val'[r])
                       IN  /\ x = y <=> x \in Numbers(rtype[t].bits, Kind(t) = "int")
                           /\ x % Two[rtype[t].bits] = y % Two[rtype[t].bits]
<1>1. Typed => [N]_vars
  BY StepNumbers
<1>2. SlicesSpec => [][N]_vars
  BY <1>1, AlwaysTyped, PTL DEF SlicesSpec
<1> QED  BY <1>2 DEF NumbersKept
-----------------------------------------------------------------------------
(* What Append gives                                                       *)

LEMMA SeqSame ==
  ASSUME NEW s, NEW u, IsSeq(s), IsSeq(u), Len(s) = Len(u), \A k \in 1..Len(s) : s[k] = u[k]
  PROVE  s = u
BY DEF IsSeq

LEMMA SeqConcat ==
  ASSUME NEW s, NEW u, IsSeq(s), IsSeq(u)
  PROVE  /\ IsSeq(s \o u) /\ Len(s \o u) = Len(s) + Len(u)
         /\ \A k \in 1..Len(s) : (s \o u)[k] = s[k]
         /\ \A k \in 1..Len(u) : (s \o u)[Len(s) + k] = u[k]
<1> DEFINE S == {s[k] : k \in DOMAIN s} \cup {u[k] : k \in DOMAIN u}
<1>1. (\A k \in DOMAIN s : s[k] \in S) /\ (\A k \in DOMAIN u : u[k] \in S)
  OBVIOUS
<1> HIDE DEF S
<1>2. s \in Seq(S) /\ u \in Seq(S)
  BY <1>1, SeqIn
<1>3. s \o u \in Seq(S)
  BY <1>2
<1>4. IsSeq(s \o u)
  BY <1>3, SeqIs
<1>5. Len(s \o u) = Len(s) + Len(u) /\ \A k \in 1..Len(s) : (s \o u)[k] = s[k]
  BY <1>2
<1>6. \A k \in 1..Len(u) : (s \o u)[Len(s) + k] = u[k]
  BY <1>2
<1> QED  BY <1>4, <1>5, <1>6

LEMMA SoundWords ==
  ASSUME NEW m, NEW F, Sound(m, F), NEW o \in 1..Len(m)
  PROVE  IsSeq(m[o].words) /\ DOMAIN m[o].words = 1..Len(m[o].words) /\ Len(m[o].words) \in Nat
<1>1. CASE o = 1
  <2>1. m[o].words = Zeros(MaxZero) /\ MaxZero \in Nat
    BY <1>1, WordsAssumption DEF Sound, Object
  <2>2. IsSeq(m[o].words)
    BY <2>1, SeqZeros
  <2> QED  BY <2>2, SeqDomain
<1>2. CASE o # 1
  <2>1. o \in 2..Len(m)
    BY <1>2 DEF Sound, IsSeq
  <2>2. IsSeq(m[o].words)
    BY <2>1 DEF Sound, ObjectFits
  <2> QED  BY <2>2, SeqDomain
<1> QED  BY <1>1, <1>2

(* m2 is m with the words ws at a.                                         *)
Patched(m, a, ws, m2) ==
  /\ Len(m2) = Len(m)
  /\ \A o \in 1..Len(m) :
       /\ DOMAIN m2[o].words = DOMAIN m[o].words
       /\ \A k \in DOMAIN m[o].words :
            m2[o].words[k] = IF o = a.obj /\ k - a.off \in DOMAIN ws THEN ws[k - a.off] ELSE m[o].words[k]

LEMMA StorePatches ==
  ASSUME NEW m, IsSeq(m), NEW a, NEW ws
  PROVE  Patched(m, a, ws, Store(m, a, ws))
<1> DEFINE x   == a.obj
           old == m[x].words
           new == [k \in DOMAIN old |-> IF k - a.off \in DOMAIN ws THEN ws[k - a.off] ELSE old[k]]
           obj == Object(m[x].typ, m[x].hmap, new)
           m2  == [m EXCEPT ![x] = obj]
<1>1. Store(m, a, ws) = m2
  BY DEF Store, Refill
<1>2. obj.words = new /\ DOMAIN new = DOMAIN old
  BY DEF Object
<1>3. DOMAIN m = 1..Len(m) /\ Len(m) \in Nat
  BY SeqDomain
<1> HIDE DEF obj
<1>4. DOMAIN m2 = 1..Len(m) /\ m2 = [k \in 1..Len(m) |-> m2[k]]
  BY <1>3
<1>5. \A o \in 1..Len(m) : m2[o] = IF o = x THEN obj ELSE m[o]
  BY <1>3
<1> HIDE DEF m2
<1>6. Len(m2) = Len(m)
  BY <1>3, <1>4, SeqMade
<1>7. Patched(m, a, ws, m2)
  <2> SUFFICES ASSUME NEW o \in 1..Len(m)
               PROVE  /\ DOMAIN m2[o].words = DOMAIN m[o].words
                      /\ \A k \in DOMAIN m[o].words :
                           m2[o].words[k] = IF o = a.obj /\ k - a.off \in DOMAIN ws THEN ws[k - a.off] ELSE m[o].words[k]
    BY <1>6 DEF Patched
  <2>1. CASE o = x
    <3>1. m2[o].words = new
      BY <1>2, <1>5, <2>1
    <3> QED  BY <1>2, <2>1, <3>1
  <2>2. CASE o # x
    BY <1>5, <2>2
  <2> QED  BY <2>1, <2>2
<1> QED  BY <1>1, <1>7

LEMMA MovedPatches ==
  ASSUME NEW m, IsSeq(m), NEW a, NEW ws
  PROVE  Patched(m, a, ws, Moved(m, a, ws))
<1>1. CASE ws = <<>>
  BY <1>1 DEF Moved, Patched
<1>2. CASE ws # <<>>
  BY <1>2, StorePatches DEF Moved
<1> QED  BY <1>1, <1>2

(* Two stores, one behind the other, are one.                              *)
LEMMA PatchedTwice ==
  ASSUME NEW m, NEW F, Sound(m, F), NEW a \in Addresses, NEW c, NEW d, IsSeq(c), IsSeq(d), NEW m1, NEW m2,
         Patched(m, a, c, m1), Patched(m1, At(a.obj, a.off + Len(c)), d, m2)
  PROVE  Patched(m, a, c \o d, m2)
<1> DEFINE e == c \o d
           b == At(a.obj, a.off + Len(c))
<1>1. /\ IsSeq(e) /\ Len(e) = Len(c) + Len(d)
      /\ \A k \in 1..Len(c) : e[k] = c[k]
      /\ \A k \in 1..Len(d) : e[Len(c) + k] = d[k]
  BY SeqConcat
<1>2. /\ DOMAIN e = 1..Len(e) /\ DOMAIN c = 1..Len(c) /\ DOMAIN d = 1..Len(d)
      /\ Len(c) \in Nat /\ Len(d) \in Nat /\ a.off \in Nat
  BY <1>1, SeqDomain DEF Addresses
<1> HIDE DEF e
<1>3. b.obj = a.obj /\ b.off = a.off + Len(c)
  BY DEF At
<1> HIDE DEF b
<1>4. Len(m2) = Len(m) /\ Len(m1) = Len(m)
  BY DEF Patched, b
<1>5. ASSUME NEW o \in 1..Len(m)
      PROVE  /\ DOMAIN m2[o].words = DOMAIN m[o].words
             /\ \A k \in DOMAIN m[o].words :
                  m2[o].words[k] = IF o = a.obj /\ k - a.off \in DOMAIN e THEN e[k - a.off] ELSE m[o].words[k]
  <2>1. /\ DOMAIN m1[o].words = DOMAIN m[o].words
        /\ \A k \in DOMAIN m[o].words :
             m1[o].words[k] = IF o = a.obj /\ k - a.off \in DOMAIN c THEN c[k - a.off] ELSE m[o].words[k]
    BY DEF Patched
  <2>2. /\ DOMAIN m2[o].words = DOMAIN m1[o].words
        /\ \A k \in DOMAIN m1[o].words :
             m2[o].words[k] = IF o = a.obj /\ k - b.off \in DOMAIN d THEN d[k - b.off] ELSE m1[o].words[k]
    BY <1>3, <1>4 DEF Patched, b
  <2>3. ASSUME NEW k \in DOMAIN m[o].words
        PROVE  m2[o].words[k] = IF o = a.obj /\ k - a.off \in DOMAIN e THEN e[k - a.off] ELSE m[o].words[k]
    <3>1. k \in Nat
      BY SoundWords
    <3>2. CASE o # a.obj
      BY <2>1, <2>2, <3>2
    <3>3. CASE o = a.obj /\ k - a.off \in DOMAIN c
      <4>1. k - b.off \notin DOMAIN d
        BY <1>2, <1>3, <3>1, <3>3
      <4>2. k - a.off \in DOMAIN e /\ e[k - a.off] = c[k - a.off]
        BY <1>1, <1>2, <3>1, <3>3
      <4> QED  BY <2>1, <2>2, <3>3, <4>1, <4>2
    <3>4. CASE o = a.obj /\ k - b.off \in DOMAIN d
      <4> DEFINE j == k - b.off
      <4>1. j \in 1..Len(d) /\ k - a.off = Len(c) + j
        BY <1>2, <1>3, <3>1, <3>4
      <4>2. k - a.off \in DOMAIN e /\ e[k - a.off] = d[j]
        BY <1>1, <1>2, <4>1
      <4> QED  BY <2>1, <2>2, <3>4, <4>2
    <3>5. CASE o = a.obj /\ k - a.off \notin DOMAIN c /\ k - b.off \notin DOMAIN d
      <4>1. k - a.off \notin DOMAIN e
        BY <1>1, <1>2, <1>3, <3>1, <3>5
      <4> QED  BY <2>1, <2>2, <3>5, <4>1
    <3> QED  BY <3>2, <3>3, <3>4, <3>5
  <2> QED  BY <2>1, <2>2, <2>3
<1> QED  BY <1>4, <1>5 DEF Patched, e

(* What v has is the same after new objects were made.                     *)
LEMMA OldElems ==
  ASSUME NEW m, NEW F, Sound(m, F), NEW m2, \A o \in 1..Len(m) : m2[o] = m[o],
         NEW v, ValueFits(m, F, v), v.typ \in Types, Kind(v.typ) = "slice"
  PROVE  Sliced(m2, v) = Sliced(m, v) /\ Elems(m2, v) = Elems(m, v)
<1> DEFINE x == Sliced(m, v)
<1>1. Sliced(m2, v) = x
  BY OldContent
<1>2. /\ rtype[v.typ].elem \in Types /\ x.len \in Nat /\ x.cap \in Nat /\ x.len <= x.cap
      /\ Backs(m, F, x.base, rtype[v.typ].elem, x.cap)
  BY SlicedFits
<1>3. CASE x.len = 0
  BY <1>1, <1>3 DEF Elems
<1>4. CASE x.len # 0
  <2>1. x.base.obj \in 2..Len(m)
    BY <1>2, <1>4 DEF Backs, Window, Holds
  <2>2. m2[x.base.obj] = m[x.base.obj]
    BY <2>1
  <2> HIDE DEF x
  <2>3. Elems(m2, v) = SubSeq(m2[x.base.obj].words, x.base.off + 1, x.base.off + x.len * SizeOfElem(v.typ))
    BY <1>1, <1>4 DEF Elems
  <2>4. Elems(m, v) = SubSeq(m[x.base.obj].words, x.base.off + 1, x.base.off + x.len * SizeOfElem(v.typ))
    BY <1>4 DEF Elems, x
  <2> QED  BY <1>1, <2>2, <2>3, <2>4 DEF x
<1> QED  BY <1>1, <1>3, <1>4

(* The elements are those words.                                           *)
LEMMA ElemsAre ==
  ASSUME NEW m, NEW F, Sound(m, F), NEW v, ValueFits(m, F, v), v.typ \in Types, Kind(v.typ) = "slice"
  PROVE  LET x == Sliced(m, v)  z == x.len * Size(rtype[v.typ].elem) IN
         /\ z \in Nat /\ IsSeq(Elems(m, v)) /\ Len(Elems(m, v)) = z
         /\ z # 0 => /\ x.base \in Addresses /\ x.base.obj \in 2..Len(m)
                     /\ x.base.off + z <= Len(m[x.base.obj].words)
         /\ \A k \in 1..z : Elems(m, v)[k] = m[x.base.obj].words[x.base.off + k]
<1> DEFINE x == Sliced(m, v)
           e == rtype[v.typ].elem
           z == x.len * Size(e)
<1>1. e \in Types /\ x.len \in Nat /\ x.cap \in Nat /\ x.len <= x.cap /\ Backs(m, F, x.base, e, x.cap)
  BY SlicedFits
<1>2. Size(e) \in Nat \ {0} /\ SizeOfElem(v.typ) = Size(e)
  BY <1>1, TypeFacts DEF SizeOfElem, Size
<1>3. z \in Nat /\ (z = 0 <=> x.len = 0)
  BY <1>1, <1>2
<1>4. CASE x.len = 0
  <2>1. Elems(m, v) = <<>>
    BY <1>4 DEF Elems
  <2>2. IsSeq(<<>>) /\ Len(<<>>) = 0
    BY DEF IsSeq
  <2>3. z = 0
    BY <1>3, <1>4
  <2> HIDE DEF z
  <2> QED  BY <2>1, <2>2, <2>3 DEF z
<1>5. CASE x.len # 0
  <2> DEFINE w == m[x.base.obj].words
             d == x.base.off
  <2>1. Holds(m, x.base, e, x.len)
    <3>1. Holds(m, x.base, e, x.cap)
      BY <1>1, <1>5 DEF Backs, Window
    <3> HIDE DEF x, e
    <3> QED  BY <1>1, <3>1, HoldsFewer
  <2>2. x.base \in Addresses /\ x.base.obj \in 2..Len(m) /\ d + z <= Len(w)
    BY <2>1 DEF Holds
  <2>3. Elems(m, v) = SubSeq(w, d + 1, d + z)
    BY <1>2, <1>5 DEF Elems
  <2>4. x.base.obj \in 1..Len(m)
    BY <2>2
  <2> HIDE DEF x
  <2>5. IsSeq(w)
    BY <2>4, SoundWords
  <2>6. d \in Nat
    BY <2>2 DEF Addresses
  <2> HIDE DEF w, d, z
  <2>7. /\ IsSeq(SubSeq(w, d + 1, d + z)) /\ Len(SubSeq(w, d + 1, d + z)) = z
        /\ \A k \in 1..z : SubSeq(w, d + 1, d + z)[k] = w[d + k]
    BY <1>3, <2>2, <2>5, <2>6, SeqSub
  <2>8. \A k \in 1..z : Elems(m, v)[k] = w[d + k]
    BY <2>3, <2>7
  <2>9. IsSeq(Elems(m, v)) /\ Len(Elems(m, v)) = z
    BY <2>3, <2>7
  <2> QED  BY <1>3, <2>2, <2>8, <2>9 DEF x, w, d, z
<1> QED  BY <1>4, <1>5

(* grow leaves the elements where they are, if there is room for n of them, *)
(* or copies them to a new object.                                         *)
GrownTo(m, v, y, n) ==
  LET x == Sliced(m, v)  x2 == Sliced(y.mem, y.v) IN
  /\ \/ n <= x.cap /\ x2 = [base |-> x.base, cap |-> x.cap, len |-> n]
     \/ x2.base.obj = Len(m) + 1
  /\ \A k \in 1..Len(Elems(m, v)) : y.mem[x2.base.obj].words[x2.base.off + k] = Elems(m, v)[k]

LEMMA GrowKeeps ==
  ASSUME NEW m, NEW F, Sound(m, F), NEW v, ValueFits(m, F, v), v.typ \in Types, Kind(v.typ) = "slice",
         NEW extra \in Nat
  PROVE  GrownTo(m, v, grow(m, v, extra), Sliced(m, v).len + extra)
<1> DEFINE x  == Sliced(m, v)
           n  == x.len + extra
           e  == rtype[v.typ].elem
           t  == v.typ
           es == Elems(m, v)
<1>1. e \in Types /\ x.len \in Nat /\ x.cap \in Nat /\ x.len <= x.cap /\ Backs(m, F, x.base, e, x.cap)
  BY SlicedFits
<1>2. n \in Nat /\ Size(e) \in Nat \ {0} /\ Len(m) \in Nat
  BY <1>1, TypeFacts DEF Sound, IsSeq
<1>3. /\ IsSeq(es) /\ Len(es) = x.len * Size(e) /\ Len(es) \in Nat
      /\ Len(es) # 0 => x.base \in Addresses /\ x.base.obj \in 2..Len(m)
      /\ \A k \in 1..Len(es) : es[k] = m[x.base.obj].words[x.base.off + k]
  BY ElemsAre
<1>4. CASE n <= x.cap
  <2> DEFINE y == Reslice(m, t, x.base, 0, n, x.cap, {})
             b == IF x.cap > 0 THEN arrayAt(x.base, 0, t) ELSE x.base
  <2>1. grow(m, v, extra) = y
    <3>1. ro(v.flags) = {}
      BY PlainFlags
    <3> QED  BY <1>4, <3>1 DEF grow
  <2>2. b = x.base
    <3>1. CASE x.cap > 0
      <4>1. x.base \in [obj : Nat, off : Nat]
        BY <1>1, <3>1 DEF Backs, Window, Holds, Addresses
      <4>2. x.base.off + 0 * Size(e) = x.base.off
        BY <1>2, <4>1
      <4>3. arrayAt(x.base, 0, t) = [obj |-> x.base.obj, off |-> x.base.off + 0 * Size(e)]
        BY DEF arrayAt, At, SizeOfElem, Size
      <4> HIDE DEF x, e
      <4> QED  BY <3>1, <4>1, <4>2, <4>3
    <3> QED  BY <3>1
  <2>3. 0 + x.cap <= x.cap
    BY <1>1
  <2> HIDE DEF x, n
  <2>4. NewSlice(m, F, y, t, n) /\ Sliced(y.mem, y.v) = [base |-> b, cap |-> x.cap, len |-> n]
    BY <1>1, <1>2, <1>4, <2>3, ResliceFits
  <2> HIDE DEF y, b
  <2>5. Sliced(y.mem, y.v) = [base |-> x.base, cap |-> x.cap, len |-> n]
    BY <2>2, <2>4
  <2>6. \A k \in 1..Len(es) : y.mem[x.base.obj].words[x.base.off + k] = es[k]
    <3>1. Len(es) # 0 => y.mem[x.base.obj] = m[x.base.obj]
      BY <1>2, <1>3, <2>4 DEF NewSlice
    <3> QED  BY <1>3, <3>1
  <2>7. GrownTo(m, v, y, n)
    BY <1>4, <2>5, <2>6 DEF GrownTo, x
  <2> QED  BY <2>1, <2>7 DEF n, x
<1>5. CASE ~(n <= x.cap)
  <2> DEFINE d  == Doubled(x.cap, n)
             y  == Making(m, t, n, d)
             x1 == Sliced(y.mem, y.v)
             p  == Prefix(Elems(y.mem, v), Len(Elems(y.mem, y.v)))
             m2 == CopyTo(y.mem, y.v, v)
             z  == [y EXCEPT !.mem = m2]
  <2>1. grow(m, v, extra) = z
    BY <1>5 DEF grow
  <2>2. d \in Nat /\ n <= d
    BY <1>1, <1>2, DoubledFits
  <2> HIDE DEF d, n, x
  <2>3. NewSlice(m, F, y, t, n) /\ Sliced(y.mem, y.v).base.obj = Len(m) + 1
    BY <1>2, <2>2, MakingFits
  <2>4. x1.base.obj = Len(m) + 1
    BY <2>3
  <2> HIDE DEF y
  <2>5. /\ y = [mem |-> y.mem, v |-> y.v] /\ y.v.typ = t /\ y.v.flags = {"Indir"}
        /\ x1.len = n /\ \A o \in 1..Len(m) : y.mem[o] = m[o]
    BY <2>3 DEF NewSlice
  <2>6. PICK F2 : Sound(y.mem, F2) /\ Keeps(m, F, y.mem, F2) /\ ValueFits(y.mem, F2, y.v)
    BY <2>3 DEF NewSlice
  <2>7. Elems(y.mem, v) = es
    BY <2>5, OldElems
  <2> DEFINE c == n * Size(e)
             ys == Elems(y.mem, y.v)
  <2>8. /\ c \in Nat /\ IsSeq(ys) /\ Len(ys) = c
        /\ c # 0 => x1.base \in Addresses /\ x1.base.obj \in 2..Len(y.mem) /\ x1.base.off + c <= Len(y.mem[x1.base.obj].words)
    BY <2>5, <2>6, ElemsAre
  <2>9. Len(es) <= c
    <3>1. x.len <= n
      BY <1>1, <1>2 DEF n
    <3> DEFINE q == Size(e)
    <3>2. x.len \in Nat /\ n \in Nat /\ q \in Nat
      BY <1>1, <1>2
    <3> HIDE DEF q
    <3>3. x.len * q <= n * q
      BY <3>1, <3>2
    <3> QED  BY <1>3, <3>3 DEF q
  <2>10. p = es
    <3>1. p = SubSeq(es, 1, IF c < Len(es) THEN c ELSE Len(es))
      BY <2>7, <2>8 DEF Prefix
    <3>2. (IF c < Len(es) THEN c ELSE Len(es)) = 0 + Len(es)
      BY <1>3, <2>8, <2>9
    <3> DEFINE l == Len(es)
               o == 0
    <3>3. p = SubSeq(es, o + 1, o + l)
      BY <3>1, <3>2
    <3>4. o + l = l /\ o \in Nat /\ l \in Nat /\ \A k \in 1..l : o + k = k
      BY <1>3
    <3> HIDE DEF o
    <3>5. IsSeq(es) /\ o + l <= Len(es) /\ l = Len(es)
      BY <1>3, <3>4
    <3> HIDE DEF l, p, es
    <3>6. IsSeq(p) /\ Len(p) = l /\ \A k \in 1..l : p[k] = es[o + k]
      <4>1. o \in Nat /\ l \in Nat
        BY <3>4
      <4>2. /\ IsSeq(SubSeq(es, o + 1, o + l)) /\ Len(SubSeq(es, o + 1, o + l)) = l
            /\ \A k \in 1..l : SubSeq(es, o + 1, o + l)[k] = es[o + k]
        BY <3>5, <4>1, SeqSub
      <4> QED  BY <3>3, <4>2
    <3>7. IsSeq(p) /\ Len(p) = Len(es) /\ \A k \in 1..Len(p) : p[k] = es[k]
      BY <3>4, <3>5, <3>6
    <3> QED  BY <3>5, <3>7, SeqSame
  <2>11. m2 = Moved(y.mem, x1.base, es)
    <3>1. m2 = Moved(y.mem, x1.base, p)
      BY DEF CopyTo
    <3> QED  BY <2>10, <3>1
  <2>12. IsSeq(y.mem)
    BY <2>6 DEF Sound
  <2>13. Patched(y.mem, x1.base, es, m2)
    BY <2>11, <2>12, MovedPatches
  <2>14. Sliced(m2, y.v) = x1
    <3>1. ValueFits(y.mem, F2, v)
      BY <2>6, KeepsValue
    <3>2. Sound(m2, F2) /\ Keeps(y.mem, F2, m2, F2)
      BY <2>5, <2>6, <3>1, CopyFits
    <3>3. ~Addressable(y.v)
      BY <2>5 DEF Addressable
    <3> QED  BY <2>5, <2>6, <3>2, <3>3, SameContent
  <2> HIDE DEF x1, p, m2, c, ys, es
  <2>15. z = [mem |-> m2, v |-> y.v]
    BY <2>5
  <2>16. \A k \in 1..Len(es) : m2[x1.base.obj].words[x1.base.off + k] = es[k]
    <3> SUFFICES ASSUME NEW k \in 1..Len(es)  PROVE m2[x1.base.obj].words[x1.base.off + k] = es[k]
      OBVIOUS
    <3> DEFINE o == x1.base.obj
               j == x1.base.off + k
               w == y.mem[o].words
    <3>1. c # 0
      BY <1>3, <2>8, <2>9
    <3>2. x1.base.off \in Nat /\ o \in 1..Len(y.mem) /\ x1.base.off + c <= Len(w)
      BY <2>8, <3>1 DEF Addresses
    <3>3. DOMAIN w = 1..Len(w) /\ Len(w) \in Nat
      BY <2>6, <3>2, SoundWords
    <3>8. Len(es) \in Nat /\ c \in Nat /\ x1.base.off \in Nat /\ Len(es) <= c /\ j = x1.base.off + k
      BY <1>3, <2>8, <2>9, <3>2
    <3>4. j \in DOMAIN w /\ j - x1.base.off = k
      <4> HIDE DEF j, w
      <4> QED  BY <3>2, <3>3, <3>8
    <3>5. DOMAIN es = 1..Len(es)
      BY <1>3, SeqDomain
    <3>6. m2[o].words[j] = IF o = x1.base.obj /\ j - x1.base.off \in DOMAIN es THEN es[j - x1.base.off] ELSE w[j]
      <4> HIDE DEF j
      <4> QED  BY <2>13, <3>2, <3>4 DEF Patched
    <3> HIDE DEF j
    <3>7. m2[o].words[j] = es[k]
      BY <3>4, <3>5, <3>6
    <3> QED  BY <3>7 DEF j
  <2>17. GrownTo(m, v, z, n)
    BY <2>4, <2>14, <2>15, <2>16 DEF GrownTo, es
  <2> QED  BY <2>1, <2>17 DEF n, x
<1> QED  BY <1>4, <1>5

(* The words ws after the elements of the slice are in spare capacity, or  *)
(* in new objects.                                                         *)
LEMMA WritesSpare ==
  ASSUME NEW F, Sound(mem, F), NEW v, ValueFits(mem, F, v), v.typ \in Types, Kind(v.typ) = "slice",
         NEW n \in Nat, NEW l \in Nat, l <= n,
         NEW ws, IsSeq(ws), Len(ws) = l * Size(rtype[v.typ].elem),
         NEW y, NewSlice(mem, F, y, v.typ, Sliced(mem, v).len + n), GrownTo(mem, v, y, Sliced(mem, v).len + n),
         NEW m2, Patched(y.mem, ElemAddr(y.mem, y.v, Sliced(mem, v).len), ws, m2)
  PROVE  /\ Len(mem) <= Len(m2)
         /\ \A o \in 1..Len(mem) : \A k \in DOMAIN mem[o].words :
              k \in DOMAIN m2[o].words /\ (m2[o].words[k] = mem[o].words[k] \/ InSpare(v, o, k))
<1> DEFINE x  == Sliced(mem, v)
           x2 == Sliced(y.mem, y.v)
           e  == rtype[v.typ].elem
           q  == Size(e)
           i0 == x.len
           p  == i0 * q
           w  == l * q
           c  == (i0 + l) * q
           a  == ElemAddr(y.mem, y.v, i0)
<1>1. e \in Types /\ i0 \in Nat /\ x.cap \in Nat /\ i0 <= x.cap /\ Backs(mem, F, x.base, e, x.cap)
  BY SlicedFits
<1>2. q \in Nat \ {0} /\ Len(mem) \in Nat /\ SizeOfElem(v.typ) = q
  BY <1>1, TypeFacts DEF Sound, IsSeq, SizeOfElem, Size
<1>3. p \in Nat /\ w \in Nat /\ c = p + w
  BY <1>1, <1>2
<1>4. /\ y.v.typ = v.typ /\ \A o \in 1..Len(mem) : y.mem[o] = mem[o]
      /\ Len(y.mem) \in Nat /\ Len(mem) <= Len(y.mem)
  BY DEF NewSlice, Keeps
<1>5. DOMAIN ws = 1..w
  BY SeqDomain DEF w
<1>6. a.obj = x2.base.obj /\ a.off = x2.base.off + p
  BY <1>2, <1>4 DEF ElemAddr, arrayAt, At
<1>7. Len(m2) = Len(y.mem)
  BY DEF Patched
<1>8. ASSUME NEW o \in 1..Len(y.mem)
      PROVE  /\ DOMAIN m2[o].words = DOMAIN y.mem[o].words
             /\ \A k \in DOMAIN y.mem[o].words :
                  m2[o].words[k] = IF o = a.obj /\ k - a.off \in DOMAIN ws THEN ws[k - a.off] ELSE y.mem[o].words[k]
  BY DEF Patched, a
<1>9. \/ i0 + n <= x.cap /\ x2 = [base |-> x.base, cap |-> x.cap, len |-> i0 + n]
      \/ x2.base.obj = Len(mem) + 1
  BY DEF GrownTo
<1> HIDE DEF x, x2, e, q, i0, p, w, c, a
<1>10. ASSUME NEW o \in 1..Len(mem), NEW k \in DOMAIN mem[o].words
       PROVE  k \in DOMAIN m2[o].words /\ (m2[o].words[k] = mem[o].words[k] \/ InSpare(v, o, k))
  <2>1. o \in 1..Len(y.mem) /\ y.mem[o] = mem[o]
    BY <1>2, <1>4
  <2>2. k \in DOMAIN m2[o].words
    BY <1>8, <2>1
  <2>3. CASE ~(o = a.obj /\ k - a.off \in DOMAIN ws)
    <3>1. m2[o].words[k] = y.mem[o].words[k]
      BY <1>8, <2>1, <2>3
    <3> QED  BY <2>1, <2>2, <3>1
  <2>4. CASE o = a.obj /\ k - a.off \in DOMAIN ws
    <3>1. x2.base.obj # Len(mem) + 1
      BY <1>2, <1>6, <2>4
    <3>2. i0 + n <= x.cap /\ x2 = [base |-> x.base, cap |-> x.cap, len |-> i0 + n]
      BY <1>9, <3>1
    <3>3. x2.base = x.base
      BY <3>2
    <3>4. l # 0
      <4>1. l = 0 => w = 0
        BY <1>2 DEF w
      <4> QED  BY <1>5, <2>4, <4>1
    <3>5. x.cap > i0 /\ i0 + l <= x.cap
      BY <1>1, <3>2, <3>4
    <3>6. x.base.off \in Nat
      BY <1>1, <3>5 DEF Backs, Window, Holds, Addresses
    <3>7. k \in Nat
      BY SoundWords
    <3> DEFINE r == x.cap * q
    <3>8. r \in Nat /\ c <= r
      <4>1. i0 + l \in Nat /\ x.cap \in Nat /\ q \in Nat
        BY <1>1, <1>2
      <4>2. (i0 + l) * q <= x.cap * q
        <5> DEFINE z == i0 + l
                   u == x.cap
        <5>1. z \in Nat /\ u \in Nat /\ q \in Nat /\ z <= u
          BY <3>5, <4>1
        <5> HIDE DEF z, u
        <5>2. z * q <= u * q
          BY <5>1
        <5> QED  BY <5>2 DEF z, u
      <4> QED  BY <1>1, <1>2, <4>2 DEF c
    <3> HIDE DEF r
    <3>9. k - x.base.off \in (p + 1)..r
      <4>1. k - x.base.off = (k - a.off) + p
        BY <1>3, <1>6, <3>3, <3>6, <3>7
      <4>2. k - a.off \in 1..w
        BY <1>5, <2>4
      <4> QED  BY <1>3, <3>8, <4>1, <4>2
    <3>10. o = x.base.obj
      BY <1>6, <2>4, <3>3
    <3>11. InSpare(v, o, k)
      BY <1>2, <3>5, <3>9, <3>10 DEF InSpare, x, i0, p, r
    <3> QED  BY <2>2, <3>11
  <2> QED  BY <2>3, <2>4
<1> QED  BY <1>4, <1>7, <1>10

(* The words ws after the elements of the slice.                           *)
LEMMA AppendedIs ==
  ASSUME NEW F, Sound(mem, F), NEW v, ValueFits(mem, F, v), v.typ \in Types, Kind(v.typ) = "slice",
         NEW n \in Nat, NEW ws, IsSeq(ws), Len(ws) = n * Size(rtype[v.typ].elem),
         NEW y, NewSlice(mem, F, y, v.typ, Sliced(mem, v).len + n), GrownTo(mem, v, y, Sliced(mem, v).len + n),
         NEW F2, Sound(y.mem, F2), ValueFits(y.mem, F2, y.v), Keeps(mem, F, y.mem, F2),
         NEW F3, Sound(mem', F3), Keeps(y.mem, F2, mem', F3),
         Patched(y.mem, ElemAddr(y.mem, y.v, Sliced(mem, v).len), ws, mem')
  PROVE  Appended(v, ws, y.v)
<1> DEFINE x  == Sliced(mem, v)
           x2 == Sliced(y.mem, y.v)
           e  == rtype[v.typ].elem
           q  == Size(e)
           i0 == x.len
           p  == i0 * q
           w  == n * q
           c  == (i0 + n) * q
           a  == ElemAddr(y.mem, y.v, i0)
           es == Elems(mem, v)
           u  == Elems(mem', y.v)
<1>1. e \in Types /\ i0 \in Nat /\ x.cap \in Nat /\ i0 <= x.cap /\ Backs(mem, F, x.base, e, x.cap)
  BY SlicedFits
<1>2. q \in Nat \ {0} /\ Len(mem) \in Nat /\ SizeOfElem(v.typ) = q
  BY <1>1, TypeFacts DEF Sound, IsSeq, SizeOfElem, Size
<1>3. p \in Nat /\ w \in Nat /\ c = p + w
  BY <1>1, <1>2
<1>4. /\ y.v.typ = v.typ /\ y.v.flags = {"Indir"} /\ x2.len = i0 + n
      /\ \A o \in 1..Len(mem) : y.mem[o] = mem[o]
  BY DEF NewSlice
<1>5. Sliced(mem', y.v) = x2
  <2>1. ~Addressable(y.v)
    BY <1>4 DEF Addressable
  <2> QED  BY <1>4, <2>1, SameContent
<1>6. IsSeq(es) /\ Len(es) = p
  BY ElemsAre
<1>7. /\ IsSeq(u) /\ Len(u) = c
      /\ c # 0 => /\ x2.base \in Addresses /\ x2.base.obj \in 2..Len(mem')
                  /\ x2.base.off + c <= Len(mem'[x2.base.obj].words)
      /\ \A k \in 1..c : u[k] = mem'[x2.base.obj].words[x2.base.off + k]
  <2>1. ValueFits(mem', F3, y.v)
    BY KeepsValue
  <2> QED  BY <1>4, <1>5, <2>1, ElemsAre
<1>8. /\ IsSeq(es \o ws) /\ Len(es \o ws) = p + w
      /\ \A k \in 1..p : (es \o ws)[k] = es[k]
      /\ \A k \in 1..w : (es \o ws)[p + k] = ws[k]
  <2> HIDE DEF es, p, w
  <2>1. Len(ws) = w
    BY DEF w
  <2> QED  BY <1>6, <2>1, SeqConcat
<1>9. DOMAIN ws = 1..w
  BY SeqDomain DEF w
<1>10. a.obj = x2.base.obj /\ a.off = x2.base.off + p
  BY <1>2, <1>4 DEF ElemAddr, arrayAt, At
<1>11. Len(mem') = Len(y.mem)
  BY DEF Patched
<1>12. ASSUME NEW o \in 1..Len(y.mem), NEW k \in DOMAIN y.mem[o].words
       PROVE  mem'[o].words[k] = IF o = a.obj /\ k - a.off \in DOMAIN ws THEN ws[k - a.off] ELSE y.mem[o].words[k]
  BY DEF Patched, a
<1>13. \A k \in 1..p : y.mem[x2.base.obj].words[x2.base.off + k] = es[k]
  BY <1>6 DEF GrownTo
<1>14. ASSUME c # 0
       PROVE  /\ x2.base.obj \in 1..Len(y.mem) /\ x2.base.off \in Nat
              /\ \A k \in 1..c : x2.base.off + k \in DOMAIN y.mem[x2.base.obj].words
  <2> DEFINE o == x2.base.obj
             d == x2.base.off
             l == Len(mem'[o].words)
  <2>1. o \in 1..Len(mem') /\ d \in Nat /\ d + c <= l
    BY <1>7, <1>14 DEF Addresses
  <2>2. DOMAIN mem'[o].words = 1..l /\ l \in Nat
    BY <2>1, SoundWords
  <2>3. DOMAIN mem'[o].words = DOMAIN y.mem[o].words
    BY <1>11, <2>1 DEF Patched
  <2> HIDE DEF o, d, l, c
  <2>4. c \in Nat
    BY <1>3 DEF c
  <2>5. \A k \in 1..c : d + k \in 1..l
    BY <2>1, <2>2, <2>4
  <2> QED  BY <1>11, <2>1, <2>2, <2>3, <2>5 DEF o, d
<1> HIDE DEF x, x2, e, q, i0, p, w, c, a, es, u
<1>15. u = es \o ws
  <2>1. ASSUME NEW k \in 1..c  PROVE u[k] = (es \o ws)[k]
    <3> DEFINE j == x2.base.off + k
    <3>1. /\ x2.base.obj \in 1..Len(y.mem) /\ x2.base.off \in Nat
          /\ j \in DOMAIN y.mem[x2.base.obj].words
      BY <1>3, <1>14
    <3>2. j - a.off = k - p
      BY <1>3, <1>10, <3>1
    <3>3. u[k] = IF k - p \in DOMAIN ws THEN ws[k - p] ELSE y.mem[x2.base.obj].words[j]
      <4>1. u[k] = mem'[x2.base.obj].words[j]
        BY <1>7
      <4> HIDE DEF j
      <4> QED  BY <1>10, <1>12, <3>1, <3>2, <4>1
    <3>4. CASE k \in 1..p
      <4>1. k - p \notin DOMAIN ws
        BY <1>3, <1>9, <3>4
      <4> QED  BY <1>8, <1>13, <3>3, <3>4, <4>1
    <3>5. CASE k \notin 1..p
      <4> DEFINE i == k - p
      <4>1. i \in 1..w /\ k = p + i
        BY <1>3, <3>5
      <4> HIDE DEF i
      <4>2. u[k] = ws[i]
        BY <1>9, <3>3, <4>1 DEF i
      <4> QED  BY <1>8, <4>1, <4>2
    <3> QED  BY <3>4, <3>5
  <2>2. Len(es \o ws) = c
    BY <1>3, <1>8
  <2> QED  BY <1>7, <1>8, <2>1, <2>2, SeqSame
<1>16. \A o \in DOMAIN mem : \A k \in DOMAIN mem[o].words : mem'[o].words[k] = mem[o].words[k] \/ InSpare(v, o, k)
  <2>1. DOMAIN mem = 1..Len(mem)
    BY SeqDomain DEF Sound
  <2>2. n <= n
    OBVIOUS
  <2>3. Patched(y.mem, ElemAddr(y.mem, y.v, Sliced(mem, v).len), ws, mem')
    OBVIOUS
  <2>4. Len(ws) = n * Size(rtype[v.typ].elem)
    OBVIOUS
  <2> QED  BY <2>1, <2>2, <2>3, <2>4, WritesSpare
<1> QED  BY <1>15, <1>16 DEF Appended, u, es

LEMMA FlattenOne ==
  ASSUME NEW s, IsSeq(s), Len(s) = 1
  PROVE  FlattenSeq(s) = s[1]
<1> DEFINE H(g) == [i \in 1..1 |-> IF i = 1 THEN s[i] ELSE g[i - 1] \o s[i]]
           f == [i \in 1..1 |-> s[1]]
           flatten == CHOOSE g : g = H(g)
<1>1. f = H(f)
  OBVIOUS
<1>2. flatten = H(flatten)
  <2> HIDE DEF f, H
  <2> QED  BY <1>1, Zenon
<1>3. FlattenSeq(s) = flatten[1]
  BY DEF FlattenSeq
<1> HIDE DEF flatten
<1>4. flatten[1] = s[1]
  BY <1>2
<1> QED  BY <1>3, <1>4

LEMMA FlattenTwo ==
  ASSUME NEW s, IsSeq(s), Len(s) = 2
  PROVE  FlattenSeq(s) = s[1] \o s[2]
<1> DEFINE c == s[1] \o s[2]
           H(g) == [i \in 1..2 |-> IF i = 1 THEN s[i] ELSE g[i - 1] \o s[i]]
           f == [i \in 1..2 |-> IF i = 1 THEN s[1] ELSE c]
           flatten == CHOOSE g : g = H(g)
<1>1. f = H(f)
  <2>1. ASSUME NEW i \in 1..2  PROVE f[i] = IF i = 1 THEN s[i] ELSE f[i - 1] \o s[i]
    <3>1. CASE i = 1
      BY <3>1
    <3>2. CASE i = 2
      <4>1. f[i] = c /\ f[i - 1] = s[1]
        BY <3>2
      <4> HIDE DEF f
      <4> QED  BY <3>2, <4>1
    <3> QED  BY <3>1, <3>2
  <2> QED  BY <2>1
<1>2. flatten = H(flatten)
  <2> HIDE DEF f, H
  <2> QED  BY <1>1, Zenon
<1>3. FlattenSeq(s) = flatten[2]
  BY DEF FlattenSeq
<1> HIDE DEF flatten
<1>4. \A i \in 1..2 : flatten[i] = IF i = 1 THEN s[i] ELSE flatten[i - 1] \o s[i]
  BY <1>2
<1>5. flatten[1] = s[1]
  BY <1>4
<1>6. flatten[2] = flatten[1] \o s[2]
  <2>1. 2 \in 1..2 /\ 2 # 1 /\ 2 - 1 = 1
    OBVIOUS
  <2>2. flatten[2] = flatten[2 - 1] \o s[2]
    BY <1>4, <2>1
  <2> QED  BY <2>1, <2>2
<1> QED  BY <1>3, <1>5, <1>6

(* AppendSlice: the elements are as they were before grow.                 *)
LEMMA AppendsSlice ==
  ASSUME NEW F, Fit(F), NEW r \in Registers, NEW s \in Registers, NEW t \in Registers, AppendSlice(r, s, t)
  PROVE  Appended(val[s], Elems(mem, val[t]), val'[r])
<1> DEFINE v  == val[s]
           u  == val[t]
           e  == rtype[v.typ].elem
           i0 == Sliced(mem, v).len
           n  == Sliced(mem, u).len
           y  == grow(mem, v, n)
           a  == ElemAddr(y.mem, y.v, i0)
           ws == Elems(mem, u)
<1>1. /\ v.typ \in Types /\ Kind(v.typ) = "slice" /\ u.typ \in Types /\ Kind(u.typ) = "slice"
      /\ e = rtype[u.typ].elem
      /\ mem' = Moved(y.mem, a, Elems(y.mem, u)) /\ Put(r, y.v)
  BY DEF AppendSlice, Is
<1>2. ValueFits(mem, F, v) /\ ValueFits(mem, F, u) /\ Sound(mem, F)
  BY FitFacts
<1>3. i0 \in Nat /\ n \in Nat
  BY <1>1, <1>2, SlicedFits
<1>4. IsSeq(ws) /\ Len(ws) = n * Size(e)
  BY <1>1, <1>2, ElemsAre
<1> HIDE DEF n
<1>5. NewSlice(mem, F, y, v.typ, i0 + n) /\ GrownTo(mem, v, y, i0 + n)
  BY <1>1, <1>2, <1>3, GrowFits, GrowKeeps
<1> HIDE DEF y
<1>6. PICK F2 : Sound(y.mem, F2) /\ Keeps(mem, F, y.mem, F2) /\ ValueFits(y.mem, F2, y.v)
  BY <1>5 DEF NewSlice
<1>7. Elems(y.mem, u) = ws
  BY <1>1, <1>2, <1>5, OldElems DEF NewSlice
<1>8. Patched(y.mem, a, ws, mem')
  BY <1>1, <1>6, <1>7, MovedPatches DEF Sound
<1>9. Sound(mem', F2) /\ Keeps(y.mem, F2, mem', F2)
  <2>1. y.v.typ = v.typ /\ Sliced(y.mem, y.v).len = i0 + n
    BY <1>5 DEF NewSlice
  <2>2. Many(mem, F, ws, e, n)
    <3>1. Kind(u.typ) \in {"slice", "string", "array"} /\ Kind(u.typ) # "array"
      BY <1>1
    <3> HIDE DEF u
    <3>2. Many(mem, F, Elems(mem, u), rtype[u.typ].elem, n)
      BY <1>1, <1>2, <3>1, ElemsFit DEF n
    <3> QED  BY <1>1, <3>2
  <2>3. Many(y.mem, F2, ws, e, n)
    BY <1>6, <2>2, KeepsMany
  <2>4. i0 + n <= Sliced(y.mem, y.v).len
    BY <1>3, <2>1
  <2> HIDE DEF ws, e, v, a
  <2>5. Sound(Moved(y.mem, a, ws), F2) /\ Keeps(y.mem, F2, Moved(y.mem, a, ws), F2)
    BY <1>1, <1>3, <1>6, <2>1, <2>3, <2>4, TailFits DEF e, a
  <2> QED  BY <1>1, <1>7, <2>5
<1> HIDE DEF ws, v, e
<1>10. Appended(v, ws, y.v)
  BY <1>1, <1>2, <1>3, <1>4, <1>5, <1>6, <1>8, <1>9, AppendedIs DEF e
<1>11. val'[r] = y.v
  BY <1>1 DEF Put, Fit, AllFits
<1> QED  BY <1>10, <1>11 DEF v, ws

(* The words of a Value that are not written to.                           *)
LEMMA SpareContent ==
  ASSUME NEW F, Sound(mem, F), NEW v, ValueFits(mem, F, v), v.typ \in Types, Kind(v.typ) = "slice",
         NEW u, ValueFits(mem, F, u), u.typ \in Types, Addressable(u), ~Overwritten(v, u),
         NEW m2, NEW F2, Sound(m2, F2),
         \A o \in 1..Len(mem) : \A k \in DOMAIN mem[o].words :
           k \in DOMAIN m2[o].words /\ (m2[o].words[k] = mem[o].words[k] \/ InSpare(v, o, k)),
         Len(mem) <= Len(m2)
  PROVE  Content(m2, u) = Content(mem, u)
<1> DEFINE o  == u.ptr.obj
           d  == u.ptr.off
           n  == Size(u.typ)
           w  == mem[o].words
           w2 == m2[o].words
<1>1. Holds(mem, u.ptr, u.typ, 1) /\ "Indir" \in u.flags
  BY VariableIs
<1>2. n \in Nat \ {0} /\ 1 * n = n
  BY TypeFacts
<1>3. o \in 1..Len(mem) /\ d \in Nat /\ d + n <= Len(w)
  BY <1>1, <1>2 DEF Holds, Addresses
<1>4. Len(mem) \in Nat /\ Len(m2) \in Nat
  BY DEF Sound, IsSeq
<1>5. IsSeq(w) /\ DOMAIN w = 1..Len(w) /\ Len(w) \in Nat
  BY <1>3, SoundWords
<1>6. o \in 1..Len(m2)
  BY <1>3, <1>4
<1>7. IsSeq(w2) /\ DOMAIN w2 = 1..Len(w2) /\ Len(w2) \in Nat
  BY <1>6, SoundWords
<1>8. Content(mem, u) = SubSeq(w, d + 1, d + n) /\ Content(m2, u) = SubSeq(w2, d + 1, d + n)
  BY <1>1 DEF Content, Load, Size
<1>9. ASSUME NEW k \in 1..n  PROVE d + k \in DOMAIN w /\ d + k \in DOMAIN w2 /\ w2[d + k] = w[d + k]
  <2>1. d + k \in DOMAIN w
    <3> HIDE DEF d, n, w
    <3> QED  BY <1>2, <1>3, <1>5
  <2>2. ~InSpare(v, o, d + k)
    BY DEF Overwritten, Size
  <2> QED  BY <1>3, <2>1, <2>2
<1> HIDE DEF o, d, n, w, w2
<1>10. d + n <= Len(w2)
  <2>1. d + n \in DOMAIN w2
    BY <1>2, <1>9
  <2> QED  BY <1>7, <2>1
<1>11. /\ IsSeq(SubSeq(w, d + 1, d + n)) /\ Len(SubSeq(w, d + 1, d + n)) = n
       /\ \A k \in 1..n : SubSeq(w, d + 1, d + n)[k] = w[d + k]
  BY <1>2, <1>3, <1>5, SeqSub
<1>12. /\ IsSeq(SubSeq(w2, d + 1, d + n)) /\ Len(SubSeq(w2, d + 1, d + n)) = n
       /\ \A k \in 1..n : SubSeq(w2, d + 1, d + n)[k] = w2[d + k]
  BY <1>2, <1>3, <1>7, <1>10, SeqSub
<1>13. SubSeq(w2, d + 1, d + n) = SubSeq(w, d + 1, d + n)
  <2> DEFINE s == SubSeq(w, d + 1, d + n)
             t == SubSeq(w2, d + 1, d + n)
  <2>1. IsSeq(s) /\ IsSeq(t) /\ Len(s) = n /\ Len(t) = n /\ \A k \in 1..n : t[k] = s[k]
    BY <1>9, <1>11, <1>12
  <2> HIDE DEF s, t
  <2>2. t = s
    BY <2>1, SeqSame
  <2> QED  BY <2>2 DEF s, t
<1> QED  BY <1>8, <1>13

(* Append: the first value is read before anything is written, the second   *)
(* is not in what the first one was written to.                            *)
LEMMA AppendsValues ==
  ASSUME NEW F, Fit(F), NEW r \in Registers, NEW s \in Registers, NEW xs \in Arguments, AppendValues(r, s, xs),
         \A k \in 2..Len(xs) : ~Overwritten(val[s], val[xs[k]])
  PROVE  Appended(val[s], FlattenSeq([k \in DOMAIN xs |-> Content(mem, val[xs[k]])]), val'[r])
<1> DEFINE v  == val[s]
           e  == rtype[v.typ].elem
           q  == Size(e)
           i0 == Sliced(mem, v).len
           n  == Len(xs)
           y  == grow(mem, v, n)
           a  == ElemAddr(y.mem, y.v, i0)
           m1 == SetOne(y.mem, y.v, i0, xs, 1)
           u1 == val[xs[1]]
           c1 == Content(mem, u1)
           cs == [k \in DOMAIN xs |-> Content(mem, val[xs[k]])]
<1>1. /\ v.typ \in Types /\ Kind(v.typ) = "slice"
      /\ \A k \in DOMAIN xs : val[xs[k]].typ = e
      /\ mem' = SetFrom(y.mem, y.v, i0, xs) /\ Put(r, y.v)
  BY DEF AppendValues, Is
<1>2. ValueFits(mem, F, v) /\ Sound(mem, F) /\ \A x \in Registers : ValueFits(mem, F, val[x])
  BY FitFacts
<1>3. i0 \in Nat /\ e \in Types
  BY <1>1, <1>2, SlicedFits
<1>4. n \in {1, 2} /\ n \in Nat /\ DOMAIN xs = 1..n /\ \A k \in DOMAIN xs : xs[k] \in Registers
  <2>1. Len(xs) \in {1, 2} /\ DOMAIN xs = 1..Len(xs) /\ \A k \in DOMAIN xs : xs[k] \in Registers
    BY SetFromIs
  <2> HIDE DEF n
  <2>2. n = Len(xs)
    BY DEF n
  <2> QED  BY <2>1, <2>2
<1>5. q \in Nat \ {0}
  BY <1>3, TypeFacts
<1>6. ASSUME NEW k \in DOMAIN xs
      PROVE  /\ val[xs[k]].typ = e /\ ValueFits(mem, F, val[xs[k]])
             /\ IsSeq(Content(mem, val[xs[k]])) /\ Len(Content(mem, val[xs[k]])) = q
  <2> DEFINE x == val[xs[k]]
  <2>1. x.typ = e /\ ValueFits(mem, F, x)
    BY <1>1, <1>2, <1>4
  <2> HIDE DEF x
  <2>2. Many(mem, F, Content(mem, x), e, 1)
    BY <1>2, <1>3, <2>1, ContentFits
  <2>3. 1 * q = q
    BY <1>5
  <2> QED  BY <2>1, <2>2, <2>3 DEF Many, x
<1>7. 1 \in DOMAIN xs
  BY <1>4
<1> HIDE DEF n, q
<1>8. NewSlice(mem, F, y, v.typ, i0 + n) /\ GrownTo(mem, v, y, i0 + n)
  BY <1>1, <1>2, <1>4, GrowFits, GrowKeeps
<1> HIDE DEF y
<1>9. PICK F2 : Sound(y.mem, F2) /\ Keeps(mem, F, y.mem, F2) /\ ValueFits(y.mem, F2, y.v)
  BY <1>8 DEF NewSlice
<1>10. /\ y.v.typ = v.typ /\ y.v.flags = {"Indir"} /\ Sliced(y.mem, y.v).len = i0 + n
       /\ \A o \in 1..Len(mem) : y.mem[o] = mem[o]
  BY <1>8 DEF NewSlice
<1>11. \A x \in Registers : ValueFits(y.mem, F2, val[x])
  BY <1>2, <1>9, KeepsValue
<1>12. y.v.typ \in Types /\ Kind(y.v.typ) = "slice" /\ ~Addressable(y.v) /\ rtype[y.v.typ].elem = e
  BY <1>1, <1>10 DEF Addressable
<1>13. Sound(mem', F2) /\ Keeps(y.mem, F2, mem', F2)
  <2>1. i0 + Len(xs) <= Sliced(y.mem, y.v).len
    BY <1>3, <1>4, <1>10 DEF n
  <2>2. \A k \in DOMAIN xs : val[xs[k]].typ = rtype[y.v.typ].elem
    BY <1>6, <1>12
  <2> HIDE DEF i0
  <2> QED  BY <1>1, <1>3, <1>9, <1>11, <1>12, <2>1, <2>2, SetFromFits
<1>14. /\ n = 1 => mem' = m1
       /\ n = 2 => mem' = SetOne(m1, y.v, i0, xs, 2)
  BY <1>1, SetFromIs DEF n
<1>15. u1.typ = e /\ ValueFits(mem, F, u1) /\ ValueFits(y.mem, F2, u1) /\ IsSeq(c1) /\ Len(c1) = q
  BY <1>4, <1>6, <1>7, <1>11
<1>16. Content(y.mem, u1) = c1
  BY <1>2, <1>3, <1>10, <1>15, OldContent
<1>17. m1 = Store(y.mem, a, c1)
  <2>1. i0 + 1 - 1 = i0
    BY <1>3
  <2> QED  BY <1>16, <2>1 DEF SetOne
<1>18. Patched(y.mem, a, c1, m1)
  BY <1>9, <1>17, StorePatches DEF Sound
<1>19. Sound(m1, F2) /\ Keeps(y.mem, F2, m1, F2) /\ Sliced(m1, y.v) = Sliced(y.mem, y.v)
  <2>1. i0 < Sliced(y.mem, y.v).len
    BY <1>3, <1>4, <1>10
  <2> HIDE DEF i0, u1, c1, e, m1
  <2> QED  BY <1>3, <1>9, <1>12, <1>15, <1>16, <1>17, <2>1, SetOneFits DEF a
<1>20. IsSeq(cs) /\ Len(cs) = n
  <2>1. DOMAIN cs = 1..n
    BY <1>4
  <2>2. cs = [k \in 1..n |-> cs[k]]
    BY <1>4
  <2> HIDE DEF cs
  <2> QED  BY <1>4, <2>1, <2>2, SeqMade
<1>21. val'[r] = y.v
  BY <1>1 DEF Put, Fit, AllFits
<1>22. cs[1] = c1
  BY <1>7
<1>23. ASSUME NEW ws, IsSeq(ws), Len(ws) = n * q, Patched(y.mem, a, ws, mem')
       PROVE  Appended(v, ws, y.v)
  <2> HIDE DEF v, i0
  <2>1. Len(ws) = n * Size(rtype[v.typ].elem)
    BY <1>23 DEF q
  <2>2. Patched(y.mem, ElemAddr(y.mem, y.v, Sliced(mem, v).len), ws, mem')
    BY <1>23 DEF i0
  <2>3. NewSlice(mem, F, y, v.typ, Sliced(mem, v).len + n) /\ GrownTo(mem, v, y, Sliced(mem, v).len + n)
    BY <1>8 DEF i0
  <2> QED  BY <1>1, <1>2, <1>4, <1>9, <1>13, <1>23, <2>1, <2>2, <2>3, AppendedIs
<1>24. CASE n = 1
  <2>1. FlattenSeq(cs) = c1
    <3> HIDE DEF cs
    <3> QED  BY <1>20, <1>22, <1>24, FlattenOne
  <2>2. Len(c1) = n * q
    BY <1>5, <1>15, <1>24
  <2>3. Patched(y.mem, a, c1, mem')
    BY <1>14, <1>18, <1>24
  <2> HIDE DEF c1, v, a, cs
  <2>4. Appended(v, c1, y.v)
    BY <1>15, <1>23, <2>2, <2>3
  <2> QED  BY <1>21, <2>1, <2>4 DEF v, cs
<1>25. CASE n = 2
  <2> DEFINE u2 == val[xs[2]]
             c2 == Content(mem, u2)
             b  == At(a.obj, a.off + Len(c1))
  <2>1. 2 \in DOMAIN xs /\ 2 \in 2..Len(xs)
    BY <1>4, <1>25 DEF n
  <2>2. /\ u2.typ = e /\ ValueFits(mem, F, u2) /\ ValueFits(y.mem, F2, u2) /\ IsSeq(c2) /\ Len(c2) = q
        /\ ~Overwritten(v, u2) /\ cs[2] = c2
    BY <1>4, <1>6, <1>11, <2>1
  <2>3. Content(m1, u2) = c2
    <3> HIDE DEF u2, v, m1, a
    <3>1. CASE ~Addressable(u2)
      <4>1. Content(m1, u2) = Content(y.mem, u2)
        BY <1>3, <1>9, <1>19, <2>2, <3>1, SameContent
      <4>2. Content(y.mem, u2) = c2
        BY <1>2, <1>3, <1>10, <2>2, OldContent
      <4> QED  BY <4>1, <4>2
    <3>2. CASE Addressable(u2)
      <4> DEFINE l == 1
      <4>1. Len(c1) = l * q /\ l \in Nat /\ l <= n
        BY <1>4, <1>5, <1>15, <1>25
      <4> HIDE DEF l, c1, i0
      <4>2. /\ Len(mem) <= Len(m1)
            /\ \A o \in 1..Len(mem) : \A k \in DOMAIN mem[o].words :
                 k \in DOMAIN m1[o].words /\ (m1[o].words[k] = mem[o].words[k] \/ InSpare(v, o, k))
        <5>1. Len(c1) = l * Size(rtype[v.typ].elem)
          BY <4>1 DEF q
        <5>2. Patched(y.mem, ElemAddr(y.mem, y.v, Sliced(mem, v).len), c1, m1)
          BY <1>18 DEF a, i0
        <5>3. NewSlice(mem, F, y, v.typ, Sliced(mem, v).len + n) /\ GrownTo(mem, v, y, Sliced(mem, v).len + n)
          BY <1>8 DEF i0
        <5> QED  BY <1>1, <1>2, <1>4, <1>15, <4>1, <5>1, <5>2, <5>3, WritesSpare
      <4>3. u2.typ \in Types
        BY <1>3, <2>2
      <4> HIDE DEF c2, cs, e
      <4>4. Content(m1, u2) = Content(mem, u2)
        BY <1>1, <1>2, <1>19, <2>2, <3>2, <4>2, <4>3, SpareContent
      <4> QED  BY <4>4 DEF c2
    <3> QED  BY <3>1, <3>2
  <2>4. ElemAddr(m1, y.v, i0 + 1) = b /\ a \in Addresses
    <3> DEFINE x == Sliced(y.mem, y.v)
    <3>1. SizeOfElem(y.v.typ) = q
      BY <1>12 DEF SizeOfElem, q, Size
    <3>2. /\ ElemAddr(m1, y.v, i0 + 1) = [obj |-> x.base.obj, off |-> x.base.off + (i0 + 1) * q]
          /\ a = [obj |-> x.base.obj, off |-> x.base.off + i0 * q]
      BY <1>19, <3>1 DEF ElemAddr, arrayAt, At
    <3>3. x.base \in Addresses
      <4>1. x.cap # 0 /\ Backs(y.mem, F2, x.base, e, x.cap)
        <5>1. x.len \in Nat /\ x.cap \in Nat /\ x.len <= x.cap /\ Backs(y.mem, F2, x.base, e, x.cap)
          BY <1>9, <1>12, SlicedFits
        <5> QED  BY <1>3, <1>10, <1>25, <5>1
      <4> QED  BY <4>1 DEF Backs, Window, Holds
    <3> HIDE DEF x, i0, a, c1
    <3>4. x.base.obj \in Nat /\ x.base.off \in Nat
      BY <3>3 DEF Addresses
    <3>5. i0 * q \in Nat /\ (i0 + 1) * q = i0 * q + q
      BY <1>3, <1>5
    <3>6. a \in Addresses
      BY <3>2, <3>4, <3>5 DEF Addresses
    <3>7. b = [obj |-> x.base.obj, off |-> x.base.off + i0 * q + q]
      BY <1>15, <3>2 DEF At
    <3>8. x.base.off + (i0 + 1) * q = x.base.off + i0 * q + q
      <4> DEFINE z == i0 * q
                 d == x.base.off
      <4>1. z \in Nat /\ q \in Nat /\ d \in Nat /\ (i0 + 1) * q = z + q
        BY <1>5, <3>4, <3>5
      <4> HIDE DEF z, d
      <4>2. d + (z + q) = d + z + q
        BY <4>1
      <4> QED  BY <4>1, <4>2 DEF z, d
    <3> HIDE DEF b
    <3> QED  BY <3>2, <3>6, <3>7, <3>8
  <2>5. mem' = Store(m1, b, c2)
    <3>1. i0 + 2 - 1 = i0 + 1
      BY <1>3
    <3>2. mem' = SetOne(m1, y.v, i0, xs, 2)
      BY <1>14, <1>25
    <3> HIDE DEF m1, i0, b
    <3> QED  BY <2>3, <2>4, <3>1, <3>2 DEF SetOne
  <2> HIDE DEF m1, b, c1, c2, a, v, cs
  <2>6. Patched(m1, b, c2, mem')
    BY <1>19, <2>5, StorePatches DEF Sound
  <2>7. Patched(y.mem, a, c1 \o c2, mem')
    BY <1>9, <1>15, <1>18, <2>2, <2>4, <2>6, PatchedTwice DEF b
  <2>8. FlattenSeq(cs) = c1 \o c2
    BY <1>20, <1>22, <1>25, <2>2, FlattenTwo
  <2>9. IsSeq(c1 \o c2) /\ Len(c1 \o c2) = q + q
    BY <1>15, <2>2, SeqConcat
  <2>10. Len(c1 \o c2) = n * q
    BY <1>5, <1>25, <2>9
  <2>11. Appended(v, c1 \o c2, y.v)
    BY <1>23, <2>7, <2>9, <2>10
  <2> QED  BY <1>21, <2>8, <2>11 DEF v, cs
<1> QED  BY <1>4, <1>24, <1>25

(* What one step appends.                                                  *)
LEMMA StepAppends ==
  ASSUME Typed
  PROVE  \A r, s \in Registers : Is(val[s].typ, "slice") /\ val'[r] # val[r] =>
           /\ \A xs \in Arguments :
                AppendValues(r, s, xs) /\ (\A k \in 2..Len(xs) : ~Overwritten(val[s], val[xs[k]])) =>
                  Appended(val[s], FlattenSeq([k \in DOMAIN xs |-> Content(mem, val[xs[k]])]), val'[r])
           /\ \A t \in Registers :
                AppendSlice(r, s, t) => Appended(val[s], Elems(mem, val[t]), val'[r])
<1>1. PICK F : Fit(F)
  BY DEF Typed, Fit
<1>2. ASSUME NEW r \in Registers, NEW s \in Registers, NEW xs \in Arguments,
             AppendValues(r, s, xs), \A k \in 2..Len(xs) : ~Overwritten(val[s], val[xs[k]])
      PROVE  Appended(val[s], FlattenSeq([k \in DOMAIN xs |-> Content(mem, val[xs[k]])]), val'[r])
  BY <1>1, <1>2, AppendsValues
<1>3. ASSUME NEW r \in Registers, NEW s \in Registers, NEW t \in Registers, AppendSlice(r, s, t)
      PROVE  Appended(val[s], Elems(mem, val[t]), val'[r])
  BY <1>1, <1>3, AppendsSlice
<1> QED  BY <1>2, <1>3

(* What Append and AppendSlice give is the slice's elements and then the   *)
(* values given, as they were before; and they write to nothing but the    *)
(* slice's spare capacity.                                                 *)
THEOREM AppendsRight == SlicesSpec => Appends
<1> DEFINE A == \A r, s \in Registers : Is(val[s].typ, "slice") /\ val'[r] # val[r] =>
                  /\ \A xs \in Arguments :
                       AppendValues(r, s, xs) /\ (\A k \in 2..Len(xs) : ~Overwritten(val[s], val[xs[k]])) =>
                         Appended(val[s], FlattenSeq([k \in DOMAIN xs |-> Content(mem, val[xs[k]])]), val'[r])
                  /\ \A t \in Registers :
                       AppendSlice(r, s, t) => Appended(val[s], Elems(mem, val[t]), val'[r])
<1>1. Typed => [A]_vars
  BY StepAppends
<1>2. SlicesSpec => [][A]_vars
  BY <1>1, AlwaysTyped, PTL DEF SlicesSpec
<1> QED  BY <1>2 DEF Appends
=============================================================================
