-------------------------- MODULE TypeLayoutProofs --------------------------
(***************************************************************************)
(* Whatever types StructOf, ArrayOf and MapOf are given, and as long as    *)
(* sizes do not wrap around: the fields of a struct do not overlap, sizes  *)
(* and offsets are multiples of alignments, what interfaces hold directly  *)
(* is one pointer, buckets have the sizes that bucketOf asserts, and the   *)
(* collector is shown the pointers of a value and nothing else, by masks   *)
(* and by programs.                                                        *)
(***************************************************************************)
EXTENDS TypeLayout, WellFoundedInduction, TLAPS

-----------------------------------------------------------------------------
(* Induction on sets of numbers                                            *)

LEMMA LeastNumber ==
  ASSUME NEW T \in SUBSET Nat, T # {}
  PROVE  \E x \in T : \A y \in T : x <= y
<1> DEFINE R == {ss \in Nat \X Nat : ss[1] < ss[2]}
<1>1. IsWellFoundedOn(R, Nat)
  BY NatLessThanWellFounded DEF OpToRel
<1> HIDE DEF R
<1>2. PICK x \in T : \A y \in T : ~(<<y, x>> \in R)
  BY <1>1, WFMin
<1>3. ASSUME NEW y \in T, y < x  PROVE <<y, x>> \in R
  BY <1>3 DEF R
<1>4. \A y \in T : ~(y < x)
  BY <1>2, <1>3
<1> QED  BY <1>4

LEMMA Induction ==
  ASSUME NEW S, 0 \in S, \A n \in Nat : n \in S => n + 1 \in S
  PROVE  \A n \in Nat : n \in S
<1> SUFFICES ASSUME NEW n \in Nat, n \notin S  PROVE FALSE
  OBVIOUS
<1> DEFINE T == {k \in Nat : k \notin S}
<1>1. PICK x \in T : \A y \in T : x <= y
  <2>1. n \in T
    OBVIOUS
  <2> QED  BY <2>1, LeastNumber
<1>2. x # 0
  OBVIOUS
<1>3. x - 1 \in Nat /\ x - 1 \notin T
  BY <1>1, <1>2
<1> QED  BY <1>1, <1>3

-----------------------------------------------------------------------------
(* Arithmetic                                                              *)

LEMMA AlignFacts ==
  ASSUME NEW x \in Nat, NEW a \in Nat \ {0}
  PROVE  Align(x, a) \in Nat /\ Align(x, a) >= x
<1>1. (-x) % a \in 0..(a - 1)
  OBVIOUS
<1> QED  BY <1>1 DEF Align

LEMMA WrapFacts ==
  ASSUME NEW n \in Nat
  PROVE  Wrap(n) \in Nat /\ (n < AddressSpace => Wrap(n) = n)
<1>1. AddressSpace \in Nat /\ n % AddressSpace \in Nat
  BY LayoutAssumption
<1> QED  BY <1>1 DEF Wrap

(* Multiples                                                               *)

LEMMA DivMod ==
  ASSUME NEW x \in Int, NEW a \in Nat \ {0}
  PROVE  /\ x = a * (x \div a) + (x % a)
         /\ x \div a \in Int /\ x % a \in 0..(a - 1)
OBVIOUS

LEMMA Multiple ==
  ASSUME NEW x \in Int, NEW a \in Nat \ {0}, x % a = 0
  PROVE  \E p \in Int : x = a * p
<1>1. x = a * (x \div a) + (x % a) /\ x \div a \in Int
  BY DivMod
<1> DEFINE q == x \div a
<1>2. x = a * q /\ q \in Int
  <2>1. a * q \in Int BY <1>1
  <2> QED  BY <1>1, <2>1
<1> QED  BY <1>2

LEMMA MultipleOf ==
  ASSUME NEW q \in Int, NEW a \in Nat \ {0}
  PROVE  (a * q) % a = 0 /\ (a * q) \div a = q
OBVIOUS

LEMMA SumMod ==
  ASSUME NEW x \in Int, NEW y \in Int, NEW z \in Int, z = x + y,
         NEW a \in Nat \ {0}, x % a = 0, y % a = 0
  PROVE  z % a = 0
<1>1. PICK p \in Int : x = a * p
  BY Multiple
<1>2. PICK q \in Int : y = a * q
  BY Multiple
<1>3. z = a * (p + q) /\ p + q \in Int
  BY <1>1, <1>2
<1> QED  BY <1>3, MultipleOf

LEMMA ProductMod ==
  ASSUME NEW x \in Int, NEW y \in Int, NEW a \in Nat \ {0}, x % a = 0
  PROVE  (x * y) % a = 0 /\ (y * x) % a = 0
<1>1. PICK p \in Int : x = a * p
  BY Multiple
<1>2. x * y = a * (p * y) /\ y * x = a * (p * y) /\ p * y \in Int
  BY <1>1
<1> QED  BY <1>2, MultipleOf

LEMMA AlignMod ==
  ASSUME NEW x \in Nat, NEW a \in Nat \ {0}
  PROVE  Align(x, a) % a = 0
<1>1. -x = a * ((-x) \div a) + ((-x) % a) /\ (-x) \div a \in Int
  BY DivMod
<1> DEFINE q == (-x) \div a
<1>2. Align(x, a) = a * (-q) /\ -q \in Int
  BY <1>1 DEF Align
<1> QED  BY <1>2, MultipleOf

LEMMA AlignAligned ==
  ASSUME NEW x \in Nat, NEW a \in Nat \ {0}, x % a = 0
  PROVE  Align(x, a) = x
<1>1. PICK p \in Int : x = a * p
  BY Multiple
<1>2. -x = a * (-p) /\ -p \in Int BY <1>1
<1>3. (-x) % a = 0 BY <1>2, MultipleOf
<1> QED  BY <1>3 DEF Align

LEMMA ModMod ==
  ASSUME NEW x \in Int, NEW a \in Nat \ {0}, NEW b \in Nat \ {0}, x % b = 0, b % a = 0
  PROVE  x % a = 0
<1>1. PICK p \in Int : x = b * p
  BY Multiple
<1>2. b \in Int
  OBVIOUS
<1>3. (b * p) % a = 0
  BY <1>2, ProductMod
<1> QED  BY <1>1, <1>3

-----------------------------------------------------------------------------
(* One more type                                                           *)

LEMMA SeqMonotone ==
  ASSUME NEW S, NEW T, S \subseteq T, NEW q \in Seq(S)
  PROVE  q \in Seq(T)
OBVIOUS

LEMMA SeqElements ==
  ASSUME NEW S, NEW q \in Seq(S)
  PROVE  \A n \in DOMAIN q : q[n] \in S
OBVIOUS

LEMMA SeqOfFunction ==
  ASSUME NEW S, NEW n \in Nat, NEW f \in [1..n -> S]
  PROVE  f \in Seq(S)
OBVIOUS

LEMMA FieldFacts ==
  ASSUME TypeOK
  PROVE  \A n \in DOMAIN fs : fs[n].typ \in DOMAIN types /\ fs[n].offset \in Nat
<1> DEFINE S == [typ : DOMAIN types, offset : Nat]
<1>1. fs \in Seq(S)
  BY DEF TypeOK
<1> HIDE DEF S
<1>2. \A n \in DOMAIN fs : fs[n] \in S
  BY <1>1, SeqElements
<1> QED  BY <1>2 DEF S

LEMMA AppendTypes ==
  ASSUME types \in Seq(Range(types)), NEW d
  PROVE  /\ Append(types, d) \in Seq(Range(Append(types, d)))
         /\ Len(Append(types, d)) = Len(types) + 1
         /\ DOMAIN Append(types, d) = 1..(Len(types) + 1)
         /\ DOMAIN types = 1..Len(types) /\ Len(types) \in Nat
         /\ \A t \in DOMAIN types : Append(types, d)[t] = types[t]
         /\ Append(types, d)[Len(types) + 1] = d
<1> DEFINE S == Range(types) \cup {d}
           ts == Append(types, d)
<1>1. types \in Seq(S) /\ d \in S
  OBVIOUS
<1> HIDE DEF S
<1>2. /\ ts \in Seq(S) /\ Len(ts) = Len(types) + 1
      /\ DOMAIN ts = 1..(Len(types) + 1) /\ DOMAIN types = 1..Len(types)
      /\ Len(types) \in Nat
      /\ \A t \in 1..Len(types) : ts[t] = types[t]
      /\ ts[Len(types) + 1] = d
  BY <1>1
<1> HIDE DEF ts
<1>3. \A t \in DOMAIN ts : ts[t] \in Range(ts)
  BY DEF Range
<1>4. ts \in Seq(Range(ts))
  BY <1>2, <1>3
<1> QED  BY <1>2, <1>4 DEF ts

Inv == TypeOK /\ FieldsApart

(* A type that is made of earlier ones, and its parts apart if it is a     *)
(* struct, keep the invariant.                                             *)
LEMMA MakeInv ==
  ASSUME Inv, NEW d, types' = Append(types, d),
         d.size \in Nat, d.align \in Nat \ {0},
         \A n \in DOMAIN d.parts : d.parts[n].typ \in DOMAIN types,
         ~wrapped' /\ d.kind = "struct" => Apart(types, d.parts, d.size),
         fs' = fs, size' = size, typalign' = typalign, lastzero' = lastzero,
         making' \in BOOLEAN, wrapped' \in BOOLEAN, wrapped => wrapped'
  PROVE  Inv'
<1>1. /\ types' \in Seq(Range(types')) /\ Len(types') = Len(types) + 1
      /\ DOMAIN types' = 1..(Len(types) + 1)
      /\ DOMAIN types = 1..Len(types) /\ Len(types) \in Nat
      /\ \A t \in DOMAIN types : types'[t] = types[t]
      /\ types'[Len(types) + 1] = d
  BY AppendTypes DEF Inv, TypeOK
<1>2. DOMAIN types \subseteq DOMAIN types' /\ Len(BasicTypes) \in Nat
      /\ Len(types') >= Len(BasicTypes)
  BY <1>1, LayoutAssumption DEF Inv, TypeOK
<1>3. ASSUME NEW t \in DOMAIN types'
      PROVE  /\ types'[t].size \in Nat /\ types'[t].align \in Nat \ {0}
             /\ \A n \in DOMAIN types'[t].parts : types'[t].parts[n].typ \in DOMAIN types
  <2>1. CASE t \in DOMAIN types
    BY <1>1, <2>1 DEF Inv, TypeOK
  <2>2. CASE t = Len(types) + 1
    BY <1>1, <2>2
  <2> QED  BY <1>1, <2>1, <2>2
<1>4. TypeOK'
  <2>1. fs \in Seq([typ : DOMAIN types', offset : Nat])
    <3> DEFINE S == [typ : DOMAIN types, offset : Nat]
               T == [typ : DOMAIN types', offset : Nat]
    <3>1. S \subseteq T
      BY <1>2
    <3>2. fs \in Seq(S)
      BY DEF Inv, TypeOK
    <3> HIDE DEF S, T
    <3>3. fs \in Seq(T)
      BY <3>1, <3>2, SeqMonotone
    <3> QED  BY <3>3 DEF T
  <2>2. \A t \in DOMAIN types' :
          /\ types'[t].size \in Nat /\ types'[t].align \in Nat \ {0}
          /\ \A n \in DOMAIN types'[t].parts : types'[t].parts[n].typ \in DOMAIN types'
    BY <1>2, <1>3
  <2>3. /\ size' \in Nat /\ typalign' \in Nat /\ lastzero' \in Nat
        /\ fs' # <<>> => typalign' > 0
    BY DEF Inv, TypeOK
  <2> QED  BY <1>1, <1>2, <2>1, <2>2, <2>3 DEF TypeOK
<1>5. ASSUME NEW parts, NEW end, Apart(types, parts, end),
             \A n \in DOMAIN parts : parts[n].typ \in DOMAIN types
      PROVE  Apart(types', parts, end)
  <2>1. \A n \in DOMAIN parts : types'[parts[n].typ] = types[parts[n].typ]
    BY <1>1, <1>5
  <2> QED  BY <1>5, <2>1 DEF Apart
<1>6. FieldsApart'
  <2> SUFFICES ASSUME ~wrapped'  PROVE FieldsApart'
    BY DEF FieldsApart
  <2>1. ~wrapped /\ Apart(types, fs, size)
    BY DEF Inv, FieldsApart
  <2>2. \A n \in DOMAIN fs : fs[n].typ \in DOMAIN types
    BY FieldFacts DEF Inv
  <2>3. Apart(types', fs', size')
    BY <1>5, <2>1, <2>2
  <2>4. ASSUME NEW t \in MadeTypes', types'[t].kind = "struct"
        PROVE  Apart(types', types'[t].parts, types'[t].size)
    <3>1. t \in DOMAIN types'
      BY <1>1, <1>2, <2>4 DEF MadeTypes
    <3>2. CASE t \in DOMAIN types
      <4>1. t \in MadeTypes /\ types'[t] = types[t]
        BY <1>1, <1>2, <2>4, <3>2 DEF MadeTypes
      <4>2. Apart(types, types[t].parts, types[t].size)
        BY <2>1, <2>4, <4>1 DEF Inv, FieldsApart
      <4>3. \A n \in DOMAIN types[t].parts : types[t].parts[n].typ \in DOMAIN types
        BY <3>2 DEF Inv, TypeOK
      <4> QED  BY <1>5, <4>1, <4>2, <4>3
    <3>3. CASE t = Len(types) + 1
      BY <1>1, <1>5, <2>4, <3>3
    <3> QED  BY <1>1, <3>1, <3>2, <3>3
  <2> QED  BY <2>3, <2>4 DEF FieldsApart
<1> QED  BY <1>4, <1>6 DEF Inv

-----------------------------------------------------------------------------
(* The steps                                                               *)

LEMMA InitInv == Init => Inv
<1> SUFFICES ASSUME Init  PROVE Inv
  OBVIOUS
<1>1. /\ types = BasicTypes /\ BasicTypes \in Seq(Range(BasicTypes))
      /\ Len(BasicTypes) \in Nat /\ fs = <<>> /\ size = 0
  BY LayoutAssumption DEF Init
<1>2. \A t \in DOMAIN types :
        /\ types[t].size \in Nat /\ types[t].align \in Nat \ {0}
        /\ types[t].parts = <<>>
  BY <1>1, LayoutAssumption
<1>3. TypeOK
  <2>1. \A t \in DOMAIN types :
          /\ types[t].size \in Nat /\ types[t].align \in Nat \ {0}
          /\ \A n \in DOMAIN types[t].parts : types[t].parts[n].typ \in DOMAIN types
    BY <1>2
  <2>2. types \in Seq(Range(types)) /\ Len(types) >= Len(BasicTypes)
    BY <1>1
  <2>3. fs \in Seq([typ : DOMAIN types, offset : Nat])
    BY <1>1
  <2>4. /\ size \in Nat /\ typalign \in Nat /\ lastzero \in Nat
        /\ making \in BOOLEAN /\ wrapped \in BOOLEAN
    BY DEF Init
  <2> QED  BY <1>1, <2>1, <2>2, <2>3, <2>4 DEF TypeOK
<1>4. FieldsApart
  <2>1. MadeTypes = {}
    BY <1>1 DEF MadeTypes
  <2>2. Apart(types, fs, size)
    BY <1>1 DEF Apart
  <2> QED  BY <2>1, <2>2 DEF FieldsApart
<1> QED  BY <1>3, <1>4 DEF Inv

LEMMA StartStructInv ==
  ASSUME Inv, StartStruct
  PROVE  Inv'
<1>1. /\ types' = types /\ wrapped' = wrapped /\ fs' = <<>> /\ size' = 0
      /\ typalign' = 0 /\ lastzero' = 0 /\ making' = TRUE
  BY DEF StartStruct
<1>2. TypeOK'
  BY <1>1 DEF Inv, TypeOK
<1>3. Apart(types', fs', size')
  BY <1>1 DEF Apart
<1>4. FieldsApart'
  BY <1>1, <1>3 DEF Inv, FieldsApart, MadeTypes
<1> QED  BY <1>2, <1>4 DEF Inv

LEMMA AddFieldInv ==
  ASSUME Inv, NEW t \in Usable, AddField(t)
  PROVE  Inv'
<1> DEFINE ft == types[t]
           up == Align(size, ft.align)
           offset == Wrap(up)
           part == [typ |-> t, offset |-> offset]
<1>1. t \in DOMAIN types /\ ft.size \in Nat /\ ft.align \in Nat \ {0} /\ size \in Nat
  BY DEF Inv, TypeOK, Usable
<1>2. /\ types' = types /\ making' = making /\ fs' = Append(fs, part)
      /\ typalign' = IF ft.align > typalign THEN ft.align ELSE typalign
      /\ size' = Wrap(offset + ft.size)
      /\ lastzero' = IF ft.size = 0 THEN size' ELSE lastzero
      /\ wrapped' = (wrapped \/ up + ft.size >= AddressSpace)
  BY DEF AddField
<1>3. /\ up \in Nat /\ up >= size /\ offset \in Nat
      /\ up < AddressSpace => offset = up
  BY <1>1, AlignFacts, WrapFacts
<1>4. /\ size' \in Nat
      /\ offset + ft.size < AddressSpace => size' = offset + ft.size
  <2>1. offset + ft.size \in Nat
    BY <1>1, <1>3
  <2> QED  BY <1>2, <2>1, WrapFacts
<1> DEFINE S == [typ : DOMAIN types, offset : Nat]
<1>5. part \in S
  BY <1>1, <1>3
<1>6. fs \in Seq(S)
  BY DEF Inv, TypeOK
<1> HIDE DEF S, part
<1>7. /\ Append(fs, part) \in Seq(S) /\ Len(fs) \in Nat
      /\ DOMAIN Append(fs, part) = 1..(Len(fs) + 1) /\ DOMAIN fs = 1..Len(fs)
      /\ \A n \in 1..Len(fs) : Append(fs, part)[n] = fs[n]
      /\ Append(fs, part)[Len(fs) + 1] = part
      /\ Append(fs, part) # <<>>
  BY <1>5, <1>6
<1>8. TypeOK'
  <2>1. fs' \in Seq([typ : DOMAIN types', offset : Nat])
    BY <1>2, <1>7 DEF S
  <2>2. typalign' \in Nat \ {0} /\ lastzero' \in Nat
    BY <1>1, <1>2, <1>4 DEF Inv, TypeOK
  <2> QED  BY <1>2, <1>4, <2>1, <2>2 DEF Inv, TypeOK
<1>9. FieldsApart'
  <2> SUFFICES ASSUME ~wrapped'  PROVE FieldsApart'
    BY DEF FieldsApart
  <2>1. ~wrapped /\ up + ft.size < AddressSpace /\ AddressSpace \in Nat
    <3>1. ~wrapped /\ ~(up + ft.size >= AddressSpace)
      BY <1>2, Zenon
    <3> QED  BY <1>1, <1>3, <3>1, LayoutAssumption
  <2>2. offset = up /\ size' = up + ft.size /\ size' >= size
    BY <1>1, <1>3, <1>4, <2>1
  <2>3. part.typ = t /\ part.offset = up
    BY <2>2 DEF part
  <2>4. \A n \in 1..Len(fs) :
          /\ fs[n].offset + types[fs[n].typ].size <= size
          /\ fs[n].offset \in Nat /\ types[fs[n].typ].size \in Nat
    <3>1. \A n \in DOMAIN fs : fs[n].typ \in DOMAIN types /\ fs[n].offset \in Nat
      BY FieldFacts DEF Inv
    <3>2. \A n \in DOMAIN fs : types[fs[n].typ].size \in Nat
      BY <3>1 DEF Inv, TypeOK
    <3>3. Apart(types, fs, size)
      BY <2>1 DEF Inv, FieldsApart
    <3> QED  BY <1>7, <3>1, <3>2, <3>3 DEF Apart
  <2>5. Apart(types', fs', size')
    <3> SUFFICES ASSUME NEW n \in 1..(Len(fs) + 1)
                 PROVE  LET after == fs'[n].offset + types[fs'[n].typ].size
                        IN  /\ after <= size'
                            /\ \A m \in 1..(Len(fs) + 1) : m > n => after <= fs'[m].offset
      BY <1>2, <1>7 DEF Apart
    <3>1. CASE n = Len(fs) + 1
      BY <1>1, <1>2, <1>3, <1>7, <2>2, <2>3, <3>1
    <3>2. CASE n \in 1..Len(fs)
      <4> DEFINE after == fs[n].offset + types[fs[n].typ].size
      <4>1. after \in Nat /\ after <= size /\ fs'[n] = fs[n]
        BY <1>2, <1>7, <2>4, <3>2
      <4>2. ASSUME NEW m \in 1..(Len(fs) + 1), m > n  PROVE after <= fs'[m].offset
        <5>1. CASE m = Len(fs) + 1
          BY <1>1, <1>2, <1>3, <1>7, <2>3, <4>1, <5>1
        <5>2. CASE m \in 1..Len(fs)
          BY <1>2, <1>7, <2>1, <3>2, <4>2, <5>2 DEF Inv, FieldsApart, Apart
        <5> QED  BY <1>7, <5>1, <5>2
      <4> QED  BY <1>1, <1>3, <2>2, <4>1, <4>2
    <3> QED  BY <1>7, <3>1, <3>2
  <2> QED  BY <1>2, <2>1, <2>5 DEF Inv, FieldsApart, MadeTypes
<1> QED  BY <1>8, <1>9 DEF Inv

LEMMA FinishStructInv ==
  ASSUME Inv, FinishStruct
  PROVE  Inv'
<1> DEFINE d == StructDescriptor
<1>1. /\ d.size = Wrap(StructSize) /\ d.align = typalign /\ d.parts = fs
      /\ d.kind = "struct"
  BY DEF StructDescriptor
<1> HIDE DEF d
<1>2. /\ fs # <<>> /\ types' = Append(types, d) /\ making' = FALSE
      /\ fs' = fs /\ size' = size /\ typalign' = typalign /\ lastzero' = lastzero
      /\ wrapped' = (wrapped \/ StructSize >= AddressSpace)
  BY DEF FinishStruct, d
<1>3. size \in Nat /\ typalign \in Nat \ {0} /\ wrapped \in BOOLEAN
  BY <1>2 DEF Inv, TypeOK
<1>4. PaddedSize \in Nat /\ PaddedSize >= size
  BY <1>3 DEF PaddedSize
<1>5. StructSize \in Nat /\ StructSize >= size
  BY <1>3, <1>4, AlignFacts DEF StructSize
<1>6. d.size \in Nat /\ d.align \in Nat \ {0}
  BY <1>1, <1>3, <1>5, WrapFacts
<1>7. \A n \in DOMAIN fs : fs[n].typ \in DOMAIN types /\ fs[n].offset \in Nat
  BY FieldFacts DEF Inv
<1>8. ~wrapped' => Apart(types, fs, d.size)
  <2> SUFFICES ASSUME ~wrapped'  PROVE Apart(types, fs, d.size)
    OBVIOUS
  <2>1. ~wrapped /\ ~(StructSize >= AddressSpace)
    BY <1>2, Zenon
  <2>2. d.size = StructSize /\ d.size >= size
    BY <1>1, <1>5, <2>1, WrapFacts, LayoutAssumption
  <2>3. Apart(types, fs, size)
    BY <2>1 DEF Inv, FieldsApart
  <2>4. \A n \in DOMAIN fs : types[fs[n].typ].size \in Nat
    BY <1>7 DEF Inv, TypeOK
  <2> QED  BY <1>3, <1>6, <1>7, <2>2, <2>3, <2>4 DEF Apart
<1>9. making' \in BOOLEAN /\ wrapped' \in BOOLEAN /\ (wrapped => wrapped')
  BY <1>2
<1> QED  BY <1>1, <1>2, <1>6, <1>7, <1>8, <1>9, MakeInv

LEMMA ArrayInv ==
  ASSUME Inv, NEW t \in Usable, NEW count \in Counts, ArrayOf(count, t)
  PROVE  Inv'
<1> DEFINE d == ArrayDescriptor(count, t)
<1>1. /\ t \in DOMAIN types /\ types[t].size \in Nat /\ types[t].align \in Nat \ {0}
      /\ count \in Nat
  BY LayoutAssumption DEF Inv, TypeOK, Usable
<1>2. /\ d.size = types[t].size * count /\ d.align = types[t].align /\ d.kind = "array"
      /\ d.parts = [k \in 1..count |-> [typ |-> t, offset |-> (k - 1) * types[t].size]]
  BY DEF ArrayDescriptor
<1> HIDE DEF d
<1>3. /\ types' = Append(types, d) /\ making' = making /\ wrapped' = wrapped
      /\ fs' = fs /\ size' = size /\ typalign' = typalign /\ lastzero' = lastzero
  BY DEF ArrayOf, d
<1>4. d.size \in Nat /\ d.align \in Nat \ {0}
  BY <1>1, <1>2
<1>5. \A n \in DOMAIN d.parts : d.parts[n].typ \in DOMAIN types
  BY <1>1, <1>2
<1>6. making' \in BOOLEAN /\ wrapped' \in BOOLEAN
  BY <1>3 DEF Inv, TypeOK
<1> QED  BY <1>2, <1>3, <1>4, <1>5, <1>6, MakeInv

LEMMA BucketInv ==
  ASSUME Inv, NEW key \in Usable, NEW elem \in Usable, MapOf(key, elem)
  PROVE  Inv'
<1> DEFINE k == KeyType(key)
           e == ValType(elem)
           d == BucketDescriptor(k, e)
           S == [typ : DOMAIN types, offset : Int]
           Keys == [n \in 1..BucketSize |->
                      [typ |-> k, offset |-> BucketSize + (n - 1) * types[k].size]]
           Vals == [n \in 1..BucketSize |->
                      [typ |-> e, offset |-> BucketSize * (1 + types[k].size)
                                             + (n - 1) * types[e].size]]
           Link == [typ |-> Pointer,
                    offset |-> BucketSize * (1 + types[k].size + types[e].size)]
<1>1. Pointer \in DOMAIN types
  <2>1. /\ DOMAIN types = 1..Len(types) /\ DOMAIN BasicTypes = 1..Len(BasicTypes)
        /\ Len(types) \in Nat /\ Len(BasicTypes) \in Nat
        /\ Len(types) >= Len(BasicTypes)
    BY LayoutAssumption DEF Inv, TypeOK
  <2> QED  BY <2>1, LayoutAssumption
<1>2. k \in DOMAIN types /\ e \in DOMAIN types
  BY <1>1 DEF KeyType, ValType, Usable
<1>3. types[k].size \in Nat /\ types[e].size \in Nat /\ BucketSize \in Nat /\ PtrSize \in Nat \ {0}
  BY <1>2, LayoutAssumption, BucketAssumption DEF Inv, TypeOK
<1>4. /\ d.size = BucketBytes(k, e) /\ d.align = PtrSize /\ d.kind = "bucket"
      /\ d.parts \in {Keys \o Vals \o <<Link>>, Keys \o Vals}
  BY DEF BucketDescriptor
<1>5. /\ types' = Append(types, d) /\ making' = making /\ wrapped' = wrapped
      /\ fs' = fs /\ size' = size /\ typalign' = typalign /\ lastzero' = lastzero
  BY DEF MapOf
<1> HIDE DEF d, k, e
<1>6. BucketBytes(k, e) \in Nat
  <2>1. 1 + types[k].size + types[e].size \in Nat
    BY <1>3
  <2>2. BucketSize * (1 + types[k].size + types[e].size) \in Nat
    BY <1>3, <2>1, SMTT(30)
  <2> QED  BY <1>3, <2>2 DEF BucketBytes
<1>7. Keys \in Seq(S) /\ Vals \in Seq(S) /\ Link \in S
  <2>1. \A n \in 1..BucketSize : (n - 1) * types[k].size \in Int /\ (n - 1) * types[e].size \in Int
    BY <1>3, SMTT(30)
  <2>2. /\ BucketSize * (1 + types[k].size) \in Int
        /\ BucketSize * (1 + types[k].size + types[e].size) \in Int
    BY <1>3, SMTT(30)
  <2>3. Link \in S
    BY <1>1, <2>2
  <2>4. \A n \in 1..BucketSize :
          /\ [typ |-> k, offset |-> BucketSize + (n - 1) * types[k].size] \in S
          /\ [typ |-> e, offset |-> BucketSize * (1 + types[k].size)
                                    + (n - 1) * types[e].size] \in S
    BY <1>2, <1>3, <2>1, <2>2, SMTT(30)
  <2> HIDE DEF S
  <2>5. Keys \in [1..BucketSize -> S] /\ Vals \in [1..BucketSize -> S]
    BY <2>4
  <2> HIDE DEF Keys, Vals
  <2> QED  BY <1>3, <2>3, <2>5, SeqOfFunction
<1> HIDE DEF S, Keys, Vals, Link
<1>8. d.parts \in Seq(S)
  <2>1. Keys \o Vals \in Seq(S)
    BY <1>7
  <2>2. <<Link>> \in Seq(S)
    BY <1>7
  <2> DEFINE kv == Keys \o Vals
  <2>3. kv \in Seq(S)
    BY <2>1
  <2> HIDE DEF kv
  <2>4. kv \o <<Link>> \in Seq(S)
    BY <2>2, <2>3
  <2> QED  BY <1>4, <2>3, <2>4 DEF kv
<1>9. \A n \in DOMAIN d.parts : d.parts[n].typ \in DOMAIN types
  <2>1. \A n \in DOMAIN d.parts : d.parts[n] \in S
    BY <1>8, SeqElements
  <2> QED  BY <2>1 DEF S
<1>10. making' \in BOOLEAN /\ wrapped' \in BOOLEAN
  BY <1>5 DEF Inv, TypeOK
<1> QED  BY <1>3, <1>4, <1>5, <1>6, <1>9, <1>10, MakeInv

LEMMA StepInv ==
  ASSUME Inv, [Next]_vars
  PROVE  Inv'
<1>1. CASE UNCHANGED vars
  BY <1>1 DEF vars, Inv, TypeOK, FieldsApart, MadeTypes
<1> QED  BY <1>1, StartStructInv, FinishStructInv, AddFieldInv, ArrayInv, BucketInv DEF Next

(* Whatever types are made from whatever types, in any order: the fields   *)
(* of the structs that StructOf makes do not overlap and lie within the    *)
(* struct, as long as no size has wrapped around.                          *)
THEOREM Disjointness == Spec => []FieldsApart
<1>1. Inv => FieldsApart
  BY DEF Inv
<1> QED  BY <1>1, InitInv, StepInv, PTL DEF Spec

(* Descriptors have sizes, alignments and parts.                           *)
THEOREM Typing == Spec => []TypeOK
<1>1. Inv => TypeOK
  BY DEF Inv
<1> QED  BY <1>1, InitInv, StepInv, PTL DEF Spec

-----------------------------------------------------------------------------
(* The compiler's rules                                                    *)

Aligns == {BasicTypes[n].align : n \in DOMAIN BasicTypes}

(* Linked types stay as they are, in front of the others.                  *)
Linked ==
  \A t \in DOMAIN BasicTypes : t \in DOMAIN types /\ types[t] = BasicTypes[t]

(* All alignments are those of basic types, that of a struct is the        *)
(* greatest of its fields, and types are made of earlier ones.             *)
Alignments ==
  /\ \A t \in DOMAIN types :
       /\ types[t].align \in Aligns
       /\ \A n \in DOMAIN types[t].parts : types[t].parts[n].typ \in 1..(t - 1)
  /\ typalign \in Aligns \cup {0}
  /\ \A n \in DOMAIN fs : types[fs[n].typ].align <= typalign
  /\ fs = <<>> => size = 0 /\ lastzero = 0 /\ typalign = 0

(* Sizes and offsets are multiples of alignments, programs belong to large *)
(* types, and StructOf remembers where the last field of size zero is.     *)
Multiples ==
  ~wrapped =>
    /\ \A t \in DOMAIN types :
         /\ types[t].size % types[t].align = 0
         /\ types[t].prog => types[t].size > MaxPtrmask * PtrSize
    /\ \A n \in DOMAIN fs :
         /\ fs[n].offset % types[fs[n].typ].align = 0
         /\ types[fs[n].typ].size = 0 /\ fs[n].offset = size => lastzero = size

(* A type that an interface holds without a box has one part, the same.    *)
DirectParts ==
  /\ \A t \in DOMAIN types : types[t].direct =>
       /\ types[t].size = PtrSize
       /\ t \in MadeTypes =>
            /\ DOMAIN types[t].parts = {1} /\ types[t].parts[1].offset = 0
            /\ types[types[t].parts[1].typ].direct
  /\ Len(fs) = 1 /\ types[fs[1].typ].direct =>
       fs[1].offset = 0 /\ size = PtrSize /\ lastzero = 0 /\ typalign = types[fs[1].typ].align

LayoutInv == Inv /\ Linked /\ Alignments /\ Multiples /\ DirectParts /\ StructRules

LEMMA AlignsFacts ==
  /\ Aligns \subseteq Nat \ {0} /\ PtrSize \in Aligns
  /\ \A a \in Aligns : PtrSize % a = 0 /\ BucketSize % a = 0
  /\ \A a \in Aligns, b \in Aligns : a <= b => b % a = 0
<1>1. Aligns \subseteq Nat \ {0} /\ PtrSize \in Aligns
  BY LayoutAssumption, CompilerAssumption DEF Aligns
<1>2. \A a \in Aligns : PtrSize % a = 0
  BY CompilerAssumption DEF Aligns
<1>3. \A a \in Aligns, b \in Aligns : a <= b => b % a = 0
  BY CompilerAssumption DEF Aligns
<1>4. ASSUME NEW a \in Aligns  PROVE BucketSize % a = 0
  <2>1. BucketSize \in Int /\ BucketSize % PtrSize = 0 /\ PtrSize \in Nat \ {0}
    BY BucketAssumption, LayoutAssumption
  <2>2. a \in Nat \ {0} /\ PtrSize % a = 0
    BY <1>1, <1>2
  <2> QED  BY <2>1, <2>2, ModMod
<1> QED  BY <1>1, <1>2, <1>3, <1>4

(* What is asked of a part of a type.                                      *)
PartRules(ty, n, el) ==
  /\ ty.kind = "struct" /\ ty.size > 0 => ty.parts[n].offset < ty.size
  /\ ty.parts[n].offset % el.align = 0
  /\ ty.align % el.align = 0

LEMMA MakeLayout ==
  ASSUME LayoutInv, Inv', NEW d, types' = Append(types, d), d.align \in Aligns,
         \A n \in DOMAIN d.parts : d.parts[n].typ \in DOMAIN types,
         ~wrapped' => /\ d.size % d.align = 0
                      /\ d.prog => d.size > MaxPtrmask * PtrSize
                      /\ \A n \in DOMAIN d.parts : PartRules(d, n, types[d.parts[n].typ]),
         d.direct => /\ d.size = PtrSize
                     /\ DOMAIN d.parts = {1} /\ d.parts[1].offset = 0
                     /\ types[d.parts[1].typ].direct,
         fs' = fs, size' = size, typalign' = typalign, lastzero' = lastzero,
         wrapped => wrapped'
  PROVE  LayoutInv'
<1>1. /\ Len(types') = Len(types) + 1 /\ DOMAIN types' = 1..(Len(types) + 1)
      /\ DOMAIN types = 1..Len(types) /\ Len(types) \in Nat
      /\ \A t \in DOMAIN types : types'[t] = types[t]
      /\ types'[Len(types) + 1] = d
  BY AppendTypes DEF LayoutInv, Inv, TypeOK
<1>2. \A t \in DOMAIN types' : t \in DOMAIN types \/ t = Len(types) + 1
  BY <1>1
<1>3. /\ MadeTypes = (Len(BasicTypes) + 1)..Len(types) /\ Len(BasicTypes) \in Nat
      /\ MadeTypes' = (Len(BasicTypes) + 1)..(Len(types) + 1)
      /\ Len(BasicTypes) <= Len(types)
  BY <1>1, LayoutAssumption DEF MadeTypes, LayoutInv, Inv, TypeOK
<1>4. \A n \in DOMAIN fs : fs[n].typ \in DOMAIN types /\ types'[fs[n].typ] = types[fs[n].typ]
  BY <1>1, FieldFacts DEF LayoutInv, Inv
<1>5. \A t \in DOMAIN types : \A n \in DOMAIN types[t].parts :
        /\ types[t].parts[n].typ \in DOMAIN types
        /\ types'[types[t].parts[n].typ] = types[types[t].parts[n].typ]
  BY <1>1 DEF LayoutInv, Inv, TypeOK
<1>6. \A n \in DOMAIN d.parts : types'[d.parts[n].typ] = types[d.parts[n].typ]
  BY <1>1
<1>7. Alignments'
  <2>1. ASSUME NEW t \in DOMAIN types'
        PROVE  /\ types'[t].align \in Aligns
               /\ \A n \in DOMAIN types'[t].parts : types'[t].parts[n].typ \in 1..(t - 1)
    <3>1. CASE t \in DOMAIN types
      BY <1>1, <3>1 DEF LayoutInv, Alignments
    <3>2. CASE t = Len(types) + 1
      BY <1>1, <3>2
    <3> QED  BY <1>2, <3>1, <3>2
  <2>2. \A n \in DOMAIN fs : types'[fs[n].typ].align <= typalign
    BY <1>4 DEF LayoutInv, Alignments
  <2>3. /\ typalign \in Aligns \cup {0}
        /\ fs = <<>> => size = 0 /\ lastzero = 0 /\ typalign = 0
    BY DEF LayoutInv, Alignments
  <2> QED  BY <2>1, <2>2, <2>3 DEF Alignments, Aligns
<1>8. Multiples'
  <2> SUFFICES ASSUME ~wrapped'  PROVE Multiples'
    BY DEF Multiples
  <2>1. ~wrapped
    OBVIOUS
  <2>2. ASSUME NEW t \in DOMAIN types'
        PROVE  /\ types'[t].size % types'[t].align = 0
               /\ types'[t].prog => types'[t].size > MaxPtrmask * PtrSize
    <3>1. CASE t \in DOMAIN types
      BY <1>1, <2>1, <3>1 DEF LayoutInv, Multiples
    <3>2. CASE t = Len(types) + 1
      BY <1>1, <3>2
    <3> QED  BY <1>2, <3>1, <3>2
  <2>3. \A n \in DOMAIN fs :
          /\ fs[n].offset % types'[fs[n].typ].align = 0
          /\ types'[fs[n].typ].size = 0 /\ fs[n].offset = size => lastzero = size
    BY <1>4, <2>1 DEF LayoutInv, Multiples
  <2> QED  BY <2>2, <2>3 DEF Multiples
<1>9. DirectParts'
  <2>1. ASSUME NEW t \in DOMAIN types', types'[t].direct
        PROVE  /\ types'[t].size = PtrSize
               /\ t \in MadeTypes' =>
                    /\ DOMAIN types'[t].parts = {1} /\ types'[t].parts[1].offset = 0
                    /\ types'[types'[t].parts[1].typ].direct
    <3>1. CASE t \in DOMAIN types
      <4>1. types'[t] = types[t] /\ types[t].direct
        BY <1>1, <2>1, <3>1
      <4>2. t \in MadeTypes' => t \in MadeTypes
        BY <1>1, <1>3, <3>1
      <4> QED  BY <1>5, <3>1, <4>1, <4>2 DEF LayoutInv, DirectParts
    <3>2. CASE t = Len(types) + 1
      BY <1>1, <1>6, <2>1, <3>2
    <3> QED  BY <1>2, <3>1, <3>2
  <2>2. Len(fs) = 1 /\ types'[fs[1].typ].direct =>
          /\ fs[1].offset = 0 /\ size = PtrSize /\ lastzero = 0
          /\ typalign = types'[fs[1].typ].align
    <3>1. Len(fs) = 1 => 1 \in DOMAIN fs
      BY DEF LayoutInv, Inv, TypeOK
    <3> QED  BY <1>4, <3>1 DEF LayoutInv, DirectParts
  <2> QED  BY <2>1, <2>2 DEF DirectParts
<1>10. StructRules'
  <2> SUFFICES ASSUME ~wrapped', NEW t \in MadeTypes'
               PROVE  /\ types'[t].size % types'[t].align = 0
                      /\ \A n \in DOMAIN types'[t].parts :
                           PartRules(types'[t], n, types'[types'[t].parts[n].typ])
    BY DEF StructRules, PartRules
  <2>1. CASE t \in DOMAIN types
    <3>1. types'[t] = types[t] /\ t \in MadeTypes
      BY <1>1, <1>3, <2>1
    <3>2. /\ types[t].size % types[t].align = 0
          /\ \A n \in DOMAIN types[t].parts :
               PartRules(types[t], n, types[types[t].parts[n].typ])
      BY <3>1 DEF LayoutInv, StructRules, PartRules
    <3> QED  BY <1>5, <2>1, <3>1, <3>2
  <2>2. CASE t = Len(types) + 1
    BY <1>1, <1>6, <2>2
  <2>3. t \in DOMAIN types'
    BY <1>1, <1>3
  <2> QED  BY <1>2, <2>1, <2>2, <2>3
<1>11. Linked'
  BY <1>1 DEF LayoutInv, Linked
<1> QED  BY <1>7, <1>8, <1>9, <1>10, <1>11 DEF LayoutInv

LEMMA InitLayout == Init => LayoutInv
<1> SUFFICES ASSUME Init  PROVE LayoutInv
  OBVIOUS
<1>1. types = BasicTypes /\ fs = <<>> /\ size = 0 /\ typalign = 0 /\ lastzero = 0
  BY DEF Init
<1>2. \A t \in DOMAIN types : types[t].parts = <<>> /\ types[t].align \in Aligns
  BY <1>1, LayoutAssumption DEF Aligns
<1>3. MadeTypes = {}
  BY <1>1, LayoutAssumption DEF MadeTypes
<1>4. Alignments
  BY <1>1, <1>2 DEF Alignments
<1>5. Multiples
  BY <1>1, CompilerAssumption DEF Multiples
<1>6. DirectParts
  BY <1>1, <1>3, CompilerAssumption DEF DirectParts
<1>7. StructRules
  BY <1>3 DEF StructRules
<1>8. Linked
  BY <1>1 DEF Linked
<1> QED  BY <1>4, <1>5, <1>6, <1>7, <1>8, InitInv DEF LayoutInv

LEMMA StartStructLayout ==
  ASSUME LayoutInv, StartStruct
  PROVE  LayoutInv'
<1>1. /\ types' = types /\ wrapped' = wrapped /\ fs' = <<>> /\ size' = 0
      /\ typalign' = 0 /\ lastzero' = 0
  BY DEF StartStruct
<1>2. Inv'
  BY StartStructInv DEF LayoutInv
<1>3. Alignments'
  BY <1>1 DEF LayoutInv, Alignments, Aligns
<1>4. Multiples'
  BY <1>1 DEF LayoutInv, Multiples
<1>5. DirectParts' /\ StructRules'
  BY <1>1 DEF LayoutInv, DirectParts, StructRules, MadeTypes
<1> QED  BY <1>1, <1>2, <1>3, <1>4, <1>5 DEF LayoutInv, Linked

LEMMA AddFieldLayout ==
  ASSUME LayoutInv, NEW t \in Usable, AddField(t)
  PROVE  LayoutInv'
<1> DEFINE ft == types[t]
           up == Align(size, ft.align)
           offset == Wrap(up)
           part == [typ |-> t, offset |-> offset]
<1>1. /\ t \in DOMAIN types /\ ft.size \in Nat /\ ft.align \in Nat \ {0} /\ size \in Nat
      /\ ft.align \in Aligns
  BY DEF LayoutInv, Inv, TypeOK, Usable, Alignments
<1>2. /\ types' = types /\ fs' = Append(fs, part)
      /\ typalign' = IF ft.align > typalign THEN ft.align ELSE typalign
      /\ size' = Wrap(offset + ft.size)
      /\ lastzero' = IF ft.size = 0 THEN size' ELSE lastzero
      /\ wrapped' = (wrapped \/ up + ft.size >= AddressSpace)
  BY DEF AddField
<1>3. /\ up \in Nat /\ up >= size /\ offset \in Nat /\ up % ft.align = 0
      /\ up < AddressSpace => offset = up
  BY <1>1, AlignFacts, WrapFacts, AlignMod
<1>4. offset + ft.size < AddressSpace => size' = offset + ft.size
  <2>1. offset + ft.size \in Nat
    BY <1>1, <1>3
  <2> QED  BY <1>2, <2>1, WrapFacts
<1>5. part.typ = t /\ part.offset = offset
  OBVIOUS
<1> HIDE DEF part
<1>6. /\ Len(fs) \in Nat
      /\ DOMAIN fs' = 1..(Len(fs) + 1) /\ DOMAIN fs = 1..Len(fs)
      /\ \A n \in 1..Len(fs) : fs'[n] = fs[n]
      /\ fs'[Len(fs) + 1] = part
      /\ fs' # <<>>
      /\ Len(fs') = 1 => fs = <<>> /\ Len(fs) = 0
  <2>1. fs \in Seq([typ : DOMAIN types, offset : Nat])
    BY DEF LayoutInv, Inv, TypeOK
  <2> QED  BY <1>2, <2>1
<1>7. \A n \in 1..Len(fs) : fs[n].typ \in DOMAIN types /\ fs[n].offset \in Nat
  BY <1>6, FieldFacts DEF LayoutInv, Inv
<1>8. Inv'
  BY AddFieldInv DEF LayoutInv
<1>9. typalign \in Nat /\ typalign \in Aligns \cup {0}
  BY DEF LayoutInv, Inv, TypeOK, Alignments
<1>10. Alignments'
  <2>1. typalign' \in Aligns \cup {0} /\ typalign' >= typalign /\ typalign' >= ft.align
    BY <1>1, <1>2, <1>9
  <2>2. ASSUME NEW n \in DOMAIN fs'
        PROVE  types[fs'[n].typ].align <= typalign'
    <3>1. CASE n = Len(fs) + 1
      BY <1>5, <1>6, <2>1, <3>1
    <3>2. CASE n \in 1..Len(fs)
      <4>1. types[fs[n].typ].align <= typalign /\ types[fs[n].typ].align \in Nat
        BY <1>6, <1>7, <3>2 DEF LayoutInv, Alignments, Inv, TypeOK
      <4> QED  BY <1>1, <1>2, <1>6, <1>9, <3>2, <4>1
    <3> QED  BY <1>6, <3>1, <3>2
  <2> QED  BY <1>2, <1>6, <2>1, <2>2 DEF LayoutInv, Alignments, Aligns
<1>11. Multiples'
  <2> SUFFICES ASSUME ~wrapped'  PROVE Multiples'
    BY DEF Multiples
  <2>1. ~wrapped /\ up + ft.size < AddressSpace /\ AddressSpace \in Nat
    <3>1. ~wrapped /\ ~(up + ft.size >= AddressSpace)
      BY <1>2, Zenon
    <3> QED  BY <1>1, <1>3, <3>1, LayoutAssumption
  <2>2. offset = up /\ size' = up + ft.size /\ size' >= size
    BY <1>1, <1>3, <1>4, <2>1
  <2>3. ASSUME NEW n \in DOMAIN fs'
        PROVE  /\ fs'[n].offset % types[fs'[n].typ].align = 0
               /\ types[fs'[n].typ].size = 0 /\ fs'[n].offset = size' => lastzero' = size'
    <3>1. CASE n = Len(fs) + 1
      BY <1>1, <1>2, <1>3, <1>5, <1>6, <2>2, <3>1
    <3>2. CASE n \in 1..Len(fs)
      <4>1. /\ fs[n].offset % types[fs[n].typ].align = 0
            /\ types[fs[n].typ].size = 0 /\ fs[n].offset = size => lastzero = size
        BY <1>6, <2>1, <3>2 DEF LayoutInv, Multiples
      <4>2. fs[n].offset + types[fs[n].typ].size <= size
        BY <1>6, <2>1, <3>2 DEF LayoutInv, Inv, FieldsApart, Apart
      <4>3. fs[n].offset <= size
        <5>1. types[fs[n].typ].size \in Nat /\ fs[n].offset \in Nat
          BY <1>7, <3>2 DEF LayoutInv, Inv, TypeOK
        <5> QED  BY <1>1, <4>2, <5>1
      <4>4. CASE ft.size = 0
        BY <1>2, <1>6, <3>2, <4>1, <4>4
      <4>5. CASE ft.size # 0
        <5>1. size' # fs[n].offset
          BY <1>1, <1>3, <1>7, <2>2, <3>2, <4>3, <4>5
        <5> QED  BY <1>6, <3>2, <4>1, <5>1
      <4> QED  BY <4>4, <4>5
    <3> QED  BY <1>6, <3>1, <3>2
  <2> QED  BY <1>2, <2>1, <2>3 DEF LayoutInv, Multiples
<1>12. DirectParts'
  <2>1. ASSUME Len(fs') = 1, types[fs'[1].typ].direct
        PROVE  /\ fs'[1].offset = 0 /\ size' = PtrSize /\ lastzero' = 0
               /\ typalign' = types[fs'[1].typ].align
    <3>1. fs = <<>> /\ Len(fs) = 0 /\ fs'[1] = part
      <4>1. Len(fs') = 1
        BY <2>1, Zenon
      <4>2. fs = <<>> /\ Len(fs) = 0
        BY <1>6, <4>1
      <4> QED  BY <1>6, <4>2
    <3>2. size = 0 /\ lastzero = 0 /\ typalign = 0
      BY <3>1 DEF LayoutInv, Alignments
    <3>3. ft.direct /\ ft.size = PtrSize
      BY <1>1, <1>5, <2>1, <3>1 DEF LayoutInv, DirectParts
    <3>4. up = 0
      <4>1. 0 % ft.align = 0
        BY <1>1
      <4> QED  BY <1>1, <3>2, <4>1, AlignAligned
    <3>5. PtrSize \in Nat \ {0} /\ PtrSize < AddressSpace /\ AddressSpace \in Nat \ {0}
      BY LayoutAssumption, CompilerAssumption
    <3>6. offset = 0 /\ size' = PtrSize
      BY <1>3, <1>4, <3>3, <3>4, <3>5
    <3> QED  BY <1>1, <1>2, <1>5, <3>1, <3>2, <3>3, <3>5, <3>6
  <2> QED  BY <1>2, <2>1 DEF LayoutInv, DirectParts, MadeTypes
<1>13. StructRules'
  <2>1. wrapped => wrapped'
    BY <1>2
  <2> QED  BY <1>2, <2>1 DEF LayoutInv, StructRules, MadeTypes
<1> QED  BY <1>2, <1>8, <1>10, <1>11, <1>12, <1>13 DEF LayoutInv, Linked

LEMMA FinishStructLayout ==
  ASSUME LayoutInv, FinishStruct
  PROVE  LayoutInv'
<1> DEFINE d == StructDescriptor
<1>1. /\ d.size = Wrap(StructSize) /\ d.align = typalign /\ d.parts = fs
      /\ d.kind = "struct" /\ d.prog = HasGCProg
      /\ d.direct = (Len(fs) = 1 /\ types[fs[1].typ].direct)
  BY DEF StructDescriptor
<1> HIDE DEF d
<1>2. /\ fs # <<>> /\ types' = Append(types, d)
      /\ fs' = fs /\ size' = size /\ typalign' = typalign /\ lastzero' = lastzero
      /\ wrapped' = (wrapped \/ StructSize >= AddressSpace)
  BY DEF FinishStruct, d
<1>3. /\ size \in Nat /\ typalign \in Nat \ {0} /\ typalign \in Aligns
      /\ lastzero \in Nat
  BY <1>2 DEF LayoutInv, Inv, TypeOK, Alignments
<1>4. PaddedSize \in Nat /\ PaddedSize >= size
  BY <1>3 DEF PaddedSize
<1>5. StructSize \in Nat /\ StructSize >= PaddedSize /\ StructSize % typalign = 0
  BY <1>3, <1>4, AlignFacts, AlignMod DEF StructSize
<1>6. \A n \in DOMAIN fs : fs[n].typ \in DOMAIN types /\ fs[n].offset \in Nat
  BY FieldFacts DEF LayoutInv, Inv
<1>7. \A n \in DOMAIN fs : /\ types[fs[n].typ].size \in Nat
                          /\ types[fs[n].typ].align \in Aligns
  BY <1>6 DEF LayoutInv, Inv, TypeOK, Alignments
<1>8. ~wrapped' => /\ d.size % d.align = 0
                   /\ d.prog => d.size > MaxPtrmask * PtrSize
                   /\ \A n \in DOMAIN fs : PartRules(d, n, types[fs[n].typ])
  <2> SUFFICES ASSUME ~wrapped'
               PROVE  /\ d.size % d.align = 0
                      /\ d.prog => d.size > MaxPtrmask * PtrSize
                      /\ \A n \in DOMAIN fs : PartRules(d, n, types[fs[n].typ])
    OBVIOUS
  <2>1. ~wrapped /\ ~(StructSize >= AddressSpace)
    BY <1>2, Zenon
  <2>2. d.size = StructSize
    BY <1>1, <1>5, <2>1, WrapFacts, LayoutAssumption
  <2>3. \A n \in DOMAIN fs :
          /\ fs[n].offset + types[fs[n].typ].size <= size
          /\ fs[n].offset % types[fs[n].typ].align = 0
          /\ types[fs[n].typ].size = 0 /\ fs[n].offset = size => lastzero = size
    BY <2>1 DEF LayoutInv, Inv, FieldsApart, Apart, Multiples
  <2>4. d.prog => d.size > MaxPtrmask * PtrSize
    <3> SUFFICES ASSUME HasGCProg  PROVE d.size > MaxPtrmask * PtrSize
      BY <1>1
    <3>1. PICK n \in DOMAIN fs : types[fs[n].typ].prog
      BY DEF HasGCProg, FieldTypes
    <3>2. types[fs[n].typ].size > MaxPtrmask * PtrSize
      BY <1>6, <2>1, <3>1 DEF LayoutInv, Multiples
    <3>3. MaxPtrmask * PtrSize \in Nat
      BY LayoutAssumption, CompilerAssumption
    <3>4. /\ fs[n].offset \in Nat /\ types[fs[n].typ].size \in Nat
          /\ fs[n].offset + types[fs[n].typ].size <= size
      BY <1>6, <1>7, <2>3
    <3> QED  BY <1>3, <1>4, <1>5, <2>2, <3>2, <3>3, <3>4
  <2>5. ASSUME NEW n \in DOMAIN fs  PROVE PartRules(d, n, types[fs[n].typ])
    <3> DEFINE el == types[fs[n].typ]
    <3>1. /\ fs[n].offset \in Nat /\ el.size \in Nat /\ el.align \in Aligns
          /\ fs[n].offset + el.size <= size /\ fs[n].offset % el.align = 0
          /\ el.size = 0 /\ fs[n].offset = size => lastzero = size
          /\ el.align <= typalign
      BY <1>6, <1>7, <2>3 DEF LayoutInv, Alignments
    <3> HIDE DEF el
    <3>2. typalign % el.align = 0
      BY <1>3, <3>1, AlignsFacts
    <3>3. ASSUME StructSize > 0  PROVE fs[n].offset < StructSize
      <4>1. CASE fs[n].offset < size
        BY <1>3, <1>4, <1>5, <3>1, <4>1
      <4>2. CASE fs[n].offset = size /\ size > 0
        <5>1. el.size = 0 /\ lastzero = size
          BY <1>3, <3>1, <4>2
        <5>2. PaddedSize = size + 1
          BY <4>2, <5>1 DEF PaddedSize
        <5> QED  BY <1>3, <1>5, <4>2, <5>2
      <4>3. CASE size = 0
        <5>1. PaddedSize = 0
          BY <4>3 DEF PaddedSize
        <5>2. StructSize = 0
          <6>1. 0 % typalign = 0
            BY <1>3
          <6> QED  BY <1>3, <5>1, <6>1, AlignAligned DEF StructSize
        <5> QED  BY <3>3, <5>2
      <4> QED  BY <1>3, <3>1, <4>1, <4>2, <4>3
    <3> QED  BY <1>1, <2>2, <3>1, <3>2, <3>3 DEF PartRules, el
  <2> QED  BY <1>1, <1>5, <2>2, <2>4, <2>5
<1>9. ASSUME d.direct
      PROVE  /\ d.size = PtrSize
             /\ DOMAIN fs = {1} /\ fs[1].offset = 0 /\ types[fs[1].typ].direct
  <2>1. Len(fs) = 1 /\ types[fs[1].typ].direct
    BY <1>1, <1>9
  <2>2. /\ fs[1].offset = 0 /\ size = PtrSize /\ lastzero = 0
    BY <2>1 DEF LayoutInv, DirectParts
  <2>3. DOMAIN fs = {1}
    <3>1. DOMAIN fs = 1..Len(fs)
      BY DEF LayoutInv, Inv, TypeOK
    <3> QED  BY <2>1, <3>1
  <2>4. /\ PtrSize \in Nat \ {0} /\ PtrSize < AddressSpace
        /\ PtrSize % typalign = 0
    BY <1>3, LayoutAssumption, CompilerAssumption, AlignsFacts
  <2>5. PaddedSize = PtrSize
    BY <2>2, <2>4 DEF PaddedSize
  <2>6. StructSize = PtrSize
    BY <1>3, <2>4, <2>5, AlignAligned DEF StructSize
  <2>7. d.size = PtrSize
    BY <1>1, <2>4, <2>6, WrapFacts
  <2> QED  BY <2>1, <2>2, <2>3, <2>7
<1>10. Inv'
  BY FinishStructInv DEF LayoutInv
<1>11. d.align \in Aligns /\ (wrapped => wrapped')
  BY <1>1, <1>2, <1>3
<1> QED  BY <1>1, <1>2, <1>6, <1>8, <1>9, <1>10, <1>11, MakeLayout

LEMMA ArrayLayout ==
  ASSUME LayoutInv, NEW t \in Usable, NEW count \in Counts, ArrayOf(count, t)
  PROVE  LayoutInv'
<1> DEFINE d == ArrayDescriptor(count, t)
<1>1. /\ t \in DOMAIN types /\ types[t].size \in Nat /\ types[t].align \in Nat \ {0}
      /\ types[t].align \in Aligns /\ count \in Nat
  BY LayoutAssumption DEF LayoutInv, Inv, TypeOK, Usable, Alignments
<1>2. /\ d.size = types[t].size * count /\ d.align = types[t].align /\ d.kind = "array"
      /\ d.parts = [k \in 1..count |-> [typ |-> t, offset |-> (k - 1) * types[t].size]]
      /\ d.direct = (count = 1 /\ types[t].direct)
      /\ d.prog = ArrayMap(count, t).prog
  BY DEF ArrayDescriptor, ArrayDirect
<1> HIDE DEF d
<1>3. /\ types' = Append(types, d) /\ wrapped' = wrapped
      /\ fs' = fs /\ size' = size /\ typalign' = typalign /\ lastzero' = lastzero
  BY DEF ArrayOf, d
<1>4. /\ DOMAIN d.parts = 1..count
      /\ \A n \in 1..count : /\ d.parts[n].typ = t
                             /\ d.parts[n].offset = (n - 1) * types[t].size
  BY <1>2
<1>5. ASSUME ~wrapped
      PROVE  /\ d.size % d.align = 0
             /\ d.prog => d.size > MaxPtrmask * PtrSize
             /\ \A n \in DOMAIN d.parts : PartRules(d, n, types[d.parts[n].typ])
  <2>1. types[t].size % types[t].align = 0
    BY <1>1, <1>5 DEF LayoutInv, Multiples
  <2>2. d.size % d.align = 0
    <3> DEFINE s == types[t].size
               a == types[t].align
    <3>1. s \in Int /\ count \in Int /\ a \in Nat \ {0} /\ s % a = 0
      BY <1>1, <2>1
    <3> HIDE DEF s, a
    <3>2. (s * count) % a = 0
      BY <3>1, ProductMod
    <3> QED  BY <1>2, <3>2 DEF s, a
  <2>3. ASSUME d.prog  PROVE d.size > MaxPtrmask * PtrSize
    <3> DEFINE M == MaxPtrmask * PtrSize
    <3>1. M \in Nat
      BY LayoutAssumption, CompilerAssumption
    <3>2. \/ types[t].prog /\ count # 0
          \/ types[t].size * count > M
      <4>1. types[t].size * count \in Nat
        BY <1>1
      <4>2. count = 0 => types[t].size * count = 0
        BY <1>1
      <4>3. ArrayMap(count, t).prog
        BY <1>2, <2>3
      <4>4. CASE types[t].ptrdata = 0 \/ types[t].size * count = 0
        <5>1. ArrayMap(count, t)
                = [ptrdata |-> 0, prog |-> FALSE, program |-> <<>>, mask |-> {}, bits |-> 0]
          BY <4>4, Zenon DEF ArrayMap
        <5> QED  BY <4>3, <5>1
      <4>5. CASE types[t].ptrdata # 0 /\ types[t].size * count # 0 /\ ~types[t].prog
        <5>1. CASE count = 1
          <6>1. ~ArrayMap(count, t).prog
            BY <1>1, <4>5, <5>1 DEF ArrayMap
          <6> QED  BY <4>3, <6>1
        <5>2. CASE count > 1 /\ types[t].size * count <= M
          <6>1. ~ArrayMap(count, t).prog
            BY <1>1, <4>5, <5>2 DEF ArrayMap
          <6> QED  BY <4>3, <6>1
        <5>3. count > 0
          BY <1>1, <4>2, <4>5
        <5> HIDE DEF M
        <5> QED  BY <1>1, <3>1, <4>1, <5>1, <5>2, <5>3
      <4> QED  BY <4>2, <4>4, <4>5, Zenon
    <3>3. types[t].prog => types[t].size > M
      BY <1>1, <1>5 DEF LayoutInv, Multiples
    <3>4. count # 0 => types[t].size * count >= types[t].size
      BY <1>1
    <3> HIDE DEF M
    <3>5. d.size > M
      BY <1>1, <1>2, <3>1, <3>2, <3>3, <3>4
    <3> QED  BY <3>5 DEF M
  <2>4. ASSUME NEW n \in DOMAIN d.parts  PROVE PartRules(d, n, types[d.parts[n].typ])
    <3>1. d.parts[n].typ = t /\ d.parts[n].offset = (n - 1) * types[t].size /\ n - 1 \in Int
      BY <1>1, <1>4
    <3>2. ((n - 1) * types[t].size) % types[t].align = 0
      BY <1>1, <2>1, <3>1, ProductMod
    <3>3. types[t].align % types[t].align = 0
      BY <1>1, AlignsFacts
    <3> QED  BY <1>2, <3>1, <3>2, <3>3 DEF PartRules
  <2> QED  BY <2>2, <2>3, <2>4
<1>6. ASSUME d.direct
      PROVE  /\ d.size = PtrSize
             /\ DOMAIN d.parts = {1} /\ d.parts[1].offset = 0
             /\ types[d.parts[1].typ].direct
  <2>1. count = 1 /\ types[t].direct
    BY <1>2, <1>6
  <2>2. types[t].size = PtrSize
    BY <1>1, <2>1 DEF LayoutInv, DirectParts
  <2>3. d.size = PtrSize
    BY <1>1, <1>2, <2>1, <2>2
  <2>4. DOMAIN d.parts = {1} /\ d.parts[1].typ = t /\ d.parts[1].offset = 0
    BY <1>1, <1>4, <2>1
  <2> QED  BY <2>1, <2>3, <2>4
<1>7. Inv'
  BY ArrayInv DEF LayoutInv
<1>8. d.align \in Aligns /\ \A n \in DOMAIN d.parts : d.parts[n].typ \in DOMAIN types
  BY <1>1, <1>2, <1>4
<1> QED  BY <1>3, <1>5, <1>6, <1>7, <1>8, MakeLayout

LEMMA BucketLayout ==
  ASSUME LayoutInv, NEW key \in Usable, NEW elem \in Usable, MapOf(key, elem)
  PROVE  LayoutInv'
<1> DEFINE k == KeyType(key)
           e == ValType(elem)
           d == BucketDescriptor(k, e)
           ks == types[k].size
           es == types[e].size
           Fits(p) == p.offset % types[p.typ].align = 0
           S == {p \in [typ : DOMAIN types, offset : Int] : ~wrapped => Fits(p)}
           Keys == [n \in 1..BucketSize |->
                      [typ |-> k, offset |-> BucketSize + (n - 1) * ks]]
           Vals == [n \in 1..BucketSize |->
                      [typ |-> e, offset |-> BucketSize * (1 + ks) + (n - 1) * es]]
           Link == [typ |-> Pointer, offset |-> BucketSize * (1 + ks + es)]
<1>1. Pointer \in DOMAIN types
  <2>1. /\ DOMAIN types = 1..Len(types) /\ DOMAIN BasicTypes = 1..Len(BasicTypes)
        /\ Len(types) \in Nat /\ Len(BasicTypes) \in Nat
        /\ Len(types) >= Len(BasicTypes)
    BY LayoutAssumption DEF LayoutInv, Inv, TypeOK
  <2> QED  BY <2>1, LayoutAssumption
<1>2. k \in DOMAIN types /\ e \in DOMAIN types
  BY <1>1 DEF KeyType, ValType, Usable
<1>3. ks \in Nat /\ es \in Nat /\ BucketSize \in Nat /\ PtrSize \in Nat \ {0}
  BY <1>2, LayoutAssumption, BucketAssumption DEF LayoutInv, Inv, TypeOK
<1>4. /\ d.size = BucketBytes(k, e) /\ d.align = PtrSize /\ d.kind = "bucket"
      /\ d.prog = FALSE /\ d.direct = FALSE
      /\ d.parts \in {Keys \o Vals \o <<Link>>, Keys \o Vals}
  BY DEF BucketDescriptor
<1>5. /\ types' = Append(types, d) /\ wrapped' = wrapped
      /\ fs' = fs /\ size' = size /\ typalign' = typalign /\ lastzero' = lastzero
  BY DEF MapOf
<1>6. \A t \in DOMAIN types :
        /\ types[t].align \in Nat \ {0} /\ types[t].align \in Aligns
        /\ BucketSize % types[t].align = 0 /\ PtrSize % types[t].align = 0
  BY AlignsFacts DEF LayoutInv, Inv, TypeOK, Alignments
<1>7. ~wrapped => ks % types[k].align = 0 /\ es % types[e].align = 0
  BY <1>2 DEF LayoutInv, Multiples
<1> HIDE DEF d, k, e
<1>8. ASSUME NEW t \in DOMAIN types, NEW x \in Int
      PROVE  (BucketSize * x) % types[t].align = 0
  <2> DEFINE a == types[t].align
  <2>1. a \in Nat \ {0} /\ BucketSize % a = 0 /\ BucketSize \in Int
    BY <1>3, <1>6
  <2> HIDE DEF a
  <2>2. (BucketSize * x) % a = 0
    BY <2>1, ProductMod
  <2> QED  BY <2>2 DEF a
<1> HIDE DEF ks, es
<1>9. d.size % d.align = 0
  <2> DEFINE a == PtrSize
             w == 1 + ks + es
             x == BucketSize * w
             y == x + a
  <2>1. w \in Int /\ BucketSize \in Int /\ a \in Nat \ {0} /\ BucketSize % a = 0
    BY <1>3, BucketAssumption
  <2> HIDE DEF w, a
  <2>2. x \in Int /\ x % a = 0
    <3>1. x \in Int
      BY <2>1
    <3>2. x % a = 0
      BY <2>1, ProductMod
    <3> QED  BY <3>1, <3>2
  <2> HIDE DEF x
  <2>3. a % a = 0 /\ y \in Int /\ y = x + a /\ a \in Int
    BY <2>1, <2>2
  <2> HIDE DEF y
  <2>4. y % a = 0
    BY <2>1, <2>2, <2>3, SumMod, ZenonT(60)
  <2> QED  BY <1>4, <2>4 DEF BucketBytes, w, x, y, a, ks, es
<1>10. Keys \in Seq(S) /\ Vals \in Seq(S) /\ Link \in S
  <2>1. ASSUME NEW n \in 1..BucketSize
        PROVE  [typ |-> k, offset |-> BucketSize + (n - 1) * ks] \in S
    <3> DEFINE x == (n - 1) * ks
               a == types[k].align
    <3>1. n - 1 \in Int /\ ks \in Int
      BY <1>3
    <3>2. x \in Int /\ a \in Nat \ {0} /\ BucketSize % a = 0 /\ BucketSize \in Int
      BY <1>2, <1>3, <1>6, <3>1
    <3>3. ~wrapped => x % a = 0
      <4> HIDE DEF a
      <4>1. ~wrapped => ks % a = 0
        BY <1>7 DEF a
      <4> QED  BY <3>1, <3>2, <4>1, ProductMod
    <3> HIDE DEF x, a
    <3> DEFINE z == BucketSize + x
    <3>4. z \in Int /\ z = BucketSize + x
      BY <3>2
    <3> HIDE DEF z
    <3>5. ~wrapped => z % a = 0
      BY <3>2, <3>3, <3>4, SumMod
    <3> QED  BY <1>2, <3>4, <3>5, ZenonT(60) DEF x, a, z
  <2>2. ASSUME NEW n \in 1..BucketSize
        PROVE  [typ |-> e, offset |-> BucketSize * (1 + ks) + (n - 1) * es] \in S
    <3> DEFINE x == (n - 1) * es
               y == BucketSize * (1 + ks)
               a == types[e].align
    <3>1. n - 1 \in Int /\ es \in Int /\ 1 + ks \in Int
      BY <1>3
    <3>2. x \in Int /\ y \in Int /\ a \in Nat \ {0} /\ y % a = 0
      <4>1. x \in Int /\ y \in Int
        BY <1>3, <3>1
      <4>2. y % a = 0
        BY <1>2, <1>8, <3>1
      <4> QED  BY <1>2, <1>6, <4>1, <4>2
    <3>3. ~wrapped => x % a = 0
      <4> HIDE DEF a
      <4>1. ~wrapped => es % a = 0
        BY <1>7 DEF a
      <4> QED  BY <3>1, <3>2, <4>1, ProductMod
    <3> HIDE DEF x, y, a
    <3> DEFINE z == y + x
    <3>4. z \in Int /\ z = y + x
      BY <3>2
    <3> HIDE DEF z
    <3>5. ~wrapped => z % a = 0
      BY <3>2, <3>3, <3>4, SumMod
    <3> QED  BY <1>2, <3>4, <3>5, ZenonT(60) DEF x, y, z, a
  <2>3. Link \in S
    <3>1. 1 + ks + es \in Int
      BY <1>3
    <3>2. BucketSize * (1 + ks + es) \in Int
      BY <1>3, <3>1
    <3> QED  BY <1>1, <1>8, <3>1, <3>2
  <2> HIDE DEF S
  <2>4. Keys \in [1..BucketSize -> S] /\ Vals \in [1..BucketSize -> S]
    BY <2>1, <2>2
  <2> HIDE DEF Keys, Vals
  <2> QED  BY <1>3, <2>3, <2>4, SeqOfFunction
<1> HIDE DEF S, Keys, Vals, Link
<1>11. \A n \in DOMAIN d.parts : d.parts[n] \in S
  <2> DEFINE kv == Keys \o Vals
  <2>1. kv \in Seq(S) /\ <<Link>> \in Seq(S)
    BY <1>10
  <2> HIDE DEF kv
  <2>2. kv \o <<Link>> \in Seq(S)
    BY <2>1
  <2>3. d.parts \in Seq(S)
    BY <1>4, <2>1, <2>2 DEF kv
  <2> QED  BY <2>3, SeqElements
<1>12. \A n \in DOMAIN d.parts : d.parts[n].typ \in DOMAIN types
  BY <1>11 DEF S
<1>13. ASSUME ~wrapped, NEW n \in DOMAIN d.parts
       PROVE  PartRules(d, n, types[d.parts[n].typ])
  <2>1. d.parts[n].offset % types[d.parts[n].typ].align = 0
    BY <1>11, <1>13 DEF S
  <2> QED  BY <1>4, <1>6, <1>12, <2>1 DEF PartRules
<1>14. Inv' /\ d.align \in Aligns
  BY <1>4, BucketInv, AlignsFacts DEF LayoutInv
<1> QED  BY <1>4, <1>5, <1>9, <1>12, <1>13, <1>14, MakeLayout

LEMMA StepLayout ==
  ASSUME LayoutInv, [Next]_vars
  PROVE  LayoutInv'
<1>1. CASE UNCHANGED vars
  <2>1. UNCHANGED <<types, fs, size, typalign, lastzero, making, wrapped>>
    BY <1>1 DEF vars
  <2>2. Inv'
    BY <1>1, StepInv DEF LayoutInv
  <2> QED  BY <2>1, <2>2 DEF LayoutInv, Linked, Alignments, Aligns, Multiples, DirectParts,
                             StructRules, MadeTypes
<1> QED  BY <1>1, StartStructLayout, FinishStructLayout, AddFieldLayout, ArrayLayout,
            BucketLayout DEF Next

(* What MapOf is given has no program, for types with programs are large.  *)
LEMMA StoredTypes ==
  ASSUME LayoutInv, ~wrapped, NEW t \in Usable
  PROVE  /\ KeyType(t) \in DOMAIN types /\ ~types[KeyType(t)].prog
         /\ ValType(t) \in DOMAIN types /\ ~types[ValType(t)].prog
<1> DEFINE M == MaxPtrmask * PtrSize
<1>1. /\ M \in Nat /\ PtrSize <= M /\ PtrSize \in Nat
      /\ MaxKeySize <= M /\ MaxValSize <= M /\ MaxKeySize \in Nat /\ MaxValSize \in Nat
  BY LayoutAssumption, CompilerAssumption, BucketAssumption
<1>2. \A u \in DOMAIN types : types[u].size \in Nat /\ (types[u].prog => types[u].size > M)
  BY DEF LayoutInv, Inv, TypeOK, Multiples
<1>3. Pointer \in DOMAIN types /\ types[Pointer].size = PtrSize
  BY LayoutAssumption, CompilerAssumption DEF LayoutInv, Linked
<1> HIDE DEF M
<1>4. ~types[Pointer].prog
  BY <1>1, <1>2, <1>3
<1>5. t \in DOMAIN types
  BY DEF Usable
<1>6. CASE types[t].prog
  <2>1. types[t].size > MaxKeySize /\ types[t].size > MaxValSize
    BY <1>1, <1>2, <1>5, <1>6
  <2> QED  BY <1>3, <1>4, <2>1 DEF KeyType, ValType
<1>7. CASE ~types[t].prog
  BY <1>3, <1>4, <1>5, <1>7 DEF KeyType, ValType
<1> QED  BY <1>6, <1>7

(* The words of keys and values add up to the size of the bucket.          *)
LEMMA BucketWords ==
  ASSUME LayoutInv, NEW k \in DOMAIN types, NEW e \in DOMAIN types
  PROVE  (OverflowWord(k, e) + 1) * PtrSize = BucketBytes(k, e)
<1> DEFINE ks == types[k].size
           es == types[e].size
<1>1. /\ ks \in Nat /\ es \in Nat /\ PtrSize \in Nat \ {0} /\ BucketSize \in Nat
      /\ BucketSize % PtrSize = 0
  BY LayoutAssumption, BucketAssumption DEF LayoutInv, Inv, TypeOK
<1>2. PICK q \in Int : BucketSize = PtrSize * q
  BY <1>1, Multiple
<1> HIDE DEF ks, es
<1>3. Words(BucketSize) = q
  BY <1>1, <1>2, MultipleOf DEF Words
<1>4. ASSUME NEW s \in Nat  PROVE Words(BucketSize * s) = q * s
  <2>1. BucketSize * s = PtrSize * (q * s) /\ q * s \in Int
    BY <1>1, <1>2
  <2> QED  BY <1>1, <2>1, MultipleOf DEF Words
<1>5. OverflowWord(k, e) = q + q * ks + q * es
  BY <1>1, <1>3, <1>4 DEF OverflowWord, ValBase, KeyBase, ks, es
<1>6. (q + q * ks + q * es + 1) * PtrSize = BucketSize * (1 + ks + es) + PtrSize
  BY <1>1, <1>2
<1> QED  BY <1>5, <1>6 DEF BucketBytes, ks, es

LEMMA BucketFits ==
  ASSUME LayoutInv
  PROVE  BucketsFit
<1> SUFFICES ASSUME ~wrapped, NEW key \in Usable, NEW elem \in Usable
             PROVE  ~BucketPanics(KeyType(key), ValType(elem))
  BY DEF BucketsFit
<1> DEFINE k == KeyType(key)
           e == ValType(elem)
<1>1. k \in DOMAIN types /\ ~types[k].prog /\ e \in DOMAIN types /\ ~types[e].prog
  BY StoredTypes
<1> HIDE DEF k, e
<1>2. ASSUME NEW t \in DOMAIN types  PROVE BucketBytes(k, e) % types[t].align = 0
  <2> DEFINE a == types[t].align
             w == 1 + types[k].size + types[e].size
             x == BucketSize * w
             y == x + PtrSize
  <2>1. /\ w \in Int /\ BucketSize \in Int /\ PtrSize \in Int
        /\ a \in Nat \ {0} /\ a \in Aligns
    BY <1>1, LayoutAssumption, BucketAssumption, SMTT(60) DEF LayoutInv, Inv, TypeOK, Alignments
  <2>2. BucketSize % a = 0 /\ PtrSize % a = 0
    BY <2>1, AlignsFacts
  <2> HIDE DEF a, w
  <2>3. x \in Int
    BY <2>1
  <2>4. x % a = 0
    BY <2>1, <2>2, ProductMod
  <2> HIDE DEF x
  <2>5. y \in Int /\ y = x + PtrSize
    BY <2>1, <2>3
  <2> HIDE DEF y
  <2>6. y % a = 0
    <3>1. PtrSize % a = 0 /\ PtrSize \in Int /\ a \in Nat \ {0}
      BY <2>1, <2>2
    <3> QED  BY <2>3, <2>4, <2>5, <3>1, SumMod
  <2> QED  BY <2>6 DEF BucketBytes, a, w, x, y
<1>3. (OverflowWord(k, e) + 1) * PtrSize = BucketBytes(k, e)
  BY <1>1, BucketWords
<1>4. ~BucketPanics(k, e)
  BY <1>1, <1>2, <1>3 DEF BucketPanics
<1> QED  BY <1>4 DEF k, e

-----------------------------------------------------------------------------
(* Where pointers are                                                      *)

PartOffsets(f, t, n) == {types[t].parts[n].offset + o : o \in f[types[t].parts[n].typ]}

OffsetsOf(f, t) ==
  IF t <= Len(BasicTypes) THEN {j * PtrSize : j \in types[t].mask}
  ELSE UNION {PartOffsets(f, t, n) : n \in DOMAIN types[t].parts}

LEMMA OffsetsAgree ==
  ASSUME LayoutInv, NEW t \in DOMAIN types, NEW f, NEW g,
         \A u \in 1..(t - 1) : f[u] = g[u]
  PROVE  OffsetsOf(f, t) = OffsetsOf(g, t)
<1>1. \A n \in DOMAIN types[t].parts : types[t].parts[n].typ \in 1..(t - 1)
  BY DEF LayoutInv, Alignments
<1>2. \A n \in DOMAIN types[t].parts : PartOffsets(f, t, n) = PartOffsets(g, t, n)
  BY <1>1 DEF PartOffsets
<1>3. {PartOffsets(f, t, n) : n \in DOMAIN types[t].parts}
        = {PartOffsets(g, t, n) : n \in DOMAIN types[t].parts}
  BY <1>2
<1> QED  BY <1>3, Zenon DEF OffsetsOf

(* The recursion of PtrOffsets is well-founded: types are made of earlier  *)
(* ones.                                                                   *)
LEMMA PtrOffsetsDef ==
  ASSUME LayoutInv
  PROVE  \A t \in DOMAIN types : PtrOffsets[t] = OffsetsOf(PtrOffsets, t)
<1> DEFINE N == Len(types)
           Solves(f, n) == f = [t \in 1..n |-> OffsetsOf(f, t)]
           S == {n \in Nat : n <= N => \E f : Solves(f, n)}
<1>1. N \in Nat /\ DOMAIN types = 1..N
  BY DEF LayoutInv, Inv, TypeOK
<1>2. 0 \in S
  <2> DEFINE f == [t \in 1..0 |-> {}]
  <2>1. Solves(f, 0)
    OBVIOUS
  <2> QED  BY <2>1
<1>3. ASSUME NEW n \in Nat, n \in S  PROVE n + 1 \in S
  <2> SUFFICES ASSUME n + 1 <= N  PROVE \E f : Solves(f, n + 1)
    OBVIOUS
  <2>1. PICK f : Solves(f, n)
    BY <1>1, <1>3
  <2> DEFINE g == [t \in 1..(n + 1) |-> OffsetsOf(f, t)]
  <2>2. \A t \in 1..n : f[t] = g[t]
    <3>1. \A t \in 1..n : f[t] = OffsetsOf(f, t)
      BY <2>1
    <3> QED  BY <3>1
  <2>3. ASSUME NEW t \in 1..(n + 1)  PROVE OffsetsOf(f, t) = OffsetsOf(g, t)
    <3>1. t \in DOMAIN types /\ \A u \in 1..(t - 1) : f[u] = g[u]
      BY <1>1, <2>2
    <3> HIDE DEF g
    <3> QED  BY <3>1, OffsetsAgree
  <2>4. Solves(g, n + 1)
    BY <2>3
  <2> QED  BY <2>4
<1> HIDE DEF S
<1>4. N \in S
  BY <1>1, <1>2, <1>3, Induction
<1>5. PICK f : f = [t \in DOMAIN types |-> OffsetsOf(f, t)]
  BY <1>1, <1>4 DEF S
<1>6. PtrOffsets = [t \in DOMAIN types |-> OffsetsOf(PtrOffsets, t)]
  BY <1>5, Zenon DEF PtrOffsets, OffsetsOf, PartOffsets
<1> QED  BY <1>6

LEMMA DirectPointers ==
  ASSUME LayoutInv
  PROVE  DirectIsPointer
<1> DEFINE N == Len(types)
           S == {n \in Nat : \A t \in 1..n : t <= N /\ types[t].direct => PtrOffsets[t] = {0}}
<1>1. /\ N \in Nat /\ DOMAIN types = 1..N /\ Len(BasicTypes) \in Nat
      /\ DOMAIN BasicTypes = 1..Len(BasicTypes)
  BY LayoutAssumption DEF LayoutInv, Inv, TypeOK
<1>2. 0 \in S
  OBVIOUS
<1>3. ASSUME NEW n \in Nat, n \in S  PROVE n + 1 \in S
  <2> DEFINE t == n + 1
  <2> SUFFICES ASSUME t <= N, types[t].direct  PROVE PtrOffsets[t] = {0}
    BY <1>3
  <2>1. t \in DOMAIN types /\ PtrOffsets[t] = OffsetsOf(PtrOffsets, t)
    BY <1>1, PtrOffsetsDef
  <2>2. CASE t <= Len(BasicTypes)
    <3>1. types[t] = BasicTypes[t] /\ BasicTypes[t].mask = {0}
      BY <1>1, <2>2, CompilerAssumption DEF LayoutInv, Linked
    <3> QED  BY <2>1, <2>2, <3>1, LayoutAssumption DEF OffsetsOf
  <2>3. CASE ~(t <= Len(BasicTypes))
    <3> DEFINE u == types[t].parts[1].typ
    <3>1. /\ DOMAIN types[t].parts = {1} /\ types[t].parts[1].offset = 0
          /\ types[u].direct
      BY <1>1, <2>1, <2>3 DEF LayoutInv, DirectParts, MadeTypes
    <3>2. u \in 1..n
      BY <2>1, <3>1 DEF LayoutInv, Alignments
    <3>3. PtrOffsets[u] = {0}
      BY <1>1, <1>3, <3>1, <3>2
    <3>4. PartOffsets(PtrOffsets, t, 1) = {0}
      BY <3>1, <3>3 DEF PartOffsets
    <3>5. OffsetsOf(PtrOffsets, t) = UNION {PartOffsets(PtrOffsets, t, k) : k \in {1}}
      BY <2>3, <3>1 DEF OffsetsOf
    <3> QED  BY <2>1, <3>4, <3>5
  <2> QED  BY <2>2, <2>3
<1> HIDE DEF S
<1>4. \A n \in Nat : n \in S
  BY <1>2, <1>3, Induction
<1>5. ASSUME NEW t \in MadeTypes, types[t].direct
      PROVE  types[t].size = PtrSize /\ PtrOffsets[t] = {0}
  <2>1. t \in 1..N
    BY <1>1 DEF MadeTypes
  <2>2. types[t].size = PtrSize
    BY <1>1, <1>5, <2>1 DEF LayoutInv, DirectParts
  <2> QED  BY <1>1, <1>4, <1>5, <2>1, <2>2 DEF S
<1> QED  BY <1>5 DEF DirectIsPointer

(* Whatever types are made from whatever types: sizes are multiples of     *)
(* alignments, every part is at a multiple of its own, and no field of a   *)
(* struct, be it of size zero, is at the address of the next object.       *)
THEOREM Rules == Spec => []StructRules
<1>1. LayoutInv => StructRules
  BY DEF LayoutInv
<1> QED  BY <1>1, InitLayout, StepLayout, PTL DEF Spec

(* A type that interfaces hold without a box is one word with a pointer.   *)
THEOREM DirectTypes == Spec => []DirectIsPointer
<1>1. LayoutInv => DirectIsPointer
  BY DirectPointers
<1> QED  BY <1>1, InitLayout, StepLayout, PTL DEF Spec

(* MapOf does not panic about the size of a bucket, nor meet a program in  *)
(* a key or a value, whatever types it is given.                           *)
THEOREM Buckets == Spec => []BucketsFit
<1>1. LayoutInv => BucketsFit
  BY BucketFits
<1> QED  BY <1>1, InitLayout, StepLayout, PTL DEF Spec

-----------------------------------------------------------------------------
(* Sequences                                                               *)

LEMMA SeqEqual ==
  ASSUME NEW S, NEW a \in Seq(S), NEW b \in Seq(S), Len(a) = Len(b),
         \A k \in 1..Len(a) : a[k] = b[k]
  PROVE  a = b
OBVIOUS

LEMMA ConcatFacts ==
  ASSUME NEW S, NEW a \in Seq(S), NEW b \in Seq(S)
  PROVE  /\ a \o b \in Seq(S) /\ Len(a \o b) = Len(a) + Len(b)
         /\ Len(a) \in Nat /\ Len(b) \in Nat
         /\ DOMAIN (a \o b) = 1..(Len(a) + Len(b))
         /\ \A k \in 1..Len(a) : (a \o b)[k] = a[k]
         /\ \A k \in 1..Len(b) : (a \o b)[Len(a) + k] = b[k]
OBVIOUS

LEMMA ConcatAssoc ==
  ASSUME NEW S, NEW a \in Seq(S), NEW b \in Seq(S), NEW c \in Seq(S)
  PROVE  (a \o b) \o c = a \o (b \o c)
<1> DEFINE l == (a \o b) \o c
           r == a \o (b \o c)
<1>1. /\ a \o b \in Seq(S) /\ Len(a \o b) = Len(a) + Len(b) /\ b \o c \in Seq(S)
      /\ Len(b \o c) = Len(b) + Len(c) /\ Len(a) \in Nat /\ Len(b) \in Nat /\ Len(c) \in Nat
  BY ConcatFacts
<1>2. /\ l \in Seq(S) /\ r \in Seq(S) /\ Len(l) = Len(a) + Len(b) + Len(c)
      /\ Len(r) = Len(a) + Len(b) + Len(c)
  BY <1>1, ConcatFacts
<1>3. ASSUME NEW k \in 1..Len(l)  PROVE l[k] = r[k]
  <2>1. CASE k \in 1..Len(a)
    BY <1>1, <1>2, <2>1
  <2>2. CASE k \in (Len(a) + 1)..(Len(a) + Len(b))
    BY <1>1, <1>2, <2>2
  <2>3. CASE k \in (Len(a) + Len(b) + 1)..Len(l)
    BY <1>1, <1>2, <2>3
  <2> QED  BY <1>1, <1>2, <2>1, <2>2, <2>3
<1> HIDE DEF l, r
<1>4. l = r
  BY <1>2, <1>3, SeqEqual
<1> QED  BY <1>4 DEF l, r

LEMMA MapSeq ==
  ASSUME NEW S, NEW n \in Nat, NEW f, \A k \in 1..n : f[k] \in S, f = [k \in 1..n |-> f[k]]
  PROVE  f \in Seq(S) /\ Len(f) = n
<1>1. f \in [1..n -> S]
  OBVIOUS
<1> QED  BY <1>1

(* A list of something.                                                    *)
IsList(p) == p \in Seq(Range(p))

LEMMA ListIn ==
  ASSUME NEW S, NEW p \in Seq(S)
  PROVE  IsList(p)
<1>1. \A k \in 1..Len(p) : p[k] \in Range(p)
  BY DEF Range
<1> QED  BY <1>1 DEF IsList

LEMMA ListFacts ==
  ASSUME NEW p, IsList(p)
  PROVE  /\ Len(p) \in Nat /\ DOMAIN p = 1..Len(p) /\ p = [k \in 1..Len(p) |-> p[k]]
BY DEF IsList

LEMMA ListConcat ==
  ASSUME NEW p, IsList(p), NEW q, IsList(q)
  PROVE  /\ IsList(p \o q) /\ Len(p \o q) = Len(p) + Len(q)
         /\ \A k \in 1..Len(p) : (p \o q)[k] = p[k]
         /\ \A k \in 1..Len(q) : (p \o q)[Len(p) + k] = q[k]
<1> DEFINE S == Range(p) \cup Range(q)
<1>1. p \in Seq(S) /\ q \in Seq(S)
  <2>1. Range(p) \subseteq S /\ Range(q) \subseteq S
    OBVIOUS
  <2> HIDE DEF S
  <2> QED  BY <2>1, SeqMonotone DEF IsList
<1> HIDE DEF S
<1>2. /\ p \o q \in Seq(S) /\ Len(p \o q) = Len(p) + Len(q)
      /\ \A k \in 1..Len(p) : (p \o q)[k] = p[k]
      /\ \A k \in 1..Len(q) : (p \o q)[Len(p) + k] = q[k]
  BY <1>1, ConcatFacts
<1>3. IsList(p \o q)
  BY <1>2, ListIn
<1> QED  BY <1>2, <1>3

-----------------------------------------------------------------------------
(* Bits                                                                    *)

Bits == {0, 1}

(* n bits, of which those of M are set.                                    *)
BitsOf(M, n) == [k \in 1..n |-> IF k - 1 \in M THEN 1 ELSE 0]

LEMMA BitsOfFacts ==
  ASSUME NEW M, NEW n \in Nat
  PROVE  /\ BitsOf(M, n) \in Seq(Bits) /\ Len(BitsOf(M, n)) = n
         /\ \A k \in 1..n : BitsOf(M, n)[k] = IF k - 1 \in M THEN 1 ELSE 0
         /\ M \subseteq 0..(n - 1) => Ones(BitsOf(M, n)) = M
<1> DEFINE w == BitsOf(M, n)
<1>1. \A k \in 1..n : w[k] = IF k - 1 \in M THEN 1 ELSE 0
  BY DEF BitsOf
<1>2. w = [k \in 1..n |-> w[k]] /\ \A k \in 1..n : w[k] \in Bits
  BY DEF BitsOf, Bits
<1> HIDE DEF w
<1>3. w \in Seq(Bits) /\ Len(w) = n
  BY <1>2, MapSeq
<1>4. ASSUME M \subseteq 0..(n - 1)  PROVE Ones(w) = M
  <2>1. \A j \in 0..(n - 1) : j + 1 \in 1..n /\ (j + 1) - 1 = j
    OBVIOUS
  <2>2. \A j \in 0..(n - 1) : w[j + 1] = 1 <=> j \in M
    BY <1>1, <2>1
  <2> QED  BY <1>3, <1>4, <2>2 DEF Ones
<1> QED  BY <1>1, <1>3, <1>4 DEF w

LEMMA BitsOfOnes ==
  ASSUME NEW w \in Seq(Bits)
  PROVE  BitsOf(Ones(w), Len(w)) = w /\ Ones(w) \subseteq 0..(Len(w) - 1)
<1> DEFINE n == Len(w)
           v == BitsOf(Ones(w), n)
<1>1. n \in Nat /\ \A k \in 1..n : w[k] \in Bits
  OBVIOUS
<1>2. v \in Seq(Bits) /\ Len(v) = n /\ \A k \in 1..n : v[k] = IF k - 1 \in Ones(w) THEN 1 ELSE 0
  BY <1>1, BitsOfFacts
<1>3. ASSUME NEW k \in 1..n  PROVE v[k] = w[k]
  <2>1. k - 1 \in 0..(n - 1) /\ (k - 1) + 1 = k
    BY <1>1
  <2>2. k - 1 \in Ones(w) <=> w[k] = 1
    BY <2>1 DEF Ones
  <2> QED  BY <1>1, <1>2, <2>2 DEF Bits
<1> HIDE DEF v
<1>4. v = w
  BY <1>2, <1>3, SeqEqual
<1> QED  BY <1>4 DEF v, Ones

(* More bits of the same map.                                              *)
LEMMA BitsMore ==
  ASSUME NEW M, NEW a \in Nat, NEW s \in Seq(Bits),
         \A k \in 1..Len(s) : s[k] = IF a + k - 1 \in M THEN 1 ELSE 0
  PROVE  BitsOf(M, a) \o s = BitsOf(M, a + Len(s))
<1> DEFINE u == BitsOf(M, a)
           d == Len(s)
           v == BitsOf(M, a + d)
           c == u \o s
<1>0. s \in Seq(Bits)
  OBVIOUS
<1>1. d \in Nat /\ a + d \in Nat
  OBVIOUS
<1>2. u \in Seq(Bits) /\ Len(u) = a /\ \A k \in 1..a : u[k] = IF k - 1 \in M THEN 1 ELSE 0
  BY BitsOfFacts
<1> HIDE DEF u
<1>3. /\ v \in Seq(Bits) /\ Len(v) = a + d
      /\ \A k \in 1..(a + d) : v[k] = IF k - 1 \in M THEN 1 ELSE 0
  <2> HIDE DEF d
  <2> QED  BY <1>1, BitsOfFacts
<1>4. /\ c \in Seq(Bits) /\ Len(c) = a + d
      /\ \A k \in 1..a : c[k] = u[k]
      /\ \A k \in 1..d : c[a + k] = s[k]
  <2>0. u \in Seq(Bits)
    BY <1>2
  <2>1. /\ c \in Seq(Bits) /\ Len(c) = Len(u) + Len(s)
        /\ \A k \in 1..Len(u) : c[k] = u[k]
        /\ \A k \in 1..Len(s) : c[Len(u) + k] = s[k]
    BY ONLY <1>0, <2>0, ConcatFacts
  <2> HIDE DEF c
  <2> QED  BY <1>2, <2>1
<1>5. \A k \in 1..d : s[k] = IF a + k - 1 \in M THEN 1 ELSE 0
  OBVIOUS
<1> HIDE DEF c, v, d
<1>6. ASSUME NEW k \in 1..(a + d)  PROVE c[k] = v[k]
  <2>1. CASE k <= a
    <3>1. k \in 1..a
      BY <1>1, <2>1
    <3> QED  BY <1>2, <1>3, <1>4, <3>1
  <2>2. CASE k > a
    <3>1. PICK i \in 1..d : k = a + i
      <4>1. k - a \in 1..d /\ k = a + (k - a)
        BY <1>1, <2>2
      <4> QED  BY <4>1
    <3>2. a + i - 1 = k - 1
      BY <3>1
    <3> QED  BY ONLY <1>3, <1>4, <1>5, <3>1, <3>2, k \in 1..(a + d)
  <2> QED  BY <1>1, <2>1, <2>2
<1>7. c = v
  BY <1>3, <1>4, <1>6, SeqEqual
<1> QED  BY <1>7 DEF c, u, v, d

(* The words of M, n words further on.                                     *)
Shift(M, n) == {n + j : j \in M}

LEMMA ShiftFacts ==
  ASSUME NEW M, NEW n \in Nat, NEW m \in Nat, M \subseteq 0..(m - 1)
  PROVE  /\ Shift(M, n) \subseteq n..(n + m - 1)
         /\ \A k \in Int : n + k \in Shift(M, n) <=> k \in M
<1>1. \A j \in M : n + j \in n..(n + m - 1)
  OBVIOUS
<1>2. ASSUME NEW k \in Int, n + k \in Shift(M, n)  PROVE k \in M
  <2>1. PICK j \in M : n + j = n + k
    BY <1>2 DEF Shift
  <2>2. j = k
    BY <2>1
  <2> QED  BY <2>2
<1> QED  BY <1>1, <1>2 DEF Shift

Joined(M, N, n) == M \cup Shift(N, n)

LEMMA BitsJoin ==
  ASSUME NEW M, NEW n \in Nat, NEW N, NEW m \in Nat, M \subseteq 0..(n - 1), N \subseteq 0..(m - 1)
  PROVE  BitsOf(M, n) \o BitsOf(N, m) = BitsOf(Joined(M, N, n), n + m)
<1> DEFINE P == Joined(M, N, n)
           s == BitsOf(N, m)
<1>1. Shift(N, n) \subseteq n..(n + m - 1) /\ \A k \in Int : n + k \in Shift(N, n) <=> k \in N
  BY ShiftFacts
<1>2. ASSUME NEW k \in 1..m  PROVE n + k - 1 \in P <=> k - 1 \in N
  <2>1. n + k - 1 \notin M /\ n + k - 1 = n + (k - 1) /\ k - 1 \in Int
    OBVIOUS
  <2> QED  BY <1>1, <2>1 DEF Joined
<1>3. ASSUME NEW k \in 1..n  PROVE k - 1 \in P <=> k - 1 \in M
  <2>1. k - 1 \notin n..(n + m - 1)
    OBVIOUS
  <2> QED  BY <1>1, <2>1 DEF Joined
<1>4. s \in Seq(Bits) /\ Len(s) = m /\ \A k \in 1..m : s[k] = IF k - 1 \in N THEN 1 ELSE 0
  BY BitsOfFacts
<1> HIDE DEF s, P
<1>5. BitsOf(M, n) = BitsOf(P, n)
  BY <1>3 DEF BitsOf
<1>6. \A k \in 1..Len(s) : s[k] = IF n + k - 1 \in P THEN 1 ELSE 0
  BY <1>2, <1>4
<1>7. BitsOf(P, n) \o s = BitsOf(P, n + Len(s))
  BY <1>4, <1>6, BitsMore
<1> QED  BY <1>4, <1>5, <1>7 DEF s, P

-----------------------------------------------------------------------------
(* Programs                                                                *)

(* The recursion of RunFrom.                                               *)
Runs(f, b, p) == f[0] = b /\ \A n \in 1..Len(p) : f[n] = RunStep(f[n - 1], p[n])

LEMMA RunDef ==
  ASSUME NEW p, Len(p) \in Nat, NEW b
  PROVE  \E f : Runs(f, b, p) /\ RunFrom(b, p) = f[Len(p)]
<1> DEFINE N == Len(p)
           Body(f, n) == IF n = 0 THEN b ELSE RunStep(f[n - 1], p[n])
           Solves(f, k) == f = [n \in 0..k |-> Body(f, n)]
           S == {k \in Nat : k <= N => \E f : Solves(f, k)}
<1>1. N \in Nat
  OBVIOUS
<1>2. 0 \in S
  <2> DEFINE f == [n \in 0..0 |-> b]
  <2>1. Solves(f, 0)
    OBVIOUS
  <2> QED  BY <2>1
<1>3. ASSUME NEW k \in Nat, k \in S  PROVE k + 1 \in S
  <2> SUFFICES ASSUME k + 1 <= N  PROVE \E f : Solves(f, k + 1)
    OBVIOUS
  <2>1. PICK f : Solves(f, k)
    BY <1>1, <1>3
  <2> DEFINE g == [n \in 0..(k + 1) |-> Body(f, n)]
  <2>2. ASSUME NEW n \in 0..k  PROVE f[n] = g[n]
    <3>1. f[n] = Body(f, n)
      BY <2>1
    <3> HIDE DEF Body
    <3> QED  BY <3>1
  <2>3. ASSUME NEW n \in 0..(k + 1)  PROVE Body(f, n) = Body(g, n)
    <3>1. CASE n = 0
      BY <3>1
    <3>2. CASE n # 0
      <4>1. n - 1 \in 0..k
        BY <3>2
      <4>2. f[n - 1] = g[n - 1]
        BY <2>2, <4>1
      <4> HIDE DEF g
      <4> QED  BY <3>2, <4>2
    <3> QED  BY <3>1, <3>2
  <2> HIDE DEF Body
  <2>4. Solves(g, k + 1)
    BY <2>3
  <2> QED  BY <2>4
<1> HIDE DEF S
<1>4. N \in S
  BY <1>1, <1>2, <1>3, Induction
<1> DEFINE f == CHOOSE f : Solves(f, N)
<1>5. Solves(f, N)
  BY <1>1, <1>4 DEF S
<1>6. RunFrom(b, p) = f[N]
  BY DEF RunFrom
<1> HIDE DEF f
<1>7. f[0] = b
  BY <1>1, <1>5
<1>8. ASSUME NEW n \in 1..N  PROVE f[n] = RunStep(f[n - 1], p[n])
  <2>1. n \in 0..N /\ n # 0
    BY <1>1
  <2>2. f[n] = Body(f, n)
    <3> HIDE DEF Body
    <3> QED  BY <1>5, <2>1
  <2> QED  BY <2>1, <2>2
<1> QED  BY <1>6, <1>7, <1>8 DEF Runs

(* Runs of programs that begin alike.                                      *)
LEMMA RunSame ==
  ASSUME NEW p, NEW q, NEW N \in Nat, N <= Len(p), N <= Len(q), Len(p) \in Nat, Len(q) \in Nat,
         \A n \in 1..N : p[n] = q[n],
         NEW b, NEW f, Runs(f, b, p), NEW g, Runs(g, b, q)
  PROVE  \A n \in 0..N : f[n] = g[n]
<1> DEFINE S == {k \in Nat : k <= N => f[k] = g[k]}
<1>1. 0 \in S
  BY DEF Runs
<1>2. ASSUME NEW k \in Nat, k \in S  PROVE k + 1 \in S
  <2> SUFFICES ASSUME k + 1 <= N  PROVE f[k + 1] = g[k + 1]
    OBVIOUS
  <2> DEFINE n == k + 1
  <2>1. n \in 1..N /\ n \in 1..Len(p) /\ n \in 1..Len(q) /\ n - 1 = k
    OBVIOUS
  <2>2. f[k] = g[k]
    BY <1>2
  <2> HIDE DEF n
  <2>3. f[n] = g[n]
    BY <2>1, <2>2 DEF Runs
  <2> QED  BY <2>3 DEF n
<1> HIDE DEF S
<1>3. \A k \in Nat : k \in S
  BY <1>1, <1>2, Induction
<1> QED  BY <1>3 DEF S

LEMMA RunIs ==
  ASSUME NEW p, Len(p) \in Nat, NEW b, NEW f, Runs(f, b, p)
  PROVE  RunFrom(b, p) = f[Len(p)]
<1> DEFINE N == Len(p)
<1>1. PICK g : Runs(g, b, p) /\ RunFrom(b, p) = g[N]
  BY RunDef
<1>2. N \in Nat /\ N <= N /\ N \in 0..N
  OBVIOUS
<1> HIDE DEF N
<1>3. \A n \in 1..N : p[n] = p[n]
  OBVIOUS
<1>4. \A n \in 0..N : f[n] = g[n]
  BY <1>1, <1>2, <1>3, RunSame DEF N
<1> QED  BY <1>1, <1>2, <1>4 DEF N

(* One program after the other.                                            *)
LEMMA RunConcat ==
  ASSUME NEW p, IsList(p), NEW q, IsList(q), NEW b
  PROVE  RunFrom(b, p \o q) = RunFrom(RunFrom(b, p), q)
<1> DEFINE P == Len(p)
           Q == Len(q)
           r == p \o q
<1>1. /\ P \in Nat /\ Q \in Nat /\ Len(r) = P + Q
      /\ \A n \in 1..P : r[n] = p[n]
      /\ \A n \in 1..Q : r[P + n] = q[n]
  <2>1. P \in Nat /\ Q \in Nat
    BY ListFacts
  <2> QED  BY <2>1, ListConcat
<1> HIDE DEF r
<1>2. PICK f : Runs(f, b, r) /\ RunFrom(b, r) = f[P + Q]
  <2>1. Len(r) \in Nat
    BY <1>1
  <2> QED  BY <1>1, <2>1, RunDef
<1>3. PICK g : Runs(g, b, p) /\ RunFrom(b, p) = g[P]
  BY <1>1, RunDef
<1>4. f[P] = g[P]
  <2>1. P <= Len(r) /\ P <= Len(p) /\ Len(p) \in Nat /\ Len(r) \in Nat /\ P \in 0..P
    BY <1>1
  <2> HIDE DEF P
  <2>2. P \in Nat
    BY <1>1
  <2>3. \A n \in 0..P : f[n] = g[n]
    <3>1. \A n \in 1..P : r[n] = p[n]
      BY <1>1
    <3>2. Runs(f, b, r) /\ Runs(g, b, p)
      BY <1>2, <1>3
    <3> QED  BY ONLY <2>1, <2>2, <3>1, <3>2, RunSame
  <2> QED  BY <2>1, <2>3
<1> DEFINE h == [n \in 0..Q |-> f[P + n]]
<1>5. Runs(h, g[P], q)
  <2> HIDE DEF P, Q
  <2>1. h[0] = g[P]
    BY <1>1, <1>4
  <2>2. ASSUME NEW n \in 1..Q  PROVE h[n] = RunStep(h[n - 1], q[n])
    <3>1. /\ n \in 0..Q /\ n - 1 \in 0..Q /\ P + n \in 1..Len(r)
          /\ P + (n - 1) = (P + n) - 1
      BY <1>1
    <3>2. h[n] = f[P + n] /\ h[n - 1] = f[(P + n) - 1]
      BY <3>1
    <3>3. f[P + n] = RunStep(f[(P + n) - 1], r[P + n])
      BY <1>2, <3>1 DEF Runs
    <3> QED  BY <1>1, <3>2, <3>3
  <2> QED  BY <2>1, <2>2 DEF Runs, Q
<1>6. h[Q] = f[P + Q]
  BY <1>1
<1> HIDE DEF h
<1>7. RunFrom(g[P], q) = h[Q]
  BY <1>1, <1>5, RunIs
<1> QED  BY <1>2, <1>3, <1>6, <1>7 DEF r

LEMMA RunOne ==
  ASSUME NEW b, NEW ins
  PROVE  RunFrom(b, <<ins>>) = RunStep(b, ins) /\ RunFrom(b, <<>>) = b
<1>1. PICK f : Runs(f, b, <<ins>>) /\ RunFrom(b, <<ins>>) = f[1]
  <2> DEFINE p == <<ins>>
  <2>1. Len(p) = 1
    OBVIOUS
  <2> HIDE DEF p
  <2>2. Len(p) \in Nat
    BY <2>1
  <2>3. \E f : Runs(f, b, p) /\ RunFrom(b, p) = f[Len(p)]
    BY ONLY <2>2, RunDef
  <2> QED  BY <2>1, <2>3 DEF p
<1>2. f[1] = RunStep(f[1 - 1], ins) /\ f[0] = b
  <2>1. 1 \in 1..Len(<<ins>>) /\ <<ins>>[1] = ins
    OBVIOUS
  <2> QED  BY <1>1, <2>1 DEF Runs
<1>3. RunFrom(b, <<>>) = b
  <2> DEFINE p == <<>>
  <2>1. Len(p) = 0
    OBVIOUS
  <2> HIDE DEF p
  <2>2. Len(p) \in Nat
    BY <2>1
  <2>3. \E g : Runs(g, b, p) /\ RunFrom(b, p) = g[Len(p)]
    BY ONLY <2>2, RunDef
  <2> QED  BY <2>1, <2>3 DEF p, Runs
<1> QED  BY <1>1, <1>2, <1>3

(* The program p emits n bits, of which those of M are set, whatever has   *)
(* been emitted before it.                                                 *)
Emits(p, M, n) ==
  /\ IsList(p) /\ n \in Nat /\ M \subseteq 0..(n - 1)
  /\ \A b \in Seq(Bits) : RunFrom(b, p) = b \o BitsOf(M, n)

LEMMA EmitsRun ==
  ASSUME NEW p, NEW M, NEW n, Emits(p, M, n)
  PROVE  Ones(Run(p)) = M /\ Len(Run(p)) = n
<1>1. n \in Nat /\ M \subseteq 0..(n - 1)
  BY DEF Emits
<1>2. <<>> \in Seq(Bits)
  OBVIOUS
<1>3. Run(p) = <<>> \o BitsOf(M, n)
  BY <1>2 DEF Emits, Run
<1>4. BitsOf(M, n) \in Seq(Bits)
  BY <1>1, BitsOfFacts
<1>5. <<>> \o BitsOf(M, n) = BitsOf(M, n)
  BY <1>4
<1> QED  BY <1>1, <1>3, <1>5, BitsOfFacts

LEMMA EmitsNothing == Emits(<<>>, {}, 0)
<1>1. IsList(<<>>)
  BY DEF IsList
<1>2. ASSUME NEW b \in Seq(Bits)  PROVE RunFrom(b, <<>>) = b \o BitsOf({}, 0)
  <2>1. RunFrom(b, <<>>) = b
    BY RunOne
  <2>2. BitsOf({}, 0) \in Seq(Bits) /\ Len(BitsOf({}, 0)) = 0
    BY BitsOfFacts
  <2> DEFINE w == BitsOf({}, 0)
  <2> HIDE DEF w
  <2>3. b \o w = b
    BY <2>2 DEF w
  <2> QED  BY <2>1, <2>3 DEF w
<1> QED  BY <1>1, <1>2 DEF Emits

LEMMA EmitsBoth ==
  ASSUME NEW p, NEW M, NEW n, Emits(p, M, n), NEW q, NEW N, NEW m, Emits(q, N, m)
  PROVE  Emits(p \o q, Joined(M, N, n), n + m)
<1>1. /\ n \in Nat /\ m \in Nat /\ M \subseteq 0..(n - 1) /\ N \subseteq 0..(m - 1)
      /\ IsList(p) /\ IsList(q)
  BY DEF Emits
<1> DEFINE u == BitsOf(M, n)
           v == BitsOf(N, m)
           P == Joined(M, N, n)
<1>2. u \in Seq(Bits) /\ v \in Seq(Bits)
  BY <1>1, BitsOfFacts
<1>3. u \o v = BitsOf(P, n + m)
  BY <1>1, BitsJoin
<1>4. P \subseteq 0..(n + m - 1) /\ n + m \in Nat
  <2>1. Shift(N, n) \subseteq n..(n + m - 1)
    BY <1>1, ShiftFacts
  <2>2. 0..(n - 1) \subseteq 0..(n + m - 1) /\ n..(n + m - 1) \subseteq 0..(n + m - 1)
    BY <1>1
  <2>3. P \subseteq 0..(n + m - 1)
    BY <1>1, <2>1, <2>2, Zenon DEF Joined
  <2> QED  BY <1>1, <2>3
<1>5. IsList(p \o q)
  BY <1>1, ListConcat
<1> HIDE DEF P
<1>6. ASSUME NEW b \in Seq(Bits)  PROVE RunFrom(b, p \o q) = b \o BitsOf(P, n + m)
  <2>1. RunFrom(b, p) = b \o u
    BY DEF Emits
  <2>2. b \o u \in Seq(Bits)
    BY <1>2, ConcatFacts
  <2>3. RunFrom(b \o u, q) = (b \o u) \o v
    BY <2>2 DEF Emits
  <2> HIDE DEF u, v
  <2>4. (b \o u) \o v = b \o (u \o v)
    BY <1>2, ConcatAssoc
  <2>5. RunFrom(b, p \o q) = RunFrom(RunFrom(b, p), q)
    BY <1>1, RunConcat
  <2> QED  BY <1>3, <2>1, <2>3, <2>4, <2>5, Zenon
<1>7. Emits(p \o q, P, n + m)
  BY <1>4, <1>5, <1>6 DEF Emits
<1> QED  BY <1>7 DEF P

LEMMA EmitsLit ==
  ASSUME NEW w \in Seq(Bits)
  PROVE  Emits(<<Lit(w)>>, Ones(w), Len(w))
<1>1. /\ BitsOf(Ones(w), Len(w)) = w /\ Ones(w) \subseteq 0..(Len(w) - 1)
  BY BitsOfOnes
<1>2. Len(w) \in Nat
  OBVIOUS
<1>3. IsList(<<Lit(w)>>)
  BY DEF IsList, Range
<1>4. ASSUME NEW b \in Seq(Bits)  PROVE RunFrom(b, <<Lit(w)>>) = b \o w
  <2>1. RunFrom(b, <<Lit(w)>>) = RunStep(b, Lit(w))
    BY RunOne
  <2> QED  BY <2>1 DEF RunStep, Lit
<1> QED  BY <1>1, <1>2, <1>3, <1>4 DEF Emits

(* Which bits n bits make when they are repeated c times.                  *)
Repeated(M, n, c) == {i * n + j : i \in 0..c, j \in M}

LEMMA RepeatedFacts ==
  ASSUME NEW n \in Nat \ {0}, NEW M \in SUBSET (0..(n - 1)), NEW c \in Nat
  PROVE  /\ n * (c + 1) \in Nat /\ n * c \in Nat /\ n * (c + 1) = n + n * c
         /\ Repeated(M, n, c) \subseteq 0..(n * (c + 1) - 1)
         /\ \A x \in 0..(n * (c + 1) - 1) : x \in Repeated(M, n, c) <=> x % n \in M
<1>1. n * (c + 1) \in Nat /\ n * c \in Nat /\ n * (c + 1) = n + n * c
  OBVIOUS
<1>2. ASSUME NEW i \in 0..c, NEW j \in M
      PROVE  /\ i * n + j \in 0..(n * (c + 1) - 1) /\ (i * n + j) % n = j
  <2>1. j \in 0..(n - 1) /\ i \in Nat /\ c - i \in Nat
    OBVIOUS
  <2>2. i * n \in Nat /\ (c - i) * n \in Nat /\ n * c = i * n + (c - i) * n
    BY <2>1
  <2>3. (i * n + j) % n = j
    BY <2>1
  <2> DEFINE a == i * n
             b == (c - i) * n
  <2> HIDE DEF a, b
  <2>4. a + j \in 0..(n + (a + b) - 1)
    BY <2>1, <2>2 DEF a, b
  <2> QED  BY <1>1, <2>2, <2>3, <2>4 DEF a, b
<1>3. ASSUME NEW x \in 0..(n * (c + 1) - 1), x % n \in M  PROVE x \in Repeated(M, n, c)
  <2> DEFINE i == x \div n
             j == x % n
  <2>1. x = n * i + j /\ i \in Int /\ j \in 0..(n - 1)
    BY <1>1, DivMod
  <2>2. x \in Nat /\ x < n * (c + 1)
    BY <1>1
  <2> HIDE DEF i, j
  <2>3. i >= 0
    <3>1. i < 0 => n * i <= n * (-1)
      BY <2>1
    <3> QED  BY <2>1, <2>2, <3>1
  <2>4. i <= c
    <3>1. i >= c + 1 => n * i >= n * (c + 1)
      BY <2>1
    <3> QED  BY <1>1, <2>1, <2>2, <3>1
  <2>5. i \in 0..c /\ x = i * n + j /\ j \in M
    BY <1>3, <2>1, <2>3, <2>4 DEF j
  <2> QED  BY <2>5 DEF Repeated
<1>4. Repeated(M, n, c) \subseteq 0..(n * (c + 1) - 1)
  BY <1>2 DEF Repeated
<1>5. ASSUME NEW x \in Repeated(M, n, c)  PROVE x % n \in M
  BY <1>2 DEF Repeated
<1> QED  BY <1>1, <1>3, <1>4, <1>5

LEMMA ModIs ==
  ASSUME NEW n \in Nat \ {0}, NEW q \in Int, NEW j \in 0..(n - 1)
  PROVE  (n * q + j) % n = j /\ (n * q + j) \div n = q
OBVIOUS

RepeatBits(v, b, u, n, c, z) ==
  /\ RunStep(b \o u, Repeat(n, c)) = (b \o u) \o v /\ Len(v) = z
  /\ \A k \in 1..z : v[k] = u[((k - 1) % n) + 1]

LEMMA RepeatStep ==
  ASSUME NEW b \in Seq(Bits), NEW u \in Seq(Bits), NEW n \in Nat \ {0}, Len(u) = n,
         NEW c \in Nat, NEW z \in Nat, z = n * c
  PROVE  \E v \in Seq(Bits) : RepeatBits(v, b, u, n, c, z)
<1> DEFINE v == [k \in 1..z |-> u[((k - 1) % n) + 1]]
           bu == b \o u
<1>1. z \in Nat
  OBVIOUS
<1>2. \A k \in 1..z : ((k - 1) % n) + 1 \in 1..n
  BY <1>1
<1>3. \A k \in 1..z : v[k] = u[((k - 1) % n) + 1] /\ v[k] \in Bits
  BY <1>2
<1>4. v \in Seq(Bits) /\ Len(v) = z
  <2>1. v = [k \in 1..z |-> v[k]]
    OBVIOUS
  <2> HIDE DEF v
  <2> QED  BY <1>1, <1>3, <2>1, MapSeq
<1>5. /\ Len(bu) = Len(b) + n /\ Len(b) \in Nat
      /\ \A k \in 1..n : bu[Len(b) + k] = u[k]
  <2>0. b \in Seq(Bits) /\ u \in Seq(Bits)
    OBVIOUS
  <2>1. /\ Len(bu) = Len(b) + Len(u) /\ Len(b) \in Nat
        /\ \A k \in 1..Len(u) : bu[Len(b) + k] = u[k]
    BY ONLY <2>0, ConcatFacts
  <2> HIDE DEF bu
  <2> QED  BY <2>1
<1> HIDE DEF bu
<1>6. ASSUME NEW k \in 1..z
      PROVE  bu[Len(bu) - n + 1 + ((k - 1) % n)] = v[k]
  <2> DEFINE i == ((k - 1) % n) + 1
  <2>1. i \in 1..n
    BY <1>2
  <2>2. Len(bu) - n + 1 + ((k - 1) % n) = Len(b) + i
    BY <1>5, <2>1
  <2>3. bu[Len(b) + i] = u[i]
    <3> HIDE DEF i
    <3> QED  BY <1>5, <2>1
  <2> QED  BY <1>3, <2>2, <2>3
<1>7. RunStep(bu, Repeat(n, c)) = bu \o v
  <2> DEFINE g == [k \in 1..z |-> bu[Len(bu) - n + 1 + ((k - 1) % n)]]
  <2>1. RunStep(bu, Repeat(n, c)) = bu \o g
    BY DEF RunStep, Repeat
  <2>2. g = v
    BY <1>6
  <2> HIDE DEF g, v
  <2> QED  BY <2>1, <2>2
<1> HIDE DEF v
<1>8. \A k \in 1..z : v[k] = u[((k - 1) % n) + 1]
  BY <1>3
<1> QED  BY <1>4, <1>7, <1>8 DEF bu, RepeatBits

LEMMA EmitsRepeated ==
  ASSUME NEW p, NEW M, NEW n \in Nat \ {0}, Emits(p, M, n), NEW c \in Nat
  PROVE  Emits(p \o <<Repeat(n, c)>>, Repeated(M, n, c), n * (c + 1))
<1> DEFINE q == <<Repeat(n, c)>>
           u == BitsOf(M, n)
           R == Repeated(M, n, c)
           z == n * c
           w == BitsOf(R, n + z)
<1>1. IsList(p) /\ M \in SUBSET (0..(n - 1))
  BY DEF Emits
<1>2. IsList(q) /\ q = <<Repeat(n, c)>>
  BY DEF IsList, Range
<1>3. /\ n * (c + 1) \in Nat /\ z \in Nat /\ n * (c + 1) = n + z
      /\ R \subseteq 0..(n * (c + 1) - 1)
      /\ \A x \in 0..(n * (c + 1) - 1) : x \in R <=> x % n \in M
  BY <1>1, RepeatedFacts
<1>4. u \in Seq(Bits) /\ Len(u) = n /\ \A k \in 1..n : u[k] = IF k - 1 \in M THEN 1 ELSE 0
  BY <1>1, BitsOfFacts
<1> HIDE DEF q, u, z
<1>5. ASSUME NEW b \in Seq(Bits)  PROVE RunFrom(b, p \o q) = b \o w
  <2>1. RunFrom(b, p \o q) = RunFrom(RunFrom(b, p), q)
    BY <1>1, <1>2, RunConcat
  <2>2. RunFrom(b, p) = b \o u
    BY DEF Emits, u
  <2>3. RunFrom(b \o u, q) = RunStep(b \o u, Repeat(n, c))
    BY <1>2, RunOne
  <2>9. PICK v \in Seq(Bits) : RepeatBits(v, b, u, n, c, z)
    <3>1. u \in Seq(Bits) /\ Len(u) = n
      BY <1>4
    <3>2. z \in Nat /\ z = n * c
      BY <1>3 DEF z
    <3>3. b \in Seq(Bits) /\ n \in Nat \ {0} /\ c \in Nat
      OBVIOUS
    <3> QED  BY ONLY <3>1, <3>2, <3>3, RepeatStep
  <2>4. /\ RunStep(b \o u, Repeat(n, c)) = (b \o u) \o v /\ Len(v) = z
        /\ \A k \in 1..z : v[k] = u[((k - 1) % n) + 1]
    BY <2>9 DEF RepeatBits
  <2>5. ASSUME NEW k \in 1..z  PROVE v[k] = IF n + k - 1 \in R THEN 1 ELSE 0
    <3> DEFINE j == (k - 1) % n
    <3>1. j \in 0..(n - 1) /\ j + 1 \in 1..n /\ (j + 1) - 1 = j
      BY <1>3
    <3>2. (n + k - 1) % n = j
      <4> DEFINE q1 == (k - 1) \div n
      <4>1. k - 1 = n * q1 + j /\ q1 \in Int
        BY <1>3, DivMod
      <4> HIDE DEF q1, j
      <4>2. n + k - 1 = n * (q1 + 1) + j /\ q1 + 1 \in Int
        BY <1>3, <3>1, <4>1
      <4>3. n + k - 1 \in Int /\ n \in Nat \ {0} /\ j \in 0..(n - 1)
        BY <1>3, <3>1
      <4> QED  BY <4>2, <4>3, ModIs
    <3>3. n + k - 1 \in 0..(n * (c + 1) - 1)
      BY <1>3
    <3>4. v[k] = u[j + 1]
      BY <2>4
    <3> HIDE DEF j, R
    <3>5. u[j + 1] = IF j \in M THEN 1 ELSE 0
      BY <1>4, <3>1
    <3>6. n + k - 1 \in R <=> j \in M
      BY <1>3, <3>2, <3>3
    <3> QED  BY <3>4, <3>5, <3>6
  <2>6. BitsOf(R, n) = u
    <3>1. ASSUME NEW k \in 1..n  PROVE k - 1 \in R <=> k - 1 \in M
      <4>1. k - 1 \in 0..(n - 1) /\ (k - 1) % n = k - 1
        OBVIOUS
      <4>2. k - 1 \in 0..(n * (c + 1) - 1)
        BY <1>3
      <4> HIDE DEF R
      <4> QED  BY <1>3, <4>1, <4>2
    <3> HIDE DEF R
    <3> QED  BY <3>1 DEF BitsOf, u
  <2>7. u \o v = w
    <3> HIDE DEF R
    <3>1. \A k \in 1..Len(v) : v[k] = IF n + k - 1 \in R THEN 1 ELSE 0
      BY <2>4, <2>5
    <3>2. BitsOf(R, n) \o v = BitsOf(R, n + Len(v))
      BY <3>1, BitsMore
    <3> QED  BY <2>4, <2>6, <3>2
  <2>8. (b \o u) \o v = b \o (u \o v)
    BY <1>4, ConcatAssoc
  <2> HIDE DEF w
  <2> QED  BY <2>1, <2>2, <2>3, <2>4, <2>7, <2>8
<1>6. IsList(p \o q)
  BY <1>1, <1>2, ListConcat
<1> HIDE DEF R
<1>7. Emits(p \o q, R, n * (c + 1))
  BY <1>3, <1>5, <1>6, Zenon DEF Emits
<1> QED  BY <1>7 DEF q, R

LEMMA EmitsZeros ==
  ASSUME NEW n \in Nat \ {0}
  PROVE  Emits(Zeros(n), {}, n)
<1> DEFINE o == <<0>>
           p == <<Lit(o)>>
<1>1. o \in Seq(Bits) /\ Len(o) = 1 /\ Ones(o) = {}
  BY DEF Bits, Ones
<1> HIDE DEF o
<1>2. Emits(p, {}, 1)
  BY <1>1, EmitsLit
<1> HIDE DEF p
<1>3. CASE n = 1
  <2>1. Zeros(n) = p
    BY <1>3 DEF Zeros, p, o
  <2> QED  BY <1>2, <1>3, <2>1
<1>4. CASE n > 1
  <2> DEFINE one == 1
             c == n - 1
             z == one * (c + 1)
             E == Repeated({}, one, c)
  <2>1. c \in Nat /\ one \in Nat \ {0} /\ z = n
    BY <1>4
  <2>2. E = {}
    BY DEF Repeated
  <2>3. Zeros(n) = <<Lit(o), Repeat(one, c)>>
    BY <1>4 DEF Zeros, o
  <2>4. Zeros(n) = p \o <<Repeat(one, c)>>
    BY <2>3 DEF p
  <2>5. Emits(p, {}, one)
    BY <1>2
  <2> HIDE DEF one, c, E
  <2>6. Emits(p \o <<Repeat(one, c)>>, E, one * (c + 1))
    BY <2>1, <2>5, EmitsRepeated DEF E
  <2> QED  BY <2>1, <2>2, <2>4, <2>6
<1> QED  BY <1>3, <1>4

(* The instructions for one element, in chunks of literal bits.            *)
LEMMA ChunksEmit ==
  ASSUME NEW t, ~types[t].prog, Words(types[t].ptrdata) \in Nat \ {0},
         types[t].mask \subseteq 0..(Words(types[t].ptrdata) - 1)
  PROVE  Emits(OneElement(t), types[t].mask, Words(types[t].ptrdata))
<1> DEFINE M == types[t].mask
           ptrs == Words(types[t].ptrdata)
           last == IF ptrs = 0 THEN 0 ELSE (ptrs - 1) \div Chunk
           d(c) == IF c <= last THEN Chunk ELSE ptrs - last * Chunk
           w(c) == [k \in 1..d(c) |-> IF (c - 1) * Chunk + k - 1 \in M THEN 1 ELSE 0]
           p == [c \in 1..(last + 1) |-> Lit(w(c))]
           upto(c) == IF c <= last THEN c * Chunk ELSE ptrs
<1>1. ptrs \in Nat \ {0} /\ Chunk \in Nat \ {0} /\ M \subseteq 0..(ptrs - 1)
  BY MapsAssumption
<1>2. OneElement(t) = p
  BY DEF OneElement
<1>3. last \in Nat /\ last * Chunk \in Nat /\ last * Chunk <= ptrs - 1
  <2> DEFINE n == ptrs - 1
             q == n \div Chunk
             r == n % Chunk
  <2>1. n \in Nat /\ n \in Int /\ last = q
    BY <1>1
  <2> HIDE DEF ptrs, n, last
  <2>2. n = Chunk * q + r /\ q \in Int /\ r \in 0..(Chunk - 1)
    BY <1>1, <2>1, DivMod
  <2> HIDE DEF q, r
  <2>3. q >= 0
    <3>1. q < 0 => Chunk * q <= Chunk * (-1)
      BY <1>1, <2>2
    <3> QED  BY <1>1, <2>1, <2>2, <3>1
  <2>4. last * Chunk = Chunk * q
    BY <1>1, <2>1, <2>2
  <2>5. Chunk * q \in Nat /\ Chunk * q <= n
    BY <1>1, <2>1, <2>2, <2>3
  <2> QED  BY <2>1, <2>2, <2>3, <2>4, <2>5 DEF n
<1> HIDE DEF M, ptrs, last
<1>4. ASSUME NEW c \in 1..(last + 1)
      PROVE  /\ d(c) \in Nat /\ (c - 1) * Chunk \in Nat /\ (c - 1) * Chunk + d(c) = upto(c)
             /\ upto(c - 1) = (c - 1) * Chunk
  <2>1. c - 1 \in Nat /\ c - 1 <= last
    BY <1>3
  <2>2. (c - 1) * Chunk \in Nat
    BY <1>1, <2>1
  <2>3. CASE c <= last
    <3>1. c * Chunk = (c - 1) * Chunk + Chunk
      BY <1>1, <2>1
    <3> QED  BY <1>1, <2>1, <2>2, <2>3, <3>1
  <2>4. CASE ~(c <= last)
    <3>1. c - 1 = last
      BY <1>3, <2>1, <2>4
    <3> QED  BY <1>1, <1>3, <2>1, <2>2, <2>4, <3>1
  <2> QED  BY <2>3, <2>4
<1> HIDE DEF d
<1>5. ASSUME NEW c \in 1..(last + 1)
      PROVE  w(c) \in Seq(Bits) /\ BitsOf(M, upto(c - 1)) \o w(c) = BitsOf(M, upto(c))
  <2> DEFINE a == (c - 1) * Chunk
             s == w(c)
  <2>1. d(c) \in Nat /\ a \in Nat /\ a + d(c) = upto(c) /\ upto(c - 1) = a
    BY <1>4
  <2>2. /\ s = [k \in 1..d(c) |-> s[k]] /\ \A k \in 1..d(c) : s[k] \in Bits
        /\ \A k \in 1..d(c) : s[k] = IF a + k - 1 \in M THEN 1 ELSE 0
    BY DEF Bits
  <2> HIDE DEF a, s, upto
  <2>3. s \in Seq(Bits) /\ Len(s) = d(c)
    BY <2>1, <2>2, MapSeq
  <2>4. BitsOf(M, a) \o s = BitsOf(M, a + Len(s))
    BY <2>1, <2>2, <2>3, BitsMore
  <2> QED  BY <2>1, <2>3, <2>4 DEF s
<1> HIDE DEF w
<1>6. Len(p) = last + 1 /\ IsList(p) /\ \A c \in 1..(last + 1) : p[c] = Lit(w(c))
  <2>1. p = [c \in 1..(last + 1) |-> p[c]] /\ \A c \in 1..(last + 1) : p[c] \in Range(p)
    BY DEF Range
  <2>2. last + 1 \in Nat
    BY <1>3
  <2>3. \A c \in 1..(last + 1) : p[c] = Lit(w(c))
    OBVIOUS
  <2> HIDE DEF p
  <2>4. p \in Seq(Range(p)) /\ Len(p) = last + 1
    BY <2>1, <2>2, MapSeq
  <2> QED  BY <2>3, <2>4 DEF IsList
<1> HIDE DEF p
<1>7. ASSUME NEW b \in Seq(Bits)  PROVE RunFrom(b, p) = b \o BitsOf(M, ptrs)
  <2>1. PICK f : Runs(f, b, p) /\ RunFrom(b, p) = f[Len(p)]
    <3>1. Len(p) \in Nat
      BY <1>3, <1>6
    <3> QED  BY <3>1, RunDef
  <2> DEFINE S == {c \in Nat : c <= last + 1 => f[c] = b \o BitsOf(M, upto(c))}
  <2>2. 0 \in S
    <3>1. upto(0) = 0
      BY <1>1, <1>3
    <3>2. b \o BitsOf(M, 0) = b
      <4> DEFINE e == BitsOf(M, 0)
      <4>1. e \in Seq(Bits) /\ Len(e) = 0
        BY BitsOfFacts
      <4> HIDE DEF e
      <4>2. b \o e = b
        BY <4>1
      <4> QED  BY <4>2 DEF e
    <3>3. f[0] = b
      BY <2>1 DEF Runs
    <3> HIDE DEF upto
    <3> QED  BY <3>1, <3>2, <3>3
  <2>3. ASSUME NEW n \in Nat, n \in S  PROVE n + 1 \in S
    <3> SUFFICES ASSUME n + 1 <= last + 1  PROVE f[n + 1] = b \o BitsOf(M, upto(n + 1))
      OBVIOUS
    <3> DEFINE c == n + 1
               u == BitsOf(M, upto(n))
               v == w(c)
    <3>1. c \in 1..(last + 1) /\ c - 1 = n /\ n <= last + 1
      BY <1>3
    <3> HIDE DEF upto, c
    <3>2. f[n] = b \o u
      BY <2>3, <3>1
    <3>3. f[c] = RunStep(f[n], Lit(v))
      BY <1>6, <2>1, <3>1 DEF Runs
    <3>4. RunStep(f[n], Lit(v)) = (b \o u) \o v
      BY <3>2 DEF RunStep, Lit
    <3>5. u \o v = BitsOf(M, upto(c)) /\ v \in Seq(Bits)
      BY <1>5, <3>1
    <3>6. u \in Seq(Bits)
      <4>1. upto(n) \in Nat
        BY <1>4, <3>1
      <4> QED  BY <4>1, BitsOfFacts
    <3> HIDE DEF u, v
    <3>7. (b \o u) \o v = b \o (u \o v)
      <4>1. b \in Seq(Bits) /\ u \in Seq(Bits) /\ v \in Seq(Bits)
        BY <3>5, <3>6
      <4> QED  BY ONLY <4>1, ConcatAssoc
    <3>8. f[c] = b \o BitsOf(M, upto(c))
      BY <3>3, <3>4, <3>5, <3>7
    <3> QED  BY <3>8 DEF c
  <2> HIDE DEF S
  <2>4. \A c \in Nat : c \in S
    BY <2>2, <2>3, Induction
  <2>5. last + 1 \in S /\ upto(last + 1) = ptrs
    BY <1>3, <2>4
  <2> HIDE DEF upto
  <2> QED  BY <1>3, <1>6, <2>1, <2>5 DEF S
<1>8. Emits(p, M, ptrs)
  BY <1>1, <1>6, <1>7 DEF Emits
<1> QED  BY <1>2, <1>8 DEF p, M, ptrs, w, d, last

LEMMA RepeatAfter ==
  ASSUME NEW b \in Seq(Bits), NEW g \in Seq(Bits), NEW ins, ins.op = "repeat",
         ins.n \in Nat \ {0}, ins.c \in Nat, ins.n <= Len(g)
  PROVE  RunStep(g, ins) \in Seq(Bits) /\ RunStep(b \o g, ins) = b \o RunStep(g, ins)
<1> DEFINE n == ins.n
           z == ins.n * ins.c
           bg == b \o g
           v == [k \in 1..z |-> g[Len(g) - n + 1 + ((k - 1) % n)]]
           w == [k \in 1..z |-> bg[Len(bg) - n + 1 + ((k - 1) % n)]]
<1>1. RunStep(g, ins) = g \o v /\ RunStep(bg, ins) = bg \o w
  BY DEF RunStep
<1>2. z \in Nat /\ n \in Nat \ {0} /\ n <= Len(g)
  OBVIOUS
<1>3. Len(g) \in Nat /\ Len(b) \in Nat /\ \A k \in 1..Len(g) : g[k] \in Bits
  OBVIOUS
<1>4. Len(bg) = Len(b) + Len(g) /\ \A k \in 1..Len(g) : bg[Len(b) + k] = g[k]
  BY ConcatFacts
<1> HIDE DEF z, n, bg
<1>5. ASSUME NEW k \in 1..z
      PROVE  LET i == Len(g) - n + 1 + ((k - 1) % n)
             IN  i \in 1..Len(g) /\ Len(bg) - n + 1 + ((k - 1) % n) = Len(b) + i
  <2>1. (k - 1) % n \in 0..(n - 1)
    BY <1>2
  <2> QED  BY <1>2, <1>3, <1>4, <2>1
<1>6. v \in Seq(Bits)
  <2>1. v = [k \in 1..z |-> v[k]] /\ \A k \in 1..z : v[k] \in Bits
    BY <1>3, <1>5
  <2> HIDE DEF v
  <2> QED  BY <1>2, <2>1, MapSeq
<1>7. w = v
  BY <1>4, <1>5
<1> HIDE DEF v, w
<1>8. (b \o g) \o v = b \o (g \o v) /\ g \o v \in Seq(Bits)
  BY <1>6, ConcatAssoc, ConcatFacts
<1> QED  BY <1>1, <1>7, <1>8 DEF bg

(* The programs of the compiler.                                           *)
LEMMA ExecutableEmits ==
  ASSUME NEW p, IsList(p), Executable(p)
  PROVE  Emits(p, Ones(Run(p)), Len(Run(p)))
<1> DEFINE N == Len(p)
<1>1. N \in Nat /\ DOMAIN p = 1..N
  BY ListFacts
<1>2. PICK g : Runs(g, <<>>, p) /\ RunFrom(<<>>, p) = g[N]
  BY <1>1, RunDef
<1>3. ASSUME NEW n \in 1..N  PROVE Run(SubSeq(p, 1, n - 1)) = g[n - 1]
  <2> DEFINE q == SubSeq(p, 1, n - 1)
             m == n - 1
  <2>1. m \in Nat /\ m <= Len(p) /\ m \in 0..m /\ Len(p) \in Nat
    BY <1>1
  <2>2. Len(q) = m /\ \A k \in 1..m : q[k] = p[k]
    BY <1>1, <2>1 DEF IsList
  <2> HIDE DEF q, m
  <2>3. PICK h : Runs(h, <<>>, q) /\ RunFrom(<<>>, q) = h[m]
    BY <2>1, <2>2, RunDef
  <2>4. m <= Len(q) /\ Len(q) \in Nat /\ \A k \in 1..m : p[k] = q[k]
    BY <2>1, <2>2
  <2>5. \A k \in 0..m : g[k] = h[k]
    BY <1>2, <2>1, <2>3, <2>4, RunSame
  <2> QED  BY <2>1, <2>3, <2>5 DEF Run, q, m
<1>4. ASSUME NEW b \in Seq(Bits)
      PROVE  g[N] \in Seq(Bits) /\ RunFrom(b, p) = b \o g[N]
  <2>1. PICK f : Runs(f, b, p) /\ RunFrom(b, p) = f[N]
    BY <1>1, RunDef
  <2> DEFINE S == {n \in Nat : n <= N => g[n] \in Seq(Bits) /\ f[n] = b \o g[n]}
  <2>2. 0 \in S
    <3>1. f[0] = b /\ g[0] = <<>>
      BY <1>2, <2>1 DEF Runs
    <3>2. b \o <<>> = b /\ <<>> \in Seq(Bits)
      OBVIOUS
    <3> QED  BY <3>1, <3>2
  <2>3. ASSUME NEW k \in Nat, k \in S  PROVE k + 1 \in S
    <3> SUFFICES ASSUME k + 1 <= N  PROVE g[k + 1] \in Seq(Bits) /\ f[k + 1] = b \o g[k + 1]
      OBVIOUS
    <3> DEFINE n == k + 1
               ins == p[n]
               h == g[k]
    <3>1. n \in 1..N /\ n - 1 = k /\ k <= N
      BY <1>1
    <3> HIDE DEF n
    <3>2. h \in Seq(Bits) /\ f[k] = b \o h
      BY <2>3, <3>1
    <3>3. g[n] = RunStep(h, ins) /\ f[n] = RunStep(f[k], ins)
      BY <1>2, <2>1, <3>1 DEF Runs
    <3>4. CASE ins.op = "lit" /\ ins.bits \in Seq(Bits)
      <4> DEFINE l == ins.bits
      <4>1. RunStep(h, ins) = h \o l /\ RunStep(b \o h, ins) = (b \o h) \o l
        BY <3>4 DEF RunStep
      <4>2. l \in Seq(Bits)
        BY <3>4
      <4> HIDE DEF l, h, ins
      <4>3. (b \o h) \o l = b \o (h \o l) /\ h \o l \in Seq(Bits)
        BY <3>2, <4>2, ConcatAssoc, ConcatFacts
      <4>4. g[n] \in Seq(Bits) /\ f[n] = b \o g[n]
        BY <3>2, <3>3, <4>1, <4>3
      <4> QED  BY <4>4 DEF n
    <3>5. CASE /\ ins.op = "repeat" /\ ins.n \in Nat \ {0} /\ ins.c \in Nat
               /\ ins.n <= Len(Run(SubSeq(p, 1, n - 1)))
      <4>1. ins.n <= Len(h)
        BY <1>3, <3>1, <3>5
      <4> HIDE DEF h, ins
      <4>2. RunStep(h, ins) \in Seq(Bits) /\ RunStep(b \o h, ins) = b \o RunStep(h, ins)
        BY <3>2, <3>5, <4>1, RepeatAfter
      <4>3. g[n] \in Seq(Bits) /\ f[n] = b \o g[n]
        BY <3>2, <3>3, <4>2
      <4> QED  BY <4>3 DEF n
    <3> QED  BY <1>1, <3>1, <3>4, <3>5 DEF Executable, Bits
  <2> HIDE DEF S
  <2>4. \A n \in Nat : n \in S
    BY <2>2, <2>3, Induction
  <2> QED  BY <1>1, <2>1, <2>4 DEF S
<1> DEFINE w == g[N]
<1>5. w \in Seq(Bits) /\ w = Run(p)
  <2>1. <<>> \in Seq(Bits)
    OBVIOUS
  <2> QED  BY <1>2, <1>4, <2>1 DEF Run
<1> HIDE DEF w
<1>6. BitsOf(Ones(w), Len(w)) = w /\ Ones(w) \subseteq 0..(Len(w) - 1) /\ Len(w) \in Nat
  BY <1>5, BitsOfOnes
<1>7. \A b \in Seq(Bits) : RunFrom(b, p) = b \o w
  BY <1>4 DEF w
<1> QED  BY <1>5, <1>6, <1>7 DEF Emits

-----------------------------------------------------------------------------
(* Words                                                                   *)

LEMMA WordsFacts ==
  ASSUME NEW x \in Nat, x % PtrSize = 0
  PROVE  Words(x) \in Nat /\ x = PtrSize * Words(x)
<1>1. PtrSize \in Nat \ {0}
  BY LayoutAssumption
<1> DEFINE q == x \div PtrSize
<1>2. x = PtrSize * q + (x % PtrSize) /\ q \in Int
  BY <1>1, DivMod
<1> HIDE DEF q
<1>3. x = PtrSize * q
  BY <1>1, <1>2
<1>4. q >= 0
  <2>1. q < 0 => PtrSize * q <= PtrSize * (-1)
    BY <1>1, <1>2
  <2> QED  BY <1>1, <1>2, <1>3, <2>1
<1> QED  BY <1>2, <1>3, <1>4 DEF Words, q

LEMMA WordsTimes ==
  ASSUME NEW q \in Nat
  PROVE  /\ Words(PtrSize * q) = q /\ (PtrSize * q) % PtrSize = 0 /\ PtrSize * q \in Nat
         /\ PtrSize * q = q * PtrSize
<1>1. PtrSize \in Nat \ {0}
  BY LayoutAssumption
<1>2. q \in Int
  OBVIOUS
<1>3. (PtrSize * q) \div PtrSize = q /\ (PtrSize * q) % PtrSize = 0
  BY <1>1, <1>2, MultipleOf
<1> QED  BY <1>1, <1>3 DEF Words

LEMMA WordsSum ==
  ASSUME NEW x \in Nat, NEW y \in Nat, x % PtrSize = 0, y % PtrSize = 0
  PROVE  Words(x + y) = Words(x) + Words(y) /\ (x + y) % PtrSize = 0
<1> DEFINE a == Words(x)
           b == Words(y)
<1>1. a \in Nat /\ b \in Nat /\ x = PtrSize * a /\ y = PtrSize * b
  BY WordsFacts
<1> HIDE DEF a, b
<1>2. PtrSize * a + PtrSize * b = PtrSize * (a + b) /\ a + b \in Nat
  BY <1>1, LayoutAssumption
<1>3. x + y = PtrSize * (a + b)
  BY <1>1, <1>2
<1>4. Words(PtrSize * (a + b)) = a + b /\ (PtrSize * (a + b)) % PtrSize = 0
  BY <1>2, WordsTimes
<1> QED  BY <1>3, <1>4 DEF a, b

LEMMA WordsOrder ==
  ASSUME NEW x \in Nat, NEW y \in Nat, x % PtrSize = 0, y % PtrSize = 0
  PROVE  /\ x <= y <=> Words(x) <= Words(y)
         /\ x < y <=> Words(x) < Words(y)
<1> DEFINE a == Words(x)
           b == Words(y)
<1>1. a \in Nat /\ b \in Nat /\ x = PtrSize * a /\ y = PtrSize * b
  BY WordsFacts
<1> HIDE DEF a, b
<1>2. PtrSize \in Nat \ {0}
  BY LayoutAssumption
<1>3. a <= b => x <= y
  BY <1>1, <1>2
<1>4. a < b => x < y
  BY <1>1, <1>2
<1>5. b < a => y < x
  BY <1>1, <1>2
<1>6. b <= a => y <= x
  BY <1>1, <1>2
<1> QED  BY <1>1, <1>3, <1>4, <1>5, <1>6 DEF a, b

-----------------------------------------------------------------------------
(* Slots                                                                   *)

LEMMA SlotFacts ==
  ASSUME NEW s \in PtrSlots, s.offset % PtrSize = 0
  PROVE  /\ s.offset \in Nat /\ s.ptrs \in Nat \ {0} /\ SlotEnd(s) \in Nat
         /\ SlotEnd(s) % PtrSize = 0 /\ Words(s.offset) \in Nat
         /\ Words(SlotEnd(s)) = Words(s.offset) + s.ptrs /\ s.offset < SlotEnd(s)
<1> DEFINE o == s.offset
           p == s.ptrs
           x == PtrSize * p
<1>1. o \in Nat /\ p \in Nat \ {0} /\ SlotEnd(s) = o + p * PtrSize
  BY DEF PtrSlots, SlotEnd
<1> HIDE DEF o, p
<1>2. x \in Nat /\ x = p * PtrSize /\ Words(x) = p /\ x % PtrSize = 0
  BY <1>1, WordsTimes
<1>3. x > 0
  BY <1>1, LayoutAssumption
<1> HIDE DEF x
<1>4. Words(o + x) = Words(o) + Words(x) /\ (o + x) % PtrSize = 0
  BY <1>1, <1>2, WordsSum DEF o
<1>5. Words(o) \in Nat
  BY <1>1, WordsFacts DEF o
<1> QED  BY <1>1, <1>2, <1>3, <1>4, <1>5 DEF o, p

LEMMA NoSlots ==
  ASSUME NEW x, NEW y
  PROVE  <<>> \in Seq(PtrSlots) /\ SlotsInOrder(<<>>, x, y) /\ SlotWords(<<>>) = {}
<1>1. DOMAIN <<>> = {} /\ <<>> \in Seq(PtrSlots)
  OBVIOUS
<1> QED  BY <1>1 DEF SlotsInOrder, SlotWords

LEMMA ShiftedInOrder ==
  ASSUME NEW s \in Seq(PtrSlots), NEW z \in Nat, SlotsInOrder(s, 0, z),
         NEW by \in Nat, by % PtrSize = 0
  PROVE  /\ Shifted(s, by) \in Seq(PtrSlots)
         /\ SlotsInOrder(Shifted(s, by), by, by + z)
         /\ SlotWords(Shifted(s, by)) = Shift(SlotWords(s), Words(by))
<1> DEFINE r == Shifted(s, by)
           N == Len(s)
<1>1. N \in Nat /\ DOMAIN s = 1..N /\ \A k \in 1..N : s[k] \in PtrSlots
  OBVIOUS
<1>2. ASSUME NEW k \in 1..N
      PROVE  /\ r[k] \in PtrSlots /\ r[k].offset = s[k].offset + by /\ r[k].ptrs = s[k].ptrs
  <2>1. s[k] = [offset |-> s[k].offset, ptrs |-> s[k].ptrs] /\ s[k].offset \in Nat
        /\ s[k].ptrs \in Nat \ {0}
    BY <1>1 DEF PtrSlots
  <2>2. r[k] = [s[k] EXCEPT !.offset = s[k].offset + by]
    BY <1>1 DEF Shifted
  <2>3. r[k] = [offset |-> s[k].offset + by, ptrs |-> s[k].ptrs]
    BY <2>1, <2>2
  <2>4. s[k].offset + by \in Nat
    BY <2>1
  <2> QED  BY <2>1, <2>3, <2>4 DEF PtrSlots
<1>3. r = [k \in 1..N |-> r[k]]
  BY <1>1 DEF Shifted
<1> HIDE DEF r, N
<1>4. r \in Seq(PtrSlots) /\ DOMAIN r = 1..N
  <2>1. r \in Seq(PtrSlots)
    BY <1>1, <1>2, <1>3, MapSeq
  <2> QED  BY <1>3, <2>1
<1>5. Words(by) \in Nat
  BY WordsFacts
<1>6. ASSUME NEW k \in 1..N
      PROVE  /\ s[k].offset \in Nat /\ s[k].offset % PtrSize = 0 /\ SlotEnd(s[k]) \in Nat
             /\ SlotEnd(s[k]) <= z
             /\ \A m \in 1..N : m > k => SlotEnd(s[k]) <= s[m].offset
             /\ r[k].offset % PtrSize = 0 /\ SlotEnd(r[k]) = SlotEnd(s[k]) + by
             /\ Words(r[k].offset) = Words(s[k].offset) + Words(by)
             /\ Words(SlotEnd(r[k])) = Words(SlotEnd(s[k])) + Words(by)
             /\ Words(s[k].offset) \in Nat /\ Words(SlotEnd(s[k])) \in Nat
  <2>1. s[k] \in PtrSlots /\ s[k].offset % PtrSize = 0
    BY <1>1 DEF SlotsInOrder
  <2>2. /\ s[k].offset \in Nat /\ s[k].ptrs \in Nat \ {0} /\ SlotEnd(s[k]) \in Nat
        /\ SlotEnd(s[k]) % PtrSize = 0 /\ Words(s[k].offset) \in Nat
        /\ Words(SlotEnd(s[k])) = Words(s[k].offset) + s[k].ptrs
    BY <2>1, SlotFacts
  <2>3. SlotEnd(s[k]) <= z /\ \A m \in 1..N : m > k => SlotEnd(s[k]) <= s[m].offset
    BY <1>1 DEF SlotsInOrder
  <2>4. /\ (s[k].offset + by) % PtrSize = 0
        /\ Words(s[k].offset + by) = Words(s[k].offset) + Words(by)
    BY <2>1, <2>2, WordsSum
  <2>5. Words(SlotEnd(s[k]) + by) = Words(SlotEnd(s[k])) + Words(by)
    BY <2>2, WordsSum
  <2>6. SlotEnd(r[k]) = SlotEnd(s[k]) + by
    <3>1. r[k].offset = s[k].offset + by /\ r[k].ptrs = s[k].ptrs
      BY <1>2
    <3> DEFINE pp == s[k].ptrs * PtrSize
    <3>2. pp \in Nat
      BY <2>2, LayoutAssumption
    <3>3. SlotEnd(r[k]) = (s[k].offset + by) + pp /\ SlotEnd(s[k]) = s[k].offset + pp
      BY <3>1 DEF SlotEnd
    <3> HIDE DEF pp
    <3> QED  BY <2>2, <3>2, <3>3
  <2>7. Words(SlotEnd(s[k])) \in Nat
    BY <2>2
  <2> QED  BY <1>2, <2>1, <2>2, <2>3, <2>4, <2>5, <2>6, <2>7
<1>7. SlotsInOrder(r, by, by + z)
  <2>1. ASSUME NEW k \in 1..N
        PROVE  /\ r[k].offset % PtrSize = 0
               /\ by <= r[k].offset /\ SlotEnd(r[k]) <= by + z
               /\ \A m \in 1..N : m > k => SlotEnd(r[k]) <= r[m].offset
    <3>1. by <= r[k].offset /\ SlotEnd(r[k]) <= by + z
      BY <1>2, <1>6
    <3>2. ASSUME NEW m \in 1..N, m > k  PROVE SlotEnd(r[k]) <= r[m].offset
      <4>1. SlotEnd(s[k]) <= s[m].offset /\ r[m].offset = s[m].offset + by
        BY <1>2, <1>6, <3>2
      <4>2. SlotEnd(r[k]) = SlotEnd(s[k]) + by /\ SlotEnd(s[k]) \in Nat /\ s[m].offset \in Nat
        BY <1>6
      <4> QED  BY <4>1, <4>2
    <3> QED  BY <1>6, <3>1, <3>2
  <2> QED  BY <1>4, <2>1 DEF SlotsInOrder
<1>8. SlotWords(r) = Shift(SlotWords(s), Words(by))
  <2> DEFINE w == Words(by)
             R(k) == Words(r[k].offset)..(Words(SlotEnd(r[k])) - 1)
             O(k) == Words(s[k].offset)..(Words(SlotEnd(s[k])) - 1)
  <2>1. ASSUME NEW k \in 1..N, NEW x  PROVE x \in R(k) <=> \E j \in O(k) : x = w + j
    <3> DEFINE a == Words(s[k].offset)
               b == Words(SlotEnd(s[k]))
    <3>1. a \in Nat /\ b \in Nat /\ w \in Nat /\ R(k) = (a + w)..(b + w - 1)
      BY <1>5, <1>6
    <3> HIDE DEF a, b, w
    <3>2. ASSUME NEW j \in a..(b - 1)  PROVE w + j \in (a + w)..(b + w - 1)
      BY <3>1
    <3>3. ASSUME NEW i \in (a + w)..(b + w - 1)  PROVE i - w \in a..(b - 1) /\ i = w + (i - w)
      BY <3>1
    <3>4. O(k) = a..(b - 1)
      BY DEF a, b
    <3> HIDE DEF R, O
    <3> QED  BY <3>1, <3>2, <3>3, <3>4
  <2> HIDE DEF w
  <2>2. SlotWords(r) = UNION {R(k) : k \in 1..N} /\ SlotWords(s) = UNION {O(k) : k \in 1..N}
    BY <1>1, <1>4 DEF SlotWords
  <2> HIDE DEF R, O
  <2>3. ASSUME NEW x  PROVE x \in SlotWords(r) <=> x \in Shift(SlotWords(s), w)
    <3>1. x \in SlotWords(r) <=> \E k \in 1..N : x \in R(k)
      BY <2>2
    <3>2. x \in Shift(SlotWords(s), w) <=> \E k \in 1..N : \E j \in O(k) : x = w + j
      BY <2>2 DEF Shift
    <3> QED  BY <2>1, <3>1, <3>2
  <2> QED  BY <2>3 DEF w
<1> QED  BY <1>4, <1>7, <1>8 DEF r

LEMMA SlotsConcat ==
  ASSUME NEW a \in Seq(PtrSlots), NEW b \in Seq(PtrSlots),
         NEW x \in Nat, NEW y \in Nat, NEW v \in Nat, NEW z \in Nat,
         SlotsInOrder(a, x, y), SlotsInOrder(b, v, z), x <= v, y <= v, y <= z
  PROVE  /\ a \o b \in Seq(PtrSlots) /\ SlotsInOrder(a \o b, x, z)
         /\ SlotWords(a \o b) = SlotWords(a) \cup SlotWords(b)
<1> DEFINE c == a \o b
           A == Len(a)
           B == Len(b)
<1>1. /\ c \in Seq(PtrSlots) /\ Len(c) = A + B /\ A \in Nat /\ B \in Nat
      /\ DOMAIN c = 1..(A + B) /\ DOMAIN a = 1..A /\ DOMAIN b = 1..B
      /\ \A k \in 1..A : c[k] = a[k]
      /\ \A k \in 1..B : c[A + k] = b[k]
  BY ConcatFacts
<1> HIDE DEF c
<1>2. \A k \in 1..A : a[k].offset \in Nat /\ SlotEnd(a[k]) \in Nat
  <2>1. a \in Seq(PtrSlots) /\ SlotsInOrder(a, x, y)
    OBVIOUS
  <2>2. \A k \in 1..A : a[k] \in PtrSlots /\ a[k].offset % PtrSize = 0
    BY ONLY <1>1, <2>1 DEF SlotsInOrder
  <2> QED  BY <2>2, SlotFacts
<1>3. \A k \in 1..B : b[k].offset \in Nat /\ SlotEnd(b[k]) \in Nat
  <2>1. \A k \in 1..B : b[k] \in PtrSlots /\ b[k].offset % PtrSize = 0
    BY <1>1 DEF SlotsInOrder
  <2> QED  BY <2>1, SlotFacts
<1>4. \A k \in 1..(A + B) : k \in 1..A \/ \E i \in 1..B : k = A + i
  <2>1. ASSUME NEW k \in 1..(A + B), k > A  PROVE k - A \in 1..B /\ k = A + (k - A)
    BY <1>1, <2>1
  <2>2. \A k \in 1..(A + B) : k > A \/ k \in 1..A
    BY <1>1
  <2> QED  BY <2>1, <2>2
<1> HIDE DEF A, B
<1>5. \A k \in 1..A : /\ a[k].offset % PtrSize = 0 /\ x <= a[k].offset /\ SlotEnd(a[k]) <= y
                      /\ \A m \in 1..A : m > k => SlotEnd(a[k]) <= a[m].offset
  BY <1>1 DEF SlotsInOrder
<1>6. \A k \in 1..B : /\ b[k].offset % PtrSize = 0 /\ v <= b[k].offset /\ SlotEnd(b[k]) <= z
                      /\ \A m \in 1..B : m > k => SlotEnd(b[k]) <= b[m].offset
  BY <1>1 DEF SlotsInOrder
<1>7. ASSUME NEW k \in 1..(A + B)
      PROVE  /\ c[k].offset % PtrSize = 0 /\ x <= c[k].offset /\ SlotEnd(c[k]) <= z
             /\ \A m \in 1..(A + B) : m > k => SlotEnd(c[k]) <= c[m].offset
  <2>1. CASE k \in 1..A
    <3>1. c[k] = a[k] /\ a[k].offset % PtrSize = 0 /\ x <= a[k].offset /\ SlotEnd(a[k]) <= z
      BY <1>1, <1>2, <1>5, <2>1
    <3>2. ASSUME NEW m \in 1..(A + B), m > k  PROVE SlotEnd(a[k]) <= c[m].offset
      <4>1. CASE m \in 1..A
        BY <1>1, <1>5, <2>1, <3>2, <4>1
      <4>2. ASSUME NEW i \in 1..B, m = A + i  PROVE SlotEnd(a[k]) <= c[m].offset
        <5>1. c[m] = b[i] /\ v <= b[i].offset /\ SlotEnd(a[k]) <= y
          BY <1>1, <1>5, <1>6, <2>1, <4>2
        <5> QED  BY <1>2, <1>3, <2>1, <5>1
      <4> QED  BY <1>4, <4>1, <4>2
    <3> QED  BY <3>1, <3>2
  <2>2. ASSUME NEW i \in 1..B, k = A + i
        PROVE  /\ c[k].offset % PtrSize = 0 /\ x <= c[k].offset /\ SlotEnd(c[k]) <= z
               /\ \A m \in 1..(A + B) : m > k => SlotEnd(c[k]) <= c[m].offset
    <3>1. c[k] = b[i] /\ b[i].offset % PtrSize = 0 /\ v <= b[i].offset /\ SlotEnd(b[i]) <= z
      BY <1>1, <1>6, <2>2
    <3>2. x <= b[i].offset
      BY <1>3, <3>1
    <3>3. ASSUME NEW m \in 1..(A + B), m > k  PROVE SlotEnd(b[i]) <= c[m].offset
      <4>1. PICK j \in 1..B : m = A + j
        BY <1>1, <1>4, <2>2, <3>3
      <4>2. A \in Nat /\ i \in Nat /\ j \in Nat
        BY <1>1
      <4>3. j > i
        BY ONLY <2>2, <3>3, <4>1, <4>2
      <4> QED  BY <1>1, <1>6, <4>1, <4>3
    <3> QED  BY <3>1, <3>2, <3>3
  <2> QED  BY <1>4, <2>1, <2>2
<1>8. SlotsInOrder(c, x, z)
  BY <1>1, <1>7 DEF SlotsInOrder
<1>9. SlotWords(c) = SlotWords(a) \cup SlotWords(b)
  <2> DEFINE W(s) == Words(s.offset)..(Words(SlotEnd(s)) - 1)
  <2>1. /\ SlotWords(c) = UNION {W(c[k]) : k \in 1..(A + B)}
        /\ SlotWords(a) = UNION {W(a[k]) : k \in 1..A}
        /\ SlotWords(b) = UNION {W(b[k]) : k \in 1..B}
    BY <1>1 DEF SlotWords
  <2> HIDE DEF W
  <2>2. ASSUME NEW w  PROVE w \in SlotWords(c) <=> w \in SlotWords(a) \cup SlotWords(b)
    <3>1. w \in SlotWords(c) <=> \E k \in 1..(A + B) : w \in W(c[k])
      BY <2>1
    <3>2. /\ w \in SlotWords(a) <=> \E k \in 1..A : w \in W(a[k])
          /\ w \in SlotWords(b) <=> \E k \in 1..B : w \in W(b[k])
      BY <2>1
    <3>3. (\E k \in 1..(A + B) : w \in W(c[k])) =>
             (\E k \in 1..A : w \in W(a[k])) \/ (\E k \in 1..B : w \in W(b[k]))
      BY <1>1, <1>4
    <3>4. (\E k \in 1..A : w \in W(a[k])) => \E k \in 1..(A + B) : w \in W(c[k])
      BY <1>1
    <3>5. (\E k \in 1..B : w \in W(b[k])) => \E k \in 1..(A + B) : w \in W(c[k])
      <4>1. \A k \in 1..B : A + k \in 1..(A + B)
        BY <1>1
      <4> QED  BY <1>1, <4>1
    <3> QED  BY <3>1, <3>2, <3>3, <3>4, <3>5
  <2> QED  BY <2>2
<1> QED  BY <1>1, <1>8, <1>9 DEF c


(* The recursion of FlattenSeq.                                            *)
Flattens(f, q) == f[1] = q[1] /\ \A i \in 2..Len(q) : f[i] = f[i - 1] \o q[i]

LEMMA FlattenDef ==
  ASSUME NEW q, Len(q) \in Nat \ {0}
  PROVE  \E f : Flattens(f, q) /\ FlattenSeq(q) = f[Len(q)]
<1> DEFINE N == Len(q)
           Body(f, i) == IF i = 1 THEN q[i] ELSE f[i - 1] \o q[i]
           Solves(f, k) == f = [i \in 1..k |-> Body(f, i)]
           S == {k \in Nat : k <= N => \E f : Solves(f, k)}
<1>1. N \in Nat \ {0}
  OBVIOUS
<1> HIDE DEF Body
<1>2. 0 \in S
  <2> DEFINE f == [i \in 1..0 |-> {}]
  <2>0. 1..0 = {}
    OBVIOUS
  <2>1. Solves(f, 0)
    BY <2>0
  <2> QED  BY <2>1
<1>3. ASSUME NEW k \in Nat, k \in S  PROVE k + 1 \in S
  <2> SUFFICES ASSUME k + 1 <= N  PROVE \E f : Solves(f, k + 1)
    OBVIOUS
  <2>1. PICK f : Solves(f, k)
    BY <1>1, <1>3
  <2> DEFINE g == [i \in 1..(k + 1) |-> Body(f, i)]
  <2>2. ASSUME NEW i \in 1..k  PROVE f[i] = g[i]
    <3>1. f[i] = Body(f, i)
      BY <2>1
    <3> QED  BY <3>1
  <2>3. ASSUME NEW i \in 1..(k + 1)  PROVE Body(f, i) = Body(g, i)
    <3>1. CASE i = 1
      BY <3>1 DEF Body
    <3>2. CASE i # 1
      <4>1. i - 1 \in 1..k
        BY <3>2
      <4>2. f[i - 1] = g[i - 1]
        BY <2>2, <4>1
      <4> HIDE DEF g
      <4> QED  BY <3>2, <4>2 DEF Body
    <3> QED  BY <3>1, <3>2
  <2>4. Solves(g, k + 1)
    BY <2>3
  <2> QED  BY <2>4
<1> HIDE DEF S
<1>4. N \in S
  BY <1>1, <1>2, <1>3, Induction
<1> DEFINE f == CHOOSE f : Solves(f, N)
<1>5. Solves(f, N)
  <2>1. N <= N
    BY <1>1
  <2>2. \E h : Solves(h, N)
    BY ONLY <1>4, <2>1, Zenon DEF S
  <2> QED  BY ONLY <2>2, Zenon
<1>6. FlattenSeq(q) = f[N]
  <2>1. Len(q) # 0
    BY <1>1
  <2> QED  BY <2>1, Zenon DEF FlattenSeq, Body
<1> HIDE DEF f
<1>7. f[1] = q[1]
  BY <1>1, <1>5 DEF Body
<1>8. ASSUME NEW i \in 2..N  PROVE f[i] = f[i - 1] \o q[i]
  <2>1. i \in 1..N /\ i # 1
    BY <1>1
  <2>2. f[i] = Body(f, i)
    BY <1>5, <2>1
  <2> QED  BY <2>1, <2>2 DEF Body
<1> QED  BY <1>6, <1>7, <1>8 DEF Flattens

(* Lists of slots that lie in areas one after the other.                   *)
Laid(q, lo, hi, from, end) ==
  \A k \in 1..Len(q) :
    /\ q[k] \in Seq(PtrSlots) /\ lo[k] \in Nat /\ hi[k] \in Nat
    /\ SlotsInOrder(q[k], lo[k], hi[k])
    /\ from <= lo[k] /\ lo[k] <= hi[k] /\ hi[k] <= end
    /\ \A m \in 1..Len(q) : m > k => hi[k] <= lo[m]

WordsUpTo(q, n) == UNION {SlotWords(q[k]) : k \in 1..n}

LEMMA OrderWiden ==
  ASSUME NEW s \in Seq(PtrSlots), NEW x \in Nat, NEW y \in Nat, NEW z \in Nat,
         SlotsInOrder(s, x, y), y <= z
  PROVE  SlotsInOrder(s, x, z)
<1>1. ASSUME NEW k \in DOMAIN s  PROVE SlotEnd(s[k]) <= z
  <2>1. s[k] \in PtrSlots /\ s[k].offset % PtrSize = 0 /\ SlotEnd(s[k]) <= y
    BY SeqElements DEF SlotsInOrder
  <2>2. SlotEnd(s[k]) \in Nat
    BY <2>1, SlotFacts
  <2> QED  BY <2>1, <2>2
<1> QED  BY <1>1 DEF SlotsInOrder

LEMMA FlattenSlots ==
  ASSUME NEW q, Len(q) \in Nat, Len(q) = 0 => q = <<>>, NEW lo, NEW hi, NEW from \in Nat, NEW end \in Nat,
         Laid(q, lo, hi, from, end)
  PROVE  /\ FlattenSeq(q) \in Seq(PtrSlots) /\ SlotsInOrder(FlattenSeq(q), from, end)
         /\ SlotWords(FlattenSeq(q)) = WordsUpTo(q, Len(q))
<1> DEFINE N == Len(q)
<1>1. CASE N = 0
  <2>1. FlattenSeq(q) = <<>>
    BY <1>1 DEF FlattenSeq
  <2>2. WordsUpTo(q, N) = {}
    BY <1>1 DEF WordsUpTo
  <2> QED  BY <2>1, <2>2, NoSlots
<1>2. CASE N # 0
  <2>1. N \in Nat \ {0}
    BY <1>2
  <2>2. PICK f : Flattens(f, q) /\ FlattenSeq(q) = f[N]
    BY <2>1, FlattenDef
  <2> HIDE DEF N
  <2>3. \A k \in 1..N :
          /\ q[k] \in Seq(PtrSlots) /\ lo[k] \in Nat /\ hi[k] \in Nat
          /\ SlotsInOrder(q[k], lo[k], hi[k])
          /\ from <= lo[k] /\ lo[k] <= hi[k] /\ hi[k] <= end
          /\ \A m \in 1..N : m > k => hi[k] <= lo[m]
    BY DEF Laid, N
  <2> DEFINE P(i) == /\ f[i] \in Seq(PtrSlots) /\ SlotsInOrder(f[i], from, hi[i])
                     /\ SlotWords(f[i]) = WordsUpTo(q, i)
             S == {n \in Nat : n + 1 <= N => P(n + 1)}
  <2>4. 0 \in S
    <3>1. f[1] = q[1] /\ 1 \in 1..N
      BY <2>1, <2>2 DEF Flattens
    <3>2. SlotsInOrder(q[1], from, hi[1])
      <4>1. SlotsInOrder(q[1], lo[1], hi[1]) /\ from <= lo[1] /\ lo[1] \in Nat /\ q[1] \in Seq(PtrSlots)
        BY <2>3, <3>1
      <4>2. ASSUME NEW k \in DOMAIN q[1]  PROVE from <= q[1][k].offset
        <5>1. q[1][k] \in PtrSlots /\ lo[1] <= q[1][k].offset
          BY <4>1, SeqElements DEF SlotsInOrder
        <5> QED  BY <4>1, <5>1 DEF PtrSlots
      <4> QED  BY <4>1, <4>2 DEF SlotsInOrder
    <3>3. WordsUpTo(q, 1) = SlotWords(q[1])
      <4>1. 1..1 = {1}
        OBVIOUS
      <4> QED  BY <4>1 DEF WordsUpTo
    <3> QED  BY <2>3, <3>1, <3>2, <3>3
  <2>5. ASSUME NEW n \in Nat, n \in S  PROVE n + 1 \in S
    <3> SUFFICES ASSUME (n + 1) + 1 <= N  PROVE P((n + 1) + 1)
      OBVIOUS
    <3> DEFINE i == n + 1
               j == i + 1
    <3>1. i \in 1..N /\ j \in 1..N /\ j \in 2..N /\ j - 1 = i /\ j > i
      BY <2>1
    <3>2. P(i)
      BY <2>5, <3>1
    <3> HIDE DEF i
    <3>3. f[j] = f[i] \o q[j]
      <4> HIDE DEF j
      <4> QED  BY <2>2, <3>1 DEF Flattens, N
    <3>4. /\ q[j] \in Seq(PtrSlots) /\ lo[j] \in Nat /\ hi[j] \in Nat /\ hi[i] \in Nat
          /\ SlotsInOrder(q[j], lo[j], hi[j])
          /\ from <= lo[j] /\ hi[i] <= lo[j] /\ lo[j] <= hi[j]
      BY <2>3, <3>1
    <3>5. hi[i] <= hi[j]
      BY <3>4
    <3> DEFINE a == f[i]
               b == q[j]
               x == hi[i]
               v == lo[j]
               z == hi[j]
    <3>6. a \in Seq(PtrSlots) /\ SlotsInOrder(a, from, x) /\ SlotWords(a) = WordsUpTo(q, i)
      BY <3>2
    <3>7. b \in Seq(PtrSlots) /\ SlotsInOrder(b, v, z) /\ v \in Nat /\ z \in Nat /\ x \in Nat
      BY <3>4
    <3>8. from <= v /\ x <= v /\ x <= z /\ from \in Nat
      BY <3>4, <3>5
    <3> HIDE DEF a, b, x, v, z
    <3>9. /\ a \o b \in Seq(PtrSlots) /\ SlotsInOrder(a \o b, from, z)
          /\ SlotWords(a \o b) = SlotWords(a) \cup SlotWords(b)
      BY ONLY <3>6, <3>7, <3>8, SlotsConcat
    <3>10. WordsUpTo(q, j) = WordsUpTo(q, i) \cup SlotWords(q[j])
      <4>1. 1..j = (1..i) \cup {j}
        BY <3>1
      <4> HIDE DEF j
      <4> QED  BY <4>1, Zenon DEF WordsUpTo
    <3>11. f[j] \in Seq(PtrSlots) /\ SlotsInOrder(f[j], from, hi[j]) /\ SlotWords(f[j]) = WordsUpTo(q, j)
      BY <3>3, <3>6, <3>9, <3>10 DEF a, b, z
    <3> QED  BY <3>11 DEF i
  <2> HIDE DEF S
  <2>6. \A n \in Nat : n \in S
    BY <2>4, <2>5, Induction
  <2>7. P(N)
    <3>1. N - 1 \in Nat /\ (N - 1) + 1 = N
      BY <2>1
    <3> QED  BY <2>6, <3>1 DEF S
  <2>8. SlotsInOrder(f[N], from, end)
    <3>1. N \in 1..N
      BY <2>1
    <3>2. hi[N] \in Nat /\ hi[N] <= end
      BY <2>3, <3>1
    <3> QED  BY <2>7, <3>2, OrderWiden
  <2> QED  BY <2>2, <2>7, <2>8 DEF N
<1> QED  BY <1>1, <1>2

-----------------------------------------------------------------------------
(* Bit vectors of slots                                                    *)

SlotSpan(slot) == Words(slot.offset)..(Words(SlotEnd(slot)) - 1)

LEMMA AddBitsMap ==
  ASSUME NEW n \in Nat, NEW M \in SUBSET (0..(n - 1)), NEW slot \in PtrSlots,
         slot.offset % PtrSize = 0, n <= Words(slot.offset)
  PROVE  /\ AddBits(BitsOf(M, n), slot) = BitsOf(M \cup SlotSpan(slot), Words(SlotEnd(slot)))
         /\ M \cup SlotSpan(slot) \subseteq 0..(Words(SlotEnd(slot)) - 1)
<1> DEFINE o == Words(slot.offset)
           p == slot.ptrs
           e == Words(SlotEnd(slot))
           P == M \cup SlotSpan(slot)
           zeros == [k \in 1..(o - n) |-> 0]
           ones == [k \in 1..p |-> 1]
           bv == BitsOf(M, n)
<1>1. o \in Nat /\ p \in Nat \ {0} /\ e = o + p /\ n <= o /\ SlotSpan(slot) = o..(e - 1)
  BY SlotFacts DEF SlotSpan
<1>2. bv \in Seq(Bits) /\ Len(bv) = n
  BY BitsOfFacts
<1>3. AddBits(bv, slot) = (bv \o zeros) \o ones
  BY <1>2 DEF AddBits
<1> HIDE DEF o, p, e, bv
<1>4. P = M \cup (o..(e - 1))
  BY <1>1
<1> HIDE DEF P
<1>5. /\ \A k \in 1..(o - n) : n + k - 1 \notin M
      /\ \A k \in 1..o : k - 1 \in P <=> k - 1 \in M
      /\ \A k \in 1..p : o + k - 1 \in P
      /\ P \subseteq 0..(e - 1)
  <2>1. \A k \in 1..(o - n) : n + k - 1 \notin M
    BY <1>1
  <2>2. \A k \in 1..o : k - 1 \notin o..(e - 1)
    BY <1>1
  <2>3. \A k \in 1..p : o + k - 1 \in o..(e - 1)
    BY <1>1
  <2>4. M \subseteq 0..(e - 1) /\ o..(e - 1) \subseteq 0..(e - 1)
    BY <1>1
  <2> QED  BY ONLY <1>4, <2>1, <2>2, <2>3, <2>4
<1>6. bv \o zeros = BitsOf(M, o)
  <2> DEFINE s == zeros
             d == o - n
  <2>1. d \in Nat /\ n + d = o
    BY <1>1
  <2>2. s = [k \in 1..d |-> s[k]] /\ (\A k \in 1..d : s[k] \in Bits)
        /\ \A k \in 1..d : s[k] = 0
    BY DEF Bits
  <2>3. \A k \in 1..d : s[k] = IF n + k - 1 \in M THEN 1 ELSE 0
    BY <1>5, <2>2
  <2> HIDE DEF s, d
  <2>4. s \in Seq(Bits) /\ Len(s) = d
    BY <2>1, <2>2, MapSeq
  <2>5. BitsOf(M, n) \o s = BitsOf(M, n + Len(s))
    BY <2>3, <2>4, BitsMore
  <2> QED  BY <2>1, <2>4, <2>5 DEF s, bv
<1>7. BitsOf(M, o) = BitsOf(P, o)
  BY <1>5 DEF BitsOf
<1>8. BitsOf(P, o) \o ones = BitsOf(P, e)
  <2> DEFINE s == ones
  <2>1. s = [k \in 1..p |-> s[k]] /\ (\A k \in 1..p : s[k] \in Bits)
        /\ \A k \in 1..p : s[k] = 1
    BY DEF Bits
  <2>2. \A k \in 1..p : s[k] = IF o + k - 1 \in P THEN 1 ELSE 0
    BY <1>5, <2>1
  <2> HIDE DEF s
  <2>3. s \in Seq(Bits) /\ Len(s) = p
    BY <1>1, <2>1, MapSeq
  <2>4. BitsOf(P, o) \o s = BitsOf(P, o + Len(s))
    BY <1>1, <2>2, <2>3, BitsMore
  <2> QED  BY <1>1, <2>3, <2>4 DEF s
<1> HIDE DEF zeros, ones
<1>9. AddBits(bv, slot) = BitsOf(P, e)
  BY <1>3, <1>6, <1>7, <1>8
<1> QED  BY <1>5, <1>9 DEF P, bv, e

(* The recursion of AddedBits.                                             *)
Adds(f, bv, s) == f[0] = bv /\ \A n \in 1..Len(s) : f[n] = AddBits(f[n - 1], s[n])

LEMMA AddedDef ==
  ASSUME NEW s, Len(s) \in Nat, NEW bv
  PROVE  \E f : Adds(f, bv, s) /\ AddedBits(bv, s) = f[Len(s)]
<1> DEFINE N == Len(s)
           Body(f, n) == IF n = 0 THEN bv ELSE AddBits(f[n - 1], s[n])
           Solves(f, k) == f = [n \in 0..k |-> Body(f, n)]
           S == {k \in Nat : k <= N => \E f : Solves(f, k)}
<1>1. N \in Nat
  OBVIOUS
<1>2. 0 \in S
  <2> DEFINE f == [n \in 0..0 |-> bv]
  <2>1. Solves(f, 0)
    OBVIOUS
  <2> QED  BY <2>1
<1> HIDE DEF Body
<1>3. ASSUME NEW k \in Nat, k \in S  PROVE k + 1 \in S
  <2> SUFFICES ASSUME k + 1 <= N  PROVE \E f : Solves(f, k + 1)
    OBVIOUS
  <2>1. PICK f : Solves(f, k)
    BY <1>1, <1>3
  <2> DEFINE g == [n \in 0..(k + 1) |-> Body(f, n)]
  <2>2. ASSUME NEW n \in 0..k  PROVE f[n] = g[n]
    <3>1. f[n] = Body(f, n)
      BY <2>1
    <3> QED  BY <3>1
  <2>3. ASSUME NEW n \in 0..(k + 1)  PROVE Body(f, n) = Body(g, n)
    <3>1. CASE n = 0
      BY <3>1 DEF Body
    <3>2. CASE n # 0
      <4>1. n - 1 \in 0..k
        BY <3>2
      <4>2. f[n - 1] = g[n - 1]
        BY <2>2, <4>1
      <4> HIDE DEF g
      <4> QED  BY <3>2, <4>2 DEF Body
    <3> QED  BY <3>1, <3>2
  <2>4. Solves(g, k + 1)
    BY <2>3
  <2> QED  BY <2>4
<1> HIDE DEF S
<1>4. N \in S
  BY <1>1, <1>2, <1>3, Induction
<1> DEFINE f == CHOOSE f : Solves(f, N)
<1>5. Solves(f, N)
  BY <1>1, <1>4 DEF S
<1>6. AddedBits(bv, s) = f[N]
  BY Zenon DEF AddedBits, Body
<1> HIDE DEF f
<1>7. f[0] = bv
  BY <1>1, <1>5 DEF Body
<1>8. ASSUME NEW n \in 1..N  PROVE f[n] = AddBits(f[n - 1], s[n])
  <2>1. n \in 0..N /\ n # 0
    BY <1>1
  <2>2. f[n] = Body(f, n)
    BY <1>5, <2>1
  <2> QED  BY <2>1, <2>2 DEF Body
<1> QED  BY <1>6, <1>7, <1>8 DEF Adds


(* m bits of which those of M are set.                                     *)
BitsAre(bv, M, m) == m \in Nat /\ bv = BitsOf(M, m) /\ M \subseteq 0..(m - 1)

LEMMA BitsAreFacts ==
  ASSUME NEW bv, NEW M, NEW m, BitsAre(bv, M, m)
  PROVE  bv \in Seq(Bits) /\ Len(bv) = m /\ Ones(bv) = M
BY BitsOfFacts DEF BitsAre

SpanUpTo(s, n) == UNION {SlotSpan(s[k]) : k \in 1..n}

LEMMA TimesOrder ==
  ASSUME NEW n \in Nat, NEW m \in Nat, PtrSize * n <= PtrSize * m
  PROVE  n <= m
<1>1. PtrSize \in Nat \ {0}
  BY LayoutAssumption
<1>2. m < n => PtrSize * m < PtrSize * n
  BY <1>1
<1>3. PtrSize * m \in Nat /\ PtrSize * n \in Nat
  BY <1>1
<1> QED  BY <1>2, <1>3

(* The bits of slots that begin after those that are there.                *)
LEMMA AddedBitsMap ==
  ASSUME NEW b, NEW M, NEW n, BitsAre(b, M, n), NEW s \in Seq(PtrSlots),
         NEW x \in Nat, NEW y \in Nat, PtrSize * n <= x, x <= y, SlotsInOrder(s, x, y)
  PROVE  \E m \in Nat : /\ BitsAre(AddedBits(b, s), M \cup SlotWords(s), m)
                        /\ PtrSize * m <= y
<1> DEFINE N == Len(s)
           E(k) == IF k = 0 THEN x ELSE SlotEnd(s[k])
<1>1. /\ N \in Nat /\ DOMAIN s = 1..N /\ n \in Nat /\ M \subseteq 0..(n - 1)
      /\ PtrSize \in Nat \ {0}
  BY LayoutAssumption DEF BitsAre
<1>2. \A k \in 1..N :
        /\ s[k] \in PtrSlots /\ s[k].offset % PtrSize = 0 /\ x <= s[k].offset /\ SlotEnd(s[k]) <= y
        /\ \A m \in 1..N : m > k => SlotEnd(s[k]) <= s[m].offset
  BY <1>1, SeqElements DEF SlotsInOrder
<1>3. PICK f : Adds(f, b, s) /\ AddedBits(b, s) = f[N]
  BY <1>1, AddedDef
<1> HIDE DEF N
<1> DEFINE P(k, m) == BitsAre(f[k], M \cup SpanUpTo(s, k), m) /\ PtrSize * m <= E(k)
           Q(k) == \E m \in Nat : P(k, m)
           S == {k \in Nat : k <= N => Q(k)}
<1> HIDE DEF P
<1>4. 0 \in S
  <2>1. f[0] = b /\ SpanUpTo(s, 0) = {} /\ M \cup {} = M
    BY <1>3 DEF Adds, SpanUpTo
  <2>2. P(0, n)
    BY <2>1 DEF P
  <2> QED  BY <1>1, <2>2
<1> HIDE DEF Q
<1>5. ASSUME NEW i \in Nat, i \in S  PROVE i + 1 \in S
  <2> SUFFICES ASSUME i + 1 <= N  PROVE Q(i + 1)
    OBVIOUS
  <2> DEFINE k == i + 1
             slot == s[k]
             e == Words(SlotEnd(slot))
             O == M \cup SpanUpTo(s, i)
  <2>1. k \in 1..N /\ k - 1 = i /\ i < k
    BY <1>1
  <2>0. Q(i)
    BY <1>1, <1>5, <2>1
  <2>2. PICK m \in Nat : P(i, m)
    BY <2>0 DEF Q
  <2> HIDE DEF k
  <2>3. f[k] = AddBits(f[i], slot)
    BY <1>3, <2>1 DEF Adds, N
  <2>4. slot \in PtrSlots /\ slot.offset % PtrSize = 0 /\ E(i) <= slot.offset
    <3>1. CASE i = 0
      BY <1>2, <2>1, <3>1
    <3>2. CASE i # 0
      <4>1. i \in 1..N
        BY <1>1, <2>1, <3>2
      <4> QED  BY <1>2, <2>1, <3>2, <4>1
    <3> QED  BY <3>1, <3>2
  <2>5. /\ slot.offset \in Nat /\ SlotEnd(slot) \in Nat /\ SlotEnd(slot) % PtrSize = 0
        /\ Words(slot.offset) \in Nat /\ e \in Nat /\ slot.offset = PtrSize * Words(slot.offset)
        /\ SlotEnd(slot) = PtrSize * e
    BY <2>4, SlotFacts, WordsFacts
  <2>6. m <= Words(slot.offset)
    <3>1. E(i) \in Nat
      <4>1. CASE i = 0
        BY <4>1
      <4>2. CASE i # 0
        <5>1. i \in 1..N
          BY <1>1, <2>1, <4>2
        <5> QED  BY <1>2, <4>2, <5>1, SlotFacts
      <4> QED  BY <4>1, <4>2
    <3>2. PtrSize * m <= E(i)
      BY <2>2 DEF P
    <3> DEFINE ei == E(i)
               w == Words(slot.offset)
    <3>3. w \in Nat /\ slot.offset = PtrSize * w
      BY <2>5
    <3> HIDE DEF E, ei, w
    <3>4. PtrSize * m <= PtrSize * w
      <4>1. PtrSize * m <= ei /\ ei <= PtrSize * w /\ ei \in Nat
        BY <2>4, <3>1, <3>2, <3>3 DEF ei
      <4>2. PtrSize * m \in Nat /\ PtrSize * w \in Nat
        BY <1>1, <3>3
      <4> QED  BY ONLY <4>1, <4>2
    <3> QED  BY <3>3, <3>4, TimesOrder DEF w
  <2>7. m \in Nat /\ O \in SUBSET (0..(m - 1)) /\ f[i] = BitsOf(O, m)
    BY <2>2 DEF BitsAre, P
  <2>8. SpanUpTo(s, k) = SpanUpTo(s, i) \cup SlotSpan(slot)
    <3>1. 1..k = (1..i) \cup {k}
      BY <2>1
    <3> QED  BY <3>1, Zenon DEF SpanUpTo
  <2> HIDE DEF O, slot
  <2>9. /\ AddBits(BitsOf(O, m), slot) = BitsOf(O \cup SlotSpan(slot), Words(SlotEnd(slot)))
        /\ O \cup SlotSpan(slot) \subseteq 0..(Words(SlotEnd(slot)) - 1)
    BY ONLY <2>4, <2>6, <2>7, AddBitsMap
  <2>10. M \cup SpanUpTo(s, k) = O \cup SlotSpan(slot)
    BY <2>8 DEF O
  <2>11. BitsAre(f[k], M \cup SpanUpTo(s, k), e)
    BY <2>3, <2>5, <2>7, <2>9, <2>10 DEF BitsAre
  <2>12. PtrSize * e <= E(k)
    <3>1. E(k) = PtrSize * e /\ PtrSize * e \in Nat
      BY <2>1, <2>5 DEF slot
    <3> QED  BY <3>1
  <2> HIDE DEF E, e
  <2>13. P(k, e) /\ e \in Nat
    BY <2>5, <2>11, <2>12 DEF e, P
  <2> QED  BY <2>13 DEF k, Q
<1> HIDE DEF S
<1>6. \A k \in Nat : k \in S
  BY <1>4, <1>5, Induction
<1>7. PICK m \in Nat : /\ BitsAre(f[N], M \cup SpanUpTo(s, N), m)
                        /\ PtrSize * m <= E(N)
  <2>1. Q(N)
    BY <1>1, <1>6 DEF S
  <2> QED  BY <2>1 DEF Q, P
<1>8. SpanUpTo(s, N) = SlotWords(s)
  BY <1>1 DEF SpanUpTo, SlotSpan, SlotWords
<1>9. PtrSize * m <= y
  <2>1. CASE N = 0
    BY <1>1, <1>7, <2>1
  <2>2. CASE N # 0
    <3>1. N \in 1..N
      BY <1>1, <2>2
    <3>2. SlotEnd(s[N]) \in Nat /\ SlotEnd(s[N]) <= y
      BY <1>2, <3>1, SlotFacts
    <3> QED  BY <1>1, <1>7, <2>2, <3>2
  <2> QED  BY <2>1, <2>2
<1> QED  BY <1>3, <1>7, <1>8, <1>9

-----------------------------------------------------------------------------
(* Which words of a type have pointers                                     *)

MarksOf(ty) == IF ty.prog THEN Ones(Run(ty.program)) ELSE ty.mask

PartMark(ts, part)   == Shift(MarksOf(ts[part.typ]), Words(part.offset))
PartMarks(ts, parts) == UNION {PartMark(ts, parts[k]) : k \in DOMAIN parts}

(* What holds of the pointer map of a type.                                *)
MapRules(ty) ==
  /\ ty.ptrdata \in Nat /\ ty.ptrdata <= ty.size /\ ty.ptrdata % PtrSize = 0
  /\ ty.ptrdata # 0 => ty.align = PtrSize /\ MarksOf(ty) # {}
  /\ MarksOf(ty) \subseteq 0..(Words(ty.ptrdata) - 1)
  /\ ty.prog => ty.ptrdata # 0 /\ Emits(ty.program, MarksOf(ty), Words(ty.ptrdata))
  /\ ~ty.prog => /\ ty.bits \in Nat /\ Words(ty.ptrdata) <= ty.bits
                 /\ ty.ptrdata # 0 => Words(ty.ptrdata) - 1 \in ty.mask

(* Of one that is made of parts.                                           *)
PartsRules(ts, ty) ==
  /\ IsList(ty.parts) /\ \A n \in DOMAIN ty.parts : ty.parts[n].offset \in Nat
  /\ MarksOf(ty) = PartMarks(ts, ty.parts)
  /\ ty.kind # "bucket" =>
       /\ Apart(ts, ty.parts, ty.size)
       /\ \A n \in DOMAIN ty.parts : ts[ty.parts[n].typ].kind # "bucket"

NoBuckets == \A n \in DOMAIN fs : types[fs[n].typ].kind # "bucket"

Maps == ~wrapped => /\ \A t \in DOMAIN types : MapRules(types[t])
                    /\ \A t \in MadeTypes : PartsRules(types, types[t])

MapInv == LayoutInv /\ NoBuckets /\ Maps

LEMMA NoMarks ==
  ASSUME NEW ty, MapRules(ty), ty.ptrdata = 0
  PROVE  ~ty.prog /\ MarksOf(ty) = {}
<1>1. Words(0) = 0
  BY LayoutAssumption DEF Words
<1>2. 0..(0 - 1) = {}
  OBVIOUS
<1> QED  BY <1>1, <1>2 DEF MapRules

(* The recursion of Slots.                                                 *)
SlotList(f, ts, parts) == [k \in DOMAIN parts |-> Shifted(f[parts[k].typ], parts[k].offset)]

SlotsOf(f, t) ==
  IF ~Pointers(t) THEN <<>>
  ELSE IF t <= Len(BasicTypes) THEN types[t].slots
  ELSE FlattenSeq(SlotList(f, types, types[t].parts))

LEMMA SlotsAgree ==
  ASSUME LayoutInv, NEW t \in DOMAIN types, NEW f, NEW g,
         \A u \in 1..(t - 1) : f[u] = g[u]
  PROVE  SlotsOf(f, t) = SlotsOf(g, t)
<1>1. \A n \in DOMAIN types[t].parts : types[t].parts[n].typ \in 1..(t - 1)
  BY DEF LayoutInv, Alignments
<1>2. SlotList(f, types, types[t].parts) = SlotList(g, types, types[t].parts)
  BY <1>1 DEF SlotList
<1> QED  BY <1>2, Zenon DEF SlotsOf

LEMMA SlotsDef ==
  ASSUME LayoutInv
  PROVE  \A t \in DOMAIN types : Slots[t] = SlotsOf(Slots, t)
<1> DEFINE N == Len(types)
           Solves(f, n) == f = [t \in 1..n |-> SlotsOf(f, t)]
           S == {n \in Nat : n <= N => \E f : Solves(f, n)}
<1>1. N \in Nat /\ DOMAIN types = 1..N
  BY DEF LayoutInv, Inv, TypeOK
<1>2. 0 \in S
  <2> DEFINE f == [t \in 1..0 |-> {}]
  <2>1. Solves(f, 0)
    OBVIOUS
  <2> QED  BY <2>1
<1>3. ASSUME NEW n \in Nat, n \in S  PROVE n + 1 \in S
  <2> SUFFICES ASSUME n + 1 <= N  PROVE \E f : Solves(f, n + 1)
    OBVIOUS
  <2>1. PICK f : Solves(f, n)
    BY <1>1, <1>3
  <2> DEFINE g == [t \in 1..(n + 1) |-> SlotsOf(f, t)]
  <2>2. \A t \in 1..n : f[t] = g[t]
    <3>1. \A t \in 1..n : f[t] = SlotsOf(f, t)
      BY <2>1
    <3> QED  BY <3>1
  <2>3. ASSUME NEW t \in 1..(n + 1)  PROVE SlotsOf(f, t) = SlotsOf(g, t)
    <3>1. t \in DOMAIN types /\ \A u \in 1..(t - 1) : f[u] = g[u]
      BY <1>1, <2>2
    <3> HIDE DEF g
    <3> QED  BY <3>1, SlotsAgree
  <2>4. Solves(g, n + 1)
    BY <2>3
  <2> QED  BY <2>4
<1> HIDE DEF S
<1>4. N \in S
  BY <1>1, <1>2, <1>3, Induction
<1>5. PICK f : f = [t \in DOMAIN types |-> SlotsOf(f, t)]
  BY <1>1, <1>4 DEF S
<1>6. Slots = [t \in DOMAIN types |-> SlotsOf(Slots, t)]
  BY <1>5, Zenon DEF Slots, SlotsOf, SlotList
<1> QED  BY <1>6

(* The slots of parts that are apart, and where they end.                  *)
Fits(sl, ty) ==
  /\ sl \in Seq(PtrSlots) /\ SlotsInOrder(sl, 0, ty.size) /\ SlotWords(sl) = MarksOf(ty)
  /\ ty.ptrdata = 0 => sl = <<>>

LEMMA PartSlots ==
  ASSUME NEW f, NEW ts, NEW parts, IsList(parts), NEW from \in Nat, NEW end \in Nat, Apart(ts, parts, end),
         \A n \in DOMAIN parts : /\ parts[n].offset \in Nat /\ from <= parts[n].offset
                                 /\ ts[parts[n].typ].size \in Nat
                                 /\ Fits(f[parts[n].typ], ts[parts[n].typ])
                                 /\ ts[parts[n].typ].ptrdata # 0 => parts[n].offset % PtrSize = 0
  PROVE  /\ FlattenSeq(SlotList(f, ts, parts)) \in Seq(PtrSlots)
         /\ SlotsInOrder(FlattenSeq(SlotList(f, ts, parts)), from, end)
         /\ SlotWords(FlattenSeq(SlotList(f, ts, parts))) = PartMarks(ts, parts)
<1> DEFINE q == SlotList(f, ts, parts)
           N == Len(parts)
           lo == [k \in 1..N |-> parts[k].offset]
           hi == [k \in 1..N |-> parts[k].offset + ts[parts[k].typ].size]
<1>1. N \in Nat /\ DOMAIN parts = 1..N
  BY ListFacts
<1>2. ASSUME NEW k \in 1..N
      PROVE  /\ q[k] \in Seq(PtrSlots) /\ SlotsInOrder(q[k], lo[k], hi[k])
             /\ SlotWords(q[k]) = PartMark(ts, parts[k])
             /\ lo[k] \in Nat /\ hi[k] \in Nat /\ from <= lo[k] /\ lo[k] <= hi[k] /\ hi[k] <= end
             /\ \A m \in 1..N : m > k => hi[k] <= lo[m]
  <2> DEFINE ty == ts[parts[k].typ]
             s == f[parts[k].typ]
             by == parts[k].offset
             z == ty.size
  <2>1. by \in Nat /\ from <= by /\ z \in Nat /\ lo[k] = by /\ hi[k] = by + z
    BY <1>1
  <2>2. hi[k] <= end /\ \A m \in 1..N : m > k => hi[k] <= lo[m]
    BY <1>1 DEF Apart
  <2>3. q[k] = Shifted(s, by)
    BY <1>1 DEF SlotList
  <2>4. /\ s \in Seq(PtrSlots) /\ SlotsInOrder(s, 0, z) /\ SlotWords(s) = MarksOf(ty)
        /\ ty.ptrdata = 0 => s = <<>>
    BY <1>1 DEF Fits
  <2>5. PartMark(ts, parts[k]) = Shift(MarksOf(ty), Words(by))
    BY DEF PartMark
  <2>6. ty.ptrdata # 0 => by % PtrSize = 0
    BY <1>1
  <2> HIDE DEF q, ty, s, by, z
  <2>7. /\ q[k] \in Seq(PtrSlots) /\ SlotsInOrder(q[k], by, by + z)
        /\ SlotWords(q[k]) = Shift(MarksOf(ty), Words(by))
    <3>1. CASE ty.ptrdata = 0
      <4>1. s = <<>> /\ SlotWords(s) = {}
        BY <2>4, <3>1, NoSlots
      <4>2. Shifted(s, by) = <<>>
        BY <4>1 DEF Shifted
      <4>3. Shift(MarksOf(ty), Words(by)) = {}
        BY <2>4, <4>1 DEF Shift
      <4> QED  BY <2>3, <4>2, <4>3, NoSlots
    <3>2. CASE ty.ptrdata # 0
      BY <2>1, <2>3, <2>4, <2>6, <3>2, ShiftedInOrder
    <3> QED  BY <3>1, <3>2
  <2> QED  BY <2>1, <2>2, <2>5, <2>7
<1>3. Len(q) = N /\ DOMAIN q = 1..N /\ (N = 0 => q = <<>>)
  <2>1. q = [k \in 1..N |-> q[k]] /\ \A k \in 1..N : q[k] \in Seq(PtrSlots)
    BY <1>1, <1>2 DEF SlotList
  <2> HIDE DEF q
  <2>2. q \in Seq(Seq(PtrSlots)) /\ Len(q) = N
    BY ONLY <1>1, <2>1, MapSeq
  <2> QED  BY <2>2
<1> HIDE DEF q, lo, hi
<1>4. Laid(q, lo, hi, from, end)
  <2> HIDE DEF N
  <2>1. Len(q) = N
    BY <1>3
  <2> QED  BY ONLY <1>2, <2>1, Zenon DEF Laid
<1>5. /\ FlattenSeq(q) \in Seq(PtrSlots) /\ SlotsInOrder(FlattenSeq(q), from, end)
      /\ SlotWords(FlattenSeq(q)) = WordsUpTo(q, Len(q))
  BY <1>1, <1>3, <1>4, FlattenSlots
<1>6. WordsUpTo(q, N) = PartMarks(ts, parts)
  <2>1. {SlotWords(q[k]) : k \in 1..N} = {PartMark(ts, parts[k]) : k \in 1..N}
    BY <1>2
  <2> QED  BY <1>1, <2>1, Zenon DEF WordsUpTo, PartMarks
<1> QED  BY <1>3, <1>5, <1>6 DEF q

LEMMA BasicMarks ==
  ASSUME LayoutInv, NEW t \in DOMAIN BasicTypes
  PROVE  /\ types[t] = BasicTypes[t] /\ t \in DOMAIN types
         /\ MarksOf(types[t]) = types[t].mask
BY MapsAssumption DEF LayoutInv, Linked, MarksOf

(* Parts with pointers begin with a word.                                  *)
LEMMA PartsAligned ==
  ASSUME MapInv, ~wrapped, NEW t \in MadeTypes, NEW n \in DOMAIN types[t].parts,
         types[types[t].parts[n].typ].ptrdata # 0
  PROVE  types[t].parts[n].offset % PtrSize = 0
<1> DEFINE u == types[t].parts[n].typ
<1>1. t \in DOMAIN types
  BY LayoutAssumption DEF MapInv, LayoutInv, Inv, TypeOK, MadeTypes
<1>2. u \in DOMAIN types
  BY <1>1 DEF MapInv, LayoutInv, Inv, TypeOK
<1>3. types[u].align = PtrSize
  BY <1>2 DEF MapInv, Maps, MapRules
<1>4. types[t].parts[n].offset % types[u].align = 0
  BY DEF MapInv, LayoutInv, StructRules
<1> QED  BY <1>3, <1>4

LEMMA BasicFits ==
  ASSUME MapInv, ~wrapped, NEW t \in DOMAIN BasicTypes
  PROVE  Fits(Slots[t], types[t])
<1> DEFINE ty == types[t]
<1>1. /\ LayoutInv /\ t \in DOMAIN types /\ ty = BasicTypes[t]
      /\ MarksOf(ty) = ty.mask /\ t <= Len(BasicTypes) /\ MapRules(ty)
  BY BasicMarks, LayoutAssumption DEF MapInv, LayoutInv, Linked, Maps
<1>2. Slots[t] = SlotsOf(Slots, t)
  BY <1>1, SlotsDef
<1>3. CASE ty.ptrdata = 0
  <2>1. Slots[t] = <<>>
    BY <1>2, <1>3 DEF SlotsOf, Pointers
  <2>2. MarksOf(ty) = {}
    BY <1>1, <1>3, NoMarks
  <2> QED  BY <1>3, <2>1, <2>2, NoSlots DEF Fits
<1>4. CASE ty.ptrdata # 0
  <2>1. Slots[t] = ty.slots
    BY <1>1, <1>2, <1>4 DEF SlotsOf, Pointers
  <2>2. /\ ty.slots \in Seq(PtrSlots) /\ SlotsInOrder(ty.slots, 0, ty.size)
        /\ SlotWords(ty.slots) = ty.mask
    BY <1>1, MapsAssumption
  <2> QED  BY <1>1, <1>4, <2>1, <2>2 DEF Fits
<1> QED  BY <1>3, <1>4

(* addTypeBits and the pointer maps tell of the same words.                *)
LEMMA SlotsFit ==
  ASSUME MapInv, ~wrapped
  PROVE  \A t \in Usable : Fits(Slots[t], types[t])
<1> DEFINE N == Len(types)
           B == Len(BasicTypes)
           OK(t) == types[t].kind # "bucket" => Fits(Slots[t], types[t])
           S == {n \in Nat : \A t \in 1..n : t <= N => OK(t)}
<1> HIDE DEF OK
<1>1. /\ N \in Nat /\ DOMAIN types = 1..N /\ B \in Nat /\ DOMAIN BasicTypes = 1..B
      /\ LayoutInv
  BY LayoutAssumption DEF MapInv, LayoutInv, Inv, TypeOK
<1>2. 0 \in S
  OBVIOUS
<1>3. ASSUME NEW n \in Nat, n \in S  PROVE n + 1 \in S
  <2> DEFINE t == n + 1
             ty == types[t]
  <2> SUFFICES ASSUME t <= N, ty.kind # "bucket"  PROVE Fits(Slots[t], ty)
    BY <1>3 DEF OK
  <2>1. t \in DOMAIN types /\ Slots[t] = SlotsOf(Slots, t)
    BY <1>1, SlotsDef
  <2>2. MapRules(ty) /\ ty.size \in Nat
    BY <1>1, <2>1 DEF MapInv, Maps, LayoutInv, Inv, TypeOK
  <2>3. CASE ty.ptrdata = 0
    <3>1. Slots[t] = <<>>
      BY <2>1, <2>3 DEF SlotsOf, Pointers
    <3>2. MarksOf(ty) = {}
      BY <2>2, <2>3, NoMarks
    <3> QED  BY <3>1, <3>2, NoSlots DEF Fits
  <2>4. CASE t <= B
    BY <1>1, <2>4, BasicFits
  <2>5. CASE ty.ptrdata # 0 /\ ~(t <= B)
    <3> DEFINE parts == ty.parts
    <3>1. t \in MadeTypes
      BY <1>1, <2>1, <2>5 DEF MadeTypes
    <3>2. /\ IsList(parts) /\ MarksOf(ty) = PartMarks(types, parts) /\ Apart(types, parts, ty.size)
          /\ \A k \in DOMAIN parts : /\ types[parts[k].typ].kind # "bucket"
                                     /\ parts[k].offset \in Nat
      BY <3>1 DEF MapInv, Maps, PartsRules
    <3>3. ASSUME NEW k \in DOMAIN parts
          PROVE  /\ types[parts[k].typ].size \in Nat
                 /\ Fits(Slots[parts[k].typ], types[parts[k].typ])
                 /\ types[parts[k].typ].ptrdata # 0 => parts[k].offset % PtrSize = 0
      <4> DEFINE u == parts[k].typ
      <4>1. u \in 1..(t - 1)
        BY <1>1, <2>1 DEF LayoutInv, Alignments
      <4>2. u \in 1..n /\ u <= N /\ u \in DOMAIN types
        BY <1>1, <2>1, <4>1
      <4>3. types[u].kind # "bucket"
        BY <3>2
      <4> HIDE DEF u
      <4>4. OK(u)
        BY <1>3, <4>2
      <4>5. Fits(Slots[u], types[u])
        BY <4>3, <4>4 DEF OK
      <4>6. types[u].size \in Nat
        BY <1>1, <4>2 DEF LayoutInv, Inv, TypeOK
      <4>7. types[u].ptrdata # 0 => parts[k].offset % PtrSize = 0
        BY <3>1, PartsAligned DEF u
      <4> QED  BY <4>5, <4>6, <4>7 DEF u
    <3> DEFINE flat == FlattenSeq(SlotList(Slots, types, parts))
    <3>4. Slots[t] = flat
      BY <2>1, <2>5 DEF SlotsOf, Pointers
    <3> HIDE DEF t
    <3>5. /\ flat \in Seq(PtrSlots) /\ SlotsInOrder(flat, 0, ty.size)
          /\ SlotWords(flat) = PartMarks(types, parts)
      <4> DEFINE end == ty.size
      <4>1. end \in Nat /\ IsList(parts) /\ Apart(types, parts, end)
        BY <2>2, <3>2
      <4> HIDE DEF ty, parts, end
      <4>2. \A k \in DOMAIN parts :
              /\ parts[k].offset \in Nat /\ 0 <= parts[k].offset /\ types[parts[k].typ].size \in Nat
              /\ Fits(Slots[parts[k].typ], types[parts[k].typ])
              /\ types[parts[k].typ].ptrdata # 0 => parts[k].offset % PtrSize = 0
        BY <3>2, <3>3
      <4>0. 0 \in Nat
        OBVIOUS
      <4>3. /\ flat \in Seq(PtrSlots) /\ SlotsInOrder(flat, 0, end)
            /\ SlotWords(flat) = PartMarks(types, parts)
        BY ONLY <4>0, <4>1, <4>2, PartSlots
      <4> QED  BY <4>3 DEF end
    <3> HIDE DEF flat
    <3> QED  BY <2>5, <3>2, <3>4, <3>5 DEF Fits
  <2> QED  BY <1>1, <2>3, <2>4, <2>5
<1> HIDE DEF S
<1>4. \A n \in Nat : n \in S
  BY <1>2, <1>3, Induction
<1>5. ASSUME NEW t \in Usable  PROVE Fits(Slots[t], types[t])
  <2>1. t \in 1..N /\ types[t].kind # "bucket"
    BY <1>1 DEF Usable
  <2> QED  BY <1>1, <1>4, <2>1 DEF S, OK
<1> QED  BY <1>5

(* The first bytes of the words of M.                                      *)
BytesOf(M) == {j * PtrSize : j \in M}

LEMMA ShiftBytes ==
  ASSUME NEW by \in Nat, NEW n \in Nat, NEW M \in SUBSET (0..(n - 1)),
         M # {} => by % PtrSize = 0
  PROVE  {by + o : o \in BytesOf(M)} = BytesOf(Shift(M, Words(by)))
<1>1. CASE M = {}
  BY <1>1 DEF BytesOf, Shift
<1>2. CASE M # {}
  <2> DEFINE w == Words(by)
  <2>1. w \in Nat /\ by = PtrSize * w /\ PtrSize \in Nat \ {0}
    BY <1>2, WordsFacts, LayoutAssumption
  <2> HIDE DEF w
  <2>2. ASSUME NEW j \in M  PROVE by + j * PtrSize = (w + j) * PtrSize
    <3>1. j \in Nat
      OBVIOUS
    <3> QED  BY <2>1, <3>1
  <2>3. {by + o : o \in BytesOf(M)} = {by + j * PtrSize : j \in M}
    BY DEF BytesOf
  <2>4. BytesOf(Shift(M, w)) = {(w + j) * PtrSize : j \in M}
    BY DEF BytesOf, Shift
  <2> QED  BY <2>2, <2>3, <2>4 DEF w
<1> QED  BY <1>1, <1>2

LEMMA OffsetsAre ==
  ASSUME MapInv, ~wrapped
  PROVE  \A t \in DOMAIN types : PtrOffsets[t] = BytesOf(MarksOf(types[t]))
<1> DEFINE N == Len(types)
           B == Len(BasicTypes)
           OK(t) == PtrOffsets[t] = BytesOf(MarksOf(types[t]))
           S == {n \in Nat : \A t \in 1..n : t <= N => OK(t)}
<1> HIDE DEF OK
<1>1. /\ N \in Nat /\ DOMAIN types = 1..N /\ B \in Nat /\ DOMAIN BasicTypes = 1..B
      /\ LayoutInv
  BY LayoutAssumption DEF MapInv, LayoutInv, Inv, TypeOK
<1>2. 0 \in S
  OBVIOUS
<1>3. ASSUME NEW n \in Nat, n \in S  PROVE n + 1 \in S
  <2> DEFINE t == n + 1
             ty == types[t]
  <2> SUFFICES ASSUME t <= N  PROVE PtrOffsets[t] = BytesOf(MarksOf(ty))
    BY <1>3 DEF OK
  <2>1. t \in DOMAIN types /\ PtrOffsets[t] = OffsetsOf(PtrOffsets, t)
    BY <1>1, PtrOffsetsDef
  <2>2. CASE t <= B
    <3>1. t \in DOMAIN BasicTypes
      BY <1>1, <2>2
    <3>2. MarksOf(ty) = ty.mask
      BY <1>1, <3>1, BasicMarks
    <3> QED  BY <2>1, <2>2, <3>2 DEF OffsetsOf, BytesOf
  <2>3. CASE ~(t <= B)
    <3> DEFINE parts == ty.parts
    <3>1. t \in MadeTypes
      BY <1>1, <2>1, <2>3 DEF MadeTypes
    <3>2. /\ MarksOf(ty) = PartMarks(types, parts)
          /\ \A k \in DOMAIN parts : parts[k].offset \in Nat
      BY <3>1 DEF MapInv, Maps, PartsRules
    <3>3. ASSUME NEW k \in DOMAIN parts
          PROVE  PartOffsets(PtrOffsets, t, k) = BytesOf(PartMark(types, parts[k]))
      <4> DEFINE u == parts[k].typ
                 M == MarksOf(types[u])
                 m == Words(types[u].ptrdata)
                 by == parts[k].offset
      <4>1. u \in 1..(t - 1)
        BY <1>1, <2>1 DEF LayoutInv, Alignments
      <4>2. u \in 1..n /\ u <= N /\ u \in DOMAIN types
        BY <1>1, <2>1, <4>1
      <4>3. OK(u)
        <5> HIDE DEF u
        <5> QED  BY <1>3, <4>2
      <4>4. MapRules(types[u])
        <5>1. \A v \in DOMAIN types : MapRules(types[v])
          BY Zenon DEF MapInv, Maps
        <5> QED  BY ONLY <4>2, <5>1, Zenon
      <4>5. M \in SUBSET (0..(m - 1)) /\ m \in Nat
        BY <4>4, WordsFacts DEF MapRules
      <4>6. M # {} => by % PtrSize = 0
        BY <3>1, <4>4, NoMarks, PartsAligned
      <4>7. PartOffsets(PtrOffsets, t, k) = {by + o : o \in BytesOf(M)}
        BY <4>3 DEF PartOffsets, OK
      <4>8. by \in Nat
        BY <3>2
      <4>9. PartMark(types, parts[k]) = Shift(M, Words(by))
        BY DEF PartMark
      <4> HIDE DEF M, m, by
      <4> QED  BY <4>5, <4>6, <4>7, <4>8, <4>9, ShiftBytes
    <3>4. OffsetsOf(PtrOffsets, t) = UNION {BytesOf(PartMark(types, parts[k])) : k \in DOMAIN parts}
      <4>1. OffsetsOf(PtrOffsets, t) = UNION {PartOffsets(PtrOffsets, t, k) : k \in DOMAIN parts}
        BY <2>3 DEF OffsetsOf
      <4>2. {PartOffsets(PtrOffsets, t, k) : k \in DOMAIN parts}
              = {BytesOf(PartMark(types, parts[k])) : k \in DOMAIN parts}
        BY <3>3
      <4> QED  BY <4>1, <4>2
    <3>5. UNION {BytesOf(PartMark(types, parts[k])) : k \in DOMAIN parts}
            = BytesOf(PartMarks(types, parts))
      BY DEF BytesOf, PartMarks
    <3> QED  BY <2>1, <3>2, <3>4, <3>5
  <2> QED  BY <2>2, <2>3
<1> HIDE DEF S
<1>4. \A n \in Nat : n \in S
  BY <1>2, <1>3, Induction
<1>5. ASSUME NEW t \in DOMAIN types  PROVE OK(t)
  <2>1. t \in 1..N
    BY <1>1
  <2> QED  BY <1>1, <1>4, <2>1 DEF S
<1> QED  BY <1>5 DEF OK

LEMMA MapsTell ==
  ASSUME MapInv
  PROVE  PointerMap /\ MapFits
<1> SUFFICES ASSUME ~wrapped  PROVE PointerMap /\ MapFits
  BY DEF PointerMap, MapFits
<1> SUFFICES ASSUME NEW t \in MadeTypes
             PROVE  LET ty == types[t] IN
                    /\ {j * PtrSize : j \in MarkedWords(t)} = PtrOffsets[t]
                    /\ ty.prog => Len(Run(ty.program)) * PtrSize = ty.ptrdata
                    /\ ~ty.prog => Words(ty.ptrdata) <= ty.bits /\ ty.mask \subseteq 0..(ty.bits - 1)
                    /\ ty.ptrdata <= ty.size /\ ty.ptrdata % PtrSize = 0
                    /\ ty.ptrdata = 0 <=> PtrOffsets[t] = {}
  BY DEF PointerMap, MapFits
<1> DEFINE ty == types[t]
           W == Words(ty.ptrdata)
<1>1. t \in DOMAIN types
  BY LayoutAssumption DEF MapInv, LayoutInv, Inv, TypeOK, MadeTypes
<1>2. MapRules(ty)
  BY <1>1 DEF MapInv, Maps
<1>3. PtrOffsets[t] = BytesOf(MarksOf(ty))
  BY <1>1, OffsetsAre
<1>4. W \in Nat /\ ty.ptrdata = PtrSize * W /\ PtrSize \in Nat \ {0}
  BY <1>2, WordsFacts, LayoutAssumption DEF MapRules
<1>5. MarkedWords(t) = MarksOf(ty)
  <2>1. CASE ty.prog
    BY <2>1 DEF MarkedWords, MarksOf
  <2>2. CASE ~ty.prog
    <3>1. ty.mask \subseteq 0..(W - 1)
      BY <1>2, <2>2 DEF MapRules, MarksOf
    <3>2. MarkedWords(t) = ty.mask \cap 0..(W - 1)
      BY <2>2 DEF MarkedWords
    <3> QED  BY <2>2, <3>1, <3>2 DEF MarksOf
  <2> QED  BY <2>1, <2>2
<1>6. ASSUME ty.prog  PROVE Len(Run(ty.program)) * PtrSize = ty.ptrdata
  <2>1. Len(Run(ty.program)) = W
    BY <1>2, <1>6, EmitsRun DEF MapRules
  <2> HIDE DEF ty, W
  <2> QED  BY <1>4, <2>1
<1>7. ASSUME ~ty.prog  PROVE Words(ty.ptrdata) <= ty.bits /\ ty.mask \subseteq 0..(ty.bits - 1)
  <2>1. ty.bits \in Nat /\ W <= ty.bits /\ ty.mask \subseteq 0..(W - 1)
    BY <1>2, <1>7 DEF MapRules, MarksOf
  <2>2. 0..(W - 1) \subseteq 0..(ty.bits - 1)
    BY <1>4, <2>1
  <2> QED  BY <2>1, <2>2
<1>8. ty.ptrdata = 0 <=> PtrOffsets[t] = {}
  <2>1. PtrOffsets[t] = {} <=> MarksOf(ty) = {}
    BY <1>3 DEF BytesOf
  <2>2. ty.ptrdata = 0 => MarksOf(ty) = {}
    BY <1>2, NoMarks
  <2>3. ty.ptrdata # 0 => MarksOf(ty) # {}
    BY <1>2 DEF MapRules
  <2> QED  BY <2>1, <2>2, <2>3
<1>9. {j * PtrSize : j \in MarkedWords(t)} = PtrOffsets[t]
  BY <1>3, <1>5 DEF BytesOf
<1> QED  BY <1>2, <1>6, <1>7, <1>8, <1>9 DEF MapRules

-----------------------------------------------------------------------------
(* The pointer maps of types that are made                                 *)

(* A type that is made of earlier ones by the rules.                       *)
LEMMA MakeMap ==
  ASSUME MapInv, LayoutInv', NEW d, types' = Append(types, d),
         ~wrapped' => MapRules(d) /\ PartsRules(types, d),
         \A n \in DOMAIN d.parts : d.parts[n].typ \in DOMAIN types,
         fs' = fs, wrapped => wrapped'
  PROVE  MapInv'
<1>1. /\ Len(types') = Len(types) + 1 /\ DOMAIN types' = 1..(Len(types) + 1)
      /\ DOMAIN types = 1..Len(types) /\ Len(types) \in Nat
      /\ \A t \in DOMAIN types : types'[t] = types[t]
      /\ types'[Len(types) + 1] = d
  BY AppendTypes DEF MapInv, LayoutInv, Inv, TypeOK
<1>2. NoBuckets'
  <2>1. \A n \in DOMAIN fs : fs[n].typ \in DOMAIN types
    BY FieldFacts DEF MapInv, LayoutInv, Inv
  <2> QED  BY <1>1, <2>1 DEF MapInv, NoBuckets
<1>3. ASSUME NEW ty, PartsRules(types, ty),
             \A n \in DOMAIN ty.parts : ty.parts[n].typ \in DOMAIN types
      PROVE  PartsRules(types', ty)
  <2>1. \A n \in DOMAIN ty.parts : types'[ty.parts[n].typ] = types[ty.parts[n].typ]
    BY <1>1, <1>3
  <2>2. {PartMark(types', ty.parts[k]) : k \in DOMAIN ty.parts}
          = {PartMark(types, ty.parts[k]) : k \in DOMAIN ty.parts}
    BY <2>1 DEF PartMark
  <2>3. PartMarks(types', ty.parts) = PartMarks(types, ty.parts)
    BY <2>2, Zenon DEF PartMarks
  <2>4. Apart(types', ty.parts, ty.size) <=> Apart(types, ty.parts, ty.size)
    BY <2>1 DEF Apart
  <2> QED  BY <1>3, <2>1, <2>3, <2>4 DEF PartsRules
<1>4. Maps'
  <2> SUFFICES ASSUME ~wrapped'  PROVE Maps'
    BY DEF Maps
  <2>1. ~wrapped
    OBVIOUS
  <2>2. ASSUME NEW t \in DOMAIN types'  PROVE MapRules(types'[t])
    <3>1. CASE t \in DOMAIN types
      BY <1>1, <2>1, <3>1 DEF MapInv, Maps
    <3>2. CASE t = Len(types) + 1
      BY <1>1, <3>2
    <3> QED  BY <1>1, <3>1, <3>2
  <2>3. ASSUME NEW t \in MadeTypes'  PROVE PartsRules(types', types'[t])
    <3>0. Len(BasicTypes) \in Nat
      BY LayoutAssumption
    <3>1. CASE t \in DOMAIN types
      <4>1. t \in MadeTypes /\ types'[t] = types[t]
        BY <1>1, <3>0, <3>1 DEF MadeTypes
      <4>2. PartsRules(types, types[t])
        BY <2>1, <4>1 DEF MapInv, Maps
      <4>3. \A n \in DOMAIN types[t].parts : types[t].parts[n].typ \in DOMAIN types
        BY <3>1 DEF MapInv, LayoutInv, Inv, TypeOK
      <4> QED  BY <1>3, <4>1, <4>2, <4>3
    <3>2. CASE t = Len(types) + 1
      BY <1>1, <1>3, <3>2
    <3>3. t \in 1..(Len(types) + 1)
      BY <1>1, <3>0 DEF MadeTypes
    <3> QED  BY <1>1, <3>1, <3>2, <3>3
  <2>4. \A t \in DOMAIN types' : MapRules(types'[t])
    BY <2>2
  <2>5. \A t \in MadeTypes' : PartsRules(types', types'[t])
    BY <2>3
  <2> QED  BY <2>4, <2>5 DEF Maps, MapRules, PartsRules, PartMarks, PartMark, MarksOf
<1> QED  BY <1>2, <1>4 DEF MapInv

LEMMA InitMap == Init => MapInv
<1> SUFFICES ASSUME Init  PROVE MapInv
  OBVIOUS
<1>1. LayoutInv
  BY InitLayout
<1>2. types = BasicTypes /\ fs = <<>> /\ DOMAIN fs = {}
  BY DEF Init
<1>3. NoBuckets
  BY <1>2 DEF NoBuckets
<1>4. MadeTypes = {}
  <2>1. Len(BasicTypes) \in Nat
    BY LayoutAssumption
  <2> QED  BY <1>2, <2>1 DEF MadeTypes
<1>5. ASSUME NEW t \in DOMAIN types  PROVE MapRules(types[t])
  <2> DEFINE ty == types[t]
             W == Words(ty.ptrdata)
  <2>1. t \in DOMAIN BasicTypes /\ ty = BasicTypes[t]
    BY <1>2
  <2>2. MarksOf(ty) = ty.mask
    BY <1>1, <2>1, BasicMarks
  <2>3. ty.size \in Nat
    BY <2>1, LayoutAssumption
  <2>4. /\ ty.ptrdata \in 0..ty.size /\ ty.ptrdata % PtrSize = 0 /\ ty.mask \subseteq 0..(W - 1)
        /\ ty.ptrdata # 0 => ty.align = PtrSize /\ W - 1 \in ty.mask
        /\ ~ty.prog => ty.bits \in Nat /\ W <= ty.bits
        /\ ty.prog => /\ ty.ptrdata # 0 /\ Executable(ty.program)
                      /\ Len(Run(ty.program)) = W /\ Ones(Run(ty.program)) = ty.mask
        /\ ty.program \in Seq(Range(ty.program))
    BY <2>1, MapsAssumption
  <2>5. ty.ptrdata \in Nat /\ ty.ptrdata <= ty.size
    BY <2>3, <2>4
  <2>6. ASSUME ty.prog  PROVE Emits(ty.program, ty.mask, W)
    <3> DEFINE p == ty.program
    <3>1. IsList(p) /\ Executable(p)
      BY <2>4, <2>6 DEF IsList
    <3> HIDE DEF p
    <3>2. Emits(p, Ones(Run(p)), Len(Run(p)))
      BY <3>1, ExecutableEmits
    <3> QED  BY <2>4, <2>6, <3>2 DEF p
  <2> QED  BY <2>2, <2>4, <2>5, <2>6, Zenon DEF MapRules
<1>6. Maps
  BY <1>4, <1>5 DEF Maps
<1> QED  BY <1>1, <1>3, <1>6 DEF MapInv

LEMMA StartStructMap ==
  ASSUME MapInv, StartStruct
  PROVE  MapInv'
<1>1. LayoutInv'
  BY StartStructLayout DEF MapInv
<1>2. types' = types /\ wrapped' = wrapped /\ fs' = <<>>
  BY DEF StartStruct
<1>3. NoBuckets'
  BY <1>2 DEF NoBuckets
<1>4. Maps'
  BY <1>2 DEF MapInv, Maps, MadeTypes, MapRules, PartsRules, PartMarks, PartMark, MarksOf, Apart
<1> QED  BY <1>1, <1>3, <1>4 DEF MapInv

LEMMA AddFieldMap ==
  ASSUME MapInv, NEW t \in Usable, AddField(t)
  PROVE  MapInv'
<1>1. LayoutInv'
  BY AddFieldLayout DEF MapInv
<1>2. types' = types /\ (wrapped => wrapped') /\ \E f : f.typ = t /\ fs' = Append(fs, f)
  BY DEF AddField
<1>3. NoBuckets'
  <2>1. PICK f : f.typ = t /\ fs' = Append(fs, f)
    BY <1>2
  <2>2. types[t].kind # "bucket"
    BY DEF Usable
  <2>3. fs \in Seq([typ : DOMAIN types, offset : Nat]) /\ DOMAIN fs = 1..Len(fs) /\ Len(fs) \in Nat
    BY DEF MapInv, LayoutInv, Inv, TypeOK
  <2>4. \A n \in DOMAIN fs' : (n \in DOMAIN fs /\ fs'[n] = fs[n]) \/ fs'[n] = f
    BY <2>1, <2>3
  <2> QED  BY <1>2, <2>1, <2>2, <2>4 DEF MapInv, NoBuckets
<1>4. Maps'
  <2>1. CASE wrapped'
    BY <2>1 DEF Maps
  <2>2. CASE ~wrapped'
    <3>1. ~wrapped /\ types' = types
      BY <1>2, <2>2
    <3>2. /\ \A u \in DOMAIN types : MapRules(types[u])
          /\ \A u \in MadeTypes : PartsRules(types, types[u])
      BY <3>1 DEF MapInv, Maps
    <3>3. MadeTypes' = MadeTypes
      BY <3>1 DEF MadeTypes
    <3>4. /\ \A u \in DOMAIN types' : MapRules(types'[u])
          /\ \A u \in MadeTypes' : PartsRules(types', types'[u])
      BY <3>1, <3>2, <3>3
    <3> QED  BY ONLY <3>4 DEF Maps, MapRules, PartsRules, PartMarks, PartMark, MarksOf, Apart
  <2> QED  BY <2>1, <2>2
<1> QED  BY <1>1, <1>3, <1>4 DEF MapInv

(* M, n times, every w words from s on.                                    *)
Spread(M, s, w, n) == {s + i * w + j : i \in 0..(n - 1), j \in M}

(* The marks of n parts of one type, every z bytes.                        *)
CopyMarks(M, start, z, n) == UNION {Shift(M, Words(start + (k - 1) * z)) : k \in 1..n}

LEMMA CopiesMarks ==
  ASSUME NEW M, NEW z \in Nat, NEW start \in Nat, NEW n \in Nat,
         M # {} => z % PtrSize = 0 /\ start % PtrSize = 0
  PROVE  CopyMarks(M, start, z, n) = Spread(M, Words(start), Words(z), n)
<1>1. CASE M = {}
  BY <1>1 DEF Shift, Spread, CopyMarks
<1>2. CASE M # {}
  <2> DEFINE w == Words(z)
             s == Words(start)
             L == CopyMarks(M, start, z, n)
  <2>1. w \in Nat /\ z = PtrSize * w /\ s \in Nat /\ PtrSize \in Nat \ {0}
    BY <1>2, WordsFacts, LayoutAssumption
  <2>2. ASSUME NEW i \in Nat  PROVE Words(start + i * z) = s + i * w
    <3> DEFINE q == i * w
               y == i * z
    <3>1. q \in Nat /\ y = PtrSize * q
      <4> HIDE DEF w
      <4> QED  BY <2>1
    <3> HIDE DEF q, y, w, s
    <3>2. Words(PtrSize * q) = q /\ (PtrSize * q) % PtrSize = 0 /\ PtrSize * q \in Nat
      BY <3>1, WordsTimes
    <3>3. Words(y) = q /\ y % PtrSize = 0 /\ y \in Nat
      BY <3>1, <3>2
    <3>4. Words(start + y) = Words(start) + Words(y)
      BY <1>2, <3>3, WordsSum
    <3> QED  BY <3>3, <3>4 DEF q, y, s
  <2> HIDE DEF w, s
  <2>3. L = UNION {Shift(M, s + (k - 1) * w) : k \in 1..n}
    <3>1. ASSUME NEW k \in 1..n  PROVE Words(start + (k - 1) * z) = s + (k - 1) * w
      <4>1. k - 1 \in Nat
        OBVIOUS
      <4> QED  BY <2>2, <4>1
    <3> QED  BY <3>1 DEF CopyMarks
  <2> HIDE DEF L
  <2>4. ASSUME NEW x  PROVE x \in L <=> x \in Spread(M, s, w, n)
    <3>1. x \in L <=> \E k \in 1..n : \E j \in M : x = s + (k - 1) * w + j
      BY <2>3 DEF Shift
    <3>2. x \in Spread(M, s, w, n) <=> \E i \in 0..(n - 1) : \E j \in M : x = s + i * w + j
      BY DEF Spread
    <3>3. \A k \in 1..n : k - 1 \in 0..(n - 1)
      OBVIOUS
    <3>4. \A i \in 0..(n - 1) : i + 1 \in 1..n /\ (i + 1) - 1 = i
      OBVIOUS
    <3>5. ASSUME NEW k \in 1..n, NEW j \in M, x = s + (k - 1) * w + j
          PROVE  \E i \in 0..(n - 1) : \E l \in M : x = s + i * w + l
      BY <3>3, <3>5
    <3>6. ASSUME NEW i \in 0..(n - 1), NEW j \in M, x = s + i * w + j
          PROVE  \E k \in 1..n : \E l \in M : x = s + (k - 1) * w + l
      <4>1. i + 1 \in 1..n /\ x = s + ((i + 1) - 1) * w + j
        BY <3>4, <3>6
      <4> QED  BY <4>1
    <3> QED  BY <3>1, <3>2, <3>5, <3>6
  <2> QED  BY <2>4 DEF w, s, L
<1> QED  BY <1>1, <1>2

(* What emitGCMask sets.                                                   *)
LEMMA EmitMaskIs ==
  ASSUME NEW t, MapRules(types[t]), ~types[t].prog, NEW base, NEW n
  PROVE  EmitMask(base, t, n) = Spread(MarksOf(types[t]), base, Words(types[t].size), n)
<1>1. types[t].mask \cap 0..(Words(types[t].ptrdata) - 1) = types[t].mask
      /\ MarksOf(types[t]) = types[t].mask
  BY DEF MapRules, MarksOf
<1> QED  BY <1>1 DEF EmitMask, Spread

(* A type with pointers has at least one word.                             *)
LEMMA PointerWords ==
  ASSUME NEW ty, MapRules(ty), ty.ptrdata # 0, ty.size \in Nat, ty.size % ty.align = 0
  PROVE  /\ ty.size % PtrSize = 0 /\ Words(ty.size) \in Nat \ {0}
         /\ ty.size = PtrSize * Words(ty.size)
         /\ Words(ty.ptrdata) \in Nat \ {0} /\ Words(ty.ptrdata) <= Words(ty.size)
         /\ ty.ptrdata = PtrSize * Words(ty.ptrdata)
<1> DEFINE p == ty.ptrdata
           z == ty.size
<1>1. p \in Nat /\ p # 0 /\ p <= z /\ p % PtrSize = 0 /\ z \in Nat /\ z % PtrSize = 0
  BY DEF MapRules
<1> HIDE DEF p, z
<1>2. Words(p) \in Nat /\ p = PtrSize * Words(p) /\ Words(z) \in Nat /\ z = PtrSize * Words(z)
  BY <1>1, WordsFacts
<1>3. Words(p) # 0
  <2>1. Words(p) = 0 => PtrSize * Words(p) = 0
    BY LayoutAssumption
  <2> QED  BY <1>1, <1>2, <2>1
<1>4. Words(p) <= Words(z)
  BY <1>1, WordsOrder
<1>5. Words(z) \in Nat \ {0}
  BY <1>2, <1>3, <1>4
<1> QED  BY <1>1, <1>2, <1>3, <1>4, <1>5 DEF p, z

LEMMA MaskBitsFacts ==
  ASSUME NEW w \in Nat
  PROVE  MaskBits(PtrSize * w) \in Nat /\ w <= MaskBits(PtrSize * w)
<1>1. Words(PtrSize * w) = w
  BY WordsTimes
<1>2. ((w + 7) \div 8) * 8 \in Nat /\ w <= ((w + 7) \div 8) * 8
  OBVIOUS
<1> QED  BY <1>1, <1>2 DEF MaskBits

(* One element of a type with pointers.                                    *)
LEMMA OneElementEmits ==
  ASSUME NEW t, MapRules(types[t]), types[t].ptrdata # 0
  PROVE  Emits(OneElement(t), MarksOf(types[t]), Words(types[t].ptrdata))
<1>1. CASE types[t].prog
  BY <1>1 DEF MapRules, OneElement
<1>2. CASE ~types[t].prog
  <2> DEFINE W == Words(types[t].ptrdata)
  <2>1. /\ MarksOf(types[t]) = types[t].mask /\ types[t].mask \subseteq 0..(W - 1)
        /\ W - 1 \in types[t].mask /\ W \in Nat
    BY <1>2, WordsFacts DEF MapRules, MarksOf
  <2>2. W \in Nat \ {0}
    BY <2>1
  <2> QED  BY <1>2, <2>1, <2>2, ChunksEmit
<1> QED  BY <1>1, <1>2

-----------------------------------------------------------------------------
(* Arrays                                                                  *)

ArrayParts(n, t, z) == [k \in 1..n |-> [typ |-> t, offset |-> (k - 1) * z]]

LEMMA ArrayPartsFacts ==
  ASSUME NEW t, NEW z \in Nat, NEW n \in Nat, types[t].size = z, types[t].kind # "bucket",
         MarksOf(types[t]) # {} => z % PtrSize = 0
  PROVE  LET parts == ArrayParts(n, t, z) IN
         /\ IsList(parts) /\ \A k \in DOMAIN parts : parts[k].offset \in Nat
         /\ PartMarks(types, parts) = Spread(MarksOf(types[t]), 0, Words(z), n)
         /\ Apart(types, parts, z * n)
         /\ \A k \in DOMAIN parts : types[parts[k].typ].kind # "bucket"
<1> DEFINE parts == ArrayParts(n, t, z)
           M == MarksOf(types[t])
<1>1. \A k \in 1..n : parts[k] = [typ |-> t, offset |-> (k - 1) * z] /\ DOMAIN parts = 1..n
  BY DEF ArrayParts
<1>3. parts = [k \in 1..n |-> parts[k]]
  BY DEF ArrayParts
<1> HIDE DEF parts
<1>2. ASSUME NEW k \in 1..n  PROVE parts[k].typ = t /\ parts[k].offset = (k - 1) * z
  <2> DEFINE o == (k - 1) * z
  <2>1. parts[k] = [typ |-> t, offset |-> o]
    BY <1>1
  <2> HIDE DEF o
  <2>2. parts[k].typ = t /\ parts[k].offset = o
    BY <2>1
  <2> QED  BY <2>2 DEF o
<1>4. IsList(parts) /\ DOMAIN parts = 1..n
  <2>0. \A k \in 1..n : parts[k] \in Range(parts)
    BY <1>3 DEF Range
  <2>1. parts \in Seq(Range(parts))
    BY <1>3, <2>0, MapSeq
  <2> QED  BY <1>3, <2>1 DEF IsList
<1>5. ASSUME NEW k \in 1..n
      PROVE  /\ (k - 1) * z \in Nat /\ (k - 1) * z + z <= z * n
             /\ \A m \in 1..n : m > k => (k - 1) * z + z <= (m - 1) * z
  <2>1. ASSUME NEW a \in Nat, NEW b \in Nat, a <= b  PROVE a * z <= b * z /\ a * z \in Nat
    <3>1. b - a \in Nat /\ (b - a) * z \in Nat /\ b * z = a * z + (b - a) * z /\ a * z \in Nat
      BY <2>1
    <3> DEFINE x == a * z
               y == (b - a) * z
    <3> HIDE DEF x, y
    <3>2. x <= x + y
      BY <3>1 DEF x, y
    <3> QED  BY <3>1, <3>2 DEF x, y
  <2>2. k - 1 \in Nat /\ k \in Nat /\ k <= n /\ (k - 1) * z + z = k * z /\ z * n = n * z
    OBVIOUS
  <2>3. \A m \in 1..n : m > k => m - 1 \in Nat /\ k <= m - 1
    OBVIOUS
  <2> QED  BY <2>1, <2>2, <2>3
<1>6. Apart(types, parts, z * n)
  BY <1>2, <1>4, <1>5 DEF Apart
<1>7. PartMarks(types, parts) = Spread(M, 0, Words(z), n)
  <2>1. Words(0) = 0 /\ 0 % PtrSize = 0
    BY LayoutAssumption DEF Words
  <2>2. CopyMarks(M, 0, z, n) = Spread(M, Words(0), Words(z), n)
    <3> DEFINE start == 0
    <3>1. start \in Nat /\ (M # {} => z % PtrSize = 0 /\ start % PtrSize = 0)
      BY <2>1
    <3> HIDE DEF M, start
    <3>2. CopyMarks(M, start, z, n) = Spread(M, Words(start), Words(z), n)
      BY <3>1, CopiesMarks
    <3> QED  BY <3>2 DEF start
  <2>3. ASSUME NEW k \in 1..n  PROVE PartMark(types, parts[k]) = Shift(M, Words(0 + (k - 1) * z))
    <3>1. 0 + (k - 1) * z = (k - 1) * z
      BY <1>5
    <3> QED  BY <1>2, <3>1 DEF PartMark
  <2>4. PartMarks(types, parts) = CopyMarks(M, 0, z, n)
    <3>1. {PartMark(types, parts[k]) : k \in 1..n} = {Shift(M, Words(0 + (k - 1) * z)) : k \in 1..n}
      BY <2>3
    <3> QED  BY <1>4, <3>1, Zenon DEF PartMarks, CopyMarks
  <2> QED  BY <2>1, <2>2, <2>4
<1> QED  BY <1>2, <1>4, <1>5, <1>6, <1>7 DEF parts

(* The four pointer maps of an array.                                      *)
LEMMA ArrayMapIs ==
  ASSUME NEW t, NEW n \in Nat, NEW z \in Nat, z = types[t].size,
         MapRules(types[t]), z % types[t].align = 0, NEW d,
         d.size = z * n, d.align = types[t].align,
         LET map == ArrayMap(n, t) IN
           d.ptrdata = map.ptrdata /\ d.prog = map.prog /\ d.program = map.program
           /\ d.mask = map.mask /\ d.bits = map.bits
  PROVE  MapRules(d) /\ MarksOf(d) = Spread(MarksOf(types[t]), 0, Words(z), n)
<1> DEFINE el == types[t]
           M == MarksOf(el)
           W == Words(el.ptrdata)
           w == Words(z)
<1>0. PtrSize \in Nat \ {0} /\ Words(0) = 0 /\ 0 % PtrSize = 0
  BY LayoutAssumption DEF Words
<1>1. CASE ~(el.ptrdata # 0 /\ z * n # 0)
  <2>1. d.ptrdata = 0 /\ d.prog = FALSE /\ d.mask = {} /\ d.bits = 0
    BY <1>1 DEF ArrayMap
  <2>2. Spread(M, 0, w, n) = {}
    <3>1. CASE el.ptrdata = 0
      <4>1. M = {}
        BY <3>1, NoMarks
      <4> QED  BY <4>1 DEF Spread
    <3>2. CASE el.ptrdata # 0
      <4>1. z # 0
        BY <3>2 DEF MapRules
      <4>2. n = 0
        <5>1. n # 0 => z * n # 0
          BY <4>1
        <5> QED  BY <1>1, <3>2, <5>1
      <4>3. 0..(n - 1) = {}
        BY <4>2
      <4> QED  BY <4>3 DEF Spread
    <3> QED  BY <3>1, <3>2
  <2>3. MarksOf(d) = {}
    BY <2>1 DEF MarksOf
  <2>4. z * n \in Nat
    OBVIOUS
  <2>5. MapRules(d)
    BY <1>0, <2>1, <2>3, <2>4 DEF MapRules
  <2> QED  BY <2>2, <2>3, <2>5
<1>2. CASE el.ptrdata # 0 /\ z * n # 0 /\ n = 1
  <2>1. /\ d.ptrdata = el.ptrdata /\ d.prog = el.prog /\ d.program = el.program
        /\ d.mask = el.mask /\ d.bits = el.bits
    <3>1. types[t].size * n # 0 /\ n = 1 /\ types[t].ptrdata # 0 /\ ~(n > 1)
      BY <1>2
    <3>2. ArrayMap(n, t) = [ptrdata |-> el.ptrdata, prog |-> el.prog, program |-> el.program,
                            mask |-> el.mask, bits |-> el.bits]
      BY ONLY <3>1, Zenon DEF ArrayMap
    <3> QED  BY <3>2
  <2>2. d.size = z
    BY <1>2
  <2>3. MarksOf(d) = M
    BY <2>1 DEF MarksOf
  <2>4. MapRules(d)
    BY <2>1, <2>2, <2>3 DEF MapRules
  <2>5. Spread(M, 0, w, 1) = M
    <3>1. 0..(1 - 1) = {0} /\ M \subseteq Int
      BY DEF MapRules
    <3>2. w \in Int
      BY <1>2, PointerWords
    <3>3. \A j \in M : 0 + 0 * w + j = j
      BY <3>1, <3>2
    <3> HIDE DEF w, M
    <3> QED  BY <3>1, <3>3 DEF Spread
  <2> QED  BY <1>2, <2>3, <2>4, <2>5
<1>3. ASSUME el.ptrdata # 0, z * n # 0, n # 1
      PROVE  MapRules(d) /\ MarksOf(d) = Spread(M, 0, w, n)
  <2> DEFINE c == n - 1
             R == Repeated(M, w, c)
  <2>1. c \in Nat /\ c # 0 /\ n = c + 1 /\ n > 1
    <3>1. n # 0
      <4>1. n = 0 => z * n = 0
        OBVIOUS
      <4> QED  BY <1>3, <4>1
    <3> QED  BY <1>3, <3>1
  <2>2. /\ z % PtrSize = 0 /\ w \in Nat \ {0} /\ z = PtrSize * w
        /\ W \in Nat \ {0} /\ W <= w /\ el.ptrdata = PtrSize * W
    BY <1>3, PointerWords
  <2>3. M \subseteq 0..(W - 1) /\ M # {} /\ el.align = PtrSize
    BY <1>3 DEF MapRules
  <2>4. Spread(M, 0, w, n) = R
    <3>1. \A i \in 0..c, j \in M : 0 + i * w + j = i * w + j
      BY <2>2, <2>3
    <3>2. n - 1 = c
      BY <2>1
    <3> HIDE DEF c, w, M
    <3> QED  BY <3>1, <3>2 DEF Spread, Repeated
  <2>5. R # {}
    <3>1. PICK j \in M : TRUE
      BY <2>3
    <3>2. 0 \in 0..c
      BY <2>1
    <3>3. 0 * w + j \in R
      BY <3>1, <3>2 DEF Repeated
    <3> QED  BY <3>3
  <2>6. CASE ~el.prog /\ z * n <= MaxPtrmask * PtrSize
    <3> DEFINE q == w * c
               ptrdata == z * c + el.ptrdata
    <3>1. /\ d.ptrdata = ptrdata /\ d.prog = FALSE /\ d.mask = EmitMask(0, t, n)
          /\ d.bits = MaskBits(ptrdata)
      BY <1>3, <2>1, <2>6 DEF ArrayMap
    <3>2. EmitMask(0, t, n) = R
      BY <2>4, <2>6, EmitMaskIs
    <3>3. MarksOf(d) = R /\ d.mask = R
      BY <3>1, <3>2 DEF MarksOf
    <3>4. q \in Nat /\ ptrdata = PtrSize * (q + W) /\ q + W \in Nat /\ z * n = PtrSize * (q + w)
          /\ q = c * w
      <4>1. q \in Nat /\ q = c * w
        <5> HIDE DEF c, w
        <5> QED  BY <2>1, <2>2
      <4>2. z * c = PtrSize * q
        <5> HIDE DEF c, w
        <5> QED  BY <1>0, <2>1, <2>2
      <4>3. z * n = z * c + z
        BY <2>1
      <4>4. PtrSize * q + PtrSize * W = PtrSize * (q + W) /\ PtrSize * q + PtrSize * w = PtrSize * (q + w)
        <5>1. PtrSize \in Nat /\ q \in Nat /\ W \in Nat /\ w \in Nat
          BY <1>0, <2>2, <4>1
        <5> HIDE DEF c, w, W, q
        <5> QED  BY ONLY <5>1
      <4> HIDE DEF c, w, W, q
      <4> QED  BY <2>2, <4>1, <4>2, <4>3, <4>4
    <3> DEFINE u == q + W
    <3>5. u \in Nat /\ u - 1 = c * w + (W - 1) /\ u <= q + w
      BY <2>2, <3>4
    <3>6. Words(ptrdata) = u /\ ptrdata % PtrSize = 0 /\ ptrdata \in Nat
      BY <3>4, WordsTimes
    <3>7. MaskBits(ptrdata) \in Nat /\ u <= MaskBits(ptrdata)
      BY <3>4, MaskBitsFacts
    <3>8. ptrdata <= z * n
      <4> HIDE DEF c, w, W, q, ptrdata
      <4>1. PtrSize * (q + W) <= PtrSize * (q + w)
        BY <1>0, <2>2, <3>4
      <4> QED  BY <3>4, <4>1
    <3>9. u - 1 \in R
      <4>1. W - 1 \in el.mask /\ M = el.mask
        BY <1>3, <2>6 DEF MapRules, MarksOf
      <4>2. c \in 0..c
        BY <2>1
      <4> HIDE DEF c, w, W, M, u
      <4> QED  BY <3>5, <4>1, <4>2 DEF Repeated
    <3>10. R \subseteq 0..(u - 1)
      <4>1. ASSUME NEW i \in 0..c, NEW j \in M  PROVE i * w + j \in 0..(u - 1)
        <5>1. c - i \in Nat /\ (c - i) * w \in Nat /\ i * w \in Nat /\ c * w = i * w + (c - i) * w
          BY <2>1, <2>2
        <5>2. j \in 0..(W - 1)
          BY <2>3
        <5> DEFINE a == i * w
                   b == (c - i) * w
        <5>3. u - 1 = a + b + (W - 1)
          BY <3>5, <5>1, <2>2
        <5> HIDE DEF a, b, u, W
        <5>4. a + j \in 0..(a + b + (W - 1))
          BY <2>2, <5>1, <5>2 DEF a, b
        <5> QED  BY <5>3, <5>4 DEF a
      <4> HIDE DEF u
      <4> QED  BY <4>1 DEF Repeated
    <3> HIDE DEF ptrdata, u, R, c, w, W, q
    <3>11. MapRules(d)
      BY <1>3, <2>3, <2>5, <3>1, <3>3, <3>6, <3>7, <3>8, <3>9, <3>10 DEF MapRules
    <3> QED  BY <2>4, <3>3, <3>11
  <2>7. CASE ~(~el.prog /\ z * n <= MaxPtrmask * PtrSize)
    <3> DEFINE p == ArrayProgram(n, t)
    <3>1. /\ d.ptrdata = z * n /\ d.prog = TRUE /\ d.program = p
      BY <1>3, <2>1, <2>7 DEF ArrayMap
    <3>2. Emits(OneElement(t), M, W)
      BY <1>3, OneElementEmits
    <3> DEFINE zs == IF W < w THEN Zeros(w - W) ELSE <<>>
               o == OneElement(t) \o zs
    <3>3. Emits(zs, {}, w - W)
      <4>1. CASE W < w
        <5>1. w - W \in Nat \ {0}
          BY <2>2, <4>1
        <5> QED  BY <4>1, <5>1, EmitsZeros
      <4>2. CASE ~(W < w)
        <5>1. w - W = 0
          BY <2>2, <4>2
        <5> QED  BY <4>2, <5>1, EmitsNothing
      <4> QED  BY <4>1, <4>2
    <3>4. p = o \o <<Repeat(w, c)>>
      BY DEF ArrayProgram
    <3>5. Emits(o, M, w)
      <4> DEFINE m == w - W
      <4>1. Emits(zs, {}, m) /\ W + m = w
        BY <2>2, <3>3
      <4> HIDE DEF zs, m, M, W, w
      <4>2. Emits(OneElement(t) \o zs, Joined(M, {}, W), W + m)
        BY <3>2, <4>1, EmitsBoth
      <4>3. Joined(M, {}, W) = M
        BY DEF Joined, Shift
      <4> QED  BY <4>1, <4>2, <4>3
    <3> HIDE DEF o, zs
    <3>6. Emits(p, R, w * (c + 1))
      <4> HIDE DEF c, w, M, p
      <4> QED  BY <2>1, <2>2, <3>4, <3>5, EmitsRepeated
    <3>7. w * (c + 1) \in Nat /\ z * n = PtrSize * (w * (c + 1))
      <4> HIDE DEF c, w
      <4> QED  BY <1>0, <2>1, <2>2
    <3> DEFINE u == w * (c + 1)
    <3> HIDE DEF u, p, R, c, w, W
    <3>8. Words(z * n) = u /\ (z * n) % PtrSize = 0 /\ z * n \in Nat
      BY <3>7, WordsTimes DEF u
    <3>9. Ones(Run(p)) = R /\ R \subseteq 0..(u - 1)
      BY <3>6, EmitsRun DEF u, Emits
    <3>10. MarksOf(d) = R
      BY <3>1, <3>9 DEF MarksOf
    <3>11. d.ptrdata # 0 /\ d.size = d.ptrdata /\ Words(d.ptrdata) = u /\ d.ptrdata % PtrSize = 0
           /\ d.ptrdata \in Nat /\ d.align = PtrSize
      BY <1>3, <2>3, <3>1, <3>8
    <3>12. Emits(d.program, MarksOf(d), Words(d.ptrdata))
      BY <3>1, <3>6, <3>10, <3>11 DEF u
    <3>13. MapRules(d)
      BY <2>5, <3>1, <3>9, <3>10, <3>11, <3>12 DEF MapRules
    <3> QED  BY <2>4, <3>10, <3>13
  <2> QED  BY <2>6, <2>7
<1> QED  BY <1>1, <1>2, <1>3

LEMMA ArrayOfMap ==
  ASSUME MapInv, NEW t \in Usable, NEW count \in Counts, ArrayOf(count, t)
  PROVE  MapInv'
<1> DEFINE d == ArrayDescriptor(count, t)
           z == types[t].size
<1>1. LayoutInv'
  BY ArrayLayout DEF MapInv
<1>2. types' = Append(types, d) /\ fs' = fs /\ wrapped' = wrapped
  BY DEF ArrayOf
<1>3. t \in DOMAIN types /\ types[t].kind # "bucket" /\ count \in Nat /\ z \in Nat
  BY LayoutAssumption DEF Usable, MapInv, LayoutInv, Inv, TypeOK
<1>4. /\ d.kind = "array" /\ d.size = z * count /\ d.align = types[t].align
      /\ d.parts = ArrayParts(count, t, z)
      /\ LET map == ArrayMap(count, t) IN
           d.ptrdata = map.ptrdata /\ d.prog = map.prog /\ d.program = map.program
           /\ d.mask = map.mask /\ d.bits = map.bits
  BY DEF ArrayDescriptor, ArrayParts
<1>5. \A n \in DOMAIN d.parts : d.parts[n].typ \in DOMAIN types
  BY <1>3, <1>4 DEF ArrayParts
<1>6. ASSUME ~wrapped'  PROVE MapRules(d) /\ PartsRules(types, d)
  <2>1. MapRules(types[t]) /\ z % types[t].align = 0
    BY <1>2, <1>3, <1>6 DEF MapInv, Maps, LayoutInv, Multiples
  <2>2. MarksOf(types[t]) # {} => z % PtrSize = 0
    BY <2>1, NoMarks DEF MapRules
  <2> HIDE DEF d, z
  <2>3. MapRules(d) /\ MarksOf(d) = Spread(MarksOf(types[t]), 0, Words(z), count)
    BY <1>3, <1>4, <2>1, ArrayMapIs DEF z
  <2>4. /\ IsList(d.parts) /\ \A k \in DOMAIN d.parts : d.parts[k].offset \in Nat
        /\ PartMarks(types, d.parts) = Spread(MarksOf(types[t]), 0, Words(z), count)
        /\ Apart(types, d.parts, d.size)
        /\ \A k \in DOMAIN d.parts : types[d.parts[k].typ].kind # "bucket"
    BY <1>3, <1>4, <2>2, ArrayPartsFacts DEF z
  <2> QED  BY <2>3, <2>4 DEF PartsRules
<1> HIDE DEF d
<1> QED  BY <1>1, <1>2, <1>5, <1>6, MakeMap

-----------------------------------------------------------------------------
(* Buckets                                                                 *)

LEMMA PartMarksConcat ==
  ASSUME NEW ts, NEW p, IsList(p), NEW q, IsList(q)
  PROVE  PartMarks(ts, p \o q) = PartMarks(ts, p) \cup PartMarks(ts, q)
<1> DEFINE r == p \o q
           P == Len(p)
           Q == Len(q)
<1>1. /\ DOMAIN p = 1..P /\ DOMAIN q = 1..Q /\ P \in Nat /\ Q \in Nat
      /\ IsList(r) /\ Len(r) = P + Q
      /\ \A k \in 1..P : r[k] = p[k]
      /\ \A k \in 1..Q : r[P + k] = q[k]
  <2>1. DOMAIN p = 1..P /\ DOMAIN q = 1..Q /\ P \in Nat /\ Q \in Nat
    BY ListFacts
  <2>2. /\ IsList(r) /\ Len(r) = P + Q
        /\ \A k \in 1..P : r[k] = p[k]
        /\ \A k \in 1..Q : r[P + k] = q[k]
    BY ListConcat
  <2> QED  BY <2>1, <2>2
<1> HIDE DEF r, P, Q
<1>2. DOMAIN r = 1..(P + Q)
  BY <1>1, ListFacts
<1>3. ASSUME NEW x  PROVE x \in PartMarks(ts, r) <=> x \in PartMarks(ts, p) \cup PartMarks(ts, q)
  <2>1. x \in PartMarks(ts, r) <=> \E k \in 1..(P + Q) : x \in PartMark(ts, r[k])
    BY <1>2 DEF PartMarks
  <2>2. /\ x \in PartMarks(ts, p) <=> \E k \in 1..P : x \in PartMark(ts, p[k])
        /\ x \in PartMarks(ts, q) <=> \E k \in 1..Q : x \in PartMark(ts, q[k])
    BY <1>1 DEF PartMarks
  <2>3. ASSUME NEW k \in 1..(P + Q)
        PROVE  k \in 1..P \/ (k - P \in 1..Q /\ k = P + (k - P))
    BY <1>1
  <2>4. ASSUME NEW k \in 1..(P + Q), x \in PartMark(ts, r[k])
        PROVE  x \in PartMarks(ts, p) \cup PartMarks(ts, q)
    <3>1. CASE k \in 1..P
      BY <1>1, <2>2, <2>4, <3>1
    <3>2. CASE k - P \in 1..Q /\ k = P + (k - P)
      <4>1. r[k] = q[k - P]
        BY <1>1, <3>2
      <4> QED  BY <2>2, <2>4, <3>2, <4>1
    <3> QED  BY <2>3, <3>1, <3>2
  <2>5. ASSUME NEW k \in 1..P, x \in PartMark(ts, p[k])  PROVE x \in PartMarks(ts, r)
    <3>1. k \in 1..(P + Q)
      BY <1>1
    <3> QED  BY <1>1, <2>1, <2>5, <3>1
  <2>6. ASSUME NEW k \in 1..Q, x \in PartMark(ts, q[k])  PROVE x \in PartMarks(ts, r)
    <3>1. P + k \in 1..(P + Q)
      BY <1>1
    <3> QED  BY <1>1, <2>1, <2>6, <3>1
  <2> QED  BY <2>1, <2>2, <2>4, <2>5, <2>6
<1> QED  BY <1>3 DEF r

Copies(n, t, start, z) == [k \in 1..n |-> [typ |-> t, offset |-> start + (k - 1) * z]]

LEMMA CopiesList ==
  ASSUME NEW t, NEW n \in Nat, NEW start \in Nat, NEW z \in Nat
  PROVE  /\ IsList(Copies(n, t, start, z)) /\ Len(Copies(n, t, start, z)) = n
         /\ \A k \in 1..n : Copies(n, t, start, z)[k].offset \in Nat
<1> DEFINE parts == Copies(n, t, start, z)
<1>1. \A k \in 1..n : parts[k] = [typ |-> t, offset |-> start + (k - 1) * z]
  BY DEF Copies
<1>2. parts = [k \in 1..n |-> parts[k]]
  BY DEF Copies
<1> HIDE DEF parts
<1>3. IsList(parts) /\ Len(parts) = n /\ DOMAIN parts = 1..n
  <2>1. \A k \in 1..n : parts[k] \in Range(parts)
    BY <1>2 DEF Range
  <2>2. parts \in Seq(Range(parts)) /\ Len(parts) = n
    BY <1>2, <2>1, MapSeq
  <2> QED  BY <1>2, <2>2 DEF IsList
<1>4. ASSUME NEW k \in 1..n
      PROVE  /\ parts[k].typ = t /\ parts[k].offset = start + (k - 1) * z
             /\ parts[k].offset \in Nat
  <2> DEFINE o == start + (k - 1) * z
  <2>1. o \in Nat
    <3>1. k - 1 \in Nat
      OBVIOUS
    <3>2. (k - 1) * z \in Nat
      BY <3>1
    <3> QED  BY <3>2
  <2>2. parts[k] = [typ |-> t, offset |-> o]
    BY <1>1
  <2> HIDE DEF o
  <2>3. parts[k].typ = t /\ parts[k].offset = o
    BY <2>2
  <2> QED  BY <2>1, <2>3 DEF o
<1> QED  BY <1>3, <1>4 DEF parts

LEMMA CopiesFacts ==
  ASSUME NEW t, NEW n \in Nat, NEW start \in Nat, NEW z \in Nat
  PROVE  PartMarks(types, Copies(n, t, start, z)) = CopyMarks(MarksOf(types[t]), start, z, n)
<1> DEFINE parts == Copies(n, t, start, z)
           M == MarksOf(types[t])
<1>1. \A k \in 1..n : parts[k] = [typ |-> t, offset |-> start + (k - 1) * z]
  BY DEF Copies
<1>2. parts = [k \in 1..n |-> parts[k]]
  BY DEF Copies
<1> HIDE DEF parts
<1>3. DOMAIN parts = 1..n
  BY <1>2
<1>4. ASSUME NEW k \in 1..n
      PROVE  parts[k].typ = t /\ parts[k].offset = start + (k - 1) * z
  <2> DEFINE o == start + (k - 1) * z
  <2>1. parts[k] = [typ |-> t, offset |-> o]
    BY <1>1
  <2> HIDE DEF o
  <2>2. parts[k].typ = t /\ parts[k].offset = o
    BY <2>1
  <2> QED  BY <2>2 DEF o
<1>5. \A k \in 1..n : PartMark(types, parts[k]) = Shift(M, Words(start + (k - 1) * z))
  BY <1>4 DEF PartMark
<1>6. {PartMark(types, parts[k]) : k \in 1..n} = {Shift(M, Words(start + (k - 1) * z)) : k \in 1..n}
  BY <1>5
<1>7. PartMarks(types, parts) = CopyMarks(M, start, z, n)
  BY <1>3, <1>6, Zenon DEF PartMarks, CopyMarks
<1> QED  BY <1>7 DEF parts

LEMMA SpreadBound ==
  ASSUME NEW w \in Nat, NEW M \in SUBSET (0..(w - 1)), NEW s \in Nat, NEW n \in Nat, NEW x \in Nat,
         M # {} => x = n * w
  PROVE  Spread(M, s, w, n) \subseteq s..(s + x - 1)
<1>1. ASSUME NEW i \in 0..(n - 1), NEW j \in M  PROVE s + i * w + j \in s..(s + x - 1)
  <2>1. x = n * w /\ n - 1 - i \in Nat /\ i \in Nat
    BY <1>1
  <2>2. n * w = i * w + w + (n - 1 - i) * w /\ i * w \in Nat /\ (n - 1 - i) * w \in Nat
    BY <2>1
  <2> DEFINE a == i * w
             b == (n - 1 - i) * w
  <2>3. x = a + w + b
    BY <2>1, <2>2
  <2>4. j \in 0..(w - 1)
    OBVIOUS
  <2>5. a \in Nat /\ b \in Nat
    BY <2>2
  <2> HIDE DEF a, b
  <2>6. s + a + j \in s..(s + x - 1)
    BY <2>3, <2>4, <2>5
  <2> QED  BY <2>6 DEF a
<1> QED  BY <1>1 DEF Spread

LEMMA PointerMarks ==
  ASSUME MapInv
  PROVE  Pointer \in DOMAIN types /\ MarksOf(types[Pointer]) = {0}
<1> DEFINE M == MaxPtrmask * PtrSize
           ty == BasicTypes[Pointer]
<1>1. Pointer \in DOMAIN BasicTypes /\ ty.size = PtrSize /\ ty.ptrdata = PtrSize
      /\ PtrSize \in Nat \ {0} /\ PtrSize <= M
  BY LayoutAssumption, CompilerAssumption, MapsAssumption
<1>2. types[Pointer] = ty /\ Pointer \in DOMAIN types /\ MarksOf(types[Pointer]) = ty.mask
  BY <1>1, BasicMarks DEF MapInv
<1>3. Words(PtrSize) = 1
  BY <1>1 DEF Words
<1>4. ty.mask \subseteq 0..(1 - 1) /\ 1 - 1 \in ty.mask
  BY <1>1, <1>3, MapsAssumption
<1> QED  BY <1>2, <1>4

(* The marks of BucketSize keys or values, in their area of the bucket.    *)
LEMMA AreaMarks ==
  ASSUME MapInv, ~wrapped, NEW t \in DOMAIN types, NEW s \in Nat, s % PtrSize = 0
  PROVE  LET z == types[t].size
             A == Spread(MarksOf(types[t]), Words(s), Words(z), BucketSize) IN
         /\ z \in Nat /\ BucketSize * z \in Nat /\ (BucketSize * z) % PtrSize = 0
         /\ PartMarks(types, Copies(BucketSize, t, s, z)) = A
         /\ A \subseteq Words(s)..(Words(s) + Words(BucketSize * z) - 1)
         /\ ~Pointers(t) => A = {}
         /\ Pointers(t) /\ ~types[t].prog => EmitMask(Words(s), t, BucketSize) = A
<1> DEFINE z == types[t].size
           M == MarksOf(types[t])
           w == Words(z)
           n == BucketSize
           A == Spread(M, Words(s), w, n)
           x == Words(n * z)
<1>1. /\ z \in Nat /\ z % types[t].align = 0 /\ MapRules(types[t])
      /\ n \in Nat /\ n % PtrSize = 0 /\ PtrSize \in Nat \ {0}
  BY LayoutAssumption, BucketAssumption DEF MapInv, LayoutInv, Inv, TypeOK, Multiples, Maps
<1>2. n * z \in Nat /\ (n * z) % PtrSize = 0
  <2>1. n \in Int /\ z \in Int /\ n * z \in Nat
    BY <1>1
  <2> HIDE DEF n, z
  <2> QED  BY <1>1, <2>1, ProductMod
<1>3. Words(s) \in Nat /\ x \in Nat
  BY <1>2, WordsFacts
<1>4. w \in Nat
  <2>1. z \in Int /\ PtrSize \in Nat \ {0}
    BY <1>1
  <2> HIDE DEF z
  <2>2. z = PtrSize * (z \div PtrSize) + (z % PtrSize) /\ z \div PtrSize \in Int
        /\ z % PtrSize \in 0..(PtrSize - 1)
    BY <2>1, DivMod
  <2> DEFINE q == z \div PtrSize
             r == z % PtrSize
  <2>3. q >= 0
    <3> HIDE DEF q, r
    <3>1. q < 0 => PtrSize * q <= PtrSize * (-1)
      BY <2>1, <2>2 DEF q
    <3>2. z = PtrSize * q + r /\ q \in Int /\ r \in 0..(PtrSize - 1)
      BY <2>2 DEF q, r
    <3> QED  BY <1>1, <2>1, <3>1, <3>2
  <2> QED  BY <2>2, <2>3 DEF Words
<1>5. M # {} => /\ types[t].ptrdata # 0 /\ z % PtrSize = 0 /\ z = PtrSize * w
                /\ Words(types[t].ptrdata) \in Nat /\ Words(types[t].ptrdata) <= w
  BY <1>1, NoMarks, PointerWords
<1>6. M \in SUBSET (0..(w - 1))
  <2>1. CASE M = {}
    BY <2>1
  <2>2. CASE M # {}
    <3> DEFINE W == Words(types[t].ptrdata)
    <3>1. W \in Nat /\ W <= w /\ M \subseteq 0..(W - 1)
      BY <1>1, <1>5, <2>2 DEF MapRules
    <3> HIDE DEF M, W, w
    <3>2. 0..(W - 1) \subseteq 0..(w - 1)
      BY <1>4, <3>1
    <3> QED  BY <3>1, <3>2
  <2> QED  BY <2>1, <2>2
<1>7. M # {} => x = n * w
  <2> SUFFICES ASSUME M # {}  PROVE x = n * w
    OBVIOUS
  <2>1. z = PtrSize * w
    BY <1>5
  <2> DEFINE q == n * w
  <2> HIDE DEF w, z, n
  <2>2. q \in Nat /\ n * z = PtrSize * q
    BY <1>1, <1>4, <2>1
  <2> HIDE DEF q
  <2>3. Words(PtrSize * q) = q
    BY <2>2, WordsTimes
  <2> QED  BY <2>2, <2>3 DEF q
<1>8. PartMarks(types, Copies(n, t, s, z)) = A
  <2>1. PartMarks(types, Copies(n, t, s, z)) = CopyMarks(M, s, z, n)
    BY <1>1, CopiesFacts
  <2>2. M # {} => z % PtrSize = 0 /\ s % PtrSize = 0
    BY <1>5
  <2> HIDE DEF M, z, n
  <2>3. CopyMarks(M, s, z, n) = Spread(M, Words(s), Words(z), n)
    BY <1>1, <2>2, CopiesMarks
  <2> QED  BY <2>1, <2>3
<1>9. A \subseteq Words(s)..(Words(s) + x - 1)
  <2> DEFINE v == Words(s)
  <2> HIDE DEF M, x, w, n, v
  <2>1. Spread(M, v, w, n) \subseteq v..(v + x - 1)
    BY <1>1, <1>3, <1>4, <1>6, <1>7, SpreadBound DEF v
  <2> QED  BY <2>1 DEF v
<1>10. ~Pointers(t) => A = {}
  <2>1. ~Pointers(t) => M = {}
    BY <1>1, NoMarks DEF Pointers
  <2> HIDE DEF M
  <2> QED  BY <2>1 DEF Spread
<1>11. Pointers(t) /\ ~types[t].prog => EmitMask(Words(s), t, n) = A
  BY <1>1, EmitMaskIs
<1> QED  BY <1>1, <1>2, <1>8, <1>9, <1>10, <1>11

LEMMA BucketRules ==
  ASSUME MapInv, ~wrapped, NEW k \in DOMAIN types, NEW e \in DOMAIN types, ~BucketPanics(k, e)
  PROVE  MapRules(BucketDescriptor(k, e)) /\ PartsRules(types, BucketDescriptor(k, e))
<1> DEFINE d == BucketDescriptor(k, e)
           K == BucketSize
           ks == types[k].size
           es == types[e].size
           sv == K * (1 + ks)
           sl == K * (1 + ks + es)
           o == OverflowWord(k, e)
           keys == Copies(K, k, K, ks)
           vals == Copies(K, e, sv, es)
           link == [typ |-> Pointer, offset |-> sl]
           A == Spread(MarksOf(types[k]), Words(K), Words(ks), K)
           V == Spread(MarksOf(types[e]), Words(sv), Words(es), K)
           ptrs == Pointers(k) \/ Pointers(e)
<1>1. K \in Nat /\ K % PtrSize = 0 /\ PtrSize \in Nat \ {0}
  BY LayoutAssumption, BucketAssumption
<1>2. /\ ks \in Nat /\ K * ks \in Nat /\ (K * ks) % PtrSize = 0
      /\ PartMarks(types, keys) = A
      /\ A \subseteq Words(K)..(Words(K) + Words(K * ks) - 1)
      /\ ~Pointers(k) => A = {}
      /\ Pointers(k) /\ ~types[k].prog => EmitMask(Words(K), k, K) = A
  BY <1>1, AreaMarks
<1>3. sv = K + K * ks /\ sv \in Nat /\ sv % PtrSize = 0 /\ Words(sv) = Words(K) + Words(K * ks)
  <2> DEFINE a == K * ks
  <2>1. sv = K + a /\ a \in Nat /\ a % PtrSize = 0
    BY <1>1, <1>2
  <2> HIDE DEF K, a, sv
  <2>2. Words(K + a) = Words(K) + Words(a) /\ (K + a) % PtrSize = 0
    BY <1>1, <2>1, WordsSum
  <2>3. K + a \in Nat
    BY <1>1, <2>1
  <2> QED  BY <2>1, <2>2, <2>3 DEF a
<1>4. /\ es \in Nat /\ K * es \in Nat /\ (K * es) % PtrSize = 0
      /\ PartMarks(types, vals) = V
      /\ V \subseteq Words(sv)..(Words(sv) + Words(K * es) - 1)
      /\ ~Pointers(e) => V = {}
      /\ Pointers(e) /\ ~types[e].prog => EmitMask(Words(sv), e, K) = V
  <2> HIDE DEF sv
  <2> QED  BY <1>3, AreaMarks
<1>5. sl = sv + K * es /\ sl \in Nat /\ sl % PtrSize = 0 /\ Words(sl) = Words(sv) + Words(K * es)
  <2> DEFINE b == K * es
  <2>1. sl = sv + b /\ b \in Nat /\ b % PtrSize = 0
    BY <1>1, <1>2, <1>4
  <2> HIDE DEF K, b, sv, sl
  <2>2. Words(sv + b) = Words(sv) + Words(b) /\ (sv + b) % PtrSize = 0
    BY <1>3, <2>1, WordsSum
  <2>3. sv + b \in Nat
    BY <1>3, <2>1
  <2> QED  BY <2>1, <2>2, <2>3 DEF b
<1>6. /\ Words(K) = KeyBase /\ Words(sv) = ValBase(k) /\ Words(sl) = o
      /\ Words(K) \in Nat /\ Words(K * ks) \in Nat /\ Words(K * es) \in Nat /\ o \in Nat
  <2>1. Words(K) \in Nat /\ Words(K * ks) \in Nat /\ Words(K * es) \in Nat
    BY <1>1, <1>2, <1>4, WordsFacts
  <2>2. Words(K) = KeyBase /\ Words(sv) = ValBase(k) /\ o = ValBase(k) + Words(K * es)
    BY <1>3 DEF KeyBase, ValBase, OverflowWord
  <2> HIDE DEF sv, sl, o
  <2> QED  BY <1>3, <1>5, <2>1, <2>2
<1>7. A \cup V \subseteq 0..o /\ o \in 0..o
  <2> DEFINE a == Words(K)
             b == Words(K * ks)
             c == Words(K * es)
  <2>1. a \in Nat /\ b \in Nat /\ c \in Nat /\ o = a + b + c /\ Words(sv) = a + b
    BY <1>3, <1>5, <1>6
  <2>2. A \subseteq a..(a + b - 1) /\ V \subseteq (a + b)..(a + b + c - 1)
    BY <1>2, <1>4, <2>1
  <2> HIDE DEF a, b, c, A, V, o
  <2>3. a..(a + b - 1) \subseteq 0..o /\ (a + b)..(a + b + c - 1) \subseteq 0..o /\ o \in 0..o
    BY <2>1
  <2> QED  BY <2>2, <2>3
<1>8. /\ d.kind = "bucket" /\ d.size = BucketBytes(k, e) /\ d.align = PtrSize
      /\ d.ptrdata = (IF ptrs THEN (o + 1) * PtrSize ELSE 0)
      /\ d.prog = FALSE
      /\ d.mask = (IF ptrs THEN BucketMap(k, e) ELSE {})
      /\ d.bits = (IF ptrs THEN MaskBits(BucketBytes(k, e)) ELSE 0)
      /\ d.parts = (IF ptrs THEN keys \o vals \o <<link>> ELSE keys \o vals)
  BY DEF BucketDescriptor, Copies
<1>9. /\ IsList(keys) /\ Len(keys) = K /\ \A n \in 1..K : keys[n].offset \in Nat
      /\ IsList(vals) /\ Len(vals) = K /\ \A n \in 1..K : vals[n].offset \in Nat
  <2>1. K \in Nat /\ ks \in Nat /\ es \in Nat /\ sv \in Nat
    BY <1>1, <1>2, <1>3, <1>4
  <2> HIDE DEF K, ks, es, sv
  <2>2. IsList(keys) /\ Len(keys) = K /\ \A n \in 1..K : keys[n].offset \in Nat
    BY ONLY <2>1, CopiesList
  <2>3. IsList(vals) /\ Len(vals) = K /\ \A n \in 1..K : vals[n].offset \in Nat
    BY ONLY <2>1, CopiesList
  <2> QED  BY <2>2, <2>3
<1>10. IsList(<<link>>) /\ link.offset \in Nat /\ PartMarks(types, <<link>>) = {o}
  <2>1. MarksOf(types[Pointer]) = {0}
    BY PointerMarks
  <2>2. link.typ = Pointer /\ link.offset = sl
    OBVIOUS
  <2> HIDE DEF link, o, sl
  <2>3. PartMark(types, link) = {o}
    <3>1. Shift({0}, o) = {o + 0} /\ o + 0 = o
      BY <1>6 DEF Shift
    <3>2. Words(link.offset) = o /\ MarksOf(types[link.typ]) = {0}
      BY <1>6, <2>1, <2>2 DEF o, sl
    <3> QED  BY <3>1, <3>2 DEF PartMark
  <2>4. DOMAIN <<link>> = {1} /\ <<link>>[1] = link /\ <<link>> \in Seq({link})
    OBVIOUS
  <2>5. PartMarks(types, <<link>>) = PartMark(types, link)
    BY <2>4 DEF PartMarks
  <2>6. IsList(<<link>>)
    BY <2>4, ListIn
  <2> QED  BY <1>5, <2>2, <2>3, <2>5, <2>6
<1> HIDE DEF d, keys, vals, link, A, V, sv, sl, o
<1>11. /\ IsList(d.parts) /\ \A n \in DOMAIN d.parts : d.parts[n].offset \in Nat
       /\ PartMarks(types, d.parts) = (IF ptrs THEN (A \cup V) \cup {o} ELSE A \cup V)
  <2> DEFINE kv == keys \o vals
  <2>1. /\ IsList(kv) /\ Len(kv) = K + K /\ DOMAIN kv = 1..(K + K)
        /\ \A n \in 1..K : kv[n] = keys[n]
        /\ \A n \in 1..K : kv[K + n] = vals[n]
    <3>1. /\ IsList(kv) /\ Len(kv) = Len(keys) + Len(vals)
          /\ \A n \in 1..Len(keys) : kv[n] = keys[n]
          /\ \A n \in 1..Len(vals) : kv[Len(keys) + n] = vals[n]
      <4>1. IsList(keys) /\ IsList(vals)
        BY <1>9
      <4> QED  BY ONLY <4>1, ListConcat
    <3>2. Len(keys) = K /\ Len(vals) = K
      BY <1>9
    <3> HIDE DEF kv
    <3>3. Len(kv) = K + K /\ DOMAIN kv = 1..Len(kv)
      BY <3>1, <3>2, ListFacts
    <3> QED  BY <3>1, <3>2, <3>3
  <2>2. PartMarks(types, kv) = A \cup V
    BY <1>2, <1>4, <1>9, PartMarksConcat
  <2> HIDE DEF kv
  <2>3. ASSUME NEW n \in 1..(K + K)  PROVE kv[n].offset \in Nat
    <3>1. CASE n \in 1..K
      BY <1>9, <2>1, <3>1
    <3>2. CASE n \notin 1..K
      <4>1. n - K \in 1..K /\ n = K + (n - K)
        BY <1>1, <3>2
      <4>2. kv[n] = vals[n - K]
        BY <2>1, <4>1
      <4> QED  BY <1>9, <4>1, <4>2
    <3> QED  BY <3>1, <3>2
  <2>4. CASE ~ptrs
    <3>1. d.parts = kv
      BY <1>8, <2>4 DEF kv
    <3> QED  BY <2>1, <2>2, <2>3, <2>4, <3>1
  <2>5. CASE ptrs
    <3> DEFINE l == <<link>>
               r == kv \o l
    <3>1. d.parts = r
      BY <1>8, <2>5 DEF kv
    <3>2. IsList(l) /\ Len(l) = 1 /\ l[1] = link
      BY <1>10
    <3> HIDE DEF l
    <3>3. /\ IsList(r) /\ Len(r) = K + K + 1 /\ DOMAIN r = 1..(K + K + 1)
          /\ \A n \in 1..(K + K) : r[n] = kv[n]
          /\ r[K + K + 1] = link
      <4>1. /\ IsList(r) /\ Len(r) = Len(kv) + Len(l)
            /\ \A n \in 1..Len(kv) : r[n] = kv[n]
            /\ \A n \in 1..Len(l) : r[Len(kv) + n] = l[n]
        <5>1. IsList(kv) /\ IsList(l)
          BY <2>1, <3>2
        <5> QED  BY ONLY <5>1, ListConcat
      <4>2. Len(kv) = K + K /\ Len(l) = 1 /\ K + K \in Nat
        BY <1>1, <2>1, <3>2
      <4> HIDE DEF r
      <4>3. Len(r) = K + K + 1 /\ DOMAIN r = 1..Len(r)
        BY <4>1, <4>2, ListFacts
      <4>4. 1 \in 1..Len(l)
        BY <4>2
      <4> QED  BY <3>2, <4>1, <4>2, <4>3, <4>4
    <3>4. PartMarks(types, r) = (A \cup V) \cup {o}
      BY <1>10, <2>1, <2>2, <3>2, PartMarksConcat DEF l
    <3> HIDE DEF r
    <3>5. \A n \in 1..(K + K + 1) : n \in 1..(K + K) \/ n = K + K + 1
      BY <1>1
    <3> QED  BY <1>10, <2>3, <2>5, <3>1, <3>3, <3>4, <3>5
  <2> QED  BY <2>4, <2>5
<1>12. CASE ~ptrs
  <2>1. A \cup V = {}
    BY <1>2, <1>4, <1>12
  <2>2. MarksOf(d) = {} /\ d.ptrdata = 0 /\ d.bits = 0 /\ ~d.prog
    BY <1>8, <1>12 DEF MarksOf
  <2>3. d.size \in Nat
    BY <1>1, <1>2, <1>4, <1>8 DEF BucketBytes
  <2>4. Words(0) = 0 /\ 0 % PtrSize = 0
    BY <1>1 DEF Words
  <2>5. MapRules(d)
    BY <2>2, <2>3, <2>4 DEF MapRules
  <2>6. PartsRules(types, d)
    BY <1>8, <1>11, <1>12, <2>1, <2>2 DEF PartsRules
  <2> QED  BY <2>5, <2>6 DEF d
<1>13. CASE ptrs
  <2>1. BucketMap(k, e) = (A \cup V) \cup {o}
    <3>1. ~(Pointers(k) /\ types[k].prog) /\ ~(Pointers(e) /\ types[e].prog)
      BY DEF BucketPanics
    <3>2. (IF Pointers(k) THEN EmitMask(KeyBase, k, K) ELSE {}) = A
      BY <1>2, <1>6, <3>1
    <3>3. (IF Pointers(e) THEN EmitMask(ValBase(k), e, K) ELSE {}) = V
      BY <1>4, <1>6, <3>1
    <3> QED  BY <3>2, <3>3 DEF BucketMap, o
  <2>2. MarksOf(d) = (A \cup V) \cup {o} /\ d.mask = (A \cup V) \cup {o}
    BY <1>8, <1>13, <2>1 DEF MarksOf
  <2> DEFINE u == o + 1
             y == PtrSize * u
  <2>3. u \in Nat /\ u - 1 = o /\ d.ptrdata = y /\ d.size = y /\ d.bits = MaskBits(y)
    <3>1. (o + 1) * PtrSize = BucketBytes(k, e)
      BY BucketWords DEF MapInv, o
    <3>2. (o + 1) * PtrSize = y
      BY <1>1, <1>6
    <3> QED  BY <1>6, <1>8, <1>13, <3>1, <3>2
  <2> HIDE DEF u
  <2>4. Words(y) = u /\ y % PtrSize = 0 /\ y \in Nat
    BY <2>3, WordsTimes
  <2>5. MaskBits(y) \in Nat /\ u <= MaskBits(y)
    BY <2>3, MaskBitsFacts
  <2>6. (A \cup V) \cup {o} \subseteq 0..(u - 1) /\ (A \cup V) \cup {o} # {} /\ u - 1 \in (A \cup V) \cup {o}
    BY <1>7, <2>3
  <2> HIDE DEF y
  <2> DEFINE R == (A \cup V) \cup {o}
  <2> HIDE DEF R
  <2>7. MarksOf(d) = R /\ d.mask = R /\ R \subseteq 0..(u - 1) /\ R # {} /\ u - 1 \in R
    BY <2>2, <2>6 DEF R
  <2>8. MapRules(d)
    BY <1>8, <2>3, <2>4, <2>5, <2>7 DEF MapRules
  <2>9. PartsRules(types, d)
    BY <1>8, <1>11, <1>13, <2>2 DEF PartsRules
  <2> QED  BY <2>8, <2>9 DEF d
<1> QED  BY <1>12, <1>13

LEMMA MapOfMap ==
  ASSUME MapInv, NEW key \in Usable, NEW elem \in Usable, MapOf(key, elem)
  PROVE  MapInv'
<1> DEFINE k == KeyType(key)
           e == ValType(elem)
           d == BucketDescriptor(k, e)
<1>1. LayoutInv'
  BY BucketLayout DEF MapInv
<1>2. types' = Append(types, d) /\ fs' = fs /\ wrapped' = wrapped /\ ~BucketPanics(k, e)
  BY DEF MapOf
<1>3. k \in DOMAIN types /\ e \in DOMAIN types
  <2>1. Pointer \in DOMAIN types
    BY PointerMarks
  <2> QED  BY <2>1 DEF KeyType, ValType, Usable
<1> HIDE DEF k, e
<1>4. ~wrapped' => MapRules(d) /\ PartsRules(types, d)
  BY <1>2, <1>3, BucketRules
<1>5. \A n \in DOMAIN d.parts : d.parts[n].typ \in DOMAIN types
  <2> HIDE DEF d
  <2>1. /\ Len(types') = Len(types) + 1 /\ types'[Len(types) + 1] = d /\ Len(types) \in Nat
        /\ DOMAIN types = 1..Len(types) /\ Len(types) + 1 \in DOMAIN types'
    BY <1>2, AppendTypes DEF MapInv, LayoutInv
  <2>2. \A n \in DOMAIN d.parts : d.parts[n].typ \in 1..(Len(types) + 1 - 1)
    BY <1>1, <2>1 DEF LayoutInv, Alignments
  <2> QED  BY <2>1, <2>2
<1> HIDE DEF d
<1> QED  BY <1>1, <1>2, <1>4, <1>5, MakeMap

-----------------------------------------------------------------------------
(* Structs                                                                 *)

MarksUpTo(n) == UNION {PartMark(types, fs[k]) : k \in 1..n}

(* A field of the struct that StructOf works at.                           *)
LEMMA FieldIs ==
  ASSUME MapInv, ~wrapped, NEW n \in DOMAIN fs
  PROVE  LET ty == types[fs[n].typ] IN
         /\ fs[n].typ \in DOMAIN types /\ fs[n].offset \in Nat /\ ty.size \in Nat
         /\ MapRules(ty) /\ ty.kind # "bucket" /\ Fits(Slots[fs[n].typ], ty)
         /\ ty.ptrdata # 0 => fs[n].offset % PtrSize = 0 /\ ty.align = PtrSize
         /\ ty.align <= typalign
         /\ fs[n].offset + ty.size <= size
         /\ \A m \in DOMAIN fs : m > n => fs[n].offset + ty.size <= fs[m].offset
<1> DEFINE ty == types[fs[n].typ]
<1>1. fs[n].typ \in DOMAIN types /\ fs[n].offset \in Nat
  BY FieldFacts DEF MapInv, LayoutInv, Inv
<1>2. ty.size \in Nat /\ MapRules(ty) /\ ty.kind # "bucket"
  BY <1>1 DEF MapInv, LayoutInv, Inv, TypeOK, Maps, NoBuckets
<1>3. Fits(Slots[fs[n].typ], ty)
  <2>1. fs[n].typ \in Usable
    BY <1>1, <1>2 DEF Usable
  <2> QED  BY <2>1, SlotsFit
<1>4. fs[n].offset % ty.align = 0 /\ ty.align <= typalign
  BY DEF MapInv, LayoutInv, Multiples, Alignments
<1>5. ty.ptrdata # 0 => ty.align = PtrSize
  BY <1>2 DEF MapRules
<1>6. /\ fs[n].offset + ty.size <= size
      /\ \A m \in DOMAIN fs : m > n => fs[n].offset + ty.size <= fs[m].offset
  BY DEF MapInv, LayoutInv, Inv, FieldsApart, Apart
<1> QED  BY <1>1, <1>2, <1>3, <1>4, <1>5, <1>6

LEMMA LastFieldIs ==
  ASSUME IsList(fs)
  PROVE  /\ LastPtrField = 0 => \A n \in DOMAIN fs : ~Pointers(fs[n].typ)
         /\ LastPtrField # 0 => /\ LastPtrField \in DOMAIN fs /\ Pointers(fs[LastPtrField].typ)
                                /\ \A n \in DOMAIN fs : Pointers(fs[n].typ) => n <= LastPtrField
<1> DEFINE S == {n \in DOMAIN fs : Pointers(fs[n].typ)}
           N == Len(fs)
           L == CHOOSE n \in S : \A k \in S : k <= n
<1>1. N \in Nat /\ DOMAIN fs = 1..N
  BY ListFacts
<1>2. CASE S = {}
  BY <1>2 DEF LastPtrField
<1>3. CASE S # {}
  <2> DEFINE T == {x \in Nat : N - x \in S}
  <2>1. PICK n \in S : TRUE
    BY <1>3
  <2>2. n \in 1..N /\ N - n \in Nat /\ N - (N - n) = n
    BY <1>1, <2>1
  <2>3. N - n \in T
    BY <2>1, <2>2
  <2>4. PICK x \in T : \A y \in T : x <= y
    <3> HIDE DEF T
    <3>1. T \subseteq Nat /\ T # {}
      BY <2>3 DEF T
    <3> QED  BY <3>1, LeastNumber
  <2>5. \A k \in S : k \in 1..N /\ N - k \in T
    <3>1. \A k \in S : k \in 1..N /\ N - k \in Nat /\ N - (N - k) = k
      BY <1>1
    <3> QED  BY <3>1
  <2>6. N - x \in S /\ \A k \in S : k <= N - x
    <3>1. ASSUME NEW k \in S  PROVE k <= N - x
      <4>1. x <= N - k /\ x \in Nat /\ k \in 1..N
        BY <2>4, <2>5
      <4> QED  BY <1>1, <4>1
    <3> QED  BY <3>1
  <2>7. LastPtrField = L
    BY <1>3, Zenon DEF LastPtrField
  <2>8. L \in S /\ \A k \in S : k <= L
    <3> HIDE DEF S
    <3>1. \E m \in S : \A k \in S : k <= m
      BY <2>6
    <3> QED  BY <3>1
  <2> HIDE DEF L
  <2>9. L # 0
    BY <1>1, <2>8
  <2> QED  BY <2>7, <2>8, <2>9
<1> QED  BY <1>2, <1>3

LEMMA MarksGrow ==
  /\ MarksUpTo(0) = {}
  /\ \A n \in Nat : MarksUpTo(n + 1) = MarksUpTo(n) \cup PartMark(types, fs[n + 1])
<1>1. 1..0 = {}
  OBVIOUS
<1>2. ASSUME NEW n \in Nat  PROVE MarksUpTo(n + 1) = MarksUpTo(n) \cup PartMark(types, fs[n + 1])
  <2>1. 1..(n + 1) = 1..n \cup {n + 1}
    OBVIOUS
  <2> QED  BY <2>1 DEF MarksUpTo
<1> QED  BY <1>1, <1>2 DEF MarksUpTo

LEMMA NoPartMark ==
  ASSUME MapInv, ~wrapped, NEW n \in DOMAIN fs, ~Pointers(fs[n].typ)
  PROVE  PartMark(types, fs[n]) = {}
<1>1. MapRules(types[fs[n].typ])
  BY FieldIs
<1>2. MarksOf(types[fs[n].typ]) = {}
  BY <1>1, NoMarks DEF Pointers
<1> QED  BY <1>2 DEF PartMark, Shift

(* No marks after the last field with pointers.                            *)
LEMMA FieldsMarks ==
  ASSUME MapInv, ~wrapped
  PROVE  PartMarks(types, fs) = MarksUpTo(LastPtrField)
<1>1. IsList(fs)
  BY ListIn DEF MapInv, LayoutInv, Inv, TypeOK
<1>2. Len(fs) \in Nat /\ DOMAIN fs = 1..Len(fs)
  BY <1>1, ListFacts
<1> DEFINE L == LastPtrField
<1>3. \A n \in DOMAIN fs : n \notin 1..L => PartMark(types, fs[n]) = {}
  <2>1. ASSUME NEW n \in DOMAIN fs, n \notin 1..L  PROVE ~Pointers(fs[n].typ)
    <3>1. CASE L = 0
      BY <1>1, <3>1, LastFieldIs
    <3>2. CASE L # 0
      <4>1. L \in 1..Len(fs) /\ n \in 1..Len(fs) /\ ~(n <= L)
        BY <1>1, <1>2, <2>1, <3>2, LastFieldIs
      <4> QED  BY <1>1, <3>2, <4>1, LastFieldIs
    <3> QED  BY <3>1, <3>2
  <2> QED  BY <2>1, NoPartMark
<1>4. 1..L \subseteq DOMAIN fs
  <2>1. L = 0 \/ L \in 1..Len(fs)
    BY <1>1, <1>2, LastFieldIs
  <2> QED  BY <1>2, <2>1
<1> HIDE DEF L
<1> QED  BY <1>3, <1>4, Zenon DEF PartMarks, MarksUpTo, L

(* The recursion of StructProgram.                                         *)
Accumulates(f, n) ==
  f[0] = [prog |-> <<>>, off |-> 0] /\ \A k \in 1..n : f[k] = AddFieldProg(f[k - 1], fs[k])

LEMMA ProgramDef ==
  ASSUME LastPtrField \in Nat
  PROVE  \E f : Accumulates(f, LastPtrField) /\ StructProgram = f[LastPtrField].prog
<1> DEFINE N == LastPtrField
           Body(f, n) == IF n = 0 THEN [prog |-> <<>>, off |-> 0] ELSE AddFieldProg(f[n - 1], fs[n])
           Solves(f, n) == f = [k \in 0..n |-> Body(f, k)]
           Q(n) == \E f : Solves(f, n)
           S == {n \in Nat : Q(n)}
<1>1. 0 \in S
  <2> DEFINE f == [k \in 0..0 |-> [prog |-> <<>>, off |-> 0]]
  <2>1. Solves(f, 0)
    OBVIOUS
  <2> QED  BY <2>1
<1>0. ASSUME NEW f, NEW g, NEW n \in Nat, n # 0 => f[n - 1] = g[n - 1]
      PROVE  Body(f, n) = Body(g, n)
  BY <1>0
<1> HIDE DEF Body
<1>2. ASSUME NEW n \in Nat, n \in S  PROVE n + 1 \in S
  <2>1. PICK f : Solves(f, n)
    BY <1>2
  <2> DEFINE g == [k \in 0..(n + 1) |-> Body(f, k)]
  <2>2. \A k \in 0..n : f[k] = g[k]
    <3>1. \A k \in 0..n : f[k] = Body(f, k)
      BY <2>1
    <3>2. \A k \in 0..n : k \in 0..(n + 1)
      OBVIOUS
    <3> QED  BY <3>1, <3>2
  <2>3. ASSUME NEW k \in 0..(n + 1)  PROVE Body(f, k) = Body(g, k)
    <3>1. k \in Nat /\ (k # 0 => k - 1 \in 0..n)
      OBVIOUS
    <3>2. k # 0 => f[k - 1] = g[k - 1]
      BY <2>2, <3>1
    <3> HIDE DEF g
    <3> QED  BY <1>0, <3>1, <3>2
  <2>4. Solves(g, n + 1)
    BY <2>3
  <2> HIDE DEF g
  <2>5. Q(n + 1)
    BY <2>4
  <2> HIDE DEF Q
  <2> QED  BY <2>5
<1> HIDE DEF S
<1>3. N \in S
  BY <1>1, <1>2, Induction
<1>4. PICK h : Solves(h, N)
  BY <1>3 DEF S
<1> DEFINE acc == CHOOSE f : f = [n \in 0..N |-> Body(f, n)]
<1>5. Solves(acc, N)
  BY <1>4
<1>6. StructProgram = acc[N].prog
  BY Zenon DEF StructProgram, Body
<1> HIDE DEF acc
<1>7. Accumulates(acc, N)
  <2>1. \A k \in 0..N : acc[k] = Body(acc, k)
    BY <1>5
  <2>2. 0 \in 0..N /\ \A k \in 1..N : k \in 0..N /\ k # 0
    OBVIOUS
  <2>3. acc[0] = [prog |-> <<>>, off |-> 0]
    BY <2>1, <2>2 DEF Body
  <2>4. \A k \in 1..N : acc[k] = AddFieldProg(acc[k - 1], fs[k])
    BY <2>1, <2>2 DEF Body
  <2> QED  BY <2>3, <2>4 DEF Accumulates
<1> QED  BY <1>6, <1>7

(* How far the program of a struct has got after some of the fields.       *)
Reached(acc, n) ==
  /\ acc.off \in Nat /\ acc.off % PtrSize = 0
  /\ Emits(acc.prog, MarksUpTo(n), Words(acc.off))
  /\ \A k \in DOMAIN fs : k > n => acc.off <= fs[k].offset
  /\ n # 0 /\ Pointers(fs[n].typ) =>
       acc.off = fs[n].offset + types[fs[n].typ].ptrdata

LEMMA FieldProg ==
  ASSUME MapInv, ~wrapped, NEW n \in DOMAIN fs, NEW acc, Reached(acc, n - 1)
  PROVE  Reached(AddFieldProg(acc, fs[n]), n)
<1> DEFINE t == fs[n].typ
           ty == types[t]
           o == fs[n].offset
           p == ty.ptrdata
           next == AddFieldProg(acc, fs[n])
           M == MarksUpTo(n - 1)
           off == acc.off
<1>1. n \in Nat \ {0} /\ n - 1 \in Nat /\ DOMAIN fs \subseteq Nat
  BY DEF MapInv, LayoutInv, Inv, TypeOK
<1>2. MarksUpTo(n) = M \cup PartMark(types, fs[n])
  <2>1. (n - 1) + 1 = n
    BY <1>1
  <2> QED  BY <1>1, <2>1, MarksGrow
<1>3. /\ off \in Nat /\ off % PtrSize = 0 /\ Emits(acc.prog, M, Words(off))
      /\ \A k \in DOMAIN fs : k > n - 1 => off <= fs[k].offset
  BY DEF Reached
<1>4. CASE ~Pointers(t)
  <2>1. next = acc
    BY <1>4 DEF AddFieldProg
  <2>2. MarksUpTo(n) = M
    BY <1>2, <1>4, NoPartMark
  <2>3. \A k \in DOMAIN fs : k > n => off <= fs[k].offset
    <3>1. \A k \in DOMAIN fs : k > n => k > n - 1
      BY <1>1
    <3> QED  BY <1>3, <3>1
  <2> HIDE DEF next
  <2> QED  BY <1>3, <1>4, <2>1, <2>2, <2>3 DEF Reached, next
<1>5. CASE Pointers(t)
  <2>1. p # 0 /\ MapRules(ty) /\ o \in Nat /\ o % PtrSize = 0 /\ ty.size \in Nat
        /\ \A m \in DOMAIN fs : m > n => o + ty.size <= fs[m].offset
    BY <1>5, FieldIs DEF Pointers
  <2>2. p \in Nat /\ p <= ty.size /\ p % PtrSize = 0
    BY <2>1 DEF MapRules
  <2>3. off <= o
    BY <1>1, <1>3
  <2> DEFINE gap == IF o > off THEN Zeros(Words(o - off)) ELSE <<>>
             one == OneElement(t)
             g == o - off
  <2>4. next = [prog |-> (acc.prog \o gap) \o one, off |-> o + p]
    <3>1. (IF o > off THEN o ELSE off) = o
      BY <1>3, <2>1, <2>3
    <3> QED  BY <1>5, <3>1 DEF AddFieldProg
  <2>5. Emits(gap, {}, Words(g)) /\ Words(o) = Words(off) + Words(g)
    <3>1. g \in Nat /\ off + g = o
      BY <1>3, <2>1, <2>3
    <3>2. g % PtrSize = 0
      <4>1. PtrSize \in Nat \ {0} /\ o \in Int /\ off \in Int
        BY <1>3, <2>1, LayoutAssumption
      <4>2. PICK a \in Int : o = PtrSize * a
        BY <2>1, <4>1, Multiple
      <4>3. PICK b \in Int : off = PtrSize * b
        BY <1>3, <4>1, Multiple
      <4>4. g = PtrSize * (a - b) /\ a - b \in Int
        BY <4>1, <4>2, <4>3
      <4> QED  BY <4>1, <4>4, MultipleOf
    <3> HIDE DEF g
    <3>3. Words(off + g) = Words(off) + Words(g)
      BY <1>3, <3>1, <3>2, WordsSum
    <3>4. CASE o > off
      <4>1. g # 0
        BY <1>3, <2>1, <3>4 DEF g
      <4>2. Words(g) \in Nat /\ g = PtrSize * Words(g)
        BY <3>1, <3>2, WordsFacts
      <4>3. Words(g) \in Nat \ {0}
        <5>1. PtrSize * 0 = 0
          BY LayoutAssumption
        <5> QED  BY <4>1, <4>2, <5>1
      <4>4. gap = Zeros(Words(g))
        BY <3>4 DEF g
      <4> QED  BY <3>1, <3>3, <4>3, <4>4, EmitsZeros
    <3>5. CASE ~(o > off)
      <4>1. g = 0
        BY <1>3, <2>1, <2>3, <3>5 DEF g
      <4>2. Words(g) = 0
        BY <4>1, LayoutAssumption DEF Words
      <4>3. gap = <<>>
        BY <3>5
      <4> QED  BY <3>1, <3>3, <4>2, <4>3, EmitsNothing
    <3> QED  BY <3>4, <3>5
  <2>6. Emits(one, MarksOf(ty), Words(p))
    BY <2>1, OneElementEmits
  <2> HIDE DEF gap, one, g
  <2>7. Emits(acc.prog \o gap, M, Words(o))
    <3>1. Joined(M, {}, Words(off)) = M
      BY DEF Joined, Shift
    <3> HIDE DEF M, off
    <3> QED  BY <1>3, <2>5, <3>1, EmitsBoth
  <2>8. Words(o + p) = Words(o) + Words(p) /\ (o + p) % PtrSize = 0 /\ o + p \in Nat
    BY <2>1, <2>2, WordsSum
  <2>9. Emits((acc.prog \o gap) \o one, MarksUpTo(n), Words(o + p))
    <3> DEFINE q == acc.prog \o gap
    <3>1. Joined(M, MarksOf(ty), Words(o)) = MarksUpTo(n)
      BY <1>2 DEF Joined, PartMark
    <3> HIDE DEF M, q
    <3>2. Emits(q \o one, Joined(M, MarksOf(ty), Words(o)), Words(o) + Words(p))
      BY <2>6, <2>7, EmitsBoth DEF q
    <3> QED  BY <2>8, <3>1, <3>2 DEF q
  <2>10. \A k \in DOMAIN fs : k > n => o + p <= fs[k].offset
    <3>1. \A k \in DOMAIN fs : fs[k].offset \in Nat
      BY FieldIs
    <3>2. o \in Nat /\ ty.size \in Nat
      BY <2>1
    <3> HIDE DEF o, p, ty
    <3> QED  BY <2>1, <2>2, <3>1, <3>2
  <2>11. next.off = o + p /\ next.prog = (acc.prog \o gap) \o one
    BY <2>4
  <2> HIDE DEF next
  <2> QED  BY <2>8, <2>9, <2>10, <2>11 DEF Reached, next
<1> QED  BY <1>4, <1>5

LEMMA ProgramEmits ==
  ASSUME MapInv, ~wrapped
  PROVE  Emits(StructProgram, PartMarks(types, fs), Words(StructPtrdata))
<1> DEFINE L == LastPtrField
<1>1. IsList(fs)
  BY ListIn DEF MapInv, LayoutInv, Inv, TypeOK
<1>2. Len(fs) \in Nat /\ DOMAIN fs = 1..Len(fs)
  BY <1>1, ListFacts
<1>3. L \in 0..Len(fs) /\ L \in Nat
  BY <1>1, <1>2, LastFieldIs
<1>4. PICK f : Accumulates(f, L) /\ StructProgram = f[L].prog
  BY <1>3, ProgramDef
<1> DEFINE S == {n \in Nat : n <= L => Reached(f[n], n)}
<1>5. 0 \in S
  <2>1. f[0] = [prog |-> <<>>, off |-> 0]
    BY <1>4 DEF Accumulates
  <2>2. Words(0) = 0 /\ 0 % PtrSize = 0
    BY LayoutAssumption DEF Words
  <2>3. \A k \in DOMAIN fs : 0 <= fs[k].offset
    BY FieldIs
  <2>4. f[0].prog = <<>> /\ f[0].off = 0
    BY <2>1
  <2>5. Reached(f[0], 0)
    <3>1. Emits(f[0].prog, MarksUpTo(0), Words(f[0].off))
      BY <2>2, <2>4, MarksGrow, EmitsNothing
    <3>2. \A k \in DOMAIN fs : k > 0 => f[0].off <= fs[k].offset
      BY <2>3, <2>4
    <3>3. f[0].off \in Nat /\ f[0].off % PtrSize = 0
      BY <2>2, <2>4
    <3> QED  BY <3>1, <3>2, <3>3 DEF Reached
  <2> QED  BY <2>5
<1>6. ASSUME NEW n \in Nat, n \in S  PROVE n + 1 \in S
  <2> SUFFICES ASSUME n + 1 <= L  PROVE Reached(f[n + 1], n + 1)
    OBVIOUS
  <2> DEFINE m == n + 1
  <2>1. m \in 1..L /\ m - 1 = n /\ n <= L /\ m \in DOMAIN fs
    BY <1>2, <1>3
  <2>2. Reached(f[m - 1], m - 1)
    BY <1>6, <2>1
  <2>3. f[m] = AddFieldProg(f[m - 1], fs[m])
    BY <1>4, <2>1 DEF Accumulates
  <2> HIDE DEF m
  <2>4. Reached(AddFieldProg(f[m - 1], fs[m]), m)
    BY <2>1, <2>2, FieldProg
  <2>5. Reached(f[m], m)
    BY <2>3, <2>4
  <2> QED  BY <2>5 DEF m
<1> HIDE DEF S
<1>7. Reached(f[L], L)
  <2>1. L \in S
    BY <1>3, <1>5, <1>6, Induction
  <2> QED  BY <1>3, <2>1 DEF S
<1>8. f[L].off = StructPtrdata
  <2>1. CASE L = 0
    <3>1. f[0] = [prog |-> <<>>, off |-> 0]
      BY <1>4 DEF Accumulates
    <3> QED  BY <2>1, <3>1 DEF StructPtrdata
  <2>2. CASE L # 0
    <3>1. Pointers(fs[L].typ)
      BY <1>1, <2>2, LastFieldIs
    <3> QED  BY <1>7, <2>2, <3>1 DEF Reached, StructPtrdata
  <2> QED  BY <2>1, <2>2
<1>9. PartMarks(types, fs) = MarksUpTo(L)
  BY FieldsMarks
<1> HIDE DEF L
<1> QED  BY <1>4, <1>7, <1>8, <1>9 DEF Reached

(* The bit vector of a struct.                                             *)
LEMMA FieldBits ==
  ASSUME MapInv, ~wrapped
  PROVE  \E m \in Nat : BitsAre(TypeBits(fs), PartMarks(types, fs), m)
<1> DEFINE s == FlattenSeq(SlotList(Slots, types, fs))
<1>1. IsList(fs) /\ size \in Nat /\ Apart(types, fs, size)
  BY ListIn DEF MapInv, LayoutInv, Inv, TypeOK, FieldsApart
<1>2. \A n \in DOMAIN fs :
        /\ fs[n].offset \in Nat /\ 0 <= fs[n].offset /\ types[fs[n].typ].size \in Nat
        /\ Fits(Slots[fs[n].typ], types[fs[n].typ])
        /\ types[fs[n].typ].ptrdata # 0 => fs[n].offset % PtrSize = 0
  BY FieldIs
<1>3. /\ s \in Seq(PtrSlots) /\ SlotsInOrder(s, 0, size) /\ SlotWords(s) = PartMarks(types, fs)
  BY <1>1, <1>2, PartSlots
<1>4. BitsAre(<<>>, {}, 0)
  <2>1. BitsOf({}, 0) = <<>>
    BY DEF BitsOf
  <2> QED  BY <2>1 DEF BitsAre
<1>5. TypeBits(fs) = AddedBits(<<>>, s)
  BY DEF TypeBits, SlotList
<1> HIDE DEF s
<1>6. PtrSize * 0 <= 0 /\ 0 <= size
  BY <1>1, LayoutAssumption
<1>7. \E m \in Nat : BitsAre(AddedBits(<<>>, s), {} \cup SlotWords(s), m) /\ PtrSize * m <= size
  BY <1>1, <1>3, <1>4, <1>6, AddedBitsMap
<1>8. {} \cup SlotWords(s) = PartMarks(types, fs)
  BY <1>3
<1> QED  BY <1>5, <1>7, <1>8

LEMMA StructMap ==
  ASSUME MapInv, ~wrapped, fs # <<>>, size <= StructDescriptor.size
  PROVE  MapRules(StructDescriptor) /\ PartsRules(types, StructDescriptor)
<1> DEFINE d == StructDescriptor
           L == LastPtrField
           bv == TypeBits(fs)
           M == PartMarks(types, fs)
           p == StructPtrdata
           W == Words(p)
<1>1. IsList(fs) /\ size \in Nat /\ Apart(types, fs, size) /\ typalign \in Aligns
      /\ PtrSize \in Nat \ {0} /\ Len(fs) \in Nat /\ DOMAIN fs = 1..Len(fs)
  BY ListIn, LayoutAssumption
     DEF MapInv, LayoutInv, Inv, TypeOK, FieldsApart, Alignments
<1>2. /\ d.kind = "struct" /\ d.align = typalign /\ d.ptrdata = p /\ d.parts = fs
      /\ d.size = Wrap(StructSize) /\ d.prog = HasGCProg
      /\ d.program = (IF HasGCProg THEN StructProgram ELSE <<>>)
      /\ d.mask = (IF HasGCProg THEN {} ELSE Ones(bv))
      /\ d.bits = (IF HasGCProg THEN 0 ELSE MaskBits(Len(bv) * PtrSize))
  BY DEF StructDescriptor
<1> HIDE DEF d
<1>3. PICK m \in Nat : BitsAre(bv, M, m)
  BY FieldBits
<1>4. /\ Len(bv) = m /\ Ones(bv) = M /\ M \subseteq 0..(m - 1)
      /\ MaskBits(Len(bv) * PtrSize) \in Nat /\ m <= MaskBits(Len(bv) * PtrSize)
  <2>1. Len(bv) = m /\ Ones(bv) = M /\ M \subseteq 0..(m - 1)
    BY <1>3, BitsAreFacts DEF BitsAre
  <2>2. m * PtrSize = PtrSize * m
    BY <1>1
  <2> HIDE DEF bv, M
  <2> QED  BY <2>1, <2>2, MaskBitsFacts
<1>5. Emits(StructProgram, M, W)
  BY ProgramEmits
<1>6. W \in Nat /\ M \subseteq 0..(W - 1) /\ Ones(Run(StructProgram)) = M
  <2> HIDE DEF M, p, W
  <2> QED  BY <1>5, EmitsRun DEF Emits
<1> HIDE DEF bv, M, W
<1>7. MarksOf(d) = M
  BY <1>2, <1>4, <1>6 DEF MarksOf
<1>0. d.size \in Nat /\ size <= d.size
  <2>1. StructSize \in Nat
    <3>1. size \in Nat /\ lastzero \in Nat /\ typalign \in Nat \ {0}
      BY DEF MapInv, LayoutInv, Inv, TypeOK
    <3>2. PaddedSize \in Nat
      BY <3>1 DEF PaddedSize
    <3> QED  BY <3>1, <3>2, AlignFacts DEF StructSize
  <2> QED  BY <1>2, <2>1, WrapFacts DEF d
<1>8. PartsRules(types, d)
  <2>1. \A n \in DOMAIN fs : fs[n].offset \in Nat /\ types[fs[n].typ].kind # "bucket"
    BY FieldIs
  <2>2. Apart(types, fs, d.size)
    <3>1. d.size \in Nat /\ size <= d.size
      BY <1>0
    <3>2. \A n \in DOMAIN fs : fs[n].offset + types[fs[n].typ].size \in Nat
      BY FieldIs
    <3> QED  BY <1>1, <3>1, <3>2 DEF Apart
  <2> QED  BY <1>1, <1>2, <1>7, <2>1, <2>2 DEF PartsRules, M
<1>9. CASE L = 0
  <2>1. \A n \in DOMAIN fs : ~Pointers(fs[n].typ)
    BY <1>1, <1>9, LastFieldIs
  <2>2. ~HasGCProg
    <3>1. \A n \in DOMAIN fs : ~types[fs[n].typ].prog
      BY <2>1, FieldIs DEF MapRules, Pointers
    <3> QED  BY <3>1 DEF HasGCProg, FieldTypes
  <2>3. p = 0 /\ W = 0
    <3>1. p = 0
      BY <1>9 DEF StructPtrdata
    <3> QED  BY <1>1, <3>1 DEF W, Words
  <2>4. M \subseteq 0..(W - 1)
    BY <1>6
  <2>5. d.prog = FALSE /\ d.bits \in Nat /\ d.ptrdata = 0
    BY <1>2, <1>4, <2>2, <2>3
  <2>6. 0 % PtrSize = 0 /\ Words(0) = 0
    BY <1>1 DEF Words
  <2>7. MapRules(d)
    BY <1>0, <1>7, <2>3, <2>4, <2>5, <2>6 DEF MapRules
  <2> QED  BY <1>8, <2>7 DEF d
<1>10. CASE L # 0
  <2> DEFINE ty == types[fs[L].typ]
             o == fs[L].offset
             q == ty.ptrdata
             V == Words(q)
  <2>1. L \in DOMAIN fs /\ Pointers(fs[L].typ)
    BY <1>1, <1>10, LastFieldIs
  <2>2. /\ o \in Nat /\ o % PtrSize = 0 /\ MapRules(ty) /\ q # 0 /\ ty.size \in Nat
        /\ ty.align = PtrSize /\ ty.align <= typalign /\ o + ty.size <= size
    BY <2>1, FieldIs DEF Pointers
  <2>3. /\ q \in Nat /\ q <= ty.size /\ q % PtrSize = 0
        /\ MarksOf(ty) # {} /\ (~ty.prog => V - 1 \in MarksOf(ty))
    BY <2>2 DEF MapRules, MarksOf
  <2>4. p = o + q
    BY <1>10 DEF StructPtrdata
  <2>5. PartMark(types, fs[L]) = Shift(MarksOf(ty), Words(o)) /\ PartMark(types, fs[L]) \subseteq M
    BY <2>1 DEF PartMark, PartMarks, M
  <2>6. typalign = PtrSize
    <3>1. PtrSize % typalign = 0 /\ typalign \in Nat \ {0}
      BY <1>1, AlignsFacts
    <3>2. PtrSize <= typalign
      BY <2>2
    <3>3. PtrSize < typalign => PtrSize % typalign = PtrSize
      BY <1>1, <3>1
    <3> QED  BY <1>1, <3>1, <3>2, <3>3
  <2>7. ~HasGCProg => ~ty.prog
    BY <2>1 DEF HasGCProg, FieldTypes
  <2> HIDE DEF ty, o, q, p, L
  <2>8. Words(o + q) = Words(o) + V /\ (o + q) % PtrSize = 0 /\ Words(o) \in Nat /\ V \in Nat
    BY <2>2, <2>3, WordsSum, WordsFacts
  <2>9. p \in Nat /\ p # 0 /\ p <= d.size /\ p % PtrSize = 0 /\ W = Words(o) + V
    BY <1>0, <1>1, <2>2, <2>3, <2>4, <2>8 DEF W
  <2>10. M # {}
    <3>1. PICK j \in MarksOf(ty) : TRUE
      BY <2>3
    <3>2. Words(o) + j \in Shift(MarksOf(ty), Words(o))
      BY DEF Shift
    <3> QED  BY <2>5, <3>2
  <2>11. ~HasGCProg => W - 1 \in M
    <3> SUFFICES ASSUME ~HasGCProg  PROVE W - 1 \in M
      OBVIOUS
    <3>1. V - 1 \in MarksOf(ty)
      BY <2>3, <2>7
    <3>2. Words(o) + (V - 1) \in Shift(MarksOf(ty), Words(o))
      BY <3>1 DEF Shift
    <3>3. Words(o) + (V - 1) = W - 1
      BY <2>8, <2>9
    <3> QED  BY <2>5, <3>2, <3>3
  <2>12. d.align = PtrSize /\ d.ptrdata = p
    BY <1>2, <2>6
  <2>13. CASE HasGCProg
    <3>1. d.prog = TRUE /\ d.program = StructProgram
      BY <1>2, <2>13
    <3>2. Emits(d.program, MarksOf(d), W)
      BY <1>5, <1>7, <3>1
    <3>3. MapRules(d)
      BY <1>6, <1>7, <2>9, <2>10, <2>12, <3>1, <3>2 DEF MapRules, W
    <3> QED  BY <1>8, <3>3 DEF d
  <2>14. CASE ~HasGCProg
    <3>1. d.prog = FALSE /\ d.mask = M /\ d.bits \in Nat /\ m <= d.bits
      BY <1>2, <1>4, <2>14
    <3>2. W - 1 \in M /\ W <= d.bits
      <4>1. W - 1 \in M
        BY <2>11, <2>14
      <4>2. W - 1 \in 0..(m - 1)
        BY <1>4, <4>1
      <4> QED  BY <1>6, <3>1, <4>1, <4>2
    <3>3. MapRules(d)
      BY <1>6, <1>7, <2>9, <2>10, <2>12, <3>1, <3>2 DEF MapRules, W
    <3> QED  BY <1>8, <3>3 DEF d
  <2> QED  BY <2>13, <2>14
<1> QED  BY <1>9, <1>10

LEMMA FinishStructMap ==
  ASSUME MapInv, FinishStruct
  PROVE  MapInv'
<1> DEFINE d == StructDescriptor
<1>1. LayoutInv'
  BY FinishStructLayout DEF MapInv
<1>2. /\ fs # <<>> /\ types' = Append(types, d) /\ fs' = fs
      /\ wrapped' = (wrapped \/ StructSize >= AddressSpace)
      /\ d.parts = fs /\ d.size = Wrap(StructSize)
  BY DEF FinishStruct, StructDescriptor
<1> HIDE DEF d
<1>3. size \in Nat /\ lastzero \in Nat /\ typalign \in Nat \ {0}
  BY <1>2 DEF MapInv, LayoutInv, Inv, TypeOK
<1>4. PaddedSize \in Nat /\ size <= PaddedSize
  BY <1>3 DEF PaddedSize
<1>5. StructSize \in Nat /\ size <= StructSize
  BY <1>3, <1>4, AlignFacts DEF StructSize
<1>6. ASSUME ~wrapped'  PROVE MapRules(d) /\ PartsRules(types, d)
  <2>1. ~wrapped /\ ~(StructSize >= AddressSpace)
    BY <1>2, <1>6, Zenon
  <2>2. d.size = StructSize
    BY <1>2, <1>5, <2>1, WrapFacts, LayoutAssumption
  <2> QED  BY <1>2, <1>5, <2>1, <2>2, StructMap DEF d
<1>7. \A n \in DOMAIN d.parts : d.parts[n].typ \in DOMAIN types
  BY <1>2, FieldFacts DEF MapInv, LayoutInv, Inv
<1>8. wrapped => wrapped'
  BY <1>2
<1> QED  BY <1>1, <1>2, <1>6, <1>7, <1>8, MakeMap

LEMMA StepMap == MapInv /\ [Next]_vars => MapInv'
<1> SUFFICES ASSUME MapInv, [Next]_vars  PROVE MapInv'
  OBVIOUS
<1>1. CASE StartStruct
  BY <1>1, StartStructMap
<1>2. CASE FinishStruct
  BY <1>2, FinishStructMap
<1>3. CASE \E t \in Usable : AddField(t)
  BY <1>3, AddFieldMap
<1>4. CASE \E t \in Usable, count \in Counts : ArrayOf(count, t)
  BY <1>4, ArrayOfMap
<1>5. CASE \E key, elem \in Usable : MapOf(key, elem)
  BY <1>5, MapOfMap
<1>6. CASE UNCHANGED vars
  <2>1. LayoutInv'
    BY StepLayout DEF MapInv
  <2>2. types' = types /\ fs' = fs /\ wrapped' = wrapped
    BY <1>6 DEF vars
  <2>3. NoBuckets'
    BY <2>2 DEF MapInv, NoBuckets
  <2>4. Maps'
    <3>1. CASE wrapped
      BY <2>2, <3>1 DEF Maps
    <3>2. CASE ~wrapped
      <4>1. /\ \A t \in DOMAIN types' : MapRules(types'[t])
            /\ \A t \in MadeTypes' : PartsRules(types', types'[t])
        BY <2>2, <3>2 DEF MapInv, Maps, MadeTypes
      <4> QED  BY ONLY <4>1 DEF Maps, MapRules, PartsRules, PartMarks, PartMark, MarksOf, Apart
    <3> QED  BY <3>1, <3>2
  <2> QED  BY <2>1, <2>3, <2>4 DEF MapInv
<1> QED  BY <1>1, <1>2, <1>3, <1>4, <1>5, <1>6 DEF Next

(* The collector sees all the pointers of a value of a made type, and only *)
(* pointers, whether the map is a mask of the fields, emitGCMask's, or a    *)
(* program of StructOf or ArrayOf.                                         *)
THEOREM PointerMaps == Spec => []PointerMap
<1>1. MapInv => PointerMap
  BY MapsTell
<1> QED  BY <1>1, InitMap, StepMap, PTL DEF Spec

(* Masks are as long as what is read of them, programs emit ptrdata's      *)
(* worth of bits, and ptrdata is within the type and zero just when it has *)
(* no pointers.                                                            *)
THEOREM MapsFit == Spec => []MapFits
<1>1. MapInv => MapFits
  BY MapsTell
<1> QED  BY <1>1, InitMap, StepMap, PTL DEF Spec
=============================================================================
