----------------------------- MODULE TypeLayout -----------------------------
(***************************************************************************)
(* The memory layout of the types made at run time by StructOf, ArrayOf    *)
(* and MapOf (internal/reflect/type.go): sizes, offsets, and the pointer   *)
(* maps the garbage collector reads, which are bit masks, or programs that *)
(* emit them when a type has a large array in it.                          *)
(*                                                                         *)
(* A type descriptor is a record; `types' has all of them, the basic types *)
(* (the compiler's) first, and a type is its index there.  Sizes and       *)
(* offsets are in bytes, masks are sets of word numbers.                   *)
(***************************************************************************)
EXTENDS Integers, Sequences, FiniteSets, SequencesExt

CONSTANTS
  PtrSize,        \* bytes in a word
  AddressSpace,   \* the number of addresses: arithmetic on sizes wraps there
  MaxPtrmask,     \* maxPtrmaskBytes * 8: words a mask may have
  Chunk,          \* bits in one literal instruction of a program, 120
  BucketSize, MaxKeySize, MaxValSize,
  BasicTypes,     \* descriptors of basic types
  Pointer,        \* the basic type of a pointer
  Counts,         \* lengths of arrays
  MaxFields, MaxMade   \* bounds on fields of a struct and on types made

ASSUME LayoutAssumption ==
  /\ PtrSize \in Nat \ {0} /\ AddressSpace \in Nat \ {0} /\ Counts \subseteq Nat
  /\ MaxFields \in Nat /\ MaxMade \in Nat
  /\ \A n \in DOMAIN BasicTypes :
       /\ BasicTypes[n].size \in 0..(AddressSpace - 1)
       /\ BasicTypes[n].align \in Nat \ {0}
       /\ BasicTypes[n].parts = <<>>
  /\ BasicTypes \in Seq(Range(BasicTypes)) /\ Pointer \in DOMAIN BasicTypes

(* "They're guaranteed to have bitmaps instead of GC programs."            *)
ASSUME BucketAssumption ==
  /\ MaxKeySize <= MaxPtrmask * PtrSize /\ MaxValSize <= MaxPtrmask * PtrSize
  /\ BucketSize \in Nat /\ BucketSize % PtrSize = 0

(* What holds of the compiler's types: alignments are powers of two up to   *)
(* that of a word, sizes are multiples of them, a type has a program only  *)
(* when its mask would be too long, and what fits in an interface without  *)
(* a box is a pointer.                                                     *)
ASSUME CompilerAssumption ==
  /\ BasicTypes[Pointer].size = PtrSize /\ BasicTypes[Pointer].align = PtrSize
  /\ MaxPtrmask \in Nat /\ MaxKeySize \in Nat /\ MaxValSize \in Nat
  /\ PtrSize <= MaxPtrmask * PtrSize
  /\ \A n \in DOMAIN BasicTypes : LET ty == BasicTypes[n] IN
       /\ PtrSize % ty.align = 0 /\ ty.size % ty.align = 0
       /\ \A m \in DOMAIN BasicTypes :
            ty.align <= BasicTypes[m].align => BasicTypes[m].align % ty.align = 0
       /\ ty.prog => ty.size > MaxPtrmask * PtrSize
       /\ ty.direct => ty.size = PtrSize /\ ty.mask = {0}

VARIABLES
  types,                       \* the descriptors
  fs, size, typalign, lastzero, \* locals of StructOf; fields: type and offset
  making,                      \* StructOf is at work
  wrapped                      \* history: its size has wrapped around

vars == <<types, fs, size, typalign, lastzero, making, wrapped>>

(* Arithmetic of uintptr.                                                  *)
Wrap(n) == IF n < AddressSpace THEN n ELSE n % AddressSpace

(* x rounded up to a multiple of a.                                        *)
Align(x, a) == x + ((-x) % a)
Words(n)    == n \div PtrSize
Pointers(t) == types[t].ptrdata # 0

Init ==
  /\ types = BasicTypes
  /\ fs = <<>> /\ size = 0 /\ typalign = 0 /\ lastzero = 0
  /\ making = FALSE
  /\ wrapped = FALSE

-----------------------------------------------------------------------------
(* Masks and programs                                                      *)

(* The words that emitGCMask sets for n consecutive elements of t.         *)
EmitMask(base, t, n) ==
  {base + k * Words(types[t].size) + j :
     k \in 0..(n - 1), j \in types[t].mask \cap 0..(Words(types[t].ptrdata) - 1)}

(* Bits of a mask that is allocated for ptrdata bytes.                     *)
MaskBits(ptrdata) == ((Words(ptrdata) + 7) \div 8) * 8

(* Instructions: literal bits, and "repeat the last n bits c times".       *)
Lit(bits)    == [op |-> "lit", bits |-> bits]
Repeat(n, c) == [op |-> "repeat", n |-> n, c |-> c]

(* How the runtime runs a program.                                         *)
RunStep(bits, ins) ==
  IF ins.op = "lit" THEN bits \o ins.bits
  ELSE bits \o [k \in 1..(ins.n * ins.c) |-> bits[Len(bits) - ins.n + 1 + ((k - 1) % ins.n)]]

RunFrom(emitted, program) ==
  LET bits[n \in 0..Len(program)] ==
        IF n = 0 THEN emitted ELSE RunStep(bits[n - 1], program[n])
  IN  bits[Len(program)]

Run(program) == RunFrom(<<>>, program)

(* A mistake: to repeat n times what has been emitted once.                *)
ZerosTwice(n) == IF n > 1 THEN <<Lit(<<0>>), Repeat(1, n)>> ELSE <<Lit(<<0>>)>>

(* n zero bits.                                                            *)
Zeros(n) == IF n > 1 THEN <<Lit(<<0>>), Repeat(1, n - 1)>> ELSE <<Lit(<<0>>)>>

(* The instructions that appendGCProg adds for one t, to its last pointer. *)
OneElement(t) ==
  IF types[t].prog THEN types[t].program
  ELSE LET ptrs == Words(types[t].ptrdata)
           last == IF ptrs = 0 THEN 0 ELSE (ptrs - 1) \div Chunk
           Bit(j) == IF j \in types[t].mask THEN 1 ELSE 0
       IN  [c \in 1..(last + 1) |->
              Lit([k \in 1..(IF c <= last THEN Chunk ELSE ptrs - last * Chunk) |->
                     Bit((c - 1) * Chunk + k - 1)])]

(* The bit vector that addTypeBits makes: for each pointer, string, slice  *)
(* or interface in the order of memory, pads to its offset and appends its *)
(* one or two bits.                                                        *)
AddBits(bv, slot) ==
  bv \o [k \in 1..(Words(slot.offset) - Len(bv)) |-> 0] \o [k \in 1..slot.ptrs |-> 1]

Shifted(slots, by) == [k \in DOMAIN slots |-> [slots[k] EXCEPT !.offset = @ + by]]

Slots[t \in DOMAIN types] ==
  IF ~Pointers(t) THEN <<>>
  ELSE IF t <= Len(BasicTypes) THEN types[t].slots
  ELSE FlattenSeq([k \in DOMAIN types[t].parts |->
                     Shifted(Slots[types[t].parts[k].typ], types[t].parts[k].offset)])

AddedBits(bv, slots) ==
  LET bits[n \in 0..Len(slots)] == IF n = 0 THEN bv ELSE AddBits(bits[n - 1], slots[n])
  IN  bits[Len(slots)]

TypeBits(parts) ==
  AddedBits(<<>>, FlattenSeq([k \in DOMAIN parts |-> Shifted(Slots[parts[k].typ], parts[k].offset)]))

Ones(bv) == {j \in 0..(Len(bv) - 1) : bv[j + 1] = 1}

(* Slots are words in the order of memory, from one address to another.    *)
PtrSlots      == [offset : Nat, ptrs : Nat \ {0}]
SlotEnd(slot) == slot.offset + slot.ptrs * PtrSize
SlotsInOrder(slots, from, to) ==
  \A k \in DOMAIN slots :
    /\ slots[k].offset % PtrSize = 0
    /\ from <= slots[k].offset /\ SlotEnd(slots[k]) <= to
    /\ \A m \in DOMAIN slots : m > k => SlotEnd(slots[k]) <= slots[m].offset
SlotWords(slots) ==
  UNION {Words(slots[k].offset)..(Words(SlotEnd(slots[k])) - 1) : k \in DOMAIN slots}

(* A program that never repeats more than it has emitted.                  *)
Executable(program) ==
  \A n \in DOMAIN program : LET ins == program[n] IN
    \/ ins.op = "lit" /\ ins.bits \in Seq({0, 1})
    \/ /\ ins.op = "repeat" /\ ins.n \in Nat \ {0} /\ ins.c \in Nat
       /\ ins.n <= Len(Run(SubSeq(program, 1, n - 1)))

(* What holds of the pointer maps of the compiler's types, and that they   *)
(* tell of the same words as addTypeBits.                                  *)
ASSUME MapsAssumption ==
  /\ Chunk \in Nat \ {0}
  /\ BasicTypes[Pointer].ptrdata = PtrSize
  /\ \A n \in DOMAIN BasicTypes : LET ty == BasicTypes[n] IN
       /\ ty.ptrdata \in 0..ty.size /\ ty.ptrdata % PtrSize = 0
       /\ ty.mask \subseteq 0..(Words(ty.ptrdata) - 1)
       /\ ty.ptrdata # 0 => ty.align = PtrSize /\ Words(ty.ptrdata) - 1 \in ty.mask
       /\ ty.prog \in BOOLEAN
       /\ ~ty.prog => ty.bits \in Nat /\ Words(ty.ptrdata) <= ty.bits
       /\ ty.prog => /\ ty.ptrdata # 0 /\ Executable(ty.program)
                     /\ Len(Run(ty.program)) = Words(ty.ptrdata) /\ Ones(Run(ty.program)) = ty.mask
       /\ ty.program \in Seq(Range(ty.program)) /\ ty.slots \in Seq(PtrSlots)
       /\ SlotsInOrder(ty.slots, 0, ty.size) /\ SlotWords(ty.slots) = ty.mask

-----------------------------------------------------------------------------
(* StructOf                                                                *)

Made == Len(types) - Len(BasicTypes)

StartStruct ==
  /\ ~making /\ Made < MaxMade
  /\ making' = TRUE
  /\ fs' = <<>> /\ size' = 0 /\ typalign' = 0 /\ lastzero' = 0
  /\ UNCHANGED <<types, wrapped>>

(* Buckets exist only for the collector.                                   *)
Usable == {t \in DOMAIN types : types[t].kind # "bucket"}

(* Mistakes: not to round the size up to the alignment of the field, or to *)
(* leave the gap out of the size.                                          *)
AddFieldUnaligned(t) ==
  /\ making /\ Len(fs) < MaxFields
  /\ LET ft == types[t] IN
       /\ fs' = Append(fs, [typ |-> t, offset |-> size])
       /\ typalign' = IF ft.align > typalign THEN ft.align ELSE typalign
       /\ size' = Wrap(size + ft.size)
       /\ lastzero' = IF ft.size = 0 THEN size' ELSE lastzero
       /\ wrapped' = (wrapped \/ size + ft.size >= AddressSpace)
  /\ UNCHANGED <<types, making>>

AddFieldGapless(t) ==
  /\ making /\ Len(fs) < MaxFields
  /\ LET ft     == types[t]
         offset == Wrap(Align(size, ft.align)) IN
       /\ fs' = Append(fs, [typ |-> t, offset |-> offset])
       /\ typalign' = IF ft.align > typalign THEN ft.align ELSE typalign
       /\ size' = Wrap(size + ft.size)
       /\ lastzero' = IF ft.size = 0 THEN size' ELSE lastzero
       /\ wrapped' = (wrapped \/ Align(size, ft.align) + ft.size >= AddressSpace)
  /\ UNCHANGED <<types, making>>

AddField(t) ==
  /\ making /\ Len(fs) < MaxFields
  /\ LET ft     == types[t]
         offset == Wrap(Align(size, ft.align)) IN
       /\ fs' = Append(fs, [typ |-> t, offset |-> offset])
       /\ typalign' = IF ft.align > typalign THEN ft.align ELSE typalign
       /\ size' = Wrap(offset + ft.size)
       /\ lastzero' = IF ft.size = 0 THEN size' ELSE lastzero
       /\ wrapped' = (wrapped \/ Align(size, ft.align) + ft.size >= AddressSpace)
  /\ UNCHANGED <<types, making>>

(* "We add an extra byte of padding, to ensure that taking the address of  *)
(* the final zero-sized field can't manufacture a pointer to the next      *)
(* object"; the mistake forgets it.                                        *)
UnpaddedSize == size
PaddedSize   == IF size > 0 /\ lastzero = size THEN size + 1 ELSE size

Comparable(ts) == \A t \in ts : types[t].comparable
FieldTypes     == {fs[n].typ : n \in DOMAIN fs}
HasGCProg      == \E t \in FieldTypes : types[t].prog

LastPtrField ==
  LET S == {n \in DOMAIN fs : Pointers(fs[n].typ)}
  IN  IF S = {} THEN 0 ELSE CHOOSE n \in S : \A k \in S : k <= n

(* typeptrdata                                                             *)
StructPtrdata ==
  IF LastPtrField = 0 THEN 0
  ELSE fs[LastPtrField].offset + types[fs[LastPtrField].typ].ptrdata

(* The program of a struct: for each field with pointers zeros up to its   *)
(* offset, then its own bits.  acc.off is where the program has got to;    *)
(* the mistake moves it by the size of the field.                          *)
AddFieldProgBySize(acc, fld) ==
  IF ~Pointers(fld.typ) THEN acc
  ELSE [prog |-> acc.prog \o (IF fld.offset > acc.off
                              THEN Zeros(Words(fld.offset - acc.off)) ELSE <<>>)
                          \o OneElement(fld.typ),
        off  |-> (IF fld.offset > acc.off THEN fld.offset ELSE acc.off) + types[fld.typ].size]

AddFieldProg(acc, fld) ==
  IF ~Pointers(fld.typ) THEN acc
  ELSE [prog |-> acc.prog \o (IF fld.offset > acc.off
                              THEN Zeros(Words(fld.offset - acc.off)) ELSE <<>>)
                          \o OneElement(fld.typ),
        off  |-> (IF fld.offset > acc.off THEN fld.offset ELSE acc.off) + types[fld.typ].ptrdata]

StructProgram ==
  LET acc[n \in 0..LastPtrField] ==
        IF n = 0 THEN [prog |-> <<>>, off |-> 0] ELSE AddFieldProg(acc[n - 1], fs[n])
  IN  acc[LastPtrField].prog

StructSize == Align(PaddedSize, typalign)

StructDescriptor ==
  LET bv == TypeBits(fs) IN
  [kind |-> "struct", size |-> Wrap(StructSize), align |-> typalign,
   ptrdata |-> StructPtrdata,
   prog |-> HasGCProg,
   program |-> IF HasGCProg THEN StructProgram ELSE <<>>,
   mask |-> IF HasGCProg THEN {} ELSE Ones(bv),
   bits |-> IF HasGCProg THEN 0 ELSE MaskBits(Len(bv) * PtrSize),
   comparable |-> Comparable(FieldTypes),
   direct |-> Len(fs) = 1 /\ types[fs[1].typ].direct,
   parts |-> fs, slots |-> <<>>]

(* struct{} itself, which StructOf mentions, is always found linked.       *)
FinishStruct ==
  /\ making /\ fs # <<>>
  /\ types' = Append(types, StructDescriptor)
  /\ making' = FALSE
  /\ wrapped' = (wrapped \/ StructSize >= AddressSpace)
  /\ UNCHANGED <<fs, size, typalign, lastzero>>

-----------------------------------------------------------------------------
(* ArrayOf                                                                 *)

(* "Emits one element and then repeats to make the array".                 *)
ArrayProgram(count, t) ==
  LET elemPtrs  == Words(types[t].ptrdata)
      elemWords == Words(types[t].size)
  IN  OneElement(t)
      \o (IF elemPtrs < elemWords THEN Zeros(elemWords - elemPtrs) ELSE <<>>)
      \o <<Repeat(elemWords, count - 1)>>

(* The pointer map of an array: none, the element's, a mask or a program.  *)
ArrayMap(count, t) ==
  LET el        == types[t]
      arraySize == el.size * count
      pointers  == el.ptrdata # 0 /\ arraySize # 0
      Mask(ptrdata, m, bits) ==
        [ptrdata |-> ptrdata, prog |-> FALSE, program |-> <<>>, mask |-> m, bits |-> bits]
  IN  CASE ~pointers -> Mask(0, {}, 0)
        [] pointers /\ count = 1 ->
             [ptrdata |-> el.ptrdata, prog |-> el.prog, program |-> el.program,
              mask |-> el.mask, bits |-> el.bits]
        [] pointers /\ count > 1 /\ ~el.prog /\ arraySize <= MaxPtrmask * PtrSize ->
             LET ptrdata == el.size * (count - 1) + el.ptrdata
             IN  Mask(ptrdata, EmitMask(0, t, count), MaskBits(ptrdata))
        [] OTHER ->
             [ptrdata |-> arraySize, prog |-> TRUE, program |-> ArrayProgram(count, t),
              mask |-> {}, bits |-> 0]

(* An array of one direct element is direct; the mistake forgets the count. *)
AnyArrayDirect(count, t) == types[t].direct
ArrayDirect(count, t)    == count = 1 /\ types[t].direct

ArrayDescriptor(count, t) ==
  LET el  == types[t]
      map == ArrayMap(count, t) IN
  [kind |-> "array", size |-> el.size * count, align |-> el.align,
   ptrdata |-> map.ptrdata, prog |-> map.prog, program |-> map.program,
   mask |-> map.mask, bits |-> map.bits,
   comparable |-> el.comparable,
   direct |-> ArrayDirect(count, t),
   parts |-> [k \in 1..count |-> [typ |-> t, offset |-> (k - 1) * el.size]],
   slots |-> <<>>]

(* "If the resulting type would be larger than the available address       *)
(* space, ArrayOf panics."                                                 *)
ArrayOf(count, t) ==
  /\ ~making /\ Made < MaxMade
  /\ types[t].size > 0 => count <= (AddressSpace - 1) \div types[t].size
  /\ types' = Append(types, ArrayDescriptor(count, t))
  /\ UNCHANGED <<fs, size, typalign, lastzero, making, wrapped>>

-----------------------------------------------------------------------------
(* MapOf: the buckets of the map, eight hashes, keys and values and a      *)
(* pointer to the next bucket                                              *)

(* Large keys and values are stored behind a pointer; the mistake stores   *)
(* the key itself.                                                         *)
KeyTypeItself(t) == t

KeyType(t) == IF types[t].size > MaxKeySize THEN Pointer ELSE t
ValType(t) == IF types[t].size > MaxValSize THEN Pointer ELSE t

(* The sums of the code, for the types that are stored.                    *)
BucketBytes(k, e) == BucketSize * (1 + types[k].size + types[e].size) + PtrSize
KeyBase           == Words(BucketSize)
ValBase(k)        == KeyBase + Words(BucketSize * types[k].size)
OverflowWord(k, e) == ValBase(k) + Words(BucketSize * types[e].size)

BucketMap(k, e) ==
  (IF Pointers(k) THEN EmitMask(KeyBase, k, BucketSize) ELSE {})
  \cup (IF Pointers(e) THEN EmitMask(ValBase(k), e, BucketSize) ELSE {})
  \cup {OverflowWord(k, e)}

BucketDescriptor(k, e) ==
  LET pointers == Pointers(k) \/ Pointers(e)
      Keys == [n \in 1..BucketSize |-> [typ |-> k, offset |-> BucketSize + (n - 1) * types[k].size]]
      Vals == [n \in 1..BucketSize |->
                 [typ |-> e, offset |-> BucketSize * (1 + types[k].size) + (n - 1) * types[e].size]]
      Link == [typ |-> Pointer, offset |-> BucketSize * (1 + types[k].size + types[e].size)]
  IN
  [kind |-> "bucket", size |-> BucketBytes(k, e), align |-> PtrSize,
   ptrdata |-> IF pointers THEN (OverflowWord(k, e) + 1) * PtrSize ELSE 0,
   prog |-> FALSE, program |-> <<>>,
   mask |-> IF pointers THEN BucketMap(k, e) ELSE {},
   bits |-> IF pointers THEN MaskBits(BucketBytes(k, e)) ELSE 0,
   comparable |-> FALSE, direct |-> FALSE,
   parts |-> IF pointers THEN Keys \o Vals \o <<Link>> ELSE Keys \o Vals,
   slots |-> <<>>]

(* "Bad size computation", "bad layout computation", and emitGCMask's      *)
(* "unexpected GC program".                                                *)
BucketPanics(k, e) ==
  \/ BucketBytes(k, e) % types[k].align # 0 \/ BucketBytes(k, e) % types[e].align # 0
  \/ Pointers(k) /\ types[k].prog
  \/ Pointers(e) /\ types[e].prog
  \/ /\ Pointers(k) \/ Pointers(e)
     /\ (OverflowWord(k, e) + 1) * PtrSize # BucketBytes(k, e)

MapOf(key, elem) ==
  LET k == KeyType(key)
      e == ValType(elem) IN
  /\ ~making /\ Made < MaxMade
  /\ types[key].comparable
  /\ ~BucketPanics(k, e)
  /\ types' = Append(types, BucketDescriptor(k, e))
  /\ UNCHANGED <<fs, size, typalign, lastzero, making, wrapped>>

Next ==
  \/ StartStruct \/ FinishStruct
  \/ \E t \in Usable : AddField(t)
  \/ \E t \in Usable, count \in Counts : ArrayOf(count, t)
  \/ \E key, elem \in Usable : MapOf(key, elem)

Spec == Init /\ [][Next]_vars

-----------------------------------------------------------------------------
(* What the collector and the compiler expect                              *)

(* Where there are pointers in a value of a type, in bytes.  The link of a *)
(* bucket without any other pointer is kept alive by the map itself.       *)
PtrOffsets[t \in DOMAIN types] ==
  IF t <= Len(BasicTypes) THEN {j * PtrSize : j \in types[t].mask}
  ELSE UNION {{types[t].parts[k].offset + o : o \in PtrOffsets[types[t].parts[k].typ]} :
                k \in DOMAIN types[t].parts}

MarkedWords(t) ==
  IF types[t].prog THEN Ones(Run(types[t].program))
  ELSE types[t].mask \cap 0..(Words(types[t].ptrdata) - 1)

MadeTypes == (Len(BasicTypes) + 1)..Len(types)

(* The collector sees all pointers of a value and nothing else as one.     *)
PointerMap ==
  ~wrapped => \A t \in MadeTypes : {j * PtrSize : j \in MarkedWords(t)} = PtrOffsets[t]

(* A mask is as long as what is read and written of it; a program emits    *)
(* ptrdata's worth of bits ("must match program"); ptrdata is not less     *)
(* than needed nor beyond the type, and zero just when there is no pointer.*)
MapFits ==
  ~wrapped => \A t \in MadeTypes : LET ty == types[t] IN
    /\ ty.prog => Len(Run(ty.program)) * PtrSize = ty.ptrdata
    /\ ~ty.prog => Words(ty.ptrdata) <= ty.bits /\ ty.mask \subseteq 0..(ty.bits - 1)
    /\ ty.ptrdata <= ty.size /\ ty.ptrdata % PtrSize = 0
    /\ ty.ptrdata = 0 <=> PtrOffsets[t] = {}

(* Fields come in order, apart from each other and within the struct.      *)
Apart(ts, parts, end) ==
  \A n \in DOMAIN parts :
    LET after == parts[n].offset + ts[parts[n].typ].size IN
    /\ after <= end
    /\ \A m \in DOMAIN parts : m > n => after <= parts[m].offset

FieldsApart ==
  ~wrapped =>
    /\ Apart(types, fs, size)
    /\ \A t \in MadeTypes : types[t].kind = "struct" => Apart(types, types[t].parts, types[t].size)

(* The compiler's rules.  "Offset within struct": no address of a part, be  *)
(* it of size zero, is that of the next object; every part is at a multiple *)
(* of its alignment, in an array of the type too.                           *)
StructRules ==
  ~wrapped => \A t \in MadeTypes : LET ty == types[t] IN
    /\ ty.size % ty.align = 0
    /\ \A n \in DOMAIN ty.parts :
         /\ ty.kind = "struct" /\ ty.size > 0 => ty.parts[n].offset < ty.size
         /\ ty.parts[n].offset % types[ty.parts[n].typ].align = 0
         /\ ty.align % types[ty.parts[n].typ].align = 0

(* What an interface holds without a box is one pointer.                   *)
DirectIsPointer ==
  \A t \in MadeTypes : types[t].direct => types[t].size = PtrSize /\ PtrOffsets[t] = {0}

(* MapOf never panics about sizes or programs, whatever its types.         *)
BucketsFit ==
  ~wrapped => \A key, elem \in Usable : ~BucketPanics(KeyType(key), ValType(elem))

TypeOK ==
  /\ types \in Seq(Range(types)) /\ Len(types) >= Len(BasicTypes)
  /\ \A t \in DOMAIN types :
       /\ types[t].size \in Nat /\ types[t].align \in Nat \ {0}
       /\ \A n \in DOMAIN types[t].parts : types[t].parts[n].typ \in DOMAIN types
  /\ fs \in Seq([typ : DOMAIN types, offset : Nat])
  /\ size \in Nat /\ typalign \in Nat /\ lastzero \in Nat
  /\ fs # <<>> => typalign > 0
  /\ making \in BOOLEAN /\ wrapped \in BOOLEAN
=============================================================================
