------------------------------- MODULE Values -------------------------------
(***************************************************************************)
(* Values of the forked package reflect (internal/reflect/value.go), and   *)
(* Field and FieldAddr of xcall.go on top of them.  A Value is a type, a   *)
(* pointer and flags, and stands for memory in ways that the flags tell:   *)
(* the pointer is the data, or points to it; the data may be a variable,   *)
(* or shared with an interface, a map or the zero value, which nobody may  *)
(* write to.                                                               *)
(*                                                                         *)
(* Memory is a sequence of allocated objects of one or more words, which   *)
(* are variables, or the maps themselves; an address is an object and an   *)
(* offset.  A client has a few Values, and one interface.  The methods     *)
(* panic without a change when their guards fail.                          *)
(***************************************************************************)
EXTENDS Widths, Sequences, SequencesExt

CONSTANTS
  Types,     \* names of types
  rtype,     \* their kind, parts (of structs and arrays) with offsets, element
             \* type, words, bits of an integer, and whether an interface
             \* holds them directly
  NoType,    \* the type of the zero Value
  Zero,      \* the zero word of every type: 0, nil
  MaxZero,   \* words of zeroVal
  MaxBits,   \* bits of int64 and uint64
  Registers, \* Values a client has
  Clients    \* the types clients ask for, in New, Zero, MakeMap and Convert,
             \* the numbers they use, and a bound on the objects they allocate

Kind(t)   == rtype[t].kind
Direct(t) == rtype[t].direct
Is(t, k)  == t \in Types /\ Kind(t) = k
PointersTo(t) == {p \in Types : Kind(p) = "ptr" /\ rtype[p].elem = t}

ASSUME TypesAssumption ==
  /\ NoType \notin Types /\ Clients \subseteq [asked : SUBSET Types, ints : SUBSET Int, objects : Nat]
  /\ Zero \notin [obj : Nat, off : Nat] /\ Zero \notin Nat \ {0} /\ MaxBits \in Nat \ {0}
  /\ \A t \in Types :
       /\ Kind(t) \in {"int", "uint", "ptr", "iface", "struct", "array", "map", "slice", "string"}
       /\ Kind(t) \in {"int", "uint"} => rtype[t].bits \in 1..MaxBits
       /\ Kind(t) \in {"ptr", "map"} => Direct(t)
       /\ Kind(t) \in {"int", "uint", "iface", "slice", "string"} => ~Direct(t)
       /\ Kind(t) \in {"struct", "array"} /\ Direct(t) =>
            \A k \in DOMAIN rtype[t].parts : Direct(rtype[t].parts[k].typ)

VARIABLES
  client,  \* never changed
  mem,     \* the objects: type and words
  val,     \* the Values in the registers
  held     \* the client's interface

vars == <<client, mem, val, held>>

RO == {"StickyRO", "EmbedRO"}
ro(flags) == IF flags \cap RO # {} THEN {"StickyRO"} ELSE {}

Value(typ, ptr, flags) == [typ |-> typ, ptr |-> ptr, flags |-> flags]
Invalid == Value(NoType, Zero, {})

(* Addresses, and words of memory.  Object 1 is zeroVal.                   *)
At(obj, off)      == [obj |-> obj, off |-> off]
zeroVal           == At(1, 0)
Load(m, a, t)     == SubSeq(m[a.obj].words, a.off + 1, a.off + rtype[t].size)
Object(t, h, ws)  == [typ |-> t, hmap |-> h, words |-> ws]
Alloc(m, t, ws)   == Append(m, Object(t, FALSE, ws))
Refill(m, o, ws)  == [m EXCEPT ![o] = Object(m[o].typ, m[o].hmap, ws)]
Store(m, a, ws)   == LET old == m[a.obj].words
                     IN  Refill(m, a.obj, [k \in DOMAIN old |->
                           IF k - a.off \in DOMAIN ws THEN ws[k - a.off] ELSE old[k]])
Fresh             == At(Len(mem) + 1, 0)
Room              == Len(mem) < client.objects
Zeros(n)          == [k \in 1..n |-> Zero]

Init ==
  /\ client \in Clients
  /\ mem = <<Object("zeroVal", FALSE, Zeros(MaxZero))>>
  /\ val = [r \in Registers |-> Invalid]
  /\ held = Zero

(* What a Value stands for.                                                *)
Content(m, v) == IF "Indir" \in v.flags THEN Load(m, v.ptr, v.typ) ELSE <<v.ptr>>
Word(v)       == Content(mem, v)[1]

(* Integers are in memory as their bits; Int extends the sign, Uint zeros. *)
Integer(t)     == Is(t, "int") \/ Is(t, "uint")
Encoded(n, t)  == LET b == Unsigned(n, rtype[t].bits) IN IF b = 0 THEN Zero ELSE b
Bits(w)        == IF w = Zero THEN 0 ELSE w
Number(m, v)   == LET b == Bits(Content(m, v)[1])
                  IN  IF Kind(v.typ) = "int" THEN Signed(b, rtype[v.typ].bits) ELSE b
Overflows(v, n) == Overflow(n, rtype[v.typ].bits, MaxBits, Kind(v.typ) = "int")

Put(r, v) == val' = [val EXCEPT ![r] = v]
Addressable(v) == "Addr" \in v.flags
Assignable(v)  == v.flags \cap RO = {} /\ Addressable(v)    \* mustBeAssignable

-----------------------------------------------------------------------------
(* Interfaces                                                              *)

Eface(t, word) == [typ |-> t, data |-> word]

(* packEface: the interface, and the memory after it was made.  "Value is  *)
(* indirect, and so is the interface we're making": data that can be       *)
(* changed is copied; the mistake shares it.                               *)
packEfaceShared(v) ==
  [word |-> Eface(v.typ, IF Direct(v.typ) THEN Word(v) ELSE v.ptr), mem |-> mem]

packEface(v) ==
  IF Direct(v.typ) THEN [word |-> Eface(v.typ, Word(v)), mem |-> mem]
  ELSE IF Addressable(v)
  THEN [word |-> Eface(v.typ, Fresh), mem |-> Alloc(mem, v.typ, Content(mem, v))]
  ELSE [word |-> Eface(v.typ, v.ptr), mem |-> mem]

(* What valueInterface panics for, and what it returns.                    *)
Shown(v) == v.typ \in Types /\ v.flags \cap RO = {}
valueInterface(v) == IF Kind(v.typ) = "iface" THEN [word |-> Word(v), mem |-> mem]
                                              ELSE packEface(v)

unpackEface(w) ==
  IF w = Zero THEN Invalid
  ELSE Value(w.typ, w.data, IF Direct(w.typ) THEN {} ELSE {"Indir"})

Interface(r) ==
  LET v == val[r] IN
  /\ Room /\ Shown(v)
  /\ held' = valueInterface(v).word /\ mem' = valueInterface(v).mem
  /\ UNCHANGED <<client, val>>

ValueOf(r) == /\ Put(r, unpackEface(held))
              /\ UNCHANGED <<client, mem, held>>

-----------------------------------------------------------------------------
(* Parts of Values                                                         *)

ElemOfInterface(v) ==
  LET x == unpackEface(Word(v))
  IN  IF x = Invalid THEN x ELSE [x EXCEPT !.flags = @ \cup ro(v.flags)]

(* The mistake takes the pointer for the data when it points to it.        *)
ElemOfPointerUnread(v) ==
  IF v.ptr = Zero THEN Invalid
  ELSE Value(rtype[v.typ].elem, v.ptr, (v.flags \cap RO) \cup {"Indir", "Addr"})

ElemOfPointer(v) ==
  IF Word(v) = Zero THEN Invalid
  ELSE Value(rtype[v.typ].elem, Word(v), (v.flags \cap RO) \cup {"Indir", "Addr"})

Elem(r, s) ==
  /\ \/ /\ Is(val[s].typ, "iface")
        /\ Put(r, ElemOfInterface(val[s]))
     \/ /\ Is(val[s].typ, "ptr")
        /\ Put(r, ElemOfPointer(val[s]))
  /\ UNCHANGED <<client, mem, held>>

(* "Either flagIndir is set and v.ptr points at struct, or flagIndir is    *)
(* not set and v.ptr is the actual struct data.  In the latter case, we    *)
(* must have field.offset = 0."                                            *)
Add(v, off) == IF "Indir" \in v.flags THEN At(v.ptr.obj, v.ptr.off + off) ELSE v.ptr

(* The fork leaves out that an unexported field forces flagRO; the mistake *)
(* puts it back for the fields after the first.                            *)
FieldUpstream(v, k) ==
  LET f == rtype[v.typ].parts[k]
  IN  Value(f.typ, Add(v, f.offset),
            (v.flags \cap {"StickyRO", "Indir", "Addr"}) \cup (IF k > 1 THEN {"StickyRO"} ELSE {}))

FieldOf(v, k) ==
  LET f == rtype[v.typ].parts[k]
  IN  Value(f.typ, Add(v, f.offset), v.flags \cap {"StickyRO", "Indir", "Addr"})

IndexOf(v, k) ==
  LET f == rtype[v.typ].parts[k]
  IN  Value(f.typ, Add(v, f.offset), (v.flags \cap {"Indir", "Addr"}) \cup ro(v.flags))

Part(r, s) ==
  /\ \/ /\ Is(val[s].typ, "struct")
        /\ \E k \in DOMAIN rtype[val[s].typ].parts : Put(r, FieldOf(val[s], k))
     \/ /\ Is(val[s].typ, "array")
        /\ \E k \in DOMAIN rtype[val[s].typ].parts : Put(r, IndexOf(val[s], k))
  /\ UNCHANGED <<client, mem, held>>

AddrOf(v, p) == Value(p, v.ptr, v.flags \cap RO)

Addr(r, s) ==
  /\ Addressable(val[s])
  /\ \E p \in PointersTo(val[s].typ) : Put(r, AddrOf(val[s], p))
  /\ UNCHANGED <<client, mem, held>>

-----------------------------------------------------------------------------
(* New Values                                                              *)

New(r, t) ==
  /\ Room
  /\ mem' = Alloc(mem, t, Zeros(rtype[t].size))
  /\ \E p \in PointersTo(t) : Put(r, Value(p, Fresh, {}))
  /\ UNCHANGED <<client, held>>

ZeroOf(r, t) ==
  /\ \/ /\ Direct(t)
        /\ Put(r, Value(t, Zero, {})) /\ UNCHANGED mem
     \/ /\ ~Direct(t) /\ rtype[t].size <= MaxZero
        /\ Put(r, Value(t, zeroVal, {"Indir"})) /\ UNCHANGED mem
     \/ /\ ~Direct(t) /\ rtype[t].size > MaxZero /\ Room
        /\ Put(r, Value(t, Fresh, {"Indir"})) /\ mem' = Alloc(mem, t, Zeros(rtype[t].size))
  /\ UNCHANGED <<client, held>>

(* A map is an object with the words of its one element, or without any.   *)
MakeMap(r, t) ==
  /\ Room /\ Kind(t) = "map"
  /\ mem' = Append(mem, Object(t, TRUE, <<>>))
  /\ Put(r, Value(t, Fresh, {}))
  /\ UNCHANGED <<client, held>>

(* "Copy result so future changes to the map won't change the underlying   *)
(* value"; the mistake does not.                                           *)
copyValShared(r, t, flags, ptr) ==
  /\ Put(r, IF Direct(t) THEN Value(t, Load(mem, ptr, t)[1], flags)
                         ELSE Value(t, ptr, flags \cup {"Indir"}))
  /\ UNCHANGED mem

copyVal(r, t, flags, ptr) ==
  IF Direct(t)
  THEN /\ Put(r, Value(t, Load(mem, ptr, t)[1], flags))
       /\ UNCHANGED mem
  ELSE /\ Put(r, Value(t, Fresh, flags \cup {"Indir"}))
       /\ mem' = Alloc(mem, t, Load(mem, ptr, t))

HasEntry(v) == Word(v) # Zero /\ mem[Word(v).obj].words # <<>>

MapIndex(r, s) ==
  /\ Room /\ Is(val[s].typ, "map")
  /\ IF HasEntry(val[s]) THEN copyVal(r, rtype[val[s].typ].elem, ro(val[s].flags), Word(val[s]))
                         ELSE Put(r, Invalid) /\ UNCHANGED mem
  /\ UNCHANGED <<client, held>>

(* makeInt, from the 64 bits of Int or Uint; the mistake extends all       *)
(* numbers by zeros.                                                       *)
makeIntUint(v, t) == Encoded(Bits(Content(mem, v)[1]), t)
makeInt(v, t)     == Encoded(Unsigned(Number(mem, v), MaxBits), t)

(* convertOp for the types that can meet here: integers, types of the same *)
(* underlying type, and interfaces.  "Indirect, mutable word - make a      *)
(* copy."                                                                  *)
Convert(r, s, t) ==
  LET v == val[s] IN
  /\ Room /\ v.typ \in Types
  /\ \/ /\ Integer(v.typ) /\ Integer(t)                                \* cvtInt, cvtUint
        /\ mem' = Alloc(mem, t, <<makeInt(v, t)>>)
        /\ Put(r, Value(t, Fresh, ro(v.flags) \cup {"Indir"}))
     \/ /\ v.typ = t /\ ~Integer(t) /\ Addressable(v)                   \* cvtDirect
        /\ mem' = Alloc(mem, t, Content(mem, v))
        /\ Put(r, Value(t, Fresh, ro(v.flags) \cup (v.flags \ {"Addr"})))
     \/ /\ v.typ = t /\ ~Integer(t) /\ ~Addressable(v)
        /\ Put(r, Value(t, v.ptr, ro(v.flags) \cup v.flags))
        /\ UNCHANGED mem
     \/ /\ Kind(t) = "iface" /\ Kind(v.typ) # "iface"                    \* cvtT2I
        /\ LET x == valueInterface(v) IN
             /\ mem' = Alloc(x.mem, t, <<x.word>>)
             /\ Put(r, Value(t, At(Len(x.mem) + 1, 0), ro(v.flags) \cup {"Indir"}))
  /\ UNCHANGED <<client, held>>

-----------------------------------------------------------------------------
(* Changes                                                                 *)

(* assignTo leaves a Value of the same type as it is, and puts others into *)
(* an interface.  In the fork mustBeExported returns at once: what is      *)
(* assigned may be read-only, and so may a map whose element is set.       *)
Set(s, x) ==
  LET dst == val[s].typ  src == val[x].typ IN
  /\ dst \in Types /\ src \in Types /\ Assignable(val[s])
  /\ \/ /\ src = dst
        /\ mem' = Store(mem, val[s].ptr, Content(mem, val[x]))
     \/ /\ Kind(dst) = "iface" /\ Kind(src) # "iface" /\ Room
        /\ LET i == valueInterface(val[x]) IN mem' = Store(i.mem, val[s].ptr, <<i.word>>)
  /\ UNCHANGED <<client, val, held>>

SetInt(s, n) ==
  /\ Is(val[s].typ, "int") /\ Assignable(val[s])
  /\ n \in Numbers(MaxBits, TRUE)
  /\ mem' = Store(mem, val[s].ptr, <<Encoded(n, val[s].typ)>>)
  /\ UNCHANGED <<client, val, held>>

SetUint(s, n) ==
  /\ Is(val[s].typ, "uint") /\ Assignable(val[s])
  /\ n \in Numbers(MaxBits, FALSE)
  /\ mem' = Store(mem, val[s].ptr, <<Encoded(n, val[s].typ)>>)
  /\ UNCHANGED <<client, val, held>>

SetMapIndex(s, x) ==
  /\ Is(val[s].typ, "map") /\ Word(val[s]) # Zero
  /\ val[x] = Invalid \/ val[x].typ = rtype[val[s].typ].elem
  /\ mem' = Refill(mem, Word(val[s]).obj, IF val[x] = Invalid THEN <<>> ELSE Content(mem, val[x]))
  /\ UNCHANGED <<client, val, held>>

-----------------------------------------------------------------------------
(* xcall.go                                                                *)

(* FieldAddr: the client's interface, a pointer to a struct, becomes the   *)
(* address of a field.                                                     *)
FieldAddr ==
  /\ held # Zero /\ Is(held.typ, "ptr")
  /\ LET x == ElemOfPointer(unpackEface(held)) IN
       /\ Is(x.typ, "struct")
       /\ \E k \in DOMAIN rtype[x.typ].parts : \E p \in PointersTo(FieldOf(x, k).typ) :
            /\ Shown(AddrOf(FieldOf(x, k), p))
            /\ held' = packEface(AddrOf(FieldOf(x, k), p)).word
  /\ UNCHANGED <<client, mem, val>>

(* Field: pointers are followed to a struct, whose field is copied.        *)
Following[n \in Nat] ==
  IF n = 0 THEN unpackEface(held)
  ELSE LET x == Following[n - 1] IN IF Is(x.typ, "ptr") THEN ElemOfPointer(x) ELSE x

Followed == Following[client.objects + 1]

Field ==
  /\ Room
  /\ LET x == Followed IN
       /\ Is(x.typ, "struct")
       /\ \E k \in DOMAIN rtype[x.typ].parts :
            /\ Shown(FieldOf(x, k))
            /\ held' = valueInterface(FieldOf(x, k)).word
            /\ mem'  = valueInterface(FieldOf(x, k)).mem
  /\ UNCHANGED <<client, val>>

Next ==
  \/ \E r \in Registers : Interface(r) \/ ValueOf(r)
  \/ \E r, s \in Registers : Elem(r, s) \/ Part(r, s) \/ Addr(r, s) \/ MapIndex(r, s)
  \/ \E r \in Registers, t \in client.asked : New(r, t) \/ ZeroOf(r, t) \/ MakeMap(r, t)
  \/ \E r, s \in Registers, t \in client.asked : Convert(r, s, t)
  \/ \E s, x \in Registers : Set(s, x) \/ SetMapIndex(s, x)
  \/ \E s \in Registers, n \in client.ints : SetInt(s, n) \/ SetUint(s, n)
  \/ FieldAddr \/ Field

Spec == Init /\ [][Next]_vars

-----------------------------------------------------------------------------
(* What the flags promise: "flagAddr ... implies flagIndir", "If           *)
(* ifaceIndir(typ), code can assume that flagIndir is set"; and no Value   *)
(* of the fork is read-only, which is what it was forked for.              *)
FlagsOk(v) ==
  /\ "Addr" \in v.flags => "Indir" \in v.flags
  /\ v.typ \in Types /\ ~Direct(v.typ) => "Indir" \in v.flags
  /\ v.flags \cap RO = {}

FlagsHold == \A r \in Registers : FlagsOk(val[r])

(* The types of the words of a type.                                       *)
Leaves[t \in Types] ==
  IF Kind(t) \in {"struct", "array"}
  THEN FlattenSeq([k \in DOMAIN rtype[t].parts |-> Leaves[rtype[t].parts[k].typ]])
  ELSE <<t>>

(* Sizes and offsets agree with the words; no type is of size zero; what   *)
(* an interface holds directly is one pointer.                             *)
ASSUME WordsAssumption ==
  /\ MaxZero \in Nat
  /\ \A t \in Types : LET ty == rtype[t] IN
       /\ ty.size \in Nat \ {0}
       /\ Leaves[t] \in Seq(Types) /\ Len(Leaves[t]) = ty.size
       /\ \A k \in 1..ty.size : Kind(Leaves[t][k]) \notin {"struct", "array"}
       /\ Kind(t) \notin {"struct", "array"} => Leaves[t] = <<t>>
       /\ Kind(t) \in {"ptr", "map", "slice"} => ty.elem \in Types
       /\ Kind(t) \in {"struct", "array"} =>
            /\ ty.parts \in Seq([typ : Types, offset : Nat])
            /\ \A k \in DOMAIN ty.parts : LET part == ty.parts[k] IN
                 /\ part.offset + rtype[part.typ].size <= ty.size
                 /\ \A j \in 1..rtype[part.typ].size : Leaves[t][part.offset + j] = Leaves[part.typ][j]
       /\ Kind(t) = "array" =>
            /\ ty.elem \in Types /\ ty.size = Len(ty.parts) * rtype[ty.elem].size
            /\ \A k \in DOMAIN ty.parts :
                 ty.parts[k] = [typ |-> ty.elem, offset |-> (k - 1) * rtype[ty.elem].size]
       /\ Direct(t) => ty.size = 1 /\ Kind(Leaves[t][1]) \in {"ptr", "map"}

(* An object has one value of its type, or several, one after the other; a *)
(* map has one of its element type, or none.                               *)
ObjectLeaves(o) ==
  LET ls == Leaves[IF o.hmap THEN rtype[o.typ].elem ELSE o.typ]
  IN  [k \in DOMAIN o.words |-> ls[((k - 1) % Len(ls)) + 1]]

(* There are n values of type t at the address a: in an object that has    *)
(* their words there.                                                      *)
HasSome(a, t, n) ==
  LET o == mem[a.obj]  ls == Leaves[t] IN
  /\ o.typ \in Types /\ a.off + n * Len(ls) <= Len(o.words)
  /\ n > 0 => LET all == ObjectLeaves(o)
              IN  \A k \in 0..(n * Len(ls) - 1) : all[a.off + k + 1] = ls[(k % Len(ls)) + 1]

HasAt(a, t) == HasSome(a, t, 1)

PointerOK(w, t) == w = Zero \/ (HasAt(w, t) /\ ~mem[w.obj].hmap)
MapOK(w, t)     == w = Zero \/ (mem[w.obj].hmap /\ mem[w.obj].typ = t)
DataOK(a, t)    == \/ a.obj = zeroVal.obj /\ a.off + rtype[t].size <= MaxZero
                   \/ HasAt(a, t) /\ ~mem[a.obj].hmap

(* What a slice or string has is within one object; an empty one does not  *)
(* point to the end of an object, where the next one begins.               *)
WindowOK(w, t, n) ==
  /\ HasSome(w.data, t, n) /\ ~mem[w.data.obj].hmap
  /\ w.data.off < Len(mem[w.data.obj].words) \/ w.data.off = 0

SliceOK(w, t) ==
  IF w = Zero THEN TRUE ELSE w.len \in 0..w.cap /\ WindowOK(w, rtype[t].elem, w.cap)

PlainOK(w, t) == CASE Integer(t)         -> w = Zero \/ w \in 1..(Two[rtype[t].bits] - 1)
                   [] Kind(t) = "ptr"    -> PointerOK(w, rtype[t].elem)
                   [] Kind(t) = "map"    -> MapOK(w, t)
                   [] Kind(t) = "slice"  -> SliceOK(w, t)
                   [] Kind(t) = "string" -> w = Zero \/ WindowOK(w, rtype[t].elem, w.len)
WordOK(w, t) ==
  IF Kind(t) # "iface" THEN PlainOK(w, t)
  ELSE w = Zero \/ (IF Direct(w.typ) THEN PlainOK(w.data, Leaves[w.typ][1]) ELSE DataOK(w.data, w.typ))

WordsOK(ws, ls) == Len(ws) = Len(ls) /\ \A k \in DOMAIN ws : WordOK(ws[k], ls[k])

ObjectOK(o) ==
  /\ IF o.hmap THEN Len(o.words) \in {0, rtype[rtype[o.typ].elem].size}
                ELSE Len(o.words) % rtype[o.typ].size = 0
  /\ WordsOK(o.words, ObjectLeaves(o))

(* All of memory, and all that Values stand for, is of its type; nothing   *)
(* but Values that cannot be set, and interfaces, refer to zeroVal.        *)
MemoryTyped ==
  /\ mem[1].words = Zeros(MaxZero)
  /\ \A k \in 2..Len(mem) : ObjectOK(mem[k])
  /\ \A r \in Registers : val[r].typ \in Types =>
       /\ WordsOK(Content(mem, val[r]), Leaves[val[r].typ])
       /\ "Indir" \in val[r].flags => DataOK(val[r].ptr, val[r].typ)
       /\ Addressable(val[r]) => val[r].ptr.obj # zeroVal.obj
  /\ held = Zero \/ (IF Direct(held.typ) THEN PlainOK(held.data, Leaves[held.typ][1])
                     ELSE DataOK(held.data, held.typ))

(* The words of a t at a are the same after a step.                        *)
Unchanged(a, t) ==
  \A k \in (a.off + 1)..(a.off + rtype[t].size) :
    k \in DOMAIN mem'[a.obj].words /\ mem'[a.obj].words[k] = mem[a.obj].words[k]

(* The bytes of a string are the same after a step.                        *)
StringKept(w) ==
  w = Zero \/ \A k \in 1..w.len : mem'[w.data.obj].words[w.data.off + k] = mem[w.data.obj].words[w.data.off + k]

(* What a Value that is not addressable stands for never changes, whatever *)
(* is done to the variable, map, slice or interface it was taken from, and *)
(* no string ever does.                                                    *)
ValuesFrozen ==
  [][\A r \in Registers : LET v == val[r] IN
       val'[r] = v /\ v.typ \in Types =>
         /\ "Indir" \in v.flags /\ ~Addressable(v) => Unchanged(v.ptr, v.typ)
         /\ Kind(v.typ) = "string" => StringKept(Word(v))]_vars

(* The interfaces there are, and what is in an interface never changes.    *)
InterfaceWords(o) ==
  IF o.hmap THEN {}
  ELSE LET ls == ObjectLeaves(o) IN {o.words[k] : k \in {j \in DOMAIN ls : Kind(ls[j]) = "iface"}}
Interfaces == ({held} \cup UNION {InterfaceWords(mem[o]) : o \in 2..Len(mem)}) \ {Zero}

InterfacesFrozen == [][\A w \in Interfaces : ~Direct(w.typ) => Unchanged(w.data, w.typ)]_vars

(* OverflowInt and OverflowUint are true of just the numbers that do not   *)
(* come back from SetInt and SetUint, which are those beyond the type; a   *)
(* conversion keeps a number that the type has, and the low bits of others.*)
NumbersKept ==
  [][/\ \A s \in Registers, n \in client.ints : SetInt(s, n) \/ SetUint(s, n) =>
          LET fits == n \in Numbers(rtype[val[s].typ].bits, Kind(val[s].typ) = "int")
          IN  /\ Overflows(val[s], n) <=> ~fits
              /\ fits <=> Number(mem', val[s]) = n
     /\ \A r, s \in Registers, t \in client.asked :
          Integer(t) /\ Integer(val[s].typ) /\ Convert(r, s, t) =>
            LET x == Number(mem, val[s])  y == Number(mem', val'[r])
            IN  /\ x = y <=> x \in Numbers(rtype[t].bits, Kind(t) = "int")
                /\ x % Two[rtype[t].bits] = y % Two[rtype[t].bits]]_vars
=============================================================================
