------------------------------- MODULE Slices -------------------------------
(***************************************************************************)
(* Slices and strings of internal/reflect/value.go: MakeSlice, Index,      *)
(* Slice, Slice3, SetLen, SetCap, Append, AppendSlice, Copy, and the       *)
(* conversions between strings and slices of bytes, on the Values and the  *)
(* memory of module Values.                                                *)
(*                                                                         *)
(* A header is one word of memory (it is always copied as a whole): the    *)
(* address of the data, a length and, of a slice, a capacity.  Zero is the *)
(* header of nil and of "".                                                *)
(***************************************************************************)
EXTENDS Values

CONSTANTS
  Uint8,   \* the type of bytes
  Lengths  \* lengths and capacities that MakeSlice is asked for

ASSUME SlicesAssumption ==
  /\ Lengths \subseteq Nat
  /\ Zero \notin [data : [obj : Nat, off : Nat], len : Nat, cap : Nat]
  /\ Uint8 \in Types /\ Kind(Uint8) = "uint"
  /\ \A t \in Types : Kind(t) = "string" => rtype[t].elem = Uint8

Header(data, len, cap) ==
  IF data = Zero THEN Zero ELSE [data |-> data, len |-> len, cap |-> cap]
OfSlice(w) == IF w = Zero THEN [data |-> Zero, len |-> 0, cap |-> 0] ELSE w

SizeOfElem(t) == rtype[rtype[t].elem].size
SlicesOf(elem) == {t \in Types : Kind(t) = "slice" /\ rtype[t].elem = elem}
IsBytes(t)     == Kind(t) = "slice" /\ rtype[t].elem = Uint8

(* Element number i, counted from 0, of data at the address base.          *)
arrayAt(base, i, t) == At(base.obj, base.off + i * SizeOfElem(t))

(* What is to be sliced: the slice type, the address of the data, length   *)
(* and capacity.                                                           *)
Sliced(m, v) ==
  IF Kind(v.typ) = "array"
  THEN [base |-> v.ptr, cap |-> Len(rtype[v.typ].parts), len |-> Len(rtype[v.typ].parts)]
  ELSE LET h == OfSlice(Content(m, v)[1])
       IN  [base |-> h.data, cap |-> IF Kind(v.typ) = "string" THEN h.len ELSE h.cap, len |-> h.len]

Elems(m, v) ==
  LET x == Sliced(m, v)
  IN  IF x.len = 0 THEN <<>>
      ELSE SubSeq(m[x.base.obj].words, x.base.off + 1, x.base.off + x.len * SizeOfElem(v.typ))

(* A new variable for the header, and a Value that refers to it.           *)
Headed(m, t, w, flags) ==
  [mem |-> Alloc(m, t, <<w>>), v |-> Value(t, At(Len(m) + 1, 0), flags \cup {"Indir"})]

-----------------------------------------------------------------------------
(* New slices                                                              *)

Making(m, t, len, cap) ==
  Headed(Alloc(m, rtype[t].elem, Zeros(cap * SizeOfElem(t))), t, Header(At(Len(m) + 1, 0), len, cap), {})

MakeSlice(r, t, len, cap) ==
  /\ Len(mem) + 2 <= client.objects /\ Kind(t) = "slice" /\ len <= cap
  /\ mem' = Making(mem, t, len, cap).mem
  /\ Put(r, Making(mem, t, len, cap).v)
  /\ UNCHANGED <<client, held>>

(* Slices of slices and arrays: of base from i on, "do not advance         *)
(* pointer, to avoid pointing beyond end of slice"; the mistake does.      *)
ResliceBeyond(m, t, base, i, len, cap, flags) ==
  Headed(m, t, Header(IF base = Zero THEN base ELSE arrayAt(base, i, t), len, cap), flags)

Reslice(m, t, base, i, len, cap, flags) ==
  Headed(m, t, Header(IF cap > 0 THEN arrayAt(base, i, t) ELSE base, len, cap), flags)

SliceType(v) == IF Kind(v.typ) = "slice" THEN {v.typ} ELSE SlicesOf(rtype[v.typ].elem)

Sliceable(v) == \/ Is(v.typ, "slice")
                \/ Is(v.typ, "array") /\ Addressable(v)

Indexes(v) == 0..Sliced(mem, v).cap

Slice(r, s) ==
  LET v == val[s] IN
  /\ Room /\ Sliceable(v)
  /\ \E i, j \in Indexes(v), t \in SliceType(v) : i <= j /\
       LET x == Sliced(mem, v)
           y == Reslice(mem, t, x.base, i, j - i, x.cap - i, ro(v.flags))
       IN  Put(r, y.v) /\ mem' = y.mem
  /\ UNCHANGED <<client, held>>

Slice3(r, s) ==
  LET v == val[s] IN
  /\ Room /\ Sliceable(v)
  /\ \E i, j, k \in Indexes(v), t \in SliceType(v) : i <= j /\ j <= k /\
       LET x == Sliced(mem, v)
           y == Reslice(mem, t, x.base, i, j - i, k - i, ro(v.flags))
       IN  Put(r, y.v) /\ mem' = y.mem
  /\ UNCHANGED <<client, held>>

(* A string shares its bytes with the one it was taken from.               *)
SliceString(r, s) ==
  LET v == val[s] IN
  /\ Room /\ Is(v.typ, "string")
  /\ LET h == OfSlice(Word(v)) IN \E i, j \in 0..h.len : i <= j /\
       LET w == IF i < h.len THEN [data |-> At(h.data.obj, h.data.off + i), len |-> j - i] ELSE Zero
       IN  /\ mem' = Alloc(mem, v.typ, <<w>>)
           /\ Put(r, Value(v.typ, Fresh, v.flags))
  /\ UNCHANGED <<client, held>>

-----------------------------------------------------------------------------
(* Elements and headers                                                    *)

(* "Element flag same as Elem of Ptr"; the bytes of a string are not       *)
(* addressable.                                                            *)
Index(r, s) ==
  LET v == val[s] IN
  /\ Is(v.typ, "slice") \/ Is(v.typ, "string")
  /\ LET h == OfSlice(Word(v)) IN \E i \in 0..(h.len - 1) :
       IF Kind(v.typ) = "slice"
       THEN Put(r, Value(rtype[v.typ].elem, arrayAt(h.data, i, v.typ), ro(v.flags) \cup {"Addr", "Indir"}))
       ELSE Put(r, Value(Uint8, At(h.data.obj, h.data.off + i), ro(v.flags) \cup {"Indir"}))
  /\ UNCHANGED <<client, mem, held>>

(* The mistake lets the length exceed the capacity.                        *)
SetLenAny(s) ==
  /\ Is(val[s].typ, "slice") /\ Assignable(val[s]) /\ Word(val[s]) # Zero
  /\ \E n \in 0..(Word(val[s]).cap + 1) : mem' = Store(mem, val[s].ptr, <<Header(Word(val[s]).data, n, Word(val[s]).cap)>>)
  /\ UNCHANGED <<client, val, held>>

SetLen(s) ==
  /\ Is(val[s].typ, "slice") /\ Assignable(val[s]) /\ Word(val[s]) # Zero
  /\ \E n \in 0..Word(val[s]).cap : mem' = Store(mem, val[s].ptr, <<Header(Word(val[s]).data, n, Word(val[s]).cap)>>)
  /\ UNCHANGED <<client, val, held>>

SetCap(s) ==
  /\ Is(val[s].typ, "slice") /\ Assignable(val[s]) /\ Word(val[s]) # Zero
  /\ \E n \in Word(val[s]).len..Word(val[s]).cap :
       mem' = Store(mem, val[s].ptr, <<Header(Word(val[s]).data, Word(val[s]).len, n)>>)
  /\ UNCHANGED <<client, val, held>>

-----------------------------------------------------------------------------
(* Append and Copy                                                         *)

(* memmove: what is there before is what arrives.                          *)
Moved(m, to, words) == IF words = <<>> THEN m ELSE Store(m, to, words)
Prefix(ws, n) == SubSeq(ws, 1, IF n < Len(ws) THEN n ELSE Len(ws))

CopyTo(m, dst, src) ==
  Moved(m, Sliced(m, dst).base, Prefix(Elems(m, src), Len(Elems(m, dst))))

Copy(s, t) ==
  LET dst == val[s]  src == val[t] IN
  /\ Is(dst.typ, "slice") \/ Is(dst.typ, "array")
  /\ Is(src.typ, "slice") \/ Is(src.typ, "array") \/ Is(src.typ, "string")
  /\ Kind(dst.typ) = "array" => Assignable(dst)
  /\ rtype[dst.typ].elem = IF Kind(src.typ) = "string" THEN Uint8 ELSE rtype[src.typ].elem
  /\ mem' = CopyTo(mem, dst, src)
  /\ UNCHANGED <<client, val, held>>

(* The capacity of a slice of m < 1024 elements that is to have n > m.     *)
Doubled(m, n) ==
  IF m = 0 THEN n
  ELSE LET S == {m * Two[k] : k \in 0..n}
       IN  CHOOSE c \in S : c >= n /\ \A d \in S : d >= n => c <= d

(* grow: the memory and the slice, longer by extra.  The mistake forgets   *)
(* to copy the elements.                                                   *)
growUncopied(m, v, extra) ==
  LET x == Sliced(m, v)  n == x.len + extra IN
  IF n <= x.cap THEN Reslice(m, v.typ, x.base, 0, n, x.cap, ro(v.flags))
  ELSE Making(m, v.typ, n, Doubled(x.cap, n))

grow(m, v, extra) ==
  LET x == Sliced(m, v)  n == x.len + extra IN
  IF n <= x.cap THEN Reslice(m, v.typ, x.base, 0, n, x.cap, ro(v.flags))
  ELSE LET y == Making(m, v.typ, n, Doubled(x.cap, n))
       IN  [y EXCEPT !.mem = CopyTo(y.mem, y.v, v)]

(* Where the element number i of a slice is.                               *)
ElemAddr(m, v, i) == arrayAt(Sliced(m, v).base, i, v.typ)

(* The elements are set one after the other; the Values xs may refer to    *)
(* them, and are read when it is their turn.                               *)
SetFrom(m, v, i0, xs) ==
  LET after[n \in 0..Len(xs)] ==
        IF n = 0 THEN m
        ELSE LET b == after[n - 1]
             IN  Store(b, ElemAddr(b, v, i0 + n - 1), Content(b, val[xs[n]]))
  IN  after[Len(xs)]

AppendValues(r, s, xs) ==
  /\ Is(val[s].typ, "slice")
  /\ \A k \in DOMAIN xs : val[xs[k]].typ = rtype[val[s].typ].elem
  /\ LET y == grow(mem, val[s], Len(xs)) IN
       /\ Len(y.mem) <= client.objects
       /\ mem' = SetFrom(y.mem, y.v, Sliced(mem, val[s]).len, xs)
       /\ Put(r, y.v)
  /\ UNCHANGED <<client, held>>

AppendSlice(r, s, t) ==
  /\ Is(val[s].typ, "slice") /\ Is(val[t].typ, "slice")
  /\ rtype[val[s].typ].elem = rtype[val[t].typ].elem
  /\ LET i0 == Sliced(mem, val[s]).len
         y  == grow(mem, val[s], Sliced(mem, val[t]).len)
     IN  /\ Len(y.mem) <= client.objects
         /\ mem' = Moved(y.mem, ElemAddr(y.mem, y.v, i0), Elems(y.mem, val[t]))
         /\ Put(r, y.v)
  /\ UNCHANGED <<client, held>>

-----------------------------------------------------------------------------
(* Strings and slices of bytes: the conversions copy; the mistake does not. *)
(* The string of a number is one byte if the number is below 128, and all   *)
(* uint8 of the instances are.                                              *)

WithBytes(m, t, ws) ==
  IF ws = <<>> /\ Kind(t) = "string" THEN Headed(m, t, Zero, {})
  ELSE LET data == At(Len(m) + 1, 0)
       IN  Headed(Alloc(m, Uint8, ws), t,
                  IF Kind(t) = "string" THEN [data |-> data, len |-> Len(ws)]
                                        ELSE Header(data, Len(ws), Len(ws)), {})

cvtBytesStringShared(v, t) ==
  LET h == OfSlice(Word(v))
  IN  Headed(mem, t, IF h.len = 0 THEN Zero ELSE [data |-> h.data, len |-> h.len], {})

cvtBytesString(v, t) == WithBytes(mem, t, Elems(mem, v))
cvtStringBytes(v, t) == WithBytes(mem, t, Elems(mem, v))
cvtUintString(v, t)  == WithBytes(mem, t, Content(mem, v))

Converted(v, t) ==
  CASE IsBytes(v.typ)          -> cvtBytesString(v, t)
    [] Kind(v.typ) = "string"  -> cvtStringBytes(v, t)
    [] v.typ = Uint8           -> cvtUintString(v, t)

ConvertBytes(r, s, t) ==
  LET v == val[s] IN
  /\ Len(mem) + 2 <= client.objects /\ v.typ \in Types
  /\ \/ (IsBytes(v.typ) \/ v.typ = Uint8) /\ Kind(t) = "string"
     \/ Kind(v.typ) = "string" /\ IsBytes(t)
  /\ mem' = Converted(v, t).mem
  /\ Put(r, Value(t, Converted(v, t).v.ptr, ro(v.flags) \cup {"Indir"}))
  /\ UNCHANGED <<client, held>>

-----------------------------------------------------------------------------
Arguments == {<<x>> : x \in Registers} \cup (Registers \X Registers)

(* Clients do not copy from an array that an interface holds directly,     *)
(* [1]*int: Copy takes its word for the address of the elements.           *)
CopiedFrom(v) == Is(v.typ, "array") => ~Direct(v.typ)

SlicesNext ==
  \/ Next
  \/ \E r \in Registers, t \in client.asked, len, cap \in Lengths : MakeSlice(r, t, len, cap)
  \/ \E r, s \in Registers : Slice(r, s) \/ Slice3(r, s) \/ SliceString(r, s) \/ Index(r, s)
  \/ \E s, t \in Registers : CopiedFrom(val[t]) /\ Copy(s, t)
  \/ \E s \in Registers : SetLen(s) \/ SetCap(s)
  \/ \E r, s \in Registers, xs \in Arguments : AppendValues(r, s, xs)
  \/ \E r, s, t \in Registers : AppendSlice(r, s, t)
  \/ \E r, s \in Registers, t \in client.asked : ConvertBytes(r, s, t)

SlicesSpec == Init /\ [][SlicesNext]_vars

-----------------------------------------------------------------------------
(* Word k of object o is in v's capacity, after its length.                *)
InSpare(v, o, k) ==
  LET x == Sliced(mem, v) IN
  /\ x.cap > x.len /\ o = x.base.obj
  /\ k - x.base.off \in (x.len * SizeOfElem(v.typ) + 1)..(x.cap * SizeOfElem(v.typ))

Appended(v, words, y) ==
  /\ Elems(mem', y) = Elems(mem, v) \o words
  /\ \A o \in DOMAIN mem : \A k \in DOMAIN mem[o].words :
       mem'[o].words[k] = mem[o].words[k] \/ InSpare(v, o, k)

(* x is a variable in v's spare capacity, which Append overwrites.         *)
Overwritten(v, x) ==
  Addressable(x) /\ \E k \in 1..rtype[x.typ].size : InSpare(v, x.ptr.obj, x.ptr.off + k)

(* What Append and AppendSlice give is the slice's elements and then the   *)
(* values given, as they were before, even if these are in the memory that *)
(* is written to; and they write to nothing but spare capacity.  (A Value  *)
(* after the first that refers to spare capacity is read too late.)        *)
Appends ==
  [][\A r, s \in Registers : Is(val[s].typ, "slice") /\ val'[r] # val[r] =>
       /\ \A xs \in Arguments :
            AppendValues(r, s, xs) /\ (\A k \in 2..Len(xs) : ~Overwritten(val[s], val[xs[k]])) =>
              Appended(val[s], FlattenSeq([k \in DOMAIN xs |-> Content(mem, val[xs[k]])]), val'[r])
       /\ \A t \in Registers :
            AppendSlice(r, s, t) => Appended(val[s], Elems(mem, val[t]), val'[r])]_vars
=============================================================================
