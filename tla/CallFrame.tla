------------------------------ MODULE CallFrame ------------------------------
(***************************************************************************)
(* Calls through reflection: Value.call, callReflect (functions that       *)
(* MakeFunc makes) and callMethod (method values turned into functions),   *)
(* in internal/reflect/value.go and makefunc.go.  Each of them works out   *)
(* for itself where arguments and results are in a frame; funcLayout says  *)
(* how large the frame is and what the collector sees of it, from the      *)
(* descriptors of TypeLayout.                                              *)
(*                                                                         *)
(* Frames on the heap and on the stack, and variables, are objects of mem. *)
(* A byte that is not zero says which byte it is of which argument or      *)
(* result of which call.  The calls of one goroutine nest; a function is   *)
(* called several times, so that its pools of frames come into play.       *)
(***************************************************************************)
EXTENDS TypeLayout

CONSTANTS
  Shapes,    \* function types that are called, with the number of calls
  Newest,    \* in a shape, the type made last
  Receivers  \* Values whose method is called

ASSUME CallAssumption ==
  /\ Newest \notin Nat
  /\ \A s \in Shapes : /\ s.calls \in Nat
                       /\ s.in \in Seq(DOMAIN BasicTypes \cup {Newest})
                       /\ s.out \in Seq(DOMAIN BasicTypes \cup {Newest})
  /\ Receivers \subseteq [direct : BOOLEAN, indir : BOOLEAN, iface : BOOLEAN]
  /\ \A r \in Receivers : ~r.direct \/ r.iface => r.indir

VARIABLES
  sig,    \* the function type and the receiver, NoSig before there are calls
  made,   \* calls made
  mem,    \* objects: bytes, and the words that the collector takes for pointers
  stack,  \* activations, the innermost last
  pool,   \* framePool without and with a receiver
  kept    \* Values that clients were given, and what they had in them

callVars == <<sig, made, mem, stack, pool, kept>>

NoSig == [in |-> <<>>, out |-> <<>>, rcvr |-> {}, calls |-> 0]

Nothing              == <<>>                \* a zero byte
Byte(id, what, i, k) == <<id, what, i, k>>
Garbage              == Byte(0, "garbage", 0, 0)
Blank(n)             == [k \in 0..(n - 1) |-> Nothing]
Object(b, map)       == [bytes |-> b, map |-> map]

CallInit ==
  /\ Init
  /\ sig = NoSig /\ made = 0
  /\ mem = <<>> /\ stack = <<>> /\ kept = {}
  /\ pool = [withRcvr \in BOOLEAN |-> {}]

-----------------------------------------------------------------------------
(* Bytes                                                                   *)

SizeOf(t) == types[t].size

Types(ts) == [k \in DOMAIN ts |-> types[ts[k]]]

(* The offsets of values of the types tys one after the other, aligned.    *)
Placed(from, tys) ==
  LET end[n \in 0..Len(tys)] ==
        IF n = 0 THEN from ELSE Align(end[n - 1], tys[n].align) + tys[n].size
  IN  [offs |-> [n \in 1..Len(tys) |-> Align(end[n - 1], tys[n].align)], end |-> end[Len(tys)]]

(* b with the values of call id written to it.                             *)
Written(b, id, what, ts, offs) ==
  [k \in DOMAIN b |->
     LET S == {i \in DOMAIN ts : k >= offs[i] /\ k < offs[i] + SizeOf(ts[i])}
     IN  IF S = {} THEN b[k]
         ELSE LET i == CHOOSE i \in S : \A j \in S : j <= i IN Byte(id, what, i, k - offs[i])]

Has(b, id, what, i, t, off) == \A k \in 0..(SizeOf(t) - 1) : b[off + k] = Byte(id, what, i, k)

(* memmove                                                                 *)
Moved(dst, doff, src, soff, n) ==
  [k \in DOMAIN dst |-> IF k >= doff /\ k < doff + n THEN src[k - doff + soff] ELSE dst[k]]

Cleared(b, from, to) == [k \in DOMAIN b |-> IF k >= from /\ k < to THEN Nothing ELSE b[k]]

-----------------------------------------------------------------------------
(* Layouts                                                                 *)

LayoutSlots(ts, offs) == FlattenSeq([k \in DOMAIN ts |-> Shifted(Slots[ts[k]], offs[k])])

(* A receiver is one word whatever its size, and always a pointer.         *)
funcLayout(withRcvr) ==
  LET in  == Placed(IF withRcvr THEN PtrSize ELSE 0, Types(sig.in))
      ret == Align(in.end, PtrSize)
      out == Placed(ret, Types(sig.out))
  IN  [argSize |-> in.end, retOffset |-> ret, size |-> Align(out.end, PtrSize),
       ptrmap |-> AddedBits(IF withRcvr THEN <<1>> ELSE <<>>,
                            LayoutSlots(sig.in, in.offs) \o LayoutSlots(sig.out, out.offs))]

FrameMap(withRcvr) == Ones(funcLayout(withRcvr).ptrmap)

(* What the runtime reads of a function that reflection made.              *)
MakeFunc        == [stack |-> FrameMap(FALSE), argLen |-> funcLayout(FALSE).argSize]
makeMethodValue == [stack |-> FrameMap(FALSE), argLen |-> funcLayout(FALSE).argSize]

-----------------------------------------------------------------------------
(* Activations.  op: "caller" is Value.call, "client" is compiled code     *)
(* that calls a func value, "code" is a compiled function or method,       *)
(* "reflect" is callReflect with the function it calls, "method" is        *)
(* callMethod.  target is what is called, in the end: a function, one that *)
(* MakeFunc made, a method, or a method value that was made a function.    *)

Targets == {"function", "makefunc", "method", "methodvalue"}
OfMethod(target) == target \in {"method", "methodvalue"}

Activation(op, id, target, frame, heap, phase) ==
  [op |-> op, id |-> id, target |-> target, phase |-> phase,
   frame |-> frame,    \* on the stack
   heap |-> heap,      \* args of Value.call, scratch of callMethod
   retValid |-> FALSE, \* the collector may read the results in the frame
   out |-> FALSE]      \* callReflect holds the results of the function

(* Whether the frame it made, or runs on, has a receiver.                  *)
HasRcvr(a) == \/ a.op = "caller" /\ a.target = "method"
              \/ a.op = "code" /\ OfMethod(a.target)
              \/ a.op = "method"

Top   == stack[Len(stack)]
Below == stack[Len(stack) - 1]
Pop   == SubSeq(stack, 1, Len(stack) - 1)
IsTop(op, phase)   == stack # <<>> /\ Top.op = op /\ Top.phase = phase
Now(phase)         == stack' = [stack EXCEPT ![Len(stack)].phase = phase]
Resumed(st, phase) == [st EXCEPT ![Len(st)].phase = phase]

(* What runs on a frame that a caller has made.                            *)
Callee(a, frame) ==
  IF a.op = "method" THEN Activation("code", a.id, a.target, frame, 0, "running")
  ELSE CASE a.target = "makefunc"    -> Activation("reflect", a.id, a.target, frame, 0, "entered")
         [] a.target = "methodvalue" -> Activation("method", a.id, a.target, frame, 0, "entered")
         [] OTHER                    -> Activation("code", a.id, a.target, frame, 0, "running")

New        == Len(mem) + 1
Bytes(o)   == mem[o].bytes
Put(o, b)  == [mem EXCEPT ![o].bytes = b]

(* The frames of activations that are over: their memory is used again.    *)
Dead(m, S) == [o \in DOMAIN m |-> IF o \in S THEN [m[o] EXCEPT !.bytes = [k \in DOMAIN @ |-> Garbage]]
                                             ELSE m[o]]

(* A Value: what it refers to, and what it is to have in it.               *)
Ref(o, off, id, what, i, t) ==
  [obj |-> o, off |-> off, id |-> id, what |-> what, i |-> i, typ |-> t]

Refs(o, offs, id, what, ts) ==
  {Ref(o, offs[i], id, what, i, ts[i]) : i \in {i \in DOMAIN ts : SizeOf(ts[i]) > 0}}

(* New variables with the values at offs in b, and Values that refer to    *)
(* them; the collector knows the types of variables.                       *)
PtrWords(t) == {Words(o) : o \in PtrOffsets[t]}
Variables(b, ts, offs) ==
  [i \in DOMAIN ts |-> Object(Moved(Blank(SizeOf(ts[i])), 0, b, offs[i], SizeOf(ts[i])), PtrWords(ts[i]))]
VariableRefs(id, what, ts) == UNION {
  {Ref(Len(mem) + i, 0, id, what, i, ts[i])} : i \in {i \in DOMAIN ts : SizeOf(ts[i]) > 0}}

-----------------------------------------------------------------------------
(* The receiver's word is the data word of an interface that holds the     *)
(* receiver: its data, or their address.                                   *)

RcvrWord(r) == IF r.direct THEN "data" ELSE "address"
ValuePtr(r) == IF r.indir THEN "address" ELSE "data"
Loaded(ptr) == "data"

(* The mistake does not load data that the Value has the address of.       *)
StoredUnread(r) == IF r.iface THEN RcvrWord(r) ELSE ValuePtr(r)

Stored(r) ==
  CASE r.iface -> RcvrWord(r)
    [] ~r.iface /\ r.indir /\ r.direct -> Loaded(ValuePtr(r))
    [] OTHER -> ValuePtr(r)

storeRcvr(b, id) ==
  LET r == CHOOSE r \in sig.rcvr : TRUE
  IN  [k \in DOMAIN b |-> IF k < PtrSize THEN Byte(id, Stored(r), 0, k) ELSE b[k]]

-----------------------------------------------------------------------------
(* A program that makes calls                                              *)

Actual(ts)   == [k \in DOMAIN ts |-> IF ts[k] = Newest THEN Len(types) ELSE ts[k]]
Mentions(ts) == \E k \in DOMAIN ts : ts[k] = Newest

StartCalls ==
  /\ sig = NoSig /\ ~making /\ Made <= 1
  /\ \E s \in Shapes, R \in {{}} \cup {{r} : r \in Receivers} :
       /\ (Mentions(s.in) \/ Mentions(s.out)) = (Made = 1)
       /\ Made = 1 => Len(types) \in Usable
       /\ sig' = [in |-> Actual(s.in), out |-> Actual(s.out), rcvr |-> R, calls |-> s.calls]
  /\ UNCHANGED <<made, mem, stack, pool, kept>>

(* Code of the program is running, and may call the function.              *)
Running == stack = <<>> \/ IsTop("code", "running") \/ IsTop("reflect", "running")

MayCall(target) == /\ sig # NoSig /\ made < sig.calls /\ Running
                   /\ OfMethod(target) = (sig.rcvr # {})

(* A frame from the pool, if there is one and it was not dropped, or a new *)
(* one.                                                                    *)
Fresh(withRcvr) == Object(Blank(funcLayout(withRcvr).size), FrameMap(withRcvr))
GetFrom(withRcvr, o) == /\ o \in pool[withRcvr] \cup {New}
                        /\ pool' = [pool EXCEPT ![withRcvr] = @ \ {o}]
Frame(withRcvr, o) == IF o = New THEN Fresh(withRcvr) ELSE mem[o]
WithFrame(o, f)    == IF o = New THEN Append(mem, f) ELSE [mem EXCEPT ![o] = f]

-----------------------------------------------------------------------------
(* Value.call                                                              *)

(* The receiver and the arguments.                                         *)
CallArgs(f, id, withRcvr) ==
  LET off == IF withRcvr THEN PtrSize ELSE 0
      b   == IF withRcvr THEN storeRcvr(f.bytes, id) ELSE f.bytes
  IN  [f EXCEPT !.bytes = Written(b, id, "in", sig.in, Placed(off, Types(sig.in)).offs)]

(* "Can't use pool if the function has return values"; the mistake does.   *)
UsesPoolAlways == TRUE
UsesPool       == sig.out = <<>>

Call(target) ==
  /\ MayCall(target)
  /\ LET rcvr == target = "method"  id == made + 1 IN
     \E o \in 1..New :
       /\ GetFrom(rcvr, o) /\ (~UsesPool => o = New)
       /\ mem' = WithFrame(o, CallArgs(Frame(rcvr, o), id, rcvr))
       /\ stack' = Append(stack, Activation("caller", id, target, 0, o, "marshalled"))
       /\ made' = id
  /\ UNCHANGED <<sig, kept>>

(* The runtime's call copies the frame to the stack and runs the function. *)
Enter ==
  /\ IsTop("caller", "marshalled") \/ IsTop("method", "marshalled")
  /\ mem' = Append(mem, Object(Bytes(Top.heap), {}))
  /\ stack' = Append(Resumed(stack, "calling"), Callee(Top, New))
  /\ UNCHANGED <<sig, made, pool, kept>>

(* And copies the results back, from retOffset on.                         *)
Returned(m, a, frame, b) ==
  LET lay == funcLayout(HasRcvr(a))
  IN  Dead([m EXCEPT ![a.heap].bytes = Moved(@, lay.retOffset, b, lay.retOffset, lay.size - lay.retOffset)],
           {frame})

(* Value.call gives its results as Values that refer to the frame.         *)
Finish ==
  /\ IsTop("caller", "returned")
  /\ LET rcvr == HasRcvr(Top)
         lay  == funcLayout(rcvr)
     IN  /\ mem' = Put(Top.heap, Cleared(Bytes(Top.heap), 0, IF UsesPool THEN lay.size ELSE lay.retOffset))
         /\ pool' = IF UsesPool THEN [pool EXCEPT ![rcvr] = @ \cup {Top.heap}] ELSE pool
         /\ kept' = kept \cup Refs(Top.heap, Placed(lay.retOffset, Types(sig.out)).offs, Top.id, "out", sig.out)
  /\ stack' = Pop
  /\ UNCHANGED <<sig, made>>

-----------------------------------------------------------------------------
(* Compiled code                                                           *)

(* Where it has its parameters and results.                                *)
CodeIn(withRcvr)   == Placed(IF withRcvr THEN PtrSize ELSE 0, Types(sig.in))
CodeOut(withRcvr)  == Placed(Align(CodeIn(withRcvr).end, PtrSize), Types(sig.out))
CodeSize(withRcvr) == Align(CodeOut(withRcvr).end, PtrSize)

(* A func value that reflection made is called by compiled code.           *)
ClientCall(target) ==
  /\ MayCall(target) /\ target \in {"makefunc", "methodvalue"}
  /\ LET id == made + 1
         a  == Activation("client", id, target, New, 0, "calling") IN
     /\ mem' = Append(mem, Object(Written(Blank(CodeSize(FALSE)), id, "in", sig.in, CodeIn(FALSE).offs), {}))
     /\ stack' = Append(stack, a) \o <<Callee(a, New)>>
     /\ made' = id
  /\ UNCHANGED <<sig, pool, kept>>

(* A function or method returns; it may have changed its parameters.       *)
CodeReturn ==
  /\ IsTop("code", "running")
  /\ LET rcvr == HasRcvr(Top)
         b == Written([k \in DOMAIN Bytes(Top.frame) |-> Garbage], Top.id, "out", sig.out, CodeOut(rcvr).offs)
     IN  mem' = Returned(mem, Below, Top.frame, b)
  /\ stack' = Resumed(Pop, "returned")
  /\ UNCHANGED <<sig, made, pool, kept>>

(* callReflect or callMethod returns to Value.call, or to compiled code,   *)
(* which finds the results in the frame.                                   *)
Leave ==
  /\ IsTop("reflect", "done") \/ IsTop("method", "done")
  /\ IF Below.op = "caller"
     THEN /\ mem' = Returned(mem, Below, Top.frame, Bytes(Top.frame))
          /\ stack' = Resumed(Pop, "returned")
          /\ UNCHANGED kept
     ELSE /\ mem' = Dead(mem, {Top.frame}) \o Variables(Bytes(Top.frame), sig.out, CodeOut(FALSE).offs)
          /\ stack' = SubSeq(Pop, 1, Len(Pop) - 1)
          /\ kept' = kept \cup VariableRefs(Top.id, "out", sig.out)
  /\ UNCHANGED <<sig, made, pool>>

-----------------------------------------------------------------------------
(* callReflect                                                             *)

ReflectIn == Placed(0, Types(sig.in))

(* "We cannot let f keep a reference to the stack frame after this         *)
(* function returns"; the mistake does.                                    *)
UnpackShared ==
  /\ IsTop("reflect", "entered")
  /\ kept' = kept \cup Refs(Top.frame, ReflectIn.offs, Top.id, "in", sig.in)
  /\ Now("running")
  /\ UNCHANGED <<sig, made, mem, pool>>

Unpack ==
  /\ IsTop("reflect", "entered")
  /\ mem' = mem \o Variables(Bytes(Top.frame), sig.in, ReflectIn.offs)
  /\ kept' = kept \cup VariableRefs(Top.id, "in", sig.in)
  /\ Now("running")
  /\ UNCHANGED <<sig, made, pool>>

(* The function returns, its results are copied to the frame; out is alive *)
(* until the collector may look there.                                     *)
Pack ==
  /\ IsTop("reflect", "running")
  /\ LET outs == Placed(Align(ReflectIn.end, PtrSize), Types(sig.out)).offs
     IN  mem' = Put(Top.frame, Written(Bytes(Top.frame), Top.id, "out", sig.out, outs))
  /\ stack' = [stack EXCEPT ![Len(stack)].phase = "packed", ![Len(stack)].out = TRUE]
  /\ UNCHANGED <<sig, made, pool, kept>>

ReflectValid ==
  /\ IsTop("reflect", "packed")
  /\ stack' = [stack EXCEPT ![Len(stack)].phase = "done", ![Len(stack)].retValid = TRUE,
                            ![Len(stack)].out = FALSE]
  /\ UNCHANGED <<sig, made, mem, pool, kept>>

-----------------------------------------------------------------------------
(* callMethod                                                              *)

ArgOffset == IF sig.in = <<>> THEN PtrSize ELSE Align(PtrSize, types[sig.in[1]].align)

MethodArgs(f, a) ==
  LET b == storeRcvr(f.bytes, a.id)
  IN  [f EXCEPT !.bytes = Moved(b, ArgOffset, Bytes(a.frame), 0, funcLayout(TRUE).argSize - ArgOffset)]

AddReceiver ==
  /\ IsTop("method", "entered")
  /\ \E o \in 1..New :
       /\ GetFrom(TRUE, o)
       /\ mem' = WithFrame(o, MethodArgs(Frame(TRUE, o), Top))
       /\ stack' = [stack EXCEPT ![Len(stack)].heap = o, ![Len(stack)].phase = "marshalled"]
  /\ UNCHANGED <<sig, made, kept>>

CopyResults ==
  /\ IsTop("method", "returned")
  /\ LET lay == funcLayout(TRUE)
     IN  mem' = Put(Top.frame, Moved(Bytes(Top.frame), lay.retOffset - ArgOffset,
                                     Bytes(Top.heap), lay.retOffset, lay.size - lay.retOffset))
  /\ Now("copied")
  /\ UNCHANGED <<sig, made, pool, kept>>

(* "Clear the scratch space and put it back in the pool.  This must happen *)
(* after the statement above, so that the return values will always be     *)
(* scanned by someone."                                                    *)
MethodValid ==
  /\ IsTop("method", "copied")
  /\ stack' = [stack EXCEPT ![Len(stack)].phase = "valid", ![Len(stack)].retValid = TRUE]
  /\ UNCHANGED <<sig, made, mem, pool, kept>>

(* The mistakes: too early, and without clearing.                          *)
ReleaseEarly ==
  /\ IsTop("method", "copied") /\ Top.heap # 0
  /\ mem' = Put(Top.heap, Blank(funcLayout(TRUE).size))
  /\ pool' = [pool EXCEPT ![TRUE] = @ \cup {Top.heap}]
  /\ stack' = [stack EXCEPT ![Len(stack)].heap = 0]
  /\ UNCHANGED <<sig, made, kept>>

ReleaseUncleared ==
  /\ IsTop("method", "valid")
  /\ pool' = [pool EXCEPT ![TRUE] = @ \cup {Top.heap}]
  /\ stack' = [stack EXCEPT ![Len(stack)].heap = 0, ![Len(stack)].phase = "done"]
  /\ UNCHANGED <<sig, made, mem, kept>>

Release ==
  /\ IsTop("method", "valid")
  /\ mem' = Put(Top.heap, Blank(funcLayout(TRUE).size))
  /\ pool' = [pool EXCEPT ![TRUE] = @ \cup {Top.heap}]
  /\ stack' = [stack EXCEPT ![Len(stack)].heap = 0, ![Len(stack)].phase = "done"]
  /\ UNCHANGED <<sig, made, kept>>

-----------------------------------------------------------------------------
(* A panic in the program ends all calls; nobody recovers in between, and  *)
(* frames are not put back.                                                *)
Panic ==
  /\ stack # <<>> /\ Running
  /\ mem' = Dead(mem, {stack[k].frame : k \in DOMAIN stack})
  /\ stack' = <<>>
  /\ UNCHANGED <<sig, made, pool, kept>>

CallStep ==
  \/ StartCalls \/ Enter \/ Finish \/ CodeReturn \/ Leave \/ Panic
  \/ \E target \in Targets : Call(target) \/ ClientCall(target)
  \/ Unpack \/ Pack \/ ReflectValid
  \/ AddReceiver \/ CopyResults \/ MethodValid \/ Release

CallNext ==
  \/ sig = NoSig /\ Next /\ UNCHANGED callVars
  \/ CallStep /\ UNCHANGED vars

CallSpec == CallInit /\ [][CallNext]_<<vars, callVars>>

-----------------------------------------------------------------------------
(* A compiled function or method has its receiver and its arguments where  *)
(* it looks for them, whatever way it was called.                          *)
ArgumentsArrive ==
  \A n \in DOMAIN stack : LET a == stack[n] IN a.op = "code" =>
    /\ \A i \in DOMAIN sig.in : Has(Bytes(a.frame), a.id, "in", i, sig.in[i], CodeIn(HasRcvr(a)).offs[i])
    /\ HasRcvr(a) => \A k \in 0..(PtrSize - 1), r \in sig.rcvr :
                       Bytes(a.frame)[k] = Byte(a.id, RcvrWord(r), 0, k)

(* Values that a program was given, the arguments of a function made by    *)
(* MakeFunc and the results of calls, are right, and stay what they were.  *)
ValuesKept == \A v \in kept : Has(Bytes(v.obj), v.id, v.what, v.i, v.typ, v.off)

(* Frames in a pool are zero, and nobody uses them.                        *)
PoolClean ==
  \A withRcvr \in BOOLEAN : \A o \in pool[withRcvr] :
    /\ Bytes(o) = Blank(funcLayout(withRcvr).size)
    /\ \A n \in DOMAIN stack : stack[n].heap # o
    /\ \A v \in kept : v.obj # o

(* What the collector sees: in objects, by their maps; in the frames of    *)
(* callReflect and callMethod by the stack map of the function, without    *)
(* the results unless retValid; and what Values refer to.                  *)
Marked(o, map) == {Bytes(o)[w * PtrSize] : w \in map}
StackMap(a) ==
  LET fv == IF a.op = "reflect" THEN MakeFunc ELSE makeMethodValue
  IN  IF a.retValid THEN fv.stack ELSE fv.stack \cap 0..(Words(fv.argLen) - 1)
PtrBytes(id, what, ts) ==
  UNION {{Byte(id, what, i, o) : o \in PtrOffsets[ts[i]]} : i \in DOMAIN ts}
Receiver(id) == {Byte(id, RcvrWord(r), 0, 0) : r \in sig.rcvr}

SeenBy(a) ==
  (IF a.heap # 0 THEN Marked(a.heap, mem[a.heap].map) ELSE {})
  \cup (IF a.op \in {"reflect", "method"} THEN Marked(a.frame, StackMap(a)) ELSE {})
Seen == (UNION {SeenBy(stack[n]) : n \in DOMAIN stack})
        \cup UNION {Marked(v.obj, mem[v.obj].map) : v \in kept}
Held == UNION {PtrBytes(stack[n].id, "out", sig.out) : n \in {n \in DOMAIN stack : stack[n].out}}

(* Pointers that are only in frames now: arguments before the function     *)
(* runs, results until the caller has them.                                *)
InFrames(a) ==
  CASE a.phase = "marshalled" ->
         PtrBytes(a.id, "in", sig.in) \cup (IF HasRcvr(a) THEN Receiver(a.id) ELSE {})
    [] a.phase = "entered" -> PtrBytes(a.id, "in", sig.in)
    [] a.phase \in {"returned", "packed", "copied", "valid", "done"} -> PtrBytes(a.id, "out", sig.out)
    [] OTHER -> {}

(* "The return values will always be scanned by someone": the collector    *)
(* sees every pointer, at any moment of a call, and takes nothing else for *)
(* a pointer.  Where a size wrapped, maps show what the types do not have. *)
AlwaysScanned ==
  ~wrapped =>
    /\ \A n \in DOMAIN stack : InFrames(stack[n]) \subseteq Seen \cup Held
    /\ Seen \subseteq {Nothing} \cup UNION {PtrBytes(id, "in", sig.in) \cup PtrBytes(id, "out", sig.out)
                                             \cup Receiver(id) : id \in 1..made}
=============================================================================
