# Formal models of xtypes

`xtypes` converts `go/types` types into `reflect` types (`types.go`) and reads
and addresses struct fields that package reflect would refuse to touch
(`xcall.go`), for which it carries a fork of package reflect
(`internal/reflect`). This directory holds TLA+ models of the parts whose
correctness is hard to test, the TLC configurations that check them on small
instances, and TLAPS proofs about them for every instance.

## The system

| Component | State | Operations | What makes it correct |
|---|---|---|---|
| Conversion (`types.go`) | `context.scope` (per scope, placeholder -> type), `context.ntype` (type -> update function), the type objects themselves, which are rewritten in place | `ToType` and what it calls; `FindTypeName`, `UpdateType` | the structure and the methods of a converted type mention the types of the names the declaration mentions; a name is converted once; a conversion ends |
| Method sets (`IntuitiveMethodSet`, method bodies) | none | `toMethodSet` | the method table holds the methods of T and *T; a promoted method reaches its receiver |
| Field access (`xcall.go`) | none of its own | `Field`, `FieldAddr`, `methodByName`, `callValue` | the address is that of the field, with the type the rest of the program gives it |
| Type caches (`internal/reflect/type.go`) | `ptrMap`, `lookupCache`, `funcLookupCache`, `structLookupCache` | `PtrTo`, `ChanOf`, `MapOf`, `SliceOf`, `ArrayOf`, `FuncOf`, `StructOf` | one type object per description, whatever the goroutines do |
| Type layout (`type.go`) | none | `StructOf`, `ArrayOf`, `bucketOf`, `funcLayout`, `addTypeBits` | sizes, offsets, alignment and pointer maps agree with the compiler's |
| Type queries (`type.go`) | none | `FieldByName`, `Implements`, `AssignableTo`, `ConvertibleTo`, identity | the language's rules; every question is answered, on recursive types as well |
| Calls (`value.go`, `makefunc.go`) | pools of frames; one frame per call | `Value.call`, `callReflect` (functions of `MakeFunc`), `callMethod` (method values) | all agree on the frame; nothing of it is kept; the collector sees every pointer all the time |
| `DeepEqual` (`deepequal.go`) | the visited pairs of one call | `DeepEqual` | agrees with its definition, terminates on cycles |
| Values (`value.go`) | one flag word per Value, and the memory it stands for | selectors, setters, conversions | what the flags say of a Value is true; what was read stays as it was read; numbers survive when they fit |
| Slices and strings (`value.go`) | headers that share memory | `MakeSlice`, `Index`, `Slice`, `Slice3`, `SetLen`, `SetCap`, `Append`, `AppendSlice`, `Copy` | no element is lost or overwritten; nothing points beyond its object |

How they interact: a client calls `ToType` with a `Context`; the conversion
calls the client's callbacks (`FindType`, `FindTypeName`, `FindMethod`), the
constructors of the standard package reflect and those of `reflectx` (an
external module that makes named types and method sets at run time and
rewrites them: `NamedTypeOf`, `NewMethodSet`, `SetMethodSet`, `ReplaceType`).
`xcall.go` goes through `internal/reflect`, which shares the linked types with
the standard package and nothing else.

What is hard in it: the conversion works on cyclic declarations with
placeholders that are replaced afterwards, calls update functions from inside
the conversion they update, and drops errors on the way; the caches are read
without locks and filled by several goroutines; `DeepEqual` runs on cyclic
memory and assumes what it is about to prove; six pieces of code work out
independently where the arguments of a call are, while the collector looks at
its frames; and Values, slices and interfaces share memory by rules that only
copies made at the right places uphold.

## Modules

| Module | Models | Extends |
|---|---|---|
| `TypeContext` | `types.go`: one Context, one conversion after another | |
| `TypeContextProofs` | all safety properties of `TypeContext`, with the inductive invariants they need | `TypeContext` |
| `Intern` | the promise of a type constructor: an atomic table | |
| `TypeCache` | the caches of `type.go`, any number of goroutines; implements `Intern` | |
| `TypeCacheProofs` | the inductive invariant, its consequences, the refinement | `TypeCache` |
| `FieldPointers` | the forked and the standard pointer caches in one program, two instances of `Intern` | |
| `DeepEqual` | `deepequal.go` over a memory with sharing and cycles | |
| `DeepEqualProofs` | soundness and completeness | `DeepEqual` |
| `TypeLinks` | the binary search and scan of `typesByString` | |
| `FieldLookup` | `FieldByName`, `FieldByNameFunc`, the path for `FieldByIndex` | |
| `FieldLookupProofs` | the inductive invariants of the search: answers are justified, and are what the language selects | `FieldLookup` |
| `TypeLayout` | sizes, offsets and pointer maps of `StructOf`, `ArrayOf`, `MapOf` | |
| `TypeLayoutProofs` | typing; fields do not overlap; alignment, types held directly, buckets; pointer maps, as masks and as programs | `TypeLayout` |
| `CallFrame` | `funcLayout`, `Value.call`, `callReflect`, `callMethod`, on frames whose layout comes from the descriptors | `TypeLayout` |
| `CallFrameProofs` | the invariants of frames and pools, and of what the collector sees of them; arguments arrive, Values are kept, nothing is missed | `CallFrame`, `TypeLayoutProofs` |
| `TypeQueries` | `implements`, `directlyAssignable`, `haveIdenticalType` and the types that `convertOp` compares | |
| `TypeTablesProofs` | `typesByString` returns exactly the linked types of the string; one pass over two sorted method tables finds what a search finds | `TypeLinks`, `TypeQueries` |
| `Widths` | integers of a number of bits; `OverflowInt`, `OverflowUint` | |
| `Values` | Values, interfaces and memory: selectors, `Set`, `MapIndex`, `Convert`, `Zero`, and `Field`, `FieldAddr` on top of them | `Widths` |
| `Slices` | slices and strings on these Values and this memory | `Values` |
| `ValuesProofs` | the typing of memory and its consequences: flags, typed memory, frozen values; numbers; Append | `Slices` |
| `MCTypeLayout` | instances of `TypeLayout` and `CallFrame` | `CallFrame` |
| `MCValues` | instances of `Values` and `Slices` | `Slices` |
| `MCTypeLinks` | instances of `TypeLinks` and `TypeQueries`, one or the other in a behaviour | both |
| `MC...`, the others | instances for TLC | the module of the same name |

### TypeContext

A conversion is a recursion; the model makes its stack explicit. A frame of
`stack` is a call of the function its `op` names: `ToType`; `elems` (a
composite whose components are converted in order: pointers, slices, arrays,
chans, maps, signatures, interfaces, structs); `named` (`toNamedType` waiting
for the underlying type); `fn` (the closure of `toMethodSet` at work on the
methods of `obj`); `attach` (`toNamedType` waiting for the first call of that
closure); `embedded` (`toStructType` waiting likewise); `range` (the loop of
`context.UpdateType`). `ret` is what the last call returned. `list` are the
types a frame's loop converts, `done` how many of them it has taken up.

A reflect type is abstracted to the set of type objects it mentions. A type
object (an index of `heap`) is a named type, or a struct with a method set: the
types whose content can change after they were handed out. `under` is what its
structure mentions, `methods` what its method signatures mention, `complete`
whether its method set was filled in. `placeholder[n]` and `resolved[n]` are
the key and the value of the entry for the name `n` in its `typeScope.rtype`.

Actions and code: `ToTypeProvided` (the `FindType` callback), `ToTypeBasic`,
`ToTypeInvalid`, `ToTypeComposite`, `NextElem`, `ElemOk`, `ElemErr`,
`CompositeBuilt` (the cases of `ToType`, `ToTypeList`, `toStructField`,
`toInterfaceType`); `StructWithMethods`, `StructDone`, `SetMethodSet`
(`toMethodSet` for an unnamed struct, and the closure's end); `NameProvided`,
`NameFound`, `NameNew`, `NamedErr`, `NamedPlain`, `NamedWithMethods`
(`toNamedType` and both `FindTypeName`); `Register`, `RangeNext`, `RangeDone`
(`context.UpdateType`). `Table` and `Replaced` are `typeScope.UpdateType`.

What is assumed of code outside the repository: `reflectx.ReplaceType(pkg, t,
rmap)` rewrites the structure of `t`, goes through unnamed types and stops at
named ones, and leaves method signatures alone (that is why `types.go` calls
the update functions again); `NamedTypeOf` and `NewMethodSet` make a new object
each time; the method sets that `go/types` computes are given with the program
(`prog.promoted`). What a callback returns mentions no object of the Context.

Checked in the run `conversion`: `StructureFaithful` (placeholders and
rewriting lose and confuse no reference, in the middle of a conversion as well), `ResultFaithful`, `CleanConversion`
(no failure and no placeholder left unless a type cannot be converted),
`OncePerName` and `ResolvedOnce` (one type per name, for good),
`LoopUndisturbed` (the loop over the map of update functions, which re-enters
the conversion, never meets an entry added meanwhile, as long as the structures
of all declared types can be converted: after a failure, a call from the loop
may get further than the first one did, to names it never met, and enter them), `LoopRefreshesMethods`
(when that loop is over and nothing is under way, all registered types have all
their methods with final signatures), `ConversionEnds`.

Four runs end in a violation, each of a claim the repository makes:

* `methods`: `UpdateType` runs its loop only when the type it is called for has
  an update function. With `type T struct { u *U }`, `type U ...; func (U) M(*T)`,
  the conversion of `T` completes `U` first, with a signature of `M` that
  mentions the placeholder of `T`; `T` has no methods, the loop is not run, and
  `M` keeps the placeholder.
* `retry`: a failed conversion leaves its placeholder, which the next
  conversion returns without an error.
* `shadow`: rewriting identifies types by `"pkgpath.name"`, so a type declared
  in a function replaces the mentions of the package-level type it shadows.
* `self`: `func (E) M(struct{ E })` is converted for ever.

### Intern, TypeCache, FieldPointers

`TypeCache` has one program counter per goroutine and one action per atomic
step of the code: the `Load`, the look among the linked types, the
`LoadOrStore`; and, for `FuncOf` and `StructOf`, the look without the lock, the
lock, the second look, the two steps of `addToCache`, the unlock. A list is the
set of its elements (at most one matches). Keys stand for descriptions:
constructor and components; hashes may collide. The order of "look in known
types" and the cache is the code's.

`ImplementsIntern` is the refinement: `table` is what caches and linked types
hold for a key, and a call takes effect when it finds its object or publishes
it. `Inv` is the inductive invariant: who holds a lock, that lists hold proper
objects of their hash, that a goroutine about to append holds the lock and has
found no match since, that what was answered stays stored.

Fairness: weak fairness of every step of a goroutine inside a call, because the
Go scheduler runs every runnable goroutine, and strong fairness of `Lock`,
because `sync.Mutex` in starvation mode hands the lock to the longest waiter.
Goroutines make at most `MaxOps` calls and may stop between two, so deadlock is
not checked; `CallsReturn` says that nobody is stuck inside one.

`FieldPointers` puts two `Intern` tables side by side: the forked package,
which `FieldAddr` uses, and the standard one. The run `fieldpointers` shows
that for a type `T` whose `*T` is not in the binary they make different objects.

### DeepEqual

Because any false result ends the whole comparison, the recursion is a stack
`todo` of pairs still to be compared. The memory is a constant of a behaviour:
locations hold cells (kind, type, reference, elements, datum). `Visit` is the
key of the map of visited pairs, with the addresses unordered as in the code;
elements read by `MapIndex` are copies, so pairs of slices and interfaces
stored in maps are never recognised (`Copied`).

`Clause` and `DeeplyEqual` state the comment's definition, on cycles as the
greatest relation. `Sound` and `Complete` say that the answer agrees with it;
`EqualSoFar` says why (the relation of all pairs looked at or pending, in
either order, justifies all pairs looked at) and is what the proof of `Sound`
rests on. `Terminates` uses weak fairness of the only process.

### TypeLinks

The linked types are sections of offsets, sorted by string; the model keeps the
strings only. `Narrow` is one round of the bisection (`i`, `j` are the code's),
`StartScan` its end, `Collect` one round of the scan, `NextSection` the outer
loop. `Inv` states the bracket (all before `i` are smaller, all from `j` on are
not) and what the scan has passed; `Exact` that the answer has all types of the
string and no other. The caches of `TypeCache` rely on it when they look among
the linked types before making one. `Finishes` needs weak fairness of the
running goroutine only.

### FieldLookup

The state has the code's `current`, `next`, `nextCount`, `visited`, `ok` and the
position in the scan being visited; a field of the program is its embedded
struct type, if any, and whether it matches. `QuickMatch`, `QuickNone` and
`QuickPass` are `FieldByName`'s first loop; `NextLevel` the swap of the queues;
`SkipScan`, `BeginScan`, `EndScan` the loop over scans, and the rest one field
each: `Annihilate`, `FieldMatches`, `SkipField`, `QueueAgain`, `QueueFirst`.
`LanguageRule` compares the answer with Go's rule (the shallowest depth at which
a field matches, if only one does there), stated over all paths;
`CountsPlaces` relates the saturated counts to the number of ways a type is
embedded at the depth of the queue, and is why the rule comes out right;
`Justified` is what can be proved without recursion over paths: a field that is
found is there, and one that is not found is nowhere. `Ends`: cycles of
embedded pointers do not keep the search going; weak fairness of the one
goroutine that runs.

### TypeLayout

`types` is the table of all descriptors; constructions append to it, so that
types nest in one another in all ways. `StructOf` is `StartStruct`, one
`AddField` for each field, `FinishStruct`; `ArrayOf` and `MapOf` (with the
bucket type, which is what has a layout) are one step each. A descriptor has
size, alignment, `ptrdata` and either a mask (with the number of bits that were
allocated for it) or a program: literal bits and repetitions, as
`appendGCProg` and its callers write them. `struct{}` has no step:
`StructOf` mentions it itself, so that it is always found linked.

What it is compared with: `PtrOffsets`, where a value has pointers by the
offsets of its parts; `Run`, how the runtime executes a program. `PointerMap`:
the collector is shown the pointers and nothing else. `MapFits`: masks are long
enough for whoever reads and writes them, programs emit `ptrdata`'s worth of
bits. `FieldsApart`, `StructRules`: the compiler's rules for structs, that
fields are apart, within the struct, a zero-size field at the end included, and
aligned. `DirectIsPointer`: a type stored
directly in an interface word is one pointer. `BucketsFit`: `MapOf`'s panics
about sizes are unreachable. (The link of a bucket without other pointers is
kept alive by the map, so it is no pointer of the bucket.)

`wrapped` is a history variable: a sum of sizes has gone past the address
space. `ArrayOf` checks for it and panics, `StructOf` adds without a check
(`type.go:2578-2582`), so that two fields of half the address space give a
struct smaller than either. The rules are stated, and hold, until then.

### CallFrame

Memory is a sequence of objects (frames on the heap, frames on the stack,
variables): bytes, of which one that is not zero says which byte of which
argument or result of which call it is, and the words the collector takes for
pointers. `stack` is the activations of one goroutine: `caller` is
`Value.call`, `client` compiled code that calls a func value, `code` a compiled
function or method, `reflect` `callReflect`, `method` `callMethod`. `Placed` is
the rounding and adding that each of them does for itself, each from the start
that its code gives it: `funcLayout`, `CallArgs`, `CodeIn` (external: the
compiler's), `ReflectIn`, `ArgOffset`.

The steps of a call: `Call` takes a frame from the pool (or a new one: a pool
may be emptied at any time) and writes the receiver (`storeRcvr`) and the
arguments; `Enter` is the runtime's `call`, which copies the frame to the
stack; `CodeReturn` and `Leave` copy the results back; `Finish` makes Values of
them or puts the frame back. `Unpack`, `Pack` and `ReflectValid` are
`callReflect` before and after the function, and the moment the collector may
read the results in the frame (`retValid`). `AddReceiver`, `CopyResults`,
`MethodValid` and `Release` are `callMethod`, with the order of its last steps.
Functions and methods that run may call again; a `Panic` ends all of them.

`ArgumentsArrive`: compiled code finds its receiver and arguments. `ValuesKept`:
Values a program was given (results of calls, arguments of a function made by
`MakeFunc`) stay what they were, though frames are used again. `PoolClean`:
frames in a pool are zero and nobody refers to them. `AlwaysScanned`: at every
moment, each pointer that is only in frames is in a word that the collector
looks at, and it takes nothing else for a pointer; `StackMap` is what the
runtime reads of a function that reflection made (`bv`, `argLen`, `retValid`).
It is stated while no size has wrapped: after that the maps of the types
themselves show what the types do not have.

### TypeQueries

A type is its number in a graph, one number for one type object: for a type
without a name the caches see to there being one object only. `ImplementsScan`
is one round of either loop of `implements`. `Assignable` and `Convertible` are
`directlyAssignable` and the last part of `convertOp`, up to
`haveIdenticalUnderlyingType`, whose recursion becomes the list `work` of pairs
still to be compared: any false result ends a comparison, so `Descend` and
`Reject` are all there is (`other` is the second comparison of `convertOp`, of
the base types of two pointers).

`Answered` compares the answers with the language's rules: identity as the
greatest relation, assignability and convertibility stated with it,
implementation as a search for each method. That the questions are answered at
all is the recursion's end on recursive types. It holds of graphs whose defined
types have different names (`GraphsAssumption`); the code compares names only
where tags are ignored, so that two types of one name, from two packages or two
functions, count as identical there, and comparing two that refer to themselves
does not end.

### Values

Memory is a sequence of objects of words; an address is an object and an
offset. A Value is a type, a pointer and the flags `flagStickyRO`,
`flagEmbedRO`, `flagIndir` and `flagAddr`, as in the code; `Registers` are the
Values a client has, `held` one interface, and each exported method or function
is an action on them: `Interface`, `ValueOf`, `Elem`, `Part` (`Field` and
`Index` of an array), `Addr`, `New`, `ZeroOf` (`Zero`), `MakeMap`, `MapIndex`,
`Convert`, `Set`, `SetInt`, `SetMapIndex`, and `xcall.go`'s `FieldAddr` and
`Field`. A method that panics changes nothing, so its guards are the
conditions under which it does not. Two departures of the fork from package reflect are in
the model: `Field` does not mark unexported fields read-only, and
`mustBeExported` returns at once, so that only `mustBeAssignable` and
`valueInterface` look at `flagRO`.

`FlagsHold` is what comments at the flags promise, and that nothing is ever
read-only: `packEface` cannot panic with "bad indir" and `Field` of `xcall.go`
can show every field. `MemoryTyped`: data is never taken for a pointer to it or
the reverse, through structs and arrays that interfaces hold directly, and
nothing but zeros is in the zero value all types share. `ValuesFrozen` and
`InterfacesFrozen` are about aliasing: a Value that is not addressable, and
what an interface holds, do not change when the variable or the map it was read
from does; that is what the copies in `packEface`, `copyVal` and `cvtDirect`
are for.

Integers have a width (`Widths`): memory holds the number that was stored in
it, cut off as the machine does it, and the widths are scaled down, 64 bits to
four and 8 to two. `NumbersKept`: `OverflowInt` and `OverflowUint` say of every
number whether the variable will hold it, and a conversion between widths and
signs keeps exactly the numbers that fit.

A map is an object of its own, with the words of its one element or without
any; a variable of map type is an object with one word, which is nil or the
map's address. `Zero` refers to the zero value all types share when the type is
not larger than that, and allocates otherwise. Method values (which are in
`CallFrame`), interfaces with methods and the setters of the other kinds are not
in the model.

### Slices

A slice header is one word of memory, since it is always copied as a whole:
the address of the data, a length and a capacity. `Slice`, `Slice3`, `SetLen`
and `SetCap` change headers, `Index` makes an element addressable, `Making`,
`grow`, `AppendValues`, `AppendSlice` and `CopyTo` are the code's `MakeSlice`,
`grow`, `Append`, `AppendSlice` and `Copy`; `Reslice` is where an empty slice at
the end of an array must not point to the next object, which `MemoryTyped`
would see. `ConvertBytes` is `Convert` between strings, slices of bytes and
small numbers; that it copies is what keeps a Value that was read from a string
unchanged (`ValuesFrozen`).

`Appends`: the result of `Append` and `AppendSlice` is the elements of the slice
followed by what was given, as both were before, even when they are in the very
memory that is written to, and nothing but spare capacity is written to. The
code has one exception, which the property states: `Append` reads its arguments
one by one, so that a Value after the first that refers to a variable in the
spare capacity is read after that was overwritten. A second departure is in the
guard `CopiedFrom`: `Copy` from an array that interfaces hold directly
(`[1]*int` in a Value without `flagIndir`) takes the element for the address of
the elements; the clients of the model do not do that, neither in the instances
nor in the theorems.

## Runs

| Run | Instance | Shows |
|---|---|---|
| `conversion` | package-level names A, B (every declaration of a small grammar: basic, invalid, pointers to either, a struct of two, one with a field that cannot be converted, an interface, a struct that embeds; up to two methods), L in a function, X provided by the callback; 2 conversions | all properties of `TypeContext` |
| `methods`, `retry`, `shadow` | the same; in `shadow`, L has the name of A | the violations above |
| `self` | one name with a method | the violation above |
| `caches` | 2 goroutines, 2 calls each, 6 keys, 2 hashes | `Canonical`, `Inv`, `AppendOnly`, `ImplementsIntern`, `CallsReturn` |
| `fieldpointers` | 2 goroutines, 2 keys | the violation above |
| `deepequal` | 6 locations, 2 map objects, all boxes and sharing | `Sound`, `Complete`, `Terminates` |
| `links` | every sorted table of one section of six types or two of two, with repeated strings; or every well-founded graph of three types (integers, pointers, structs, channels, functions, defined or not) or of four (without channels and functions; two defined or not, two never); or every two sorted lists of methods `A`, `m` of one package, `m` of another, each with two types | `Exact`, `Finishes`; `Answered` |
| `lookup` | every embedding graph of three struct types, and diamonds of four; both entry points | `CountsPlaces`, `LanguageRule`, `Justified`, `Ends` |
| `layout` | two constructions from six basic types, one of them with a program, up to three fields, arrays of 0 to 3; then calls over every list of one or two basic types as arguments or results, without a receiver and with all kinds, some of them twice, and over a type just made | all properties of `TypeLayout` and `CallFrame` |
| `values` | two Values and one interface; seven clients, who ask for structs and interfaces, direct arrays and integers, maps of integers or of pointers, integers of three widths, slices of arrays, slices and strings of bytes, and allocate up to 5 objects; symmetric in the Values | all properties of `Values` and `Slices` |

Why the bounds are enough: recursion through placeholders needs two names to
have every order of meeting and completing (self-recursion, mutual recursion,
recursion through a method), and a third one that does not take part; two
conversions suffice for everything that a conversion leaves behind. The caches
distinguish a goroutine and its rival; two calls each let a call follow the
rival's. In `DeepEqual` two variables and two boxes make all cycles of length
one and two, on either side of the comparison. In the layouts the thresholds of
the code are scaled down so that small types cross them: masks of at most three
words instead of 16384, literals of two bits instead of 120, keys and values of
16 bytes instead of 128, a shared zero value of one word instead of 1024 bytes, so
that `Zero` of a struct allocates; words of 8 bytes, alignments and the bucket's eight
entries are the code's. A section of six types has brackets of every parity and
the string at either end, absent or repeated; four struct types make a diamond
with a level below it, where saturated counts have to be handed on. A linked
type with a program makes programs within programs within arrays reachable in
two constructions. Two Values and an interface are what one operation relates;
a variable, a copy of it and what holds the copy are three objects. The
clients keep the kinds apart that do not meet in one operation; those of slices
leave the interface alone (the state constraint `Small` of the run `values`),
whose aliasing the other clients show. Two bits and four have a number at each
end of either width, with and without a sign, and numbers that fit only one of
two widths. Slices of length and capacity up to 2 have empty ends, spare
capacity, and room for none, one or two appended elements. The run checks no
liveness, so that its symmetry is sound. Two calls of one function suffice for
a frame that goes through the pool while a result of the call is kept, and for
a function that calls itself; one or two arguments of every size and alignment
shift whatever follows. A graph of four types has two recursive types side by
side whose parts differ in the second step; lists of three methods have a
method of the right name and the wrong package before or after the right one.

## Proofs

| Theorem | Says | Argument |
|---|---|---|
| `TypeContextProofs!Typing` | `Spec => []TypeOK` | one lemma per action; the heap only grows and objects keep their names (`Grows`), so frames and tables stay well formed (`GrowFacts`); `ReplacedFacts` for the rewriting |
| `TypeContextProofs!NoReentry` | `Spec => []OncePerName` | each frame that completes a name is the only one for it and its name is pending; a new one is pushed only when `FindTypeName` found no entry |
| `TypeContextProofs!KeepsIdentity` | `Spec => ResolvedOnce` | only the top frame's name is given a type, and it is pending |
| `TypeContextProofs!Conversions` | `Spec => []ConvInv` | every frame is at work on what its caller asked for, and its `refs` are the images of the names its list has mentioned so far, whatever was rewritten meanwhile |
| `TypeContextProofs!Results`, `Cleanly` | `Spec => []ResultFaithful`, `[]CleanConversion` | `ConvInv`; and without a type that cannot be converted nothing returns an error, so that every placeholder belongs to a name under way |
| `TypeContextProofs!Structures` | `Spec => []StructureFaithful`, for one package with unique ids | `StructInv`: a resolved type mentions types, or placeholders of names that are still under way; when one of these is completed, its scope's rewriting reaches every type that mentions it |
| `TypeContextProofs!Undisturbed` | `Spec => []LoopUndisturbed` | `LoopInv`: everything that a type converted before can lead to has its entry by now, so that converting it again enters none |
| `TypeContextProofs!Refreshes` | `Spec => []LoopRefreshesMethods` | `RefreshInv`, with `ConvInv` and `LoopInv`: what the update function sets are types already, for the loop meets no name that it would complete |
| `TypeCacheProofs!Invariance` | `Spec => []Inv` | one lemma per kind of step; what is proper stays proper because maps and lists only grow |
| `TypeCacheProofs!CanonicalTypes`, `ListsHaveNoDuplicates`, `CachesAppendOnly` | `Canonical`, `NoDuplicates`, `AppendOnly` | from `Inv` |
| `TypeCacheProofs!Refinement` | `Spec => ImplementsIntern` | each step is a step of the atomic table or a stutter, by `Inv` |
| `DeepEqualProofs!Soundness` | `Spec => []Sound` | `EqualSoFar` is inductive; when nothing is pending it gives a relation that justifies itself |
| `DeepEqualProofs!Completeness` | `Spec => []Complete` | `PendingFollows` is inductive |
| `TypeTablesProofs!Invariance`, `ExactlyTheTypes` | `Spec => []Inv`, `[]Exact` | the bracket is kept by `Narrow` because the section is sorted; the scan stops at the first other string |
| `FieldLookupProofs!Invariance`, `AnswersJustified` | `Spec => []Inv`, `[]Justified` | queued places lead to the queued types; what a visited type embeds is visited or queued, so an empty queue means that all reachable types were looked at |
| `FieldLookupProofs!Rule`, `Counts` | `Spec => []LanguageRule`, `[]CountsPlaces` | `LevelInv` follows the search level by level: before a level, the types that are met there first are the queued ones, each once, counted twice or more exactly when there are several places; during it, the next level's counts stand for the places that the fields looked at so far make (`Taken`), and a match found is the only one looked at (`OnlyMatch`) |
| `TypeTablesProofs!ScanIsSearch` | `QuerySpec => []ImplementsRight` | what the scan has passed is not the method it is looking for: a method passed has a place no later than the last match, the next method sought a later one |
| `TypeLayoutProofs!Disjointness`, `Typing` | `Spec => []FieldsApart`, `[]TypeOK` | all fields so far end at or before `size`, and the next one starts at `size` or later, for any alignments; later types leave earlier ones alone (`MakeInv`) |
| `TypeLayoutProofs!Rules`, `DirectTypes`, `Buckets` | `Spec => []StructRules`, `[]DirectIsPointer`, `[]BucketsFit` | `LayoutInv`: sizes are multiples of alignments, which divide one another, and whatever has pointers is at least a word; what is held directly has one part, at its start, that is held directly, down to a pointer |
| `TypeLayoutProofs!PointerMaps`, `MapsFit` | `Spec => []PointerMap`, `[]MapFits` | `MapInv`: the words that a descriptor marks are those that its parts mark, moved to their offsets (`PartsRules`), and the last one ends at `ptrdata` (`MapRules`); programs are put together from pieces that emit known words wherever the runtime starts them (`Emits`), masks from slots that come in the order of memory (`SlotsInOrder`), so that no bit is appended where one is already |
| `CallFrameProofs!Pools` | `CallSpec => []PoolClean` | every frame has one owner: a pool, an activation, or the Values that were made of it; whoever gives a frame back has cleared it (`CallInv`) |
| `CallFrameProofs!Arguments` | `CallSpec => []ArgumentsArrive` | the six pieces of code that place arguments agree; with a receiver in front, all places move by the same word, because alignments divide it |
| `CallFrameProofs!GivenValues` | `CallSpec => []ValuesKept` | what a kept Value refers to belongs to no pool and no activation that writes |
| `CallFrameProofs!Scanned` | `CallSpec => []AlwaysScanned` | `ScanInv`: a frame on the heap has the map that `funcLayout` made, whose words are just those of the receiver, the arguments and the results that have pointers (`FrameWords`, from `MapInv`), and shows in them pointers of this or an earlier call or zeros (`Clean`); what an activation has still to pass on is in its frame, in the frame of the caller, or held as a result, according to its phase (`ScanAt`) |
| `ValuesProofs!FlagsSound`, `Memory` | `SlicesSpec => []FlagsHold`, `[]MemoryTyped` | `Typed`: objects are sorted into variables and those that are frozen; every word fits the type that its place in its object gives it (`Fits`), and a word that refers to an object refers to values of the right type there (`Holds`) and to the right sort: pointers, slices and addressable Values to variables, interfaces, strings and other Values to frozen ones |
| `ValuesProofs!Frozen` | `SlicesSpec => ValuesFrozen /\ InterfacesFrozen` | every step keeps the sort of an object, its type and its length, and all words of the frozen ones (`Keeps`), for it writes through pointers, slices and addressable Values only |
| `ValuesProofs!NumbersExact` | `SlicesSpec => NumbersKept` | stored integers have the bits of their type, by `Typed`; a number is the one that was stored iff it is of the type's (`Decoded`), and iff shifting up and down keeps it (`OverflowIs`) |
| `ValuesProofs!AppendsRight` | `SlicesSpec => Appends` | `grow` leaves the elements in place or copies them to a new object (`GrownTo`); what is set next lies behind them (`Patched`), so a value after the first is still what it was unless it is a variable in spare capacity |

The assumptions are the named `ASSUME`s of the modules: disjointness of the
model's constants, that hash and family are functions of the key, that a Go
scope declares a name once, that types are finite trees of which a program has
finitely many (`HeightAssumption`, `FiniteAssumption`), that memories are well typed, that sections
of type links and method tables are sorted, that pointers and maps, and the
parts of what an interface holds directly, are held directly. Of the compiler's
types the layout proofs use sizes that are multiples of alignments, alignments
that divide one another and a word, that only types with too many words have a
program, and that what interfaces hold directly is a pointer
(`CompilerAssumption`); the proofs about pointer maps use that the compiler's own
maps are right: `ptrdata` is a number of words within the type and ends at the
last pointer, a mask has a bit for each of these words, a program can be
executed and emits the mask, and `addTypeBits` meets the same words in the order
of memory (`MapsAssumption`). Of the types of Values they use that sizes, offsets and
parts agree with the words of a type (`Leaves`), that no type has size zero,
and that what interfaces hold directly is one word, a pointer or a map
(`TypesAssumption`, `WordsAssumption`, `SlicesAssumption`). Receivers are as Go makes them (`CallAssumption`: what is not held
directly, and an interface, is a Value with `flagIndir`). There is no bound
on goroutines, keys, names, declarations, memories, activations or types in the
proofs; the bounds on calls and requests are arbitrary numbers.

`Structures` has two hypotheses besides. No two names have one id (`UniqueIds`:
what happens otherwise is the run `shadow`), and the program is one package
(`OnePackage`): a type declared in a function mentions that function's types
and the package's, and methods mention the package's only. The run `conversion` checks that
all its programs are like that. It is what the code needs: `typeScope.UpdateType`
rewrites the types of the scope of the name that was completed and of no other,
so a type of a second scope that was completed earlier, with a mention of a
name still under way, keeps the placeholder. In one package that cannot happen:
nothing at package level mentions a local type, and a local name that mentions
a package-level one under way was itself reached from a signature, which has no
local types. The other theorems about `TypeContext` hold for all programs.

Two invariants changed when their proofs did not go through. `LoopUndisturbed`
was stated for all programs: the proof needs that what converted before
converts again without meeting a new name, which fails when a declared type
has failed and left its placeholder. `StructureFaithful` was stated for idle
Contexts only; the invariant that proves it holds at all times.

Induction over data is done on sets of numbers: the natural numbers have no
subset without a least element (`LeastNumber`, from the well-foundedness of
the library), so a statement about types holds of all if it holds of each whose
parts have it, by their heights or, in `TypeLayout`, by their numbers (or, in a program or a list of slots, by what
comes before); and what
a recursive function says of a depth of embedding (`Places`), of a power of two
(`TwoDef`), of the pointers that `Field` has followed (`FollowingDef`) or of the
values that `Append` has set follows from the numbers before (`Iterates`).

`Conversions`, `ListsHaveNoDuplicates`, `TypeLayoutProofs!Typing`, `ScanIsSearch` and the
invariance theorems of `TypeLinks` and `FieldLookup` state properties that no run
checks by themselves; the runs check what follows from them.

Only model-checked: everything about liveness, `Answered` included, which is
outside the prover's reach.

## Plan

Done: `TypeContext`, `Intern`, `TypeCache`, `FieldPointers`, `DeepEqual`,
`TypeLinks`, `FieldLookup`, `TypeLayout`, `Values`, `CallFrame`, `Widths`,
`Slices`, `TypeQueries`, and proofs about all of them.

Left, in this order:

1. `Values`, further: interfaces with methods, Values that come in with
   `flagRO` set from the standard package.
2. `Value.call`'s checks of number and types of arguments, and the slice of
   variadic arguments.
3. Method bodies of `types.go`: promoted methods through embedded pointers.
4. Values that guard the runtime's objects: `Select`'s checks of its cases,
   the protocol of `MapIter`.

Not modelled and not planned: queries of one type that read a field of its
descriptor (`Method`, `NumIn`, `Len`), formatting of type strings, struct tag parsing,
compiler-made metadata, the runtime's channels, maps and garbage collector
behind `value.go`, which are not in this repository.
