# Konoha: models, checks and proofs

Konoha is a statically typed scripting language. Its interpreter, in C, compiles
a script statement by statement to instructions of a register machine and runs
them. This directory holds TLA+ models of the parts of the interpreter whose
correctness depends on long sequences of steps, the TLC configurations that
check them on small instances, and proofs, checked by TLAPS, for instances of
any size. Paths are relative to the repository.

Contents: 1 the system, 2 what is modelled, 3 the models and the code, 4 the
runs, 5 the proofs, 6 where code and promises part, 7 what is not modelled,
8 plan.

## 1. The system

### Components

| component | code | state | operations |
|---|---|---|---|
| object memory | `src/src/gc/bmgc.h`, `gc.c` | per size class: segments with bitmaps and live counts, a free list, an allocation pointer; a pool of unused segments; `ostack` of a collection | `new_Object` and the like, `knh_System_gc`, the final sweep |
| contexts and threads | `src/src/main/context.c`, `thread.c`, `src/package/konoha.thread` | one `CTX` per thread: stack, registers, exception, handler, buffers; the list of contexts of the shared part | create, spawn, join, close, safepoints, signals |
| stack and exceptions | `src/src/main/stack.c`, `evidence.c`, `src/include/konoha1/konoha_vm.h` | slots `ctx->stack[i].o`, `ctx->e`, `ctx->ehdrNC`, `parentNC` and `stacklist` of the handlers | try, throw, catch, finally, assure, call, return, launch, assert |
| virtual machine | `src/src/lang/vmcodelibs.c` (generated) | a frame of the stack and a program counter | 200 or so instructions |
| maps and dictionaries | `src/src/main/map.c` | hash map: arena of entries, buckets, free list; dictionary: a sorted table with an unsorted tail | get, set, remove, append, sort, iterate |
| constant pools | `src/src/main/number.c`, `string.c`, `struct.c` | a weak map of boxed numbers and one of strings per class | box, make, remove upon finalization |
| method tables | `src/src/main/class.c`, `src/src/lang/typing.c`, `asm.c` | per class an array of methods; `mtdcache` of the context; the class and method kept in every `LDMTD` | define, rewrite, look up, compile a call, call |
| classes, events, symbols | `src/src/main/struct.c`, `class.c`, `system.c` | tables by id, names of classes and symbols | add a class, a generic, a symbol; look up |
| arrays, bytes, strings | `src/src/main/array.c`, `bytes.c`, `string.c` | capacity and size, a shared write buffer per context (`CWB`), texts shared by sub-strings | append, insert, grow, clip, close the write buffer |
| streams, loading of scripts | `src/src/main/stream.c`, `operator.c`, `src/src/lang/script.c` | a `kio_t`: a buffer with `top` and `tail`, is it running; the loader: chunk, line, status | read a line, a byte, all; write, flush, close, free; read a chunk and evaluate it |
| drivers | `src/src/main/link.c`, `query.c`, `dspi.c` | tables of drivers | open by URN, query |
| operators, semantic types | `src/src/main/operator.c`, `number.c`, `semantics.c` | almost none | built-in methods, ranged and unit types |
| logging and security | `src/src/main/evidence.c`, `security.c`, `os.c` | trace flags, roles | traces, audits, file system calls |
| tokenizer, parser | `src/src/lang/term.c` | tokens and statements in progress | text to syntax tree |
| type checker | `src/src/lang/typing.c`, `script.c` | variables of the method and of its blocks (gamma) | syntax tree to typed tree |
| code generator | `src/src/lang/asm.c` | basic blocks with `incoming`, `visited` and `code`, labels of the loops that are open | typed tree to blocks, blocks to instructions |
| back ends and front ends by option | `llvm.cpp`, `src/src/sugar`, `ssa.c`, `binary.c` | their own | replacements of the components above |
| packages | `src/package/*`, `src/src/main/exports.c`, `src/src/lang/ffi.c` | libraries of the host | bindings |
| collector variants | `gbmgc.h`, `rcgc.h`, `oldmsgc.h` | generations, reference counts | replacements of `bmgc.h`, by build options |

### How they interact

* A script is read through an input stream and cut into chunks, mostly at blank lines; a
  chunk is parsed, typed, compiled and run before the next one is read. Every
  statement of a chunk becomes a method that `knh_VirtualMachine_launch` runs inside a try of its own. A running
  method may load and run a script as well (`System.eval`), so that launches
  nest.
* Every component takes its objects from the object memory. An allocation may
  run a collection, which traces the tables of the shared part and the slots of
  the stacks up to the stack pointer (`knh_reftraceRoot`), and everything that
  is traced from there. What only a C variable holds is not a root, except as
  far as the scan of the C stack finds it.
* The pools of numbers and strings are maps that the collector does not trace.
  An object leaves its pool when it is finalized, and an object is finalized
  not at the end of the collection that found it dead, but when its block is
  handed out again.
* An exception leaves the frames of the machine and of C functions with
  `longjmp`. A collection or an expansion of the heap may throw, too:
  `OutOfMemory!!` may end a sweep in its middle, and a script may catch it.
* A call is typed by looking its method up, and compiled to a jump or to a lookup at
  run time, by what the class tables hold at that moment; later chunks may add
  methods to the same classes, while the caches are never emptied.
* Dictionaries are the tables of names of the interpreter itself. The way they
  are filled differs from user to user: one entry at a time with `set`, many
  with `append` and one `sort`, or with `append` alone.

### What is hard

The default build runs one thread at a time, apart from `konoha.thread`; the
hard part of the modelled components is not the interleaving of threads but the
order of calls: an allocation that begins as a scan, goes on as a collection and
ends as a second scan; a program that changes the object graph between any two
of them; a finalization that comes later than the death of its object; a loop
over a map whose body changes the map; definitions that come between two calls of
the same method; passes over the blocks of a method that leave marks for each
other; a line, or a script, that comes in pieces; tries that are left by an exception, by
their end, by `return` or by `break`, in launches that nest. The hazards found
in the code are listed, with their lines and the properties that watch them, in
`PROJECT.json`.

What makes each component correct:

* object memory: an object that can be reached keeps its place and contents;
  blocks are handed out once; a collection ends, finds what is free, and loses
  no segment; every object is finalized in the end;
* exceptions: an exception lands at the innermost open try; what is assured is
  checked out exactly once;
* maps, dictionaries: they answer what was stored last under a key; iteration
  misses no key that stays;
* constant pools: one object per constant, and constants never change;
* code generation: the emitted code does what the statements say; every pass ends;
* method tables: a call reaches the method of the receiver's class, or of the
  nearest class above it, whatever the caches hold;
* streams: no byte is lost, doubled or passed over between refills and flushes;
* contexts: a context is freed once, after its thread has ended, and the
  process does not end before;
* tables: an id keeps its meaning while tables grow.

All but the last two are modelled, see the next sections; those are in the plan.

## 2. What is modelled

| module | what | composed of |
|---|---|---|
| `ObjectStore` | what a program may assume of memory: objects that refer to each other, and no reachable one is ever handed out again | |
| `BitmapGC` | the allocator and the collector of `bmgc.h` | implements `ObjectStore` |
| `ConstantPool` | weak pools of boxed constants | extends `BitmapGC` |
| `KeyValueMap` | a table of keys and values, what `get` promises | |
| `HashMap` | the chained hash map of `map.c` | instance of `KeyValueMap` |
| `PtrMap` | pointer maps over the same arena | extends `HashMap` |
| `MapIterator` | an iterator that walks the arena while the map changes | extends `PtrMap` |
| `DictMap` | the sorted dictionary with an unsorted tail, and its users | instance of `KeyValueMap` |
| `Exceptions` | handlers, assurances and unwinding | |
| `BasicBlocks` | the passes over the basic blocks of a method | |
| `MethodCompiler` | statements to blocks, and what both mean | extends `BasicBlocks` |
| `ClassTree` | classes, and which are above which | |
| `LateBinding` | what a call reaches, without caches | extends `ClassTree` |
| `MethodTable` | method arrays, `mtdcache`, compiled calls | extends `ClassTree`, implements `LateBinding` |
| `FileBytes` | a file that grows | |
| `InputStream`, `OutputStream` | a `kio_t` that reads, and one that writes | extend `FileBytes` |
| `ScriptLoader` | a script in chunks | extends `InputStream` |
| `Streams` | writer, reader and loader over one file | extends `ScriptLoader`, `OutputStream` |
| `BasicBlocks_proofs`, `BitmapGC_proofs`, `ConstantPool_proofs`, `DictMap_proofs`, `Exceptions_proofs`, `MapIterator_proofs`, `MethodTable_proofs`, `Streams_proofs` | theorems about the module of the name | extend it and TLAPS |
| `MC...` | instances of the above for TLC | |

## 3. The models and the code

### BitmapGC

The heap is a set of segments. A size class `k` (`SubHeap`) owns segments
(`seglist`) and has a list of those with room (`freelist`) and an allocation
pointer `p[k]` (`AllocationPointer`), kept twice as in the code: as segment,
word and bit (`bitptrs[0]`) and as block address (`blkptr`). A segment has a
bitmap of level 0, one bit per block, with a sentinel after the last block
(`Marked`), and a bitmap of level 1, one bit per full word (`level1`), and a
count of its live blocks, `live_count`. `segmentList` is the pool of segments
that belong to no class, and `managed` those that the heap manager knows about.

| action | code |
|---|---|
| `AllocHere`, `AllocScan`, `AllocFreelist`, `AllocSegment` | the four ways in which `tryAlloc` finds a block: under the pointer, further on in its segment (`findNextFreeBlock`), in the next segment with room (`nextSegment`), in a new segment of the pool (`newSegment`); `HandOut` adds the deferred finalization, the construction and the mark that all have in common |
| `AllocStale` | `tryAlloc` with a pointer that `rearrangeSegList` has left behind the last block |
| `CollectForAlloc`, `SystemGC` | the beginning of `bitmapMarkingGC`: all bitmaps and counts are cleared |
| `MarkRoots`, `TraceNext` | `mark_ostack` on the roots, then until `ostack` is empty |
| `Sweep`, `SweepExpand`, `SweepNoMemory` | `bmgc_gc_sweep`: free lists and pointers made anew, the heap expanded if too few segments have room, `OutOfMemory!!` if the host has no memory |
| `ThrowOutOfMemory`, `Catch` | the third failure of `tryAlloc`, and a script that goes on |
| `Store`, `Erase`, `Load`, `Drop` | the program: a field is set, cleared or read, a variable is given up |
| `Exit` | the final sweep |

`phase` says where the one thread is: running a script, in a collection, about
to try the allocation again (`request` is the class it waits for), or ended.
`roots` are the objects that slots and tables hold; `constructed` are the blocks
with an object that has not been finalized.

Abstractions: the masks and shifts that compute the next clear bit of a word are
the function `LowestClear`; level 2, which the allocator never reads, is left
out, as is the free list of the fastmalloc allocator, which shares the file; the
half-word sentinel of the largest class is its number of bits. A stored reference
replaces none: `Store` adds and `Erase` removes one, and a program that does
both in sequence is one that overwrites.

### ConstantPool

`BoxPooled` is a boxing that the pool answers; `Make` one that makes an object,
at once or after a collection (`Wait`); `Unpooled` is what the finalization of
the object that the block had before does to the pool. All other steps are those
of `BitmapGC`, and leave the pool alone. The pool does not keep its objects
alive, since `hmap_reftraceNN` is empty.

### HashMap, PtrMap, MapIterator

The arena of entries, the buckets and the free list are the ones of `knh_hmap_t`,
with indices for pointers. `spi` chooses one of the maps of `hmap_config`: "OO"
(objects to objects, and with strings "SO", the same code but for the
comparison), "ON" (objects to unboxed numbers), "NN", or the pointer maps with
their two users, "rules" and "xdata", which add without looking, and put what
they find at the head of its chain (`MoveToTop`). `RoomyArena`, `RoomyBuckets`
and `RoomyUnused` are the arena after the rehash that an insertion into a full
map makes first. `HashCode` gives keys chosen codes. One code is that of free
entries, because the iterator tells free entries from others by their contents.
`promised` is the table a program may expect. `Walk` follows `next` from an entry,
and `From` is the chain or free list that begins there.

`MapIterator` adds an index into the arena and lets every operation of the map
happen between two `next`.

### DictMap

The table is a sequence of entries, the first `sorted` of which are in order.
`Index` is `dmap_index`: a bisection of the sorted part, and then a scan of the
rest, or a bisection of it, too, if it has `Unsorted` entries or more. `user`
selects how the runtime fills the dictionary: scripts (`Set`, `Remove`), the
table of functions (append and sort), the table of symbols (appended in order),
class names (`knh_setClassName`: a `set` of the long name, an `append` of the short one, or both), and `Object_Map`
(appended, never sorted).

### Exceptions

`blocks` is the program's side: the launches, methods, tries, catch and finally
blocks and assures that have been entered and not left. Block `i` owns slot `i`
of the stack. The slots above the last block keep their contents, as they do in
the code, where nothing clears a slot when its block is left. So `KLR_TRY` may
find a handler in its slot, set by whatever was there before, and keeps it; this
is in `SetHandler`. `TRYEND` leaves the default object of the class of handlers
in the slot (`LaunchEnds`), which is one object for the whole process.

A throw (`Unwind`) begins its walk at the slot the code begins it at: the frame,
the innermost slot if the throw is in the body of a try, one above it for a
failed assert, one below it for the throw at the end of a finally block. It
checks out what the handler lists and jumps (`Land`). Which catch clause takes
an exception depends on the class of the event, so both are possible: one
catches, or none and the exception stays until the end of the finally block.
The finally block that a return in the body of a try runs first (asm.c:2504) is code of
that body in the model. A jump into a block that is gone, an exit for want of a handler and a violated
assertion stop the model (`status`).

Two variables only record: `loose` is the set of launches in which a try or an
assure has been left by its end, by `return` or by `break`, which by the code
leaves the handler in place (section 6); `shared` says that a handler was set a
second time while its try was open. The properties are stated for what they can
hold for: with `shared` set none can, and around a `loose` launch those that
speak of the launches outside still hold.

A handler that is in no slot may be collected, because neither `ehdrNC` nor
`parentNC` is traced; the model takes such handlers for new ones (`Fresh`).

### BasicBlocks, MethodCompiler

`blk` is the graph of basic blocks: instructions, `next` (fall through) and `jump`
(`jumpNC`), and the three fields the passes use, `incoming`, `visited` and `code`.
The passes are the five of `GammaBuilder_compile`: `Strip0` (empty blocks are
followed), `Strip1Tail` (blocks with one predecessor are joined to it, and the
peephole), `SizeTail` (the size of the code, and the jump a block needs if the
block after it has been laid out), `Copy`, and `Setjump` with `Link`. They
are recursive in C; `stack` holds the frames, a block and the label where it goes
on, so that a pass that does not end is a behaviour and not an operator without a
value. Block 0 stands for no block.

`MethodCompiler` begins with a method of a set, as typed statements. `Stmt_typing`
is what the type checker leaves of them: the statements behind one that does not
come back are dropped, and constant conditions choose a branch. `Stmt_asm`, with
an operator for every kind of statement, is the code of the same names in `asm.c`;
the labels are `lbCONTINUE` and `lbBREAK`. `Exec`, a definition of what the
statements do, `RunBlocks` and `RunText` are what the results are compared by:
`KeepsMeaning` compares variables, printed text, calls and the way the method ends,
for all values the variables may begin with, after the type checker, after each
pass, and in the instructions laid out.

Abstractions: values are Booleans; objects, fields, arrays and arithmetic have no
control flow of their own and are left out, as are foreach (a loop over an
iterator), try and assure (whose run is in `Exceptions`) and the rewriting of
instruction pairs in the peephole: two instructions that it merges (`NSET2`, `NNMOV`) are
still two. Variables are parameters, so that no local is cleared where a method begins
(asm.c:2869). The methods leave out
the forms of section 6 for which the code is wrong.

### ClassTree, LateBinding, MethodTable

`methods[c]` is the array of a class, `mtdcache` has one entry per hash value, and
`code[s]` is a compiled call: `fixed` if it goes to its method without lookup, and
otherwise what `LDMTD` keeps, a class and a method. A method is named by its class
and its place in the array, since arrays only grow.

| action | code |
|---|---|
| `Declare` | a class statement; the classes above are there |
| `DefineNew`, `DefineOverride`, `DefineRefused`, `DefineAgain` | the four ways of `METHOD_typing`, by what `knh_ClassTBL_findMethodNULL` finds: no method, one of a class above that may be overridden or not, or one of the class itself; the first two end in `knh_ClassTBL_addMethod` |
| `CompileCall`, `CompileDynamic` | `ASM_CALL` of a typed call, and of one whose receiver has no type |
| `CallFixed`, `CallKnown`, `CallLookup` | the call: `SCALL`/`VCALL`, `LDMTD` with the class it has seen last, `LDMTD` with another |
| `Resolve` | every other lookup: the parser, the libraries |

`called` and `late` only record: a definition is late for its name if its class
has been the receiver of a call of the name, or has a declared class below it. The
properties say what holds of a name until then. `LateBinding` has only the arrays, as sets of
names, and the last answer.

### FileBytes, InputStream, OutputStream, ScriptLoader, Streams

`in` is the `kio_t` of an input stream: `unread` is what the buffer holds between
`top` and `tail`, `filled` says that `tail > 0`, which `io2_close` looks at. A call
of `readLine`, `readAll` or `getByte` begins (`Begin`), refills as often as it must
(`Refill`, any number of bytes up to the size of the buffer, or `NothingRead`, at the
end of the file or because of an error), and returns. Other programs may append
between the steps. `getByte` answers a byte that is in the buffer as it is, and the
first of a refill (`Refilled`, `GetByteRefilled`) as the number that it is as a `char`
(`AsChar`), which is signed on x86: `High` are the bytes above 127, `xFF` is the one that
is -1 then, the number of `EOF`. A stream over bytes (`new_io2ReadBuffer`) never runs;
`readLine` and `getByte` take from its buffer, `readAll` takes nothing.

`out` is the `kio_t` of an output stream. Its functions are operators from a state
to the set of states that may follow, and call each other as in `stream.c`: `Write`,
`Flush`, `WriteFILE`, `CloseFILE`, `WriteEOL`. A write of a `FILE` may fall short,
which the code does not notice, or fail, which closes the stream. `whole` records
that neither has happened.

`ScriptLoader` reads one byte per step. `rd` has the locals of `readchunk` and of the
helper it is in (`Bytes_addQUOTE`, `Bytes_addCOMMENT`), `load` those of
`knh_InputStream_load`; a chunk may fail (`Eval`). Scripts are in UTF-8 and so have no
byte 255, which `io2_getc` would take for their end (`TextsAssumption`).

What is undefined stops the models: a `FILE` that is written after it has been
closed, or closed twice (`undefined`, `closes`). Abstractions: bytes are members of
a small set; no decoder is set; the back quote stands beside the two other quotes
under a name of its own.

## 4. The runs

| run | checks | shows |
|---|---|---|
| `heap_wide` | `TypeOK`, `LiveCountExact`, `Level1Honest`, `PointerCoherent`, `RetrySucceeds` | the counts, level 1 and pointers of classes of two words per segment agree through all scans and collections; an allocation that has collected succeeds if the collection found room, for a class whose level 1 is complete |
| `heap_objects` | `MarkedClosed`, `SegmentOwnedOnce`, `FreelistHasRoom`, `AllFinalized`, `ImplementsObjectStore`, `CollectionEnds` | with two classes that compete for segments and objects that refer to each other, allocator and collector are an object store; collections end |
| `heap_segment_overrun` | `HandOutInSegment`, violated | section 6 |
| `pool_exact` | `PoolExact` | the pool has exactly the constants that exist |
| `pool_immutable` | `ConstantsImmutable`, violated | section 6 |
| `maps` | `ItrTypeOK`, `ArenaPartitioned`, `ImplementsMap`, `IterationComplete` | maps of objects and pointer maps are tables; a loop misses no key that stays, even when the map is rehashed under it |
| `dictmap` | `TypeOK`, `SortedMapFinds`, `SortedInTime` | a dictionary finds all keys while its unsorted part is short, and stays so where entries are added by `set` or sorted |
| `exceptions` | `TypeOK`, `ChainIsNesting`, `AssuredAreListed`, `UnwindsInside` | handlers are chained as the open tries nest; assured objects are listed where a throw will check them out; what a script leaves open ends with its launch and hurts nothing around it |
| `exceptions_checkout` | `ChecksOutItsOwn`, violated | section 6 |
| `codegen` | `SinglePredecessor`, `FlagsHandedOver`, `CodeFits`, `CallsChecked`, `KeepsMeaning`, `GraphIsBuilt`, `PassesEnd` | the instructions of every method of up to three statements of the kinds that `Blocks` has, and of eight larger ones, do what the statements say after each pass; `incoming` is never too small, the marks of one pass are gone when the next needs them, the code written fits the size counted, the graph handed over is what the theorems about the passes assume, a call after a jump looks at the end of the stack; passes end |
| `methods` | `TypeOK`, `OneMethodPerName`, `CacheCoherent`, `SitesCoherent`, `FinalsKept`, `ImplementsLateBinding` | whatever was looked up, compiled and called before, calls are those of late binding until a definition of the name comes late, and just then the caches may answer something else |
| `streams` | `OutputInOrder`, `ReadsAreRight`, `ChunksInOrder`, `ReadsEnd` | what was written is in the file and the buffer, in order, until a write fails; lines, bytes and the rest are those of the file, however it comes, the first byte of a refill as a `char`; the chunks of a script are the script, with their line numbers; reading ends |

### Bounds, and why they are enough

* Heap. One word has 2 or 3 blocks (`Bits`, the first of a segment for its
  header), one segment has 1 or 2 words, so that the carry from the last bit
  to the next word, the end of a word that is full, the end of a segment and the
  sentinel all occur. `heap_wide` has a class whose level 1 covers both words and
  one whose level 1 stops after the first, as that of the 512 and 1024 byte
  classes stops before the last: there `ThrowOutOfMemory` happens after a
  collection that found room. A word of 32 or 64 bits has no further case, since the
  model treats all positions but the last and the header's alike, and the proofs
  cover all sizes.
  `heap_objects` has three segments, a pool of two and an expansion by one
  (`PoolSize`, `ExpandSize`): classes can drain the pool, meet at an expansion and
  abandon a rest. `MaxFields = 2` bounds the references that exist at a time; two
  make a chain or a cycle. The theorems hold for every value of these bounds.
* Pools. Two constants, one class with two segments: a constant that dies, is
  asked for again, and one that competes for its block.
* Maps. Four keys with hash codes that collide in 2, in 5 and in 11 buckets; an
  arena that begins with one entry and doubles twice (`MaxArena = 4`, at which
  insertions stop). The code begins with 83 buckets (`K_HASH_INITSIZE`), and grows
  by the same formula.
* Dictionaries. `UNSORTED` is 8 in the code and 3 here; three appended entries
  are the first that are bisected. Tables of up to three entries (`MaxTable`) and
  six keys reach both sides of it.
* Exceptions. Five slots (`MaxSlot`), so that a launch fits into a launch, with a
  try, a call or an assure in the inner one or around it; two handlers besides the
  default one, two assured objects, each checked in at most once at a time
  (`MaxCheckIns`). The run does not go on after a handler has been set a second
  time while open (`UntilShared`): no property says anything of what follows.
  States that differ only in the fields of a handler that is in no slot are
  explored once (`Seen`): those fields are set before they are read.

* Methods to compile. All with up to three statements of the kinds of `Blocks` (`MCMethodCompiler`) over two
  variables (without those that section 6 names, such as a `switch` with no default), and eight with loops in loops, cases that fall through, conditions in
  conditions and constant ones. `LoopFuel` and `StepFuel` end the execution of endless
  loops; the variables have four values together, so that eight turns are enough to
  come back to a state.
* Method tables. A chain of three classes, two names, up to three methods
  (`MaxMethods`) and one call in the code: a class between the receiver's and the
  method's; two entries of `mtdcache`, which classes and names share. The second
  name is there to compete for an entry: only the top class has it, and its call is
  the last.
* Streams. Buffers of two bytes for reading, of three or none for writing, lines of
  up to three bytes, four bytes written in all (`MaxWritten`): a line in three
  pieces, a line end and a CR at the end of a buffer, a text larger than the
  buffer, and one behind a part-filled one. All scripts of up to three of the nine
  bytes that `readchunk` tells apart, and seven longer ones.

Symmetry is used for segments, values, handlers and assured objects, which are
only compared, and never in a run with a temporal property. Deadlock is not
checked for dictionaries, exceptions, methods and streams: the tables of symbols and of `Object_Map`
are loaded once and then only read, and a process whose exception finds no handler
ends; the calls of methods end with the name `g`, and a stream that is closed twice or a script
that has been read has no next step. It is checked in the other runs; in the heap, `Stopped` stutters in the two
states in which the process has ended.

### Fairness

`heap_objects` states weak fairness of the steps of a collection
and of the allocation after it. These are calls of the thread that allocates;
nothing else runs in its context until they return, so that they go on for as
long as the thread is scheduled. No fairness is assumed of the program: it need
never allocate, store or end. `codegen` states weak fairness of the passes: they
are recursive functions of one thread, called one after the other. `streams` states
it of a call that has begun, and of the loader: loops in one thread around `fread`,
which returns, as files do not block. Nobody has to write, call or close.

## 5. The proofs

Assumptions on the constants, all of which TLC evaluates in the runs:
`GeometryAssumption` (a word has at least two bits, a class at least one word, no
more than the maximum, and level 1 covers no more words than there are),
`SegmentAssumption` (segments are finite in number, at least as many as the first
pool takes, and differ from `NoSegment`; pool and expansion sizes are numbers) and `BlockAssumption` (the two values that
stand for no block are none). Nothing is assumed of the number of classes,
segments, words, bits, or references. For the pools: `ConstantAssumption` (`Plain`, what
is no constant, is none). For the method tables: `ClassesAreTree` (being
above is an order, and of any classes above one class there is a lowest), `HashAssumption` (any
function to the entries of the cache) and `NoneAssumption`. For exceptions:
`BoundsAssumption` (the bounds are numbers, and the stack has two slots at least) and
`ObjectsAssumption` (`Null` is no handler). For streams: `BufSizeAssumption` and
`OutSizesAssumption` (buffers have sizes, the one for reading at least 1), and
`TextsAssumption` (texts and scripts are sequences of bytes, and `Null` is no byte).
For maps: `HashAssumption` (any hash function for keys that are objects; keys that are
not are their own hash codes, so that two of them differ; there are two buckets at
least, so that the first arena has an entry; `NoKey`, `StaleKey` and `NoValue` are
not what they stand for the lack of) and `PtrMapAssumption` (`MaxArena` is a number).
The bounds that keep TLC's instances finite (`MaxSlot`, `MaxCheckIns`, `MaxWritten`,
`MaxMethods`, `MaxArena`) are constants like any other: a theorem holds for each value.

### Object memory

| theorem | says |
|---|---|
| `TypesCorrect` | `Spec => []TypeOK` |
| `PointersCoherent` | `Spec => []PointerCoherent` |
| `SegmentsOwnedOnce` | `Spec => []SegmentOwnedOnce` |
| `ReachableIsMarked` | `Spec => []MarkedClosed` |
| `Level1IsHonest` | `Spec => []Level1Honest` |
| `CollectorIsAStore` | `Spec => ImplementsObjectStore` |
| `CountsAreExact` | `Spec => []LiveCountExact` |
| `FreelistsHaveRoom` | `Spec => []FreelistHasRoom` |
| `EverythingIsFinalized` | `Spec => []AllFinalized` |
| `RetriesSucceed` | `Spec => []RetrySucceeds` |

The argument. No property is inductive alone; the invariant has four parts:

1. `Types`: `TypeOK`, that a pointer's block and position agree unless it stands
   at a header (`Coherent`), and that block 0 of a segment, its header, is marked
   through all clearings (`HeaderMarked`). The last is why a pointer at a header
   never hands out its block.
2. `Owned`: segments belong to one class, free lists and pointers are inside the
   class's segments, and the pool is disjoint from all of them. Expansion is the
   step that needs it: it replaces the pool, and the new segments must be new.
3. `Tracing`: outside of the phase in which roots are not yet marked, roots are
   marked, and marked objects that are not on `ostack` refer to marked ones only.
   While the program runs, `ostack` is empty.
4. `Honest`: level 1 never shows a full word as having room in a part of a
   segment still to be scanned.

`AllocShape` reduces the four ways of allocating to one form: one bit of one
segment is set that was clear, the pointer moves, and the block of that bit is
handed out. `FoundPosition` says what the search over words and bits returns.
Each part of the invariant is then preserved by an allocation because of the
form, and by the remaining actions one by one. For `CollectorIsAStore`, all steps
but allocations are steps of `ObjectStore`, or leave the variables it has alone;
an allocation is `New(b)` because everything reachable is marked (the set of
marked blocks contains the roots and is closed under `fields`, and `Reachable`
is the least such set), while `b` was not.

The last four theorems build on the four parts. `LiveCountExact` is inductive with
them: a step that marks sets one bit that was
clear, and the cardinality of a bitmap grows by one. `FreelistHasRoom` needs
`Roomy` as well, whose first conjunct says that a class with segments has its
pointer in one of them: `newSegment` puts the new one under the pointer, and
`rearrangeSegList` takes the segment of the pointer out of the list. `RetrySucceeds`
follows from the counts: a list of segments with fewer marks than blocks has a
clear bit in each, level 1 shows it, and the search finds it. `AllFinalized` needs
`Placed`: what has a header lies in a segment that a class has taken, so that the
final sweep over the segments of the classes meets it.

The proofs hold for the code as modelled, including the pointer that is left
behind the last block (`AllocStale`, after which the process has left its heap
and the model stops): the theorems say nothing of what a write there destroys.

### Method tables

| theorem | says |
|---|---|
| `TablesTyped` | `Spec => []TypeOK` |
| `NeverTwice` | `Spec => []OneMethodPerName` |
| `CacheIsCoherent` | `Spec => []CacheCoherent` |
| `SitesAreCoherent` | `Spec => []SitesCoherent` |
| `FinalsAreKept` | `Spec => []FinalsKept` |
| `CallsBindLate` | `Spec => ImplementsLateBinding` |

The invariant `Inv` joins what none of them has alone. `Tables`: the arrays are
typed, have each name once, and the classes above a declared one are declared.
`Cached` and `CodeGood`: every entry of the cache and every compiled call is sound
(its method is in the array of a class above its own, under its name), and is right
unless its name is late; the class in an instruction is that of the method or has been
called. `FinalsKept`.

The heart is one step: a definition that makes a cached answer wrong is a definition
in a class between the class of the entry and that of its method. Either a declared
class lies below it, or it is the class of the entry itself, which is then renewed or, in
an instruction, has been called: in all cases but the renewal the definition is late. The same
for a call that goes to its method without lookup, whose receivers lie below the class of
the expression. `OneMethodPerName` needs `Cached`, since `METHOD_typing` asks the
caches whether the class has the method: an entry may be out of date, but the
entry of a class that has a method of the name is of that class, because
`knh_ClassTBL_addMethod` writes it there (`HitClass`, the mutant, is what goes wrong
otherwise). `FinalsKept` needs that the method found is the one that a scan finds.

### Constant pools

| theorem | says |
|---|---|
| `PoolIsExact` | `PoolSpec => []PoolExact` |

`PoolInv` is `Heap` (the parts `Types`, `Owned` and `Honest` of the collector's
invariant), the types of the pool, `PoolExact`, and `WaitsForMissing`: a constant
waits for its block only during a collection and before the retry, and the pool has no
entry for it all that time. The part `Tracing` cannot be used: a constant that the
pool answers may be unmarked (section 6), so that what the program reaches is not
always marked here. The pool is exact all the same, and the proof shows why: what
takes an entry out is the finalization of the block that is handed out, the same
step that overwrites it. Every step of `PoolNext` is one of the collector or leaves
its variables alone, so that the collector's lemmas carry over.

### Exceptions

| theorem | says |
|---|---|
| `StackTyped` | `Spec => []TypeOK` |
| `HandlersNest` | `Spec => []ChainIsNesting` |
| `AssuresListed` | `Spec => []AssuredAreListed` |
| `ExceptionsStayInside` | `Spec => []UnwindsInside` |

The invariant is `ChainInv`: the blocks are well formed (`Formed`), `UnwindsInside`,
and, until a handler has been set anew while its try was open (`shared`), `Nested`
and `Kept`.

* `Nested` is `Chained` (the handler of a block was set there, and its parent is that
  of the block around it, unless something was left by the way in between),
  `Innermost` (`ehdrNC` is the handler of the innermost block, with the same
  exception) and `Confined`. The last is what makes an exception stay inside when the
  chain is no longer the nesting: for every open launch there is a set of handlers,
  closed under `parentNC` up to the handler of the launch, that holds the innermost
  handler, and whose members were all set inside the launch. However a script left its
  tries, by `return`, `break` or a throw, the walk along the parents stops at the
  launch. The set is not a definition of the code; the proof gives it at each step.
* `Kept` is `Listed` (an open assure finds its object at the place of `stacklist`
  that counts from the end the assures above it in the same try) and `Counted` (an
  object is in the lists at most as often as it was checked in). `Counted` is an
  argument about cardinalities: each place in a list holds one object, and a check
  out removes a place and lowers a count.

The actions have three shapes, and each shape has one lemma per part: `Entering`
puts a try or a launch on the stack, `Leaving` takes blocks off without a throw, and
`Landing` cuts the stack down to the block that caught. The slots above the cut matter no more, and the
handlers, lists and marks below it are untouched; `Rewound` and `SameUpTo` say so.

### Maps

| theorem | says |
|---|---|
| `MapsTyped` | `ItrSpec => []ItrTypeOK` |
| `EntriesPartitioned` | `ItrSpec => []ArenaPartitioned` |
| `MapImplements` | `ItrSpec => [](spi \notin {"ON", "NN"} => ImplementsMap)` |
| `MapKeepsKeys` | `ItrSpec => []KeysKept`: which keys a map has, and how many, for all kinds |
| `IteratorComplete` | `ItrSpec => [](spi \notin {"NO", "NN"} => IterationComplete)` |

The kinds of map that two theorems leave out are those of which the property is false
(section 6), and the run `maps` has none of them.

Chains are paths through `next`, and what a path reaches is not a property of one
entry. The invariant therefore does not speak of paths. It says that there is an
assignment `w` of entries to lists (the chains and the free list) and a rank `r`, so
that the `next` of an entry is the entry of the highest rank among those of its list
that rank below it, and the head of a list the highest of all (`Lists`). From this
follows what a walk along `next` meets: each entry of the list once, by falling rank
(`WalkIs`, `FromIs`, `LinedCounts`), so that `Find` answers the entry of highest rank
(`LookupIs`). An operation on the links is one step of one form (`MoveKeeps`): an
entry leaves its list and goes to the head of another, above all that are there. An
insertion, a removal and a move to the head of a chain are three instances
(`PushLaid`, `DropLaid`, `TopLaid`). A rehash is not: it chooses new lists and ranks
each entry by its position (`FreshLaid`), which is also how the first arena is laid.

With the links go the contents, the parts of `Sound`:

* `Filled`: entries on chains hold a key of the map, entries of the free list look free,
  and but for the rules no two entries hold the same key.
* `Ranked`: of two entries for a key the one with the higher position ranks higher. It is
  needed because `hmap_rehash` orders chains by position and insertions by time: a rule
  that shadows another must still do so after a rehash. So the rules need that the free
  list gives out positions in rising order, which it does as long as nothing is removed.
* `Answers` and `Counts` tie entries to `promised` and to `size`.

`Seen` is the part of the iterator: of the keys the map has had since, those in entries
up to `index` have been answered. It is kept because of `Grown`, which every step of the
map satisfies: an entry of a key that was there before the step and still is was that
key's entry before, at the same position, rehash or not.

### Dictionaries

| theorem | says |
|---|---|
| `DictTypeCorrect` | `Spec => []TypeOK` |
| `DictSortedInTime` | `Spec => []SortedInTime` |
| `DictFinds` | `Spec => []SortedMapFinds` |

Assumed (`DictAssumption`): `strcmpr` puts keys in some linear order, no other key has the
`ukey` of a short one, `UNSORTED` is at least 1. The invariant is `DictInv`: no two
entries have the same key (`Different`), the entries hold what was set last and nothing
else (`Holds`), the sorted part is in order (`Ordered`), and `SortedInTime`. The symbols
are the one user that may let the tail grow to `UNSORTED` entries, where it is bisected,
so that for them the invariant adds that the tail is in order then.

Three arguments lead there.

* The bisection: an entry for the key in a range in order lies in the half where the
  round goes on (`HalfFinds`), down to a range of less than `UNSORTED` entries, which is
  scanned (`ScanFinds`). `IndexIs` shows that the recursion is well defined, `IndexFinds`
  is induction on the length of the range, by the set of the lengths up to which it is
  right. Short keys are compared by `ukey` only, which `DictAssumption` makes enough.
* The sort. `InOrder` puts an entry at the place that counts the entries before it. That
  no two entries count the same and every place is taken (`PlaceTaken`) is an argument
  about cardinalities; it makes the result a permutation in order (`InOrderIs`,
  `SortKeeps`).
* The steps. An append or a join of a table adds keys that were not there, a removal
  moves the entries behind down by one, and `sorted` with them if the entry was in the
  sorted part (`RemoveKeeps`): both relations, of the entries to each other and to the
  table, are lost if `sorted` is not lowered.

### Basic blocks

| theorem | says |
|---|---|
| `BlocksInvariant` | `BlocksSpec => []BlocksInv` |
| `BlocksSinglePredecessor` | `BlocksSpec => []SinglePredecessor` |
| `BlocksFlagsHandedOver` | `BlocksSpec => []FlagsHandedOver` |
| `BlocksCodeFits` | `BlocksSpec => []CodeFits` |

`BlocksSpec` is `GammaBuilder_compile` of one method: it begins with any graph that is
`Built`, of any number of blocks, and takes the steps of `Compile`. That the generator
hands over such graphs is `GraphIsBuilt`, which the run `codegen` checks for its methods;
it is the one assumption of these theorems.

Four passes run over the same graph, by recursion, and while one is under way the
marks of its blocks are mixed. `BlocksInv` says for each what the stack of activations
owes: a block that the pass has been to has successors it has been to, or will come to
from a frame on the stack. All but the first speak of a set `L` of blocks that is
closed under successors and holds the entry (`Closed`). It is not a definition of the code: a
pass takes over as `L` the blocks that the one before left marked (or unmarked), a join
takes a block out of it, a split puts a new one in. What can be reached is part of every
such set (`ReachedIn`), so that what the invariant says of `L` holds of `Reached`.

* `Strip0Inv`: every block was told of all edges that enter it, also those of dead blocks.
  A redirection takes one edge from a count and adds one to another
  (`EnterSwap`, `CountsKept`); a jump that becomes a fall-through moves an edge
  within its block.
* `Strip1Inv`: the same for the edges from `L` (`Counted`). A join is right because
  a count of one means one edge (`OnlyOne`): the block that is appended, and loses its
  instructions, has no other way in, and it is not the block itself.
* `SizeInv`: `codesize` is at least the instructions of the blocks marked. The blocks
  made for a jump were told of nothing, and their count stays at 0; `Laid` says what
  every marked block has behind it.
* `CopyInv`: what is laid out and what is still to be laid out, the RET with it
  (`Volume`), fits the room. One case is not so: a method that never ends, whose RET
  nobody counted, has one instruction too many until a first jump is taken away. `Early` lists the states before that:
  the first block falls into a block made for the jump, which jumps to a block not laid out,
  or jumps itself, so that this happens at the second or third block at the latest.
* `CopyRetInv`: then the RET is laid out, and `Volume` fits.

The lemmas about sequences and fields (`Put`, `Copied`, `Links`, `Flag`) turn the updates of
the code into what each field of each block is afterwards; the invariants are then
about these fields only.

### Streams

| theorem | says |
|---|---|
| `StreamsKeep` | `Spec => []StreamsInv` |
| `OutputArrives` | `Spec => []OutputInOrder` |
| `InputIsRight` | `Spec => []ReadsAreRight` |
| `ChunksAreRight` | `Spec => []ChunksInOrder` |

`StreamsInv` joins one invariant of each direction. `OutInv`: `Content`, the file
with what waits in the buffer behind it, is what was written, as long as no write
failed. Each function of the code is an operator from a state to a set of states, and one
relation, `Delivers`, holds of all of them: the file only grows, and the content gains
the text that was passed. `Delivers` composes, so that `println`, which calls two of
them, needs no invariant of its own. `ReadInv`: the buffer of the input stream
is the stretch of the file before its position (`Positioned`), and what the
running call has collected is the stretch from where the call began, which is empty for a
byte and for `readAll` of a stream that has never been open (`CallRight`). A
file that grows between two refills changes no stretch that was read, which is
what lets the two directions be joined.

`ChunksAreRight` adds an invariant of the loader, `LoadInv`, which holds while a script is
loaded. `ReadSoFar`: the bytes taken out of the stream (`Taken`), without CR, are the
chunks given and the one being read, and the line reached is one more than the ends of
lines in them; it is kept because a step takes a byte (`GetcTakes`), puts it into the chunk
and counts it (`ByteCounted`), or fills the buffer, which takes nothing. `Numbered` says it
of the lines given before. `Ended` says which chunks may end otherwise, at each place of
the loop; what it needs of `readchunk` is `InPlace`: when `prev` is a line end, the byte put last is
that line end or the end of a quoted text, never a byte of a comment, since a comment
leaves `prev` at the slash before it. `Text` and `NoCR` are joined sequences
(`FlattenSeq`); what one more element does to those is `FlattenAppend`, by induction on
the set of lengths that the recursive function inside has reached, and what one more byte does to the
count of lines is a fact about a cardinality (`LinesAppend`).

### Only model-checked

* `CollectionEnds`, `PassesEnd` and `ReadsEnd`: liveness under fairness is out of
  reach of the prover.
* `KeepsMeaning` and `GraphIsBuilt` of `MethodCompiler`, whose methods are built and
  executed by recursive operators.
* `CallsChecked` of `BasicBlocks`: it speaks of paths through the instructions laid out,
  and the invariant of the passes, which speaks of blocks, says nothing of those.

## 6. Where code and promises part

Each is a run whose counterexample TLC finds, and a finding in `PROJECT.json`.

* **An object after the last block** (`heap_segment_overrun`, bmgc.h:2072). A class
  that owns one segment is not rearranged after a collection. Its pointer is
  still behind the last block, and the allocation after the collection takes it;
  the assertion at bmgc.h:1743 says that this does not happen.
* **Constants change** (`pool_immutable`, number.c:98). A pool answers an object that
  the last collection found dead. It is not marked, so its block is handed out while
  the program holds it, and the number a program holds turns into something else.
* **A try that ends** (`exceptions_checkout`, asm.c:2454). The body of a try that ends
  without an exception leaves its handler the innermost. An assure around it checks
  out with the wrong list; konoha_vm.h:571 asserts that it does not.

Other disagreements met while modelling, which no run settles because no line of
the repository says what should happen: a throw inside a catch clause passes the
finally block of the same try by; `knh_VirtualMachine_launch` answers true
whether or not the method ended by an exception, because both ways end at
`KLR_EXIT`; a try that catches in a finally block ends the exception that was
being thrown, because there is one `ctx->e`; two nested launches may set the same
handler, the default object, and an exception of the outer one then jumps into
the ended frame of the inner one (`shared`).

More of the kind, which the models leave out or stop at, with the lines:

* Memory: the scan of the C stack takes a word for an object if its mark is set,
  and asks after all marks have been cleared (bmgc.h:999), so that it keeps nothing;
  in the model an object is held by a root or field from the moment it is handed out.
* Maps: setting a key that is there stores, in a `Map<String,Int>`, the unboxed half
  of the slot of the key (map.c:393). `HashMap` does the same for "ON"; the run `maps`
  takes the maps of objects and the pointer maps. The entry of a key that is not
  boxed gets the `.o` of its slot for a key (map.c:474), over the `nkey` in the same
  union that an iterator reads (map.c:630, 645). `hmap_top` asserts that the
  entry it moves has no next (map.c:258); `knh_PtrMap_get` calls it with any.
* Dictionaries: `Object_Map` (class.c:2282) and the short names of classes
  (class.c:356) are appended without a sort; from the eighth on, keys that are there
  may not be found. `SortedMapFinds` says so: it speaks of the others.
* Code generator. A switch without default whose cases all return drops what is behind
  it (typing.c:3869, 3920), although `ac/statement/switch.k:80` counts on the statement
  behind a switch without a match. `x = !y; if(z) ...` and `x = (a == b); if(z) ...`
  lose their first statement to `asmJMPF`, which takes the last instruction of the block
  for a part of the condition (asm.c:161). Of two equal instructions in a row the second is
  dropped (asm.c:140), also of two that are not idempotent. Code after `break` or
  `continue`, or a `do` whose body ends in one, has no current block. `continue`
  passes the condition of a `do` by, evaluates a switch again, and outside of a loop
  begins the method anew. The parts of a `for` whose condition is constantly false are
  left untyped. A finally block is compiled twice, and the second copy reads
  registers of the first (asm.c:2101). A call without arguments does not look at the
  end of the stack.
* Method tables: an override that is defined after its class was the receiver of a
  call, or while classes below it exist, is seen by some calls and not by others,
  depending on what the caches still hold (class.c:1330, asm.c:847); a final method
  added to a class does not undo one below it. The tests (`ac/lang/dynamicbinding.k`,
  `ac/lang/methodaddition.k`) define before they call. Operators and overloads are
  appended without a look at what is there; of two with the same name a scan finds
  the first and the cache has the last (typing.c:4204).
* Streams: closing an input stream that has read something writes the bytes read, and
  closes the `FILE` twice (stream.c:452); so does closing an output stream whose last
  flush fails. After a failed write, writing goes on into the buffer and then into
  the closed `FILE`. A stream that is collected is closed without a flush. `readLine`
  drops a last line that has no line end, and leaves its bytes in the `CWB`
  (stream.c:542); on a stream over bytes it returns all the rest as one line.
  `io2_read` compares the wrong way round (stream.c:487): it is right only when the
  buffer holds just what is asked for. `getByte` answers a negative number for a byte
  above 127 that is the first of a refill, and for 255 the same -1 as at the end, though
  the stream runs (stream.c:474); `ReadsAreRight` names this exception, and says that only
  the first byte of a refill is concerned. `readAll` of a stream over bytes returns
  nothing and leaves all of it unread (stream.c:556; packages use it so, msgpack.c:251 and
  json.c:661). An escaped back slash, an
  apostrophe in a `//` comment and a one-line block make `readchunk` join chunks, which
  loses nothing; an odd number of quotes in a text in triple quotes may split it at a
  blank line. After a quoted text `prev` is still the byte before it (script.c:1037), so
  that a line of quoted texts alone, from its first column on, ends a chunk as a blank line
  does: a list of texts over several lines is then parsed without its closing bracket.
  `ChunksInOrder` says so (`EndsLine`).

## 7. What is not modelled

In the modelled components: what section 3 names under abstractions; objects, arithmetic and foreach in the
code generator, most of its peephole and of the type checker; getters and setters made by a lookup, constructors, operators,
overloads and private methods (`KNH_TODO`); sockets, descriptors, decoders and `io2_read`; encoders (`io2_writeMultiByteChar`, stream.c:595, is
a `KNH_TODO` that writes past the buffer); the move of pointers when the arena of a map is reallocated
(`hmap_shiftptr`); iteration over dictionaries by index; the size limit of the
pool of strings; the classes of events and the texts of exceptions; the growth of
the stack.

The other components, each with its reason, are listed in `PROJECT.json`. In
short: planned are the threads, the tables and the write buffer;
the tokenizer and parser, and the types of the type checker, are recursive functions over text
and syntax trees, for which small instances show little; packages, drivers and
logging are input and output; the back ends and collectors by option replace
modelled components.

The collector runs in one context here. In the code, `stop_the_world` is a stub,
the context of a new thread has no local memory (context.c:376), and the locks
around the tables are empty macros (`OLD_LOCK`, konoha_t.h:507), so that a collection in a process with
several threads has no protocol to model; start, join and close have one, and are
next in the plan.

## 8. Plan

Written: `BitmapGC`, `ObjectStore` and their proofs, since every other component
rests on memory; the maps and the dictionaries, which every table is made of, with theirs;
`ConstantPool`, the first composition; `Exceptions`; the code generator, with the proofs
about its passes; the method tables; the streams and the loader of scripts.

To come, in this order:

1. Proofs: `CallsChecked` in `BasicBlocks`, with an invariant that ties the blocks to the
   instructions laid out for them.
2. The stack as roots: `Exceptions` composed with an object store, so that slots
   above the stack pointer, which are traced up to `esp + 8` and never cleared, may hold dead
   objects; handlers that are in no slot.
3. Threads: contexts that are spawned, joined and closed, and the wait at exit
   (`check_allThreadExit`, konoha.thread), with safepoints and signals.
4. Tables: class ids and generics over growing tables; the cache of type maps, whose
   new entries nothing traces (class.c:1846).
5. The shared write buffer and its positions, growth of arrays.
6. The fastmalloc free lists; the search by masks against `LowestClear` over all
   words of a few bits.
