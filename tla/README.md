# Verification of wasim and wopt

TLA+ models of the parts of this repository that are concurrent or keep
intricate state, the TLC runs that check them on small instances, and TLAPS
proofs of what matters most for every instance.  Paths are relative to the
root of the repository.

## 1. The system

wasim reads WebAssembly modules, in the binary and in the text format; wopt is
an optimizing back end under construction; base holds what both use.
`wopt/base` is a copy of `base`, `tracy` a vendored profiler.

| Component | State it keeps | Operations | Modelled by |
| --- | --- | --- | --- |
| Type interner (`wopt/wopt_type_interner.odin`) | hash table of chained cells, stripe mutexes, one arena, an arena slice per thread | `type_interner_new`, `_intern`, `_load`, `_thread_arena_alloc` | `TypeInterner`, `Interning` |
| Parallel binary reader (`wasim_binary.odin`, `base/thread.odin`) | lanes, a barrier, a word of shared memory, the module, lists of diagnostics, a one shot event | `bin_read`, `bin_read_entry_point`, `lane_sync`, `lane_sync_value`, `lane_range` | `BinRead` |
| Arena (`base/arena.odin`) | chain of memory blocks, positions, guards | `arena_alloc`, `_destroy`, pushes, `arena_pop`, `_pop_to`, `_clear`, `_temp_begin`, `_temp_end`, the allocator's resize | `Arena` |
| Builder and module (`wopt/wopt_build.odin`, `wopt/wopt.odin`) | functions with flags and bodies; per thread the function, block, values and control value being built | `function_add`, `module_freeze_for_build`, `build_*` | `Builder` |
| SSA verifier (`wopt/wopt_ir_verifier.odin`) | none | `ssa_verify_function` | `Builder` |
| Byte readers (`wasim_binary.odin`) | offset and scope in the input, diagnostics | `bin_scan_module`, `bin_read_*` | `BinReaders`, `BinExpr` |
| Expression decoder (`wasim_binary_expr.odin`) | lists of instructions and extras in a temporary arena | `bin_read_expr` | `BinExpr` |
| Text parser (`wasim_text_parser.odin`) | current and next token, number of errors, the syntax tree | `tex_par_*` | `TextParser` |
| Handle map (`base/dynamic_handle_map.odin`) | slots with generations, unused list, iterators | `hm_*` | `HandleMap` |
| Temporary arenas of a thread (`base/thread.odin`) | two arenas per thread | `TEMP_ALLOCATOR_GUARD` | guards in `Arena` and `BinExpr` |
| Text tokenizer (`wasim_text_tokenizer.odin`) | position in the input | `tex_tok_*` | not modelled |
| Float literals (`wasim_text_parse_float.odin`) | none | `parse_float` | not modelled |
| ABI lowering (`wopt/wopt_abi.odin`, `wopt/wopt_amd64.odin`) | registers and stack used so far | the ABI procedures | not modelled |
| C interface, printers, opcode tables, timers, tools | | | not modelled |

How they interact: every component allocates from arenas.  The builder interns
types through its thread's slice of the interner's arena.  Lanes of the binary
reader share the contexts that lane 0 puts into its temporary arena, and hand
each other values only through `lane_sync_value`.  Functions are shared between
builder threads; their flags are the only synchronisation.

What is hard here: the lock free search of the interner beside insertions; lanes
that must take the same branches between barriers; memory of one thread used by
another; positions of guards that survive growth of the arena; and API contracts
that only asserts defend.  `PROJECT.json` lists these hazards one by one with
the properties that watch them.

What makes each component correct:

- interner: equal keys get equal ids, different keys different ones, what was
  published stays, every call returns;
- binary reader: nothing of the file is dropped, read twice or torn, all errors
  come back, all threads end before their memory goes, the call returns;
- arena: live allocations are disjoint, aligned and inside committed memory, the
  end of a guard restores the position at its beginning;
- builder: one thread builds a function, once; a body the verifier passes is
  well formed;
- byte readers and expression decoder: every failure is reported, a file without
  diagnostics was read completely, blocks are nested as their ends say, the
  lists are not used after their memory was freed, reading ends;
- text parser: it accepts its grammar and nothing else, drops nothing, and ends;
- handle map: a handle leads to its item, one of a removed item to nothing, and
  an iteration returns every item once.

## 2. The modules

A comment `Mutant:` marks an operator that is a wrong version of the one below
it.  The specifications do not use it; it is there to see that the properties
notice the mistake.

### TypeInterner, and what it promises: Interning

One thread's call of `type_interner_intern` is a path through `pc`: an acquire
load of `next` (`LoadNext`), one hash after the other (`Find`, `Compare`), then
the stripe mutex (`Lock`), the search under it from the cell where the first
search ended (`CheckHit`, `CheckMiss`), allocation and filling of the type
(`AllocType`, `AllocMembers`, with `RefillArena` when the thread's slice is
used up), and the store into a free slot (`Place`, `Publish`) or into a new cell
(`CellFull`, `LinkCell`).  Cell `n` of chain `c` stands for the n-th cell of the
list at `i.cells[c]`.  Memory is counted in units of `align_of(Type)`, so an id
is an address relative to the arena, as in the code.  Keys are opaque; `RawHash`
is arbitrary, so any collisions can be had, also a digest of 0.

Each load or store of the search is a step.  Steps are sequentially consistent:
the code uses acquire loads and release stores for what it publishes, and the
properties are about data published in this way.  Under the mutex the slots of
one cell are searched in one step, as no other thread can change the chain.

`Interning` is the abstract table: a set of (key, id) pairs and calls that are
pending, take effect in one step and return.  `TypeInterner` implements it with
`Entries` (the published slots) for the table.

Not modelled: hash computation, ids beyond 32 bits, running out of memory.
`ArenaSize` and `MaxCells` bound the model.

### BinRead

The calling thread starts the lanes, waits for the event and joins them.  A lane
is at or before one synchronisation call (`point`), in one of the stages the
module describes: the code before the call, the store into shared memory, the
first barrier, the copy out of it, the second barrier.  The barrier is the
generation counting one of `core:sync`, modelled from its use.  The file is
abstracted to what the scan finds in it (`FileRecord`): success, the kinds of
the sections, the bodies, and which parts make their reader report errors.
Assigning a slice takes two steps, so that two lanes reading sections of one
kind can interleave.

Reading one section or body is one step, but not one that always ends: the
record of the file says of each part whether its reader returns, loops or panics
(`Ending`).  That readers of expressions do loop (the input stops inside one) or
panic (an `else` that no `if` is open for) is what `BinExpr` shows.  A lane whose
reader loops has no further step, and the others wait for it in the next barrier;
a panic ends the process.

### Arena

`blocks` is the chain of Arena headers from the root to `a.curr`, with their
`base_pos`, `used`, `reserved` and `commited`.  `live` and `guards` belong to
the client: what it allocated and still uses, and the positions of its open
guards.  The client keeps to the discipline of a stack: it pops what it
allocated last and inside the same guard, and it clears or destroys the arena
outside of guards.  With `ResizeOuter` it also resizes what it allocated before
the innermost guard.  A failed assert is recorded in `failed`, and the code goes
on as in a build with asserts disabled.

Blocks come page aligned from the system and alignments are at most a page, so
aligning an address is aligning the offset.  Contents of memory and sanitizer
poisoning are left out.

### Builder

The module with its functions, and a `Thread_Build_Context` per thread.
`build_function_end` is four steps, because `function.flags += {._Build_Done}`
reads and writes the flags without atomicity.  Block and value ids are positions
in the arrays without their zero element.  The client passes arbitrary
ids and calls in any order, in a block or not, as the code does not check it.  A
value that is added outside of a block goes into `block_values`, which then is
the list of a block that was closed and has its copy, or that of an earlier
function in memory that was freed: the value is in no block, and the verifier, which
goes from block to block, does not see it (`wopt/wopt_build.odin:139`).  Setting
the control value without a block dereferences a nil pointer, and with the block of
an earlier function writes through a dangling one.  The field `block` of a value
is a history variable, the block it was built in; the code has none.  A
panicking assert stops the program.

The context is not cleared between functions: a block that is left open, the
control value and (until a function is begun) the start block survive.  A block
for which no control value is set therefore gets the one last set, possibly for
another function, and the verifier accepts it when the id names a memory value
(`wopt/wopt_build.odin:116`); `VerifiedComplete` says no more than that the
control value of a verified block is a value of its body.  It says that the
blocks of a verified body list the values that were built in them, each once,
and that their ids are those of values of this body; it promises nothing of a value
that was built in no block.

The verifier is `Verify`, the set of errors it reports for a body.

### BinReaders and BinExpr

`BinReaders` has an operator for each reader.  It takes the bytes and the offset
and gives an outcome: whether it is ok, the new offset, the ranges of the errors
it reports and the fields that must be read next (`more`), which is how vectors,
records and the loop of `bin_scan_module` unfold.  Numbers are decoded as LEB128
with the width checks of the code; the search for their last byte is that of
`core:encoding/varint`.

`BinExpr` is one lane that reads one section, one body, or scans a file.  `todo`
are the fields its callers have still to read; each step reads one, and the
first that is not ok ends everything, as every caller returns then.  An
expression is read by the loop of `bin_read_instructions_until`: `ReadOpcode`,
then the operands (`SimpleInstruction`), or a nested call (`EnterBlock`,
`EnterElse`) that is a frame of its own and returns with `ReturnBlock`,
`ReturnIf`, `ReturnElse` or `ReturnExpr`.  Every frame is a guard on the one
temporary arena in which the two lists grow by chunks; `mem` keeps, in units of
elements, what is in use, where the chunks end, and whether a chunk that a guard
has freed was used (`wild`).

Two defects bound what is promised, and the properties except exactly them.  A chunk
that is added inside a nested call is freed when that call returns, and the
list keeps using it (`wasim_binary_expr.odin:98`), so lists longer than their
first chunks (64 instructions, 256 bytes of extras) live in memory that others
overwrite; `FirstChunksOwned` says that shorter ones are safe, and nothing of
longer ones.  An input that
stops inside an expression is read forever (`wasim_binary_expr.odin:102`), with
a diagnostic and an instruction in every round; `EndsUnlessStarved` shows that
this is the only case, and the theorem `StarvedForever` that it is one.  Three smaller
ones: an `else` without `if` runs into
`unreachable()` (line 116), which counts as an end; bytes behind the last field of
a section are ignored; and the positions of a block follow the extras of the
instructions inside it, while the table in `wasim_wasm_.odin:136` lists them
directly behind the block type.  `StructureRecovered` takes the order of the code,
that of the ends; the run `bin_expr_layout` checks the documented one.

### TextParser

The parser over a sequence of tokens.  `todo` is what the open procedures have
still to do, innermost first; a step takes its head and may put in front what a
called procedure does.  Of the syntax tree only the numbers of functions and of
value types are kept.  The token kinds are those the parser tells apart; all
value types are one kind.

The grammar it is compared with is an automaton (`Edges`, `Closure`,
`WellFormed`) that shares nothing with the actions.  It describes what the
parser accepts, which is more than the text format: any token, even a
parenthesis, is taken for the index of a type use, and `(param $x)` without a
type is accepted and dropped.  An invalid module field is reported and not
skipped, so the loop over the fields never ends (`wasim_text_parser.odin:172`);
`EndsUnlessStuck` excepts this case and shows that nothing else loops, and the
theorem `StuckForever` that this one does.  The model has asserts enabled:
line 249 calls `tex_par_paren_kind_begin` inside one, so without asserts a type
use would not be consumed.

### HandleMap

`items` and `unused` are the arrays of the map, `index` the iterator.  The
client keeps all handles it got (`given`) and uses old ones too; an item is the
number of its addition, so that one can say which item a handle should lead to.
Generations wrap at `Width`, as unsigned integers do.  Slot numbers fit into the
handle (`WidthAssumption`); the code truncates those that do not.

`status` records two calls after which less can be promised.  `hm_remove` of the
zero handle frees slot 0, and `hm_clear` drops the zero value with all others:
the next item gets slot 0, `hm_iterate` skips it, and its handle is still found
after it was removed, because index 0 is also the mark of an unused slot.  The
properties that would fail then say so: handles from before a clear, and slot 0
after one, are outside of what they promise.
`hm_iterator_make_all` says that it also iterates the zero value; `hm_iterate`
skips it as it skips every slot with index 0.

## 3. The runs

| Run | Instance | Shows |
| --- | --- | --- |
| `type_interner` | 2 threads, 3 keys of one chain, 2 of them with equal hashes, cells of 2 slots | the invariant of the proofs; one id per key; a published type is complete; entries are forever; the interner implements `Interning`; every call returns |
| `bin_read` | 3 lanes, 11 files, 4 of them with parts whose reader loops or panics | lanes agree on every shared value and meet at the same barrier call; no use of freed memory; all diagnostics and a complete module come back, and nothing half read; for every file whose readers return all lanes end, and for every such file that scans the call returns |
| `bin_read_returns` | 3 lanes, the 7 files whose readers return | **violated**: `bin_read` never returns when the scan fails |
| `arena` | page 4, header 2, up to 3 blocks, 2 guards, 3 allocations | the chain of blocks is intact; live memory is disjoint, aligned, committed; guards separate and restore; both asserts hold |
| `arena_aligned` | alignment 4, larger than the header divides | **violated**: a push does not fit into the block made for it |
| `arena_resize_outer` | resize of an outer allocation | **violated**: a guard ends at a position the arena has not reached |
| `builder` | 2 threads, 2 functions, a body of up to 2 blocks and 3 values, or 3 blocks and values in two | a function has one builder, its body is final, and the blocks of a verified body list what was built in them |
| `bin_expr` | 19,124 inputs, chunks of 4 elements | every failure is reported; the structure of an expression is recovered; lists in their first chunks are safe; reading ends unless the input stops inside an expression |
| `bin_expr_silent` | as above | **violated**: no diagnostic, and yet not all was read |
| `bin_expr_layout` | the same inputs, chunks of 16 elements | **violated**: the position of a block is not behind its type in the extras |
| `text_parser` | 14 modules, their beginnings and all files one token away | accepted exactly if in the grammar, nothing dropped, ends unless a field is invalid |
| `handle_map` | 3 slots, 4 generations, 6 additions | handles lead to their items, old ones are rejected, the unused list is right, the zero value stays, iterations are complete |

Why the bounds are enough for the cases that matter:

- interner: three keys in cells of two slots need a second cell; equal hashes
  make `Compare` fail; a slice of 5 units holds one or two types, so refills
  happen between any two allocations; two threads suffice for a race on a
  chain, and the proofs cover any number;
- binary reader: with three lanes one can run ahead while another is behind and
  the last is in the barrier; the files have no section, fewer sections than
  lanes, a remainder, repeated kinds read by one lane and by two, no, one and
  two code sections, bad parts of each kind and a scan that fails; a reader that
  loops or panics does so in either round, first and last of its lane, beside
  lanes that go on and beside each other;
- arena: a request of 5 is larger than the first block; one of 1 leaves gaps for
  alignment 2; three blocks and two guards let a guard be opened before, at and
  after a block boundary;
- builder: two threads and two functions let a thread go on to the function
  another has just finished; two blocks and three values allow a value in the
  wrong block or in none, a return of any other value and a block left open.  The
  constraint `FewValues` counts a body once, while it is built or when it is
  written: five blocks and values as long as one function is begun, which lets a
  body of two blocks with a return in one of them pass the verifier, and three
  when both are, as threads share only flags, and functions that a thread builds
  in turn only the block, the control value and the start block it left; all
  functions are added and the module frozen before the first block or value;
- expressions: all strings of five bytes over the bytes that open, divide and
  close blocks nest two deep and have every misplaced `else` and `end`; strings
  of three bytes reach every kind of operand; longer ones are there for numbers
  of the largest width, tables and floats; chunks of four elements are outgrown;
- parser: the modules have every construct of the grammar, empty, once and
  twice; one token more, less or other is every single mistake, and beginnings
  end inside every construct;
- handle map: six additions take one slot through all four generations and back;
  two slots besides the zero value let one be free while the other is in use.

Deadlock is checked for the interner and the arena.  The other models stop:
`bin_read` after it has returned, a builder after a panic or when the bounds
are reached, a reader or parser at the end of its input, a handle map when it is
destroyed.

### Fairness

`TypeInterner!FairSpec` asks that a thread inside a call keeps running, weakly
fair; nothing is asked of the start of calls.  `BinRead!FairSpec` asks the same
of the calling thread and of each lane.  Both are threads of the operating
system, and no step of theirs is disabled once it is enabled, except taking a
mutex.  A thread may find the stripe mutex taken again and again, but only as
often as other threads add keys, and these are finite in the instance.
`BinExpr!FairSpec` and `TextParser!FairSpec` ask that the one sequential thread
takes its next step.

### Disagreements found

1. `wasim_binary.odin:749`: after a failed scan no lane signals `done`, and
   `bin_read` hangs; `examples/decoder/decoder.odin:36` expects the diagnostics.
2. `base/arena.odin:98`: a new block has no room for the padding of an
   alignment that the header size is not a multiple of (assert at line 122).
3. `base/arena.odin:258`: a resize inside a guard can pop an allocation made
   before it (assert at line 166, when the guard ends).
4. `wasim_binary_expr.odin:258`: `bin_read_expr` never sets its result, so the
   readers of globals, elements and data give up after the first expression
   without a diagnostic; `examples/decoder/decoder.odin:35` takes no diagnostics
   for a module that was read.
5. `wasim_binary_expr.odin:130`: the position of the body of a block is pushed
   behind the extras of the instructions inside it, and `wasim_wasm_.odin:92` and
   `136` list it directly behind the block type; a reader of the extras that goes by the
   list takes an operand for a position.

One more is in the model and has no run: `base/arena.odin:38` does not store its
flags (nor does `NewBlock`), so `.No_Growing`, which the interner asks
for, has no effect, and such an arena grows.

## 4. The proofs

For every number of threads, keys, cells and every hash, from the assumptions
named in `TypeInterner` (constants are naturals, sizes positive, `NoneKey` is
not a key):

- `TypeInternerProofs` proves `Inv` inductive (`InvHolds`) and derives from it
  `TypeCorrect`, `UniqueIds` and `CompleteWhenPublished`;
- it also proves that the interner implements `Interning` (`Implements`) and that
  entries are forever (`Forever`).

`OneIdPerKey` is not inductive by itself.  The argument needs, as conjuncts of
`Inv`: that a stripe mutex has the owner its holders think (`MutexInv`); that
every cell but the last of a chain is full (`FullInv`), so a thread that saw a
`next` pointer has passed a cell in which nothing can appear any more; what a
search has excluded so far (`SearchInv`): the key is in no cell before the
current one and, when `next` was seen before the slots were searched, in none of
the slots of the current cell that the search has passed; that a
thread about to add is at the last cell and, under the lock, has not found the
key there (`AddInv`); that a type being filled belongs to one thread (`FillInv`); and that
the blocks of the threads are disjoint and below `top` (`ArenaInv`), so that a
new type lies at an id no entry has.  The refinement takes the step that stores
the hash, links the cell or reads the matching id as the moment a call takes
effect.

That calls return is a matter of the scheduler, but what the code has to add to it
is proved.  A locked stripe mutex is always owned by a thread between its lock
and its return, for a key of that stripe (`EveryReturnUnlocks`, from the invariant
`Held`), so a thread that waits waits for one that does not
(`StripesDoNotDeadlock`).  And a step takes a call forward, to a later part of the
procedure, a later cell or a later load, or takes a block of the arena, whatever
the other threads do (`CallsGoForward`).

`BinReadSync` proves for any number of lanes and any file that the lanes meet at
the same barrier call (`LanesMeet`), agree on the locals they branch on
(`LanesAgreeAlways`), and that neither a context nor the frame of `bin_read` is
used after it is gone (`NothingDangles`).  The file alone decides which branches
a lane takes (`Way`), so the next barrier call of a lane is a function of where
it is (`Call`).  The invariant `IInv` says that all lanes have the same next
call or wait in it (`SameNext`): what a lane does on its own keeps its next call,
and the last lane to arrive moves all of them on at once.  It follows that
lane 0 never stores a value while another lane still has to copy the one before
(`SharedInv`), and so that the locals of a lane are those the file prescribes at
its place (`LaneOK`), which in turn keeps the lane on its way.  `BarrierInv`
ties the generation of the barrier to the lanes it holds, `MainInv` the calling
thread to the lanes it started and joined.

It also proves where the reader can stop.  `LaneWaits` and `MainWaits` say, thread
by thread, what each is blocked by.  When all are blocked and nothing has
panicked, either all lanes have ended, and `bin_read` has returned or the scan has
failed, or a lane is in a reader that loops (`NobodyStuck`).  After a failed scan
it never gets past the event (`FailedScanHangs`, for every file whose scan fails:
the disagreement that `bin_read_returns` shows on three lanes).  `EventInv` is what this
needs in addition to `IInv`: the event is signalled only behind a good scan, and
then before lane 0 ends.  Every step takes one thread forward in its program, and
none back (`StepsForward`).

`BinReadResult` goes on from `IInv` to what the lanes have read.  The ranges of
`thread_distribute_values` cover every value exactly once, for every number of
values and lanes (`LaneRangesPartition`).  The invariant `RInv` says of every
part of the file whether it has been read already, as a function of where the
lane is that the part belongs to (`Stored`, `Finished` and `Decoded`): the
fields of the module and the bodies are those of the parts read and no others
(`FieldsOK`, `CodesOK`), and a lane has reported exactly the bad ones among
them (`ReportsOK`).  When the lanes are past the last barrier, every part is read,
by a reader that has returned (`EndsOK`), and the module is complete
(`ModuleIsComplete`).  The list that `bin_read`
returns is put together by a recursive function over the lanes (`CollectedTo`);
that it has the reports of every lane, each once (`DiagsOK`), is proved by taking
the least number of lanes for which it would not, and gives
`DiagnosticsAreComplete`.

`BinExprProofs` proves for scopes of any bytes and length, and first chunks of any
size, that readers and decoder stay in the scope (`DecoderTypes`), that a section
without expressions is read to the end or has a diagnostic (`DecoderReports`),
and that the first chunks of the lists are never used after they were freed
(`DecoderOwnsChunks`).  Each reader has a lemma that its outcome is one that
stays in the scope (`Outcome`) and fails if and only if it reports (`Honest`); the
numbers of a table are a recursive function, treated as above.  The
invariant `EInv` has what this needs of the decoder: the anchor of every open
call is behind it, so that the range of an error is one (`CallsOK`); every open
call has its guard behind the first chunks, so that the end of the guard does
not free them; and a list that fits into its first chunk has no other (`MemOK`).

That an expression read without errors has the extras that matching its
blocks, elses and ends gives, in the order of the ends (`DecoderRecovers`), needs an invariant about the calls,
`SInv` (`DecoderFollows`): as long as nothing was reported, there are as many open
calls as open blocks, the call at depth i has the position of the last block opened
at that depth and of its else (`Opened`), every else and end belongs to a block
(`Owned`), and the extras are already those of the opcodes read so far (`Nested`).
Matching an opcode looks only at those before it, so one more opcode adds its own
entry and changes no other.  The invariant also bounds the instructions by the
bytes read, so the bound of the model on a starved input does not limit any other.

Every step of a reader or of the decoder takes bytes, leaves less to read, or
ends, unless the input has ended inside an expression (`DecoderAdvances`): `Left`
counts the steps an expression still has, and a record is replaced by fields that are
no records.  Such an input is never left again (`StarvedForever`).

`ArenaProofs` proves every property that the run `arena` checks, for every size
of page, header, block and allocation and any number of blocks, guards and allocations, provided
that the arena is `Suited`: the alignments divide the size of the header, only
allocations of the innermost guard are resized, and the first block is reserved
for at least a header and what is committed.  The first two conditions are those
of the disagreements 2 and 3 above: the runs show that the asserts can fail
without them, the proofs that with them the asserts hold for a client that pops
as the model's does.  The invariant `Inv` is one of a chain, guards
and allocations, so that it can also be stated of the chain in the middle of a
resize, when the last allocation is popped and not yet pushed again.  It adds to
the checked properties that reserved sizes are whole pages (`BlockOK`), that
every position up to the end has a block that `arena_pop_to` stops at
(`Locates`), that the position of a guard is never inside a header
(`OutsideHeaders`), as popping to it would cut the header, and that guards are
ordered (`GuardsOK`).

`HandleMapProofs` proves all properties of the handle map, for every width and
every number of slots and additions.  Its invariant `IInv` adds to the checked
properties that a slot in use has its own number in its handle (`SlotOwn`), that
the unused list stays inside the map (`FreeInside`), that what is in a used slot
is the live item with its handle (`UsedLive`), and what an iteration has behind
it (`Visited`) and before it (`Unvisited`).  That old handles are rejected needs
in addition that the generation of a slot counts its reuses modulo `Width`
(`Generations`).

`BuilderProofs` proves for any number of threads and functions, and bodies of
any size, that a function has one builder and a body is written once.  The
invariant `BInv` says why the update of the flags that is not atomic does no
harm: from the moment a thread is let in until the flag is set, the flags are
`{In_Progress}`, and what the update has read is still there (`Exclusive`); a
thread that comes second adds a flag that is there already and panics.  A body
is there only if the function is done or about to be marked (`Written`).
A second invariant, `CInv`, is about the contents of bodies.  While a function is
built, every value that was built in a block is in exactly one list, that of its
block or, for the open block, `block_values`, and every other value is in none
(`Listed`); so a body in which no block was left open lists every value of a block
once and there (`Whole`), and the verifier reports a block that was.  The
errors of a function that is done are those of the body it has (`Verified`),
as nobody writes to it any more.  From it follow the types (`BuilderTypes`) and
that what the verifier accepts is such a body, with ids that are its own
(`VerifiedBodies`).

`TextParserProofs` proves for every input, of any length, that the parser ends
without an error exactly on the modules of the grammar (`ParserAccepts`) and
keeps every item it read (`ParserKeepsAll`).  The grammar is an automaton
(`After`, `Run`), the parser a stack of procedures that have not returned, and
the invariant `PInv` connects them: what the open procedures have left to do
determines the states the automaton can be in after the tokens read so far
(`Reached`), taking into account that the parser has read one token more than
it has used.  Where a list has to end, the next token is a parenthesis that
takes the automaton to one known state, or the file is malformed (`Closes`).  An
error is reported only when the automaton can accept no more.  The functions and
values stored are as many as the tokens that begin one (`Kept`).  A step takes a
token or leaves less to do, unless the parser is at a field that is not a function
(`ParserAdvances`); there it stays, with an error (`StuckForever`).
`Run` is a recursive function, and what it computes is proved
by taking the least position where it would fail.

Model-checked only: liveness (`CallsReturn`, `LanesExit`, `ScannedReadReturns`,
`EndsUnlessStarved`, `EndsUnlessStuck`), which needs fairness and `ENABLED`.  The
part of it that is safety is proved for each: no step goes back, and who is
blocked waits for someone who is not.  What remains for TLC is the step from there
to "eventually", and that the predicates for being blocked are right about when
an action is enabled.

The induction theorems of the library take an operator as a parameter, which the
installed provers cannot instantiate; where the proofs above need induction they
use instead that a set of naturals that is not empty has a least element.

## 5. Not modelled

- Text tokenizer: a scanner without shared state over character classes, tested
  token by token in the repository; a model would repeat its tables.
- Float literals: the hard cases depend on the real widths of the arithmetic.
- ABI lowering, struct layout (`type_key_struct_simple`): pure computations on
  types, under construction.  A member of type Memory or None has alignment 0,
  which `align_forward_int` does not accept (`wopt/wopt_types.odin:66`).
- Release of contexts and modules: bodies live in the arena of the context that
  built them, and freeing it leaves the module with dangling bodies
  (`wopt/wopt_build.odin:53`).
- Temporary arenas: the choice between the two of a thread; no caller passes an
  allocator to avoid.
- `bin_reader_push_data` and its guard: no caller.
- The base offset of a scope, which is taken before the header of a section or
  body is read (`wasim_binary.odin:591`), so that ranges of errors inside it are
  too small by the size of the header.
- C interface, printers, timers, tools, examples: conversion, output and
  drivers.  `tracy`: vendored.

## 6. What could come next

1. `arena_pop` by a size that is not that of the last allocations: one that ends
   inside the header of a grown block (`base/arena.odin:202`).
2. Release of contexts and modules in `Builder`.
3. The layout of struct types and the ABI against reference definitions.
