------------------------------- MODULE Arena --------------------------------
(***************************************************************************)
(* base.Arena: a stack allocator over a chain of reserved memory blocks.   *)
(* Every block starts with its own Arena header; a position in the arena   *)
(* is the base_pos of a block plus an offset, headers and padding counted. *)
(* Guards (arena_temp_begin ... arena_temp_end) remember a position and    *)
(* pop back to it.                                                         *)
(*                                                                         *)
(* blocks is the chain from the root to a.curr.  Blocks come page aligned  *)
(* from virtual.reserve and alignments are at most a page, so aligning an  *)
(* address is aligning its offset.  `live` and `guards` are the client's:  *)
(* the allocations it still uses, and the guards it has open.  A failed    *)
(* assertion is recorded in `failed` and the code goes on as it does under *)
(* ODIN_DISABLE_ASSERT; in other builds the program ends there.            *)
(***************************************************************************)
EXTENDS Naturals, Sequences, FiniteSets

CONSTANTS PageSize,         \* mem.PAGE_SIZE
          HeaderSize,       \* size_of(Arena)
          Commit,           \* the `commited` argument of arena_alloc
          Reserve,          \* the `reserved` argument of arena_alloc
          NoGrowing,        \* does the client ask for .No_Growing?
          Size,             \* sizes the client asks for
          Align,            \* alignments it asks for
          ResizeOuter,      \* does it resize what it allocated outside a guard?
          MaxBlocks,        \* bound on the blocks of the chain
          MaxGuards,        \* bound on the open guards
          MaxLive           \* bound on the allocations in use

ASSUME ArenaAssumption ==
  /\ PageSize \in Nat \ {0}
  /\ HeaderSize \in Nat \ {0}
  /\ Commit \in Nat
  /\ Reserve \in Nat \ {0}
  /\ NoGrowing \in BOOLEAN
  /\ ResizeOuter \in BOOLEAN
  /\ Size \subseteq Nat
  /\ Align \subseteq Nat \ {0}

VARIABLES blocks,  \* the Arena headers of the chain; <<>> when there is no arena
          guards,  \* positions of the open Arena_Temps, innermost last
          live,    \* the client's allocations
          failed   \* assertions that have failed

vars == <<blocks, guards, live, failed>>

AlignForward(p, a) == p + ((a - (p % a)) % a)
Larger(a, b) == IF a < b THEN b ELSE a

Last(bs) == bs[Len(bs)]

\* Mutant: base_pos is forgotten.
PosInBlock(bs) == Last(bs).used

\* The position of the end of the arena.
Pos(bs) == Last(bs).base_pos + Last(bs).used

-----------------------------------------------------------------------------
(* Operations on the chain *)

\* arena_alloc.  The header is the block's first allocation; the flags of the
\* call are not stored.
NewBlock(commited, reserved, flags) ==
  LET c == AlignForward(commited, PageSize)
  IN [base_pos         |-> 0,
      flags            |-> FALSE,
      used             |-> HeaderSize,
      reserved         |-> AlignForward(reserved, PageSize),
      commited         |-> Larger(c, AlignForward(HeaderSize, PageSize)),
      initial_commited |-> c]

NeedsGrow(bs, size, align) ==
  AlignForward(Last(bs).used, align) + size > Last(bs).reserved

\* Mutant: the new block is as large as the current one, whatever is asked for.
GrownSame(bs, size) ==
  Append(bs, [NewBlock(Last(bs).initial_commited, Last(bs).reserved, bs[1].flags)
                EXCEPT !.base_pos = Pos(bs)])

\* The block a push appends when the current one has no room.
Grown(bs, size) ==
  LET curr == Last(bs)
      new  == NewBlock(Larger(curr.initial_commited, size + HeaderSize),
                       Larger(curr.reserved, size + HeaderSize), bs[1].flags)
  IN Append(bs, [new EXCEPT !.base_pos = Pos(bs)])

\* _arena_push_aligned_non_zeroed in the current block: the block's header
\* afterwards, the range of the slice, and whether it ends in the block.
Bump(b, size, align) ==
  LET start == AlignForward(b.used, align)
      fits  == start + size <= b.reserved
      end   == IF fits THEN start + size ELSE b.reserved
  IN [block |-> [b EXCEPT !.used = end,
                          !.commited = IF @ < end THEN AlignForward(end, PageSize) ELSE @],
      start |-> start, end |-> end, fits |-> fits]

\* The chain with room for the push.
Room(bs, size, align) == IF NeedsGrow(bs, size, align) THEN Grown(bs, size) ELSE bs

\* Mutant: only the current block is popped.
PoppedToCurr(bs, pos) ==
  [bs EXCEPT ![Len(bs)].used = pos - bs[Len(bs)].base_pos]

\* Mutant: a block that starts at pos is kept.
PoppedToBase(bs, pos) ==
  LET n == CHOOSE i \in 1 .. Len(bs) :
             /\ bs[i].base_pos <= pos
             /\ \A j \in i + 1 .. Len(bs) : bs[j].base_pos > pos
  IN [SubSeq(bs, 1, n) EXCEPT ![n].used = pos - bs[n].base_pos]

\* Mutant: blocks are popped, `used` is not reset.
PoppedToBlock(bs, pos) ==
  LET n == CHOOSE i \in 1 .. Len(bs) :
             /\ bs[i].base_pos < pos
             /\ \A j \in i + 1 .. Len(bs) : bs[j].base_pos >= pos
  IN SubSeq(bs, 1, n)

\* arena_pop_to: pop every block that starts at or behind pos.
PoppedTo(bs, pos) ==
  LET n == CHOOSE i \in 1 .. Len(bs) :
             /\ bs[i].base_pos < pos
             /\ \A j \in i + 1 .. Len(bs) : bs[j].base_pos >= pos
  IN [SubSeq(bs, 1, n) EXCEPT ![n].used = pos - bs[n].base_pos]

PopTo(pos) ==
  LET p == Larger(pos, HeaderSize)
  IN IF p <= Pos(blocks)
       THEN blocks' = PoppedTo(blocks, p) /\ UNCHANGED failed
       ELSE failed' = failed \cup {"pop_to"} /\ UNCHANGED blocks

-----------------------------------------------------------------------------
(* Operations of a client *)

Exists == blocks # <<>>

Alloc ==
  /\ ~Exists
  /\ blocks' = <<NewBlock(Commit, Reserve, NoGrowing)>>
  /\ UNCHANGED <<guards, live, failed>>

Destroy ==
  /\ Exists
  /\ guards = <<>>
  /\ blocks' = <<>>
  /\ live' = {}
  /\ UNCHANGED <<guards, failed>>

\* Push on the chain bs, while the client gives up the allocations `freed`.
PushOn(bs, size, align, freed) ==
  LET room == Room(bs, size, align)
      n    == Len(room)
      push == Bump(room[n], size, align)
      new  == [block |-> n, start |-> push.start, end |-> push.end,
               size |-> size, align |-> align, depth |-> Len(guards)]
  IN /\ n <= MaxBlocks
     /\ NeedsGrow(bs, size, align) => ~bs[1].flags    \* oom
     /\ blocks' = [room EXCEPT ![n] = push.block]
     /\ live' = (live \ freed) \cup {new}
     /\ failed' = IF push.fits THEN failed ELSE failed \cup {"push_end"}

\* A push of size 0 returns nil and does nothing.
Push(size, align) ==
  /\ Exists
  /\ size # 0
  /\ Cardinality(live) < MaxLive
  /\ PushOn(blocks, size, align, {})
  /\ UNCHANGED guards

\* Mutant: any allocation of the current block passes for the last one.
IsInCurr(x) == x.block = Len(blocks)

\* The allocation that ends where the arena ends.
IsLast(x) ==
  /\ x.block = Len(blocks)
  /\ Last(blocks).used = x.end

\* arena_allocator_proc, .Resize of an allocation of this guard, or of an
\* outer one: the last allocation is popped and pushed again, any other is
\* copied and left behind.
MayResize(x) == ResizeOuter \/ x.depth = Len(guards)

Shorter(x) == [blocks EXCEPT ![Len(blocks)].used = @ - (x.end - x.start)]

ResizeLast(x, size, align) ==
  /\ IsLast(x)
  /\ size # 0
  /\ PushOn(Shorter(x), size, align, {x})
  /\ UNCHANGED guards

\* A resize to 0 frees the last allocation; it fails for any other.
ResizeToZero(x) ==
  /\ IsLast(x)
  /\ blocks' = Shorter(x)
  /\ live' = live \ {x}
  /\ UNCHANGED <<guards, failed>>

ResizeOther(x, size, align) ==
  /\ ~IsLast(x)
  /\ size # 0
  /\ PushOn(blocks, size, align, {x})
  /\ UNCHANGED guards

\* arena_pop of an allocation of this guard that is the last one.
Pop(x) ==
  /\ IsLast(x)
  /\ x.depth = Len(guards)
  /\ PopTo(Pos(blocks) - (x.end - x.start))
  /\ live' = live \ {x}
  /\ UNCHANGED guards

\* arena_clear, .Free_All
Clear ==
  /\ Exists
  /\ guards = <<>>
  /\ PopTo(0)
  /\ live' = {}
  /\ UNCHANGED guards

\* Mutant: the guard remembers the offset in the block, not the position.
TempBeginOffset ==
  /\ Exists
  /\ Len(guards) < MaxGuards
  /\ guards' = Append(guards, Last(blocks).used)
  /\ UNCHANGED <<blocks, live, failed>>

TempBegin ==
  /\ Exists
  /\ Len(guards) < MaxGuards
  /\ guards' = Append(guards, Pos(blocks))
  /\ UNCHANGED <<blocks, live, failed>>

\* The client gives up what it allocated since the guard began.
TempEnd ==
  /\ guards # <<>>
  /\ PopTo(guards[Len(guards)])
  /\ live' = {x \in live : x.depth < Len(guards)}
  /\ guards' = SubSeq(guards, 1, Len(guards) - 1)

-----------------------------------------------------------------------------
Init ==
  /\ blocks = <<>>
  /\ guards = <<>>
  /\ live = {}
  /\ failed = {}

Resize(x) ==
  \/ ResizeToZero(x)
  \/ \E size \in Size, align \in Align :
       ResizeLast(x, size, align) \/ ResizeOther(x, size, align)

Next ==
  \/ Alloc
  \/ Destroy
  \/ \E size \in Size, align \in Align : Push(size, align)
  \/ \E x \in live : (MayResize(x) /\ Resize(x)) \/ Pop(x)
  \/ Clear
  \/ TempBegin
  \/ TempEnd

Spec == Init /\ [][Next]_vars

-----------------------------------------------------------------------------
BlockRecord ==
  [base_pos : Nat, flags : BOOLEAN, used : Nat, reserved : Nat, commited : Nat,
   initial_commited : Nat]

AllocRecord ==
  [block : Nat, start : Nat, end : Nat, size : Nat, align : Nat, depth : Nat]

\* Type correctness.
TypeOK ==
  /\ blocks \in Seq(BlockRecord)
  /\ guards \in Seq(Nat)
  /\ live \subseteq AllocRecord
  /\ failed \subseteq {"pop_to", "push_end"}

\* No block's header is ever given out or popped off, every block begins at
\* the position where the one before it ends, and what is used is committed.
ChainIntact ==
  \A i \in 1 .. Len(blocks) :
    /\ HeaderSize <= blocks[i].used
    /\ blocks[i].used <= blocks[i].commited
    /\ blocks[i].commited <= blocks[i].reserved
    /\ blocks[i].base_pos =
         IF i = 1 THEN 0 ELSE blocks[i - 1].base_pos + blocks[i - 1].used

Disjoint(x, y) == x.block # y.block \/ x.end <= y.start \/ y.end <= x.start

\* What the client uses stays its own: in the used part of a block that is
\* still there, behind the header, aligned, as long as asked for, and apart
\* from every other allocation in use.
LiveMemorySafe ==
  \A x \in live :
    /\ x.block \in 1 .. Len(blocks)
    /\ HeaderSize <= x.start
    /\ x.start + x.size = x.end
    /\ x.end <= blocks[x.block].used
    /\ x.start % x.align = 0
    /\ \A y \in live \ {x} : Disjoint(x, y)

\* The position of an offset in a block.
At(b, offset) == blocks[b].base_pos + offset

\* An open guard separates what was allocated before it, which it will keep,
\* from what was allocated since, which it will free.
GuardsSeparate ==
  \A g \in 1 .. Len(guards) :
    /\ guards[g] <= Pos(blocks)
    /\ \A x \in live : IF x.depth < g THEN At(x.block, x.end) <= guards[g]
                                      ELSE guards[g] <= At(x.block, x.start)

\* assert(end <= curr.reserved) in _arena_push_aligned_non_zeroed: a push
\* always finds or makes a block that holds all of it.
PushEndsInBlock == "push_end" \notin failed

\* assert(pos <= curr_pos) in arena_pop_to: the arena is never popped to a
\* position it has not reached.
PopsBackwards == "pop_to" \notin failed

\* The end of a guard takes the arena back to the very place where it began,
\* also when blocks were added in between.
GuardRestores ==
  [][guards # <<>> /\ Len(guards') < Len(guards)
       => Pos(blocks') = guards[Len(guards)]]_vars
=============================================================================
