---------------------------- MODULE TypeInterner ----------------------------
(***************************************************************************)
(* The concurrent type interner of wopt.  Threads look a key up in a chain *)
(* of fixed size cells without a lock, and only on a miss take the mutex   *)
(* of the chain's stripe, look again and insert.  Types, their members and *)
(* new cells come from a thread's own slice of the interner's arena, which *)
(* is refilled under a second mutex.                                       *)
(*                                                                         *)
(* Cell n of chain c stands for the n-th ^Type_Interner_Cell of the list   *)
(* that starts at i.cells[c]; length[c] counts the cells that `next`       *)
(* pointers reach.  Memory is counted in units of align_of(Type), so the   *)
(* address of a type relative to the arena is its compressed Type_Id.      *)
(* Loads and stores are sequentially consistent steps in program order,    *)
(* which is what the acquire loads and release stores give the data they   *)
(* publish.                                                                *)
(***************************************************************************)
EXTENDS Naturals

CONSTANTS Thread,       \* the threads that share the interner
          Key,          \* Type_Keys of a kind other than None
          NoneKey,      \* the Type_Key of kind None
          RawHash,      \* XXH3 digest of each key
          CellCount,    \* TYPE_INTERNER_CELL_COUNT
          StripeCount,  \* TYPE_INTERNER_MUTEX_STRIPE_SIZE
          CellSize,     \* TYPE_INTERNER_CELL_SIZE
          TypeSize,     \* size_of(Type), in units
          MembersSize,  \* units the members of each key take
          CellBytes,    \* size_of(Type_Interner_Cell), in units
          CellAlign,    \* align_of(Type_Interner_Cell), in units
          LocalSize,    \* TYPE_INTERNER_THREAD_LOCAL_SIZE, in units
          PageSize,     \* mem.PAGE_SIZE, in units
          ArenaBase,    \* what type_interner_new leaves used in the arena
          ArenaSize,    \* bound: units of the arena the model may use
          MaxCells,     \* bound: cells a chain may have
          NoThread      \* the owner of a free mutex

ASSUME ThreadAssumption == NoThread \notin Thread
ASSUME KeyAssumption ==
  /\ NoneKey \notin Key
  /\ RawHash \in [Key -> Nat]
  /\ MembersSize \in [Key -> Nat]
ASSUME TableAssumption ==
  /\ CellCount \in Nat \ {0}
  /\ StripeCount \in Nat \ {0}
  /\ CellSize \in Nat \ {0}
  /\ MaxCells \in Nat \ {0}
ASSUME MemoryAssumption ==
  /\ TypeSize \in Nat \ {0}
  /\ CellBytes \in Nat \ {0}
  /\ CellAlign \in Nat \ {0}
  /\ LocalSize \in Nat \ {0}
  /\ PageSize \in Nat \ {0}
  /\ ArenaBase \in Nat \ {0}
  /\ ArenaSize \in Nat

VARIABLES types,    \* Type_Interner_Cell.types of every cell
          hashes,   \* Type_Interner_Cell.hashes of every cell
          length,   \* number of cells linked into each chain
          mutexes,  \* owner of each stripe mutex
          top,      \* first unit of i.arena no thread arena has taken
          arena,    \* each thread's Type_Interner_Thread_Arena
          heap,     \* the Type stored at each id
          pc,       \* where each thread is in type_interner_intern
          key,      \* the key it interns
          cell,     \* its local `cell`, later `load_cell`
          next,     \* its local `next`: was there a next cell?
          index,    \* its local `index`
          id        \* its result, or the type it is filling in

tableVars == <<types, hashes, length>>
memVars   == <<top, arena, heap>>
localVars == <<pc, key, cell, next, index, id>>
vars      == <<tableVars, mutexes, memVars, localVars>>

Chain  == 0 .. CellCount - 1
CellNo == 0 .. MaxCells - 1
Slot   == 0 .. CellSize - 1
Stripe == 0 .. StripeCount - 1
TypeId == 1 .. ArenaSize

\* A Type in memory.  `owned` says that members points at the interner's own
\* copy and no longer at the caller's slice.
TypeRecord == [key : Key \cup {NoneKey}, owned : BOOLEAN, id : Nat]
ZeroType   == [key |-> NoneKey, owned |-> FALSE, id |-> 0]

\* type_hash_from_type_key: 0 is never a valid hash
HashOf(k) == IF RawHash[k] = 0 THEN 1 ELSE RawHash[k]

CellIndex(h)  == h % CellCount
MutexIndex(c) == c % StripeCount

ChainOf(t)  == CellIndex(HashOf(key[t]))
StripeOf(t) == MutexIndex(ChainOf(t))

-----------------------------------------------------------------------------
(* type_interner_thread_arena_alloc *)

AlignForward(p, a) == p + ((a - (p % a)) % a)
Larger(a, b) == IF a < b THEN b ELSE a

\* `aligned` of the procedure, relative to the start of the thread's block
Aligned(t, a) == AlignForward(arena[t].base + arena[t].used, a) - arena[t].base

Fits(t, size, align) == Aligned(t, align) + size <= arena[t].len

\* Mutant: two threads get the same block.
RefillKeepsTop(t, size) ==
  LET base == AlignForward(top, PageSize)
      len  == Larger(LocalSize, size)
  IN /\ base + len <= ArenaSize + 1
     /\ arena' = [arena EXCEPT ![t] = [base |-> base, used |-> 0, len |-> len]]
     /\ top' = top

\* Out of space: take a new block from the shared arena under i.mutex.  The
\* rest of the old block is lost.
Refill(t, size) ==
  LET base == AlignForward(top, PageSize)
      len  == Larger(LocalSize, size)
  IN /\ base + len <= ArenaSize + 1
     /\ arena' = [arena EXCEPT ![t] = [base |-> base, used |-> 0, len |-> len]]
     /\ top' = base + len

Take(t, size, align) ==
  arena' = [arena EXCEPT ![t].used = Aligned(t, align) + size]

-----------------------------------------------------------------------------
(* type_interner_intern, for a key of kind None and for any other key *)

InternNone(t) ==
  /\ pc[t] = "idle"
  /\ pc' = [pc EXCEPT ![t] = "return"]
  /\ id' = [id EXCEPT ![t] = 0]
  /\ UNCHANGED <<tableVars, mutexes, memVars, key, cell, next, index>>

Intern(t, k) ==
  /\ pc[t] = "idle"
  /\ pc' = [pc EXCEPT ![t] = "load_next"]
  /\ key' = [key EXCEPT ![t] = k]
  /\ cell' = [cell EXCEPT ![t] = 0]
  /\ UNCHANGED <<tableVars, mutexes, memVars, next, index, id>>

\* cell.next is loaded before the cell is searched.
LoadNext(t) ==
  /\ pc[t] = "load_next"
  /\ next' = [next EXCEPT ![t] = cell[t] + 1 < length[ChainOf(t)]]
  /\ index' = [index EXCEPT ![t] = 0]
  /\ pc' = [pc EXCEPT ![t] = "find"]
  /\ UNCHANGED <<tableVars, mutexes, memVars, key, cell, id>>

\* Acquire load of one hash of the cell.
Find(t) ==
  /\ pc[t] = "find"
  /\ index[t] < CellSize
  /\ IF hashes[ChainOf(t)][cell[t]][index[t]] = HashOf(key[t])
       THEN pc' = [pc EXCEPT ![t] = "compare"] /\ UNCHANGED index
       ELSE index' = [index EXCEPT ![t] = @ + 1] /\ UNCHANGED pc
  /\ UNCHANGED <<tableVars, mutexes, memVars, key, cell, next, id>>

\* The key of the type in slot s of the thread's cell (type_interner_load:
\* the zero Type for id 0).
KeyAt(t, n, s) ==
  LET i == types[ChainOf(t)][n][s]
  IN IF i = 0 THEN NoneKey ELSE heap[i].key

Compare(t) ==
  /\ pc[t] = "compare"
  /\ IF KeyAt(t, cell[t], index[t]) = key[t]
       THEN /\ id' = [id EXCEPT ![t] = types[ChainOf(t)][cell[t]][index[t]]]
            /\ pc' = [pc EXCEPT ![t] = "return"]
            /\ UNCHANGED index
       ELSE /\ index' = [index EXCEPT ![t] = @ + 1]
            /\ pc' = [pc EXCEPT ![t] = "find"]
            /\ UNCHANGED id
  /\ UNCHANGED <<tableVars, mutexes, memVars, key, cell, next>>

\* Mutant: `next` is loaded after the cell has been searched.
NextCellReload(t) ==
  /\ pc[t] = "find"
  /\ index[t] = CellSize
  /\ IF cell[t] + 1 < length[ChainOf(t)]
       THEN /\ cell' = [cell EXCEPT ![t] = @ + 1]
            /\ pc' = [pc EXCEPT ![t] = "load_next"]
       ELSE /\ pc' = [pc EXCEPT ![t] = "lock"]
            /\ UNCHANGED cell
  /\ UNCHANGED <<tableVars, mutexes, memVars, key, next, index, id>>

\* The whole cell has been searched: go on to `next`, or give up the lock
\* free search.
NextCell(t) ==
  /\ pc[t] = "find"
  /\ index[t] = CellSize
  /\ IF next[t]
       THEN /\ cell' = [cell EXCEPT ![t] = @ + 1]
            /\ pc' = [pc EXCEPT ![t] = "load_next"]
       ELSE /\ pc' = [pc EXCEPT ![t] = "lock"]
            /\ UNCHANGED cell
  /\ UNCHANGED <<tableVars, mutexes, memVars, key, next, index, id>>

Lock(t) ==
  /\ pc[t] = "lock"
  /\ mutexes[StripeOf(t)] = NoThread
  /\ mutexes' = [mutexes EXCEPT ![StripeOf(t)] = t]
  /\ pc' = [pc EXCEPT ![t] = "check"]
  /\ UNCHANGED <<tableVars, memVars, key, cell, next, index, id>>

Unlock(t) == mutexes' = [mutexes EXCEPT ![StripeOf(t)] = NoThread]

\* Mutant: no second look under the lock.
HitsIgnored(t) == {}

\* The slots of the thread's cell that hold its key.
Hits(t) ==
  {s \in Slot : /\ hashes[ChainOf(t)][cell[t]][s] = HashOf(key[t])
                /\ KeyAt(t, cell[t], s) = key[t]}

\* Mutant: the early return keeps the mutex.
CheckHitLocked(t) ==
  /\ pc[t] = "check"
  /\ \E s \in Hits(t) : id' = [id EXCEPT ![t] = types[ChainOf(t)][cell[t]][s]]
  /\ pc' = [pc EXCEPT ![t] = "return"]
  /\ UNCHANGED <<tableVars, mutexes, memVars, key, cell, next, index>>

\* The search under the lock, one cell at a time, from the cell where the
\* lock free search ended.
CheckHit(t) ==
  /\ pc[t] = "check"
  /\ \E s \in Hits(t) :
       /\ \A r \in Hits(t) : s <= r
       /\ id' = [id EXCEPT ![t] = types[ChainOf(t)][cell[t]][s]]
  /\ Unlock(t)
  /\ pc' = [pc EXCEPT ![t] = "return"]
  /\ UNCHANGED <<tableVars, memVars, key, cell, next, index>>

CheckMiss(t) ==
  /\ pc[t] = "check"
  /\ Hits(t) = {}
  /\ IF cell[t] + 1 < length[ChainOf(t)]
       THEN cell' = [cell EXCEPT ![t] = @ + 1] /\ UNCHANGED pc
       ELSE pc' = [pc EXCEPT ![t] = "alloc_type"] /\ UNCHANGED cell
  /\ UNCHANGED <<tableVars, mutexes, memVars, key, next, index, id>>

\* The size and alignment the thread is about to ask its arena for.
Request(t) ==
  CASE pc[t] = "alloc_type"    -> <<TypeSize, 1>>
    [] pc[t] = "alloc_members" -> <<MembersSize[key[t]], 1>>
    [] OTHER                   -> <<CellBytes, CellAlign>>

RefillArena(t) ==
  /\ pc[t] \in {"alloc_type", "alloc_members", "alloc_cell"}
  /\ ~Fits(t, Request(t)[1], Request(t)[2])
  /\ Refill(t, Request(t)[1])
  /\ UNCHANGED <<tableVars, mutexes, heap, localVars>>

\* type_ptr^ = type: the members still are the caller's, the id is not set.
AllocType(t) ==
  /\ pc[t] = "alloc_type"
  /\ Fits(t, TypeSize, 1)
  /\ Take(t, TypeSize, 1)
  /\ LET i == arena[t].base + Aligned(t, 1)
     IN /\ id' = [id EXCEPT ![t] = i]
        /\ heap' = [heap EXCEPT ![i] = [key |-> key[t], owned |-> FALSE, id |-> 0]]
  /\ pc' = [pc EXCEPT ![t] = "alloc_members"]
  /\ UNCHANGED <<tableVars, mutexes, top, key, cell, next, index>>

\* Mutant: the members are not copied.
AllocMembersShared(t) ==
  /\ pc[t] = "alloc_members"
  /\ Fits(t, MembersSize[key[t]], 1)
  /\ Take(t, MembersSize[key[t]], 1)
  /\ heap' = [heap EXCEPT ![id[t]].id = id[t]]
  /\ pc' = [pc EXCEPT ![t] = "place"]
  /\ UNCHANGED <<tableVars, mutexes, top, key, cell, next, index, id>>

\* Copy the members, then set the id.
AllocMembers(t) ==
  /\ pc[t] = "alloc_members"
  /\ Fits(t, MembersSize[key[t]], 1)
  /\ Take(t, MembersSize[key[t]], 1)
  /\ heap' = [heap EXCEPT ![id[t]] = [key |-> key[t], owned |-> TRUE, id |-> id[t]]]
  /\ pc' = [pc EXCEPT ![t] = "place"]
  /\ UNCHANGED <<tableVars, mutexes, top, key, cell, next, index, id>>

Free(t) == {s \in Slot : hashes[ChainOf(t)][cell[t]][s] = 0}

\* load_cell.types[index] = id, in the first free slot.
Place(t) ==
  /\ pc[t] = "place"
  /\ \E s \in Free(t) :
       /\ \A r \in Free(t) : s <= r
       /\ types' = [types EXCEPT ![ChainOf(t)][cell[t]][s] = id[t]]
       /\ index' = [index EXCEPT ![t] = s]
  /\ pc' = [pc EXCEPT ![t] = "publish"]
  /\ UNCHANGED <<hashes, length, mutexes, memVars, key, cell, next, id>>

\* Release store of the hash, then return, which unlocks.
Publish(t) ==
  /\ pc[t] = "publish"
  /\ hashes' = [hashes EXCEPT ![ChainOf(t)][cell[t]][index[t]] = HashOf(key[t])]
  /\ Unlock(t)
  /\ pc' = [pc EXCEPT ![t] = "return"]
  /\ UNCHANGED <<types, length, memVars, key, cell, next, index, id>>

CellFull(t) ==
  /\ pc[t] = "place"
  /\ Free(t) = {}
  /\ pc' = [pc EXCEPT ![t] = "alloc_cell"]
  /\ UNCHANGED <<tableVars, mutexes, memVars, key, cell, next, index, id>>

\* Fill slot 0 of a new cell nobody sees yet, then link it: release store of
\* load_cell.next.
LinkCell(t) ==
  LET c == ChainOf(t)
      n == cell[t] + 1
      First(v) == [s \in Slot |-> IF s = 0 THEN v ELSE 0]
  IN /\ pc[t] = "alloc_cell"
     /\ n < MaxCells
     /\ Fits(t, CellBytes, CellAlign)
     /\ Take(t, CellBytes, CellAlign)
     /\ types'  = [types EXCEPT ![c][n] = First(id[t])]
     /\ hashes' = [hashes EXCEPT ![c][n] = First(HashOf(key[t]))]
     /\ length' = [length EXCEPT ![c] = n + 1]
     /\ Unlock(t)
     /\ pc' = [pc EXCEPT ![t] = "return"]
     /\ UNCHANGED <<top, heap, key, cell, next, index, id>>

\* The procedure returns; the locals are gone.
Return(t) ==
  /\ pc[t] = "return"
  /\ pc'    = [pc EXCEPT ![t] = "idle"]
  /\ key'   = [key EXCEPT ![t] = NoneKey]
  /\ cell'  = [cell EXCEPT ![t] = 0]
  /\ next'  = [next EXCEPT ![t] = FALSE]
  /\ index' = [index EXCEPT ![t] = 0]
  /\ id'    = [id EXCEPT ![t] = 0]
  /\ UNCHANGED <<tableVars, mutexes, memVars>>

-----------------------------------------------------------------------------
Init ==
  /\ types   = [c \in Chain |-> [n \in CellNo |-> [s \in Slot |-> 0]]]
  /\ hashes  = [c \in Chain |-> [n \in CellNo |-> [s \in Slot |-> 0]]]
  /\ length  = [c \in Chain |-> 1]
  /\ mutexes = [m \in Stripe |-> NoThread]
  /\ top     = ArenaBase
  /\ arena   = [t \in Thread |-> [base |-> 0, used |-> 0, len |-> 0]]
  /\ heap    = [i \in TypeId |-> ZeroType]
  /\ pc      = [t \in Thread |-> "idle"]
  /\ key     = [t \in Thread |-> NoneKey]
  /\ cell    = [t \in Thread |-> 0]
  /\ next    = [t \in Thread |-> FALSE]
  /\ index   = [t \in Thread |-> 0]
  /\ id      = [t \in Thread |-> 0]

Step(t) ==
  \/ LoadNext(t) \/ Find(t) \/ Compare(t) \/ NextCell(t)
  \/ Lock(t) \/ CheckHit(t) \/ CheckMiss(t)
  \/ RefillArena(t) \/ AllocType(t) \/ AllocMembers(t)
  \/ Place(t) \/ Publish(t) \/ CellFull(t) \/ LinkCell(t)
  \/ Return(t)

Next ==
  \E t \in Thread :
    \/ InternNone(t)
    \/ \E k \in Key : Intern(t, k)
    \/ Step(t)

Spec == Init /\ [][Next]_vars

\* Once a call has started its thread keeps running; nothing more is asked
\* of the stripe mutex than that a free mutex is eventually taken.
FairSpec == Spec /\ \A t \in Thread : WF_vars(Step(t))

-----------------------------------------------------------------------------
Location == {"idle", "load_next", "find", "compare", "lock", "check",
             "alloc_type", "alloc_members", "place", "publish", "alloc_cell",
             "return"}

\* Type correctness of the table, the memory and the threads' locals.
TypeOK ==
  /\ types   \in [Chain -> [CellNo -> [Slot -> Nat]]]
  /\ hashes  \in [Chain -> [CellNo -> [Slot -> Nat]]]
  /\ length  \in [Chain -> 1 .. MaxCells]
  /\ mutexes \in [Stripe -> Thread \cup {NoThread}]
  /\ top     \in Nat
  /\ arena   \in [Thread -> [base : Nat, used : Nat, len : Nat]]
  /\ heap    \in [TypeId -> TypeRecord]
  /\ pc      \in [Thread -> Location]
  /\ key     \in [Thread -> Key \cup {NoneKey}]
  /\ cell    \in [Thread -> CellNo]
  /\ next    \in [Thread -> BOOLEAN]
  /\ index   \in [Thread -> 0 .. CellSize]
  /\ id      \in [Thread -> Nat]

\* A slot a search can hit: linked into its chain and with its hash set.
Published(c, n, s) == n < length[c] /\ hashes[c][n][s] # 0

PublishedSlots ==
  {p \in Chain \X CellNo \X Slot : Published(p[1], p[2], p[3])}

\* type_interner_load(i).key
KeyOf(i) == IF i = 0 THEN NoneKey ELSE heap[i].key

EntryAt(p) == <<KeyOf(types[p[1]][p[2]][p[3]]), types[p[1]][p[2]][p[3]]>>

\* The contents of the interner as a set of <<key, id>> pairs.
Entries == {EntryAt(p) : p \in PublishedSlots}

\* Interned types are equal exactly when their ids are: no key is ever
\* entered twice, whichever threads race for it, and no id is shared.
OneIdPerKey ==
  \A e, f \in Entries : (e[1] = f[1]) <=> (e[2] = f[2])

\* What a search can reach is finished: the id is not 0, the Type there has
\* its own copy of its members and its own id, and the hash is that of its
\* key and belongs to the chain.
PublishedComplete ==
  \A c \in Chain, n \in CellNo, s \in Slot :
    Published(c, n, s) =>
      LET i == types[c][n][s] IN
      /\ i \in TypeId
      /\ heap[i].owned
      /\ heap[i].id = i
      /\ heap[i].key \in Key
      /\ hashes[c][n][s] = HashOf(heap[i].key)
      /\ c = CellIndex(hashes[c][n][s])

\* No step removes an entry or writes to the Type of an entry, so the data
\* readers use without a lock never changes under them.
EntriesAreForever ==
  [][/\ Entries \subseteq Entries'
     /\ \A e \in Entries : heap'[e[2]] = heap[e[2]]]_vars

\* Every call of type_interner_intern returns.
CallsReturn == \A t \in Thread : pc[t] # "idle" ~> pc[t] = "idle"

-----------------------------------------------------------------------------
(* The inductive invariant behind OneIdPerKey and PublishedComplete. *)

InCall   == Location \ {"idle", "return"}
Filling  == {"alloc_members", "place", "publish", "alloc_cell"}
Adding   == Filling \cup {"alloc_type"}
Critical == Adding \cup {"check"}

\* Slot s of cell n of chain c is published and holds key k.
Holds(c, n, s, k) == Published(c, n, s) /\ KeyOf(types[c][n][s]) = k

\* A thread in a call has a key to intern, a thread outside has none.
KeyInv ==
  \A t \in Thread : /\ pc[t] \in InCall => key[t] \in Key
                    /\ pc[t] = "idle" => key[t] = NoneKey

\* A thread that inserts holds the mutex of the stripe of its chain.
MutexInv ==
  \A t \in Thread : pc[t] \in Critical => mutexes[StripeOf(t)] = t

\* A cell gets a successor only when it is full.
FullInv ==
  \A c \in Chain, n \in CellNo, s \in Slot :
    n + 1 < length[c] => hashes[c][n][s] # 0

\* A key is in one slot at most.
OneSlotPerKey ==
  \A c, d \in Chain, m, n \in CellNo, r, s \in Slot :
    /\ Published(c, m, r)
    /\ Published(d, n, s)
    /\ KeyOf(types[c][m][r]) = KeyOf(types[d][n][s])
    => c = d /\ m = n /\ r = s

\* What a search has left behind stays true although the table changes: the
\* key is in no cell before the current one, nor, when the current cell is
\* known to have a successor, in the slots already searched.
Searched(t) ==
  LET c == ChainOf(t) IN
  /\ cell[t] < length[c]
  /\ \A n \in CellNo, s \in Slot : n < cell[t] => ~Holds(c, n, s, key[t])
  /\ pc[t] \in {"find", "compare"} /\ next[t] =>
       /\ cell[t] + 1 < length[c]
       /\ \A s \in Slot : s < index[t] => ~Holds(c, cell[t], s, key[t])
  /\ pc[t] = "compare" =>
       /\ index[t] \in Slot
       /\ hashes[c][cell[t]][index[t]] = HashOf(key[t])

SearchInv == \A t \in Thread : pc[t] \in InCall => Searched(t)

\* A thread that adds its key is at the end of the chain, has not found the
\* key there, and has a free slot or a full cell in front of it.
ReadyToAdd(t) ==
  LET c == ChainOf(t) IN
  /\ cell[t] + 1 = length[c]
  /\ \A s \in Slot : ~Holds(c, cell[t], s, key[t])
  /\ pc[t] = "publish" =>
       /\ index[t] \in Slot
       /\ hashes[c][cell[t]][index[t]] = 0
       /\ types[c][cell[t]][index[t]] = id[t]
  /\ pc[t] = "alloc_cell" => \A s \in Slot : hashes[c][cell[t]][s] # 0

AddInv == \A t \in Thread : pc[t] \in Adding => ReadyToAdd(t)

\* A type being filled in is nobody else's and complete before it is placed.
OwnType(t) ==
  /\ id[t] \in TypeId
  /\ heap[id[t]].key = key[t]
  /\ pc[t] # "alloc_members" => heap[id[t]].owned /\ heap[id[t]].id = id[t]
  /\ \A c \in Chain, n \in CellNo, s \in Slot :
       Published(c, n, s) => types[c][n][s] # id[t]
  /\ \A u \in Thread : u # t /\ pc[u] \in Filling => id[u] # id[t]

FillInv == \A t \in Thread : pc[t] \in Filling => OwnType(t)

\* Unit i is allocated: behind `top` and in no thread's free space.
Allocated(i) ==
  /\ i < top
  /\ \A u \in Thread : \/ i < arena[u].base + arena[u].used
                       \/ i >= arena[u].base + arena[u].len

\* The threads' blocks are disjoint, and every type in use is allocated.
ArenaInv ==
  /\ top > 0
  /\ \A t \in Thread : /\ arena[t].used <= arena[t].len
                       /\ arena[t].base + arena[t].len <= top
                       /\ arena[t].base + arena[t].len <= ArenaSize + 1
                       /\ arena[t].len # 0 => arena[t].base # 0
  /\ \A t, u \in Thread : t # u =>
       \/ arena[t].base + arena[t].len <= arena[u].base
       \/ arena[u].base + arena[u].len <= arena[t].base
  /\ \A t \in Thread : pc[t] \in Filling => Allocated(id[t])
  /\ \A c \in Chain, n \in CellNo, s \in Slot :
       Published(c, n, s) => Allocated(types[c][n][s])

\* The inductive invariant: what makes the lock free search and the insert
\* under the stripe mutex correct together.
Inv ==
  /\ TypeOK
  /\ KeyInv
  /\ MutexInv
  /\ FullInv
  /\ PublishedComplete
  /\ OneSlotPerKey
  /\ SearchInv
  /\ AddInv
  /\ FillInv
  /\ ArenaInv

-----------------------------------------------------------------------------
\* The abstract call a thread's locals stand for.
CallOf(t) ==
  [state |-> CASE pc[t] = "idle"   -> "idle"
               [] pc[t] = "return" -> "done"
               [] OTHER            -> "pending",
   key   |-> key[t],
   id    |-> IF pc[t] = "return" THEN id[t] ELSE 0]

Calls == [t \in Thread |-> CallOf(t)]

Abstract ==
  INSTANCE Interning WITH Id <- TypeId, NoId <- 0, entries <- Entries, call <- Calls

\* Each call takes effect at one moment: the interner implements the
\* abstract table of Interning.
ImplementsInterning == Abstract!ASpec
=============================================================================
