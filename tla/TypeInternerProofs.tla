------------------------- MODULE TypeInternerProofs -------------------------
(***************************************************************************)
(* Proof that the type interner keeps its inductive invariant, for every   *)
(* number of threads, keys, chains, stripes and slots: one lemma for each  *)
(* action, on top of a few about groups of actions (steps on a thread's    *)
(* locals, steps that allocate, steps that publish an entry); that it      *)
(* implements the abstract table of Interning; and that no call is held up *)
(* by another for ever.                                                    *)
(***************************************************************************)
EXTENDS TypeInterner, TLAPS

\* type_hash_from_type_key never returns 0, the hash of a free slot.
LEMMA HashOfNat == \A k \in Key : HashOf(k) \in Nat \ {0}
  BY KeyAssumption DEF HashOf

\* Every hash selects a chain, and its chain a stripe mutex.
LEMMA IndexType ==
  \A h \in Nat : CellIndex(h) \in Chain /\ MutexIndex(CellIndex(h)) \in Stripe
<1> SUFFICES ASSUME NEW h \in Nat
             PROVE  CellIndex(h) \in Chain /\ MutexIndex(CellIndex(h)) \in Stripe
  OBVIOUS
<1>1. CellIndex(h) \in Chain
  BY TableAssumption DEF CellIndex, Chain
<1>2. MutexIndex(CellIndex(h)) \in Stripe
  BY <1>1, TableAssumption DEF MutexIndex, Stripe, Chain
<1> QED BY <1>1, <1>2

\* Aligning forward never goes backwards.
LEMMA AlignForwardBound ==
  ASSUME NEW p \in Nat, NEW a \in Nat \ {0}
  PROVE  AlignForward(p, a) \in Nat /\ AlignForward(p, a) >= p
<1>1. p % a \in 0 .. a - 1
  OBVIOUS
<1>2. (a - (p % a)) % a \in 0 .. a - 1
  BY <1>1
<1> QED BY <1>2 DEF AlignForward

\* A thread in a call has a chain and a stripe.
LEMMA ChainOfType ==
  ASSUME TypeOK, KeyInv, NEW t \in Thread, pc[t] \in InCall
  PROVE  /\ key[t] \in Key
         /\ HashOf(key[t]) \in Nat \ {0}
         /\ ChainOf(t) \in Chain
         /\ StripeOf(t) \in Stripe
  BY HashOfNat, IndexType DEF KeyInv, ChainOf, StripeOf

\* Every chain has its first cell.
LEMMA ZeroCell == 0 \in CellNo
  BY TableAssumption DEF CellNo

\* A slot that holds a key has the hash of that key.
LEMMA HoldsHash ==
  ASSUME PublishedComplete,
         NEW c \in Chain, NEW n \in CellNo, NEW s \in Slot, NEW k \in Key,
         Holds(c, n, s, k)
  PROVE  hashes[c][n][s] = HashOf(k)
  BY DEF PublishedComplete, Holds, KeyOf, TypeId

\* A new interner satisfies the invariant.
LEMMA InitInv == Init => Inv
<1> SUFFICES ASSUME Init PROVE Inv
  OBVIOUS
<1>1. TypeOK
  BY ThreadAssumption, TableAssumption, MemoryAssumption
  DEF Init, TypeOK, Location, TypeRecord, ZeroType, CellNo, Slot, Chain
<1>2. KeyInv /\ MutexInv /\ SearchInv /\ AddInv /\ FillInv
  BY DEF Init, KeyInv, MutexInv, SearchInv, AddInv, FillInv, InCall, Critical, Adding, Filling
<1>3. \A c \in Chain, n \in CellNo, s \in Slot : ~Published(c, n, s)
  BY DEF Init, Published
<1>4. FullInv
  BY DEF Init, FullInv, CellNo
<1>5. PublishedComplete /\ OneSlotPerKey
  BY <1>3 DEF PublishedComplete, OneSlotPerKey
<1>6. ArenaInv
  BY <1>3, MemoryAssumption DEF Init, ArenaInv, Filling
<1> QED BY <1>1, <1>2, <1>4, <1>5, <1>6 DEF Inv

(***************************************************************************)
(* Steps that change neither the table nor the memory.                     *)
(***************************************************************************)
SharedVars == <<types, hashes, length, top, arena, heap>>

\* A step that leaves the table and the memory alone keeps what the
\* invariant says of them.
LEMMA SharedStable ==
  ASSUME Inv, UNCHANGED SharedVars
  PROVE  /\ FullInv' /\ PublishedComplete' /\ OneSlotPerKey'
         /\ \A c, n, s : Published(c, n, s)' <=> Published(c, n, s)
         /\ \A c, n, s, k : Holds(c, n, s, k)' <=> Holds(c, n, s, k)
         /\ \A i : Allocated(i)' <=> Allocated(i)
<1> USE DEF SharedVars
<1>1. \A c, n, s : Published(c, n, s)' <=> Published(c, n, s)
  BY DEF Published
<1>2. \A i : KeyOf(i)' = KeyOf(i)
  BY DEF KeyOf
<1>3. \A c, n, s, k : Holds(c, n, s, k)' <=> Holds(c, n, s, k)
  BY <1>1, <1>2 DEF Holds
<1>4. \A i : Allocated(i)' <=> Allocated(i)
  BY DEF Allocated
<1>5. FullInv'
  BY DEF Inv, FullInv
<1>6. PublishedComplete'
  BY <1>1 DEF Inv, PublishedComplete
<1>7. OneSlotPerKey'
  BY <1>1, <1>2 DEF Inv, OneSlotPerKey
<1> QED BY <1>1, <1>3, <1>4, <1>5, <1>6, <1>7

\* A step that neither publishes a slot nor touches a published one.
QuietTable ==
  \A c \in Chain, n \in CellNo, s \in Slot :
    /\ Published(c, n, s)' <=> Published(c, n, s)
    /\ Published(c, n, s) => /\ types'[c][n][s] = types[c][n][s]
                            /\ heap'[types[c][n][s]] = heap[types[c][n][s]]

\* A step that publishes one slot, with the type t has filled in.
NewEntry(t) ==
  /\ heap' = heap
  /\ \E d \in Chain, m \in CellNo, r \in Slot :
       /\ types'[d][m][r] = id[t]
       /\ \A c \in Chain, n \in CellNo, s \in Slot :
            /\ Published(c, n, s)' <=> Published(c, n, s) \/ <<c, n, s>> = <<d, m, r>>
            /\ Published(c, n, s) => types'[c][n][s] = types[c][n][s]

\* The locals of thread u are left alone.
Same(u) ==
  /\ pc'[u] = pc[u] /\ key'[u] = key[u] /\ cell'[u] = cell[u]
  /\ next'[u] = next[u] /\ index'[u] = index[u] /\ id'[u] = id[u]

\* A step of t that changes only its own locals leaves the invariant to be
\* proved for t alone.
LEMMA LocalStep ==
  ASSUME Inv, NEW t \in Thread, UNCHANGED SharedVars,
         \A u \in Thread \ {t} : Same(u),
         pc'[t] \in Filling =>
           /\ pc[t] \in Filling \ {"alloc_members"}
           /\ pc'[t] # "alloc_members"
           /\ key'[t] = key[t] /\ id'[t] = id[t],
         TypeOK', KeyInv', MutexInv',
         pc'[t] \in InCall => Searched(t)',
         pc'[t] \in Adding => ReadyToAdd(t)'
  PROVE  Inv'
<1> USE SharedStable
<1>1. SearchInv'
  <2> SUFFICES ASSUME NEW u \in Thread \ {t}, pc'[u] \in InCall
               PROVE  Searched(u)'
    BY DEF SearchInv
  <2>1. Searched(u)
    BY DEF Inv, SearchInv, Same
  <2>2. Same(u) /\ ChainOf(u)' = ChainOf(u)
    BY DEF Same, ChainOf
  <2> QED BY <2>1, <2>2 DEF Searched, Same, SharedVars
<1>2. AddInv'
  <2> SUFFICES ASSUME NEW u \in Thread \ {t}, pc'[u] \in Adding
               PROVE  ReadyToAdd(u)'
    BY DEF AddInv
  <2>1. ReadyToAdd(u)
    BY DEF Inv, AddInv, Same
  <2>2. Same(u) /\ ChainOf(u)' = ChainOf(u)
    BY DEF Same, ChainOf
  <2> QED BY <2>1, <2>2 DEF ReadyToAdd, Same, SharedVars
<1>3. FillInv'
  <2> SUFFICES ASSUME NEW u \in Thread, pc'[u] \in Filling
               PROVE  OwnType(u)'
    BY DEF FillInv
  <2>1. OwnType(u) /\ key'[u] = key[u] /\ id'[u] = id[u]
    BY DEF Inv, FillInv, Same
  <2>2. \A v \in Thread : pc'[v] \in Filling => pc[v] \in Filling /\ id'[v] = id[v]
    BY DEF Same
  <2>3. pc'[u] # "alloc_members" => pc[u] # "alloc_members"
    BY DEF Same
  <2> QED BY <2>1, <2>2, <2>3 DEF OwnType, SharedVars
<1>4. ArenaInv'
  BY DEF Inv, ArenaInv, Same, SharedVars
<1> QED BY <1>1, <1>2, <1>3, <1>4 DEF Inv

\* Returning from the critical section keeps every other owner its mutex.
LEMMA UnlockMutex ==
  ASSUME TypeOK, KeyInv, MutexInv, NEW t \in Thread,
         pc[t] \in Critical, pc'[t] \notin Critical, Unlock(t),
         \A u \in Thread \ {t} : pc'[u] = pc[u] /\ key'[u] = key[u]
  PROVE  MutexInv'
<1> SUFFICES ASSUME NEW u \in Thread \ {t}, pc'[u] \in Critical
             PROVE  mutexes'[StripeOf(u)'] = u
  BY DEF MutexInv
<1>1. StripeOf(u)' = StripeOf(u)
  BY DEF StripeOf, ChainOf
<1>2. mutexes[StripeOf(u)] = u /\ mutexes[StripeOf(t)] = t
  BY DEF MutexInv
<1>3. StripeOf(u) \in Stripe
  BY ChainOfType DEF InCall, Critical, Adding, Filling, TypeOK
<1> QED BY <1>1, <1>2, <1>3 DEF Unlock, TypeOK

\* Interning a key of kind None disturbs nothing.
LEMMA InternNoneStep ==
  ASSUME Inv, NEW t \in Thread, InternNone(t)
  PROVE  Inv'
<1> USE DEF InternNone, tableVars, memVars
<1>0. TypeOK /\ KeyInv /\ MutexInv
  BY DEF Inv
<1>1. UNCHANGED SharedVars
  BY DEF SharedVars
<1>2. TypeOK'
  <2>1. pc' \in [Thread -> Location]
    BY <1>0 DEF TypeOK, Location
  <2>2. id' \in [Thread -> Nat]
    BY <1>0 DEF TypeOK
  <2> QED BY <1>0, <2>1, <2>2 DEF TypeOK
<1>3. KeyInv'
  BY <1>0 DEF KeyInv, TypeOK, InCall
<1>4. MutexInv'
  BY <1>0 DEF MutexInv, TypeOK, StripeOf, ChainOf, Critical, Adding, Filling
<1>5. pc'[t] \in InCall => Searched(t)'
  BY <1>0 DEF TypeOK, InCall
<1>6. \A u \in Thread \ {t} : Same(u)
  BY <1>0 DEF TypeOK, Same
<1>7. pc'[t] \notin Adding
  BY <1>0 DEF TypeOK, Adding, Filling
<1> QED BY <1>1, <1>2, <1>3, <1>4, <1>5, <1>6, <1>7, LocalStep DEF Adding

\* A call starts its search at the first cell of its chain.
LEMMA InternStep ==
  ASSUME Inv, NEW t \in Thread, NEW k \in Key, Intern(t, k)
  PROVE  Inv'
<1> USE DEF Intern, tableVars, memVars
<1>0. TypeOK /\ KeyInv /\ MutexInv
  BY DEF Inv
<1>1. UNCHANGED SharedVars
  BY DEF SharedVars
<1>2. TypeOK'
  <2>1. pc' \in [Thread -> Location]
    BY <1>0 DEF TypeOK, Location
  <2>2. key' \in [Thread -> Key \cup {NoneKey}]
    BY <1>0 DEF TypeOK
  <2>3. cell' \in [Thread -> CellNo]
    BY <1>0, ZeroCell DEF TypeOK
  <2> QED BY <1>0, <2>1, <2>2, <2>3 DEF TypeOK
<1>3. KeyInv'
  BY <1>0 DEF KeyInv, TypeOK, InCall
<1>4. MutexInv'
  BY <1>0 DEF MutexInv, TypeOK, StripeOf, ChainOf, Critical, Adding, Filling
<1>5. pc'[t] \in InCall => Searched(t)'
  BY <1>0, HashOfNat, IndexType DEF Searched, TypeOK, ChainOf, CellNo
<1>6. \A u \in Thread \ {t} : Same(u)
  BY <1>0 DEF TypeOK, Same
<1>7. pc'[t] \notin Adding
  BY <1>0 DEF TypeOK, Adding, Filling
<1> QED BY <1>1, <1>2, <1>3, <1>4, <1>5, <1>6, <1>7, LocalStep DEF Adding

\* A successor seen before the search is a reason to trust the search: the
\* cell is full from then on.
LEMMA LoadNextStep ==
  ASSUME Inv, NEW t \in Thread, LoadNext(t)
  PROVE  Inv'
<1> USE DEF LoadNext, tableVars, memVars
<1>0. TypeOK /\ KeyInv /\ MutexInv
  BY DEF Inv
<1>a. pc[t] \in InCall /\ Searched(t)
  BY <1>0 DEF Inv, SearchInv, InCall, TypeOK, Location
<1>b. ChainOf(t) \in Chain /\ HashOf(key[t]) \in Nat \ {0} /\ key[t] \in Key
  BY <1>0, <1>a, ChainOfType
<1>c. ChainOf(t)' = CellIndex(HashOf(key'[t]))
  BY DEF ChainOf
<1>1. UNCHANGED SharedVars
  BY DEF SharedVars
<1>2. TypeOK'
  <2>1. pc' \in [Thread -> Location]
    BY <1>0 DEF TypeOK, Location
  <2>2. next' \in [Thread -> BOOLEAN]
    BY <1>0 DEF TypeOK
  <2>3. index' \in [Thread -> 0 .. CellSize]
    BY <1>0, TableAssumption DEF TypeOK
  <2> QED BY <1>0, <2>1, <2>2, <2>3 DEF TypeOK
<1>3. KeyInv'
  BY <1>0 DEF KeyInv, TypeOK, InCall
<1>4. MutexInv'
  BY <1>0 DEF MutexInv, TypeOK, StripeOf, ChainOf, Critical, Adding, Filling
<1>5. pc'[t] \in InCall => Searched(t)'
  <2>1. /\ ChainOf(t)' = ChainOf(t) /\ key'[t] = key[t] /\ cell'[t] = cell[t]
        /\ length' = length /\ index'[t] = 0 /\ pc'[t] = "find"
        /\ next'[t] <=> cell[t] + 1 < length[ChainOf(t)]
    BY <1>0 DEF TypeOK, ChainOf
  <2>2. \A s \in Slot : ~(s < 0)
    BY DEF Slot
  <2> QED BY <1>1, <1>a, <2>1, <2>2, SharedStable DEF Searched
<1>6. \A u \in Thread \ {t} : Same(u)
  BY <1>0 DEF TypeOK, Same
<1>7. pc'[t] \notin Adding
  BY <1>0 DEF TypeOK, Adding, Filling
<1> QED BY <1>1, <1>2, <1>3, <1>4, <1>5, <1>6, <1>7, LocalStep DEF Adding

\* The slots a search has passed do not hold its key.
LEMMA FindStep ==
  ASSUME Inv, NEW t \in Thread, Find(t)
  PROVE  Inv'
<1> USE DEF Find, tableVars, memVars
<1>0. TypeOK /\ KeyInv /\ MutexInv
  BY DEF Inv
<1>a. pc[t] \in InCall /\ Searched(t)
  BY <1>0 DEF Inv, SearchInv, InCall, TypeOK, Location
<1>b. ChainOf(t) \in Chain /\ HashOf(key[t]) \in Nat \ {0} /\ key[t] \in Key
  BY <1>0, <1>a, ChainOfType
<1>c. ChainOf(t)' = CellIndex(HashOf(key'[t]))
  BY DEF ChainOf
<1>1. UNCHANGED SharedVars
  BY DEF SharedVars
<1>2. TypeOK'
  <2>1. pc' \in [Thread -> Location]
    BY <1>0 DEF TypeOK, Location
  <2>2. index' \in [Thread -> 0 .. CellSize]
    <3>1. index[t] \in 0 .. CellSize /\ (index[t] < CellSize => index[t] + 1 \in 0 .. CellSize)
      BY <1>0, TableAssumption DEF TypeOK
    <3> QED BY <1>0, <3>1 DEF TypeOK
  <2> QED BY <1>0, <2>1, <2>2 DEF TypeOK
<1>3. KeyInv'
  BY <1>0 DEF KeyInv, TypeOK, InCall
<1>4. MutexInv'
  BY <1>0 DEF MutexInv, TypeOK, StripeOf, ChainOf, Critical, Adding, Filling
<1>5. pc'[t] \in InCall => Searched(t)'
  <2>1. /\ ChainOf(t)' = ChainOf(t) /\ key'[t] = key[t] /\ cell'[t] = cell[t]
        /\ length' = length /\ hashes' = hashes /\ next'[t] = next[t]
    BY <1>0 DEF TypeOK, ChainOf
  <2>2. CASE hashes[ChainOf(t)][cell[t]][index[t]] = HashOf(key[t])
    <3>1. pc'[t] = "compare" /\ index'[t] = index[t] /\ index[t] \in Slot
      BY <1>0, <2>2, TableAssumption DEF TypeOK, Slot
    <3> QED BY <1>1, <1>a, <2>1, <2>2, <3>1, SharedStable DEF Searched
  <2>3. CASE hashes[ChainOf(t)][cell[t]][index[t]] # HashOf(key[t])
    <3>1. pc'[t] = "find" /\ index'[t] = index[t] + 1 /\ index[t] \in Nat
      BY <1>0, <2>3 DEF TypeOK
    <3>2. ~Holds(ChainOf(t), cell[t], index[t], key[t])
      <4>1. PublishedComplete /\ cell[t] \in CellNo /\ index[t] \in Slot
        BY <1>0, TableAssumption DEF Inv, TypeOK, Slot
      <4> QED BY <1>b, <2>3, <4>1, HoldsHash
    <3>3. \A s \in Slot : s < index[t] + 1 => s < index[t] \/ s = index[t]
      BY <3>1 DEF Slot
    <3> QED BY <1>1, <1>a, <2>1, <3>1, <3>2, <3>3, SharedStable DEF Searched
  <2> QED BY <2>2, <2>3
<1>6. \A u \in Thread \ {t} : Same(u)
  BY <1>0 DEF TypeOK, Same
<1>7. pc'[t] \notin Adding
  BY <1>0 DEF TypeOK, Adding, Filling
<1> QED BY <1>1, <1>2, <1>3, <1>4, <1>5, <1>6, <1>7, LocalStep DEF Adding

\* A slot whose hash matches is passed only when its key differs.
LEMMA CompareStep ==
  ASSUME Inv, NEW t \in Thread, Compare(t)
  PROVE  Inv'
<1> USE DEF Compare, tableVars, memVars
<1>0. TypeOK /\ KeyInv /\ MutexInv
  BY DEF Inv
<1>a. pc[t] \in InCall /\ Searched(t)
  BY <1>0 DEF Inv, SearchInv, InCall, TypeOK, Location
<1>b. ChainOf(t) \in Chain /\ HashOf(key[t]) \in Nat \ {0} /\ key[t] \in Key
  BY <1>0, <1>a, ChainOfType
<1>c. ChainOf(t)' = CellIndex(HashOf(key'[t]))
  BY DEF ChainOf
<1>d. index[t] \in Slot /\ cell[t] \in CellNo /\ CellSize \in Nat
  BY <1>0, <1>a, TableAssumption DEF Searched, TypeOK
<1>1. UNCHANGED SharedVars
  BY DEF SharedVars
<1>2. TypeOK'
  <2>1. pc' \in [Thread -> Location]
    BY <1>0 DEF TypeOK, Location
  <2>2. index' \in [Thread -> 0 .. CellSize]
    <3>1. index[t] + 1 \in 0 .. CellSize
      BY <1>d DEF Slot
    <3> QED BY <1>0, <3>1 DEF TypeOK
  <2>3. id' \in [Thread -> Nat]
    <3>1. types[ChainOf(t)][cell[t]][index[t]] \in Nat
      BY <1>0, <1>b, <1>d DEF TypeOK
    <3> QED BY <1>0, <3>1 DEF TypeOK
  <2> QED BY <1>0, <2>1, <2>2, <2>3 DEF TypeOK
<1>3. KeyInv'
  BY <1>0 DEF KeyInv, TypeOK, InCall
<1>4. MutexInv'
  BY <1>0 DEF MutexInv, TypeOK, StripeOf, ChainOf, Critical, Adding, Filling
<1>5. pc'[t] \in InCall => Searched(t)'
  <2>1. /\ ChainOf(t)' = ChainOf(t) /\ key'[t] = key[t] /\ cell'[t] = cell[t]
        /\ length' = length /\ hashes' = hashes /\ next'[t] = next[t]
    BY <1>0 DEF TypeOK, ChainOf
  <2>2. CASE KeyAt(t, cell[t], index[t]) = key[t]
    BY <1>0, <2>2 DEF TypeOK, InCall
  <2>3. CASE KeyAt(t, cell[t], index[t]) # key[t]
    <3>1. pc'[t] = "find" /\ index'[t] = index[t] + 1 /\ index[t] \in Nat
      BY <1>0, <2>3 DEF TypeOK
    <3>2. ~Holds(ChainOf(t), cell[t], index[t], key[t])
      BY <2>3 DEF Holds, KeyAt, KeyOf
    <3>3. \A s \in Slot : s < index[t] + 1 => s < index[t] \/ s = index[t]
      BY <3>1 DEF Slot
    <3> QED BY <1>1, <1>a, <2>1, <3>1, <3>2, <3>3, SharedStable DEF Searched
  <2> QED BY <2>2, <2>3
<1>6. \A u \in Thread \ {t} : Same(u)
  BY <1>0 DEF TypeOK, Same
<1>7. pc'[t] \notin Adding
  BY <1>0 DEF TypeOK, Adding, Filling
<1> QED BY <1>1, <1>2, <1>3, <1>4, <1>5, <1>6, <1>7, LocalStep DEF Adding

\* A search leaves a cell behind only when the cell was full before it began.
LEMMA NextCellStep ==
  ASSUME Inv, NEW t \in Thread, NextCell(t)
  PROVE  Inv'
<1> USE DEF NextCell, tableVars, memVars
<1>0. TypeOK /\ KeyInv /\ MutexInv
  BY DEF Inv
<1>a. pc[t] \in InCall /\ Searched(t)
  BY <1>0 DEF Inv, SearchInv, InCall, TypeOK, Location
<1>b. ChainOf(t) \in Chain /\ HashOf(key[t]) \in Nat \ {0} /\ key[t] \in Key
  BY <1>0, <1>a, ChainOfType
<1>c. ChainOf(t)' = CellIndex(HashOf(key'[t]))
  BY DEF ChainOf
<1>1. UNCHANGED SharedVars
  BY DEF SharedVars
<1>2. TypeOK'
  <2>1. pc' \in [Thread -> Location]
    BY <1>0 DEF TypeOK, Location
  <2>2. cell' \in [Thread -> CellNo]
    <3>1. next[t] => cell[t] + 1 \in CellNo
      BY <1>0, <1>a, <1>b, TableAssumption DEF Searched, TypeOK, CellNo
    <3> QED BY <1>0, <3>1 DEF TypeOK
  <2> QED BY <1>0, <2>1, <2>2 DEF TypeOK
<1>3. KeyInv'
  BY <1>0 DEF KeyInv, TypeOK, InCall
<1>4. MutexInv'
  BY <1>0 DEF MutexInv, TypeOK, StripeOf, ChainOf, Critical, Adding, Filling
<1>5. pc'[t] \in InCall => Searched(t)'
  <2>1. /\ ChainOf(t)' = ChainOf(t) /\ key'[t] = key[t] /\ length' = length
    BY <1>0 DEF TypeOK, ChainOf
  <2>2. CASE next[t]
    <3>1. pc'[t] = "load_next" /\ cell'[t] = cell[t] + 1
      BY <1>0, <2>2 DEF TypeOK
    <3>2. \A s \in Slot : s < index[t]
      BY TableAssumption DEF Slot
    <3>3. \A n \in CellNo : n < cell[t] + 1 => n < cell[t] \/ n = cell[t]
      BY <1>0 DEF TypeOK, CellNo
    <3> QED BY <1>1, <1>a, <2>1, <2>2, <3>1, <3>2, <3>3, SharedStable DEF Searched
  <2>3. CASE ~next[t]
    <3>1. pc'[t] = "lock" /\ cell'[t] = cell[t]
      BY <1>0, <2>3 DEF TypeOK
    <3> QED BY <1>1, <1>a, <2>1, <3>1, SharedStable DEF Searched
  <2> QED BY <2>2, <2>3
<1>6. \A u \in Thread \ {t} : Same(u)
  BY <1>0 DEF TypeOK, Same
<1>7. pc'[t] \notin Adding
  BY <1>0 DEF TypeOK, Adding, Filling
<1> QED BY <1>1, <1>2, <1>3, <1>4, <1>5, <1>6, <1>7, LocalStep DEF Adding

\* A thread that gets the stripe mutex is alone in its critical section.
LEMMA LockStep ==
  ASSUME Inv, NEW t \in Thread, Lock(t)
  PROVE  Inv'
<1> USE DEF Lock, tableVars, memVars
<1>0. TypeOK /\ KeyInv /\ MutexInv
  BY DEF Inv
<1>a. pc[t] \in InCall /\ Searched(t)
  BY <1>0 DEF Inv, SearchInv, InCall, TypeOK, Location
<1>b. ChainOf(t) \in Chain /\ HashOf(key[t]) \in Nat \ {0} /\ key[t] \in Key
  BY <1>0, <1>a, ChainOfType
<1>c. ChainOf(t)' = CellIndex(HashOf(key'[t]))
  BY DEF ChainOf
<1>1. UNCHANGED SharedVars
  BY DEF SharedVars
<1>2. TypeOK'
  <2>1. pc' \in [Thread -> Location]
    BY <1>0 DEF TypeOK, Location
  <2>2. mutexes' \in [Stripe -> Thread \cup {NoThread}]
    BY <1>0 DEF TypeOK
  <2> QED BY <1>0, <2>1, <2>2 DEF TypeOK
<1>3. KeyInv'
  BY <1>0 DEF KeyInv, TypeOK, InCall
<1>4. MutexInv'
  <2> SUFFICES ASSUME NEW u \in Thread, pc'[u] \in Critical
               PROVE  mutexes'[StripeOf(u)'] = u
    BY DEF MutexInv
  <2>1. StripeOf(u)' = StripeOf(u) /\ StripeOf(t) \in Stripe
    BY <1>0, <1>a, ChainOfType DEF StripeOf, ChainOf
  <2>2. CASE u = t
    BY <1>0, <2>1, <2>2 DEF TypeOK
  <2>3. CASE u # t
    BY <1>0, <2>1, <2>3, ThreadAssumption DEF MutexInv, TypeOK
  <2> QED BY <2>2, <2>3
<1>5. pc'[t] \in InCall => Searched(t)'
  <2>1. /\ ChainOf(t)' = ChainOf(t) /\ key'[t] = key[t] /\ length' = length
        /\ cell'[t] = cell[t] /\ hashes' = hashes
    BY <1>0 DEF TypeOK, ChainOf
  <2>2. pc'[t] = "check"
    BY <1>0 DEF TypeOK
  <2> QED BY <1>1, <1>a, <2>1, <2>2, SharedStable DEF Searched
<1>6. \A u \in Thread \ {t} : Same(u)
  BY <1>0 DEF TypeOK, Same
<1>7. pc'[t] \notin Adding
  BY <1>0 DEF TypeOK, Adding, Filling
<1> QED BY <1>1, <1>2, <1>3, <1>4, <1>5, <1>6, <1>7, LocalStep DEF Adding

\* A hit under the lock gives the mutex back and changes no entry.
LEMMA CheckHitStep ==
  ASSUME Inv, NEW t \in Thread, CheckHit(t)
  PROVE  Inv'
<1> USE DEF CheckHit, tableVars, memVars
<1>0. TypeOK /\ KeyInv /\ MutexInv
  BY DEF Inv
<1>a. pc[t] \in InCall /\ Searched(t)
  BY <1>0 DEF Inv, SearchInv, InCall, TypeOK, Location
<1>b. ChainOf(t) \in Chain /\ HashOf(key[t]) \in Nat \ {0} /\ key[t] \in Key
  BY <1>0, <1>a, ChainOfType
<1>c. ChainOf(t)' = CellIndex(HashOf(key'[t]))
  BY DEF ChainOf
<1>1. UNCHANGED SharedVars
  BY DEF SharedVars
<1>2. TypeOK'
  <2>1. pc' \in [Thread -> Location]
    BY <1>0 DEF TypeOK, Location
  <2>2. id' \in [Thread -> Nat]
    <3>1. \A s \in Slot : types[ChainOf(t)][cell[t]][s] \in Nat
      BY <1>0, <1>b DEF TypeOK
    <3> QED BY <1>0, <3>1 DEF TypeOK, Hits
  <2>3. mutexes' \in [Stripe -> Thread \cup {NoThread}]
    BY <1>0 DEF TypeOK, Unlock
  <2> QED BY <1>0, <2>1, <2>2, <2>3 DEF TypeOK
<1>3. KeyInv'
  BY <1>0 DEF KeyInv, TypeOK, InCall
<1>4. MutexInv'
  <2>1. pc[t] \in Critical /\ pc'[t] \notin Critical
    BY <1>0 DEF TypeOK, Critical, Adding, Filling
  <2>2. \A u \in Thread \ {t} : pc'[u] = pc[u] /\ key'[u] = key[u]
    BY <1>0 DEF TypeOK
  <2> QED BY <1>0, <2>1, <2>2, UnlockMutex
<1>5. pc'[t] \in InCall => Searched(t)'
  BY <1>0 DEF TypeOK, InCall
<1>6. \A u \in Thread \ {t} : Same(u)
  BY <1>0 DEF TypeOK, Same
<1>7. pc'[t] \notin Adding
  BY <1>0 DEF TypeOK, Adding, Filling
<1> QED BY <1>1, <1>2, <1>3, <1>4, <1>5, <1>6, <1>7, LocalStep DEF Adding

\* A thread that reaches the end of the chain under the lock knows that its
\* key is not in it.
LEMMA CheckMissStep ==
  ASSUME Inv, NEW t \in Thread, CheckMiss(t)
  PROVE  Inv'
<1> USE DEF CheckMiss, tableVars, memVars
<1>0. TypeOK /\ KeyInv /\ MutexInv
  BY DEF Inv
<1>a. pc[t] \in InCall /\ Searched(t)
  BY <1>0 DEF Inv, SearchInv, InCall, TypeOK, Location
<1>b. ChainOf(t) \in Chain /\ HashOf(key[t]) \in Nat \ {0} /\ key[t] \in Key
  BY <1>0, <1>a, ChainOfType
<1>c. ChainOf(t)' = CellIndex(HashOf(key'[t]))
  BY DEF ChainOf
<1>d. /\ PublishedComplete /\ cell[t] \in CellNo
      /\ length[ChainOf(t)] \in 1 .. MaxCells /\ MaxCells \in Nat
  BY <1>0, <1>b, TableAssumption DEF Inv, TypeOK
<1>e. \A s \in Slot : ~Holds(ChainOf(t), cell[t], s, key[t])
  BY <1>b, <1>d, HoldsHash DEF Hits, Holds, KeyAt, KeyOf
<1>1. UNCHANGED SharedVars
  BY DEF SharedVars
<1>2. TypeOK'
  <2>1. pc' \in [Thread -> Location]
    BY <1>0 DEF TypeOK, Location
  <2>2. cell' \in [Thread -> CellNo]
    <3>1. cell[t] + 1 < length[ChainOf(t)] => cell[t] + 1 \in CellNo
      BY <1>d DEF CellNo
    <3> QED BY <1>0, <3>1 DEF TypeOK
  <2> QED BY <1>0, <2>1, <2>2 DEF TypeOK
<1>3. KeyInv'
  BY <1>0 DEF KeyInv, TypeOK, InCall
<1>4. MutexInv'
  BY <1>0 DEF MutexInv, TypeOK, StripeOf, ChainOf, Critical, Adding, Filling
<1>5. pc'[t] \in InCall => Searched(t)'
  <2>1. /\ ChainOf(t)' = ChainOf(t) /\ key'[t] = key[t] /\ length' = length
        /\ hashes' = hashes
    BY <1>0 DEF TypeOK, ChainOf
  <2>2. CASE cell[t] + 1 < length[ChainOf(t)]
    <3>1. pc'[t] = "check" /\ cell'[t] = cell[t] + 1
      BY <1>0, <2>2 DEF TypeOK
    <3>2. \A n \in CellNo : n < cell[t] + 1 => n < cell[t] \/ n = cell[t]
      BY <1>d DEF CellNo
    <3> QED BY <1>1, <1>a, <1>e, <2>1, <2>2, <3>1, <3>2, SharedStable DEF Searched
  <2>3. CASE ~(cell[t] + 1 < length[ChainOf(t)])
    <3>1. pc'[t] = "alloc_type" /\ cell'[t] = cell[t]
      BY <1>0, <2>3 DEF TypeOK
    <3> QED BY <1>1, <1>a, <2>1, <3>1, SharedStable DEF Searched
  <2> QED BY <2>2, <2>3
<1>6. \A u \in Thread \ {t} : Same(u)
  BY <1>0 DEF TypeOK, Same
<1>7. pc'[t] \in Adding => ReadyToAdd(t)'
  <2> SUFFICES ASSUME pc'[t] \in Adding PROVE ReadyToAdd(t)'
    OBVIOUS
  <2>1. ~(cell[t] + 1 < length[ChainOf(t)]) /\ cell'[t] = cell[t] /\ pc'[t] = "alloc_type"
    BY <1>0 DEF TypeOK, Adding, Filling
  <2>2. ChainOf(t)' = ChainOf(t) /\ key'[t] = key[t] /\ length' = length
    BY DEF ChainOf
  <2>3. cell[t] + 1 = length[ChainOf(t)]
    BY <1>a, <1>d, <2>1 DEF Searched, CellNo
  <2> QED BY <1>1, <1>e, <2>1, <2>2, <2>3, SharedStable DEF ReadyToAdd
<1>8. pc'[t] \notin Filling
  BY <1>0 DEF TypeOK, Filling
<1> QED BY <1>1, <1>2, <1>3, <1>4, <1>5, <1>6, <1>7, <1>8, LocalStep

\* A thread asks for a new cell only when the last one is full.
LEMMA CellFullStep ==
  ASSUME Inv, NEW t \in Thread, CellFull(t)
  PROVE  Inv'
<1> USE DEF CellFull, tableVars, memVars
<1>0. TypeOK /\ KeyInv /\ MutexInv
  BY DEF Inv
<1>a. pc[t] \in InCall /\ Searched(t)
  BY <1>0 DEF Inv, SearchInv, InCall, TypeOK, Location
<1>b. ChainOf(t) \in Chain /\ HashOf(key[t]) \in Nat \ {0} /\ key[t] \in Key
  BY <1>0, <1>a, ChainOfType
<1>c. ChainOf(t)' = CellIndex(HashOf(key'[t]))
  BY DEF ChainOf
<1>1. UNCHANGED SharedVars
  BY DEF SharedVars
<1>2. TypeOK'
  <2>1. pc' \in [Thread -> Location]
    BY <1>0 DEF TypeOK, Location
  <2> QED BY <1>0, <2>1 DEF TypeOK
<1>3. KeyInv'
  BY <1>0 DEF KeyInv, TypeOK, InCall
<1>4. MutexInv'
  BY <1>0 DEF MutexInv, TypeOK, StripeOf, ChainOf, Critical, Adding, Filling
<1>5. pc'[t] \in InCall => Searched(t)'
  <2>1. /\ ChainOf(t)' = ChainOf(t) /\ key'[t] = key[t] /\ length' = length
        /\ cell'[t] = cell[t] /\ hashes' = hashes
    BY <1>0 DEF TypeOK, ChainOf
  <2>2. pc'[t] = "alloc_cell"
    BY <1>0 DEF TypeOK
  <2> QED BY <1>1, <1>a, <2>1, <2>2, SharedStable DEF Searched
<1>6. \A u \in Thread \ {t} : Same(u)
  BY <1>0 DEF TypeOK, Same
<1>7. ReadyToAdd(t)'
  <2>1. /\ ChainOf(t)' = ChainOf(t) /\ key'[t] = key[t] /\ length' = length
        /\ cell'[t] = cell[t] /\ hashes' = hashes
    BY <1>0 DEF TypeOK, ChainOf
  <2>2. pc'[t] = "alloc_cell" /\ ReadyToAdd(t)
    BY <1>0 DEF TypeOK, Inv, AddInv, Adding, Filling
  <2>3. \A s \in Slot : hashes[ChainOf(t)][cell[t]][s] # 0
    BY DEF Free
  <2> QED BY <1>1, <2>1, <2>2, <2>3, SharedStable DEF ReadyToAdd
<1>8. pc[t] = "place" /\ pc'[t] = "alloc_cell" /\ key' = key /\ id' = id
  BY <1>0 DEF TypeOK
<1> QED BY <1>1, <1>2, <1>3, <1>4, <1>5, <1>6, <1>7, <1>8, LocalStep DEF Filling

\* A returning thread leaves nothing behind.
LEMMA ReturnStep ==
  ASSUME Inv, NEW t \in Thread, Return(t)
  PROVE  Inv'
<1> USE DEF Return, tableVars, memVars
<1>0. TypeOK /\ KeyInv /\ MutexInv
  BY DEF Inv
<1>1. UNCHANGED SharedVars
  BY DEF SharedVars
<1>2. TypeOK'
  <2>1. pc' \in [Thread -> Location]
    BY <1>0 DEF TypeOK, Location
  <2>2. key' \in [Thread -> Key \cup {NoneKey}]
    BY <1>0 DEF TypeOK
  <2>3. cell' \in [Thread -> CellNo]
    BY <1>0, ZeroCell DEF TypeOK
  <2>4. next' \in [Thread -> BOOLEAN]
    BY <1>0 DEF TypeOK
  <2>5. index' \in [Thread -> 0 .. CellSize]
    BY <1>0, TableAssumption DEF TypeOK
  <2>6. id' \in [Thread -> Nat]
    BY <1>0 DEF TypeOK
  <2> QED BY <1>0, <2>1, <2>2, <2>3, <2>4, <2>5, <2>6 DEF TypeOK
<1>3. KeyInv'
  BY <1>0 DEF KeyInv, TypeOK, InCall
<1>4. MutexInv'
  BY <1>0 DEF MutexInv, TypeOK, StripeOf, ChainOf, Critical, Adding, Filling
<1>5. pc'[t] \in InCall => Searched(t)'
  BY <1>0 DEF TypeOK, InCall
<1>6. \A u \in Thread \ {t} : Same(u)
  BY <1>0 DEF TypeOK, Same
<1>7. pc'[t] \notin Adding
  BY <1>0 DEF TypeOK, Adding, Filling
<1> QED BY <1>1, <1>2, <1>3, <1>4, <1>5, <1>6, <1>7, LocalStep DEF Adding

(***************************************************************************)
(* Steps that allocate.                                                    *)
(***************************************************************************)

\* A step of t that leaves the table, the published types and the types the
\* other threads fill in alone: what is left to prove is about t.
LEMMA AllocStep ==
  ASSUME Inv, NEW t \in Thread, pc[t] \in Adding,
         UNCHANGED <<types, hashes, length, mutexes, key, cell>>,
         \A u \in Thread \ {t} : Same(u),
         \A c \in Chain, n \in CellNo, s \in Slot :
           Published(c, n, s) => heap'[types[c][n][s]] = heap[types[c][n][s]],
         \A u \in Thread \ {t} : pc[u] \in Filling => heap'[id[u]] = heap[id[u]],
         pc'[t] \in {"alloc_type", "alloc_members", "place", "alloc_cell"},
         pc'[t] = "alloc_cell" => pc[t] = "alloc_cell",
         pc'[t] \in Filling => OwnType(t)',
         TypeOK', ArenaInv'
  PROVE  Inv'
<1> USE DEF Adding, Filling
<1>1. \A c \in Chain, n \in CellNo, s \in Slot :
        /\ Published(c, n, s)' <=> Published(c, n, s)
        /\ Published(c, n, s) => KeyOf(types[c][n][s])' = KeyOf(types[c][n][s])
  BY DEF Published, KeyOf
<1>2. \A c \in Chain, n \in CellNo, s \in Slot :
        \A k : Holds(c, n, s, k)' <=> Holds(c, n, s, k)
  BY <1>1 DEF Holds
<1>3. FullInv'
  BY DEF Inv, FullInv
<1>4. PublishedComplete'
  BY <1>1 DEF Inv, PublishedComplete
<1>5. OneSlotPerKey'
  BY <1>1 DEF Inv, OneSlotPerKey
<1>6. \A u \in Thread : ChainOf(u)' = ChainOf(u) /\ StripeOf(u)' = StripeOf(u)
  BY DEF ChainOf, StripeOf
<1>7. KeyInv'
  <2>1. pc[t] \in InCall /\ pc'[t] \in InCall
    BY DEF InCall, Location
  <2> QED BY <2>1 DEF Inv, KeyInv, Same
<1>8. MutexInv'
  BY <1>6 DEF Inv, MutexInv, Critical, Same
<1>9. \A u \in Thread : pc[u] \in InCall => ChainOf(u) \in Chain /\ cell[u] \in CellNo
  BY ChainOfType DEF Inv, TypeOK
<1>10. SearchInv'
  <2> SUFFICES ASSUME NEW u \in Thread, pc'[u] \in InCall
               PROVE  Searched(u)'
    BY DEF SearchInv
  <2>1. pc[u] \in InCall
    BY DEF Same, InCall, Inv, TypeOK, Location
  <2>2. Searched(u) /\ ChainOf(u) \in Chain /\ cell[u] \in CellNo
    BY <1>9, <2>1 DEF Inv, SearchInv
  <2>3. CASE u = t
    BY <1>2, <1>6, <2>2, <2>3 DEF Searched
  <2>4. CASE u # t
    BY <1>2, <1>6, <2>2, <2>4 DEF Searched, Same
  <2> QED BY <2>3, <2>4
<1>11. AddInv'
  <2> SUFFICES ASSUME NEW u \in Thread, pc'[u] \in Adding
               PROVE  ReadyToAdd(u)'
    BY DEF AddInv
  <2>1. pc[u] \in Adding /\ pc[u] \in InCall
    BY DEF Same, InCall, Inv, TypeOK, Location
  <2>2. ReadyToAdd(u) /\ ChainOf(u) \in Chain /\ cell[u] \in CellNo
    BY <1>9, <2>1 DEF Inv, AddInv
  <2>3. CASE u = t
    BY <1>2, <1>6, <2>2, <2>3 DEF ReadyToAdd
  <2>4. CASE u # t
    BY <1>2, <1>6, <2>2, <2>4 DEF ReadyToAdd, Same
  <2> QED BY <2>3, <2>4
<1>12. FillInv'
  <2> SUFFICES ASSUME NEW u \in Thread \ {t}, pc'[u] \in Filling
               PROVE  OwnType(u)'
    BY DEF FillInv
  <2>1. Same(u) /\ OwnType(u) /\ heap'[id[u]] = heap[id[u]]
    BY DEF Inv, FillInv, Same
  <2>2. \A v \in Thread : v # u /\ pc'[v] \in Filling => id'[v] # id[u]
    <3>1. \A v \in Thread \ {t} : v # u /\ pc'[v] \in Filling => id'[v] # id[u]
      BY <2>1 DEF OwnType, Same
    <3>2. pc'[t] \in Filling => id'[t] # id[u]
      BY <2>1 DEF OwnType, Same
    <3> QED BY <3>1, <3>2
  <2> QED BY <1>1, <2>1, <2>2 DEF OwnType, Same
<1> QED BY <1>3, <1>4, <1>5, <1>7, <1>8, <1>10, <1>11, <1>12 DEF Inv

\* An allocation takes units from the free end of the thread's own block.
LEMMA TakeArena ==
  ASSUME Inv, NEW t \in Thread, NEW size \in Nat, NEW align \in Nat \ {0},
         Fits(t, size, align), Take(t, size, align), top' = top
  PROVE  /\ arena' \in [Thread -> [base : Nat, used : Nat, len : Nat]]
         /\ \A u \in Thread : /\ arena'[u].base = arena[u].base
                              /\ arena'[u].len = arena[u].len
                              /\ arena'[u].used >= arena[u].used
                              /\ arena'[u].used <= arena'[u].len
         /\ \A i \in Nat : Allocated(i) => Allocated(i)'
         /\ Aligned(t, align) \in Nat
         /\ Aligned(t, align) >= arena[t].used
         /\ arena'[t].used = Aligned(t, align) + size
<1>1. TypeOK /\ ArenaInv
  BY DEF Inv
<1>2. /\ arena \in [Thread -> [base : Nat, used : Nat, len : Nat]]
      /\ \A u \in Thread : arena[u].used <= arena[u].len
  BY <1>1 DEF TypeOK, ArenaInv
<1>3. /\ arena[t].base \in Nat /\ arena[t].used \in Nat /\ arena[t].len \in Nat
  BY <1>2
<1>4. Aligned(t, align) \in Nat /\ Aligned(t, align) >= arena[t].used
  <2>1. AlignForward(arena[t].base + arena[t].used, align) \in Nat
        /\ AlignForward(arena[t].base + arena[t].used, align) >= arena[t].base + arena[t].used
    BY <1>3, AlignForwardBound
  <2> QED BY <1>3, <2>1 DEF Aligned
<1>5. arena' = [arena EXCEPT ![t].used = Aligned(t, align) + size]
      /\ Aligned(t, align) + size <= arena[t].len
  BY DEF Take, Fits
<1>6. arena' \in [Thread -> [base : Nat, used : Nat, len : Nat]]
  BY <1>2, <1>4, <1>5
<1>7. \A u \in Thread : /\ arena'[u].base = arena[u].base
                        /\ arena'[u].len = arena[u].len
                        /\ arena'[u].used >= arena[u].used
                        /\ arena'[u].used <= arena'[u].len
  <2> SUFFICES ASSUME NEW u \in Thread
               PROVE  /\ arena'[u].base = arena[u].base
                      /\ arena'[u].len = arena[u].len
                      /\ arena'[u].used >= arena[u].used
                      /\ arena'[u].used <= arena'[u].len
    OBVIOUS
  <2>1. CASE u = t
    BY <1>2, <1>3, <1>4, <1>5, <2>1
  <2>2. CASE u # t
    BY <1>2, <1>5, <2>2
  <2> QED BY <2>1, <2>2
<1>8. \A i \in Nat : Allocated(i) => Allocated(i)'
  <2> SUFFICES ASSUME NEW i \in Nat, Allocated(i), NEW u \in Thread
               PROVE  \/ i < arena'[u].base + arena'[u].used
                      \/ i >= arena'[u].base + arena'[u].len
    BY DEF Allocated
  <2>1. i < arena[u].base + arena[u].used \/ i >= arena[u].base + arena[u].len
    BY DEF Allocated
  <2>2. arena[u].used \in Nat /\ arena'[u].used \in Nat /\ arena[u].base \in Nat
    BY <1>2, <1>6
  <2> QED BY <1>7, <2>1, <2>2
<1>9. arena'[t].used = Aligned(t, align) + size
  BY <1>2, <1>5
<1> QED BY <1>4, <1>6, <1>7, <1>8, <1>9

\* Such an allocation keeps the blocks disjoint and what was allocated
\* allocated.
LEMMA TakeArenaInv ==
  ASSUME Inv, NEW t \in Thread, NEW size \in Nat, NEW align \in Nat \ {0},
         Fits(t, size, align), Take(t, size, align), top' = top,
         \A u \in Thread : pc'[u] \in Filling =>
           Allocated(id[u])' \/ (id'[u] = id[u] /\ pc[u] \in Filling),
         \A c \in Chain, n \in CellNo, s \in Slot :
           Published(c, n, s)' =>
             \/ Published(c, n, s) /\ types'[c][n][s] = types[c][n][s]
             \/ types'[c][n][s] = id[t] /\ pc[t] \in Filling
  PROVE  ArenaInv'
<1> USE TakeArena
<1>1. TypeOK /\ ArenaInv /\ FillInv /\ PublishedComplete
  BY DEF Inv
<1>2. \A u \in Thread : pc[u] \in Filling => id[u] \in Nat /\ Allocated(id[u])
  BY <1>1 DEF ArenaInv, TypeOK
<1>3. \A c \in Chain, n \in CellNo, s \in Slot :
        Published(c, n, s) => types[c][n][s] \in Nat /\ Allocated(types[c][n][s])
  BY <1>1 DEF ArenaInv, TypeOK
<1>4. \A u \in Thread : pc'[u] \in Filling => Allocated(id[u])'
  BY <1>2 DEF Allocated
<1>5. \A c \in Chain, n \in CellNo, s \in Slot :
        Published(c, n, s)' => Allocated(types[c][n][s])'
  <2> SUFFICES ASSUME NEW c \in Chain, NEW n \in CellNo, NEW s \in Slot,
                      Published(c, n, s)'
               PROVE  Allocated(types[c][n][s])'
    OBVIOUS
  <2>1. types'[c][n][s] \in Nat /\ Allocated(types'[c][n][s])
    BY <1>2, <1>3
  <2> QED BY <2>1 DEF Allocated
<1>6. \A u \in Thread : /\ arena'[u].used <= arena'[u].len
                        /\ arena'[u].base + arena'[u].len <= top'
                        /\ arena'[u].base + arena'[u].len <= ArenaSize + 1
                        /\ arena'[u].len # 0 => arena'[u].base # 0
  BY <1>1 DEF ArenaInv
<1>7. \A u, v \in Thread : u # v =>
        \/ arena'[u].base + arena'[u].len <= arena'[v].base
        \/ arena'[v].base + arena'[v].len <= arena'[u].base
  BY <1>1 DEF ArenaInv
<1>8. top' > 0
  BY <1>1 DEF ArenaInv
<1> QED BY <1>4, <1>5, <1>6, <1>7, <1>8 DEF ArenaInv

\* A refilled thread arena is a block no other thread has.
LEMMA RefillArenaStep ==
  ASSUME Inv, NEW t \in Thread, RefillArena(t)
  PROVE  Inv' /\ QuietTable
<1> DEFINE base == AlignForward(top, PageSize)
           len  == Larger(LocalSize, Request(t)[1])
<1>1. TypeOK /\ ArenaInv
  BY DEF Inv
<1>2. pc[t] \in InCall /\ pc[t] \in Adding /\ key[t] \in Key
  BY <1>1, ChainOfType DEF RefillArena, InCall, Adding, Filling, Location, Inv
<1>3. Request(t)[1] \in Nat
  BY <1>2, MemoryAssumption, KeyAssumption DEF Request
<1>4. base \in Nat /\ base >= top /\ len \in Nat
  BY <1>1, <1>3, AlignForwardBound, MemoryAssumption DEF Larger, TypeOK
<1>5. /\ arena' = [arena EXCEPT ![t] = [base |-> base, used |-> 0, len |-> len]]
      /\ top' = base + len /\ base + len <= ArenaSize + 1
      /\ UNCHANGED <<types, hashes, length, mutexes, heap, pc, key, cell, next, index, id>>
  BY DEF RefillArena, Refill, tableVars, localVars
<1> HIDE DEF base, len
<1>6. /\ arena' \in [Thread -> [base : Nat, used : Nat, len : Nat]] /\ top' \in Nat
      /\ arena'[t].base = base /\ arena'[t].used = 0 /\ arena'[t].len = len
      /\ \A u \in Thread \ {t} : arena'[u] = arena[u]
  BY <1>1, <1>4, <1>5 DEF TypeOK
<1>7. TypeOK'
  BY <1>1, <1>5, <1>6 DEF TypeOK
<1>8. \A i \in Nat : Allocated(i) => Allocated(i)'
  BY <1>1, <1>4, <1>5, <1>6 DEF Allocated, TypeOK
<1>9. ArenaInv'
  <2>1. \A u \in Thread : pc'[u] \in Filling => Allocated(id[u])'
    <3>1. \A u \in Thread : pc[u] \in Filling => id[u] \in Nat /\ Allocated(id[u])
      BY <1>1 DEF ArenaInv, TypeOK
    <3> QED BY <1>5, <1>8, <3>1 DEF Allocated
  <2>2. \A c \in Chain, n \in CellNo, s \in Slot :
          Published(c, n, s)' => Allocated(types[c][n][s])'
    <3> SUFFICES ASSUME NEW c \in Chain, NEW n \in CellNo, NEW s \in Slot,
                        Published(c, n, s)'
                 PROVE  Allocated(types[c][n][s])'
      OBVIOUS
    <3>1. types'[c][n][s] \in Nat /\ Allocated(types'[c][n][s])
      BY <1>1, <1>5 DEF ArenaInv, TypeOK, Published
    <3> QED BY <1>8, <3>1 DEF Allocated
  <2>3. \A u \in Thread : /\ arena'[u].used <= arena'[u].len
                          /\ arena'[u].base + arena'[u].len <= top'
                          /\ arena'[u].base + arena'[u].len <= ArenaSize + 1
                          /\ arena'[u].len # 0 => arena'[u].base # 0
    BY <1>1, <1>4, <1>5, <1>6 DEF ArenaInv, TypeOK
  <2>4. \A u, v \in Thread : u # v =>
          \/ arena'[u].base + arena'[u].len <= arena'[v].base
          \/ arena'[v].base + arena'[v].len <= arena'[u].base
    <3> SUFFICES ASSUME NEW u \in Thread, NEW v \in Thread, u # v
                 PROVE  \/ arena'[u].base + arena'[u].len <= arena'[v].base
                        \/ arena'[v].base + arena'[v].len <= arena'[u].base
      OBVIOUS
    <3>1. \A w \in Thread : arena[w].base + arena[w].len <= top
      BY <1>1 DEF ArenaInv
    <3>2. \A w \in Thread : arena[w].base \in Nat /\ arena[w].len \in Nat /\ top \in Nat
      BY <1>1 DEF TypeOK
    <3>3. CASE u # t /\ v # t
      BY <1>1, <1>6, <3>3 DEF ArenaInv
    <3>4. CASE u = t \/ v = t
      BY <1>4, <1>6, <3>1, <3>2, <3>4
    <3> QED BY <3>3, <3>4
  <2>5. top' > 0
    BY <1>1, <1>4, <1>5 DEF ArenaInv, TypeOK
  <2> QED BY <2>1, <2>2, <2>3, <2>4, <2>5 DEF ArenaInv
<1>10. /\ \A u \in Thread : Same(u)
       /\ pc'[t] \in {"alloc_type", "alloc_members", "place", "alloc_cell"}
       /\ pc'[t] = pc[t]
  BY <1>5 DEF Same, RefillArena
<1>11. pc'[t] \in Filling => OwnType(t)'
  <2>1. pc[t] \in Filling => OwnType(t)
    BY DEF Inv, FillInv
  <2> QED BY <1>5, <2>1 DEF OwnType, Published
<1>q. QuietTable
  BY <1>5 DEF QuietTable, Published
<1> QED BY <1>q, <1>2, <1>5, <1>7, <1>9, <1>10, <1>11, AllocStep

\* A new Type is in memory nobody else uses.
LEMMA AllocTypeStep ==
  ASSUME Inv, NEW t \in Thread, AllocType(t)
  PROVE  Inv' /\ QuietTable
<1>1. TypeOK /\ ArenaInv /\ FillInv /\ PublishedComplete
  BY DEF Inv
<1>2. pc[t] \in InCall /\ pc[t] \in Adding /\ pc[t] = "alloc_type" /\ key[t] \in Key
  BY <1>1, ChainOfType DEF AllocType, InCall, Adding, Filling, Location, Inv
<1>3a. /\ Fits(t, TypeSize, 1) /\ Take(t, TypeSize, 1) /\ top' = top
  BY DEF AllocType
<1>4. /\ arena' \in [Thread -> [base : Nat, used : Nat, len : Nat]]
      /\ \A u \in Thread : /\ arena'[u].base = arena[u].base
                           /\ arena'[u].len = arena[u].len
                           /\ arena'[u].used >= arena[u].used
                           /\ arena'[u].used <= arena'[u].len
      /\ \A j \in Nat : Allocated(j) => Allocated(j)'
      /\ Aligned(t, 1) \in Nat
      /\ Aligned(t, 1) >= arena[t].used
      /\ arena'[t].used = Aligned(t, 1) + TypeSize
  BY <1>3a, TakeArena, MemoryAssumption
<1>5. /\ arena[t].base \in Nat /\ arena[t].used \in Nat /\ arena[t].len \in Nat
      /\ top \in Nat /\ TypeSize \in Nat \ {0} /\ ArenaSize \in Nat
  BY <1>1, MemoryAssumption DEF TypeOK
<1>i. PICK i \in Nat : i = arena[t].base + Aligned(t, 1)
  BY <1>4, <1>5
<1>3. /\ id' = [id EXCEPT ![t] = i]
      /\ heap' = [heap EXCEPT ![i] = [key |-> key[t], owned |-> FALSE, id |-> 0]]
      /\ pc' = [pc EXCEPT ![t] = "alloc_members"]
      /\ Fits(t, TypeSize, 1) /\ Take(t, TypeSize, 1)
      /\ UNCHANGED <<types, hashes, length, mutexes, top, key, cell, next, index>>
  BY <1>i DEF AllocType, tableVars
<1>6. /\ i \in TypeId /\ i < top
      /\ i >= arena[t].base + arena[t].used
      /\ i < arena[t].base + arena[t].len
      /\ i < arena'[t].base + arena'[t].used
  <2>1. Aligned(t, 1) + TypeSize <= arena[t].len
    BY <1>3 DEF Fits
  <2>2. arena[t].base + arena[t].len <= top /\ arena[t].base + arena[t].len <= ArenaSize + 1
        /\ (arena[t].len # 0 => arena[t].base # 0)
    BY <1>1 DEF ArenaInv
  <2> QED BY <1>4, <1>5, <1>i, <2>1, <2>2 DEF TypeId
<1>7. \A j \in Nat : Allocated(j) => j # i
  BY <1>5, <1>6 DEF Allocated
<1>8. \A c \in Chain, n \in CellNo, s \in Slot :
        Published(c, n, s) => types[c][n][s] \in TypeId /\ types[c][n][s] # i
  BY <1>1, <1>7 DEF ArenaInv, PublishedComplete, TypeId
<1>9. \A u \in Thread : pc[u] \in Filling => id[u] \in TypeId /\ id[u] # i
  BY <1>1, <1>7 DEF ArenaInv, FillInv, OwnType, TypeId
<1>10. TypeOK'
  <2>1. heap' \in [TypeId -> TypeRecord]
    BY <1>1, <1>2, <1>3 DEF TypeOK, TypeRecord
  <2>2. pc' \in [Thread -> Location] /\ id' \in [Thread -> Nat]
    BY <1>1, <1>3, <1>6 DEF TypeOK, Location, TypeId
  <2> QED BY <1>1, <1>3, <1>4, <2>1, <2>2 DEF TypeOK
<1>11. Allocated(i)'
  <2> SUFFICES ASSUME NEW u \in Thread
               PROVE  \/ i < arena'[u].base + arena'[u].used
                      \/ i >= arena'[u].base + arena'[u].len
    BY <1>3, <1>6 DEF Allocated
  <2>1. CASE u = t
    BY <1>6, <2>1
  <2>2. CASE u # t
    <3>1. \/ arena[t].base + arena[t].len <= arena[u].base
          \/ arena[u].base + arena[u].len <= arena[t].base
      BY <1>1, <2>2 DEF ArenaInv
    <3>2. arena[u].base \in Nat /\ arena[u].used \in Nat /\ arena[u].len \in Nat
          /\ arena'[u].used \in Nat /\ i \in Nat
      BY <1>1, <1>4, <1>6 DEF TypeOK, TypeId
    <3> QED BY <1>4, <1>5, <1>6, <3>1, <3>2
  <2> QED BY <2>1, <2>2
<1>12. ArenaInv'
  <2>1. \A u \in Thread : pc'[u] \in Filling =>
          Allocated(id[u])' \/ (id'[u] = id[u] /\ pc[u] \in Filling)
    <3>1. Allocated(id[t])'
      BY <1>1, <1>3, <1>11 DEF Allocated, TypeOK
    <3> QED BY <1>1, <1>3, <3>1 DEF TypeOK
  <2>2. \A c \in Chain, n \in CellNo, s \in Slot :
          Published(c, n, s)' => Published(c, n, s) /\ types'[c][n][s] = types[c][n][s]
    BY <1>3 DEF Published
  <2> QED BY <1>3, <2>1, <2>2, TakeArenaInv, MemoryAssumption
<1>13. \A u \in Thread \ {t} : Same(u)
  BY <1>1, <1>3 DEF Same, TypeOK
<1>14. \A c \in Chain, n \in CellNo, s \in Slot :
         Published(c, n, s) => heap'[types[c][n][s]] = heap[types[c][n][s]]
  BY <1>1, <1>3, <1>8 DEF TypeOK
<1>15. \A u \in Thread \ {t} : pc[u] \in Filling => heap'[id[u]] = heap[id[u]]
  BY <1>1, <1>3, <1>9 DEF TypeOK
<1>16. pc'[t] = "alloc_members" /\ id'[t] = i
  BY <1>1, <1>3 DEF TypeOK
<1>17. OwnType(t)'
  <2>1. heap'[i].key = key'[t]
    BY <1>1, <1>3, <1>6 DEF TypeOK
  <2>2. \A c \in Chain, n \in CellNo, s \in Slot :
          Published(c, n, s)' => types'[c][n][s] # i
    BY <1>3, <1>8 DEF Published
  <2>3. \A u \in Thread : u # t /\ pc'[u] \in Filling => id'[u] # i
    BY <1>9, <1>13 DEF Same
  <2> QED BY <1>6, <1>16, <2>1, <2>2, <2>3 DEF OwnType
<1>q. QuietTable
  BY <1>3, <1>14 DEF QuietTable, Published
<1> QED BY <1>q, <1>2, <1>3, <1>10, <1>12, <1>13, <1>14, <1>15, <1>16, <1>17, AllocStep

\* Copying the members and setting the id completes a Type nobody sees.
LEMMA AllocMembersStep ==
  ASSUME Inv, NEW t \in Thread, AllocMembers(t)
  PROVE  Inv' /\ QuietTable
<1> USE DEF Filling
<1>1. TypeOK /\ ArenaInv /\ FillInv /\ PublishedComplete
  BY DEF Inv
<1>2. /\ pc[t] \in InCall /\ pc[t] \in Adding /\ pc[t] = "alloc_members"
      /\ key[t] \in Key /\ OwnType(t)
  BY <1>1, ChainOfType DEF AllocMembers, InCall, Adding, Location, Inv, FillInv
<1>3. /\ heap' = [heap EXCEPT ![id[t]] = [key |-> key[t], owned |-> TRUE, id |-> id[t]]]
      /\ pc' = [pc EXCEPT ![t] = "place"]
      /\ Fits(t, MembersSize[key[t]], 1) /\ Take(t, MembersSize[key[t]], 1)
      /\ UNCHANGED <<types, hashes, length, mutexes, top, key, cell, next, index, id>>
  BY DEF AllocMembers, tableVars
<1>4. MembersSize[key[t]] \in Nat
  BY <1>2, KeyAssumption
<1>5. arena' \in [Thread -> [base : Nat, used : Nat, len : Nat]]
  BY <1>3, <1>4, TakeArena
<1>6. TypeOK'
  <2>1. heap' \in [TypeId -> TypeRecord]
    BY <1>1, <1>2, <1>3 DEF TypeOK, TypeRecord
  <2>2. pc' \in [Thread -> Location]
    BY <1>1, <1>3 DEF TypeOK, Location
  <2> QED BY <1>1, <1>3, <1>5, <2>1, <2>2 DEF TypeOK
<1>7. /\ \A u \in Thread \ {t} : Same(u)
      /\ pc'[t] = "place" /\ id'[t] = id[t] /\ key'[t] = key[t]
  BY <1>1, <1>3 DEF Same, TypeOK
<1>8. ArenaInv'
  <2>1. \A u \in Thread : pc'[u] \in Filling => id'[u] = id[u] /\ pc[u] \in Filling
    BY <1>2, <1>7 DEF Same
  <2>2. \A c \in Chain, n \in CellNo, s \in Slot :
          Published(c, n, s)' => Published(c, n, s) /\ types'[c][n][s] = types[c][n][s]
    BY <1>3 DEF Published
  <2> QED BY <1>3, <1>4, <2>1, <2>2, TakeArenaInv
<1>9. \A c \in Chain, n \in CellNo, s \in Slot :
         Published(c, n, s) => heap'[types[c][n][s]] = heap[types[c][n][s]]
  BY <1>1, <1>2, <1>3 DEF TypeOK, OwnType, PublishedComplete
<1>10. \A u \in Thread \ {t} : pc[u] \in Filling => heap'[id[u]] = heap[id[u]]
  BY <1>1, <1>2, <1>3 DEF TypeOK, OwnType, FillInv
<1>11. OwnType(t)'
  <2>1. heap'[id[t]].key = key[t] /\ heap'[id[t]].owned /\ heap'[id[t]].id = id[t]
    BY <1>1, <1>2, <1>3 DEF TypeOK, OwnType
  <2>2. \A c \in Chain, n \in CellNo, s \in Slot :
          Published(c, n, s)' => types'[c][n][s] # id[t]
    BY <1>2, <1>3 DEF Published, OwnType
  <2>3. \A u \in Thread : u # t /\ pc'[u] \in Filling => id'[u] # id[t]
    BY <1>2, <1>7 DEF Same, OwnType
  <2> QED BY <1>2, <1>7, <2>1, <2>2, <2>3 DEF OwnType
<1>q. QuietTable
  BY <1>3, <1>9 DEF QuietTable, Published
<1> QED BY <1>q, <1>2, <1>3, <1>6, <1>7, <1>8, <1>9, <1>10, <1>11, AllocStep

(***************************************************************************)
(* Steps that write to the table.                                          *)
(***************************************************************************)

\* Two threads in the critical section work on different chains.
LEMMA Exclusion ==
  ASSUME Inv, NEW t \in Thread, NEW u \in Thread, t # u,
         pc[t] \in Critical, pc[u] \in Critical
  PROVE  ChainOf(t) # ChainOf(u)
<1>1. mutexes[StripeOf(t)] = t /\ mutexes[StripeOf(u)] = u
  BY DEF Inv, MutexInv
<1> QED BY <1>1 DEF StripeOf

\* The key a thread adds is nowhere in the table.
LEMMA KeyAbsent ==
  ASSUME Inv, NEW t \in Thread, pc[t] \in Adding,
         NEW c \in Chain, NEW n \in CellNo, NEW s \in Slot
  PROVE  ~Holds(c, n, s, key[t])
<1>1. TypeOK /\ KeyInv /\ PublishedComplete /\ SearchInv /\ AddInv
  BY DEF Inv
<1>2. pc[t] \in InCall
  BY DEF Adding, Filling, InCall, Location
<1>3. key[t] \in Key /\ ChainOf(t) \in Chain /\ HashOf(key[t]) \in Nat
  BY <1>1, <1>2, ChainOfType
<1>4. Searched(t) /\ ReadyToAdd(t)
  BY <1>1, <1>2 DEF SearchInv, AddInv
<1>5. CASE c # ChainOf(t)
  BY <1>1, <1>3, <1>5, HoldsHash DEF Holds, PublishedComplete, ChainOf
<1>6. CASE c = ChainOf(t)
  <2>1. cell[t] \in Nat /\ n \in Nat /\ length[c] \in Nat
    BY <1>1 DEF TypeOK, CellNo
  <2>2. n < cell[t] \/ n = cell[t] \/ n >= length[c]
    BY <1>4, <1>6, <2>1 DEF ReadyToAdd
  <2> QED BY <1>4, <1>6, <2>1, <2>2 DEF Searched, ReadyToAdd, Holds, Published
<1> QED BY <1>5, <1>6

\* Storing the id in a free slot is not visible while the hash is 0.
LEMMA PlaceStep ==
  ASSUME Inv, NEW t \in Thread, Place(t)
  PROVE  Inv' /\ QuietTable
<1> USE DEF Filling
<1>1. TypeOK /\ KeyInv /\ ArenaInv /\ FillInv /\ PublishedComplete
  BY DEF Inv
<1>2. /\ pc[t] \in InCall /\ pc[t] \in Adding /\ pc[t] = "place"
      /\ ChainOf(t) \in Chain /\ OwnType(t) /\ ReadyToAdd(t) /\ Searched(t)
      /\ cell[t] \in CellNo /\ pc[t] \in Critical
  BY <1>1, ChainOfType
  DEF Place, InCall, Adding, Critical, Location, Inv, FillInv, AddInv, SearchInv, TypeOK
<1>3. PICK r \in Slot :
        /\ hashes[ChainOf(t)][cell[t]][r] = 0
        /\ types' = [types EXCEPT ![ChainOf(t)][cell[t]][r] = id[t]]
        /\ index' = [index EXCEPT ![t] = r]
  BY DEF Place, Free
<1>4. /\ pc' = [pc EXCEPT ![t] = "publish"]
      /\ UNCHANGED <<hashes, length, mutexes, top, arena, heap, key, cell, next, id>>
  BY DEF Place, memVars
<1>5. \A c \in Chain, n \in CellNo, s \in Slot :
        /\ Published(c, n, s)' <=> Published(c, n, s)
        /\ Published(c, n, s) => types'[c][n][s] = types[c][n][s]
  BY <1>1, <1>2, <1>3, <1>4 DEF Published, TypeOK
<1>6. \A c \in Chain, n \in CellNo, s \in Slot :
        \A k : Holds(c, n, s, k)' <=> Holds(c, n, s, k)
  BY <1>4, <1>5 DEF Holds, KeyOf
<1>7. types'[ChainOf(t)][cell[t]][r] = id[t]
  BY <1>1, <1>2, <1>3 DEF TypeOK
<1>8. TypeOK'
  <2>1. types' \in [Chain -> [CellNo -> [Slot -> Nat]]]
    BY <1>1, <1>2, <1>3 DEF TypeOK
  <2>2. pc' \in [Thread -> Location]
    BY <1>1, <1>4 DEF TypeOK, Location
  <2>3. index' \in [Thread -> 0 .. CellSize]
    <3>1. r \in 0 .. CellSize
      BY TableAssumption DEF Slot
    <3> QED BY <1>1, <1>3, <3>1 DEF TypeOK
  <2> QED BY <1>1, <1>4, <2>1, <2>2, <2>3 DEF TypeOK
<1>9. /\ \A u \in Thread \ {t} : Same(u)
      /\ pc'[t] = "publish" /\ index'[t] = r
  BY <1>1, <1>3, <1>4 DEF Same, TypeOK
<1>10. \A u \in Thread : ChainOf(u)' = ChainOf(u) /\ StripeOf(u)' = StripeOf(u)
  BY <1>4 DEF ChainOf, StripeOf
<1>11. KeyInv'
  BY <1>1, <1>2, <1>4, <1>9 DEF KeyInv, Same
<1>12. MutexInv'
  BY <1>2, <1>4, <1>9, <1>10 DEF Inv, MutexInv, Same
<1>13. FullInv'
  BY <1>4 DEF Inv, FullInv
<1>14. PublishedComplete'
  BY <1>1, <1>4, <1>5 DEF PublishedComplete
<1>15. OneSlotPerKey'
  BY <1>4, <1>5 DEF Inv, OneSlotPerKey, KeyOf
<1>16. \A u \in Thread : pc[u] \in InCall => ChainOf(u) \in Chain /\ cell[u] \in CellNo
  BY <1>1, ChainOfType DEF TypeOK
<1>17. SearchInv'
  <2> SUFFICES ASSUME NEW u \in Thread, pc'[u] \in InCall
               PROVE  Searched(u)'
    BY DEF SearchInv
  <2>1. CASE u = t
    BY <1>2, <1>4, <1>6, <1>9, <1>10, <2>1 DEF Searched
  <2>2. CASE u # t
    <3>1. Same(u) /\ Searched(u) /\ ChainOf(u) \in Chain /\ cell[u] \in CellNo
      BY <1>9, <1>16, <2>2 DEF Inv, SearchInv, Same
    <3> QED BY <1>4, <1>6, <1>10, <3>1 DEF Searched, Same
  <2> QED BY <2>1, <2>2
<1>18. AddInv'
  <2> SUFFICES ASSUME NEW u \in Thread, pc'[u] \in Adding
               PROVE  ReadyToAdd(u)'
    BY DEF AddInv
  <2>1. CASE u = t
    BY <1>2, <1>3, <1>4, <1>6, <1>7, <1>9, <1>10, <2>1 DEF ReadyToAdd
  <2>2. CASE u # t
    <3>1. Same(u) /\ ReadyToAdd(u) /\ pc[u] \in InCall /\ pc[u] \in Critical
      BY <1>9, <2>2 DEF Inv, AddInv, Same, InCall, Adding, Critical, Location
    <3>2. ChainOf(u) # ChainOf(t) /\ ChainOf(u) \in Chain /\ cell[u] \in CellNo
      BY <1>2, <1>16, <2>2, <3>1, Exclusion
    <3>3. types'[ChainOf(u)] = types[ChainOf(u)]
      BY <1>1, <1>3, <3>2 DEF TypeOK
    <3> QED BY <1>4, <1>6, <1>10, <3>1, <3>2, <3>3 DEF ReadyToAdd, Same
  <2> QED BY <2>1, <2>2
<1>19. FillInv'
  <2> SUFFICES ASSUME NEW u \in Thread, pc'[u] \in Filling
               PROVE  OwnType(u)'
    BY DEF FillInv
  <2>1. pc[u] \in Filling /\ (pc'[u] # "alloc_members" => pc[u] # "alloc_members")
    BY <1>2, <1>9 DEF Same
  <2>2. OwnType(u) /\ \A v \in Thread : pc'[v] \in Filling => pc[v] \in Filling
    BY <1>1, <1>2, <1>9, <2>1 DEF FillInv, Same
  <2> QED BY <1>4, <1>5, <2>1, <2>2 DEF OwnType
<1>20. ArenaInv'
  <2>1. \A u \in Thread : pc'[u] \in Filling => pc[u] \in Filling
    BY <1>2, <1>9 DEF Same
  <2> QED BY <1>1, <1>4, <1>5, <2>1 DEF ArenaInv, Allocated
<1>q. QuietTable
  BY <1>4, <1>5 DEF QuietTable
<1> QED BY <1>q, <1>8, <1>11, <1>12, <1>13, <1>14, <1>15, <1>17, <1>18, <1>19, <1>20 DEF Inv

\* Publishing one new slot at the end of t's chain, with t's key in it, and
\* returning.  Both ways to do it, Publish and LinkCell, are instances.
LEMMA AddEntry ==
  ASSUME Inv, NEW t \in Thread, pc[t] \in {"publish", "alloc_cell"},
         NEW c0 \in Chain, NEW m \in CellNo, NEW r \in Slot,
         c0 = ChainOf(t), m >= cell[t], ~Published(c0, m, r),
         types'[c0][m][r] = id[t],
         hashes'[c0][m][r] = HashOf(key[t]),
         \A c \in Chain, n \in CellNo, s \in Slot :
           /\ Published(c, n, s)' <=> Published(c, n, s) \/ <<c, n, s>> = <<c0, m, r>>
           /\ Published(c, n, s) => types'[c][n][s] = types[c][n][s]
           /\ Published(c, n, s) => hashes'[c][n][s] = hashes[c][n][s],
         \A c \in Chain : length'[c] >= length[c],
         \A c \in Chain \ {c0} :
           length'[c] = length[c] /\ types'[c] = types[c] /\ hashes'[c] = hashes[c],
         pc' = [pc EXCEPT ![t] = "return"], Unlock(t),
         UNCHANGED <<heap, key, cell, next, index, id>>,
         TypeOK', FullInv', ArenaInv'
  PROVE  Inv'
<1>1. /\ TypeOK /\ KeyInv /\ MutexInv /\ FillInv /\ PublishedComplete
      /\ OneSlotPerKey /\ SearchInv /\ AddInv
  BY DEF Inv
<1>2. pc[t] \in Filling /\ pc[t] \in Adding /\ pc[t] \in Critical /\ pc[t] \in InCall
  BY DEF Filling, Adding, Critical, InCall, Location
<1>3. /\ key[t] \in Key /\ ChainOf(t) \in Chain /\ HashOf(key[t]) \in Nat \ {0}
      /\ OwnType(t) /\ ReadyToAdd(t) /\ cell[t] \in CellNo
  BY <1>1, <1>2, ChainOfType DEF FillInv, AddInv, TypeOK
<1>4. /\ heap[id[t]].key = key[t] /\ heap[id[t]].owned /\ heap[id[t]].id = id[t]
      /\ id[t] \in TypeId /\ id[t] # 0
  BY <1>3 DEF OwnType, TypeId
<1>5. /\ \A u \in Thread \ {t} : pc'[u] = pc[u]
      /\ pc'[t] = "return"
  BY <1>1 DEF TypeOK
<1>6. \A u \in Thread : ChainOf(u)' = ChainOf(u)
  BY DEF ChainOf
<1>7. \A c \in Chain, n \in CellNo, s \in Slot : \A k :
        Holds(c, n, s, k)' <=>
          Holds(c, n, s, k) \/ (<<c, n, s>> = <<c0, m, r>> /\ k = key[t])
  BY <1>4 DEF Holds, KeyOf
<1>8. KeyInv'
  BY <1>1, <1>5 DEF KeyInv, InCall
<1>9. MutexInv'
  <2>1. pc'[t] \notin Critical
    BY <1>5 DEF Critical, Adding, Filling
  <2> QED BY <1>1, <1>2, <1>5, <2>1, UnlockMutex
<1>10. PublishedComplete'
  <2> SUFFICES ASSUME NEW c \in Chain, NEW n \in CellNo, NEW s \in Slot,
                      Published(c, n, s)'
               PROVE  LET i == types'[c][n][s] IN
                      /\ i \in TypeId
                      /\ heap'[i].owned
                      /\ heap'[i].id = i
                      /\ heap'[i].key \in Key
                      /\ hashes'[c][n][s] = HashOf(heap'[i].key)
                      /\ c = CellIndex(hashes'[c][n][s])
    BY DEF PublishedComplete
  <2>1. CASE Published(c, n, s)
    BY <1>1, <2>1 DEF PublishedComplete
  <2>2. CASE <<c, n, s>> = <<c0, m, r>>
    BY <1>3, <1>4, <2>2 DEF ChainOf
  <2> QED BY <2>1, <2>2
<1>11. OneSlotPerKey'
  <2> SUFFICES ASSUME NEW c \in Chain, NEW d \in Chain, NEW n \in CellNo, NEW o \in CellNo,
                      NEW s \in Slot, NEW q \in Slot,
                      Published(c, n, s)', Published(d, o, q)',
                      KeyOf(types[c][n][s])' = KeyOf(types[d][o][q])'
               PROVE  c = d /\ n = o /\ s = q
    BY DEF OneSlotPerKey
  <2>1. \A k : Holds(c, n, s, k)' <=> k = KeyOf(types[c][n][s])'
    BY DEF Holds
  <2>2. \A k : Holds(d, o, q, k)' <=> k = KeyOf(types[d][o][q])'
    BY DEF Holds
  <2>3. ~Holds(c, n, s, key[t]) /\ ~Holds(d, o, q, key[t])
    BY <1>2, KeyAbsent
  <2>4. CASE <<c, n, s>> = <<c0, m, r>>
    BY <1>7, <2>1, <2>2, <2>3, <2>4
  <2>5. CASE <<d, o, q>> = <<c0, m, r>>
    BY <1>7, <2>1, <2>2, <2>3, <2>5
  <2>6. CASE Published(c, n, s) /\ Published(d, o, q)
    <3>1. KeyOf(types[c][n][s]) = KeyOf(types[d][o][q])
      BY <2>6 DEF KeyOf
    <3> QED BY <1>1, <2>6, <3>1 DEF OneSlotPerKey
  <2> QED BY <2>4, <2>5, <2>6
<1>12. \A u \in Thread : pc[u] \in InCall =>
         /\ ChainOf(u) \in Chain /\ cell[u] \in CellNo /\ HashOf(key[u]) # 0
         /\ length[ChainOf(u)] \in Nat /\ length'[ChainOf(u)] \in Nat
  BY <1>1, ChainOfType DEF TypeOK
<1>13. SearchInv'
  <2> SUFFICES ASSUME NEW u \in Thread \ {t}, pc'[u] \in InCall
               PROVE  Searched(u)'
    BY <1>5 DEF SearchInv, InCall
  <2>1. Searched(u) /\ pc[u] \in InCall /\ pc'[u] = pc[u]
    BY <1>1, <1>5 DEF SearchInv
  <2>2. /\ ChainOf(u) \in Chain /\ cell[u] \in Nat /\ cell[u] \in CellNo /\ m \in Nat
        /\ cell[t] \in Nat
    BY <1>3, <1>12, <2>1 DEF CellNo
  <2>3. ChainOf(u) = ChainOf(t) => cell[u] <= cell[t]
    BY <1>3, <1>12, <2>1, <2>2 DEF Searched, ReadyToAdd
  <2>d. PICK d \in Chain : d = ChainOf(u)
    BY <2>2
  <2>k. PICK k \in Key : k = key[u]
    BY <1>1, <2>1 DEF KeyInv
  <2>j. PICK j \in CellNo : j = cell[u]
    BY <2>2
  <2>4. \A n \in CellNo, s \in Slot : n < j => ~Holds(d, n, s, k)'
    <3> SUFFICES ASSUME NEW n \in CellNo, NEW s \in Slot, n < j
                 PROVE  ~Holds(d, n, s, k)'
      OBVIOUS
    <3>1. ~Holds(d, n, s, k)
      BY <2>1, <2>d, <2>k, <2>j DEF Searched
    <3>2. <<d, n, s>> # <<c0, m, r>>
      BY <2>2, <2>3, <2>d, <2>j DEF CellNo
    <3> QED BY <1>7, <3>1, <3>2
  <2>5. cell[u] < length'[ChainOf(u)]
    BY <1>12, <2>1, <2>2 DEF Searched
  <2>6. ASSUME pc[u] \in {"find", "compare"}, next[u]
        PROVE  /\ cell[u] + 1 < length'[ChainOf(u)]
               /\ \A s \in Slot : s < index[u] => ~Holds(d, j, s, k)'
    <3>1. cell[u] + 1 < length[ChainOf(u)]
      BY <2>1, <2>6 DEF Searched
    <3>2. ChainOf(u) = ChainOf(t) => cell[u] < cell[t]
      BY <1>3, <2>2, <3>1 DEF ReadyToAdd
    <3> SUFFICES ASSUME NEW s \in Slot, s < index[u]
                 PROVE  ~Holds(d, j, s, k)'
      BY <1>12, <2>1, <2>2, <3>1
    <3>3. ~Holds(d, j, s, k)
      BY <2>1, <2>6, <2>d, <2>k, <2>j DEF Searched
    <3>4. <<d, j, s>> # <<c0, m, r>>
      BY <2>2, <2>d, <2>j, <3>2
    <3> QED BY <1>7, <3>3, <3>4
  <2>7. ASSUME pc[u] = "compare"
        PROVE  /\ index[u] \in Slot
               /\ hashes'[ChainOf(u)][cell[u]][index[u]] = HashOf(key[u])
    <3>1. /\ index[u] \in Slot
          /\ hashes[ChainOf(u)][cell[u]][index[u]] = HashOf(key[u])
          /\ cell[u] < length[ChainOf(u)]
      BY <2>1, <2>7 DEF Searched
    <3>2. Published(ChainOf(u), cell[u], index[u])
      BY <1>12, <2>1, <3>1 DEF Published
    <3> QED BY <2>2, <3>1, <3>2
  <2>8. \A n, s : Holds(ChainOf(u), n, s, key[u])' <=> Holds(d, n, s, k)'
    BY <1>6, <2>d, <2>k DEF Holds, Published, KeyOf
  <2>9. \A s : Holds(ChainOf(u), cell[u], s, key[u])' <=> Holds(d, j, s, k)'
    BY <1>6, <2>d, <2>k, <2>j DEF Holds, Published, KeyOf
  <2> QED BY <1>6, <2>1, <2>4, <2>5, <2>6, <2>7, <2>8, <2>9, <2>j DEF Searched
<1>14. AddInv'
  <2> SUFFICES ASSUME NEW u \in Thread \ {t}, pc'[u] \in Adding
               PROVE  ReadyToAdd(u)'
    BY <1>5 DEF AddInv, Adding, Filling
  <2>1. /\ ReadyToAdd(u) /\ pc'[u] = pc[u]
        /\ pc[u] \in Critical /\ pc[u] \in InCall
    BY <1>1, <1>5 DEF AddInv, Critical, Adding, Filling, InCall, Location
  <2>2. ChainOf(u) # ChainOf(t) /\ ChainOf(u) \in Chain
    BY <1>2, <1>12, <2>1, Exclusion
  <2>3. /\ length'[ChainOf(u)] = length[ChainOf(u)]
        /\ types'[ChainOf(u)] = types[ChainOf(u)]
        /\ hashes'[ChainOf(u)] = hashes[ChainOf(u)]
    BY <2>2
  <2> QED BY <1>6, <2>1, <2>3 DEF ReadyToAdd, Holds, Published, KeyOf
<1>15. FillInv'
  <2> SUFFICES ASSUME NEW u \in Thread \ {t}, pc'[u] \in Filling
               PROVE  OwnType(u)'
    BY <1>5 DEF FillInv, Filling
  <2>1. OwnType(u) /\ pc[u] \in Filling /\ pc'[u] = pc[u]
    BY <1>1, <1>5 DEF FillInv
  <2>2. id[u] # id[t]
    BY <1>2, <2>1 DEF OwnType
  <2>3. \A v \in Thread : pc'[v] \in Filling => pc[v] \in Filling
    BY <1>2, <1>5
  <2>4. \A c \in Chain, n \in CellNo, s \in Slot :
          Published(c, n, s)' => types'[c][n][s] # id[u]
    BY <2>1, <2>2 DEF OwnType
  <2> QED BY <2>1, <2>3, <2>4 DEF OwnType
<1> QED BY <1>8, <1>9, <1>10, <1>11, <1>13, <1>14, <1>15 DEF Inv

\* Storing the hash makes a complete Type visible, of a key that was absent.
LEMMA PublishStep ==
  ASSUME Inv, NEW t \in Thread, Publish(t)
  PROVE  Inv' /\ NewEntry(t)
<1>1. TypeOK /\ ArenaInv /\ FillInv /\ AddInv /\ KeyInv
  BY DEF Inv
<1>2. /\ pc[t] \in Filling /\ pc[t] \in Adding /\ pc[t] \in InCall /\ pc[t] = "publish"
  BY DEF Publish, Filling, Adding, InCall, Location
<1>3. /\ ChainOf(t) \in Chain /\ HashOf(key[t]) \in Nat \ {0} /\ cell[t] \in CellNo
      /\ ReadyToAdd(t)
  BY <1>1, <1>2, ChainOfType DEF AddInv, TypeOK
<1>4. /\ hashes' = [hashes EXCEPT ![ChainOf(t)][cell[t]][index[t]] = HashOf(key[t])]
      /\ Unlock(t)
      /\ pc' = [pc EXCEPT ![t] = "return"]
      /\ UNCHANGED <<types, length, top, arena, heap, key, cell, next, index, id>>
  BY DEF Publish, memVars
<1>5. PICK c \in Chain : c = ChainOf(t)
  BY <1>3
<1>6. PICK m \in CellNo : m = cell[t]
  BY <1>3
<1>7. PICK r \in Slot : r = index[t]
  BY <1>2, <1>3 DEF ReadyToAdd
<1>8. /\ types[c][m][r] = id[t] /\ hashes[c][m][r] = 0
      /\ m + 1 = length[c] /\ m \in Nat
  BY <1>2, <1>3, <1>5, <1>6, <1>7 DEF ReadyToAdd, CellNo
<1>9. hashes'[c][m][r] = HashOf(key[t])
      /\ hashes' \in [Chain -> [CellNo -> [Slot -> Nat]]]
  BY <1>1, <1>3, <1>4, <1>5, <1>6, <1>7 DEF TypeOK
<1>10. \A d \in Chain, n \in CellNo, s \in Slot :
         <<d, n, s>> # <<c, m, r>> => hashes'[d][n][s] = hashes[d][n][s]
  BY <1>1, <1>4, <1>5, <1>6, <1>7 DEF TypeOK
<1>11. ~Published(c, m, r)
  BY <1>8 DEF Published
<1>12. \A d \in Chain, n \in CellNo, s \in Slot :
         /\ Published(d, n, s)' <=> Published(d, n, s) \/ <<d, n, s>> = <<c, m, r>>
         /\ Published(d, n, s) => types'[d][n][s] = types[d][n][s]
         /\ Published(d, n, s) => hashes'[d][n][s] = hashes[d][n][s]
  <2> SUFFICES ASSUME NEW d \in Chain, NEW n \in CellNo, NEW s \in Slot
               PROVE  /\ Published(d, n, s)' <=> Published(d, n, s) \/ <<d, n, s>> = <<c, m, r>>
                      /\ Published(d, n, s) => types'[d][n][s] = types[d][n][s]
                      /\ Published(d, n, s) => hashes'[d][n][s] = hashes[d][n][s]
    OBVIOUS
  <2>1. CASE <<d, n, s>> = <<c, m, r>>
    BY <1>3, <1>4, <1>8, <1>9, <1>11, <2>1 DEF Published
  <2>2. CASE <<d, n, s>> # <<c, m, r>>
    BY <1>4, <1>10, <2>2 DEF Published
  <2> QED BY <2>1, <2>2
<1>13. TypeOK'
  <2>1. pc' \in [Thread -> Location]
    BY <1>1, <1>4 DEF TypeOK, Location
  <2>2. mutexes' \in [Stripe -> Thread \cup {NoThread}]
    BY <1>1, <1>4 DEF TypeOK, Unlock
  <2> QED BY <1>1, <1>4, <1>9, <2>1, <2>2 DEF TypeOK
<1>14. FullInv'
  BY <1>3, <1>4, <1>9, <1>10 DEF Inv, FullInv
<1>15. ArenaInv'
  <2>1. \A u \in Thread : pc'[u] \in Filling => pc[u] \in Filling
    BY <1>1, <1>4 DEF TypeOK, Filling
  <2>2. Allocated(id[t])
    BY <1>1, <1>2 DEF ArenaInv
  <2>3. \A d \in Chain, n \in CellNo, s \in Slot :
          Published(d, n, s)' => Allocated(types[d][n][s])
    BY <1>1, <1>8, <1>12, <2>2 DEF ArenaInv
  <2>4. \A i : Allocated(i)' <=> Allocated(i)
    BY <1>4 DEF Allocated
  <2> QED BY <1>1, <1>4, <2>1, <2>3, <2>4 DEF ArenaInv
<1>16. \A d \in Chain \ {c} :
         length'[d] = length[d] /\ types'[d] = types[d] /\ hashes'[d] = hashes[d]
  BY <1>1, <1>4, <1>5 DEF TypeOK
<1>17. \A d \in Chain : length'[d] >= length[d]
  BY <1>1, <1>4, TableAssumption DEF TypeOK
<1>18. m >= cell[t]
  BY <1>6, <1>8
<1>19. types'[c][m][r] = id[t] /\ UNCHANGED <<heap, key, cell, next, index, id>>
  BY <1>4, <1>8
<1>20. pc[t] \in {"publish", "alloc_cell"} /\ Unlock(t) /\ pc' = [pc EXCEPT ![t] = "return"]
  BY <1>2, <1>4
<1>e. NewEntry(t)
  BY <1>12, <1>19 DEF NewEntry
<1> QED BY <1>e, <1>5, <1>9, <1>11, <1>12, <1>13, <1>14, <1>15, <1>16, <1>17, <1>18, <1>19, <1>20,
           AddEntry

\* Linking a new cell makes a complete Type visible, of a key that was
\* absent, and leaves only full cells behind.
LEMMA LinkCellStep ==
  ASSUME Inv, NEW t \in Thread, LinkCell(t)
  PROVE  Inv' /\ NewEntry(t)
<1>1. TypeOK /\ ArenaInv /\ FillInv /\ AddInv /\ KeyInv /\ FullInv
  BY DEF Inv
<1>2. /\ pc[t] \in Filling /\ pc[t] \in Adding /\ pc[t] \in InCall /\ pc[t] = "alloc_cell"
  BY DEF LinkCell, Filling, Adding, InCall, Location
<1>3. /\ ChainOf(t) \in Chain /\ HashOf(key[t]) \in Nat \ {0} /\ cell[t] \in CellNo
      /\ ReadyToAdd(t)
  BY <1>1, <1>2, ChainOfType DEF AddInv, TypeOK
<1>4. PICK c \in Chain : c = ChainOf(t)
  BY <1>3
<1>5. PICK m \in CellNo : m = cell[t] + 1
  <2>1. cell[t] + 1 < MaxCells
    BY DEF LinkCell
  <2> QED BY <1>3, <2>1, TableAssumption DEF CellNo
<1>6. 0 \in Slot
  BY TableAssumption DEF Slot
<1>7. /\ types'  = [types EXCEPT ![c][m] = [s \in Slot |-> IF s = 0 THEN id[t] ELSE 0]]
      /\ hashes' = [hashes EXCEPT ![c][m] = [s \in Slot |-> IF s = 0 THEN HashOf(key[t]) ELSE 0]]
      /\ length' = [length EXCEPT ![c] = m + 1]
      /\ m < MaxCells
      /\ Fits(t, CellBytes, CellAlign) /\ Take(t, CellBytes, CellAlign)
      /\ Unlock(t)
      /\ pc' = [pc EXCEPT ![t] = "return"]
      /\ UNCHANGED <<top, heap, key, cell, next, index, id>>
  BY <1>4, <1>5 DEF LinkCell
<1>8. /\ length[c] = m /\ m \in Nat \ {0} /\ cell[t] = m - 1
      /\ \A s \in Slot : hashes[c][m - 1][s] # 0
  <2>1. cell[t] \in Nat /\ m = cell[t] + 1
    BY <1>3, <1>5 DEF CellNo
  <2>2. cell[t] + 1 = length[c] /\ \A s \in Slot : hashes[c][cell[t]][s] # 0
    BY <1>2, <1>3, <1>4 DEF ReadyToAdd
  <2>3. cell[t] = m - 1
    BY <2>1
  <2> QED BY <2>1, <2>2, <2>3
<1>9. /\ types' \in [Chain -> [CellNo -> [Slot -> Nat]]]
      /\ hashes' \in [Chain -> [CellNo -> [Slot -> Nat]]]
      /\ types'[c][m] = [s \in Slot |-> IF s = 0 THEN id[t] ELSE 0]
      /\ hashes'[c][m] = [s \in Slot |-> IF s = 0 THEN HashOf(key[t]) ELSE 0]
  <2>1. id[t] \in Nat
    BY <1>1 DEF TypeOK
  <2> QED BY <1>1, <1>3, <1>7, <2>1 DEF TypeOK
<1>10. \A d \in Chain, n \in CellNo :
         <<d, n>> # <<c, m>> => hashes'[d][n] = hashes[d][n] /\ types'[d][n] = types[d][n]
  BY <1>1, <1>7 DEF TypeOK
<1>11. \A d \in Chain : length[d] \in Nat /\ length'[d] = IF d = c THEN m + 1 ELSE length[d]
  BY <1>1, <1>7 DEF TypeOK
<1>12. \A s \in Slot : ~Published(c, m, s)
  BY <1>8 DEF Published
<1>13. \A d \in Chain, n \in CellNo, s \in Slot :
         /\ Published(d, n, s)' <=> Published(d, n, s) \/ <<d, n, s>> = <<c, m, 0>>
         /\ Published(d, n, s) => types'[d][n][s] = types[d][n][s]
         /\ Published(d, n, s) => hashes'[d][n][s] = hashes[d][n][s]
  <2> SUFFICES ASSUME NEW d \in Chain, NEW n \in CellNo, NEW s \in Slot
               PROVE  /\ Published(d, n, s)' <=> Published(d, n, s) \/ <<d, n, s>> = <<c, m, 0>>
                      /\ Published(d, n, s) => types'[d][n][s] = types[d][n][s]
                      /\ Published(d, n, s) => hashes'[d][n][s] = hashes[d][n][s]
    OBVIOUS
  <2>1. n \in Nat /\ s \in Nat
    BY DEF CellNo, Slot
  <2>2. CASE <<d, n>> = <<c, m>>
    <3>1. hashes'[d][n][s] = IF s = 0 THEN HashOf(key[t]) ELSE 0
      BY <1>9, <2>2
    <3>2. n < length'[d]
      BY <1>8, <1>11, <2>2
    <3> QED BY <1>3, <1>12, <2>2, <3>1, <3>2 DEF Published
  <2>3. CASE <<d, n>> # <<c, m>>
    <3>1. hashes'[d][n] = hashes[d][n] /\ types'[d][n] = types[d][n]
      BY <1>10, <2>3
    <3>2. n < length'[d] <=> n < length[d]
      BY <1>8, <1>11, <2>1, <2>3
    <3> QED BY <2>3, <3>1, <3>2 DEF Published
  <2> QED BY <2>2, <2>3
<1>14. TypeOK'
  <2>1. pc' \in [Thread -> Location]
    BY <1>1, <1>7 DEF TypeOK, Location
  <2>2. mutexes' \in [Stripe -> Thread \cup {NoThread}]
    BY <1>1, <1>7 DEF TypeOK, Unlock
  <2>3. length' \in [Chain -> 1 .. MaxCells]
    BY <1>1, <1>7, <1>8, TableAssumption DEF TypeOK
  <2>4. arena' \in [Thread -> [base : Nat, used : Nat, len : Nat]]
    BY <1>7, TakeArena, MemoryAssumption
  <2> QED BY <1>1, <1>7, <1>9, <2>1, <2>2, <2>3, <2>4 DEF TypeOK
<1>15. FullInv'
  <2> SUFFICES ASSUME NEW d \in Chain, NEW n \in CellNo, NEW s \in Slot, n + 1 < length'[d]
               PROVE  hashes'[d][n][s] # 0
    BY DEF FullInv
  <2>1. n \in Nat
    BY DEF CellNo
  <2>2. <<d, n>> # <<c, m>>
    BY <1>8, <1>11, <2>1
  <2>3. hashes'[d][n] = hashes[d][n]
    BY <1>10, <2>2
  <2>4. CASE d = c /\ n = m - 1
    BY <1>8, <2>3, <2>4
  <2>5. CASE ~(d = c /\ n = m - 1)
    <3>1. n + 1 < length[d]
      BY <1>8, <1>11, <2>1, <2>5
    <3> QED BY <1>1, <2>3, <3>1 DEF FullInv
  <2> QED BY <2>4, <2>5
<1>16. ArenaInv'
  <2>1. \A u \in Thread : pc'[u] \in Filling => id'[u] = id[u] /\ pc[u] \in Filling
    BY <1>1, <1>7 DEF TypeOK, Filling
  <2>2. types'[c][m][0] = id[t]
    BY <1>6, <1>9
  <2>3. \A d \in Chain, n \in CellNo, s \in Slot :
          Published(d, n, s)' =>
            \/ Published(d, n, s) /\ types'[d][n][s] = types[d][n][s]
            \/ types'[d][n][s] = id[t] /\ pc[t] \in Filling
    BY <1>2, <1>13, <2>2
  <2> QED BY <1>7, <2>1, <2>3, TakeArenaInv, MemoryAssumption
<1>17. \A d \in Chain \ {c} :
         length'[d] = length[d] /\ types'[d] = types[d] /\ hashes'[d] = hashes[d]
  BY <1>1, <1>7 DEF TypeOK
<1>18. \A d \in Chain : length'[d] >= length[d]
  BY <1>8, <1>11
<1>19. m >= cell[t] /\ types'[c][m][0] = id[t] /\ hashes'[c][m][0] = HashOf(key[t])
  BY <1>6, <1>8, <1>9
<1>20. UNCHANGED <<heap, key, cell, next, index, id>>
  BY <1>7
<1>21. pc[t] \in {"publish", "alloc_cell"} /\ Unlock(t) /\ pc' = [pc EXCEPT ![t] = "return"]
  BY <1>2, <1>7
<1>22. ~Published(c, m, 0)
  BY <1>6, <1>12
<1>e. NewEntry(t)
  BY <1>6, <1>13, <1>19, <1>20 DEF NewEntry
<1> QED BY <1>e, <1>4, <1>6, <1>13, <1>14, <1>15, <1>16, <1>17, <1>18, <1>19, <1>20, <1>21, <1>22,
           AddEntry

-----------------------------------------------------------------------------
\* A step that changes nothing keeps the invariant.
LEMMA Stutter ==
  ASSUME Inv, UNCHANGED vars
  PROVE  Inv'
<1> USE DEF vars, tableVars, memVars, localVars
<1>1. UNCHANGED SharedVars
  BY DEF SharedVars
<1>2. TypeOK' /\ KeyInv' /\ MutexInv'
  BY DEF Inv, TypeOK, KeyInv, MutexInv, StripeOf, ChainOf
<1>3. SearchInv'
  BY <1>1, SharedStable DEF Inv, SearchInv, Searched, ChainOf, Holds, Published, KeyOf
<1>4. AddInv'
  BY <1>1, SharedStable DEF Inv, AddInv, ReadyToAdd, ChainOf, Holds, Published, KeyOf
<1>5. FillInv' /\ ArenaInv'
  BY DEF Inv, FillInv, OwnType, ArenaInv, Allocated, Published
<1> QED BY <1>1, <1>2, <1>3, <1>4, <1>5, SharedStable DEF Inv

\* Every step keeps the invariant, one action at a time.
LEMMA NextInv == Inv /\ [Next]_vars => Inv'
<1> SUFFICES ASSUME Inv, [Next]_vars PROVE Inv'
  OBVIOUS
<1>1. CASE UNCHANGED vars
  BY <1>1, Stutter
<1>2. ASSUME NEW t \in Thread, InternNone(t) \/ \E k \in Key : Intern(t, k)
      PROVE  Inv'
  BY <1>2, InternNoneStep, InternStep
<1>3. ASSUME NEW t \in Thread, Step(t)
      PROVE  Inv'
  BY <1>3, LoadNextStep, FindStep, CompareStep, NextCellStep, LockStep, CheckHitStep,
     CheckMissStep, RefillArenaStep, AllocTypeStep, AllocMembersStep, PlaceStep,
     PublishStep, CellFullStep, LinkCellStep, ReturnStep
  DEF Step
<1> QED BY <1>1, <1>2, <1>3 DEF Next

\* The inductive invariant holds in every reachable state.
THEOREM InvHolds == Spec => []Inv
<1>1. Init => Inv
  BY InitInv
<1>2. Inv /\ [Next]_vars => Inv'
  BY NextInv
<1> QED BY <1>1, <1>2, PTL DEF Spec

\* The variables keep their types.
THEOREM TypeCorrect == Spec => []TypeOK
<1>1. Inv => TypeOK
  BY DEF Inv
<1> QED BY <1>1, InvHolds, PTL

\* One slot per key, and a Type that knows its key, give one id per key.
LEMMA InvOneIdPerKey == Inv => OneIdPerKey
<1> SUFFICES ASSUME Inv, NEW e \in Entries, NEW f \in Entries
             PROVE  (e[1] = f[1]) <=> (e[2] = f[2])
  BY DEF OneIdPerKey
<1>1. PICK p \in PublishedSlots : e = EntryAt(p)
  BY DEF Entries
<1>2. PICK q \in PublishedSlots : f = EntryAt(q)
  BY DEF Entries
<1>3. /\ p[1] \in Chain /\ p[2] \in CellNo /\ p[3] \in Slot /\ Published(p[1], p[2], p[3])
      /\ q[1] \in Chain /\ q[2] \in CellNo /\ q[3] \in Slot /\ Published(q[1], q[2], q[3])
  BY DEF PublishedSlots
<1>4. e[1] = f[1] => p[1] = q[1] /\ p[2] = q[2] /\ p[3] = q[3]
  BY <1>1, <1>2, <1>3 DEF Inv, OneSlotPerKey, EntryAt
<1> QED BY <1>1, <1>2, <1>4 DEF EntryAt

\* No key is interned twice and no two keys share an id, for any number of
\* threads, keys, cells and stripes.
THEOREM UniqueIds == Spec => []OneIdPerKey
  BY InvOneIdPerKey, InvHolds, PTL

\* Whatever a lock free search can reach is a finished type.
THEOREM CompleteWhenPublished == Spec => []PublishedComplete
<1>1. Inv => PublishedComplete
  BY DEF Inv
<1> QED BY <1>1, InvHolds, PTL

-----------------------------------------------------------------------------
(***************************************************************************)
(* The interner implements the abstract table of Interning: every step is  *)
(* a step of the table or changes nothing the table shows.  A search takes *)
(* effect when it compares the key, an insertion when it stores the hash   *)
(* or links the new cell.                                                  *)
(***************************************************************************)

\* A step that publishes nothing leaves the entries and their Types alone.
LEMMA EntriesQuiet ==
  ASSUME Inv, QuietTable
  PROVE  /\ Entries' = Entries
         /\ \A e \in Entries : heap'[e[2]] = heap[e[2]]
<1>1. \A c \in Chain, n \in CellNo, s \in Slot :
        Published(c, n, s) => KeyOf(types[c][n][s])' = KeyOf(types[c][n][s])
  BY DEF QuietTable, KeyOf
<1>2. PublishedSlots' = PublishedSlots
  BY DEF PublishedSlots, QuietTable
<1>3. \A p \in PublishedSlots : EntryAt(p)' = EntryAt(p)
  BY <1>1 DEF PublishedSlots, EntryAt, QuietTable, KeyOf
<1>4. Entries' = Entries
  BY <1>2, <1>3 DEF Entries
<1>5. \A e \in Entries : heap'[e[2]] = heap[e[2]]
  BY DEF Entries, PublishedSlots, EntryAt, QuietTable
<1> QED BY <1>4, <1>5

\* Publishing adds exactly the thread's key and id to the entries.
LEMMA EntriesNew ==
  ASSUME Inv, NEW t \in Thread, pc[t] \in Filling, NewEntry(t)
  PROVE  /\ Entries' = Entries \cup {<<key[t], id[t]>>}
         /\ heap' = heap
<1>1. id[t] \in TypeId /\ id[t] # 0 /\ heap[id[t]].key = key[t]
  BY DEF Inv, FillInv, OwnType, TypeId
<1>2. PICK d \in Chain, m \in CellNo, r \in Slot :
        /\ types'[d][m][r] = id[t]
        /\ \A c \in Chain, n \in CellNo, s \in Slot :
             /\ Published(c, n, s)' <=> Published(c, n, s) \/ <<c, n, s>> = <<d, m, r>>
             /\ Published(c, n, s) => types'[c][n][s] = types[c][n][s]
  BY DEF NewEntry
<1>3. heap' = heap
  BY DEF NewEntry
<1>4. PublishedSlots' = PublishedSlots \cup {<<d, m, r>>}
  <2>1. \A p \in Chain \X CellNo \X Slot : p = <<p[1], p[2], p[3]>>
    OBVIOUS
  <2> QED BY <1>2, <2>1 DEF PublishedSlots
<1>5. \A p \in PublishedSlots : EntryAt(p)' = EntryAt(p)
  BY <1>2, <1>3 DEF PublishedSlots, EntryAt, KeyOf
<1>6. EntryAt(<<d, m, r>>)' = <<key[t], id[t]>>
  BY <1>1, <1>2, <1>3 DEF EntryAt, KeyOf
<1>7. Entries' = Entries \cup {<<key[t], id[t]>>}
  BY <1>4, <1>5, <1>6 DEF Entries
<1> QED BY <1>3, <1>7

\* No entry for the key that is being added, none with the id it gets.
LEMMA FreshEntry ==
  ASSUME Inv, NEW t \in Thread, pc[t] \in Filling, NEW e \in Entries
  PROVE  e[1] # key[t] /\ e[2] # id[t]
<1>1. PICK p \in PublishedSlots : e = EntryAt(p)
  BY DEF Entries
<1>2. /\ p[1] \in Chain /\ p[2] \in CellNo /\ p[3] \in Slot /\ Published(p[1], p[2], p[3])
  BY DEF PublishedSlots
<1>3. ~Holds(p[1], p[2], p[3], key[t])
  BY <1>2, KeyAbsent DEF Adding
<1>4. types[p[1]][p[2]][p[3]] # id[t]
  BY <1>2 DEF Inv, FillInv, OwnType
<1> QED BY <1>1, <1>2, <1>3, <1>4 DEF EntryAt, Holds

-----------------------------------------------------------------------------
\* What a step of t shows of itself outside the table: t's own call only.
LEMMA CallsStep ==
  ASSUME NEW t \in Thread,
         \A u \in Thread \ {t} : pc'[u] = pc[u] /\ key'[u] = key[u] /\ id'[u] = id[u]
  PROVE  Calls' = [Calls EXCEPT ![t] = CallOf(t)']
<1>1. \A u \in Thread \ {t} : CallOf(u)' = CallOf(u)
  BY DEF CallOf
<1> QED BY <1>1 DEF Calls

\* The locals of the other threads never change.
LEMMA OthersSame ==
  ASSUME Inv, NEW t \in Thread,
         Step(t) \/ InternNone(t) \/ \E k \in Key : Intern(t, k)
  PROVE  \A u \in Thread \ {t} : pc'[u] = pc[u] /\ key'[u] = key[u] /\ id'[u] = id[u]
<1>1. pc \in [Thread -> Location] /\ key \in [Thread -> Key \cup {NoneKey}]
      /\ id \in [Thread -> Nat]
  BY DEF Inv, TypeOK
<1>2. CASE InternNone(t) \/ \E k \in Key : Intern(t, k)
  BY <1>1, <1>2 DEF InternNone, Intern
<1>3. CASE LoadNext(t) \/ Find(t) \/ Compare(t) \/ NextCell(t)
  BY <1>1, <1>3 DEF LoadNext, Find, Compare, NextCell
<1>4. CASE Lock(t) \/ CheckHit(t) \/ CheckMiss(t)
  BY <1>1, <1>4 DEF Lock, CheckHit, CheckMiss
<1>5. CASE RefillArena(t) \/ AllocType(t) \/ AllocMembers(t)
  BY <1>1, <1>5 DEF RefillArena, AllocType, AllocMembers, localVars
<1>6. CASE Place(t) \/ Publish(t) \/ CellFull(t) \/ LinkCell(t)
  BY <1>1, <1>6 DEF Place, Publish, CellFull, LinkCell
<1>7. CASE Return(t)
  BY <1>1, <1>7 DEF Return
<1> QED BY <1>2, <1>3, <1>4, <1>5, <1>6, <1>7 DEF Step

\* Steps without a visible effect: a call that is under way stays so.
Hidden(t) ==
  \/ LoadNext(t) \/ Find(t) \/ NextCell(t) \/ Lock(t) \/ CheckMiss(t)
  \/ RefillArena(t) \/ AllocType(t) \/ AllocMembers(t) \/ Place(t) \/ CellFull(t)
  \/ Compare(t) /\ KeyAt(t, cell[t], index[t]) # key[t]

\* A step on the locals publishes nothing.
LEMMA LocalQuiet ==
  ASSUME Inv, UNCHANGED <<types, hashes, length, top, arena, heap>>
  PROVE  QuietTable
  BY DEF QuietTable, Published

\* The search, the lock and the filling in of a Type cannot be seen from
\* outside.
LEMMA HiddenStep ==
  ASSUME Inv, NEW t \in Thread, Hidden(t)
  PROVE  QuietTable /\ CallOf(t)' = CallOf(t)
<1>1. pc \in [Thread -> Location] /\ key \in [Thread -> Key \cup {NoneKey}]
  BY DEF Inv, TypeOK
<1>2. QuietTable
  <2>1. CASE RefillArena(t) \/ AllocType(t) \/ AllocMembers(t) \/ Place(t)
    BY <2>1, RefillArenaStep, AllocTypeStep, AllocMembersStep, PlaceStep
  <2>2. CASE LoadNext(t) \/ Find(t) \/ NextCell(t) \/ Lock(t) \/ CheckMiss(t)
             \/ CellFull(t) \/ Compare(t)
    BY <2>2, LocalQuiet
    DEF LoadNext, Find, NextCell, Lock, CheckMiss, CellFull, Compare, tableVars, memVars
  <2> QED BY <2>1, <2>2 DEF Hidden
<1>3. key'[t] = key[t] /\ pc[t] \notin {"idle", "return"} /\ pc'[t] \notin {"idle", "return"}
  <2>1. CASE LoadNext(t) \/ Find(t) \/ NextCell(t) \/ Lock(t) \/ CheckMiss(t)
    BY <1>1, <2>1 DEF LoadNext, Find, NextCell, Lock, CheckMiss
  <2>2. CASE RefillArena(t) \/ AllocType(t) \/ AllocMembers(t) \/ Place(t) \/ CellFull(t)
    BY <1>1, <2>2 DEF RefillArena, AllocType, AllocMembers, Place, CellFull, localVars
  <2>3. CASE Compare(t) /\ KeyAt(t, cell[t], index[t]) # key[t]
    BY <1>1, <2>3 DEF Compare
  <2> QED BY <2>1, <2>2, <2>3 DEF Hidden
<1> QED BY <1>2, <1>3 DEF CallOf

\* A call that answers with an entry of the table: Find of Interning.
LEMMA AnswerStep ==
  ASSUME Inv, NEW t \in Thread, NEW n \in CellNo, NEW s \in Slot,
         pc[t] \in InCall, n = cell[t],
         hashes[ChainOf(t)][n][s] = HashOf(key[t]), KeyAt(t, n, s) = key[t],
         id'[t] = types[ChainOf(t)][n][s], pc'[t] = "return", key'[t] = key[t],
         UNCHANGED <<types, hashes, length, top, arena, heap>>,
         \A u \in Thread \ {t} : pc'[u] = pc[u] /\ key'[u] = key[u] /\ id'[u] = id[u]
  PROVE  Abstract!Find(t)
<1>1. ChainOf(t) \in Chain /\ HashOf(key[t]) # 0 /\ Searched(t)
  BY ChainOfType DEF Inv, SearchInv
<1>2. <<ChainOf(t), n, s>> \in PublishedSlots
  BY <1>1 DEF PublishedSlots, Published, Searched
<1>3. EntryAt(<<ChainOf(t), n, s>>) = <<key[t], id'[t]>>
  BY DEF EntryAt, KeyAt, KeyOf
<1>4. <<key[t], id'[t]>> \in Entries
  BY <1>2, <1>3 DEF Entries
<1>5. Calls[t] = [state |-> "pending", key |-> key[t], id |-> 0]
  BY DEF Calls, CallOf, InCall
<1>6. CallOf(t)' = [state |-> "done", key |-> key[t], id |-> id'[t]]
  BY DEF CallOf
<1>7. Calls' = [Calls EXCEPT ![t] = CallOf(t)']
  BY CallsStep
<1>8. Entries' = Entries
  BY LocalQuiet, EntriesQuiet
<1>9. PICK e \in Entries : e = <<key[t], id'[t]>>
  BY <1>4
<1>10. CallOf(t)' = Abstract!Done(Calls[t].key, e[2])
  BY <1>5, <1>6, <1>9 DEF Abstract!Done
<1>11. Calls[t].state = "pending" /\ e[1] = Calls[t].key
  BY <1>5, <1>9
<1>12. Calls' = [Calls EXCEPT ![t] = Abstract!Done(Calls[t].key, e[2])]
  BY <1>7, <1>10
<1> QED BY <1>8, <1>11, <1>12 DEF Abstract!Find

\* A call that publishes its type: Add of Interning.
LEMMA AddStep ==
  ASSUME Inv, NEW t \in Thread, pc[t] \in Filling, NewEntry(t),
         pc'[t] = "return", key'[t] = key[t], id'[t] = id[t],
         \A u \in Thread \ {t} : pc'[u] = pc[u] /\ key'[u] = key[u] /\ id'[u] = id[u]
  PROVE  Abstract!Add(t)
<1>1. Calls[t] = [state |-> "pending", key |-> key[t], id |-> 0]
  BY DEF Calls, CallOf, Filling
<1>2. CallOf(t)' = [state |-> "done", key |-> key[t], id |-> id[t]]
  BY DEF CallOf
<1>3. Calls' = [Calls EXCEPT ![t] = CallOf(t)']
  BY CallsStep
<1>4. id[t] \in TypeId
  BY DEF Inv, FillInv, OwnType
<1>5. \A e \in Entries : e[1] # key[t] /\ e[2] # id[t]
  BY FreshEntry
<1>6. Entries' = Entries \cup {<<key[t], id[t]>>}
  BY EntriesNew
<1>7. CallOf(t)' = Abstract!Done(Calls[t].key, id[t])
  BY <1>1, <1>2 DEF Abstract!Done
<1>8. Calls' = [Calls EXCEPT ![t] = Abstract!Done(Calls[t].key, id[t])]
  BY <1>3, <1>7
<1>9. Calls[t].state = "pending" /\ \A e \in Entries : e[1] # Calls[t].key
  BY <1>1, <1>5
<1>10. Entries' = Entries \cup {<<Calls[t].key, id[t]>>}
  BY <1>1, <1>6
<1> QED BY <1>4, <1>5, <1>8, <1>9, <1>10 DEF Abstract!Add

\* Every step of a call is a step of the abstract table or cannot be seen.
LEMMA StepRefines ==
  ASSUME Inv, NEW t \in Thread,
         Step(t) \/ InternNone(t) \/ \E k \in Key : Intern(t, k)
  PROVE  Abstract!ANext \/ UNCHANGED <<Entries, Calls>>
<1>1. \A u \in Thread \ {t} : pc'[u] = pc[u] /\ key'[u] = key[u] /\ id'[u] = id[u]
  BY OthersSame
<1>2. Calls' = [Calls EXCEPT ![t] = CallOf(t)']
  BY <1>1, CallsStep
<1>3. TypeOK /\ KeyInv
  BY DEF Inv
<1>4. /\ pc \in [Thread -> Location] /\ key \in [Thread -> Key \cup {NoneKey}]
      /\ id \in [Thread -> Nat]
  BY <1>3 DEF TypeOK
<1>5. CASE Hidden(t)
  <2>1. CallOf(t)' = Calls[t]
    BY <1>5, HiddenStep DEF Calls
  <2>2. Calls' = Calls
    BY <1>2, <2>1 DEF Calls
  <2> QED BY <1>5, <2>2, HiddenStep, EntriesQuiet
<1>6. CASE InternNone(t)
  <2>1. Calls[t] = Abstract!Idle
    BY <1>3, <1>6 DEF InternNone, KeyInv, Calls, CallOf, Abstract!Idle
  <2>2. CallOf(t)' = [state |-> "done", key |-> NoneKey, id |-> 0]
    BY <1>3, <1>4, <1>6 DEF InternNone, KeyInv, CallOf
  <2>3. Entries' = Entries
    BY <1>6, LocalQuiet, EntriesQuiet DEF InternNone, tableVars, memVars
  <2>4. Abstract!CallNone(t)
    BY <1>2, <2>1, <2>2, <2>3 DEF Abstract!CallNone, Abstract!Done
  <2> QED BY <2>4 DEF Abstract!ANext
<1>7. ASSUME NEW k \in Key, Intern(t, k) PROVE Abstract!ANext
  <2>1. Calls[t] = Abstract!Idle
    BY <1>3, <1>7 DEF Intern, KeyInv, Calls, CallOf, Abstract!Idle
  <2>2. CallOf(t)' = [state |-> "pending", key |-> k, id |-> 0]
    BY <1>4, <1>7 DEF Intern, CallOf
  <2>3. Entries' = Entries
    BY <1>7, LocalQuiet, EntriesQuiet DEF Intern, tableVars, memVars
  <2>4. Abstract!Call(t, k)
    BY <1>2, <2>1, <2>2, <2>3 DEF Abstract!Call
  <2> QED BY <2>4 DEF Abstract!ANext
<1>8. CASE Compare(t) /\ KeyAt(t, cell[t], index[t]) = key[t]
  <2>1. pc[t] \in InCall /\ pc[t] = "compare"
    BY <1>8 DEF Compare, InCall, Location
  <2>2. /\ Searched(t) /\ cell[t] \in CellNo
    BY <1>3, <2>1 DEF Inv, SearchInv, TypeOK
  <2>3. /\ index[t] \in Slot /\ hashes[ChainOf(t)][cell[t]][index[t]] = HashOf(key[t])
    BY <2>1, <2>2 DEF Searched
  <2>4. /\ id'[t] = types[ChainOf(t)][cell[t]][index[t]]
        /\ pc'[t] = "return" /\ key'[t] = key[t]
        /\ UNCHANGED <<types, hashes, length, top, arena, heap>>
    BY <1>4, <1>8 DEF Compare, tableVars, memVars
  <2>5. Abstract!Find(t)
    BY <1>1, <1>8, <2>1, <2>2, <2>3, <2>4, AnswerStep
  <2> QED BY <2>5 DEF Abstract!ANext
<1>9. CASE CheckHit(t)
  <2>1. pc[t] \in InCall /\ cell[t] \in CellNo
    BY <1>3, <1>9 DEF CheckHit, InCall, Location, TypeOK
  <2>2. PICK s \in Hits(t) : id' = [id EXCEPT ![t] = types[ChainOf(t)][cell[t]][s]]
    BY <1>9 DEF CheckHit
  <2>3. /\ s \in Slot /\ hashes[ChainOf(t)][cell[t]][s] = HashOf(key[t])
        /\ KeyAt(t, cell[t], s) = key[t]
    BY DEF Hits
  <2>4. /\ id'[t] = types[ChainOf(t)][cell[t]][s]
        /\ pc'[t] = "return" /\ key'[t] = key[t]
        /\ UNCHANGED <<types, hashes, length, top, arena, heap>>
    BY <1>4, <1>9, <2>2 DEF CheckHit, tableVars, memVars
  <2>5. Abstract!Find(t)
    BY <1>1, <2>1, <2>3, <2>4, AnswerStep
  <2> QED BY <2>5 DEF Abstract!ANext
<1>10. CASE Publish(t) \/ LinkCell(t)
  <2>1. /\ pc[t] \in Filling /\ pc'[t] = "return" /\ key'[t] = key[t] /\ id'[t] = id[t]
    BY <1>4, <1>10 DEF Publish, LinkCell, Filling
  <2>2. NewEntry(t)
    BY <1>10, PublishStep, LinkCellStep
  <2>3. Abstract!Add(t)
    BY <1>1, <2>1, <2>2, AddStep
  <2> QED BY <2>3 DEF Abstract!ANext
<1>11. CASE Return(t)
  <2>1. Calls[t].state = "done"
    BY <1>11 DEF Return, Calls, CallOf
  <2>2. CallOf(t)' = Abstract!Idle
    BY <1>4, <1>11 DEF Return, CallOf, Abstract!Idle
  <2>3. Entries' = Entries
    BY <1>11, LocalQuiet, EntriesQuiet DEF Return, tableVars, memVars
  <2>4. Abstract!Return(t)
    BY <1>2, <2>1, <2>2, <2>3 DEF Abstract!Return
  <2> QED BY <2>4 DEF Abstract!ANext
<1> QED BY <1>5, <1>6, <1>7, <1>8, <1>9, <1>10, <1>11 DEF Step, Hidden

\* The interner implements the abstract table: calls are atomic.
THEOREM Implements == Spec => ImplementsInterning
<1>1. Init => Abstract!AInit
  <2> SUFFICES ASSUME Init PROVE Abstract!AInit
    OBVIOUS
  <2>1. PublishedSlots = {}
    BY DEF Init, PublishedSlots, Published
  <2>2. Calls = [t \in Thread |-> Abstract!Idle]
    BY DEF Init, Calls, CallOf, Abstract!Idle
  <2> QED BY <2>1, <2>2 DEF Abstract!AInit, Entries
<1>2. Inv /\ [Next]_vars => [Abstract!ANext]_(Abstract!avars)
  <2> SUFFICES ASSUME Inv, [Next]_vars PROVE [Abstract!ANext]_(Abstract!avars)
    OBVIOUS
  <2>1. CASE UNCHANGED vars
    <3>1. Entries' = Entries
      BY <2>1, LocalQuiet, EntriesQuiet DEF vars, tableVars, memVars
    <3>2. Calls' = Calls
      BY <2>1 DEF vars, localVars, Calls, CallOf
    <3> QED BY <3>1, <3>2 DEF Abstract!avars
  <2>2. CASE Next
    BY <2>2, StepRefines DEF Next, Abstract!avars
  <2> QED BY <2>1, <2>2
<1> QED BY <1>1, <1>2, InvHolds, PTL DEF Spec, ImplementsInterning, Abstract!ASpec

\* Entries are never removed and their types never written again.
THEOREM Forever == Spec => EntriesAreForever
<1>1. Inv /\ [Next]_vars =>
        [/\ Entries \subseteq Entries'
         /\ \A e \in Entries : heap'[e[2]] = heap[e[2]]]_vars
  <2> SUFFICES ASSUME Inv, NEW t \in Thread,
                      Step(t) \/ InternNone(t) \/ \E k \in Key : Intern(t, k)
               PROVE  /\ Entries \subseteq Entries'
                      /\ \A e \in Entries : heap'[e[2]] = heap[e[2]]
    BY DEF Next
  <2>1. CASE Hidden(t)
    BY <2>1, HiddenStep, EntriesQuiet
  <2>2. CASE Publish(t) \/ LinkCell(t)
    <3>1. pc[t] \in Filling
      BY <2>2 DEF Publish, LinkCell, Filling
    <3> QED BY <2>2, <3>1, PublishStep, LinkCellStep, EntriesNew
  <2>3. CASE Compare(t) \/ CheckHit(t) \/ Return(t) \/ InternNone(t) \/ \E k \in Key : Intern(t, k)
    <3>1. UNCHANGED <<types, hashes, length, top, arena, heap>>
      BY <2>3 DEF Compare, CheckHit, Return, InternNone, Intern, tableVars, memVars
    <3> QED BY <3>1, LocalQuiet, EntriesQuiet
  <2> QED BY <2>1, <2>2, <2>3 DEF Step, Hidden
<1> QED BY <1>1, InvHolds, PTL DEF Spec, EntriesAreForever

-----------------------------------------------------------------------------
(***************************************************************************)
(* No call is held up for ever: a stripe mutex is owned by a thread inside *)
(* its critical section and nobody there waits for another stripe, and a   *)
(* step of a call never takes it back.  CallsReturn, which TLC checks,     *)
(* needs the scheduler as well.                                            *)
(***************************************************************************)

\* A stripe mutex is locked only while a thread that interns a key of that
\* stripe is between the lock and the return: every return unlocks.
Held ==
  \A m \in Stripe : mutexes[m] # NoThread =>
    \E t \in Thread : mutexes[m] = t /\ pc[t] \in Critical /\ StripeOf(t) = m

\* A step of other threads, or of a thread that keeps its mutex.
LEMMA HeldQuiet ==
  ASSUME Held, mutexes' = mutexes,
         \A u \in Thread : pc[u] \in Critical => pc'[u] \in Critical /\ key'[u] = key[u]
  PROVE  Held'
<1>. SUFFICES ASSUME NEW m \in Stripe, mutexes[m] # NoThread
              PROVE  \E t \in Thread : mutexes[m] = t /\ pc'[t] \in Critical /\ StripeOf(t)' = m
  BY DEF Held
<1>1. PICK t \in Thread : mutexes[m] = t /\ pc[t] \in Critical /\ StripeOf(t) = m
  BY DEF Held
<1>2. StripeOf(t)' = StripeOf(t)
  BY <1>1 DEF StripeOf, ChainOf
<1>. QED BY <1>1, <1>2

LEMMA HeldLock ==
  ASSUME Inv, Held, NEW t \in Thread, Lock(t)
  PROVE  Held'
<1>1. pc[t] \in InCall /\ pc[t] \notin Critical
  BY DEF Lock, InCall, Location, Critical, Adding, Filling
<1>2. StripeOf(t) \in Stripe
  BY <1>1, ChainOfType DEF Inv
<1>3. /\ mutexes' = [mutexes EXCEPT ![StripeOf(t)] = t] /\ key' = key
      /\ pc' = [pc EXCEPT ![t] = "check"]
  BY DEF Lock
<1>4. \A u \in Thread : StripeOf(u)' = StripeOf(u)
  BY <1>3 DEF StripeOf, ChainOf
<1>5. pc \in [Thread -> Location] /\ mutexes \in [Stripe -> Thread \cup {NoThread}]
  BY DEF Inv, TypeOK
<1>. SUFFICES ASSUME NEW m \in Stripe, mutexes'[m] # NoThread
              PROVE  \E u \in Thread : mutexes'[m] = u /\ pc'[u] \in Critical /\ StripeOf(u) = m
  BY <1>4 DEF Held
<1>6. CASE m = StripeOf(t)
  <2>1. mutexes'[m] = t /\ pc'[t] = "check"
    BY <1>2, <1>3, <1>5, <1>6
  <2>. QED BY <1>6, <2>1 DEF Critical
<1>7. CASE m # StripeOf(t)
  <2>1. mutexes'[m] = mutexes[m]
    BY <1>3, <1>5, <1>7
  <2>2. PICK u \in Thread : mutexes[m] = u /\ pc[u] \in Critical /\ StripeOf(u) = m
    BY <2>1 DEF Held
  <2>3. pc'[u] = pc[u]
    BY <1>1, <1>3, <1>5, <2>2
  <2>. QED BY <2>1, <2>2, <2>3
<1>. QED BY <1>6, <1>7

LEMMA HeldUnlock ==
  ASSUME Inv, Held, NEW t \in Thread, pc[t] \in Critical, Unlock(t), key' = key,
         pc' = [pc EXCEPT ![t] = "return"]
  PROVE  Held'
<1>1. StripeOf(t) \in Stripe
  BY ChainOfType DEF Inv, InCall, Location, Critical, Adding, Filling
<1>2. \A u \in Thread : StripeOf(u)' = StripeOf(u)
  BY DEF StripeOf, ChainOf
<1>3. pc \in [Thread -> Location] /\ mutexes \in [Stripe -> Thread \cup {NoThread}]
  BY DEF Inv, TypeOK
<1>. SUFFICES ASSUME NEW m \in Stripe, mutexes'[m] # NoThread
              PROVE  \E u \in Thread : mutexes'[m] = u /\ pc'[u] \in Critical /\ StripeOf(u) = m
  BY <1>2 DEF Held
<1>4. m # StripeOf(t) /\ mutexes'[m] = mutexes[m]
  BY <1>1, <1>3 DEF Unlock
<1>5. PICK u \in Thread : mutexes[m] = u /\ pc[u] \in Critical /\ StripeOf(u) = m
  BY <1>4 DEF Held
<1>6. pc'[u] = pc[u]
  BY <1>3, <1>4, <1>5
<1>. QED BY <1>4, <1>5, <1>6

LEMMA HeldNext == Inv /\ Held /\ [Next]_vars => Held'
<1>. SUFFICES ASSUME Inv, Held, [Next]_vars PROVE Held'
  OBVIOUS
<1>1. pc \in [Thread -> Location] /\ key \in [Thread -> Key \cup {NoneKey}]
  BY DEF Inv, TypeOK
<1>2. CASE UNCHANGED vars
  BY <1>2, HeldQuiet DEF vars, localVars
<1>3. ASSUME NEW t \in Thread,
             Step(t) \/ InternNone(t) \/ \E k \in Key : Intern(t, k)
      PROVE  Held'
  <2>1. CASE LoadNext(t) \/ Find(t) \/ Compare(t) \/ NextCell(t) \/ Return(t) \/ InternNone(t)
             \/ \E k \in Key : Intern(t, k)
    <3>1. /\ mutexes' = mutexes /\ pc[t] \notin Critical
          /\ \A u \in Thread \ {t} : pc'[u] = pc[u] /\ key'[u] = key[u]
      BY <1>1, <2>1 DEF LoadNext, Find, Compare, NextCell, Return, InternNone, Intern, Critical,
           Adding, Filling
    <3>. QED BY <3>1, HeldQuiet
  <2>2. CASE CheckMiss(t) \/ RefillArena(t) \/ AllocType(t) \/ AllocMembers(t) \/ Place(t)
             \/ CellFull(t)
    <3>1. /\ mutexes' = mutexes /\ key' = key /\ pc'[t] \in Critical
          /\ \A u \in Thread \ {t} : pc'[u] = pc[u]
      BY <1>1, <2>2 DEF CheckMiss, RefillArena, AllocType, AllocMembers, Place, CellFull, Critical,
           Adding, Filling, localVars
    <3>. QED BY <3>1, HeldQuiet
  <2>3. CASE CheckHit(t) \/ Publish(t) \/ LinkCell(t)
    <3>1. pc[t] \in Critical /\ Unlock(t) /\ key' = key /\ pc' = [pc EXCEPT ![t] = "return"]
      BY <2>3 DEF CheckHit, Publish, LinkCell, Critical, Adding, Filling
    <3>. QED BY <3>1, HeldUnlock
  <2>. QED BY <1>3, <2>1, <2>2, <2>3, HeldLock DEF Step
<1>. QED BY <1>2, <1>3 DEF Next

\* A locked stripe mutex has an owner between the lock and the return of
\* type_interner_intern, for a key of that stripe: no return, early or late,
\* leaves the mutex locked.
THEOREM EveryReturnUnlocks == Spec => []Held
<1>1. Init => Held
  BY DEF Init, Held
<1>. QED BY <1>1, HeldNext, InvHolds, PTL DEF Spec

\* The thread waits for its stripe mutex.
Waits(t) == pc[t] = "lock" /\ mutexes[StripeOf(t)] # NoThread

\* A thread that waits owns no stripe mutex, and the one it waits for is owned
\* by a thread that does not wait for any.
NoCycle ==
  \A t \in Thread : Waits(t) =>
    /\ \A m \in Stripe : mutexes[m] # t
    /\ \E u \in Thread : mutexes[StripeOf(t)] = u /\ pc[u] \in Critical /\ ~Waits(u)

\* No thread waits for a thread that waits: the stripe mutexes cannot deadlock.
THEOREM StripesDoNotDeadlock == Spec => []NoCycle
<1>1. Inv /\ Held => NoCycle
  <2>. SUFFICES ASSUME Inv, Held, NEW t \in Thread, Waits(t)
                PROVE  /\ \A m \in Stripe : mutexes[m] # t
                       /\ \E u \in Thread : /\ mutexes[StripeOf(t)] = u /\ pc[u] \in Critical
                                            /\ ~Waits(u)
    BY DEF NoCycle
  <2>1. pc[t] \in InCall /\ "lock" \notin Critical
    BY DEF Waits, InCall, Location, Critical, Adding, Filling
  <2>2. StripeOf(t) \in Stripe
    BY <2>1, ChainOfType DEF Inv
  <2>3. \A m \in Stripe : mutexes[m] # t
    BY <2>1, ThreadAssumption DEF Held, Waits
  <2>4. PICK u \in Thread : mutexes[StripeOf(t)] = u /\ pc[u] \in Critical
    BY <2>2 DEF Held, Waits
  <2>5. ~Waits(u)
    BY <2>1, <2>4 DEF Waits
  <2>. QED BY <2>3, <2>4, <2>5
<1>. QED BY <1>1, InvHolds, EveryReturnUnlocks, PTL

\* How far a call is in type_interner_intern: the parts of the procedure in
\* their order, and within the search of a cell the loads one after the other.
Phase(p) ==
  CASE p \in {"load_next", "find", "compare"} -> 1
    [] p = "lock"                             -> 2
    [] p = "check"                            -> 3
    [] p = "alloc_type"                       -> 4
    [] p = "alloc_members"                    -> 5
    [] p = "place"                            -> 6
    [] p \in {"publish", "alloc_cell"}        -> 7
    [] p = "return"                           -> 8
    [] OTHER                                  -> 9
Loads(p, i) ==
  CASE p = "find"    -> 2 * i + 1
    [] p = "compare" -> 2 * i + 2
    [] OTHER         -> 0

\* The call goes to a later part, to the next cell, to the next load of the
\* cell, or takes a block of the arena.
Forward(t) ==
  \/ Phase(pc[t]) < Phase(pc'[t])
  \/ Phase(pc[t]) = Phase(pc'[t]) /\ cell[t] < cell'[t]
  \/ /\ Phase(pc[t]) = Phase(pc'[t]) /\ cell[t] = cell'[t]
     /\ Loads(pc[t], index[t]) < Loads(pc'[t], index'[t])
  \/ UNCHANGED <<pc, cell, index>> /\ top < top'

\* A step starts a call or takes one forward, and leaves the others where they
\* are.
OneGoesForward ==
  \E t \in Thread :
    /\ \A u \in Thread \ {t} : pc'[u] = pc[u] /\ cell'[u] = cell[u] /\ index'[u] = index[u]
    /\ pc[t] = "idle" \/ Forward(t)

\* Whatever the other threads do, a step of type_interner_intern takes its call
\* to a later place of the procedure, cell or load, or takes one of the finitely
\* many blocks of the arena: a thread retries nothing.
THEOREM CallsGoForward == Spec => [][OneGoesForward]_vars
<1>1. Inv /\ [Next]_vars => [OneGoesForward]_vars
  <2>. SUFFICES ASSUME Inv, NEW t \in Thread,
                       Step(t) \/ InternNone(t) \/ \E k \in Key : Intern(t, k)
                PROVE  /\ \A u \in Thread \ {t} : /\ pc'[u] = pc[u] /\ cell'[u] = cell[u]
                                                  /\ index'[u] = index[u]
                       /\ pc[t] = "idle" \/ Forward(t)
    BY DEF Next, OneGoesForward
  <2>1. /\ pc \in [Thread -> Location] /\ cell \in [Thread -> CellNo]
        /\ index \in [Thread -> 0 .. CellSize] /\ top \in Nat
    BY DEF Inv, TypeOK
  <2>2. cell[t] \in Nat /\ index[t] \in Nat
    BY <2>1, TableAssumption DEF CellNo
  <2>3. \A u \in Thread \ {t} : pc'[u] = pc[u] /\ cell'[u] = cell[u] /\ index'[u] = index[u]
    BY <2>1 DEF Step, InternNone, Intern, LoadNext, Find, Compare, NextCell, Lock, CheckHit,
         CheckMiss, RefillArena, AllocType, AllocMembers, Place, Publish, CellFull, LinkCell,
         Return, localVars
  <2>4. CASE InternNone(t) \/ \E k \in Key : Intern(t, k)
    BY <2>3, <2>4 DEF InternNone, Intern
  <2>5. CASE LoadNext(t)
    <3>1. /\ pc[t] = "load_next" /\ pc'[t] = "find" /\ cell'[t] = cell[t] /\ index'[t] = 0
      BY <2>1, <2>5 DEF LoadNext
    <3>2. Phase(pc[t]) = 1 /\ Phase(pc'[t]) = 1 /\ Loads(pc[t], index[t]) = 0
          /\ Loads(pc'[t], index'[t]) = 1
      BY <3>1 DEF Phase, Loads
    <3>. QED BY <2>3, <3>1, <3>2 DEF Forward
  <2>6. CASE Find(t)
    <3>1. /\ pc[t] = "find" /\ cell'[t] = cell[t]
          /\ \/ pc'[t] = "compare" /\ index'[t] = index[t]
             \/ pc'[t] = "find" /\ index'[t] = index[t] + 1
      BY <2>1, <2>6 DEF Find
    <3>2. /\ Phase(pc[t]) = 1 /\ Phase(pc'[t]) = 1 /\ Loads(pc[t], index[t]) = 2 * index[t] + 1
          /\ Loads(pc'[t], index'[t]) \in {2 * index[t] + 2, 2 * (index[t] + 1) + 1}
      BY <3>1 DEF Phase, Loads
    <3>3. Loads(pc[t], index[t]) < Loads(pc'[t], index'[t])
      BY <2>2, <3>2
    <3>. QED BY <2>3, <3>1, <3>2, <3>3 DEF Forward
  <2>7. CASE Compare(t)
    <3>1. /\ pc[t] = "compare" /\ cell'[t] = cell[t]
          /\ \/ pc'[t] = "return"
             \/ pc'[t] = "find" /\ index'[t] = index[t] + 1
      BY <2>1, <2>7 DEF Compare
    <3>2. CASE pc'[t] = "return"
      <4>1. Phase(pc[t]) = 1 /\ Phase(pc'[t]) = 8
        BY <3>1, <3>2 DEF Phase
      <4>. QED BY <2>3, <4>1 DEF Forward
    <3>3. CASE pc'[t] = "find" /\ index'[t] = index[t] + 1
      <4>1. /\ Phase(pc[t]) = 1 /\ Phase(pc'[t]) = 1 /\ Loads(pc[t], index[t]) = 2 * index[t] + 2
            /\ Loads(pc'[t], index'[t]) = 2 * (index[t] + 1) + 1
        BY <3>1, <3>3 DEF Phase, Loads
      <4>2. Loads(pc[t], index[t]) < Loads(pc'[t], index'[t])
        BY <2>2, <4>1
      <4>. QED BY <2>3, <3>1, <4>1, <4>2 DEF Forward
    <3>. QED BY <3>1, <3>2, <3>3
  <2>8. CASE NextCell(t) \/ CheckMiss(t)
    <3>1. \/ pc[t] = "find" /\ pc'[t] = "load_next" /\ cell'[t] = cell[t] + 1
          \/ pc[t] = "check" /\ pc'[t] = "check" /\ cell'[t] = cell[t] + 1
          \/ pc[t] = "find" /\ pc'[t] = "lock"
          \/ pc[t] = "check" /\ pc'[t] = "alloc_type"
      BY <2>1, <2>8 DEF NextCell, CheckMiss
    <3>2. \/ Phase(pc[t]) = Phase(pc'[t]) /\ cell'[t] = cell[t] + 1
          \/ Phase(pc[t]) = 1 /\ Phase(pc'[t]) = 2
          \/ Phase(pc[t]) = 3 /\ Phase(pc'[t]) = 4
      BY <3>1 DEF Phase
    <3>. QED BY <2>2, <2>3, <3>2 DEF Forward
  <2>9. CASE RefillArena(t)
    <3>1. \E n \in Nat : top' = AlignForward(top, PageSize) + Larger(LocalSize, n)
      <4>1. Request(t)[1] \in Nat
        <5>1. pc[t] \in InCall
          BY <2>9 DEF RefillArena, InCall, Location
        <5>2. MembersSize[key[t]] \in Nat
          BY <5>1, ChainOfType, KeyAssumption DEF Inv
        <5>. QED BY <5>2, MemoryAssumption DEF Request
      <4>. QED BY <2>9, <4>1 DEF RefillArena, Refill
    <3>2. AlignForward(top, PageSize) \in Nat /\ AlignForward(top, PageSize) >= top
      BY <2>1, AlignForwardBound, MemoryAssumption
    <3>3. top < top'
      BY <2>1, <3>1, <3>2, MemoryAssumption DEF Larger
    <3>4. UNCHANGED <<pc, cell, index>>
      BY <2>9 DEF RefillArena, localVars
    <3>. QED BY <2>3, <3>3, <3>4 DEF Forward
  <2>10. CASE Lock(t) \/ CheckHit(t) \/ AllocType(t) \/ AllocMembers(t) \/ Place(t) \/ Publish(t)
              \/ CellFull(t) \/ LinkCell(t) \/ Return(t)
    <3>1. \/ pc[t] = "lock" /\ pc'[t] = "check"
          \/ pc[t] = "check" /\ pc'[t] = "return"
          \/ pc[t] = "alloc_type" /\ pc'[t] = "alloc_members"
          \/ pc[t] = "alloc_members" /\ pc'[t] = "place"
          \/ pc[t] = "place" /\ pc'[t] \in {"publish", "alloc_cell"}
          \/ pc[t] \in {"publish", "alloc_cell"} /\ pc'[t] = "return"
          \/ pc[t] = "return" /\ pc'[t] = "idle"
      BY <2>1, <2>10 DEF Lock, CheckHit, AllocType, AllocMembers, Place, Publish, CellFull,
           LinkCell, Return
    <3>2. \E i, j \in 1 .. 9 : i < j /\ Phase(pc[t]) = i /\ Phase(pc'[t]) = j
      BY <3>1 DEF Phase
    <3>. QED BY <2>3, <3>2 DEF Forward
  <2>. QED BY <2>4, <2>5, <2>6, <2>7, <2>8, <2>9, <2>10 DEF Step
<1>. QED BY <1>1, InvHolds, PTL DEF Spec
=============================================================================
