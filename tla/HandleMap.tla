------------------------------ MODULE HandleMap ------------------------------
(***************************************************************************)
(* The handle map: slots that are reused, and handles that carry the       *)
(* generation of their slot, so that a handle of a removed item is told    *)
(* from the one of the item that took its place.  Slot 0 is the zero       *)
(* value, which the handle {0, 0} names.                                   *)
(*                                                                         *)
(* An item is the number of its addition: the n-th item is n, the zero     *)
(* value 0.  The client keeps every handle it was given, uses old ones     *)
(* too, and iterates while it adds and removes.                            *)
(***************************************************************************)
EXTENDS Naturals, Sequences, FiniteSets

CONSTANTS Width,      \* idx and gen are of one unsigned type with this many values
          MaxSlots,   \* bound: slots, and entries of the unused list
          MaxAdds     \* bound: additions

\* Slot numbers fit into idx: the code truncates one that does not.
ASSUME WidthAssumption == Width \in Nat \ {0, 1} /\ MaxSlots \in 1 .. Width /\ MaxAdds \in Nat

VARIABLES items,      \* m.items: slot i is items[i + 1]
          unused,     \* m.unused_items
          index,      \* it.index
          status,     \* "ok", "zero_lost" (slot 0 was freed), or "destroyed"
          given,      \* the handles returned by hm_add, by item
          live,       \* items added and not removed
          cleared,    \* items added before the last hm_clear
          seen,       \* items this round of the iteration has returned
          stay        \* items live since it began

vars == <<items, unused, index, status, given, live, cleared, seen, stay>>

Handle     == [idx : 0 .. Width - 1, gen : 0 .. Width - 1]
ZeroHandle == [idx |-> 0, gen |-> 0]
Slots      == 0 .. Len(items) - 1
Slot(i)    == items[i + 1]
Up         == status # "destroyed"

\* hm_get, hm_is_valid
Found(h) == h.idx < Len(items) /\ Slot(h.idx).handle = h

-----------------------------------------------------------------------------
\* Mutant: hm_init does not append the zero value.
InitEmpty ==
  /\ items = <<>>
  /\ unused = <<>>
  /\ index = 0
  /\ status = "ok"
  /\ given = <<>>
  /\ live = {}
  /\ cleared = 0
  /\ seen = {}
  /\ stay = {}

\* hm_init
Init ==
  /\ items = <<[handle |-> ZeroHandle, item |-> 0]>>
  /\ unused = <<>>
  /\ index = 0
  /\ status = "ok"
  /\ given = <<>>
  /\ live = {}
  /\ cleared = 0
  /\ seen = {}
  /\ stay = {}

-----------------------------------------------------------------------------
\* The client gets h for its next item.
Given(h) ==
  /\ given' = Append(given, h)
  /\ live' = live \cup {Len(given) + 1}

\* Mutant: the generation does not wrap.
ReuseWide ==
  LET i == unused[Len(unused)]
      h == [idx |-> i % Width, gen |-> Slot(i).handle.gen + 1]
  IN /\ unused' = [k \in 1 .. Len(unused) - 1 |-> unused[k]]
     /\ items' = [items EXCEPT ![i + 1] = [handle |-> h, item |-> Len(given) + 1]]
     /\ Given(h)

\* Mutant: a reused slot starts with generation 1 again.
ReuseFresh ==
  LET i == unused[Len(unused)]
      h == [idx |-> i % Width, gen |-> 1]
  IN /\ unused' = [k \in 1 .. Len(unused) - 1 |-> unused[k]]
     /\ items' = [items EXCEPT ![i + 1] = [handle |-> h, item |-> Len(given) + 1]]
     /\ Given(h)

\* hm_add: the slot freed last, with the next generation...
Reuse ==
  LET i == unused[Len(unused)]
      h == [idx |-> i % Width, gen |-> (Slot(i).handle.gen + 1) % Width]
  IN /\ unused' = [k \in 1 .. Len(unused) - 1 |-> unused[k]]
     /\ items' = [items EXCEPT ![i + 1] = [handle |-> h, item |-> Len(given) + 1]]
     /\ Given(h)

\* ... or a new one.
Extend ==
  LET h == [idx |-> Len(items) % Width, gen |-> 1]
  IN /\ Len(items) < MaxSlots
     /\ items' = Append(items, [handle |-> h, item |-> Len(given) + 1])
     /\ UNCHANGED unused
     /\ Given(h)

Add ==
  /\ Up
  /\ Len(given) < MaxAdds
  /\ IF unused # <<>> THEN Reuse ELSE Extend
  /\ UNCHANGED <<index, status, cleared, seen, stay>>

-----------------------------------------------------------------------------
\* Mutant: the slot keeps its handle.
FreeKept(i) ==
  /\ unused' = Append(unused, i)
  /\ UNCHANGED items

\* The slot goes to the unused ones and keeps its generation.
Free(i) ==
  /\ unused' = Append(unused, i)
  /\ items' = [items EXCEPT ![i + 1].handle.idx = 0]

\* What the client means by h: it gives up the items it got this handle for.
Named(h) == {s \in live : given[s] = h}

\* Mutant: only the slot of the handle is compared.
RemoveAny(h) ==
  /\ Up
  /\ h.idx < Len(items)
  /\ Slot(h.idx).handle.idx = h.idx
  /\ Len(unused) < MaxSlots
  /\ Free(h.idx)
  /\ live' = live \ Named(h)
  /\ stay' = stay \ Named(h)
  /\ status' = IF h.idx = 0 THEN "zero_lost" ELSE status
  /\ UNCHANGED <<index, given, cleared, seen>>

\* hm_remove of a handle that is found; of any other it changes nothing.
\* The zero handle is found, and slot 0 freed.
Remove(h) ==
  /\ Up
  /\ Found(h)
  /\ Len(unused) < MaxSlots
  /\ Free(h.idx)
  /\ live' = live \ Named(h)
  /\ stay' = stay \ Named(h)
  /\ status' = IF h.idx = 0 THEN "zero_lost" ELSE status
  /\ UNCHANGED <<index, given, cleared, seen>>

\* hm_clear and hm_destroy drop the zero value too.
Empty(next) ==
  /\ Up
  /\ items' = <<>>
  /\ unused' = <<>>
  /\ status' = next
  /\ live' = {}
  /\ stay' = {}
  /\ cleared' = Len(given)
  /\ UNCHANGED <<index, given, seen>>

Clear   == Empty("zero_lost")
Destroy == Empty("destroyed")

-----------------------------------------------------------------------------
\* The slots in use the iterator has not reached.
Ahead == {i \in Slots : i >= index /\ Slot(i).handle.idx # 0}

\* Mutant: the slot behind the one returned is skipped.
VisitSkips(i) ==
  /\ index' = i + 2
  /\ seen' = seen \cup {Slot(i).item}
  /\ UNCHANGED stay

Visit(i) ==
  /\ index' = i + 1
  /\ seen' = seen \cup {Slot(i).item}
  /\ UNCHANGED stay

\* A round begins.
Begin ==
  /\ index' = 0
  /\ seen' = {}
  /\ stay' = live

\* hm_iterate: the next slot in use, or the end, after which the iterator
\* begins again.
Iterate ==
  /\ Up
  /\ \/ \E i \in Ahead : (\A j \in Ahead : i <= j) /\ Visit(i)
     \/ Ahead = {} /\ Begin
  /\ UNCHANGED <<items, unused, status, given, live, cleared>>

\* hm_iterator_make, hm_iterator_make_all
Make ==
  /\ Up
  /\ Begin
  /\ UNCHANGED <<items, unused, status, given, live, cleared>>

-----------------------------------------------------------------------------
Next ==
  \/ Add
  \/ Remove(ZeroHandle)
  \/ \E s \in 1 .. Len(given) : Remove(given[s])
  \/ Clear
  \/ Destroy
  \/ Make
  \/ Iterate

Spec == Init /\ [][Next]_vars

-----------------------------------------------------------------------------
\* Type correctness.
TypeOK ==
  /\ items \in Seq([handle : Handle, item : 0 .. MaxAdds])
  /\ Len(items) <= MaxSlots
  /\ unused \in Seq(0 .. MaxSlots - 1)
  /\ index \in 0 .. MaxSlots
  /\ status \in {"ok", "zero_lost", "destroyed"}
  /\ given \in Seq(Handle)
  /\ Len(given) <= MaxAdds
  /\ live \subseteq 1 .. Len(given)
  /\ cleared \in 0 .. Len(given)
  /\ seen \subseteq 0 .. Len(given)
  /\ stay \subseteq live

\* hm_get: the handle of an item that was not removed leads to this item,
\* whatever was added, removed or iterated since, unless hm_add gave it the
\* slot of the zero value.
LiveResolve ==
  \A s \in live : given[s].idx # 0 => Found(given[s]) /\ Slot(given[s].idx).item = s

Reuses(s, t) == Cardinality({u \in s + 1 .. t : given[u].idx = given[s].idx})

\* hm_get: a handle of a removed item is not found, until its slot has been
\* reused as often as a generation has values: only then, or if the map was
\* cleared, does it lead to a later item.
StaleRejected ==
  \A s \in cleared + 1 .. Len(given) :
    (s \notin live /\ given[s].idx # 0 /\ Found(given[s]))
      => LET t == Slot(given[s].idx).item
         IN t > s /\ Reuses(s, t) % Width = 0

\* The unused list of hm_remove has each free slot once and no slot in use,
\* for hm_add takes from it without a look at the slot.
FreeSlots ==
  /\ \A k, l \in 1 .. Len(unused) : (unused[k] = unused[l] /\ unused[k] # 0) => k = l
  /\ \A i \in Slots \ {0} : Slot(i).handle.idx = 0 <=> \E k \in 1 .. Len(unused) : unused[k] = i

\* The zero value stays in its slot, and no item gets its handle, as long as
\* the zero handle is not removed and the map not cleared.
SentinelStays ==
  status = "ok" =>
    /\ Found(ZeroHandle) /\ Slot(0).item = 0
    /\ \A s \in 1 .. Len(given) : given[s].idx # 0

Round ==
  Iterate => /\ index' # 0 => seen' # seen
             /\ index' = 0 => {s \in stay : given[s].idx # 0} \subseteq seen

\* hm_iterate: a round returns no item twice, and when it ends it has
\* returned every item that was in the map all along, but for one in slot 0.
EachVisitedOnce == [][Round]_vars
=============================================================================
