--------------------------- MODULE HandleMapProofs ---------------------------
(***************************************************************************)
(* The handle map for every width of a handle, every number of slots and   *)
(* every number of additions: handles lead to the items they were given    *)
(* for, the unused list is right, the zero value stays in place and the    *)
(* iterator returns each item once.                                        *)
(***************************************************************************)
EXTENDS HandleMap, SequenceTheorems, FiniteSetTheorems, TLAPS

Entry == [handle : Handle, item : 0 .. MaxAdds]

\* A slot in use carries its own number.
SlotOwn == \A i \in Slots : Slot(i).handle.idx \in {0, i}

\* The unused list names slots, and not slot 0 while the zero value is there.
FreeInside ==
  \A k \in 1 .. Len(unused) : unused[k] \in Slots /\ (status = "ok" => unused[k] # 0)

\* A slot in use has an item that is live, and the handle given for it.
UsedLive ==
  \A i \in Slots : Slot(i).handle.idx # 0 =>
    Slot(i).item \in live /\ given[Slot(i).item] = Slot(i).handle

\* What the iterator has passed it has returned, and nothing ahead of it.
Visited   == \A s \in stay : (given[s].idx # 0 /\ given[s].idx < index) => s \in seen
Unvisited == \A i \in Ahead : Slot(i).item \notin seen

\* The inductive invariant.
IInv ==
  /\ TypeOK
  /\ SlotOwn
  /\ FreeInside
  /\ FreeSlots
  /\ UsedLive
  /\ LiveResolve
  /\ SentinelStays
  /\ Visited
  /\ Unvisited

USE WidthAssumption

\* A number that fits is not changed by the truncation to the width.
LEMMA Fits ==
  ASSUME NEW i \in Nat, NEW w \in Nat \ {0}, i < w
  PROVE  i % w = i
OBVIOUS

\* A truncated number fits.
LEMMA Truncated ==
  ASSUME NEW i \in Nat, NEW w \in Nat \ {0}
  PROVE  i % w \in 0 .. w - 1
OBVIOUS

\* Quotient and remainder.
LEMMA Division ==
  ASSUME NEW a \in Nat, NEW w \in Nat \ {0}
  PROVE  a \div w \in Nat /\ a % w \in Nat /\ a % w < w /\ a = w * (a \div w) + (a % w)
OBVIOUS

LEMMA Remainder ==
  ASSUME NEW q \in Nat, NEW w \in Nat \ {0}, NEW r \in Nat, r < w
  PROVE  (w * q + r) % w = r
OBVIOUS

\* Truncating before counting one up makes no difference.
LEMMA SuccTruncated ==
  ASSUME NEW a \in Nat, NEW w \in Nat \ {0}
  PROVE  ((a % w) + 1) % w = (a + 1) % w
<1>1. PICK q \in Nat, r \in Nat : r = a % w /\ r < w /\ a = w * q + r
  BY Division
<1>a. r + 1 \in Nat /\ q + 1 \in Nat /\ w * q \in Nat /\ w * (q + 1) = w * q + w /\ w * 1 = w
  OBVIOUS
<1>2. CASE r + 1 < w
  <2>1. a + 1 = w * q + (r + 1)
    BY <1>1, <1>a
  <2>2. (w * q + (r + 1)) % w = r + 1
    BY <1>2, <1>a, Remainder
  <2>3. (r + 1) % w = r + 1
    BY <1>2, <1>a, Fits
  <2>. QED BY <1>1, <2>1, <2>2, <2>3
<1>3. CASE r + 1 = w
  <2>1. a + 1 = w * (q + 1) + 0 /\ r + 1 = w * 1 + 0
    BY <1>1, <1>3, <1>a
  <2>2. (w * (q + 1) + 0) % w = 0 /\ (w * 1 + 0) % w = 0
    BY <1>a, Remainder
  <2>. QED BY <1>1, <2>1, <2>2
<1>. QED BY <1>1, <1>2, <1>3

\* What leaves a number unchanged when added to it is a multiple of the width.
LEMMA WrapsAround ==
  ASSUME NEW g \in Nat, NEW r \in Nat, NEW w \in Nat \ {0}, (g + r) % w = g
  PROVE  r % w = 0
<1>1. PICK q \in Nat : g + r = w * q + g
  BY Division
<1>2. w * q \in Nat
  OBVIOUS
<1>3. r = w * q + 0
  BY <1>1, <1>2
<1>. QED BY <1>3, Remainder

-----------------------------------------------------------------------------
LEMMA InitHolds == Init => IInv
<1>. SUFFICES ASSUME Init PROVE IInv
  OBVIOUS
<1>. USE DEF Init
<1>1. TypeOK
  BY DEF TypeOK, Handle, ZeroHandle
<1>2. SlotOwn /\ FreeInside /\ FreeSlots /\ UsedLive
  BY DEF SlotOwn, FreeInside, FreeSlots, UsedLive, Slots, Slot, ZeroHandle
<1>3. LiveResolve /\ SentinelStays /\ Visited /\ Unvisited
  BY DEF LiveResolve, SentinelStays, Visited, Unvisited, Ahead, Slots, Slot, ZeroHandle, Found
<1>. QED BY <1>1, <1>2, <1>3 DEF IInv

-----------------------------------------------------------------------------
(* An item is put into slot i, which was free or is new *)

\* What hm_add does to the slots, whichever way it finds one.
Puts(i, h) ==
  /\ i \in 0 .. MaxSlots - 1
  /\ h \in Handle /\ h.idx = i
  /\ i < Len(items) => h.gen = (Slot(i).handle.gen + 1) % Width
  /\ items' \in Seq(Entry)
  /\ Len(items') \in {Len(items), Len(items) + 1}
  /\ Len(items') <= MaxSlots
  /\ i < Len(items')
  /\ i # 0 => (i < Len(items) => Slot(i).handle.idx = 0)
  /\ i >= Len(items) => i = Len(items) /\ Len(items') = Len(items) + 1
  /\ i < Len(items) => Len(items') = Len(items)
  /\ items'[i + 1] = [handle |-> h, item |-> Len(given) + 1]
  /\ \A j \in Slots \ {i} : items'[j + 1] = items[j + 1]
  /\ status = "ok" => i # 0
  /\ unused' \in Seq(0 .. MaxSlots - 1)
  /\ \A k \in 1 .. Len(unused') : /\ k <= Len(unused) /\ unused'[k] = unused[k]
                                  /\ unused'[k] \in Slots
                                  /\ i # 0 => unused'[k] # i
  /\ \A k \in 1 .. Len(unused) : unused[k] # i => k <= Len(unused')
  /\ Len(unused') <= Len(unused)
  /\ Len(given) < MaxAdds
  /\ Given(h)

LEMMA ReusePuts ==
  ASSUME IInv, unused # <<>>, Reuse, Len(given) < MaxAdds
  PROVE  \E i, h : Puts(i, h)
<1>. DEFINE n == Len(unused)
<1>i. PICK i : i = unused[n]
  OBVIOUS
<1>h. PICK h : h = [idx |-> i % Width, gen |-> (Slot(i).handle.gen + 1) % Width]
  OBVIOUS
<1>. DEFINE e == [handle |-> h, item |-> Len(given) + 1]
<1>0. TypeOK
  BY DEF IInv
<1>1. n \in Nat \ {0} /\ i \in Slots /\ (status = "ok" => i # 0)
  BY <1>0, <1>i DEF IInv, TypeOK, FreeInside
<1>2. items \in Seq(Entry) /\ given \in Seq(Handle) /\ unused \in Seq(0 .. MaxSlots - 1)
  BY <1>0 DEF TypeOK, Entry
<1>3. i \in 0 .. MaxSlots - 1 /\ i + 1 \in 1 .. Len(items) /\ i % Width = i
  <2>1. i \in 0 .. Len(items) - 1 /\ Len(items) \in Nat /\ Len(items) <= MaxSlots
    BY <1>0, <1>1, <1>2 DEF TypeOK, Slots
  <2>2. i \in Nat /\ i < Width /\ Width \in Nat \ {0}
    BY <2>1
  <2>. QED BY <2>1, <2>2, Fits
<1>4. items[i + 1] \in Entry
  BY <1>2, <1>3
<1>5. (items[i + 1].handle.gen + 1) % Width \in 0 .. Width - 1
  <2>1. items[i + 1].handle.gen + 1 \in Nat
    BY <1>4 DEF Entry, Handle
  <2>. QED BY <2>1, Truncated
<1>6. h \in Handle /\ h.idx = i
  BY <1>3, <1>5, <1>h DEF Handle, Slot
<1>7. e \in Entry
  BY <1>2, <1>6 DEF Entry
<1>8. items' = [items EXCEPT ![i + 1] = e]
  BY <1>i, <1>h DEF Reuse
<1>9. /\ items' \in Seq(Entry)
      /\ Len(items') = Len(items)
      /\ \A j \in 1 .. Len(items) : items'[j] = IF j = i + 1 THEN e ELSE items[j]
  BY <1>2, <1>3, <1>7, <1>8, ExceptSeq
<1>10. i # 0 => Slot(i).handle.idx = 0
  BY <1>1, <1>i DEF IInv, FreeSlots
<1>11. unused' = [k \in 1 .. n - 1 |-> unused[k]]
  BY DEF Reuse
<1>12. unused' \in Seq(0 .. MaxSlots - 1) /\ Len(unused') = n - 1
  BY <1>1, <1>2, <1>11
<1>13. \A k \in 1 .. n - 1 : unused[k] \in Slots /\ (i # 0 => unused[k] # i)
  BY <1>1, <1>2, <1>i DEF IInv, FreeInside, FreeSlots
<1>14. Given(h)
  BY <1>i, <1>h DEF Reuse
<1>15. \A k \in 1 .. Len(unused) : unused[k] # i => k <= n - 1
  BY <1>1, <1>2, <1>i
<1>16. Len(items) \in Nat /\ Len(items) <= MaxSlots /\ i < Len(items)
  BY <1>0, <1>2, <1>3 DEF TypeOK
<1>17. \A j \in Slots \ {i} : items'[j + 1] = items[j + 1]
  BY <1>9, <1>16, <1>3 DEF Slots
<1>18. \A k \in 1 .. Len(unused') :
         /\ k <= Len(unused) /\ unused'[k] = unused[k]
         /\ unused'[k] \in Slots
         /\ i # 0 => unused'[k] # i
  BY <1>1, <1>11, <1>12, <1>13
<1>19. items'[i + 1] = [handle |-> h, item |-> Len(given) + 1]
  BY <1>9, <1>3
<1>20. items' \in Seq(Entry) /\ Len(items') = Len(items)
  BY <1>9
<1>21. Len(unused') <= Len(unused) /\ \A k \in 1 .. Len(unused) : unused[k] # i => k <= Len(unused')
  BY <1>1, <1>12, <1>15
<1>22. unused' \in Seq(0 .. MaxSlots - 1) /\ (status = "ok" => i # 0) /\ i \in 0 .. MaxSlots - 1
  BY <1>1, <1>3, <1>12
<1>23. ~(i >= Len(items)) /\ i < Len(items') /\ Len(items') <= MaxSlots
  BY <1>16, <1>20, <1>3
<1>. HIDE DEF n
<1>f. /\ Len(items') \in {Len(items), Len(items) + 1}
      /\ i >= Len(items) => i = Len(items) /\ Len(items') = Len(items) + 1
      /\ i < Len(items) => Len(items') = Len(items)
  BY <1>20, <1>23
<1>24. h.gen = (Slot(i).handle.gen + 1) % Width
  BY <1>h
<1>25. Puts(i, h)
  BY <1>24, <1>6, <1>10, <1>14, <1>17, <1>18, <1>19, <1>20, <1>21, <1>22, <1>23, <1>f DEF Puts
<1>. QED BY <1>25

LEMMA ExtendPuts ==
  ASSUME IInv, unused = <<>>, Extend, Len(given) < MaxAdds
  PROVE  \E i, h : Puts(i, h)
<1>. DEFINE i == Len(items)
            h == [idx |-> i % Width, gen |-> 1]
            e == [handle |-> h, item |-> Len(given) + 1]
<1>0. TypeOK /\ i < MaxSlots /\ unused' = <<>>
  BY DEF IInv, Extend
<1>1. items \in Seq(Entry) /\ given \in Seq(Handle)
  BY <1>0 DEF TypeOK, Entry
<1>2. i \in 0 .. MaxSlots - 1 /\ i % Width = i
  BY <1>0, <1>1
<1>3. h \in Handle /\ h.idx = i
  BY <1>2 DEF Handle
<1>4. e \in Entry
  BY <1>1, <1>3 DEF Entry
<1>5. items' = Append(items, e)
  BY DEF Extend
<1>6. /\ items' \in Seq(Entry)
      /\ Len(items') = i + 1
      /\ \A j \in 1 .. i : items'[j] = items[j]
      /\ items'[i + 1] = e
  BY <1>1, <1>4, <1>5, AppendProperties
<1>7. status = "ok" => i # 0
  BY <1>1 DEF IInv, SentinelStays, Found, ZeroHandle
<1>8. Given(h)
  BY DEF Extend
<1>9. Puts(i, h)
  BY <1>0, <1>1, <1>2, <1>3, <1>6, <1>7, <1>8 DEF Puts, Slots
<1>. QED BY <1>9

LEMMA AddHolds == ASSUME IInv, Add PROVE IInv'
<1>1. Len(given) < MaxAdds /\ UNCHANGED <<index, status, cleared, seen, stay>>
  BY DEF Add
<1>2. PICK i, h : Puts(i, h)
  BY <1>1, ReusePuts, ExtendPuts DEF Add
<1>3. TypeOK
  BY DEF IInv
<1>. DEFINE n == Len(given) + 1
<1>4. /\ given \in Seq(Handle) /\ given' \in Seq(Handle) /\ Len(given') = n /\ n \in 1 .. MaxAdds
      /\ given'[n] = h
      /\ \A s \in 1 .. Len(given) : given'[s] = given[s]
      /\ live' = live \cup {n}
      /\ live \subseteq 1 .. Len(given) /\ n \notin live
  BY <1>2, <1>3 DEF Puts, Given, TypeOK
<1>5. items \in Seq(Entry) /\ Len(items) \in Nat /\ Len(items') \in Nat
  <2>1. items \in Seq(Entry)
    BY <1>3 DEF TypeOK, Entry
  <2>2. items' \in Seq(Entry)
    BY <1>2 DEF Puts
  <2>. QED BY <2>1, <2>2
<1>6. \A j \in Slots' : j = i \/ j \in Slots
  BY <1>2, <1>5 DEF Puts, Slots
<1>7. TypeOK'
  <2>1. items' \in Seq(Entry) /\ Len(items') <= MaxSlots /\ unused' \in Seq(0 .. MaxSlots - 1)
    BY <1>2 DEF Puts
  <2>2. live' \subseteq 1 .. n /\ cleared \in 0 .. n /\ seen \subseteq 0 .. n /\ stay \subseteq live'
    <3>1. Len(given) \in Nat /\ n = Len(given) + 1
      BY <1>4
    <3>. HIDE DEF n
    <3>2. 1 .. Len(given) \subseteq 1 .. n /\ 0 .. Len(given) \subseteq 0 .. n /\ n \in 1 .. n
      BY <3>1
    <3>. QED BY <1>3, <1>4, <3>2 DEF TypeOK
  <2>3. index \in 0 .. MaxSlots /\ status \in {"ok", "zero_lost", "destroyed"} /\ n <= MaxAdds
    BY <1>3, <1>4 DEF TypeOK
  <2>. QED BY <1>1, <1>4, <2>1, <2>2, <2>3 DEF TypeOK, Entry
<1>u. /\ unused \in Seq(0 .. MaxSlots - 1) /\ unused' \in Seq(0 .. MaxSlots - 1)
      /\ Len(unused) \in Nat /\ Len(unused') \in Nat /\ Len(unused') <= Len(unused)
      /\ \A k \in 1 .. Len(unused') :
           /\ k \in 1 .. Len(unused) /\ unused'[k] = unused[k]
           /\ unused'[k] \in Slots
           /\ i # 0 => unused'[k] # i
      /\ \A k \in 1 .. Len(unused) : unused[k] # i => k \in 1 .. Len(unused')
  BY <1>2, <1>3 DEF Puts, TypeOK
<1>8. SlotOwn'
  <2>1. items'[i + 1].handle.idx = i /\ \A j \in Slots \ {i} : items'[j + 1] = items[j + 1]
    BY <1>2 DEF Puts
  <2>. QED BY <1>6, <2>1 DEF IInv, SlotOwn, Slot
<1>9. Slots \subseteq Slots'
  BY <1>2, <1>5 DEF Puts, Slots
<1>10. FreeInside'
  BY <1>1, <1>u, <1>9 DEF IInv, FreeInside
<1>11. FreeSlots'
  <2>1. \A k, l \in 1 .. Len(unused') : (unused'[k] = unused'[l] /\ unused'[k] # 0) => k = l
    BY <1>u DEF IInv, FreeSlots
  <2>2. ASSUME NEW j \in Slots' \ {0}
        PROVE  Slot(j).handle.idx' = 0 <=> \E k \in 1 .. Len(unused') : unused'[k] = j
    <3>1. CASE j = i
      BY <1>2, <2>2, <3>1 DEF Puts, Slot
    <3>2. CASE j # i
      <4>1. j \in Slots \ {0} /\ items'[j + 1] = items[j + 1]
        BY <1>2, <1>6, <2>2, <3>2 DEF Puts
      <4>2. Slot(j).handle.idx = 0 <=> \E k \in 1 .. Len(unused) : unused[k] = j
        BY <4>1 DEF IInv, FreeSlots
      <4>3. (\E k \in 1 .. Len(unused) : unused[k] = j)
              <=> \E k \in 1 .. Len(unused') : unused'[k] = j
        BY <1>u, <3>2
      <4>. QED BY <4>1, <4>2, <4>3 DEF Slot
    <3>. QED BY <3>1, <3>2
  <2>. QED BY <2>1, <2>2 DEF FreeSlots
<1>12. UsedLive'
  <2>1. ASSUME NEW j \in Slots', Slot(j).handle.idx' # 0
        PROVE  Slot(j).item' \in live' /\ given'[Slot(j).item'] = Slot(j).handle'
    <3>1. CASE j = i
      BY <1>2, <1>4, <3>1 DEF Puts, Slot
    <3>2. CASE j # i
      <4>1. j \in Slots /\ items'[j + 1] = items[j + 1]
        BY <1>2, <1>6, <2>1, <3>2 DEF Puts
      <4>2. Slot(j).item \in live /\ given[Slot(j).item] = Slot(j).handle
        BY <2>1, <4>1 DEF IInv, UsedLive, Slot
      <4>. QED BY <1>4, <4>1, <4>2 DEF Slot
    <3>. QED BY <3>1, <3>2
  <2>. QED BY <2>1 DEF UsedLive
<1>13. LiveResolve'
  <2>1. ASSUME NEW s \in live', given'[s].idx # 0
        PROVE  Found(given[s])' /\ Slot(given[s].idx).item' = s
    <3>1. CASE s = n
      BY <1>2, <1>4, <3>1 DEF Puts, Slot, Found
    <3>2. CASE s # n
      <4>1. s \in live /\ given'[s] = given[s] /\ given[s] \in Handle
        BY <1>4, <2>1, <3>2
      <4>2. Found(given[s]) /\ Slot(given[s].idx).item = s
        BY <2>1, <4>1 DEF IInv, LiveResolve
      <4>3. given[s].idx \in Slots
        BY <1>5, <4>1, <4>2 DEF Found, Slots, Handle
      <4>4. given[s].idx # i
        BY <1>2, <2>1, <4>1, <4>2, <4>3 DEF Puts, Found, Slots
      <4>5. items'[given[s].idx + 1] = items[given[s].idx + 1] /\ given[s].idx \in Slots'
        BY <1>2, <1>9, <4>3, <4>4 DEF Puts
      <4>. QED BY <1>5, <4>1, <4>2, <4>5 DEF Found, Slot, Slots
    <3>. QED BY <3>1, <3>2
  <2>. QED BY <2>1 DEF LiveResolve
<1>14. SentinelStays'
  <2>1. ASSUME status' = "ok"
        PROVE  Found(ZeroHandle)' /\ Slot(0).item' = 0 /\ \A s \in 1 .. Len(given') : given'[s].idx # 0
    <3>1. status = "ok" /\ i # 0
      BY <1>1, <1>2, <2>1 DEF Puts
    <3>2. Found(ZeroHandle) /\ Slot(0).item = 0 /\ \A s \in 1 .. Len(given) : given[s].idx # 0
      BY <3>1 DEF IInv, SentinelStays
    <3>3. 0 \in Slots
      BY <1>5, <3>2 DEF Found, ZeroHandle, Slots
    <3>a. items'[0 + 1] = items[0 + 1]
      BY <1>2, <3>1, <3>3 DEF Puts
    <3>b. h.idx # 0
      BY <1>2, <3>1 DEF Puts
    <3>4. \A s \in 1 .. n : given'[s].idx # 0
      <4>1. \A s \in 1 .. n : s = n \/ s \in 1 .. Len(given)
        BY <1>4
      <4>. QED BY <1>4, <3>2, <3>b, <4>1
    <3>. QED BY <1>4, <1>5, <1>9, <3>2, <3>3, <3>a, <3>4 DEF Found, ZeroHandle, Slot, Slots
  <2>. QED BY <2>1 DEF SentinelStays
<1>15. Visited'
  BY <1>1, <1>3, <1>4 DEF IInv, Visited, TypeOK
<1>16. Unvisited'
  <2>1. ASSUME NEW j \in Ahead' PROVE Slot(j).item' \notin seen'
    <3>1. CASE j = i
      BY <1>1, <1>2, <1>3, <1>4, <3>1 DEF Puts, Slot, TypeOK
    <3>2. CASE j # i
      <4>1. j \in Slots /\ items'[j + 1] = items[j + 1]
        BY <1>2, <1>6, <2>1, <3>2 DEF Puts, Ahead
      <4>. QED BY <1>1, <2>1, <4>1 DEF IInv, Unvisited, Ahead, Slot
    <3>. QED BY <3>1, <3>2
  <2>. QED BY <2>1 DEF Unvisited
<1>. QED
  BY <1>7, <1>8, <1>10, <1>11, <1>12, <1>13, <1>14, <1>15, <1>16 DEF IInv

-----------------------------------------------------------------------------
LEMMA RemoveHolds ==
  ASSUME IInv, NEW h \in Handle, Remove(h)
  PROVE  IInv'
<1>. DEFINE i == h.idx
            n == Len(unused)
            e == [items[i + 1] EXCEPT !.handle.idx = 0]
<1>0. TypeOK /\ Found(h) /\ i \in 0 .. Width - 1
  BY DEF IInv, Remove, Handle
<1>1. /\ UNCHANGED <<index, given, cleared, seen>>
      /\ live' = live \ Named(h) /\ stay' = stay \ Named(h)
      /\ status' = IF i = 0 THEN "zero_lost" ELSE status
  BY DEF Remove
<1>2. /\ items \in Seq(Entry) /\ Len(items) \in Nat /\ Len(items) <= MaxSlots
      /\ unused \in Seq(0 .. MaxSlots - 1) /\ n \in Nat
  BY <1>0 DEF TypeOK, Entry
<1>3. i \in Slots /\ i \in 0 .. MaxSlots - 1 /\ i + 1 \in 1 .. Len(items) /\ items[i + 1].handle = h
  BY <1>0, <1>2 DEF Found, Slots, Slot
<1>4. items[i + 1] \in Entry
  BY <1>2, <1>3
<1>5. e \in Entry /\ e.handle.idx = 0 /\ e.item = items[i + 1].item
  BY <1>4 DEF Entry, Handle
<1>6. items' = [items EXCEPT ![i + 1] = e] /\ unused' = Append(unused, i)
  BY DEF Remove, Free
<1>. HIDE DEF e, i
<1>7. /\ items' \in Seq(Entry)
      /\ Len(items') = Len(items)
      /\ \A j \in 1 .. Len(items) : items'[j] = IF j = i + 1 THEN e ELSE items[j]
  BY <1>2, <1>3, <1>5, <1>6, ExceptSeq
<1>8. Slots' = Slots /\ items'[i + 1] = e /\ \A j \in Slots \ {i} : items'[j + 1] = items[j + 1]
  BY <1>2, <1>3, <1>7 DEF Slots
<1>9. /\ unused' \in Seq(0 .. MaxSlots - 1) /\ Len(unused') = n + 1
      /\ \A k \in 1 .. n : unused'[k] = unused[k]
      /\ unused'[n + 1] = i
      /\ \A k \in 1 .. n + 1 : k = n + 1 \/ k \in 1 .. n
  BY <1>2, <1>3, <1>6, AppendProperties
<1>10. TypeOK'
  BY <1>0, <1>1, <1>2, <1>7, <1>9 DEF TypeOK, Entry
<1>11. SlotOwn'
  BY <1>5, <1>8 DEF IInv, SlotOwn, Slot
<1>12. FreeInside'
  BY <1>1, <1>3, <1>8, <1>9 DEF IInv, FreeInside
<1>13. i # 0 => \A k \in 1 .. n : unused[k] # i
  BY <1>3 DEF IInv, FreeSlots, Slot, i
<1>14. FreeSlots'
  <2>1. \A k, l \in 1 .. Len(unused') : (unused'[k] = unused'[l] /\ unused'[k] # 0) => k = l
    <3>1. \A k, l \in 1 .. n : (unused[k] = unused[l] /\ unused[k] # 0) => k = l
      BY DEF IInv, FreeSlots
    <3>. HIDE DEF n
    <3>. QED BY <1>2, <1>9, <1>13, <3>1
  <2>2. ASSUME NEW j \in Slots' \ {0}
        PROVE  Slot(j).handle.idx' = 0 <=> \E k \in 1 .. Len(unused') : unused'[k] = j
    <3>1. CASE j = i
      <4>1. Slot(j).handle.idx' = 0
        BY <1>5, <1>8, <3>1 DEF Slot
      <4>2. n + 1 \in 1 .. Len(unused') /\ unused'[n + 1] = j
        BY <1>2, <1>9, <3>1
      <4>. QED BY <4>1, <4>2
    <3>2. CASE j # i
      <4>1. j \in Slots \ {0} /\ items'[j + 1] = items[j + 1]
        BY <1>8, <2>2, <3>2
      <4>2. Slot(j).handle.idx = 0 <=> \E k \in 1 .. n : unused[k] = j
        BY <4>1 DEF IInv, FreeSlots
      <4>3. (\E k \in 1 .. n : unused[k] = j) <=> \E k \in 1 .. Len(unused') : unused'[k] = j
        <5>. HIDE DEF n
        <5>1. \A k \in 1 .. n : k \in 1 .. n + 1
          BY <1>2
        <5>2. \A k \in 1 .. n + 1 : unused'[k] = j => k \in 1 .. n
          BY <1>9, <3>2
        <5>. QED BY <1>9, <5>1, <5>2
      <4>. QED BY <4>1, <4>2, <4>3 DEF Slot
    <3>. QED BY <3>1, <3>2
  <2>. QED BY <2>1, <2>2 DEF FreeSlots
<1>15. UsedLive'
  <2>1. ASSUME NEW j \in Slots', Slot(j).handle.idx' # 0
        PROVE  Slot(j).item' \in live' /\ given'[Slot(j).item'] = Slot(j).handle'
    <3>1. j # i
      BY <1>5, <1>8, <2>1 DEF Slot
    <3>2. j \in Slots /\ items'[j + 1] = items[j + 1]
      BY <1>8, <2>1, <3>1
    <3>3. /\ Slot(j).item \in live /\ given[Slot(j).item] = Slot(j).handle
          /\ Slot(j).handle.idx = j
      BY <2>1, <3>2 DEF IInv, UsedLive, SlotOwn, Slot
    <3>4. Slot(j).item \notin Named(h)
      BY <3>1, <3>3 DEF Named, i
    <3>. QED BY <1>1, <3>2, <3>3, <3>4 DEF Slot
  <2>. QED BY <2>1 DEF UsedLive
<1>16. LiveResolve'
  <2>1. ASSUME NEW s \in live', given'[s].idx # 0
        PROVE  Found(given[s])' /\ Slot(given[s].idx).item' = s
    <3>1. s \in live /\ given'[s] = given[s] /\ given[s] # h /\ given[s] \in Handle
      <4>1. s \in live /\ given'[s] = given[s] /\ given[s] # h
        BY <1>1, <2>1 DEF Named
      <4>. QED BY <1>0, <4>1 DEF TypeOK
    <3>2. Found(given[s]) /\ Slot(given[s].idx).item = s
      BY <2>1, <3>1 DEF IInv, LiveResolve
    <3>3. given[s].idx # i
      BY <1>3, <3>1, <3>2 DEF Found, Slot, i
    <3>4. given[s].idx \in Slots
      BY <1>2, <3>1, <3>2 DEF Found, Slots, Handle
    <3>5. items'[given[s].idx + 1] = items[given[s].idx + 1]
      BY <1>8, <3>3, <3>4
    <3>. QED BY <1>7, <3>1, <3>2, <3>5 DEF Found, Slot
  <2>. QED BY <2>1 DEF LiveResolve
<1>17. SentinelStays'
  <2>1. ASSUME status' = "ok"
        PROVE  Found(ZeroHandle)' /\ Slot(0).item' = 0 /\ \A s \in 1 .. Len(given') : given'[s].idx # 0
    <3>1. status = "ok" /\ i # 0
      BY <1>1, <2>1
    <3>2. Found(ZeroHandle) /\ Slot(0).item = 0 /\ \A s \in 1 .. Len(given) : given[s].idx # 0
      BY <3>1 DEF IInv, SentinelStays
    <3>3. 0 \in Slots
      BY <1>2, <3>2 DEF Found, ZeroHandle, Slots
    <3>4. items'[0 + 1] = items[0 + 1]
      BY <1>8, <3>1, <3>3
    <3>. QED BY <1>1, <1>7, <3>2, <3>4 DEF Found, ZeroHandle, Slot
  <2>. QED BY <2>1 DEF SentinelStays
<1>18. Visited'
  BY <1>1 DEF IInv, Visited
<1>19. Unvisited'
  <2>1. ASSUME NEW j \in Ahead' PROVE Slot(j).item' \notin seen'
    <3>1. j # i
      BY <1>5, <1>8, <2>1 DEF Slot, Ahead
    <3>2. j \in Slots /\ items'[j + 1] = items[j + 1]
      BY <1>8, <2>1, <3>1 DEF Ahead
    <3>. QED BY <1>1, <2>1, <3>2 DEF IInv, Unvisited, Ahead, Slot
  <2>. QED BY <2>1 DEF Unvisited
<1>. QED
  BY <1>10, <1>11, <1>12, <1>14, <1>15, <1>16, <1>17, <1>18, <1>19 DEF IInv

-----------------------------------------------------------------------------
LEMMA EmptyHolds ==
  ASSUME IInv, NEW next \in {"zero_lost", "destroyed"}, Empty(next)
  PROVE  IInv'
<1>. USE DEF Empty
<1>1. TypeOK'
  BY DEF IInv, TypeOK
<1>2. SlotOwn' /\ FreeInside' /\ FreeSlots' /\ UsedLive'
  BY DEF SlotOwn, FreeInside, FreeSlots, UsedLive, Slots
<1>3. LiveResolve' /\ SentinelStays' /\ Visited' /\ Unvisited'
  BY DEF LiveResolve, SentinelStays, Visited, Unvisited, Ahead, Slots
<1>. QED BY <1>1, <1>2, <1>3 DEF IInv

\* The iterator changes neither slots nor handles.
LEMMA SlotsKept ==
  ASSUME IInv, UNCHANGED <<items, unused, status, given, live, cleared>>
  PROVE  (SlotOwn /\ FreeInside /\ FreeSlots /\ UsedLive /\ LiveResolve /\ SentinelStays)'
BY DEF IInv, SlotOwn, FreeInside, FreeSlots, UsedLive, LiveResolve, SentinelStays, Slots, Slot,
       Found

LEMMA BeginHolds ==
  ASSUME IInv, Begin, UNCHANGED <<items, unused, status, given, live, cleared>>
  PROVE  IInv'
<1>. USE DEF Begin
<1>1. TypeOK'
  BY DEF IInv, TypeOK
<1>2. Visited' /\ Unvisited'
  <2>1. ASSUME NEW s \in stay', given'[s].idx < index' PROVE given'[s].idx = 0
    <3>1. given[s] \in Handle
      BY <2>1 DEF IInv, TypeOK
    <3>. QED BY <2>1, <3>1 DEF Handle
  <2>. QED BY <2>1 DEF Visited, Unvisited
<1>. QED BY <1>1, <1>2, SlotsKept DEF IInv

\* Two slots in use have two items.
LEMMA ItemsDiffer ==
  ASSUME IInv, NEW i \in Slots, NEW j \in Slots, i # j,
         Slot(i).handle.idx # 0, Slot(j).handle.idx # 0
  PROVE  Slot(i).item # Slot(j).item
BY DEF IInv, SlotOwn, UsedLive

LEMMA VisitHolds ==
  ASSUME IInv, NEW i \in Ahead, \A j \in Ahead : i <= j, Visit(i),
         UNCHANGED <<items, unused, status, given, live, cleared>>
  PROVE  IInv' /\ Slot(i).item \notin seen
<1>. USE DEF Visit
<1>1. TypeOK /\ i \in Slots /\ i >= index /\ Slot(i).handle.idx # 0
  BY DEF IInv, Ahead
<1>2. Len(items) \in Nat /\ Len(items) <= MaxSlots /\ i \in Nat /\ i + 1 \in 1 .. MaxSlots
  BY <1>1 DEF TypeOK, Slots
<1>3. Slot(i).item \in live /\ given[Slot(i).item] = Slot(i).handle
  BY <1>1 DEF IInv, UsedLive
<1>4. TypeOK'
  <2>1. Slot(i).item \in 0 .. Len(given)
    <3>1. 1 .. Len(given) \subseteq 0 .. Len(given)
      BY <1>1 DEF TypeOK
    <3>. QED BY <1>1, <1>3, <3>1 DEF TypeOK
  <2>2. index' \in 0 .. MaxSlots /\ seen' \subseteq 0 .. Len(given)
    <3>1. index' = i + 1 /\ seen' = seen \cup {Slot(i).item} /\ seen \subseteq 0 .. Len(given)
      BY <1>1 DEF TypeOK
    <3>2. i + 1 \in 0 .. MaxSlots
      BY <1>2
    <3>. QED BY <2>1, <3>1, <3>2
  <2>. QED BY <1>1, <2>2 DEF TypeOK
<1>5. Visited'
  <2>1. ASSUME NEW s \in stay, given[s].idx # 0, given[s].idx < i + 1
        PROVE  s \in seen \cup {Slot(i).item}
    <3>1. s \in live /\ given[s] \in Handle
      BY <1>1, <2>1 DEF TypeOK
    <3>2. Found(given[s]) /\ Slot(given[s].idx).item = s
      BY <2>1, <3>1 DEF IInv, LiveResolve
    <3>3. given[s].idx \in Slots /\ given[s].idx \in Nat /\ index \in Nat
      <4>1. given[s].idx \in Nat /\ index \in Nat
        BY <1>1, <3>1 DEF Handle, TypeOK
      <4>. QED BY <1>2, <3>2, <4>1 DEF Found, Slots
    <3>4. CASE given[s].idx < index
      BY <2>1, <3>4 DEF IInv, Visited
    <3>5. CASE given[s].idx >= index
      <4>1. given[s].idx \in Ahead
        BY <2>1, <3>2, <3>3, <3>5 DEF Ahead, Found
      <4>2. given[s].idx = i
        BY <1>2, <2>1, <3>3, <4>1
      <4>. QED BY <3>2, <4>2
    <3>. QED BY <3>3, <3>4, <3>5
  <2>. QED BY <2>1 DEF Visited
<1>6. Unvisited'
  <2>1. ASSUME NEW j \in Ahead' PROVE Slot(j).item' \notin seen'
    <3>1. j \in Slots /\ j \in Nat /\ j >= i + 1 /\ Slot(j).handle.idx # 0
      BY <1>2, <2>1 DEF Ahead, Slots, Slot
    <3>2. j \in Ahead
      BY <1>1, <1>2, <3>1 DEF Ahead, TypeOK
    <3>3. Slot(j).item # Slot(i).item
      BY <1>1, <1>2, <3>1, ItemsDiffer
    <3>. QED BY <3>2, <3>3 DEF IInv, Unvisited, Slot
  <2>. QED BY <2>1 DEF Unvisited
<1>7. Slot(i).item \notin seen
  BY DEF IInv, Unvisited
<1>. QED BY <1>4, <1>5, <1>6, <1>7, SlotsKept DEF IInv

-----------------------------------------------------------------------------
LEMMA StepHolds == IInv /\ [Next]_vars => IInv'
<1>. SUFFICES ASSUME IInv, [Next]_vars PROVE IInv'
  OBVIOUS
<1>1. CASE Add
  BY <1>1, AddHolds
<1>2. CASE Remove(ZeroHandle)
  <2>1. ZeroHandle \in Handle
    BY DEF ZeroHandle, Handle
  <2>. QED BY <1>2, <2>1, RemoveHolds
<1>3. ASSUME NEW s \in 1 .. Len(given), Remove(given[s]) PROVE IInv'
  <2>1. given[s] \in Handle
    BY DEF IInv, TypeOK
  <2>. QED BY <1>3, <2>1, RemoveHolds
<1>4. CASE Clear \/ Destroy
  BY <1>4, EmptyHolds DEF Clear, Destroy
<1>5. CASE Make
  BY <1>5, BeginHolds DEF Make
<1>6. CASE Iterate
  BY <1>6, BeginHolds, VisitHolds DEF Iterate
<1>7. CASE UNCHANGED vars
  <2>1. TypeOK'
    BY <1>7 DEF IInv, TypeOK, vars
  <2>2. Visited' /\ Unvisited'
    BY <1>7 DEF IInv, Visited, Unvisited, Ahead, Slots, Slot, vars
  <2>. QED BY <1>7, <2>1, <2>2, SlotsKept DEF IInv, vars
<1>. QED BY <1>1, <1>2, <1>3, <1>4, <1>5, <1>6, <1>7 DEF Next

LEMMA Invariance == Spec => []IInv
BY InitHolds, StepHolds, PTL DEF Spec

\* Type correctness: slots, generations and the iterator stay in their ranges.
THEOREM TypeCorrect == Spec => []TypeOK
BY Invariance, PTL DEF IInv

\* hm_get leads from the handle of every live item to this item.
THEOREM HandlesResolve == Spec => []LiveResolve
BY Invariance, PTL DEF IInv

\* The unused list of hm_remove names each free slot once.
THEOREM UnusedRight == Spec => []FreeSlots
BY Invariance, PTL DEF IInv

\* The zero value stays in slot 0 unless it is removed or the map cleared.
THEOREM ZeroStays == Spec => []SentinelStays
BY Invariance, PTL DEF IInv

\* hm_iterate returns each item once, and every item that stays.
THEOREM VisitsEach == Spec => EachVisitedOnce
<1>1. IInv => [Round]_vars
  <2>1. SUFFICES ASSUME IInv, Iterate PROVE Round
    BY DEF Round
  <2>2. TypeOK /\ UNCHANGED <<items, unused, status, given, live, cleared>>
    BY <2>1 DEF IInv, Iterate
  <2>3. ASSUME NEW i \in Ahead, \A j \in Ahead : i <= j, Visit(i) PROVE Round
    <3>1. Slot(i).item \notin seen
      BY <2>1, <2>2, <2>3, VisitHolds
    <3>2. i + 1 # 0
      BY <2>2 DEF Ahead, Slots, TypeOK
    <3>. QED BY <2>3, <3>1, <3>2 DEF Visit, Round
  <2>4. CASE Ahead = {} /\ Begin
    <3>1. ASSUME NEW s \in stay, given[s].idx # 0 PROVE s \in seen
      <4>1. s \in live /\ given[s] \in Handle /\ index \in Nat /\ Len(items) \in Nat
        BY <2>2, <3>1 DEF TypeOK
      <4>2. Found(given[s]) /\ given[s].idx \in Nat
        BY <2>1, <3>1, <4>1 DEF IInv, LiveResolve, Handle
      <4>3. given[s].idx < index
        BY <2>4, <3>1, <4>1, <4>2 DEF Ahead, Found, Slots
      <4>. QED BY <2>1, <3>1, <4>3 DEF IInv, Visited
    <3>. QED BY <2>4, <3>1 DEF Begin, Round
  <2>. QED BY <2>1, <2>3, <2>4 DEF Iterate
<1>. QED BY <1>1, Invariance, PTL DEF EachVisitedOnce

-----------------------------------------------------------------------------
(* Generations *)

\* Reuses, of any handles.
Count(g, s, t) == Cardinality({u \in s + 1 .. t : g[u].idx = g[s].idx})

\* The generation of a slot counts, up to the width, how often the slot was
\* reused since an item got a handle for it; its item is the last that did.
SlotCounts(s) ==
  LET i == given[s].idx
      t == Slot(i).item
  IN /\ i \in Slots
     /\ t \in s .. Len(given)
     /\ \A u \in t + 1 .. Len(given) : given[u].idx # i
     /\ Slot(i).handle.gen = (given[s].gen + Count(given, s, t)) % Width

Generations == \A s \in cleared + 1 .. Len(given) : given[s].idx # 0 => SlotCounts(s)

LEMMA CountedFinite ==
  ASSUME NEW g, NEW s \in Nat, NEW t \in Nat
  PROVE  IsFiniteSet({u \in s + 1 .. t : g[u].idx = g[s].idx})
<1>1. IsFiniteSet(s + 1 .. t)
  BY FS_Interval
<1>. QED BY <1>1, FS_Subset

LEMMA CountIsNat ==
  ASSUME NEW g, NEW s \in Nat, NEW t \in Nat
  PROVE  Count(g, s, t) \in Nat
BY CountedFinite, FS_CardinalityType DEF Count

\* n is the first after t that gets the slot of s.
NextInSlot(f, g, s, t, n) ==
  /\ \A u \in s .. t : g[u] = f[u]
  /\ \A u \in t + 1 .. n - 1 : g[u].idx # f[s].idx
  /\ g[n].idx = f[s].idx

\* The next item in the slot of s counts it up by one.
LEMMA CountGrows ==
  ASSUME NEW f, NEW g, NEW s \in Nat, NEW t \in Nat, NEW n \in Nat, s <= t, t < n,
         NextInSlot(f, g, s, t, n)
  PROVE  Count(g, s, n) = Count(f, s, t) + 1
<1>. DEFINE S == {u \in s + 1 .. t : f[u].idx = f[s].idx}
            T == {u \in s + 1 .. n : g[u].idx = g[s].idx}
<1>1. /\ g[s] = f[s]
      /\ \A u \in s .. t : g[u] = f[u]
      /\ \A u \in t + 1 .. n - 1 : g[u].idx # f[s].idx
      /\ g[n].idx = f[s].idx
  BY DEF NextInSlot
<1>2. \A u \in s + 1 .. n : u \in s .. t \/ u \in t + 1 .. n - 1 \/ u = n
  OBVIOUS
<1>3. n \in s + 1 .. n /\ n \notin s + 1 .. t /\ \A u \in s + 1 .. t : u \in s .. t /\ u \in s + 1 .. n
  OBVIOUS
<1>4. \A u \in s .. t : u \in s + 1 .. n => u \in s + 1 .. t
  OBVIOUS
<1>5. T = S \cup {n}
  BY <1>1, <1>2, <1>3, <1>4
<1>6. IsFiniteSet(S)
  BY CountedFinite
<1>7. n \notin S
  BY <1>3
<1>8. Cardinality(S \cup {n}) = Cardinality(S) + 1
  BY <1>6, <1>7, FS_AddElement
<1>. QED BY <1>5, <1>8 DEF Count

LEMMA CountSame ==
  ASSUME NEW f, NEW g, NEW s \in Nat, NEW t \in Nat, s <= t, \A u \in s .. t : g[u] = f[u]
  PROVE  Count(g, s, t) = Count(f, s, t)
<1>1. g[s] = f[s] /\ \A u \in s + 1 .. t : g[u] = f[u]
  OBVIOUS
<1>2. {u \in s + 1 .. t : g[u].idx = g[s].idx} = {u \in s + 1 .. t : f[u].idx = f[s].idx}
  BY <1>1
<1>. QED BY <1>2 DEF Count

LEMMA CountNone ==
  ASSUME NEW g, NEW s \in Nat
  PROVE  Count(g, s, s) = 0
<1>1. {u \in s + 1 .. s : g[u].idx = g[s].idx} = {}
  OBVIOUS
<1>. QED BY <1>1, FS_EmptySet DEF Count

LEMMA AddCounts ==
  ASSUME IInv, Generations, Add
  PROVE  Generations'
<1>1. Len(given) < MaxAdds /\ cleared' = cleared
  BY DEF Add
<1>2. PICK i, h : Puts(i, h)
  BY <1>1, ReusePuts, ExtendPuts DEF Add
<1>n. PICK n : n = Len(given) + 1
  OBVIOUS
<1>3. /\ given \in Seq(Handle) /\ Len(given) \in Nat /\ given' \in Seq(Handle) /\ Len(given') = n
      /\ given'[n] = h
      /\ \A s \in 1 .. Len(given) : given'[s] = given[s]
      /\ cleared \in Nat /\ items \in Seq(Entry) /\ Len(items) \in Nat
  BY <1>2, <1>n DEF IInv, TypeOK, Puts, Given, Entry
<1>4. /\ h \in Handle /\ h.idx = i /\ i \in Nat
      /\ i < Len(items) => h.gen = (Slot(i).handle.gen + 1) % Width
      /\ items'[i + 1] = [handle |-> h, item |-> n]
      /\ \A j \in Slots \ {i} : items'[j + 1] = items[j + 1]
  BY <1>2, <1>n DEF Puts
<1>5. Slots \subseteq Slots' /\ i \in Slots'
  BY <1>2, <1>3 DEF Puts, Slots
<1>6. h.gen \in Nat /\ h.gen < Width /\ Width \in Nat \ {0}
  BY <1>4 DEF Handle
<1>7. ASSUME NEW s \in cleared + 1 .. n, given'[s].idx # 0
      PROVE  SlotCounts(s)'
  <2>1. s \in Nat /\ s >= 1
    BY <1>3, <1>n
  <2>2. CASE s = n
    <3>1. Count(given', s, s) = 0
      BY <2>1, CountNone
    <3>2. (h.gen + 0) % Width = h.gen
      BY <1>6, Fits
    <3>3. n \in s .. n /\ \A u \in n + 1 .. n : FALSE
      BY <1>3, <1>n, <2>2
    <3>4. items'[i + 1].item = n /\ items'[i + 1].handle.gen = h.gen /\ given'[s].idx = i
      BY <1>3, <1>4, <2>2
    <3>5. h.gen = (given'[s].gen + Count(given', s, n)) % Width
      BY <1>3, <2>2, <3>1, <3>2
    <3>. QED BY <1>3, <1>5, <3>3, <3>4, <3>5 DEF SlotCounts, Slot
  <2>3. CASE s # n
    <3>j. PICK j : j = given[s].idx
      OBVIOUS
    <3>t. PICK t : t = Slot(j).item
      OBVIOUS
    <3>1. s \in 1 .. Len(given) /\ s \in cleared + 1 .. Len(given) /\ given'[s] = given[s]
      BY <1>3, <1>n, <1>7, <2>1, <2>3
    <3>2. /\ j \in Slots
          /\ t \in s .. Len(given)
          /\ \A u \in t + 1 .. Len(given) : given[u].idx # j
          /\ Slot(j).handle.gen = (given[s].gen + Count(given, s, t)) % Width
      BY <1>7, <3>1, <3>j, <3>t DEF Generations, SlotCounts
    <3>3. t \in Nat /\ s <= t /\ t < n /\ n \in Nat /\ given[s].gen \in Nat
      <4>1. given[s] \in Handle
        BY <1>3, <3>1
      <4>2. given[s].gen \in Nat
        BY <4>1 DEF Handle
      <4>. QED BY <1>3, <1>n, <2>1, <3>2, <4>2
    <3>4. \A u \in s .. t : given'[u] = given[u]
      BY <1>3, <1>n, <2>1, <3>3
    <3>5. \A u \in t + 1 .. n - 1 : given'[u].idx # j
      BY <1>3, <1>n, <3>2, <3>3
    <3>6. given'[s].idx = j
      BY <3>1, <3>j
    <3>7. CASE j = i
      <4>1. Count(given', s, n) = Count(given, s, t) + 1
        <5>1. \A u \in t + 1 .. n - 1 : given'[u].idx # given[s].idx
          BY <3>5, <3>j
        <5>2. given'[n].idx = given[s].idx
          BY <1>3, <1>4, <3>7, <3>j
        <5>3. NextInSlot(given, given', s, t, n)
          BY <3>4, <5>1, <5>2 DEF NextInSlot
        <5>. QED BY <2>1, <3>3, <5>3, CountGrows
      <4>2. Count(given, s, t) \in Nat
        BY <2>1, <3>3, CountIsNat
      <4>3. h.gen = (((given[s].gen + Count(given, s, t)) % Width) + 1) % Width
        BY <1>3, <1>4, <3>2, <3>7 DEF Slots
      <4>4. h.gen = ((given[s].gen + Count(given, s, t)) + 1) % Width
        <5>1. given[s].gen + Count(given, s, t) \in Nat
          BY <3>3, <4>2
        <5>. QED BY <1>6, <4>3, <5>1, SuccTruncated
      <4>5. (given[s].gen + Count(given, s, t)) + 1 = given[s].gen + (Count(given, s, t) + 1)
        BY <3>3, <4>2
      <4>6. h.gen = (given'[s].gen + Count(given', s, n)) % Width
        BY <3>1, <4>1, <4>4, <4>5
      <4>7. n \in s .. n /\ \A u \in n + 1 .. n : FALSE
        BY <2>1, <3>3
      <4>8. items'[j + 1].item = n /\ items'[j + 1].handle.gen = h.gen /\ j \in Slots'
        BY <1>4, <1>5, <3>7
      <4>. QED BY <1>3, <3>6, <4>6, <4>7, <4>8 DEF SlotCounts, Slot
    <3>8. CASE j # i
      <4>1. Count(given', s, t) = Count(given, s, t)
        BY <2>1, <3>3, <3>4, CountSame
      <4>2. items'[j + 1] = items[j + 1] /\ j \in Slots'
        BY <1>4, <1>5, <3>2, <3>8
      <4>3. t = items'[j + 1].item
        BY <4>2, <3>t DEF Slot
      <4>4. \A u \in t + 1 .. n : given'[u].idx # j
        <5>1. \A u \in t + 1 .. n : u \in t + 1 .. n - 1 \/ u = n
          BY <3>3
        <5>. QED BY <1>3, <1>4, <3>5, <3>8, <5>1
      <4>5. t \in s .. n
        BY <2>1, <3>3
      <4>6. items'[j + 1].handle.gen = (given'[s].gen + Count(given', s, t)) % Width
        BY <3>1, <3>2, <4>1, <4>2, <4>3 DEF Slot
      <4>. QED BY <1>3, <3>6, <4>2, <4>3, <4>4, <4>5, <4>6 DEF SlotCounts, Slot
    <3>. QED BY <3>7, <3>8
  <2>. QED BY <2>2, <2>3
<1>. QED BY <1>1, <1>3, <1>7 DEF Generations

\* A step that keeps generations, items and handles keeps the counts.
LEMMA CountsKept ==
  ASSUME Generations, given' = given, cleared' = cleared, Slots' = Slots,
         \A i \in Slots : items'[i + 1].item = items[i + 1].item
                         /\ items'[i + 1].handle.gen = items[i + 1].handle.gen
  PROVE  Generations'
<1>1. ASSUME NEW s \in cleared + 1 .. Len(given), given[s].idx # 0
      PROVE  SlotCounts(s)'
  <2>j. PICK j : j = given[s].idx
    OBVIOUS
  <2>t. PICK t : t = Slot(j).item
    OBVIOUS
  <2>1. SlotCounts(s)
    BY <1>1 DEF Generations
  <2>2. /\ j \in Slots
        /\ t \in s .. Len(given)
        /\ \A u \in t + 1 .. Len(given) : given[u].idx # j
        /\ Slot(j).handle.gen = (given[s].gen + Count(given, s, t)) % Width
    BY <2>1, <2>j, <2>t DEF SlotCounts
  <2>3. items'[j + 1].item = t /\ items'[j + 1].handle.gen = Slot(j).handle.gen
    BY <2>2, <2>t DEF Slot
  <2>. QED BY <2>j, <2>2, <2>3 DEF SlotCounts, Slot
<1>. QED BY <1>1 DEF Generations

LEMMA StepCounts == IInv /\ Generations /\ [Next]_vars => Generations'
<1>. SUFFICES ASSUME IInv, Generations, [Next]_vars PROVE Generations'
  OBVIOUS
<1>1. CASE Add
  BY <1>1, AddCounts
<1>2. ASSUME NEW h \in Handle, Remove(h) PROVE Generations'
  <2>1. items \in Seq(Entry) /\ h.idx \in Nat /\ h.idx < Len(items) /\ Len(items) \in Nat
    BY <1>2 DEF IInv, TypeOK, Entry, Remove, Found, Handle
  <2>2. items' = [items EXCEPT ![h.idx + 1].handle.idx = 0]
    BY <1>2 DEF Remove, Free
  <2>3. \A i \in Slots : items[i + 1] \in Entry
    BY <2>1 DEF Slots
  <2>4. Slots' = Slots
    BY <2>1, <2>2 DEF Slots
  <2>5. \A i \in Slots : items'[i + 1].item = items[i + 1].item
                        /\ items'[i + 1].handle.gen = items[i + 1].handle.gen
    <3>1. ASSUME NEW i \in Slots
          PROVE  /\ items'[i + 1].item = items[i + 1].item
                 /\ items'[i + 1].handle.gen = items[i + 1].handle.gen
      <4>1. i + 1 \in 1 .. Len(items) /\ items[i + 1] \in Entry
        BY <2>1, <2>3 DEF Slots
      <4>2. items'[i + 1] = items[i + 1]
            \/ items'[i + 1] = [items[i + 1] EXCEPT !.handle.idx = 0]
        BY <2>1, <2>2, <4>1
      <4>. QED BY <4>1, <4>2 DEF Entry, Handle
    <3>. QED BY <3>1
  <2>6. given' = given /\ cleared' = cleared
    BY <1>2 DEF Remove
  <2>. QED BY <2>4, <2>5, <2>6, CountsKept
<1>3. CASE Remove(ZeroHandle)
  <2>1. ZeroHandle \in Handle
    BY DEF ZeroHandle, Handle
  <2>. QED BY <1>2, <1>3, <2>1
<1>4. ASSUME NEW s \in 1 .. Len(given), Remove(given[s]) PROVE Generations'
  <2>1. given[s] \in Handle
    BY DEF IInv, TypeOK
  <2>. QED BY <1>2, <1>4, <2>1
<1>5. CASE Clear \/ Destroy
  <2>1. cleared' = Len(given) /\ given' = given /\ Len(given) \in Nat
    BY <1>5 DEF Clear, Destroy, Empty, IInv, TypeOK
  <2>2. \A s \in Len(given) + 1 .. Len(given) : FALSE
    BY <2>1
  <2>. QED BY <2>1, <2>2 DEF Generations
<1>6. CASE Make \/ Iterate \/ UNCHANGED vars
  <2>1. items' = items /\ given' = given /\ cleared' = cleared
    BY <1>6 DEF Make, Iterate, vars
  <2>. QED BY <2>1, CountsKept DEF Slots
<1>. QED BY <1>1, <1>3, <1>4, <1>5, <1>6 DEF Next

LEMMA CountsReject == IInv /\ Generations => StaleRejected
<1>. SUFFICES ASSUME IInv, Generations, NEW s \in cleared + 1 .. Len(given),
                     s \notin live, given[s].idx # 0, Found(given[s])
             PROVE  Slot(given[s].idx).item > s /\ Reuses(s, Slot(given[s].idx).item) % Width = 0
  BY DEF StaleRejected
<1>i. PICK i : i = given[s].idx
  OBVIOUS
<1>t. PICK t : t = Slot(i).item
  OBVIOUS
<1>1. /\ i \in Slots /\ t \in s .. Len(given)
      /\ Slot(i).handle.gen = (given[s].gen + Count(given, s, t)) % Width
  BY <1>i, <1>t DEF Generations, SlotCounts
<1>2. Slot(i).handle = given[s]
  BY <1>i DEF Found
<1>3. t \in live
  BY <1>1, <1>2, <1>t DEF IInv, UsedLive
<1>4. s \in Nat /\ t \in Nat /\ s \in 1 .. Len(given) /\ given[s] \in Handle
  BY <1>1 DEF IInv, TypeOK
<1>5. given[s].gen \in Nat
  BY <1>4 DEF Handle
<1>a. Count(given, s, t) \in Nat
  BY <1>4, CountIsNat
<1>6. (given[s].gen + Count(given, s, t)) % Width = given[s].gen
  BY <1>1, <1>2
<1>7. Count(given, s, t) % Width = 0
  BY <1>5, <1>a, <1>6, WrapsAround
<1>8. t > s
  BY <1>1, <1>3, <1>4
<1>. QED BY <1>i, <1>t, <1>7, <1>8 DEF Reuses, Count

\* hm_get finds no handle of a removed item, unless its slot was reused a
\* multiple of Width times or the map was cleared.
THEOREM StaleHandles == Spec => []StaleRejected
<1>1. Init => Generations
  BY DEF Init, Generations
<1>. QED BY <1>1, Invariance, StepCounts, CountsReject, PTL DEF Spec
=============================================================================
