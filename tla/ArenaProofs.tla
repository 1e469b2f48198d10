---------------------------- MODULE ArenaProofs -----------------------------
(***************************************************************************)
(* For every size of page, header and allocation, any number of blocks,    *)
(* guards and allocations: an arena whose client only asks for alignments  *)
(* that divide the size of the header, and resizes nothing it allocated    *)
(* outside the innermost guard, keeps what is in use, pops backwards, and  *)
(* is restored by its guards.                                              *)
(***************************************************************************)
EXTENDS Arena, TLAPS

\* The client and the initial block.
Suited ==
  /\ ~ResizeOuter
  /\ \A a \in Align : HeaderSize % a = 0
  /\ Commit <= Reserve
  /\ HeaderSize <= Reserve

BlockOK(b) ==
  /\ b \in BlockRecord
  /\ HeaderSize <= b.used
  /\ b.used <= b.commited
  /\ b.commited <= b.reserved
  /\ b.initial_commited <= b.reserved
  /\ b.reserved % PageSize = 0

\* Block i is the one that arena_pop_to leaves as the last.
Locates(bs, i, p) ==
  /\ bs[i].base_pos < p
  /\ \A j \in i + 1 .. Len(bs) : bs[j].base_pos >= p

ChainOK(bs) ==
  /\ bs \in Seq(BlockRecord)
  /\ \A i \in 1 .. Len(bs) : BlockOK(bs[i])
  /\ \A i \in 1 .. Len(bs) :
       bs[i].base_pos = IF i = 1 THEN 0 ELSE bs[i - 1].base_pos + bs[i - 1].used
  /\ \A i, j \in 1 .. Len(bs) :
       i < j => bs[i].base_pos + bs[i].used <= bs[j].base_pos
  /\ bs # <<>> =>
       \A p \in 1 .. Pos(bs) : \E i \in 1 .. Len(bs) : Locates(bs, i, p)

\* Position p is in no header, and not right before the end of one.
OutsideHeaders(bs, p) ==
  \A i \in 1 .. Len(bs) : bs[i].base_pos < p => bs[i].base_pos + HeaderSize <= p

LiveOK(bs, gs, lv) ==
  \A x \in lv :
    /\ x \in AllocRecord
    /\ x.block \in 1 .. Len(bs)
    /\ HeaderSize <= x.start
    /\ x.size # 0
    /\ x.start + x.size = x.end
    /\ x.end <= bs[x.block].used
    /\ x.start % x.align = 0
    /\ x.depth <= Len(gs)

Apart(lv) == \A x, y \in lv : x # y => Disjoint(x, y)

GuardsOK(bs, gs) ==
  /\ gs \in Seq(Nat)
  /\ \A g \in 1 .. Len(gs) :
       /\ HeaderSize <= gs[g]
       /\ gs[g] <= Pos(bs)
       /\ OutsideHeaders(bs, gs[g])
       /\ \A h \in g .. Len(gs) : gs[g] <= gs[h]

Separates(bs, gs, lv) ==
  \A g \in 1 .. Len(gs) : \A x \in lv :
    IF x.depth < g THEN bs[x.block].base_pos + x.end <= gs[g]
                   ELSE gs[g] <= bs[x.block].base_pos + x.start

\* The inductive invariant, of a chain, guards and allocations.
Inv(bs, gs, lv) ==
  /\ ChainOK(bs)
  /\ LiveOK(bs, gs, lv)
  /\ Apart(lv)
  /\ GuardsOK(bs, gs)
  /\ Separates(bs, gs, lv)
  /\ bs = <<>> => gs = <<>>

IInv == Inv(blocks, guards, live) /\ failed = {}

USE ArenaAssumption

-----------------------------------------------------------------------------
(* Alignment *)

LEMMA Division ==
  ASSUME NEW p \in Nat, NEW a \in Nat \ {0}
  PROVE  /\ p % a \in 0 .. a - 1
         /\ p \div a \in Nat
         /\ p = a * (p \div a) + (p % a)
OBVIOUS

LEMMA Multiples ==
  ASSUME NEW k \in Nat, NEW m \in Nat, NEW a \in Nat \ {0}
  PROVE  /\ a * k \in Nat /\ (a * k) % a = 0
         /\ a * (k + 1) = a * k + a
         /\ k <= m => a * k <= a * m
OBVIOUS

LEMMA Remainders ==
  ASSUME NEW r \in Nat, NEW a \in Nat \ {0}
  PROVE  (r < a => r % a = r) /\ a % a = 0
OBVIOUS

\* The least multiple of the alignment that is not below the position.
LEMMA Aligned ==
  ASSUME NEW p \in Nat, NEW a \in Nat \ {0}
  PROVE  /\ AlignForward(p, a) \in Nat
         /\ p <= AlignForward(p, a)
         /\ AlignForward(p, a) % a = 0
         /\ p % a = 0 => AlignForward(p, a) = p
         /\ \A q \in Nat : q % a = 0 /\ p <= q => AlignForward(p, a) <= q
<1>. DEFINE k == p \div a
            r == p % a
<1>1. k \in Nat /\ r \in 0 .. a - 1 /\ p = a * k + r
  BY Division
<1>2. CASE r = 0
  <2>1. AlignForward(p, a) = p
    BY <1>2, Remainders DEF AlignForward
  <2>. QED BY <1>2, <2>1
<1>3. CASE r # 0
  <2>1. a - r \in Nat /\ a - r < a
    BY <1>1, <1>3
  <2>2. (a - r) % a = a - r
    BY <2>1, Remainders
  <2>3. AlignForward(p, a) = p + (a - r)
    BY <2>2 DEF AlignForward
  <2>4. a * k \in Nat /\ a * (k + 1) = a * k + a
    BY <1>1, Multiples
  <2>5. AlignForward(p, a) = a * (k + 1)
    <3>. HIDE DEF k, r
    <3>. QED BY <1>1, <2>3, <2>4
  <2>6. (a * (k + 1)) % a = 0 /\ k + 1 \in Nat
    BY <1>1, Multiples
  <2>7. ASSUME NEW q \in Nat, q % a = 0, p <= q PROVE AlignForward(p, a) <= q
    <3>. DEFINE m == q \div a
    <3>1. m \in Nat /\ q = a * m
      BY <2>7, Division
    <3>2. k + 1 <= m
      <4>1. m <= k => a * m <= a * k
        BY <1>1, <3>1, Multiples
      <4>. HIDE DEF k, m, r
      <4>. QED BY <1>1, <1>3, <2>4, <2>7, <3>1, <4>1
    <3>3. a * (k + 1) <= a * m
      BY <2>6, <3>1, <3>2, Multiples
    <3>. QED BY <2>5, <3>1, <3>3
  <2>8. AlignForward(p, a) \in Nat /\ p <= AlignForward(p, a)
    <3>. HIDE DEF r, k
    <3>. QED BY <1>1, <2>1, <2>3
  <2>. QED BY <1>3, <2>5, <2>6, <2>7, <2>8
<1>. QED BY <1>2, <1>3

-----------------------------------------------------------------------------
(* Blocks *)

\* arena_alloc.
LEMMA NewBlockOK ==
  ASSUME NEW c \in Nat, NEW r \in Nat, NEW f, c <= r, HeaderSize <= r
  PROVE  /\ BlockOK(NewBlock(c, r, f))
         /\ NewBlock(c, r, f).base_pos = 0
         /\ NewBlock(c, r, f).used = HeaderSize
         /\ r <= NewBlock(c, r, f).reserved
<1>. DEFINE ac == AlignForward(c, PageSize)
            ar == AlignForward(r, PageSize)
            ah == AlignForward(HeaderSize, PageSize)
<1>1. /\ ac \in Nat /\ ar \in Nat /\ ah \in Nat /\ r <= ar /\ HeaderSize <= ah
      /\ ar % PageSize = 0
  BY Aligned
<1>2. ac <= ar /\ ah <= ar
  BY <1>1, Aligned
<1>. HIDE DEF ac, ar, ah
<1>3. NewBlock(c, r, f) =
        [base_pos |-> 0, flags |-> FALSE, used |-> HeaderSize, reserved |-> ar,
         commited |-> Larger(ac, ah), initial_commited |-> ac]
  BY DEF NewBlock, ac, ar, ah
<1>. QED BY <1>1, <1>2, <1>3 DEF BlockOK, BlockRecord, Larger

\* A push into a block that has room.
LEMMA BumpOK ==
  ASSUME NEW b, BlockOK(b), NEW size \in Nat, NEW a \in Align,
         AlignForward(b.used, a) + size <= b.reserved
  PROVE  LET push == Bump(b, size, a)
         IN /\ BlockOK(push.block) /\ push.fits
            /\ push.start = AlignForward(b.used, a)
            /\ push.start \in Nat /\ b.used <= push.start /\ push.start % a = 0
            /\ push.end = push.start + size
            /\ push.block.used = push.end
            /\ push.block.base_pos = b.base_pos
<1>. DEFINE start == AlignForward(b.used, a)
            end   == start + size
            c     == IF b.commited < end THEN AlignForward(end, PageSize) ELSE b.commited
            new   == [b EXCEPT !.used = end, !.commited = c]
<1>1. /\ b.used \in Nat /\ b.commited \in Nat /\ b.reserved \in Nat
      /\ b.reserved % PageSize = 0 /\ b.commited <= b.reserved
  BY DEF BlockOK, BlockRecord
<1>2. start \in Nat /\ b.used <= start /\ start % a = 0
  BY <1>1, Aligned
<1>3. end \in Nat /\ end <= b.reserved
  BY <1>2
<1>4. c \in Nat /\ end <= c /\ c <= b.reserved
  <2>. HIDE DEF start, end
  <2>1. /\ AlignForward(end, PageSize) \in Nat /\ end <= AlignForward(end, PageSize)
        /\ AlignForward(end, PageSize) <= b.reserved
    BY <1>1, <1>3, Aligned
  <2>. QED BY <1>1, <1>3, <2>1
<1>5. Bump(b, size, a) = [block |-> new, start |-> start, end |-> end, fits |-> TRUE]
  BY <1>3 DEF Bump
<1>. HIDE DEF start, c
<1>6. BlockOK(new)
  <2>1. b.used <= end
    BY <1>1, <1>2
  <2>. HIDE DEF end
  <2>2. /\ new \in BlockRecord /\ new.used = end /\ new.commited = c
        /\ new.reserved = b.reserved /\ new.initial_commited = b.initial_commited
    BY <1>3, <1>4 DEF BlockOK, BlockRecord
  <2>. HIDE DEF new
  <2>. QED BY <1>1, <1>3, <1>4, <2>1, <2>2 DEF BlockOK
<1>7. new.used = end /\ new.base_pos = b.base_pos
  BY DEF BlockOK, BlockRecord
<1>. HIDE DEF new, end
<1>. QED BY <1>2, <1>5, <1>6, <1>7 DEF start, end

-----------------------------------------------------------------------------
(* Chains *)

\* Another header for the last block, at the same position.
LEMMA SetLastOK ==
  ASSUME NEW bs, ChainOK(bs), bs # <<>>, NEW b, BlockOK(b),
         b.base_pos = Last(bs).base_pos,
         NEW cs \in Seq(BlockRecord), Len(cs) = Len(bs), cs[Len(bs)] = b,
         \A i \in 1 .. Len(bs) - 1 : cs[i] = bs[i]
  PROVE  /\ ChainOK(cs) /\ cs # <<>> /\ Last(cs) = b
         /\ \A i \in 1 .. Len(bs) : cs[i].base_pos = bs[i].base_pos
<1>. DEFINE n == Len(bs)
<1>1. bs \in Seq(BlockRecord) /\ n \in Nat \ {0} /\ b \in BlockRecord
  BY DEF ChainOK, BlockOK
<1>2. /\ cs \in Seq(BlockRecord) /\ Len(cs) = n /\ cs[n] = b
      /\ \A i \in 1 .. n - 1 : cs[i] = bs[i]
  BY <1>1
<1>3. /\ \A i \in 1 .. n : /\ BlockOK(bs[i]) /\ bs[i].base_pos \in Nat
                           /\ bs[i].used \in Nat
      /\ b.used \in Nat
  BY DEF ChainOK, BlockOK, BlockRecord
<1>4. \A i \in 1 .. n : cs[i].base_pos = bs[i].base_pos /\ cs[i].base_pos \in Nat
  <2>. SUFFICES ASSUME NEW i \in 1 .. n
                PROVE  cs[i].base_pos = bs[i].base_pos /\ cs[i].base_pos \in Nat
    OBVIOUS
  <2>1. CASE i = n
    BY <1>2, <1>3, <2>1 DEF Last
  <2>2. CASE i # n
    BY <1>1, <1>2, <1>3, <2>2
  <2>. QED BY <2>1, <2>2
<1>5. \A i \in 1 .. n : BlockOK(cs[i])
  BY <1>1, <1>2, <1>3
<1>6. ASSUME NEW i \in 1 .. n
      PROVE  cs[i].base_pos = IF i = 1 THEN 0 ELSE cs[i - 1].base_pos + cs[i - 1].used
  <2>1. bs[i].base_pos = IF i = 1 THEN 0 ELSE bs[i - 1].base_pos + bs[i - 1].used
    BY DEF ChainOK
  <2>2. i # 1 => cs[i - 1] = bs[i - 1]
    BY <1>1, <1>2
  <2>. QED BY <1>4, <2>1, <2>2
<1>7. \A i, j \in 1 .. n : i < j => cs[i].base_pos + cs[i].used <= cs[j].base_pos
  <2>. SUFFICES ASSUME NEW i \in 1 .. n, NEW j \in 1 .. n, i < j
                PROVE  cs[i].base_pos + cs[i].used <= cs[j].base_pos
    OBVIOUS
  <2>1. cs[i] = bs[i] /\ cs[j].base_pos = bs[j].base_pos
    BY <1>1, <1>2, <1>4
  <2>2. bs[i].base_pos + bs[i].used <= bs[j].base_pos
    BY DEF ChainOK
  <2>. QED BY <2>1, <2>2
<1>8. ASSUME NEW p \in 1 .. Pos(cs) PROVE \E i \in 1 .. n : Locates(cs, i, p)
  <2>1. Pos(cs) = bs[n].base_pos + b.used /\ Pos(bs) = bs[n].base_pos + bs[n].used
    BY <1>1, <1>2, <1>4 DEF Pos, Last
  <2>2. b.used \in Nat /\ bs[n].used \in Nat /\ bs[n].base_pos \in Nat
    BY <1>1, <1>3
  <2>3. CASE p > bs[n].base_pos
    BY <1>1, <1>2, <1>4, <2>2, <2>3 DEF Locates
  <2>4. CASE p <= bs[n].base_pos
    <3>1. p \in 1 .. Pos(bs)
      BY <2>1, <2>2, <2>4
    <3>2. PICK i \in 1 .. n : Locates(bs, i, p)
      BY <3>1 DEF ChainOK
    <3>3. \A j \in i + 1 .. n : j \in 1 .. n
      BY <1>1
    <3>4. Locates(cs, i, p)
      BY <1>2, <1>4, <3>2, <3>3 DEF Locates
    <3>. QED BY <3>4
  <2>. QED BY <2>2, <2>3, <2>4
<1>9. ChainOK(cs) /\ cs # <<>>
  BY <1>1, <1>2, <1>5, <1>6, <1>7, <1>8 DEF ChainOK
<1>. QED BY <1>1, <1>2, <1>4, <1>9 DEF Last

\* The first n blocks.
LEMMA FrontOK ==
  ASSUME NEW bs, ChainOK(bs), NEW n \in 1 .. Len(bs)
  PROVE  LET cs == SubSeq(bs, 1, n)
         IN /\ ChainOK(cs) /\ Len(cs) = n /\ cs # <<>>
            /\ \A i \in 1 .. n : cs[i] = bs[i]
<1>. DEFINE cs == SubSeq(bs, 1, n)
<1>1. bs \in Seq(BlockRecord) /\ n \in Nat \ {0} /\ Len(bs) \in Nat /\ n <= Len(bs)
  BY DEF ChainOK
<1>2. /\ cs \in Seq(BlockRecord) /\ Len(cs) = n
      /\ \A i \in 1 .. n : cs[i] = bs[i]
  BY <1>1
<1>. HIDE DEF cs
<1>3. \A i \in 1 .. Len(bs) : /\ BlockOK(bs[i]) /\ bs[i].base_pos \in Nat
                              /\ bs[i].used \in Nat
  BY DEF ChainOK, BlockOK, BlockRecord
<1>4. \A i \in 1 .. n : i \in 1 .. Len(bs)
  BY <1>1
<1>5. /\ \A i \in 1 .. n : BlockOK(cs[i])
      /\ \A i \in 1 .. n :
           cs[i].base_pos = IF i = 1 THEN 0 ELSE cs[i - 1].base_pos + cs[i - 1].used
      /\ \A i, j \in 1 .. n : i < j => cs[i].base_pos + cs[i].used <= cs[j].base_pos
  BY <1>1, <1>2, <1>4 DEF ChainOK
<1>6. ASSUME NEW p \in 1 .. Pos(cs) PROVE \E i \in 1 .. n : Locates(cs, i, p)
  <2>1. Pos(cs) = bs[n].base_pos + bs[n].used
    BY <1>1, <1>2 DEF Pos, Last
  <2>2. CASE p > bs[n].base_pos
    BY <1>1, <1>2, <1>3, <2>2 DEF Locates
  <2>3. CASE p <= bs[n].base_pos
    <3>1. p \in 1 .. Pos(bs)
      <4>1. bs[n].base_pos <= bs[Len(bs)].base_pos
        BY <1>1, <1>3 DEF ChainOK
      <4>. QED BY <1>1, <1>3, <2>3, <4>1 DEF Pos, Last
    <3>2. PICK i \in 1 .. Len(bs) : Locates(bs, i, p)
      BY <1>1, <3>1 DEF ChainOK
    <3>3. i < n
      <4>1. SUFFICES ASSUME n <= i PROVE FALSE
        BY <1>1
      <4>2. bs[n].base_pos <= bs[i].base_pos
        BY <1>1, <1>3, <4>1 DEF ChainOK
      <4>. QED BY <1>1, <1>3, <2>3, <3>2, <4>2 DEF Locates
    <3>4. Locates(cs, i, p)
      BY <1>1, <1>2, <3>2, <3>3 DEF Locates
    <3>. QED BY <1>1, <3>3, <3>4
  <2>. QED BY <1>1, <1>3, <2>2, <2>3
<1>7. ChainOK(cs) /\ cs # <<>>
  BY <1>1, <1>2, <1>5, <1>6 DEF ChainOK
<1>. QED BY <1>2, <1>7 DEF cs

\* A new block behind the chain.
LEMMA AppendOK ==
  ASSUME NEW bs, ChainOK(bs), bs # <<>>, NEW b, BlockOK(b), b.base_pos = Pos(bs)
  PROVE  LET cs == Append(bs, b)
         IN /\ ChainOK(cs) /\ Len(cs) = Len(bs) + 1 /\ cs # <<>>
            /\ Last(cs) = b
            /\ \A i \in 1 .. Len(bs) : cs[i] = bs[i]
<1>. DEFINE n  == Len(bs)
            cs == Append(bs, b)
<1>1. bs \in Seq(BlockRecord) /\ n \in Nat \ {0} /\ b \in BlockRecord
  BY DEF ChainOK, BlockOK
<1>2. /\ cs \in Seq(BlockRecord) /\ Len(cs) = n + 1 /\ cs[n + 1] = b
      /\ \A i \in 1 .. n : cs[i] = bs[i]
  BY <1>1
<1>. HIDE DEF cs
<1>3. \A i \in 1 .. n : /\ BlockOK(bs[i]) /\ bs[i].base_pos \in Nat
                        /\ bs[i].used \in Nat
  BY DEF ChainOK, BlockOK, BlockRecord
<1>4. Pos(bs) = bs[n].base_pos + bs[n].used /\ Pos(bs) \in Nat
  BY <1>1, <1>3 DEF Pos, Last
<1>5. ASSUME NEW i \in 1 .. n + 1
      PROVE  /\ BlockOK(cs[i])
             /\ cs[i].base_pos = IF i = 1 THEN 0 ELSE cs[i - 1].base_pos + cs[i - 1].used
  <2>1. CASE i = n + 1
    BY <1>1, <1>2, <1>4, <2>1
  <2>2. CASE i # n + 1
    <3>1. i \in 1 .. n /\ (i # 1 => i - 1 \in 1 .. n)
      BY <1>1, <2>2
    <3>2. bs[i].base_pos = IF i = 1 THEN 0 ELSE bs[i - 1].base_pos + bs[i - 1].used
      BY <3>1 DEF ChainOK
    <3>. QED BY <1>2, <1>3, <3>1, <3>2
  <2>. QED BY <2>1, <2>2
<1>6. \A i \in 1 .. n : bs[i].base_pos + bs[i].used <= Pos(bs)
  BY <1>1, <1>3, <1>4 DEF ChainOK
<1>7. \A i, j \in 1 .. n + 1 : i < j => cs[i].base_pos + cs[i].used <= cs[j].base_pos
  <2>. SUFFICES ASSUME NEW i \in 1 .. n + 1, NEW j \in 1 .. n + 1, i < j
                PROVE  cs[i].base_pos + cs[i].used <= cs[j].base_pos
    OBVIOUS
  <2>1. CASE j = n + 1
    BY <1>1, <1>2, <1>6, <2>1
  <2>2. CASE j # n + 1
    <3>1. i \in 1 .. n /\ j \in 1 .. n
      BY <1>1, <2>2
    <3>2. bs[i].base_pos + bs[i].used <= bs[j].base_pos
      BY <3>1 DEF ChainOK
    <3>. QED BY <1>2, <3>1, <3>2
  <2>. QED BY <2>1, <2>2
<1>8. ASSUME NEW p \in 1 .. Pos(cs) PROVE \E i \in 1 .. n + 1 : Locates(cs, i, p)
  <2>1. CASE p > Pos(bs)
    BY <1>1, <1>2, <1>4, <2>1 DEF Locates
  <2>2. CASE p <= Pos(bs)
    <3>1. PICK i \in 1 .. n : Locates(bs, i, p)
      BY <1>4, <2>2 DEF ChainOK
    <3>2. Locates(cs, i, p)
      BY <1>1, <1>2, <1>4, <2>2, <3>1 DEF Locates
    <3>. QED BY <1>1, <3>2
  <2>. QED BY <1>4, <2>1, <2>2
<1>9. ChainOK(cs) /\ cs # <<>>
  BY <1>1, <1>2, <1>5, <1>7, <1>8 DEF ChainOK
<1>. QED BY <1>1, <1>2, <1>9 DEF cs, Last

\* The numbers of a chain.
LEMMA ChainFacts ==
  ASSUME NEW bs, ChainOK(bs)
  PROVE  /\ Len(bs) \in Nat /\ (bs # <<>> => Len(bs) \in 1 .. Len(bs))
         /\ \A i \in 1 .. Len(bs) : /\ bs[i].base_pos \in Nat /\ bs[i].used \in Nat
                                    /\ HeaderSize <= bs[i].used
         /\ bs # <<>> => /\ Pos(bs) \in Nat
                         /\ Pos(bs) = bs[Len(bs)].base_pos + bs[Len(bs)].used
                         /\ \A i \in 1 .. Len(bs) : bs[i].base_pos + bs[i].used <= Pos(bs)
<1>1. bs \in Seq(BlockRecord) /\ Len(bs) \in Nat /\ (bs # <<>> => Len(bs) \in 1 .. Len(bs))
  BY DEF ChainOK
<1>2. \A i \in 1 .. Len(bs) : /\ bs[i].base_pos \in Nat /\ bs[i].used \in Nat
                              /\ HeaderSize <= bs[i].used
  BY DEF ChainOK, BlockOK, BlockRecord
<1>3. ASSUME bs # <<>>
      PROVE  /\ Pos(bs) \in Nat
             /\ Pos(bs) = bs[Len(bs)].base_pos + bs[Len(bs)].used
             /\ \A i \in 1 .. Len(bs) : bs[i].base_pos + bs[i].used <= Pos(bs)
  <2>1. Pos(bs) = bs[Len(bs)].base_pos + bs[Len(bs)].used
    BY DEF Pos, Last
  <2>2. ASSUME NEW i \in 1 .. Len(bs) PROVE bs[i].base_pos + bs[i].used <= Pos(bs)
    <3>1. CASE i = Len(bs)
      BY <1>1, <1>2, <2>1, <3>1
    <3>2. CASE i # Len(bs)
      <4>1. bs[i].base_pos + bs[i].used <= bs[Len(bs)].base_pos
        BY <1>1, <1>3, <3>2 DEF ChainOK
      <4>2. /\ bs[i].base_pos \in Nat /\ bs[i].used \in Nat
            /\ bs[Len(bs)].base_pos \in Nat /\ bs[Len(bs)].used \in Nat
        BY <1>1, <1>2, <1>3
      <4>. QED BY <2>1, <4>1, <4>2
    <3>. QED BY <3>1, <3>2
  <2>. QED BY <1>1, <1>2, <1>3, <2>1, <2>2
<1>. QED BY <1>1, <1>2, <1>3

\* The chain with room for a push: the header of a new block needs no padding.
LEMMA RoomOK ==
  ASSUME Suited, NEW bs, ChainOK(bs), bs # <<>>, NEW size \in Nat, NEW a \in Align
  PROVE  LET cs == Room(bs, size, a)
         IN /\ ChainOK(cs) /\ cs # <<>> /\ Len(bs) <= Len(cs)
            /\ \A i \in 1 .. Len(bs) : cs[i] = bs[i]
            /\ \A i \in 1 .. Len(cs) : i \notin 1 .. Len(bs) => cs[i].base_pos = Pos(bs)
            /\ AlignForward(Last(cs).used, a) + size <= Last(cs).reserved
<1>. DEFINE cs == Room(bs, size, a)
<1>1. /\ Last(bs).used \in Nat /\ Last(bs).reserved \in Nat
      /\ Last(bs).initial_commited \in Nat
      /\ Last(bs).initial_commited <= Last(bs).reserved
      /\ HeaderSize <= Last(bs).reserved
  <2>1. BlockOK(Last(bs))
    BY ChainFacts DEF Last, ChainOK
  <2>. QED BY <2>1 DEF BlockOK, BlockRecord
<1>2. AlignForward(Last(bs).used, a) \in Nat
  BY <1>1, Aligned
<1>3. CASE ~NeedsGrow(bs, size, a)
  <2>1. cs = bs
    BY <1>3 DEF Room
  <2>2. AlignForward(Last(bs).used, a) + size <= Last(bs).reserved
    BY <1>1, <1>2, <1>3 DEF NeedsGrow
  <2>. HIDE DEF cs
  <2>3. Len(bs) <= Len(cs)
    BY <2>1, ChainFacts
  <2>. QED BY <2>1, <2>2, <2>3 DEF cs
<1>4. CASE NeedsGrow(bs, size, a)
  <2>. DEFINE c   == Larger(Last(bs).initial_commited, size + HeaderSize)
              r   == Larger(Last(bs).reserved, size + HeaderSize)
              new == NewBlock(c, r, bs[1].flags)
              b   == [new EXCEPT !.base_pos = Pos(bs)]
  <2>1. cs = Append(bs, b)
    BY <1>4 DEF Room, Grown
  <2>2. c \in Nat /\ r \in Nat /\ c <= r /\ HeaderSize <= r /\ size + HeaderSize <= r
    BY <1>1 DEF Larger
  <2>. HIDE DEF c, r
  <2>3. BlockOK(new) /\ new.used = HeaderSize /\ r <= new.reserved
    BY <2>2, NewBlockOK
  <2>. HIDE DEF new
  <2>4. /\ BlockOK(b) /\ b.base_pos = Pos(bs) /\ b.used = HeaderSize
        /\ b.reserved = new.reserved /\ new.reserved \in Nat
    <3>1. Pos(bs) \in Nat
      BY ChainFacts
    <3>. QED BY <2>3, <3>1 DEF BlockOK, BlockRecord
  <2>. HIDE DEF b, cs
  <2>5. /\ ChainOK(cs) /\ Len(cs) = Len(bs) + 1 /\ cs # <<>> /\ Last(cs) = b
        /\ \A i \in 1 .. Len(bs) : cs[i] = bs[i]
    BY <2>1, <2>4, AppendOK
  <2>6. AlignForward(HeaderSize, a) = HeaderSize
    BY Aligned DEF Suited
  <2>7. AlignForward(Last(cs).used, a) + size <= Last(cs).reserved
    BY <2>2, <2>3, <2>4, <2>5, <2>6
  <2>8. Len(bs) \in Nat /\ cs[Len(cs)].base_pos = Pos(bs)
    BY <2>4, <2>5, ChainFacts DEF Last
  <2>9. ASSUME NEW i \in 1 .. Len(cs), i \notin 1 .. Len(bs) PROVE cs[i].base_pos = Pos(bs)
    <3>1. i = Len(cs)
      BY <2>5, <2>8, <2>9
    <3>. QED BY <2>8, <3>1
  <2>. QED BY <2>5, <2>7, <2>8, <2>9 DEF cs
<1>. QED BY <1>3, <1>4

\* arena_pop_to.
LEMMA PopOK ==
  ASSUME NEW bs, ChainOK(bs), bs # <<>>, NEW p \in Nat, HeaderSize <= p, p <= Pos(bs),
         OutsideHeaders(bs, p)
  PROVE  LET cs == PoppedTo(bs, p)
         IN /\ ChainOK(cs) /\ cs # <<>> /\ Pos(cs) = p
            /\ Len(cs) \in 1 .. Len(bs)
            /\ Locates(bs, Len(cs), p)
            /\ \A i \in 1 .. Len(cs) - 1 : cs[i] = bs[i]
            /\ \A i \in 1 .. Len(cs) : cs[i].base_pos = bs[i].base_pos
<1>. DEFINE n  == CHOOSE i \in 1 .. Len(bs) :
                    /\ bs[i].base_pos < p
                    /\ \A j \in i + 1 .. Len(bs) : bs[j].base_pos >= p
            fs == SubSeq(bs, 1, n)
            b  == [fs[n] EXCEPT !.used = p - bs[n].base_pos]
            cs == PoppedTo(bs, p)
<1>1. n \in 1 .. Len(bs) /\ Locates(bs, n, p)
  <2>1. p \in 1 .. Pos(bs)
    BY ChainFacts
  <2>2. \E i \in 1 .. Len(bs) : /\ bs[i].base_pos < p
                                /\ \A j \in i + 1 .. Len(bs) : bs[j].base_pos >= p
    BY <2>1 DEF ChainOK, Locates
  <2>. QED BY <2>2 DEF Locates
<1>2. cs = [fs EXCEPT ![n] = b]
  BY DEF PoppedTo
<1>. HIDE DEF n, cs
<1>3. /\ ChainOK(fs) /\ Len(fs) = n /\ fs # <<>>
      /\ \A i \in 1 .. n : fs[i] = bs[i]
  BY <1>1, FrontOK
<1>. HIDE DEF fs
<1>4. /\ n \in 1 .. n /\ n \in Nat /\ Len(bs) \in Nat
      /\ bs[n].base_pos \in Nat /\ bs[n].used \in Nat
  BY <1>1, <1>3, ChainFacts
<1>5. /\ p - bs[n].base_pos \in Nat /\ HeaderSize <= p - bs[n].base_pos
      /\ p - bs[n].base_pos <= bs[n].used
  <2>1. bs[n].base_pos < p /\ bs[n].base_pos + HeaderSize <= p
    BY <1>1 DEF Locates, OutsideHeaders
  <2>2. p <= bs[n].base_pos + bs[n].used
    <3>1. CASE n = Len(bs)
      BY <3>1, ChainFacts
    <3>2. CASE n # Len(bs)
      <4>1. PICK m \in n + 1 .. Len(bs) : m = n + 1
        BY <1>1, <1>4, <3>2
      <4>2. bs[m].base_pos >= p
        BY <1>1 DEF Locates
      <4>3. m \in 1 .. Len(bs) /\ m # 1 /\ m - 1 = n
        BY <1>4, <4>1
      <4>4. bs[m].base_pos = bs[m - 1].base_pos + bs[m - 1].used
        BY <4>3 DEF ChainOK
      <4>. QED BY <1>4, <4>2, <4>3, <4>4
    <3>. QED BY <3>1, <3>2
  <2>. QED BY <1>4, <2>1, <2>2
<1>6. fs[n] = bs[n] /\ BlockOK(fs[n])
  BY <1>3, <1>4 DEF ChainOK
<1>7. BlockOK(b) /\ b.base_pos = fs[n].base_pos /\ b.used = p - bs[n].base_pos
  <2>1. /\ b \in BlockRecord /\ b.base_pos = fs[n].base_pos /\ b.used = p - bs[n].base_pos
        /\ b.commited = fs[n].commited /\ b.reserved = fs[n].reserved
        /\ b.initial_commited = fs[n].initial_commited
    BY <1>5, <1>6 DEF BlockOK, BlockRecord
  <2>2. fs[n].commited \in Nat /\ fs[n].used <= fs[n].commited
    BY <1>6 DEF BlockOK, BlockRecord
  <2>. HIDE DEF b
  <2>. QED BY <1>4, <1>5, <1>6, <2>1, <2>2 DEF BlockOK
<1>. HIDE DEF b
<1>8. /\ ChainOK(cs) /\ Len(cs) = n /\ cs # <<>> /\ Last(cs) = b
      /\ \A i \in 1 .. n - 1 : cs[i] = fs[i]
      /\ \A i \in 1 .. n : cs[i].base_pos = fs[i].base_pos
  <2>1. b.base_pos = Last(fs).base_pos /\ fs \in Seq(BlockRecord) /\ b \in BlockRecord
    BY <1>3, <1>7 DEF Last, ChainOK, BlockOK
  <2>2. /\ cs \in Seq(BlockRecord) /\ Len(cs) = Len(fs) /\ cs[Len(fs)] = b
        /\ \A i \in 1 .. Len(fs) - 1 : cs[i] = fs[i]
    BY <1>2, <1>3, <1>4, <2>1
  <2>3. ChainOK(fs) /\ fs # <<>> /\ BlockOK(b)
    BY <1>3, <1>7
  <2>4. /\ ChainOK(cs) /\ cs # <<>> /\ Last(cs) = b
        /\ \A i \in 1 .. Len(fs) : cs[i].base_pos = fs[i].base_pos
    BY <2>1, <2>2, <2>3, SetLastOK
  <2>. QED BY <1>3, <2>2, <2>4
<1>9. Pos(cs) = p
  BY <1>4, <1>6, <1>7, <1>8 DEF Pos
<1>10. \A i \in 1 .. n - 1 : cs[i] = bs[i]
  BY <1>3, <1>4, <1>8
<1>11. \A i \in 1 .. n : cs[i].base_pos = bs[i].base_pos
  BY <1>3, <1>8
<1>. QED BY <1>1, <1>8, <1>9, <1>10, <1>11 DEF cs

-----------------------------------------------------------------------------
(* The invariant *)

\* What is in use stays where it is when its blocks stay and what is used of
\* them does not shrink below it.
LEMMA PushInv ==
  ASSUME Suited, NEW bs, NEW lv, Inv(bs, guards, lv), bs # <<>>,
         NEW size \in Nat \ {0}, NEW a \in Align, NEW freed, lv = live \ freed,
         PushOn(bs, size, a, freed)
  PROVE  Inv(blocks', guards, live') /\ failed' = failed
<1>. DEFINE room == Room(bs, size, a)
            n    == Len(room)
            push == Bump(room[n], size, a)
            new  == [block |-> n, start |-> push.start, end |-> push.end,
                     size |-> size, align |-> a, depth |-> Len(guards)]
<1>1. /\ blocks' = [room EXCEPT ![n] = push.block]
      /\ live' = lv \cup {new}
      /\ failed' = IF push.fits THEN failed ELSE failed \cup {"push_end"}
  BY DEF PushOn
<1>2. /\ ChainOK(room) /\ room # <<>> /\ Len(bs) <= n
      /\ \A i \in 1 .. Len(bs) : room[i] = bs[i]
      /\ \A i \in 1 .. n : i \notin 1 .. Len(bs) => room[i].base_pos = Pos(bs)
      /\ AlignForward(room[n].used, a) + size <= room[n].reserved
  BY RoomOK DEF Inv, Last
<1>. HIDE DEF room
<1>3. /\ ChainOK(bs) /\ n \in Nat /\ Len(bs) \in Nat /\ Len(bs) \in 1 .. Len(bs)
      /\ n \in 1 .. n /\ BlockOK(room[n])
  BY <1>2, ChainFacts DEF Inv, ChainOK
<1>4. /\ BlockOK(push.block) /\ push.fits
      /\ push.start \in Nat /\ room[n].used <= push.start
      /\ push.end = push.start + size
      /\ push.block.used = push.end
      /\ push.block.base_pos = room[n].base_pos
  BY <1>2, <1>3, BumpOK
<1>4a. push.start % a = 0
  BY <1>2, <1>3, BumpOK
<1>5. failed' = failed
  BY <1>1, <1>4
<1>. HIDE DEF push
<1>6. /\ blocks' \in Seq(BlockRecord) /\ Len(blocks') = n /\ blocks'[n] = push.block
      /\ \A i \in 1 .. n - 1 : blocks'[i] = room[i]
  BY <1>1, <1>2, <1>3, <1>4 DEF ChainOK, BlockOK
<1>7. /\ ChainOK(blocks') /\ blocks' # <<>>
      /\ \A i \in 1 .. n : blocks'[i].base_pos = room[i].base_pos
  BY <1>2, <1>4, <1>6, SetLastOK DEF Last
<1>8. /\ room[n].used \in Nat /\ room[n].base_pos \in Nat /\ HeaderSize <= room[n].used
      /\ Pos(bs) \in Nat /\ Pos(bs) <= room[n].base_pos + room[n].used
  <2>1. room[n].used \in Nat /\ room[n].base_pos \in Nat /\ HeaderSize <= room[n].used
    BY <1>2, <1>3, ChainFacts
  <2>2. Pos(bs) \in Nat /\ Pos(bs) = bs[Len(bs)].base_pos + bs[Len(bs)].used
    BY <1>3, ChainFacts
  <2>3. CASE n \in 1 .. Len(bs)
    BY <1>2, <1>3, <2>1, <2>2, <2>3
  <2>4. CASE n \notin 1 .. Len(bs)
    BY <1>2, <1>3, <2>1, <2>2, <2>4
  <2>. QED BY <2>1, <2>2, <2>3, <2>4
<1>9. Pos(bs) <= room[n].base_pos + push.start /\ Pos(bs) <= Pos(blocks')
  <2>1. Pos(blocks') = room[n].base_pos + push.end
    BY <1>4, <1>6 DEF Pos, Last
  <2>. QED BY <1>4, <1>8, <2>1
<1>10. ASSUME NEW i \in 1 .. Len(bs)
       PROVE  /\ i \in 1 .. n /\ blocks'[i].base_pos = bs[i].base_pos
              /\ bs[i].used \in Nat /\ blocks'[i].used \in Nat
              /\ bs[i].used <= blocks'[i].used
              /\ i = n => bs[i].used <= push.start
  <2>1. i \in 1 .. n /\ room[i] = bs[i]
    BY <1>2, <1>3
  <2>2. bs[i].used \in Nat /\ blocks'[i].used \in Nat
    BY <1>3, <1>6, <1>7, <2>1, ChainFacts
  <2>3. CASE i = n
    BY <1>4, <1>6, <1>7, <2>1, <2>2, <2>3
  <2>4. CASE i # n
    BY <1>3, <1>6, <1>7, <2>1, <2>2, <2>4
  <2>. QED BY <2>1, <2>2, <2>3, <2>4
<1>. HIDE DEF new
<1>11. /\ new \in AllocRecord /\ new.block = n /\ new.start = push.start
       /\ new.end = push.end /\ new.size = size /\ new.align = a
       /\ new.depth = Len(guards) /\ Len(guards) \in Nat
  <2>1. guards \in Seq(Nat)
    BY DEF Inv, GuardsOK
  <2>2. Len(guards) \in Nat /\ push.start \in Nat /\ push.end \in Nat /\ a \in Nat
    BY <1>4, <2>1
  <2>. QED BY <1>3, <2>2 DEF new, AllocRecord
<1>12. LiveOK(blocks', guards, live')
  <2>. SUFFICES ASSUME NEW x \in live' PROVE LiveOK(blocks', guards, {x})
    BY DEF LiveOK
  <2>1. CASE x = new
    <3>1. HeaderSize <= push.start /\ push.start + size = push.end
      BY <1>4, <1>8
    <3>2. n \in 1 .. Len(blocks') /\ push.end <= blocks'[n].used
      BY <1>3, <1>4, <1>6
    <3>3. Len(guards) <= Len(guards)
      BY <1>11
    <3>. QED BY <1>4a, <1>11, <2>1, <3>1, <3>2, <3>3 DEF LiveOK
  <2>2. CASE x \in lv
    <3>1. /\ x \in AllocRecord /\ x.block \in 1 .. Len(bs) /\ HeaderSize <= x.start
          /\ x.size # 0 /\ x.start + x.size = x.end /\ x.end <= bs[x.block].used
          /\ x.start % x.align = 0 /\ x.depth <= Len(guards)
      BY <2>2 DEF Inv, LiveOK
    <3>2. x.end <= blocks'[x.block].used /\ x.block \in 1 .. n
      <4>1. x.end \in Nat
        BY <3>1 DEF AllocRecord
      <4>. QED BY <1>10, <3>1, <4>1
    <3>. QED BY <1>6, <3>1, <3>2 DEF LiveOK
  <2>. QED BY <1>1, <2>1, <2>2
<1>13. Apart(live')
  <2>1. ASSUME NEW x \in lv PROVE Disjoint(x, new) /\ Disjoint(new, x)
    <3>1. x.block \in 1 .. Len(bs) /\ x.end <= bs[x.block].used /\ x.end \in Nat
      BY DEF Inv, LiveOK, AllocRecord
    <3>2. CASE x.block = n
      <4>1. x.end <= push.start
        BY <1>4, <1>10, <3>1, <3>2
      <4>. QED BY <1>11, <4>1 DEF Disjoint
    <3>3. CASE x.block # n
      BY <1>11, <3>3 DEF Disjoint
    <3>. QED BY <3>2, <3>3
  <2>2. Apart(lv)
    BY DEF Inv
  <2>. QED BY <1>1, <2>1, <2>2 DEF Apart
<1>14. GuardsOK(blocks', guards)
  <2>1. guards \in Seq(Nat) /\ GuardsOK(bs, guards)
    BY DEF Inv, GuardsOK
  <2>2. ASSUME NEW g \in 1 .. Len(guards)
        PROVE  guards[g] <= Pos(blocks') /\ OutsideHeaders(blocks', guards[g])
    <3>1. guards[g] \in Nat /\ guards[g] <= Pos(bs) /\ OutsideHeaders(bs, guards[g])
      BY <2>1 DEF GuardsOK
    <3>2. guards[g] <= Pos(blocks')
      <4>1. Pos(blocks') \in Nat
        BY <1>7, ChainFacts
      <4>. QED BY <1>8, <1>9, <3>1, <4>1
    <3>3. ASSUME NEW i \in 1 .. n, blocks'[i].base_pos < guards[g]
          PROVE  blocks'[i].base_pos + HeaderSize <= guards[g]
      <4>1. CASE i \in 1 .. Len(bs)
        <5>1. blocks'[i].base_pos = bs[i].base_pos
          BY <1>10, <4>1
        <5>. QED BY <3>1, <3>3, <4>1, <5>1 DEF OutsideHeaders
      <4>2. CASE i \notin 1 .. Len(bs)
        <5>1. blocks'[i].base_pos = Pos(bs)
          BY <1>2, <1>7, <4>2
        <5>2. guards[g] <= blocks'[i].base_pos /\ blocks'[i].base_pos \in Nat
          BY <1>8, <3>1, <5>1
        <5>. QED BY <3>1, <3>3, <5>2
      <4>. QED BY <4>1, <4>2
    <3>. QED BY <1>6, <3>2, <3>3 DEF OutsideHeaders
  <2>. QED BY <2>1, <2>2 DEF GuardsOK
<1>15. Separates(blocks', guards, live')
  <2>. SUFFICES ASSUME NEW g \in 1 .. Len(guards), NEW x \in live'
                PROVE  IF x.depth < g THEN blocks'[x.block].base_pos + x.end <= guards[g]
                                      ELSE guards[g] <= blocks'[x.block].base_pos + x.start
    BY DEF Separates
  <2>1. CASE x = new
    <3>1. guards[g] <= Pos(bs) /\ guards[g] \in Nat /\ g <= Len(guards)
      BY <1>11 DEF Inv, GuardsOK
    <3>2. guards[g] <= room[n].base_pos + push.start
      BY <1>4, <1>8, <1>9, <3>1
    <3>. QED BY <1>3, <1>7, <1>11, <2>1, <3>1, <3>2
  <2>2. CASE x \in lv
    <3>1. x.block \in 1 .. Len(bs)
      BY <2>2 DEF Inv, LiveOK
    <3>2. blocks'[x.block].base_pos = bs[x.block].base_pos
      BY <1>10, <3>1
    <3>. QED BY <2>2, <3>2 DEF Inv, Separates
  <2>. QED BY <1>1, <2>1, <2>2
<1>. QED BY <1>5, <1>7, <1>12, <1>13, <1>14, <1>15 DEF Inv

\* Popping to a position behind the guards and the allocations that stay.
LEMMA PopInv ==
  ASSUME NEW bs, NEW gs, NEW lv, Inv(bs, gs, lv), bs # <<>>,
         NEW p \in Nat, HeaderSize <= p, p <= Pos(bs), OutsideHeaders(bs, p),
         NEW hs \in Seq(Nat), Len(hs) <= Len(gs),
         \A g \in 1 .. Len(hs) : hs[g] = gs[g] /\ gs[g] <= p,
         NEW kept, kept \subseteq lv,
         \A x \in kept : x.depth <= Len(hs) /\ bs[x.block].base_pos + x.end <= p
  PROVE  Inv(PoppedTo(bs, p), hs, kept) /\ Pos(PoppedTo(bs, p)) = p
<1>. DEFINE cs == PoppedTo(bs, p)
<1>1. /\ ChainOK(cs) /\ cs # <<>> /\ Pos(cs) = p
      /\ Len(cs) \in 1 .. Len(bs)
      /\ Locates(bs, Len(cs), p)
      /\ \A i \in 1 .. Len(cs) - 1 : cs[i] = bs[i]
      /\ \A i \in 1 .. Len(cs) : cs[i].base_pos = bs[i].base_pos
  BY PopOK DEF Inv
<1>. HIDE DEF cs
<1>2. /\ ChainOK(bs) /\ Len(bs) \in Nat /\ Len(cs) \in Nat
      /\ \A i \in 1 .. Len(bs) : bs[i].base_pos \in Nat /\ bs[i].used \in Nat
      /\ \A i \in 1 .. Len(cs) : i \in 1 .. Len(bs)
      /\ gs \in Seq(Nat) /\ Len(gs) \in Nat /\ Len(hs) \in Nat
      /\ \A g \in 1 .. Len(hs) : g \in 1 .. Len(gs)
  BY <1>1, ChainFacts DEF Inv, GuardsOK
<1>3. LiveOK(cs, hs, kept)
  <2>. SUFFICES ASSUME NEW x \in kept PROVE LiveOK(cs, hs, {x})
    BY DEF LiveOK
  <2>1. /\ x \in AllocRecord /\ x.block \in 1 .. Len(bs) /\ HeaderSize <= x.start
        /\ x.size # 0 /\ x.start + x.size = x.end /\ x.end <= bs[x.block].used
        /\ x.start % x.align = 0 /\ x.depth <= Len(hs)
    BY DEF Inv, LiveOK
  <2>2. x.end \in Nat /\ x.end # 0 /\ x.block \in Nat
    <3>1. x.start \in Nat /\ x.size \in Nat /\ x.end \in Nat /\ x.block \in Nat
      BY <2>1 DEF AllocRecord
    <3>. QED BY <2>1, <3>1
  <2>3. x.block \in 1 .. Len(cs)
    <3>1. SUFFICES ASSUME x.block \in Len(cs) + 1 .. Len(bs) PROVE FALSE
      BY <1>2, <2>1, <2>2
    <3>2. bs[x.block].base_pos >= p /\ bs[x.block].base_pos \in Nat
      BY <1>1, <1>2, <2>1, <3>1 DEF Locates
    <3>. QED BY <2>2, <3>2
  <2>4. x.end <= cs[x.block].used
    <3>1. CASE x.block = Len(cs)
      <4>1. /\ p = cs[x.block].base_pos + cs[x.block].used
            /\ cs[x.block].base_pos = bs[x.block].base_pos
            /\ cs[x.block].used \in Nat /\ bs[x.block].base_pos \in Nat
        BY <1>1, <1>2, <2>3, <3>1, ChainFacts
      <4>2. bs[x.block].base_pos + x.end <= p
        OBVIOUS
      <4>. QED BY <2>2, <4>1, <4>2
    <3>2. CASE x.block # Len(cs)
      <4>1. x.block \in 1 .. Len(cs) - 1
        BY <1>2, <2>2, <2>3, <3>2
      <4>. QED BY <1>1, <2>1, <4>1
    <3>. QED BY <3>1, <3>2
  <2>. QED BY <2>1, <2>3, <2>4 DEF LiveOK
<1>4. Apart(kept)
  BY DEF Inv, Apart
<1>5. GuardsOK(cs, hs)
  <2>1. ASSUME NEW g \in 1 .. Len(hs)
        PROVE  /\ HeaderSize <= hs[g] /\ hs[g] <= Pos(cs)
               /\ OutsideHeaders(cs, hs[g])
               /\ \A h \in g .. Len(hs) : hs[g] <= hs[h]
    <3>1. /\ hs[g] = gs[g] /\ HeaderSize <= gs[g] /\ gs[g] <= p
          /\ OutsideHeaders(bs, gs[g])
          /\ \A h \in g .. Len(gs) : gs[g] <= gs[h]
      BY <1>2 DEF Inv, GuardsOK
    <3>2. OutsideHeaders(cs, hs[g])
      BY <1>1, <1>2, <3>1 DEF OutsideHeaders
    <3>3. ASSUME NEW h \in g .. Len(hs) PROVE hs[g] <= hs[h]
      <4>1. h \in 1 .. Len(hs) /\ h \in g .. Len(gs)
        BY <1>2
      <4>. QED BY <3>1, <4>1
    <3>. QED BY <1>1, <3>1, <3>2, <3>3
  <2>. QED BY <2>1 DEF GuardsOK
<1>6. Separates(cs, hs, kept)
  <2>. SUFFICES ASSUME NEW g \in 1 .. Len(hs), NEW x \in kept
                PROVE  IF x.depth < g THEN cs[x.block].base_pos + x.end <= hs[g]
                                      ELSE hs[g] <= cs[x.block].base_pos + x.start
    BY DEF Separates
  <2>1. g \in 1 .. Len(gs) /\ hs[g] = gs[g] /\ x \in lv
    BY <1>2
  <2>2. x.block \in 1 .. Len(cs)
    BY <1>3 DEF LiveOK
  <2>3. cs[x.block].base_pos = bs[x.block].base_pos
    BY <1>1, <2>2
  <2>. QED BY <2>1, <2>3 DEF Inv, Separates
<1>. QED BY <1>1, <1>3, <1>4, <1>5, <1>6 DEF Inv, cs

\* What is before the last allocation of the innermost guard: the block that
\* is left when it is popped, the guards, and the other allocations.
LEMMA LastAlloc ==
  ASSUME IInv, NEW x \in live, IsLast(x), x.depth = Len(guards),
         NEW p, p = Last(blocks).base_pos + x.start
  PROVE  /\ blocks # <<>> /\ p \in Nat /\ HeaderSize <= p /\ p <= Pos(blocks)
         /\ p = Pos(blocks) - (x.end - x.start)
         /\ Shorter(x) = PoppedTo(blocks, p)
         /\ OutsideHeaders(blocks, p)
         /\ Inv(PoppedTo(blocks, p), guards, live \ {x})
<1>. DEFINE n == Len(blocks)
<1>1. /\ ChainOK(blocks) /\ blocks \in Seq(BlockRecord)
      /\ x.block = n /\ blocks[n].used = x.end /\ p = blocks[n].base_pos + x.start
  BY DEF IInv, Inv, IsLast, Last, ChainOK
<1>2. /\ x.start \in Nat /\ x.end \in Nat /\ x.size \in Nat /\ n \in 1 .. n
      /\ HeaderSize <= x.start /\ x.start + x.size = x.end /\ blocks # <<>>
  BY <1>1 DEF IInv, Inv, LiveOK, AllocRecord
<1>3. /\ n \in Nat /\ Pos(blocks) = blocks[n].base_pos + blocks[n].used
      /\ \A i \in 1 .. n : blocks[i].base_pos \in Nat /\ blocks[i].used \in Nat
                           /\ HeaderSize <= blocks[i].used
  BY <1>1, <1>2, ChainFacts
<1>3a. blocks[n].base_pos \in Nat /\ blocks[n].used \in Nat
  BY <1>2, <1>3
<1>4. /\ p \in Nat /\ HeaderSize <= p /\ p <= Pos(blocks)
      /\ p = Pos(blocks) - (x.end - x.start)
      /\ blocks[n].base_pos + HeaderSize <= p
  BY <1>1, <1>2, <1>3
<1>5. ASSUME NEW i \in 1 .. n, i # n
      PROVE  blocks[i].base_pos + blocks[i].used <= blocks[n].base_pos
  BY <1>1, <1>3, <1>5 DEF ChainOK
<1>6. OutsideHeaders(blocks, p)
  <2>. SUFFICES ASSUME NEW i \in 1 .. n PROVE blocks[i].base_pos + HeaderSize <= p
    BY DEF OutsideHeaders
  <2>1. CASE i = n
    BY <1>4, <2>1
  <2>2. CASE i # n
    <3>1. /\ blocks[i].base_pos \in Nat /\ blocks[i].used \in Nat
          /\ HeaderSize <= blocks[i].used
          /\ blocks[i].base_pos + blocks[i].used <= blocks[n].base_pos
      BY <1>3, <1>5, <2>2
    <3>. QED BY <1>3a, <1>4, <3>1
  <2>. QED BY <2>1, <2>2
<1>7. ASSUME NEW y \in live \ {x}
      PROVE  y.depth <= Len(guards) /\ blocks[y.block].base_pos + y.end <= p
  <2>1. /\ y.depth <= Len(guards) /\ y.block \in 1 .. n /\ y.end <= blocks[y.block].used
        /\ y.start + y.size = y.end /\ y.size # 0
        /\ y.start \in Nat /\ y.size \in Nat /\ y.end \in Nat
    BY DEF IInv, Inv, LiveOK, AllocRecord
  <2>2. CASE y.block = n
    <3>1. Disjoint(x, y)
      BY DEF IInv, Inv, Apart
    <3>2. y.end <= x.start
      BY <1>1, <1>2, <2>1, <2>2, <3>1 DEF Disjoint
    <3>3. p = blocks[y.block].base_pos + x.start /\ blocks[y.block].base_pos \in Nat
      BY <1>1, <1>3a, <2>2
    <3>. QED BY <1>2, <2>1, <3>2, <3>3
  <2>3. CASE y.block # n
    <3>1. /\ blocks[y.block].base_pos \in Nat /\ blocks[y.block].used \in Nat
          /\ blocks[y.block].base_pos + blocks[y.block].used <= blocks[n].base_pos
      BY <1>3, <1>5, <2>1, <2>3
    <3>2. blocks[n].base_pos <= p /\ p \in Nat
      BY <1>3a, <1>4
    <3>3. y.end <= blocks[y.block].used /\ y.end \in Nat /\ y.depth <= Len(guards)
      BY <2>1
    <3>. QED BY <1>3a, <3>1, <3>2, <3>3
  <2>. QED BY <2>2, <2>3
<1>8. ASSUME NEW g \in 1 .. Len(guards) PROVE guards[g] <= p
  <2>1. Len(guards) \in Nat
    BY DEF IInv, Inv, GuardsOK
  <2>2. ~(x.depth < g)
    BY <2>1
  <2>. QED BY <1>1, <2>2 DEF IInv, Inv, Separates
<1>9. Inv(PoppedTo(blocks, p), guards, live \ {x})
  <2>1. guards \in Seq(Nat) /\ Len(guards) <= Len(guards) /\ Inv(blocks, guards, live)
    BY DEF IInv, Inv, GuardsOK
  <2>. QED BY <1>2, <1>4, <1>6, <1>7, <1>8, <2>1, PopInv
<1>10. Shorter(x) = PoppedTo(blocks, p)
  <2>. DEFINE m == CHOOSE i \in 1 .. n :
                     /\ blocks[i].base_pos < p
                     /\ \A j \in i + 1 .. n : blocks[j].base_pos >= p
  <2>1. blocks[n].base_pos < p
    BY <1>2, <1>3, <1>4
  <2>2. ASSUME NEW i \in 1 .. n, \A j \in i + 1 .. n : blocks[j].base_pos >= p PROVE i = n
    BY <1>2, <1>3, <1>4, <2>1, <2>2
  <2>3. \A j \in n + 1 .. n : blocks[j].base_pos >= p
    BY <1>3
  <2>4. m = n
    BY <1>2, <2>1, <2>2, <2>3
  <2>5. PoppedTo(blocks, p) = [SubSeq(blocks, 1, n) EXCEPT ![n].used = p - blocks[n].base_pos]
    BY <2>4 DEF PoppedTo
  <2>6. SubSeq(blocks, 1, n) = blocks
    BY <1>1, <1>3
  <2>7. p - blocks[n].base_pos = blocks[n].used - (x.end - x.start)
    <3>1. p = blocks[n].base_pos + x.start /\ blocks[n].used = x.end
      BY <1>1
    <3>. DEFINE c == blocks[n].base_pos
    <3>2. c \in Nat /\ p = c + x.start
      BY <1>3a, <3>1
    <3>. HIDE DEF c
    <3>3. p - c = x.start
      BY <1>2, <3>2
    <3>4. x.end - (x.end - x.start) = x.start
      BY <1>2
    <3>. QED BY <3>1, <3>3, <3>4 DEF c
  <2>. QED BY <1>1, <2>5, <2>6, <2>7 DEF Shorter
<1>. QED BY <1>2, <1>4, <1>6, <1>9, <1>10

-----------------------------------------------------------------------------
(* The steps *)

LEMMA InitIInv == Init => IInv
BY DEF Init, IInv, Inv, ChainOK, LiveOK, Apart, GuardsOK, Separates

LEMMA AllocHolds == ASSUME Suited, IInv, Alloc PROVE IInv'
<1>. DEFINE b == NewBlock(Commit, Reserve, NoGrowing)
<1>1. BlockOK(b) /\ b.base_pos = 0 /\ b.used = HeaderSize
  BY NewBlockOK DEF Suited
<1>. HIDE DEF b
<1>2. /\ blocks' = <<b>> /\ blocks = <<>> /\ guards' = guards /\ live' = live
      /\ failed' = failed
  BY DEF Alloc, Exists, b
<1>3. guards = <<>> /\ live = {} /\ failed = {}
  BY <1>2 DEF IInv, Inv, LiveOK
<1>4. /\ blocks' \in Seq(BlockRecord) /\ Len(blocks') = 1 /\ blocks'[1] = b
      /\ blocks' # <<>>
  BY <1>1, <1>2 DEF BlockOK
<1>5. ChainOK(blocks')
  <2>1. \A i \in 1 .. 1 : i = 1
    OBVIOUS
  <2>2. \A i \in 1 .. Len(blocks') : BlockOK(blocks'[i]) /\ blocks'[i].base_pos = 0
    BY <1>1, <1>4, <2>1
  <2>3. ASSUME NEW p \in 1 .. Pos(blocks')
        PROVE  \E i \in 1 .. Len(blocks') : Locates(blocks', i, p)
    BY <1>1, <1>4 DEF Locates
  <2>. QED BY <1>4, <2>1, <2>2, <2>3 DEF ChainOK
<1>6. LiveOK(blocks', guards', live') /\ Apart(live') /\ Separates(blocks', guards', live')
  BY <1>2, <1>3 DEF LiveOK, Apart, Separates
<1>7. GuardsOK(blocks', guards')
  BY <1>2, <1>3 DEF GuardsOK
<1>. QED BY <1>2, <1>3, <1>4, <1>5, <1>6, <1>7 DEF IInv, Inv

LEMMA DestroyHolds == ASSUME IInv, Destroy PROVE IInv'
<1>1. /\ blocks' = <<>> /\ guards' = guards /\ guards = <<>> /\ live' = {}
      /\ failed' = {}
  BY DEF IInv, Destroy
<1>. QED BY <1>1 DEF IInv, Inv, ChainOK, LiveOK, Apart, GuardsOK, Separates

\* The client gives something up.
LEMMA SubsetInv ==
  ASSUME NEW bs, NEW gs, NEW lv, Inv(bs, gs, lv), NEW kept, kept \subseteq lv
  PROVE  Inv(bs, gs, kept)
BY DEF Inv, LiveOK, Apart, Separates

LEMMA PushHolds ==
  ASSUME Suited, IInv, NEW size \in Size, NEW a \in Align, Push(size, a)
  PROVE  IInv'
<1>1. /\ blocks # <<>> /\ size \in Nat \ {0} /\ PushOn(blocks, size, a, {})
      /\ guards' = guards /\ live = live \ {} /\ Inv(blocks, guards, live)
  BY DEF Push, Exists, IInv
<1>2. Inv(blocks', guards, live') /\ failed' = failed
  BY <1>1, PushInv
<1>. QED BY <1>1, <1>2 DEF IInv

LEMMA ResizeHolds ==
  ASSUME Suited, IInv, NEW x \in live, MayResize(x), Resize(x)
  PROVE  IInv'
<1>1. x.depth = Len(guards)
  BY DEF MayResize, Suited
<1>. DEFINE p == Last(blocks).base_pos + x.start
<1>2. ASSUME IsLast(x)
      PROVE  /\ Shorter(x) = PoppedTo(blocks, p) /\ Shorter(x) # <<>>
             /\ Inv(Shorter(x), guards, live \ {x})
  <2>1. /\ blocks # <<>> /\ p \in Nat /\ HeaderSize <= p /\ p <= Pos(blocks)
        /\ Shorter(x) = PoppedTo(blocks, p)
        /\ OutsideHeaders(blocks, p)
        /\ Inv(PoppedTo(blocks, p), guards, live \ {x})
    BY <1>1, <1>2, LastAlloc
  <2>2. PoppedTo(blocks, p) # <<>>
    BY <2>1, PopOK DEF IInv, Inv
  <2>. QED BY <2>1, <2>2
<1>3. CASE ResizeToZero(x)
  BY <1>2, <1>3 DEF ResizeToZero, IInv
<1>4. ASSUME NEW size \in Size, NEW a \in Align, ResizeLast(x, size, a) PROVE IInv'
  <2>1. /\ size \in Nat \ {0} /\ PushOn(Shorter(x), size, a, {x}) /\ guards' = guards
        /\ Shorter(x) # <<>> /\ Inv(Shorter(x), guards, live \ {x})
    BY <1>2, <1>4 DEF ResizeLast
  <2>2. Inv(blocks', guards, live') /\ failed' = failed
    BY <2>1, PushInv
  <2>. QED BY <2>1, <2>2 DEF IInv
<1>5. ASSUME NEW size \in Size, NEW a \in Align, ResizeOther(x, size, a) PROVE IInv'
  <2>1. /\ size \in Nat \ {0} /\ PushOn(blocks, size, a, {x}) /\ guards' = guards
    BY <1>5 DEF ResizeOther
  <2>2. Inv(blocks, guards, live \ {x}) /\ blocks # <<>>
    <3>1. blocks # <<>>
      BY DEF IInv, Inv, LiveOK
    <3>. QED BY <3>1, SubsetInv DEF IInv
  <2>3. Inv(blocks', guards, live') /\ failed' = failed
    BY <2>1, <2>2, PushInv
  <2>. QED BY <2>1, <2>3 DEF IInv
<1>. QED BY <1>3, <1>4, <1>5 DEF Resize

LEMMA PopHolds == ASSUME IInv, NEW x \in live, Pop(x) PROVE IInv'
<1>. DEFINE p == Last(blocks).base_pos + x.start
<1>1. /\ IsLast(x) /\ x.depth = Len(guards) /\ PopTo(Pos(blocks) - (x.end - x.start))
      /\ live' = live \ {x} /\ guards' = guards
  BY DEF Pop
<1>2. /\ p \in Nat /\ HeaderSize <= p /\ p <= Pos(blocks)
      /\ p = Pos(blocks) - (x.end - x.start)
      /\ Inv(PoppedTo(blocks, p), guards, live \ {x})
  BY <1>1, LastAlloc
<1>. HIDE DEF p
<1>3. Larger(p, HeaderSize) = p
  BY <1>2 DEF Larger
<1>4. blocks' = PoppedTo(blocks, p) /\ failed' = failed
  BY <1>1, <1>2, <1>3 DEF PopTo
<1>. QED BY <1>1, <1>2, <1>4 DEF IInv

LEMMA ClearHolds == ASSUME IInv, Clear PROVE IInv'
<1>1. blocks # <<>> /\ guards = <<>> /\ guards' = guards /\ live' = {} /\ PopTo(0)
  BY DEF Clear, Exists
<1>2. ChainOK(blocks) /\ Inv(blocks, guards, live)
  BY DEF IInv, Inv
<1>3. /\ Len(blocks) \in Nat \ {0} /\ 1 \in 1 .. Len(blocks)
      /\ \A i \in 1 .. Len(blocks) : /\ blocks[i].base_pos \in Nat /\ blocks[i].used \in Nat
                                     /\ HeaderSize <= blocks[i].used
      /\ Pos(blocks) \in Nat /\ blocks[1].base_pos + blocks[1].used <= Pos(blocks)
  BY <1>1, <1>2, ChainFacts
<1>4. blocks[1].base_pos = 0
  BY <1>2, <1>3 DEF ChainOK
<1>5. HeaderSize <= Pos(blocks) /\ Larger(0, HeaderSize) = HeaderSize
  BY <1>3, <1>4 DEF Larger
<1>6. OutsideHeaders(blocks, HeaderSize)
  <2>. SUFFICES ASSUME NEW i \in 1 .. Len(blocks), blocks[i].base_pos < HeaderSize
                PROVE  blocks[i].base_pos + HeaderSize <= HeaderSize
    BY DEF OutsideHeaders
  <2>1. CASE i = 1
    BY <1>4, <2>1
  <2>2. CASE i # 1
    <3>1. blocks[1].base_pos + blocks[1].used <= blocks[i].base_pos
      BY <1>2, <1>3, <2>2 DEF ChainOK
    <3>2. /\ blocks[1].used \in Nat /\ HeaderSize <= blocks[1].used
          /\ blocks[i].base_pos \in Nat
      BY <1>3
    <3>. QED BY <1>4, <3>1, <3>2
  <2>. QED BY <2>1, <2>2
<1>7. Inv(PoppedTo(blocks, HeaderSize), guards, {})
  <2>1. /\ guards \in Seq(Nat) /\ Len(guards) <= Len(guards)
        /\ \A g \in 1 .. Len(guards) : FALSE
    BY <1>1
  <2>2. HeaderSize \in Nat /\ HeaderSize <= HeaderSize
    OBVIOUS
  <2>3. \A g \in 1 .. Len(guards) : guards[g] = guards[g] /\ guards[g] <= HeaderSize
    BY <2>1
  <2>4. PICK kept \in SUBSET live : kept = {}
    OBVIOUS
  <2>5. \A x \in kept : x.depth <= Len(guards)
                          /\ blocks[x.block].base_pos + x.end <= HeaderSize
    BY <2>4
  <2>6. Inv(PoppedTo(blocks, HeaderSize), guards, kept)
    BY <1>1, <1>2, <1>5, <1>6, <2>1, <2>2, <2>3, <2>5, PopInv
  <2>. QED BY <2>4, <2>6
<1>8. blocks' = PoppedTo(blocks, HeaderSize) /\ failed' = failed
  BY <1>1, <1>5 DEF PopTo
<1>. QED BY <1>1, <1>7, <1>8 DEF IInv

LEMMA TempBeginHolds == ASSUME IInv, TempBegin PROVE IInv'
<1>. DEFINE n == Len(guards)
<1>1. /\ blocks # <<>> /\ guards' = Append(guards, Pos(blocks))
      /\ blocks' = blocks /\ live' = live /\ failed' = failed
  BY DEF TempBegin, Exists
<1>2. /\ ChainOK(blocks) /\ LiveOK(blocks, guards, live) /\ Apart(live)
      /\ GuardsOK(blocks, guards) /\ Separates(blocks, guards, live)
      /\ guards \in Seq(Nat) /\ n \in Nat
  BY DEF IInv, Inv, GuardsOK
<1>3. /\ Pos(blocks) \in Nat
      /\ \A i \in 1 .. Len(blocks) : /\ blocks[i].base_pos \in Nat /\ blocks[i].used \in Nat
                                     /\ HeaderSize <= blocks[i].used
                                     /\ blocks[i].base_pos + blocks[i].used <= Pos(blocks)
      /\ \E i \in 1 .. Len(blocks) : TRUE
  BY <1>1, <1>2, ChainFacts
<1>4. /\ guards' \in Seq(Nat) /\ Len(guards') = n + 1 /\ guards'[n + 1] = Pos(blocks)
      /\ \A g \in 1 .. n : guards'[g] = guards[g]
  BY <1>1, <1>2, <1>3
<1>5. LiveOK(blocks, guards', live)
  <2>. SUFFICES ASSUME NEW x \in live PROVE LiveOK(blocks, guards', {x})
    BY DEF LiveOK
  <2>1. x.depth \in Nat /\ x.depth <= n
    BY <1>2 DEF LiveOK, AllocRecord
  <2>2. x.depth <= Len(guards')
    BY <1>2, <1>4, <2>1
  <2>. QED BY <1>2, <2>2 DEF LiveOK
<1>6. HeaderSize <= Pos(blocks) /\ OutsideHeaders(blocks, Pos(blocks))
  <2>1. ASSUME NEW i \in 1 .. Len(blocks)
        PROVE  /\ blocks[i].base_pos + HeaderSize <= Pos(blocks)
               /\ HeaderSize <= Pos(blocks)
    <3>1. /\ blocks[i].base_pos \in Nat /\ blocks[i].used \in Nat
          /\ HeaderSize <= blocks[i].used
          /\ blocks[i].base_pos + blocks[i].used <= Pos(blocks)
      BY <1>3
    <3>. QED BY <1>3, <3>1
  <2>. QED BY <1>3, <2>1 DEF OutsideHeaders
<1>7. GuardsOK(blocks, guards')
  <2>. SUFFICES ASSUME NEW g \in 1 .. n + 1
                PROVE  /\ HeaderSize <= guards'[g] /\ guards'[g] <= Pos(blocks)
                       /\ OutsideHeaders(blocks, guards'[g])
                       /\ \A h \in g .. n + 1 : guards'[g] <= guards'[h]
    BY <1>4 DEF GuardsOK
  <2>1. CASE g = n + 1
    BY <1>2, <1>3, <1>4, <1>6, <2>1
  <2>2. CASE g # n + 1
    <3>1. g \in 1 .. n /\ guards'[g] = guards[g]
      BY <1>2, <1>4, <2>2
    <3>2. /\ HeaderSize <= guards[g] /\ guards[g] <= Pos(blocks)
          /\ OutsideHeaders(blocks, guards[g])
          /\ \A h \in g .. n : guards[g] <= guards[h]
      BY <1>2, <3>1 DEF GuardsOK
    <3>3. ASSUME NEW h \in g .. n + 1 PROVE guards'[g] <= guards'[h]
      <4>1. CASE h = n + 1
        BY <1>4, <3>1, <3>2, <4>1
      <4>2. CASE h # n + 1
        <5>1. h \in g .. n /\ h \in 1 .. n
          BY <1>2, <3>1, <4>2
        <5>. QED BY <1>4, <3>1, <3>2, <5>1
      <4>. QED BY <4>1, <4>2
    <3>. QED BY <3>1, <3>2, <3>3
  <2>. QED BY <2>1, <2>2
<1>8. Separates(blocks, guards', live)
  <2>. SUFFICES ASSUME NEW g \in 1 .. n + 1, NEW x \in live
                PROVE  IF x.depth < g THEN blocks[x.block].base_pos + x.end <= guards'[g]
                                      ELSE guards'[g] <= blocks[x.block].base_pos + x.start
    BY <1>4 DEF Separates
  <2>1. CASE g = n + 1
    <3>1. /\ x.depth \in Nat /\ x.depth <= n /\ x.block \in 1 .. Len(blocks)
          /\ x.end \in Nat /\ x.end <= blocks[x.block].used
      BY <1>2 DEF LiveOK, AllocRecord
    <3>2. /\ blocks[x.block].base_pos \in Nat /\ blocks[x.block].used \in Nat
          /\ blocks[x.block].base_pos + blocks[x.block].used <= Pos(blocks)
      BY <1>3, <3>1
    <3>3. x.depth < g /\ blocks[x.block].base_pos + x.end <= Pos(blocks)
      <4>1. Pos(blocks) \in Nat /\ n \in Nat
        BY <1>2, <1>3
      <4>. HIDE DEF n
      <4>2. x.depth < g
        BY <2>1, <3>1, <4>1
      <4>. QED BY <3>1, <3>2, <4>1, <4>2
    <3>. QED BY <1>4, <2>1, <3>3
  <2>2. CASE g # n + 1
    <3>1. g \in 1 .. n /\ guards'[g] = guards[g]
      BY <1>2, <1>4, <2>2
    <3>. QED BY <1>2, <3>1 DEF Separates
  <2>. QED BY <2>1, <2>2
<1>. QED BY <1>1, <1>2, <1>5, <1>7, <1>8 DEF IInv, Inv

LEMMA TempEndHolds ==
  ASSUME IInv, TempEnd
  PROVE  IInv' /\ Pos(blocks') = guards[Len(guards)]
<1>. DEFINE n    == Len(guards)
            p    == guards[n]
            hs   == SubSeq(guards, 1, n - 1)
            kept == {x \in live : x.depth < n}
<1>1. guards # <<>> /\ PopTo(p) /\ live' = kept /\ guards' = hs
  BY DEF TempEnd
<1>2. /\ Inv(blocks, guards, live) /\ guards \in Seq(Nat) /\ n \in Nat /\ n \in 1 .. n
      /\ blocks # <<>> /\ GuardsOK(blocks, guards)
  BY <1>1 DEF IInv, Inv, GuardsOK
<1>3. /\ p \in Nat /\ HeaderSize <= p /\ p <= Pos(blocks) /\ OutsideHeaders(blocks, p)
      /\ \A g \in 1 .. n : guards[g] <= p
  BY <1>2 DEF GuardsOK
<1>4. /\ hs \in Seq(Nat) /\ Len(hs) = n - 1 /\ Len(hs) <= n
      /\ \A g \in 1 .. Len(hs) : hs[g] = guards[g] /\ guards[g] <= p
  <2>1. hs \in Seq(Nat) /\ Len(hs) = n - 1 /\ \A g \in 1 .. n - 1 : hs[g] = guards[g]
    <3>1. PICK m \in Nat : m = n - 1
      BY <1>2
    <3>2. m <= Len(guards)
      BY <1>2, <3>1
    <3>3. /\ SubSeq(guards, 1, m) \in Seq(Nat) /\ Len(SubSeq(guards, 1, m)) = m
          /\ \A g \in 1 .. m : SubSeq(guards, 1, m)[g] = guards[g]
      BY <1>2, <3>2
    <3>. QED BY <3>1, <3>3
  <2>. HIDE DEF hs, p
  <2>2. \A g \in 1 .. n - 1 : g \in 1 .. n
    BY <1>2
  <2>3. n - 1 <= n
    BY <1>2
  <2>. QED BY <1>3, <2>1, <2>2, <2>3
<1>5. ASSUME NEW x \in kept PROVE x.depth <= Len(hs) /\ blocks[x.block].base_pos + x.end <= p
  <2>1. x.depth \in Nat /\ x.depth < n /\ x \in live
    BY DEF IInv, Inv, LiveOK, AllocRecord
  <2>2. x.depth <= Len(hs)
    BY <1>2, <1>4, <2>1
  <2>3. blocks[x.block].base_pos + x.end <= p
    BY <1>2, <2>1 DEF Inv, Separates
  <2>. QED BY <2>2, <2>3
<1>6. Larger(p, HeaderSize) = p
  BY <1>3 DEF Larger
<1>. HIDE DEF p, hs
<1>7. blocks' = PoppedTo(blocks, p) /\ failed' = failed
  BY <1>1, <1>3, <1>6 DEF PopTo
<1>8. Inv(PoppedTo(blocks, p), hs, kept) /\ Pos(PoppedTo(blocks, p)) = p
  <2>1. kept \subseteq live
    OBVIOUS
  <2>. HIDE DEF kept
  <2>2. \A x \in kept : x.depth <= Len(hs) /\ blocks[x.block].base_pos + x.end <= p
    BY <1>5
  <2>3. Len(hs) <= Len(guards) /\ hs \in Seq(Nat)
    BY <1>4
  <2>4. \A g \in 1 .. Len(hs) : hs[g] = guards[g] /\ guards[g] <= p
    BY <1>4
  <2>5. p \in Nat /\ HeaderSize <= p /\ p <= Pos(blocks) /\ OutsideHeaders(blocks, p)
    BY <1>3
  <2>6. Inv(blocks, guards, live) /\ blocks # <<>>
    BY <1>2
  <2>. QED BY <2>1, <2>2, <2>3, <2>4, <2>5, <2>6, PopInv
<1>. QED BY <1>1, <1>7, <1>8 DEF IInv, p

LEMMA NextIInv == ASSUME Suited, IInv, [Next]_vars PROVE IInv'
<1>1. CASE UNCHANGED vars
  BY <1>1 DEF vars, IInv
<1>. QED BY <1>1, AllocHolds, DestroyHolds, PushHolds, ResizeHolds, PopHolds, ClearHolds,
            TempBeginHolds, TempEndHolds DEF Next

LEMMA IInvHolds == ASSUME Suited PROVE Spec => []IInv
BY InitIInv, NextIInv, PTL DEF Spec

-----------------------------------------------------------------------------
(* The theorems *)

\* The records of the chain, the guards and the allocations have their types.
THEOREM TypeCorrect == ASSUME Suited PROVE Spec => []TypeOK
<1>1. IInv => TypeOK
  BY DEF IInv, Inv, ChainOK, LiveOK, GuardsOK, TypeOK
<1>. QED BY <1>1, IInvHolds, PTL

\* Whatever is pushed, popped, resized and guarded, headers stay, blocks lie
\* one behind the other, and what is used is committed.
THEOREM ChainStaysIntact == ASSUME Suited PROVE Spec => []ChainIntact
<1>1. IInv => ChainIntact
  BY DEF IInv, Inv, ChainOK, BlockOK, ChainIntact
<1>. QED BY <1>1, IInvHolds, PTL

\* What the client uses is in used memory, aligned, as long as asked for and
\* its own, for every size of page, header and allocation.
THEOREM LiveStaysSafe == ASSUME Suited PROVE Spec => []LiveMemorySafe
<1>1. IInv => LiveMemorySafe
  BY DEF IInv, Inv, LiveOK, Apart, LiveMemorySafe
<1>. QED BY <1>1, IInvHolds, PTL

\* An open guard separates what was there before it from what came since.
THEOREM GuardsStaySeparate == ASSUME Suited PROVE Spec => []GuardsSeparate
<1>1. IInv => GuardsSeparate
  BY DEF IInv, Inv, GuardsOK, Separates, GuardsSeparate, At
<1>. QED BY <1>1, IInvHolds, PTL

\* The assert of _arena_push_aligned_non_zeroed never fails, provided the
\* alignments divide the size of the header: a new block has room for what
\* it was made for.
THEOREM PushesFit == ASSUME Suited PROVE Spec => []PushEndsInBlock
<1>1. IInv => PushEndsInBlock
  BY DEF IInv, PushEndsInBlock
<1>. QED BY <1>1, IInvHolds, PTL

\* The assert of arena_pop_to never fails, provided only what the innermost
\* guard owns is resized: a guard is never left above the end of the arena.
THEOREM PopsGoBack == ASSUME Suited PROVE Spec => []PopsBackwards
<1>1. IInv => PopsBackwards
  BY DEF IInv, PopsBackwards
<1>. QED BY <1>1, IInvHolds, PTL

\* The end of a guard takes the arena back to the position where the guard
\* began, whatever blocks were added since.
THEOREM GuardsRestore == ASSUME Suited PROVE Spec => GuardRestores
<1>. DEFINE Restores == guards # <<>> /\ Len(guards') < Len(guards)
                          => Pos(blocks') = guards[Len(guards)]
<1>1. ASSUME IInv, [Next]_vars PROVE [Restores]_vars
  <2>1. guards \in Seq(Nat) /\ Len(guards) \in Nat
    BY <1>1 DEF IInv, Inv, GuardsOK
  <2>2. CASE TempEnd
    BY <1>1, <2>2, TempEndHolds
  <2>3. CASE TempBegin
    <3>1. Len(guards') = Len(guards) + 1
      BY <2>1, <2>3 DEF TempBegin
    <3>. QED BY <2>1, <3>1
  <2>4. CASE guards' = guards
    BY <2>1, <2>4
  <2>5. TempEnd \/ TempBegin \/ guards' = guards
    BY <1>1 DEF Next, vars, Alloc, Destroy, Push, Resize, ResizeToZero, ResizeLast,
                ResizeOther, Pop, Clear
  <2>. QED BY <2>2, <2>3, <2>4, <2>5
<1>. QED BY <1>1, IInvHolds, PTL DEF Spec, GuardRestores
=============================================================================
