--------------------------- MODULE BinExprProofs ----------------------------
(***************************************************************************)
(* Proofs about BinExpr and the readers it uses, for every input and every *)
(* size of the first chunks.                                               *)
(***************************************************************************)
EXTENDS BinExpr, TLAPS, SequenceTheorems, FiniteSetTheorems, WellFoundedInduction,
        NaturalsInduction

\* The names of the fields, and the fields.
Names ==
  Records \cup {"u32", "b8", "name", "value_type", "element_type", "external_kind",
                "import_kind", "limits", "func_type", "magic", "version", "sections"}
FieldSet == {<<n>> : n \in Names \cup {"expr"}} \cup {<<"vec", n>> : n \in Names}

\* The range of an error in a scope.
Ranged(d, n) == d[1] <= d[2] /\ d[2] <= n

\* What every reader leaves of n bytes that it reads from c on.
Outcome(r, c, n) ==
  /\ r = [ok |-> r.ok, curr |-> r.curr, more |-> r.more, diags |-> r.diags]
  /\ r.ok \in BOOLEAN
  /\ r.curr \in c .. n
  /\ r.more \in Seq(FieldSet)
  /\ \A d \in r.diags : Ranged(d, n)

\* A reader that fails says why, and one that does not has nothing to say.
Honest(r) == r.ok <=> r.diags = {}

-----------------------------------------------------------------------------
(* The invariant *)

Chunk     == [end : Nat, stale : BOOLEAN]
MemRecord == [used : Nat, chunks : [{"inst", "extra"} -> Seq(Chunk)], wild : BOOLEAN]

\* The end of the first chunks, which the sentinels allocate.
Base == InstChunk + ExtraChunk

\* The first chunk of a list of n elements is the list's, and it is the only
\* one as long as it is large enough.
ListOK(chunks, first, n) ==
  /\ chunks # <<>>
  /\ ~chunks[1].stale
  /\ chunks[1].end <= Base
  /\ n <= first => Len(chunks) = 1

\* The memory of lists of ni and ne elements.
MemOK(m, ni, ne) ==
  /\ m \in MemRecord
  /\ Base <= m.used
  /\ ListOK(m.chunks["inst"], InstChunk, ni)
  /\ ListOK(m.chunks["extra"], ExtraChunk, ne)
  /\ m.wild => ni > InstChunk \/ ne > ExtraChunk

\* The outermost call is that of the expression; calls started at most at
\* offset c, and with the first chunks in place.
CallsOK(calls, c) ==
  \A k \in 1 .. Len(calls) :
    /\ calls[k].kind = "top" <=> k = 1
    /\ calls[k].anchor <= c
    /\ Base <= calls[k].mark

Instruction == [op : 0 .. 255, extra : Nat]
Extra       == {"sentinel", "word", "type", "inst"} \X Nat

\* Instructions point into extras of n elements.
PointInto(list, n) == \A k \in 1 .. Len(list) : list[k].extra < n

Types ==
  /\ data \in Seq(0 .. 255)
  /\ curr \in 0 .. Len(data)
  /\ \A d \in diags : Ranged(d, Len(data))
  /\ todo \in Seq(FieldSet)
  /\ pc \in {"fields", "opcode", "operands", "return", "done", "panicked"}
  /\ ok \in BOOLEAN
  /\ frames \in Seq(FrameRecord)
  /\ instructions \in Seq(Instruction)
  /\ extras \in Seq(Extra)
  /\ PointInto(instructions, Len(extras))
  /\ mem \in MemRecord

\* No error so far, and no expression.
InFields == ok = TRUE /\ diags = {} /\ frames = <<>> /\ instructions = <<>> /\ mem = NoMem

InExpr ==
  /\ frames # <<>>
  /\ CallsOK(frames, curr)
  /\ instructions # <<>>
  /\ extras # <<>>
  /\ MemOK(mem, Len(instructions), Len(extras))

\* The inductive invariant.
EInv ==
  /\ Types
  /\ pc = "fields" => InFields
  /\ pc \in {"opcode", "operands", "return", "panicked"} => InExpr
  /\ pc = "done" => ErrorsReported /\ FirstChunksOwned

-----------------------------------------------------------------------------
(* The byte readers *)

LEMMA OutcomeOf ==
  ASSUME NEW n \in Nat, NEW c \in Nat
  PROVE  /\ \A e \in c .. n, more \in Seq(FieldSet) :
              Outcome(Got(e, more), c, n) /\ Honest(Got(e, more))
         /\ \A e \in c .. n, lo, hi \in 0 .. n :
              lo <= hi => Outcome(Fail(e, lo, hi), c, n) /\ Honest(Fail(e, lo, hi))
<1>1. <<>> \in Seq(FieldSet)
  OBVIOUS
<1>2. ASSUME NEW e \in c .. n, NEW more \in Seq(FieldSet)
      PROVE  Outcome(Got(e, more), c, n) /\ Honest(Got(e, more))
  BY DEF Outcome, Honest, Got
<1>3. ASSUME NEW e \in c .. n, NEW lo \in 0 .. n, NEW hi \in 0 .. n, lo <= hi
      PROVE  Outcome(Fail(e, lo, hi), c, n) /\ Honest(Fail(e, lo, hi))
  <2>. DEFINE r == Fail(e, lo, hi)
  <2>1. /\ r = [ok |-> r.ok, curr |-> r.curr, more |-> r.more, diags |-> r.diags]
        /\ r.ok = FALSE /\ r.curr = e /\ r.more = <<>> /\ r.diags = {<<lo, hi>>}
    BY DEF Fail
  <2>. HIDE DEF r
  <2>2. r.diags # {} /\ \A d \in r.diags : Ranged(d, n)
    BY <1>3, <2>1 DEF Ranged
  <2>3. Outcome(r, c, n) /\ Honest(r)
    BY <1>1, <2>1, <2>2 DEF Outcome, Honest
  <2>. QED BY <2>3 DEF r
<1>. QED BY <1>2, <1>3

\* A reader that starts where another has stopped.
LEMMA OutcomeFrom ==
  ASSUME NEW n \in Nat, NEW c \in Nat, NEW e \in Nat, c <= e, NEW r, Outcome(r, e, n)
  PROVE  Outcome(r, c, n)
BY DEF Outcome

LEMMA ReadByteOutcome ==
  ASSUME NEW d \in Seq(0 .. 255), NEW c \in 0 .. Len(d)
  PROVE  /\ Outcome(ReadByte(d, c), c, Len(d))
         /\ Honest(ReadByte(d, c))
         /\ ReadByte(d, c).ok => c < Len(d) /\ ReadByte(d, c).curr = c + 1 /\ ByteAt(d, c) \in 0 .. 255
         /\ ReadByte(d, c).more = <<>>
<1>. DEFINE n == Len(d)
<1>1. n \in Nat /\ c \in Nat /\ c \in c .. n /\ c \in 0 .. n /\ <<>> \in Seq(FieldSet)
  OBVIOUS
<1>2. CASE c < n
  <2>1. ReadByte(d, c) = Got(c + 1, <<>>) /\ c + 1 \in c .. n /\ c + 1 \in 1 .. Len(d)
    BY <1>1, <1>2 DEF ReadByte, DataLeft
  <2>2. ByteAt(d, c) \in 0 .. 255
    BY <2>1, ElementOfSeq DEF ByteAt
  <2>3. Outcome(ReadByte(d, c), c, n) /\ Honest(ReadByte(d, c))
    BY <1>1, <2>1, OutcomeOf
  <2>. QED BY <1>2, <2>1, <2>2, <2>3 DEF Got
<1>3. CASE ~(c < n)
  <2>1. ReadByte(d, c) = Fail(c, c, c)
    BY <1>1, <1>3 DEF ReadByte, DataLeft
  <2>2. Outcome(ReadByte(d, c), c, n) /\ Honest(ReadByte(d, c))
    BY <1>1, <2>1, OutcomeOf
  <2>. QED BY <2>1, <2>2 DEF Fail
<1>. QED BY <1>2, <1>3

LEMMA ReadBytesOutcome ==
  ASSUME NEW d \in Seq(0 .. 255), NEW c \in 0 .. Len(d), NEW count \in Nat
  PROVE  /\ Outcome(ReadBytes(d, c, count), c, Len(d))
         /\ Honest(ReadBytes(d, c, count))
         /\ ReadBytes(d, c, count).ok => c + count <= Len(d)
<1>. DEFINE n == Len(d)
<1>1. n \in Nat /\ c \in Nat /\ c \in c .. n /\ c \in 0 .. n /\ n \in 0 .. n /\ c <= n
      /\ <<>> \in Seq(FieldSet)
  OBVIOUS
<1>2. CASE count <= DataLeft(d, c)
  <2>1. ReadBytes(d, c, count) = Got(c + count, <<>>) /\ c + count \in c .. n
    BY <1>1, <1>2 DEF ReadBytes, DataLeft
  <2>2. c + count <= n
    BY <2>1
  <2>. HIDE DEF n
  <2>. QED BY <1>1, <2>1, <2>2, OutcomeOf DEF n
<1>3. CASE ~(count <= DataLeft(d, c))
  <2>1. ReadBytes(d, c, count) = Fail(c, c, n)
    BY <1>3 DEF ReadBytes
  <2>2. ~Fail(c, c, n).ok
    BY DEF Fail
  <2>. QED BY <1>1, <2>1, <2>2, OutcomeOf
<1>. QED BY <1>2, <1>3

LEMMA MinIs ==
  ASSUME NEW S \in SUBSET Nat, S # {}
  PROVE  Min(S) \in S /\ \A y \in S : Min(S) <= y
<1>1. IsWellFoundedOn(OpToRel(<, Nat), Nat)
  BY NatLessThanWellFounded
<1>2. \E x \in S : \A y \in S : ~(<<y, x>> \in OpToRel(<, Nat))
  BY <1>1, WFMin
<1>3. \A x, y \in Nat : <<y, x>> \in OpToRel(<, Nat) <=> y < x
  BY DEF OpToRel
<1>4. \E x \in S : \A y \in S : ~(y < x)
  BY <1>2, <1>3, Zenon
<1>5. \E x \in S : \A y \in S : x <= y
  BY <1>4, SMT
<1>. QED BY <1>5, Zenon DEF Min

LEMMA LebSizeIs ==
  ASSUME NEW d \in Seq(0 .. 255), NEW c \in 0 .. Len(d)
  PROVE  /\ LebSize(d, c) \in 0 .. Len(d) - c
         /\ \A k \in 1 .. LebSize(d, c) : d[c + k] \in 0 .. 255
<1>. DEFINE ends == {n \in 1 .. DataLeft(d, c) : d[c + n] < 128}
<1>1. ends \in SUBSET Nat /\ LebSize(d, c) = IF ends = {} THEN 0 ELSE Min(ends)
  BY DEF LebSize
<1>2. ends # {} => Min(ends) \in ends
  <2>. HIDE DEF ends
  <2>. QED BY <1>1, MinIs
<1>3. LebSize(d, c) \in 0 .. Len(d) - c
  BY <1>1, <1>2 DEF DataLeft
<1>4. \A k \in 1 .. LebSize(d, c) : c + k \in 1 .. Len(d)
  BY <1>3
<1>5. \A k \in 1 .. LebSize(d, c) : d[c + k] \in 0 .. 255
  BY <1>4, ElementOfSeq
<1>. QED BY <1>3, <1>5

LEMMA ReadLebOutcome ==
  ASSUME NEW d \in Seq(0 .. 255), NEW c \in 0 .. Len(d), NEW bits
  PROVE  /\ Outcome(ReadULeb(d, c, bits), c, Len(d)) /\ Honest(ReadULeb(d, c, bits))
         /\ Outcome(ReadILeb(d, c, bits), c, Len(d)) /\ Honest(ReadILeb(d, c, bits))
         /\ ReadULeb(d, c, bits).ok => LebSize(d, c) # 0
<1>. DEFINE n == Len(d)
            s == LebSize(d, c)
<1>1. n \in Nat /\ c \in Nat /\ c \in c .. n /\ c \in 0 .. n /\ <<>> \in Seq(FieldSet)
  OBVIOUS
<1>2. c + s \in c .. n
  BY LebSizeIs
<1>3. Outcome(Got(c + s, <<>>), c, n) /\ Honest(Got(c + s, <<>>))
  BY <1>1, <1>2, OutcomeOf
<1>4. Outcome(Fail(c, c, c), c, n) /\ Honest(Fail(c, c, c))
  BY <1>1, OutcomeOf
<1>5. \/ ReadULeb(d, c, bits) = Got(c + s, <<>>) /\ s # 0
      \/ ReadULeb(d, c, bits) = Fail(c, c, c)
  BY DEF ReadULeb
<1>6. ReadILeb(d, c, bits) = Got(c + s, <<>>) \/ ReadILeb(d, c, bits) = Fail(c, c, c)
  BY DEF ReadILeb
<1>7. ~Fail(c, c, c).ok
  BY DEF Fail
<1>. HIDE DEF n, s
<1>. QED BY <1>3, <1>4, <1>5, <1>6, <1>7, Zenon DEF n, s

\* The length in front of a name or vector.
LEMMA ULebValueIs ==
  ASSUME NEW d \in Seq(0 .. 255), NEW c \in 0 .. Len(d), NEW bits, ReadULeb(d, c, bits).ok
  PROVE  ULebValue(d, c) \in Nat
<1>. DEFINE s == LebSize(d, c)
            digit(k) == IF k <= s THEN d[c + k] % 128 ELSE 0
<1>1. s \in Nat /\ \A k \in 1 .. s : d[c + k] \in 0 .. 255
  BY LebSizeIs
<1>2. ASSUME NEW k \in 1 .. 5 PROVE digit(k) \in Nat
  <2>1. \A b \in 0 .. 255 : b % 128 \in Nat
    OBVIOUS
  <2>2. k <= s => k \in 1 .. s
    BY <1>1
  <2>. HIDE DEF s
  <2>3. k <= s => d[c + k] % 128 \in Nat
    BY <1>1, <2>1, <2>2, Zenon
  <2>4. 0 \in Nat
    OBVIOUS
  <2>. QED BY <2>3, <2>4, Zenon
<1>3. digit(1) \in Nat /\ digit(2) \in Nat /\ digit(3) \in Nat /\ digit(4) \in Nat /\ digit(5) \in Nat
  BY <1>2
<1>4. ULebValue(d, c) = digit(1) + 128 * (digit(2) + 128 * (digit(3) + 128 * (digit(4) + 128 * digit(5))))
  BY DEF ULebValue
<1>. HIDE DEF digit
<1>. QED BY <1>3, <1>4

LEMMA CountIs ==
  ASSUME NEW a \in Nat, NEW b \in Nat
  PROVE  Min({a, b}) \in Nat
<1>1. {a, b} \in SUBSET Nat /\ {a, b} # {}
  OBVIOUS
<1>. QED BY <1>1, MinIs

LEMMA ExceptMore ==
  ASSUME NEW n \in Nat, NEW c \in Nat, NEW r, Outcome(r, c, n), NEW more \in Seq(FieldSet)
  PROVE  /\ Outcome([r EXCEPT !.more = more], c, n)
         /\ Honest(r) => Honest([r EXCEPT !.more = more])
<1>. DEFINE q == [r EXCEPT !.more = more]
<1>1. r = [ok |-> r.ok, curr |-> r.curr, more |-> r.more, diags |-> r.diags]
  BY DEF Outcome
<1>2. q = [ok |-> r.ok, curr |-> r.curr, more |-> more, diags |-> r.diags]
  BY <1>1
<1>3. q.ok = r.ok /\ q.curr = r.curr /\ q.more = more /\ q.diags = r.diags
  BY <1>2
<1>4. q = [ok |-> q.ok, curr |-> q.curr, more |-> q.more, diags |-> q.diags]
  BY <1>2, <1>3
<1>. HIDE DEF q
<1>5. Outcome(q, c, n) /\ (Honest(r) => Honest(q))
  BY <1>3, <1>4 DEF Outcome, Honest
<1>. QED BY <1>5 DEF q

LEMMA ExceptDiags ==
  ASSUME NEW n \in Nat, NEW c \in Nat, NEW r, Outcome(r, c, n),
         NEW E, \A e \in E : Ranged(e, n)
  PROVE  /\ Outcome([r EXCEPT !.diags = E], c, n)
         /\ [r EXCEPT !.diags = E].ok = r.ok
         /\ [r EXCEPT !.diags = E].diags = E
<1>. DEFINE q == [r EXCEPT !.diags = E]
<1>1. r = [ok |-> r.ok, curr |-> r.curr, more |-> r.more, diags |-> r.diags]
  BY DEF Outcome
<1>2. q = [ok |-> r.ok, curr |-> r.curr, more |-> r.more, diags |-> E]
  BY <1>1
<1>3. q.ok = r.ok /\ q.curr = r.curr /\ q.more = r.more /\ q.diags = E
  BY <1>2
<1>4. q = [ok |-> q.ok, curr |-> q.curr, more |-> q.more, diags |-> q.diags]
  BY <1>2, <1>3
<1>. HIDE DEF q
<1>5. Outcome(q, c, n)
  BY <1>3, <1>4 DEF Outcome
<1>. QED BY <1>3, <1>5 DEF q

LEMMA ReadEnumOutcome ==
  ASSUME NEW d \in Seq(0 .. 255), NEW c \in 0 .. Len(d), NEW lo, NEW hi
  PROVE  /\ Outcome(ReadEnum(d, c, lo, hi), c, Len(d))
         /\ Honest(ReadEnum(d, c, lo, hi))
         /\ ReadEnum(d, c, lo, hi).ok => ByteAt(d, c) \in lo .. hi
<1>. DEFINE n == Len(d)
            read == ReadByte(d, c)
<1>1. /\ Outcome(read, c, n) /\ Honest(read)
      /\ read.ok => c < n
  BY ReadByteOutcome
<1>2. CASE read.ok /\ ByteAt(d, c) \notin lo .. hi
  <2>1. ReadEnum(d, c, lo, hi) = Fail(c + 1, c, c + 1)
    BY <1>2 DEF ReadEnum
  <2>2. n \in Nat /\ c \in Nat /\ c + 1 \in c .. n /\ c \in 0 .. n /\ c + 1 \in 0 .. n /\ c <= c + 1
    BY <1>1, <1>2
  <2>3. ~Fail(c + 1, c, c + 1).ok
    BY DEF Fail
  <2>. HIDE DEF n
  <2>4. Outcome(Fail(c + 1, c, c + 1), c, n) /\ Honest(Fail(c + 1, c, c + 1))
    BY <2>2, OutcomeOf
  <2>. QED BY <2>1, <2>3, <2>4 DEF n
<1>3. CASE ~(read.ok /\ ByteAt(d, c) \notin lo .. hi)
  <2>1. ReadEnum(d, c, lo, hi) = read
    BY <1>3 DEF ReadEnum
  <2>. HIDE DEF read
  <2>. QED BY <1>1, <1>3, <2>1
<1>. QED BY <1>2, <1>3

LEMMA ReadNameOutcome ==
  ASSUME NEW d \in Seq(0 .. 255), NEW c \in 0 .. Len(d)
  PROVE  Outcome(ReadName(d, c), c, Len(d)) /\ Honest(ReadName(d, c))
<1>. DEFINE n == Len(d)
            size == ReadULeb(d, c, 32)
            read == ReadBytes(d, size.curr, ULebValue(d, c))
<1>1. Outcome(size, c, n) /\ Honest(size)
  BY ReadLebOutcome
<1>2. size.curr \in 0 .. n /\ c <= size.curr
  BY <1>1 DEF Outcome
<1>3. ReadName(d, c) = IF size.ok THEN read ELSE size
  BY DEF ReadName
<1>4. CASE size.ok
  <2>1. ULebValue(d, c) \in Nat
    BY <1>4, ULebValueIs
  <2>. HIDE DEF size
  <2>2. Outcome(read, size.curr, n) /\ Honest(read)
    BY <1>2, <2>1, ReadBytesOutcome
  <2>3. n \in Nat /\ c \in Nat /\ size.curr \in Nat
    BY <1>2
  <2>. HIDE DEF n, read
  <2>4. Outcome(read, c, n)
    BY <1>2, <2>2, <2>3, OutcomeFrom
  <2>. QED BY <1>3, <1>4, <2>2, <2>4 DEF n
<1>5. CASE ~size.ok
  <2>. HIDE DEF size, read
  <2>. QED BY <1>1, <1>3, <1>5
<1>. QED BY <1>4, <1>5

-----------------------------------------------------------------------------
(* The fields *)

LEMMA NamesIn ==
  /\ {"import", "table", "global", "export", "element", "data", "local", "code", "module"}
       \subseteq Names
  /\ {"u32", "b8", "name", "value_type", "element_type", "external_kind", "import_kind",
      "limits", "func_type", "magic", "version", "sections"} \subseteq Names
BY DEF Names, Records

LEMMA FieldIn ==
  /\ \A x \in Names : <<x>> \in FieldSet /\ <<"vec", x>> \in FieldSet
  /\ <<"expr">> \in FieldSet
BY DEF FieldSet

LEMMA OneField ==
  ASSUME NEW x \in FieldSet
  PROVE  <<x>> \in Seq(FieldSet) /\ \A y \in FieldSet : <<x, y>> \in Seq(FieldSet)
OBVIOUS

LEMMA ThreeFields ==
  ASSUME NEW x \in FieldSet, NEW y \in FieldSet, NEW z \in FieldSet
  PROVE  <<x, y, z>> \in Seq(FieldSet)
OBVIOUS

LEMMA ReadVecOutcome ==
  ASSUME NEW d \in Seq(0 .. 255), NEW c \in 0 .. Len(d), NEW x \in FieldSet
  PROVE  Outcome(ReadVec(d, c, x), c, Len(d)) /\ Honest(ReadVec(d, c, x))
<1>. DEFINE n == Len(d)
            size == ReadULeb(d, c, 32)
            count == Min({ULebValue(d, c), DataLeft(d, c) + 1})
            more == [i \in 1 .. count |-> x]
<1>1. Outcome(size, c, n) /\ Honest(size) /\ n \in Nat /\ c \in Nat
  BY ReadLebOutcome
<1>2. ReadVec(d, c, x) = IF size.ok THEN [size EXCEPT !.more = more] ELSE size
  BY DEF ReadVec
<1>3. CASE size.ok
  <2>1. ULebValue(d, c) \in Nat
    BY <1>3, ULebValueIs
  <2>2. DataLeft(d, c) + 1 \in Nat
    BY DEF DataLeft
  <2>3. count \in Nat
    BY <2>1, <2>2, CountIs
  <2>4. more \in Seq(FieldSet)
    <3>. HIDE DEF count
    <3>. QED BY <2>3
  <2>. HIDE DEF size, more, n
  <2>5. Outcome([size EXCEPT !.more = more], c, n) /\ Honest([size EXCEPT !.more = more])
    BY <1>1, <2>4, ExceptMore
  <2>. QED BY <1>2, <1>3, <2>5 DEF n
<1>4. CASE ~size.ok
  <2>. HIDE DEF size, more
  <2>. QED BY <1>1, <1>2, <1>4
<1>. QED BY <1>3, <1>4

LEMMA ReadLimitsOutcome ==
  ASSUME NEW d \in Seq(0 .. 255), NEW c \in 0 .. Len(d)
  PROVE  Outcome(ReadLimits(d, c), c, Len(d)) /\ Honest(ReadLimits(d, c))
<1>. DEFINE n == Len(d)
            kind == ReadEnum(d, c, 0, 1)
            more == [i \in 1 .. 1 + ByteAt(d, c) |-> <<"u32">>]
<1>1. Outcome(kind, c, n) /\ Honest(kind) /\ n \in Nat /\ c \in Nat
  BY ReadEnumOutcome
<1>2. ReadLimits(d, c) = IF kind.ok THEN [kind EXCEPT !.more = more] ELSE kind
  BY DEF ReadLimits
<1>3. CASE kind.ok
  <2>1. ByteAt(d, c) \in 0 .. 1
    BY <1>3, ReadEnumOutcome
  <2>2. 1 + ByteAt(d, c) \in Nat
    BY <2>1
  <2>3. <<"u32">> \in FieldSet
    BY NamesIn, FieldIn
  <2>4. more \in Seq(FieldSet)
    BY <2>2, <2>3
  <2>. HIDE DEF kind, more, n
  <2>5. Outcome([kind EXCEPT !.more = more], c, n) /\ Honest([kind EXCEPT !.more = more])
    BY <1>1, <2>4, ExceptMore
  <2>. QED BY <1>2, <1>3, <2>5 DEF n
<1>4. CASE ~kind.ok
  <2>. HIDE DEF kind, more
  <2>. QED BY <1>1, <1>2, <1>4
<1>. QED BY <1>3, <1>4

LEMMA ReadFuncTypeOutcome ==
  ASSUME NEW d \in Seq(0 .. 255), NEW c \in 0 .. Len(d)
  PROVE  Outcome(ReadFuncType(d, c), c, Len(d)) /\ Honest(ReadFuncType(d, c))
<1>. DEFINE n == Len(d)
            tag == ReadEnum(d, c, 96, 96)
            more == <<<<"vec", "value_type">>, <<"vec", "value_type">>>>
<1>1. Outcome(tag, c, n) /\ Honest(tag) /\ n \in Nat /\ c \in Nat
  BY ReadEnumOutcome
<1>2. ReadFuncType(d, c) = IF tag.ok THEN [tag EXCEPT !.more = more] ELSE tag
  BY DEF ReadFuncType
<1>3. <<"vec", "value_type">> \in FieldSet
  BY NamesIn, FieldIn
<1>4. more \in Seq(FieldSet)
  BY <1>3, OneField
<1>. HIDE DEF tag, more, n
<1>5. Outcome([tag EXCEPT !.more = more], c, n) /\ Honest([tag EXCEPT !.more = more])
  BY <1>1, <1>4, ExceptMore
<1>. QED BY <1>1, <1>2, <1>5 DEF n

LEMMA ImportOfIn ==
  ASSUME NEW k \in 0 .. 3
  PROVE  ImportOf(k) \in Seq(FieldSet)
<1>1. /\ <<"u32">> \in FieldSet /\ <<"element_type">> \in FieldSet /\ <<"limits">> \in FieldSet
      /\ <<"value_type">> \in FieldSet /\ <<"b8">> \in FieldSet
  BY NamesIn, FieldIn
<1>2. /\ <<<<"u32">>>> \in Seq(FieldSet) /\ <<<<"element_type">>, <<"limits">>>> \in Seq(FieldSet)
      /\ <<<<"limits">>>> \in Seq(FieldSet) /\ <<<<"value_type">>, <<"b8">>>> \in Seq(FieldSet)
  BY <1>1, OneField
<1>3. /\ k = 0 => ImportOf(k) = <<<<"u32">>>>
      /\ k = 1 => ImportOf(k) = <<<<"element_type">>, <<"limits">>>>
      /\ k = 2 => ImportOf(k) = <<<<"limits">>>>
      /\ k = 3 => ImportOf(k) = <<<<"value_type">>, <<"b8">>>>
  BY DEF ImportOf
<1>4. k = 0 \/ k = 1 \/ k = 2 \/ k = 3
  OBVIOUS
<1>. QED BY <1>2, <1>3, <1>4, Zenon

LEMMA ReadImportKindOutcome ==
  ASSUME NEW d \in Seq(0 .. 255), NEW c \in 0 .. Len(d)
  PROVE  Outcome(ReadImportKind(d, c), c, Len(d)) /\ Honest(ReadImportKind(d, c))
<1>. DEFINE n == Len(d)
            kind == ReadEnum(d, c, 0, 3)
            more == ImportOf(ByteAt(d, c))
<1>1. Outcome(kind, c, n) /\ Honest(kind) /\ n \in Nat /\ c \in Nat
  BY ReadEnumOutcome
<1>2. ReadImportKind(d, c) = IF kind.ok THEN [kind EXCEPT !.more = more] ELSE kind
  BY DEF ReadImportKind
<1>3. kind.ok => more \in Seq(FieldSet)
  BY ReadEnumOutcome, ImportOfIn
<1>. HIDE DEF kind, more, n
<1>4. kind.ok => /\ Outcome([kind EXCEPT !.more = more], c, n)
                 /\ Honest([kind EXCEPT !.more = more])
  BY <1>1, <1>3, ExceptMore
<1>. QED BY <1>1, <1>2, <1>4 DEF n

LEMMA FourBytes ==
  ASSUME NEW d \in Seq(0 .. 255), NEW c \in 0 .. Len(d), ReadBytes(d, c, 4).ok
  PROVE  Outcome(Fail(c + 4, c, c + 4), c, Len(d)) /\ Honest(Fail(c + 4, c, c + 4))
<1>. DEFINE n == Len(d)
<1>1. c + 4 <= n
  BY ReadBytesOutcome
<1>2. n \in Nat /\ c \in Nat /\ c + 4 \in c .. n /\ c \in 0 .. n /\ c + 4 \in 0 .. n /\ c <= c + 4
  BY <1>1
<1>. HIDE DEF n
<1>3. Outcome(Fail(c + 4, c, c + 4), c, n) /\ Honest(Fail(c + 4, c, c + 4))
  BY <1>2, OutcomeOf
<1>. QED BY <1>3 DEF n

LEMMA ReadMagicOutcome ==
  ASSUME NEW d \in Seq(0 .. 255), NEW c \in 0 .. Len(d)
  PROVE  Outcome(ReadMagic(d, c), c, Len(d)) /\ Honest(ReadMagic(d, c))
<1>. DEFINE read == ReadBytes(d, c, 4)
<1>1. Outcome(read, c, Len(d)) /\ Honest(read)
  BY ReadBytesOutcome
<1>2. \/ ReadMagic(d, c) = read
      \/ read.ok /\ ReadMagic(d, c) = Fail(c + 4, c, c + 4)
  BY DEF ReadMagic
<1>3. CASE read.ok
  <2>1. Outcome(Fail(c + 4, c, c + 4), c, Len(d)) /\ Honest(Fail(c + 4, c, c + 4))
    BY <1>3, FourBytes
  <2>. HIDE DEF read
  <2>. QED BY <1>1, <1>2, <2>1, Zenon
<1>4. CASE ~read.ok
  <2>. HIDE DEF read
  <2>. QED BY <1>1, <1>2, <1>4, Zenon
<1>. QED BY <1>3, <1>4

LEMMA ReadVersionOutcome ==
  ASSUME NEW d \in Seq(0 .. 255), NEW c \in 0 .. Len(d)
  PROVE  Outcome(ReadVersion(d, c), c, Len(d)) /\ Honest(ReadVersion(d, c))
<1>. DEFINE n == Len(d)
            read == ReadBytes(d, c, 4)
            E == read.diags \cup {<<c, c>>}
            more == [read EXCEPT !.diags = E]
<1>1. Outcome(read, c, n) /\ Honest(read) /\ n \in Nat /\ c \in Nat
  BY ReadBytesOutcome
<1>2. /\ ~read.ok => ReadVersion(d, c) = more
      /\ read.ok => ReadVersion(d, c) = read \/ ReadVersion(d, c) = Fail(c + 4, c, c + 4)
  BY DEF ReadVersion
<1>3. CASE read.ok
  <2>1. Outcome(Fail(c + 4, c, c + 4), c, Len(d)) /\ Honest(Fail(c + 4, c, c + 4))
    BY <1>3, FourBytes
  <2>. HIDE DEF read
  <2>. QED BY <1>1, <1>2, <1>3, <2>1, Zenon
<1>4. CASE ~read.ok
  <2>1. Ranged(<<c, c>>, n)
    BY DEF Ranged
  <2>2. \A e \in E : Ranged(e, n)
    <3>1. \A e \in read.diags : Ranged(e, n)
      BY <1>1 DEF Outcome
    <3>. HIDE DEF read
    <3>. QED BY <2>1, <3>1
  <2>3. E # {}
    OBVIOUS
  <2>. HIDE DEF read, E, n
  <2>4. Outcome(more, c, n)
    BY <1>1, <2>2, ExceptDiags
  <2>5. more.ok = read.ok /\ more.diags = E
    BY <1>1, <2>2, ExceptDiags
  <2>. HIDE DEF more
  <2>. QED BY <1>2, <1>4, <2>3, <2>4, <2>5, Zenon DEF Honest, n
<1>. QED BY <1>3, <1>4

LEMMA ReadSectionsOutcome ==
  ASSUME NEW d \in Seq(0 .. 255), NEW c \in 0 .. Len(d)
  PROVE  Outcome(ReadSections(d, c), c, Len(d)) /\ Honest(ReadSections(d, c))
<1>. DEFINE n == Len(d)
            kind == ReadEnum(d, c, 0, 11)
            more == <<<<"name">>, <<"sections">>>>
<1>1. /\ Outcome(kind, c, n) /\ Honest(kind) /\ n \in Nat /\ c \in Nat /\ c \in c .. n
      /\ <<>> \in Seq(FieldSet)
  BY ReadEnumOutcome
<1>2. ReadSections(d, c) = IF c = n THEN Got(c, <<>>) ELSE [kind EXCEPT !.more = more]
  BY DEF ReadSections
<1>3. <<"name">> \in FieldSet /\ <<"sections">> \in FieldSet
  BY NamesIn, FieldIn
<1>4. more \in Seq(FieldSet)
  BY <1>3, OneField
<1>. HIDE DEF kind, more, n
<1>5. Outcome([kind EXCEPT !.more = more], c, n) /\ Honest([kind EXCEPT !.more = more])
  BY <1>1, <1>4, ExceptMore
<1>6. Outcome(Got(c, <<>>), c, n) /\ Honest(Got(c, <<>>))
  BY <1>1, OutcomeOf
<1>. QED BY <1>2, <1>5, <1>6 DEF n

LEMMA FieldsIn ==
  ASSUME NEW x \in Records
  PROVE  Fields(x) \in Seq(FieldSet)
<1>1. /\ <<"u32">> \in FieldSet /\ <<"b8">> \in FieldSet /\ <<"name">> \in FieldSet
      /\ <<"value_type">> \in FieldSet /\ <<"element_type">> \in FieldSet
      /\ <<"external_kind">> \in FieldSet /\ <<"import_kind">> \in FieldSet
      /\ <<"limits">> \in FieldSet /\ <<"magic">> \in FieldSet /\ <<"version">> \in FieldSet
      /\ <<"sections">> \in FieldSet /\ <<"expr">> \in FieldSet
      /\ <<"vec", "u32">> \in FieldSet /\ <<"vec", "local">> \in FieldSet
  BY NamesIn, FieldIn
<1>2. /\ <<<<"name">>, <<"name">>, <<"import_kind">>>> \in Seq(FieldSet)
      /\ <<<<"value_type">>, <<"b8">>, <<"expr">>>> \in Seq(FieldSet)
      /\ <<<<"name">>, <<"external_kind">>, <<"u32">>>> \in Seq(FieldSet)
      /\ <<<<"u32">>, <<"expr">>, <<"vec", "u32">>>> \in Seq(FieldSet)
      /\ <<<<"u32">>, <<"expr">>, <<"name">>>> \in Seq(FieldSet)
      /\ <<<<"magic">>, <<"version">>, <<"sections">>>> \in Seq(FieldSet)
  BY <1>1, ThreeFields
<1>3. /\ <<<<"element_type">>, <<"limits">>>> \in Seq(FieldSet)
      /\ <<<<"u32">>, <<"value_type">>>> \in Seq(FieldSet)
      /\ <<<<"vec", "local">>, <<"expr">>>> \in Seq(FieldSet)
  BY <1>1, OneField
<1>4. \/ x = "import" \/ x = "table" \/ x = "global" \/ x = "export" \/ x = "element"
      \/ x = "data" \/ x = "local" \/ x = "code" \/ x = "module"
  BY DEF Records
<1>5. /\ x = "import" => Fields(x) = <<<<"name">>, <<"name">>, <<"import_kind">>>>
      /\ x = "table" => Fields(x) = <<<<"element_type">>, <<"limits">>>>
      /\ x = "global" => Fields(x) = <<<<"value_type">>, <<"b8">>, <<"expr">>>>
      /\ x = "export" => Fields(x) = <<<<"name">>, <<"external_kind">>, <<"u32">>>>
      /\ x = "element" => Fields(x) = <<<<"u32">>, <<"expr">>, <<"vec", "u32">>>>
      /\ x = "data" => Fields(x) = <<<<"u32">>, <<"expr">>, <<"name">>>>
      /\ x = "local" => Fields(x) = <<<<"u32">>, <<"value_type">>>>
      /\ x = "code" => Fields(x) = <<<<"vec", "local">>, <<"expr">>>>
      /\ x = "module" => Fields(x) = <<<<"magic">>, <<"version">>, <<"sections">>>>
  BY DEF Fields
<1>. QED BY <1>2, <1>3, <1>4, <1>5, Zenon

LEMMA SectionIn ==
  ASSUME NEW x \in DOMAIN Section
  PROVE  Section[x] \in FieldSet
<1>1. /\ <<"vec", "func_type">> \in FieldSet /\ <<"vec", "import">> \in FieldSet
      /\ <<"vec", "u32">> \in FieldSet /\ <<"vec", "table">> \in FieldSet
      /\ <<"vec", "limits">> \in FieldSet /\ <<"vec", "global">> \in FieldSet
      /\ <<"vec", "export">> \in FieldSet /\ <<"u32">> \in FieldSet
      /\ <<"vec", "element">> \in FieldSet /\ <<"vec", "data">> \in FieldSet
      /\ <<"code">> \in FieldSet /\ <<"vec", "name">> \in FieldSet /\ <<"module">> \in FieldSet
  BY NamesIn, FieldIn
<1>. QED BY <1>1 DEF Section

\* Every field of a section is read up to the end of the scope at most, and
\* fails with an error or not at all.
LEMMA ReadOutcome ==
  ASSUME NEW d \in Seq(0 .. 255), NEW c \in 0 .. Len(d), NEW x \in FieldSet, x # <<"expr">>
  PROVE  Outcome(Read(d, c, x), c, Len(d)) /\ Honest(Read(d, c, x))
<1>. DEFINE n == Len(d)
<1>1. CASE \E y \in Names : x = <<"vec", y>>
  <2>1. PICK y \in Names : x = <<"vec", y>>
    BY <1>1
  <2>2. x[1] = "vec" /\ x[2] = y
    BY <2>1
  <2>3. <<y>> \in FieldSet
    BY FieldIn
  <2>4. Read(d, c, x) = ReadVec(d, c, <<y>>)
    BY <2>2 DEF Read, Records
  <2>. QED BY <2>3, <2>4, ReadVecOutcome
<1>2. CASE \E y \in Records : x = <<y>>
  <2>1. PICK y \in Records : x = <<y>>
    BY <1>2
  <2>2. x[1] = y
    BY <2>1
  <2>3. Read(d, c, x) = Got(c, Fields(y))
    BY <2>2 DEF Read, Records
  <2>4. n \in Nat /\ c \in Nat /\ c \in c .. n /\ Fields(y) \in Seq(FieldSet)
    BY FieldsIn
  <2>. HIDE DEF n
  <2>5. Outcome(Got(c, Fields(y)), c, n) /\ Honest(Got(c, Fields(y)))
    BY <2>4, OutcomeOf
  <2>. QED BY <2>3, <2>5 DEF n
<1>3. CASE \E y \in Names \ Records : x = <<y>>
  <2>1. PICK y \in Names \ Records : x = <<y>>
    BY <1>3
  <2>2. x[1] = y
    BY <2>1
  <2>3. \/ y = "u32" \/ y = "b8" \/ y = "name" \/ y = "value_type" \/ y = "element_type"
        \/ y = "external_kind" \/ y = "import_kind" \/ y = "limits" \/ y = "func_type"
        \/ y = "magic" \/ y = "version" \/ y = "sections"
    BY DEF Names
  <2>4. /\ y = "u32" => Read(d, c, x) = ReadULeb(d, c, 32)
        /\ y = "b8" => Read(d, c, x) = ReadBytes(d, c, 1)
        /\ y = "name" => Read(d, c, x) = ReadName(d, c)
        /\ y = "value_type" => Read(d, c, x) = ReadEnum(d, c, 124, 127)
        /\ y = "element_type" => Read(d, c, x) = ReadEnum(d, c, 112, 112)
        /\ y = "external_kind" => Read(d, c, x) = ReadEnum(d, c, 0, 3)
        /\ y = "import_kind" => Read(d, c, x) = ReadImportKind(d, c)
        /\ y = "limits" => Read(d, c, x) = ReadLimits(d, c)
        /\ y = "func_type" => Read(d, c, x) = ReadFuncType(d, c)
        /\ y = "magic" => Read(d, c, x) = ReadMagic(d, c)
        /\ y = "version" => Read(d, c, x) = ReadVersion(d, c)
        /\ y = "sections" => Read(d, c, x) = ReadSections(d, c)
    BY <2>2 DEF Read, Records, ReadValueType
  <2>5. Outcome(ReadULeb(d, c, 32), c, Len(d)) /\ Honest(ReadULeb(d, c, 32))
    BY ReadLebOutcome
  <2>6. Outcome(ReadBytes(d, c, 1), c, Len(d)) /\ Honest(ReadBytes(d, c, 1))
    BY ReadBytesOutcome
  <2>7. \A lo, hi : Outcome(ReadEnum(d, c, lo, hi), c, Len(d)) /\ Honest(ReadEnum(d, c, lo, hi))
    BY ReadEnumOutcome
  <2>8. /\ Outcome(ReadName(d, c), c, Len(d)) /\ Honest(ReadName(d, c))
        /\ Outcome(ReadImportKind(d, c), c, Len(d)) /\ Honest(ReadImportKind(d, c))
        /\ Outcome(ReadLimits(d, c), c, Len(d)) /\ Honest(ReadLimits(d, c))
        /\ Outcome(ReadFuncType(d, c), c, Len(d)) /\ Honest(ReadFuncType(d, c))
        /\ Outcome(ReadMagic(d, c), c, Len(d)) /\ Honest(ReadMagic(d, c))
        /\ Outcome(ReadVersion(d, c), c, Len(d)) /\ Honest(ReadVersion(d, c))
        /\ Outcome(ReadSections(d, c), c, Len(d)) /\ Honest(ReadSections(d, c))
    BY ReadNameOutcome, ReadImportKindOutcome, ReadLimitsOutcome,
       ReadFuncTypeOutcome, ReadMagicOutcome, ReadVersionOutcome, ReadSectionsOutcome
  <2>. DEFINE Goal == Outcome(Read(d, c, x), c, Len(d)) /\ Honest(Read(d, c, x))
  <2>9. /\ y = "u32" => Goal
        /\ y = "b8" => Goal
        /\ y = "value_type" => Goal
        /\ y = "element_type" => Goal
        /\ y = "external_kind" => Goal
    BY <2>4, <2>5, <2>6, <2>7
  <2>10. /\ y = "name" => Goal
         /\ y = "import_kind" => Goal
         /\ y = "limits" => Goal
         /\ y = "func_type" => Goal
         /\ y = "magic" => Goal
         /\ y = "version" => Goal
         /\ y = "sections" => Goal
    BY <2>4, <2>8
  <2>. HIDE DEF Goal
  <2>11. Goal
    BY <2>3, <2>9, <2>10, Zenon
  <2>. QED BY <2>11 DEF Goal
<1>4. (\E y \in Names : x = <<"vec", y>>) \/ (\E y \in Names \cup {"expr"} : x = <<y>>)
  BY DEF FieldSet
<1>. QED BY <1>1, <1>2, <1>3, <1>4

-----------------------------------------------------------------------------
(* The operands of instructions *)

IsLebs(g, c, n) ==
  g = [k \in 0 .. n |-> IF k = 0 THEN Got(c, <<>>) ELSE NextLeb(g[k - 1])]

LEMMA LebsExist ==
  ASSUME NEW c, NEW N \in Nat
  PROVE  \E g : IsLebs(g, c, N)
<1>. DEFINE B == {n \in Nat : ~ \E g : IsLebs(g, c, n)}
<1>1. SUFFICES ASSUME B # {} PROVE FALSE
  OBVIOUS
<1>2. PICK n \in B : \A m \in B : n <= m
  BY <1>1, MinIs
<1>3. n \in Nat /\ ~ \E g : IsLebs(g, c, n)
  OBVIOUS
<1>4. n # 0
  <2>. SUFFICES ASSUME n = 0 PROVE FALSE
    OBVIOUS
  <2>. DEFINE h == [k \in 0 .. 0 |-> Got(c, <<>>)]
  <2>1. IsLebs(h, c, 0)
    BY DEF IsLebs
  <2>. HIDE DEF h
  <2>. QED BY <1>3, <2>1
<1>5. n - 1 \in Nat /\ n - 1 \notin B
  <2>. HIDE DEF B
  <2>1. n - 1 \in Nat /\ ~(n <= n - 1)
    BY <1>3, <1>4
  <2>. QED BY <1>2, <2>1
<1>6. PICK g : IsLebs(g, c, n - 1)
  BY <1>5
<1>. DEFINE h == [k \in 0 .. n |-> IF k = n THEN NextLeb(g[n - 1]) ELSE g[k]]
<1>7. /\ h[n] = NextLeb(g[n - 1])
      /\ \A k \in 0 .. n - 1 : h[k] = g[k]
  BY <1>3
<1>8. \A k \in 0 .. n : h[k] = IF k = 0 THEN Got(c, <<>>) ELSE NextLeb(h[k - 1])
  <2>. SUFFICES ASSUME NEW k \in 0 .. n
                PROVE  h[k] = IF k = 0 THEN Got(c, <<>>) ELSE NextLeb(h[k - 1])
    OBVIOUS
  <2>. HIDE DEF h, B
  <2>1. CASE k = n
    <3>1. n - 1 \in 0 .. n - 1
      BY <1>5
    <3>. QED BY <1>4, <1>7, <2>1, <3>1
  <2>2. CASE k # n
    <3>1. k \in 0 .. n - 1 /\ (k # 0 => k - 1 \in 0 .. n - 1)
      BY <1>3, <2>2
    <3>2. g[k] = IF k = 0 THEN Got(c, <<>>) ELSE NextLeb(g[k - 1])
      BY <1>6, <3>1 DEF IsLebs
    <3>. QED BY <1>7, <3>1, <3>2
  <2>. QED BY <2>1, <2>2
<1>9. IsLebs(h, c, n)
  <2>1. h = [k \in 0 .. n |-> h[k]]
    OBVIOUS
  <2>. HIDE DEF h
  <2>. QED BY <1>8, <2>1 DEF IsLebs
<1>. HIDE DEF h
<1>. QED BY <1>3, <1>9

LEMMA NextLebOutcome ==
  ASSUME data \in Seq(0 .. 255), NEW c \in 0 .. Len(data), NEW r,
         Outcome(r, c, Len(data)), Honest(r)
  PROVE  Outcome(NextLeb(r), c, Len(data)) /\ Honest(NextLeb(r))
<1>. DEFINE n == Len(data)
            read == ReadULeb(data, r.curr, 32)
<1>1. r.curr \in 0 .. n /\ c <= r.curr /\ n \in Nat /\ c \in Nat /\ r.curr \in Nat
  BY DEF Outcome
<1>2. Outcome(read, r.curr, n) /\ Honest(read)
  BY <1>1, ReadLebOutcome
<1>3. NextLeb(r) = IF r.ok THEN read ELSE r
  BY DEF NextLeb
<1>. HIDE DEF n, read
<1>4. Outcome(read, c, n)
  BY <1>1, <1>2, OutcomeFrom
<1>. QED BY <1>2, <1>3, <1>4 DEF n

LEMMA ReadLebsOutcome ==
  ASSUME data \in Seq(0 .. 255), NEW c \in 0 .. Len(data), NEW count \in Nat
  PROVE  Outcome(ReadLebs(c, count), c, Len(data)) /\ Honest(ReadLebs(c, count))
<1>. DEFINE g == CHOOSE f : IsLebs(f, c, count)
            Good(k) == Outcome(g[k], c, Len(data)) /\ Honest(g[k])
            B == {k \in Nat : k <= count /\ ~Good(k)}
<1>1. IsLebs(g, c, count)
  BY LebsExist
<1>2. ReadLebs(c, count) = g[count]
  BY DEF ReadLebs, IsLebs
<1>. HIDE DEF g
<1>3. /\ g[0] = Got(c, <<>>)
      /\ \A k \in 1 .. count : g[k] = NextLeb(g[k - 1])
  <2>1. \A k \in 0 .. count : g[k] = IF k = 0 THEN Got(c, <<>>) ELSE NextLeb(g[k - 1])
    BY <1>1 DEF IsLebs
  <2>2. 0 \in 0 .. count /\ \A k \in 1 .. count : k \in 0 .. count /\ k # 0
    OBVIOUS
  <2>. QED BY <2>1, <2>2
<1>4. SUFFICES ASSUME B # {} PROVE FALSE
  BY <1>2
<1>5. PICK k \in B : \A m \in B : k <= m
  <2>1. B \in SUBSET Nat
    OBVIOUS
  <2>. HIDE DEF B
  <2>. QED BY <1>4, <2>1, MinIs
<1>6. k \in Nat /\ k <= count /\ ~Good(k)
  OBVIOUS
<1>7. k # 0
  <2>1. Len(data) \in Nat /\ c \in Nat /\ c \in c .. Len(data) /\ <<>> \in Seq(FieldSet)
    OBVIOUS
  <2>2. Good(0)
    BY <1>3, <2>1, OutcomeOf
  <2>. QED BY <1>6, <2>2
<1>8. k - 1 \in Nat /\ k - 1 <= count /\ ~(k <= k - 1) /\ k \in 1 .. count
  BY <1>6, <1>7
<1>9. k - 1 \notin B
  <2>. HIDE DEF B
  <2>. QED BY <1>5, <1>8
<1>10. Good(k - 1)
  BY <1>8, <1>9
<1>11. Good(k)
  BY <1>3, <1>8, <1>10, NextLebOutcome
<1>. QED BY <1>6, <1>11

LEMMA ReadZeroOutcome ==
  ASSUME data \in Seq(0 .. 255), NEW c \in 0 .. Len(data), NEW a \in Nat, a <= c
  PROVE  Outcome(ReadZero(c, a), c, Len(data))
<1>. DEFINE n == Len(data)
            read == ReadByte(data, c)
            E == {<<a, c + 1>>}
<1>1. /\ Outcome(read, c, n)
      /\ read.ok => c < n
      /\ n \in Nat /\ c \in Nat
  BY ReadByteOutcome
<1>2. \/ ReadZero(c, a) = read
      \/ read.ok /\ ReadZero(c, a) = [read EXCEPT !.diags = E]
  BY DEF ReadZero
<1>3. CASE read.ok
  <2>1. \A e \in E : Ranged(e, n)
    BY <1>1, <1>3 DEF Ranged
  <2>. HIDE DEF read, E, n
  <2>2. Outcome([read EXCEPT !.diags = E], c, n)
    BY <1>1, <2>1, ExceptDiags
  <2>. QED BY <1>1, <1>2, <2>2, Zenon DEF n
<1>4. CASE ~read.ok
  <2>. HIDE DEF read, E
  <2>. QED BY <1>1, <1>2, <1>4, Zenon
<1>. QED BY <1>3, <1>4

LEMMA ReadIndirectOutcome ==
  ASSUME data \in Seq(0 .. 255), curr \in 0 .. Len(data)
  PROVE  Outcome(ReadIndirect, curr, Len(data))
<1>. DEFINE n == Len(data)
            index == ReadULeb(data, curr, 32)
            zero == ReadZero(index.curr, index.curr)
<1>1. Outcome(index, curr, n) /\ n \in Nat /\ curr \in Nat
  BY ReadLebOutcome
<1>2. index.curr \in 0 .. n /\ index.curr \in Nat /\ curr <= index.curr /\ index.curr <= index.curr
  BY <1>1 DEF Outcome
<1>3. ReadIndirect = IF index.ok THEN zero ELSE index
  BY DEF ReadIndirect
<1>. HIDE DEF index
<1>4. Outcome(zero, index.curr, n)
  BY <1>2, ReadZeroOutcome
<1>. HIDE DEF n, zero
<1>5. Outcome(zero, curr, n)
  BY <1>1, <1>2, <1>4, OutcomeFrom
<1>. QED BY <1>1, <1>3, <1>5 DEF n

LEMMA LabelCountIs ==
  ASSUME data \in Seq(0 .. 255), curr \in 0 .. Len(data), ReadULeb(data, curr, 32).ok
  PROVE  LabelCount \in Nat
<1>1. ULebValue(data, curr) \in Nat
  BY ULebValueIs
<1>2. DataLeft(data, curr) + 1 \in Nat
  BY DEF DataLeft
<1>. QED BY <1>1, <1>2, CountIs DEF LabelCount

LEMMA ReadTableOutcome ==
  ASSUME data \in Seq(0 .. 255), curr \in 0 .. Len(data)
  PROVE  Outcome(ReadTable, curr, Len(data))
<1>. DEFINE n == Len(data)
            size == ReadULeb(data, curr, 32)
            labels == ReadLebs(size.curr, LabelCount)
            default == ReadULeb(data, labels.curr, 32)
<1>1. Outcome(size, curr, n) /\ n \in Nat /\ curr \in Nat
  BY ReadLebOutcome
<1>2. size.curr \in 0 .. n /\ size.curr \in Nat /\ curr <= size.curr
  BY <1>1 DEF Outcome
<1>3. ReadTable = IF ~size.ok THEN size ELSE IF ~labels.ok THEN labels ELSE default
  BY DEF ReadTable
<1>4. CASE size.ok
  <2>1. LabelCount \in Nat
    BY <1>4, LabelCountIs
  <2>. HIDE DEF size
  <2>2. Outcome(labels, size.curr, n)
    BY <1>2, <2>1, ReadLebsOutcome
  <2>3. /\ labels.curr \in 0 .. n /\ labels.curr \in Nat /\ size.curr <= labels.curr
        /\ curr <= labels.curr
    BY <1>2, <2>2 DEF Outcome
  <2>. HIDE DEF labels
  <2>4. Outcome(default, labels.curr, n)
    BY <2>3, ReadLebOutcome
  <2>. HIDE DEF n, default
  <2>5. Outcome(labels, curr, n)
    BY <1>1, <1>2, <2>2, OutcomeFrom
  <2>6. Outcome(default, curr, n)
    BY <1>1, <2>3, <2>4, OutcomeFrom
  <2>. QED BY <1>3, <1>4, <2>5, <2>6 DEF n
<1>5. CASE ~size.ok
  <2>. HIDE DEF size, labels, default
  <2>. QED BY <1>1, <1>3, <1>5
<1>. QED BY <1>4, <1>5

LEMMA OperandsOutcome ==
  ASSUME data \in Seq(0 .. 255), curr \in 0 .. Len(data), NEW op,
         NEW a \in Nat, a = Last(frames).anchor, a <= curr
  PROVE  Outcome(Operands(op), curr, Len(data))
<1>. DEFINE n == Len(data)
<1>1. \/ Operands(op) = Got(curr, <<>>)
      \/ Operands(op) = ReadULeb(data, curr, 32)
      \/ Operands(op) = ReadTable
      \/ Operands(op) = ReadIndirect
      \/ Operands(op) = ReadLebs(curr, 2)
      \/ Operands(op) = ReadZero(curr, a)
      \/ Operands(op) = ReadILeb(data, curr, 32)
      \/ Operands(op) = ReadILeb(data, curr, 64)
      \/ Operands(op) = ReadBytes(data, curr, 4)
      \/ Operands(op) = ReadBytes(data, curr, 8)
      \/ Operands(op) = Fail(curr, a, curr)
  <2>. DEFINE r1 == Got(curr, <<>>)
              r2 == ReadULeb(data, curr, 32)
              r3 == ReadILeb(data, curr, 32)
              r4 == ReadILeb(data, curr, 64)
              r5 == ReadBytes(data, curr, 4)
              r6 == ReadBytes(data, curr, 8)
              r7 == Fail(curr, Last(frames).anchor, curr)
              r8 == ReadZero(curr, Last(frames).anchor)
              r9 == ReadLebs(curr, 2)
  <2>1. Operands(op) =
          CASE op \in Plain -> r1
            [] op \in Indexed -> r2
            [] op = 14 -> ReadTable
            [] op = 17 -> ReadIndirect
            [] op \in MemArg -> r9
            [] op \in MemSize -> r8
            [] op = 65 -> r3
            [] op = 66 -> r4
            [] op = 67 -> r5
            [] op = 68 -> r6
            [] OTHER -> r7
    BY DEF Operands
  <2>. HIDE DEF r1, r2, r3, r4, r5, r6, r7, r8, r9
  <2>2. Operands(op) \in {r1, r2, r3, r4, r5, r6, r7, r8, r9, ReadTable, ReadIndirect}
    BY <2>1
  <2>. QED BY <2>2 DEF r1, r2, r3, r4, r5, r6, r7, r8, r9
<1>2. n \in Nat /\ curr \in Nat /\ curr \in curr .. n /\ curr \in 0 .. n /\ a \in 0 .. n
      /\ <<>> \in Seq(FieldSet)
  OBVIOUS
<1>3. Outcome(Got(curr, <<>>), curr, n) /\ Outcome(Fail(curr, a, curr), curr, n)
  <2>. HIDE DEF n
  <2>. QED BY <1>2, OutcomeOf
<1>4. \A bits : Outcome(ReadULeb(data, curr, bits), curr, n) /\ Outcome(ReadILeb(data, curr, bits), curr, n)
  BY ReadLebOutcome
<1>5. Outcome(ReadBytes(data, curr, 4), curr, n) /\ Outcome(ReadBytes(data, curr, 8), curr, n)
  BY ReadBytesOutcome
<1>6. Outcome(ReadTable, curr, n) /\ Outcome(ReadIndirect, curr, n)
  BY ReadTableOutcome, ReadIndirectOutcome
<1>7. Outcome(ReadLebs(curr, 2), curr, n)
  BY ReadLebsOutcome
<1>8. Outcome(ReadZero(curr, a), curr, n)
  BY ReadZeroOutcome
<1>. HIDE DEF n
<1>9. Outcome(Operands(op), curr, n)
  BY <1>1, <1>3, <1>4, <1>5, <1>6, <1>7, <1>8, Zenon
<1>. QED BY <1>9 DEF n

LEMMA BlockTypeOutcome ==
  ASSUME data \in Seq(0 .. 255), curr \in 0 .. Len(data)
  PROVE  Outcome(ReadBlockType, curr, Len(data)) /\ BlockTypeSlice \in Nat
<1>1. \/ ReadBlockType = ReadByte(data, curr)
      \/ ReadBlockType = ReadEnum(data, curr, 124, 127)
  BY DEF ReadBlockType
<1>2. /\ Outcome(ReadByte(data, curr), curr, Len(data))
      /\ Outcome(ReadEnum(data, curr, 124, 127), curr, Len(data))
  BY ReadByteOutcome, ReadEnumOutcome
<1>3. BlockTypeSlice \in Nat
  BY DEF BlockTypeSlice
<1>. QED BY <1>1, <1>2, <1>3, Zenon

-----------------------------------------------------------------------------
(* The memory of the lists *)

LEMMA Sizes == InstChunk \in Nat /\ InstChunk # 0 /\ ExtraChunk \in Nat /\ ExtraChunk # 0 /\ Base \in Nat
BY ChunkAssumption DEF Base

LEMMA ListGrows ==
  ASSUME NEW cs \in Seq(Chunk), NEW first \in Nat, NEW n \in Nat, ListOK(cs, first, n),
         NEW x \in Chunk
  PROVE  /\ n = Capacity(first, cs) => ListOK(Append(cs, x), first, n + 1)
         /\ n # Capacity(first, cs) => ListOK(cs, first, n + 1)
         /\ n < first => n # Capacity(first, cs) /\ ~Last(cs).stale
<1>1. n <= first => Len(cs) = 1 /\ Capacity(first, cs) = first
  <2>1. SUFFICES ASSUME n <= first
                 PROVE  Len(cs) = 1 /\ Capacity(first, cs) = first
    OBVIOUS
  <2>2. Len(cs) = 1 /\ cs # <<>>
    BY <2>1 DEF ListOK
  <2>3. Capacity(first, cs) = first * 2 ^ (Len(cs) - 1)
    BY <2>2 DEF Capacity
  <2>4. Len(cs) - 1 = 0
    BY <2>2
  <2>5. Capacity(first, cs) = first * 2 ^ 0
    BY <2>3, <2>4
  <2>6. first * 2 ^ 0 = first
    OBVIOUS
  <2>. QED BY <2>2, <2>5, <2>6
<1>2. CASE n = Capacity(first, cs)
  <2>1. Append(cs, x) \in Seq(Chunk) /\ Append(cs, x) # <<>> /\ Len(cs) \in Nat /\ Len(cs) # 0
    BY DEF ListOK
  <2>2. Append(cs, x)[1] = cs[1]
    BY <2>1
  <2>3. ~(n < first) /\ ~(n + 1 <= first)
    BY <1>1, <1>2
  <2>. QED BY <1>2, <2>1, <2>2, <2>3 DEF ListOK
<1>3. CASE n # Capacity(first, cs)
  <2>1. n + 1 <= first => Len(cs) = 1
    BY <1>1
  <2>2. n < first => Last(cs) = cs[1]
    BY <1>1 DEF Last
  <2>. QED BY <1>3, <2>1, <2>2 DEF ListOK
<1>. QED BY <1>2, <1>3

LEMMA PushShape ==
  ASSUME NEW m \in MemRecord, NEW list \in {"inst", "extra"}, NEW n \in Nat, m.chunks[list] # <<>>
  PROVE  \/ /\ n = Capacity(First(list), m.chunks[list])
            /\ \E x \in Chunk :
                 Push(m, list, n) = [used |-> m.used + n,
                                     chunks |-> [m.chunks EXCEPT ![list] = Append(m.chunks[list], x)],
                                     wild |-> m.wild]
         \/ /\ n # Capacity(First(list), m.chunks[list])
            /\ Push(m, list, n) = [used |-> m.used, chunks |-> m.chunks,
                                   wild |-> m.wild \/ Last(m.chunks[list]).stale]
<1>. DEFINE cs == m.chunks[list]
            x == [end |-> m.used + n, stale |-> FALSE]
            grown == [m.chunks EXCEPT ![list] = Append(cs, x)]
<1>1. m = [used |-> m.used, chunks |-> m.chunks, wild |-> m.wild] /\ m.used \in Nat
  BY DEF MemRecord
<1>2. x \in Chunk
  BY <1>1 DEF Chunk
<1>3. CASE n = Capacity(First(list), cs)
  <2>1. Push(m, list, n) = [m EXCEPT !.used = m.used + n, !.chunks = grown]
    BY <1>3 DEF Push
  <2>. HIDE DEF grown
  <2>2. Push(m, list, n) = [used |-> m.used + n, chunks |-> grown, wild |-> m.wild]
    BY <1>1, <2>1
  <2>. HIDE DEF x
  <2>. QED BY <1>2, <1>3, <2>2 DEF grown
<1>4. CASE n # Capacity(First(list), cs)
  <2>. DEFINE w == m.wild \/ Last(cs).stale
  <2>1. Push(m, list, n) = [m EXCEPT !.wild = w]
    BY <1>4 DEF Push
  <2>. HIDE DEF w
  <2>2. Push(m, list, n) = [used |-> m.used, chunks |-> m.chunks, wild |-> w]
    BY <1>1, <2>1
  <2>. QED BY <1>4, <2>2 DEF w
<1>. QED BY <1>3, <1>4

\* Appending to one list leaves the other alone.
LEMMA PushInst ==
  ASSUME NEW m, NEW ni \in Nat, NEW ne \in Nat, MemOK(m, ni, ne)
  PROVE  MemOK(Push(m, "inst", ni), ni + 1, ne)
<1>. DEFINE cs == m.chunks["inst"]
            p == Push(m, "inst", ni)
<1>1. /\ m \in MemRecord /\ "inst" \in {"inst", "extra"} /\ First("inst") = InstChunk
      /\ cs # <<>> /\ ListOK(cs, InstChunk, ni) /\ ListOK(m.chunks["extra"], ExtraChunk, ne)
      /\ Base <= m.used
  BY DEF MemOK, ListOK, First
<1>2. /\ m.used \in Nat /\ m.wild \in BOOLEAN /\ cs \in Seq(Chunk)
      /\ m.chunks \in [{"inst", "extra"} -> Seq(Chunk)]
  BY <1>1 DEF MemRecord
<1>3. m.wild => ni + 1 > InstChunk \/ ne > ExtraChunk
  BY Sizes DEF MemOK
<1>4. CASE ni = Capacity(InstChunk, cs)
  <2>1. PICK x \in Chunk :
          p = [used |-> m.used + ni, chunks |-> [m.chunks EXCEPT !["inst"] = Append(cs, x)],
               wild |-> m.wild]
    BY <1>1, <1>4, PushShape
  <2>. DEFINE grown == [m.chunks EXCEPT !["inst"] = Append(cs, x)]
  <2>2. ListOK(Append(cs, x), InstChunk, ni + 1)
    BY <1>1, <1>2, <1>4, Sizes, ListGrows
  <2>3. grown \in [{"inst", "extra"} -> Seq(Chunk)]
    BY <1>2
  <2>4. grown["inst"] = Append(cs, x) /\ grown["extra"] = m.chunks["extra"]
    BY <1>2
  <2>. HIDE DEF p, grown
  <2>5. p.used = m.used + ni /\ p.chunks = grown /\ p.wild = m.wild
    BY <2>1 DEF grown
  <2>6. p \in MemRecord
    BY <1>2, <2>1, <2>3 DEF MemRecord, grown
  <2>7. Base <= p.used
    BY <1>1, <1>2, <2>5, Sizes
  <2>8. MemOK(p, ni + 1, ne)
    BY <1>1, <1>3, <2>2, <2>4, <2>5, <2>6, <2>7 DEF MemOK
  <2>. QED BY <2>8 DEF p
<1>5. CASE ni # Capacity(InstChunk, cs)
  <2>. DEFINE w == m.wild \/ Last(cs).stale
  <2>1. p = [used |-> m.used, chunks |-> m.chunks, wild |-> w]
    BY <1>1, <1>5, PushShape
  <2>2. ListOK(cs, InstChunk, ni + 1) /\ (ni < InstChunk => ~Last(cs).stale)
    <3>1. PICK x : x \in Chunk
      <4>1. [end |-> 0, stale |-> FALSE] \in Chunk
        BY DEF Chunk
      <4>. QED BY <4>1
    <3>. QED BY <1>1, <1>2, <1>5, <3>1, Sizes, ListGrows
  <2>3. w => ni + 1 > InstChunk \/ ne > ExtraChunk
    BY <1>3, <2>2, Sizes
  <2>4. w \in BOOLEAN
    OBVIOUS
  <2>. HIDE DEF p, w
  <2>5. p.used = m.used /\ p.chunks = m.chunks /\ p.wild = w
    BY <2>1
  <2>6. p \in MemRecord
    BY <1>2, <2>1, <2>4 DEF MemRecord
  <2>7. MemOK(p, ni + 1, ne)
    BY <1>1, <2>2, <2>3, <2>5, <2>6 DEF MemOK
  <2>. QED BY <2>7 DEF p
<1>. QED BY <1>4, <1>5
LEMMA PushExtra ==
  ASSUME NEW m, NEW ni \in Nat, NEW ne \in Nat, MemOK(m, ni, ne)
  PROVE  MemOK(Push(m, "extra", ne), ni, ne + 1)
<1>. DEFINE cs == m.chunks["extra"]
            p == Push(m, "extra", ne)
<1>1. /\ m \in MemRecord /\ "extra" \in {"inst", "extra"} /\ First("extra") = ExtraChunk
      /\ cs # <<>> /\ ListOK(cs, ExtraChunk, ne) /\ ListOK(m.chunks["inst"], InstChunk, ni)
      /\ Base <= m.used
  BY DEF MemOK, ListOK, First
<1>2. /\ m.used \in Nat /\ m.wild \in BOOLEAN /\ cs \in Seq(Chunk)
      /\ m.chunks \in [{"inst", "extra"} -> Seq(Chunk)]
  BY <1>1 DEF MemRecord
<1>3. m.wild => ni > InstChunk \/ ne + 1 > ExtraChunk
  BY Sizes DEF MemOK
<1>4. CASE ne = Capacity(ExtraChunk, cs)
  <2>1. PICK x \in Chunk :
          p = [used |-> m.used + ne, chunks |-> [m.chunks EXCEPT !["extra"] = Append(cs, x)],
               wild |-> m.wild]
    BY <1>1, <1>4, PushShape
  <2>. DEFINE grown == [m.chunks EXCEPT !["extra"] = Append(cs, x)]
  <2>2. ListOK(Append(cs, x), ExtraChunk, ne + 1)
    BY <1>1, <1>2, <1>4, Sizes, ListGrows
  <2>3. grown \in [{"inst", "extra"} -> Seq(Chunk)]
    BY <1>2
  <2>4. grown["extra"] = Append(cs, x) /\ grown["inst"] = m.chunks["inst"]
    BY <1>2
  <2>. HIDE DEF p, grown
  <2>5. p.used = m.used + ne /\ p.chunks = grown /\ p.wild = m.wild
    BY <2>1 DEF grown
  <2>6. p \in MemRecord
    BY <1>2, <2>1, <2>3 DEF MemRecord, grown
  <2>7. Base <= p.used
    BY <1>1, <1>2, <2>5, Sizes
  <2>8. MemOK(p, ni, ne + 1)
    BY <1>1, <1>3, <2>2, <2>4, <2>5, <2>6, <2>7 DEF MemOK
  <2>. QED BY <2>8 DEF p
<1>5. CASE ne # Capacity(ExtraChunk, cs)
  <2>. DEFINE w == m.wild \/ Last(cs).stale
  <2>1. p = [used |-> m.used, chunks |-> m.chunks, wild |-> w]
    BY <1>1, <1>5, PushShape
  <2>2. ListOK(cs, ExtraChunk, ne + 1) /\ (ne < ExtraChunk => ~Last(cs).stale)
    <3>1. PICK x : x \in Chunk
      <4>1. [end |-> 0, stale |-> FALSE] \in Chunk
        BY DEF Chunk
      <4>. QED BY <4>1
    <3>. QED BY <1>1, <1>2, <1>5, <3>1, Sizes, ListGrows
  <2>3. w => ni > InstChunk \/ ne + 1 > ExtraChunk
    BY <1>3, <2>2, Sizes
  <2>4. w \in BOOLEAN
    OBVIOUS
  <2>. HIDE DEF p, w
  <2>5. p.used = m.used /\ p.chunks = m.chunks /\ p.wild = w
    BY <2>1
  <2>6. p \in MemRecord
    BY <1>2, <2>1, <2>4 DEF MemRecord
  <2>7. MemOK(p, ni, ne + 1)
    BY <1>1, <2>2, <2>3, <2>5, <2>6 DEF MemOK
  <2>. QED BY <2>7 DEF p
<1>. QED BY <1>4, <1>5

LEMMA PushExtrasOK ==
  ASSUME NEW m, NEW ni \in Nat, NEW ne \in Nat, MemOK(m, ni, ne), NEW count \in 0 .. 3
  PROVE  MemOK(PushExtras(m, ne, count), ni, ne + count)
<1>. DEFINE one   == Push(m, "extra", ne)
            two   == Push(one, "extra", ne + 1)
            three == Push(two, "extra", ne + 2)
<1>1. MemOK(one, ni, ne + 1)
  BY PushExtra
<1>2. MemOK(two, ni, ne + 2)
  <2>. HIDE DEF one
  <2>1. ne + 1 \in Nat /\ (ne + 1) + 1 = ne + 2
    OBVIOUS
  <2>2. MemOK(two, ni, (ne + 1) + 1)
    BY <1>1, <2>1, PushExtra
  <2>. QED BY <2>1, <2>2
<1>3. MemOK(three, ni, ne + 3)
  <2>. HIDE DEF one, two
  <2>1. ne + 2 \in Nat /\ (ne + 2) + 1 = ne + 3
    OBVIOUS
  <2>2. MemOK(three, ni, (ne + 2) + 1)
    BY <1>2, <2>1, PushExtra
  <2>. QED BY <2>1, <2>2
<1>4. PushExtras(m, ne, count) = <<m, one, two, three>>[count + 1]
  BY DEF PushExtras
<1>5. count = 0 \/ count = 1 \/ count = 2 \/ count = 3
  OBVIOUS
<1>. HIDE DEF one, two, three
<1>6. /\ count = 0 => PushExtras(m, ne, count) = m /\ ne + count = ne
      /\ count = 1 => PushExtras(m, ne, count) = one /\ ne + count = ne + 1
      /\ count = 2 => PushExtras(m, ne, count) = two /\ ne + count = ne + 2
      /\ count = 3 => PushExtras(m, ne, count) = three /\ ne + count = ne + 3
  BY <1>4
<1>. QED BY <1>1, <1>2, <1>3, <1>5, <1>6, Zenon

\* A slice of the temporary arena.
LEMMA SliceOK ==
  ASSUME NEW m, NEW ni \in Nat, NEW ne \in Nat, MemOK(m, ni, ne), NEW size \in Nat
  PROVE  MemOK([m EXCEPT !.used = @ + size], ni, ne)
<1>. DEFINE p == [m EXCEPT !.used = @ + size]
<1>1. /\ m.used \in Nat /\ m.wild \in BOOLEAN /\ m.chunks \in [{"inst", "extra"} -> Seq(Chunk)]
      /\ m = [used |-> m.used, chunks |-> m.chunks, wild |-> m.wild]
  BY DEF MemOK, MemRecord
<1>2. p = [used |-> m.used + size, chunks |-> m.chunks, wild |-> m.wild]
  BY <1>1
<1>. HIDE DEF p
<1>3. p.used = m.used + size /\ p.chunks = m.chunks /\ p.wild = m.wild
  BY <1>2
<1>4. p \in MemRecord
  BY <1>1, <1>2 DEF MemRecord
<1>5. Base <= p.used
  BY <1>1, <1>3, Sizes DEF MemOK
<1>6. MemOK(p, ni, ne)
  BY <1>3, <1>4, <1>5 DEF MemOK
<1>. QED BY <1>6 DEF p

LEMMA ReleaseShape ==
  ASSUME NEW m \in MemRecord, NEW mark \in Nat
  PROVE  /\ Release(m, mark) \in MemRecord
         /\ Release(m, mark).used = mark
         /\ Release(m, mark).wild = m.wild
         /\ \A list \in {"inst", "extra"} :
              /\ Len(Release(m, mark).chunks[list]) = Len(m.chunks[list])
              /\ \A k \in 1 .. Len(m.chunks[list]) :
                   Release(m, mark).chunks[list][k] =
                     [end |-> m.chunks[list][k].end,
                      stale |-> m.chunks[list][k].stale \/ mark < m.chunks[list][k].end]
<1>. DEFINE p == Release(m, mark)
            now(list) == [k \in DOMAIN m.chunks[list] |->
                            [m.chunks[list][k] EXCEPT !.stale = @ \/ mark < m.chunks[list][k].end]]
            all == [list \in DOMAIN m.chunks |-> now(list)]
<1>1. /\ m.used \in Nat /\ m.wild \in BOOLEAN /\ m.chunks \in [{"inst", "extra"} -> Seq(Chunk)]
      /\ m = [used |-> m.used, chunks |-> m.chunks, wild |-> m.wild]
  BY DEF MemRecord
<1>2. p = [m EXCEPT !.used = mark, !.chunks = all]
  BY DEF Release
<1>3. p = [used |-> mark, chunks |-> all, wild |-> m.wild]
  <2>. HIDE DEF all, p
  <2>. QED BY <1>1, <1>2
<1>4. ASSUME NEW list \in {"inst", "extra"}
      PROVE  /\ all[list] = now(list)
             /\ now(list) \in Seq(Chunk)
             /\ Len(now(list)) = Len(m.chunks[list])
             /\ \A k \in 1 .. Len(m.chunks[list]) :
                  now(list)[k] =
                     [end |-> m.chunks[list][k].end,
                      stale |-> m.chunks[list][k].stale \/ mark < m.chunks[list][k].end]
  <2>1. PICK cs : cs = m.chunks[list]
    OBVIOUS
  <2>2. cs \in Seq(Chunk) /\ Len(cs) \in Nat /\ DOMAIN cs = 1 .. Len(cs)
    BY <1>1, <2>1
  <2>3. all[list] = now(list)
    BY <1>1
  <2>. DEFINE s == [k \in 1 .. Len(cs) |-> [cs[k] EXCEPT !.stale = @ \/ mark < cs[k].end]]
  <2>4. now(list) = s
    BY <2>1, <2>2
  <2>5. ASSUME NEW k \in 1 .. Len(cs)
        PROVE  /\ s[k] = [end |-> cs[k].end, stale |-> cs[k].stale \/ mark < cs[k].end]
               /\ s[k] \in Chunk
    <3>1. cs[k] \in Chunk
      BY <2>2, ElementOfSeq
    <3>2. /\ cs[k] = [end |-> cs[k].end, stale |-> cs[k].stale]
          /\ cs[k].end \in Nat /\ cs[k].stale \in BOOLEAN
      BY <3>1 DEF Chunk
    <3>3. s[k] = [cs[k] EXCEPT !.stale = cs[k].stale \/ mark < cs[k].end]
      OBVIOUS
    <3>. DEFINE b == cs[k].stale \/ mark < cs[k].end
    <3>4. b \in BOOLEAN
      OBVIOUS
    <3>. HIDE DEF b, s
    <3>5. s[k] = [cs[k] EXCEPT !.stale = b]
      BY <3>3 DEF b
    <3>6. s[k] = [end |-> cs[k].end, stale |-> b]
      BY <3>2, <3>5
    <3>7. s[k] \in Chunk
      BY <3>2, <3>4, <3>6 DEF Chunk
    <3>. QED BY <3>6, <3>7 DEF b
  <2>6. DOMAIN s = 1 .. Len(cs)
    OBVIOUS
  <2>7. s = [k \in 1 .. Len(cs) |-> s[k]]
    OBVIOUS
  <2>. HIDE DEF s
  <2>8. s \in [1 .. Len(cs) -> Chunk]
    BY <2>5, <2>7
  <2>9. s \in Seq(Chunk) /\ Len(s) = Len(cs)
    BY <2>2, <2>8
  <2>. HIDE DEF all, now
  <2>. QED BY <2>1, <2>3, <2>4, <2>5, <2>9
<1>5. DOMAIN all = {"inst", "extra"} /\ all = [list \in {"inst", "extra"} |-> all[list]]
  BY <1>1
<1>. HIDE DEF all, now, p
<1>6. all \in [{"inst", "extra"} -> Seq(Chunk)]
  BY <1>4, <1>5
<1>7. p \in MemRecord
  BY <1>1, <1>3, <1>6 DEF MemRecord
<1>8. p.used = mark /\ p.chunks = all /\ p.wild = m.wild
  BY <1>3
<1>9. \A list \in {"inst", "extra"} :
         /\ Len(p.chunks[list]) = Len(m.chunks[list])
         /\ \A k \in 1 .. Len(m.chunks[list]) :
              p.chunks[list][k] =
                [end |-> m.chunks[list][k].end,
                 stale |-> m.chunks[list][k].stale \/ mark < m.chunks[list][k].end]
  BY <1>4, <1>8
<1>. QED BY <1>7, <1>8, <1>9 DEF p

\* The end of a guard opened after the sentinels leaves the first chunks alone.
LEMMA ReleaseOK ==
  ASSUME NEW m, NEW ni \in Nat, NEW ne \in Nat, MemOK(m, ni, ne), NEW mark \in Nat, Base <= mark
  PROVE  MemOK(Release(m, mark), ni, ne)
<1>. DEFINE p == Release(m, mark)
<1>1. m \in MemRecord
  BY DEF MemOK
<1>2. p \in MemRecord /\ p.used = mark /\ p.wild = m.wild
  BY <1>1, ReleaseShape
<1>3. ASSUME NEW list \in {"inst", "extra"}, NEW first \in Nat, NEW n \in Nat,
             ListOK(m.chunks[list], first, n)
      PROVE  ListOK(p.chunks[list], first, n)
  <2>. DEFINE cs == m.chunks[list]
              ps == p.chunks[list]
  <2>1. /\ cs \in Seq(Chunk) /\ ps \in Seq(Chunk)
    BY <1>1, <1>2 DEF MemRecord
  <2>2. cs # <<>> /\ ~cs[1].stale /\ cs[1].end <= Base /\ (n <= first => Len(cs) = 1)
    BY <1>3 DEF ListOK
  <2>3. 1 \in 1 .. Len(cs)
    BY <2>1, <2>2
  <2>4. cs[1] \in Chunk
    BY <2>1, <2>3, ElementOfSeq
  <2>5. /\ Len(ps) = Len(cs)
        /\ ps[1] = [end |-> cs[1].end, stale |-> cs[1].stale \/ mark < cs[1].end]
    BY <1>1, <2>3, ReleaseShape
  <2>6. cs[1].end \in Nat /\ ~(mark < cs[1].end)
    BY <2>2, <2>4, Sizes DEF Chunk
  <2>. HIDE DEF cs, ps
  <2>7. ~ps[1].stale /\ ps[1].end = cs[1].end
    <3>. DEFINE b == cs[1].stale \/ mark < cs[1].end
    <3>1. b = FALSE
      BY <2>2, <2>6
    <3>2. ps[1] = [end |-> cs[1].end, stale |-> b]
      BY <2>5
    <3>. HIDE DEF b
    <3>3. ps[1].stale = b /\ ps[1].end = cs[1].end
      BY <3>2
    <3>. QED BY <3>1, <3>3
  <2>8. ps # <<>>
    BY <2>1, <2>3, <2>5
  <2>9. ListOK(ps, first, n)
    BY <2>2, <2>5, <2>7, <2>8 DEF ListOK
  <2>. QED BY <2>9 DEF ps
<1>4. ListOK(p.chunks["inst"], InstChunk, ni) /\ ListOK(p.chunks["extra"], ExtraChunk, ne)
  BY <1>3, Sizes DEF MemOK
<1>. HIDE DEF p
<1>5. MemOK(p, ni, ne)
  BY <1>2, <1>4 DEF MemOK
<1>. QED BY <1>5 DEF p

\* Lists that fit into their first chunks are copied from memory of their own.
LEMMA CopyOwned ==
  ASSUME NEW m, NEW ni \in Nat, NEW ne \in Nat, MemOK(m, ni, ne)
  PROVE  /\ Copy(m) \in MemRecord
         /\ Copy(m).wild => ni > InstChunk \/ ne > ExtraChunk
<1>. DEFINE w == m.wild \/ \E list \in DOMAIN m.chunks :
                             \E k \in DOMAIN m.chunks[list] : m.chunks[list][k].stale
<1>1. /\ m.used \in Nat /\ m.wild \in BOOLEAN /\ m.chunks \in [{"inst", "extra"} -> Seq(Chunk)]
      /\ m = [used |-> m.used, chunks |-> m.chunks, wild |-> m.wild]
  BY DEF MemOK, MemRecord
<1>2. Copy(m) = [m EXCEPT !.wild = w] /\ w \in BOOLEAN
  BY DEF Copy
<1>3. Copy(m) = [used |-> m.used, chunks |-> m.chunks, wild |-> w]
  <2>. HIDE DEF w
  <2>. QED BY <1>1, <1>2
<1>4. Copy(m) \in MemRecord /\ Copy(m).wild = w
  <2>. HIDE DEF w
  <2>. QED BY <1>1, <1>2, <1>3 DEF MemRecord
<1>5. w => ni > InstChunk \/ ne > ExtraChunk
  <2>1. SUFFICES ASSUME w, ~(ni > InstChunk), ~(ne > ExtraChunk) PROVE FALSE
    OBVIOUS
  <2>2. ni <= InstChunk /\ ne <= ExtraChunk
    BY <2>1, Sizes
  <2>3. ~m.wild
    BY <2>1 DEF MemOK
  <2>4. PICK list \in {"inst", "extra"} : \E k \in DOMAIN m.chunks[list] : m.chunks[list][k].stale
    BY <1>1, <2>1, <2>3
  <2>5. /\ m.chunks["inst"] \in Seq(Chunk) /\ m.chunks["extra"] \in Seq(Chunk)
    BY <1>1
  <2>6. /\ Len(m.chunks["inst"]) = 1 /\ ~m.chunks["inst"][1].stale
        /\ Len(m.chunks["extra"]) = 1 /\ ~m.chunks["extra"][1].stale
    BY <2>2 DEF MemOK, ListOK
  <2>7. DOMAIN m.chunks["inst"] = 1 .. 1 /\ DOMAIN m.chunks["extra"] = 1 .. 1
    BY <2>5, <2>6
  <2>8. \A k \in 1 .. 1 : k = 1
    OBVIOUS
  <2>. QED BY <2>4, <2>6, <2>7, <2>8
<1>. HIDE DEF w
<1>. QED BY <1>4, <1>5

\* The sentinels allocate the first chunks.
LEMMA StartOK ==
  LET m == Push(Push(NoMem, "inst", 0), "extra", 0)
  IN MemOK(m, 1, 1) /\ m.used = Base
<1>. DEFINE a == [end |-> InstChunk, stale |-> FALSE]
            b == [end |-> InstChunk + ExtraChunk, stale |-> FALSE]
            one == Push(NoMem, "inst", 0)
            two == Push(one, "extra", 0)
            c0 == [list \in {"inst", "extra"} |-> <<>>]
            c1 == [c0 EXCEPT !["inst"] = <<a>>]
            c2 == [c1 EXCEPT !["extra"] = <<b>>]
<1>1. a \in Chunk /\ b \in Chunk
  BY Sizes DEF Chunk
<1>2. c0["inst"] = <<>> /\ c0["extra"] = <<>>
  OBVIOUS
<1>3. c1["inst"] = <<a>> /\ c1["extra"] = <<>>
  OBVIOUS
<1>4. c2["inst"] = <<a>> /\ c2["extra"] = <<b>>
  OBVIOUS
<1>5. c2 \in [{"inst", "extra"} -> Seq(Chunk)]
  <2>1. <<a>> \in Seq(Chunk) /\ <<b>> \in Seq(Chunk)
    BY <1>1
  <2>2. c2 = [list \in {"inst", "extra"} |-> c2[list]]
    OBVIOUS
  <2>. HIDE DEF a, b, c2
  <2>. QED BY <1>4, <2>1, <2>2
<1>6. Append(<<>>, a) = <<a>> /\ Append(<<>>, b) = <<b>>
  OBVIOUS
<1>7. one = [used |-> InstChunk, chunks |-> c1, wild |-> FALSE]
  <2>1. /\ NoMem = [used |-> 0, chunks |-> c0, wild |-> FALSE]
        /\ NoMem.chunks = c0 /\ NoMem.used = 0
    BY DEF NoMem
  <2>2. First("inst") = InstChunk /\ Capacity(First("inst"), <<>>) = 0 /\ 0 + InstChunk = InstChunk
    BY Sizes DEF First, Capacity
  <2>. HIDE DEF c0
  <2>3. one = [NoMem EXCEPT !.used = InstChunk, !.chunks = c1]
    BY <1>2, <1>6, <2>1, <2>2 DEF Push
  <2>. HIDE DEF c1, one
  <2>. QED BY <2>1, <2>3
<1>8. two = [used |-> Base, chunks |-> c2, wild |-> FALSE]
  <2>. HIDE DEF one, c1
  <2>1. one.chunks = c1 /\ one.used = InstChunk
    BY <1>7
  <2>2. First("extra") = ExtraChunk /\ Capacity(First("extra"), <<>>) = 0
    BY Sizes DEF First, Capacity
  <2>3. two = [one EXCEPT !.used = InstChunk + ExtraChunk, !.chunks = c2]
    BY <1>3, <1>6, <2>1, <2>2 DEF Push
  <2>. HIDE DEF c2, two
  <2>. QED BY <1>7, <2>3 DEF Base
<1>. HIDE DEF two, c2
<1>9. two \in MemRecord
  BY <1>5, <1>8, Sizes DEF MemRecord
<1>10. ListOK(<<a>>, InstChunk, 1) /\ ListOK(<<b>>, ExtraChunk, 1)
  <2>1. a.stale = FALSE /\ b.stale = FALSE /\ a.end = InstChunk /\ b.end = Base
    BY DEF Base
  <2>2. InstChunk <= Base
    BY Sizes DEF Base
  <2>3. Base <= Base
    BY Sizes
  <2>. HIDE DEF a, b
  <2>. QED BY <2>1, <2>2, <2>3 DEF ListOK
<1>11. two.used = Base /\ two.chunks = c2 /\ two.wild = FALSE /\ Base <= Base
  BY <1>8, Sizes
<1>12. MemOK(two, 1, 1)
  <2>. HIDE DEF a, b
  <2>. QED BY <1>4, <1>9, <1>10, <1>11 DEF MemOK
<1>. QED BY <1>11, <1>12 DEF two

-----------------------------------------------------------------------------
(* Calls and lists *)

LEMMA CallsLater ==
  ASSUME NEW calls \in Seq(FrameRecord), NEW c \in Nat, NEW e \in Nat, c <= e, CallsOK(calls, c)
  PROVE  CallsOK(calls, e)
<1>1. \A k \in 1 .. Len(calls) : calls[k] \in FrameRecord
  BY ElementOfSeq
<1>2. \A k \in 1 .. Len(calls) : calls[k].anchor \in Nat
  BY <1>1 DEF FrameRecord
<1>. QED BY <1>2 DEF CallsOK

LEMMA LastCall ==
  ASSUME NEW calls \in Seq(FrameRecord), calls # <<>>, NEW c, CallsOK(calls, c)
  PROVE  /\ Last(calls) \in FrameRecord
         /\ Last(calls).kind = "top" <=> Len(calls) = 1
         /\ Last(calls).anchor <= c
         /\ Base <= Last(calls).mark
<1>1. Len(calls) \in 1 .. Len(calls)
  OBVIOUS
<1>. QED BY <1>1, ElementOfSeq DEF CallsOK, Last

LEMMA CallMade ==
  ASSUME NEW calls \in Seq(FrameRecord), calls # <<>>, NEW c, CallsOK(calls, c),
         NEW f \in FrameRecord, f.kind # "top", f.anchor <= c, Base <= f.mark
  PROVE  Append(calls, f) \in Seq(FrameRecord) /\ Append(calls, f) # <<>> /\ CallsOK(Append(calls, f), c)
<1>. DEFINE s == Append(calls, f)
<1>1. /\ s \in Seq(FrameRecord) /\ Len(s) = Len(calls) + 1 /\ Len(calls) \in Nat /\ Len(calls) # 0
      /\ s[Len(calls) + 1] = f /\ \A k \in 1 .. Len(calls) : s[k] = calls[k]
  OBVIOUS
<1>. HIDE DEF s
<1>2. \A k \in 1 .. Len(s) : k \in 1 .. Len(calls) \/ (k = Len(calls) + 1 /\ k # 1)
  BY <1>1
<1>3. CallsOK(s, c)
  BY <1>1, <1>2 DEF CallsOK
<1>4. s # <<>>
  BY <1>1
<1>. QED BY <1>1, <1>3, <1>4 DEF s

LEMMA CallReturned ==
  ASSUME NEW calls \in Seq(FrameRecord), calls # <<>>, Len(calls) # 1, NEW c, CallsOK(calls, c)
  PROVE  Front(calls) \in Seq(FrameRecord) /\ Front(calls) # <<>> /\ CallsOK(Front(calls), c)
<1>. DEFINE s == Front(calls)
            n == Len(calls) - 1
<1>1. Len(calls) \in Nat /\ n \in Nat /\ n # 0 /\ 1 \in Nat /\ \A k \in 1 .. n : k \in 1 .. Len(calls)
  OBVIOUS
<1>2. s = [k \in 1 .. n |-> calls[k]]
  <2>1. s = SubSeq(calls, 1, n)
    BY DEF Front
  <2>. HIDE DEF s
  <2>2. /\ Len(s) = n
        /\ s \in Seq(FrameRecord)
        /\ \A k \in 1 .. n : s[k] = calls[k]
    <3>1. \A k \in 1 .. n : k \in 1 .. Len(calls) /\ 1 + k - 1 = k
      BY <1>1
    <3>2. 1 \in 1 .. Len(calls) + 1 /\ n \in 1 - 1 .. Len(calls) /\ n - 1 + 1 = n
      BY <1>1
    <3>. HIDE DEF n
    <3>. QED BY <2>1, <3>1, <3>2, SubSeqProperties
  <2>. QED BY <2>2
<1>. HIDE DEF s, n
<1>3. \A k \in 1 .. n : calls[k] \in FrameRecord
  BY <1>1, ElementOfSeq
<1>4. s \in [1 .. n -> FrameRecord]
  BY <1>2, <1>3
<1>5. s \in Seq(FrameRecord) /\ Len(s) = n
  BY <1>1, <1>4
<1>6. \A k \in 1 .. n : s[k] = calls[k]
  BY <1>2
<1>7. s # <<>>
  BY <1>1, <1>5
<1>8. CallsOK(s, c)
  BY <1>1, <1>5, <1>6 DEF CallsOK
<1>. QED BY <1>5, <1>7, <1>8 DEF s

LEMMA AnchorMoved ==
  ASSUME NEW calls \in Seq(FrameRecord), calls # <<>>, NEW c, CallsOK(calls, c), NEW a \in Nat, a <= c
  PROVE  LET s == [calls EXCEPT ![Len(calls)].anchor = a]
         IN s \in Seq(FrameRecord) /\ s # <<>> /\ CallsOK(s, c)
<1>. DEFINE s == [calls EXCEPT ![Len(calls)].anchor = a]
            n == Len(calls)
            f == [calls[n] EXCEPT !.anchor = a]
<1>1. n \in Nat /\ n # 0 /\ n \in 1 .. n /\ calls = [k \in 1 .. n |-> calls[k]]
  OBVIOUS
<1>2. calls[n] \in FrameRecord
  BY <1>1, ElementOfSeq
<1>3. f \in FrameRecord /\ f.kind = calls[n].kind /\ f.anchor = a /\ f.mark = calls[n].mark
  BY <1>2 DEF FrameRecord
<1>4. s = [calls EXCEPT ![n] = f]
  OBVIOUS
<1>. HIDE DEF f, s
<1>5. s \in Seq(FrameRecord) /\ Len(s) = n
  BY <1>1, <1>3, <1>4
<1>6. \A k \in 1 .. n : s[k] = IF k = n THEN f ELSE calls[k]
  BY <1>1, <1>4
<1>7. s # <<>>
  BY <1>1, <1>5
<1>8. CallsOK(s, c)
  BY <1>3, <1>5, <1>6 DEF CallsOK
<1>. QED BY <1>5, <1>7, <1>8 DEF s

LEMMA PointMore ==
  ASSUME NEW list \in Seq(Instruction), NEW n \in Nat, NEW m \in Nat, n <= m, PointInto(list, n)
  PROVE  PointInto(list, m)
<1>1. \A k \in 1 .. Len(list) : list[k] \in Instruction
  BY ElementOfSeq
<1>2. \A k \in 1 .. Len(list) : list[k].extra \in Nat
  BY <1>1 DEF Instruction
<1>. QED BY <1>2 DEF PointInto

LEMMA PointAppend ==
  ASSUME NEW list \in Seq(Instruction), NEW n \in Nat, PointInto(list, n),
         NEW x \in Instruction, x.extra < n
  PROVE  /\ Append(list, x) \in Seq(Instruction)
         /\ Append(list, x) # <<>>
         /\ Len(Append(list, x)) = Len(list) + 1
         /\ PointInto(Append(list, x), n)
<1>. DEFINE s == Append(list, x)
<1>1. /\ s \in Seq(Instruction) /\ Len(s) = Len(list) + 1 /\ Len(list) \in Nat
      /\ s[Len(list) + 1] = x /\ \A k \in 1 .. Len(list) : s[k] = list[k]
  OBVIOUS
<1>. HIDE DEF s
<1>2. \A k \in 1 .. Len(s) : k \in 1 .. Len(list) \/ k = Len(list) + 1
  BY <1>1
<1>3. PointInto(s, n)
  BY <1>1, <1>2 DEF PointInto
<1>4. s # <<>>
  BY <1>1
<1>. QED BY <1>1, <1>3, <1>4 DEF s

LEMMA PointLast ==
  ASSUME NEW list \in Seq(Instruction), list # <<>>, NEW e \in Nat, NEW n \in Nat, e < n,
         PointInto(list, e)
  PROVE  LET s == [list EXCEPT ![Len(list)].extra = e]
         IN s \in Seq(Instruction) /\ s # <<>> /\ Len(s) = Len(list) /\ PointInto(s, n)
<1>. DEFINE s == [list EXCEPT ![Len(list)].extra = e]
            m == Len(list)
            f == [list[m] EXCEPT !.extra = e]
<1>1. m \in Nat /\ m # 0 /\ m \in 1 .. m /\ list = [k \in 1 .. m |-> list[k]]
  OBVIOUS
<1>2. \A k \in 1 .. m : list[k] \in Instruction
  BY <1>1, ElementOfSeq
<1>3. f \in Instruction /\ f.extra = e
  BY <1>1, <1>2 DEF Instruction
<1>4. s = [list EXCEPT ![m] = f]
  OBVIOUS
<1>5. \A k \in 1 .. m : list[k].extra \in Nat
  BY <1>2 DEF Instruction
<1>. HIDE DEF f, s
<1>6. s \in Seq(Instruction) /\ Len(s) = m
  BY <1>1, <1>3, <1>4
<1>7. \A k \in 1 .. m : s[k] = IF k = m THEN f ELSE list[k]
  BY <1>1, <1>4
<1>8. s # <<>>
  BY <1>1, <1>6
<1>9. PointInto(s, n)
  BY <1>3, <1>5, <1>6, <1>7 DEF PointInto
<1>. QED BY <1>6, <1>8, <1>9 DEF s

-----------------------------------------------------------------------------
(* The steps *)

LEMMA NoMemIs == NoMem \in MemRecord /\ ~NoMem.wild
<1>. DEFINE c == [list \in {"inst", "extra"} |-> <<>>]
<1>1. c \in [{"inst", "extra"} -> Seq(Chunk)]
  OBVIOUS
<1>2. NoMem = [used |-> 0, chunks |-> c, wild |-> FALSE]
  BY DEF NoMem
<1>. HIDE DEF c
<1>. QED BY <1>1, <1>2 DEF MemRecord

LEMMA InitStep == Init => EInv
<1>. SUFFICES ASSUME Init PROVE EInv
  OBVIOUS
<1>1. PICK i \in Input : section = i.section /\ data = i.data
  BY DEF Init
<1>2. section \in DOMAIN Section /\ data \in Seq(0 .. 255)
  BY <1>1, InputAssumption
<1>3. Section[section] \in FieldSet
  BY <1>2, SectionIn
<1>4. todo \in Seq(FieldSet)
  BY <1>3, OneField DEF Init
<1>5. PointInto(instructions, Len(extras))
  BY DEF Init, PointInto
<1>6. curr \in 0 .. Len(data)
  BY <1>2 DEF Init
<1>7. mem \in MemRecord
  BY NoMemIs DEF Init
<1>8. Types
  BY <1>2, <1>4, <1>5, <1>6, <1>7 DEF Types, Init
<1>9. pc = "fields" /\ InFields
  BY DEF Init, InFields
<1>. QED BY <1>8, <1>9 DEF EInv

LEMMA FieldStep == EInv /\ ReadField => EInv'
<1>. SUFFICES ASSUME EInv, ReadField PROVE EInv'
  OBVIOUS
<1>. DEFINE read == Read(data, curr, Head(todo))
<1>1. Types /\ InFields /\ pc = "fields"
  BY DEF EInv, ReadField
<1>2. /\ data \in Seq(0 .. 255) /\ curr \in 0 .. Len(data) /\ todo \in Seq(FieldSet) /\ todo # <<>>
      /\ Head(todo) # <<"expr">>
  BY <1>1 DEF Types, ReadField
<1>3. Head(todo) \in FieldSet /\ Tail(todo) \in Seq(FieldSet)
  BY <1>2
<1>4. Outcome(read, curr, Len(data)) /\ Honest(read)
  BY <1>2, <1>3, ReadOutcome
<1>5. /\ curr' = read.curr
      /\ diags' = diags \cup read.diags
      /\ todo' = read.more \o Tail(todo)
      /\ ok' = read.ok
      /\ pc' = IF read.ok THEN "fields" ELSE "done"
      /\ UNCHANGED <<input, frames, lists, mem>>
  BY DEF ReadField
<1>. HIDE DEF read
<1>6. /\ read.ok \in BOOLEAN /\ read.curr \in curr .. Len(data) /\ read.more \in Seq(FieldSet)
      /\ \A d \in read.diags : Ranged(d, Len(data))
  BY <1>4 DEF Outcome
<1>7. data' = data /\ frames' = frames /\ instructions' = instructions /\ extras' = extras /\ mem' = mem
  BY <1>5 DEF input, lists
<1>8. curr' \in 0 .. Len(data)
  BY <1>2, <1>5, <1>6
<1>9. todo' \in Seq(FieldSet)
  BY <1>3, <1>5, <1>6, ConcatProperties
<1>10. \A d \in diags' : Ranged(d, Len(data))
  BY <1>1, <1>5, <1>6 DEF Types
<1>11. Types'
  BY <1>1, <1>5, <1>6, <1>7, <1>8, <1>9, <1>10 DEF Types
<1>12. CASE read.ok
  <2>1. read.diags = {}
    BY <1>4, <1>12 DEF Honest
  <2>2. ok' = TRUE /\ diags' = {} /\ pc' = "fields"
    BY <1>1, <1>5, <1>6, <1>12, <2>1 DEF InFields
  <2>3. InFields'
    BY <1>1, <1>7, <2>2 DEF InFields
  <2>. QED BY <1>11, <2>2, <2>3 DEF EInv
<1>13. CASE ~read.ok
  <2>1. read.diags # {}
    BY <1>4, <1>13 DEF Honest
  <2>2. ok' = FALSE /\ diags' # {} /\ pc' = "done"
    BY <1>5, <1>6, <1>13, <2>1
  <2>3. ~mem'.wild
    BY <1>1, <1>7, NoMemIs DEF InFields
  <2>4. ErrorsReported' /\ FirstChunksOwned'
    BY <2>2, <2>3 DEF ErrorsReported, FirstChunksOwned
  <2>. QED BY <1>11, <2>2, <2>4 DEF EInv
<1>. QED BY <1>12, <1>13

LEMMA FieldsDoneStep == EInv /\ FieldsDone => EInv'
<1>. SUFFICES ASSUME EInv, FieldsDone PROVE EInv'
  OBVIOUS
<1>1. Types /\ InFields /\ pc = "fields"
  BY DEF EInv, FieldsDone
<1>2. /\ pc' = "done" /\ todo = <<>> /\ data' = data /\ curr' = curr /\ diags' = diags /\ todo' = todo
      /\ ok' = ok /\ frames' = frames /\ instructions' = instructions /\ extras' = extras /\ mem' = mem
  BY DEF FieldsDone, input, lists
<1>3. Types'
  BY <1>1, <1>2 DEF Types
<1>4. ~mem'.wild /\ ok' = TRUE /\ diags' = {} /\ todo' = <<>>
  BY <1>1, <1>2, NoMemIs DEF InFields
<1>5. ErrorsReported' /\ FirstChunksOwned'
  BY <1>4 DEF ErrorsReported, FirstChunksOwned
<1>. QED BY <1>2, <1>3, <1>5 DEF EInv

\* What a step has to establish that stays in the expression.
LEMMA StaysInside ==
  ASSUME data \in Seq(0 .. 255), data' = data, curr' \in 0 .. Len(data),
         \A d \in diags' : Ranged(d, Len(data)),
         todo' \in Seq(FieldSet), ok' \in BOOLEAN,
         pc' \in {"opcode", "operands", "return", "panicked"},
         frames' \in Seq(FrameRecord), frames' # <<>>, CallsOK(frames', curr'),
         instructions' \in Seq(Instruction), instructions' # <<>>,
         extras' \in Seq(Extra), extras' # <<>>, PointInto(instructions', Len(extras')),
         MemOK(mem', Len(instructions'), Len(extras'))
  PROVE  EInv'
<1>1. mem' \in MemRecord
  BY DEF MemOK
<1>2. pc' \in {"fields", "opcode", "operands", "return", "done", "panicked"}
  OBVIOUS
<1>3. Types'
  BY <1>1, <1>2 DEF Types
<1>4. InExpr'
  BY DEF InExpr
<1>. QED BY <1>3, <1>4 DEF EInv

\* What holds inside an expression.
LEMMA InsideFacts ==
  ASSUME EInv, pc \in {"opcode", "operands", "return", "panicked"}
  PROVE  /\ data \in Seq(0 .. 255) /\ curr \in 0 .. Len(data) /\ curr \in Nat /\ Len(data) \in Nat
         /\ \A d \in diags : Ranged(d, Len(data))
         /\ todo \in Seq(FieldSet) /\ ok \in BOOLEAN
         /\ frames \in Seq(FrameRecord) /\ frames # <<>> /\ CallsOK(frames, curr)
         /\ instructions \in Seq(Instruction) /\ instructions # <<>>
         /\ extras \in Seq(Extra) /\ extras # <<>> /\ PointInto(instructions, Len(extras))
         /\ Len(instructions) \in Nat /\ Len(extras) \in Nat /\ Len(extras) # 0
         /\ MemOK(mem, Len(instructions), Len(extras))
<1>1. Types /\ InExpr
  BY DEF EInv
<1>2. curr \in 0 .. Len(data) /\ data \in Seq(0 .. 255)
  BY <1>1 DEF Types
<1>3. curr \in Nat /\ Len(data) \in Nat
  BY <1>2
<1>4. Len(instructions) \in Nat /\ Len(extras) \in Nat /\ Len(extras) # 0
  BY <1>1 DEF Types, InExpr
<1>. QED BY <1>1, <1>2, <1>3, <1>4 DEF Types, InExpr

LEMMA StartExprStep == EInv /\ StartExpr => EInv'
<1>. SUFFICES ASSUME EInv, StartExpr PROVE EInv'
  OBVIOUS
<1>. DEFINE m == Push(Push(NoMem, "inst", 0), "extra", 0)
            f == [kind |-> "top", pos |-> 0, mark |-> m.used, anchor |-> curr', else |-> 0]
            i == [op |-> 0, extra |-> 0]
            e == <<"sentinel", 0>>
<1>1. Types
  BY DEF EInv
<1>2. /\ data' = data /\ curr' = curr /\ diags' = diags /\ ok' = ok /\ todo' = Tail(todo) /\ todo # <<>>
      /\ instructions' = <<i>> /\ extras' = <<e>> /\ mem' = m /\ pc' = "opcode"
  BY DEF StartExpr, input
<1>3. frames' = <<f>>
  BY <1>2 DEF StartExpr, Frame
<1>4. MemOK(m, 1, 1) /\ m.used = Base
  BY StartOK
<1>. HIDE DEF m
<1>5. data \in Seq(0 .. 255) /\ curr \in 0 .. Len(data) /\ curr \in Nat
  BY <1>1 DEF Types
<1>6. f \in FrameRecord /\ f.kind = "top" /\ f.anchor = curr /\ f.mark = Base
  BY <1>2, <1>4, <1>5, Sizes DEF FrameRecord
<1>. HIDE DEF f
<1>7. frames' \in Seq(FrameRecord) /\ frames' # <<>> /\ CallsOK(frames', curr')
  <2>1. <<f>> \in Seq(FrameRecord) /\ <<f>> # <<>> /\ Len(<<f>>) = 1 /\ <<f>>[1] = f
    BY <1>6
  <2>2. \A k \in 1 .. 1 : k = 1
    OBVIOUS
  <2>3. curr <= curr /\ Base <= Base
    BY <1>5, Sizes
  <2>4. CallsOK(<<f>>, curr)
    BY <1>6, <2>1, <2>2, <2>3 DEF CallsOK
  <2>. QED BY <1>2, <1>3, <2>1, <2>4
<1>8. i \in Instruction /\ i.extra = 0 /\ e \in Extra
  BY DEF Instruction, Extra
<1>. HIDE DEF i, e
<1>9. /\ instructions' \in Seq(Instruction) /\ instructions' # <<>> /\ Len(instructions') = 1
      /\ extras' \in Seq(Extra) /\ extras' # <<>> /\ Len(extras') = 1
  BY <1>2, <1>8
<1>10. PointInto(instructions', Len(extras'))
  BY <1>2, <1>8, <1>9 DEF PointInto
<1>11. todo' \in Seq(FieldSet) /\ ok' \in BOOLEAN
  BY <1>1, <1>2 DEF Types
<1>12. \A d \in diags' : Ranged(d, Len(data))
  BY <1>1, <1>2 DEF Types
<1>13. MemOK(mem', Len(instructions'), Len(extras'))
  BY <1>2, <1>4, <1>9
<1>14. pc' \in {"opcode", "operands", "return", "panicked"} /\ curr' \in 0 .. Len(data)
  BY <1>2, <1>5
<1>. QED BY <1>2, <1>5, <1>7, <1>9, <1>10, <1>11, <1>12, <1>13, <1>14, StaysInside

LEMMA OpcodeStep == EInv /\ ReadOpcode => EInv'
<1>. SUFFICES ASSUME EInv, ReadOpcode PROVE EInv'
  OBVIOUS
<1>. DEFINE read == ReadByte(data, curr)
            op == IF read.ok THEN ByteAt(data, curr) ELSE 0
            i == [op |-> op, extra |-> 0]
<1>1. pc \in {"opcode", "operands", "return", "panicked"}
  BY DEF ReadOpcode
<1>2. /\ data \in Seq(0 .. 255) /\ curr \in 0 .. Len(data) /\ curr \in Nat /\ Len(data) \in Nat
      /\ \A d \in diags : Ranged(d, Len(data))
      /\ todo \in Seq(FieldSet) /\ ok \in BOOLEAN
      /\ frames \in Seq(FrameRecord) /\ frames # <<>> /\ CallsOK(frames, curr)
      /\ instructions \in Seq(Instruction) /\ instructions # <<>>
      /\ extras \in Seq(Extra) /\ extras # <<>> /\ PointInto(instructions, Len(extras))
      /\ Len(instructions) \in Nat /\ Len(extras) \in Nat /\ Len(extras) # 0
      /\ MemOK(mem, Len(instructions), Len(extras))
  BY <1>1, InsideFacts
<1>3. /\ data' = data /\ todo' = todo /\ ok' = ok /\ frames' = frames /\ extras' = extras
      /\ curr' = read.curr /\ diags' = diags \cup read.diags
  BY DEF ReadOpcode, input
<1>4. Outcome(read, curr, Len(data)) /\ (read.ok => ByteAt(data, curr) \in 0 .. 255)
  BY <1>2, ReadByteOutcome
<1>5. \/ instructions' = Append(instructions, i) /\ mem' = Push(mem, "inst", Len(instructions))
      \/ instructions' = instructions /\ mem' = mem
  BY DEF ReadOpcode
<1>6. pc' \in {"opcode", "operands", "return", "panicked"}
  <2>1. pc' = CASE op \in Until(Last(frames)) -> "return"
                [] op \notin Until(Last(frames)) /\ op = Else -> "panicked"
                [] OTHER -> "operands"
    BY DEF ReadOpcode
  <2>. HIDE DEF op
  <2>. QED BY <2>1
<1>. HIDE DEF read
<1>7. op \in 0 .. 255
  BY <1>4
<1>. HIDE DEF op
<1>8. i \in Instruction /\ i.extra < Len(extras)
  BY <1>2, <1>7 DEF Instruction
<1>. HIDE DEF i
<1>9. /\ instructions' \in Seq(Instruction) /\ instructions' # <<>>
      /\ PointInto(instructions', Len(extras))
      /\ MemOK(mem', Len(instructions'), Len(extras))
  <2>1. CASE instructions' = instructions /\ mem' = mem
    BY <1>2, <2>1
  <2>2. CASE instructions' = Append(instructions, i) /\ mem' = Push(mem, "inst", Len(instructions))
    <3>1. /\ Append(instructions, i) \in Seq(Instruction) /\ Append(instructions, i) # <<>>
          /\ Len(Append(instructions, i)) = Len(instructions) + 1
          /\ PointInto(Append(instructions, i), Len(extras))
      BY <1>2, <1>8, PointAppend
    <3>2. MemOK(Push(mem, "inst", Len(instructions)), Len(instructions) + 1, Len(extras))
      BY <1>2, PushInst
    <3>. QED BY <2>2, <3>1, <3>2
  <2>. QED BY <1>5, <2>1, <2>2
<1>10. /\ read.curr \in curr .. Len(data) /\ \A d \in read.diags : Ranged(d, Len(data))
  BY <1>4 DEF Outcome
<1>11. curr' \in 0 .. Len(data) /\ curr <= curr' /\ curr' \in Nat
  BY <1>2, <1>3, <1>10
<1>12. \A d \in diags' : Ranged(d, Len(data))
  BY <1>2, <1>3, <1>10
<1>13. CallsOK(frames', curr')
  BY <1>2, <1>3, <1>11, CallsLater
<1>. QED BY <1>2, <1>3, <1>6, <1>9, <1>11, <1>12, <1>13, StaysInside

LEMMA BadBlockStep == EInv /\ BadBlock => EInv'
<1>. SUFFICES ASSUME EInv, BadBlock PROVE EInv'
  OBVIOUS
<1>1. pc \in {"opcode", "operands", "return", "panicked"}
  BY DEF BadBlock
<1>2. /\ data \in Seq(0 .. 255) /\ curr \in 0 .. Len(data) /\ curr \in Nat /\ Len(data) \in Nat
      /\ \A d \in diags : Ranged(d, Len(data))
      /\ todo \in Seq(FieldSet) /\ ok \in BOOLEAN
      /\ frames \in Seq(FrameRecord) /\ frames # <<>> /\ CallsOK(frames, curr)
      /\ instructions \in Seq(Instruction) /\ instructions # <<>>
      /\ extras \in Seq(Extra) /\ extras # <<>> /\ PointInto(instructions, Len(extras))
      /\ Len(instructions) \in Nat /\ Len(extras) \in Nat
      /\ MemOK(mem, Len(instructions), Len(extras))
  BY <1>1, InsideFacts
<1>3. /\ data' = data /\ todo' = todo /\ ok' = ok /\ frames' = frames /\ extras' = extras
      /\ instructions' = instructions /\ pc' = "opcode"
      /\ curr' = ReadBlockType.curr /\ diags' = diags \cup ReadBlockType.diags
      /\ mem' = [mem EXCEPT !.used = @ + BlockTypeSlice]
  BY DEF BadBlock, input, lists
<1>4. Outcome(ReadBlockType, curr, Len(data)) /\ BlockTypeSlice \in Nat
  BY <1>2, BlockTypeOutcome
<1>5. MemOK(mem', Len(instructions'), Len(extras'))
  BY <1>2, <1>3, <1>4, SliceOK
<1>6. /\ ReadBlockType.curr \in curr .. Len(data)
      /\ \A d \in ReadBlockType.diags : Ranged(d, Len(data))
  BY <1>4 DEF Outcome
<1>7. curr' \in 0 .. Len(data) /\ curr <= curr' /\ curr' \in Nat
  BY <1>2, <1>3, <1>6
<1>8. \A d \in diags' : Ranged(d, Len(data))
  BY <1>2, <1>3, <1>6
<1>9. CallsOK(frames', curr')
  BY <1>2, <1>3, <1>7, CallsLater
<1>10. pc' \in {"opcode", "operands", "return", "panicked"}
  BY <1>3
<1>. QED BY <1>2, <1>3, <1>5, <1>7, <1>8, <1>9, <1>10, StaysInside

LEMMA ExtraAppend ==
  ASSUME NEW list \in Seq(Extra), NEW x \in Extra
  PROVE  /\ Append(list, x) \in Seq(Extra) /\ Append(list, x) # <<>>
         /\ Len(Append(list, x)) = Len(list) + 1
<1>1. Append(list, x) \in Seq(Extra) /\ Len(Append(list, x)) = Len(list) + 1 /\ Len(list) \in Nat
  OBVIOUS
<1>2. PICK s : s = Append(list, x)
  OBVIOUS
<1>3. s # <<>>
  BY <1>1, <1>2
<1>. QED BY <1>1, <1>2, <1>3

LEMMA ExtraConcat ==
  ASSUME NEW list \in Seq(Extra), NEW s \in Seq(Extra)
  PROVE  list \o s \in Seq(Extra) /\ Len(list \o s) = Len(list) + Len(s)
<1>1. list \o s \in Seq(Extra)
  BY ConcatProperties
<1>2. Len(list \o s) = Len(list) + Len(s)
  OBVIOUS
<1>. QED BY <1>1, <1>2

LEMMA EnterBlockStep == EInv /\ EnterBlock => EInv'
<1>. SUFFICES ASSUME EInv, EnterBlock PROVE EInv'
  OBVIOUS
<1>. DEFINE kind == IF Inst.op = If THEN "if" ELSE "block"
            f == [kind |-> kind, pos |-> Pos, mark |-> mem'.used, anchor |-> curr', else |-> 0]
            x == <<"type", Pos>>
            n == Len(instructions)
            e == Len(extras)
            m == [mem EXCEPT !.used = @ + BlockTypeSlice]
<1>1. pc \in {"opcode", "operands", "return", "panicked"}
  BY DEF EnterBlock
<1>2. /\ data \in Seq(0 .. 255) /\ curr \in 0 .. Len(data) /\ curr \in Nat /\ Len(data) \in Nat
      /\ \A d \in diags : Ranged(d, Len(data))
      /\ todo \in Seq(FieldSet) /\ ok \in BOOLEAN
      /\ frames \in Seq(FrameRecord) /\ frames # <<>> /\ CallsOK(frames, curr)
      /\ instructions \in Seq(Instruction) /\ instructions # <<>>
      /\ extras \in Seq(Extra) /\ extras # <<>> /\ PointInto(instructions, e)
      /\ n \in Nat /\ e \in Nat
      /\ MemOK(mem, n, e)
  BY <1>1, InsideFacts
<1>3. /\ data' = data /\ todo' = todo /\ ok' = ok /\ diags' = diags /\ pc' = "opcode"
      /\ curr' = ReadBlockType.curr
      /\ extras' = Append(extras, x)
      /\ mem' = PushExtras(m, e, 1)
  BY DEF EnterBlock, input
<1>4. frames' = Append(frames, f)
  BY DEF EnterBlock, Frame
<1>5. Pos \in Nat /\ Pos + 1 = n
  BY <1>2 DEF Pos
<1>6. instructions' = [instructions EXCEPT ![n].extra = e]
  <2>1. instructions' = [instructions EXCEPT ![Pos + 1].extra = e]
    BY DEF EnterBlock
  <2>. HIDE DEF n, e
  <2>. QED BY <1>5, <2>1
<1>7. Outcome(ReadBlockType, curr, Len(data)) /\ BlockTypeSlice \in Nat
  BY <1>2, BlockTypeOutcome
<1>8. curr' \in 0 .. Len(data) /\ curr <= curr' /\ curr' \in Nat
  <2>1. ReadBlockType.curr \in curr .. Len(data)
    BY <1>7 DEF Outcome
  <2>. QED BY <1>2, <1>3, <2>1
<1>9. MemOK(m, n, e)
  BY <1>2, <1>7, SliceOK
<1>10. MemOK(mem', n, e + 1)
  <2>. HIDE DEF m, n, e
  <2>1. 1 \in 0 .. 3
    OBVIOUS
  <2>. QED BY <1>2, <1>3, <1>9, <2>1, PushExtrasOK
<1>11. mem'.used \in Nat /\ Base <= mem'.used
  BY <1>10 DEF MemOK, MemRecord
<1>12. kind \in {"if", "block"}
  OBVIOUS
<1>. HIDE DEF kind, m
<1>13. f \in FrameRecord /\ f.kind # "top" /\ f.anchor <= curr' /\ Base <= f.mark
  BY <1>5, <1>8, <1>11, <1>12 DEF FrameRecord
<1>. HIDE DEF f
<1>14. CallsOK(frames, curr')
  BY <1>2, <1>8, CallsLater
<1>15. frames' \in Seq(FrameRecord) /\ frames' # <<>> /\ CallsOK(frames', curr')
  BY <1>2, <1>4, <1>13, <1>14, CallMade
<1>16. x \in Extra
  BY <1>5 DEF Extra
<1>. HIDE DEF x
<1>17. extras' \in Seq(Extra) /\ extras' # <<>> /\ Len(extras') = e + 1
  BY <1>2, <1>3, <1>16, ExtraAppend
<1>18. /\ instructions' \in Seq(Instruction) /\ instructions' # <<>> /\ Len(instructions') = n
       /\ PointInto(instructions', e + 1)
  <2>1. e + 1 \in Nat /\ e < e + 1
    BY <1>2
  <2>. HIDE DEF e
  <2>. QED BY <1>2, <1>6, <2>1, PointLast
<1>19. MemOK(mem', Len(instructions'), Len(extras')) /\ PointInto(instructions', Len(extras'))
  BY <1>10, <1>17, <1>18
<1>20. pc' \in {"opcode", "operands", "return", "panicked"} /\ \A d \in diags' : Ranged(d, Len(data))
  BY <1>2, <1>3
<1>. QED BY <1>2, <1>3, <1>8, <1>15, <1>17, <1>18, <1>19, <1>20, StaysInside

-----------------------------------------------------------------------------
(* Returning *)

LEMMA ReturnFacts ==
  ASSUME EInv, pc = "return", Last(frames).kind # "top"
  PROVE  /\ Last(frames) \in FrameRecord
         /\ Last(frames).pos + 1 \in Nat /\ Last(frames).pos \in Nat /\ Last(frames).else \in Nat
         /\ Front(frames) \in Seq(FrameRecord) /\ Front(frames) # <<>> /\ CallsOK(Front(frames), curr)
         /\ MemOK(Release(mem, Last(frames).mark), Len(instructions), Len(extras))
<1>1. pc \in {"opcode", "operands", "return", "panicked"}
  OBVIOUS
<1>2. /\ frames \in Seq(FrameRecord) /\ frames # <<>> /\ CallsOK(frames, curr)
      /\ Len(instructions) \in Nat /\ Len(extras) \in Nat
      /\ MemOK(mem, Len(instructions), Len(extras))
  BY <1>1, InsideFacts
<1>3. /\ Last(frames) \in FrameRecord /\ Len(frames) # 1 /\ Base <= Last(frames).mark
  BY <1>2, LastCall
<1>4. Last(frames).pos \in Nat /\ Last(frames).else \in Nat /\ Last(frames).mark \in Nat
  BY <1>3 DEF FrameRecord
<1>5. Last(frames).pos + 1 \in Nat
  BY <1>4
<1>6. MemOK(Release(mem, Last(frames).mark), Len(instructions), Len(extras))
  BY <1>2, <1>3, <1>4, ReleaseOK
<1>7. Front(frames) \in Seq(FrameRecord) /\ Front(frames) # <<>> /\ CallsOK(Front(frames), curr)
  BY <1>2, <1>3, CallReturned
<1>. QED BY <1>3, <1>4, <1>5, <1>6, <1>7

\* The end of a call that puts `count` positions into the extras.
LEMMA Returns ==
  ASSUME EInv, pc = "return", Last(frames).kind # "top",
         data' = data, curr' = curr, diags' = diags, todo' = todo, ok' = ok,
         instructions' = instructions, pc' = "opcode",
         NEW count \in 1 .. 3, Len(extras') = Len(extras) + count, extras' \in Seq(Extra),
         mem' = PushExtras(Release(mem, Last(frames).mark), Len(extras), count),
         frames' \in Seq(FrameRecord), frames' # <<>>, CallsOK(frames', curr)
  PROVE  EInv'
<1>1. pc \in {"opcode", "operands", "return", "panicked"}
  OBVIOUS
<1>2. /\ data \in Seq(0 .. 255) /\ curr \in 0 .. Len(data) /\ curr \in Nat /\ Len(data) \in Nat
      /\ \A d \in diags : Ranged(d, Len(data))
      /\ todo \in Seq(FieldSet) /\ ok \in BOOLEAN
      /\ instructions \in Seq(Instruction) /\ instructions # <<>>
      /\ PointInto(instructions, Len(extras))
      /\ Len(instructions) \in Nat /\ Len(extras) \in Nat
  BY <1>1, InsideFacts
<1>3. count \in 0 .. 3 /\ Len(extras') \in Nat /\ Len(extras) <= Len(extras') /\ Len(extras') # 0
  BY <1>2
<1>4. MemOK(mem', Len(instructions), Len(extras) + count)
  BY <1>2, <1>3, ReturnFacts, PushExtrasOK
<1>5. MemOK(mem', Len(instructions'), Len(extras'))
  BY <1>4
<1>6. PointInto(instructions', Len(extras'))
  BY <1>2, <1>3, PointMore
<1>7. extras' # <<>>
  BY <1>3
<1>8. pc' \in {"opcode", "operands", "return", "panicked"} /\ \A d \in diags' : Ranged(d, Len(data))
  BY <1>2
<1>9. CallsOK(frames', curr')
  OBVIOUS
<1>. QED BY <1>2, <1>5, <1>6, <1>7, <1>8, <1>9, StaysInside

LEMMA ReturnBlockStep == EInv /\ ReturnBlock => EInv'
<1>. SUFFICES ASSUME EInv, ReturnBlock PROVE EInv'
  OBVIOUS
<1>. DEFINE x == <<"inst", Last(frames).pos + 1>>
<1>1. /\ pc = "return" /\ Last(frames).kind = "block" /\ Last(frames).kind # "top"
      /\ extras' = Append(extras, x)
      /\ mem' = PushExtras(Release(mem, Last(frames).mark), Len(extras), 1)
      /\ frames' = Front(frames) /\ pc' = "opcode"
      /\ data' = data /\ curr' = curr /\ diags' = diags /\ todo' = todo /\ ok' = ok
      /\ instructions' = instructions
  BY DEF ReturnBlock, input
<1>2. extras \in Seq(Extra)
  BY <1>1, InsideFacts
<1>3. x \in Extra
  BY <1>1, ReturnFacts DEF Extra
<1>. HIDE DEF x
<1>4. extras' \in Seq(Extra) /\ Len(extras') = Len(extras) + 1
  BY <1>1, <1>2, <1>3, ExtraAppend
<1>5. frames' \in Seq(FrameRecord) /\ frames' # <<>> /\ CallsOK(frames', curr)
  BY <1>1, ReturnFacts
<1>6. 1 \in 1 .. 3
  OBVIOUS
<1>. QED BY <1>1, <1>4, <1>5, <1>6, Returns

LEMMA ReturnIfStep == EInv /\ ReturnIf => EInv'
<1>. SUFFICES ASSUME EInv, ReturnIf PROVE EInv'
  OBVIOUS
<1>. DEFINE x == <<"inst", Last(frames).pos + 1>>
            y == <<"inst", 0>>
            s == <<x, y>>
<1>1. /\ pc = "return" /\ Last(frames).kind = "if" /\ Last(frames).kind # "top"
      /\ extras' = extras \o s
      /\ mem' = PushExtras(Release(mem, Last(frames).mark), Len(extras), 2)
      /\ frames' = Front(frames) /\ pc' = "opcode"
      /\ data' = data /\ curr' = curr /\ diags' = diags /\ todo' = todo /\ ok' = ok
      /\ instructions' = instructions
  BY DEF ReturnIf, input
<1>2. extras \in Seq(Extra)
  BY <1>1, InsideFacts
<1>3. x \in Extra /\ y \in Extra
  BY <1>1, ReturnFacts DEF Extra
<1>. HIDE DEF x, y
<1>4. s \in Seq(Extra) /\ Len(s) = 2
  BY <1>3
<1>. HIDE DEF s
<1>5. extras' \in Seq(Extra) /\ Len(extras') = Len(extras) + 2
  <2>1. extras \o s \in Seq(Extra) /\ Len(extras \o s) = Len(extras) + Len(s)
    BY <1>2, <1>4, ExtraConcat
  <2>. QED BY <1>1, <1>4, <2>1
<1>6. frames' \in Seq(FrameRecord) /\ frames' # <<>> /\ CallsOK(frames', curr)
  BY <1>1, ReturnFacts
<1>7. 2 \in 1 .. 3
  OBVIOUS
<1>. QED BY <1>1, <1>5, <1>6, <1>7, Returns

LEMMA EnterElseStep == EInv /\ EnterElse => EInv'
<1>. SUFFICES ASSUME EInv, EnterElse PROVE EInv'
  OBVIOUS
<1>. DEFINE x == <<"inst", Last(frames).pos + 1>>
            f == [kind |-> "else", pos |-> Last(frames).pos, mark |-> mem'.used, anchor |-> curr',
                  else |-> Len(instructions)]
            m == Release(mem, Last(frames).mark)
<1>1. /\ pc = "return" /\ Last(frames).kind = "if" /\ Last(frames).kind # "top"
      /\ extras' = Append(extras, x)
      /\ mem' = PushExtras(m, Len(extras), 1)
      /\ pc' = "opcode"
      /\ data' = data /\ curr' = curr /\ diags' = diags /\ todo' = todo /\ ok' = ok
      /\ instructions' = instructions
  BY DEF EnterElse, input
<1>2. frames' = Append(Front(frames), f)
  BY DEF EnterElse, Frame
<1>3. extras \in Seq(Extra) /\ curr \in Nat /\ Len(instructions) \in Nat /\ Len(extras) \in Nat
  BY <1>1, InsideFacts
<1>4. x \in Extra
  BY <1>1, ReturnFacts DEF Extra
<1>. HIDE DEF x
<1>5. extras' \in Seq(Extra) /\ Len(extras') = Len(extras) + 1
  BY <1>1, <1>3, <1>4, ExtraAppend
<1>6. MemOK(m, Len(instructions), Len(extras)) /\ Last(frames).pos \in Nat
  BY <1>1, ReturnFacts
<1>7. 1 \in 1 .. 3 /\ 1 \in 0 .. 3
  OBVIOUS
<1>8. MemOK(mem', Len(instructions), Len(extras) + 1)
  <2>. HIDE DEF m
  <2>. QED BY <1>1, <1>3, <1>6, <1>7, PushExtrasOK
<1>9. mem'.used \in Nat /\ Base <= mem'.used
  BY <1>8 DEF MemOK, MemRecord
<1>10. f \in FrameRecord /\ f.kind # "top" /\ f.anchor <= curr /\ Base <= f.mark
  BY <1>1, <1>3, <1>6, <1>9 DEF FrameRecord
<1>. HIDE DEF f
<1>11. frames' \in Seq(FrameRecord) /\ frames' # <<>> /\ CallsOK(frames', curr)
  BY <1>1, <1>2, <1>10, ReturnFacts, CallMade
<1>. QED BY <1>1, <1>5, <1>7, <1>11, Returns

LEMMA ReturnElseStep == EInv /\ ReturnElse => EInv'
<1>. SUFFICES ASSUME EInv, ReturnElse PROVE EInv'
  OBVIOUS
<1>. DEFINE x == <<"inst", Last(frames).else>>
<1>1. /\ pc = "return" /\ Last(frames).kind = "else" /\ Last(frames).kind # "top"
      /\ extras' = Append(extras, x)
      /\ mem' = PushExtras(Release(mem, Last(frames).mark), Len(extras), 1)
      /\ frames' = Front(frames) /\ pc' = "opcode"
      /\ data' = data /\ curr' = curr /\ diags' = diags /\ todo' = todo /\ ok' = ok
      /\ instructions' = instructions
  BY DEF ReturnElse, input
<1>2. extras \in Seq(Extra)
  BY <1>1, InsideFacts
<1>3. x \in Extra
  BY <1>1, ReturnFacts DEF Extra
<1>. HIDE DEF x
<1>4. extras' \in Seq(Extra) /\ Len(extras') = Len(extras) + 1
  BY <1>1, <1>2, <1>3, ExtraAppend
<1>5. frames' \in Seq(FrameRecord) /\ frames' # <<>> /\ CallsOK(frames', curr)
  BY <1>1, ReturnFacts
<1>6. 1 \in 1 .. 3
  OBVIOUS
<1>. QED BY <1>1, <1>4, <1>5, <1>6, Returns

LEMMA ReturnExprStep == EInv /\ ReturnExpr => EInv'
<1>. SUFFICES ASSUME EInv, ReturnExpr PROVE EInv'
  OBVIOUS
<1>. DEFINE m == Release(mem, Last(frames).mark)
            c == Copy(m)
<1>1. /\ pc = "return" /\ mem' = Release(c, 0) /\ frames' = <<>> /\ ok' = FALSE /\ pc' = "done"
      /\ data' = data /\ curr' = curr /\ diags' = diags /\ todo' = todo
      /\ instructions' = instructions /\ extras' = extras
  BY DEF ReturnExpr, input, lists
<1>2. Types /\ InExpr
  BY <1>1 DEF EInv
<1>3. /\ frames \in Seq(FrameRecord) /\ frames # <<>> /\ CallsOK(frames, curr)
      /\ Len(instructions) \in Nat /\ Len(extras) \in Nat
      /\ MemOK(mem, Len(instructions), Len(extras))
  BY <1>1, InsideFacts
<1>4. Last(frames) \in FrameRecord /\ Base <= Last(frames).mark
  BY <1>3, LastCall
<1>5. Last(frames).mark \in Nat
  BY <1>4 DEF FrameRecord
<1>6. MemOK(m, Len(instructions), Len(extras))
  BY <1>3, <1>4, <1>5, ReleaseOK
<1>. HIDE DEF m
<1>7. c \in MemRecord /\ (c.wild => Len(instructions) > InstChunk \/ Len(extras) > ExtraChunk)
  BY <1>3, <1>6, CopyOwned
<1>. HIDE DEF c
<1>8. mem' \in MemRecord /\ mem'.wild = c.wild
  BY <1>1, <1>7, ReleaseShape
<1>9. frames' \in Seq(FrameRecord)
  BY <1>1
<1>10. Types'
  BY <1>1, <1>2, <1>8, <1>9 DEF Types
<1>11. instructions' # <<>>
  BY <1>1, <1>2 DEF InExpr
<1>12. ErrorsReported' /\ FirstChunksOwned'
  BY <1>1, <1>7, <1>8, <1>11 DEF ErrorsReported, FirstChunksOwned
<1>. QED BY <1>1, <1>10, <1>12 DEF EInv

-----------------------------------------------------------------------------
(* Instructions without a body *)

\* call_indirect moves the anchor to a byte it has passed.
LEMMA IndirectAnchor ==
  ASSUME data \in Seq(0 .. 255), curr \in 0 .. Len(data), ReadULeb(data, curr, 32).ok
  PROVE  /\ ReadULeb(data, curr, 32).curr \in Nat
         /\ ReadULeb(data, curr, 32).curr <= Operands(17).curr
<1>. DEFINE index == ReadULeb(data, curr, 32)
            zero == ReadZero(index.curr, index.curr)
<1>1. Outcome(index, curr, Len(data)) /\ Len(data) \in Nat /\ curr \in Nat
  BY ReadLebOutcome
<1>2. /\ index.curr \in 0 .. Len(data) /\ index.curr \in Nat /\ index.curr <= index.curr
  BY <1>1 DEF Outcome
<1>3. ReadIndirect = zero
  BY DEF ReadIndirect
<1>4. Operands(17) = ReadIndirect
  <2>. DEFINE r1 == Got(curr, <<>>)
              r2 == ReadULeb(data, curr, 32)
              r3 == ReadILeb(data, curr, 32)
              r4 == ReadILeb(data, curr, 64)
              r5 == ReadBytes(data, curr, 4)
              r6 == ReadBytes(data, curr, 8)
              r7 == Fail(curr, Last(frames).anchor, curr)
              r8 == ReadZero(curr, Last(frames).anchor)
              r9 == ReadLebs(curr, 2)
  <2>1. Operands(17) =
          CASE 17 \in Plain -> r1
            [] 17 \in Indexed -> r2
            [] 17 = 14 -> ReadTable
            [] 17 = 17 -> ReadIndirect
            [] 17 \in MemArg -> r9
            [] 17 \in MemSize -> r8
            [] 17 = 65 -> r3
            [] 17 = 66 -> r4
            [] 17 = 67 -> r5
            [] 17 = 68 -> r6
            [] OTHER -> r7
    BY DEF Operands
  <2>. HIDE DEF r1, r2, r3, r4, r5, r6, r7, r8, r9
  <2>2. 17 \notin Plain /\ 17 \notin Indexed /\ 17 \notin MemArg /\ 17 \notin MemSize
    BY DEF Plain, Indexed, MemArg, MemSize
  <2>. QED BY <2>1, <2>2
<1>. HIDE DEF index
<1>5. Outcome(zero, index.curr, Len(data))
  BY <1>2, ReadZeroOutcome
<1>6. zero.curr \in index.curr .. Len(data)
  BY <1>5 DEF Outcome
<1>7. index.curr <= zero.curr
  BY <1>1, <1>2, <1>6
<1>. HIDE DEF zero
<1>. QED BY <1>2, <1>3, <1>4, <1>7 DEF index

LEMMA SimpleStep == EInv /\ SimpleInstruction => EInv'
<1>. SUFFICES ASSUME EInv, SimpleInstruction PROVE EInv'
  OBVIOUS
<1>. DEFINE op == Inst.op
            read == Operands(op)
            size == ReadULeb(data, curr, 32)
            count == IF op = 14 THEN TableExtras(read)
                     ELSE IF read.ok THEN ExtraCount(op) ELSE 0
            slice == IF op = 14 /\ size.ok THEN LabelCount ELSE 0
            words == [k \in 1 .. count |-> <<"word", Pos>>]
            n == Len(instructions)
            e == Len(extras)
            m == [mem EXCEPT !.used = @ + slice]
<1>1. pc \in {"opcode", "operands", "return", "panicked"}
  BY DEF SimpleInstruction
<1>2. /\ data \in Seq(0 .. 255) /\ curr \in 0 .. Len(data) /\ curr \in Nat /\ Len(data) \in Nat
      /\ \A d \in diags : Ranged(d, Len(data))
      /\ todo \in Seq(FieldSet) /\ ok \in BOOLEAN
      /\ frames \in Seq(FrameRecord) /\ frames # <<>> /\ CallsOK(frames, curr)
      /\ instructions \in Seq(Instruction) /\ instructions # <<>>
      /\ extras \in Seq(Extra) /\ extras # <<>> /\ PointInto(instructions, e)
      /\ n \in Nat /\ e \in Nat /\ e # 0
      /\ MemOK(mem, n, e)
  BY <1>1, InsideFacts
<1>3. /\ data' = data /\ todo' = todo /\ ok' = ok /\ pc' = "opcode"
      /\ curr' = read.curr /\ diags' = diags \cup read.diags
      /\ extras' = extras \o words
      /\ mem' = PushExtras(m, e, count)
  BY DEF SimpleInstruction, input
<1>4. instructions' = IF count > 0 THEN [instructions EXCEPT ![Pos + 1].extra = e] ELSE instructions
  BY DEF SimpleInstruction
<1>5. frames' = IF op = 17 /\ size.ok THEN [frames EXCEPT ![Len(frames)].anchor = size.curr] ELSE frames
  BY DEF SimpleInstruction
<1>6. Pos \in Nat /\ Pos + 1 = n
  BY <1>2 DEF Pos
<1>7. count \in 0 .. 3
  <2>1. TableExtras(read) \in 0 .. 3
    BY DEF TableExtras
  <2>2. ExtraCount(op) \in 0 .. 3
    <3>. HIDE DEF op
    <3>1. ExtraCount(op) \in {0, 1, 2}
      BY DEF ExtraCount
    <3>. QED BY <3>1
  <2>. HIDE DEF read, op
  <2>. QED BY <2>1, <2>2
<1>8. slice \in Nat
  BY <1>2, LabelCountIs
<1>9. Last(frames) \in FrameRecord /\ Last(frames).anchor <= curr
  BY <1>2, LastCall
<1>10. Last(frames).anchor \in Nat
  BY <1>9 DEF FrameRecord
<1>11. Outcome(read, curr, Len(data))
  <2>. HIDE DEF op
  <2>. QED BY <1>2, <1>9, <1>10, OperandsOutcome
<1>12. op = 17 /\ size.ok => size.curr \in Nat /\ size.curr <= read.curr
  BY <1>2, IndirectAnchor
<1>. HIDE DEF op, read, size, count, slice
<1>13. read.curr \in curr .. Len(data) /\ \A d \in read.diags : Ranged(d, Len(data))
  BY <1>11 DEF Outcome
<1>14. curr' \in 0 .. Len(data) /\ curr <= curr' /\ curr' \in Nat
  BY <1>2, <1>3, <1>13
<1>15. \A d \in diags' : Ranged(d, Len(data))
  BY <1>2, <1>3, <1>13
<1>16. CallsOK(frames, curr')
  BY <1>2, <1>14, CallsLater
<1>17. frames' \in Seq(FrameRecord) /\ frames' # <<>> /\ CallsOK(frames', curr')
  <2>1. CASE op = 17 /\ size.ok
    <3>1. frames' = [frames EXCEPT ![Len(frames)].anchor = size.curr]
      BY <1>5, <2>1
    <3>2. size.curr \in Nat /\ size.curr <= curr'
      BY <1>3, <1>12, <2>1
    <3>. QED BY <1>2, <1>16, <3>1, <3>2, AnchorMoved
  <2>2. CASE ~(op = 17 /\ size.ok)
    BY <1>2, <1>5, <1>16, <2>2
  <2>. QED BY <2>1, <2>2
<1>18. MemOK(m, n, e)
  BY <1>2, <1>8, SliceOK
<1>19. MemOK(mem', n, e + count)
  <2>. HIDE DEF m, n, e
  <2>. QED BY <1>2, <1>3, <1>7, <1>18, PushExtrasOK
<1>20. words \in Seq(Extra) /\ Len(words) = count
  <2>1. <<"word", Pos>> \in Extra
    BY <1>6 DEF Extra
  <2>2. count \in Nat
    BY <1>7
  <2>. QED BY <2>1, <2>2
<1>. HIDE DEF words, m
<1>21. extras' \in Seq(Extra) /\ Len(extras') = e + count
  <2>1. extras \o words \in Seq(Extra) /\ Len(extras \o words) = e + Len(words)
    BY <1>2, <1>20, ExtraConcat
  <2>. QED BY <1>3, <1>20, <2>1
<1>. HIDE DEF n, e
<1>22. e + count \in Nat /\ e <= e + count /\ e + count # 0 /\ (count > 0 => e < e + count)
  BY <1>2, <1>7
<1>23. extras' # <<>>
  BY <1>21, <1>22
<1>24. /\ instructions' \in Seq(Instruction) /\ instructions' # <<>> /\ Len(instructions') = n
       /\ PointInto(instructions', e + count)
  <2>1. CASE count > 0
    <3>1. instructions' = [instructions EXCEPT ![Len(instructions)].extra = e]
      BY <1>4, <1>6, <2>1 DEF n
    <3>. QED BY <1>2, <1>22, <2>1, <3>1, PointLast DEF n
  <2>2. CASE ~(count > 0)
    <3>1. instructions' = instructions
      BY <1>4, <2>2
    <3>. QED BY <1>2, <1>22, <3>1, PointMore DEF n
  <2>. QED BY <2>1, <2>2
<1>25. MemOK(mem', Len(instructions'), Len(extras')) /\ PointInto(instructions', Len(extras'))
  BY <1>19, <1>21, <1>24
<1>26. pc' \in {"opcode", "operands", "return", "panicked"}
  BY <1>3
<1>. QED BY <1>2, <1>3, <1>14, <1>15, <1>17, <1>21, <1>23, <1>24, <1>25, <1>26, StaysInside

-----------------------------------------------------------------------------
(* The theorems *)

LEMMA InvNext == EInv /\ [Next]_vars => EInv'
<1>. SUFFICES ASSUME EInv, [Next]_vars PROVE EInv'
  OBVIOUS
<1>1. CASE ReadField
  BY <1>1, FieldStep
<1>2. CASE FieldsDone
  BY <1>2, FieldsDoneStep
<1>3. CASE StartExpr
  BY <1>3, StartExprStep
<1>4. CASE ReadOpcode
  BY <1>4, OpcodeStep
<1>5. CASE SimpleInstruction
  BY <1>5, SimpleStep
<1>6. CASE BadBlock
  BY <1>6, BadBlockStep
<1>7. CASE EnterBlock
  BY <1>7, EnterBlockStep
<1>8. CASE ReturnBlock
  BY <1>8, ReturnBlockStep
<1>9. CASE ReturnIf
  BY <1>9, ReturnIfStep
<1>10. CASE EnterElse
  BY <1>10, EnterElseStep
<1>11. CASE ReturnElse
  BY <1>11, ReturnElseStep
<1>12. CASE ReturnExpr
  BY <1>12, ReturnExprStep
<1>13. CASE UNCHANGED vars
  <2>1. /\ data' = data /\ curr' = curr /\ diags' = diags /\ todo' = todo /\ pc' = pc /\ ok' = ok
        /\ frames' = frames /\ instructions' = instructions /\ extras' = extras /\ mem' = mem
    BY <1>13 DEF vars, input, lists
  <2>2. Types' /\ (InFields' <=> InFields) /\ (InExpr' <=> InExpr)
    BY <2>1 DEF EInv, Types, InFields, InExpr
  <2>3. (ErrorsReported' <=> ErrorsReported) /\ (FirstChunksOwned' <=> FirstChunksOwned)
    BY <2>1 DEF ErrorsReported, FirstChunksOwned
  <2>. QED BY <2>1, <2>2, <2>3 DEF EInv
<1>. QED
  BY <1>1, <1>2, <1>3, <1>4, <1>5, <1>6, <1>7, <1>8, <1>9, <1>10, <1>11, <1>12, <1>13 DEF Next

\* The inductive invariant holds of every section, body and file: bin_read_expr
\* and the readers of fields keep to the scope, and the lists of the decoder
\* have the memory they need.
THEOREM DecoderInv == Spec => []EInv
BY InitStep, InvNext, PTL DEF Spec

\* The decoder never reads or reports behind the end of the scope, ranges of
\* errors end after they begin, and instructions point to extras that are
\* there.
THEOREM DecoderTypes == Spec => []TypeOK
<1>1. EInv => TypeOK
  <2>. SUFFICES ASSUME EInv PROVE TypeOK
    OBVIOUS
  <2>1. Types
    BY DEF EInv
  <2>2. \A d \in diags : d[1] <= d[2] /\ d[2] <= Len(data)
    BY <2>1 DEF Types, Ranged
  <2>3. frames \in Seq(FrameRecord) /\ instructions \in Seq(Instruction)
    BY <2>1 DEF Types
  <2>4. \A k \in DOMAIN frames : frames[k] \in FrameRecord
    BY <2>3
  <2>5. DOMAIN instructions = 1 .. Len(instructions)
    BY <2>3
  <2>6. \A k \in DOMAIN instructions : instructions[k] \in Instruction
    BY <2>3
  <2>7. \A k \in DOMAIN instructions :
          instructions[k].op \in 0 .. 255 /\ instructions[k].extra < Len(extras)
    BY <2>1, <2>5, <2>6 DEF Types, PointInto, Instruction
  <2>8. mem.used \in Nat /\ mem.wild \in BOOLEAN
    BY <2>1 DEF Types, MemRecord
  <2>. QED BY <2>1, <2>2, <2>4, <2>7, <2>8 DEF Types, TypeOK
<1>. QED BY <1>1, DecoderInv, PTL

\* A section without expressions that is given up has a diagnostic, and one
\* with a diagnostic is given up (the readers of wasim_binary.odin).
THEOREM DecoderReports == Spec => []ErrorsReported
<1>1. EInv => ErrorsReported
  BY DEF EInv, ErrorsReported
<1>. QED BY <1>1, DecoderInv, PTL

\* As long as the lists of bin_read_expr fit into their first chunks, no
\* sequence of calls and guards makes it use memory it has given back.
THEOREM DecoderOwnsChunks == Spec => []FirstChunksOwned
<1>1. EInv => FirstChunksOwned
  <2>. SUFFICES ASSUME EInv PROVE FirstChunksOwned
    OBVIOUS
  <2>1. CASE pc = "fields"
    BY <2>1, NoMemIs DEF EInv, InFields, FirstChunksOwned
  <2>2. CASE pc = "done"
    BY <2>2 DEF EInv
  <2>3. CASE pc \in {"opcode", "operands", "return", "panicked"}
    BY <2>3 DEF EInv, InExpr, MemOK, FirstChunksOwned
  <2>. QED BY <2>1, <2>2, <2>3 DEF EInv, Types
<1>. QED BY <1>1, DecoderInv, PTL

-----------------------------------------------------------------------------
(* The structure of an expression *)

\* The block of a call at depth i is the last one opened at that depth, and
\* its else, if the call is past it, the only one at that depth.
Opened(ops, f, i) ==
  /\ f.pos \in 1 .. Len(ops)
  /\ ops[f.pos] \in Opening /\ Depth(ops, f.pos) = i
  /\ f.kind = "block" <=> ops[f.pos] \in Blocks
  /\ f.kind = "else" => f.else - 1 \in f.pos + 1 .. Len(ops) /\ Depth(ops, f.else - 1) = i
  /\ \A j \in f.pos + 1 .. Len(ops) :
       Depth(ops, j) = i =>
         /\ ops[j] \notin Opening
         /\ ops[j] = Else <=> f.kind = "else" /\ j = f.else - 1

\* Every else and every end belongs to a block.
Owned(ops) == \A k \in 1 .. Len(ops) : ops[k] \in {Else, End} => BlockOf(ops, k) \in 1 .. k - 1

\* The open calls are the blocks open after the opcodes, and the extras say
\* what matching the opcodes says.
Nested(ops, calls, list) ==
  /\ Depth(ops, Len(ops)) = Len(calls)
  /\ \A k \in 0 .. Len(ops) : Depth(ops, k) > 0
  /\ Owned(ops)
  /\ \A i \in 2 .. Len(calls) : Opened(ops, calls[i], i)
  /\ Recorded(list) = Matching(ops)

\* As long as nothing was reported the calls follow the blocks: up to the
\* last opcode, or up to the one before while that is being handled.
SInv ==
  diags = {} =>
    /\ pc \in {"opcode", "operands", "return"} => Len(instructions) <= curr + 1
    /\ pc = "opcode" => Nested(Opcodes, frames, extras)
    /\ pc \in {"operands", "return"} => Pos > 0 /\ Nested(Front(Opcodes), frames, extras)
    /\ pc = "operands" => Inst.op \notin {Else, End}
    /\ pc = "return" => Inst.op \in Until(Last(frames))
    /\ pc = "done" => StructureRecovered

IsFlat(g, s, n) == g = [i \in 1 .. n |-> IF i = 1 THEN s[i] ELSE g[i - 1] \o s[i]]

LEMMA FlatExists ==
  ASSUME NEW s, NEW N \in Nat
  PROVE  \E g : IsFlat(g, s, N)
<1>. DEFINE B == {n \in Nat : ~ \E g : IsFlat(g, s, n)}
<1>1. SUFFICES ASSUME B # {} PROVE FALSE
  OBVIOUS
<1>2. PICK n \in B : \A m \in B : n <= m
  BY <1>1, MinIs
<1>3. n \in Nat /\ ~ \E g : IsFlat(g, s, n)
  OBVIOUS
<1>4. n # 0
  <2>. SUFFICES ASSUME n = 0 PROVE FALSE
    OBVIOUS
  <2>. DEFINE h == [i \in 1 .. 0 |-> s[i]]
  <2>1. IsFlat(h, s, 0)
    BY DEF IsFlat
  <2>. HIDE DEF h
  <2>. QED BY <1>3, <2>1
<1>5. n - 1 \in Nat /\ n - 1 \notin B
  <2>. HIDE DEF B
  <2>1. n - 1 \in Nat /\ ~(n <= n - 1)
    BY <1>3, <1>4
  <2>. QED BY <1>2, <2>1
<1>6. PICK g : IsFlat(g, s, n - 1)
  BY <1>5
<1>. DEFINE last == IF n = 1 THEN s[n] ELSE g[n - 1] \o s[n]
            h == [i \in 1 .. n |-> IF i = n THEN last ELSE g[i]]
<1>7. h[n] = last /\ \A i \in 1 .. n - 1 : h[i] = g[i]
  <2>1. n \in 1 .. n /\ \A i \in 1 .. n - 1 : i \in 1 .. n /\ i # n
    BY <1>3, <1>4
  <2>. HIDE DEF last
  <2>. QED BY <2>1
<1>8. \A i \in 1 .. n : h[i] = IF i = 1 THEN s[i] ELSE h[i - 1] \o s[i]
  <2>. SUFFICES ASSUME NEW i \in 1 .. n
                PROVE  h[i] = IF i = 1 THEN s[i] ELSE h[i - 1] \o s[i]
    OBVIOUS
  <2>. HIDE DEF h, B
  <2>0. i # 1 => i - 1 \in 1 .. n - 1
    BY <1>3
  <2>1. CASE i = n
    BY <1>7, <2>0, <2>1
  <2>2. CASE i # n
    <3>1. i \in 1 .. n - 1
      BY <1>3, <2>2
    <3>2. g[i] = IF i = 1 THEN s[i] ELSE g[i - 1] \o s[i]
      BY <1>6, <3>1 DEF IsFlat
    <3>. QED BY <1>7, <2>0, <3>1, <3>2
  <2>. QED BY <2>1, <2>2
<1>9. IsFlat(h, s, n)
  <2>1. h = [i \in 1 .. n |-> h[i]]
    OBVIOUS
  <2>. HIDE DEF h, B
  <2>. QED BY <1>8, <2>1 DEF IsFlat
<1>. HIDE DEF h
<1>. QED BY <1>3, <1>9

LEMMA FlatSame ==
  ASSUME NEW s, NEW t, NEW n \in Nat, NEW m \in Nat, NEW g, NEW h,
         IsFlat(g, s, n), IsFlat(h, t, m), n <= m, \A i \in 1 .. n : s[i] = t[i]
  PROVE  \A i \in 1 .. n : g[i] = h[i]
<1>. DEFINE B == {i \in 1 .. n : g[i] # h[i]}
<1>1. SUFFICES ASSUME B # {} PROVE FALSE
  OBVIOUS
<1>2. PICK i \in B : \A j \in B : i <= j
  <2>1. B \in SUBSET Nat
    OBVIOUS
  <2>. HIDE DEF B
  <2>. QED BY <1>1, <2>1, MinIs
<1>3. i \in 1 .. n /\ i \in 1 .. m /\ g[i] # h[i]
  OBVIOUS
<1>4. i # 1 => i - 1 \in 1 .. n /\ g[i - 1] = h[i - 1]
  <2>1. i # 1 => i - 1 \in 1 .. n /\ ~(i <= i - 1)
    BY <1>3
  <2>2. i # 1 => i - 1 \notin B
    <3>. HIDE DEF B
    <3>. QED BY <1>2, <2>1
  <2>. QED BY <2>1, <2>2
<1>5. g[i] = IF i = 1 THEN s[i] ELSE g[i - 1] \o s[i]
  BY <1>3 DEF IsFlat
<1>6. h[i] = IF i = 1 THEN t[i] ELSE h[i - 1] \o t[i]
  BY <1>3 DEF IsFlat
<1>. QED BY <1>3, <1>4, <1>5, <1>6

\* Flattening a sequence with one more element.
LEMMA FlattenAppend ==
  ASSUME NEW T, NEW s \in Seq(T), NEW e \in T, <<>> \o e = e
  PROVE  FlattenSeq(Append(s, e)) = FlattenSeq(s) \o e
<1>. DEFINE t == Append(s, e)
            n == Len(s)
            g == CHOOSE f : IsFlat(f, s, n)
            h == CHOOSE f : IsFlat(f, t, n + 1)
<1>1. /\ n \in Nat /\ n + 1 \in Nat /\ n <= n + 1 /\ Len(t) = n + 1 /\ n + 1 # 0
      /\ \A i \in 1 .. n : s[i] = t[i]
      /\ t[n + 1] = e
  OBVIOUS
<1>2. IsFlat(g, s, n) /\ IsFlat(h, t, n + 1)
  BY <1>1, FlatExists
<1>3. FlattenSeq(t) = h[n + 1]
  <2>1. FlattenSeq(t) = LET f == CHOOSE f : IsFlat(f, t, Len(t)) IN f[Len(t)]
    <3>. HIDE DEF t
    <3>. QED BY <1>1 DEF FlattenSeq, IsFlat
  <2>. HIDE DEF t, n
  <2>. QED BY <1>1, <2>1
<1>4. n # 0 => FlattenSeq(s) = g[n]
  BY DEF FlattenSeq, IsFlat
<1>5. n = 0 => FlattenSeq(s) = <<>>
  BY DEF FlattenSeq
<1>. HIDE DEF g, h, t, n
<1>6. h[n + 1] = IF n + 1 = 1 THEN t[n + 1] ELSE h[(n + 1) - 1] \o t[n + 1]
  <2>1. n + 1 \in 1 .. n + 1
    BY <1>1
  <2>. QED BY <1>2, <2>1 DEF IsFlat
<1>7. h[n + 1] = IF n = 0 THEN e ELSE h[n] \o e
  <2>1. (n + 1) - 1 = n /\ (n + 1 = 1 <=> n = 0)
    BY <1>1
  <2>. QED BY <1>1, <1>6, <2>1
<1>8. n # 0 => h[n] = g[n]
  <2>1. n # 0 => n \in 1 .. n
    BY <1>1
  <2>2. \A i \in 1 .. n : g[i] = h[i]
    BY <1>1, <1>2, FlatSame
  <2>. QED BY <2>1, <2>2
<1>9. n = 0 => h[n + 1] = FlattenSeq(s) \o e
  BY <1>5, <1>7
<1>10. n # 0 => h[n + 1] = FlattenSeq(s) \o e
  BY <1>4, <1>7, <1>8
<1>. QED BY <1>3, <1>9, <1>10 DEF t

LEMMA FlattenEmpty == FlattenSeq(<<>>) = <<>>
BY DEF FlattenSeq

-----------------------------------------------------------------------------
(* One more opcode *)

LEMMA CodesApart ==
  /\ Else \notin Opening /\ End \notin Opening /\ Else # End
  /\ If \in Opening /\ If \notin Blocks /\ \A op \in Opening : op \in Blocks \/ op = If
BY DEF Else, End, Opening, Blocks, If

LEMMA CountUpTo ==
  ASSUME NEW n \in Nat, NEW S \in SUBSET (1 .. n)
  PROVE  Cardinality(S) \in Nat /\ Cardinality(S \cup {n + 1}) = Cardinality(S) + 1
<1>1. IsFiniteSet(1 .. n)
  BY FS_Interval
<1>2. IsFiniteSet(S)
  BY <1>1, FS_Subset
<1>3. n + 1 \notin S
  OBVIOUS
<1>. QED BY <1>2, <1>3, FS_AddElement, FS_CardinalityType

\* How an opcode changes the depth.
Change(op) == IF op \in Opening THEN 1 ELSE IF op = End THEN -1 ELSE 0

LEMMA DepthIs ==
  ASSUME NEW ops, NEW n \in Nat
  PROVE  /\ Depth(ops, n) \in Int
         /\ Depth(ops, 0) = 1
         /\ Depth(ops, n + 1) = Depth(ops, n) + Change(ops[n + 1])
<1>. DEFINE O(k) == {j \in 1 .. k : ops[j] \in Opening}
            E(k) == {j \in 1 .. k : ops[j] = End}
<1>1. /\ O(n) \in SUBSET (1 .. n) /\ E(n) \in SUBSET (1 .. n)
      /\ O(n + 1) = IF ops[n + 1] \in Opening THEN O(n) \cup {n + 1} ELSE O(n)
      /\ E(n + 1) = IF ops[n + 1] = End THEN E(n) \cup {n + 1} ELSE E(n)
  OBVIOUS
<1>2. O(0) = {} /\ E(0) = {}
  OBVIOUS
<1>3. \A k : Depth(ops, k) = Cardinality(O(k)) + 1 - Cardinality(E(k))
  BY DEF Depth
<1>. HIDE DEF O, E
<1>4. /\ Cardinality(O(n)) \in Nat /\ Cardinality(O(n) \cup {n + 1}) = Cardinality(O(n)) + 1
      /\ Cardinality(E(n)) \in Nat /\ Cardinality(E(n) \cup {n + 1}) = Cardinality(E(n)) + 1
  BY <1>1, CountUpTo
<1>5. ~(ops[n + 1] \in Opening /\ ops[n + 1] = End)
  BY CodesApart
<1>6. Depth(ops, n + 1) = Depth(ops, n) + Change(ops[n + 1])
  <2>1. /\ Cardinality(O(n + 1)) = Cardinality(O(n)) + IF ops[n + 1] \in Opening THEN 1 ELSE 0
        /\ Cardinality(E(n + 1)) = Cardinality(E(n)) + IF ops[n + 1] = End THEN 1 ELSE 0
    BY <1>1, <1>4
  <2>. QED BY <1>3, <1>4, <1>5, <2>1 DEF Change
<1>7. Depth(ops, 0) = 1
  BY <1>2, <1>3, FS_EmptySet
<1>. QED BY <1>3, <1>4, <1>6, <1>7

\* Depths, blocks, elses and positions up to k depend on the opcodes up to k.
LEMMA DepthSame ==
  ASSUME NEW s, NEW t, NEW n \in Nat, \A j \in 1 .. n : s[j] = t[j], NEW k \in 0 .. n
  PROVE  Depth(s, k) = Depth(t, k)
<1>1. \A j \in 1 .. k : s[j] = t[j]
  OBVIOUS
<1>2. /\ {j \in 1 .. k : s[j] \in Opening} = {j \in 1 .. k : t[j] \in Opening}
      /\ {j \in 1 .. k : s[j] = End} = {j \in 1 .. k : t[j] = End}
  BY <1>1
<1>. QED BY <1>2 DEF Depth

LEMMA PositionsSame ==
  ASSUME NEW s, NEW t, NEW n \in Nat, \A j \in 1 .. n : s[j] = t[j], NEW k \in 1 .. n,
         s[k] \in {Else, End} => BlockOf(s, k) \in 1 .. k - 1
  PROVE  BlockOf(s, k) = BlockOf(t, k) /\ Positions(s, k) = Positions(t, k)
<1>1. \A j \in 0 .. n : Depth(s, j) = Depth(t, j)
  BY DepthSame
<1>2. k - 1 \in 0 .. n /\ k \in 0 .. n /\ \A j \in 1 .. k - 1 : j \in 0 .. n /\ j \in 1 .. n
  OBVIOUS
<1>3. BlockOf(s, k) = BlockOf(t, k)
  <2>1. {j \in 1 .. k - 1 : s[j] \in Opening /\ Depth(s, j) = Depth(s, k - 1)}
          = {j \in 1 .. k - 1 : t[j] \in Opening /\ Depth(t, j) = Depth(t, k - 1)}
    BY <1>1, <1>2, Zenon
  <2>. QED BY <2>1 DEF BlockOf
<1>4. CASE s[k] \in {Else, End}
  <2>1. \A j \in BlockOf(s, k) + 1 .. k - 1 : j \in 1 .. k - 1
    BY <1>4
  <2>2. ElsesOf(s, k) = ElsesOf(t, k)
    <3>1. \A j \in BlockOf(s, k) + 1 .. k - 1 :
            (s[j] = Else /\ Depth(s, j) = Depth(s, k - 1))
              <=> (t[j] = Else /\ Depth(t, j) = Depth(t, k - 1))
      BY <1>1, <1>2, <2>1, Zenon
    <3>. QED BY <1>3, <3>1, Zenon DEF ElsesOf
  <2>3. s[BlockOf(s, k)] = t[BlockOf(t, k)]
    BY <1>2, <1>3, <1>4, Zenon
  <2>4. s[k] = t[k] /\ Depth(s, k) = Depth(t, k)
    BY <1>1, <1>2, Zenon
  <2>. QED BY <1>3, <2>2, <2>3, <2>4, Zenon DEF Positions
<1>5. CASE s[k] \notin {Else, End}
  BY <1>3, <1>5, Zenon DEF Positions
<1>. QED BY <1>4, <1>5

LEMMA MaxIs ==
  ASSUME NEW S \in SUBSET Int, NEW m \in S, \A y \in S : m >= y
  PROVE  Max(S) = m
<1>1. Max(S) \in S /\ \A y \in S : Max(S) >= y
  BY Zenon DEF Max
<1>2. Max(S) \in Int /\ m \in Int /\ Max(S) >= m /\ m >= Max(S)
  BY <1>1
<1>. QED BY <1>2

LEMMA IsAppend ==
  ASSUME NEW T, NEW s \in Seq(T), NEW t \in Seq(T), NEW p \in T, Len(t) = Len(s) + 1,
         t[Len(s) + 1] = p, \A k \in 1 .. Len(s) : t[k] = s[k]
  PROVE  t = Append(s, p)
<1>1. \A k \in 1 .. Len(t) : k = Len(s) + 1 \/ k \in 1 .. Len(s)
  OBVIOUS
<1>2. /\ Append(s, p) \in Seq(T) /\ Len(Append(s, p)) = Len(s) + 1
      /\ \A k \in 1 .. Len(s) : Append(s, p)[k] = s[k]
      /\ Append(s, p)[Len(s) + 1] = p
  BY AppendProperties
<1>3. \A k \in 1 .. Len(t) : t[k] = Append(s, p)[k]
  BY <1>1, <1>2
<1>. QED BY <1>2, <1>3, SeqEqual

LEMMA MatchingAppend ==
  ASSUME NEW c \in Seq(Nat), NEW op \in Nat, Owned(c), NEW p \in Seq(Extra),
         Positions(Append(c, op), Len(c) + 1) = p
  PROVE  Matching(Append(c, op)) = Matching(c) \o p
<1>. DEFINE x == Append(c, op)
            n == Len(c)
            s == [k \in 1 .. n |-> Positions(c, k)]
            t == [k \in 1 .. n + 1 |-> Positions(x, k)]
            T == {Positions(c, k) : k \in 1 .. n} \cup {p}
<1>1. n \in Nat /\ Len(x) = n + 1 /\ \A j \in 1 .. n : c[j] = x[j]
  OBVIOUS
<1>2. \A k \in 1 .. n : Positions(c, k) = Positions(x, k)
  <2>. HIDE DEF x, n
  <2>1. \A k \in 1 .. n : c[k] \in {Else, End} => BlockOf(c, k) \in 1 .. k - 1
    BY DEF Owned, n
  <2>. QED BY <1>1, <2>1, PositionsSame
<1>3. s \in Seq(T) /\ Len(s) = n /\ p \in T
  OBVIOUS
<1>4. t = Append(s, p)
  <2>1. t[n + 1] = p /\ \A k \in 1 .. n : t[k] = s[k]
    <3>. HIDE DEF x
    <3>1. n + 1 \in 1 .. n + 1 /\ \A k \in 1 .. n : k \in 1 .. n + 1
      BY <1>1
    <3>2. t[n + 1] = Positions(x, n + 1) /\ \A k \in 1 .. n : t[k] = Positions(x, k)
      BY <3>1
    <3>. QED BY <1>2, <3>2 DEF x
  <2>2. t \in Seq(T) /\ Len(t) = n + 1
    <3>1. \A k \in 1 .. n + 1 : Positions(x, k) \in T
      <4>1. \A k \in 1 .. n + 1 : k = n + 1 \/ k \in 1 .. n
        BY <1>1
      <4>. QED BY <1>2, <4>1
    <3>. HIDE DEF T, x
    <3>2. n + 1 \in Nat
      BY <1>1
    <3>. QED BY <3>1, <3>2
  <2>. HIDE DEF s, t, T, n
  <2>. QED BY <1>1, <1>3, <2>1, <2>2, IsAppend
<1>5. Matching(c) = FlattenSeq(s) /\ Matching(x) = FlattenSeq(t)
  <2>. HIDE DEF x
  <2>. QED BY <1>1 DEF Matching
<1>6. <<>> \o p = p
  OBVIOUS
<1>. HIDE DEF x, s, t, T
<1>7. FlattenSeq(Append(s, p)) = FlattenSeq(s) \o p
  BY <1>3, <1>6, FlattenAppend
<1>. QED BY <1>4, <1>5, <1>7 DEF x

LEMMA FlattenIn ==
  ASSUME NEW T, NEW s \in Seq(Seq(T))
  PROVE  FlattenSeq(s) \in Seq(T)
<1>. DEFINE n == Len(s)
            g == CHOOSE f : IsFlat(f, s, n)
            B == {i \in Nat : i \in 1 .. n /\ g[i] \notin Seq(T)}
<1>1. n \in Nat /\ \A i \in 1 .. n : s[i] \in Seq(T)
  BY ElementOfSeq
<1>2. IsFlat(g, s, n)
  BY <1>1, FlatExists
<1>3. n # 0 => FlattenSeq(s) = g[n]
  BY DEF FlattenSeq, IsFlat
<1>4. n = 0 => FlattenSeq(s) = <<>>
  BY DEF FlattenSeq
<1>. HIDE DEF g, n
<1>5. B = {}
  <2>1. SUFFICES ASSUME B # {} PROVE FALSE
    OBVIOUS
  <2>2. PICK i \in B : \A j \in B : i <= j
    <3>1. B \in SUBSET Nat
      OBVIOUS
    <3>. HIDE DEF B
    <3>. QED BY <2>1, <3>1, MinIs
  <2>3. i \in 1 .. n /\ g[i] \notin Seq(T)
    OBVIOUS
  <2>4. i # 1 => i - 1 \in 1 .. n /\ i - 1 \in Nat /\ ~(i <= i - 1)
    BY <1>1, <2>3
  <2>5. i # 1 => i - 1 \notin B
    <3>. HIDE DEF B
    <3>. QED BY <2>2, <2>4
  <2>6. i # 1 => g[i - 1] \in Seq(T)
    BY <2>4, <2>5
  <2>7. g[i] = IF i = 1 THEN s[i] ELSE g[i - 1] \o s[i]
    BY <1>2, <2>3 DEF IsFlat
  <2>8. s[i] \in Seq(T)
    BY <1>1, <2>3
  <2>9. i # 1 => g[i - 1] \o s[i] \in Seq(T)
    BY <2>6, <2>8, ConcatProperties
  <2>. QED BY <2>3, <2>7, <2>8, <2>9
<1>6. n # 0 => g[n] \in Seq(T)
  <2>1. n # 0 => n \in 1 .. n
    BY <1>1
  <2>. QED BY <1>1, <1>5, <2>1
<1>7. <<>> \in Seq(T)
  OBVIOUS
<1>. QED BY <1>3, <1>4, <1>6, <1>7

\* What an extra adds to the positions.
Position(x) == IF x[1] = "inst" THEN <<x>> ELSE <<>>

LEMMA RecordedAppend ==
  ASSUME NEW list \in Seq(Extra), NEW x \in Extra
  PROVE  /\ Recorded(list) \in Seq(Extra)
         /\ Recorded(Append(list, x)) = Recorded(list) \o Position(x)
<1>. DEFINE n == Len(list)
            l == Append(list, x)
            s == [k \in 1 .. n |-> Position(list[k])]
            t == [k \in 1 .. n + 1 |-> Position(l[k])]
<1>1. /\ n \in Nat /\ Len(l) = n + 1 /\ l[n + 1] = x
      /\ \A k \in 1 .. n : l[k] = list[k] /\ list[k] \in Extra
  BY ElementOfSeq
<1>2. \A y \in Extra : Position(y) \in Seq(Extra)
  BY DEF Position
<1>3. s \in Seq(Seq(Extra)) /\ Len(s) = n
  BY <1>1, <1>2
<1>4. t = Append(s, Position(x))
  <2>. HIDE DEF l, n
  <2>1. t[n + 1] = Position(x) /\ \A k \in 1 .. n : t[k] = s[k]
    BY <1>1
  <2>2. t \in Seq(Seq(Extra)) /\ Len(t) = n + 1
    <3>1. \A k \in 1 .. n + 1 : Position(l[k]) \in Seq(Extra)
      <4>1. \A k \in 1 .. n + 1 : k = n + 1 \/ k \in 1 .. n
        BY <1>1
      <4>. QED BY <1>1, <1>2, <4>1
    <3>2. n + 1 \in Nat
      BY <1>1
    <3>. QED BY <3>1, <3>2
  <2>3. Position(x) \in Seq(Extra)
    BY <1>2
  <2>. HIDE DEF s, t
  <2>. QED BY <1>1, <1>3, <2>1, <2>2, <2>3, IsAppend
<1>5. Recorded(list) = FlattenSeq(s)
  BY DEF Recorded, Position
<1>6. Recorded(l) = FlattenSeq(t)
  <2>. HIDE DEF l
  <2>. QED BY <1>1 DEF Recorded, Position
<1>7. Position(x) \in Seq(Extra) /\ <<>> \o Position(x) = Position(x)
  <2>1. Position(x) \in Seq(Extra)
    BY <1>2
  <2>. QED BY <2>1, ConcatEmptySeq
<1>. HIDE DEF l, s, t
<1>8. FlattenSeq(Append(s, Position(x))) = FlattenSeq(s) \o Position(x)
  BY <1>3, <1>7, FlattenAppend
<1>. QED BY <1>3, <1>4, <1>5, <1>6, <1>8, FlattenIn DEF l

LEMMA AppendIs ==
  ASSUME NEW c \in Seq(Nat), NEW op \in Nat
  PROVE  /\ Append(c, op) \in Seq(Nat) /\ Len(c) \in Nat /\ Len(Append(c, op)) = Len(c) + 1
         /\ \A j \in 1 .. Len(c) : c[j] = Append(c, op)[j]
         /\ Append(c, op)[Len(c) + 1] = op
         /\ \A k \in 0 .. Len(c) : Depth(c, k) = Depth(Append(c, op), k)
         /\ \A k \in 0 .. Len(c) + 1 : Depth(Append(c, op), k) \in Int
         /\ Depth(Append(c, op), Len(c) + 1) = Depth(c, Len(c)) + Change(op)
<1>. DEFINE x == Append(c, op)
            n == Len(c)
<1>1. x \in Seq(Nat) /\ n \in Nat /\ Len(x) = n + 1 /\ x[n + 1] = op /\ \A j \in 1 .. n : c[j] = x[j]
  OBVIOUS
<1>. HIDE DEF x, n
<1>2. \A k \in 0 .. n : Depth(c, k) = Depth(x, k)
  BY <1>1, DepthSame
<1>3. \A k \in 0 .. n + 1 : Depth(x, k) \in Int
  BY DepthIs
<1>4. Depth(x, n + 1) = Depth(x, n) + Change(x[n + 1])
  BY <1>1, DepthIs
<1>5. n \in 0 .. n
  BY <1>1
<1>. QED BY <1>1, <1>2, <1>3, <1>4, <1>5 DEF x, n

\* A block that is not the last one to be open, or is left open, stays as it is.
LEMMA OpenedLater ==
  ASSUME NEW c \in Seq(Nat), NEW op \in Nat, NEW f \in FrameRecord, NEW i \in Nat,
         Opened(c, f, i), i <= Depth(c, Len(c)), op = Else => i < Depth(c, Len(c))
  PROVE  Opened(Append(c, op), f, i)
<1>. DEFINE x == Append(c, op)
            n == Len(c)
            D == Depth(c, n)
<1>1. /\ n \in Nat /\ Len(x) = n + 1 /\ x[n + 1] = op /\ \A j \in 1 .. n : c[j] = x[j]
      /\ \A k \in 0 .. n : Depth(c, k) = Depth(x, k)
      /\ Depth(x, n + 1) = D + Change(op)
  BY AppendIs
<1>2. D \in Int
  BY <1>1, DepthIs
<1>3. /\ f.pos \in 1 .. n /\ f.pos \in 0 .. n /\ f.pos \in Nat /\ f.else \in Nat
      /\ c[f.pos] \in Opening /\ Depth(c, f.pos) = i
      /\ f.kind = "block" <=> c[f.pos] \in Blocks
      /\ f.kind = "else" => f.else - 1 \in f.pos + 1 .. n /\ Depth(c, f.else - 1) = i
      /\ \A j \in f.pos + 1 .. n :
           Depth(c, j) = i =>
             /\ c[j] \notin Opening
             /\ c[j] = Else <=> f.kind = "else" /\ j = f.else - 1
  BY DEF Opened, FrameRecord
<1>. HIDE DEF x, n, D
<1>4. /\ f.pos \in 1 .. n + 1 /\ x[f.pos] = c[f.pos] /\ Depth(x, f.pos) = i
      /\ f.kind = "else" => f.else - 1 \in f.pos + 1 .. n + 1 /\ f.else - 1 # n + 1
      /\ f.kind = "else" => f.else - 1 \in 0 .. n /\ Depth(c, f.else - 1) = i
  BY <1>1, <1>3
<1>5. \A j \in f.pos + 1 .. n : j \in 1 .. n /\ j \in 0 .. n
  BY <1>1, <1>3
<1>6. \A j \in f.pos + 1 .. n :
        Depth(x, j) = i =>
          /\ x[j] \notin Opening
          /\ x[j] = Else <=> f.kind = "else" /\ j = f.else - 1
  BY <1>1, <1>3, <1>5, Zenon
<1>7. Depth(x, n + 1) = i => op \notin Opening /\ op # Else
  <2>1. op \in Opening => D + Change(op) # i
    BY <1>2 DEF Change, D, n
  <2>2. op = Else => D + Change(op) # i
    BY <1>2, CodesApart DEF Change, D, n
  <2>. QED BY <1>1, <2>1, <2>2
<1>8. \A j \in f.pos + 1 .. n + 1 : j \in f.pos + 1 .. n \/ j = n + 1
  BY <1>1, <1>3
<1>9. \A j \in f.pos + 1 .. n + 1 :
        Depth(x, j) = i =>
          /\ x[j] \notin Opening
          /\ x[j] = Else <=> f.kind = "else" /\ j = f.else - 1
  BY <1>1, <1>4, <1>6, <1>7, <1>8, Zenon
<1>10. Opened(x, f, i)
  BY <1>1, <1>3, <1>4, <1>9, Zenon DEF Opened
<1>. QED BY <1>10 DEF x

\* An else or an end belongs to the block of the last call.
LEMMA BlockOfLast ==
  ASSUME NEW c \in Seq(Nat), NEW op \in Nat, NEW f \in FrameRecord,
         Opened(c, f, Depth(c, Len(c)))
  PROVE  /\ BlockOf(Append(c, op), Len(c) + 1) = f.pos
         /\ ElsesOf(Append(c, op), Len(c) + 1) = IF f.kind = "else" THEN {f.else - 1} ELSE {}
<1>. DEFINE x == Append(c, op)
            n == Len(c)
            i == Depth(c, n)
            S == {j \in 1 .. n : x[j] \in Opening /\ Depth(x, j) = i}
<1>1. /\ n \in Nat /\ \A j \in 1 .. n : c[j] = x[j]
      /\ \A k \in 0 .. n : Depth(c, k) = Depth(x, k)
  BY AppendIs
<1>2. /\ f.pos \in 1 .. n /\ f.pos \in 0 .. n /\ f.pos \in Nat /\ f.else \in Nat
      /\ c[f.pos] \in Opening /\ Depth(c, f.pos) = i
      /\ f.kind = "else" => f.else - 1 \in f.pos + 1 .. n /\ Depth(c, f.else - 1) = i
      /\ \A j \in f.pos + 1 .. n :
           Depth(c, j) = i =>
             /\ c[j] \notin Opening
             /\ c[j] = Else <=> f.kind = "else" /\ j = f.else - 1
  BY DEF Opened, FrameRecord
<1>. HIDE DEF x, i
<1>3. n + 1 - 1 = n /\ n \in 0 .. n
  BY <1>1
<1>4. Depth(x, n + 1 - 1) = i
  BY <1>1, <1>3 DEF i
<1>5. BlockOf(x, n + 1) = Max(S)
  BY <1>3, <1>4 DEF BlockOf
<1>6. S \in SUBSET Int /\ f.pos \in S
  BY <1>1, <1>2
<1>7. \A j \in S : f.pos >= j
  <2>. SUFFICES ASSUME NEW j \in S, ~(f.pos >= j) PROVE FALSE
    OBVIOUS
  <2>1. j \in f.pos + 1 .. n /\ j \in 1 .. n /\ j \in 0 .. n
    BY <1>1, <1>2
  <2>2. x[j] \in Opening /\ Depth(x, j) = i
    OBVIOUS
  <2>. QED BY <1>1, <1>2, <2>1, <2>2, Zenon
<1>8. Max(S) = f.pos
  <2>. HIDE DEF S
  <2>. QED BY <1>6, <1>7, MaxIs
<1>9. ElsesOf(x, n + 1) = {j \in f.pos + 1 .. n : x[j] = Else /\ Depth(x, j) = i}
  BY <1>3, <1>4, <1>5, <1>8 DEF ElsesOf
<1>10. \A j \in f.pos + 1 .. n : j \in 1 .. n /\ j \in 0 .. n
  BY <1>1, <1>2
<1>. HIDE DEF n, S
<1>11. \A j \in f.pos + 1 .. n :
         (x[j] = Else /\ Depth(x, j) = i) => f.kind = "else" /\ j = f.else - 1
  BY <1>1, <1>2, <1>10, Zenon
<1>12. f.kind = "else" => x[f.else - 1] = Else /\ Depth(x, f.else - 1) = i
  BY <1>1, <1>2, <1>10, Zenon
<1>13. ElsesOf(x, n + 1) = IF f.kind = "else" THEN {f.else - 1} ELSE {}
  BY <1>2, <1>9, <1>11, <1>12
<1>. QED BY <1>5, <1>8, <1>13, Zenon DEF x, n

\* What the last opcode says of the block it belongs to.
LEMMA PositionsPlain ==
  ASSUME NEW c \in Seq(Nat), NEW op \in Nat, op \notin {Else, End}
  PROVE  Positions(Append(c, op), Len(c) + 1) = <<>>
BY AppendIs, Zenon DEF Positions

LEMMA PositionsElse ==
  ASSUME NEW c \in Seq(Nat), NEW f \in FrameRecord, Opened(c, f, Depth(c, Len(c)))
  PROVE  Positions(Append(c, Else), Len(c) + 1) = <<<<"inst", f.pos + 1>>>>
<1>1. Else \in Nat
  BY DEF Else
<1>2. Append(c, Else)[Len(c) + 1] = Else /\ BlockOf(Append(c, Else), Len(c) + 1) = f.pos
  BY <1>1, AppendIs, BlockOfLast
<1>. QED BY <1>2, Zenon DEF Positions

LEMMA PositionsTop ==
  ASSUME NEW c \in Seq(Nat), Depth(c, Len(c)) = 1
  PROVE  /\ Positions(Append(c, End), Len(c) + 1) = <<>>
         /\ Depth(Append(c, End), Len(c) + 1) = 0
<1>1. End \in Nat /\ Change(End) = -1 /\ End # Else
  BY CodesApart DEF End, Change
<1>2. Append(c, End)[Len(c) + 1] = End /\ Depth(Append(c, End), Len(c) + 1) = 1 + Change(End)
  BY <1>1, AppendIs
<1>3. Depth(Append(c, End), Len(c) + 1) = 0
  BY <1>1, <1>2
<1>. QED BY <1>1, <1>2, <1>3, Zenon DEF Positions

LEMMA PositionsEnd ==
  ASSUME NEW c \in Seq(Nat), NEW f \in FrameRecord, Opened(c, f, Depth(c, Len(c))),
         Depth(c, Len(c)) > 1, f.kind # "top"
  PROVE  Positions(Append(c, End), Len(c) + 1)
           = IF f.kind = "else" THEN <<<<"inst", f.else>>>>
             ELSE IF f.kind = "if" THEN <<<<"inst", f.pos + 1>>, <<"inst", 0>>>>
             ELSE <<<<"inst", f.pos + 1>>>>
<1>. DEFINE x == Append(c, End)
            k == Len(c) + 1
            p1 == <<<<"inst", f.else>>>>
            p2 == <<<<"inst", f.pos + 1>>, <<"inst", 0>>>>
            p3 == <<<<"inst", f.pos + 1>>>>
<1>1. End \in Nat /\ Change(End) = -1 /\ End # Else
  BY CodesApart DEF End, Change
<1>2. /\ x[k] = End /\ Depth(x, k) = Depth(c, Len(c)) + Change(End)
      /\ BlockOf(x, k) = f.pos
      /\ ElsesOf(x, k) = IF f.kind = "else" THEN {f.else - 1} ELSE {}
  BY <1>1, AppendIs, BlockOfLast
<1>3. Depth(x, k) # 0
  <2>1. Depth(c, Len(c)) \in Int
    BY DepthIs
  <2>. QED BY <1>1, <1>2, <2>1
<1>4. f.pos \in 1 .. Len(c) /\ c[f.pos] \in Opening /\ (f.kind = "block" <=> c[f.pos] \in Blocks)
  BY DEF Opened
<1>5. x[f.pos] = c[f.pos]
  BY <1>1, <1>4, AppendIs
<1>6. f.kind \in {"block", "if", "else"} /\ f.else \in Nat
  BY DEF FrameRecord
<1>7. x[f.pos] = If <=> f.kind # "block"
  BY <1>4, <1>5, CodesApart
<1>8. f.kind = "else" => ElsesOf(x, k) # {} /\ Max(ElsesOf(x, k)) + 1 = f.else
  <2>. SUFFICES ASSUME f.kind = "else" PROVE ElsesOf(x, k) # {} /\ Max(ElsesOf(x, k)) + 1 = f.else
    OBVIOUS
  <2>1. Max({f.else - 1}) = f.else - 1
    <3>1. {f.else - 1} \in SUBSET Int /\ f.else - 1 \in {f.else - 1}
          /\ \A y \in {f.else - 1} : f.else - 1 >= y
      BY <1>6
    <3>. QED BY <3>1, MaxIs
  <2>2. ElsesOf(x, k) = {f.else - 1}
    BY <1>2
  <2>3. f.else - 1 + 1 = f.else
    BY <1>6
  <2>. QED BY <2>1, <2>2, <2>3, Zenon
<1>. HIDE DEF x, k
<1>9. f.kind = "else" => Positions(x, k) = p1
  BY <1>1, <1>2, <1>3, <1>8, Zenon DEF Positions
<1>10. f.kind # "else" => ElsesOf(x, k) = {}
  BY <1>2
<1>11. f.kind = "if" => Positions(x, k) = p2
  <2>1. f.kind = "if" => f.kind # "else" /\ x[f.pos] = If
    BY <1>7
  <2>. QED BY <1>1, <1>2, <1>3, <1>10, <2>1, Zenon DEF Positions
<1>12. f.kind = "block" => Positions(x, k) = p3
  <2>1. f.kind = "block" => f.kind # "else" /\ x[f.pos] # If
    BY <1>7
  <2>. QED BY <1>1, <1>2, <1>3, <1>10, <2>1, Zenon DEF Positions
<1>. HIDE DEF p1, p2, p3
<1>13. Positions(x, k) = IF f.kind = "else" THEN p1 ELSE IF f.kind = "if" THEN p2 ELSE p3
  BY <1>6, <1>9, <1>11, <1>12
<1>. QED BY <1>13 DEF x, k, p1, p2, p3

\* One more opcode, and what the decoder does for it.
LEMMA NestedStep ==
  ASSUME NEW c \in Seq(Nat), NEW op \in Nat, NEW calls, NEW list, Nested(c, calls, list),
         NEW after, Len(calls) \in Nat, Len(after) \in Nat, Len(after) # 0,
         Len(after) = Len(calls) + Change(op),
         \A i \in 2 .. Len(after) : Opened(Append(c, op), after[i], i),
         op \in {Else, End} => BlockOf(Append(c, op), Len(c) + 1) \in 1 .. Len(c),
         NEW more, NEW p \in Seq(Extra), Positions(Append(c, op), Len(c) + 1) = p,
         Recorded(more) = Recorded(list) \o p
  PROVE  Nested(Append(c, op), after, more)
<1>. DEFINE x == Append(c, op)
            n == Len(c)
<1>1. /\ n \in Nat /\ Len(x) = n + 1 /\ x[n + 1] = op /\ \A j \in 1 .. n : c[j] = x[j]
      /\ \A k \in 0 .. n : Depth(c, k) = Depth(x, k)
      /\ Depth(x, n + 1) = Depth(c, n) + Change(op)
  BY AppendIs
<1>2. /\ Depth(c, n) = Len(calls) /\ Recorded(list) = Matching(c) /\ Owned(c)
      /\ \A k \in 0 .. n : Depth(c, k) > 0
  BY DEF Nested
<1>. HIDE DEF x, n
<1>3. \A k \in 1 .. n + 1 : k = n + 1 \/ k \in 1 .. n
  BY <1>1
<1>4. \A k \in 0 .. n + 1 : k = n + 1 \/ k \in 0 .. n
  BY <1>1
<1>5. Depth(x, Len(x)) = Len(after)
  BY <1>1, <1>2
<1>6. \A k \in 0 .. Len(x) : Depth(x, k) > 0
  <2>1. Depth(x, n + 1) > 0
    BY <1>1, <1>5
  <2>. QED BY <1>1, <1>2, <1>4, <2>1
<1>7. Owned(x)
  <2>1. \A k \in 1 .. n : c[k] \in {Else, End} => BlockOf(c, k) \in 1 .. k - 1
    BY <1>2 DEF Owned, n
  <2>2. \A k \in 1 .. n : BlockOf(c, k) = BlockOf(x, k)
    BY <1>1, <2>1, PositionsSame
  <2>3. \A k \in 1 .. n + 1 : x[k] \in {Else, End} => BlockOf(x, k) \in 1 .. k - 1
    <3>1. x[n + 1] \in {Else, End} => BlockOf(x, n + 1) \in 1 .. n
      BY <1>1 DEF x, n
    <3>2. \A k \in 1 .. n : x[k] \in {Else, End} => BlockOf(x, k) \in 1 .. k - 1
      BY <1>1, <2>1, <2>2, Zenon
    <3>. SUFFICES ASSUME NEW k \in 1 .. n + 1
                  PROVE  x[k] \in {Else, End} => BlockOf(x, k) \in 1 .. k - 1
      OBVIOUS
    <3>3. CASE k = n + 1
      <4>1. k - 1 = n
        BY <1>1, <3>3
      <4>2. x[k] \in {Else, End} => BlockOf(x, k) \in 1 .. n
        BY <3>1, <3>3
      <4>. QED BY <4>1, <4>2
    <3>4. CASE k \in 1 .. n
      BY <3>2, <3>4, Zenon
    <3>. QED BY <1>3, <3>3, <3>4
  <2>. QED BY <1>1, <2>3 DEF Owned
<1>8. Recorded(more) = Matching(x)
  <2>1. Matching(x) = Matching(c) \o p
    BY <1>2, MatchingAppend DEF x
  <2>. QED BY <1>2, <2>1
<1>. QED BY <1>5, <1>6, <1>7, <1>8, Zenon DEF Nested, x

-----------------------------------------------------------------------------
(* The opcodes of the list *)

OpcodesOf(list) == [k \in 1 .. Len(list) - 1 |-> list[k + 1].op]

LEMMA OpIs ==
  ASSUME NEW i \in Instruction
  PROVE  i.op \in Nat
<1>1. i.op \in 0 .. 255
  BY DEF Instruction
<1>. QED BY <1>1

LEMMA OpcodesIs ==
  ASSUME NEW list \in Seq(Instruction), list # <<>>
  PROVE  /\ OpcodesOf(list) \in Seq(Nat)
         /\ Len(list) - 1 \in Nat /\ Len(list) \in Nat
         /\ Len(OpcodesOf(list)) = Len(list) - 1
         /\ \A k \in 1 .. Len(list) : list[k] \in Instruction
         /\ \A k \in 1 .. Len(list) - 1 : OpcodesOf(list)[k] = list[k + 1].op
<1>1. Len(list) \in Nat /\ Len(list) # 0
  BY EmptySeq
<1>2. \A k \in 1 .. Len(list) : list[k] \in Instruction
  BY ElementOfSeq
<1>3. \A k \in 1 .. Len(list) - 1 : list[k + 1].op \in Nat
  <2>1. \A k \in 1 .. Len(list) - 1 : k + 1 \in 1 .. Len(list)
    BY <1>1
  <2>2. \A i \in Instruction : i.op \in Nat
    BY OpIs
  <2>. QED BY <1>2, <2>1, <2>2
<1>4. Len(list) - 1 \in Nat
  BY <1>1
<1>. QED BY <1>1, <1>2, <1>3, <1>4 DEF OpcodesOf

LEMMA OpcodesAppend ==
  ASSUME NEW list \in Seq(Instruction), list # <<>>, NEW i \in Instruction
  PROVE  OpcodesOf(Append(list, i)) = Append(OpcodesOf(list), i.op)
<1>. DEFINE l == Append(list, i)
            n == Len(list)
<1>1. /\ l \in Seq(Instruction) /\ l # <<>> /\ Len(l) = n + 1 /\ l[n + 1] = i
      /\ \A k \in 1 .. n : l[k] = list[k]
  BY AppendProperties
<1>. HIDE DEF l
<1>2. /\ OpcodesOf(list) \in Seq(Nat) /\ n - 1 \in Nat /\ n \in Nat
      /\ Len(OpcodesOf(list)) = n - 1
      /\ \A k \in 1 .. n - 1 : OpcodesOf(list)[k] = list[k + 1].op
  BY OpcodesIs
<1>3. /\ OpcodesOf(l) \in Seq(Nat) /\ Len(OpcodesOf(l)) = Len(l) - 1
      /\ \A k \in 1 .. Len(l) - 1 : OpcodesOf(l)[k] = l[k + 1].op
  BY <1>1, OpcodesIs
<1>. HIDE DEF n
<1>4. i.op \in Nat
  BY OpIs
<1>5. Len(OpcodesOf(l)) = Len(OpcodesOf(list)) + 1
  BY <1>1, <1>2, <1>3
<1>6. OpcodesOf(l)[Len(OpcodesOf(list)) + 1] = i.op
  <2>1. Len(OpcodesOf(list)) + 1 = n /\ n \in 1 .. Len(l) - 1
    BY <1>1, <1>2
  <2>. QED BY <1>1, <1>3, <2>1
<1>7. \A k \in 1 .. Len(OpcodesOf(list)) : OpcodesOf(l)[k] = OpcodesOf(list)[k]
  <2>1. \A k \in 1 .. n - 1 : k \in 1 .. Len(l) - 1 /\ k + 1 \in 1 .. n
    BY <1>1, <1>2
  <2>. QED BY <1>1, <1>2, <1>3, <2>1
<1>8. OpcodesOf(l) = Append(OpcodesOf(list), i.op)
  BY <1>2, <1>3, <1>4, <1>5, <1>6, <1>7, IsAppend
<1>. QED BY <1>8 DEF l

LEMMA OpcodesExtra ==
  ASSUME NEW list \in Seq(Instruction), list # <<>>, NEW e
  PROVE  OpcodesOf([list EXCEPT ![Len(list)].extra = e]) = OpcodesOf(list)
<1>. DEFINE l == [list EXCEPT ![Len(list)].extra = e]
            n == Len(list)
<1>1. n \in Nat /\ \A k \in 1 .. n : list[k] \in Instruction
  BY OpcodesIs
<1>2. Len(l) = n /\ \A k \in 1 .. n : l[k].op = list[k].op
  BY <1>1 DEF Instruction
<1>3. \A k \in 1 .. n - 1 : k + 1 \in 1 .. n
  BY <1>1
<1>. HIDE DEF l, n
<1>4. [k \in 1 .. n - 1 |-> l[k + 1].op] = [k \in 1 .. n - 1 |-> list[k + 1].op]
  BY <1>2, <1>3
<1>. QED BY <1>2, <1>4 DEF OpcodesOf, l, n

LEMMA FrontAppend ==
  ASSUME NEW s \in Seq(Nat)
  PROVE  /\ \A x \in Nat : Front(Append(s, x)) = s
         /\ s # <<>> => /\ Front(s) \in Seq(Nat) /\ Len(Front(s)) = Len(s) - 1
                        /\ s = Append(Front(s), s[Len(s)])
                        /\ s[Len(s)] \in Nat
<1>1. ASSUME NEW x \in Nat PROVE Front(Append(s, x)) = s
  <2>. DEFINE t == Append(s, x)
  <2>1. t \in Seq(Nat) /\ Len(t) = Len(s) + 1 /\ \A k \in 1 .. Len(s) : t[k] = s[k]
    BY AppendProperties
  <2>. HIDE DEF t
  <2>2. Front(t) = SubSeq(t, 1, Len(s))
    <3>1. Len(t) - 1 = Len(s)
      BY <2>1
    <3>. QED BY <3>1 DEF Front
  <2>3. SubSeq(t, 1, Len(s)) = s
    BY <2>1
  <2>. QED BY <2>2, <2>3 DEF t
<1>2. ASSUME s # <<>>
      PROVE  /\ Front(s) \in Seq(Nat) /\ Len(Front(s)) = Len(s) - 1
             /\ s = Append(Front(s), s[Len(s)])
             /\ s[Len(s)] \in Nat
  <2>1. Len(s) \in Nat /\ Len(s) # 0
    BY <1>2, EmptySeq
  <2>2. Front(s) = SubSeq(s, 1, Len(s) - 1)
    BY DEF Front
  <2>3. /\ Front(s) \in Seq(Nat) /\ Len(Front(s)) = Len(s) - 1
        /\ \A k \in 1 .. Len(s) - 1 : Front(s)[k] = s[k]
    <3>. DEFINE m == Len(s) - 1
    <3>1. m \in Int /\ 1 \in Int /\ m \in Nat /\ \A i \in 1 .. m : i \in 1 .. Len(s)
      BY <2>1
    <3>2. \A i \in 1 .. m : s[i] \in Nat
      BY <3>1, ElementOfSeq
    <3>. HIDE DEF m
    <3>3. (IF 1 <= m THEN m - 1 + 1 ELSE 0) = m /\ m - 1 + 1 = m /\ \A i \in 1 .. m : 1 + i - 1 = i
      BY <3>1
    <3>4. /\ SubSeq(s, 1, m) \in Seq(Nat)
          /\ Len(SubSeq(s, 1, m)) = IF 1 <= m THEN m - 1 + 1 ELSE 0
          /\ \A i \in 1 .. m - 1 + 1 : SubSeq(s, 1, m)[i] = s[1 + i - 1]
      BY <3>1, <3>2, SubSeqProperties
    <3>5. /\ SubSeq(s, 1, m) \in Seq(Nat) /\ Len(SubSeq(s, 1, m)) = m
          /\ \A i \in 1 .. m : SubSeq(s, 1, m)[i] = s[i]
      BY <3>3, <3>4
    <3>. QED BY <2>2, <3>5 DEF m
  <2>4. s[Len(s)] \in Nat
    BY <2>1, ElementOfSeq
  <2>5. Len(s) = Len(Front(s)) + 1
    BY <2>1, <2>3
  <2>6. s = Append(Front(s), s[Len(s)])
    BY <2>3, <2>4, <2>5, IsAppend
  <2>. QED BY <2>3, <2>4, <2>6
<1>. QED BY <1>1, <1>2

LEMMA OpcodesAre ==
  /\ Opcodes = OpcodesOf(instructions) /\ Pos = Len(instructions) - 1
  /\ Opcodes' = OpcodesOf(instructions') /\ Pos' = Len(instructions') - 1
BY DEF Opcodes, OpcodesOf, Pos

\* The opcode that is being handled, and what holds before it.
LEMMA Handling ==
  ASSUME EInv, SInv, diags = {}, pc \in {"operands", "return"}
  PROVE  /\ Front(Opcodes) \in Seq(Nat) /\ Inst.op \in Nat
         /\ Opcodes = Append(Front(Opcodes), Inst.op)
         /\ Pos = Len(Front(Opcodes)) + 1 /\ Pos \in Nat /\ Len(Opcodes) = Pos
         /\ Nested(Front(Opcodes), frames, extras)
         /\ Len(instructions) <= curr + 1
         /\ Depth(Front(Opcodes), Len(Front(Opcodes))) = Len(frames)
<1>1. pc \in {"opcode", "operands", "return", "panicked"} /\ pc \in {"opcode", "operands", "return"}
  OBVIOUS
<1>2. instructions \in Seq(Instruction) /\ instructions # <<>>
  BY <1>1, InsideFacts
<1>3. /\ Pos > 0 /\ Nested(Front(Opcodes), frames, extras)
      /\ Len(instructions) <= curr + 1
  BY <1>1 DEF SInv
<1>4. /\ Opcodes \in Seq(Nat) /\ Pos \in Nat /\ Len(instructions) \in Nat
      /\ Len(Opcodes) = Pos /\ Len(instructions) = Pos + 1
      /\ \A k \in 1 .. Pos : Opcodes[k] = instructions[k + 1].op
  <2>1. /\ Opcodes \in Seq(Nat) /\ Len(instructions) - 1 \in Nat /\ Len(instructions) \in Nat
        /\ Len(Opcodes) = Len(instructions) - 1
        /\ \A k \in 1 .. Len(instructions) - 1 : Opcodes[k] = instructions[k + 1].op
    BY <1>2, OpcodesIs, OpcodesAre
  <2>2. Pos = Len(instructions) - 1
    BY OpcodesAre
  <2>3. Len(instructions) = Pos + 1
    BY <2>1, <2>2
  <2>. QED BY <2>1, <2>2, <2>3, Zenon
<1>5. Opcodes # <<>>
  BY <1>3, <1>4
<1>6. Opcodes[Len(Opcodes)] = Inst.op
  <2>1. Pos \in 1 .. Pos
    BY <1>3, <1>4
  <2>2. Inst = instructions[Len(instructions)]
    BY DEF Inst, Last
  <2>. QED BY <1>4, <2>1, <2>2
<1>7. /\ Front(Opcodes) \in Seq(Nat) /\ Len(Front(Opcodes)) = Len(Opcodes) - 1
      /\ Opcodes = Append(Front(Opcodes), Opcodes[Len(Opcodes)])
      /\ Opcodes[Len(Opcodes)] \in Nat
  BY <1>4, <1>5, FrontAppend
<1>8. Pos = Len(Front(Opcodes)) + 1
  BY <1>4, <1>7
<1>9. Depth(Front(Opcodes), Len(Front(Opcodes))) = Len(frames)
  BY <1>3 DEF Nested
<1>. QED BY <1>3, <1>4, <1>6, <1>7, <1>8, <1>9

\* ... and what holds after it.
LEMMA Handled ==
  ASSUME EInv, SInv, diags = {}, pc \in {"operands", "return"}, pc' = "opcode",
         Opcodes' = Opcodes, Len(instructions') = Len(instructions), curr <= curr',
         frames' \in Seq(FrameRecord), frames' # <<>>, EInv',
         Len(frames') = Len(frames) + Change(Inst.op),
         \A i \in 2 .. Len(frames') : Opened(Opcodes, frames'[i], i),
         Inst.op \in {Else, End} => BlockOf(Opcodes, Pos) \in 1 .. Pos - 1,
         NEW p \in Seq(Extra), Positions(Opcodes, Pos) = p,
         Recorded(extras') = Recorded(extras) \o p
  PROVE  SInv'
<1>. DEFINE c == Front(Opcodes)
            op == Inst.op
<1>1. /\ c \in Seq(Nat) /\ op \in Nat /\ Opcodes = Append(c, op) /\ Pos = Len(c) + 1
      /\ Nested(c, frames, extras) /\ Len(instructions) <= curr + 1
  BY Handling
<1>2. pc \in {"opcode", "operands", "return", "panicked"} /\ pc' \in {"opcode", "operands", "return", "panicked"}
  OBVIOUS
<1>3. frames \in Seq(FrameRecord) /\ curr \in Nat /\ Len(instructions) \in Nat
  BY <1>2, InsideFacts
<1>4. curr' \in Nat
  <2>1. data' \in Seq(0 .. 255) /\ curr' \in 0 .. Len(data')
    BY <1>2 DEF EInv, Types
  <2>. QED BY <2>1
<1>5. Len(frames) \in Nat /\ Len(frames') \in Nat /\ Len(frames') # 0
  <2>1. Len(frames) \in Nat
    BY <1>3
  <2>2. Len(frames') \in Nat \ {0}
    BY EmptySeq
  <2>. QED BY <2>1, <2>2
<1>. HIDE DEF c, op
<1>6. Inst.op = op
  BY DEF op
<1>7. Pos - 1 = Len(c)
  <2>1. Len(c) \in Nat
    BY <1>1
  <2>. QED BY <1>1, <2>1
<1>8. /\ \A i \in 2 .. Len(frames') : Opened(Append(c, op), frames'[i], i)
      /\ op \in {Else, End} => BlockOf(Append(c, op), Len(c) + 1) \in 1 .. Len(c)
      /\ Positions(Append(c, op), Len(c) + 1) = p
  BY <1>1, <1>6, <1>7, Zenon
<1>9. Len(frames') = Len(frames) + Change(op)
  BY <1>6
<1>10. Nested(Append(c, op), frames', extras')
  BY <1>1, <1>5, <1>8, <1>9, NestedStep
<1>11. Nested(Opcodes', frames', extras')
  BY <1>1, <1>10
<1>12. Len(instructions') <= curr' + 1
  BY <1>1, <1>3, <1>4
<1>13. pc' \notin {"operands", "return", "done"}
  OBVIOUS
<1>. QED BY <1>11, <1>12, <1>13 DEF SInv

\* The calls under the last one keep their blocks.
LEMMA OthersOpened ==
  ASSUME EInv, SInv, diags = {}, pc \in {"operands", "return"}, NEW i \in 2 .. Len(frames),
         Inst.op = Else => i # Len(frames)
  PROVE  Opened(Opcodes, frames[i], i)
<1>. DEFINE c == Front(Opcodes)
            op == Inst.op
<1>1. /\ c \in Seq(Nat) /\ op \in Nat /\ Opcodes = Append(c, op)
      /\ Nested(c, frames, extras) /\ Depth(c, Len(c)) = Len(frames)
  BY Handling
<1>2. pc \in {"opcode", "operands", "return", "panicked"}
  OBVIOUS
<1>3. frames \in Seq(FrameRecord)
  BY <1>2, InsideFacts
<1>4. Len(frames) \in Nat /\ i \in 1 .. Len(frames) /\ i \in Nat
  BY <1>3
<1>5. frames[i] \in FrameRecord
  BY <1>3, <1>4, ElementOfSeq
<1>6. Opened(c, frames[i], i)
  BY <1>1 DEF Nested
<1>7. i <= Depth(c, Len(c)) /\ (op = Else => i < Depth(c, Len(c)))
  BY <1>1, <1>4
<1>. HIDE DEF c, op
<1>. QED BY <1>1, <1>4, <1>5, <1>6, <1>7, OpenedLater

\* The block of the last call.
LEMMA LastOpened ==
  ASSUME EInv, SInv, diags = {}, pc = "return", Last(frames).kind # "top"
  PROVE  /\ Last(frames) \in FrameRecord /\ Len(frames) \in Nat /\ Len(frames) > 1
         /\ Opened(Front(Opcodes), Last(frames), Depth(Front(Opcodes), Len(Front(Opcodes))))
         /\ BlockOf(Opcodes, Pos) = Last(frames).pos /\ Last(frames).pos \in 1 .. Pos - 1
<1>. DEFINE c == Front(Opcodes)
            op == Inst.op
            f == Last(frames)
<1>1. /\ c \in Seq(Nat) /\ op \in Nat /\ Opcodes = Append(c, op) /\ Pos = Len(c) + 1
      /\ Nested(c, frames, extras) /\ Depth(c, Len(c)) = Len(frames)
  BY Handling
<1>2. pc \in {"opcode", "operands", "return", "panicked"}
  OBVIOUS
<1>3. frames \in Seq(FrameRecord) /\ frames # <<>> /\ CallsOK(frames, curr)
  BY <1>2, InsideFacts
<1>4. f \in FrameRecord /\ Len(frames) # 1
  BY <1>3, LastCall
<1>5. Len(frames) \in Nat /\ Len(frames) > 1 /\ Len(frames) \in 2 .. Len(frames) /\ f = frames[Len(frames)]
  <2>1. Len(frames) \in Nat \ {0}
    BY <1>3, EmptySeq
  <2>2. f = frames[Len(frames)]
    BY DEF Last
  <2>. HIDE DEF f
  <2>3. \A k \in Nat \ {0} : k # 1 => k \in Nat /\ k > 1 /\ k \in 2 .. k
    OBVIOUS
  <2>4. Len(frames) \in Nat /\ Len(frames) > 1 /\ Len(frames) \in 2 .. Len(frames)
    BY <1>4, <2>1, <2>3, Zenon
  <2>. QED BY <2>2, <2>4
<1>. HIDE DEF c, op, f
<1>6. Opened(c, f, Depth(c, Len(c)))
  BY <1>1, <1>5 DEF Nested
<1>7. BlockOf(Append(c, op), Len(c) + 1) = f.pos
  BY <1>1, <1>4, <1>6, BlockOfLast
<1>8. f.pos \in 1 .. Len(c)
  BY <1>6 DEF Opened
<1>9. Pos - 1 = Len(c)
  <2>1. Len(c) \in Nat
    BY <1>1
  <2>. QED BY <1>1, <2>1
<1>. QED BY <1>1, <1>4, <1>5, <1>6, <1>7, <1>8, <1>9 DEF c, op, f

LEMMA FrontCalls ==
  ASSUME NEW calls \in Seq(FrameRecord), Len(calls) > 1
  PROVE  /\ Front(calls) \in Seq(FrameRecord) /\ Len(Front(calls)) = Len(calls) - 1
         /\ \A k \in 1 .. Len(calls) - 1 : Front(calls)[k] = calls[k]
<1>. DEFINE m == Len(calls) - 1
<1>1. m \in Int /\ 1 \in Int /\ m \in Nat /\ \A i \in 1 .. m : i \in 1 .. Len(calls)
  OBVIOUS
<1>2. \A i \in 1 .. m : calls[i] \in FrameRecord
  BY <1>1, ElementOfSeq
<1>3. Front(calls) = SubSeq(calls, 1, m)
  BY DEF Front
<1>. HIDE DEF m
<1>4. (IF 1 <= m THEN m - 1 + 1 ELSE 0) = m /\ m - 1 + 1 = m /\ \A i \in 1 .. m : 1 + i - 1 = i
  BY <1>1
<1>5. /\ SubSeq(calls, 1, m) \in Seq(FrameRecord)
      /\ Len(SubSeq(calls, 1, m)) = IF 1 <= m THEN m - 1 + 1 ELSE 0
      /\ \A i \in 1 .. m - 1 + 1 : SubSeq(calls, 1, m)[i] = calls[1 + i - 1]
  BY <1>1, <1>2, SubSeqProperties
<1>6. /\ SubSeq(calls, 1, m) \in Seq(FrameRecord) /\ Len(SubSeq(calls, 1, m)) = m
      /\ \A i \in 1 .. m : SubSeq(calls, 1, m)[i] = calls[i]
  BY <1>4, <1>5
<1>. QED BY <1>3, <1>6 DEF m

\* Two positions at once.
LEMMA RecordedTwo ==
  ASSUME NEW list \in Seq(Extra), NEW x \in Extra, NEW y \in Extra, x[1] = "inst", y[1] = "inst"
  PROVE  Recorded(list \o <<x, y>>) = Recorded(list) \o <<x, y>>
<1>1. list \o <<x, y>> = Append(Append(list, x), y)
  OBVIOUS
<1>2. Append(list, x) \in Seq(Extra)
  OBVIOUS
<1>3. /\ Recorded(list) \in Seq(Extra)
      /\ Recorded(Append(list, x)) = Recorded(list) \o <<x>>
      /\ Recorded(Append(Append(list, x), y)) = Recorded(Append(list, x)) \o <<y>>
  BY <1>2, RecordedAppend DEF Position
<1>4. (Recorded(list) \o <<x>>) \o <<y>> = Recorded(list) \o <<x, y>>
  BY <1>3
<1>. QED BY <1>1, <1>3, <1>4

LEMMA RecordedWords ==
  ASSUME NEW list \in Seq(Extra), NEW w \in Extra, w[1] # "inst", NEW count \in 0 .. 3
  PROVE  Recorded(list \o [k \in 1 .. count |-> w]) = Recorded(list)
<1>. DEFINE l1 == Append(list, w)
            l2 == Append(l1, w)
            l3 == Append(l2, w)
<1>1. l1 \in Seq(Extra) /\ l2 \in Seq(Extra) /\ l3 \in Seq(Extra)
  OBVIOUS
<1>2. \A l \in Seq(Extra) : Recorded(Append(l, w)) = Recorded(l)
  <2>. SUFFICES ASSUME NEW l \in Seq(Extra) PROVE Recorded(Append(l, w)) = Recorded(l)
    OBVIOUS
  <2>1. Recorded(l) \in Seq(Extra) /\ Recorded(Append(l, w)) = Recorded(l) \o <<>>
    BY RecordedAppend DEF Position
  <2>. QED BY <2>1, ConcatEmptySeq
<1>3. Recorded(l1) = Recorded(list) /\ Recorded(l2) = Recorded(list) /\ Recorded(l3) = Recorded(list)
  <2>1. Recorded(l1) = Recorded(list) /\ Recorded(l2) = Recorded(l1) /\ Recorded(l3) = Recorded(l2)
    BY <1>1, <1>2
  <2>. QED BY <2>1
<1>4. CASE count = 0
  <2>1. [k \in 1 .. 0 |-> w] = <<>>
    OBVIOUS
  <2>. QED BY <1>4, <2>1, ConcatEmptySeq
<1>5. CASE count = 1
  <2>1. list \o [k \in 1 .. 1 |-> w] = l1
    OBVIOUS
  <2>. QED BY <1>3, <1>5, <2>1
<1>6. CASE count = 2
  <2>1. list \o [k \in 1 .. 2 |-> w] = l2
    OBVIOUS
  <2>. QED BY <1>3, <1>6, <2>1
<1>7. CASE count = 3
  <2>1. list \o [k \in 1 .. 3 |-> w] = l3
    OBVIOUS
  <2>. QED BY <1>3, <1>7, <2>1
<1>. QED BY <1>4, <1>5, <1>6, <1>7

LEMMA OpenedSame ==
  ASSUME NEW ops, NEW f, NEW g, NEW i, Opened(ops, f, i),
         g.pos = f.pos, g.kind = f.kind, g.else = f.else
  PROVE  Opened(ops, g, i)
BY Zenon DEF Opened

-----------------------------------------------------------------------------
(* The structure, step by step *)

LEMMA StructureInit == Init => SInv
<1>. SUFFICES ASSUME Init PROVE SInv
  OBVIOUS
<1>1. pc = "fields"
  BY DEF Init
<1>. QED BY <1>1 DEF SInv

\* The end of the fields, or of one that fails: there is no expression yet,
\* or its errors are there.
LEMMA StructureFields == EInv /\ SInv /\ (ReadField \/ FieldsDone) => SInv'
<1>. SUFFICES ASSUME EInv, ReadField \/ FieldsDone PROVE SInv'
  OBVIOUS
<1>1. pc = "fields" /\ instructions' = instructions
  BY DEF ReadField, FieldsDone, lists
<1>2. pc' \in {"fields", "done"}
  BY DEF ReadField, FieldsDone
<1>3. instructions = <<>>
  BY <1>1 DEF EInv, InFields
<1>4. StructureRecovered'
  BY <1>1, <1>3 DEF StructureRecovered, ReadCleanly
<1>. QED BY <1>2, <1>4 DEF SInv

LEMMA NestedEmpty ==
  ASSUME NEW f, NEW y, y[1] # "inst"
  PROVE  Nested(<<>>, <<f>>, <<y>>)
<1>1. Len(<<>>) = 0 /\ Len(<<f>>) = 1
  OBVIOUS
<1>2. Depth(<<>>, 0) = 1
  BY DepthIs
<1>3. \A k \in 0 .. 0 : Depth(<<>>, k) > 0
  BY <1>2
<1>4. Owned(<<>>)
  BY <1>1 DEF Owned
<1>5. Matching(<<>>) = <<>>
  <2>1. [k \in 1 .. 0 |-> Positions(<<>>, k)] = <<>>
    OBVIOUS
  <2>. QED BY <1>1, <2>1, FlattenEmpty DEF Matching
<1>6. Recorded(<<y>>) = <<>>
  <2>1. Len(<<y>>) = 1 /\ <<y>>[1] = y
    OBVIOUS
  <2>2. Recorded(<<y>>) = FlattenSeq([k \in 1 .. 1 |-> IF <<y>>[k][1] = "inst" THEN <<(<<y>>[k])>> ELSE <<>>])
    BY <2>1 DEF Recorded
  <2>3. [k \in 1 .. 1 |-> IF <<y>>[k][1] = "inst" THEN <<(<<y>>[k])>> ELSE <<>>] = Append(<<>>, <<>>)
    <3>1. \A k \in 1 .. 1 : (IF <<y>>[k][1] = "inst" THEN <<(<<y>>[k])>> ELSE <<>>) = <<>>
      <4>1. \A k \in 1 .. 1 : <<y>>[k] = y
        OBVIOUS
      <4>. QED BY <4>1
    <3>2. Append(<<>>, <<>>) = [k \in 1 .. 1 |-> <<>>]
      OBVIOUS
    <3>. QED BY <3>1, <3>2
  <2>4. FlattenSeq(Append(<<>>, <<>>)) = FlattenSeq(<<>>) \o <<>>
    <3>1. <<>> \in Seq({<<>>}) /\ <<>> \in {<<>>} /\ <<>> \o <<>> = <<>>
      OBVIOUS
    <3>. QED BY <3>1, FlattenAppend
  <2>5. <<>> \o <<>> = <<>>
    OBVIOUS
  <2>. QED BY <2>2, <2>3, <2>4, <2>5, FlattenEmpty
<1>7. \A i \in 2 .. 1 : Opened(<<>>, <<f>>[i], i)
  OBVIOUS
<1>. QED BY <1>1, <1>2, <1>3, <1>4, <1>5, <1>6, <1>7, Zenon DEF Nested

LEMMA StructureStart == EInv /\ EInv' /\ SInv /\ StartExpr => SInv'
<1>. SUFFICES ASSUME EInv', StartExpr PROVE SInv'
  OBVIOUS
<1>. DEFINE f == Frame("top", 0, mem', 0)
            y == <<"sentinel", 0>>
            i == [op |-> 0, extra |-> 0]
<1>1. /\ instructions' = <<i>> /\ extras' = <<y>> /\ frames' = <<f>> /\ pc' = "opcode"
  BY DEF StartExpr
<1>2. y[1] # "inst"
  OBVIOUS
<1>3. Opcodes' = <<>> /\ Len(instructions') = 1
  <2>1. Len(<<i>>) = 1
    OBVIOUS
  <2>2. OpcodesOf(<<i>>) = <<>>
    <3>1. Len(<<i>>) - 1 = 0
      BY <2>1
    <3>2. OpcodesOf(<<i>>) = [k \in 1 .. 0 |-> <<i>>[k + 1].op]
      BY <3>1 DEF OpcodesOf
    <3>. QED BY <3>2
  <2>. QED BY <1>1, <2>1, <2>2, OpcodesAre
<1>. HIDE DEF f, y, i
<1>4. Nested(Opcodes', frames', extras')
  BY <1>1, <1>2, <1>3, NestedEmpty
<1>5. curr' \in Nat
  <2>1. data' \in Seq(0 .. 255) /\ curr' \in 0 .. Len(data')
    BY DEF EInv, Types
  <2>. QED BY <2>1
<1>6. Len(instructions') <= curr' + 1
  <2>1. \A c \in Nat : 1 <= c + 1
    OBVIOUS
  <2>. QED BY <1>3, <1>5, <2>1, Zenon
<1>7. pc' \notin {"operands", "return", "done"}
  BY <1>1
<1>. QED BY <1>1, <1>4, <1>6, <1>7 DEF SInv

LEMMA StructureOpcode == EInv /\ EInv' /\ SInv /\ ReadOpcode => SInv'
<1>. SUFFICES ASSUME EInv, EInv', SInv, ReadOpcode, diags' = {} PROVE SInv'
  BY DEF SInv
<1>. DEFINE read == ReadByte(data, curr)
            op == IF read.ok THEN ByteAt(data, curr) ELSE 0
            i == [op |-> op, extra |-> 0]
<1>1. /\ pc = "opcode" /\ frames' = frames /\ extras' = extras
      /\ curr' = read.curr /\ diags' = diags \cup read.diags
  BY DEF ReadOpcode
<1>2. pc \in {"opcode", "operands", "return", "panicked"}
  BY <1>1
<1>3. /\ data \in Seq(0 .. 255) /\ curr \in 0 .. Len(data) /\ curr \in Nat /\ Len(data) \in Nat
      /\ instructions \in Seq(Instruction) /\ instructions # <<>>
      /\ Len(instructions) \in Nat
  BY <1>2, InsideFacts
<1>4. diags = {} /\ read.diags = {}
  BY <1>1
<1>5. Len(instructions) <= curr + 1 /\ Nested(Opcodes, frames, extras)
  BY <1>1, <1>4 DEF SInv
<1>6. instructions' = Append(instructions, i)
  <2>1. Len(instructions) <= Len(data) + 1
    BY <1>3, <1>5
  <2>. QED BY <2>1 DEF ReadOpcode
<1>7. read.ok /\ (read.ok => ByteAt(data, curr) \in 0 .. 255)
  BY <1>3, <1>4, ReadByteOutcome DEF Honest
<1>8. read.curr = curr + 1
  BY <1>7 DEF ReadByte, ReadBytes, Got, Fail
<1>9. /\ pc' \in {"return", "operands", "panicked"}
      /\ pc' = "return" => op \in Until(Last(frames))
      /\ pc' = "operands" => op \notin Until(Last(frames)) /\ op # Else
  <2>1. pc' = CASE op \in Until(Last(frames)) -> "return"
                [] op \notin Until(Last(frames)) /\ op = Else -> "panicked"
                [] OTHER -> "operands"
    BY DEF ReadOpcode
  <2>. HIDE DEF op
  <2>. QED BY <2>1
<1>. HIDE DEF read
<1>10. op \in 0 .. 255
  BY <1>7
<1>. HIDE DEF op
<1>11. i \in Instruction /\ i.op = op
  BY <1>10 DEF Instruction
<1>. HIDE DEF i
<1>12. /\ Opcodes \in Seq(Nat) /\ Opcodes' = Append(Opcodes, op) /\ op \in Nat
  <2>1. OpcodesOf(Append(instructions, i)) = Append(OpcodesOf(instructions), i.op)
    BY <1>3, <1>11, OpcodesAppend
  <2>2. OpcodesOf(instructions) \in Seq(Nat)
    BY <1>3, OpcodesIs
  <2>. QED BY <1>6, <1>10, <1>11, <2>1, <2>2, OpcodesAre
<1>13. Front(Opcodes') = Opcodes
  BY <1>12, FrontAppend
<1>14. Len(instructions') = Len(instructions) + 1 /\ instructions'[Len(instructions')] = i
  BY <1>3, <1>6, <1>11, AppendProperties
<1>15. Inst' = i
  BY <1>14 DEF Inst, Last
<1>16. Pos' > 0
  <2>1. Len(instructions) # 0
    BY <1>3, EmptySeq
  <2>. QED BY <1>3, <1>14, <2>1, OpcodesAre
<1>17. Len(instructions') <= curr' + 1
  BY <1>1, <1>3, <1>5, <1>8, <1>14
<1>18. Nested(Front(Opcodes'), frames', extras')
  BY <1>1, <1>5, <1>13
<1>19. End \in Until(Last(frames))
  BY DEF Until
<1>20. pc' = "operands" => Inst'.op \notin {Else, End}
  BY <1>9, <1>11, <1>15, <1>19
<1>21. pc' = "return" => Inst'.op \in Until(Last(frames'))
  BY <1>1, <1>9, <1>11, <1>15
<1>22. pc' \notin {"opcode", "done"}
  BY <1>9
<1>. QED BY <1>16, <1>17, <1>18, <1>20, <1>21, <1>22 DEF SInv

LEMMA StructureBad == EInv /\ SInv /\ BadBlock => SInv'
<1>. SUFFICES ASSUME EInv, BadBlock, diags' = {} PROVE FALSE
  BY DEF SInv
<1>1. pc = "operands" /\ ~ReadBlockType.ok /\ diags' = diags \cup ReadBlockType.diags
  BY DEF BadBlock
<1>2. pc \in {"opcode", "operands", "return", "panicked"}
  BY <1>1
<1>3. data \in Seq(0 .. 255) /\ curr \in 0 .. Len(data)
  BY <1>2, InsideFacts
<1>4. Honest(ReadBlockType)
  <2>1. \/ ReadBlockType = ReadByte(data, curr)
        \/ ReadBlockType = ReadEnum(data, curr, 124, 127)
    BY DEF ReadBlockType
  <2>2. Honest(ReadByte(data, curr)) /\ Honest(ReadEnum(data, curr, 124, 127))
    BY <1>3, ReadByteOutcome, ReadEnumOutcome
  <2>. QED BY <2>1, <2>2, Zenon
<1>. QED BY <1>1, <1>4 DEF Honest

LEMMA StructureEnter == EInv /\ EInv' /\ SInv /\ EnterBlock => SInv'
<1>. SUFFICES ASSUME EInv, EInv', SInv, EnterBlock, diags' = {} PROVE SInv'
  BY DEF SInv
<1>. DEFINE op == Inst.op
            kind == IF op = If THEN "if" ELSE "block"
            f == [kind |-> kind, pos |-> Pos, mark |-> mem'.used, anchor |-> curr', else |-> 0]
            x == <<"type", Pos>>
            n == Len(frames)
<1>1. /\ pc = "operands" /\ pc' = "opcode" /\ op \in Opening /\ diags = {}
      /\ extras' = Append(extras, x) /\ curr' = ReadBlockType.curr
  BY DEF EnterBlock, Opening
<1>2. frames' = Append(frames, f)
  BY DEF EnterBlock, Frame
<1>3. /\ pc \in {"opcode", "operands", "return", "panicked"} /\ pc \in {"operands", "return"}
      /\ pc' \in {"opcode", "operands", "return", "panicked"}
  BY <1>1
<1>4. /\ data \in Seq(0 .. 255) /\ curr \in 0 .. Len(data) /\ curr \in Nat
      /\ frames \in Seq(FrameRecord) /\ extras \in Seq(Extra)
      /\ instructions \in Seq(Instruction) /\ instructions # <<>>
      /\ Len(instructions) \in Nat
  BY <1>3, InsideFacts
<1>5. frames' \in Seq(FrameRecord) /\ frames' # <<>>
  BY <1>3 DEF EInv, Types, InExpr
<1>6. /\ Front(Opcodes) \in Seq(Nat) /\ op \in Nat
      /\ Opcodes = Append(Front(Opcodes), op)
      /\ Pos = Len(Front(Opcodes)) + 1 /\ Pos \in Nat /\ Len(Opcodes) = Pos
      /\ Depth(Front(Opcodes), Len(Front(Opcodes))) = n
  BY <1>1, <1>3, Handling
<1>7. Opcodes' = Opcodes /\ Len(instructions') = Len(instructions)
  <2>1. instructions' = [instructions EXCEPT ![Len(instructions)].extra = Len(extras)]
    <3>1. Pos + 1 = Len(instructions)
      BY <1>4 DEF Pos
    <3>2. instructions' = [instructions EXCEPT ![Pos + 1].extra = Len(extras)]
      BY DEF EnterBlock
    <3>. QED BY <3>1, <3>2
  <2>2. Len(instructions') = Len(instructions)
    BY <1>4, <2>1
  <2>. QED BY <1>4, <2>1, <2>2, OpcodesExtra, OpcodesAre
<1>8. curr <= curr'
  <2>1. ReadBlockType.curr \in curr .. Len(data)
    BY <1>4, BlockTypeOutcome DEF Outcome
  <2>. QED BY <1>1, <1>4, <2>1
<1>9. x \in Extra /\ x[1] # "inst"
  BY <1>6 DEF Extra
<1>. HIDE DEF x
<1>10. Recorded(extras') = Recorded(extras) \o <<>>
  BY <1>1, <1>4, <1>9, RecordedAppend DEF Position
<1>11. op \notin {Else, End} /\ Change(op) = 1 /\ (op = If \/ op \in Blocks) /\ (op = If => op \notin Blocks)
  BY <1>1, CodesApart DEF Change
<1>12. Positions(Opcodes, Pos) = <<>>
  BY <1>6, <1>11, PositionsPlain
<1>13. f.pos = Pos /\ f.kind # "else" /\ (f.kind = "block" <=> op \in Blocks)
  BY <1>11
<1>. HIDE DEF f, op
<1>14. /\ n \in Nat /\ Len(frames') = n + 1 /\ frames'[n + 1] = f
       /\ \A i \in 1 .. n : frames'[i] = frames[i]
  <2>1. f \in FrameRecord
    <3>1. f = frames'[Len(frames')] /\ Len(frames') \in 1 .. Len(frames')
      BY <1>2, <1>4
    <3>. QED BY <1>5, <3>1, ElementOfSeq
  <2>. QED BY <1>2, <1>4, <2>1, AppendProperties
<1>15. \A i \in 2 .. n : Opened(Opcodes, frames[i], i)
  <2>1. Inst.op # Else
    BY <1>11 DEF op
  <2>. QED BY <1>1, <1>3, <2>1, OthersOpened
<1>16. Opened(Opcodes, f, n + 1)
  <2>1. /\ Opcodes[Pos] = op /\ Depth(Opcodes, Pos) = n + Change(op)
    <3>. DEFINE c == Front(Opcodes)
    <3>. HIDE DEF c, n
    <3>1. c \in Seq(Nat) /\ Opcodes = Append(c, op) /\ Pos = Len(c) + 1 /\ Depth(c, Len(c)) = n
      BY <1>6 DEF c
    <3>2. /\ Append(c, op)[Len(c) + 1] = op
          /\ Depth(Append(c, op), Len(c) + 1) = Depth(c, Len(c)) + Change(op)
      BY <1>6, <3>1, AppendIs
    <3>. QED BY <3>1, <3>2, Zenon
  <2>2. Depth(Opcodes, Pos) = n + 1 /\ Pos \in 1 .. Pos
    BY <1>6, <1>11, <2>1
  <2>3. \A j \in Pos + 1 .. Pos : FALSE
    BY <1>6
  <2>4. /\ f.pos \in 1 .. Len(Opcodes)
        /\ Opcodes[f.pos] \in Opening /\ Depth(Opcodes, f.pos) = n + 1
        /\ f.kind = "block" <=> Opcodes[f.pos] \in Blocks
        /\ \A j \in f.pos + 1 .. Len(Opcodes) : FALSE
    BY <1>1, <1>6, <1>13, <2>1, <2>2, <2>3, Zenon
  <2>. QED BY <1>13, <2>4, Zenon DEF Opened
<1>17. \A i \in 2 .. Len(frames') : Opened(Opcodes, frames'[i], i)
  <2>. SUFFICES ASSUME NEW i \in 2 .. Len(frames') PROVE Opened(Opcodes, frames'[i], i)
    OBVIOUS
  <2>1. i = n + 1 \/ (i \in 2 .. n /\ i \in 1 .. n)
    BY <1>14
  <2>. HIDE DEF n
  <2>. QED BY <1>14, <1>15, <1>16, <2>1
<1>18. Len(frames') = Len(frames) + Change(Inst.op) /\ Inst.op \notin {Else, End}
  BY <1>11, <1>14 DEF op
<1>19. <<>> \in Seq(Extra)
  OBVIOUS
<1>. QED BY <1>1, <1>3, <1>5, <1>7, <1>8, <1>10, <1>12, <1>17, <1>18, <1>19, Handled

LEMMA StructureSimple == EInv /\ EInv' /\ SInv /\ SimpleInstruction => SInv'
<1>. SUFFICES ASSUME EInv, EInv', SInv, SimpleInstruction, diags' = {} PROVE SInv'
  BY DEF SInv
<1>. DEFINE op == Inst.op
            read == Operands(op)
            size == ReadULeb(data, curr, 32)
            count == IF op = 14 THEN TableExtras(read)
                     ELSE IF read.ok THEN ExtraCount(op) ELSE 0
            w == <<"word", Pos>>
            n == Len(frames)
<1>1. /\ pc = "operands" /\ pc' = "opcode" /\ op \notin Opening
      /\ extras' = extras \o [k \in 1 .. count |-> w] /\ curr' = read.curr
      /\ diags' = diags \cup read.diags
  BY DEF SimpleInstruction, Opening
<1>2. frames' = IF op = 17 /\ size.ok THEN [frames EXCEPT ![n].anchor = size.curr] ELSE frames
  BY DEF SimpleInstruction
<1>3. /\ pc \in {"opcode", "operands", "return", "panicked"} /\ pc \in {"operands", "return"}
      /\ pc' \in {"opcode", "operands", "return", "panicked"} /\ diags = {}
  BY <1>1
<1>4. /\ data \in Seq(0 .. 255) /\ curr \in 0 .. Len(data) /\ curr \in Nat
      /\ frames \in Seq(FrameRecord) /\ frames # <<>> /\ CallsOK(frames, curr) /\ extras \in Seq(Extra)
      /\ instructions \in Seq(Instruction) /\ instructions # <<>>
      /\ Len(instructions) \in Nat
  BY <1>3, InsideFacts
<1>5. frames' \in Seq(FrameRecord) /\ frames' # <<>>
  BY <1>3 DEF EInv, Types, InExpr
<1>6. /\ Front(Opcodes) \in Seq(Nat) /\ op \in Nat
      /\ Opcodes = Append(Front(Opcodes), op)
      /\ Pos = Len(Front(Opcodes)) + 1 /\ Pos \in Nat
  BY <1>3, Handling
<1>7. Opcodes' = Opcodes /\ Len(instructions') = Len(instructions)
  <2>1. \/ instructions' = [instructions EXCEPT ![Len(instructions)].extra = Len(extras)]
        \/ instructions' = instructions
    <3>1. Pos + 1 = Len(instructions)
      BY <1>4 DEF Pos
    <3>2. \/ instructions' = [instructions EXCEPT ![Pos + 1].extra = Len(extras)]
          \/ instructions' = instructions
      BY DEF SimpleInstruction
    <3>. QED BY <3>1, <3>2
  <2>2. CASE instructions' = [instructions EXCEPT ![Len(instructions)].extra = Len(extras)]
    <3>1. Len(instructions') = Len(instructions)
      BY <1>4, <2>2
    <3>. QED BY <1>4, <2>2, <3>1, OpcodesExtra, OpcodesAre
  <2>3. CASE instructions' = instructions
    BY <2>3, OpcodesAre
  <2>. QED BY <2>1, <2>2, <2>3
<1>8. curr <= curr'
  <2>1. Last(frames) \in FrameRecord /\ Last(frames).anchor <= curr
    BY <1>4, LastCall
  <2>2. Last(frames).anchor \in Nat
    BY <2>1 DEF FrameRecord
  <2>. HIDE DEF op
  <2>3. Outcome(Operands(op), curr, Len(data))
    BY <1>4, <2>1, <2>2, OperandsOutcome
  <2>4. Operands(op).curr \in curr .. Len(data)
    BY <2>3 DEF Outcome
  <2>. QED BY <1>1, <1>4, <2>4
<1>9. count \in 0 .. 3
  <2>1. TableExtras(read) \in 0 .. 3
    BY DEF TableExtras
  <2>2. ExtraCount(op) \in 0 .. 3
    <3>. HIDE DEF op
    <3>1. ExtraCount(op) \in {0, 1, 2}
      BY DEF ExtraCount
    <3>. QED BY <3>1
  <2>. HIDE DEF read, op
  <2>. QED BY <2>1, <2>2
<1>10. w \in Extra /\ w[1] # "inst"
  BY <1>6 DEF Extra
<1>. HIDE DEF count, w, read, size
<1>11. Recorded(extras') = Recorded(extras) \o <<>>
  <2>1. Recorded(extras') = Recorded(extras)
    BY <1>1, <1>4, <1>9, <1>10, RecordedWords
  <2>2. Recorded(extras) \in Seq(Extra)
    BY <1>4, <1>10, RecordedAppend
  <2>. QED BY <2>1, <2>2, ConcatEmptySeq
<1>12. op \notin {Else, End} /\ Change(op) = 0
  <2>1. op \notin {Else, End}
    BY <1>1, <1>3 DEF SInv
  <2>. QED BY <1>1, <2>1 DEF Change
<1>13. Positions(Opcodes, Pos) = <<>>
  BY <1>6, <1>12, PositionsPlain
<1>14. /\ Len(frames') = n /\ n \in Nat
       /\ \A i \in 1 .. n : /\ frames'[i].pos = frames[i].pos /\ frames'[i].kind = frames[i].kind
                            /\ frames'[i].else = frames[i].else
  <2>1. \A i \in 1 .. n : frames[i] \in FrameRecord
    BY <1>4, ElementOfSeq
  <2>2. CASE frames' = frames
    BY <1>4, <2>2
  <2>3. CASE frames' = [frames EXCEPT ![n].anchor = size.curr]
    <3>. DEFINE g == [frames[n] EXCEPT !.anchor = size.curr]
    <3>1. frames' = [frames EXCEPT ![n] = g]
      BY <2>3
    <3>2. Len(frames') = n /\ n \in Nat /\ \A i \in 1 .. n : frames'[i] = IF i = n THEN g ELSE frames[i]
      <4>. HIDE DEF g
      <4>. QED BY <1>4, <3>1
    <3>3. \A i \in 1 .. n : i = n => g.pos = frames[i].pos /\ g.kind = frames[i].kind
                                       /\ g.else = frames[i].else
      BY <2>1 DEF FrameRecord
    <3>. HIDE DEF g
    <3>. QED BY <3>2, <3>3, Zenon
  <2>. QED BY <1>2, <2>2, <2>3
<1>15. \A i \in 2 .. n : Opened(Opcodes, frames[i], i)
  BY <1>3, <1>12, OthersOpened
<1>16. \A i \in 2 .. Len(frames') : Opened(Opcodes, frames'[i], i)
  <2>1. \A i \in 2 .. n : i \in 1 .. n
    OBVIOUS
  <2>. HIDE DEF n
  <2>. QED BY <1>14, <1>15, <2>1, OpenedSame
<1>17. Len(frames') = Len(frames) + Change(Inst.op) /\ Inst.op \notin {Else, End}
  BY <1>12, <1>14
<1>18. <<>> \in Seq(Extra)
  OBVIOUS
<1>. QED BY <1>1, <1>3, <1>5, <1>7, <1>8, <1>11, <1>13, <1>16, <1>17, <1>18, Handled

\* What a call that returns has done for the end of its block.
LEMMA StructureReturn ==
  ASSUME EInv, EInv', SInv, diags = {}, pc = "return", pc' = "opcode", Last(frames).kind # "top",
         Inst.op = End, frames' = Front(frames), instructions' = instructions, curr' = curr,
         NEW p \in Seq(Extra), Recorded(extras') = Recorded(extras) \o p,
         p = IF Last(frames).kind = "else" THEN <<<<"inst", Last(frames).else>>>>
             ELSE IF Last(frames).kind = "if"
                    THEN <<<<"inst", Last(frames).pos + 1>>, <<"inst", 0>>>>
             ELSE <<<<"inst", Last(frames).pos + 1>>>>
  PROVE  SInv'
<1>. DEFINE c == Front(Opcodes)
            f == Last(frames)
            n == Len(frames)
<1>1. /\ pc \in {"opcode", "operands", "return", "panicked"} /\ pc \in {"operands", "return"}
      /\ pc' \in {"opcode", "operands", "return", "panicked"}
  OBVIOUS
<1>2. frames \in Seq(FrameRecord) /\ curr \in Nat
  BY <1>1, InsideFacts
<1>3. frames' \in Seq(FrameRecord) /\ frames' # <<>>
  BY <1>1 DEF EInv, Types, InExpr
<1>4. /\ c \in Seq(Nat) /\ Opcodes = Append(c, End) /\ Pos = Len(c) + 1 /\ Depth(c, Len(c)) = n
  BY <1>1, Handling
<1>5. /\ f \in FrameRecord /\ n \in Nat /\ n > 1
      /\ Opened(c, f, Depth(c, Len(c)))
      /\ BlockOf(Opcodes, Pos) = f.pos /\ f.pos \in 1 .. Pos - 1
  BY LastOpened
<1>6. Positions(Opcodes, Pos) = p
  <2>. HIDE DEF c, f, n
  <2>1. Positions(Append(c, End), Len(c) + 1)
          = IF f.kind = "else" THEN <<<<"inst", f.else>>>>
            ELSE IF f.kind = "if" THEN <<<<"inst", f.pos + 1>>, <<"inst", 0>>>>
            ELSE <<<<"inst", f.pos + 1>>>>
    <3>1. f.kind # "top"
      BY DEF f
    <3>. QED BY <1>4, <1>5, <3>1, PositionsEnd
  <2>. QED BY <1>4, <2>1, Zenon DEF f
<1>7. Len(frames') = n - 1 /\ \A k \in 1 .. n - 1 : frames'[k] = frames[k]
  BY <1>2, <1>5, FrontCalls
<1>8. Inst.op \notin Opening /\ Inst.op # Else /\ Change(Inst.op) = -1
  BY CodesApart DEF Change
<1>9. Len(frames') = Len(frames) + Change(Inst.op)
  BY <1>5, <1>7, <1>8
<1>10. \A i \in 2 .. Len(frames') : Opened(Opcodes, frames'[i], i)
  <2>. SUFFICES ASSUME NEW i \in 2 .. Len(frames') PROVE Opened(Opcodes, frames'[i], i)
    OBVIOUS
  <2>1. i \in 2 .. n /\ i \in 1 .. n - 1
    BY <1>5, <1>7
  <2>2. Opened(Opcodes, frames[i], i)
    BY <1>1, <1>8, <2>1, OthersOpened
  <2>. QED BY <1>7, <2>1, <2>2
<1>11. Opcodes' = Opcodes /\ Len(instructions') = Len(instructions) /\ curr <= curr'
  BY <1>2, OpcodesAre
<1>12. Inst.op \in {Else, End} => BlockOf(Opcodes, Pos) \in 1 .. Pos - 1
  BY <1>5
<1>. HIDE DEF c, f, n
<1>. QED BY <1>1, <1>3, <1>6, <1>9, <1>10, <1>11, <1>12, Handled

LEMMA StructureReturnBlock == EInv /\ EInv' /\ SInv /\ ReturnBlock => SInv'
<1>. SUFFICES ASSUME EInv, EInv', SInv, ReturnBlock, diags' = {} PROVE SInv'
  BY DEF SInv
<1>. DEFINE x == <<"inst", Last(frames).pos + 1>>
<1>1. /\ pc = "return" /\ pc' = "opcode" /\ Last(frames).kind = "block" /\ diags = {}
      /\ extras' = Append(extras, x) /\ frames' = Front(frames)
      /\ instructions' = instructions /\ curr' = curr
  BY DEF ReturnBlock
<1>2. extras \in Seq(Extra)
  BY <1>1, InsideFacts
<1>3. x \in Extra /\ x[1] = "inst"
  BY <1>1, ReturnFacts DEF Extra
<1>4. Inst.op = End
  BY <1>1 DEF SInv, Until
<1>5. Recorded(extras') = Recorded(extras) \o <<x>> /\ <<x>> \in Seq(Extra)
  <2>. HIDE DEF x
  <2>. QED BY <1>1, <1>2, <1>3, RecordedAppend DEF Position
<1>6. /\ Last(frames).kind # "top" /\ Last(frames).kind # "else" /\ Last(frames).kind # "if"
  BY <1>1
<1>. QED BY <1>1, <1>4, <1>5, <1>6, StructureReturn

LEMMA StructureReturnElse == EInv /\ EInv' /\ SInv /\ ReturnElse => SInv'
<1>. SUFFICES ASSUME EInv, EInv', SInv, ReturnElse, diags' = {} PROVE SInv'
  BY DEF SInv
<1>. DEFINE x == <<"inst", Last(frames).else>>
<1>1. /\ pc = "return" /\ pc' = "opcode" /\ Last(frames).kind = "else" /\ diags = {}
      /\ extras' = Append(extras, x) /\ frames' = Front(frames)
      /\ instructions' = instructions /\ curr' = curr
  BY DEF ReturnElse
<1>2. extras \in Seq(Extra)
  BY <1>1, InsideFacts
<1>3. x \in Extra /\ x[1] = "inst"
  BY <1>1, ReturnFacts DEF Extra
<1>4. Inst.op = End
  BY <1>1 DEF SInv, Until
<1>5. Recorded(extras') = Recorded(extras) \o <<x>> /\ <<x>> \in Seq(Extra)
  <2>. HIDE DEF x
  <2>. QED BY <1>1, <1>2, <1>3, RecordedAppend DEF Position
<1>6. Last(frames).kind # "top"
  BY <1>1
<1>. QED BY <1>1, <1>4, <1>5, <1>6, StructureReturn

LEMMA StructureReturnIf == EInv /\ EInv' /\ SInv /\ ReturnIf => SInv'
<1>. SUFFICES ASSUME EInv, EInv', SInv, ReturnIf, diags' = {} PROVE SInv'
  BY DEF SInv
<1>. DEFINE x == <<"inst", Last(frames).pos + 1>>
            y == <<"inst", 0>>
<1>1. /\ pc = "return" /\ pc' = "opcode" /\ Last(frames).kind = "if" /\ diags = {}
      /\ extras' = extras \o <<x, y>> /\ frames' = Front(frames)
      /\ instructions' = instructions /\ curr' = curr /\ Inst.op = End
  BY DEF ReturnIf
<1>2. extras \in Seq(Extra)
  BY <1>1, InsideFacts
<1>3. x \in Extra /\ x[1] = "inst" /\ y \in Extra /\ y[1] = "inst"
  BY <1>1, ReturnFacts DEF Extra
<1>4. Recorded(extras') = Recorded(extras) \o <<x, y>> /\ <<x, y>> \in Seq(Extra)
  <2>. HIDE DEF x, y
  <2>. QED BY <1>1, <1>2, <1>3, RecordedTwo
<1>5. Last(frames).kind # "top" /\ Last(frames).kind # "else"
  BY <1>1
<1>. QED BY <1>1, <1>4, <1>5, StructureReturn

LEMMA StructureElse == EInv /\ EInv' /\ SInv /\ EnterElse => SInv'
<1>. SUFFICES ASSUME EInv, EInv', SInv, EnterElse, diags' = {} PROVE SInv'
  BY DEF SInv
<1>. DEFINE x == <<"inst", Last(frames).pos + 1>>
            c == Front(Opcodes)
            f == Last(frames)
            g == [kind |-> "else", pos |-> f.pos, mark |-> mem'.used, anchor |-> curr',
                  else |-> Len(instructions)]
            n == Len(frames)
<1>1. /\ pc = "return" /\ pc' = "opcode" /\ f.kind = "if" /\ diags = {}
      /\ extras' = Append(extras, x)
      /\ instructions' = instructions /\ curr' = curr /\ Inst.op = Else
  BY DEF EnterElse
<1>2. frames' = Append(Front(frames), g)
  BY DEF EnterElse, Frame
<1>3. /\ pc \in {"opcode", "operands", "return", "panicked"} /\ pc \in {"operands", "return"}
      /\ pc' \in {"opcode", "operands", "return", "panicked"} /\ f.kind # "top"
  BY <1>1
<1>4. /\ frames \in Seq(FrameRecord) /\ curr \in Nat /\ extras \in Seq(Extra)
      /\ Len(instructions) \in Nat
  BY <1>3, InsideFacts
<1>5. frames' \in Seq(FrameRecord) /\ frames' # <<>>
  BY <1>3 DEF EInv, Types, InExpr
<1>6. /\ c \in Seq(Nat) /\ Opcodes = Append(c, Else) /\ Pos = Len(c) + 1 /\ Depth(c, Len(c)) = n
  BY <1>1, <1>3, Handling
<1>7. /\ f \in FrameRecord /\ n \in Nat /\ n > 1
      /\ Opened(c, f, Depth(c, Len(c)))
      /\ BlockOf(Opcodes, Pos) = f.pos /\ f.pos \in 1 .. Pos - 1
  BY <1>1, <1>3, LastOpened
<1>8. x \in Extra /\ x[1] = "inst"
  BY <1>1, <1>3, ReturnFacts DEF Extra
<1>9. Recorded(extras') = Recorded(extras) \o <<x>> /\ <<x>> \in Seq(Extra)
  <2>. HIDE DEF x
  <2>. QED BY <1>1, <1>4, <1>8, RecordedAppend DEF Position
<1>10. Positions(Opcodes, Pos) = <<x>>
  <2>. HIDE DEF c, f, n
  <2>1. Positions(Append(c, Else), Len(c) + 1) = <<<<"inst", f.pos + 1>>>>
    BY <1>6, <1>7, PositionsElse
  <2>. QED BY <1>6, <2>1 DEF f
<1>11. g.pos = f.pos /\ g.kind = "else" /\ g.else = Len(instructions)
  OBVIOUS
<1>12. Pos = Len(instructions) - 1
  BY OpcodesAre
<1>. HIDE DEF g, x
<1>13. /\ Len(frames') = n /\ frames'[n] = g
       /\ \A k \in 1 .. n - 1 : frames'[k] = frames[k]
  <2>. DEFINE s == Front(frames)
  <2>1. s \in Seq(FrameRecord) /\ Len(s) = n - 1 /\ \A k \in 1 .. n - 1 : s[k] = frames[k]
    BY <1>4, <1>7, FrontCalls
  <2>. HIDE DEF s
  <2>2. frames' = Append(s, g) /\ Len(s) + 1 = n
    BY <1>2, <1>7, <2>1 DEF s
  <2>3. g \in FrameRecord
    <3>1. g = frames'[Len(frames')] /\ Len(frames') \in 1 .. Len(frames')
      BY <2>1, <2>2
    <3>. QED BY <1>5, <3>1, ElementOfSeq
  <2>4. /\ Len(Append(s, g)) = Len(s) + 1 /\ Append(s, g)[Len(s) + 1] = g
        /\ \A k \in 1 .. Len(s) : Append(s, g)[k] = s[k]
    BY <2>1, <2>3, AppendProperties
  <2>. HIDE DEF n
  <2>. QED BY <2>1, <2>2, <2>4
<1>. HIDE DEF n, f, c
<1>14. Else \notin Opening /\ Change(Inst.op) = 0 /\ Else \in Nat /\ Change(Else) = 0
  BY <1>1, CodesApart DEF Change, Else
<1>15. Len(frames') = Len(frames) + Change(Inst.op)
  BY <1>7, <1>13, <1>14 DEF n
<1>16. Opened(Opcodes, g, n)
  <2>. DEFINE m == Len(c)
  <2>1. /\ m \in Nat /\ Len(Opcodes) = m + 1 /\ Opcodes[m + 1] = Else
        /\ \A j \in 1 .. m : c[j] = Opcodes[j]
        /\ \A k \in 0 .. m : Depth(c, k) = Depth(Opcodes, k)
        /\ Depth(Opcodes, m + 1) = n + Change(Else)
    BY <1>6, <1>14, AppendIs
  <2>2. /\ f.pos \in 1 .. m /\ c[f.pos] \in Opening /\ Depth(c, f.pos) = n
        /\ c[f.pos] \notin Blocks
        /\ \A j \in f.pos + 1 .. m : Depth(c, j) = n => c[j] \notin Opening /\ c[j] # Else
    BY <1>1, <1>6, <1>7 DEF Opened
  <2>. HIDE DEF m
  <2>3. Depth(Opcodes, m + 1) = n
    BY <1>7, <1>14, <2>1
  <2>4. g.else - 1 = m + 1
    BY <1>6, <1>11, <1>12, <1>4 DEF m
  <2>5. /\ f.pos \in 1 .. m + 1 /\ f.pos \in 0 .. m /\ m + 1 \in f.pos + 1 .. m + 1
        /\ \A j \in f.pos + 1 .. m : j \in 1 .. m /\ j \in 0 .. m /\ j # m + 1
        /\ \A j \in f.pos + 1 .. m + 1 : j \in f.pos + 1 .. m \/ j = m + 1
    BY <2>1, <2>2
  <2>6. \A j \in f.pos + 1 .. m : Depth(Opcodes, j) = n => Opcodes[j] \notin Opening /\ Opcodes[j] # Else
    BY <2>1, <2>2, <2>5, Zenon
  <2>7. \A j \in f.pos + 1 .. m + 1 :
          Depth(Opcodes, j) = n =>
            /\ Opcodes[j] \notin Opening
            /\ Opcodes[j] = Else <=> g.kind = "else" /\ j = m + 1
    BY <1>11, <1>14, <2>1, <2>5, <2>6, Zenon
  <2>8. /\ g.pos \in 1 .. Len(Opcodes)
        /\ Opcodes[g.pos] \in Opening /\ Depth(Opcodes, g.pos) = n
        /\ Opcodes[g.pos] \notin Blocks
        /\ g.else - 1 \in g.pos + 1 .. Len(Opcodes) /\ Depth(Opcodes, g.else - 1) = n
    BY <1>11, <2>1, <2>2, <2>3, <2>4, <2>5, Zenon
  <2>9. \A j \in g.pos + 1 .. Len(Opcodes) :
          Depth(Opcodes, j) = n =>
            /\ Opcodes[j] \notin Opening
            /\ Opcodes[j] = Else <=> g.kind = "else" /\ j = g.else - 1
    BY <1>11, <2>1, <2>4, <2>7, Zenon
  <2>10. g.kind = "block" <=> Opcodes[g.pos] \in Blocks
    BY <1>11, <2>8
  <2>. QED BY <2>8, <2>9, <2>10, Zenon DEF Opened
<1>17. \A i \in 2 .. Len(frames') : Opened(Opcodes, frames'[i], i)
  <2>. SUFFICES ASSUME NEW i \in 2 .. Len(frames') PROVE Opened(Opcodes, frames'[i], i)
    OBVIOUS
  <2>1. i = n \/ (i \in 2 .. Len(frames) /\ i # Len(frames) /\ i \in 1 .. n - 1)
    BY <1>7, <1>13 DEF n
  <2>2. CASE i = n
    BY <1>13, <1>16, <2>2
  <2>3. CASE i \in 2 .. Len(frames) /\ i # Len(frames) /\ i \in 1 .. n - 1
    <3>1. Opened(Opcodes, frames[i], i)
      BY <1>1, <1>3, <2>3, OthersOpened
    <3>. QED BY <1>13, <2>3, <3>1
  <2>. QED BY <2>1, <2>2, <2>3
<1>18. Opcodes' = Opcodes /\ Len(instructions') = Len(instructions) /\ curr <= curr'
  BY <1>1, <1>4, OpcodesAre
<1>19. Inst.op \in {Else, End} => BlockOf(Opcodes, Pos) \in 1 .. Pos - 1
  BY <1>7
<1>. QED BY <1>1, <1>3, <1>5, <1>9, <1>10, <1>15, <1>17, <1>18, <1>19, Handled

LEMMA StructureDone == EInv /\ SInv /\ ReturnExpr => SInv'
<1>. SUFFICES ASSUME EInv, SInv, ReturnExpr, diags' = {} PROVE SInv'
  BY DEF SInv
<1>. DEFINE c == Front(Opcodes)
<1>1. /\ pc = "return" /\ pc' = "done" /\ Last(frames).kind = "top" /\ diags = {}
      /\ instructions' = instructions /\ extras' = extras
  BY DEF ReturnExpr, lists
<1>2. pc \in {"opcode", "operands", "return", "panicked"} /\ pc \in {"operands", "return"}
  BY <1>1
<1>3. frames \in Seq(FrameRecord) /\ frames # <<>> /\ CallsOK(frames, curr) /\ extras \in Seq(Extra)
  BY <1>2, InsideFacts
<1>4. Len(frames) = 1
  BY <1>1, <1>3, LastCall
<1>5. Inst.op = End
  BY <1>1 DEF SInv, Until
<1>6. /\ c \in Seq(Nat) /\ Opcodes = Append(c, End) /\ Pos = Len(c) + 1 /\ Depth(c, Len(c)) = 1
      /\ Nested(c, frames, extras)
  BY <1>1, <1>2, <1>4, <1>5, Handling
<1>. HIDE DEF c
<1>7. Positions(Opcodes, Pos) = <<>> /\ Depth(Opcodes, Pos) = 0
  BY <1>6, PositionsTop
<1>8. \A k \in 0 .. Pos - 1 : Depth(Opcodes, k) > 0
  <2>1. End \in Nat
    BY DEF End
  <2>2. Len(c) \in Nat /\ \A k \in 0 .. Len(c) : Depth(c, k) = Depth(Append(c, End), k)
    BY <1>6, <2>1, AppendIs
  <2>3. \A k \in 0 .. Len(c) : Depth(c, k) > 0
    BY <1>6 DEF Nested
  <2>4. Pos - 1 = Len(c)
    BY <1>6, <2>2
  <2>. QED BY <1>6, <2>2, <2>3, <2>4
<1>9. Recorded(extras) = Matching(Opcodes)
  <2>1. Owned(c) /\ Recorded(extras) = Matching(c)
    BY <1>6 DEF Nested
  <2>2. End \in Nat /\ <<>> \in Seq(Extra)
    BY DEF End
  <2>3. Matching(Append(c, End)) = Matching(c) \o <<>>
    BY <1>6, <1>7, <2>1, <2>2, MatchingAppend
  <2>4. Recorded(extras) \in Seq(Extra)
    <3>1. <<"inst", 0>> \in Extra
      BY DEF Extra
    <3>. QED BY <1>3, <3>1, RecordedAppend
  <2>5. Recorded(extras) \o <<>> = Recorded(extras)
    BY <2>4, ConcatEmptySeq
  <2>. QED BY <1>6, <2>1, <2>3, <2>5
<1>10. Opcodes' = Opcodes /\ Pos' = Pos
  BY <1>1, OpcodesAre
<1>11. StructureRecovered'
  BY <1>1, <1>7, <1>8, <1>9, <1>10 DEF StructureRecovered
<1>. QED BY <1>1, <1>11 DEF SInv

LEMMA StructureNext == EInv /\ SInv /\ [Next]_vars => SInv'
<1>. SUFFICES ASSUME EInv, SInv, [Next]_vars PROVE SInv'
  OBVIOUS
<1>0. EInv'
  BY InvNext
<1>1. CASE ReadField \/ FieldsDone
  BY <1>1, StructureFields
<1>2. CASE StartExpr
  BY <1>0, <1>2, StructureStart
<1>3. CASE ReadOpcode
  BY <1>0, <1>3, StructureOpcode
<1>4. CASE SimpleInstruction
  BY <1>0, <1>4, StructureSimple
<1>5. CASE BadBlock
  BY <1>5, StructureBad
<1>6. CASE EnterBlock
  BY <1>0, <1>6, StructureEnter
<1>7. CASE ReturnBlock
  BY <1>0, <1>7, StructureReturnBlock
<1>8. CASE ReturnIf
  BY <1>0, <1>8, StructureReturnIf
<1>9. CASE EnterElse
  BY <1>0, <1>9, StructureElse
<1>10. CASE ReturnElse
  BY <1>0, <1>10, StructureReturnElse
<1>11. CASE ReturnExpr
  BY <1>11, StructureDone
<1>12. CASE UNCHANGED vars
  <2>1. /\ curr' = curr /\ diags' = diags /\ pc' = pc /\ frames' = frames
        /\ instructions' = instructions /\ extras' = extras
    BY <1>12 DEF vars, input, lists
  <2>2. Opcodes' = Opcodes /\ Pos' = Pos /\ Inst' = Inst
    BY <2>1 DEF Opcodes, Pos, Inst
  <2>3. StructureRecovered' <=> StructureRecovered
    BY <2>1, <2>2 DEF StructureRecovered, ReadCleanly
  <2>. QED BY <2>1, <2>2, <2>3 DEF SInv
<1>. QED
  BY <1>1, <1>2, <1>3, <1>4, <1>5, <1>6, <1>7, <1>8, <1>9, <1>10, <1>11, <1>12 DEF Next

\* As long as bin_read_expr has reported nothing, its open calls are the
\* blocks open in the opcodes it has read, one call for each, and the extras
\* hold the positions of every body and else up to there.
THEOREM DecoderFollows == Spec => []SInv
BY InitStep, InvNext, StructureInit, StructureNext, PTL DEF Spec

\* An expression of any length and any nesting that bin_read_expr reads
\* without a diagnostic is well nested, and the positions of bodies and elses
\* that it put into the extras are those of the blocks in the opcodes, in the
\* order in which these end.
THEOREM DecoderRecovers == Spec => []StructureRecovered
<1>1. SInv => StructureRecovered
  BY DEF SInv, StructureRecovered, ReadCleanly
<1>. QED BY <1>1, DecoderFollows, PTL

-----------------------------------------------------------------------------
(* The decoder goes forward *)

\* The input has ended inside an expression.
Starved == pc \in {"opcode", "operands"} /\ curr = Len(data)

\* What an expression has left: two steps for every byte, and one if an
\* instruction is being handled.
Left == 2 * (Len(data) - curr) + (IF pc \in {"operands", "return"} THEN 1 ELSE 0)

\* A field takes bytes, leaves less to read, or is a record that is replaced
\* by its fields, which are not records.
FieldAdvances ==
  \/ pc' # "fields"
  \/ curr < curr'
  \/ curr' = curr /\ todo' = Tail(todo)
  \/ curr' = curr /\ Head(todo)[1] \in Records /\ todo' = Fields(Head(todo)[1]) \o Tail(todo)

Advances == IF pc = "fields" THEN FieldAdvances ELSE Ended' \/ (pc' # "fields" /\ Left' < Left)

\* What a reader that is not ok leaves does not matter: its caller returns.
Takes(r, c) == r.ok => c < r.curr \/ r.more = <<>>

\* The fields of a record are no records, so a record is replaced only once.
LEMMA FieldsAreFlat ==
  ASSUME NEW f \in Records, NEW i \in 1 .. Len(Fields(f))
  PROVE  Fields(f)[i][1] \notin Records
<1>1. CASE f = "import"
  BY <1>1 DEF Fields, Records
<1>2. CASE f = "table"
  BY <1>2 DEF Fields, Records
<1>3. CASE f = "global"
  BY <1>3 DEF Fields, Records
<1>4. CASE f = "export"
  BY <1>4 DEF Fields, Records
<1>5. CASE f = "element"
  BY <1>5 DEF Fields, Records
<1>6. CASE f = "data"
  BY <1>6 DEF Fields, Records
<1>7. CASE f = "local"
  BY <1>7 DEF Fields, Records
<1>8. CASE f = "code"
  BY <1>8 DEF Fields, Records
<1>9. CASE f = "module"
  BY <1>9 DEF Fields, Records
<1>. QED BY <1>1, <1>2, <1>3, <1>4, <1>5, <1>6, <1>7, <1>8, <1>9 DEF Records

LEMMA EnumTakes ==
  ASSUME NEW d \in Seq(0 .. 255), NEW c \in 0 .. Len(d), NEW lo, NEW hi,
         ReadEnum(d, c, lo, hi).ok
  PROVE  c < ReadEnum(d, c, lo, hi).curr
<1>. DEFINE read == ReadByte(d, c)
<1>1. read.ok => read.curr = c + 1
  BY ReadByteOutcome
<1>2. ReadEnum(d, c, lo, hi) = IF read.ok /\ ByteAt(d, c) \notin lo .. hi
                                 THEN Fail(c + 1, c, c + 1) ELSE read
  BY DEF ReadEnum
<1>3. ~Fail(c + 1, c, c + 1).ok
  BY DEF Fail
<1>. HIDE DEF read
<1>4. ReadEnum(d, c, lo, hi) = read
  BY <1>2, <1>3
<1>. QED BY <1>1, <1>4

LEMMA LebTakes ==
  ASSUME NEW d \in Seq(0 .. 255), NEW c \in 0 .. Len(d), NEW bits, ReadULeb(d, c, bits).ok
  PROVE  c < ReadULeb(d, c, bits).curr
<1>. DEFINE s == LebSize(d, c)
<1>1. s \in 0 .. Len(d) - c
  BY LebSizeIs
<1>2. s # 0 /\ ReadULeb(d, c, bits) = Got(c + s, <<>>)
  BY DEF ReadULeb, Fail
<1>3. Got(c + s, <<>>).curr = c + s
  BY DEF Got
<1>. HIDE DEF s
<1>. QED BY <1>1, <1>2, <1>3

LEMMA MoreKeeps ==
  ASSUME NEW n, NEW c, NEW r, Outcome(r, c, n), NEW more
  PROVE  [r EXCEPT !.more = more].ok = r.ok /\ [r EXCEPT !.more = more].curr = r.curr
BY DEF Outcome

\* A reader that asks for more has taken a byte.
LEMMA ReadTakes ==
  ASSUME NEW d \in Seq(0 .. 255), NEW c \in 0 .. Len(d), NEW x \in FieldSet, x # <<"expr">>,
         x[1] \notin Records
  PROVE  Takes(Read(d, c, x), c)
<1>0. \A r, more : Outcome(r, c, Len(d)) =>
        [r EXCEPT !.more = more].ok = r.ok /\ [r EXCEPT !.more = more].curr = r.curr
  BY MoreKeeps
<1>. DEFINE leb == ReadULeb(d, c, 32)
            enum(lo, hi) == ReadEnum(d, c, lo, hi)
<1>1. /\ Outcome(leb, c, Len(d)) /\ (leb.ok => c < leb.curr)
      /\ \A lo, hi : Outcome(enum(lo, hi), c, Len(d)) /\ (enum(lo, hi).ok => c < enum(lo, hi).curr)
  BY ReadLebOutcome, LebTakes, ReadEnumOutcome, EnumTakes
<1>2. CASE \E y \in Names : x = <<"vec", y>>
  <2>1. PICK y \in Names : x = <<"vec", y>>
    BY <1>2
  <2>2. x[1] = "vec" /\ x[2] = y
    BY <2>1
  <2>. DEFINE more == [i \in 1 .. Min({ULebValue(d, c), DataLeft(d, c) + 1}) |-> <<y>>]
  <2>3. Read(d, c, x) = IF leb.ok THEN [leb EXCEPT !.more = more] ELSE leb
    BY <2>2 DEF Read, ReadVec, Records
  <2>. HIDE DEF leb, more
  <2>. QED BY <1>0, <1>1, <2>3 DEF Takes
<1>3. CASE \E y \in Names \ Records : x = <<y>>
  <2>1. PICK y \in Names \ Records : x = <<y>>
    BY <1>3
  <2>2. x[1] = y
    BY <2>1
  <2>. DEFINE read == Read(d, c, x)
  <2>3. CASE y = "u32"
    <3>1. read = leb
      BY <2>2, <2>3 DEF Read, Records
    <3>. HIDE DEF leb, read
    <3>. QED BY <1>1, <3>1 DEF Takes, read
  <2>4. CASE y \in {"b8", "magic", "version"}
    <3>1. PICK k \in {1, 4} : \/ read = ReadBytes(d, c, k) \/ read = Fail(c + 4, c, c + 4)
                              \/ ~ReadBytes(d, c, k).ok /\ read = [ReadBytes(d, c, k) EXCEPT
                                   !.diags = @ \cup {<<c, c>>}]
      BY <2>2, <2>4 DEF Read, Records, ReadMagic, ReadVersion
    <3>2. ReadBytes(d, c, k).more = <<>> /\ ~Fail(c + 4, c, c + 4).ok
      BY DEF ReadBytes, Got, Fail
    <3>3. \A E : [ReadBytes(d, c, k) EXCEPT !.diags = E].more = <<>>
      BY DEF ReadBytes, Got, Fail
    <3>. QED BY <3>1, <3>2, <3>3, Zenon DEF Takes
  <2>5. CASE y = "name"
    <3>1. read = IF leb.ok THEN ReadBytes(d, leb.curr, ULebValue(d, c)) ELSE leb
      BY <2>2, <2>5 DEF Read, Records, ReadName
    <3>2. ReadBytes(d, leb.curr, ULebValue(d, c)).more = <<>>
      BY DEF ReadBytes, Got, Fail
    <3>. HIDE DEF leb, read
    <3>. QED BY <3>1, <3>2 DEF Takes, read
  <2>6. CASE y \in {"value_type", "element_type", "external_kind"}
    <3>1. \E lo, hi : read = enum(lo, hi)
      BY <2>2, <2>6 DEF Read, Records, ReadValueType
    <3>. HIDE DEF enum, read
    <3>. QED BY <1>1, <3>1 DEF Takes, read
  <2>7. CASE y \in {"import_kind", "limits", "func_type", "sections"}
    <3>1. CASE y = "sections" /\ c = Len(d)
      <4>1. read = Got(c, <<>>)
        BY <2>2, <3>1 DEF Read, Records, ReadSections
      <4>2. Got(c, <<>>).more = <<>>
        BY DEF Got
      <4>. HIDE DEF read
      <4>. QED BY <4>1, <4>2 DEF Takes, read
    <3>2. CASE ~(y = "sections" /\ c = Len(d))
      <4>1. \E lo, hi, more : \/ read = enum(lo, hi) /\ ~enum(lo, hi).ok
                              \/ read = [enum(lo, hi) EXCEPT !.more = more]
        <5>1. CASE y = "import_kind"
          BY <2>2, <5>1 DEF Read, Records, ReadImportKind
        <5>2. CASE y = "limits"
          BY <2>2, <5>2 DEF Read, Records, ReadLimits
        <5>3. CASE y = "func_type"
          BY <2>2, <5>3 DEF Read, Records, ReadFuncType
        <5>4. CASE y = "sections"
          BY <2>2, <3>2, <5>4 DEF Read, Records, ReadSections
        <5>. QED BY <2>7, <5>1, <5>2, <5>3, <5>4
      <4>2. PICK lo, hi, more : \/ read = enum(lo, hi) /\ ~enum(lo, hi).ok
                                \/ read = [enum(lo, hi) EXCEPT !.more = more]
        BY <4>1
      <4>. DEFINE byte == enum(lo, hi)
                  with == [byte EXCEPT !.more = more]
      <4>3. with.ok = byte.ok /\ with.curr = byte.curr /\ (byte.ok => c < byte.curr)
        BY <1>0, <1>1
      <4>4. (read = byte /\ ~byte.ok) \/ read = with
        BY <4>2
      <4>. HIDE DEF byte, with
      <4>5. read.ok => c < read.curr
        BY <4>3, <4>4, Zenon
      <4>. QED BY <4>5, Zenon DEF Takes
    <3>. QED BY <3>1, <3>2
  <2>8. \/ y = "u32" \/ y \in {"b8", "magic", "version"} \/ y = "name"
        \/ y \in {"value_type", "element_type", "external_kind"}
        \/ y \in {"import_kind", "limits", "func_type", "sections"}
    BY DEF Names
  <2>. QED BY <2>3, <2>4, <2>5, <2>6, <2>7, <2>8
<1>4. (\E y \in Names : x = <<"vec", y>>) \/ (\E y \in Names \ Records : x = <<y>>)
  <2>1. (\E y \in Names : x = <<"vec", y>>) \/ (\E y \in Names \cup {"expr"} : x = <<y>>)
    BY DEF FieldSet
  <2>2. ASSUME NEW y, x = <<y>> PROVE x[1] = y
    BY <2>2
  <2>. QED BY <2>1, <2>2
<1>. QED BY <1>2, <1>3, <1>4

LEMMA FieldStepAdvances == EInv /\ ReadField => Advances
<1>. SUFFICES ASSUME EInv, ReadField PROVE Advances
  OBVIOUS
<1>. DEFINE x == Head(todo)
            read == Read(data, curr, x)
<1>1. /\ data \in Seq(0 .. 255) /\ curr \in 0 .. Len(data) /\ todo \in Seq(FieldSet) /\ todo # <<>>
      /\ x # <<"expr">> /\ pc = "fields"
  BY DEF EInv, Types, ReadField
<1>2. x \in FieldSet /\ Tail(todo) \in Seq(FieldSet) /\ <<>> \o Tail(todo) = Tail(todo)
  BY <1>1
<1>3. /\ curr' = read.curr /\ todo' = read.more \o Tail(todo)
      /\ pc' = IF read.ok THEN "fields" ELSE "done"
  BY DEF ReadField
<1>4. Outcome(read, curr, Len(data))
  BY <1>1, <1>2, ReadOutcome
<1>5. read.curr \in curr .. Len(data)
  BY <1>4 DEF Outcome
<1>6. CASE x[1] \in Records
  <2>1. read = Got(curr, Fields(x[1]))
    BY <1>6 DEF Read, Records
  <2>2. read.curr = curr /\ read.more = Fields(x[1])
    BY <2>1 DEF Got
  <2>. HIDE DEF read
  <2>. QED BY <1>1, <1>3, <1>6, <2>2 DEF Advances, FieldAdvances
<1>7. CASE x[1] \notin Records
  <2>1. Takes(read, curr)
    BY <1>1, <1>2, <1>7, ReadTakes
  <2>2. \/ read.curr = curr \/ curr < read.curr
    BY <1>1, <1>5
  <2>. HIDE DEF read, x
  <2>3. CASE ~read.ok
    BY <1>1, <1>3, <2>3, Zenon DEF Advances, FieldAdvances
  <2>4. CASE curr < read.curr
    BY <1>1, <1>3, <2>4, Zenon DEF Advances, FieldAdvances
  <2>5. CASE read.curr = curr /\ read.more = <<>>
    <3>1. curr' = curr /\ todo' = Tail(todo)
      BY <1>2, <1>3, <2>5, Zenon
    <3>. QED BY <1>1, <3>1, Zenon DEF Advances, FieldAdvances
  <2>. QED BY <2>1, <2>2, <2>3, <2>4, <2>5, Zenon DEF Takes
<1>. QED BY <1>6, <1>7

LEMMA OpcodeAdvances == EInv /\ ReadOpcode => Advances \/ Starved
<1>. SUFFICES ASSUME EInv, ReadOpcode, curr # Len(data) PROVE Advances
  BY DEF Starved, ReadOpcode
<1>1. pc = "opcode" /\ data' = data /\ curr' = ReadByte(data, curr).curr
  BY DEF ReadOpcode, input
<1>2. data \in Seq(0 .. 255) /\ curr \in 0 .. Len(data) /\ curr \in Nat /\ Len(data) \in Nat
  BY <1>1, InsideFacts
<1>3. curr' = curr + 1
  BY <1>1, <1>2 DEF ReadByte, DataLeft, Got
<1>4. pc' \in {"return", "panicked", "operands"}
  <2>. DEFINE op == IF ReadByte(data, curr).ok THEN ByteAt(data, curr) ELSE 0
  <2>1. pc' = CASE op \in Until(Last(frames)) -> "return"
                [] op \notin Until(Last(frames)) /\ op = Else -> "panicked"
                [] OTHER -> "operands"
    BY DEF ReadOpcode
  <2>. HIDE DEF op
  <2>. QED BY <2>1
<1>5. Left = 2 * (Len(data) - curr) + 0
  BY <1>1, Zenon DEF Left
<1>6. \E b \in {0, 1} : Left' = 2 * (Len(data) - curr') + b
  <2>. DEFINE b == IF pc' \in {"operands", "return"} THEN 1 ELSE 0
  <2>1. b \in {0, 1}
    OBVIOUS
  <2>2. Left' = 2 * (Len(data) - curr') + b
    BY <1>1, Zenon DEF Left
  <2>. QED BY <2>1, <2>2, Zenon
<1>7. Left' < Left
  <2>1. PICK b \in {0, 1} : Left' = 2 * (Len(data) - curr') + b
    BY <1>6
  <2>2. curr \in 0 .. Len(data) - 1
    BY <1>2
  <2>. QED BY <1>2, <1>3, <1>5, <2>1, <2>2
<1>. QED BY <1>1, <1>4, <1>7 DEF Advances

\* The operands of an instruction and the end of a block take no byte back.
LEMMA OthersAdvance ==
  ASSUME EInv, SimpleInstruction \/ BadBlock \/ EnterBlock \/ ReturnBlock \/ ReturnIf
               \/ EnterElse \/ ReturnElse
  PROVE  Advances
<1>1. pc \in {"operands", "return"} /\ pc' = "opcode" /\ data' = data
  BY DEF SimpleInstruction, BadBlock, EnterBlock, ReturnBlock, ReturnIf, EnterElse, ReturnElse,
       input
<1>2. /\ data \in Seq(0 .. 255) /\ curr \in 0 .. Len(data) /\ curr \in Nat /\ Len(data) \in Nat
      /\ frames \in Seq(FrameRecord) /\ frames # <<>> /\ CallsOK(frames, curr)
  BY <1>1, InsideFacts
<1>3. curr' \in curr .. Len(data)
  <2>1. CASE SimpleInstruction
    <3>1. curr' = Operands(Inst.op).curr
      BY <2>1 DEF SimpleInstruction
    <3>2. Last(frames).anchor \in Nat /\ Last(frames).anchor <= curr
      BY <1>2, LastCall DEF FrameRecord
    <3>3. Outcome(Operands(Inst.op), curr, Len(data))
      BY <1>2, <3>2, OperandsOutcome
    <3>. QED BY <3>1, <3>3 DEF Outcome
  <2>2. CASE BadBlock \/ EnterBlock
    <3>1. curr' = ReadBlockType.curr
      BY <2>2 DEF BadBlock, EnterBlock
    <3>2. Outcome(ReadBlockType, curr, Len(data))
      BY <1>2, BlockTypeOutcome
    <3>. QED BY <3>1, <3>2 DEF Outcome
  <2>3. CASE ReturnBlock \/ ReturnIf \/ EnterElse \/ ReturnElse
    BY <1>2, <2>3 DEF ReturnBlock, ReturnIf, EnterElse, ReturnElse
  <2>. QED BY <2>1, <2>2, <2>3
<1>4. Left = 2 * (Len(data) - curr) + 1
  BY <1>1 DEF Left
<1>5. Left' = 2 * (Len(data) - curr') + 0
  BY <1>1, Zenon DEF Left
<1>6. Left' < Left
  BY <1>2, <1>3, <1>4, <1>5
<1>. QED BY <1>1, <1>6 DEF Advances

\* For every input, a step of the readers or of the decoder takes bytes, leaves
\* less to do or ends: only an input that has ended inside an expression lets
\* them go on for ever.
THEOREM DecoderAdvances == Spec => [][Advances \/ Starved]_vars
<1>1. EInv /\ [Next]_vars => [Advances \/ Starved]_vars
  <2>. SUFFICES ASSUME EInv, Next PROVE Advances \/ Starved
    OBVIOUS
  <2>1. CASE FieldsDone
    BY <2>1 DEF FieldsDone, Advances, FieldAdvances
  <2>2. CASE StartExpr
    BY <2>2 DEF StartExpr, Advances, FieldAdvances
  <2>3. CASE ReturnExpr
    BY <2>3 DEF ReturnExpr, Advances, Ended
  <2>. QED BY <2>1, <2>2, <2>3, FieldStepAdvances, OpcodeAdvances, OthersAdvance DEF Next
<1>. QED BY <1>1, DecoderInv, PTL DEF Spec

\* When the input has ended inside an expression, bin_read_expr never returns:
\* a byte that is missing is the opcode of unreachable, and no operand is left.
THEOREM StarvedForever == Spec => [][Starved => Starved']_vars
<1>1. EInv /\ [Next]_vars => [Starved => Starved']_vars
  <2>. SUFFICES ASSUME EInv, Next, Starved PROVE Starved'
    OBVIOUS
  <2>1. /\ pc \in {"opcode", "operands"} /\ curr = Len(data)
        /\ data \in Seq(0 .. 255) /\ curr \in 0 .. Len(data) /\ curr \in Nat /\ Len(data) \in Nat
        /\ frames \in Seq(FrameRecord) /\ frames # <<>> /\ CallsOK(frames, curr)
    BY InsideFacts DEF Starved
  <2>2. CASE ReadOpcode
    <3>1. ReadByte(data, curr) = Fail(curr, curr, curr)
      BY <2>1 DEF ReadByte, DataLeft
    <3>2. ~ReadByte(data, curr).ok /\ ReadByte(data, curr).curr = curr
      BY <3>1 DEF Fail
    <3>3. data' = data /\ curr' = curr
      BY <2>2, <3>2 DEF ReadOpcode, input
    <3>4. 0 \notin Until(Last(frames)) /\ 0 # Else
      BY DEF Until, End, Else
    <3>5. pc' = "operands"
      BY <2>2, <3>2, <3>4 DEF ReadOpcode
    <3>. QED BY <2>1, <3>3, <3>5 DEF Starved
  <2>3. CASE SimpleInstruction \/ BadBlock \/ EnterBlock
    <3>1. Advances /\ pc = "operands" /\ pc' = "opcode" /\ data' = data
      BY <2>3, OthersAdvance DEF SimpleInstruction, BadBlock, EnterBlock, input
    <3>2. Types'
      BY InvNext DEF EInv
    <3>3. curr' \in 0 .. Len(data) /\ Left' < Left
      BY <3>1, <3>2 DEF Types, Advances, Ended
    <3>4. curr' = Len(data)
      BY <2>1, <3>1, <3>3 DEF Left
    <3>. QED BY <3>1, <3>4 DEF Starved
  <2>. QED BY <2>1, <2>2, <2>3 DEF Next, ReadField, FieldsDone, StartExpr, ReturnBlock, ReturnIf,
         EnterElse, ReturnElse, ReturnExpr
<1>. QED BY <1>1, DecoderInv, PTL DEF Spec
=============================================================================
