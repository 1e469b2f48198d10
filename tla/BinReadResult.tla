---------------------------- MODULE BinReadResult ---------------------------
(***************************************************************************)
(* For any number of lanes and any file: what bin_read returns is complete.*)
(* Every section and every body has been read, by one lane, and every      *)
(* error that a lane reported is among the diagnostics, once.              *)
(*                                                                         *)
(* The argument: how far a lane is in its range of the sections and of the *)
(* bodies is a function of its point, its stage and its items (Stored,     *)
(* Finished, Decoded), and only the steps that read something change it.   *)
(* What the module and the lists of diagnostics hold follows from it.      *)
(***************************************************************************)
EXTENDS BinReadSync, WellFoundedInduction, NaturalsInduction

SFirst(l) == First(Len(file.sections), l, LaneCount)
SOpl(l)   == Opl(Len(file.sections), l, LaneCount)
CFirst(l) == First(Len(file.codes), l, LaneCount)
COpl(l)   == Opl(Len(file.codes), l, LaneCount)

Scanned == Way.scan = "true"
\* There are bodies to decode.
Decodes == Way.code = "true" /\ Way.structure = "true"

Before == {"created", "start", "ctxs", "scan_ok", "bin_module"}
Behind == {"diags", "signal", "exit"}

\* The last section lane l has finished.
Finished(l) ==
  IF point[l] = "sections" THEN SFirst(l) + items[l]
  ELSE IF point[l] \in Before \/ ~Scanned THEN SFirst(l) ELSE SOpl(l)

\* The last section of which lane l has stored the first word.
Stored(l) == Finished(l) + (IF stage[l] = "len" THEN 1 ELSE 0)

\* The last body lane l has decoded.
Decoded(l) ==
  IF ~Decodes THEN CFirst(l)
  ELSE IF point[l] = "end" THEN CFirst(l) + items[l]
  ELSE IF point[l] \in Behind /\ Scanned THEN COpl(l) ELSE CFirst(l)

\* Lane 0 has read the structure of the code section.
Prepared ==
  /\ Scanned /\ Way.code = "true"
  /\ \/ point[0] \in {"bin_codes", "end"} \cup Behind
     \/ point[0] = "code_ok" /\ stage[0] # "run"

\* Lane 0 has collected the diagnostics.
Gathered ==
  /\ Scanned
  /\ \/ point[0] \in {"signal", "exit"}
     \/ point[0] = "diags" /\ stage[0] # "run"

\* A lane stays in its range, and leaves it at the end only.
ItemsOK(l) ==
  /\ point[l] = "sections" =>
       /\ SFirst(l) + items[l] <= SOpl(l)
       /\ stage[l] = "len" => SFirst(l) + items[l] < SOpl(l)
       /\ stage[l] \notin {"run", "len"} => SFirst(l) + items[l] = SOpl(l)
  /\ point[l] = "end" /\ Decodes =>
       /\ CFirst(l) + items[l] <= COpl(l)
       /\ stage[l] # "run" => CFirst(l) + items[l] = COpl(l)

\* A word of field f, when lane l has come to section upTo[l]: it is set if a
\* lane has met a section for it, and if one lane has them all in its range,
\* it is from the last that this lane has met.
WordOK(f, w, upTo) ==
  /\ w = Unset \/ w \in SectionsOf(f)
  /\ \A l \in Lane, i \in SectionsOf(f) : SFirst(l) < i /\ i <= upTo[l] => w # Unset
  /\ \A l \in Lane :
       (\A i \in SectionsOf(f) : SFirst(l) < i /\ i <= SOpl(l)) =>
          \A i \in SectionsOf(f) : i <= upTo[l] => i <= w

FieldsOK ==
  \A f \in Field :
    /\ WordOK(f, module.field[f].data, [l \in Lane |-> Stored(l)])
    /\ WordOK(f, module.field[f].len, [l \in Lane |-> Finished(l)])

CodesOK ==
  Decodes /\ Prepared =>
    /\ module.codes \in [1 .. Len(file.codes) -> Nat]
    /\ \A l \in Lane : \A i \in 1 .. Len(file.codes) :
         CFirst(l) < i /\ i <= Decoded(l) => module.codes[i] = i

\* The reader of section i comes to an end.
SectionReturns(i) == Skipped(file.sections[i]) \/ file.sections[i].ends = "returns"

\* The readers of all parts that lane l has behind it have returned.
EndsOK(l) ==
  /\ \A i \in 1 .. Len(file.sections) :
       SFirst(l) < i /\ i <= Stored(l) => SectionReturns(i)
  /\ \A i \in 1 .. Len(file.codes) :
       CFirst(l) < i /\ i <= Decoded(l) => file.codes[i].ends = "returns"

ModuleRecord ==
  [version : Nat, codes : Seq(Nat), field : [Field -> [data : Nat, len : Nat]]]

\* What the readers of lane l report.
BadSection(i) == file.sections[i].bad /\ ~Skipped(file.sections[i])
SectionReports(l) ==
  {<<"section", i>> : i \in {j \in 1 .. Len(file.sections) :
     SFirst(l) < j /\ j <= Stored(l) /\ BadSection(j)}}
CodeReports(l) ==
  {<<"code", i>> : i \in {j \in 1 .. Len(file.codes) :
     CFirst(l) < j /\ j <= Decoded(l) /\ file.codes[j].bad}}
StructureReports(l) ==
  {<<"structure", i>> : i \in {j \in {CodeSection} :
     l = 0 /\ Prepared /\ Way.structure = "false"}}
Reports(l) == SectionReports(l) \cup StructureReports(l) \cup CodeReports(l)

\* The sequence s lists the set S, each element once.
Enumerates(s, S) ==
  /\ \A i \in 1 .. Len(s) : s[i] \in S
  /\ \A x \in S : \E i \in 1 .. Len(s) : s[i] = x
  /\ \A i, j \in 1 .. Len(s) : s[i] = s[j] => i = j

ReportsOK == Scanned => \A l \in Lane : Enumerates(reported[l], Reports(l))

DiagsOK == Gathered => Enumerates(diags, UNION {Reports(l) : l \in Lane})

\* The inductive invariant, with IInv.
RInv ==
  /\ main \in {"starting", "joining", "returned", "panicked"}
  /\ done \in BOOLEAN
  /\ main \in {"joining", "returned"} => done
  /\ done => Scanned
  /\ items \in [Lane -> Nat]
  /\ \A l \in Lane : ItemsOK(l)
  /\ module \in ModuleRecord
  /\ FieldsOK
  /\ CodesOK
  /\ \A l \in Lane : EndsOK(l)
  /\ reported \in [Lane -> Seq(Part)]
  /\ diags \in Seq(Part)
  /\ ReportsOK
  /\ DiagsOK

-----------------------------------------------------------------------------
(* thread_distribute_values: the ranges lie one behind the other, from 0 to *)
(* the number of values, so no value is left out and none is worked on      *)
(* twice.                                                                   *)


\* Quotient and remainder of a division by the number of threads.
LEMMA Division ==
  ASSUME NEW v \in Nat, NEW n \in Nat \ {0}
  PROVE  /\ v \div n \in Nat
         /\ v % n \in Nat
         /\ v % n < n
         /\ v = n * (v \div n) + (v % n)
  OBVIOUS

\* A product with a larger factor is not smaller.
LEMMA ProductGrows ==
  ASSUME NEW q \in Nat, NEW i \in Nat, NEW j \in Nat, i <= j
  PROVE  q * i \in Nat /\ q * j \in Nat /\ q * i <= q * j
  OBVIOUS

\* Products over a sum, a successor and a predecessor.
LEMMA Distributes ==
  ASSUME NEW q \in Nat, NEW i \in Nat, NEW j \in Nat
  PROVE  /\ q * (i + j) = q * i + q * j
         /\ q * (i + 1) = q * i + q
         /\ (q + 1) * i = q * i + i
         /\ i # 0 => q * i = q * (i - 1) + q
         /\ i <= j => q * (j - i) = q * j - q * i
         /\ q * i = i * q
         /\ q * 0 = 0
  OBVIOUS

\* A range starts and ends at natural numbers, and not before it starts.
LEMMA RangeIsNat ==
  ASSUME NEW v \in Nat, NEW n \in Nat \ {0}, NEW t \in Nat
  PROVE  /\ First(v, t, n) \in Nat
         /\ Opl(v, t, n) \in Nat
         /\ First(v, t, n) <= Opl(v, t, n)
<1>1. v \div n \in Nat /\ v % n \in Nat
  BY Division
<1>2. (v \div n) * t \in Nat
  BY <1>1, ProductGrows
<1>. QED BY <1>1, <1>2 DEF First, Opl

\* The range of a thread ends where the next one starts.
LEMMA RangesMeet ==
  ASSUME NEW v \in Nat, NEW n \in Nat \ {0}, NEW t \in Nat
  PROVE  Opl(v, t, n) = First(v, t + 1, n)
<1>. DEFINE q == v \div n
            r == v % n
<1>1. q \in Nat /\ r \in Nat
  BY Division
<1>2. q * (t + 1) = q * t + q /\ q * t \in Nat
  BY <1>1, ProductGrows
<1>3. Opl(v, t, n) = q * t + (IF t < r THEN t ELSE r) + q + (IF t < r THEN 1 ELSE 0)
  BY DEF Opl, First
<1>4. First(v, t + 1, n) = q * (t + 1) + (IF t + 1 < r THEN t + 1 ELSE r)
  BY DEF First
<1>. HIDE DEF q, r
<1>. QED BY <1>1, <1>2, <1>3, <1>4

\* The first range starts at 0 and the last one ends at the number of values.
LEMMA RangesCover ==
  ASSUME NEW v \in Nat, NEW n \in Nat \ {0}
  PROVE  First(v, 0, n) = 0 /\ Opl(v, n - 1, n) = v
<1>. DEFINE q == v \div n
            r == v % n
<1>1. q \in Nat /\ r \in Nat /\ r < n /\ v = n * q + r
  BY Division
<1>2. /\ q * n = q * (n - 1) + q
      /\ q * (n - 1) \in Nat
      /\ q * 0 = 0
      /\ n * q = q * n
  <2>1. n - 1 \in Nat /\ n \in Nat
    OBVIOUS
  <2>. HIDE DEF q
  <2>. QED BY <1>1, <2>1, ProductGrows, Distributes
<1>3. First(v, 0, n) = q * 0 + (IF 0 < r THEN 0 ELSE r)
  BY DEF First
<1>4. Opl(v, n - 1, n) =
        q * (n - 1) + (IF n - 1 < r THEN n - 1 ELSE r) + q + (IF n - 1 < r THEN 1 ELSE 0)
  BY DEF Opl, First
<1>. HIDE DEF q, r
<1>. QED BY <1>1, <1>2, <1>3, <1>4

\* Ranges of different threads do not overlap.
LEMMA RangesDisjoint ==
  ASSUME NEW v \in Nat, NEW n \in Nat \ {0}, NEW t \in Nat, NEW u \in Nat, t < u
  PROVE  Opl(v, t, n) <= First(v, u, n)
<1>. DEFINE q == v \div n
            r == v % n
<1>1. q \in Nat /\ r \in Nat
  BY Division
<1>2. q * (t + 1) <= q * u /\ q * (t + 1) \in Nat /\ q * u \in Nat
  BY <1>1, ProductGrows
<1>3. Opl(v, t, n) = First(v, t + 1, n)
  BY RangesMeet
<1>4. /\ First(v, t + 1, n) = q * (t + 1) + (IF t + 1 < r THEN t + 1 ELSE r)
      /\ First(v, u, n) = q * u + (IF u < r THEN u ELSE r)
  BY DEF First
<1>. HIDE DEF q, r
<1>. QED BY <1>1, <1>2, <1>3, <1>4

-----------------------------------------------------------------------------
\* A value among the first shares, which have one leftover each, is in the
\* range of the thread its quotient by the size of such a share names.
LEMMA InLargeShare ==
  ASSUME NEW v \in Nat, NEW n \in Nat \ {0}, NEW x \in Nat,
         x < ((v \div n) + 1) * (v % n)
  PROVE  \E t \in 0 .. n - 1 : First(v, t, n) <= x /\ x < Opl(v, t, n)
<1>. DEFINE q == v \div n
            r == v % n
            t == x \div (q + 1)
<1>1. q \in Nat /\ r \in Nat /\ r < n
  BY Division
<1>2. q + 1 \in Nat \ {0}
  BY <1>1
<1>3. /\ t \in Nat
      /\ x % (q + 1) \in Nat
      /\ x % (q + 1) < q + 1
      /\ x = (q + 1) * t + (x % (q + 1))
  BY <1>2, Division
<1>4. x < (q + 1) * r
  OBVIOUS
<1>5. /\ First(v, t, n) = q * t + (IF t < r THEN t ELSE r)
      /\ Opl(v, t, n) = First(v, t, n) + q + (IF t < r THEN 1 ELSE 0)
  BY DEF First, Opl
<1>. HIDE DEF q, r, t
<1>6. /\ (q + 1) * t \in Nat
      /\ (q + 1) * t = q * t + t
      /\ q * t \in Nat
  BY <1>1, <1>3, Distributes, ProductGrows
<1>7. t < r
  <2>1. SUFFICES ASSUME r <= t PROVE FALSE
    BY <1>1, <1>3
  <2>2. (q + 1) * r <= (q + 1) * t /\ (q + 1) * r \in Nat
    BY <1>1, <1>2, <1>3, <2>1, ProductGrows
  <2>. QED BY <1>3, <1>4, <1>6, <2>2
<1>8. t \in 0 .. n - 1
  BY <1>1, <1>3, <1>7
<1>9. First(v, t, n) <= x /\ x < Opl(v, t, n)
  BY <1>1, <1>3, <1>5, <1>6, <1>7
<1>. QED BY <1>8, <1>9

\* A value behind them is in the range of one of the threads without a
\* leftover.
LEMMA InSmallShare ==
  ASSUME NEW v \in Nat, NEW n \in Nat \ {0}, NEW x \in Nat, x < v,
         ((v \div n) + 1) * (v % n) <= x
  PROVE  \E t \in 0 .. n - 1 : First(v, t, n) <= x /\ x < Opl(v, t, n)
<1>. DEFINE q == v \div n
            r == v % n
            y == x - (q + 1) * r
            s == y \div q
            t == r + s
<1>1. q \in Nat /\ r \in Nat /\ r < n /\ v = n * q + r
  BY Division
<1>2. (q + 1) * r <= x
  OBVIOUS
<1>3. /\ First(v, t, n) = q * t + (IF t < r THEN t ELSE r)
      /\ Opl(v, t, n) = First(v, t, n) + q + (IF t < r THEN 1 ELSE 0)
  BY DEF First, Opl
<1>. HIDE DEF q, r
<1>4. /\ (q + 1) * r = q * r + r
      /\ q * r \in Nat
      /\ n * q = q * n
      /\ q * n \in Nat
      /\ q * (n - r) = q * n - q * r
  BY <1>1, Distributes, ProductGrows
<1>5. y \in Nat /\ x = y + q * r + r /\ y < q * (n - r)
  BY <1>1, <1>2, <1>4
<1>. HIDE DEF y
<1>6. q # 0
  <2>1. SUFFICES ASSUME q = 0 PROVE FALSE
    OBVIOUS
  <2>2. n - r \in Nat
    BY <1>1
  <2>3. q * (n - r) = 0
    BY <2>1, <2>2
  <2>. QED BY <1>5, <2>3
<1>7. /\ s \in Nat
      /\ y % q \in Nat
      /\ y % q < q
      /\ y = q * s + (y % q)
  BY <1>1, <1>5, <1>6, Division
<1>. HIDE DEF s
<1>8. q * s \in Nat /\ q * (r + s) = q * r + q * s
  BY <1>1, <1>7, Distributes, ProductGrows
<1>9. s < n - r
  <2>1. SUFFICES ASSUME n - r <= s PROVE FALSE
    BY <1>1, <1>7
  <2>2. n - r \in Nat
    BY <1>1
  <2>3. q * (n - r) <= q * s /\ q * (n - r) \in Nat
    BY <1>1, <1>7, <2>1, <2>2, ProductGrows
  <2>. QED BY <1>5, <1>7, <1>8, <2>3
<1>10. t \in 0 .. n - 1 /\ ~(t < r)
  BY <1>1, <1>7, <1>9
<1>11. q * t = q * r + q * s
  BY <1>8
<1>. HIDE DEF t
<1>12. First(v, t, n) <= x /\ x < Opl(v, t, n)
  BY <1>1, <1>3, <1>4, <1>5, <1>7, <1>8, <1>10, <1>11
<1>. QED BY <1>10, <1>12

\* The lane ranges partition the work: every section and every function body
\* is in the range of exactly one of the lanes, however many there are of
\* each.
THEOREM LaneRangesPartition ==
  ASSUME NEW v \in Nat, NEW n \in Nat \ {0}, NEW x \in 0 .. v - 1
  PROVE  \E t \in 0 .. n - 1 :
           /\ First(v, t, n) <= x /\ x < Opl(v, t, n)
           /\ \A u \in 0 .. n - 1 :
                First(v, u, n) <= x /\ x < Opl(v, u, n) => u = t
<1>1. PICK t \in 0 .. n - 1 : First(v, t, n) <= x /\ x < Opl(v, t, n)
  <2>1. x \in Nat /\ x < v
    OBVIOUS
  <2>2. ((v \div n) + 1) * (v % n) \in Nat
    <3>1. (v \div n) + 1 \in Nat /\ v % n \in Nat
      BY Division
    <3>. QED BY <3>1, ProductGrows
  <2>3. CASE x < ((v \div n) + 1) * (v % n)
    BY <2>1, <2>3, InLargeShare
  <2>4. CASE ((v \div n) + 1) * (v % n) <= x
    BY <2>1, <2>4, InSmallShare
  <2>. QED BY <2>1, <2>2, <2>3, <2>4
<1>2. ASSUME NEW u \in 0 .. n - 1, First(v, u, n) <= x, x < Opl(v, u, n)
      PROVE  u = t
  <2>1. t \in Nat /\ u \in Nat /\ x \in Nat
    OBVIOUS
  <2>2. /\ First(v, t, n) \in Nat /\ Opl(v, t, n) \in Nat
        /\ First(v, u, n) \in Nat /\ Opl(v, u, n) \in Nat
    BY <2>1, RangeIsNat
  <2>3. ~(t < u)
    BY <1>1, <1>2, <2>1, <2>2, RangesDisjoint
  <2>4. ~(u < t)
    BY <1>1, <1>2, <2>1, <2>2, RangesDisjoint
  <2>. QED BY <2>1, <2>3, <2>4
<1>. QED BY <1>1, <1>2

-----------------------------------------------------------------------------
(* Sequences that list a set, and induction *)

LEMMA ElementOf == ASSUME NEW T, NEW s \in Seq(T), NEW i \in 1 .. Len(s) PROVE s[i] \in T
OBVIOUS

LEMMA AppendEnum ==
  ASSUME NEW T, NEW s \in Seq(T), NEW x \in T, NEW S, Enumerates(s, S), x \notin S
  PROVE  Enumerates(Append(s, x), S \cup {x})
<1>. DEFINE t == Append(s, x)
<1>1. /\ Len(s) \in Nat /\ Len(t) = Len(s) + 1
      /\ t[Len(s) + 1] = x /\ \A i \in 1 .. Len(s) : t[i] = s[i]
  OBVIOUS
<1>. HIDE DEF t
<1>2. \A i \in 1 .. Len(t) : i \in 1 .. Len(s) \/ i = Len(s) + 1
  BY <1>1
<1>3. \A i \in 1 .. Len(s) : i \in 1 .. Len(t)
  BY <1>1
<1>4. Len(s) + 1 \in 1 .. Len(t)
  BY <1>1
<1>5. \A i \in 1 .. Len(t) : t[i] \in S \cup {x}
  BY <1>1, <1>2 DEF Enumerates
<1>6. \A y \in S \cup {x} : \E i \in 1 .. Len(t) : t[i] = y
  BY <1>1, <1>3, <1>4 DEF Enumerates
<1>7. \A i, j \in 1 .. Len(t) : t[i] = t[j] => i = j
  BY <1>1, <1>2 DEF Enumerates
<1>8. Enumerates(t, S \cup {x})
  BY <1>5, <1>6, <1>7 DEF Enumerates
<1>. QED BY <1>8 DEF t

LEMMA ConcatEnum ==
  ASSUME NEW T, NEW s \in Seq(T), NEW t \in Seq(T), NEW R, NEW S,
         Enumerates(s, R), Enumerates(t, S), R \cap S = {}
  PROVE  Enumerates(s \o t, R \cup S)
<1>. DEFINE u == s \o t
<1>1. /\ Len(s) \in Nat /\ Len(t) \in Nat /\ Len(u) = Len(s) + Len(t)
      /\ \A i \in 1 .. Len(s) : u[i] = s[i]
      /\ \A i \in 1 .. Len(t) : u[Len(s) + i] = t[i]
  OBVIOUS
<1>. HIDE DEF u
<1>2. \A i \in 1 .. Len(u) : i \in 1 .. Len(s) \/ \E k \in 1 .. Len(t) : i = Len(s) + k
  <2>. SUFFICES ASSUME NEW i \in 1 .. Len(u), i \notin 1 .. Len(s)
                PROVE  \E k \in 1 .. Len(t) : i = Len(s) + k
    OBVIOUS
  <2>1. i - Len(s) \in 1 .. Len(t) /\ i = Len(s) + (i - Len(s))
    BY <1>1
  <2>. QED BY <2>1
<1>3. /\ \A i \in 1 .. Len(s) : i \in 1 .. Len(u)
      /\ \A k \in 1 .. Len(t) : Len(s) + k \in 1 .. Len(u)
  BY <1>1
<1>4. /\ \A i \in 1 .. Len(s) : u[i] \in R
      /\ \A k \in 1 .. Len(t) : u[Len(s) + k] \in S
  BY <1>1 DEF Enumerates
<1>5. \A i \in 1 .. Len(u) : u[i] \in R \cup S
  BY <1>2, <1>4
<1>6. \A y \in R \cup S : \E i \in 1 .. Len(u) : u[i] = y
  <2>1. ASSUME NEW y \in R PROVE \E i \in 1 .. Len(u) : u[i] = y
    BY <1>1, <1>3, <2>1 DEF Enumerates
  <2>2. ASSUME NEW y \in S PROVE \E i \in 1 .. Len(u) : u[i] = y
    <3>1. PICK k \in 1 .. Len(t) : t[k] = y
      BY <2>2 DEF Enumerates
    <3>. QED BY <1>1, <1>3, <3>1
  <2>. QED BY <2>1, <2>2
<1>7. ASSUME NEW i \in 1 .. Len(u), NEW j \in 1 .. Len(u), u[i] = u[j] PROVE i = j
  <2>1. CASE i \in 1 .. Len(s) /\ j \in 1 .. Len(s)
    BY <1>1, <1>7, <2>1 DEF Enumerates
  <2>2. CASE i \notin 1 .. Len(s) /\ j \notin 1 .. Len(s)
    <3>1. PICK k \in 1 .. Len(t) : i = Len(s) + k
      BY <1>2, <2>2
    <3>2. PICK n \in 1 .. Len(t) : j = Len(s) + n
      BY <1>2, <2>2
    <3>3. t[k] = t[n]
      BY <1>1, <1>7, <3>1, <3>2
    <3>4. k = n
      BY <3>3 DEF Enumerates
    <3>. QED BY <3>1, <3>2, <3>4
  <2>3. CASE i \in 1 .. Len(s) /\ j \notin 1 .. Len(s)
    BY <1>2, <1>4, <1>7, <2>3
  <2>4. CASE i \notin 1 .. Len(s) /\ j \in 1 .. Len(s)
    BY <1>2, <1>4, <1>7, <2>4
  <2>. QED BY <2>1, <2>2, <2>3, <2>4
<1>8. Enumerates(u, R \cup S)
  BY <1>5, <1>6, <1>7 DEF Enumerates
<1>. QED BY <1>8 DEF u

\* A sequence that lists a set is as long as the set is large.
LEMMA EnumCount ==
  ASSUME NEW T, NEW s \in Seq(T), NEW S, Enumerates(s, S)
  PROVE  {s[i] : i \in 1 .. Len(s)} = S /\ Len(s) = Cardinality(S)
<1>1. {s[i] : i \in 1 .. Len(s)} = S
  BY DEF Enumerates
<1>2. Len(s) \in Nat /\ s = [i \in 1 .. Len(s) |-> s[i]]
  OBVIOUS
<1>3. s \in Bijection(1 .. Len(s), S)
  <2>1. s \in [1 .. Len(s) -> S]
    BY <1>2 DEF Enumerates
  <2>2. s \in Injection(1 .. Len(s), S)
    BY <2>1 DEF Injection, IsInjective, Enumerates
  <2>3. s \in Surjection(1 .. Len(s), S)
    BY <2>1 DEF Surjection, Enumerates
  <2>. QED BY <2>2, <2>3 DEF Bijection
<1>4. ExistsBijection(1 .. Len(s), S)
  BY <1>3 DEF ExistsBijection
<1>. QED BY <1>1, <1>2, <1>4, FS_CountingElements

\* A set of numbers that is not empty has a least.
LEMMA LeastNat ==
  ASSUME NEW T \in SUBSET Nat, T # {}
  PROVE  \E x \in T : \A y \in T : x <= y
<1>1. IsWellFoundedOn(OpToRel(<, Nat), Nat)
  BY NatLessThanWellFounded
<1>2. \E x \in T : \A y \in T : ~(<<y, x>> \in OpToRel(<, Nat))
  BY <1>1, WFMin
<1>3. \A x, y \in Nat : <<y, x>> \in OpToRel(<, Nat) <=> y < x
  BY DEF OpToRel
<1>4. \E x \in T : \A y \in T : ~(y < x)
  BY <1>2, <1>3, Zenon
<1>. QED BY <1>4, SMT

\* A bounded one has a greatest.
LEMMA GreatestNat ==
  ASSUME NEW n \in Nat, NEW T \in SUBSET (1 .. n), T # {}
  PROVE  \E x \in T : \A y \in T : y <= x
<1>. DEFINE U == {k \in Nat : \A y \in T : y <= k}
<1>1. U \in SUBSET Nat /\ n \in U
  OBVIOUS
<1>2. PICK k \in U : \A j \in U : k <= j
  BY <1>1, LeastNat
<1>3. k \in T
  <2>. SUFFICES ASSUME k \notin T PROVE FALSE
    OBVIOUS
  <2>1. PICK y \in T : TRUE
    OBVIOUS
  <2>2. k \in Nat /\ k # 0
    BY <2>1
  <2>3. k - 1 \in Nat /\ \A z \in T : z <= k - 1
    BY <2>2
  <2>. QED BY <1>2, <2>2, <2>3
<1>. QED BY <1>2, <1>3

\* The sequences r[0], r[1], ... up to n, one behind the other.
Joins(g, r, n) ==
  \A k \in 0 .. n : g[k] = (IF k = 0 THEN <<>> ELSE g[k - 1]) \o r[k]

LEMMA JoinsExist ==
  ASSUME NEW T, NEW N \in Nat, NEW r \in [0 .. N -> Seq(T)]
  PROVE  \E g \in [0 .. N -> Seq(T)] : Joins(g, r, N)
<1>. DEFINE B == {n \in 0 .. N : ~ \E g \in [0 .. n -> Seq(T)] : Joins(g, r, n)}
<1>1. SUFFICES ASSUME B # {} PROVE FALSE
  <2>1. N \in 0 .. N
    OBVIOUS
  <2>. QED BY <2>1
<1>2. B \in SUBSET Nat
  OBVIOUS
<1>3. PICK n \in B : \A m \in B : n <= m
  BY <1>1, <1>2, LeastNat
<1>4. n \in 0 .. N /\ ~ \E g \in [0 .. n -> Seq(T)] : Joins(g, r, n)
  OBVIOUS
<1>5. CASE n = 0
  <2>. DEFINE g == [k \in 0 .. 0 |-> r[0]]
  <2>1. r[0] \in Seq(T) /\ <<>> \o r[0] = r[0]
    OBVIOUS
  <2>2. g \in [0 .. 0 -> Seq(T)]
    BY <2>1
  <2>3. Joins(g, r, 0)
    BY <2>1 DEF Joins
  <2>. HIDE DEF g
  <2>. QED BY <1>4, <1>5, <2>2, <2>3
<1>6. CASE n # 0
  <2>1. n - 1 \in 0 .. N /\ n - 1 \notin B /\ n \in Nat /\ n >= 1
    BY <1>3, <1>4, <1>6
  <2>2. PICK g \in [0 .. n - 1 -> Seq(T)] : Joins(g, r, n - 1)
    BY <2>1
  <2>. DEFINE h == [k \in 0 .. n |-> IF k = n THEN g[n - 1] \o r[n] ELSE g[k]]
  <2>3. n - 1 \in 0 .. n - 1 /\ \A k \in 0 .. n : k # n => k \in 0 .. n - 1
    BY <2>1
  <2>4. g[n - 1] \o r[n] \in Seq(T)
    <3>1. g[n - 1] \in Seq(T) /\ r[n] \in Seq(T)
      BY <1>4, <2>3
    <3>. QED BY <3>1
  <2>5. h \in [0 .. n -> Seq(T)]
    BY <2>3, <2>4
  <2>6. /\ h[n] = g[n - 1] \o r[n]
        /\ \A k \in 0 .. n : k # n => h[k] = g[k]
    BY <2>1
  <2>. HIDE DEF h
  <2>7. Joins(h, r, n)
    <3>. SUFFICES ASSUME NEW k \in 0 .. n
                  PROVE  h[k] = (IF k = 0 THEN <<>> ELSE h[k - 1]) \o r[k]
      BY DEF Joins
    <3>1. CASE k = n
      <4>1. n - 1 \in 0 .. n /\ n - 1 # n
        BY <2>1
      <4>. QED BY <1>6, <2>6, <3>1, <4>1
    <3>2. CASE k # n
      <4>1. k \in 0 .. n - 1 /\ (k # 0 => k - 1 \in 0 .. n /\ k - 1 # n)
        BY <2>1, <3>2
      <4>2. g[k] = (IF k = 0 THEN <<>> ELSE g[k - 1]) \o r[k]
        BY <2>2, <4>1 DEF Joins
      <4>. QED BY <2>6, <3>2, <4>1, <4>2
    <3>. QED BY <3>1, <3>2
  <2>. QED BY <1>4, <2>5, <2>7
<1>. QED BY <1>5, <1>6

\* If they list disjoint sets, all of them list the union.
LEMMA JoinsEnum ==
  ASSUME NEW T, NEW N \in Nat, NEW r \in [0 .. N -> Seq(T)], NEW g \in [0 .. N -> Seq(T)],
         Joins(g, r, N), NEW S,
         \A k \in 0 .. N : Enumerates(r[k], S[k]),
         \A k, m \in 0 .. N : k # m => S[k] \cap S[m] = {},
         NEW V, \A x : x \in V <=> \E k \in 0 .. N : x \in S[k]
  PROVE  Enumerates(g[N], V)
<1>. DEFINE U == [n \in 0 .. N |-> UNION {S[k] : k \in 0 .. n}]
            B == {n \in 0 .. N : ~Enumerates(g[n], U[n])}
<1>1. SUFFICES ASSUME B # {} PROVE FALSE
  <2>1. N \in 0 .. N
    OBVIOUS
  <2>2. U[N] = V
    BY <2>1
  <2>. QED BY <2>1, <2>2
<1>2. B \in SUBSET Nat
  OBVIOUS
<1>3. PICK n \in B : \A m \in B : n <= m
  BY <1>1, <1>2, LeastNat
<1>4. n \in 0 .. N /\ ~Enumerates(g[n], U[n]) /\ n \in Nat
  OBVIOUS
<1>5. g[n] = (IF n = 0 THEN <<>> ELSE g[n - 1]) \o r[n] /\ r[n] \in Seq(T)
  BY <1>4 DEF Joins
<1>6. CASE n = 0
  <2>1. g[n] = r[n]
    BY <1>5, <1>6
  <2>2. U[n] = S[n]
    BY <1>4, <1>6
  <2>. QED BY <1>4, <2>1, <2>2
<1>7. CASE n # 0
  <2>1. n - 1 \in 0 .. N /\ n - 1 \notin B /\ g[n - 1] \in Seq(T)
    <3>. HIDE DEF B, U
    <3>1. n - 1 \in 0 .. N /\ ~(n <= n - 1)
      BY <1>4, <1>7
    <3>2. n - 1 \notin B
      BY <1>3, <3>1
    <3>. QED BY <3>1, <3>2
  <2>2. Enumerates(g[n - 1], U[n - 1])
    BY <2>1
  <2>3. U[n] = U[n - 1] \cup S[n]
    <3>1. \A k : k \in 0 .. n <=> k \in 0 .. n - 1 \/ k = n
      BY <1>4, <1>7
    <3>2. U[n] = UNION {S[k] : k \in 0 .. n} /\ U[n - 1] = UNION {S[k] : k \in 0 .. n - 1}
      BY <1>4, <2>1
    <3>. HIDE DEF U, B
    <3>. QED BY <3>1, <3>2
  <2>4. U[n - 1] \cap S[n] = {}
    <3>1. \A k \in 0 .. n - 1 : k \in 0 .. N /\ k # n
      BY <1>4
    <3>2. U[n - 1] = UNION {S[k] : k \in 0 .. n - 1}
      BY <2>1
    <3>. HIDE DEF U, B
    <3>3. \A k \in 0 .. n - 1 : S[k] \cap S[n] = {}
      BY <1>4, <3>1
    <3>. QED BY <3>2, <3>3
  <2>. HIDE DEF U, B
  <2>5. Enumerates(g[n - 1] \o r[n], U[n - 1] \cup S[n])
    BY <1>4, <1>5, <2>1, <2>2, <2>4, ConcatEnum
  <2>6. Enumerates(g[n], U[n])
    BY <1>5, <1>7, <2>3, <2>5
  <2>. QED BY <1>4, <2>6
<1>. QED BY <1>6, <1>7

LEMMA JoinsUnique ==
  ASSUME NEW N \in Nat, NEW r, NEW g, NEW h, Joins(g, r, N), Joins(h, r, N)
  PROVE  g[N] = h[N]
<1>. DEFINE B == {n \in 0 .. N : g[n] # h[n]}
<1>1. SUFFICES ASSUME B # {} PROVE FALSE
  <2>1. N \in 0 .. N
    OBVIOUS
  <2>. QED BY <2>1
<1>2. B \in SUBSET Nat
  OBVIOUS
<1>3. PICK n \in B : \A m \in B : n <= m
  BY <1>1, <1>2, LeastNat
<1>4. n \in 0 .. N /\ g[n] # h[n] /\ n \in Nat
  OBVIOUS
<1>5. /\ g[n] = (IF n = 0 THEN <<>> ELSE g[n - 1]) \o r[n]
      /\ h[n] = (IF n = 0 THEN <<>> ELSE h[n - 1]) \o r[n]
  BY <1>4 DEF Joins
<1>6. n # 0 => n - 1 \in 0 .. N /\ n - 1 \notin B
  BY <1>3, <1>4
<1>7. n # 0 => g[n - 1] = h[n - 1]
  BY <1>6
<1>. QED BY <1>4, <1>5, <1>7

USE LaneAssumption, FileAssumption, KindAssumption

-----------------------------------------------------------------------------
(* The ranges *)

LEMMA FileType ==
  ASSUME IInv
  PROVE  /\ Len(file.sections) \in Nat /\ Len(file.codes) \in Nat
         /\ file.sections \in Seq([kind : Kind, bad : BOOLEAN, ends : Ending])
         /\ file.codes \in Seq([bad : BOOLEAN, ends : Ending])
         /\ file.scan \in BOOLEAN /\ file.structure \in BOOLEAN /\ file.version \in Nat
<1>1. file \in FileRecord
  BY DEF IInv, Types
<1>. QED BY <1>1 DEF FileRecord

LEMMA RangeOfLane ==
  ASSUME NEW v \in Nat, NEW l \in Lane
  PROVE  /\ First(v, l, LaneCount) \in Nat /\ Opl(v, l, LaneCount) \in Nat
         /\ First(v, l, LaneCount) <= Opl(v, l, LaneCount)
         /\ Opl(v, l, LaneCount) <= v
<1>1. l \in Nat /\ l <= LaneCount - 1 /\ LaneCount \in Nat \ {0} /\ LaneCount - 1 \in Nat
  BY DEF Lane
<1>2. /\ First(v, l, LaneCount) \in Nat /\ Opl(v, l, LaneCount) \in Nat
      /\ First(v, l, LaneCount) <= Opl(v, l, LaneCount)
  BY <1>1, RangeIsNat
<1>3. Opl(v, LaneCount - 1, LaneCount) = v
  BY <1>1, RangesCover
<1>4. CASE l = LaneCount - 1
  BY <1>2, <1>3, <1>4
<1>5. CASE l < LaneCount - 1
  <2>1. /\ First(v, LaneCount - 1, LaneCount) \in Nat
        /\ First(v, LaneCount - 1, LaneCount) <= Opl(v, LaneCount - 1, LaneCount)
    BY <1>1, RangeIsNat
  <2>2. Opl(v, l, LaneCount) <= First(v, LaneCount - 1, LaneCount)
    BY <1>1, <1>5, RangesDisjoint
  <2>. QED BY <1>2, <1>3, <2>1, <2>2
<1>. QED BY <1>1, <1>2, <1>4, <1>5

\* One lane has i in its range.
LEMMA OneLane ==
  ASSUME NEW v \in Nat, NEW i \in 1 .. v
  PROVE  \E l \in Lane : First(v, l, LaneCount) < i /\ i <= Opl(v, l, LaneCount)
<1>1. i - 1 \in 0 .. v - 1
  OBVIOUS
<1>2. PICK l \in 0 .. LaneCount - 1 :
        First(v, l, LaneCount) <= i - 1 /\ i - 1 < Opl(v, l, LaneCount)
  BY <1>1, LaneRangesPartition
<1>3. l \in Lane
  BY DEF Lane
<1>4. First(v, l, LaneCount) \in Nat /\ Opl(v, l, LaneCount) \in Nat
  BY <1>3, RangeOfLane
<1>5. First(v, l, LaneCount) < i /\ i <= Opl(v, l, LaneCount)
  BY <1>2, <1>4
<1>. QED BY <1>3, <1>5

\* No two have it.
LEMMA NoTwoLanes ==
  ASSUME NEW v \in Nat, NEW i \in 1 .. v, NEW l \in Lane, NEW m \in Lane,
         First(v, l, LaneCount) < i, i <= Opl(v, l, LaneCount),
         First(v, m, LaneCount) < i, i <= Opl(v, m, LaneCount)
  PROVE  l = m
<1>1. l \in Nat /\ m \in Nat
  BY DEF Lane
<1>2. /\ First(v, l, LaneCount) \in Nat /\ Opl(v, l, LaneCount) \in Nat
      /\ First(v, m, LaneCount) \in Nat /\ Opl(v, m, LaneCount) \in Nat
  BY RangeOfLane
<1>3. ~(l < m)
  BY <1>1, <1>2, RangesDisjoint
<1>4. ~(m < l)
  BY <1>1, <1>2, RangesDisjoint
<1>. QED BY <1>1, <1>3, <1>4

\* The ranges of a lane in this file.
LEMMA MyRange ==
  ASSUME IInv, NEW l \in Lane
  PROVE  /\ SFirst(l) \in Nat /\ SOpl(l) \in Nat /\ SFirst(l) <= SOpl(l)
         /\ SOpl(l) <= Len(file.sections)
         /\ CFirst(l) \in Nat /\ COpl(l) \in Nat /\ CFirst(l) <= COpl(l)
         /\ COpl(l) <= Len(file.codes)
BY FileType, RangeOfLane DEF SFirst, SOpl, CFirst, COpl

LEMMA FileKept ==
  ASSUME UNCHANGED file
  PROVE  /\ Way' = Way /\ Scanned' = Scanned /\ Decodes' = Decodes
         /\ CodeSection' = CodeSection
         /\ \A l \in Lane : /\ SFirst(l)' = SFirst(l) /\ SOpl(l)' = SOpl(l)
                            /\ CFirst(l)' = CFirst(l) /\ COpl(l)' = COpl(l)
BY WayKept DEF Scanned, Decodes, CodeSection, SFirst, SOpl, CFirst, COpl

-----------------------------------------------------------------------------
(* Steps that read nothing *)

\* No lane changes its place in its ranges.
Places ==
  /\ UNCHANGED file
  /\ \A l \in Lane : /\ Stored(l)' = Stored(l) /\ Finished(l)' = Finished(l)
                     /\ Decoded(l)' = Decoded(l)

Progress == Places /\ Prepared' = Prepared /\ Gathered' = Gathered

LEMMA FieldsKept == ASSUME FieldsOK, Places, UNCHANGED module.field PROVE FieldsOK'
<1>1. \A l \in Lane : SFirst(l)' = SFirst(l) /\ SOpl(l)' = SOpl(l)
  BY FileKept DEF Places
<1>2. \A f : SectionsOf(f)' = SectionsOf(f)
  BY DEF Places, SectionsOf
<1>3. [l \in Lane |-> Stored(l)]' = [l \in Lane |-> Stored(l)]
      /\ [l \in Lane |-> Finished(l)]' = [l \in Lane |-> Finished(l)]
  BY DEF Places
<1>4. ASSUME NEW f, NEW w, NEW upTo, WordOK(f, w, upTo) PROVE WordOK(f, w, upTo)'
  BY <1>1, <1>2, <1>4 DEF WordOK
<1>. QED BY <1>3, <1>4 DEF FieldsOK

LEMMA CodesKept ==
  ASSUME CodesOK, Places, Prepared' = Prepared, UNCHANGED module.codes
  PROVE  CodesOK'
<1>1. Decodes' = Decodes /\ \A l \in Lane : CFirst(l)' = CFirst(l)
  BY FileKept DEF Places
<1>. QED BY <1>1 DEF CodesOK, Places

LEMMA EndsKept ==
  ASSUME UNCHANGED file, NEW l \in Lane, EndsOK(l), Stored(l)' = Stored(l),
         Decoded(l)' = Decoded(l)
  PROVE  EndsOK(l)'
<1>1. SFirst(l)' = SFirst(l) /\ CFirst(l)' = CFirst(l)
  BY FileKept
<1>. QED BY <1>1 DEF EndsOK, SectionReturns

LEMMA PartsKept ==
  ASSUME UNCHANGED file, NEW l \in Lane
  PROVE  /\ Stored(l)' = Stored(l) => SectionReports(l)' = SectionReports(l)
         /\ Decoded(l)' = Decoded(l) => CodeReports(l)' = CodeReports(l)
         /\ l # 0 \/ Prepared' = Prepared => StructureReports(l)' = StructureReports(l)
<1>1. SFirst(l)' = SFirst(l) /\ CFirst(l)' = CFirst(l) /\ Way' = Way /\ CodeSection' = CodeSection
  BY FileKept
<1>2. Stored(l)' = Stored(l) => SectionReports(l)' = SectionReports(l)
  BY <1>1 DEF SectionReports, BadSection
<1>3. Decoded(l)' = Decoded(l) => CodeReports(l)' = CodeReports(l)
  BY <1>1 DEF CodeReports
<1>4. l # 0 \/ Prepared' = Prepared => StructureReports(l)' = StructureReports(l)
  BY <1>1 DEF StructureReports
<1>. QED BY <1>2, <1>3, <1>4

LEMMA ReportsKept ==
  ASSUME UNCHANGED file, NEW l \in Lane, Stored(l)' = Stored(l), Decoded(l)' = Decoded(l),
         l # 0 \/ Prepared' = Prepared
  PROVE  Reports(l)' = Reports(l)
BY PartsKept DEF Reports

LEMMA QuietRInv ==
  ASSUME RInv, Progress, UNCHANGED <<module, reported, diags, done>>,
         main' \in {"starting", "joining", "returned", "panicked"},
         main' \in {"joining", "returned"} => done,
         items' \in [Lane -> Nat], \A l \in Lane : ItemsOK(l)'
  PROVE  RInv'
<1>1. FieldsOK' /\ CodesOK' /\ \A l \in Lane : EndsOK(l)'
  BY FieldsKept, CodesKept, EndsKept DEF RInv, Progress, Places
<1>2. \A l \in Lane : Reports(l)' = Reports(l)
  BY ReportsKept DEF Progress, Places
<1>3. Scanned' = Scanned
  BY FileKept DEF Progress, Places
<1>4. ReportsOK'
  BY <1>2, <1>3 DEF RInv, ReportsOK
<1>5. DiagsOK'
  <2>1. (UNION {Reports(l) : l \in Lane})' = UNION {Reports(l) : l \in Lane}
    BY <1>2
  <2>. QED BY <2>1 DEF RInv, DiagsOK, Progress
<1>. QED BY <1>1, <1>3, <1>4, <1>5 DEF RInv

\* A step of one lane that keeps its place in its ranges.
OneMoves(l) ==
  /\ UNCHANGED file
  /\ items' \in [Lane -> Nat]
  /\ \A m \in Lane \ {l} : point'[m] = point[m] /\ stage'[m] = stage[m] /\ items'[m] = items[m]

LEMMA OthersStay ==
  ASSUME RInv, NEW l \in Lane, OneMoves(l)
  PROVE  /\ \A m \in Lane \ {l} : /\ Finished(m)' = Finished(m) /\ Decoded(m)' = Decoded(m)
                                 /\ Stored(m)' = Stored(m) /\ ItemsOK(m)'
         /\ l # 0 => Prepared' = Prepared /\ Gathered' = Gathered
<1>1. /\ Way' = Way /\ Scanned' = Scanned /\ Decodes' = Decodes
      /\ \A m \in Lane : /\ SFirst(m)' = SFirst(m) /\ SOpl(m)' = SOpl(m)
                         /\ CFirst(m)' = CFirst(m) /\ COpl(m)' = COpl(m)
  BY FileKept DEF OneMoves
<1>2. ASSUME NEW m \in Lane \ {l}
      PROVE  /\ Finished(m)' = Finished(m) /\ Decoded(m)' = Decoded(m) /\ ItemsOK(m)'
             /\ Stored(m)' = Stored(m)
  <2>1. point'[m] = point[m] /\ stage'[m] = stage[m] /\ items'[m] = items[m]
    BY <1>2 DEF OneMoves
  <2>2. Finished(m)' = Finished(m)
    BY <1>1, <2>1 DEF Finished
  <2>3. Decoded(m)' = Decoded(m)
    BY <1>1, <2>1 DEF Decoded
  <2>4. ItemsOK(m)'
    BY <1>1, <2>1 DEF RInv, ItemsOK
  <2>. QED BY <2>1, <2>2, <2>3, <2>4 DEF Stored
<1>3. ASSUME l # 0 PROVE Prepared' = Prepared /\ Gathered' = Gathered
  <2>1. point'[0] = point[0] /\ stage'[0] = stage[0]
    BY <1>3, LanesFinite DEF OneMoves
  <2>. QED BY <1>1, <2>1 DEF Prepared, Gathered
<1>. QED BY <1>2, <1>3

LEMMA ProgressOf ==
  ASSUME RInv, NEW l \in Lane, OneMoves(l), ItemsOK(l)',
         Stored(l)' = Stored(l), Finished(l)' = Finished(l), Decoded(l)' = Decoded(l),
         l = 0 => Prepared' = Prepared /\ Gathered' = Gathered
  PROVE  Progress /\ \A m \in Lane : ItemsOK(m)'
BY OthersStay DEF Progress, Places, OneMoves

\* The lane goes on within its synchronisation call, or reaches it.
LEMMA StageQuiet ==
  ASSUME IInv, RInv, NEW l \in Lane, NEW s \in Stage \ {"run", "len"},
         stage' = [stage EXCEPT ![l] = s], stage[l] # "len", UNCHANGED <<file, point, items>>,
         point[l] = "sections" => SFirst(l) + items[l] = SOpl(l),
         point[l] = "end" /\ Decodes => CFirst(l) + items[l] = COpl(l),
         l = 0 /\ point[l] \in {"code_ok", "diags"} => stage[l] # "run"
  PROVE  Progress /\ (\A m \in Lane : ItemsOK(m)') /\ items' \in [Lane -> Nat]
<1>1. /\ Way' = Way /\ Scanned' = Scanned /\ Decodes' = Decodes
      /\ SFirst(l)' = SFirst(l) /\ SOpl(l)' = SOpl(l)
      /\ CFirst(l)' = CFirst(l) /\ COpl(l)' = COpl(l)
  BY FileKept
<1>2. stage'[l] = s /\ \A m \in Lane \ {l} : stage'[m] = stage[m]
  BY DEF IInv, Types
<1>3. /\ SFirst(l) \in Nat /\ SOpl(l) \in Nat /\ CFirst(l) \in Nat /\ COpl(l) \in Nat
  BY MyRange
<1>4. OneMoves(l)
  BY <1>2 DEF OneMoves, RInv
<1>5. Finished(l)' = Finished(l)
  BY <1>1 DEF Finished
<1>6. Stored(l)' = Stored(l)
  BY <1>2, <1>5 DEF Stored
<1>7. Decoded(l)' = Decoded(l)
  BY <1>1 DEF Decoded
<1>8. ItemsOK(l)'
  BY <1>1, <1>2, <1>3 DEF ItemsOK, RInv
<1>9. ASSUME l = 0 PROVE Prepared' = Prepared /\ Gathered' = Gathered
  BY <1>1, <1>2, <1>9 DEF Prepared, Gathered
<1>. QED BY <1>4, <1>5, <1>6, <1>7, <1>8, <1>9, ProgressOf DEF RInv

\* The lane goes on behind its call.
LEMMA GoQuiet ==
  ASSUME IInv, RInv, NEW l \in Lane, NEW p \in Point, GoTo(l, p), UNCHANGED file,
         PathOK(p, "run", Way),
         \/ stage[l] = "wait2" /\ p = After[point[l]]
         \/ point[l] = "bin_module" /\ stage[l] = "run" /\ p = "exit" /\ Way.scan = "false"
         \/ point[l] = "code_ok" /\ stage[l] = "run" /\ p = "end" /\ Way.code = "false"
         \/ point[l] = "bin_codes" /\ stage[l] = "run" /\ p = "end" /\ Way.structure = "false"
         \/ point[l] = "signal" /\ stage[l] = "run" /\ p = "exit"
  PROVE  Progress /\ (\A m \in Lane : ItemsOK(m)') /\ items' \in [Lane -> Nat]
<1>1. /\ Way' = Way /\ Scanned' = Scanned /\ Decodes' = Decodes
      /\ SFirst(l)' = SFirst(l) /\ SOpl(l)' = SOpl(l)
      /\ CFirst(l)' = CFirst(l) /\ COpl(l)' = COpl(l)
  BY FileKept
<1>2. /\ point'[l] = p /\ stage'[l] = "run" /\ items'[l] = 0
      /\ OneMoves(l)
  BY DEF IInv, Types, RInv, GoTo, OneMoves
<1>3. /\ SFirst(l) \in Nat /\ SOpl(l) \in Nat /\ CFirst(l) \in Nat /\ COpl(l) \in Nat
      /\ SFirst(l) <= SOpl(l) /\ CFirst(l) <= COpl(l)
  BY MyRange
<1>4. PathOK(point[l], stage[l], Way) /\ point[l] \in Point /\ stage[l] # "len"
  BY AboutLane
<1>5. point[l] \in DOMAIN After \cup {"signal"}
  BY <1>4 DEF PathOK, After
<1>6. ItemsOK(l)'
  BY <1>1, <1>2, <1>3 DEF ItemsOK
<1>7. /\ point[l] = "sections" /\ stage[l] = "wait2" => SFirst(l) + items[l] = SOpl(l)
      /\ point[l] = "end" /\ stage[l] = "wait2" /\ Decodes => CFirst(l) + items[l] = COpl(l)
  BY DEF RInv, ItemsOK
<1>8. Finished(l)' = IF p = "sections" THEN SFirst(l)
                     ELSE IF p \in Before \/ ~Scanned THEN SFirst(l) ELSE SOpl(l)
  BY <1>1, <1>2, <1>3 DEF Finished
<1>9. Decoded(l)' = IF ~Decodes THEN CFirst(l) ELSE IF p = "end" THEN CFirst(l)
                    ELSE IF p \in Behind /\ Scanned THEN COpl(l) ELSE CFirst(l)
  BY <1>1, <1>2, <1>3 DEF Decoded
<1>10. l = 0 => /\ Prepared' = (/\ Scanned /\ Way.code = "true"
                               /\ p \in {"bin_codes", "end"} \cup Behind)
                /\ Gathered' = (Scanned /\ p \in {"signal", "exit"})
  BY <1>1, <1>2 DEF Prepared, Gathered
<1>11. /\ Finished(l) = IF point[l] = "sections" THEN SFirst(l) + items[l]
                        ELSE IF point[l] \in Before \/ ~Scanned THEN SFirst(l) ELSE SOpl(l)
       /\ Decoded(l) = IF ~Decodes THEN CFirst(l) ELSE IF point[l] = "end" THEN CFirst(l) + items[l]
                       ELSE IF point[l] \in Behind /\ Scanned THEN COpl(l) ELSE CFirst(l)
       /\ l = 0 => /\ Prepared = (/\ Scanned /\ Way.code = "true"
                                  /\ \/ point[l] \in {"bin_codes", "end"} \cup Behind
                                     \/ point[l] = "code_ok" /\ stage[l] # "run")
                   /\ Gathered = (/\ Scanned
                                  /\ \/ point[l] \in {"signal", "exit"}
                                     \/ point[l] = "diags" /\ stage[l] # "run")
  BY DEF Finished, Decoded, Prepared, Gathered
<1>12. /\ Finished(l)' = Finished(l) /\ Decoded(l)' = Decoded(l)
       /\ l = 0 => Prepared' = Prepared /\ Gathered' = Gathered
  <2>. USE <1>7, <1>8, <1>9, <1>10, <1>11 DEF Before, Behind, Scanned, Decodes
  <2>1. CASE point[l] \in {"start", "ctxs", "scan_ok"}
    <3>1. p \in {"ctxs", "scan_ok", "bin_module"}
      BY <2>1 DEF After
    <3>. QED BY <2>1, <3>1
  <2>2. CASE point[l] = "bin_module"
    <3>1. p = "sections" \/ (p = "exit" /\ ~Scanned)
      BY <2>2 DEF After
    <3>. QED BY <2>2, <3>1
  <2>3. CASE point[l] = "sections"
    <3>1. p = "code_ok" /\ stage[l] = "wait2" /\ Scanned
      BY <1>4, <2>3 DEF After, PathOK
    <3>. QED BY <2>3, <3>1
  <2>4. CASE point[l] = "code_ok"
    <3>1. (p = "bin_codes" /\ stage[l] = "wait2") \/ (p = "end" /\ Way.code = "false")
      BY <2>4 DEF After
    <3>2. Scanned /\ (p = "bin_codes" => Way.code = "true")
      BY <1>4, <2>4 DEF PathOK
    <3>. QED BY <2>4, <3>1, <3>2
  <2>5. CASE point[l] = "bin_codes"
    <3>1. p = "end" /\ Scanned
      BY <1>4, <2>5 DEF After, PathOK
    <3>. QED BY <2>5, <3>1
  <2>6. CASE point[l] = "end"
    <3>1. p = "diags" /\ stage[l] = "wait2" /\ Scanned
      BY <1>4, <2>6 DEF After, PathOK
    <3>2. Finished(l)' = Finished(l)
      BY <2>6, <3>1
    <3>3. Decoded(l)' = Decoded(l)
      BY <2>6, <3>1
    <3>4. l = 0 => Prepared' = Prepared /\ Gathered' = Gathered
      BY <2>6, <3>1
    <3>. QED BY <3>2, <3>3, <3>4
  <2>7. CASE point[l] \in {"diags", "signal"}
    <3>1. p \in {"signal", "exit"} /\ Scanned /\ (point[l] = "diags" => stage[l] = "wait2")
      BY <1>4, <2>7 DEF After, PathOK
    <3>2. Finished(l)' = Finished(l) /\ Decoded(l)' = Decoded(l)
      BY <2>7, <3>1
    <3>3. l = 0 => Prepared' = Prepared /\ Gathered' = Gathered
      BY <2>7, <3>1
    <3>. QED BY <3>2, <3>3
  <2>. QED BY <1>5, <2>1, <2>2, <2>3, <2>4, <2>5, <2>6, <2>7 DEF After
<1>13. Stored(l)' = Stored(l)
  BY <1>2, <1>4, <1>12 DEF Stored
<1>. QED BY <1>2, <1>6, <1>12, <1>13, ProgressOf DEF OneMoves

-----------------------------------------------------------------------------
(* The first state, and the steps that read nothing *)

LEMMA InitRInv == Init => RInv
<1>. SUFFICES ASSUME Init PROVE RInv
  OBVIOUS
<1>1. IInv
  BY InitIInv
<1>2. ASSUME NEW l \in Lane
      PROVE  /\ point[l] = "created" /\ stage[l] = "run" /\ items[l] = 0 /\ reported[l] = <<>>
             /\ Stored(l) = SFirst(l) /\ Finished(l) = SFirst(l) /\ Decoded(l) = CFirst(l)
             /\ SFirst(l) \in Nat /\ CFirst(l) \in Nat
  <2>1. point[l] = "created" /\ stage[l] = "run" /\ items[l] = 0 /\ reported[l] = <<>>
    BY DEF Init
  <2>2. SFirst(l) \in Nat /\ CFirst(l) \in Nat
    BY <1>1, MyRange
  <2>. QED BY <2>1, <2>2 DEF Stored, Finished, Decoded, Before, Behind
<1>3. ~Prepared /\ ~Gathered
  BY <1>2, LanesFinite DEF Prepared, Gathered, Behind
<1>4. \A l \in Lane : ItemsOK(l)
  BY <1>2 DEF ItemsOK
<1>5. items \in [Lane -> Nat] /\ reported \in [Lane -> Seq(Part)] /\ diags \in Seq(Part)
  BY DEF Init
<1>6. module \in ModuleRecord
  BY DEF Init, ModuleRecord, Unset
<1>7. FieldsOK
  <2>1. ASSUME NEW f \in Field
        PROVE  module.field[f].data = Unset /\ module.field[f].len = Unset
    BY DEF Init
  <2>2. ASSUME NEW f, NEW upTo, \A l \in Lane : upTo[l] = SFirst(l)
        PROVE  WordOK(f, Unset, upTo)
    <3>1. \A i \in SectionsOf(f) : i \in 1 .. Len(file.sections)
      BY DEF SectionsOf
    <3>2. \A l \in Lane : SFirst(l) \in Nat
      BY <1>2
    <3>3. \A i \in SectionsOf(f) : i \in Nat
      BY <3>1, <1>1, FileType
    <3>4. \A l \in Lane, i \in SectionsOf(f) : ~(SFirst(l) < i /\ i <= upTo[l])
      BY <2>2, <3>2, <3>3
    <3>5. ASSUME NEW l \in Lane, \A i \in SectionsOf(f) : SFirst(l) < i /\ i <= SOpl(l),
                 NEW i \in SectionsOf(f), i <= upTo[l]
          PROVE  i <= Unset
      BY <3>4, <3>5
    <3>. QED BY <3>4, <3>5 DEF WordOK
  <2>3. /\ \A l \in Lane : [k \in Lane |-> Stored(k)][l] = SFirst(l)
        /\ \A l \in Lane : [k \in Lane |-> Finished(k)][l] = SFirst(l)
    BY <1>2
  <2>. QED BY <2>1, <2>2, <2>3 DEF FieldsOK
<1>8. CodesOK
  BY <1>3 DEF CodesOK
<1>9. ReportsOK
  <2>1. ASSUME NEW l \in Lane PROVE Reports(l) = {}
    <3>1. SectionReports(l) = {}
      BY <1>1, <1>2, FileType DEF SectionReports
    <3>2. CodeReports(l) = {}
      BY <1>1, <1>2, FileType DEF CodeReports
    <3>3. StructureReports(l) = {}
      BY <1>3 DEF StructureReports
    <3>. QED BY <3>1, <3>2, <3>3 DEF Reports
  <2>. QED BY <1>2, <2>1 DEF ReportsOK, Enumerates
<1>10. DiagsOK
  BY <1>3 DEF DiagsOK
<1>11. main = "starting" /\ done = FALSE
  BY DEF Init
<1>12. \A l \in Lane : EndsOK(l)
  BY <1>1, <1>2, FileType DEF EndsOK
<1>. QED BY <1>4, <1>5, <1>6, <1>7, <1>8, <1>9, <1>10, <1>11, <1>12 DEF RInv

LEMMA StartRInv == ASSUME IInv, RInv, Start PROVE RInv'
<1>1. /\ main = "starting" /\ main' = main /\ count < LaneCount
      /\ point' = [point EXCEPT ![count] = "start"]
      /\ UNCHANGED <<file, stage, items, reported, module, diags, done>>
  BY DEF Start, outVars
<1>2. PICK l \in Lane : l = count
  BY <1>1 DEF IInv, Types, Lane
<1>3. point[l] = "created"
  BY <1>1, <1>2 DEF IInv, MainInv, Lane
<1>4. point'[l] = "start" /\ OneMoves(l)
  BY <1>1, <1>2 DEF IInv, Types, RInv, OneMoves
<1>5. /\ Way' = Way /\ Scanned' = Scanned /\ Decodes' = Decodes
      /\ SFirst(l)' = SFirst(l) /\ SOpl(l)' = SOpl(l)
      /\ CFirst(l)' = CFirst(l) /\ COpl(l)' = COpl(l)
  BY <1>1, FileKept
<1>6. Finished(l)' = Finished(l)
  BY <1>1, <1>3, <1>4, <1>5 DEF Finished, Before
<1>7. Decoded(l)' = Decoded(l)
  BY <1>1, <1>3, <1>4, <1>5 DEF Decoded, Behind
<1>8. Stored(l)' = Stored(l)
  BY <1>1, <1>6 DEF Stored
<1>9. ItemsOK(l)'
  BY <1>4 DEF ItemsOK
<1>10. l = 0 => Prepared' = Prepared /\ Gathered' = Gathered
  BY <1>3, <1>4 DEF Prepared, Gathered, Behind
<1>11. Progress /\ \A m \in Lane : ItemsOK(m)'
  BY <1>4, <1>6, <1>7, <1>8, <1>9, <1>10, ProgressOf
<1>. QED BY <1>1, <1>11, QuietRInv DEF RInv

LEMMA OthersRInv ==
  ASSUME RInv, \/ Wait \/ Join \/ Return \/ UNCHANGED vars
               \/ \E l \in Lane : Panic(l)
  PROVE  RInv'
<1>1. UNCHANGED <<file, point, stage, items, reported, module, diags, done>>
  BY DEF Wait, Join, Return, Panic, vars, mainVars, outVars
<1>2. /\ main' \in {"starting", "joining", "returned", "panicked"}
      /\ main' \in {"joining", "returned"} => done
  BY DEF Wait, Join, Return, Panic, vars, mainVars, RInv
<1>3. /\ Way' = Way /\ Scanned' = Scanned /\ Decodes' = Decodes
      /\ \A l \in Lane : /\ SFirst(l)' = SFirst(l) /\ SOpl(l)' = SOpl(l)
                         /\ CFirst(l)' = CFirst(l) /\ COpl(l)' = COpl(l)
  BY <1>1, FileKept
<1>4. ASSUME NEW l \in Lane
      PROVE  /\ Finished(l)' = Finished(l) /\ Decoded(l)' = Decoded(l) /\ ItemsOK(l)'
             /\ Stored(l)' = Stored(l)
  <2>1. Finished(l)' = Finished(l)
    BY <1>1, <1>3 DEF Finished
  <2>2. Decoded(l)' = Decoded(l)
    BY <1>1, <1>3 DEF Decoded
  <2>3. ItemsOK(l)'
    BY <1>1, <1>3 DEF ItemsOK, RInv
  <2>. QED BY <1>1, <2>1, <2>2, <2>3 DEF Stored
<1>5. Prepared' = Prepared /\ Gathered' = Gathered
  BY <1>1, <1>3 DEF Prepared, Gathered
<1>6. Progress
  BY <1>1, <1>4, <1>5 DEF Progress, Places
<1>. QED BY <1>1, <1>2, <1>4, <1>6, QuietRInv DEF RInv

\* The bodies are decoded when the file has a well formed code section.
LEMMA BodiesAre ==
  ASSUME IInv, NEW l \in Lane, point[l] = "end", stage[l] = "run"
  PROVE  Bodies(l) = IF Decodes THEN Len(file.codes) ELSE 0
<1>1. PathOK("end", "run", Way) /\ ValuesOK(l, "end", "run", local[l], Way) /\ Way \in Ways
  BY AboutLane
<1>2. Way.scan = "true"
  BY <1>1 DEF PathOK
<1>3. local[l].ok = IF Way.code = "false" THEN "true" ELSE Way.structure
  BY <1>1, <1>2 DEF ValuesOK, HasNew, OkAt
<1>4. CodeSection # 0 <=> Way.code = "true"
  BY DEF Way, Truth
<1>. QED BY <1>1, <1>3, <1>4 DEF Bodies, Decodes, Ways

\* The steps that stay at a call or reach it.
LEMMA StageStepRInv ==
  ASSUME IInv, RInv, NEW l \in Lane,
         \/ Begin(l) \/ AllocCtxs(l) \/ ScanPassed(l) \/ SectionsRead(l)
         \/ StructureGood(l) \/ CodesRead(l)
         \/ Store(l) \/ Arrive(l) \/ LeaveFirst(l) \/ Load(l)
  PROVE  RInv'
<1>1. UNCHANGED <<file, main, point, items, reported, module, diags, done>>
  BY DEF Begin, AllocCtxs, ScanPassed, SectionsRead, StructureGood, CodesRead, Store, Arrive,
         LeaveFirst, Load, Reach, mainVars, outVars
<1>2. \E s \in Stage \ {"run", "len"} : stage' = [stage EXCEPT ![l] = s]
  <2>1. CASE \/ Begin(l) \/ AllocCtxs(l) \/ ScanPassed(l) \/ SectionsRead(l)
             \/ StructureGood(l) \/ CodesRead(l)
    <3>1. stage' = [stage EXCEPT ![l] = IF IsValue(point[l]) THEN "store" ELSE "arrive2"]
      BY <2>1 DEF Begin, AllocCtxs, ScanPassed, SectionsRead, StructureGood, CodesRead, Reach
    <3>2. (IF IsValue(point[l]) THEN "store" ELSE "arrive2") \in Stage \ {"run", "len"}
      BY DEF Stage
    <3>. QED BY <3>1, <3>2, Zenon
  <2>2. CASE Store(l) \/ LeaveFirst(l) \/ Load(l)
    BY <2>2 DEF Store, LeaveFirst, Load, Stage
  <2>3. CASE Arrive(l)
    <3>1. stage[l] \in {"arrive1", "arrive2"} /\ stage' = [stage EXCEPT ![l] = Waiting[stage[l]]]
      BY <2>3 DEF Arrive, Waiting
    <3>2. Waiting[stage[l]] \in {"wait1", "wait2"}
      BY <3>1 DEF Waiting
    <3>. QED BY <3>1, <3>2 DEF Stage
  <2>. QED BY <2>1, <2>2, <2>3
<1>3. /\ stage[l] # "len"
      /\ stage[l] = "run" =>
           /\ point[l] \in {"start", "ctxs", "bin_module", "sections", "bin_codes", "end"}
           /\ point[l] = "sections" => ~InRange(l, Len(file.sections))
           /\ point[l] = "end" => ~InRange(l, Bodies(l))
  <2>1. CASE Begin(l) \/ AllocCtxs(l) \/ ScanPassed(l) \/ StructureGood(l)
    BY <2>1 DEF Begin, AllocCtxs, ScanPassed, StructureGood, At
  <2>2. CASE SectionsRead(l) \/ CodesRead(l)
    BY <2>2 DEF SectionsRead, CodesRead, At
  <2>3. CASE Store(l) \/ Arrive(l) \/ LeaveFirst(l) \/ Load(l)
    BY <2>3 DEF Store, Arrive, LeaveFirst, Load, Waiting
  <2>. QED BY <2>1, <2>2, <2>3
<1>4. /\ SFirst(l) \in Nat /\ SOpl(l) \in Nat /\ CFirst(l) \in Nat /\ COpl(l) \in Nat
      /\ items[l] \in Nat /\ ItemsOK(l)
  BY MyRange DEF RInv
<1>5. point[l] = "sections" => SFirst(l) + items[l] = SOpl(l)
  <2>1. ~InRange(l, Len(file.sections)) <=> ~(SFirst(l) + items[l] + 1 <= SOpl(l))
    BY DEF InRange, Item, SFirst, SOpl
  <2>. QED BY <1>3, <1>4, <2>1 DEF ItemsOK
<1>6. point[l] = "end" /\ Decodes => CFirst(l) + items[l] = COpl(l)
  <2>1. ASSUME point[l] = "end", Decodes, stage[l] = "run" PROVE CFirst(l) + items[l] = COpl(l)
    <3>1. ~InRange(l, Len(file.codes))
      BY <1>3, <2>1, BodiesAre
    <3>2. ~(CFirst(l) + items[l] + 1 <= COpl(l))
      BY <3>1 DEF InRange, Item, CFirst, COpl
    <3>. QED BY <1>4, <2>1, <3>2 DEF ItemsOK
  <2>. QED BY <1>4, <2>1 DEF ItemsOK
<1>7. Progress /\ (\A m \in Lane : ItemsOK(m)') /\ items' \in [Lane -> Nat]
  <2>1. PICK s \in Stage \ {"run", "len"} : stage' = [stage EXCEPT ![l] = s]
    BY <1>2
  <2>2. l = 0 /\ point[l] \in {"code_ok", "diags"} => stage[l] # "run"
    BY <1>3
  <2>. QED BY <1>1, <1>3, <1>5, <1>6, <2>1, <2>2, StageQuiet
<1>. QED BY <1>1, <1>7, QuietRInv DEF RInv

\* The steps that go on, except the last.
LEMMA GoStepRInv ==
  ASSUME IInv, RInv, NEW l \in Lane,
         ScanFailed(l) \/ NoCode(l) \/ StructureBad(l) \/ Leave(l)
  PROVE  RInv'
<1>1. UNCHANGED <<file, main, reported, module, diags, done>>
  BY DEF ScanFailed, NoCode, StructureBad, Leave, mainVars, outVars
<1>2. IInv'
  BY GoToHolds, LeaveHolds
<1>3. /\ PathOK(point[l], stage[l], Way) /\ ValuesOK(l, point[l], stage[l], local[l], Way)
      /\ Way \in Ways
  BY AboutLane
<1>4. PICK p \in Point :
        /\ GoTo(l, p)
        /\ \/ stage[l] = "wait2" /\ p = After[point[l]]
           \/ point[l] = "bin_module" /\ stage[l] = "run" /\ p = "exit" /\ Way.scan = "false"
           \/ point[l] = "code_ok" /\ stage[l] = "run" /\ p = "end" /\ Way.code = "false"
           \/ point[l] = "bin_codes" /\ stage[l] = "run" /\ p = "end" /\ Way.structure = "false"
  <2>1. CASE ScanFailed(l)
    <3>1. Way.scan = "false"
      BY <1>3, <2>1 DEF ScanFailed, At, ValuesOK, HasNew, OkAt
    <3>. QED BY <2>1, <3>1 DEF ScanFailed, At, Point
  <2>2. CASE NoCode(l)
    <3>1. Way.code = "false"
      BY <2>2 DEF NoCode, Way, Truth
    <3>. QED BY <2>2, <3>1 DEF NoCode, At, Point, After
  <2>3. CASE StructureBad(l)
    <3>1. Way.structure = "false"
      BY <1>3, <2>3 DEF StructureBad, At, ValuesOK, HasNew, OkAt
    <3>. QED BY <2>3, <3>1 DEF StructureBad, At, Point, After
  <2>4. CASE Leave(l)
    <3>1. stage[l] = "wait2" /\ GoTo(l, After[point[l]])
      BY <2>4 DEF Leave
    <3>2. point[l] \in DOMAIN After
      BY <1>3, <3>1 DEF PathOK
    <3>3. After[point[l]] \in Point
      BY <3>2 DEF After, Point
    <3>. QED BY <3>1, <3>3
  <2>. QED BY <2>1, <2>2, <2>3, <2>4
<1>5. point'[l] = p /\ stage'[l] = "run" /\ Way' = Way
  BY <1>1, <1>4, WayKept DEF GoTo, IInv, Types
<1>6. PathOK(p, "run", Way)
  BY <1>2, <1>5 DEF IInv, LaneOK
<1>7. Progress /\ (\A m \in Lane : ItemsOK(m)') /\ items' \in [Lane -> Nat]
  BY <1>1, <1>4, <1>6, GoQuiet
<1>. QED BY <1>1, <1>7, QuietRInv DEF RInv

LEMMA SignalRInv == ASSUME IInv, RInv, NEW l \in Lane, Signal(l) PROVE RInv'
<1>1. /\ UNCHANGED <<file, main, reported, module, diags>> /\ done' = (done \/ l = 0)
      /\ point[l] = "signal" /\ stage[l] = "run" /\ GoTo(l, "exit")
  BY DEF Signal, At, mainVars
<1>2. Scanned
  BY <1>1, AboutLane DEF PathOK, Scanned
<1>3. "exit" \in Point /\ PathOK("exit", "run", Way)
  BY DEF Point, PathOK
<1>4. Progress /\ (\A m \in Lane : ItemsOK(m)') /\ items' \in [Lane -> Nat]
  BY <1>1, <1>3, GoQuiet
<1>5. FieldsOK' /\ CodesOK' /\ \A m \in Lane : EndsOK(m)'
  BY <1>1, <1>4, FieldsKept, CodesKept, EndsKept DEF RInv, Progress, Places
<1>6. \A m \in Lane : Reports(m)' = Reports(m)
  BY <1>4, ReportsKept DEF Progress, Places
<1>7. Scanned' = Scanned
  BY <1>1, FileKept
<1>8. ReportsOK'
  BY <1>1, <1>6, <1>7 DEF RInv, ReportsOK
<1>9. DiagsOK'
  <2>1. (UNION {Reports(m) : m \in Lane})' = UNION {Reports(m) : m \in Lane}
    BY <1>6
  <2>. QED BY <1>1, <1>4, <2>1 DEF RInv, DiagsOK, Progress
<1>10. done' \in BOOLEAN /\ (done => done')
  BY <1>1, Zenon DEF RInv
<1>. QED BY <1>1, <1>2, <1>4, <1>5, <1>7, <1>8, <1>9, <1>10 DEF RInv

-----------------------------------------------------------------------------
(* The steps that read *)

\* While a lane reads, lane 0 has not collected the diagnostics.
LEMMA NotGathered ==
  ASSUME IInv, NEW l \in Lane, point[l] \in {"sections", "code_ok", "end"},
         stage[l] \in {"run", "len"}
  PROVE  ~Gathered
<1>. SUFFICES ASSUME Gathered PROVE FALSE
  OBVIOUS
<1>1. Call(l) = Coming(point[l], Way) /\ Call(l) = Call(0) /\ 0 \in Lane
  BY LanesFinite DEF Call, CallOf, IInv, SameNext
<1>2. Coming(point[l], Way) \in {<<"sections", 2>>, <<"code_ok", 1>>, <<"end", 2>>}
  BY DEF Coming
<1>3. PathOK(point[0], stage[0], Way) /\ stage[0] \in Stage
  BY <1>1, AboutLane
<1>4. Call(0) \in {<<"exit", 2>>, <<"diags", 2>>}
  <2>1. CASE point[0] \in {"signal", "exit"}
    <3>1. stage[0] = "run"
      BY <1>3, <2>1 DEF PathOK, After
    <3>. QED BY <2>1, <3>1 DEF Call, CallOf, Coming
  <2>2. CASE point[0] = "diags" /\ stage[0] # "run"
    <3>1. stage[0] \in {"arrive2", "wait2"}
      BY <1>3, <2>2 DEF PathOK, IsValue, ValueOf, Stage
    <3>. QED BY <2>2, <3>1 DEF Call, CallOf, Coming, After
  <2>. QED BY <2>1, <2>2 DEF Gathered
<1>. QED BY <1>1, <1>2, <1>4

\* Before the bodies, no lane has decoded one.
LEMMA NoneDecoded ==
  ASSUME IInv, NEW l \in Lane, At(l, "code_ok"), CodeSection # 0, NEW m \in Lane
  PROVE  point[m] \notin {"end"} \cup Behind
<1>. SUFFICES ASSUME point[m] \in {"end"} \cup Behind PROVE FALSE
  OBVIOUS
<1>1. Call(l) = Call(m) /\ Way.code = "true"
  BY DEF IInv, SameNext, Way, Truth
<1>2. Call(l) = <<"code_ok", 1>>
  BY <1>1 DEF At, Call, CallOf, Coming
<1>3. PathOK(point[m], stage[m], Way) /\ stage[m] \in Stage
  BY AboutLane
<1>4. stage[m] \in {"run", "arrive2", "wait2"}
  BY <1>3 DEF Behind, PathOK, IsValue, ValueOf, Stage
<1>5. Call(m) # <<"code_ok", 1>>
  <2>1. CASE point[m] \in {"end", "diags"}
    BY <1>4, <2>1 DEF Call, CallOf, Coming, After
  <2>2. CASE point[m] \in {"signal", "exit"}
    <3>1. stage[m] = "run"
      BY <1>3, <2>2 DEF PathOK, After
    <3>. QED BY <2>2, <3>1 DEF Call, CallOf, Coming
  <2>. QED BY <2>1, <2>2 DEF Behind
<1>. QED BY <1>1, <1>2, <1>5

LEMMA CodeSectionNat == ASSUME IInv PROVE CodeSection \in Nat
<1>. DEFINE code == {i \in 1 .. Len(file.sections) : file.sections[i].kind = "Code"}
<1>1. CodeSection = IF code = {} THEN 0 ELSE CHOOSE i \in code : \A j \in code : j <= i
  BY DEF CodeSection
<1>2. code \in SUBSET (1 .. Len(file.sections)) /\ Len(file.sections) \in Nat
  BY FileType
<1>. HIDE DEF code
<1>3. ASSUME code # {} PROVE CodeSection \in code
  <2>1. \E i \in code : \A j \in code : j <= i
    BY <1>2, <1>3, GreatestNat
  <2>. QED BY <1>1, <1>3, <2>1
<1>4. code = {} => CodeSection = 0
  BY <1>1
<1>5. \A i \in code : i \in Nat
  BY <1>2
<1>. QED BY <1>3, <1>4, <1>5

\* One lane reports an error, or none does.
LEMMA ReportsGrow ==
  ASSUME RInv, UNCHANGED file, NEW l \in Lane, NEW x \in Part, NEW b, Report(l, b, x),
         \A m \in Lane \ {l} : Reports(m)' = Reports(m),
         Scanned => Reports(l)' = IF b THEN Reports(l) \cup {x} ELSE Reports(l),
         b => x \notin Reports(l)
  PROVE  ReportsOK' /\ reported' \in [Lane -> Seq(Part)]
<1>1. reported \in [Lane -> Seq(Part)] /\ Scanned' = Scanned
  BY FileKept DEF RInv
<1>2. CASE b
  <2>1. reported' = [reported EXCEPT ![l] = Append(reported[l], x)]
    BY <1>2 DEF Report
  <2>2. reported' \in [Lane -> Seq(Part)] /\ reported'[l] = Append(reported[l], x)
        /\ \A m \in Lane \ {l} : reported'[m] = reported[m]
    BY <1>1, <2>1
  <2>3. ASSUME Scanned PROVE Enumerates(Append(reported[l], x), Reports(l)')
    <3>1. Enumerates(reported[l], Reports(l)) /\ x \notin Reports(l)
      BY <1>2, <2>3 DEF RInv, ReportsOK
    <3>2. Enumerates(Append(reported[l], x), Reports(l) \cup {x})
      BY <1>1, <3>1, AppendEnum
    <3>. QED BY <1>2, <2>3, <3>2
  <2>4. ASSUME Scanned, NEW m \in Lane \ {l} PROVE Enumerates(reported[m], Reports(m)')
    BY <2>4 DEF RInv, ReportsOK
  <2>. QED BY <1>1, <2>2, <2>3, <2>4 DEF ReportsOK
<1>3. CASE ~b
  <2>1. reported' = reported
    BY <1>3 DEF Report
  <2>2. ASSUME Scanned, NEW m \in Lane PROVE Enumerates(reported[m], Reports(m)')
    BY <1>3, <2>2 DEF RInv, ReportsOK
  <2>. QED BY <1>1, <2>1, <2>2 DEF ReportsOK
<1>. QED BY <1>2, <1>3

LEMMA ScanRInv == ASSUME IInv, RInv, NEW l \in Lane, Scan(l) PROVE RInv'
<1>1. /\ point[l] = "scan_ok" /\ stage[l] = "run" /\ Reach(l)
      /\ UNCHANGED <<file, main, diags, done>>
  BY DEF Scan, At, mainVars
<1>2. stage' = [stage EXCEPT ![l] = "store"] /\ UNCHANGED <<point, items>>
  BY <1>1 DEF Reach, IsValue, ValueOf
<1>3. Progress /\ (\A m \in Lane : ItemsOK(m)') /\ items' \in [Lane -> Nat]
  BY <1>1, <1>2, StageQuiet DEF Stage
<1>4. CASE l # 0
  <2>1. UNCHANGED <<module, reported>>
    BY <1>4 DEF Scan
  <2>. QED BY <1>1, <1>3, <2>1, QuietRInv DEF RInv
<1>5. CASE l = 0
  <2>1. /\ module' = [module EXCEPT !.version = file.version]
        /\ Report(l, ~file.scan, <<"scan", 0>>)
    BY <1>5 DEF Scan
  <2>2. module' \in ModuleRecord /\ module'.field = module.field /\ module'.codes = module.codes
    <3>1. module \in ModuleRecord /\ file.version \in Nat
      BY FileType DEF RInv
    <3>. QED BY <2>1, <3>1 DEF ModuleRecord
  <2>3. FieldsOK' /\ CodesOK' /\ \A m \in Lane : EndsOK(m)'
    BY <1>3, <2>2, FieldsKept, CodesKept, EndsKept DEF RInv, Progress, Places
  <2>4. \A m \in Lane : Reports(m)' = Reports(m)
    BY <1>3, ReportsKept DEF Progress, Places
  <2>5. Scanned' = Scanned /\ (Scanned <=> file.scan)
    BY <1>1, FileKept DEF Scanned, Way, Truth
  <2>6. reported' \in [Lane -> Seq(Part)]
    <3>1. <<"scan", 0>> \in Part /\ reported \in [Lane -> Seq(Part)]
      BY DEF Part, RInv
    <3>2. Append(reported[l], <<"scan", 0>>) \in Seq(Part)
      BY <3>1
    <3>. QED BY <2>1, <3>1, <3>2 DEF Report
  <2>7. ReportsOK'
    <3>1. Scanned => reported' = reported
      BY <2>1, <2>5 DEF Report
    <3>. QED BY <2>4, <2>5, <3>1 DEF RInv, ReportsOK
  <2>8. DiagsOK'
    <3>1. (UNION {Reports(m) : m \in Lane})' = UNION {Reports(m) : m \in Lane}
      BY <2>4
    <3>. QED BY <1>1, <1>3, <3>1 DEF RInv, DiagsOK, Progress
  <2>. QED BY <1>1, <1>3, <2>2, <2>3, <2>5, <2>6, <2>7, <2>8 DEF RInv
<1>. QED BY <1>4, <1>5

\* The word of a field when lane l has come to section i, its next.
LEMMA WordAdvance ==
  ASSUME IInv, NEW l \in Lane, NEW f, NEW w, NEW x, NEW u, NEW v,
         NEW i \in 1 .. Len(file.sections), WordOK(f, w, u),
         SFirst(l) < i, i <= SOpl(l), u[l] = i - 1, v[l] = i,
         \A m \in Lane \ {l} : v[m] = u[m],
         x = IF i \in SectionsOf(f) THEN i ELSE w
  PROVE  WordOK(f, x, v)
<1>1. /\ \A j \in SectionsOf(f) : j \in 1 .. Len(file.sections) /\ j \in Nat
      /\ i \in Nat /\ i # 0 /\ Len(file.sections) \in Nat
  BY FileType DEF SectionsOf
<1>2. /\ w = Unset \/ w \in SectionsOf(f)
      /\ \A m \in Lane, j \in SectionsOf(f) : SFirst(m) < j /\ j <= u[m] => w # Unset
      /\ \A m \in Lane :
           (\A j \in SectionsOf(f) : SFirst(m) < j /\ j <= SOpl(m)) =>
              \A j \in SectionsOf(f) : j <= u[m] => j <= w
  BY DEF WordOK
<1>3. CASE i \in SectionsOf(f)
  <2>1. x = i /\ x # Unset
    BY <1>1, <1>3 DEF Unset
  <2>2. ASSUME NEW m \in Lane, \A j \in SectionsOf(f) : SFirst(m) < j /\ j <= SOpl(m),
               NEW j \in SectionsOf(f), j <= v[m]
        PROVE  j <= x
    <3>1. SFirst(m) < i /\ i <= SOpl(m)
      BY <1>3, <2>2
    <3>2. m = l
      BY <1>1, <3>1, NoTwoLanes DEF SFirst, SOpl
    <3>. QED BY <2>1, <2>2, <3>2
  <2>. QED BY <1>3, <2>1, <2>2 DEF WordOK
<1>4. CASE i \notin SectionsOf(f)
  <2>1. x = w
    BY <1>4
  <2>2. ASSUME NEW m \in Lane, NEW j \in SectionsOf(f), j <= v[m] PROVE j <= u[m]
    <3>1. CASE m = l
      BY <1>1, <1>4, <2>2, <3>1
    <3>2. CASE m # l
      BY <2>2, <3>2
    <3>. QED BY <3>1, <3>2
  <2>3. \A m \in Lane, j \in SectionsOf(f) : SFirst(m) < j /\ j <= v[m] => x # Unset
    BY <1>2, <2>1, <2>2
  <2>4. \A m \in Lane :
          (\A j \in SectionsOf(f) : SFirst(m) < j /\ j <= SOpl(m)) =>
             \A j \in SectionsOf(f) : j <= v[m] => j <= x
    BY <1>2, <2>1, <2>2
  <2>. QED BY <1>2, <2>1, <2>3, <2>4 DEF WordOK
<1>. QED BY <1>3, <1>4

LEMMA WordKept ==
  ASSUME UNCHANGED file, NEW f, NEW w, NEW u, WordOK(f, w, u)
  PROVE  WordOK(f, w, u)'
<1>1. \A l \in Lane : SFirst(l)' = SFirst(l) /\ SOpl(l)' = SOpl(l)
  BY FileKept
<1>2. SectionsOf(f)' = SectionsOf(f)
  BY DEF SectionsOf
<1>. QED BY <1>1, <1>2 DEF WordOK

\* The section lane l reads next.
LEMMA NextSection ==
  ASSUME IInv, RInv, NEW l \in Lane, point[l] = "sections",
         \/ stage[l] = "run" /\ InRange(l, Len(file.sections))
         \/ stage[l] = "len",
         NEW i, i = Item(l, Len(file.sections))
  PROVE  /\ i \in 1 .. Len(file.sections) /\ i \in Nat /\ items[l] \in Nat
         /\ SFirst(l) < i /\ i <= SOpl(l) /\ SFirst(l) + items[l] = i - 1
         /\ SFirst(l) + (items[l] + 1) = i
         /\ SFirst(l) \in Nat /\ SOpl(l) \in Nat
         /\ file.sections[i].kind \in Kind
<1>1. i = SFirst(l) + items[l] + 1
  BY DEF Item, SFirst
<1>2. /\ SFirst(l) \in Nat /\ SOpl(l) \in Nat /\ SOpl(l) <= Len(file.sections)
      /\ items[l] \in Nat /\ ItemsOK(l) /\ Len(file.sections) \in Nat
  BY MyRange, FileType DEF RInv
<1>3. InRange(l, Len(file.sections)) => SFirst(l) + items[l] + 1 <= SOpl(l)
  BY DEF InRange, Item, SFirst, SOpl
<1>4. SFirst(l) + items[l] < SOpl(l)
  BY <1>2, <1>3 DEF ItemsOK
<1>5. i \in 1 .. Len(file.sections)
  BY <1>1, <1>2, <1>4
<1>6. file.sections[i].kind \in Kind
  <2>1. file.sections \in Seq([kind : Kind, bad : BOOLEAN, ends : Ending])
    BY FileType
  <2>2. file.sections[i] \in [kind : Kind, bad : BOOLEAN, ends : Ending]
    BY <1>5, <2>1, ElementOf
  <2>. QED BY <2>2
<1>. QED BY <1>1, <1>2, <1>4, <1>5, <1>6

LEMMA ReadSectionRInv == ASSUME IInv, RInv, NEW l \in Lane, ReadSection(l) PROVE RInv'
<1>. DEFINE i == Item(l, Len(file.sections))
            k == file.sections[i].kind
            slice == k \in SliceKind
<1>1. /\ point[l] = "sections" /\ stage[l] = "run" /\ InRange(l, Len(file.sections))
      /\ UNCHANGED <<file, main, point, diags, done>>
      /\ SectionReturns(i)
      /\ IF k \in {"Code", "Custom"}
           THEN UNCHANGED <<module, reported>>
           ELSE /\ Report(l, file.sections[i].bad, <<"section", i>>)
                /\ module' = [module EXCEPT
                     !.field[k].data = i,
                     !.field[k].len  = IF k = "Start" THEN i ELSE @]
      /\ IF slice THEN stage' = [stage EXCEPT ![l] = "len"] /\ UNCHANGED items
         ELSE items' = [items EXCEPT ![l] = @ + 1] /\ UNCHANGED stage
  <2>1. SectionReturns(i)
    BY DEF ReadSection, Outcome, ReadsSection, SectionReturns
  <2>. QED BY <2>1 DEF ReadSection, At, mainVars, Skipped
<1>2. /\ i \in 1 .. Len(file.sections) /\ i \in Nat /\ items[l] \in Nat
      /\ SFirst(l) < i /\ i <= SOpl(l) /\ SFirst(l) + items[l] = i - 1
      /\ SFirst(l) + (items[l] + 1) = i
      /\ SFirst(l) \in Nat /\ SOpl(l) \in Nat /\ k \in Kind
  BY <1>1, NextSection
<1>. HIDE DEF i, k, slice
<1>3. /\ Way' = Way /\ Scanned' = Scanned /\ Decodes' = Decodes
      /\ SFirst(l)' = SFirst(l) /\ SOpl(l)' = SOpl(l)
      /\ CFirst(l)' = CFirst(l) /\ COpl(l)' = COpl(l)
  BY <1>1, FileKept
<1>4. /\ stage'[l] = IF slice THEN "len" ELSE "run"
      /\ items'[l] = IF slice THEN items[l] ELSE items[l] + 1
      /\ point'[l] = "sections"
      /\ OneMoves(l)
  <2>1. items \in [Lane -> Nat] /\ stage \in [Lane -> Stage]
    BY DEF RInv, IInv, Types
  <2>2. CASE slice
    <3>1. stage' = [stage EXCEPT ![l] = "len"] /\ items' = items
      BY <1>1, <2>2
    <3>. QED BY <1>1, <2>1, <2>2, <3>1 DEF OneMoves
  <2>3. CASE ~slice
    <3>1. items' = [items EXCEPT ![l] = items[l] + 1] /\ stage' = stage
      BY <1>1, <2>3
    <3>. QED BY <1>1, <2>1, <2>3, <3>1 DEF OneMoves
  <2>. QED BY <2>2, <2>3
<1>5. /\ Finished(l) = i - 1 /\ Finished(l)' = IF slice THEN i - 1 ELSE i
      /\ Stored(l) = i - 1 /\ Stored(l)' = i
  <2>1. Finished(l) = i - 1
    BY <1>1, <1>2 DEF Finished
  <2>2. Finished(l)' = IF slice THEN i - 1 ELSE i
    BY <1>2, <1>3, <1>4 DEF Finished
  <2>3. Stored(l) = i - 1
    BY <1>1, <1>2, <2>1 DEF Stored
  <2>4. Stored(l)' = i
    BY <1>2, <1>4, <2>2 DEF Stored
  <2>. QED BY <2>1, <2>2, <2>3, <2>4
<1>6. Decoded(l)' = Decoded(l)
  BY <1>1, <1>3, <1>4 DEF Decoded, Behind
<1>7. ItemsOK(l)'
  BY <1>2, <1>3, <1>4 DEF ItemsOK
<1>8. /\ \A m \in Lane \ {l} : /\ Finished(m)' = Finished(m) /\ Decoded(m)' = Decoded(m)
                               /\ Stored(m)' = Stored(m) /\ ItemsOK(m)'
      /\ Prepared' = Prepared /\ Gathered' = Gathered /\ ~Gathered
  <2>1. /\ \A m \in Lane \ {l} : /\ Finished(m)' = Finished(m) /\ Decoded(m)' = Decoded(m)
                                 /\ Stored(m)' = Stored(m) /\ ItemsOK(m)'
        /\ l # 0 => Prepared' = Prepared /\ Gathered' = Gathered
    BY <1>4, OthersStay
  <2>2. l = 0 => Prepared' = Prepared /\ Gathered' = Gathered
    BY <1>1, <1>4 DEF Prepared, Gathered, Behind
  <2>. QED BY <1>1, <2>1, <2>2, NotGathered
<1>9. /\ module' \in ModuleRecord /\ module'.codes = module.codes
      /\ \A f \in Field :
           /\ module'.field[f].data = IF i \in SectionsOf(f) THEN i ELSE module.field[f].data
           /\ module'.field[f].len = IF ~slice /\ i \in SectionsOf(f) THEN i
                                     ELSE module.field[f].len
  <2>1. module \in ModuleRecord
    BY DEF RInv
  <2>2. \A f : i \in SectionsOf(f) <=> k = f
    BY <1>2 DEF SectionsOf, k
  <2>3. CASE k \in {"Code", "Custom"}
    <3>1. module' = module /\ \A f \in Field : k # f
      BY <1>1, <2>3 DEF Field
    <3>. QED BY <2>1, <2>2, <3>1
  <2>4. CASE k \notin {"Code", "Custom"}
    <3>1. k \in Field /\ (slice <=> k # "Start")
      BY <1>2, <2>4 DEF Kind, Field, slice
    <3>. DEFINE g == module.field
                n == IF k = "Start" THEN i ELSE g[k].len
    <3>2. /\ g \in [Field -> [data : Nat, len : Nat]] /\ n \in Nat
          /\ module = [version |-> module.version, codes |-> module.codes, field |-> g]
          /\ module.version \in Nat /\ module.codes \in Seq(Nat)
      BY <1>2, <2>1, <3>1 DEF ModuleRecord
    <3>3. module' = [module EXCEPT !.field = [g EXCEPT ![k] = [data |-> i, len |-> n]]]
      <4>1. g[k] = [data |-> g[k].data, len |-> g[k].len]
        BY <3>1, <3>2
      <4>2. module' = [[module EXCEPT !.field = [g EXCEPT ![k] = [g[k] EXCEPT !.data = i]]]
                         EXCEPT !.field[k].len = n]
        BY <1>1, <2>4, <3>1, <3>2
      <4>3. [g[k] EXCEPT !.data = i] = [data |-> i, len |-> g[k].len]
        BY <4>1
      <4>. DEFINE h == [g EXCEPT ![k] = [data |-> i, len |-> g[k].len]]
      <4>4. module' = [[module EXCEPT !.field = h] EXCEPT !.field[k].len = n]
        BY <4>2, <4>3
      <4>5. [module EXCEPT !.field = h].field = h /\ h[k] = [data |-> i, len |-> g[k].len]
        BY <3>1, <3>2
      <4>6. module' = [module EXCEPT !.field = [h EXCEPT ![k] = [h[k] EXCEPT !.len = n]]]
        <5>. HIDE DEF h, n, g
        <5>. QED BY <3>2, <4>4, <4>5
      <4>7. [h[k] EXCEPT !.len = n] = [data |-> i, len |-> n]
        BY <4>5
      <4>8. [h EXCEPT ![k] = [h[k] EXCEPT !.len = n]] = [g EXCEPT ![k] = [data |-> i, len |-> n]]
        <5>. HIDE DEF n, g
        <5>. QED BY <3>1, <3>2, <4>7
      <4>. QED BY <4>6, <4>8
    <3>4. /\ module'.field = [g EXCEPT ![k] = [data |-> i, len |-> n]]
          /\ module'.codes = module.codes /\ module'.version = module.version
          /\ module' = [version |-> module.version, codes |-> module.codes,
                        field |-> [g EXCEPT ![k] = [data |-> i, len |-> n]]]
      BY <3>2, <3>3
    <3>5. [g EXCEPT ![k] = [data |-> i, len |-> n]] \in [Field -> [data : Nat, len : Nat]]
      BY <1>2, <3>2
    <3>6. module' \in ModuleRecord
      BY <3>2, <3>4, <3>5 DEF ModuleRecord
    <3>7. ASSUME NEW f \in Field
          PROVE  /\ module'.field[f].data = IF k = f THEN i ELSE module.field[f].data
                 /\ module'.field[f].len = IF ~slice /\ k = f THEN i ELSE module.field[f].len
      <4>1. CASE f = k
        BY <3>1, <3>2, <3>4, <4>1
      <4>2. CASE f # k
        BY <3>1, <3>2, <3>4, <4>2
      <4>. QED BY <4>1, <4>2
    <3>. QED BY <2>2, <3>4, <3>6, <3>7
  <2>. QED BY <2>3, <2>4
<1>10. FieldsOK'
  <2>. DEFINE st == [m \in Lane |-> Stored(m)]
              fi == [m \in Lane |-> Finished(m)]
  <2>1. /\ st[l] = i - 1 /\ st'[l] = i /\ \A m \in Lane \ {l} : st'[m] = st[m]
    BY <1>5, <1>8
  <2>2. CASE slice
    <3>1. fi' = fi
      <4>1. \A m \in Lane : Finished(m)' = Finished(m)
        BY <1>5, <1>8, <2>2
      <4>. QED BY <4>1
    <3>. HIDE DEF st, fi
    <3>2. ASSUME NEW f \in Field
          PROVE  /\ WordOK(f, module'.field[f].data, st')
                 /\ WordOK(f, module'.field[f].len, fi')
      <4>1. /\ WordOK(f, module.field[f].data, st)
            /\ WordOK(f, module.field[f].len, fi)
        BY DEF RInv, FieldsOK, st, fi
      <4>2. WordOK(f, module'.field[f].data, st')
        BY <1>2, <1>9, <2>1, <4>1, WordAdvance
      <4>. QED BY <1>9, <2>2, <3>1, <4>1, <4>2
    <3>3. ASSUME NEW f \in Field
          PROVE  WordOK(f, module.field[f].data, st)' /\ WordOK(f, module.field[f].len, fi)'
      BY <1>1, <3>2, WordKept
    <3>. QED BY <3>3 DEF FieldsOK, st, fi
  <2>3. CASE ~slice
    <3>1. fi[l] = i - 1 /\ fi'[l] = i /\ \A m \in Lane \ {l} : fi'[m] = fi[m]
      BY <1>5, <1>8, <2>3
    <3>. HIDE DEF st, fi
    <3>2. ASSUME NEW f \in Field
          PROVE  /\ WordOK(f, module'.field[f].data, st')
                 /\ WordOK(f, module'.field[f].len, fi')
      <4>1. /\ WordOK(f, module.field[f].data, st)
            /\ WordOK(f, module.field[f].len, fi)
        BY DEF RInv, FieldsOK, st, fi
      <4>2. WordOK(f, module'.field[f].data, st')
        BY <1>2, <1>9, <2>1, <4>1, WordAdvance
      <4>3. module'.field[f].len = IF i \in SectionsOf(f) THEN i ELSE module.field[f].len
        BY <1>9, <2>3
      <4>4. WordOK(f, module'.field[f].len, fi')
        BY <1>2, <3>1, <4>1, <4>3, WordAdvance
      <4>. QED BY <4>2, <4>4
    <3>3. ASSUME NEW f \in Field
          PROVE  WordOK(f, module.field[f].data, st)' /\ WordOK(f, module.field[f].len, fi)'
      BY <1>1, <3>2, WordKept
    <3>. QED BY <3>3 DEF FieldsOK, st, fi
  <2>. QED BY <2>2, <2>3
<1>11. CodesOK'
  <2>1. \A m \in Lane : Decoded(m)' = Decoded(m) /\ CFirst(m)' = CFirst(m)
    BY <1>1, <1>6, <1>8, FileKept
  <2>. QED BY <1>1, <1>3, <1>8, <1>9, <2>1 DEF RInv, CodesOK
<1>12. ReportsOK' /\ reported' \in [Lane -> Seq(Part)]
  <2>1. Report(l, BadSection(i), <<"section", i>>)
    BY <1>1 DEF Report, BadSection, Skipped, k
  <2>2. \A m \in Lane \ {l} : Reports(m)' = Reports(m)
    BY <1>1, <1>8, ReportsKept
  <2>3. Reports(l)' = IF BadSection(i) THEN Reports(l) \cup {<<"section", i>>} ELSE Reports(l)
    <3>1. CodeReports(l)' = CodeReports(l) /\ StructureReports(l)' = StructureReports(l)
      BY <1>1, <1>6, <1>8, PartsKept
    <3>2. \A j : BadSection(j)' = BadSection(j)
      BY <1>1 DEF BadSection, Skipped
    <3>3. \A j \in 1 .. Len(file.sections) :
            SFirst(l) < j /\ j <= i <=> (SFirst(l) < j /\ j <= i - 1) \/ j = i
      BY <1>2, FileType
    <3>4. SectionReports(l)' = {<<"section", n>> : n \in {j \in 1 .. Len(file.sections) :
                                  SFirst(l) < j /\ j <= i /\ BadSection(j)}}
      BY <1>1, <1>3, <1>5, <3>2 DEF SectionReports
    <3>5. SectionReports(l) = {<<"section", n>> : n \in {j \in 1 .. Len(file.sections) :
                                  SFirst(l) < j /\ j <= i - 1 /\ BadSection(j)}}
      BY <1>5 DEF SectionReports
    <3>6. SectionReports(l)' =
            SectionReports(l) \cup (IF BadSection(i) THEN {<<"section", i>>} ELSE {})
      BY <1>2, <3>3, <3>4, <3>5
    <3>. QED BY <3>1, <3>6 DEF Reports
  <2>4. <<"section", i>> \notin Reports(l)
    <3>1. <<"section", i>> \notin SectionReports(l)
      BY <1>2, <1>5 DEF SectionReports
    <3>. QED BY <3>1 DEF Reports, CodeReports, StructureReports
  <2>5. <<"section", i>> \in Part
    BY <1>2 DEF Part
  <2>. QED BY <1>1, <2>1, <2>2, <2>3, <2>4, <2>5, ReportsGrow
<1>13. DiagsOK'
  BY <1>8 DEF DiagsOK
<1>14. items' \in [Lane -> Nat]
  BY <1>4 DEF OneMoves
<1>15. \A m \in Lane : EndsOK(m)'
  <2>1. \A m \in Lane \ {l} : EndsOK(m)'
    BY <1>1, <1>8, EndsKept DEF RInv
  <2>2. /\ \A j \in 1 .. Len(file.sections) : SFirst(l) < j /\ j <= i - 1 => SectionReturns(j)
        /\ \A j \in 1 .. Len(file.codes) :
             CFirst(l) < j /\ j <= Decoded(l) => file.codes[j].ends = "returns"
    BY <1>5 DEF RInv, EndsOK
  <2>3. \A j \in 1 .. Len(file.sections) : j <= i => j <= i - 1 \/ j = i
    BY <1>2, FileType
  <2>4. \A j \in 1 .. Len(file.sections) : SFirst(l) < j /\ j <= i => SectionReturns(j)
    BY <1>1, <2>2, <2>3, Zenon
  <2>5. \A j : SectionReturns(j)' = SectionReturns(j)
    BY <1>1 DEF SectionReturns
  <2>6. EndsOK(l)'
    BY <1>1, <1>3, <1>5, <1>6, <2>2, <2>4, <2>5 DEF EndsOK
  <2>. QED BY <2>1, <2>6
<1>. QED BY <1>1, <1>3, <1>7, <1>8, <1>9, <1>10, <1>11, <1>12, <1>13, <1>14, <1>15 DEF RInv

LEMMA StoreLenRInv == ASSUME IInv, RInv, NEW l \in Lane, StoreLen(l) PROVE RInv'
<1>. DEFINE i == Item(l, Len(file.sections))
            k == file.sections[i].kind
<1>1. /\ stage[l] = "len" /\ UNCHANGED <<file, main, point, reported, diags, done>>
      /\ module' = [module EXCEPT !.field[k].len = i]
      /\ stage' = [stage EXCEPT ![l] = "run"] /\ items' = [items EXCEPT ![l] = @ + 1]
  BY DEF StoreLen, mainVars
<1>2. point[l] = "sections"
  BY <1>1, AboutLane DEF PathOK
<1>3. /\ i \in 1 .. Len(file.sections) /\ i \in Nat /\ items[l] \in Nat
      /\ SFirst(l) < i /\ i <= SOpl(l) /\ SFirst(l) + items[l] = i - 1
      /\ SFirst(l) + (items[l] + 1) = i
      /\ SFirst(l) \in Nat /\ SOpl(l) \in Nat
  BY <1>1, <1>2, NextSection
<1>4. \A f : i \in SectionsOf(f) <=> k = f
  BY <1>3 DEF SectionsOf
<1>. HIDE DEF i, k
<1>5. /\ Way' = Way /\ Scanned' = Scanned /\ Decodes' = Decodes
      /\ SFirst(l)' = SFirst(l) /\ SOpl(l)' = SOpl(l)
      /\ CFirst(l)' = CFirst(l) /\ COpl(l)' = COpl(l)
  BY <1>1, FileKept
<1>6. /\ stage'[l] = "run" /\ items'[l] = items[l] + 1 /\ point'[l] = "sections"
      /\ OneMoves(l)
  <2>1. items \in [Lane -> Nat] /\ stage \in [Lane -> Stage]
    BY DEF RInv, IInv, Types
  <2>. QED BY <1>1, <1>2, <2>1 DEF OneMoves
<1>7. Finished(l) = i - 1 /\ Finished(l)' = i /\ Stored(l) = i /\ Stored(l)' = i
  <2>1. Finished(l) = i - 1
    BY <1>2, <1>3 DEF Finished
  <2>2. Finished(l)' = i
    BY <1>3, <1>5, <1>6 DEF Finished
  <2>3. Stored(l) = i
    BY <1>1, <1>3, <2>1 DEF Stored
  <2>4. Stored(l)' = i
    BY <1>3, <1>6, <2>2 DEF Stored
  <2>. QED BY <2>1, <2>2, <2>3, <2>4
<1>8. Decoded(l)' = Decoded(l)
  BY <1>2, <1>5, <1>6 DEF Decoded, Behind
<1>9. ItemsOK(l)'
  BY <1>3, <1>5, <1>6 DEF ItemsOK
<1>10. /\ \A m \in Lane \ {l} : /\ Finished(m)' = Finished(m) /\ Decoded(m)' = Decoded(m)
                                /\ Stored(m)' = Stored(m) /\ ItemsOK(m)'
       /\ Prepared' = Prepared /\ Gathered' = Gathered /\ ~Gathered
  <2>1. /\ \A m \in Lane \ {l} : /\ Finished(m)' = Finished(m) /\ Decoded(m)' = Decoded(m)
                                 /\ Stored(m)' = Stored(m) /\ ItemsOK(m)'
        /\ l # 0 => Prepared' = Prepared /\ Gathered' = Gathered
    BY <1>6, OthersStay
  <2>2. l = 0 => Prepared' = Prepared /\ Gathered' = Gathered
    BY <1>2, <1>6 DEF Prepared, Gathered, Behind
  <2>. QED BY <1>1, <1>2, <2>1, <2>2, NotGathered
<1>11. /\ module' \in ModuleRecord /\ module'.codes = module.codes
       /\ \A f \in Field :
            /\ module'.field[f].data = module.field[f].data
            /\ module'.field[f].len = IF i \in SectionsOf(f) THEN i ELSE module.field[f].len
  <2>. DEFINE g == module.field
  <2>1. /\ g \in [Field -> [data : Nat, len : Nat]]
        /\ module = [version |-> module.version, codes |-> module.codes, field |-> g]
        /\ module.version \in Nat /\ module.codes \in Seq(Nat)
    BY DEF RInv, ModuleRecord
  <2>2. module' = [module EXCEPT !.field = [g EXCEPT ![k] = [g[k] EXCEPT !.len = i]]]
    BY <1>1, <2>1
  <2>3. /\ module'.field = [g EXCEPT ![k] = [g[k] EXCEPT !.len = i]]
        /\ module'.codes = module.codes
        /\ module' = [version |-> module.version, codes |-> module.codes,
                      field |-> [g EXCEPT ![k] = [g[k] EXCEPT !.len = i]]]
    BY <2>1, <2>2
  <2>4. \A f \in Field : g[f] \in [data : Nat, len : Nat]
    BY <2>1
  <2>5. [g EXCEPT ![k] = [g[k] EXCEPT !.len = i]] \in [Field -> [data : Nat, len : Nat]]
    <3>1. k \in Field => [g[k] EXCEPT !.len = i] \in [data : Nat, len : Nat]
      BY <1>3, <2>4
    <3>. HIDE DEF g
    <3>. QED BY <2>1, <3>1
  <2>6. module' \in ModuleRecord
    BY <2>1, <2>3, <2>5 DEF ModuleRecord
  <2>7. ASSUME NEW f \in Field
        PROVE  /\ module'.field[f].data = module.field[f].data
               /\ module'.field[f].len = IF k = f THEN i ELSE module.field[f].len
    <3>1. CASE f = k
      <4>1. module'.field[f] = [g[f] EXCEPT !.len = i]
        BY <2>1, <2>3, <3>1
      <4>2. g[f] \in [data : Nat, len : Nat]
        BY <2>4
      <4>. QED BY <3>1, <4>1, <4>2
    <3>2. CASE f # k
      BY <2>1, <2>3, <3>2
    <3>. QED BY <3>1, <3>2
  <2>. QED BY <1>4, <2>3, <2>6, <2>7
<1>12. FieldsOK'
  <2>. DEFINE st == [m \in Lane |-> Stored(m)]
              fi == [m \in Lane |-> Finished(m)]
  <2>1. fi[l] = i - 1 /\ fi'[l] = i /\ \A m \in Lane \ {l} : fi'[m] = fi[m]
    BY <1>7, <1>10
  <2>2. st' = st
    <3>1. \A m \in Lane : Stored(m)' = Stored(m)
      BY <1>7, <1>10
    <3>. QED BY <3>1
  <2>. HIDE DEF st, fi
  <2>3. ASSUME NEW f \in Field
        PROVE  /\ WordOK(f, module'.field[f].data, st')
               /\ WordOK(f, module'.field[f].len, fi')
    <3>1. /\ WordOK(f, module.field[f].data, st)
          /\ WordOK(f, module.field[f].len, fi)
      BY DEF RInv, FieldsOK, st, fi
    <3>2. WordOK(f, module'.field[f].len, fi')
      BY <1>3, <1>11, <2>1, <3>1, WordAdvance
    <3>. QED BY <1>11, <2>2, <3>1, <3>2
  <2>4. ASSUME NEW f \in Field
        PROVE  WordOK(f, module.field[f].data, st)' /\ WordOK(f, module.field[f].len, fi)'
    BY <1>1, <2>3, WordKept
  <2>. QED BY <2>4 DEF FieldsOK, st, fi
<1>13. CodesOK'
  <2>1. \A m \in Lane : Decoded(m)' = Decoded(m) /\ CFirst(m)' = CFirst(m)
    BY <1>1, <1>8, <1>10, FileKept
  <2>. QED BY <1>1, <1>5, <1>10, <1>11, <2>1 DEF RInv, CodesOK
<1>14. ReportsOK'
  <2>1. \A m \in Lane : Reports(m)' = Reports(m)
    BY <1>1, <1>7, <1>8, <1>10, ReportsKept
  <2>. QED BY <1>1, <1>5, <2>1 DEF RInv, ReportsOK
<1>15. DiagsOK'
  BY <1>10 DEF DiagsOK
<1>16. items' \in [Lane -> Nat]
  BY <1>6 DEF OneMoves
<1>17. \A m \in Lane : EndsOK(m)'
  BY <1>1, <1>7, <1>8, <1>10, EndsKept DEF RInv
<1>. QED BY <1>1, <1>5, <1>9, <1>10, <1>11, <1>12, <1>13, <1>14, <1>15, <1>16, <1>17 DEF RInv

LEMMA ReadStructureRInv == ASSUME IInv, RInv, NEW l \in Lane, ReadStructure(l) PROVE RInv'
<1>1. /\ At(l, "code_ok") /\ point[l] = "code_ok" /\ stage[l] = "run" /\ CodeSection # 0
      /\ UNCHANGED <<file, main, diags, done>> /\ Reach(l)
  BY DEF ReadStructure, At, mainVars
<1>2. stage' = [stage EXCEPT ![l] = "store"] /\ UNCHANGED <<point, items>>
  BY <1>1 DEF Reach, IsValue, ValueOf
<1>3. CASE l # 0
  <2>1. Progress /\ (\A m \in Lane : ItemsOK(m)') /\ items' \in [Lane -> Nat]
    BY <1>1, <1>2, <1>3, StageQuiet DEF Stage
  <2>2. UNCHANGED <<module, reported>>
    BY <1>3 DEF ReadStructure
  <2>. QED BY <1>1, <2>1, <2>2, QuietRInv DEF RInv
<1>4. CASE l = 0
  <2>1. /\ Report(l, ~file.structure, <<"structure", CodeSection>>)
        /\ module' = IF file.structure
                     THEN [module EXCEPT !.codes = [i \in 1 .. Len(file.codes) |-> Unset]]
                     ELSE module
    BY <1>4 DEF ReadStructure
  <2>2. /\ Way' = Way /\ Scanned' = Scanned /\ Decodes' = Decodes /\ CodeSection' = CodeSection
        /\ \A m \in Lane : /\ SFirst(m)' = SFirst(m) /\ SOpl(m)' = SOpl(m)
                           /\ CFirst(m)' = CFirst(m) /\ COpl(m)' = COpl(m)
    BY <1>1, FileKept
  <2>3. stage'[l] = "store" /\ OneMoves(l)
    BY <1>1, <1>2 DEF IInv, Types, OneMoves, RInv
  <2>4. /\ \A m \in Lane \ {l} : /\ Finished(m)' = Finished(m) /\ Decoded(m)' = Decoded(m)
                                 /\ Stored(m)' = Stored(m) /\ ItemsOK(m)'
    BY <2>3, OthersStay
  <2>5. /\ Finished(l)' = Finished(l) /\ Decoded(l)' = Decoded(l) /\ Stored(l)' = Stored(l)
        /\ ItemsOK(l)'
    <3>1. Finished(l)' = Finished(l)
      BY <1>1, <1>2, <2>2 DEF Finished
    <3>2. Decoded(l)' = Decoded(l)
      BY <1>1, <1>2, <2>2 DEF Decoded
    <3>3. Stored(l)' = Stored(l)
      BY <1>1, <2>3, <3>1 DEF Stored
    <3>4. ItemsOK(l)'
      BY <1>1, <1>2 DEF ItemsOK
    <3>. QED BY <3>1, <3>2, <3>3, <3>4
  <2>6. Places
    BY <1>1, <2>4, <2>5 DEF Places
  <2>7. Scanned /\ Way.code = "true" /\ (Way.structure = "true" <=> file.structure)
        /\ (Way.structure = "false" <=> ~file.structure)
    <3>1. Way.scan = "true"
      BY <1>1, AboutLane DEF PathOK
    <3>2. file.structure \in BOOLEAN
      BY FileType
    <3>. QED BY <1>1, <3>1, <3>2 DEF Scanned, Way, Truth
  <2>8. ~Prepared /\ Prepared' /\ ~Gathered'
    BY <1>1, <1>2, <1>4, <2>2, <2>3, <2>7 DEF Prepared, Gathered, Behind
  <2>9. ASSUME NEW m \in Lane PROVE Decoded(m) = CFirst(m)
    BY <1>1, NoneDecoded DEF Decoded
  <2>10. module \in ModuleRecord /\ Len(file.codes) \in Nat /\ file.structure \in BOOLEAN
    BY FileType DEF RInv
  <2>11. /\ module' \in ModuleRecord /\ module'.field = module.field
         /\ file.structure => module'.codes \in [1 .. Len(file.codes) -> Nat]
    <3>. DEFINE c == [i \in 1 .. Len(file.codes) |-> Unset]
    <3>1. c \in [1 .. Len(file.codes) -> Nat] /\ c \in Seq(Nat)
      BY <2>10 DEF Unset
    <3>2. module' = IF file.structure THEN [module EXCEPT !.codes = c] ELSE module
      BY <2>1
    <3>. HIDE DEF c
    <3>. QED BY <2>10, <3>1, <3>2 DEF ModuleRecord
  <2>12. FieldsOK'
    BY <2>6, <2>11, FieldsKept DEF RInv
  <2>13. CodesOK'
    <3>1. ASSUME Decodes PROVE module'.codes \in [1 .. Len(file.codes) -> Nat]
      BY <2>7, <2>11, <3>1 DEF Decodes
    <3>2. ASSUME NEW m \in Lane, NEW i \in 1 .. Len(file.codes)
          PROVE  ~(CFirst(m) < i /\ i <= Decoded(m))
      <4>1. CFirst(m) \in Nat /\ Decoded(m) = CFirst(m) /\ i \in Nat
        BY <2>9, <2>10, MyRange
      <4>. QED BY <4>1
    <3>3. ASSUME NEW m \in Lane PROVE Decoded(m)' = Decoded(m) /\ CFirst(m)' = CFirst(m)
      BY <2>2, <2>6 DEF Places
    <3>. QED BY <1>1, <2>2, <3>1, <3>2, <3>3 DEF CodesOK
  <2>14. ReportsOK' /\ reported' \in [Lane -> Seq(Part)]
    <3>. DEFINE x == <<"structure", CodeSection>>
    <3>1. \A m \in Lane \ {l} : Reports(m)' = Reports(m)
      BY <1>1, <1>4, <2>4, ReportsKept
    <3>2. /\ SectionReports(l)' = SectionReports(l) /\ CodeReports(l)' = CodeReports(l)
      BY <1>1, <2>5, PartsKept
    <3>3. StructureReports(l) = {}
      BY <2>8 DEF StructureReports
    <3>4. StructureReports(l)' = IF ~file.structure THEN {x} ELSE {}
      BY <1>4, <2>2, <2>7, <2>8 DEF StructureReports
    <3>5. Reports(l)' = IF ~file.structure THEN Reports(l) \cup {x} ELSE Reports(l)
      BY <3>2, <3>3, <3>4 DEF Reports
    <3>6. x \notin Reports(l)
      BY <3>3 DEF Reports, SectionReports, CodeReports
    <3>7. x \in Part
      BY CodeSectionNat DEF Part
    <3>. QED BY <1>1, <2>1, <3>1, <3>5, <3>6, <3>7, ReportsGrow
  <2>15. DiagsOK'
    BY <2>8 DEF DiagsOK
  <2>16. items' \in [Lane -> Nat]
    BY <2>3 DEF OneMoves
  <2>17. \A m \in Lane : EndsOK(m)'
    BY <1>1, <2>6, EndsKept DEF RInv, Places
  <2>. QED BY <1>1, <2>2, <2>4, <2>5, <2>11, <2>12, <2>13, <2>14, <2>15, <2>16, <2>17 DEF RInv
<1>. QED BY <1>3, <1>4

LEMMA ReadCodeRInv == ASSUME IInv, RInv, NEW l \in Lane, ReadCode(l) PROVE RInv'
<1>. DEFINE i == Item(l, Bodies(l))
<1>1. /\ point[l] = "end" /\ stage[l] = "run" /\ InRange(l, Bodies(l))
      /\ Report(l, file.codes[i].bad, <<"code", i>>)
      /\ module' = [module EXCEPT !.codes[i] = i]
      /\ items' = [items EXCEPT ![l] = @ + 1]
      /\ UNCHANGED <<file, main, point, stage, diags, done>>
      /\ file.codes[i].ends = "returns"
  <2>1. ReadsCode(l) /\ ~ReadsSection(l)
    BY DEF ReadCode, ReadsCode, ReadsSection, At
  <2>. QED BY <2>1 DEF ReadCode, At, mainVars, Outcome
<1>2. items[l] \in Nat /\ items \in [Lane -> Nat] /\ Len(file.codes) \in Nat
  BY FileType DEF RInv
<1>3. Decodes /\ Bodies(l) = Len(file.codes)
  <2>. SUFFICES ASSUME ~Decodes PROVE FALSE
    BY <1>1, BodiesAre
  <2>1. Bodies(l) = 0
    BY <1>1, BodiesAre
  <2>2. First(0, l, LaneCount) \in Nat /\ Opl(0, l, LaneCount) \in Nat /\ Opl(0, l, LaneCount) <= 0
    BY RangeOfLane
  <2>. QED BY <1>1, <1>2, <2>1, <2>2 DEF InRange, Item
<1>4. /\ i = CFirst(l) + items[l] + 1 /\ CFirst(l) + items[l] + 1 <= COpl(l)
      /\ CFirst(l) \in Nat /\ COpl(l) \in Nat /\ COpl(l) <= Len(file.codes)
  BY <1>1, <1>3, MyRange DEF InRange, Item, CFirst, COpl
<1>. HIDE DEF i
<1>5. /\ i \in 1 .. Len(file.codes) /\ i \in Nat /\ CFirst(l) < i /\ i <= COpl(l)
      /\ CFirst(l) + items[l] = i - 1 /\ CFirst(l) + (items[l] + 1) = i
  BY <1>2, <1>4
<1>6. /\ Way' = Way /\ Scanned' = Scanned /\ Decodes' = Decodes
      /\ \A m \in Lane : /\ SFirst(m)' = SFirst(m) /\ SOpl(m)' = SOpl(m)
                         /\ CFirst(m)' = CFirst(m) /\ COpl(m)' = COpl(m)
  BY <1>1, FileKept
<1>7. items'[l] = items[l] + 1 /\ OneMoves(l)
  BY <1>1, <1>2 DEF OneMoves
<1>8. /\ Finished(l)' = Finished(l) /\ Stored(l)' = Stored(l)
      /\ Decoded(l) = i - 1 /\ Decoded(l)' = i /\ ItemsOK(l)'
  <2>1. Finished(l)' = Finished(l)
    BY <1>1, <1>6 DEF Finished
  <2>2. Stored(l)' = Stored(l)
    BY <1>1, <2>1 DEF Stored
  <2>3. Decoded(l) = i - 1
    BY <1>1, <1>3, <1>5 DEF Decoded
  <2>4. Decoded(l)' = i
    BY <1>1, <1>3, <1>5, <1>6, <1>7 DEF Decoded
  <2>5. ItemsOK(l)'
    BY <1>1, <1>3, <1>5, <1>6, <1>7 DEF ItemsOK
  <2>. QED BY <2>1, <2>2, <2>3, <2>4, <2>5
<1>9. /\ \A m \in Lane \ {l} : /\ Finished(m)' = Finished(m) /\ Decoded(m)' = Decoded(m)
                               /\ Stored(m)' = Stored(m) /\ ItemsOK(m)'
      /\ Prepared' = Prepared /\ Gathered' = Gathered /\ ~Gathered
  <2>1. /\ \A m \in Lane \ {l} : /\ Finished(m)' = Finished(m) /\ Decoded(m)' = Decoded(m)
                                 /\ Stored(m)' = Stored(m) /\ ItemsOK(m)'
    BY <1>7, OthersStay
  <2>2. Prepared' = Prepared /\ Gathered' = Gathered
    BY <1>1, <1>6 DEF Prepared, Gathered
  <2>. QED BY <1>1, <2>1, <2>2, NotGathered
<1>10. /\ module' \in ModuleRecord /\ module'.field = module.field
       /\ module'.codes = [module.codes EXCEPT ![i] = i]
  <2>. DEFINE c == module.codes
  <2>1. /\ c \in Seq(Nat) /\ module.field \in [Field -> [data : Nat, len : Nat]]
        /\ module = [version |-> module.version, codes |-> c, field |-> module.field]
        /\ module.version \in Nat
    BY DEF RInv, ModuleRecord
  <2>2. c \in [1 .. Len(c) -> Nat] /\ Len(c) \in Nat
    BY <2>1
  <2>3. module' = [module EXCEPT !.codes = [c EXCEPT ![i] = i]]
    BY <1>1, <2>1
  <2>4. [c EXCEPT ![i] = i] \in Seq(Nat)
    <3>. HIDE DEF c
    <3>1. [c EXCEPT ![i] = i] \in [1 .. Len(c) -> Nat]
      BY <1>5, <2>2
    <3>. QED BY <2>2, <3>1
  <2>5. /\ module'.codes = [c EXCEPT ![i] = i] /\ module'.field = module.field
        /\ module' = [version |-> module.version, codes |-> [c EXCEPT ![i] = i],
                      field |-> module.field]
    BY <2>1, <2>3
  <2>. QED BY <2>1, <2>4, <2>5 DEF ModuleRecord
<1>11. FieldsOK'
  <2>1. ASSUME NEW f \in Field
        PROVE  /\ WordOK(f, module.field[f].data, [m \in Lane |-> Stored(m)])
               /\ WordOK(f, module.field[f].len, [m \in Lane |-> Finished(m)])
    BY DEF RInv, FieldsOK
  <2>2. /\ [m \in Lane |-> Stored(m)]' = [m \in Lane |-> Stored(m)]
        /\ [m \in Lane |-> Finished(m)]' = [m \in Lane |-> Finished(m)]
    <3>1. \A m \in Lane : Stored(m)' = Stored(m) /\ Finished(m)' = Finished(m)
      BY <1>8, <1>9
    <3>. QED BY <3>1
  <2>3. ASSUME NEW f, NEW w, NEW u, WordOK(f, w, u) PROVE WordOK(f, w, u)'
    BY <1>1, <2>3, WordKept
  <2>. QED BY <1>10, <2>1, <2>2, <2>3 DEF FieldsOK
<1>12. CodesOK'
  <2>. SUFFICES ASSUME Prepared
                PROVE  /\ module'.codes \in [1 .. Len(file.codes) -> Nat]
                       /\ \A m \in Lane : \A j \in 1 .. Len(file.codes) :
                            CFirst(m) < j /\ j <= Decoded(m)' => module'.codes[j] = j
    BY <1>1, <1>6, <1>9 DEF CodesOK
  <2>1. /\ module.codes \in [1 .. Len(file.codes) -> Nat]
        /\ \A m \in Lane : \A j \in 1 .. Len(file.codes) :
             CFirst(m) < j /\ j <= Decoded(m) => module.codes[j] = j
    BY <1>3 DEF RInv, CodesOK
  <2>2. module'.codes \in [1 .. Len(file.codes) -> Nat]
    BY <1>5, <1>10, <2>1
  <2>3. /\ module'.codes[i] = i
        /\ \A j \in 1 .. Len(file.codes) : j # i => module'.codes[j] = module.codes[j]
    BY <1>5, <1>10, <2>1
  <2>4. ASSUME NEW m \in Lane, NEW j \in 1 .. Len(file.codes), j # i,
               CFirst(m) < j, j <= Decoded(m)'
        PROVE  module'.codes[j] = j
    <3>1. j \in Nat
      BY <1>2
    <3>2. CASE m = l
      <4>1. j <= Decoded(m)
        BY <1>5, <1>8, <2>4, <3>1, <3>2
      <4>. QED BY <2>1, <2>3, <2>4, <4>1
    <3>3. CASE m # l
      BY <1>9, <2>1, <2>3, <2>4, <3>3
    <3>. QED BY <3>2, <3>3
  <2>. QED BY <2>2, <2>3, <2>4
<1>13. ReportsOK' /\ reported' \in [Lane -> Seq(Part)]
  <2>. DEFINE x == <<"code", i>>
  <2>1. \A m \in Lane \ {l} : Reports(m)' = Reports(m)
    BY <1>1, <1>9, ReportsKept
  <2>2. SectionReports(l)' = SectionReports(l) /\ StructureReports(l)' = StructureReports(l)
    BY <1>1, <1>8, <1>9, PartsKept
  <2>3. CodeReports(l)' = CodeReports(l) \cup (IF file.codes[i].bad THEN {x} ELSE {})
    <3>1. \A j \in 1 .. Len(file.codes) :
            CFirst(l) < j /\ j <= i <=> (CFirst(l) < j /\ j <= i - 1) \/ j = i
      BY <1>2, <1>4, <1>5
    <3>2. CodeReports(l)' = {<<"code", n>> : n \in {j \in 1 .. Len(file.codes) :
                               CFirst(l) < j /\ j <= i /\ file.codes[j].bad}}
      BY <1>1, <1>6, <1>8 DEF CodeReports
    <3>3. CodeReports(l) = {<<"code", n>> : n \in {j \in 1 .. Len(file.codes) :
                              CFirst(l) < j /\ j <= i - 1 /\ file.codes[j].bad}}
      BY <1>8 DEF CodeReports
    <3>. QED BY <1>5, <3>1, <3>2, <3>3
  <2>4. Reports(l)' = IF file.codes[i].bad THEN Reports(l) \cup {x} ELSE Reports(l)
    BY <2>2, <2>3 DEF Reports
  <2>5. x \notin Reports(l)
    <3>1. x \notin CodeReports(l)
      BY <1>5, <1>8 DEF CodeReports
    <3>. QED BY <3>1 DEF Reports, SectionReports, StructureReports
  <2>6. x \in Part
    BY <1>5 DEF Part
  <2>. QED BY <1>1, <2>1, <2>4, <2>5, <2>6, ReportsGrow
<1>14. DiagsOK'
  BY <1>9 DEF DiagsOK
<1>15. items' \in [Lane -> Nat]
  BY <1>7 DEF OneMoves
<1>16. \A m \in Lane : EndsOK(m)'
  <2>1. \A m \in Lane \ {l} : EndsOK(m)'
    BY <1>1, <1>9, EndsKept DEF RInv
  <2>2. /\ \A j \in 1 .. Len(file.sections) :
             SFirst(l) < j /\ j <= Stored(l) => SectionReturns(j)
        /\ \A j \in 1 .. Len(file.codes) :
             CFirst(l) < j /\ j <= i - 1 => file.codes[j].ends = "returns"
    BY <1>8 DEF RInv, EndsOK
  <2>3. \A j \in 1 .. Len(file.codes) : j <= i => j <= i - 1 \/ j = i
    BY <1>2, <1>5
  <2>4. \A j \in 1 .. Len(file.codes) :
          CFirst(l) < j /\ j <= i => file.codes[j].ends = "returns"
    BY <1>1, <2>2, <2>3, Zenon
  <2>5. \A j : SectionReturns(j)' = SectionReturns(j)
    BY <1>1 DEF SectionReturns
  <2>6. EndsOK(l)'
    BY <1>1, <1>6, <1>8, <2>2, <2>4, <2>5 DEF EndsOK
  <2>. QED BY <2>1, <2>6
<1>. QED BY <1>1, <1>6, <1>8, <1>9, <1>10, <1>11, <1>12, <1>13, <1>14, <1>15, <1>16 DEF RInv

-----------------------------------------------------------------------------
(* The diagnostics are collected *)

\* A lane has not gone behind its ranges.
LEMMA WithinRange ==
  ASSUME IInv, RInv, NEW l \in Lane
  PROVE  Stored(l) \in Nat /\ Stored(l) <= SOpl(l) /\ Decoded(l) \in Nat /\ Decoded(l) <= COpl(l)
<1>1. /\ SFirst(l) \in Nat /\ SOpl(l) \in Nat /\ SFirst(l) <= SOpl(l)
      /\ CFirst(l) \in Nat /\ COpl(l) \in Nat /\ CFirst(l) <= COpl(l)
      /\ items[l] \in Nat /\ ItemsOK(l)
  BY MyRange DEF RInv
<1>2. stage[l] = "len" => point[l] = "sections"
  BY AboutLane DEF PathOK
<1>3. Stored(l) \in Nat /\ Stored(l) <= SOpl(l)
  BY <1>1, <1>2 DEF Stored, Finished, ItemsOK
<1>4. Decoded(l) \in Nat /\ Decoded(l) <= COpl(l)
  BY <1>1 DEF Decoded, ItemsOK
<1>. QED BY <1>3, <1>4

\* No two lanes report the same part.
LEMMA ReportsDisjoint ==
  ASSUME IInv, RInv, NEW l \in Lane, NEW m \in Lane, l # m
  PROVE  Reports(l) \cap Reports(m) = {}
<1>. SUFFICES ASSUME NEW x \in Reports(l), x \in Reports(m) PROVE FALSE
  OBVIOUS
<1>1. /\ Stored(l) \in Nat /\ Stored(m) \in Nat /\ Stored(l) <= SOpl(l) /\ Stored(m) <= SOpl(m)
      /\ Decoded(l) \in Nat /\ Decoded(m) \in Nat
      /\ Decoded(l) <= COpl(l) /\ Decoded(m) <= COpl(m)
      /\ SOpl(l) \in Nat /\ SOpl(m) \in Nat /\ COpl(l) \in Nat /\ COpl(m) \in Nat
      /\ Len(file.sections) \in Nat /\ Len(file.codes) \in Nat
  BY WithinRange, MyRange, FileType
<1>2. CASE x \in SectionReports(l)
  <2>1. PICK i \in 1 .. Len(file.sections) : x = <<"section", i>> /\ SFirst(l) < i /\ i <= Stored(l)
    BY <1>2 DEF SectionReports
  <2>2. x \in SectionReports(m)
    BY <2>1 DEF Reports, CodeReports, StructureReports
  <2>3. PICK j \in 1 .. Len(file.sections) : x = <<"section", j>> /\ SFirst(m) < j /\ j <= Stored(m)
    BY <2>2 DEF SectionReports
  <2>4. i = j /\ i <= SOpl(l) /\ i <= SOpl(m)
    BY <1>1, <2>1, <2>3
  <2>. QED BY <1>1, <2>1, <2>3, <2>4, NoTwoLanes DEF SFirst, SOpl
<1>3. CASE x \in CodeReports(l)
  <2>1. PICK i \in 1 .. Len(file.codes) : x = <<"code", i>> /\ CFirst(l) < i /\ i <= Decoded(l)
    BY <1>3 DEF CodeReports
  <2>2. x \in CodeReports(m)
    BY <2>1 DEF Reports, SectionReports, StructureReports
  <2>3. PICK j \in 1 .. Len(file.codes) : x = <<"code", j>> /\ CFirst(m) < j /\ j <= Decoded(m)
    BY <2>2 DEF CodeReports
  <2>4. i = j /\ i <= COpl(l) /\ i <= COpl(m)
    BY <1>1, <2>1, <2>3
  <2>. QED BY <1>1, <2>1, <2>3, <2>4, NoTwoLanes DEF CFirst, COpl
<1>4. CASE x \in StructureReports(l)
  <2>1. l = 0 /\ x = <<"structure", CodeSection>>
    BY <1>4 DEF StructureReports
  <2>2. x \in StructureReports(m)
    BY <2>1 DEF Reports, SectionReports, CodeReports
  <2>3. m = 0
    BY <2>2 DEF StructureReports
  <2>. QED BY <2>1, <2>3
<1>. QED BY <1>2, <1>3, <1>4 DEF Reports

\* bin_collect_diagnostics puts the lists of all lanes one behind the other.
LEMMA CollectedIs ==
  ASSUME reported \in [Lane -> Seq(Part)]
  PROVE  \E g \in [Lane -> Seq(Part)] :
           Joins(g, reported, LaneCount - 1) /\ Collected = g[LaneCount - 1]
<1>1. LaneCount - 1 \in Nat
  OBVIOUS
<1>2. reported \in [0 .. LaneCount - 1 -> Seq(Part)]
  BY DEF Lane
<1>3. PICK h \in [0 .. LaneCount - 1 -> Seq(Part)] : Joins(h, reported, LaneCount - 1)
  BY <1>1, <1>2, JoinsExist
<1>. DEFINE E(g) == [l \in Lane |-> (IF l = 0 THEN <<>> ELSE g[l - 1]) \o reported[l]]
<1>4. h = E(h)
  BY <1>3 DEF Joins, Lane
<1>5. CollectedTo = CHOOSE g : g = E(g)
  BY DEF CollectedTo
<1>6. CollectedTo = E(CollectedTo)
  BY <1>4, <1>5
<1>7. Joins(CollectedTo, reported, LaneCount - 1)
  <2>. HIDE DEF E
  <2>1. ASSUME NEW l \in Lane
        PROVE  E(CollectedTo)[l] = (IF l = 0 THEN <<>> ELSE CollectedTo[l - 1]) \o reported[l]
    BY DEF E
  <2>2. ASSUME NEW l \in Lane
        PROVE  CollectedTo[l] = (IF l = 0 THEN <<>> ELSE CollectedTo[l - 1]) \o reported[l]
    BY <1>6, <2>1
  <2>. QED BY <2>2 DEF Joins, Lane
<1>8. CollectedTo[LaneCount - 1] = h[LaneCount - 1]
  BY <1>1, <1>3, <1>7, JoinsUnique
<1>9. h \in [Lane -> Seq(Part)]
  BY DEF Lane
<1>. QED BY <1>3, <1>8, <1>9 DEF Collected

LEMMA CollectRInv == ASSUME IInv, RInv, NEW l \in Lane, Collect(l) PROVE RInv'
<1>1. /\ point[l] = "diags" /\ stage[l] = "run" /\ Reach(l)
      /\ diags' = IF l = 0 THEN Collected ELSE diags
      /\ UNCHANGED <<file, main, reported, module, done>>
  BY DEF Collect, At, mainVars
<1>2. stage' = [stage EXCEPT ![l] = "arrive2"] /\ UNCHANGED <<point, items>>
  BY <1>1 DEF Reach, IsValue, ValueOf
<1>3. CASE l # 0
  <2>1. Progress /\ (\A m \in Lane : ItemsOK(m)') /\ items' \in [Lane -> Nat]
    BY <1>1, <1>2, <1>3, StageQuiet DEF Stage
  <2>. QED BY <1>1, <1>3, <2>1, QuietRInv DEF RInv
<1>4. CASE l = 0
  <2>1. /\ Way' = Way /\ Scanned' = Scanned /\ Decodes' = Decodes
        /\ \A m \in Lane : /\ SFirst(m)' = SFirst(m) /\ SOpl(m)' = SOpl(m)
                           /\ CFirst(m)' = CFirst(m) /\ COpl(m)' = COpl(m)
    BY <1>1, FileKept
  <2>2. stage'[l] = "arrive2" /\ OneMoves(l)
    BY <1>1, <1>2 DEF IInv, Types, OneMoves, RInv
  <2>3. /\ \A m \in Lane \ {l} : /\ Finished(m)' = Finished(m) /\ Decoded(m)' = Decoded(m)
                                 /\ Stored(m)' = Stored(m) /\ ItemsOK(m)'
    BY <2>2, OthersStay
  <2>4. /\ Finished(l)' = Finished(l) /\ Decoded(l)' = Decoded(l) /\ Stored(l)' = Stored(l)
        /\ ItemsOK(l)'
    <3>1. Finished(l)' = Finished(l)
      BY <1>1, <1>2, <2>1 DEF Finished
    <3>2. Decoded(l)' = Decoded(l)
      BY <1>1, <1>2, <2>1 DEF Decoded
    <3>3. Stored(l)' = Stored(l)
      BY <1>1, <2>2, <3>1 DEF Stored
    <3>4. ItemsOK(l)'
      BY <1>1, <1>2 DEF ItemsOK
    <3>. QED BY <3>1, <3>2, <3>3, <3>4
  <2>5. Places
    BY <1>1, <2>3, <2>4 DEF Places
  <2>6. Scanned /\ Prepared' = Prepared
    <3>1. Way.scan = "true"
      BY <1>1, AboutLane DEF PathOK
    <3>. QED BY <1>1, <1>2, <1>4, <2>1, <3>1 DEF Scanned, Prepared, Behind
  <2>7. FieldsOK' /\ CodesOK' /\ \A m \in Lane : EndsOK(m)'
    BY <1>1, <2>5, <2>6, FieldsKept, CodesKept, EndsKept DEF RInv, Places
  <2>8. \A m \in Lane : Reports(m)' = Reports(m)
    BY <2>5, <2>6, ReportsKept DEF Places
  <2>9. ReportsOK'
    BY <1>1, <2>1, <2>8 DEF RInv, ReportsOK
  <2>10. DiagsOK' /\ diags' \in Seq(Part)
    <3>1. LaneCount - 1 \in Nat /\ Lane = 0 .. LaneCount - 1 /\ reported \in [Lane -> Seq(Part)]
      BY DEF Lane, RInv
    <3>2. PICK g \in [Lane -> Seq(Part)] :
            Joins(g, reported, LaneCount - 1) /\ Collected = g[LaneCount - 1]
      BY <3>1, CollectedIs
    <3>. DEFINE S == [m \in Lane |-> Reports(m)]
    <3>3. \A m \in Lane : S[m] = Reports(m)
      OBVIOUS
    <3>4. \A m \in Lane : Enumerates(reported[m], S[m])
      BY <2>6, <3>3 DEF RInv, ReportsOK
    <3>5. \A m, k \in Lane : m # k => S[m] \cap S[k] = {}
      BY <3>3, ReportsDisjoint
    <3>. HIDE DEF S
    <3>6. Enumerates(g[LaneCount - 1], UNION {Reports(m) : m \in Lane})
      <4>. DEFINE N == LaneCount - 1
                  V == UNION {Reports(m) : m \in Lane}
      <4>1. /\ \A m \in 0 .. N : Enumerates(reported[m], S[m])
            /\ \A m, k \in 0 .. N : m # k => S[m] \cap S[k] = {}
            /\ reported \in [0 .. N -> Seq(Part)]
            /\ g \in [0 .. N -> Seq(Part)]
            /\ N \in Nat /\ Joins(g, reported, N)
        BY <3>1, <3>2, <3>4, <3>5
      <4>2. \A x : x \in V <=> \E k \in 0 .. N : x \in S[k]
        BY <3>1, <3>3
      <4>. HIDE DEF N, V
      <4>3. Enumerates(g[N], V)
        BY <4>1, <4>2, JoinsEnum
      <4>. QED BY <4>3 DEF N, V
    <3>7. diags' = g[LaneCount - 1] /\ g[LaneCount - 1] \in Seq(Part)
      BY <1>1, <1>4, <3>1, <3>2
    <3>8. (UNION {Reports(m) : m \in Lane})' = UNION {Reports(m) : m \in Lane}
      BY <2>8
    <3>. QED BY <3>6, <3>7, <3>8 DEF DiagsOK
  <2>11. items' \in [Lane -> Nat]
    BY <2>2 DEF OneMoves
  <2>. QED BY <1>1, <2>1, <2>3, <2>4, <2>7, <2>9, <2>10, <2>11 DEF RInv
<1>. QED BY <1>3, <1>4

-----------------------------------------------------------------------------
(* The theorems *)

LEMMA NextRInv == ASSUME IInv, RInv, [Next]_vars PROVE RInv'
<1>1. ASSUME NEW l \in Lane, LaneStep(l) PROVE RInv'
  BY <1>1, StageStepRInv, GoStepRInv, SignalRInv, ScanRInv, ReadSectionRInv, StoreLenRInv,
     ReadStructureRInv, ReadCodeRInv, CollectRInv, OthersRInv DEF LaneStep
<1>. QED BY <1>1, StartRInv, OthersRInv DEF Next, MainStep

LEMMA RInvHolds == Spec => [](IInv /\ RInv)
<1>1. Init => RInv
  BY InitRInv
<1>2. IInv /\ RInv /\ [Next]_vars => RInv'
  BY NextRInv
<1>. QED BY <1>1, <1>2, IInvHolds, PTL DEF Spec

\* Type correctness of bin_read, for any number of lanes and any file.
THEOREM ReadTypes == Spec => []TypeOK
<1>1. IInv /\ RInv => TypeOK
  <2>. SUFFICES ASSUME IInv, RInv PROVE TypeOK
    OBVIOUS
  <2>1. module.field \in [Field -> [data : Nat, len : Nat]]
    BY DEF RInv, ModuleRecord
  <2>. QED BY <2>1 DEF TypeOK, IInv, Types, RInv, Locals
<1>. QED BY <1>1, RInvHolds, PTL

\* When bin_read returns, every lane is behind its ranges.
LEMMA AllRead ==
  ASSUME IInv, RInv, main = "returned"
  PROVE  /\ Gathered /\ (Prepared <=> Way.code = "true")
         /\ \A l \in Lane : /\ Finished(l) = SOpl(l) /\ Stored(l) = SOpl(l)
                            /\ Decoded(l) = IF Decodes THEN COpl(l) ELSE CFirst(l)
<1>1. Scanned
  BY DEF RInv
<1>2. ASSUME NEW l \in Lane PROVE point[l] = "exit" /\ stage[l] = "run" /\ SOpl(l) \in Nat
  <2>1. point[l] = "exit"
    BY DEF IInv, MainInv
  <2>2. PathOK("exit", stage[l], Way)
    BY <2>1, AboutLane
  <2>. QED BY <2>1, <2>2, MyRange DEF PathOK, After
<1>3. ASSUME NEW l \in Lane
      PROVE  /\ Finished(l) = SOpl(l) /\ Stored(l) = SOpl(l)
             /\ Decoded(l) = IF Decodes THEN COpl(l) ELSE CFirst(l)
  <2>1. Finished(l) = SOpl(l)
    BY <1>1, <1>2 DEF Finished, Before
  <2>2. Stored(l) = SOpl(l)
    BY <1>2, <2>1 DEF Stored
  <2>. QED BY <1>1, <1>2, <2>1, <2>2 DEF Decoded, Behind
<1>4. point[0] = "exit"
  BY <1>2, LanesFinite
<1>. QED BY <1>1, <1>3, <1>4 DEF Gathered, Prepared, Behind

\* For any number of lanes and any file, the module bin_read returns is
\* finished: it returns only from a file all of whose readers return, no lane
\* leaves out or overwrites a body, and a field is unset only when the file has
\* no section for it.  When one lane reads all the
\* sections of a kind, the last one wins.
THEOREM ModuleIsComplete == Spec => []ModuleComplete
<1>1. IInv /\ RInv => ModuleComplete
  <2>. SUFFICES ASSUME IInv, RInv, main = "returned" PROVE ModuleComplete
    BY DEF ModuleComplete
  <2>1. /\ Prepared <=> Way.code = "true"
        /\ \A l \in Lane : /\ Finished(l) = SOpl(l) /\ Stored(l) = SOpl(l)
                           /\ Decoded(l) = IF Decodes THEN COpl(l) ELSE CFirst(l)
    BY AllRead
  <2>2. ASSUME CodeSection # 0, file.structure
        PROVE  module.codes = [i \in 1 .. Len(file.codes) |-> i]
    <3>1. Decodes /\ Prepared
      BY <2>1, <2>2 DEF Decodes, Way, Truth
    <3>2. /\ module.codes \in [1 .. Len(file.codes) -> Nat]
          /\ \A l \in Lane : \A i \in 1 .. Len(file.codes) :
               CFirst(l) < i /\ i <= Decoded(l) => module.codes[i] = i
      BY <3>1 DEF RInv, CodesOK
    <3>3. ASSUME NEW i \in 1 .. Len(file.codes) PROVE module.codes[i] = i
      <4>1. PICK l \in Lane : CFirst(l) < i /\ i <= COpl(l)
        BY OneLane, FileType DEF CFirst, COpl
      <4>2. Decoded(l) = COpl(l)
        BY <2>1, <3>1
      <4>. QED BY <3>2, <4>1, <4>2
    <3>. QED BY <3>2, <3>3
  <2>3. ASSUME NEW f \in Field, NEW is, is = SectionsOf(f), NEW w, w = module.field[f]
        PROVE  IF is = {} THEN w = [data |-> Unset, len |-> Unset]
               ELSE /\ w.data \in is /\ w.len \in is
                    /\ Cardinality({Reader(i) : i \in is}) = 1 =>
                         /\ w.data = w.len
                         /\ \A i \in is : i <= w.data
    <3>1. w \in [data : Nat, len : Nat]
      BY <2>3 DEF RInv, ModuleRecord
    <3>2. /\ w.data = Unset \/ w.data \in is
          /\ w.len = Unset \/ w.len \in is
          /\ \A l \in Lane, i \in is :
               SFirst(l) < i /\ i <= SOpl(l) => w.data # Unset /\ w.len # Unset
          /\ \A l \in Lane :
               (\A i \in is : SFirst(l) < i /\ i <= SOpl(l)) =>
                  \A i \in is : i <= SOpl(l) => i <= w.data /\ i <= w.len
      <4>1. /\ WordOK(f, w.data, [l \in Lane |-> Stored(l)])
            /\ WordOK(f, w.len, [l \in Lane |-> Finished(l)])
        BY <2>3 DEF RInv, FieldsOK
      <4>2. \A l \in Lane : [k \in Lane |-> Stored(k)][l] = SOpl(l)
                            /\ [k \in Lane |-> Finished(k)][l] = SOpl(l)
        BY <2>1
      <4>. QED BY <2>3, <4>1, <4>2 DEF WordOK
    <3>3. \A i \in is : i \in 1 .. Len(file.sections) /\ i \in Nat
      BY <2>3, FileType DEF SectionsOf
    <3>4. ASSUME NEW i \in is
          PROVE  Reader(i) \in Lane /\ SFirst(Reader(i)) < i /\ i <= SOpl(Reader(i))
      <4>1. \E l \in Lane : /\ First(Len(file.sections), l, LaneCount) < i
                            /\ i <= Opl(Len(file.sections), l, LaneCount)
        BY <3>3, OneLane, FileType
      <4>. QED BY <4>1 DEF Reader, SFirst, SOpl
    <3>5. CASE is = {}
      BY <3>1, <3>2, <3>5
    <3>6. CASE is # {}
      <4>1. w.data \in is /\ w.len \in is
        BY <3>2, <3>4, <3>6
      <4>2. ASSUME Cardinality({Reader(i) : i \in is}) = 1
            PROVE  w.data = w.len /\ \A i \in is : i <= w.data
        <5>. DEFINE R == {Reader(i) : i \in is}
        <5>1. IsFiniteSet(R)
          <6>1. R \subseteq Lane
            BY <3>4
          <6>. QED BY <6>1, LanesFinite, FS_Subset
        <5>2. PICK l : R = {l}
          <6>. HIDE DEF R
          <6>1. Cardinality(R) = 1
            BY <4>2 DEF R
          <6>. QED BY <5>1, <6>1, FS_Singleton
        <5>3. \A i \in is : Reader(i) = l
          BY <5>2
        <5>. HIDE DEF R
        <5>4. l \in Lane /\ \A i \in is : SFirst(l) < i /\ i <= SOpl(l)
          BY <3>4, <3>6, <5>3
        <5>5. \A i \in is : i <= w.data /\ i <= w.len
          BY <3>2, <5>4
        <5>6. w.data <= w.len /\ w.len <= w.data /\ w.data \in Nat /\ w.len \in Nat
          BY <3>1, <4>1, <5>5
        <5>. QED BY <5>5, <5>6
      <4>. QED BY <3>6, <4>1, <4>2
    <3>. QED BY <3>5, <3>6
  <2>4. EndlessParts = {}
    <3>1. ASSUME NEW i \in 1 .. Len(file.sections) PROVE SectionReturns(i)
      <4>1. PICK l \in Lane : SFirst(l) < i /\ i <= SOpl(l)
        BY OneLane, FileType DEF SFirst, SOpl
      <4>2. Stored(l) = SOpl(l)
        BY <2>1
      <4>. QED BY <4>1, <4>2 DEF RInv, EndsOK
    <3>2. ASSUME NEW i \in 1 .. Len(file.codes), CodeSection # 0, file.structure
          PROVE  file.codes[i].ends = "returns"
      <4>1. PICK l \in Lane : CFirst(l) < i /\ i <= COpl(l)
        BY OneLane, FileType DEF CFirst, COpl
      <4>2. Decodes
        BY <3>2 DEF Decodes, Way, Truth
      <4>3. Decoded(l) = COpl(l)
        BY <2>1, <4>2
      <4>. QED BY <4>1, <4>3 DEF RInv, EndsOK
    <3>. QED BY <3>1, <3>2 DEF EndlessParts, SectionReturns
  <2>. QED BY <2>2, <2>3, <2>4 DEF ModuleComplete
<1>. QED BY <1>1, RInvHolds, PTL

\* For any number of lanes and any file, bin_read returns every error that
\* the file makes a reader report, none of them twice.
THEOREM DiagnosticsAreComplete == Spec => []DiagnosticsComplete
<1>1. IInv /\ RInv => DiagnosticsComplete
  <2>. SUFFICES ASSUME IInv, RInv, main = "returned" PROVE DiagnosticsComplete
    BY DEF DiagnosticsComplete
  <2>1. /\ Gathered /\ (Prepared <=> Way.code = "true")
        /\ \A l \in Lane : /\ Stored(l) = SOpl(l)
                           /\ Decoded(l) = IF Decodes THEN COpl(l) ELSE CFirst(l)
    BY AllRead
  <2>2. /\ Way.code = "true" <=> CodeSection # 0
        /\ Way.structure = "true" <=> file.structure
        /\ Way.structure = "false" <=> ~file.structure
        /\ Len(file.sections) \in Nat /\ Len(file.codes) \in Nat
    BY FileType DEF Way, Truth
  <2>. DEFINE All == UNION {Reports(l) : l \in Lane}
              Sec == {<<"section", i>> : i \in {j \in 1 .. Len(file.sections) :
                        file.sections[j].bad /\ ~Skipped(file.sections[j])}}
              Code == {<<"code", i>> : i \in {j \in 1 .. Len(file.codes) : file.codes[j].bad}}
              Rest == IF CodeSection = 0 THEN {}
                      ELSE IF ~file.structure THEN {<<"structure", CodeSection>>} ELSE Code
  <2>3. UNION {SectionReports(l) : l \in Lane} = Sec
    <3>1. ASSUME NEW l \in Lane, NEW x \in SectionReports(l) PROVE x \in Sec
      BY DEF SectionReports, BadSection
    <3>2. ASSUME NEW x \in Sec PROVE \E l \in Lane : x \in SectionReports(l)
      <4>1. PICK i \in 1 .. Len(file.sections) : x = <<"section", i>> /\ BadSection(i)
        BY <3>2 DEF BadSection
      <4>2. PICK l \in Lane : SFirst(l) < i /\ i <= SOpl(l)
        BY <2>2, OneLane DEF SFirst, SOpl
      <4>3. i <= Stored(l)
        BY <2>1, <4>2
      <4>. QED BY <4>1, <4>2, <4>3 DEF SectionReports
    <3>. HIDE DEF Sec
    <3>. QED BY <3>1, <3>2
  <2>4. UNION {CodeReports(l) : l \in Lane} = IF Decodes THEN Code ELSE {}
    <3>1. ASSUME Decodes, NEW l \in Lane, NEW x \in CodeReports(l) PROVE x \in Code
      BY DEF CodeReports
    <3>2. ASSUME Decodes, NEW x \in Code PROVE \E l \in Lane : x \in CodeReports(l)
      <4>1. PICK i \in 1 .. Len(file.codes) : x = <<"code", i>> /\ file.codes[i].bad
        BY <3>2
      <4>2. PICK l \in Lane : CFirst(l) < i /\ i <= COpl(l)
        BY <2>2, OneLane DEF CFirst, COpl
      <4>3. i <= Decoded(l)
        BY <2>1, <3>2, <4>2
      <4>. QED BY <4>1, <4>2, <4>3 DEF CodeReports
    <3>3. ASSUME ~Decodes, NEW l \in Lane PROVE CodeReports(l) = {}
      <4>1. Decoded(l) = CFirst(l) /\ CFirst(l) \in Nat
        BY <2>1, <3>3, MyRange
      <4>. QED BY <2>2, <4>1 DEF CodeReports
    <3>. HIDE DEF Code
    <3>. QED BY <3>1, <3>2, <3>3
  <2>5. UNION {StructureReports(l) : l \in Lane} =
          IF CodeSection # 0 /\ ~file.structure THEN {<<"structure", CodeSection>>} ELSE {}
    BY <2>1, <2>2, LanesFinite DEF StructureReports
  <2>6. All = Sec \cup Rest
    <3>1. All = (UNION {SectionReports(l) : l \in Lane})
                  \cup (UNION {StructureReports(l) : l \in Lane})
                  \cup (UNION {CodeReports(l) : l \in Lane})
      BY DEF Reports
    <3>2. Decodes <=> CodeSection # 0 /\ file.structure
      BY <2>2 DEF Decodes
    <3>. HIDE DEF All, Sec, Code
    <3>3. CASE CodeSection = 0
      BY <2>3, <2>4, <2>5, <3>1, <3>2, <3>3, Zenon
    <3>4. CASE CodeSection # 0 /\ ~file.structure
      BY <2>3, <2>4, <2>5, <3>1, <3>2, <3>4, Zenon
    <3>5. CASE CodeSection # 0 /\ file.structure
      BY <2>3, <2>4, <2>5, <3>1, <3>2, <3>5, Zenon
    <3>. QED BY <3>3, <3>4, <3>5
  <2>7. BadParts = Sec \cup Rest
    BY DEF BadParts
  <2>8. Enumerates(diags, BadParts) /\ diags \in Seq(Part)
    BY <2>1, <2>6, <2>7 DEF RInv, DiagsOK
  <2>9. {diags[i] : i \in 1 .. Len(diags)} = BadParts /\ Len(diags) = Cardinality(BadParts)
    BY <2>8, EnumCount
  <2>. QED BY <2>9 DEF DiagnosticsComplete
<1>. QED BY <1>1, RInvHolds, PTL
=============================================================================
