---------------------------- MODULE BuilderProofs ----------------------------
(***************************************************************************)
(* For any number of threads and functions, and bodies of any size: a      *)
(* function has one builder, a body is written once, and a body without    *)
(* errors is complete.                                                     *)
(***************************************************************************)
EXTENDS Builder, TLAPS, FiniteSetTheorems

States == {"idle", "build", "mark", "verify", "release"}

SharedTypes ==
  /\ flags \in [Function -> SUBSET Flag]
  /\ pc \in [Thread -> States]
  /\ function \in [Thread -> Function \cup {NoFunction}]
  /\ read \in [Thread -> SUBSET Flag]
  /\ DOMAIN body = Function

\* A thread has a function exactly while it builds or ends one.
Occupied == \A t \in Thread : function[t] = NoFunction <=> pc[t] = "idle"

\* Until the function is marked as done, its builder alone decides about its
\* flags, and what the unprotected update has read is what is still there.
Exclusive ==
  \A t \in Thread :
    /\ pc[t] \in {"build", "mark"} => flags[function[t]] = {"In_Progress"}
    /\ pc[t] = "mark" => read[t] = {"In_Progress"}

\* A body is there only if the function is done or about to be marked.
Written ==
  \A f \in Function :
    body[f] # NoBody =>
      "Build_Done" \in flags[f] \/ \E t \in Thread : function[t] = f /\ pc[t] = "mark"

\* The part of the inductive invariant about flags, and who builds what.
BInv == SharedTypes /\ Occupied /\ OneBuilder /\ Exclusive /\ Written

-----------------------------------------------------------------------------
(* What a body contains *)

\* The values of the blocks while block `cur` is open: those of the open
\* block are still in block_values.
Lists(bl, cur, bv) == [i \in 1 .. Len(bl) |-> IF i = cur THEN bv ELSE bl[i].values]

\* The blocks the values were built in.
Homes(vs) == [v \in 1 .. Len(vs) |-> vs[v].block]

\* The lists name each of the values 1 .. n that was built in a block, once
\* and in the list of that block, and nothing else.
InLists(ls, m, n, home) ==
  \A i \in 1 .. m :
    /\ Len(ls[i]) \in 0 .. n
    /\ \A k \in 1 .. Len(ls[i]) : ls[i][k] \in 1 .. n /\ home[ls[i][k]] = i
AllListed(ls, m, n, home) ==
  \A v \in 1 .. n :
    home[v] # 0 => home[v] \in 1 .. m /\ \E k \in 1 .. Len(ls[home[v]]) : ls[home[v]][k] = v
NoneTwice(ls, m) ==
  \A i \in 1 .. m : \A k, h \in 1 .. Len(ls[i]) : ls[i][k] = ls[i][h] => k = h
OnceEach(ls, m, n, home) ==
  InLists(ls, m, n, home) /\ AllListed(ls, m, n, home) /\ NoneTwice(ls, m)

Listed(bl, cur, bv, vs) == OnceEach(Lists(bl, cur, bv), Len(bl), Len(vs), Homes(vs))

\* An open block has the control value of the zero value.
Contents(t) ==
  /\ Len(values[t]) <= MaxValues
  /\ Listed(blocks[t], current[t], blockValues[t], values[t])
  /\ current[t] \in 1 .. Len(blocks[t]) => blocks[t][current[t]].control = 0

\* A body in which no block was left open.
Whole(b) ==
  /\ Len(b.values) <= MaxValues
  /\ (\A i \in 1 .. Len(b.blocks) : b.blocks[i].control # 0) =>
       Listed(b.blocks, 0, <<>>, b.values)

\* The errors of a function that is done are those of the body that is there.
Verified ==
  \A f \in Function :
    "Build_Done" \in flags[f] =>
      \/ errors[f] = Verify(f, body[f])
      \/ \E t \in Thread : function[t] = f /\ pc[t] = "verify"

\* The part of the inductive invariant about bodies.
CInv ==
  /\ TypeOK
  /\ \A t \in Thread : pc[t] = "build" => Contents(t)
  /\ \A f \in Function : Whole(body[f])
  /\ Verified

-----------------------------------------------------------------------------
(* The lists of the blocks *)

LEMMA ListedNone ==
  ASSUME NEW cur, NEW bv PROVE Listed(<<>>, cur, bv, <<>>)
BY DEF Listed, OnceEach, InLists, AllListed, NoneTwice

\* build_begin_block adds an empty list.
LEMMA OnceEachOpen ==
  ASSUME NEW n \in Nat, NEW m \in Nat, NEW home, NEW ls, NEW ls2, OnceEach(ls, m, n, home),
         \A i \in 1 .. m : ls2[i] = ls[i], Len(ls2[m + 1]) = 0
  PROVE  OnceEach(ls2, m + 1, n, home)
<1>1. \A i \in 1 .. m + 1 : i \in 1 .. m \/ i = m + 1
  OBVIOUS
<1>2. InLists(ls2, m + 1, n, home)
  BY <1>1 DEF OnceEach, InLists
<1>3. AllListed(ls2, m + 1, n, home)
  <2>1. SUFFICES ASSUME NEW v \in 1 .. n, home[v] # 0
                 PROVE  /\ home[v] \in 1 .. m + 1
                        /\ \E k \in 1 .. Len(ls2[home[v]]) : ls2[home[v]][k] = v
    BY DEF AllListed
  <2>2. home[v] \in 1 .. m /\ \E k \in 1 .. Len(ls[home[v]]) : ls[home[v]][k] = v
    BY <2>1 DEF OnceEach, AllListed
  <2>3. home[v] \in 1 .. m + 1
    BY <2>2
  <2>. QED BY <2>2, <2>3
<1>4. NoneTwice(ls2, m + 1)
  <2>1. SUFFICES ASSUME NEW i \in 1 .. m + 1, NEW k \in 1 .. Len(ls2[i]), NEW h \in 1 .. Len(ls2[i]),
                        ls2[i][k] = ls2[i][h]
                 PROVE  k = h
    BY DEF NoneTwice
  <2>2. i \in 1 .. m
    BY <1>1
  <2>3. ls2[i] = ls[i]
    BY <2>2
  <2>. QED BY <2>1, <2>2, <2>3 DEF OnceEach, NoneTwice
<1>. QED BY <1>2, <1>3, <1>4 DEF OnceEach

\* _build_value lists the value it adds in the open block.
LEMMA OnceEachValue ==
  ASSUME NEW n \in Nat, NEW m \in Nat, NEW home, NEW home2, NEW ls, NEW ls2, NEW c \in 1 .. m,
         OnceEach(ls, m, n, home),
         \A v \in 1 .. n : home2[v] = home[v], home2[n + 1] = c,
         Len(ls2[c]) = Len(ls[c]) + 1, ls2[c][Len(ls[c]) + 1] = n + 1,
         \A k \in 1 .. Len(ls[c]) : ls2[c][k] = ls[c][k],
         \A i \in 1 .. m : i # c => ls2[i] = ls[i]
  PROVE  OnceEach(ls2, m, n + 1, home2)
<1>1. \A i \in 1 .. m :
        /\ Len(ls[i]) \in 0 .. n
        /\ \A k \in 1 .. Len(ls[i]) : ls[i][k] \in 1 .. n /\ home[ls[i][k]] = i
  BY DEF OnceEach, InLists
<1>2. ASSUME NEW i \in 1 .. m, NEW k \in 1 .. Len(ls2[i])
      PROVE  \/ k \in 1 .. Len(ls[i]) /\ ls2[i][k] = ls[i][k] /\ ls[i][k] \in 1 .. n
             \/ i = c /\ k = Len(ls[c]) + 1 /\ ls2[i][k] = n + 1
  <2>1. CASE i = c
    BY <1>1, <2>1
  <2>2. CASE i # c
    BY <1>1, <2>2
  <2>. QED BY <2>1, <2>2
<1>3. InLists(ls2, m, n + 1, home2)
  <2>1. ASSUME NEW i \in 1 .. m, NEW k \in 1 .. Len(ls2[i])
        PROVE  ls2[i][k] \in 1 .. n + 1 /\ home2[ls2[i][k]] = i
    <3>1. CASE k \in 1 .. Len(ls[i]) /\ ls2[i][k] = ls[i][k] /\ ls[i][k] \in 1 .. n
      <4>1. ls2[i][k] \in 1 .. n + 1
        BY <3>1
      <4>2. home2[ls2[i][k]] = i
        BY <1>1, <3>1
      <4>. QED BY <4>1, <4>2
    <3>2. CASE i = c /\ ls2[i][k] = n + 1
      BY <3>2
    <3>. QED BY <1>2, <3>1, <3>2
  <2>2. ASSUME NEW i \in 1 .. m PROVE Len(ls2[i]) \in 0 .. n + 1
    <3>1. CASE i = c
      BY <1>1, <3>1
    <3>2. CASE i # c
      BY <1>1, <3>2
    <3>. QED BY <3>1, <3>2
  <2>. QED BY <2>1, <2>2 DEF InLists
<1>4. AllListed(ls2, m, n + 1, home2)
  <2>1. SUFFICES ASSUME NEW v \in 1 .. n + 1, home2[v] # 0
                 PROVE  /\ home2[v] \in 1 .. m
                        /\ \E k \in 1 .. Len(ls2[home2[v]]) : ls2[home2[v]][k] = v
    BY DEF AllListed
  <2>2. CASE v = n + 1
    <3>1. Len(ls[c]) + 1 \in 1 .. Len(ls2[c])
      BY <1>1
    <3>. QED BY <2>2, <3>1
  <2>3. CASE v \in 1 .. n
    <3>1. PICK i \in 1 .. m : i = home[v]
      BY <2>1, <2>3 DEF OnceEach, AllListed
    <3>2. PICK k \in 1 .. Len(ls[i]) : ls[i][k] = v
      BY <2>1, <2>3, <3>1 DEF OnceEach, AllListed
    <3>3. k \in 1 .. Len(ls2[i]) /\ ls2[i][k] = v
      <4>1. CASE i = c
        BY <1>1, <3>2, <4>1
      <4>2. CASE i # c
        BY <3>2, <4>2
      <4>. QED BY <4>1, <4>2
    <3>. QED BY <2>3, <3>1, <3>3
  <2>. QED BY <2>2, <2>3
<1>5. NoneTwice(ls2, m)
  <2>1. SUFFICES ASSUME NEW i \in 1 .. m, NEW k \in 1 .. Len(ls2[i]), NEW h \in 1 .. Len(ls2[i]),
                        ls2[i][k] = ls2[i][h]
                 PROVE  k = h
    BY DEF NoneTwice
  <2>2. \A x \in 1 .. n : x # n + 1
    OBVIOUS
  <2>3. CASE ls2[i][k] = n + 1
    <3>1. ls2[i][h] = n + 1
      BY <2>1, <2>3
    <3>. QED BY <1>2, <2>2, <2>3, <3>1
  <2>4. CASE ls2[i][k] # n + 1
    <3>1. /\ k \in 1 .. Len(ls[i]) /\ ls2[i][k] = ls[i][k]
          /\ h \in 1 .. Len(ls[i]) /\ ls2[i][h] = ls[i][h]
      BY <1>2, <2>1, <2>4
    <3>2. ls[i][k] = ls[i][h]
      BY <2>1, <3>1
    <3>. QED BY <3>1, <3>2 DEF OnceEach, NoneTwice
  <2>. QED BY <2>3, <2>4
<1>. QED BY <1>3, <1>4, <1>5 DEF OnceEach

\* _build_value outside of a block lists it nowhere.
LEMMA OnceEachOrphan ==
  ASSUME NEW n \in Nat, NEW m \in Nat, NEW home, NEW home2, NEW ls, NEW ls2,
         OnceEach(ls, m, n, home),
         \A v \in 1 .. n : home2[v] = home[v], home2[n + 1] = 0,
         \A i \in 1 .. m : ls2[i] = ls[i]
  PROVE  OnceEach(ls2, m, n + 1, home2)
<1>1. InLists(ls2, m, n + 1, home2)
  <2>1. SUFFICES ASSUME NEW i \in 1 .. m
                 PROVE  /\ Len(ls[i]) \in 0 .. n + 1
                        /\ \A k \in 1 .. Len(ls[i]) : ls[i][k] \in 1 .. n + 1 /\ home2[ls[i][k]] = i
    BY DEF InLists
  <2>2. /\ Len(ls[i]) \in 0 .. n
        /\ \A k \in 1 .. Len(ls[i]) : ls[i][k] \in 1 .. n /\ home[ls[i][k]] = i
    BY DEF OnceEach, InLists
  <2>. QED BY <2>2
<1>2. AllListed(ls2, m, n + 1, home2)
  <2>1. SUFFICES ASSUME NEW v \in 1 .. n + 1, home2[v] # 0
                 PROVE  /\ home2[v] \in 1 .. m
                        /\ \E k \in 1 .. Len(ls2[home2[v]]) : ls2[home2[v]][k] = v
    BY DEF AllListed
  <2>2. v \in 1 .. n
    BY <2>1
  <2>. QED BY <2>1, <2>2 DEF OnceEach, AllListed
<1>3. NoneTwice(ls2, m)
  BY DEF OnceEach, NoneTwice
<1>. QED BY <1>1, <1>2, <1>3 DEF OnceEach

-----------------------------------------------------------------------------
USE FunctionAssumption

shared == <<flags, pc, function, read, body>>

LEMMA InitBInv == Init => BInv
BY DEF Init, BInv, SharedTypes, Occupied, OneBuilder, Exclusive, Written, States, Flag

LEMMA SharedKept == BInv /\ UNCHANGED shared => BInv'
BY DEF BInv, SharedTypes, Occupied, OneBuilder, Exclusive, Written, shared

\* Two threads that race for f: the one that does not find the flags empty
\* panics and changes nothing.
LEMMA BeginBInv ==
  ASSUME BInv, NEW t \in Thread, NEW f \in Function, Begin(t, f)
  PROVE  BInv' /\ KeepsBodies
<1>. USE DEF BInv, SharedTypes
<1>1. pc[t] = "idle" /\ flags' = [flags EXCEPT ![f] = @ \cup {"In_Progress"}]
      /\ UNCHANGED <<body, read>>
  BY DEF Begin
<1>2. CASE flags[f] # {}
  <2>1. UNCHANGED <<pc, function>>
    BY <1>2 DEF Begin
  <2>2. SharedTypes' /\ Occupied' /\ OneBuilder' /\ Written'
    BY <1>1, <2>1 DEF Occupied, OneBuilder, Written, Flag
  <2>3. Exclusive'
    <3>1. ASSUME NEW u \in Thread, pc[u] \in {"build", "mark"}
          PROVE  flags'[function[u]] = {"In_Progress"}
      <4>1. function[u] \in Function /\ flags[function[u]] = {"In_Progress"}
        BY <3>1 DEF Occupied, Exclusive
      <4>. QED BY <1>1, <4>1
    <3>. QED BY <1>1, <2>1, <3>1 DEF Exclusive
  <2>. QED BY <1>1, <2>2, <2>3 DEF KeepsBodies
<1>3. CASE flags[f] = {}
  <2>1. pc' = [pc EXCEPT ![t] = "build"] /\ function' = [function EXCEPT ![t] = f]
    BY <1>3 DEF Begin
  <2>2. \A u \in Thread : function[u] # f
    BY <1>3 DEF OneBuilder
  <2>3. flags'[f] = {"In_Progress"} /\ \A g \in Function \ {f} : flags'[g] = flags[g]
    BY <1>1, <1>3
  <2>4. SharedTypes' /\ Occupied'
    BY <1>1, <2>1 DEF Occupied, Flag, States
  <2>5. OneBuilder'
    BY <1>1, <2>1, <2>2, <2>3 DEF OneBuilder
  <2>6. Exclusive'
    <3>1. ASSUME NEW u \in Thread \ {t}, pc[u] \in {"build", "mark"}
          PROVE  flags'[function[u]] = {"In_Progress"}
      <4>1. function[u] \in Function \ {f} /\ flags[function[u]] = {"In_Progress"}
        BY <2>2, <3>1 DEF Occupied, Exclusive
      <4>. QED BY <2>3, <4>1
    <3>. QED BY <1>1, <2>1, <2>3, <3>1 DEF Exclusive
  <2>7. Written'
    <3>1. body[f] = NoBody
      BY <1>3, <2>2 DEF Written
    <3>2. ASSUME NEW g \in Function \ {f}, body[g] # NoBody
          PROVE  "Build_Done" \in flags'[g] \/ \E u \in Thread : function'[u] = g /\ pc'[u] = "mark"
      <4>1. CASE "Build_Done" \in flags[g]
        BY <2>3, <4>1
      <4>2. ASSUME NEW u \in Thread, function[u] = g, pc[u] = "mark"
            PROVE  function'[u] = g /\ pc'[u] = "mark"
        BY <1>1, <2>1, <4>2
      <4>. QED BY <3>2, <4>1, <4>2 DEF Written
    <3>. QED BY <1>1, <3>1, <3>2 DEF Written
  <2>. QED BY <1>1, <2>4, <2>5, <2>6, <2>7 DEF KeepsBodies
<1>. QED BY <1>2, <1>3

\* The builder writes the body for the first time.
LEMMA EndBInv ==
  ASSUME BInv, NEW t \in Thread, End(t)
  PROVE  BInv' /\ KeepsBodies
<1>. USE DEF BInv, SharedTypes
<1>1. PICK f \in Function : f = function[t]
  BY DEF End, Occupied
<1>2. /\ pc[t] = "build"
      /\ pc' = [pc EXCEPT ![t] = "mark"]
      /\ read' = [read EXCEPT ![t] = flags[f]]
      /\ UNCHANGED <<flags, function>>
      /\ DOMAIN body' = Function
      /\ \A g \in Function \ {f} : body'[g] = body[g]
  BY <1>1 DEF End
<1>3. flags[f] = {"In_Progress"} /\ \A u \in Thread \ {t} : function[u] # f
  BY <1>1, <1>2 DEF Exclusive, OneBuilder
<1>4. body[f] = NoBody
  BY <1>1, <1>2, <1>3 DEF Written
<1>5. SharedTypes' /\ Occupied' /\ OneBuilder'
  BY <1>1, <1>2, <1>3 DEF Occupied, OneBuilder, States, Flag
<1>6. Exclusive'
  BY <1>1, <1>2, <1>3 DEF Exclusive
<1>7. Written'
  <2>1. function'[t] = f /\ pc'[t] = "mark"
    BY <1>1, <1>2
  <2>2. ASSUME NEW g \in Function \ {f}, body'[g] # NoBody
        PROVE  "Build_Done" \in flags'[g] \/ \E u \in Thread : function'[u] = g /\ pc'[u] = "mark"
    BY <1>2, <2>2 DEF Written
  <2>. QED BY <2>1, <2>2 DEF Written
<1>. QED BY <1>2, <1>4, <1>5, <1>6, <1>7 DEF KeepsBodies

\* function.flags += {._Build_Done} writes back what it has read.
LEMMA MarkDoneBInv ==
  ASSUME BInv, NEW t \in Thread, MarkDone(t)
  PROVE  BInv' /\ KeepsBodies
<1>. USE DEF BInv, SharedTypes
<1>1. PICK f \in Function : f = function[t]
  BY DEF MarkDone, Occupied
<1>2. /\ pc[t] = "mark"
      /\ pc' = [pc EXCEPT ![t] = "verify"]
      /\ flags' = [flags EXCEPT ![f] = read[t] \cup {"Build_Done"}]
      /\ UNCHANGED <<body, read, function>>
  BY <1>1 DEF MarkDone
<1>3. /\ flags'[f] = {"In_Progress", "Build_Done"}
      /\ \A g \in Function \ {f} : flags'[g] = flags[g]
      /\ \A u \in Thread \ {t} : function[u] # f
  BY <1>1, <1>2 DEF Exclusive, OneBuilder
<1>4. SharedTypes' /\ Occupied'
  BY <1>2 DEF Occupied, States, Flag
<1>5. OneBuilder'
  BY <1>1, <1>2, <1>3 DEF OneBuilder
<1>6. Exclusive'
  <2>1. ASSUME NEW u \in Thread \ {t}, pc[u] \in {"build", "mark"}
        PROVE  flags'[function[u]] = {"In_Progress"}
    BY <1>3, <2>1 DEF Exclusive, Occupied
  <2>. QED BY <1>2, <2>1 DEF Exclusive
<1>7. Written'
  <2>1. ASSUME NEW g \in Function \ {f}, body[g] # NoBody
        PROVE  "Build_Done" \in flags'[g] \/ \E u \in Thread : function'[u] = g /\ pc'[u] = "mark"
    <3>1. CASE "Build_Done" \in flags[g]
      BY <1>3, <3>1
    <3>2. ASSUME NEW u \in Thread, function[u] = g, pc[u] = "mark"
          PROVE  function'[u] = g /\ pc'[u] = "mark"
      BY <1>1, <1>2, <3>2
    <3>. QED BY <2>1, <3>1, <3>2 DEF Written
  <2>. QED BY <1>2, <1>3, <2>1 DEF Written
<1>. QED BY <1>2, <1>4, <1>5, <1>6, <1>7 DEF KeepsBodies

LEMMA VerifyBInv ==
  ASSUME BInv, NEW t \in Thread, VerifyFunction(t)
  PROVE  BInv' /\ KeepsBodies
<1>. USE DEF BInv, SharedTypes
<1>1. pc[t] = "verify" /\ pc' = [pc EXCEPT ![t] = "release"] /\ UNCHANGED <<flags, body, read, function>>
  BY DEF VerifyFunction
<1>2. SharedTypes' /\ Occupied' /\ OneBuilder' /\ Exclusive'
  BY <1>1 DEF Occupied, OneBuilder, Exclusive, States
<1>3. \A u \in Thread : pc[u] = "mark" => pc'[u] = "mark"
  BY <1>1
<1>4. Written'
  BY <1>1, <1>3 DEF Written
<1>. QED BY <1>1, <1>2, <1>4 DEF KeepsBodies

LEMMA ReleaseBInv ==
  ASSUME BInv, NEW t \in Thread, Release(t)
  PROVE  BInv' /\ KeepsBodies
<1>. USE DEF BInv, SharedTypes
<1>1. PICK f \in Function : f = function[t]
  BY DEF Release, Occupied
<1>2. /\ pc[t] = "release"
      /\ pc' = [pc EXCEPT ![t] = "idle"]
      /\ function' = [function EXCEPT ![t] = NoFunction]
      /\ read' = [read EXCEPT ![t] = {}]
      /\ flags' = [flags EXCEPT ![f] = @ \ {"In_Progress"}]
      /\ UNCHANGED body
  BY <1>1 DEF Release
<1>3. /\ \A u \in Thread \ {t} : function[u] # f /\ function'[u] = function[u] /\ pc'[u] = pc[u]
      /\ \A g \in Function \ {f} : flags'[g] = flags[g]
      /\ flags'[f] = flags[f] \ {"In_Progress"}
  BY <1>1, <1>2 DEF OneBuilder
<1>4. SharedTypes' /\ Occupied'
  BY <1>2 DEF Occupied, States, Flag
<1>5. OneBuilder'
  BY <1>2, <1>3 DEF OneBuilder
<1>6. Exclusive'
  <2>1. ASSUME NEW u \in Thread \ {t}, pc[u] \in {"build", "mark"}
        PROVE  flags'[function[u]] = {"In_Progress"}
    BY <1>3, <2>1 DEF Exclusive, Occupied
  <2>. QED BY <1>2, <2>1 DEF Exclusive
<1>7. Written'
  <2>1. ASSUME NEW g \in Function, body[g] # NoBody
        PROVE  "Build_Done" \in flags'[g] \/ \E u \in Thread : function'[u] = g /\ pc'[u] = "mark"
    <3>1. CASE "Build_Done" \in flags[g]
      BY <1>3, <3>1
    <3>2. ASSUME NEW u \in Thread, function[u] = g, pc[u] = "mark"
          PROVE  function'[u] = g /\ pc'[u] = "mark"
      BY <1>2, <1>3, <3>2
    <3>. QED BY <2>1, <3>1, <3>2 DEF Written
  <2>. QED BY <1>2, <2>1 DEF Written
<1>. QED BY <1>2, <1>4, <1>5, <1>6, <1>7 DEF KeepsBodies

-----------------------------------------------------------------------------
LEMMA StepBInv == BInv /\ [Next]_vars => BInv' /\ KeepsBodies
<1>. SUFFICES ASSUME BInv, [Next]_vars PROVE BInv' /\ KeepsBodies
  OBVIOUS
<1>0. UNCHANGED shared => BInv' /\ KeepsBodies
  BY SharedKept DEF KeepsBodies, shared
<1>1. ASSUME NEW f \in Function, Add(f) PROVE UNCHANGED shared
  BY <1>1 DEF Add, shared
<1>2. CASE Freeze
  BY <1>0, <1>2 DEF Freeze, shared
<1>3. CASE UNCHANGED vars
  BY <1>0, <1>3 DEF vars, moduleVars, shared
<1>4. ASSUME NEW t \in Thread, Build(t) PROVE BInv' /\ KeepsBodies
  <2>1. ASSUME BeginNested(t) \/ BeginBlock(t) \/ EndBlock(t) PROVE UNCHANGED shared
    BY <2>1 DEF BeginNested, BeginBlock, EndBlock, moduleVars, shared
  <2>2. ASSUME NEW op, NEW imm, NEW type, Value(t, op, imm, type) PROVE UNCHANGED shared
    BY <2>2 DEF Value, moduleVars, shared
  <2>3. ASSUME NEW i, SetControl(t, i) \/ SetStart(t, i) PROVE UNCHANGED shared
    BY <2>3 DEF SetControl, SetStart, moduleVars, shared
  <2>4. ASSUME InitMemory(t) \/ Const32(t) \/ \E i \in Index : Argument(t, i) \/ ReturnValue(t, i)
        PROVE  UNCHANGED shared
    BY <2>2, <2>4 DEF InitMemory, Const32, Argument, ReturnValue
  <2>. QED
    BY <1>0, <1>4, <2>1, <2>3, <2>4, BeginBInv, EndBInv, MarkDoneBInv, VerifyBInv, ReleaseBInv
    DEF Build
<1>. QED BY <1>0, <1>1, <1>2, <1>3, <1>4 DEF Next

LEMMA BInvHolds == Spec => []BInv
<1>1. BInv /\ [Next]_vars => BInv'
  BY StepBInv
<1>. QED BY <1>1, InitBInv, PTL DEF Spec

\* build_function_begin lets one thread into a function, and the flags say
\* so until build_function_end leaves it.
THEOREM OneBuilderEach == Spec => []OneBuilder
<1>1. BInv => OneBuilder
  BY DEF BInv
<1>. QED BY <1>1, BInvHolds, PTL

\* build_function_end never writes a body that is there already.
THEOREM WrittenOnce == Spec => BodiesAreFinal
<1>1. BInv /\ [Next]_vars => [KeepsBodies]_vars
  BY StepBInv
<1>. QED BY <1>1, BInvHolds, PTL DEF Spec, BodiesAreFinal

-----------------------------------------------------------------------------
(* Bodies *)

BodyRecord == [blocks : Seq(BlockRecord), values : Seq(ValueRecord), start : Nat]

\* Verify reports errors of the three kinds, at ids of blocks and values.
LEMMA VerifyType ==
  ASSUME NEW f \in Function, NEW b \in BodyRecord
  PROVE  Verify(f, b) \subseteq {"start", "control", "value"} \X Nat
<1>. USE DEF BodyRecord
<1>. DEFINE blockIds == 1 .. Len(b.blocks)
            used == {p \in blockIds \X (1 .. Len(b.values)) : p[2] <= Len(b.blocks[p[1]].values)}
<1>1. {<<"control", i>> : i \in {j \in blockIds : ControlError(b, j)}} \subseteq {"start", "control", "value"} \X Nat
  OBVIOUS
<1>2. ASSUME NEW p \in used PROVE b.blocks[p[1]].values[p[2]] \in Nat
  <2>1. p[1] \in 1 .. Len(b.blocks) /\ p[2] \in Nat /\ p[2] >= 1 /\ p[2] <= Len(b.blocks[p[1]].values)
    OBVIOUS
  <2>2. b.blocks[p[1]] \in BlockRecord
    BY <2>1
  <2>3. b.blocks[p[1]].values \in Seq(1 .. MaxValues)
    BY <2>2 DEF BlockRecord
  <2>4. p[2] \in 1 .. Len(b.blocks[p[1]].values)
    BY <2>1, <2>3
  <2>. QED BY <2>3, <2>4
<1>. QED BY <1>1, <1>2 DEF Verify

LEMMA InitCInv == Init => CInv
<1>. SUFFICES ASSUME Init PROVE CInv
  OBVIOUS
<1>1. TypeOK
  <2>1. NoBody \in BodyRecord
    BY DEF NoBody, BodyRecord
  <2>2. body \in [Function -> BodyRecord] /\ errors \in [Function -> SUBSET ({"start", "control", "value"} \X Nat)]
    BY <2>1 DEF Init
  <2>3. /\ blocks \in [Thread -> Seq(BlockRecord)] /\ values \in [Thread -> Seq(ValueRecord)]
        /\ blockValues \in [Thread -> Seq(1 .. MaxValues)]
    BY DEF Init
  <2>4. flags \in [Function -> SUBSET Flag] /\ read \in [Thread -> SUBSET Flag]
    BY DEF Init
  <2>5. /\ pc \in [Thread -> {"idle", "build", "mark", "verify", "release"}]
        /\ function \in [Thread -> Function \cup {NoFunction}]
        /\ current \in [Thread -> 0 .. MaxBlocks]
        /\ control \in [Thread -> Nat] /\ start \in [Thread -> Nat]
    BY DEF Init
  <2>6. added \subseteq Function /\ frozen \in BOOLEAN /\ panicked \in BOOLEAN
    BY DEF Init
  <2>. QED BY <2>2, <2>3, <2>4, <2>5, <2>6 DEF TypeOK, BodyRecord
<1>2. ASSUME NEW f \in Function PROVE Whole(body[f])
  <2>1. body[f].blocks = <<>> /\ body[f].values = <<>>
    BY DEF Init, NoBody
  <2>. QED BY <2>1, ListedNone DEF Whole
<1>. QED BY <1>1, <1>2 DEF Init, CInv, Verified

\* Steps of a thread inside its function leave the rest alone.
Inside(t) ==
  /\ pc[t] = "build"
  /\ UNCHANGED <<moduleVars, pc, read, function>>

LEMMA InsideCInv ==
  ASSUME CInv, NEW t \in Thread, Inside(t), TypeOK', Contents(t)',
         \A u \in Thread \ {t} : /\ current'[u] = current[u] /\ blocks'[u] = blocks[u]
                                 /\ values'[u] = values[u] /\ blockValues'[u] = blockValues[u]
  PROVE  CInv'
<1>1. ASSUME NEW u \in Thread, pc'[u] = "build" PROVE Contents(u)'
  BY <1>1 DEF CInv, Inside, Contents
<1>2. Verified'
  BY DEF CInv, Inside, Verified, moduleVars
<1>. QED BY <1>1, <1>2 DEF CInv, Inside, moduleVars

\* build_begin_block
LEMMA BeginBlockCInv ==
  ASSUME CInv, NEW t \in Thread, BeginBlock(t)
  PROVE  CInv'
<1>. DEFINE n == Len(values[t])
            m == Len(blocks[t])
<1>1. TypeOK /\ Contents(t) /\ pc[t] = "build"
  BY DEF CInv, BeginBlock
<1>2. Inside(t)
  BY <1>1 DEF BeginBlock, Inside
<1>3. m \in Nat /\ n \in Nat /\ m < MaxBlocks /\ blocks[t] \in Seq(BlockRecord) /\ current[t] \in Nat
  BY <1>1 DEF TypeOK, BeginBlock
<1>4. CASE current[t] # 0
  <2>1. UNCHANGED <<blocks, blockValues, current, values, control, start>> /\ panicked' = TRUE
    BY <1>4 DEF BeginBlock
  <2>2. TypeOK' /\ Contents(t)'
    BY <1>1, <1>2, <2>1 DEF TypeOK, Contents, Inside, moduleVars
  <2>. QED BY <1>2, <2>1, <2>2, InsideCInv
<1>5. CASE current[t] = 0
  <2>1. /\ blocks' = [blocks EXCEPT ![t] = Append(blocks[t], NewBlock)]
        /\ blockValues' = [blockValues EXCEPT ![t] = <<>>]
        /\ current' = [current EXCEPT ![t] = m + 1]
        /\ UNCHANGED <<panicked, values, control, start>>
    BY <1>5 DEF BeginBlock
  <2>2. NewBlock \in BlockRecord /\ <<>> \in Seq(1 .. MaxValues)
    BY DEF NewBlock, BlockRecord
  <2>3. Append(blocks[t], NewBlock) \in Seq(BlockRecord) /\ m + 1 \in 0 .. MaxBlocks
    BY <1>3, <2>2
  <2>4. TypeOK'
    <3>1. blocks' \in [Thread -> Seq(BlockRecord)] /\ blockValues' \in [Thread -> Seq(1 .. MaxValues)]
          /\ current' \in [Thread -> 0 .. MaxBlocks]
      BY <1>1, <2>1, <2>2, <2>3 DEF TypeOK
    <3>. QED BY <1>1, <1>2, <2>1, <3>1 DEF TypeOK, Inside, moduleVars
  <2>5. /\ blocks'[t] = Append(blocks[t], NewBlock) /\ blockValues'[t] = <<>> /\ current'[t] = m + 1
        /\ values'[t] = values[t]
    BY <1>1, <2>1 DEF TypeOK
  <2>6. /\ Len(blocks'[t]) = m + 1
        /\ \A i \in 1 .. m : blocks'[t][i] = blocks[t][i]
        /\ blocks'[t][m + 1] = NewBlock
    BY <1>3, <2>5
  <2>7. Listed(blocks'[t], current'[t], blockValues'[t], values[t])
    <3>. DEFINE home == Homes(values[t])
                ls == Lists(blocks[t], current[t], blockValues[t])
                ls2 == Lists(blocks'[t], current'[t], blockValues'[t])
    <3>1. OnceEach(ls, m, n, home)
      BY <1>1 DEF Contents, Listed
    <3>2. ASSUME NEW i \in 1 .. m PROVE ls2[i] = ls[i]
      <4>1. i \in 1 .. m + 1 /\ i # m + 1 /\ i # 0
        BY <1>3
      <4>. QED BY <1>5, <2>5, <2>6, <4>1 DEF Lists
    <3>3. Len(ls2[m + 1]) = 0
      <4>1. m + 1 \in 1 .. m + 1
        BY <1>3
      <4>2. ls2[m + 1] = <<>>
        BY <2>5, <2>6, <4>1 DEF Lists
      <4>. QED BY <4>2
    <3>. HIDE DEF ls, ls2, n, m, home
    <3>4. OnceEach(ls2, m + 1, n, home)
      BY <1>3, <3>1, <3>2, <3>3, OnceEachOpen
    <3>. QED BY <2>6, <3>4 DEF ls2, n, home, Listed
  <2>8. Contents(t)'
    BY <1>1, <2>5, <2>6, <2>7 DEF Contents, NewBlock
  <2>9. \A u \in Thread \ {t} : /\ current'[u] = current[u] /\ blocks'[u] = blocks[u]
                                /\ values'[u] = values[u] /\ blockValues'[u] = blockValues[u]
    BY <1>1, <2>1 DEF TypeOK
  <2>. QED BY <1>2, <2>4, <2>8, <2>9, InsideCInv
<1>. QED BY <1>4, <1>5

\* build_end_block closes the open block with the values listed for it.
LEMMA EndBlockCInv ==
  ASSUME CInv, NEW t \in Thread, EndBlock(t)
  PROVE  CInv'
<1>. DEFINE n == Len(values[t])
            m == Len(blocks[t])
            c == current[t]
<1>1. TypeOK /\ Contents(t) /\ pc[t] = "build"
  BY DEF CInv, EndBlock
<1>2. Inside(t)
  BY <1>1 DEF EndBlock, Inside
<1>3. m \in Nat /\ n \in Nat /\ blocks[t] \in Seq(BlockRecord) /\ c \in Nat
      /\ control[t] \in Nat /\ blockValues[t] \in Seq(1 .. MaxValues)
  BY <1>1 DEF TypeOK
<1>4. CASE ~InBlock(t)
  <2>1. UNCHANGED <<blocks, blockValues, current, values, control, start>> /\ panicked' = TRUE
    BY <1>4 DEF EndBlock
  <2>2. TypeOK' /\ Contents(t)'
    BY <1>1, <1>2, <2>1 DEF TypeOK, Contents, Inside, moduleVars
  <2>. QED BY <1>2, <2>1, <2>2, InsideCInv
<1>5. CASE InBlock(t)
  <2>. DEFINE closed == [control |-> control[t], values |-> blockValues[t]]
  <2>1. /\ blocks' = [blocks EXCEPT ![t][c] = closed]
        /\ current' = [current EXCEPT ![t] = 0]
        /\ UNCHANGED <<panicked, values, blockValues, control, start>>
    BY <1>5 DEF EndBlock
  <2>2. c \in 1 .. m
    BY <1>5 DEF InBlock
  <2>3. /\ blocks' \in [Thread -> Seq(BlockRecord)]
        /\ Len(blocks'[t]) = m
        /\ \A i \in 1 .. m : i # c => blocks'[t][i] = blocks[t][i]
        /\ blocks'[t][c] = closed
        /\ \A u \in Thread \ {t} : blocks'[u] = blocks[u]
    <3>1. blocks' = [blocks EXCEPT ![t] = [blocks[t] EXCEPT ![c] = closed]]
      BY <2>1
    <3>2. closed \in BlockRecord
      BY <1>3 DEF BlockRecord
    <3>. HIDE DEF closed
    <3>3. /\ [blocks[t] EXCEPT ![c] = closed] \in Seq(BlockRecord)
          /\ Len([blocks[t] EXCEPT ![c] = closed]) = m
          /\ \A i \in 1 .. m : i # c => [blocks[t] EXCEPT ![c] = closed][i] = blocks[t][i]
          /\ [blocks[t] EXCEPT ![c] = closed][c] = closed
      BY <1>3, <2>2, <3>2
    <3>. QED BY <1>1, <3>1, <3>3 DEF TypeOK
  <2>4. TypeOK'
    <3>1. current' \in [Thread -> 0 .. MaxBlocks]
      BY <1>1, <2>1 DEF TypeOK
    <3>. QED BY <1>1, <1>2, <2>1, <2>3, <3>1 DEF TypeOK, Inside, moduleVars
  <2>5. current'[t] = 0 /\ values'[t] = values[t] /\ blockValues'[t] = blockValues[t]
    BY <1>1, <2>1 DEF TypeOK
  <2>6. Lists(blocks'[t], current'[t], blockValues'[t]) = Lists(blocks[t], current[t], blockValues[t])
    <3>1. ASSUME NEW i \in 1 .. m
          PROVE  (IF i = current'[t] THEN blockValues'[t] ELSE blocks'[t][i].values)
                 = (IF i = c THEN blockValues[t] ELSE blocks[t][i].values)
      <4>1. i # 0
        BY <1>3
      <4>2. CASE i = c
        BY <2>3, <2>5, <4>1, <4>2
      <4>3. CASE i # c
        BY <2>3, <2>5, <4>1, <4>3
      <4>. QED BY <4>2, <4>3
    <3>. QED BY <2>3, <3>1 DEF Lists
  <2>7. Listed(blocks'[t], current'[t], blockValues'[t], values[t])
    BY <1>1, <2>3, <2>6 DEF Contents, Listed
  <2>8. Contents(t)'
    BY <1>1, <1>3, <2>5, <2>7 DEF Contents
  <2>9. \A u \in Thread \ {t} : /\ current'[u] = current[u] /\ blocks'[u] = blocks[u]
                                /\ values'[u] = values[u] /\ blockValues'[u] = blockValues[u]
    BY <1>1, <2>1, <2>3 DEF TypeOK
  <2>. QED BY <1>2, <2>4, <2>8, <2>9, InsideCInv
<1>. QED BY <1>4, <1>5

\* _build_value
LEMMA ValueCInv ==
  ASSUME CInv, NEW t \in Thread, NEW op, NEW imm, NEW type,
         \A h \in 0 .. MaxBlocks :
           [operator |-> op, immediate |-> imm, type |-> type, block |-> h] \in ValueRecord,
         Value(t, op, imm, type)
  PROVE  CInv'
<1>. DEFINE n == Len(values[t])
            m == Len(blocks[t])
            c == current[t]
            bv == blockValues[t]
            v == [operator |-> op, immediate |-> imm, type |-> type, block |-> OpenBlock(t)]
<1>1. TypeOK /\ Contents(t) /\ pc[t] = "build" /\ n < MaxValues
  BY DEF CInv, Value
<1>2. Inside(t)
  BY <1>1 DEF Value, Inside
<1>3. m \in Nat /\ n \in Nat /\ c \in 0 .. MaxBlocks /\ bv \in Seq(1 .. MaxValues) /\ values[t] \in Seq(ValueRecord)
  BY <1>1 DEF TypeOK
<1>4. /\ values' = [values EXCEPT ![t] = Append(values[t], v)]
      /\ blockValues' = [blockValues EXCEPT ![t] = Append(bv, n + 1)]
      /\ UNCHANGED <<current, blocks, control, start>>
      /\ panicked' \in BOOLEAN
  BY DEF Value
<1>5. v \in ValueRecord /\ v.block = OpenBlock(t)
  <2>1. OpenBlock(t) \in 0 .. MaxBlocks
    BY <1>3 DEF OpenBlock
  <2>. QED BY <2>1
<1>. HIDE DEF v
<1>6. /\ Append(values[t], v) \in Seq(ValueRecord) /\ Len(Append(values[t], v)) = n + 1
      /\ \A u \in 1 .. n : Append(values[t], v)[u] = values[t][u]
      /\ Append(values[t], v)[n + 1] = v
  BY <1>3, <1>5
<1>7. /\ Append(bv, n + 1) \in Seq(1 .. MaxValues)
      /\ Len(Append(bv, n + 1)) = Len(bv) + 1
      /\ Append(bv, n + 1)[Len(bv) + 1] = n + 1
      /\ \A k \in 1 .. Len(bv) : Append(bv, n + 1)[k] = bv[k]
  <2>1. n + 1 \in 1 .. MaxValues
    BY <1>1, <1>3
  <2>. HIDE DEF n
  <2>. QED BY <1>3, <2>1
<1>8. TypeOK'
  <2>1. values' \in [Thread -> Seq(ValueRecord)] /\ blockValues' \in [Thread -> Seq(1 .. MaxValues)]
    BY <1>1, <1>4, <1>6, <1>7 DEF TypeOK
  <2>. QED BY <1>1, <1>2, <1>4, <2>1 DEF TypeOK, Inside, moduleVars
<1>9. /\ values'[t] = Append(values[t], v) /\ blockValues'[t] = Append(bv, n + 1)
      /\ current'[t] = c /\ blocks'[t] = blocks[t]
  BY <1>1, <1>4 DEF TypeOK
<1>10. Listed(blocks[t], c, Append(bv, n + 1), Append(values[t], v))
  <2>. DEFINE home == Homes(values[t])
              home2 == Homes(Append(values[t], v))
              ls == Lists(blocks[t], c, bv)
              ls2 == Lists(blocks[t], c, Append(bv, n + 1))
  <2>1. OnceEach(ls, m, n, home)
    BY <1>1 DEF Contents, Listed
  <2>2. (\A u \in 1 .. n : home2[u] = home[u]) /\ home2[n + 1] = OpenBlock(t)
    <3>1. ASSUME NEW u \in 1 .. n PROVE home2[u] = home[u]
      <4>1. u \in 1 .. n + 1
        BY <1>3
      <4>2. home2[u] = Append(values[t], v)[u].block
        BY <1>6, <4>1 DEF Homes
      <4>3. home[u] = values[t][u].block
        BY DEF Homes
      <4>. QED BY <1>6, <4>2, <4>3
    <3>2. n + 1 \in 1 .. n + 1
      BY <1>3
    <3>3. home2[n + 1] = Append(values[t], v)[n + 1].block
      BY <1>6, <3>2 DEF Homes
    <3>. QED BY <1>5, <1>6, <3>1, <3>3
  <2>3. \A i \in 1 .. m : i # c => ls2[i] = ls[i]
    BY DEF Lists
  <2>4. CASE InBlock(t)
    <3>1. c \in 1 .. m /\ OpenBlock(t) = c
      BY <2>4 DEF InBlock, OpenBlock
    <3>2. ls[c] = bv /\ ls2[c] = Append(bv, n + 1)
      BY <3>1 DEF Lists
    <3>. HIDE DEF ls, ls2, home, home2
    <3>3. /\ Len(ls2[c]) = Len(ls[c]) + 1 /\ ls2[c][Len(ls[c]) + 1] = n + 1
          /\ \A k \in 1 .. Len(ls[c]) : ls2[c][k] = ls[c][k]
      BY <1>7, <3>2
    <3>. HIDE DEF n, m, c, bv
    <3>4. OnceEach(ls2, m, n + 1, home2)
      BY <1>3, <2>1, <2>2, <2>3, <3>1, <3>3, OnceEachValue
    <3>. QED BY <1>6, <3>4 DEF ls2, home2, m, Listed
  <2>5. CASE ~InBlock(t)
    <3>1. c \notin 1 .. m /\ OpenBlock(t) = 0
      BY <1>1, <2>5 DEF InBlock, OpenBlock
    <3>2. \A i \in 1 .. m : ls2[i] = ls[i]
      BY <2>3, <3>1
    <3>. HIDE DEF ls, ls2, home, home2, n, m, c, bv
    <3>3. OnceEach(ls2, m, n + 1, home2)
      BY <1>3, <2>1, <2>2, <3>1, <3>2, OnceEachOrphan
    <3>. QED BY <1>6, <3>3 DEF ls2, home2, m, Listed
  <2>. QED BY <2>4, <2>5
<1>11. Contents(t)'
  <2>1. n + 1 <= MaxValues
    BY <1>1, <1>3
  <2>. QED BY <1>1, <1>6, <1>9, <1>10, <2>1 DEF Contents
<1>12. \A u \in Thread \ {t} : /\ current'[u] = current[u] /\ blocks'[u] = blocks[u]
                               /\ values'[u] = values[u] /\ blockValues'[u] = blockValues[u]
  BY <1>1, <1>4 DEF TypeOK
<1>. QED BY <1>2, <1>8, <1>11, <1>12, InsideCInv

\* build_block_set_control_value and build_set_start_block
LEMMA SetCInv ==
  ASSUME CInv, NEW t \in Thread, NEW i \in Nat, SetControl(t, i) \/ SetStart(t, i)
  PROVE  CInv'
<1>1. TypeOK /\ Contents(t)
  BY DEF CInv, SetControl, SetStart
<1>2. Inside(t) /\ UNCHANGED <<current, blocks, values, blockValues>>
  BY DEF SetControl, SetStart, Inside
<1>3. control' \in [Thread -> Nat] /\ start' \in [Thread -> Nat] /\ panicked' \in BOOLEAN
  <2>1. CASE SetControl(t, i)
    <3>1. control' = control \/ control' = [control EXCEPT ![t] = i]
      BY <2>1 DEF SetControl
    <3>2. panicked' \in BOOLEAN /\ start' = start
      BY <2>1 DEF SetControl
    <3>. QED BY <1>1, <3>1, <3>2 DEF TypeOK
  <2>2. CASE SetStart(t, i)
    BY <1>1, <2>2 DEF TypeOK, SetStart
  <2>. QED BY <2>1, <2>2
<1>4. TypeOK' /\ Contents(t)'
  BY <1>1, <1>2, <1>3 DEF TypeOK, Contents, Inside, moduleVars
<1>. QED BY <1>2, <1>4, InsideCInv

\* build_function_begin starts with nothing.
LEMMA BeginCInv ==
  ASSUME BInv, CInv, NEW t \in Thread, NEW f \in Function, Begin(t, f)
  PROVE  CInv'
<1>1. TypeOK
  BY DEF CInv
<1>2. /\ flags' = [flags EXCEPT ![f] = @ \cup {"In_Progress"}]
      /\ UNCHANGED <<added, frozen, body, errors, read, current, blockValues, control>>
      /\ pc[t] = "idle"
  BY DEF Begin
<1>3. flags' \in [Function -> SUBSET Flag] /\ \A g \in Function : "Build_Done" \in flags'[g] => "Build_Done" \in flags[g]
  BY <1>1, <1>2 DEF TypeOK, Flag
<1>4. CASE flags[f] # {}
  <2>1. UNCHANGED <<pc, function, blocks, values, start>> /\ panicked' = TRUE
    BY <1>4 DEF Begin
  <2>2. TypeOK'
    BY <1>1, <1>2, <1>3, <2>1 DEF TypeOK
  <2>3. Verified'
    BY <1>2, <1>3, <2>1 DEF CInv, Verified
  <2>. QED BY <1>2, <2>1, <2>2, <2>3 DEF CInv, Contents
<1>5. CASE flags[f] = {}
  <2>1. /\ pc' = [pc EXCEPT ![t] = "build"]
        /\ function' = [function EXCEPT ![t] = f]
        /\ blocks' = [blocks EXCEPT ![t] = <<>>]
        /\ values' = [values EXCEPT ![t] = <<>>]
        /\ start' = [start EXCEPT ![t] = 0]
        /\ UNCHANGED panicked
    BY <1>5 DEF Begin
  <2>2. TypeOK'
    <3>1. blocks' \in [Thread -> Seq(BlockRecord)] /\ values' \in [Thread -> Seq(ValueRecord)]
      BY <1>1, <2>1 DEF TypeOK
    <3>2. /\ pc' \in [Thread -> {"idle", "build", "mark", "verify", "release"}]
          /\ function' \in [Thread -> Function \cup {NoFunction}]
          /\ start' \in [Thread -> Nat]
      BY <1>1, <2>1 DEF TypeOK
    <3>. QED BY <1>1, <1>2, <1>3, <2>1, <3>1, <3>2 DEF TypeOK
  <2>3. ASSUME NEW u \in Thread, pc'[u] = "build" PROVE Contents(u)'
    <3>1. CASE u = t
      <4>1. blocks'[t] = <<>> /\ values'[t] = <<>>
        BY <1>1, <2>1 DEF TypeOK
      <4>2. Listed(blocks'[t], current'[t], blockValues'[t], values'[t])
        BY <4>1, ListedNone
      <4>. QED BY <3>1, <4>1, <4>2 DEF Contents
    <3>2. CASE u # t
      <4>1. /\ pc'[u] = pc[u] /\ blocks'[u] = blocks[u] /\ values'[u] = values[u]
            /\ current'[u] = current[u] /\ blockValues'[u] = blockValues[u]
        BY <1>1, <1>2, <2>1, <3>2 DEF TypeOK
      <4>. QED BY <2>3, <4>1 DEF CInv, Contents
    <3>. QED BY <3>1, <3>2
  <2>4. Verified'
    <3>1. \A u \in Thread : pc[u] = "verify" => pc'[u] = "verify" /\ function'[u] = function[u]
      BY <1>1, <1>2, <2>1 DEF TypeOK
    <3>. QED BY <1>2, <1>3, <3>1 DEF CInv, Verified
  <2>. QED BY <1>2, <2>2, <2>3, <2>4 DEF CInv
<1>. QED BY <1>4, <1>5

\* Steps of build_function_end leave the contexts of the threads alone and no
\* further thread builds.
LEMMA EndingCInv ==
  ASSUME CInv, NEW t \in Thread, TypeOK', Verified', UNCHANGED bodyVars,
         pc'[t] # "build", \A u \in Thread \ {t} : pc'[u] = pc[u],
         \A f \in Function : Whole(body'[f])
  PROVE  CInv'
<1>1. ASSUME NEW u \in Thread, pc'[u] = "build" PROVE Contents(u)'
  BY <1>1 DEF CInv, Contents, bodyVars
<1>. QED BY <1>1 DEF CInv

\* A block that is left open is seen in the body: its control value is 0.
LEMMA EndCInv ==
  ASSUME BInv, CInv, NEW t \in Thread, End(t)
  PROVE  CInv'
<1>. DEFINE b == [blocks |-> blocks[t], values |-> values[t], start |-> start[t]]
<1>1. TypeOK /\ Contents(t) /\ pc[t] = "build"
  BY DEF CInv, End
<1>2. PICK f \in Function : f = function[t]
  BY <1>1 DEF BInv, SharedTypes, Occupied
<1>3. /\ body' = [body EXCEPT ![f] = b]
      /\ read' = [read EXCEPT ![t] = flags[f]]
      /\ pc' = [pc EXCEPT ![t] = "mark"]
      /\ UNCHANGED <<added, frozen, flags, errors, panicked, function, bodyVars>>
  BY <1>2 DEF End
<1>4. b \in BodyRecord
  BY <1>1 DEF TypeOK, BodyRecord
<1>5. TypeOK'
  <2>1. body' \in [Function -> BodyRecord]
    BY <1>1, <1>3, <1>4 DEF TypeOK, BodyRecord
  <2>2. /\ read' \in [Thread -> SUBSET Flag]
        /\ pc' \in [Thread -> {"idle", "build", "mark", "verify", "release"}]
    BY <1>1, <1>3 DEF TypeOK
  <2>. HIDE DEF b
  <2>. QED BY <1>1, <1>3, <2>1, <2>2 DEF TypeOK, BodyRecord, bodyVars
<1>6. Whole(b)
  <2>1. SUFFICES ASSUME \A i \in 1 .. Len(blocks[t]) : blocks[t][i].control # 0
                 PROVE  Listed(blocks[t], 0, <<>>, values[t])
    BY <1>1 DEF Whole, Contents
  <2>2. current[t] \notin 1 .. Len(blocks[t])
    BY <1>1, <2>1 DEF Contents
  <2>3. Len(blocks[t]) \in Nat
    BY <1>1 DEF TypeOK
  <2>4. Lists(blocks[t], 0, <<>>) = Lists(blocks[t], current[t], blockValues[t])
    BY <2>2, <2>3 DEF Lists
  <2>. QED BY <1>1, <2>4 DEF Contents, Listed
<1>7. ASSUME NEW g \in Function PROVE Whole(body'[g])
  <2>. HIDE DEF b
  <2>. QED BY <1>1, <1>3, <1>6 DEF TypeOK, CInv
<1>8. Verified'
  <2>1. flags[f] = {"In_Progress"}
    BY <1>1, <1>2 DEF BInv, Exclusive
  <2>2. SUFFICES ASSUME NEW g \in Function, "Build_Done" \in flags[g]
                 PROVE  errors[g] = Verify(g, body'[g]) \/ \E u \in Thread : function[u] = g /\ pc'[u] = "verify"
    BY <1>3 DEF Verified
  <2>3. g # f
    BY <2>1, <2>2
  <2>4. body'[g] = body[g]
    BY <1>1, <1>3, <2>3 DEF TypeOK
  <2>5. \A u \in Thread : pc[u] = "verify" => pc'[u] = "verify"
    BY <1>1, <1>3 DEF TypeOK
  <2>. QED BY <2>2, <2>4, <2>5 DEF CInv, Verified
<1>9. pc'[t] # "build" /\ (\A u \in Thread \ {t} : pc'[u] = pc[u]) /\ UNCHANGED bodyVars
  BY <1>1, <1>3 DEF TypeOK
<1>. QED BY <1>5, <1>7, <1>8, <1>9, EndingCInv

LEMMA MarkDoneCInv ==
  ASSUME BInv, CInv, NEW t \in Thread, MarkDone(t)
  PROVE  CInv'
<1>1. TypeOK /\ pc[t] = "mark"
  BY DEF CInv, MarkDone
<1>2. PICK f \in Function : f = function[t]
  BY <1>1 DEF BInv, SharedTypes, Occupied
<1>3. /\ flags' = [flags EXCEPT ![f] = read[t] \cup {"Build_Done"}]
      /\ pc' = [pc EXCEPT ![t] = "verify"]
      /\ UNCHANGED <<added, frozen, body, errors, panicked, read, function, bodyVars>>
  BY <1>2 DEF MarkDone
<1>4. TypeOK'
  <2>1. /\ flags' \in [Function -> SUBSET Flag]
        /\ pc' \in [Thread -> {"idle", "build", "mark", "verify", "release"}]
    BY <1>1, <1>3 DEF TypeOK, Flag
  <2>. QED BY <1>1, <1>3, <2>1 DEF TypeOK, bodyVars
<1>5. Verified'
  <2>1. SUFFICES ASSUME NEW g \in Function, "Build_Done" \in flags'[g]
                 PROVE  errors[g] = Verify(g, body[g]) \/ \E u \in Thread : function[u] = g /\ pc'[u] = "verify"
    BY <1>3 DEF Verified
  <2>2. CASE g = f
    BY <1>1, <1>2, <1>3, <2>2 DEF TypeOK
  <2>3. CASE g # f
    <3>1. "Build_Done" \in flags[g]
      BY <1>1, <1>3, <2>1, <2>3 DEF TypeOK
    <3>2. \A u \in Thread : pc[u] = "verify" => pc'[u] = "verify"
      BY <1>1, <1>3 DEF TypeOK
    <3>. QED BY <3>1, <3>2 DEF CInv, Verified
  <2>. QED BY <2>2, <2>3
<1>6. /\ pc'[t] # "build" /\ (\A u \in Thread \ {t} : pc'[u] = pc[u]) /\ UNCHANGED bodyVars
      /\ \A g \in Function : Whole(body'[g])
  BY <1>1, <1>3 DEF TypeOK, CInv
<1>. QED BY <1>4, <1>5, <1>6, EndingCInv

\* ssa_verify_function sees the body that stays.
LEMMA VerifyCInv ==
  ASSUME BInv, CInv, NEW t \in Thread, VerifyFunction(t)
  PROVE  CInv'
<1>1. TypeOK /\ pc[t] = "verify"
  BY DEF CInv, VerifyFunction
<1>2. PICK f \in Function : f = function[t]
  BY <1>1 DEF BInv, SharedTypes, Occupied
<1>3. /\ errors' = [errors EXCEPT ![f] = Verify(f, body[f])]
      /\ pc' = [pc EXCEPT ![t] = "release"]
      /\ UNCHANGED <<added, frozen, flags, body, panicked, read, function, bodyVars>>
  BY <1>2 DEF VerifyFunction
<1>4. TypeOK'
  <2>1. Verify(f, body[f]) \in SUBSET ({"start", "control", "value"} \X Nat)
    <3>1. body[f] \in BodyRecord
      BY <1>1 DEF TypeOK, BodyRecord
    <3>. QED BY <3>1, VerifyType
  <2>2. errors' \in [Function -> SUBSET ({"start", "control", "value"} \X Nat)]
    BY <1>1, <1>3, <2>1 DEF TypeOK
  <2>3. pc' \in [Thread -> {"idle", "build", "mark", "verify", "release"}]
    BY <1>1, <1>3 DEF TypeOK
  <2>. QED BY <1>1, <1>3, <2>2, <2>3 DEF TypeOK, bodyVars
<1>5. Verified'
  <2>1. SUFFICES ASSUME NEW g \in Function, "Build_Done" \in flags[g]
                 PROVE  errors'[g] = Verify(g, body[g]) \/ \E u \in Thread : function[u] = g /\ pc'[u] = "verify"
    BY <1>3 DEF Verified
  <2>2. CASE g = f
    BY <1>1, <1>3, <2>2 DEF TypeOK
  <2>3. CASE g # f
    <3>1. errors'[g] = errors[g]
      BY <1>1, <1>3, <2>3 DEF TypeOK
    <3>2. \A u \in Thread : pc[u] = "verify" /\ function[u] = g => pc'[u] = "verify"
      BY <1>1, <1>2, <1>3, <2>3 DEF TypeOK
    <3>. QED BY <2>1, <3>1, <3>2 DEF CInv, Verified
  <2>. QED BY <2>2, <2>3
<1>6. /\ pc'[t] # "build" /\ (\A u \in Thread \ {t} : pc'[u] = pc[u]) /\ UNCHANGED bodyVars
      /\ \A g \in Function : Whole(body'[g])
  BY <1>1, <1>3 DEF TypeOK, CInv
<1>. QED BY <1>4, <1>5, <1>6, EndingCInv

LEMMA ReleaseCInv ==
  ASSUME BInv, CInv, NEW t \in Thread, Release(t)
  PROVE  CInv'
<1>1. TypeOK /\ pc[t] = "release"
  BY DEF CInv, Release
<1>2. PICK f \in Function : f = function[t]
  BY <1>1 DEF BInv, SharedTypes, Occupied
<1>3. /\ flags' = [flags EXCEPT ![f] = @ \ {"In_Progress"}]
      /\ function' = [function EXCEPT ![t] = NoFunction]
      /\ read' = [read EXCEPT ![t] = {}]
      /\ pc' = [pc EXCEPT ![t] = "idle"]
      /\ UNCHANGED <<added, frozen, body, errors, panicked, bodyVars>>
  BY <1>2 DEF Release
<1>4. TypeOK'
  <2>1. /\ flags' \in [Function -> SUBSET Flag] /\ read' \in [Thread -> SUBSET Flag]
        /\ function' \in [Thread -> Function \cup {NoFunction}]
    BY <1>1, <1>3 DEF TypeOK
  <2>2. pc' \in [Thread -> {"idle", "build", "mark", "verify", "release"}]
    BY <1>1, <1>3 DEF TypeOK
  <2>. QED BY <1>1, <1>3, <2>1, <2>2 DEF TypeOK, bodyVars
<1>5. Verified'
  <2>1. SUFFICES ASSUME NEW g \in Function, "Build_Done" \in flags'[g]
                 PROVE  errors[g] = Verify(g, body[g]) \/ \E u \in Thread : function'[u] = g /\ pc'[u] = "verify"
    BY <1>3 DEF Verified
  <2>2. "Build_Done" \in flags[g]
    BY <1>1, <1>3, <2>1 DEF TypeOK
  <2>3. \A u \in Thread : pc[u] = "verify" => pc'[u] = "verify" /\ function'[u] = function[u]
    BY <1>1, <1>3 DEF TypeOK
  <2>. QED BY <2>2, <2>3 DEF CInv, Verified
<1>6. /\ pc'[t] # "build" /\ (\A u \in Thread \ {t} : pc'[u] = pc[u]) /\ UNCHANGED bodyVars
      /\ \A g \in Function : Whole(body'[g])
  BY <1>1, <1>3 DEF TypeOK, CInv
<1>. QED BY <1>4, <1>5, <1>6, EndingCInv

-----------------------------------------------------------------------------
LEMMA StepCInv == BInv /\ CInv /\ [Next]_vars => CInv'
<1>. SUFFICES ASSUME BInv, CInv, [Next]_vars PROVE CInv'
  OBVIOUS
<1>0. ASSUME TypeOK', UNCHANGED <<flags, body, errors, pc, function, bodyVars>> PROVE CInv'
  BY <1>0 DEF CInv, Contents, Verified, bodyVars
<1>1. ASSUME NEW f \in Function, Add(f) PROVE CInv'
  <2>1. TypeOK'
    BY <1>1 DEF CInv, TypeOK, Add, bodyVars
  <2>. QED BY <1>0, <1>1, <2>1 DEF Add
<1>2. CASE Freeze
  <2>1. TypeOK'
    BY <1>2 DEF CInv, TypeOK, Freeze, bodyVars
  <2>. QED BY <1>0, <1>2, <2>1 DEF Freeze
<1>3. CASE UNCHANGED vars
  <2>1. TypeOK'
    BY <1>3 DEF CInv, TypeOK, vars, moduleVars, bodyVars
  <2>. QED BY <1>0, <1>3, <2>1 DEF vars, moduleVars
<1>4. ASSUME NEW t \in Thread, Build(t) PROVE CInv'
  <2>1. CASE BeginNested(t)
    <3>1. TypeOK'
      BY <2>1 DEF CInv, TypeOK, BeginNested, moduleVars, bodyVars
    <3>. QED BY <1>0, <2>1, <3>1 DEF BeginNested, moduleVars
  <2>2. CASE InitMemory(t) \/ Const32(t)
    BY <2>2, ValueCInv DEF InitMemory, Const32, ValueRecord, Type
  <2>3. ASSUME NEW i \in Index, ReturnValue(t, i) PROVE CInv'
    BY <2>3, ValueCInv DEF ReturnValue, ValueRecord, Type
  <2>4. ASSUME NEW i \in Index, Argument(t, i) PROVE CInv'
    <3>1. PICK f \in Function : f = function[t]
      BY <2>4 DEF BInv, SharedTypes, Occupied, Argument, Value
    <3>. DEFINE type == IF i < Len(Parameters[f]) THEN Parameters[f][i + 1] ELSE "None"
    <3>2. type \in Type
      <4>1. CASE i < Len(Parameters[f])
        <5>1. Parameters[f] \in Seq(Type) /\ i \in Nat
          OBVIOUS
        <5>2. i + 1 \in 1 .. Len(Parameters[f])
          BY <4>1, <5>1
        <5>. QED BY <4>1, <5>1, <5>2
      <4>2. CASE ~(i < Len(Parameters[f]))
        BY <4>2 DEF Type
      <4>. QED BY <4>1, <4>2
    <3>3. Value(t, "Argument", i, type)
      BY <2>4, <3>1 DEF Argument
    <3>4. \A h \in 0 .. MaxBlocks :
            [operator |-> "Argument", immediate |-> i, type |-> type, block |-> h] \in ValueRecord
      BY <3>2 DEF ValueRecord
    <3>. HIDE DEF type
    <3>. QED BY <3>3, <3>4, ValueCInv
  <2>5. ASSUME NEW i \in Index, SetControl(t, i) \/ SetStart(t, i) PROVE CInv'
    BY <2>5, SetCInv
  <2>. QED
    BY <1>4, <2>1, <2>2, <2>3, <2>4, <2>5, BeginCInv, BeginBlockCInv, EndBlockCInv, EndCInv,
       MarkDoneCInv, VerifyCInv, ReleaseCInv
    DEF Build
<1>. QED BY <1>1, <1>2, <1>3, <1>4 DEF Next

LEMMA CInvHolds == Spec => []CInv
<1>1. BInv /\ CInv /\ [Next]_vars => CInv'
  BY StepCInv
<1>. QED BY <1>1, InitCInv, BInvHolds, PTL DEF Spec

\* Every variable of the builder keeps its type, the ids in the lists of the
\* blocks and the errors of the verifier included.
THEOREM BuilderTypes == Spec => []TypeOK
<1>1. CInv => TypeOK
  BY DEF CInv
<1>. QED BY <1>1, CInvHolds, PTL

\* What a body without errors says of its blocks and values.
LEMMA NoErrors ==
  ASSUME NEW f \in Function, NEW b \in BodyRecord, Verify(f, b) = {}
  PROVE  /\ ~StartError(b)
         /\ \A i \in 1 .. Len(b.blocks) : ~ControlError(b, i)
         /\ \A i \in 1 .. Len(b.blocks), k \in 1 .. Len(b.values) :
              k <= Len(b.blocks[i].values) => ~ValueError(f, b, b.blocks[i].values[k])
<1>1. ~StartError(b)
  <2>1. StartError(b) => <<"start", 0>> \in Verify(f, b)
    BY DEF Verify
  <2>. QED BY <2>1
<1>2. ASSUME NEW i \in 1 .. Len(b.blocks), ControlError(b, i) PROVE FALSE
  <2>1. <<"control", i>> \in Verify(f, b)
    BY <1>2 DEF Verify
  <2>. QED BY <2>1
<1>3. ASSUME NEW i \in 1 .. Len(b.blocks), NEW k \in 1 .. Len(b.values),
             k <= Len(b.blocks[i].values), ValueError(f, b, b.blocks[i].values[k])
      PROVE  FALSE
  <2>. DEFINE p == <<i, k>>
  <2>1. /\ p \in (1 .. Len(b.blocks)) \X (1 .. Len(b.values))
        /\ p[1] = i /\ p[2] = k
    OBVIOUS
  <2>. HIDE DEF p
  <2>2. <<"value", b.blocks[p[1]].values[p[2]]>> \in Verify(f, b)
    BY <1>3, <2>1 DEF Verify
  <2>. QED BY <2>2
<1>. QED BY <1>1, <1>2, <1>3

\* A value that was built in a block has one place, in that block; one that
\* was not has none.
LEMMA OnePlace ==
  ASSUME NEW b \in BodyRecord, Whole(b), \A i \in 1 .. Len(b.blocks) : b.blocks[i].control # 0,
         NEW v \in 1 .. Len(b.values)
  PROVE  LET h == b.values[v].block
         IN /\ Cardinality(Places(b, v)) = IF h = 0 THEN 0 ELSE 1
            /\ \A p \in Places(b, v) : p[1] = h
            /\ h # 0 => \E i \in 1 .. Len(b.blocks), k \in 1 .. Len(b.values) :
                          k <= Len(b.blocks[i].values) /\ b.blocks[i].values[k] = v
<1>. DEFINE m == Len(b.blocks)
            n == Len(b.values)
            home == Homes(b.values)
            ls == Lists(b.blocks, 0, <<>>)
            h == b.values[v].block
<1>1. m \in Nat /\ n \in Nat /\ n <= MaxValues /\ OnceEach(ls, m, n, home)
  BY DEF Whole, Listed, BodyRecord
<1>2. \A i \in 1 .. m : ls[i] = b.blocks[i].values
  BY <1>1 DEF Lists
<1>3. home[v] = h
  BY DEF Homes
<1>. HIDE DEF m, n, ls, home, h
<1>4. ASSUME NEW p \in Places(b, v)
      PROVE  /\ p[1] \in 1 .. m /\ p[2] \in 1 .. Len(ls[p[1]]) /\ p = <<p[1], p[2]>>
             /\ ls[p[1]][p[2]] = v
  <2>1. /\ p \in (1 .. m) \X (1 .. MaxValues)
        /\ p[2] <= Len(b.blocks[p[1]].values) /\ b.blocks[p[1]].values[p[2]] = v
    BY DEF Places, m
  <2>2. p[1] \in 1 .. m /\ p[2] \in 1 .. MaxValues /\ p = <<p[1], p[2]>>
    BY <2>1
  <2>3. Len(ls[p[1]]) \in Nat
    BY <1>1, <2>2 DEF OnceEach, InLists
  <2>. QED BY <1>2, <2>1, <2>2, <2>3
<1>5. \A p \in Places(b, v) : p[1] = h
  BY <1>1, <1>3, <1>4 DEF OnceEach, InLists
<1>6. CASE h = 0
  <2>1. Places(b, v) = {}
    BY <1>4, <1>5, <1>6
  <2>. QED BY <1>5, <1>6, <2>1, FS_EmptySet DEF h
<1>7. CASE h # 0
  <2>1. h \in 1 .. m /\ \E k \in 1 .. Len(ls[h]) : ls[h][k] = v
    BY <1>1, <1>3, <1>7 DEF OnceEach, AllListed, n
  <2>2. PICK k \in 1 .. Len(ls[h]) : ls[h][k] = v
    BY <2>1
  <2>3. Len(ls[h]) \in 0 .. n
    BY <1>1, <2>1 DEF OnceEach, InLists
  <2>4. k \in 1 .. n /\ k \in 1 .. MaxValues /\ k <= Len(b.blocks[h].values) /\ b.blocks[h].values[k] = v
    BY <1>1, <1>2, <2>1, <2>2, <2>3
  <2>5. <<h, k>> \in Places(b, v)
    BY <2>1, <2>4 DEF Places, m
  <2>6. ASSUME NEW p \in Places(b, v) PROVE p = <<h, k>>
    <3>1. p[1] = h /\ p[2] \in 1 .. Len(ls[h]) /\ ls[h][p[2]] = v /\ p = <<p[1], p[2]>>
      BY <1>4, <1>5
    <3>2. p[2] = k
      BY <1>1, <2>1, <2>2, <3>1 DEF OnceEach, NoneTwice
    <3>. QED BY <3>1, <3>2
  <2>7. Places(b, v) = {<<h, k>>}
    BY <2>5, <2>6
  <2>8. Cardinality(Places(b, v)) = 1
    BY <2>7, FS_Singleton
  <2>. QED BY <1>5, <1>7, <2>1, <2>4, <2>8 DEF h, m, n
<1>. QED BY <1>6, <1>7

\* ssa_verify_function passes consistent bodies only: in whatever order the
\* client calls the builder between begin and end of a function, in a block or
\* not, the blocks of a function without errors list the values that were built
\* in them, once each, and the ids in the blocks name values that are there.
\* Nothing more is promised of values that were built outside of a block.
THEOREM VerifiedBodies == Spec => []VerifiedComplete
<1>1. BInv /\ CInv => VerifiedComplete
  <2>1. SUFFICES ASSUME BInv, CInv, NEW f \in Function, Built(f), errors[f] = {}
                 PROVE  LET b == body[f]
                        IN /\ b.start \in 1 .. Len(b.blocks)
                           /\ \A v \in 1 .. Len(b.values) :
                                LET value == b.values[v]
                                IN /\ Cardinality(Places(b, v)) = IF value.block = 0 THEN 0 ELSE 1
                                   /\ \A p \in Places(b, v) : p[1] = value.block
                                   /\ (value.block # 0 /\ value.operator = "Return") =>
                                        value.immediate <= Len(b.values)
                           /\ \A i \in 1 .. Len(b.blocks) : b.blocks[i].control \in 1 .. Len(b.values)
    BY DEF VerifiedComplete
  <2>. DEFINE b == body[f]
  <2>2. b \in BodyRecord /\ Whole(b) /\ Verify(f, b) = {}
    BY <2>1 DEF CInv, TypeOK, BodyRecord, Verified, Built
  <2>. HIDE DEF b
  <2>3. /\ ~StartError(b)
        /\ \A i \in 1 .. Len(b.blocks) : ~ControlError(b, i)
        /\ \A i \in 1 .. Len(b.blocks), k \in 1 .. Len(b.values) :
             k <= Len(b.blocks[i].values) => ~ValueError(f, b, b.blocks[i].values[k])
    BY <2>2, NoErrors
  <2>4. b.start \in 1 .. Len(b.blocks)
    BY <2>2, <2>3 DEF StartError, IsBlockIdValid, BodyRecord
  <2>5. ASSUME NEW i \in 1 .. Len(b.blocks)
        PROVE  b.blocks[i].control \in 1 .. Len(b.values)
    <3>1. b.blocks[i].control \in Nat /\ Len(b.values) \in Nat
      <4>1. b.blocks \in Seq(BlockRecord) /\ b.values \in Seq(ValueRecord)
        BY <2>2 DEF BodyRecord
      <4>2. b.blocks[i] \in BlockRecord
        BY <4>1
      <4>3. b.blocks[i].control \in Nat
        BY <4>2 DEF BlockRecord
      <4>. QED BY <4>1, <4>3
    <3>2. b.blocks[i].control <= Len(b.values) /\ b.blocks[i].control # 0
      BY <2>3 DEF ControlError, IsValueIdValid, TypeOf
    <3>. QED BY <3>1, <3>2
  <2>6. \A i \in 1 .. Len(b.blocks) : b.blocks[i].control # 0
    BY <2>3 DEF ControlError, TypeOf
  <2>7. ASSUME NEW v \in 1 .. Len(b.values)
        PROVE  /\ Cardinality(Places(b, v)) = IF b.values[v].block = 0 THEN 0 ELSE 1
               /\ \A p \in Places(b, v) : p[1] = b.values[v].block
               /\ (b.values[v].block # 0 /\ b.values[v].operator = "Return") =>
                    b.values[v].immediate <= Len(b.values)
    <3>1. /\ Cardinality(Places(b, v)) = IF b.values[v].block = 0 THEN 0 ELSE 1
          /\ \A p \in Places(b, v) : p[1] = b.values[v].block
          /\ b.values[v].block # 0 =>
               \E i \in 1 .. Len(b.blocks), k \in 1 .. Len(b.values) :
                 k <= Len(b.blocks[i].values) /\ b.blocks[i].values[k] = v
      BY <2>2, <2>6, OnePlace
    <3>2. b.values[v].block # 0 => ~ValueError(f, b, v)
      BY <2>3, <3>1
    <3>3. (b.values[v].block # 0 /\ b.values[v].operator = "Return") =>
            b.values[v].immediate <= Len(b.values)
      BY <3>2 DEF ValueError, IsValueIdValid
    <3>. QED BY <3>1, <3>3
  <2>. QED BY <2>4, <2>5, <2>7 DEF b
<1>. QED BY <1>1, BInvHolds, CInvHolds, PTL
=============================================================================
