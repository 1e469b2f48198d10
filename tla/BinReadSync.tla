---------------------------- MODULE BinReadSync -----------------------------
(***************************************************************************)
(* For any number of lanes and any file: lanes that share one barrier and  *)
(* one word of memory meet at the same call of the program, agree on the   *)
(* values they branch on, and use nothing that is gone.                    *)
(*                                                                         *)
(* The argument: the file alone decides which way the lanes take, and so   *)
(* which barrier call comes behind which.  All lanes have the same barrier *)
(* call before them or wait in it (SameNext); when the last lane arrives,  *)
(* the next call is the next call of all.                                  *)
(***************************************************************************)
EXTENDS BinRead, TLAPS, FiniteSetTheorems

Ways == [scan : {"true", "false"}, code : {"true", "false"},
         structure : {"true", "false"}]

\* What the file says of the branches of bin_read_entry_point.
Way == [scan |-> Truth(file.scan), code |-> Truth(CodeSection # 0),
        structure |-> Truth(file.structure)]

\* A barrier call is <<p, 1>> or <<p, 2>>, the first and the second barrier of
\* the synchronisation call p; lane_sync has the second only.  <<"exit", 2>>
\* stands for none.
Coming(p, w) ==
  CASE p = "created" -> <<"start", 2>>
    [] p \in {"signal", "exit"} -> <<"exit", 2>>
    [] p = "bin_module" /\ w.scan = "false" -> <<"exit", 2>>
    [] p = "code_ok" /\ w.code = "false" -> <<"end", 2>>
    [] p = "bin_codes" /\ w.structure = "false" -> <<"end", 2>>
    [] p \in {"start", "sections", "end", "diags"} -> <<p, 2>>
    [] OTHER -> <<p, 1>>

\* The barrier call that a lane waits in or that comes next for it; `a` are
\* the lanes that wait.
CallOf(l, p, s, a, w) ==
  CASE s \in {"run", "len"} -> Coming(p, w)
    [] s \in {"store", "arrive1"} -> <<p, 1>>
    [] s = "wait1" -> IF l \in a THEN <<p, 1>> ELSE <<p, 2>>
    [] s \in {"load", "arrive2"} -> <<p, 2>>
    [] s = "wait2" -> IF l \in a THEN <<p, 2>> ELSE Coming(After[p], w)

Call(l) == CallOf(l, point[l], stage[l], arrived, Way)

\* The local `ok` of a lane that is about to run the code before call p.
OkAt(p, w) ==
  CASE p \in {"created", "start", "ctxs", "scan_ok"} -> "false"
    [] p \in {"bin_module", "sections", "code_ok"} -> w.scan
    [] p = "bin_codes" -> w.structure
    [] OTHER -> IF w.scan = "false" THEN "false"
                ELSE IF w.code = "false" THEN "true" ELSE w.structure

\* Lane 0 has the new value of a call before it, the others behind it.
HasNew(l, s) == s \in {"arrive2", "wait2"} \/ (l = 0 /\ s \notin {"run", "len"})

\* The value that lane 0 hands over in call p.
Handed(p, w) ==
  CASE p = "scan_ok" -> w.scan
    [] p = "code_ok" -> w.structure
    [] OTHER -> p

\* The way to p, in stage s.
PathOK(p, s, w) ==
  /\ s \in {"store", "arrive1", "wait1", "load"} => IsValue(p)
  /\ s = "len" => p = "sections"
  /\ s # "run" => p \in DOMAIN After
  /\ p \in {"sections", "code_ok", "bin_codes", "end", "diags", "signal"} =>
       w.scan = "true"
  /\ (p = "bin_module" /\ s # "run") => w.scan = "true"
  /\ (p = "code_ok" /\ s # "run") => w.code = "true"
  /\ p = "bin_codes" => w.code = "true"
  /\ (p = "bin_codes" /\ s # "run") => w.structure = "true"

Early == {"created", "start", "ctxs"}

\* The locals of a lane.
ValuesOK(l, p, s, v, w) ==
  /\ v.ok = IF HasNew(l, s) THEN OkAt(After[p], w) ELSE OkAt(p, w)
  /\ v.ctxs = IF p \in Early /\ ~(p = "ctxs" /\ HasNew(l, s)) THEN "nil" ELSE "ctxs"
  /\ (p \in {"sections", "code_ok", "bin_codes", "end"}
        \/ (p = "bin_module" /\ (l = 0 \/ HasNew(l, s)))
        \/ (p = "scan_ok" /\ l = 0 /\ HasNew(l, s)))
       => v.bin_module = "bin_module"
  /\ ((p = "end" /\ w.code = "true" /\ w.structure = "true")
        \/ (p = "bin_codes" /\ (l = 0 \/ HasNew(l, s)))
        \/ (p = "code_ok" /\ l = 0 /\ HasNew(l, s)))
       => v.bin_codes = "bin_codes"

LaneOK(l) ==
  /\ PathOK(point[l], stage[l], Way)
  /\ ValuesOK(l, point[l], stage[l], local[l], Way)

\* The lanes that need the value in shared memory.
Needs(l, s, a) ==
  \/ s = "load"
  \/ s = "wait1" /\ l \notin a
  \/ l = 0 /\ s \in {"arrive1", "wait1"}

Locals == [ctxs : {"nil", "ctxs"}, ok : {"true", "false"},
           bin_module : {"nil", "bin_module"}, bin_codes : {"nil", "bin_codes"}]

Types ==
  /\ file \in File
  /\ point \in [Lane -> Point]
  /\ stage \in [Lane -> Stage]
  /\ local \in [Lane -> Locals]
  /\ arrived \subseteq Lane
  /\ generation \in Nat
  /\ gen \in [Lane -> Nat]
  /\ count \in 0 .. LaneCount

\* Who is counted by the barrier, and who may leave.
BarrierInv ==
  /\ \A l \in Lane : l \in arrived <=> stage[l] \in {"wait1", "wait2"} /\ gen[l] = generation
  /\ \A l \in Lane : gen[l] <= generation
  /\ arrived # Lane

SameNext == \A l, m \in Lane : Call(l) = Call(m)

SharedInv ==
  \A l \in Lane : Needs(l, stage[l], arrived) => shared = Handed(point[l], Way)

\* Threads are started and joined in order.
MainInv ==
  /\ main = "starting" => \A l \in Lane : count <= l => point[l] = "created"
  /\ main = "joining" => \A l \in Lane : l < count => point[l] = "exit"
  /\ main = "returned" => \A l \in Lane : point[l] = "exit"

\* The inductive invariant.
IInv ==
  /\ Types
  /\ \A l \in Lane : LaneOK(l)
  /\ BarrierInv
  /\ SameNext
  /\ SharedInv
  /\ MainInv

USE LaneAssumption, FileAssumption

-----------------------------------------------------------------------------
LEMMA WayType == Way \in Ways
BY DEF Way, Ways, Truth

LEMMA WayKept == ASSUME UNCHANGED file PROVE Way' = Way
BY DEF Way, CodeSection, Truth

LEMMA LanesFinite ==
  /\ 0 \in Lane
  /\ IsFiniteSet(Lane)
  /\ Cardinality(Lane) = LaneCount
<1>1. 0 \in Int /\ LaneCount - 1 \in Int /\ 0 <= LaneCount - 1
  OBVIOUS
<1>. QED BY <1>1, FS_Interval DEF Lane

LEMMA InitIInv == Init => IInv
<1>. SUFFICES ASSUME Init PROVE IInv
  OBVIOUS
<1>1. Types
  BY DEF Init, Types, Point, Stage, Locals, After, Lane
<1>2. ASSUME NEW l \in Lane PROVE LaneOK(l) /\ Call(l) = <<"start", 2>>
  BY DEF Init, LaneOK, PathOK, ValuesOK, HasNew, OkAt, Early, Call, CallOf, Coming
<1>3. BarrierInv
  BY LanesFinite DEF Init, BarrierInv
<1>4. SharedInv /\ MainInv
  BY DEF Init, SharedInv, Needs, MainInv
<1>. QED BY <1>1, <1>2, <1>3, <1>4 DEF IInv, SameNext

\* A lane goes to stage s of point p, and neither waits nor has waited there.
Goes(l, p, s) ==
  /\ point' = [point EXCEPT ![l] = p]
  /\ stage' = [stage EXCEPT ![l] = s]
  /\ local' \in [Lane -> Locals]
  /\ \A m \in Lane \ {l} : local'[m] = local[m]
  /\ count' \in 0 .. LaneCount
  /\ UNCHANGED <<file, arrived, generation, gen>>
  /\ l \notin arrived
  /\ s \notin {"wait1", "wait2"}
  /\ PathOK(p, s, Way)
  /\ ValuesOK(l, p, s, local'[l], Way)
  /\ CallOf(l, p, s, arrived, Way) = Call(l)

\* Whatever a lane does on its own, it keeps its next barrier call.
LEMMA GoesHolds ==
  ASSUME IInv, NEW l \in Lane, NEW p \in Point, NEW s \in Stage, Goes(l, p, s)
  PROVE  /\ Types' /\ (\A m \in Lane : LaneOK(m)') /\ BarrierInv' /\ SameNext'
         /\ Way' = Way
         /\ point'[l] = p /\ stage'[l] = s
         /\ \A m \in Lane \ {l} : point'[m] = point[m] /\ stage'[m] = stage[m]
<1>. USE DEF IInv, Goes
<1>1. Way' = Way
  BY WayKept
<1>2. /\ point'[l] = p /\ stage'[l] = s
      /\ \A m \in Lane \ {l} : point'[m] = point[m] /\ stage'[m] = stage[m]
  BY DEF Types
<1>3. Types'
  BY DEF Types
<1>4. ASSUME NEW m \in Lane PROVE LaneOK(m)'
  <2>1. CASE m = l
    BY <1>1, <1>2, <2>1 DEF LaneOK
  <2>2. CASE m # l
    <3>1. PathOK(point[m], stage[m], Way) /\ ValuesOK(m, point[m], stage[m], local[m], Way)
      BY DEF LaneOK
    <3>. QED BY <1>1, <1>2, <2>2, <3>1 DEF LaneOK
  <2>. QED BY <2>1, <2>2
<1>5. BarrierInv'
  BY <1>2 DEF BarrierInv
<1>6. ASSUME NEW m \in Lane PROVE Call(m)' = Call(m)
  <2>1. CASE m = l
    BY <1>1, <1>2, <2>1 DEF Call
  <2>2. CASE m # l
    BY <1>1, <1>2, <2>2 DEF Call
  <2>. QED BY <2>1, <2>2
<1>7. SameNext'
  BY <1>6 DEF SameNext
<1>. QED BY <1>1, <1>2, <1>3, <1>4, <1>5, <1>7

\* A step of a lane that leaves shared memory and the calling thread alone.
Moves(l, p, s) ==
  /\ Goes(l, p, s)
  /\ UNCHANGED <<main, count, shared>>
  /\ point[l] \notin {"created", "exit"}
  /\ Needs(l, s, arrived) => p = point[l] /\ Needs(l, stage[l], arrived)

LEMMA MovesIInv ==
  ASSUME IInv, NEW l \in Lane, NEW p \in Point, NEW s \in Stage, Moves(l, p, s)
  PROVE  IInv'
<1>1. /\ Types' /\ (\A m \in Lane : LaneOK(m)') /\ BarrierInv' /\ SameNext'
      /\ Way' = Way
      /\ point'[l] = p /\ stage'[l] = s
      /\ \A m \in Lane \ {l} : point'[m] = point[m] /\ stage'[m] = stage[m]
  BY GoesHolds DEF Moves
<1>2. SharedInv'
  <2>1. ASSUME NEW m \in Lane, Needs(m, stage'[m], arrived)
        PROVE  shared = Handed(point'[m], Way)
    <3>1. CASE m = l
      BY <1>1, <2>1, <3>1 DEF IInv, SharedInv, Moves
    <3>2. CASE m # l
      BY <1>1, <2>1, <3>2 DEF IInv, SharedInv
    <3>. QED BY <3>1, <3>2
  <2>2. UNCHANGED <<arrived, shared>>
    BY DEF Moves, Goes
  <2>. QED BY <1>1, <2>1, <2>2 DEF SharedInv
<1>3. MainInv'
  BY <1>1 DEF IInv, MainInv, Moves
<1>. QED BY <1>1, <1>2, <1>3 DEF IInv

-----------------------------------------------------------------------------
\* What the invariant says of one lane.
LEMMA AboutLane ==
  ASSUME IInv, NEW l \in Lane
  PROVE  /\ point[l] \in Point /\ stage[l] \in Stage /\ local[l] \in Locals
         /\ PathOK(point[l], stage[l], Way)
         /\ ValuesOK(l, point[l], stage[l], local[l], Way)
         /\ stage[l] \notin {"wait1", "wait2"} \/ gen[l] # generation => l \notin arrived
         /\ count \in 0 .. LaneCount /\ Way \in Ways
BY WayType DEF IInv, Types, LaneOK, BarrierInv

\* The steps behind which the lane reaches its call.
LEMMA ReachMoves ==
  ASSUME IInv, NEW l \in Lane, stage[l] = "run", Reach(l),
         point[l] \in DOMAIN After,
         UNCHANGED <<mainVars, barrierVars, shared>>,
         local' \in [Lane -> Locals],
         \A m \in Lane \ {l} : local'[m] = local[m],
         NEW s \in {"store", "arrive2"},
         s = IF IsValue(point[l]) THEN "store" ELSE "arrive2",
         PathOK(point[l], s, Way),
         ValuesOK(l, point[l], s, local'[l], Way),
         Coming(point[l], Way) = IF s = "store" THEN <<point[l], 1>> ELSE <<point[l], 2>>
  PROVE  IInv'
<1>1. point' = [point EXCEPT ![l] = point[l]]
  BY DEF Reach, IInv, Types
<1>2. /\ point[l] \in Point /\ s \in Stage /\ l \notin arrived /\ count \in 0 .. LaneCount
      /\ point[l] \notin {"created", "exit"}
  BY AboutLane DEF Point, Stage, After
<1>3. CallOf(l, point[l], s, arrived, Way) = Call(l)
  BY DEF Call, CallOf
<1>4. ~Needs(l, s, arrived)
  BY DEF Needs
<1>5. Moves(l, point[l], s)
  BY <1>1, <1>2, <1>3, <1>4 DEF Moves, Goes, Reach, mainVars, barrierVars
<1>. QED BY <1>2, <1>5, MovesIInv

\* The steps that go on behind a call, or to a later one.
LEMMA GoToMoves ==
  ASSUME IInv, NEW l \in Lane, NEW p \in Point, GoTo(l, p),
         stage[l] \notin {"wait1", "wait2"} \/ gen[l] # generation,
         point[l] \notin {"created", "exit"},
         UNCHANGED <<mainVars, barrierVars, shared, local>>,
         PathOK(p, "run", Way),
         ValuesOK(l, p, "run", local[l], Way),
         Coming(p, Way) = Call(l)
  PROVE  IInv'
<1>1. /\ "run" \in Stage /\ l \notin arrived /\ count \in 0 .. LaneCount
      /\ local' \in [Lane -> Locals]
      /\ \A m \in Lane \ {l} : local'[m] = local[m]
  BY AboutLane DEF Stage, IInv, Types
<1>2. CallOf(l, p, "run", arrived, Way) = Call(l)
  BY DEF CallOf
<1>3. ~Needs(l, "run", arrived)
  BY DEF Needs
<1>4. Moves(l, p, "run")
  BY <1>1, <1>2, <1>3 DEF Moves, Goes, GoTo, mainVars, barrierVars
<1>. QED BY <1>1, <1>4, MovesIInv

-----------------------------------------------------------------------------
(* The code between the calls *)

LEMMA ReachHolds ==
  ASSUME IInv, NEW l \in Lane,
         \/ Begin(l) \/ AllocCtxs(l) \/ Scan(l) \/ ScanPassed(l) \/ SectionsRead(l)
         \/ ReadStructure(l) \/ StructureGood(l) \/ CodesRead(l) \/ Collect(l)
  PROVE  IInv'
<1>. USE AboutLane
<1>0. local \in [Lane -> Locals]
  BY DEF IInv, Types
<1>1. CASE Begin(l)
  <2>1. point[l] = "start" /\ stage[l] = "run" /\ UNCHANGED local
    BY <1>1 DEF Begin, At
  <2>2. PathOK("start", "arrive2", Way) /\ ValuesOK(l, "start", "arrive2", local[l], Way)
    BY <2>1 DEF PathOK, ValuesOK, HasNew, OkAt, Early, After, IsValue, ValueOf
  <2>3. Coming("start", Way) = <<"start", 2>> /\ ~IsValue("start") /\ "start" \in DOMAIN After
    BY DEF Coming, IsValue, ValueOf, After
  <2>. QED BY <1>0, <1>1, <2>1, <2>2, <2>3, ReachMoves DEF Begin
<1>2. CASE AllocCtxs(l)
  <2>1. point[l] = "ctxs" /\ stage[l] = "run"
    BY <1>2 DEF AllocCtxs, At
  <2>2. /\ local' \in [Lane -> Locals]
        /\ \A m \in Lane \ {l} : local'[m] = local[m]
        /\ local'[l] = IF l = 0 THEN [local[l] EXCEPT !.ctxs = "ctxs"] ELSE local[l]
    BY <1>0, <1>2 DEF AllocCtxs, Locals
  <2>3. /\ PathOK("ctxs", "store", Way)
        /\ ValuesOK(l, "ctxs", "store", local'[l], Way)
    BY <2>1, <2>2 DEF PathOK, ValuesOK, HasNew, OkAt, Early, After, IsValue, ValueOf,
                     Locals
  <2>4. /\ Coming("ctxs", Way) = <<"ctxs", 1>> /\ IsValue("ctxs")
        /\ "ctxs" \in DOMAIN After
    BY DEF Coming, IsValue, ValueOf, After
  <2>. QED BY <1>2, <2>1, <2>2, <2>3, <2>4, ReachMoves DEF AllocCtxs
<1>3. CASE Scan(l)
  <2>1. point[l] = "scan_ok" /\ stage[l] = "run"
    BY <1>3 DEF Scan, At
  <2>2. /\ local' \in [Lane -> Locals]
        /\ \A m \in Lane \ {l} : local'[m] = local[m]
        /\ local'[l] = IF l = 0 THEN [local[l] EXCEPT !.ok = Truth(file.scan),
                                                      !.bin_module = "bin_module"]
                       ELSE local[l]
    <3>1. CASE l = 0
      <4>1. local' = [local EXCEPT ![l].ok = Truth(file.scan), ![l].bin_module = "bin_module"]
        BY <1>3, <3>1 DEF Scan
      <4>. DEFINE v == [local[l] EXCEPT !.ok = Truth(file.scan), !.bin_module = "bin_module"]
      <4>2. v \in Locals
        BY DEF Locals, Truth
      <4>3. local' = [local EXCEPT ![l] = v]
        BY <1>0, <4>1
      <4>. QED BY <1>0, <3>1, <4>2, <4>3
    <3>2. CASE l # 0
      BY <1>0, <1>3, <3>2 DEF Scan
    <3>. QED BY <3>1, <3>2
  <2>3. /\ PathOK("scan_ok", "store", Way)
        /\ ValuesOK(l, "scan_ok", "store", local'[l], Way)
    BY <2>1, <2>2 DEF PathOK, ValuesOK, HasNew, OkAt, Early, After, IsValue, ValueOf,
                     Locals, Way
  <2>4. /\ Coming("scan_ok", Way) = <<"scan_ok", 1>> /\ IsValue("scan_ok")
        /\ "scan_ok" \in DOMAIN After
    BY DEF Coming, IsValue, ValueOf, After
  <2>. QED BY <1>3, <2>1, <2>2, <2>3, <2>4, ReachMoves DEF Scan
<1>4. CASE ScanPassed(l)
  <2>1. point[l] = "bin_module" /\ stage[l] = "run" /\ UNCHANGED local /\ Way.scan = "true"
    BY <1>4 DEF ScanPassed, At, ValuesOK, HasNew, OkAt
  <2>2. /\ PathOK("bin_module", "store", Way)
        /\ ValuesOK(l, "bin_module", "store", local[l], Way)
    BY <2>1 DEF PathOK, ValuesOK, HasNew, OkAt, Early, After, IsValue, ValueOf
  <2>3. /\ Coming("bin_module", Way) = <<"bin_module", 1>> /\ IsValue("bin_module")
        /\ "bin_module" \in DOMAIN After
    BY <2>1 DEF Coming, IsValue, ValueOf, After
  <2>. QED BY <1>0, <1>4, <2>1, <2>2, <2>3, ReachMoves DEF ScanPassed
<1>5. CASE SectionsRead(l)
  <2>1. point[l] = "sections" /\ stage[l] = "run" /\ UNCHANGED local
    BY <1>5 DEF SectionsRead, At
  <2>2. /\ PathOK("sections", "arrive2", Way)
        /\ ValuesOK(l, "sections", "arrive2", local[l], Way)
    BY <2>1 DEF PathOK, ValuesOK, HasNew, OkAt, Early, After, IsValue, ValueOf
  <2>3. /\ Coming("sections", Way) = <<"sections", 2>> /\ ~IsValue("sections")
        /\ "sections" \in DOMAIN After
    BY DEF Coming, IsValue, ValueOf, After
  <2>. QED BY <1>0, <1>5, <2>1, <2>2, <2>3, ReachMoves DEF SectionsRead
<1>6. CASE ReadStructure(l)
  <2>1. point[l] = "code_ok" /\ stage[l] = "run" /\ Way.code = "true"
    BY <1>6 DEF ReadStructure, At, Way, Truth
  <2>2. /\ local' \in [Lane -> Locals]
        /\ \A m \in Lane \ {l} : local'[m] = local[m]
        /\ local'[l] = IF l = 0 THEN [local[l] EXCEPT !.ok = Truth(file.structure),
                                                      !.bin_codes = "bin_codes"]
                       ELSE local[l]
    <3>1. CASE l = 0
      <4>1. local' = [local EXCEPT ![l].ok = Truth(file.structure), ![l].bin_codes = "bin_codes"]
        BY <1>6, <3>1 DEF ReadStructure
      <4>. DEFINE v == [local[l] EXCEPT !.ok = Truth(file.structure), !.bin_codes = "bin_codes"]
      <4>2. v \in Locals
        BY DEF Locals, Truth
      <4>3. local' = [local EXCEPT ![l] = v]
        BY <1>0, <4>1
      <4>. QED BY <1>0, <3>1, <4>2, <4>3
    <3>2. CASE l # 0
      BY <1>0, <1>6, <3>2 DEF ReadStructure
    <3>. QED BY <3>1, <3>2
  <2>3. /\ PathOK("code_ok", "store", Way)
        /\ ValuesOK(l, "code_ok", "store", local'[l], Way)
    BY <2>1, <2>2 DEF PathOK, ValuesOK, HasNew, OkAt, Early, After, IsValue, ValueOf,
                     Locals, Way
  <2>4. /\ Coming("code_ok", Way) = <<"code_ok", 1>> /\ IsValue("code_ok")
        /\ "code_ok" \in DOMAIN After
    BY <2>1 DEF Coming, IsValue, ValueOf, After
  <2>. QED BY <1>6, <2>1, <2>2, <2>3, <2>4, ReachMoves DEF ReadStructure
<1>7. CASE StructureGood(l)
  <2>1. point[l] = "bin_codes" /\ stage[l] = "run" /\ UNCHANGED local /\ Way.structure = "true"
    BY <1>7 DEF StructureGood, At, ValuesOK, HasNew, OkAt
  <2>2. /\ PathOK("bin_codes", "store", Way)
        /\ ValuesOK(l, "bin_codes", "store", local[l], Way)
    BY <2>1 DEF PathOK, ValuesOK, HasNew, OkAt, Early, After, IsValue, ValueOf
  <2>3. /\ Coming("bin_codes", Way) = <<"bin_codes", 1>> /\ IsValue("bin_codes")
        /\ "bin_codes" \in DOMAIN After
    BY <2>1 DEF Coming, IsValue, ValueOf, After
  <2>. QED BY <1>0, <1>7, <2>1, <2>2, <2>3, ReachMoves DEF StructureGood
<1>8. CASE CodesRead(l)
  <2>1. point[l] = "end" /\ stage[l] = "run" /\ UNCHANGED local
    BY <1>8 DEF CodesRead, At
  <2>2. PathOK("end", "arrive2", Way) /\ ValuesOK(l, "end", "arrive2", local[l], Way)
    BY <2>1 DEF PathOK, ValuesOK, HasNew, OkAt, Early, After, IsValue, ValueOf
  <2>3. Coming("end", Way) = <<"end", 2>> /\ ~IsValue("end") /\ "end" \in DOMAIN After
    BY DEF Coming, IsValue, ValueOf, After
  <2>. QED BY <1>0, <1>8, <2>1, <2>2, <2>3, ReachMoves DEF CodesRead
<1>9. CASE Collect(l)
  <2>1. point[l] = "diags" /\ stage[l] = "run" /\ UNCHANGED local
    BY <1>9 DEF Collect, At
  <2>2. PathOK("diags", "arrive2", Way) /\ ValuesOK(l, "diags", "arrive2", local[l], Way)
    BY <2>1 DEF PathOK, ValuesOK, HasNew, OkAt, Early, After, IsValue, ValueOf
  <2>3. Coming("diags", Way) = <<"diags", 2>> /\ ~IsValue("diags") /\ "diags" \in DOMAIN After
    BY DEF Coming, IsValue, ValueOf, After
  <2>. QED BY <1>0, <1>9, <2>1, <2>2, <2>3, ReachMoves DEF Collect
<1>. QED BY <1>1, <1>2, <1>3, <1>4, <1>5, <1>6, <1>7, <1>8, <1>9

LEMMA GoToHolds ==
  ASSUME IInv, NEW l \in Lane,
         ScanFailed(l) \/ NoCode(l) \/ StructureBad(l) \/ Signal(l)
  PROVE  IInv'
<1>. USE AboutLane
<1>1. CASE ScanFailed(l)
  <2>1. point[l] = "bin_module" /\ stage[l] = "run" /\ Way.scan = "false"
    BY <1>1 DEF ScanFailed, At, ValuesOK, HasNew, OkAt
  <2>2. PathOK("exit", "run", Way) /\ ValuesOK(l, "exit", "run", local[l], Way)
    BY <2>1 DEF PathOK, ValuesOK, HasNew, OkAt, Early
  <2>3. Coming("exit", Way) = Call(l) /\ "exit" \in Point
    BY <2>1 DEF Coming, Call, CallOf, Point
  <2>. QED BY <1>1, <2>1, <2>2, <2>3, GoToMoves DEF ScanFailed
<1>2. CASE NoCode(l)
  <2>1. point[l] = "code_ok" /\ stage[l] = "run" /\ Way.code = "false" /\ Way.scan = "true"
    BY <1>2 DEF NoCode, At, Way, Truth, PathOK
  <2>2. PathOK("end", "run", Way) /\ ValuesOK(l, "end", "run", local[l], Way)
    BY <2>1 DEF PathOK, ValuesOK, HasNew, OkAt, Early, After
  <2>3. Coming("end", Way) = Call(l) /\ "end" \in Point
    BY <2>1 DEF Coming, Call, CallOf, Point, After
  <2>. QED BY <1>2, <2>1, <2>2, <2>3, GoToMoves DEF NoCode
<1>3. CASE StructureBad(l)
  <2>1. /\ point[l] = "bin_codes" /\ stage[l] = "run" /\ Way.structure = "false"
        /\ Way.scan = "true" /\ Way.code = "true"
    BY <1>3 DEF StructureBad, At, ValuesOK, HasNew, OkAt, PathOK
  <2>2. PathOK("end", "run", Way) /\ ValuesOK(l, "end", "run", local[l], Way)
    BY <2>1 DEF PathOK, ValuesOK, HasNew, OkAt, Early, After
  <2>3. Coming("end", Way) = Call(l) /\ "end" \in Point
    BY <2>1 DEF Coming, Call, CallOf, Point, After
  <2>. QED BY <1>3, <2>1, <2>2, <2>3, GoToMoves DEF StructureBad
<1>4. CASE Signal(l)
  <2>1. point[l] = "signal" /\ stage[l] = "run"
    BY <1>4 DEF Signal, At
  <2>2. PathOK("exit", "run", Way) /\ ValuesOK(l, "exit", "run", local[l], Way)
    BY <2>1 DEF PathOK, ValuesOK, HasNew, OkAt, Early
  <2>3. Coming("exit", Way) = Call(l) /\ "exit" \in Point
    BY <2>1 DEF Coming, Call, CallOf, Point
  <2>. QED BY <1>4, <2>1, <2>2, <2>3, GoToMoves DEF Signal
<1>. QED BY <1>1, <1>2, <1>3, <1>4

LEMMA LoopHolds ==
  ASSUME IInv, NEW l \in Lane,
         ReadSection(l) \/ StoreLen(l) \/ ReadCode(l)
  PROVE  IInv'
<1>. USE AboutLane
<1>1. /\ local \in [Lane -> Locals] /\ point = [point EXCEPT ![l] = point[l]]
      /\ stage = [stage EXCEPT ![l] = stage[l]]
  BY DEF IInv, Types
<1>2. CASE ReadSection(l) \/ StoreLen(l)
  <2>1. /\ point[l] = "sections" /\ stage[l] \in {"run", "len"}
        /\ UNCHANGED <<point, local, mainVars, barrierVars, shared>>
    BY <1>2 DEF ReadSection, StoreLen, At, PathOK
  <2>2. PICK s \in {"run", "len"} : stage' = [stage EXCEPT ![l] = s]
    BY <1>1, <1>2, <2>1 DEF ReadSection, StoreLen
  <2>3. PathOK("sections", s, Way) /\ ValuesOK(l, "sections", s, local[l], Way)
    BY <2>1 DEF PathOK, ValuesOK, HasNew, OkAt, Early, After
  <2>4. /\ CallOf(l, "sections", s, arrived, Way) = Call(l) /\ ~Needs(l, s, arrived)
        /\ "sections" \in Point /\ s \in Stage
    BY <2>1 DEF CallOf, Call, Needs, Point, Stage, After
  <2>5. Moves(l, "sections", s)
    BY <1>1, <2>1, <2>2, <2>3, <2>4 DEF Moves, Goes, mainVars, barrierVars
  <2>. QED BY <2>4, <2>5, MovesIInv
<1>3. CASE ReadCode(l)
  <2>1. /\ point[l] = "end" /\ stage[l] = "run"
        /\ UNCHANGED <<point, stage, local, mainVars, barrierVars, shared>>
    BY <1>3 DEF ReadCode, At
  <2>2. /\ CallOf(l, "end", "run", arrived, Way) = Call(l) /\ ~Needs(l, "run", arrived)
        /\ "end" \in Point /\ "run" \in Stage
    BY <2>1 DEF Call, Needs, Point, Stage, After
  <2>3. Moves(l, "end", "run")
    BY <1>1, <2>1, <2>2 DEF Moves, Goes, mainVars, barrierVars
  <2>. QED BY <2>2, <2>3, MovesIInv
<1>. QED BY <1>2, <1>3

-----------------------------------------------------------------------------
(* The calls *)

LEMMA LeaveFirstHolds ==
  ASSUME IInv, NEW l \in Lane, LeaveFirst(l)
  PROVE  IInv'
<1>. USE AboutLane
<1>1. /\ stage[l] = "wait1" /\ l \notin arrived
      /\ UNCHANGED <<point, local, mainVars, barrierVars, shared>>
      /\ stage' = [stage EXCEPT ![l] = "load"]
  BY DEF LeaveFirst
<1>2. /\ local' \in [Lane -> Locals] /\ point' = [point EXCEPT ![l] = point[l]]
  BY <1>1 DEF IInv, Types
<1>3. /\ IsValue(point[l]) /\ point[l] \notin {"created", "exit"}
      /\ PathOK(point[l], "load", Way)
  BY <1>1 DEF PathOK, IsValue, ValueOf
<1>4. ValuesOK(l, point[l], "load", local[l], Way)
  BY <1>1 DEF ValuesOK, HasNew
<1>5. /\ CallOf(l, point[l], "load", arrived, Way) = Call(l)
      /\ Needs(l, stage[l], arrived) /\ "load" \in Stage
  BY <1>1 DEF CallOf, Call, Needs, Stage
<1>6. Moves(l, point[l], "load")
  BY <1>1, <1>2, <1>3, <1>4, <1>5 DEF Moves, Goes, mainVars, barrierVars
<1>. QED BY <1>5, <1>6, MovesIInv

LEMMA LoadHolds ==
  ASSUME IInv, NEW l \in Lane, Load(l)
  PROVE  IInv'
<1>. USE AboutLane
<1>. DEFINE p == point[l]
<1>1. /\ stage[l] = "load" /\ l \notin arrived
      /\ UNCHANGED <<point, mainVars, barrierVars, shared>>
      /\ stage' = [stage EXCEPT ![l] = "arrive2"]
      /\ IsValue(p)
  BY DEF Load, PathOK
<1>2. shared = Handed(p, Way)
  BY <1>1 DEF IInv, SharedInv, Needs
<1>3. p \in {"ctxs", "scan_ok", "bin_module", "code_ok", "bin_codes"}
  BY <1>1 DEF IsValue, ValueOf
<1>4. /\ local' \in [Lane -> Locals]
      /\ \A m \in Lane \ {l} : local'[m] = local[m]
      /\ local'[l] = IF l = 0 THEN local[l] ELSE [local[l] EXCEPT ![ValueOf[p]] = shared]
  <2>1. local \in [Lane -> Locals]
    BY DEF IInv, Types
  <2>2. CASE l = 0
    BY <2>1, <2>2 DEF Load
  <2>3. CASE l # 0
    <3>. DEFINE v == [local[l] EXCEPT ![ValueOf[p]] = shared]
    <3>1. v \in Locals
      BY <1>2, <1>3 DEF Locals, Handed, Ways, ValueOf
    <3>2. local' = [local EXCEPT ![l] = v]
      BY <2>1, <2>3 DEF Load
    <3>. QED BY <2>1, <2>3, <3>1, <3>2
  <2>. QED BY <2>2, <2>3
<1>5. PathOK(p, "arrive2", Way)
  BY <1>1 DEF PathOK
<1>6. ValuesOK(l, p, "arrive2", local'[l], Way)
  <2>1. CASE l = 0
    BY <1>1, <1>4, <2>1 DEF ValuesOK, HasNew
  <2>2. CASE l # 0
    <3>. USE <1>1, <1>2, <1>3, <1>4, <2>2
         DEF ValuesOK, HasNew, Handed, ValueOf, After, OkAt, Early, PathOK, Ways, Locals
    <3>1. CASE p = "ctxs"
      BY <3>1
    <3>2. CASE p = "scan_ok"
      BY <3>2
    <3>3. CASE p = "bin_module"
      BY <3>3
    <3>4. CASE p = "code_ok"
      BY <3>4
    <3>5. CASE p = "bin_codes"
      BY <3>5
    <3>. QED BY <3>1, <3>2, <3>3, <3>4, <3>5
  <2>. QED BY <2>1, <2>2
<1>7. /\ CallOf(l, p, "arrive2", arrived, Way) = Call(l)
      /\ ~Needs(l, "arrive2", arrived) /\ "arrive2" \in Stage
  BY <1>1 DEF CallOf, Call, Needs, Stage
<1>8. point' = [point EXCEPT ![l] = p]
  BY <1>1 DEF IInv, Types
<1>9. Moves(l, p, "arrive2")
  BY <1>1, <1>3, <1>4, <1>5, <1>6, <1>7, <1>8 DEF Moves, Goes, mainVars, barrierVars
<1>. QED BY <1>7, <1>9, MovesIInv

LEMMA LeaveHolds ==
  ASSUME IInv, NEW l \in Lane, Leave(l)
  PROVE  IInv'
<1>. USE AboutLane
<1>. DEFINE p == point[l]
<1>1. stage[l] = "wait2" /\ l \notin arrived /\ gen[l] # generation
  BY DEF Leave
<1>2. p \in DOMAIN After
  BY <1>1 DEF PathOK
<1>3. p \in {"start", "ctxs", "scan_ok", "bin_module", "sections", "code_ok",
             "bin_codes", "end", "diags"}
  BY <1>2 DEF After
<1>4. /\ After[p] \in Point /\ p \notin {"created", "exit"}
  BY <1>3 DEF After, Point
<1>5. Coming(After[p], Way) = Call(l)
  BY <1>1 DEF Call, CallOf
<1>6. PathOK(After[p], "run", Way)
  BY <1>1, <1>3 DEF PathOK, After
<1>7. ValuesOK(l, After[p], "run", local[l], Way)
  BY <1>1, <1>3 DEF ValuesOK, HasNew, After, Early
<1>. QED BY <1>1, <1>4, <1>5, <1>6, <1>7, GoToMoves DEF Leave

\* Lane 0 stores its value only when no lane needs the one before.
LEMMA StoreHolds ==
  ASSUME IInv, NEW l \in Lane, Store(l)
  PROVE  IInv'
<1>. USE AboutLane
<1>. DEFINE p == point[l]
<1>1. /\ stage[l] = "store" /\ l \notin arrived /\ IsValue(p)
      /\ UNCHANGED <<point, local, mainVars, barrierVars>>
      /\ stage' = [stage EXCEPT ![l] = "arrive1"]
      /\ shared' = IF l = 0 THEN local[l][ValueOf[p]] ELSE shared
  BY DEF Store, PathOK
<1>2. p \in {"ctxs", "scan_ok", "bin_module", "code_ok", "bin_codes"}
  BY <1>1 DEF IsValue, ValueOf
<1>3. PathOK(p, "arrive1", Way) /\ ValuesOK(l, p, "arrive1", local[l], Way)
  BY <1>1 DEF PathOK, ValuesOK, HasNew
<1>4. Call(l) = <<p, 1>> /\ CallOf(l, p, "arrive1", arrived, Way) = Call(l)
  BY <1>1 DEF CallOf, Call
<1>5. /\ local' \in [Lane -> Locals] /\ point' = [point EXCEPT ![l] = p]
      /\ "arrive1" \in Stage
  BY <1>1 DEF IInv, Types, Stage
<1>6. Goes(l, p, "arrive1")
  BY <1>1, <1>3, <1>4, <1>5 DEF Goes, mainVars, barrierVars
<1>7. CASE l # 0
  <2>1. ~Needs(l, "arrive1", arrived) /\ p \notin {"created", "exit"}
    BY <1>2, <1>7 DEF Needs
  <2>2. Moves(l, p, "arrive1")
    BY <1>1, <1>6, <1>7, <2>1 DEF Moves, mainVars
  <2>. QED BY <1>5, <2>2, MovesIInv
<1>8. CASE l = 0
  <2>1. /\ Types' /\ (\A m \in Lane : LaneOK(m)') /\ BarrierInv' /\ SameNext'
        /\ Way' = Way
        /\ \A m \in Lane \ {l} : point'[m] = point[m] /\ stage'[m] = stage[m]
    BY <1>5, <1>6, GoesHolds
  <2>2. shared' = Handed(p, Way)
    <3>1. shared' = local[l][ValueOf[p]]
      BY <1>1, <1>8
    <3>. USE <1>1, <1>8, <3>1 DEF ValuesOK, HasNew, Handed, ValueOf, After, OkAt, Early
    <3>2. CASE p = "ctxs"
      BY <3>2
    <3>3. CASE p = "scan_ok"
      BY <3>3
    <3>4. CASE p = "bin_module"
      BY <3>4
    <3>5. CASE p = "code_ok"
      BY <3>5
    <3>6. CASE p = "bin_codes"
      BY <3>6
    <3>. QED BY <1>2, <3>2, <3>3, <3>4, <3>5, <3>6
  <2>3. SharedInv'
    <3>1. ASSUME NEW m \in Lane \ {l} PROVE ~Needs(m, stage'[m], arrived)
      <4>1. SUFFICES ASSUME stage[m] = "load" \/ (stage[m] = "wait1" /\ m \notin arrived)
                     PROVE  FALSE
        BY <1>8, <2>1 DEF Needs
      <4>2. Call(m) = <<point[m], 2>>
        BY <4>1 DEF Call, CallOf
      <4>3. Call(m) = Call(l)
        BY DEF IInv, SameNext
      <4>. QED BY <1>4, <4>2, <4>3
    <3>2. UNCHANGED <<arrived, point>>
      BY <1>1 DEF barrierVars
    <3>. QED BY <2>1, <2>2, <3>1, <3>2 DEF SharedInv
  <2>4. MainInv'
    BY <1>1 DEF IInv, MainInv, mainVars
  <2>. QED BY <2>1, <2>3, <2>4 DEF IInv
<1>. QED BY <1>7, <1>8

LEMMA ArriveHolds ==
  ASSUME IInv, NEW l \in Lane, Arrive(l)
  PROVE  IInv'
<1>. USE AboutLane
<1>. DEFINE p == point[l]
            t == Waiting[stage[l]]
            n == IF t = "wait1" THEN 1 ELSE 2
<1>1. /\ stage[l] \in {"arrive1", "arrive2"} /\ l \notin arrived
      /\ t \in {"wait1", "wait2"}
      /\ stage[l] = "arrive1" <=> t = "wait1"
      /\ UNCHANGED <<point, local, mainVars, shared>>
      /\ stage' = [stage EXCEPT ![l] = t]
      /\ gen' = [gen EXCEPT ![l] = generation]
  BY DEF Arrive, Waiting
<1>2. /\ Way' = Way
      /\ stage'[l] = t /\ gen'[l] = generation
      /\ \A m \in Lane \ {l} : stage'[m] = stage[m] /\ gen'[m] = gen[m]
      /\ stage' \in [Lane -> Stage] /\ gen' \in [Lane -> Nat]
  BY <1>1, WayKept DEF IInv, Types, Stage, mainVars
<1>3. Call(l) = <<p, n>>
  BY <1>1 DEF Call, CallOf
<1>4. ASSUME NEW m \in Lane PROVE LaneOK(m)'
  <2>1. CASE m = l
    BY <1>1, <1>2, <2>1 DEF LaneOK, PathOK, ValuesOK, HasNew
  <2>2. CASE m # l
    BY <1>1, <1>2, <2>2 DEF LaneOK
  <2>. QED BY <2>1, <2>2
<1>5. MainInv'
  BY <1>1 DEF IInv, MainInv, mainVars
<1>6. CASE Cardinality(arrived \cup {l}) = LaneCount
  <2>1. arrived' = {} /\ generation' = generation + 1
    BY <1>6 DEF Arrive
  <2>2. arrived \cup {l} = Lane
    <3>1. arrived \cup {l} \subseteq Lane
      BY DEF IInv, Types
    <3>. QED BY <1>6, <3>1, LanesFinite, FS_Subset
  <2>3. ASSUME NEW m \in Lane PROVE point[m] = p /\ stage'[m] = t
    <3>1. CASE m = l
      BY <1>2, <3>1
    <3>2. CASE m # l
      <4>1. m \in arrived /\ stage[m] \in {"wait1", "wait2"}
        BY <2>2, <3>2 DEF IInv, BarrierInv
      <4>2. Call(m) = <<point[m], IF stage[m] = "wait1" THEN 1 ELSE 2>>
        BY <4>1 DEF Call, CallOf
      <4>3. Call(m) = <<p, n>>
        BY <1>3 DEF IInv, SameNext
      <4>4. point[m] = p /\ (IF stage[m] = "wait1" THEN 1 ELSE 2) = n
        BY <4>2, <4>3
      <4>. QED BY <1>1, <1>2, <3>2, <4>1, <4>4
    <3>. QED BY <3>1, <3>2
  <2>4. Types'
    BY <1>1, <1>2, <2>1 DEF IInv, Types, mainVars
  <2>5. BarrierInv'
    BY <1>2, <2>1, LanesFinite DEF IInv, Types, BarrierInv
  <2>6. SameNext'
    <3>1. ASSUME NEW m \in Lane
          PROVE  Call(m)' = IF t = "wait1" THEN <<p, 2>> ELSE Coming(After[p], Way)
      <4>1. Call(m)' = CallOf(m, p, t, {}, Way)
        BY <1>1, <1>2, <2>1, <2>3 DEF Call
      <4>. QED BY <1>1, <4>1 DEF CallOf
    <3>. QED BY <3>1 DEF SameNext
  <2>7. SharedInv'
    <3>1. CASE t = "wait2"
      BY <2>3, <3>1 DEF SharedInv, Needs
    <3>2. CASE t = "wait1"
      <4>1. 0 \in Lane /\ stage[0] \in {"arrive1", "wait1"}
        BY <1>1, <1>2, <2>3, <3>2, LanesFinite
      <4>2. shared = Handed(p, Way)
        BY <2>3, <4>1 DEF IInv, SharedInv, Needs
      <4>. QED BY <1>1, <1>2, <2>3, <4>2 DEF SharedInv
    <3>. QED BY <1>1, <3>1, <3>2
  <2>. QED BY <1>4, <1>5, <2>4, <2>5, <2>6, <2>7 DEF IInv
<1>7. CASE Cardinality(arrived \cup {l}) # LaneCount
  <2>1. arrived' = arrived \cup {l} /\ generation' = generation
    BY <1>7 DEF Arrive
  <2>2. Types'
    BY <1>1, <1>2, <2>1 DEF IInv, Types, mainVars
  <2>3. BarrierInv'
    <3>1. arrived' # Lane
      BY <1>7, <2>1, LanesFinite
    <3>. QED BY <1>1, <1>2, <2>1, <3>1 DEF IInv, Types, BarrierInv
  <2>4. ASSUME NEW m \in Lane PROVE Call(m)' = Call(m)
    <3>1. CASE m = l
      <4>1. Call(l)' = CallOf(l, p, t, arrived \cup {l}, Way)
        BY <1>1, <1>2, <2>1 DEF Call
      <4>. QED BY <1>1, <1>3, <3>1, <4>1 DEF CallOf
    <3>2. CASE m # l
      <4>1. Call(m)' = CallOf(m, point[m], stage[m], arrived \cup {l}, Way)
        BY <1>1, <1>2, <2>1, <3>2 DEF Call
      <4>. QED BY <3>2, <4>1 DEF Call, CallOf
    <3>. QED BY <3>1, <3>2
  <2>5. SameNext'
    BY <2>4 DEF IInv, SameNext
  <2>6. SharedInv'
    <3>1. ASSUME NEW m \in Lane, Needs(m, stage'[m], arrived')
          PROVE  Needs(m, stage[m], arrived)
      <4>1. CASE m = l
        BY <1>1, <1>2, <2>1, <3>1, <4>1 DEF Needs
      <4>2. CASE m # l
        BY <1>2, <2>1, <3>1, <4>2 DEF Needs
      <4>. QED BY <4>1, <4>2
    <3>. QED BY <1>1, <1>2, <3>1 DEF IInv, SharedInv
  <2>. QED BY <1>4, <1>5, <2>2, <2>3, <2>5, <2>6 DEF IInv
<1>. QED BY <1>6, <1>7

-----------------------------------------------------------------------------
(* bin_read, and the theorems *)

\* A thread starts before the barrier that all lanes have before them.
LEMMA StartHolds == ASSUME IInv, Start PROVE IInv'
<1>1. /\ main = "starting" /\ main' = main /\ count' = count + 1 /\ count < LaneCount
      /\ point' = [point EXCEPT ![count] = "start"]
      /\ UNCHANGED <<file, stage, arrived, generation, gen, shared, local>>
  BY DEF Start, barrierVars
<1>2. count \in Lane /\ count' \in 0 .. LaneCount
  BY <1>1 DEF IInv, Types, Lane
<1>. USE AboutLane
<1>3. point[count] = "created" /\ stage[count] = "run" /\ count \notin arrived
  <2>1. point[count] = "created"
    BY <1>1, <1>2 DEF IInv, MainInv, Lane
  <2>2. stage[count] = "run"
    BY <1>2, <2>1 DEF PathOK, After
  <2>. QED BY <1>2, <2>1, <2>2
<1>4. PathOK("start", "run", Way) /\ ValuesOK(count, "start", "run", local[count], Way)
  BY <1>2, <1>3 DEF PathOK, ValuesOK, HasNew, OkAt, Early
<1>5. CallOf(count, "start", "run", arrived, Way) = Call(count)
  BY <1>3 DEF CallOf, Call, Coming
<1>6. /\ stage' = [stage EXCEPT ![count] = "run"] /\ local' \in [Lane -> Locals]
      /\ "start" \in Point /\ "run" \in Stage
  BY <1>1, <1>3 DEF IInv, Types, Point, Stage, After
<1>7. Goes(count, "start", "run")
  BY <1>1, <1>2, <1>3, <1>4, <1>5, <1>6 DEF Goes
<1>8. /\ Types' /\ (\A m \in Lane : LaneOK(m)') /\ BarrierInv' /\ SameNext'
      /\ Way' = Way
      /\ \A m \in Lane \ {count} : point'[m] = point[m]
  BY <1>2, <1>6, <1>7, GoesHolds
<1>9. SharedInv'
  <2>1. ~Needs(count, stage[count], arrived)
    BY <1>3 DEF Needs
  <2>. QED BY <1>1, <1>2, <1>8, <2>1 DEF IInv, SharedInv
<1>10. MainInv'
  BY <1>1, <1>2, <1>8 DEF IInv, MainInv, Lane, Types
<1>. QED BY <1>8, <1>9, <1>10 DEF IInv

LEMMA OthersHold ==
  ASSUME IInv, \/ Wait \/ Join \/ Return \/ UNCHANGED vars
               \/ \E l \in Lane : Panic(l)
  PROVE  IInv'
<1>1. UNCHANGED <<file, point, stage, arrived, generation, gen, shared, local>>
  BY DEF Wait, Join, Return, Panic, vars, mainVars, barrierVars
<1>2. Way' = Way
  BY <1>1, WayKept
<1>3. count' \in 0 .. LaneCount /\ MainInv'
  BY <1>1 DEF Wait, Join, Return, Panic, vars, mainVars, IInv, Types, MainInv, Lane
<1>4. Types'
  BY <1>1, <1>3 DEF IInv, Types
<1>5. ASSUME NEW l \in Lane PROVE LaneOK(l)' /\ Call(l)' = Call(l)
  BY <1>1, <1>2 DEF IInv, LaneOK, Call
<1>6. BarrierInv' /\ SameNext' /\ SharedInv'
  BY <1>1, <1>2, <1>5 DEF IInv, BarrierInv, SameNext, SharedInv
<1>. QED BY <1>3, <1>4, <1>5, <1>6 DEF IInv

LEMMA NextIInv == ASSUME IInv, [Next]_vars PROVE IInv'
<1>1. ASSUME NEW l \in Lane, LaneStep(l) PROVE IInv'
  BY <1>1, ReachHolds, GoToHolds, LoopHolds, StoreHolds, ArriveHolds, LeaveFirstHolds,
     LoadHolds, LeaveHolds, OthersHold DEF LaneStep
<1>. QED BY <1>1, StartHolds, OthersHold DEF Next, MainStep

LEMMA IInvHolds == Spec => []IInv
BY InitIInv, NextIInv, PTL DEF Spec

\* For any number of lanes and any file, the lanes that the barrier holds are
\* in the same barrier call of bin_read_entry_point: no lane returns, or skips
\* a call, alone.
THEOREM LanesMeet == Spec => []SameCall
<1>1. IInv => SameCall
  <2>. SUFFICES ASSUME IInv, NEW l \in arrived, NEW m \in arrived
                PROVE  point[l] = point[m] /\ stage[l] = stage[m]
    BY DEF SameCall
  <2>1. /\ l \in Lane /\ m \in Lane
        /\ stage[l] \in {"wait1", "wait2"} /\ stage[m] \in {"wait1", "wait2"}
    BY DEF IInv, Types, BarrierInv
  <2>2. /\ Call(l) = <<point[l], IF stage[l] = "wait1" THEN 1 ELSE 2>>
        /\ Call(m) = <<point[m], IF stage[m] = "wait1" THEN 1 ELSE 2>>
    BY <2>1 DEF Call, CallOf
  <2>3. Call(l) = Call(m)
    BY <2>1 DEF IInv, SameNext
  <2>4. (IF stage[l] = "wait1" THEN 1 ELSE 2) = (IF stage[m] = "wait1" THEN 1 ELSE 2)
    BY <2>2, <2>3
  <2>. QED BY <2>1, <2>2, <2>3, <2>4
<1>. QED BY <1>1, IInvHolds, PTL

\* For any number of lanes and any file, lanes about to run the same code
\* agree on the locals it uses: lane_sync_value hands over the value of
\* lane 0 of this call, never that of the call before or behind it.
THEOREM LanesAgreeAlways == Spec => []LanesAgree
<1>1. IInv => LanesAgree
  <2>. SUFFICES ASSUME IInv, NEW l \in Lane, NEW m \in Lane,
                       stage[l] = "run", stage[m] = "run", point[l] = point[m],
                       NEW v \in UsedAt(l)
                PROVE  local[l][v] = local[m][v]
    BY DEF LanesAgree
  <2>1. /\ ValuesOK(l, point[l], "run", local[l], Way)
        /\ ValuesOK(m, point[l], "run", local[m], Way)
        /\ PathOK(point[l], "run", Way)
    BY AboutLane
  <2>2. local[l].ok = local[m].ok /\ local[l].ctxs = local[m].ctxs
    BY <2>1 DEF ValuesOK, HasNew
  <2>3. CASE v = "bin_module"
    BY <2>1, <2>3 DEF UsedAt, ValuesOK
  <2>4. CASE v = "bin_codes"
    <3>1. point[l] = "end" /\ Bodies(l) # 0
      BY <2>4 DEF UsedAt
    <3>2. local[l].ok = "true" /\ Way.code = "true"
      BY <3>1 DEF Bodies, Way, Truth
    <3>3. Way.structure = "true"
      BY <2>1, <3>1, <3>2 DEF ValuesOK, HasNew, OkAt, PathOK
    <3>. QED BY <2>1, <2>4, <3>1, <3>2, <3>3 DEF ValuesOK
  <2>5. CASE v \in {"ok", "ctxs"}
    BY <2>2, <2>5
  <2>. QED BY <2>3, <2>4, <2>5 DEF UsedAt
<1>. QED BY <1>1, IInvHolds, PTL

\* For any number of lanes and any file, no lane uses its context behind the
\* return of lane 0, in whose temporary arena it is, and bin_read returns,
\* with the barrier and the shared memory in its frame, only behind all lanes.
THEOREM NothingDangles == Spec => []NoDanglingUse
<1>1. IInv => NoDanglingUse
  <2>. SUFFICES ASSUME IInv PROVE NoDanglingUse
    OBVIOUS
  <2>1. ASSUME NEW l \in Lane, UsesCtx(l), point[0] = "exit" PROVE FALSE
    <3>1. Call(0) = <<"exit", 2>>
      <4>1. 0 \in Lane /\ PathOK("exit", stage[0], Way)
        BY <2>1, LanesFinite, AboutLane
      <4>2. stage[0] = "run"
        BY <4>1 DEF PathOK, After
      <4>. QED BY <2>1, <4>2 DEF Call, CallOf, Coming
    <3>2. Way.scan = "true" /\ Call(l) = Coming(point[l], Way)
      BY <2>1 DEF UsesCtx, Call, CallOf, Way, Truth
    <3>3. Coming(point[l], Way) # <<"exit", 2>>
      BY <2>1, <3>2 DEF UsesCtx, Coming
    <3>. QED BY <3>1, <3>2, <3>3, LanesFinite DEF IInv, SameNext
  <2>. QED BY <2>1 DEF NoDanglingUse, IInv, MainInv
<1>. QED BY <1>1, IInvHolds, PTL
-----------------------------------------------------------------------------
(* Who waits for whom *)

\* A lane waits to be started, is held by the barrier, or has ended.
LaneWaits(l) ==
  \/ point[l] \in {"created", "exit"}
  \/ stage[l] \in {"wait1", "wait2"} /\ gen[l] = generation

\* A reader keeps the lane for ever.
LaneLoops(l) == Outcome(l) = "loops"

\* bin_read waits for the event or for the end of a lane, or has returned.
MainWaits ==
  \/ main = "starting" /\ count = LaneCount /\ ~done
  \/ main = "joining" /\ count < LaneCount /\ point[count] # "exit"
  \/ main = "returned"

\* When nobody can go on and nothing has panicked, every lane has ended, and
\* bin_read has returned or waits for the event that nobody signals behind a
\* failed scan; or a reader loops, and bin_read waits for the event.
OnlyHang ==
  MainWaits /\ (\A l \in Lane : LaneWaits(l) \/ LaneLoops(l)) =>
    \/ /\ \A l \in Lane : point[l] = "exit"
       /\ main = "returned" \/ (main = "starting" /\ ~file.scan)
    \/ main = "starting" /\ file.scan /\ \E l \in Lane : LaneLoops(l)

\* Which lanes have been started, and what the event says.
EventInv ==
  /\ main \in {"starting", "joining", "returned", "panicked"}
  /\ \A l \in Lane :
       point[l] = "created" => main \in {"starting", "panicked"} /\ count <= l
  /\ main \in {"joining", "returned"} => done
  /\ main = "panicked" => file.scan
  /\ done => file.scan /\ point[0] = "exit"
  /\ point[0] = "exit" /\ file.scan => done

\* The order of the program: a lane goes to a later call, to the next element
\* of its range, or to the next stage of its call.
PointRank ==
  [created |-> 0, start |-> 1, ctxs |-> 2, scan_ok |-> 3, bin_module |-> 4, sections |-> 5,
   code_ok |-> 6, bin_codes |-> 7, end |-> 8, diags |-> 9, signal |-> 10, exit |-> 11]
StageRank ==
  [run |-> 0, len |-> 1, store |-> 2, arrive1 |-> 3, wait1 |-> 4, load |-> 5, arrive2 |-> 6,
   wait2 |-> 7]
MainRank == [starting |-> 0, joining |-> 1, returned |-> 2, panicked |-> 3]

LaneAdvances(l) ==
  \/ PointRank[point[l]] < PointRank[point'[l]]
  \/ point'[l] = point[l] /\ items[l] < items'[l]
  \/ /\ point'[l] = point[l] /\ items'[l] = items[l]
     /\ StageRank[stage[l]] < StageRank[stage'[l]]

LaneStays(l) == point'[l] = point[l] /\ stage'[l] = stage[l] /\ items'[l] = items[l]

MainAdvances ==
  \/ MainRank[main] < MainRank[main']
  \/ main' = main /\ count < count'

\* Every step takes one thread forward in its program, and no thread back.
NoWayBack ==
  /\ MainAdvances \/ (UNCHANGED <<main, count>> /\ \E l \in Lane : LaneAdvances(l))
  /\ \A l \in Lane : LaneAdvances(l) \/ LaneStays(l)

LEMMA WayTells == Way.scan = "true" <=> file.scan = TRUE
BY DEF Way, Truth

\* A lane that neither starts nor ends leaves the event alone.
LEMMA EventKept ==
  ASSUME IInv, EventInv, NEW l \in Lane, NEW p \in Point,
         UNCHANGED <<mainVars, done>>,
         UNCHANGED point \/ (point' = [point EXCEPT ![l] = p] /\ point[l] # "exit"),
         p \notin {"created", "exit"}
  PROVE  EventInv'
<1>1. point \in [Lane -> Point] /\ 0 \in Lane
  BY LanesFinite DEF IInv, Types
<1>2. ASSUME NEW m \in Lane
      PROVE  point'[m] = point[m] \/ (point'[m] = p /\ point[m] # "exit")
  BY <1>1
<1>. QED BY <1>1, <1>2 DEF EventInv, mainVars

\* A lane whose reader does not return is before a barrier that all lanes
\* have before them.
LEMMA KeptAt ==
  ASSUME IInv, NEW l \in Lane, Outcome(l) # "returns"
  PROVE  /\ point[l] \in {"sections", "end"} /\ stage[l] = "run"
         /\ file.scan
         /\ Call(l) = <<point[l], 2>>
<1>1. point[l] \in {"sections", "end"} /\ stage[l] = "run"
  BY DEF Outcome, ReadsSection, ReadsCode, At
<1>2. Way.scan = "true"
  BY <1>1, AboutLane DEF PathOK
<1>3. Call(l) = <<point[l], 2>>
  BY <1>1 DEF Call, CallOf, Coming
<1>. QED BY <1>1, <1>2, <1>3, WayTells

LEMMA EventLane ==
  ASSUME IInv, EventInv, NEW l \in Lane, LaneStep(l)
  PROVE  EventInv'
<1>0. point \in [Lane -> Point] /\ 0 \in Lane /\ "end" \in Point /\ point[l] \in Point
  BY LanesFinite DEF IInv, Types, Point, After
<1>1. CASE \/ Begin(l) \/ AllocCtxs(l) \/ Scan(l) \/ ScanPassed(l) \/ ReadSection(l)
           \/ StoreLen(l) \/ SectionsRead(l) \/ ReadStructure(l) \/ StructureGood(l)
           \/ ReadCode(l) \/ CodesRead(l) \/ Collect(l)
           \/ Store(l) \/ Arrive(l) \/ LeaveFirst(l) \/ Load(l)
  <2>1. UNCHANGED <<mainVars, done, point>>
    BY <1>1 DEF Begin, AllocCtxs, Scan, ScanPassed, ReadSection, StoreLen, SectionsRead,
         ReadStructure, StructureGood, ReadCode, CodesRead, Collect, Store, Arrive,
         LeaveFirst, Load, Reach, outVars
  <2>. QED BY <1>0, <2>1, EventKept, "end" \notin {"created", "exit"}
<1>2. CASE NoCode(l) \/ StructureBad(l)
  <2>1. /\ UNCHANGED <<mainVars, done>> /\ point' = [point EXCEPT ![l] = "end"]
        /\ point[l] # "exit"
    BY <1>2 DEF NoCode, StructureBad, GoTo, outVars, At
  <2>. QED BY <1>0, <2>1, EventKept
<1>3. CASE Leave(l)
  <2>1. /\ UNCHANGED <<mainVars, done>> /\ point' = [point EXCEPT ![l] = After[point[l]]]
        /\ stage[l] = "wait2"
    BY <1>3 DEF Leave, GoTo, outVars
  <2>2. point[l] \in DOMAIN After
    BY <2>1, AboutLane DEF PathOK
  <2>3. After[point[l]] \in Point \ {"created", "exit"} /\ point[l] # "exit"
    BY <2>2 DEF After, Point
  <2>. QED BY <1>0, <2>1, <2>3, EventKept
<1>4. CASE ScanFailed(l)
  <2>1. /\ UNCHANGED <<mainVars, done>> /\ point' = [point EXCEPT ![l] = "exit"]
        /\ point[l] = "bin_module" /\ stage[l] = "run" /\ local[l].ok = "false"
    BY <1>4 DEF ScanFailed, GoTo, outVars, At
  <2>2. Way.scan = "false"
    BY <2>1, AboutLane DEF ValuesOK, HasNew, OkAt
  <2>3. ~file.scan
    BY <2>2, WayTells
  <2>. QED BY <1>0, <2>1, <2>3 DEF EventInv, mainVars
<1>5. CASE Signal(l)
  <2>1. /\ UNCHANGED mainVars /\ point' = [point EXCEPT ![l] = "exit"]
        /\ point[l] = "signal" /\ done' = (done \/ l = 0)
    BY <1>5 DEF Signal, GoTo, At
  <2>2. file.scan
    BY <2>1, AboutLane, WayTells DEF PathOK
  <2>. QED BY <1>0, <2>1, <2>2 DEF EventInv, mainVars
<1>6. CASE Panic(l)
  <2>1. UNCHANGED <<file, count, point, done>> /\ main' = "panicked"
    BY <1>6 DEF Panic, outVars
  <2>2. file.scan
    BY <1>6, KeptAt DEF Panic
  <2>. QED BY <1>0, <2>1, <2>2 DEF EventInv
<1>. QED BY <1>1, <1>2, <1>3, <1>4, <1>5, <1>6 DEF LaneStep

LEMMA EventMain ==
  ASSUME IInv, EventInv, MainStep \/ UNCHANGED vars
  PROVE  EventInv'
<1>0. point \in [Lane -> Point] /\ 0 \in Lane /\ count \in 0 .. LaneCount
  BY LanesFinite DEF IInv, Types
<1>1. CASE Start
  <2>1. count = 0 => point[0] = "created"
    BY <1>0, <1>1 DEF Start, IInv, MainInv
  <2>. QED BY <1>0, <1>1, <2>1 DEF Start, EventInv, outVars, Lane
<1>2. CASE Wait
  BY <1>0, <1>2 DEF Wait, EventInv, outVars, Lane
<1>3. CASE Join \/ Return \/ UNCHANGED vars
  BY <1>0, <1>3 DEF Join, Return, vars, mainVars, EventInv, outVars, Lane
<1>. QED BY <1>1, <1>2, <1>3 DEF MainStep

LEMMA EventHolds == Spec => []EventInv
<1>1. Init => EventInv
  BY LanesFinite DEF Init, EventInv, Lane
<1>2. IInv /\ EventInv /\ [Next]_vars => EventInv'
  BY EventLane, EventMain DEF Next
<1>. QED BY <1>1, <1>2, IInvHolds, PTL DEF Spec

\* A lane that has ended, or that the barrier holds.
LEMMA WaitingCall ==
  ASSUME IInv, NEW l \in Lane, LaneWaits(l), point[l] # "created"
  PROVE  \/ point[l] = "exit" /\ Call(l) = <<"exit", 2>>
         \/ l \in arrived /\ Call(l)[1] # "exit"
<1>1. CASE point[l] = "exit"
  <2>1. stage[l] = "run"
    BY <1>1, AboutLane DEF PathOK, After
  <2>. QED BY <1>1, <2>1 DEF Call, CallOf, Coming
<1>2. CASE point[l] # "exit"
  <2>1. stage[l] \in {"wait1", "wait2"} /\ gen[l] = generation
    BY <1>2 DEF LaneWaits
  <2>2. l \in arrived
    BY <2>1 DEF IInv, BarrierInv
  <2>3. Call(l) = <<point[l], IF stage[l] = "wait1" THEN 1 ELSE 2>>
    BY <2>1, <2>2 DEF Call, CallOf
  <2>. QED BY <1>2, <2>2, <2>3
<1>. QED BY <1>1, <1>2

\* Behind the return of lane 0 no lane has a reader to call.
LEMMA NoneKept ==
  ASSUME IInv, NEW l \in Lane, Outcome(l) # "returns"
  PROVE  point[0] # "exit"
<1>. SUFFICES ASSUME point[0] = "exit" PROVE FALSE
  OBVIOUS
<1>1. 0 \in Lane /\ PathOK("exit", stage[0], Way)
  BY LanesFinite, AboutLane
<1>2. stage[0] = "run"
  BY <1>1 DEF PathOK, After
<1>3. Call(0) = <<"exit", 2>>
  BY <1>2 DEF Call, CallOf, Coming
<1>4. Call(l)[1] \in {"sections", "end"}
  BY KeptAt
<1>. QED BY <1>1, <1>3, <1>4 DEF IInv, SameNext

\* For any number of lanes and any file, the threads never wait for each other
\* in a circle: as long as the call has not returned and nothing has panicked,
\* bin_read or a lane can go on, but for a failed scan, behind which all lanes
\* have ended, and for a reader that loops, for whose lane all others wait.
THEOREM NobodyStuck == Spec => []OnlyHang
<1>1. IInv /\ EventInv => OnlyHang
  <2>. SUFFICES ASSUME IInv, EventInv, MainWaits,
                       \A l \in Lane : LaneWaits(l) \/ LaneLoops(l)
                PROVE  \/ /\ \A l \in Lane : point[l] = "exit"
                          /\ main = "returned" \/ (main = "starting" /\ ~file.scan)
                       \/ main = "starting" /\ file.scan /\ \E l \in Lane : LaneLoops(l)
    BY DEF OnlyHang
  <2>1. CASE \E l \in Lane : LaneLoops(l)
    <3>1. PICK l \in Lane : LaneLoops(l)
      BY <2>1
    <3>2. file.scan /\ point[0] # "exit"
      BY <3>1, KeptAt, NoneKept DEF LaneLoops
    <3>3. main = "starting"
      BY <3>2 DEF EventInv, MainWaits
    <3>. QED BY <3>1, <3>2, <3>3
  <2>2. CASE \A l \in Lane : LaneWaits(l)
    <3>1. ASSUME NEW l \in Lane PROVE point[l] # "created"
      BY DEF EventInv, MainWaits, Lane
    <3>2. ASSUME NEW l \in Lane, point[l] # "exit" PROVE FALSE
      <4>1. Call(l)[1] # "exit"
        BY <2>2, <3>1, <3>2, WaitingCall
      <4>2. ASSUME NEW m \in Lane PROVE m \in arrived
        <5>1. Call(m) = Call(l)
          BY DEF IInv, SameNext
        <5>. QED BY <2>2, <3>1, <4>1, <5>1, WaitingCall
      <4>. QED BY <4>2 DEF IInv, BarrierInv, Types
    <3>3. main = "starting" => ~file.scan
      BY <3>2, LanesFinite DEF EventInv, MainWaits
    <3>4. main # "joining"
      BY <3>2 DEF MainWaits, Lane, IInv, Types
    <3>. QED BY <3>2, <3>3, <3>4 DEF MainWaits
  <2>. QED BY <2>1, <2>2
<1>. QED BY <1>1, IInvHolds, EventHolds, PTL

\* bin_read never returns from a file whose scan fails: it waits for the event
\* for ever, as only lane 0 signals it, behind the return of `if !ok`.
THEOREM FailedScanHangs == Spec => [](~file.scan => main = "starting")
<1>1. EventInv => (~file.scan => main = "starting")
  BY DEF EventInv
<1>. QED BY <1>1, EventHolds, PTL

LEMMA OneAdvances ==
  ASSUME IInv, items \in [Lane -> Nat],
         NEW l \in Lane, NEW p \in Point, NEW s \in Stage, NEW n \in Nat,
         point' = [point EXCEPT ![l] = p], stage' = [stage EXCEPT ![l] = s],
         items' = [items EXCEPT ![l] = n], UNCHANGED <<main, count>>,
         \/ PointRank[point[l]] < PointRank[p]
         \/ p = point[l] /\ items[l] < n
         \/ p = point[l] /\ n = items[l] /\ StageRank[stage[l]] < StageRank[s]
  PROVE  NoWayBack
<1>1. point \in [Lane -> Point] /\ stage \in [Lane -> Stage]
  BY DEF IInv, Types
<1>2. LaneAdvances(l)
  BY <1>1 DEF LaneAdvances
<1>3. ASSUME NEW m \in Lane, m # l PROVE LaneStays(m)
  BY <1>1, <1>3 DEF LaneStays
<1>. QED BY <1>2, <1>3 DEF NoWayBack

LEMMA LaneForward ==
  ASSUME IInv, EventInv, items \in [Lane -> Nat], NEW l \in Lane, LaneStep(l)
  PROVE  NoWayBack
<1>. DEFINE p == point[l]
            s == stage[l]
<1>0. /\ point \in [Lane -> Point] /\ stage \in [Lane -> Stage]
      /\ p \in Point /\ s \in Stage /\ items[l] \in Nat /\ items[l] + 1 \in Nat
      /\ items[l] < items[l] + 1 /\ 0 \in Nat
      /\ PathOK(p, s, Way)
  BY AboutLane DEF IInv, Types
<1>1. /\ point = [point EXCEPT ![l] = p] /\ stage = [stage EXCEPT ![l] = s]
      /\ items = [items EXCEPT ![l] = items[l]]
  BY <1>0
<1>. USE <1>0, <1>1
<1>2. CASE \/ Begin(l) \/ AllocCtxs(l) \/ Scan(l) \/ ScanPassed(l) \/ SectionsRead(l)
           \/ ReadStructure(l) \/ StructureGood(l) \/ CodesRead(l) \/ Collect(l)
  <2>. DEFINE r == IF IsValue(p) THEN "store" ELSE "arrive2"
  <2>1. /\ s = "run" /\ stage' = [stage EXCEPT ![l] = r]
        /\ UNCHANGED <<point, items, main, count>>
    BY <1>2 DEF Begin, AllocCtxs, Scan, ScanPassed, SectionsRead, ReadStructure, StructureGood,
         CodesRead, Collect, Reach, At, mainVars
  <2>2. r \in Stage /\ StageRank["run"] < StageRank[r]
    BY DEF Stage, StageRank
  <2>. HIDE DEF r
  <2>. QED BY <2>1, <2>2, OneAdvances
<1>3. CASE ReadSection(l) \/ StoreLen(l) \/ ReadCode(l)
  <2>1. CASE /\ s = "run" /\ stage' = [stage EXCEPT ![l] = "len"]
             /\ UNCHANGED <<point, items, main, count>>
    <3>1. "len" \in Stage /\ StageRank["run"] < StageRank["len"]
      BY DEF Stage, StageRank
    <3>. QED BY <2>1, <3>1, OneAdvances
  <2>2. CASE items' = [items EXCEPT ![l] = @ + 1] /\ UNCHANGED <<point, stage, main, count>>
    <3>. DEFINE n == items[l] + 1
    <3>1. items' = [items EXCEPT ![l] = n] /\ UNCHANGED <<main, count>>
      BY <2>2
    <3>2. stage' = [stage EXCEPT ![l] = s] /\ point' = [point EXCEPT ![l] = p]
      BY <2>2
    <3>3. p = point[l] /\ n \in Nat /\ items[l] < n
      OBVIOUS
    <3>. HIDE DEF p, s, n
    <3>. QED BY <3>1, <3>2, <3>3, OneAdvances, Zenon
  <2>3. CASE /\ items' = [items EXCEPT ![l] = @ + 1] /\ stage' = [stage EXCEPT ![l] = "run"]
             /\ UNCHANGED <<point, main, count>>
    <3>1. items' = [items EXCEPT ![l] = items[l] + 1] /\ "run" \in Stage
      BY <2>3 DEF Stage
    <3>. QED BY <2>3, <3>1, OneAdvances
  <2>. QED BY <1>3, <2>1, <2>2, <2>3 DEF ReadSection, StoreLen, ReadCode, At, mainVars
<1>4. CASE Store(l) \/ LeaveFirst(l) \/ Load(l)
  <2>1. PICK r \in {"arrive1", "load", "arrive2"} :
          /\ stage' = [stage EXCEPT ![l] = r] /\ UNCHANGED <<point, items, main, count>>
          /\ s = IF r = "arrive1" THEN "store" ELSE IF r = "load" THEN "wait1" ELSE "load"
    BY <1>4 DEF Store, LeaveFirst, Load, mainVars
  <2>2. r \in Stage /\ StageRank[s] < StageRank[r]
    BY <2>1 DEF Stage, StageRank
  <2>. QED BY <2>1, <2>2, OneAdvances
<1>5. CASE Arrive(l)
  <2>. DEFINE r == Waiting[s]
  <2>1. /\ s \in {"arrive1", "arrive2"}
        /\ stage' = [stage EXCEPT ![l] = r] /\ UNCHANGED <<point, items, main, count>>
    BY <1>5 DEF Arrive, Waiting, mainVars
  <2>2. r \in Stage /\ StageRank[s] < StageRank[r]
    BY <2>1 DEF Stage, StageRank, Waiting
  <2>. HIDE DEF r
  <2>. QED BY <2>1, <2>2, OneAdvances
<1>6. CASE \/ NoCode(l) \/ StructureBad(l) \/ ScanFailed(l) \/ Signal(l) \/ Leave(l)
  <2>1. PICK q : /\ GoTo(l, q) /\ UNCHANGED <<main, count>>
                 /\ \/ q = "end" /\ p \in {"code_ok", "bin_codes"}
                    \/ q = "exit" /\ p \in {"bin_module", "signal"}
                    \/ q = After[p] /\ s = "wait2"
    BY <1>6 DEF NoCode, StructureBad, ScanFailed, Signal, Leave, At, mainVars
  <2>2. q \in Point /\ PointRank[p] < PointRank[q]
    <3>1. CASE q = After[p] /\ s = "wait2"
      <4>1. p \in DOMAIN After
        BY <3>1 DEF PathOK
      <4>. QED BY <3>1, <4>1 DEF After, Point, PointRank
    <3>2. CASE q = "end" /\ p \in {"code_ok", "bin_codes"}
      BY <3>2 DEF PointRank, Point, After
    <3>3. CASE q = "exit" /\ p \in {"bin_module", "signal"}
      BY <3>3 DEF PointRank, Point, After
    <3>. QED BY <2>1, <3>1, <3>2, <3>3
  <2>. QED BY <2>1, <2>2, OneAdvances, "run" \in Stage DEF GoTo, Stage
<1>7. CASE Panic(l)
  <2>1. UNCHANGED <<point, stage, items>> /\ main' = "panicked" /\ main # "panicked"
    BY <1>7 DEF Panic, Outcome, ReadsSection, ReadsCode, At, Alive
  <2>2. MainAdvances
    BY <2>1 DEF MainAdvances, MainRank, EventInv
  <2>. QED BY <2>1, <2>2 DEF NoWayBack, LaneStays
<1>. QED BY <1>2, <1>3, <1>4, <1>5, <1>6, <1>7 DEF LaneStep

LEMMA MainForward ==
  ASSUME IInv, EventInv, items \in [Lane -> Nat], MainStep
  PROVE  NoWayBack
<1>1. point \in [Lane -> Point] /\ count \in 0 .. LaneCount
  BY DEF IInv, Types
<1>2. CASE Start
  <2>1. count \in Lane /\ point[count] = "created" /\ MainAdvances
    BY <1>1, <1>2 DEF Start, Lane, IInv, MainInv, MainAdvances
  <2>2. LaneAdvances(count)
    BY <1>1, <1>2, <2>1 DEF Start, LaneAdvances, PointRank
  <2>3. ASSUME NEW m \in Lane, m # count PROVE LaneStays(m)
    BY <1>1, <1>2, <2>3 DEF Start, LaneStays
  <2>4. \A m \in Lane : LaneAdvances(m) \/ LaneStays(m)
    <3>1. ASSUME NEW m \in Lane PROVE LaneAdvances(m) \/ LaneStays(m)
      <4>1. CASE m = count
        BY <2>2, <4>1
      <4>2. CASE m # count
        BY <2>3, <4>2
      <4>. QED BY <4>1, <4>2
    <3>. QED BY <3>1
  <2>. QED BY <2>1, <2>4 DEF NoWayBack
<1>3. CASE Wait \/ Join \/ Return
  <2>1. UNCHANGED <<point, stage, items>>
    BY <1>3 DEF Wait, Join, Return
  <2>2. MainAdvances
    BY <1>1, <1>3 DEF Wait, Join, Return, MainAdvances, MainRank
  <2>. QED BY <2>1, <2>2 DEF NoWayBack, LaneStays
<1>. QED BY <1>2, <1>3 DEF MainStep

LEMMA ItemsCount == Spec => [](items \in [Lane -> Nat])
<1>1. Init => items \in [Lane -> Nat]
  BY DEF Init
<1>2. items \in [Lane -> Nat] /\ [Next]_vars => (items \in [Lane -> Nat])'
  <2>. SUFFICES ASSUME items \in [Lane -> Nat], [Next]_vars PROVE items' \in [Lane -> Nat]
    OBVIOUS
  <2>1. CASE MainStep \/ UNCHANGED vars
    BY <2>1 DEF MainStep, Start, Wait, Join, Return, vars
  <2>2. ASSUME NEW l \in Lane, LaneStep(l) PROVE items' \in [Lane -> Nat]
    <3>1. CASE \/ Begin(l) \/ AllocCtxs(l) \/ Scan(l) \/ ScanPassed(l) \/ SectionsRead(l)
               \/ ReadStructure(l) \/ StructureGood(l) \/ CodesRead(l) \/ Collect(l)
               \/ Store(l) \/ Arrive(l) \/ LeaveFirst(l) \/ Load(l)
      BY <3>1 DEF Begin, AllocCtxs, Scan, ScanPassed, SectionsRead, ReadStructure,
           StructureGood, CodesRead, Collect, Store, Arrive, LeaveFirst, Load, Reach
    <3>4. CASE Panic(l)
      BY <3>4 DEF Panic
    <3>2. CASE ReadSection(l) \/ StoreLen(l) \/ ReadCode(l)
      <4>1. items' = items \/ items' = [items EXCEPT ![l] = items[l] + 1]
        BY <3>2 DEF ReadSection, StoreLen, ReadCode
      <4>. QED BY <4>1
    <3>3. CASE \/ NoCode(l) \/ StructureBad(l) \/ ScanFailed(l) \/ Signal(l) \/ Leave(l)
      <4>1. items' = [items EXCEPT ![l] = 0]
        BY <3>3 DEF NoCode, StructureBad, ScanFailed, Signal, Leave, GoTo
      <4>. QED BY <4>1
    <3>. QED BY <2>2, <3>1, <3>2, <3>3, <3>4 DEF LaneStep
  <2>. QED BY <2>1, <2>2 DEF Next
<1>. QED BY <1>1, <1>2, PTL DEF Spec

\* For any number of lanes and any file, every step takes bin_read or one lane
\* forward in its program, and none of them back.  The ranges of a lane are
\* finite, so that the lanes take no steps for ever outside of a reader that
\* loops: with NobodyStuck, what is left to the fairness of the threads is only
\* that they are scheduled.
THEOREM StepsForward == Spec => [][NoWayBack]_vars
<1>1. IInv /\ EventInv /\ items \in [Lane -> Nat] /\ [Next]_vars => [NoWayBack]_vars
  BY LaneForward, MainForward DEF Next
<1>. QED BY <1>1, IInvHolds, EventHolds, ItemsCount, PTL DEF Spec
=============================================================================
