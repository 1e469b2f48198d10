------------------------------ MODULE BinRead -------------------------------
(***************************************************************************)
(* bin_read: a WASM binary is decoded by one thread ("lane") per arena.    *)
(* Lane 0 scans the file into sections; then every lane reads its range of *)
(* the sections and its range of the function bodies.  Lanes meet at a     *)
(* barrier, and lane 0 hands values to the others through one word of      *)
(* shared memory (lane_sync_value).                                        *)
(*                                                                         *)
(* A lane is at the synchronisation call `point[l]` names, or in the code  *)
(* right before it; `stage[l]` says how far:                               *)
(*   run      the code before the call                                     *)
(*   store    lane_sync_value: lane 0 copies its value to shared memory    *)
(*   arrive1, wait1   the first barrier of lane_sync_value                 *)
(*   load     lane_sync_value: the other lanes copy the value              *)
(*   arrive2, wait2   the second barrier, or the only one of lane_sync     *)
(* The bytes of the file are abstracted to what the scan finds in them,    *)
(* which parts make their reader report errors, and which are never read   *)
(* to an end (BinExpr has the loop and the panic behind those).            *)
(***************************************************************************)
EXTENDS Naturals, Sequences, FiniteSets

CONSTANTS LaneCount,  \* len(thread_arenas)
          SliceKind,  \* the section kinds whose Module field is a slice
          File        \* the inputs

ASSUME LaneAssumption == LaneCount \in Nat \ {0}

ASSUME KindAssumption == SliceKind \cap {"Start", "Custom", "Code"} = {}

Kind == SliceKind \cup {"Start", "Custom", "Code"}

\* What bin_scan_module and the readers find: does the scan succeed, the
\* sections in file order, is the list of function bodies of the code section
\* well formed, and the bodies.  `bad` parts make their reader report errors.
\* The reader of a part that has expressions (a body, a Global, an Element or
\* a Data section) need not return: it loops when the input stops inside an
\* expression, and panics at an `else` that no `if` is open for.
Ending == {"returns", "loops", "panics"}

FileRecord ==
  [scan : BOOLEAN, version : Nat,
   sections : Seq([kind : Kind, bad : BOOLEAN, ends : Ending]),
   structure : BOOLEAN, codes : Seq([bad : BOOLEAN, ends : Ending])]

ASSUME FileAssumption == File \subseteq FileRecord

VARIABLES file,        \* the input of this call
          main,        \* where bin_read is; a panic in a lane ends the process
          count,       \* threads it has started, then joined
          done,        \* the one shot event
          point,       \* the synchronisation call each lane is at or before
          stage,       \* how far it is
          items,       \* elements of its range it has finished
          arrived,     \* lanes counted by the barrier since it last opened
          generation,  \* how often the barrier has opened
          gen,         \* the generation each lane waits to see pass
          shared,      \* lane_ctx.shared_memory
          local,       \* the locals ctxs, ok, bin_module, bin_codes of a lane
          reported,    \* ctxs[l].diags
          module,      \* the Module being filled in
          diags        \* the collected diagnostics

barrierVars == <<arrived, generation, gen>>
mainVars    == <<file, main, count>>
outVars     == <<module, diags, done>>
vars == <<mainVars, point, stage, items, barrierVars, shared, local, reported,
          outVars>>

Lane == 0 .. LaneCount - 1

\* The synchronisation calls in program order.  A value call hands the named
\* local of lane 0 to the other lanes.
ValueOf == [ctxs |-> "ctxs", scan_ok |-> "ok", bin_module |-> "bin_module",
            code_ok |-> "ok", bin_codes |-> "bin_codes"]
IsValue(p) == p \in DOMAIN ValueOf

After == [start |-> "ctxs", ctxs |-> "scan_ok", scan_ok |-> "bin_module",
          bin_module |-> "sections", sections |-> "code_ok",
          code_ok |-> "bin_codes", bin_codes |-> "end", end |-> "diags",
          diags |-> "signal"]

Field == SliceKind \cup {"Start"}
Unset == 0

-----------------------------------------------------------------------------
(* thread_distribute_values: the half open range of one thread *)

First(values, t, n) ==
  LET leftover == values % n
  IN (values \div n) * t + (IF t < leftover THEN t ELSE leftover)

\* Mutant: the leftover value is forgotten.
OplShort(values, t, n) == First(values, t, n) + (values \div n)

Opl(values, t, n) ==
  First(values, t, n) + (values \div n) + (IF t < values % n THEN 1 ELSE 0)

-----------------------------------------------------------------------------
(* bin_read, the calling thread *)

Start ==
  /\ main = "starting"
  /\ count < LaneCount
  /\ count' = count + 1
  /\ point' = [point EXCEPT ![count] = "start"]
  /\ UNCHANGED <<file, main, stage, items, barrierVars, shared, local, reported,
                 outVars>>

Wait ==
  /\ main = "starting"
  /\ count = LaneCount
  /\ done
  /\ main' = "joining"
  /\ count' = 0
  /\ UNCHANGED <<file, point, stage, items, barrierVars, shared, local, reported,
                 outVars>>

\* Mutant: bin_read does not wait for its threads.
JoinNobody ==
  /\ main = "joining"
  /\ count < LaneCount
  /\ count' = count + 1
  /\ UNCHANGED <<file, main, point, stage, items, barrierVars, shared, local,
                 reported, outVars>>

Join ==
  /\ main = "joining"
  /\ count < LaneCount
  /\ point[count] = "exit"
  /\ count' = count + 1
  /\ UNCHANGED <<file, main, point, stage, items, barrierVars, shared, local,
                 reported, outVars>>

Return ==
  /\ main = "joining"
  /\ count = LaneCount
  /\ main' = "returned"
  /\ UNCHANGED <<file, count, point, stage, items, barrierVars, shared, local,
                 reported, outVars>>

-----------------------------------------------------------------------------
(* Synchronisation *)

\* A panic in one lane ends all threads.
Alive == main # "panicked"

At(l, p) == Alive /\ point[l] = p /\ stage[l] = "run"

\* The code before the call is done.
Reach(l) ==
  /\ stage' = [stage EXCEPT ![l] = IF IsValue(point[l]) THEN "store" ELSE "arrive2"]
  /\ UNCHANGED <<point, items>>

\* Go on behind a call, or to a later one.
GoTo(l, p) ==
  /\ point' = [point EXCEPT ![l] = p]
  /\ stage' = [stage EXCEPT ![l] = "run"]
  /\ items' = [items EXCEPT ![l] = 0]

Store(l) ==
  /\ Alive /\ stage[l] = "store"
  /\ shared' = IF l = 0 THEN local[l][ValueOf[point[l]]] ELSE shared
  /\ stage' = [stage EXCEPT ![l] = "arrive1"]
  /\ UNCHANGED <<mainVars, point, items, barrierVars, local, reported, outVars>>

Waiting == [arrive1 |-> "wait1", arrive2 |-> "wait2"]

\* barrier_wait up to the wait: the last lane opens the barrier.
Arrive(l) ==
  /\ Alive /\ stage[l] \in DOMAIN Waiting
  /\ gen' = [gen EXCEPT ![l] = generation]
  /\ IF Cardinality(arrived \cup {l}) = LaneCount
       THEN arrived' = {} /\ generation' = generation + 1
       ELSE arrived' = arrived \cup {l} /\ UNCHANGED generation
  /\ stage' = [stage EXCEPT ![l] = Waiting[@]]
  /\ UNCHANGED <<mainVars, point, items, shared, local, reported, outVars>>

LeaveFirst(l) ==
  /\ Alive /\ stage[l] = "wait1"
  /\ gen[l] # generation
  /\ stage' = [stage EXCEPT ![l] = "load"]
  /\ UNCHANGED <<mainVars, point, items, barrierVars, shared, local, reported,
                 outVars>>

\* Mutant: lane_sync_value without its second barrier.
LoadAndGo(l) ==
  /\ Alive /\ stage[l] = "load"
  /\ local' = IF l = 0 THEN local
              ELSE [local EXCEPT ![l][ValueOf[point[l]]] = shared]
  /\ GoTo(l, After[point[l]])
  /\ UNCHANGED <<mainVars, barrierVars, shared, reported, outVars>>

Load(l) ==
  /\ Alive /\ stage[l] = "load"
  /\ local' = IF l = 0 THEN local
              ELSE [local EXCEPT ![l][ValueOf[point[l]]] = shared]
  /\ stage' = [stage EXCEPT ![l] = "arrive2"]
  /\ UNCHANGED <<mainVars, point, items, barrierVars, shared, reported, outVars>>

Leave(l) ==
  /\ Alive /\ stage[l] = "wait2"
  /\ gen[l] # generation
  /\ GoTo(l, After[point[l]])
  /\ UNCHANGED <<mainVars, barrierVars, shared, local, reported, outVars>>

-----------------------------------------------------------------------------
(* bin_read_entry_point, the code between the calls *)

\* Select the lane, open the temporary arena.
Begin(l) ==
  /\ At(l, "start")
  /\ Reach(l)
  /\ UNCHANGED <<mainVars, barrierVars, shared, local, reported, outVars>>

\* The contexts of all lanes live in the temporary arena of lane 0.
AllocCtxs(l) ==
  /\ At(l, "ctxs")
  /\ local' = IF l = 0 THEN [local EXCEPT ![l].ctxs = "ctxs"] ELSE local
  /\ Reach(l)
  /\ UNCHANGED <<mainVars, barrierVars, shared, reported, outVars>>

Report(l, bad, part) ==
  reported' = IF bad THEN [reported EXCEPT ![l] = Append(@, part)] ELSE reported

Truth(b) == IF b THEN "true" ELSE "false"

\* bin_scan_module returns a Bin_Module even when it fails.
Scan(l) ==
  /\ At(l, "scan_ok")
  /\ IF l = 0
       THEN /\ local' = [local EXCEPT ![l].ok = Truth(file.scan),
                                      ![l].bin_module = "bin_module"]
            /\ module' = [module EXCEPT !.version = file.version]
            /\ Report(l, ~file.scan, <<"scan", 0>>)
       ELSE UNCHANGED <<local, module, reported>>
  /\ Reach(l)
  /\ UNCHANGED <<mainVars, barrierVars, shared, diags, done>>

\* Mutant: only lane 0 returns.
ScanFailedAlone(l) ==
  /\ At(l, "bin_module")
  /\ l = 0
  /\ local[l].ok = "false"
  /\ GoTo(l, "exit")
  /\ UNCHANGED <<mainVars, barrierVars, shared, local, reported, outVars>>

\* if !ok { return }
ScanFailed(l) ==
  /\ At(l, "bin_module")
  /\ local[l].ok = "false"
  /\ GoTo(l, "exit")
  /\ UNCHANGED <<mainVars, barrierVars, shared, local, reported, outVars>>

ScanPassed(l) ==
  /\ At(l, "bin_module")
  /\ local[l].ok = "true"
  /\ Reach(l)
  /\ UNCHANGED <<mainVars, barrierVars, shared, local, reported, outVars>>

\* The 1-based index of the element a lane works on.
Item(l, values) == First(values, l, LaneCount) + items[l] + 1
InRange(l, values) == Item(l, values) <= Opl(values, l, LaneCount)

\* code_section_index: the last code section of the file, 0 if there is none
CodeSection ==
  LET code == {i \in 1 .. Len(file.sections) : file.sections[i].kind = "Code"}
  IN IF code = {} THEN 0 ELSE CHOOSE i \in code : \A j \in code : j <= i

\* The bodies to decode: none when the loop over them has been skipped.
Bodies(l) == IF local[l].ok = "true" /\ CodeSection # 0 THEN Len(file.codes) ELSE 0

\* Code sections are skipped, and nothing is read of a custom section.
Skipped(s) == s.kind \in {"Code", "Custom"}

ReadsSection(l) ==
  /\ At(l, "sections")
  /\ InRange(l, Len(file.sections))
  /\ ~Skipped(file.sections[Item(l, Len(file.sections))])

ReadsCode(l) == At(l, "end") /\ InRange(l, Bodies(l))

\* How the reader that lane l is about to call ends.
Outcome(l) ==
  IF ReadsSection(l) THEN file.sections[Item(l, Len(file.sections))].ends
  ELSE IF ReadsCode(l) THEN file.codes[Item(l, Bodies(l))].ends ELSE "returns"

\* A reader that loops is a lane without a further step: what it goes on
\* adding to its diagnostics is never collected.  A reader that panics ends
\* the process.
Panic(l) ==
  /\ Outcome(l) = "panics"
  /\ main' = "panicked"
  /\ UNCHANGED <<file, count, point, stage, items, barrierVars, shared, local,
                 reported, outVars>>

\* One section: read it, then assign the Module field.  A slice is assigned
\* in two words, the second of them in StoreLen.
ReadSection(l) ==
  LET i == Item(l, Len(file.sections))
      s == file.sections[i]
  IN /\ At(l, "sections")
     /\ InRange(l, Len(file.sections))
     /\ Outcome(l) = "returns"
     /\ IF Skipped(s)
          THEN UNCHANGED <<module, reported>>
          ELSE /\ Report(l, s.bad, <<"section", i>>)
               /\ module' = [module EXCEPT
                    !.field[s.kind].data = i,
                    !.field[s.kind].len  = IF s.kind = "Start" THEN i ELSE @]
     /\ IF s.kind \in SliceKind
          THEN stage' = [stage EXCEPT ![l] = "len"] /\ UNCHANGED items
          ELSE items' = [items EXCEPT ![l] = @ + 1] /\ UNCHANGED stage
     /\ UNCHANGED <<mainVars, point, barrierVars, shared, local, diags, done>>

StoreLen(l) ==
  LET i == Item(l, Len(file.sections))
  IN /\ Alive /\ stage[l] = "len"
     /\ module' = [module EXCEPT !.field[file.sections[i].kind].len = i]
     /\ stage' = [stage EXCEPT ![l] = "run"]
     /\ items' = [items EXCEPT ![l] = @ + 1]
     /\ UNCHANGED <<mainVars, point, barrierVars, shared, local, reported, diags,
                    done>>

SectionsRead(l) ==
  /\ At(l, "sections")
  /\ ~InRange(l, Len(file.sections))
  /\ Reach(l)
  /\ UNCHANGED <<mainVars, barrierVars, shared, local, reported, outVars>>

\* Mutant: only lane 0 takes part in the barrier behind the code section.
NoCodeAlone(l) ==
  /\ At(l, "code_ok")
  /\ CodeSection = 0
  /\ GoTo(l, IF l = 0 THEN "end" ELSE "diags")
  /\ UNCHANGED <<mainVars, barrierVars, shared, local, reported, outVars>>

NoCode(l) ==
  /\ At(l, "code_ok")
  /\ CodeSection = 0
  /\ GoTo(l, "end")
  /\ UNCHANGED <<mainVars, barrierVars, shared, local, reported, outVars>>

\* bin_read_code_section_structure, and room for the decoded bodies.
ReadStructure(l) ==
  /\ At(l, "code_ok")
  /\ CodeSection # 0
  /\ IF l = 0
       THEN /\ local' = [local EXCEPT ![l].ok = Truth(file.structure),
                                      ![l].bin_codes = "bin_codes"]
            /\ Report(l, ~file.structure, <<"structure", CodeSection>>)
            /\ module' = IF file.structure
                         THEN [module EXCEPT !.codes = [i \in 1 .. Len(file.codes) |-> Unset]]
                         ELSE module
       ELSE UNCHANGED <<local, reported, module>>
  /\ Reach(l)
  /\ UNCHANGED <<mainVars, barrierVars, shared, diags, done>>

StructureBad(l) ==
  /\ At(l, "bin_codes")
  /\ local[l].ok = "false"
  /\ GoTo(l, "end")
  /\ UNCHANGED <<mainVars, barrierVars, shared, local, reported, outVars>>

StructureGood(l) ==
  /\ At(l, "bin_codes")
  /\ local[l].ok = "true"
  /\ Reach(l)
  /\ UNCHANGED <<mainVars, barrierVars, shared, local, reported, outVars>>

ReadCode(l) ==
  LET i == Item(l, Bodies(l))
  IN /\ At(l, "end")
     /\ InRange(l, Bodies(l))
     /\ Outcome(l) = "returns"
     /\ Report(l, file.codes[i].bad, <<"code", i>>)
     /\ module' = [module EXCEPT !.codes[i] = i]
     /\ items' = [items EXCEPT ![l] = @ + 1]
     /\ UNCHANGED <<mainVars, point, stage, barrierVars, shared, local, diags, done>>

\* Mutant: no barrier before the diagnostics are collected.
CodesReadNoSync(l) ==
  /\ At(l, "end")
  /\ ~InRange(l, Bodies(l))
  /\ GoTo(l, "diags")
  /\ UNCHANGED <<mainVars, barrierVars, shared, local, reported, outVars>>

CodesRead(l) ==
  /\ At(l, "end")
  /\ ~InRange(l, Bodies(l))
  /\ Reach(l)
  /\ UNCHANGED <<mainVars, barrierVars, shared, local, reported, outVars>>

\* bin_collect_diagnostics(ctxs): the lists of all lanes, in lane order
CollectedTo[l \in Lane] == (IF l = 0 THEN <<>> ELSE CollectedTo[l - 1]) \o reported[l]
Collected == CollectedTo[LaneCount - 1]

Collect(l) ==
  /\ At(l, "diags")
  /\ diags' = IF l = 0 THEN Collected ELSE diags
  /\ Reach(l)
  /\ UNCHANGED <<mainVars, barrierVars, shared, local, reported, module, done>>

\* Mutant: the event is signalled only for a module without errors.
SignalIfClean(l) ==
  /\ At(l, "signal")
  /\ done' = (done \/ (l = 0 /\ diags = <<>>))
  /\ GoTo(l, "exit")
  /\ UNCHANGED <<mainVars, barrierVars, shared, local, reported, module, diags>>

\* The last lines, and the return that frees the temporary arena.
Signal(l) ==
  /\ At(l, "signal")
  /\ done' = (done \/ l = 0)
  /\ GoTo(l, "exit")
  /\ UNCHANGED <<mainVars, barrierVars, shared, local, reported, module, diags>>

-----------------------------------------------------------------------------
Init ==
  /\ file \in File
  /\ main = "starting"
  /\ count = 0
  /\ done = FALSE
  /\ point = [l \in Lane |-> "created"]
  /\ stage = [l \in Lane |-> "run"]
  /\ items = [l \in Lane |-> 0]
  /\ arrived = {}
  /\ generation = 0
  /\ gen = [l \in Lane |-> 0]
  /\ shared = "zero"
  /\ local = [l \in Lane |-> [ctxs |-> "nil", ok |-> "false",
                              bin_module |-> "nil", bin_codes |-> "nil"]]
  /\ reported = [l \in Lane |-> <<>>]
  /\ module = [version |-> 0, codes |-> <<>>,
               field |-> [f \in Field |-> [data |-> Unset, len |-> Unset]]]
  /\ diags = <<>>

MainStep == Start \/ Wait \/ Join \/ Return

LaneStep(l) ==
  \/ Begin(l) \/ AllocCtxs(l) \/ Scan(l) \/ ScanFailed(l) \/ ScanPassed(l)
  \/ ReadSection(l) \/ StoreLen(l) \/ SectionsRead(l) \/ Panic(l)
  \/ NoCode(l) \/ ReadStructure(l) \/ StructureBad(l) \/ StructureGood(l)
  \/ ReadCode(l) \/ CodesRead(l) \/ Collect(l) \/ Signal(l)
  \/ Store(l) \/ Arrive(l) \/ LeaveFirst(l) \/ Load(l) \/ Leave(l)

Next == MainStep \/ \E l \in Lane : LaneStep(l)

Spec == Init /\ [][Next]_vars

\* The calling thread and the lanes are threads of the operating system; a
\* thread that can go on is eventually scheduled.
FairSpec == Spec /\ WF_vars(MainStep) /\ \A l \in Lane : WF_vars(LaneStep(l))

-----------------------------------------------------------------------------
Point == DOMAIN After \cup {"created", "signal", "exit"}
Stage == {"run", "len", "store", "arrive1", "wait1", "load", "arrive2", "wait2"}
Part  == {"scan", "section", "structure", "code"} \X Nat

\* Type correctness.
TypeOK ==
  /\ file \in File
  /\ main \in {"starting", "joining", "returned", "panicked"}
  /\ count \in 0 .. LaneCount
  /\ done \in BOOLEAN
  /\ point \in [Lane -> Point]
  /\ stage \in [Lane -> Stage]
  /\ items \in [Lane -> Nat]
  /\ arrived \subseteq Lane
  /\ generation \in Nat
  /\ gen \in [Lane -> Nat]
  /\ local \in [Lane -> [ctxs : {"nil", "ctxs"}, ok : {"true", "false"},
                         bin_module : {"nil", "bin_module"},
                         bin_codes : {"nil", "bin_codes"}]]
  /\ reported \in [Lane -> Seq(Part)]
  /\ module.field \in [Field -> [data : Nat, len : Nat]]
  /\ diags \in Seq(Part)

\* The locals that the code behind a point uses.
UsedAt(l) ==
  {"ok", "ctxs"} \cup
  (IF point[l] \in {"sections", "code_ok", "bin_codes", "end"} THEN {"bin_module"} ELSE {})
  \cup (IF point[l] = "end" /\ Bodies(l) # 0 THEN {"bin_codes"} ELSE {})

\* Lanes that are about to run the same code agree on the locals it uses, so
\* they all take the same branch of `if !ok` and of `if ok`, and split the
\* same slices: the value lane 0 put into shared memory is still there when
\* the slowest lane copies it.
LanesAgree ==
  \A l, m \in Lane :
    (stage[l] = "run" /\ stage[m] = "run" /\ point[l] = point[m])
      => \A v \in UsedAt(l) : local[l][v] = local[m][v]

\* The lanes the barrier holds are all at the same barrier call of the
\* program, so a lane never meets the others one call early or late.
SameCall ==
  \A l, m \in arrived : point[l] = point[m] /\ stage[l] = stage[m]

\* The code that uses a lane's context, which lane 0 allocated in its own
\* temporary arena.
UsesCtx(l) ==
  point[l] \in {"scan_ok", "bin_module", "sections", "code_ok", "bin_codes", "end"}
    /\ stage[l] \in {"run", "len"} /\ file.scan

\* Nothing is used after it is gone: contexts while lane 0 has its temporary
\* arena, and the barrier, the shared memory and the module, which are
\* locals of bin_read, while a lane runs.
NoDanglingUse ==
  /\ \A l \in Lane : UsesCtx(l) => point[0] # "exit"
  /\ main = "returned" => \A l \in Lane : point[l] = "exit"

\* The parts of the file whose reader reports errors.
BadParts ==
  {<<"section", i>> : i \in {j \in 1 .. Len(file.sections) :
     file.sections[j].bad /\ ~Skipped(file.sections[j])}}
  \cup
  (IF CodeSection = 0 THEN {}
   ELSE IF ~file.structure THEN {<<"structure", CodeSection>>}
   ELSE {<<"code", i>> : i \in {j \in 1 .. Len(file.codes) : file.codes[j].bad}})

\* The parts of the file whose reader does not return.
EndlessParts ==
  {<<"section", i>> : i \in {j \in 1 .. Len(file.sections) :
     file.sections[j].ends # "returns" /\ ~Skipped(file.sections[j])}}
  \cup
  {<<"code", i>> : i \in {j \in 1 .. Len(file.codes) :
     file.codes[j].ends # "returns" /\ CodeSection # 0 /\ file.structure}}

\* bin_read returns every error of every lane, none of them twice.
DiagnosticsComplete ==
  main = "returned" =>
    /\ {diags[i] : i \in 1 .. Len(diags)} = BadParts
    /\ Len(diags) = Cardinality(BadParts)

SectionsOf(f) == {i \in 1 .. Len(file.sections) : file.sections[i].kind = f}

\* The lane that reads section i.
Reader(i) ==
  CHOOSE l \in Lane : /\ First(Len(file.sections), l, LaneCount) < i
                      /\ i <= Opl(Len(file.sections), l, LaneCount)

\* bin_read returns a finished module, never while the reader of a part is
\* still at work on any lane: every body is decoded, and a field is unset
\* only when the file has no section for it.  Of several sections of one kind
\* the last one wins, provided one lane reads them all; if not, the two words
\* of the field may even come from different sections.
ModuleComplete ==
  main = "returned" =>
    /\ EndlessParts = {}
    /\ CodeSection # 0 /\ file.structure =>
         module.codes = [i \in 1 .. Len(file.codes) |-> i]
    /\ \A f \in Field :
         LET is == SectionsOf(f)
             w  == module.field[f]
         IN IF is = {} THEN w = [data |-> Unset, len |-> Unset]
            ELSE /\ w.data \in is /\ w.len \in is
                 /\ Cardinality({Reader(i) : i \in is}) = 1 =>
                      /\ w.data = w.len
                      /\ \A i \in is : i <= w.data

\* The input is one whose readers return: the scan fails, so that nothing is
\* read, or no part of it keeps its reader.
ReadersReturn == file.scan => EndlessParts = {}

\* Every lane ends if the readers return, also when the scan fails.  A reader
\* that loops keeps its lane from the barrier, and with it all lanes.
LanesExit == ReadersReturn ~> \A l \in Lane : point[l] = "exit"

\* bin_read returns when the file can be scanned and the readers return.
ScannedReadReturns == file.scan /\ ReadersReturn ~> main = "returned"

\* bin_read returns.
ReadReturns == <>(main = "returned")
=============================================================================
