------------------------------ MODULE Builder -------------------------------
(***************************************************************************)
(* The wopt builder: threads, each with a Thread_Build_Context of its own, *)
(* build the bodies of the functions of one module and verify them.        *)
(*                                                                         *)
(* The zero values at index 0 of the block and value arrays are left out:  *)
(* ids count from 1 and id 0 (BLOCK_NONE, VALUE_NONE) names the zero value *)
(* of type None.  A client calls the build procedures between begin and    *)
(* end of a function, in any order, in a block or not, and the ids it      *)
(* passes are arbitrary.  The error callback returns, as one given by the  *)
(* user may.                                                               *)
(***************************************************************************)
EXTENDS Naturals, Sequences, FiniteSets

CONSTANTS Thread,      \* the Thread_Build_Contexts
          Function,    \* Function_Ids other than FUNCTION_NONE
          NoFunction,  \* FUNCTION_NONE
          Parameters,  \* parameter types of each function
          Result,      \* result type of each function
          Index,       \* the ids and parameter indices a client passes
          MaxBlocks,   \* bound on the blocks of a function
          MaxValues    \* bound on the values of a function

Type == {"None", "I32", "Memory"}

ASSUME FunctionAssumption ==
  /\ NoFunction \notin Function
  /\ Parameters \in [Function -> Seq(Type)]
  /\ Result \in [Function -> Type]
  /\ Index \subseteq Nat
  /\ MaxBlocks \in Nat
  /\ MaxValues \in Nat

VARIABLES added,       \* functions added to the module
          frozen,      \* module.frozen
          flags,       \* Function.flags, without the inline flags
          body,        \* Function.build_body
          errors,      \* what build_function_end returned for the function
          panicked,    \* an assert or a panic has ended the program, or a
                       \* write to freed memory has: nothing is claimed of it
          pc,          \* idle, build, or the step of build_function_end
          read,        \* the flags build_function_end read
          function,    \* tbctx.current_function_id
          current,     \* tbctx.current_block_id
          blocks,      \* tbctx.blocks
          values,      \* tbctx.values
          blockValues, \* tbctx.block_values
          control,     \* tbctx.block_ctrl_value
          start        \* tbctx.start_block

moduleVars == <<added, frozen, flags, body, errors>>
bodyVars   == <<current, blocks, values, blockValues, control, start>>
vars == <<moduleVars, panicked, pc, read, function, bodyVars>>

NoBody == [blocks |-> <<>>, values |-> <<>>, start |-> 0]

NewBlock == [control |-> 0, values |-> <<>>]

-----------------------------------------------------------------------------
(* The module *)

\* function_add; the id is fixed by the order of the calls.
Add(f) ==
  /\ f \notin added
  /\ IF frozen THEN panicked' = TRUE /\ UNCHANGED added
               ELSE added' = added \cup {f} /\ UNCHANGED panicked
  /\ UNCHANGED <<frozen, flags, body, errors, pc, read, function, bodyVars>>

Freeze ==
  /\ ~frozen
  /\ frozen' = TRUE
  /\ UNCHANGED <<added, flags, body, errors, panicked, pc, read, function, bodyVars>>

-----------------------------------------------------------------------------
(* Building a function *)

\* Mutant: _In_Progress of another thread is not noticed.
BeginUnchecked(t, f) ==
  /\ pc[t] = "idle"
  /\ f \in added
  /\ flags' = [flags EXCEPT ![f] = @ \cup {"In_Progress"}]
  /\ "Build_Done" \notin flags[f]
  /\ pc' = [pc EXCEPT ![t] = "build"]
  /\ function' = [function EXCEPT ![t] = f]
  /\ blocks' = [blocks EXCEPT ![t] = <<>>]
  /\ values' = [values EXCEPT ![t] = <<>>]
  /\ start' = [start EXCEPT ![t] = 0]
  /\ UNCHANGED <<added, frozen, body, errors, panicked, read, current, blockValues,
                 control>>

\* build_function_begin: set _In_Progress, then look at the flags there were.
Begin(t, f) ==
  /\ pc[t] = "idle"
  /\ f \in added
  /\ flags' = [flags EXCEPT ![f] = @ \cup {"In_Progress"}]
  /\ IF flags[f] # {}
       THEN /\ panicked' = TRUE
            /\ UNCHANGED <<pc, function, blocks, values, start>>
       ELSE /\ pc' = [pc EXCEPT ![t] = "build"]
            /\ function' = [function EXCEPT ![t] = f]
            /\ blocks' = [blocks EXCEPT ![t] = <<>>]
            /\ values' = [values EXCEPT ![t] = <<>>]
            /\ start' = [start EXCEPT ![t] = 0]
            /\ UNCHANGED panicked
  /\ UNCHANGED <<added, frozen, body, errors, read, current, blockValues, control>>

\* ... and its first assert: the context has no function open.
BeginNested(t) ==
  /\ pc[t] = "build"
  /\ panicked' = TRUE
  /\ UNCHANGED <<moduleVars, pc, read, function, bodyVars>>

BeginBlock(t) ==
  /\ pc[t] = "build"
  /\ Len(blocks[t]) < MaxBlocks
  /\ IF current[t] # 0
       THEN panicked' = TRUE /\ UNCHANGED <<blocks, blockValues, current>>
       ELSE /\ blocks' = [blocks EXCEPT ![t] = Append(@, NewBlock)]
            /\ blockValues' = [blockValues EXCEPT ![t] = <<>>]
            /\ current' = [current EXCEPT ![t] = Len(blocks[t]) + 1]
            /\ UNCHANGED panicked
  /\ UNCHANGED <<moduleVars, pc, read, function, values, control, start>>

\* A block is open, and it is one of this function.
InBlock(t) == pc[t] = "build" /\ current[t] \in 1 .. Len(blocks[t])

\* build_end_block: the control value is whatever was set last.  Without a
\* block the assert fails, with one of an earlier function xar.get_ptr does.
EndBlock(t) ==
  /\ pc[t] = "build"
  /\ IF ~InBlock(t)
       THEN panicked' = TRUE /\ UNCHANGED <<blocks, current>>
       ELSE /\ blocks' = [blocks EXCEPT ![t][current[t]] =
                            [control |-> control[t], values |-> blockValues[t]]]
            /\ current' = [current EXCEPT ![t] = 0]
            /\ UNCHANGED panicked
  /\ UNCHANGED <<moduleVars, pc, read, function, values, blockValues, control, start>>

\* build_block_set_control_value; Exit is the only kind of block.  Without a
\* block current_block is nil; with one of an earlier function it points to
\* memory that has been freed, where the kind may be anything.
SetControl(t, v) ==
  /\ pc[t] = "build"
  /\ control' \in (IF InBlock(t) THEN {} ELSE {control})
                    \cup (IF current[t] = 0 THEN {} ELSE {[control EXCEPT ![t] = v]})
  /\ panicked' \in IF InBlock(t) THEN {FALSE} ELSE IF current[t] = 0 THEN {TRUE} ELSE BOOLEAN
  /\ UNCHANGED <<moduleVars, pc, read, function, current, blocks, values, blockValues,
                 start>>

SetStart(t, b) ==
  /\ pc[t] = "build"
  /\ start' = [start EXCEPT ![t] = b]
  /\ UNCHANGED <<moduleVars, panicked, pc, read, function, current, blocks, values,
                 blockValues, control>>

\* The block that is open, 0 if there is none of this function.
OpenBlock(t) == IF InBlock(t) THEN current[t] ELSE 0

\* Mutant: the id is taken after the value is pushed.
ValueLate(t, op, imm, type) ==
  /\ pc[t] = "build"
  /\ Len(values[t]) < MaxValues
  /\ values' = [values EXCEPT ![t] = Append(@, [operator |-> op, immediate |-> imm,
                                               type |-> type, block |-> OpenBlock(t)])]
  /\ blockValues' = [blockValues EXCEPT ![t] = Append(@, Len(values[t]) + 2)]
  /\ panicked' \in IF blocks[t] = <<>> THEN BOOLEAN ELSE {FALSE}
  /\ UNCHANGED <<moduleVars, pc, read, function, current, blocks, control, start>>

\* _build_value, in a block or not.  `block` is a history variable: the code
\* keeps no such field.  Behind build_end_block, block_values is still the list
\* of the block that was closed, of which the block has a copy.  Before the
\* first block of the function it is that of an earlier function, whose memory
\* build_function_end has freed: the write is harmless or anything.
Value(t, op, imm, type) ==
  /\ pc[t] = "build"
  /\ Len(values[t]) < MaxValues
  /\ values' = [values EXCEPT ![t] = Append(@, [operator |-> op, immediate |-> imm,
                                               type |-> type, block |-> OpenBlock(t)])]
  /\ blockValues' = [blockValues EXCEPT ![t] = Append(@, Len(values[t]) + 1)]
  /\ panicked' \in IF blocks[t] = <<>> THEN BOOLEAN ELSE {FALSE}
  /\ UNCHANGED <<moduleVars, pc, read, function, current, blocks, control, start>>

\* build_value_argument: an index that is out of range gets the type None.
Argument(t, i) ==
  LET params == Parameters[function[t]]
  IN Value(t, "Argument", i, IF i < Len(params) THEN params[i + 1] ELSE "None")

InitMemory(t) == Value(t, "Init_Memory", 0, "Memory")
Const32(t)    == Value(t, "Const32", 0, "I32")

\* build_value_return; `immediate` stands for arguments[0].
ReturnValue(t, v) == Value(t, "Return", v, "None")

-----------------------------------------------------------------------------
(* ssa_verify_function *)

IsValueIdValid(b, v) == v <= Len(b.values)
IsBlockIdValid(b, i) == i <= Len(b.blocks)

\* function.build_body.values[v].type
TypeOf(b, v) == IF v = 0 THEN "None" ELSE b.values[v].type

StartError(b) == ~IsBlockIdValid(b, b.start) \/ b.start = 0

\* Mutant: the type of the control value is not looked at.
ControlErrorWeak(b, i) == ~IsValueIdValid(b, b.blocks[i].control)

ControlError(b, i) ==
  LET v == b.blocks[i].control
  IN ~IsValueIdValid(b, v) \/ TypeOf(b, v) # "Memory"

ValueError(f, b, v) ==
  LET value == b.values[v]
      arg   == value.immediate
  IN CASE value.operator = "Argument" ->
            \/ Len(Parameters[f]) <= arg
            \/ Parameters[f][arg + 1] # value.type
       [] value.operator = "Return" ->
            ~IsValueIdValid(b, arg) \/ TypeOf(b, arg) # Result[f]
       [] OTHER -> FALSE

\* The errors reported for a body.
Verify(f, b) ==
  LET blockIds == 1 .. Len(b.blocks)
      used     == {p \in blockIds \X (1 .. Len(b.values)) :
                     p[2] <= Len(b.blocks[p[1]].values)}
  IN (IF StartError(b) THEN {<<"start", 0>>} ELSE {})
     \cup {<<"control", i>> : i \in {j \in blockIds : ControlError(b, j)}}
     \cup {<<"value", b.blocks[p[1]].values[p[2]]>> :
             p \in {q \in used :
                      LET v == b.blocks[q[1]].values[q[2]]
                      IN ~IsValueIdValid(b, v) \/ ValueError(f, b, v)}}

-----------------------------------------------------------------------------
(* build_function_end *)

\* Copy the body, and read the flags for a plain read-modify-write.
End(t) ==
  LET f == function[t]
  IN /\ pc[t] = "build"
     /\ body' = [body EXCEPT ![f] = [blocks |-> blocks[t], values |-> values[t],
                                     start |-> start[t]]]
     /\ read' = [read EXCEPT ![t] = flags[f]]
     /\ pc' = [pc EXCEPT ![t] = "mark"]
     /\ UNCHANGED <<added, frozen, flags, errors, panicked, function, bodyVars>>

\* function.flags += {._Build_Done}
MarkDone(t) ==
  /\ pc[t] = "mark"
  /\ flags' = [flags EXCEPT ![function[t]] = read[t] \cup {"Build_Done"}]
  /\ pc' = [pc EXCEPT ![t] = "verify"]
  /\ UNCHANGED <<added, frozen, body, errors, panicked, read, function, bodyVars>>

VerifyFunction(t) ==
  LET f == function[t]
  IN /\ pc[t] = "verify"
     /\ errors' = [errors EXCEPT ![f] = Verify(f, body[f])]
     /\ pc' = [pc EXCEPT ![t] = "release"]
     /\ UNCHANGED <<added, frozen, flags, body, panicked, read, function, bodyVars>>

\* Mutant: the flags are cleared, not only _In_Progress.
ReleaseAll(t) ==
  /\ pc[t] = "release"
  /\ flags' = [flags EXCEPT ![function[t]] = {}]
  /\ function' = [function EXCEPT ![t] = NoFunction]
  /\ read' = [read EXCEPT ![t] = {}]
  /\ pc' = [pc EXCEPT ![t] = "idle"]
  /\ UNCHANGED <<added, frozen, body, errors, panicked, bodyVars>>

\* Clear _In_Progress and leave the function.  The block, the control value
\* and the start block of the context are not reset.
Release(t) ==
  /\ pc[t] = "release"
  /\ flags' = [flags EXCEPT ![function[t]] = @ \ {"In_Progress"}]
  /\ function' = [function EXCEPT ![t] = NoFunction]
  /\ read' = [read EXCEPT ![t] = {}]
  /\ pc' = [pc EXCEPT ![t] = "idle"]
  /\ UNCHANGED <<added, frozen, body, errors, panicked, bodyVars>>

-----------------------------------------------------------------------------
Init ==
  /\ added = {}
  /\ frozen = FALSE
  /\ flags = [f \in Function |-> {}]
  /\ body = [f \in Function |-> NoBody]
  /\ errors = [f \in Function |-> {}]
  /\ panicked = FALSE
  /\ pc = [t \in Thread |-> "idle"]
  /\ read = [t \in Thread |-> {}]
  /\ function = [t \in Thread |-> NoFunction]
  /\ current = [t \in Thread |-> 0]
  /\ blocks = [t \in Thread |-> <<>>]
  /\ values = [t \in Thread |-> <<>>]
  /\ blockValues = [t \in Thread |-> <<>>]
  /\ control = [t \in Thread |-> 0]
  /\ start = [t \in Thread |-> 0]

Build(t) ==
  \/ \E f \in Function : Begin(t, f)
  \/ BeginNested(t) \/ BeginBlock(t) \/ EndBlock(t)
  \/ InitMemory(t) \/ Const32(t)
  \/ \E i \in Index : \/ Argument(t, i) \/ ReturnValue(t, i)
                      \/ SetControl(t, i) \/ SetStart(t, i)
  \/ End(t) \/ MarkDone(t) \/ VerifyFunction(t) \/ Release(t)

Next ==
  /\ ~panicked
  /\ \/ \E f \in Function : Add(f)
     \/ Freeze
     \/ \E t \in Thread : Build(t)

Spec == Init /\ [][Next]_vars

-----------------------------------------------------------------------------
Flag == {"In_Progress", "Build_Done"}
ValueRecord ==
  [operator : {"Argument", "Init_Memory", "Const32", "Return"}, immediate : Nat,
   type : Type, block : 0 .. MaxBlocks]
BlockRecord == [control : Nat, values : Seq(1 .. MaxValues)]

\* Type correctness.
TypeOK ==
  /\ added \subseteq Function
  /\ frozen \in BOOLEAN
  /\ panicked \in BOOLEAN
  /\ flags \in [Function -> SUBSET Flag]
  /\ body \in [Function -> [blocks : Seq(BlockRecord), values : Seq(ValueRecord),
                            start : Nat]]
  /\ errors \in [Function -> SUBSET ({"start", "control", "value"} \X Nat)]
  /\ pc \in [Thread -> {"idle", "build", "mark", "verify", "release"}]
  /\ read \in [Thread -> SUBSET Flag]
  /\ function \in [Thread -> Function \cup {NoFunction}]
  /\ current \in [Thread -> 0 .. MaxBlocks]
  /\ blocks \in [Thread -> Seq(BlockRecord)]
  /\ values \in [Thread -> Seq(ValueRecord)]
  /\ blockValues \in [Thread -> Seq(1 .. MaxValues)]
  /\ control \in [Thread -> Nat]
  /\ start \in [Thread -> Nat]

\* A function is built by one thread at a time, whichever threads race for
\* it, and while it is built its flags say so although one of the updates of
\* the flags is not atomic.
OneBuilder ==
  \A t \in Thread :
    function[t] # NoFunction =>
      /\ "In_Progress" \in flags[function[t]]
      /\ \A u \in Thread \ {t} : function[u] # function[t]

\* A function has been built and no thread works on it.
Built(f) ==
  /\ "Build_Done" \in flags[f]
  /\ \A t \in Thread : function[t] # f

KeepsBodies == \A f \in Function : body[f] # NoBody => body'[f] = body[f]

\* A body is written once and never again, whichever contexts begin the
\* function later, so that other threads may read it for inlining.
BodiesAreFinal == [][KeepsBodies]_vars

\* The blocks of a body that list value v, with the place in the list.
Places(b, v) ==
  {p \in (1 .. Len(b.blocks)) \X (1 .. MaxValues) :
     LET list == b.blocks[p[1]].values
     IN p[2] <= Len(list) /\ list[p[2]] = v}

\* A body the verifier passes is consistent: it starts somewhere, the blocks
\* list every value that was built in one of them, once and in that block (none
\* was left open), and every id in a block names a value of the same body.  A
\* value that was built outside of any block is in none, and what it refers to
\* is not looked at.
VerifiedComplete ==
  \A f \in Function :
    (Built(f) /\ errors[f] = {}) =>
      LET b == body[f]
      IN /\ b.start \in 1 .. Len(b.blocks)
         /\ \A v \in 1 .. Len(b.values) :
              LET value == b.values[v]
              IN /\ Cardinality(Places(b, v)) = IF value.block = 0 THEN 0 ELSE 1
                 /\ \A p \in Places(b, v) : p[1] = value.block
                 /\ (value.block # 0 /\ value.operator = "Return") =>
                      value.immediate <= Len(b.values)
         /\ \A i \in 1 .. Len(b.blocks) : b.blocks[i].control \in 1 .. Len(b.values)
=============================================================================
