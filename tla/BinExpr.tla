------------------------------ MODULE BinExpr -------------------------------
(***************************************************************************)
(* One lane reads one section, or the body of one function: the fields of  *)
(* its entries one after the other, and the instructions of an expression  *)
(* with bin_read_expr, whose nested procedure calls itself for every       *)
(* block.  `frames` are the calls that have not returned.                  *)
(*                                                                         *)
(* The instruction and extra lists are extendable arrays in the temporary  *)
(* arena of the thread.  Every call opens a guard on the same arena, so a  *)
(* chunk allocated in a call is freed when the call returns, and the list  *)
(* goes on using it: the chunk is stale.  Memory is counted in elements.   *)
(*                                                                         *)
(* When the input has ended inside an expression the loop goes on forever. *)
(* Instructions take at least a byte each, so a list longer than the input *)
(* is one of this case, and the model does not let it grow further.        *)
(***************************************************************************)
EXTENDS BinReaders, SequencesExt, FiniteSets

CONSTANTS Input,       \* records of a section and the bytes of its scope
          InstChunk,   \* elements of the first chunk of the instructions
          ExtraChunk   \* elements of the first chunk of the extras

ASSUME InputAssumption == Input \subseteq [section : DOMAIN Section, data : Seq(0 .. 255)]
ASSUME ChunkAssumption == InstChunk \in Nat \ {0} /\ ExtraChunk \in Nat \ {0}

VARIABLES section, data,   \* the input
          curr, diags,     \* of the Bin_Read_Ctx: offset, ranges of the errors
          todo,            \* fields the callers have yet to read
          pc,              \* fields, opcode, operands, return, done or panicked
          ok,              \* the result of the section or body
          frames,          \* open calls of bin_read_instructions_until
          instructions,    \* ib.instructions: element i + 1 has index i
          extras,          \* ib.extras, an element for each value
          mem              \* the temporary arena and the chunks of the lists

input == <<section, data>>
lists == <<instructions, extras>>
vars  == <<input, curr, diags, todo, pc, ok, frames, lists, mem>>

-----------------------------------------------------------------------------
(* Opcodes *)

Else == 5
End  == 11
If   == 4

Blocks  == {2, 3}
Plain   == {0, 1, 15, 26, 27} \cup 69 .. 191
Indexed == {12, 13, 16} \cup 32 .. 36      \* an index in `extra`
MemArg  == 40 .. 62
MemSize == {63, 64}

Until(frame) == IF frame.kind = "if" THEN {End, Else} ELSE {End}

-----------------------------------------------------------------------------
(* The temporary arena and the lists in it *)

NoMem == [used |-> 0, chunks |-> [list \in {"inst", "extra"} |-> <<>>], wild |-> FALSE]

\* xar: each chunk after the first holds as much as all before it.
Capacity(first, chunks) == IF chunks = <<>> THEN 0 ELSE first * 2 ^ (Len(chunks) - 1)

First(list) == IF list = "inst" THEN InstChunk ELSE ExtraChunk

\* Append to a list of n elements; `wild` is an access to a stale chunk.
Push(m, list, n) ==
  LET chunks == m.chunks[list]
      size   == IF chunks = <<>> THEN First(list) ELSE n
      chunk  == [end |-> m.used + size, stale |-> FALSE]
  IN IF n = Capacity(First(list), chunks)
       THEN [m EXCEPT !.used = m.used + size,
                      !.chunks = [m.chunks EXCEPT ![list] = Append(chunks, chunk)]]
       ELSE [m EXCEPT !.wild = @ \/ Last(chunks).stale]

\* Append up to three values to the extras.
PushExtras(m, n, count) ==
  LET one   == Push(m, "extra", n)
      two   == Push(one, "extra", n + 1)
      three == Push(two, "extra", n + 2)
  IN <<m, one, two, three>>[count + 1]

\* The end of a guard.
Release(m, mark) ==
  [m EXCEPT !.used = mark,
            !.chunks = [list \in DOMAIN m.chunks |->
                          [k \in DOMAIN m.chunks[list] |->
                             [m.chunks[list][k] EXCEPT !.stale = @ \/ mark < m.chunks[list][k].end]]]]

\* Copying a list out reads all of its chunks.
Copy(m) ==
  [m EXCEPT !.wild = @ \/ \E list \in DOMAIN m.chunks :
                            \E k \in DOMAIN m.chunks[list] : m.chunks[list][k].stale]

-----------------------------------------------------------------------------
(* The fields of a section *)

\* Every reader returns as soon as one of its fields is not ok.
ReadField ==
  LET read == Read(data, curr, Head(todo))
  IN /\ pc = "fields"
     /\ todo # <<>>
     /\ Head(todo) # <<"expr">>
     /\ curr' = read.curr
     /\ diags' = diags \cup read.diags
     /\ todo' = read.more \o Tail(todo)
     /\ ok' = read.ok
     /\ pc' = IF read.ok THEN "fields" ELSE "done"
     /\ UNCHANGED <<input, frames, lists, mem>>

FieldsDone ==
  /\ pc = "fields"
  /\ todo = <<>>
  /\ pc' = "done"
  /\ UNCHANGED <<input, curr, diags, todo, ok, frames, lists, mem>>

Frame(kind, pos, m, elsePos) ==
  [kind |-> kind, pos |-> pos, mark |-> m.used, anchor |-> curr', else |-> elsePos]

\* Mutant: the lists get their first chunks inside the call.
StartExprEmpty ==
  /\ pc = "fields"
  /\ todo # <<>>
  /\ Head(todo) = <<"expr">>
  /\ todo' = Tail(todo)
  /\ instructions' = <<[op |-> 0, extra |-> 0]>>
  /\ extras' = <<<<"sentinel", 0>>>>
  /\ UNCHANGED <<input, curr, diags, ok>>
  /\ mem' = Push(Push(NoMem, "inst", 0), "extra", 0)
  /\ frames' = <<Frame("top", 0, NoMem, 0)>>
  /\ pc' = "opcode"

\* bin_read_expr: sentinels at index 0, then the outermost call.
StartExpr ==
  /\ pc = "fields"
  /\ todo # <<>>
  /\ Head(todo) = <<"expr">>
  /\ todo' = Tail(todo)
  /\ instructions' = <<[op |-> 0, extra |-> 0]>>
  /\ extras' = <<<<"sentinel", 0>>>>
  /\ UNCHANGED <<input, curr, diags, ok>>
  /\ mem' = Push(Push(NoMem, "inst", 0), "extra", 0)
  /\ frames' = <<Frame("top", 0, mem', 0)>>
  /\ pc' = "opcode"

-----------------------------------------------------------------------------
(* The loop of bin_read_instructions_until *)

\* A failed read leaves 0, the opcode of unreachable.
ReadOpcode ==
  LET read == ReadByte(data, curr)
      op   == IF read.ok THEN ByteAt(data, curr) ELSE 0
      grow == Len(instructions) <= Len(data) + 1
  IN /\ pc = "opcode"
     /\ curr' = read.curr
     /\ diags' = diags \cup read.diags
     /\ instructions' = IF grow THEN Append(instructions, [op |-> op, extra |-> 0])
                                ELSE instructions
     /\ mem' = IF grow THEN Push(mem, "inst", Len(instructions)) ELSE mem
     /\ pc' = CASE op \in Until(Last(frames)) -> "return"
                [] op \notin Until(Last(frames)) /\ op = Else -> "panicked"
                [] OTHER -> "operands"
     /\ UNCHANGED <<input, todo, ok, frames, extras>>

\* The instruction being read, and its index.
Inst == Last(instructions)
Pos  == Len(instructions) - 1

\* Numbers one after the other, up to the first that fails.
NextLeb(read) == IF read.ok THEN ReadULeb(data, read.curr, 32) ELSE read
ReadLebs(c, count) ==
  LET after[k \in 0 .. count] == IF k = 0 THEN Got(c, <<>>) ELSE NextLeb(after[k - 1])
  IN after[count]

\* An operand byte that must be 0 but is only reported.
ReadZero(c, anchor) ==
  LET read == ReadByte(data, c)
  IN IF read.ok /\ ByteAt(data, c) # 0
       THEN [read EXCEPT !.diags = {<<anchor, c + 1>>}]
       ELSE read

\* call_indirect moves the anchor of the loop.
ReadIndirect ==
  LET index == ReadULeb(data, curr, 32)
  IN IF index.ok THEN ReadZero(index.curr, index.curr) ELSE index

\* br_table: the labels, in a slice of the temporary arena, and the default.
LabelCount == Min({ULebValue(data, curr), DataLeft(data, curr) + 1})
ReadTable ==
  LET size   == ReadULeb(data, curr, 32)
      labels == ReadLebs(size.curr, LabelCount)
  IN IF ~size.ok THEN size
     ELSE IF ~labels.ok THEN labels
     ELSE ReadULeb(data, labels.curr, 32)

\* The outcome of reading the operands of an instruction without a body.
Operands(op) ==
  CASE op \in Plain              -> Got(curr, <<>>)
    [] op \in Indexed            -> ReadULeb(data, curr, 32)
    [] op = 14                   -> ReadTable
    [] op = 17                   -> ReadIndirect
    [] op \in MemArg             -> ReadLebs(curr, 2)
    [] op \in MemSize            -> ReadZero(curr, Last(frames).anchor)
    [] op = 65                   -> ReadILeb(data, curr, 32)
    [] op = 66                   -> ReadILeb(data, curr, 64)
    [] op = 67                   -> ReadBytes(data, curr, 4)
    [] op = 68                   -> ReadBytes(data, curr, 8)
    [] OTHER                     -> Fail(curr, Last(frames).anchor, curr)

\* The values an instruction keeps in the extras.
ExtraCount(op) == CASE op \in MemArg -> 2 [] op \in {66, 68} -> 1 [] OTHER -> 0

\* br_table pushes the number of labels and the labels before it reads the
\* default.
TableExtras(read) ==
  LET size   == ReadULeb(data, curr, 32)
      labels == ReadLebs(size.curr, LabelCount)
  IN IF size.ok /\ labels.ok THEN IF read.ok THEN 3 ELSE 2 ELSE 0

SimpleInstruction ==
  LET op    == Inst.op
      read  == Operands(op)
      count == IF op = 14 THEN TableExtras(read)
               ELSE IF read.ok THEN ExtraCount(op) ELSE 0
      slice == IF op = 14 /\ ReadULeb(data, curr, 32).ok THEN LabelCount ELSE 0
  IN /\ pc = "operands"
     /\ op \notin Blocks \cup {If}
     /\ curr' = read.curr
     /\ diags' = diags \cup read.diags
     /\ extras' = extras \o [k \in 1 .. count |-> <<"word", Pos>>]
     /\ mem' = PushExtras([mem EXCEPT !.used = @ + slice], Len(extras), count)
     /\ instructions' = IF count > 0
                          THEN [instructions EXCEPT ![Pos + 1].extra = Len(extras)]
                          ELSE instructions
     /\ frames' = IF op = 17 /\ ReadULeb(data, curr, 32).ok
                    THEN [frames EXCEPT ![Len(frames)].anchor = ReadULeb(data, curr, 32).curr]
                    ELSE frames
     /\ pc' = "opcode"
     /\ UNCHANGED <<input, todo, ok>>

\* bin_read_block_type: 0x40, or the byte of one value type, which is put
\* into a slice of the temporary arena before it is looked at.
ReadBlockType ==
  LET read == ReadByte(data, curr)
  IN IF read.ok /\ ByteAt(data, curr) # 64 THEN ReadEnum(data, curr, 124, 127) ELSE read
BlockTypeSlice ==
  IF ReadByte(data, curr).ok /\ ByteAt(data, curr) # 64 THEN 1 ELSE 0

\* A block whose type is not valid has no body: the loop goes on after it.
BadBlock ==
  /\ pc = "operands"
  /\ Inst.op \in Blocks \cup {If}
  /\ ~ReadBlockType.ok
  /\ curr' = ReadBlockType.curr
  /\ diags' = diags \cup ReadBlockType.diags
  /\ mem' = [mem EXCEPT !.used = @ + BlockTypeSlice]
  /\ pc' = "opcode"
  /\ UNCHANGED <<input, todo, ok, frames, lists>>

\* The block type goes into the extras, and a call reads the body.
EnterBlock ==
  /\ pc = "operands"
  /\ Inst.op \in Blocks \cup {If}
  /\ ReadBlockType.ok
  /\ curr' = ReadBlockType.curr
  /\ extras' = Append(extras, <<"type", Pos>>)
  /\ instructions' = [instructions EXCEPT ![Pos + 1].extra = Len(extras)]
  /\ mem' = PushExtras([mem EXCEPT !.used = @ + BlockTypeSlice], Len(extras), 1)
  /\ frames' = Append(frames, Frame(IF Inst.op = If THEN "if" ELSE "block", Pos, mem', 0))
  /\ pc' = "opcode"
  /\ UNCHANGED <<input, diags, todo, ok>>

-----------------------------------------------------------------------------
(* Returning *)

\* The body of a block has ended: its position follows in the extras.
ReturnBlock ==
  LET frame == Last(frames)
  IN /\ pc = "return"
     /\ frame.kind = "block"
     /\ extras' = Append(extras, <<"inst", frame.pos + 1>>)
     /\ mem' = PushExtras(Release(mem, frame.mark), Len(extras), 1)
     /\ frames' = Front(frames)
     /\ pc' = "opcode"
     /\ UNCHANGED <<input, curr, diags, todo, ok, instructions>>

\* ... of an if without an else: there is no position of an else.
ReturnIf ==
  LET frame == Last(frames)
  IN /\ pc = "return"
     /\ frame.kind = "if"
     /\ Inst.op = End
     /\ extras' = extras \o <<<<"inst", frame.pos + 1>>, <<"inst", 0>>>>
     /\ mem' = PushExtras(Release(mem, frame.mark), Len(extras), 2)
     /\ frames' = Front(frames)
     /\ pc' = "opcode"
     /\ UNCHANGED <<input, curr, diags, todo, ok, instructions>>

\* Mutant: the position of the else itself.
EnterElseEarly ==
  LET frame == Last(frames)
  IN /\ pc = "return"
     /\ frame.kind = "if"
     /\ Inst.op = Else
     /\ UNCHANGED <<input, curr, diags, todo, ok, instructions>>
     /\ extras' = Append(extras, <<"inst", frame.pos + 1>>)
     /\ mem' = PushExtras(Release(mem, frame.mark), Len(extras), 1)
     /\ frames' = Append(Front(frames), Frame("else", frame.pos, mem', Len(instructions) - 1))
     /\ pc' = "opcode"

\* ... and with an else: another call reads the instructions after it.
EnterElse ==
  LET frame == Last(frames)
  IN /\ pc = "return"
     /\ frame.kind = "if"
     /\ Inst.op = Else
     /\ UNCHANGED <<input, curr, diags, todo, ok, instructions>>
     /\ extras' = Append(extras, <<"inst", frame.pos + 1>>)
     /\ mem' = PushExtras(Release(mem, frame.mark), Len(extras), 1)
     /\ frames' = Append(Front(frames), Frame("else", frame.pos, mem', Len(instructions)))
     /\ pc' = "opcode"

ReturnElse ==
  LET frame == Last(frames)
  IN /\ pc = "return"
     /\ frame.kind = "else"
     /\ extras' = Append(extras, <<"inst", frame.else>>)
     /\ mem' = PushExtras(Release(mem, frame.mark), Len(extras), 1)
     /\ frames' = Front(frames)
     /\ pc' = "opcode"
     /\ UNCHANGED <<input, curr, diags, todo, ok, instructions>>

\* The outermost call has returned: the lists are copied, the guard of
\* bin_read_expr ends, and its result `ok` has never been assigned.
ReturnExpr ==
  /\ pc = "return"
  /\ Last(frames).kind = "top"
  /\ mem' = Release(Copy(Release(mem, Last(frames).mark)), 0)
  /\ frames' = <<>>
  /\ ok' = FALSE
  /\ pc' = "done"
  /\ UNCHANGED <<input, curr, diags, todo, lists>>

-----------------------------------------------------------------------------
Init ==
  /\ \E i \in Input : section = i.section /\ data = i.data
  /\ curr = 0
  /\ diags = {}
  /\ todo = <<Section[section]>>
  /\ pc = "fields"
  /\ ok = TRUE
  /\ frames = <<>>
  /\ instructions = <<>>
  /\ extras = <<>>
  /\ mem = NoMem

Next ==
  \/ ReadField \/ FieldsDone \/ StartExpr
  \/ ReadOpcode \/ SimpleInstruction \/ BadBlock \/ EnterBlock
  \/ ReturnBlock \/ ReturnIf \/ EnterElse \/ ReturnElse \/ ReturnExpr

Spec     == Init /\ [][Next]_vars
FairSpec == Spec /\ WF_vars(Next)
-----------------------------------------------------------------------------
Ended == pc \in {"done", "panicked"}

FrameRecord ==
  [kind : {"top", "block", "if", "else"}, pos : Nat, mark : Nat, anchor : Nat, else : Nat]

\* Type correctness.  The range of an error does not end before it starts
\* (the assert of bin_reader_anchor_range) and lies in the scope.
TypeOK ==
  /\ curr \in 0 .. Len(data)
  /\ \A d \in diags : d[1] <= d[2] /\ d[2] <= Len(data)
  /\ pc \in {"fields", "opcode", "operands", "return", "done", "panicked"}
  /\ ok \in BOOLEAN
  /\ \A k \in DOMAIN frames : frames[k] \in FrameRecord
  /\ \A k \in DOMAIN instructions :
       instructions[k].op \in 0 .. 255 /\ instructions[k].extra < Len(extras)
  /\ mem.used \in Nat /\ mem.wild \in BOOLEAN

\* A section without expressions is read to its last field, or its reader
\* has reported an error: nothing is given up silently, and nothing that was
\* reported counts as read.
ErrorsReported ==
  (pc = "done" /\ instructions = <<>>) =>
     /\ ok <=> diags = {}
     /\ ok => todo = <<>>

\* A decoder that finds no diagnostic takes the module as read: every field
\* of the section or body was read.
SilentMeansComplete == (pc = "done" /\ diags = {}) => todo = <<>>

\* The lists are used only while their memory is theirs, as long as they fit
\* into their first chunks, which the sentinels allocate before the first
\* call, whatever calls come and go.
FirstChunksOwned ==
  mem.wild => Len(instructions) > InstChunk \/ Len(extras) > ExtraChunk

-----------------------------------------------------------------------------
(* The structure of a sequence of opcodes, from the opcodes alone *)

\* The opcodes read so far, without the sentinel.
Opcodes == [k \in 1 .. Pos |-> instructions[k + 1].op]
Opening == Blocks \cup {If}

\* Blocks open after instruction k, the outermost one included.
Depth(ops, k) ==
  Cardinality({j \in 1 .. k : ops[j] \in Opening}) + 1
    - Cardinality({j \in 1 .. k : ops[j] = End})

\* The block that an else or an end at k belongs to is the last one that was
\* opened at the depth before k, and its elses so far are at that depth.
BlockOf(ops, k) == Max({j \in 1 .. k - 1 : ops[j] \in Opening /\ Depth(ops, j) = Depth(ops, k - 1)})
ElsesOf(ops, k) ==
  {j \in BlockOf(ops, k) + 1 .. k - 1 : ops[j] = Else /\ Depth(ops, j) = Depth(ops, k - 1)}

\* What the extras say of a block that ends, or has its else, at k.
Positions(ops, k) ==
  LET block == <<"inst", BlockOf(ops, k) + 1>>
  IN IF ops[k] = Else THEN <<block>>
     ELSE IF ops[k] # End \/ Depth(ops, k) = 0 THEN <<>>
     ELSE IF ElsesOf(ops, k) # {} THEN <<<<"inst", Max(ElsesOf(ops, k)) + 1>>>>
     ELSE IF ops[BlockOf(ops, k)] = If THEN <<block, <<"inst", 0>>>>
     ELSE <<block>>

\* The positions in a list of extras, and those that a list of opcodes has, in
\* the order of the ends and elses.
Recorded(list) ==
  FlattenSeq([k \in 1 .. Len(list) |-> IF list[k][1] = "inst" THEN <<list[k]>> ELSE <<>>])
Matching(ops) == FlattenSeq([k \in 1 .. Len(ops) |-> Positions(ops, k)])

ReadCleanly == pc = "done" /\ diags = {} /\ instructions # <<>>

\* An expression read without an error is well nested, ends with the end of
\* its outermost block, and the positions in the extras are those of the
\* bodies and elses found by matching the ends.  They come in the order in
\* which the calls of bin_read_instructions_until return, which is not the
\* layout of the comments on Instruction_Opcode: that one is ExtrasAsListed.
StructureRecovered ==
  ReadCleanly =>
    /\ Depth(Opcodes, Pos) = 0
    /\ \A k \in 0 .. Pos - 1 : Depth(Opcodes, k) > 0
    /\ Recorded(extras) = Matching(Opcodes)

\* The extras of a block, a loop or an if as the comments on Instruction_Opcode
\* list them: from `extra` on, the block type, the position of the body and,
\* for an if, the position of the else or 0, one behind the other.
ExtrasAsListed ==
  ReadCleanly =>
    \A k \in {j \in 1 .. Pos : Opcodes[j] \in Opening} :
      LET e == instructions[k + 1].extra
      IN /\ extras[e + 1] = <<"type", k>>
         /\ e + 2 \in DOMAIN extras /\ extras[e + 2] = <<"inst", k + 1>>
         /\ Opcodes[k] = If => e + 3 \in DOMAIN extras /\ extras[e + 3][1] = "inst"

\* Every section or body is read to an end, unless the input stops inside an
\* expression: then no call ever returns.
EndsUnlessStarved == <>(Ended \/ (pc = "opcode" /\ curr = Len(data)))
=============================================================================
