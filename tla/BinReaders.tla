----------------------------- MODULE BinReaders -----------------------------
(***************************************************************************)
(* The byte readers of wasim_binary.odin, as operators on the slice `data` *)
(* of a Bin_Read_Ctx and the offset `curr` in it (counted from 0).         *)
(*                                                                         *)
(* What a reader does is an outcome: whether it is ok, the offset it       *)
(* leaves, the ranges of the errors it reports, and the fields its caller  *)
(* reads next because of what was read (`more`).  Values themselves are    *)
(* left out unless they decide what is read next.                          *)
(*                                                                         *)
(* A field is named by a tuple: <<"vec", x>> is a vector of fields x.      *)
(***************************************************************************)
EXTENDS Naturals, Sequences, FiniteSetsExt

Got(c, more)    == [ok |-> TRUE, curr |-> c, more |-> more, diags |-> {}]
Fail(c, lo, hi) == [ok |-> FALSE, curr |-> c, more |-> <<>>, diags |-> {<<lo, hi>>}]

DataLeft(data, curr) == Len(data) - curr
ByteAt(data, curr)   == data[curr + 1]

ReadBytes(data, curr, count) ==
  IF count <= DataLeft(data, curr)
    THEN Got(curr + count, <<>>)
    ELSE Fail(curr, curr, Len(data))

\* Mutant: the last byte of the data is never read.
ReadByteShort(data, curr) ==
  IF 1 < DataLeft(data, curr) THEN Got(curr + 1, <<>>) ELSE Fail(curr, curr, curr)

ReadByte(data, curr) ==
  IF 1 <= DataLeft(data, curr) THEN Got(curr + 1, <<>>) ELSE Fail(curr, curr, curr)

-----------------------------------------------------------------------------
(* LEB128.  The decoder of core:encoding/varint looks for the first byte   *)
(* without a continuation bit; every failure leaves the offset alone.      *)

\* Bytes of the number at curr, 0 if its end is missing.
LebSize(data, curr) ==
  LET ends == {n \in 1 .. DataLeft(data, curr) : data[curr + n] < 128}
  IN IF ends = {} THEN 0 ELSE Min(ends)

\* MAX_BYTES, and the bits of the value in the last of MAX_BYTES bytes.
MaxBytes(bits) == (bits + 6) \div 7
LastBits(bits) == bits - 7 * (MaxBytes(bits) - 1)

UnsignedFits(bits, size, last) ==
  size < MaxBytes(bits) \/ (size = MaxBytes(bits) /\ last < 2 ^ LastBits(bits))

\* The bits above the sign bit repeat it.
SignedFits(bits, size, last) ==
  LET half == 2 ^ (LastBits(bits) - 1)
  IN size < MaxBytes(bits) \/ (size = MaxBytes(bits) /\ (last < half \/ 128 - half <= last))

ReadULeb(data, curr, bits) ==
  LET size == LebSize(data, curr)
  IN IF size # 0 /\ UnsignedFits(bits, size, data[curr + size])
       THEN Got(curr + size, <<>>)
       ELSE Fail(curr, curr, curr)

ReadILeb(data, curr, bits) ==
  LET size == LebSize(data, curr)
  IN IF size # 0 /\ SignedFits(bits, size, data[curr + size])
       THEN Got(curr + size, <<>>)
       ELSE Fail(curr, curr, curr)

\* The unsigned value at curr, for lengths: the five bytes of a u32 at most.
ULebValue(data, curr) ==
  LET digit(k) == IF k <= LebSize(data, curr) THEN data[curr + k] % 128 ELSE 0
  IN digit(1) + 128 * (digit(2) + 128 * (digit(3) + 128 * (digit(4) + 128 * digit(5))))

-----------------------------------------------------------------------------
(* Composed readers *)

\* bin_read_byte_as_enum, for the values lo .. hi of the enum.
ReadEnum(data, curr, lo, hi) ==
  LET read == ReadByte(data, curr)
  IN IF read.ok /\ ByteAt(data, curr) \notin lo .. hi
       THEN Fail(curr + 1, curr, curr + 1)
       ELSE read

\* Mutant: the length is compared with the bytes left before it.
ReadNamePast(data, curr) ==
  LET size == ReadULeb(data, curr, 32)
  IN IF ~size.ok THEN size
     ELSE IF ULebValue(data, curr) <= DataLeft(data, curr)
       THEN Got(size.curr + ULebValue(data, curr), <<>>)
       ELSE Fail(size.curr, size.curr, Len(data))

\* bin_read_name, the init bytes of bin_read_data and the bodies and sections
\* the scan skips: a length, then bytes.
ReadName(data, curr) ==
  LET size == ReadULeb(data, curr, 32)
  IN IF size.ok THEN ReadBytes(data, size.curr, ULebValue(data, curr)) ELSE size

\* bin_read_vec: every element takes at least a byte, so that as many as
\* there are bytes left, and one, stand for any larger number.
ReadVec(data, curr, element) ==
  LET size  == ReadULeb(data, curr, 32)
      count == Min({ULebValue(data, curr), DataLeft(data, curr) + 1})
  IN IF size.ok THEN [size EXCEPT !.more = [i \in 1 .. count |-> element]] ELSE size

\* bin_read_limits: the maximum is there for kind Limited (1).
ReadLimits(data, curr) ==
  LET kind == ReadEnum(data, curr, 0, 1)
  IN IF kind.ok
       THEN [kind EXCEPT !.more = [i \in 1 .. 1 + ByteAt(data, curr) |-> <<"u32">>]]
       ELSE kind

ValueTypes == 124 .. 127

ReadValueType(data, curr) == ReadEnum(data, curr, 124, 127)

\* Mutant: the unknown byte is not reported.
ReadFuncTypeSilent(data, curr) ==
  LET tag == ReadByte(data, curr)
  IN IF tag.ok
       THEN IF ByteAt(data, curr) = 96
              THEN [tag EXCEPT !.more = <<<<"vec", "value_type">>, <<"vec", "value_type">>>>]
              ELSE [tag EXCEPT !.ok = FALSE]
       ELSE tag

\* bin_read_func_type: the identifying byte 0x60, arguments, results.
ReadFuncType(data, curr) ==
  LET tag == ReadEnum(data, curr, 96, 96)
  IN IF tag.ok
       THEN [tag EXCEPT !.more = <<<<"vec", "value_type">>, <<"vec", "value_type">>>>]
       ELSE tag

\* What bin_read_import reads for a kind of External_Kind.
ImportOf(kind) ==
  CASE kind = 0 -> <<<<"u32">>>>
    [] kind = 1 -> <<<<"element_type">>, <<"limits">>>>
    [] kind = 2 -> <<<<"limits">>>>
    [] kind = 3 -> <<<<"value_type">>, <<"b8">>>>

ReadImportKind(data, curr) ==
  LET kind == ReadEnum(data, curr, 0, 3)
  IN IF kind.ok THEN [kind EXCEPT !.more = ImportOf(ByteAt(data, curr))] ELSE kind

\* BIN_MAGIC and BIN_SUPPORTED_VERSION, in the order of their bytes.
Magic   == <<0, 97, 115, 109>>
Version == <<1, 0, 0, 0>>

\* A u32 that must be the constant: of a missing one only that is reported...
ReadMagic(data, curr) ==
  LET read == ReadBytes(data, curr, 4)
  IN IF read.ok /\ SubSeq(data, curr + 1, curr + 4) # Magic
       THEN Fail(curr + 4, curr, curr + 4)
       ELSE read

\* ... while a missing version is also reported as the version 0.
ReadVersion(data, curr) ==
  LET read == ReadBytes(data, curr, 4)
  IN IF ~read.ok THEN [read EXCEPT !.diags = @ \cup {<<curr, curr>>}]
     ELSE IF SubSeq(data, curr + 1, curr + 4) # Version
            THEN Fail(curr + 4, curr, curr + 4)
            ELSE read

\* The loop of bin_scan_module: sections up to the end of the file, each a
\* kind, and a length and as many bytes.
ReadSections(data, curr) ==
  IF curr = Len(data)
    THEN Got(curr, <<>>)
    ELSE [ReadEnum(data, curr, 0, 11) EXCEPT !.more = <<<<"name">>, <<"sections">>>>]

\* The records that are a fixed sequence of fields.
Fields(field) ==
  CASE field = "import"  -> <<<<"name">>, <<"name">>, <<"import_kind">>>>
    [] field = "table"   -> <<<<"element_type">>, <<"limits">>>>
    [] field = "global"  -> <<<<"value_type">>, <<"b8">>, <<"expr">>>>
    [] field = "export"  -> <<<<"name">>, <<"external_kind">>, <<"u32">>>>
    [] field = "element" -> <<<<"u32">>, <<"expr">>, <<"vec", "u32">>>>
    [] field = "data"    -> <<<<"u32">>, <<"expr">>, <<"name">>>>
    [] field = "local"   -> <<<<"u32">>, <<"value_type">>>>
    [] field = "code"    -> <<<<"vec", "local">>, <<"expr">>>>
    [] field = "module"  -> <<<<"magic">>, <<"version">>, <<"sections">>>>

Records == {"import", "table", "global", "export", "element", "data", "local", "code",
            "module"}

\* What bin_read_section_into_module and bin_read_code read in a scope; with
\* bin_scan_module, for which it is the file, and the scan of a code section
\* (bodies that are a length and bytes).
Section ==
  [Type     |-> <<"vec", "func_type">>, Import |-> <<"vec", "import">>,
   Function |-> <<"vec", "u32">>,       Table  |-> <<"vec", "table">>,
   Memory   |-> <<"vec", "limits">>,    Global |-> <<"vec", "global">>,
   Export   |-> <<"vec", "export">>,    Start  |-> <<"u32">>,
   Element  |-> <<"vec", "element">>,   Data   |-> <<"vec", "data">>,
   Code     |-> <<"code">>,             Bodies |-> <<"vec", "name">>,
   Module   |-> <<"module">>]

\* The outcome of reading one field that is not an expression.
Read(data, curr, field) ==
  CASE field[1] = "vec"           -> ReadVec(data, curr, <<field[2]>>)
    [] field[1] \in Records       -> Got(curr, Fields(field[1]))
    [] field[1] = "u32"           -> ReadULeb(data, curr, 32)
    [] field[1] = "b8"            -> ReadBytes(data, curr, 1)
    [] field[1] = "name"          -> ReadName(data, curr)
    [] field[1] = "value_type"    -> ReadValueType(data, curr)
    [] field[1] = "element_type"  -> ReadEnum(data, curr, 112, 112)
    [] field[1] = "external_kind" -> ReadEnum(data, curr, 0, 3)
    [] field[1] = "import_kind"   -> ReadImportKind(data, curr)
    [] field[1] = "limits"        -> ReadLimits(data, curr)
    [] field[1] = "func_type"     -> ReadFuncType(data, curr)
    [] field[1] = "magic"         -> ReadMagic(data, curr)
    [] field[1] = "version"       -> ReadVersion(data, curr)
    [] field[1] = "sections"      -> ReadSections(data, curr)
=============================================================================
