----------------------------- MODULE MCBinRead ------------------------------
(***************************************************************************)
(* Inputs for BinRead: no sections, fewer sections than lanes, more        *)
(* sections than lanes with two of one kind read by one lane or by two,    *)
(* files with and without a code section, with bad parts, with parts whose *)
(* reader loops or panics (read in either round, next to lanes that go on  *)
(* to the barrier), and a scan that fails.                                 *)
(***************************************************************************)
EXTENDS BinRead

Good(k) == [kind |-> k, bad |-> FALSE, ends |-> "returns"]
Bad(k)  == [kind |-> k, bad |-> TRUE, ends |-> "returns"]
Keeps(k, how) == [kind |-> k, bad |-> TRUE, ends |-> how]

Scanned(sections, structure, bad) ==
  [scan |-> TRUE, version |-> 1, sections |-> sections, structure |-> structure,
   codes |-> [i \in 1 .. Len(bad) |-> [bad |-> bad[i], ends |-> "returns"]]]

\* Body i keeps its reader.
KeptAt(f, i, how) == [f EXCEPT !.codes[i].ends = how]

Unscannable ==
  [scan |-> FALSE, version |-> 2, sections |-> <<>>, structure |-> FALSE,
   codes |-> <<>>]

MCSliceKind == {"Type", "Data"}

\* The files whose readers return.
MCReturning ==
  { Unscannable,
    Scanned(<<>>, FALSE, <<>>),
    Scanned(<<Bad("Type")>>, FALSE, <<>>),
    Scanned(<<Good("Type"), Bad("Start"), Bad("Code")>>, FALSE, <<>>),
    Scanned(<<Good("Code"), Bad("Custom"), Good("Code")>>, TRUE,
            <<TRUE, FALSE, TRUE, TRUE>>),
    Scanned(<<Bad("Type"), Good("Type"), Good("Code"), Bad("Data")>>, TRUE,
            <<TRUE, TRUE>>),
    Scanned(<<Good("Type"), Bad("Code"), Bad("Data"), Bad("Data"), Good("Type")>>,
            TRUE, <<TRUE>>) }

MCFile ==
  MCReturning \cup
  { Scanned(<<Good("Type"), Keeps("Data", "loops"), Bad("Type"), Good("Code")>>, TRUE,
            <<TRUE>>),
    Scanned(<<Keeps("Data", "panics"), Keeps("Data", "loops")>>, FALSE, <<>>),
    KeptAt(Scanned(<<Good("Code"), Bad("Data")>>, TRUE, <<FALSE, TRUE, TRUE>>), 3, "loops"),
    KeptAt(Scanned(<<Bad("Data"), Good("Code")>>, TRUE, <<TRUE, TRUE>>), 1, "panics") }
=============================================================================
