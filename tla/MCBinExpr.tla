----------------------------- MODULE MCBinExpr ------------------------------
(***************************************************************************)
(* Bodies without locals: all of up to 5 bytes made of block, if, else,    *)
(* end, 0x40 (the empty block type, or memory.grow) and i64.const; all of  *)
(* up to 3 bytes with an instruction of every other kind, a byte that is   *)
(* no opcode and one with a continuation bit; and numbers of 5 and more    *)
(* bytes.  Every section with all scopes of up to 3 of the bytes that mean *)
(* something in sections, and the scan of files of up to 3 bytes behind    *)
(* the version, and of files that end or differ before.                    *)
(***************************************************************************)
EXTENDS BinExpr

Strings(bytes, n) == UNION {[1 .. k -> bytes] : k \in 0 .. n}

Bodies == Strings({2, 4, 5, 11, 64, 66}, 5)
          \cup Strings({0, 3, 4, 11, 12, 14, 17, 40, 65, 127, 128, 192}, 3)

Padded(op, last, n) == <<op>> \o [k \in 1 .. n |-> 128] \o <<last, 11>>
LongNumbers ==
  {Padded(op, last, n) : op \in {12, 65, 66}, last \in {7, 8, 15, 16, 120, 127}, n \in {3, 4, 5}}
  \cup {<<67, 0, 0, 0, 0, 11>>, <<68, 0, 0, 0, 0, 0, 0, 0, 0, 11>>, <<68, 0, 0, 11>>,
         <<14, 2, 0, 1, 0, 11>>, <<14, 128, 128, 1, 0, 11>>, <<2, 127, 66, 0, 11, 11>>,
         <<4, 127, 66, 0, 5, 3, 64, 11, 66, 0, 11, 4, 64, 11, 11>>,
         <<2, 64, 2, 64, 1, 1, 11, 1, 11, 2, 127, 1, 11, 11>>}

Header  == Magic \o Version
Headers == {SubSeq(Header, 1, k) : k \in 0 .. 7} \cup {[Header EXCEPT ![k] = 2] : k \in 1 .. 8}
Files   == Headers \cup {Header \o rest : rest \in Strings({0, 1, 2, 11, 12, 128}, 3)}

MCInput ==
  [section : {"Code"}, data : {<<0>> \o body : body \in Bodies \cup LongNumbers}]
  \cup [section : {"Code"}, data : {<<1, 2, 127, 11>>, <<2, 1, 127, 1, 11>>}]
  \cup [section : {"Global"}, data : {<<2, 127, 0, 11, 127, 0, 11>>, <<1, 127, 0, 11>>}]
  \cup [section : {"Data"}, data : {<<1, 0, 11, 1, 9>>}]
  \cup [section : {"Module"}, data : Files]
  \cup [section : {"Element"}, data : {<<1, 0, 11, 1, 0>>}]
  \cup [section : DOMAIN Section, data : Strings({0, 1, 2, 3, 96, 112, 127, 128}, 3)]
=============================================================================
