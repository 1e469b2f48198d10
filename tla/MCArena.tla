------------------------------- MODULE MCArena ------------------------------
(***************************************************************************)
(* A page of 4 units and a header of 2.  With alignments of 1 and 2 the    *)
(* header needs no padding, as with the 72 bytes of the real header and    *)
(* alignments up to 8; an alignment of 4 stands for 16 and more.           *)
(***************************************************************************)
EXTENDS Arena

MCSize == {1, 5}
=============================================================================
