----------------------------- MODULE MCBuilder ------------------------------
(***************************************************************************)
(* Functions that take a memory and an i32 and return an i32, and two      *)
(* threads that race for them.  Everything is added and the module frozen  *)
(* before the first block or value.  The body of one function has up to    *)
(* MaxTotal blocks and values: two blocks and three values, a Return of a  *)
(* constant with the memory that controls the block among them.  Where     *)
(* both functions are begun, by one thread in turn or by two, they have    *)
(* MaxRace blocks and values together: a block in which one leaves its     *)
(* control value, and a block and a value for the other.                   *)
(***************************************************************************)
EXTENDS Builder, FiniteSetsExt, TLC

CONSTANTS t1, t2, f1, f2, MaxTotal, MaxRace

MCThread   == {t1, t2}
MCFunction == {f1, f2}

MCParameters == [f \in Function |-> <<"Memory", "I32">>]
MCResult     == [f \in Function |-> "I32"]

\* What a thread has of its function until the end copies it into the body.
Open(t) == IF pc[t] = "build" THEN Len(blocks[t]) + Len(values[t]) ELSE 0
Done(f) == Len(body[f].blocks) + Len(body[f].values)
Total == FoldSet(LAMBDA t, n : n + Open(t), 0, Thread)
         + FoldSet(LAMBDA f, n : n + Done(f), 0, Function)
Begun == {f \in Function : flags[f] # {}}
FewValues ==
  /\ Total <= IF Cardinality(Begun) = 1 THEN MaxTotal ELSE MaxRace
  /\ Total > 0 => frozen /\ added = Function

Interchangeable == Permutations(Thread) \cup Permutations(Function)
=============================================================================
