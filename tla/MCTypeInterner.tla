--------------------------- MODULE MCTypeInterner ---------------------------
(***************************************************************************)
(* A small interner: "a" and "b" have the same hash ("a" digests to 0),    *)
(* "c" has another hash of the same chain, and a chain of three keys needs *)
(* a second cell.  A thread arena holds two types, so threads also refill. *)
(***************************************************************************)
EXTENDS TypeInterner

CONSTANTS t1, t2

MCThread      == {t1, t2}
MCKey         == {"a", "b", "c"}
MCRawHash     == [k \in MCKey |-> CASE k = "a" -> 0 [] k = "b" -> 1
                                    [] k = "c" -> 3]
MCMembersSize == [k \in MCKey |-> IF k = "c" THEN 2 ELSE 0]
=============================================================================
