---------------------------- MODULE MCTextParser ----------------------------
(***************************************************************************)
(* Modules of the grammar with each of its features, every file that       *)
(* differs from one of them in one token, removed, added or replaced, and  *)
(* every beginning of one.                                                 *)
(***************************************************************************)
EXTENDS TextParser

G(kind, body) == <<"(", kind>> \o body \o <<")">>

Locals   == {<<>>, G("local", <<>>), G("local", <<"i32", "i32">>) \o G("local", <<"id", "i32">>)}
Uses     == {<<>>, G("type", <<"nat">>), G("type", <<"id">> \o G("param", <<"id", "i32">>)),
             G("type", <<"nat">> \o G("param", <<"i32">>) \o G("result", <<"i32", "i32">>))}
Bodies   == {use \o locals : use \in Uses, locals \in Locals}
Modules  == {G("module", <<>>), G("module", <<"id">> \o G("func", <<"id">>) \o G("func", <<>>))}
            \cup {G("module", G("func", body)) : body \in Bodies}

Removed(s)  == {[i \in 1 .. Len(s) - 1 |-> IF i < k THEN s[i] ELSE s[i + 1]] : k \in 1 .. Len(s)}
Replaced(s) == {[s EXCEPT ![k] = t] : k \in 1 .. Len(s), t \in Kinds}
Added(s)    == {[i \in 1 .. Len(s) + 1 |->
                   IF i < k THEN s[i] ELSE IF i = k THEN t ELSE s[i - 1]] :
                 k \in 1 .. Len(s) + 1, t \in Kinds}
Prefixes(s) == {SubSeq(s, 1, k) : k \in 0 .. Len(s)}

MCInput == UNION {Prefixes(s) \cup Removed(s) \cup Replaced(s) \cup Added(s) : s \in Modules}
=============================================================================
