-------------------------- MODULE TextParserProofs --------------------------
(***************************************************************************)
(* For every file: the parser ends without an error exactly if the tokens  *)
(* are a module of the grammar, and then it has dropped nothing.           *)
(*                                                                         *)
(* The argument: as long as there was no error, what the open procedures   *)
(* have still to do is one of the lists below, and each goes with the      *)
(* states the automaton of the grammar can be in after the tokens that     *)
(* were taken.  The parser looks at most one token further than the        *)
(* automaton: where a step depends on what it saw, the automaton is stuck  *)
(* or goes the same way.  An error is reported only where it is stuck.     *)
(***************************************************************************)
EXTENDS TextParser, TLAPS, FiniteSetTheorems, SequenceTheorems,
        WellFoundedInduction, NaturalsInduction

Push(step, rest) == <<step>> \o rest

\* What is left to do of the module ...
Nothing  == <<>>
ToEof    == Push(<<"eof">>, Nothing)
ToEnd    == Push(<<"end">>, ToEof)
ToFields == Push(<<"fields">>, ToEnd)
ToId     == Push(<<"id">>, ToFields)
\* ... of a function in it ...
FuncEnd  == Push(<<"end">>, ToFields)
Locals   == Push(<<"named", "local">>, FuncEnd)
FuncUse  == Push(<<"type_use">>, Locals)
FuncId   == Push(<<"id">>, FuncUse)
\* ... and of its type use.
UseEnd   == Push(<<"end">>, Locals)
Results  == Push(<<"values", "result">>, UseEnd)
Params   == Push(<<"named", "param">>, Results)

\* In a group of the list `rest`.
GroupEnd(rest)   == Push(<<"end">>, rest)
GroupTypes(rest) == Push(<<"types">>, GroupEnd(rest))
GroupFirst(rest) == Push(<<"first">>, GroupEnd(rest))

\* The states of the automaton after the tokens taken so far.
Reached == Run[at - 1]

\* Next comes the end of a list that leads to the state q, or the file is
\* malformed.
Closes(q) ==
  /\ Current = ")" => After(Reached, ")") = {q}
  /\ Current # ")" => ~WellFormed

AtModule  == todo = <<<<"module">>>> /\ at = 1
AtId      == todo = ToId /\ Reached = {"module", "fields"}
AtFields  ==
  /\ todo = ToFields
  /\ Reached = {"fields"} \/ (Reached = {"module", "fields"} /\ Current # "id")
AtEnd     == todo = ToEnd /\ Closes("accept")
AtEof     == todo = ToEof /\ Reached = {"accept"}
AtNothing == todo = Nothing /\ at = Len(tokens) + 1 /\ Reached = {"accept"}

AtFuncId  == todo = FuncId /\ Reached = {"func", "use", "locals"}
BeforeUse ==
  Reached = {"use", "locals"} \/ (Reached = {"func", "use", "locals"} /\ Current # "id")
AtFuncUse == todo = FuncUse /\ BeforeUse
AtLocals  ==
  /\ todo = Locals
  /\ Reached = {"locals"} \/ (BeforeUse /\ NextParenKind # "type")
AtFuncEnd == todo = FuncEnd /\ Closes("fields")

\* The token of the index is missing.
NoIndex   == Reached = {"index"} /\ at = Len(tokens) + 1
AtParams  == todo = Params /\ (Reached = {"params"} \/ NoIndex)
AtResults ==
  /\ todo = Results
  /\ \/ Reached = {"results"} \/ NoIndex
     \/ Reached = {"params"} /\ NextParenKind # "param"
AtUseEnd  == todo = UseEnd /\ Closes("locals")

\* A value type that comes next does not count as the index of a type use.
Behind(state)       == Reached = {state} /\ tokens[at - 1] # "type"
AtFirst(rest, kind) == todo = GroupFirst(rest) /\ Behind(kind)
AtTypes(rest, more) == todo = GroupTypes(rest) /\ Behind(more)
AtClose(rest, q)    == todo = GroupEnd(rest) /\ Closes(q)

InModule == AtModule \/ AtId \/ AtFields \/ AtEnd \/ AtEof \/ AtNothing
InFunc   == AtFuncId \/ AtFuncUse \/ AtLocals \/ AtFuncEnd
InUse    == AtParams \/ AtResults \/ AtUseEnd
InGroup  ==
  \/ AtFirst(Locals, "local") \/ AtTypes(Locals, "local_more") \/ AtClose(Locals, "locals")
  \/ AtFirst(Params, "param") \/ AtTypes(Params, "param_more") \/ AtClose(Params, "params")
  \/ AtTypes(Results, "result_more") \/ AtClose(Results, "results")

Where == InModule \/ InFunc \/ InUse \/ InGroup

\* What was taken is in the lists.
Kept ==
  /\ funcs = Cardinality(Counted("func", at - 1))
  /\ values = Cardinality(Counted("i32", at - 1))
  /\ todo = <<<<"module">>>> \/ at >= 3

\* The inductive invariant.
PInv ==
  /\ TypeOK
  /\ tokens \in Seq(Kinds)
  /\ errors # 0 => ~WellFormed
  /\ errors = 0 => Where /\ Kept

-----------------------------------------------------------------------------
(* The automaton *)

LEMMA EdgeShape == \A e \in Edges : e = <<e[1], e[2], e[3]>>
BY DEF Edges, Group, NamedGroup

LEMMA EdgesModule ==
  ASSUME NEW t, NEW q
  PROVE  /\ <<"begin", t, q>> \in Edges <=> t = "(" /\ q = "(begin"
         /\ <<"(begin", t, q>> \in Edges <=> t = "module" /\ q = "module"
         /\ <<"module", t, q>> \in Edges <=> t = "id" /\ q = "fields"
         /\ <<"fields", t, q>> \in Edges <=> (t = ")" /\ q = "accept") \/ (t = "(" /\ q = "(fields")
         /\ <<"(fields", t, q>> \in Edges <=> t = "func" /\ q = "func"
         /\ <<"accept", t, q>> \notin Edges
BY DEF Edges, Group, NamedGroup

LEMMA EdgesFunc ==
  ASSUME NEW t, NEW q
  PROVE  /\ <<"func", t, q>> \in Edges <=> t = "id" /\ q = "use"
         /\ <<"use", t, q>> \in Edges <=> t = "(" /\ q = "(use"
         /\ <<"locals", t, q>> \in Edges <=> (t = "(" /\ q = "(locals") \/ (t = ")" /\ q = "fields")
         /\ <<"(use", t, q>> \in Edges <=> t = "type" /\ q = "index"
         /\ <<"(locals", t, q>> \in Edges <=> t = "local" /\ q = "local"
BY DEF Edges, Group, NamedGroup

LEMMA EdgesUse ==
  ASSUME NEW t, NEW q
  PROVE  /\ <<"index", t, q>> \in Edges <=> t \in Kinds \ {"big"} /\ q = "params"
         /\ <<"params", t, q>> \in Edges <=> (t = "(" /\ q = "(params") \/ (t = ")" /\ q = "locals")
         /\ <<"results", t, q>> \in Edges <=> (t = "(" /\ q = "(results")
                                              \/ (t = ")" /\ q = "locals")
         /\ <<"(params", t, q>> \in Edges <=> \/ t = "param" /\ q = "param"
                                              \/ t = "result" /\ q = "result_more"
         /\ <<"(results", t, q>> \in Edges <=> t = "result" /\ q = "result_more"
BY DEF Edges, Group, NamedGroup

LEMMA EdgesParam ==
  ASSUME NEW t, NEW q
  PROVE  /\ <<"param", t, q>> \in Edges <=> \/ t = ")" /\ q = "params"
                                            \/ t = "i32" /\ q = "param_more"
                                            \/ t = "id" /\ q = "param_one"
         /\ <<"param_one", t, q>> \in Edges <=> \/ t = ")" /\ q = "params"
                                                \/ t = "i32" /\ q = "param_last"
         /\ <<"param_last", t, q>> \in Edges <=> t = ")" /\ q = "params"
         /\ <<"param_more", t, q>> \in Edges <=> \/ t = ")" /\ q = "params"
                                                 \/ t = "i32" /\ q = "param_more"
BY DEF Edges, Group, NamedGroup

LEMMA EdgesLocal ==
  ASSUME NEW t, NEW q
  PROVE  /\ <<"local", t, q>> \in Edges <=> \/ t = ")" /\ q = "locals"
                                            \/ t = "i32" /\ q = "local_more"
                                            \/ t = "id" /\ q = "local_one"
         /\ <<"local_one", t, q>> \in Edges <=> \/ t = ")" /\ q = "locals"
                                                \/ t = "i32" /\ q = "local_last"
         /\ <<"local_last", t, q>> \in Edges <=> t = ")" /\ q = "locals"
         /\ <<"local_more", t, q>> \in Edges <=> \/ t = ")" /\ q = "locals"
                                                 \/ t = "i32" /\ q = "local_more"
         /\ <<"result_more", t, q>> \in Edges <=> \/ t = ")" /\ q = "results"
                                                  \/ t = "i32" /\ q = "result_more"
BY DEF Edges, Group, NamedGroup

LEMMA AfterIs ==
  ASSUME NEW S, NEW t, NEW T, \A q : q \in T <=> \E p \in S : <<p, t, q>> \in Edges
  PROVE  After(S, t) = Closure(T)
<1>1. {e[3] : e \in {d \in Edges : d[1] \in S /\ d[2] = t}} = T
  <2>1. ASSUME NEW e \in Edges, e[1] \in S, e[2] = t
        PROVE  e[3] \in T
    BY <2>1, EdgeShape
  <2>2. ASSUME NEW q \in T
        PROVE  \E e \in Edges : e[1] \in S /\ e[2] = t /\ e[3] = q
    <3>1. PICK p \in S : <<p, t, q>> \in Edges
      BY <2>2
    <3>2. <<p, t, q>>[1] = p /\ <<p, t, q>>[2] = t /\ <<p, t, q>>[3] = q
      OBVIOUS
    <3>. QED BY <3>1, <3>2
  <2>. QED BY <2>1, <2>2
<1>. QED BY <1>1 DEF After

LEMMA AfterOne ==
  ASSUME NEW p, NEW t, NEW T, \A q : q \in T <=> <<p, t, q>> \in Edges
  PROVE  After({p}, t) = Closure(T)
<1>. DEFINE S == {p}
<1>1. \A q : q \in T <=> \E r \in S : <<r, t, q>> \in Edges
  OBVIOUS
<1>. HIDE DEF S
<1>2. After(S, t) = Closure(T)
  BY <1>1, AfterIs
<1>. QED BY <1>2 DEF S

LEMMA ClosureEmpty == Closure({}) = {}
BY DEF Closure

LEMMA ClosureOne ==
  ASSUME NEW q, q \notin {"module", "func", "use"}
  PROVE  Closure({q}) = {q}
BY DEF Closure

LEMMA AfterModule ==
  ASSUME NEW t
  PROVE  /\ After({"begin"}, t) = IF t = "(" THEN {"(begin"} ELSE {}
         /\ After({"(begin"}, t) = IF t = "module" THEN {"module", "fields"} ELSE {}
         /\ After({"module", "fields"}, t) = IF t = "id" THEN {"fields"}
                                             ELSE IF t = ")" THEN {"accept"}
                                             ELSE IF t = "(" THEN {"(fields"} ELSE {}
         /\ After({"fields"}, t) = IF t = ")" THEN {"accept"}
                                   ELSE IF t = "(" THEN {"(fields"} ELSE {}
         /\ After({"(fields"}, t) = IF t = "func" THEN {"func", "use", "locals"} ELSE {}
         /\ After({"accept"}, t) = {}
<1>1. After({"begin"}, t) = IF t = "(" THEN {"(begin"} ELSE {}
  <2>. DEFINE T == IF t = "(" THEN {"(begin"} ELSE {}
  <2>1. \A q : q \in T <=> <<"begin", t, q>> \in Edges
    BY EdgesModule
  <2>2. Closure(T) = IF t = "(" THEN {"(begin"} ELSE {}
    BY DEF Closure
  <2>. HIDE DEF T
  <2>. QED BY <2>1, <2>2, AfterOne
<1>2. After({"(begin"}, t) = IF t = "module" THEN {"module", "fields"} ELSE {}
  <2>. DEFINE T == IF t = "module" THEN {"module"} ELSE {}
  <2>1. \A q : q \in T <=> <<"(begin", t, q>> \in Edges
    BY EdgesModule
  <2>2. Closure(T) = IF t = "module" THEN {"module", "fields"} ELSE {}
    BY DEF Closure
  <2>. HIDE DEF T
  <2>. QED BY <2>1, <2>2, AfterOne
<1>3. After({"module", "fields"}, t) = IF t = "id" THEN {"fields"}
                                       ELSE IF t = ")" THEN {"accept"}
                                       ELSE IF t = "(" THEN {"(fields"} ELSE {}
  <2>. DEFINE T == IF t = "id" THEN {"fields"} ELSE IF t = ")" THEN {"accept"}
                   ELSE IF t = "(" THEN {"(fields"} ELSE {}
  <2>. DEFINE S == {"module", "fields"}
  <2>1. \A q : q \in T <=> \E p \in S : <<p, t, q>> \in Edges
    BY EdgesModule
  <2>2. Closure(T) = IF t = "id" THEN {"fields"} ELSE IF t = ")" THEN {"accept"}
                     ELSE IF t = "(" THEN {"(fields"} ELSE {}
    BY DEF Closure
  <2>. HIDE DEF T, S
  <2>3. After(S, t) = Closure(T)
    BY <2>1, AfterIs
  <2>. QED BY <2>2, <2>3 DEF S
<1>4. After({"fields"}, t) = IF t = ")" THEN {"accept"} ELSE IF t = "(" THEN {"(fields"} ELSE {}
  <2>. DEFINE T == IF t = ")" THEN {"accept"} ELSE IF t = "(" THEN {"(fields"} ELSE {}
  <2>1. \A q : q \in T <=> <<"fields", t, q>> \in Edges
    BY EdgesModule
  <2>2. Closure(T) = IF t = ")" THEN {"accept"} ELSE IF t = "(" THEN {"(fields"} ELSE {}
    BY DEF Closure
  <2>. HIDE DEF T
  <2>. QED BY <2>1, <2>2, AfterOne
<1>5. After({"(fields"}, t) = IF t = "func" THEN {"func", "use", "locals"} ELSE {}
  <2>. DEFINE T == IF t = "func" THEN {"func"} ELSE {}
  <2>1. \A q : q \in T <=> <<"(fields", t, q>> \in Edges
    BY EdgesModule
  <2>2. Closure(T) = IF t = "func" THEN {"func", "use", "locals"} ELSE {}
    BY DEF Closure
  <2>. HIDE DEF T
  <2>. QED BY <2>1, <2>2, AfterOne
<1>6. After({"accept"}, t) = {}
  <2>. DEFINE T == {}
  <2>1. \A q : q \in T <=> <<"accept", t, q>> \in Edges
    BY EdgesModule
  <2>2. Closure(T) = {}
    BY DEF Closure
  <2>. HIDE DEF T
  <2>. QED BY <2>1, <2>2, AfterOne
<1>. QED BY <1>1, <1>2, <1>3, <1>4, <1>5, <1>6

LEMMA AfterFunc ==
  ASSUME NEW t
  PROVE  /\ After({"func", "use", "locals"}, t) = IF t = "id" THEN {"use", "locals"}
                                                  ELSE IF t = "(" THEN {"(use", "(locals"}
                                                  ELSE IF t = ")" THEN {"fields"} ELSE {}
         /\ After({"use", "locals"}, t) = IF t = "(" THEN {"(use", "(locals"}
                                          ELSE IF t = ")" THEN {"fields"} ELSE {}
         /\ After({"locals"}, t) = IF t = "(" THEN {"(locals"}
                                   ELSE IF t = ")" THEN {"fields"} ELSE {}
         /\ After({"(use", "(locals"}, t) = IF t = "type" THEN {"index"}
                                            ELSE IF t = "local" THEN {"local"} ELSE {}
         /\ After({"(locals"}, t) = IF t = "local" THEN {"local"} ELSE {}
<1>1. After({"func", "use", "locals"}, t) = IF t = "id" THEN {"use", "locals"}
                                            ELSE IF t = "(" THEN {"(use", "(locals"}
                                            ELSE IF t = ")" THEN {"fields"} ELSE {}
  <2>. DEFINE T == IF t = "id" THEN {"use"} ELSE IF t = "(" THEN {"(use", "(locals"}
                   ELSE IF t = ")" THEN {"fields"} ELSE {}
  <2>. DEFINE S == {"func", "use", "locals"}
  <2>1. \A q : q \in T <=> \E p \in S : <<p, t, q>> \in Edges
    BY EdgesFunc
  <2>2. Closure(T) = IF t = "id" THEN {"use", "locals"} ELSE IF t = "(" THEN {"(use", "(locals"}
                     ELSE IF t = ")" THEN {"fields"} ELSE {}
    BY DEF Closure
  <2>. HIDE DEF T, S
  <2>3. After(S, t) = Closure(T)
    BY <2>1, AfterIs
  <2>. QED BY <2>2, <2>3 DEF S
<1>2. After({"use", "locals"}, t) = IF t = "(" THEN {"(use", "(locals"}
                                    ELSE IF t = ")" THEN {"fields"} ELSE {}
  <2>. DEFINE T == IF t = "(" THEN {"(use", "(locals"} ELSE IF t = ")" THEN {"fields"} ELSE {}
  <2>. DEFINE S == {"use", "locals"}
  <2>1. \A q : q \in T <=> \E p \in S : <<p, t, q>> \in Edges
    BY EdgesFunc
  <2>2. Closure(T) = IF t = "(" THEN {"(use", "(locals"} ELSE IF t = ")" THEN {"fields"} ELSE {}
    BY DEF Closure
  <2>. HIDE DEF T, S
  <2>3. After(S, t) = Closure(T)
    BY <2>1, AfterIs
  <2>. QED BY <2>2, <2>3 DEF S
<1>3. After({"locals"}, t) = IF t = "(" THEN {"(locals"} ELSE IF t = ")" THEN {"fields"} ELSE {}
  <2>. DEFINE T == IF t = "(" THEN {"(locals"} ELSE IF t = ")" THEN {"fields"} ELSE {}
  <2>1. \A q : q \in T <=> <<"locals", t, q>> \in Edges
    BY EdgesFunc
  <2>2. Closure(T) = IF t = "(" THEN {"(locals"} ELSE IF t = ")" THEN {"fields"} ELSE {}
    BY DEF Closure
  <2>. HIDE DEF T
  <2>. QED BY <2>1, <2>2, AfterOne
<1>4. After({"(use", "(locals"}, t) = IF t = "type" THEN {"index"}
                                      ELSE IF t = "local" THEN {"local"} ELSE {}
  <2>. DEFINE T == IF t = "type" THEN {"index"} ELSE IF t = "local" THEN {"local"} ELSE {}
  <2>. DEFINE S == {"(use", "(locals"}
  <2>1. \A q : q \in T <=> \E p \in S : <<p, t, q>> \in Edges
    BY EdgesFunc
  <2>2. Closure(T) = IF t = "type" THEN {"index"} ELSE IF t = "local" THEN {"local"} ELSE {}
    BY DEF Closure
  <2>. HIDE DEF T, S
  <2>3. After(S, t) = Closure(T)
    BY <2>1, AfterIs
  <2>. QED BY <2>2, <2>3 DEF S
<1>5. After({"(locals"}, t) = IF t = "local" THEN {"local"} ELSE {}
  <2>. DEFINE T == IF t = "local" THEN {"local"} ELSE {}
  <2>1. \A q : q \in T <=> <<"(locals", t, q>> \in Edges
    BY EdgesFunc
  <2>2. Closure(T) = IF t = "local" THEN {"local"} ELSE {}
    BY DEF Closure
  <2>. HIDE DEF T
  <2>. QED BY <2>1, <2>2, AfterOne
<1>. QED BY <1>1, <1>2, <1>3, <1>4, <1>5

LEMMA AfterUse ==
  ASSUME NEW t
  PROVE  /\ After({"index"}, t) = IF t \in Kinds \ {"big"} THEN {"params"} ELSE {}
         /\ After({"params"}, t) = IF t = "(" THEN {"(params"}
                                   ELSE IF t = ")" THEN {"locals"} ELSE {}
         /\ After({"results"}, t) = IF t = "(" THEN {"(results"}
                                    ELSE IF t = ")" THEN {"locals"} ELSE {}
         /\ After({"(params"}, t) = IF t = "param" THEN {"param"}
                                    ELSE IF t = "result" THEN {"result_more"} ELSE {}
         /\ After({"(results"}, t) = IF t = "result" THEN {"result_more"} ELSE {}
<1>1. After({"index"}, t) = IF t \in Kinds \ {"big"} THEN {"params"} ELSE {}
  <2>. DEFINE T == IF t \in Kinds \ {"big"} THEN {"params"} ELSE {}
  <2>1. \A q : q \in T <=> <<"index", t, q>> \in Edges
    BY EdgesUse
  <2>2. Closure(T) = IF t \in Kinds \ {"big"} THEN {"params"} ELSE {}
    BY DEF Closure
  <2>. HIDE DEF T
  <2>. QED BY <2>1, <2>2, AfterOne
<1>2. After({"params"}, t) = IF t = "(" THEN {"(params"} ELSE IF t = ")" THEN {"locals"} ELSE {}
  <2>. DEFINE T == IF t = "(" THEN {"(params"} ELSE IF t = ")" THEN {"locals"} ELSE {}
  <2>1. \A q : q \in T <=> <<"params", t, q>> \in Edges
    BY EdgesUse
  <2>2. Closure(T) = IF t = "(" THEN {"(params"} ELSE IF t = ")" THEN {"locals"} ELSE {}
    BY DEF Closure
  <2>. HIDE DEF T
  <2>. QED BY <2>1, <2>2, AfterOne
<1>3. After({"results"}, t) = IF t = "(" THEN {"(results"}
                              ELSE IF t = ")" THEN {"locals"} ELSE {}
  <2>. DEFINE T == IF t = "(" THEN {"(results"} ELSE IF t = ")" THEN {"locals"} ELSE {}
  <2>1. \A q : q \in T <=> <<"results", t, q>> \in Edges
    BY EdgesUse
  <2>2. Closure(T) = IF t = "(" THEN {"(results"} ELSE IF t = ")" THEN {"locals"} ELSE {}
    BY DEF Closure
  <2>. HIDE DEF T
  <2>. QED BY <2>1, <2>2, AfterOne
<1>4. After({"(params"}, t) = IF t = "param" THEN {"param"}
                              ELSE IF t = "result" THEN {"result_more"} ELSE {}
  <2>. DEFINE T == IF t = "param" THEN {"param"}
                   ELSE IF t = "result" THEN {"result_more"} ELSE {}
  <2>1. \A q : q \in T <=> <<"(params", t, q>> \in Edges
    BY EdgesUse
  <2>2. Closure(T) = IF t = "param" THEN {"param"}
                     ELSE IF t = "result" THEN {"result_more"} ELSE {}
    BY DEF Closure
  <2>. HIDE DEF T
  <2>. QED BY <2>1, <2>2, AfterOne
<1>5. After({"(results"}, t) = IF t = "result" THEN {"result_more"} ELSE {}
  <2>. DEFINE T == IF t = "result" THEN {"result_more"} ELSE {}
  <2>1. \A q : q \in T <=> <<"(results", t, q>> \in Edges
    BY EdgesUse
  <2>2. Closure(T) = IF t = "result" THEN {"result_more"} ELSE {}
    BY DEF Closure
  <2>. HIDE DEF T
  <2>. QED BY <2>1, <2>2, AfterOne
<1>. QED BY <1>1, <1>2, <1>3, <1>4, <1>5

LEMMA AfterParam ==
  ASSUME NEW t
  PROVE  /\ After({"param"}, t) = IF t = ")" THEN {"params"}
                                  ELSE IF t = "i32" THEN {"param_more"}
                                  ELSE IF t = "id" THEN {"param_one"} ELSE {}
         /\ After({"param_one"}, t) = IF t = ")" THEN {"params"}
                                      ELSE IF t = "i32" THEN {"param_last"} ELSE {}
         /\ After({"param_last"}, t) = IF t = ")" THEN {"params"} ELSE {}
         /\ After({"param_more"}, t) = IF t = ")" THEN {"params"}
                                       ELSE IF t = "i32" THEN {"param_more"} ELSE {}
<1>1. After({"param"}, t) = IF t = ")" THEN {"params"} ELSE IF t = "i32" THEN {"param_more"}
                            ELSE IF t = "id" THEN {"param_one"} ELSE {}
  <2>. DEFINE T == IF t = ")" THEN {"params"} ELSE IF t = "i32" THEN {"param_more"}
                   ELSE IF t = "id" THEN {"param_one"} ELSE {}
  <2>1. \A q : q \in T <=> <<"param", t, q>> \in Edges
    BY EdgesParam
  <2>2. Closure(T) = IF t = ")" THEN {"params"} ELSE IF t = "i32" THEN {"param_more"}
                     ELSE IF t = "id" THEN {"param_one"} ELSE {}
    BY DEF Closure
  <2>. HIDE DEF T
  <2>. QED BY <2>1, <2>2, AfterOne
<1>2. After({"param_one"}, t) = IF t = ")" THEN {"params"}
                                ELSE IF t = "i32" THEN {"param_last"} ELSE {}
  <2>. DEFINE T == IF t = ")" THEN {"params"} ELSE IF t = "i32" THEN {"param_last"} ELSE {}
  <2>1. \A q : q \in T <=> <<"param_one", t, q>> \in Edges
    BY EdgesParam
  <2>2. Closure(T) = IF t = ")" THEN {"params"} ELSE IF t = "i32" THEN {"param_last"} ELSE {}
    BY DEF Closure
  <2>. HIDE DEF T
  <2>. QED BY <2>1, <2>2, AfterOne
<1>3. After({"param_last"}, t) = IF t = ")" THEN {"params"} ELSE {}
  <2>. DEFINE T == IF t = ")" THEN {"params"} ELSE {}
  <2>1. \A q : q \in T <=> <<"param_last", t, q>> \in Edges
    BY EdgesParam
  <2>2. Closure(T) = IF t = ")" THEN {"params"} ELSE {}
    BY DEF Closure
  <2>. HIDE DEF T
  <2>. QED BY <2>1, <2>2, AfterOne
<1>4. After({"param_more"}, t) = IF t = ")" THEN {"params"}
                                 ELSE IF t = "i32" THEN {"param_more"} ELSE {}
  <2>. DEFINE T == IF t = ")" THEN {"params"} ELSE IF t = "i32" THEN {"param_more"} ELSE {}
  <2>1. \A q : q \in T <=> <<"param_more", t, q>> \in Edges
    BY EdgesParam
  <2>2. Closure(T) = IF t = ")" THEN {"params"} ELSE IF t = "i32" THEN {"param_more"} ELSE {}
    BY DEF Closure
  <2>. HIDE DEF T
  <2>. QED BY <2>1, <2>2, AfterOne
<1>. QED BY <1>1, <1>2, <1>3, <1>4

LEMMA AfterLocal ==
  ASSUME NEW t
  PROVE  /\ After({"local"}, t) = IF t = ")" THEN {"locals"}
                                  ELSE IF t = "i32" THEN {"local_more"}
                                  ELSE IF t = "id" THEN {"local_one"} ELSE {}
         /\ After({"local_one"}, t) = IF t = ")" THEN {"locals"}
                                      ELSE IF t = "i32" THEN {"local_last"} ELSE {}
         /\ After({"local_last"}, t) = IF t = ")" THEN {"locals"} ELSE {}
         /\ After({"local_more"}, t) = IF t = ")" THEN {"locals"}
                                       ELSE IF t = "i32" THEN {"local_more"} ELSE {}
         /\ After({"result_more"}, t) = IF t = ")" THEN {"results"}
                                        ELSE IF t = "i32" THEN {"result_more"} ELSE {}
<1>1. After({"local"}, t) = IF t = ")" THEN {"locals"} ELSE IF t = "i32" THEN {"local_more"}
                            ELSE IF t = "id" THEN {"local_one"} ELSE {}
  <2>. DEFINE T == IF t = ")" THEN {"locals"} ELSE IF t = "i32" THEN {"local_more"}
                   ELSE IF t = "id" THEN {"local_one"} ELSE {}
  <2>1. \A q : q \in T <=> <<"local", t, q>> \in Edges
    BY EdgesLocal
  <2>2. Closure(T) = IF t = ")" THEN {"locals"} ELSE IF t = "i32" THEN {"local_more"}
                     ELSE IF t = "id" THEN {"local_one"} ELSE {}
    BY DEF Closure
  <2>. HIDE DEF T
  <2>. QED BY <2>1, <2>2, AfterOne
<1>2. After({"local_one"}, t) = IF t = ")" THEN {"locals"}
                                ELSE IF t = "i32" THEN {"local_last"} ELSE {}
  <2>. DEFINE T == IF t = ")" THEN {"locals"} ELSE IF t = "i32" THEN {"local_last"} ELSE {}
  <2>1. \A q : q \in T <=> <<"local_one", t, q>> \in Edges
    BY EdgesLocal
  <2>2. Closure(T) = IF t = ")" THEN {"locals"} ELSE IF t = "i32" THEN {"local_last"} ELSE {}
    BY DEF Closure
  <2>. HIDE DEF T
  <2>. QED BY <2>1, <2>2, AfterOne
<1>3. After({"local_last"}, t) = IF t = ")" THEN {"locals"} ELSE {}
  <2>. DEFINE T == IF t = ")" THEN {"locals"} ELSE {}
  <2>1. \A q : q \in T <=> <<"local_last", t, q>> \in Edges
    BY EdgesLocal
  <2>2. Closure(T) = IF t = ")" THEN {"locals"} ELSE {}
    BY DEF Closure
  <2>. HIDE DEF T
  <2>. QED BY <2>1, <2>2, AfterOne
<1>4. After({"local_more"}, t) = IF t = ")" THEN {"locals"}
                                 ELSE IF t = "i32" THEN {"local_more"} ELSE {}
  <2>. DEFINE T == IF t = ")" THEN {"locals"} ELSE IF t = "i32" THEN {"local_more"} ELSE {}
  <2>1. \A q : q \in T <=> <<"local_more", t, q>> \in Edges
    BY EdgesLocal
  <2>2. Closure(T) = IF t = ")" THEN {"locals"} ELSE IF t = "i32" THEN {"local_more"} ELSE {}
    BY DEF Closure
  <2>. HIDE DEF T
  <2>. QED BY <2>1, <2>2, AfterOne
<1>5. After({"result_more"}, t) = IF t = ")" THEN {"results"}
                                  ELSE IF t = "i32" THEN {"result_more"} ELSE {}
  <2>. DEFINE T == IF t = ")" THEN {"results"} ELSE IF t = "i32" THEN {"result_more"} ELSE {}
  <2>1. \A q : q \in T <=> <<"result_more", t, q>> \in Edges
    BY EdgesLocal
  <2>2. Closure(T) = IF t = ")" THEN {"results"} ELSE IF t = "i32" THEN {"result_more"} ELSE {}
    BY DEF Closure
  <2>. HIDE DEF T
  <2>. QED BY <2>1, <2>2, AfterOne
<1>. QED BY <1>1, <1>2, <1>3, <1>4, <1>5

-----------------------------------------------------------------------------
(* The states the automaton reaches *)

\* A set of numbers that is not empty has a least.
LEMMA LeastNumber ==
  ASSUME NEW T \in SUBSET Nat, T # {}
  PROVE  \E x \in T : \A y \in T : x <= y
<1>1. IsWellFoundedOn(OpToRel(<, Nat), Nat)
  BY NatLessThanWellFounded
<1>2. \E x \in T : \A y \in T : ~(<<y, x>> \in OpToRel(<, Nat))
  BY <1>1, WFMin
<1>3. \A x, y \in Nat : <<y, x>> \in OpToRel(<, Nat) <=> y < x
  BY DEF OpToRel
<1>4. \E x \in T : \A y \in T : ~(y < x)
  BY <1>2, <1>3, Zenon
<1>. QED BY <1>4, SMT

IsRun(g, n) ==
  g = [i \in 0 .. n |-> IF i = 0 THEN {"begin"} ELSE After(g[i - 1], tokens[i])]

LEMMA RunExists ==
  ASSUME NEW N \in Nat
  PROVE  \E g : IsRun(g, N)
<1>. DEFINE B == {n \in Nat : ~ \E g : IsRun(g, n)}
<1>1. SUFFICES ASSUME B # {} PROVE FALSE
  OBVIOUS
<1>2. PICK n \in B : \A m \in B : n <= m
  BY <1>1, LeastNumber
<1>3. n \in Nat /\ ~ \E g : IsRun(g, n)
  OBVIOUS
<1>4. n # 0
  <2>. SUFFICES ASSUME n = 0 PROVE FALSE
    OBVIOUS
  <2>. DEFINE h == [i \in 0 .. 0 |-> {"begin"}]
  <2>1. IsRun(h, 0)
    BY DEF IsRun
  <2>. HIDE DEF h
  <2>. QED BY <1>3, <2>1
<1>5. n - 1 \in Nat /\ n - 1 \notin B
  <2>. HIDE DEF B
  <2>1. n - 1 \in Nat /\ ~(n <= n - 1)
    BY <1>3, <1>4
  <2>. QED BY <1>2, <2>1
<1>6. PICK g : IsRun(g, n - 1)
  BY <1>5
<1>. DEFINE h == [i \in 0 .. n |-> IF i = n THEN After(g[n - 1], tokens[n]) ELSE g[i]]
<1>7. /\ h[n] = After(g[n - 1], tokens[n])
      /\ \A i \in 0 .. n - 1 : h[i] = g[i]
  BY <1>3
<1>8. \A i \in 0 .. n : h[i] = IF i = 0 THEN {"begin"} ELSE After(h[i - 1], tokens[i])
  <2>. SUFFICES ASSUME NEW i \in 0 .. n
                PROVE  h[i] = IF i = 0 THEN {"begin"} ELSE After(h[i - 1], tokens[i])
    OBVIOUS
  <2>. HIDE DEF h, B
  <2>1. CASE i = n
    <3>1. n - 1 \in 0 .. n - 1
      BY <1>5
    <3>. QED BY <1>4, <1>7, <2>1, <3>1
  <2>2. CASE i # n
    <3>1. i \in 0 .. n - 1 /\ (i # 0 => i - 1 \in 0 .. n - 1)
      BY <1>3, <2>2
    <3>2. g[i] = IF i = 0 THEN {"begin"} ELSE After(g[i - 1], tokens[i])
      BY <1>6, <3>1 DEF IsRun
    <3>. QED BY <1>7, <3>1, <3>2
  <2>. QED BY <2>1, <2>2
<1>9. IsRun(h, n)
  <2>1. h = [i \in 0 .. n |-> h[i]]
    OBVIOUS
  <2>. HIDE DEF h
  <2>. QED BY <1>8, <2>1 DEF IsRun
<1>. HIDE DEF h
<1>. QED BY <1>3, <1>9

LEMMA RunIs ==
  ASSUME tokens \in Seq(Kinds)
  PROVE  /\ Run[0] = {"begin"}
         /\ \A i \in 1 .. Len(tokens) : Run[i] = After(Run[i - 1], tokens[i])
<1>1. Len(tokens) \in Nat
  OBVIOUS
<1>2. \E g : IsRun(g, Len(tokens))
  BY <1>1, RunExists
<1>3. Run = [i \in 0 .. Len(tokens) |->
               IF i = 0 THEN {"begin"} ELSE After(Run[i - 1], tokens[i])]
  BY <1>2 DEF IsRun, Run
<1>4. \A i \in 0 .. Len(tokens) :
        Run[i] = IF i = 0 THEN {"begin"} ELSE After(Run[i - 1], tokens[i])
  BY <1>3
<1>5. 0 \in 0 .. Len(tokens) /\ \A i \in 1 .. Len(tokens) : i \in 0 .. Len(tokens) /\ i # 0
  BY <1>1
<1>. QED BY <1>4, <1>5

\* The automaton does not recover.
LEMMA RunDies ==
  ASSUME tokens \in Seq(Kinds), NEW n \in 0 .. Len(tokens), Run[n] = {}
  PROVE  ~WellFormed
<1>. DEFINE B == {i \in Nat : n <= i /\ i <= Len(tokens) /\ Run[i] # {}}
<1>1. SUFFICES ASSUME B # {} PROVE FALSE
  <2>1. Len(tokens) \in Nat /\ n <= Len(tokens)
    OBVIOUS
  <2>2. Run[Len(tokens)] = {}
    BY <2>1
  <2>. QED BY <2>2 DEF WellFormed
<1>2. PICK i \in B : \A m \in B : i <= m
  BY <1>1, LeastNumber
<1>3. i \in Nat /\ n <= i /\ i <= Len(tokens) /\ Run[i] # {} /\ n \in Nat /\ Len(tokens) \in Nat
  OBVIOUS
<1>4. i # n
  BY <1>3
<1>5. i - 1 \in Nat /\ n <= i - 1 /\ i - 1 <= Len(tokens) /\ ~(i <= i - 1) /\ i \in 1 .. Len(tokens)
  BY <1>3, <1>4
<1>6. i - 1 \notin B
  <2>. HIDE DEF B
  <2>. QED BY <1>2, <1>5
<1>7. Run[i - 1] = {}
  BY <1>5, <1>6
<1>8. Run[i] = After({}, tokens[i])
  BY <1>5, <1>7, RunIs
<1>9. After({}, tokens[i]) = {}
  <2>. DEFINE S == {}
              T == {}
  <2>1. \A q : q \in T <=> \E p \in S : <<p, tokens[i], q>> \in Edges
    OBVIOUS
  <2>. HIDE DEF S, T
  <2>2. After(S, tokens[i]) = Closure(T)
    BY <2>1, AfterIs
  <2>. QED BY <2>2, ClosureEmpty DEF S, T
<1>. QED BY <1>3, <1>8, <1>9

\* The automaton is stuck after the first i tokens, or the file ends there and
\* is not accepted.
LEMMA Malformed ==
  ASSUME tokens \in Seq(Kinds), NEW i \in 0 .. Len(tokens),
         After(Run[i], Token(i + 1)) = {},
         "accept" \notin Run[i] \/ Token(i + 1) # "Eof"
  PROVE  ~WellFormed
<1>1. i \in Nat /\ Len(tokens) \in Nat /\ i <= Len(tokens)
  OBVIOUS
<1>2. CASE i = Len(tokens)
  <2>1. Token(i + 1) = "Eof"
    BY <1>1, <1>2 DEF Token
  <2>. QED BY <1>2, <2>1 DEF WellFormed
<1>3. CASE i # Len(tokens)
  <2>1. i + 1 \in 1 .. Len(tokens) /\ (i + 1) - 1 = i
    BY <1>1, <1>3
  <2>2. Token(i + 1) = tokens[i + 1]
    BY <2>1 DEF Token
  <2>3. Run[i + 1] = {}
    BY <2>1, <2>2, RunIs
  <2>4. i + 1 \in 0 .. Len(tokens)
    BY <2>1
  <2>. QED BY <2>3, <2>4, RunDies
<1>. QED BY <1>2, <1>3

-----------------------------------------------------------------------------
(* What there is to do *)

LEMMA PushIs ==
  ASSUME NEW step \in Step, NEW rest \in Seq(Step)
  PROVE  /\ Push(step, rest) \in Seq(Step) /\ Push(step, rest) # <<>>
         /\ Head(Push(step, rest)) = step /\ Tail(Push(step, rest)) = rest
BY DEF Push

LEMMA ModuleTodo ==
  /\ Nothing \in Seq(Step)
  /\ ToEof \in Seq(Step) /\ ToEof # <<>> /\ Head(ToEof) = <<"eof">> /\ Tail(ToEof) = Nothing
  /\ ToEnd \in Seq(Step) /\ ToEnd # <<>> /\ Head(ToEnd) = <<"end">> /\ Tail(ToEnd) = ToEof
  /\ ToFields \in Seq(Step) /\ ToFields # <<>>
     /\ Head(ToFields) = <<"fields">> /\ Tail(ToFields) = ToEnd
  /\ ToId \in Seq(Step) /\ ToId # <<>> /\ Head(ToId) = <<"id">> /\ Tail(ToId) = ToFields
<1>1. Nothing \in Seq(Step)
  BY DEF Nothing
<1>2. {<<"eof">>, <<"end">>, <<"fields">>, <<"id">>} \subseteq Step
  BY DEF Step
<1>3. ToEof \in Seq(Step) /\ ToEof # <<>> /\ Head(ToEof) = <<"eof">> /\ Tail(ToEof) = Nothing
  BY <1>1, <1>2, PushIs DEF ToEof
<1>4. ToEnd \in Seq(Step) /\ ToEnd # <<>> /\ Head(ToEnd) = <<"end">> /\ Tail(ToEnd) = ToEof
  BY <1>2, <1>3, PushIs DEF ToEnd
<1>5. ToFields \in Seq(Step) /\ ToFields # <<>>
        /\ Head(ToFields) = <<"fields">> /\ Tail(ToFields) = ToEnd
  BY <1>2, <1>4, PushIs DEF ToFields
<1>6. ToId \in Seq(Step) /\ ToId # <<>> /\ Head(ToId) = <<"id">> /\ Tail(ToId) = ToFields
  BY <1>2, <1>5, PushIs DEF ToId
<1>. QED BY <1>1, <1>3, <1>4, <1>5, <1>6

LEMMA FuncTodo ==
  /\ FuncEnd \in Seq(Step) /\ FuncEnd # <<>>
     /\ Head(FuncEnd) = <<"end">> /\ Tail(FuncEnd) = ToFields
  /\ Locals \in Seq(Step) /\ Locals # <<>>
     /\ Head(Locals) = <<"named", "local">> /\ Tail(Locals) = FuncEnd
  /\ FuncUse \in Seq(Step) /\ FuncUse # <<>>
     /\ Head(FuncUse) = <<"type_use">> /\ Tail(FuncUse) = Locals
  /\ FuncId \in Seq(Step) /\ FuncId # <<>> /\ Head(FuncId) = <<"id">> /\ Tail(FuncId) = FuncUse
<1>1. {<<"end">>, <<"named", "local">>, <<"type_use">>, <<"id">>} \subseteq Step
  BY DEF Step
<1>2. FuncEnd \in Seq(Step) /\ FuncEnd # <<>>
        /\ Head(FuncEnd) = <<"end">> /\ Tail(FuncEnd) = ToFields
  BY <1>1, ModuleTodo, PushIs DEF FuncEnd
<1>3. Locals \in Seq(Step) /\ Locals # <<>>
        /\ Head(Locals) = <<"named", "local">> /\ Tail(Locals) = FuncEnd
  BY <1>1, <1>2, PushIs DEF Locals
<1>4. FuncUse \in Seq(Step) /\ FuncUse # <<>>
        /\ Head(FuncUse) = <<"type_use">> /\ Tail(FuncUse) = Locals
  BY <1>1, <1>3, PushIs DEF FuncUse
<1>5. FuncId \in Seq(Step) /\ FuncId # <<>> /\ Head(FuncId) = <<"id">> /\ Tail(FuncId) = FuncUse
  BY <1>1, <1>4, PushIs DEF FuncId
<1>. QED BY <1>2, <1>3, <1>4, <1>5

LEMMA UseTodo ==
  /\ UseEnd \in Seq(Step) /\ UseEnd # <<>> /\ Head(UseEnd) = <<"end">> /\ Tail(UseEnd) = Locals
  /\ Results \in Seq(Step) /\ Results # <<>>
     /\ Head(Results) = <<"values", "result">> /\ Tail(Results) = UseEnd
  /\ Params \in Seq(Step) /\ Params # <<>>
     /\ Head(Params) = <<"named", "param">> /\ Tail(Params) = Results
<1>1. {<<"end">>, <<"values", "result">>, <<"named", "param">>} \subseteq Step
  BY DEF Step
<1>2. UseEnd \in Seq(Step) /\ UseEnd # <<>> /\ Head(UseEnd) = <<"end">> /\ Tail(UseEnd) = Locals
  BY <1>1, FuncTodo, PushIs DEF UseEnd
<1>3. Results \in Seq(Step) /\ Results # <<>>
        /\ Head(Results) = <<"values", "result">> /\ Tail(Results) = UseEnd
  BY <1>1, <1>2, PushIs DEF Results
<1>4. Params \in Seq(Step) /\ Params # <<>>
        /\ Head(Params) = <<"named", "param">> /\ Tail(Params) = Results
  BY <1>1, <1>3, PushIs DEF Params
<1>. QED BY <1>2, <1>3, <1>4

LEMMA GroupTodo ==
  ASSUME NEW rest \in Seq(Step)
  PROVE  /\ GroupEnd(rest) \in Seq(Step) /\ GroupEnd(rest) # <<>>
         /\ Head(GroupEnd(rest)) = <<"end">> /\ Tail(GroupEnd(rest)) = rest
         /\ GroupTypes(rest) \in Seq(Step) /\ GroupTypes(rest) # <<>>
         /\ Head(GroupTypes(rest)) = <<"types">> /\ Tail(GroupTypes(rest)) = GroupEnd(rest)
         /\ GroupFirst(rest) \in Seq(Step) /\ GroupFirst(rest) # <<>>
         /\ Head(GroupFirst(rest)) = <<"first">> /\ Tail(GroupFirst(rest)) = GroupEnd(rest)
<1>1. {<<"end">>, <<"types">>, <<"first">>} \subseteq Step
  BY DEF Step
<1>2. /\ GroupEnd(rest) \in Seq(Step) /\ GroupEnd(rest) # <<>>
      /\ Head(GroupEnd(rest)) = <<"end">> /\ Tail(GroupEnd(rest)) = rest
  BY <1>1, PushIs DEF GroupEnd
<1>3. /\ GroupTypes(rest) \in Seq(Step) /\ GroupTypes(rest) # <<>>
      /\ Head(GroupTypes(rest)) = <<"types">> /\ Tail(GroupTypes(rest)) = GroupEnd(rest)
  BY <1>1, <1>2, PushIs DEF GroupTypes
<1>4. /\ GroupFirst(rest) \in Seq(Step) /\ GroupFirst(rest) # <<>>
      /\ Head(GroupFirst(rest)) = <<"first">> /\ Tail(GroupFirst(rest)) = GroupEnd(rest)
  BY <1>1, <1>2, PushIs DEF GroupFirst
<1>. QED BY <1>2, <1>3, <1>4

\* What the calls put in front.
LEMMA Pair ==
  ASSUME NEW T, NEW a \in T, NEW b \in T
  PROVE  <<a, b>> = <<a>> \o <<b>>
<1>. DEFINE s == <<a>> \o <<b>>
            t == <<a, b>>
<1>1. s \in Seq(T) /\ t \in Seq(T) /\ Len(s) = 2 /\ Len(t) = 2
  OBVIOUS
<1>2. s[1] = a /\ s[2] = b /\ t[1] = a /\ t[2] = b
  OBVIOUS
<1>. HIDE DEF s, t
<1>3. \A i \in 1 .. Len(s) : s[i] = t[i]
  BY <1>1, <1>2
<1>4. s = t
  BY <1>1, <1>3, SeqEqual
<1>. QED BY <1>4 DEF s, t

LEMMA PushTwo ==
  ASSUME NEW T, NEW rest \in Seq(T), NEW a \in T, NEW b \in T
  PROVE  <<a, b>> \o rest = Push(a, Push(b, rest))
<1>1. <<a>> \in Seq(T) /\ <<b>> \in Seq(T)
  OBVIOUS
<1>2. (<<a>> \o <<b>>) \o rest = <<a>> \o (<<b>> \o rest)
  <2>. DEFINE s == <<a>>
              t == <<b>>
  <2>1. s \in Seq(T) /\ t \in Seq(T)
    OBVIOUS
  <2>. HIDE DEF s, t
  <2>2. (s \o t) \o rest = s \o (t \o rest)
    BY <2>1, ConcatAssociative
  <2>. QED BY <2>2 DEF s, t
<1>3. <<a, b>> = <<a>> \o <<b>>
  BY Pair
<1>. QED BY <1>2, <1>3, Zenon DEF Push

LEMMA PushThree ==
  ASSUME NEW T, NEW rest \in Seq(T), NEW a \in T, NEW b \in T, NEW c \in T
  PROVE  <<a, b, c>> \o rest = Push(a, Push(b, Push(c, rest)))
<1>1. <<a>> \in Seq(T) /\ <<b, c>> \in Seq(T)
  OBVIOUS
<1>2. (<<a>> \o <<b, c>>) \o rest = <<a>> \o (<<b, c>> \o rest)
  <2>. DEFINE s == <<a>>
              t == <<b, c>>
  <2>1. s \in Seq(T) /\ t \in Seq(T)
    OBVIOUS
  <2>. HIDE DEF s, t
  <2>2. (s \o t) \o rest = s \o (t \o rest)
    BY <2>1, ConcatAssociative
  <2>. QED BY <2>2 DEF s, t
<1>3. <<a, b, c>> = <<a>> \o <<b, c>>
  OBVIOUS
<1>4. <<b, c>> \o rest = Push(b, Push(c, rest))
  BY PushTwo, Zenon
<1>. QED BY <1>2, <1>3, <1>4, Zenon DEF Push

LEMMA PushFive ==
  ASSUME NEW T, NEW rest \in Seq(T),
         NEW a \in T, NEW b \in T, NEW c \in T, NEW d \in T, NEW e \in T
  PROVE  <<a, b, c, d, e>> \o rest = Push(a, Push(b, Push(c, Push(d, Push(e, rest)))))
<1>1. <<a, b, c, d, e>> = <<a, b, c>> \o <<d, e>>
  OBVIOUS
<1>2. <<a, b, c>> \in Seq(T) /\ <<d, e>> \in Seq(T)
  OBVIOUS
<1>3. (<<a, b, c>> \o <<d, e>>) \o rest = <<a, b, c>> \o (<<d, e>> \o rest)
  <2>. DEFINE s == <<a, b, c>>
              t == <<d, e>>
  <2>1. s \in Seq(T) /\ t \in Seq(T)
    OBVIOUS
  <2>. HIDE DEF s, t
  <2>2. (s \o t) \o rest = s \o (t \o rest)
    BY <2>1, ConcatAssociative
  <2>. QED BY <2>2 DEF s, t
<1>4. <<d, e>> \o rest = Push(d, Push(e, rest))
  BY PushTwo, Zenon
<1>5. <<d, e>> \o rest \in Seq(T)
  BY <1>2
<1>6. <<a, b, c>> \o (<<d, e>> \o rest) = Push(a, Push(b, Push(c, <<d, e>> \o rest)))
  <2>. DEFINE t == <<d, e>> \o rest
  <2>1. t \in Seq(T)
    BY <1>5
  <2>. HIDE DEF t
  <2>2. <<a, b, c>> \o t = Push(a, Push(b, Push(c, t)))
    BY <2>1, PushThree
  <2>. QED BY <2>2 DEF t
<1>. QED BY <1>1, <1>3, <1>4, <1>6, Zenon

LEMMA CallTodo ==
  /\ <<<<"id">>, <<"fields">>, <<"end">>, <<"eof">>>> \o Tail(<<<<"module">>>>) = ToId
  /\ <<<<"id">>, <<"type_use">>, <<"named", "local">>, <<"end">>, <<"fields">>>> \o ToEnd = FuncId
  /\ <<<<"named", "param">>, <<"values", "result">>, <<"end">>>> \o Locals = Params
<1>1. <<<<"id">>, <<"fields">>, <<"end">>, <<"eof">>>> \o Tail(<<<<"module">>>>) = ToId
  BY DEF ToId, ToFields, ToEnd, ToEof, Nothing, Push
<1>2. PICK a, b, c, d, e \in Step :
        a = <<"id">> /\ b = <<"type_use">> /\ c = <<"named", "local">> /\ d = <<"end">>
          /\ e = <<"fields">>
  BY DEF Step
<1>3. <<a, b, c, d, e>> \o ToEnd = FuncId
  <2>1. ToEnd \in Seq(Step)
    BY ModuleTodo
  <2>2. FuncId = Push(a, Push(b, Push(c, Push(d, Push(e, ToEnd)))))
    BY <1>2 DEF FuncId, FuncUse, Locals, FuncEnd, ToFields
  <2>3. <<a, b, c, d, e>> \o ToEnd = Push(a, Push(b, Push(c, Push(d, Push(e, ToEnd)))))
    BY <2>1, PushFive
  <2>. QED BY <2>2, <2>3
<1>4. PICK p, r \in Step : p = <<"named", "param">> /\ r = <<"values", "result">>
  BY DEF Step
<1>5. <<p, r, d>> \o Locals = Params
  <2>1. Locals \in Seq(Step)
    BY FuncTodo
  <2>2. Params = Push(p, Push(r, Push(d, Locals)))
    BY <1>2, <1>4 DEF Params, Results, UseEnd
  <2>3. <<p, r, d>> \o Locals = Push(p, Push(r, Push(d, Locals)))
    BY <2>1, PushThree
  <2>. QED BY <2>2, <2>3
<1>. QED BY <1>1, <1>2, <1>3, <1>4, <1>5

LEMMA GroupCall ==
  ASSUME NEW rest \in Seq(Step)
  PROVE  /\ <<<<"first">>, <<"end">>>> \o rest = GroupFirst(rest)
         /\ <<<<"types">>, <<"end">>>> \o rest = GroupTypes(rest)
         /\ <<<<"types">>>> \o GroupEnd(rest) = GroupTypes(rest)
<1>1. <<"end">> \in Step /\ <<"types">> \in Step /\ <<"first">> \in Step
  BY DEF Step
<1>2. <<<<"first">>, <<"end">>>> \o rest = Push(<<"first">>, Push(<<"end">>, rest))
  BY <1>1, PushTwo, Zenon
<1>3. <<<<"types">>, <<"end">>>> \o rest = Push(<<"types">>, Push(<<"end">>, rest))
  BY <1>1, PushTwo, Zenon
<1>4. <<<<"types">>>> \o GroupEnd(rest) = GroupTypes(rest)
  BY DEF GroupTypes, Push
<1>. QED BY <1>2, <1>3, <1>4 DEF GroupFirst, GroupTypes, GroupEnd

-----------------------------------------------------------------------------
(* Positions, errors and counts *)

LEMMA MinOfTwo ==
  ASSUME NEW a \in Nat, NEW b \in Nat
  PROVE  Min({a, b}) = IF a <= b THEN a ELSE b
<1>. DEFINE m == IF a <= b THEN a ELSE b
<1>1. m \in {a, b} /\ \A y \in {a, b} : m <= y
  OBVIOUS
<1>2. \A x \in {a, b} : (\A y \in {a, b} : x <= y) => x = m
  OBVIOUS
<1>. QED BY <1>1, <1>2 DEF Min

LEMMA SkipIs ==
  ASSUME tokens \in Seq(Kinds), NEW i \in 1 .. Len(tokens) + 1, NEW n \in Nat
  PROVE  /\ Skip(i, n) \in 1 .. Len(tokens) + 1
         /\ i + n <= Len(tokens) + 1 => Skip(i, n) = i + n
         /\ i + n > Len(tokens) => Skip(i, n) = Len(tokens) + 1
         /\ i <= Skip(i, n)
         /\ i <= Len(tokens) /\ n > 0 => i < Skip(i, n)
<1>1. Len(tokens) \in Nat
  OBVIOUS
<1>2. Skip(i, n) = IF i + n <= Len(tokens) + 1 THEN i + n ELSE Len(tokens) + 1
  BY <1>1, MinOfTwo DEF Skip
<1>. QED BY <1>1, <1>2

LEMMA RecoverIn ==
  ASSUME tokens \in Seq(Kinds), NEW i \in 1 .. Len(tokens) + 1
  PROVE  Recover(i) \in 1 .. Len(tokens) + 1 /\ i <= Recover(i)
<1>. DEFINE closes(j) == Cardinality({k \in i .. j : tokens[k] = ")"})
            opens(j)  == Cardinality({k \in i .. j : tokens[k] = "("})
            ends      == {j \in i .. Len(tokens) : closes(j) = opens(j) + 1}
<1>1. /\ Len(tokens) \in Nat /\ ends \in SUBSET Nat
      /\ \A j \in ends : j \in 1 .. Len(tokens) /\ i <= j
  OBVIOUS
<1>2. Recover(i) = IF ends = {} THEN Len(tokens) + 1 ELSE Min(ends) + 1
  BY DEF Recover
<1>. HIDE DEF ends
<1>3. CASE ends = {}
  BY <1>1, <1>2, <1>3
<1>4. CASE ends # {}
  <2>1. \E x \in ends : \A y \in ends : x <= y
    BY <1>1, <1>4, LeastNumber
  <2>2. Min(ends) \in ends
    BY <2>1 DEF Min
  <2>3. Min(ends) \in 1 .. Len(tokens) /\ i <= Min(ends)
    BY <1>1, <2>2
  <2>4. Recover(i) = Min(ends) + 1
    BY <1>2, <1>4
  <2>. QED BY <1>1, <2>3, <2>4
<1>. QED BY <1>3, <1>4

LEMMA ErrorsIn ==
  ASSUME errors \in 0 .. MaxErrors, Errors(1)
  PROVE  errors' \in 0 .. MaxErrors /\ errors' # 0
<1>1. MaxErrors \in Nat /\ MaxErrors # 0
  BY BoundAssumption
<1>2. errors' = IF errors + 1 <= MaxErrors THEN errors + 1 ELSE MaxErrors
  BY <1>1, MinOfTwo DEF Errors
<1>. QED BY <1>1, <1>2

LEMMA CountedNext ==
  ASSUME NEW kind, NEW n \in Nat, n >= 2
  PROVE  /\ Cardinality(Counted(kind, n)) \in Nat
         /\ Cardinality(Counted(kind, n + 1)) =
              IF tokens[n + 1] = kind /\ ~(tokens[n - 1] = "(" /\ tokens[n] = "type")
                THEN Cardinality(Counted(kind, n)) + 1
                ELSE Cardinality(Counted(kind, n))
<1>. DEFINE C == tokens[n + 1] = kind /\ ~(tokens[n - 1] = "(" /\ tokens[n] = "type")
<1>1. IsFiniteSet(Counted(kind, n))
  <2>1. IsFiniteSet(3 .. n) /\ Counted(kind, n) \subseteq 3 .. n
    BY FS_Interval DEF Counted
  <2>. QED BY <2>1, FS_Subset
<1>2. n + 1 \notin Counted(kind, n)
  BY DEF Counted
<1>3. \A i : i \in 3 .. n + 1 <=> i \in 3 .. n \/ i = n + 1
  OBVIOUS
<1>4. (n + 1) - 2 = n - 1 /\ (n + 1) - 1 = n
  OBVIOUS
<1>5. ASSUME C PROVE Counted(kind, n + 1) = Counted(kind, n) \cup {n + 1}
  BY <1>3, <1>4, <1>5 DEF Counted
<1>6. ASSUME ~C PROVE Counted(kind, n + 1) = Counted(kind, n)
  BY <1>3, <1>4, <1>6 DEF Counted
<1>7. Cardinality(Counted(kind, n)) \in Nat
  BY <1>1, FS_CardinalityType
<1>8. Cardinality(Counted(kind, n) \cup {n + 1}) = Cardinality(Counted(kind, n)) + 1
  BY <1>1, <1>2, FS_AddElement
<1>. QED BY <1>5, <1>6, <1>7, <1>8

LEMMA CountedSame ==
  ASSUME NEW kind, NEW n \in Nat, n >= 2, tokens[n + 1] # kind
  PROVE  Cardinality(Counted(kind, n + 1)) = Cardinality(Counted(kind, n))
BY CountedNext

LEMMA CountedMore ==
  ASSUME NEW kind, NEW n \in Nat, n >= 2, tokens[n + 1] = kind, tokens[n] # "type"
  PROVE  Cardinality(Counted(kind, n + 1)) = Cardinality(Counted(kind, n)) + 1
BY CountedNext

LEMMA CountedNone ==
  ASSUME NEW kind, NEW n \in 0 .. 2
  PROVE  Cardinality(Counted(kind, n)) = 0
<1>1. Counted(kind, n) = {}
  BY DEF Counted
<1>. QED BY <1>1, FS_EmptySet

\* The tokens do not change: what a primed expression says of the new position.
LEMMA Stays ==
  ASSUME tokens' = tokens
  PROVE  /\ Run' = Run
         /\ WellFormed' = WellFormed
         /\ Reached' = Run[at' - 1]
         /\ Current' = Token(at')
         /\ NextParenKind' = IF Token(at') = "(" THEN Token(at' + 1) ELSE "Invalid"
         /\ Counted("func", at - 1)' = Counted("func", at' - 1)
         /\ Counted("i32", at - 1)' = Counted("i32", at' - 1)
<1>1. Run' = Run
  BY DEF Run
<1>2. WellFormed' = WellFormed /\ Reached' = Run[at' - 1]
  BY <1>1 DEF WellFormed, Reached
<1>3. Current' = Token(at')
  BY DEF Current, Token
<1>4. NextParenKind' = IF Token(at') = "(" THEN Token(at' + 1) ELSE "Invalid"
  BY DEF NextParenKind, Current, Peek, Token
<1>5. /\ Counted("func", at - 1)' = Counted("func", at' - 1)
      /\ Counted("i32", at - 1)' = Counted("i32", at' - 1)
  BY DEF Counted
<1>. QED BY <1>1, <1>2, <1>3, <1>4, <1>5

LEMMA TokenIs ==
  ASSUME tokens \in Seq(Kinds), NEW i \in Nat, i >= 1
  PROVE  /\ i <= Len(tokens) <=> Token(i) # "Eof"
         /\ i <= Len(tokens) => Token(i) = tokens[i]
         /\ Token(i) # "Eof" => Token(i) \in Kinds
<1>1. "Eof" \notin Kinds
  BY DEF Kinds
<1>2. i <= Len(tokens) => tokens[i] \in Kinds
  OBVIOUS
<1>. QED BY <1>1, <1>2 DEF Token

-----------------------------------------------------------------------------
(* Every step *)

\* The tokens stay, every variable keeps its type, and errors are not
\* forgotten.
LEMMA TypeStep ==
  ASSUME TypeOK, tokens \in Seq(Kinds), Next
  PROVE  /\ TypeOK'
         /\ tokens' = tokens
         /\ errors # 0 => errors' # 0
<1>1. todo # <<>> /\ todo \in Seq(Step) /\ Tail(todo) \in Seq(Step)
  BY DEF Next, TypeOK
<1>2. at \in 1 .. Len(tokens) + 1 /\ errors \in 0 .. MaxErrors /\ funcs \in Nat /\ values \in Nat
  BY DEF TypeOK
<1>3. \A n \in Nat : Skip(at, n) \in 1 .. Len(tokens) + 1
  BY <1>2, SkipIs
<1>4. Recover(at) \in 1 .. Len(tokens) + 1
  BY <1>2, RecoverIn
<1>5. UNCHANGED errors \/ Errors(1) => errors' \in 0 .. MaxErrors /\ (errors # 0 => errors' # 0)
  BY <1>2, ErrorsIn
<1>6. /\ <<>> \o Tail(todo) \in Seq(Step)
      /\ <<<<"id">>, <<"fields">>, <<"end">>, <<"eof">>>> \o Tail(todo) \in Seq(Step)
      /\ <<<<"id">>, <<"type_use">>, <<"named", "local">>, <<"end">>, <<"fields">>>> \o Tail(todo)
           \in Seq(Step)
      /\ <<<<"named", "param">>, <<"values", "result">>, <<"end">>>> \o Tail(todo) \in Seq(Step)
      /\ <<<<"types">>>> \o Tail(todo) \in Seq(Step)
      /\ <<<<"types">>, <<"end">>>> \o todo \in Seq(Step)
      /\ <<<<"first">>, <<"end">>>> \o todo \in Seq(Step)
  <2>1. \A s \in Seq(Step) : s \o Tail(todo) \in Seq(Step) /\ s \o todo \in Seq(Step)
    BY <1>1
  <2>2. /\ <<>> \in Seq(Step)
        /\ <<<<"id">>, <<"fields">>, <<"end">>, <<"eof">>>> \in Seq(Step)
        /\ <<<<"named", "param">>, <<"values", "result">>, <<"end">>>> \in Seq(Step)
        /\ <<<<"types">>>> \in Seq(Step)
        /\ <<<<"types">>, <<"end">>>> \in Seq(Step)
        /\ <<<<"first">>, <<"end">>>> \in Seq(Step)
    BY DEF Step
  <2>3. <<<<"id">>, <<"type_use">>, <<"named", "local">>, <<"end">>, <<"fields">>>> \in Seq(Step)
    BY DEF Step
  <2>. QED BY <2>1, <2>2, <2>3
<1>. DEFINE Good == /\ at' \in 1 .. Len(tokens) + 1 /\ (UNCHANGED errors \/ Errors(1))
                    /\ todo' \in Seq(Step) /\ funcs' \in Nat /\ values' \in Nat
                    /\ tokens' = tokens
<1>7. SUFFICES Good
  BY <1>5 DEF TypeOK
<1>8. CASE Module
  BY <1>2, <1>3, <1>4, <1>6, <1>8 DEF Module, Then
<1>9. CASE Id
  BY <1>2, <1>3, <1>6, <1>9 DEF Id, Then
<1>10. CASE Func
  BY <1>2, <1>3, <1>6, <1>10 DEF Func, Then
<1>11. CASE InvalidField
  BY <1>1, <1>2, <1>11 DEF InvalidField
<1>12. CASE FieldsEnd
  BY <1>2, <1>6, <1>12 DEF FieldsEnd, Then
<1>13. CASE TypeUse
  BY <1>2, <1>3, <1>6, <1>13 DEF TypeUse, Then
<1>14. CASE NoTypeUse
  BY <1>2, <1>6, <1>14 DEF NoTypeUse, Then
<1>15. CASE ListBegin
  BY <1>2, <1>3, <1>6, <1>15 DEF ListBegin
<1>16. CASE ListEnd
  BY <1>2, <1>6, <1>16 DEF ListEnd, Then
<1>17. CASE First
  <2>. DEFINE named == Current = "id"
              i     == IF named THEN Skip(at, 1) ELSE at
  <2>1. i \in 1 .. Len(tokens) + 1
    BY <1>2, <1>3
  <2>2. Skip(i, 1) \in 1 .. Len(tokens) + 1
    BY <2>1, SkipIs
  <2>3. CASE Token(i) = ")"
    BY <1>2, <1>6, <1>17, <2>1, <2>3 DEF First, Then
  <2>4. CASE Token(i) # ")"
    <3>1. ValueType(i) /\ Then(IF named THEN <<>> ELSE <<<<"types">>>>)
          /\ UNCHANGED <<tokens, funcs>>
      BY <1>17, <2>4 DEF First
    <3>. HIDE DEF i
    <3>2. at' = Skip(i, 1) /\ values' = values + 1 /\ (UNCHANGED errors \/ Errors(1))
      BY <3>1 DEF ValueType
    <3>3. todo' \in Seq(Step)
      BY <1>6, <3>1 DEF Then
    <3>. QED BY <1>2, <2>2, <3>1, <3>2, <3>3
  <2>. QED BY <2>3, <2>4
<1>18. CASE Types
  BY <1>1, <1>2, <1>3, <1>18 DEF Types, ValueType
<1>19. CASE TypesEnd
  BY <1>2, <1>6, <1>19 DEF TypesEnd, Then
<1>20. CASE End
  BY <1>2, <1>3, <1>4, <1>6, <1>20 DEF End, Then
<1>21. CASE Eof
  BY <1>2, <1>6, <1>21 DEF Eof, Then
<1>. QED BY <1>8, <1>9, <1>10, <1>11, <1>12, <1>13, <1>14, <1>15, <1>16, <1>17, <1>18,
            <1>19, <1>20, <1>21 DEF Next

-----------------------------------------------------------------------------
(* Taking tokens *)

LEMMA TakeOne ==
  ASSUME TypeOK, tokens \in Seq(Kinds), Current # "Eof"
  PROVE  /\ Skip(at, 1) = at + 1
         /\ Run[at] = After(Reached, Current)
         /\ tokens[at] = Current /\ Current \in Kinds
         /\ at \in Nat /\ at >= 1 /\ at + 1 \in 1 .. Len(tokens) + 1
<1>1. at \in Nat /\ at >= 1 /\ at \in 1 .. Len(tokens) + 1 /\ Len(tokens) \in Nat
  BY DEF TypeOK
<1>2. at <= Len(tokens) /\ tokens[at] = Current /\ Current \in Kinds
  BY <1>1, TokenIs DEF Current
<1>3. Run[at] = After(Run[at - 1], tokens[at])
  BY <1>1, <1>2, RunIs
<1>. QED BY <1>1, <1>2, <1>3, SkipIs DEF Reached

LEMMA TakeTwo ==
  ASSUME TypeOK, tokens \in Seq(Kinds), Current # "Eof", Peek # "Eof"
  PROVE  /\ Skip(at, 2) = at + 2
         /\ Run[at + 1] = After(After(Reached, Current), Peek)
         /\ tokens[at + 1] = Peek /\ Peek \in Kinds
         /\ at + 2 \in 1 .. Len(tokens) + 1
<1>1. at \in Nat /\ at >= 1 /\ at \in 1 .. Len(tokens) + 1 /\ Len(tokens) \in Nat
  BY DEF TypeOK
<1>2. at + 1 <= Len(tokens) /\ tokens[at + 1] = Peek /\ Peek \in Kinds
  BY <1>1, TokenIs DEF Peek
<1>3. (at + 1) - 1 = at /\ at + 1 \in 1 .. Len(tokens)
  BY <1>1, <1>2
<1>4. Run[at + 1] = After(Run[at], tokens[at + 1])
  BY <1>3, RunIs
<1>5. Run[at] = After(Reached, Current)
  BY TakeOne
<1>6. at + 2 \in 1 .. Len(tokens) + 1
  BY <1>1, <1>2
<1>7. Skip(at, 2) = at + 2
  BY <1>1, <1>6, SkipIs
<1>. QED BY <1>2, <1>4, <1>5, <1>6, <1>7

LEMMA MalformedHere ==
  ASSUME TypeOK, tokens \in Seq(Kinds), After(Reached, Current) = {},
         "accept" \notin Reached \/ Current # "Eof"
  PROVE  ~WellFormed
<1>1. at - 1 \in 0 .. Len(tokens) /\ (at - 1) + 1 = at
  BY DEF TypeOK
<1>. QED BY <1>1, Malformed DEF Reached, Current

LEMMA MalformedNext ==
  ASSUME TypeOK, tokens \in Seq(Kinds), Current # "Eof",
         After(After(Reached, Current), Peek) = {}, "accept" \notin After(Reached, Current)
  PROVE  ~WellFormed
<1>1. Run[at] = After(Reached, Current) /\ at \in 0 .. Len(tokens)
  BY TakeOne
<1>. QED BY <1>1, Malformed DEF Peek

LEMMA KeptStays ==
  ASSUME Kept, tokens' = tokens, at' = at, funcs' = funcs, values' = values, at >= 3
  PROVE  Kept'
BY Stays DEF Kept

LEMMA KeptOther ==
  ASSUME TypeOK, tokens \in Seq(Kinds), Kept, at >= 3, tokens' = tokens, at' = at + 1,
         Current \notin {"func", "i32", "Eof"}, funcs' = funcs, values' = values
  PROVE  Kept'
<1>1. at \in Nat /\ tokens[at] = Current
  BY TakeOne
<1>2. at - 1 \in Nat /\ at - 1 >= 2 /\ (at - 1) + 1 = at /\ at' - 1 = at /\ at' >= 3
  BY <1>1
<1>3. \A k \in {"func", "i32"} : Cardinality(Counted(k, at)) = Cardinality(Counted(k, at - 1))
  BY <1>1, <1>2, CountedNext
<1>. QED BY <1>2, <1>3, Stays DEF Kept

LEMMA KeptType ==
  ASSUME TypeOK, tokens \in Seq(Kinds), Kept, at >= 3, tokens' = tokens, at' = at + 1,
         Current = "i32", tokens[at - 1] # "type", funcs' = funcs, values' = values + 1
  PROVE  Kept'
<1>1. at \in Nat /\ tokens[at] = Current
  BY TakeOne
<1>2. at - 1 \in Nat /\ at - 1 >= 2 /\ (at - 1) + 1 = at /\ at' - 1 = at /\ at' >= 3
  BY <1>1
<1>3. Cardinality(Counted("func", at)) = Cardinality(Counted("func", at - 1))
  <2>1. PICK n \in Nat : n = at - 1
    BY <1>2
  <2>2. n >= 2 /\ n + 1 = at /\ tokens[n + 1] # "func"
    BY <1>1, <1>2, <2>1
  <2>3. Cardinality(Counted("func", n + 1)) = Cardinality(Counted("func", n))
    BY <2>2, CountedSame
  <2>. QED BY <2>1, <2>2, <2>3
<1>4. Cardinality(Counted("i32", at)) = Cardinality(Counted("i32", at - 1)) + 1
  <2>1. PICK n \in Nat : n = at - 1
    BY <1>2
  <2>2. n >= 2 /\ n + 1 = at /\ tokens[n + 1] = "i32" /\ tokens[n] # "type"
    BY <1>1, <1>2, <2>1
  <2>3. Cardinality(Counted("i32", n + 1)) = Cardinality(Counted("i32", n)) + 1
    BY <2>2, CountedMore
  <2>. QED BY <2>1, <2>2, <2>3
<1>. QED BY <1>2, <1>3, <1>4, Stays DEF Kept

\* A parenthesis and what the parser looked for behind it.
LEMMA PairCounted ==
  ASSUME TypeOK, tokens \in Seq(Kinds), at >= 3, Current = "(", Peek # "Eof"
  PROVE  /\ Cardinality(Counted("func", at + 1)) =
              Cardinality(Counted("func", at - 1)) + (IF Peek = "func" THEN 1 ELSE 0)
         /\ Peek # "i32" =>
              Cardinality(Counted("i32", at + 1)) = Cardinality(Counted("i32", at - 1))
<1>1. at \in Nat /\ tokens[at] = "(" /\ tokens[at + 1] = Peek
  BY TakeOne, TakeTwo
<1>2. PICK n \in Nat : n = at - 1
  BY <1>1
<1>3. n >= 2 /\ n + 1 = at /\ at >= 2
  BY <1>1, <1>2
<1>4. tokens[n + 1] # "func" /\ tokens[n + 1] # "i32" /\ tokens[at] # "type"
  BY <1>1, <1>3
<1>5. /\ Cardinality(Counted("func", n + 1)) = Cardinality(Counted("func", n))
      /\ Cardinality(Counted("i32", n + 1)) = Cardinality(Counted("i32", n))
      /\ Cardinality(Counted("func", n)) \in Nat
  BY <1>3, <1>4, CountedSame, CountedNext
<1>6. Peek = "func" => Cardinality(Counted("func", at + 1)) = Cardinality(Counted("func", at)) + 1
  BY <1>1, <1>3, <1>4, CountedMore
<1>7. Peek # "func" => Cardinality(Counted("func", at + 1)) = Cardinality(Counted("func", at))
  BY <1>1, <1>3, CountedSame
<1>8. Peek # "i32" => Cardinality(Counted("i32", at + 1)) = Cardinality(Counted("i32", at))
  BY <1>1, <1>3, CountedSame
<1>. QED BY <1>2, <1>3, <1>5, <1>6, <1>7, <1>8

LEMMA KeptPair ==
  ASSUME TypeOK, tokens \in Seq(Kinds), Kept, at >= 3, tokens' = tokens, at' = at + 2,
         Current = "(", Peek \notin {"i32", "Eof"}, values' = values,
         funcs' = funcs + (IF Peek = "func" THEN 1 ELSE 0)
  PROVE  Kept'
<1>1. at' - 1 = at + 1 /\ at' >= 3
  BY TakeOne
<1>. QED BY <1>1, PairCounted, Stays DEF Kept

-----------------------------------------------------------------------------
(* The steps of a file without an error so far *)

\* Where the parser is, by what it does next.
LEMMA Dispatch ==
  ASSUME Where, todo # <<>>
  PROVE  /\ Head(todo) = <<"module">> => AtModule
         /\ Head(todo) = <<"id">> => AtId \/ AtFuncId
         /\ Head(todo) = <<"fields">> => AtFields
         /\ Head(todo) = <<"type_use">> => AtFuncUse
         /\ Head(todo) = <<"named", "local">> => AtLocals
         /\ Head(todo) = <<"named", "param">> => AtParams
         /\ Head(todo) = <<"values", "result">> => AtResults
         /\ Head(todo) = <<"first">> => AtFirst(Locals, "local") \/ AtFirst(Params, "param")
         /\ Head(todo) = <<"types">> => \/ AtTypes(Locals, "local_more")
                                        \/ AtTypes(Params, "param_more")
                                        \/ AtTypes(Results, "result_more")
         /\ Head(todo) = <<"end">> => \/ AtEnd \/ AtFuncEnd \/ AtUseEnd
                                      \/ AtClose(Locals, "locals") \/ AtClose(Params, "params")
                                      \/ AtClose(Results, "results")
         /\ Head(todo) = <<"eof">> => AtEof
<1>. DEFINE P(x) == Head(todo) = x
<1>1. /\ AtModule => P(<<"module">>)
      /\ AtId => P(<<"id">>)
      /\ AtFields => P(<<"fields">>)
      /\ AtEnd => P(<<"end">>)
      /\ AtEof => P(<<"eof">>)
      /\ ~AtNothing
  BY ModuleTodo DEF AtModule, AtId, AtFields, AtEnd, AtEof, AtNothing, Nothing
<1>2. /\ AtFuncId => P(<<"id">>)
      /\ AtFuncUse => P(<<"type_use">>)
      /\ AtLocals => P(<<"named", "local">>)
      /\ AtFuncEnd => P(<<"end">>)
  BY FuncTodo DEF AtFuncId, AtFuncUse, AtLocals, AtFuncEnd
<1>3. /\ AtParams => P(<<"named", "param">>)
      /\ AtResults => P(<<"values", "result">>)
      /\ AtUseEnd => P(<<"end">>)
  BY UseTodo DEF AtParams, AtResults, AtUseEnd
<1>4. ASSUME NEW rest \in Seq(Step), NEW q
      PROVE  /\ AtFirst(rest, q) => P(<<"first">>)
             /\ AtTypes(rest, q) => P(<<"types">>)
             /\ AtClose(rest, q) => P(<<"end">>)
  BY GroupTodo DEF AtFirst, AtTypes, AtClose
<1>5. Locals \in Seq(Step) /\ Params \in Seq(Step) /\ Results \in Seq(Step)
  BY FuncTodo, UseTodo
<1>6. /\ AtFirst(Locals, "local") \/ AtFirst(Params, "param") => P(<<"first">>)
      /\ \/ AtTypes(Locals, "local_more") \/ AtTypes(Params, "param_more")
         \/ AtTypes(Results, "result_more")
         => P(<<"types">>)
      /\ \/ AtClose(Locals, "locals") \/ AtClose(Params, "params")
         \/ AtClose(Results, "results")
         => P(<<"end">>)
  BY <1>4, <1>5
<1>. QED BY <1>1, <1>2, <1>3, <1>6 DEF Where, InModule, InFunc, InUse, InGroup

\* What a step has to achieve: no error and the right place, or an error in a
\* malformed file.
Right == (errors' = 0 /\ Where' /\ Kept') \/ (errors' # 0 /\ ~WellFormed)

\* Only the beginning of the module is before the third token.
LEMMA Inside ==
  ASSUME Kept, Head(todo) # <<"module">>
  PROVE  at >= 3
BY DEF Kept

LEMMA ClosesStays ==
  ASSUME NEW q, Closes(q), tokens' = tokens, at' = at
  PROVE  Closes(q)'
BY Stays DEF Closes, Reached, Current

LEMMA IdStep ==
  ASSUME TypeOK, tokens \in Seq(Kinds), errors = 0, Where, Kept, todo # <<>>, Id
  PROVE  Right
<1>1. /\ Head(todo) = <<"id">> /\ todo' = Tail(todo) /\ errors' = 0 /\ tokens' = tokens
      /\ funcs' = funcs /\ values' = values
      /\ at' = IF Current = "id" THEN Skip(at, 1) ELSE at
  BY DEF Id, Then, TypeOK
<1>2. AtId \/ AtFuncId
  BY <1>1, Dispatch
<1>3. at >= 3
  BY <1>1, Inside
<1>4. Kept'
  <2>1. CASE Current = "id"
    BY <1>1, <1>3, <2>1, TakeOne, KeptOther
  <2>2. CASE Current # "id"
    BY <1>1, <1>3, <2>2, KeptStays
  <2>. QED BY <2>1, <2>2
<1>5. CASE AtId
  <2>1. todo' = ToFields
    BY <1>1, <1>5, ModuleTodo DEF AtId
  <2>2. CASE Current = "id"
    <3>1. at' = at + 1 /\ Run[at] = After({"module", "fields"}, "id")
      BY <1>1, <1>5, <2>2, TakeOne DEF AtId
    <3>2. Run[at' - 1] = {"fields"}
      BY <3>1, AfterModule, TakeOne, <2>2
    <3>. QED BY <1>1, <1>4, <2>1, <3>2, Stays DEF Right, Where, InModule, AtFields
  <2>3. CASE Current # "id"
    <3>1. Run[at' - 1] = {"module", "fields"} /\ Token(at') # "id"
      BY <1>1, <1>5, <2>3 DEF AtId, Reached, Current
    <3>. QED BY <1>1, <1>4, <2>1, <3>1, Stays DEF Right, Where, InModule, AtFields
  <2>. QED BY <2>2, <2>3
<1>6. CASE AtFuncId
  <2>1. todo' = FuncUse
    BY <1>1, <1>6, FuncTodo DEF AtFuncId
  <2>2. CASE Current = "id"
    <3>1. at' = at + 1 /\ Run[at] = After({"func", "use", "locals"}, "id")
      BY <1>1, <1>6, <2>2, TakeOne DEF AtFuncId
    <3>2. Run[at' - 1] = {"use", "locals"}
      BY <3>1, AfterFunc, TakeOne, <2>2
    <3>. QED BY <1>1, <1>4, <2>1, <3>2, Stays DEF Right, Where, InFunc, AtFuncUse, BeforeUse
  <2>3. CASE Current # "id"
    <3>1. Run[at' - 1] = {"func", "use", "locals"} /\ Token(at') # "id"
      BY <1>1, <1>6, <2>3 DEF AtFuncId, Reached, Current
    <3>. QED BY <1>1, <1>4, <2>1, <3>1, Stays DEF Right, Where, InFunc, AtFuncUse, BeforeUse
  <2>. QED BY <2>2, <2>3
<1>. QED BY <1>2, <1>5, <1>6


LEMMA ModuleStep ==
  ASSUME TypeOK, tokens \in Seq(Kinds), errors = 0, Where, Kept, todo # <<>>, Module
  PROVE  Right
<1>1. AtModule
  BY Dispatch DEF Module
<1>2. Reached = {"begin"} /\ todo = <<<<"module">>>> /\ at = 1
  BY <1>1, RunIs DEF AtModule, Reached
<1>3. CASE Current = "(" /\ Peek = "module"
  <2>1. /\ at' = 3 /\ todo' = ToId /\ errors' = 0 /\ tokens' = tokens
        /\ funcs' = funcs /\ values' = values
    <3>1. at' = 3
      BY <1>2, <1>3, TakeTwo DEF Module
    <3>2. todo' = <<<<"id">>, <<"fields">>, <<"end">>, <<"eof">>>> \o Tail(todo)
      BY <1>3 DEF Module, Then
    <3>3. todo' = ToId
      BY <1>2, <3>2, CallTodo, Zenon
    <3>. QED BY <1>3, <3>1, <3>3 DEF Module
  <2>2. Run[at' - 1] = After(After({"begin"}, "("), "module")
    BY <1>2, <1>3, <2>1, TakeTwo
  <2>3. Run[at' - 1] = {"module", "fields"}
    BY <2>2, AfterModule
  <2>4. \A k \in {"func", "i32"} : /\ Cardinality(Counted(k, at' - 1)) = 0
                                   /\ Cardinality(Counted(k, at - 1)) = 0
    BY <1>2, <2>1, CountedNone
  <2>5. Kept'
    BY <2>1, <2>4, Stays DEF Kept
  <2>. QED BY <2>1, <2>3, <2>5, Stays DEF Right, Where, InModule, AtId
<1>4. CASE ~(Current = "(" /\ Peek = "module")
  <2>1. errors' # 0
    BY <1>4, ErrorsIn DEF Module, TypeOK
  <2>2. ~WellFormed
    <3>1. CASE Current = "("
      <4>1. After(Reached, Current) = {"(begin"} /\ After({"(begin"}, Peek) = {}
        BY <1>2, <1>4, <3>1, AfterModule
      <4>. QED BY <3>1, <4>1, MalformedNext
    <3>2. CASE Current # "("
      <4>1. After(Reached, Current) = {} /\ "accept" \notin Reached
        BY <1>2, <3>2, AfterModule
      <4>. QED BY <4>1, MalformedHere
    <3>. QED BY <3>1, <3>2
  <2>. QED BY <2>1, <2>2 DEF Right
<1>. QED BY <1>3, <1>4

LEMMA FuncStep ==
  ASSUME TypeOK, tokens \in Seq(Kinds), errors = 0, Where, Kept, todo # <<>>, Func
  PROVE  Right
<1>1. AtFields /\ at >= 3
  BY Dispatch, Inside DEF Func
<1>2. Current = "(" /\ Peek = "func"
  BY DEF Func, NextParenKind
<1>3. /\ at' = at + 2 /\ todo' = FuncId /\ errors' = 0 /\ tokens' = tokens
      /\ funcs' = funcs + 1 /\ values' = values
  BY <1>1, <1>2, CallTodo, ModuleTodo, TakeTwo DEF Func, Then, AtFields
<1>4. Kept'
  BY <1>1, <1>2, <1>3, KeptPair
<1>5. After(Reached, "(") = {"(fields"}
  BY <1>1, AfterModule DEF AtFields
<1>6. Run[at' - 1] = {"func", "use", "locals"}
  <2>1. at' - 1 = at + 1
    BY <1>2, <1>3, TakeOne
  <2>. QED BY <1>2, <1>5, <2>1, TakeTwo, AfterModule
<1>. QED BY <1>3, <1>4, <1>6, Stays DEF Right, Where, InFunc, AtFuncId

LEMMA InvalidFieldStep ==
  ASSUME TypeOK, tokens \in Seq(Kinds), errors = 0, Where, Kept, todo # <<>>, InvalidField
  PROVE  Right
<1>1. AtFields
  BY Dispatch DEF InvalidField
<1>2. Current = "(" /\ Peek # "func" /\ errors' # 0
  BY ErrorsIn DEF InvalidField, TypeOK
<1>3. After(Reached, Current) = {"(fields"} /\ After({"(fields"}, Peek) = {}
  BY <1>1, <1>2, AfterModule DEF AtFields
<1>4. ~WellFormed
  BY <1>2, <1>3, MalformedNext
<1>. QED BY <1>2, <1>4 DEF Right

LEMMA FieldsEndStep ==
  ASSUME TypeOK, tokens \in Seq(Kinds), errors = 0, Where, Kept, todo # <<>>, FieldsEnd
  PROVE  Right
<1>1. AtFields /\ at >= 3
  BY Dispatch, Inside DEF FieldsEnd
<1>2. /\ at' = at /\ todo' = ToEnd /\ errors' = 0 /\ tokens' = tokens
      /\ funcs' = funcs /\ values' = values /\ Current # "("
  BY <1>1, ModuleTodo DEF FieldsEnd, Then, AtFields
<1>3. Closes("accept")
  <2>1. Current = ")" => After(Reached, ")") = {"accept"}
    BY <1>1, AfterModule DEF AtFields
  <2>2. Current # ")" => After(Reached, Current) = {} /\ "accept" \notin Reached
    <3>1. CASE Reached = {"fields"}
      BY <1>2, <3>1, AfterModule
    <3>2. CASE Reached = {"module", "fields"} /\ Current # "id"
      BY <1>2, <3>2, AfterModule
    <3>. QED BY <1>1, <3>1, <3>2 DEF AtFields
  <2>. QED BY <2>1, <2>2, MalformedHere DEF Closes
<1>4. Closes("accept")' /\ Kept'
  BY <1>1, <1>2, <1>3, ClosesStays, KeptStays
<1>. QED BY <1>2, <1>4 DEF Right, Where, InModule, AtEnd

LEMMA EofStep ==
  ASSUME TypeOK, tokens \in Seq(Kinds), errors = 0, Where, Kept, todo # <<>>, Eof
  PROVE  Right
<1>1. AtEof /\ at >= 3
  BY Dispatch, Inside DEF Eof
<1>2. Reached = {"accept"} /\ todo' = Nothing /\ tokens' = tokens /\ at' = at
      /\ funcs' = funcs /\ values' = values
  BY <1>1, ModuleTodo DEF Eof, Then, AtEof
<1>3. CASE Current = "Eof"
  <2>1. errors' = 0
    BY <1>3 DEF Eof
  <2>2. at = Len(tokens) + 1
    BY <1>3, TokenIs DEF Current, TypeOK
  <2>3. Kept'
    BY <1>1, <1>2, KeptStays
  <2>4. Reached' = {"accept"}
    BY <1>2, Stays DEF Reached
  <2>. QED BY <1>2, <2>1, <2>2, <2>3, <2>4 DEF Right, Where, InModule, AtNothing
<1>4. CASE Current # "Eof"
  <2>1. errors' # 0
    BY <1>4, ErrorsIn DEF Eof, TypeOK
  <2>2. After(Reached, Current) = {}
    BY <1>2, AfterModule
  <2>. QED BY <1>4, <2>1, <2>2, MalformedHere DEF Right
<1>. QED BY <1>3, <1>4


LEMMA TypeUseStep ==
  ASSUME TypeOK, tokens \in Seq(Kinds), errors = 0, Where, Kept, todo # <<>>, TypeUse
  PROVE  Right
<1>1. AtFuncUse /\ at >= 3
  BY Dispatch, Inside DEF TypeUse
<1>2. Current = "(" /\ Peek = "type"
  BY DEF TypeUse, NextParenKind
<1>3. /\ todo' = Params /\ tokens' = tokens /\ funcs' = funcs /\ values' = values
      /\ at' = Skip(at, 3)
  <2>1. todo' = <<<<"named", "param">>, <<"values", "result">>, <<"end">>>> \o Tail(todo)
    BY DEF TypeUse, Then
  <2>2. Tail(todo) = Locals
    BY <1>1, FuncTodo DEF AtFuncUse
  <2>3. todo' = Params
    BY <2>1, <2>2, CallTodo, Zenon
  <2>. QED BY <2>3 DEF TypeUse
<1>4. /\ Skip(at, 2) = at + 2 /\ tokens[at + 1] = "type" /\ tokens[at] = "(" /\ at \in Nat
      /\ at + 2 \in 1 .. Len(tokens) + 1 /\ Len(tokens) \in Nat
  BY <1>2, TakeOne, TakeTwo
<1>5. Run[at + 1] = {"index"}
  <2>1. After(Reached, "(") = {"(use", "(locals"}
    BY <1>1, AfterFunc DEF AtFuncUse, BeforeUse
  <2>2. After({"(use", "(locals"}, "type") = {"index"}
    BY AfterFunc
  <2>. QED BY <1>2, <2>1, <2>2, TakeTwo
<1>6. \A k \in {"func", "i32"} :
        /\ Cardinality(Counted(k, at + 1)) = Cardinality(Counted(k, at - 1))
        /\ Cardinality(Counted(k, at + 2)) = Cardinality(Counted(k, at - 1))
  <2>1. Cardinality(Counted("func", at - 1)) \in Nat
    <3>1. at - 1 \in Nat /\ at - 1 >= 2
      BY <1>1, <1>4
    <3>. QED BY <3>1, CountedNext
  <2>2. \A k \in {"func", "i32"} : Cardinality(Counted(k, at + 1)) = Cardinality(Counted(k, at - 1))
    BY <1>1, <1>2, <2>1, PairCounted
  <2>3. PICK n \in Nat : n = at + 1
    BY <1>4
  <2>4. /\ n >= 2 /\ n - 1 = at /\ n + 1 = at + 2
        /\ tokens[n - 1] = "(" /\ tokens[n] = "type"
    BY <1>1, <1>4, <2>3
  <2>5. \A k \in {"func", "i32"} : Cardinality(Counted(k, n + 1)) = Cardinality(Counted(k, n))
    BY <2>4, CountedNext
  <2>. QED BY <2>2, <2>3, <2>4, <2>5
<1>7. CASE Token(at + 2) = "Eof"
  <2>1. at + 2 = Len(tokens) + 1
    BY <1>4, <1>7, TokenIs
  <2>2. at' = at + 2
    BY <1>3, <1>4, <2>1, SkipIs DEF TypeOK
  <2>3. Run[at' - 1] = {"index"} /\ at' - 1 = at + 1 /\ at' >= 3
    BY <1>1, <1>4, <1>5, <2>2
  <2>4. errors' = 0
    BY <1>4, <1>7 DEF TypeUse
  <2>5. Kept'
    BY <1>3, <1>6, <2>3, Stays DEF Kept
  <2>6. AtParams'
    BY <1>3, <2>1, <2>2, <2>3, Stays DEF AtParams, NoIndex
  <2>. QED BY <2>4, <2>5, <2>6 DEF Right, Where, InUse
<1>8. CASE Token(at + 2) # "Eof"
  <2>1. /\ at + 2 <= Len(tokens) /\ Token(at + 2) = tokens[at + 2] /\ Token(at + 2) \in Kinds
    BY <1>4, <1>8, TokenIs
  <2>2. at' = at + 3
    BY <1>3, <1>4, <2>1, SkipIs DEF TypeOK
  <2>3. Run[at + 2] = After({"index"}, Token(at + 2))
    <3>1. at + 2 \in 1 .. Len(tokens) /\ (at + 2) - 1 = at + 1
      BY <1>4, <2>1
    <3>. QED BY <1>5, <2>1, <3>1, RunIs
  <2>4. CASE Token(at + 2) = "big"
    <3>1. errors' # 0
      BY <1>4, <2>4, ErrorsIn DEF TypeUse, TypeOK
    <3>2. Run[at + 2] = {} /\ at + 2 \in 0 .. Len(tokens)
      BY <1>4, <2>1, <2>3, <2>4, AfterUse
    <3>. QED BY <3>1, <3>2, RunDies DEF Right
  <2>5. CASE Token(at + 2) # "big"
    <3>1. errors' = 0
      BY <1>4, <2>5 DEF TypeUse
    <3>2. Run[at' - 1] = {"params"} /\ at' - 1 = at + 2 /\ at' >= 3
      BY <1>1, <1>4, <2>1, <2>2, <2>3, <2>5, AfterUse
    <3>3. Kept'
      BY <1>3, <1>6, <3>2, Stays DEF Kept
    <3>4. AtParams'
      BY <1>3, <3>2, Stays DEF AtParams
    <3>. QED BY <3>1, <3>3, <3>4 DEF Right, Where, InUse
  <2>. QED BY <2>4, <2>5
<1>. QED BY <1>7, <1>8

LEMMA NoTypeUseStep ==
  ASSUME TypeOK, tokens \in Seq(Kinds), errors = 0, Where, Kept, todo # <<>>, NoTypeUse
  PROVE  Right
<1>1. AtFuncUse /\ at >= 3
  BY Dispatch, Inside DEF NoTypeUse
<1>2. /\ todo' = Locals /\ tokens' = tokens /\ funcs' = funcs /\ values' = values
      /\ at' = at /\ errors' = 0 /\ NextParenKind # "type"
  BY <1>1, FuncTodo DEF NoTypeUse, Then, AtFuncUse
<1>3. Kept'
  BY <1>1, <1>2, KeptStays
<1>4. BeforeUse' /\ NextParenKind' # "type"
  <2>1. Reached' = Reached /\ Current' = Current /\ NextParenKind' = NextParenKind
    BY <1>2, Stays DEF Reached, Current, NextParenKind, Peek
  <2>. QED BY <1>1, <1>2, <2>1 DEF AtFuncUse, BeforeUse
<1>. QED BY <1>2, <1>3, <1>4 DEF Right, Where, InFunc, AtLocals

LEMMA EndStep ==
  ASSUME TypeOK, tokens \in Seq(Kinds), errors = 0, Where, Kept, todo # <<>>, End
  PROVE  Right
<1>1. Head(todo) = <<"end">> /\ at >= 3
  BY Inside DEF End
<1>2. PICK q : /\ Closes(q)
               /\ \/ AtEnd /\ q = "accept"
                  \/ AtFuncEnd /\ q = "fields"
                  \/ (AtUseEnd \/ AtClose(Locals, "locals")) /\ q = "locals"
                  \/ AtClose(Params, "params") /\ q = "params"
                  \/ AtClose(Results, "results") /\ q = "results"
  BY <1>1, Dispatch DEF AtEnd, AtFuncEnd, AtUseEnd, AtClose
<1>3. todo' = Tail(todo) /\ tokens' = tokens /\ funcs' = funcs /\ values' = values
  BY DEF End, Then, TypeOK
<1>4. CASE Current = ")"
  <2>1. at' = at + 1 /\ errors' = 0 /\ at \in Nat
    BY <1>4, TakeOne DEF End
  <2>2. Kept'
    BY <1>1, <1>3, <1>4, <2>1, KeptOther
  <2>3. Reached' = {q}
    <3>1. After(Reached, ")") = {q}
      BY <1>2, <1>4 DEF Closes
    <3>2. Run[at] = {q} /\ at' - 1 = at
      BY <1>4, <2>1, <3>1, TakeOne
    <3>. QED BY <1>3, <3>2, Stays
  <2>4. CASE AtEnd /\ q = "accept"
    <3>1. todo' = ToEof
      BY <1>3, <2>4, ModuleTodo DEF AtEnd
    <3>. QED BY <2>1, <2>2, <2>3, <2>4, <3>1 DEF Right, Where, InModule, AtEof
  <2>5. CASE AtFuncEnd /\ q = "fields"
    <3>1. todo' = ToFields
      BY <1>3, <2>5, FuncTodo DEF AtFuncEnd
    <3>. QED BY <2>1, <2>2, <2>3, <2>5, <3>1 DEF Right, Where, InModule, AtFields
  <2>6. CASE (AtUseEnd \/ AtClose(Locals, "locals")) /\ q = "locals"
    <3>1. Tail(UseEnd) = Locals /\ Tail(GroupEnd(Locals)) = Locals
      BY UseTodo, FuncTodo, GroupTodo
    <3>2. todo' = Locals
      BY <1>3, <2>6, <3>1 DEF AtUseEnd, AtClose
    <3>. QED BY <2>1, <2>2, <2>3, <2>6, <3>2 DEF Right, Where, InFunc, AtLocals
  <2>7. CASE AtClose(Params, "params") /\ q = "params"
    <3>1. Tail(GroupEnd(Params)) = Params
      BY UseTodo, GroupTodo
    <3>2. todo' = Params
      BY <1>3, <2>7, <3>1 DEF AtClose
    <3>. QED BY <2>1, <2>2, <2>3, <2>7, <3>2 DEF Right, Where, InUse, AtParams
  <2>8. CASE AtClose(Results, "results") /\ q = "results"
    <3>1. Tail(GroupEnd(Results)) = Results
      BY UseTodo, GroupTodo
    <3>2. todo' = Results
      BY <1>3, <2>8, <3>1 DEF AtClose
    <3>. QED BY <2>1, <2>2, <2>3, <2>8, <3>2 DEF Right, Where, InUse, AtResults
  <2>. QED BY <1>2, <2>4, <2>5, <2>6, <2>7, <2>8
<1>5. CASE Current # ")"
  <2>1. errors' # 0
    BY <1>5, ErrorsIn DEF End, TypeOK
  <2>. QED BY <1>2, <1>5, <2>1 DEF Right, Closes
<1>. QED BY <1>4, <1>5


\* Which list the parser is in.
LEMMA Listing ==
  ASSUME TypeOK, Where, todo # <<>>, NEW keyword,
         Head(todo) \in {<<"named", keyword>>, <<"values", keyword>>}
  PROVE  \/ AtLocals /\ keyword = "local"
         \/ AtParams /\ keyword = "param"
         \/ AtResults /\ keyword = "result"
<1>1. Head(todo) \in Step
  BY DEF TypeOK
<1>2. Head(todo) \in {<<"named", "local">>, <<"named", "param">>, <<"values", "result">>}
  BY <1>1 DEF Step
<1>3. \/ Head(todo) = <<"named", "local">> /\ keyword = "local"
      \/ Head(todo) = <<"named", "param">> /\ keyword = "param"
      \/ Head(todo) = <<"values", "result">> /\ keyword = "result"
  BY <1>2
<1>. QED BY <1>3, Dispatch

\* A group begins: an identifier or value types come next.
LEMMA ListBeginStep ==
  ASSUME TypeOK, tokens \in Seq(Kinds), errors = 0, Where, Kept, todo # <<>>, ListBegin
  PROVE  Right
<1>1. PICK keyword \in Keywords :
        /\ ListOf(keyword)
        /\ NextParenKind = keyword
        /\ at' = Skip(at, 2)
        /\ todo' = <<IF Head(todo)[1] = "named" THEN <<"first">> ELSE <<"types">>, <<"end">>>>
                   \o todo
        /\ UNCHANGED <<tokens, errors, funcs, values>>
  BY DEF ListBegin
<1>2. keyword \in {"param", "result", "local"}
  BY <1>1 DEF Keywords
<1>3. Current = "(" /\ Peek = keyword
  BY <1>1, <1>2 DEF NextParenKind
<1>4. /\ at' = at + 2 /\ errors' = 0 /\ tokens' = tokens /\ funcs' = funcs /\ values' = values
      /\ tokens[at + 1] = keyword /\ at \in Nat
  BY <1>1, <1>2, <1>3, TakeOne, TakeTwo
<1>5. at >= 3 /\ Head(todo) \in {<<"named", keyword>>, <<"values", keyword>>}
  <2>1. Head(todo) \in {<<"named", keyword>>, <<"values", keyword>>}
    BY <1>1 DEF ListOf
  <2>2. Head(todo) # <<"module">>
    BY <2>1
  <2>. QED BY <2>1, <2>2, Inside
<1>6. Kept'
  <2>1. Peek \notin {"i32", "Eof"} /\ funcs' = funcs + (IF Peek = "func" THEN 1 ELSE 0)
    BY <1>2, <1>3, <1>4 DEF TypeOK
  <2>. QED BY <1>3, <1>4, <1>5, <2>1, KeptPair
<1>7. Reached' = After(After(Reached, "("), keyword) /\ tokens'[at' - 1] # "type"
  <2>1. at' - 1 = at + 1
    BY <1>4
  <2>. QED BY <1>2, <1>3, <1>4, <2>1, TakeTwo, Stays
<1>8. CASE AtLocals /\ keyword = "local"
  <2>1. todo' = GroupFirst(Locals)
    <3>1. todo = Locals /\ Head(Locals)[1] = "named" /\ Locals \in Seq(Step)
      BY <1>8, FuncTodo DEF AtLocals
    <3>. QED BY <1>1, <3>1, GroupCall
  <2>2. After(Reached, "(") \in {{"(locals"}, {"(use", "(locals"}}
    BY <1>8, AfterFunc DEF AtLocals, BeforeUse
  <2>3. Reached' = {"local"}
    BY <1>7, <1>8, <2>2, AfterFunc
  <2>. QED BY <1>4, <1>6, <1>7, <2>1, <2>3 DEF Right, Where, InGroup, AtFirst, Behind
<1>9. CASE AtParams /\ keyword = "param"
  <2>1. todo' = GroupFirst(Params)
    <3>1. todo = Params /\ Head(Params)[1] = "named" /\ Params \in Seq(Step)
      BY <1>9, UseTodo DEF AtParams
    <3>. QED BY <1>1, <3>1, GroupCall
  <2>2. After(Reached, "(") = {"(params"}
    <3>1. ~NoIndex
      BY <1>3, TakeOne DEF NoIndex
    <3>. QED BY <1>9, <3>1, AfterUse DEF AtParams
  <2>3. Reached' = {"param"}
    BY <1>7, <1>9, <2>2, AfterUse
  <2>. QED BY <1>4, <1>6, <1>7, <2>1, <2>3 DEF Right, Where, InGroup, AtFirst, Behind
<1>10. CASE AtResults /\ keyword = "result"
  <2>1. todo' = GroupTypes(Results)
    <3>1. todo = Results /\ Head(Results)[1] = "values" /\ Results \in Seq(Step)
      BY <1>10, UseTodo DEF AtResults
    <3>. QED BY <1>1, <3>1, GroupCall
  <2>2. After(Reached, "(") \in {{"(params"}, {"(results"}}
    <3>1. ~NoIndex
      BY <1>3, TakeOne DEF NoIndex
    <3>. QED BY <1>10, <3>1, AfterUse DEF AtResults
  <2>3. Reached' = {"result_more"}
    BY <1>7, <1>10, <2>2, AfterUse
  <2>. QED BY <1>4, <1>6, <1>7, <2>1, <2>3 DEF Right, Where, InGroup, AtTypes, Behind
<1>11. \/ AtLocals /\ keyword = "local"
       \/ AtParams /\ keyword = "param"
       \/ AtResults /\ keyword = "result"
  BY <1>2, <1>5, Listing
<1>. QED BY <1>8, <1>9, <1>10, <1>11

LEMMA ListEndStep ==
  ASSUME TypeOK, tokens \in Seq(Kinds), errors = 0, Where, Kept, todo # <<>>, ListEnd
  PROVE  Right
<1>1. PICK keyword \in Keywords :
        /\ Head(todo) \in {<<"named", keyword>>, <<"values", keyword>>}
        /\ NextParenKind # keyword
        /\ todo' = Tail(todo)
        /\ UNCHANGED <<tokens, at, errors, funcs, values>>
  BY DEF ListEnd, ListOf, Then, TypeOK
<1>2. at >= 3
  <2>1. Head(todo) # <<"module">>
    BY <1>1
  <2>. QED BY <2>1, Inside
<1>3. Kept' /\ errors' = 0 /\ tokens' = tokens /\ at' = at
  BY <1>1, <1>2, KeptStays
<1>4. CASE AtLocals /\ keyword = "local"
  <2>1. todo' = FuncEnd
    BY <1>1, <1>4, FuncTodo DEF AtLocals
  <2>2. Current = ")" => After(Reached, ")") = {"fields"}
    BY <1>4, AfterFunc DEF AtLocals, BeforeUse
  <2>3. ASSUME Current = "(" PROVE ~WellFormed
    <3>1. Peek # "local"
      BY <1>1, <1>4, <2>3 DEF NextParenKind
    <3>2. CASE Reached = {"locals"}
      <4>1. After(Reached, Current) = {"(locals"} /\ After({"(locals"}, Peek) = {}
        BY <2>3, <3>1, <3>2, AfterFunc
      <4>. QED BY <2>3, <4>1, MalformedNext
    <3>3. CASE BeforeUse /\ NextParenKind # "type"
      <4>1. Peek # "type"
        BY <2>3, <3>3 DEF NextParenKind
      <4>2. After(Reached, Current) = {"(use", "(locals"} /\ After({"(use", "(locals"}, Peek) = {}
        BY <2>3, <3>1, <3>3, <4>1, AfterFunc DEF BeforeUse
      <4>. QED BY <2>3, <4>2, MalformedNext
    <3>. QED BY <1>4, <3>2, <3>3 DEF AtLocals
  <2>4. ASSUME Current \notin {"(", ")"} PROVE ~WellFormed
    <3>1. "accept" \notin Reached
      BY <1>4 DEF AtLocals, BeforeUse
    <3>2. CASE Reached = {"locals"}
      BY <2>4, <3>1, <3>2, AfterFunc, MalformedHere
    <3>3. CASE Reached = {"use", "locals"}
      BY <2>4, <3>1, <3>3, AfterFunc, MalformedHere
    <3>4. CASE Reached = {"func", "use", "locals"} /\ Current # "id"
      BY <2>4, <3>1, <3>4, AfterFunc, MalformedHere
    <3>. QED BY <1>4, <3>2, <3>3, <3>4 DEF AtLocals, BeforeUse
  <2>5. Closes("fields")'
    <3>1. Closes("fields")
      BY <2>2, <2>3, <2>4 DEF Closes
    <3>. QED BY <1>3, <3>1, ClosesStays
  <2>. QED BY <1>3, <2>1, <2>5 DEF Right, Where, InFunc, AtFuncEnd
<1>5. CASE AtParams /\ keyword = "param"
  <2>1. todo' = Results
    BY <1>1, <1>5, UseTodo DEF AtParams
  <2>2. Reached' = Reached /\ NextParenKind' = NextParenKind
    BY <1>3, Stays DEF Reached, NextParenKind, Current, Peek
  <2>3. AtResults'
    BY <1>1, <1>3, <1>5, <2>1, <2>2 DEF AtParams, AtResults, NoIndex
  <2>. QED BY <1>3, <2>3 DEF Right, Where, InUse
<1>6. CASE AtResults /\ keyword = "result"
  <2>1. todo' = UseEnd
    BY <1>1, <1>6, UseTodo DEF AtResults
  <2>2. ASSUME NoIndex PROVE Closes("locals")
    <3>1. Current = "Eof" /\ Reached = {"index"}
      BY <2>2, TokenIs DEF NoIndex, Current, TypeOK
    <3>2. After(Reached, Current) = {}
      BY <3>1, AfterUse DEF Kinds
    <3>. QED BY <3>1, <3>2, MalformedHere DEF Closes
  <2>3. ASSUME Reached = {"results"} PROVE Closes("locals")
    <3>1. Current = ")" => After(Reached, ")") = {"locals"}
      BY <2>3, AfterUse
    <3>2. ASSUME Current = "(" PROVE ~WellFormed
      <4>1. Peek # "result"
        BY <1>1, <1>6, <3>2 DEF NextParenKind
      <4>2. After(Reached, Current) = {"(results"} /\ After({"(results"}, Peek) = {}
        BY <2>3, <3>2, <4>1, AfterUse
      <4>. QED BY <3>2, <4>2, MalformedNext
    <3>3. ASSUME Current \notin {"(", ")"} PROVE ~WellFormed
      <4>1. After(Reached, Current) = {} /\ "accept" \notin Reached
        BY <2>3, <3>3, AfterUse
      <4>. QED BY <4>1, MalformedHere
    <3>. QED BY <3>1, <3>2, <3>3 DEF Closes
  <2>4. ASSUME Reached = {"params"}, NextParenKind # "param" PROVE Closes("locals")
    <3>1. Current = ")" => After(Reached, ")") = {"locals"}
      BY <2>4, AfterUse
    <3>2. ASSUME Current = "(" PROVE ~WellFormed
      <4>1. Peek # "result" /\ Peek # "param"
        BY <1>1, <1>6, <2>4, <3>2 DEF NextParenKind
      <4>2. After(Reached, Current) = {"(params"} /\ After({"(params"}, Peek) = {}
        BY <2>4, <3>2, <4>1, AfterUse
      <4>. QED BY <3>2, <4>2, MalformedNext
    <3>3. ASSUME Current \notin {"(", ")"} PROVE ~WellFormed
      <4>1. After(Reached, Current) = {} /\ "accept" \notin Reached
        BY <2>4, <3>3, AfterUse
      <4>. QED BY <4>1, MalformedHere
    <3>. QED BY <3>1, <3>2, <3>3 DEF Closes
  <2>5. Closes("locals")'
    BY <1>3, <1>6, <2>2, <2>3, <2>4, ClosesStays DEF AtResults
  <2>. QED BY <1>3, <2>1, <2>5 DEF Right, Where, InUse, AtUseEnd
<1>7. \/ AtLocals /\ keyword = "local"
      \/ AtParams /\ keyword = "param"
      \/ AtResults /\ keyword = "result"
  <2>1. Head(todo) \in {<<"named", keyword>>, <<"values", keyword>>}
    BY <1>1
  <2>. QED BY <2>1, Listing
<1>. QED BY <1>4, <1>5, <1>6, <1>7


\* The value types of a group in the list `rest`, in the state `more`; its end
\* leads to the state q.
MoreTypes(more, q) ==
  \A t : After({more}, t) = IF t = ")" THEN {q} ELSE IF t = "i32" THEN {more} ELSE {}

LEMMA TypesIn ==
  ASSUME TypeOK, tokens \in Seq(Kinds), errors = 0, Kept, todo # <<>>, Types,
         NEW rest, NEW more, NEW q, MoreTypes(more, q), more # "accept", AtTypes(rest, more)
  PROVE  (errors' = 0 /\ AtTypes(rest, more)' /\ Kept') \/ (errors' # 0 /\ ~WellFormed)
<1>1. /\ Current \notin {")", "Eof"} /\ tokens' = tokens /\ todo' = todo /\ funcs' = funcs
      /\ at' = Skip(at, 1) /\ values' = values + 1 /\ at >= 3
      /\ Head(todo) = <<"types">>
  BY Inside DEF Types, ValueType
<1>2. Reached = {more} /\ tokens[at - 1] # "type" /\ todo = GroupTypes(rest)
  BY DEF AtTypes, Behind
<1>3. CASE Current = "i32"
  <2>1. errors' = 0
    BY <1>3 DEF Types, ValueType, Current
  <2>2. at' = at + 1 /\ Run[at] = After({more}, "i32") /\ tokens[at] = "i32" /\ at \in Nat
    BY <1>1, <1>2, <1>3, TakeOne
  <2>3. Run[at] = {more} /\ at' - 1 = at
    <3>1. After({more}, "i32") = {more}
      BY DEF MoreTypes
    <3>2. at' - 1 = at
      BY <2>2
    <3>. QED BY <2>2, <3>1, <3>2, Zenon
  <2>4. Kept'
    BY <1>1, <1>2, <1>3, <2>2, KeptType
  <2>5. AtTypes(rest, more)'
    BY <1>1, <1>2, <2>2, <2>3, Stays DEF AtTypes, Behind
  <2>. QED BY <2>1, <2>4, <2>5
<1>4. CASE Current # "i32"
  <2>1. errors' # 0
    BY <1>4, ErrorsIn DEF Types, ValueType, Current, TypeOK
  <2>2. After(Reached, Current) = {} /\ "accept" \notin Reached
    BY <1>1, <1>2, <1>4 DEF MoreTypes
  <2>. QED BY <2>1, <2>2, MalformedHere
<1>. QED BY <1>3, <1>4

LEMMA MoreTypesAll ==
  /\ MoreTypes("local_more", "locals")
  /\ MoreTypes("param_more", "params")
  /\ MoreTypes("result_more", "results")
BY AfterLocal, AfterParam DEF MoreTypes

LEMMA TypesStep ==
  ASSUME TypeOK, tokens \in Seq(Kinds), errors = 0, Where, Kept, todo # <<>>, Types
  PROVE  Right
<1>1. \/ AtTypes(Locals, "local_more")
      \/ AtTypes(Params, "param_more")
      \/ AtTypes(Results, "result_more")
  BY Dispatch DEF Types
<1>2. CASE AtTypes(Locals, "local_more")
  BY <1>2, TypesIn, MoreTypesAll DEF Right, Where, InGroup
<1>3. CASE AtTypes(Params, "param_more")
  BY <1>3, TypesIn, MoreTypesAll DEF Right, Where, InGroup
<1>4. CASE AtTypes(Results, "result_more")
  BY <1>4, TypesIn, MoreTypesAll DEF Right, Where, InGroup
<1>. QED BY <1>1, <1>2, <1>3, <1>4

LEMMA TypesEndIn ==
  ASSUME TypeOK, tokens \in Seq(Kinds), errors = 0, Kept, todo # <<>>, TypesEnd,
         NEW rest \in Seq(Step), NEW more, NEW q, MoreTypes(more, q), more # "accept",
         AtTypes(rest, more)
  PROVE  errors' = 0 /\ AtClose(rest, q)' /\ Kept'
<1>1. /\ Current \in {")", "Eof"} /\ tokens' = tokens /\ at' = at /\ errors' = 0
      /\ funcs' = funcs /\ values' = values /\ todo' = GroupEnd(rest) /\ at >= 3
  <2>1. Tail(todo) = GroupEnd(rest)
    BY GroupTodo DEF AtTypes
  <2>2. todo' = Tail(todo)
    BY DEF TypesEnd, Then, TypeOK
  <2>3. at >= 3
    BY Inside DEF TypesEnd
  <2>. QED BY <2>1, <2>2, <2>3 DEF TypesEnd
<1>2. Reached = {more}
  BY DEF AtTypes, Behind
<1>3. Closes(q)
  <2>1. Current = ")" => After(Reached, ")") = {q}
    BY <1>2 DEF MoreTypes
  <2>2. Current # ")" => After(Reached, Current) = {} /\ "accept" \notin Reached
    BY <1>1, <1>2 DEF MoreTypes
  <2>. QED BY <2>1, <2>2, MalformedHere DEF Closes
<1>4. Kept' /\ Closes(q)'
  BY <1>1, <1>3, KeptStays, ClosesStays
<1>. QED BY <1>1, <1>4 DEF AtClose

LEMMA TypesEndStep ==
  ASSUME TypeOK, tokens \in Seq(Kinds), errors = 0, Where, Kept, todo # <<>>, TypesEnd
  PROVE  Right
<1>1. \/ AtTypes(Locals, "local_more")
      \/ AtTypes(Params, "param_more")
      \/ AtTypes(Results, "result_more")
  BY Dispatch DEF TypesEnd
<1>2. Locals \in Seq(Step) /\ Params \in Seq(Step) /\ Results \in Seq(Step)
  BY FuncTodo, UseTodo
<1>3. CASE AtTypes(Locals, "local_more")
  BY <1>2, <1>3, TypesEndIn, MoreTypesAll DEF Right, Where, InGroup
<1>4. CASE AtTypes(Params, "param_more")
  BY <1>2, <1>4, TypesEndIn, MoreTypesAll DEF Right, Where, InGroup
<1>5. CASE AtTypes(Results, "result_more")
  BY <1>2, <1>5, TypesEndIn, MoreTypesAll DEF Right, Where, InGroup
<1>. QED BY <1>1, <1>3, <1>4, <1>5

\* The first value type of a named group, which may have an identifier.
FirstType(kind, one, last, more, q) ==
  \A t : /\ After({kind}, t) = IF t = ")" THEN {q} ELSE IF t = "i32" THEN {more}
                               ELSE IF t = "id" THEN {one} ELSE {}
         /\ After({one}, t) = IF t = ")" THEN {q} ELSE IF t = "i32" THEN {last} ELSE {}
         /\ After({last}, t) = IF t = ")" THEN {q} ELSE {}

\* After the token before the new position the group must end.
LEMMA ClosesNext ==
  ASSUME tokens \in Seq(Kinds), tokens' = tokens, NEW p, NEW q, p # "accept",
         at' \in 1 .. Len(tokens) + 1, Run[at' - 1] = {p},
         After({p}, ")") = {q}, Token(at') # ")" => After({p}, Token(at')) = {}
  PROVE  Closes(q)'
<1>1. at' - 1 \in 0 .. Len(tokens) /\ (at' - 1) + 1 = at'
  OBVIOUS
<1>2. Token(at') # ")" => ~WellFormed
  BY <1>1, Malformed
<1>3. Reached' = {p} /\ Current' = Token(at') /\ WellFormed' = WellFormed
  BY Stays
<1>. QED BY <1>2, <1>3 DEF Closes

LEMMA FirstIn ==
  ASSUME TypeOK, tokens \in Seq(Kinds), errors = 0, Kept, todo # <<>>, First,
         NEW rest \in Seq(Step), NEW kind, NEW one, NEW last, NEW more, NEW q,
         FirstType(kind, one, last, more, q), "accept" \notin {kind, one, last},
         AtFirst(rest, kind)
  PROVE  \/ errors' = 0 /\ (AtTypes(rest, more)' \/ AtClose(rest, q)') /\ Kept'
         \/ errors' # 0 /\ ~WellFormed
<1>1. /\ Reached = {kind} /\ tokens[at - 1] # "type" /\ Tail(todo) = GroupEnd(rest)
      /\ <<>> \o Tail(todo) = GroupEnd(rest)
      /\ <<<<"types">>>> \o Tail(todo) = GroupTypes(rest)
  <2>1. Tail(todo) = GroupEnd(rest) /\ GroupEnd(rest) \in Seq(Step)
    BY GroupTodo DEF AtFirst
  <2>2. <<<<"types">>>> \o GroupEnd(rest) = GroupTypes(rest)
    BY GroupCall
  <2>3. <<>> \o GroupEnd(rest) = GroupEnd(rest)
    BY <2>1
  <2>4. Reached = {kind} /\ tokens[at - 1] # "type"
    BY DEF AtFirst, Behind
  <2>. QED BY <2>1, <2>2, <2>3, <2>4, Zenon
<1>2. tokens' = tokens /\ funcs' = funcs /\ at >= 3
  BY Inside DEF First
<1>3. at \in Nat /\ at \in 1 .. Len(tokens) + 1 /\ Len(tokens) \in Nat
  BY DEF TypeOK
<1>4. CASE Current # "id"
  <2>1. CASE Current = ")"
    <3>1. /\ at' = at /\ todo' = GroupEnd(rest) /\ errors' = 0 /\ values' = values
      BY <1>1, <1>4, <2>1 DEF First, Then, Current
    <3>2. Kept'
      BY <1>2, <3>1, KeptStays
    <3>3. Closes(q)'
      <4>1. Closes(q)
        BY <1>1, <2>1 DEF Closes, FirstType
      <4>. QED BY <1>2, <3>1, <4>1, ClosesStays
    <3>. QED BY <3>1, <3>2, <3>3 DEF AtClose
  <2>2. CASE Current # ")"
    <3>1. /\ at' = Skip(at, 1) /\ values' = values + 1 /\ todo' = GroupTypes(rest)
          /\ IF Current = "i32" THEN UNCHANGED errors ELSE Errors(1)
      BY <1>1, <1>4, <2>2 DEF First, Then, ValueType, Current
    <3>2. CASE Current = "i32"
      <4>1. at' = at + 1 /\ Run[at] = {more} /\ tokens[at] = "i32" /\ at' - 1 = at
        <5>1. After({kind}, "i32") = {more}
          BY DEF FirstType
        <5>. QED BY <1>1, <1>3, <3>1, <3>2, <5>1, TakeOne
      <4>2. Kept'
        BY <1>1, <1>2, <3>1, <3>2, <4>1, KeptType
      <4>3. AtTypes(rest, more)'
        BY <1>2, <3>1, <4>1, Stays DEF AtTypes, Behind
      <4>. QED BY <3>1, <3>2, <4>2, <4>3
    <3>3. CASE Current # "i32"
      <4>1. errors' # 0
        BY <3>1, <3>3, ErrorsIn DEF TypeOK
      <4>2. After(Reached, Current) = {} /\ "accept" \notin Reached
        BY <1>1, <1>4, <2>2, <3>3 DEF FirstType
      <4>. QED BY <4>1, <4>2, MalformedHere
    <3>. QED BY <3>2, <3>3
  <2>. QED BY <2>1, <2>2
<1>5. CASE Current = "id"
  <2>1. Skip(at, 1) = at + 1 /\ Run[at] = {one} /\ tokens[at] = "id"
        /\ at + 1 \in 1 .. Len(tokens) + 1
    BY <1>1, <1>5, TakeOne DEF FirstType
  <2>2. CASE Peek = ")"
    <3>1. /\ at' = at + 1 /\ todo' = GroupEnd(rest) /\ errors' = 0 /\ values' = values
      BY <1>1, <1>5, <2>1, <2>2 DEF First, Then, Peek
    <3>2. Kept'
      BY <1>2, <1>5, <3>1, KeptOther
    <3>3. Closes(q)'
      <4>1. Run[at' - 1] = {one} /\ at' \in 1 .. Len(tokens) + 1 /\ Token(at') = ")"
        BY <1>3, <2>1, <2>2, <3>1 DEF Peek
      <4>2. After({one}, ")") = {q}
        BY DEF FirstType
      <4>. QED BY <1>2, <4>1, <4>2, ClosesNext
    <3>. QED BY <3>1, <3>2, <3>3 DEF AtClose
  <2>3. CASE Peek # ")"
    <3>1. /\ at' = Skip(at + 1, 1) /\ values' = values + 1 /\ todo' = GroupEnd(rest)
          /\ IF Peek = "i32" THEN UNCHANGED errors ELSE Errors(1)
      BY <1>1, <1>5, <2>1, <2>3 DEF First, Then, ValueType, Peek
    <3>2. CASE Peek = "i32"
      <4>1. /\ at + 2 \in 1 .. Len(tokens) + 1 /\ tokens[at + 1] = "i32"
            /\ Run[at + 1] = After(After({kind}, "id"), "i32")
        BY <1>1, <1>5, <3>2, TakeTwo
      <4>2. at' = at + 2
        <5>1. (at + 1) + 1 = at + 2
          BY <1>3
        <5>. QED BY <2>1, <3>1, <4>1, <5>1, SkipIs
      <4>3. Run[at' - 1] = {last} /\ at' - 1 = at + 1 /\ at' >= 3
        <5>1. After({kind}, "id") = {one} /\ After({one}, "i32") = {last}
          BY DEF FirstType
        <5>2. at' - 1 = at + 1 /\ at' >= 3
          BY <1>2, <1>3, <4>2
        <5>. QED BY <4>1, <5>1, <5>2, Zenon
      <4>4. Kept'
        <5>1. PICK n \in Nat : n = at - 1
          BY <1>2, <1>3
        <5>2. n >= 2 /\ n + 1 = at /\ tokens[n + 1] = "id"
          BY <1>2, <1>3, <2>1, <5>1
        <5>3. \A k \in {"func", "i32"} : Cardinality(Counted(k, n + 1)) = Cardinality(Counted(k, n))
          BY <5>2, CountedSame
        <5>4. at >= 2 /\ tokens[at] # "type" /\ tokens[at + 1] = "i32"
          BY <1>2, <1>3, <2>1, <4>1
        <5>5. Cardinality(Counted("func", at + 1)) = Cardinality(Counted("func", at))
          BY <1>3, <5>4, CountedSame
        <5>6. Cardinality(Counted("i32", at + 1)) = Cardinality(Counted("i32", at)) + 1
          BY <1>3, <5>4, CountedMore
        <5>7. /\ Cardinality(Counted("func", at)) = Cardinality(Counted("func", at - 1))
              /\ Cardinality(Counted("i32", at)) = Cardinality(Counted("i32", at - 1))
          BY <5>1, <5>2, <5>3
        <5>. QED BY <1>2, <3>1, <4>3, <5>5, <5>6, <5>7, Stays DEF Kept
      <4>5. Closes(q)'
        <5>1. After({last}, ")") = {q} /\ (Token(at') # ")" => After({last}, Token(at')) = {})
          BY DEF FirstType
        <5>. QED BY <1>2, <4>1, <4>2, <4>3, <5>1, ClosesNext
      <4>. QED BY <3>1, <3>2, <4>4, <4>5 DEF AtClose
    <3>3. CASE Peek # "i32"
      <4>1. errors' # 0
        BY <3>1, <3>3, ErrorsIn DEF TypeOK
      <4>2. After(Reached, Current) = {one} /\ After({one}, Peek) = {}
        BY <1>1, <1>5, <2>3, <3>3 DEF FirstType
      <4>. QED BY <1>5, <4>1, <4>2, MalformedNext
    <3>. QED BY <3>2, <3>3
  <2>. QED BY <2>2, <2>3
<1>. QED BY <1>4, <1>5

LEMMA FirstStep ==
  ASSUME TypeOK, tokens \in Seq(Kinds), errors = 0, Where, Kept, todo # <<>>, First
  PROVE  Right
<1>1. AtFirst(Locals, "local") \/ AtFirst(Params, "param")
  BY Dispatch DEF First
<1>2. Locals \in Seq(Step) /\ Params \in Seq(Step)
  BY FuncTodo, UseTodo
<1>3. CASE AtFirst(Locals, "local")
  <2>1. FirstType("local", "local_one", "local_last", "local_more", "locals")
    BY AfterLocal DEF FirstType
  <2>. QED BY <1>2, <1>3, <2>1, FirstIn DEF Right, Where, InGroup
<1>4. CASE AtFirst(Params, "param")
  <2>1. FirstType("param", "param_one", "param_last", "param_more", "params")
    BY AfterParam DEF FirstType
  <2>. QED BY <1>2, <1>4, <2>1, FirstIn DEF Right, Where, InGroup
<1>. QED BY <1>1, <1>3, <1>4

-----------------------------------------------------------------------------
(* The theorems *)

LEMMA InvInit ==
  ASSUME Init
  PROVE  PInv
<1>1. tokens \in Seq(Kinds) /\ Len(tokens) \in Nat
  BY InputAssumption DEF Init
<1>2. MaxErrors \in Nat
  BY BoundAssumption
<1>3. todo \in Seq(Step)
  BY DEF Init, Step
<1>4. TypeOK
  BY <1>1, <1>2, <1>3 DEF TypeOK, Init
<1>5. Where
  BY DEF Where, InModule, AtModule, Init
<1>6. Kept
  BY CountedNone DEF Kept, Init
<1>. QED BY <1>1, <1>4, <1>5, <1>6 DEF PInv, Init

LEMMA InvNext ==
  ASSUME PInv, [Next]_vars
  PROVE  PInv'
<1>1. CASE UNCHANGED vars
  BY <1>1 DEF PInv, vars, TypeOK, WellFormed, Run, Where, InModule, InFunc, InUse, InGroup,
     AtModule, AtId, AtFields, AtEnd, AtEof, AtNothing, AtFuncId, BeforeUse, AtFuncUse, AtLocals,
     AtFuncEnd, NoIndex, AtParams, AtResults, AtUseEnd, Behind, AtFirst, AtTypes, AtClose, Closes,
     Reached, Current, Peek, Token, NextParenKind, Kept, Counted
<1>2. CASE Next
  <2>1. TypeOK /\ tokens \in Seq(Kinds) /\ todo # <<>>
    BY <1>2 DEF PInv, Next
  <2>2. TypeOK' /\ tokens' = tokens /\ (errors # 0 => errors' # 0)
    BY <1>2, <2>1, TypeStep
  <2>3. WellFormed' = WellFormed
    BY <2>2, Stays
  <2>4. CASE errors # 0
    BY <2>1, <2>2, <2>3, <2>4 DEF PInv
  <2>5. CASE errors = 0
    <3>1. Where /\ Kept
      BY <2>5 DEF PInv
    <3>2. Right
      BY <1>2, <2>1, <2>5, <3>1, ModuleStep, IdStep, FuncStep, InvalidFieldStep, FieldsEndStep,
         TypeUseStep, NoTypeUseStep, ListBeginStep, ListEndStep, FirstStep, TypesStep,
         TypesEndStep, EndStep, EofStep DEF Next
    <3>. QED BY <2>1, <2>2, <2>3, <3>2 DEF PInv, Right
  <2>. QED BY <2>4, <2>5
<1>. QED BY <1>1, <1>2

\* The inductive invariant holds in every state of the parser, for every set
\* of files.
THEOREM ParserInv == Spec => []PInv
<1>1. Init => PInv
  BY InvInit
<1>2. PInv /\ [Next]_vars => PInv'
  BY InvNext
<1>. QED BY <1>1, <1>2, PTL DEF Spec

\* Type correctness: the parser never looks behind the end of the tokens, also
\* while it recovers from an error.
THEOREM ParserTypes == Spec => []TypeOK
<1>1. PInv => TypeOK
  BY DEF PInv
<1>. QED BY <1>1, ParserInv, PTL

LEMMA AtTheEnd ==
  ASSUME PInv, Done, errors = 0
  PROVE  AtNothing /\ Kept
<1>1. Where /\ Kept /\ todo = <<>>
  BY DEF PInv, Done
<1>2. Locals \in Seq(Step) /\ Params \in Seq(Step) /\ Results \in Seq(Step)
  BY FuncTodo, UseTodo
<1>3. ~AtModule /\ ~AtId /\ ~AtFields /\ ~AtEnd /\ ~AtEof
  BY <1>1, ModuleTodo DEF AtModule, AtId, AtFields, AtEnd, AtEof
<1>4. ~InFunc
  BY <1>1, FuncTodo DEF InFunc, AtFuncId, AtFuncUse, AtLocals, AtFuncEnd
<1>5. ~InUse
  BY <1>1, UseTodo DEF InUse, AtParams, AtResults, AtUseEnd
<1>6. ~InGroup
  BY <1>1, <1>2, GroupTodo DEF InGroup, AtFirst, AtTypes, AtClose
<1>. QED BY <1>1, <1>3, <1>4, <1>5, <1>6 DEF Where, InModule

\* tex_par_parse_module accepts exactly the files of the grammar, whatever
\* their length and wherever they are broken.
THEOREM ParserAccepts == Spec => []AcceptsGrammar
<1>1. PInv => AcceptsGrammar
  <2>. SUFFICES ASSUME PInv, Done, errors = 0 PROVE WellFormed
    BY DEF PInv, AcceptsGrammar
  <2>1. AtNothing /\ Len(tokens) \in Nat
    BY AtTheEnd DEF PInv
  <2>2. at - 1 = Len(tokens)
    BY <2>1 DEF AtNothing
  <2>. QED BY <2>1, <2>2 DEF AtNothing, Reached, WellFormed
<1>. QED BY <1>1, ParserInv, PTL

\* The lists of an accepted module have all functions and value types of the
\* text, and none twice: the procedures push one for each token they take.
THEOREM ParserKeepsAll == Spec => []NothingDropped
<1>1. PInv => NothingDropped
  <2>. SUFFICES ASSUME PInv, Done, errors = 0
                PROVE  funcs = Count("func") /\ values = Count("i32")
    BY DEF NothingDropped
  <2>1. AtNothing /\ Kept /\ Len(tokens) \in Nat
    BY AtTheEnd DEF PInv
  <2>2. at - 1 = Len(tokens)
    BY <2>1 DEF AtNothing
  <2>. QED BY <2>1, <2>2 DEF Kept, Count
<1>. QED BY <1>1, ParserInv, PTL

-----------------------------------------------------------------------------
(* The parser goes forward *)

\* A step takes a token, or leaves one thing less to do; only at the end of
\* the file the value types of a group are still to be looked for behind the
\* first.  With every file this happens only finitely often.
Advance ==
  \/ at < at'
  \/ at' = at /\ todo' = Tail(todo)
  \/ at' = at /\ Head(todo) = <<"first">> /\ todo' = <<<<"types">>>> \o Tail(todo)

LEMMA StepAdvances ==
  ASSUME TypeOK, tokens \in Seq(Kinds), Next
  PROVE  Stuck \/ Advance
<1>1. todo # <<>> /\ todo \in Seq(Step) /\ Tail(todo) \in Seq(Step) /\ <<>> \o Tail(todo) = Tail(todo)
  BY DEF Next, TypeOK
<1>2. at \in 1 .. Len(tokens) + 1 /\ Len(tokens) \in Nat
  BY DEF TypeOK
<1>3. /\ Current # "Eof" => at <= Len(tokens)
      /\ NextParenKind \notin {"Invalid"} => at <= Len(tokens)
  BY <1>2, TokenIs DEF Current, NextParenKind
<1>4. ASSUME NEW n \in Nat PROVE at <= Skip(at, n) /\ (at <= Len(tokens) /\ n > 0 => at < Skip(at, n))
  BY <1>2, SkipIs
<1>5. Recover(at) \in Nat /\ Recover(at) >= at
  BY <1>2, RecoverIn
<1>. USE <1>1, <1>2
<1>6. CASE Module
  <2>1. CASE Current = "(" /\ Peek = "module"
    <3>1. at' = Skip(at, 2)
      BY <1>6, <2>1 DEF Module
    <3>. QED BY <1>3, <1>4, <2>1, <3>1 DEF Advance
  <2>2. CASE ~(Current = "(" /\ Peek = "module")
    <3>1. todo' = Tail(todo) /\ at' \in {at, Recover(at)}
      BY <1>6, <2>2 DEF Module, Then
    <3>. QED BY <1>5, <3>1 DEF Advance
  <2>. QED BY <2>1, <2>2
<1>7. CASE Id
  <2>1. todo' = Tail(todo) /\ at' \in {at, Skip(at, 1)}
    BY <1>7 DEF Id, Then
  <2>2. at <= Skip(at, 1) /\ Skip(at, 1) \in 1 .. Len(tokens) + 1
    BY SkipIs
  <2>. QED BY <2>1, <2>2 DEF Advance
<1>8. CASE Func \/ TypeUse \/ ListBegin
  <2>1. PICK n \in {2, 3} : at' = Skip(at, n)
    BY <1>8 DEF Func, TypeUse, ListBegin
  <2>2. NextParenKind # "Invalid"
    BY <1>8 DEF Func, TypeUse, ListBegin, Keywords
  <2>. QED BY <1>3, <1>4, <2>1, <2>2 DEF Advance
<1>9. CASE InvalidField
  BY <1>9 DEF InvalidField, Stuck, Done
<1>10. CASE FieldsEnd \/ NoTypeUse \/ ListEnd \/ TypesEnd \/ Eof
  BY <1>10 DEF FieldsEnd, NoTypeUse, ListEnd, TypesEnd, Eof, Then, Advance
<1>11. CASE First
  <2>. DEFINE named == Current = "id"
              i     == IF named THEN Skip(at, 1) ELSE at
  <2>1. i \in 1 .. Len(tokens) + 1 /\ at <= i
    <3>1. Skip(at, 1) \in 1 .. Len(tokens) + 1 /\ at <= Skip(at, 1)
      BY SkipIs
    <3>. QED BY <3>1
  <2>2. CASE Token(i) = ")"
    <3>1. at' = i /\ todo' = Tail(todo)
      BY <1>11, <2>2 DEF First, Then
    <3>. QED BY <2>1, <3>1 DEF Advance
  <2>3. CASE Token(i) # ")"
    <3>1. /\ at' = Skip(i, 1) /\ Head(todo) = <<"first">>
          /\ todo' = IF named THEN Tail(todo) ELSE <<<<"types">>>> \o Tail(todo)
      BY <1>11, <2>3 DEF First, Then, ValueType
    <3>. HIDE DEF i, named
    <3>2. i <= Skip(i, 1) /\ Skip(i, 1) \in 1 .. Len(tokens) + 1
      BY <2>1, SkipIs
    <3>. QED BY <2>1, <3>1, <3>2 DEF Advance
  <2>. QED BY <2>2, <2>3
<1>12. CASE Types
  <2>1. at' = Skip(at, 1) /\ Current # "Eof"
    BY <1>12 DEF Types, ValueType
  <2>. QED BY <1>3, <1>4, <2>1 DEF Advance
<1>13. CASE End
  <2>1. todo' = Tail(todo) /\ at' \in {Skip(at, 1), Recover(at)}
    BY <1>13 DEF End, Then
  <2>2. at <= Skip(at, 1) /\ Skip(at, 1) \in 1 .. Len(tokens) + 1
    BY SkipIs
  <2>. QED BY <1>5, <2>1, <2>2 DEF Advance
<1>. QED BY <1>6, <1>7, <1>8, <1>9, <1>10, <1>11, <1>12, <1>13 DEF Next

\* For every file, a step that is not the report of an invalid field takes a
\* token or leaves less to do: no other loop of the parser can go on for ever,
\* whatever errors it recovers from.
THEOREM ParserAdvances == Spec => [][Stuck \/ Advance]_vars
<1>1. PInv /\ [Next]_vars => [Stuck \/ Advance]_vars
  BY StepAdvances DEF PInv
<1>. QED BY <1>1, ParserInv, PTL DEF Spec

\* An invalid field is never left: every further step of the loop reports it
\* again, so that tex_par_parse_module does not return.
THEOREM StuckForever == Spec => [][Stuck => Stuck' /\ UNCHANGED <<at, todo>> /\ errors' # 0]_vars
<1>1. PInv /\ [Next]_vars => [Stuck => Stuck' /\ UNCHANGED <<at, todo>> /\ errors' # 0]_vars
  <2>. SUFFICES ASSUME PInv, Next, Stuck PROVE Stuck' /\ UNCHANGED <<at, todo>> /\ errors' # 0
    OBVIOUS
  <2>1. Head(todo) = <<"fields">> /\ Current = "(" /\ Peek # "func" /\ todo # <<>>
    BY DEF Stuck, Done
  <2>2. InvalidField
    BY <2>1 DEF Next, Module, Id, Func, FieldsEnd, TypeUse, NoTypeUse, ListBegin, ListEnd, ListOf,
       Keywords, First, Types, TypesEnd, End, Eof, NextParenKind
  <2>3. UNCHANGED <<tokens, at, todo>> /\ Errors(1)
    BY <2>2 DEF InvalidField
  <2>4. errors' # 0
    BY <2>3, ErrorsIn DEF PInv, TypeOK
  <2>. QED BY <2>1, <2>3, <2>4 DEF Stuck, Done, Current, Peek, Token
<1>. QED BY <1>1, ParserInv, PTL DEF Spec
=============================================================================
