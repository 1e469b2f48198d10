----------------------------- MODULE TextParser -----------------------------
(***************************************************************************)
(* The parser of the text format over the tokens of one file.  `todo` is   *)
(* what the open procedures have still to do, innermost first: a step      *)
(* takes its head, and may put in front what a called procedure does or    *)
(* what is left of a loop.                                                 *)
(*                                                                         *)
(* Tokens are kinds: "i32" stands for the value types, "nat" for an        *)
(* unsigned integer that fits into 32 bits and "big" for one that does     *)
(* not.  After the last token there is Eof, however often one asks.        *)
(***************************************************************************)
EXTENDS Naturals, Sequences, FiniteSetsExt

CONSTANTS Input,      \* the sequences of tokens
          MaxErrors   \* bound: more errors are counted as this many

VARIABLES tokens,     \* the input
          at,         \* position of current_token; peek_token is the next
          errors,     \* p.errors
          todo,       \* what is left to do
          funcs,      \* length of module.funcs
          values      \* value types in the params, results and locals lists

\* The kinds of tokens.
Kinds == {"(", ")", "module", "func", "type", "param", "result", "local", "id", "i32",
          "nat", "big"}

ASSUME InputAssumption == Input \subseteq Seq(Kinds)
ASSUME BoundAssumption == MaxErrors \in Nat \ {0}

vars == <<tokens, at, errors, todo, funcs, values>>

Token(i) == IF i <= Len(tokens) THEN tokens[i] ELSE "Eof"
Current  == Token(at)
Peek     == Token(at + 1)

\* Mutant: the end of the tokens does not stop the parser.
SkipPast(i, n) == i + n

\* tex_par_next_token, n times.
Skip(i, n) == Min({i + n, Len(tokens) + 1})

\* tex_par_errorf, n times.
Errors(n) == errors' = Min({errors + n, MaxErrors})

\* tex_par_get_next_paren_kind
NextParenKind == IF Current = "(" THEN Peek ELSE "Invalid"

Then(steps) == todo' = steps \o Tail(todo)

-----------------------------------------------------------------------------
\* tex_par_attempt_recovery: go behind the parenthesis that closes the list
\* the parser is in, or to the end.
Recover(i) ==
  LET closes(j) == Cardinality({k \in i .. j : tokens[k] = ")"})
      opens(j)  == Cardinality({k \in i .. j : tokens[k] = "("})
      ends      == {j \in i .. Len(tokens) : closes(j) = opens(j) + 1}
  IN IF ends = {} THEN Len(tokens) + 1 ELSE Min(ends) + 1

\* tex_par_paren_kind_begin, for the module.
Module ==
  /\ Head(todo) = <<"module">>
  /\ IF Current = "(" /\ Peek = "module"
       THEN /\ at' = Skip(at, 2)
            /\ Then(<<<<"id">>, <<"fields">>, <<"end">>, <<"eof">>>>)
            /\ UNCHANGED errors
       ELSE /\ at' = IF Current = "(" THEN Recover(at) ELSE at
            /\ Then(<<>>)
            /\ Errors(1)
  /\ UNCHANGED <<tokens, funcs, values>>

\* tex_par_parse_id
Id ==
  /\ Head(todo) = <<"id">>
  /\ at' = IF Current = "id" THEN Skip(at, 1) ELSE at
  /\ Then(<<>>)
  /\ UNCHANGED <<tokens, errors, funcs, values>>

\* The loop over the fields of a module.
Func ==
  /\ Head(todo) = <<"fields">>
  /\ NextParenKind = "func"
  /\ at' = Skip(at, 2)
  /\ funcs' = funcs + 1
  /\ Then(<<<<"id">>, <<"type_use">>, <<"named", "local">>, <<"end">>, <<"fields">>>>)
  /\ UNCHANGED <<tokens, errors, values>>

\* An invalid field is reported, and not skipped.
InvalidField ==
  /\ Head(todo) = <<"fields">>
  /\ Current = "("
  /\ Peek # "func"
  /\ Errors(1)
  /\ UNCHANGED <<tokens, at, todo, funcs, values>>

FieldsEnd ==
  /\ Head(todo) = <<"fields">>
  /\ Current # "("
  /\ Then(<<>>)
  /\ UNCHANGED <<tokens, at, errors, funcs, values>>

\* The type use of a function: whatever follows `type` is taken for its
\* identifier or index.
TypeUse ==
  /\ Head(todo) = <<"type_use">>
  /\ NextParenKind = "type"
  /\ at' = Skip(at, 3)
  /\ IF Token(Skip(at, 2)) = "big" THEN Errors(1) ELSE UNCHANGED errors
  /\ Then(<<<<"named", "param">>, <<"values", "result">>, <<"end">>>>)
  /\ UNCHANGED <<tokens, funcs, values>>

NoTypeUse ==
  /\ Head(todo) = <<"type_use">>
  /\ NextParenKind # "type"
  /\ Then(<<>>)
  /\ UNCHANGED <<tokens, at, errors, funcs, values>>

-----------------------------------------------------------------------------
(* Lists of params, results and locals *)

ListOf(keyword) == Head(todo) \in {<<"named", keyword>>, <<"values", keyword>>}
Keywords == {"param", "result", "local"}

\* One more group of a list: named ones may begin with an identifier.
ListBegin ==
  \E keyword \in Keywords :
    /\ ListOf(keyword)
    /\ NextParenKind = keyword
    /\ at' = Skip(at, 2)
    /\ todo' = <<IF Head(todo)[1] = "named" THEN <<"first">> ELSE <<"types">>, <<"end">>>>
               \o todo
    /\ UNCHANGED <<tokens, errors, funcs, values>>

ListEnd ==
  \E keyword \in Keywords :
    /\ ListOf(keyword)
    /\ NextParenKind # keyword
    /\ Then(<<>>)
    /\ UNCHANGED <<tokens, at, errors, funcs, values>>

\* tex_par_parse_value_type at i, and the push of the result, which happens
\* for an invalid one too.
ValueType(i) ==
  /\ at' = Skip(i, 1)
  /\ values' = values + 1
  /\ IF Token(i) = "i32" THEN UNCHANGED errors ELSE Errors(1)

\* The first value type of a named group: after an identifier the only one,
\* and there may be none.
First ==
  LET named == Current = "id"
      i     == IF named THEN Skip(at, 1) ELSE at
  IN /\ Head(todo) = <<"first">>
     /\ IF Token(i) = ")"
          THEN at' = i /\ Then(<<>>) /\ UNCHANGED <<errors, values>>
          ELSE ValueType(i) /\ Then(IF named THEN <<>> ELSE <<<<"types">>>>)
     /\ UNCHANGED <<tokens, funcs>>

\* Mutant: the last value type of a group is dropped.
TypesShort ==
  /\ Head(todo) = <<"types">>
  /\ Current \notin {")", "Eof"}
  /\ at' = Skip(at, 1)
  /\ IF Current = "i32" THEN UNCHANGED errors ELSE Errors(1)
  /\ values' = IF Peek = ")" THEN values ELSE values + 1
  /\ UNCHANGED <<tokens, todo, funcs>>

\* Mutant: an invalid value type is reported and not skipped.
TypesStay ==
  /\ Head(todo) = <<"types">>
  /\ Current \notin {")", "Eof"}
  /\ IF Current = "i32" THEN ValueType(at) ELSE Errors(1) /\ UNCHANGED <<at, values>>
  /\ UNCHANGED <<tokens, todo, funcs>>

Types ==
  /\ Head(todo) = <<"types">>
  /\ Current \notin {")", "Eof"}
  /\ ValueType(at)
  /\ UNCHANGED <<tokens, todo, funcs>>

TypesEnd ==
  /\ Head(todo) = <<"types">>
  /\ Current \in {")", "Eof"}
  /\ Then(<<>>)
  /\ UNCHANGED <<tokens, at, errors, funcs, values>>

-----------------------------------------------------------------------------
\* Mutant: a missing parenthesis is not reported.
EndSilent ==
  /\ Head(todo) = <<"end">>
  /\ at' = IF Current = ")" THEN Skip(at, 1) ELSE Recover(at)
  /\ Then(<<>>)
  /\ UNCHANGED <<tokens, errors, funcs, values>>

\* tex_par_paren_kind_end
End ==
  /\ Head(todo) = <<"end">>
  /\ IF Current = ")" THEN at' = Skip(at, 1) /\ UNCHANGED errors
                      ELSE at' = Recover(at) /\ Errors(1)
  /\ Then(<<>>)
  /\ UNCHANGED <<tokens, funcs, values>>

\* The module must be all there is.
Eof ==
  /\ Head(todo) = <<"eof">>
  /\ IF Current = "Eof" THEN UNCHANGED errors ELSE Errors(1)
  /\ Then(<<>>)
  /\ UNCHANGED <<tokens, at, funcs, values>>

-----------------------------------------------------------------------------
Init ==
  /\ tokens \in Input
  /\ at = 1
  /\ errors = 0
  /\ todo = <<<<"module">>>>
  /\ funcs = 0
  /\ values = 0

Next ==
  /\ todo # <<>>
  /\ \/ Module \/ Id \/ Func \/ InvalidField \/ FieldsEnd \/ TypeUse \/ NoTypeUse
     \/ ListBegin \/ ListEnd \/ First \/ Types \/ TypesEnd \/ End \/ Eof

Spec     == Init /\ [][Next]_vars
FairSpec == Spec /\ WF_vars(Next)

Done  == todo = <<>>
Stuck == ~Done /\ Head(todo) = <<"fields">> /\ Current = "(" /\ Peek # "func"

-----------------------------------------------------------------------------
(* The grammar, as a reference for the parser: an automaton over the       *)
(* tokens.  An edge <<p, t, q>> leads from p over the token t to q; "(p"   *)
(* is p after an opening parenthesis.                                      *)

\* A group of `kind` in a list: value types, or, if it may be named, an
\* identifier with at most one.
Group(open, kind, more, close) ==
  {<<open, kind, more>>, <<more, "i32", more>>, <<more, ")", close>>}

NamedGroup(open, kind, one, last, more, close) ==
  {<<open, kind, kind>>, <<kind, ")", close>>,
   <<kind, "i32", more>>, <<more, "i32", more>>, <<more, ")", close>>,
   <<kind, "id", one>>, <<one, ")", close>>, <<one, "i32", last>>, <<last, ")", close>>}

Edges ==
  {<<"begin", "(", "(begin">>, <<"(begin", "module", "module">>, <<"module", "id", "fields">>,
   <<"fields", ")", "accept">>, <<"fields", "(", "(fields">>, <<"(fields", "func", "func">>,
   <<"func", "id", "use">>, <<"use", "(", "(use">>, <<"(use", "type", "index">>,
   <<"params", "(", "(params">>, <<"params", ")", "locals">>,
   <<"results", "(", "(results">>, <<"results", ")", "locals">>,
   <<"locals", "(", "(locals">>, <<"locals", ")", "fields">>}
  \cup {<<"index", t, "params">> : t \in Kinds \ {"big"}}
  \cup NamedGroup("(params", "param", "param_one", "param_last", "param_more", "params")
  \cup Group("(params", "result", "result_more", "results")
  \cup Group("(results", "result", "result_more", "results")
  \cup NamedGroup("(locals", "local", "local_one", "local_last", "local_more", "locals")

\* What may be left out.
Closure(S) ==
  S \cup (IF "module" \in S THEN {"fields"} ELSE {})
    \cup (IF "func" \in S THEN {"use", "locals"} ELSE {})
    \cup (IF "use" \in S THEN {"locals"} ELSE {})

\* Where the token t leads from one of the states in S.
After(S, t) == Closure({e[3] : e \in {d \in Edges : d[1] \in S /\ d[2] = t}})

\* The states after the first i tokens.
Run[i \in 0 .. Len(tokens)] == IF i = 0 THEN {"begin"} ELSE After(Run[i - 1], tokens[i])

WellFormed == "accept" \in Run[Len(tokens)]

\* Tokens of a kind among the first n, but for the one a type use takes for
\* its index.
Counted(kind, n) ==
  {i \in 3 .. n : /\ tokens[i] = kind
                  /\ ~(tokens[i - 2] = "(" /\ tokens[i - 1] = "type")}

Count(kind) == Cardinality(Counted(kind, Len(tokens)))

-----------------------------------------------------------------------------
Step == {<<"module">>, <<"id">>, <<"fields">>, <<"type_use">>, <<"named", "param">>,
         <<"named", "local">>, <<"values", "result">>, <<"first">>, <<"types">>, <<"end">>,
         <<"eof">>}

\* Type correctness.
TypeOK ==
  /\ at \in 1 .. Len(tokens) + 1
  /\ errors \in 0 .. MaxErrors
  /\ todo \in Seq(Step)
  /\ funcs \in Nat /\ values \in Nat

\* A file is accepted without an error exactly if it is a module of the
\* grammar, in which any token may stand for the index of a type use and an
\* identifier for a group without a type.
AcceptsGrammar == Done => (errors = 0 <=> WellFormed)

\* Nothing of an accepted file is dropped: the lists have the functions and
\* the value types of the text.
NothingDropped ==
  (Done /\ errors = 0) => funcs = Count("func") /\ values = Count("i32")

\* The loops of the parser end for every file, but for the loop over the
\* fields of a module, which stays at the first invalid field.
EndsUnlessStuck == <>(Done \/ Stuck)
=============================================================================
