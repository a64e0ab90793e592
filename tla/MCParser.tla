------------------------------ MODULE MCParser ------------------------------
(***************************************************************************)
(* Programs as trees of Grammar, the right parses a parser reduces for     *)
(* them, and the tree at the end read back from the heap.                  *)
(***************************************************************************)
EXTENDS Parser, SequencesExt

G == INSTANCE Grammar
E == INSTANCE ExampleTrees

Reduced(rule, name, op, type) == [rule |-> rule, name |-> name, op |-> op, type |-> type]
Bare(rule) == Reduced(rule, "", "", Null)
Of(t, rule) == Reduced(rule, t.name, t.op, t.type)

RECURSIVE ElementsOf(_)
ElementsOf(l) == IF Len(l.kids) = 1 THEN l.kids ELSE <<l.kids[1]>> \o ElementsOf(l.kids[2])

FormalsParse(formals) ==
  FlattenSeq([i \in DOMAIN formals |->
                <<Of(formals[i], "formal"), Bare(IF i = 1 THEN "formals" ELSE "more_formals")>>])

\* Trees one after the other, and trees that become a list.
RECURSIVE RightParse(_), All(_), ListFrom(_, _)
All(ts) == IF ts = <<>> THEN <<>> ELSE RightParse(Head(ts)) \o All(Tail(ts))
ListFrom(rule, es) ==
  IF es = <<>> THEN <<>>
  ELSE Append(RightParse(Head(es)), Reduced(rule, "", "", G!OpenList)) \o ListFrom("element", Tail(es))
List(es) == ListFrom("list", es)

RightParse(t) ==
  LET kids == t.kids
      body == IF kids # <<>> /\ Last(kids).kind = "function_body" THEN <<Last(kids)>> ELSE <<>>
      formals == SubSeq(kids, 1, Len(kids) - Len(body))
      without == [function_definition |-> "no_formals", extern_function |-> "no_extern_formals"]
  IN  CASE t.kind = "list" -> Append(List(ElementsOf(t)), Bare("quote"))
        [] t.kind = "list_op" -> Append(List(ElementsOf(kids[1])), Of(t, t.kind))
        [] t.kind = "function_call" ->
             Append(List(kids), Of(t, IF kids = <<>> THEN "no_arguments" ELSE t.kind))
        [] t.kind = "function_body" ->
             All(kids) \o <<Bare("body")>> \o [i \in 1 .. Len(kids) - 1 |-> Bare("stmt")]
        [] t.kind \in {"function_definition", "extern_function", "lambda"} ->
             FormalsParse(formals) \o All(body)
               \o <<Of(t, IF formals = <<>> THEN without[t.kind] ELSE t.kind)>>
        [] t.kind = "do_loop" -> List(kids[1].kids) \o All(<<kids[2]>>) \o <<Of(kids[1], t.kind)>>
        [] t.kind = "collect_loop" -> List(kids[2].kids) \o All(<<kids[1]>>) \o <<Of(kids[2], t.kind)>>
        [] t.kind = "when_loop" -> List(<<G!Literal("INT")>>) \o All(kids) \o <<Bare(t.kind)>>
        [] OTHER -> Append(All(kids), Of(t, t.kind))

ProgramParse(stmts) == 
  FoldLeft(LAMBDA acc, s : Append(acc \o RightParse(s), Bare("program")), <<>>, stmts)

-----------------------------------------------------------------------------
(* Every construct in every place that takes an expression or a statement. *)

One == G!Literal("INT")
V(x) == G!Var(x)
A == G!Formal("a", Scalar("INT"))
B == G!Formal("b", ListOf(Scalar("FLOAT")))

Around(e) ==
  {G!If(e, V("x"), One), G!If(V("x"), e, One), G!If(V("x"), One, e), G!BinOp("LESS", V("x"), e),
   G!BinOp("CONS", e, V("x")), G!UnaryOp("CAR", e), G!ListOp("PLUS", <<e>>), G!ListOp("AND", <<One, e, V("x")>>),
   G!SetVar("x", e), G!Call("f", <<e>>), G!Call("f", <<V("x"), e, One>>), G!Quote(<<e>>), G!Quote(<<e, V("x"), One>>),
   G!Lambda(<<A>>, <<e>>), G!Lambda(<<A, B>>, <<V("x"), e, One>>), G!Loop(<<e>>),
   G!DoLoop("i", <<e>>, <<V("x")>>), G!DoLoop("i", <<V("x"), One>>, <<G!Let("x", e), V("y")>>),
   G!CollectLoop("i", <<One, e, V("x")>>, <<One>>), G!CollectLoop("i", <<V("x")>>, <<One, e>>)}

Expressions == {G!Literal("NIL"), V("x"), G!Call("f", <<>>)}
Nested == UNION {Around(e) : e \in Expressions \cup Around(V("x"))}

StatementLists == {
  <<G!Let("x", One), G!Defun("f", <<>>, <<G!Let("y", One), V("y"), One>>), V("x")>>,
  <<G!Extern(Scalar("INT"), "g", <<A, B, A>>), G!Extern(Scalar("BOOL"), "h", <<>>), G!Call("g", <<One>>)>>,
  <<G!Defun("f", <<A, B>>, <<G!Defun("k", <<A>>, <<V("a")>>), G!Call("k", <<One, V("a")>>)>>)>>}

ParsedPrograms == {<<e>> : e \in Nested} \cup StatementLists \cup E!Examples
WhenPrograms == {<<G!WhenLoop(e, V("x"))>> : e \in Around(One)} \cup {<<G!Loop(<<G!WhenLoop(One, One), One>>)>>}

RightParses == [p \in ParsedPrograms |-> ProgramParse(p)]
ParsedInputs == {RightParses[p] : p \in ParsedPrograms} \cup {ProgramParse(p) : p \in WhenPrograms}
WhenInputs == {ProgramParse(p) : p \in WhenPrograms}

-----------------------------------------------------------------------------
(* Properties                                                              *)

RECURSIVE ReadBack(_)
ReadBack(n) ==
  G!Tree(heap[n].kind, heap[n].name, heap[n].op, heap[n].type,
         [i \in DOMAIN heap[n].children |-> ReadBack(heap[n].children[i])])

\* The actions of the grammar, with their transfers, prepended statements and lists
\* that grow at the end, build the tree the analyzer is given here: Grammar says
\* outright what Parser builds step by step.
ParserBuildsTheTree ==
  status = "parsed" => \E p \in ParsedPrograms : RightParses[p] = input /\ ReadBack(1) = G!Root(p)
=============================================================================
