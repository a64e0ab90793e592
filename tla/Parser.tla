------------------------------- MODULE Parser -------------------------------
(***************************************************************************)
(* The parser's semantic actions, src/slc.yy, over the stack of semantic   *)
(* values.  Which productions are reduced, in which order, is the input: a *)
(* right parse of a program, each reduction with what its tokens carry.    *)
(* A stack entry is a symbol of the grammar with its nodes: one, or the    *)
(* formals read so far.  Node 1 is the root, on main's stack.              *)
(***************************************************************************)
EXTENDS SyntaxTree, FiniteSets

CONSTANT Inputs  \* sequences of reductions

VARIABLES
  input, at,  \* the reductions and how many of them are done
  stack,      \* the symbols and their values
  heap,       \* the nodes, freed ones included
  freed,      \* the nodes deleted
  status      \* parsing, parsed, destroyed; or exited, undefined

pvars == <<input, at, stack, heap, freed, status>>

Rules ==
  {"literal", "variable", "list", "element", "quote", "if_expr", "binary_op", "unary_op", "list_op",
   "set_expression", "function_call", "no_arguments", "body", "stmt", "variable_definition", "formal",
   "formals", "more_formals", "function_definition", "no_formals", "extern_function", "no_extern_formals",
   "lambda", "infinite_loop", "do_loop", "collect_loop", "when_loop", "program"}

\* What bison takes off the stack and puts there; a statement is either of two.
Symbols == {"expression", "expressions", "body", "formal", "formals", "definition"}
Statements == {"expression", "definition"}

Reduction == [rule : Rules, name : STRING, op : STRING, type : MaybeType]
ASSUME InputsAssumption == \A i \in Inputs : i \in Seq(Reduction)

Statuses == {"parsing", "parsed", "destroyed", "exited", "undefined"}

ParserInit ==
  /\ input \in Inputs /\ at = 0
  /\ stack = <<>>
  /\ heap = <<NewNode("root", "", "", Null)>>
  /\ freed = {} /\ status = "parsing"

-----------------------------------------------------------------------------
(* Reductions                                                              *)

Token == input[at + 1]

\* The i-th value from the top, a node there, and what k values leave below.
Top(i) == stack[Len(stack) + 1 - i]
NodeAt(i) == Top(i).nodes[1]
Below(k) == SubSeq(stack, 1, Len(stack) - k)

\* A production is reduced with its right-hand side on top of the stack.
Reading(rules, symbols) ==
  /\ status = "parsing" /\ at < Len(input) /\ Token.rule \in rules
  /\ Len(symbols) <= Len(stack)
  /\ \A i \in 1 .. Len(symbols) : stack[Len(stack) - Len(symbols) + i].symbol = symbols[i]

New == Len(heap) + 1
Made(kind) == Append(heap, NewNode(kind, Token.name, Token.op, Token.type))

\* k values are replaced by a symbol with its nodes.  The nodes of gone are deleted
\* when the heap is h, and later is what the rest of the action makes of it.  Freed
\* nodes must neither be deleted nor written.
ReduceThen(k, symbol, nodes, h, gone, later) ==
  /\ stack' = Append(Below(k), [symbol |-> symbol, nodes |-> nodes])
  /\ at' = at + 1
  /\ heap' = later
  /\ freed' = freed \cup gone
  /\ status' = IF /\ gone \cap freed = {}
                  /\ \A n \in freed : h[n] = heap[n]
                  /\ \A n \in freed \cup gone : later[n] = h[n]
                THEN status ELSE "undefined"
  /\ UNCHANGED input
Reduce(k, symbol, nodes, h, gone) == ReduceThen(k, symbol, nodes, h, gone, h)

\* A node of the given children.
Build(symbol, kind, k, kids) == Reduce(k, symbol, <<New>>, AddChildren(Made(kind), New, kids), {})

SimpleExpression ==
  Reading({"literal", "variable"}, <<>>) /\ Build("expression", Token.rule, 0, <<>>)

FirstExpression ==
  /\ Reading({"list"}, <<"expression">>)
  /\ Reduce(1, "expressions", <<New>>, SetHead(Made("list"), New, NodeAt(1)), {})

\* Mutant: the new cell goes behind the first one.
NextExpressionSecond ==
  /\ Reading({"element"}, <<"expressions", "expression">>)
  /\ LET l == NodeAt(2)
     IN  Reduce(2, "expressions", <<l>>, SetHead(SetTail(Made("list"), l, New), New, NodeAt(1)), {})

NextExpression ==
  /\ Reading({"element"}, <<"expressions", "expression">>)
  /\ LET l == NodeAt(2)
     IN  Reduce(2, "expressions", <<l>>,
                SetHead(SetTail(Made("list"), LastCell(heap, l), New), New, NodeAt(1)), {})

Quote == Reading({"quote"}, <<"expressions">>) /\ Reduce(1, "expression", Top(1).nodes, heap, {})

Operator ==
  \/ /\ Reading({"if_expr"}, <<"expression", "expression", "expression">>)
     /\ Build("expression", "if_expr", 3, <<NodeAt(3), NodeAt(2), NodeAt(1)>>)
  \/ /\ Reading({"binary_op"}, <<"expression", "expression">>)
     /\ Build("expression", "binary_op", 2, <<NodeAt(2), NodeAt(1)>>)
  \/ /\ \/ Reading({"unary_op", "set_expression"}, <<"expression">>)
        \/ Reading({"list_op"}, <<"expressions">>)
     /\ Build("expression", Token.rule, 1, <<NodeAt(1)>>)

\* Mutant: the list of arguments is left behind.
FunctionCallLeaking ==
  \/ Reading({"no_arguments"}, <<>>) /\ Build("expression", "function_call", 0, <<>>)
  \/ /\ Reading({"function_call"}, <<"expressions">>)
     /\ Reduce(1, "expression", <<New>>, Transfer(Made("function_call"), New, NodeAt(1)), {})

\* The arguments become the call's children, and the list is deleted.
FunctionCall ==
  \/ Reading({"no_arguments"}, <<>>) /\ Build("expression", "function_call", 0, <<>>)
  \/ /\ Reading({"function_call"}, <<"expressions">>)
     /\ LET h == Transfer(Made("function_call"), New, NodeAt(1))
        IN  Reduce(1, "expression", <<New>>, h, Owned(h, NodeAt(1)))

\* Mutant: statements are put behind what has been read of the body.
BodyAppending ==
  \/ Reading({"body"}, <<"expression">>) /\ Build("body", "function_body", 1, <<NodeAt(1)>>)
  \/ /\ \E s \in Statements : Reading({"stmt"}, <<s, "body">>)
     /\ Reduce(2, "body", Top(1).nodes, AddChild(heap, NodeAt(1), NodeAt(2)), {})

\* The last expression begins a body, and the statements are put before it.
Body ==
  \/ Reading({"body"}, <<"expression">>) /\ Build("body", "function_body", 1, <<NodeAt(1)>>)
  \/ /\ \E s \in Statements : Reading({"stmt"}, <<s, "body">>)
     /\ Reduce(2, "body", Top(1).nodes, PrependChild(heap, NodeAt(1), NodeAt(2)), {})

VariableDefinition ==
  /\ Reading({"variable_definition"}, <<"expression">>)
  /\ Build("definition", "variable_definition", 1, <<NodeAt(1)>>)

Formals ==
  \/ Reading({"formal"}, <<>>) /\ Build("formal", "formal", 0, <<>>)
  \/ Reading({"formals"}, <<"formal">>) /\ Reduce(1, "formals", Top(1).nodes, heap, {})
  \/ /\ Reading({"more_formals"}, <<"formals", "formal">>)
     /\ Reduce(2, "formals", Top(2).nodes \o Top(1).nodes, heap, {})

FunctionDefinition ==
  \/ /\ Reading({"no_formals"}, <<"body">>)
     /\ Build("definition", "function_definition", 1, <<NodeAt(1)>>)
  \/ /\ Reading({"function_definition", "lambda"}, <<"formals", "body">>)
     /\ Build(IF Token.rule = "lambda" THEN "expression" ELSE "definition",
              Token.rule, 2, Append(Top(2).nodes, NodeAt(1)))
  \/ Reading({"no_extern_formals"}, <<>>) /\ Build("definition", "extern_function", 0, <<>>)
  \/ /\ Reading({"extern_function"}, <<"formals">>)
     /\ Build("definition", "extern_function", 1, Top(1).nodes)

-----------------------------------------------------------------------------
(* Loops                                                                   *)

Loop == New
Iterator == New + 1
MadeLoop(kind) ==
  heap \o <<NewNode(kind, "", "", Null), NewNode("iterator_definition", Token.name, "", Null)>>

InfiniteLoop ==
  Reading({"infinite_loop"}, <<"body">>) /\ Build("expression", "infinite_loop", 1, <<NodeAt(1)>>)

IteratingLoop ==
  /\ Reading({"do_loop", "collect_loop"}, <<"expressions", "body">>)
  /\ LET l == NodeAt(2)
         h == Transfer(MadeLoop(Token.rule), Iterator, l)
         kids == IF Token.rule = "do_loop" THEN <<Iterator, NodeAt(1)>> ELSE <<NodeAt(1), Iterator>>
     IN  ReduceThen(2, "expression", <<Loop>>, h, Owned(h, l), AddChildren(h, Loop, kids))

\* The iterator gets the list as a child when the list is deleted, and the loop
\* never gets the iterator.
WhenLoop ==
  /\ Reading({"when_loop"}, <<"expressions", "expression", "expression">>)
  /\ LET l == NodeAt(3)
         h == Transfer(MadeLoop("when_loop"), Iterator, l)
     IN  ReduceThen(3, "expression", <<Loop>>, h, Owned(h, l),
                    AddChildren(AddChild(h, Iterator, l), Loop, <<NodeAt(2), NodeAt(1)>>))

-----------------------------------------------------------------------------
(* The program                                                             *)

\* A statement is complete: the root gets it.
Program ==
  /\ Len(stack) = 1 /\ \E s \in Statements : Reading({"program"}, <<s>>)
  /\ stack' = Below(1) /\ at' = at + 1
  /\ heap' = AddChild(heap, 1, NodeAt(1))
  /\ status' = IF at' = Len(input) THEN "parsed" ELSE status
  /\ UNCHANGED <<input, freed>>

\* yyerror ends the process, whatever is on the stack.
SyntaxError ==
  /\ status = "parsing" /\ status' = "exited"
  /\ UNCHANGED <<input, at, stack, heap, freed>>

\* The root's destructor, when main returns.
Destroy ==
  /\ status = "parsed"
  /\ freed' = freed \cup Owned(heap, 1)
  /\ status' = IF Owned(heap, 1) \cap freed = {} THEN "destroyed" ELSE "undefined"
  /\ UNCHANGED <<input, at, stack, heap>>

ParserNext ==
  \/ SimpleExpression \/ FirstExpression \/ NextExpression \/ Quote \/ Operator \/ FunctionCall
  \/ Body \/ VariableDefinition \/ Formals \/ FunctionDefinition
  \/ InfiniteLoop \/ IteratingLoop \/ WhenLoop
  \/ Program \/ SyntaxError \/ Destroy

ParserSpec == ParserInit /\ [][ParserNext]_pvars

-----------------------------------------------------------------------------
(* Properties                                                              *)

Live == 1 .. Len(heap) \ freed
Roots == {1} \cup UNION {Range(stack[i].nodes) : i \in DOMAIN stack}
Owners(n) == UNION {{<<p, i>> : i \in {j \in DOMAIN heap[p].children : heap[p].children[j] = n}} : p \in Live}

\* Between two reductions the live nodes are trees, under the root and on the stack:
\* every other node is in one vector once, that of its parent, and nothing that is
\* free is in any.  Head and tail of a cell are its children.
TreesAreOwned ==
  status \in {"parsing", "parsed"} =>
    /\ Roots \subseteq Live
    /\ \A n \in Live :
         /\ Range(heap[n].children) \subseteq Live
         /\ IF n \in Roots THEN Owners(n) = {}
            ELSE Cardinality(Owners(n)) = 1 /\ \E o \in Owners(n) : o[1] = heap[n].parent
         /\ heap[n].kind = "list" =>
              heap[n].children = IF heap[n].tail = 0 THEN <<heap[n].head>> ELSE <<heap[n].head, heap[n].tail>>

\* The handing over of lists and the destructors free every node once.
EveryNodeIsFreedOnce == status = "destroyed" => freed = 1 .. Len(heap)

\* No action but that of a when loop touches what is free.
OnlyWhenLoopsUseFreedNodes == status = "undefined" => at > 0 /\ input[at].rule = "when_loop"

ParserTypeOK ==
  /\ input \in Inputs /\ at \in 0 .. Len(input)
  /\ stack \in Seq([symbol : Symbols, nodes : Seq(1 .. Len(heap))])
  /\ heap \in Seq(Node)
  /\ \A n \in DOMAIN heap :
       {heap[n].parent, heap[n].head, heap[n].tail} \cup Range(heap[n].children) \subseteq 0 .. Len(heap)
  /\ freed \subseteq 1 .. Len(heap) /\ status \in Statuses
-----------------------------------------------------------------------------
(* What a comment of the grammar says                                      *)

\* slc.yy:190 "transfer child to this node": the iterator of a loop gets the elements
\* and nothing that was deleted.
IteratorsGetLiveElements ==
  \A n \in DOMAIN heap : heap[n].kind = "iterator_definition" => Range(heap[n].children) \cap freed = {}
=============================================================================
