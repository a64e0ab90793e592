------------------------------ MODULE Grammar -------------------------------
(***************************************************************************)
(* The productions of slc.yy as constructors of syntax trees, and the      *)
(* numbering that turns a tree into the node table Semantics works on.     *)
(* A tree is [kind, name, op, type, kids]; type is what the parser itself  *)
(* sets on the node, and is null for most of them.                         *)
(***************************************************************************)
EXTENDS TypeInfo, Sequences

Tree(kind, name, op, type, kids) ==
  [kind |-> kind, name |-> name, op |-> op, type |-> type, kids |-> kids]
Plain(kind, kids) == Tree(kind, "", "", Null, kids)

\* sexpr: literals carry their type, a variable the marker VARIABLE.
Literal(id) == Tree("literal", "", "", Scalar(id), <<>>)
Var(x) == Tree("variable", x, "", Unresolved, <<>>)

\* expressions: a chain of list nodes, each with its head and then its tail.
RECURSIVE Expressions(_)
Expressions(es) ==
  Tree("list", "", "", OpenList,
       IF Len(es) = 1 THEN es ELSE <<Head(es), Expressions(Tail(es))>>)
Quote(es) == Expressions(es)

\* expression
If(c, a, e) == Plain("if_expr", <<c, a, e>>)
BinOp(op, l, r) == Tree("binary_op", "", op, Null, <<l, r>>)
UnaryOp(op, e) == Tree("unary_op", "", op, Null, <<e>>)
ListOp(op, es) == Tree("list_op", "", op, Null, <<Expressions(es)>>)
SetVar(x, e) == Tree("set_expression", x, "", Null, <<e>>)
Call(f, es) == Tree("function_call", f, "", Null, es)

\* body: the statements in order, the last of them the return expression.
Body(stmts) == Plain("function_body", stmts)

\* definition
Let(x, e) == Tree("variable_definition", x, "", Null, <<e>>)
Formal(x, t) == Tree("formal", x, "", t, <<>>)
Defun(f, formals, stmts) ==
  Tree("function_definition", f, "", Null, Append(formals, Body(stmts)))
Extern(t, f, formals) == Tree("extern_function", f, "", t, formals)
Lambda(formals, stmts) == Plain("lambda", Append(formals, Body(stmts)))

(***************************************************************************)
(* loop.  A do loop gets its iterator before its body, a collect loop its  *)
(* body before its iterator.  A when loop builds an iterator and drops it: *)
(* set_iterator is never called, so the tree holds the condition and the   *)
(* returned expression only.                                               *)
(***************************************************************************)
Iterator(x, es) == Tree("iterator_definition", x, "", Null, es)
Loop(stmts) == Plain("infinite_loop", <<Body(stmts)>>)
DoLoop(x, es, stmts) == Plain("do_loop", <<Iterator(x, es), Body(stmts)>>)
CollectLoop(x, es, stmts) == Plain("collect_loop", <<Body(stmts), Iterator(x, es)>>)
WhenLoop(c, r) == Plain("when_loop", <<c, r>>)

\* program: the root node collects the statements.
Root(stmts) == Plain("root", stmts)

(***************************************************************************)
(* Node identities: nodes are numbered in the order in which a walk from   *)
(* the root, children from left to right, first meets them, so that the    *)
(* subtree of n is the interval n..last.                                   *)
(***************************************************************************)
RECURSIVE Number(_, _, _), NumberAll(_, _, _)
NumberAll(ts, id, parent) ==
  IF ts = <<>> THEN <<>>
  ELSE LET first == Number(Head(ts), id, parent)
       IN  first \o NumberAll(Tail(ts), id + Len(first), parent)

Number(t, id, parent) ==
  LET below == NumberAll(t.kids, id + 1, id)
      ids == SelectSeq([i \in DOMAIN below |-> id + i], LAMBDA n : below[n - id].parent = id)
      self == [kind |-> t.kind, name |-> t.name, op |-> t.op, type |-> t.type,
               parent |-> parent, children |-> ids, last |-> id + Len(below)]
  IN  <<self>> \o below

Program(stmts) == Number(Root(stmts), 1, 0)
=============================================================================
