---------------------------- MODULE MCSemantics -----------------------------
(***************************************************************************)
(* Programs for the analyzer: the repository's examples, and families of   *)
(* small programs in which names and branch shapes vary over all           *)
(* combinations.                                                           *)
(***************************************************************************)
EXTENDS Semantics, ExampleTrees

LOCAL G == INSTANCE Grammar

-----------------------------------------------------------------------------
(* Names: two definitions and a use, at top level or in a function body,   *)
(* over every choice of kinds and names.                                   *)

Names == {"x", "y"}

Identity == G!Lambda(<<G!Formal("x", IntT)>>, <<V("x")>>)

Definitions(x) ==
  {G!Let(x, IntLit), G!Let(x, Identity), G!Let(x, V("y")),
   G!Extern(IntT, x, <<G!Formal("y", IntT)>>)}
    \cup {G!Defun(x, <<G!Formal(y, IntT)>>, <<V("y")>>) : y \in Names}

Uses(x) ==
  {V(x), G!Call(x, <<IntLit>>), G!SetVar(x, StrLit),
   G!Let("z", Plus(<<G!Lambda(<<G!Formal("y", IntT)>>, <<V(x)>>)>>))}

Sequences3 ==
  {<<d, e, u>> : d \in Definitions("x"), e \in Definitions("x") \cup Definitions("y"),
                 u \in Uses("x") \cup Uses("y")}

InFunction(stmts) == <<G!Defun("f", <<G!Formal("y", IntT)>>, stmts)>>

\* A body ends in an expression, a program need not.
Redefinitions == Sequences3 \cup {InFunction(Append(p, IntLit)) : p \in Sequences3}

\* A loop over a list, its iterator, a variable in its body and the formal of
\* the function around it sharing names; in the body of the function, as an
\* operand, or in a branch.
LoopPrograms ==
  LET Loops(i, l, v, w) ==
        LET body == <<G!Let(v, V(w)), V(i)>>
        IN  {G!DoLoop(i, <<V(l)>>, body), G!CollectLoop(i, <<V(l)>>, body),
             G!DoLoop(i, <<V(l)>>, <<G!CollectLoop(v, <<V(l)>>, <<V(w)>>)>>),
             G!DoLoop(i, <<V(l)>>, <<G!Call(w, <<IntLit>>)>>),
             G!Loop(body)}
      Places(e) == {e, Plus(<<e, IntLit>>), G!If(IntLit, e, e), G!SetVar("x", e)}
  IN  UNION {{<<G!Defun("f", <<G!Formal("x", Ints)>>, <<e, V("y")>>)>>
                : e \in UNION {Places(o) : o \in Loops(i, "x", v, w)}}
              : i \in Names, v \in Names, w \in Names}

\* Definitions inside a loop without a scope, an iterator over a lambda, a
\* definition in terms of itself, calls of what is not a function.
OddDefinitions ==
  {InFunction(<<G!Loop(<<d, IntLit>>), V("y")>>) : d \in Definitions("x")}
    \cup {InFunction(<<G!SetVar("y", G!Loop(<<G!Let("x", IntLit), V("x")>>)), V("x")>>),
          InFunction(<<G!DoLoop("x", <<G!Lambda(<<G!Formal("l", Ints)>>, <<V("l")>>)>>,
                                <<G!Call("x", <<G!Quote(<<IntLit>>)>>)>>)>>),
          InFunction(<<G!DoLoop("x", <<G!Quote(<<IntLit>>)>>, <<G!Call("x", <<IntLit>>)>>)>>),
          InFunction(<<G!Let("x", Plus(<<V("x"), IntLit>>)), V("x")>>),
          InFunction(<<G!Let("x", IntLit), G!Call("x", <<IntLit>>)>>),
          InFunction(<<G!Call("y", <<IntLit>>)>>),
          InFunction(<<G!WhenLoop(V("y"), V("y")), V("y")>>),
          InFunction(<<G!Call("f", <<>>)>>),
          <<G!Let("x", IntLit), InFunction(<<G!SetVar("x", V("y")), V("x")>>)[1], V("x")>>}

\* The list of a loop named like a variable of its body, and an if whose second branch
\* is visited before what a loop without a scope defines in the first.
OutOfTurn ==
  {InFunction(<<loop>>) : loop \in
     {G!CollectLoop("x", <<V("y")>>, <<G!Let("y", G!Quote(<<IntLit>>)), V("y")>>),
      G!DoLoop("x", <<V("y")>>, <<G!Let("y", G!Quote(<<IntLit>>)), V("y")>>)}}
    \cup {InFunction(<<G!If(c, Plus(<<G!Call("f", <<IntLit>>), G!SetVar("y", d)>>), e)>>)
            : c \in {IntLit, Plus(<<G!Call("f", <<IntLit>>), G!SetVar("y", G!Loop(<<G!Let("y", IntLit), IntLit>>))>>)},
              d \in {G!Loop(<<G!Let("y", IntLit), IntLit>>), V("y")}, e \in {V("y"), G!Call("f", <<V("y")>>)}}

NamePrograms == {G!Program(p) : p \in Redefinitions \cup LoopPrograms \cup OddDefinitions \cup OutOfTurn}

-----------------------------------------------------------------------------
(* Recursion: the shapes of an if, or of an if in an if, whose parts may   *)
(* be recursive calls.                                                     *)

Again == G!Call("f", <<V("n")>>)
Leaves == {IntLit, FloatLit, V("n"), Again}
Parts ==
  Leaves \cup {Plus(<<IntLit, Again>>), G!Quote(<<Again>>), G!Quote(<<IntLit>>), G!Loop(<<IntLit>>),
               G!Call("f", <<Again>>), Gt(Again, IntLit)}
InnerIfs == {G!If(c, a, e) : c \in {V("n"), Again}, a \in {IntLit, Again}, e \in {IntLit, Again, StrLit}}
Branches == Parts \cup InnerIfs

Function(e) == <<G!Defun("f", <<G!Formal("n", IntT)>>, <<e>>), G!Call("f", <<IntLit>>)>>
Bound(e) ==
  InFunction(<<G!Let("f", G!Lambda(<<G!Formal("n", IntT)>>, <<e>>)), G!Call("f", <<IntLit>>)>>)

Recursions ==
  {Function(G!If(c, a, e)) : c \in {V("n"), Again, Gt(Again, IntLit)}, a \in Branches, e \in Branches}
    \cup {Bound(G!If(V("n"), a, e)) : a \in Parts, e \in Parts}
    \cup {Function(e) : e \in Parts}
    \cup {Function(Plus(<<G!If(V("n"), a, e)>>)) : a \in Leaves, e \in Leaves}

ExamplePrograms == {G!Program(p) : p \in Examples}
RecursionPrograms == {G!Program(p) : p \in Recursions \cup Examples}

-----------------------------------------------------------------------------
(* Types: every operator, if, set and call over operands of every type.    *)

Operands == {V("n"), V("s"), V("l"), V("h"), V("b"), NilLit, FloatLit, G!Quote(<<NilLit>>),
             G!Quote(<<V("s"), V("n")>>), G!Loop(<<IntLit>>)}

Operations ==
  {G!BinOp(op, a, b) : op \in {"LESS", "CONS"}, a \in Operands, b \in Operands}
    \cup {G!UnaryOp(op, a) : op \in {"NOT", "CAR", "CDR"}, a \in Operands}
    \cup {G!ListOp(op, <<a, b>>) : op \in {"PLUS", "MINUS", "AND", "PRINT"}, a \in Operands, b \in Operands}
    \cup {G!If(V("n"), a, b) : a \in Operands, b \in Operands}
    \cup {G!If(a, IntLit, IntLit) : a \in Operands}
    \cup {G!SetVar("s", a) : a \in Operands}
    \cup {G!Call("g", <<a, b>>) : a \in Operands, b \in Operands}
    \cup {G!DoLoop("i", <<a>>, <<V("i")>>) : a \in Operands}
    \cup {G!CollectLoop("i", <<V("l")>>, <<a>>) : a \in Operands}
    \cup {G!Call("g", <<V("n")>>), G!Call("undefined", <<V("n")>>)}

Signature == <<G!Formal("n", IntT), G!Formal("s", StringT), G!Formal("l", Ints),
               G!Formal("h", Scalar("LAMBDA")), G!Formal("b", ListOf(StringT))>>

TypePrograms ==
  {G!Program(<<G!Extern(IntT, "g", <<G!Formal("s", StringT), G!Formal("l", Ints)>>),
               G!Defun("f", Signature, <<e>>)>>) : e \in Operations}

\* All of them.
AnalyzedPrograms == NamePrograms \cup RecursionPrograms \cup TypePrograms
=============================================================================
