----------------------------- MODULE MCCodegen ------------------------------
(***************************************************************************)
(* Programs for the generator: those of MCSemantics, and families in which *)
(* the analyzer accepts most members.                                      *)
(***************************************************************************)
EXTENDS MCSemantics, Codegen

LOCAL G == INSTANCE Grammar

-----------------------------------------------------------------------------
(* Names: functions whose formals, variables, iterators and inner lambdas  *)
(* share two names, and what reads them.                                   *)

List == G!Formal("l", Ints)
Over(x, stmts) == G!DoLoop(x, <<V("l")>>, stmts)
Collect(x, stmts) == G!CollectLoop(x, <<V("l")>>, stmts)
Apply(x, e) == <<G!Let("h", G!Lambda(<<G!Formal(x, IntT)>>, <<e>>)), G!Call("h", <<IntLit>>)>>

\* Pieces of a body in which x is what it introduces and e what it reads.
Pieces(x, e) ==
  {<<G!Let(x, IntLit)>>, <<Over(x, <<e>>)>>, <<Collect(x, <<e>>)>>, Apply(x, e),
   <<Over(x, Apply("y", e) \o <<e>>)>>, <<Over(x, <<G!Let("y", IntLit), Collect("y", <<e>>), e>>)>>,
   <<G!Let(x, IntLit), G!SetVar(x, Plus(<<e, IntLit>>))>>,
   <<G!Defun("k", <<G!Formal(x, IntT)>>, <<e>>)>>}

SharedNames ==
  {<<G!Defun("f", <<G!Formal(a, IntT)>>, <<V(a)>>),
     G!Defun("g", <<List, G!Formal("y", IntT)>>, p \o q \o <<r>>)>>
     : a \in {"x", "z"}, p \in Pieces("x", V("x")) \cup Pieces("x", V("y")),
       q \in {<<>>} \cup Pieces("y", V("x")) \cup Pieces("x", V("x")), r \in {V("x"), V("y")}}

SharedNamePrograms == {G!Program(p) : p \in SharedNames}

-----------------------------------------------------------------------------
(* Control flow: ifs, loops, calls and lambdas in every place of each       *)
(* other.  Variables are read only where no operator is above an if.       *)

Quoted == G!Quote(<<IntLit, IntLit>>)
Test == Gt(IntLit, IntLit)

Wrap(e) ==
  {G!If(Gt(e, IntLit), IntLit, IntLit), G!If(Test, e, IntLit), G!If(Test, IntLit, e),
   G!DoLoop("i", <<Quoted>>, <<e>>), G!DoLoop("i", <<Quoted>>, <<e, V("i")>>),
   G!DoLoop("i", <<G!Quote(<<IntLit, e>>)>>, <<IntLit>>),
   Plus(<<e, IntLit>>), Plus(<<G!CollectLoop("i", <<Quoted>>, <<e>>)>>),
   G!Call("g", <<e>>), Car(Cons(e, Quoted)),
   Car(Cdr(G!CollectLoop("i", <<Quoted>>, <<e, G!ListOp("TIMES", <<V("i"), e>>)>>)))}
WrapIn(S) == UNION {Wrap(e) : e \in S}

InG(stmts) ==
  G!Program(<<G!Extern(IntT, "g", <<G!Formal("n", IntT)>>), G!Defun("f", <<G!Formal("n", IntT)>>, stmts)>>)
Branching == G!If(Gt(V("n"), IntLit), IntLit, V("n"))

ControlPrograms ==
  {InG(<<e>>) : e \in WrapIn(WrapIn({IntLit, Branching, G!Loop(<<IntLit>>)}))}
    \cup {InG(<<G!Let("h", G!Lambda(<<G!Formal("n", IntT)>>, <<e>>)), G!Call("h", <<V("n")>>), e>>)
            : e \in WrapIn(WrapIn({V("n")}))}
    \cup {InG(<<G!Let("v", e), V("v")>>) : e \in WrapIn(Wrap(IntLit))}

-----------------------------------------------------------------------------
(* Types: every operator the analyzer accepts, over operands of all types  *)
(* the generator has values for.                                           *)

Values == {V("n"), V("s"), V("l"), V("p"), V("d"), FloatLit, Gt(V("n"), IntLit), NilLit,
           G!Quote(<<V("n"), V("d")>>), G!Quote(<<V("d")>>), Car(V("p")), Car(V("l")),
           G!Lambda(<<>>, <<IntLit>>)}

TypedExpressions ==
  {G!BinOp(op, a, b) : op \in {"LESS", "CONS"}, a \in Values, b \in Values}
    \cup {G!UnaryOp(op, a) : op \in {"NOT", "CAR", "CDR"}, a \in Values}
    \cup {G!ListOp(op, <<a, b>>) : op \in {"DIVIDE", "AND", "PRINT"}, a \in Values, b \in Values}
    \cup {G!If(Gt(V("n"), IntLit), a, b) : a \in Values, b \in Values}
    \cup {G!If(a, IntLit, IntLit) : a \in Values}
    \cup {G!Call(g, <<a>>) : g \in {"gi", "gd", "gb", "gs", "gl", "gp"}, a \in Values}
    \cup {G!DoLoop("i", <<a>>, <<V("i")>>) : a \in Values}
    \cup {G!CollectLoop("i", <<V("l")>>, <<a>>) : a \in Values}

Variables == <<G!Formal("n", IntT), G!Formal("s", StringT), G!Formal("l", Ints),
               G!Formal("p", ListOf(FloatT)), G!Formal("d", FloatT)>>
Takes(g, t) == G!Extern(IntT, g, <<G!Formal("a", t)>>)
Externs == <<Takes("gi", IntT), Takes("gd", FloatT), Takes("gb", Scalar("BOOL")), Takes("gs", StringT),
             Takes("gl", Ints), Takes("gp", ListOf(FloatT))>>

OperationBodies ==
  {<<G!Let("v", e), V("v"), e>> : e \in TypedExpressions}
    \cup {<<G!Let("v", IntLit), G!SetVar("v", e), V("v")>> : e \in TypedExpressions}
OperationPrograms == {G!Program(Externs \o <<G!Defun("f", Variables, b)>>) : b \in OperationBodies}

-----------------------------------------------------------------------------
(* Calls: two definitions of callables and two calls, over three names,    *)
(* one of them a function of the runtime; in functions and at the top.     *)

CallNames == {"x", "y", "slc_int_list_add"}
CallDefinitions(x) ==
  {G!Let(x, IntLit), G!Let(x, G!Lambda(<<G!Formal("b", Ints)>>, <<Car(V("b"))>>)),
   G!Extern(IntT, x, <<G!Formal("b", Ints)>>), G!Defun(x, <<G!Formal("b", Ints)>>, <<IntLit>>)}
Defined == UNION {{<<d, x>> : d \in CallDefinitions(x)} : x \in CallNames}
CallIt(x) == G!Call(x, <<Quoted>>)

CallPrograms ==
  {G!Program(<<d[1], e[1], G!Defun("f", <<>>, <<CallIt(d[2]), CallIt(e[2])>>)>>) : d, e \in Defined}
    \cup {G!Program(<<d[1], G!Defun("f", <<>>, <<e[1], CallIt(d[2]), CallIt(e[2])>>), CallIt(d[2])>>)
             : d, e \in Defined}

-----------------------------------------------------------------------------
(* What stands after a function, at the top: the generator emits it where  *)
(* the function has ended.                                                 *)

Trailing ==
  {IntLit, Test, G!If(Test, IntLit, IntLit), G!Let("v", IntLit), G!Let("v", G!If(Test, IntLit, IntLit)),
   G!Let("v", G!Lambda(<<>>, <<IntLit>>)), Plus(<<G!If(Test, IntLit, IntLit)>>),
   G!DoLoop("i", <<Quoted>>, <<IntLit>>), G!CollectLoop("i", <<Quoted>>, <<G!If(Test, V("i"), IntLit)>>)}
Fn(f) == G!Defun(f, <<>>, <<G!If(Test, IntLit, IntLit)>>)
TrailingPrograms ==
  {G!Program(<<Fn("f"), t, u>>) : t, u \in Trailing} \cup {G!Program(<<Fn("f"), t, Fn("g")>>) : t \in Trailing}

-----------------------------------------------------------------------------
(* What a loop's body defines, and uses of it in the body, in the list of    *)
(* the loop and after the loop.                                            *)

BodyDefinitions == {G!Let("g", IntLit), G!Let("g", G!Lambda(<<>>, <<IntLit>>)), G!Defun("g", <<>>, <<IntLit>>)}
Readings == {V("g"), G!Call("g", <<>>), Plus(<<V("g"), IntLit>>), Plus(<<G!Call("g", <<>>), IntLit>>)}

LoopsOver(d, e) ==
  {<<G!CollectLoop("i", <<G!Quote(<<e>>)>>, <<d, V("i")>>)>>, <<G!DoLoop("i", <<G!Quote(<<e>>)>>, <<d, V("i")>>)>>,
   <<G!CollectLoop("i", <<Quoted>>, <<d, e>>)>>, <<G!DoLoop("i", <<Quoted>>, <<d, e>>), e>>,
   <<G!Loop(<<d, IntLit>>), e>>, <<G!Loop(<<d, e>>), IntLit>>,
   <<G!CollectLoop("i", <<G!CollectLoop("j", <<Quoted>>, <<e>>)>>, <<d, V("i")>>)>>,
   <<G!DoLoop("i", <<G!Lambda(<<>>, <<Quoted>>)>>, <<G!Call("i", <<>>), d, e>>)>>}
LoopBodyPrograms ==
  {G!Program(<<G!Defun("f", <<>>, b)>>) : b \in UNION {LoopsOver(d, e) : d \in BodyDefinitions, e \in Readings}}

-----------------------------------------------------------------------------
(* A name that a list, a body and a lambda in them all introduce: the list  *)
(* of a loop is generated before its body, wherever it stands in the text. *)

Lambda(stmts) == G!Let("h", G!Lambda(<<G!Formal("z", IntT)>>, stmts))
Shadow == G!Let("h", G!Lambda(<<G!Formal("x", IntT)>>, <<V("x")>>))
ListsOf == {Quoted, G!CollectLoop("j", <<Quoted>>, <<Shadow, IntLit>>), G!CollectLoop("x", <<Quoted>>, <<IntLit>>),
            G!CollectLoop("j", <<G!Quote(<<V("x")>>)>>, <<V("x")>>)}
ReadsOf == {<<V("x")>>, <<Shadow, V("x")>>, <<Lambda(<<G!Let("x", IntLit), V("x")>>), IntLit>>, <<Lambda(<<V("z")>>), V("x")>>,
            <<Lambda(<<G!DoLoop("z", <<Quoted>>, <<V("z")>>), V("z")>>), V("x")>>}
NamedLoops ==
  UNION {{<<G!DoLoop(x, <<l>>, r)>>, <<G!CollectLoop(x, <<l>>, r)>>} : x \in {"x", "i"}, l \in ListsOf, r \in ReadsOf}
OrderPrograms ==
  {G!Program(<<G!Defun("f", <<G!Formal("x", IntT)>>, b \o <<V("x")>>)>>) : b \in NamedLoops}
    \cup {G!Program(<<G!Defun("f", <<>>, <<G!Let("x", IntLit)>> \o b \o <<V("x")>>)>>) : b \in NamedLoops}
    \cup {G!Program(<<Fn("f")>> \o b) : b \in NamedLoops}

-----------------------------------------------------------------------------
(* Where the language that compiles ends: a loop without an outer scope     *)
(* that defines a variable, a recursive call that is given another type     *)
(* than the function, a set of what a later body defines, an extern of a    *)
(* type without values.                                                    *)

Edges(x, e) ==
  {<<Plus(<<o, IntLit>>)>> : o \in {G!DoLoop(x, <<Quoted>>, <<G!Let("v", e), IntLit>>),
                                   Car(G!CollectLoop(x, <<Quoted>>, <<G!Let("v", e), IntLit>>))}}
    \cup {<<G!Let("v", G!If(Test, e, G!Call("f", <<IntLit>>))), r>> : r \in {Gt(V("v"), IntLit), V("v"), IntLit}}
    \cup {<<o, IntLit>> : o \in
            {G!CollectLoop("j", <<G!Quote(<<Car(G!CollectLoop(x, <<Quoted>>, <<G!SetVar("x", e)>>))>>)>>,
                           <<G!Let(y, IntLit), IntLit>>) : y \in {"x", "i"}}}
    \cup {<<G!Extern(t, "e", <<>>), e>> : t \in {IntT, Scalar("LAMBDA")}}
EdgePrograms ==
  {G!Program(<<G!Defun("f", <<G!Formal("n", IntT)>>, b)>>) :
     b \in UNION {Edges(x, e) : x \in {"x", "i"}, e \in {IntLit, FloatLit, StrLit, Gt(V("n"), IntLit)}}}

-----------------------------------------------------------------------------
(* An else that cannot be converted: its handler leaves the insertion point *)
(* in the block made for it, and what follows goes on there, inside the    *)
(* branches, loops and functions around it.                                *)

Refused == G!If(Test, StrLit, IntLit)
RefusedParts ==
  {G!DoLoop("i", <<Quoted>>, <<Refused, IntLit>>), Car(G!CollectLoop("i", <<Quoted>>, <<Refused, V("i")>>))}
RefusedPrograms ==
  {InG(<<e>>) : e \in WrapIn(RefusedParts)}
    \cup {InG(<<G!Let("h", G!Lambda(<<G!Formal("n", IntT)>>, <<Refused, e>>)), Refused, e>>)
            : e \in {Branching, G!If(Test, StrLit, Branching)}}
    \cup {G!Program(Externs \o <<G!Defun("f", Variables, <<e>>)>>) : e \in Wrap(G!Call("gs", <<Refused>>))}

-----------------------------------------------------------------------------
(* The first statements of basic.sl.                                       *)

Basic ==
  {G!Program(<<Plus(<<G!ListOp("TIMES", <<IntLit, IntLit>>), Plus(<<IntLit, IntLit>>)>>),
               Car(G!Quote(<<IntLit, IntLit>>))>>)}
\* Names, control flow, calls and types together.
AllPrograms == SharedNamePrograms \cup ControlPrograms \cup CallPrograms \cup OperationPrograms
                 \cup TrailingPrograms \cup LoopBodyPrograms \cup OrderPrograms \cup EdgePrograms \cup RefusedPrograms
=============================================================================
