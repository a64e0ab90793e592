--------------------------- MODULE ExampleTrees ----------------------------
(***************************************************************************)
(* The repository's examples as syntax trees, cut down to what the         *)
(* compiler tells apart, and short names for pieces of programs.           *)
(***************************************************************************)
EXTENDS TypeInfo, Sequences

LOCAL G == INSTANCE Grammar

IntT == Scalar("INT")
FloatT == Scalar("FLOAT")
StringT == Scalar("STRING")
Ints == ListOf(IntT)

IntLit == G!Literal("INT")
FloatLit == G!Literal("FLOAT")
StrLit == G!Literal("STRING")
NilLit == G!Literal("NIL")
V(x) == G!Var(x)
Plus(es) == G!ListOp("PLUS", es)
Gt(a, b) == G!BinOp("GREATER", a, b)
Eq(a, b) == G!BinOp("EQUAL", a, b)
Car(e) == G!UnaryOp("CAR", e)
Cdr(e) == G!UnaryOp("CDR", e)
Cons(h, t) == G!BinOp("CONS", h, t)
PutsDecl == G!Extern(IntT, "slc_puts", <<G!Formal("s", StringT)>>)
ReadDecl == G!Extern(IntT, "slc_read_int", <<>>)
PrintListDecl == G!Extern(Scalar("BOOL"), "print_slc_int_list", <<G!Formal("d", Ints)>>)

-----------------------------------------------------------------------------
(* example/*.sl                                                            *)

Fact ==
  <<G!Extern(IntT, "print_int", <<G!Formal("d", IntT)>>),
    G!Defun("fact", <<G!Formal("n", IntT)>>,
      <<G!If(Gt(V("n"), IntLit), G!ListOp("TIMES", <<V("n"), G!Call("fact", <<Plus(<<V("n"), IntLit>>)>>)>>), IntLit)>>),
    G!Defun("main", <<G!Formal("argc", IntT)>>,
      <<G!Call("print_int", <<G!Call("fact", <<V("argc")>>)>>)>>)>>

Fib2 ==
  <<ReadDecl,
    G!Defun("fib", <<G!Formal("n", IntT)>>,
      <<G!If(G!BinOp("LESS", V("n"), IntLit), IntLit,
             Plus(<<G!Call("fib", <<V("n")>>), G!Call("fib", <<V("n")>>)>>))>>),
    G!Defun("main", <<>>, <<G!Call("fib", <<G!Call("slc_read_int", <<>>)>>)>>)>>

\* sum_list of fib3.sl, with its if inside the operands of +.
Fib3 ==
  <<G!Defun("sum_list", <<G!Formal("l", Ints)>>,
      <<Plus(<<Car(V("l")), G!If(Eq(NilLit, Cdr(V("l"))), IntLit, G!Call("sum_list", <<Cdr(V("l"))>>))>>)>>)>>

\* sum_first_two and fns of fib4.sl.
Fib4 ==
  <<G!Defun("sum_first_two", <<G!Formal("l", Ints)>>,
      <<G!Let("x", G!Lambda(<<G!Formal("l", Ints)>>,
          <<G!If(Eq(NilLit, Cdr(V("l"))), G!Quote(<<Car(V("l"))>>),
                 G!Quote(<<Car(V("l")), Car(Cdr(V("l")))>>))>>)),
        Plus(<<Car(G!Call("x", <<V("l")>>)), Car(G!Call("x", <<Cdr(V("l"))>>))>>)>>),
    G!Defun("fns", <<G!Formal("n", IntT), G!Formal("fibs", Ints)>>,
      <<G!If(Eq(V("n"), V("n")), V("fibs"),
             G!Call("fns", <<Plus(<<V("n"), IntLit>>),
                             Cons(G!Call("sum_first_two", <<V("fibs")>>), V("fibs"))>>))>>)>>

\* sum_list of hello.sl, recursive in both branches of an inner if.
Hello ==
  <<G!Let("x", G!ListOp("TIMES", <<IntLit, IntLit>>)),
    G!Let("y", Plus(<<V("x"), IntLit>>)),
    G!Defun("sum_list", <<G!Formal("ll", Ints)>>,
      <<G!Let("ret", G!If(V("ll"),
          G!If(G!UnaryOp("NOT", G!BinOp("LESS", IntLit, Car(V("ll")))),
               Plus(<<Car(V("ll")), G!Call("sum_list", <<Cdr(V("ll"))>>)>>),
               G!ListOp("MINUS", <<Car(V("ll")), G!Call("sum_list", <<Cdr(V("ll"))>>)>>)),
          IntLit)),
        V("ret")>>)>>

\* reverse, fn and squares of loop.sl.
Loop ==
  <<G!Defun("reverse", <<G!Formal("a", Ints)>>,
      <<G!Let("reverse_impl", G!Lambda(<<G!Formal("a", Ints), G!Formal("b", Ints)>>,
          <<G!If(Eq(NilLit, Cdr(V("a"))), Cons(Car(V("a")), V("b")),
                 G!Call("reverse_impl", <<Cdr(V("a")), Cons(Car(V("a")), V("b"))>>))>>)),
        G!If(Eq(NilLit, Cdr(V("a"))), V("a"),
             G!Call("reverse_impl", <<Cdr(V("a")), G!Quote(<<Car(V("a"))>>)>>))>>),
    G!Defun("fn", <<G!Formal("n", IntT)>>,
      <<G!Let("f1", IntLit), G!Let("f2", IntLit),
        G!If(G!BinOp("LESS_EQ", V("n"), IntLit), IntLit,
             G!DoLoop("idx", <<G!Call("reverse", <<G!Quote(<<V("n")>>)>>)>>,
               <<G!Let("tmp", Plus(<<V("f1"), V("f2")>>)),
                 G!SetVar("f1", V("f2")), G!SetVar("f2", V("tmp"))>>))>>),
    G!Defun("squares", <<G!Formal("n", IntT)>>,
      <<G!CollectLoop("n", <<G!Call("reverse", <<G!Quote(<<V("n")>>)>>)>>,
          <<G!ListOp("TIMES", <<V("n"), V("n")>>)>>)>>)>>

\* func.sl: sums a list consed together, and calls with a quoted list.
Func ==
  <<G!Defun("foo", <<G!Formal("bar", Ints)>>, <<Plus(<<Cons(IntLit, V("bar"))>>)>>),
    G!Let("x", G!Quote(<<IntLit, IntLit, IntLit>>)),
    G!Call("foo", <<G!Quote(<<IntLit, IntLit>>)>>)>>

Examples == {Fact, Fib2, Fib3, Fib4, Hello, Loop, Func}
=============================================================================
