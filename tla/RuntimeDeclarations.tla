------------------------- MODULE RuntimeDeclarations -------------------------
(***************************************************************************)
(* list_functions.cpp: the runtime's functions as the generator declares   *)
(* them to LLVM before it walks the tree.                                  *)
(*                                                                         *)
(* A low type is what the generator and LLVM tell apart, with the pointers *)
(* to the two kinds of runtime lists told apart as well: LLVM's pointers   *)
(* have no element type, and it is the runtime that reads a cell as one of *)
(* integers or of doubles.  "none" is a type that has no LLVM type.        *)
(***************************************************************************)
EXTENDS Integers, Sequences

ListTypes == {"ints", "doubles"}
Pointers == ListTypes \cup {"ptr"}
LowTypes == Pointers \cup {"i64", "double", "i1", "i8", "none"}

FunctionType(takes, gives) == [takes |-> takes, gives |-> gives]

ElementOf(list) == IF list = "ints" THEN "i64" ELSE "double"
Folds == {"add", "subtract", "multiply", "divide"}
RuntimeOps == Folds \cup {"create", "destroy", "init", "fini", "set_head", "car", "cdr", "cons", "append"}

RuntimeName(list, op) ==
  (IF list = "ints" THEN "slc_int_list_" ELSE "slc_double_list_") \o op
RuntimeNames == {RuntimeName(list, op) : list \in ListTypes, op \in RuntimeOps}

\* _insert_slc_int_list_functions, _insert_slc_double_list_functions
RuntimeSignature(list, op) ==
  LET e == ElementOf(list)
  IN  CASE op = "create"                        -> FunctionType(<<>>, list)
        [] op \in {"destroy", "init", "fini"}   -> FunctionType(<<list>>, "i8")
        [] op = "set_head"                      -> FunctionType(<<list, e>>, "i8")
        [] op = "car"                           -> FunctionType(<<list>>, "ptr")
        [] op = "cdr"                           -> FunctionType(<<list>>, list)
        [] op = "cons"                          -> FunctionType(<<e, list>>, list)
        [] op = "append"                        -> FunctionType(<<list, e>>, list)
        [] op \in Folds                         -> FunctionType(<<list>>, e)

SignatureNamed(name) ==
  LET p == CHOOSE p \in ListTypes \X RuntimeOps : RuntimeName(p[1], p[2]) = name
  IN  RuntimeSignature(p[1], p[2])
=============================================================================
