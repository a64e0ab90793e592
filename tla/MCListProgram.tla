---------------------------- MODULE MCListProgram ----------------------------
(* Instances of ListProgram: cells and registers are interchangeable.      *)
EXTENDS ListProgram, TLC

Symmetry == Permutations(Cell) \cup Permutations(Register)
\* Every int the program computes is new, so that lists that differ in a cell
\* differ in their elements.
Numbered(L) == {Cardinality(L)}
Ones(L) == {1}
Nulls == {NULL}
NullOrWild == {NULL, Wild}
NoFunctions == {}
OnlyAppend == {"append"}
Library == {"append", "init", "set_head", "set_tail", "destroy", "fini"}
=============================================================================
