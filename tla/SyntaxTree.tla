---------------------------- MODULE SyntaxTree ------------------------------
(***************************************************************************)
(* Syntax trees as the parser builds them, include/asw/slc_node.hpp: nodes *)
(* on a heap, which own their children through a vector and know their     *)
(* parent, and lists, which also know their head and their tail.  A heap   *)
(* is a sequence of nodes, a node is its index, and 0 is a null pointer.   *)
(***************************************************************************)
EXTENDS TypeInfo, Sequences, Functions

\* Mutant: the pointers of a node have no initial value.
NewNodeUninitialised(kind, name, op, type) ==
  [kind |-> kind, name |-> name, op |-> op, type |-> type,
   parent |-> -1, children |-> <<>>, head |-> -1, tail |-> -1]

NewNode(kind, name, op, type) ==
  [kind |-> kind, name |-> name, op |-> op, type |-> type,
   parent |-> 0, children |-> <<>>, head |-> 0, tail |-> 0]

Kinds ==
  {"root", "literal", "variable", "list", "if_expr", "binary_op", "unary_op", "list_op", "set_expression",
   "function_call", "function_body", "variable_definition", "formal", "function_definition",
   "extern_function", "lambda", "iterator_definition", "infinite_loop", "do_loop", "collect_loop", "when_loop"}
MaybeName == STRING \cup {""}  \* a name, or none

Node == [kind : Kinds, name : MaybeName, op : MaybeName, type : MaybeType,
         parent : Nat, children : Seq(Nat), head : Nat, tail : Nat]

\* add_child and prepend_child, of the nodes of cs one after the other.
AddChildren(h, p, cs) ==
  [n \in DOMAIN h |->
     [h[n] EXCEPT !.parent = IF n \in Range(cs) THEN p ELSE @,
                  !.children = IF n = p THEN @ \o cs ELSE @]]
AddChild(h, p, c) == AddChildren(h, p, <<c>>)
PrependChild(h, p, c) == [h EXCEPT ![c].parent = p, ![p].children = <<c>> \o @]

SetHead(h, l, e) == [AddChild(h, l, e) EXCEPT ![l].head = e]
SetTail(h, l, t) == [AddChild(h, l, t) EXCEPT ![l].tail = t]

\* The cells of a list, from l along the tails.
Behind(h, cs) ==
  LET tail == h[cs[Len(cs)]].tail IN IF tail = 0 THEN cs ELSE Append(cs, tail)
Cells(h, l) ==
  LET cells[i \in 1 .. Len(h)] == IF i = 1 THEN <<l>> ELSE Behind(h, cells[i - 1])
  IN  cells[Len(h)]
LastCell(h, l) == LET cs == Cells(h, l) IN cs[Len(cs)]
Elements(h, l) == LET cs == Cells(h, l) IN [i \in DOMAIN cs |-> h[cs[i]].head]

\* remove_child with free = false, of a vector: the first occurrence goes.
Without(s, c) ==
  IF c \in Range(s)
  THEN LET i == CHOOSE i \in DOMAIN s : s[i] = c /\ \A j \in 1 .. i - 1 : s[j] # c
       IN  SubSeq(s, 1, i - 1) \o SubSeq(s, i + 1, Len(s))
  ELSE s
RemoveHeads(h, cells) ==
  [n \in DOMAIN h |->
     IF n \in cells THEN [h[n] EXCEPT !.children = Without(@, h[n].head)] ELSE h[n]]

\* Mutant: the cells keep the elements.
TransferKeeping(h, p, l) == AddChildren(h, p, Elements(h, l))

\* The elements of a list become children of p, cell by cell.
Transfer(h, p, l) == AddChildren(RemoveHeads(h, Range(Cells(h, l))), p, Elements(h, l))

\* What the destructor of n comes by: the nodes it owns, directly or not.
WithChildren(h, ns) == ns \cup UNION {Range(h[m].children) : m \in ns}
Owned(h, n) ==
  LET grow[i \in 0 .. Len(h)] == IF i = 0 THEN {n} ELSE WithChildren(h, grow[i - 1])
  IN  grow[Len(h)]
=============================================================================
