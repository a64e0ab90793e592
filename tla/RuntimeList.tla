----------------------------- MODULE RuntimeList -----------------------------
(***************************************************************************)
(* The heap of the runtime's lists: src/runtime/slc_int_list.c, which      *)
(* slc_double_list.c repeats for doubles.  A heap is a record of the cells *)
(* malloc has handed out and of what every cell holds; each function of    *)
(* the runtime is an operator from a heap to what it leaves or returns.    *)
(***************************************************************************)
EXTENDS Integers, Sequences, FiniteSets

CONSTANTS
  Cell,           \* the cells malloc can hand out
  NULL,
  Wild,           \* what uninitialised memory holds that is no address of a cell
  FreshTails,     \* what the tail of a cell fresh from malloc may hold
  MallocMayFail   \* whether malloc may return NULL

Pointer == Cell \cup {NULL, Wild}

ASSUME HeapAssumption ==
  /\ NULL \notin Cell /\ Wild \notin Cell /\ NULL # Wild
  /\ FreshTails # {} /\ FreshTails \subseteq Pointer
  /\ MallocMayFail \in BOOLEAN

Heaps(Elem) == [live : SUBSET Cell, head : [Cell -> Elem], tail : [Cell -> Pointer]]

-----------------------------------------------------------------------------
(* Walks along the tails, the loops of append, of the folds and of print   *)

Closed(h, S) == \A c \in S : h.tail[c] \in S \cup {NULL, Wild}

\* The cells a walk from l comes to.
Reach(h, l) ==
  {c \in Cell : l \in Cell /\ \A S \in SUBSET Cell : l \in S /\ Closed(h, S) => c \in S}

LastCells(h, l) == {c \in Reach(h, l) : h.tail[c] = NULL}

(***************************************************************************)
(* How a walk may go: to the last cell; nowhere, round a circle; or it     *)
(* follows an address that is none, or reads a freed cell, where the       *)
(* process may die or find what the cell held before.                      *)
(***************************************************************************)
Walks(h, l) ==
  {o \in {"running", "crashed", "hung"} :
     \/ o = "running" /\ (l = NULL \/ LastCells(h, l) # {})
     \/ o = "crashed" /\ (l = Wild \/ \E c \in Reach(h, l) : c \notin h.live \/ h.tail[c] = Wild)
     \/ o = "hung" /\ l \in Cell /\ \A c \in Reach(h, l) : h.tail[c] \in Cell}

\* The elements from l on, for a walk that ends.
Contents(h, l) ==
  LET from[n \in 0 .. Cardinality(Cell), p \in Pointer] ==
        IF n = 0 \/ p \notin Cell THEN <<>> ELSE <<h.head[p]>> \o from[n - 1, h.tail[p]]
  IN  from[Cardinality(Cell), l]

-----------------------------------------------------------------------------
(* The functions.  Those that return 0 for NULL do nothing to it.          *)

\* What malloc may return, and create: a cell whose fields are not written.
Mallocs(h) == (Cell \ h.live) \cup (IF MallocMayFail THEN {NULL} ELSE {})
\* Mutant: what malloc returns is used without a look at it.
CreatedUnchecked(h, c, junk) == [h EXCEPT !.live = @ \cup {c}, !.tail[c] = junk]
Created(h, c, junk) ==
  IF c = NULL THEN h ELSE [h EXCEPT !.live = @ \cup {c}, !.tail[c] = junk]

\* destroy
Freed(h, l) == [h EXCEPT !.live = @ \ {l}]

\* init, set_head and set_tail
Initialised(h, c) == [h EXCEPT !.head[c] = 0, !.tail[c] = NULL]
HeadSet(h, c, v) == IF c = NULL THEN h ELSE [h EXCEPT !.head[c] = v]
TailSet(h, c, t) == IF c = NULL THEN h ELSE [h EXCEPT !.tail[c] = t]

\* Mutant: the new cell is not initialised.
NewCellUnlinked(h, c, v) == HeadSet(Created(h, c, Wild), c, v)
\* A cell created, whatever it holds then, initialised and given its head.
NewCell(h, c, v) == HeadSet(Initialised(Created(h, c, Wild), c), c, v)

\* Mutant: the tail is set before init, which sets it to NULL.
ConsedTailFirst(h, c, v, t) == HeadSet(Initialised(TailSet(Created(h, c, Wild), c, t), c), c, v)
\* cons, in the new cell c
Consed(h, c, v, t) == TailSet(NewCell(h, c, v), c, t)

\* Mutant: the new cell goes behind the cell it was given, not behind the last.
AppendedToFirst(h, l, c, v) ==
  IF l = NULL THEN NewCell(h, c, v)
  ELSE TailSet(NewCell(h, c, v), l, c)
\* append, in the new cell c, to a list with a last cell or to NULL
Appended(h, l, c, v) ==
  IF l = NULL THEN NewCell(h, c, v)
  ELSE TailSet(NewCell(h, c, v), CHOOSE e \in LastCells(h, l) : TRUE, c)
AppendReturns(l, c) == IF l = NULL THEN c ELSE l

Cdr(h, l) == IF l = NULL THEN NULL ELSE h.tail[l]

(***************************************************************************)
(* fini frees the cells behind the first while they have a successor, and  *)
(* reads the freed cell to go on.  It gets to its end when freed cells     *)
(* read as what they held, and may die at any of them; it dies of a list   *)
(* without a second cell.                                                  *)
(***************************************************************************)
Second(h, l) == IF l \in Cell THEN h.tail[l] ELSE Wild
FiniEnds(h, l) == LastCells(h, Second(h, l)) # {}
FiniDies(h, l) == Second(h, l) \in h.live => h.tail[Second(h, l)] # NULL
Finished(h, l) ==
  [h EXCEPT !.live = @ \ (Reach(h, Second(h, l)) \ LastCells(h, Second(h, l)))]
=============================================================================
