------------------------------ MODULE ListProofs ------------------------------
(***************************************************************************)
(* Theorems about the lists of compiled programs, for any heap, variables  *)
(* and nesting of loops, and with malloc failing: while the runtime is     *)
(* only called by compiled code, a list that a collect loop appends to in  *)
(* place is nobody else's, and every list has an end.                      *)
(***************************************************************************)
EXTENDS ListProgram, TLAPS

-----------------------------------------------------------------------------
(* Reach is the least set that is closed under tails                       *)

LEMMA ReachCells == ASSUME NEW h, NEW l PROVE Reach(h, l) \subseteq Cell /\ (l \notin Cell => Reach(h, l) = {})
BY DEF Reach

LEMMA ReachLeast ==
  ASSUME NEW h, NEW l, NEW T \in SUBSET Cell, l \in T, Closed(h, T)
  PROVE  Reach(h, l) \subseteq T
BY DEF Reach

LEMMA ReachClosed ==
  ASSUME NEW h, h.tail \in [Cell -> Pointer], NEW l \in Cell
  PROVE  l \in Reach(h, l) /\ Closed(h, Reach(h, l))
<1>1. l \in Reach(h, l)
  BY DEF Reach
<1>2. ASSUME NEW c \in Reach(h, l), h.tail[c] \in Cell PROVE h.tail[c] \in Reach(h, l)
  <2>1. ASSUME NEW T \in SUBSET Cell, l \in T, Closed(h, T) PROVE h.tail[c] \in T
    <3>1. c \in T
      BY <2>1 DEF Reach
    <3> QED BY <1>2, <2>1, <3>1, HeapAssumption DEF Closed
  <2> QED BY <1>2, <2>1 DEF Reach
<1>3. \A c \in Reach(h, l) : h.tail[c] \in Pointer
  BY DEF Reach
<1> QED BY <1>1, <1>2, <1>3 DEF Closed, Pointer

\* What is behind a cell of a list is part of the list.
LEMMA ReachBehind ==
  ASSUME NEW h, h.tail \in [Cell -> Pointer], NEW l \in Cell
  PROVE  Reach(h, h.tail[l]) \subseteq Reach(h, l)
<1>1. CASE h.tail[l] \in Cell
  <2>1. h.tail[l] \in Reach(h, l) /\ Closed(h, Reach(h, l)) /\ Reach(h, l) \in SUBSET Cell
    BY <1>1, ReachClosed, ReachCells, HeapAssumption DEF Closed
  <2> QED BY <2>1, ReachLeast
<1>2. CASE h.tail[l] \notin Cell
  BY <1>2, ReachCells
<1> QED BY <1>1, <1>2

\* A list is what it was when the tails of its cells are.
LEMMA ReachKept ==
  ASSUME NEW h, h.tail \in [Cell -> Pointer], NEW k, k.tail \in [Cell -> Pointer], NEW l,
         \A c \in Reach(h, l) : k.tail[c] = h.tail[c]
  PROVE  Reach(k, l) = Reach(h, l)
<1>1. CASE l \notin Cell
  BY <1>1, ReachCells
<1>2. CASE l \in Cell
  <2>1. Closed(h, Reach(h, l)) /\ l \in Reach(h, l) /\ Reach(h, l) \in SUBSET Cell
    BY <1>2, ReachClosed, ReachCells
  <2>2. Closed(k, Reach(h, l))
    BY <2>1 DEF Closed
  <2>3. Reach(k, l) \subseteq Reach(h, l)
    BY <2>1, <2>2, ReachLeast
  <2>4. Closed(k, Reach(k, l)) /\ l \in Reach(k, l) /\ Reach(k, l) \in SUBSET Cell
    BY <1>2, ReachClosed, ReachCells
  <2>5. Closed(h, Reach(k, l))
    BY <2>3, <2>4 DEF Closed
  <2>6. Reach(h, l) \subseteq Reach(k, l)
    BY <2>4, <2>5, ReachLeast
  <2> QED BY <2>3, <2>6
<1> QED BY <1>1, <1>2

\* A new cell in front of a list, and one behind its last.
LEMMA ReachNewHead ==
  ASSUME NEW h, h.tail \in [Cell -> Pointer], NEW k, k.tail \in [Cell -> Pointer], NEW c \in Cell,
         \A d \in Reach(h, k.tail[c]) : k.tail[d] = h.tail[d]
  PROVE  Reach(k, c) \subseteq {c} \cup Reach(h, k.tail[c])
<1> DEFINE T == Reach(h, k.tail[c])
<1>1. T \in SUBSET Cell /\ Closed(h, T) /\ k.tail[c] \in T \cup {NULL, Wild}
  <2>1. k.tail[c] \in Pointer
    OBVIOUS
  <2>2. CASE k.tail[c] \in Cell
    BY <2>2, ReachClosed, ReachCells
  <2>3. CASE k.tail[c] \notin Cell
    BY <2>1, <2>3, ReachCells DEF Closed, Pointer
  <2> QED BY <2>2, <2>3
<1>2. Closed(k, {c} \cup T)
  BY <1>1 DEF Closed
<1> QED BY <1>1, <1>2, ReachLeast

LEMMA ReachNewLast ==
  ASSUME NEW h, h.tail \in [Cell -> Pointer], NEW k, NEW l \in Cell, NEW c \in Cell,
         k.tail[c] = NULL, \A d \in Reach(h, l) : k.tail[d] \in {h.tail[d], c}
  PROVE  Reach(k, l) \subseteq Reach(h, l) \cup {c}
<1>1. Closed(h, Reach(h, l)) /\ l \in Reach(h, l) /\ Reach(h, l) \in SUBSET Cell
  BY ReachClosed, ReachCells
<1>2. Closed(k, Reach(h, l) \cup {c})
  <2>1. \A d \in Reach(h, l) : k.tail[d] \in Reach(h, l) \cup {NULL, Wild, c}
    BY <1>1 DEF Closed
  <2> QED BY <2>1 DEF Closed
<1> QED BY <1>1, <1>2, ReachLeast

-----------------------------------------------------------------------------
(* The invariant, of a heap h, variables v and loops ls                    *)

Shapes == Heaps(Elem \cup {0})
Frames ==
  [kind : {"do"}, item : Elem \cup {0, Wild}, tail : Pointer, ret : Elem \cup {Wild}, to : Register]
  \cup [kind : {"collect"}, item : Elem \cup {0, Wild}, tail : Pointer, ret : Pointer, to : Register]

Collecting(ls) == {i \in DOMAIN ls : ls[i].kind = "collect"}
Pointers(v, ls) == {v[r] : r \in Register} \cup {ls[i].tail : i \in DOMAIN ls}

\* A pointer leads to cells in use, and to none of a list that grows.
Known(h, p) == p \in h.live \cup {NULL, Wild}
Disjoint(h, p, q) == Reach(h, p) \cap Reach(h, q) = {}
Apart(h, ls, p) == Known(h, p) /\ \A i \in Collecting(ls) : Disjoint(h, ls[i].ret, p)

\* A list grows whose cells are no other list's.
Private(h, v, ls, p) == Apart(h, ls, p) /\ \A q \in Pointers(v, ls) : Disjoint(h, p, q)

\* A frame can be put on top of the loops ls.
Fits(h, v, ls, f) ==
  /\ f \in Frames /\ Apart(h, ls, f.tail)
  /\ f.kind = "collect" => Private(h, v, ls, f.ret) /\ Disjoint(h, f.ret, f.tail)

Lists(h, v, ls) ==
  /\ h \in Shapes /\ v \in [Register -> Pointer] /\ ls \in Seq(Frames)
  /\ Closed(h, h.live)
  /\ \A p \in Pointers(v, ls) : Apart(h, ls, p)
  /\ \A i \in Collecting(ls) :
       Known(h, ls[i].ret) /\ \A j \in Collecting(ls) \ {i} : Disjoint(h, ls[i].ret, ls[j].ret)

ListInvariant == Lists(heap, reg, loops)

LEMMA FrameFacts ==
  /\ \A f \in Frames : /\ f.kind \in {"do", "collect"} /\ f.tail \in Pointer /\ f.to \in Register
                       /\ (f.kind = "collect" => f.ret \in Pointer)
  /\ \A item \in Elem \cup {0, Wild}, tail \in Pointer, to \in Register :
       /\ \A ret \in Pointer : Frame("collect", item, tail, ret, to) \in Frames
       /\ \A ret \in Elem \cup {Wild} : Frame("do", item, tail, ret, to) \in Frames
BY DEF Frames, Frame

LEMMA ShapeFacts ==
  ASSUME NEW h \in Shapes
  PROVE  h.live \subseteq Cell /\ h.tail \in [Cell -> Pointer] /\ h.head \in [Cell -> Elem \cup {0}]
BY DEF Shapes, Heaps

\* Lists are made of cells in use.
LEMMA ReachLive ==
  ASSUME NEW h \in Shapes, Closed(h, h.live), NEW p, Known(h, p)
  PROVE  Reach(h, p) \subseteq h.live
<1>1. CASE p \in h.live
  BY <1>1, ShapeFacts, ReachLeast
<1>2. CASE p \notin Cell
  BY <1>2, ReachCells
<1> QED BY <1>1, <1>2, HeapAssumption DEF Known

\* What is no cell is a list without cells.
LEMMA NoCellFits ==
  ASSUME NEW h, NEW ls, NEW p \in {NULL, Wild}
  PROVE  Apart(h, ls, p) /\ \A q : Disjoint(h, p, q) /\ Disjoint(h, q, p)
BY HeapAssumption, ReachCells DEF Apart, Known, Disjoint

-----------------------------------------------------------------------------
(* Variables and loops come and go                                         *)

LEMMA AssignList ==
  ASSUME NEW h, NEW v, NEW ls, Lists(h, v, ls), NEW r \in Register, NEW p \in Pointer, Apart(h, ls, p)
  PROVE  Lists(h, [v EXCEPT ![r] = p], ls)
<1> DEFINE w == [v EXCEPT ![r] = p]
<1>1. w \in [Register -> Pointer] /\ Pointers(w, ls) \subseteq Pointers(v, ls) \cup {p}
  BY DEF Lists, Pointers
<1> QED BY <1>1 DEF Lists

LEMMA EnterFrame ==
  ASSUME NEW h, NEW v, NEW ls, Lists(h, v, ls), NEW f, Fits(h, v, ls, f)
  PROVE  Lists(h, v, Append(ls, f))
<1> DEFINE ms == Append(ls, f)
<1>1. /\ ls \in Seq(Frames) /\ f \in Frames /\ ms \in Seq(Frames)
      /\ DOMAIN ls = 1 .. Len(ls) /\ DOMAIN ms = 1 .. Len(ls) + 1 /\ Len(ls) \in Nat
      /\ ms[Len(ls) + 1] = f /\ \A i \in 1 .. Len(ls) : ms[i] = ls[i]
  BY DEF Lists, Fits
<1> HIDE DEF ms
<1>2. Pointers(v, ms) = Pointers(v, ls) \cup {f.tail}
  BY <1>1 DEF Pointers
<1>3. ASSUME NEW i \in Collecting(ms)
      PROVE  \/ i \in Collecting(ls) /\ ms[i] = ls[i]
             \/ i = Len(ls) + 1 /\ f.kind = "collect" /\ ms[i] = f
  BY <1>1 DEF Collecting
<1>4. ASSUME NEW p \in Pointers(v, ms) PROVE Apart(h, ms, p)
  <2>1. Apart(h, ls, p) /\ (f.kind = "collect" => Disjoint(h, f.ret, p))
    BY <1>2 DEF Lists, Fits, Private
  <2> QED BY <1>3, <2>1 DEF Apart
<1>5. ASSUME NEW i \in Collecting(ms)
      PROVE  Known(h, ms[i].ret) /\ \A j \in Collecting(ms) \ {i} : Disjoint(h, ms[i].ret, ms[j].ret)
  BY <1>3 DEF Lists, Fits, Private, Apart, Disjoint
<1>6. Lists(h, v, ms)
  BY <1>1, <1>4, <1>5 DEF Lists
<1> QED BY <1>6 DEF ms

LEMMA LeaveFrame ==
  ASSUME NEW h, NEW v, NEW ls, Lists(h, v, ls), ls # <<>>
  PROVE  Lists(h, v, S!Front(ls)) /\ Fits(h, v, S!Front(ls), S!Last(ls))
<1> DEFINE ms == S!Front(ls)
           f == S!Last(ls)
           n == Len(ls)
<1>1. /\ ls \in Seq(Frames) /\ n \in Nat /\ n > 0 /\ DOMAIN ls = 1 .. n
      /\ f = ls[n] /\ f \in Frames /\ ms \in Seq(Frames)
      /\ DOMAIN ms = 1 .. n - 1 /\ \A i \in 1 .. n - 1 : ms[i] = ls[i]
  BY DEF Lists, S!Front, S!Last
<1> HIDE DEF ms, f, n
<1>2. /\ Pointers(v, ms) \subseteq Pointers(v, ls) /\ f.tail \in Pointers(v, ls)
      /\ \A i \in Collecting(ms) : i \in Collecting(ls) /\ ms[i] = ls[i] /\ i # n
      /\ f.kind = "collect" => n \in Collecting(ls)
  BY <1>1 DEF Pointers, Collecting
<1>3. Lists(h, v, ms)
  BY <1>1, <1>2 DEF Lists, Apart
<1>4. Fits(h, v, ms, f)
  BY <1>1, <1>2 DEF Lists, Apart, Fits, Private, Disjoint
<1> QED BY <1>3, <1>4 DEF ms, f

-----------------------------------------------------------------------------
(* The heap changes                                                        *)

LEMMA NewCells ==
  ASSUME NEW h \in Shapes, NEW c \in Cell, NEW v \in Elem, NEW t \in Pointer,
         NEW k, k \in {HeadSet(Created(h, c, t), c, v), Consed(h, c, v, t)}
                \/ (k = NewCell(h, c, v) /\ t = NULL)
  PROVE  /\ k \in Shapes /\ k.live = h.live \cup {c} /\ k.tail = [h.tail EXCEPT ![c] = t]
         /\ \A d \in Cell \ {c} : k.head[d] = h.head[d]
<1>1. c # NULL /\ NULL \in Pointer /\ Wild \in Pointer
  BY HeapAssumption DEF Pointer
<1>2. ASSUME NEW u \in Pointer
      PROVE  /\ Created(h, c, u) \in Shapes
             /\ Created(h, c, u).live = h.live \cup {c} /\ Created(h, c, u).tail = [h.tail EXCEPT ![c] = u]
             /\ Created(h, c, u).head = h.head
  BY <1>1 DEF Created, Shapes, Heaps
<1>3. ASSUME NEW g \in Shapes
      PROVE  /\ HeadSet(g, c, v) \in Shapes /\ HeadSet(g, c, v).live = g.live /\ HeadSet(g, c, v).tail = g.tail
             /\ Initialised(g, c) \in Shapes /\ Initialised(g, c).live = g.live
             /\ Initialised(g, c).tail = [g.tail EXCEPT ![c] = NULL]
             /\ TailSet(g, c, t) \in Shapes /\ TailSet(g, c, t).live = g.live
             /\ TailSet(g, c, t).tail = [g.tail EXCEPT ![c] = t]
  BY <1>1 DEF HeadSet, Initialised, TailSet, Shapes, Heaps
<1>4. ASSUME NEW g \in Shapes
      PROVE  /\ \A d \in Cell \ {c} : HeadSet(g, c, v).head[d] = g.head[d] /\ Initialised(g, c).head[d] = g.head[d]
             /\ TailSet(g, c, t).head = g.head
  BY <1>1 DEF HeadSet, Initialised, TailSet, Shapes, Heaps
<1> DEFINE a == HeadSet(Created(h, c, t), c, v)
           b == NewCell(h, c, v)
           e == Consed(h, c, v, t)
<1>5. /\ a \in Shapes /\ a.live = h.live \cup {c} /\ a.tail = [h.tail EXCEPT ![c] = t]
      /\ \A d \in Cell \ {c} : a.head[d] = h.head[d]
  <2> DEFINE g == Created(h, c, t)
  <2>1. g \in Shapes /\ g.live = h.live \cup {c} /\ g.tail = [h.tail EXCEPT ![c] = t] /\ g.head = h.head
    BY <1>2
  <2>2. a = HeadSet(g, c, v)
    OBVIOUS
  <2> HIDE DEF a, g
  <2>3. a \in Shapes /\ a.live = g.live /\ a.tail = g.tail
    BY <1>3, <2>1, <2>2
  <2>4. \A d \in Cell \ {c} : a.head[d] = g.head[d]
    BY <1>4, <2>1, <2>2
  <2> QED BY <2>1, <2>3, <2>4
<1>6. /\ b \in Shapes /\ b.live = h.live \cup {c} /\ b.tail = [h.tail EXCEPT ![c] = NULL]
      /\ \A d \in Cell \ {c} : b.head[d] = h.head[d]
  <2> DEFINE g == Created(h, c, Wild)
             m == Initialised(g, c)
  <2>1. g \in Shapes /\ g.live = h.live \cup {c} /\ g.tail = [h.tail EXCEPT ![c] = Wild] /\ g.head = h.head
    BY <1>1, <1>2
  <2> HIDE DEF g
  <2>2. /\ m \in Shapes /\ m.live = g.live /\ m.tail = [g.tail EXCEPT ![c] = NULL]
        /\ \A d \in Cell \ {c} : m.head[d] = g.head[d]
    BY <1>3, <1>4, <2>1
  <2>3. [[h.tail EXCEPT ![c] = Wild] EXCEPT ![c] = NULL] = [h.tail EXCEPT ![c] = NULL]
    BY ShapeFacts
  <2>4. b = HeadSet(m, c, v)
    BY DEF NewCell, g
  <2> HIDE DEF m, b
  <2> QED BY <1>3, <1>4, <2>1, <2>2, <2>3, <2>4
<1>7. /\ e \in Shapes /\ e.live = h.live \cup {c} /\ e.tail = [h.tail EXCEPT ![c] = t]
      /\ \A d \in Cell \ {c} : e.head[d] = h.head[d]
  <2>1. [[h.tail EXCEPT ![c] = NULL] EXCEPT ![c] = t] = [h.tail EXCEPT ![c] = t]
    BY ShapeFacts
  <2>2. e = TailSet(b, c, t)
    BY DEF Consed
  <2> HIDE DEF b, e
  <2> QED BY <1>3, <1>4, <1>6, <2>1, <2>2
<1>8. k = a \/ k = e \/ (k = b /\ t = NULL)
  OBVIOUS
<1> HIDE DEF a, b, e
<1> QED BY <1>5, <1>6, <1>7, <1>8

\* A new cell in front of a list that does not grow.
LEMMA CellInFront ==
  ASSUME NEW h, NEW v, NEW ls, Lists(h, v, ls),
         NEW k \in Shapes, NEW c \in Cell \ h.live, NEW t \in Pointer, Apart(h, ls, t),
         k.live = h.live \cup {c}, k.tail = [h.tail EXCEPT ![c] = t]
  PROVE  Lists(k, v, ls) /\ Apart(k, ls, c)
<1>1. /\ h \in Shapes /\ Closed(h, h.live) /\ h.tail \in [Cell -> Pointer] /\ k.tail \in [Cell -> Pointer]
      /\ \A d \in Cell \ {c} : k.tail[d] = h.tail[d]
      /\ k.tail[c] = t
  BY ShapeFacts DEF Lists
<1>2. ASSUME NEW p, Known(h, p) PROVE Reach(k, p) = Reach(h, p) /\ Known(k, p) /\ c \notin Reach(k, p)
  <2>1. Reach(h, p) \subseteq h.live
    BY <1>1, <1>2, ReachLive
  <2>2. \A d \in Reach(h, p) : k.tail[d] = h.tail[d]
    BY <1>1, <2>1, ReachCells
  <2>3. Reach(k, p) = Reach(h, p)
    BY <1>1, <2>2, ReachKept
  <2> QED BY <1>2, <2>1, <2>3 DEF Known
<1>3. Closed(k, k.live)
  <2>1. \A d \in h.live : k.tail[d] \in h.live \cup {NULL, Wild}
    BY <1>1, ShapeFacts DEF Closed
  <2> QED BY <1>1, <2>1 DEF Closed, Apart, Known
<1>4. ASSUME NEW p, Apart(h, ls, p), \A i \in Collecting(ls) : Known(h, ls[i].ret) PROVE Apart(k, ls, p)
  BY <1>2, <1>4 DEF Apart, Disjoint
<1>5. \A i \in Collecting(ls) : Known(h, ls[i].ret)
  BY DEF Lists
<1>6. Lists(k, v, ls)
  <2>1. \A p \in Pointers(v, ls) : Apart(k, ls, p)
    BY <1>4, <1>5 DEF Lists
  <2>2. \A i \in Collecting(ls) :
          Known(k, ls[i].ret) /\ \A j \in Collecting(ls) \ {i} : Disjoint(k, ls[i].ret, ls[j].ret)
    BY <1>2 DEF Lists, Disjoint
  <2> QED BY <1>3, <2>1, <2>2 DEF Lists
<1>7. Apart(k, ls, c)
  <2>1. Reach(k, c) \subseteq {c} \cup Reach(h, t)
    <3>1. Known(h, t)
      BY DEF Apart
    <3>2. \A d \in Reach(h, t) : k.tail[d] = h.tail[d]
      BY <1>1, <3>1, ReachLive, ReachCells
    <3> QED BY <1>1, <3>2, ReachNewHead
  <2>2. \A i \in Collecting(ls) :
          /\ Reach(k, ls[i].ret) = Reach(h, ls[i].ret) /\ c \notin Reach(k, ls[i].ret)
          /\ Reach(h, ls[i].ret) \cap Reach(h, t) = {}
    BY <1>2, <1>5 DEF Apart, Disjoint
  <2> QED BY <2>1, <2>2 DEF Apart, Known, Disjoint
<1> QED BY <1>6, <1>7

\* append to the list of the innermost loop, which the loops around it do not see.
LEMMA CellAtEnd ==
  ASSUME NEW h, NEW v, NEW ls, Lists(h, v, ls), NEW t, Apart(h, ls, t),
         NEW l \in Pointer, Private(h, v, ls, l), Disjoint(h, l, t),
         NEW k \in Shapes, NEW c \in Cell \ h.live, k.live = h.live \cup {c},
         \/ l = NULL /\ k.tail = [h.tail EXCEPT ![c] = NULL]
         \/ \E e \in LastCells(h, l) : k.tail = [[h.tail EXCEPT ![c] = NULL] EXCEPT ![e] = c]
  PROVE  LET m == AppendReturns(l, c)
         IN  /\ Lists(k, v, ls) /\ Apart(k, ls, t)
             /\ m \in Pointer /\ Private(k, v, ls, m) /\ Disjoint(k, m, t)
<1> DEFINE m == AppendReturns(l, c)
<1>1. /\ h \in Shapes /\ Closed(h, h.live) /\ h.tail \in [Cell -> Pointer] /\ k.tail \in [Cell -> Pointer]
      /\ Known(h, l) /\ Known(h, t)
  BY ShapeFacts DEF Lists, Private, Apart
<1>2. Reach(h, l) \subseteq h.live
  BY <1>1, ReachLive
<1>3. /\ \A d \in Cell \ {c} : k.tail[d] = h.tail[d] \/ (d \in Reach(h, l) /\ k.tail[d] = c)
      /\ k.tail[c] = NULL
  BY <1>1, <1>2 DEF LastCells
<1>4. ASSUME NEW p, Known(h, p), Disjoint(h, l, p)
      PROVE  Reach(k, p) = Reach(h, p) /\ Known(k, p) /\ c \notin Reach(k, p)
  <2>1. Reach(h, p) \subseteq h.live
    BY <1>1, <1>4, ReachLive
  <2>2. \A d \in Reach(h, p) : k.tail[d] = h.tail[d]
    BY <1>3, <1>4, <2>1, ReachCells DEF Disjoint
  <2>3. Reach(k, p) = Reach(h, p)
    BY <1>1, <2>2, ReachKept
  <2> QED BY <1>4, <2>1, <2>3 DEF Known
<1>5. m \in Pointer /\ Known(k, m) /\ Reach(k, m) \subseteq Reach(h, l) \cup {c}
  <2>1. CASE l = NULL
    <3>1. m = c /\ k.tail[c] = NULL
      BY <1>3, <2>1 DEF AppendReturns
    <3>2. Reach(h, k.tail[c]) = {}
      BY <3>1, HeapAssumption, ReachCells
    <3>3. Reach(k, c) \subseteq {c} \cup Reach(h, k.tail[c])
      BY <1>1, <3>2, ReachNewHead
    <3> QED BY <3>1, <3>2, <3>3 DEF Known, Pointer
  <2>2. CASE l # NULL
    <3>1. m = l /\ l \in Cell
      BY <2>2, ReachCells DEF AppendReturns, LastCells
    <3>2. \A d \in Reach(h, l) : k.tail[d] \in {h.tail[d], c}
      BY <1>2, <1>3, ReachCells
    <3> QED BY <1>1, <1>3, <3>1, <3>2, ReachNewLast DEF Known
  <2> QED BY <2>1, <2>2
<1>6. ASSUME NEW p, Known(h, p), Disjoint(h, l, p) PROVE Disjoint(k, m, p) /\ Disjoint(k, p, m)
  BY <1>4, <1>5, <1>6 DEF Disjoint
<1>7. \A i \in Collecting(ls) : Known(h, ls[i].ret) /\ Disjoint(h, l, ls[i].ret)
  BY DEF Lists, Private, Apart, Disjoint
<1>8. \A p \in Pointers(v, ls) \cup {t} : Apart(h, ls, p) /\ Disjoint(h, l, p)
  BY DEF Lists, Private
<1>9. ASSUME NEW p \in Pointers(v, ls) \cup {t} PROVE Apart(k, ls, p)
  BY <1>4, <1>7, <1>8 DEF Apart, Disjoint
<1>10. Closed(k, k.live)
  <2>1. \A d \in h.live : k.tail[d] \in h.live \cup {NULL, Wild, c}
    BY <1>1, <1>3, ShapeFacts DEF Closed
  <2> QED BY <1>3, <2>1 DEF Closed
<1>11. \A i \in Collecting(ls) :
         Known(k, ls[i].ret) /\ \A j \in Collecting(ls) \ {i} : Disjoint(k, ls[i].ret, ls[j].ret)
  BY <1>4, <1>7 DEF Lists, Disjoint
<1>12. Lists(k, v, ls)
  BY <1>9, <1>10, <1>11 DEF Lists
<1>13. Private(k, v, ls, m) /\ Disjoint(k, m, t)
  BY <1>1, <1>5, <1>6, <1>7, <1>8 DEF Private, Apart
<1> QED BY <1>5, <1>9, <1>12, <1>13

-----------------------------------------------------------------------------
(* The steps                                                               *)

\* The program calls no function of the runtime by itself, and malloc does not hand
\* out cells that already point to others.
CompiledCalls == Foreign = {} /\ FreshTails \cap Cell = {}

LEMMA PointerFacts ==
  ASSUME ListInvariant
  PROVE  /\ heap \in Shapes /\ reg \in [Register -> Pointer] /\ loops \in Seq(Frames)
         /\ Closed(heap, heap.live) /\ NULL \in Pointer /\ Wild \in Pointer
         /\ \A s \in Register : Apart(heap, loops, reg[s])
         /\ \A e \in Computes(heap.live) : e \in Elem
<1>1. heap.live \subseteq Cell
  BY ShapeFacts DEF ListInvariant, Lists
<1> QED BY <1>1, ProgramAssumption DEF ListInvariant, Lists, Pointers, Pointer

\* The list behind a cell is as far from those that grow as the cell is.
LEMMA CdrApart ==
  ASSUME NEW h \in Shapes, Closed(h, h.live), NEW ls, NEW p \in Cell \cup {NULL}, Apart(h, ls, p)
  PROVE  /\ Cdr(h, p) \in Pointer /\ Apart(h, ls, Cdr(h, p))
         /\ \A q : Disjoint(h, q, p) => Disjoint(h, q, Cdr(h, p))
<1>1. CASE p = NULL
  BY <1>1, NoCellFits DEF Cdr, Pointer
<1>2. CASE p \in Cell
  <2>1. Cdr(h, p) = h.tail[p] /\ h.tail \in [Cell -> Pointer]
    BY <1>2, HeapAssumption, ShapeFacts DEF Cdr
  <2>2. Reach(h, h.tail[p]) \subseteq Reach(h, p)
    BY <1>2, <2>1, ReachBehind
  <2>3. p \in h.live
    BY <1>2, HeapAssumption DEF Apart, Known
  <2>4. Known(h, h.tail[p])
    BY <2>3 DEF Closed, Known
  <2> QED BY <1>2, <2>1, <2>2, <2>4 DEF Apart, Disjoint
<1> QED BY <1>1, <1>2

\* The head that is loaded from a cell, or its address.
LEMMA ItemFacts ==
  ASSUME NEW h \in Shapes, NEW p, CarReads(p)
  PROVE  CarValue(h, p) \in Elem \cup {0, Wild}
BY ShapeFacts DEF CarReads, CarValue, MayRead

\* The check block, and the end block when the list is at its end.
LEMMA CheckKeeps ==
  ASSUME NEW h, NEW ls, Lists(h, reg, ls), NEW f, Fits(h, reg, ls, f), Check(ls, f)
  PROVE  Lists(h, reg', loops')
<1>1. CASE f.tail # NULL
  BY <1>1, EnterFrame DEF Check
<1>2. CASE f.tail = NULL
  <2>1. loops' = ls /\ Result(f)
    BY <1>2 DEF Check
  <2>2. CASE f.kind = "collect"
    <3>1. f.to \in Register /\ f.ret \in Pointer /\ Apart(h, ls, f.ret) /\ reg' = [reg EXCEPT ![f.to] = f.ret]
      BY <2>1, <2>2, FrameFacts DEF Fits, Private, Result, Assign
    <3> QED BY <2>1, <3>1, AssignList
  <2>3. CASE f.kind # "collect"
    BY <2>1, <2>3 DEF Result
  <2> QED BY <2>2, <2>3
<1> QED BY <1>1, <1>2

LEMMA StopKeeps == ASSUME ListInvariant, UNCHANGED <<heap, reg, loops>> PROVE ListInvariant'
BY DEF ListInvariant

LEMMA LiteralKeeps == ASSUME ListInvariant, CompiledCalls, Literal PROVE ListInvariant'
<1>1. PICK r \in Register, e \in Computes(heap.live), c \in Mallocs(heap), junk \in FreshTails :
        /\ heap' = HeadSet(Created(heap, c, junk), c, e)
        /\ reg' = [reg EXCEPT ![r] = c] /\ loops' = loops
  BY DEF Literal, Assign
<1>2. heap \in Shapes /\ e \in Elem /\ Lists(heap, reg, loops)
  BY PointerFacts DEF ListInvariant
<1>3. CASE c = NULL
  <2>1. heap' = heap
    BY <1>1, <1>3 DEF HeadSet, Created
  <2> QED BY <1>1, <1>2, <1>3, <2>1, NoCellFits, AssignList, PointerFacts DEF ListInvariant
<1>4. CASE c # NULL
  <2>1. c \in Cell \ heap.live /\ c \in Pointer /\ junk \in {NULL, Wild} /\ junk \in Pointer
    BY <1>1, <1>4, HeapAssumption DEF Mallocs, Pointer, CompiledCalls
  <2> DEFINE k == HeadSet(Created(heap, c, junk), c, e)
  <2>2. k \in Shapes /\ k.live = heap.live \cup {c} /\ k.tail = [heap.tail EXCEPT ![c] = junk]
    BY <1>2, <2>1, NewCells
  <2>3. heap' = k
    BY <1>1
  <2> HIDE DEF k
  <2>4. Lists(heap', reg, loops) /\ Apart(heap', loops, c)
    BY <1>2, <2>1, <2>2, <2>3, NoCellFits, CellInFront
  <2> QED BY <1>1, <2>1, <2>4, AssignList DEF ListInvariant
<1> QED BY <1>3, <1>4

LEMMA ConsKeeps == ASSUME ListInvariant, Cons PROVE ListInvariant'
<1>1. CASE Die("cons")
  BY <1>1, StopKeeps DEF Die, Stop
<1>2. CASE ~Die("cons")
  <2>1. PICK r \in Register, s \in Register, e \in Computes(heap.live), c \in Mallocs(heap) :
          /\ c # NULL /\ heap' = Consed(heap, c, e, reg[s])
          /\ reg' = [reg EXCEPT ![r] = c] /\ loops' = loops
    BY <1>2 DEF Cons, Assign
  <2>2. /\ heap \in Shapes /\ e \in Elem /\ Lists(heap, reg, loops)
        /\ reg[s] \in Pointer /\ Apart(heap, loops, reg[s])
    BY PointerFacts DEF ListInvariant
  <2>3. c \in Cell \ heap.live /\ c \in Pointer
    BY <2>1 DEF Mallocs, Pointer
  <2> DEFINE k == Consed(heap, c, e, reg[s])
  <2>4. k \in Shapes /\ k.live = heap.live \cup {c} /\ k.tail = [heap.tail EXCEPT ![c] = reg[s]]
    BY <2>2, <2>3, NewCells
  <2>5. heap' = k
    BY <2>1
  <2> HIDE DEF k
  <2>6. Lists(heap', reg, loops) /\ Apart(heap', loops, c)
    BY <2>2, <2>3, <2>4, <2>5, CellInFront
  <2> QED BY <2>1, <2>3, <2>6, AssignList DEF ListInvariant
<1> QED BY <1>1, <1>2

LEMMA CdrKeeps == ASSUME ListInvariant, CdrOf PROVE ListInvariant'
<1>1. CASE Die("cdr")
  BY <1>1, StopKeeps DEF Die, Stop
<1>2. CASE ~Die("cdr")
  <2>1. PICK r \in Register, s \in Register :
          /\ reg[s] \in Cell \cup {NULL} /\ reg' = [reg EXCEPT ![r] = Cdr(heap, reg[s])]
          /\ UNCHANGED <<heap, loops>>
    BY <1>2 DEF CdrOf, Assign, MayRead
  <2>2. Cdr(heap, reg[s]) \in Pointer /\ Apart(heap, loops, Cdr(heap, reg[s]))
    BY <2>1, PointerFacts, CdrApart
  <2> QED BY <2>1, <2>2, AssignList DEF ListInvariant
<1> QED BY <1>1, <1>2

LEMMA EnterKeeps == ASSUME ListInvariant, EnterLoop PROVE ListInvariant'
<1>1. CASE Die("loop")
  BY <1>1, StopKeeps DEF Die, Stop
<1>2. CASE ~Die("loop")
  <2>1. PICK kind \in {"do", "collect"}, r \in Register, s \in Register :
          /\ CarReads(reg[s]) /\ reg[s] \in Cell \cup {NULL} /\ heap' = heap
          /\ Check(loops, Frame(kind, CarValue(heap, reg[s]), Cdr(heap, reg[s]),
                                IF kind = "collect" THEN NULL ELSE Wild, r))
    BY <1>2 DEF EnterLoop, MayRead
  <2> DEFINE f == Frame(kind, CarValue(heap, reg[s]), Cdr(heap, reg[s]),
                        IF kind = "collect" THEN NULL ELSE Wild, r)
  <2>2. /\ f.kind = kind /\ f.tail = Cdr(heap, reg[s]) /\ f.ret = IF kind = "collect" THEN NULL ELSE Wild
    BY DEF Frame
  <2>3. Cdr(heap, reg[s]) \in Pointer /\ Apart(heap, loops, Cdr(heap, reg[s]))
    BY <2>1, PointerFacts, CdrApart
  <2>4. CarValue(heap, reg[s]) \in Elem \cup {0, Wild}
    BY <2>1, PointerFacts, ItemFacts
  <2>5. f \in Frames
    BY <2>3, <2>4, FrameFacts, PointerFacts
  <2> HIDE DEF f
  <2>6. Fits(heap, reg, loops, f)
    BY <2>2, <2>3, <2>5, NoCellFits DEF Fits, Private
  <2> QED BY <2>1, <2>6, CheckKeeps DEF f, ListInvariant
<1> QED BY <1>1, <1>2

\* The end of a body, after which the loop looks at the next cell.
LEMMA UpdateKeeps ==
  ASSUME NEW h, Lists(h, reg, S!Front(loops)), NEW f, f \in Frames, NEW ret,
         f.tail \in Cell, Apart(h, S!Front(loops), f.tail),
         \/ f.kind = "do" /\ ret \in Elem
         \/ f.kind = "collect" /\ ret \in Pointer /\ Private(h, reg, S!Front(loops), ret) /\ Disjoint(h, ret, f.tail),
         Update(h, f, ret)
  PROVE  Lists(h, reg', loops')
<1> DEFINE g == Frame(f.kind, CarValue(h, f.tail), Cdr(h, f.tail), ret, f.to)
<1>1. g.kind = f.kind /\ g.tail = Cdr(h, f.tail) /\ g.ret = ret /\ g.to = f.to
  BY DEF Frame
<1>2. h \in Shapes /\ Closed(h, h.live)
  BY DEF Lists
<1>3. /\ Cdr(h, f.tail) \in Pointer /\ Apart(h, S!Front(loops), Cdr(h, f.tail))
      /\ \A q : Disjoint(h, q, f.tail) => Disjoint(h, q, Cdr(h, f.tail))
  BY <1>2, CdrApart
<1>4. g \in Frames
  <2>1. CarValue(h, f.tail) \in Elem \cup {0, Wild}
    BY <1>2, ItemFacts DEF CarReads, MayRead
  <2> QED BY <1>3, <2>1, FrameFacts
<1> HIDE DEF g
<1>5. Fits(h, reg, S!Front(loops), g)
  BY <1>1, <1>3, <1>4 DEF Fits
<1> QED BY <1>5, CheckKeeps DEF Update, g

LEMMA DoKeeps == ASSUME ListInvariant, EndDoBody PROVE ListInvariant'
<1>1. CASE Die("loop")
  BY <1>1, StopKeeps DEF Die, Stop
<1>2. CASE ~Die("loop")
  <2> DEFINE f == S!Last(loops)
  <2>1. PICK e \in Computes(heap.live) :
          loops # <<>> /\ f.kind = "do" /\ f.tail \in Cell /\ Update(heap, f, e) /\ heap' = heap
    BY <1>2 DEF EndDoBody, MayRead
  <2>2. Lists(heap, reg, S!Front(loops)) /\ Fits(heap, reg, S!Front(loops), f) /\ e \in Elem
    BY <2>1, LeaveFrame, PointerFacts DEF ListInvariant
  <2> HIDE DEF f
  <2>3. f \in Frames /\ Apart(heap, S!Front(loops), f.tail)
    BY <2>2 DEF Fits
  <2> QED BY <2>1, <2>2, <2>3, UpdateKeeps DEF ListInvariant
<1> QED BY <1>1, <1>2

LEMMA CollectKeeps == ASSUME ListInvariant, EndCollectBody PROVE ListInvariant'
<1>1. CASE Die("loop") \/ Stop("loop", "crashed") \/ Stop("loop", "hung")
  BY <1>1, StopKeeps DEF Die, Stop
<1>2. CASE ~(Die("loop") \/ Stop("loop", "crashed") \/ Stop("loop", "hung"))
  <2> DEFINE f == S!Last(loops)
             ls == S!Front(loops)
  <2>1. PICK e \in Computes(heap.live), c \in Mallocs(heap) :
          /\ loops # <<>> /\ f.kind = "collect" /\ f.tail \in Cell /\ c # NULL
          /\ "running" \in Walks(heap, f.ret)
          /\ heap' = Appended(heap, f.ret, c, e) /\ Update(heap', f, AppendReturns(f.ret, c))
    BY <1>2 DEF EndCollectBody, MayRead, Walks
  <2>2. Lists(heap, reg, ls) /\ Fits(heap, reg, ls, f) /\ e \in Elem /\ heap \in Shapes
    BY <2>1, LeaveFrame, PointerFacts DEF ListInvariant
  <2> HIDE DEF f, ls
  <2>3. /\ f \in Frames /\ Apart(heap, ls, f.tail) /\ f.ret \in Pointer
        /\ Private(heap, reg, ls, f.ret) /\ Disjoint(heap, f.ret, f.tail)
    BY <2>1, <2>2, FrameFacts DEF Fits
  <2>4. c \in Cell \ heap.live
    BY <2>1 DEF Mallocs
  <2> DEFINE n == NewCell(heap, c, e)
  <2>5. n \in Shapes /\ n.live = heap.live \cup {c} /\ n.tail = [heap.tail EXCEPT ![c] = NULL]
    BY <2>2, <2>4, NewCells, PointerFacts
  <2> HIDE DEF n
  <2>6. /\ heap' \in Shapes /\ heap'.live = heap.live \cup {c}
        /\ \/ f.ret = NULL /\ heap'.tail = [heap.tail EXCEPT ![c] = NULL]
           \/ \E d \in LastCells(heap, f.ret) :
                heap'.tail = [[heap.tail EXCEPT ![c] = NULL] EXCEPT ![d] = c]
    <3>1. CASE f.ret = NULL
      BY <2>1, <2>5, <3>1 DEF Appended, n
    <3>2. CASE f.ret # NULL
      <4>1. LastCells(heap, f.ret) # {}
        BY <2>1, <3>2 DEF Walks
      <4> DEFINE d == CHOOSE x \in LastCells(heap, f.ret) : TRUE
      <4>2. d \in LastCells(heap, f.ret) /\ d \in Cell
        BY <4>1, ReachCells DEF LastCells
      <4>3. heap' = TailSet(n, d, c)
        BY <2>1, <3>2 DEF Appended, n
      <4> HIDE DEF d
      <4>4. heap' = [n EXCEPT !.tail[d] = c]
        BY <4>2, <4>3, HeapAssumption DEF TailSet
      <4>5. heap' \in Shapes /\ heap'.live = n.live /\ heap'.tail = [n.tail EXCEPT ![d] = c]
        BY <2>4, <2>5, <4>2, <4>4 DEF Shapes, Heaps, Pointer
      <4> QED BY <2>5, <4>2, <4>5
    <3> QED BY <3>1, <3>2
  <2>7. LET m == AppendReturns(f.ret, c)
        IN  /\ Lists(heap', reg, ls) /\ Apart(heap', ls, f.tail)
            /\ m \in Pointer /\ Private(heap', reg, ls, m) /\ Disjoint(heap', m, f.tail)
    BY <2>2, <2>3, <2>4, <2>6, CellAtEnd
  <2>8. Lists(heap', reg', loops')
    BY <2>1, <2>3, <2>7, UpdateKeeps DEF ls
  <2> QED BY <2>8 DEF ListInvariant
<1> QED BY <1>1, <1>2

LEMMA ListsPreserved == ListInvariant /\ CompiledCalls /\ [Next]_vars => ListInvariant'
<1> SUFFICES ASSUME ListInvariant, CompiledCalls, [Next]_vars PROVE ListInvariant'
  OBVIOUS
<1>1. CASE CarOf \/ FoldList \/ UNCHANGED vars
  BY <1>1, StopKeeps DEF CarOf, FoldList, Die, Stop, vars
<1>2. ~(ForeignAppend \/ ForeignInit \/ ForeignSet \/ ForeignDestroy \/ ForeignFini)
  BY DEF CompiledCalls, ForeignAppend, ForeignInit, ForeignSet, ForeignDestroy, ForeignFini
<1> QED BY <1>1, <1>2, LiteralKeeps, ConsKeeps, CdrKeeps, EnterKeeps, DoKeeps, CollectKeeps DEF Next

LEMMA ListsInitially == Init => ListInvariant
<1> SUFFICES ASSUME Init PROVE ListInvariant
  OBVIOUS
<1>1. heap \in Shapes /\ heap.live = {} /\ reg \in [Register -> Pointer] /\ loops = <<>>
  BY DEF Init, Shapes, Heaps, Pointer
<1>2. \A p \in Pointers(reg, loops) : p = NULL
  BY <1>1 DEF Init, Pointers
<1>3. Collecting(loops) = {} /\ loops \in Seq(Frames)
  BY <1>1 DEF Collecting
<1> QED BY <1>1, <1>2, <1>3, NoCellFits DEF ListInvariant, Lists, Closed

-----------------------------------------------------------------------------
(* The theorem                                                             *)

\* As long as the runtime is called by compiled code only, slc_int_list_append changes
\* no list but the one that its collect loop builds, whatever lists the program makes
\* and holds, however its loops nest, and also when malloc fails.
THEOREM CollectedListsAreUnshared == CompiledCalls => (Spec => []GrowingListsAreUnshared)
<1> SUFFICES ASSUME CompiledCalls PROVE Spec => []GrowingListsAreUnshared
  OBVIOUS
<1>1. ListInvariant => GrowingListsAreUnshared
  <2> SUFFICES ASSUME ListInvariant PROVE GrowingListsAreUnshared
    OBVIOUS
  <2>1. Growing = Collecting(loops) /\ Held = Pointers(reg, loops)
    BY DEF Growing, Collecting, Held, Pointers
  <2> QED BY <2>1 DEF ListInvariant, Lists, Apart, Disjoint, GrowingListsAreUnshared
<1>2. ListInvariant /\ [Next]_vars => ListInvariant'
  BY ListsPreserved
<1> QED BY <1>1, <1>2, ListsInitially, PTL DEF Spec

\* A step that takes no cell away, and changes no head and no tail.
Untouched == \A c \in heap.live : c \in heap'.live /\ heap'.head[c] = heap.head[c] /\ heap'.tail[c] = heap.tail[c]

LEMMA NewCellUntouched ==
  ASSUME ListInvariant, NEW c \in Cell \ heap.live, NEW e \in Elem, NEW t \in Pointer,
         heap' \in {HeadSet(Created(heap, c, t), c, e), Consed(heap, c, e, t)}
  PROVE  Untouched
<1>1. /\ heap \in Shapes /\ heap.live \subseteq Cell /\ heap.tail \in [Cell -> Pointer]
  BY PointerFacts, ShapeFacts
<1>2. PICK g : g \in {HeadSet(Created(heap, c, t), c, e), Consed(heap, c, e, t)} /\ g = heap'
  OBVIOUS
<1>3. /\ g.live = heap.live \cup {c} /\ g.tail = [heap.tail EXCEPT ![c] = t]
      /\ \A d \in Cell \ {c} : g.head[d] = heap.head[d]
  BY <1>1, <1>2, NewCells
<1> QED BY <1>1, <1>2, <1>3 DEF Untouched

\* The cells of lists stay as they are in every step of compiled code but the append of
\* a collect loop, which changes the tail of the last cell of its own list.
THEOREM OnlyCollectedListsChange == CompiledCalls => (Spec => OnlyGrowingListsChange)
<1> SUFFICES ASSUME CompiledCalls PROVE Spec => OnlyGrowingListsChange
  OBVIOUS
<1> DEFINE Changes ==
      \A c \in heap.live :
        /\ c \in heap'.live /\ heap'.head[c] = heap.head[c]
        /\ heap'.tail[c] # heap.tail[c] =>
             /\ loops # <<>> /\ S!Last(loops).kind = "collect"
             /\ c \in LastCells(heap, S!Last(loops).ret)
<1>1. ListInvariant /\ [Next]_vars => [Changes]_vars
  <2> SUFFICES ASSUME ListInvariant, Next PROVE Changes
    OBVIOUS
  <2>1. heap \in Shapes /\ heap.live \subseteq Cell /\ heap.tail \in [Cell -> Pointer]
        /\ \A x \in Computes(heap.live) : x \in Elem
    BY PointerFacts, ShapeFacts
  <2>2. Untouched => Changes
    BY DEF Untouched
  <2>3. UNCHANGED heap => Untouched
    BY DEF Untouched
  <2>4. CASE Literal
    <3>1. PICK e \in Computes(heap.live), c \in Mallocs(heap), junk \in FreshTails :
            heap' = HeadSet(Created(heap, c, junk), c, e)
      BY <2>4 DEF Literal
    <3>2. CASE c = NULL
      BY <2>3, <3>1, <3>2, <2>2 DEF HeadSet, Created
    <3>3. CASE c # NULL
      <4>1. c \in Cell \ heap.live /\ junk \in Pointer
        BY <3>3, HeapAssumption DEF Mallocs
      <4> QED BY <2>1, <2>2, <3>1, <4>1, NewCellUntouched
    <3> QED BY <3>2, <3>3
  <2>5. CASE Cons
    <3>1. CASE UNCHANGED heap
      BY <2>2, <2>3, <3>1
    <3>2. CASE ~UNCHANGED heap
      <4>1. PICK s \in Register, e \in Computes(heap.live), c \in Mallocs(heap) :
              c # NULL /\ heap' = Consed(heap, c, e, reg[s])
        BY <2>5, <3>2 DEF Cons, Die, Stop
      <4>2. PICK t \in Pointer : t = reg[s]
        BY PointerFacts
      <4>3. c \in Cell \ heap.live
        BY <4>1 DEF Mallocs
      <4> QED BY <2>1, <2>2, <4>1, <4>2, <4>3, NewCellUntouched
    <3> QED BY <3>1, <3>2
  <2>6. CASE CdrOf \/ CarOf \/ FoldList \/ EnterLoop \/ EndDoBody
    <3>1. UNCHANGED heap
      BY <2>6 DEF CdrOf, CarOf, FoldList, EnterLoop, EndDoBody, Die, Stop
    <3> QED BY <2>2, <2>3, <3>1
  <2>7. CASE EndCollectBody
    <3>1. CASE UNCHANGED heap
      BY <2>2, <2>3, <3>1
    <3>2. CASE ~UNCHANGED heap
      <4> DEFINE f == S!Last(loops)
      <4>1. PICK e \in Computes(heap.live), c \in Mallocs(heap) :
              /\ loops # <<>> /\ f.kind = "collect" /\ c # NULL /\ "running" \in Walks(heap, f.ret)
              /\ heap' = Appended(heap, f.ret, c, e)
        BY <2>7, <3>2 DEF EndCollectBody, Die, Stop, Walks
      <4> HIDE DEF f
      <4>2. c \in Cell \ heap.live /\ e \in Elem /\ NULL \in Pointer
        BY <2>1, <4>1, PointerFacts DEF Mallocs
      <4> DEFINE n == NewCell(heap, c, e)
      <4>3. /\ n \in Shapes /\ n.live = heap.live \cup {c} /\ n.tail = [heap.tail EXCEPT ![c] = NULL]
            /\ \A d \in Cell \ {c} : n.head[d] = heap.head[d]
        BY <2>1, <4>2, NewCells
      <4>4. f.ret = NULL => heap' = n
        BY <4>1 DEF Appended
      <4>5. f.ret # NULL => \E d \in LastCells(heap, f.ret) : heap' = TailSet(n, d, c)
        <5>1. f.ret # NULL => LastCells(heap, f.ret) # {}
          BY <4>1 DEF Walks
        <5> QED BY <4>1, <5>1 DEF Appended
      <4> HIDE DEF n
      <4>6. CASE f.ret = NULL
        BY <2>1, <2>2, <4>2, <4>3, <4>4, <4>6 DEF Untouched
      <4>7. CASE f.ret # NULL
        <5>1. PICK d \in LastCells(heap, f.ret) : heap' = TailSet(n, d, c)
          BY <4>5, <4>7
        <5>2. d \in Cell
          BY ReachCells DEF LastCells
        <5>3. heap' = [n EXCEPT !.tail[d] = c]
          BY <5>1, <5>2, HeapAssumption DEF TailSet
        <5>4. heap'.live = n.live /\ heap'.head = n.head /\ \A x \in Cell \ {d} : heap'.tail[x] = n.tail[x]
          BY <4>3, <5>2, <5>3 DEF Shapes, Heaps
        <5> QED BY <2>1, <4>1, <4>2, <4>3, <5>4 DEF f
      <4> QED BY <4>6, <4>7
    <3> QED BY <3>1, <3>2
  <2>8. ~(ForeignAppend \/ ForeignInit \/ ForeignSet \/ ForeignDestroy \/ ForeignFini)
    BY DEF CompiledCalls, ForeignAppend, ForeignInit, ForeignSet, ForeignDestroy, ForeignFini
  <2> QED BY <2>4, <2>5, <2>6, <2>7, <2>8 DEF Next
<1>2. ListInvariant /\ [Next]_vars => ListInvariant'
  BY ListsPreserved
<1> QED BY <1>1, <1>2, ListsInitially, PTL DEF Spec, OnlyGrowingListsChange

-----------------------------------------------------------------------------
(* Lists end                                                               *)

\* From every cell in use the tails lead to a last one, through cells in use only.
CellsEnd(h) == \A c \in h.live : h.tail[c] # Wild /\ LastCells(h, c) # {}

\* The program's pointers are lists.
FrameIsList(f) == f.tail # Wild /\ (f.kind = "collect" => f.ret # Wild)
HoldsLists(v, ls) == (\A r \in Register : v[r] # Wild) /\ \A i \in DOMAIN ls : FrameIsList(ls[i])

EndInvariant == ListInvariant /\ CellsEnd(heap) /\ HoldsLists(reg, loops)

\* Compiled code whose quoted lists have an end.
EndedCalls == Foreign = {} /\ FreshTails = {NULL}

LEMMA EndedCallsAreCompiled == EndedCalls => CompiledCalls
BY HeapAssumption DEF EndedCalls, CompiledCalls

\* A list whose cells keep their tails keeps its last cell.
LEMMA LastKept ==
  ASSUME NEW h, h.tail \in [Cell -> Pointer], NEW k, k.tail \in [Cell -> Pointer], NEW l,
         \A c \in Reach(h, l) : k.tail[c] = h.tail[c]
  PROVE  LastCells(k, l) = LastCells(h, l)
<1>1. Reach(k, l) = Reach(h, l)
  BY ReachKept
<1> QED BY <1>1 DEF LastCells

LEMMA EndsWithNewCell ==
  ASSUME NEW h \in Shapes, Closed(h, h.live), CellsEnd(h),
         NEW k \in Shapes, NEW c \in Cell \ h.live, NEW t \in h.live \cup {NULL},
         k.live = h.live \cup {c}, k.tail = [h.tail EXCEPT ![c] = t]
  PROVE  CellsEnd(k)
<1>1. /\ h.tail \in [Cell -> Pointer] /\ k.tail \in [Cell -> Pointer] /\ h.live \subseteq Cell
      /\ k.tail[c] = t /\ \A d \in Cell \ {c} : k.tail[d] = h.tail[d]
  BY ShapeFacts
<1>2. ASSUME NEW d \in h.live PROVE k.tail[d] # Wild /\ LastCells(k, d) = LastCells(h, d) /\ LastCells(h, d) # {}
  <2>1. Reach(h, d) \subseteq h.live
    BY ReachLive DEF Known
  <2>2. \A x \in Reach(h, d) : k.tail[x] = h.tail[x]
    BY <1>1, <2>1
  <2>3. LastCells(k, d) = LastCells(h, d)
    BY <1>1, <2>2, LastKept
  <2>4. d \in Cell \ {c}
    BY <1>1
  <2> QED BY <1>1, <2>3, <2>4 DEF CellsEnd
<1>3. t # Wild
  BY <1>1, HeapAssumption
<1>4. c \in Reach(k, c)
  BY <1>1, ReachClosed
<1>5. CASE t = NULL
  BY <1>1, <1>2, <1>3, <1>4, <1>5 DEF CellsEnd, LastCells
<1>6. CASE t \in h.live
  <2>1. Reach(k, t) \subseteq Reach(k, c)
    BY <1>1, ReachBehind
  <2>2. LastCells(k, c) # {}
    BY <1>2, <1>6, <2>1 DEF LastCells
  <2> QED BY <1>1, <1>2, <1>3, <2>2 DEF CellsEnd
<1> QED BY <1>5, <1>6

\* Whoever shares the last cell gets the new one for a last cell.
LEMMA EndsWithNewLast ==
  ASSUME NEW h \in Shapes, Closed(h, h.live), CellsEnd(h),
         NEW k \in Shapes, NEW c \in Cell \ h.live, k.live = h.live \cup {c},
         NEW e \in h.live, k.tail = [[h.tail EXCEPT ![c] = NULL] EXCEPT ![e] = c]
  PROVE  CellsEnd(k)
<1>1. /\ h.tail \in [Cell -> Pointer] /\ k.tail \in [Cell -> Pointer] /\ h.live \subseteq Cell
      /\ k.tail[c] = NULL /\ k.tail[e] = c /\ \A d \in Cell \ {c, e} : k.tail[d] = h.tail[d]
  BY ShapeFacts
<1>2. c \in LastCells(k, c)
  BY <1>1, ReachClosed DEF LastCells
<1>3. ASSUME NEW d \in h.live PROVE LastCells(k, d) # {}
  <2>1. Reach(h, d) \subseteq h.live /\ d \in Reach(h, d) /\ Closed(h, Reach(h, d))
    BY <1>1, ReachLive, ReachClosed DEF Known
  <2>2. CASE e \notin Reach(h, d)
    <3>1. \A x \in Reach(h, d) : k.tail[x] = h.tail[x]
      BY <1>1, <2>1, <2>2
    <3>2. h.tail \in [Cell -> Pointer] /\ k.tail \in [Cell -> Pointer]
      BY <1>1
    <3>4. Reach(k, d) = Reach(h, d)
      BY <3>1, <3>2, ReachKept
    <3>5. LastCells(k, d) = LastCells(h, d)
      BY <3>1, <3>4 DEF LastCells
    <3>3. LastCells(h, d) # {}
      BY <1>3 DEF CellsEnd
    <3> QED BY <3>3, <3>5
  <2>3. CASE e \in Reach(h, d)
    <3>1. ASSUME NEW T \in SUBSET Cell, d \in T, Closed(k, T) PROVE c \in T
      <4>1. ASSUME e \notin T PROVE FALSE
        <5>1. Closed(h, T \cap Reach(h, d))
          <6>1. ASSUME NEW x \in T \cap Reach(h, d)
                PROVE  h.tail[x] \in (T \cap Reach(h, d)) \cup {NULL, Wild}
            <7>1. x \in Cell \ {c, e} /\ k.tail[x] = h.tail[x]
              BY <1>1, <2>1, <4>1, <6>1
            <7> QED BY <2>1, <3>1, <6>1, <7>1 DEF Closed
          <6> QED BY <6>1 DEF Closed
        <5>2. Reach(h, d) \subseteq T \cap Reach(h, d)
          BY <2>1, <3>1, <5>1, ReachLeast
        <5> QED BY <2>3, <4>1, <5>2
      <4>2. k.tail[e] \in T \cup {NULL, Wild}
        BY <3>1, <4>1 DEF Closed
      <4>3. c # NULL /\ c # Wild
        BY HeapAssumption
      <4> QED BY <1>1, <4>2, <4>3
    <3>2. c \in Reach(k, d)
      BY <1>1, <3>1 DEF Reach
    <3> QED BY <1>1, <3>2 DEF LastCells
  <2> QED BY <2>2, <2>3
<1>4. \A d \in h.live \cup {c} : k.tail[d] # Wild
  BY <1>1, HeapAssumption DEF CellsEnd
<1> QED BY <1>2, <1>3, <1>4 DEF CellsEnd

-----------------------------------------------------------------------------
(* The steps                                                               *)

LEMMA CdrIsList ==
  ASSUME NEW h, CellsEnd(h), NEW p \in h.live \cup {NULL} PROVE Cdr(h, p) # Wild
BY HeapAssumption DEF Cdr, CellsEnd

\* A pointer that the program uses is null or a cell in use.
LEMMA UsedPointers ==
  ASSUME EndInvariant
  PROVE  /\ \A r \in Register : reg[r] \in heap.live \cup {NULL}
         /\ loops # <<>> =>
              LET f == S!Last(loops)
              IN  /\ f.tail \in heap.live \cup {NULL} /\ FrameIsList(f)
                  /\ f.kind = "collect" => f.ret \in heap.live \cup {NULL}
         /\ loops # <<>> => HoldsLists(reg, S!Front(loops))
<1>1. \A r \in Register : reg[r] \in heap.live \cup {NULL}
  BY PointerFacts DEF EndInvariant, HoldsLists, Apart, Known
<1>2. ASSUME loops # <<>>
      PROVE  /\ S!Last(loops).tail \in heap.live \cup {NULL} /\ FrameIsList(S!Last(loops))
             /\ S!Last(loops).kind = "collect" => S!Last(loops).ret \in heap.live \cup {NULL}
             /\ HoldsLists(reg, S!Front(loops))
  <2>1. /\ loops \in Seq(Frames) /\ Len(loops) \in DOMAIN loops /\ S!Last(loops) = loops[Len(loops)]
        /\ \A i \in DOMAIN S!Front(loops) : i \in DOMAIN loops /\ S!Front(loops)[i] = loops[i]
    BY <1>2, PointerFacts DEF EndInvariant, S!Last, S!Front
  <2>2. FrameIsList(S!Last(loops)) /\ HoldsLists(reg, S!Front(loops))
    BY <2>1 DEF EndInvariant, HoldsLists
  <2>3. Fits(heap, reg, S!Front(loops), S!Last(loops))
    BY <1>2, LeaveFrame DEF EndInvariant, ListInvariant
  <2> QED BY <2>2, <2>3 DEF Fits, Apart, Private, Known, FrameIsList
<1> QED BY <1>1, <1>2

\* The check block keeps the program's pointers lists.
LEMMA CheckHolds ==
  ASSUME NEW ls \in Seq(Frames), HoldsLists(reg, ls), reg \in [Register -> Pointer],
         NEW f \in Frames, FrameIsList(f), Check(ls, f)
  PROVE  HoldsLists(reg', loops')
<1>1. CASE f.tail # NULL
  <2>1. reg' = reg /\ loops' = Append(ls, f)
    BY <1>1 DEF Check
  <2>2. \A i \in DOMAIN Append(ls, f) : Append(ls, f)[i] = f \/ (i \in DOMAIN ls /\ Append(ls, f)[i] = ls[i])
    OBVIOUS
  <2> QED BY <2>1, <2>2 DEF HoldsLists
<1>2. CASE f.tail = NULL
  <2>1. loops' = ls /\ Result(f)
    BY <1>2 DEF Check
  <2>2. CASE f.kind = "collect"
    BY <2>1, <2>2 DEF HoldsLists, Result, Assign, FrameIsList
  <2>3. CASE f.kind # "collect"
    BY <2>1, <2>3 DEF HoldsLists, Result
  <2> QED BY <2>2, <2>3
<1> QED BY <1>1, <1>2

\* What a step leaves.
ListsGoOn == CellsEnd(heap') /\ HoldsLists(reg', loops')
USE DEF ListsGoOn

LEMMA EndsAfterStop == ASSUME EndInvariant, UNCHANGED <<heap, reg, loops>> PROVE ListsGoOn
BY DEF EndInvariant

LEMMA LiteralEnds == ASSUME EndInvariant, EndedCalls, Literal PROVE ListsGoOn
<1>1. PICK r \in Register, e \in Computes(heap.live), c \in Mallocs(heap) :
        /\ heap' = HeadSet(Created(heap, c, NULL), c, e)
        /\ reg' = [reg EXCEPT ![r] = c] /\ loops' = loops
  BY DEF Literal, Assign, EndedCalls
<1>2. heap \in Shapes /\ e \in Elem /\ Closed(heap, heap.live) /\ CellsEnd(heap) /\ NULL \in Pointer
  BY PointerFacts DEF EndInvariant
<1>3. HoldsLists(reg', loops')
  <2>1. c # Wild
    BY HeapAssumption DEF Mallocs
  <2> QED BY <1>1, <2>1, PointerFacts DEF EndInvariant, HoldsLists
<1>4. CASE c = NULL
  BY <1>1, <1>2, <1>3, <1>4 DEF HeadSet, Created
<1>5. CASE c # NULL
  <2>1. c \in Cell \ heap.live
    BY <1>5 DEF Mallocs
  <2> DEFINE k == HeadSet(Created(heap, c, NULL), c, e)
  <2>2. k \in Shapes /\ k.live = heap.live \cup {c} /\ k.tail = [heap.tail EXCEPT ![c] = NULL]
    BY <1>2, <2>1, NewCells
  <2>3. heap' = k
    BY <1>1
  <2> HIDE DEF k
  <2>4. CellsEnd(k)
    BY <1>2, <2>1, <2>2, EndsWithNewCell
  <2> QED BY <1>3, <2>3, <2>4
<1> QED BY <1>4, <1>5

LEMMA ConsEnds == ASSUME EndInvariant, Cons PROVE ListsGoOn
<1>1. CASE Die("cons")
  BY <1>1, EndsAfterStop DEF Die, Stop
<1>2. CASE ~Die("cons")
  <2>1. PICK r \in Register, s \in Register, e \in Computes(heap.live), c \in Mallocs(heap) :
          /\ c # NULL /\ heap' = Consed(heap, c, e, reg[s])
          /\ reg' = [reg EXCEPT ![r] = c] /\ loops' = loops
    BY <1>2 DEF Cons, Assign
  <2>2. /\ heap \in Shapes /\ e \in Elem /\ Closed(heap, heap.live) /\ CellsEnd(heap)
        /\ reg[s] \in Pointer /\ reg[s] \in heap.live \cup {NULL}
    BY PointerFacts, UsedPointers DEF EndInvariant
  <2>3. c \in Cell \ heap.live /\ c # Wild
    BY <2>1, HeapAssumption DEF Mallocs
  <2>4. HoldsLists(reg', loops')
    BY <2>1, <2>3, PointerFacts DEF EndInvariant, HoldsLists
  <2> DEFINE k == Consed(heap, c, e, reg[s])
  <2>5. k \in Shapes /\ k.live = heap.live \cup {c} /\ k.tail = [heap.tail EXCEPT ![c] = reg[s]]
    BY <2>2, <2>3, NewCells
  <2>6. heap' = k
    BY <2>1
  <2> HIDE DEF k
  <2>7. CellsEnd(k)
    BY <2>2, <2>3, <2>5, EndsWithNewCell
  <2> QED BY <2>4, <2>6, <2>7
<1> QED BY <1>1, <1>2

LEMMA CdrEnds == ASSUME EndInvariant, CdrOf PROVE ListsGoOn
<1>1. CASE Die("cdr")
  BY <1>1, EndsAfterStop DEF Die, Stop
<1>2. CASE ~Die("cdr")
  <2>1. PICK r \in Register, s \in Register :
          reg' = [reg EXCEPT ![r] = Cdr(heap, reg[s])] /\ UNCHANGED <<heap, loops>>
    BY <1>2 DEF CdrOf, Assign
  <2>2. Cdr(heap, reg[s]) # Wild
    BY UsedPointers, CdrIsList DEF EndInvariant
  <2> QED BY <2>1, <2>2, PointerFacts DEF EndInvariant, HoldsLists
<1> QED BY <1>1, <1>2

LEMMA EnterEnds == ASSUME EndInvariant, EnterLoop PROVE ListsGoOn
<1>1. CASE Die("loop")
  BY <1>1, EndsAfterStop DEF Die, Stop
<1>2. CASE ~Die("loop")
  <2>1. PICK kind \in {"do", "collect"}, r \in Register, s \in Register :
          /\ CarReads(reg[s]) /\ reg[s] \in Cell \cup {NULL} /\ heap' = heap
          /\ Check(loops, Frame(kind, CarValue(heap, reg[s]), Cdr(heap, reg[s]),
                                IF kind = "collect" THEN NULL ELSE Wild, r))
    BY <1>2 DEF EnterLoop, MayRead
  <2> DEFINE f == Frame(kind, CarValue(heap, reg[s]), Cdr(heap, reg[s]),
                        IF kind = "collect" THEN NULL ELSE Wild, r)
  <2>2. /\ f.kind = kind /\ f.tail = Cdr(heap, reg[s]) /\ f.ret = IF kind = "collect" THEN NULL ELSE Wild
    BY DEF Frame
  <2>3. Cdr(heap, reg[s]) # Wild /\ Cdr(heap, reg[s]) \in Pointer
    BY <2>1, UsedPointers, CdrIsList, PointerFacts, CdrApart DEF EndInvariant
  <2>4. CarValue(heap, reg[s]) \in Elem \cup {0, Wild}
    BY <2>1, PointerFacts, ItemFacts DEF EndInvariant
  <2>5. f \in Frames
    BY <2>3, <2>4, FrameFacts, PointerFacts DEF EndInvariant
  <2> HIDE DEF f
  <2>6. FrameIsList(f)
    BY <2>2, <2>3, HeapAssumption DEF FrameIsList
  <2>7. Check(loops, f)
    BY <2>1 DEF f
  <2> QED BY <2>1, <2>5, <2>6, <2>7, CheckHolds, PointerFacts DEF EndInvariant
<1> QED BY <1>1, <1>2

\* The end of a body: the frame is taken off and, with what is behind its tail, put back.
LEMMA UpdateHolds ==
  ASSUME EndInvariant, loops # <<>>, NEW h \in Shapes, CellsEnd(h), heap.live \subseteq h.live,
         NEW f, f = S!Last(loops), f.tail \in Cell, NEW ret,
         \/ f.kind = "do" /\ ret \in Elem
         \/ f.kind = "collect" /\ ret \in Pointer \ {Wild},
         Update(h, f, ret)
  PROVE  HoldsLists(reg', loops')
<1> DEFINE g == Frame(f.kind, CarValue(h, f.tail), Cdr(h, f.tail), ret, f.to)
<1>1. g.kind = f.kind /\ g.tail = Cdr(h, f.tail) /\ g.ret = ret /\ g.to = f.to
  BY DEF Frame
<1>2. /\ Lists(heap, reg, S!Front(loops)) /\ f \in Frames
      /\ HoldsLists(reg, S!Front(loops)) /\ f.tail \in h.live
  BY LeaveFrame, UsedPointers, HeapAssumption DEF EndInvariant, ListInvariant, Fits
<1>3. Cdr(h, f.tail) # Wild /\ Cdr(h, f.tail) \in Pointer
  <2>1. Cdr(h, f.tail) # Wild
    BY <1>2, CdrIsList
  <2>2. Cdr(h, f.tail) = h.tail[f.tail]
    BY HeapAssumption DEF Cdr
  <2> QED BY <2>1, <2>2, ShapeFacts
<1>4. g \in Frames
  <2>1. CarValue(h, f.tail) \in Elem \cup {0, Wild}
    BY ItemFacts DEF CarReads, MayRead
  <2> QED BY <1>2, <1>3, <2>1, FrameFacts
<1> HIDE DEF g
<1>5. FrameIsList(g)
  BY <1>1, <1>3 DEF FrameIsList
<1>6. Check(S!Front(loops), g)
  BY DEF Update, g
<1> QED BY <1>2, <1>4, <1>5, <1>6, CheckHolds DEF Lists

LEMMA DoEnds == ASSUME EndInvariant, EndDoBody PROVE ListsGoOn
<1>1. CASE Die("loop")
  BY <1>1, EndsAfterStop DEF Die, Stop
<1>2. CASE ~Die("loop")
  <2>1. PICK e \in Computes(heap.live) :
          /\ loops # <<>> /\ S!Last(loops).kind = "do" /\ S!Last(loops).tail \in Cell
          /\ Update(heap, S!Last(loops), e) /\ heap' = heap
    BY <1>2 DEF EndDoBody, MayRead
  <2>2. e \in Elem /\ heap \in Shapes
    BY PointerFacts DEF EndInvariant
  <2>3. HoldsLists(reg', loops')
    BY <2>1, <2>2, UpdateHolds DEF EndInvariant
  <2> QED BY <2>1, <2>3 DEF EndInvariant
<1> QED BY <1>1, <1>2

\* append, in the end of a collect body.
LEMMA AppendEnds ==
  ASSUME EndInvariant, NEW l \in heap.live \cup {NULL}, NEW c \in Cell \ heap.live, NEW e \in Elem
  PROVE  LET k == Appended(heap, l, c, e)
         IN  k \in Shapes /\ k.live = heap.live \cup {c} /\ CellsEnd(k)
<1>1. /\ heap \in Shapes /\ Closed(heap, heap.live) /\ CellsEnd(heap) /\ NULL \in Pointer
      /\ heap.live \subseteq Cell
  BY PointerFacts, ShapeFacts DEF EndInvariant
<1> DEFINE n == NewCell(heap, c, e)
<1>2. n \in Shapes /\ n.live = heap.live \cup {c} /\ n.tail = [heap.tail EXCEPT ![c] = NULL]
  BY <1>1, NewCells
<1>3. CASE l = NULL
  <2>1. Appended(heap, l, c, e) = n
    BY <1>3 DEF Appended
  <2> HIDE DEF n
  <2> QED BY <1>1, <1>2, <2>1, EndsWithNewCell
<1>4. CASE l # NULL
  <2>1. l \in heap.live /\ LastCells(heap, l) # {}
    BY <1>1, <1>4 DEF CellsEnd
  <2> DEFINE d == CHOOSE x \in LastCells(heap, l) : TRUE
             k == TailSet(n, d, c)
  <2>2. d \in LastCells(heap, l)
    BY <2>1
  <2>3. Appended(heap, l, c, e) = k
    BY <1>4 DEF Appended
  <2> HIDE DEF n, d
  <2>4. d \in heap.live
    BY <1>1, <2>1, <2>2, ReachLive DEF LastCells, Known
  <2>5. k = [n EXCEPT !.tail[d] = c]
    BY <1>1, <2>4, HeapAssumption DEF TailSet
  <2> HIDE DEF k
  <2>6. k \in Shapes /\ k.live = n.live /\ k.tail = [n.tail EXCEPT ![d] = c]
    BY <1>1, <1>2, <2>4, <2>5 DEF Shapes, Heaps, Pointer
  <2>7. CellsEnd(k)
    BY <1>1, <1>2, <2>4, <2>6, EndsWithNewLast
  <2> QED BY <1>2, <2>3, <2>6, <2>7
<1> QED BY <1>3, <1>4

LEMMA CollectEnds == ASSUME EndInvariant, EndCollectBody PROVE ListsGoOn
<1>1. CASE UNCHANGED <<heap, reg, loops>>
  BY <1>1, EndsAfterStop
<1>2. CASE ~UNCHANGED <<heap, reg, loops>>
  <2> DEFINE f == S!Last(loops)
  <2>1. PICK e \in Computes(heap.live), c \in Mallocs(heap) :
          /\ loops # <<>> /\ f.kind = "collect" /\ f.tail \in Cell /\ c # NULL
          /\ heap' = Appended(heap, f.ret, c, e) /\ Update(heap', f, AppendReturns(f.ret, c))
    BY <1>2 DEF EndCollectBody, MayRead, Die, Stop
  <2>2. c \in Cell \ heap.live /\ e \in Elem /\ f.ret \in heap.live \cup {NULL}
    BY <2>1, UsedPointers, PointerFacts DEF Mallocs, EndInvariant
  <2>3. PICK k : k = Appended(heap, f.ret, c, e)
    OBVIOUS
  <2>4. k \in Shapes /\ k.live = heap.live \cup {c} /\ CellsEnd(k)
    BY <2>2, <2>3, AppendEnds
  <2>5. AppendReturns(f.ret, c) \in Pointer \ {Wild}
    <3>1. heap.live \subseteq Cell
      BY PointerFacts, ShapeFacts DEF EndInvariant
    <3> QED BY <2>2, <3>1, HeapAssumption DEF AppendReturns, Pointer
  <2>6. Update(k, f, AppendReturns(f.ret, c)) /\ heap' = k
    BY <2>1, <2>3
  <2>7. HoldsLists(reg', loops')
    BY <2>1, <2>4, <2>5, <2>6, UpdateHolds
  <2> QED BY <2>4, <2>6, <2>7
<1> QED BY <1>1, <1>2

LEMMA EndsPreserved == EndInvariant /\ EndedCalls /\ [Next]_vars => EndInvariant'
<1> SUFFICES ASSUME EndInvariant, EndedCalls, [Next]_vars PROVE EndInvariant'
  OBVIOUS
<1>1. ListInvariant'
  BY ListsPreserved, EndedCallsAreCompiled DEF EndInvariant
<1>2. CASE CarOf \/ FoldList \/ UNCHANGED vars
  BY <1>1, <1>2, EndsAfterStop DEF CarOf, FoldList, Die, Stop, vars, EndInvariant
<1>3. ~(ForeignAppend \/ ForeignInit \/ ForeignSet \/ ForeignDestroy \/ ForeignFini)
  BY DEF EndedCalls, ForeignAppend, ForeignInit, ForeignSet, ForeignDestroy, ForeignFini
<1>4. CASE Literal \/ Cons \/ CdrOf \/ EnterLoop \/ EndDoBody \/ EndCollectBody
  <2>1. CellsEnd(heap') /\ HoldsLists(reg', loops')
    BY <1>4, LiteralEnds, ConsEnds, CdrEnds, EnterEnds, DoEnds, CollectEnds
  <2> QED BY <1>1, <2>1 DEF EndInvariant
<1> QED BY <1>2, <1>3, <1>4 DEF Next

\* As long as quoted lists have an end and the runtime is called by compiled code only,
\* every walk along tails that slc_int_list.c makes for the program comes to a last cell:
\* none hangs and none reads what was not written, though collect loops append in place
\* to what others may share by then, and also when malloc fails.
THEOREM ListsHaveEnds == EndedCalls => (Spec => []ListsEnd)
<1> SUFFICES ASSUME EndedCalls PROVE Spec => []ListsEnd
  OBVIOUS
<1>1. EndInvariant => ListsEnd
  <2> SUFFICES ASSUME EndInvariant, NEW p \in Held \cup {loops[i].ret : i \in Growing}
               PROVE  Walks(heap, p) = {"running"}
    BY DEF ListsEnd
  <2>1. /\ heap \in Shapes /\ Closed(heap, heap.live) /\ heap.live \subseteq Cell
        /\ heap.tail \in [Cell -> Pointer]
    BY PointerFacts, ShapeFacts DEF EndInvariant
  <2>2. Known(heap, p) /\ p # Wild
    <3>1. CASE p \in Held
      BY <3>1 DEF EndInvariant, ListInvariant, Lists, Held, Pointers, Apart, HoldsLists, FrameIsList
    <3>2. CASE p \in {loops[i].ret : i \in Growing}
      BY <3>2 DEF EndInvariant, ListInvariant, Lists, Growing, Collecting, HoldsLists, FrameIsList
    <3> QED BY <3>1, <3>2
  <2>3. Reach(heap, p) \subseteq heap.live
    BY <2>1, <2>2, ReachLive
  <2>4. CASE p = NULL
    <3>1. Reach(heap, p) = {} /\ p \notin Cell
      BY <2>4, ReachCells, HeapAssumption
    <3> QED BY <2>2, <2>4, <3>1 DEF Walks
  <2>5. CASE p \in heap.live
    <3>1. LastCells(heap, p) # {} /\ \A c \in Reach(heap, p) : heap.tail[c] # Wild
      BY <2>3, <2>5 DEF EndInvariant, CellsEnd
    <3>2. \E c \in Reach(heap, p) : heap.tail[c] \notin Cell
      BY <3>1, HeapAssumption DEF LastCells
    <3> QED BY <2>2, <2>3, <3>1, <3>2 DEF Walks
  <2> QED BY <2>2, <2>4, <2>5 DEF Known
<1>2. Init => EndInvariant
  <2> SUFFICES ASSUME Init PROVE EndInvariant
    OBVIOUS
  <2>1. heap.live = {} /\ (\A r \in Register : reg[r] = NULL) /\ DOMAIN loops = {}
    BY DEF Init
  <2> QED BY <2>1, ListsInitially, HeapAssumption DEF EndInvariant, CellsEnd, HoldsLists
<1>3. EndInvariant /\ [Next]_vars => EndInvariant'
  BY EndsPreserved
<1> QED BY <1>1, <1>2, <1>3, PTL DEF Spec
=============================================================================
