---------------------------- MODULE ParserProofs ----------------------------
(***************************************************************************)
(* Theorems about the parser, for every set of inputs.                     *)
(*                                                                         *)
(* Between two reductions the live nodes are trees, under the root and     *)
(* under the nodes on the stack.  A reduction takes symbols off the stack, *)
(* whose nodes are roots, makes nodes without children, hangs roots up,    *)
(* or takes a list apart whose elements it hands over.  There is a lemma   *)
(* on forests for each of these, and one per action that puts them         *)
(* together.                                                               *)
(***************************************************************************)
EXTENDS Parser, FiniteSetTheorems, SequenceTheorems, WellFoundedInduction, TLAPS

-----------------------------------------------------------------------------
(* Least elements                                                          *)

LEMMA LeastElement ==
  ASSUME NEW S \in SUBSET Nat, S # {}
  PROVE  \E x \in S : \A y \in S : x <= y
<1> DEFINE R == OpToRel(<, Nat)
<1>1. IsWellFoundedOn(R, Nat)
  BY NatLessThanWellFounded
<1>2. \E x \in S : \A y \in S : ~ (<<y, x>> \in R)
  BY <1>1, WFMin
<1>3. \A x \in S, y \in S : ~(<<y, x>> \in R) => x <= y
  BY SMT DEF OpToRel
<1> QED BY <1>2, <1>3

-----------------------------------------------------------------------------
(* Heaps                                                                   *)

Pointers(h) ==
  /\ h \in Seq(Node)
  /\ \A n \in DOMAIN h :
       /\ h[n].parent \in 0 .. Len(h) /\ h[n].head \in 0 .. Len(h) /\ h[n].tail \in 0 .. Len(h)
       /\ Range(h[n].children) \subseteq 0 .. Len(h)

LEMMA HeapNode ==
  ASSUME NEW h \in Seq(Node), NEW n \in DOMAIN h
  PROVE  /\ n \in 1 .. Len(h) /\ DOMAIN h = 1 .. Len(h) /\ Len(h) \in Nat
         /\ h[n] \in Node
         /\ h[n].parent \in Nat /\ h[n].head \in Nat /\ h[n].tail \in Nat
         /\ h[n].children \in Seq(Nat) /\ h[n].kind \in Kinds
<1>1. n \in 1 .. Len(h) /\ DOMAIN h = 1 .. Len(h) /\ Len(h) \in Nat /\ h[n] \in Node
  OBVIOUS
<1> QED BY <1>1 DEF Node

\* What AddChildren leaves of each node.
Added(h, p, cs, g) ==
  /\ g \in Seq(Node) /\ Len(g) = Len(h) /\ DOMAIN g = DOMAIN h
  /\ \A n \in DOMAIN h :
       /\ g[n].kind = h[n].kind /\ g[n].head = h[n].head /\ g[n].tail = h[n].tail
       /\ g[n].parent = IF n \in Range(cs) THEN p ELSE h[n].parent
       /\ g[n].children = IF n = p THEN h[n].children \o cs ELSE h[n].children
       /\ n # p /\ n \notin Range(cs) => g[n] = h[n]

LEMMA Adding ==
  ASSUME NEW h \in Seq(Node), NEW p \in Nat, NEW cs \in Seq(Nat)
  PROVE  Added(h, p, cs, AddChildren(h, p, cs))
<1> DEFINE g == AddChildren(h, p, cs)
           node(n) == [h[n] EXCEPT !.parent = IF n \in Range(cs) THEN p ELSE @,
                                   !.children = IF n = p THEN @ \o cs ELSE @]
<1>1. g = [n \in DOMAIN h |-> node(n)]
  BY DEF AddChildren
<1>2. ASSUME NEW n \in DOMAIN h
      PROVE  /\ node(n) \in Node
             /\ node(n).kind = h[n].kind /\ node(n).head = h[n].head /\ node(n).tail = h[n].tail
             /\ node(n).parent = IF n \in Range(cs) THEN p ELSE h[n].parent
             /\ node(n).children = IF n = p THEN h[n].children \o cs ELSE h[n].children
             /\ n # p /\ n \notin Range(cs) => node(n) = h[n]
  <2>1. h[n] \in Node /\ h[n].children \in Seq(Nat)
    BY HeapNode
  <2>2. h[n].children \o cs \in Seq(Nat)
    BY <2>1
  <2> QED BY <2>1, <2>2 DEF Node
<1> HIDE DEF node
<1>3. DOMAIN g = DOMAIN h /\ DOMAIN h = 1 .. Len(h) /\ Len(h) \in Nat
  BY <1>1
<1>4. g \in Seq(Node) /\ Len(g) = Len(h)
  BY <1>1, <1>2, <1>3
<1>5. \A n \in DOMAIN h : g[n] = node(n)
  BY <1>1
<1>6. \A n \in DOMAIN h :
              /\ g[n].kind = h[n].kind /\ g[n].head = h[n].head /\ g[n].tail = h[n].tail
              /\ g[n].parent = IF n \in Range(cs) THEN p ELSE h[n].parent
              /\ g[n].children = IF n = p THEN h[n].children \o cs ELSE h[n].children
              /\ n # p /\ n \notin Range(cs) => g[n] = h[n]
  BY <1>2, <1>5
<1> HIDE DEF g
<1>7. Added(h, p, cs, g)
  BY <1>3, <1>4, <1>6 DEF Added
<1> QED BY <1>7 DEF g

-----------------------------------------------------------------------------
(* The cells of a list                                                     *)

AreCells(h, l, f) == f = [i \in 1 .. Len(h) |-> IF i = 1 THEN <<l>> ELSE Behind(h, f[i - 1])]

\* A recursion along the numbers has a solution.
LEMMA CellsExist ==
  ASSUME NEW h, NEW l, Len(h) \in Nat
  PROVE  \E f : AreCells(h, l, f)
<1> DEFINE Holds(f, m) == \A i \in 1 .. m : f[i] = IF i = 1 THEN <<l>> ELSE Behind(h, f[i - 1])
           Bad == {m \in Nat : ~ \E f : Holds(f, m)}
<1>1. Bad = {}
  <2> SUFFICES ASSUME Bad # {} PROVE FALSE
    OBVIOUS
  <2>1. PICK m \in Bad : \A k \in Bad : m <= k
    BY LeastElement
  <2>2. m # 0
    <3>1. \A f : Holds(f, 0)
      OBVIOUS
    <3> QED BY <3>1, <2>1
  <2>3. m \in Nat /\ m - 1 \in Nat /\ ~(m <= m - 1)
    BY <2>1, <2>2
  <2>4. PICK f : Holds(f, m - 1)
    BY <2>1, <2>3
  <2> DEFINE g == [i \in 1 .. m |-> IF i = m THEN IF m = 1 THEN <<l>> ELSE Behind(h, f[m - 1]) ELSE f[i]]
  <2>5. Holds(g, m)
    <3>1. SUFFICES ASSUME NEW i \in 1 .. m PROVE g[i] = IF i = 1 THEN <<l>> ELSE Behind(h, g[i - 1])
      OBVIOUS
    <3>2. m \in Nat /\ (i # m => i \in 1 .. m - 1) /\ (i # 1 => i - 1 \in 1 .. m /\ i - 1 # m)
      BY <2>1
    <3>3. i # 1 => g[i - 1] = f[i - 1]
      BY <3>2
    <3>4. CASE i = m
      BY <3>2, <3>3, <3>4
    <3>5. CASE i # m
      <4>1. g[i] = f[i]
        BY <3>5
      <4>2. f[i] = IF i = 1 THEN <<l>> ELSE Behind(h, f[i - 1])
        BY <2>4, <3>2, <3>5
      <4> HIDE DEF g
      <4> QED BY <4>1, <4>2, <3>3
    <3> QED BY <3>4, <3>5
  <2> HIDE DEF g
  <2>6. \E x : Holds(x, m)
    BY <2>5
  <2> QED BY <2>1, <2>6
<1>2. PICK f : Holds(f, Len(h))
  BY <1>1
<1> DEFINE g == [i \in 1 .. Len(h) |-> f[i]]
<1>3. AreCells(h, l, g)
  <2>1. \A i \in 1 .. Len(h) : f[i] = IF i = 1 THEN <<l>> ELSE Behind(h, g[i - 1])
    <3> SUFFICES ASSUME NEW i \in 1 .. Len(h) PROVE f[i] = IF i = 1 THEN <<l>> ELSE Behind(h, g[i - 1])
      OBVIOUS
    <3>1. i # 1 => g[i - 1] = f[i - 1]
      OBVIOUS
    <3> HIDE DEF g
    <3> QED BY <3>1, <1>2
  <2> QED BY <2>1 DEF AreCells
<1> HIDE DEF g
<1> QED BY <1>3

LEMMA CellsEquation ==
  ASSUME NEW h, NEW l, Len(h) \in Nat
  PROVE  \E f : AreCells(h, l, f) /\ Cells(h, l) = f[Len(h)]
<1> DEFINE cells == CHOOSE f : AreCells(h, l, f)
<1>1. AreCells(h, l, cells)
  BY CellsExist
<1>2. Cells(h, l) = cells[Len(h)]
  BY DEF Cells, AreCells
<1> HIDE DEF cells
<1> QED BY <1>1, <1>2
-----------------------------------------------------------------------------
(* What a destructor comes by                                              *)

AreOwned(h, n, f) == f = [i \in 0 .. Len(h) |-> IF i = 0 THEN {n} ELSE WithChildren(h, f[i - 1])]

LEMMA OwnedExist ==
  ASSUME NEW h, NEW n, Len(h) \in Nat
  PROVE  \E f : AreOwned(h, n, f)
<1> DEFINE Holds(f, m) == \A i \in 0 .. m : f[i] = IF i = 0 THEN {n} ELSE WithChildren(h, f[i - 1])
           Bad == {m \in Nat : ~ \E f : Holds(f, m)}
<1>1. Bad = {}
  <2> SUFFICES ASSUME Bad # {} PROVE FALSE
    OBVIOUS
  <2>1. PICK m \in Bad : \A k \in Bad : m <= k
    BY LeastElement
  <2>2. m # 0
    <3>1. Holds([i \in 0 .. 0 |-> {n}], 0)
      OBVIOUS
    <3> HIDE DEF Holds
    <3> QED BY <3>1, <2>1
  <2>3. m \in Nat /\ m - 1 \in Nat /\ ~(m <= m - 1)
    BY <2>1, <2>2
  <2>4. PICK f : Holds(f, m - 1)
    BY <2>1, <2>3
  <2> DEFINE g == [i \in 0 .. m |-> IF i = m THEN WithChildren(h, f[m - 1]) ELSE f[i]]
  <2>5. Holds(g, m)
    <3>1. SUFFICES ASSUME NEW i \in 0 .. m
                   PROVE  g[i] = IF i = 0 THEN {n} ELSE WithChildren(h, g[i - 1])
      OBVIOUS
    <3>2. m \in Nat /\ (i # m => i \in 0 .. m - 1) /\ (i # 0 => i - 1 \in 0 .. m /\ i - 1 # m)
      BY <2>1
    <3>3. i # 0 => g[i - 1] = f[i - 1]
      BY <3>2
    <3>4. CASE i = m
      BY <2>2, <3>2, <3>3, <3>4
    <3>5. CASE i # m
      <4>1. g[i] = f[i]
        BY <3>5
      <4>2. f[i] = IF i = 0 THEN {n} ELSE WithChildren(h, f[i - 1])
        BY <2>4, <3>2, <3>5
      <4> HIDE DEF g
      <4> QED BY <4>1, <4>2, <3>3
    <3> QED BY <3>4, <3>5
  <2> HIDE DEF g
  <2>6. \E x : Holds(x, m)
    BY <2>5
  <2> QED BY <2>1, <2>6
<1>2. PICK f : Holds(f, Len(h))
  BY <1>1
<1> DEFINE g == [i \in 0 .. Len(h) |-> f[i]]
<1>3. AreOwned(h, n, g)
  <2>1. \A i \in 0 .. Len(h) : f[i] = IF i = 0 THEN {n} ELSE WithChildren(h, g[i - 1])
    <3> SUFFICES ASSUME NEW i \in 0 .. Len(h) PROVE f[i] = IF i = 0 THEN {n} ELSE WithChildren(h, g[i - 1])
      OBVIOUS
    <3>1. i # 0 => g[i - 1] = f[i - 1]
      OBVIOUS
    <3> HIDE DEF g
    <3> QED BY <3>1, <1>2
  <2> QED BY <2>1 DEF AreOwned
<1> HIDE DEF g
<1> QED BY <1>3

LEMMA OwnedEquation ==
  ASSUME NEW h, NEW n, Len(h) \in Nat
  PROVE  \E f : AreOwned(h, n, f) /\ Owned(h, n) = f[Len(h)]
<1> DEFINE grow == CHOOSE f : AreOwned(h, n, f)
<1>1. AreOwned(h, n, grow)
  BY OwnedExist
<1>2. Owned(h, n) = grow[Len(h)]
  BY DEF Owned, AreOwned
<1> HIDE DEF grow
<1> QED BY <1>1, <1>2

Closed(h, S) == \A m \in S : Range(h[m].children) \subseteq S

\* Owned is the least set that is closed under children.
LEMMA OwnedLeast ==
  ASSUME NEW h, NEW n, Len(h) \in Nat, NEW f, AreOwned(h, n, f),
         NEW S, n \in S, Closed(h, S)
  PROVE  \A i \in 0 .. Len(h) : f[i] \subseteq S
<1> DEFINE Bad == {i \in 0 .. Len(h) : ~(f[i] \subseteq S)}
<1> SUFFICES ASSUME Bad # {} PROVE FALSE
  OBVIOUS
<1>1. PICK i \in Bad : \A k \in Bad : i <= k
  <2>1. Bad \in SUBSET Nat
    OBVIOUS
  <2> QED BY <2>1, LeastElement
<1>2. f[i] = IF i = 0 THEN {n} ELSE WithChildren(h, f[i - 1])
  BY DEF AreOwned
<1>3. i # 0
  BY <1>1, <1>2
<1>4. i - 1 \in 0 .. Len(h) /\ i - 1 \notin Bad
  <2>1. i \in 0 .. Len(h) /\ i - 1 \in 0 .. Len(h) /\ ~(i <= i - 1)
    BY <1>3
  <2> QED BY <1>1, <2>1
<1>5. f[i - 1] \subseteq S
  BY <1>4
<1>6. f[i] \subseteq S
  BY <1>2, <1>3, <1>5 DEF WithChildren, Closed
<1> QED BY <1>1, <1>6

LEMMA OwnedIsClosed ==
  ASSUME NEW h \in Seq(Node), NEW n, NEW S \in SUBSET DOMAIN h, n \in S, Closed(h, S)
  PROVE  n \in Owned(h, n) /\ Closed(h, Owned(h, n)) /\ Owned(h, n) \subseteq S
<1>1. Len(h) \in Nat /\ DOMAIN h = 1 .. Len(h)
  OBVIOUS
<1>2. PICK f : AreOwned(h, n, f) /\ Owned(h, n) = f[Len(h)]
  BY <1>1, OwnedEquation
<1>3. \A i \in 0 .. Len(h) : f[i] \subseteq S
  BY <1>1, <1>2, OwnedLeast
<1>4. IsFiniteSet(DOMAIN h) /\ Cardinality(DOMAIN h) = Len(h)
  <2>1. 1 \in Int /\ Len(h) \in Int
    BY <1>1
  <2>2. IsFiniteSet(1 .. Len(h)) /\ Cardinality(1 .. Len(h)) = IF 1 > Len(h) THEN 0 ELSE Len(h) - 1 + 1
    BY <2>1, FS_Interval
  <2> QED BY <1>1, <2>2
<1>5. \A i \in 0 .. Len(h) : IsFiniteSet(f[i]) /\ Cardinality(f[i]) \in Nat /\ Cardinality(f[i]) <= Len(h)
  <2> TAKE i \in 0 .. Len(h)
  <2>1. f[i] \subseteq DOMAIN h
    BY <1>3
  <2> QED BY <2>1, <1>4, FS_Subset, FS_CardinalityType
<1>6. f[0] = {n} /\ \A i \in 1 .. Len(h) : f[i] = WithChildren(h, f[i - 1]) /\ f[i - 1] \subseteq f[i]
  <2>1. \A i \in 0 .. Len(h) : f[i] = IF i = 0 THEN {n} ELSE WithChildren(h, f[i - 1])
    BY <1>2 DEF AreOwned
  <2>2. f[0] = {n}
    BY <1>1, <2>1
  <2>3. \A i \in 1 .. Len(h) : f[i] = WithChildren(h, f[i - 1])
    BY <1>1, <2>1
  <2>4. \A T : T \subseteq WithChildren(h, T)
    BY DEF WithChildren
  <2> QED BY <2>2, <2>3, <2>4
<1> DEFINE Done(i) == WithChildren(h, f[i]) = f[i]
           Bad == {i \in 0 .. Len(h) : ~ Done(i) /\ ~ (Cardinality(f[i]) > i)}
<1>7. Bad = {}
  <2> SUFFICES ASSUME Bad # {} PROVE FALSE
    OBVIOUS
  <2>1. PICK i \in Bad : \A k \in Bad : i <= k
    <3>1. Bad \in SUBSET Nat
      OBVIOUS
    <3> HIDE DEF Bad
    <3> QED BY <3>1, LeastElement
  <2>2. i # 0
    <3>1. Cardinality(f[0]) = 1
      BY <1>6, FS_Singleton
    <3> QED BY <3>1, <2>1
  <2>3. i \in 1 .. Len(h) /\ i - 1 \in 0 .. Len(h) /\ ~(i <= i - 1)
    BY <2>1, <2>2
  <2>4. i - 1 \notin Bad
    BY <2>1, <2>3
  <2>5. f[i] = WithChildren(h, f[i - 1]) /\ f[i - 1] \subseteq f[i]
    BY <1>6, <2>3
  <2>6. CASE f[i] = f[i - 1]
    BY <2>1, <2>5, <2>6
  <2>7. CASE f[i] # f[i - 1]
    <3>1. Cardinality(f[i - 1]) > i - 1
      BY <2>3, <2>4, <2>5, <2>7
    <3>2. IsFiniteSet(f[i]) /\ Cardinality(f[i]) \in Nat /\ Cardinality(f[i - 1]) \in Nat
      BY <1>5, <2>3
    <3>3. Cardinality(f[i - 1]) <= Cardinality(f[i]) /\ Cardinality(f[i - 1]) # Cardinality(f[i])
      BY <2>5, <2>7, <3>2, FS_Subset
    <3>4. Cardinality(f[i]) > i
      BY <2>3, <3>1, <3>2, <3>3
    <3> QED BY <2>1, <3>4
  <2> QED BY <2>6, <2>7
<1>8. Done(Len(h))
  <2>1. Len(h) \in 0 .. Len(h) /\ Len(h) \notin Bad
    BY <1>1, <1>7
  <2>2. ~(Cardinality(f[Len(h)]) > Len(h))
    BY <1>1, <1>5
  <2> QED BY <2>1, <2>2
<1>9. n \in f[Len(h)]
  <2> DEFINE Lost == {i \in 0 .. Len(h) : n \notin f[i]}
  <2> SUFFICES ASSUME Lost # {} PROVE FALSE
    BY <1>1
  <2>1. PICK i \in Lost : \A k \in Lost : i <= k
    <3>1. Lost \in SUBSET Nat
      OBVIOUS
    <3> HIDE DEF Lost
    <3> QED BY <3>1, LeastElement
  <2>2. i \in 1 .. Len(h) /\ i - 1 \in 0 .. Len(h) /\ ~(i <= i - 1)
    BY <1>6, <2>1
  <2>3. n \in f[i - 1]
    BY <2>1, <2>2
  <2> QED BY <1>6, <2>1, <2>2, <2>3
<1>10. f[Len(h)] \subseteq S
  BY <1>1, <1>3
<1>11. Closed(h, f[Len(h)])
  BY <1>8 DEF WithChildren, Closed
<1> QED BY <1>2, <1>9, <1>10, <1>11

-----------------------------------------------------------------------------
(* Forests                                                                 *)

Upward(h, roots, S) == \A n \in S \ roots : h[n].parent \in S

\* The nodes of live are trees under roots: vectors hold live nodes that are no roots,
\* know the vector they are in and are in it once; every node but a root is in one;
\* and whoever goes up from a node comes to a root.
Forest(h, live, roots) ==
  /\ roots \subseteq live /\ live \subseteq DOMAIN h
  /\ \A n \in live : Range(h[n].children) \subseteq live \ roots
  /\ \A n \in live : \A c \in Range(h[n].children) : h[c].parent = n
  /\ \A n \in live : \A i, j \in DOMAIN h[n].children : h[n].children[i] = h[n].children[j] => i = j
  /\ \A n \in live \ roots : h[n].parent \in live /\ n \in Range(h[h[n].parent].children)
  /\ \A S \in SUBSET live : S # {} /\ Upward(h, roots, S) => S \cap roots # {}

\* Head and tail of a cell are its children, and a cell is older than the next one.
CellsOf(h, n) == IF h[n].tail = 0 THEN <<h[n].head>> ELSE <<h[n].head, h[n].tail>>
Lists(h, live) ==
  \A n \in live : h[n].kind = "list" =>
    /\ h[n].children = CellsOf(h, n)
    /\ h[n].tail # 0 => n < h[n].tail /\ h[h[n].tail].kind = "list"

LEMMA CellChildren ==
  ASSUME NEW h \in Seq(Node), NEW live, live \subseteq DOMAIN h, Lists(h, live),
         NEW n \in live, h[n].kind = "list"
  PROVE  /\ h[n].head \in Range(h[n].children)
         /\ h[n].tail # 0 => h[n].tail \in Range(h[n].children)
         /\ Range(h[n].children) \subseteq {h[n].head, h[n].tail}
         /\ h[n].tail = 0 => h[n].children = <<h[n].head>>
         /\ h[n].tail # 0 => h[n].children = <<h[n].head, h[n].tail>>
<1>1. h[n].tail = 0 => h[n].children = <<h[n].head>>
  BY DEF Lists, CellsOf
<1>2. h[n].tail # 0 => h[n].children = <<h[n].head, h[n].tail>>
  BY DEF Lists, CellsOf
<1> QED BY <1>1, <1>2 DEF Range

\* Some cells of the list at l, from the first on: each is the tail of the one before.
Chain(h, live, l, cs) ==
  /\ cs \in Seq(live) /\ Len(cs) > 0 /\ cs[1] = l
  /\ \A i \in 1 .. Len(cs) : h[cs[i]].kind = "list" /\ i <= cs[i]
  /\ \A i \in 1 .. Len(cs) - 1 : cs[i + 1] = h[cs[i]].tail
  /\ \A i, j \in 1 .. Len(cs) : i < j => cs[i] < cs[j]

LEMMA ChainGrows ==
  ASSUME NEW h \in Seq(Node), NEW live, live \subseteq DOMAIN h, Lists(h, live), Closed(h, live),
         NEW l \in live, NEW cs, Chain(h, live, l, cs)
  PROVE  /\ Chain(h, live, l, Behind(h, cs))
         /\ h[cs[Len(cs)]].tail = 0 => Behind(h, cs) = cs
         /\ h[cs[Len(cs)]].tail # 0 => Len(Behind(h, cs)) = Len(cs) + 1
<1> DEFINE c == cs[Len(cs)]
           t == h[c].tail
<1>1. Len(cs) \in Nat /\ Len(cs) \in 1 .. Len(cs) /\ c \in live /\ h[c].kind = "list" /\ Len(cs) <= c
  BY DEF Chain
<1>2. CASE t = 0
  BY <1>2 DEF Behind
<1>3. CASE t # 0
  <2> DEFINE d == Append(cs, t)
  <2>1. Behind(h, cs) = d
    BY <1>3 DEF Behind
  <2>2. t \in live /\ h[t].kind = "list" /\ c < t
    <3>1. t \in Range(h[c].children) /\ c < t /\ h[t].kind = "list"
      BY <1>1, <1>3, CellChildren DEF Lists
    <3> QED BY <3>1, <1>1 DEF Closed
  <2>3. c \in Nat /\ t \in Nat /\ \A n \in live : n \in Nat
    BY <1>1, <2>2, HeapNode
  <2>4. cs \in Seq(live) /\ d \in Seq(live) /\ Len(d) = Len(cs) + 1
        /\ d[Len(cs) + 1] = t /\ \A i \in 1 .. Len(cs) : d[i] = cs[i]
    BY <2>2 DEF Chain
  <2>5. \A i \in 1 .. Len(cs) : cs[i] <= c /\ cs[i] \in Nat
    <3> TAKE i \in 1 .. Len(cs)
    <3>1. i < Len(cs) => cs[i] < c
      BY <1>1 DEF Chain
    <3>2. cs[i] \in Nat
      BY <2>3, <2>4
    <3> QED BY <1>1, <2>3, <3>1, <3>2
  <2> HIDE DEF d, t, c
  <2>6. Len(d) > 0 /\ d[1] = l
    BY <1>1, <2>4 DEF Chain
  <2>7. \A i \in 1 .. Len(d) : h[d[i]].kind = "list" /\ i <= d[i]
    <3> TAKE i \in 1 .. Len(d)
    <3>1. CASE i = Len(cs) + 1
      BY <1>1, <2>2, <2>3, <2>4, <3>1
    <3>2. CASE i \in 1 .. Len(cs)
      BY <2>4, <3>2 DEF Chain
    <3> QED BY <1>1, <2>4, <3>1, <3>2
  <2>8. \A i \in 1 .. Len(d) - 1 : d[i + 1] = h[d[i]].tail
    <3> TAKE i \in 1 .. Len(d) - 1
    <3>1. CASE i = Len(cs)
      BY <1>1, <2>4, <3>1 DEF t, c
    <3>2. CASE i \in 1 .. Len(cs) - 1
      <4>1. i \in 1 .. Len(cs) /\ i + 1 \in 1 .. Len(cs)
        BY <1>1, <3>2
      <4>2. cs[i + 1] = h[cs[i]].tail
        BY <3>2 DEF Chain
      <4> QED BY <2>4, <4>1, <4>2
    <3> QED BY <1>1, <2>4, <3>1, <3>2
  <2>9. \A i, j \in 1 .. Len(d) : i < j => d[i] < d[j]
    <3> SUFFICES ASSUME NEW i \in 1 .. Len(d), NEW j \in 1 .. Len(d), i < j PROVE d[i] < d[j]
      OBVIOUS
    <3>1. i \in 1 .. Len(cs)
      BY <1>1, <2>4
    <3>2. CASE j = Len(cs) + 1
      <4>1. cs[i] <= c /\ cs[i] \in Nat /\ c \in Nat /\ t \in Nat /\ c < t
        BY <2>2, <2>3, <2>5, <3>1
      <4>2. d[i] = cs[i] /\ d[j] = t
        BY <2>4, <3>1, <3>2
      <4> QED BY <4>1, <4>2
    <3>3. CASE j \in 1 .. Len(cs)
      BY <2>4, <3>1, <3>3 DEF Chain
    <3> QED BY <1>1, <2>4, <3>2, <3>3
  <2>10. Chain(h, live, l, d)
    BY <2>4, <2>6, <2>7, <2>8, <2>9 DEF Chain
  <2> QED BY <1>3, <2>1, <2>4, <2>10 DEF t, c
<1> QED BY <1>2, <1>3

LEMMA CellsOfList ==
  ASSUME NEW h \in Seq(Node), NEW live, live \subseteq DOMAIN h, Lists(h, live), Closed(h, live),
         \A n \in live : h[n].tail \in 0 .. Len(h),
         NEW l \in live, h[l].kind = "list"
  PROVE  /\ Chain(h, live, l, Cells(h, l))
         /\ h[Cells(h, l)[Len(Cells(h, l))]].tail = 0
<1>1. Len(h) \in Nat /\ l \in 1 .. Len(h)
  BY HeapNode
<1>2. PICK f : AreCells(h, l, f) /\ Cells(h, l) = f[Len(h)]
  BY <1>1, CellsEquation
<1>3. \A i \in 1 .. Len(h) : f[i] = IF i = 1 THEN <<l>> ELSE Behind(h, f[i - 1])
  BY <1>2 DEF AreCells
<1> DEFINE Holds(i) == /\ Chain(h, live, l, f[i])
                       /\ h[f[i][Len(f[i])]].tail = 0 \/ Len(f[i]) = i
           Bad == {i \in 1 .. Len(h) : ~ Holds(i)}
<1>4. Holds(1)
  <2>1. f[1] = <<l>>
    BY <1>1, <1>3
  <2>2. <<l>> \in Seq(live) /\ Len(<<l>>) = 1 /\ <<l>>[1] = l
    OBVIOUS
  <2> QED BY <1>1, <2>1, <2>2 DEF Chain
<1>5. ASSUME NEW i \in 2 .. Len(h), Holds(i - 1)
      PROVE  Holds(i)
  <2>1. PICK cs : cs = f[i - 1]
    OBVIOUS
  <2>2. f[i] = Behind(h, cs)
    BY <1>1, <1>3, <2>1
  <2>3. Chain(h, live, l, cs) /\ (h[cs[Len(cs)]].tail = 0 \/ Len(cs) = i - 1)
    BY <1>5, <2>1
  <2>4. /\ Chain(h, live, l, Behind(h, cs))
        /\ h[cs[Len(cs)]].tail = 0 => Behind(h, cs) = cs
        /\ h[cs[Len(cs)]].tail # 0 => Len(Behind(h, cs)) = Len(cs) + 1
    BY <2>3, ChainGrows
  <2> QED BY <2>2, <2>3, <2>4
<1> HIDE DEF Holds
<1>6. Bad = {}
  <2> SUFFICES ASSUME Bad # {} PROVE FALSE
    OBVIOUS
  <2>1. PICK i \in Bad : \A k \in Bad : i <= k
    <3>1. Bad \in SUBSET Nat
      OBVIOUS
    <3> HIDE DEF Bad
    <3> QED BY <3>1, LeastElement
  <2>2. i \in 2 .. Len(h) /\ i - 1 \in 1 .. Len(h) /\ ~(i <= i - 1)
    BY <1>1, <1>4, <2>1
  <2>3. Holds(i - 1)
    BY <2>1, <2>2
  <2> QED BY <1>5, <2>1, <2>2, <2>3
<1>7. Holds(Len(h))
  BY <1>1, <1>6
<1>8. PICK cs : cs = Cells(h, l)
  OBVIOUS
<1>9. Chain(h, live, l, cs) /\ (h[cs[Len(cs)]].tail = 0 \/ Len(cs) = Len(h))
  BY <1>2, <1>7, <1>8 DEF Holds
<1>10. h[cs[Len(cs)]].tail = 0
  <2> SUFFICES ASSUME h[cs[Len(cs)]].tail # 0, Len(cs) = Len(h) PROVE FALSE
    BY <1>9
  <2>1. PICK c \in live : c = cs[Len(cs)] /\ h[c].kind = "list" /\ Len(h) <= c
    BY <1>9 DEF Chain
  <2>2. c < h[c].tail /\ h[c].tail \in 0 .. Len(h)
    BY <2>1 DEF Lists
  <2>3. c \in Nat
    BY HeapNode
  <2> QED BY <1>1, <2>1, <2>2, <2>3
<1> QED BY <1>8, <1>9, <1>10

-----------------------------------------------------------------------------
(* What happens to forests                                                 *)

\* Every way up from p comes to one of the roots that are kept.
Above(h, live, roots, p, kept) ==
  \A S \in SUBSET live : p \in S /\ Upward(h, roots, S) => S \cap kept # {}

LEMMA RootIsAbove ==
  ASSUME NEW h, NEW live, NEW roots, NEW p, NEW kept, p \in kept
  PROVE  Above(h, live, roots, p, kept)
BY DEF Above

\* The nodes of cs become children of p.
Linked(h, live, p, cs, g) ==
  /\ DOMAIN g = DOMAIN h
  /\ \A n \in live : g[n].parent = IF n \in cs THEN p ELSE h[n].parent
  /\ \A n \in live : n # p => g[n].children = h[n].children
  /\ Range(g[p].children) = Range(h[p].children) \cup cs
  /\ \A i, j \in DOMAIN g[p].children : g[p].children[i] = g[p].children[j] => i = j

LEMMA Linking ==
  ASSUME NEW h, NEW live, NEW roots, Forest(h, live, roots), NEW p \in live,
         NEW cs, cs \subseteq roots, Above(h, live, roots, p, roots \ cs),
         NEW g, Linked(h, live, p, cs, g)
  PROVE  Forest(g, live, roots \ cs)
<1>0. /\ DOMAIN g = DOMAIN h
      /\ \A n \in live : g[n].parent = IF n \in cs THEN p ELSE h[n].parent
      /\ \A n \in live : n # p => g[n].children = h[n].children
      /\ Range(g[p].children) = Range(h[p].children) \cup cs
      /\ \A i, j \in DOMAIN g[p].children : g[p].children[i] = g[p].children[j] => i = j
  BY DEF Linked
<1>1. roots \ cs \subseteq live /\ live \subseteq DOMAIN g /\ cs \subseteq live
  BY <1>0 DEF Forest
<1>2. \A n \in live : Range(g[n].children) = Range(h[n].children) \cup IF n = p THEN cs ELSE {}
  BY <1>0
<1>3. \A n \in live : Range(h[n].children) \subseteq live \ roots
  BY DEF Forest
<1>4. \A n \in live : Range(g[n].children) \subseteq live \ (roots \ cs)
  BY <1>1, <1>2, <1>3
<1>5. \A n \in live : \A c \in Range(g[n].children) : g[c].parent = n
  <2> SUFFICES ASSUME NEW n \in live, NEW c \in Range(g[n].children) PROVE g[c].parent = n
    OBVIOUS
  <2>1. CASE c \in Range(h[n].children)
    <3>1. c \in live /\ c \notin cs /\ h[c].parent = n
      BY <2>1, <1>3 DEF Forest
    <3> QED BY <1>0, <3>1
  <2>2. CASE c \notin Range(h[n].children)
    <3>1. n = p /\ c \in cs
      BY <1>2, <2>2
    <3> QED BY <1>0, <1>1, <3>1
  <2> QED BY <2>1, <2>2
<1>6. \A n \in live : \A i, j \in DOMAIN g[n].children : g[n].children[i] = g[n].children[j] => i = j
  BY <1>0 DEF Forest
<1>7. \A n \in live \ (roots \ cs) : g[n].parent \in live /\ n \in Range(g[g[n].parent].children)
  <2> TAKE n \in live \ (roots \ cs)
  <2>1. CASE n \in cs
    BY <1>0, <1>1, <1>2, <2>1
  <2>2. CASE n \notin cs
    <3>1. h[n].parent \in live /\ n \in Range(h[h[n].parent].children)
      BY <2>2 DEF Forest
    <3>2. g[n].parent = h[n].parent
      BY <1>0, <2>2
    <3> QED BY <1>2, <3>1, <3>2
  <2> QED BY <2>1, <2>2
<1>8. ASSUME NEW S \in SUBSET live, S # {}, Upward(g, roots \ cs, S)
      PROVE  S \cap (roots \ cs) # {}
  <2>1. Upward(h, roots, S)
    BY <1>0, <1>8 DEF Upward
  <2>2. S \cap roots # {}
    BY <1>8, <2>1 DEF Forest
  <2>3. CASE S \cap cs # {}
    <3>1. p \in S
      BY <1>0, <1>8, <2>3 DEF Upward
    <3> QED BY <2>1, <3>1 DEF Above
  <2>4. CASE S \cap cs = {}
    BY <2>2, <2>4
  <2> QED BY <2>3, <2>4
<1> QED BY <1>1, <1>4, <1>5, <1>6, <1>7, <1>8 DEF Forest

\* Nodes without children come along as roots.
LEMMA Planting ==
  ASSUME NEW h, NEW live, NEW roots, Forest(h, live, roots),
         NEW new, new \cap live = {},
         NEW g, DOMAIN h \subseteq DOMAIN g, new \subseteq DOMAIN g,
         \A n \in live : g[n] = h[n],
         \A n \in new : g[n].children = <<>>
  PROVE  Forest(g, live \cup new, roots \cup new)
<1>1. roots \subseteq live /\ live \subseteq DOMAIN h
  BY DEF Forest
<1>2. \A n \in live : Range(g[n].children) \subseteq live \ roots
  BY DEF Forest
<1>3. \A n \in new : Range(g[n].children) = {} /\ DOMAIN g[n].children = {}
  BY DEF Range
<1>4. \A n \in live \cup new : Range(g[n].children) \subseteq (live \cup new) \ (roots \cup new)
  BY <1>2, <1>3
<1>5. \A n \in live \cup new : \A c \in Range(g[n].children) : g[c].parent = n
  <2> SUFFICES ASSUME NEW n \in live \cup new, NEW c \in Range(g[n].children) PROVE g[c].parent = n
    OBVIOUS
  <2>1. n \in live /\ c \in live
    BY <1>2, <1>3
  <2> QED BY <2>1 DEF Forest
<1>6. \A n \in live \cup new : \A i, j \in DOMAIN g[n].children : g[n].children[i] = g[n].children[j] => i = j
  BY <1>3 DEF Forest
<1>7. \A n \in (live \cup new) \ (roots \cup new) :
        g[n].parent \in live \cup new /\ n \in Range(g[g[n].parent].children)
  BY DEF Forest
<1>8. ASSUME NEW S \in SUBSET (live \cup new), S # {}, Upward(g, roots \cup new, S)
      PROVE  S \cap (roots \cup new) # {}
  <2> SUFFICES ASSUME S \cap new = {} PROVE S \cap roots # {}
    OBVIOUS
  <2>1. S \in SUBSET live
    OBVIOUS
  <2>2. Upward(h, roots, S)
    BY <1>8, <2>1 DEF Upward
  <2> QED BY <1>8, <2>1, <2>2 DEF Forest
<1>9. roots \cup new \subseteq live \cup new /\ live \cup new \subseteq DOMAIN g
  BY <1>1
<1> QED BY <1>4, <1>5, <1>6, <1>7, <1>8, <1>9 DEF Forest

\* The nodes of gone, with l and the children of theirs that are no heads, are deleted
\* after their heads became roots.
LEMMA Felling ==
  ASSUME NEW h, NEW live, NEW roots, Forest(h, live, roots),
         NEW gone, gone \subseteq live, NEW l, gone \cap roots = {l},
         \A n \in gone : n # l => h[n].parent \in gone,
         NEW heads, heads = (UNION {Range(h[n].children) : n \in gone}) \ gone,
         NEW g, DOMAIN g = DOMAIN h, \A n \in live \ gone : g[n] = h[n]
  PROVE  Forest(g, live \ gone, (roots \ {l}) \cup heads)
<1> DEFINE left == live \ gone
           base == (roots \ {l}) \cup heads
<1>1. roots \subseteq live /\ live \subseteq DOMAIN h
  BY DEF Forest
<1>2. \A n \in live : Range(h[n].children) \subseteq live \ roots
  BY DEF Forest
<1>3. \A n \in live : \A c \in Range(h[n].children) : h[c].parent = n
  BY DEF Forest
<1>4. heads \subseteq live
  BY <1>2
<1>5. base \subseteq left /\ left \subseteq DOMAIN g
  <2>1. heads \cap gone = {} /\ (roots \ {l}) \cap gone = {}
    OBVIOUS
  <2> QED BY <1>1, <1>4, <2>1
<1>6. \A n \in left : Range(g[n].children) \subseteq left \ base
  <2> SUFFICES ASSUME NEW n \in left, NEW c \in Range(h[n].children) PROVE c \in left \ base
    OBVIOUS
  <2>1. c \in live \ roots /\ h[c].parent = n
    BY <1>2, <1>3
  <2>2. c \notin gone
    BY <2>1, <1>1
  <2>3. c \notin heads
    BY <2>1, <1>3
  <2> QED BY <2>1, <2>2, <2>3
<1>7. \A n \in left : \A c \in Range(g[n].children) : g[c].parent = n
  <2> SUFFICES ASSUME NEW n \in left, NEW c \in Range(g[n].children) PROVE g[c].parent = n
    OBVIOUS
  <2>1. c \in left /\ c \in Range(h[n].children)
    BY <1>6
  <2> QED BY <2>1, <1>3
<1>8. \A n \in left : \A i, j \in DOMAIN g[n].children : g[n].children[i] = g[n].children[j] => i = j
  BY DEF Forest
<1>9. \A n \in left \ base : g[n].parent \in left /\ n \in Range(g[g[n].parent].children)
  <2> TAKE n \in left \ base
  <2>1. h[n].parent \in live /\ n \in Range(h[h[n].parent].children)
    BY DEF Forest
  <2>2. ASSUME h[n].parent \in gone
        PROVE  FALSE
    <3>1. PICK q \in gone : q = h[n].parent /\ n \in Range(h[q].children)
      BY <2>1, <2>2
    <3>2. n \in UNION {Range(h[m].children) : m \in gone}
      BY <3>1
    <3>3. n \in heads
      BY <3>2
    <3> QED BY <3>3
  <2>3. g[h[n].parent] = h[h[n].parent] /\ g[n] = h[n]
    BY <2>1, <2>2
  <2> QED BY <2>1, <2>2, <2>3
<1>10. ASSUME NEW S \in SUBSET left, S # {}, Upward(g, base, S)
       PROVE  S \cap base # {}
  <2> SUFFICES ASSUME S \cap base = {} PROVE FALSE
    OBVIOUS
  <2>1. Upward(h, roots, S)
    BY <1>10 DEF Upward
  <2>2. S \cap roots # {}
    BY <1>10, <2>1 DEF Forest
  <2> QED BY <2>2
<1> HIDE DEF left, base
<1>11. Forest(g, left, base)
  BY <1>5, <1>6, <1>7, <1>8, <1>9, <1>10 DEF Forest
<1> QED BY <1>11 DEF left, base

LEMMA ListsStay ==
  ASSUME NEW h \in Seq(Node), NEW live, live \subseteq DOMAIN h, Closed(h, live), Lists(h, live),
         NEW left, left \subseteq live, NEW g,
         \A n \in live : g[n].kind = h[n].kind /\ g[n].head = h[n].head /\ g[n].tail = h[n].tail,
         \A n \in left : h[n].kind = "list" => g[n].children = h[n].children
  PROVE  Lists(g, left)
<1> SUFFICES ASSUME NEW n \in left, g[n].kind = "list"
             PROVE  /\ g[n].children = CellsOf(g, n)
                    /\ g[n].tail # 0 => n < g[n].tail /\ g[g[n].tail].kind = "list"
  BY DEF Lists
<1>1. n \in live /\ h[n].kind = "list" /\ g[n].head = h[n].head /\ g[n].tail = h[n].tail
      /\ g[n].children = h[n].children
  OBVIOUS
<1>2. g[n].children = CellsOf(g, n)
  BY <1>1 DEF Lists, CellsOf
<1>3. ASSUME g[n].tail # 0
      PROVE  n < g[n].tail /\ g[g[n].tail].kind = "list"
  <2>1. h[n].tail \in live
    BY <1>1, <1>3, CellChildren DEF Closed
  <2> QED BY <1>1, <1>3, <2>1 DEF Lists
<1> QED BY <1>2, <1>3

\* The way up from a cell comes to the first one.
LEMMA CellsAbove ==
  ASSUME NEW h \in Seq(Node), NEW live, NEW roots, Forest(h, live, roots), Lists(h, live),
         NEW l, NEW cs, Chain(h, live, l, cs), NEW c \in Range(cs)
  PROVE  Above(h, live, roots, c, {l})
<1> SUFFICES ASSUME NEW S \in SUBSET live, c \in S, Upward(h, roots, S) PROVE l \in S
  BY DEF Above
<1> DEFINE T == {i \in 1 .. Len(cs) : cs[i] \in S}
<1>1. Len(cs) \in Nat /\ cs \in Seq(live) /\ cs[1] = l /\ DOMAIN cs = 1 .. Len(cs)
  BY DEF Chain
<1>2. T # {}
  <2>1. PICK i \in DOMAIN cs : cs[i] = c
    BY DEF Range
  <2> QED BY <1>1, <2>1
<1>3. PICK i \in T : \A k \in T : i <= k
  <2>1. T \in SUBSET Nat
    OBVIOUS
  <2> HIDE DEF T
  <2> QED BY <1>2, <2>1, LeastElement
<1>4. CASE i = 1
  BY <1>1, <1>3, <1>4
<1>5. CASE i # 1
  <2>1. i - 1 \in 1 .. Len(cs) - 1 /\ i - 1 \in 1 .. Len(cs) /\ (i - 1) + 1 = i /\ ~(i <= i - 1)
    BY <1>1, <1>3, <1>5
  <2>2. PICK b \in live : b = cs[i - 1] /\ h[b].kind = "list"
    BY <1>1, <2>1 DEF Chain
  <2>3. cs[i] = h[b].tail /\ cs[i] \in live
    BY <1>1, <1>3, <2>1, <2>2 DEF Chain
  <2>4. h[b].tail # 0
    <3>1. h[b].tail \in 1 .. Len(h)
      BY <2>3, HeapNode DEF Forest
    <3> QED BY <3>1
  <2>5. h[b].tail \in Range(h[b].children)
    BY <2>2, <2>4, CellChildren DEF Forest
  <2>6. h[b].tail \notin roots /\ h[h[b].tail].parent = b
    BY <2>5 DEF Forest
  <2>7. b \in S
    BY <1>3, <2>3, <2>6 DEF Upward
  <2>8. i - 1 \in T
    BY <2>1, <2>2, <2>7
  <2> QED BY <1>3, <2>1, <2>8
<1> QED BY <1>4, <1>5

LEMMA WithoutFirst ==
  ASSUME NEW a \in Nat, NEW b \in Nat, a # b
  PROVE  Without(<<a>>, a) = <<>> /\ Without(<<a, b>>, a) = <<b>>
<1>1. ASSUME NEW s \in Seq(Nat), Len(s) > 0, s[1] = a, \A i \in DOMAIN s : s[i] = a => i = 1
      PROVE  Without(s, a) = SubSeq(s, 1, 0) \o SubSeq(s, 2, Len(s))
  <2> DEFINE First(i) == i \in DOMAIN s /\ s[i] = a /\ \A j \in 1 .. i - 1 : s[j] # a
             k == CHOOSE i \in DOMAIN s : s[i] = a /\ \A j \in 1 .. i - 1 : s[j] # a
  <2>1. First(1)
    BY <1>1
  <2>2. k \in DOMAIN s /\ s[k] = a
    BY <2>1
  <2>3. k = 1
    BY <1>1, <2>2
  <2>4. a \in Range(s)
    BY <2>2 DEF Range
  <2>5. Without(s, a) = SubSeq(s, 1, k - 1) \o SubSeq(s, k + 1, Len(s))
    BY <2>4 DEF Without
  <2> HIDE DEF k
  <2> QED BY <2>3, <2>5
<1>2. Without(<<a>>, a) = <<>>
  <2>1. PICK s : s = <<a>>
    OBVIOUS
  <2>2. s \in Seq(Nat) /\ Len(s) = 1 /\ s[1] = a /\ DOMAIN s = 1 .. 1
    BY <2>1
  <2>3. \A i \in DOMAIN s : s[i] = a => i = 1
    BY <2>2
  <2>4. Without(s, a) = SubSeq(s, 1, 0) \o SubSeq(s, 2, Len(s))
    BY <1>1, <2>2, <2>3
  <2>5. SubSeq(s, 1, 0) = <<>> /\ SubSeq(s, 2, Len(s)) = <<>>
    BY <2>2
  <2>6. Without(s, a) = <<>>
    BY <2>4, <2>5
  <2> QED BY <2>1, <2>6
<1>3. Without(<<a, b>>, a) = <<b>>
  <2>1. PICK s : s = <<a, b>>
    OBVIOUS
  <2>2. s \in Seq(Nat) /\ Len(s) = 2 /\ s[1] = a /\ s[2] = b /\ DOMAIN s = 1 .. 2
    BY <2>1
  <2>3. \A i \in DOMAIN s : s[i] = a => i = 1
    BY <2>2
  <2>4. Without(s, a) = SubSeq(s, 1, 0) \o SubSeq(s, 2, Len(s))
    <3>1. Len(s) > 0
      BY <2>2
    <3> QED BY <1>1, <2>2, <2>3, <3>1
  <2>5. SubSeq(s, 1, 0) = <<>>
    BY <2>2, SubSeqEmpty
  <2>6. PICK e : e = SubSeq(s, 2, 2)
    OBVIOUS
  <2>7. e \in Seq(Nat) /\ Len(e) = 1 /\ e[1] = b
    <3>1. 2 \in Int /\ \A i \in 2 .. 2 : s[i] \in Nat
      BY <2>2
    <3>2. SubSeq(s, 2, 2) \in Seq(Nat) /\ Len(SubSeq(s, 2, 2)) = (IF 2 <= 2 THEN 2 - 2 + 1 ELSE 0)
          /\ \A i \in 1 .. 2 - 2 + 1 : SubSeq(s, 2, 2)[i] = s[2 + i - 1]
      BY <3>1, SubSeqProperties
    <3> QED BY <2>2, <2>6, <3>2
  <2>8. e = <<b>>
    BY <2>7
  <2>9. <<>> \o e = e
    BY <2>7, ConcatEmptySeq
  <2> QED BY <2>1, <2>2, <2>4, <2>5, <2>6, <2>8, <2>9
<1> QED BY <1>2, <1>3

-----------------------------------------------------------------------------
(* The handing over of a list                                              *)

\* What the cells are, to the nodes that are in use.
LEMMA CellSet ==
  ASSUME NEW h, Pointers(h), NEW live, NEW roots, Forest(h, live, roots), Lists(h, live),
         NEW l \in roots, h[l].kind = "list",
         NEW cells, cells = Range(Cells(h, l))
  PROVE  /\ Chain(h, live, l, Cells(h, l)) /\ h[LastCell(h, l)].tail = 0 /\ LastCell(h, l) \in cells
         /\ l \in cells /\ cells \subseteq live /\ cells \cap roots = {l}
         /\ \A c \in cells :
              /\ h[c].kind = "list"
              /\ c # l => h[c].parent \in cells
              /\ h[c].tail # 0 => h[c].tail \in cells
              /\ h[c].head \notin cells
<1>1. h \in Seq(Node) /\ live \subseteq DOMAIN h /\ Closed(h, live) /\ roots \subseteq live
  BY DEF Pointers, Forest, Closed
<1>2. \A n \in live : h[n].tail \in 0 .. Len(h)
  BY <1>1 DEF Pointers
<1>3. PICK cs : cs = Cells(h, l)
  OBVIOUS
<1>4. Chain(h, live, l, cs) /\ h[cs[Len(cs)]].tail = 0
  BY <1>1, <1>2, <1>3, CellsOfList
<1>5. cs \in Seq(live) /\ Len(cs) \in Nat /\ Len(cs) > 0 /\ DOMAIN cs = 1 .. Len(cs) /\ cs[1] = l
  BY <1>4 DEF Chain
<1>6. cells = {cs[i] : i \in 1 .. Len(cs)}
  BY <1>3, <1>5 DEF Range
<1>7. LastCell(h, l) = cs[Len(cs)] /\ LastCell(h, l) \in cells /\ l \in cells /\ cells \subseteq live
  <2>1. LastCell(h, l) = cs[Len(cs)]
    BY <1>3 DEF LastCell
  <2> QED BY <2>1, <1>5, <1>6
<1>8. ASSUME NEW i \in 1 .. Len(cs), h[cs[i]].tail # 0
      PROVE  i + 1 \in 1 .. Len(cs) /\ cs[i + 1] = h[cs[i]].tail
  <2>1. i # Len(cs)
    BY <1>4, <1>8
  <2>2. i \in 1 .. Len(cs) - 1
    <3>1. Len(cs) \in Nat
      BY <1>5
    <3> QED BY <2>1, <3>1
  <2> QED BY <1>4, <1>5, <2>2 DEF Chain
<1>9. ASSUME NEW i \in 2 .. Len(cs)
      PROVE  /\ h[cs[i]].parent = cs[i - 1] /\ cs[i] \notin roots
             /\ cs[i] = h[cs[i - 1]].tail /\ cs[i] # 0
  <2>1. i - 1 \in 1 .. Len(cs) - 1 /\ i - 1 \in 1 .. Len(cs) /\ (i - 1) + 1 = i /\ i \in 1 .. Len(cs)
    BY <1>5
  <2>2. cs[i] = h[cs[i - 1]].tail
    BY <1>4, <2>1 DEF Chain
  <2>3. cs[i] # 0
    <3>1. cs[i] \in live
      BY <1>5, <2>1
    <3> QED BY <1>1, <3>1, HeapNode
  <2>4. PICK b \in live : b = cs[i - 1] /\ h[b].kind = "list"
    BY <1>4, <1>5, <2>1 DEF Chain
  <2>5. h[b].tail \in Range(h[b].children)
    BY <1>1, <2>2, <2>3, <2>4, CellChildren
  <2> QED BY <2>2, <2>3, <2>4, <2>5 DEF Forest
<1>10. ASSUME NEW c \in cells
       PROVE  /\ h[c].kind = "list"
              /\ c # l => h[c].parent \in cells /\ c \notin roots
              /\ h[c].tail # 0 => h[c].tail \in cells
              /\ h[c].head \notin cells
  <2>1. PICK i \in 1 .. Len(cs) : c = cs[i]
    BY <1>6
  <2>2. h[c].kind = "list" /\ c \in live
    BY <1>4, <1>5, <2>1 DEF Chain
  <2>3. h[c].tail # 0 => h[c].tail \in cells
    BY <1>6, <1>8, <2>1
  <2>4. c # l => h[c].parent \in cells /\ c \notin roots
    <3> SUFFICES ASSUME c # l PROVE h[c].parent \in cells /\ c \notin roots
      OBVIOUS
    <3>1. i \in 2 .. Len(cs) /\ i - 1 \in 1 .. Len(cs)
      BY <1>5, <2>1
    <3>2. h[c].parent = cs[i - 1] /\ c \notin roots
      BY <1>9, <2>1, <3>1
    <3> QED BY <1>6, <3>1, <3>2
  <2>5. h[c].head \notin cells
    <3> SUFFICES ASSUME h[c].head \in cells PROVE FALSE
      OBVIOUS
    <3>1. h[c].head \in Range(h[c].children) /\ (h[c].tail # 0 => h[c].children = <<h[c].head, h[c].tail>>)
      BY <1>1, <2>2, CellChildren
    <3>2. h[c].head \notin roots /\ h[h[c].head].parent = c
      BY <2>2, <3>1 DEF Forest
    <3>3. PICK j \in 1 .. Len(cs) : h[c].head = cs[j]
      BY <1>6
    <3>4. j \in 2 .. Len(cs) /\ j - 1 \in 1 .. Len(cs)
      <4>1. j # 1
        BY <1>5, <3>2, <3>3
      <4> QED BY <1>5, <4>1
    <3>5. c = cs[j - 1] /\ h[c].head = h[c].tail /\ h[c].tail # 0
      BY <1>9, <3>2, <3>3, <3>4
    <3>6. PICK s : s = h[c].children
      OBVIOUS
    <3>7. s = <<h[c].head, h[c].head>>
      BY <3>1, <3>5, <3>6
    <3>8. 1 \in DOMAIN s /\ 2 \in DOMAIN s /\ s[1] = s[2]
      BY <3>7
    <3> QED BY <2>2, <3>6, <3>8 DEF Forest
  <2> QED BY <2>2, <2>3, <2>4, <2>5
<1> QED BY <1>3, <1>4, <1>7, <1>10

TailOnly(h, n) == IF h[n].tail = 0 THEN <<>> ELSE <<h[n].tail>>

LEMMA SmallRanges == Range(<<>>) = {} /\ \A x : Range(<<x>>) = {x}
BY DEF Range

LEMMA TailRange ==
  ASSUME NEW h, NEW n
  PROVE  Range(TailOnly(h, n)) = IF h[n].tail = 0 THEN {} ELSE {h[n].tail}
BY SmallRanges DEF TailOnly

\* What RemoveHeads leaves of each node.
LEMMA Removing ==
  ASSUME NEW h \in Seq(Node), NEW live, live \subseteq DOMAIN h, Lists(h, live),
         \A n \in live : \A i, j \in DOMAIN h[n].children : h[n].children[i] = h[n].children[j] => i = j,
         NEW cells, cells \subseteq live, \A c \in cells : h[c].kind = "list",
         NEW g, g = RemoveHeads(h, cells)
  PROVE  /\ g \in Seq(Node) /\ Len(g) = Len(h) /\ DOMAIN g = DOMAIN h
         /\ \A n \in DOMAIN h :
              /\ g[n].kind = h[n].kind /\ g[n].head = h[n].head
              /\ g[n].tail = h[n].tail /\ g[n].parent = h[n].parent
              /\ n \notin cells => g[n] = h[n]
         /\ \A c \in cells : g[c].children = TailOnly(h, c)
<1> DEFINE node(n) == IF n \in cells THEN [h[n] EXCEPT !.children = Without(h[n].children, h[n].head)] ELSE h[n]
<1>1. g = [n \in DOMAIN h |-> node(n)]
  BY DEF RemoveHeads
<1>2. ASSUME NEW c \in cells
      PROVE  Without(h[c].children, h[c].head) = TailOnly(h, c)
  <2>1. c \in live /\ h[c].head \in Nat /\ h[c].tail \in Nat
    BY HeapNode
  <2>2. CASE h[c].tail = 0
    <3>1. h[c].children = <<h[c].head>>
      BY <2>1, <2>2, CellChildren
    <3>2. Without(<<h[c].head>>, h[c].head) = <<>>
      <4>1. h[c].head + 1 \in Nat /\ h[c].head # h[c].head + 1
        BY <2>1
      <4> QED BY <2>1, <4>1, WithoutFirst
    <3> QED BY <2>2, <3>1, <3>2 DEF TailOnly
  <2>3. CASE h[c].tail # 0
    <3>1. h[c].children = <<h[c].head, h[c].tail>>
      BY <2>1, <2>3, CellChildren
    <3>2. h[c].head # h[c].tail
      <4>1. PICK s : s = h[c].children
        OBVIOUS
      <4>2. s[1] = h[c].head /\ s[2] = h[c].tail /\ 1 \in DOMAIN s /\ 2 \in DOMAIN s
        BY <3>1, <4>1
      <4> QED BY <2>1, <4>1, <4>2
    <3>3. Without(<<h[c].head, h[c].tail>>, h[c].head) = <<h[c].tail>>
      BY <2>1, <3>2, WithoutFirst
    <3> QED BY <2>3, <3>1, <3>3 DEF TailOnly
  <2> QED BY <2>2, <2>3
<1>3. ASSUME NEW n \in DOMAIN h
      PROVE  /\ node(n) \in Node
             /\ node(n).kind = h[n].kind /\ node(n).head = h[n].head
             /\ node(n).tail = h[n].tail /\ node(n).parent = h[n].parent
             /\ n \notin cells => node(n) = h[n]
             /\ n \in cells => node(n).children = TailOnly(h, n)
  <2>1. h[n] \in Node /\ h[n].tail \in Nat
    BY HeapNode
  <2>2. CASE n \in cells
    <3>1. PICK s : s = Without(h[n].children, h[n].head)
      OBVIOUS
    <3>2. s = (TailOnly(h, n)) /\ s \in Seq(Nat)
      <4>1. s = TailOnly(h, n)
        BY <1>2, <2>2, <3>1
      <4>2. <<>> \in Seq(Nat) /\ <<h[n].tail>> \in Seq(Nat)
        BY <2>1
      <4> QED BY <4>1, <4>2 DEF TailOnly
    <3>3. node(n) = [h[n] EXCEPT !.children = s]
      BY <2>2, <3>1
    <3>4. [h[n] EXCEPT !.children = s] \in Node
      BY <2>1, <3>2 DEF Node
    <3>5. /\ [h[n] EXCEPT !.children = s].kind = h[n].kind /\ [h[n] EXCEPT !.children = s].head = h[n].head
          /\ [h[n] EXCEPT !.children = s].tail = h[n].tail /\ [h[n] EXCEPT !.children = s].parent = h[n].parent
          /\ [h[n] EXCEPT !.children = s].children = s
      BY <2>1 DEF Node
    <3> HIDE DEF node
    <3> QED BY <2>2, <3>2, <3>3, <3>4, <3>5
  <2>3. CASE n \notin cells
    BY <2>1, <2>3
  <2> QED BY <2>2, <2>3
<1> HIDE DEF node
<1>4. DOMAIN g = DOMAIN h /\ DOMAIN h = 1 .. Len(h) /\ Len(h) \in Nat
  BY <1>1
<1>5. g \in Seq(Node) /\ Len(g) = Len(h)
  <2>1. \A n \in DOMAIN h : node(n) \in Node
    BY <1>3
  <2> QED BY <1>1, <1>4, <2>1
<1>6. \A n \in DOMAIN h : g[n] = node(n)
  BY <1>1
<1>7. \A n \in DOMAIN h :
        /\ g[n].kind = h[n].kind /\ g[n].head = h[n].head
        /\ g[n].tail = h[n].tail /\ g[n].parent = h[n].parent
        /\ n \notin cells => g[n] = h[n]
  BY <1>3, <1>6
<1>8. \A c \in cells : g[c].children = TailOnly(h, c)
  BY <1>3, <1>6
<1>9. g \in Seq(Node) /\ Len(g) = Len(h) /\ DOMAIN g = DOMAIN h
  BY <1>4, <1>5
<1> QED BY <1>7, <1>8, <1>9

\* The list at l was handed over to p, and gone is what is left of it.
Transferred(h, live, roots, l, p, g, gone) ==
  /\ g \in Seq(Node) /\ Len(g) = Len(h) /\ DOMAIN g = DOMAIN h /\ Pointers(g)
  /\ \A n \in DOMAIN h : g[n].kind = h[n].kind /\ (n \notin live => g[n] = h[n])
  /\ \A n \in roots : g[n].parent = h[n].parent
  /\ \A n \in roots \ {l, p} : g[n].children = h[n].children
  /\ gone \subseteq live /\ gone \cap roots = {l}
  /\ Forest(g, live \ gone, roots \ {l}) /\ Lists(g, live \ gone)

LEMMA Transferring ==
  ASSUME NEW h, Pointers(h), NEW live, NEW roots, Forest(h, live, roots), Lists(h, live),
         NEW l \in roots, h[l].kind = "list",
         NEW p \in roots, p # l, h[p].kind # "list", h[p].children = <<>>,
         NEW g, g = Transfer(h, p, l), NEW gone, gone = Owned(g, l)
  PROVE  Transferred(h, live, roots, l, p, g, gone)
<1> DEFINE cells == Range(Cells(h, l))
           left == live \ cells
<1>1. h \in Seq(Node) /\ live \subseteq DOMAIN h /\ Closed(h, live) /\ roots \subseteq live
  BY DEF Pointers, Forest, Closed
<1>2. /\ Chain(h, live, l, Cells(h, l))
      /\ l \in cells /\ cells \subseteq live /\ cells \cap roots = {l}
      /\ \A c \in cells :
           /\ h[c].kind = "list"
           /\ c # l => h[c].parent \in cells
           /\ h[c].tail # 0 => h[c].tail \in cells
           /\ h[c].head \notin cells
  BY CellSet
<1>3. PICK r : r = RemoveHeads(h, cells)
  OBVIOUS
<1> HIDE DEF cells
<1>4. /\ r \in Seq(Node) /\ Len(r) = Len(h) /\ DOMAIN r = DOMAIN h
      /\ \A n \in DOMAIN h :
           /\ r[n].kind = h[n].kind /\ r[n].head = h[n].head
           /\ r[n].tail = h[n].tail /\ r[n].parent = h[n].parent
           /\ n \notin cells => r[n] = h[n]
      /\ \A c \in cells : r[c].children = TailOnly(h, c)
  <2>1. \A n \in live : \A i, j \in DOMAIN h[n].children : h[n].children[i] = h[n].children[j] => i = j
    BY DEF Forest
  <2> QED BY <1>1, <1>2, <1>3, <2>1, Removing
\* The elements
<1>5. PICK cs : cs = Cells(h, l)
  OBVIOUS
<1>6. cs \in Seq(live) /\ Len(cs) \in Nat /\ DOMAIN cs = 1 .. Len(cs) /\ cs[1] = l /\ Len(cs) > 0
      /\ cells = {cs[i] : i \in 1 .. Len(cs)}
      /\ (\A i \in 1 .. Len(cs) - 1 : cs[i + 1] = h[cs[i]].tail)
      /\ (\A i, j \in 1 .. Len(cs) : i < j => cs[i] < cs[j])
  BY <1>2, <1>5 DEF Chain, cells, Range
<1>7. PICK es : es = Elements(h, l)
  OBVIOUS
<1>8. es = [i \in 1 .. Len(cs) |-> h[cs[i]].head]
  BY <1>5, <1>6, <1>7 DEF Elements
<1>9. DOMAIN es = 1 .. Len(cs) /\ \A i \in 1 .. Len(cs) : es[i] = h[cs[i]].head
  BY <1>8
<1>10. \A i \in 1 .. Len(cs) : h[cs[i]].head \in Nat
  <2> TAKE i \in 1 .. Len(cs)
  <2>1. cs[i] \in live
    BY <1>6
  <2> QED BY <1>1, <2>1, HeapNode
<1>11. es \in Seq(Nat) /\ Len(es) = Len(cs)
  BY <1>6, <1>8, <1>10
<1>12. Range(es) = {h[c].head : c \in cells}
  BY <1>6, <1>9 DEF Range
<1> DEFINE heads == Range(es)
<1>13. \A c \in cells : /\ h[c].head \in Range(h[c].children) /\ h[h[c].head].parent = c
                        /\ h[c].head \in live \ roots
                        /\ Range(h[c].children) \subseteq {h[c].head, h[c].tail}
                        /\ (h[c].tail # 0 => h[c].tail \in Range(h[c].children))
  <2> SUFFICES ASSUME NEW c \in cells
               PROVE  /\ h[c].head \in Range(h[c].children) /\ h[h[c].head].parent = c
                      /\ h[c].head \in live \ roots
                      /\ Range(h[c].children) \subseteq {h[c].head, h[c].tail}
                      /\ (h[c].tail # 0 => h[c].tail \in Range(h[c].children))
    OBVIOUS
  <2>1. c \in live /\ h[c].kind = "list"
    BY <1>2
  <2>2. /\ h[c].head \in Range(h[c].children)
        /\ h[c].tail # 0 => h[c].tail \in Range(h[c].children)
        /\ Range(h[c].children) \subseteq {h[c].head, h[c].tail}
    BY <1>1, <2>1, CellChildren
  <2>3. h[h[c].head].parent = c /\ h[c].head \in live \ roots
    BY <2>1, <2>2 DEF Forest
  <2> QED BY <2>2, <2>3
<1>14. heads = (UNION {Range(h[n].children) : n \in cells}) \ cells
  <2>1. ASSUME NEW e \in heads PROVE e \in (UNION {Range(h[n].children) : n \in cells}) \ cells
    <3>1. PICK c \in cells : e = h[c].head
      BY <1>12
    <3>2. e \in Range(h[c].children) /\ e \notin cells
      BY <1>2, <1>13, <3>1
    <3> QED BY <3>2
  <2>2. ASSUME NEW e \in (UNION {Range(h[n].children) : n \in cells}) \ cells PROVE e \in heads
    <3>1. PICK c \in cells : e \in Range(h[c].children)
      OBVIOUS
    <3>2. e = h[c].head
      <4>1. e \in {h[c].head, h[c].tail}
        BY <1>13, <3>1
      <4>2. ASSUME e = h[c].tail PROVE FALSE
        <5>1. c \in live /\ e \in live
          BY <1>1, <1>2, <3>1 DEF Closed
        <5>2. e # 0
          BY <1>1, <5>1, HeapNode
        <5> QED BY <1>2, <4>2, <5>2
      <4> QED BY <4>1, <4>2
    <3> QED BY <1>12, <3>2
  <2> QED BY <2>1, <2>2
<1> HIDE DEF heads
\* The heads become roots, and children of p.
<1>15. Forest(r, left, (roots \ {l}) \cup heads)
  <2>1. \A n \in live \ cells : r[n] = h[n]
    BY <1>1, <1>4
  <2>2. cells \subseteq live /\ cells \cap roots = {l} /\ \A n \in cells : n # l => h[n].parent \in cells
    BY <1>2
  <2>3. DOMAIN r = DOMAIN h
    BY <1>4
  <2> QED BY <1>14, <2>1, <2>2, <2>3, Felling
<1>16. heads \cap roots = {} /\ heads \subseteq live /\ heads \cap cells = {}
  BY <1>12, <1>13, <1>14 DEF heads
<1>17. p \in left /\ p \notin heads /\ p \notin cells /\ p \in Nat /\ p \in DOMAIN h
  <2>1. p \in left /\ p \notin heads /\ p \notin cells /\ p \in DOMAIN h
    BY <1>1, <1>2, <1>16
  <2> QED BY <1>1, <2>1, HeapNode
<1>18. g = AddChildren(r, p, es)
  BY <1>3, <1>7 DEF Transfer, cells
<1>19. /\ g \in Seq(Node) /\ Len(g) = Len(h) /\ DOMAIN g = DOMAIN h
       /\ \A n \in DOMAIN h :
            /\ g[n].kind = h[n].kind /\ g[n].head = h[n].head /\ g[n].tail = h[n].tail
            /\ g[n].parent = IF n \in heads THEN p ELSE h[n].parent
            /\ g[n].children = IF n = p THEN r[n].children \o es ELSE r[n].children
            /\ n # p /\ n \notin heads => g[n] = r[n]
  <2>1. Added(r, p, es, g)
    BY <1>4, <1>11, <1>17, <1>18, Adding
  <2> QED BY <1>4, <2>1 DEF heads, Added
<1>20. g[p].children = es
  <2>1. r[p].children = <<>>
    BY <1>4, <1>17
  <2>2. g[p].children = r[p].children \o es
    BY <1>17, <1>19
  <2>3. <<>> \o es = es
    BY <1>11, ConcatEmptySeq
  <2> QED BY <2>1, <2>2, <2>3
<1>21. \A i, j \in DOMAIN es : es[i] = es[j] => i = j
  <2> SUFFICES ASSUME NEW i \in DOMAIN es, NEW j \in DOMAIN es, es[i] = es[j] PROVE i = j
    OBVIOUS
  <2>1. i \in 1 .. Len(cs) /\ j \in 1 .. Len(cs) /\ h[cs[i]].head = h[cs[j]].head
    BY <1>9
  <2>2. cs[i] \in cells /\ cs[j] \in cells
    BY <1>6, <2>1
  <2>3. cs[i] = cs[j]
    BY <1>13, <2>1, <2>2
  <2>4. ~(cs[i] < cs[j]) /\ ~(cs[j] < cs[i])
    <3>1. cs[i] \in Nat /\ cs[j] \in Nat
      BY <1>1, <1>2, <2>2, HeapNode
    <3> QED BY <2>3, <3>1
  <2>5. ~(i < j) /\ ~(j < i)
    BY <1>6, <2>1, <2>4
  <2> QED BY <1>6, <2>1, <2>5
<1>22. Forest(g, left, roots \ {l})
  <2> DEFINE base == (roots \ {l}) \cup heads
  <2>1. Above(r, left, base, p, base \ heads)
    BY <1>16, RootIsAbove
  <2>2. \A n \in left : g[n].parent = IF n \in heads THEN p ELSE r[n].parent
    BY <1>1, <1>4, <1>19
  <2>3. \A n \in left : n # p => g[n].children = r[n].children
    BY <1>1, <1>19
  <2>4. Range(g[p].children) = Range(r[p].children) \cup heads
    <3>1. r[p].children = <<>>
      BY <1>4, <1>17
    <3>2. Range(r[p].children) = {}
      BY <3>1 DEF Range
    <3> QED BY <1>20, <3>2 DEF heads
  <2>5. \A i, j \in DOMAIN g[p].children : g[p].children[i] = g[p].children[j] => i = j
    BY <1>20, <1>21
  <2>6. DOMAIN g = DOMAIN r /\ heads \subseteq base /\ base \ heads = roots \ {l} /\ p \in left
    BY <1>4, <1>16, <1>17, <1>19
  <2> HIDE DEF base, left
  <2>7. Forest(r, left, base)
    BY <1>15 DEF base
  <2>8. Forest(g, left, base \ heads)
    <3>1. Linked(r, left, p, heads, g)
      BY <2>2, <2>3, <2>4, <2>5, <2>6 DEF Linked
    <3> QED BY <2>1, <2>6, <2>7, <3>1, Linking
  <2> QED BY <2>6, <2>8
<1>23. Lists(g, left)
  <2>1. \A n \in live : g[n].kind = h[n].kind /\ g[n].head = h[n].head /\ g[n].tail = h[n].tail
    BY <1>1, <1>19
  <2>2. \A n \in left : h[n].kind = "list" => g[n].children = h[n].children
    <3> TAKE n \in left
    <3>1. n \in DOMAIN h /\ n \notin cells /\ (h[n].kind = "list" => n # p)
      BY <1>1
    <3> QED BY <1>4, <1>19, <3>1
  <2> QED BY <1>1, <2>1, <2>2, ListsStay
\* What the first cell owns
<1>24. \A c \in cells : g[c].children = TailOnly(h, c)
  <2> TAKE c \in cells
  <2>1. c \in DOMAIN h /\ c # p
    BY <1>1, <1>2, <1>17
  <2> QED BY <1>4, <1>19, <2>1
<1>25. Closed(g, cells)
  <2> SUFFICES ASSUME NEW c \in cells, NEW e \in Range(g[c].children) PROVE e \in cells
    BY DEF Closed
  <2>1. e = h[c].tail /\ h[c].tail # 0
    BY <1>24, TailRange
  <2> QED BY <1>2, <2>1
<1>26. l \in gone /\ Closed(g, gone) /\ gone \subseteq cells
  <2>1. cells \in SUBSET DOMAIN g
    BY <1>1, <1>2, <1>19
  <2> QED BY <1>2, <1>19, <1>25, <2>1, OwnedIsClosed
<1>27. cells \subseteq gone
  <2> DEFINE Bad == {i \in 1 .. Len(cs) : cs[i] \notin gone}
  <2> SUFFICES ASSUME Bad # {} PROVE FALSE
    BY <1>6
  <2>1. PICK i \in Bad : \A k \in Bad : i <= k
    <3>1. Bad \in SUBSET Nat
      OBVIOUS
    <3> HIDE DEF Bad
    <3> QED BY <3>1, LeastElement
  <2>2. i \in 1 .. Len(cs) /\ cs[i] \notin gone
    BY <2>1
  <2>3. i # 1
    BY <1>6, <1>26, <2>2
  <2>4. i - 1 \in 1 .. Len(cs) /\ i - 1 \in 1 .. Len(cs) - 1 /\ (i - 1) + 1 = i /\ ~(i <= i - 1)
    BY <1>6, <2>2, <2>3
  <2>5. cs[i - 1] \in gone
    BY <2>1, <2>4
  <2>6. PICK b \in cells : b = cs[i - 1] /\ b \in gone
    BY <1>6, <2>4, <2>5
  <2>7. cs[i] = h[b].tail
    BY <1>6, <2>4, <2>6
  <2>8. cs[i] # 0
    <3>1. cs[i] \in live
      BY <1>6, <2>2
    <3> QED BY <1>1, <3>1, HeapNode
  <2>9. h[b].tail \in Range(g[b].children)
    BY <1>24, <2>7, <2>8, TailRange
  <2> QED BY <1>26, <2>2, <2>6, <2>7, <2>9 DEF Closed
<1>28. gone = cells
  BY <1>26, <1>27
\* The rest
<1>29. Pointers(g)
  <2> SUFFICES ASSUME NEW n \in DOMAIN h
               PROVE  /\ g[n].parent \in 0 .. Len(h) /\ g[n].head \in 0 .. Len(h) /\ g[n].tail \in 0 .. Len(h)
                      /\ Range(g[n].children) \subseteq 0 .. Len(h)
    BY <1>19 DEF Pointers
  <2>1. /\ h[n].parent \in 0 .. Len(h) /\ h[n].head \in 0 .. Len(h) /\ h[n].tail \in 0 .. Len(h)
        /\ Range(h[n].children) \subseteq 0 .. Len(h)
    BY DEF Pointers
  <2>2. p \in 0 .. Len(h) /\ Len(h) \in Nat
    BY <1>1, <1>17, HeapNode
  <2>3. heads \subseteq 0 .. Len(h)
    <3>1. \A e \in heads : e \in 1 .. Len(h) /\ Len(h) \in Nat
      BY <1>1, <1>16, HeapNode
    <3> QED BY <3>1
  <2>4. Range(g[n].children) \subseteq 0 .. Len(h)
    <3>1. CASE n = p
      BY <1>20, <2>3, <3>1 DEF heads
    <3>2. CASE n \in cells
      BY <1>24, <2>1, <3>2, TailRange
    <3>3. CASE n # p /\ n \notin cells
      BY <1>4, <1>19, <2>1, <3>3
    <3> QED BY <3>1, <3>2, <3>3
  <2> QED BY <1>19, <2>1, <2>2, <2>4
<1>30. \A n \in DOMAIN h : g[n].kind = h[n].kind /\ (n \notin live => g[n] = h[n])
  <2> TAKE n \in DOMAIN h
  <2>1. g[n].kind = h[n].kind
    BY <1>19
  <2>2. n \notin live => n # p /\ n \notin heads /\ n \notin cells
    BY <1>2, <1>16, <1>17
  <2> QED BY <1>4, <1>19, <2>1, <2>2
<1>31. \A n \in roots : g[n].parent = h[n].parent
  BY <1>1, <1>16, <1>19
<1>32. \A n \in roots \ {l, p} : g[n].children = h[n].children
  <2> TAKE n \in roots \ {l, p}
  <2>1. n \in DOMAIN h /\ n \notin cells /\ n # p
    BY <1>1, <1>2
  <2> QED BY <1>4, <1>19, <2>1
<1>33. gone \subseteq live /\ gone \cap roots = {l} /\ live \ gone = left
  BY <1>2, <1>28
<1> HIDE DEF left
<1> QED BY <1>19, <1>22, <1>23, <1>29, <1>30, <1>31, <1>32, <1>33 DEF Transferred

-----------------------------------------------------------------------------
(* The stack                                                               *)

Entry == [symbol : Symbols, nodes : Seq(Nat)]
Injective(s) == \A i, j \in DOMAIN s : s[i] = s[j] => i = j

Held(st) == UNION {Range(st[i].nodes) : i \in DOMAIN st}
Popped(st, k) == UNION {Range(st[i].nodes) : i \in Len(st) - k + 1 .. Len(st)}

\* A node is on the stack once.
Distinct(st) ==
  \A i, j \in DOMAIN st : \A a \in DOMAIN st[i].nodes, b \in DOMAIN st[j].nodes :
    st[i].nodes[a] = st[j].nodes[b] => i = j /\ a = b

LEMMA EntryFields ==
  ASSUME NEW st \in Seq(Entry), NEW i \in DOMAIN st
  PROVE  /\ i \in 1 .. Len(st) /\ Len(st) \in Nat /\ DOMAIN st = 1 .. Len(st)
         /\ st[i] \in Entry /\ st[i].symbol \in Symbols /\ st[i].nodes \in Seq(Nat)
<1>1. i \in 1 .. Len(st) /\ Len(st) \in Nat /\ DOMAIN st = 1 .. Len(st) /\ st[i] \in Entry
  OBVIOUS
<1> QED BY <1>1 DEF Entry

\* b is st without its last k entries.
Cut(st, k, b) ==
  /\ b \in Seq(Entry) /\ Len(b) = Len(st) - k /\ DOMAIN b = 1 .. Len(st) - k
  /\ \A i \in DOMAIN b : i \in DOMAIN st /\ b[i] = st[i]
  /\ Distinct(b) /\ Held(st) = Held(b) \cup Popped(st, k) /\ Held(b) \cap Popped(st, k) = {}

LEMMA Popping ==
  ASSUME NEW st \in Seq(Entry), Distinct(st), NEW k \in 0 .. Len(st)
  PROVE  Cut(st, k, SubSeq(st, 1, Len(st) - k))
<1>0. PICK b : b = SubSeq(st, 1, Len(st) - k)
  OBVIOUS
<1>1. Len(st) \in Nat /\ DOMAIN st = 1 .. Len(st) /\ k \in Nat /\ k <= Len(st)
  OBVIOUS
<1> DEFINE n == Len(st) - k
<1>2. n \in Nat /\ n \in Int /\ 1 \in Int /\ n <= Len(st)
  BY <1>1
<1>3. b \in Seq(Entry) /\ Len(b) = n /\ \A i \in 1 .. n : b[i] = st[i]
  <2>1. \A i \in 1 .. n : st[i] \in Entry
    BY <1>1, <1>2
  <2>2. /\ SubSeq(st, 1, n) \in Seq(Entry)
        /\ Len(SubSeq(st, 1, n)) = IF 1 <= n THEN n - 1 + 1 ELSE 0
        /\ \A i \in 1 .. n - 1 + 1 : SubSeq(st, 1, n)[i] = st[1 + i - 1]
    BY <1>2, <2>1, SubSeqProperties
  <2> QED BY <1>0, <1>2, <2>2
<1>4. DOMAIN b = 1 .. n /\ \A i \in DOMAIN b : i \in DOMAIN st /\ b[i] = st[i]
  <2>1. DOMAIN b = 1 .. n
    <3>1. DOMAIN b = 1 .. Len(b)
      BY <1>3
    <3> QED BY <1>3, <3>1
  <2>2. 1 .. n \subseteq 1 .. Len(st)
    <3> HIDE DEF n
    <3> QED BY <1>2, <1>1
  <2> HIDE DEF n
  <2> QED BY <1>1, <1>3, <2>1, <2>2
<1>5. Distinct(b)
  BY <1>4 DEF Distinct
<1>6. DOMAIN st = DOMAIN b \cup (n + 1 .. Len(st)) /\ DOMAIN b \cap (n + 1 .. Len(st)) = {}
  BY <1>1, <1>2, <1>4
<1> HIDE DEF n
<1>7. Popped(st, k) = UNION {Range(st[i].nodes) : i \in n + 1 .. Len(st)}
  BY <1>1 DEF Popped, n
<1>8. Held(b) = UNION {Range(st[i].nodes) : i \in DOMAIN b}
  <2>1. \A i \in DOMAIN b : Range(b[i].nodes) = Range(st[i].nodes)
    BY <1>4
  <2> QED BY <2>1 DEF Held
<1>9. Held(st) = Held(b) \cup Popped(st, k)
  BY <1>6, <1>7, <1>8 DEF Held
<1>10. Held(b) \cap Popped(st, k) = {}
  <2> SUFFICES ASSUME NEW x \in Held(b), x \in Popped(st, k) PROVE FALSE
    OBVIOUS
  <2>1. PICK i \in DOMAIN b : x \in Range(st[i].nodes)
    BY <1>8
  <2>2. PICK j \in n + 1 .. Len(st) : x \in Range(st[j].nodes)
    BY <1>7
  <2>3. PICK a \in DOMAIN st[i].nodes : st[i].nodes[a] = x
    BY <2>1 DEF Range
  <2>4. PICK c \in DOMAIN st[j].nodes : st[j].nodes[c] = x
    BY <2>2 DEF Range
  <2>5. i \in DOMAIN st /\ j \in DOMAIN st /\ i # j
    BY <1>6, <2>1, <2>2
  <2> QED BY <2>3, <2>4, <2>5 DEF Distinct
<1>11. Cut(st, k, b)
  BY <1>3, <1>4, <1>5, <1>9, <1>10 DEF n, Cut
<1> QED BY <1>0, <1>11

\* t is st with an entry on top.
Put(st, symbol, v, t) ==
  /\ t \in Seq(Entry) /\ Len(t) = Len(st) + 1 /\ Distinct(t) /\ Held(t) = Held(st) \cup Range(v)
  /\ t[Len(st) + 1].symbol = symbol /\ t[Len(st) + 1].nodes = v
  /\ \A i \in DOMAIN st : t[i] = st[i]
  /\ DOMAIN t = DOMAIN st \cup {Len(st) + 1}

LEMMA Pushing ==
  ASSUME NEW st \in Seq(Entry), Distinct(st), NEW symbol \in Symbols,
         NEW v \in Seq(Nat), Injective(v), Range(v) \cap Held(st) = {}
  PROVE  Put(st, symbol, v, Append(st, [symbol |-> symbol, nodes |-> v]))
<1>0. PICK t : t = Append(st, [symbol |-> symbol, nodes |-> v])
  OBVIOUS
<1> DEFINE e == [symbol |-> symbol, nodes |-> v]
           n == Len(st) + 1
<1>1. e \in Entry /\ e.symbol = symbol /\ e.nodes = v
  BY DEF Entry
<1> HIDE DEF e
<1>2. Len(st) \in Nat /\ DOMAIN st = 1 .. Len(st)
  OBVIOUS
<1>3. t \in Seq(Entry) /\ Len(t) = n /\ (\A i \in 1 .. Len(st) : t[i] = st[i]) /\ t[n] = e
  BY <1>0, <1>1, <1>2, AppendProperties DEF e
<1>4. DOMAIN t = DOMAIN st \cup {n} /\ n \notin DOMAIN st
  <2>1. DOMAIN t = 1 .. n
    BY <1>3
  <2> QED BY <1>2, <2>1
<1> HIDE DEF n
<1>5. \A i \in DOMAIN st : t[i] = st[i]
  BY <1>2, <1>3
<1>6. Held(t) = Held(st) \cup Range(v)
  <2>1. t[n].nodes = v /\ n \in DOMAIN t
    BY <1>1, <1>3, <1>4
  <2>2. \A x \in Held(t) : x \in Held(st) \cup Range(v)
    <3> TAKE x \in Held(t)
    <3>1. PICK i \in DOMAIN t : x \in Range(t[i].nodes)
      BY DEF Held
    <3>2. CASE i = n
      BY <2>1, <3>1, <3>2
    <3>3. CASE i \in DOMAIN st
      <4>1. x \in Range(st[i].nodes)
        BY <1>5, <3>1, <3>3
      <4> QED BY <3>3, <4>1 DEF Held
    <3> QED BY <1>4, <3>2, <3>3
  <2>3. \A x \in Held(st) : x \in Held(t)
    <3> TAKE x \in Held(st)
    <3>1. PICK i \in DOMAIN st : x \in Range(st[i].nodes)
      BY DEF Held
    <3>2. x \in Range(t[i].nodes) /\ i \in DOMAIN t
      BY <1>4, <1>5, <3>1
    <3> QED BY <3>2 DEF Held
  <2>4. \A x \in Range(v) : x \in Held(t)
    BY <2>1 DEF Held
  <2> QED BY <2>2, <2>3, <2>4
<1>7. Distinct(t)
  <2> SUFFICES ASSUME NEW i \in DOMAIN t, NEW j \in DOMAIN t,
                      NEW a \in DOMAIN t[i].nodes, NEW b \in DOMAIN t[j].nodes,
                      t[i].nodes[a] = t[j].nodes[b]
               PROVE  i = j /\ a = b
    BY DEF Distinct
  <2>1. t[n].nodes = v
    BY <1>1, <1>3
  <2>2. \A m \in DOMAIN st : t[m] = st[m] /\ Range(t[m].nodes) \subseteq Held(st)
    BY <1>5 DEF Held
  <2>3. t[i].nodes[a] \in Range(t[i].nodes) /\ t[j].nodes[b] \in Range(t[j].nodes)
    BY DEF Range
  <2>4. CASE i \in DOMAIN st /\ j \in DOMAIN st
    BY <1>5, <2>4 DEF Distinct
  <2>5. CASE i = n /\ j = n
    BY <2>1, <2>5 DEF Injective
  <2>6. CASE i = n /\ j \in DOMAIN st
    BY <2>1, <2>2, <2>3, <2>6
  <2>7. CASE i \in DOMAIN st /\ j = n
    BY <2>1, <2>2, <2>3, <2>7
  <2> QED BY <1>4, <2>4, <2>5, <2>6, <2>7
<1>8. Put(st, symbol, v, t)
  BY <1>1, <1>3, <1>4, <1>5, <1>6, <1>7 DEF n, Put
<1> QED BY <1>0, <1>8

\* What stands for a symbol: one node, but for the formals.
Fits(h, e) ==
  /\ e.symbol # "formals" => Len(e.nodes) = 1
  /\ e.symbol = "expressions" => h[e.nodes[1]].kind = "list"
  /\ e.symbol = "body" => h[e.nodes[1]].kind = "function_body"
Fit(h, st) == \A i \in DOMAIN st : Fits(h, st[i])

LEMMA SingleNode ==
  ASSUME NEW v \in Seq(Nat), Len(v) = 1
  PROVE  v = <<v[1]>> /\ Range(v) = {v[1]} /\ Injective(v) /\ v[1] \in Nat /\ 1 \in DOMAIN v
<1>1. DOMAIN v = {1} /\ v[1] \in Nat
  <2>1. DOMAIN v = 1 .. 1
    OBVIOUS
  <2>2. 1 .. 1 = {1}
    OBVIOUS
  <2>3. 1 \in 1 .. Len(v)
    OBVIOUS
  <2>4. v[1] \in Nat
    BY <2>3, ElementOfSeq
  <2> QED BY <2>1, <2>2, <2>4
<1>2. v = <<v[1]>>
  <2>1. \A i \in 1 .. Len(v) : v[i] = <<v[1]>>[i]
    BY <1>1
  <2>2. <<v[1]>> \in Seq(Nat) /\ Len(<<v[1]>>) = 1
    BY <1>1
  <2> QED BY <2>1, <2>2, SeqEqual
<1> QED BY <1>1, <1>2 DEF Range, Injective

\* The one node of a symbol on the stack.
LEMMA OneNode ==
  ASSUME NEW h, NEW st \in Seq(Entry), Fit(h, st), NEW i \in DOMAIN st, st[i].symbol # "formals",
         NEW n, n = st[i].nodes[1]
  PROVE  /\ st[i].nodes = <<n>> /\ Range(st[i].nodes) = {n} /\ n \in Held(st) /\ n \in Nat
         /\ st[i].symbol = "expressions" => h[n].kind = "list"
         /\ st[i].symbol = "body" => h[n].kind = "function_body"
<1>1. st[i].nodes \in Seq(Nat) /\ Fits(h, st[i])
  BY EntryFields DEF Fit
<1>2. Len(st[i].nodes) = 1
  BY <1>1 DEF Fits
<1>3. st[i].nodes = <<n>> /\ Range(st[i].nodes) = {n} /\ n \in Nat
  BY <1>1, <1>2, SingleNode
<1>4. n \in Held(st)
  BY <1>3 DEF Held
<1> QED BY <1>1, <1>3, <1>4 DEF Fits

\* The nodes of two symbols on the stack differ.
LEMMA OtherNode ==
  ASSUME NEW st \in Seq(Entry), Distinct(st), NEW i \in DOMAIN st, NEW j \in DOMAIN st, i # j
  PROVE  Range(st[i].nodes) \cap Range(st[j].nodes) = {}
<1> SUFFICES ASSUME NEW x \in Range(st[i].nodes), x \in Range(st[j].nodes) PROVE FALSE
  OBVIOUS
<1>1. PICK a \in DOMAIN st[i].nodes : st[i].nodes[a] = x
  BY DEF Range
<1>2. PICK b \in DOMAIN st[j].nodes : st[j].nodes[b] = x
  BY DEF Range
<1> QED BY <1>1, <1>2 DEF Distinct

LEMMA NodesDiffer ==
  ASSUME NEW st \in Seq(Entry), Distinct(st), NEW i \in DOMAIN st
  PROVE  Injective(st[i].nodes)
BY DEF Distinct, Injective

\* The values of the last one, two or three symbols.
LEMMA LastSymbols ==
  ASSUME NEW st \in Seq(Entry)
  PROVE  /\ Popped(st, 0) = {}
         /\ Len(st) >= 1 => Popped(st, 1) = Range(st[Len(st)].nodes)
         /\ Len(st) >= 2 => Popped(st, 2) = Range(st[Len(st) - 1].nodes) \cup Range(st[Len(st)].nodes)
         /\ Len(st) >= 3 => Popped(st, 3) = Range(st[Len(st) - 2].nodes) \cup Range(st[Len(st) - 1].nodes)
                                              \cup Range(st[Len(st)].nodes)
<1> DEFINE n == Len(st)
<1>1. n \in Nat
  OBVIOUS
<1> HIDE DEF n
<1>2. n - 0 + 1 .. n = {} /\ n - 1 + 1 .. n = {n} /\ n - 2 + 1 .. n = {n - 1, n} /\ n - 3 + 1 .. n = {n - 2, n - 1, n}
  BY <1>1
<1>3. \A k : Popped(st, k) = UNION {Range(st[i].nodes) : i \in n - k + 1 .. n}
  BY DEF Popped, n
<1>4. Popped(st, 0) = UNION {Range(st[i].nodes) : i \in {}}
  BY <1>2, <1>3
<1>5. Popped(st, 1) = UNION {Range(st[i].nodes) : i \in {n}}
  BY <1>2, <1>3
<1>6. Popped(st, 2) = UNION {Range(st[i].nodes) : i \in {n - 1, n}}
  BY <1>2, <1>3
<1>7. Popped(st, 3) = UNION {Range(st[i].nodes) : i \in {n - 2, n - 1, n}}
  BY <1>2, <1>3
<1> QED BY <1>4, <1>5, <1>6, <1>7 DEF n

-----------------------------------------------------------------------------
(* Between two reductions                                                  *)

\* The live nodes are trees, under the root and the nodes on the stack.
Between(h, st, live) ==
  /\ Pointers(h) /\ st \in Seq(Entry)
  /\ Forest(h, live, {1} \cup Held(st)) /\ Lists(h, live)
  /\ Distinct(st) /\ 1 \notin Held(st) /\ Fit(h, st)
  /\ h[1].kind = "root"

\* k values make way for one, on a heap that became another.
LEMMA Stacking ==
  ASSUME NEW h, NEW st, NEW live, Between(h, st, live), NEW k \in 0 .. Len(st),
         NEW symbol \in Symbols, NEW v \in Seq(Nat), Injective(v),
         Range(v) \cap ({1} \cup (Held(st) \ Popped(st, k))) = {},
         NEW t, t = Append(SubSeq(st, 1, Len(st) - k), [symbol |-> symbol, nodes |-> v]),
         NEW g, Pointers(g), \A n \in DOMAIN h : g[n].kind = h[n].kind,
         NEW left, Forest(g, left, ({1} \cup (Held(st) \ Popped(st, k))) \cup Range(v)), Lists(g, left),
         Fits(g, [symbol |-> symbol, nodes |-> v])
  PROVE  Between(g, t, left)
<1>1. /\ st \in Seq(Entry) /\ Distinct(st) /\ Fit(h, st) /\ h[1].kind = "root" /\ 1 \notin Held(st)
      /\ {1} \cup Held(st) \subseteq DOMAIN h
  BY DEF Between, Forest
<1>2. PICK b : b = SubSeq(st, 1, Len(st) - k)
  OBVIOUS
<1>3. /\ b \in Seq(Entry) /\ (\A i \in DOMAIN b : i \in DOMAIN st /\ b[i] = st[i])
      /\ Distinct(b) /\ Held(b) = Held(st) \ Popped(st, k)
  <2>1. Cut(st, k, b)
    BY <1>1, <1>2, Popping
  <2> QED BY <2>1 DEF Cut
<1>4. /\ t \in Seq(Entry) /\ Distinct(t) /\ Held(t) = Held(b) \cup Range(v)
      /\ t[Len(b) + 1].symbol = symbol /\ t[Len(b) + 1].nodes = v
      /\ (\A i \in DOMAIN b : t[i] = b[i])
      /\ DOMAIN t = DOMAIN b \cup {Len(b) + 1}
  <2>1. Put(b, symbol, v, t)
    BY <1>2, <1>3, Pushing
  <2> QED BY <2>1 DEF Put
<1>5. Fit(g, t)
  <2> SUFFICES ASSUME NEW i \in DOMAIN t PROVE Fits(g, t[i])
    BY DEF Fit
  <2>1. CASE i = Len(b) + 1
    BY <1>4, <2>1 DEF Fits
  <2>2. CASE i \in DOMAIN b
    <3>1. i \in DOMAIN st /\ t[i] = st[i] /\ Fits(h, st[i])
      BY <1>1, <1>3, <1>4, <2>2 DEF Fit
    <3>2. ASSUME st[i].symbol \in {"expressions", "body"}
          PROVE  g[st[i].nodes[1]].kind = h[st[i].nodes[1]].kind
      <4>1. st[i].nodes[1] \in Held(st)
        BY <1>1, <3>1, <3>2, OneNode
      <4> QED BY <1>1, <4>1
    <3> QED BY <3>1, <3>2 DEF Fits
  <2> QED BY <1>4, <2>1, <2>2
<1>6. {1} \cup Held(t) = ({1} \cup (Held(st) \ Popped(st, k))) \cup Range(v) /\ 1 \notin Held(t)
  BY <1>1, <1>3, <1>4
<1>7. g[1].kind = "root"
  BY <1>1
<1> QED BY <1>4, <1>5, <1>6, <1>7 DEF Between

\* The inductive invariant: a program that has been parsed has left nothing on the stack.
ParserInv ==
  /\ ParserTypeOK
  /\ status \in {"parsing", "parsed"} => Between(heap, stack, Live)
  /\ status = "parsed" => stack = <<>>
  /\ OnlyWhenLoopsUseFreedNodes /\ EveryNodeIsFreedOnce

LEMMA EntriesAreTyped ==
  ASSUME NEW n \in Nat
  PROVE  \A st : st \in Seq([symbol : Symbols, nodes : Seq(1 .. n)]) => st \in Seq(Entry)
<1>1. \A s \in Seq(1 .. n) : s \in Seq(Nat)
  <2> TAKE s \in Seq(1 .. n)
  <2>1. 1 .. n \subseteq Nat
    OBVIOUS
  <2> QED BY <2>1, SeqMonotonic
<1>2. [symbol : Symbols, nodes : Seq(1 .. n)] \subseteq Entry
  BY <1>1 DEF Entry
<1> QED BY <1>2, SeqMonotonic

LEMMA SequenceOf ==
  ASSUME NEW S, NEW s \in Seq(S), NEW T, \A a \in DOMAIN s : s[a] \in T
  PROVE  s \in Seq(T)
<1>1. Len(s) \in Nat /\ DOMAIN s = 1 .. Len(s) /\ s = [a \in 1 .. Len(s) |-> s[a]]
  BY LenProperties
<1>2. s \in [1 .. Len(s) -> T]
  BY <1>1
<1> QED BY <1>1, <1>2

LEMMA EntriesAreConfined ==
  ASSUME NEW st \in Seq(Entry), NEW n \in Nat, Held(st) \subseteq 1 .. n
  PROVE  st \in Seq([symbol : Symbols, nodes : Seq(1 .. n)])
<1>1. ASSUME NEW i \in DOMAIN st PROVE st[i] \in [symbol : Symbols, nodes : Seq(1 .. n)]
  <2>1. st[i] \in Entry /\ st[i].symbol \in Symbols /\ st[i].nodes \in Seq(Nat)
    BY EntryFields
  <2>2. \A a \in DOMAIN st[i].nodes : st[i].nodes[a] \in Held(st)
    BY DEF Held, Range
  <2>3. PICK s : s = st[i].nodes
    OBVIOUS
  <2>4. s \in Seq(Nat) /\ \A a \in DOMAIN s : s[a] \in 1 .. n
    BY <2>1, <2>2, <2>3
  <2>5. s \in Seq(1 .. n)
    BY <2>4, SequenceOf
  <2>6. st[i] = [symbol |-> st[i].symbol, nodes |-> st[i].nodes]
    BY <2>1 DEF Entry
  <2> QED BY <2>1, <2>3, <2>5, <2>6
<1> QED BY <1>1, SequenceOf

LEMMA Typed ==
  ASSUME ParserTypeOK
  PROVE  /\ Pointers(heap) /\ heap \in Seq(Node) /\ Len(heap) \in Nat /\ DOMAIN heap = 1 .. Len(heap)
         /\ stack \in Seq(Entry) /\ Len(stack) \in Nat /\ DOMAIN stack = 1 .. Len(stack)
         /\ Held(stack) \subseteq DOMAIN heap
         /\ input \in Inputs /\ input \in Seq(Reduction) /\ Len(input) \in Nat /\ at \in 0 .. Len(input)
         /\ freed \subseteq DOMAIN heap /\ Live = DOMAIN heap \ freed
         /\ at < Len(input) => Token \in Reduction
<1>1. heap \in Seq(Node) /\ Len(heap) \in Nat /\ DOMAIN heap = 1 .. Len(heap)
  BY DEF ParserTypeOK
<1>2. ASSUME NEW n \in DOMAIN heap
      PROVE  /\ heap[n].parent \in 0 .. Len(heap) /\ heap[n].head \in 0 .. Len(heap)
             /\ heap[n].tail \in 0 .. Len(heap) /\ Range(heap[n].children) \subseteq 0 .. Len(heap)
  <2>1. {heap[n].parent, heap[n].head, heap[n].tail} \cup Range(heap[n].children) \subseteq 0 .. Len(heap)
    BY DEF ParserTypeOK
  <2> QED BY <2>1
<1>3. Pointers(heap)
  BY <1>1, <1>2 DEF Pointers
<1>4. stack \in Seq(Entry) /\ Len(stack) \in Nat /\ DOMAIN stack = 1 .. Len(stack)
  <2>1. stack \in Seq(Entry)
    BY <1>1, EntriesAreTyped DEF ParserTypeOK
  <2> QED BY <2>1
<1>5. Held(stack) \subseteq DOMAIN heap
  <2> SUFFICES ASSUME NEW i \in DOMAIN stack, NEW x \in Range(stack[i].nodes) PROVE x \in DOMAIN heap
    BY DEF Held
  <2>1. stack[i] \in [symbol : Symbols, nodes : Seq(1 .. Len(heap))]
    BY <1>4, ElementOfSeq DEF ParserTypeOK
  <2>2. PICK s \in Seq(1 .. Len(heap)) : s = stack[i].nodes
    BY <2>1
  <2>3. PICK a \in DOMAIN s : s[a] = x
    BY <2>2 DEF Range
  <2>4. a \in 1 .. Len(s)
    BY <2>2, <2>3
  <2> QED BY <1>1, <2>2, <2>3, <2>4, ElementOfSeq
<1>6. input \in Inputs /\ input \in Seq(Reduction) /\ at \in 0 .. Len(input)
  BY InputsAssumption DEF ParserTypeOK
<1>7. Len(input) \in Nat /\ (at < Len(input) => Token \in Reduction)
  <2>1. Len(input) \in Nat
    BY <1>6
  <2>2. at < Len(input) => at + 1 \in 1 .. Len(input)
    BY <1>6, <2>1
  <2> QED BY <1>6, <2>1, <2>2, ElementOfSeq DEF Token
<1>8. freed \subseteq DOMAIN heap /\ Live = DOMAIN heap \ freed
  BY <1>1 DEF ParserTypeOK, Live
<1> QED BY <1>1, <1>3, <1>4, <1>5, <1>6, <1>7, <1>8

\* Types hold after a step whose heap and stack have theirs.
LEMMA TypesStay ==
  ASSUME ParserTypeOK, UNCHANGED input, at' \in 0 .. Len(input), Pointers(heap'), Len(heap) <= Len(heap'),
         stack' \in Seq(Entry), Held(stack') \subseteq DOMAIN heap', freed' \subseteq DOMAIN heap',
         status' \in Statuses
  PROVE  ParserTypeOK'
<1>1. heap' \in Seq(Node) /\ Len(heap') \in Nat /\ DOMAIN heap' = 1 .. Len(heap')
  BY DEF Pointers
<1>2. stack' \in Seq([symbol : Symbols, nodes : Seq(1 .. Len(heap'))])
  BY <1>1, EntriesAreConfined
<1>3. ASSUME NEW n \in DOMAIN heap'
      PROVE  {heap'[n].parent, heap'[n].head, heap'[n].tail} \cup Range(heap'[n].children) \subseteq 0 .. Len(heap')
  BY DEF Pointers
<1>4. input' \in Inputs /\ at' \in 0 .. Len(input')
  BY DEF ParserTypeOK
<1> QED BY <1>1, <1>2, <1>3, <1>4 DEF ParserTypeOK

-----------------------------------------------------------------------------
(* Reductions                                                              *)

\* The roots that k values leave.
Remaining(k) == {1} \cup (Held(stack) \ Popped(stack, k))

\* The heap grows, and its nodes stay of the kind they are.
Grown(h) == Pointers(h) /\ Len(heap) <= Len(h) /\ \A n \in DOMAIN heap : h[n].kind = heap[n].kind

\* What is free is not written, what is deleted is not free, and it stays as it was.
Clean(h, gone, later) ==
  /\ gone \subseteq DOMAIN heap \ freed
  /\ \A n \in freed : h[n] = heap[n]
  /\ \A n \in freed \cup gone : later[n] = h[n]

\* A reduction that leaves trees.
LEMMA Reducing ==
  ASSUME ParserInv, status = "parsing", at < Len(input),
         NEW k \in 0 .. Len(stack), NEW symbol \in Symbols, NEW v \in Seq(Nat), Injective(v),
         Range(v) \cap Remaining(k) = {},
         NEW h, NEW gone, NEW later, ReduceThen(k, symbol, v, h, gone, later),
         Grown(later), Clean(h, gone, later),
         Forest(later, (DOMAIN later \ freed) \ gone, Remaining(k) \cup Range(v)),
         Lists(later, (DOMAIN later \ freed) \ gone),
         Fits(later, [symbol |-> symbol, nodes |-> v])
  PROVE  ParserInv'
<1>1. ParserTypeOK /\ Between(heap, stack, Live)
  BY DEF ParserInv
<1> DEFINE left == (DOMAIN later \ freed) \ gone
           t == Append(SubSeq(stack, 1, Len(stack) - k), [symbol |-> symbol, nodes |-> v])
<1>2. heap' = later /\ freed' = freed \cup gone /\ stack' = t /\ at' = at + 1 /\ UNCHANGED input
  BY DEF ReduceThen, Below
<1>3. status' = "parsing"
  BY DEF ReduceThen, Clean
<1>4. Pointers(later) /\ Len(heap) <= Len(later) /\ \A n \in DOMAIN heap : later[n].kind = heap[n].kind
  BY DEF Grown
<1>5. DOMAIN later = 1 .. Len(later) /\ Len(later) \in Nat
  BY <1>4 DEF Pointers
<1>6. /\ Len(heap) \in Nat /\ DOMAIN heap = 1 .. Len(heap) /\ freed \subseteq DOMAIN heap
      /\ at \in 0 .. Len(input) /\ Len(input) \in Nat
  BY <1>1, Typed
<1>7. Between(later, t, left)
  BY <1>1, <1>4, Stacking DEF Remaining
<1>8. t \in Seq(Entry) /\ Held(t) \subseteq DOMAIN later
  BY <1>7 DEF Between, Forest
<1>9. ParserTypeOK'
  <2>1. freed' \subseteq DOMAIN heap'
    BY <1>2, <1>4, <1>5, <1>6 DEF Clean
  <2>2. at' \in 0 .. Len(input)
    BY <1>2, <1>6
  <2>3. status' \in Statuses
    BY <1>3 DEF Statuses
  <2>4. stack' \in Seq(Entry) /\ Held(stack') \subseteq DOMAIN heap'
    BY <1>2, <1>8
  <2>5. Pointers(heap') /\ Len(heap) <= Len(heap')
    BY <1>2, <1>4
  <2> HIDE DEF t
  <2> QED BY <1>1, <1>2, <2>1, <2>2, <2>3, <2>4, <2>5, TypesStay
<1>10. Live' = left
  BY <1>2, <1>5 DEF Live
<1>11. Between(heap, stack, Live)'
  <2>1. Between(heap', stack', Live')
    BY <1>2, <1>7, <1>10
  <2> QED BY <2>1 DEF Between, Pointers, Fit, Fits, Held, Forest, Lists, CellsOf, Distinct, Upward
<1> QED BY <1>3, <1>9, <1>11 DEF ParserInv, OnlyWhenLoopsUseFreedNodes, EveryNodeIsFreedOnce

\* Nodes come along behind those of the heap.
Fresh(h, new) ==
  /\ h \in Seq(Node) /\ Len(heap) <= Len(h) /\ DOMAIN h = DOMAIN heap \cup new
  /\ \A n \in DOMAIN heap : h[n] = heap[n]
  /\ \A n \in new : /\ n \notin DOMAIN heap /\ h[n].children = <<>>
                    /\ h[n].parent = 0 /\ h[n].head = 0 /\ h[n].tail = 0

LEMMA Growing ==
  ASSUME ParserTypeOK, Between(heap, stack, Live), NEW h, NEW new, Fresh(h, new)
  PROVE  /\ Grown(h) /\ DOMAIN h \ freed = Live \cup new
         /\ Forest(h, Live \cup new, {1} \cup Held(stack) \cup new)
         /\ Lists(h, Live)
         /\ (\A n \in new : h[n].kind # "list") => Lists(h, Live \cup new)
<1>1. /\ h \in Seq(Node) /\ Len(heap) <= Len(h) /\ DOMAIN h = DOMAIN heap \cup new
      /\ \A n \in DOMAIN heap : h[n] = heap[n]
      /\ new \cap DOMAIN heap = {}
      /\ \A n \in new : h[n].children = <<>> /\ h[n].parent = 0 /\ h[n].head = 0 /\ h[n].tail = 0
  BY DEF Fresh
<1>2. /\ Pointers(heap) /\ heap \in Seq(Node) /\ Len(heap) \in Nat /\ freed \subseteq DOMAIN heap
      /\ Live = DOMAIN heap \ freed
  BY Typed
<1>3. Len(h) \in Nat
  BY <1>1
<1>4. Grown(h)
  <2>1. ASSUME NEW n \in DOMAIN h
        PROVE  /\ h[n].parent \in 0 .. Len(h) /\ h[n].head \in 0 .. Len(h) /\ h[n].tail \in 0 .. Len(h)
               /\ Range(h[n].children) \subseteq 0 .. Len(h)
    <3>1. 0 .. Len(heap) \subseteq 0 .. Len(h) /\ 0 \in 0 .. Len(h)
      BY <1>1, <1>2, <1>3
    <3>2. CASE n \in DOMAIN heap
      <4>1. h[n] = heap[n]
        BY <1>1, <3>2
      <4> QED BY <1>2, <3>1, <3>2, <4>1 DEF Pointers
    <3>3. CASE n \in new
      BY <1>1, <3>1, <3>3, SmallRanges
    <3> QED BY <1>1, <3>2, <3>3
  <2> QED BY <1>1, <2>1 DEF Grown, Pointers
<1>5. DOMAIN h \ freed = Live \cup new
  BY <1>1, <1>2
<1>6. Forest(heap, Live, {1} \cup Held(stack)) /\ Lists(heap, Live) /\ Live \subseteq DOMAIN heap
  BY DEF Between, Forest
<1>7. Forest(h, Live \cup new, {1} \cup Held(stack) \cup new)
  BY <1>1, <1>6, Planting
<1>8. Lists(h, Live)
  <2>1. Closed(heap, Live)
    BY <1>6 DEF Forest, Closed
  <2> QED BY <1>1, <1>2, <1>6, <2>1, ListsStay
<1>9. (\A n \in new : h[n].kind # "list") => Lists(h, Live \cup new)
  BY <1>8 DEF Lists
<1> QED BY <1>4, <1>5, <1>7, <1>8, <1>9

LEMMA Making ==
  ASSUME ParserTypeOK, at < Len(input), NEW kind \in Kinds
  PROVE  /\ Fresh(Made(kind), {New}) /\ Made(kind)[New].kind = kind
         /\ New \in Nat /\ New \notin DOMAIN heap /\ New # 0
<1>1. heap \in Seq(Node) /\ Len(heap) \in Nat /\ DOMAIN heap = 1 .. Len(heap) /\ Token \in Reduction
  BY Typed
<1> DEFINE e == NewNode(kind, Token.name, Token.op, Token.type)
<1>2. /\ e \in Node /\ e.children = <<>> /\ e.parent = 0 /\ e.head = 0 /\ e.tail = 0 /\ e.kind = kind
  <2>1. Token.name \in MaybeName /\ Token.op \in MaybeName /\ Token.type \in MaybeType
    BY <1>1 DEF Reduction, MaybeName
  <2>2. <<>> \in Seq(Nat)
    BY EmptySeq
  <2> QED BY <2>1, <2>2 DEF NewNode, Node
<1> HIDE DEF e
<1>3. PICK h : h = Append(heap, e)
  OBVIOUS
<1>4. h \in Seq(Node) /\ Len(h) = Len(heap) + 1 /\ (\A n \in 1 .. Len(heap) : h[n] = heap[n]) /\ h[Len(heap) + 1] = e
  BY <1>1, <1>2, <1>3, AppendProperties
<1>5. DOMAIN h = DOMAIN heap \cup {New} /\ New \notin DOMAIN heap /\ New \in Nat /\ Len(heap) <= Len(h)
  <2>1. DOMAIN h = 1 .. Len(heap) + 1
    BY <1>4
  <2> QED BY <1>1, <1>4, <2>1 DEF New
<1>6. h[New] = e
  BY <1>4 DEF New
<1>7. Fresh(h, {New})
  BY <1>1, <1>2, <1>4, <1>5, <1>6 DEF Fresh
<1>8. h = Made(kind)
  BY <1>3 DEF Made, e
<1> QED BY <1>1, <1>2, <1>5, <1>6, <1>7, <1>8 DEF New

\* g is h after trees of roots were hung up, with the roots that are left.
Hung(h, live, g, roots) ==
  /\ Pointers(g) /\ Len(g) = Len(h) /\ DOMAIN g = DOMAIN h
  /\ Forest(g, live, roots) /\ Lists(g, live)
  /\ \A n \in DOMAIN h : g[n].kind = h[n].kind /\ (n \notin live => g[n] = h[n])

\* A node that is no list gets children by add_child.
LEMMA Adopting ==
  ASSUME NEW h, Pointers(h), NEW live, NEW roots, Forest(h, live, roots), Lists(h, live),
         NEW p \in live, h[p].kind # "list",
         NEW cs \in Seq(Nat), Injective(cs), Range(cs) \subseteq roots,
         Above(h, live, roots, p, roots \ Range(cs))
  PROVE  /\ Hung(h, live, AddChildren(h, p, cs), roots \ Range(cs))
         /\ AddChildren(h, p, cs)[p].children = h[p].children \o cs
<1>1. h \in Seq(Node) /\ live \subseteq DOMAIN h /\ Closed(h, live) /\ roots \subseteq live
  BY DEF Pointers, Forest, Closed
<1>2. p \in Nat /\ p \in 1 .. Len(h) /\ DOMAIN h = 1 .. Len(h) /\ Len(h) \in Nat
  BY <1>1, HeapNode
<1>3. PICK g : g = AddChildren(h, p, cs)
  OBVIOUS
<1>4. Added(h, p, cs, g)
  BY <1>1, <1>2, <1>3, Adding
<1>5. /\ g \in Seq(Node) /\ Len(g) = Len(h) /\ DOMAIN g = DOMAIN h
      /\ \A n \in DOMAIN h :
           /\ g[n].kind = h[n].kind /\ g[n].head = h[n].head /\ g[n].tail = h[n].tail
           /\ g[n].parent = IF n \in Range(cs) THEN p ELSE h[n].parent
           /\ g[n].children = IF n = p THEN h[n].children \o cs ELSE h[n].children
           /\ n # p /\ n \notin Range(cs) => g[n] = h[n]
  BY <1>4 DEF Added
<1>6. h[p].children \in Seq(Nat) /\ g[p].children = h[p].children \o cs
  BY <1>1, <1>5, HeapNode
<1>7. Range(g[p].children) = Range(h[p].children) \cup Range(cs)
  BY <1>6, RangeConcatenation
<1>8. \A i, j \in DOMAIN g[p].children : g[p].children[i] = g[p].children[j] => i = j
  <2> DEFINE s == h[p].children
             n == Len(s)
  <2>1. s \in Seq(Nat) /\ n \in Nat /\ Len(cs) \in Nat /\ DOMAIN s = 1 .. n /\ DOMAIN cs = 1 .. Len(cs)
    BY <1>6
  <2>2. /\ Len(s \o cs) = n + Len(cs) /\ s \o cs \in Seq(Nat)
        /\ \A i \in 1 .. n + Len(cs) : (s \o cs)[i] = IF i <= n THEN s[i] ELSE cs[i - n]
    BY <2>1, ConcatProperties
  <2>3. Range(s) \cap Range(cs) = {}
    BY <1>1 DEF Forest
  <2>4. \A i, j \in DOMAIN s : s[i] = s[j] => i = j
    BY DEF Forest
  <2> HIDE DEF s
  <2>5. \A i \in DOMAIN s : s[i] \in Range(s)
    BY DEF Range
  <2>6. \A i \in DOMAIN cs : cs[i] \in Range(cs)
    BY DEF Range
  <2> SUFFICES ASSUME NEW i \in 1 .. n + Len(cs), NEW j \in 1 .. n + Len(cs), (s \o cs)[i] = (s \o cs)[j]
               PROVE  i = j
    <3>1. DOMAIN (s \o cs) = 1 .. n + Len(cs)
      BY <2>2
    <3> QED BY <1>6, <3>1 DEF s
  <2> HIDE DEF n
  <2>7. i \in Nat /\ j \in Nat /\ (i <= n => i \in DOMAIN s) /\ (j <= n => j \in DOMAIN s)
        /\ (~(i <= n) => i - n \in DOMAIN cs) /\ (~(j <= n) => j - n \in DOMAIN cs)
    BY <2>1
  <2>8. CASE i <= n /\ j <= n
    BY <2>2, <2>4, <2>7, <2>8
  <2>9. CASE i <= n /\ ~(j <= n)
    <3>1. s[i] \in Range(s) /\ cs[j - n] \in Range(cs) /\ s[i] = cs[j - n]
      BY <2>2, <2>5, <2>6, <2>7, <2>9
    <3> QED BY <2>3, <3>1
  <2>10. CASE ~(i <= n) /\ j <= n
    <3>1. s[j] \in Range(s) /\ cs[i - n] \in Range(cs) /\ s[j] = cs[i - n]
      BY <2>2, <2>5, <2>6, <2>7, <2>10
    <3> QED BY <2>3, <3>1
  <2>11. CASE ~(i <= n) /\ ~(j <= n)
    <3>1. cs[i - n] = cs[j - n]
      BY <2>2, <2>11
    <3>2. i - n = j - n
      BY <2>7, <2>11, <3>1 DEF Injective
    <3> QED BY <2>1, <2>7, <3>2
  <2> QED BY <2>8, <2>9, <2>10, <2>11
<1>9. Linked(h, live, p, Range(cs), g)
  BY <1>1, <1>5, <1>7, <1>8 DEF Linked
<1>10. Forest(g, live, roots \ Range(cs))
  BY <1>9, Linking
<1>11. Lists(g, live)
  <2>1. \A n \in live : g[n].kind = h[n].kind /\ g[n].head = h[n].head /\ g[n].tail = h[n].tail
    BY <1>1, <1>5
  <2>2. \A n \in live : h[n].kind = "list" => g[n].children = h[n].children
    BY <1>1, <1>5
  <2> QED BY <1>1, <2>1, <2>2, ListsStay
<1>12. Pointers(g)
  <2> SUFFICES ASSUME NEW n \in DOMAIN g
               PROVE  /\ g[n].parent \in 0 .. Len(g) /\ g[n].head \in 0 .. Len(g) /\ g[n].tail \in 0 .. Len(g)
                      /\ Range(g[n].children) \subseteq 0 .. Len(g)
    BY <1>5 DEF Pointers
  <2>1. /\ h[n].parent \in 0 .. Len(h) /\ h[n].head \in 0 .. Len(h) /\ h[n].tail \in 0 .. Len(h)
        /\ Range(h[n].children) \subseteq 0 .. Len(h)
    BY <1>5 DEF Pointers
  <2>2. p \in 0 .. Len(h) /\ Range(cs) \subseteq 0 .. Len(h)
    <3>1. 1 .. Len(h) \subseteq 0 .. Len(h)
      BY <1>2
    <3>2. Range(cs) \subseteq 1 .. Len(h) /\ p \in 1 .. Len(h)
      BY <1>1, <1>2
    <3> QED BY <3>1, <3>2
  <2>3. Range(g[n].children) \subseteq 0 .. Len(g)
    BY <1>5, <1>7, <2>1, <2>2
  <2> QED BY <1>5, <2>1, <2>2, <2>3
<1>13. \A n \in DOMAIN h : g[n].kind = h[n].kind /\ (n \notin live => g[n] = h[n])
  BY <1>1, <1>5
<1>14. Hung(h, live, g, roots \ Range(cs))
  BY <1>5, <1>10, <1>11, <1>12, <1>13 DEF Hung
<1> QED BY <1>3, <1>6, <1>14

\* The children of a new node are the values it replaces.
LEMMA Building ==
  ASSUME ParserInv, status = "parsing", at < Len(input),
         NEW k \in 0 .. Len(stack), NEW symbol \in Symbols \ {"formals", "expressions"},
         NEW kind \in Kinds, kind # "list", symbol = "body" => kind = "function_body",
         NEW kids \in Seq(Nat), Injective(kids), Range(kids) = Popped(stack, k),
         Build(symbol, kind, k, kids)
  PROVE  ParserInv'
<1>1. ParserTypeOK /\ Between(heap, stack, Live)
  BY DEF ParserInv
<1>2. /\ Pointers(heap) /\ heap \in Seq(Node) /\ DOMAIN heap = 1 .. Len(heap) /\ Len(heap) \in Nat
      /\ stack \in Seq(Entry) /\ Held(stack) \subseteq DOMAIN heap
      /\ freed \subseteq DOMAIN heap /\ Live = DOMAIN heap \ freed
  BY <1>1, Typed
<1>3. 1 \notin Held(stack) /\ 1 \in Live /\ Held(stack) \subseteq Live
  BY <1>1 DEF Between, Forest
<1>4. Popped(stack, k) \subseteq Held(stack)
  <2>1. Cut(stack, k, SubSeq(stack, 1, Len(stack) - k))
    BY <1>1, <1>2, Popping DEF Between
  <2> QED BY <2>1 DEF Cut
<1>5. PICK m : m = Made(kind)
  OBVIOUS
<1>6. Fresh(m, {New}) /\ m[New].kind = kind /\ New \in Nat /\ New \notin DOMAIN heap
  BY <1>1, <1>5, Making
<1> DEFINE live == Live \cup {New}
           roots == {1} \cup Held(stack) \cup {New}
<1>7. /\ Grown(m) /\ DOMAIN m \ freed = live /\ Forest(m, live, roots) /\ Lists(m, live)
  BY <1>1, <1>6, Growing
<1>8. Pointers(m) /\ m[New].children = <<>> /\ DOMAIN m = DOMAIN heap \cup {New} /\ \A n \in DOMAIN heap : m[n] = heap[n]
  BY <1>6, <1>7 DEF Grown, Fresh
<1>9. Range(kids) \subseteq roots /\ New \in roots \ Range(kids)
  BY <1>2, <1>4, <1>6
<1>10. PICK g : g = AddChildren(m, New, kids)
  OBVIOUS
<1>11. Hung(m, live, g, roots \ Range(kids))
  BY <1>6, <1>7, <1>8, <1>9, <1>10, Adopting, RootIsAbove
<1>12. /\ Pointers(g) /\ Len(g) = Len(m) /\ DOMAIN g = DOMAIN m
       /\ Forest(g, live, roots \ Range(kids)) /\ Lists(g, live)
       /\ \A n \in DOMAIN m : g[n].kind = m[n].kind /\ (n \notin live => g[n] = m[n])
  BY <1>11 DEF Hung
<1>13. roots \ Range(kids) = Remaining(k) \cup Range(<<New>>)
  BY <1>2, <1>3, <1>4, <1>6, SmallRanges DEF Remaining
<1>14. Grown(g)
  BY <1>7, <1>8, <1>12 DEF Grown
<1>15. Clean(g, {}, g)
  BY <1>2, <1>6, <1>8, <1>12 DEF Clean
<1>16. (DOMAIN g \ freed) \ {} = live
  BY <1>7, <1>12
<1>17. <<New>> \in Seq(Nat) /\ Injective(<<New>>) /\ Len(<<New>>) = 1 /\ <<New>>[1] = New
  BY <1>6 DEF Injective
<1>18. Range(<<New>>) \cap Remaining(k) = {}
  BY <1>2, <1>3, <1>6, SmallRanges DEF Remaining
<1>19. Fits(g, [symbol |-> symbol, nodes |-> <<New>>])
  BY <1>6, <1>8, <1>12, <1>17 DEF Fits
<1>20. ReduceThen(k, symbol, <<New>>, g, {}, g)
  BY <1>5, <1>10 DEF Build, Reduce
<1> HIDE DEF live, roots
<1> QED BY <1>12, <1>13, <1>14, <1>15, <1>16, <1>17, <1>18, <1>19, <1>20, Reducing

-----------------------------------------------------------------------------
(* The values a production reads                                           *)

LEMMA SmallSequences ==
  /\ <<>> \in Seq(Nat) /\ Injective(<<>>) /\ Range(<<>>) = {}
  /\ \A a \in Nat : <<a>> \in Seq(Nat) /\ Injective(<<a>>) /\ Range(<<a>>) = {a}
<1>1. <<>> \in Seq(Nat) /\ Injective(<<>>) /\ Range(<<>>) = {}
  BY EmptySeq, SmallRanges DEF Injective
<1>2. ASSUME NEW a \in Nat PROVE <<a>> \in Seq(Nat) /\ Injective(<<a>>) /\ Range(<<a>>) = {a}
  BY SmallRanges DEF Injective
<1> QED BY <1>1, <1>2

LEMMA Pairs ==
  ASSUME NEW a \in Nat, NEW b \in Nat, a # b
  PROVE  <<a, b>> \in Seq(Nat) /\ Injective(<<a, b>>) /\ Range(<<a, b>>) = {a, b}
<1>1. PICK s : s = <<a, b>>
  OBVIOUS
<1>2. s \in Seq(Nat) /\ DOMAIN s = {1, 2} /\ s[1] = a /\ s[2] = b
  <2>1. DOMAIN s = 1 .. 2 /\ 1 .. 2 = {1, 2}
    BY <1>1
  <2> QED BY <1>1, <2>1
<1>3. Injective(s) /\ Range(s) = {a, b}
  BY <1>2 DEF Injective, Range
<1> QED BY <1>1, <1>2, <1>3

LEMMA Triples ==
  ASSUME NEW a \in Nat, NEW b \in Nat, NEW c \in Nat, a # b, b # c, a # c
  PROVE  <<a, b, c>> \in Seq(Nat) /\ Injective(<<a, b, c>>) /\ Range(<<a, b, c>>) = {a, b, c}
<1>1. PICK s : s = <<a, b, c>>
  OBVIOUS
<1>2. s \in Seq(Nat) /\ DOMAIN s = {1, 2, 3} /\ s[1] = a /\ s[2] = b /\ s[3] = c
  <2>1. DOMAIN s = 1 .. 3 /\ 1 .. 3 = {1, 2, 3}
    BY <1>1
  <2> QED BY <1>1, <2>1
<1>3. Injective(s) /\ Range(s) = {a, b, c}
  BY <1>2 DEF Injective, Range
<1> QED BY <1>1, <1>2, <1>3

\* The i-th value from the top is that of a symbol a.
Value(i, a) ==
  /\ Top(i).nodes \in Seq(Nat) /\ Injective(Top(i).nodes) /\ Range(Top(i).nodes) \subseteq Held(stack)
  /\ a # "formals" => /\ Top(i).nodes = <<NodeAt(i)>> /\ Range(Top(i).nodes) = {NodeAt(i)}
                      /\ NodeAt(i) \in Held(stack) /\ NodeAt(i) \in Nat
  /\ a = "expressions" => heap[NodeAt(i)].kind = "list"
  /\ a = "body" => heap[NodeAt(i)].kind = "function_body"

LEMMA ValueOfSymbol ==
  ASSUME ParserTypeOK, Between(heap, stack, Live), NEW i, NEW j \in DOMAIN stack, j = Len(stack) + 1 - i,
         NEW a, stack[j].symbol = a
  PROVE  Value(i, a)
<1>1. stack \in Seq(Entry) /\ Distinct(stack) /\ Fit(heap, stack) /\ Top(i) = stack[j] /\ NodeAt(i) = stack[j].nodes[1]
  BY DEF Between, Top, NodeAt
<1>2. Top(i).nodes \in Seq(Nat) /\ Injective(Top(i).nodes)
  BY <1>1, EntryFields, NodesDiffer
<1>3. Range(Top(i).nodes) \subseteq Held(stack)
  BY <1>1 DEF Held
<1>4. a # "formals" => /\ Top(i).nodes = <<NodeAt(i)>> /\ Range(Top(i).nodes) = {NodeAt(i)}
                       /\ NodeAt(i) \in Held(stack) /\ NodeAt(i) \in Nat
  BY <1>1, OneNode
<1>5. /\ a = "expressions" => heap[NodeAt(i)].kind = "list"
      /\ a = "body" => heap[NodeAt(i)].kind = "function_body"
  BY <1>1 DEF Fit, Fits
<1> QED BY <1>2, <1>3, <1>4, <1>5 DEF Value

LEMMA NoValue ==
  ASSUME ParserInv, NEW rules, NEW symbols, Reading(rules, symbols)
  PROVE  /\ status = "parsing" /\ at < Len(input) /\ Token.rule \in rules
         /\ ParserTypeOK /\ Between(heap, stack, Live)
         /\ Len(stack) \in Nat /\ 0 \in 0 .. Len(stack) /\ Popped(stack, 0) = {}
<1>1. ParserTypeOK /\ status = "parsing" /\ at < Len(input) /\ Token.rule \in rules
  BY DEF ParserInv, Reading
<1>2. Between(heap, stack, Live)
  BY <1>1 DEF ParserInv
<1>3. stack \in Seq(Entry) /\ Len(stack) \in Nat /\ 0 \in 0 .. Len(stack)
  BY <1>1, Typed
<1> QED BY <1>1, <1>2, <1>3, LastSymbols

LEMMA OneValue ==
  ASSUME ParserInv, NEW rules, NEW a, Reading(rules, <<a>>)
  PROVE  1 \in 0 .. Len(stack) /\ Value(1, a) /\ Popped(stack, 1) = Range(Top(1).nodes)
<1> DEFINE n == Len(stack)
<1>1. ParserTypeOK /\ Between(heap, stack, Live) /\ stack \in Seq(Entry) /\ n \in Nat /\ DOMAIN stack = 1 .. n
  BY NoValue, Typed
<1>2. 1 <= n /\ \A i \in 1 .. 1 : stack[n - 1 + i].symbol = <<a>>[i]
  BY DEF Reading
<1>3. 1 \in 0 .. n /\ n \in DOMAIN stack /\ n + 1 - 1 = n /\ n >= 1
  BY <1>1, <1>2
<1>4. stack[n].symbol = a
  <2>1. stack[n - 1 + 1].symbol = <<a>>[1]
    BY <1>2
  <2> QED BY <1>1, <2>1
<1>5. Top(1) = stack[n]
  BY <1>3 DEF Top
<1>6. Popped(stack, 1) = Range(stack[n].nodes)
  BY <1>1, <1>3, LastSymbols
<1>7. Value(1, a)
  BY <1>1, <1>3, <1>4, ValueOfSymbol
<1> QED BY <1>3, <1>5, <1>6, <1>7

LEMMA TwoValues ==
  ASSUME ParserInv, NEW rules, NEW a, NEW b, Reading(rules, <<a, b>>)
  PROVE  /\ 2 \in 0 .. Len(stack) /\ Value(2, a) /\ Value(1, b)
         /\ Popped(stack, 2) = Range(Top(2).nodes) \cup Range(Top(1).nodes)
         /\ Range(Top(2).nodes) \cap Range(Top(1).nodes) = {}
<1> DEFINE n == Len(stack)
<1>1. ParserTypeOK /\ Between(heap, stack, Live) /\ stack \in Seq(Entry) /\ n \in Nat /\ DOMAIN stack = 1 .. n
  BY NoValue, Typed
<1>2. 2 <= n /\ \A i \in 1 .. 2 : stack[n - 2 + i].symbol = <<a, b>>[i]
  BY DEF Reading
<1>3. 2 \in 0 .. n /\ n \in DOMAIN stack /\ n - 1 \in DOMAIN stack /\ n + 1 - 1 = n /\ n + 1 - 2 = n - 1
      /\ n >= 2 /\ n # n - 1
  <2>1. n \in Nat /\ 2 <= n
    BY <1>1, <1>2
  <2> HIDE DEF n
  <2>2. 2 \in 0 .. n /\ n \in 1 .. n /\ n - 1 \in 1 .. n /\ n + 1 - 1 = n /\ n + 1 - 2 = n - 1
        /\ n >= 2 /\ n # n - 1
    BY <2>1
  <2> QED BY <1>1, <2>2
<1>4. stack[n - 1].symbol = a /\ stack[n].symbol = b
  <2>1. stack[n - 2 + 1].symbol = <<a, b>>[1] /\ stack[n - 2 + 2].symbol = <<a, b>>[2]
    BY <1>2
  <2>2. n - 2 + 1 = n - 1 /\ n - 2 + 2 = n
    BY <1>1
  <2> HIDE DEF n
  <2> QED BY <2>1, <2>2
<1>5. Top(1) = stack[n] /\ Top(2) = stack[n - 1]
  BY <1>3 DEF Top
<1>6. Popped(stack, 2) = Range(stack[n - 1].nodes) \cup Range(stack[n].nodes)
  BY <1>1, <1>3, LastSymbols
<1>7. Value(1, b)
  BY <1>1, <1>3, <1>4, ValueOfSymbol
<1>8. Value(2, a)
  BY <1>1, <1>3, <1>4, ValueOfSymbol
<1>9. Range(stack[n - 1].nodes) \cap Range(stack[n].nodes) = {}
  BY <1>1, <1>3, OtherNode DEF Between
<1> QED BY <1>3, <1>5, <1>6, <1>7, <1>8, <1>9

LEMMA ThreeValues ==
  ASSUME ParserInv, NEW rules, NEW a, NEW b, NEW c, Reading(rules, <<a, b, c>>)
  PROVE  /\ 3 \in 0 .. Len(stack) /\ Value(3, a) /\ Value(2, b) /\ Value(1, c)
         /\ Popped(stack, 3) = Range(Top(3).nodes) \cup Range(Top(2).nodes) \cup Range(Top(1).nodes)
         /\ Range(Top(3).nodes) \cap Range(Top(2).nodes) = {}
         /\ Range(Top(3).nodes) \cap Range(Top(1).nodes) = {}
         /\ Range(Top(2).nodes) \cap Range(Top(1).nodes) = {}
<1> DEFINE n == Len(stack)
<1>1. ParserTypeOK /\ Between(heap, stack, Live) /\ stack \in Seq(Entry) /\ n \in Nat /\ DOMAIN stack = 1 .. n
  BY NoValue, Typed
<1>2. 3 <= n /\ \A i \in 1 .. 3 : stack[n - 3 + i].symbol = <<a, b, c>>[i]
  BY DEF Reading
<1>3. 3 \in 0 .. n /\ n \in DOMAIN stack /\ n - 1 \in DOMAIN stack /\ n - 2 \in DOMAIN stack
      /\ n + 1 - 1 = n /\ n + 1 - 2 = n - 1 /\ n + 1 - 3 = n - 2
      /\ n >= 3 /\ n # n - 1 /\ n # n - 2 /\ n - 1 # n - 2
  <2>1. n \in Nat /\ 3 <= n
    BY <1>1, <1>2
  <2> HIDE DEF n
  <2>2. 3 \in 0 .. n /\ n \in 1 .. n /\ n - 1 \in 1 .. n /\ n - 2 \in 1 .. n
        /\ n + 1 - 1 = n /\ n + 1 - 2 = n - 1 /\ n + 1 - 3 = n - 2
        /\ n >= 3 /\ n # n - 1 /\ n # n - 2 /\ n - 1 # n - 2
    BY <2>1
  <2> QED BY <1>1, <2>2
<1>4. stack[n - 2].symbol = a /\ stack[n - 1].symbol = b /\ stack[n].symbol = c
  <2>1. /\ stack[n - 3 + 1].symbol = <<a, b, c>>[1] /\ stack[n - 3 + 2].symbol = <<a, b, c>>[2]
        /\ stack[n - 3 + 3].symbol = <<a, b, c>>[3]
    BY <1>2
  <2>2. n - 3 + 1 = n - 2 /\ n - 3 + 2 = n - 1 /\ n - 3 + 3 = n
    BY <1>1
  <2> HIDE DEF n
  <2> QED BY <2>1, <2>2
<1>5. Top(1) = stack[n] /\ Top(2) = stack[n - 1] /\ Top(3) = stack[n - 2]
  BY <1>3 DEF Top
<1>6. Popped(stack, 3) = Range(stack[n - 2].nodes) \cup Range(stack[n - 1].nodes) \cup Range(stack[n].nodes)
  BY <1>1, <1>3, LastSymbols
<1>7. Value(1, c)
  BY <1>1, <1>3, <1>4, ValueOfSymbol
<1>8. Value(2, b)
  BY <1>1, <1>3, <1>4, ValueOfSymbol
<1>9. Value(3, a)
  BY <1>1, <1>3, <1>4, ValueOfSymbol
<1>10. Distinct(stack)
  BY <1>1 DEF Between
<1>11. Range(stack[n - 2].nodes) \cap Range(stack[n - 1].nodes) = {}
  BY <1>1, <1>3, <1>10, OtherNode
<1>12. Range(stack[n - 2].nodes) \cap Range(stack[n].nodes) = {}
  BY <1>1, <1>3, <1>10, OtherNode
<1>13. Range(stack[n - 1].nodes) \cap Range(stack[n].nodes) = {}
  BY <1>1, <1>3, <1>10, OtherNode
<1> QED BY <1>3, <1>5, <1>6, <1>7, <1>8, <1>9, <1>11, <1>12, <1>13

-----------------------------------------------------------------------------
(* Actions that build a node                                               *)

LEMMA SimpleExpressionKeeps ==
  ASSUME ParserInv, SimpleExpression
  PROVE  ParserInv'
<1>1. Reading({"literal", "variable"}, <<>>) /\ Build("expression", Token.rule, 0, <<>>)
  BY DEF SimpleExpression
<1>2. /\ status = "parsing" /\ at < Len(input) /\ Token.rule \in {"literal", "variable"}
      /\ 0 \in 0 .. Len(stack) /\ Popped(stack, 0) = {}
  BY <1>1, NoValue
<1>3. Token.rule \in Kinds /\ Token.rule # "list"
  BY <1>2 DEF Kinds
<1>4. "expression" \in Symbols \ {"formals", "expressions"}
  BY DEF Symbols
<1> QED BY <1>1, <1>2, <1>3, <1>4, Building, SmallSequences

\* An expression or a definition takes the place of one, two or three values.
LEMMA BuildingOverOne ==
  ASSUME ParserInv, NEW rules, NEW a, a # "formals", Reading(rules, <<a>>),
         NEW symbol \in {"expression", "definition", "body"}, NEW kind \in Kinds, kind # "list",
         symbol = "body" => kind = "function_body",
         Build(symbol, kind, 1, <<NodeAt(1)>>)
  PROVE  ParserInv'
<1>1. status = "parsing" /\ at < Len(input)
  BY NoValue
<1>2. 1 \in 0 .. Len(stack) /\ Value(1, a) /\ Popped(stack, 1) = Range(Top(1).nodes)
  BY OneValue
<1>3. NodeAt(1) \in Nat /\ Popped(stack, 1) = {NodeAt(1)}
  BY <1>2 DEF Value
<1>4. symbol \in Symbols \ {"formals", "expressions"}
  BY DEF Symbols
<1> QED BY <1>1, <1>2, <1>3, <1>4, Building, SmallSequences

LEMMA BuildingOverTwo ==
  ASSUME ParserInv, NEW rules, NEW a, NEW b, a # "formals", b # "formals", Reading(rules, <<a, b>>),
         NEW kind \in Kinds, kind # "list",
         Build("expression", kind, 2, <<NodeAt(2), NodeAt(1)>>)
  PROVE  ParserInv'
<1>1. status = "parsing" /\ at < Len(input)
  BY NoValue
<1>2. /\ 2 \in 0 .. Len(stack) /\ Value(2, a) /\ Value(1, b)
      /\ Popped(stack, 2) = Range(Top(2).nodes) \cup Range(Top(1).nodes)
      /\ Range(Top(2).nodes) \cap Range(Top(1).nodes) = {}
  BY TwoValues
<1>3. /\ NodeAt(1) \in Nat /\ NodeAt(2) \in Nat /\ NodeAt(2) # NodeAt(1)
      /\ Popped(stack, 2) = {NodeAt(2), NodeAt(1)}
  BY <1>2 DEF Value
<1>4. "expression" \in Symbols \ {"formals", "expressions"}
  BY DEF Symbols
<1>5. PICK kids : kids = <<NodeAt(2), NodeAt(1)>>
  OBVIOUS
<1>6. kids \in Seq(Nat) /\ Injective(kids) /\ Range(kids) = Popped(stack, 2)
  BY <1>3, <1>5, Pairs
<1> QED BY <1>1, <1>2, <1>4, <1>5, <1>6, Building

LEMMA BuildingOverThree ==
  ASSUME ParserInv, NEW rules, NEW a, NEW b, NEW c, a # "formals", b # "formals", c # "formals",
         Reading(rules, <<a, b, c>>), NEW kind \in Kinds, kind # "list",
         Build("expression", kind, 3, <<NodeAt(3), NodeAt(2), NodeAt(1)>>)
  PROVE  ParserInv'
<1>1. status = "parsing" /\ at < Len(input)
  BY NoValue
<1>2. /\ 3 \in 0 .. Len(stack) /\ Value(3, a) /\ Value(2, b) /\ Value(1, c)
      /\ Popped(stack, 3) = Range(Top(3).nodes) \cup Range(Top(2).nodes) \cup Range(Top(1).nodes)
      /\ Range(Top(3).nodes) \cap Range(Top(2).nodes) = {}
      /\ Range(Top(3).nodes) \cap Range(Top(1).nodes) = {}
      /\ Range(Top(2).nodes) \cap Range(Top(1).nodes) = {}
  BY ThreeValues
<1>3. /\ NodeAt(1) \in Nat /\ NodeAt(2) \in Nat /\ NodeAt(3) \in Nat
      /\ Range(Top(3).nodes) = {NodeAt(3)} /\ Range(Top(2).nodes) = {NodeAt(2)} /\ Range(Top(1).nodes) = {NodeAt(1)}
  BY <1>2 DEF Value
<1>4. /\ NodeAt(3) # NodeAt(2) /\ NodeAt(2) # NodeAt(1) /\ NodeAt(3) # NodeAt(1)
      /\ Popped(stack, 3) = {NodeAt(3), NodeAt(2), NodeAt(1)}
  BY <1>2, <1>3
<1>5. "expression" \in Symbols \ {"formals", "expressions"}
  BY DEF Symbols
<1>6. PICK kids : kids = <<NodeAt(3), NodeAt(2), NodeAt(1)>>
  OBVIOUS
<1>7. kids \in Seq(Nat) /\ Injective(kids) /\ Range(kids) = Popped(stack, 3)
  <2>1. /\ kids \in Seq(Nat) /\ Injective(kids)
        /\ Range(kids) = {NodeAt(3), NodeAt(2), NodeAt(1)}
    BY <1>3, <1>4, <1>6, Triples
  <2> QED BY <1>4, <2>1
<1> QED BY <1>1, <1>2, <1>5, <1>6, <1>7, Building

LEMMA OperatorKeeps ==
  ASSUME ParserInv, Operator
  PROVE  ParserInv'
<1>1. CASE /\ Reading({"if_expr"}, <<"expression", "expression", "expression">>)
           /\ Build("expression", "if_expr", 3, <<NodeAt(3), NodeAt(2), NodeAt(1)>>)
  BY <1>1, BuildingOverThree DEF Kinds
<1>2. CASE /\ Reading({"binary_op"}, <<"expression", "expression">>)
           /\ Build("expression", "binary_op", 2, <<NodeAt(2), NodeAt(1)>>)
  BY <1>2, BuildingOverTwo DEF Kinds
<1>3. CASE /\ \/ Reading({"unary_op", "set_expression"}, <<"expression">>)
              \/ Reading({"list_op"}, <<"expressions">>)
           /\ Build("expression", Token.rule, 1, <<NodeAt(1)>>)
  <2>1. CASE Reading({"unary_op", "set_expression"}, <<"expression">>)
    <3>1. Token.rule \in {"unary_op", "set_expression"}
      BY <2>1, NoValue
    <3>2. Token.rule \in Kinds /\ Token.rule # "list"
      BY <3>1 DEF Kinds
    <3> QED BY <1>3, <2>1, <3>2, BuildingOverOne
  <2>2. CASE Reading({"list_op"}, <<"expressions">>)
    <3>1. Token.rule \in {"list_op"}
      BY <2>2, NoValue
    <3>2. Token.rule \in Kinds /\ Token.rule # "list"
      BY <3>1 DEF Kinds
    <3> QED BY <1>3, <2>2, <3>2, BuildingOverOne
  <2> QED BY <1>3, <2>1, <2>2
<1> QED BY <1>1, <1>2, <1>3 DEF Operator

LEMMA VariableDefinitionKeeps ==
  ASSUME ParserInv, VariableDefinition
  PROVE  ParserInv'
BY BuildingOverOne DEF VariableDefinition, Kinds

LEMMA InfiniteLoopKeeps ==
  ASSUME ParserInv, InfiniteLoop
  PROVE  ParserInv'
BY BuildingOverOne DEF InfiniteLoop, Kinds

LEMMA BuildingOverNone ==
  ASSUME ParserInv, NEW rules, Reading(rules, <<>>),
         NEW symbol \in {"expression", "definition", "formal"}, NEW kind \in Kinds, kind # "list",
         Build(symbol, kind, 0, <<>>)
  PROVE  ParserInv'
<1>1. status = "parsing" /\ at < Len(input) /\ 0 \in 0 .. Len(stack) /\ Popped(stack, 0) = {}
  BY NoValue
<1>2. symbol \in Symbols \ {"formals", "expressions"}
  BY DEF Symbols
<1> QED BY <1>1, <1>2, Building, SmallSequences

LEMMA Appending ==
  ASSUME NEW s \in Seq(Nat), Injective(s), NEW e \in Nat, e \notin Range(s)
  PROVE  Append(s, e) \in Seq(Nat) /\ Injective(Append(s, e)) /\ Range(Append(s, e)) = Range(s) \cup {e}
<1>1. PICK t : t = Append(s, e)
  OBVIOUS
<1>2. Len(s) \in Nat /\ DOMAIN s = 1 .. Len(s)
  OBVIOUS
<1> DEFINE n == Len(s) + 1
<1>3. t \in Seq(Nat) /\ Len(t) = n /\ (\A i \in 1 .. Len(s) : t[i] = s[i]) /\ t[n] = e
  BY <1>1, <1>2, AppendProperties
<1>4. DOMAIN t = DOMAIN s \cup {n} /\ n \notin DOMAIN s
  <2>1. DOMAIN t = 1 .. n
    BY <1>3
  <2> QED BY <1>2, <2>1
<1> HIDE DEF n
<1>5. Range(t) = Range(s) \cup {e}
  BY <1>2, <1>3, <1>4 DEF Range
<1>6. \A i \in DOMAIN s : t[i] = s[i] /\ t[i] \in Range(s)
  BY <1>2, <1>3 DEF Range
<1>7. Injective(t)
  BY <1>3, <1>4, <1>6 DEF Injective
<1> QED BY <1>1, <1>3, <1>5, <1>7

LEMMA FunctionDefinitionKeeps ==
  ASSUME ParserInv, FunctionDefinition
  PROVE  ParserInv'
<1>1. CASE /\ Reading({"no_formals"}, <<"body">>)
           /\ Build("definition", "function_definition", 1, <<NodeAt(1)>>)
  BY <1>1, BuildingOverOne DEF Kinds
<1>2. CASE /\ Reading({"function_definition", "lambda"}, <<"formals", "body">>)
           /\ Build(IF Token.rule = "lambda" THEN "expression" ELSE "definition",
                    Token.rule, 2, Append(Top(2).nodes, NodeAt(1)))
  <2> DEFINE s == Top(2).nodes
             b == NodeAt(1)
  <2>1. status = "parsing" /\ at < Len(input) /\ Token.rule \in {"function_definition", "lambda"}
    BY <1>2, NoValue
  <2>2. /\ 2 \in 0 .. Len(stack) /\ Value(2, "formals") /\ Value(1, "body")
        /\ Popped(stack, 2) = Range(Top(2).nodes) \cup Range(Top(1).nodes)
        /\ Range(Top(2).nodes) \cap Range(Top(1).nodes) = {}
    BY <1>2, TwoValues
  <2>3. /\ s \in Seq(Nat) /\ Injective(s) /\ b \in Nat /\ Popped(stack, 2) = Range(s) \cup {b} /\ b \notin Range(s)
    BY <2>2 DEF Value
  <2>4. PICK kids : kids = Append(s, b)
    OBVIOUS
  <2> HIDE DEF s, b
  <2>5. kids \in Seq(Nat) /\ Injective(kids) /\ Range(kids) = Range(s) \cup {b}
    BY <2>3, <2>4, Appending
  <2>6. PICK symbol : symbol = IF Token.rule = "lambda" THEN "expression" ELSE "definition"
    OBVIOUS
  <2>7. symbol \in Symbols \ {"formals", "expressions"} /\ symbol # "body"
    BY <2>6 DEF Symbols
  <2>8. Token.rule \in Kinds /\ Token.rule # "list"
    BY <2>1 DEF Kinds
  <2>9. Build(symbol, Token.rule, 2, kids)
    BY <1>2, <2>4, <2>6 DEF s, b
  <2> QED BY <2>1, <2>2, <2>3, <2>5, <2>7, <2>8, <2>9, Building
<1>3. CASE Reading({"no_extern_formals"}, <<>>) /\ Build("definition", "extern_function", 0, <<>>)
  BY <1>3, BuildingOverNone DEF Kinds
<1>4. CASE /\ Reading({"extern_function"}, <<"formals">>)
           /\ Build("definition", "extern_function", 1, Top(1).nodes)
  <2>1. status = "parsing" /\ at < Len(input)
    BY <1>4, NoValue
  <2>2. 1 \in 0 .. Len(stack) /\ Value(1, "formals") /\ Popped(stack, 1) = Range(Top(1).nodes)
    BY <1>4, OneValue
  <2>3. Top(1).nodes \in Seq(Nat) /\ Injective(Top(1).nodes)
    BY <2>2 DEF Value
  <2>4. /\ "definition" \in Symbols \ {"formals", "expressions"}
        /\ "extern_function" \in Kinds
    BY DEF Symbols, Kinds
  <2> QED BY <1>4, <2>1, <2>2, <2>3, <2>4, Building
<1> QED BY <1>1, <1>2, <1>3, <1>4 DEF FunctionDefinition

-----------------------------------------------------------------------------
(* Actions on the nodes that are there                                     *)

LEMMA PoppedIsHeld ==
  ASSUME ParserTypeOK, Between(heap, stack, Live), NEW k \in 0 .. Len(stack)
  PROVE  /\ Popped(stack, k) \subseteq Held(stack)
         /\ \A x \in Popped(stack, k) : x \notin Remaining(k)
         /\ {1} \cup Held(stack) = Remaining(k) \cup Popped(stack, k)
<1>1. stack \in Seq(Entry) /\ Distinct(stack) /\ 1 \notin Held(stack)
  BY Typed DEF Between
<1>2. Cut(stack, k, SubSeq(stack, 1, Len(stack) - k))
  BY <1>1, Popping
<1>3. Popped(stack, k) \subseteq Held(stack)
  BY <1>2 DEF Cut
<1> QED BY <1>1, <1>3 DEF Remaining

\* Trees were hung up, and k values make way for one of them.
LEMMA Moving ==
  ASSUME ParserInv, status = "parsing", at < Len(input),
         NEW k \in 0 .. Len(stack), NEW symbol \in Symbols, NEW v \in Seq(Nat), Injective(v),
         Range(v) \subseteq Popped(stack, k),
         NEW g, Hung(heap, Live, g, Remaining(k) \cup Range(v)), Reduce(k, symbol, v, g, {}),
         Fits(g, [symbol |-> symbol, nodes |-> v])
  PROVE  ParserInv'
<1>1. ParserTypeOK /\ Between(heap, stack, Live)
  BY DEF ParserInv
<1>2. Len(heap) \in Nat /\ freed \subseteq DOMAIN heap /\ Live = DOMAIN heap \ freed
  BY <1>1, Typed
<1>3. /\ Pointers(g) /\ Len(g) = Len(heap) /\ DOMAIN g = DOMAIN heap
      /\ Forest(g, Live, Remaining(k) \cup Range(v)) /\ Lists(g, Live)
      /\ \A n \in DOMAIN heap : g[n].kind = heap[n].kind /\ (n \notin Live => g[n] = heap[n])
  BY DEF Hung
<1>4. Grown(g) /\ Clean(g, {}, g)
  BY <1>2, <1>3 DEF Grown, Clean
<1>5. (DOMAIN g \ freed) \ {} = Live
  BY <1>2, <1>3
<1>6. Range(v) \cap Remaining(k) = {}
  BY <1>1, PoppedIsHeld
<1>7. ReduceThen(k, symbol, v, g, {}, g)
  BY DEF Reduce
<1> QED BY <1>3, <1>4, <1>5, <1>6, <1>7, Reducing

LEMMA Staying ==
  ASSUME ParserTypeOK, Between(heap, stack, Live)
  PROVE  Hung(heap, Live, heap, {1} \cup Held(stack))
BY DEF Hung, Between

LEMMA QuoteKeeps ==
  ASSUME ParserInv, Quote
  PROVE  ParserInv'
<1>1. Reading({"quote"}, <<"expressions">>) /\ Reduce(1, "expression", Top(1).nodes, heap, {})
  BY DEF Quote
<1>2. status = "parsing" /\ at < Len(input) /\ ParserTypeOK /\ Between(heap, stack, Live)
  BY <1>1, NoValue
<1>3. 1 \in 0 .. Len(stack) /\ Value(1, "expressions") /\ Popped(stack, 1) = Range(Top(1).nodes)
  BY <1>1, OneValue
<1>4. PICK v : v = Top(1).nodes
  OBVIOUS
<1>5. v \in Seq(Nat) /\ Injective(v) /\ Range(v) = Popped(stack, 1) /\ v = <<NodeAt(1)>>
  BY <1>3, <1>4 DEF Value
<1>6. Hung(heap, Live, heap, Remaining(1) \cup Range(v))
  <2>1. {1} \cup Held(stack) = Remaining(1) \cup Range(v)
    BY <1>2, <1>3, <1>5, PoppedIsHeld
  <2> QED BY <1>2, <2>1, Staying
<1>7. Fits(heap, [symbol |-> "expression", nodes |-> v])
  BY <1>5 DEF Fits
<1>8. "expression" \in Symbols
  BY DEF Symbols
<1> QED BY <1>1, <1>2, <1>3, <1>4, <1>5, <1>6, <1>7, <1>8, Moving

LEMMA ConcatOne ==
  ASSUME NEW s \in Seq(Nat), NEW e \in Nat
  PROVE  s \o <<e>> = Append(s, e)
OBVIOUS

LEMMA ConcatTwo ==
  ASSUME NEW a \in Nat, NEW b \in Nat
  PROVE  <<a>> \o <<b>> = <<a, b>>
<1>1. PICK s : s = <<a>>
  OBVIOUS
<1>2. PICK t : t = <<a, b>>
  OBVIOUS
<1>3. PICK u : u = s \o <<b>>
  OBVIOUS
<1>4. s \in Seq(Nat) /\ Len(s) = 1 /\ s[1] = a
  BY <1>1
<1>5. t \in Seq(Nat) /\ Len(t) = 2 /\ t[1] = a /\ t[2] = b
  BY <1>2
<1>6. u = Append(s, b)
  BY <1>3, <1>4, ConcatOne
<1>7. u \in Seq(Nat) /\ Len(u) = 2 /\ u[1] = a /\ u[2] = b
  <2>1. /\ Append(s, b) \in Seq(Nat) /\ Len(Append(s, b)) = Len(s) + 1
        /\ \A i \in 1 .. Len(s) : Append(s, b)[i] = s[i]
        /\ Append(s, b)[Len(s) + 1] = b
    <3>1. s \in Seq(Nat)
      BY <1>4
    <3> QED BY <3>1, AppendProperties
  <2>2. 1 \in 1 .. 1 /\ 1 + 1 = 2
    OBVIOUS
  <2> QED BY <1>4, <1>6, <2>1, <2>2
<1>8. \A i \in 1 .. 2 : u[i] = t[i]
  <2>1. \A i \in 1 .. 2 : i = 1 \/ i = 2
    OBVIOUS
  <2> QED BY <1>5, <1>7, <2>1
<1>9. u = t
  BY <1>5, <1>7, <1>8, SeqEqual
<1> QED BY <1>1, <1>2, <1>3, <1>9

LEMMA FormalsKeeps ==
  ASSUME ParserInv, Formals
  PROVE  ParserInv'
<1>0. "formals" \in Symbols
  BY DEF Symbols
<1>1. CASE Reading({"formal"}, <<>>) /\ Build("formal", "formal", 0, <<>>)
  BY <1>1, BuildingOverNone DEF Kinds
<1>2. CASE Reading({"formals"}, <<"formal">>) /\ Reduce(1, "formals", Top(1).nodes, heap, {})
  <2>1. status = "parsing" /\ at < Len(input) /\ ParserTypeOK /\ Between(heap, stack, Live)
    BY <1>2, NoValue
  <2>2. 1 \in 0 .. Len(stack) /\ Value(1, "formal") /\ Popped(stack, 1) = Range(Top(1).nodes)
    BY <1>2, OneValue
  <2>3. PICK v : v = Top(1).nodes
    OBVIOUS
  <2>4. v \in Seq(Nat) /\ Injective(v) /\ Range(v) = Popped(stack, 1)
    BY <2>2, <2>3 DEF Value
  <2>5. Hung(heap, Live, heap, Remaining(1) \cup Range(v))
    <3>1. {1} \cup Held(stack) = Remaining(1) \cup Range(v)
      BY <2>1, <2>2, <2>4, PoppedIsHeld
    <3> QED BY <2>1, <3>1, Staying
  <2>6. Fits(heap, [symbol |-> "formals", nodes |-> v])
    BY DEF Fits
  <2> QED BY <1>0, <1>2, <2>1, <2>2, <2>3, <2>4, <2>5, <2>6, Moving
<1>3. CASE /\ Reading({"more_formals"}, <<"formals", "formal">>)
           /\ Reduce(2, "formals", Top(2).nodes \o Top(1).nodes, heap, {})
  <2>1. status = "parsing" /\ at < Len(input) /\ ParserTypeOK /\ Between(heap, stack, Live)
    BY <1>3, NoValue
  <2>2. /\ 2 \in 0 .. Len(stack) /\ Value(2, "formals") /\ Value(1, "formal")
        /\ Popped(stack, 2) = Range(Top(2).nodes) \cup Range(Top(1).nodes)
        /\ Range(Top(2).nodes) \cap Range(Top(1).nodes) = {}
    BY <1>3, TwoValues
  <2> DEFINE s == Top(2).nodes
             e == NodeAt(1)
  <2>3. /\ s \in Seq(Nat) /\ Injective(s) /\ e \in Nat /\ Top(1).nodes = <<e>>
        /\ Popped(stack, 2) = Range(s) \cup {e} /\ e \notin Range(s)
    BY <2>2 DEF Value
  <2>4. PICK v : v = Top(2).nodes \o Top(1).nodes
    OBVIOUS
  <2>5. v = s \o <<e>>
    BY <2>3, <2>4
  <2> HIDE DEF s, e
  <2>6. v \in Seq(Nat) /\ Injective(v) /\ Range(v) = Popped(stack, 2)
    BY <2>3, <2>5, ConcatOne, Appending
  <2>7. Hung(heap, Live, heap, Remaining(2) \cup Range(v))
    <3>1. {1} \cup Held(stack) = Remaining(2) \cup Range(v)
      BY <2>1, <2>2, <2>6, PoppedIsHeld
    <3> QED BY <2>1, <3>1, Staying
  <2>8. Fits(heap, [symbol |-> "formals", nodes |-> v])
    BY DEF Fits
  <2> QED BY <1>0, <1>3, <2>1, <2>2, <2>4, <2>6, <2>7, <2>8, Moving
<1> QED BY <1>1, <1>2, <1>3 DEF Formals

\* A node that is no list gets a child by prepend_child.
LEMMA Prepending ==
  ASSUME NEW h, Pointers(h), NEW live, NEW roots, Forest(h, live, roots), Lists(h, live),
         NEW p \in roots, h[p].kind # "list", NEW c \in roots, c # p
  PROVE  Hung(h, live, PrependChild(h, p, c), roots \ {c})
<1>1. h \in Seq(Node) /\ live \subseteq DOMAIN h /\ Closed(h, live) /\ roots \subseteq live
  BY DEF Pointers, Forest, Closed
<1>2. p \in DOMAIN h /\ c \in DOMAIN h /\ p \in live /\ c \in live
  BY <1>1
<1>3. /\ p \in Nat /\ c \in Nat /\ p \in 1 .. Len(h) /\ c \in 1 .. Len(h) /\ DOMAIN h = 1 .. Len(h) /\ Len(h) \in Nat
      /\ h[p] \in Node /\ h[c] \in Node /\ h[p].children \in Seq(Nat)
  BY <1>1, <1>2, HeapNode
<1>4. PICK s : s = <<c>> \o h[p].children
  OBVIOUS
<1>5. s \in Seq(Nat) /\ Range(s) = {c} \cup Range(h[p].children)
  <2>1. PICK u : u = <<c>>
    OBVIOUS
  <2>2. u \in Seq(Nat) /\ Range(u) = {c}
    BY <1>3, <2>1, SmallSequences
  <2>3. s = u \o h[p].children
    BY <1>4, <2>1
  <2>4. s \in Seq(Nat)
    BY <1>3, <2>2, <2>3, ConcatProperties
  <2>5. Range(s) = Range(u) \cup Range(h[p].children)
    BY <1>3, <2>2, <2>3, RangeConcatenation
  <2> QED BY <2>2, <2>4, <2>5
<1> DEFINE a == [h[c] EXCEPT !.parent = p]
           b == [h[p] EXCEPT !.children = s]
<1>6. PICK g : g = PrependChild(h, p, c)
  OBVIOUS
<1>7. g = [h EXCEPT ![c] = a, ![p] = b]
  BY <1>2, <1>4, <1>6 DEF PrependChild
<1>8. /\ a \in Node /\ a.parent = p /\ a.children = h[c].children
      /\ a.kind = h[c].kind /\ a.head = h[c].head /\ a.tail = h[c].tail
  BY <1>3 DEF Node
<1>9. /\ b \in Node /\ b.children = s /\ b.parent = h[p].parent
      /\ b.kind = h[p].kind /\ b.head = h[p].head /\ b.tail = h[p].tail
  BY <1>3, <1>5 DEF Node
<1> HIDE DEF a, b
<1>10. /\ DOMAIN g = DOMAIN h /\ g[c] = a /\ g[p] = b
       /\ \A n \in DOMAIN h : n # c /\ n # p => g[n] = h[n]
  BY <1>2, <1>7
<1>11. g \in Seq(Node) /\ Len(g) = Len(h)
  BY <1>1, <1>3, <1>7, <1>8, <1>9, <1>10
<1>12. \A i, j \in DOMAIN g[p].children : g[p].children[i] = g[p].children[j] => i = j
  <2>1. g[p].children = s
    BY <1>9, <1>10
  <2> DEFINE t == h[p].children
             m == Len(t)
  <2>2. t \in Seq(Nat) /\ m \in Nat /\ DOMAIN t = 1 .. m
    BY <1>3
  <2>3. c \notin Range(t) /\ (\A i, j \in DOMAIN t : t[i] = t[j] => i = j)
    BY <1>1, <1>2 DEF Forest
  <2>4. Len(s) = 1 + m /\ s[1] = c /\ \A i \in 2 .. 1 + m : s[i] = t[i - 1]
    <3>1. <<c>> \in Seq(Nat) /\ Len(<<c>>) = 1 /\ <<c>>[1] = c
      BY <1>3
    <3>2. /\ Len(<<c>> \o t) = 1 + m
          /\ \A i \in 1 .. 1 + m : (<<c>> \o t)[i] = IF i <= 1 THEN <<c>>[i] ELSE t[i - 1]
      BY <2>2, <3>1, ConcatProperties
    <3> HIDE DEF m
    <3>3. 1 \in 1 .. 1 + m /\ \A i \in 2 .. 1 + m : i \in 1 .. 1 + m /\ ~(i <= 1)
      BY <2>2
    <3> QED BY <1>4, <3>1, <3>2, <3>3
  <2>5. \A i \in DOMAIN t : t[i] \in Range(t)
    BY DEF Range
  <2> HIDE DEF t
  <2>6. DOMAIN s = 1 .. 1 + m
    BY <1>5, <2>4
  <2> HIDE DEF m
  <2> SUFFICES ASSUME NEW i \in 1 .. 1 + m, NEW j \in 1 .. 1 + m, s[i] = s[j] PROVE i = j
    BY <2>1, <2>6
  <2>7. /\ i = 1 \/ (i \in 2 .. 1 + m /\ i - 1 \in DOMAIN t)
        /\ j = 1 \/ (j \in 2 .. 1 + m /\ j - 1 \in DOMAIN t)
    BY <2>2
  <2>8. CASE i = 1 /\ j = 1
    BY <2>8
  <2>9. CASE i = 1 /\ j # 1
    BY <2>3, <2>4, <2>5, <2>7, <2>9
  <2>10. CASE i # 1 /\ j = 1
    BY <2>3, <2>4, <2>5, <2>7, <2>10
  <2>11. CASE i # 1 /\ j # 1
    <3>1. i - 1 = j - 1
      BY <2>3, <2>4, <2>7, <2>11
    <3> QED BY <3>1, <2>2
  <2> QED BY <2>8, <2>9, <2>10, <2>11
<1>13. \A n \in DOMAIN h :
         /\ g[n].kind = h[n].kind /\ g[n].head = h[n].head /\ g[n].tail = h[n].tail
         /\ g[n].parent = IF n \in {c} THEN p ELSE h[n].parent
         /\ n # p => g[n].children = h[n].children
  <2> TAKE n \in DOMAIN h
  <2>1. CASE n = c
    BY <1>8, <1>10, <2>1
  <2>2. CASE n = p
    BY <1>9, <1>10, <2>2
  <2>3. CASE n # c /\ n # p
    BY <1>10, <2>3
  <2> QED BY <2>1, <2>2, <2>3
<1>14. Range(g[p].children) = Range(h[p].children) \cup {c}
  BY <1>5, <1>9, <1>10
<1>15. Linked(h, live, p, {c}, g)
  BY <1>1, <1>10, <1>12, <1>13, <1>14 DEF Linked
<1>16. Forest(g, live, roots \ {c})
  <2>1. Above(h, live, roots, p, roots \ {c})
    BY RootIsAbove
  <2> QED BY <1>2, <1>15, <2>1, Linking
<1>17. Lists(g, live)
  <2>1. \A n \in live : g[n].kind = h[n].kind /\ g[n].head = h[n].head /\ g[n].tail = h[n].tail
    BY <1>1, <1>13
  <2>2. \A n \in live : h[n].kind = "list" => g[n].children = h[n].children
    BY <1>1, <1>13
  <2> QED BY <1>1, <2>1, <2>2, ListsStay
<1>18. Pointers(g)
  <2> SUFFICES ASSUME NEW n \in DOMAIN h
               PROVE  /\ g[n].parent \in 0 .. Len(h) /\ g[n].head \in 0 .. Len(h) /\ g[n].tail \in 0 .. Len(h)
                      /\ Range(g[n].children) \subseteq 0 .. Len(h)
    BY <1>10, <1>11 DEF Pointers
  <2>1. /\ h[n].parent \in 0 .. Len(h) /\ h[n].head \in 0 .. Len(h) /\ h[n].tail \in 0 .. Len(h)
        /\ Range(h[n].children) \subseteq 0 .. Len(h)
    BY DEF Pointers
  <2>2. p \in 0 .. Len(h) /\ c \in 0 .. Len(h)
    BY <1>3
  <2>3. Range(g[n].children) \subseteq 0 .. Len(h)
    BY <1>13, <1>14, <2>1, <2>2
  <2> QED BY <1>13, <2>1, <2>2, <2>3
<1>19. \A n \in DOMAIN h : g[n].kind = h[n].kind /\ (n \notin live => g[n] = h[n])
  BY <1>2, <1>10, <1>13
<1> QED BY <1>6, <1>10, <1>11, <1>16, <1>17, <1>18, <1>19 DEF Hung

LEMMA BodyKeeps ==
  ASSUME ParserInv, Body
  PROVE  ParserInv'
<1>1. CASE Reading({"body"}, <<"expression">>) /\ Build("body", "function_body", 1, <<NodeAt(1)>>)
  BY <1>1, BuildingOverOne DEF Kinds
<1>2. CASE /\ \E s \in Statements : Reading({"stmt"}, <<s, "body">>)
           /\ Reduce(2, "body", Top(1).nodes, PrependChild(heap, NodeAt(1), NodeAt(2)), {})
  <2>1. PICK s \in Statements : Reading({"stmt"}, <<s, "body">>)
    BY <1>2
  <2>2. status = "parsing" /\ at < Len(input) /\ ParserTypeOK /\ Between(heap, stack, Live)
    BY <2>1, NoValue
  <2>3. /\ 2 \in 0 .. Len(stack) /\ Value(2, s) /\ Value(1, "body")
        /\ Popped(stack, 2) = Range(Top(2).nodes) \cup Range(Top(1).nodes)
        /\ Range(Top(2).nodes) \cap Range(Top(1).nodes) = {}
    BY <2>1, TwoValues
  <2> DEFINE p == NodeAt(1)
             c == NodeAt(2)
  <2>4. s # "formals"
    BY DEF Statements
  <2>5. /\ p \in Nat /\ p \in Held(stack) /\ c \in Held(stack) /\ c # p /\ Popped(stack, 2) = {c, p}
        /\ Top(1).nodes = <<p>> /\ heap[p].kind = "function_body"
    BY <2>3, <2>4 DEF Value
  <2>6. PICK g : g = PrependChild(heap, p, c)
    OBVIOUS
  <2> HIDE DEF p, c
  <2>7. /\ Pointers(heap) /\ Forest(heap, Live, {1} \cup Held(stack)) /\ Lists(heap, Live)
        /\ 1 \notin Held(stack) /\ p \in DOMAIN heap
    BY <2>2, <2>5, Typed DEF Between
  <2>8. heap[p].kind # "list" /\ p \in {1} \cup Held(stack) /\ c \in {1} \cup Held(stack)
    BY <2>5
  <2>9. Hung(heap, Live, g, ({1} \cup Held(stack)) \ {c})
    BY <2>5, <2>6, <2>7, <2>8, Prepending
  <2>10. <<p>> \in Seq(Nat) /\ Injective(<<p>>) /\ Range(<<p>>) = {p}
    BY <2>5, SmallSequences
  <2>11. ({1} \cup Held(stack)) \ {c} = Remaining(2) \cup Range(<<p>>)
    BY <2>5, <2>7, <2>10 DEF Remaining
  <2>12. Fits(g, [symbol |-> "body", nodes |-> <<p>>])
    <3>1. g[p].kind = heap[p].kind
      BY <2>7, <2>9 DEF Hung
    <3> QED BY <2>5, <3>1 DEF Fits
  <2>13. Reduce(2, "body", <<p>>, g, {})
    BY <1>2, <2>5, <2>6 DEF p, c
  <2>14. "body" \in Symbols
    BY DEF Symbols
  <2> QED BY <2>2, <2>3, <2>5, <2>9, <2>10, <2>11, <2>12, <2>13, <2>14, Moving
<1> QED BY <1>1, <1>2 DEF Body

LEMMA FunctionCallKeeps ==
  ASSUME ParserInv, FunctionCall
  PROVE  ParserInv'
<1>1. CASE Reading({"no_arguments"}, <<>>) /\ Build("expression", "function_call", 0, <<>>)
  BY <1>1, BuildingOverNone DEF Kinds
<1>2. CASE /\ Reading({"function_call"}, <<"expressions">>)
           /\ Reduce(1, "expression", <<New>>, Transfer(Made("function_call"), New, NodeAt(1)),
                     Owned(Transfer(Made("function_call"), New, NodeAt(1)), NodeAt(1)))
  <2>1. status = "parsing" /\ at < Len(input) /\ ParserTypeOK /\ Between(heap, stack, Live)
    BY <1>2, NoValue
  <2>2. 1 \in 0 .. Len(stack) /\ Value(1, "expressions") /\ Popped(stack, 1) = Range(Top(1).nodes)
    BY <1>2, OneValue
  <2>3. PICK l : l = NodeAt(1)
    OBVIOUS
  <2>4. l \in Held(stack) /\ Popped(stack, 1) = {l} /\ heap[l].kind = "list"
    BY <2>2, <2>3 DEF Value
  <2>5. /\ Len(heap) \in Nat /\ freed \subseteq DOMAIN heap /\ Live = DOMAIN heap \ freed
        /\ Held(stack) \subseteq DOMAIN heap /\ 1 \notin Held(stack) /\ 1 \in Live /\ Held(stack) \subseteq Live
    BY <2>1, Typed DEF Between, Forest
  <2>6. PICK m : m = Made("function_call")
    OBVIOUS
  <2>7. Fresh(m, {New}) /\ m[New].kind = "function_call" /\ New \in Nat /\ New \notin DOMAIN heap
    <3>1. "function_call" \in Kinds
      BY DEF Kinds
    <3> QED BY <2>1, <2>6, <3>1, Making
  <2> DEFINE live == Live \cup {New}
             roots == {1} \cup Held(stack) \cup {New}
  <2>8. /\ Grown(m) /\ DOMAIN m \ freed = live /\ Forest(m, live, roots) /\ Lists(m, live)
    BY <2>1, <2>7, Growing
  <2>9. /\ Pointers(m) /\ m[New].children = <<>> /\ DOMAIN m = DOMAIN heap \cup {New}
        /\ \A n \in DOMAIN heap : m[n] = heap[n]
    BY <2>7, <2>8 DEF Grown, Fresh
  <2>10. PICK g : g = Transfer(m, New, l)
    OBVIOUS
  <2>11. PICK gone : gone = Owned(g, l)
    OBVIOUS
  <2>12. l \in roots /\ New \in roots /\ New # l /\ m[l].kind = "list" /\ m[New].kind # "list"
    BY <2>4, <2>5, <2>7, <2>9
  <2> HIDE DEF live, roots
  <2>13. /\ Len(g) = Len(m) /\ DOMAIN g = DOMAIN m /\ Pointers(g)
         /\ \A n \in DOMAIN m : g[n].kind = m[n].kind /\ (n \notin live => g[n] = m[n])
         /\ gone \subseteq live /\ gone \cap roots = {l}
         /\ Forest(g, live \ gone, roots \ {l}) /\ Lists(g, live \ gone)
    <3>1. Transferred(m, live, roots, l, New, g, gone)
      BY <2>8, <2>9, <2>10, <2>11, <2>12, Transferring
    <3> QED BY <3>1 DEF Transferred
  <2>14. Grown(g)
    BY <2>8, <2>9, <2>13 DEF Grown
  <2>15. gone \subseteq Live
    BY <2>12, <2>13 DEF live
  <2>16. Clean(g, gone, g)
    BY <2>5, <2>7, <2>9, <2>13, <2>15 DEF Clean, live
  <2>17. (DOMAIN g \ freed) \ gone = live \ gone
    BY <2>8, <2>13
  <2>18. <<New>> \in Seq(Nat) /\ Injective(<<New>>) /\ Range(<<New>>) = {New} /\ Len(<<New>>) = 1 /\ <<New>>[1] = New
    BY <2>7, SmallSequences
  <2>19. roots \ {l} = Remaining(1) \cup Range(<<New>>) /\ Range(<<New>>) \cap Remaining(1) = {}
    BY <2>4, <2>5, <2>7, <2>18 DEF Remaining, roots
  <2>20. Fits(g, [symbol |-> "expression", nodes |-> <<New>>])
    BY <2>18 DEF Fits
  <2>21. ReduceThen(1, "expression", <<New>>, g, gone, g)
    BY <1>2, <2>3, <2>6, <2>10, <2>11 DEF Reduce
  <2>22. "expression" \in Symbols
    BY DEF Symbols
  <2> QED BY <2>1, <2>2, <2>13, <2>14, <2>16, <2>17, <2>18, <2>19, <2>20, <2>21, <2>22, Reducing
<1> QED BY <1>1, <1>2 DEF FunctionCall

-----------------------------------------------------------------------------
(* Lists that grow                                                         *)

\* e becomes the last child of p, whose head or tail may change.
Joined(h, p, e, g) ==
  /\ g \in Seq(Node) /\ Len(g) = Len(h) /\ DOMAIN g = DOMAIN h
  /\ \A n \in DOMAIN h :
       /\ g[n].kind = h[n].kind
       /\ g[n].parent = IF n = e THEN p ELSE h[n].parent
       /\ g[n].children = IF n = p THEN h[n].children \o <<e>> ELSE h[n].children
       /\ n # p => g[n].head = h[n].head /\ g[n].tail = h[n].tail
       /\ n # p /\ n # e => g[n] = h[n]
  /\ g[p].head \in {h[p].head, e} /\ g[p].tail \in {h[p].tail, e}

LEMMA SettingHead ==
  ASSUME NEW h \in Seq(Node), NEW p \in DOMAIN h, NEW e \in Nat
  PROVE  /\ Joined(h, p, e, SetHead(h, p, e))
         /\ SetHead(h, p, e)[p].head = e /\ SetHead(h, p, e)[p].tail = h[p].tail
<1>1. p \in Nat /\ DOMAIN h = 1 .. Len(h) /\ Len(h) \in Nat
  BY HeapNode
<1>2. <<e>> \in Seq(Nat) /\ Range(<<e>>) = {e}
  BY SmallSequences
<1>3. PICK a : a = AddChild(h, p, e)
  OBVIOUS
<1>4. Added(h, p, <<e>>, a)
  BY <1>1, <1>2, <1>3, Adding DEF AddChild
<1>5. /\ a \in Seq(Node) /\ Len(a) = Len(h) /\ DOMAIN a = DOMAIN h
      /\ \A n \in DOMAIN h :
           /\ a[n].kind = h[n].kind /\ a[n].head = h[n].head /\ a[n].tail = h[n].tail
           /\ a[n].parent = IF n = e THEN p ELSE h[n].parent
           /\ a[n].children = IF n = p THEN h[n].children \o <<e>> ELSE h[n].children
           /\ n # p /\ n # e => a[n] = h[n]
  BY <1>2, <1>4 DEF Added
<1> DEFINE b == [a[p] EXCEPT !.head = e]
<1>6. a[p] \in Node
  BY <1>5, HeapNode
<1>7. /\ b \in Node /\ b.head = e /\ b.tail = a[p].tail /\ b.kind = a[p].kind
      /\ b.parent = a[p].parent /\ b.children = a[p].children
  BY <1>6 DEF Node
<1>8. PICK g : g = SetHead(h, p, e)
  OBVIOUS
<1>9. g = [a EXCEPT ![p] = b]
  BY <1>3, <1>8 DEF SetHead
<1> HIDE DEF b
<1>10. DOMAIN g = DOMAIN h /\ g[p] = b /\ \A n \in DOMAIN h : n # p => g[n] = a[n]
  BY <1>5, <1>9
<1>11. g \in Seq(Node) /\ Len(g) = Len(h)
  BY <1>1, <1>5, <1>7, <1>9, <1>10
<1>12. \A n \in DOMAIN h :
         /\ g[n].kind = h[n].kind
         /\ g[n].parent = IF n = e THEN p ELSE h[n].parent
         /\ g[n].children = IF n = p THEN h[n].children \o <<e>> ELSE h[n].children
         /\ n # p => g[n].head = h[n].head /\ g[n].tail = h[n].tail
         /\ n # p /\ n # e => g[n] = h[n]
  <2> TAKE n \in DOMAIN h
  <2>1. CASE n = p
    BY <1>5, <1>7, <1>10, <2>1
  <2>2. CASE n # p
    BY <1>5, <1>10, <2>2
  <2> QED BY <2>1, <2>2
<1>13. g[p].head = e /\ g[p].tail = h[p].tail
  BY <1>5, <1>7, <1>10
<1>14. Joined(h, p, e, g)
  BY <1>10, <1>11, <1>12, <1>13 DEF Joined
<1> QED BY <1>8, <1>13, <1>14

LEMMA SettingTail ==
  ASSUME NEW h \in Seq(Node), NEW p \in DOMAIN h, NEW e \in Nat
  PROVE  /\ Joined(h, p, e, SetTail(h, p, e))
         /\ SetTail(h, p, e)[p].tail = e /\ SetTail(h, p, e)[p].head = h[p].head
<1>1. p \in Nat /\ DOMAIN h = 1 .. Len(h) /\ Len(h) \in Nat
  BY HeapNode
<1>2. <<e>> \in Seq(Nat) /\ Range(<<e>>) = {e}
  BY SmallSequences
<1>3. PICK a : a = AddChild(h, p, e)
  OBVIOUS
<1>4. Added(h, p, <<e>>, a)
  BY <1>1, <1>2, <1>3, Adding DEF AddChild
<1>5. /\ a \in Seq(Node) /\ Len(a) = Len(h) /\ DOMAIN a = DOMAIN h
      /\ \A n \in DOMAIN h :
           /\ a[n].kind = h[n].kind /\ a[n].head = h[n].head /\ a[n].tail = h[n].tail
           /\ a[n].parent = IF n = e THEN p ELSE h[n].parent
           /\ a[n].children = IF n = p THEN h[n].children \o <<e>> ELSE h[n].children
           /\ n # p /\ n # e => a[n] = h[n]
  BY <1>2, <1>4 DEF Added
<1> DEFINE b == [a[p] EXCEPT !.tail = e]
<1>6. a[p] \in Node
  BY <1>5, HeapNode
<1>7. /\ b \in Node /\ b.tail = e /\ b.head = a[p].head /\ b.kind = a[p].kind
      /\ b.parent = a[p].parent /\ b.children = a[p].children
  BY <1>6 DEF Node
<1>8. PICK g : g = SetTail(h, p, e)
  OBVIOUS
<1>9. g = [a EXCEPT ![p] = b]
  BY <1>3, <1>8 DEF SetTail
<1> HIDE DEF b
<1>10. DOMAIN g = DOMAIN h /\ g[p] = b /\ \A n \in DOMAIN h : n # p => g[n] = a[n]
  BY <1>5, <1>9
<1>11. g \in Seq(Node) /\ Len(g) = Len(h)
  BY <1>1, <1>5, <1>7, <1>9, <1>10
<1>12. \A n \in DOMAIN h :
         /\ g[n].kind = h[n].kind
         /\ g[n].parent = IF n = e THEN p ELSE h[n].parent
         /\ g[n].children = IF n = p THEN h[n].children \o <<e>> ELSE h[n].children
         /\ n # p => g[n].head = h[n].head /\ g[n].tail = h[n].tail
         /\ n # p /\ n # e => g[n] = h[n]
  <2> TAKE n \in DOMAIN h
  <2>1. CASE n = p
    BY <1>5, <1>7, <1>10, <2>1
  <2>2. CASE n # p
    BY <1>5, <1>10, <2>2
  <2> QED BY <2>1, <2>2
<1>13. g[p].tail = e /\ g[p].head = h[p].head
  BY <1>5, <1>7, <1>10
<1>14. Joined(h, p, e, g)
  BY <1>10, <1>11, <1>12, <1>13 DEF Joined
<1> QED BY <1>8, <1>13, <1>14

\* What that leaves is a forest whose lists may be incomplete.
Forested(h, live, g, roots) ==
  Forest(g, live, roots) /\ Pointers(g) /\ \A n \in DOMAIN h : n \notin live => g[n] = h[n]

LEMMA Joining ==
  ASSUME NEW h, Pointers(h), NEW live, NEW roots, Forest(h, live, roots),
         NEW p \in live, NEW e \in roots, e # p, Above(h, live, roots, p, roots \ {e}),
         NEW g, Joined(h, p, e, g)
  PROVE  Forested(h, live, g, roots \ {e})
<1>1. h \in Seq(Node) /\ live \subseteq DOMAIN h /\ roots \subseteq live
  BY DEF Pointers, Forest
<1>2. p \in DOMAIN h /\ e \in DOMAIN h /\ e \in Nat /\ Len(h) \in Nat /\ DOMAIN h = 1 .. Len(h)
      /\ h[p].children \in Seq(Nat)
  BY <1>1, HeapNode
<1>3. /\ g \in Seq(Node) /\ Len(g) = Len(h) /\ DOMAIN g = DOMAIN h
      /\ \A n \in DOMAIN h :
           /\ g[n].kind = h[n].kind
           /\ g[n].parent = IF n = e THEN p ELSE h[n].parent
           /\ g[n].children = IF n = p THEN h[n].children \o <<e>> ELSE h[n].children
           /\ n # p => g[n].head = h[n].head /\ g[n].tail = h[n].tail
           /\ n # p /\ n # e => g[n] = h[n]
      /\ g[p].head \in {h[p].head, e} /\ g[p].tail \in {h[p].tail, e}
  BY DEF Joined
<1>4. /\ e \notin Range(h[p].children)
      /\ \A i, j \in DOMAIN h[p].children : h[p].children[i] = h[p].children[j] => i = j
  BY DEF Forest
<1>5. g[p].children = Append(h[p].children, e)
  BY <1>2, <1>3, ConcatOne
<1>6. Injective(g[p].children) /\ Range(g[p].children) = Range(h[p].children) \cup {e}
  BY <1>2, <1>4, <1>5, Appending DEF Injective
<1>7. Linked(h, live, p, {e}, g)
  BY <1>1, <1>3, <1>6 DEF Linked, Injective
<1>8. Forest(g, live, roots \ {e})
  BY <1>7, Linking
<1>9. Pointers(g)
  <2> SUFFICES ASSUME NEW n \in DOMAIN h
               PROVE  /\ g[n].parent \in 0 .. Len(h) /\ g[n].head \in 0 .. Len(h) /\ g[n].tail \in 0 .. Len(h)
                      /\ Range(g[n].children) \subseteq 0 .. Len(h)
    BY <1>3 DEF Pointers
  <2>1. /\ h[n].parent \in 0 .. Len(h) /\ h[n].head \in 0 .. Len(h) /\ h[n].tail \in 0 .. Len(h)
        /\ Range(h[n].children) \subseteq 0 .. Len(h)
    BY DEF Pointers
  <2>2. p \in 0 .. Len(h) /\ e \in 0 .. Len(h)
    BY <1>2
  <2>3. Range(g[n].children) \subseteq 0 .. Len(h)
    BY <1>3, <1>6, <2>1, <2>2
  <2>4. g[n].head \in 0 .. Len(h) /\ g[n].tail \in 0 .. Len(h)
    BY <1>3, <2>1, <2>2
  <2> QED BY <1>3, <2>1, <2>2, <2>3, <2>4
<1>10. \A n \in DOMAIN h : n \notin live => g[n] = h[n]
  BY <1>1, <1>3
<1> QED BY <1>8, <1>9, <1>10 DEF Forested

LEMMA OtherListsStay ==
  ASSUME NEW h, Pointers(h), NEW p, NEW e, NEW g, Joined(h, p, e, g),
         NEW left, left \subseteq DOMAIN h \ {p}, Lists(h, left)
  PROVE  Lists(g, left)
<1>1. /\ \A n \in DOMAIN h :
           /\ g[n].kind = h[n].kind
           /\ g[n].children = IF n = p THEN h[n].children \o <<e>> ELSE h[n].children
           /\ n # p => g[n].head = h[n].head /\ g[n].tail = h[n].tail
  BY DEF Joined
<1> SUFFICES ASSUME NEW n \in left, g[n].kind = "list"
             PROVE  /\ g[n].children = CellsOf(g, n)
                    /\ g[n].tail # 0 => n < g[n].tail /\ g[g[n].tail].kind = "list"
  BY DEF Lists
<1>2. n \in DOMAIN h /\ n # p
  OBVIOUS
<1>3. h[n].kind = "list" /\ g[n].children = h[n].children /\ g[n].head = h[n].head /\ g[n].tail = h[n].tail
  BY <1>1, <1>2
<1>4. g[n].children = CellsOf(g, n)
  BY <1>3 DEF Lists, CellsOf
<1>5. ASSUME g[n].tail # 0
      PROVE  n < g[n].tail /\ g[g[n].tail].kind = "list"
  <2>1. n < h[n].tail /\ h[h[n].tail].kind = "list"
    BY <1>3, <1>5 DEF Lists
  <2>2. h[n].tail \in DOMAIN h
    <3>1. h[n].tail \in 0 .. Len(h) /\ DOMAIN h = 1 .. Len(h) /\ Len(h) \in Nat
      BY <1>2 DEF Pointers
    <3> QED BY <1>3, <1>5, <3>1
  <2> QED BY <1>1, <1>3, <2>1, <2>2
<1> QED BY <1>4, <1>5

LEMMA FirstExpressionKeeps ==
  ASSUME ParserInv, FirstExpression
  PROVE  ParserInv'
<1>1. /\ Reading({"list"}, <<"expression">>)
      /\ Reduce(1, "expressions", <<New>>, SetHead(Made("list"), New, NodeAt(1)), {})
  BY DEF FirstExpression
<1>2. status = "parsing" /\ at < Len(input) /\ ParserTypeOK /\ Between(heap, stack, Live)
  BY <1>1, NoValue
<1>3. 1 \in 0 .. Len(stack) /\ Value(1, "expression") /\ Popped(stack, 1) = Range(Top(1).nodes)
  BY <1>1, OneValue
<1>4. PICK e : e = NodeAt(1)
  OBVIOUS
<1>5. e \in Held(stack) /\ e \in Nat /\ Popped(stack, 1) = {e}
  BY <1>3, <1>4 DEF Value
<1>6. /\ Len(heap) \in Nat /\ freed \subseteq DOMAIN heap /\ Live = DOMAIN heap \ freed
      /\ Held(stack) \subseteq DOMAIN heap /\ 1 \notin Held(stack) /\ 1 \in Live /\ Held(stack) \subseteq Live
  BY <1>2, Typed DEF Between, Forest
<1>7. PICK m : m = Made("list")
  OBVIOUS
<1>8. Fresh(m, {New}) /\ m[New].kind = "list" /\ New \in Nat /\ New \notin DOMAIN heap
  <2>1. "list" \in Kinds
    BY DEF Kinds
  <2> QED BY <1>2, <1>7, <2>1, Making
<1> DEFINE live == Live \cup {New}
           roots == {1} \cup Held(stack) \cup {New}
<1>9. Grown(m) /\ DOMAIN m \ freed = live /\ Forest(m, live, roots) /\ Lists(m, Live)
  BY <1>2, <1>8, Growing
<1>10. /\ Pointers(m) /\ m \in Seq(Node) /\ DOMAIN m = DOMAIN heap \cup {New}
       /\ m[New].children = <<>> /\ m[New].tail = 0
       /\ \A n \in DOMAIN heap : m[n] = heap[n]
  BY <1>8, <1>9 DEF Grown, Fresh
<1>11. PICK g : g = SetHead(m, New, e)
  OBVIOUS
<1>12. New \in DOMAIN m /\ New \in roots /\ e \in roots /\ e # New /\ New \in live
  BY <1>5, <1>6, <1>8, <1>10
<1>13. Joined(m, New, e, g) /\ g[New].head = e /\ g[New].tail = 0
  BY <1>5, <1>10, <1>11, <1>12, SettingHead
<1> HIDE DEF live, roots
<1>14. Forest(g, live, roots \ {e}) /\ Pointers(g) /\ \A n \in DOMAIN m : n \notin live => g[n] = m[n]
  <2>1. Above(m, live, roots, New, roots \ {e})
    BY <1>12, RootIsAbove
  <2>2. Forested(m, live, g, roots \ {e})
    BY <1>9, <1>10, <1>12, <1>13, <2>1, Joining
  <2> QED BY <2>2 DEF Forested
<1>15. /\ Len(g) = Len(m) /\ DOMAIN g = DOMAIN m /\ \A n \in DOMAIN m : g[n].kind = m[n].kind
  BY <1>13 DEF Joined
<1>16. Lists(g, live)
  <2>1. Lists(g, Live)
    <3>1. Live \subseteq DOMAIN m \ {New}
      BY <1>6, <1>8, <1>10
    <3> QED BY <1>9, <1>10, <1>13, <3>1, OtherListsStay
  <2>2. g[New].children = <<e>>
    <3>1. g[New].children = <<>> \o <<e>>
      BY <1>10, <1>12, <1>13 DEF Joined
    <3>2. <<e>> \in Seq(Nat)
      BY <1>5
    <3> QED BY <3>1, <3>2, ConcatEmptySeq
  <2>3. g[New].children = CellsOf(g, New)
    BY <1>13, <2>2 DEF CellsOf
  <2> QED BY <1>13, <2>1, <2>3 DEF Lists, live
<1>17. Grown(g)
  BY <1>9, <1>10, <1>14, <1>15 DEF Grown
<1>18. Clean(g, {}, g)
  BY <1>6, <1>8, <1>10, <1>14 DEF Clean, live
<1>19. (DOMAIN g \ freed) \ {} = live
  BY <1>9, <1>15
<1>20. <<New>> \in Seq(Nat) /\ Injective(<<New>>) /\ Range(<<New>>) = {New} /\ Len(<<New>>) = 1 /\ <<New>>[1] = New
  BY <1>8, SmallSequences
<1>21. roots \ {e} = Remaining(1) \cup Range(<<New>>) /\ Range(<<New>>) \cap Remaining(1) = {}
  BY <1>5, <1>6, <1>8, <1>20 DEF Remaining, roots
<1>22. Fits(g, [symbol |-> "expressions", nodes |-> <<New>>])
  BY <1>8, <1>12, <1>15, <1>20 DEF Fits
<1>23. ReduceThen(1, "expressions", <<New>>, g, {}, g)
  BY <1>1, <1>4, <1>7, <1>11 DEF Reduce
<1>24. "expressions" \in Symbols
  BY DEF Symbols
<1> QED BY <1>2, <1>3, <1>14, <1>16, <1>17, <1>18, <1>19, <1>20, <1>21, <1>22, <1>23, <1>24, Reducing

LEMMA NextExpressionKeeps ==
  ASSUME ParserInv, NextExpression
  PROVE  ParserInv'
<1>1. /\ Reading({"element"}, <<"expressions", "expression">>)
      /\ Reduce(2, "expressions", <<NodeAt(2)>>,
                SetHead(SetTail(Made("list"), LastCell(heap, NodeAt(2)), New), New, NodeAt(1)), {})
  BY DEF NextExpression
<1>2. status = "parsing" /\ at < Len(input) /\ ParserTypeOK /\ Between(heap, stack, Live)
  BY <1>1, NoValue
<1>3. /\ 2 \in 0 .. Len(stack) /\ Value(2, "expressions") /\ Value(1, "expression")
      /\ Popped(stack, 2) = Range(Top(2).nodes) \cup Range(Top(1).nodes)
      /\ Range(Top(2).nodes) \cap Range(Top(1).nodes) = {}
  BY <1>1, TwoValues
<1>4. PICK l : l = NodeAt(2)
  OBVIOUS
<1>5. PICK e : e = NodeAt(1)
  OBVIOUS
<1>6. /\ l \in Held(stack) /\ l \in Nat /\ heap[l].kind = "list" /\ e \in Held(stack) /\ e \in Nat
      /\ e # l /\ Popped(stack, 2) = {l, e}
  BY <1>3, <1>4, <1>5 DEF Value
<1>7. /\ Pointers(heap) /\ heap \in Seq(Node) /\ Len(heap) \in Nat /\ DOMAIN heap = 1 .. Len(heap)
      /\ freed \subseteq DOMAIN heap /\ Live = DOMAIN heap \ freed
      /\ Held(stack) \subseteq DOMAIN heap /\ 1 \notin Held(stack) /\ 1 \in Live /\ Held(stack) \subseteq Live
  BY <1>2, Typed DEF Between, Forest
<1> DEFINE base == {1} \cup Held(stack)
           live == Live \cup {New}
           roots == {1} \cup Held(stack) \cup {New}
<1>8. Forest(heap, Live, base) /\ Lists(heap, Live) /\ l \in base
  BY <1>2, <1>6 DEF Between
<1> HIDE DEF base
<1>9. PICK c : c = LastCell(heap, l)
  OBVIOUS
<1>10. PICK cells : cells = Range(Cells(heap, l))
  OBVIOUS
<1>11. /\ Chain(heap, Live, l, Cells(heap, l)) /\ heap[c].tail = 0 /\ c \in cells
       /\ cells \subseteq Live /\ heap[c].kind = "list"
  BY <1>6, <1>7, <1>8, <1>9, <1>10, CellSet
<1>12. c \in Live /\ c \in DOMAIN heap /\ c \in Nat /\ c < New /\ c # New /\ heap[c].head \in Nat
  <2>1. c \in Live /\ c \in DOMAIN heap
    BY <1>7, <1>11
  <2>2. c \in 1 .. Len(heap) /\ heap[c].head \in Nat
    BY <1>7, <2>1, HeapNode
  <2> QED BY <1>7, <2>1, <2>2 DEF New
<1>13. Above(heap, Live, base, c, {l})
  BY <1>7, <1>8, <1>10, <1>11, CellsAbove DEF Pointers
<1>14. heap[c].children = <<heap[c].head>>
  BY <1>8, <1>11, <1>12 DEF Lists, CellsOf
<1>15. PICK m : m = Made("list")
  OBVIOUS
<1>16. Fresh(m, {New}) /\ m[New].kind = "list" /\ New \in Nat /\ New \notin DOMAIN heap
  <2>1. "list" \in Kinds
    BY DEF Kinds
  <2> QED BY <1>2, <1>15, <2>1, Making
<1>17. Grown(m) /\ DOMAIN m \ freed = live /\ Forest(m, live, roots) /\ Lists(m, Live)
  BY <1>2, <1>16, Growing
<1>18. /\ Pointers(m) /\ m \in Seq(Node) /\ DOMAIN m = DOMAIN heap \cup {New}
       /\ m[New].children = <<>> /\ m[New].tail = 0
       /\ \A n \in DOMAIN heap : m[n] = heap[n]
  BY <1>16, <1>17 DEF Grown, Fresh
<1>19. /\ New \in DOMAIN m /\ c \in DOMAIN m /\ New \in roots /\ New \in live /\ c \in live
       /\ l \in roots \ {New} /\ e \in roots \ {New} /\ l \in (roots \ {New}) \ {e} /\ e # New
  BY <1>6, <1>7, <1>12, <1>16, <1>18
<1>20. ASSUME NEW S \in SUBSET live, c \in S, Upward(m, roots, S) PROVE l \in S
  <2> DEFINE T == S \cap Live
  <2>1. Upward(heap, base, T)
    <3> SUFFICES ASSUME NEW n \in T \ base PROVE heap[n].parent \in T
      BY DEF Upward
    <3>1. n \in DOMAIN heap /\ n # New /\ n \notin roots
      BY <1>7, <1>16 DEF base
    <3>2. heap[n].parent \in S
      BY <1>18, <1>20, <3>1 DEF Upward
    <3>3. heap[n].parent \in Live
      BY <1>8 DEF Forest
    <3> QED BY <3>2, <3>3
  <2>2. c \in T /\ T \in SUBSET Live
    BY <1>12, <1>20
  <2>3. T \cap {l} # {}
    BY <1>13, <2>1, <2>2 DEF Above
  <2> QED BY <2>3
<1> HIDE DEF live, roots
\* The new cell goes behind the last one.
<1>21. PICK t : t = SetTail(m, c, New)
  OBVIOUS
<1>22. Joined(m, c, New, t) /\ t[c].tail = New /\ t[c].head = m[c].head
  BY <1>16, <1>18, <1>19, <1>21, SettingTail
<1>23. /\ t \in Seq(Node) /\ Len(t) = Len(m) /\ DOMAIN t = DOMAIN m
       /\ \A n \in DOMAIN m :
            /\ t[n].kind = m[n].kind
            /\ t[n].parent = IF n = New THEN c ELSE m[n].parent
            /\ t[n].children = IF n = c THEN m[n].children \o <<New>> ELSE m[n].children
            /\ n # c => t[n].head = m[n].head /\ t[n].tail = m[n].tail
  BY <1>22 DEF Joined
<1>24. Forest(t, live, roots \ {New}) /\ Pointers(t) /\ \A n \in DOMAIN m : n \notin live => t[n] = m[n]
  <2>1. Above(m, live, roots, c, roots \ {New})
    BY <1>19, <1>20 DEF Above
  <2>2. Forested(m, live, t, roots \ {New})
    BY <1>12, <1>17, <1>18, <1>19, <1>22, <2>1, Joining
  <2> QED BY <2>2 DEF Forested
\* It gets the expression.
<1>25. PICK g : g = SetHead(t, New, e)
  OBVIOUS
<1>26. Joined(t, New, e, g) /\ g[New].head = e /\ g[New].tail = 0
  <2>1. New \in DOMAIN t /\ t[New].tail = 0
    BY <1>12, <1>18, <1>19, <1>23
  <2> QED BY <1>6, <1>23, <1>25, <2>1, SettingHead
<1>27. /\ Len(g) = Len(t) /\ DOMAIN g = DOMAIN t
       /\ \A n \in DOMAIN t :
            /\ g[n].kind = t[n].kind
            /\ g[n].children = IF n = New THEN t[n].children \o <<e>> ELSE t[n].children
            /\ n # New => g[n].head = t[n].head /\ g[n].tail = t[n].tail
  BY <1>26 DEF Joined
<1>28. Forest(g, live, (roots \ {New}) \ {e}) /\ Pointers(g) /\ \A n \in DOMAIN t : n \notin live => g[n] = t[n]
  <2>1. ASSUME NEW S \in SUBSET live, New \in S, Upward(t, roots \ {New}, S) PROVE l \in S
    <3>1. New \notin roots \ {New} /\ t[New].parent = c
      BY <1>19, <1>23
    <3>2. c \in S
      BY <2>1, <3>1 DEF Upward
    <3>3. Upward(m, roots, S)
      <4> SUFFICES ASSUME NEW n \in S \ roots PROVE m[n].parent \in S
        BY DEF Upward
      <4>1. n \in DOMAIN m /\ n # New
        BY <1>17, <1>19
      <4> QED BY <1>23, <2>1, <4>1 DEF Upward
    <3> QED BY <1>20, <3>2, <3>3
  <2>2. Above(t, live, roots \ {New}, New, (roots \ {New}) \ {e})
    BY <1>19, <2>1 DEF Above
  <2>3. Forested(t, live, g, (roots \ {New}) \ {e})
    BY <1>19, <1>24, <1>26, <2>2, Joining
  <2> QED BY <2>3 DEF Forested
<1>29. Lists(g, live)
  <2>1. Lists(g, Live \ {c})
    <3>1. Lists(m, Live \ {c})
      BY <1>17 DEF Lists
    <3>2. Live \ {c} \subseteq DOMAIN m \ {c} /\ Live \ {c} \subseteq DOMAIN t \ {New}
      BY <1>7, <1>16, <1>18, <1>23
    <3>3. Lists(t, Live \ {c})
      BY <1>18, <1>22, <3>1, <3>2, OtherListsStay
    <3> QED BY <1>24, <1>26, <3>2, <3>3, OtherListsStay
  <2>2. g[New].children = <<e>>
    <3>1. g[New].children = <<>> \o <<e>>
      <4>1. t[New].children = <<>>
        BY <1>12, <1>18, <1>19, <1>23
      <4>2. g[New].children = t[New].children \o <<e>>
        BY <1>19, <1>23, <1>27
      <4> QED BY <4>1, <4>2
    <3>2. <<e>> \in Seq(Nat)
      BY <1>6
    <3> QED BY <3>1, <3>2, ConcatEmptySeq
  <2>3. g[New].children = CellsOf(g, New)
    BY <1>26, <2>2 DEF CellsOf
  <2>4. g[c].children = <<heap[c].head>> \o <<New>> /\ g[c].head = heap[c].head /\ g[c].tail = New
    <3>1. m[c] = heap[c]
      BY <1>12, <1>18
    <3>2. t[c].children = m[c].children \o <<New>>
      BY <1>19, <1>23
    <3>3. g[c].children = t[c].children /\ g[c].head = t[c].head /\ g[c].tail = t[c].tail
      BY <1>12, <1>19, <1>23, <1>27
    <3> QED BY <1>14, <1>22, <3>1, <3>2, <3>3
  <2>5. <<heap[c].head>> \o <<New>> = <<heap[c].head, New>>
    BY <1>12, <1>16, ConcatTwo
  <2>6. New # 0
    BY <1>7 DEF New
  <2>7. g[c].children = CellsOf(g, c) /\ c < g[c].tail
    BY <1>12, <2>4, <2>5, <2>6 DEF CellsOf
  <2>8. g[g[c].tail].kind = "list"
    BY <1>16, <1>19, <1>23, <1>27, <2>4
  <2>9. \A n \in live : n \in Live \ {c} \/ n = c \/ n = New
    BY DEF live
  <2> QED BY <1>26, <2>1, <2>3, <2>7, <2>8, <2>9 DEF Lists
<1>30. Grown(g)
  BY <1>17, <1>18, <1>23, <1>27, <1>28 DEF Grown
<1>31. Clean(g, {}, g)
  <2>1. \A n \in freed : n \in DOMAIN heap /\ n \notin live
    BY <1>7, <1>16 DEF live
  <2> QED BY <1>18, <1>23, <1>24, <1>28, <2>1 DEF Clean
<1>32. (DOMAIN g \ freed) \ {} = live
  BY <1>17, <1>23, <1>27
<1>33. <<l>> \in Seq(Nat) /\ Injective(<<l>>) /\ Range(<<l>>) = {l} /\ Len(<<l>>) = 1 /\ <<l>>[1] = l
  BY <1>6, SmallSequences
<1>34. (roots \ {New}) \ {e} = Remaining(2) \cup Range(<<l>>) /\ Range(<<l>>) \cap Remaining(2) = {}
  BY <1>6, <1>7, <1>16, <1>33 DEF Remaining, roots
<1>35. Fits(g, [symbol |-> "expressions", nodes |-> <<l>>])
  <2>1. g[l].kind = "list"
    BY <1>6, <1>7, <1>18, <1>23, <1>27
  <2> QED BY <1>33, <2>1 DEF Fits
<1>36. ReduceThen(2, "expressions", <<l>>, g, {}, g)
  BY <1>1, <1>4, <1>5, <1>9, <1>15, <1>21, <1>25 DEF Reduce
<1>37. "expressions" \in Symbols
  BY DEF Symbols
<1> QED BY <1>2, <1>3, <1>28, <1>29, <1>30, <1>31, <1>32, <1>33, <1>34, <1>35, <1>36, <1>37, Reducing

-----------------------------------------------------------------------------
(* Loops                                                                   *)

LEMMA MakingLoop ==
  ASSUME ParserTypeOK, at < Len(input), NEW kind \in Kinds
  PROVE  /\ Fresh(MadeLoop(kind), {Loop, Iterator})
         /\ MadeLoop(kind)[Loop].kind = kind /\ MadeLoop(kind)[Iterator].kind = "iterator_definition"
         /\ Loop \in Nat /\ Iterator \in Nat /\ Loop # Iterator
         /\ Loop \notin DOMAIN heap /\ Iterator \notin DOMAIN heap
<1>1. heap \in Seq(Node) /\ Len(heap) \in Nat /\ DOMAIN heap = 1 .. Len(heap) /\ Token \in Reduction
  BY Typed
<1>2. PICK a : a = NewNode(kind, "", "", Null)
  OBVIOUS
<1>3. PICK b : b = NewNode("iterator_definition", Token.name, "", Null)
  OBVIOUS
<1>4. Token.name \in MaybeName /\ "" \in MaybeName /\ Null \in MaybeType /\ "iterator_definition" \in Kinds
      /\ <<>> \in Seq(Nat)
  <2>1. Token.name \in MaybeName
    BY <1>1 DEF Reduction, MaybeName
  <2>2. "" \in MaybeName /\ "iterator_definition" \in Kinds
    BY DEF MaybeName, Kinds
  <2>3. Null \in MaybeType
    BY DEF MaybeType
  <2> QED BY <2>1, <2>2, <2>3, EmptySeq
<1>5. a \in Node /\ a.children = <<>> /\ a.parent = 0 /\ a.head = 0 /\ a.tail = 0 /\ a.kind = kind
  BY <1>2, <1>4 DEF NewNode, Node
<1>6. /\ b \in Node /\ b.children = <<>> /\ b.parent = 0 /\ b.head = 0 /\ b.tail = 0
      /\ b.kind = "iterator_definition"
  BY <1>3, <1>4 DEF NewNode, Node
<1>7. PICK s : s = <<a, b>>
  OBVIOUS
<1>8. s \in Seq(Node) /\ Len(s) = 2 /\ s[1] = a /\ s[2] = b
  BY <1>5, <1>6, <1>7
<1>9. PICK h : h = heap \o s
  OBVIOUS
<1> DEFINE n == Len(heap)
<1>10. /\ h \in Seq(Node) /\ Len(h) = n + 2
       /\ \A i \in 1 .. n + 2 : h[i] = IF i <= n THEN heap[i] ELSE s[i - n]
  <2>1. s \in Seq(Node)
    BY <1>8
  <2>2. /\ heap \o s \in Seq(Node) /\ Len(heap \o s) = Len(heap) + Len(s)
        /\ \A i \in 1 .. Len(heap) + Len(s) :
             (heap \o s)[i] = IF i <= Len(heap) THEN heap[i] ELSE s[i - Len(heap)]
    BY <1>1, <2>1, ConcatProperties
  <2> QED BY <1>8, <1>9, <2>2
<1>11. Loop = n + 1 /\ Iterator = n + 2
  BY <1>1 DEF Loop, Iterator, New
<1>12. DOMAIN h = 1 .. n + 2
  BY <1>10
<1> HIDE DEF n
<1>13. n \in Nat
  BY <1>1 DEF n
<1>14. h[n + 1] = a /\ h[n + 2] = b /\ \A i \in 1 .. n : h[i] = heap[i]
  <2>1. n + 1 \in 1 .. n + 2 /\ n + 2 \in 1 .. n + 2 /\ ~(n + 1 <= n) /\ ~(n + 2 <= n)
        /\ n + 1 - n = 1 /\ n + 2 - n = 2
    BY <1>13
  <2>2. \A i \in 1 .. n : i \in 1 .. n + 2 /\ i <= n
    BY <1>13
  <2>3. h[n + 1] = s[1]
    <3>1. PICK j : j = n + 1
      OBVIOUS
    <3>2. j \in 1 .. n + 2 /\ ~(j <= n) /\ j - n = 1
      BY <1>13, <3>1
    <3>3. h[j] = s[j - n]
      BY <1>10, <3>2
    <3> QED BY <3>1, <3>2, <3>3
  <2>4. h[n + 2] = s[2]
    <3>1. PICK j : j = n + 2
      OBVIOUS
    <3>2. j \in 1 .. n + 2 /\ ~(j <= n) /\ j - n = 2
      BY <1>13, <3>1
    <3>3. h[j] = s[j - n]
      BY <1>10, <3>2
    <3> QED BY <3>1, <3>2, <3>3
  <2>5. \A i \in 1 .. n : h[i] = heap[i]
    BY <1>10, <2>2
  <2> QED BY <1>8, <2>3, <2>4, <2>5
<1>15. /\ DOMAIN heap = 1 .. n /\ 1 .. n + 2 = 1 .. n \cup {n + 1, n + 2}
       /\ n + 1 \notin 1 .. n /\ n + 2 \notin 1 .. n /\ n <= n + 2 /\ n + 1 # n + 2
       /\ n + 1 \in Nat /\ n + 2 \in Nat
  BY <1>1, <1>13 DEF n
<1>16. Fresh(h, {Loop, Iterator})
  <2>1. Len(heap) <= Len(h)
    BY <1>10, <1>15 DEF n
  <2>2. DOMAIN h = DOMAIN heap \cup {Loop, Iterator}
    BY <1>11, <1>12, <1>15
  <2>3. \A i \in DOMAIN heap : h[i] = heap[i]
    BY <1>14, <1>15
  <2>4. \A i \in {Loop, Iterator} : i \notin DOMAIN heap /\ h[i].children = <<>>
                                     /\ h[i].parent = 0 /\ h[i].head = 0 /\ h[i].tail = 0
    BY <1>5, <1>6, <1>11, <1>14, <1>15
  <2> QED BY <1>10, <2>1, <2>2, <2>3, <2>4 DEF Fresh
<1>17. h = MadeLoop(kind)
  BY <1>2, <1>3, <1>7, <1>9 DEF MadeLoop
<1> QED BY <1>5, <1>6, <1>11, <1>14, <1>15, <1>16, <1>17

\* The iterator has the list's elements, and the loop has nothing yet.
Iterating(m, l, h, gone) ==
  /\ Grown(m) /\ Transferred(m, Live \cup {Loop, Iterator}, {1} \cup Held(stack) \cup {Loop, Iterator}, l, Iterator, h, gone)
  /\ DOMAIN m = DOMAIN heap \cup {Loop, Iterator}
  /\ \A n \in DOMAIN heap : m[n] = heap[n]
  /\ h[Loop].kind # "list"

LEMMA IteratorTakesList ==
  ASSUME ParserTypeOK, Between(heap, stack, Live), at < Len(input), NEW kind \in Kinds, kind # "list",
         NEW l \in Held(stack), heap[l].kind = "list"
  PROVE  Iterating(MadeLoop(kind), l, Transfer(MadeLoop(kind), Iterator, l),
                   Owned(Transfer(MadeLoop(kind), Iterator, l), l))
<1>1. Held(stack) \subseteq DOMAIN heap
  BY Typed
<1>2. PICK m : m = MadeLoop(kind)
  OBVIOUS
<1>3. /\ Fresh(m, {Loop, Iterator})
      /\ m[Loop].kind = kind /\ m[Iterator].kind = "iterator_definition"
      /\ Loop \notin DOMAIN heap /\ Iterator \notin DOMAIN heap
  BY <1>2, MakingLoop
<1> DEFINE live == Live \cup {Loop, Iterator}
           roots == {1} \cup Held(stack) \cup {Loop, Iterator}
<1>4. Grown(m) /\ Forest(m, live, roots) /\ Lists(m, live)
  <2>1. \A n \in {Loop, Iterator} : m[n].kind # "list"
    BY <1>3
  <2> QED BY <1>3, <2>1, Growing
<1>5. /\ Pointers(m) /\ DOMAIN m = DOMAIN heap \cup {Loop, Iterator}
      /\ (\A n \in DOMAIN heap : m[n] = heap[n]) /\ m[Iterator].children = <<>>
  BY <1>3, <1>4 DEF Grown, Fresh
<1>6. l \in roots /\ m[l].kind = "list" /\ Iterator \in roots /\ Iterator # l /\ m[Iterator].kind # "list"
  BY <1>1, <1>3, <1>5
<1>7. PICK h : h = Transfer(m, Iterator, l)
  OBVIOUS
<1>8. PICK gone : gone = Owned(h, l)
  OBVIOUS
<1>9. Transferred(m, live, roots, l, Iterator, h, gone)
  BY <1>4, <1>5, <1>6, <1>7, <1>8, Transferring
<1>10. h[Loop].kind # "list"
  BY <1>3, <1>5, <1>9 DEF Transferred
<1>11. Iterating(m, l, h, gone)
  BY <1>4, <1>5, <1>9, <1>10 DEF Iterating
<1> QED BY <1>2, <1>7, <1>8, <1>11

LEMMA IteratingLoopKeeps ==
  ASSUME ParserInv, IteratingLoop
  PROVE  ParserInv'
<1>1. Reading({"do_loop", "collect_loop"}, <<"expressions", "body">>)
  BY DEF IteratingLoop
<1>2. /\ status = "parsing" /\ at < Len(input) /\ ParserTypeOK /\ Between(heap, stack, Live)
      /\ Token.rule \in {"do_loop", "collect_loop"}
  BY <1>1, NoValue
<1>3. /\ 2 \in 0 .. Len(stack) /\ Value(2, "expressions") /\ Value(1, "body")
      /\ Popped(stack, 2) = Range(Top(2).nodes) \cup Range(Top(1).nodes)
      /\ Range(Top(2).nodes) \cap Range(Top(1).nodes) = {}
  BY <1>1, TwoValues
<1>4. PICK l : l = NodeAt(2)
  OBVIOUS
<1>5. PICK b : b = NodeAt(1)
  OBVIOUS
<1>6. /\ l \in Held(stack) /\ heap[l].kind = "list" /\ b \in Held(stack) /\ b \in Nat
      /\ b # l /\ Popped(stack, 2) = {l, b}
  BY <1>3, <1>4, <1>5 DEF Value
<1>7. /\ Len(heap) \in Nat /\ freed \subseteq DOMAIN heap /\ Live = DOMAIN heap \ freed
      /\ Held(stack) \subseteq DOMAIN heap /\ 1 \notin Held(stack) /\ 1 \in Live /\ Held(stack) \subseteq Live
  BY <1>2, Typed DEF Between, Forest
<1>8. Token.rule \in Kinds /\ Token.rule # "list"
  BY <1>2 DEF Kinds
<1>9. PICK m : m = MadeLoop(Token.rule)
  OBVIOUS
<1>10. PICK h : h = Transfer(m, Iterator, l)
  OBVIOUS
<1>11. PICK gone : gone = Owned(h, l)
  OBVIOUS
<1>12. Iterating(m, l, h, gone)
  BY <1>2, <1>6, <1>8, <1>9, <1>10, <1>11, IteratorTakesList
<1>13. /\ Loop \in Nat /\ Iterator \in Nat /\ Loop # Iterator /\ Loop \notin DOMAIN heap /\ Iterator \notin DOMAIN heap
  BY <1>2, <1>8, MakingLoop
<1> DEFINE live == Live \cup {Loop, Iterator}
           roots == {1} \cup Held(stack) \cup {Loop, Iterator}
<1>14. /\ Grown(m) /\ DOMAIN m = DOMAIN heap \cup {Loop, Iterator}
       /\ (\A n \in DOMAIN heap : m[n] = heap[n]) /\ h[Loop].kind # "list"
       /\ Transferred(m, live, roots, l, Iterator, h, gone)
  BY <1>12 DEF Iterating
<1>15. Loop \in roots /\ Iterator \in roots /\ b \in roots /\ Loop # l /\ Iterator # l /\ b # Loop /\ b # Iterator
  BY <1>6, <1>7, <1>13
<1>16. live \subseteq DOMAIN m /\ DOMAIN m \ freed = live
  BY <1>7, <1>13, <1>14
<1>17. gone \subseteq Live
  BY <1>14, <1>15 DEF Transferred
<1> HIDE DEF live, roots
<1>18. /\ Len(h) = Len(m) /\ DOMAIN h = DOMAIN m /\ Pointers(h)
       /\ \A n \in DOMAIN m : h[n].kind = m[n].kind /\ (n \notin live => h[n] = m[n])
       /\ gone \subseteq live /\ gone \cap roots = {l}
       /\ Forest(h, live \ gone, roots \ {l}) /\ Lists(h, live \ gone)
  BY <1>14 DEF Transferred
<1>19. PICK kids : kids = IF Token.rule = "do_loop" THEN <<Iterator, b>> ELSE <<b, Iterator>>
  OBVIOUS
<1>20. kids \in Seq(Nat) /\ Injective(kids) /\ Range(kids) = {Iterator, b}
  <2>1. CASE Token.rule = "do_loop"
    BY <1>6, <1>13, <1>15, <1>19, <2>1, Pairs
  <2>2. CASE Token.rule # "do_loop"
    <3>1. kids \in Seq(Nat) /\ Injective(kids) /\ Range(kids) = {b, Iterator}
      BY <1>6, <1>13, <1>15, <1>19, <2>2, Pairs
    <3> QED BY <3>1
  <2> QED BY <2>1, <2>2
<1>21. PICK g : g = AddChildren(h, Loop, kids)
  OBVIOUS
<1>22. Hung(h, live \ gone, g, (roots \ {l}) \ Range(kids))
  <2>1. Range(kids) \subseteq roots \ {l} /\ Loop \in (roots \ {l}) \ Range(kids)
    BY <1>6, <1>15, <1>13, <1>20
  <2>2. Loop \in live \ gone
    BY <1>18, <2>1 DEF Forest
  <2> QED BY <1>14, <1>18, <1>20, <1>21, <2>1, <2>2, Adopting, RootIsAbove
<1>23. /\ Pointers(g) /\ Len(g) = Len(h) /\ DOMAIN g = DOMAIN h
       /\ Forest(g, live \ gone, (roots \ {l}) \ Range(kids)) /\ Lists(g, live \ gone)
       /\ \A n \in DOMAIN h : g[n].kind = h[n].kind /\ (n \notin live \ gone => g[n] = h[n])
  BY <1>22 DEF Hung
<1>24. Grown(g)
  BY <1>14, <1>18, <1>23 DEF Grown
<1>25. Clean(h, gone, g)
  <2>1. gone \subseteq DOMAIN heap \ freed
    BY <1>7, <1>17
  <2>2. \A n \in freed : n \in DOMAIN heap /\ n \in DOMAIN m /\ n \notin live
    BY <1>7, <1>14, <1>16
  <2>3. \A n \in freed : h[n] = heap[n]
    BY <1>14, <1>18, <2>2
  <2>4. \A n \in freed \cup gone : g[n] = h[n]
    BY <1>16, <1>18, <1>23, <2>2
  <2> QED BY <2>1, <2>3, <2>4 DEF Clean
<1>26. (DOMAIN g \ freed) \ gone = live \ gone
  BY <1>16, <1>18, <1>23
<1>27. <<Loop>> \in Seq(Nat) /\ Injective(<<Loop>>) /\ Range(<<Loop>>) = {Loop} /\ Len(<<Loop>>) = 1
  BY <1>13, SmallSequences
<1>28. (roots \ {l}) \ Range(kids) = Remaining(2) \cup Range(<<Loop>>) /\ Range(<<Loop>>) \cap Remaining(2) = {}
  BY <1>6, <1>7, <1>13, <1>15, <1>20, <1>27 DEF Remaining, roots
<1>29. Fits(g, [symbol |-> "expression", nodes |-> <<Loop>>])
  BY <1>27 DEF Fits
<1>30. ReduceThen(2, "expression", <<Loop>>, h, gone, g)
  BY <1>4, <1>5, <1>9, <1>10, <1>11, <1>19, <1>21 DEF IteratingLoop
<1>31. "expression" \in Symbols
  BY DEF Symbols
<1> QED BY <1>2, <1>3, <1>23, <1>24, <1>25, <1>26, <1>27, <1>28, <1>29, <1>30, <1>31, Reducing

\* Pointers stay in the heap when a node gets children that are there.
LEMMA AddedPointers ==
  ASSUME NEW h, Pointers(h), NEW p \in DOMAIN h, NEW cs \in Seq(Nat), Range(cs) \subseteq DOMAIN h
  PROVE  /\ Pointers(AddChildren(h, p, cs)) /\ Added(h, p, cs, AddChildren(h, p, cs))
         /\ Len(AddChildren(h, p, cs)) = Len(h) /\ DOMAIN AddChildren(h, p, cs) = DOMAIN h
<1>1. h \in Seq(Node)
  BY DEF Pointers
<1>2. p \in Nat /\ p \in 1 .. Len(h) /\ DOMAIN h = 1 .. Len(h) /\ Len(h) \in Nat
  BY <1>1, HeapNode
<1>3. PICK g : g = AddChildren(h, p, cs)
  OBVIOUS
<1>4. Added(h, p, cs, g)
  BY <1>1, <1>2, <1>3, Adding
<1>5. /\ g \in Seq(Node) /\ Len(g) = Len(h) /\ DOMAIN g = DOMAIN h
      /\ \A n \in DOMAIN h :
           /\ g[n].kind = h[n].kind /\ g[n].head = h[n].head /\ g[n].tail = h[n].tail
           /\ g[n].parent = IF n \in Range(cs) THEN p ELSE h[n].parent
           /\ g[n].children = IF n = p THEN h[n].children \o cs ELSE h[n].children
           /\ n # p /\ n \notin Range(cs) => g[n] = h[n]
  BY <1>4 DEF Added
<1>6. h[p].children \in Seq(Nat)
  BY <1>1, HeapNode
<1>7. Pointers(g)
  <2> SUFFICES ASSUME NEW n \in DOMAIN h
               PROVE  /\ g[n].parent \in 0 .. Len(h) /\ g[n].head \in 0 .. Len(h) /\ g[n].tail \in 0 .. Len(h)
                      /\ Range(g[n].children) \subseteq 0 .. Len(h)
    BY <1>5 DEF Pointers
  <2>1. /\ h[n].parent \in 0 .. Len(h) /\ h[n].head \in 0 .. Len(h) /\ h[n].tail \in 0 .. Len(h)
        /\ Range(h[n].children) \subseteq 0 .. Len(h)
    BY DEF Pointers
  <2>2. p \in 0 .. Len(h) /\ Range(cs) \subseteq 0 .. Len(h)
    <3>1. 1 .. Len(h) \subseteq 0 .. Len(h)
      BY <1>2
    <3> QED BY <1>2, <3>1
  <2>3. Range(h[p].children \o cs) = Range(h[p].children) \cup Range(cs)
    BY <1>6, RangeConcatenation
  <2>4. Range(g[n].children) \subseteq 0 .. Len(h)
    BY <1>5, <2>1, <2>2, <2>3
  <2> QED BY <1>5, <2>1, <2>2, <2>4
<1> QED BY <1>3, <1>4, <1>5, <1>7

LEMMA WhenLoopKeeps ==
  ASSUME ParserInv, WhenLoop
  PROVE  ParserInv'
<1>1. Reading({"when_loop"}, <<"expressions", "expression", "expression">>)
  BY DEF WhenLoop
<1>2. /\ status = "parsing" /\ at < Len(input) /\ ParserTypeOK /\ Between(heap, stack, Live)
      /\ Token.rule \in {"when_loop"}
  BY <1>1, NoValue
<1>3. /\ 3 \in 0 .. Len(stack) /\ Value(3, "expressions") /\ Value(2, "expression") /\ Value(1, "expression")
      /\ Range(Top(3).nodes) \cap Range(Top(2).nodes) = {}
      /\ Range(Top(3).nodes) \cap Range(Top(1).nodes) = {}
      /\ Range(Top(2).nodes) \cap Range(Top(1).nodes) = {}
  BY <1>1, ThreeValues
<1>4. PICK l : l = NodeAt(3)
  OBVIOUS
<1>5. PICK a : a = NodeAt(2)
  OBVIOUS
<1>6. PICK b : b = NodeAt(1)
  OBVIOUS
<1>7. /\ l \in Held(stack) /\ l \in Nat /\ heap[l].kind = "list" /\ a \in Held(stack) /\ a \in Nat
      /\ b \in Held(stack) /\ b \in Nat /\ l # a /\ l # b /\ a # b
  BY <1>3, <1>4, <1>5, <1>6 DEF Value
<1>8. /\ heap \in Seq(Node) /\ Pointers(heap) /\ Len(heap) \in Nat /\ DOMAIN heap = 1 .. Len(heap)
      /\ freed \subseteq DOMAIN heap /\ Live = DOMAIN heap \ freed
      /\ stack \in Seq(Entry) /\ Distinct(stack) /\ Held(stack) \subseteq DOMAIN heap
      /\ input \in Inputs /\ at \in 0 .. Len(input) /\ Len(input) \in Nat
  BY <1>2, Typed DEF Between
<1>9. PICK m : m = MadeLoop("when_loop")
  OBVIOUS
<1>10. PICK h : h = Transfer(m, Iterator, l)
  OBVIOUS
<1>11. PICK gone : gone = Owned(h, l)
  OBVIOUS
<1>12. "when_loop" \in Kinds /\ "when_loop" # "list"
  BY DEF Kinds
<1>13. Iterating(m, l, h, gone)
  BY <1>2, <1>7, <1>9, <1>10, <1>11, <1>12, IteratorTakesList
<1>14. /\ Loop \in Nat /\ Iterator \in Nat /\ Loop \notin DOMAIN heap /\ Iterator \notin DOMAIN heap
  BY <1>2, <1>12, MakingLoop
<1> DEFINE live == Live \cup {Loop, Iterator}
           roots == {1} \cup Held(stack) \cup {Loop, Iterator}
<1>15. /\ Grown(m) /\ DOMAIN m = DOMAIN heap \cup {Loop, Iterator}
       /\ (\A n \in DOMAIN heap : m[n] = heap[n])
       /\ Transferred(m, live, roots, l, Iterator, h, gone)
  BY <1>13 DEF Iterating
<1>16. l \in roots /\ live \subseteq DOMAIN m
  BY <1>7, <1>8, <1>15
<1> HIDE DEF live, roots
<1>17. /\ Len(h) = Len(m) /\ DOMAIN h = DOMAIN m /\ Pointers(h)
       /\ h[l].parent = heap[l].parent /\ l \in gone /\ gone \subseteq DOMAIN m
  BY <1>7, <1>8, <1>15, <1>16 DEF Transferred
<1>18. PICK g : g = AddChild(h, Iterator, l)
  OBVIOUS
<1>19. /\ <<l>> \in Seq(Nat) /\ Range(<<l>>) = {l}
       /\ <<a, b>> \in Seq(Nat) /\ Range(<<a, b>>) = {a, b}
  BY <1>7, SmallSequences, Pairs
<1>20. Pointers(g) /\ Len(g) = Len(m) /\ DOMAIN g = DOMAIN m /\ g[l].parent = Iterator
  <2>1. Iterator \in DOMAIN h /\ l \in DOMAIN h
    BY <1>7, <1>8, <1>15, <1>17
  <2>2. Pointers(g) /\ Added(h, Iterator, <<l>>, g) /\ Len(g) = Len(h) /\ DOMAIN g = DOMAIN h
    <3>1. PICK s : s = <<l>>
      OBVIOUS
    <3>2. s \in Seq(Nat) /\ Range(s) \subseteq DOMAIN h /\ g = AddChildren(h, Iterator, s)
      BY <1>18, <1>19, <2>1, <3>1 DEF AddChild
    <3> QED BY <1>17, <2>1, <3>1, <3>2, AddedPointers
  <2>3. g[l].parent = Iterator
    BY <1>19, <2>1, <2>2 DEF Added
  <2> QED BY <1>17, <2>2, <2>3
<1>21. PICK later : later = AddChildren(g, Loop, <<a, b>>)
  OBVIOUS
<1>22. Pointers(later) /\ Len(later) = Len(m) /\ DOMAIN later = DOMAIN m /\ later[l].parent = Iterator
  <2>1. Loop \in DOMAIN g /\ Range(<<a, b>>) \subseteq DOMAIN g /\ l \in DOMAIN g
    BY <1>7, <1>8, <1>15, <1>19, <1>20
  <2>2. Pointers(later) /\ Added(g, Loop, <<a, b>>, later) /\ Len(later) = Len(g) /\ DOMAIN later = DOMAIN g
    BY <1>19, <1>20, <1>21, <2>1, AddedPointers
  <2>3. l \notin Range(<<a, b>>)
    BY <1>7, <1>19
  <2>4. later[l].parent = g[l].parent
    BY <2>1, <2>2, <2>3 DEF Added
  <2> QED BY <1>20, <2>2, <2>4
<1>23. ReduceThen(3, "expression", <<Loop>>, h, gone, later)
  BY <1>4, <1>5, <1>6, <1>9, <1>10, <1>11, <1>18, <1>21 DEF WhenLoop
\* The list, deleted, is given a parent.
<1>24. later[l] # h[l]
  <2>1. heap[l].parent \in 0 .. Len(heap) /\ ~(Iterator \in 0 .. Len(heap))
    <3>1. heap[l].parent \in 0 .. Len(heap)
      BY <1>7, <1>8 DEF Pointers
    <3>2. ~(Iterator \in 0 .. Len(heap))
      BY <1>8 DEF Iterator, New
    <3> QED BY <3>1, <3>2
  <2> QED BY <1>17, <1>22, <2>1
<1>25. status' = "undefined"
  BY <1>17, <1>23, <1>24 DEF ReduceThen
<1>26. /\ heap' = later /\ freed' = freed \cup gone /\ at' = at + 1 /\ UNCHANGED input
       /\ stack' = Append(SubSeq(stack, 1, Len(stack) - 3), [symbol |-> "expression", nodes |-> <<Loop>>])
  BY <1>23 DEF ReduceThen, Below
<1>27. stack' \in Seq(Entry) /\ Held(stack') \subseteq DOMAIN heap'
  <2>1. PICK s : s = SubSeq(stack, 1, Len(stack) - 3)
    OBVIOUS
  <2>2. Cut(stack, 3, s)
    BY <1>3, <1>8, <2>1, Popping
  <2>3. s \in Seq(Entry) /\ Distinct(s) /\ Held(s) \subseteq Held(stack)
    BY <2>2 DEF Cut
  <2>4. <<Loop>> \in Seq(Nat) /\ Injective(<<Loop>>) /\ Range(<<Loop>>) = {Loop}
    BY <1>14, SmallSequences
  <2>5. Range(<<Loop>>) \cap Held(s) = {}
    BY <1>8, <1>14, <2>3, <2>4
  <2>6. "expression" \in Symbols
    BY DEF Symbols
  <2>7. Put(s, "expression", <<Loop>>, stack')
    BY <1>26, <2>1, <2>3, <2>4, <2>5, <2>6, Pushing
  <2>8. stack' \in Seq(Entry) /\ Held(stack') = Held(s) \cup {Loop}
    BY <2>4, <2>7 DEF Put
  <2> QED BY <1>8, <1>15, <1>22, <1>26, <2>3, <2>8
<1>28. ParserTypeOK'
  <2>1. Pointers(heap') /\ Len(heap) <= Len(heap')
    BY <1>15, <1>22, <1>26 DEF Grown
  <2>2. freed' \subseteq DOMAIN heap'
    BY <1>8, <1>15, <1>17, <1>22, <1>26
  <2>3. at' \in 0 .. Len(input)
    BY <1>2, <1>8, <1>26
  <2>4. status' \in Statuses
    BY <1>25 DEF Statuses
  <2> QED BY <1>2, <1>26, <1>27, <2>1, <2>2, <2>3, <2>4, TypesStay
<1>29. OnlyWhenLoopsUseFreedNodes'
  <2>1. input'[at'].rule = "when_loop"
    BY <1>2, <1>26 DEF Token
  <2>2. at' > 0
    BY <1>8, <1>26
  <2> QED BY <2>1, <2>2 DEF OnlyWhenLoopsUseFreedNodes
<1> QED BY <1>25, <1>28, <1>29 DEF ParserInv, EveryNodeIsFreedOnce

-----------------------------------------------------------------------------
(* The program                                                             *)

\* The only value on the stack goes to the root.
LEMMA ProgramKeeps ==
  ASSUME ParserInv, Program
  PROVE  ParserInv'
<1>1. PICK s \in Statements : Reading({"program"}, <<s>>)
  BY DEF Program
<1>2. /\ status = "parsing" /\ at < Len(input) /\ ParserTypeOK /\ Between(heap, stack, Live)
  BY <1>1, NoValue
<1>3. 1 \in 0 .. Len(stack) /\ Value(1, s) /\ Popped(stack, 1) = Range(Top(1).nodes)
  BY <1>1, OneValue
<1>4. PICK c : c = NodeAt(1)
  OBVIOUS
<1>5. c \in Held(stack) /\ c \in Nat /\ Popped(stack, 1) = {c}
  <2>1. s # "formals"
    BY DEF Statements
  <2> QED BY <1>3, <1>4, <2>1 DEF Value
<1>6. /\ Pointers(heap) /\ Len(heap) \in Nat /\ DOMAIN heap = 1 .. Len(heap)
      /\ freed \subseteq DOMAIN heap /\ Live = DOMAIN heap \ freed
      /\ stack \in Seq(Entry) /\ at \in 0 .. Len(input) /\ Len(input) \in Nat
      /\ Forest(heap, Live, {1} \cup Held(stack)) /\ Lists(heap, Live) /\ heap[1].kind = "root"
      /\ 1 \notin Held(stack) /\ 1 \in Live
  BY <1>2, Typed DEF Between, Forest
<1>7. stack' = <<>>
  <2>1. Len(stack) = 1 /\ stack' = SubSeq(stack, 1, Len(stack) - 1)
    BY DEF Program, Below
  <2>2. 1 - 1 = 0 /\ SubSeq(stack, 1, 0) = <<>>
    BY SubSeqEmpty
  <2> QED BY <2>1, <2>2
<1>8. Held(stack) = {c}
  <2>1. Cut(stack, 1, SubSeq(stack, 1, Len(stack) - 1))
    BY <1>2, <1>3, <1>6, Popping DEF Between
  <2>2. Cut(stack, 1, <<>>)
    BY <1>7, <2>1 DEF Program, Below
  <2>3. Held(<<>>) = {}
    BY DEF Held
  <2> QED BY <1>5, <2>2, <2>3 DEF Cut
<1>9. PICK g : g = AddChildren(heap, 1, <<c>>)
  OBVIOUS
<1>10. /\ heap' = g /\ at' = at + 1 /\ UNCHANGED <<input, freed>>
       /\ status' = IF at + 1 = Len(input) THEN "parsed" ELSE status
  BY <1>4, <1>9 DEF Program, AddChild
<1>11. Hung(heap, Live, g, {1})
  <2>1. PICK cs : cs = <<c>>
    OBVIOUS
  <2>2. cs \in Seq(Nat) /\ Injective(cs) /\ Range(cs) = {c}
    BY <1>5, <2>1, SmallSequences
  <2>3. ({1} \cup Held(stack)) \ Range(cs) = {1} /\ Range(cs) \subseteq {1} \cup Held(stack)
    BY <1>6, <1>8, <2>2
  <2>4. Above(heap, Live, {1} \cup Held(stack), 1, ({1} \cup Held(stack)) \ Range(cs))
    BY <2>3, RootIsAbove
  <2>5. heap[1].kind # "list"
    BY <1>6
  <2>6. Hung(heap, Live, g, ({1} \cup Held(stack)) \ Range(cs))
    BY <1>6, <1>9, <2>1, <2>2, <2>3, <2>4, <2>5, Adopting
  <2> QED BY <2>3, <2>6
<1>12. /\ Pointers(g) /\ Len(g) = Len(heap) /\ DOMAIN g = DOMAIN heap
       /\ Forest(g, Live, {1}) /\ Lists(g, Live) /\ g[1].kind = "root"
  BY <1>6, <1>11 DEF Hung
<1>13. Between(g, <<>>, Live)
  <2>1. <<>> \in Seq(Entry)
    BY EmptySeq
  <2>2. Held(<<>>) = {} /\ Distinct(<<>>) /\ Fit(g, <<>>)
    BY DEF Held, Distinct, Fit
  <2>3. {1} \cup Held(<<>>) = {1}
    BY <2>2
  <2> QED BY <1>12, <2>1, <2>2, <2>3 DEF Between
<1>14. status' \in {"parsing", "parsed"}
  BY <1>2, <1>10
<1>15. ParserTypeOK'
  <2>1. freed' \subseteq DOMAIN heap' /\ Pointers(heap') /\ Len(heap) <= Len(heap')
    BY <1>6, <1>10, <1>12
  <2>2. at' \in 0 .. Len(input)
    BY <1>2, <1>6, <1>10
  <2>3. status' \in Statuses
    BY <1>14 DEF Statuses
  <2>4. stack' \in Seq(Entry) /\ Held(stack') \subseteq DOMAIN heap'
    <3>1. Held(<<>>) = {}
      BY DEF Held
    <3>2. <<>> \in Seq(Entry)
      BY EmptySeq
    <3> QED BY <1>7, <3>1, <3>2
  <2> QED BY <1>2, <1>10, <2>1, <2>2, <2>3, <2>4, TypesStay
<1>16. Between(heap, stack, Live)'
  <2>1. Live' = Live
    BY <1>6, <1>10, <1>12 DEF Live
  <2>2. Between(heap', stack', Live')
    BY <1>7, <1>10, <1>13, <2>1
  <2> QED BY <2>2 DEF Between, Pointers, Fit, Fits, Held, Forest, Lists, CellsOf, Distinct, Upward
<1> QED BY <1>7, <1>14, <1>15, <1>16 DEF ParserInv, OnlyWhenLoopsUseFreedNodes, EveryNodeIsFreedOnce

LEMMA SyntaxErrorKeeps ==
  ASSUME ParserInv, SyntaxError
  PROVE  ParserInv'
<1>1. ParserTypeOK'
  BY DEF ParserInv, ParserTypeOK, SyntaxError, Statuses
<1> QED BY <1>1 DEF ParserInv, SyntaxError, OnlyWhenLoopsUseFreedNodes, EveryNodeIsFreedOnce

\* With nothing on the stack every live node is below the root.
LEMMA RootOwnsAll ==
  ASSUME NEW h \in Seq(Node), NEW live, Forest(h, live, {1})
  PROVE  Owned(h, 1) = live
<1>1. live \in SUBSET DOMAIN h /\ 1 \in live /\ Closed(h, live)
  BY DEF Forest, Closed
<1>2. 1 \in Owned(h, 1) /\ Closed(h, Owned(h, 1)) /\ Owned(h, 1) \subseteq live
  BY <1>1, OwnedIsClosed
<1> DEFINE S == live \ Owned(h, 1)
<1>3. Upward(h, {1}, S)
  <2> SUFFICES ASSUME NEW n \in S \ {1} PROVE h[n].parent \in S
    BY DEF Upward
  <2>1. h[n].parent \in live /\ n \in Range(h[h[n].parent].children)
    BY DEF Forest
  <2>2. h[n].parent \notin Owned(h, 1)
    BY <1>2, <2>1 DEF Closed
  <2> QED BY <2>1, <2>2
<1>4. S = {}
  <2> SUFFICES ASSUME S # {} PROVE FALSE
    OBVIOUS
  <2>1. S \cap {1} # {}
    BY <1>3 DEF Forest
  <2> QED BY <1>2, <2>1
<1> QED BY <1>2, <1>4

LEMMA DestroyKeeps ==
  ASSUME ParserInv, Destroy
  PROVE  ParserInv'
<1>1. status = "parsed" /\ ParserTypeOK /\ Between(heap, stack, Live) /\ stack = <<>>
  BY DEF Destroy, ParserInv
<1>2. /\ heap \in Seq(Node) /\ DOMAIN heap = 1 .. Len(heap) /\ freed \subseteq DOMAIN heap
      /\ Live = DOMAIN heap \ freed
  BY <1>1, Typed
<1>3. Forest(heap, Live, {1})
  <2>1. {1} \cup Held(stack) = {1}
    BY <1>1 DEF Held
  <2> QED BY <1>1, <2>1 DEF Between
<1>4. Owned(heap, 1) = Live
  BY <1>2, <1>3, RootOwnsAll
<1>5. freed' = 1 .. Len(heap) /\ status' = "destroyed" /\ UNCHANGED <<input, at, stack, heap>>
  BY <1>2, <1>4 DEF Destroy
<1>6. ParserTypeOK'
  BY <1>1, <1>2, <1>5 DEF ParserTypeOK, Statuses
<1>7. EveryNodeIsFreedOnce'
  BY <1>5 DEF EveryNodeIsFreedOnce
<1> QED BY <1>5, <1>6, <1>7 DEF ParserInv, OnlyWhenLoopsUseFreedNodes

-----------------------------------------------------------------------------
(* The invariant                                                           *)

LEMMA ParserStarts ==
  ASSUME ParserInit
  PROVE  ParserInv
<1>1. PICK r : r = NewNode("root", "", "", Null)
  OBVIOUS
<1>2. /\ r \in Node /\ r.children = <<>> /\ r.parent = 0 /\ r.head = 0 /\ r.tail = 0 /\ r.kind = "root"
  <2>1. "root" \in Kinds /\ "" \in MaybeName /\ Null \in MaybeType /\ <<>> \in Seq(Nat)
    BY EmptySeq DEF Kinds, MaybeName, MaybeType
  <2> QED BY <1>1, <2>1 DEF NewNode, Node
<1>3. input \in Inputs /\ at = 0 /\ stack = <<>> /\ heap = <<r>> /\ freed = {} /\ status = "parsing"
  BY <1>1 DEF ParserInit
<1>4. heap \in Seq(Node) /\ Len(heap) = 1 /\ heap[1] = r /\ DOMAIN heap = {1}
  <2>1. heap \in Seq(Node) /\ Len(heap) = 1 /\ heap[1] = r
    BY <1>2, <1>3
  <2>2. DOMAIN heap = 1 .. 1 /\ 1 .. 1 = {1}
    BY <2>1
  <2> QED BY <2>1, <2>2
<1>5. Pointers(heap) /\ Range(heap[1].children) = {}
  <2>1. Range(heap[1].children) = {}
    BY <1>2, <1>4, SmallRanges
  <2>2. 0 \in 0 .. Len(heap)
    BY <1>4
  <2> QED BY <1>2, <1>4, <2>1, <2>2 DEF Pointers
<1>6. <<>> \in Seq(Entry) /\ Held(<<>>) = {} /\ Distinct(<<>>) /\ Fit(heap, <<>>)
  <2>1. <<>> \in Seq(Entry)
    BY EmptySeq
  <2> QED BY <2>1 DEF Held, Distinct, Fit
<1>7. ParserTypeOK
  <2>1. at \in 0 .. Len(input)
    <3>1. Len(input) \in Nat
      BY <1>3, InputsAssumption
    <3> QED BY <1>3, <3>1
  <2>2. stack \in Seq([symbol : Symbols, nodes : Seq(1 .. Len(heap))])
    BY <1>3, EmptySeq
  <2>3. \A n \in DOMAIN heap :
          {heap[n].parent, heap[n].head, heap[n].tail} \cup Range(heap[n].children) \subseteq 0 .. Len(heap)
    BY <1>5 DEF Pointers
  <2> QED BY <1>3, <1>4, <2>1, <2>2, <2>3 DEF ParserTypeOK, Statuses
<1>8. Live = {1}
  BY <1>3, <1>4 DEF Live
<1>9. Forest(heap, {1}, {1}) /\ Lists(heap, {1})
  <2>1. \A i, j \in DOMAIN heap[1].children : heap[1].children[i] = heap[1].children[j] => i = j
    BY <1>2, <1>4
  <2> QED BY <1>2, <1>4, <1>5, <2>1 DEF Forest, Lists
<1>10. Between(heap, stack, Live)
  <2>1. {1} \cup Held(stack) = {1}
    BY <1>3, <1>6
  <2> QED BY <1>2, <1>3, <1>4, <1>5, <1>6, <1>8, <1>9, <2>1 DEF Between
<1> QED BY <1>3, <1>7, <1>10 DEF ParserInv, OnlyWhenLoopsUseFreedNodes, EveryNodeIsFreedOnce

LEMMA ParserInvStutters ==
  ASSUME ParserInv, UNCHANGED pvars
  PROVE  ParserInv'
<1>1. input' = input /\ at' = at /\ stack' = stack /\ heap' = heap /\ freed' = freed /\ status' = status
  BY DEF pvars
<1>2. ParserTypeOK'
  BY <1>1 DEF ParserInv, ParserTypeOK
<1>3. Live' = Live
  BY <1>1 DEF Live
<1>4. Between(heap, stack, Live) => Between(heap, stack, Live)'
  <2>1. Between(heap, stack, Live) => Between(heap', stack', Live')
    BY <1>1, <1>3
  <2> QED BY <2>1 DEF Between, Pointers, Fit, Fits, Held, Forest, Lists, CellsOf, Distinct, Upward
<1> QED BY <1>1, <1>2, <1>4 DEF ParserInv, OnlyWhenLoopsUseFreedNodes, EveryNodeIsFreedOnce

LEMMA ParserSteps ==
  ASSUME ParserInv, [ParserNext]_pvars
  PROVE  ParserInv'
<1>1. CASE SimpleExpression BY <1>1, SimpleExpressionKeeps
<1>2. CASE FirstExpression BY <1>2, FirstExpressionKeeps
<1>3. CASE NextExpression BY <1>3, NextExpressionKeeps
<1>4. CASE Quote BY <1>4, QuoteKeeps
<1>5. CASE Operator BY <1>5, OperatorKeeps
<1>6. CASE FunctionCall BY <1>6, FunctionCallKeeps
<1>7. CASE Body BY <1>7, BodyKeeps
<1>8. CASE VariableDefinition BY <1>8, VariableDefinitionKeeps
<1>9. CASE Formals BY <1>9, FormalsKeeps
<1>10. CASE FunctionDefinition BY <1>10, FunctionDefinitionKeeps
<1>11. CASE InfiniteLoop BY <1>11, InfiniteLoopKeeps
<1>12. CASE IteratingLoop BY <1>12, IteratingLoopKeeps
<1>13. CASE WhenLoop BY <1>13, WhenLoopKeeps
<1>14. CASE Program BY <1>14, ProgramKeeps
<1>15. CASE SyntaxError BY <1>15, SyntaxErrorKeeps
<1>16. CASE Destroy BY <1>16, DestroyKeeps
<1>17. CASE UNCHANGED pvars BY <1>17, ParserInvStutters
<1> QED BY <1>1, <1>2, <1>3, <1>4, <1>5, <1>6, <1>7, <1>8, <1>9, <1>10, <1>11, <1>12, <1>13, <1>14, <1>15,
           <1>16, <1>17 DEF ParserNext

\* The parser keeps its invariant, whatever it reduces.
LEMMA ParserKeeps == ParserSpec => []ParserInv
<1>1. ParserInit => ParserInv
  BY ParserStarts
<1>2. ParserInv /\ [ParserNext]_pvars => ParserInv'
  BY ParserSteps
<1> QED BY <1>1, <1>2, PTL DEF ParserSpec

\* The stack and the pointers of every node are within the heap, for every input.
THEOREM ParserIsTyped == ParserSpec => []ParserTypeOK
<1>1. ParserInv => ParserTypeOK
  BY DEF ParserInv
<1> QED BY <1>1, ParserKeeps, PTL

\* Of all the actions of slc.yy only that of a when loop uses what it deleted.
THEOREM ParserUsesWhatItOwns == ParserSpec => []OnlyWhenLoopsUseFreedNodes
<1>1. ParserInv => OnlyWhenLoopsUseFreedNodes
  BY DEF ParserInv
<1> QED BY <1>1, ParserKeeps, PTL

\* Lists that were handed over and the root's destructor free every node once.
THEOREM ParserFreesEveryNode == ParserSpec => []EveryNodeIsFreedOnce
<1>1. ParserInv => EveryNodeIsFreedOnce
  BY DEF ParserInv
<1> QED BY <1>1, ParserKeeps, PTL

LEMMA OwnersOfNodes ==
  ASSUME Forest(heap, Live, Roots), NEW n \in Live
  PROVE  IF n \in Roots THEN Owners(n) = {}
         ELSE Cardinality(Owners(n)) = 1 /\ \E o \in Owners(n) : o[1] = heap[n].parent
<1>1. ASSUME NEW o \in Owners(n)
      PROVE  \E p \in Live : \E i \in DOMAIN heap[p].children : o = <<p, i>> /\ heap[p].children[i] = n
  BY DEF Owners
<1>2. \A p \in Live : Range(heap[p].children) \subseteq Live \ Roots
  BY DEF Forest
<1>3. ASSUME NEW p \in Live, NEW i \in DOMAIN heap[p].children, heap[p].children[i] = n
      PROVE  n \in Range(heap[p].children)
  BY <1>3 DEF Range
<1>4. CASE n \in Roots
  <2>1. Owners(n) = {}
    <3> SUFFICES ASSUME NEW o \in Owners(n) PROVE FALSE
      OBVIOUS
    <3>1. PICK p \in Live : \E i \in DOMAIN heap[p].children : o = <<p, i>> /\ heap[p].children[i] = n
      BY <1>1
    <3> QED BY <1>2, <1>3, <1>4, <3>1
  <2> QED BY <1>4, <2>1
<1>5. CASE n \notin Roots
  <2>1. PICK p : p = heap[n].parent
    OBVIOUS
  <2>2. p \in Live /\ n \in Range(heap[p].children)
    BY <1>5, <2>1 DEF Forest
  <2>3. PICK i \in DOMAIN heap[p].children : heap[p].children[i] = n
    BY <2>2 DEF Range
  <2>4. <<p, i>> \in Owners(n)
    BY <2>2, <2>3 DEF Owners
  <2>5. ASSUME NEW o \in Owners(n) PROVE o = <<p, i>>
    <3>1. PICK q \in Live : \E j \in DOMAIN heap[q].children : o = <<q, j>> /\ heap[q].children[j] = n
      BY <1>1
    <3>2. PICK j \in DOMAIN heap[q].children : o = <<q, j>> /\ heap[q].children[j] = n
      BY <3>1
    <3>3. q = p
      BY <1>3, <2>1, <3>2 DEF Forest
    <3>4. j = i
      BY <2>2, <2>3, <3>2, <3>3 DEF Forest
    <3> QED BY <3>2, <3>3, <3>4
  <2>6. Owners(n) = {<<p, i>>}
    BY <2>4, <2>5
  <2>7. Cardinality(Owners(n)) = 1
    BY <2>6, FS_Singleton
  <2>8. \E o \in Owners(n) : o[1] = heap[n].parent
    BY <2>1, <2>4
  <2> QED BY <1>5, <2>7, <2>8
<1> QED BY <1>4, <1>5

\* Between two reductions the live nodes are trees, each node in one vector once, that of
\* its parent, under the root and under what is on the stack.
THEOREM ParserBuildsTrees == ParserSpec => []TreesAreOwned
<1>1. ASSUME ParserInv PROVE TreesAreOwned
  <2> SUFFICES ASSUME status \in {"parsing", "parsed"}
               PROVE  /\ Roots \subseteq Live
                      /\ \A n \in Live :
                           /\ Range(heap[n].children) \subseteq Live
                           /\ IF n \in Roots THEN Owners(n) = {}
                              ELSE Cardinality(Owners(n)) = 1 /\ \E o \in Owners(n) : o[1] = heap[n].parent
                           /\ heap[n].kind = "list" =>
                                heap[n].children = IF heap[n].tail = 0 THEN <<heap[n].head>>
                                                   ELSE <<heap[n].head, heap[n].tail>>
    BY DEF TreesAreOwned
  <2>1. Between(heap, stack, Live)
    BY <1>1 DEF ParserInv
  <2>2. Roots = {1} \cup Held(stack)
    BY DEF Roots, Held
  <2>3. Forest(heap, Live, Roots) /\ Lists(heap, Live)
    BY <2>1, <2>2 DEF Between
  <2>4. Roots \subseteq Live /\ \A n \in Live : Range(heap[n].children) \subseteq Live
    BY <2>3 DEF Forest
  <2>5. \A n \in Live : heap[n].kind = "list" =>
          heap[n].children = IF heap[n].tail = 0 THEN <<heap[n].head>> ELSE <<heap[n].head, heap[n].tail>>
    BY <2>3 DEF Lists, CellsOf
  <2> QED BY <2>3, <2>4, <2>5, OwnersOfNodes
<1>2. ParserInv => TreesAreOwned
  BY <1>1
<1> QED BY <1>2, ParserKeeps, PTL
=============================================================================
